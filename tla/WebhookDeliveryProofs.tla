----------------------- MODULE WebhookDeliveryProofs -----------------------
(***************************************************************************)
(* Theorems about WebhookDelivery, for any number of rows and workers, any *)
(* max_attempts and any number of faults.  The argument: an attempt number *)
(* only ever grows by one, between a worker's read and its request, so     *)
(* whatever number ends up in a row was paid for by as many requests.      *)
(* Repeats are paid for too: a worker that tries is a repeat in waiting,   *)
(* and nothing but a fault or an overlapping fetch adds one.               *)
(***************************************************************************)
EXTENDS WebhookDelivery, FiniteSetTheorems, TLAPS

\* The two halves of the invariant: numbers of attempts, and repeats.
AttemptInv ==
    /\ TypeOK
    /\ RowsCounted /\ SnapshotsCounted /\ JobsCounted
    /\ DeliveredWasReceived

RepeatInv ==
    /\ HeldOnce /\ RepeatsPaid
    /\ \A d \in Deliveries : IsFiniteSet(Trying(d))

-----------------------------------------------------------------------------
(* Numbers of attempts *)

\* The empty table satisfies the invariant.
LEMMA InitInv == Init => AttemptInv
BY ConstantsAssumption
DEF Init, AttemptInv, TypeOK, RowsCounted, SnapshotsCounted, JobsCounted,
    Counted, DeliveredWasReceived,
    ConstantsAssumption

\* Inserting a row, and the end of a backoff.
LEMMA RowStep ==
    ASSUME AttemptInv, NEW d \in Deliveries,
           CreateDelivery(d) \/ BackoffEnds(d)
    PROVE  AttemptInv'
BY DEF AttemptInv, CreateDelivery, BackoffEnds, NoFault, workerVars, histVars,
       TypeOK, RowsCounted, SnapshotsCounted, JobsCounted, Counted,
       DeliveredWasReceived

\* A fetch reads only rows that have an attempt left.
LEMMA FetchStep ==
    ASSUME AttemptInv, NEW w \in Workers, FetchPendingDeliveries(w)
    PROVE  AttemptInv'
<1> USE DEF AttemptInv
<1>1. PICK rows \in SUBSET Ready :
        batch' = [batch EXCEPT
           ![w] = {[row |-> d, attempts |-> attempts[d]] : d \in rows}]
  BY DEF FetchPendingDeliveries
<1>2. /\ overlaps' \in [Deliveries -> Nat]
      /\ UNCHANGED <<status, attempts, due, stage, job, posts, received,
                     unread, faults>>
  BY DEF FetchPendingDeliveries, NoFault, rowVars, TypeOK
<1>3. \A s \in batch'[w] : /\ s \in Jobs
                           /\ s.attempts < MaxAttempts
                           /\ Counted(s.row, s.attempts)
  BY <1>1 DEF Ready, Jobs, TypeOK, RowsCounted
<1>4. \A v \in Workers : v # w => batch'[v] = batch[v]
  BY <1>1 DEF TypeOK
<1>5. batch' \in [Workers -> SUBSET Jobs]
  BY <1>1, <1>3 DEF TypeOK
<1>6. TypeOK'
  BY <1>2, <1>5 DEF TypeOK
<1>7. RowsCounted' /\ SnapshotsCounted' /\ JobsCounted'
  BY <1>2, <1>3, <1>4 DEF RowsCounted, SnapshotsCounted, JobsCounted, Counted
<1>8. DeliveredWasReceived'
  BY <1>2 DEF DeliveredWasReceived
<1>9. QED
  BY <1>6, <1>7, <1>8

\* deliver takes a row up, with or without a configuration.
LEMMA BeginStep ==
    ASSUME AttemptInv, NEW w \in Workers, NEW s \in batch[w],
           ConfigFound(w, s) \/ ConfigMissing(w, s)
    PROVE  AttemptInv'
<1> USE ConstantsAssumption
    DEF ConstantsAssumption, AttemptInv, rowVars, histVars, Fault, NoFault
<1>1. /\ s \in Jobs /\ s.row \in Deliveries /\ s.attempts \in Nat
      /\ s.attempts < MaxAttempts /\ Counted(s.row, s.attempts)
  BY DEF TypeOK, SnapshotsCounted, Jobs
<1>2. PICK where \in {"send", "failed"}, n \in 0..MaxAttempts :
        /\ Begin(w, s, where, n)
        /\ where = "send" => n = s.attempts + 1 /\ unread' = unread
        /\ where = "failed" => unread' = unread \cup {s.row}
        /\ faults' \in 0..MaxFaults
        /\ UNCHANGED <<status, attempts, due, posts, received, overlaps>>
  <2>1. CASE ConfigFound(w, s)
    <3>1. /\ Begin(w, s, "send", s.attempts + 1) /\ faults' = faults
          /\ UNCHANGED <<status, attempts, due, posts, received, overlaps,
                         unread>>
      BY <2>1 DEF ConfigFound, Attempt
    <3>2. s.attempts + 1 \in 0..MaxAttempts /\ faults \in 0..MaxFaults
      BY <1>1 DEF TypeOK
    <3>3. QED
      BY <3>1, <3>2
  <2>2. CASE ConfigMissing(w, s)
    BY <2>2 DEF ConfigMissing, TypeOK
  <2>3. QED
    BY <2>1, <2>2
<1>3. /\ batch' = [batch EXCEPT ![w] = @ \ {s}]
      /\ stage' = [stage EXCEPT ![w] = where]
      /\ job' = [job EXCEPT ![w] = [row |-> s.row, attempts |-> n]]
      /\ [row |-> s.row, attempts |-> n] \in Jobs
      /\ unread' \subseteq Deliveries /\ unread \subseteq unread'
  BY <1>1, <1>2 DEF Begin, Jobs, TypeOK
<1>4. TypeOK'
  BY <1>2, <1>3 DEF TypeOK
<1>5. \A d \in Deliveries, k \in Int : Counted(d, k) => Counted(d, k)'
  BY <1>2, <1>3 DEF Counted
<1>6. RowsCounted' /\ SnapshotsCounted' /\ JobsCounted'
  <2>1. \A d \in Deliveries : Counted(d, attempts[d])'
    BY <1>2, <1>5 DEF RowsCounted, TypeOK
  <2>2. \A v \in Workers : \A t \in batch'[v] :
          t.attempts < MaxAttempts /\ Counted(t.row, t.attempts)'
    BY <1>3, <1>5 DEF SnapshotsCounted, TypeOK, Jobs
  <2>3. \A v \in Workers \ {w} :
          /\ stage[v] = "send" => Counted(job[v].row, job[v].attempts - 1)'
          /\ stage[v] = "failed" => Counted(job[v].row, job[v].attempts)'
    <3> SUFFICES ASSUME NEW v \in Workers \ {w}, stage[v] # "idle"
        PROVE /\ stage[v] = "send" => Counted(job[v].row, job[v].attempts - 1)'
              /\ stage[v] = "failed" => Counted(job[v].row, job[v].attempts)'
      BY DEF TypeOK
    <3>1. job'[v] = job[v]
      BY <1>3 DEF TypeOK
    <3>2. job[v].row \in Deliveries /\ job[v].attempts \in Nat
      BY DEF TypeOK, Jobs
    <3>3. stage[v] = "send" => Counted(job[v].row, job[v].attempts - 1)
      BY DEF JobsCounted
    <3>4. stage[v] = "failed" => Counted(job[v].row, job[v].attempts)
      BY DEF JobsCounted
    <3>5. posts' = posts /\ unread \subseteq unread'
      BY <1>2, <1>3
    <3>6. QED
      BY <3>1, <3>3, <3>4, <3>5 DEF Counted
  <2>4. /\ where = "send" => Counted(s.row, n - 1)'
        /\ where = "failed" => Counted(s.row, n)'
    BY <1>1, <1>2, <1>5 DEF Counted
  <2>5. QED
    BY <1>2, <1>3, <2>1, <2>2, <2>3, <2>4
       DEF RowsCounted, SnapshotsCounted, JobsCounted, TypeOK
<1>7. DeliveredWasReceived'
  BY <1>2 DEF DeliveredWasReceived
<1>8. QED
  BY <1>4, <1>6, <1>7

\* One request to the merchant: the count of requests catches up.
LEMMA PostStep ==
    ASSUME AttemptInv, NEW w \in Workers,
           SendAccepted(w) \/ SendRefused(w) \/ AnswerLost(w)
    PROVE  AttemptInv'
<1> USE ConstantsAssumption
    DEF ConstantsAssumption, AttemptInv, rowVars, Fault, NoFault
<1>1. PICK accepted \in BOOLEAN, outcome \in {"delivered", "failed"} :
        /\ Post(w, accepted, outcome)
        /\ outcome = "delivered" => accepted
        /\ faults' \in 0..MaxFaults
  <2>1. CASE SendAccepted(w)
    BY <2>1 DEF SendAccepted, TypeOK
  <2>2. CASE SendRefused(w)
    BY <2>2 DEF SendRefused, Refusal, TypeOK
  <2>3. CASE AnswerLost(w)
    <3>1. Post(w, TRUE, "failed") /\ Fault
      BY <2>3 DEF AnswerLost
    <3>2. faults' \in 0..MaxFaults
      BY <3>1 DEF TypeOK
    <3>3. QED
      BY <3>1, <3>2
  <2>4. QED
    BY <2>1, <2>2, <2>3
<1>2. /\ stage[w] = "send" /\ job[w] \in Jobs
      /\ job[w].row \in Deliveries /\ job[w].attempts \in Nat
  BY <1>1 DEF Post, TypeOK, Jobs
<1>3. /\ UNCHANGED <<status, attempts, due, batch, job, overlaps, unread>>
      /\ stage' = [stage EXCEPT ![w] = outcome]
      /\ posts' = [posts EXCEPT ![job[w].row] = @ + 1]
      /\ received' = IF accepted
                     THEN [received EXCEPT ![job[w].row] = @ + 1]
                     ELSE received
  BY <1>1 DEF Post
<1>4. TypeOK'
  BY <1>1, <1>2, <1>3 DEF TypeOK
<1>5. \A d \in Deliveries : posts'[d] >= posts[d] /\ received'[d] >= received[d]
  BY <1>2, <1>3 DEF TypeOK
<1>6. \A d \in Deliveries, n \in Int : Counted(d, n) => Counted(d, n)'
  BY <1>3, <1>4, <1>5 DEF Counted, TypeOK
<1>7. Counted(job[w].row, job[w].attempts)'
  BY <1>2, <1>3 DEF Counted, TypeOK, JobsCounted
<1>8. outcome = "delivered" => received'[job[w].row] > 0
  BY <1>1, <1>2, <1>3 DEF TypeOK
<1>9. DeliveredWasReceived'
  BY <1>3, <1>4, <1>5 DEF DeliveredWasReceived, TypeOK
<1>10. RowsCounted' /\ SnapshotsCounted' /\ JobsCounted'
  <2>1. \A d \in Deliveries : Counted(d, attempts[d])'
    BY <1>3, <1>6 DEF RowsCounted, TypeOK
  <2>2. \A v \in Workers : \A s \in batch[v] : Counted(s.row, s.attempts)'
    BY <1>6 DEF SnapshotsCounted, TypeOK, Jobs
  <2>3. \A v \in Workers \ {w} :
          /\ stage[v] = "send" => Counted(job[v].row, job[v].attempts - 1)'
          /\ stage[v] = "failed" => Counted(job[v].row, job[v].attempts)'
          /\ stage[v] = "delivered" => received'[job[v].row] > 0
    <3> SUFFICES ASSUME NEW v \in Workers, stage[v] # "idle"
        PROVE /\ stage[v] = "send" => Counted(job[v].row, job[v].attempts - 1)'
              /\ stage[v] = "failed" => Counted(job[v].row, job[v].attempts)'
              /\ stage[v] = "delivered" => received'[job[v].row] > 0
      BY DEF TypeOK
    <3>1. job[v].row \in Deliveries /\ job[v].attempts \in Nat
      BY DEF TypeOK, Jobs
    <3>2. /\ received[job[v].row] \in Nat /\ received'[job[v].row] \in Nat
          /\ received'[job[v].row] >= received[job[v].row]
      BY <1>4, <1>5, <3>1 DEF TypeOK
    <3>3. QED
      BY <1>3, <1>6, <3>1, <3>2 DEF JobsCounted
  <2>4. QED
    BY <1>1, <1>3, <1>7, <1>8, <2>1, <2>2, <2>3
       DEF RowsCounted, SnapshotsCounted, JobsCounted, TypeOK
<1>11. QED
  BY <1>4, <1>9, <1>10

\* The worker writes the outcome into the row, or fails to, or dies.
LEMMA EndStep ==
    ASSUME AttemptInv, NEW w \in Workers,
           MarkDelivered(w) \/ MarkFailed(w) \/ MarkFails(w) \/ Crash(w)
    PROVE  AttemptInv'
<1> USE ConstantsAssumption
    DEF ConstantsAssumption, AttemptInv, rowVars, histVars, Fault, NoFault
<1>1. CASE MarkDelivered(w)
  BY <1>1 DEF MarkDelivered, Delivered, End, TypeOK, RowsCounted,
              SnapshotsCounted, JobsCounted, Counted,
              DeliveredWasReceived, Jobs
<1>2. CASE MarkFailed(w)
  <2> DEFINE d == job[w].row
             n == job[w].attempts
  <2>1. /\ d \in Deliveries /\ n \in 0..MaxAttempts /\ Counted(d, n)
        /\ stage[w] = "failed"
    BY <1>2 DEF MarkFailed, TypeOK, JobsCounted, Jobs
  <2>2. /\ status' = [status EXCEPT
                        ![d] = IF n >= MaxAttempts THEN "failed"
                                                   ELSE "pending"]
        /\ attempts' = [attempts EXCEPT ![d] = n]
        /\ due' = [due EXCEPT ![d] = FALSE]
        /\ stage' = [stage EXCEPT ![w] = "idle"]
        /\ job' = [job EXCEPT ![w] = NoJob]
        /\ UNCHANGED <<batch, posts, received, overlaps, unread, faults>>
    BY <1>2 DEF MarkFailed, Exhausted, End
  <2>3. TypeOK'
    BY <2>1, <2>2 DEF TypeOK
  <2>4. DeliveredWasReceived'
    BY <2>1, <2>2 DEF TypeOK, DeliveredWasReceived
  <2>5. \A c \in Deliveries :
          /\ Counted(c, attempts[c])'
          /\ status'[c] \in {"none", "pending"} => attempts'[c] < MaxAttempts
          /\ status'[c] = "failed" => attempts'[c] = MaxAttempts
    BY <2>1, <2>2 DEF TypeOK, RowsCounted, Counted
  <2>6. \A v \in Workers : \A s \in batch'[v] :
          s.attempts < MaxAttempts /\ Counted(s.row, s.attempts)'
    BY <2>2 DEF SnapshotsCounted, Counted
  <2>7. \A v \in Workers :
          stage'[v] # "idle" => v # w /\ stage'[v] = stage[v] /\ job'[v] = job[v]
    BY <2>2 DEF TypeOK
  <2>8. \A v \in Workers :
          /\ stage'[v] = "send" => Counted(job[v].row, job[v].attempts - 1)'
          /\ stage'[v] = "failed" => Counted(job[v].row, job[v].attempts)'
          /\ stage'[v] = "delivered" => received'[job'[v].row] > 0
    BY <2>2, <2>7 DEF JobsCounted, Counted
  <2>9. RowsCounted'
    BY <2>5 DEF RowsCounted
  <2>10. SnapshotsCounted'
    BY <2>6 DEF SnapshotsCounted
  <2>11. JobsCounted'
    BY <2>7, <2>8 DEF JobsCounted, Counted
  <2>12. QED
    BY <2>3, <2>4, <2>9, <2>10, <2>11
<1>3. CASE MarkFails(w) \/ Crash(w)
  BY <1>3 DEF MarkFails, Crash, End, TypeOK, RowsCounted, SnapshotsCounted,
              JobsCounted, Counted,
              DeliveredWasReceived
<1>4. QED
  BY <1>1, <1>2, <1>3

\* The numbers of attempts stay counted in every step.
LEMMA AttemptStep == AttemptInv /\ [Next]_vars => AttemptInv'
<1>1. AttemptInv /\ UNCHANGED vars => AttemptInv'
  BY DEF vars, rowVars, workerVars, histVars, AttemptInv, TypeOK,
         RowsCounted, SnapshotsCounted, JobsCounted,
         Counted, DeliveredWasReceived
<1>2. QED
  BY RowStep, FetchStep, BeginStep, PostStep, EndStep, <1>1
  DEF Next, WorkerNext

-----------------------------------------------------------------------------
(* Repeats *)

\* What a worker may still add to the requests accepted for d.
Weight(w, d) == IF w \in Trying(d) THEN 1 ELSE 0

\* The three parts of RepeatsPaid for one row.
Balanced(d) == received[d] + Cardinality(Trying(d)) <= 1 + faults + overlaps[d]

Untouched(d) ==
    status[d] = "none" => received[d] = 0 /\ \A w \in Workers : ~Holds(w, d)

Released(d) ==
    status[d] = "pending" /\ (\A w \in Workers : ~Holds(w, d)) =>
        received[d] <= faults + overlaps[d]

\* The step is one of worker w: the others keep what they hold.
OnlyWorker(w) ==
    \A v \in Workers \ {w} :
        batch'[v] = batch[v] /\ stage'[v] = stage[v] /\ job'[v] = job[v]

LEMMA RepeatParts ==
    ASSUME HeldOnce,
           \A d \in Deliveries : /\ IsFiniteSet(Trying(d))
                                 /\ Balanced(d) /\ Untouched(d) /\ Released(d)
    PROVE  RepeatInv
BY DEF RepeatInv, RepeatsPaid, Balanced, Untouched, Released

\* The counters are numbers.
LEMMA CountersAreNumbers ==
    ASSUME AttemptInv, NEW d \in Deliveries
    PROVE  /\ received[d] \in Nat /\ overlaps[d] \in Nat
           /\ faults \in Nat
BY ConstantsAssumption DEF AttemptInv, TypeOK, ConstantsAssumption

\* A row is balanced after a step of w if what w adds is paid for.
LEMMA BalanceKept ==
    ASSUME AttemptInv, AttemptInv', RepeatInv,
           NEW w \in Workers, OnlyWorker(w), NEW d \in Deliveries,
           received'[d] + Weight(w, d)' - faults' - overlaps'[d]
             <= received[d] + Weight(w, d) - faults - overlaps[d]
    PROVE  IsFiniteSet(Trying(d)') /\ Balanced(d)'
<1> DEFINE T == Trying(d)
           U == Trying(d)'
<1>1. \A v \in Workers \ {w} : v \in U <=> v \in T
  BY DEF OnlyWorker, Trying
<1>2. T \subseteq Workers /\ U \subseteq Workers
  BY DEF Trying
<1>3. IsFiniteSet(T) /\ Cardinality(T) \in Nat
  BY FS_CardinalityType DEF RepeatInv
<1>4. IsFiniteSet(T \cup {w}) /\ IsFiniteSet(T \ {w})
  BY <1>3, FS_AddElement, FS_RemoveElement
<1>5. w \notin T => Cardinality(T \cup {w}) = Cardinality(T) + 1
  BY <1>3, FS_AddElement
<1>6. w \in T => Cardinality(T \ {w}) = Cardinality(T) - 1
  BY <1>3, FS_RemoveElement
<1>7. /\ IsFiniteSet(U)
      /\ Cardinality(U) = Cardinality(T) + Weight(w, d)' - Weight(w, d)
  <2>1. CASE w \in T /\ w \in U
    <3>1. U = T
      BY <1>1, <1>2, <2>1
    <3>2. Weight(w, d) = 1 /\ Weight(w, d)' = 1
      BY <2>1 DEF Weight
    <3>3. QED
      BY <1>3, <3>1, <3>2
  <2>2. CASE w \in T /\ w \notin U
    <3>1. U = T \ {w}
      BY <1>1, <1>2, <2>2
    <3>2. Weight(w, d) = 1 /\ Weight(w, d)' = 0
      BY <2>2 DEF Weight
    <3>3. QED
      BY <1>3, <1>4, <1>6, <2>2, <3>1, <3>2
  <2>3. CASE w \notin T /\ w \in U
    <3>1. U = T \cup {w}
      BY <1>1, <1>2, <2>3
    <3>2. Weight(w, d) = 0 /\ Weight(w, d)' = 1
      BY <2>3 DEF Weight
    <3>3. QED
      BY <1>3, <1>4, <1>5, <2>3, <3>1, <3>2
  <2>4. CASE w \notin T /\ w \notin U
    <3>1. U = T
      BY <1>1, <1>2, <2>4
    <3>2. Weight(w, d) = 0 /\ Weight(w, d)' = 0
      BY <2>4 DEF Weight
    <3>3. QED
      BY <1>3, <3>1, <3>2
  <2>5. QED
    BY <2>1, <2>2, <2>3, <2>4
<1>8. received[d] + Cardinality(T) <= 1 + faults + overlaps[d]
  BY DEF RepeatInv, RepeatsPaid
<1>9. /\ received[d] \in Nat /\ overlaps[d] \in Nat /\ faults \in Nat
      /\ received'[d] \in Nat /\ overlaps'[d] \in Nat /\ faults' \in Nat
  BY CountersAreNumbers, ConstantsAssumption
  DEF AttemptInv, TypeOK, ConstantsAssumption
<1>10. Weight(w, d) \in 0..1 /\ Weight(w, d)' \in 0..1
  BY DEF Weight
<1>11. received'[d] + Cardinality(U) <= 1 + faults' + overlaps'[d]
  <2> HIDE DEF T, U
  <2> QED
    BY <1>3, <1>7, <1>8, <1>9, <1>10
<1>12. QED
  BY <1>7, <1>11 DEF Balanced

\* The empty table has seen no request.
LEMMA InitRepeats == Init => RepeatInv
<1> SUFFICES ASSUME Init PROVE RepeatInv
  OBVIOUS
<1>1. \A w \in Workers : batch[w] = {} /\ stage[w] = "idle"
  BY DEF Init
<1>2. \A d \in Deliveries : Trying(d) = {}
  BY <1>1 DEF Trying
<1>3. IsFiniteSet({}) /\ Cardinality({}) = 0
  BY FS_EmptySet
<1>4. \A d \in Deliveries :
        received[d] = 0 /\ overlaps[d] = 0 /\ faults = 0 /\ status[d] = "none"
  BY DEF Init
<1>5. HeldOnce
  BY <1>1 DEF HeldOnce
<1>6. \A d \in Deliveries : /\ IsFiniteSet(Trying(d))
                            /\ Balanced(d) /\ Untouched(d) /\ Released(d)
  BY <1>1, <1>2, <1>3, <1>4 DEF Balanced, Untouched, Released, Holds
<1>7. QED
  BY <1>5, <1>6, RepeatParts

\* Nobody holds a row that is not written yet; a backoff changes no count.
LEMMA RowRepeats ==
    ASSUME AttemptInv, RepeatInv, NEW d \in Deliveries,
           CreateDelivery(d) \/ BackoffEnds(d)
    PROVE  RepeatInv'
<1>1. /\ UNCHANGED <<batch, stage, job, received, overlaps, faults>>
      /\ \A c \in Deliveries :
            \/ status'[c] = status[c]
            \/ status[c] = "none" /\ status'[c] = "pending"
  BY DEF CreateDelivery, BackoffEnds, NoFault, workerVars, histVars,
         AttemptInv, TypeOK
<1>2. HeldOnce'
  BY <1>1 DEF HeldOnce, RepeatInv
<1>3. ASSUME NEW c \in Deliveries
      PROVE  /\ IsFiniteSet(Trying(c)')
             /\ Balanced(c)' /\ Untouched(c)' /\ Released(c)'
  <2>1. Trying(c)' = Trying(c)
    BY <1>1 DEF Trying
  <2>2. \A w \in Workers : Holds(w, c)' <=> Holds(w, c)
    BY <1>1 DEF Holds
  <2>3. IsFiniteSet(Trying(c)') /\ Balanced(c)'
    BY <1>1, <2>1 DEF RepeatInv, RepeatsPaid, Balanced
  <2>4. Untouched(c) /\ Released(c)
    BY DEF RepeatInv, RepeatsPaid, Untouched, Released
  <2>5. received[c] \in Nat /\ overlaps[c] \in Nat /\ faults \in Nat
    BY CountersAreNumbers
  <2>6. QED
    BY <1>1, <2>2, <2>3, <2>4, <2>5 DEF Untouched, Released
<1>4. RepeatInv'
  BY <1>2, <1>3 DEF RepeatInv, RepeatsPaid, Balanced, Untouched, Released
<1>5. QED
  BY <1>4

\* A fetch is the first hand on a row that is pending, or it overlaps.
LEMMA FetchRepeats ==
    ASSUME AttemptInv, AttemptInv', RepeatInv,
           NEW w \in Workers, FetchPendingDeliveries(w)
    PROVE  RepeatInv'
<1>1. PICK rows \in SUBSET Ready :
        /\ batch' = [batch EXCEPT
              ![w] = {[row |-> d, attempts |-> attempts[d]] : d \in rows}]
        /\ overlaps' = [d \in Deliveries |->
                          IF d \in rows /\ \E v \in Workers \ {w} : Holds(v, d)
                          THEN overlaps[d] + 1
                          ELSE overlaps[d]]
  BY DEF FetchPendingDeliveries
<1>2. /\ UNCHANGED <<status, stage, job, received, faults>>
      /\ stage[w] = "idle" /\ batch[w] = {}
  BY DEF FetchPendingDeliveries, Idle, NoFault, rowVars
<1>3. batch'[w] = {[row |-> d, attempts |-> attempts[d]] : d \in rows}
  BY <1>1 DEF AttemptInv, TypeOK
<1>4. OnlyWorker(w)
  BY <1>1, <1>2 DEF OnlyWorker, AttemptInv, TypeOK
<1>5. HeldOnce'
  <2>1. \A s \in batch'[w], t \in batch'[w] : s.row = t.row => s = t
    BY <1>3
  <2>2. ASSUME NEW v \in Workers, NEW s \in batch'[v]
        PROVE  /\ \A t \in batch'[v] : s.row = t.row => s = t
               /\ stage'[v] # "idle" => job'[v].row # s.row
    <3>1. CASE v = w
      BY <1>2, <2>1, <3>1
    <3>2. CASE v # w
      BY <1>4, <2>2, <3>2 DEF OnlyWorker, RepeatInv, HeldOnce
    <3>3. QED
      BY <3>1, <3>2
  <2>3. QED
    BY <2>2 DEF HeldOnce
<1>6. ASSUME NEW d \in Deliveries
      PROVE  /\ IsFiniteSet(Trying(d)')
             /\ Balanced(d)' /\ Untouched(d)' /\ Released(d)'
  <2>1. /\ ~Holds(w, d) /\ w \notin Trying(d)
        /\ Weight(w, d) = 0
    BY <1>2 DEF Holds, Trying, Weight
  <2>2. \A v \in Workers \ {w} : Holds(v, d)' <=> Holds(v, d)
    BY <1>4 DEF OnlyWorker, Holds
  <2>3. received[d] \in Nat /\ overlaps[d] \in Nat /\ faults \in Nat
    BY CountersAreNumbers
  <2>4. Untouched(d) /\ Released(d)
    BY DEF RepeatInv, RepeatsPaid, Untouched, Released
  <2>5. CASE d \notin rows
    <3>1. ~Holds(w, d)' /\ w \notin Trying(d)'
      BY <1>2, <1>3, <2>5 DEF Holds, Trying
    <3>2. Weight(w, d)' = 0 /\ overlaps'[d] = overlaps[d]
      BY <1>1, <2>5, <3>1 DEF Weight
    <3>3. IsFiniteSet(Trying(d)') /\ Balanced(d)'
      BY <1>2, <1>4, <2>1, <2>3, <3>2, BalanceKept
    <3>4. \A v \in Workers : Holds(v, d)' <=> Holds(v, d)
      BY <2>1, <2>2, <3>1
    <3>5. Untouched(d)' /\ Released(d)'
      BY <1>2, <2>4, <3>2, <3>4 DEF Untouched, Released
    <3>6. QED
      BY <3>3, <3>5
  <2>6. CASE d \in rows
    <3>1. status[d] = "pending"
      BY <2>6 DEF Ready
    <3>2. Holds(w, d)' /\ w \in Trying(d)'
      <4> DEFINE s == [row |-> d, attempts |-> attempts[d]]
      <4>1. s \in batch'[w]
        BY <1>3, <2>6
      <4>2. \E t \in batch'[w] : t.row = d
        BY <4>1
      <4>3. QED
        BY <4>2 DEF Holds, Trying
    <3>3. Untouched(d)' /\ Released(d)'
      BY <1>2, <3>1, <3>2 DEF Untouched, Released
    <3>4. CASE \E v \in Workers \ {w} : Holds(v, d)
      <4>1. overlaps'[d] = overlaps[d] + 1 /\ Weight(w, d)' = 1
        BY <1>1, <2>6, <3>2, <3>4 DEF Weight
      <4>2. IsFiniteSet(Trying(d)') /\ Balanced(d)'
        BY <1>2, <1>4, <2>1, <2>3, <4>1, BalanceKept
      <4>3. QED
        BY <3>3, <4>2
    <3>5. CASE \A v \in Workers \ {w} : ~Holds(v, d)
      <4>1. received[d] <= faults + overlaps[d]
        BY <2>1, <2>4, <3>1, <3>5 DEF Released
      <4>2. Trying(d)' = {w}
        BY <2>2, <3>2, <3>5 DEF Trying, Holds
      <4>3. IsFiniteSet(Trying(d)') /\ Cardinality(Trying(d)') = 1
        BY <4>2, FS_Singleton
      <4>4. overlaps'[d] = overlaps[d]
        BY <1>1, <3>5
      <4>5. Balanced(d)'
        BY <1>2, <2>3, <4>1, <4>3, <4>4 DEF Balanced
      <4>6. QED
        BY <3>3, <4>3, <4>5
    <3>6. QED
      BY <3>4, <3>5
  <2>7. QED
    BY <2>5, <2>6
<1>7. QED
  BY <1>5, <1>6 DEF RepeatInv, RepeatsPaid, Balanced, Untouched, Released

\* Taking a row up moves it from the batch to the hand.
LEMMA BeginRepeats ==
    ASSUME AttemptInv, AttemptInv', RepeatInv,
           NEW w \in Workers, NEW s \in batch[w],
           ConfigFound(w, s) \/ ConfigMissing(w, s)
    PROVE  RepeatInv'
<1>1. PICK where \in {"send", "failed"}, n \in Int :
        /\ Begin(w, s, where, n)
        /\ faults' >= faults
        /\ UNCHANGED <<status, received, overlaps>>
  <2>0. s.attempts \in Int /\ MaxAttempts \in Int /\ faults \in Int
    BY ConstantsAssumption DEF AttemptInv, TypeOK, Jobs, ConstantsAssumption
  <2>1. CASE ConfigFound(w, s)
    BY <2>0, <2>1 DEF ConfigFound, Attempt, NoFault, rowVars, histVars
  <2>2. CASE ConfigMissing(w, s)
    BY <2>0, <2>2 DEF ConfigMissing, Fault, rowVars
  <2>3. QED
    BY <2>1, <2>2
<1>2. /\ batch'[w] = batch[w] \ {s}
      /\ stage[w] = "idle" /\ stage'[w] \in {"send", "failed"}
      /\ job'[w].row = s.row
  BY <1>1 DEF Begin, AttemptInv, TypeOK
<1>3. OnlyWorker(w)
  BY <1>1 DEF Begin, OnlyWorker, AttemptInv, TypeOK
<1>4. \A d \in Deliveries : /\ Holds(w, d)' <=> Holds(w, d)
                            /\ w \in Trying(d)' <=> w \in Trying(d)
  BY <1>2 DEF Holds, Trying
<1>5. HeldOnce'
  <2>1. ASSUME NEW v \in Workers, NEW r \in batch'[v]
        PROVE  /\ \A t \in batch'[v] : r.row = t.row => r = t
               /\ stage'[v] # "idle" => job'[v].row # r.row
    <3>1. CASE v = w
      BY <1>2, <2>1, <3>1 DEF RepeatInv, HeldOnce
    <3>2. CASE v # w
      BY <1>3, <2>1, <3>2 DEF OnlyWorker, RepeatInv, HeldOnce
    <3>3. QED
      BY <3>1, <3>2
  <2>2. QED
    BY <2>1 DEF HeldOnce
<1>6. ASSUME NEW d \in Deliveries
      PROVE  /\ IsFiniteSet(Trying(d)')
             /\ Balanced(d)' /\ Untouched(d)' /\ Released(d)'
  <2>1. Weight(w, d)' = Weight(w, d) /\ Weight(w, d) \in Int
    BY <1>4 DEF Weight
  <2>2. \A v \in Workers : Holds(v, d)' <=> Holds(v, d)
    BY <1>3, <1>4 DEF OnlyWorker, Holds
  <2>3. /\ received[d] \in Nat /\ overlaps[d] \in Nat /\ faults \in Nat
        /\ faults' \in Int
    BY CountersAreNumbers DEF AttemptInv, TypeOK
  <2>4. IsFiniteSet(Trying(d)') /\ Balanced(d)'
    BY <1>1, <1>3, <2>1, <2>3, BalanceKept
  <2>5. Untouched(d) /\ Released(d)
    BY DEF RepeatInv, RepeatsPaid, Untouched, Released
  <2>6. Untouched(d)' /\ Released(d)'
    BY <1>1, <2>2, <2>3, <2>5 DEF Untouched, Released
  <2>7. QED
    BY <2>4, <2>6
<1>7. QED
  BY <1>5, <1>6 DEF RepeatInv, RepeatsPaid, Balanced, Untouched, Released

\* A request that is accepted and answered turns the worker's repeat in
\* waiting into one; when the answer is lost, the fault pays for the next.
LEMMA PostRepeats ==
    ASSUME AttemptInv, AttemptInv', RepeatInv, NEW w \in Workers,
           SendAccepted(w) \/ SendRefused(w) \/ AnswerLost(w)
    PROVE  RepeatInv'
<1> DEFINE c == job[w].row
<1>1. PICK accepted \in BOOLEAN, outcome \in {"delivered", "failed"} :
        /\ Post(w, accepted, outcome)
        /\ faults' >= faults
        /\ outcome = "failed" /\ accepted => faults' = faults + 1
  <2>0. faults \in Int
    BY DEF AttemptInv, TypeOK
  <2>1. CASE SendAccepted(w)
    <3>1. Post(w, TRUE, "delivered") /\ faults' = faults
      BY <2>1 DEF SendAccepted, NoFault
    <3>2. faults' >= faults
      BY <2>0, <3>1
    <3>3. QED
      BY <3>1, <3>2, Zenon
  <2>2. CASE SendRefused(w)
    <3>1. Post(w, FALSE, "failed") /\ faults' = faults
      BY <2>2 DEF SendRefused, Refusal, NoFault
    <3>2. faults' >= faults
      BY <2>0, <3>1
    <3>3. QED
      BY <3>1, <3>2, Zenon
  <2>3. CASE AnswerLost(w)
    <3>1. Post(w, TRUE, "failed") /\ faults' = faults + 1
      BY <2>3 DEF AnswerLost, Fault
    <3>2. faults' >= faults
      BY <2>0, <3>1
    <3>3. QED
      BY <3>1, <3>2, Zenon
  <2>4. QED
    BY <2>1, <2>2, <2>3
<1>2. /\ stage[w] = "send" /\ stage'[w] = outcome
      /\ UNCHANGED <<status, batch, job, overlaps>>
      /\ received' = IF accepted
                     THEN [received EXCEPT ![c] = @ + 1]
                     ELSE received
  BY <1>1 DEF Post, rowVars, AttemptInv, TypeOK
<1>3. OnlyWorker(w)
  BY <1>1 DEF Post, OnlyWorker, AttemptInv, TypeOK
<1>4. c \in Deliveries
  BY <1>2 DEF AttemptInv, TypeOK, Jobs
<1>5. \A d \in Deliveries, v \in Workers : Holds(v, d)' <=> Holds(v, d)
  BY <1>2, <1>3 DEF OnlyWorker, Holds
<1>6. HeldOnce'
  <2>1. ASSUME NEW v \in Workers, NEW r \in batch'[v]
        PROVE  /\ \A t \in batch'[v] : r.row = t.row => r = t
               /\ stage'[v] # "idle" => job'[v].row # r.row
    <3>1. /\ r \in batch[v] /\ batch'[v] = batch[v] /\ job'[v] = job[v]
          /\ stage'[v] # "idle" => stage[v] # "idle"
      BY <1>2, <1>3, <2>1 DEF OnlyWorker
    <3>2. QED
      BY <3>1 DEF RepeatInv, HeldOnce
  <2>2. QED
    BY <2>1 DEF HeldOnce
<1>7. \A d \in Deliveries :
        d = c => /\ w \in Trying(d)
                 /\ w \in Trying(d)' <=> outcome = "failed"
  BY <1>2 DEF Trying, RepeatInv, HeldOnce
<1>8. ASSUME NEW d \in Deliveries
      PROVE  /\ IsFiniteSet(Trying(d)')
             /\ Balanced(d)' /\ Untouched(d)' /\ Released(d)'
  <2>1. /\ received[d] \in Nat /\ overlaps[d] \in Nat /\ faults \in Nat
        /\ faults' \in Int /\ received \in [Deliveries -> Nat]
    BY CountersAreNumbers DEF AttemptInv, TypeOK
  <2>2. Untouched(d) /\ Released(d)
    BY DEF RepeatInv, RepeatsPaid, Untouched, Released
  <2>3. CASE d # c
    <3>1. received'[d] = received[d]
      BY <1>2, <2>1, <2>3
    <3>2. w \in Trying(d)' <=> w \in Trying(d)
      BY <1>2, <2>3 DEF Trying
    <3>3. Weight(w, d)' = Weight(w, d) /\ Weight(w, d) \in Int
      BY <3>2 DEF Weight
    <3>4. IsFiniteSet(Trying(d)') /\ Balanced(d)'
      BY <1>1, <1>2, <1>3, <2>1, <3>1, <3>3, BalanceKept
    <3>5. Untouched(d)' /\ Released(d)'
      BY <1>1, <1>2, <1>5, <2>1, <2>2, <3>1 DEF Untouched, Released
    <3>6. QED
      BY <3>4, <3>5
  <2>4. CASE d = c
    <3>1. Holds(w, d) /\ Holds(w, d)'
      BY <1>2, <1>5, <2>4 DEF Holds
    <3>2. Untouched(d)' /\ Released(d)'
      BY <1>2, <2>2, <3>1 DEF Untouched, Released
    <3>3. /\ Weight(w, d) = 1
          /\ Weight(w, d)' = IF outcome = "failed" THEN 1 ELSE 0
      BY <1>7, <2>4 DEF Weight
    <3>4. received'[d] = IF accepted THEN received[d] + 1 ELSE received[d]
      BY <1>2, <1>4, <2>1, <2>4
    <3>5. received'[d] + Weight(w, d)' - faults' - overlaps'[d]
            <= received[d] + Weight(w, d) - faults - overlaps[d]
      BY <1>1, <1>2, <2>1, <3>3, <3>4
    <3>6. IsFiniteSet(Trying(d)') /\ Balanced(d)'
      BY <1>3, <3>5, BalanceKept
    <3>7. QED
      BY <3>2, <3>6
  <2>5. QED
    BY <2>3, <2>4
<1>9. QED
  BY <1>6, <1>8 DEF RepeatInv, RepeatsPaid, Balanced, Untouched, Released

\* A worker lets rows go: as delivered, without an accepted request to report,
\* or in a fault.
LEMMA EndRepeats ==
    ASSUME AttemptInv, AttemptInv', RepeatInv, NEW w \in Workers,
           MarkDelivered(w) \/ MarkFailed(w) \/ MarkFails(w) \/ Crash(w)
    PROVE  RepeatInv'
<1>1. /\ stage'[w] = "idle"
      /\ batch'[w] \subseteq batch[w]
      /\ UNCHANGED <<received, overlaps>>
      /\ faults' >= faults
  BY DEF MarkDelivered, MarkFailed, MarkFails, Crash, End, Fault, NoFault,
         histVars, AttemptInv, TypeOK
<1>2. OnlyWorker(w)
  BY DEF MarkDelivered, MarkFailed, MarkFails, Crash, End, OnlyWorker,
         AttemptInv, TypeOK
<1>3. HeldOnce'
  <2>1. ASSUME NEW v \in Workers, NEW r \in batch'[v]
        PROVE  /\ \A t \in batch'[v] : r.row = t.row => r = t
               /\ stage'[v] # "idle" => job'[v].row # r.row
    <3>1. /\ r \in batch[v] /\ batch'[v] \subseteq batch[v]
          /\ stage'[v] # "idle" => v # w
      BY <1>1, <1>2, <2>1 DEF OnlyWorker
    <3>2. v # w => stage'[v] = stage[v] /\ job'[v] = job[v]
      BY <1>2 DEF OnlyWorker
    <3>3. QED
      BY <3>1, <3>2 DEF RepeatInv, HeldOnce
  <2>2. QED
    BY <2>1 DEF HeldOnce
<1>4. ASSUME NEW d \in Deliveries
      PROVE  /\ IsFiniteSet(Trying(d)')
             /\ Balanced(d)' /\ Untouched(d)' /\ Released(d)'
  <2>1. /\ received[d] \in Nat /\ overlaps[d] \in Nat /\ faults \in Nat
        /\ faults' \in Int
    BY CountersAreNumbers DEF AttemptInv, TypeOK
  <2>2. Untouched(d) /\ Released(d)
    BY DEF RepeatInv, RepeatsPaid, Untouched, Released
  <2>3. w \in Trying(d)' => w \in Trying(d)
    BY <1>1 DEF Trying
  <2>4. /\ Weight(w, d) \in 0..1 /\ Weight(w, d)' \in 0..1
        /\ Weight(w, d)' <= Weight(w, d)
    BY <2>3 DEF Weight
  <2>5. IsFiniteSet(Trying(d)') /\ Balanced(d)'
    BY <1>1, <1>2, <2>1, <2>4, BalanceKept
  <2>6. \A v \in Workers \ {w} : Holds(v, d)' <=> Holds(v, d)
    BY <1>2 DEF OnlyWorker, Holds
  <2>7. CASE ~Holds(w, d)
    <3>1. ~Holds(w, d)'
      BY <1>1, <2>7 DEF Holds
    <3>2. \A v \in Workers : Holds(v, d)' <=> Holds(v, d)
      BY <2>6, <2>7, <3>1
    <3>3. status'[d] = status[d]
      BY <2>7 DEF MarkDelivered, Delivered, MarkFailed, MarkFails, Crash,
                  Holds, rowVars, AttemptInv, TypeOK
    <3>4. QED
      BY <1>1, <2>1, <2>2, <2>5, <3>2, <3>3 DEF Untouched, Released
  <2>8. CASE Holds(w, d)
    <3>1. status[d] # "none"
      BY <2>2, <2>8 DEF Untouched
    <3>2. status'[d] # "none"
      BY <3>1 DEF MarkDelivered, Delivered, MarkFailed, MarkFails, Crash,
                  rowVars, AttemptInv, TypeOK
    <3>3. Untouched(d)'
      BY <3>2 DEF Untouched
    <3>4. Released(d)'
      <4> SUFFICES ASSUME status'[d] = "pending",
                          \A v \in Workers : ~Holds(v, d)'
                   PROVE  received[d] <= faults' + overlaps[d]
        BY <1>1 DEF Released
      <4>0. received[d] + Cardinality(Trying(d)) <= 1 + faults + overlaps[d]
        BY DEF RepeatInv, RepeatsPaid
      <4>1. CASE faults' = faults + 1
        <5>1. IsFiniteSet(Trying(d)) /\ Cardinality(Trying(d)) \in Nat
          BY FS_CardinalityType DEF RepeatInv
        <5>2. QED
          BY <2>1, <4>0, <4>1, <5>1
      <4>2. CASE MarkDelivered(w)
        <5>1. job[w].row # d
          BY <4>2 DEF MarkDelivered, Delivered, AttemptInv, TypeOK
        <5>2. Holds(w, d)'
          BY <2>8, <4>2, <5>1 DEF MarkDelivered, Holds
        <5>3. QED
          BY <5>2
      <4>3. CASE MarkFailed(w)
        <5>1. stage[w] = "failed" /\ job[w].row = d
          BY <2>8, <4>3 DEF MarkFailed, Holds
        <5>2. w \in Trying(d)
          BY <5>1 DEF Trying
        <5>3. IsFiniteSet(Trying(d)) /\ IsFiniteSet(Trying(d) \ {w})
          BY FS_RemoveElement DEF RepeatInv
        <5>4. /\ Cardinality(Trying(d) \ {w}) \in Nat
              /\ Cardinality(Trying(d)) \in Nat
              /\ Cardinality(Trying(d) \ {w}) = Cardinality(Trying(d)) - 1
          BY <5>2, <5>3, FS_CardinalityType, FS_RemoveElement
        <5>5. QED
          BY <1>1, <2>1, <4>0, <5>4
      <4>4. QED
        BY <4>1, <4>2, <4>3 DEF MarkFails, Crash, Fault
    <3>5. QED
      BY <2>5, <3>3, <3>4
  <2>9. QED
    BY <2>7, <2>8
<1>5. QED
  BY <1>3, <1>4 DEF RepeatInv, RepeatsPaid, Balanced, Untouched, Released

\* The repeats stay paid for in every step.
LEMMA RepeatStep == AttemptInv /\ RepeatInv /\ [Next]_vars => RepeatInv'
<1> SUFFICES ASSUME AttemptInv, RepeatInv, [Next]_vars
             PROVE  RepeatInv'
  OBVIOUS
<1>1. AttemptInv'
  BY AttemptStep
<1>2. CASE UNCHANGED vars
  BY <1>2 DEF vars, rowVars, workerVars, histVars, RepeatInv, HeldOnce,
              RepeatsPaid, Trying, Holds
<1>3. CASE Next
  BY <1>1, <1>3, RowRepeats, FetchRepeats, BeginRepeats, PostRepeats,
     EndRepeats
  DEF Next, WorkerNext
<1>4. QED
  BY <1>2, <1>3

-----------------------------------------------------------------------------
(* Hands *)

\* A row fetched by one worker at a time stays in one hand, and pending.
LEMMA HandStep == AttemptInv /\ RepeatInv /\ HeldAlone /\ [Next]_vars => HeldAlone'
<1> SUFFICES ASSUME AttemptInv, RepeatInv, HeldAlone, [Next]_vars,
                    NEW d \in Deliveries, overlaps'[d] = 0
             PROVE  \A w \in Workers : Holds(w, d)' =>
                        /\ status'[d] = "pending"
                        /\ \A v \in Workers : Holds(v, d)' => v = w
  BY DEF HeldAlone
<1> USE DEF AttemptInv
<1> DEFINE Kept(w) == Holds(w, d)' => Holds(w, d)
<1>1. \A w \in Workers : Holds(w, d) => status[d] # "none"
  BY DEF RepeatInv, RepeatsPaid
<1>2. ASSUME overlaps[d] = 0, status'[d] = status[d] \/ status[d] = "none",
             \A w \in Workers : Kept(w)
      PROVE  \A w \in Workers : Holds(w, d)' =>
                /\ status'[d] = "pending"
                /\ \A v \in Workers : Holds(v, d)' => v = w
  BY <1>1, <1>2 DEF HeldAlone
<1>3. ASSUME NEW c \in Deliveries, CreateDelivery(c) \/ BackoffEnds(c)
      PROVE  /\ overlaps[d] = 0
             /\ status'[d] = status[d] \/ status[d] = "none"
             /\ \A w \in Workers : Kept(w)
  BY <1>3 DEF CreateDelivery, BackoffEnds, workerVars, histVars, Holds, TypeOK
<1>4. ASSUME NEW w \in Workers, NEW s \in batch[w],
             ConfigFound(w, s) \/ ConfigMissing(w, s)
      PROVE  /\ overlaps[d] = 0 /\ status'[d] = status[d]
             /\ \A v \in Workers : Kept(v)
  BY <1>4 DEF ConfigFound, ConfigMissing, Begin, rowVars, histVars, Holds, TypeOK
<1>5. ASSUME NEW w \in Workers, SendAccepted(w) \/ SendRefused(w) \/ AnswerLost(w)
      PROVE  /\ overlaps[d] = 0 /\ status'[d] = status[d]
             /\ \A v \in Workers : Kept(v)
  BY <1>5 DEF SendAccepted, SendRefused, AnswerLost, Post, rowVars, Holds, TypeOK
<1>6. ASSUME NEW w \in Workers, MarkFails(w) \/ Crash(w)
      PROVE  /\ overlaps[d] = 0 /\ status'[d] = status[d]
             /\ \A v \in Workers : Kept(v)
  BY <1>6 DEF MarkFails, Crash, End, rowVars, histVars, Holds, TypeOK
<1>7. ASSUME NEW w \in Workers, MarkDelivered(w) \/ MarkFailed(w)
      PROVE  \A u \in Workers : Holds(u, d)' =>
                /\ status'[d] = "pending"
                /\ \A v \in Workers : Holds(v, d)' => v = u
  <2>1. /\ overlaps[d] = 0 /\ UNCHANGED batch
        /\ stage[w] # "idle" /\ stage'[w] = "idle"
        /\ \A v \in Workers \ {w} : stage'[v] = stage[v] /\ job'[v] = job[v]
        /\ job[w].row # d => status'[d] = status[d]
    BY <1>7 DEF MarkDelivered, Delivered, MarkFailed, End, histVars, TypeOK
  <2>2. \A v \in Workers : Kept(v)
    BY <2>1 DEF Holds
  <2>3. CASE job[w].row # d
    BY <1>2, <2>1, <2>2, <2>3
  <2>4. CASE job[w].row = d
    <3>1. Holds(w, d) /\ ~Holds(w, d)'
      BY <2>1, <2>4 DEF Holds, RepeatInv, HeldOnce
    <3>2. \A v \in Workers : Holds(v, d) => v = w
      BY <2>1, <3>1 DEF HeldAlone
    <3> QED BY <2>2, <3>1, <3>2
  <2> QED BY <2>3, <2>4
<1>8. ASSUME NEW w \in Workers, FetchPendingDeliveries(w)
      PROVE  \A u \in Workers : Holds(u, d)' =>
                /\ status'[d] = "pending"
                /\ \A v \in Workers : Holds(v, d)' => v = u
  <2>1. PICK rows \in SUBSET Ready :
          /\ batch' = [batch EXCEPT
                ![w] = {[row |-> c, attempts |-> attempts[c]] : c \in rows}]
          /\ overlaps' = [c \in Deliveries |->
                            IF c \in rows /\ \E v \in Workers \ {w} : Holds(v, c)
                            THEN overlaps[c] + 1
                            ELSE overlaps[c]]
    BY <1>8 DEF FetchPendingDeliveries
  <2>2. UNCHANGED <<status, stage, job>> /\ stage[w] = "idle" /\ overlaps[d] \in Nat
    BY <1>8 DEF FetchPendingDeliveries, Idle, rowVars, TypeOK
  <2>3. \A v \in Workers \ {w} : Holds(v, d)' <=> Holds(v, d)
    BY <2>1, <2>2 DEF Holds, TypeOK
  <2>4. overlaps[d] = 0
    BY <2>1, <2>2
  <2>5. CASE d \notin rows
    <3>1. ~Holds(w, d)'
      BY <2>1, <2>2, <2>5 DEF Holds, TypeOK
    <3> QED BY <1>2, <2>2, <2>3, <2>4, <3>1
  <2>6. CASE d \in rows
    <3>1. \A v \in Workers \ {w} : ~Holds(v, d)
      BY <2>1, <2>2, <2>4, <2>6
    <3>2. status'[d] = "pending"
      BY <2>2, <2>6 DEF Ready
    <3> QED BY <2>3, <3>1, <3>2
  <2> QED BY <2>5, <2>6
<1>9. CASE UNCHANGED vars
  BY <1>2, <1>9 DEF vars, rowVars, workerVars, histVars, Holds
<1> QED
  BY <1>2, <1>3, <1>4, <1>5, <1>6, <1>7, <1>8, <1>9 DEF Next, WorkerNext

\* The three parts together are inductive.
LEMMA WebhookStep ==
  AttemptInv /\ RepeatInv /\ HeldAlone /\ [Next]_vars
      => AttemptInv' /\ RepeatInv' /\ HeldAlone'
BY AttemptStep, RepeatStep, HandStep

LEMMA InitWebhook == Init => AttemptInv /\ RepeatInv /\ HeldAlone
<1>1. Init => HeldAlone
  BY DEF Init, HeldAlone, Holds
<1> QED
  BY <1>1, InitInv, InitRepeats

-----------------------------------------------------------------------------
(* The theorems *)

\* The invariant holds in every reachable state.
THEOREM WebhookInvariant == Spec => []WebhookInv
<1>1. AttemptInv /\ RepeatInv /\ HeldAlone => WebhookInv
  BY DEF AttemptInv, RepeatInv, WebhookInv
<1>2. QED
  BY InitWebhook, WebhookStep, <1>1, PTL DEF Spec

\* Only what a merchant has accepted is marked delivered.
THEOREM DeliveredIsTrue == Spec => []DeliveredWasReceived
<1>1. WebhookInv => DeliveredWasReceived
  BY DEF WebhookInv
<1>2. QED
  BY WebhookInvariant, <1>1, PTL

\* No notification is given up before max_attempts requests were made for it,
\* unless the merchant's configuration could not be read.
THEOREM NotGivenUpEarly == Spec => []GivenUpAfterTrying
<1>1. WebhookInv => GivenUpAfterTrying
  BY ConstantsAssumption
  DEF ConstantsAssumption, WebhookInv, TypeOK, RowsCounted, Counted,
      GivenUpAfterTrying
<1>2. QED
  BY WebhookInvariant, <1>1, PTL

\* Every request that a merchant accepts beyond the first is explained by a
\* fault or by a fetch of a row that another worker had in hand.
THEOREM RepeatsHaveCauses == Spec => []RepeatsAreExplained
<1>1. Init => AttemptInv /\ RepeatInv
  BY InitInv, InitRepeats
<1>2. AttemptInv /\ RepeatInv /\ [Next]_vars => AttemptInv' /\ RepeatInv'
  BY AttemptStep, RepeatStep
<1>3. AttemptInv /\ RepeatInv => RepeatsAreExplained
  <2> SUFFICES ASSUME AttemptInv, RepeatInv, NEW d \in Deliveries
               PROVE  received[d] <= 1 + faults + overlaps[d]
    BY DEF RepeatsAreExplained
  <2>1. /\ Cardinality(Trying(d)) \in Nat
        /\ received[d] + Cardinality(Trying(d)) <= 1 + faults + overlaps[d]
    BY FS_CardinalityType DEF RepeatInv, RepeatsPaid
  <2>2. received[d] \in Nat /\ overlaps[d] \in Nat /\ faults \in Nat
    BY ConstantsAssumption DEF AttemptInv, TypeOK, ConstantsAssumption
  <2>3. QED
    BY <2>1, <2>2
<1>4. QED
  BY <1>1, <1>2, <1>3, PTL DEF Spec

\* A notification that has ended is written again only after two workers had it
\* in hand, for any number of workers and whatever fails: WHERE status = 'pending'
\* of the fetch is all that the unconditional updates rely on.
THEOREM NoReopeningAlone == Spec => ReopenedByOverlap
<1> DEFINE A == \A d \in Deliveries :
                  status[d] \in {"delivered", "failed"} /\ status'[d] # status[d]
                      => overlaps[d] > 0
<1>1. WebhookInv /\ [Next]_vars => [A]_vars
  <2> SUFFICES ASSUME WebhookInv, Next, NEW d \in Deliveries,
                      status[d] \in {"delivered", "failed"}, status'[d] # status[d]
               PROVE  overlaps[d] > 0
    OBVIOUS
  <2> USE DEF WebhookInv
  <2>1. \A c \in Deliveries : ~CreateDelivery(c) /\ ~BackoffEnds(c)
    BY DEF CreateDelivery, BackoffEnds, TypeOK
  <2>2. PICK w \in Workers : MarkDelivered(w) \/ MarkFailed(w)
    BY <2>1 DEF Next, WorkerNext, FetchPendingDeliveries, ConfigFound,
                ConfigMissing, SendAccepted, SendRefused, AnswerLost, Post,
                MarkFails, Crash, rowVars
  <2>3. stage[w] # "idle" /\ job[w].row = d
    BY <2>2 DEF MarkDelivered, Delivered, MarkFailed, TypeOK
  <2>4. Holds(w, d) /\ status[d] # "pending"
    BY <2>3 DEF Holds
  <2> QED BY <2>4 DEF HeldAlone, TypeOK
<1>2. Spec => [][A]_vars
  BY <1>1, WebhookInvariant, PTL DEF Spec
<1> QED
  BY <1>2 DEF ReopenedByOverlap
=============================================================================
