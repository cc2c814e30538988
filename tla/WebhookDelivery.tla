-------------------------- MODULE WebhookDelivery --------------------------
(***************************************************************************)
(* The outbox of transaction-service: rows of webhook_deliveries, written  *)
(* by transaction-updater with the status of a payment, and the webhook    *)
(* workers that POST them to the merchants.  Every transaction-service     *)
(* instance runs one worker; the workers share only the table.             *)
(***************************************************************************)
EXTENDS Integers, FiniteSets

CONSTANTS
    Deliveries,    \* rows of webhook_deliveries
    Workers,       \* instances of the webhook worker
    BatchSize,     \* limit of FetchPendingDeliveries
    MaxAttempts,   \* column max_attempts
    MaxFaults,     \* bound: crashes, failed UPDATEs, lost answers
    NoJob          \* stands for "no delivery in hand"

\* What a worker has read of a row, and the attempt it is making.
Jobs == [row : Deliveries, attempts : 0..MaxAttempts]

ASSUME ConstantsAssumption ==
    /\ BatchSize \in Nat \ {0}
    /\ MaxAttempts \in Nat \ {0}
    /\ MaxFaults \in Nat
    /\ NoJob \notin Jobs

VARIABLES
    status,     \* status[d]: column status, "none" before the INSERT
    attempts,   \* attempts[d]: column attempts
    due,        \* due[d]: next_retry_at has passed
    batch,      \* batch[w]: rows fetched and not yet taken up, as read
    stage,      \* stage[w]: where deliver stands
    job,        \* job[w]: the delivery it works on
    posts,      \* history: posts[d] requests sent to the merchant
    received,   \* history: received[d] requests the merchant accepted
    overlaps,   \* history: fetches of d while another worker had d in hand
    unread,     \* history: deliveries whose merchant had no readable config
    faults

rowVars    == <<status, attempts, due>>
workerVars == <<batch, stage, job>>
histVars   == <<posts, received, overlaps, unread>>
vars == <<rowVars, workerVars, histVars, faults>>

Init ==
    /\ status = [d \in Deliveries |-> "none"]
    /\ attempts = [d \in Deliveries |-> 0]
    /\ due = [d \in Deliveries |-> FALSE]
    /\ batch = [w \in Workers |-> {}]
    /\ stage = [w \in Workers |-> "idle"]
    /\ job = [w \in Workers |-> NoJob]
    /\ posts = [d \in Deliveries |-> 0]
    /\ received = [d \in Deliveries |-> 0]
    /\ overlaps = [d \in Deliveries |-> 0]
    /\ unread = {}
    /\ faults = 0

Fault == faults < MaxFaults /\ faults' = faults + 1
NoFault == UNCHANGED faults

\* Worker w has read row d and has not finished with it.
Holds(w, d) ==
    \/ \E s \in batch[w] : s.row = d
    \/ stage[w] # "idle" /\ job[w].row = d

-----------------------------------------------------------------------------
\* The INSERT in the transaction that writes the payment's status.
CreateDelivery(d) ==
    /\ status[d] = "none"
    /\ status' = [status EXCEPT ![d] = "pending"]
    /\ due' = [due EXCEPT ![d] = TRUE]
    /\ NoFault
    /\ UNCHANGED <<attempts, workerVars, histVars>>

\* The backoff of a row ends.
BackoffEnds(d) ==
    /\ status[d] = "pending"
    /\ ~due[d]
    /\ due' = [due EXCEPT ![d] = TRUE]
    /\ NoFault
    /\ UNCHANGED <<status, attempts, workerVars, histVars>>

\* Operators named Wrong... are deliberately wrong variants of the definition
\* that follows them.  This worker delivers in a goroutine and goes on fetching.
WrongIdle(w) == batch[w] = {}

\* Run calls processBatch, which goes through the batch before the next tick.
Idle(w) == batch[w] = {} /\ stage[w] = "idle"

\* The wrong query looks only at rows never tried before.
WrongReady == {d \in Deliveries : status[d] = "pending" /\ attempts[d] = 0}

Ready == {d \in Deliveries : status[d] = "pending" /\ due[d]}

\* SELECT ... FOR UPDATE SKIP LOCKED outside a transaction: the row locks end
\* with the statement, and nothing in the rows says that they are taken.
FetchPendingDeliveries(w) ==
    /\ Idle(w)
    /\ \E rows \in SUBSET Ready :
          /\ rows # {}
          /\ IF Cardinality(Ready) <= BatchSize
             THEN rows = Ready
             ELSE Cardinality(rows) = BatchSize
          /\ batch' = [batch EXCEPT
                ![w] = {[row |-> d, attempts |-> attempts[d]] : d \in rows}]
          /\ overlaps' =
                [d \in Deliveries |->
                   IF d \in rows /\ \E v \in Workers \ {w} : Holds(v, d)
                   THEN overlaps[d] + 1
                   ELSE overlaps[d]]
    /\ NoFault
    /\ UNCHANGED <<rowVars, stage, job, posts, received, unread>>

\* deliver takes up row s.row for the n-th attempt.
Begin(w, s, where, n) ==
    /\ stage[w] = "idle"
    /\ s \in batch[w]
    /\ batch' = [batch EXCEPT ![w] = @ \ {s}]
    /\ stage' = [stage EXCEPT ![w] = where]
    /\ job' = [job EXCEPT ![w] = [row |-> s.row, attempts |-> n]]

End(w) ==
    /\ stage' = [stage EXCEPT ![w] = "idle"]
    /\ job' = [job EXCEPT ![w] = NoJob]

Attempt(s) == s.attempts + 1

\* deliver reads the merchant's webhook configuration.
ConfigFound(w, s) ==
    /\ Begin(w, s, "send", Attempt(s))
    /\ NoFault
    /\ UNCHANGED <<rowVars, histVars>>

\* The merchant has switched its webhook off, or the read failed: GetMerchant-
\* Config does not tell these apart, and deliver gives the row up at once.
ConfigMissing(w, s) ==
    /\ Fault
    /\ Begin(w, s, "failed", MaxAttempts)
    /\ unread' = unread \cup {s.row}
    /\ UNCHANGED <<rowVars, posts, received, overlaps>>

\* One POST; whether the merchant accepts it and what deliver makes of it.
Post(w, accepted, outcome) ==
    /\ stage[w] = "send"
    /\ posts' = [posts EXCEPT ![job[w].row] = @ + 1]
    /\ received' = IF accepted
                   THEN [received EXCEPT ![job[w].row] = @ + 1]
                   ELSE received
    /\ stage' = [stage EXCEPT ![w] = outcome]
    /\ UNCHANGED <<rowVars, batch, job, overlaps, unread>>

\* Send returns an error unless the status is 2xx; the wrong one returns nil.
WrongRefusal == "delivered"

Refusal == "failed"

SendAccepted(w) == Post(w, TRUE, "delivered") /\ NoFault

SendRefused(w) == Post(w, FALSE, Refusal) /\ NoFault

\* The merchant accepts the request, but no answer comes in time.
AnswerLost(w) == Post(w, TRUE, "failed") /\ Fault

\* MarkDelivered and MarkFailed update the row by its id alone.
WrongDelivered(d) == UNCHANGED status

Delivered(d) == status' = [status EXCEPT ![d] = "delivered"]

MarkDelivered(w) ==
    /\ stage[w] = "delivered"
    /\ Delivered(job[w].row)
    /\ End(w)
    /\ NoFault
    /\ UNCHANGED <<attempts, due, batch, histVars>>

\* The attempt before the last one already counts as the last.
WrongExhausted(n) == n + 1 >= MaxAttempts

Exhausted(n) == n >= MaxAttempts

MarkFailed(w) ==
    /\ stage[w] = "failed"
    /\ LET d == job[w].row
           n == job[w].attempts
       IN  /\ status' = [status EXCEPT
                           ![d] = IF Exhausted(n) THEN "failed" ELSE "pending"]
           /\ attempts' = [attempts EXCEPT ![d] = n]
           /\ due' = [due EXCEPT ![d] = FALSE]
    /\ End(w)
    /\ NoFault
    /\ UNCHANGED <<batch, histVars>>

\* The UPDATE fails: the error is logged or ignored and the row stays as it is.
MarkFails(w) ==
    /\ Fault
    /\ stage[w] \in {"delivered", "failed"}
    /\ End(w)
    /\ UNCHANGED <<rowVars, batch, histVars>>

\* The process dies, or shuts down: the cancelled context fails every call.
Crash(w) ==
    /\ Fault
    /\ stage[w] # "idle" \/ batch[w] # {}
    /\ batch' = [batch EXCEPT ![w] = {}]
    /\ End(w)
    /\ UNCHANGED <<rowVars, histVars>>

-----------------------------------------------------------------------------
WorkerNext(w) ==
    \/ FetchPendingDeliveries(w)
    \/ \E s \in batch[w] : ConfigFound(w, s) \/ ConfigMissing(w, s)
    \/ SendAccepted(w)
    \/ SendRefused(w)
    \/ AnswerLost(w)
    \/ MarkDelivered(w)
    \/ MarkFailed(w)
    \/ MarkFails(w)
    \/ Crash(w)

Next ==
    \/ \E d \in Deliveries : CreateDelivery(d) \/ BackoffEnds(d)
    \/ \E w \in Workers : WorkerNext(w)

Spec == Init /\ [][Next]_vars

\* The ticker keeps firing, backoffs end, and a worker goes through its batch;
\* a POST ends, but nothing says that a merchant ever accepts one.
Fairness ==
    /\ \A d \in Deliveries : WF_vars(BackoffEnds(d))
    /\ \A w \in Workers :
          /\ WF_vars(FetchPendingDeliveries(w))
          /\ WF_vars(\E s \in batch[w] : ConfigFound(w, s))
          /\ WF_vars(SendAccepted(w) \/ SendRefused(w))
          /\ WF_vars(MarkDelivered(w))
          /\ WF_vars(MarkFailed(w))

FairSpec == Spec /\ Fairness

-----------------------------------------------------------------------------
(* Properties *)

\* Every variable keeps its type; no attempt is numbered above max_attempts.
TypeOK ==
    /\ status \in [Deliveries -> {"none", "pending", "delivered", "failed"}]
    /\ attempts \in [Deliveries -> 0..MaxAttempts]
    /\ due \in [Deliveries -> BOOLEAN]
    /\ batch \in [Workers -> SUBSET Jobs]
    /\ stage \in [Workers -> {"idle", "send", "delivered", "failed"}]
    /\ job \in [Workers -> Jobs \cup {NoJob}]
    /\ \A w \in Workers : stage[w] = "idle" <=> job[w] = NoJob
    /\ posts \in [Deliveries -> Nat]
    /\ received \in [Deliveries -> Nat]
    /\ overlaps \in [Deliveries -> Nat]
    /\ unread \subseteq Deliveries
    /\ faults \in 0..MaxFaults

\* A row is marked delivered only if the merchant has accepted a request for
\* it, whichever worker marks it and whatever another one does meanwhile.
DeliveredWasReceived ==
    \A d \in Deliveries : status[d] = "delivered" => received[d] > 0

\* A notification is given up only after max_attempts requests, or when the
\* merchant's configuration could not be read: concurrent workers and stale
\* attempt counters can add requests, never take one away.
GivenUpAfterTrying ==
    \A d \in Deliveries :
        status[d] = "failed" => posts[d] >= MaxAttempts \/ d \in unread

\* What makes these inductive: a number of attempts that a row or a worker
\* carries, fresh or stale, counts requests that were made; a row that may be
\* fetched has an attempt left; and what is about to be marked delivered was.
Counted(d, n) == n <= posts[d] \/ d \in unread

RowsCounted ==
    \A d \in Deliveries :
        /\ Counted(d, attempts[d])
        /\ status[d] \in {"none", "pending"} => attempts[d] < MaxAttempts
        /\ status[d] = "failed" => attempts[d] = MaxAttempts

SnapshotsCounted ==
    \A w \in Workers : \A s \in batch[w] :
        s.attempts < MaxAttempts /\ Counted(s.row, s.attempts)

JobsCounted ==
    \A w \in Workers :
        /\ stage[w] = "send" => Counted(job[w].row, job[w].attempts - 1)
        /\ stage[w] = "failed" => Counted(job[w].row, job[w].attempts)
        /\ stage[w] = "delivered" => received[job[w].row] > 0

\* A worker holds a row once.
HeldOnce ==
    \A w \in Workers : \A s \in batch[w] :
        /\ \A t \in batch[w] : s.row = t.row => s = t
        /\ stage[w] # "idle" => job[w].row # s.row

\* Workers that hold d and have no accepted request to report.
Trying(d) ==
    {w \in Workers : \/ \E s \in batch[w] : s.row = d
                     \/ stage[w] \in {"send", "failed"} /\ job[w].row = d}

\* One request that the merchant accepts is due; each one more is paid for. A
\* worker that tries may add one, and so may the next fetch of a row that is
\* pending and that no worker holds.
RepeatsPaid ==
    \A d \in Deliveries :
        /\ received[d] + Cardinality(Trying(d)) <= 1 + faults + overlaps[d]
        /\ status[d] = "none" =>
              received[d] = 0 /\ \A w \in Workers : ~Holds(w, d)
        /\ status[d] = "pending" /\ (\A w \in Workers : ~Holds(w, d)) =>
              received[d] <= faults + overlaps[d]

\* A row that was never fetched from under a worker is in one hand, and still
\* pending while it is.
HeldAlone ==
    \A d \in Deliveries : overlaps[d] = 0 =>
        \A w \in Workers : Holds(w, d) =>
            /\ status[d] = "pending"
            /\ \A v \in Workers : Holds(v, d) => v = w

WebhookInv ==
    /\ TypeOK
    /\ RowsCounted /\ SnapshotsCounted /\ JobsCounted
    /\ DeliveredWasReceived
    /\ HeldOnce /\ RepeatsPaid /\ HeldAlone

\* MarkDelivered and MarkFailed do not ask for the status they replace, yet a
\* notification that is delivered or given up changes again only if two workers
\* had it in hand: then the late MarkFailed of one re-opens what the other has
\* delivered. With one instance no crash, lost answer or failed UPDATE does it.
ReopenedByOverlap ==
    [][\A d \in Deliveries :
          status[d] \in {"delivered", "failed"} /\ status'[d] # status[d]
              => overlaps[d] > 0]_vars

\* Every repeated notification has a cause of its own: a fault, or a worker
\* that fetched the row while another one had it in hand.
RepeatsAreExplained ==
    \A d \in Deliveries : received[d] <= 1 + faults + overlaps[d]

\* Every notification comes to an end: delivered, or given up.  Late updates
\* of a second worker may re-open a row, but not for ever.
EventuallyDone ==
    \A d \in Deliveries :
        status[d] = "pending" ~> status[d] \in {"delivered", "failed"}

\* ADR-005: SKIP LOCKED excludes double delivery with several instances.
NoDoubleDelivery == \A d \in Deliveries : received[d] <= 1
=============================================================================
