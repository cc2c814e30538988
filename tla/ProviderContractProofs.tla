------------------------ MODULE ProviderContractProofs ------------------------
(***************************************************************************)
(* Every breaker of ProviderRouting implements BreakerContract: its two    *)
(* counters, which any call may drive in any state, decide as the log of   *)
(* its recent reports does.                                                *)
(***************************************************************************)
EXTENDS ProviderRoutingProofs

Oldest == FailureThreshold + HalfOpenSuccesses

\* What the counters say about the log: failures is the length of the run of
\* failures at its end, successes is its length while half-open.
LogOf(p, s) ==
    /\ Len(s) <= Oldest
    /\ state[p] = "closed" =>
         /\ failures[p] <= Len(s)
         /\ \A i \in (Len(s) - failures[p] + 1) .. Len(s) : s[i] = "failure"
         /\ failures[p] < Len(s) => s[Len(s) - failures[p]] = "success"
    /\ state[p] = "half-open" =>
         /\ successes[p] = Len(s)
         /\ \A i \in 1 .. Len(s) : s[i] = "success"
    /\ state[p] = "open" => s = <<>>

LogInv == \A p \in Providers : LogOf(p, results[p])

NewLog(p, report) == Log(p, report)[p]

\* Extends(t, s, r, k): t is s and r, without the k oldest reports.
Extends(t, s, r, k) ==
    /\ Len(t) = Len(s) + 1 - k
    /\ t[Len(t)] = r
    /\ \A i \in 1 .. Len(t) - 1 : t[i] = s[i + k]

\* A full log loses its oldest report.
LEMMA DropOldest ==
    ASSUME NEW s, NEW t, NEW r, Len(s) \in Nat, Len(t) = Len(s), t[Len(s)] = r,
           \A i \in 1 .. Len(s) - 1 : t[i] = s[i + 1]
    PROVE  Extends(t, s, r, 1)
<1>1. Len(t) = Len(s) + 1 - 1
    OBVIOUS
<1> QED
    BY <1>1 DEF Extends

\* A new report goes to the end of the log, at the cost of the oldest when it is full.
LEMMA NewLogExtends ==
    ASSUME TypeOK, LogInv, NEW p \in Providers, NEW r \in Reports
    PROVE  /\ NewLog(p, r) \in Seq(Reports)
           /\ \/ Extends(NewLog(p, r), results[p], r, 0) /\ Len(results[p]) < Oldest
              \/ Extends(NewLog(p, r), results[p], r, 1) /\ Len(results[p]) = Oldest
<1> DEFINE s == results[p]
           a == Append(s, r)
<1>1. s \in Seq(Reports) /\ Len(s) \in Nat /\ Len(s) <= Oldest
    BY DEF TypeOK, BreakerTypeOK, LogInv, LogOf
<1>2. Oldest \in Nat /\ Oldest >= 2
    BY ConfigAssumption DEF Oldest
<1>3. /\ a \in Seq(Reports) /\ a # <<>>
      /\ Len(a) = Len(s) + 1
      /\ a[Len(s) + 1] = r
      /\ \A i \in 1 .. Len(s) : a[i] = s[i]
    BY <1>1, AppendProperties
<1>4. NewLog(p, r) = IF Len(a) <= Oldest THEN a ELSE Tail(a)
    BY DEF NewLog, Log, Oldest, TypeOK, BreakerTypeOK
<1>5. CASE Len(s) < Oldest
    <2>1. NewLog(p, r) = a
        BY <1>1, <1>2, <1>3, <1>4, <1>5
    <2> QED
        BY <1>1, <1>3, <1>5, <2>1 DEF Extends
<1>6. CASE Len(s) = Oldest
    <2>1. NewLog(p, r) = Tail(a)
        BY <1>1, <1>2, <1>3, <1>4, <1>6
    <2>2. /\ Tail(a) \in Seq(Reports)
          /\ Len(Tail(a)) = Len(s)
          /\ \A i \in 1 .. Len(s) : Tail(a)[i] = a[i + 1]
        BY <1>1, <1>3, HeadTailProperties
    <2>3. Tail(a)[Len(s)] = r
        BY <1>1, <1>2, <1>3, <1>6, <2>2
    <2>4. \A i \in 1 .. Len(s) - 1 : Tail(a)[i] = s[i + 1]
        BY <1>1, <1>3, <2>2
    <2>5. Extends(Tail(a), s, r, 1)
        BY <1>1, <2>2, <2>3, <2>4, DropOldest
    <2> QED
        BY <1>6, <2>1, <2>2, <2>5
<1> QED
    BY <1>1, <1>2, <1>5, <1>6

-------------------------------------------------------------------------------
(* The counters decide as the log does. *)

\* A log that a success ends has no run of failures at its end.
LEMMA SuccessEndsNoRun ==
    ASSUME NEW p \in Providers, NEW t \in Seq(Reports), NEW s \in Seq(Reports),
           NEW k \in {0, 1}, Extends(t, s, "success", k), Len(t) >= 1
    PROVE  ~Contract(p)!EndsWith(t, FailureThreshold, "failure")
<1>1. Len(t) \in Len(t) - FailureThreshold + 1 .. Len(t)
    BY ConfigAssumption
<1> QED
    BY <1>1 DEF Extends, Contract!EndsWith

\* A closed breaker trips exactly when the log ends with enough failures.
LEMMA TripsByLog ==
    ASSUME TypeOK, CountersMatchState, LogInv, NEW p \in Providers, state[p] = "closed"
    PROVE  Trips(p) <=> Contract(p)!EndsWith(NewLog(p, "failure"), FailureThreshold, "failure")
<1> DEFINE s == results[p]
           t == NewLog(p, "failure")
           f == failures[p]
<1>1. PICK k \in {0, 1} : Extends(t, s, "failure", k) /\ (k = 1 => Len(s) = Oldest)
    BY NewLogExtends DEF Reports
<1>2. /\ s \in Seq(Reports) /\ t \in Seq(Reports)
      /\ f \in Nat /\ f < FailureThreshold /\ f <= Len(s)
      /\ \A i \in Len(s) - f + 1 .. Len(s) : s[i] = "failure"
      /\ f < Len(s) => s[Len(s) - f] = "success"
    BY NewLogExtends
    DEF Reports, TypeOK, BreakerTypeOK, CountersMatchState, LogInv, LogOf
<1>3. Len(s) \in Nat /\ Len(t) \in Nat /\ Len(t) = Len(s) + 1 - k
    BY <1>1, <1>2 DEF Extends
<1>4. ASSUME f + 1 >= FailureThreshold
      PROVE  Contract(p)!EndsWith(t, FailureThreshold, "failure")
    <2>1. Len(t) >= FailureThreshold
        BY <1>1, <1>2, <1>3, <1>4, ConfigAssumption DEF Oldest
    <2>2. ASSUME NEW i \in Len(t) - FailureThreshold + 1 .. Len(t)
          PROVE  t[i] = "failure"
        <3>1. CASE i = Len(t)
            BY <1>1, <3>1 DEF Extends
        <3>2. CASE i < Len(t)
            <4>1. i \in 1 .. Len(t) - 1
                BY <1>3, <2>1, <3>2, ConfigAssumption
            <4>2. i + k \in Len(s) - f + 1 .. Len(s)
                BY <1>2, <1>3, <1>4, <2>1, <3>2, ConfigAssumption
            <4> QED
                BY <1>1, <1>2, <4>1, <4>2 DEF Extends
        <3> QED
            BY <1>3, <3>1, <3>2, ConfigAssumption
    <2> QED
        BY <2>1, <2>2 DEF Contract!EndsWith
<1>5. ASSUME Contract(p)!EndsWith(t, FailureThreshold, "failure"), f + 1 < FailureThreshold
      PROVE  FALSE
    <2> DEFINE j == Len(t) - f - 1
    <2>1. /\ Len(t) >= FailureThreshold
          /\ \A i \in Len(t) - FailureThreshold + 1 .. Len(t) : t[i] = "failure"
        BY <1>5 DEF Contract!EndsWith
    <2>2. /\ j \in Len(t) - FailureThreshold + 1 .. Len(t)
          /\ j \in 1 .. Len(t) - 1
          /\ j + k = Len(s) - f
          /\ f < Len(s)
        <3>1. FailureThreshold \in Nat /\ f \in Nat /\ k \in {0, 1}
            BY <1>2, ConfigAssumption
        <3>2. j = Len(s) - k - f
            BY <1>3, <3>1
        <3>3. j >= 1
            BY <1>3, <1>5, <2>1, <3>1
        <3>4. f < Len(s) /\ j + k = Len(s) - f
            <4>1. k \in Nat /\ Len(s) \in Nat /\ f \in Nat /\ j \in Int
                BY <1>3, <3>1
            <4> HIDE DEF j
            <4> QED
                BY <4>1, <3>2, <3>3
        <3>5. j \in Int /\ j <= Len(t) - 1 /\ j >= Len(t) - FailureThreshold + 1
            BY <1>3, <1>5, <3>1
        <3> QED
            BY <1>3, <3>1, <3>3, <3>4, <3>5
    <2>3. t[j] = s[j + k]
        BY <1>1, <2>2 DEF Extends
    <2> QED
        BY <1>2, <2>1, <2>2, <2>3
<1>6. Trips(p) <=> f + 1 >= FailureThreshold
    BY DEF Trips
<1> QED
    BY <1>2, <1>4, <1>5, <1>6, ConfigAssumption

\* A half-open breaker recovers exactly when the log ends with enough successes.
LEMMA RecoversByLog ==
    ASSUME TypeOK, CountersMatchState, LogInv, NEW p \in Providers, state[p] = "half-open"
    PROVE  Recovers(p) <=> Contract(p)!EndsWith(NewLog(p, "success"), HalfOpenSuccesses, "success")
<1> DEFINE s == results[p]
           t == NewLog(p, "success")
<1>1. /\ s \in Seq(Reports) /\ t \in Seq(Reports) /\ Len(s) \in Nat /\ Len(t) \in Nat
      /\ successes[p] = Len(s) /\ Len(s) < HalfOpenSuccesses
      /\ \A i \in 1 .. Len(s) : s[i] = "success"
    BY NewLogExtends
    DEF Reports, TypeOK, BreakerTypeOK, CountersMatchState, LogInv, LogOf
<1>2. Extends(t, s, "success", 0)
    <2>1. Len(s) # Oldest
        BY <1>1, ConfigAssumption DEF Oldest
    <2> QED
        BY <2>1, NewLogExtends DEF Reports
<1>3. Len(t) = Len(s) + 1 /\ \A i \in 1 .. Len(t) : t[i] = "success"
    BY <1>1, <1>2 DEF Extends
<1>4. Recovers(p) <=> Len(t) >= HalfOpenSuccesses
    BY <1>1, <1>3 DEF Recovers
<1>5. \A i \in Len(t) - HalfOpenSuccesses + 1 .. Len(t) :
          Len(t) >= HalfOpenSuccesses => t[i] = "success"
    BY <1>1, <1>3, ConfigAssumption
<1> QED
    BY <1>4, <1>5 DEF Contract!EndsWith

-------------------------------------------------------------------------------
(* Steps *)

Same(q) ==
    /\ state'[q] = state[q]
    /\ failures'[q] = failures[q]
    /\ successes'[q] = successes[q]
    /\ waited'[q] = waited[q]
    /\ results'[q] = results[q]

\* What a step does to breaker p: its log still matches its counters, it makes
\* a step of the contract, and the other breakers do nothing.
Conforms(p) ==
    /\ \A q \in Providers : q # p => Same(q)
    /\ LogOf(p, results[p])'
    /\ Contract(p)!Next

\* The contract and ProviderRouting keep the same log.
LEMMA RememberIsNewLog ==
    ASSUME TypeOK, NEW p \in Providers, NEW r \in Reports
    PROVE  Contract(p)!Remember(r) = NewLog(p, r)
BY DEF Contract!Remember, NewLog, Log, TypeOK, BreakerTypeOK

\* The length of a log that has grown by one report.
LEMMA NewLogLength ==
    ASSUME TypeOK, LogInv, NEW p \in Providers, NEW r \in Reports
    PROVE  LET t == NewLog(p, r) IN
           /\ t \in Seq(Reports) /\ Len(t) \in 1 .. Oldest /\ t[Len(t)] = r
           /\ \E k \in {0, 1} : Extends(t, results[p], r, k)
<1>1. results[p] \in Seq(Reports) /\ Len(results[p]) \in Nat
    BY DEF TypeOK, BreakerTypeOK
<1>2. Oldest \in Nat /\ Oldest >= 2
    BY ConfigAssumption DEF Oldest
<1> QED
    BY <1>1, <1>2, NewLogExtends DEF Extends

\* RecordSuccess is a step of the contract, whichever state the call was admitted in.
LEMMA SuccessConforms ==
    ASSUME TypeOK, CountersMatchState, LogInv, NEW p \in Providers, RecordSuccess(p)
    PROVE  Conforms(p)
<1> DEFINE t == NewLog(p, "success")
<1>0. "success" \in Reports
    BY DEF Reports
<1>1. /\ Contract(p)!Remember("success") = t
      /\ t \in Seq(Reports) /\ Len(t) \in 1 .. Oldest /\ t[Len(t)] = "success"
      /\ \E k \in {0, 1} : Extends(t, results[p], "success", k)
    BY <1>0, RememberIsNewLog, NewLogLength
<1>2. Contract(p)!Report("success") => Contract(p)!Next
    BY DEF Contract!Next
<1>3. ASSUME Close(p), Recovers(p)
      PROVE  Conforms(p)
    <2>1. /\ state[p] = "half-open" /\ ~waited[p]
          /\ state'[p] = "closed" /\ waited'[p] = waited[p]
          /\ results'[p] = <<>> /\ failures'[p] = 0 /\ successes'[p] = 0
        BY <1>3 DEF Close, Recovers, TypeOK, BreakerTypeOK, CountersMatchState
    <2>2. \A q \in Providers : q # p => Same(q)
        BY <1>3 DEF Close, TypeOK, BreakerTypeOK, Same
    <2>3. LogOf(p, results[p])'
        BY <2>1, ConfigAssumption DEF LogOf, Oldest
    <2>4. waited'[p] = FALSE
        BY <2>1 DEF TypeOK, BreakerTypeOK
    <2>5. Contract(p)!EndsWith(t, HalfOpenSuccesses, "success")
        BY <1>3, <2>1, RecoversByLog
    <2>6. Contract(p)!Report("success")
        BY <1>1, <2>1, <2>4, <2>5 DEF Contract!Report, Contract!Enter
    <2> QED
        BY <1>2, <2>2, <2>3, <2>6 DEF Conforms
<1>4. ASSUME CountSuccess(p), ~Recovers(p)
      PROVE  Conforms(p)
    <2>1. \A q \in Providers : q # p => Same(q)
        BY <1>4 DEF CountSuccess, TypeOK, BreakerTypeOK, Log, Same
    <2>2. /\ state' = state /\ waited' = waited
          /\ failures'[p] = 0
          /\ state[p] = "half-open" => successes'[p] = successes[p] + 1
          /\ state[p] = "open" => results' = results
          /\ state[p] # "open" => results'[p] = t
        BY <1>4 DEF CountSuccess, FailuresAfterSuccess, TypeOK, BreakerTypeOK, NewLog
    <2>3. CASE state[p] = "open"
        <3>1. LogOf(p, results[p])'
            BY <2>2, <2>3 DEF LogInv, LogOf
        <3>2. Contract(p)!Report("success")
            BY <2>2, <2>3 DEF Contract!Report, Contract!vars
        <3> QED
            BY <1>2, <2>1, <3>1, <3>2 DEF Conforms
    <2>4. CASE state[p] = "closed"
        <3>1. LogOf(p, results[p])'
            BY <1>1, <2>2, <2>4 DEF LogOf
        <3>2. ~Contract(p)!EndsWith(t, FailureThreshold, "failure")
            BY <1>1, SuccessEndsNoRun DEF TypeOK, BreakerTypeOK
        <3>3. Contract(p)!Report("success")
            BY <1>1, <2>2, <2>4, <3>2 DEF Contract!Report, Contract!Stay
        <3> QED
            BY <1>2, <2>1, <3>1, <3>3 DEF Conforms
    <2>5. CASE state[p] = "half-open"
        <3>1. /\ results[p] \in Seq(Reports) /\ Len(results[p]) \in Nat
              /\ successes[p] = Len(results[p]) /\ Len(results[p]) < HalfOpenSuccesses
              /\ \A i \in 1 .. Len(results[p]) : results[p][i] = "success"
            BY <2>5 DEF TypeOK, BreakerTypeOK, CountersMatchState, LogInv, LogOf
        <3>2. Extends(t, results[p], "success", 0)
            BY <1>0, <3>1, NewLogExtends, ConfigAssumption DEF Oldest
        <3>3. LogOf(p, results[p])'
            <4>1. /\ Len(t) = Len(results[p]) + 1
                  /\ \A i \in 1 .. Len(t) - 1 : t[i] = results[p][i]
                BY <3>1, <3>2 DEF Extends
            <4>2. \A i \in 1 .. Len(t) : t[i] = "success"
                <5>1. ASSUME NEW i \in 1 .. Len(t), i # Len(t)
                      PROVE  t[i] = "success"
                    <6>1. i \in 1 .. Len(t) - 1 /\ i \in 1 .. Len(results[p])
                        BY <1>1, <3>1, <4>1, <5>1
                    <6> QED
                        BY <3>1, <4>1, <6>1
                <5> QED
                    BY <1>1, <5>1
            <4>3. /\ state'[p] = "half-open" /\ successes'[p] = Len(t)
                  /\ results'[p] = t /\ Len(t) <= Oldest
                BY <1>1, <2>2, <2>5, <3>1, <4>1
            <4> HIDE DEF t
            <4> QED
                BY <4>2, <4>3 DEF LogOf, Oldest
        <3>4. ~Contract(p)!EndsWith(t, HalfOpenSuccesses, "success")
            BY <1>4, <2>5, RecoversByLog
        <3>5. Contract(p)!Report("success")
            BY <1>1, <2>2, <2>5, <3>4 DEF Contract!Report, Contract!Stay
        <3> QED
            BY <1>2, <2>1, <3>3, <3>5 DEF Conforms
    <2> QED
        BY <2>3, <2>4, <2>5 DEF TypeOK, BreakerTypeOK, States
<1> QED
    BY <1>3, <1>4 DEF RecordSuccess

\* One more failure that does not trip: the run at the end of the log grows by one.
LEMMA FailureGrowsRun ==
    ASSUME TypeOK, CountersMatchState, LogInv, NEW p \in Providers,
           state[p] = "closed", ~Trips(p), state' = state,
           failures'[p] = failures[p] + 1, results'[p] = NewLog(p, "failure")
    PROVE  LogOf(p, results[p])'
<1> DEFINE s == results[p]
           t == NewLog(p, "failure")
           f == failures[p]
<1>1. PICK k \in {0, 1} : Extends(t, s, "failure", k) /\ (k = 1 => Len(s) = Oldest)
    BY NewLogExtends DEF Reports
<1>2. /\ s \in Seq(Reports) /\ t \in Seq(Reports)
      /\ f \in Nat /\ f + 1 < FailureThreshold /\ f <= Len(s)
      /\ \A i \in Len(s) - f + 1 .. Len(s) : s[i] = "failure"
      /\ f < Len(s) => s[Len(s) - f] = "success"
    BY NewLogExtends, ConfigAssumption
    DEF Reports, TypeOK, BreakerTypeOK, CountersMatchState, LogInv, LogOf, Trips
<1>3. /\ Len(s) \in Nat /\ Len(t) \in Nat /\ Len(t) = Len(s) + 1 - k
      /\ FailureThreshold \in Nat /\ HalfOpenSuccesses \in Nat /\ k \in Nat /\ k <= 1
      /\ Len(t) <= Oldest /\ t[Len(t)] = "failure"
    BY <1>1, <1>2, ConfigAssumption, NewLogLength DEF Extends, Reports
<1>4. f + 1 <= Len(t)
    BY <1>1, <1>2, <1>3 DEF Oldest
<1>5. ASSUME NEW i \in Len(t) - (f + 1) + 1 .. Len(t)
      PROVE  t[i] = "failure"
    <2>1. CASE i = Len(t)
        BY <1>3, <2>1
    <2>2. CASE i < Len(t)
        <3>1. i \in 1 .. Len(t) - 1 /\ i + k \in Len(s) - f + 1 .. Len(s)
            <4>0. f \in Nat
                BY <1>2
            <4> HIDE DEF f, s, t
            <4>1. i \in Int /\ i >= Len(t) - f /\ i <= Len(t) - 1
                BY <1>3, <2>2, <4>0
            <4>2. i >= 1 /\ i + k >= Len(s) - f + 1 /\ i + k <= Len(s)
                BY <1>3, <1>4, <4>0, <4>1
            <4> QED
                BY <1>3, <4>1, <4>2
        <3> QED
            BY <1>1, <1>2, <3>1 DEF Extends
    <2> QED
        BY <1>2, <1>3, <2>1, <2>2
<1>6. ASSUME f + 1 < Len(t)
      PROVE  t[Len(t) - (f + 1)] = "success"
    <2>1. /\ Len(t) - (f + 1) \in 1 .. Len(t) - 1
          /\ Len(t) - (f + 1) + k = Len(s) - f
          /\ f < Len(s)
        <3>1. f \in Nat
            BY <1>2
        <3> HIDE DEF f, s, t
        <3> QED
            BY <1>3, <1>6, <3>1
    <2> QED
        BY <1>1, <1>2, <2>1 DEF Extends
<1> QED
    BY <1>3, <1>4, <1>5, <1>6 DEF LogOf

\* So is RecordFailure.
LEMMA FailureConforms ==
    ASSUME TypeOK, CountersMatchState, LogInv, NEW p \in Providers, RecordFailure(p)
    PROVE  Conforms(p)
<1> DEFINE t == NewLog(p, "failure")
<1>0. "failure" \in Reports
    BY DEF Reports
<1>1. /\ Contract(p)!Remember("failure") = t
      /\ t \in Seq(Reports) /\ Len(t) \in 1 .. Oldest /\ t[Len(t)] = "failure"
      /\ \E k \in {0, 1} : Extends(t, results[p], "failure", k)
    BY <1>0, RememberIsNewLog, NewLogLength
<1>2. Contract(p)!Report("failure") => Contract(p)!Next
    BY DEF Contract!Next
<1>3. ASSUME Open(p), Trips(p)
      PROVE  Conforms(p)
    <2>1. /\ state'[p] = "open" /\ waited'[p] = FALSE /\ results'[p] = <<>>
          /\ failures'[p] = 0 /\ successes'[p] = 0
        BY <1>3 DEF Open, TypeOK, BreakerTypeOK
    <2>2. \A q \in Providers : q # p => Same(q)
        BY <1>3 DEF Open, TypeOK, BreakerTypeOK, Same
    <2>3. LogOf(p, results[p])'
        BY <2>1, ConfigAssumption DEF LogOf, Oldest
    <2>4. CASE state[p] = "closed"
        <3>1. Contract(p)!EndsWith(t, FailureThreshold, "failure")
            BY <1>3, <2>4, TripsByLog
        <3> QED
            BY <1>1, <1>2, <2>1, <2>2, <2>3, <2>4, <3>1
            DEF Conforms, Contract!Report, Contract!Enter
    <2>5. CASE state[p] = "half-open"
        BY <1>2, <2>1, <2>2, <2>3, <2>5 DEF Conforms, Contract!Report, Contract!Enter
    <2> QED
        BY <1>3, <2>4, <2>5 DEF Trips
<1>4. ASSUME CountFailure(p), ~Trips(p)
      PROVE  Conforms(p)
    <2>1. \A q \in Providers : q # p => Same(q)
        BY <1>4 DEF CountFailure, TypeOK, BreakerTypeOK, Log, Same
    <2>2. /\ state' = state /\ waited' = waited
          /\ state[p] = "closed" => failures'[p] = failures[p] + 1
          /\ state[p] = "open" => results' = results
          /\ state[p] # "open" => results'[p] = t
        BY <1>4 DEF CountFailure, TypeOK, BreakerTypeOK, NewLog
    <2>3. CASE state[p] = "open"
        <3>1. LogOf(p, results[p])'
            BY <2>2, <2>3 DEF LogInv, LogOf
        <3>2. Contract(p)!Report("failure")
            BY <2>2, <2>3 DEF Contract!Report, Contract!vars
        <3> QED
            BY <1>2, <2>1, <3>1, <3>2 DEF Conforms
    <2>4. CASE state[p] = "closed"
        <3>1. LogOf(p, results[p])'
            BY <1>1, <1>4, <2>2, <2>4, FailureGrowsRun
        <3>2. ~Contract(p)!EndsWith(t, FailureThreshold, "failure")
            BY <1>4, <2>4, TripsByLog
        <3>3. Contract(p)!Report("failure")
            BY <1>1, <2>2, <2>4, <3>2 DEF Contract!Report, Contract!Stay
        <3> QED
            BY <1>2, <2>1, <3>1, <3>3 DEF Conforms
    <2> QED
        BY <1>4, <2>3, <2>4 DEF TypeOK, BreakerTypeOK, States, Trips
<1> QED
    BY <1>3, <1>4 DEF RecordFailure

\* The end of OpenTimeout is a step of the contract.
LEMMA TimeoutConforms ==
    ASSUME TypeOK, LogInv, NEW p \in Providers, OpenTimeout(p)
    PROVE  Conforms(p)
<1>1. /\ \A q \in Providers : q # p => Same(q)
      /\ state[p] = "open" /\ state'[p] = state[p] /\ waited'[p] = TRUE
      /\ results'[p] = results[p] /\ failures'[p] = failures[p] /\ successes'[p] = successes[p]
    BY DEF OpenTimeout, Same, TypeOK, BreakerTypeOK
<1>2. LogOf(p, results[p])'
    BY <1>1 DEF LogInv, LogOf
<1>3. Contract(p)!OpenTimeout
    BY <1>1 DEF Contract!OpenTimeout
<1> QED
    BY <1>1, <1>2, <1>3 DEF Conforms, Contract!Next

\* Allow, when it makes an open breaker half-open, is a step of the contract.
LEMMA ProbeConforms ==
    ASSUME TypeOK, LogInv, NEW p \in Providers, state[p] = "open", waited[p], Probe(p)
    PROVE  Conforms(p)
<1>1. /\ \A q \in Providers : q # p => Same(q)
      /\ state'[p] = "half-open" /\ waited'[p] = FALSE
      /\ results'[p] = <<>> /\ successes'[p] = 0
    BY DEF Probe, Same, TypeOK, BreakerTypeOK
<1>2. LogOf(p, results[p])'
    BY <1>1, ConfigAssumption DEF LogOf, Oldest
<1>3. Contract(p)!Ask
    BY <1>1 DEF Contract!Ask, Contract!Enter
<1> QED
    BY <1>1, <1>2, <1>3 DEF Conforms, Contract!Next

-------------------------------------------------------------------------------
(* All breakers *)

Step(q) == [Contract(q)!Next]_<<state[q], waited[q], results[q]>>

\* A breaker nothing happens to.
LEMMA SameKeeps ==
    ASSUME LogInv, NEW q \in Providers, Same(q)
    PROVE  LogOf(q, results[q])' /\ Step(q)
BY DEF LogInv, LogOf, Same, Step

\* A step that concerns one breaker.
LEMMA OneConforms ==
    ASSUME LogInv, NEW p \in Providers, Conforms(p)
    PROVE  LogInv' /\ \A q \in Providers : Step(q)
<1>1. ASSUME NEW q \in Providers
      PROVE  LogOf(q, results[q])' /\ Step(q)
    <2>1. CASE q = p
        BY <2>1 DEF Conforms, Step
    <2>2. CASE q # p
        BY <2>2, SameKeeps DEF Conforms
    <2> QED
        BY <2>1, <2>2
<1> QED
    BY <1>1 DEF LogInv

\* A step that concerns no breaker.
LEMMA NoneChanges ==
    ASSUME LogInv, UNCHANGED breakerVars
    PROVE  LogInv' /\ \A q \in Providers : Step(q)
<1>1. \A q \in Providers : Same(q)
    BY DEF breakerVars, Same
<1>2. \A q \in Providers : LogOf(q, results[q])' /\ Step(q)
    BY <1>1, SameKeeps
<1> QED
    BY <1>2 DEF LogInv

\* New breakers are closed with empty logs.
LEMMA InitLog == Init => LogInv /\ \A p \in Providers : Contract(p)!Init
BY ConfigAssumption DEF Init, LogInv, LogOf, Oldest, Contract!Init

\* Every step of ProviderRouting concerns at most one breaker, which makes a step of its contract.
LEMMA NextLog ==
    RoutingInv /\ LogInv /\ [Next]_vars => LogInv' /\ \A p \in Providers : Step(p)
<1> SUFFICES ASSUME RoutingInv, LogInv, [Next]_vars
             PROVE  LogInv' /\ \A p \in Providers : Step(p)
    OBVIOUS
<1>0. TypeOK /\ CountersMatchState
    BY DEF RoutingInv
<1>1. ASSUME NEW c \in Calls, Request(c)
      PROVE  UNCHANGED breakerVars
    BY <1>1 DEF Request, FindActive, FindActiveFails
<1>2. ASSUME NEW c \in Calls, Continue(c)
      PROVE  UNCHANGED breakerVars \/ \E p \in Providers : Conforms(p)
    <2>1. CASE NoProvider(c) \/ Attempt(c)
        BY <2>1 DEF NoProvider, Attempt, Answered, Transient, AnswerLost, Permanent
    <2>2. CASE Record(c)
        <3>1. provider[c] \in Providers
            BY <2>2 DEF RoutingInv, TypeOK, CallTypeOK, StageMatches, Record
        <3>2. RecordFailure(provider[c]) \/ RecordSuccess(provider[c])
            BY <2>2 DEF Record
        <3> QED
            BY <1>0, <3>1, <3>2, SuccessConforms, FailureConforms
    <2>3. ASSUME NEW p \in Providers, Filter(c, p) \/ NoAdapter(c, p) \/ Refuse(c, p)
          PROVE  UNCHANGED breakerVars
        BY <2>3 DEF Filter, NoAdapter, Refuse
    <2>4. ASSUME NEW p \in Providers, Admit(c, p)
          PROVE  UNCHANGED breakerVars \/ Conforms(p)
        <3>1. Probe(p)
            BY <2>4 DEF Admit
        <3>2. CASE state[p] = "open" /\ waited[p]
            BY <1>0, <3>1, <3>2, ProbeConforms
        <3>3. CASE ~(state[p] = "open" /\ waited[p])
            BY <3>1, <3>3 DEF Probe
        <3> QED
            BY <3>2, <3>3
    <2> QED
        BY <1>2, <2>1, <2>2, <2>3, <2>4 DEF Continue
<1>3. ASSUME NEW p \in Providers, OpenTimeout(p)
      PROVE  Conforms(p)
    BY <1>0, <1>3, TimeoutConforms
<1>4. CASE UNCHANGED vars
    BY <1>4, NoneChanges DEF vars, breakerVars
<1> QED
    BY <1>1, <1>2, <1>3, <1>4, NoneChanges, OneConforms DEF Next

\* Every breaker behaves as BreakerContract, whose next state depends only on the
\* reports since the breaker entered its state (RecordSuccess, RecordFailure,
\* Allow of circuitbreaker), however many calls report to it and in whatever
\* state they were admitted.
THEOREM BreakersKeepContract == Spec => KeepsContract
<1>1. Init => LogInv /\ \A p \in Providers : Contract(p)!Init
    BY InitLog
<1>2. RoutingInv /\ LogInv /\ [Next]_vars => LogInv'
    BY NextLog
<1>3. RoutingInv /\ LogInv /\ [Next]_vars
      => [\A p \in Providers : [Contract(p)!Next]_<<state[p], waited[p], results[p]>>]_vars
    BY NextLog DEF Step
<1> QED
    BY <1>1, <1>2, <1>3, RoutingInvariant, PTL DEF Spec, KeepsContract
===============================================================================
