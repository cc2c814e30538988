------------------------- MODULE ProviderRoutingProofs -------------------------
(***************************************************************************)
(* The inductive invariant of ProviderRouting, for any number of calls and *)
(* providers and any configuration of breakers and retries.                *)
(***************************************************************************)
EXTENDS ProviderRouting, SequenceTheorems, TLAPS

\* The races and the charges: what RoutingInv says beyond types and counters.
RaceInv ==
    /\ StageMatches
    /\ OnlyEarlierCallsReachOpenProvider
    /\ CandidatesWereUp
    /\ RefusalMeansRace
    /\ AnswerTellsCharge
    /\ OutcomeTellsCharge

\* The names the steps write are of their types.
LEMMA Names ==
    /\ "idle" \in Stages /\ "filter" \in Stages /\ "call" \in Stages /\ "record" \in Stages
    /\ "closed" \in States /\ "open" \in States /\ "half-open" \in States
    /\ "none" \in Outcomes /\ "error" \in Outcomes
    /\ "none" \in Answers /\ "error" \in Answers
    /\ "no provider" \in Answers /\ "unavailable" \in Answers
    /\ \A s \in Statuses : s \in Outcomes /\ s \in Answers
    /\ <<>> \in Seq(Reports)
<1>1. <<>> \in Seq(Reports)
    OBVIOUS
<1> QED
    BY <1>1 DEF Stages, States, Outcomes, Answers

\* Remembering a report keeps the log a sequence of reports.
LEMMA LogType ==
    ASSUME BreakerTypeOK, NEW p \in Providers, NEW report \in Reports
    PROVE  Log(p, report) \in [Providers -> Seq(Reports)]
<1> DEFINE s == Append(results[p], report)
           n == FailureThreshold + HalfOpenSuccesses
<1>1. results[p] \in Seq(Reports)
    BY DEF BreakerTypeOK
<1>2. s \in Seq(Reports) /\ s # <<>>
    BY <1>1, AppendProperties
<1>3. Tail(s) \in Seq(Reports)
    BY <1>2, HeadTailProperties
<1>4. (IF Len(s) <= n THEN s ELSE Tail(s)) \in Seq(Reports)
    BY <1>2, <1>3
<1> QED
    BY <1>4 DEF Log, BreakerTypeOK

\* The two ways ProcessPayment moves on keep the types of its calls.
LEMMA ReturnType ==
    ASSUME CallTypeOK, NEW c \in Calls, NEW a \in Answers, Return(c, a)
    PROVE  CallTypeOK'
<1>1. 0 \in 0 .. MaxRetries
    BY ConfigAssumption
<1> QED
    BY <1>1, Names DEF CallTypeOK, Return

LEMMA FinishType ==
    ASSUME CallTypeOK, NEW c \in Calls, NEW o \in Outcomes, Finish(c, o)
    PROVE  CallTypeOK'
<1>1. 0 \in 0 .. MaxRetries
    BY ConfigAssumption
<1> QED
    BY <1>1, Names DEF CallTypeOK, Finish

LEMMA BreakerTypeKept ==
    BreakerTypeOK /\ UNCHANGED breakerVars => BreakerTypeOK'
BY DEF BreakerTypeOK, breakerVars

LEMMA InitRouting == Init => RoutingInv
<1> SUFFICES ASSUME Init PROVE RoutingInv
    OBVIOUS
<1>1. BreakerTypeOK
    BY Names DEF Init, BreakerTypeOK
<1>0. 0 \in 0 .. MaxRetries
    BY ConfigAssumption
<1>a. CallTypeOK
    BY <1>0, Names DEF Init, CallTypeOK
<1>b. TypeOK
    BY <1>1, <1>a DEF Init, TypeOK
<1>2. StageMatches /\ CountersMatchState
    BY ProvidersAssumption, ConfigAssumption
    DEF Init, StageMatches, CountersMatchState
<1>3. OnlyEarlierCallsReachOpenProvider /\ CandidatesWereUp /\ RefusalMeansRace
    BY DEF Init, OnlyEarlierCallsReachOpenProvider, CandidatesWereUp, RefusalMeansRace
<1>4. AnswerTellsCharge /\ OutcomeTellsCharge
    BY DEF Init, AnswerTellsCharge, OutcomeTellsCharge
<1> QED
    BY <1>b, <1>2, <1>3, <1>4 DEF RoutingInv

-------------------------------------------------------------------------------
(* The breaker *)

\* What a report does to the breakers and to the calls that count on them.
ReportEffect(p) ==
    /\ BreakerTypeOK'
    /\ opened' \in [Calls -> SUBSET Providers]
    /\ CountersMatchState'
    /\ \A q \in Providers : q # p => state'[q] = state[q] /\ waited'[q] = waited[q]
    /\ \A c \in Calls : opened[c] \subseteq opened'[c]
    /\ \/ state'[p] # "open"
       \/ state[p] = "open" /\ waited'[p] = waited[p]
       \/ \A c \in Calls : CountsOn(c, p) => p \in opened'[c]

LEMMA SuccessEffect ==
    ASSUME TypeOK, CountersMatchState, NEW p \in Providers, RecordSuccess(p)
    PROVE  ReportEffect(p)
<1>1. CASE Close(p) /\ Recovers(p)
    <2>1. BreakerTypeOK'
        BY <1>1, Names DEF Close, TypeOK, BreakerTypeOK
    <2>2. CountersMatchState'
        BY <1>1, ConfigAssumption
        DEF Close, Recovers, TypeOK, BreakerTypeOK, CountersMatchState
    <2> QED
        BY <1>1, <2>1, <2>2 DEF Close, TypeOK, BreakerTypeOK, ReportEffect
<1>2. CASE CountSuccess(p) /\ ~Recovers(p)
    <2>1. Log(p, "success") \in [Providers -> Seq(Reports)]
        BY LogType DEF TypeOK, Reports
    <2>2. BreakerTypeOK'
        BY <1>2, <2>1 DEF CountSuccess, TypeOK, BreakerTypeOK, FailuresAfterSuccess
    <2>3. CountersMatchState'
        BY <1>2, ConfigAssumption
        DEF CountSuccess, Recovers, TypeOK, BreakerTypeOK, CountersMatchState,
            FailuresAfterSuccess
    <2> QED
        BY <1>2, <2>2, <2>3 DEF CountSuccess, TypeOK, ReportEffect
<1> QED
    BY <1>1, <1>2 DEF RecordSuccess

LEMMA FailureEffect ==
    ASSUME TypeOK, CountersMatchState, NEW p \in Providers, RecordFailure(p)
    PROVE  ReportEffect(p)
<1>1. CASE Open(p)
    <2>1. BreakerTypeOK'
        BY <1>1, Names DEF Open, TypeOK, BreakerTypeOK
    <2>2. CountersMatchState'
        BY <1>1, ConfigAssumption DEF Open, TypeOK, BreakerTypeOK, CountersMatchState
    <2>3. opened' \in [Calls -> SUBSET Providers]
        BY <1>1 DEF Open, TypeOK
    <2>4. \A c \in Calls : /\ opened[c] \subseteq opened'[c]
                           /\ CountsOn(c, p) => p \in opened'[c]
        BY <1>1 DEF Open, TypeOK
    <2>5. \A q \in Providers : q # p => state'[q] = state[q] /\ waited'[q] = waited[q]
        BY <1>1 DEF Open, TypeOK, BreakerTypeOK
    <2> QED
        BY <2>1, <2>2, <2>3, <2>4, <2>5 DEF ReportEffect
<1>2. CASE CountFailure(p) /\ ~Trips(p)
    <2>1. Log(p, "failure") \in [Providers -> Seq(Reports)]
        BY LogType DEF TypeOK, Reports
    <2>2. BreakerTypeOK'
        BY <1>2, <2>1 DEF CountFailure, TypeOK, BreakerTypeOK
    <2>3. CountersMatchState'
        BY <1>2, ConfigAssumption
        DEF CountFailure, Trips, TypeOK, BreakerTypeOK, CountersMatchState
    <2> QED
        BY <1>2, <2>2, <2>3 DEF CountFailure, TypeOK, ReportEffect
<1> QED
    BY <1>1, <1>2 DEF RecordFailure

-------------------------------------------------------------------------------
(* The steps of Next. Steps of ProcessPayment that leave the breakers alone *)
(* need no word about the counters.                                         *)

LEMMA CountersKept ==
    CountersMatchState /\ UNCHANGED breakerVars => CountersMatchState'
BY DEF CountersMatchState, breakerVars

LEMMA TimeoutStep ==
    ASSUME RoutingInv, NEW p \in Providers, OpenTimeout(p)
    PROVE  RoutingInv'
<1>1. TypeOK'
    BY DEF RoutingInv, TypeOK, BreakerTypeOK, CallTypeOK, OpenTimeout, callVars
<1>2. CountersMatchState'
    BY DEF RoutingInv, TypeOK, BreakerTypeOK, OpenTimeout, CountersMatchState
<1>3. StageMatches' /\ RefusalMeansRace' /\ AnswerTellsCharge' /\ OutcomeTellsCharge'
    BY DEF RoutingInv, OpenTimeout, callVars, StageMatches, RefusalMeansRace,
           AnswerTellsCharge, OutcomeTellsCharge
<1>4. OnlyEarlierCallsReachOpenProvider'
    BY DEF RoutingInv, OpenTimeout, callVars, OnlyEarlierCallsReachOpenProvider
<1>5. CandidatesWereUp'
    BY DEF RoutingInv, TypeOK, BreakerTypeOK, OpenTimeout, callVars, CandidatesWereUp, IsOpen
<1> QED
    BY <1>1, <1>2, <1>3, <1>4, <1>5 DEF RoutingInv

\* A step that leaves the breakers alone.
LEMMA QuietStep ==
    ASSUME RoutingInv, NEW c \in Calls,
           UNCHANGED breakerVars,
           \/ Request(c) \/ NoProvider(c) \/ Attempt(c)
           \/ \E p \in Providers : Filter(c, p) \/ NoAdapter(c, p) \/ Refuse(c, p)
    PROVE  RoutingInv'
<1>1. CountersMatchState'
    BY CountersKept DEF RoutingInv
<1> SUFFICES TypeOK' /\ RaceInv'
    BY <1>1 DEF RoutingInv, RaceInv
<1>a. TypeOK /\ CallTypeOK /\ RaceInv
    BY DEF RoutingInv, RaceInv, TypeOK
<1>b. BreakerTypeOK'
    BY <1>a, BreakerTypeKept DEF TypeOK
<1>c. state' = state /\ waited' = waited
    BY DEF breakerVars
<1>2. CASE FindActiveFails(c)
    <2>0. CallTypeOK'
        BY <1>a, <1>2, Names, ReturnType DEF FindActiveFails
    <2>1. TypeOK'
        BY <1>a, <1>2, <1>b, <2>0 DEF TypeOK, FindActiveFails
    <2>2. StageMatches'
        BY <1>a, <1>2, ProvidersAssumption DEF CallTypeOK, RaceInv, StageMatches, FindActiveFails, Return
    <2>3. OnlyEarlierCallsReachOpenProvider' /\ CandidatesWereUp'
        BY <1>a, <1>2, <1>c DEF TypeOK, CallTypeOK, RaceInv, StageMatches, FindActiveFails, Return,
           OnlyEarlierCallsReachOpenProvider, CandidatesWereUp, IsOpen
    <2>4. RefusalMeansRace' /\ AnswerTellsCharge' /\ OutcomeTellsCharge'
        BY <1>a, <1>2 DEF TypeOK, CallTypeOK, RaceInv, StageMatches, FindActiveFails, Return,
           RefusalMeansRace, AnswerTellsCharge, OutcomeTellsCharge
    <2> QED
        BY <2>1, <2>2, <2>3, <2>4 DEF RaceInv
<1>3. ASSUME NEW rows \in SUBSET Providers, FindActive(c, rows)
      PROVE  TypeOK' /\ RaceInv'
    <2>0. CallTypeOK'
        BY <1>a, <1>3, Names DEF CallTypeOK, FindActive
    <2>1. TypeOK'
        BY <1>a, <1>3, <1>b, <2>0 DEF TypeOK, FindActive
    <2>2. StageMatches'
        BY <1>a, <1>3, ProvidersAssumption DEF CallTypeOK, RaceInv, StageMatches, FindActive
    <2>3. OnlyEarlierCallsReachOpenProvider' /\ CandidatesWereUp'
        BY <1>a, <1>3, <1>c DEF TypeOK, CallTypeOK, RaceInv, StageMatches, FindActive,
           OnlyEarlierCallsReachOpenProvider, CandidatesWereUp, IsOpen
    <2>4. RefusalMeansRace' /\ AnswerTellsCharge' /\ OutcomeTellsCharge'
        BY <1>a, <1>3 DEF TypeOK, CallTypeOK, RaceInv, StageMatches, FindActive,
           RefusalMeansRace, AnswerTellsCharge, OutcomeTellsCharge
    <2> QED
        BY <2>1, <2>2, <2>3, <2>4 DEF RaceInv
<1>4. CASE NoProvider(c)
    <2>0. CallTypeOK'
        BY <1>a, <1>4, Names, ReturnType DEF NoProvider
    <2>1. TypeOK'
        BY <1>a, <1>4, <1>b, <2>0 DEF TypeOK, NoProvider
    <2>2. StageMatches'
        BY <1>a, <1>4, ProvidersAssumption DEF CallTypeOK, RaceInv, StageMatches, NoProvider, Return
    <2>3. OnlyEarlierCallsReachOpenProvider' /\ CandidatesWereUp'
        BY <1>a, <1>4, <1>c DEF TypeOK, CallTypeOK, RaceInv, StageMatches, NoProvider, Return,
           OnlyEarlierCallsReachOpenProvider, CandidatesWereUp, IsOpen
    <2>4. RefusalMeansRace' /\ AnswerTellsCharge' /\ OutcomeTellsCharge'
        BY <1>a, <1>4 DEF TypeOK, CallTypeOK, RaceInv, StageMatches, NoProvider, Return,
           RefusalMeansRace, AnswerTellsCharge, OutcomeTellsCharge
    <2> QED
        BY <2>1, <2>2, <2>3, <2>4 DEF RaceInv
<1>5. ASSUME NEW p \in Providers, Filter(c, p)
      PROVE  TypeOK' /\ RaceInv'
    <2>0. CallTypeOK'
        BY <1>a, <1>5, Names DEF CallTypeOK, Filter, StillUp
    <2>1. TypeOK'
        BY <1>a, <1>5, <1>b, <2>0 DEF TypeOK, Filter
    <2>2. StageMatches'
        BY <1>a, <1>5, ProvidersAssumption DEF CallTypeOK, RaceInv, StageMatches, Filter, StillUp
    <2>3. OnlyEarlierCallsReachOpenProvider' /\ CandidatesWereUp'
        BY <1>a, <1>5, <1>c DEF TypeOK, CallTypeOK, RaceInv, StageMatches, Filter, StillUp,
           OnlyEarlierCallsReachOpenProvider, CandidatesWereUp, IsOpen
    <2>4. RefusalMeansRace' /\ AnswerTellsCharge' /\ OutcomeTellsCharge'
        BY <1>a, <1>5 DEF TypeOK, CallTypeOK, RaceInv, StageMatches, Filter, StillUp,
           RefusalMeansRace, AnswerTellsCharge, OutcomeTellsCharge
    <2> QED
        BY <2>1, <2>2, <2>3, <2>4 DEF RaceInv
<1>6. ASSUME NEW p \in Providers, NoAdapter(c, p)
      PROVE  TypeOK' /\ RaceInv'
    <2>0. CallTypeOK'
        BY <1>a, <1>6, Names, ReturnType DEF NoAdapter
    <2>1. TypeOK'
        BY <1>a, <1>6, <1>b, <2>0 DEF TypeOK, NoAdapter
    <2>2. StageMatches'
        BY <1>a, <1>6, ProvidersAssumption DEF CallTypeOK, RaceInv, StageMatches, NoAdapter, Select, Return
    <2>3. OnlyEarlierCallsReachOpenProvider' /\ CandidatesWereUp'
        BY <1>a, <1>6, <1>c DEF TypeOK, CallTypeOK, RaceInv, StageMatches, NoAdapter, Select, Return,
           OnlyEarlierCallsReachOpenProvider, CandidatesWereUp, IsOpen
    <2>4. RefusalMeansRace' /\ AnswerTellsCharge' /\ OutcomeTellsCharge'
        BY <1>a, <1>6 DEF TypeOK, CallTypeOK, RaceInv, StageMatches, NoAdapter, Select, Return,
           RefusalMeansRace, AnswerTellsCharge, OutcomeTellsCharge
    <2> QED
        BY <2>1, <2>2, <2>3, <2>4 DEF RaceInv
<1>7. ASSUME NEW p \in Providers, Refuse(c, p)
      PROVE  TypeOK' /\ RaceInv'
    <2>a. p \in opened[c]
        BY <1>a, <1>7 DEF RaceInv, Refuse, Select, Allows, IsOpen, CandidatesWereUp
    <2>0. CallTypeOK'
        BY <1>a, <1>7, Names, ReturnType DEF Refuse
    <2>1. TypeOK'
        BY <1>a, <1>7, <1>b, <2>0 DEF TypeOK, Refuse
    <2>2. StageMatches'
        BY <1>a, <1>7, ProvidersAssumption DEF CallTypeOK, RaceInv, StageMatches, Refuse, Select, Return
    <2>3. OnlyEarlierCallsReachOpenProvider' /\ CandidatesWereUp'
        BY <1>a, <1>7, <1>c DEF TypeOK, CallTypeOK, RaceInv, StageMatches, Refuse, Select, Return,
           OnlyEarlierCallsReachOpenProvider, CandidatesWereUp, IsOpen
    <2>4. RefusalMeansRace' /\ AnswerTellsCharge' /\ OutcomeTellsCharge'
        BY <1>a, <1>7, <2>a DEF TypeOK, CallTypeOK, RaceInv, StageMatches, Refuse, Select, Return,
           RefusalMeansRace, AnswerTellsCharge, OutcomeTellsCharge
    <2> QED
        BY <2>1, <2>2, <2>3, <2>4 DEF RaceInv
<1>8. ASSUME NEW s \in Statuses, Answered(c, s)
      PROVE  TypeOK' /\ RaceInv'
    <2>0. CallTypeOK'
        BY <1>a, <1>8, Names, FinishType DEF Answered
    <2>1. TypeOK'
        BY <1>a, <1>8, <1>b, <2>0 DEF TypeOK, Answered, Charge
    <2>2. StageMatches'
        BY <1>a, <1>8, ProvidersAssumption DEF CallTypeOK, RaceInv, StageMatches, Answered, Finish, Charge, Statuses
    <2>3. OnlyEarlierCallsReachOpenProvider' /\ CandidatesWereUp'
        BY <1>a, <1>8, <1>c DEF TypeOK, CallTypeOK, RaceInv, StageMatches, Answered, Finish, Charge,
           OnlyEarlierCallsReachOpenProvider, CandidatesWereUp, IsOpen
    <2>4. RefusalMeansRace' /\ AnswerTellsCharge' /\ OutcomeTellsCharge'
        BY <1>a, <1>8 DEF TypeOK, CallTypeOK, RaceInv, StageMatches, Answered, Finish, Charge, Statuses,
           RefusalMeansRace, AnswerTellsCharge, OutcomeTellsCharge
    <2> QED
        BY <2>1, <2>2, <2>3, <2>4 DEF RaceInv
<1>9. CASE Transient(c) \/ AnswerLost(c)
    <2>b. RetryOrGiveUp(c)
        BY <1>9 DEF Transient, AnswerLost
    <2>c. ASSUME Finish(c, "error") PROVE CallTypeOK'
        BY <1>a, <2>c, Names, FinishType
    <2>d. ASSUME attempt[c] < MaxRetries,
                 attempt' = [attempt EXCEPT ![c] = @ + 1],
                 UNCHANGED <<stage, unseen, candidates, provider, outcome, answer>>
          PROVE  CallTypeOK'
        BY <1>a, <2>d, ConfigAssumption DEF CallTypeOK
    <2>0. CallTypeOK'
        BY <2>b, <2>c, <2>d DEF RetryOrGiveUp
    <2>1. TypeOK'
        BY <1>a, <1>9, <1>b, <2>0 DEF TypeOK, Transient, AnswerLost, Charge
    <2>2. StageMatches'
        BY <1>a, <1>9, ProvidersAssumption DEF CallTypeOK, RaceInv, StageMatches, Transient, AnswerLost, RetryOrGiveUp, Finish, Charge
    <2>3. OnlyEarlierCallsReachOpenProvider' /\ CandidatesWereUp'
        BY <1>a, <1>9, <1>c DEF TypeOK, CallTypeOK, RaceInv, StageMatches, Transient, AnswerLost, RetryOrGiveUp, Finish, Charge,
           OnlyEarlierCallsReachOpenProvider, CandidatesWereUp, IsOpen
    <2>e. /\ answer' = answer /\ opened' = opened
          /\ \A d \in Calls : charged[d] => charged'[d]
          /\ \A d \in Calls : d # c => charged'[d] = charged[d] /\ stage'[d] = stage[d]
          /\ \A d \in Calls : outcome'[d] = outcome[d] \/ outcome'[d] = "error"
          /\ stage[c] = "call" /\ stage'[c] \in {"call", "record"}
        BY <1>a, <1>9 DEF TypeOK, CallTypeOK, Transient, AnswerLost, RetryOrGiveUp,
           Finish, Charge
    <2>4. RefusalMeansRace' /\ AnswerTellsCharge' /\ OutcomeTellsCharge'
        BY <1>a, <2>e DEF RaceInv, RefusalMeansRace, AnswerTellsCharge, OutcomeTellsCharge
    <2> QED
        BY <2>1, <2>2, <2>3, <2>4 DEF RaceInv
<1>10. CASE Permanent(c)
    <2>0. CallTypeOK'
        BY <1>a, <1>10, Names, FinishType DEF Permanent
    <2>1. TypeOK'
        BY <1>a, <1>10, <1>b, <2>0 DEF TypeOK, Permanent
    <2>2. StageMatches'
        BY <1>a, <1>10, ProvidersAssumption DEF CallTypeOK, RaceInv, StageMatches, Permanent, Finish
    <2>3. OnlyEarlierCallsReachOpenProvider' /\ CandidatesWereUp'
        BY <1>a, <1>10, <1>c DEF TypeOK, CallTypeOK, RaceInv, StageMatches, Permanent, Finish,
           OnlyEarlierCallsReachOpenProvider, CandidatesWereUp, IsOpen
    <2>4. RefusalMeansRace' /\ AnswerTellsCharge' /\ OutcomeTellsCharge'
        BY <1>a, <1>10 DEF TypeOK, CallTypeOK, RaceInv, StageMatches, Permanent, Finish,
           RefusalMeansRace, AnswerTellsCharge, OutcomeTellsCharge
    <2> QED
        BY <2>1, <2>2, <2>3, <2>4 DEF RaceInv
<1> QED
    BY <1>2, <1>3, <1>4, <1>5, <1>6, <1>7, <1>8, <1>9, <1>10 DEF Request, Attempt

LEMMA AdmitStep ==
    ASSUME RoutingInv, NEW c \in Calls, NEW p \in Providers, Admit(c, p)
    PROVE  RoutingInv'
<1>a. TypeOK /\ BreakerTypeOK /\ CallTypeOK
    BY DEF RoutingInv, TypeOK
<1> DEFINE Admitted ==
             /\ BreakerTypeOK'
             /\ CountersMatchState'
             /\ state'[p] # "open"
             /\ \A q \in Providers : q # p => state'[q] = state[q] /\ waited'[q] = waited[q]
<1>1. ASSUME state[p] = "open" /\ waited[p] PROVE Admitted
    <2>1. BreakerTypeOK'
        <3>1. /\ state' = [state EXCEPT ![p] = "half-open"]
              /\ waited' = [waited EXCEPT ![p] = FALSE]
              /\ successes' = [successes EXCEPT ![p] = 0]
              /\ results' = [results EXCEPT ![p] = <<>>]
              /\ failures' = failures
            BY <1>1 DEF Admit, Probe
        <3> QED
            BY <1>a, <3>1, Names DEF BreakerTypeOK
    <2>2. CountersMatchState'
        BY <1>a, <1>1, ConfigAssumption
        DEF RoutingInv, BreakerTypeOK, Admit, Probe, CountersMatchState
    <2>3. /\ state'[p] # "open"
          /\ \A q \in Providers : q # p => state'[q] = state[q] /\ waited'[q] = waited[q]
        BY <1>a, <1>1 DEF BreakerTypeOK, Admit, Probe
    <2> QED
        BY <2>1, <2>2, <2>3
<1>2. ASSUME ~(state[p] = "open" /\ waited[p]) PROVE Admitted
    <2>1. UNCHANGED breakerVars
        BY <1>2 DEF Admit, Probe
    <2>2. state[p] # "open" /\ state' = state /\ waited' = waited
        BY <1>2, <2>1 DEF Admit, Allows, breakerVars
    <2> QED
        BY <1>a, <2>1, <2>2, BreakerTypeKept, CountersKept DEF RoutingInv
<1>3. Admitted
    BY <1>1, <1>2
<1>4. CallTypeOK'
    BY <1>a, Names DEF CallTypeOK, Admit
<1>5. TypeOK'
    BY <1>a, <1>3, <1>4 DEF TypeOK, Admit
<1>6. OnlyEarlierCallsReachOpenProvider'
    BY <1>a, <1>3 DEF RoutingInv, TypeOK, CallTypeOK, Admit,
       OnlyEarlierCallsReachOpenProvider
<1>7. CandidatesWereUp'
    BY <1>a, <1>3 DEF RoutingInv, TypeOK, CallTypeOK, Admit, CandidatesWereUp, IsOpen
<1>8. StageMatches' /\ AnswerTellsCharge' /\ OutcomeTellsCharge'
    BY <1>a, ProvidersAssumption
    DEF RoutingInv, CallTypeOK, Admit, Select, StageMatches, AnswerTellsCharge,
        OutcomeTellsCharge
<1>9. RefusalMeansRace'
    BY <1>a DEF RoutingInv, TypeOK, Admit, Select, RefusalMeansRace, OutcomeTellsCharge
<1> QED
    BY <1>3, <1>5, <1>6, <1>7, <1>8, <1>9 DEF RoutingInv

LEMMA RecordStep ==
    ASSUME RoutingInv, NEW c \in Calls, Record(c)
    PROVE  RoutingInv'
<1> DEFINE p == provider[c]
<1>a. TypeOK /\ CallTypeOK /\ CountersMatchState
    BY DEF RoutingInv, TypeOK
<1>1. p \in Providers
    BY <1>a DEF RoutingInv, CallTypeOK, StageMatches, Record
<1>2. ReportEffect(p)
    BY <1>a, <1>1, SuccessEffect, FailureEffect DEF Record
<1>3. Result(outcome[c]) \in Statuses /\ (Result(outcome[c]) = "captured" => charged[c])
    BY <1>a DEF RoutingInv, CallTypeOK, StageMatches, Record, Result, Outcomes, Statuses,
           OutcomeTellsCharge
<1>4. Return(c, Result(outcome[c])) /\ charged' = charged
    BY DEF Record
<1>5. CallTypeOK'
    BY <1>a, <1>3, <1>4, Names, ReturnType
<1>6. TypeOK'
    BY <1>a, <1>2, <1>4, <1>5 DEF TypeOK, ReportEffect
<1>7. StageMatches' /\ OutcomeTellsCharge'
    BY <1>a, <1>4, ProvidersAssumption
    DEF RoutingInv, CallTypeOK, Return, StageMatches, OutcomeTellsCharge
<1>8. AnswerTellsCharge'
    BY <1>a, <1>3, <1>4 DEF RoutingInv, CallTypeOK, Return, AnswerTellsCharge, Statuses
<1>9. RefusalMeansRace'
    <2>1. \A d \in Calls : answer'[d] = "unavailable" => answer[d] = "unavailable"
        BY <1>a, <1>3, <1>4 DEF CallTypeOK, Return, Statuses
    <2> QED
        BY <1>2, <2>1 DEF RoutingInv, RefusalMeansRace, ReportEffect
<1>10. \A d \in Calls : /\ provider'[d] # None => provider'[d] = provider[d]
                        /\ candidates'[d] \subseteq candidates[d]
    BY <1>a, <1>4 DEF CallTypeOK, Return
<1>11. OnlyEarlierCallsReachOpenProvider'
    <2> SUFFICES ASSUME NEW d \in Calls, provider'[d] # None, state'[provider'[d]] = "open"
                 PROVE  provider'[d] \in opened'[d]
        BY DEF OnlyEarlierCallsReachOpenProvider
    <2> DEFINE q == provider[d]
    <2>1. provider'[d] = q /\ q # None /\ q \in Providers
        BY <1>a, <1>10 DEF CallTypeOK
    <2>2. state[q] = "open" => q \in opened'[d]
        BY <1>2, <2>1 DEF RoutingInv, OnlyEarlierCallsReachOpenProvider, ReportEffect
    <2>3. q # p => state[q] = "open"
        BY <1>2, <2>1 DEF ReportEffect
    <2>4. q = p /\ state[q] # "open" => q \in opened'[d]
        BY <1>2, <2>1 DEF ReportEffect, CountsOn
    <2> QED
        BY <2>1, <2>2, <2>3, <2>4
<1>12. CandidatesWereUp'
    <2> SUFFICES ASSUME NEW d \in Calls, NEW q \in candidates'[d], IsOpen(q)'
                 PROVE  q \in opened'[d]
        BY DEF CandidatesWereUp
    <2>1. q \in candidates[d] /\ q \in Providers
        BY <1>a, <1>10 DEF CallTypeOK
    <2>2. IsOpen(q) => q \in opened'[d]
        BY <1>2, <2>1 DEF RoutingInv, CandidatesWereUp, ReportEffect
    <2>3. q # p => IsOpen(q)
        BY <1>2, <2>1 DEF ReportEffect, IsOpen
    <2>4. q = p /\ ~IsOpen(q) => q \in opened'[d]
        BY <1>2, <2>1 DEF ReportEffect, CountsOn, IsOpen
    <2> QED
        BY <2>2, <2>3, <2>4
<1> QED
    BY <1>2, <1>6, <1>7, <1>8, <1>9, <1>11, <1>12 DEF RoutingInv, ReportEffect

LEMMA NextRouting == RoutingInv /\ [Next]_vars => RoutingInv'
<1> SUFFICES ASSUME RoutingInv, [Next]_vars PROVE RoutingInv'
    OBVIOUS
<1>1. ASSUME NEW c \in Calls, Request(c)
      PROVE  RoutingInv'
    <2>1. UNCHANGED breakerVars
        BY <1>1 DEF Request, FindActive, FindActiveFails
    <2> QED
        BY <1>1, <2>1, QuietStep
<1>2. ASSUME NEW c \in Calls, Continue(c)
      PROVE  RoutingInv'
    <2>1. CASE NoProvider(c) \/ Attempt(c)
        <3>1. UNCHANGED breakerVars
            BY <2>1 DEF NoProvider, Attempt, Answered, Transient, AnswerLost, Permanent
        <3> QED
            BY <2>1, <3>1, QuietStep
    <2>2. CASE Record(c)
        BY <2>2, RecordStep
    <2>3. ASSUME NEW p \in Providers, Filter(c, p) \/ NoAdapter(c, p) \/ Refuse(c, p)
          PROVE  RoutingInv'
        <3>1. UNCHANGED breakerVars
            BY <2>3 DEF Filter, NoAdapter, Refuse
        <3> QED
            BY <2>3, <3>1, QuietStep
    <2>4. ASSUME NEW p \in Providers, Admit(c, p)
          PROVE  RoutingInv'
        BY <2>4, AdmitStep
    <2> QED
        BY <1>2, <2>1, <2>2, <2>3, <2>4 DEF Continue
<1>3. ASSUME NEW p \in Providers, OpenTimeout(p)
      PROVE  RoutingInv'
    BY <1>3, TimeoutStep
<1>4. CASE UNCHANGED vars
    BY <1>4 DEF vars, breakerVars, callVars, RoutingInv, TypeOK, BreakerTypeOK, CallTypeOK, StageMatches,
       CountersMatchState, OnlyEarlierCallsReachOpenProvider, CandidatesWereUp, IsOpen,
       RefusalMeansRace, AnswerTellsCharge, OutcomeTellsCharge
<1> QED
    BY <1>1, <1>2, <1>3, <1>4 DEF Next

-------------------------------------------------------------------------------
\* The inductive invariant of concurrent ProcessPayment calls and breakers.
THEOREM RoutingInvariant == Spec => []RoutingInv
<1>1. Init => RoutingInv
    BY InitRouting
<1>2. RoutingInv /\ [Next]_vars => RoutingInv'
    BY NextRouting
<1> QED
    BY <1>1, <1>2, PTL DEF Spec

\* While a breaker is open, only calls admitted before it opened are at its
\* provider (Allow, callWithRetry).
THEOREM OpenBreakerProtects == Spec => []OnlyEarlierCallsReachOpenProvider
<1>1. RoutingInv => OnlyEarlierCallsReachOpenProvider
    BY DEF RoutingInv
<1> QED
    BY <1>1, RoutingInvariant, PTL

\* "provider unavailable" is answered only after a race of the candidate filter
\* with a breaker (ProcessPayment).
THEOREM RefusedByRaceOnly == Spec => []RefusalMeansRace
<1>1. RoutingInv => RefusalMeansRace
    BY DEF RoutingInv
<1> QED
    BY <1>1, RoutingInvariant, PTL

\* What ProcessPayment returns agrees with what the provider took.
THEOREM AnswersAreTrue == Spec => []AnswerTellsCharge
<1>1. RoutingInv => AnswerTellsCharge
    BY DEF RoutingInv
<1> QED
    BY <1>1, RoutingInvariant, PTL
===============================================================================
