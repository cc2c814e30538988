---------------------------- MODULE ProviderRouting ----------------------------
(***************************************************************************)
(* provider-service: concurrent calls of ProcessPayment (the consumer's    *)
(* callback and the handlers of POST /api/v1/process) that share one       *)
(* circuit breaker per provider.                                           *)
(*                                                                         *)
(* Every method of Breaker runs under its mutex and is one step. Between   *)
(* the candidate filter (IsOpen), the admission (Allow), the attempts and  *)
(* the report (RecordSuccess, RecordFailure) other calls take their steps. *)
(* The choice of Thompson sampling is any choice among the candidates:     *)
(* its scores are random, and no property depends on them.                 *)
(***************************************************************************)
EXTENDS Naturals, Sequences

CONSTANTS
    Providers,          \* rows of the providers table
    Registered,         \* the ones main registered an adapter for
    Calls,              \* slots for concurrent ProcessPayment calls
    None,               \* no provider
    FailureThreshold,   \* circuitbreaker.Config
    HalfOpenSuccesses,  \* circuitbreaker.Config
    MaxRetries          \* Service.maxRetries

ASSUME ProvidersAssumption == Registered \subseteq Providers /\ None \notin Providers
ASSUME ConfigAssumption ==
    /\ FailureThreshold \in Nat \ {0}
    /\ HalfOpenSuccesses \in Nat \ {0}
    /\ MaxRetries \in Nat

VARIABLES
    \* Breaker
    state,       \* state
    failures,    \* consecutiveFailures
    successes,   \* consecutiveSuccesses
    waited,      \* time.Since(openedAt) >= OpenTimeout
    \* ProcessPayment, per call
    stage,       \* "idle", "filter", "call", "record"
    unseen,      \* rows of FindActive the loop has not looked at
    candidates,  \* candidates
    provider,    \* selected
    attempt,     \* attempt of callWithRetry
    outcome,     \* what callWithRetry returned
    answer,      \* what ProcessPayment returned last
    \* history
    charged,     \* the call's provider has taken the money
    results,     \* reports to a breaker since it entered its state
    opened       \* providers that opened since the call counted on them

breakerVars == <<state, failures, successes, waited, results>>
callVars == <<stage, unseen, candidates, provider, attempt, outcome, answer, charged>>
vars == <<breakerVars, callVars, opened>>

States == {"closed", "open", "half-open"}
Stages == {"idle", "filter", "call", "record"}
Statuses == {"captured", "declined", "failed"}
Reports == {"success", "failure"}
Outcomes == Statuses \cup {"none", "error"}
Answers == Outcomes \cup {"no provider", "unavailable"}

Init ==
    /\ state = [p \in Providers |-> "closed"]
    /\ failures = [p \in Providers |-> 0]
    /\ successes = [p \in Providers |-> 0]
    /\ waited = [p \in Providers |-> FALSE]
    /\ stage = [c \in Calls |-> "idle"]
    /\ unseen = [c \in Calls |-> {}]
    /\ candidates = [c \in Calls |-> {}]
    /\ provider = [c \in Calls |-> None]
    /\ attempt = [c \in Calls |-> 0]
    /\ outcome = [c \in Calls |-> "none"]
    /\ answer = [c \in Calls |-> "none"]
    /\ charged = [c \in Calls |-> FALSE]
    /\ results = [p \in Providers |-> <<>>]
    /\ opened = [c \in Calls |-> {}]

-------------------------------------------------------------------------------
(* Breaker. Operators named Wrong... are deliberately wrong variants of the *)
(* definition that follows them; no specification uses them.                *)

\* The filter does not look at the clock.
WrongIsOpen(p) == state[p] = "open"

IsOpen(p) == state[p] = "open" /\ ~waited[p]

\* A report is remembered as far back as the thresholds look.
Log(p, report) ==
    LET s == Append(results[p], report)
        n == FailureThreshold + HalfOpenSuccesses
    IN  [results EXCEPT ![p] = IF Len(s) <= n THEN s ELSE Tail(s)]

\* The calls that count on p: it is a candidate, or it was selected.
CountsOn(c, p) == p \in candidates[c] \/ provider[c] = p

\* transitionTo(StateOpen); RecordFailure has reset consecutiveSuccesses.
Open(p) ==
    /\ state' = [state EXCEPT ![p] = "open"]
    /\ failures' = [failures EXCEPT ![p] = 0]
    /\ successes' = [successes EXCEPT ![p] = 0]
    /\ waited' = [waited EXCEPT ![p] = FALSE]
    /\ results' = [results EXCEPT ![p] = <<>>]
    /\ opened' = [c \in Calls |->
                     IF CountsOn(c, p) THEN opened[c] \cup {p} ELSE opened[c]]

\* transitionTo(StateClosed)
Close(p) ==
    /\ state' = [state EXCEPT ![p] = "closed"]
    /\ failures' = [failures EXCEPT ![p] = 0]
    /\ successes' = [successes EXCEPT ![p] = 0]
    /\ results' = [results EXCEPT ![p] = <<>>]
    /\ UNCHANGED <<waited, opened>>

\* A success leaves the run of failures as it is.
WrongFailuresAfterSuccess(p) == failures[p]

FailuresAfterSuccess(p) == 0

\* The success that closes a half-open breaker.
Recovers(p) == state[p] = "half-open" /\ successes[p] + 1 >= HalfOpenSuccesses

CountSuccess(p) ==
    /\ failures' = [failures EXCEPT ![p] = FailuresAfterSuccess(p)]
    /\ successes' = [successes EXCEPT ![p] = IF state[p] = "half-open" THEN @ + 1 ELSE @]
    /\ results' = IF state[p] = "open" THEN results ELSE Log(p, "success")
    /\ UNCHANGED <<state, waited, opened>>

RecordSuccess(p) == IF Recovers(p) THEN Close(p) ELSE CountSuccess(p)

\* A failure opens a closed breaker one report too late.
WrongTrips(p) ==
    \/ state[p] = "half-open"
    \/ state[p] = "closed" /\ failures[p] + 1 > FailureThreshold

Trips(p) ==
    \/ state[p] = "half-open"
    \/ state[p] = "closed" /\ failures[p] + 1 >= FailureThreshold

CountFailure(p) ==
    /\ successes' = [successes EXCEPT ![p] = 0]
    /\ failures' = [failures EXCEPT ![p] = IF state[p] = "closed" THEN @ + 1 ELSE @]
    /\ results' = IF state[p] = "open" THEN results ELSE Log(p, "failure")
    /\ UNCHANGED <<state, waited, opened>>

RecordFailure(p) == IF Trips(p) THEN Open(p) ELSE CountFailure(p)

OpenTimeout(p) ==
    /\ state[p] = "open"
    /\ ~waited[p]
    /\ waited' = [waited EXCEPT ![p] = TRUE]
    /\ UNCHANGED <<state, failures, successes, results, callVars, opened>>

\* An open breaker lets every call through.
WrongAllows(p) == TRUE

Allows(p) == state[p] = "open" => waited[p]

\* Allow of an open breaker whose timeout has passed: transitionTo(StateHalfOpen).
Probe(p) ==
    IF state[p] = "open" /\ waited[p]
    THEN /\ state' = [state EXCEPT ![p] = "half-open"]
         /\ waited' = [waited EXCEPT ![p] = FALSE]
         /\ successes' = [successes EXCEPT ![p] = 0]
         /\ results' = [results EXCEPT ![p] = <<>>]
         /\ UNCHANGED failures
    ELSE UNCHANGED breakerVars

-------------------------------------------------------------------------------
(* ProcessPayment *)

Return(c, a) ==
    /\ stage' = [stage EXCEPT ![c] = "idle"]
    /\ answer' = [answer EXCEPT ![c] = a]
    /\ unseen' = [unseen EXCEPT ![c] = {}]
    /\ candidates' = [candidates EXCEPT ![c] = {}]
    /\ provider' = [provider EXCEPT ![c] = None]
    /\ attempt' = [attempt EXCEPT ![c] = 0]
    /\ outcome' = [outcome EXCEPT ![c] = "none"]

\* A request arrives; rows are the active providers for its currency and method.
FindActive(c, rows) ==
    /\ stage[c] = "idle"
    /\ stage' = [stage EXCEPT ![c] = "filter"]
    /\ unseen' = [unseen EXCEPT ![c] = rows]
    /\ answer' = [answer EXCEPT ![c] = "none"]
    /\ charged' = [charged EXCEPT ![c] = FALSE]
    /\ opened' = [opened EXCEPT ![c] = {}]
    /\ UNCHANGED <<breakerVars, candidates, provider, attempt, outcome>>

FindActiveFails(c) ==
    /\ stage[c] = "idle"
    /\ Return(c, "error")
    /\ charged' = [charged EXCEPT ![c] = FALSE]
    /\ opened' = [opened EXCEPT ![c] = {}]
    /\ UNCHANGED breakerVars

\* Every row becomes a candidate.
WrongStillUp(c, p) == candidates[c] \cup {p}

StillUp(c, p) == IF IsOpen(p) THEN candidates[c] ELSE candidates[c] \cup {p}

\* One round of the loop that filters the candidates.
Filter(c, p) ==
    /\ stage[c] = "filter"
    /\ p \in unseen[c]
    /\ unseen' = [unseen EXCEPT ![c] = @ \ {p}]
    /\ candidates' = [candidates EXCEPT ![c] = StillUp(c, p)]
    /\ UNCHANGED <<breakerVars, stage, provider, attempt, outcome, answer, charged, opened>>

NoProvider(c) ==
    /\ stage[c] = "filter"
    /\ unseen[c] = {}
    /\ candidates[c] = {}
    /\ Return(c, "no provider")
    /\ UNCHANGED <<breakerVars, charged, opened>>

\* router.Select returns p.
Select(c, p) ==
    /\ stage[c] = "filter"
    /\ unseen[c] = {}
    /\ p \in candidates[c]

NoAdapter(c, p) ==
    /\ Select(c, p)
    /\ p \notin Registered
    /\ Return(c, "error")
    /\ UNCHANGED <<breakerVars, charged, opened>>

Refuse(c, p) ==
    /\ Select(c, p)
    /\ p \in Registered
    /\ ~Allows(p)
    /\ Return(c, "unavailable")
    /\ UNCHANGED <<breakerVars, charged, opened>>

Admit(c, p) ==
    /\ Select(c, p)
    /\ p \in Registered
    /\ Allows(p)
    /\ Probe(p)
    /\ stage' = [stage EXCEPT ![c] = "call"]
    /\ provider' = [provider EXCEPT ![c] = p]
    /\ candidates' = [candidates EXCEPT ![c] = {}]
    /\ opened' = [opened EXCEPT ![c] = @ \ {p}]
    /\ UNCHANGED <<unseen, attempt, outcome, answer, charged>>

-------------------------------------------------------------------------------
(* callWithRetry *)

Finish(c, o) ==
    /\ stage' = [stage EXCEPT ![c] = "record"]
    /\ outcome' = [outcome EXCEPT ![c] = o]
    /\ attempt' = [attempt EXCEPT ![c] = 0]
    /\ UNCHANGED <<unseen, candidates, provider, answer>>

RetryOrGiveUp(c) ==
    \/ /\ attempt[c] = MaxRetries
       /\ Finish(c, "error")
    \/ /\ attempt[c] < MaxRetries
       /\ attempt' = [attempt EXCEPT ![c] = @ + 1]
       /\ UNCHANGED <<stage, unseen, candidates, provider, outcome, answer>>

Charge(c) == charged' = [charged EXCEPT ![c] = TRUE]

\* The adapter answers: captured, declined, or an unexpected status (failed).
Answered(c, s) ==
    /\ stage[c] = "call"
    /\ Finish(c, s)
    /\ IF s = "captured" THEN Charge(c) ELSE UNCHANGED charged
    /\ UNCHANGED <<breakerVars, opened>>

\* ErrTransient; nothing was charged.
Transient(c) ==
    /\ stage[c] = "call"
    /\ RetryOrGiveUp(c)
    /\ UNCHANGED <<breakerVars, charged, opened>>

\* ErrTransient, because the answer of a provider that took the money is lost.
AnswerLost(c) ==
    /\ stage[c] = "call"
    /\ RetryOrGiveUp(c)
    /\ Charge(c)
    /\ UNCHANGED <<breakerVars, opened>>

\* Any other error, or the context ends during a backoff.
Permanent(c) ==
    /\ stage[c] = "call"
    /\ Finish(c, "error")
    /\ UNCHANGED <<breakerVars, charged, opened>>

\* The error of callWithRetry is returned as an error, not as a failed result.
WrongResult(o) == o

Result(o) == IF o = "error" THEN "failed" ELSE o

\* After an error the payment is routed again.
WrongRecord(c) ==
    /\ stage[c] = "record"
    /\ IF outcome[c] = "error"
       THEN /\ RecordFailure(provider[c])
            /\ stage' = [stage EXCEPT ![c] = "filter"]
            /\ unseen' = [unseen EXCEPT ![c] = {provider[c]}]
            /\ provider' = [provider EXCEPT ![c] = None]
            /\ outcome' = [outcome EXCEPT ![c] = "none"]
            /\ UNCHANGED <<candidates, attempt, answer>>
       ELSE RecordSuccess(provider[c]) /\ Return(c, outcome[c])
    /\ UNCHANGED charged

\* The result goes to the breaker, then to the caller. A declined payment is
\* a success of the provider.
Record(c) ==
    /\ stage[c] = "record"
    /\ IF outcome[c] = "error" THEN RecordFailure(provider[c]) ELSE RecordSuccess(provider[c])
    /\ Return(c, Result(outcome[c]))
    /\ UNCHANGED charged

-------------------------------------------------------------------------------
Request(c) == FindActiveFails(c) \/ \E rows \in SUBSET Providers : FindActive(c, rows)

Attempt(c) ==
    \/ \E s \in Statuses : Answered(c, s)
    \/ Transient(c)
    \/ AnswerLost(c)
    \/ Permanent(c)

Continue(c) ==
    \/ NoProvider(c)
    \/ Attempt(c)
    \/ Record(c)
    \/ \E p \in Providers : Filter(c, p) \/ NoAdapter(c, p) \/ Refuse(c, p) \/ Admit(c, p)

Next ==
    \/ \E c \in Calls : Request(c) \/ Continue(c)
    \/ \E p \in Providers : OpenTimeout(p)

Spec == Init /\ [][Next]_vars

\* A goroutine that runs ProcessPayment is scheduled, adapters answer or fail
\* within their timeouts, and time passes. Nothing obliges a request to arrive.
Fairness ==
    /\ \A c \in Calls : WF_vars(Continue(c))
    /\ \A p \in Providers : WF_vars(OpenTimeout(p))

FairSpec == Spec /\ Fairness

-------------------------------------------------------------------------------
BreakerTypeOK ==
    /\ state \in [Providers -> States]
    /\ failures \in [Providers -> Nat]
    /\ successes \in [Providers -> Nat]
    /\ waited \in [Providers -> BOOLEAN]
    /\ results \in [Providers -> Seq(Reports)]

CallTypeOK ==
    /\ stage \in [Calls -> Stages]
    /\ unseen \in [Calls -> SUBSET Providers]
    /\ candidates \in [Calls -> SUBSET Providers]
    /\ provider \in [Calls -> Providers \cup {None}]
    /\ attempt \in [Calls -> 0 .. MaxRetries]
    /\ outcome \in [Calls -> Outcomes]
    /\ answer \in [Calls -> Answers]

TypeOK ==
    /\ BreakerTypeOK
    /\ CallTypeOK
    /\ charged \in [Calls -> BOOLEAN]
    /\ opened \in [Calls -> SUBSET Providers]

\* A call has a provider exactly while it calls it and reports on it.
StageMatches ==
    \A c \in Calls :
        /\ (stage[c] \in {"call", "record"}) <=> (provider[c] # None)
        /\ (stage[c] # "filter") => unseen[c] = {} /\ candidates[c] = {}
        /\ (stage[c] = "record") <=> (outcome[c] # "none")

\* Each counter counts in its own state only, and stays below its threshold:
\* the report that reaches it changes the state in the same step.
CountersMatchState ==
    \A p \in Providers :
        /\ failures[p] < FailureThreshold
        /\ successes[p] < HalfOpenSuccesses
        /\ failures[p] > 0 => state[p] = "closed"
        /\ successes[p] > 0 => state[p] = "half-open"
        /\ waited[p] => state[p] = "open"

\* While a breaker is open, only calls admitted before it opened are at its
\* provider: neither a waiting candidate list nor a burst at the end of the
\* timeout gets a new one through. (Those calls do go on retrying.)
OnlyEarlierCallsReachOpenProvider ==
    \A c \in Calls : provider[c] # None /\ state[provider[c]] = "open"
        => provider[c] \in opened[c]

\* A candidate whose breaker is open and still waiting has opened since the
\* filter looked at it.
CandidatesWereUp ==
    \A c \in Calls : \A p \in candidates[c] : IsOpen(p) => p \in opened[c]

\* ProcessPayment answers "provider unavailable" only because of a race: a
\* provider it counted on opened between its filter and its admission.
RefusalMeansRace ==
    \A c \in Calls : answer[c] = "unavailable" => opened[c] # {}

\* captured is answered only if the provider took the money; an error, for
\* which the consumer repeats the whole call, and a refusal only if it did not.
\* (failed and declined may hide a charge whose answer was lost.)
AnswerTellsCharge ==
    \A c \in Calls :
        /\ answer[c] = "captured" => charged[c]
        /\ answer[c] \in {"error", "no provider", "unavailable"} => ~charged[c]

\* What a call is about to answer agrees with the charge, too.
OutcomeTellsCharge ==
    \A c \in Calls :
        /\ outcome[c] = "captured" => charged[c]
        /\ stage[c] = "filter" => ~charged[c]
        /\ answer[c] # "none" => stage[c] = "idle"

RoutingInv ==
    /\ TypeOK
    /\ StageMatches
    /\ CountersMatchState
    /\ OnlyEarlierCallsReachOpenProvider
    /\ CandidatesWereUp
    /\ RefusalMeansRace
    /\ AnswerTellsCharge
    /\ OutcomeTellsCharge

Contract(p) == INSTANCE BreakerContract WITH
    state <- state[p], waited <- waited[p], results <- results[p]

\* Each breaker, with its counters and with reports of calls that were admitted
\* in another state, behaves as a breaker that looks at its recent reports.
KeepsContract ==
    /\ \A p \in Providers : Contract(p)!Init
    /\ [][\A p \in Providers : [Contract(p)!Next]_<<state[p], waited[p], results[p]>>]_vars

\* ProcessPayment returns, whatever the breakers and the adapters do.
EveryCallReturns == \A c \in Calls : stage[c] # "idle" ~> stage[c] = "idle"

\* A breaker does not shut its provider out for good: if payments that only
\* this provider can take keep coming, it leaves the open state. The filter and
\* the admission must agree on the timeout for this.
OnlyFor(p) == \E c \in Calls : stage[c] = "filter" /\ unseen[c] = {p} /\ candidates[c] = {}

OpenIsTriedAgain ==
    \A p \in Registered : []<>OnlyFor(p) => []<>(state[p] # "open")
===============================================================================
