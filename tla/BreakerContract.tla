---------------------------- MODULE BreakerContract ----------------------------
(***************************************************************************)
(* What a circuit breaker promises, without counters: what it does next    *)
(* depends only on the results reported since it entered its state.        *)
(*   - closed opens at the report that completes FailureThreshold          *)
(*     failures in a row, and only then;                                   *)
(*   - open ignores reports; it becomes half-open when OpenTimeout has     *)
(*     passed and somebody asks;                                           *)
(*   - half-open opens at the first failure and closes at                  *)
(*     HalfOpenSuccesses successes without one.                            *)
(***************************************************************************)
EXTENDS Naturals, Sequences

CONSTANTS FailureThreshold, HalfOpenSuccesses

VARIABLES
    state,    \* "closed", "open" or "half-open"
    waited,   \* open, and OpenTimeout has passed
    results   \* the reports since the state was entered

vars == <<state, waited, results>>

Init ==
    /\ state = "closed"
    /\ waited = FALSE
    /\ results = <<>>

\* The last n elements of s are all x.
EndsWith(s, n, x) ==
    /\ Len(s) >= n
    /\ \A i \in (Len(s) - n + 1) .. Len(s) : s[i] = x

\* Reports too old to matter to either threshold are forgotten.
Remember(report) ==
    LET s == Append(results, report)
    IN  IF Len(s) <= FailureThreshold + HalfOpenSuccesses THEN s ELSE Tail(s)

Enter(next) ==
    /\ state' = next
    /\ waited' = FALSE
    /\ results' = <<>>

Stay(report) ==
    /\ results' = Remember(report)
    /\ UNCHANGED <<state, waited>>

Report(report) ==
    \/ /\ state = "closed"
       /\ IF EndsWith(Remember(report), FailureThreshold, "failure")
          THEN Enter("open") ELSE Stay(report)
    \/ /\ state = "half-open"
       /\ IF report = "failure" THEN Enter("open")
          ELSE IF EndsWith(Remember(report), HalfOpenSuccesses, "success")
               THEN Enter("closed") ELSE Stay(report)
    \/ /\ state = "open"
       /\ UNCHANGED vars

OpenTimeout ==
    /\ state = "open"
    /\ waited' = TRUE
    /\ UNCHANGED <<state, results>>

Ask ==
    /\ state = "open"
    /\ waited
    /\ Enter("half-open")

Next == OpenTimeout \/ Ask \/ \E report \in {"success", "failure"} : Report(report)

Spec == Init /\ [][Next]_vars
===============================================================================
