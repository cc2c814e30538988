------------------------------ MODULE RiskEngine ------------------------------
(***************************************************************************)
(* risk-service: replicas that evaluate payment.created under the durable  *)
(* consumer risk-evaluator, and the velocity counters in Redis they share. *)
(*                                                                         *)
(* handleMessage evaluates the rules in order, publishes the verdict and   *)
(* acknowledges. A velocity rule takes two Redis commands, INCR and (for   *)
(* the first count) EXPIRE, with other replicas, a crash or a failure in   *)
(* between. PaymentSaga takes the verdict as any verdict; here is where it *)
(* comes from.                                                             *)
(***************************************************************************)
EXTENDS RiskRules, FiniteSets

CONSTANTS
    Payments,       \* messages of payment.created
    Event,          \* Event[p]: the fields of p the rules look at
    RuleFiles,      \* the files RULES_PATH may name
    Replicas,       \* processes of risk-service
    None,           \* no message
    MaxDeliver,     \* maxDeliver of the consumer
    MaxFaults       \* bound on faults

ASSUME RiskConstants ==
    /\ IsFiniteSet(Payments) /\ IsFiniteSet(Replicas)
    /\ None \notin Payments /\ Nil \notin Int
    /\ RuleFiles \subseteq Seq(RawRules)
    /\ \A p \in Payments : Event[p].amount \in Int /\ Event[p].hour \in Int
    /\ MaxDeliver \in Nat /\ MaxFaults \in Nat

VARIABLES
    rules,          \* what Load returned
    \* JetStream
    stream,         \* messages not acknowledged
    outstanding,    \* messages whose delivery JetStream waits for
    attempts,       \* deliveries of a message
    \* handleMessage, per replica
    pc,             \* "idle", "rules", "expire", "publish", "ack"
    msg,            \* the message
    next,           \* the rule to apply
    score,          \* totalScore so far
    \* Redis, per key
    count,          \* value of the counter, 0 without a key
    ttl,            \* it has a time to live
    \* history
    seen,           \* payments counted by the counter
    verdicts,       \* verdicts in the stream
    faults

redis == <<count, ttl, seen>>
jetStream == <<stream, outstanding, attempts>>
handler == <<pc, msg, next, score>>
vars == <<rules, jetStream, handler, redis, verdicts, faults>>

Verdicts == [payment : Payments, decision : Decisions]

Keys == {BuildKey(f, Event[p]) : f \in KeyFields, p \in Payments}

Init ==
    /\ \E file \in RuleFiles : rules = Load(file)
    /\ stream = Payments
    /\ outstanding = {}
    /\ attempts = [p \in Payments |-> 0]
    /\ pc = [r \in Replicas |-> "idle"]
    /\ msg = [r \in Replicas |-> None]
    /\ next = [r \in Replicas |-> 1]
    /\ score = [r \in Replicas |-> 0]
    /\ count = [k \in Keys |-> 0]
    /\ ttl = [k \in Keys |-> FALSE]
    /\ seen = [k \in Keys |-> {}]
    /\ verdicts = {}
    /\ faults = 0

Fault == faults < MaxFaults /\ faults' = faults + 1

Rule(r) == rules[next[r]]
KeyOf(r) == BuildKey(Rule(r).key_field, Event[msg[r]])

-------------------------------------------------------------------------------
(* JetStream and Redis                                                      *)

\* AckWait ends although a replica still works on the message.
AckWaitExpires(p) ==
    /\ p \in outstanding
    /\ Fault
    /\ outstanding' = outstanding \ {p}
    /\ UNCHANGED <<rules, stream, attempts, handler, redis, verdicts>>

\* The key's time to live ends.
WindowEnds(k) ==
    /\ ttl[k]
    /\ count' = [count EXCEPT ![k] = 0]
    /\ ttl' = [ttl EXCEPT ![k] = FALSE]
    /\ seen' = [seen EXCEPT ![k] = {}]
    /\ UNCHANGED <<rules, jetStream, handler, verdicts, faults>>

-------------------------------------------------------------------------------
(* handleMessage, Evaluate                                                  *)

\* main starts the consumer only with rules; the callback takes one message.
Take(r, p) ==
    /\ rules # <<>>
    /\ pc[r] = "idle"
    /\ p \in stream \ outstanding
    /\ attempts[p] < MaxDeliver
    /\ attempts' = [attempts EXCEPT ![p] = @ + 1]
    /\ outstanding' = outstanding \cup {p}
    /\ pc' = [pc EXCEPT ![r] = "rules"]
    /\ msg' = [msg EXCEPT ![r] = p]
    /\ next' = [next EXCEPT ![r] = 1]
    /\ score' = [score EXCEPT ![r] = 0]
    /\ UNCHANGED <<rules, stream, redis, verdicts, faults>>

\* The result of the rule at hand goes into the score; after the last rule the
\* verdict is due.
RuleResult(r, triggered) ==
    /\ score' = [score EXCEPT ![r] = IF triggered THEN @ + Rule(r).score ELSE @]
    /\ next' = [next EXCEPT ![r] = @ + 1]
    /\ pc' = [pc EXCEPT ![r] = IF next[r] = Len(rules) THEN "publish" ELSE "rules"]
    /\ UNCHANGED <<rules, jetStream, msg, verdicts>>

Velocity(r) ==
    /\ pc[r] = "rules"
    /\ Rule(r).type = "velocity"
    /\ HasKey(Rule(r).key_field, Event[msg[r]])

ApplySimple(r) ==
    /\ pc[r] = "rules"
    /\ Rule(r).type = "simple"
    /\ RuleResult(r, EvaluateSimple(Rule(r), Event[msg[r]]))
    /\ UNCHANGED <<redis, faults>>

\* The payment does not carry the field the rule counts by.
SkipRule(r) ==
    /\ pc[r] = "rules"
    /\ Rule(r).type = "velocity"
    /\ ~HasKey(Rule(r).key_field, Event[msg[r]])
    /\ RuleResult(r, FALSE)
    /\ UNCHANGED <<redis, faults>>

\* The effect of INCR.
Increment(r) ==
    /\ count' = [count EXCEPT ![KeyOf(r)] = @ + 1]
    /\ seen' = [seen EXCEPT ![KeyOf(r)] = @ \cup {msg[r]}]
    /\ UNCHANGED ttl

\* The second count sets the time to live.
WrongFirst(n) == n = 2

\* The reply to INCR that is followed by EXPIRE.
First(n) == n = 1

Incr(r) ==
    /\ Velocity(r)
    /\ Increment(r)
    /\ UNCHANGED faults
    /\ IF First(count[KeyOf(r)] + 1)
       THEN /\ pc' = [pc EXCEPT ![r] = "expire"]
            /\ UNCHANGED <<rules, jetStream, msg, next, score, verdicts>>
       ELSE RuleResult(r, count[KeyOf(r)] + 1 > Rule(r).threshold)

\* The reply is lost and the client sends INCR again.
IncrRepeated(r) ==
    /\ Velocity(r)
    /\ Fault
    /\ Increment(r)
    /\ UNCHANGED <<rules, jetStream, handler, verdicts>>

\* checkAndIncrement returns an error, whether or not Redis counted: fail open.
IncrFails(r) ==
    /\ Velocity(r)
    /\ Fault
    /\ Increment(r) \/ UNCHANGED redis
    /\ RuleResult(r, FALSE)

\* The command was sent for the first count, which is not over a threshold.
Expire(r) ==
    /\ pc[r] = "expire"
    /\ ttl' = [ttl EXCEPT ![KeyOf(r)] = TRUE]
    /\ RuleResult(r, 1 > Rule(r).threshold)
    /\ UNCHANGED <<count, seen, faults>>

ExpireFails(r) ==
    /\ pc[r] = "expire"
    /\ Fault
    /\ ttl' \in {ttl, [ttl EXCEPT ![KeyOf(r)] = TRUE]}
    /\ RuleResult(r, FALSE)
    /\ UNCHANGED <<count, seen>>

-------------------------------------------------------------------------------
(* handleMessage: the verdict, and the end                                  *)

Verdict(r) == [payment |-> msg[r], decision |-> MakeDecision(score[r])]

Publish(r) ==
    /\ pc[r] = "publish"
    /\ verdicts' = verdicts \cup {Verdict(r)}
    /\ pc' = [pc EXCEPT ![r] = "ack"]
    /\ UNCHANGED <<rules, jetStream, msg, next, score, redis, faults>>

\* The callback returns; until a later delivery nothing remembers the message.
Return(r) ==
    /\ pc' = [pc EXCEPT ![r] = "idle"]
    /\ msg' = [msg EXCEPT ![r] = None]
    /\ next' = [next EXCEPT ![r] = 1]
    /\ score' = [score EXCEPT ![r] = 0]
    /\ UNCHANGED <<rules, attempts, redis>>

\* A failed publish is acknowledged all the same.
WrongPublishFails(r) ==
    /\ pc[r] = "publish"
    /\ Fault
    /\ stream' = stream \ {msg[r]}
    /\ outstanding' = outstanding \ {msg[r]}
    /\ Return(r)
    /\ UNCHANGED verdicts

\* The publish fails, whether or not the stream has stored the verdict: Nak.
PublishFails(r) ==
    /\ pc[r] = "publish"
    /\ Fault
    /\ verdicts' \in {verdicts, verdicts \cup {Verdict(r)}}
    /\ outstanding' = outstanding \ {msg[r]}
    /\ Return(r)
    /\ UNCHANGED stream

\* Nak at the end of a success too.
WrongAck(r) ==
    /\ pc[r] = "ack"
    /\ outstanding' = outstanding \ {msg[r]}
    /\ Return(r)
    /\ UNCHANGED <<stream, verdicts, faults>>

\* WorkQueue retention: an acknowledged message leaves the stream.
Ack(r) ==
    /\ pc[r] = "ack"
    /\ stream' = stream \ {msg[r]}
    /\ outstanding' = outstanding \ {msg[r]}
    /\ Return(r)
    /\ UNCHANGED <<verdicts, faults>>

\* The acknowledgement is lost, or the process dies at any point: AckWait ends
\* and the message is delivered again, unless a later delivery is under way.
AckLost(r) ==
    /\ pc[r] # "idle"
    /\ Fault
    /\ outstanding' = outstanding \ ({msg[r]} \ {msg[q] : q \in Replicas \ {r}})
    /\ Return(r)
    /\ UNCHANGED <<stream, verdicts>>

-------------------------------------------------------------------------------
Evaluate(r) == ApplySimple(r) \/ SkipRule(r) \/ Incr(r) \/ Expire(r)

EvaluateFails(r) == IncrRepeated(r) \/ IncrFails(r) \/ ExpireFails(r)

HandleMessage(r) ==
    \/ \E p \in Payments : Take(r, p)
    \/ Evaluate(r)
    \/ Publish(r)
    \/ Ack(r)

Next ==
    \/ \E r \in Replicas :
        HandleMessage(r) \/ EvaluateFails(r) \/ PublishFails(r) \/ AckLost(r)
    \/ \E p \in Payments : AckWaitExpires(p)
    \/ \E k \in Keys : WindowEnds(k)

Spec == Init /\ [][Next]_vars

\* A running replica goes on with its message and takes the next one.
FairSpec == Spec /\ \A r \in Replicas : WF_vars(HandleMessage(r))

-------------------------------------------------------------------------------
(* Properties                                                               *)

TypeOK ==
    /\ rules \in Seq(SimpleRules \cup VelocityRules)
    /\ stream \subseteq Payments
    /\ outstanding \subseteq Payments
    /\ attempts \in [Payments -> 0 .. MaxDeliver]
    /\ pc \in [Replicas -> {"idle", "rules", "expire", "publish", "ack"}]
    /\ msg \in [Replicas -> Payments \cup {None}]
    /\ next \in [Replicas -> Nat \ {0}]
    /\ score \in [Replicas -> Nat]
    /\ count \in [Keys -> Nat]
    /\ ttl \in [Keys -> BOOLEAN]
    /\ seen \in [Keys -> SUBSET Payments]
    /\ verdicts \subseteq Verdicts
    /\ faults \in 0 .. MaxFaults

\* Where a callback stands says what it holds.
HandlerInv ==
    \A r \in Replicas :
        /\ pc[r] = "idle" <=> msg[r] = None
        /\ pc[r] \in {"rules", "expire"} => next[r] \in 1 .. Len(rules)
        /\ pc[r] = "expire" => Rule(r).type = "velocity" /\ KeyOf(r) \in Keys
        /\ pc[r] = "ack" => Verdict(r) \in verdicts

\* A payment leaves the stream with a verdict in it.
DecidedInv == \A p \in Payments \ stream : \E v \in verdicts : v.payment = p

\* One replica at most is about to send EXPIRE for a key, the key is there and
\* has no time to live; a counter has counted somebody.
CounterInv ==
    /\ \A r \in Replicas : pc[r] = "expire" => count[KeyOf(r)] > 0 /\ ~ttl[KeyOf(r)]
    /\ \A q, r \in Replicas :
        pc[q] = "expire" /\ pc[r] = "expire" /\ KeyOf(q) = KeyOf(r) => q = r
    /\ \A k \in Keys : /\ ttl[k] => count[k] > 0
                       /\ count[k] = 0 <=> seen[k] = {}

\* Faults pay for deliveries. Every delivery of a payment after its first one,
\* the one to come included, follows a fault that gave the message back.
Deliverable(p) == IF p \in stream \ outstanding THEN 1 ELSE 0
Extra == {d \in Payments \X (1 .. MaxDeliver) : d[2] < attempts[d[1]] + Deliverable(d[1])}
Handling(p) == {r \in Replicas : msg[r] = p}

DeliveryInv ==
    /\ Cardinality(Extra) <= faults
    /\ \A p \in Payments : Cardinality(Handling(p)) <= attempts[p]

\* A counter stays within the deliveries of the payments it has seen: what it
\* counted, and what the replicas at work on those payments have yet to count,
\* is one for every reading rule of each delivery, or of a fault to spare.
ReadingRules(k) ==
    {i \in DOMAIN rules : rules[i].type = "velocity" /\ rules[i].key_field = k[1]}
Readers(k) == Cardinality(ReadingRules(k))

Passes(k) == {d \in Payments \X (1 .. MaxDeliver) : d[1] \in seen[k] /\ d[2] <= attempts[d[1]]}

Uncounted(r) == IF pc[r] = "rules" THEN next[r] .. Len(rules) ELSE next[r] + 1 .. Len(rules)
Ahead(k) ==
    {w \in Replicas \X ReadingRules(k) : msg[w[1]] \in seen[k] /\ w[2] \in Uncounted(w[1])}

TrafficInv ==
    \A k \in Keys :
        count[k] + Cardinality(Ahead(k))
            <= Readers(k) * (Cardinality(Passes(k)) + (faults - Cardinality(Extra)))

\* The inductive invariant: a message is acknowledged only with its verdict in
\* the stream, Redis is in step with the replicas between INCR and EXPIRE, and
\* nothing is delivered or counted that no message and no fault accounts for.
RiskInv ==
    TypeOK /\ HandlerInv /\ DecidedInv /\ CounterInv /\ DeliveryInv /\ TrafficInv

\* Whatever file was loaded, the engine evaluates every simple rule of it on
\* every payment without an error and without dereferencing nil: loader and
\* engine keep two lists of fields, operators and shapes of values.
LoadedRulesEvaluate ==
    \A i \in DOMAIN rules : \A p \in Payments :
        rules[i].type = "simple" => Evaluable(rules[i], Event[p])

\* A counter that nobody will give a time to live keeps its rule triggered for
\* good. There is at most one for every fault: without faults every INCR that
\* makes a counter is followed by its EXPIRE, in all interleavings of replicas.
Endless ==
    {k \in Keys : /\ count[k] > 0 /\ ~ttl[k]
                 /\ \A r \in Replicas : pc[r] = "expire" => KeyOf(r) # k}

EndlessCountersHaveFaults == Cardinality(Endless) <= faults

\* A counter counts payments: each payment once for every rule that reads the
\* key, and one more evaluation for every fault (a redelivery, a repeated INCR).
\* Payments long gone do not count, since the counter ends as a whole.
CountIsTraffic ==
    \A k \in Keys : count[k] <= Readers(k) * (Cardinality(seen[k]) + faults)

\* Every payment gets a verdict, unless all its deliveries are used up; faults
\* and Redis do not keep a replica from deciding. (Fail-open.)
EveryPaymentDecided ==
    \A p \in Payments :
        rules # <<>> ~> \/ \E v \in verdicts : v.payment = p
                        \/ attempts[p] = MaxDeliver
===============================================================================
