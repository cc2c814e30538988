--------------------------- MODULE RiskEngineProofs ---------------------------
(***************************************************************************)
(* Proofs about RiskEngine: a loaded rule can be evaluated, a message is   *)
(* acknowledged with its verdict in the stream, a counter without a time   *)
(* to live costs a fault, and a counter counts traffic.                    *)
(*                                                                         *)
(* The last one is an argument about amounts: what a counter has counted   *)
(* is paid by deliveries, and deliveries beyond the first by faults. Every *)
(* amount is the cardinality of a set, and a step is shown to add at most  *)
(* one element, or one element for every rule that reads the counter.      *)
(***************************************************************************)
EXTENDS RiskEngine, FiniteSetTheorems, TLAPS

(* Cardinalities and products.                                             *)

\* A set that gains at most one element counts at most one more.
LEMMA OneMore ==
  ASSUME NEW S, NEW T, NEW e, IsFiniteSet(S), T \subseteq S \cup {e}
  PROVE  /\ IsFiniteSet(T)
         /\ Cardinality(S) \in Nat /\ Cardinality(T) \in Nat
         /\ Cardinality(T) <= Cardinality(S) + 1
<1>1. IsFiniteSet(S \cup {e}) /\ Cardinality(S \cup {e}) <= Cardinality(S) + 1
      /\ Cardinality(S) \in Nat
  BY FS_AddElement, FS_CardinalityType
<1>2. IsFiniteSet(T) /\ Cardinality(T) <= Cardinality(S \cup {e})
  BY <1>1, FS_Subset
<1> QED
  BY <1>1, <1>2, FS_CardinalityType

\* A set within another counts no more.
LEMMA NoMore ==
  ASSUME NEW S, NEW T, IsFiniteSet(S), T \subseteq S
  PROVE  /\ IsFiniteSet(T)
         /\ Cardinality(S) \in Nat /\ Cardinality(T) \in Nat
         /\ Cardinality(T) <= Cardinality(S)
  BY FS_Subset, FS_CardinalityType

\* Two sets together count no more than one after the other, and exactly as
\* much when they are disjoint.
LEMMA Together ==
  ASSUME NEW S, NEW T, NEW U, IsFiniteSet(S), IsFiniteSet(T)
  PROVE  /\ Cardinality(S) \in Nat /\ Cardinality(T) \in Nat
         /\ U \subseteq S \cup T => /\ IsFiniteSet(U) /\ Cardinality(U) \in Nat
                                    /\ Cardinality(U) <= Cardinality(S) + Cardinality(T)
         /\ U = S \cup T /\ S \cap T = {} =>
                Cardinality(U) = Cardinality(S) + Cardinality(T)
<1>1. /\ Cardinality(S) \in Nat /\ Cardinality(T) \in Nat
      /\ IsFiniteSet(S \cap T) /\ Cardinality(S \cap T) \in Nat
  BY FS_CardinalityType, FS_Intersection
<1>2. /\ IsFiniteSet(S \cup T)
      /\ Cardinality(S \cup T) = Cardinality(S) + Cardinality(T) - Cardinality(S \cap T)
  BY FS_Union
<1>3. ASSUME U \subseteq S \cup T
      PROVE  /\ IsFiniteSet(U) /\ Cardinality(U) \in Nat
             /\ Cardinality(U) <= Cardinality(S \cup T)
  BY <1>2, <1>3, NoMore
<1>4. ASSUME U = S \cup T, S \cap T = {}
      PROVE  Cardinality(U) = Cardinality(S) + Cardinality(T)
  <2>1. Cardinality(S \cap T) = 0
    BY <1>4, FS_EmptySet
  <2> QED
    BY <1>1, <1>2, <1>4, <2>1
<1>5. Cardinality(S \cup T) <= Cardinality(S) + Cardinality(T)
  BY <1>1, <1>2
<1>6. Cardinality(S \cup T) \in Nat
  BY <1>2, FS_CardinalityType
<1>7. ASSUME U \subseteq S \cup T PROVE Cardinality(U) <= Cardinality(S) + Cardinality(T)
  BY <1>1, <1>3, <1>5, <1>6, <1>7
<1> QED
  BY <1>1, <1>3, <1>4, <1>7

\* Products grow with their second factor.
LEMMA Times ==
  /\ \A a, b, c \in Nat : a <= b => c * a <= c * b
  /\ \A a, b, c \in Nat : c * (a + b) = c * a + c * b
  /\ \A a, c \in Nat : c * a \in Nat
  /\ \A c \in Nat : c * 1 = c
<1>1. \A a, b, c \in Nat : c * (a + b) = c * a + c * b
  OBVIOUS
<1>2. \A a, c \in Nat : c * a \in Nat
  OBVIOUS
<1>3. ASSUME NEW a \in Nat, NEW b \in Nat, NEW c \in Nat, a <= b PROVE c * a <= c * b
  <2>1. b - a \in Nat /\ b = a + (b - a)
    BY <1>3
  <2>2. c * b = c * a + c * (b - a)
    BY <1>1, <2>1
  <2> QED
    BY <1>2, <2>1, <2>2
<1> QED
  BY <1>1, <1>2, <1>3

------------------------------------------------------------------------------
(* The loader.                                                             *)

\* An accepted rule parses into a rule of its type.
LEMMA ParsedRule ==
  ASSUME NEW raw \in RawRules, Accepts(raw)
  PROVE  /\ ParseRule(raw) \in SimpleRules \cup VelocityRules
         /\ ParseRule(raw).type = "simple" =>
                ParseRule(raw).operator = "between" \/ ParseRule(raw).single \in Int
<1>1. /\ raw.score \in Int /\ raw.score > 0 /\ raw.value \in RawValues
      /\ raw.window \in Int \cup {Nil} /\ raw.threshold \in Int
  BY DEF RawRules, Accepts
<1>2. CASE RuleType(raw) = "simple"
  <2>1. ValidSimple(raw) /\ ParseRule(raw) = ParseSimple(raw)
    BY <1>2 DEF Accepts, ParseRule
  <2>2. raw.field \in Fields /\ raw.operator \in Operators
    BY <2>1 DEF ValidSimple
  <2>3. raw.value.items \in Seq(Int)
    BY <1>1 DEF RawValues
  <2>4. raw.value.kind = "list" \/ raw.value.items[1] \in Int
    <3>1. CASE raw.operator = "between"
      BY <2>1, <3>1 DEF ValidSimple, ValueFits
    <3>2. CASE raw.operator # "between"
      <4>1. raw.value.kind \in {"null", "number"}
        BY <2>1, <3>2 DEF ValidSimple, ValueFits
      <4>2. Len(raw.value.items) = 1
        BY <1>1, <4>1 DEF RawValues
      <4> QED
        BY <2>3, <4>2
    <3> QED
      BY <3>1, <3>2
  <2>5. raw.operator = "between" \/ raw.value.kind # "list"
    BY <2>1 DEF ValidSimple, ValueFits
  <2>6. <<0, 0>> \in Seq(Int)
    OBVIOUS
  <2> QED
    BY <1>1, <2>1, <2>2, <2>3, <2>4, <2>5, <2>6 DEF ParseSimple, SimpleRules
<1>3. CASE RuleType(raw) # "simple"
  <2>1. ValidVelocity(raw) /\ ParseRule(raw) = ParseVelocity(raw)
    BY <1>3 DEF Accepts, ParseRule
  <2>2. /\ raw.key_field \in KeyFields /\ raw.threshold \in Nat /\ raw.window \in Nat
    BY <1>1, <2>1 DEF ValidVelocity, ValidWindow
  <2> QED
    BY <1>1, <2>1, <2>2 DEF ParseVelocity, VelocityRules
<1> QED
  BY <1>2, <1>3

\* What Load returns: rules of the two types, and a simple rule has the number
\* that its operator dereferences.
LEMMA LoadFacts ==
  ASSUME NEW file \in Seq(RawRules)
  PROVE  /\ Load(file) \in Seq(SimpleRules \cup VelocityRules)
         /\ \A i \in DOMAIN Load(file) :
                Load(file)[i].type = "simple" =>
                    Load(file)[i].operator = "between" \/ Load(file)[i].single \in Int
<1>1. CASE \A i \in DOMAIN file : Accepts(file[i])
  <2>1. Load(file) = [i \in 1 .. Len(file) |-> ParseRule(file[i])]
    BY <1>1 DEF Load
  <2>2. \A i \in 1 .. Len(file) : file[i] \in RawRules /\ Accepts(file[i])
    BY <1>1
  <2>3. \A i \in 1 .. Len(file) :
            /\ ParseRule(file[i]) \in SimpleRules \cup VelocityRules
            /\ ParseRule(file[i]).type = "simple" =>
                    \/ ParseRule(file[i]).operator = "between"
                    \/ ParseRule(file[i]).single \in Int
    BY <2>2, ParsedRule
  <2> QED
    BY <2>1, <2>3
<1>2. CASE ~ \A i \in DOMAIN file : Accepts(file[i])
  BY <1>2 DEF Load
<1> QED
  BY <1>1, <1>2

------------------------------------------------------------------------------
(* The steps of a replica.                                                 *)

\* A rule at hand is one of the loaded rules; a velocity rule reads its key.
LEMMA RuleFacts ==
  ASSUME TypeOK, HandlerInv, NEW r \in Replicas, pc[r] \in {"rules", "expire"}
  PROVE  /\ next[r] \in 1 .. Len(rules) /\ Rule(r) \in SimpleRules \cup VelocityRules
         /\ Rule(r).score \in Nat /\ msg[r] \in Payments
         /\ Rule(r).type = "velocity" =>
                /\ Rule(r).key_field \in KeyFields
                /\ KeyOf(r) \in Keys
                /\ next[r] \in ReadingRules(KeyOf(r))
<1>1. next[r] \in 1 .. Len(rules) /\ msg[r] \in Payments
  <2>1. pc[r] # "idle"
    OBVIOUS
  <2> QED
    BY <2>1 DEF TypeOK, HandlerInv
<1>2. Rule(r) \in SimpleRules \cup VelocityRules
  BY <1>1 DEF TypeOK, Rule
<1>3. Rule(r).score \in Nat
  BY <1>2 DEF SimpleRules, VelocityRules
<1>4. ASSUME Rule(r).type = "velocity"
      PROVE  /\ Rule(r).key_field \in KeyFields
             /\ KeyOf(r) \in Keys
             /\ next[r] \in ReadingRules(KeyOf(r))
  <2>1. Rule(r) \in VelocityRules
    BY <1>2, <1>4 DEF SimpleRules
  <2>2. Rule(r).key_field \in KeyFields
    BY <2>1 DEF VelocityRules
  <2>3. KeyOf(r)[1] = Rule(r).key_field
    BY DEF KeyOf, BuildKey
  <2>4. next[r] \in DOMAIN rules
    BY <1>1 DEF TypeOK
  <2> QED
    BY <1>1, <1>4, <2>2, <2>3, <2>4 DEF KeyOf, Keys, ReadingRules, Rule
<1> QED
  BY <1>1, <1>2, <1>3, <1>4

\* A step of a replica that ends with the result of a rule. The last parts say
\* that the invariants of the handler survive it.
LEMMA ResultFacts ==
  ASSUME TypeOK, HandlerInv, NEW r \in Replicas, pc[r] \in {"rules", "expire"},
         NEW triggered \in BOOLEAN, RuleResult(r, triggered)
  PROVE  /\ UNCHANGED <<rules, stream, outstanding, attempts, msg, verdicts>>
         /\ score' \in [Replicas -> Nat] /\ next' \in [Replicas -> Nat \ {0}]
         /\ next'[r] = next[r] + 1
         /\ pc' \in [Replicas -> {"idle", "rules", "expire", "publish", "ack"}]
         /\ pc'[r] = IF next[r] = Len(rules) THEN "publish" ELSE "rules"
         /\ \A q \in Replicas \ {r} :
                pc'[q] = pc[q] /\ next'[q] = next[q] /\ score'[q] = score[q]
<1>1. next[r] \in 1 .. Len(rules) /\ Rule(r).score \in Nat
  BY RuleFacts
<1>2. UNCHANGED <<rules, stream, outstanding, attempts, msg, verdicts>>
  BY DEF RuleResult, jetStream
<1>3. score' \in [Replicas -> Nat]
  BY <1>1 DEF RuleResult, TypeOK
<1>4. next' \in [Replicas -> Nat \ {0}] /\ next'[r] = next[r] + 1
  BY <1>1 DEF RuleResult, TypeOK
<1>5. /\ pc' \in [Replicas -> {"idle", "rules", "expire", "publish", "ack"}]
      /\ pc'[r] = IF next[r] = Len(rules) THEN "publish" ELSE "rules"
  BY DEF RuleResult, TypeOK
<1>6. ASSUME NEW q \in Replicas \ {r}
      PROVE  pc'[q] = pc[q] /\ next'[q] = next[q] /\ score'[q] = score[q]
  BY DEF RuleResult, TypeOK
<1> QED
  BY <1>2, <1>3, <1>4, <1>5, <1>6

\* The steps that end with the result of a rule, and what Redis knows then.
Results(r) ==
    \/ ApplySimple(r)
    \/ SkipRule(r)
    \/ Incr(r) /\ ~First(count[KeyOf(r)] + 1)
    \/ IncrFails(r)
    \/ Expire(r)
    \/ ExpireFails(r)

LEMMA ResultsFacts ==
  ASSUME NEW r \in Replicas, Results(r)
  PROVE  /\ pc[r] \in {"rules", "expire"}
         /\ \E triggered \in BOOLEAN : RuleResult(r, triggered)
<1>1. CASE ApplySimple(r)
  <2>1. EvaluateSimple(Rule(r), Event[msg[r]]) \in BOOLEAN
    BY DEF EvaluateSimple, ApplyOperator
  <2> QED
    BY <1>1, <2>1 DEF ApplySimple
<1>2. CASE SkipRule(r)
  BY <1>2 DEF SkipRule
<1>3. CASE Incr(r) /\ ~First(count[KeyOf(r)] + 1)
  <2> DEFINE over == count[KeyOf(r)] + 1 > Rule(r).threshold
  <2>1. pc[r] = "rules" /\ RuleResult(r, over)
    BY <1>3 DEF Incr, Velocity
  <2>2. over \in BOOLEAN
    OBVIOUS
  <2> HIDE DEF over
  <2> QED
    BY <2>1, <2>2
<1>4. CASE IncrFails(r)
  BY <1>4 DEF IncrFails, Velocity
<1>5. CASE Expire(r)
  <2> DEFINE over == 1 > Rule(r).threshold
  <2>1. pc[r] = "expire" /\ RuleResult(r, over)
    BY <1>5 DEF Expire
  <2>2. over \in BOOLEAN
    OBVIOUS
  <2> HIDE DEF over
  <2> QED
    BY <2>1, <2>2
<1>6. CASE ExpireFails(r)
  BY <1>6 DEF ExpireFails
<1> QED
  BY <1>1, <1>2, <1>3, <1>4, <1>5, <1>6 DEF Results

\* The kinds of steps.
LEMMA StepKinds ==
  ASSUME [Next]_vars
  PROVE  \/ UNCHANGED vars
         \/ \E p \in Payments : AckWaitExpires(p)
         \/ \E k \in Keys : WindowEnds(k)
         \/ \E r \in Replicas :
                \/ \E p \in Payments : Take(r, p)
                \/ Results(r)
                \/ Incr(r) /\ First(count[KeyOf(r)] + 1)
                \/ IncrRepeated(r)
                \/ Publish(r)
                \/ PublishFails(r) \/ Ack(r) \/ AckLost(r)
  BY DEF Next, HandleMessage, Evaluate, EvaluateFails, Results

\* A callback that returns forgets its message; the other replicas go on.
LEMMA ReturnFacts ==
  ASSUME TypeOK, NEW r \in Replicas, Return(r)
  PROVE  /\ UNCHANGED <<rules, attempts, count, ttl, seen>>
         /\ pc' \in [Replicas -> {"idle", "rules", "expire", "publish", "ack"}]
         /\ msg' \in [Replicas -> Payments \cup {None}]
         /\ next' \in [Replicas -> Nat \ {0}] /\ score' \in [Replicas -> Nat]
         /\ pc'[r] = "idle" /\ msg'[r] = None
         /\ \A q \in Replicas \ {r} : /\ pc'[q] = pc[q] /\ msg'[q] = msg[q]
                                      /\ next'[q] = next[q] /\ score'[q] = score[q]
<1>1. UNCHANGED <<rules, attempts, count, ttl, seen>>
  BY DEF Return, redis
<1>2. /\ pc' \in [Replicas -> {"idle", "rules", "expire", "publish", "ack"}]
      /\ pc'[r] = "idle" /\ \A q \in Replicas \ {r} : pc'[q] = pc[q]
  BY DEF Return, TypeOK
<1>3. /\ msg' \in [Replicas -> Payments \cup {None}]
      /\ msg'[r] = None /\ \A q \in Replicas \ {r} : msg'[q] = msg[q]
  BY DEF Return, TypeOK
<1>4. /\ next' \in [Replicas -> Nat \ {0}]
      /\ \A q \in Replicas \ {r} : next'[q] = next[q]
  BY DEF Return, TypeOK
<1>5. /\ score' \in [Replicas -> Nat]
      /\ \A q \in Replicas \ {r} : score'[q] = score[q]
  BY DEF Return, TypeOK
<1> QED
  BY <1>1, <1>2, <1>3, <1>4, <1>5

\* A replica that takes a message starts with the first rule.
LEMMA TakeFacts ==
  ASSUME TypeOK, NEW r \in Replicas, NEW p \in Payments, Take(r, p)
  PROVE  /\ UNCHANGED <<rules, stream, count, ttl, seen, verdicts, faults>>
         /\ attempts[p] < MaxDeliver /\ attempts' \in [Payments -> 0 .. MaxDeliver]
         /\ attempts'[p] = attempts[p] + 1
         /\ \A o \in Payments \ {p} : attempts'[o] = attempts[o]
         /\ p \in stream \ outstanding /\ outstanding' = outstanding \cup {p}
         /\ pc' \in [Replicas -> {"idle", "rules", "expire", "publish", "ack"}]
         /\ msg' \in [Replicas -> Payments \cup {None}]
         /\ next' \in [Replicas -> Nat \ {0}] /\ score' \in [Replicas -> Nat]
         /\ pc[r] = "idle" /\ pc'[r] = "rules" /\ msg'[r] = p /\ next'[r] = 1
         /\ \A q \in Replicas \ {r} : /\ pc'[q] = pc[q] /\ msg'[q] = msg[q]
                                      /\ next'[q] = next[q] /\ score'[q] = score[q]
<1>1. /\ UNCHANGED <<rules, stream, count, ttl, seen, verdicts, faults>>
      /\ p \in stream \ outstanding /\ outstanding' = outstanding \cup {p}
      /\ pc[r] = "idle" /\ attempts[p] < MaxDeliver
  BY DEF Take, redis
<1>2. /\ pc' \in [Replicas -> {"idle", "rules", "expire", "publish", "ack"}]
      /\ pc'[r] = "rules" /\ \A q \in Replicas \ {r} : pc'[q] = pc[q]
  BY DEF Take, TypeOK
<1>3. /\ msg' \in [Replicas -> Payments \cup {None}]
      /\ msg'[r] = p /\ \A q \in Replicas \ {r} : msg'[q] = msg[q]
  BY DEF Take, TypeOK
<1>4. /\ next' \in [Replicas -> Nat \ {0}] /\ next'[r] = 1
      /\ \A q \in Replicas \ {r} : next'[q] = next[q]
  BY DEF Take, TypeOK
<1>5. /\ score' \in [Replicas -> Nat]
      /\ \A q \in Replicas \ {r} : score'[q] = score[q]
  BY DEF Take, TypeOK
<1>6. /\ attempts' \in [Payments -> 0 .. MaxDeliver] /\ attempts'[p] = attempts[p] + 1
      /\ \A o \in Payments \ {p} : attempts'[o] = attempts[o]
  BY <1>1, RiskConstants DEF Take, TypeOK
<1> QED
  BY <1>1, <1>2, <1>3, <1>4, <1>5, <1>6

\* INCR on the key of the rule at hand.
LEMMA IncrementFacts ==
  ASSUME TypeOK, HandlerInv, NEW r \in Replicas, Velocity(r), Increment(r)
  PROVE  /\ KeyOf(r) \in Keys /\ ttl' = ttl
         /\ count' \in [Keys -> Nat] /\ count'[KeyOf(r)] = count[KeyOf(r)] + 1
         /\ seen' \in [Keys -> SUBSET Payments]
         /\ seen'[KeyOf(r)] = seen[KeyOf(r)] \cup {msg[r]}
         /\ \A k \in Keys \ {KeyOf(r)} : count'[k] = count[k] /\ seen'[k] = seen[k]
<1>1. KeyOf(r) \in Keys /\ msg[r] \in Payments
  BY RuleFacts DEF Velocity
<1> HIDE DEF Velocity
<1>2. /\ count' \in [Keys -> Nat] /\ count'[KeyOf(r)] = count[KeyOf(r)] + 1
      /\ \A k \in Keys \ {KeyOf(r)} : count'[k] = count[k]
  BY <1>1 DEF Increment, TypeOK
<1>3. /\ seen' \in [Keys -> SUBSET Payments]
      /\ seen'[KeyOf(r)] = seen[KeyOf(r)] \cup {msg[r]}
      /\ \A k \in Keys \ {KeyOf(r)} : seen'[k] = seen[k]
  BY <1>1 DEF Increment, TypeOK
<1> QED
  BY <1>1, <1>2, <1>3 DEF Increment

\* What a step that ends with a result has done to Redis.
LEMMA ResultsRedis ==
  ASSUME NEW r \in Replicas, Results(r)
  PROVE  /\ faults' = faults \/ Fault
         /\ \/ pc[r] = "rules" /\ UNCHANGED redis
            \/ /\ Velocity(r) /\ Increment(r)
               /\ First(count[KeyOf(r)] + 1) => Fault
            \/ /\ pc[r] = "expire" /\ UNCHANGED <<count, seen>>
               /\ ttl' = [ttl EXCEPT ![KeyOf(r)] = TRUE] \/ (Fault /\ ttl' = ttl)
<1>1. CASE ApplySimple(r) \/ SkipRule(r)
  BY <1>1 DEF ApplySimple, SkipRule
<1>2. CASE Incr(r) /\ ~First(count[KeyOf(r)] + 1)
  BY <1>2 DEF Incr
<1>3. CASE IncrFails(r)
  BY <1>3 DEF IncrFails, Velocity
<1>4. CASE Expire(r)
  BY <1>4 DEF Expire
<1>5. CASE ExpireFails(r)
  BY <1>5 DEF ExpireFails
<1> QED
  BY <1>1, <1>2, <1>3, <1>4, <1>5 DEF Results

\* The key's time to live ends.
LEMMA WindowFacts ==
  ASSUME TypeOK, NEW k \in Keys, WindowEnds(k)
  PROVE  /\ UNCHANGED <<rules, stream, outstanding, attempts, pc, msg, next, score,
                        verdicts, faults>>
         /\ count' \in [Keys -> Nat] /\ count'[k] = 0
         /\ ttl' \in [Keys -> BOOLEAN] /\ ttl[k] /\ ~ttl'[k]
         /\ seen' \in [Keys -> SUBSET Payments] /\ seen'[k] = {}
         /\ \A l \in Keys \ {k} : count'[l] = count[l] /\ ttl'[l] = ttl[l] /\ seen'[l] = seen[l]
<1>1. UNCHANGED <<rules, stream, outstanding, attempts, pc, msg, next, score, verdicts, faults>>
  BY DEF WindowEnds, jetStream, handler
<1>2. /\ count' \in [Keys -> Nat] /\ count'[k] = 0
      /\ \A l \in Keys \ {k} : count'[l] = count[l]
  BY DEF WindowEnds, TypeOK
<1>3. /\ ttl' \in [Keys -> BOOLEAN] /\ ttl[k] /\ ~ttl'[k]
      /\ \A l \in Keys \ {k} : ttl'[l] = ttl[l]
  BY DEF WindowEnds, TypeOK
<1>4. /\ seen' \in [Keys -> SUBSET Payments] /\ seen'[k] = {}
      /\ \A l \in Keys \ {k} : seen'[l] = seen[l]
  BY DEF WindowEnds, TypeOK
<1> QED
  BY <1>1, <1>2, <1>3, <1>4

\* A fault is within its bound.
LEMMA FaultFacts ==
  ASSUME TypeOK, Fault
  PROVE  faults' = faults + 1 /\ faults' \in 0 .. MaxFaults
  BY RiskConstants DEF TypeOK, Fault

\* What a callback publishes is a verdict.
LEMMA VerdictFacts ==
  ASSUME TypeOK, HandlerInv, NEW r \in Replicas, pc[r] # "idle"
  PROVE  msg[r] \in Payments /\ Verdict(r) \in Verdicts /\ Verdict(r).payment = msg[r]
<1>1. msg[r] \in Payments
  BY DEF TypeOK, HandlerInv
<1>2. MakeDecision(score[r]) \in Decisions
  BY DEF MakeDecision, Decisions
<1> QED
  BY <1>1, <1>2 DEF Verdict, Verdicts

------------------------------------------------------------------------------
(* RiskInv holds at the start.                                             *)

LEMMA InitRiskInv == Init => RiskInv
<1> SUFFICES ASSUME Init PROVE RiskInv
  OBVIOUS
<1>1. PICK file \in RuleFiles : rules = Load(file)
  BY DEF Init
<1>2. rules \in Seq(SimpleRules \cup VelocityRules)
  BY <1>1, LoadFacts, RiskConstants
<1>3. TypeOK
  <2>1. /\ stream \subseteq Payments /\ outstanding \subseteq Payments
        /\ verdicts \subseteq Verdicts
    BY DEF Init
  <2>2. attempts \in [Payments -> 0 .. MaxDeliver] /\ faults \in 0 .. MaxFaults
    BY RiskConstants DEF Init
  <2>3. /\ pc \in [Replicas -> {"idle", "rules", "expire", "publish", "ack"}]
        /\ msg \in [Replicas -> Payments \cup {None}]
        /\ next \in [Replicas -> Nat \ {0}] /\ score \in [Replicas -> Nat]
    BY DEF Init
  <2>4. /\ count \in [Keys -> Nat] /\ ttl \in [Keys -> BOOLEAN]
        /\ seen \in [Keys -> SUBSET Payments]
    BY DEF Init
  <2> QED
    BY <1>2, <2>1, <2>2, <2>3, <2>4 DEF TypeOK
<1>4. HandlerInv
  BY DEF Init, HandlerInv
<1>5. DecidedInv
  BY DEF Init, DecidedInv
<1>6. CounterInv
  BY DEF Init, CounterInv
<1>7. Extra = {}
  BY DEF Init, Extra, Deliverable
<1>8. DeliveryInv
  <2>1. \A p \in Payments : Handling(p) = {} /\ attempts[p] = 0
    BY RiskConstants DEF Init, Handling
  <2> QED
    BY <1>7, <2>1, FS_EmptySet DEF DeliveryInv, Init
<1>9. TrafficInv
  <2> SUFFICES ASSUME NEW k \in Keys
               PROVE  count[k] + Cardinality(Ahead(k))
                        <= Readers(k) * (Cardinality(Passes(k)) + (faults - Cardinality(Extra)))
    BY DEF TrafficInv
  <2>1. count[k] = 0 /\ seen[k] = {} /\ faults = 0
    BY DEF Init
  <2>2. Ahead(k) = {} /\ Passes(k) = {}
    BY <2>1 DEF Ahead, Passes
  <2>3. Cardinality(Ahead(k)) = 0 /\ Cardinality(Passes(k)) = 0 /\ Cardinality(Extra) = 0
    BY <1>7, <2>2, FS_EmptySet
  <2>4. Readers(k) \in Nat
    <3>1. IsFiniteSet(1 .. Len(rules)) /\ ReadingRules(k) \subseteq 1 .. Len(rules)
      BY <1>2, FS_Interval DEF ReadingRules
    <3> QED
      BY <3>1, NoMore DEF Readers
  <2> QED
    BY <2>1, <2>3, <2>4
<1> QED
  BY <1>3, <1>4, <1>5, <1>6, <1>8, <1>9 DEF RiskInv

------------------------------------------------------------------------------
(* Every step preserves the types, the handler's and the message's state.   *)

LEMMA TypeStep == TypeOK /\ HandlerInv /\ [Next]_vars => TypeOK'
<1> SUFFICES ASSUME TypeOK, HandlerInv, [Next]_vars PROVE TypeOK'
  OBVIOUS
<1>1. CASE UNCHANGED vars
  BY <1>1 DEF TypeOK, vars, jetStream, handler, redis
<1>2. ASSUME NEW p \in Payments, AckWaitExpires(p) PROVE TypeOK'
  BY <1>2, FaultFacts DEF TypeOK, AckWaitExpires, handler, redis
<1>3. ASSUME NEW k \in Keys, WindowEnds(k) PROVE TypeOK'
  BY <1>3, WindowFacts DEF TypeOK
<1>4. ASSUME NEW r \in Replicas, NEW p \in Payments, Take(r, p) PROVE TypeOK'
  <2>1. outstanding' \subseteq Payments
    BY <1>4, TakeFacts DEF TypeOK
  <2> QED
    BY <1>4, <2>1, TakeFacts DEF TypeOK
<1>5. ASSUME NEW r \in Replicas, Results(r) PROVE TypeOK'
  <2>1. PICK triggered \in BOOLEAN : RuleResult(r, triggered)
    BY <1>5, ResultsFacts
  <2>2. pc[r] \in {"rules", "expire"}
    BY <1>5, ResultsFacts
  <2>3. /\ count' \in [Keys -> Nat] /\ ttl' \in [Keys -> BOOLEAN]
        /\ seen' \in [Keys -> SUBSET Payments]
    <3>1. CASE UNCHANGED redis
      BY <3>1 DEF TypeOK, redis
    <3>2. CASE Velocity(r) /\ Increment(r)
      BY <3>2, IncrementFacts DEF TypeOK
    <3>3. CASE UNCHANGED <<count, seen>> /\ ttl' \in {ttl, [ttl EXCEPT ![KeyOf(r)] = TRUE]}
      BY <3>3 DEF TypeOK
    <3> QED
      BY <1>5, <3>1, <3>2, <3>3, ResultsRedis
  <2>4. faults' \in 0 .. MaxFaults
    BY <1>5, ResultsRedis, FaultFacts DEF TypeOK
  <2>5. /\ UNCHANGED <<rules, stream, outstanding, attempts, msg, verdicts>>
        /\ score' \in [Replicas -> Nat] /\ next' \in [Replicas -> Nat \ {0}]
        /\ pc' \in [Replicas -> {"idle", "rules", "expire", "publish", "ack"}]
    BY <2>1, <2>2, ResultFacts
  <2> QED
    BY <2>3, <2>4, <2>5 DEF TypeOK
<1>6. ASSUME NEW r \in Replicas, Incr(r), First(count[KeyOf(r)] + 1) PROVE TypeOK'
  <2>1. /\ Velocity(r) /\ Increment(r) /\ faults' = faults
        /\ pc' = [pc EXCEPT ![r] = "expire"]
        /\ UNCHANGED <<rules, jetStream, msg, next, score, verdicts>>
    BY <1>6 DEF Incr
  <2>2. /\ count' \in [Keys -> Nat] /\ ttl' \in [Keys -> BOOLEAN]
        /\ seen' \in [Keys -> SUBSET Payments]
    BY <2>1, IncrementFacts DEF TypeOK
  <2> QED
    BY <2>1, <2>2 DEF TypeOK, jetStream
<1>7. ASSUME NEW r \in Replicas, IncrRepeated(r) PROVE TypeOK'
  <2>1. Velocity(r) /\ Increment(r) /\ Fault /\ UNCHANGED <<rules, jetStream, handler, verdicts>>
    BY <1>7 DEF IncrRepeated
  <2>2. /\ count' \in [Keys -> Nat] /\ ttl' \in [Keys -> BOOLEAN]
        /\ seen' \in [Keys -> SUBSET Payments]
    BY <2>1, IncrementFacts DEF TypeOK
  <2> QED
    BY <2>1, <2>2, FaultFacts DEF TypeOK, jetStream, handler
<1>8. ASSUME NEW r \in Replicas, Publish(r) PROVE TypeOK'
  <2>1. Verdict(r) \in Verdicts
    BY <1>8, VerdictFacts DEF Publish
  <2>2. /\ verdicts' = verdicts \cup {Verdict(r)} /\ pc' = [pc EXCEPT ![r] = "ack"]
        /\ UNCHANGED <<rules, jetStream, msg, next, score, redis, faults>>
    BY <1>8 DEF Publish
  <2> QED
    BY <2>1, <2>2 DEF TypeOK, jetStream, redis
<1>9. ASSUME NEW r \in Replicas, PublishFails(r) \/ Ack(r) \/ AckLost(r) PROVE TypeOK'
  <2>1. Return(r) /\ pc[r] # "idle"
    BY <1>9 DEF PublishFails, Ack, AckLost
  <2>2. /\ stream' \subseteq stream /\ outstanding' \subseteq outstanding
        /\ verdicts' \subseteq verdicts \cup {Verdict(r)}
    BY <1>9 DEF PublishFails, Ack, AckLost
  <2>3. faults' \in 0 .. MaxFaults
    BY <1>9, FaultFacts DEF PublishFails, Ack, AckLost, TypeOK
  <2> QED
    BY <2>1, <2>2, <2>3, ReturnFacts, VerdictFacts DEF TypeOK
<1> QED
  BY <1>1, <1>2, <1>3, <1>4, <1>5, <1>6, <1>7, <1>8, <1>9, StepKinds

\* HandlerInv of one replica.
Handles(q) ==
    /\ pc[q] = "idle" <=> msg[q] = None
    /\ pc[q] \in {"rules", "expire"} => next[q] \in 1 .. Len(rules)
    /\ pc[q] = "expire" => Rule(q).type = "velocity" /\ KeyOf(q) \in Keys
    /\ pc[q] = "ack" => Verdict(q) \in verdicts

LEMMA HandlerStep == TypeOK /\ HandlerInv /\ [Next]_vars => HandlerInv'
<1> SUFFICES ASSUME TypeOK, HandlerInv, [Next]_vars, NEW q \in Replicas PROVE Handles(q)'
  BY DEF HandlerInv, Handles
<1>0. Handles(q)
  BY DEF HandlerInv, Handles
<1>1. ASSUME rules' = rules, verdicts \subseteq verdicts', pc'[q] = pc[q], msg'[q] = msg[q],
             next'[q] = next[q], score'[q] = score[q]
      PROVE  Handles(q)'
  BY <1>0, <1>1 DEF Handles, Rule, KeyOf, Verdict, Keys
<1>2. CASE UNCHANGED vars
  BY <1>1, <1>2 DEF vars, handler
<1>3. ASSUME NEW p \in Payments, AckWaitExpires(p) PROVE Handles(q)'
  BY <1>1, <1>3 DEF AckWaitExpires, handler
<1>4. ASSUME NEW k \in Keys, WindowEnds(k) PROVE Handles(q)'
  BY <1>1, <1>4, WindowFacts
<1>5. ASSUME NEW r \in Replicas, NEW p \in Payments, Take(r, p) PROVE Handles(q)'
  <2>1. CASE q # r
    BY <1>1, <1>5, <2>1, TakeFacts
  <2>2. CASE q = r
    <3>1. pc'[q] = "rules" /\ msg'[q] = p /\ next'[q] = 1 /\ rules' = rules
      BY <1>5, <2>2, TakeFacts
    <3>2. Len(rules) \in Nat /\ Len(rules) # 0
      BY <1>5 DEF Take, TypeOK
    <3> QED
      BY <3>1, <3>2, RiskConstants DEF Handles
  <2> QED
    BY <2>1, <2>2
<1>6. ASSUME NEW r \in Replicas, Results(r) PROVE Handles(q)'
  <2>1. PICK triggered \in BOOLEAN : RuleResult(r, triggered)
    BY <1>6, ResultsFacts
  <2>2. pc[r] \in {"rules", "expire"}
    BY <1>6, ResultsFacts
  <2>3. /\ UNCHANGED <<rules, msg, verdicts>> /\ next'[r] = next[r] + 1
        /\ pc'[r] = IF next[r] = Len(rules) THEN "publish" ELSE "rules"
        /\ \A o \in Replicas \ {r} :
                pc'[o] = pc[o] /\ next'[o] = next[o] /\ score'[o] = score[o]
    BY <2>1, <2>2, ResultFacts
  <2>4. CASE q # r
    BY <1>1, <2>3, <2>4
  <2>5. CASE q = r
    <3>1. next[r] \in 1 .. Len(rules) /\ msg[r] # None
      BY <1>0, <2>2, <2>5 DEF Handles
    <3> QED
      BY <2>3, <2>5, <3>1 DEF Handles
  <2> QED
    BY <2>4, <2>5
<1>7. ASSUME NEW r \in Replicas, Incr(r), First(count[KeyOf(r)] + 1) PROVE Handles(q)'
  <2>1. /\ Velocity(r) /\ pc' = [pc EXCEPT ![r] = "expire"]
        /\ UNCHANGED <<rules, jetStream, msg, next, score, verdicts>>
    BY <1>7 DEF Incr
  <2>2. CASE q # r
    BY <1>1, <2>1, <2>2 DEF TypeOK
  <2>3. CASE q = r
    <3>1. pc'[r] = "expire" /\ pc[r] = "rules" /\ Rule(r).type = "velocity"
      BY <2>1 DEF TypeOK, Velocity
    <3>2. KeyOf(r) \in Keys
      BY <3>1, RuleFacts
    <3>3. KeyOf(r)' = KeyOf(r) /\ Rule(r)' = Rule(r) /\ Keys' = Keys
      BY <2>1 DEF KeyOf, Rule, Keys
    <3> QED
      BY <1>0, <2>1, <2>3, <3>1, <3>2, <3>3 DEF Handles
  <2> QED
    BY <2>2, <2>3
<1>8. ASSUME NEW r \in Replicas, IncrRepeated(r) PROVE Handles(q)'
  BY <1>1, <1>8 DEF IncrRepeated, handler
<1>9. ASSUME NEW r \in Replicas, Publish(r) PROVE Handles(q)'
  <2>1. /\ pc[r] = "publish" /\ verdicts' = verdicts \cup {Verdict(r)}
        /\ pc' = [pc EXCEPT ![r] = "ack"] /\ UNCHANGED <<rules, msg, next, score>>
    BY <1>9 DEF Publish
  <2>2. CASE q # r
    BY <1>1, <2>1, <2>2 DEF TypeOK
  <2>3. CASE q = r
    <3>1. pc'[r] = "ack"
      BY <2>1 DEF TypeOK
    <3>2. Verdict(r)' = Verdict(r)
      BY <2>1 DEF Verdict
    <3> QED
      BY <1>0, <2>1, <2>3, <3>1, <3>2 DEF Handles
  <2> QED
    BY <2>2, <2>3
<1>10. ASSUME NEW r \in Replicas, PublishFails(r) \/ Ack(r) \/ AckLost(r) PROVE Handles(q)'
  <2>1. Return(r) /\ verdicts \subseteq verdicts'
    BY <1>10 DEF PublishFails, Ack, AckLost
  <2>2. CASE q # r
    BY <1>1, <2>1, <2>2, ReturnFacts
  <2>3. CASE q = r
    BY <2>1, <2>3, ReturnFacts DEF Handles
  <2> QED
    BY <2>2, <2>3
<1> QED
  BY <1>2, <1>3, <1>4, <1>5, <1>6, <1>7, <1>8, <1>9, <1>10, StepKinds

LEMMA DecidedStep == TypeOK /\ HandlerInv /\ DecidedInv /\ [Next]_vars => DecidedInv'
<1> SUFFICES ASSUME TypeOK, HandlerInv, DecidedInv, [Next]_vars PROVE DecidedInv'
  OBVIOUS
<1>1. ASSUME stream' = stream, verdicts \subseteq verdicts' PROVE DecidedInv'
  BY <1>1 DEF DecidedInv
<1>2. CASE UNCHANGED vars
  BY <1>1, <1>2 DEF vars, jetStream
<1>3. ASSUME NEW p \in Payments, AckWaitExpires(p) PROVE DecidedInv'
  BY <1>1, <1>3 DEF AckWaitExpires
<1>4. ASSUME NEW k \in Keys, WindowEnds(k) PROVE DecidedInv'
  BY <1>1, <1>4, WindowFacts
<1>5. ASSUME NEW r \in Replicas, NEW p \in Payments, Take(r, p) PROVE DecidedInv'
  BY <1>1, <1>5, TakeFacts
<1>6. ASSUME NEW r \in Replicas, Results(r) PROVE DecidedInv'
  <2>1. \E triggered \in BOOLEAN : RuleResult(r, triggered)
    BY <1>6, ResultsFacts
  <2> QED
    BY <1>1, <2>1 DEF RuleResult, jetStream
<1>7. ASSUME NEW r \in Replicas, Incr(r), First(count[KeyOf(r)] + 1) PROVE DecidedInv'
  BY <1>1, <1>7 DEF Incr, jetStream
<1>8. ASSUME NEW r \in Replicas, IncrRepeated(r) PROVE DecidedInv'
  BY <1>1, <1>8 DEF IncrRepeated, jetStream
<1>9. ASSUME NEW r \in Replicas, Publish(r) PROVE DecidedInv'
  BY <1>1, <1>9 DEF Publish, jetStream
<1>10. ASSUME NEW r \in Replicas, PublishFails(r) \/ AckLost(r) PROVE DecidedInv'
  BY <1>1, <1>10 DEF PublishFails, AckLost
<1>11. ASSUME NEW r \in Replicas, Ack(r) PROVE DecidedInv'
  <2>1. /\ pc[r] = "ack" /\ stream' = stream \ {msg[r]} /\ verdicts' = verdicts
    BY <1>11 DEF Ack
  <2>2. Verdict(r) \in verdicts /\ Verdict(r).payment = msg[r]
    BY <2>1, VerdictFacts DEF HandlerInv
  <2> QED
    BY <2>1, <2>2 DEF DecidedInv
<1> QED
  BY <1>2, <1>3, <1>4, <1>5, <1>6, <1>7, <1>8, <1>9, <1>10, <1>11, StepKinds

------------------------------------------------------------------------------
(* Redis between INCR and EXPIRE.                                           *)

\* Only the INCR that makes a counter brings a replica before its EXPIRE.
LEMMA ExpireIsNext ==
  ASSUME TypeOK, HandlerInv, [Next]_vars, NEW q \in Replicas, pc'[q] = "expire"
  PROVE  /\ KeyOf(q)' = KeyOf(q)
         /\ pc[q] = "expire" \/ (Incr(q) /\ First(count[KeyOf(q)] + 1))
<1>1. ASSUME rules' = rules, pc'[q] = pc[q], msg'[q] = msg[q], next'[q] = next[q]
      PROVE  KeyOf(q)' = KeyOf(q) /\ pc[q] = "expire"
  BY <1>1 DEF KeyOf, Rule
<1>2. CASE UNCHANGED vars
  BY <1>1, <1>2 DEF vars, handler
<1>3. ASSUME NEW p \in Payments, AckWaitExpires(p)
      PROVE  KeyOf(q)' = KeyOf(q) /\ pc[q] = "expire"
  BY <1>1, <1>3 DEF AckWaitExpires, handler
<1>4. ASSUME NEW k \in Keys, WindowEnds(k) PROVE KeyOf(q)' = KeyOf(q) /\ pc[q] = "expire"
  BY <1>1, <1>4, WindowFacts
<1>5. ASSUME NEW r \in Replicas, NEW p \in Payments, Take(r, p)
      PROVE  KeyOf(q)' = KeyOf(q) /\ pc[q] = "expire"
  <2>1. q # r
    BY <1>5, TakeFacts
  <2> QED
    BY <1>1, <1>5, <2>1, TakeFacts
<1>6. ASSUME NEW r \in Replicas, Results(r)
      PROVE  q # r /\ KeyOf(q)' = KeyOf(q) /\ pc[q] = "expire"
  <2>1. PICK triggered \in BOOLEAN : RuleResult(r, triggered)
    BY <1>6, ResultsFacts
  <2>2. pc[r] \in {"rules", "expire"}
    BY <1>6, ResultsFacts
  <2>3. /\ UNCHANGED <<rules, msg>> /\ pc'[r] # "expire"
        /\ \A o \in Replicas \ {r} : pc'[o] = pc[o] /\ next'[o] = next[o]
    BY <2>1, <2>2, ResultFacts
  <2> QED
    BY <1>1, <2>3
<1>7. ASSUME NEW r \in Replicas, Incr(r), First(count[KeyOf(r)] + 1)
      PROVE  /\ KeyOf(q)' = KeyOf(q)
             /\ pc[q] = "expire" \/ (Incr(q) /\ First(count[KeyOf(q)] + 1))
  <2>1. pc' = [pc EXCEPT ![r] = "expire"] /\ UNCHANGED <<rules, msg, next>>
    BY <1>7 DEF Incr
  <2>2. KeyOf(q)' = KeyOf(q)
    BY <2>1 DEF KeyOf, Rule
  <2>3. q # r => pc[q] = "expire"
    BY <2>1 DEF TypeOK
  <2> QED
    BY <1>7, <2>2, <2>3
<1>8. ASSUME NEW r \in Replicas, IncrRepeated(r)
      PROVE  KeyOf(q)' = KeyOf(q) /\ pc[q] = "expire"
  BY <1>1, <1>8 DEF IncrRepeated, handler
<1>9. ASSUME NEW r \in Replicas, Publish(r) PROVE KeyOf(q)' = KeyOf(q) /\ pc[q] = "expire"
  <2>1. pc' = [pc EXCEPT ![r] = "ack"] /\ UNCHANGED <<rules, msg, next>>
    BY <1>9 DEF Publish
  <2>2. q # r
    BY <2>1 DEF TypeOK
  <2> QED
    BY <1>1, <2>1, <2>2 DEF TypeOK
<1>10. ASSUME NEW r \in Replicas, PublishFails(r) \/ Ack(r) \/ AckLost(r)
       PROVE  KeyOf(q)' = KeyOf(q) /\ pc[q] = "expire"
  <2>1. Return(r)
    BY <1>10 DEF PublishFails, Ack, AckLost
  <2>2. q # r
    BY <2>1, ReturnFacts
  <2> QED
    BY <1>1, <2>1, <2>2, ReturnFacts
<1> QED
  BY <1>2, <1>3, <1>4, <1>5, <1>6, <1>7, <1>8, <1>9, <1>10, StepKinds

\* What CounterInv says of the counter of one key.
Counts(k) ==
    /\ \A r \in Replicas : pc[r] = "expire" /\ KeyOf(r) = k => count[k] > 0 /\ ~ttl[k]
    /\ \A q, r \in Replicas :
            pc[q] = "expire" /\ pc[r] = "expire" /\ KeyOf(q) = k /\ KeyOf(r) = k => q = r
    /\ ttl[k] => count[k] > 0
    /\ count[k] = 0 <=> seen[k] = {}

LEMMA CounterByKey == HandlerInv => (CounterInv <=> \A k \in Keys : Counts(k))
  BY DEF HandlerInv, CounterInv, Counts

LEMMA CounterStep == TypeOK /\ HandlerInv /\ CounterInv /\ [Next]_vars => CounterInv'
<1> SUFFICES ASSUME TypeOK, HandlerInv, CounterInv, [Next]_vars PROVE CounterInv'
  OBVIOUS
<1>1. \A k \in Keys : Counts(k)
  BY CounterByKey
<1>2. HandlerInv' /\ Keys' = Keys
  BY HandlerStep DEF Keys
<1> SUFFICES ASSUME NEW k \in Keys PROVE Counts(k)'
  BY <1>2 DEF HandlerInv, CounterInv, Counts
<1>3. Counts(k) /\ count[k] \in Nat
  BY <1>1 DEF TypeOK
<1>4. \A q \in Replicas :
        pc'[q] = "expire" =>
            /\ KeyOf(q)' = KeyOf(q)
            /\ pc[q] = "expire" \/ (Incr(q) /\ First(count[KeyOf(q)] + 1))
  BY ExpireIsNext
\* Nothing happens to the counter.
<1>5. ASSUME count'[k] = count[k], ttl'[k] = ttl[k], seen'[k] = seen[k],
             \A q \in Replicas : pc'[q] = "expire" /\ KeyOf(q)' = k => pc[q] = "expire"
      PROVE  Counts(k)'
  BY <1>3, <1>4, <1>5 DEF Counts
<1>6. ASSUME UNCHANGED redis, UNCHANGED pc PROVE Counts(k)'
  BY <1>5, <1>6 DEF redis
\* It counts, and nobody comes before EXPIRE by it.
<1>7. ASSUME NEW r \in Replicas, KeyOf(r) = k, Velocity(r), Increment(r),
             \A q \in Replicas : pc'[q] = "expire" /\ KeyOf(q)' = k => pc[q] = "expire"
      PROVE  Counts(k)'
  <2>1. /\ ttl' = ttl /\ count'[k] = count[k] + 1 /\ seen'[k] = seen[k] \cup {msg[r]}
    BY <1>7, IncrementFacts
  <2> QED
    BY <1>3, <1>4, <1>7, <2>1 DEF Counts
<1>8. CASE UNCHANGED vars
  BY <1>6, <1>8 DEF vars, handler
<1>9. ASSUME NEW p \in Payments, AckWaitExpires(p) PROVE Counts(k)'
  BY <1>6, <1>9 DEF AckWaitExpires, handler
<1>10. ASSUME NEW l \in Keys, WindowEnds(l) PROVE Counts(k)'
  <2>1. pc' = pc
    BY <1>10, WindowFacts
  <2>2. CASE k # l
    BY <1>5, <1>10, <2>1, <2>2, WindowFacts
  <2>3. CASE k = l
    <3>1. count'[k] = 0 /\ ttl[k] /\ ~ttl'[k] /\ seen'[k] = {}
      BY <1>10, <2>3, WindowFacts
    <3>2. \A q \in Replicas : ~ (pc'[q] = "expire" /\ KeyOf(q)' = k)
      BY <1>3, <1>4, <2>1, <3>1 DEF Counts
    <3> QED
      BY <3>1, <3>2 DEF Counts
  <2> QED
    BY <2>2, <2>3
<1>11. ASSUME NEW r \in Replicas, NEW p \in Payments, Take(r, p) PROVE Counts(k)'
  <2>1. \A q \in Replicas : pc'[q] = "expire" => pc[q] = "expire"
    BY <1>11, TakeFacts
  <2> QED
    BY <1>5, <1>11, <2>1, TakeFacts
<1>12. ASSUME NEW r \in Replicas, Results(r) PROVE Counts(k)'
  <2>1. PICK triggered \in BOOLEAN : RuleResult(r, triggered)
    BY <1>12, ResultsFacts
  <2>2. pc[r] \in {"rules", "expire"}
    BY <1>12, ResultsFacts
  <2>3. /\ pc'[r] # "expire" /\ \A q \in Replicas \ {r} : pc'[q] = pc[q]
    BY <2>1, <2>2, ResultFacts
  <2>4. \A q \in Replicas : pc'[q] = "expire" => pc[q] = "expire" /\ q # r
    BY <2>3
  <2>5. CASE UNCHANGED redis
    BY <1>5, <2>4, <2>5 DEF redis
  <2>6. CASE Velocity(r) /\ Increment(r)
    <3>1. CASE KeyOf(r) = k
      BY <1>7, <2>4, <2>6, <3>1
    <3>2. CASE KeyOf(r) # k
      <4>1. count'[k] = count[k] /\ ttl' = ttl /\ seen'[k] = seen[k]
        BY <2>6, <3>2, IncrementFacts
      <4> QED
        BY <1>5, <2>4, <4>1
    <3> QED
      BY <3>1, <3>2
  <2>7. CASE /\ pc[r] = "expire" /\ UNCHANGED <<count, seen>>
             /\ ttl' = [ttl EXCEPT ![KeyOf(r)] = TRUE] \/ ttl' = ttl
    <3>1. CASE ttl'[k] = ttl[k]
      BY <1>5, <2>4, <2>7, <3>1
    <3>2. CASE ttl'[k] # ttl[k]
      <4>1. KeyOf(r) = k /\ ttl'[k]
        BY <2>7, <3>2 DEF TypeOK
      <4>2. count[k] > 0 /\ \A q \in Replicas : pc[q] = "expire" /\ KeyOf(q) = k => q = r
        BY <1>3, <2>7, <4>1 DEF Counts
      <4>3. \A q \in Replicas : ~ (pc'[q] = "expire" /\ KeyOf(q)' = k)
        BY <1>4, <2>4, <4>2
      <4> QED
        BY <1>3, <2>7, <4>1, <4>2, <4>3 DEF Counts
    <3> QED
      BY <3>1, <3>2
  <2> QED
    BY <1>12, <2>5, <2>6, <2>7, ResultsRedis
<1>13. ASSUME NEW r \in Replicas, Incr(r), First(count[KeyOf(r)] + 1) PROVE Counts(k)'
  <2>1. /\ Velocity(r) /\ Increment(r) /\ pc' = [pc EXCEPT ![r] = "expire"]
    BY <1>13 DEF Incr
  <2>2. /\ KeyOf(r) \in Keys /\ ttl' = ttl /\ count'[KeyOf(r)] = count[KeyOf(r)] + 1
        /\ seen'[KeyOf(r)] = seen[KeyOf(r)] \cup {msg[r]}
        /\ \A l \in Keys \ {KeyOf(r)} : count'[l] = count[l] /\ seen'[l] = seen[l]
    BY <2>1, IncrementFacts
  <2>3. \A q \in Replicas \ {r} : pc'[q] = pc[q]
    BY <2>1 DEF TypeOK
  <2>4. pc'[r] = "expire"
    BY <2>1 DEF TypeOK
  <2>5. KeyOf(r)' = KeyOf(r)
    BY <1>4, <2>4
  <2>6. CASE KeyOf(r) # k
    BY <1>5, <2>2, <2>3, <2>5, <2>6
  <2>7. CASE KeyOf(r) = k
    <3>1. count[k] = 0
      BY <1>3, <1>13, <2>7 DEF First
    <3>2. ~ttl[k] /\ \A q \in Replicas : ~ (pc[q] = "expire" /\ KeyOf(q) = k)
      BY <1>3, <3>1 DEF Counts
    <3>3. \A q \in Replicas : pc'[q] = "expire" /\ KeyOf(q)' = k => q = r
      BY <1>4, <2>3, <3>2
    <3> QED
      BY <2>2, <2>7, <3>1, <3>2, <3>3 DEF Counts
  <2> QED
    BY <2>6, <2>7
<1>14. ASSUME NEW r \in Replicas, IncrRepeated(r) PROVE Counts(k)'
  <2>1. Velocity(r) /\ Increment(r) /\ pc' = pc
    BY <1>14 DEF IncrRepeated, handler
  <2>2. CASE KeyOf(r) = k
    BY <1>7, <2>1, <2>2
  <2>3. CASE KeyOf(r) # k
    <3>1. count'[k] = count[k] /\ ttl' = ttl /\ seen'[k] = seen[k]
      BY <2>1, <2>3, IncrementFacts
    <3> QED
      BY <1>5, <2>1, <3>1
  <2> QED
    BY <2>2, <2>3
<1>15. ASSUME NEW r \in Replicas, Publish(r) PROVE Counts(k)'
  <2>1. pc' = [pc EXCEPT ![r] = "ack"] /\ UNCHANGED redis
    BY <1>15 DEF Publish
  <2>2. \A q \in Replicas : pc'[q] = "expire" => pc[q] = "expire"
    BY <2>1 DEF TypeOK
  <2> QED
    BY <1>5, <2>1, <2>2 DEF redis
<1>16. ASSUME NEW r \in Replicas, PublishFails(r) \/ Ack(r) \/ AckLost(r) PROVE Counts(k)'
  <2>1. Return(r)
    BY <1>16 DEF PublishFails, Ack, AckLost
  <2>2. \A q \in Replicas : pc'[q] = "expire" => pc[q] = "expire"
    BY <2>1, ReturnFacts
  <2> QED
    BY <1>5, <2>1, <2>2, ReturnFacts
<1> QED
  BY <1>8, <1>9, <1>10, <1>11, <1>12, <1>13, <1>14, <1>15, <1>16, StepKinds

------------------------------------------------------------------------------
(* Faults pay for deliveries.                                               *)

\* The deliveries are finitely many.
LEMMA DeliveriesFinite ==
  ASSUME NEW S, S \subseteq Payments \X (1 .. MaxDeliver)
  PROVE  IsFiniteSet(S) /\ Cardinality(S) \in Nat
<1>1. IsFiniteSet(Payments) /\ IsFiniteSet(1 .. MaxDeliver)
  BY RiskConstants, FS_Interval
<1>2. IsFiniteSet(Payments \X (1 .. MaxDeliver))
  BY <1>1, FS_Product
<1> QED
  BY <1>2, NoMore

\* A fault that gives one message back makes one extra delivery at most.
LEMMA GivenBack ==
  ASSUME TypeOK, NEW p \in Payments, attempts' = attempts, stream' \subseteq stream,
         outstanding \ {p} \subseteq outstanding'
  PROVE  Extra' \subseteq Extra \cup {<<p, attempts[p]>>}
<1> SUFFICES ASSUME NEW d \in Extra' PROVE d \in Extra \cup {<<p, attempts[p]>>}
  OBVIOUS
<1>1. /\ d \in Payments \X (1 .. MaxDeliver) /\ d[2] < attempts[d[1]] + Deliverable(d[1])'
  BY DEF Extra
<1>2. PICK o \in Payments, n \in 1 .. MaxDeliver : d = <<o, n>>
  BY <1>1
<1>3. n < attempts[o] + Deliverable(o)' /\ attempts[o] \in Nat
  BY <1>1, <1>2, RiskConstants DEF TypeOK
<1>4. CASE o # p
  <2>1. Deliverable(o)' = 1 => Deliverable(o) = 1
    BY <1>4 DEF Deliverable
  <2>2. n < attempts[o] + Deliverable(o)
    BY <1>3, <2>1 DEF Deliverable
  <2> QED
    BY <1>2, <2>2 DEF Extra
<1>5. CASE o = p
  <2>1. n <= attempts[p]
    BY <1>3, <1>5 DEF Deliverable
  <2>2. n < attempts[p] => d \in Extra
    BY <1>2, <1>3, <1>5 DEF Extra, Deliverable
  <2> QED
    BY <1>2, <1>3, <1>5, <2>1, <2>2
<1> QED
  BY <1>4, <1>5

\* Faults to spare: those that have not paid for a delivery. A step never takes
\* one away, and a fault that leaves JetStream alone adds one.
Spare == faults - Cardinality(Extra)

LEMMA SpareStep ==
  ASSUME TypeOK, HandlerInv, [Next]_vars
  PROVE  /\ Spare \in Int /\ Spare' \in Int
         /\ Spare <= Spare'
         /\ Fault /\ UNCHANGED jetStream => Spare' = Spare + 1
<1>0. /\ IsFiniteSet(Extra) /\ Cardinality(Extra) \in Nat
      /\ IsFiniteSet(Extra') /\ Cardinality(Extra') \in Nat
  <2>1. Extra \subseteq Payments \X (1 .. MaxDeliver)
    BY DEF Extra
  <2>2. Extra' \subseteq Payments \X (1 .. MaxDeliver)
    BY DEF Extra
  <2> QED
    BY <2>1, <2>2, DeliveriesFinite
<1>1. TypeOK' /\ faults \in Nat /\ faults' \in Nat
  BY TypeStep, RiskConstants DEF TypeOK
<1> USE <1>0, <1>1
<1>2. Fault => faults' = faults + 1
  BY DEF Fault
<1>3. Spare \in Int /\ Spare' \in Int
  BY DEF Spare
<1>4. ASSUME UNCHANGED jetStream PROVE Extra' = Extra
  BY <1>4 DEF jetStream, Extra, Deliverable
<1>5. ASSUME UNCHANGED jetStream, faults' = faults \/ Fault PROVE Spare <= Spare'
  BY <1>2, <1>4, <1>5 DEF Spare
<1>6. Fault /\ UNCHANGED jetStream => Spare' = Spare + 1
  BY <1>2, <1>4 DEF Spare
<1>7. ASSUME NEW p \in Payments, Fault, attempts' = attempts, stream' \subseteq stream,
             outstanding \ {p} \subseteq outstanding'
      PROVE  Spare <= Spare'
  <2>1. Extra' \subseteq Extra \cup {<<p, attempts[p]>>}
    BY <1>7, GivenBack
  <2>2. Cardinality(Extra') <= Cardinality(Extra) + 1
    BY <2>1, OneMore
  <2> QED
    BY <1>2, <1>7, <2>2 DEF Spare
<1>8. Spare <= Spare'
  <2>1. CASE UNCHANGED vars
    BY <1>5, <2>1 DEF vars
  <2>2. ASSUME NEW p \in Payments, AckWaitExpires(p) PROVE Spare <= Spare'
    BY <1>7, <2>2 DEF AckWaitExpires
  <2>3. ASSUME NEW k \in Keys, WindowEnds(k) PROVE Spare <= Spare'
    BY <1>5, <2>3 DEF WindowEnds
  <2>4. ASSUME NEW r \in Replicas, NEW p \in Payments, Take(r, p) PROVE Spare <= Spare'
    <3>1. /\ stream' = stream /\ faults' = faults /\ attempts'[p] = attempts[p] + 1
          /\ \A o \in Payments \ {p} : attempts'[o] = attempts[o]
          /\ p \in stream \ outstanding /\ outstanding' = outstanding \cup {p}
      BY <2>4, TakeFacts
    <3>2. \A o \in Payments : attempts[o] \in Nat
      BY RiskConstants DEF TypeOK
    <3>3. \A o \in Payments :
            attempts'[o] + Deliverable(o)' = attempts[o] + Deliverable(o)
      BY <3>1, <3>2 DEF Deliverable
    <3>4. Extra' = Extra
      BY <3>3 DEF Extra
    <3> QED
      BY <3>1, <3>4 DEF Spare
  <2>5. ASSUME NEW r \in Replicas, Results(r) PROVE Spare <= Spare'
    <3>1. \E triggered \in BOOLEAN : RuleResult(r, triggered)
      BY <2>5, ResultsFacts
    <3>2. faults' = faults \/ Fault
      BY <2>5, ResultsRedis
    <3> QED
      BY <1>5, <3>1, <3>2 DEF RuleResult
  <2>6. ASSUME NEW r \in Replicas, Incr(r), First(count[KeyOf(r)] + 1) PROVE Spare <= Spare'
    BY <1>5, <2>6 DEF Incr
  <2>7. ASSUME NEW r \in Replicas, IncrRepeated(r) PROVE Spare <= Spare'
    BY <1>5, <2>7 DEF IncrRepeated
  <2>8. ASSUME NEW r \in Replicas, Publish(r) PROVE Spare <= Spare'
    BY <1>5, <2>8 DEF Publish
  <2>9. ASSUME NEW r \in Replicas, PublishFails(r) PROVE Spare <= Spare'
    <3>1. msg[r] \in Payments
      BY <2>9, VerdictFacts DEF PublishFails
    <3> QED
      BY <1>7, <2>9, <3>1 DEF PublishFails, Return
  <2>10. ASSUME NEW r \in Replicas, Ack(r) PROVE Spare <= Spare'
    <3>1. /\ attempts' = attempts /\ faults' = faults /\ stream' = stream \ {msg[r]}
          /\ outstanding' = outstanding \ {msg[r]}
      BY <2>10 DEF Ack, Return
    <3>2. \A o \in Payments : Deliverable(o)' <= Deliverable(o)
      BY <3>1 DEF Deliverable
    <3>3. Extra' \subseteq Extra
      <4>1. \A o \in Payments : attempts[o] \in Nat /\ Deliverable(o) \in Nat /\ Deliverable(o)' \in Nat
        BY RiskConstants DEF TypeOK, Deliverable
      <4> QED
        BY <3>1, <3>2, <4>1 DEF Extra
    <3>4. Cardinality(Extra') <= Cardinality(Extra)
      BY <3>3, NoMore
    <3> QED
      BY <3>1, <3>4 DEF Spare
  <2>11. ASSUME NEW r \in Replicas, AckLost(r) PROVE Spare <= Spare'
    <3>1. msg[r] \in Payments
      BY <2>11, VerdictFacts DEF AckLost
    <3> QED
      BY <1>7, <2>11, <3>1 DEF AckLost, Return
  <2> QED
    BY <2>1, <2>2, <2>3, <2>4, <2>5, <2>6, <2>7, <2>8, <2>9, <2>10, <2>11, StepKinds
<1> QED
  BY <1>3, <1>6, <1>8

\* A replica handles a message only after a delivery of its own.
LEMMA HandlingStep ==
  ASSUME TypeOK, HandlerInv, DeliveryInv, [Next]_vars, NEW p \in Payments
  PROVE  Cardinality(Handling(p))' <= attempts'[p]
<1>1. /\ IsFiniteSet(Handling(p)) /\ Cardinality(Handling(p)) \in Nat
      /\ Cardinality(Handling(p)) <= attempts[p] /\ attempts[p] \in Nat
  <2>1. IsFiniteSet(Replicas) /\ Handling(p) \subseteq Replicas
    BY RiskConstants DEF Handling
  <2>2. IsFiniteSet(Handling(p)) /\ Cardinality(Handling(p)) \in Nat
    BY <2>1, NoMore
  <2> QED
    BY <2>2, RiskConstants DEF DeliveryInv, TypeOK
<1>2. ASSUME attempts'[p] = attempts[p],
             \A q \in Replicas : msg'[q] = msg[q] \/ msg'[q] # p
      PROVE  Cardinality(Handling(p))' <= attempts'[p]
  <2>1. Handling(p)' \subseteq Handling(p)
    BY <1>2 DEF Handling
  <2>2. Cardinality(Handling(p)') \in Nat /\ Cardinality(Handling(p)') <= Cardinality(Handling(p))
    BY <1>1, <2>1, NoMore
  <2> QED
    BY <1>1, <1>2, <2>2
<1>3. CASE UNCHANGED vars
  BY <1>2, <1>3 DEF vars, jetStream, handler
<1>4. ASSUME NEW o \in Payments, AckWaitExpires(o)
      PROVE  Cardinality(Handling(p))' <= attempts'[p]
  BY <1>2, <1>4 DEF AckWaitExpires, handler
<1>5. ASSUME NEW k \in Keys, WindowEnds(k) PROVE Cardinality(Handling(p))' <= attempts'[p]
  BY <1>2, <1>5, WindowFacts
<1>6. ASSUME NEW r \in Replicas, NEW o \in Payments, Take(r, o)
      PROVE  Cardinality(Handling(p))' <= attempts'[p]
  <2>1. /\ attempts'[o] = attempts[o] + 1 /\ msg'[r] = o
        /\ \A x \in Payments \ {o} : attempts'[x] = attempts[x]
        /\ \A q \in Replicas \ {r} : msg'[q] = msg[q]
    BY <1>6, TakeFacts
  <2>2. CASE p # o
    BY <1>2, <2>1, <2>2
  <2>3. CASE p = o
    <3>1. Handling(p)' \subseteq Handling(p) \cup {r}
      BY <2>1 DEF Handling
    <3>2. /\ Cardinality(Handling(p)') \in Nat
          /\ Cardinality(Handling(p)') <= Cardinality(Handling(p)) + 1
      BY <1>1, <3>1, OneMore
    <3> QED
      BY <1>1, <2>1, <2>3, <3>2
  <2> QED
    BY <2>2, <2>3
<1>7. ASSUME NEW r \in Replicas, Results(r) PROVE Cardinality(Handling(p))' <= attempts'[p]
  <2>1. \E triggered \in BOOLEAN : RuleResult(r, triggered)
    BY <1>7, ResultsFacts
  <2> QED
    BY <1>2, <2>1 DEF RuleResult, jetStream
<1>8. ASSUME NEW r \in Replicas, Incr(r), First(count[KeyOf(r)] + 1)
      PROVE  Cardinality(Handling(p))' <= attempts'[p]
  BY <1>2, <1>8 DEF Incr, jetStream
<1>9. ASSUME NEW r \in Replicas, IncrRepeated(r)
      PROVE  Cardinality(Handling(p))' <= attempts'[p]
  BY <1>2, <1>9 DEF IncrRepeated, jetStream, handler
<1>10. ASSUME NEW r \in Replicas, Publish(r) PROVE Cardinality(Handling(p))' <= attempts'[p]
  BY <1>2, <1>10 DEF Publish, jetStream
<1>11. ASSUME NEW r \in Replicas, PublishFails(r) \/ Ack(r) \/ AckLost(r)
       PROVE  Cardinality(Handling(p))' <= attempts'[p]
  <2>1. Return(r)
    BY <1>11 DEF PublishFails, Ack, AckLost
  <2>2. attempts' = attempts /\ \A q \in Replicas : msg'[q] = msg[q] \/ msg'[q] = None
    BY <2>1, ReturnFacts
  <2> QED
    BY <1>2, <2>2, RiskConstants
<1> QED
  BY <1>3, <1>4, <1>5, <1>6, <1>7, <1>8, <1>9, <1>10, <1>11, StepKinds

LEMMA DeliveryStep ==
  TypeOK /\ HandlerInv /\ DeliveryInv /\ [Next]_vars => DeliveryInv'
<1> SUFFICES ASSUME TypeOK, HandlerInv, DeliveryInv, [Next]_vars PROVE DeliveryInv'
  OBVIOUS
<1>1. /\ Extra \subseteq Payments \X (1 .. MaxDeliver)
      /\ Extra' \subseteq Payments \X (1 .. MaxDeliver)
  BY DEF Extra
<1>2. Cardinality(Extra) \in Nat /\ Cardinality(Extra') \in Nat
  BY <1>1, DeliveriesFinite
<1>3. faults \in Nat /\ faults' \in Nat
  BY TypeStep, RiskConstants DEF TypeOK
<1>4. Cardinality(Extra') <= faults'
  BY <1>2, <1>3, SpareStep DEF Spare, DeliveryInv
<1>5. \A p \in Payments : Cardinality(Handling(p))' <= attempts'[p]
  BY HandlingStep
<1> QED
  BY <1>4, <1>5 DEF DeliveryInv

------------------------------------------------------------------------------
(* A counter stays within the deliveries of what it has seen.                *)

\* What a rule's result leaves to count: not the rule at hand.
LEMMA UncountedAfterResult ==
  ASSUME TypeOK, HandlerInv, NEW r \in Replicas, pc[r] \in {"rules", "expire"},
         NEW triggered \in BOOLEAN, RuleResult(r, triggered)
  PROVE  /\ Uncounted(r)' \subseteq Uncounted(r) /\ next[r] \notin Uncounted(r)'
         /\ \A q \in Replicas \ {r} : Uncounted(q)' = Uncounted(q)
<1>1. /\ rules' = rules /\ next'[r] = next[r] + 1
      /\ pc'[r] = IF next[r] = Len(rules) THEN "publish" ELSE "rules"
      /\ \A q \in Replicas \ {r} : pc'[q] = pc[q] /\ next'[q] = next[q]
  BY ResultFacts
<1>2. next[r] \in 1 .. Len(rules) /\ Len(rules) \in Nat
  BY RuleFacts DEF TypeOK
<1>3. \A q \in Replicas \ {r} : Uncounted(q)' = Uncounted(q)
  BY <1>1 DEF Uncounted
<1>4. Uncounted(r)' \subseteq next[r] + 1 .. Len(rules)
  BY <1>1, <1>2 DEF Uncounted
<1>5. next[r] + 1 .. Len(rules) \subseteq Uncounted(r)
  BY <1>2 DEF Uncounted
<1> QED
  BY <1>2, <1>3, <1>4, <1>5

\* The amounts are amounts.
LEMMA TrafficTypes ==
  ASSUME TypeOK, NEW k \in Keys
  PROVE  /\ IsFiniteSet(ReadingRules(k)) /\ Readers(k) \in Nat
         /\ IsFiniteSet(Passes(k)) /\ Cardinality(Passes(k)) \in Nat
         /\ IsFiniteSet(Ahead(k)) /\ Cardinality(Ahead(k)) \in Nat
         /\ count[k] \in Nat /\ Cardinality(Extra) \in Nat /\ faults \in Nat
<1>1. IsFiniteSet(1 .. Len(rules)) /\ ReadingRules(k) \subseteq 1 .. Len(rules)
  <2>1. rules \in Seq(SimpleRules \cup VelocityRules)
    BY DEF TypeOK
  <2>2. Len(rules) \in Nat /\ DOMAIN rules = 1 .. Len(rules)
    BY <2>1
  <2> QED
    BY <2>2, FS_Interval DEF ReadingRules
<1>2. IsFiniteSet(ReadingRules(k)) /\ Readers(k) \in Nat
  BY <1>1, NoMore DEF Readers
<1>3. IsFiniteSet(Passes(k)) /\ Cardinality(Passes(k)) \in Nat
  <2>1. Passes(k) \subseteq Payments \X (1 .. MaxDeliver)
    BY DEF Passes
  <2> QED
    BY <2>1, DeliveriesFinite
<1>4. IsFiniteSet(Ahead(k)) /\ Cardinality(Ahead(k)) \in Nat
  <2>1. Ahead(k) \subseteq Replicas \X ReadingRules(k)
    BY DEF Ahead
  <2>2. IsFiniteSet(Replicas \X ReadingRules(k))
    BY <1>2, RiskConstants, FS_Product
  <2> QED
    BY <2>1, <2>2, NoMore
<1>5. Cardinality(Extra) \in Nat
  <2>1. Extra \subseteq Payments \X (1 .. MaxDeliver)
    BY DEF Extra
  <2> QED
    BY <2>1, DeliveriesFinite
<1>6. count[k] \in Nat /\ faults \in Nat
  BY RiskConstants DEF TypeOK
<1> QED
  BY <1>2, <1>3, <1>4, <1>5, <1>6

\* TrafficInv of one counter.
Traffic(k) ==
    count[k] + Cardinality(Ahead(k)) <= Readers(k) * (Cardinality(Passes(k)) + Spare)

\* A step that does not count keeps within the same deliveries.
LEMMA QuietStep ==
  ASSUME TypeOK, TypeOK', DeliveryInv, NEW k \in Keys, Traffic(k), rules' = rules,
         count'[k] = count[k], seen'[k] = seen[k], attempts' = attempts,
         \A q \in Replicas : \/ msg'[q] = None
                             \/ msg'[q] = msg[q] /\ Uncounted(q)' \subseteq Uncounted(q),
         Spare \in Int, Spare' \in Int, Spare <= Spare'
  PROVE  Traffic(k)'
<1>1. None \notin seen[k]
  BY RiskConstants DEF TypeOK
<1>2. ReadingRules(k)' = ReadingRules(k) /\ Readers(k)' = Readers(k)
  BY DEF ReadingRules, Readers
<1>3. Passes(k)' = Passes(k)
  BY DEF Passes
<1>4. Ahead(k)' \subseteq Ahead(k)
  BY <1>1, <1>2 DEF Ahead
<1>5. /\ Readers(k) \in Nat /\ IsFiniteSet(Ahead(k)) /\ Cardinality(Ahead(k)) \in Nat
      /\ Cardinality(Passes(k)) \in Nat /\ count[k] \in Nat
  BY TrafficTypes
<1>6. Cardinality(Ahead(k)') \in Nat /\ Cardinality(Ahead(k)') <= Cardinality(Ahead(k))
  BY <1>4, <1>5, NoMore
<1>7. Spare \in Nat /\ Spare' \in Nat
  BY TrafficTypes DEF DeliveryInv, Spare
<1>8. Readers(k) * (Cardinality(Passes(k)) + Spare)
        <= Readers(k) * (Cardinality(Passes(k)) + Spare')
  BY <1>5, <1>7, Times
<1>9. /\ Readers(k) * (Cardinality(Passes(k)) + Spare) \in Nat
      /\ Readers(k) * (Cardinality(Passes(k)) + Spare') \in Nat
  BY <1>5, <1>7, Times
<1>10. count[k] + Cardinality(Ahead(k)) <= Readers(k) * (Cardinality(Passes(k)) + Spare)
  BY DEF Traffic
<1>11. count'[k] + Cardinality(Ahead(k)') <= Readers(k) * (Cardinality(Passes(k)) + Spare')
  BY <1>5, <1>6, <1>8, <1>9, <1>10
<1> QED
  BY <1>2, <1>3, <1>11 DEF Traffic

\* The deliveries of a payment and the work of those that handle it, where the
\* counter has not seen it before.
LEMMA FirstSeen ==
  ASSUME TypeOK, TypeOK', DeliveryInv, NEW k \in Keys, NEW p \in Payments,
         rules' = rules, msg' = msg, attempts' = attempts,
         p \notin seen[k], seen'[k] = seen[k] \cup {p},
         \A q \in Replicas : Uncounted(q)' \subseteq Uncounted(q)
  PROVE  /\ attempts[p] \in Nat
         /\ Cardinality(Passes(k))' = Cardinality(Passes(k)) + attempts[p]
         /\ Ahead(k)' \subseteq Ahead(k) \cup (Handling(p) \X ReadingRules(k))
         /\ IsFiniteSet(Handling(p) \X ReadingRules(k))
         /\ Cardinality(Handling(p) \X ReadingRules(k)) \in Nat
         /\ Cardinality(Handling(p) \X ReadingRules(k)) <= Readers(k) * attempts[p]
<1>1. attempts[p] \in Nat /\ attempts[p] <= MaxDeliver
  BY RiskConstants DEF TypeOK
<1>2. Cardinality(Passes(k))' = Cardinality(Passes(k)) + attempts[p]
  <2> DEFINE new == {p} \X (1 .. attempts[p])
  <2>1. Passes(k)' = Passes(k) \cup new
    <3>1. ASSUME NEW d \in Passes(k)' PROVE d \in Passes(k) \cup new
      BY DEF Passes
    <3>2. ASSUME NEW d \in Passes(k) PROVE d \in Passes(k)'
      BY DEF Passes
    <3>3. ASSUME NEW d \in new PROVE d \in Passes(k)'
      <4>1. d \in Payments \X (1 .. MaxDeliver) /\ d[1] = p /\ d[2] <= attempts[p]
        BY <1>1, RiskConstants
      <4> QED
        BY <4>1 DEF Passes
    <3> QED
      BY <3>1, <3>2, <3>3
  <2>2. Passes(k) \cap new = {}
    BY DEF Passes
  <2>3. IsFiniteSet(new) /\ Cardinality(new) = attempts[p]
    <3>1. /\ IsFiniteSet({p}) /\ Cardinality({p}) = 1
          /\ IsFiniteSet(1 .. attempts[p]) /\ Cardinality(1 .. attempts[p]) = attempts[p]
      <4>1. IsFiniteSet({p}) /\ Cardinality({p}) = 1
        BY FS_Singleton
      <4>2. IsFiniteSet(1 .. attempts[p]) /\ Cardinality(1 .. attempts[p]) = attempts[p]
        BY <1>1, FS_Interval
      <4> QED
        BY <4>1, <4>2
    <3>2. IsFiniteSet(new) /\ Cardinality(new) = 1 * attempts[p]
      BY <3>1, FS_Product
    <3> QED
      BY <1>1, <3>2
  <2>4. IsFiniteSet(Passes(k))
    BY TrafficTypes
  <2> HIDE DEF new
  <2> QED
    BY <2>1, <2>2, <2>3, <2>4, Together
<1>3. Ahead(k)' \subseteq Ahead(k) \cup (Handling(p) \X ReadingRules(k))
  <2>1. ReadingRules(k)' = ReadingRules(k)
    BY DEF ReadingRules
  <2> SUFFICES ASSUME NEW w \in Ahead(k)'
               PROVE  w \in Ahead(k) \cup (Handling(p) \X ReadingRules(k))
    OBVIOUS
  <2>2. /\ w \in Replicas \X ReadingRules(k) /\ msg[w[1]] \in seen[k] \cup {p}
        /\ w[2] \in Uncounted(w[1])
    BY <2>1 DEF Ahead
  <2> QED
    BY <2>2 DEF Ahead, Handling
<1>4. /\ IsFiniteSet(Handling(p)) /\ Cardinality(Handling(p)) \in Nat
      /\ Cardinality(Handling(p)) <= attempts[p]
  <2>1. IsFiniteSet(Replicas) /\ Handling(p) \subseteq Replicas
    BY RiskConstants DEF Handling
  <2> QED
    BY <2>1, NoMore DEF DeliveryInv
<1>5. /\ IsFiniteSet(ReadingRules(k)) /\ Readers(k) \in Nat
      /\ Cardinality(ReadingRules(k)) = Readers(k)
  BY TrafficTypes DEF Readers
<1>6. /\ IsFiniteSet(Handling(p) \X ReadingRules(k))
      /\ Cardinality(Handling(p) \X ReadingRules(k)) = Cardinality(Handling(p)) * Readers(k)
  BY <1>4, <1>5, FS_Product
<1>7. Cardinality(Handling(p)) * Readers(k) = Readers(k) * Cardinality(Handling(p))
  BY <1>4, <1>5
<1>8. /\ Readers(k) * Cardinality(Handling(p)) <= Readers(k) * attempts[p]
      /\ Readers(k) * Cardinality(Handling(p)) \in Nat
  BY <1>1, <1>4, <1>5, Times
<1> QED
  BY <1>1, <1>2, <1>3, <1>6, <1>7, <1>8

\* INCR by a velocity rule: either the replica is then past the rule, or the
\* fault that made the client send it again pays.
LEMMA CountingStep ==
  ASSUME TypeOK, TypeOK', HandlerInv, DeliveryInv, NEW r \in Replicas,
         Velocity(r), Increment(r), Traffic(KeyOf(r)),
         rules' = rules, msg' = msg, attempts' = attempts,
         \A q \in Replicas : Uncounted(q)' \subseteq Uncounted(q),
         Spare \in Int, Spare' \in Int, Spare <= Spare',
         next[r] \notin Uncounted(r)' \/ Spare' = Spare + 1,
         NEW k, k = KeyOf(r)
  PROVE  Traffic(k)'
<1> DEFINE p == msg[r]
           w == <<r, next[r]>>
           R == Readers(k)
           P == Cardinality(Passes(k))
           A == Cardinality(Ahead(k))
<1>1. /\ k \in Keys /\ p \in Payments /\ next[r] \in ReadingRules(k)
      /\ next[r] \in 1 .. Len(rules) /\ pc[r] = "rules"
  BY RuleFacts DEF Velocity
<1>2. count'[k] = count[k] + 1 /\ seen'[k] = seen[k] \cup {p}
  BY IncrementFacts
<1>3. /\ ReadingRules(k)' = ReadingRules(k) /\ Readers(k)' = R
  BY DEF ReadingRules, Readers
<1>4. /\ R \in Nat /\ IsFiniteSet(Ahead(k)) /\ A \in Nat
      /\ P \in Nat /\ count[k] \in Nat
  BY <1>1, TrafficTypes
<1>5. IsFiniteSet(ReadingRules(k)) /\ R # 0
  <2>1. IsFiniteSet(ReadingRules(k))
    BY <1>1, TrafficTypes
  <2> QED
    BY <1>1, <2>1, FS_EmptySet DEF Readers
<1>6. Spare \in Nat /\ Spare' \in Nat
  BY <1>1, TrafficTypes DEF DeliveryInv, Spare
<1>7. count[k] + A <= R * (P + Spare)
  BY <1>1 DEF Traffic
<1>8. w \in Handling(p) \X ReadingRules(k) /\ w[1] = r /\ w[2] = next[r]
  BY <1>1 DEF Handling
<1>9. next[r] \in Uncounted(r)
  BY <1>1 DEF Uncounted, TypeOK
<1>10. /\ R * (P + Spare) \in Nat /\ R * (P + Spare') \in Nat
       /\ R * (P + Spare) <= R * (P + Spare')
       /\ Spare' = Spare + 1 => R * (P + Spare') = R * (P + Spare) + R
  <2>1. /\ P + Spare \in Nat /\ P + Spare' \in Nat /\ P + Spare <= P + Spare'
    BY <1>4, <1>6
  <2>2. /\ R * (P + Spare) \in Nat /\ R * (P + Spare') \in Nat
        /\ R * (P + Spare) <= R * (P + Spare')
    BY <1>4, <2>1, Times
  <2>3. ASSUME Spare' = Spare + 1 PROVE R * (P + Spare') = R * (P + Spare) + R
    <3>1. R * ((P + Spare) + 1) = R * (P + Spare) + R * 1 /\ R * 1 = R
      BY <1>4, <2>1, Times
    <3>2. P + Spare' = (P + Spare) + 1
      BY <1>4, <1>6, <2>3
    <3> QED
      BY <3>1, <3>2
  <2> QED
    BY <2>2, <2>3
<1>11. CASE p \in seen[k]
  <2>1. seen'[k] = seen[k]
    BY <1>2, <1>11
  <2>2. Passes(k)' = Passes(k)
    BY <2>1 DEF Passes
  <2>3. Ahead(k)' \subseteq Ahead(k)
    BY <1>3, <2>1 DEF Ahead
  <2>4. /\ Cardinality(Ahead(k)') \in Nat /\ Cardinality(Ahead(k)') <= A
    BY <1>4, <2>3, NoMore
  <2>5. count'[k] + Cardinality(Ahead(k)') <= R * (P + Spare')
    <3>1. CASE next[r] \notin Uncounted(r)'
      <4>1. w \in Ahead(k)
        BY <1>1, <1>8, <1>9, <1>11 DEF Ahead
      <4>2. w \notin Ahead(k)'
        BY <1>8, <3>1 DEF Ahead
      <4>3. Ahead(k)' \subseteq Ahead(k) \ {w}
        BY <2>3, <4>2
      <4>4. /\ IsFiniteSet(Ahead(k) \ {w}) /\ Cardinality(Ahead(k) \ {w}) = A - 1
        BY <1>4, <4>1, FS_RemoveElement
      <4>5. Cardinality(Ahead(k)') <= A - 1
        BY <4>3, <4>4, NoMore
      <4> QED
        BY <1>2, <1>4, <1>7, <1>10, <2>4, <4>5
    <3>2. CASE Spare' = Spare + 1
      BY <1>2, <1>4, <1>5, <1>7, <1>10, <2>4, <3>2
    <3> QED
      BY <3>1, <3>2
  <2> QED
    BY <1>3, <2>2, <2>5 DEF Traffic
<1>12. CASE p \notin seen[k]
  <2> DEFINE W == Handling(p) \X ReadingRules(k)
             n == attempts[p]
  <2>1. /\ n \in Nat /\ Cardinality(Passes(k))' = P + n
        /\ Ahead(k)' \subseteq Ahead(k) \cup W
        /\ IsFiniteSet(W) /\ Cardinality(W) \in Nat /\ Cardinality(W) <= R * n
    BY <1>1, <1>2, <1>12, FirstSeen
  <2>2. R * n \in Nat /\ R * (P + n + Spare') = R * (P + Spare') + R * n
    <3>1. R * ((P + Spare') + n) = R * (P + Spare') + R * n
      <4>1. P + Spare' \in Nat
        BY <1>4, <1>6
      <4> HIDE DEF P, R, n
      <4> QED
        BY <1>4, <2>1, <4>1, Times
    <3>2. P + n + Spare' = (P + Spare') + n
      BY <1>4, <1>6, <2>1
    <3> QED
      BY <1>4, <2>1, <3>1, <3>2, Times
  <2>3. count'[k] + Cardinality(Ahead(k)') <= R * (P + n + Spare')
    <3>1. CASE next[r] \notin Uncounted(r)'
      <4>1. w \notin Ahead(k)'
        BY <1>8, <3>1 DEF Ahead
      <4>2. Ahead(k)' \subseteq Ahead(k) \cup (W \ {w})
        BY <2>1, <4>1
      <4>3. IsFiniteSet(W \ {w}) /\ Cardinality(W \ {w}) = Cardinality(W) - 1
        BY <1>8, <2>1, FS_RemoveElement
      <4> HIDE DEF W, w
      <4>4. /\ Cardinality(Ahead(k)') \in Nat
            /\ Cardinality(Ahead(k)') <= A + (Cardinality(W) - 1)
        BY <1>4, <4>2, <4>3, Together
      <4> HIDE DEF A, P, R, n
      <4> QED
        BY <1>2, <1>4, <1>7, <1>10, <2>1, <2>2, <4>4
    <3>2. CASE Spare' = Spare + 1
      <4> HIDE DEF W
      <4>1. /\ Cardinality(Ahead(k)') \in Nat
            /\ Cardinality(Ahead(k)') <= A + Cardinality(W)
        BY <1>4, <2>1, Together
      <4> HIDE DEF A, P, R, n
      <4> QED
        BY <1>2, <1>4, <1>5, <1>7, <1>10, <2>1, <2>2, <3>2, <4>1
    <3> QED
      BY <3>1, <3>2
  <2> QED
    BY <1>3, <2>1, <2>3 DEF Traffic
<1> QED
  BY <1>11, <1>12

\* A delivery brings as many counts as there are rules that read the counter.
LEMMA TakeStep ==
  ASSUME TypeOK, TypeOK', HandlerInv, DeliveryInv, NEW k \in Keys, Traffic(k),
         NEW r \in Replicas, NEW p \in Payments, Take(r, p),
         Spare \in Int, Spare' \in Int, Spare <= Spare'
  PROVE  Traffic(k)'
<1> DEFINE R == Readers(k)
           P == Cardinality(Passes(k))
           A == Cardinality(Ahead(k))
<1>1. /\ rules' = rules /\ count'[k] = count[k] /\ seen'[k] = seen[k]
      /\ attempts[p] < MaxDeliver /\ attempts'[p] = attempts[p] + 1
      /\ \A o \in Payments \ {p} : attempts'[o] = attempts[o]
      /\ msg'[r] = p
      /\ \A q \in Replicas \ {r} : /\ pc'[q] = pc[q] /\ msg'[q] = msg[q]
                                   /\ next'[q] = next[q]
  BY TakeFacts
<1>2. ReadingRules(k)' = ReadingRules(k) /\ Readers(k)' = R
  BY <1>1 DEF ReadingRules, Readers
<1>3. /\ R \in Nat /\ R = Cardinality(ReadingRules(k)) /\ IsFiniteSet(ReadingRules(k))
      /\ IsFiniteSet(Ahead(k)) /\ A \in Nat
      /\ IsFiniteSet(Passes(k)) /\ P \in Nat /\ count[k] \in Nat
  BY TrafficTypes DEF Readers
<1>4. Spare \in Nat /\ Spare' \in Nat
  BY TrafficTypes DEF DeliveryInv, Spare
<1>5. count[k] + A <= R * (P + Spare)
  BY DEF Traffic
<1>6. \A q \in Replicas \ {r} : Uncounted(q)' = Uncounted(q)
  BY <1>1 DEF Uncounted
<1>7. attempts[p] \in Nat /\ \A o \in Payments : attempts[o] \in Nat
  BY RiskConstants DEF TypeOK
<1>8. P + Spare \in Nat /\ P + Spare' \in Nat /\ P + Spare <= P + Spare'
  BY <1>3, <1>4
<1>9. /\ R * (P + Spare) \in Nat /\ R * (P + Spare') \in Nat
      /\ R * (P + Spare) <= R * (P + Spare')
      /\ R * ((P + Spare') + 1) = R * (P + Spare') + R
  <2> HIDE DEF R, P
  <2>1. R * ((P + Spare') + 1) = R * (P + Spare') + R * 1 /\ R * 1 = R
    BY <1>3, <1>8, Times
  <2> QED
    BY <1>3, <1>8, <2>1, Times
<1>10. CASE p \notin seen[k]
  <2>1. Passes(k)' = Passes(k)
    <3>1. \A d \in Payments \X (1 .. MaxDeliver) :
            d[1] \in seen[k] => attempts'[d[1]] = attempts[d[1]]
      BY <1>1, <1>10
    <3> QED
      BY <1>1, <3>1 DEF Passes
  <2>2. Ahead(k)' \subseteq Ahead(k)
    BY <1>1, <1>2, <1>6, <1>10 DEF Ahead
  <2>3. Cardinality(Ahead(k)') \in Nat /\ Cardinality(Ahead(k)') <= A
    BY <1>3, <2>2, NoMore
  <2>4. count'[k] + Cardinality(Ahead(k)') <= R * (P + Spare')
    BY <1>1, <1>3, <1>5, <1>9, <2>3
  <2> QED
    BY <1>2, <2>1, <2>4 DEF Traffic
<1>11. CASE p \in seen[k]
  <2> DEFINE d == <<p, attempts[p] + 1>>
             W == {r} \X ReadingRules(k)
  <2>1. Cardinality(Passes(k))' = P + 1
    <3>1. d \in Payments \X (1 .. MaxDeliver)
      BY <1>1, <1>7, RiskConstants
    <3>2. d \notin Passes(k)
      BY <1>7 DEF Passes
    <3>3. Passes(k)' = Passes(k) \cup {d}
      <4>1. ASSUME NEW x \in Passes(k)' PROVE x \in Passes(k) \cup {d}
        <5>1. PICK o \in Payments, n \in 1 .. MaxDeliver :
                    x = <<o, n>> /\ o \in seen[k] /\ n <= attempts'[o]
          BY <1>1, <4>1 DEF Passes
        <5>2. CASE o # p
          BY <1>1, <5>1, <5>2 DEF Passes
        <5>3. CASE o = p
          <6>1. n <= attempts[p] \/ n = attempts[p] + 1
            BY <1>1, <1>7, <5>1, <5>3
          <6> QED
            BY <5>1, <5>3, <6>1 DEF Passes
        <5> QED
          BY <5>2, <5>3
      <4>2. ASSUME NEW x \in Passes(k) PROVE x \in Passes(k)'
        <5>1. PICK o \in Payments, n \in 1 .. MaxDeliver :
                    x = <<o, n>> /\ o \in seen[k] /\ n <= attempts[o]
          BY <4>2 DEF Passes
        <5>2. n <= attempts'[o]
          BY <1>1, <1>7, <5>1
        <5> QED
          BY <1>1, <5>1, <5>2 DEF Passes
      <4>3. d \in Passes(k)'
        BY <1>1, <1>7, <1>11, <3>1 DEF Passes
      <4> QED
        BY <4>1, <4>2, <4>3
    <3> HIDE DEF d
    <3>4. Cardinality(Passes(k) \cup {d}) = P + 1
      BY <1>3, <3>2, FS_AddElement
    <3> QED
      BY <3>3, <3>4
  <2>2. Ahead(k)' \subseteq Ahead(k) \cup W
    <3> SUFFICES ASSUME NEW w \in Ahead(k)' PROVE w \in Ahead(k) \cup W
      OBVIOUS
    <3>1. /\ w \in Replicas \X ReadingRules(k) /\ msg'[w[1]] \in seen[k]
          /\ w[2] \in Uncounted(w[1])'
      BY <1>1, <1>2 DEF Ahead
    <3>2. CASE w[1] # r
      BY <1>1, <1>6, <3>1, <3>2 DEF Ahead
    <3>3. CASE w[1] = r
      BY <3>1, <3>3
    <3> QED
      BY <3>2, <3>3
  <2>3. IsFiniteSet(W) /\ Cardinality(W) = R
    <3>1. IsFiniteSet({r}) /\ Cardinality({r}) = 1
      BY FS_Singleton
    <3>2. IsFiniteSet(W) /\ Cardinality(W) = 1 * Cardinality(ReadingRules(k))
      BY <1>3, <3>1, FS_Product
    <3> QED
      BY <1>3, <3>2
  <2>4. Cardinality(Ahead(k)') \in Nat /\ Cardinality(Ahead(k)') <= A + R
    <3> HIDE DEF W, R
    <3> QED
      BY <1>3, <2>2, <2>3, Together
  <2>5. count'[k] + Cardinality(Ahead(k)') <= R * ((P + Spare') + 1)
    <3> HIDE DEF A, P, R
    <3> QED
      BY <1>1, <1>3, <1>5, <1>9, <2>4
  <2>6. (P + Spare') + 1 = (P + 1) + Spare'
    BY <1>3, <1>4
  <2> QED
    BY <1>2, <2>1, <2>5, <2>6 DEF Traffic
<1> QED
  BY <1>10, <1>11

LEMMA TrafficStep ==
  TypeOK /\ HandlerInv /\ DeliveryInv /\ TrafficInv /\ [Next]_vars => TrafficInv'
<1> SUFFICES ASSUME TypeOK, HandlerInv, DeliveryInv, TrafficInv, [Next]_vars PROVE TrafficInv'
  OBVIOUS
<1>1. \A k \in Keys : Traffic(k)
  BY DEF TrafficInv, Traffic, Spare
<1>2. TypeOK' /\ Keys' = Keys
  BY TypeStep DEF Keys
<1> SUFFICES ASSUME NEW k \in Keys PROVE Traffic(k)'
  BY <1>2 DEF TrafficInv, Traffic, Spare
<1>3. /\ Spare \in Int /\ Spare' \in Int /\ Spare <= Spare'
      /\ Fault /\ UNCHANGED jetStream => Spare' = Spare + 1
  BY SpareStep
<1>4. ASSUME rules' = rules, count'[k] = count[k], seen'[k] = seen[k], attempts' = attempts,
             \A q \in Replicas : \/ msg'[q] = None
                                 \/ msg'[q] = msg[q] /\ Uncounted(q)' \subseteq Uncounted(q)
      PROVE  Traffic(k)'
  BY <1>1, <1>2, <1>3, <1>4, QuietStep
<1>5. ASSUME UNCHANGED <<rules, handler, redis>>, attempts' = attempts PROVE Traffic(k)'
  <2>1. \A q \in Replicas : Uncounted(q)' = Uncounted(q)
    BY <1>5 DEF Uncounted, handler
  <2> QED
    BY <1>4, <1>5, <2>1 DEF handler, redis
\* INCR for the counter or for another one.
<1>6. ASSUME NEW r \in Replicas, Velocity(r), Increment(r), rules' = rules, msg' = msg,
             attempts' = attempts, \A q \in Replicas : Uncounted(q)' \subseteq Uncounted(q),
             next[r] \notin Uncounted(r)' \/ Spare' = Spare + 1
      PROVE  Traffic(k)'
  <2>1. CASE KeyOf(r) = k
    <3>1. Traffic(KeyOf(r))
      BY <1>1, <2>1
    <3> QED
      BY <1>2, <1>3, <1>6, <2>1, <3>1, CountingStep
  <2>2. CASE KeyOf(r) # k
    <3>1. count'[k] = count[k] /\ seen'[k] = seen[k]
      BY <1>6, <2>2, IncrementFacts
    <3> QED
      BY <1>4, <1>6, <3>1
  <2> QED
    BY <2>1, <2>2
<1>7. CASE UNCHANGED vars
  BY <1>5, <1>7 DEF vars, jetStream
<1>8. ASSUME NEW p \in Payments, AckWaitExpires(p) PROVE Traffic(k)'
  BY <1>5, <1>8 DEF AckWaitExpires
<1>9. ASSUME NEW l \in Keys, WindowEnds(l) PROVE Traffic(k)'
  <2>1. UNCHANGED <<rules, attempts, pc, msg, next>>
    BY <1>9, WindowFacts
  <2>2. \A q \in Replicas : Uncounted(q)' = Uncounted(q)
    BY <2>1 DEF Uncounted
  <2>3. CASE k # l
    BY <1>4, <1>9, <2>1, <2>2, <2>3, WindowFacts
  <2>4. CASE k = l
    <3>1. count'[k] = 0 /\ seen'[k] = {}
      BY <1>9, <2>4, WindowFacts
    <3>2. Ahead(k)' = {}
      BY <3>1 DEF Ahead
    <3>3. Cardinality(Ahead(k)') = 0
      BY <3>2, FS_EmptySet
    <3>4. Readers(k)' = Readers(k) /\ Passes(k)' \subseteq Payments \X (1 .. MaxDeliver)
      BY <2>1 DEF Readers, ReadingRules, Passes
    <3>5. Readers(k) \in Nat /\ Cardinality(Passes(k)') \in Nat
      BY <3>4, TrafficTypes, DeliveriesFinite
    <3>6. Spare \in Nat /\ Spare' \in Nat
      BY <1>3, TrafficTypes DEF DeliveryInv, Spare
    <3>7. Readers(k) * (Cardinality(Passes(k)') + Spare') \in Nat
      <4>1. Cardinality(Passes(k)') + Spare' \in Nat
        BY <3>5, <3>6
      <4> QED
        BY <3>5, <4>1, Times
    <3> QED
      BY <3>1, <3>3, <3>4, <3>7 DEF Traffic
  <2> QED
    BY <2>3, <2>4
<1>10. ASSUME NEW r \in Replicas, NEW p \in Payments, Take(r, p) PROVE Traffic(k)'
  BY <1>1, <1>2, <1>3, <1>10, TakeStep
<1>11. ASSUME NEW r \in Replicas, Results(r) PROVE Traffic(k)'
  <2>1. PICK triggered \in BOOLEAN : RuleResult(r, triggered)
    BY <1>11, ResultsFacts
  <2>2. pc[r] \in {"rules", "expire"}
    BY <1>11, ResultsFacts
  <2>3. UNCHANGED <<rules, attempts, msg>>
    BY <2>1, <2>2, ResultFacts
  <2>4. /\ next[r] \notin Uncounted(r)'
        /\ \A q \in Replicas : Uncounted(q)' \subseteq Uncounted(q)
    BY <2>1, <2>2, UncountedAfterResult
  <2>5. CASE UNCHANGED <<count, seen>>
    BY <1>4, <2>3, <2>4, <2>5
  <2>6. CASE Velocity(r) /\ Increment(r)
    BY <1>6, <2>3, <2>4, <2>6
  <2> QED
    BY <1>11, <2>5, <2>6, ResultsRedis DEF redis
<1>12. ASSUME NEW r \in Replicas, Incr(r), First(count[KeyOf(r)] + 1) PROVE Traffic(k)'
  <2>1. /\ Velocity(r) /\ Increment(r) /\ pc' = [pc EXCEPT ![r] = "expire"]
        /\ UNCHANGED <<rules, attempts, msg, next>>
    BY <1>12 DEF Incr, jetStream
  <2>2. pc[r] = "rules" /\ next[r] \in 1 .. Len(rules) /\ Len(rules) \in Nat
    BY <2>1, RuleFacts DEF Velocity, TypeOK
  <2>3. Uncounted(r) = next[r] .. Len(rules) /\ Uncounted(r)' = next[r] + 1 .. Len(rules)
    BY <2>1, <2>2 DEF Uncounted, TypeOK
  <2>4. \A q \in Replicas \ {r} : Uncounted(q)' = Uncounted(q)
    BY <2>1 DEF Uncounted, TypeOK
  <2>5. /\ next[r] \notin Uncounted(r)'
        /\ \A q \in Replicas : Uncounted(q)' \subseteq Uncounted(q)
    BY <2>2, <2>3, <2>4
  <2> QED
    BY <1>6, <2>1, <2>5
<1>13. ASSUME NEW r \in Replicas, IncrRepeated(r) PROVE Traffic(k)'
  <2>1. /\ Velocity(r) /\ Increment(r) /\ Fault
        /\ UNCHANGED <<rules, jetStream, handler, verdicts>>
    BY <1>13 DEF IncrRepeated
  <2>2. \A q \in Replicas : Uncounted(q)' = Uncounted(q)
    BY <2>1 DEF Uncounted, handler
  <2>3. Spare' = Spare + 1
    BY <1>3, <2>1
  <2> QED
    BY <1>6, <2>1, <2>2, <2>3 DEF jetStream, handler
<1>14. ASSUME NEW r \in Replicas, Publish(r) PROVE Traffic(k)'
  <2>1. /\ pc[r] = "publish" /\ pc' = [pc EXCEPT ![r] = "ack"]
        /\ UNCHANGED <<rules, attempts, msg, next, count, seen>>
    BY <1>14 DEF Publish, jetStream, redis
  <2>2. \A q \in Replicas : Uncounted(q)' = Uncounted(q)
    BY <2>1 DEF Uncounted, TypeOK
  <2> QED
    BY <1>4, <2>1, <2>2
<1>15. ASSUME NEW r \in Replicas, PublishFails(r) \/ Ack(r) \/ AckLost(r) PROVE Traffic(k)'
  <2>1. Return(r)
    BY <1>15 DEF PublishFails, Ack, AckLost
  <2>2. /\ UNCHANGED <<rules, attempts, count, seen>>
        /\ msg'[r] = None
        /\ \A q \in Replicas \ {r} : msg'[q] = msg[q] /\ Uncounted(q)' = Uncounted(q)
    BY <2>1, ReturnFacts DEF Uncounted
  <2> QED
    BY <1>4, <2>2
<1> QED
  BY <1>7, <1>8, <1>9, <1>10, <1>11, <1>12, <1>13, <1>14, <1>15, StepKinds

------------------------------------------------------------------------------
(* The theorems.                                                            *)

\* RiskInv holds in every state: the callback acknowledges a message only with
\* its verdict in the stream, one replica at most is between INCR and EXPIRE of
\* a counter, and no delivery and no count is without a message or a fault.
THEOREM RiskInvariant == Spec => []RiskInv
<1>1. Init => RiskInv
  BY InitRiskInv
<1>2. RiskInv /\ [Next]_vars => RiskInv'
  BY TypeStep, HandlerStep, DecidedStep, CounterStep, DeliveryStep, TrafficStep DEF RiskInv
<1> QED
  BY <1>1, <1>2, PTL DEF Spec

\* Whatever file main loaded, the engine evaluates its simple rules on every
\* payment: what parseSimpleRule lets through, extractField and applyOperator
\* know, and the number they dereference is there.
THEOREM LoadedRules == Spec => []LoadedRulesEvaluate
<1> DEFINE Loaded == \E file \in RuleFiles : rules = Load(file)
<1>1. Init => Loaded
  BY DEF Init
<1>2. RiskInv /\ Loaded /\ [Next]_vars => Loaded'
  <2> SUFFICES ASSUME RiskInv, Loaded, [Next]_vars PROVE Loaded'
    OBVIOUS
  <2>1. CASE rules' = rules
    BY <2>1
  <2>2. rules' = rules
    BY DEF Next, HandleMessage, Evaluate, EvaluateFails, AckWaitExpires, WindowEnds, Take,
           RuleResult, ApplySimple, SkipRule, Incr, IncrRepeated, IncrFails, Expire,
           ExpireFails, Publish, Return, PublishFails, Ack, AckLost, vars
  <2> QED
    BY <2>1, <2>2
<1>3. Loaded => LoadedRulesEvaluate
  <2> SUFFICES ASSUME NEW file \in RuleFiles, rules = Load(file),
                      NEW i \in DOMAIN rules, NEW p \in Payments, rules[i].type = "simple"
               PROVE  Evaluable(rules[i], Event[p])
    BY DEF LoadedRulesEvaluate
  <2>1. /\ rules \in Seq(SimpleRules \cup VelocityRules)
        /\ rules[i].operator = "between" \/ rules[i].single \in Int
    BY LoadFacts, RiskConstants
  <2>2. rules[i] \in SimpleRules
    BY <2>1 DEF VelocityRules
  <2>3. rules[i].field \in Fields /\ rules[i].operator \in Operators
    BY <2>2 DEF SimpleRules
  <2>4. Event[p].amount \in Int /\ Event[p].hour \in Int /\ Nil \notin Int
    BY RiskConstants
  <2> QED
    BY <2>1, <2>3, <2>4
       DEF Evaluable, EngineFields, Comparisons, ExtractField, Fields, Operators
<1> QED
  BY <1>1, <1>2, <1>3, RiskInvariant, PTL DEF Spec

\* A counter counts traffic: whatever replicas, redeliveries and repeated
\* commands do, it is at most one for every rule that reads the key, for each
\* payment it has seen and each fault.
THEOREM CountersCountTraffic == Spec => []CountIsTraffic
<1>1. RiskInv => CountIsTraffic
  <2> SUFFICES ASSUME RiskInv, NEW k \in Keys
               PROVE  count[k] <= Readers(k) * (Cardinality(seen[k]) + faults)
    BY DEF CountIsTraffic
  <2>1. TypeOK /\ DeliveryInv /\ Traffic(k)
    BY DEF RiskInv, TrafficInv, Traffic, Spare
  <2>2. /\ Readers(k) \in Nat /\ IsFiniteSet(Passes(k)) /\ Cardinality(Passes(k)) \in Nat
        /\ Cardinality(Ahead(k)) \in Nat /\ count[k] \in Nat
        /\ Cardinality(Extra) \in Nat /\ faults \in Nat
    BY <2>1, TrafficTypes
  <2>3. IsFiniteSet(seen[k]) /\ Cardinality(seen[k]) \in Nat
    <3>1. seen[k] \subseteq Payments
      BY <2>1 DEF TypeOK
    <3> QED
      BY <3>1, RiskConstants, NoMore
  \* Every delivery of a payment but the last is an extra one.
  <2>4. Cardinality(Passes(k)) <= Cardinality(Extra) + Cardinality(seen[k])
    <3> DEFINE last == {<<p, attempts[p]>> : p \in seen[k]}
    <3>1. Passes(k) \subseteq Extra \cup last
      <4> SUFFICES ASSUME NEW d \in Passes(k), d \notin Extra PROVE d \in last
        OBVIOUS
      <4>1. PICK p \in Payments, n \in 1 .. MaxDeliver :
                d = <<p, n>> /\ p \in seen[k] /\ n <= attempts[p]
        BY DEF Passes
      <4>2. ~ (n < attempts[p])
        <5>1. attempts[p] \in Nat /\ Deliverable(p) \in {0, 1}
          BY <2>1, RiskConstants DEF TypeOK, Deliverable
        <5>2. n < attempts[p] => d \in Extra
          BY <4>1, <5>1 DEF Extra
        <5> QED
          BY <5>2
      <4>3. n = attempts[p]
        BY <2>1, <4>1, <4>2, RiskConstants DEF TypeOK
      <4> QED
        BY <4>1, <4>3
    <3>2. IsFiniteSet(last) /\ Cardinality(last) <= Cardinality(seen[k])
      <4> DEFINE f == [p \in seen[k] |-> <<p, attempts[p]>>]
      <4>1. f \in Surjection(seen[k], last)
        BY Zenon DEF Surjection
      <4> QED
        BY <2>3, <4>1, FS_Surjection
    <3>3. IsFiniteSet(Extra)
      <4>1. Extra \subseteq Payments \X (1 .. MaxDeliver)
        BY DEF Extra
      <4> QED
        BY <4>1, DeliveriesFinite
    <3> HIDE DEF last
    <3>4. /\ Cardinality(last) \in Nat
          /\ Cardinality(Passes(k)) <= Cardinality(Extra) + Cardinality(last)
      BY <3>1, <3>2, <3>3, Together
    <3> QED
      BY <2>2, <2>3, <3>2, <3>4
  <2>5. /\ Cardinality(Passes(k)) + Spare \in Nat /\ Cardinality(seen[k]) + faults \in Nat
        /\ Cardinality(Passes(k)) + Spare <= Cardinality(seen[k]) + faults
    BY <2>1, <2>2, <2>3, <2>4 DEF Spare, DeliveryInv
  <2>6. /\ Readers(k) * (Cardinality(Passes(k)) + Spare)
                <= Readers(k) * (Cardinality(seen[k]) + faults)
        /\ Readers(k) * (Cardinality(Passes(k)) + Spare) \in Nat
        /\ Readers(k) * (Cardinality(seen[k]) + faults) \in Nat
    BY <2>2, <2>5, Times
  <2>7. count[k] + Cardinality(Ahead(k)) <= Readers(k) * (Cardinality(Passes(k)) + Spare)
    BY <2>1 DEF Traffic
  <2> QED
    BY <2>2, <2>6, <2>7
<1> QED
  BY <1>1, RiskInvariant, PTL

------------------------------------------------------------------------------
(* Counters that nobody will give a time to live.                           *)

LEMMA EndlessStep ==
  ASSUME RiskInv, [Next]_vars
  PROVE  \/ Endless' \subseteq Endless /\ faults <= faults'
         \/ Fault /\ \E k : Endless' \subseteq Endless \cup {k}
<1>0. TypeOK /\ HandlerInv /\ faults \in Nat /\ Keys' = Keys
  <2>1. TypeOK /\ HandlerInv
    BY DEF RiskInv
  <2>2. faults \in Nat
    BY <2>1, RiskConstants DEF TypeOK
  <2>3. Keys' = Keys
    BY DEF Keys
  <2> QED
    BY <2>1, <2>2, <2>3
<1>1. Fault => faults <= faults'
  BY <1>0 DEF Fault
<1> DEFINE Waits(q, l) == pc[q] = "expire" /\ KeyOf(q) = l
\* A counter is endless after the step only if it was, where it was there, had
\* no time to live, and those on the way to its EXPIRE still are.
<1>2. ASSUME NEW l \in Endless', count[l] > 0, ttl'[l] = ttl[l],
             \A q \in Replicas : Waits(q, l) => pc'[q] = "expire"
      PROVE  l \in Endless
  <2>1. /\ l \in Keys /\ ~ttl'[l]
        /\ \A q \in Replicas : pc'[q] = "expire" => KeyOf(q)' # l
    BY <1>0 DEF Endless
  <2>2. \A q \in Replicas : pc'[q] = "expire" => KeyOf(q)' = KeyOf(q)
    BY <1>0, ExpireIsNext
  <2> QED
    BY <1>2, <2>1, <2>2 DEF Endless
<1>3. ASSUME count' = count, ttl' = ttl,
             \A q \in Replicas : pc[q] = "expire" => pc'[q] = "expire"
      PROVE  Endless' \subseteq Endless
  <2> SUFFICES ASSUME NEW l \in Endless' PROVE l \in Endless
    OBVIOUS
  <2>1. count[l] > 0
    BY <1>3 DEF Endless
  <2> QED
    BY <1>2, <1>3, <2>1
<1>4. CASE UNCHANGED vars
  BY <1>0, <1>3, <1>4 DEF vars, redis, handler
<1>5. ASSUME NEW p \in Payments, AckWaitExpires(p)
      PROVE  Endless' \subseteq Endless /\ faults <= faults'
  BY <1>1, <1>3, <1>5 DEF AckWaitExpires, redis, handler
<1>6. ASSUME NEW k \in Keys, WindowEnds(k)
      PROVE  Endless' \subseteq Endless /\ faults <= faults'
  <2> SUFFICES ASSUME NEW l \in Endless' PROVE l \in Endless /\ faults <= faults'
    BY <1>0, <1>6, WindowFacts
  <2>1. l \in Keys /\ count'[l] > 0
    BY <1>0 DEF Endless
  <2>2. l # k
    BY <1>0, <1>6, <2>1, WindowFacts
  <2>3. count'[l] = count[l] /\ ttl'[l] = ttl[l] /\ pc' = pc /\ faults' = faults
    BY <1>0, <1>6, <2>1, <2>2, WindowFacts
  <2> QED
    BY <1>0, <1>2, <2>1, <2>3
<1>7. ASSUME NEW r \in Replicas, NEW p \in Payments, Take(r, p)
      PROVE  Endless' \subseteq Endless /\ faults <= faults'
  <2>1. /\ count' = count /\ ttl' = ttl /\ faults' = faults
        /\ \A q \in Replicas : pc[q] = "expire" => pc'[q] = "expire"
    BY <1>0, <1>7, TakeFacts
  <2> QED
    BY <1>0, <1>3, <2>1
\* INCR: a counter it makes is endless only if the EXPIRE does not follow.
<1>8. ASSUME NEW r \in Replicas, Velocity(r), Increment(r),
             \A q \in Replicas : pc[q] = "expire" => pc'[q] = "expire"
      PROVE  /\ Endless' \subseteq Endless \cup {KeyOf(r)}
             /\ count[KeyOf(r)] > 0 => Endless' \subseteq Endless
  <2>1. /\ KeyOf(r) \in Keys /\ ttl' = ttl
        /\ \A l \in Keys \ {KeyOf(r)} : count'[l] = count[l]
    BY <1>0, <1>8, IncrementFacts
  <2>2. ASSUME NEW l \in Endless', l # KeyOf(r) \/ count[l] > 0 PROVE l \in Endless
    <3>1. l \in Keys /\ count'[l] > 0
      BY <1>0 DEF Endless
    <3>2. count[l] > 0
      BY <2>1, <2>2, <3>1
    <3> QED
      BY <1>2, <1>8, <2>1, <3>2
  <2> QED
    BY <2>2
<1>9. ASSUME NEW r \in Replicas, Results(r)
      PROVE  \/ Endless' \subseteq Endless /\ faults <= faults'
             \/ Fault /\ \E k : Endless' \subseteq Endless \cup {k}
  <2>1. PICK triggered \in BOOLEAN : RuleResult(r, triggered)
    BY <1>9, ResultsFacts
  <2>2. pc[r] \in {"rules", "expire"}
    BY <1>9, ResultsFacts
  <2>3. \A q \in Replicas \ {r} : pc'[q] = pc[q]
    BY <1>0, <2>1, <2>2, ResultFacts
  <2>4. faults' = faults \/ Fault
    BY <1>9, ResultsRedis
  <2>5. faults <= faults'
    BY <1>0, <1>1, <2>4
  <2>6. CASE pc[r] = "rules" /\ UNCHANGED redis
    BY <1>3, <2>3, <2>5, <2>6 DEF redis
  <2>7. CASE Velocity(r) /\ Increment(r) /\ (First(count[KeyOf(r)] + 1) => Fault)
    <3>1. \A q \in Replicas : pc[q] = "expire" => pc'[q] = "expire"
      BY <2>3, <2>7 DEF Velocity
    <3>2. /\ Endless' \subseteq Endless \cup {KeyOf(r)}
          /\ count[KeyOf(r)] > 0 => Endless' \subseteq Endless
      BY <1>8, <2>7, <3>1
    <3>3. KeyOf(r) \in Keys /\ count[KeyOf(r)] \in Nat
      BY <1>0, <2>7, IncrementFacts DEF TypeOK
    <3>4. CASE count[KeyOf(r)] > 0
      BY <2>5, <3>2, <3>4
    <3>5. CASE count[KeyOf(r)] = 0
      BY <2>7, <3>2, <3>5 DEF First
    <3> QED
      BY <3>3, <3>4, <3>5
  <2>8. CASE /\ pc[r] = "expire" /\ UNCHANGED <<count, seen>>
             /\ ttl' = [ttl EXCEPT ![KeyOf(r)] = TRUE] \/ (Fault /\ ttl' = ttl)
    <3>1. KeyOf(r) \in Keys
      BY <1>0, <2>8 DEF HandlerInv
    <3>2. ASSUME NEW l \in Endless', l # KeyOf(r) PROVE l \in Endless
      <4>1. l \in Keys /\ count[l] > 0
        BY <1>0, <2>8 DEF Endless
      <4>2. ttl'[l] = ttl[l]
        BY <1>0, <2>8, <3>2, <4>1 DEF TypeOK
      <4>3. \A q \in Replicas : Waits(q, l) => pc'[q] = "expire"
        BY <2>3, <3>2
      <4> QED
        BY <1>2, <4>1, <4>2, <4>3
    <3>3. CASE ttl' = [ttl EXCEPT ![KeyOf(r)] = TRUE]
      <4>1. KeyOf(r) \notin Endless'
        BY <1>0, <3>1, <3>3 DEF Endless, TypeOK
      <4> QED
        BY <2>5, <3>2, <4>1
    <3>4. CASE Fault
      <4>1. Endless' \subseteq Endless \cup {KeyOf(r)}
        BY <3>2
      <4> QED
        BY <3>4, <4>1
    <3> QED
      BY <2>8, <3>3, <3>4
  <2> QED
    BY <1>9, <2>6, <2>7, <2>8, ResultsRedis
<1>10. ASSUME NEW r \in Replicas, Incr(r), First(count[KeyOf(r)] + 1)
       PROVE  Endless' \subseteq Endless /\ faults <= faults'
  <2>1. /\ Velocity(r) /\ Increment(r) /\ faults' = faults
        /\ pc' = [pc EXCEPT ![r] = "expire"]
    BY <1>10 DEF Incr
  <2>2. pc'[r] = "expire" /\ \A q \in Replicas : pc[q] = "expire" => pc'[q] = "expire"
    BY <1>0, <2>1 DEF TypeOK
  <2>3. KeyOf(r)' = KeyOf(r)
    BY <1>0, <2>2, ExpireIsNext
  <2>4. KeyOf(r) \notin Endless'
    BY <2>2, <2>3 DEF Endless
  <2>5. Endless' \subseteq Endless \cup {KeyOf(r)}
    BY <1>8, <2>1, <2>2
  <2> QED
    BY <1>0, <2>1, <2>4, <2>5
<1>11. ASSUME NEW r \in Replicas, IncrRepeated(r)
       PROVE  Fault /\ \E k : Endless' \subseteq Endless \cup {k}
  <2>1. Velocity(r) /\ Increment(r) /\ Fault /\ pc' = pc
    BY <1>11 DEF IncrRepeated, handler
  <2> QED
    BY <1>8, <2>1
<1>12. ASSUME NEW r \in Replicas, Publish(r)
       PROVE  Endless' \subseteq Endless /\ faults <= faults'
  <2>1. /\ pc[r] = "publish" /\ pc' = [pc EXCEPT ![r] = "ack"]
        /\ UNCHANGED <<count, ttl, faults>>
    BY <1>12 DEF Publish, redis
  <2>2. \A q \in Replicas : pc[q] = "expire" => pc'[q] = "expire"
    BY <1>0, <2>1 DEF TypeOK
  <2> QED
    BY <1>0, <1>3, <2>1, <2>2
<1>13. ASSUME NEW r \in Replicas, PublishFails(r) \/ Ack(r)
       PROVE  Endless' \subseteq Endless /\ faults <= faults'
  <2>1. Return(r) /\ pc[r] # "expire" /\ faults <= faults'
    BY <1>0, <1>1, <1>13 DEF PublishFails, Ack
  <2>2. /\ UNCHANGED <<count, ttl>>
        /\ \A q \in Replicas : pc[q] = "expire" => pc'[q] = "expire"
    BY <1>0, <2>1, ReturnFacts
  <2> QED
    BY <1>3, <2>1, <2>2
<1>14. ASSUME NEW r \in Replicas, AckLost(r)
       PROVE  Fault /\ \E k : Endless' \subseteq Endless \cup {k}
  <2>1. Return(r) /\ Fault
    BY <1>14 DEF AckLost
  <2>2. UNCHANGED <<count, ttl>> /\ \A q \in Replicas \ {r} : pc'[q] = pc[q]
    BY <1>0, <2>1, ReturnFacts
  <2>3. Endless' \subseteq Endless \cup {KeyOf(r)}
    <3> SUFFICES ASSUME NEW l \in Endless', l # KeyOf(r) PROVE l \in Endless
      OBVIOUS
    <3>1. count[l] > 0 /\ \A q \in Replicas : Waits(q, l) => pc'[q] = "expire"
      BY <2>2 DEF Endless
    <3> QED
      BY <1>2, <2>2, <3>1
  <2> QED
    BY <2>1, <2>3
<1> QED
  BY <1>4, <1>5, <1>6, <1>7, <1>9, <1>10, <1>11, <1>12, <1>13, <1>14, <1>0, StepKinds DEF vars

\* A counter without a time to live, and without a replica that will set one,
\* costs a fault: an EXPIRE or a replica lost between the two commands, or a
\* first INCR of which the replica does not know.
THEOREM EndlessCountersCostFaults == Spec => []EndlessCountersHaveFaults
<1> DEFINE Bounded == IsFiniteSet(Endless) /\ Cardinality(Endless) <= faults
<1>1. Init => Bounded
  <2> SUFFICES ASSUME Init PROVE Bounded
    OBVIOUS
  <2>1. Endless = {} /\ faults = 0
    BY DEF Init, Endless
  <2> QED
    BY <2>1, FS_EmptySet
<1>2. RiskInv /\ RiskInv' /\ Bounded /\ [Next]_vars => Bounded'
  <2> SUFFICES ASSUME RiskInv, RiskInv', Bounded, [Next]_vars PROVE Bounded'
    OBVIOUS
  <2>1. faults \in Nat /\ faults' \in Nat
    BY RiskConstants DEF RiskInv, TypeOK
  <2>2. CASE Endless' \subseteq Endless /\ faults <= faults'
    <3>1. /\ IsFiniteSet(Endless') /\ Cardinality(Endless) \in Nat
          /\ Cardinality(Endless') \in Nat /\ Cardinality(Endless') <= Cardinality(Endless)
      BY <2>2, NoMore
    <3> QED
      BY <2>1, <2>2, <3>1
  <2>3. ASSUME NEW k, Fault, Endless' \subseteq Endless \cup {k} PROVE Bounded'
    <3>1. /\ IsFiniteSet(Endless') /\ Cardinality(Endless) \in Nat
          /\ Cardinality(Endless') \in Nat
          /\ Cardinality(Endless') <= Cardinality(Endless) + 1
      BY <2>3, OneMore
    <3>2. faults' = faults + 1
      BY <2>3 DEF Fault
    <3> QED
      BY <2>1, <3>1, <3>2
  <2> QED
    BY <2>2, <2>3, EndlessStep
<1>3. Bounded => EndlessCountersHaveFaults
  BY DEF EndlessCountersHaveFaults
<1> QED
  BY <1>1, <1>2, <1>3, RiskInvariant, PTL DEF Spec

===============================================================================
