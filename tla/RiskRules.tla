------------------------------- MODULE RiskRules -------------------------------
(***************************************************************************)
(* risk-service: what the rule loader accepts, and what a loaded rule says *)
(* about a payment. No state. The loader validates once, at start-up; the  *)
(* engine relies on it and dereferences without looking again.             *)
(*                                                                         *)
(* Operators named Wrong... are deliberately wrong variants of the         *)
(* definition that follows them; no specification uses them.               *)
(***************************************************************************)
EXTENDS Integers, Sequences

CONSTANT Nil    \* no number: Go's nil pointer, a window that does not parse

\* What validateField, validateKeyField and validateOperator let through.
Fields == {"amount", "hour"}
KeyFields == {"merchant_id", "card_hash", "customer_ip"}
Operators == {"gt", "lt", "eq", "gte", "lte", "between"}
BlockThreshold == 70
Decisions == {"approved", "blocked"}

-------------------------------------------------------------------------------
(* Loader. A raw rule is a record with the keys of the JSON object; value   *)
(* is [kind, items], where kind is "missing", "null", "number", "list" or   *)
(* "other" and items holds the numbers (json.Unmarshal reads null as 0).    *)

RawValues ==
    {v \in [kind : {"missing", "null", "number", "list", "other"}, items : Seq(Int)] :
        v.kind \in {"null", "number"} => Len(v.items) = 1}

RawRules ==
    [name : STRING, type : STRING, field : STRING, operator : STRING, value : RawValues,
     key_field : STRING, window : Int \cup {Nil}, threshold : Int, score : Int]

\* One number is as good as a list.
WrongValueFits(value, op) == value.kind \in {"number", "null", "list"}

ValueFits(value, op) ==
    IF op = "between"
    THEN /\ value.kind = "list"
         /\ Len(value.items) = 2
         /\ value.items[1] < value.items[2]
    ELSE value.kind \in {"number", "null"}

ValidSimple(raw) ==
    /\ raw.field \in Fields
    /\ raw.operator \in Operators
    /\ ValueFits(raw.value, raw.operator)

ValidWindow(window) == window # Nil /\ window > 0

ValidVelocity(raw) ==
    /\ raw.key_field \in KeyFields
    /\ raw.threshold > 0
    /\ ValidWindow(raw.window)

\* An empty type means simple.
RuleType(raw) == IF raw.type = "" THEN "simple" ELSE raw.type

Accepts(raw) ==
    /\ raw.name # ""
    /\ raw.score > 0
    /\ \/ RuleType(raw) = "simple" /\ ValidSimple(raw)
       \/ RuleType(raw) = "velocity" /\ ValidVelocity(raw)

SimpleRules ==
    [type : {"simple"}, score : Nat, field : Fields, operator : Operators,
     single : Int \cup {Nil}, range : Seq(Int)]

VelocityRules ==
    [type : {"velocity"}, score : Nat, key_field : KeyFields, window : Nat, threshold : Nat]

\* RawValue.Single is nil for a list, RawValue.Range is zero for a number.
ParseSimple(raw) ==
    [type |-> "simple", score |-> raw.score,
     field |-> raw.field, operator |-> raw.operator,
     single |-> IF raw.value.kind = "list" THEN Nil ELSE raw.value.items[1],
     range |-> IF raw.value.kind = "list" THEN raw.value.items ELSE <<0, 0>>]

ParseVelocity(raw) ==
    [type |-> "velocity", score |-> raw.score,
     key_field |-> raw.key_field, window |-> raw.window, threshold |-> raw.threshold]

ParseRule(raw) ==
    IF RuleType(raw) = "simple" THEN ParseSimple(raw) ELSE ParseVelocity(raw)

\* The rules of a file; <<>> where Load returns an error and main exits.
Load(file) ==
    IF \A i \in DOMAIN file : Accepts(file[i])
    THEN [i \in DOMAIN file |-> ParseRule(file[i])]
    ELSE <<>>

-------------------------------------------------------------------------------
(* Engine. An event is a record of the fields the rules look at. Its lists  *)
(* of fields and operators are its own: the cases of two other switches.    *)

EngineFields == {"amount", "hour"}

\* The cases of applyOperator that dereference Single.
Comparisons == {"gt", "lt", "eq", "gte", "lte"}

ExtractField(field, event) == IF field = "amount" THEN event.amount ELSE event.hour

\* An operator the switch does not know is an error: not triggered.
ApplyOperator(op, value, rule) ==
    \/ op = "gt" /\ value > rule.single
    \/ op = "lt" /\ value < rule.single
    \/ op = "eq" /\ value = rule.single
    \/ op = "gte" /\ value >= rule.single
    \/ op = "lte" /\ value <= rule.single
    \/ op = "between" /\ rule.range[1] <= value /\ value <= rule.range[2]

EvaluateSimple(rule, event) ==
    ApplyOperator(rule.operator, ExtractField(rule.field, event), rule)

\* evaluateSimple returns neither an error nor a nil dereference.
Evaluable(rule, event) ==
    /\ rule.field \in EngineFields
    /\ \/ rule.operator \in Comparisons /\ rule.single # Nil
       \/ rule.operator = "between"
    /\ ExtractField(rule.field, event) \in Int

\* The Redis key of a velocity rule has neither the rule nor its window in it.
BuildKey(field, event) == <<field, event[field]>>

\* An empty value is no value.
HasKey(field, event) == event[field] # ""

MakeDecision(total) == IF total >= BlockThreshold THEN "blocked" ELSE "approved"
===============================================================================
