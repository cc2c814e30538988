----------------------------- MODULE MCRiskEngine -----------------------------
(***************************************************************************)
(* Instances of RiskEngine for TLC: payments of one customer, rules of     *)
(* rules/default.json with small thresholds, and files the loader must     *)
(* judge.                                                                  *)
(***************************************************************************)
EXTENDS RiskEngine, TLC

CONSTANTS p1, p2, r1, r2

TwoPayments == {p1, p2}
TwoReplicas == {r1, r2}

\* Amounts in thousands of RUB. One card; the second payment has no merchant.
Events ==
    p1 :> [amount |-> 600, hour |-> 3, merchant_id |-> "m", card_hash |-> "c", customer_ip |-> ""]
    @@ p2 :> [amount |-> 600, hour |-> 12, merchant_id |-> "", card_hash |-> "c", customer_ip |-> ""]

Missing == [kind |-> "missing", items |-> <<>>]
Number(n) == [kind |-> "number", items |-> <<n>>]
Values == {Missing, Number(500), [kind |-> "null", items |-> <<0>>],
           [kind |-> "list", items |-> <<1, 5>>], [kind |-> "list", items |-> <<5, 5>>],
           [kind |-> "list", items |-> <<1, 3, 5>>], [kind |-> "other", items |-> <<>>]}

Simple(field, operator, value, points) ==
    [name |-> "simple", type |-> "", field |-> field, operator |-> operator, value |-> value,
     key_field |-> "", window |-> Nil, threshold |-> 0, score |-> points]

VelocityRule(key_field, window, threshold, points) ==
    [name |-> "velocity", type |-> "velocity", field |-> "", operator |-> "", value |-> Missing,
     key_field |-> key_field, window |-> window, threshold |-> threshold, score |-> points]

VeryHighAmount == Simple("amount", "gt", Number(500), 55)
Card(window) == VelocityRule("card_hash", window, 1, 30)
Merchant == VelocityRule("merchant_id", 10, 1, 25)

\* One simple rule: every operator, known or not, with every value.
SimpleFiles ==
    {<<Simple(f, op, v, 10)>> :
        f \in {"hour", "currency"}, op \in Operators \cup {"ne"}, v \in Values}

\* What parseVelocityRule and parseRule refuse.
BrokenFiles ==
    {<<>>, <<VelocityRule("customer_email", 10, 1, 30)>>, <<VelocityRule("card_hash", Nil, 1, 30)>>,
     <<VelocityRule("card_hash", 0, 1, 30)>>, <<VelocityRule("card_hash", 10, 0, 30)>>,
     <<VelocityRule("card_hash", 10, 1, 0)>>, <<[Merchant EXCEPT !.name = ""]>>,
     <<VeryHighAmount, [Merchant EXCEPT !.type = "geo"]>>}

\* Two keys, and one key that two rules with different windows share.
VelocityFiles == {<<VeryHighAmount, Card(60), Merchant>>, <<Card(10), Card(60)>>}

AllFiles == VelocityFiles \cup SimpleFiles \cup BrokenFiles
===============================================================================
