-------------------------- MODULE PaymentLifecycle --------------------------
(***************************************************************************)
(* What the saga promises of a payment, without workers, queues or faults. *)
(* An accepted payment is claimed once; outcomes become known while it is  *)
(* open or after it was settled; the recorded status is always an outcome  *)
(* some service reported, or "failed" by timeout; a settled payment stays  *)
(* settled, though a later outcome may replace an earlier one.             *)
(***************************************************************************)
CONSTANT Txs

Outcomes == {"captured", "declined", "failed", "blocked"}

VARIABLES
    status,   \* the status a merchant sees
    known     \* the outcomes risk-service and the providers reported

vars == <<status, known>>

Open(tx) == status[tx] \notin {"none", "pending"}

Init ==
    /\ status = [tx \in Txs |-> "none"]
    /\ known = [tx \in Txs |-> {}]

Move(rows, from, to) ==
    /\ \A tx \in rows : status[tx] = from
    /\ status' = [tx \in Txs |-> IF tx \in rows THEN to ELSE status[tx]]
    /\ UNCHANGED known

Accept(tx) == Move({tx}, "none", "pending")
Claim(rows) == Move(rows, "pending", "processing")
TimeOut(rows) == Move(rows, "processing", "failed")

Learn(tx, o) ==
    /\ Open(tx)
    /\ known' = [known EXCEPT ![tx] = @ \cup {o}]
    /\ UNCHANGED status

Settle(tx, o) ==
    /\ Open(tx)
    /\ o \in known[tx]
    /\ status' = [status EXCEPT ![tx] = o]
    /\ UNCHANGED known

Next ==
    \/ \E tx \in Txs : Accept(tx)
    \/ \E rows \in SUBSET Txs : Claim(rows) \/ TimeOut(rows)
    \/ \E tx \in Txs, o \in Outcomes : Learn(tx, o) \/ Settle(tx, o)

Spec == Init /\ [][Next]_vars
=============================================================================
