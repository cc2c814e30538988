---------------------------- MODULE PaymentSaga ----------------------------
(***************************************************************************)
(* The payment saga: transaction-service (polling worker, stuck resolver,  *)
(* transaction-updater), risk-service and provider-service, choreographed  *)
(* over the JetStream stream PAYMENTS.                                     *)
(*                                                                         *)
(* The stream has WorkQueue retention: a published message stays until a   *)
(* consumer acknowledges it, and is delivered again when an acknowledge-   *)
(* ment does not arrive in time.  Every consumer runs its callback         *)
(* sequentially over a local buffer of deliveries.                         *)
(***************************************************************************)
EXTENDS Integers, FiniteSets

CONSTANTS
    Txs,          \* transactions, as created by POST /api/v1/payments
    Workers,      \* instances of the polling worker
    Configured,   \* transactions whose merchant has an active webhook
    BatchSize,    \* limit of FetchPending and FetchStuck
    MaxDeliver,   \* maxDeliver of the risk-evaluator consumer
    MaxFaults,    \* bound: faults (crash, error, lost or late ack) per behaviour
    NoMsg         \* stands for "no message in hand"

\* What a message on the stream says: its subject and, for payment.completed,
\* the status the event carries.
Results  == {"captured", "declined", "failed"}
Verdicts == {"approved", "blocked"}
Kinds    == {"created"} \cup Verdicts \cup Results

\* Messages of one transaction are told apart by a per-transaction number.
Messages == [tx : Txs, kind : Kinds, no : Nat]

ASSUME ConstantsAssumption ==
    /\ Configured \subseteq Txs
    /\ BatchSize \in Nat \ {0}
    /\ MaxDeliver \in Nat \ {0}
    /\ MaxFaults \in Nat
    /\ NoMsg \notin Messages

Terminal == {"captured", "failed", "declined", "blocked"}
Statuses == {"none", "pending", "processing"} \cup Terminal

Consumers == {"risk", "provider", "updater"}

\* Operators named Wrong... are deliberately wrong variants of the definition
\* that follows them: put in its place, each must break a property.

\* provider-service subscribed to payment.created.
WrongConsumerOf(kind) ==
    IF kind \in {"created", "approved"} THEN "provider" ELSE "updater"

\* The consumer whose FilterSubject(s) match the subject of a message.
ConsumerOf(kind) ==
    CASE kind = "created"  -> "risk"
      [] kind = "approved" -> "provider"
      [] OTHER             -> "updater"

\* The default case of the switch reports success.
WrongMapCompletedStatus(kind) ==
    IF kind \in {"declined", "blocked"} THEN kind ELSE "captured"

\* The status the updater writes for a message.
MapCompletedStatus(kind) ==
    CASE kind = "captured" -> "captured"
      [] kind = "declined" -> "declined"
      [] kind = "blocked"  -> "blocked"
      [] OTHER             -> "failed"

VARIABLES
    status,       \* status[tx]: transactions.status, "none" before the INSERT
    stale,        \* stale[tx]: updated_at is older than stuckTimeout
    batch,        \* batch[w]: rows a worker has claimed and not yet published
    stream,       \* messages JetStream holds
    sent,         \* sent[tx]: number of messages ever published for tx
    outstanding,  \* messages delivered whose AckWait is running
    inbox,        \* deliveries buffered in the client of a consumer
    attempts,     \* attempts[tx]: deliveries of payment.created
    stage,        \* stage[c]: where the callback of consumer c stands
    msg,          \* msg[c]: the message it handles
    out,          \* out[c]: the kind of message it is about to publish
    outbox,       \* outbox[tx]: event types with a row in webhook_deliveries
    evidence,     \* history: kinds of messages published about tx
    charges,      \* history: times a provider took the money
    lost,         \* history: claimed rows whose payment.created may be missing
    faults        \* faults so far

dbVars      == <<status, stale, outbox>>
workerVars  == <<batch, lost>>
brokerVars  == <<stream, sent, outstanding, inbox, attempts>>
handlerVars == <<stage, msg, out>>
histVars    == <<evidence, charges>>
vars == <<dbVars, workerVars, brokerVars, handlerVars, histVars, faults>>

Init ==
    /\ status = [tx \in Txs |-> "none"]
    /\ stale = [tx \in Txs |-> FALSE]
    /\ batch = [w \in Workers |-> {}]
    /\ stream = {} /\ outstanding = {} /\ inbox = {}
    /\ sent = [tx \in Txs |-> 0]
    /\ attempts = [tx \in Txs |-> 0]
    /\ stage = [c \in Consumers |-> "idle"]
    /\ msg = [c \in Consumers |-> NoMsg]
    /\ out = [c \in Consumers |-> "none"]
    /\ outbox = [tx \in Txs |-> {}]
    /\ evidence = [tx \in Txs |-> {}]
    /\ charges = [tx \in Txs |-> 0]
    /\ lost = {}
    /\ faults = 0

\* A step that needs the environment to misbehave.
Fault == faults < MaxFaults /\ faults' = faults + 1
NoFault == UNCHANGED faults

-----------------------------------------------------------------------------
(* Database: every UPDATE of a row runs the trigger that sets updated_at. *)

SetStatus(rows, new) ==
    /\ status' = [tx \in Txs |-> IF tx \in rows THEN new ELSE status[tx]]
    /\ stale' = [tx \in Txs |-> IF tx \in rows THEN FALSE ELSE stale[tx]]

\* Up to BatchSize rows of a set, as SELECT ... LIMIT returns them.
Limited(rows, candidates) ==
    /\ rows \subseteq candidates
    /\ rows # {}
    /\ IF Cardinality(candidates) <= BatchSize
       THEN rows = candidates
       ELSE Cardinality(rows) = BatchSize

\* JetStream stores a message about tx.
Store(tx, kind) ==
    /\ stream' = stream \cup {[tx |-> tx, kind |-> kind, no |-> sent[tx]]}
    /\ sent' = [sent EXCEPT ![tx] = @ + 1]
    /\ evidence' = [evidence EXCEPT ![tx] = @ \cup {kind}]

\* A publish that returns an error may have been stored all the same.
StoreOrNot(tx, kind) ==
    \/ Store(tx, kind)
    \/ UNCHANGED <<stream, sent, evidence>>

-----------------------------------------------------------------------------
(* transaction-service: API, polling worker, stuck resolver. *)

\* The INSERT of CreatePayment.
CreatePayment(tx) ==
    /\ status[tx] = "none"
    /\ SetStatus({tx}, "pending")
    /\ NoFault
    /\ UNCHANGED <<outbox, workerVars, brokerVars, handlerVars, histVars>>

\* The goroutine of worker.Run is free to serve a ticker.
WorkerIdle(w) == batch[w] = {}

\* The rows the poller looks for; the wrong poller retries failed ones too.
WrongPendingRows == {tx \in Txs : status[tx] \in {"pending", "failed"}}

PendingRows == {tx \in Txs : status[tx] = "pending"}

\* SELECT and UPDATE are one statement; the wrong claim only selects.
WrongClaim(rows) == UNCHANGED <<status, stale>>

Claim(rows) == SetStatus(rows, "processing")

\* One statement moves pending rows to processing and returns them.
FetchPending(w) ==
    /\ WorkerIdle(w)
    /\ \E rows \in SUBSET Txs :
          /\ Limited(rows, PendingRows)
          /\ Claim(rows)
          /\ batch' = [batch EXCEPT ![w] = rows]
    /\ NoFault
    /\ UNCHANGED <<outbox, lost, brokerVars, handlerVars, histVars>>

\* processOne: payment.created is published for one claimed row.
PublishCreated(w, tx) ==
    /\ tx \in batch[w]
    /\ batch' = [batch EXCEPT ![w] = @ \ {tx}]
    /\ Store(tx, "created")
    /\ NoFault
    /\ UNCHANGED <<dbVars, lost, outstanding, inbox, attempts, handlerVars,
                   charges>>

\* processOne only logs a failed publish: the row stays in processing.
PublishCreatedFails(w, tx) ==
    /\ Fault
    /\ tx \in batch[w]
    /\ batch' = [batch EXCEPT ![w] = @ \ {tx}]
    /\ lost' = lost \cup {tx}
    /\ StoreOrNot(tx, "created")
    /\ UNCHANGED <<dbVars, outstanding, inbox, attempts, handlerVars, charges>>

\* The process dies, or reading the returned rows fails, with rows in hand.
WorkerCrash(w) ==
    /\ Fault
    /\ batch[w] # {}
    /\ lost' = lost \cup batch[w]
    /\ batch' = [batch EXCEPT ![w] = {}]
    /\ UNCHANGED <<dbVars, brokerVars, handlerVars, histVars>>

\* Ten minutes pass without an UPDATE of a row in processing.
Age(tx) ==
    /\ status[tx] = "processing"
    /\ ~stale[tx]
    /\ stale' = [stale EXCEPT ![tx] = TRUE]
    /\ NoFault
    /\ UNCHANGED <<status, outbox, workerVars, brokerVars, handlerVars,
                   histVars>>

\* The rows the stuck resolver looks for; the wrong one looks only at payments
\* of which something was published, and forgets those the worker lost.
WrongStuckRows ==
    {tx \in Txs : status[tx] = "processing" /\ stale[tx] /\ evidence[tx] # {}}

StuckRows == {tx \in Txs : status[tx] = "processing" /\ stale[tx]}

\* The stuck ticker: old processing rows become failed, with no webhook row.
FetchStuck(w) ==
    /\ WorkerIdle(w)
    /\ \E rows \in SUBSET Txs :
          /\ Limited(rows, StuckRows)
          /\ SetStatus(rows, "failed")
    /\ NoFault
    /\ UNCHANGED <<outbox, workerVars, brokerVars, handlerVars, histVars>>

-----------------------------------------------------------------------------
(* JetStream: delivery, redelivery and acknowledgement. *)

\* Only the risk consumer limits the number of deliveries; the wrong limit
\* admits one more.
WrongMayDeliver(m) == m.kind = "created" => attempts[m.tx] <= MaxDeliver

MayDeliver(m) == m.kind = "created" => attempts[m.tx] < MaxDeliver

\* A message is delivered when nobody owes an acknowledgement for it.
Deliver(m) ==
    /\ m \in stream \ outstanding
    /\ MayDeliver(m)
    /\ outstanding' = outstanding \cup {m}
    /\ inbox' = inbox \cup {m}
    /\ attempts' = IF m.kind = "created"
                   THEN [attempts EXCEPT ![m.tx] = @ + 1]
                   ELSE attempts
    /\ NoFault
    /\ UNCHANGED <<dbVars, workerVars, stream, sent, handlerVars, histVars>>

\* No copy of the delivery is left in the client: its acknowledgement was lost
\* or the process restarted.
Abandoned(m) ==
    /\ m \in outstanding \ inbox
    /\ \A c \in Consumers : msg[c] # m

\* AckWait runs out: always for an abandoned delivery; for one that waits in
\* the buffer or is being handled, when the client is slow.
AckWaitExpires(m) ==
    /\ m \in outstanding
    /\ IF Abandoned(m) THEN NoFault ELSE Fault
    /\ outstanding' = outstanding \ {m}
    /\ UNCHANGED <<dbVars, workerVars, stream, sent, inbox, attempts,
                   handlerVars, histVars>>

\* The callback of c takes the next buffered delivery.
Take(c, m) ==
    /\ stage[c] = "idle"
    /\ m \in inbox
    /\ ConsumerOf(m.kind) = c
    /\ inbox' = inbox \ {m}

\* The callback goes on to stage s with a message to publish.
Proceed(c, m, s, kind) ==
    /\ stage' = [stage EXCEPT ![c] = s]
    /\ msg' = [msg EXCEPT ![c] = m]
    /\ out' = [out EXCEPT ![c] = kind]

\* The callback returns.
Return(c) == Proceed(c, NoMsg, "idle", "none")

\* msg.Nak(): JetStream may deliver the message again.
Nak(m) == outstanding' = outstanding \ {m}

\* The callback of c publishes its result; an error ends in a Nak.
Publish(c) ==
    /\ stage[c] = "publish"
    /\ Store(msg[c].tx, out[c])
    /\ Proceed(c, msg[c], "ack", "none")
    /\ NoFault
    /\ UNCHANGED <<dbVars, workerVars, outstanding, inbox, attempts, charges>>

PublishFails(c) ==
    /\ Fault
    /\ stage[c] = "publish"
    /\ StoreOrNot(msg[c].tx, out[c])
    /\ Nak(msg[c])
    /\ Return(c)
    /\ UNCHANGED <<dbVars, workerVars, inbox, attempts, charges>>

\* msg.Ack() comes after the publish or the commit; the wrong callback may
\* acknowledge first.
WrongDone(c) == stage[c] # "idle"

Done(c) == stage[c] = "ack"

\* WorkQueue retention: an acknowledged message is deleted; the wrong queue
\* keeps it.
WrongAcknowledge(m) == UNCHANGED stream /\ outstanding' = outstanding \ {m}

Acknowledge(m) == stream' = stream \ {m} /\ outstanding' = outstanding \ {m}

\* The acknowledgement reaches the server.
Ack(c) ==
    /\ Done(c)
    /\ Acknowledge(msg[c])
    /\ Return(c)
    /\ NoFault
    /\ UNCHANGED <<dbVars, workerVars, sent, inbox, attempts, histVars>>

\* The acknowledgement is lost: the message is still outstanding.
AckLost(c) ==
    /\ Fault
    /\ Done(c)
    /\ Return(c)
    /\ UNCHANGED <<dbVars, workerVars, brokerVars, histVars>>

\* The process of consumer c restarts and loses its buffer.
ConsumerCrash(c) ==
    /\ Fault
    /\ stage[c] # "idle" \/ \E m \in inbox : ConsumerOf(m.kind) = c
    /\ inbox' = {m \in inbox : ConsumerOf(m.kind) # c}
    /\ Return(c)
    /\ UNCHANGED <<dbVars, workerVars, stream, sent, outstanding, attempts,
                   histVars>>

-----------------------------------------------------------------------------
(* The three callbacks, up to the point where they publish or acknowledge. *)

\* risk-service: the verdict is any verdict (see RiskEngine): a redelivery
\* meets other velocity counters and may decide differently.
RiskEvaluate(m) ==
    /\ Take("risk", m)
    /\ \E verdict \in Verdicts : Proceed("risk", m, "publish", verdict)
    /\ NoFault
    /\ UNCHANGED <<dbVars, workerVars, stream, sent, outstanding, attempts,
                   histVars>>

\* The provider takes the money but its answer is lost: callWithRetry sees a
\* transient error and calls again, with no idempotency key.
AnswerLost(m) ==
    /\ Fault
    /\ stage["provider"] = "idle"
    /\ m \in inbox
    /\ ConsumerOf(m.kind) = "provider"
    /\ charges' = [charges EXCEPT ![m.tx] = @ + 1]
    /\ UNCHANGED <<dbVars, workerVars, brokerVars, handlerVars, evidence>>

\* provider-service: ProcessPayment returns a result.
ProcessPayment(m) ==
    /\ Take("provider", m)
    /\ \E result \in Results :
          /\ Proceed("provider", m, "publish", result)
          /\ charges' = IF result = "captured"
                        THEN [charges EXCEPT ![m.tx] = @ + 1]
                        ELSE charges
    /\ NoFault
    /\ UNCHANGED <<dbVars, workerVars, stream, sent, outstanding, attempts,
                   evidence>>

\* ProcessPayment returns an error (provider list unreadable, no adapter).
ProcessPaymentFails(m) ==
    /\ Fault
    /\ Take("provider", m)
    /\ Nak(m)
    /\ UNCHANGED <<dbVars, workerVars, stream, sent, attempts, handlerVars,
                   histVars>>

\* The UPDATE has no condition on the current status; the wrong one skips rows
\* that have left processing.
WrongTarget(m) == {tx \in {m.tx} : status[tx] = "processing"}

Target(m) == {m.tx}

\* CreateDelivery for a merchant with an active webhook; the wrong one only
\* when the update ends the processing, not when it corrects a settled row.
WrongNotify(tx, new) ==
    outbox' = IF tx \in Configured /\ status[tx] = "processing"
              THEN [outbox EXCEPT ![tx] = @ \cup {new}]
              ELSE outbox

Notify(tx, new) ==
    outbox' = IF tx \in Configured
              THEN [outbox EXCEPT ![tx] = @ \cup {new}]
              ELSE outbox

\* transaction-updater: one database transaction writes the status, whatever
\* the row's status is, and the webhook row of a configured merchant.
UpdateStatusWithWebhook(m) ==
    LET new == MapCompletedStatus(m.kind)
    IN  /\ Take("updater", m)
        /\ SetStatus(Target(m), new)
        /\ Notify(m.tx, new)
        /\ Proceed("updater", m, "ack", "none")
        /\ NoFault
        /\ UNCHANGED <<workerVars, stream, sent, outstanding, attempts,
                       histVars>>

\* The read of the merchant's configuration fails: GetMerchantConfig reports
\* "no webhook" and the status is committed without a webhook row.
UpdateStatusWithoutWebhook(m) ==
    /\ Fault
    /\ Take("updater", m)
    /\ m.tx \in Configured
    /\ SetStatus(Target(m), MapCompletedStatus(m.kind))
    /\ Proceed("updater", m, "ack", "none")
    /\ UNCHANGED <<outbox, workerVars, stream, sent, outstanding, attempts,
                   histVars>>

\* The database transaction does not commit: Nak.
UpdateStatusFails(m) ==
    /\ Fault
    /\ Take("updater", m)
    /\ Nak(m)
    /\ UNCHANGED <<dbVars, workerVars, stream, sent, attempts, handlerVars,
                   histVars>>

-----------------------------------------------------------------------------
WorkerNext(w) ==
    \/ FetchPending(w)
    \/ FetchStuck(w)
    \/ WorkerCrash(w)
    \/ \E tx \in Txs : PublishCreated(w, tx) \/ PublishCreatedFails(w, tx)

BrokerNext == \E m \in stream : Deliver(m) \/ AckWaitExpires(m)

CallbackNext ==
    \E m \in inbox :
        \/ RiskEvaluate(m)
        \/ ProcessPayment(m)
        \/ AnswerLost(m)
        \/ ProcessPaymentFails(m)
        \/ UpdateStatusWithWebhook(m)
        \/ UpdateStatusWithoutWebhook(m)
        \/ UpdateStatusFails(m)

ConsumerNext(c) ==
    \/ Publish(c)
    \/ PublishFails(c)
    \/ Ack(c)
    \/ AckLost(c)
    \/ ConsumerCrash(c)

Next ==
    \/ \E tx \in Txs : CreatePayment(tx) \/ Age(tx)
    \/ \E w \in Workers : WorkerNext(w)
    \/ BrokerNext
    \/ CallbackNext
    \/ \E c \in Consumers : ConsumerNext(c)

Spec == Init /\ [][Next]_vars

(***************************************************************************)
(* Fairness.  Tickers keep firing and time passes (FetchPending,           *)
(* FetchStuck, Age); a claimed row is published; JetStream delivers what   *)
(* it can deliver and expires abandoned deliveries; a callback with a      *)
(* message in its buffer takes it and runs to its end.  Nothing is assumed *)
(* of faults except that a behaviour has at most MaxFaults of them.        *)
(***************************************************************************)
Fairness ==
    /\ \A w \in Workers :
          /\ WF_vars(FetchPending(w))
          /\ WF_vars(FetchStuck(w))
          /\ WF_vars(\E tx \in Txs : PublishCreated(w, tx))
    /\ \A tx \in Txs : WF_vars(Age(tx))
    /\ WF_vars(\E m \in stream : Deliver(m))
    /\ WF_vars(\E m \in stream : Abandoned(m) /\ AckWaitExpires(m))
    /\ WF_vars(\E m \in inbox : RiskEvaluate(m))
    /\ WF_vars(\E m \in inbox : ProcessPayment(m))
    /\ WF_vars(\E m \in inbox : UpdateStatusWithWebhook(m))
    /\ \A c \in Consumers : WF_vars(Publish(c)) /\ WF_vars(Ack(c))

FairSpec == Spec /\ Fairness

-----------------------------------------------------------------------------
(* Properties *)

\* Every variable keeps its type, and no counter passes its bound.
TypeOK ==
    /\ status \in [Txs -> Statuses]
    /\ stale \in [Txs -> BOOLEAN]
    /\ batch \in [Workers -> SUBSET Txs]
    /\ stream \subseteq Messages
    /\ sent \in [Txs -> Nat]
    /\ outstanding \subseteq Messages
    /\ inbox \subseteq Messages
    /\ attempts \in [Txs -> 0..MaxDeliver]
    /\ stage \in [Consumers -> {"idle", "publish", "ack"}]
    /\ msg \in [Consumers -> Messages \cup {NoMsg}]
    /\ out \in [Consumers -> Kinds \cup {"none"}]
    /\ outbox \in [Txs -> SUBSET Terminal]
    /\ evidence \in [Txs -> SUBSET Kinds]
    /\ charges \in [Txs -> Nat]
    /\ lost \subseteq Txs
    /\ faults \in 0..MaxFaults

\* A transaction in processing is never forgotten by everyone at once: a
\* worker still has the row in hand, or the stream still holds a message about
\* it, or it is one of the rows whose payment.created was given up.  This is
\* what "acknowledge only after the next event is published (or the status is
\* committed)" buys, under every interleaving of redeliveries and crashes.
NoLostPayment ==
    \A tx \in Txs :
        status[tx] = "processing" =>
            \/ \E w \in Workers : tx \in batch[w]
            \/ \E m \in stream : m.tx = tx
            \/ tx \in lost

\* payment.created is published at most once for a transaction, however many
\* workers poll the table: the claim by FetchPending is exclusive.
CreatedOnce ==
    \A tx \in Txs :
        /\ "created" \in evidence[tx] => \A w \in Workers : tx \notin batch[w]
        /\ \A m1, m2 \in stream :
              (m1.tx = tx /\ m2.tx = tx /\ m1.kind = "created"
                          /\ m2.kind = "created") => m1 = m2

\* Nobody's money is taken before risk-service has approved the payment, and a
\* result other than "blocked" is known only after that. This is the saga's
\* promise: provider-service also has POST /api/v1/process, which charges without
\* asking for a verdict. No service and no route of the gateway calls it, and it
\* is no part of this module.
ChargeNeedsApproval ==
    \A tx \in Txs :
        charges[tx] > 0 \/ evidence[tx] \cap Results # {}
            => "approved" \in evidence[tx]

\* How far a message is on its way from payment.created to the database.
Rank(kind) ==
    CASE kind = "created" -> 0
      [] kind = "approved" -> 1
      [] OTHER -> 2

\* The inductive invariant behind the safety properties, part by part.

\* A callback at work holds a message of its own subject, and publishes what
\* its service may publish; a captured result has already been charged.
CallbackInv ==
    \A c \in Consumers :
        /\ stage[c] = "idle" <=> msg[c] = NoMsg
        /\ stage[c] # "idle" => ConsumerOf(msg[c].kind) = c
        /\ stage[c] = "publish" =>
              /\ \/ c = "risk" /\ out[c] \in Verdicts
                 \/ c = "provider" /\ out[c] \in Results
              /\ out[c] = "captured" => charges[msg[c].tx] > 0

\* Every copy of a message, on the server or in a client, was published.
PublishedInv ==
    /\ \A m \in stream \cup inbox \cup outstanding : m.kind \in evidence[m.tx]
    /\ \A c \in Consumers :
          stage[c] # "idle" => msg[c].kind \in evidence[msg[c].tx]

\* A row that was not claimed is in no batch and nothing was published about
\* it; a row in a batch is in that batch only, and not yet published.
ClaimInv ==
    \A tx \in Txs :
        /\ status[tx] \in {"none", "pending"} =>
              evidence[tx] = {} /\ \A w \in Workers : tx \notin batch[w]
        /\ \A w \in Workers :
              tx \in batch[w] =>
                  /\ "created" \notin evidence[tx]
                  /\ \A v \in Workers : tx \in batch[v] => v = w

\* When a callback is about to acknowledge, the payment no longer depends on
\* its message: it is settled, or a message further down the road is stored.
SupersededInv ==
    \A c \in Consumers :
        stage[c] = "ack" =>
            \/ status[msg[c].tx] # "processing"
            \/ \E m \in stream : /\ m.tx = msg[c].tx
                                  /\ Rank(m.kind) > Rank(msg[c].kind)

\* What may still lead to a charge of tx without a further fault: the publish of
\* payment.created, an approval that risk-service is about to publish, and the
\* messages that wait for a callback, on the server or in a client.
Unpublished(tx) == IF "created" \in evidence[tx] THEN 0 ELSE 1

AboutToApprove(tx) ==
    IF /\ stage["risk"] = "publish" /\ out["risk"] = "approved"
       /\ msg["risk"].tx = tx
    THEN 1 ELSE 0

LeadsToCharge(m, tx) == m.tx = tx /\ m.kind \in {"created", "approved"}

Waiting(tx) ==
    {m \in stream : /\ LeadsToCharge(m, tx)
                    /\ m \notin outstanding \/ Abandoned(m)}

Buffered(tx) == {m \in inbox : LeadsToCharge(m, tx)}

\* The first charge is due; each one more, made or to come, cost a fault.
ChargesPaid ==
    \A tx \in Txs :
        /\ IsFiniteSet(Waiting(tx)) /\ IsFiniteSet(Buffered(tx))
        /\ charges[tx] + Unpublished(tx) + AboutToApprove(tx)
              + Cardinality(Waiting(tx)) + Cardinality(Buffered(tx))
             <= 1 + faults

\* A customer is charged a second time only if something went wrong: every
\* further charge of a transaction is paid for by a fault of its own.  Without
\* faults the choreography charges exactly once although nobody deduplicates.
EveryDoubleChargeHasAFault == \A tx \in Txs : charges[tx] <= 1 + faults

\* The status in the database is backed by what the other services said: a
\* captured row by a captured charge, a blocked row by a verdict, a declined
\* row by a decline.  Only "failed" may come from the stuck resolver alone.
StatusBacked ==
    \A tx \in Txs :
        /\ status[tx] \in Terminal \ {"failed"} => status[tx] \in evidence[tx]
        /\ "captured" \in evidence[tx] => charges[tx] > 0

\* No webhook row announces something that did not happen.
NoFalseWebhook == \A tx \in Txs : outbox[tx] \subseteq evidence[tx]

\* Payments of merchants with a webhook whose reported status has no webhook
\* row. "failed" is not among them: it may be the stuck resolver's.
Unnotified ==
    {tx \in Configured :
        status[tx] \in Terminal \ {"failed"} /\ status[tx] \notin outbox[tx]}

\* The other half: a status that a service reported is announced, also when it
\* replaces an earlier one, and every payment whose notification is lost has
\* cost a fault of its own, an error that GetMerchantConfig took for "no webhook".
LostNotificationsHaveFaults == Cardinality(Unnotified) <= faults

\* A transaction that has left processing never returns to pending or to
\* processing: no step of any actor re-opens a finished payment.
NeverReopened ==
    [][\A tx \in Txs : status[tx] \in Terminal => status'[tx] \in Terminal]_vars

\* Every accepted payment ends: the poller claims it, and either the saga or
\* the stuck resolver settles it, whatever is lost on the way.
EventuallySettled ==
    \A tx \in Txs : status[tx] = "pending" ~> status[tx] \in Terminal

\* When the providers gave a transaction exactly one result, and it is
\* "captured", the row ends captured even if the stuck resolver had already
\* failed it: the late event is applied.
CaptureReachesDatabase ==
    \A tx \in Txs :
        evidence[tx] = {"created", "approved", "captured"}
            ~> \/ status[tx] = "captured"
               \/ evidence[tx] # {"created", "approved", "captured"}

\* Every verdict of risk-service is acted on: an approved payment gets a result
\* from a provider, however often the callback is interrupted.
ApprovedGetsResult ==
    \A tx \in Txs :
        "approved" \in evidence[tx] ~> evidence[tx] \cap Results # {}

\* Everything above that the saga keeps, as one inductive invariant.
SagaInv ==
    /\ TypeOK
    /\ CallbackInv
    /\ PublishedInv
    /\ ClaimInv
    /\ SupersededInv
    /\ NoLostPayment
    /\ CreatedOnce
    /\ ChargeNeedsApproval
    /\ StatusBacked
    /\ NoFalseWebhook
    /\ ChargesPaid

\* The saga implements the lifecycle a merchant may rely on: its services and
\* queues are hidden, and what is known of a payment is what was published.
Lifecycle == INSTANCE PaymentLifecycle WITH
    known <- [tx \in Txs |-> evidence[tx] \cap Terminal]

ImplementsLifecycle == Lifecycle!Spec

-----------------------------------------------------------------------------
(* What the documents say of the saga, and the code does not keep. *)

\* domain.validTransitions.
ValidTransition(from, to) ==
    \/ from = "none" /\ to = "pending"
    \/ from = "pending" /\ to = "processing"
    \/ from = "processing" /\ to \in Terminal
    \/ from = "captured" /\ to = "refunded"

\* transaction-service README: transitions the state machine does not allow
\* are rejected.
OnlyValidTransitions ==
    [][\A tx \in Txs :
          status'[tx] # status[tx] =>
              ValidTransition(status[tx], status'[tx])]_vars

\* README: exactly-once semantics of payment operations.
ChargedAtMostOnce == \A tx \in Txs : charges[tx] <= 1

\* ADR-005: it is impossible that the status is updated and the notification
\* is lost.
SettledIsNotified ==
    \A tx \in Configured :
        status[tx] \in Terminal => status[tx] \in outbox[tx]

\* risk-service consumer: the evaluator gives the same result for the same
\* event, so a redelivery cannot change the verdict.
OneVerdict == \A tx \in Txs : ~(Verdicts \subseteq evidence[tx])
=============================================================================
