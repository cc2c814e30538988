------------------------- MODULE PaymentSagaProofs -------------------------
(***************************************************************************)
(* Proofs about PaymentSaga, for every set of transactions and workers and *)
(* every bound.  SagaInv is inductive; the safety properties and the       *)
(* refinement of PaymentLifecycle follow from it.                          *)
(***************************************************************************)
EXTENDS PaymentSaga, FiniteSetTheorems, TLAPS

\* The initial states satisfy the inductive invariant.
LEMMA InitSagaInv == Init => SagaInv
<1> SUFFICES ASSUME Init PROVE SagaInv
  OBVIOUS
<1> USE ConstantsAssumption DEF Init
<1>1. TypeOK
  BY DEF TypeOK, Statuses, Kinds
<1>2. CallbackInv /\ PublishedInv /\ ClaimInv /\ SupersededInv
  BY DEF CallbackInv, PublishedInv, ClaimInv, SupersededInv
<1>3. NoLostPayment /\ CreatedOnce /\ ChargeNeedsApproval
  BY DEF NoLostPayment, CreatedOnce, ChargeNeedsApproval
<1>4. StatusBacked /\ NoFalseWebhook
  BY DEF StatusBacked, NoFalseWebhook, Terminal
<1>5. ChargesPaid
  <2> SUFFICES ASSUME NEW tx \in Txs
      PROVE  /\ IsFiniteSet(Waiting(tx)) /\ IsFiniteSet(Buffered(tx))
             /\ charges[tx] + Unpublished(tx) + AboutToApprove(tx)
                   + Cardinality(Waiting(tx)) + Cardinality(Buffered(tx))
                  <= 1 + faults
    BY DEF ChargesPaid
  <2>1. Waiting(tx) = {} /\ Buffered(tx) = {}
    BY DEF Waiting, Buffered
  <2>2. IsFiniteSet({}) /\ Cardinality({}) = 0
    BY FS_EmptySet
  <2>3. Unpublished(tx) = 1 /\ AboutToApprove(tx) = 0
    BY DEF Unpublished, AboutToApprove, Consumers
  <2>4. charges[tx] = 0 /\ faults = 0
    OBVIOUS
  <2> QED
    BY <2>1, <2>2, <2>3, <2>4
<1> QED
  BY <1>1, <1>2, <1>3, <1>4, <1>5 DEF SagaInv

-----------------------------------------------------------------------------
(* Type correctness. *)

\* A step of the database keeps the types of the columns it writes.
LEMMA SetStatusType ==
  ASSUME NEW rows, NEW new \in Statuses, SetStatus(rows, new), TypeOK
  PROVE  status' \in [Txs -> Statuses] /\ stale' \in [Txs -> BOOLEAN]
BY DEF SetStatus, TypeOK

\* Storing a message keeps the types of the stream and of its history.
LEMMA StoreType ==
  ASSUME NEW tx \in Txs, NEW kind \in Kinds, StoreOrNot(tx, kind), TypeOK
  PROVE  /\ stream' \subseteq Messages
         /\ sent' \in [Txs -> Nat]
         /\ evidence' \in [Txs -> SUBSET Kinds]
BY DEF StoreOrNot, Store, TypeOK, Messages

\* The status the updater writes is terminal, and is what the message says.
LEMMA MapCompletedStatusTerminal ==
  ASSUME NEW kind \in Kinds, ConsumerOf(kind) = "updater"
  PROVE  MapCompletedStatus(kind) \in Terminal /\ MapCompletedStatus(kind) = kind
BY DEF Kinds, Verdicts, Results, ConsumerOf, MapCompletedStatus, Terminal

\* A fault stays within its bound.
LEMMA FaultType ==
  ASSUME TypeOK, Fault \/ NoFault
  PROVE  faults' \in 0..MaxFaults
BY ConstantsAssumption DEF TypeOK, Fault, NoFault

\* What a callback holds while it is at work.
LEMMA AtWork ==
  ASSUME TypeOK, CallbackInv, NEW c \in Consumers, stage[c] # "idle"
  PROVE  /\ msg[c] \in Messages
         /\ msg[c].tx \in Txs
         /\ msg[c].kind \in Kinds
         /\ stage[c] = "publish" => out[c] \in Kinds
BY DEF TypeOK, CallbackInv, Messages, Kinds

\* Every step of the saga keeps the types.
LEMMA TypeStep == SagaInv /\ Next => TypeOK'
<1> SUFFICES ASSUME TypeOK, CallbackInv, Next PROVE TypeOK'
  BY DEF SagaInv
<1> USE DEF workerVars, brokerVars, handlerVars, histVars, dbVars
<1>1. ASSUME NEW tx \in Txs, CreatePayment(tx) PROVE TypeOK'
  <2>1. status' \in [Txs -> Statuses] /\ stale' \in [Txs -> BOOLEAN]
    BY <1>1, SetStatusType DEF CreatePayment, Statuses
  <2> QED BY <1>1, <2>1 DEF CreatePayment, NoFault, TypeOK
<1>2. ASSUME NEW tx \in Txs, Age(tx) PROVE TypeOK'
  BY <1>2 DEF Age, NoFault, TypeOK
<1>3. ASSUME NEW w \in Workers, FetchPending(w) PROVE TypeOK'
  <2> PICK rows \in SUBSET Txs :
        Claim(rows) /\ batch' = [batch EXCEPT ![w] = rows]
    BY <1>3 DEF FetchPending
  <2>1. status' \in [Txs -> Statuses] /\ stale' \in [Txs -> BOOLEAN]
    BY SetStatusType DEF Claim, Statuses
  <2> QED BY <1>3, <2>1 DEF FetchPending, NoFault, TypeOK
<1>4. ASSUME NEW w \in Workers, FetchStuck(w) PROVE TypeOK'
  <2> PICK rows \in SUBSET Txs : SetStatus(rows, "failed")
    BY <1>4 DEF FetchStuck
  <2>1. status' \in [Txs -> Statuses] /\ stale' \in [Txs -> BOOLEAN]
    BY SetStatusType DEF Statuses, Terminal
  <2> QED BY <1>4, <2>1 DEF FetchStuck, NoFault, TypeOK
<1>5. ASSUME NEW w \in Workers, WorkerCrash(w) PROVE TypeOK'
  BY <1>5, FaultType DEF WorkerCrash, TypeOK
<1>6. ASSUME NEW w \in Workers, NEW tx \in Txs,
             PublishCreated(w, tx) \/ PublishCreatedFails(w, tx)
      PROVE  TypeOK'
  <2>1. StoreOrNot(tx, "created") /\ "created" \in Kinds
    BY <1>6 DEF PublishCreated, PublishCreatedFails, StoreOrNot, Kinds
  <2>2. /\ stream' \subseteq Messages
        /\ sent' \in [Txs -> Nat]
        /\ evidence' \in [Txs -> SUBSET Kinds]
    BY <2>1, StoreType
  <2>3. faults' \in 0..MaxFaults
    BY <1>6, FaultType DEF PublishCreated, PublishCreatedFails
  <2> QED BY <1>6, <2>2, <2>3
          DEF PublishCreated, PublishCreatedFails, TypeOK
<1>7. ASSUME NEW m \in stream, Deliver(m) PROVE TypeOK'
  <2>1. m \in Messages /\ m.tx \in Txs
    BY DEF TypeOK, Messages
  <2>2. attempts' \in [Txs -> 0..MaxDeliver]
    BY <1>7, <2>1, ConstantsAssumption DEF Deliver, MayDeliver, TypeOK
  <2> QED BY <1>7, <2>1, <2>2 DEF Deliver, NoFault, TypeOK
<1>8. ASSUME NEW m \in stream, AckWaitExpires(m) PROVE TypeOK'
  BY <1>8, FaultType DEF AckWaitExpires, TypeOK
<1>9. ASSUME NEW m \in inbox, RiskEvaluate(m) PROVE TypeOK'
  BY <1>9 DEF RiskEvaluate, Take, Proceed, NoFault, TypeOK, Consumers, Kinds
<1>10. ASSUME NEW m \in inbox, ProcessPayment(m) PROVE TypeOK'
  <2>1. m \in Messages /\ m.tx \in Txs
    BY DEF TypeOK, Messages
  <2> QED BY <1>10, <2>1
          DEF ProcessPayment, Take, Proceed, NoFault, TypeOK, Consumers, Kinds
<1>11. ASSUME NEW m \in inbox, AnswerLost(m) PROVE TypeOK'
  <2>1. m.tx \in Txs
    BY DEF TypeOK, Messages
  <2> QED BY <1>11, <2>1, FaultType DEF AnswerLost, TypeOK
<1>12. ASSUME NEW m \in inbox,
              ProcessPaymentFails(m) \/ UpdateStatusFails(m)
       PROVE  TypeOK'
  BY <1>12, FaultType
     DEF ProcessPaymentFails, UpdateStatusFails, Take, Nak, TypeOK
<1>13. ASSUME NEW m \in inbox,
              UpdateStatusWithWebhook(m) \/ UpdateStatusWithoutWebhook(m)
       PROVE  TypeOK'
  <2>1. m \in Messages /\ m.tx \in Txs /\ m.kind \in Kinds
    BY DEF TypeOK, Messages
  <2>2. ConsumerOf(m.kind) = "updater"
    BY <1>13 DEF UpdateStatusWithWebhook, UpdateStatusWithoutWebhook, Take
  <2>3. MapCompletedStatus(m.kind) \in Terminal
    BY <2>1, <2>2, MapCompletedStatusTerminal
  <2>4. SetStatus(Target(m), MapCompletedStatus(m.kind))
    BY <1>13 DEF UpdateStatusWithWebhook, UpdateStatusWithoutWebhook
  <2>5. status' \in [Txs -> Statuses] /\ stale' \in [Txs -> BOOLEAN]
    BY <2>3, <2>4, SetStatusType DEF Statuses
  <2>6. outbox' \in [Txs -> SUBSET Terminal]
    BY <1>13, <2>1, <2>3
       DEF UpdateStatusWithWebhook, UpdateStatusWithoutWebhook, Notify,
           TypeOK
  <2>7. faults' \in 0..MaxFaults
    BY <1>13, FaultType
       DEF UpdateStatusWithWebhook, UpdateStatusWithoutWebhook
  <2> QED BY <1>13, <2>1, <2>5, <2>6, <2>7
          DEF UpdateStatusWithWebhook, UpdateStatusWithoutWebhook, Take,
              Proceed, TypeOK, Consumers, Kinds
<1>14. ASSUME NEW c \in Consumers, Publish(c) \/ PublishFails(c) PROVE TypeOK'
  <2>1. stage[c] = "publish"
    BY <1>14 DEF Publish, PublishFails
  <2>2. msg[c] \in Messages /\ msg[c].tx \in Txs /\ out[c] \in Kinds
    BY <2>1, AtWork
  <2>3. StoreOrNot(msg[c].tx, out[c])
    BY <1>14 DEF Publish, PublishFails, StoreOrNot
  <2>4. /\ stream' \subseteq Messages
        /\ sent' \in [Txs -> Nat]
        /\ evidence' \in [Txs -> SUBSET Kinds]
    BY <2>2, <2>3, StoreType
  <2>5. faults' \in 0..MaxFaults
    BY <1>14, FaultType DEF Publish, PublishFails
  <2> QED BY <1>14, <2>2, <2>4, <2>5
          DEF Publish, PublishFails, Return, Proceed, Nak, TypeOK
<1>15. ASSUME NEW c \in Consumers, Ack(c) \/ AckLost(c) \/ ConsumerCrash(c)
       PROVE  TypeOK'
  BY <1>15, FaultType
     DEF Ack, AckLost, ConsumerCrash, Acknowledge, Return, Proceed, TypeOK
<1> QED
  BY <1>1, <1>2, <1>3, <1>4, <1>5, <1>6, <1>7, <1>8, <1>9, <1>10, <1>11,
     <1>12, <1>13, <1>14, <1>15
     DEF Next, WorkerNext, BrokerNext, CallbackNext, ConsumerNext

-----------------------------------------------------------------------------
(* The parts of the inductive invariant, one lemma each. *)

\* Callbacks hold a message of their own subject; what they are about to
\* publish belongs to their service.
LEMMA CallbackStep == SagaInv /\ Next => CallbackInv'
<1> SUFFICES ASSUME SagaInv, Next PROVE CallbackInv'
  OBVIOUS
<1> USE ConstantsAssumption
    DEF SagaInv, workerVars, brokerVars, handlerVars, histVars, dbVars
<1>1. CASE UNCHANGED <<stage, msg, out, charges>>
  BY <1>1 DEF CallbackInv
<1>2. ASSUME NEW m \in inbox, RiskEvaluate(m) PROVE CallbackInv'
  <2>1. m \in Messages /\ m # NoMsg
    BY DEF TypeOK
  <2> QED BY <1>2, <2>1
          DEF RiskEvaluate, Take, Proceed, CallbackInv, TypeOK, Consumers,
              Verdicts
<1>3. ASSUME NEW m \in inbox, ProcessPayment(m) PROVE CallbackInv'
  <2>1. m \in Messages /\ m # NoMsg /\ m.tx \in Txs
    BY DEF TypeOK, Messages
  <2>2. \A tx \in Txs : charges[tx] > 0 => charges'[tx] > 0
    BY <1>3, <2>1 DEF ProcessPayment, TypeOK
  <2>3. \A c \in Consumers : stage[c] # "idle" => msg[c].tx \in Txs
    BY AtWork
  <2> QED BY <1>3, <2>1, <2>2, <2>3
          DEF ProcessPayment, Take, Proceed, CallbackInv, TypeOK, Consumers
<1>4. ASSUME NEW m \in inbox, AnswerLost(m) PROVE CallbackInv'
  <2>1. m.tx \in Txs
    BY DEF TypeOK, Messages
  <2>2. \A tx \in Txs : charges[tx] > 0 => charges'[tx] > 0
    BY <1>4, <2>1 DEF AnswerLost, TypeOK
  <2>3. \A c \in Consumers : stage[c] # "idle" => msg[c].tx \in Txs
    BY AtWork
  <2> QED BY <1>4, <2>2, <2>3 DEF AnswerLost, CallbackInv
<1>5. ASSUME NEW m \in inbox,
             UpdateStatusWithWebhook(m) \/ UpdateStatusWithoutWebhook(m)
      PROVE  CallbackInv'
  <2>1. m \in Messages /\ m # NoMsg
    BY DEF TypeOK
  <2> QED BY <1>5, <2>1
          DEF UpdateStatusWithWebhook, UpdateStatusWithoutWebhook, Take,
              Proceed, CallbackInv, TypeOK, Consumers
<1>6. ASSUME NEW c \in Consumers, Publish(c) PROVE CallbackInv'
  <2>1. msg[c] \in Messages
    BY <1>6, AtWork DEF Publish
  <2> QED BY <1>6, <2>1 DEF Publish, Proceed, CallbackInv, TypeOK
<1>7. ASSUME NEW c \in Consumers, Return(c), UNCHANGED charges
      PROVE  CallbackInv'
  BY <1>7 DEF Return, Proceed, CallbackInv, TypeOK
<1>8. ASSUME NEW c \in Consumers, ConsumerNext(c) PROVE CallbackInv'
  BY <1>6, <1>7, <1>8
     DEF ConsumerNext, PublishFails, Ack, AckLost, ConsumerCrash
<1>9. ASSUME NEW w \in Workers, WorkerNext(w) PROVE CallbackInv'
  BY <1>1, <1>9 DEF WorkerNext, FetchPending, FetchStuck, WorkerCrash,
                    PublishCreated, PublishCreatedFails
<1>10. CASE CallbackNext
  BY <1>1, <1>2, <1>3, <1>4, <1>5, <1>10
     DEF CallbackNext, ProcessPaymentFails, UpdateStatusFails
<1> QED
  BY <1>1, <1>8, <1>9, <1>10
     DEF Next, BrokerNext, CreatePayment, Age, Deliver, AckWaitExpires

\* Storing a message only adds to the stream and to the history, and what it
\* adds is known to have been published.
LEMMA StoreEffect ==
  ASSUME TypeOK, NEW tx \in Txs, NEW kind \in Kinds, StoreOrNot(tx, kind)
  PROVE  /\ stream \subseteq stream'
         /\ \A m \in stream' \ stream :
               /\ m.tx = tx /\ m.kind = kind
               /\ evidence'[tx] = evidence[tx] \cup {kind}
               /\ stream' = stream \cup {m}
         /\ \A t \in Txs : evidence[t] \subseteq evidence'[t]
         /\ \A t \in Txs : evidence'[t] \subseteq evidence[t] \cup {kind}
         /\ \A t \in Txs \ {tx} : evidence'[t] = evidence[t]
BY DEF StoreOrNot, Store, TypeOK

\* Whatever is on the server or in a client has been published.
LEMMA PublishedStep == SagaInv /\ Next => PublishedInv'
<1> SUFFICES ASSUME SagaInv, Next PROVE PublishedInv'
  OBVIOUS
<1> USE DEF SagaInv, workerVars, brokerVars, handlerVars, histVars, dbVars
<1>0. \A m \in stream \cup inbox \cup outstanding : m.tx \in Txs
  BY DEF TypeOK, Messages
<1>1. CASE UNCHANGED <<brokerVars, evidence, stage, msg>>
  BY <1>1 DEF PublishedInv
<1>2. ASSUME NEW w \in Workers, NEW tx \in Txs,
             PublishCreated(w, tx) \/ PublishCreatedFails(w, tx)
      PROVE  PublishedInv'
  <2>1. StoreOrNot(tx, "created") /\ "created" \in Kinds
    BY <1>2 DEF PublishCreated, PublishCreatedFails, StoreOrNot, Kinds
  <2>2. \A c \in Consumers : stage[c] # "idle" => msg[c].tx \in Txs
    BY AtWork
  <2> QED BY <1>0, <1>2, <2>1, <2>2, StoreEffect
          DEF PublishCreated, PublishCreatedFails, PublishedInv
<1>3. ASSUME NEW m \in stream, Deliver(m) \/ AckWaitExpires(m)
      PROVE  PublishedInv'
  BY <1>3 DEF Deliver, AckWaitExpires, PublishedInv
<1>4. ASSUME NEW m \in inbox, NEW c \in Consumers, NEW s, NEW kind,
             Take(c, m), Proceed(c, m, s, kind),
             UNCHANGED <<stream, outstanding, evidence>>
      PROVE  PublishedInv'
  BY <1>4 DEF Take, Proceed, PublishedInv, TypeOK
<1>5. ASSUME NEW m \in inbox, ProcessPaymentFails(m) \/ UpdateStatusFails(m)
      PROVE  PublishedInv'
  BY <1>5 DEF ProcessPaymentFails, UpdateStatusFails, Take, Nak, PublishedInv
<1>6. ASSUME NEW c \in Consumers, Publish(c) \/ PublishFails(c)
      PROVE  PublishedInv'
  <2>1. stage[c] = "publish"
    BY <1>6 DEF Publish, PublishFails
  <2>2. msg[c].tx \in Txs /\ out[c] \in Kinds
    BY <2>1, AtWork
  <2>3. StoreOrNot(msg[c].tx, out[c])
    BY <1>6 DEF Publish, PublishFails, StoreOrNot
  <2>4. \A d \in Consumers : stage[d] # "idle" => msg[d].tx \in Txs
    BY AtWork
  <2>5. \A m \in stream' \cup inbox' \cup outstanding' :
           m.kind \in evidence'[m.tx]
    BY <1>0, <1>6, <2>2, <2>3, StoreEffect
       DEF Publish, PublishFails, Nak, PublishedInv
  <2>6. \A d \in Consumers :
           stage'[d] # "idle" => stage[d] # "idle" /\ msg'[d] = msg[d]
    BY <1>6, <2>1 DEF Publish, PublishFails, Return, Proceed, TypeOK
  <2> QED BY <2>2, <2>3, <2>4, <2>5, <2>6, StoreEffect DEF PublishedInv
<1>7. ASSUME NEW c \in Consumers, Ack(c) \/ AckLost(c) \/ ConsumerCrash(c)
      PROVE  PublishedInv'
  BY <1>7 DEF Ack, AckLost, ConsumerCrash, Acknowledge, Return, Proceed,
              PublishedInv, TypeOK
<1>8. CASE CallbackNext
  <2>1. "risk" \in Consumers /\ "provider" \in Consumers /\ "updater" \in Consumers
    BY DEF Consumers
  <2> QED BY <1>1, <1>4, <1>5, <1>8, <2>1
          DEF CallbackNext, RiskEvaluate, ProcessPayment, AnswerLost,
              UpdateStatusWithWebhook, UpdateStatusWithoutWebhook
<1>9. ASSUME NEW w \in Workers, WorkerNext(w) PROVE PublishedInv'
  BY <1>1, <1>2, <1>9 DEF WorkerNext, FetchPending, FetchStuck, WorkerCrash
<1> QED
  BY <1>1, <1>3, <1>6, <1>7, <1>8, <1>9
     DEF Next, BrokerNext, ConsumerNext, CreatePayment, Age

\* The claim of pending rows is exclusive, and nothing is published about a
\* row that was never claimed.
LEMMA ClaimStep == SagaInv /\ Next => ClaimInv'
<1> SUFFICES ASSUME SagaInv, Next PROVE ClaimInv'
  OBVIOUS
<1> USE DEF SagaInv, workerVars, brokerVars, handlerVars, histVars, dbVars
<1>1. CASE UNCHANGED <<status, evidence, batch>>
  BY <1>1 DEF ClaimInv
<1>2. ASSUME NEW tx \in Txs, CreatePayment(tx) PROVE ClaimInv'
  BY <1>2 DEF CreatePayment, SetStatus, ClaimInv
<1>3. ASSUME NEW w \in Workers, FetchPending(w) PROVE ClaimInv'
  <2> PICK rows \in SUBSET Txs :
        /\ Limited(rows, PendingRows)
        /\ Claim(rows)
        /\ batch' = [batch EXCEPT ![w] = rows]
    BY <1>3 DEF FetchPending
  <2>1. \A tx \in rows : status[tx] = "pending"
    BY DEF Limited, PendingRows
  <2>2. \A tx \in rows : "created" \notin evidence[tx]
    BY <2>1 DEF ClaimInv
  <2>3. \A tx \in rows, v \in Workers : tx \notin batch[v]
    BY <2>1 DEF ClaimInv
  <2>4. UNCHANGED evidence /\ batch[w] = {}
    BY <1>3 DEF FetchPending, WorkerIdle
  <2>5. \A tx \in Txs : status'[tx] \in {"none", "pending"} =>
           tx \notin rows /\ status[tx] \in {"none", "pending"}
    BY DEF Claim, SetStatus, TypeOK
  <2>6. \A v \in Workers : batch'[v] = IF v = w THEN rows ELSE batch[v]
    BY DEF TypeOK
  <2> QED BY <2>2, <2>3, <2>4, <2>5, <2>6 DEF ClaimInv
<1>4. ASSUME NEW w \in Workers, FetchStuck(w) PROVE ClaimInv'
  <2> PICK rows \in SUBSET Txs : SetStatus(rows, "failed")
    BY <1>4 DEF FetchStuck
  <2> QED BY <1>4 DEF FetchStuck, SetStatus, ClaimInv
<1>5. ASSUME NEW w \in Workers, WorkerCrash(w) PROVE ClaimInv'
  BY <1>5 DEF WorkerCrash, ClaimInv, TypeOK
<1>6. ASSUME NEW w \in Workers, NEW tx \in Txs,
             PublishCreated(w, tx) \/ PublishCreatedFails(w, tx)
      PROVE  ClaimInv'
  <2>1. StoreOrNot(tx, "created") /\ "created" \in Kinds
    BY <1>6 DEF PublishCreated, PublishCreatedFails, StoreOrNot, Kinds
  <2>2. /\ tx \in batch[w] /\ UNCHANGED status
        /\ batch' = [batch EXCEPT ![w] = @ \ {tx}]
    BY <1>6 DEF PublishCreated, PublishCreatedFails
  <2>3. \A v \in Workers : tx \notin batch'[v]
    BY <2>2 DEF ClaimInv, TypeOK
  <2>4. \A v \in Workers : batch'[v] \subseteq batch[v]
    BY <2>2 DEF TypeOK
  <2>5. status[tx] \notin {"none", "pending"}
    BY <2>2 DEF ClaimInv
  <2>6. \A t \in Txs \ {tx} : evidence'[t] = evidence[t]
    BY <2>1, StoreEffect
  <2> QED BY <2>2, <2>3, <2>4, <2>5, <2>6 DEF ClaimInv
<1>7. ASSUME NEW c \in Consumers, Publish(c) \/ PublishFails(c)
      PROVE  ClaimInv'
  <2>1. stage[c] = "publish"
    BY <1>7 DEF Publish, PublishFails
  <2>2. msg[c].tx \in Txs /\ out[c] \in Kinds /\ out[c] # "created"
    BY <2>1, AtWork DEF CallbackInv, Verdicts, Results
  <2>3. StoreOrNot(msg[c].tx, out[c]) /\ UNCHANGED <<status, batch>>
    BY <1>7 DEF Publish, PublishFails, StoreOrNot
  <2>4. evidence[msg[c].tx] # {}
    BY <2>1 DEF PublishedInv
  <2>5. status[msg[c].tx] \notin {"none", "pending"}
    BY <2>2, <2>4 DEF ClaimInv
  <2> QED BY <2>2, <2>3, <2>5, StoreEffect DEF ClaimInv
<1>8. ASSUME NEW m \in inbox,
             UpdateStatusWithWebhook(m) \/ UpdateStatusWithoutWebhook(m)
      PROVE  ClaimInv'
  <2>1. m.tx \in Txs /\ m.kind \in Kinds
    BY DEF TypeOK, Messages
  <2>2. MapCompletedStatus(m.kind) \in Terminal
    BY <1>8, <2>1, MapCompletedStatusTerminal
       DEF UpdateStatusWithWebhook, UpdateStatusWithoutWebhook, Take
  <2>3. /\ SetStatus(Target(m), MapCompletedStatus(m.kind))
        /\ UNCHANGED <<batch, evidence>>
    BY <1>8 DEF UpdateStatusWithWebhook, UpdateStatusWithoutWebhook
  <2>4. \A t \in Txs : status'[t] \in {"none", "pending"} => status'[t] = status[t]
    BY <2>2, <2>3 DEF SetStatus, Terminal
  <2> QED BY <2>3, <2>4 DEF ClaimInv
<1>9. ASSUME NEW w \in Workers, WorkerNext(w) PROVE ClaimInv'
  BY <1>3, <1>4, <1>5, <1>6, <1>9 DEF WorkerNext
<1>10. CASE CallbackNext
  BY <1>1, <1>8, <1>10
     DEF CallbackNext, RiskEvaluate, ProcessPayment, AnswerLost,
         ProcessPaymentFails, UpdateStatusFails
<1>11. ASSUME NEW c \in Consumers, ConsumerNext(c) PROVE ClaimInv'
  BY <1>1, <1>7, <1>11 DEF ConsumerNext, Ack, AckLost, ConsumerCrash
<1> QED
  BY <1>1, <1>2, <1>9, <1>10, <1>11
     DEF Next, BrokerNext, Deliver, AckWaitExpires, Age

\* Only the poller brings a row into processing, and then has it in hand.
LEMMA ToProcessing ==
  ASSUME SagaInv, Next, NEW tx \in Txs, status'[tx] = "processing"
  PROVE  \/ status[tx] = "processing"
         \/ status[tx] = "pending" /\ \E w \in Workers : tx \in batch'[w]
<1> USE DEF SagaInv, workerVars, brokerVars, handlerVars, histVars, dbVars
<1> DEFINE Goal == \/ status[tx] = "processing"
                   \/ status[tx] = "pending" /\ \E w \in Workers : tx \in batch'[w]
<1>1. ASSUME NEW t \in Txs, CreatePayment(t) PROVE Goal
  BY <1>1 DEF CreatePayment, SetStatus
<1>2. ASSUME NEW w \in Workers, FetchPending(w) PROVE Goal
  <2> PICK rows \in SUBSET Txs :
        /\ Limited(rows, PendingRows)
        /\ Claim(rows)
        /\ batch' = [batch EXCEPT ![w] = rows]
    BY <1>2 DEF FetchPending
  <2> QED BY DEF Limited, PendingRows, Claim, SetStatus, TypeOK
<1>3. ASSUME NEW w \in Workers, FetchStuck(w) PROVE Goal
  BY <1>3 DEF FetchStuck, SetStatus
<1>4. ASSUME NEW m \in inbox,
             UpdateStatusWithWebhook(m) \/ UpdateStatusWithoutWebhook(m)
      PROVE  Goal
  <2>1. m.kind \in Kinds
    BY DEF TypeOK, Messages
  <2>2. MapCompletedStatus(m.kind) # "processing"
    BY <1>4, <2>1, MapCompletedStatusTerminal
       DEF UpdateStatusWithWebhook, UpdateStatusWithoutWebhook, Take, Terminal
  <2> QED BY <1>4, <2>2
          DEF UpdateStatusWithWebhook, UpdateStatusWithoutWebhook, SetStatus
<1>5. CASE UNCHANGED status
  BY <1>5
<1>6. ASSUME NEW w \in Workers, WorkerNext(w) PROVE Goal
  BY <1>2, <1>3, <1>5, <1>6
     DEF WorkerNext, WorkerCrash, PublishCreated, PublishCreatedFails
<1>7. CASE CallbackNext
  BY <1>4, <1>5, <1>7
     DEF CallbackNext, RiskEvaluate, ProcessPayment, AnswerLost,
         ProcessPaymentFails, UpdateStatusFails
<1>8. ASSUME NEW c \in Consumers, ConsumerNext(c) PROVE Goal
  BY <1>5, <1>8
     DEF ConsumerNext, Publish, PublishFails, Ack, AckLost, ConsumerCrash
<1> QED
  BY <1>1, <1>5, <1>6, <1>7, <1>8
     DEF Next, BrokerNext, Deliver, AckWaitExpires, Age

\* A stored message is on the stream.
LEMMA StoreAdds ==
  ASSUME NEW tx, NEW kind, Store(tx, kind)
  PROVE  stream \subseteq stream' /\ \E m \in stream' : m.tx = tx /\ m.kind = kind
<1> DEFINE new == [tx |-> tx, kind |-> kind, no |-> sent[tx]]
<1>1. new \in stream' /\ stream \subseteq stream'
  BY DEF Store
<1>2. new.tx = tx /\ new.kind = kind
  OBVIOUS
<1> QED
  BY <1>1, <1>2

\* A callback at work handles a claimed row, which can only leave processing.
LEMMA AtWorkClaimed ==
  ASSUME SagaInv, Next, NEW c \in Consumers, stage[c] # "idle",
         status'[msg[c].tx] = "processing"
  PROVE  status[msg[c].tx] = "processing"
<1>1. msg[c].tx \in Txs
  BY AtWork DEF SagaInv
<1>2. evidence[msg[c].tx] # {}
  BY DEF SagaInv, PublishedInv
<1>3. status[msg[c].tx] # "pending"
  BY <1>1, <1>2 DEF SagaInv, ClaimInv
<1> QED
  BY <1>1, <1>3, ToProcessing

\* Before a callback acknowledges, its message has been superseded.
LEMMA SupersededStep == SagaInv /\ Next => SupersededInv'
<1> SUFFICES ASSUME SagaInv, Next PROVE SupersededInv'
  OBVIOUS
<1> USE DEF SagaInv, workerVars, brokerVars, handlerVars, histVars, dbVars
<1>1. ASSUME stream \subseteq stream',
             \A c \in Consumers :
                stage'[c] = "ack" => stage[c] = "ack" /\ msg'[c] = msg[c]
      PROVE  SupersededInv'
  <2> SUFFICES ASSUME NEW c \in Consumers, stage'[c] = "ack",
                      status'[msg'[c].tx] = "processing"
               PROVE  \E m \in stream' : /\ m.tx = msg'[c].tx
                                         /\ Rank(m.kind) > Rank(msg'[c].kind)
    BY DEF SupersededInv
  <2>1. stage[c] = "ack" /\ msg'[c] = msg[c]
    BY <1>1
  <2>2. status[msg[c].tx] = "processing"
    BY <2>1, AtWorkClaimed
  <2> QED BY <1>1, <2>1, <2>2 DEF SupersededInv
<1>2. ASSUME NEW c \in Consumers, Publish(c) PROVE SupersededInv'
  <2>1. stage[c] = "publish" /\ msg[c].tx \in Txs /\ out[c] \in Kinds
    BY <1>2, AtWork DEF Publish
  <2>2. PICK m \in stream' : m.tx = msg[c].tx /\ m.kind = out[c]
    BY <1>2, StoreAdds DEF Publish
  <2>3. Rank(out[c]) > Rank(msg[c].kind)
    <3>1. ConsumerOf(msg[c].kind) = c /\ msg[c].kind \in Kinds
      BY <2>1, AtWork DEF CallbackInv
    <3>2. CASE c = "risk"
      <4>1. msg[c].kind = "created" /\ out[c] \in Verdicts
        BY <2>1, <3>1, <3>2 DEF CallbackInv, ConsumerOf
      <4> QED BY <4>1 DEF Rank, Verdicts
    <3>3. CASE c = "provider"
      <4>1. msg[c].kind = "approved" /\ out[c] \in Results
        BY <2>1, <3>1, <3>3 DEF CallbackInv, ConsumerOf
      <4> QED BY <4>1 DEF Rank, Results
    <3> QED BY <2>1, <3>2, <3>3 DEF CallbackInv
  <2>4. stage' = [stage EXCEPT ![c] = "ack"] /\ msg' = [msg EXCEPT ![c] = msg[c]]
    BY <1>2 DEF Publish, Proceed
  <2>5. stream \subseteq stream'
    BY <1>2 DEF Publish, Store
  <2> SUFFICES ASSUME NEW d \in Consumers, d # c, stage'[d] = "ack",
                      status'[msg'[d].tx] = "processing"
               PROVE  \E n \in stream' : /\ n.tx = msg'[d].tx
                                         /\ Rank(n.kind) > Rank(msg'[d].kind)
    BY <2>2, <2>3, <2>4 DEF SupersededInv, TypeOK
  <2>6. stage[d] = "ack" /\ msg'[d] = msg[d]
    BY <2>4 DEF TypeOK
  <2>7. status[msg[d].tx] = "processing"
    BY <2>6, AtWorkClaimed
  <2> QED BY <2>5, <2>6, <2>7 DEF SupersededInv
<1>3. ASSUME NEW c \in Consumers, Ack(c) PROVE SupersededInv'
  <2> SUFFICES ASSUME NEW d \in Consumers, stage'[d] = "ack",
                      status'[msg'[d].tx] = "processing"
               PROVE  \E n \in stream' : /\ n.tx = msg'[d].tx
                                         /\ Rank(n.kind) > Rank(msg'[d].kind)
    BY DEF SupersededInv
  <2>1. d # c /\ stage[d] = "ack" /\ msg'[d] = msg[d] /\ stage[c] = "ack"
    BY <1>3 DEF Ack, Done, Return, Proceed, TypeOK
  <2>2. status[msg[d].tx] = "processing"
    BY <2>1, AtWorkClaimed
  <2>3. PICK n \in stream : n.tx = msg[d].tx /\ Rank(n.kind) > Rank(msg[d].kind)
    BY <2>1, <2>2 DEF SupersededInv
  <2>4. stream' = stream \ {msg[c]}
    BY <1>3 DEF Ack, Acknowledge
  <2>5. CASE n # msg[c]
    BY <2>1, <2>3, <2>4, <2>5
  <2>6. CASE n = msg[c]
    <3>1. PICK k \in stream : k.tx = msg[c].tx /\ Rank(k.kind) > Rank(msg[c].kind)
      BY <2>1, <2>2, <2>3, <2>6 DEF SupersededInv
    <3>2. Rank(k.kind) \in Int /\ Rank(n.kind) \in Int /\ Rank(msg[d].kind) \in Int
      BY DEF Rank
    <3>3. Rank(k.kind) > Rank(msg[d].kind) /\ k # msg[c]
      BY <2>3, <2>6, <3>1, <3>2
    <3> QED BY <2>1, <2>3, <2>4, <2>6, <3>1, <3>3
  <2> QED BY <2>5, <2>6
<1>4. ASSUME NEW m \in inbox,
             UpdateStatusWithWebhook(m) \/ UpdateStatusWithoutWebhook(m)
      PROVE  SupersededInv'
  <2>1. m.tx \in Txs /\ m.kind \in Kinds
    BY DEF TypeOK, Messages
  <2>2. MapCompletedStatus(m.kind) \in Terminal
    BY <1>4, <2>1, MapCompletedStatusTerminal
       DEF UpdateStatusWithWebhook, UpdateStatusWithoutWebhook, Take
  <2>3. /\ SetStatus(Target(m), MapCompletedStatus(m.kind))
        /\ Proceed("updater", m, "ack", "none")
        /\ UNCHANGED stream
    BY <1>4 DEF UpdateStatusWithWebhook, UpdateStatusWithoutWebhook
  <2>4. status'[m.tx] # "processing"
    BY <2>1, <2>2, <2>3 DEF SetStatus, Target, Terminal
  <2> SUFFICES ASSUME NEW d \in Consumers, d # "updater", stage'[d] = "ack",
                      status'[msg'[d].tx] = "processing"
               PROVE  \E n \in stream' : /\ n.tx = msg'[d].tx
                                         /\ Rank(n.kind) > Rank(msg'[d].kind)
    BY <2>3, <2>4 DEF SupersededInv, Proceed, TypeOK, Consumers
  <2>5. stage[d] = "ack" /\ msg'[d] = msg[d]
    BY <2>3 DEF Proceed, TypeOK
  <2>6. status[msg[d].tx] = "processing"
    BY <2>5, AtWorkClaimed
  <2> QED BY <2>3, <2>5, <2>6 DEF SupersededInv
<1>5. CASE UNCHANGED <<stream, stage, msg>>
  BY <1>1, <1>5
<1>6. ASSUME NEW m \in inbox, RiskEvaluate(m) \/ ProcessPayment(m)
      PROVE  SupersededInv'
  BY <1>1, <1>6 DEF RiskEvaluate, ProcessPayment, Proceed, TypeOK
<1>7. ASSUME NEW c \in Consumers,
             PublishFails(c) \/ AckLost(c) \/ ConsumerCrash(c)
      PROVE  SupersededInv'
  BY <1>1, <1>7 DEF PublishFails, StoreOrNot, Store, AckLost, ConsumerCrash,
                    Return, Proceed, TypeOK
<1>8. ASSUME NEW w \in Workers, WorkerNext(w) PROVE SupersededInv'
  BY <1>1, <1>5, <1>8
     DEF WorkerNext, FetchPending, FetchStuck, WorkerCrash, PublishCreated,
         PublishCreatedFails, StoreOrNot, Store
<1>9. CASE CallbackNext
  BY <1>4, <1>5, <1>6, <1>9
     DEF CallbackNext, AnswerLost, ProcessPaymentFails, UpdateStatusFails
<1>10. ASSUME NEW c \in Consumers, ConsumerNext(c) PROVE SupersededInv'
  BY <1>2, <1>3, <1>7, <1>10 DEF ConsumerNext
<1> QED
  BY <1>5, <1>8, <1>9, <1>10
     DEF Next, BrokerNext, Deliver, AckWaitExpires, CreatePayment, Age

\* A transaction in processing stays in somebody's hands.
LEMMA NoLostStep == SagaInv /\ Next => NoLostPayment'
<1> SUFFICES ASSUME SagaInv, Next, NEW tx \in Txs, status'[tx] = "processing"
             PROVE  \/ \E w \in Workers : tx \in batch'[w]
                    \/ \E m \in stream' : m.tx = tx
                    \/ tx \in lost'
  BY DEF NoLostPayment
<1> USE DEF SagaInv, workerVars, brokerVars, handlerVars, histVars, dbVars
<1> DEFINE Held == \/ \E w \in Workers : tx \in batch'[w]
                   \/ \E m \in stream' : m.tx = tx
                   \/ tx \in lost'
<1>1. CASE status[tx] # "processing"
  BY <1>1, ToProcessing
<1> SUFFICES ASSUME status[tx] = "processing" PROVE Held
  BY <1>1
<1>2. CASE UNCHANGED <<batch, lost>> /\ stream \subseteq stream'
  BY <1>2 DEF NoLostPayment
<1>3. ASSUME NEW w \in Workers, FetchPending(w) PROVE Held
  BY <1>3 DEF FetchPending, WorkerIdle, NoLostPayment, TypeOK
<1>4. ASSUME NEW w \in Workers, WorkerCrash(w) PROVE Held
  BY <1>4 DEF WorkerCrash, NoLostPayment, TypeOK
<1>5. ASSUME NEW w \in Workers, NEW t \in Txs, PublishCreated(w, t) PROVE Held
  <2>1. stream \subseteq stream' /\ \E m \in stream' : m.tx = t
    BY <1>5, StoreAdds DEF PublishCreated
  <2>2. /\ batch' = [batch EXCEPT ![w] = batch[w] \ {t}]
        /\ UNCHANGED lost
    BY <1>5 DEF PublishCreated
  <2> QED BY <2>1, <2>2 DEF NoLostPayment, TypeOK
<1>6. ASSUME NEW w \in Workers, NEW t \in Txs, PublishCreatedFails(w, t)
      PROVE  Held
  BY <1>6
     DEF PublishCreatedFails, StoreOrNot, Store, NoLostPayment, TypeOK
<1>7. ASSUME NEW c \in Consumers, Ack(c) PROVE Held
  <2>1. stage[c] = "ack" /\ stream' = stream \ {msg[c]} /\ UNCHANGED <<batch, lost>>
    BY <1>7 DEF Ack, Done, Acknowledge
  <2>2. CASE msg[c].tx = tx
    <3>1. PICK m \in stream : m.tx = tx /\ Rank(m.kind) > Rank(msg[c].kind)
      BY <2>1, <2>2 DEF SupersededInv
    <3>2. m # msg[c]
      BY <3>1 DEF Rank
    <3> QED BY <2>1, <3>1, <3>2
  <2>3. CASE msg[c].tx # tx
    BY <2>1, <2>3 DEF NoLostPayment
  <2> QED BY <2>2, <2>3
<1>8. ASSUME NEW w \in Workers, WorkerNext(w) PROVE Held
  BY <1>2, <1>3, <1>4, <1>5, <1>6, <1>8 DEF WorkerNext, FetchStuck
<1>9. CASE CallbackNext
  BY <1>2, <1>9
     DEF CallbackNext, RiskEvaluate, ProcessPayment, AnswerLost,
         ProcessPaymentFails, UpdateStatusWithWebhook,
         UpdateStatusWithoutWebhook, UpdateStatusFails
<1>10. ASSUME NEW c \in Consumers, ConsumerNext(c) PROVE Held
  BY <1>2, <1>7, <1>10
     DEF ConsumerNext, Publish, PublishFails, StoreOrNot, Store, AckLost,
         ConsumerCrash
<1> QED
  BY <1>2, <1>8, <1>9, <1>10
     DEF Next, BrokerNext, Deliver, AckWaitExpires, CreatePayment, Age

\* What a step can add to the history of a transaction: the kind that a worker
\* or a callback publishes, and what that publication rests on.
LEMMA EvidenceSteps ==
  ASSUME SagaInv, Next, NEW tx \in Txs
  PROVE  /\ evidence[tx] \subseteq evidence'[tx]
         /\ charges[tx] > 0 => charges'[tx] > 0
         /\ charges'[tx] > 0 => charges[tx] > 0 \/ "approved" \in evidence[tx]
         /\ \A kind \in evidence'[tx] \ evidence[tx] :
               \/ kind = "created" /\ \E w \in Workers : tx \in batch[w]
               \/ kind \in Verdicts
               \/ /\ kind \in Results /\ "approved" \in evidence[tx]
                  /\ kind = "captured" => charges[tx] > 0
<1> USE DEF SagaInv, workerVars, brokerVars, handlerVars, histVars, dbVars
<1> DEFINE New(kind) == \/ kind = "created" /\ \E w \in Workers : tx \in batch[w]
                        \/ kind \in Verdicts
                        \/ /\ kind \in Results /\ "approved" \in evidence[tx]
                           /\ kind = "captured" => charges[tx] > 0
<1> DEFINE Goal == /\ evidence[tx] \subseteq evidence'[tx]
                   /\ charges[tx] > 0 => charges'[tx] > 0
                   /\ charges'[tx] > 0 => charges[tx] > 0 \/ "approved" \in evidence[tx]
                   /\ \A kind \in evidence'[tx] \ evidence[tx] : New(kind)
<1>1. CASE UNCHANGED <<evidence, charges>>
  BY <1>1
<1>2. ASSUME NEW w \in Workers, NEW t \in Txs,
             PublishCreated(w, t) \/ PublishCreatedFails(w, t)
      PROVE  Goal
  <2>1. StoreOrNot(t, "created") /\ "created" \in Kinds
    BY <1>2 DEF PublishCreated, PublishCreatedFails, StoreOrNot, Kinds
  <2>2. t \in batch[w] /\ UNCHANGED charges
    BY <1>2 DEF PublishCreated, PublishCreatedFails
  <2>3. CASE t = tx
    BY <2>1, <2>2, <2>3, StoreEffect
  <2>4. CASE t # tx
    BY <2>1, <2>2, <2>4, StoreEffect
  <2> QED BY <2>3, <2>4
<1>3. ASSUME NEW c \in Consumers, Publish(c) \/ PublishFails(c) PROVE Goal
  <2>1. stage[c] = "publish" /\ UNCHANGED charges
    BY <1>3 DEF Publish, PublishFails
  <2>2. msg[c].tx \in Txs /\ out[c] \in Kinds
    BY <2>1, AtWork
  <2>3. StoreOrNot(msg[c].tx, out[c])
    BY <1>3 DEF Publish, PublishFails, StoreOrNot
  <2>4. CASE msg[c].tx # tx
    BY <2>1, <2>2, <2>3, <2>4, StoreEffect
  <2>5. CASE msg[c].tx = tx
    <3>1. msg[c].kind \in evidence[tx] /\ ConsumerOf(msg[c].kind) = c
      BY <2>1, <2>5 DEF PublishedInv, CallbackInv
    <3>2. c = "provider" => "approved" \in evidence[tx]
      BY <3>1 DEF ConsumerOf
    <3>3. New(out[c])
      BY <2>1, <2>5, <3>2 DEF CallbackInv
    <3> QED BY <2>1, <2>2, <2>3, <2>5, <3>3, StoreEffect
  <2> QED BY <2>4, <2>5
<1>4. ASSUME NEW m \in inbox, ProcessPayment(m) \/ AnswerLost(m) PROVE Goal
  <2>1. m.tx \in Txs /\ m.kind \in evidence[m.tx]
    BY DEF TypeOK, Messages, PublishedInv
  <2>2. m.kind = "approved"
    BY <1>4 DEF ProcessPayment, AnswerLost, Take, ConsumerOf
  <2>3. \A t \in Txs : /\ charges'[t] \in Nat /\ charges'[t] >= charges[t]
                       /\ t # m.tx => charges'[t] = charges[t]
    BY <1>4, <2>1 DEF ProcessPayment, AnswerLost, TypeOK
  <2>4. UNCHANGED evidence
    BY <1>4 DEF ProcessPayment, AnswerLost
  <2> QED BY <2>1, <2>2, <2>3, <2>4 DEF TypeOK
<1>5. ASSUME NEW w \in Workers, WorkerNext(w) PROVE Goal
  BY <1>1, <1>2, <1>5 DEF WorkerNext, FetchPending, FetchStuck, WorkerCrash
<1>6. CASE CallbackNext
  BY <1>1, <1>4, <1>6
     DEF CallbackNext, RiskEvaluate, ProcessPaymentFails,
         UpdateStatusWithWebhook, UpdateStatusWithoutWebhook, UpdateStatusFails
<1>7. ASSUME NEW c \in Consumers, ConsumerNext(c) PROVE Goal
  BY <1>1, <1>3, <1>7 DEF ConsumerNext, Ack, AckLost, ConsumerCrash
<1> QED
  BY <1>1, <1>5, <1>6, <1>7
     DEF Next, BrokerNext, Deliver, AckWaitExpires, CreatePayment, Age

\* payment.created goes out once.
LEMMA CreatedOnceStep == SagaInv /\ Next => CreatedOnce'
<1> SUFFICES ASSUME SagaInv, Next, NEW tx \in Txs
             PROVE  /\ "created" \in evidence'[tx] =>
                          \A w \in Workers : tx \notin batch'[w]
                    /\ \A m1, m2 \in stream' :
                          (m1.tx = tx /\ m2.tx = tx /\ m1.kind = "created"
                                      /\ m2.kind = "created") => m1 = m2
  BY DEF CreatedOnce
<1> USE DEF SagaInv, workerVars, brokerVars, handlerVars, histVars, dbVars
<1>1. ClaimInv'
  BY ClaimStep
<1>2. ASSUME NEW t \in Txs, NEW kind \in Kinds, StoreOrNot(t, kind),
             kind = "created" => "created" \notin evidence[t],
             NEW m1 \in stream', NEW m2 \in stream',
             m1.tx = tx, m2.tx = tx, m1.kind = "created", m2.kind = "created"
      PROVE  m1 = m2
  <2>1. CASE m1 \in stream /\ m2 \in stream
    BY <1>2, <2>1 DEF CreatedOnce
  <2>2. CASE m1 \notin stream /\ m2 \notin stream
    BY <1>2, <2>2 DEF StoreOrNot, Store
  <2>3. ASSUME NEW a \in stream, NEW b \in stream' \ stream, a.tx = tx,
               b.tx = tx, a.kind = "created", b.kind = "created"
        PROVE  FALSE
    <3>1. b.tx = t /\ b.kind = kind
      BY <1>2, <2>3, StoreEffect
    <3>2. "created" \in evidence[tx]
      BY <2>3 DEF PublishedInv
    <3> QED BY <1>2, <2>3, <3>1, <3>2
  <2> QED BY <1>2, <2>1, <2>2, <2>3
<1>3. ASSUME stream' \subseteq stream,
             NEW m1 \in stream', NEW m2 \in stream',
             m1.tx = tx, m2.tx = tx, m1.kind = "created", m2.kind = "created"
      PROVE  m1 = m2
  BY <1>3 DEF CreatedOnce
<1>4. ASSUME NEW w \in Workers, WorkerNext(w)
      PROVE  \/ stream' \subseteq stream
             \/ \E t \in Txs : StoreOrNot(t, "created") /\ "created" \notin evidence[t]
  BY <1>4 DEF WorkerNext, FetchPending, FetchStuck, WorkerCrash, StoreOrNot,
              PublishCreated, PublishCreatedFails, ClaimInv
<1>5. ASSUME NEW c \in Consumers, ConsumerNext(c)
      PROVE  \/ stream' \subseteq stream
             \/ \E t \in Txs, kind \in Kinds \ {"created"} : StoreOrNot(t, kind)
  <2>1. ASSUME stage[c] = "publish"
        PROVE  msg[c].tx \in Txs /\ out[c] \in Kinds \ {"created"}
    BY <2>1, AtWork DEF CallbackInv, Verdicts, Results
  <2> QED BY <1>5, <2>1
          DEF ConsumerNext, Publish, PublishFails, StoreOrNot, Ack, AckLost,
              Acknowledge, ConsumerCrash
<1>6. CASE CallbackNext
  <2>1. stream' = stream
    BY <1>6 DEF CallbackNext, RiskEvaluate, ProcessPayment, AnswerLost,
                ProcessPaymentFails, UpdateStatusWithWebhook,
                UpdateStatusWithoutWebhook, UpdateStatusFails
  <2> QED BY <1>1, <1>3, <2>1 DEF ClaimInv
<1>7. \/ stream' \subseteq stream
      \/ \E t \in Txs, kind \in Kinds :
            /\ StoreOrNot(t, kind)
            /\ kind = "created" => "created" \notin evidence[t]
      \/ CallbackNext
  BY <1>4, <1>5 DEF Next, BrokerNext, Deliver, AckWaitExpires, CreatePayment,
                    Age, Kinds
<1> QED
  BY <1>1, <1>2, <1>3, <1>6, <1>7 DEF ClaimInv

\* Charges and results come after an approval.
LEMMA ChargeStep == SagaInv /\ Next => ChargeNeedsApproval'
<1> SUFFICES ASSUME SagaInv, Next, NEW tx \in Txs,
                    charges'[tx] > 0 \/ evidence'[tx] \cap Results # {}
             PROVE  "approved" \in evidence'[tx]
  BY DEF ChargeNeedsApproval
<1>1. CASE charges'[tx] > 0
  BY <1>1, EvidenceSteps DEF SagaInv, ChargeNeedsApproval
<1>2. ASSUME NEW kind \in evidence'[tx], kind \in Results
      PROVE  "approved" \in evidence'[tx]
  BY <1>2, EvidenceSteps DEF SagaInv, ChargeNeedsApproval, Results, Verdicts
<1> QED
  BY <1>1, <1>2

\* The updater settles a claimed row with a status that was reported for it.
LEMMA UpdateSettles ==
  ASSUME SagaInv, NEW m \in inbox,
         UpdateStatusWithWebhook(m) \/ UpdateStatusWithoutWebhook(m)
  PROVE  /\ m.tx \in Txs
         /\ m.kind \in evidence[m.tx] \cap Terminal
         /\ status[m.tx] \notin {"none", "pending"}
         /\ status' = [status EXCEPT ![m.tx] = m.kind]
         /\ \A tx \in Txs : outbox'[tx] \subseteq
               outbox[tx] \cup (IF tx = m.tx THEN {m.kind} ELSE {})
<1> USE DEF SagaInv
<1>1. m.tx \in Txs /\ m.kind \in Kinds /\ m.kind \in evidence[m.tx]
  BY DEF TypeOK, Messages, PublishedInv
<1>2. MapCompletedStatus(m.kind) = m.kind /\ m.kind \in Terminal
  BY <1>1, MapCompletedStatusTerminal
     DEF UpdateStatusWithWebhook, UpdateStatusWithoutWebhook, Take
<1>3. status' = [status EXCEPT ![m.tx] = m.kind]
  BY <1>1, <1>2 DEF UpdateStatusWithWebhook, UpdateStatusWithoutWebhook,
                    SetStatus, Target, TypeOK
<1>4. \A tx \in Txs : outbox'[tx] \subseteq
         outbox[tx] \cup (IF tx = m.tx THEN {m.kind} ELSE {})
  BY <1>1, <1>2
     DEF UpdateStatusWithWebhook, UpdateStatusWithoutWebhook, Notify,
         TypeOK
<1> QED
  BY <1>1, <1>2, <1>3, <1>4 DEF ClaimInv

\* How one step can change the columns of a row.
LEMMA RowSteps ==
  ASSUME SagaInv, Next, NEW tx \in Txs
  PROVE  /\ \/ status'[tx] = status[tx]
            \/ status[tx] = "none" /\ status'[tx] = "pending"
            \/ status[tx] = "pending" /\ status'[tx] = "processing"
            \/ status[tx] = "processing" /\ status'[tx] = "failed"
            \/ /\ status[tx] \notin {"none", "pending"}
               /\ status'[tx] \in evidence[tx] \cap Terminal
         /\ outbox'[tx] \subseteq outbox[tx] \cup (evidence[tx] \cap Terminal)
<1> USE DEF SagaInv, workerVars, brokerVars, handlerVars, histVars, dbVars
<1> DEFINE Goal ==
      /\ \/ status'[tx] = status[tx]
         \/ status[tx] = "none" /\ status'[tx] = "pending"
         \/ status[tx] = "pending" /\ status'[tx] = "processing"
         \/ status[tx] = "processing" /\ status'[tx] = "failed"
         \/ /\ status[tx] \notin {"none", "pending"}
            /\ status'[tx] \in evidence[tx] \cap Terminal
      /\ outbox'[tx] \subseteq outbox[tx] \cup (evidence[tx] \cap Terminal)
<1>1. CASE UNCHANGED <<status, outbox>>
  BY <1>1
<1>2. ASSUME NEW t \in Txs, CreatePayment(t) PROVE Goal
  BY <1>2 DEF CreatePayment, SetStatus
<1>3. ASSUME NEW w \in Workers, FetchPending(w) PROVE Goal
  BY <1>3 DEF FetchPending, Limited, PendingRows, Claim, SetStatus
<1>4. ASSUME NEW w \in Workers, FetchStuck(w) PROVE Goal
  BY <1>4 DEF FetchStuck, Limited, StuckRows, SetStatus
<1>5. ASSUME NEW m \in inbox,
             UpdateStatusWithWebhook(m) \/ UpdateStatusWithoutWebhook(m)
      PROVE  Goal
  BY <1>5, UpdateSettles DEF TypeOK
<1>6. ASSUME NEW w \in Workers, WorkerNext(w) PROVE Goal
  BY <1>1, <1>3, <1>4, <1>6
     DEF WorkerNext, WorkerCrash, PublishCreated, PublishCreatedFails
<1>7. CASE CallbackNext
  BY <1>1, <1>5, <1>7
     DEF CallbackNext, RiskEvaluate, ProcessPayment, AnswerLost,
         ProcessPaymentFails, UpdateStatusFails
<1>8. ASSUME NEW c \in Consumers, ConsumerNext(c) PROVE Goal
  BY <1>1, <1>8
     DEF ConsumerNext, Publish, PublishFails, Ack, AckLost, ConsumerCrash
<1> QED
  BY <1>1, <1>2, <1>6, <1>7, <1>8
     DEF Next, BrokerNext, Deliver, AckWaitExpires, Age

\* Statuses and webhook rows are backed by what was published.
LEMMA BackedStep == SagaInv /\ Next => StatusBacked' /\ NoFalseWebhook'
<1> SUFFICES ASSUME SagaInv, Next, NEW tx \in Txs
             PROVE  /\ status'[tx] \in Terminal \ {"failed"} =>
                          status'[tx] \in evidence'[tx]
                    /\ "captured" \in evidence'[tx] => charges'[tx] > 0
                    /\ outbox'[tx] \subseteq evidence'[tx]
  BY DEF StatusBacked, NoFalseWebhook
<1>1. evidence[tx] \subseteq evidence'[tx]
  BY EvidenceSteps
<1>2. status'[tx] \in Terminal \ {"failed"} => status'[tx] \in evidence'[tx]
  BY <1>1, RowSteps DEF SagaInv, StatusBacked, Terminal
<1>3. outbox'[tx] \subseteq evidence'[tx]
  BY <1>1, RowSteps DEF SagaInv, NoFalseWebhook
<1>4. "captured" \in evidence'[tx] => charges'[tx] > 0
  BY EvidenceSteps DEF SagaInv, StatusBacked, Verdicts
<1> QED
  BY <1>2, <1>3, <1>4

-----------------------------------------------------------------------------
(* Charges are paid for. *)

\* A set within another, with or without one more element, or one element less.
LEMMA Within ==
  ASSUME NEW S, NEW T, IsFiniteSet(S), T \subseteq S
  PROVE  /\ IsFiniteSet(T)
         /\ Cardinality(T) \in Nat /\ Cardinality(S) \in Nat
         /\ Cardinality(T) <= Cardinality(S)
BY FS_Subset, FS_CardinalityType

LEMMA Grows ==
  ASSUME NEW S, NEW T, NEW x, IsFiniteSet(S), T \subseteq S \cup {x}
  PROVE  /\ IsFiniteSet(T)
         /\ Cardinality(T) \in Nat /\ Cardinality(S) \in Nat
         /\ Cardinality(T) <= Cardinality(S) + 1
<1>1. IsFiniteSet(S \cup {x}) /\ Cardinality(S) \in Nat
  BY FS_AddElement, FS_CardinalityType
<1>2. Cardinality(S \cup {x}) <= Cardinality(S) + 1
  BY <1>1, FS_AddElement
<1>3. /\ IsFiniteSet(T) /\ Cardinality(T) \in Nat
      /\ Cardinality(S \cup {x}) \in Nat
      /\ Cardinality(T) <= Cardinality(S \cup {x})
  BY <1>1, Within
<1> QED
  BY <1>1, <1>2, <1>3

LEMMA Shrinks ==
  ASSUME NEW S, NEW T, NEW x \in S, IsFiniteSet(S), T \subseteq S \ {x}
  PROVE  /\ IsFiniteSet(T)
         /\ Cardinality(T) \in Nat /\ Cardinality(S) \in Nat
         /\ Cardinality(T) <= Cardinality(S) - 1
<1>1. /\ IsFiniteSet(S \ {x})
      /\ Cardinality(S \ {x}) = Cardinality(S) - 1
  BY FS_RemoveElement
<1>2. Cardinality(S) \in Nat
  BY FS_CardinalityType
<1>3. /\ IsFiniteSet(T) /\ Cardinality(T) \in Nat
      /\ Cardinality(T) <= Cardinality(S \ {x})
  BY <1>1, Within
<1> QED
  BY <1>1, <1>2, <1>3

\* ChargesPaid for one transaction.
Paid(tx) ==
    /\ IsFiniteSet(Waiting(tx)) /\ IsFiniteSet(Buffered(tx))
    /\ charges[tx] + Unpublished(tx) + AboutToApprove(tx)
          + Cardinality(Waiting(tx)) + Cardinality(Buffered(tx))
         <= 1 + faults

\* The terms of the balance are numbers.
LEMMA PaidNumbers ==
  ASSUME SagaInv, NEW tx \in Txs
  PROVE  /\ IsFiniteSet(Waiting(tx)) /\ IsFiniteSet(Buffered(tx))
         /\ Cardinality(Waiting(tx)) \in Nat /\ Cardinality(Buffered(tx)) \in Nat
         /\ charges[tx] \in Nat /\ faults \in Nat
         /\ Unpublished(tx) \in 0..1 /\ AboutToApprove(tx) \in 0..1
         /\ Paid(tx)
<1>1. Paid(tx)
  BY DEF SagaInv, ChargesPaid, Paid
<1>2. Cardinality(Waiting(tx)) \in Nat /\ Cardinality(Buffered(tx)) \in Nat
  BY <1>1, FS_CardinalityType DEF Paid
<1> QED
  BY <1>1, <1>2, ConstantsAssumption
     DEF Paid, SagaInv, TypeOK, Unpublished, AboutToApprove, ConstantsAssumption

\* A step keeps a transaction paid if what it adds to the charges and to their
\* sources is no more than the faults it takes.
LEMMA PaidKept ==
  ASSUME SagaInv, TypeOK', NEW tx \in Txs,
         IsFiniteSet(Waiting(tx)'), IsFiniteSet(Buffered(tx)'),
         charges'[tx] + Unpublished(tx)' + AboutToApprove(tx)'
              + Cardinality(Waiting(tx)') + Cardinality(Buffered(tx)') - faults'
           <= charges[tx] + Unpublished(tx) + AboutToApprove(tx)
                + Cardinality(Waiting(tx)) + Cardinality(Buffered(tx)) - faults
  PROVE  Paid(tx)'
<1>1. /\ Cardinality(Waiting(tx)') \in Nat /\ Cardinality(Buffered(tx)') \in Nat
      /\ charges'[tx] \in Nat /\ faults' \in Nat
      /\ Unpublished(tx)' \in 0..1 /\ AboutToApprove(tx)' \in 0..1
  BY FS_CardinalityType, ConstantsAssumption
     DEF TypeOK, Unpublished, AboutToApprove, ConstantsAssumption
<1>2. charges[tx] + Unpublished(tx) + AboutToApprove(tx)
          + Cardinality(Waiting(tx)) + Cardinality(Buffered(tx))
         <= 1 + faults
  BY PaidNumbers DEF Paid
<1>3. charges'[tx] + Unpublished(tx)' + AboutToApprove(tx)'
          + Cardinality(Waiting(tx)') + Cardinality(Buffered(tx)')
         <= 1 + faults'
  BY <1>1, <1>2, PaidNumbers
<1> QED
  BY <1>3 DEF Paid

\* What was published stays published.
LEMMA UnpublishedStep ==
  ASSUME SagaInv, Next, NEW tx \in Txs
  PROVE  Unpublished(tx)' <= Unpublished(tx) /\ Unpublished(tx)' \in 0..1
BY EvidenceSteps DEF Unpublished

\* Steps of the database and of a worker that publishes nothing.
LEMMA PaidRow ==
  ASSUME SagaInv, TypeOK', NEW tx \in Txs,
         UNCHANGED <<stream, outstanding, inbox, stage, msg, out, evidence,
                     charges>>,
         faults' >= faults
  PROVE  Paid(tx)'
<1>1. Waiting(tx)' = Waiting(tx) /\ Buffered(tx)' = Buffered(tx)
  BY DEF Waiting, Buffered, Abandoned
<1>2. Unpublished(tx)' = Unpublished(tx) /\ AboutToApprove(tx)' = AboutToApprove(tx)
  BY DEF Unpublished, AboutToApprove
<1>3. faults \in Nat /\ faults' \in Nat
  BY ConstantsAssumption DEF SagaInv, TypeOK, ConstantsAssumption
<1> QED
  BY <1>1, <1>2, <1>3, PaidNumbers, PaidKept

\* What a publication adds to the messages that wait.
LEMMA StoreWaiting ==
  ASSUME TypeOK, NEW t \in Txs, NEW kind \in Kinds, StoreOrNot(t, kind)
  PROVE  \E new :
           /\ \A m \in stream' : m \in stream \/ m = new
           /\ \A m \in stream' \ stream : m.tx = t /\ m.kind = kind
           /\ stream' = stream \/ kind \in evidence'[t]
<1> DEFINE new == [tx |-> t, kind |-> kind, no |-> sent[t]]
<1>1. CASE Store(t, kind)
  <2>1. stream' = stream \cup {new} /\ kind \in evidence'[t]
    BY <1>1 DEF Store, TypeOK
  <2>2. new.tx = t /\ new.kind = kind
    OBVIOUS
  <2> HIDE DEF new
  <2> QED
    BY <2>1, <2>2
<1>2. CASE UNCHANGED <<stream, sent, evidence>>
  BY <1>2
<1> QED
  BY <1>1, <1>2 DEF StoreOrNot

\* A worker publishes payment.created: the transaction's first source of a
\* charge moves from the table to the stream.
LEMMA PaidCreated ==
  ASSUME SagaInv, Next, TypeOK', NEW tx \in Txs, NEW w \in Workers, NEW t \in Txs,
         PublishCreated(w, t) \/ PublishCreatedFails(w, t)
  PROVE  Paid(tx)'
<1> USE DEF SagaInv
<1>1. /\ UNCHANGED <<outstanding, inbox, stage, msg, out, charges>>
      /\ t \in batch[w] /\ faults' >= faults
      /\ StoreOrNot(t, "created") /\ "created" \in Kinds
  BY ConstantsAssumption
     DEF PublishCreated, PublishCreatedFails, StoreOrNot, Fault, NoFault,
         handlerVars, Kinds, TypeOK
<1>2. PICK new :
        /\ \A m \in stream' : m \in stream \/ m = new
        /\ \A m \in stream' \ stream : m.tx = t /\ m.kind = "created"
        /\ stream' = stream \/ "created" \in evidence'[t]
  BY <1>1, StoreWaiting
<1>3. Buffered(tx)' = Buffered(tx) /\ AboutToApprove(tx)' = AboutToApprove(tx)
  BY <1>1 DEF Buffered, AboutToApprove
<1>4. Unpublished(tx)' <= Unpublished(tx) /\ Unpublished(tx)' \in 0..1
  BY UnpublishedStep
<1>5. faults' \in Nat
  BY ConstantsAssumption DEF TypeOK, ConstantsAssumption
<1>6. CASE stream' = stream \/ t # tx
  <2>1. Waiting(tx)' \subseteq Waiting(tx)
    BY <1>1, <1>2, <1>6 DEF Waiting, Abandoned, LeadsToCharge
  <2>2. /\ IsFiniteSet(Waiting(tx)') /\ Cardinality(Waiting(tx)') \in Nat
        /\ Cardinality(Waiting(tx)') <= Cardinality(Waiting(tx))
    BY <2>1, PaidNumbers, Within
  <2> QED
    BY <1>1, <1>3, <1>4, <1>5, <2>2, PaidNumbers, PaidKept
<1>7. CASE stream' # stream /\ t = tx
  <2>1. Waiting(tx)' \subseteq Waiting(tx) \cup {new}
    BY <1>1, <1>2 DEF Waiting, Abandoned
  <2>2. /\ IsFiniteSet(Waiting(tx)') /\ Cardinality(Waiting(tx)') \in Nat
        /\ Cardinality(Waiting(tx)') <= Cardinality(Waiting(tx)) + 1
    BY <2>1, PaidNumbers, Grows
  <2>3. Unpublished(tx) = 1 /\ Unpublished(tx)' = 0
    BY <1>1, <1>2, <1>7 DEF Unpublished, ClaimInv
  <2> QED
    BY <1>1, <1>3, <1>5, <2>2, <2>3, PaidNumbers, PaidKept
<1> QED
  BY <1>6, <1>7

\* A delivery moves a message from the server to a client; the end of AckWait
\* makes a message wait again only if it is abandoned, or by a fault.
LEMMA PaidBroker ==
  ASSUME SagaInv, TypeOK', NEW tx \in Txs, NEW m \in stream,
         Deliver(m) \/ AckWaitExpires(m)
  PROVE  Paid(tx)'
<1> USE DEF SagaInv
<1>1. UNCHANGED <<stream, stage, msg, out, evidence, charges>>
  BY DEF Deliver, AckWaitExpires, handlerVars, histVars
<1>2. Unpublished(tx)' = Unpublished(tx) /\ AboutToApprove(tx)' = AboutToApprove(tx)
  BY <1>1 DEF Unpublished, AboutToApprove
<1>3. faults' \in Nat
  BY ConstantsAssumption DEF TypeOK, ConstantsAssumption
<1>4. CASE Deliver(m)
  <2>1. /\ m \notin outstanding
        /\ outstanding' = outstanding \cup {m} /\ inbox' = inbox \cup {m}
        /\ faults' = faults
    BY <1>4 DEF Deliver, NoFault
  <2>2. Waiting(tx)' \subseteq Waiting(tx) \ {m}
    BY <1>1, <2>1 DEF Waiting, Abandoned
  <2>3. CASE LeadsToCharge(m, tx)
    <3>1. m \in Waiting(tx)
      BY <2>1, <2>3 DEF Waiting
    <3>2. Buffered(tx)' \subseteq Buffered(tx) \cup {m}
      BY <2>1 DEF Buffered, LeadsToCharge
    <3>3. /\ IsFiniteSet(Waiting(tx)') /\ Cardinality(Waiting(tx)') \in Nat
          /\ Cardinality(Waiting(tx)') <= Cardinality(Waiting(tx)) - 1
      BY <2>2, <3>1, PaidNumbers, Shrinks
    <3>4. /\ IsFiniteSet(Buffered(tx)') /\ Cardinality(Buffered(tx)') \in Nat
          /\ Cardinality(Buffered(tx)') <= Cardinality(Buffered(tx)) + 1
      BY <3>2, PaidNumbers, Grows
    <3> QED
      BY <1>1, <1>2, <2>1, <3>3, <3>4, PaidNumbers, PaidKept
  <2>4. CASE ~LeadsToCharge(m, tx)
    <3>1. Buffered(tx)' \subseteq Buffered(tx)
      BY <2>1, <2>4 DEF Buffered, LeadsToCharge
    <3>2. /\ IsFiniteSet(Waiting(tx)') /\ Cardinality(Waiting(tx)') \in Nat
          /\ Cardinality(Waiting(tx)') <= Cardinality(Waiting(tx))
      BY <2>2, PaidNumbers, Within
    <3>3. /\ IsFiniteSet(Buffered(tx)') /\ Cardinality(Buffered(tx)') \in Nat
          /\ Cardinality(Buffered(tx)') <= Cardinality(Buffered(tx))
      BY <3>1, PaidNumbers, Within
    <3> QED
      BY <1>1, <1>2, <2>1, <3>2, <3>3, PaidNumbers, PaidKept
  <2> QED
    BY <2>3, <2>4
<1>5. CASE AckWaitExpires(m)
  <2>1. /\ outstanding' = outstanding \ {m} /\ inbox' = inbox
        /\ IF Abandoned(m) THEN faults' = faults ELSE faults' = faults + 1
    BY <1>5 DEF AckWaitExpires, NoFault, Fault
  <2>2. Buffered(tx)' = Buffered(tx)
    BY <2>1 DEF Buffered
  <2>3. CASE Abandoned(m)
    <3>1. Waiting(tx)' \subseteq Waiting(tx)
      BY <1>1, <2>1, <2>3 DEF Waiting, Abandoned
    <3>2. /\ IsFiniteSet(Waiting(tx)') /\ Cardinality(Waiting(tx)') \in Nat
          /\ Cardinality(Waiting(tx)') <= Cardinality(Waiting(tx))
      BY <3>1, PaidNumbers, Within
    <3> QED
      BY <1>1, <1>2, <2>1, <2>2, <2>3, <3>2, PaidNumbers, PaidKept
  <2>4. CASE ~Abandoned(m)
    <3>1. Waiting(tx)' \subseteq Waiting(tx) \cup {m}
      BY <1>1, <2>1 DEF Waiting, Abandoned
    <3>2. /\ IsFiniteSet(Waiting(tx)') /\ Cardinality(Waiting(tx)') \in Nat
          /\ Cardinality(Waiting(tx)') <= Cardinality(Waiting(tx)) + 1
      BY <3>1, PaidNumbers, Grows
    <3> QED
      BY <1>1, <1>2, <2>1, <2>2, <2>4, <3>2, PaidNumbers, PaidKept
  <2> QED
    BY <2>3, <2>4
<1> QED
  BY <1>4, <1>5

\* A callback that takes a message keeps others from taking it.
LEMMA TakeWaiting ==
  ASSUME SagaInv, NEW tx \in Txs, NEW c \in Consumers, NEW m \in inbox,
         Take(c, m), NEW s, NEW kind, Proceed(c, m, s, kind),
         UNCHANGED <<stream, outstanding>>
  PROVE  /\ IsFiniteSet(Waiting(tx)') /\ Cardinality(Waiting(tx)') \in Nat
         /\ Cardinality(Waiting(tx)') <= Cardinality(Waiting(tx))
         /\ IsFiniteSet(Buffered(tx)') /\ Cardinality(Buffered(tx)') \in Nat
         /\ Cardinality(Buffered(tx)') <= Cardinality(Buffered(tx))
         /\ LeadsToCharge(m, tx) =>
               Cardinality(Buffered(tx)') <= Cardinality(Buffered(tx)) - 1
<1> USE DEF SagaInv
<1>1. /\ inbox' = inbox \ {m} /\ msg[c] = NoMsg
      /\ msg' = [msg EXCEPT ![c] = m]
  BY DEF Take, Proceed, CallbackInv
<1>2. NoMsg \notin stream
  BY ConstantsAssumption DEF TypeOK, ConstantsAssumption
<1>3. msg'[c] = m /\ \A d \in Consumers \ {c} : msg'[d] = msg[d]
  BY <1>1 DEF TypeOK
<1>4. Waiting(tx)' \subseteq Waiting(tx)
  <2> SUFFICES ASSUME NEW x \in Waiting(tx)' PROVE x \in Waiting(tx)
    OBVIOUS
  <2>1. x \in stream /\ LeadsToCharge(x, tx)
    BY DEF Waiting, LeadsToCharge
  <2>2. CASE x \notin outstanding
    BY <2>1, <2>2 DEF Waiting
  <2>3. CASE x \in outstanding
    <3>1. x \notin inbox' /\ \A d \in Consumers : msg'[d] # x
      BY <2>3 DEF Waiting, Abandoned
    <3>2. x # m /\ x \notin inbox
      BY <1>1, <1>3, <3>1
    <3>3. \A d \in Consumers : msg[d] # x
      BY <1>1, <1>2, <1>3, <2>1, <3>1
    <3> QED
      BY <2>1, <2>3, <3>2, <3>3 DEF Waiting, Abandoned
  <2> QED
    BY <2>2, <2>3
<1>5. Buffered(tx)' \subseteq Buffered(tx) \ {m}
  BY <1>1 DEF Buffered, LeadsToCharge
<1>6. LeadsToCharge(m, tx) => m \in Buffered(tx)
  BY DEF Buffered
<1>7. LeadsToCharge(m, tx) =>
        Cardinality(Buffered(tx)') <= Cardinality(Buffered(tx)) - 1
  BY <1>5, <1>6, PaidNumbers, Shrinks
<1>8. /\ IsFiniteSet(Waiting(tx)') /\ Cardinality(Waiting(tx)') \in Nat
      /\ Cardinality(Waiting(tx)') <= Cardinality(Waiting(tx))
  BY <1>4, PaidNumbers, Within
<1>9. /\ IsFiniteSet(Buffered(tx)') /\ Cardinality(Buffered(tx)') \in Nat
      /\ Cardinality(Buffered(tx)') <= Cardinality(Buffered(tx))
  BY <1>5, PaidNumbers, Within
<1> QED
  BY <1>7, <1>8, <1>9

\* The three callbacks: the buffered message pays for the approval that
\* risk-service is about to publish, and for the provider's charge; a lost
\* answer is a fault.
LEMMA PaidCallback ==
  ASSUME SagaInv, TypeOK', NEW tx \in Txs, CallbackNext
  PROVE  Paid(tx)'
<1> USE DEF SagaInv
<1>0. PICK m \in inbox :
        \/ RiskEvaluate(m)
        \/ ProcessPayment(m)
        \/ AnswerLost(m)
        \/ ProcessPaymentFails(m)
        \/ UpdateStatusWithWebhook(m)
        \/ UpdateStatusWithoutWebhook(m)
        \/ UpdateStatusFails(m)
  BY DEF CallbackNext
<1>1. /\ UNCHANGED evidence /\ Unpublished(tx)' = Unpublished(tx)
      /\ faults' \in Nat /\ faults \in Nat /\ m.tx \in Txs
  BY <1>0, ConstantsAssumption
     DEF RiskEvaluate, ProcessPayment, AnswerLost, ProcessPaymentFails,
         UpdateStatusWithWebhook, UpdateStatusWithoutWebhook,
         UpdateStatusFails, histVars, Unpublished, TypeOK, Messages,
         ConstantsAssumption
<1>2. CASE RiskEvaluate(m)
  <2>1. PICK verdict \in Verdicts : Proceed("risk", m, "publish", verdict)
    BY <1>2 DEF RiskEvaluate
  <2>2. /\ Take("risk", m) /\ UNCHANGED <<stream, outstanding, charges>>
        /\ faults' = faults
    BY <1>2 DEF RiskEvaluate, NoFault, histVars
  <2>3. m.kind = "created" /\ AboutToApprove(tx) = 0
    BY <2>2 DEF Take, ConsumerOf, AboutToApprove, Consumers
  <2>4. AboutToApprove(tx)' \in 0..1 /\ (m.tx # tx => AboutToApprove(tx)' = 0)
    BY <2>1 DEF Proceed, AboutToApprove, TypeOK, Consumers
  <2>5. m.tx = tx => LeadsToCharge(m, tx)
    BY <2>3 DEF LeadsToCharge
  <2>6. "risk" \in Consumers
    BY DEF Consumers
  <2>7. /\ IsFiniteSet(Waiting(tx)') /\ Cardinality(Waiting(tx)') \in Nat
        /\ Cardinality(Waiting(tx)') <= Cardinality(Waiting(tx))
        /\ IsFiniteSet(Buffered(tx)') /\ Cardinality(Buffered(tx)') \in Nat
        /\ Cardinality(Buffered(tx)') <= Cardinality(Buffered(tx))
        /\ m.tx = tx =>
              Cardinality(Buffered(tx)') <= Cardinality(Buffered(tx)) - 1
    BY <2>1, <2>2, <2>5, <2>6, TakeWaiting
  <2> QED
    BY <1>1, <2>2, <2>3, <2>4, <2>7, PaidNumbers, PaidKept
<1>3. CASE ProcessPayment(m)
  <2>1. PICK result \in Results :
          /\ Proceed("provider", m, "publish", result)
          /\ charges' = IF result = "captured"
                        THEN [charges EXCEPT ![m.tx] = @ + 1]
                        ELSE charges
    BY <1>3 DEF ProcessPayment
  <2>2. /\ Take("provider", m) /\ UNCHANGED <<stream, outstanding>>
        /\ faults' = faults
    BY <1>3 DEF ProcessPayment, NoFault
  <2>3. m.kind = "approved"
    BY <2>2 DEF Take, ConsumerOf
  <2>4. AboutToApprove(tx)' = AboutToApprove(tx)
    BY <2>1 DEF Proceed, AboutToApprove, TypeOK, Consumers
  <2>5. /\ m.tx = tx => LeadsToCharge(m, tx)
        /\ charges'[tx] <= charges[tx] + 1
        /\ m.tx # tx => charges'[tx] = charges[tx]
        /\ charges'[tx] \in Nat
    BY <1>1, <2>1, <2>3 DEF LeadsToCharge, TypeOK
  <2>6. "provider" \in Consumers
    BY DEF Consumers
  <2>7. /\ IsFiniteSet(Waiting(tx)') /\ Cardinality(Waiting(tx)') \in Nat
        /\ Cardinality(Waiting(tx)') <= Cardinality(Waiting(tx))
        /\ IsFiniteSet(Buffered(tx)') /\ Cardinality(Buffered(tx)') \in Nat
        /\ Cardinality(Buffered(tx)') <= Cardinality(Buffered(tx))
        /\ m.tx = tx =>
              Cardinality(Buffered(tx)') <= Cardinality(Buffered(tx)) - 1
    BY <2>1, <2>2, <2>5, <2>6, TakeWaiting
  <2> QED
    BY <1>1, <2>2, <2>4, <2>5, <2>7, PaidNumbers, PaidKept
<1>4. CASE AnswerLost(m)
  <2>1. /\ UNCHANGED <<stream, outstanding, inbox, stage, msg, out>>
        /\ faults' = faults + 1
    BY <1>4 DEF AnswerLost, Fault, brokerVars, handlerVars
  <2>2. charges'[tx] \in Nat /\ charges'[tx] <= charges[tx] + 1
    BY <1>1, <1>4 DEF AnswerLost, TypeOK
  <2>3. Waiting(tx)' = Waiting(tx) /\ Buffered(tx)' = Buffered(tx)
    BY <2>1 DEF Waiting, Buffered, Abandoned
  <2>4. AboutToApprove(tx)' = AboutToApprove(tx)
    BY <2>1 DEF AboutToApprove
  <2> QED
    BY <1>1, <2>1, <2>2, <2>3, <2>4, PaidNumbers, PaidKept
<1>5. CASE ProcessPaymentFails(m) \/ UpdateStatusFails(m)
  <2>1. /\ inbox' = inbox \ {m} /\ outstanding' = outstanding \ {m}
        /\ UNCHANGED <<stream, stage, msg, out, charges>>
        /\ faults' = faults + 1
    BY <1>5 DEF ProcessPaymentFails, UpdateStatusFails, Fault, Take, Nak,
                handlerVars, histVars
  <2>2. Waiting(tx)' \subseteq Waiting(tx) \cup {m}
    BY <2>1 DEF Waiting, Abandoned
  <2>3. Buffered(tx)' \subseteq Buffered(tx)
    BY <2>1 DEF Buffered
  <2>4. AboutToApprove(tx)' = AboutToApprove(tx)
    BY <2>1 DEF AboutToApprove
  <2>5. /\ IsFiniteSet(Waiting(tx)') /\ Cardinality(Waiting(tx)') \in Nat
        /\ Cardinality(Waiting(tx)') <= Cardinality(Waiting(tx)) + 1
    BY <2>2, PaidNumbers, Grows
  <2>6. /\ IsFiniteSet(Buffered(tx)') /\ Cardinality(Buffered(tx)') \in Nat
        /\ Cardinality(Buffered(tx)') <= Cardinality(Buffered(tx))
    BY <2>3, PaidNumbers, Within
  <2> QED
    BY <1>1, <2>1, <2>4, <2>5, <2>6, PaidNumbers, PaidKept
<1>6. CASE UpdateStatusWithWebhook(m) \/ UpdateStatusWithoutWebhook(m)
  <2>1. /\ Take("updater", m) /\ Proceed("updater", m, "ack", "none")
        /\ UNCHANGED <<stream, outstanding, charges>>
        /\ faults' >= faults
    BY <1>1, <1>6 DEF UpdateStatusWithWebhook, UpdateStatusWithoutWebhook,
                      NoFault, Fault, histVars
  <2>2. AboutToApprove(tx)' = AboutToApprove(tx) /\ "updater" \in Consumers
    BY <2>1 DEF Proceed, AboutToApprove, TypeOK, Consumers
  <2>3. /\ IsFiniteSet(Waiting(tx)') /\ Cardinality(Waiting(tx)') \in Nat
        /\ Cardinality(Waiting(tx)') <= Cardinality(Waiting(tx))
        /\ IsFiniteSet(Buffered(tx)') /\ Cardinality(Buffered(tx)') \in Nat
        /\ Cardinality(Buffered(tx)') <= Cardinality(Buffered(tx))
    BY <2>1, <2>2, TakeWaiting
  <2> QED
    BY <1>1, <2>1, <2>2, <2>3, PaidNumbers, PaidKept
<1> QED
  BY <1>0, <1>2, <1>3, <1>4, <1>5, <1>6

\* A callback publishes its result, or fails to: an approval that was about to
\* be published now waits, and a message that is refused waits again.
LEMMA PaidPublish ==
  ASSUME SagaInv, Next, TypeOK', NEW tx \in Txs, NEW c \in Consumers,
         Publish(c) \/ PublishFails(c)
  PROVE  Paid(tx)'
<1> USE DEF SagaInv
<1>1. /\ stage[c] = "publish" /\ msg[c] \in Messages /\ msg[c].tx \in Txs
      /\ out[c] \in Kinds /\ StoreOrNot(msg[c].tx, out[c])
      /\ UNCHANGED <<inbox, charges>>
  BY AtWork DEF Publish, PublishFails, StoreOrNot
<1>2. PICK new :
        /\ \A m \in stream' : m \in stream \/ m = new
        /\ \A m \in stream' \ stream : m.tx = msg[c].tx /\ m.kind = out[c]
        /\ stream' = stream \/ out[c] \in evidence'[msg[c].tx]
  BY <1>1, StoreWaiting
<1>3. Buffered(tx)' = Buffered(tx)
  BY <1>1 DEF Buffered
<1>4. Unpublished(tx)' <= Unpublished(tx) /\ Unpublished(tx)' \in 0..1
  BY UnpublishedStep
<1>5. faults' \in Nat /\ faults \in Nat
  BY ConstantsAssumption DEF TypeOK, ConstantsAssumption
<1>6. /\ AboutToApprove(tx)' \in 0..1
      /\ AboutToApprove(tx)' <= AboutToApprove(tx)
      /\ c = "risk" => AboutToApprove(tx)' = 0
  BY DEF Publish, PublishFails, Return, Proceed, AboutToApprove, TypeOK,
         Consumers
<1> DEFINE Brings == msg[c].tx = tx /\ out[c] \in {"created", "approved"}
           W == Waiting(tx) \cup {m \in stream' \ stream : Brings}
           b == IF Brings THEN 1 ELSE 0
<1>7. b \in 0..1 /\ b + AboutToApprove(tx)' <= AboutToApprove(tx)
  <2>1. CASE Brings
    <3>1. c = "risk" /\ out[c] = "approved"
      BY <1>1, <2>1 DEF CallbackInv, Verdicts, Results
    <3>2. AboutToApprove(tx) = 1
      BY <1>1, <2>1, <3>1 DEF AboutToApprove
    <3> QED
      BY <1>6, <2>1, <3>1, <3>2
  <2>2. CASE ~Brings
    BY <1>6, <2>2 DEF AboutToApprove
  <2> QED
    BY <2>1, <2>2
<1>8. /\ IsFiniteSet(W) /\ Cardinality(W) \in Nat
      /\ Cardinality(W) <= Cardinality(Waiting(tx)) + b
  <2>1. CASE Brings
    <3>1. W \subseteq Waiting(tx) \cup {new} /\ b = 1
      BY <1>2, <2>1
    <3> HIDE DEF W, b
    <3> QED
      BY <3>1, PaidNumbers, Grows
  <2>2. CASE ~Brings
    <3>1. W \subseteq Waiting(tx) /\ b = 0
      BY <2>2
    <3> HIDE DEF W, b
    <3> QED
      BY <3>1, PaidNumbers, Within
  <2> QED
    BY <2>1, <2>2
<1>9. CASE Publish(c)
  <2>1. UNCHANGED <<outstanding, msg>> /\ faults' = faults
    BY <1>9 DEF Publish, Proceed, NoFault, TypeOK
  <2>2. Waiting(tx)' \subseteq W
    BY <1>1, <1>2, <2>1 DEF Waiting, Abandoned, LeadsToCharge
  <2>3. /\ IsFiniteSet(Waiting(tx)') /\ Cardinality(Waiting(tx)') \in Nat
        /\ Cardinality(Waiting(tx)') <= Cardinality(W)
    BY <1>8, <2>2, Within
  <2> HIDE DEF W, b
  <2> QED
    BY <1>1, <1>3, <1>4, <1>5, <1>6, <1>7, <1>8, <2>1, <2>3, PaidNumbers,
       PaidKept
<1>10. CASE PublishFails(c)
  <2>1. /\ outstanding' = outstanding \ {msg[c]} /\ faults' = faults + 1
        /\ \A d \in Consumers \ {c} : msg'[d] = msg[d]
    BY <1>10 DEF PublishFails, Return, Proceed, Nak, Fault, TypeOK
  <2>2. Waiting(tx)' \subseteq W \cup {msg[c]}
    BY <1>1, <1>2, <2>1 DEF Waiting, Abandoned, LeadsToCharge
  <2>3. /\ IsFiniteSet(Waiting(tx)') /\ Cardinality(Waiting(tx)') \in Nat
        /\ Cardinality(Waiting(tx)') <= Cardinality(W) + 1
    BY <1>8, <2>2, Grows
  <2> HIDE DEF W, b
  <2> QED
    BY <1>1, <1>3, <1>4, <1>5, <1>6, <1>7, <1>8, <2>1, <2>3, PaidNumbers,
       PaidKept
<1> QED
  BY <1>9, <1>10

\* A callback ends: an acknowledged message is gone; a lost acknowledgement,
\* and a crash with what it had buffered, let messages wait again.
LEMMA PaidEnd ==
  ASSUME SagaInv, TypeOK', NEW tx \in Txs, NEW c \in Consumers,
         Ack(c) \/ AckLost(c) \/ ConsumerCrash(c)
  PROVE  Paid(tx)'
<1> USE DEF SagaInv
<1>1. /\ UNCHANGED <<evidence, charges>>
      /\ \A d \in Consumers \ {c} : msg'[d] = msg[d]
      /\ Unpublished(tx)' = Unpublished(tx)
  BY DEF Ack, AckLost, ConsumerCrash, Return, Proceed, histVars, TypeOK,
         Unpublished
<1>2. AboutToApprove(tx)' \in 0..1 /\ AboutToApprove(tx)' <= AboutToApprove(tx)
  BY DEF Ack, AckLost, ConsumerCrash, Return, Proceed, AboutToApprove, TypeOK,
         Consumers
<1>3. faults' \in Nat /\ faults \in Nat
  BY ConstantsAssumption DEF TypeOK, ConstantsAssumption
<1>4. CASE Ack(c)
  <2>1. /\ stream' = stream \ {msg[c]} /\ outstanding' = outstanding \ {msg[c]}
        /\ inbox' = inbox /\ faults' = faults
    BY <1>4 DEF Ack, Acknowledge, NoFault
  <2>2. Waiting(tx)' \subseteq Waiting(tx)
    BY <1>1, <2>1 DEF Waiting, Abandoned
  <2>3. /\ IsFiniteSet(Waiting(tx)') /\ Cardinality(Waiting(tx)') \in Nat
        /\ Cardinality(Waiting(tx)') <= Cardinality(Waiting(tx))
    BY <2>2, PaidNumbers, Within
  <2>4. Buffered(tx)' = Buffered(tx)
    BY <2>1 DEF Buffered
  <2> QED
    BY <1>1, <1>2, <1>3, <2>1, <2>3, <2>4, PaidNumbers, PaidKept
<1>5. CASE AckLost(c)
  <2>1. /\ UNCHANGED <<stream, outstanding, inbox>> /\ faults' = faults + 1
    BY <1>5 DEF AckLost, Fault, brokerVars
  <2>2. Waiting(tx)' \subseteq Waiting(tx) \cup {msg[c]}
    BY <1>1, <2>1 DEF Waiting, Abandoned
  <2>3. /\ IsFiniteSet(Waiting(tx)') /\ Cardinality(Waiting(tx)') \in Nat
        /\ Cardinality(Waiting(tx)') <= Cardinality(Waiting(tx)) + 1
    BY <2>2, PaidNumbers, Grows
  <2>4. Buffered(tx)' = Buffered(tx)
    BY <2>1 DEF Buffered
  <2> QED
    BY <1>1, <1>2, <1>3, <2>1, <2>3, <2>4, PaidNumbers, PaidKept
<1>6. CASE ConsumerCrash(c)
  <2> DEFINE B == Buffered(tx)
             R == Buffered(tx)'
             D == B \ R
  <2>1. /\ UNCHANGED <<stream, outstanding>> /\ faults' = faults + 1
        /\ inbox' \subseteq inbox
    BY <1>6 DEF ConsumerCrash, Fault
  <2>2. R \subseteq B
    BY <2>1 DEF Buffered
  <2>3. Waiting(tx)' \subseteq (Waiting(tx) \cup D) \cup {msg[c]}
    BY <1>1, <2>1 DEF Waiting, Buffered, Abandoned
  <2>4. /\ IsFiniteSet(B) /\ IsFiniteSet(R) /\ IsFiniteSet(D)
        /\ Cardinality(B) \in Nat /\ Cardinality(R) \in Nat
        /\ Cardinality(D) \in Nat
    BY <2>2, PaidNumbers, Within
  <2>5. Cardinality(D) = Cardinality(B) - Cardinality(R)
    <3>1. B \cap R = R
      BY <2>2
    <3> HIDE DEF B, R, D
    <3>2. Cardinality(B \ R) = Cardinality(B) - Cardinality(B \cap R)
      BY <2>4, FS_Difference
    <3> QED
      BY <3>1, <3>2 DEF D
  <2>6. /\ IsFiniteSet(Waiting(tx) \cup D)
        /\ Cardinality(Waiting(tx) \cup D) \in Nat
        /\ Cardinality(Waiting(tx) \cup D)
             <= Cardinality(Waiting(tx)) + Cardinality(D)
    <3> HIDE DEF D
    <3>1. /\ IsFiniteSet(Waiting(tx) \cup D)
          /\ Cardinality(Waiting(tx) \cup D)
               = Cardinality(Waiting(tx)) + Cardinality(D)
                   - Cardinality(Waiting(tx) \cap D)
      BY <2>4, PaidNumbers, FS_Union
    <3>2. /\ Cardinality(Waiting(tx) \cap D) \in Nat
          /\ Cardinality(Waiting(tx) \cup D) \in Nat
      BY <2>4, <3>1, FS_Intersection, FS_CardinalityType, PaidNumbers
    <3> QED
      BY <2>4, <3>1, <3>2, PaidNumbers
  <2>7. /\ IsFiniteSet(Waiting(tx)') /\ Cardinality(Waiting(tx)') \in Nat
        /\ Cardinality(Waiting(tx)') <= Cardinality(Waiting(tx) \cup D) + 1
    BY <2>3, <2>6, Grows
  <2>8. Cardinality(Waiting(tx)') + Cardinality(Buffered(tx)')
          <= Cardinality(Waiting(tx)) + Cardinality(Buffered(tx)) + 1
    <3>1. Cardinality(Waiting(tx)') + Cardinality(R)
            <= Cardinality(Waiting(tx)) + Cardinality(B) + 1
      <4> HIDE DEF B, R, D
      <4> QED
        BY <2>4, <2>5, <2>6, <2>7, PaidNumbers
    <3> QED
      BY <3>1
  <2> QED
    BY <1>1, <1>2, <1>3, <2>1, <2>4, <2>7, <2>8, PaidNumbers, PaidKept
<1> QED
  BY <1>4, <1>5, <1>6

\* Every step keeps the charges paid for.
LEMMA PaidStep == SagaInv /\ Next => ChargesPaid'
<1> SUFFICES ASSUME SagaInv, Next, NEW tx \in Txs PROVE Paid(tx)'
  BY DEF ChargesPaid, Paid
<1>1. TypeOK'
  BY TypeStep
<1>2. faults \in Nat
  BY ConstantsAssumption DEF SagaInv, TypeOK, ConstantsAssumption
<1>3. ASSUME NEW t \in Txs, CreatePayment(t) \/ Age(t) PROVE Paid(tx)'
  BY <1>1, <1>2, <1>3, PaidRow
     DEF CreatePayment, Age, NoFault, brokerVars, handlerVars, histVars
<1>4. ASSUME NEW w \in Workers, WorkerNext(w) PROVE Paid(tx)'
  BY <1>1, <1>2, <1>4, PaidRow, PaidCreated
     DEF WorkerNext, FetchPending, FetchStuck, WorkerCrash, NoFault, Fault,
         brokerVars, handlerVars, histVars
<1>5. CASE BrokerNext
  BY <1>1, <1>5, PaidBroker DEF BrokerNext
<1>6. CASE CallbackNext
  BY <1>1, <1>6, PaidCallback
<1>7. ASSUME NEW c \in Consumers, ConsumerNext(c) PROVE Paid(tx)'
  BY <1>1, <1>7, PaidPublish, PaidEnd DEF ConsumerNext
<1> QED
  BY <1>3, <1>4, <1>5, <1>6, <1>7 DEF Next

-----------------------------------------------------------------------------
(* Notifications. *)

\* Notifications that were not given: only an update without a webhook row, which
\* costs a fault, makes them more.
LEMMA UnnotifiedSteps ==
  ASSUME SagaInv, Next
  PROVE  /\ faults' >= faults
         /\ \/ Unnotified' \subseteq Unnotified
            \/ /\ faults' = faults + 1
               /\ \E tx \in Txs : Unnotified' \subseteq Unnotified \cup {tx}
<1> USE DEF SagaInv, workerVars, brokerVars, handlerVars, histVars, dbVars
<1> DEFINE Goal ==
      /\ faults' >= faults
      /\ \/ Unnotified' \subseteq Unnotified
         \/ /\ faults' = faults + 1
            /\ \E tx \in Txs : Unnotified' \subseteq Unnotified \cup {tx}
<1>1. ASSUME Fault \/ NoFault PROVE faults' >= faults
  BY <1>1 DEF Fault, NoFault, TypeOK
<1>2. CASE UNCHANGED <<status, outbox>> /\ (Fault \/ NoFault)
  BY <1>1, <1>2 DEF Unnotified
<1>3. ASSUME NEW rows \in SUBSET Txs, NEW new \in {"pending", "processing", "failed"},
             SetStatus(rows, new), UNCHANGED outbox, NoFault
      PROVE  Goal
  <2>1. Unnotified' \subseteq Unnotified
    BY <1>3, ConstantsAssumption DEF SetStatus, Unnotified, Terminal, TypeOK
  <2> QED BY <1>1, <1>3, <2>1
<1>4. ASSUME NEW tx \in Txs, CreatePayment(tx) PROVE Goal
  BY <1>3, <1>4 DEF CreatePayment
<1>5. ASSUME NEW w \in Workers, FetchPending(w) PROVE Goal
  BY <1>3, <1>5 DEF FetchPending, Claim
<1>6. ASSUME NEW w \in Workers, FetchStuck(w) PROVE Goal
  BY <1>3, <1>6 DEF FetchStuck
<1>7. ASSUME NEW m \in inbox, UpdateStatusWithWebhook(m) PROVE Goal
  <2>1. /\ m.tx \in Txs
        /\ m.kind \in Terminal
        /\ status' = [status EXCEPT ![m.tx] = m.kind]
    BY <1>7, UpdateSettles
  <2>2. MapCompletedStatus(m.kind) = m.kind
    BY <1>7, <2>1, MapCompletedStatusTerminal
       DEF UpdateStatusWithWebhook, Take, Terminal, Kinds, Results, Verdicts
  <2>3. outbox' = IF m.tx \in Configured
                  THEN [outbox EXCEPT ![m.tx] = @ \cup {m.kind}]
                  ELSE outbox
    BY <1>7, <2>2 DEF UpdateStatusWithWebhook, Notify
  <2>4. Unnotified' \subseteq Unnotified
    BY <2>1, <2>3, ConstantsAssumption DEF Unnotified, TypeOK
  <2>5. faults' >= faults
    BY <1>1, <1>7 DEF UpdateStatusWithWebhook
  <2> QED BY <2>4, <2>5
<1>8. ASSUME NEW m \in inbox, UpdateStatusWithoutWebhook(m) PROVE Goal
  <2>1. m.tx \in Txs /\ status' = [status EXCEPT ![m.tx] = m.kind]
    BY <1>8, UpdateSettles
  <2>2. UNCHANGED outbox /\ faults' = faults + 1
    BY <1>8 DEF UpdateStatusWithoutWebhook, Fault
  <2>3. Unnotified' \subseteq Unnotified \cup {m.tx}
    BY <2>1, <2>2, ConstantsAssumption DEF Unnotified, TypeOK
  <2>4. faults' >= faults
    BY <2>2 DEF TypeOK
  <2> QED BY <2>1, <2>2, <2>3, <2>4
<1>9. ASSUME NEW w \in Workers, WorkerNext(w) PROVE Goal
  BY <1>2, <1>5, <1>6, <1>9
     DEF WorkerNext, WorkerCrash, PublishCreated, PublishCreatedFails
<1>10. CASE CallbackNext
  BY <1>2, <1>7, <1>8, <1>10
     DEF CallbackNext, RiskEvaluate, ProcessPayment, AnswerLost,
         ProcessPaymentFails, UpdateStatusFails
<1>11. ASSUME NEW c \in Consumers, ConsumerNext(c) PROVE Goal
  BY <1>2, <1>11
     DEF ConsumerNext, Publish, PublishFails, Ack, AckLost, ConsumerCrash
<1>12. CASE BrokerNext
  BY <1>2, <1>12 DEF BrokerNext, Deliver, AckWaitExpires
<1> QED
  BY <1>2, <1>4, <1>9, <1>10, <1>11, <1>12 DEF Next, Age

\* As many payments with a lost notification as faults, at most.
LEMMA UnnotifiedStep ==
  ASSUME SagaInv, [Next]_vars,
         IsFiniteSet(Unnotified), Cardinality(Unnotified) <= faults
  PROVE  IsFiniteSet(Unnotified)' /\ (Cardinality(Unnotified) <= faults)'
<1>1. faults \in Nat /\ Cardinality(Unnotified) \in Nat
  BY FS_CardinalityType DEF SagaInv, TypeOK
<1>2. CASE UNCHANGED vars
  BY <1>2 DEF vars, dbVars, Unnotified
<1>3. CASE Unnotified' \subseteq Unnotified /\ faults' >= faults
  <2>1. IsFiniteSet(Unnotified') /\ Cardinality(Unnotified') <= Cardinality(Unnotified)
    BY <1>3, FS_Subset
  <2>2. Cardinality(Unnotified') \in Nat /\ faults' \in Nat
    BY <2>1, TypeStep, FS_CardinalityType, <1>1, <1>3 DEF SagaInv, TypeOK, vars
  <2> QED BY <1>1, <1>3, <2>1, <2>2
<1>4. ASSUME NEW tx \in Txs, faults' = faults + 1,
             Unnotified' \subseteq Unnotified \cup {tx}
      PROVE  IsFiniteSet(Unnotified)' /\ (Cardinality(Unnotified) <= faults)'
  <2>1. /\ IsFiniteSet(Unnotified \cup {tx})
        /\ Cardinality(Unnotified \cup {tx}) <= Cardinality(Unnotified) + 1
    BY <1>1, FS_AddElement
  <2>2. /\ IsFiniteSet(Unnotified')
        /\ Cardinality(Unnotified') <= Cardinality(Unnotified \cup {tx})
    BY <1>4, <2>1, FS_Subset
  <2>3. /\ Cardinality(Unnotified') \in Nat
        /\ Cardinality(Unnotified \cup {tx}) \in Nat
    BY <2>1, <2>2, FS_CardinalityType
  <2> QED BY <1>1, <1>4, <2>1, <2>2, <2>3
<1> QED
  BY <1>2, <1>3, <1>4, UnnotifiedSteps

-----------------------------------------------------------------------------
(* The theorems. *)

\* SagaInv is inductive.
LEMMA SagaInvStep == SagaInv /\ [Next]_vars => SagaInv'
<1>1. SagaInv /\ Next => SagaInv'
  BY TypeStep, CallbackStep, PublishedStep, ClaimStep, SupersededStep,
     NoLostStep, CreatedOnceStep, ChargeStep, BackedStep, PaidStep
  DEF SagaInv
<1>2. SagaInv /\ UNCHANGED vars => ChargesPaid'
  BY DEF vars, workerVars, brokerVars, handlerVars, histVars, dbVars, SagaInv,
         ChargesPaid, Waiting, Buffered, Abandoned, Unpublished, AboutToApprove
<1>3. SagaInv /\ UNCHANGED vars => SagaInv'
  BY <1>2
     DEF vars, workerVars, brokerVars, handlerVars, histVars, dbVars, SagaInv,
         TypeOK, CallbackInv, PublishedInv, ClaimInv, SupersededInv,
         NoLostPayment, CreatedOnce, ChargeNeedsApproval, StatusBacked,
         NoFalseWebhook
<1> QED
  BY <1>1, <1>3

\* The invariant holds in every reachable state.
THEOREM SagaInvariant == Spec => []SagaInv
<1> QED
  BY InitSagaInv, SagaInvStep, PTL DEF Spec

\* Type correctness, with the bounds on deliveries and faults.
THEOREM TypeCorrect == Spec => []TypeOK
<1>1. SagaInv => TypeOK
  BY DEF SagaInv
<1> QED
  BY <1>1, SagaInvariant, PTL

\* No payment in processing is dropped by the choreography, whatever is
\* redelivered and whoever restarts.
THEOREM NothingLost == Spec => []NoLostPayment
<1>1. SagaInv => NoLostPayment
  BY DEF SagaInv
<1> QED
  BY <1>1, SagaInvariant, PTL

\* Any number of polling workers publish payment.created at most once.
THEOREM ClaimedOnce == Spec => []CreatedOnce
<1>1. SagaInv => CreatedOnce
  BY DEF SagaInv
<1> QED
  BY <1>1, SagaInvariant, PTL

\* Money moves only after risk-service has approved.
THEOREM NoChargeWithoutApproval == Spec => []ChargeNeedsApproval
<1>1. SagaInv => ChargeNeedsApproval
  BY DEF SagaInv
<1> QED
  BY <1>1, SagaInvariant, PTL

\* Each charge of a payment beyond the first took a fault of its own, however
\* messages are redelivered and whatever the callbacks decide.
THEOREM DoubleChargesCostFaults == Spec => []EveryDoubleChargeHasAFault
<1>1. SagaInv => EveryDoubleChargeHasAFault
  <2> SUFFICES ASSUME SagaInv, NEW tx \in Txs
               PROVE  charges[tx] <= 1 + faults
    BY DEF EveryDoubleChargeHasAFault
  <2>1. charges[tx] + Unpublished(tx) + AboutToApprove(tx)
          + Cardinality(Waiting(tx)) + Cardinality(Buffered(tx))
         <= 1 + faults
    BY PaidNumbers DEF Paid
  <2> QED
    BY <2>1, PaidNumbers
<1> QED
  BY <1>1, SagaInvariant, PTL

\* The status of a settled payment was reported by a service.
THEOREM StatusIsTrue == Spec => []StatusBacked
<1>1. SagaInv => StatusBacked
  BY DEF SagaInv
<1> QED
  BY <1>1, SagaInvariant, PTL

\* A webhook row tells the merchant what a service reported.
THEOREM WebhooksAreTrue == Spec => []NoFalseWebhook
<1>1. SagaInv => NoFalseWebhook
  BY DEF SagaInv
<1> QED
  BY <1>1, SagaInvariant, PTL

\* A merchant misses the notification of a reported status only through an error
\* of GetMerchantConfig, and one such error costs one notification: whatever is
\* redelivered, resolved as stuck or corrected later is announced.
THEOREM LostNotificationsCostFaults == Spec => []LostNotificationsHaveFaults
<1> DEFINE Inv == IsFiniteSet(Unnotified) /\ Cardinality(Unnotified) <= faults
<1>1. Init => Inv
  <2> SUFFICES ASSUME Init PROVE Inv
    OBVIOUS
  <2>1. Unnotified = {}
    BY ConstantsAssumption DEF Init, Unnotified, Terminal
  <2> QED BY <2>1, FS_EmptySet DEF Init
<1>2. SagaInv /\ Inv /\ [Next]_vars => Inv'
  BY UnnotifiedStep
<1>3. Inv => LostNotificationsHaveFaults
  BY DEF LostNotificationsHaveFaults
<1> QED
  BY <1>1, <1>2, <1>3, SagaInvariant, PTL DEF Spec

\* A settled payment stays settled.
THEOREM SettledForGood == Spec => NeverReopened
<1> DEFINE A == \A tx \in Txs : status[tx] \in Terminal => status'[tx] \in Terminal
<1>1. SagaInv /\ [Next]_vars => [A]_vars
  BY RowSteps DEF Terminal
<1>2. Spec => [][A]_vars
  BY <1>1, SagaInvariant, PTL DEF Spec
<1> QED
  BY <1>2 DEF NeverReopened

-----------------------------------------------------------------------------
(* Refinement: the saga implements PaymentLifecycle. *)

\* Every step of the saga is a step of the lifecycle, or invisible to it.
LEMMA LifecycleStep ==
  SagaInv /\ [Next]_vars => [Lifecycle!Next]_(Lifecycle!vars)
<1> SUFFICES ASSUME SagaInv, [Next]_vars
             PROVE  [Lifecycle!Next]_(Lifecycle!vars)
  OBVIOUS
<1> USE DEF SagaInv, workerVars, brokerVars, handlerVars, histVars, dbVars
<1>1. CASE UNCHANGED <<status, evidence>>
  BY <1>1 DEF Lifecycle!vars
<1>2. ASSUME NEW tx \in Txs, CreatePayment(tx) PROVE Lifecycle!Next
  <2>1. Lifecycle!Accept(tx)
    BY <1>2 DEF CreatePayment, SetStatus, Lifecycle!Accept, Lifecycle!Move
  <2> QED BY <2>1 DEF Lifecycle!Next
<1>3. ASSUME NEW w \in Workers, FetchPending(w) PROVE Lifecycle!Next
  <2> PICK rows \in SUBSET Txs : Limited(rows, PendingRows) /\ Claim(rows)
    BY <1>3 DEF FetchPending
  <2>1. Lifecycle!Claim(rows)
    BY <1>3 DEF FetchPending, Limited, PendingRows, Claim, SetStatus,
                Lifecycle!Claim, Lifecycle!Move
  <2> QED BY <2>1 DEF Lifecycle!Next
<1>4. ASSUME NEW w \in Workers, FetchStuck(w) PROVE Lifecycle!Next
  <2> PICK rows \in SUBSET Txs :
        Limited(rows, StuckRows) /\ SetStatus(rows, "failed")
    BY <1>4 DEF FetchStuck
  <2>1. Lifecycle!TimeOut(rows)
    BY <1>4 DEF FetchStuck, Limited, StuckRows, SetStatus,
                Lifecycle!TimeOut, Lifecycle!Move
  <2> QED BY <2>1 DEF Lifecycle!Next
<1>5. ASSUME NEW m \in inbox,
             UpdateStatusWithWebhook(m) \/ UpdateStatusWithoutWebhook(m)
      PROVE  Lifecycle!Next
  <2>1. UNCHANGED evidence
    BY <1>5 DEF UpdateStatusWithWebhook, UpdateStatusWithoutWebhook
  <2>2. Lifecycle!Settle(m.tx, m.kind)
    BY <1>5, <2>1, UpdateSettles DEF Lifecycle!Settle, Lifecycle!Open
  <2>3. m.tx \in Txs /\ m.kind \in Lifecycle!Outcomes
    BY <1>5, UpdateSettles DEF Lifecycle!Outcomes, Terminal
  <2> QED BY <2>2, <2>3 DEF Lifecycle!Next
<1>6. ASSUME NEW tx \in Txs, NEW kind \in Kinds, StoreOrNot(tx, kind),
             UNCHANGED status, status[tx] \notin {"none", "pending"}
      PROVE  [Lifecycle!Next]_(Lifecycle!vars)
  <2>1. CASE evidence' = evidence \/ kind \notin Terminal
    BY <1>6, <2>1 DEF StoreOrNot, Store, TypeOK, Lifecycle!vars
  <2>2. CASE evidence' = [evidence EXCEPT ![tx] = @ \cup {kind}] /\ kind \in Terminal
    <3>1. Lifecycle!Learn(tx, kind)
      BY <1>6, <2>2 DEF TypeOK, Lifecycle!Learn, Lifecycle!Open
    <3> QED BY <2>2, <3>1 DEF Lifecycle!Next, Lifecycle!Outcomes, Terminal
  <2> QED BY <1>6, <2>1, <2>2 DEF StoreOrNot, Store
<1>7. ASSUME NEW w \in Workers, WorkerNext(w)
      PROVE  [Lifecycle!Next]_(Lifecycle!vars)
  <2>1. ASSUME NEW tx \in Txs,
               PublishCreated(w, tx) \/ PublishCreatedFails(w, tx)
        PROVE  [Lifecycle!Next]_(Lifecycle!vars)
    BY <1>6, <2>1
       DEF PublishCreated, PublishCreatedFails, StoreOrNot, ClaimInv, Kinds
  <2> QED BY <1>1, <1>3, <1>4, <1>7, <2>1 DEF WorkerNext, WorkerCrash
<1>8. CASE CallbackNext
  BY <1>1, <1>5, <1>8
     DEF CallbackNext, RiskEvaluate, ProcessPayment, AnswerLost,
         ProcessPaymentFails, UpdateStatusFails
<1>9. ASSUME NEW c \in Consumers, ConsumerNext(c)
      PROVE  [Lifecycle!Next]_(Lifecycle!vars)
  <2>1. CASE Publish(c) \/ PublishFails(c)
    <3>1. stage[c] = "publish" /\ UNCHANGED status
      BY <2>1 DEF Publish, PublishFails
    <3>2. msg[c].tx \in Txs /\ out[c] \in Kinds
      BY <3>1, AtWork
    <3>3. StoreOrNot(msg[c].tx, out[c])
      BY <2>1 DEF Publish, PublishFails, StoreOrNot
    <3>4. status[msg[c].tx] \notin {"none", "pending"}
      BY <3>1, <3>2 DEF PublishedInv, ClaimInv
    <3> QED BY <1>6, <3>1, <3>2, <3>3, <3>4
  <2> QED BY <1>1, <1>9, <2>1 DEF ConsumerNext, Ack, AckLost, ConsumerCrash
<1>10. CASE UNCHANGED vars
  BY <1>1, <1>10 DEF vars
<1> QED
  BY <1>1, <1>2, <1>7, <1>8, <1>9, <1>10
     DEF Next, BrokerNext, Deliver, AckWaitExpires, Age

\* The saga implements the lifecycle promised to a merchant.
THEOREM SagaImplementsLifecycle == Spec => ImplementsLifecycle
<1>1. Init => Lifecycle!Init
  BY DEF Init, Lifecycle!Init
<1>2. Spec => Lifecycle!Spec
  BY <1>1, LifecycleStep, SagaInvariant, PTL DEF Spec, Lifecycle!Spec
<1> QED
  BY <1>2 DEF ImplementsLifecycle
=============================================================================
