---------------------------- MODULE Idempotency ----------------------------
(***************************************************************************)
(* POST /api/v1/payments under one X-Idempotency-Key: the handler, the key *)
(* it keeps in Redis (SET NX, SET XX, GET, DEL, TTL) and the UNIQUE column *)
(* of transactions.  Requests with different keys share nothing, so one    *)
(* key is enough.  A request is identified with the payment it may insert. *)
(*                                                                         *)
(* Neither the Redis key nor the UNIQUE column has the merchant in it, so  *)
(* the requests of all merchants that use the key are meant, and nothing   *)
(* in a step depends on whose request it is.                               *)
(***************************************************************************)
EXTENDS Integers, FiniteSets

CONSTANTS
    Requests,    \* HTTP requests that carry the key, of any merchant
    Invalid,     \* requests whose body does not decode or validate
    MaxFaults,   \* bound: failed Redis or database calls and crashes
    Nobody       \* stands for "no payment"

ASSUME ConstantsAssumption ==
    /\ Invalid \subseteq Requests
    /\ MaxFaults \in Nat
    /\ Nobody \notin Requests

\* A value of the Redis key, with the request that wrote it: the placeholder
\* "processing", or ("created") the id of the payment that request inserted.
Values == [state : {"processing", "created"}, by : Requests]
Absent == [state |-> "absent", by |-> Nobody]
Processing(r) == [state |-> "processing", by |-> r]
Created(r) == [state |-> "created", by |-> r]

Codes == {200, 201, 400, 409, 500}
NoAnswer == [code |-> 0, tx |-> Nobody]

VARIABLES
    key,      \* the Redis key
    rows,     \* payments in the database that carry the key
    pc,       \* pc[r]: the call the handler of r makes next
    found,    \* found[r]: the payment id a replay read from Redis
    answer,   \* answer[r]: status code and payment of the response
    faults

vars == <<key, rows, pc, found, answer, faults>>

Init ==
    /\ key = Absent
    /\ rows = {}
    /\ pc = [r \in Requests |-> "lock"]
    /\ found = [r \in Requests |-> Nobody]
    /\ answer = [r \in Requests |-> NoAnswer]
    /\ faults = 0

Fault == faults < MaxFaults /\ faults' = faults + 1
NoFault == UNCHANGED faults

Goto(r, call) == pc' = [pc EXCEPT ![r] = call]

\* The handler writes its response.
Answer(r, code, tx) ==
    /\ Goto(r, "done")
    /\ answer' = [answer EXCEPT ![r] = [code |-> code, tx |-> tx]]

\* A call that returned an error may have had its effect.
MayHave(effect, unchanged) == effect \/ unchanged

-----------------------------------------------------------------------------
\* Operators named Wrong... are deliberately wrong variants of the definition
\* that follows them.  SET without NX overwrites whatever the key holds.
WrongFree == TRUE

Free == key = Absent

\* SET NX: a free key is taken, else the request is a replay.
Lock(r) ==
    /\ pc[r] = "lock"
    /\ \/ Free /\ key' = Processing(r) /\ Goto(r, "body")
       \/ ~Free /\ UNCHANGED key /\ Goto(r, "lookup")
    /\ NoFault
    /\ UNCHANGED <<rows, found, answer>>

\* Redis gives an error: the handler goes on as if it held the key.
LockFails(r) ==
    /\ Fault
    /\ pc[r] = "lock"
    /\ Goto(r, "body")
    /\ MayHave(Free /\ key' = Processing(r), UNCHANGED key)
    /\ UNCHANGED <<rows, found, answer>>

\* The reply to SET NX is lost and go-redis sends it again, which finds the key
\* taken: the request that wrote the placeholder treats itself as a replay.
LockRepeated(r) ==
    /\ Fault
    /\ pc[r] = "lock"
    /\ Free
    /\ key' = Processing(r)
    /\ Goto(r, "lookup")
    /\ UNCHANGED <<rows, found, answer>>

\* The replay looks the payment up: "processing" is a conflict; an expired key
\* yields the empty id, which no payment has.
GetTransactionID(r) ==
    /\ pc[r] = "lookup"
    /\ \/ key.state = "processing" /\ Answer(r, 409, Nobody) /\ UNCHANGED found
       \/ key = Absent /\ Answer(r, 500, Nobody) /\ UNCHANGED found
       \/ /\ key.state = "created"
          /\ found' = [found EXCEPT ![r] = key.by]
          /\ Goto(r, "fetch")
          /\ UNCHANGED answer
    /\ NoFault
    /\ UNCHANGED <<key, rows>>

GetPayment(r) ==
    /\ pc[r] = "fetch"
    /\ IF found[r] \in rows THEN Answer(r, 200, found[r])
                            ELSE Answer(r, 500, Nobody)
    /\ NoFault
    /\ UNCHANGED <<key, rows, found>>

\* Either read fails.
ReplayFails(r) ==
    /\ Fault
    /\ pc[r] \in {"lookup", "fetch"}
    /\ Answer(r, 500, Nobody)
    /\ UNCHANGED <<key, rows, found>>

\* The body does not decode or validate: DEL, whoever wrote the key.
InvalidBody(r) ==
    /\ pc[r] = "body"
    /\ r \in Invalid
    /\ Answer(r, 400, Nobody)
    /\ key' = Absent
    /\ NoFault
    /\ UNCHANGED <<rows, found>>

\* Without the UNIQUE column every INSERT would succeed.
WrongUnique == TRUE

\* The column is UNIQUE alone, not together with merchant_id.
Unique == rows = {}

\* The INSERT: the UNIQUE column admits one payment per key, whoever asks.
Insert(r) ==
    /\ pc[r] = "body"
    /\ r \notin Invalid
    /\ \/ Unique /\ rows' = rows \cup {r} /\ Goto(r, "set")
       \/ ~Unique /\ UNCHANGED rows /\ Goto(r, "unlock")
    /\ NoFault
    /\ UNCHANGED <<key, found, answer>>

\* The database gives an error; the row may have been committed.
InsertFails(r) ==
    /\ Fault
    /\ pc[r] = "body"
    /\ r \notin Invalid
    /\ Goto(r, "unlock")
    /\ MayHave(Unique /\ rows' = rows \cup {r}, UNCHANGED rows)
    /\ UNCHANGED <<key, found, answer>>

\* After a failed INSERT: DEL, whoever wrote the key.
Unlock(r) ==
    /\ pc[r] = "unlock"
    /\ key' = Absent
    /\ Answer(r, 500, Nobody)
    /\ NoFault
    /\ UNCHANGED <<rows, found>>

\* The error of a DEL is ignored; the key may stay.
UnlockFails(r) ==
    /\ Fault
    /\ \/ pc[r] = "body" /\ r \in Invalid /\ Answer(r, 400, Nobody)
       \/ pc[r] = "unlock" /\ Answer(r, 500, Nobody)
    /\ UNCHANGED <<key, rows, found>>

\* SET XX: writes the id only if the key still exists.
Place(r) == key' = IF key = Absent THEN Absent ELSE Created(r)

SetTransactionID(r) ==
    /\ pc[r] = "set"
    /\ Place(r)
    /\ Answer(r, 201, r)
    /\ NoFault
    /\ UNCHANGED <<rows, found>>

\* The error of the SET is only logged.
SetTransactionIDFails(r) ==
    /\ Fault
    /\ pc[r] = "set"
    /\ MayHave(Place(r), UNCHANGED key)
    /\ Answer(r, 201, r)
    /\ UNCHANGED <<rows, found>>

\* The process dies, or the client leaves and the request's context is
\* cancelled: no later call of this handler has an effect.
Crash(r) ==
    /\ Fault
    /\ pc[r] \notin {"lock", "done"}
    /\ Goto(r, "done")
    /\ UNCHANGED <<key, rows, found, answer>>

\* Both SETs carry the TTL of 24 hours, and no request takes that long; the
\* wrong SET NX leaves it to SET XX.
WrongExpirable == key.state = "created" /\ pc[key.by] = "done"

Expirable == key # Absent /\ pc[key.by] = "done"

Expire ==
    /\ Expirable
    /\ key' = Absent
    /\ NoFault
    /\ UNCHANGED <<rows, pc, found, answer>>

-----------------------------------------------------------------------------
Handle(r) ==
    \/ Lock(r)
    \/ GetTransactionID(r)
    \/ GetPayment(r)
    \/ InvalidBody(r)
    \/ Insert(r)
    \/ Unlock(r)
    \/ SetTransactionID(r)

Misfortune(r) ==
    \/ LockFails(r)
    \/ LockRepeated(r)
    \/ ReplayFails(r)
    \/ InsertFails(r)
    \/ UnlockFails(r)
    \/ SetTransactionIDFails(r)
    \/ Crash(r)

Next == Expire \/ \E r \in Requests : Handle(r) \/ Misfortune(r)

Spec == Init /\ [][Next]_vars

\* A handler that has begun goes on, and the TTL ends. No request has to come.
Fairness ==
    /\ \A r \in Requests : WF_vars(pc[r] # "lock" /\ Handle(r))
    /\ WF_vars(Expire)

FairSpec == Spec /\ Fairness

-----------------------------------------------------------------------------
(* Properties *)

\* Every variable keeps its type.
TypeOK ==
    /\ key \in Values \cup {Absent}
    /\ rows \subseteq Requests
    /\ pc \in [Requests -> {"lock", "body", "lookup", "fetch", "set", "unlock",
                           "done"}]
    /\ found \in [Requests -> Requests \cup {Nobody}]
    /\ answer \in [Requests -> [code : Codes \cup {0},
                                tx : Requests \cup {Nobody}]]
    /\ faults \in 0..MaxFaults

\* Every response that names a payment (201 for the creation, 200 for a replay)
\* names the one payment the database holds under the key, so all requests with
\* that key agree: even when Redis fails open, when a request that does not own
\* the key deletes it, when the key expires or a handler dies half-way.
\*
\* Scope: a key means one payment for all merchants together. For requests of one
\* merchant this is idempotency. A second merchant who happens to use the key is
\* answered 200 with the first one's payment, or 500, and its own is never made:
\* README.md:106 documents UNIQUE (merchant_id, idempotency_key), under which it
\* would be. The property says what the code keeps, not what that line promises.
AnswersAgree ==
    \A r \in Requests :
        answer[r].code \in {200, 201} => rows = {answer[r].tx}

\* Whatever a replay has read or will read from Redis is a committed payment.
\* With AnswersAgree this is inductive.
KeyNamesPayment ==
    /\ \A r, s \in rows : r = s
    /\ key.state = "created" => key.by \in rows
    /\ \A r \in Requests :
          /\ pc[r] = "set" => r \in rows
          /\ pc[r] = "fetch" => found[r] \in rows

\* Requests between a successful Lock and their last call.
Handling == {r \in Requests : pc[r] \in {"body", "set", "unlock"}}

\* Every request at work beside the one that wrote the key has cost a fault,
\* and that one is at work until it has written the id. What makes the
\* properties of the lock inductive.
KeyHasWriter ==
    /\ Cardinality(Handling \ {key.by}) <= faults
    /\ key.state = "created" => pc[key.by] = "done"
    /\ key.state = "processing" /\ faults = 0 => key.by \in Handling

IdempotencyInv == TypeOK /\ KeyNamesPayment /\ AnswersAgree /\ KeyHasWriter

\* The Redis key is a lock: without faults one request at a time creates the
\* payment, and every fault lets in at most one more.
HandlingIsExclusive == Cardinality(Handling) <= 1 + faults

\* Only a fault leaves the placeholder behind a request that has ended.
PlaceholderIsHeld ==
    key.state = "processing" /\ faults = 0 => pc[key.by] # "done"

\* A placeholder does not stay: when its handler dies, or loses its DEL, its SET
\* or the reply to its SET NX, retries are answered 409, but only until the TTL
\* ends. The TTL must be there from the first SET on.
PlaceholderEnds == key.state = "processing" ~> key.state # "processing"

\* Without faults no request takes away the key that leads retries to the
\* payment: it only goes when its TTL ends.
KeptUntilExpiry ==
    [][key.state = "created" /\ key' # key /\ faults = 0 => UNCHANGED pc]_vars
=============================================================================
