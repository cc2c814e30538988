------------------------- MODULE IdempotencyProofs -------------------------
(***************************************************************************)
(* Theorems about Idempotency, for any set of requests and any number of   *)
(* faults.  IdempotencyInv has two parts.  A payment in the database is    *)
(* the only one with its key and stays there, so it is enough that an id   *)
(* is read, kept or answered only after its INSERT (PaymentInv).  The key  *)
(* in Redis lets one request at a time through, and each one more is paid  *)
(* for by a fault (KeyHasWriter).                                          *)
(***************************************************************************)
EXTENDS Idempotency, FiniteSetTheorems, TLAPS

\* The part of the invariant that the database upholds.
PaymentInv == TypeOK /\ KeyNamesPayment /\ AnswersAgree

\* The program starts without a payment, a key or an answer.
LEMMA InitInv == Init => PaymentInv
BY ConstantsAssumption
DEF Init, PaymentInv, TypeOK, KeyNamesPayment, AnswersAgree, Absent,
    NoAnswer, Codes, ConstantsAssumption

\* The values a handler writes to the key.
LEMMA KeyTypes ==
    /\ Absent.state = "absent"
    /\ \A r \in Requests : /\ Processing(r) \in Values
                           /\ Processing(r).state = "processing"
                           /\ Created(r) \in Values
                           /\ Created(r).by = r
BY DEF Absent, Processing, Created, Values

\* The steps of the creating handler.
LEMMA CreateStep ==
    ASSUME PaymentInv, NEW r \in Requests,
           \/ Lock(r) \/ LockFails(r) \/ LockRepeated(r)
           \/ InvalidBody(r) \/ Insert(r) \/ InsertFails(r)
           \/ Unlock(r) \/ UnlockFails(r)
           \/ SetTransactionID(r) \/ SetTransactionIDFails(r)
    PROVE  PaymentInv'
<1> USE ConstantsAssumption, KeyTypes
    DEF ConstantsAssumption, PaymentInv, Goto, Fault, NoFault, Codes
<1>1. CASE Lock(r)
  BY <1>1 DEF Lock, Free, TypeOK, KeyNamesPayment, AnswersAgree
<1>2. CASE LockFails(r)
  <2>1. /\ key' = Processing(r) \/ key' = key
        /\ pc' = [pc EXCEPT ![r] = "body"] /\ pc[r] = "lock"
        /\ UNCHANGED <<rows, found, answer>>
        /\ faults' \in 0..MaxFaults
    BY <1>2 DEF LockFails, MayHave, TypeOK
  <2>2. TypeOK'
    BY <2>1 DEF TypeOK
  <2>3. KeyNamesPayment' /\ AnswersAgree'
    BY <2>1 DEF TypeOK, KeyNamesPayment, AnswersAgree
  <2>4. QED
    BY <2>2, <2>3
<1>3. CASE InvalidBody(r)
  BY <1>3 DEF InvalidBody, Answer, TypeOK, KeyNamesPayment,
              AnswersAgree
<1>4. CASE Insert(r)
  <2>1. CASE Unique
    <3>1. /\ rows = {} /\ rows' = {r}
          /\ pc' = [pc EXCEPT ![r] = "set"]
          /\ UNCHANGED <<key, found, answer, faults>>
      BY <1>4, <2>1 DEF Insert, Unique
    <3>2. TypeOK'
      BY <3>1 DEF TypeOK
    <3>3. KeyNamesPayment'
      BY <3>1 DEF TypeOK, KeyNamesPayment
    <3>4. \A s \in Requests : answer[s].code \notin {200, 201}
      BY <3>1 DEF AnswersAgree
    <3>5. AnswersAgree'
      BY <3>1, <3>4 DEF AnswersAgree
    <3>6. QED
      BY <3>2, <3>3, <3>5
  <2>2. CASE ~Unique
    BY <1>4, <2>2 DEF Insert, TypeOK, KeyNamesPayment, AnswersAgree
  <2>3. QED
    BY <2>1, <2>2
<1>5. CASE InsertFails(r)
  BY <1>5 DEF InsertFails, MayHave, Unique, TypeOK, KeyNamesPayment,
              AnswersAgree
<1>6. CASE Unlock(r)
  BY <1>6 DEF Unlock, Answer, TypeOK, KeyNamesPayment, AnswersAgree
<1>7. CASE UnlockFails(r)
  BY <1>7 DEF UnlockFails, Answer, TypeOK, KeyNamesPayment, AnswersAgree
<1>8. CASE SetTransactionID(r) \/ SetTransactionIDFails(r)
  BY <1>8 DEF SetTransactionID, SetTransactionIDFails, MayHave, Place, Answer,
              TypeOK, KeyNamesPayment, AnswersAgree
<1>9. CASE LockRepeated(r)
  <2>1. /\ key' = Processing(r)
        /\ pc' = [pc EXCEPT ![r] = "lookup"] /\ pc[r] = "lock"
        /\ UNCHANGED <<rows, found, answer>>
        /\ faults' \in 0..MaxFaults
    BY <1>9 DEF LockRepeated, TypeOK
  <2>2. TypeOK'
    BY <2>1 DEF TypeOK
  <2>3. KeyNamesPayment' /\ AnswersAgree'
    BY <2>1 DEF TypeOK, KeyNamesPayment, AnswersAgree
  <2>4. QED
    BY <2>2, <2>3
<1>10. QED
  BY <1>1, <1>2, <1>3, <1>4, <1>5, <1>6, <1>7, <1>8, <1>9

\* The steps of a replay, a crash, the end of the TTL, and stuttering.
LEMMA ReplayStep ==
    ASSUME PaymentInv,
           \/ \E r \in Requests : \/ GetTransactionID(r) \/ GetPayment(r)
                                  \/ ReplayFails(r) \/ Crash(r)
           \/ Expire
           \/ UNCHANGED vars
    PROVE  PaymentInv'
<1> USE ConstantsAssumption, KeyTypes
    DEF ConstantsAssumption, PaymentInv, Goto, Fault, NoFault, Codes
<1>1. ASSUME NEW r \in Requests, GetTransactionID(r)
      PROVE  PaymentInv'
  BY <1>1 DEF GetTransactionID, Answer, TypeOK, KeyNamesPayment, AnswersAgree,
              Values
<1>2. ASSUME NEW r \in Requests, GetPayment(r)
      PROVE  PaymentInv'
  BY <1>2 DEF GetPayment, Answer, TypeOK, KeyNamesPayment, AnswersAgree
<1>3. ASSUME NEW r \in Requests, ReplayFails(r) \/ Crash(r)
      PROVE  PaymentInv'
  BY <1>3 DEF ReplayFails, Crash, Answer, TypeOK, KeyNamesPayment,
              AnswersAgree
<1>4. CASE Expire \/ UNCHANGED vars
  BY <1>4 DEF Expire, Expirable, vars, TypeOK, KeyNamesPayment, AnswersAgree
<1>5. QED
  BY <1>1, <1>2, <1>3, <1>4

-----------------------------------------------------------------------------
(* The key as a lock *)

\* The set of requests at work stays finite: one comes in at a time.
LockInv == IsFiniteSet(Handling) /\ KeyHasWriter

LEMMA InitLock == Init => LockInv
<1> SUFFICES ASSUME Init PROVE LockInv
  OBVIOUS
<1>1. Handling = {} /\ Handling \ {key.by} = {} /\ faults = 0 /\ key.state = "absent"
  BY DEF Init, Handling, Absent
<1>2. QED
  BY <1>1, FS_EmptySet DEF LockInv, KeyHasWriter

\* A request at work gives way to another one as the writer of the key, or
\* leaves: one fewer beside the writer, or as many.
LEMMA Others ==
    ASSUME NEW S, IsFiniteSet(S), NEW r \in S, NEW o
    PROVE  /\ Cardinality(S \ {o}) \in Nat /\ Cardinality(S \ {r}) \in Nat
           /\ Cardinality(S \ {r}) <= Cardinality(S \ {o})
<1>1. /\ IsFiniteSet(S \ {o}) /\ Cardinality(S \ {o}) >= Cardinality(S) - 1
      /\ IsFiniteSet(S \ {r}) /\ Cardinality(S \ {r}) = Cardinality(S) - 1
  <2>1. IsFiniteSet(S \ {o}) /\ Cardinality(S) \in Nat
    BY FS_RemoveElement, FS_CardinalityType
  <2>2. Cardinality(S \ {o}) >= Cardinality(S) - 1
    BY <2>1, FS_RemoveElement
  <2>3. IsFiniteSet(S \ {r}) /\ Cardinality(S \ {r}) = Cardinality(S) - 1
    BY FS_RemoveElement
  <2>4. QED
    BY <2>1, <2>2, <2>3
<1>2. QED
  BY <1>1, FS_CardinalityType

\* A step takes nobody in: the requests at work stay or leave.
LEMMA NobodyComes ==
    ASSUME TypeOK, LockInv, Handling' \subseteq Handling, faults <= faults',
           faults' \in Nat,
           key'.by = key.by \/ key.by \notin Handling'
    PROVE  IsFiniteSet(Handling') /\ Cardinality(Handling' \ {key'.by}) <= faults'
<1>1. /\ Handling' \ {key'.by} \subseteq Handling \ {key.by}
      /\ IsFiniteSet(Handling \ {key.by})
  BY FS_RemoveElement DEF LockInv
<1>2. Cardinality(Handling' \ {key'.by}) <= Cardinality(Handling \ {key.by})
  BY <1>1, FS_Subset
<1>3. Cardinality(Handling \ {key.by}) \in Nat /\ Cardinality(Handling' \ {key'.by}) \in Nat
  BY <1>1, FS_Subset, FS_CardinalityType
<1>4. Cardinality(Handling \ {key.by}) <= faults /\ faults \in Nat
  BY DEF LockInv, KeyHasWriter, TypeOK
<1>5. IsFiniteSet(Handling')
  BY FS_Subset DEF LockInv
<1>6. QED
  BY <1>2, <1>3, <1>4, <1>5

\* A request ends, and the key stays, goes, or gets its id.
LEMMA OneLeaves ==
    ASSUME TypeOK, LockInv, NEW r \in Requests, Handling' \subseteq Handling \ {r},
           faults <= faults', faults' \in Nat,
           \/ key' = key
           \/ r \in Handling /\ (key' = Absent \/ key' = Created(r))
    PROVE  IsFiniteSet(Handling') /\ Cardinality(Handling' \ {key'.by}) <= faults'
<1>1. CASE key' = key
  BY <1>1, NobodyComes
<1>2. CASE r \in Handling /\ (key' = Absent \/ key' = Created(r))
  <2>1. Handling' \ {key'.by} \subseteq Handling \ {r} /\ IsFiniteSet(Handling \ {r})
    BY FS_RemoveElement DEF LockInv
  <2>2. /\ Cardinality(Handling' \ {key'.by}) \in Nat
        /\ Cardinality(Handling' \ {key'.by}) <= Cardinality(Handling \ {r})
    BY <2>1, FS_Subset, FS_CardinalityType
  <2>3. /\ Cardinality(Handling \ {key.by}) \in Nat /\ Cardinality(Handling \ {r}) \in Nat
        /\ Cardinality(Handling \ {r}) <= Cardinality(Handling \ {key.by})
    BY <1>2, Others DEF LockInv
  <2>4. Cardinality(Handling \ {key.by}) <= faults /\ faults \in Nat
    BY DEF LockInv, KeyHasWriter, TypeOK
  <2>5. IsFiniteSet(Handling')
    BY FS_Subset DEF LockInv
  <2>6. QED
    BY <2>2, <2>3, <2>4, <2>5
<1>3. QED
  BY <1>1, <1>2

\* A request takes a free key.
LEMMA OneTakesTheKey ==
    ASSUME TypeOK, LockInv, NEW r \in Requests, key = Absent, key' = Processing(r),
           Handling' = Handling \cup {r}, faults <= faults', faults' \in Nat
    PROVE  IsFiniteSet(Handling') /\ Cardinality(Handling' \ {key'.by}) <= faults'
<1>1. Handling \ {key.by} = Handling /\ key'.by = r
  BY ConstantsAssumption DEF ConstantsAssumption, Absent, Processing, Handling
<1>2. Cardinality(Handling) <= faults /\ IsFiniteSet(Handling) /\ faults \in Nat
  <2>1. Cardinality(Handling \ {key.by}) <= faults /\ IsFiniteSet(Handling)
    BY DEF LockInv, KeyHasWriter
  <2>2. faults \in Nat
    BY DEF TypeOK
  <2>3. QED
    BY <1>1, <2>1, <2>2
<1>3. Handling' \ {key'.by} \subseteq Handling
  BY <1>1
<1>4. /\ Cardinality(Handling' \ {key'.by}) <= Cardinality(Handling)
      /\ Cardinality(Handling' \ {key'.by}) \in Nat /\ Cardinality(Handling) \in Nat
  BY <1>2, <1>3, FS_Subset, FS_CardinalityType
<1>5. IsFiniteSet(Handling')
  BY <1>2, FS_AddElement
<1>6. QED
  BY <1>2, <1>4, <1>5

\* A request goes on without the key, at the price of a fault.
LEMMA OneComesWithoutTheKey ==
    ASSUME TypeOK, LockInv, NEW r \in Requests, key' = key,
           Handling' = Handling \cup {r}, faults' = faults + 1
    PROVE  IsFiniteSet(Handling') /\ Cardinality(Handling' \ {key'.by}) <= faults'
<1> DEFINE S == Handling \ {key.by}
<1>1. IsFiniteSet(Handling') /\ IsFiniteSet(S) /\ Cardinality(S) \in Nat
  BY FS_AddElement, FS_RemoveElement, FS_CardinalityType DEF LockInv
<1>2. Handling' \ {key'.by} \subseteq S \cup {r}
  OBVIOUS
<1>3. IsFiniteSet(S \cup {r}) /\ Cardinality(S \cup {r}) <= Cardinality(S) + 1
  <2> HIDE DEF S
  <2>1. /\ IsFiniteSet(S \cup {r})
        /\ Cardinality(S \cup {r}) = IF r \in S THEN Cardinality(S) ELSE Cardinality(S) + 1
    BY <1>1, FS_AddElement
  <2>2. QED
    BY <1>1, <2>1
<1>4. /\ Cardinality(Handling' \ {key'.by}) \in Nat /\ Cardinality(S \cup {r}) \in Nat
      /\ Cardinality(Handling' \ {key'.by}) <= Cardinality(S \cup {r})
  BY <1>2, <1>3, FS_Subset, FS_CardinalityType
<1>5. Cardinality(S) <= faults /\ faults \in Nat
  BY DEF LockInv, KeyHasWriter, TypeOK
<1>6. QED
  BY <1>1, <1>3, <1>4, <1>5

\* What a step does to the key, by the request that takes it.
LEMMA LockSteps ==
    ASSUME TypeOK, TypeOK', [Next]_vars
    PROVE  \/ /\ UNCHANGED <<key, Handling>> /\ faults <= faults'
              /\ \A o \in Requests : pc[o] = "done" => pc'[o] = "done"
           \/ /\ key # Absent /\ pc[key.by] = "done" /\ key' = Absent
              /\ UNCHANGED <<pc, faults>>
           \/ /\ key = Absent /\ UNCHANGED Handling /\ faults' = faults + 1
              /\ \E r \in Requests : key' = Processing(r)
           \/ \E r \in Requests :
                /\ pc[r] # "done" /\ \A o \in Requests \ {r} : pc'[o] = pc[o]
                /\ \/ /\ Handling' = Handling \cup {r} /\ r \notin Handling /\ pc'[r] = "body"
                      /\ \/ key = Absent /\ key' = Processing(r) /\ faults <= faults'
                         \/ key' = key /\ faults' = faults + 1
                   \/ /\ Handling' = Handling \ {r} /\ pc'[r] = "done"
                      /\ faults <= faults'
                      /\ \/ key' = key /\ faults' = faults + 1
                         \/ r \in Handling /\ key' = Absent
                         \/ r \in Handling /\ key # Absent /\ key' = Created(r)
<1> USE DEF Handling, Goto, Answer, NoFault
<1>0. faults \in Nat /\ (Fault => faults' = faults + 1 /\ faults <= faults')
  BY DEF Fault, TypeOK
<1> DEFINE Goes == /\ UNCHANGED <<key, Handling>> /\ faults <= faults'
                   /\ \A o \in Requests : pc[o] = "done" => pc'[o] = "done"
           Comes(r) ==
             /\ pc[r] # "done" /\ \A o \in Requests \ {r} : pc'[o] = pc[o]
             /\ Handling' = Handling \cup {r} /\ r \notin Handling /\ pc'[r] = "body"
             /\ \/ key = Absent /\ key' = Processing(r) /\ faults <= faults'
                \/ key' = key /\ faults' = faults + 1
           Leaves(r) ==
             /\ pc[r] # "done" /\ \A o \in Requests \ {r} : pc'[o] = pc[o]
             /\ Handling' = Handling \ {r} /\ pc'[r] = "done" /\ faults <= faults'
             /\ \/ key' = key /\ faults' = faults + 1
                \/ r \in Handling /\ key' = Absent
                \/ r \in Handling /\ key # Absent /\ key' = Created(r)
<1>1. CASE UNCHANGED vars \/ Expire
  BY <1>0, <1>1 DEF vars, Expire, Expirable
<1>2. ASSUME NEW r \in Requests, GetTransactionID(r) \/ GetPayment(r) \/ ReplayFails(r)
      PROVE  Goes
  BY <1>0, <1>2 DEF GetTransactionID, GetPayment, ReplayFails, TypeOK
<1>3. ASSUME NEW r \in Requests, Insert(r) \/ InsertFails(r)
      PROVE  Goes
  BY <1>0, <1>3 DEF Insert, InsertFails, TypeOK
<1>4. ASSUME NEW r \in Requests, Lock(r)
      PROVE  Comes(r) \/ Goes
  BY <1>0, <1>4 DEF Lock, Free, TypeOK
<1>5. ASSUME NEW r \in Requests, LockFails(r) PROVE Comes(r)
  BY <1>0, <1>5 DEF LockFails, MayHave, Free, TypeOK
<1>6. ASSUME NEW r \in Requests, InvalidBody(r) \/ Unlock(r) \/ UnlockFails(r) \/ Crash(r)
      PROVE  Leaves(r)
  BY <1>0, <1>6 DEF InvalidBody, Unlock, UnlockFails, Crash, TypeOK
<1>7. ASSUME NEW r \in Requests, SetTransactionID(r) \/ SetTransactionIDFails(r)
      PROVE  Leaves(r)
  BY <1>0, <1>7 DEF SetTransactionID, SetTransactionIDFails, MayHave, Place, TypeOK
<1>8. ASSUME NEW r \in Requests, LockRepeated(r)
      PROVE  /\ key = Absent /\ UNCHANGED Handling /\ faults' = faults + 1
             /\ key' = Processing(r)
  BY <1>0, <1>8 DEF LockRepeated, Free, TypeOK
<1>9. QED
  BY <1>1, <1>2, <1>3, <1>4, <1>5, <1>6, <1>7, <1>8 DEF Next, Handle, Misfortune

LEMMA LockStep ==
    ASSUME TypeOK, TypeOK', LockInv, [Next]_vars
    PROVE  LockInv'
<1>0. /\ faults \in Nat /\ faults' \in Nat /\ Absent.state = "absent"
      /\ key.state # "absent" => key.by \in Requests
  BY DEF TypeOK, Values, Absent
<1>1. /\ key.state = "created" => pc[key.by] = "done"
      /\ key.state = "processing" /\ faults = 0 => key.by \in Handling
  BY DEF LockInv, KeyHasWriter
<1>2. CASE /\ UNCHANGED <<key, Handling>> /\ faults <= faults'
           /\ \A o \in Requests : pc[o] = "done" => pc'[o] = "done"
  <2>1. IsFiniteSet(Handling') /\ Cardinality(Handling' \ {key'.by}) <= faults'
    BY <1>0, <1>2, NobodyComes
  <2>2. key'.state = "created" => pc'[key'.by] = "done"
    BY <1>0, <1>1, <1>2
  <2>3. key'.state = "processing" /\ faults' = 0 => key'.by \in Handling'
    BY <1>0, <1>1, <1>2
  <2>4. QED
    BY <2>1, <2>2, <2>3 DEF LockInv, KeyHasWriter
<1>3. CASE /\ key # Absent /\ pc[key.by] = "done" /\ key' = Absent
           /\ UNCHANGED <<pc, faults>>
  <2>1. key.by \notin Handling /\ Handling' = Handling
    BY <1>3 DEF Handling
  <2>2. IsFiniteSet(Handling') /\ Cardinality(Handling' \ {key'.by}) <= faults'
    BY <1>0, <1>3, <2>1, NobodyComes
  <2>3. QED
    BY <1>0, <1>3, <2>2 DEF LockInv, KeyHasWriter
<1>4. ASSUME NEW r \in Requests, pc[r] # "done", r \notin Handling,
             \A o \in Requests \ {r} : pc'[o] = pc[o],
             Handling' = Handling \cup {r},
             \/ key = Absent /\ key' = Processing(r) /\ faults <= faults'
             \/ key' = key /\ faults' = faults + 1
      PROVE  LockInv'
  <2>1. IsFiniteSet(Handling') /\ Cardinality(Handling' \ {key'.by}) <= faults'
    BY <1>0, <1>4, OneTakesTheKey, OneComesWithoutTheKey
  <2>2. key'.state = "created" => pc'[key'.by] = "done"
    BY <1>0, <1>1, <1>4 DEF Processing
  <2>3. key'.state = "processing" /\ faults' = 0 => key'.by \in Handling'
    BY <1>0, <1>4 DEF Processing
  <2>4. QED
    BY <2>1, <2>2, <2>3 DEF LockInv, KeyHasWriter
<1>5. ASSUME NEW r \in Requests, pc[r] # "done",
             \A o \in Requests \ {r} : pc'[o] = pc[o],
             Handling' = Handling \ {r}, pc'[r] = "done", faults <= faults',
             \/ key' = key /\ faults' = faults + 1
             \/ r \in Handling /\ key' = Absent
             \/ r \in Handling /\ key # Absent /\ key' = Created(r)
      PROVE  LockInv'
  <2>1. IsFiniteSet(Handling') /\ Cardinality(Handling' \ {key'.by}) <= faults'
    BY <1>0, <1>5, OneLeaves
  <2>2. key'.state = "created" => pc'[key'.by] = "done"
    BY <1>0, <1>1, <1>5 DEF Created
  <2>3. key'.state = "processing" /\ faults' = 0 => key'.by \in Handling'
    BY <1>0, <1>5 DEF Created
  <2>4. QED
    BY <2>1, <2>2, <2>3 DEF LockInv, KeyHasWriter
<1>6. ASSUME key = Absent, UNCHANGED Handling, faults' = faults + 1,
             NEW r \in Requests, key' = Processing(r)
      PROVE  LockInv'
  <2>1. key.by \notin Handling'
    BY <1>6, ConstantsAssumption DEF ConstantsAssumption, Absent, Handling
  <2>2. IsFiniteSet(Handling') /\ Cardinality(Handling' \ {key'.by}) <= faults'
    BY <1>0, <1>6, <2>1, NobodyComes
  <2>3. key'.state = "processing" /\ faults' # 0
    BY <1>0, <1>6 DEF Processing
  <2>4. QED
    BY <2>2, <2>3 DEF LockInv, KeyHasWriter
<1>7. QED
  BY <1>2, <1>3, <1>4, <1>5, <1>6, LockSteps

\* The invariant holds in every reachable state: one payment per key, and one
\* request at work per key and fault.
THEOREM IdempotencyInvariant == Spec => []IdempotencyInv
<1> DEFINE Inv == PaymentInv /\ LockInv
<1>1. Init => Inv
  BY InitInv, InitLock
<1>2. PaymentInv /\ [Next]_vars => PaymentInv'
  BY CreateStep, ReplayStep DEF Next, Handle, Misfortune
<1>3. Inv /\ [Next]_vars => Inv'
  BY <1>2, LockStep DEF PaymentInv
<1>4. Inv => IdempotencyInv
  BY DEF PaymentInv, LockInv, IdempotencyInv
<1>5. QED
  BY <1>1, <1>3, <1>4, PTL DEF Spec

\* All responses that name a payment name the same one, the one in the
\* database: the handler's CreatePayment, with Redis and the UNIQUE column.
THEOREM OneAnswerPerKey == Spec => []AnswersAgree
<1>1. IdempotencyInv => AnswersAgree
  BY DEF IdempotencyInv
<1>2. QED
  BY IdempotencyInvariant, <1>1, PTL

\* SET NX lets one request at a time create the payment, and each fault one
\* more: for any number of requests under the key.
THEOREM OneRequestAtATime == Spec => []HandlingIsExclusive
<1> DEFINE Inv == TypeOK /\ LockInv
<1>1. Init => Inv
  BY InitInv, InitLock DEF PaymentInv
<1>2. IdempotencyInv /\ IdempotencyInv' /\ Inv /\ [Next]_vars => Inv'
  BY LockStep DEF IdempotencyInv
<1>3. Inv => HandlingIsExclusive
  <2> SUFFICES ASSUME Inv PROVE Cardinality(Handling) <= 1 + faults
    BY DEF HandlingIsExclusive
  <2>1. /\ IsFiniteSet(Handling) /\ Cardinality(Handling \ {key.by}) <= faults
        /\ faults \in Nat
    BY DEF LockInv, KeyHasWriter, TypeOK
  <2>2. Cardinality(Handling) \in Nat
    BY <2>1, FS_CardinalityType
  <2>3. Cardinality(Handling) <= Cardinality(Handling \ {key.by}) + 1
    BY <2>1, <2>2, FS_RemoveElement
  <2>4. Cardinality(Handling \ {key.by}) \in Nat
    BY <2>1, FS_RemoveElement, FS_CardinalityType
  <2>5. QED
    BY <2>1, <2>2, <2>3, <2>4
<1>4. QED
  BY <1>1, <1>2, <1>3, IdempotencyInvariant, PTL DEF Spec

\* Only a fault leaves the placeholder behind a request that has ended.
THEOREM PlaceholderHasItsRequest == Spec => []PlaceholderIsHeld
<1>1. IdempotencyInv => PlaceholderIsHeld
  BY DEF IdempotencyInv, KeyHasWriter, Handling, PlaceholderIsHeld
<1>2. QED
  BY IdempotencyInvariant, <1>1, PTL

\* Without faults the key that leads a retry to the payment goes only when its
\* TTL ends, since nobody is at work any more who would write or delete it.
THEOREM KeyStaysUntilExpiry == Spec => KeptUntilExpiry
<1> DEFINE A == key.state = "created" /\ key' # key /\ faults = 0 => UNCHANGED pc
           Finite == IsFiniteSet(Handling)
<1>1. Init => Finite
  BY InitLock DEF LockInv
<1>2. IdempotencyInv /\ IdempotencyInv' /\ Finite /\ [Next]_vars => Finite'
  BY LockStep DEF IdempotencyInv, LockInv
<1>3. IdempotencyInv /\ IdempotencyInv' /\ Finite /\ [Next]_vars => [A]_vars
  <2> SUFFICES ASSUME IdempotencyInv, IdempotencyInv', Finite, [Next]_vars,
                      key.state = "created", key' # key, faults = 0
               PROVE  UNCHANGED pc
    OBVIOUS
  <2>1. TypeOK /\ TypeOK' /\ pc[key.by] = "done" /\ key # Absent
        /\ Cardinality(Handling \ {key.by}) <= 0
    BY DEF IdempotencyInv, KeyHasWriter, Absent
  <2>2. Handling \ {key.by} = {}
    <3>1. IsFiniteSet(Handling \ {key.by})
      BY FS_RemoveElement
    <3>2. Cardinality(Handling \ {key.by}) = 0
      BY <2>1, <3>1, FS_CardinalityType
    <3>3. QED
      BY <3>1, <3>2, FS_EmptySet
  <2>3. Handling = {}
    BY <2>1, <2>2 DEF Handling
  <2>4. QED
    BY <2>1, <2>3, LockSteps
<1> HIDE DEF Finite
<1>4. Spec => [][A]_vars
  BY <1>1, <1>2, <1>3, IdempotencyInvariant, PTL DEF Spec
<1>5. QED
  BY <1>4 DEF KeptUntilExpiry
=============================================================================
