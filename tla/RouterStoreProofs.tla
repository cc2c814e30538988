--------------------------- MODULE RouterStoreProofs ---------------------------
(***************************************************************************)
(* Theorems about RouterStore: the inductive invariant, what Redis holds,  *)
(* and what a restart may lose, for any number of providers and goroutines *)
(* and any persistEvery.                                                   *)
(***************************************************************************)
EXTENDS RouterStore, FiniteSetTheorems, TLAPS

(* Sequences and remainders. *)

LEMMA PrefixIff ==
  ASSUME NEW S, NEW s \in Seq(S), NEW t \in Seq(S)
  PROVE  IsPrefix(s, t) <=> /\ Len(s) <= Len(t)
                            /\ \A i \in 1 .. Len(s) : s[i] = t[i]
<1>1. CASE Len(s) <= Len(t)
  <2>1. /\ SubSeq(s, 1, Len(s)) \in Seq(S) /\ SubSeq(t, 1, Len(s)) \in Seq(S)
        /\ Len(SubSeq(s, 1, Len(s))) = Len(s) /\ Len(SubSeq(t, 1, Len(s))) = Len(s)
        /\ \A i \in 1 .. Len(s) : /\ SubSeq(s, 1, Len(s))[i] = s[i]
                                  /\ SubSeq(t, 1, Len(s))[i] = t[i]
    BY <1>1
  <2> QED
    BY <1>1, <2>1 DEF IsPrefix
<1>2. CASE ~(Len(s) <= Len(t))
  BY <1>2 DEF IsPrefix
<1> QED
  BY <1>1, <1>2

\* A prefix is what its length cuts off.
LEMMA PrefixIsCut ==
  ASSUME NEW S, NEW s \in Seq(S), NEW t \in Seq(S), IsPrefix(s, t)
  PROVE  s = SubSeq(t, 1, Len(s))
<1>1. SubSeq(s, 1, Len(s)) = s
  OBVIOUS
<1> QED
  BY <1>1 DEF IsPrefix

LEMMA CutIsPrefix ==
  ASSUME NEW S, NEW t \in Seq(S), NEW n \in 0 .. Len(t)
  PROVE  /\ SubSeq(t, 1, n) \in Seq(S) /\ Len(SubSeq(t, 1, n)) = n
         /\ IsPrefix(SubSeq(t, 1, n), t)
<1>1. /\ SubSeq(t, 1, n) \in Seq(S) /\ Len(SubSeq(t, 1, n)) = n
      /\ \A i \in 1 .. n : SubSeq(t, 1, n)[i] = t[i]
  OBVIOUS
<1> DEFINE s == SubSeq(t, 1, n)
<1>2. /\ s \in Seq(S) /\ Len(s) <= Len(t)
      /\ \A i \in 1 .. Len(s) : s[i] = t[i]
  BY <1>1
<1> HIDE DEF s
<1>3. IsPrefix(s, t)
  BY <1>2, PrefixIff
<1> QED
  BY <1>1, <1>3 DEF s

LEMMA PrefixRefl ==
  ASSUME NEW S, NEW s \in Seq(S)
  PROVE  IsPrefix(s, s) /\ IsPrefix(<<>>, s)
<1>1. IsPrefix(s, s)
  BY DEF IsPrefix
<1>2. SubSeq(<<>>, 1, 0) = SubSeq(s, 1, 0) /\ Len(<<>>) = 0 /\ 0 <= Len(s)
  OBVIOUS
<1>3. IsPrefix(<<>>, s)
  BY <1>2 DEF IsPrefix
<1> QED
  BY <1>1, <1>3

LEMMA AppendFacts ==
  ASSUME NEW S, NEW t \in Seq(S), NEW e \in S
  PROVE  /\ Append(t, e) \in Seq(S) /\ Len(Append(t, e)) = Len(t) + 1
         /\ Range(Append(t, e)) = Range(t) \cup {e}
         /\ \A n \in 0 .. Len(t) : SubSeq(Append(t, e), 1, n) = SubSeq(t, 1, n)
         /\ \A s \in Seq(S) : IsPrefix(s, t) => IsPrefix(s, Append(t, e))
<1>1. /\ Append(t, e) \in Seq(S) /\ Len(Append(t, e)) = Len(t) + 1
      /\ \A i \in 1 .. Len(t) : Append(t, e)[i] = t[i]
      /\ Append(t, e)[Len(t) + 1] = e
  OBVIOUS
<1>2. Range(Append(t, e)) = Range(t) \cup {e}
  BY <1>1 DEF Range
<1>3. ASSUME NEW n \in 0 .. Len(t) PROVE SubSeq(Append(t, e), 1, n) = SubSeq(t, 1, n)
  OBVIOUS
<1>4. ASSUME NEW s \in Seq(S), IsPrefix(s, t) PROVE IsPrefix(s, Append(t, e))
  <2>1. Len(s) <= Len(t) /\ \A i \in 1 .. Len(s) : s[i] = t[i]
    BY <1>4, PrefixIff
  <2>2. Len(s) <= Len(Append(t, e)) /\ \A i \in 1 .. Len(s) : s[i] = Append(t, e)[i]
    BY <1>1, <2>1
  <2> QED
    BY <1>1, <2>2, PrefixIff
<1> QED
  BY <1>1, <1>2, <1>3, <1>4

LEMMA Remainder ==
  ASSUME NEW d \in Nat \ {0}, NEW q \in Int, NEW r \in 0 .. d - 1,
         NEW p \in Int, NEW s \in 0 .. d - 1, d * q + r = d * p + s
  PROVE  r = s
<1>1. d * (q - p) = s - r
  OBVIOUS
<1>2. CASE q - p >= 1
  <2>1. d * (q - p) >= d
    BY <1>2
  <2> QED
    BY <1>1, <2>1
<1>3. CASE q - p <= -1
  <2>1. d * (q - p) <= -d
    BY <1>3
  <2> QED
    BY <1>1, <2>1
<1>4. CASE q = p
  BY <1>4
<1> QED
  BY <1>2, <1>3, <1>4

\* Between two saves the counter of transactions counts up.
LEMMA NextRemainder ==
  ASSUME NEW n \in Nat, NEW d \in Nat \ {0}
  PROVE  /\ n % d \in 0 .. d - 1
         /\ (n + 1) % d # 0 => (n + 1) % d = (n % d) + 1
<1>1. /\ n = d * (n \div d) + (n % d) /\ n \div d \in Int /\ n % d \in 0 .. d - 1
  OBVIOUS
<1>2. /\ n + 1 = d * ((n + 1) \div d) + ((n + 1) % d)
      /\ (n + 1) \div d \in Int /\ (n + 1) % d \in 0 .. d - 1
  OBVIOUS
<1> DEFINE q == n \div d
           r == n % d
           p == (n + 1) \div d
           s == (n + 1) % d
<1> HIDE DEF q, r, p, s
<1>3. /\ n = d * q + r /\ q \in Int /\ r \in 0 .. d - 1
      /\ n + 1 = d * p + s /\ p \in Int /\ s \in 0 .. d - 1
  BY <1>1, <1>2 DEF q, r, p, s
<1>4. CASE r + 1 < d
  <2>1. r + 1 \in 0 .. d - 1 /\ d * q + (r + 1) = d * p + s
    BY <1>3, <1>4
  <2>2. s = r + 1
    BY <1>3, <2>1, Remainder
  <2> QED
    BY <1>1, <2>2 DEF r, s
<1>5. CASE r + 1 = d
  <2>1. d * (q + 1) + 0 = d * p + s /\ q + 1 \in Int /\ 0 \in 0 .. d - 1
    BY <1>3, <1>5
  <2>2. s = 0
    BY <1>3, <2>1, Remainder
  <2> QED
    BY <1>1, <2>2 DEF s
<1> QED
  BY <1>3, <1>4, <1>5

------------------------------------------------------------------------------
(* The steps, and the parts of the invariant. *)

\* A goroutine of the router begins with an update.
Updated(c, p) == RecordResult(c, p) \/ OnHalfOpen(c, p)

\* A process that has lost its memory.
Started == StartLoaded \/ StartFresh \/ StartDetached

LEMMA StepKinds ==
  ASSUME [Next]_vars
  PROVE  \/ UNCHANGED vars
         \/ \E c \in Calls, p \in Providers : Updated(c, p)
         \/ \E c \in Calls : Count(c)
         \/ \E c \in Calls : PersistStats(c)
         \/ \E c \in Calls : SkipPersist(c)
         \/ \E s \in saves : Save(s)
         \/ \E s \in saves : SaveFails(s)
         \/ \E p \in Providers : KeyExpires(p)
         \/ Started
  BY DEF Next, Updated, Started

\* What an update does, whatever its kind.
LEMMA UpdateFacts ==
  ASSUME TypeOK, NEW c \in Calls, NEW p \in Providers, Updated(c, p)
  PROVE  \E kind \in {"result", "reset"}, goto \in {"count", "persist"} :
            /\ Update(c, p, kind, goto)
            /\ kind = "reset" => goto = "persist"
            /\ issued' \in 1 .. MaxUpdates
            /\ [kind |-> kind, id |-> issued + 1] \in Updates
            /\ stats'[p] = Append(stats[p], [kind |-> kind, id |-> issued + 1])
            /\ \A q \in Providers \ {p} : stats'[q] = stats[q]
<1>1. issued < MaxUpdates /\ issued' = issued + 1
  BY DEF Updated, RecordResult, OnHalfOpen, Update
<1>2. issued' \in 1 .. MaxUpdates /\ issued + 1 \in 1 .. MaxUpdates
  BY <1>1, RouterConstants DEF TypeOK
<1>3. CASE Update(c, p, "result", "count")
  <2>1. /\ stats'[p] = Append(stats[p], [kind |-> "result", id |-> issued + 1])
        /\ \A q \in Providers \ {p} : stats'[q] = stats[q]
    BY <1>3 DEF Update, TypeOK
  <2> QED
    BY <1>2, <1>3, <2>1 DEF Updates
<1>4. CASE Update(c, p, "reset", "persist")
  <2>1. /\ stats'[p] = Append(stats[p], [kind |-> "reset", id |-> issued + 1])
        /\ \A q \in Providers \ {p} : stats'[q] = stats[q]
    BY <1>4 DEF Update, TypeOK
  <2> QED
    BY <1>2, <1>4, <2>1 DEF Updates
<1> QED
  BY <1>3, <1>4 DEF Updated, RecordResult, OnHalfOpen

\* What a start-up puts into the router.
LEMMA StartFacts ==
  ASSUME TypeOK, Started
  PROVE  \E initial \in [Providers -> Seq(Updates)], ready \in BOOLEAN :
            /\ Restart(initial, ready)
            /\ ready => initial = store
            /\ attached' \in BOOLEAN
            /\ \/ initial = store
               \/ startup' = "fresh" /\ initial = [p \in Providers |-> <<>>]
            /\ startup' \in {"loaded", "fresh"}
<1> DEFINE empty == [p \in Providers |-> <<>>]
<1>0. empty \in [Providers -> Seq(Updates)] /\ store \in [Providers -> Seq(Updates)]
  BY DEF TypeOK
<1>1. CASE StartLoaded
  BY <1>0, <1>1 DEF StartLoaded, LoadFromStore
<1>2. CASE StartFresh
  BY <1>0, <1>2 DEF StartFresh, Prior
<1>3. CASE StartDetached
  BY <1>0, <1>3 DEF StartDetached, Prior
<1> QED
  BY <1>1, <1>2, <1>3 DEF Started

LEMMA InitRouterInv == Init => RouterInv /\ StoreIsAPastState
<1> SUFFICES ASSUME Init PROVE RouterInv /\ StoreIsAPastState
  OBVIOUS
<1> USE RouterConstants DEF Init, Prior
<1>1. TypeOK
  BY DEF TypeOK
<1>2. CallInv /\ SnapshotInv
  BY DEF CallInv, SnapshotInv
<1>3. PendingInv
  <2> SUFFICES ASSUME NEW p \in Providers
               PROVE  /\ Len(stats[p]) - newest[p] <= (txCounts[p] % PersistEvery) + Cardinality(At(p, "count"))
                      /\ \A i \in newest[p] + 1 .. Len(stats[p]) : stats[p][i].kind = "result"
    BY DEF PendingInv
  <2>1. At(p, "count") = {}
    BY DEF At
  <2>2. Cardinality(At(p, "count")) = 0
    BY <2>1, FS_EmptySet
  <2>3. 0 % PersistEvery \in Nat
    BY NextRemainder
  <2> QED
    BY <2>2, <2>3
<1>4. ArrivalInv
  BY DEF ArrivalInv, Current
<1>5. IssuedInv /\ StoreIsAPastState
  <2>1. <<>> \in Seq(Updates)
    OBVIOUS
  <2>2. IsPrefix(<<>>, <<>>)
    BY <2>1, PrefixRefl
  <2>3. Range(<<>>) = {}
    BY DEF Range
  <2> QED
    BY <2>2, <2>3 DEF IssuedInv, StoreIsAPastState
<1> QED
  BY <1>1, <1>2, <1>3, <1>4, <1>5 DEF RouterInv

LEMMA TypeStep == RouterInv /\ [Next]_vars => TypeOK' /\ CallInv'
<1> SUFFICES ASSUME RouterInv, [Next]_vars PROVE TypeOK' /\ CallInv'
  OBVIOUS
<1>0. TypeOK /\ CallInv
  BY DEF RouterInv
<1> USE RouterConstants
<1>1. CASE UNCHANGED vars
  BY <1>0, <1>1 DEF TypeOK, CallInv, vars, memory, calls
<1>2. ASSUME NEW c \in Calls, NEW p \in Providers, Updated(c, p) PROVE TypeOK' /\ CallInv'
  <2>1. PICK kind \in {"result", "reset"}, goto \in {"count", "persist"} :
            /\ Update(c, p, kind, goto)
            /\ issued' \in 1 .. MaxUpdates
            /\ [kind |-> kind, id |-> issued + 1] \in Updates
    BY <1>0, <1>2, UpdateFacts
  <2>2. stats' \in [Providers -> Seq(Updates)]
    BY <1>0, <2>1 DEF Update, TypeOK
  <2>3. TypeOK'
    BY <1>0, <2>1, <2>2 DEF Update, TypeOK
  <2>4. CallInv'
    BY <1>0, <2>1 DEF Update, TypeOK, CallInv
  <2> QED
    BY <2>3, <2>4
<1>3. ASSUME NEW c \in Calls, Count(c) PROVE TypeOK' /\ CallInv'
  <2>1. provider[c] \in Providers /\ update[c] \in 1 .. issued
    BY <1>0, <1>3 DEF Count, CallInv
  <2>2. txCounts' \in [Providers -> Nat]
    BY <1>0, <1>3, <2>1 DEF Count, TypeOK
  <2>3. CASE Due(txCounts[provider[c]] + 1)
    BY <1>0, <1>3, <2>1, <2>2, <2>3 DEF Count, TypeOK, CallInv
  <2>4. CASE ~Due(txCounts[provider[c]] + 1)
    <3>1. TypeOK'
      <4>1. /\ pc' \in [Calls -> {"idle", "count", "persist"}]
            /\ provider' \in [Calls -> Providers \cup {None}]
            /\ update' \in [Calls -> 0 .. MaxUpdates]
        <5>1. Return(c)
          BY <1>3, <2>4 DEF Count
        <5> QED
          BY <1>0, <5>1 DEF Return, TypeOK
      <4> QED
        BY <1>0, <1>3, <2>2, <4>1 DEF Count, TypeOK
    <3>2. CallInv'
      BY <1>0, <1>3, <2>4 DEF Count, Return, TypeOK, CallInv
    <3> QED
      BY <3>1, <3>2
  <2> QED
    BY <2>3, <2>4
<1>4. ASSUME NEW c \in Calls, PersistStats(c) PROVE TypeOK' /\ CallInv'
  <2>1. provider[c] \in Providers /\ update[c] \in 1 .. MaxUpdates
    BY <1>0, <1>4 DEF PersistStats, TypeOK, CallInv
  <2>2. [provider |-> provider[c], snapshot |-> stats[provider[c]], cause |-> update[c]] \in Saves
    BY <1>0, <2>1 DEF TypeOK, Saves
  <2>3. Len(stats[provider[c]]) \in Nat
    BY <1>0, <2>1 DEF TypeOK
  <2>4. TypeOK'
    BY <1>0, <1>4, <2>1, <2>2, <2>3 DEF PersistStats, Return, TypeOK, memory
  <2>5. CallInv'
    BY <1>0, <1>4 DEF PersistStats, Return, TypeOK, CallInv, memory
  <2> QED
    BY <2>4, <2>5
<1>5. ASSUME NEW c \in Calls, SkipPersist(c) PROVE TypeOK' /\ CallInv'
  BY <1>0, <1>5 DEF SkipPersist, Return, TypeOK, CallInv, memory
<1>6. ASSUME NEW s \in saves, Save(s) PROVE TypeOK' /\ CallInv'
  BY <1>0, <1>6 DEF Save, TypeOK, CallInv, Saves, memory, calls, IsNewest, Current
<1>7. ASSUME NEW s \in saves, SaveFails(s) PROVE TypeOK' /\ CallInv'
  BY <1>0, <1>7 DEF SaveFails, Fault, TypeOK, CallInv, Saves, memory, calls, IsNewest
<1>8. ASSUME NEW p \in Providers, KeyExpires(p) PROVE TypeOK' /\ CallInv'
  BY <1>0, <1>8 DEF KeyExpires, Fault, TypeOK, CallInv, memory, calls
<1>9. CASE Started
  <2>1. PICK initial \in [Providers -> Seq(Updates)], ready \in BOOLEAN :
            /\ Restart(initial, ready)
            /\ attached' \in BOOLEAN
            /\ startup' \in {"loaded", "fresh"}
    BY <1>0, <1>9, StartFacts
  <2>2. [p \in Providers |-> Len(initial[p])] \in [Providers -> Nat]
    BY <2>1
  <2> QED
    BY <1>0, <2>1, <2>2 DEF Restart, Fault, TypeOK, CallInv
<1> QED
  BY <1>1, <1>2, <1>3, <1>4, <1>5, <1>6, <1>7, <1>8, <1>9, StepKinds

LEMMA PrefixRange ==
  ASSUME NEW S, NEW s \in Seq(S), NEW t \in Seq(S), IsPrefix(s, t)
  PROVE  Range(s) \subseteq Range(t)
<1>1. Len(s) <= Len(t) /\ \A i \in 1 .. Len(s) : s[i] = t[i]
  BY PrefixIff
<1>2. DOMAIN s = 1 .. Len(s) /\ DOMAIN t = 1 .. Len(t) /\ Len(s) \in Nat /\ Len(t) \in Nat
  OBVIOUS
<1>3. \A i \in DOMAIN s : i \in DOMAIN t /\ s[i] = t[i]
  BY <1>1, <1>2
<1> QED
  BY <1>3 DEF Range

LEMMA SnapshotStep == RouterInv /\ [Next]_vars => SnapshotInv'
<1> SUFFICES ASSUME RouterInv, [Next]_vars PROVE SnapshotInv'
  OBVIOUS
<1>0. TypeOK /\ CallInv /\ SnapshotInv
  BY DEF RouterInv
<1>typed. \A s \in saves : s.provider \in Providers /\ s.snapshot \in Seq(Updates)
  BY <1>0 DEF TypeOK, Saves
<1>1. CASE UNCHANGED vars
  BY <1>0, <1>1 DEF SnapshotInv, vars, memory
<1>2. ASSUME NEW c \in Calls, NEW p \in Providers, Updated(c, p) PROVE SnapshotInv'
  <2>1. PICK kind \in {"result", "reset"}, goto \in {"count", "persist"} :
            /\ Update(c, p, kind, goto)
            /\ [kind |-> kind, id |-> issued + 1] \in Updates
            /\ stats'[p] = Append(stats[p], [kind |-> kind, id |-> issued + 1])
            /\ \A q \in Providers \ {p} : stats'[q] = stats[q]
    BY <1>0, <1>2, UpdateFacts
  <2>2. saves' = saves /\ newest' = newest /\ attached' = attached
    BY <2>1 DEF Update
  <2>3. stats[p] \in Seq(Updates) /\ newest[p] \in Nat /\ newest[p] <= Len(stats[p])
    BY <1>0 DEF TypeOK, SnapshotInv
  <2>4. /\ Len(stats'[p]) = Len(stats[p]) + 1
        /\ \A s \in Seq(Updates) : IsPrefix(s, stats[p]) => IsPrefix(s, stats'[p])
    BY <2>1, <2>3, AppendFacts
  <2>5. \A q \in Providers : newest[q] <= Len(stats'[q])
    BY <1>0, <2>1, <2>3, <2>4 DEF SnapshotInv
  <2>6. \A s \in saves : IsPrefix(s.snapshot, stats'[s.provider])
    BY <1>0, <1>typed, <2>1, <2>4 DEF SnapshotInv
  <2> QED
    BY <1>0, <2>2, <2>5, <2>6 DEF SnapshotInv
<1>3. ASSUME NEW c \in Calls, Count(c) PROVE SnapshotInv'
  BY <1>0, <1>3 DEF Count, SnapshotInv
<1>4. ASSUME NEW c \in Calls, PersistStats(c) PROVE SnapshotInv'
  <2> DEFINE p == provider[c]
             new == [provider |-> p, snapshot |-> stats[p], cause |-> update[c]]
  <2>1. p \in Providers
    BY <1>0, <1>4 DEF PersistStats, CallInv
  <2>2. /\ saves' = saves \cup {new} /\ stats' = stats /\ attached /\ attached' = attached
        /\ newest' = [newest EXCEPT ![p] = Len(stats[p])]
    BY <1>4 DEF PersistStats, memory
  <2>3. stats[p] \in Seq(Updates) /\ newest \in [Providers -> Nat]
    BY <1>0, <2>1 DEF TypeOK
  <2>4. newest'[p] = Len(stats[p]) /\ \A q \in Providers \ {p} : newest'[q] = newest[q]
    BY <2>1, <2>2, <2>3
  <2>5. \A q \in Providers : newest'[q] <= Len(stats'[q])
    BY <1>0, <2>2, <2>3, <2>4 DEF SnapshotInv
  <2>6. ASSUME NEW s \in saves'
        PROVE  IsPrefix(s.snapshot, stats[s.provider]) /\ Len(s.snapshot) <= newest'[s.provider]
    <3>1. CASE s = new
      BY <2>3, <2>4, <3>1, PrefixRefl
    <3>2. CASE s \in saves
      <4>1. IsPrefix(s.snapshot, stats[s.provider]) /\ Len(s.snapshot) <= newest[s.provider]
        BY <1>0, <3>2 DEF SnapshotInv
      <4>2. CASE s.provider = p
        BY <2>4, <4>1, <4>2 DEF IsPrefix
      <4>3. CASE s.provider # p
        BY <1>typed, <2>4, <3>2, <4>1, <4>3
      <4> QED
        BY <4>2, <4>3
    <3> QED
      BY <2>2, <3>1, <3>2
  <2> HIDE DEF p, new
  <2> QED
    BY <2>2, <2>5, <2>6 DEF SnapshotInv
<1>5. ASSUME NEW c \in Calls, SkipPersist(c) PROVE SnapshotInv'
  BY <1>0, <1>5 DEF SkipPersist, SnapshotInv, memory
<1>6. ASSUME NEW s \in saves, Save(s) PROVE SnapshotInv'
  BY <1>0, <1>6 DEF Save, SnapshotInv, memory
<1>7. ASSUME NEW s \in saves, SaveFails(s) PROVE SnapshotInv'
  BY <1>0, <1>7 DEF SaveFails, SnapshotInv, memory
<1>8. ASSUME NEW p \in Providers, KeyExpires(p) PROVE SnapshotInv'
  BY <1>0, <1>8 DEF KeyExpires, SnapshotInv, memory
<1>9. CASE Started
  <2>1. PICK initial \in [Providers -> Seq(Updates)], ready \in BOOLEAN : Restart(initial, ready)
    BY <1>0, <1>9, StartFacts
  <2>2. /\ stats' = initial /\ saves' = {}
        /\ \A p \in Providers : newest'[p] = Len(initial[p]) /\ Len(initial[p]) \in Nat
    BY <2>1 DEF Restart
  <2> QED
    BY <2>2 DEF SnapshotInv
<1> QED
  BY <1>1, <1>2, <1>3, <1>4, <1>5, <1>6, <1>7, <1>8, <1>9, StepKinds

LEMMA IssuedStep == RouterInv /\ [Next]_vars => IssuedInv'
<1> SUFFICES ASSUME RouterInv, [Next]_vars PROVE IssuedInv'
  OBVIOUS
<1>0. TypeOK /\ SnapshotInv /\ IssuedInv
  BY DEF RouterInv
<1>1. ASSUME stats' = stats, store' = store, issued' = issued PROVE IssuedInv'
  BY <1>0, <1>1 DEF IssuedInv
<1>2. ASSUME NEW c \in Calls, NEW p \in Providers, Updated(c, p) PROVE IssuedInv'
  <2>1. PICK kind \in {"result", "reset"}, goto \in {"count", "persist"} :
            /\ Update(c, p, kind, goto)
            /\ [kind |-> kind, id |-> issued + 1] \in Updates
            /\ stats'[p] = Append(stats[p], [kind |-> kind, id |-> issued + 1])
            /\ \A q \in Providers \ {p} : stats'[q] = stats[q]
    BY <1>0, <1>2, UpdateFacts
  <2>2. store' = store /\ issued' = issued + 1 /\ issued \in Nat
    BY <1>0, <2>1, RouterConstants DEF Update, TypeOK
  <2>3. Range(stats'[p]) = Range(stats[p]) \cup {[kind |-> kind, id |-> issued + 1]}
    BY <1>0, <2>1, AppendFacts DEF TypeOK
  <2>4. ASSUME NEW q \in Providers, NEW u \in Range(store[q]) \cup Range(stats[q])
        PROVE  u.id <= issued + 1
    <3>1. u.id <= issued
      BY <1>0 DEF IssuedInv
    <3>2. u \in Updates
      <4>1. store[q] \in Seq(Updates) /\ stats[q] \in Seq(Updates)
        BY <1>0 DEF TypeOK
      <4>2. Range(store[q]) \subseteq Updates /\ Range(stats[q]) \subseteq Updates
        BY <4>1 DEF Range
      <4> QED
        BY <4>2
    <3> QED
      BY <2>2, <3>1, <3>2, RouterConstants DEF Updates
  <2>5. \A q \in Providers : \A u \in Range(store[q]) \cup Range(stats'[q]) : u.id <= issued + 1
    <3>1. ASSUME NEW q \in Providers, NEW u \in Range(stats'[q]) PROVE u.id <= issued + 1
      <4>1. CASE q = p /\ u = [kind |-> kind, id |-> issued + 1]
        BY <2>2, <4>1
      <4>2. CASE u \in Range(stats[q])
        BY <2>4, <4>2
      <4> QED
        BY <2>1, <2>3, <3>1, <4>1, <4>2
    <3> QED
      BY <2>4, <3>1
  <2> QED
    BY <2>2, <2>5 DEF IssuedInv
<1>3. ASSUME NEW s \in saves, Save(s) PROVE IssuedInv'
  <2>1. /\ s.provider \in Providers /\ s.snapshot \in Seq(Updates)
        /\ stats[s.provider] \in Seq(Updates)
    BY <1>0 DEF TypeOK, Saves
  <2>2. Range(s.snapshot) \subseteq Range(stats[s.provider])
    BY <1>0, <2>1, PrefixRange DEF SnapshotInv
  <2>3. /\ stats' = stats /\ issued' = issued
        /\ store'[s.provider] = s.snapshot
        /\ \A q \in Providers \ {s.provider} : store'[q] = store[q]
    BY <1>0, <1>3, <2>1 DEF Save, memory, TypeOK
  <2> QED
    BY <1>0, <2>2, <2>3 DEF IssuedInv
<1>4. ASSUME NEW p \in Providers, KeyExpires(p) PROVE IssuedInv'
  <2>1. /\ stats' = stats /\ issued' = issued /\ store'[p] = <<>>
        /\ \A q \in Providers \ {p} : store'[q] = store[q]
    BY <1>0, <1>4 DEF KeyExpires, memory, TypeOK
  <2>2. Range(<<>>) = {}
    BY DEF Range
  <2> QED
    BY <1>0, <2>1, <2>2 DEF IssuedInv
<1>5. CASE Started
  <2>1. PICK initial \in [Providers -> Seq(Updates)], ready \in BOOLEAN :
            /\ Restart(initial, ready)
            /\ initial = store \/ initial = [p \in Providers |-> <<>>]
    BY <1>0, <1>5, StartFacts
  <2>2. stats' = initial /\ store' = store /\ issued' = issued
    BY <2>1 DEF Restart
  <2>3. Range(<<>>) = {}
    BY DEF Range
  <2> QED
    BY <1>0, <2>1, <2>2, <2>3 DEF IssuedInv
<1>6. CASE UNCHANGED vars
  BY <1>1, <1>6 DEF vars, memory
<1>7. ASSUME NEW c \in Calls, Count(c) \/ PersistStats(c) \/ SkipPersist(c) PROVE IssuedInv'
  BY <1>1, <1>7 DEF Count, PersistStats, SkipPersist, memory
<1>8. ASSUME NEW s \in saves, SaveFails(s) PROVE IssuedInv'
  BY <1>1, <1>8 DEF SaveFails, memory
<1> QED
  BY <1>2, <1>3, <1>4, <1>5, <1>6, <1>7, <1>8, StepKinds

LEMMA AtFinite ==
  ASSUME NEW p \in Providers, NEW stage
  PROVE  IsFiniteSet(At(p, stage)) /\ Cardinality(At(p, stage)) \in Nat
<1>1. At(p, stage) \subseteq Calls
  BY DEF At
<1> QED
  BY <1>1, RouterConstants, FS_Subset, FS_CardinalityType

\* PendingInv of one provider.
Pending(p) ==
    attached /\ At(p, "persist") = {} =>
        /\ Len(stats[p]) - newest[p] <= (txCounts[p] % PersistEvery) + Cardinality(At(p, "count"))
        /\ \A i \in newest[p] + 1 .. Len(stats[p]) : stats[p][i].kind = "result"

\* The update of a new call: it will count itself, or is about to take a snapshot.
LEMMA PendingUpdate ==
  ASSUME TypeOK, CallInv, SnapshotInv, PendingInv,
         NEW c \in Calls, NEW p \in Providers, Updated(c, p), NEW q \in Providers
  PROVE  Pending(q)'
<1>1. PICK kind \in {"result", "reset"}, goto \in {"count", "persist"} :
          /\ Update(c, p, kind, goto)
          /\ kind = "reset" => goto = "persist"
          /\ [kind |-> kind, id |-> issued + 1] \in Updates
          /\ stats'[p] = Append(stats[p], [kind |-> kind, id |-> issued + 1])
          /\ \A o \in Providers \ {p} : stats'[o] = stats[o]
  BY UpdateFacts
<1>2. /\ pc[c] = "idle" /\ provider[c] = None
      /\ pc' = [pc EXCEPT ![c] = goto] /\ provider' = [provider EXCEPT ![c] = p]
      /\ attached' = attached /\ newest' = newest /\ txCounts' = txCounts
  BY <1>1 DEF Update, CallInv
<1>3. PICK n : n = newest[q]
  OBVIOUS
<1>4. /\ n \in Nat /\ n <= Len(stats[q]) /\ stats[q] \in Seq(Updates)
      /\ txCounts[q] % PersistEvery \in Nat
  BY <1>3, NextRemainder, RouterConstants DEF TypeOK, SnapshotInv
<1>5. CASE q # p
  <2>1. At(q, "persist")' = At(q, "persist") /\ At(q, "count")' = At(q, "count")
    BY <1>2, <1>5, RouterConstants DEF At, TypeOK
  <2> QED
    BY <1>1, <1>2, <1>5, <2>1 DEF Pending, PendingInv
<1>6. CASE q = p /\ goto = "persist"
  <2>1. c \in At(q, "persist")'
    BY <1>2, <1>6 DEF At, TypeOK
  <2> QED
    BY <2>1 DEF Pending
<1>7. CASE q = p /\ goto = "count"
  <2>1. /\ At(q, "persist")' = At(q, "persist")
        /\ At(q, "count")' = At(q, "count") \cup {c} /\ c \notin At(q, "count")
    BY <1>2, <1>7, RouterConstants DEF At, TypeOK
  <2>2. Cardinality(At(q, "count")') = Cardinality(At(q, "count")) + 1
    BY <2>1, AtFinite, FS_AddElement
  <2>3. kind = "result"
    BY <1>1, <1>7
  <2>4. /\ Len(stats'[q]) = Len(stats[q]) + 1
        /\ \A i \in 1 .. Len(stats[q]) : stats'[q][i] = stats[q][i]
        /\ stats'[q][Len(stats[q]) + 1].kind = "result"
    BY <1>1, <1>4, <1>7, <2>3
  <2> SUFFICES ASSUME attached, At(q, "persist") = {}
               PROVE  /\ Len(stats'[q]) - n <= (txCounts[q] % PersistEvery) + Cardinality(At(q, "count")')
                      /\ \A i \in n + 1 .. Len(stats'[q]) : stats'[q][i].kind = "result"
    BY <1>2, <1>3, <2>1 DEF Pending
  <2>5. /\ Len(stats[q]) - n <= (txCounts[q] % PersistEvery) + Cardinality(At(q, "count"))
        /\ \A i \in n + 1 .. Len(stats[q]) : stats[q][i].kind = "result"
    BY <1>3 DEF PendingInv
  <2>6. Len(stats'[q]) - n <= (txCounts[q] % PersistEvery) + Cardinality(At(q, "count")')
    <3>1. Len(stats[q]) \in Nat /\ Cardinality(At(q, "count")) \in Nat
      BY <1>4, AtFinite
    <3> QED
      BY <1>4, <2>2, <2>4, <2>5, <3>1
  <2>7. ASSUME NEW i \in n + 1 .. Len(stats'[q]) PROVE stats'[q][i].kind = "result"
    <3>1. i \in 1 .. Len(stats[q]) \/ i = Len(stats[q]) + 1
      BY <1>4, <2>4
    <3>2. CASE i = Len(stats[q]) + 1
      BY <2>4, <3>2
    <3>3. CASE i \in 1 .. Len(stats[q])
      <4>1. i \in n + 1 .. Len(stats[q])
        BY <1>4, <2>7, <3>3
      <4> QED
        BY <2>4, <2>5, <3>3, <4>1
    <3> QED
      BY <3>1, <3>2, <3>3
  <2> QED
    BY <2>6, <2>7
<1> QED
  BY <1>5, <1>6, <1>7

\* A call that counts itself leaves the others one less to come, or will take
\* a snapshot.
LEMMA PendingCount ==
  ASSUME TypeOK, CallInv, SnapshotInv, PendingInv,
         NEW c \in Calls, Count(c), NEW q \in Providers
  PROVE  Pending(q)'
<1> DEFINE p == provider[c]
           n == txCounts[p]
<1>1. /\ pc[c] = "count" /\ p \in Providers /\ n \in Nat
      /\ txCounts' = [txCounts EXCEPT ![p] = n + 1]
      /\ attached' = attached /\ newest' = newest /\ stats' = stats
  BY DEF Count, CallInv, TypeOK
<1>2. CASE Due(n + 1)
  <2>1. pc' = [pc EXCEPT ![c] = "persist"] /\ provider' = provider
    BY <1>2 DEF Count
  <2>2. CASE q = p
    <3>1. c \in At(q, "persist")'
      BY <1>1, <2>1, <2>2 DEF At, TypeOK
    <3> QED
      BY <3>1 DEF Pending
  <2>3. CASE q # p
    <3>1. At(q, "persist")' = At(q, "persist") /\ At(q, "count")' = At(q, "count")
      BY <1>1, <2>1, <2>3 DEF At, TypeOK
    <3>2. txCounts'[q] = txCounts[q]
      BY <1>1, <2>3 DEF TypeOK
    <3> QED
      BY <1>1, <3>1, <3>2 DEF Pending, PendingInv
  <2> QED
    BY <2>2, <2>3
<1>3. CASE ~Due(n + 1)
  <2>1. pc' = [pc EXCEPT ![c] = "idle"] /\ provider' = [provider EXCEPT ![c] = None]
    BY <1>3 DEF Count, Return
  <2>2. CASE q = p
    <3>1. /\ At(q, "persist")' = At(q, "persist")
          /\ At(q, "count")' = At(q, "count") \ {c} /\ c \in At(q, "count")
      BY <1>1, <2>1, <2>2, RouterConstants DEF At, TypeOK
    <3>2. Cardinality(At(q, "count")') = Cardinality(At(q, "count")) - 1
      BY <3>1, AtFinite, FS_RemoveElement
    <3>3. (n + 1) % PersistEvery = (n % PersistEvery) + 1
      BY <1>1, <1>3, NextRemainder, RouterConstants DEF Due
    <3>4. txCounts[q] = n /\ txCounts'[q] = n + 1
      BY <1>1, <2>2 DEF TypeOK
    <3>5. n % PersistEvery \in Nat /\ Cardinality(At(q, "count")) \in Nat
      BY <1>1, AtFinite, NextRemainder, RouterConstants
    <3>6. (txCounts'[q] % PersistEvery) + Cardinality(At(q, "count")')
            = (txCounts[q] % PersistEvery) + Cardinality(At(q, "count"))
      BY <3>2, <3>3, <3>4, <3>5
    <3> QED
      BY <1>1, <3>1, <3>6 DEF Pending, PendingInv
  <2>3. CASE q # p
    <3>1. At(q, "persist")' = At(q, "persist") /\ At(q, "count")' = At(q, "count")
      BY <1>1, <2>1, <2>3, RouterConstants DEF At, TypeOK
    <3>2. txCounts'[q] = txCounts[q]
      BY <1>1, <2>3 DEF TypeOK
    <3> QED
      BY <1>1, <3>1, <3>2 DEF Pending, PendingInv
  <2> QED
    BY <2>2, <2>3
<1> QED
  BY <1>2, <1>3

\* After a snapshot nothing is pending.
LEMMA NothingPending ==
  ASSUME TypeOK', NEW q \in Providers, newest'[q] = Len(stats'[q])
  PROVE  Pending(q)'
<1>1. Len(stats'[q]) \in Nat /\ txCounts'[q] \in Nat
  BY DEF TypeOK
<1>2. txCounts'[q] % PersistEvery \in Nat
  BY <1>1, NextRemainder, RouterConstants
<1>3. Cardinality(At(q, "count")') \in Nat
  <2>1. At(q, "count")' \subseteq Calls
    BY DEF At
  <2> QED
    BY <2>1, RouterConstants, FS_Subset, FS_CardinalityType
<1> QED
  BY <1>1, <1>2, <1>3 DEF Pending

LEMMA PendingStep == RouterInv /\ [Next]_vars => PendingInv'
<1> SUFFICES ASSUME RouterInv, [Next]_vars, NEW q \in Providers PROVE Pending(q)'
  BY DEF PendingInv, Pending
<1>0. TypeOK /\ CallInv /\ SnapshotInv /\ PendingInv /\ TypeOK'
  BY TypeStep DEF RouterInv
<1>1. ASSUME UNCHANGED <<stats, newest, txCounts, attached, pc, provider>> PROVE Pending(q)'
  <2>1. At(q, "persist")' = At(q, "persist") /\ At(q, "count")' = At(q, "count")
    BY <1>1 DEF At
  <2> QED
    BY <1>0, <1>1, <2>1 DEF Pending, PendingInv
<1>2. CASE UNCHANGED vars
  BY <1>1, <1>2 DEF vars, memory, calls
<1>3. ASSUME NEW c \in Calls, NEW p \in Providers, Updated(c, p) PROVE Pending(q)'
  BY <1>0, <1>3, PendingUpdate
<1>4. ASSUME NEW c \in Calls, Count(c) PROVE Pending(q)'
  BY <1>0, <1>4, PendingCount
<1>5. ASSUME NEW c \in Calls, PersistStats(c) PROVE Pending(q)'
  <2>1. /\ provider[c] \in Providers /\ stats' = stats /\ txCounts' = txCounts
        /\ attached' = attached
        /\ newest' = [newest EXCEPT ![provider[c]] = Len(stats[provider[c]])]
        /\ pc' = [pc EXCEPT ![c] = "idle"] /\ provider' = [provider EXCEPT ![c] = None]
    BY <1>0, <1>5 DEF PersistStats, Return, memory, CallInv
  <2>2. CASE q = provider[c]
    BY <1>0, <2>1, <2>2, NothingPending DEF TypeOK
  <2>3. CASE q # provider[c]
    <3>1. At(q, "persist")' = At(q, "persist") /\ At(q, "count")' = At(q, "count")
      BY <1>0, <2>1, <2>3, RouterConstants DEF At, TypeOK
    <3>2. newest'[q] = newest[q]
      BY <1>0, <2>1, <2>3 DEF TypeOK
    <3> QED
      BY <1>0, <2>1, <3>1, <3>2 DEF Pending, PendingInv
  <2> QED
    BY <2>2, <2>3
<1>6. ASSUME NEW c \in Calls, SkipPersist(c) PROVE Pending(q)'
  BY <1>6 DEF SkipPersist, Pending, memory
<1>7. ASSUME NEW s \in saves, Save(s) PROVE Pending(q)'
  BY <1>1, <1>7 DEF Save, memory, calls
<1>8. ASSUME NEW s \in saves, SaveFails(s) PROVE Pending(q)'
  BY <1>1, <1>8 DEF SaveFails, memory, calls
<1>9. ASSUME NEW p \in Providers, KeyExpires(p) PROVE Pending(q)'
  BY <1>1, <1>9 DEF KeyExpires, memory, calls
<1>10. CASE Started
  <2>1. PICK initial \in [Providers -> Seq(Updates)], ready \in BOOLEAN : Restart(initial, ready)
    BY <1>0, <1>10, StartFacts
  <2>2. stats' = initial /\ newest' = [p \in Providers |-> Len(initial[p])]
    BY <2>1 DEF Restart
  <2>3. newest'[q] = Len(stats'[q])
    BY <2>2
  <2> QED
    BY <1>0, <2>3, NothingPending
<1> QED
  BY <1>2, <1>3, <1>4, <1>5, <1>6, <1>7, <1>8, <1>9, <1>10, StepKinds

\* ArrivalInv of one provider.
Arrives(p) == intact[p] => Current(p) \/ \E s \in saves : s.provider = p /\ IsNewest(s)

LEMMA ArrivalStep == RouterInv /\ [Next]_vars => ArrivalInv'
<1> SUFFICES ASSUME RouterInv, [Next]_vars, NEW q \in Providers PROVE Arrives(q)'
  BY DEF ArrivalInv, Arrives
<1>0. TypeOK /\ CallInv /\ SnapshotInv /\ Arrives(q)
  BY DEF RouterInv, ArrivalInv, Arrives
<1>typed. /\ \A s \in saves : s.provider \in Providers /\ s.snapshot \in Seq(Updates)
      /\ stats[q] \in Seq(Updates) /\ newest[q] \in 0 .. Len(stats[q])
  BY <1>0 DEF TypeOK, Saves, SnapshotInv
<1>1. ASSUME UNCHANGED <<stats, newest, intact, saves, store>> PROVE Arrives(q)'
  BY <1>0, <1>1 DEF Arrives, Current, IsNewest
<1>2. CASE UNCHANGED vars
  BY <1>1, <1>2 DEF vars, memory
<1>3. ASSUME NEW c \in Calls, NEW p \in Providers, Updated(c, p) PROVE Arrives(q)'
  <2>1. PICK kind \in {"result", "reset"}, goto \in {"count", "persist"} :
            /\ Update(c, p, kind, goto)
            /\ [kind |-> kind, id |-> issued + 1] \in Updates
            /\ stats'[p] = Append(stats[p], [kind |-> kind, id |-> issued + 1])
            /\ \A o \in Providers \ {p} : stats'[o] = stats[o]
    BY <1>0, <1>3, UpdateFacts
  <2>2. UNCHANGED <<newest, intact, saves, store>>
    BY <2>1 DEF Update
  <2>3. SubSeq(stats'[q], 1, newest[q]) = SubSeq(stats[q], 1, newest[q])
    <3>1. CASE q = p
      <4> DEFINE e == [kind |-> kind, id |-> issued + 1]
      <4>1. e \in Updates /\ stats'[q] = Append(stats[q], e)
        BY <2>1, <3>1
      <4> HIDE DEF e
      <4>2. \A n \in 0 .. Len(stats[q]) :
                SubSeq(Append(stats[q], e), 1, n) = SubSeq(stats[q], 1, n)
        BY <1>typed, <4>1, AppendFacts
      <4> QED
        BY <1>typed, <4>1, <4>2
    <3>2. CASE q # p
      BY <2>1, <3>2
    <3> QED
      BY <3>1, <3>2
  <2> QED
    BY <1>0, <2>2, <2>3 DEF Arrives, Current, IsNewest
<1>4. ASSUME NEW c \in Calls, Count(c) PROVE Arrives(q)'
  BY <1>1, <1>4 DEF Count
<1>5. ASSUME NEW c \in Calls, PersistStats(c) PROVE Arrives(q)'
  <2> DEFINE p == provider[c]
             new == [provider |-> p, snapshot |-> stats[p], cause |-> update[c]]
  <2>1. /\ p \in Providers /\ stats' = stats /\ store' = store
        /\ saves' = saves \cup {new}
        /\ newest' = [newest EXCEPT ![p] = Len(stats[p])]
        /\ intact' = [intact EXCEPT ![p] = TRUE]
    BY <1>0, <1>5 DEF PersistStats, memory, CallInv
  <2>2. CASE q = p
    <3>1. newest'[p] = Len(stats[p])
      BY <1>0, <2>1 DEF TypeOK
    <3>2. new.provider = p /\ Len(new.snapshot) = newest'[new.provider] /\ new \in saves'
      BY <2>1, <3>1
    <3> HIDE DEF new
    <3> QED
      BY <2>2, <3>2 DEF Arrives, IsNewest
  <2>3. CASE q # p
    <3>1. newest'[q] = newest[q] /\ intact'[q] = intact[q] /\ saves \subseteq saves'
      BY <1>0, <2>1, <2>3 DEF TypeOK
    <3> QED
      BY <1>0, <2>1, <3>1 DEF Arrives, Current, IsNewest
  <2> QED
    BY <2>2, <2>3
<1>6. ASSUME NEW c \in Calls, SkipPersist(c) PROVE Arrives(q)'
  BY <1>1, <1>6 DEF SkipPersist, memory
<1>7. ASSUME NEW s \in saves, Save(s) PROVE Arrives(q)'
  <2>1. /\ stats' = stats /\ newest' = newest /\ saves' = saves \ {s}
        /\ store' = [store EXCEPT ![s.provider] = s.snapshot]
        /\ intact' = [intact EXCEPT ![s.provider] =
                         IsNewest(s) \/ (intact[s.provider] /\ ~Current(s.provider))]
    BY <1>7 DEF Save, memory
  <2>2. CASE q # s.provider
    <3>1. intact'[q] = intact[q] /\ store'[q] = store[q]
      BY <1>0, <2>1, <2>2 DEF TypeOK
    <3>2. \A o \in saves : o.provider = q => o \in saves'
      BY <2>1, <2>2
    <3> QED
      BY <1>0, <2>1, <3>1, <3>2 DEF Arrives, Current, IsNewest
  <2>3. CASE q = s.provider /\ IsNewest(s)
    <3>1. store'[q] = s.snapshot /\ Len(s.snapshot) = newest[q]
      BY <1>0, <1>typed, <2>1, <2>3 DEF TypeOK, IsNewest
    <3>2. s.snapshot = SubSeq(stats[q], 1, newest[q])
      BY <1>0, <1>typed, <2>3, <3>1, PrefixIsCut DEF SnapshotInv
    <3> QED
      BY <2>1, <3>1, <3>2 DEF Arrives, Current
  <2>4. CASE q = s.provider /\ ~IsNewest(s)
    <3>1. intact'[q] <=> intact[q] /\ ~Current(q)
      BY <1>0, <1>typed, <2>1, <2>4 DEF TypeOK
    <3> SUFFICES ASSUME intact[q], ~Current(q)
                 PROVE  \E o \in saves' : o.provider = q /\ Len(o.snapshot) = newest'[o.provider]
      BY <3>1 DEF Arrives, IsNewest
    <3>2. PICK o \in saves : o.provider = q /\ IsNewest(o)
      BY <1>0 DEF Arrives
    <3>3. o # s
      BY <2>4, <3>2
    <3> QED
      BY <2>1, <3>2, <3>3 DEF IsNewest
  <2> QED
    BY <2>2, <2>3, <2>4
<1>8. ASSUME NEW s \in saves, SaveFails(s) PROVE Arrives(q)'
  <2>1. /\ stats' = stats /\ newest' = newest /\ saves' = saves \ {s} /\ store' = store
        /\ intact' = [intact EXCEPT ![s.provider] = intact[s.provider] /\ ~IsNewest(s)]
    BY <1>8 DEF SaveFails, memory
  <2>2. CASE q # s.provider
    <3>1. intact'[q] = intact[q]
      BY <1>0, <2>1, <2>2 DEF TypeOK
    <3>2. \A o \in saves : o.provider = q => o \in saves'
      BY <2>1, <2>2
    <3> QED
      BY <1>0, <2>1, <3>1, <3>2 DEF Arrives, Current, IsNewest
  <2>3. CASE q = s.provider
    <3>1. intact'[q] <=> intact[q] /\ ~IsNewest(s)
      BY <1>0, <1>typed, <2>1, <2>3 DEF TypeOK
    <3>2. \A o \in saves : IsNewest(o) /\ ~IsNewest(s) => o \in saves'
      BY <2>1
    <3> QED
      BY <1>0, <2>1, <3>1, <3>2 DEF Arrives, Current, IsNewest
  <2> QED
    BY <2>2, <2>3
<1>9. ASSUME NEW p \in Providers, KeyExpires(p) PROVE Arrives(q)'
  <2>1. /\ stats' = stats /\ newest' = newest /\ saves' = saves
        /\ store' = [store EXCEPT ![p] = <<>>] /\ intact' = [intact EXCEPT ![p] = FALSE]
    BY <1>9 DEF KeyExpires, memory
  <2>2. CASE q = p
    BY <1>0, <2>1, <2>2 DEF Arrives, TypeOK
  <2>3. CASE q # p
    BY <1>0, <2>1, <2>3 DEF Arrives, Current, IsNewest, TypeOK
  <2> QED
    BY <2>2, <2>3
<1>10. CASE Started
  <2>1. PICK initial \in [Providers -> Seq(Updates)], ready \in BOOLEAN :
            Restart(initial, ready) /\ (ready => initial = store)
    BY <1>0, <1>10, StartFacts
  <2>2. /\ stats' = initial /\ store' = store /\ newest'[q] = Len(initial[q]) /\ intact'[q] = ready
    BY <2>1 DEF Restart
  <2>3. SubSeq(initial[q], 1, Len(initial[q])) = initial[q]
    OBVIOUS
  <2> QED
    BY <2>1, <2>2, <2>3 DEF Arrives, Current
<1> QED
  BY <1>2, <1>3, <1>4, <1>5, <1>6, <1>7, <1>8, <1>9, <1>10, StepKinds

\* RouterInv is an invariant: types, what calls work on, snapshots that are
\* past states, the count of what is unsaved, and the way of the newest snapshot.
\* (router/thompson.go: RecordResult, OnHalfOpen, persistStats; router/store.go)
THEOREM RouterInvariant == Spec => []RouterInv
<1>1. RouterInv /\ [Next]_vars => RouterInv'
  BY TypeStep, SnapshotStep, PendingStep, ArrivalStep, IssuedStep DEF RouterInv
<1>2. Init => RouterInv
  BY InitRouterInv
<1> QED
  BY <1>1, <1>2, PTL DEF Spec

------------------------------------------------------------------------------
(* What a restart finds. *)

\* StoreIsAPastState of one provider.
Past(p) ==
    \/ IsPrefix(store[p], stats[p])
    \/ startup = "fresh" /\ Range(store[p]) \cap Range(stats[p]) = {}

LEMMA PastStep == RouterInv /\ StoreIsAPastState /\ [Next]_vars => StoreIsAPastState'
<1> SUFFICES ASSUME RouterInv, StoreIsAPastState, [Next]_vars, NEW q \in Providers
             PROVE  Past(q)'
  BY DEF StoreIsAPastState, Past
<1>0. TypeOK /\ SnapshotInv /\ IssuedInv /\ Past(q)
  BY DEF RouterInv, StoreIsAPastState, Past
<1>typed. stats[q] \in Seq(Updates) /\ store[q] \in Seq(Updates)
  BY <1>0 DEF TypeOK
<1>1. ASSUME stats'[q] = stats[q], store'[q] = store[q], startup' = startup PROVE Past(q)'
  BY <1>0, <1>1 DEF Past
<1>2. ASSUME NEW c \in Calls, NEW p \in Providers, Updated(c, p) PROVE Past(q)'
  <2>1. PICK kind \in {"result", "reset"}, goto \in {"count", "persist"} :
            /\ Update(c, p, kind, goto)
            /\ [kind |-> kind, id |-> issued + 1] \in Updates
            /\ stats'[p] = Append(stats[p], [kind |-> kind, id |-> issued + 1])
            /\ \A o \in Providers \ {p} : stats'[o] = stats[o]
    BY <1>0, <1>2, UpdateFacts
  <2>2. store' = store /\ startup' = startup
    BY <2>1 DEF Update
  <2>3. CASE q # p
    BY <1>1, <2>1, <2>2, <2>3
  <2>4. CASE q = p
    <3> DEFINE e == [kind |-> kind, id |-> issued + 1]
    <3>0. e \in Updates /\ stats'[q] = Append(stats[q], e)
      BY <2>1, <2>4
    <3>1. /\ IsPrefix(store[q], stats[q]) => IsPrefix(store[q], stats'[q])
          /\ Range(stats'[q]) = Range(stats[q]) \cup {e}
      <4> HIDE DEF e
      <4>1. /\ Range(Append(stats[q], e)) = Range(stats[q]) \cup {e}
            /\ \A s \in Seq(Updates) :
                    IsPrefix(s, stats[q]) => IsPrefix(s, Append(stats[q], e))
        BY <1>typed, <3>0, AppendFacts
      <4> QED
        BY <1>typed, <3>0, <4>1
    <3>2. e \notin Range(store[q])
      <4>1. e.id = issued + 1 /\ issued \in Nat
        BY <1>0, RouterConstants DEF TypeOK
      <4>2. \A u \in Range(store[q]) : u.id <= issued
        BY <1>0 DEF IssuedInv
      <4> HIDE DEF e
      <4> QED
        BY <4>1, <4>2
    <3> HIDE DEF e
    <3> QED
      BY <1>0, <2>2, <3>1, <3>2 DEF Past
  <2> QED
    BY <2>3, <2>4
<1>3. ASSUME NEW s \in saves, Save(s) PROVE Past(q)'
  <2>1. /\ stats' = stats /\ startup' = startup
        /\ store' = [store EXCEPT ![s.provider] = s.snapshot]
    BY <1>3 DEF Save, memory
  <2>2. CASE q = s.provider
    <3>1. store'[q] = s.snapshot
      BY <1>0, <2>1, <2>2 DEF TypeOK
    <3> QED
      BY <1>0, <2>1, <2>2, <3>1 DEF Past, SnapshotInv
  <2>3. CASE q # s.provider
    BY <1>0, <1>1, <2>1, <2>3 DEF TypeOK
  <2> QED
    BY <2>2, <2>3
<1>4. ASSUME NEW p \in Providers, KeyExpires(p) PROVE Past(q)'
  <2>1. /\ stats' = stats /\ startup' = startup /\ store' = [store EXCEPT ![p] = <<>>]
    BY <1>4 DEF KeyExpires, memory
  <2>2. CASE q = p
    <3>1. store'[q] = <<>>
      BY <1>0, <2>1, <2>2 DEF TypeOK
    <3> QED
      BY <1>typed, <2>1, <3>1, PrefixRefl DEF Past
  <2>3. CASE q # p
    BY <1>0, <1>1, <2>1, <2>3 DEF TypeOK
  <2> QED
    BY <2>2, <2>3
<1>5. CASE Started
  <2>1. PICK initial \in [Providers -> Seq(Updates)], ready \in BOOLEAN :
            /\ Restart(initial, ready)
            /\ \/ initial = store
               \/ startup' = "fresh" /\ initial = [p \in Providers |-> <<>>]
    BY <1>0, <1>5, StartFacts
  <2>2. stats' = initial /\ store' = store
    BY <2>1 DEF Restart
  <2>3. CASE initial = store
    BY <1>typed, <2>2, <2>3, PrefixRefl DEF Past
  <2>4. CASE startup' = "fresh" /\ initial = [p \in Providers |-> <<>>]
    <3>1. stats'[q] = <<>> /\ Range(<<>>) = {}
      BY <2>2, <2>4 DEF Range
    <3> QED
      BY <2>4, <3>1 DEF Past
  <2> QED
    BY <2>1, <2>3, <2>4
<1>6. CASE UNCHANGED vars
  BY <1>1, <1>6 DEF vars, memory
<1>7. ASSUME NEW c \in Calls, Count(c) \/ PersistStats(c) \/ SkipPersist(c) PROVE Past(q)'
  BY <1>1, <1>7 DEF Count, PersistStats, SkipPersist, memory
<1>8. ASSUME NEW s \in saves, SaveFails(s) PROVE Past(q)'
  BY <1>1, <1>8 DEF SaveFails, memory
<1> QED
  BY <1>2, <1>3, <1>4, <1>5, <1>6, <1>7, <1>8, StepKinds

\* However saves overtake one another, Redis holds a state the statistics have
\* been in, or, after a start-up that could not load, one of an earlier process.
\* (router/thompson.go: persistStats, LoadFromStore; router/store.go: Save, LoadAll)
THEOREM RestartFindsAPastState == Spec => []StoreIsAPastState
<1>1. Init => StoreIsAPastState
  BY InitRouterInv
<1> QED
  BY <1>1, RouterInvariant, PastStep, PTL DEF Spec

LEMMA LossFollows == RouterInv => LossIsBounded
<1> SUFFICES ASSUME RouterInv, NEW p \in Providers, intact[p], attached, Quiet(p)
             PROVE  /\ Len(stats[p]) - Len(store[p]) < PersistEvery
                    /\ \A i \in Len(store[p]) + 1 .. Len(stats[p]) : stats[p][i].kind = "result"
  BY DEF LossIsBounded
<1>1. store[p] = SubSeq(stats[p], 1, newest[p])
  BY DEF RouterInv, ArrivalInv, Quiet, Current
<1>2. stats[p] \in Seq(Updates) /\ newest[p] \in 0 .. Len(stats[p])
  BY DEF RouterInv, TypeOK, SnapshotInv
<1>3. Len(store[p]) = newest[p]
  BY <1>1, <1>2, CutIsPrefix
<1>4. At(p, "persist") = {} /\ At(p, "count") = {}
  BY DEF Quiet, At
<1>5. /\ Len(stats[p]) - newest[p] <= (txCounts[p] % PersistEvery) + Cardinality(At(p, "count"))
      /\ \A i \in newest[p] + 1 .. Len(stats[p]) : stats[p][i].kind = "result"
  BY <1>4 DEF RouterInv, PendingInv
<1>6. Cardinality(At(p, "count")) = 0
  BY <1>4, FS_EmptySet
<1>7. txCounts[p] % PersistEvery \in 0 .. PersistEvery - 1 /\ PersistEvery \in Nat
  BY NextRemainder, RouterConstants DEF RouterInv, TypeOK
<1>8. Len(stats[p]) - newest[p] < PersistEvery
  BY <1>2, <1>5, <1>6, <1>7
<1> QED
  BY <1>3, <1>5, <1>8

\* Between calls and saves a restart loses fewer than persistEvery results and
\* no reset, unless the newest save failed or was overtaken, the key expired or
\* start-up could not load.
\* (router/thompson.go: RecordResult, OnHalfOpen, persistStats)
THEOREM RestartLosesLittle == Spec => []LossIsBounded
  BY RouterInvariant, LossFollows, PTL
==============================================================================
