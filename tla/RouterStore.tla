------------------------------ MODULE RouterStore ------------------------------
(***************************************************************************)
(* provider-service: the statistics of Thompson sampling and the copy of   *)
(* them in Redis.                                                          *)
(*                                                                         *)
(* RecordResult updates the statistics, counts the transaction and, at     *)
(* every persistEvery-th one, takes a snapshot: three critical sections    *)
(* under two mutexes, with other calls in between. OnHalfOpen (in a        *)
(* goroutine of the circuit breaker) resets and takes a snapshot. A        *)
(* snapshot is saved by a goroutine of its own, in any order with other    *)
(* saves. A restart starts from what Redis has.                            *)
(*                                                                         *)
(* The statistics are the sequence of updates that made them: alpha, beta  *)
(* and the latencies are functions of it, and a snapshot is the sequence   *)
(* at the time it was taken.                                               *)
(***************************************************************************)
EXTENDS Naturals, SequencesExt

CONSTANTS
    Providers,      \* rows of the providers table
    Calls,          \* goroutines in RecordResult or OnHalfOpen
    None,           \* no provider
    PersistEvery,   \* persistEvery
    MaxUpdates,     \* bound on updates
    MaxFaults       \* bound on faults

ASSUME RouterConstants ==
    /\ None \notin Providers
    /\ IsFiniteSet(Calls)
    /\ PersistEvery \in Nat \ {0}
    /\ MaxUpdates \in Nat /\ MaxFaults \in Nat

VARIABLES
    \* Router
    stats,          \* stats[p]: updates since the beginning
    txCounts,       \* txCounts[p]
    attached,       \* the router has a store
    startup,        \* "loaded" or, after an error, "fresh"
    \* RecordResult and OnHalfOpen, per goroutine
    pc,             \* "idle", "count", "persist"
    provider,       \* providerName
    update,         \* its own update
    \* goroutines of persistStats, and Redis
    saves,          \* snapshots on their way
    store,          \* store[p]: the snapshot under p's key, <<>> without a key
    \* history
    issued,         \* updates so far
    newest,         \* length of the last snapshot taken of p
    intact,         \* no save went wrong since p's newest snapshot
    faults

memory == <<stats, txCounts, attached, startup>>
calls == <<pc, provider, update>>
vars == <<memory, calls, saves, store, issued, newest, intact, faults>>

Updates == [kind : {"result", "reset"}, id : 1 .. MaxUpdates]
Saves == [provider : Providers, snapshot : Seq(Updates), cause : 1 .. MaxUpdates]

\* newProviderStats: Beta(1,1), for a provider getOrCreate meets first.
Prior == <<>>

Init ==
    /\ stats = [p \in Providers |-> Prior]
    /\ txCounts = [p \in Providers |-> 0]
    /\ attached = TRUE
    /\ startup = "loaded"
    /\ pc = [c \in Calls |-> "idle"]
    /\ provider = [c \in Calls |-> None]
    /\ update = [c \in Calls |-> 0]
    /\ saves = {}
    /\ store = [p \in Providers |-> <<>>]
    /\ issued = 0
    /\ newest = [p \in Providers |-> 0]
    /\ intact = [p \in Providers |-> TRUE]
    /\ faults = 0

Fault == faults < MaxFaults /\ faults' = faults + 1

-------------------------------------------------------------------------------
(* RecordResult, OnHalfOpen. Operators named Wrong... are deliberately      *)
(* wrong variants of the definition that follows them; no specification     *)
(* uses them.                                                               *)

\* recordResult or resetForHalfOpen, under the mutex of the statistics.
Update(c, p, kind, goto) ==
    /\ pc[c] = "idle"
    /\ issued < MaxUpdates
    /\ issued' = issued + 1
    /\ stats' = [stats EXCEPT ![p] = Append(@, [kind |-> kind, id |-> issued + 1])]
    /\ pc' = [pc EXCEPT ![c] = goto]
    /\ provider' = [provider EXCEPT ![c] = p]
    /\ update' = [update EXCEPT ![c] = issued + 1]
    /\ UNCHANGED <<txCounts, attached, startup, saves, store, newest, intact, faults>>

RecordResult(c, p) == Update(c, p, "result", "count")

\* The breaker's callback resets and leaves the saving to the next results.
WrongOnHalfOpen(c, p) == Update(c, p, "reset", "count")

OnHalfOpen(c, p) == Update(c, p, "reset", "persist")

\* The call is over.
Return(c) ==
    /\ pc' = [pc EXCEPT ![c] = "idle"]
    /\ provider' = [provider EXCEPT ![c] = None]
    /\ update' = [update EXCEPT ![c] = 0]

\* Only one save is ever due.
WrongDue(n) == n = PersistEvery

Due(n) == n % PersistEvery = 0

\* txCounts[p]++ under the router's mutex.
Count(c) ==
    /\ pc[c] = "count"
    /\ txCounts' = [txCounts EXCEPT ![provider[c]] = @ + 1]
    /\ IF Due(txCounts[provider[c]] + 1)
       THEN pc' = [pc EXCEPT ![c] = "persist"] /\ UNCHANGED <<provider, update>>
       ELSE Return(c)
    /\ UNCHANGED <<stats, attached, startup, saves, store, issued, newest, intact, faults>>

\* persistStats: a snapshot under the mutex of the statistics, and a goroutine
\* that saves it.
PersistStats(c) ==
    LET p == provider[c] IN
    /\ pc[c] = "persist"
    /\ attached
    /\ saves' = saves \cup {[provider |-> p, snapshot |-> stats[p], cause |-> update[c]]}
    /\ newest' = [newest EXCEPT ![p] = Len(stats[p])]
    /\ intact' = [intact EXCEPT ![p] = TRUE]
    /\ Return(c)
    /\ UNCHANGED <<memory, store, issued, faults>>

\* persistStats without a store.
SkipPersist(c) ==
    /\ pc[c] = "persist"
    /\ ~attached
    /\ Return(c)
    /\ UNCHANGED <<memory, saves, store, issued, newest, intact, faults>>

-------------------------------------------------------------------------------
(* The saving goroutines, and Redis                                         *)

\* Redis has the newest snapshot.
Current(p) == store[p] = SubSeq(stats[p], 1, newest[p])

IsNewest(s) == Len(s.snapshot) = newest[s.provider]

\* SET arrives: an older snapshot replaces a newer one as well.
Save(s) ==
    /\ s \in saves
    /\ saves' = saves \ {s}
    /\ store' = [store EXCEPT ![s.provider] = s.snapshot]
    /\ intact' = [intact EXCEPT ![s.provider] = IsNewest(s) \/ (@ /\ ~Current(s.provider))]
    /\ UNCHANGED <<memory, calls, issued, newest, faults>>

\* SET fails, or times out without an effect.
SaveFails(s) ==
    /\ s \in saves
    /\ Fault
    /\ saves' = saves \ {s}
    /\ intact' = [intact EXCEPT ![s.provider] = @ /\ ~IsNewest(s)]
    /\ UNCHANGED <<memory, calls, store, issued, newest>>

\* Seven days without a save.
KeyExpires(p) ==
    /\ store[p] # <<>>
    /\ \A s \in saves : s.provider # p
    /\ Fault
    /\ store' = [store EXCEPT ![p] = <<>>]
    /\ intact' = [intact EXCEPT ![p] = FALSE]
    /\ UNCHANGED <<memory, calls, saves, issued, newest>>

-------------------------------------------------------------------------------
(* Start-up                                                                 *)

\* The process ends, with its calls and its saves, and a new one starts with
\* the given statistics.
Restart(initial, ready) ==
    /\ Fault
    /\ stats' = initial
    /\ txCounts' = [p \in Providers |-> 0]
    /\ pc' = [c \in Calls |-> "idle"]
    /\ provider' = [c \in Calls |-> None]
    /\ update' = [c \in Calls |-> 0]
    /\ saves' = {}
    /\ newest' = [p \in Providers |-> Len(initial[p])]
    /\ intact' = [p \in Providers |-> ready]
    /\ UNCHANGED <<store, issued>>

\* What was loaded is not put into the router.
WrongLoadFromStore == [p \in Providers |-> Prior]

\* Providers without a key begin with Prior, which is how store says it.
LoadFromStore == store

StartLoaded ==
    /\ Restart(LoadFromStore, TRUE)
    /\ attached' = TRUE
    /\ startup' = "loaded"

\* One key that cannot be read is enough: LoadAll returns an error and every
\* provider begins with Beta(1,1), while Redis keeps what it has.
StartFresh ==
    /\ Restart([p \in Providers |-> Prior], FALSE)
    /\ attached' = TRUE
    /\ startup' = "fresh"

\* Redis does not answer the ping: no store for the life of the process.
StartDetached ==
    /\ Restart([p \in Providers |-> Prior], FALSE)
    /\ attached' = FALSE
    /\ startup' = "fresh"

-------------------------------------------------------------------------------
Next ==
    \/ \E c \in Calls :
        \/ \E p \in Providers : RecordResult(c, p) \/ OnHalfOpen(c, p)
        \/ Count(c) \/ PersistStats(c) \/ SkipPersist(c)
    \/ \E s \in saves : Save(s) \/ SaveFails(s)
    \/ \E p \in Providers : KeyExpires(p)
    \/ StartLoaded \/ StartFresh \/ StartDetached

Spec == Init /\ [][Next]_vars

-------------------------------------------------------------------------------
(* Properties                                                               *)

TypeOK ==
    /\ stats \in [Providers -> Seq(Updates)]
    /\ txCounts \in [Providers -> Nat]
    /\ attached \in BOOLEAN
    /\ startup \in {"loaded", "fresh"}
    /\ pc \in [Calls -> {"idle", "count", "persist"}]
    /\ provider \in [Calls -> Providers \cup {None}]
    /\ update \in [Calls -> 0 .. MaxUpdates]
    /\ saves \subseteq Saves
    /\ store \in [Providers -> Seq(Updates)]
    /\ issued \in 0 .. MaxUpdates
    /\ newest \in [Providers -> Nat]
    /\ intact \in [Providers -> BOOLEAN]
    /\ faults \in 0 .. MaxFaults

\* A call works on a provider for an update of its own.
CallInv ==
    \A c \in Calls :
        IF pc[c] = "idle" THEN provider[c] = None
                          ELSE provider[c] \in Providers /\ update[c] \in 1 .. issued

\* A snapshot on its way is a state the statistics have been in, and none is
\* newer than the newest.
SnapshotInv ==
    /\ \A p \in Providers : newest[p] <= Len(stats[p])
    /\ \A s \in saves : /\ attached
                        /\ IsPrefix(s.snapshot, stats[s.provider])
                        /\ Len(s.snapshot) <= newest[s.provider]

At(p, stage) == {c \in Calls : provider[c] = p /\ pc[c] = stage}

\* Unless somebody is about to take a snapshot, the updates since the last one
\* are results, and fewer than the counter says with the calls that have yet
\* to count.
PendingInv ==
    \A p \in Providers :
        attached /\ At(p, "persist") = {} =>
            /\ Len(stats[p]) - newest[p] <= (txCounts[p] % PersistEvery) + Cardinality(At(p, "count"))
            /\ \A i \in newest[p] + 1 .. Len(stats[p]) : stats[p][i].kind = "result"

\* Redis has the newest snapshot or it is on its way, if nothing went wrong.
ArrivalInv ==
    \A p \in Providers :
        intact[p] => \/ Current(p)
                     \/ \E s \in saves : s.provider = p /\ IsNewest(s)

\* Updates are numbered: what is remembered anywhere has been issued.
IssuedInv ==
    \A p \in Providers : \A u \in Range(store[p]) \cup Range(stats[p]) : u.id <= issued

\* The inductive invariant.
RouterInv == TypeOK /\ CallInv /\ SnapshotInv /\ PendingInv /\ ArrivalInv /\ IssuedInv

\* What a restart will load is a state the statistics have been in, however
\* saves overtake one another: the history up to some update, never one with a
\* gap. Where nothing could be loaded Redis may still have the history of an
\* earlier process, whole, until the first save replaces it.
StoreIsAPastState ==
    \A p \in Providers :
        \/ IsPrefix(store[p], stats[p])
        \/ startup = "fresh" /\ Range(store[p]) \cap Range(stats[p]) = {}

\* Between calls and saves, a restart loses fewer than persistEvery results and
\* no reset of a half-open breaker, unless a save of the newest snapshot failed
\* or was overtaken by an older one, the key expired, or start-up could not
\* load. The next snapshot that arrives puts it right.
Quiet(p) ==
    /\ \A c \in Calls : provider[c] # p
    /\ \A s \in saves : s.provider # p

LossIsBounded ==
    \A p \in Providers :
        intact[p] /\ attached /\ Quiet(p) =>
            /\ Len(stats[p]) - Len(store[p]) < PersistEvery
            /\ \A i \in Len(store[p]) + 1 .. Len(stats[p]) : stats[p][i].kind = "result"
===============================================================================
