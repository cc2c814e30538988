------------------------------- MODULE RateLimit -------------------------------
(***************************************************************************)
(* api-gateway: the middleware chain Auth -> RateLimit -> Proxy.           *)
(*                                                                         *)
(* A request is looked up by its API key, stamped with the gateway's clock *)
(* and counted by one Lua script in the merchant's sliding window (a       *)
(* sorted set in Redis). The stamp is read before the script runs and by a *)
(* clock that may be behind, so scripts run in another order than their    *)
(* stamps. The client of Redis repeats a script whose reply is lost, and   *)
(* a request that cannot be counted is let through.                        *)
(***************************************************************************)
EXTENDS Naturals, FiniteSets, Sequences

CONSTANTS
    Requests,       \* HTTP requests
    ApiKeys,        \* the hashes apikeys:* of Redis, by API key
    NoKey,          \* the empty X-API-Key header
    None,           \* no merchant; a missing field of a hash
    DefaultLimit,   \* DEFAULT_RATE_LIMIT
    Window,         \* window_ms
    TTL,            \* ttl_s, in the unit of Window
    MaxLag,         \* how far a clock is behind, and a reply may be late
    MaxTime,        \* bound on time
    MaxFaults       \* bound on faults

ASSUME RateConstants ==
    /\ IsFiniteSet(Requests)
    /\ NoKey \notin DOMAIN ApiKeys
    /\ DefaultLimit \in Nat \ {0}
    /\ Window \in Nat /\ TTL \in Nat /\ MaxLag \in Nat
    /\ MaxLag < Window /\ Window <= TTL
    /\ MaxTime \in Nat /\ MaxFaults \in Nat

VARIABLES
    now,            \* real time
    \* a request in the gateway
    pc,             \* the next middleware, or "done"
    info,           \* MerchantInfo in its context
    stamp,          \* now and member of checkRateLimit
    answer,         \* the answer to the client
    \* Redis
    window,         \* window[m]: ratelimit:m, its scores and members
    touched,        \* when EXPIRE ran last on it
    \* history
    log,            \* executions of the script
    faults

gateway == <<pc, info, stamp, answer>>
redis == <<window, touched>>
vars == <<now, gateway, redis, log, faults>>

Merchants == {ApiKeys[k].merchant : k \in DOMAIN ApiKeys} \ {None}
Anonymous == [merchant |-> None, limit |-> 0]
Infos == [merchant : Merchants, limit : Nat \ {0}] \cup {Anonymous}
Stamps == [score : Nat, member : Requests]
Answers == {"none", "401", "500", "429", "502", "upstream"}

Init ==
    /\ now = MaxLag
    /\ pc = [r \in Requests |-> "auth"]
    /\ info = [r \in Requests |-> Anonymous]
    /\ stamp = [r \in Requests |-> [score |-> 0, member |-> r]]
    /\ answer = [r \in Requests |-> "none"]
    /\ window = [m \in Merchants |-> {}]
    /\ touched = [m \in Merchants |-> 0]
    /\ log = <<>>
    /\ faults = 0

Fault == faults < MaxFaults /\ faults' = faults + 1

\* writeJSON and return: the rest of the chain is not called.
Answer(r, code) ==
    /\ pc' = [pc EXCEPT ![r] = "done"]
    /\ answer' = [answer EXCEPT ![r] = code]

\* next.ServeHTTP.
Call(r, middleware) ==
    /\ pc' = [pc EXCEPT ![r] = middleware]
    /\ UNCHANGED answer

------------------------------------------------------------------------------
(* Auth. *)

\* Store.Lookup: the hash exists, is active and names a merchant.
Valid(k) ==
    /\ k \in DOMAIN ApiKeys
    /\ ApiKeys[k].active
    /\ ApiKeys[k].merchant # None

\* Store.Lookup: rate_limit if it is a positive number.
LimitOf(k) ==
    LET raw == ApiKeys[k].limit
    IN IF raw \in Nat \ {0} THEN raw ELSE DefaultLimit

\* Auth: 401 without a key that is valid, else the merchant goes into the context.
Auth(r, k) ==
    /\ pc[r] = "auth"
    /\ IF Valid(k)
       THEN /\ info' = [info EXCEPT ![r] = [merchant |-> ApiKeys[k].merchant,
                                            limit |-> LimitOf(k)]]
            /\ Call(r, "ratelimit")
       ELSE Answer(r, "401") /\ UNCHANGED info
    /\ UNCHANGED <<now, stamp, redis, log, faults>>

\* Auth: Redis does not answer HGETALL. Auth fails closed.
AuthFails(r) ==
    /\ pc[r] = "auth"
    /\ Fault
    /\ Answer(r, "500")
    /\ UNCHANGED <<now, info, stamp, redis, log>>

------------------------------------------------------------------------------
(* RateLimit. *)

\* checkRateLimit: the clock is read, at most MaxLag behind.
Stamp(r) ==
    /\ pc[r] = "ratelimit"
    /\ \E t \in (now - MaxLag) .. now :
           stamp' = [stamp EXCEPT ![r] = [score |-> t, member |-> r]]
    /\ Call(r, "script")
    /\ UNCHANGED <<now, info, redis, log, faults>>

\* checkRateLimit: another gateway reads the same nanosecond, so the two
\* requests have one member.
StampCollides(r) ==
    /\ pc[r] = "ratelimit"
    /\ Fault
    /\ \E o \in Requests \ {r}, t \in (now - MaxLag) .. now :
           /\ pc[o] \in {"script", "proxy", "done"}
           /\ info[o].merchant = info[r].merchant
           /\ now - stamp[o].score <= MaxLag
           /\ stamp' = [stamp EXCEPT ![r] = [score |-> t, member |-> stamp[o].member]]
    /\ Call(r, "script")
    /\ UNCHANGED <<now, info, redis, log>>

\* The key as Redis shows it: gone when its time to live has ended.
Live(m) == IF now - touched[m] < TTL THEN window[m] ELSE {}

\* A mistake: nothing leaves the window.
WrongSweep(m, score) == Live(m)
\* ZREMRANGEBYSCORE key 0 now - window_ms.
Sweep(m, score) == {e \in Live(m) : e.score + Window > score}

\* ZADD: a member has one score.
Add(entries, entry) == {e \in entries : e.member # entry.member} \cup {entry}

\* rateLimitScript, atomic in Redis.
Script(r) ==
    LET m == info[r].merchant
    IN /\ window' = [window EXCEPT ![m] = Add(Sweep(m, stamp[r].score), stamp[r])]
       /\ touched' = [touched EXCEPT ![m] = now]

\* A mistake: ZCARD before ZADD.
WrongExceeds(r) == Cardinality(Sweep(info[r].merchant, stamp[r].score)) > info[r].limit
\* RateLimit: count > limit.
Exceeds(r) ==
    Cardinality(Add(Sweep(info[r].merchant, stamp[r].score), stamp[r])) > info[r].limit

Executed(r, verdict) ==
    log' = Append(log, [req |-> r, time |-> now, merchant |-> info[r].merchant,
                        limit |-> info[r].limit, verdict |-> verdict])

\* The script runs and its reply arrives.
RateLimit(r) ==
    /\ pc[r] = "script"
    /\ Script(r)
    /\ IF Exceeds(r)
       THEN Answer(r, "429") /\ Executed(r, "rejected")
       ELSE Call(r, "proxy") /\ Executed(r, "admitted")
    /\ UNCHANGED <<now, info, stamp, faults>>

\* The script runs and its reply is lost: go-redis sends it again.
ReplyLost(r) ==
    /\ pc[r] = "script"
    /\ Fault
    /\ Script(r)
    /\ Executed(r, "unknown")
    /\ UNCHANGED <<now, gateway>>

\* A mistake: an error of Redis is answered 429.
WrongRateLimitFails(r) ==
    /\ pc[r] = "script"
    /\ Fault
    /\ Answer(r, "429")
    /\ UNCHANGED <<now, info, stamp, redis, log>>
\* checkRateLimit returns an error: the request goes on uncounted.
RateLimitFails(r) ==
    /\ pc[r] = "script"
    /\ Fault
    /\ Call(r, "proxy")
    /\ UNCHANGED <<now, info, stamp, redis, log>>

------------------------------------------------------------------------------
(* Proxy, the process and time. *)

\* transaction-service answers, whatever its status: it is passed on.
Proxy(r) ==
    /\ pc[r] = "proxy"
    /\ Answer(r, "upstream")
    /\ UNCHANGED <<now, info, stamp, redis, log, faults>>

\* ErrorHandler: no answer within proxyTimeout, or no connection.
ProxyFails(r) ==
    /\ pc[r] = "proxy"
    /\ Fault
    /\ Answer(r, "502")
    /\ UNCHANGED <<now, info, stamp, redis, log>>

\* A handler panics and Recovery answers 500, or the gateway stops and the
\* client takes it for one.
Aborts(r) ==
    /\ pc[r] # "done"
    /\ Fault
    /\ Answer(r, "500")
    /\ UNCHANGED <<now, info, stamp, redis, log>>

\* A script is executed within MaxLag of its stamp, or go-redis has given up.
Tick ==
    /\ now < MaxTime
    /\ \A r \in Requests : pc[r] = "script" => now - stamp[r].score < MaxLag
    /\ now' = now + 1
    /\ UNCHANGED <<gateway, redis, log, faults>>

\* The chain of one request.
Serve(r) ==
    \/ \E k \in DOMAIN ApiKeys \cup {NoKey} : Auth(r, k)
    \/ AuthFails(r)
    \/ Stamp(r) \/ StampCollides(r)
    \/ RateLimit(r) \/ ReplyLost(r) \/ RateLimitFails(r)
    \/ Proxy(r) \/ ProxyFails(r) \/ Aborts(r)

Next == Tick \/ \E r \in Requests : Serve(r)

Spec == Init /\ [][Next]_vars

------------------------------------------------------------------------------
(* Properties. *)

Entries == [req : Requests, time : Nat, merchant : Merchants, limit : Nat \ {0},
            verdict : {"admitted", "rejected", "unknown"}]

TypeOK ==
    /\ now \in Nat /\ now >= MaxLag
    /\ pc \in [Requests -> {"auth", "ratelimit", "script", "proxy", "done"}]
    /\ info \in [Requests -> Infos]
    /\ stamp \in [Requests -> Stamps]
    /\ answer \in [Requests -> Answers]
    /\ window \in [Merchants -> SUBSET Stamps]
    /\ touched \in [Merchants -> Nat]
    /\ log \in Seq(Entries)
    /\ faults \in 0 .. MaxFaults

\* What the script told r's gateway.
Told(r, verdict) ==
    \E i \in 1 .. Len(log) : log[i].req = r /\ log[i].verdict = verdict

\* Only a script's verdict is answered 429, and its request never reaches the
\* proxy; nobody gets there without a merchant, nor uncounted without a fault.
\* (middleware/auth.go: Auth; middleware/ratelimit.go: RateLimit; cmd/api: chain)
ChainInv ==
    \A r \in Requests :
        /\ answer[r] = "429" <=> Told(r, "rejected")
        /\ (pc[r] = "proxy" \/ answer[r] \in {"upstream", "502"}) =>
               /\ info[r].merchant \in Merchants
               /\ Told(r, "admitted") \/ faults > 0
        /\ answer[r] = "401" => info[r] = Anonymous

\* A request has a merchant once it is known, is stamped once, before its
\* script, and its stamp is at most MaxLag old when the script runs.
RequestInv ==
    \A r \in Requests :
        /\ pc[r] = "done" <=> answer[r] # "none"
        /\ pc[r] = "auth" => info[r] = Anonymous
        /\ pc[r] \in {"ratelimit", "script", "proxy"} => info[r].merchant \in Merchants
        /\ pc[r] \in {"auth", "ratelimit"} => stamp[r].member = r
        /\ stamp[r].score <= now
        /\ pc[r] = "script" => now <= stamp[r].score + MaxLag

\* What was executed came from a stamped request, no later than EXPIRE says.
LogInv ==
    /\ \A m \in Merchants : touched[m] <= now
    /\ \A i \in 1 .. Len(log) :
        /\ pc[log[i].req] \in {"script", "proxy", "done"}
        /\ log[i].time <= touched[log[i].merchant]

\* An entry is the stamp of an executed request.
EntryInv ==
    \A m \in Merchants : \A e \in window[m] :
        \E i \in 1 .. Len(log) : /\ log[i].merchant = m
                                 /\ stamp[log[i].req] = e
                                 /\ e.score <= log[i].time

\* The member of an executed request stays for a window, shortened by the lag:
\* no script sweeps it earlier, and one that shares it only renews it.
KeptInv ==
    \A i \in 1 .. Len(log) :
        log[i].time + Window > touched[log[i].merchant] + MaxLag =>
            \E e \in window[log[i].merchant] :
                /\ e.member = stamp[log[i].req].member
                /\ log[i].time <= e.score + MaxLag

\* The inductive invariant.
RateInv == TypeOK /\ ChainInv /\ RequestInv /\ LogInv /\ EntryInv /\ KeptInv

\* Requests of its merchant executed up to the i-th, in the last span of time.
Recent(i, span) ==
    {log[j].req : j \in {j \in 1 .. i : /\ log[j].merchant = log[i].merchant
                                        /\ log[j].time + span > log[i].time}}

\* Requests that share a member with another.
Hidden == {r \in Requests : stamp[r].member # r}

\* Whatever the order in which scripts run and whatever their stamps, an
\* admitted request is one of at most limit requests of its merchant in the
\* last window, shortened by the lag; a shared member hides a request. The
\* requests counted include those rejected since.
\* (middleware/ratelimit.go: rateLimitScript, RateLimit)
AdmittedWithinLimit ==
    \A i \in 1 .. Len(log) : log[i].verdict = "admitted" =>
        Cardinality(Recent(i, Window - MaxLag)) <= log[i].limit + Cardinality(Hidden)

\* A request is rejected only if more than limit requests of its merchant,
\* itself among them, were executed within a window and the lag: neither a
\* repeated script nor an old entry counts against the merchant.
\* (middleware/ratelimit.go: rateLimitScript, RateLimit)
RejectionIsEarned ==
    \A i \in 1 .. Len(log) : log[i].verdict = "rejected" =>
        Cardinality(Recent(i, Window + MaxLag)) > log[i].limit
==============================================================================
