--------------------------- MODULE RateLimitProofs ---------------------------
(***************************************************************************)
(* Theorems about RateLimit: the inductive invariant, and the two promises *)
(* of the sliding window, for any number of requests, keys and gateways.   *)
(***************************************************************************)
EXTENDS RateLimit, FiniteSetTheorems, TLAPS

\* A step that runs no script. A request is stamped only once.
Silent ==
    /\ redis' = redis
    /\ log' = log
    /\ now' >= now
    /\ \A r \in Requests :
        pc[r] \in {"script", "proxy", "done"} =>
            /\ stamp'[r] = stamp[r]
            /\ pc'[r] \in {"script", "proxy", "done"}

\* A step that runs r's script, with verdict v.
Runs(r, v) ==
    /\ pc[r] = "script"
    /\ pc'[r] \in {"script", "proxy", "done"}
    /\ \A q \in Requests \ {r} : pc'[q] = pc[q]
    /\ Script(r)
    /\ Executed(r, v)
    /\ v = "admitted" => ~Exceeds(r)
    /\ v = "rejected" => Exceeds(r)
    /\ now' = now
    /\ stamp' = stamp

\* An entry of time t whose score is at most lag behind stays in the window of
\* a script that runs at n < t + w - lag with a stamp s <= n.
LEMMA LagShift ==
  ASSUME NEW t \in Nat, NEW x \in Nat, NEW s \in Nat, NEW n \in Nat,
         NEW w \in Nat, NEW lag \in Nat,
         t + w > n + lag, t <= x + lag, s <= n
  PROVE  x + w > s
  OBVIOUS

\* An entry in the window of a stamp s was made less than a window and the lag ago.
LEMMA LagReach ==
  ASSUME NEW t \in Nat, NEW x \in Nat, NEW s \in Nat, NEW n \in Nat,
         NEW w \in Nat, NEW lag \in Nat,
         x + w > s, x <= t, n <= s + lag
  PROVE  t + (w + lag) > n
  OBVIOUS

\* What a request in the chain carries.
LEMMA InfoType ==
  ASSUME TypeOK, RequestInv, NEW r \in Requests,
         pc[r] \in {"ratelimit", "script", "proxy"}
  PROVE  /\ info[r].merchant \in Merchants
         /\ info[r].limit \in Nat \ {0}
<1>1. info[r].merchant \in Merchants
  BY DEF RequestInv
<1>2. info[r] \in Infos
  BY DEF TypeOK
<1>3. info[r] # Anonymous
  BY <1>1 DEF Merchants, Anonymous
<1> QED
  BY <1>1, <1>2, <1>3 DEF Infos

\* Every step is one of the two.
LEMMA StepKinds ==
  ASSUME TypeOK, RequestInv, [Next]_vars
  PROVE  \/ Silent
         \/ \E r \in Requests, v \in {"admitted", "rejected", "unknown"} : Runs(r, v)
<1>1. CASE UNCHANGED vars
  BY <1>1 DEF Silent, vars, gateway, redis, TypeOK
<1>2. CASE Tick
  BY <1>2 DEF Silent, Tick, gateway, redis, TypeOK
<1>3. ASSUME NEW r \in Requests, Serve(r)
      PROVE  Silent \/ \E v \in {"admitted", "rejected", "unknown"} : Runs(r, v)
  <2> USE DEF TypeOK
  <2>1. ASSUME NEW k \in DOMAIN ApiKeys \cup {NoKey}, Auth(r, k)
        PROVE  Silent
    BY <2>1 DEF Auth, Silent, Call, Answer, redis
  <2>2. CASE AuthFails(r)
    BY <2>2 DEF AuthFails, Silent, Answer, redis
  <2>3. CASE Stamp(r)
    BY <2>3 DEF Stamp, Silent, Call, redis
  <2>4. CASE StampCollides(r)
    BY <2>4 DEF StampCollides, Silent, Call, redis
  <2>5. CASE RateLimit(r)
    <3>1. CASE Exceeds(r)
      <4>1. Runs(r, "rejected")
        BY <2>5, <3>1 DEF RateLimit, Runs, Answer
      <4> QED
        BY <4>1
    <3>2. CASE ~Exceeds(r)
      <4>1. Runs(r, "admitted")
        BY <2>5, <3>2 DEF RateLimit, Runs, Call
      <4> QED
        BY <4>1
    <3> QED
      BY <3>1, <3>2
  <2>6. CASE ReplyLost(r)
    <3>1. Runs(r, "unknown")
      BY <2>6 DEF ReplyLost, Runs, gateway
    <3> QED
      BY <3>1
  <2>7. CASE RateLimitFails(r)
    BY <2>7 DEF RateLimitFails, Silent, Call, redis
  <2>8. CASE Proxy(r)
    BY <2>8 DEF Proxy, Silent, Answer, redis
  <2>9. CASE ProxyFails(r)
    BY <2>9 DEF ProxyFails, Silent, Answer, redis
  <2>10. CASE Aborts(r)
    BY <2>10 DEF Aborts, Silent, Answer, redis
  <2> QED
    BY <1>3, <2>1, <2>2, <2>3, <2>4, <2>5, <2>6, <2>7, <2>8, <2>9, <2>10 DEF Serve
<1> QED
  BY <1>1, <1>2, <1>3 DEF Next

------------------------------------------------------------------------------
(* The parts of the invariant. *)

LEMMA InitRateInv == Init => RateInv
<1> SUFFICES ASSUME Init PROVE RateInv
  OBVIOUS
<1> USE RateConstants DEF Init
<1>1. TypeOK
  BY DEF TypeOK, Infos, Anonymous, Stamps, Answers, Entries
<1>2. ChainInv /\ RequestInv
  BY DEF ChainInv, RequestInv, Told, Anonymous
<1>3. LogInv /\ EntryInv /\ KeptInv
  BY DEF LogInv, EntryInv, KeptInv
<1> QED
  BY <1>1, <1>2, <1>3 DEF RateInv

\* What a script leaves in the window are stamps.
LEMMA ScriptType ==
  ASSUME TypeOK, RequestInv, NEW r \in Requests, pc[r] = "script", Script(r)
  PROVE  /\ window' \in [Merchants -> SUBSET Stamps]
         /\ touched' \in [Merchants -> Nat]
<1>1. info[r].merchant \in Merchants
  BY InfoType
<1>2. Add(Sweep(info[r].merchant, stamp[r].score), stamp[r]) \subseteq Stamps
  BY <1>1 DEF Add, Sweep, Live, TypeOK
<1> QED
  BY <1>1, <1>2 DEF Script, TypeOK

\* The history keeps its type.
LEMMA ExecutedType ==
  ASSUME TypeOK, RequestInv, NEW r \in Requests, pc[r] = "script",
         NEW v \in {"admitted", "rejected", "unknown"}, Executed(r, v)
  PROVE  log' \in Seq(Entries)
<1>1. [req |-> r, time |-> now, merchant |-> info[r].merchant,
       limit |-> info[r].limit, verdict |-> v] \in Entries
  BY InfoType DEF Entries, TypeOK
<1> QED
  BY <1>1 DEF Executed, TypeOK

LEMMA TypeStep == RateInv /\ [Next]_vars => TypeOK'
<1> SUFFICES ASSUME RateInv, [Next]_vars PROVE TypeOK'
  OBVIOUS
<1> USE RateConstants DEF RateInv
<1>1. CASE UNCHANGED vars
  BY <1>1 DEF TypeOK, vars, gateway, redis
<1>2. CASE Tick
  BY <1>2 DEF Tick, TypeOK, gateway, redis
<1>3. ASSUME NEW r \in Requests, Serve(r) PROVE TypeOK'
  <2>1. ASSUME NEW k \in DOMAIN ApiKeys \cup {NoKey}, Auth(r, k) PROVE TypeOK'
    <3>1. CASE Valid(k)
      <4>1. [merchant |-> ApiKeys[k].merchant, limit |-> LimitOf(k)] \in Infos
        BY <3>1 DEF Infos, Valid, Merchants, LimitOf
      <4>2. info' \in [Requests -> Infos]
        BY <2>1, <3>1, <4>1 DEF Auth, TypeOK
      <4> QED
        BY <2>1, <3>1, <4>2 DEF Auth, TypeOK, Call, redis
    <3>2. CASE ~Valid(k)
      BY <2>1, <3>2 DEF Auth, TypeOK, Answer, Answers, redis
    <3> QED
      BY <3>1, <3>2
  <2>2. CASE AuthFails(r)
    BY <2>2 DEF AuthFails, TypeOK, Answer, Answers, Fault, redis
  <2>3. CASE Stamp(r)
    <3>1. PICK t \in (now - MaxLag) .. now :
                 stamp' = [stamp EXCEPT ![r] = [score |-> t, member |-> r]]
      BY <2>3 DEF Stamp
    <3>2. [score |-> t, member |-> r] \in Stamps
      BY DEF Stamps, TypeOK
    <3> QED
      BY <2>3, <3>1, <3>2 DEF Stamp, TypeOK, Call, redis
  <2>4. CASE StampCollides(r)
    <3>1. PICK o \in Requests \ {r}, t \in (now - MaxLag) .. now :
                 stamp' = [stamp EXCEPT ![r] = [score |-> t, member |-> stamp[o].member]]
      BY <2>4 DEF StampCollides
    <3>2. [score |-> t, member |-> stamp[o].member] \in Stamps
      BY DEF Stamps, TypeOK
    <3> QED
      BY <2>4, <3>1, <3>2 DEF StampCollides, TypeOK, Call, Fault, redis
  <2>5. CASE RateLimit(r)
    <3>1. /\ window' \in [Merchants -> SUBSET Stamps]
          /\ touched' \in [Merchants -> Nat]
      BY <2>5, ScriptType DEF RateLimit
    <3>2. log' \in Seq(Entries)
      BY <2>5, ExecutedType DEF RateLimit
    <3> QED
      BY <2>5, <3>1, <3>2 DEF RateLimit, TypeOK, Call, Answer, Answers
  <2>6. CASE ReplyLost(r)
    <3>1. /\ window' \in [Merchants -> SUBSET Stamps]
          /\ touched' \in [Merchants -> Nat]
      BY <2>6, ScriptType DEF ReplyLost
    <3>2. log' \in Seq(Entries)
      BY <2>6, ExecutedType DEF ReplyLost
    <3> QED
      BY <2>6, <3>1, <3>2 DEF ReplyLost, TypeOK, Fault, gateway
  <2>7. CASE RateLimitFails(r)
    BY <2>7 DEF RateLimitFails, TypeOK, Call, Fault, redis
  <2>8. CASE Proxy(r)
    BY <2>8 DEF Proxy, TypeOK, Answer, Answers, redis
  <2>9. CASE ProxyFails(r)
    BY <2>9 DEF ProxyFails, TypeOK, Answer, Answers, Fault, redis
  <2>10. CASE Aborts(r)
    BY <2>10 DEF Aborts, TypeOK, Answer, Answers, Fault, redis
  <2> QED
    BY <1>3, <2>1, <2>2, <2>3, <2>4, <2>5, <2>6, <2>7, <2>8, <2>9, <2>10 DEF Serve
<1> QED
  BY <1>1, <1>2, <1>3 DEF Next

\* An execution adds one entry to the history and keeps the others.
LEMMA LogGrows ==
  ASSUME TypeOK, NEW r, NEW v, Executed(r, v)
  PROVE  /\ Len(log) \in Nat
         /\ Len(log') = Len(log) + 1
         /\ \A i \in 1 .. Len(log) : log'[i] = log[i]
         /\ log'[Len(log) + 1] = [req |-> r, time |-> now, merchant |-> info[r].merchant,
                                  limit |-> info[r].limit, verdict |-> v]
  BY DEF Executed, TypeOK

LEMMA ToldGrows ==
  ASSUME TypeOK, NEW r \in Requests, NEW v, Executed(r, v)
  PROVE  \A q \in Requests : \A w : Told(q, w)' <=> Told(q, w) \/ (q = r /\ w = v)
<1> SUFFICES ASSUME NEW q \in Requests, NEW w
             PROVE  Told(q, w)' <=> Told(q, w) \/ (q = r /\ w = v)
  OBVIOUS
<1> DEFINE n == Len(log)
<1>0. /\ n \in Nat
      /\ Len(log') = n + 1
      /\ \A i \in 1 .. n : log'[i] = log[i]
      /\ log'[n + 1] = [req |-> r, time |-> now, merchant |-> info[r].merchant,
                        limit |-> info[r].limit, verdict |-> v]
  BY LogGrows, Zenon
<1>1. /\ n \in Nat /\ Len(log') = n + 1
      /\ \A i \in 1 .. n : log'[i] = log[i]
      /\ log'[n + 1].req = r /\ log'[n + 1].verdict = v
  BY <1>0
<1>2. 1 .. n + 1 = 1 .. n \cup {n + 1}
  BY <1>1
<1> HIDE DEF n
<1>3. Told(q, w)' <=> \E i \in 1 .. n + 1 : log'[i].req = q /\ log'[i].verdict = w
  BY <1>1 DEF Told
<1>4. Told(q, w) <=> \E i \in 1 .. n : log[i].req = q /\ log[i].verdict = w
  BY DEF Told, n
<1> QED
  BY <1>1, <1>2, <1>3, <1>4

\* ChainInv of one request.
ChainOf(q) ==
    /\ answer[q] = "429" <=> Told(q, "rejected")
    /\ (pc[q] = "proxy" \/ answer[q] \in {"upstream", "502"}) =>
           /\ info[q].merchant \in Merchants
           /\ Told(q, "admitted") \/ faults > 0
    /\ answer[q] = "401" => info[q] = Anonymous

LEMMA ChainStep == RateInv /\ [Next]_vars => ChainInv'
<1> SUFFICES ASSUME RateInv, [Next]_vars, NEW q \in Requests PROVE ChainOf(q)'
  BY DEF ChainInv, ChainOf
<1>0. ChainOf(q) /\ TypeOK /\ RequestInv
  BY DEF RateInv, ChainInv, ChainOf
<1>1. ASSUME log' = log
      PROVE  /\ Told(q, "rejected")' <=> Told(q, "rejected")
             /\ Told(q, "admitted")' <=> Told(q, "admitted")
  BY <1>1 DEF Told
<1>2. CASE UNCHANGED vars
  BY <1>0, <1>1, <1>2 DEF ChainOf, vars, gateway
<1>3. CASE Tick
  BY <1>0, <1>1, <1>3 DEF ChainOf, Tick, gateway
<1>4. ASSUME NEW r \in Requests, Serve(r) PROVE ChainOf(q)'
  <2> USE <1>0, <1>1 DEF TypeOK, RequestInv, ChainOf
  <2>1. ASSUME NEW k \in DOMAIN ApiKeys \cup {NoKey}, Auth(r, k) PROVE ChainOf(q)'
    BY <2>1 DEF Auth, Call, Answer
  <2>2. CASE AuthFails(r)
    BY <2>2 DEF AuthFails, Answer, Fault
  <2>3. CASE Stamp(r)
    BY <2>3 DEF Stamp, Call
  <2>4. CASE StampCollides(r)
    BY <2>4 DEF StampCollides, Call, Fault
  <2>5. CASE RateLimit(r)
    <3>1. answer[r] = "none" /\ info[r].merchant \in Merchants
      BY <2>5 DEF RateLimit
    <3>2. CASE Exceeds(r)
      <4>1. Executed(r, "rejected") /\ Answer(r, "429") /\ UNCHANGED <<info, faults>>
        BY <2>5, <3>2 DEF RateLimit
      <4>2. /\ Told(q, "rejected")' <=> Told(q, "rejected") \/ q = r
            /\ Told(q, "admitted")' <=> Told(q, "admitted")
        BY <4>1, ToldGrows
      <4> QED
        BY <3>1, <4>1, <4>2 DEF Answer
    <3>3. CASE ~Exceeds(r)
      <4>1. Executed(r, "admitted") /\ Call(r, "proxy") /\ UNCHANGED <<info, faults>>
        BY <2>5, <3>3 DEF RateLimit
      <4>2. /\ Told(q, "rejected")' <=> Told(q, "rejected")
            /\ Told(q, "admitted")' <=> Told(q, "admitted") \/ q = r
        BY <4>1, ToldGrows
      <4> QED
        BY <3>1, <4>1, <4>2 DEF Call
    <3> QED
      BY <3>2, <3>3
  <2>6. CASE ReplyLost(r)
    <3>1. /\ Told(q, "rejected")' <=> Told(q, "rejected")
          /\ Told(q, "admitted")' <=> Told(q, "admitted")
      BY <2>6, ToldGrows DEF ReplyLost
    <3> QED
      BY <2>6, <3>1 DEF ReplyLost, gateway, Fault
  <2>7. CASE RateLimitFails(r)
    BY <2>7 DEF RateLimitFails, Call, Fault
  <2>8. CASE Proxy(r)
    BY <2>8 DEF Proxy, Answer
  <2>9. CASE ProxyFails(r)
    BY <2>9 DEF ProxyFails, Answer, Fault
  <2>10. CASE Aborts(r)
    BY <2>10 DEF Aborts, Answer, Fault
  <2> QED
    BY <1>4, <2>1, <2>2, <2>3, <2>4, <2>5, <2>6, <2>7, <2>8, <2>9, <2>10 DEF Serve
<1> QED
  BY <1>2, <1>3, <1>4 DEF Next

LEMMA RequestStep == RateInv /\ [Next]_vars => RequestInv'
<1> SUFFICES ASSUME RateInv, [Next]_vars PROVE RequestInv'
  OBVIOUS
<1> USE RateConstants DEF RateInv, RequestInv
<1>1. CASE UNCHANGED vars
  BY <1>1 DEF vars, gateway
<1>2. CASE Tick
  BY <1>2 DEF Tick, gateway, TypeOK, Stamps
<1>3. ASSUME NEW r \in Requests, Serve(r) PROVE RequestInv'
  <2> USE DEF TypeOK
  <2>1. ASSUME NEW k \in DOMAIN ApiKeys \cup {NoKey}, Auth(r, k) PROVE RequestInv'
    BY <2>1 DEF Auth, Call, Answer, Valid, Merchants
  <2>2. CASE AuthFails(r)
    BY <2>2 DEF AuthFails, Answer
  <2>3. CASE Stamp(r)
    BY <2>3 DEF Stamp, Call, Stamps
  <2>4. CASE StampCollides(r)
    BY <2>4 DEF StampCollides, Call, Stamps
  <2>5. CASE RateLimit(r)
    BY <2>5 DEF RateLimit, Call, Answer
  <2>6. CASE ReplyLost(r)
    BY <2>6 DEF ReplyLost, gateway
  <2>7. CASE RateLimitFails(r)
    BY <2>7 DEF RateLimitFails, Call
  <2>8. CASE Proxy(r)
    BY <2>8 DEF Proxy, Answer
  <2>9. CASE ProxyFails(r)
    BY <2>9 DEF ProxyFails, Answer
  <2>10. CASE Aborts(r)
    BY <2>10 DEF Aborts, Answer
  <2> QED
    BY <1>3, <2>1, <2>2, <2>3, <2>4, <2>5, <2>6, <2>7, <2>8, <2>9, <2>10 DEF Serve
<1> QED
  BY <1>1, <1>2, <1>3 DEF Next

\* An execution of r's script, in terms of the window and the history.
LEMMA RunsFacts ==
  ASSUME TypeOK, RequestInv, NEW r \in Requests,
         NEW v \in {"admitted", "rejected", "unknown"}, Runs(r, v)
  PROVE  LET m == info[r].merchant
             swept == Sweep(m, stamp[r].score)
         IN /\ m \in Merchants
            /\ window'[m] = Add(swept, stamp[r])
            /\ touched'[m] = now
            /\ \A o \in Merchants \ {m} : window'[o] = window[o] /\ touched'[o] = touched[o]
            /\ stamp[r].score \in Nat
            /\ stamp[r].score <= now /\ now <= stamp[r].score + MaxLag
            /\ now' = now /\ stamp' = stamp
<1>1. pc[r] = "script" /\ Script(r) /\ now' = now /\ stamp' = stamp
  BY DEF Runs
<1>2. info[r].merchant \in Merchants
  BY <1>1, InfoType
<1>3. /\ stamp[r].score \in Nat
      /\ stamp[r].score <= now /\ now <= stamp[r].score + MaxLag
  BY <1>1 DEF RequestInv, TypeOK, Stamps
<1> QED
  BY <1>1, <1>2, <1>3 DEF Script, TypeOK

LEMMA EntryOf ==
  ASSUME NEW s \in Seq(Entries), NEW i \in 1 .. Len(s)
  PROVE  /\ s[i] \in Entries
         /\ s[i].req \in Requests /\ s[i].time \in Nat
         /\ s[i].merchant \in Merchants /\ s[i].limit \in Nat
<1>1. s[i] \in Entries
  OBVIOUS
<1> QED
  BY <1>1 DEF Entries

LEMMA EntryType ==
  ASSUME TypeOK, NEW i \in 1 .. Len(log)
  PROVE  /\ log[i] \in Entries
         /\ log[i].req \in Requests /\ log[i].time \in Nat
         /\ log[i].merchant \in Merchants /\ log[i].limit \in Nat
<1>1. log \in Seq(Entries)
  BY DEF TypeOK
<1> QED
  BY <1>1, EntryOf

\* The history of an execution, entry by entry.
LEMMA RunsLog ==
  ASSUME TypeOK, RequestInv, NEW r \in Requests,
         NEW v \in {"admitted", "rejected", "unknown"}, Runs(r, v)
  PROVE  /\ Len(log) \in Nat /\ Len(log') = Len(log) + 1
         /\ \A i \in 1 .. Len(log') : i \in 1 .. Len(log) \/ i = Len(log) + 1
         /\ \A i \in 1 .. Len(log) : log'[i] = log[i] /\ log[i] \in Entries
         /\ log'[Len(log) + 1].req = r
         /\ log'[Len(log) + 1].time = now
         /\ log'[Len(log) + 1].merchant = info[r].merchant
         /\ log'[Len(log) + 1].limit = info[r].limit
         /\ log'[Len(log) + 1].verdict = v
<1>1. Executed(r, v)
  BY DEF Runs
<1>2. /\ Len(log) \in Nat
      /\ Len(log') = Len(log) + 1
      /\ \A i \in 1 .. Len(log) : log'[i] = log[i]
      /\ log'[Len(log) + 1] = [req |-> r, time |-> now, merchant |-> info[r].merchant,
                               limit |-> info[r].limit, verdict |-> v]
  BY <1>1, LogGrows, Zenon
<1>3. \A i \in 1 .. Len(log) : log[i] \in Entries
  BY DEF TypeOK
<1> QED
  BY <1>2, <1>3

LEMMA LogStep == RateInv /\ [Next]_vars => LogInv'
<1> SUFFICES ASSUME RateInv, [Next]_vars PROVE LogInv'
  OBVIOUS
<1>0. TypeOK /\ RequestInv /\ LogInv
  BY DEF RateInv
<1>1. CASE Silent
  <2>1. log' = log /\ touched' = touched /\ now' >= now
    BY <1>1 DEF Silent, redis
  <2>2. \A m \in Merchants : touched[m] \in Nat /\ touched[m] <= now /\ now \in Nat
    BY <1>0 DEF LogInv, TypeOK
  <2>3. now' \in Nat
    BY TypeStep DEF TypeOK
  <2>4. \A m \in Merchants : touched[m] <= now'
    BY <2>1, <2>2, <2>3
  <2>5. \A i \in 1 .. Len(log) : pc'[log[i].req] \in {"script", "proxy", "done"}
    BY <1>0, <1>1, EntryType DEF Silent, LogInv
  <2> QED
    BY <1>0, <2>1, <2>4, <2>5 DEF LogInv
<1>2. ASSUME NEW r \in Requests, NEW v \in {"admitted", "rejected", "unknown"}, Runs(r, v)
      PROVE  LogInv'
  <2>1. \A m \in Merchants : touched'[m] <= now' /\ touched[m] <= touched'[m]
    BY <1>0, <1>2, RunsFacts DEF LogInv, TypeOK
  <2>2. \A q \in Requests : pc[q] \in {"script", "proxy", "done"} =>
                              pc'[q] \in {"script", "proxy", "done"}
    BY <1>2 DEF Runs
  <2>3. ASSUME NEW i \in 1 .. Len(log')
        PROVE  /\ pc'[log'[i].req] \in {"script", "proxy", "done"}
               /\ log'[i].time <= touched'[log'[i].merchant]
    <3>1. CASE i \in 1 .. Len(log)
      <4>1. log'[i] = log[i] /\ log[i] \in Entries
        BY <1>0, <1>2, <3>1, RunsLog
      <4>2. /\ pc[log[i].req] \in {"script", "proxy", "done"}
            /\ log[i].time <= touched[log[i].merchant]
        BY <1>0, <3>1 DEF LogInv
      <4>3. log[i].req \in Requests /\ log[i].time \in Nat /\ log[i].merchant \in Merchants
        BY <4>1 DEF Entries
      <4>4. touched[log[i].merchant] \in Nat /\ touched'[log[i].merchant] \in Nat
        BY <1>0, <1>2, <4>3, ScriptType DEF TypeOK, Runs
      <4> QED
        BY <2>1, <2>2, <4>1, <4>2, <4>3, <4>4
    <3>2. CASE i = Len(log) + 1
      <4>1. /\ log'[i].req = r /\ log'[i].time = now
            /\ log'[i].merchant = info[r].merchant
        BY <1>0, <1>2, <3>2, RunsLog
      <4>2. touched'[info[r].merchant] = now
        BY <1>0, <1>2, RunsFacts
      <4> QED
        BY <1>0, <1>2, <4>1, <4>2 DEF Runs, TypeOK
    <3> QED
      BY <1>0, <1>2, <3>1, <3>2, RunsLog
  <2> QED
    BY <2>1, <2>3 DEF LogInv
<1> QED
  BY <1>0, <1>1, <1>2, StepKinds

LEMMA EntryStep == RateInv /\ [Next]_vars => EntryInv'
<1> SUFFICES ASSUME RateInv, [Next]_vars, NEW m \in Merchants, NEW e \in window'[m]
             PROVE  \E i \in 1 .. Len(log') : /\ log'[i].merchant = m
                                             /\ stamp'[log'[i].req] = e
                                             /\ e.score <= log'[i].time
  BY DEF EntryInv
<1>0. TypeOK /\ RequestInv /\ LogInv /\ EntryInv
  BY DEF RateInv
<1>1. CASE Silent
  <2>1. log' = log /\ e \in window[m]
    BY <1>1 DEF Silent, redis
  <2>2. PICK i \in 1 .. Len(log) : /\ log[i].merchant = m
                                   /\ stamp[log[i].req] = e
                                   /\ e.score <= log[i].time
    BY <1>0, <2>1 DEF EntryInv
  <2>3. log[i].req \in Requests /\ pc[log[i].req] \in {"script", "proxy", "done"}
    BY <1>0, EntryType DEF LogInv
  <2>4. stamp'[log[i].req] = e
    BY <1>1, <2>2, <2>3 DEF Silent
  <2> QED
    BY <2>1, <2>2, <2>4
<1>2. ASSUME NEW r \in Requests, NEW v \in {"admitted", "rejected", "unknown"}, Runs(r, v)
      PROVE  \E i \in 1 .. Len(log') : /\ log'[i].merchant = m
                                       /\ stamp'[log'[i].req] = e
                                       /\ e.score <= log'[i].time
  <2>0. stamp' = stamp /\ stamp[r].score <= now
    BY <1>0, <1>2, RunsFacts
  <2>1. e \in window[m] \/ (m = info[r].merchant /\ e = stamp[r])
    <3>1. CASE m = info[r].merchant
      <4>1. e \in Add(Sweep(m, stamp[r].score), stamp[r])
        BY <1>0, <1>2, <3>1, RunsFacts
      <4> QED
        BY <3>1, <4>1 DEF Add, Sweep, Live
    <3>2. CASE m # info[r].merchant
      BY <1>0, <1>2, <3>2, RunsFacts
    <3> QED
      BY <3>1, <3>2
  <2>2. CASE e \in window[m]
    <3>1. PICK i \in 1 .. Len(log) : /\ log[i].merchant = m
                                     /\ stamp[log[i].req] = e
                                     /\ e.score <= log[i].time
      BY <1>0, <2>2 DEF EntryInv
    <3>2. i \in 1 .. Len(log') /\ log'[i] = log[i]
      BY <1>0, <1>2, RunsLog
    <3> QED
      BY <2>0, <3>1, <3>2
  <2>3. CASE m = info[r].merchant /\ e = stamp[r]
    <3>1. Len(log) + 1 \in 1 .. Len(log')
      BY <1>0, <1>2, RunsLog
    <3>2. /\ log'[Len(log) + 1].req = r /\ log'[Len(log) + 1].time = now
          /\ log'[Len(log) + 1].merchant = m
      BY <1>0, <1>2, <2>3, RunsLog
    <3> QED
      BY <2>0, <2>3, <3>1, <3>2
  <2> QED
    BY <2>1, <2>2, <2>3
<1> QED
  BY <1>0, <1>1, <1>2, StepKinds

LEMMA KeptStep == RateInv /\ [Next]_vars => KeptInv'
<1> SUFFICES ASSUME RateInv, [Next]_vars, NEW i \in 1 .. Len(log'),
                    log'[i].time + Window > touched'[log'[i].merchant] + MaxLag
             PROVE  \E e \in window'[log'[i].merchant] :
                       /\ e.member = stamp'[log'[i].req].member
                       /\ log'[i].time <= e.score + MaxLag
  BY DEF KeptInv
<1>0. TypeOK /\ RequestInv /\ LogInv /\ KeptInv
  BY DEF RateInv
<1>1. CASE Silent
  <2>1. log' = log /\ window' = window /\ touched' = touched
    BY <1>1 DEF Silent, redis
  <2>2. PICK e \in window[log[i].merchant] : /\ e.member = stamp[log[i].req].member
                                             /\ log[i].time <= e.score + MaxLag
    BY <1>0, <2>1 DEF KeptInv
  <2>3. log[i].req \in Requests /\ pc[log[i].req] \in {"script", "proxy", "done"}
    BY <1>0, <2>1, EntryType DEF LogInv
  <2>4. stamp'[log[i].req] = stamp[log[i].req]
    BY <1>1, <2>3 DEF Silent
  <2> QED
    BY <2>1, <2>2, <2>4
<1>2. ASSUME NEW r \in Requests, NEW v \in {"admitted", "rejected", "unknown"}, Runs(r, v)
      PROVE  \E e \in window'[log'[i].merchant] :
                /\ e.member = stamp'[log'[i].req].member
                /\ log'[i].time <= e.score + MaxLag
  <2> DEFINE m == info[r].merchant
  <2>0. /\ m \in Merchants
        /\ window'[m] = Add(Sweep(m, stamp[r].score), stamp[r])
        /\ touched'[m] = now
        /\ \A o \in Merchants \ {m} : window'[o] = window[o] /\ touched'[o] = touched[o]
        /\ stamp[r].score \in Nat
        /\ stamp[r].score <= now /\ now <= stamp[r].score + MaxLag
        /\ stamp' = stamp
    BY <1>0, <1>2, RunsFacts
  <2>1. stamp[r] \in window'[m]
    BY <2>0 DEF Add
  <2>2. CASE i = Len(log) + 1
    <3>1. log'[i].req = r /\ log'[i].time = now /\ log'[i].merchant = m
      BY <1>0, <1>2, <2>2, RunsLog
    <3> QED
      BY <2>0, <2>1, <3>1
  <2>3. CASE i \in 1 .. Len(log)
    <3>1. log'[i] = log[i] /\ log[i] \in Entries
      BY <1>0, <1>2, <2>3, RunsLog
    <3>2. CASE log[i].merchant # m
      <4>1. /\ window'[log[i].merchant] = window[log[i].merchant]
            /\ touched'[log[i].merchant] = touched[log[i].merchant]
        BY <2>0, <3>1, <3>2 DEF Entries
      <4> QED
        BY <1>0, <2>0, <2>3, <3>1, <4>1 DEF KeptInv
    <3>3. CASE log[i].merchant = m
      <4> DEFINE t == log[i].time
      <4>1. /\ t \in Nat /\ touched[m] \in Nat /\ now \in Nat
            /\ MaxLag \in Nat /\ Window \in Nat /\ TTL \in Nat
            /\ MaxLag < Window /\ Window <= TTL
        BY <1>0, <2>0, <3>1, RateConstants DEF Entries, TypeOK
      <4>2. t + Window > now + MaxLag
        BY <2>0, <3>1, <3>3
      <4>3. t <= touched[m] /\ touched[m] <= now
        BY <1>0, <2>0, <2>3, <3>3 DEF LogInv
      <4>4. PICK e \in window[m] : /\ e.member = stamp[log[i].req].member
                                   /\ t <= e.score + MaxLag
        <5>1. log[i].time + Window > touched[log[i].merchant] + MaxLag
          <6>1. log[i].time + Window > touched[m] + MaxLag
            BY <4>1, <4>2, <4>3
          <6> QED
            BY <3>3, <6>1
        <5> QED
          BY <1>0, <2>3, <3>3, <5>1 DEF KeptInv
      <4>5. CASE e.member = stamp[r].member
        <5>1. t <= stamp[r].score + MaxLag
          BY <2>0, <4>1, <4>3
        <5> QED
          BY <2>0, <2>1, <3>1, <3>3, <4>4, <4>5, <5>1
      <4>6. CASE e.member # stamp[r].member
        <5>1. e.score \in Nat
          BY <1>0, <2>0 DEF TypeOK, Stamps
        <5>2. e \in Live(m)
          BY <4>1, <4>2, <4>3 DEF Live
        <5>3. e.score + Window > stamp[r].score
          <6>1. stamp[r].score \in Nat /\ stamp[r].score <= now
            BY <2>0
          <6>2. t <= e.score + MaxLag
            BY <4>4
          <6> QED
            BY <4>1, <4>2, <5>1, <6>1, <6>2, LagShift
        <5>4. e \in window'[m]
          BY <2>0, <4>6, <5>2, <5>3 DEF Add, Sweep
        <5> QED
          BY <2>0, <3>1, <3>3, <4>4, <5>4
      <4> QED
        BY <4>5, <4>6
    <3> QED
      BY <3>2, <3>3
  <2> QED
    BY <1>0, <1>2, <2>2, <2>3, RunsLog
<1> QED
  BY <1>0, <1>1, <1>2, StepKinds

\* RateInv is an invariant: what the gateway answers is what its scripts said
\* (ChainInv), and the window holds exactly what the history says it does.
\* (middleware/ratelimit.go: rateLimitScript, RateLimit; cmd/api: chain)
THEOREM RateInvariant == Spec => []RateInv
<1>1. RateInv /\ [Next]_vars => RateInv'
  BY TypeStep, ChainStep, RequestStep, LogStep, EntryStep, KeptStep DEF RateInv
<1> QED
  BY <1>1, InitRateInv, PTL DEF Spec

------------------------------------------------------------------------------
(* The promises of the window. *)

LEMMA RecentFinite ==
  ASSUME TypeOK, NEW i \in 1 .. Len(log), NEW span \in Nat
  PROVE  /\ Recent(i, span) \subseteq Requests
         /\ IsFiniteSet(Recent(i, span))
         /\ Cardinality(Recent(i, span)) \in Nat
<1>1. \A j \in 1 .. i : j \in 1 .. Len(log)
  BY DEF TypeOK
<1>2. Recent(i, span) \subseteq Requests
  BY <1>1, EntryType DEF Recent
<1> QED
  BY <1>2, RateConstants, FS_Subset, FS_CardinalityType

\* What was recent at an execution stays so: the history only grows.
LEMMA RecentKept ==
  ASSUME TypeOK, NEW i \in 1 .. Len(log), NEW span \in Nat,
         \A j \in 1 .. Len(log) : log'[j] = log[j]
  PROVE  Recent(i, span)' = Recent(i, span)
<1>1. \A j \in 1 .. i : log'[j] = log[j]
  BY DEF TypeOK
<1> QED
  BY <1>1 DEF Recent

LEMMA ImageFinite ==
  ASSUME NEW f, IsFiniteSet(DOMAIN f), NEW T, T = {f[x] : x \in DOMAIN f}
  PROVE  IsFiniteSet(T) /\ Cardinality(T) <= Cardinality(DOMAIN f)
<1> DEFINE g == [x \in DOMAIN f |-> f[x]]
<1>1. g \in Surjection(DOMAIN f, T)
  BY DEF Surjection
<1> QED
  BY <1>1, FS_Surjection

\* A set of stamps of executed requests is finite.
LEMMA WindowFinite ==
  ASSUME NEW s \in Seq(Entries), NEW st \in [Requests -> Stamps], NEW W,
         \A e \in W : \E i \in 1 .. Len(s) : st[s[i].req] = e
  PROVE  IsFiniteSet(W)
<1> DEFINE T == {st[q] : q \in DOMAIN st}
<1>1. DOMAIN st = Requests
  OBVIOUS
<1>2. W \subseteq T
  BY <1>1, EntryOf
<1>3. IsFiniteSet(T)
  BY <1>1, RateConstants, ImageFinite
<1> QED
  BY <1>2, <1>3, FS_Subset

LEMMA RejectionStep ==
  RateInv /\ RateInv' /\ RejectionIsEarned /\ [Next]_vars => RejectionIsEarned'
<1> SUFFICES ASSUME RateInv, RateInv', RejectionIsEarned, [Next]_vars,
                    NEW i \in 1 .. Len(log'), log'[i].verdict = "rejected"
             PROVE  Cardinality(Recent(i, Window + MaxLag)') > log'[i].limit
  BY DEF RejectionIsEarned, Recent
<1>0. /\ TypeOK /\ RequestInv /\ EntryInv /\ TypeOK'
      /\ Window \in Nat /\ MaxLag \in Nat /\ Window + MaxLag \in Nat
  BY RateConstants DEF RateInv
<1>1. ASSUME i \in 1 .. Len(log), \A j \in 1 .. Len(log) : log'[j] = log[j]
      PROVE  Cardinality(Recent(i, Window + MaxLag)') > log'[i].limit
  BY <1>0, <1>1, RecentKept DEF RejectionIsEarned
<1>2. CASE Silent
  BY <1>1, <1>2 DEF Silent
<1>3. ASSUME NEW r \in Requests, NEW v \in {"admitted", "rejected", "unknown"}, Runs(r, v)
      PROVE  Cardinality(Recent(i, Window + MaxLag)') > log'[i].limit
  <2>1. CASE i \in 1 .. Len(log)
    BY <1>0, <1>1, <1>3, <2>1, RunsLog
  <2>2. CASE i = Len(log) + 1
    <3> DEFINE m == info[r].merchant
               R == Recent(i, Window + MaxLag)'
    <3>1. /\ log'[i].req = r /\ log'[i].time = now /\ log'[i].merchant = m
          /\ log'[i].limit = info[r].limit /\ log'[i].verdict = v
          /\ \A j \in 1 .. Len(log) : log'[j] = log[j] /\ j \in 1 .. i
      BY <1>0, <1>3, <2>2, RunsLog
    <3>2. /\ m \in Merchants
          /\ window'[m] = Add(Sweep(m, stamp[r].score), stamp[r])
          /\ stamp[r].score \in Nat /\ now <= stamp[r].score + MaxLag
      BY <1>0, <1>3, RunsFacts
    <3>3. /\ Cardinality(window'[m]) > info[r].limit
          /\ info[r].limit \in Nat
      BY <1>0, <1>3, <3>1, <3>2, InfoType DEF Runs, Exceeds
    <3>4. window'[m] \subseteq {stamp[q] : q \in R}
      <4> SUFFICES ASSUME NEW e \in window'[m] PROVE \E q \in R : e = stamp[q]
        OBVIOUS
      <4>1. CASE e = stamp[r]
        <5>1. r \in R
          <6>1. i \in 1 .. i /\ now \in Nat /\ now + (Window + MaxLag) > now
            BY <1>0, <2>2, RateConstants DEF TypeOK
          <6> QED
            BY <3>1, <6>1 DEF Recent
        <5> QED
          BY <4>1, <5>1
      <4>2. CASE e # stamp[r]
        <5>1. e \in window[m] /\ e.score + Window > stamp[r].score
          BY <3>2, <4>2 DEF Add, Sweep, Live
        <5>2. PICK j \in 1 .. Len(log) : /\ log[j].merchant = m
                                         /\ stamp[log[j].req] = e
                                         /\ e.score <= log[j].time
          BY <1>0, <3>2, <5>1 DEF EntryInv
        <5>3. e.score \in Nat /\ log[j].time \in Nat /\ now \in Nat
          <6>1. e \in Stamps
            BY <1>0, <3>2, <5>1 DEF TypeOK
          <6> QED
            BY <1>0, <5>2, <6>1, EntryType DEF TypeOK, Stamps
        <5>4. log[j].time + (Window + MaxLag) > now
          <6>1. e.score + Window > stamp[r].score /\ e.score <= log[j].time
            BY <5>1, <5>2
          <6>2. stamp[r].score \in Nat /\ now <= stamp[r].score + MaxLag
            BY <3>2
          <6>3. Window \in Nat /\ MaxLag \in Nat
            BY <1>0
          <6> QED
            BY <5>3, <6>1, <6>2, <6>3, LagReach
        <5>5. log[j].req \in R
          BY <3>1, <5>2, <5>4 DEF Recent
        <5> QED
          BY <5>2, <5>5
      <4> QED
        BY <4>1, <4>2
    <3>5. R \subseteq Requests /\ IsFiniteSet(R) /\ Cardinality(R) \in Nat
      <4>1. log' \in Seq(Entries) /\ \A j \in 1 .. i : j \in 1 .. Len(log')
        BY <1>0 DEF TypeOK
      <4>2. R \subseteq Requests
        BY <4>1, EntryOf DEF Recent
      <4> QED
        BY <4>2, RateConstants, FS_Subset, FS_CardinalityType
    <3> HIDE DEF R
    <3>6. /\ IsFiniteSet({stamp[q] : q \in R})
          /\ Cardinality({stamp[q] : q \in R}) <= Cardinality(R)
      <4> DEFINE f == [q \in R |-> stamp[q]]
      <4>1. DOMAIN f = R /\ {stamp[q] : q \in R} = {f[q] : q \in DOMAIN f}
        OBVIOUS
      <4> HIDE DEF f
      <4> QED
        BY <3>5, <4>1, ImageFinite
    <3>7. /\ IsFiniteSet(window'[m])
          /\ Cardinality(window'[m]) <= Cardinality({stamp[q] : q \in R})
      BY <3>4, <3>6, FS_Subset
    <3>8. /\ Cardinality(window'[m]) \in Nat
          /\ Cardinality({stamp[q] : q \in R}) \in Nat
      BY <3>6, <3>7, FS_CardinalityType
    <3>9. Cardinality(R) > info[r].limit
      BY <3>3, <3>5, <3>6, <3>7, <3>8
    <3> QED
      BY <3>1, <3>9 DEF R
  <2> QED
    BY <1>0, <1>3, <2>1, <2>2, RunsLog
<1> QED
  BY <1>0, <1>2, <1>3, StepKinds

\* A rejected request had more than limit requests of its merchant, itself
\* among them, executed within a window and the lag.
\* (middleware/ratelimit.go: rateLimitScript, RateLimit)
THEOREM RejectionsAreEarned == Spec => []RejectionIsEarned
<1>1. Init => RejectionIsEarned
  BY DEF Init, RejectionIsEarned
<1> QED
  BY <1>1, RateInvariant, RejectionStep, PTL DEF Spec

\* A request that shares its member keeps it.
LEMMA HiddenStep ==
  RateInv /\ RateInv' /\ [Next]_vars =>
    /\ IsFiniteSet(Hidden') /\ Cardinality(Hidden) \in Nat
    /\ Cardinality(Hidden') \in Nat
    /\ Cardinality(Hidden) <= Cardinality(Hidden')
<1> SUFFICES ASSUME RateInv, RateInv', [Next]_vars
             PROVE  /\ IsFiniteSet(Hidden') /\ Cardinality(Hidden) \in Nat
                    /\ Cardinality(Hidden') \in Nat
                    /\ Cardinality(Hidden) <= Cardinality(Hidden')
  OBVIOUS
<1>0. TypeOK /\ RequestInv
  BY DEF RateInv
<1>1. ASSUME NEW q \in Requests, stamp[q].member # q PROVE stamp'[q] = stamp[q]
  <2>1. pc[q] \in {"script", "proxy", "done"}
    BY <1>0, <1>1 DEF RequestInv, TypeOK
  <2>2. CASE Silent
    BY <2>1, <2>2 DEF Silent
  <2>3. CASE \E r \in Requests, v \in {"admitted", "rejected", "unknown"} : Runs(r, v)
    BY <2>3 DEF Runs
  <2> QED
    BY <1>0, <2>2, <2>3, StepKinds
<1>2. Hidden \subseteq Hidden' /\ Hidden' \subseteq Requests
  BY <1>1 DEF Hidden
<1>3. IsFiniteSet(Hidden')
  BY <1>2, RateConstants, FS_Subset
<1> QED
  BY <1>2, <1>3, FS_Subset, FS_CardinalityType

LEMMA AdmittedStep ==
  RateInv /\ RateInv' /\ AdmittedWithinLimit /\ [Next]_vars => AdmittedWithinLimit'
<1> DEFINE span == Window - MaxLag
           Kept(i) == Cardinality(Recent(i, span)') <= log'[i].limit + Cardinality(Hidden')
<1> SUFFICES ASSUME RateInv, RateInv', AdmittedWithinLimit, [Next]_vars,
                    NEW i \in 1 .. Len(log'), log'[i].verdict = "admitted"
             PROVE  Kept(i)
  BY DEF AdmittedWithinLimit, Recent, Hidden
<1>0. /\ TypeOK /\ RequestInv /\ TypeOK' /\ KeptInv'
      /\ Window \in Nat /\ MaxLag \in Nat /\ span \in Nat
  BY RateConstants DEF RateInv
<1>9. /\ IsFiniteSet(Hidden') /\ Cardinality(Hidden) \in Nat
      /\ Cardinality(Hidden') \in Nat
      /\ Cardinality(Hidden) <= Cardinality(Hidden')
  BY HiddenStep
<1>1. ASSUME i \in 1 .. Len(log), \A j \in 1 .. Len(log) : log'[j] = log[j]
      PROVE  Kept(i)
  <2>1. Recent(i, span)' = Recent(i, span)
    BY <1>0, <1>1, RecentKept
  <2>2. Cardinality(Recent(i, span)) <= log[i].limit + Cardinality(Hidden)
    BY <1>1 DEF AdmittedWithinLimit
  <2>3. Cardinality(Recent(i, span)) \in Nat /\ log[i].limit \in Nat
    BY <1>0, <1>1, RecentFinite, EntryType
  <2>4. Cardinality(Recent(i, span)) <= log[i].limit + Cardinality(Hidden')
    BY <1>9, <2>2, <2>3
  <2> QED
    BY <1>1, <2>1, <2>4
<1>2. CASE Silent
  BY <1>1, <1>2 DEF Silent
<1>3. ASSUME NEW r \in Requests, NEW v \in {"admitted", "rejected", "unknown"}, Runs(r, v)
      PROVE  Kept(i)
  <2>1. CASE i \in 1 .. Len(log)
    BY <1>0, <1>1, <1>3, <2>1, RunsLog
  <2>2. CASE i = Len(log) + 1
    <3> DEFINE m == info[r].merchant
               W == window'[m]
               R == Recent(i, span)'
               H == Hidden'
    <3>1. /\ log'[i].merchant = m /\ log'[i].time = now
          /\ log'[i].limit = info[r].limit /\ log'[i].verdict = v
      BY <1>0, <1>3, <2>2, RunsLog
    <3>2. /\ m \in Merchants /\ touched'[m] = now
          /\ W = Add(Sweep(m, stamp[r].score), stamp[r])
      BY <1>0, <1>3, RunsFacts
    <3>3. IsFiniteSet(W) /\ Cardinality(W) \in Nat
      <4>1. IsFiniteSet(W)
        <5>1. log' \in Seq(Entries) /\ stamp' \in [Requests -> Stamps]
          BY <1>0 DEF TypeOK
        <5>2. \A e \in W : \E k \in 1 .. Len(log') : stamp'[log'[k].req] = e
          BY <3>2 DEF RateInv, EntryInv
        <5> QED
          BY <5>1, <5>2, WindowFinite
      <4> QED
        BY <4>1, FS_CardinalityType
    <3>4. info[r].limit \in Nat /\ Cardinality(W) <= info[r].limit
      <4>1. ~(Cardinality(W) > info[r].limit)
        BY <1>3, <3>1, <3>2 DEF Runs, Exceeds
      <4>2. info[r].limit \in Nat
        BY <1>0, <1>3, InfoType DEF Runs
      <4> QED
        BY <3>3, <4>1, <4>2
    <3>5. R \ H \subseteq {e.member : e \in W}
      <4> SUFFICES ASSUME NEW q \in R, q \notin H
                   PROVE  \E e \in W : q = e.member
        OBVIOUS
      <4>1. PICK j \in 1 .. i : /\ log'[j].req = q /\ log'[j].merchant = m
                                /\ log'[j].time + span > now
        BY <3>1 DEF Recent
      <4>2. j \in 1 .. Len(log')
        BY <1>0, <4>1 DEF TypeOK
      <4>3. log'[j].time \in Nat /\ log'[j].req \in Requests /\ now \in Nat
        <5>1. log' \in Seq(Entries) /\ now \in Nat
          BY <1>0 DEF TypeOK
        <5> QED
          BY <4>2, <5>1, EntryOf
      <4>4. log'[j].time + Window > touched'[m] + MaxLag
        BY <1>0, <3>2, <4>1, <4>3
      <4>5. PICK e \in W : e.member = stamp'[q].member
        BY <1>0, <4>1, <4>2, <4>4 DEF KeptInv
      <4>6. stamp'[q].member = q
        BY <4>1, <4>3 DEF Hidden
      <4> QED
        BY <4>5, <4>6
    <3>6. IsFiniteSet(R) /\ Cardinality(R) \in Nat
      <4>1. log' \in Seq(Entries) /\ \A j \in 1 .. i : j \in 1 .. Len(log')
        BY <1>0 DEF TypeOK
      <4>2. R \subseteq Requests
        BY <4>1, EntryOf DEF Recent
      <4> QED
        BY <4>2, RateConstants, FS_Subset, FS_CardinalityType
    <3>7. IsFiniteSet(H) /\ Cardinality(H) \in Nat
      BY <1>9
    <3> HIDE DEF R, H, W
    <3>8. /\ IsFiniteSet({e.member : e \in W})
          /\ Cardinality({e.member : e \in W}) <= Cardinality(W)
      <4> DEFINE f == [e \in W |-> e.member]
      <4>1. DOMAIN f = W /\ {e.member : e \in W} = {f[e] : e \in DOMAIN f}
        OBVIOUS
      <4> HIDE DEF f
      <4> QED
        BY <3>3, <4>1, ImageFinite
    <3>9. Cardinality(R \ H) <= Cardinality({e.member : e \in W})
      BY <3>5, <3>8, FS_Subset
    <3>10. /\ IsFiniteSet(R \ H) /\ Cardinality(R \ H) \in Nat
           /\ Cardinality({e.member : e \in W}) \in Nat
      BY <3>6, <3>8, FS_Difference, FS_CardinalityType
    <3>11. Cardinality(R) <= Cardinality(R \ H) + Cardinality(H)
      <4>1. Cardinality(R \ H) = Cardinality(R) - Cardinality(R \cap H)
        BY <3>6, <3>7, FS_Difference
      <4>2. /\ Cardinality(R \cap H) <= Cardinality(H)
            /\ Cardinality(R \cap H) \in Nat
        BY <3>7, FS_Subset, FS_CardinalityType
      <4> QED
        BY <3>6, <3>7, <3>10, <4>1, <4>2
    <3>12. Cardinality(R) <= info[r].limit + Cardinality(H)
      BY <3>3, <3>4, <3>6, <3>7, <3>8, <3>9, <3>10, <3>11
    <3> QED
      BY <3>1, <3>12 DEF R, H
  <2> QED
    BY <1>0, <1>3, <2>1, <2>2, RunsLog
<1> QED
  BY <1>0, <1>2, <1>3, StepKinds

\* An admitted request is one of at most limit requests of its merchant in the
\* last window, shortened by the lag, but for the requests that share a member.
\* (middleware/ratelimit.go: rateLimitScript, RateLimit)
THEOREM AdmissionsAreLimited == Spec => []AdmittedWithinLimit
<1>1. Init => AdmittedWithinLimit
  BY DEF Init, AdmittedWithinLimit
<1> QED
  BY <1>1, RateInvariant, AdmittedStep, PTL DEF Spec
==============================================================================
