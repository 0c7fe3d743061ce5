------------------------------ MODULE Limiter -------------------------------
(***************************************************************************)
(* What request_filter does with a request whose server is known, up to    *)
(* the entry that logging makes: authentication, the limit on 4xx          *)
(* responses, the rate limit, redirects, the upstream's answer, and the    *)
(* count of 4xx responses.                                                 *)
(*                                                                         *)
(* Requests run concurrently on the proxy's threads and share two counters *)
(* per client address, whatever the host or path they are for:             *)
(*   RATE_LIMITER   pingora's Rate: observe adds one and returns the count *)
(*                  of the current interval of one second;                 *)
(*   REQUESTS_4XX   a moka cache whose entries live for one second after   *)
(*                  they were last written.                                *)
(* The second one is read and written in two steps (get, then insert).     *)
(*                                                                         *)
(* Time advances in half seconds.  A limit is a set: empty when it is not  *)
(* configured.                                                             *)
(***************************************************************************)
EXTENDS Integers, FiniteSets

CONSTANTS
    Clients,    \* client addresses
    Slots,      \* requests that may be under way at the same time
    Routes,     \* matched routes: [rate, x4xx, auth, moved]
    Global,     \* extraparams: [rate, x4xx, auth]
    MaxReqs,    \* bound: requests
    MaxTime     \* bound: half seconds

\* Option<isize> for the rate and Option<u32> for the 4xx responses.
IsLimit(l, T) == l \subseteq T /\ \A m, n \in l : m = n

ASSUME RoutesAssumption ==
    \A r \in Routes : /\ IsLimit(r.rate, Int) /\ IsLimit(r.x4xx, Nat)
                      /\ r.auth \in BOOLEAN /\ r.moved \in BOOLEAN
ASSUME GlobalAssumption ==
    IsLimit(Global.rate, Int) /\ IsLimit(Global.x4xx, Nat) /\ Global.auth \in BOOLEAN
ASSUME BoundsAssumption == MaxReqs \in Nat /\ MaxTime \in Nat

VARIABLES
    now,        \* half seconds since start
    req,        \* per slot, [pc, ip, route, limit, code, seen]
    rate,       \* RATE_LIMITER: per client, requests in the current interval
    x4xx,       \* REQUESTS_4XX: per client, [count, until]
    reqs,       \* requests so far
    passed,     \* history: per client and limit n, the requests of the current
                \* interval that passed under a limit of n or less
    total4xx    \* history: per client, 4xx responses counted so far

vars == <<now, req, rate, x4xx, reqs, passed, total4xx>>

\* a.or(b)
Or(a, b) == IF a # {} THEN a ELSE b

\* innermap.rate_limit.or(extraparams.rate_limit)
RateLimit(r) == Or(r.rate, Global.rate)

\* The limits some route has.
Limits == UNION {RateLimit(r) : r \in Routes}

\* Time to live of an entry of REQUESTS_4XX, in half seconds.
TTL == 2

\* REQUESTS_4XX.get(ip).unwrap_or(0)
Count4xx(ip) == IF now < x4xx[ip].until THEN x4xx[ip].count ELSE 0

Idle == [pc |-> "idle"]

Step(s, pc) == req' = [req EXCEPT ![s].pc = pc]
Answer(s, code) == req' = [req EXCEPT ![s] = [@ EXCEPT !.pc = "log", !.code = code]]

-----------------------------------------------------------------------------
Arrive(s, ip, r) ==
    /\ req[s].pc = "idle" /\ reqs < MaxReqs
    /\ req' = [req EXCEPT ![s] =
                 [pc |-> "auth", ip |-> ip, route |-> r, limit |-> {}, code |-> 0, seen |-> 0]]
    /\ reqs' = reqs + 1
    /\ UNCHANGED <<now, rate, x4xx, passed, total4xx>>

\* authenticate, when the configuration or the path asks for it.
Auth(s) ==
    /\ req[s].pc = "auth"
    /\ \/ Step(s, "x4xx")
       \/ (Global.auth \/ req[s].route.auth) /\ Answer(s, 401)
    /\ UNCHANGED <<now, rate, x4xx, reqs, passed, total4xx>>

\* Mutant: a client that has made no mistake is refused too.
Over4xxZero(ip, limit) == \E n \in limit : Count4xx(ip) + 1 > n

\* count > rate
Over4xx(ip, limit) == \E n \in limit : Count4xx(ip) > n

\* The limit of the path, or else the global one; the path's own is kept for
\* the logging.
Check4xx(s) ==
    LET r == req[s] IN
    /\ r.pc = "x4xx"
    /\ LET limit == Or(r.route.x4xx, Global.x4xx)
           over == Over4xx(r.ip, limit)
       IN  req' = [req EXCEPT ![s] =
                     [@ EXCEPT !.limit = IF limit # {} THEN r.route.x4xx ELSE {},
                               !.pc = IF over THEN "log" ELSE "rate",
                               !.code = IF over THEN 429 ELSE 0]]
    /\ UNCHANGED <<now, rate, x4xx, reqs, passed, total4xx>>

\* Mutant: the request that reaches the limit plus one passes.
OverRateLate(n, limit) == \E m \in limit : n > m + 1

\* curr_window_requests > rate
OverRate(n, limit) == \E m \in limit : n > m

\* Only routes with a limit are counted.
CheckRate(s) ==
    LET r == req[s]
        limit == RateLimit(r.route)
        n == rate[r.ip] + 1
    IN  /\ r.pc = "rate"
        /\ rate' = IF limit # {} THEN [rate EXCEPT ![r.ip] = n] ELSE rate
        /\ IF OverRate(n, limit)
           THEN Answer(s, 429) /\ UNCHANGED passed
           ELSE /\ Step(s, "forward")
                /\ passed' = [passed EXCEPT ![r.ip] = [m \in Limits |->
                                 IF \E k \in limit : k <= m THEN @[m] + 1 ELSE @[m]]]
        /\ UNCHANGED <<now, x4xx, reqs, total4xx>>

\* redirect_to, to_https, or what the upstream answers.
Forward(s) ==
    /\ req[s].pc = "forward"
    /\ IF req[s].route.moved THEN Answer(s, 301)
       ELSE \E code \in {200, 404, 502} : Answer(s, code)
    /\ UNCHANGED <<now, rate, x4xx, reqs, passed, total4xx>>

\* logging: a response is counted if a 4xx limit applies and it is one.
Counted(s) == Or(req[s].limit, Global.x4xx) # {} /\ req[s].code \in 400..499

Skip(s) ==
    /\ req[s].pc = "log" /\ ~Counted(s)
    /\ req' = [req EXCEPT ![s] = Idle]
    /\ UNCHANGED <<now, rate, x4xx, reqs, passed, total4xx>>

Get(s) ==
    /\ req[s].pc = "log" /\ Counted(s)
    /\ req' = [req EXCEPT ![s] = [@ EXCEPT !.pc = "insert", !.seen = Count4xx(req[s].ip)]]
    /\ UNCHANGED <<now, rate, x4xx, reqs, passed, total4xx>>

\* Mutant: the response is counted twice.
PutTwice(s) ==
    /\ req[s].pc = "insert"
    /\ x4xx' = [x4xx EXCEPT ![req[s].ip] =
                  [count |-> req[s].seen + 2, until |-> now + TTL]]
    /\ total4xx' = [total4xx EXCEPT ![req[s].ip] = @ + 1]
    /\ req' = [req EXCEPT ![s] = Idle]
    /\ UNCHANGED <<now, rate, reqs, passed>>

\* The entry lives for another second.
Put(s) ==
    /\ req[s].pc = "insert"
    /\ x4xx' = [x4xx EXCEPT ![req[s].ip] =
                  [count |-> req[s].seen + 1, until |-> now + TTL]]
    /\ total4xx' = [total4xx EXCEPT ![req[s].ip] = @ + 1]
    /\ req' = [req EXCEPT ![s] = Idle]
    /\ UNCHANGED <<now, rate, reqs, passed>>

\* Half a second passes; every second one begins an interval of the rate.
Tick ==
    /\ now < MaxTime
    /\ now' = now + 1
    /\ IF now' % 2 = 0
       THEN /\ rate' = [c \in Clients |-> 0]
            /\ passed' = [c \in Clients |-> [n \in Limits |-> 0]]
       ELSE UNCHANGED <<rate, passed>>
    /\ UNCHANGED <<req, x4xx, reqs, total4xx>>

Init ==
    /\ now = 0 /\ reqs = 0
    /\ req = [s \in Slots |-> Idle]
    /\ rate = [c \in Clients |-> 0]
    /\ x4xx = [c \in Clients |-> [count |-> 0, until |-> 0]]
    /\ passed = [c \in Clients |-> [n \in Limits |-> 0]]
    /\ total4xx = [c \in Clients |-> 0]

Next ==
    \/ \E s \in Slots :
          \/ \E c \in Clients, r \in Routes : Arrive(s, c, r)
          \/ Auth(s) \/ Check4xx(s) \/ CheckRate(s) \/ Forward(s)
          \/ Skip(s) \/ Get(s) \/ Put(s)
    \/ Tick

Spec == Init /\ [][Next]_vars

-----------------------------------------------------------------------------
Codes == {0, 200, 301, 401, 404, 429, 502}

\* Every variable has its type; the shared counters never exceed the number
\* of requests, and no request is under way beyond those that arrived.
TypeOK ==
    /\ now \in 0..MaxTime /\ reqs \in 0..MaxReqs
    /\ req \in [Slots -> {Idle} \cup
                 [pc : {"auth", "x4xx", "rate", "forward", "log", "insert"},
                  ip : Clients, route : Routes, limit : {{}} \cup {r.x4xx : r \in Routes},
                  code : Codes, seen : 0..MaxReqs]]
    /\ rate \in [Clients -> 0..MaxReqs]
    /\ x4xx \in [Clients -> [count : 0..MaxReqs, until : 0..(MaxTime + TTL)]]
    /\ passed \in [Clients -> [Limits -> 0..MaxReqs]]
    /\ total4xx \in [Clients -> 0..MaxReqs]

\* The rate limit holds whatever the mix of hosts, paths and limits and
\* however the requests of a client interleave: in one interval no more than
\* n requests of a client pass under limits of n or less, on all the hosts
\* together, and none if n is negative (CheckRate, which counts every limited
\* route in one counter per client).  That is more than the limit "per
\* requester ip plus requested virtualhost" of README.md:249: also a client
\* that is within it on every host is refused.
RateBound == \A c \in Clients, n \in Limits : passed[c][n] <= n \/ passed[c][n] = 0

\* The 4xx limit refuses only a client that was answered with more 4xx
\* responses than the limit allows, on whatever hosts, and whose count is less
\* than a second old, even when a count is read before an entry expires and
\* written back after it, or two requests read the same count (Check4xx; the
\* get and insert of logging).  README.md:244-245 has the responses of one
\* second and one virtual host refuse a client: of that nothing holds, since
\* every counted response keeps the count for another second.
RefusedForCause ==
    [][\A s \in Slots :
          req[s].pc = "x4xx" /\ req'[s].code = 429 =>
             /\ now < x4xx[req[s].ip].until
             /\ \E n \in Or(req[s].route.x4xx, Global.x4xx) : total4xx[req[s].ip] > n]_vars
=============================================================================
