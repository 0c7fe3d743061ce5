--------------------------- MODULE LimiterProofs ----------------------------
(***************************************************************************)
(* For every set of clients, routes and limits, and any number of requests *)
(* under way: the rate limit bounds what passes (RateBound), and the 4xx   *)
(* limit refuses nobody without cause (RefusedForCause).                   *)
(*                                                                         *)
(* RateBound is not inductive: that n + 1 requests cannot pass under n     *)
(* needs passed[c][n] <= rate[c], since CheckRate compares the counter and *)
(* not the history.  RefusedForCause needs that neither the cached count   *)
(* nor a count some request read earlier exceeds the 4xx responses counted *)
(* so far.  That the counters stay within the number of requests (TypeOK)  *)
(* is about what each request can still add: one to the rate until it has  *)
(* passed CheckRate, one 4xx response until it is over (BoundInv).         *)
(***************************************************************************)
EXTENDS Limiter, FiniteSetTheorems, TLAPS

Pcs == {"auth", "x4xx", "rate", "forward", "log", "insert"}

Own4xx == {{}} \cup {r.x4xx : r \in Routes}

Request == [pc : Pcs, ip : Clients, route : Routes, limit : Own4xx, code : Codes, seen : Nat]

TypeInv ==
    /\ now \in Nat
    /\ req \in [Slots -> {Idle} \cup Request]
    /\ rate \in [Clients -> Nat]
    /\ x4xx \in [Clients -> [count : Nat, until : Nat]]
    /\ passed \in [Clients -> [Limits -> Nat]]
    /\ total4xx \in [Clients -> Nat]

RateInv ==
    \A c \in Clients, n \in Limits :
        (passed[c][n] <= n \/ passed[c][n] = 0) /\ passed[c][n] <= rate[c]

CountInv ==
    /\ \A c \in Clients : x4xx[c].count <= total4xx[c]
    /\ \A s \in Slots : req[s].pc = "insert" => req[s].seen <= total4xx[req[s].ip]
    /\ \A s \in Slots : req[s].pc \in {"auth", "x4xx"} => req[s].code = 0

LimiterInv == TypeInv /\ RateInv /\ CountInv

\* The limits of the routes, and the limit a route has, are integers.
LEMMA LimitsAreInt == Limits \subseteq Int /\ \A r \in Routes : RateLimit(r) \subseteq Limits
BY RoutesAssumption, GlobalAssumption DEF Limits, RateLimit, Or, IsLimit

\* A request under way is a record of type Request.
LEMMA UnderWay ==
    ASSUME TypeInv, NEW s \in Slots, req[s].pc # "idle"
    PROVE  req[s] \in Request
BY DEF TypeInv, Idle

\* What a client's cached count can be read as.
LEMMA CountIsNat ==
    ASSUME TypeInv, CountInv, NEW c \in Clients
    PROVE  Count4xx(c) \in Nat /\ Count4xx(c) <= total4xx[c]
BY DEF TypeInv, CountInv, Count4xx

\* The invariant holds at start, when nothing has been counted.
LEMMA InitHolds == Init => LimiterInv
<1> SUFFICES ASSUME Init PROVE LimiterInv
  OBVIOUS
<1>1. TypeInv
  BY DEF Init, TypeInv
<1>2. RateInv
  BY LimitsAreInt DEF Init, RateInv
<1>3. CountInv
  BY DEF Init, CountInv, Idle
<1> QED
  BY <1>1, <1>2, <1>3 DEF LimiterInv

\* One request, in slot s, changes to r; the counters of 4xx stay.
LEMMA ReqStep ==
    ASSUME LimiterInv, NEW s \in Slots, NEW r \in {Idle} \cup Request,
           req' = [req EXCEPT ![s] = r],
           UNCHANGED <<x4xx, total4xx>>,
           r.pc = "insert" => r.seen <= total4xx[r.ip],
           r.pc \in {"auth", "x4xx"} => r.code = 0
    PROVE  CountInv' /\ req' \in [Slots -> {Idle} \cup Request]
<1>1. req' \in [Slots -> {Idle} \cup Request]
  BY DEF LimiterInv, TypeInv
<1>2. \A t \in Slots : req'[t] = IF t = s THEN r ELSE req[t]
  BY DEF LimiterInv, TypeInv
<1> QED
  BY <1>1, <1>2 DEF LimiterInv, CountInv

\* Every step keeps the invariant.
LEMMA StepHolds == LimiterInv /\ [Next]_vars => LimiterInv'
<1> SUFFICES ASSUME LimiterInv, [Next]_vars PROVE LimiterInv'
  OBVIOUS
<1> USE DEF LimiterInv
<1>1. ASSUME NEW s \in Slots, NEW c \in Clients, NEW r \in Routes, Arrive(s, c, r)
      PROVE  LimiterInv'
  <2> DEFINE new == [pc |-> "auth", ip |-> c, route |-> r, limit |-> {}, code |-> 0, seen |-> 0]
  <2>1. new \in Request
    BY <1>1 DEF Request, Pcs, Codes, Own4xx
  <2>2. CountInv' /\ req' \in [Slots -> {Idle} \cup Request]
    BY <1>1, <2>1, ReqStep DEF Arrive
  <2> QED
    BY <1>1, <2>2 DEF Arrive, TypeInv, RateInv
<1>2. ASSUME NEW s \in Slots, Auth(s)
      PROVE  LimiterInv'
  <2>1. req[s] \in Request
    BY <1>2, UnderWay DEF Auth
  <2>2. CASE Step(s, "x4xx")
    <3>1. req' = [req EXCEPT ![s] = [req[s] EXCEPT !.pc = "x4xx"]]
      BY <2>2 DEF Step
    <3>2. req[s].code = 0
      BY <1>2 DEF Auth, CountInv
    <3> QED
      BY <1>2, <2>1, <3>1, <3>2, ReqStep DEF Auth, Request, Pcs, TypeInv, RateInv
  <2>3. CASE Answer(s, 401)
    <3> DEFINE new == [req[s] EXCEPT !.pc = "log", !.code = 401]
    <3>1. "log" \in Pcs /\ 401 \in Codes
      BY DEF Pcs, Codes
    <3>2. new \in Request /\ new.pc = "log"
      BY <2>1, <3>1, ZenonT(60) DEF Request
    <3>3. req' = [req EXCEPT ![s] = new]
      BY <2>3 DEF Answer
    <3>4. CountInv' /\ req' \in [Slots -> {Idle} \cup Request]
      BY <1>2, <3>2, <3>3, ReqStep, ZenonT(60) DEF Auth
    <3> QED
      BY <1>2, <3>4 DEF Auth, TypeInv, RateInv
  <2> QED
    BY <1>2, <2>2, <2>3 DEF Auth
<1>3. ASSUME NEW s \in Slots, Check4xx(s)
      PROVE  LimiterInv'
  <2>1. req[s] \in Request
    BY <1>3, UnderWay DEF Check4xx
  <2> DEFINE limit == Or(req[s].route.x4xx, Global.x4xx)
             over == Over4xx(req[s].ip, limit)
             l == IF limit # {} THEN req[s].route.x4xx ELSE {}
             pc == IF over THEN "log" ELSE "rate"
             code == IF over THEN 429 ELSE 0
             new == [req[s] EXCEPT !.limit = l, !.pc = pc, !.code = code]
  <2>2. req' = [req EXCEPT ![s] = new]
    BY <1>3 DEF Check4xx
  <2>3. l \in Own4xx /\ pc \in Pcs /\ code \in Codes /\ pc \in {"log", "rate"}
    <3>1. req[s].route \in Routes
      BY <2>1 DEF Request
    <3> QED
      BY <3>1 DEF Own4xx, Pcs, Codes
  <2>4. new \in Request /\ new.pc \in {"log", "rate"}
    <3> HIDE DEF l, pc, code
    <3> QED
      BY <2>1, <2>3 DEF Request
  <2>5. CountInv' /\ req' \in [Slots -> {Idle} \cup Request]
    <3>1. new.pc # "insert" /\ new.pc \notin {"auth", "x4xx"}
      BY <2>4
    <3> HIDE DEF new
    <3> QED
      BY <1>3, <2>2, <2>4, <3>1, ReqStep DEF Check4xx
  <2> QED
    BY <1>3, <2>5 DEF Check4xx, TypeInv, RateInv
<1>4. ASSUME NEW s \in Slots, CheckRate(s)
      PROVE  LimiterInv'
  <2> DEFINE r == req[s]
             limit == RateLimit(r.route)
             n == rate[r.ip] + 1
  <2>1. r \in Request
    BY <1>4, UnderWay DEF CheckRate
  <2>2. /\ r.ip \in Clients /\ limit \subseteq Limits /\ limit \subseteq Int
        /\ rate[r.ip] \in Nat /\ n \in Nat
    <3>1. r.ip \in Clients /\ r.route \in Routes
      BY <2>1 DEF Request
    <3>2. limit \subseteq Limits /\ limit \subseteq Int
      BY <3>1, LimitsAreInt
    <3> QED
      BY <3>1, <3>2 DEF TypeInv
  <2>3. rate' = IF limit # {} THEN [rate EXCEPT ![r.ip] = n] ELSE rate
    BY <1>4 DEF CheckRate
  <2>4. rate' \in [Clients -> Nat] /\ \A c \in Clients : rate[c] <= rate'[c]
    BY <2>2, <2>3 DEF TypeInv
  <2>5. CASE OverRate(n, limit)
    <3> DEFINE new == [r EXCEPT !.pc = "log", !.code = 429]
    <3>1. new \in Request /\ new.pc = "log"
      <4>1. "log" \in Pcs /\ 429 \in Codes
        BY DEF Pcs, Codes
      <4> QED
        BY <2>1, <4>1, ZenonT(60) DEF Request
    <3>2. req' = [req EXCEPT ![s] = new] /\ passed' = passed
      BY <1>4, <2>5 DEF CheckRate, Answer
    <3>3. CountInv' /\ req' \in [Slots -> {Idle} \cup Request]
      BY <1>4, <3>1, <3>2, ReqStep, ZenonT(60) DEF CheckRate
    <3>4. TypeInv'
      BY <1>4, <2>4, <3>2, <3>3 DEF CheckRate, TypeInv
    <3>5. RateInv'
      BY <2>4, <3>2, LimitsAreInt DEF TypeInv, RateInv
    <3> QED
      BY <3>3, <3>4, <3>5
  <2>6. CASE ~OverRate(n, limit)
    <3> DEFINE new == [r EXCEPT !.pc = "forward"]
               more == [m \in Limits |->
                          IF \E k \in limit : k <= m THEN passed[r.ip][m] + 1 ELSE passed[r.ip][m]]
    <3>1. new \in Request /\ new.pc = "forward"
      BY <2>1 DEF Request, Pcs
    <3>2. req' = [req EXCEPT ![s] = new] /\ passed' = [passed EXCEPT ![r.ip] = more]
      BY <1>4, <2>6 DEF CheckRate, Step
    <3>3. CountInv' /\ req' \in [Slots -> {Idle} \cup Request]
      BY <1>4, <3>1, <3>2, ReqStep DEF CheckRate
    <3>4. more \in [Limits -> Nat]
      BY <2>2 DEF TypeInv
    <3>5. passed' \in [Clients -> [Limits -> Nat]]
      BY <3>2, <3>4 DEF TypeInv
    <3>6. \A m \in Limits : (more[m] <= m \/ more[m] = 0) /\ more[m] <= rate'[r.ip]
      <4> SUFFICES ASSUME NEW m \in Limits
                   PROVE  (more[m] <= m \/ more[m] = 0) /\ more[m] <= rate'[r.ip]
        OBVIOUS
      <4>1. /\ m \in Int /\ passed[r.ip][m] \in Nat
            /\ passed[r.ip][m] <= m \/ passed[r.ip][m] = 0
            /\ passed[r.ip][m] <= rate[r.ip]
        BY <2>2, LimitsAreInt DEF TypeInv, RateInv
      <4>2. CASE \E k \in limit : k <= m
        <5>1. PICK k \in limit : k <= m
          BY <4>2
        <5>2. n <= k
          BY <2>2, <2>6 DEF OverRate
        <5>3. rate'[r.ip] = n
          BY <2>2, <2>3, <5>1 DEF TypeInv
        <5>4. more[m] = passed[r.ip][m] + 1
          BY <4>2
        <5>5. k \in Int
          BY <2>2
        <5> HIDE DEF more, limit
        <5> QED
          BY <2>2, <4>1, <5>1, <5>2, <5>3, <5>4, <5>5
      <4>3. CASE ~\E k \in limit : k <= m
        <5>1. more[m] = passed[r.ip][m]
          BY <4>3
        <5>2. rate[r.ip] <= rate'[r.ip] /\ rate'[r.ip] \in Nat
          BY <2>2, <2>4
        <5> HIDE DEF more, limit
        <5> QED
          BY <2>2, <4>1, <5>1, <5>2
      <4> QED
        BY <4>2, <4>3
    <3>7. RateInv'
      <4> SUFFICES ASSUME NEW c \in Clients, NEW m \in Limits
                   PROVE  (passed'[c][m] <= m \/ passed'[c][m] = 0) /\ passed'[c][m] <= rate'[c]
        BY DEF RateInv
      <4>1. CASE c = r.ip
        BY <2>2, <3>2, <3>6, <4>1 DEF TypeInv
      <4>2. CASE c # r.ip
        <5>1. passed'[c] = passed[c]
          BY <3>2, <4>2 DEF TypeInv
        <5>2. passed[c][m] \in Nat /\ rate[c] \in Nat /\ rate'[c] \in Nat /\ m \in Int
          BY <2>4, LimitsAreInt DEF TypeInv
        <5> QED
          BY <2>4, <5>1, <5>2 DEF RateInv
      <4> QED
        BY <4>1, <4>2
    <3>8. TypeInv'
      BY <1>4, <2>4, <3>3, <3>5 DEF CheckRate, TypeInv
    <3> QED
      BY <3>3, <3>7, <3>8
  <2> QED
    BY <2>5, <2>6
<1>5. ASSUME NEW s \in Slots, Forward(s)
      PROVE  LimiterInv'
  <2>1. req[s] \in Request
    BY <1>5, UnderWay DEF Forward
  <2>2. PICK code \in {301, 200, 404, 502} :
           req' = [req EXCEPT ![s] = [req[s] EXCEPT !.pc = "log", !.code = code]]
    BY <1>5 DEF Forward, Answer
  <2> DEFINE new == [req[s] EXCEPT !.pc = "log", !.code = code]
  <2>3. new \in Request /\ new.pc = "log"
    <3>1. "log" \in Pcs /\ code \in Codes
      BY DEF Pcs, Codes
    <3> QED
      BY <2>1, <3>1 DEF Request
  <2>4. CountInv' /\ req' \in [Slots -> {Idle} \cup Request]
    BY <1>5, <2>2, <2>3, ReqStep, ZenonT(60) DEF Forward
  <2> QED
    BY <1>5, <2>4 DEF Forward, TypeInv, RateInv
<1>6. ASSUME NEW s \in Slots, Skip(s)
      PROVE  LimiterInv'
  <2>1. CountInv' /\ req' \in [Slots -> {Idle} \cup Request]
    BY <1>6, ReqStep DEF Skip, Idle
  <2> QED
    BY <1>6, <2>1 DEF Skip, TypeInv, RateInv
<1>7. ASSUME NEW s \in Slots, Get(s)
      PROVE  LimiterInv'
  <2>1. req[s] \in Request
    BY <1>7, UnderWay DEF Get
  <2> DEFINE new == [req[s] EXCEPT !.pc = "insert", !.seen = Count4xx(req[s].ip)]
  <2>2. /\ Count4xx(req[s].ip) \in Nat
        /\ Count4xx(req[s].ip) <= total4xx[req[s].ip]
    BY <2>1, CountIsNat DEF Request
  <2>3. /\ new \in Request /\ new.pc = "insert"
        /\ new.seen = Count4xx(req[s].ip) /\ new.ip = req[s].ip
    BY <2>1, <2>2 DEF Request, Pcs
  <2>4. req' = [req EXCEPT ![s] = new]
    BY <1>7 DEF Get
  <2>5. CountInv' /\ req' \in [Slots -> {Idle} \cup Request]
    BY <1>7, <2>2, <2>3, <2>4, ReqStep DEF Get
  <2> QED
    BY <1>7, <2>5 DEF Get, TypeInv, RateInv
<1>8. ASSUME NEW s \in Slots, Put(s)
      PROVE  LimiterInv'
  <2> DEFINE c == req[s].ip
             put == [count |-> req[s].seen + 1, until |-> now + TTL]
  <2>1. req[s] \in Request /\ req[s].seen <= total4xx[c]
    BY <1>8, UnderWay DEF Put, CountInv
  <2>2. c \in Clients /\ req[s].seen \in Nat /\ total4xx[c] \in Nat
    BY <2>1 DEF Request, TypeInv
  <2>3. put \in [count : Nat, until : Nat] /\ put.count <= total4xx[c] + 1
    BY <2>1, <2>2 DEF TypeInv, TTL
  <2>4. /\ x4xx' = [x4xx EXCEPT ![c] = put]
        /\ total4xx' = [total4xx EXCEPT ![c] = @ + 1]
        /\ req' = [req EXCEPT ![s] = Idle]
        /\ UNCHANGED <<now, rate, passed>>
    BY <1>8 DEF Put
  <2>5. TypeInv'
    BY <2>2, <2>3, <2>4 DEF TypeInv
  <2>6. \A d \in Clients : total4xx[d] <= total4xx'[d] /\ total4xx[d] \in Nat /\ total4xx'[d] \in Nat
    BY <2>2, <2>4 DEF TypeInv
  <2>7. \A d \in Clients : x4xx'[d].count <= total4xx'[d]
    <3> SUFFICES ASSUME NEW d \in Clients PROVE x4xx'[d].count <= total4xx'[d]
      OBVIOUS
    <3>1. CASE d = c
      BY <2>2, <2>3, <2>4, <3>1 DEF TypeInv
    <3>2. CASE d # c
      BY <2>4, <3>2 DEF TypeInv, CountInv
    <3> QED
      BY <3>1, <3>2
  <2>8. ASSUME NEW t \in Slots
        PROVE  /\ req'[t].pc = "insert" => req'[t].seen <= total4xx'[req'[t].ip]
               /\ req'[t].pc \in {"auth", "x4xx"} => req'[t].code = 0
    <3>1. CASE t = s
      BY <2>4, <3>1 DEF TypeInv, Idle
    <3>2. CASE t # s
      <4>1. req'[t] = req[t]
        BY <2>4, <3>2 DEF TypeInv
      <4>2. req[t].pc = "insert" => req[t] \in Request
        BY UnderWay
      <4> QED
        BY <2>6, <4>1, <4>2 DEF CountInv, Request
    <3> QED
      BY <3>1, <3>2
  <2>9. CountInv'
    BY <2>7, <2>8 DEF CountInv
  <2>10. RateInv'
    BY <2>4 DEF RateInv
  <2> QED
    BY <2>5, <2>9, <2>10
<1>9. CASE Tick
  <2>1. UNCHANGED <<req, x4xx, total4xx>> /\ now' \in Nat
    BY <1>9 DEF Tick, TypeInv
  <2>2. CountInv'
    BY <2>1 DEF CountInv
  <2>3. CASE UNCHANGED <<rate, passed>>
    BY <2>1, <2>2, <2>3 DEF TypeInv, RateInv
  <2>4. CASE /\ rate' = [c \in Clients |-> 0]
             /\ passed' = [c \in Clients |-> [n \in Limits |-> 0]]
    <3>1. TypeInv'
      BY <2>1, <2>4 DEF TypeInv
    <3>2. ASSUME NEW c \in Clients, NEW n \in Limits
          PROVE  passed'[c][n] = 0 /\ rate'[c] = 0
      BY <2>4, LimitsAreInt
    <3>3. RateInv'
      BY <3>2, LimitsAreInt DEF RateInv
    <3> QED
      BY <2>2, <3>1, <3>3
  <2> QED
    BY <1>9, <2>3, <2>4 DEF Tick
<1>10. CASE UNCHANGED vars
  BY <1>10 DEF vars, TypeInv, RateInv, CountInv, Count4xx
<1> QED
  BY <1>1, <1>2, <1>3, <1>4, <1>5, <1>6, <1>7, <1>8, <1>9, <1>10 DEF Next

\* The invariant holds throughout.
LEMMA InvHolds == Spec => []LimiterInv
BY InitHolds, StepHolds, PTL DEF Spec

\* In one interval no more than n requests of a client pass under limits of n
\* or less on all hosts together, and none under a negative limit, for any
\* routes, limits, clients and concurrent requests.
THEOREM RateIsBounded == Spec => []RateBound
<1>1. LimiterInv => RateBound
  BY DEF LimiterInv, RateInv, RateBound
<1> QED
  BY InvHolds, <1>1, PTL

\* A refusal by the 4xx limit has its cause: more 4xx responses than allowed, on
\* whatever hosts, in a count less than a second old,
\* however the reads and writes of the shared count interleave and expire.
THEOREM RefusalHasCause == Spec => RefusedForCause
<1> DEFINE Caused == \A s \in Slots :
              req[s].pc = "x4xx" /\ req'[s].code = 429 =>
                 /\ now < x4xx[req[s].ip].until
                 /\ \E n \in Or(req[s].route.x4xx, Global.x4xx) : total4xx[req[s].ip] > n
<1>1. LimiterInv /\ [Next]_vars => [Caused]_vars
  <2> SUFFICES ASSUME LimiterInv, Next, NEW s \in Slots,
                      req[s].pc = "x4xx", req'[s].code = 429
               PROVE  /\ now < x4xx[req[s].ip].until
                      /\ \E n \in Or(req[s].route.x4xx, Global.x4xx) : total4xx[req[s].ip] > n
    OBVIOUS
  <2> USE DEF LimiterInv
  <2>1. req[s] \in Request /\ req[s].code = 0
    BY UnderWay DEF CountInv
  <2>2. req'[s] # req[s]
    BY <2>1
  <2>3. ASSUME NEW t \in Slots, NEW r, req' = [req EXCEPT ![t] = r]
        PROVE  t = s
    BY <2>2, <2>3 DEF TypeInv
  <2>4. Check4xx(s) \/ Auth(s)
    <3>1. ASSUME NEW t \in Slots,
                 \/ \E c \in Clients, r \in Routes : Arrive(t, c, r)
                 \/ Check4xx(t) \/ CheckRate(t) \/ Forward(t) \/ Auth(t)
                 \/ Skip(t) \/ Get(t) \/ Put(t)
          PROVE  t = s
      BY <2>2, <3>1 DEF TypeInv, Arrive, Auth, Check4xx, CheckRate, Forward, Skip, Get, Put,
                        Step, Answer
    <3>2. ~Tick
      BY <2>2 DEF Tick
    <3>3. /\ ~\E c \in Clients, r \in Routes : Arrive(s, c, r)
          /\ ~CheckRate(s) /\ ~Forward(s) /\ ~Skip(s) /\ ~Get(s) /\ ~Put(s)
      BY DEF Arrive, CheckRate, Forward, Skip, Get, Put
    <3> QED
      BY <3>1, <3>2, <3>3 DEF Next
  <2>5. ~Auth(s)
    BY DEF Auth
  <2>6. Over4xx(req[s].ip, Or(req[s].route.x4xx, Global.x4xx))
    <3> DEFINE limit == Or(req[s].route.x4xx, Global.x4xx)
               over == Over4xx(req[s].ip, limit)
               l == IF limit # {} THEN req[s].route.x4xx ELSE {}
               pc == IF over THEN "log" ELSE "rate"
    <3>1. req'[s] = [req[s] EXCEPT !.limit = l, !.pc = pc, !.code = IF over THEN 429 ELSE 0]
      BY <2>4, <2>5 DEF Check4xx, TypeInv
    <3>2. CASE ~over
      <4>1. req'[s].code = 0
        BY <2>1, <3>1, <3>2 DEF Request
      <4> QED
        BY <4>1
    <3> QED
      BY <3>2
  <2>7. PICK n \in Or(req[s].route.x4xx, Global.x4xx) : Count4xx(req[s].ip) > n
    BY <2>6 DEF Over4xx
  <2>8. n \in Nat
    BY <2>1, RoutesAssumption, GlobalAssumption DEF Request, Or, IsLimit
  <2>9. /\ Count4xx(req[s].ip) \in Nat /\ total4xx[req[s].ip] \in Nat
        /\ Count4xx(req[s].ip) <= total4xx[req[s].ip]
    BY <2>1, CountIsNat DEF Request, TypeInv
  <2>10. now < x4xx[req[s].ip].until
    BY <2>7, <2>8 DEF Count4xx
  <2> QED
    BY <2>7, <2>8, <2>9, <2>10
<1> QED
  BY InvHolds, <1>1, PTL DEF Spec, RefusedForCause

-----------------------------------------------------------------------------
(* The bounds of the counters *)

\* The requests under way, and those whose rate is still to be checked.
Active == {s \in Slots : req[s].pc # "idle"}
FreshPcs == {"auth", "x4xx", "rate"}
Fresh == {s \in Slots : req[s].pc \in FreshPcs}

BoundInv ==
    /\ now \in 0..MaxTime /\ reqs \in 0..MaxReqs
    /\ IsFiniteSet(Active) /\ IsFiniteSet(Fresh)
    /\ \A c \in Clients : /\ total4xx[c] + Cardinality(Active) <= reqs
                          /\ rate[c] + Cardinality(Fresh) <= reqs
                          /\ x4xx[c].until <= MaxTime + TTL
    /\ \A s \in Active : req[s].pc # "insert" => req[s].seen = 0

\* At start nothing is under way.
LEMMA BoundInit == Init => BoundInv
<1> SUFFICES ASSUME Init PROVE BoundInv
  OBVIOUS
<1>1. Active = {} /\ Fresh = {}
  BY DEF Init, Active, Fresh, FreshPcs, Idle
<1>2. IsFiniteSet({}) /\ Cardinality({}) = 0
  BY FS_EmptySet
<1> QED
  BY <1>1, <1>2, BoundsAssumption DEF Init, BoundInv, TTL

\* How many are under way, and fresh, after the request in slot s became r.
LEMMA Moved ==
    ASSUME TypeInv, IsFiniteSet(Active), IsFiniteSet(Fresh),
           NEW s \in Slots, NEW r, req' = [req EXCEPT ![s] = r]
    PROVE  /\ IsFiniteSet(Active') /\ IsFiniteSet(Fresh')
           /\ Cardinality(Active) \in Nat /\ Cardinality(Fresh) \in Nat
           /\ Cardinality(Active') = Cardinality(Active)
                 + (IF r.pc # "idle" THEN 1 ELSE 0) - (IF s \in Active THEN 1 ELSE 0)
           /\ Cardinality(Fresh') = Cardinality(Fresh)
                 + (IF r.pc \in FreshPcs THEN 1 ELSE 0) - (IF s \in Fresh THEN 1 ELSE 0)
<1>0. \A t \in Slots : req'[t] = IF t = s THEN r ELSE req[t]
  BY DEF TypeInv
<1>1. ASSUME NEW S, NEW T, IsFiniteSet(S), NEW b \in BOOLEAN,
             T = IF b THEN S \cup {s} ELSE S \ {s}
      PROVE  /\ IsFiniteSet(T) /\ Cardinality(S) \in Nat
             /\ Cardinality(T) = Cardinality(S) + (IF b THEN 1 ELSE 0)
                                                - (IF s \in S THEN 1 ELSE 0)
  <2>1. Cardinality(S) \in Nat
    BY <1>1, FS_CardinalityType
  <2>2. CASE b
    <3>1. T = S \cup {s}
      BY <1>1, <2>2
    <3>2. IsFiniteSet(T) /\ Cardinality(T) = IF s \in S THEN Cardinality(S) ELSE Cardinality(S) + 1
      BY <1>1, <3>1, FS_AddElement
    <3> QED
      BY <2>1, <2>2, <3>2
  <2>3. CASE ~b
    <3>1. T = S \ {s}
      BY <1>1, <2>3
    <3>2. IsFiniteSet(T) /\ Cardinality(T) = IF s \in S THEN Cardinality(S) - 1 ELSE Cardinality(S)
      <4>1. /\ IsFiniteSet(S \ {s})
            /\ Cardinality(S \ {s}) = IF s \in S THEN Cardinality(S) - 1 ELSE Cardinality(S)
        BY <1>1, FS_RemoveElement, Zenon
      <4> QED
        BY <3>1, <4>1, Zenon
    <3> QED
      BY <2>1, <2>3, <3>2
  <2> QED
    BY <2>2, <2>3
<1>2. Active' = IF r.pc # "idle" THEN Active \cup {s} ELSE Active \ {s}
  BY <1>0 DEF Active
<1>3. Fresh' = IF r.pc \in FreshPcs THEN Fresh \cup {s} ELSE Fresh \ {s}
  BY <1>0 DEF Fresh
<1>4. (r.pc # "idle") \in BOOLEAN /\ (r.pc \in FreshPcs) \in BOOLEAN
  OBVIOUS
<1>5. /\ IsFiniteSet(Active') /\ Cardinality(Active) \in Nat
      /\ Cardinality(Active') = Cardinality(Active)
            + (IF r.pc # "idle" THEN 1 ELSE 0) - (IF s \in Active THEN 1 ELSE 0)
  BY <1>1, <1>2, <1>4
<1>6. /\ IsFiniteSet(Fresh') /\ Cardinality(Fresh) \in Nat
      /\ Cardinality(Fresh') = Cardinality(Fresh)
            + (IF r.pc \in FreshPcs THEN 1 ELSE 0) - (IF s \in Fresh THEN 1 ELSE 0)
  BY <1>1, <1>3, <1>4
<1> QED
  BY <1>5, <1>6

\* The request in slot s, which is under way, goes on as r without a change of
\* the counters.
LEMMA GoesOn ==
    ASSUME LimiterInv, BoundInv, NEW s \in Active, NEW r, req' = [req EXCEPT ![s] = r],
           UNCHANGED <<now, reqs, rate, x4xx, total4xx>>,
           r.pc \in FreshPcs => s \in Fresh,
           r.pc \notin {"insert", "idle"} => r.seen = 0
    PROVE  BoundInv'
<1>0. s \in Slots /\ TypeInv /\ IsFiniteSet(Active) /\ IsFiniteSet(Fresh)
  BY DEF Active, LimiterInv, BoundInv
<1>1. /\ IsFiniteSet(Active') /\ IsFiniteSet(Fresh')
      /\ Cardinality(Active) \in Nat /\ Cardinality(Fresh) \in Nat
      /\ Cardinality(Active') \in Nat /\ Cardinality(Fresh') \in Nat
      /\ Cardinality(Active') <= Cardinality(Active) /\ Cardinality(Fresh') <= Cardinality(Fresh)
  <2>1. /\ IsFiniteSet(Active') /\ IsFiniteSet(Fresh')
        /\ Cardinality(Active) \in Nat /\ Cardinality(Fresh) \in Nat
        /\ Cardinality(Active') = Cardinality(Active)
              + (IF r.pc # "idle" THEN 1 ELSE 0) - (IF s \in Active THEN 1 ELSE 0)
        /\ Cardinality(Fresh') = Cardinality(Fresh)
              + (IF r.pc \in FreshPcs THEN 1 ELSE 0) - (IF s \in Fresh THEN 1 ELSE 0)
    BY <1>0, Moved
  <2>2. Cardinality(Active') \in Nat /\ Cardinality(Fresh') \in Nat
    BY <2>1, FS_CardinalityType
  <2> QED
    BY <2>1, <2>2
<1>2. \A c \in Clients : total4xx[c] \in Nat /\ rate[c] \in Nat
  BY DEF LimiterInv, TypeInv
<1>3. \A t \in Active' : req'[t].pc # "insert" => req'[t].seen = 0
  BY <1>0 DEF Active, BoundInv, TypeInv
<1> QED
  BY <1>1, <1>2, <1>3, BoundsAssumption DEF BoundInv

\* Every step keeps the bounds.
LEMMA BoundStep == LimiterInv /\ BoundInv /\ [Next]_vars => BoundInv'
<1> SUFFICES ASSUME LimiterInv, BoundInv, [Next]_vars PROVE BoundInv'
  OBVIOUS
<1>0. /\ TypeInv /\ IsFiniteSet(Active) /\ IsFiniteSet(Fresh)
      /\ \A c \in Clients : total4xx[c] \in Nat /\ rate[c] \in Nat /\ x4xx[c].until \in Nat
      /\ MaxReqs \in Nat /\ MaxTime \in Nat /\ reqs \in Nat
  BY BoundsAssumption DEF LimiterInv, TypeInv, BoundInv
<1>1. ASSUME NEW s \in Slots, NEW c \in Clients, NEW q \in Routes, Arrive(s, c, q)
      PROVE  BoundInv'
  <2>0. PICK r : r = [pc |-> "auth", ip |-> c, route |-> q, limit |-> {}, code |-> 0, seen |-> 0]
    OBVIOUS
  <2>1. /\ req' = [req EXCEPT ![s] = r] /\ r.pc = "auth" /\ r.seen = 0
        /\ r.pc # "idle" /\ r.pc \in FreshPcs
        /\ req[s].pc = "idle" /\ reqs < MaxReqs /\ reqs' = reqs + 1
        /\ UNCHANGED <<now, rate, x4xx, total4xx>>
    BY <1>1, <2>0 DEF Arrive, FreshPcs
  <2>2. s \notin Active /\ s \notin Fresh
    BY <2>1 DEF Active, Fresh, FreshPcs
  <2>3. /\ IsFiniteSet(Active') /\ IsFiniteSet(Fresh')
        /\ Cardinality(Active) \in Nat /\ Cardinality(Fresh) \in Nat
        /\ Cardinality(Active') = Cardinality(Active) + 1
        /\ Cardinality(Fresh') = Cardinality(Fresh) + 1
    <3>0. req' = [req EXCEPT ![s] = r]
      BY <2>1
    <3>1. /\ IsFiniteSet(Active') /\ IsFiniteSet(Fresh')
          /\ Cardinality(Active) \in Nat /\ Cardinality(Fresh) \in Nat
          /\ Cardinality(Active') = Cardinality(Active)
                + (IF r.pc # "idle" THEN 1 ELSE 0) - (IF s \in Active THEN 1 ELSE 0)
          /\ Cardinality(Fresh') = Cardinality(Fresh)
                + (IF r.pc \in FreshPcs THEN 1 ELSE 0) - (IF s \in Fresh THEN 1 ELSE 0)
      BY <1>0, <3>0, Moved
    <3> QED
      BY <2>1, <2>2, <3>1
  <2>4. \A t \in Active' : req'[t].pc # "insert" => req'[t].seen = 0
    BY <1>0, <2>1 DEF Active, BoundInv, TypeInv
  <2>5. /\ now' \in 0..MaxTime /\ reqs' \in 0..MaxReqs
        /\ \A d \in Clients : /\ total4xx'[d] + Cardinality(Active') <= reqs'
                              /\ rate'[d] + Cardinality(Fresh') <= reqs'
                              /\ x4xx'[d].until <= MaxTime + TTL
    BY <1>0, <2>1, <2>3 DEF BoundInv
  <2> QED
    BY <2>3, <2>4, <2>5 DEF BoundInv
<1>2. ASSUME NEW s \in Slots, Auth(s) \/ Check4xx(s) \/ Forward(s) \/ Skip(s) \/ Get(s)
      PROVE  BoundInv'
  <2>1. s \in Active /\ req[s] \in Request
    BY <1>0, <1>2, UnderWay DEF Active, Auth, Check4xx, Forward, Skip, Get
  <2>2. req[s].pc # "insert" /\ req[s].seen = 0
    BY <1>2, <2>1 DEF BoundInv, Auth, Check4xx, Forward, Skip, Get
  <2>3. UNCHANGED <<now, reqs, rate, x4xx, total4xx>>
    BY <1>2 DEF Auth, Check4xx, Forward, Skip, Get
  <2>4. req[s].pc \in FreshPcs => s \in Fresh
    BY DEF Fresh
  <2>5. CASE Auth(s)
    <3>1. PICK r : /\ r = [req[s] EXCEPT !.pc = "x4xx"]
                         \/ r = [req[s] EXCEPT !.pc = "log", !.code = 401]
                   /\ req' = [req EXCEPT ![s] = r]
      BY <2>5 DEF Auth, Step, Answer
    <3>2. r.pc \in {"x4xx", "log"} /\ r.seen = 0
      BY <2>1, <2>2, <3>1, ZenonT(60) DEF Request
    <3>3. s \in Fresh
      BY <2>5 DEF Auth, Fresh, FreshPcs
    <3> QED
      BY <2>1, <2>3, <3>1, <3>2, <3>3, GoesOn, ZenonT(60)
  <2>6. CASE Check4xx(s)
    <3> DEFINE limit == Or(req[s].route.x4xx, Global.x4xx)
               over == Over4xx(req[s].ip, limit)
    <3>1. PICK r : r = [req[s] EXCEPT !.limit = IF limit # {} THEN req[s].route.x4xx ELSE {},
                                      !.pc = IF over THEN "log" ELSE "rate",
                                      !.code = IF over THEN 429 ELSE 0]
      BY ZenonT(60)
    <3>2. /\ req' = [req EXCEPT ![s] = r]
          /\ r.pc \in {"rate", "log"} /\ r.seen = 0
      <4>1. req' = [req EXCEPT ![s] = r]
        BY <2>6, <3>1 DEF Check4xx
      <4> HIDE DEF limit, over
      <4>2. r.pc \in {"rate", "log"} /\ r.seen = 0
        BY <2>1, <2>2, <3>1 DEF Request
      <4> QED
        BY <4>1, <4>2
    <3>3. s \in Fresh
      BY <2>6 DEF Check4xx, Fresh, FreshPcs
    <3> QED
      BY <2>1, <2>3, <3>1, <3>2, <3>3, GoesOn, ZenonT(60)
  <2>7. CASE Forward(s)
    <3>1. PICK code, r : /\ r = [req[s] EXCEPT !.pc = "log", !.code = code]
                         /\ req' = [req EXCEPT ![s] = r]
      BY <2>7, ZenonT(60) DEF Forward, Answer
    <3>2. r.pc = "log" /\ r.seen = 0 /\ "log" \notin FreshPcs
      BY <2>1, <2>2, <3>1 DEF Request, FreshPcs
    <3> QED
      BY <2>1, <2>3, <3>1, <3>2, GoesOn
  <2>8. CASE Skip(s)
    <3>1. req' = [req EXCEPT ![s] = Idle] /\ Idle.pc = "idle" /\ "idle" \notin FreshPcs
      BY <2>8 DEF Skip, Idle, FreshPcs
    <3> QED
      BY <2>1, <2>3, <3>1, GoesOn
  <2>9. CASE Get(s)
    <3>1. PICK n, r : /\ r = [req[s] EXCEPT !.pc = "insert", !.seen = n]
                      /\ req' = [req EXCEPT ![s] = r]
      BY <2>9 DEF Get
    <3>2. r.pc = "insert" /\ "insert" \notin FreshPcs
      BY <2>1, <3>1 DEF Request, FreshPcs
    <3> QED
      BY <2>1, <2>3, <3>1, <3>2, GoesOn
  <2> QED
    BY <1>2, <2>5, <2>6, <2>7, <2>8, <2>9
<1>3. ASSUME NEW s \in Slots, CheckRate(s)
      PROVE  BoundInv'
  <2>1. s \in Active /\ req[s] \in Request /\ s \in Fresh /\ req[s].pc = "rate"
    BY <1>0, <1>3, UnderWay DEF Active, Fresh, FreshPcs, CheckRate
  <2>2. req[s].seen = 0
    BY <2>1 DEF BoundInv
  <2>3. PICK r : /\ r = [req[s] EXCEPT !.pc = "log", !.code = 429]
                       \/ r = [req[s] EXCEPT !.pc = "forward"]
                 /\ req' = [req EXCEPT ![s] = r]
    BY <1>3 DEF CheckRate, Answer, Step
  <2>4. r.pc \in {"log", "forward"} /\ r.seen = 0
    BY <2>1, <2>2, <2>3, ZenonT(60) DEF Request
  <2>5. r.pc # "idle" /\ r.pc \notin FreshPcs
    BY <2>4 DEF FreshPcs
  <2>6. /\ IsFiniteSet(Active') /\ IsFiniteSet(Fresh')
        /\ Cardinality(Active) \in Nat /\ Cardinality(Fresh) \in Nat
        /\ Cardinality(Active') = Cardinality(Active)
        /\ Cardinality(Fresh') = Cardinality(Fresh) - 1
    <3>0. req' = [req EXCEPT ![s] = r]
      BY <2>3
    <3>1. /\ IsFiniteSet(Active') /\ IsFiniteSet(Fresh')
          /\ Cardinality(Active) \in Nat /\ Cardinality(Fresh) \in Nat
          /\ Cardinality(Active') = Cardinality(Active)
                + (IF r.pc # "idle" THEN 1 ELSE 0) - (IF s \in Active THEN 1 ELSE 0)
          /\ Cardinality(Fresh') = Cardinality(Fresh)
                + (IF r.pc \in FreshPcs THEN 1 ELSE 0) - (IF s \in Fresh THEN 1 ELSE 0)
      BY <1>0, <3>0, Moved
    <3> QED
      BY <2>1, <2>5, <3>1
  <2>7. \A d \in Clients : rate'[d] \in Nat /\ rate'[d] <= rate[d] + 1
    <3>1. req[s].ip \in Clients
      BY <2>1 DEF Request
    <3>2. \/ rate' = rate
          \/ rate' = [rate EXCEPT ![req[s].ip] = rate[req[s].ip] + 1]
      BY <1>3 DEF CheckRate
    <3> QED
      BY <1>0, <3>1, <3>2 DEF TypeInv
  <2>8. \A t \in Active' : req'[t].pc # "insert" => req'[t].seen = 0
    BY <1>0, <2>3, <2>4 DEF Active, BoundInv, TypeInv
  <2>9. UNCHANGED <<now, reqs, x4xx, total4xx>>
    BY <1>3 DEF CheckRate
  <2>10. \A d \in Clients : /\ total4xx'[d] + Cardinality(Active') <= reqs'
                            /\ rate'[d] + Cardinality(Fresh') <= reqs'
                            /\ x4xx'[d].until <= MaxTime + TTL
    BY <1>0, <2>6, <2>7, <2>9 DEF BoundInv
  <2> QED
    BY <2>6, <2>8, <2>9, <2>10 DEF BoundInv
<1>4. ASSUME NEW s \in Slots, Put(s)
      PROVE  BoundInv'
  <2>1. s \in Active /\ req[s] \in Request /\ s \notin Fresh
    BY <1>0, <1>4, UnderWay DEF Active, Fresh, FreshPcs, Put
  <2>2. /\ req' = [req EXCEPT ![s] = Idle] /\ Idle.pc = "idle" /\ "idle" \notin FreshPcs
        /\ UNCHANGED <<now, reqs, rate>>
    BY <1>4 DEF Put, Idle, FreshPcs
  <2>3. /\ IsFiniteSet(Active') /\ IsFiniteSet(Fresh')
        /\ Cardinality(Active) \in Nat /\ Cardinality(Fresh) \in Nat
        /\ Cardinality(Active') = Cardinality(Active) - 1
        /\ Cardinality(Fresh') = Cardinality(Fresh)
    <3>0. req' = [req EXCEPT ![s] = Idle]
      BY <2>2
    <3>1. /\ IsFiniteSet(Active') /\ IsFiniteSet(Fresh')
          /\ Cardinality(Active) \in Nat /\ Cardinality(Fresh) \in Nat
          /\ Cardinality(Active') = Cardinality(Active)
                + (IF Idle.pc # "idle" THEN 1 ELSE 0) - (IF s \in Active THEN 1 ELSE 0)
          /\ Cardinality(Fresh') = Cardinality(Fresh)
                + (IF Idle.pc \in FreshPcs THEN 1 ELSE 0) - (IF s \in Fresh THEN 1 ELSE 0)
      BY <1>0, <3>0, Moved
    <3> QED
      BY <2>1, <2>2, <3>1
  <2>4. \A d \in Clients :
           /\ total4xx'[d] \in Nat /\ total4xx'[d] <= total4xx[d] + 1
           /\ x4xx'[d].until = x4xx[d].until \/ x4xx'[d].until = now + TTL
    <3>1. req[s].ip \in Clients
      BY <2>1 DEF Request
    <3>2. /\ total4xx' = [total4xx EXCEPT ![req[s].ip] = total4xx[req[s].ip] + 1]
          /\ x4xx' = [x4xx EXCEPT ![req[s].ip] = [count |-> req[s].seen + 1, until |-> now + TTL]]
      BY <1>4 DEF Put
    <3> QED
      BY <1>0, <3>1, <3>2 DEF TypeInv
  <2>5. \A t \in Active' : req'[t].pc # "insert" => req'[t].seen = 0
    BY <1>0, <2>2 DEF Active, BoundInv, TypeInv
  <2>6. now \in Nat /\ now <= MaxTime
    BY <1>0 DEF BoundInv
  <2>7. \A d \in Clients : /\ total4xx'[d] + Cardinality(Active') <= reqs'
                           /\ rate'[d] + Cardinality(Fresh') <= reqs'
                           /\ x4xx'[d].until <= MaxTime + TTL
    BY <1>0, <2>2, <2>3, <2>4, <2>6 DEF BoundInv, TTL
  <2> QED
    BY <2>2, <2>3, <2>5, <2>7 DEF BoundInv
<1>5. CASE Tick
  <2>1. /\ UNCHANGED <<req, reqs, x4xx, total4xx>> /\ now < MaxTime /\ now' = now + 1
        /\ \A c \in Clients : rate'[c] \in Nat /\ rate'[c] <= rate[c]
    BY <1>0, <1>5 DEF Tick
  <2>2. Active' = Active /\ Fresh' = Fresh
    BY <2>1 DEF Active, Fresh
  <2>3. Cardinality(Active) \in Nat /\ Cardinality(Fresh) \in Nat
    BY <1>0, FS_CardinalityType
  <2>4. now' \in 0..MaxTime
    BY <1>0, <2>1 DEF BoundInv
  <2> QED
    BY <1>0, <2>1, <2>2, <2>3, <2>4 DEF BoundInv
<1>6. CASE UNCHANGED vars
  BY <1>6 DEF vars, BoundInv, Active, Fresh
<1> QED
  BY <1>1, <1>2, <1>3, <1>4, <1>5, <1>6 DEF Next

\* Every variable keeps its type: the shared counters of a client, and a count
\* that a request read of them, never exceed the number of requests, however
\* many are under way and whatever they read and write in between.
THEOREM TypeCorrect == Spec => []TypeOK
<1>1. LimiterInv /\ BoundInv => TypeOK
  <2> SUFFICES ASSUME LimiterInv, BoundInv PROVE TypeOK
    OBVIOUS
  <2>1. /\ TypeInv /\ IsFiniteSet(Active) /\ IsFiniteSet(Fresh)
        /\ reqs \in Nat /\ reqs <= MaxReqs /\ MaxReqs \in Nat /\ MaxTime \in Nat
    BY BoundsAssumption DEF LimiterInv, BoundInv
  <2>2. Cardinality(Active) \in Nat /\ Cardinality(Fresh) \in Nat
    BY <2>1, FS_CardinalityType
  <2>3. \A c \in Clients : /\ total4xx[c] \in 0..MaxReqs /\ rate[c] \in 0..MaxReqs
                           /\ x4xx[c].count \in 0..MaxReqs /\ x4xx[c].until \in 0..(MaxTime + TTL)
    BY <2>1, <2>2 DEF BoundInv, TypeInv, LimiterInv, CountInv, TTL
  <2>4. \A c \in Clients, n \in Limits : passed[c][n] \in 0..MaxReqs
    BY <2>1, <2>3 DEF TypeInv, LimiterInv, RateInv
  <2>5. ASSUME NEW s \in Slots, req[s] # Idle
        PROVE  req[s] \in [pc : Pcs, ip : Clients, route : Routes, limit : Own4xx,
                           code : Codes, seen : 0..MaxReqs]
    <3>1. req[s] \in Request
      BY <2>1, <2>5 DEF TypeInv
    <3>2. req[s].seen \in 0..MaxReqs
      <4>1. CASE req[s].pc = "insert"
        BY <2>1, <2>3, <3>1, <4>1 DEF LimiterInv, CountInv, Request
      <4>2. CASE req[s].pc # "insert"
        <5>1. s \in Active
          BY <3>1 DEF Active, Request, Pcs
        <5> QED
          BY <2>1, <4>2, <5>1 DEF BoundInv
      <4> QED
        BY <4>1, <4>2
    <3> QED
      BY <3>1, <3>2 DEF Request
  <2>6. req \in [Slots -> {Idle} \cup [pc : Pcs, ip : Clients, route : Routes, limit : Own4xx,
                                       code : Codes, seen : 0..MaxReqs]]
    BY <2>1, <2>5 DEF TypeInv
  <2>7. x4xx \in [Clients -> [count : 0..MaxReqs, until : 0..(MaxTime + TTL)]]
    BY <2>1, <2>3 DEF TypeInv
  <2>8. /\ rate \in [Clients -> 0..MaxReqs] /\ total4xx \in [Clients -> 0..MaxReqs]
        /\ passed \in [Clients -> [Limits -> 0..MaxReqs]]
    BY <2>1, <2>3, <2>4 DEF TypeInv
  <2> QED
    BY <2>6, <2>7, <2>8 DEF TypeOK, BoundInv, Pcs, Own4xx
<1> QED
  BY <1>1, InvHolds, BoundInit, BoundStep, PTL DEF Spec
=============================================================================
