----------------------------- MODULE AuthProofs -----------------------------
(***************************************************************************)
(* For any number of requests checked at the same time, any keys and any   *)
(* tokens: JWT_CACHE holds verified tokens only (CacheHonest), a token     *)
(* that was issued passes with JWT_KEY and not without (IssuedNeedsJwtKey),*)
(* and the check with its cache implements the contract that knows no      *)
(* cache (KeepsContract).                                                  *)
(*                                                                         *)
(* CacheHonest is not inductive: what Insert puts into the cache was       *)
(* verified by an earlier step of the same request, so the invariant says  *)
(* what each stage of a check has established (ReqInv).  IssuedNeedsJwtKey *)
(* and the contract also need the key that tokens are issued with.         *)
(***************************************************************************)
EXTENDS Auth, TLAPS

Pcs == {"idle", "auth", "forward", "lookup", "decode", "insert", "pass", "refused"}
Checking == {"lookup", "decode", "insert"}

Request == [pc : Pcs, method : Methods, tok : Tokens \cup {NoToken}, since : Nat]

\* What a request has been through when it is at r.pc.
Established(r) ==
    /\ r.since <= now
    /\ r.pc = "forward" => r.method = "forward"
    /\ r.pc \in Checking => r.method = "jwt" /\ r.tok \in Tokens /\ envKey # NoKey
    /\ r.pc \in {"decode", "insert"} => r.tok.form = "ok" /\ r.tok.exp >= r.since
    /\ r.pc = "insert" => r.tok.key = envKey

ReqInv == req \in [Slots -> Request] /\ \A s \in Slots : Established(req[s])

IssuedInv == issued \subseteq Tokens /\ \A t \in issued : t.form = "ok" /\ t.key = MasterKey

ClockInv == now \in 0..MaxTime /\ envKey \in {NoKey, EnvKey}

CacheInv == DOMAIN cache \subseteq Tokens /\ CacheHonest

AuthInv == ClockInv /\ ReqInv /\ IssuedInv /\ CacheInv

\* The steps of a request that are not, and that are, part of check_jwt.
OtherNext(s) ==
    \/ \E method \in Methods : Arrive(s, method, NoToken)
    \/ \E tok \in issued \union Foreign : Arrive(s, "jwt", tok)
    \/ CompareHeader(s) \/ ForwardAsk(s)
    \/ \E status \in {200, 301, 302, 403, 500} : ForwardAnswer(s, status)
    \/ JwtNone(s) \/ Leave(s)

CheckNext(s) == JwtStart(s) \/ Hit(s) \/ Miss(s) \/ Decode(s) \/ Insert(s)

\* The check that is under way in each slot, as the contract sees it.
Checks == [s \in Slots |-> CheckOf(s)]

-----------------------------------------------------------------------------
(* Facts about tokens and about one request that goes on *)

\* A token has an expiry that is a number.
LEMMA TokenFields ==
    /\ Exps \subseteq Nat
    /\ \A t \in Tokens : t.exp \in Nat /\ t.exp \in Exps
    /\ NoToken \notin Tokens
<1>1. \A t \in 0..MaxTime, v \in Validities : t + v * Minute \in Nat
  BY TimeAssumption
<1>2. Exps \subseteq Nat
  BY <1>1, ForeignAssumption DEF Exps
<1> QED
  BY <1>2, ForeignAssumption DEF Tokens

\* A token that jwt_gen issues now is one of Tokens.
LEMMA IssuedIsToken ==
    ASSUME ClockInv, NEW v \in Validities
    PROVE  [key |-> MasterKey, exp |-> now + v * Minute, form |-> "ok"] \in Tokens
<1>1. now + v * Minute \in Exps
  BY DEF ClockInv, Exps
<1>2. MasterKey \in {FileKey, EnvKey}
  BY DEF ClockInv, MasterKey
<1> QED
  BY <1>1, <1>2 DEF Tokens, Forms

\* One request, in slot s, becomes r; the key and the clock stay.
LEMMA ReqStep ==
    ASSUME ReqInv, NEW s \in Slots, NEW r \in Request, Established(r),
           req' = [req EXCEPT ![s] = r],
           UNCHANGED <<envKey, now>>
    PROVE  ReqInv'
<1>1. req' \in [Slots -> Request]
  BY DEF ReqInv
<1>2. \A t \in Slots : Established(req'[t])
  BY DEF ReqInv
<1>3. \A t \in Slots : Established(req[t])'
  BY <1>2 DEF Established
<1> QED
  BY <1>1, <1>3 DEF ReqInv

\* A request in slot s only goes from one stage to the next.
LEMMA PcStep ==
    ASSUME ReqInv, NEW s \in Slots, NEW pc \in Pcs, Established([req[s] EXCEPT !.pc = pc]),
           req' = [req EXCEPT ![s].pc = pc],
           UNCHANGED <<envKey, now>>
    PROVE  ReqInv' /\ req'[s] = [req[s] EXCEPT !.pc = pc]
<1>1. req[s] \in Request
  BY DEF ReqInv
<1>2. [req[s] EXCEPT !.pc = pc] \in Request
  BY <1>1 DEF Request
<1> QED
  BY <1>2, ReqStep DEF ReqInv

\* A verdict establishes nothing that an earlier stage had not.
LEMMA DecideStep ==
    ASSUME ReqInv, NEW s \in Slots, NEW pc \in {"pass", "refused"},
           req' = [req EXCEPT ![s].pc = pc],
           UNCHANGED <<envKey, now>>
    PROVE  ReqInv' /\ req'[s] = [req[s] EXCEPT !.pc = pc]
<1>1. req[s] \in Request /\ Established(req[s])
  BY DEF ReqInv
<1>2. Established([req[s] EXCEPT !.pc = pc])
  BY <1>1 DEF Established, Request, Checking
<1>3. pc \in Pcs
  BY DEF Pcs
<1> QED
  BY <1>2, <1>3, PcStep

-----------------------------------------------------------------------------
(* The invariant *)

\* The invariant holds at start, with no request and an empty cache.
LEMMA InitHolds == Init => AuthInv
<1> SUFFICES ASSUME Init PROVE AuthInv
  OBVIOUS
<1>1. ClockInv
  BY TimeAssumption DEF Init, ClockInv
<1>2. Idle \in Request /\ Established(Idle)
  BY DEF Init, Idle, Request, Pcs, Methods, Established, Checking
<1>3. ReqInv
  BY <1>2 DEF Init, ReqInv
<1>4. IssuedInv
  BY DEF Init, IssuedInv
<1>5. DOMAIN cache = {}
  BY DEF Init
<1> QED
  BY <1>1, <1>3, <1>4, <1>5 DEF AuthInv, CacheInv, CacheHonest

\* A step of one request that leaves the cache and the issued tokens alone.
LEMMA RestStays ==
    ASSUME AuthInv, ReqInv', UNCHANGED <<envKey, now, cache, issued>>
    PROVE  AuthInv'
BY DEF AuthInv, ClockInv, IssuedInv, MasterKey, CacheInv, CacheHonest

\* Requests that arrive, leave or are not checked by token keep the invariant.
LEMMA OtherSteps ==
    ASSUME AuthInv, NEW s \in Slots, OtherNext(s)
    PROVE  AuthInv'
<1>0. req[s] \in Request /\ Established(req[s]) /\ ReqInv
  BY DEF AuthInv, ReqInv
<1>1. ASSUME NEW method \in Methods, NEW tok \in Tokens \cup {NoToken}, Arrive(s, method, tok)
      PROVE  AuthInv'
  <2> DEFINE new == [pc |-> "auth", method |-> method, tok |-> tok, since |-> 0]
  <2>1. new \in Request /\ Established(new)
    BY <1>0 DEF Request, Pcs, Established, Checking, AuthInv, ClockInv
  <2>2. ReqInv'
    BY <1>0, <1>1, <2>1, ReqStep DEF Arrive
  <2> QED
    BY <1>1, <2>2, RestStays DEF Arrive
<1>2. issued \union Foreign \subseteq Tokens /\ "jwt" \in Methods
  BY ForeignAssumption DEF AuthInv, IssuedInv, Methods
<1>3. CASE CompareHeader(s)
  <2>1. PICK pc \in {"pass", "refused"} : req' = [req EXCEPT ![s].pc = pc]
    BY <1>3 DEF CompareHeader, Decide
  <2> QED
    BY <1>0, <1>3, <2>1, DecideStep, RestStays DEF CompareHeader
<1>4. CASE ForwardAsk(s)
  <2>1. CASE Decide(s, FALSE)
    BY <1>0, <1>4, <2>1, DecideStep, RestStays DEF ForwardAsk, Decide
  <2>2. CASE req' = [req EXCEPT ![s].pc = "forward"]
    <3>1. Established([req[s] EXCEPT !.pc = "forward"]) /\ "forward" \in Pcs
      BY <1>0, <1>4 DEF ForwardAsk, Established, Request, Checking, Pcs
    <3> QED
      BY <1>0, <1>4, <2>2, <3>1, PcStep, RestStays DEF ForwardAsk
  <2> QED
    BY <1>4, <2>1, <2>2 DEF ForwardAsk
<1>5. ASSUME NEW status, ForwardAnswer(s, status)
      PROVE  AuthInv'
  <2>1. PICK pc \in {"pass", "refused"} : req' = [req EXCEPT ![s].pc = pc]
    BY <1>5 DEF ForwardAnswer, Decide
  <2> QED
    BY <1>0, <1>5, <2>1, DecideStep, RestStays DEF ForwardAnswer
<1>6. CASE JwtNone(s)
  BY <1>0, <1>6, DecideStep, RestStays DEF JwtNone, Decide
<1>7. CASE Leave(s)
  <2>1. Idle \in Request /\ Established(Idle)
    BY <1>0 DEF Idle, Request, Pcs, Methods, Established, Checking, AuthInv, ClockInv
  <2> QED
    BY <1>0, <1>7, <2>1, ReqStep, RestStays DEF Leave
<1> QED
  BY <1>1, <1>2, <1>3, <1>4, <1>5, <1>6, <1>7 DEF OtherNext

\* Every stage of the check of a token keeps the invariant.
LEMMA CheckSteps ==
    ASSUME AuthInv, NEW s \in Slots, CheckNext(s)
    PROVE  AuthInv'
<1>0. req[s] \in Request /\ Established(req[s]) /\ ReqInv
  BY DEF AuthInv, ReqInv
<1>1. CASE JwtStart(s)
  <2> DEFINE new == [req[s] EXCEPT !.pc = "lookup", !.since = now]
  <2>1. now \in Nat
    BY TimeAssumption DEF AuthInv, ClockInv
  <2>2. new \in Request /\ new.pc = "lookup" /\ new.since = now
    BY <1>0, <2>1 DEF Request, Pcs
  <2>3. new.method = "jwt" /\ new.tok \in Tokens
    BY <1>0, <1>1 DEF JwtStart, Request
  <2>4. Established(new)
    BY <1>1, <2>1, <2>2, <2>3 DEF JwtStart, Established
  <2>5. req' = [req EXCEPT ![s] = new]
    BY <1>1 DEF JwtStart
  <2>6. ReqInv'
    BY <1>0, <1>1, <2>2, <2>4, <2>5, ReqStep DEF JwtStart
  <2> QED
    BY <1>1, <2>6, RestStays DEF JwtStart
<1>2. CASE Hit(s)
  <2>1. PICK pc \in {"pass", "refused"} : req' = [req EXCEPT ![s].pc = pc]
    BY <1>2 DEF Hit, Decide
  <2> QED
    BY <1>0, <1>2, <2>1, DecideStep, RestStays DEF Hit
<1>3. CASE Miss(s)
  <2>1. CASE req[s].tok.form = "ok" /\ req[s].tok.exp >= req[s].since
    <3>1. Established([req[s] EXCEPT !.pc = "decode"]) /\ "decode" \in Pcs
      BY <1>0, <1>3, <2>1 DEF Miss, Established, Request, Checking, Pcs
    <3> QED
      BY <1>0, <1>3, <2>1, <3>1, PcStep, RestStays DEF Miss
  <2>2. CASE ~(req[s].tok.form = "ok" /\ req[s].tok.exp >= req[s].since)
    BY <1>0, <1>3, <2>2, DecideStep, RestStays DEF Miss, Decide
  <2> QED
    BY <2>1, <2>2
<1>4. CASE Decode(s)
  <2>1. CASE req[s].tok.key = envKey /\ req[s].tok.exp > now
    <3>1. Established([req[s] EXCEPT !.pc = "insert"]) /\ "insert" \in Pcs
      BY <1>0, <1>4, <2>1 DEF Decode, Established, Request, Checking, Pcs
    <3> QED
      BY <1>0, <1>4, <2>1, <3>1, PcStep, RestStays DEF Decode
  <2>2. CASE ~(req[s].tok.key = envKey /\ req[s].tok.exp > now)
    BY <1>0, <1>4, <2>2, DecideStep, RestStays DEF Decode, Decide
  <2> QED
    BY <2>1, <2>2
<1>5. CASE Insert(s)
  <2> DEFINE tok == req[s].tok
  <2>1. tok \in Tokens /\ tok.form = "ok" /\ tok.key = envKey
    BY <1>0, <1>5 DEF Insert, Established, Checking
  <2>2. /\ DOMAIN cache' = DOMAIN cache \cup {tok}
        /\ \A t \in DOMAIN cache' : cache'[t] = IF t = tok THEN tok.exp ELSE cache[t]
    BY <1>5 DEF Insert
  <2>3. CacheInv'
    BY <1>5, <2>1, <2>2 DEF AuthInv, CacheInv, CacheHonest, Insert
  <2>4. ReqInv'
    BY <1>0, <1>5, DecideStep DEF Insert, Decide
  <2> QED
    BY <1>5, <2>3, <2>4 DEF Insert, AuthInv, ClockInv, IssuedInv, MasterKey
<1> QED
  BY <1>1, <1>2, <1>3, <1>4, <1>5 DEF CheckNext

\* Every step keeps the invariant.
LEMMA StepHolds == AuthInv /\ [Next]_vars => AuthInv'
<1> SUFFICES ASSUME AuthInv, [Next]_vars PROVE AuthInv'
  OBVIOUS
<1>1. ASSUME NEW v \in Validities, JwtGen(v)
      PROVE  AuthInv'
  <2>1. [key |-> MasterKey, exp |-> now + v * Minute, form |-> "ok"] \in Tokens
    BY IssuedIsToken DEF AuthInv
  <2>2. IssuedInv'
    BY <1>1, <2>1 DEF JwtGen, AuthInv, IssuedInv, MasterKey
  <2>3. ReqInv'
    BY <1>1 DEF JwtGen, AuthInv, ReqInv, Established
  <2> QED
    BY <1>1, <2>2, <2>3 DEF JwtGen, AuthInv, ClockInv, CacheInv, CacheHonest
<1>2. ASSUME NEW tok \in DOMAIN cache, Evict(tok)
      PROVE  AuthInv'
  <2>1. CacheInv'
    BY <1>2 DEF Evict, AuthInv, CacheInv, CacheHonest
  <2>2. ReqInv'
    BY <1>2 DEF Evict, AuthInv, ReqInv, Established
  <2> QED
    BY <1>2, <2>1, <2>2 DEF Evict, AuthInv, ClockInv, IssuedInv, MasterKey
<1>3. CASE Tick
  <2>1. ClockInv'
    BY <1>3, TimeAssumption DEF Tick, AuthInv, ClockInv
  <2>2. \A s \in Slots : Established(req[s])'
    BY <1>3 DEF Tick, AuthInv, ClockInv, ReqInv, Established, Request
  <2>3. ReqInv'
    BY <1>3, <2>2 DEF Tick, AuthInv, ReqInv
  <2> QED
    BY <1>3, <2>1, <2>3 DEF Tick, AuthInv, IssuedInv, MasterKey, CacheInv, CacheHonest
<1>4. CASE UNCHANGED vars
  BY <1>4, RestStays DEF vars, AuthInv, ReqInv, Established
<1> QED
  BY <1>1, <1>2, <1>3, <1>4, OtherSteps, CheckSteps DEF Next, OtherNext, CheckNext

\* The invariant holds in every state.
LEMMA Invariance == Spec => []AuthInv
BY InitHolds, StepHolds, PTL DEF Spec

-----------------------------------------------------------------------------
(* Theorems *)

\* The variables keep their types; no check believes the clock to be ahead.
THEOREM TypeCorrect == Spec => []TypeOK
<1>1. AuthInv => TypeOK
  <2> SUFFICES ASSUME AuthInv PROVE TypeOK
    OBVIOUS
  <2>1. envKey \in {NoKey, EnvKey} /\ now \in 0..MaxTime /\ now \in Nat
    BY TimeAssumption DEF AuthInv, ClockInv
  <2>2. DOMAIN cache \subseteq Tokens /\ \A t \in DOMAIN cache : cache[t] \in Exps
    BY TokenFields DEF AuthInv, CacheInv, CacheHonest
  <2>3. issued \subseteq Tokens
    BY DEF AuthInv, IssuedInv
  <2>4. \A s \in Slots :
           req[s] \in [pc : Pcs, method : Methods, tok : Tokens \union {NoToken}, since : 0..now]
    BY <2>1 DEF AuthInv, ReqInv, Established, Request
  <2> QED
    BY <2>1, <2>2, <2>3, <2>4 DEF TypeOK, AuthInv, ReqInv, Pcs
<1> QED
  BY <1>1, Invariance, PTL

\* JWT_CACHE holds only tokens whose signature was verified, each with the
\* expiry of its claims: what check_jwt returns from the cache it may trust.
THEOREM CacheIsHonest == Spec => []CacheHonest
<1>1. AuthInv => CacheHonest
  BY DEF AuthInv, CacheInv
<1> QED
  BY <1>1, Invariance, PTL

\* The steps: of one request, of the API, of the cache, of the clock.
LEMMA NextSplit ==
    ASSUME Next
    PROVE  \/ \E s \in Slots : OtherNext(s) \/ CheckNext(s)
           \/ \E v \in Validities : JwtGen(v)
           \/ \E tok \in DOMAIN cache : Evict(tok)
           \/ Tick
BY DEF Next, OtherNext, CheckNext

\* A step of the request in slot s leaves the other requests alone.
LEMMA OthersStay ==
    ASSUME AuthInv, NEW s \in Slots, OtherNext(s) \/ CheckNext(s)
    PROVE  /\ UNCHANGED <<envKey, now, issued>>
           /\ DOMAIN req' = Slots
           /\ \A t \in Slots \ {s} : req'[t] = req[t]
BY DEF AuthInv, ReqInv, OtherNext, CheckNext, Arrive, CompareHeader, ForwardAsk,
       ForwardAnswer, JwtNone, Leave, JwtStart, Hit, Miss, Decode, Insert, Decide

\* In a step that answers a token with 401 the token is not genuine, or it has
\* expired.
LEMMA RefusedForReason ==
    ASSUME AuthInv, NEW s \in Slots, CheckNext(s), req'[s].pc = "refused"
    PROVE  /\ req[s].pc \in Checking
           /\ TC!Genuine(req[s].tok) => req[s].tok.exp <= now
<1>0. req[s] \in Request /\ Established(req[s]) /\ ReqInv
  BY DEF AuthInv, ReqInv
<1>1. now \in Nat /\ \A t \in Tokens : t.exp \in Nat
  BY TimeAssumption, TokenFields DEF AuthInv, ClockInv
<1>2. ~JwtStart(s)
  BY <1>0 DEF JwtStart, ReqInv, Request
<1>3. ~Insert(s)
  BY <1>0 DEF Insert, Decide, ReqInv, Request
<1>4. CASE Hit(s)
  <2>1. ~(cache[req[s].tok] >= req[s].since)
    BY <1>0, <1>4 DEF Hit, Decide, ReqInv, Request
  <2>2. cache[req[s].tok] = req[s].tok.exp /\ req[s].tok \in Tokens
    BY <1>4, <1>0 DEF Hit, AuthInv, CacheInv, CacheHonest
  <2>3. req[s].since \in Nat /\ req[s].since <= now
    BY <1>0 DEF Established, Request
  <2> QED
    BY <1>1, <1>4, <2>1, <2>2, <2>3 DEF Hit, Checking
<1>5. CASE Miss(s)
  <2>1. ~(req[s].tok.form = "ok" /\ req[s].tok.exp >= req[s].since)
    BY <1>0, <1>5 DEF Miss, Decide, ReqInv, Request
  <2>2. req[s].tok \in Tokens
    BY <1>0, <1>5 DEF Miss, Established, Checking
  <2>3. req[s].since \in Nat /\ req[s].since <= now
    BY <1>0 DEF Established, Request
  <2> QED
    BY <1>1, <1>5, <2>1, <2>2, <2>3 DEF Miss, Checking, TC!Genuine
<1>6. CASE Decode(s)
  <2>1. ~(req[s].tok.key = envKey /\ req[s].tok.exp > now)
    BY <1>0, <1>6 DEF Decode, Decide, ReqInv, Request
  <2>2. req[s].tok \in Tokens
    BY <1>0, <1>6 DEF Decode, Established, Checking
  <2> QED
    BY <1>1, <1>6, <2>1, <2>2 DEF Decode, Checking, TC!Genuine
<1> QED
  BY <1>2, <1>3, <1>4, <1>5, <1>6 DEF CheckNext

\* In a step that lets a token pass it is genuine, and had not expired when the
\* check began.
LEMMA PassedForReason ==
    ASSUME AuthInv, NEW s \in Slots, CheckNext(s), req'[s].pc = "pass"
    PROVE  /\ req[s].pc \in Checking
           /\ TC!Genuine(req[s].tok)
           /\ req[s].tok.exp >= req[s].since
<1>0. req[s] \in Request /\ Established(req[s]) /\ ReqInv
  BY DEF AuthInv, ReqInv
<1>1. ~JwtStart(s)
  BY <1>0 DEF JwtStart, ReqInv, Request
<1>2. ~Miss(s) /\ ~Decode(s)
  BY <1>0 DEF Miss, Decode, Decide, ReqInv, Request
<1>3. CASE Hit(s)
  <2>1. cache[req[s].tok] >= req[s].since
    BY <1>0, <1>3 DEF Hit, Decide, ReqInv, Request
  <2> QED
    BY <1>3, <2>1 DEF Hit, AuthInv, CacheInv, CacheHonest, TC!Genuine, Checking
<1>4. CASE Insert(s)
  BY <1>0, <1>4 DEF Insert, Established, TC!Genuine, Checking
<1> QED
  BY <1>1, <1>2, <1>3, <1>4 DEF CheckNext

\* A token that jwt_gen issued passes, until it expires, exactly if JWT_KEY is
\* set, whatever the cache did and whatever other requests do meanwhile.
THEOREM IssuedPassWithJwtKey == Spec => IssuedNeedsJwtKey
<1> DEFINE Passing(s) == /\ req[s].method = "jwt"
                         /\ req[s].pc # "pass" /\ req'[s].pc = "pass"
           Refusing(s) == /\ req[s].method = "jwt" /\ req[s].tok \in issued
                          /\ req[s].pc # "refused" /\ req'[s].pc = "refused"
<1>1. ASSUME AuthInv, Next, NEW s \in Slots, Passing(s)
      PROVE  envKey # NoKey
  <2>1. PICK t \in Slots : OtherNext(t) \/ CheckNext(t)
    BY <1>1, NextSplit DEF JwtGen, Evict, Tick
  <2>2. t = s
    BY <1>1, <2>1, OthersStay
  <2>3. ~OtherNext(s)
    <3>0. req[s] \in Request /\ Established(req[s]) /\ DOMAIN req = Slots
      BY <1>1 DEF AuthInv, ReqInv
    <3>1. \A method, tok : ~Arrive(s, method, tok)
      BY <1>1, <3>0 DEF Arrive
    <3>2. ~CompareHeader(s) /\ ~ForwardAsk(s)
      BY <1>1 DEF CompareHeader, ForwardAsk
    <3>3. \A status : ~ForwardAnswer(s, status)
      BY <1>1, <3>0 DEF ForwardAnswer, Established
    <3>4. ~JwtNone(s)
      BY <1>1, <3>0 DEF JwtNone, Decide, Request
    <3>5. ~Leave(s)
      BY <1>1, <3>0 DEF Leave, Idle
    <3> QED
      BY <3>1, <3>2, <3>3, <3>4, <3>5 DEF OtherNext
  <2> QED
    BY <1>1, <2>1, <2>2, <2>3, PassedForReason DEF AuthInv, ReqInv, Established
<1>2. ASSUME AuthInv, Next, NEW s \in Slots, Refusing(s), envKey # NoKey
      PROVE  req[s].tok.exp <= now
  <2>1. req[s].tok \in Tokens /\ TC!Genuine(req[s].tok)
    BY <1>2 DEF AuthInv, IssuedInv, TC!Genuine, MasterKey
  <2>2. req' # req
    BY <1>2
  <2>3. PICK t \in Slots : OtherNext(t) \/ CheckNext(t)
    BY <1>2, <2>2, NextSplit DEF JwtGen, Evict, Tick
  <2>4. t = s
    BY <1>2, <2>3, OthersStay
  <2>5. ~OtherNext(s)
    <3>0. req[s] \in Request /\ Established(req[s]) /\ DOMAIN req = Slots
      BY <1>2 DEF AuthInv, ReqInv
    <3>1. \A method, tok : ~Arrive(s, method, tok)
      BY <1>2, <3>0 DEF Arrive
    <3>2. ~CompareHeader(s) /\ ~ForwardAsk(s)
      BY <1>2 DEF CompareHeader, ForwardAsk
    <3>3. \A status : ~ForwardAnswer(s, status)
      BY <1>2, <3>0 DEF ForwardAnswer, Established
    <3>4. ~JwtNone(s)
      BY <1>2, <2>1, TokenFields DEF JwtNone
    <3>5. ~Leave(s)
      BY <1>2, <3>0 DEF Leave, Idle
    <3> QED
      BY <3>1, <3>2, <3>3, <3>4, <3>5 DEF OtherNext
  <2> QED
    BY <1>2, <2>1, <2>3, <2>4, <2>5, RefusedForReason
<1> DEFINE Kept == \A s \in Slots :
              /\ Passing(s) => envKey # NoKey
              /\ Refusing(s) => envKey = NoKey \/ req[s].tok.exp <= now
<1>3. AuthInv /\ [Next]_vars => [Kept]_vars
  BY <1>1, <1>2
<1>4. Kept => \A s \in Slots :
                 LET becomes(pc) == req[s].pc # pc /\ req'[s].pc = pc
                 IN  req[s].method = "jwt" =>
                        /\ becomes("pass") => envKey # NoKey
                        /\ becomes("refused") /\ req[s].tok \in issued =>
                              envKey = NoKey \/ req[s].tok.exp <= now
  OBVIOUS
<1> QED
  BY <1>3, <1>4, Invariance, PTL DEF Spec, IssuedNeedsJwtKey

-----------------------------------------------------------------------------
(* The contract *)

\* What the contract sees of a step in slot s is a change of the check there.
LEMMA ChecksStep ==
    ASSUME AuthInv, NEW s \in Slots, OtherNext(s) \/ CheckNext(s)
    PROVE  Checks' = [Checks EXCEPT ![s] = CheckOf(s)']
<1>1. \A t \in Slots \ {s} : CheckOf(t)' = CheckOf(t)
  BY OthersStay DEF CheckOf
<1> QED
  BY <1>1 DEF Checks

\* A request that is checked by token is seen as one check without a verdict.
LEMMA UnderWay ==
    ASSUME AuthInv, NEW s \in Slots, req[s].pc \in Checking
    PROVE  CheckOf(s) = {[tok |-> req[s].tok, since |-> req[s].since, verdict |-> "none"]}
<1>1. req[s].method = "jwt"
  BY DEF AuthInv, ReqInv, Established
<1> QED
  BY <1>1 DEF CheckOf, Checking

\* A verdict on a token is a verdict that the contract allows.
LEMMA VerdictMapped ==
    ASSUME AuthInv, NEW s \in Slots, CheckNext(s), req'[s].pc \in {"pass", "refused"},
           \A t \in Slots : req'[t] = IF t = s THEN [req[s] EXCEPT !.pc = req'[s].pc] ELSE req[t]
    PROVE  \E verdict \in {"accept", "refuse"} : TC!Decide(s, verdict)
<1> DEFINE verdict == IF req'[s].pc = "pass" THEN "accept" ELSE "refuse"
           c == [tok |-> req[s].tok, since |-> req[s].since, verdict |-> "none"]
<1>1. req[s].pc \in Checking
  BY RefusedForReason, PassedForReason
<1>2. Checks[s] = {c}
  BY <1>1, UnderWay DEF Checks
<1>3. req[s] \in Request /\ Established(req[s])
  BY DEF AuthInv, ReqInv
<1>4. envKey' = envKey /\ now' = now
  BY OthersStay
<1>5. CheckOf(s)' = {[c EXCEPT !.verdict = verdict]}
  <2>1. /\ req'[s].method = "jwt" /\ req'[s].tok = req[s].tok /\ req'[s].since = req[s].since
        /\ req[s].tok # NoToken /\ envKey' # NoKey
    BY <1>1, <1>3, <1>4, TokenFields DEF Request, Established
  <2> QED
    BY <2>1 DEF CheckOf
<1>6. verdict = "accept" => TC!Genuine(c.tok) /\ c.tok.exp >= c.since
  BY PassedForReason
<1>7. verdict = "refuse" => ~TC!Genuine(c.tok) \/ c.tok.exp <= now
  BY RefusedForReason
<1>8. Checks' = [Checks EXCEPT ![s] = {[c EXCEPT !.verdict = verdict]}]
  BY <1>5, ChecksStep
<1>9. TC!Decide(s, verdict)
  BY <1>2, <1>4, <1>6, <1>7, <1>8 DEF TC!Decide, Checks
<1> QED
  BY <1>9

\* A check goes on, unseen by the contract, or begins or gets its verdict.
LEMMA CheckMapped ==
    ASSUME AuthInv, NEW s \in Slots, CheckNext(s)
    PROVE  \/ \E tok \in Tokens : TC!Ask(s, tok)
           \/ \E verdict \in {"accept", "refuse"} : TC!Decide(s, verdict)
           \/ Checks' = Checks
<1>0. req[s] \in Request /\ Established(req[s]) /\ DOMAIN req = Slots
  BY DEF AuthInv, ReqInv
<1>1. UNCHANGED <<envKey, now>> /\ Checks' = [Checks EXCEPT ![s] = CheckOf(s)']
  BY OthersStay, ChecksStep
<1>2. CASE JwtStart(s)
  <2>1. req[s].tok \in Tokens /\ req[s].pc = "auth"
    BY <1>0, <1>2 DEF JwtStart, Request
  <2>2. /\ req'[s].pc = "lookup" /\ req'[s].method = "jwt"
        /\ req'[s].tok = req[s].tok /\ req'[s].since = now
    BY <1>0, <1>2 DEF JwtStart, Request
  <2>3. CheckOf(s) = {}
    BY <2>1 DEF CheckOf
  <2>4. CheckOf(s)' = {[tok |-> req[s].tok, since |-> now, verdict |-> "none"]}
    BY <2>2 DEF CheckOf
  <2>5. TC!Ask(s, req[s].tok)
    BY <1>1, <2>3, <2>4 DEF TC!Ask, Checks
  <2> QED
    BY <2>1, <2>5
<1>3. ASSUME NEW pc \in {"decode", "insert"}, req' = [req EXCEPT ![s].pc = pc],
             req[s].pc \in Checking
      PROVE  Checks' = Checks
  <2>1. req'[s] = [req[s] EXCEPT !.pc = pc]
    BY <1>0, <1>3
  <2>2. CheckOf(s)' = CheckOf(s)
    BY <1>0, <1>1, <1>3, <2>1 DEF CheckOf, Request, Checking
  <2> QED
    BY <1>1, <2>2 DEF Checks
<1>4. ASSUME NEW pc \in {"pass", "refused"}, req' = [req EXCEPT ![s].pc = pc]
      PROVE  \E verdict \in {"accept", "refuse"} : TC!Decide(s, verdict)
  <2>1. req'[s] = [req[s] EXCEPT !.pc = pc] /\ req'[s].pc = pc
    BY <1>0, <1>4 DEF Request
  <2>2. \A t \in Slots : req'[t] = IF t = s THEN [req[s] EXCEPT !.pc = req'[s].pc] ELSE req[t]
    BY <2>1, OthersStay
  <2> QED
    BY <2>1, <2>2, VerdictMapped
<1>5. CASE Hit(s) \/ Miss(s) \/ Decode(s) \/ Insert(s)
  BY <1>3, <1>4, <1>5 DEF Hit, Miss, Decode, Insert, Decide, Checking
<1> QED
  BY <1>2, <1>5 DEF CheckNext

\* The contract sees nothing of other methods, and forgets a check that is over.
LEMMA OtherMapped ==
    ASSUME AuthInv, NEW s \in Slots, OtherNext(s)
    PROVE  TC!Forget(s) \/ Checks' = Checks
<1>0. req[s] \in Request /\ Established(req[s]) /\ DOMAIN req = Slots
  BY DEF AuthInv, ReqInv
<1>1. UNCHANGED <<envKey, now>> /\ Checks' = [Checks EXCEPT ![s] = CheckOf(s)']
  BY OthersStay, ChecksStep
<1>2. ASSUME CheckOf(s) = {}, CheckOf(s)' = {}
      PROVE  Checks' = Checks
  BY <1>1, <1>2 DEF Checks
<1>3. ASSUME NEW method, NEW tok, Arrive(s, method, tok)
      PROVE  CheckOf(s) = {} /\ CheckOf(s)' = {}
  BY <1>0, <1>3 DEF Arrive, CheckOf
<1>4. ASSUME req[s].method # "jwt", req'[s].method = req[s].method
      PROVE  CheckOf(s) = {} /\ CheckOf(s)' = {}
  BY <1>4 DEF CheckOf
<1>5. ASSUME CompareHeader(s) \/ ForwardAsk(s) \/ \E status : ForwardAnswer(s, status)
      PROVE  req[s].method # "jwt" /\ req'[s].method = req[s].method
  BY <1>0, <1>5
     DEF CompareHeader, ForwardAsk, ForwardAnswer, Decide, Established, Request
<1>6. ASSUME JwtNone(s)
      PROVE  CheckOf(s) = {} /\ CheckOf(s)' = {}
  <2>1. req'[s].pc = "refused" /\ req'[s].tok = req[s].tok
    BY <1>0, <1>6 DEF JwtNone, Decide, Request
  <2> QED
    BY <1>1, <1>6, <2>1 DEF JwtNone, CheckOf
<1>7. CASE Leave(s)
  <2>1. CheckOf(s)' = {}
    BY <1>0, <1>7 DEF Leave, Idle, CheckOf
  <2>2. CheckOf(s) = {} \/ \E c \in CheckOf(s) : c.verdict # "none"
    BY <1>7 DEF Leave, CheckOf
  <2>3. Checks[s] = CheckOf(s)
    BY DEF Checks
  <2>4. CASE CheckOf(s) = {}
    BY <1>2, <2>1, <2>4
  <2>5. CASE \E c \in CheckOf(s) : c.verdict # "none"
    BY <1>1, <2>1, <2>3, <2>5 DEF TC!Forget, Checks
  <2> QED
    BY <2>2, <2>4, <2>5
<1> QED
  BY <1>2, <1>3, <1>4, <1>5, <1>6, <1>7 DEF OtherNext

\* check_jwt with its cache implements the contract that knows none: for any
\* number of concurrent checks and whatever the cache drops, a token is accepted
\* only if genuine and valid when its check began, and refused only for a
\* reason that holds.
THEOREM ContractKept == Spec => KeepsContract
<1>1. Init => TC!Init
  BY DEF Init, TC!Init, CheckOf, Idle
<1>2. AuthInv /\ [Next]_vars => [TC!Next]_<<envKey, now, Checks>>
  <2> SUFFICES ASSUME AuthInv, [Next]_vars
               PROVE  TC!Next \/ UNCHANGED <<envKey, now, Checks>>
    OBVIOUS
  <2>1. ASSUME NEW s \in Slots, OtherNext(s) \/ CheckNext(s)
        PROVE  TC!Next \/ UNCHANGED <<envKey, now, Checks>>
    BY <2>1, OthersStay, OtherMapped, CheckMapped DEF TC!Next
  <2>2. ASSUME UNCHANGED <<envKey, req>>
        PROVE  Checks' = Checks
    BY <2>2 DEF Checks, CheckOf
  <2>3. ASSUME Tick
        PROVE  TC!Next
    BY <2>2, <2>3 DEF Tick, TC!Next, TC!Tick, Checks
  <2>4. ASSUME \/ \E v \in Validities : JwtGen(v)
               \/ \E tok \in DOMAIN cache : Evict(tok)
               \/ UNCHANGED vars
        PROVE  UNCHANGED <<envKey, now, Checks>>
    BY <2>2, <2>4 DEF JwtGen, Evict, vars
  <2> QED
    BY <2>1, <2>3, <2>4, NextSplit
<1> QED
  BY <1>1, <1>2, Invariance, PTL DEF Spec, KeepsContract, TC!Spec, Checks
=============================================================================
