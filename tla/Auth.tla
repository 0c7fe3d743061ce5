-------------------------------- MODULE Auth --------------------------------
(***************************************************************************)
(* Authentication of requests (auth.rs, jwt.rs, proxyhttp.rs) and the      *)
(* issue of tokens by the API (jwt_gen in webserver.rs).                   *)
(*                                                                         *)
(* Requests are checked concurrently on the threads of the proxy.  Those   *)
(* with a token share JWT_CACHE, which remembers the expiry of tokens that *)
(* passed.  Its entries leave it at any moment: it is bounded, and it does *)
(* not go by the clock that tokens expire by, so that nothing is assumed   *)
(* of when it drops one.  hash_token is taken to be injective.             *)
(*                                                                         *)
(* The outcome of comparing credentials, and the answer of a service asked *)
(* for forward authentication, are choices of the environment.             *)
(***************************************************************************)
EXTENDS Naturals, FiniteSets

CONSTANTS
    Slots,      \* requests under way at the same time
    NoKey,      \* not a key
    FileKey,    \* master_key of main.yaml
    EnvKey,     \* what the environment variable JWT_KEY is, if it is set
    Foreign,    \* tokens that were not issued here: [key, exp, form]
    NoToken,    \* a request without one
    Validities, \* minutes that a token may be asked for
    Minute,     \* seconds of a minute
    MaxTime,    \* bound: seconds
    MaxIssued   \* bound: tokens issued

\* Whether the claims of a token can be read, and have an expiry.
Forms == {"ok", "bad", "noexp"}

\* What a token can be: one from elsewhere, or one that jwt_gen can issue.
Exps == {f.exp : f \in Foreign} \union {t + v * Minute : t \in 0..MaxTime, v \in Validities}
Tokens == [key : {FileKey, EnvKey} \union {f.key : f \in Foreign}, exp : Exps, form : Forms]

ASSUME TimeAssumption ==
    /\ {Minute, MaxTime, MaxIssued} \subseteq Nat
    /\ Validities \subseteq Nat
ASSUME KeyAssumption == NoKey \notin {FileKey, EnvKey}
ASSUME ForeignAssumption ==
    /\ Foreign \subseteq Tokens
    /\ \A f \in Foreign : f.key # NoKey /\ f.exp \in Nat
    /\ NoToken \notin Tokens

VARIABLES
    envKey,     \* JWT_TOKEN
    now,        \* the wall clock
    cache,      \* JWT_CACHE: the expiry of some tokens
    issued,     \* tokens issued
    req         \* per slot, [pc, method, tok, since]

vars == <<envKey, now, cache, issued, req>>

Methods == {"basic", "apikey", "jwt", "forward", "other"}
Idle == [pc |-> "idle", method |-> "other", tok |-> NoToken, since |-> 0]

\* request_filter goes on, or answers 401.
Decide(s, ok) == req' = [req EXCEPT ![s].pc = IF ok THEN "pass" ELSE "refused"]

-----------------------------------------------------------------------------
(* Issuing tokens *)

\* Mutant: the environment does not replace the key of the file.
MasterKeyOfFile == FileKey

\* parce_main_config: JWT_KEY replaces master_key.
MasterKey == IF envKey # NoKey THEN envKey ELSE FileKey

\* jwt_gen for a caller who shows the master key.
JwtGen(minutes) ==
    /\ Cardinality(issued) < MaxIssued
    /\ issued' = issued \union {[key |-> MasterKey, exp |-> now + minutes * Minute, form |-> "ok"]}
    /\ UNCHANGED <<envKey, now, cache, req>>

-----------------------------------------------------------------------------
(* authenticate *)

\* A request arrives whose path, or the configuration, asks for a method.
Arrive(s, method, tok) ==
    /\ req[s].pc = "idle"
    /\ req' = [req EXCEPT ![s] = [pc |-> "auth", method |-> method, tok |-> tok, since |-> 0]]
    /\ UNCHANGED <<envKey, now, cache, issued>>

\* BasicAuth and ApiKeyAuth compare a header; an unknown method fails.
CompareHeader(s) ==
    /\ req[s].pc = "auth"
    /\ \/ req[s].method \in {"basic", "apikey"} /\ \E ok \in BOOLEAN : Decide(s, ok)
       \/ req[s].method = "other" /\ Decide(s, FALSE)
    /\ UNCHANGED <<envKey, now, cache, issued>>

\* ForwardAuth: a URL that is not understood or a connection that fails ends it.
ForwardAsk(s) ==
    /\ req[s].pc = "auth" /\ req[s].method = "forward"
    /\ req' = [req EXCEPT ![s].pc = "forward"] \/ Decide(s, FALSE)
    /\ UNCHANGED <<envKey, now, cache, issued>>

\* A redirection passes like a success, though it is sent to the client.
ForwardAnswer(s, status) ==
    /\ req[s].pc = "forward"
    /\ Decide(s, status \in {200, 301, 302})
    /\ UNCHANGED <<envKey, now, cache, issued>>

\* JwtAuth without a key, or without a token in the query or the header.
JwtNone(s) ==
    /\ req[s].pc = "auth" /\ req[s].method = "jwt"
    /\ envKey = NoKey \/ req[s].tok = NoToken
    /\ Decide(s, FALSE)
    /\ UNCHANGED <<envKey, now, cache, issued>>

\* Mutant: a leeway in the wrong direction.
JwtStartLate(s) ==
    /\ req[s].pc = "auth" /\ req[s].method = "jwt"
    /\ envKey # NoKey /\ req[s].tok # NoToken
    /\ req' = [req EXCEPT ![s] = [@ EXCEPT !.pc = "lookup", !.since = now + Minute]]
    /\ UNCHANGED <<envKey, now, cache, issued>>

\* check_jwt reads the clock.
JwtStart(s) ==
    /\ req[s].pc = "auth" /\ req[s].method = "jwt"
    /\ envKey # NoKey /\ req[s].tok # NoToken
    /\ req' = [req EXCEPT ![s] = [@ EXCEPT !.pc = "lookup", !.since = now]]
    /\ UNCHANGED <<envKey, now, cache, issued>>

\* Mutant: an entry is trusted as long as the cache has it.
HitAny(s) ==
    /\ req[s].pc = "lookup" /\ req[s].tok \in DOMAIN cache
    /\ Decide(s, TRUE)
    /\ UNCHANGED <<envKey, now, cache, issued>>

\* The cache has the token: its expiry is compared with that reading.
Hit(s) ==
    /\ req[s].pc = "lookup" /\ req[s].tok \in DOMAIN cache
    /\ Decide(s, cache[req[s].tok] >= req[s].since)
    /\ UNCHANGED <<envKey, now, cache, issued>>

\* It has not: is_expired looks at the claims, which are not verified yet.
Miss(s) ==
    LET tok == req[s].tok IN
    /\ req[s].pc = "lookup" /\ tok \notin DOMAIN cache
    /\ IF tok.form = "ok" /\ tok.exp >= req[s].since
       THEN req' = [req EXCEPT ![s].pc = "decode"]
       ELSE Decide(s, FALSE)
    /\ UNCHANGED <<envKey, now, cache, issued>>

\* Mutant: the expiry is looked at, the signature is not.
DecodeClaims(s) ==
    /\ req[s].pc = "decode"
    /\ IF req[s].tok.exp > now
       THEN req' = [req EXCEPT ![s].pc = "insert"]
       ELSE Decide(s, FALSE)
    /\ UNCHANGED <<envKey, now, cache, issued>>

\* decode verifies the signature; then the clock is read again.
Decode(s) ==
    /\ req[s].pc = "decode"
    /\ IF req[s].tok.key = envKey /\ req[s].tok.exp > now
       THEN req' = [req EXCEPT ![s].pc = "insert"]
       ELSE Decide(s, FALSE)
    /\ UNCHANGED <<envKey, now, cache, issued>>

\* JWT_CACHE.insert
Insert(s) ==
    LET tok == req[s].tok IN
    /\ req[s].pc = "insert"
    /\ cache' = [t \in DOMAIN cache \union {tok} |-> IF t = tok THEN tok.exp ELSE cache[t]]
    /\ Decide(s, TRUE)
    /\ UNCHANGED <<envKey, now, issued>>

\* The rest of the request, which Limiter and Routing follow.
Leave(s) ==
    /\ req[s].pc \in {"pass", "refused"}
    /\ req' = [req EXCEPT ![s] = Idle]
    /\ UNCHANGED <<envKey, now, cache, issued>>

\* An entry is evicted or expires.
Evict(tok) ==
    /\ tok \in DOMAIN cache
    /\ cache' = [t \in DOMAIN cache \ {tok} |-> cache[t]]
    /\ UNCHANGED <<envKey, now, issued, req>>

Tick ==
    /\ now < MaxTime
    /\ now' = now + 1
    /\ UNCHANGED <<envKey, cache, issued, req>>

Init ==
    /\ envKey \in {NoKey, EnvKey}
    /\ now = 0
    /\ cache = [t \in {} |-> 0]
    /\ issued = {}
    /\ req = [s \in Slots |-> Idle]

Next ==
    \/ \E s \in Slots :
          \/ \E method \in Methods : Arrive(s, method, NoToken)
          \/ \E tok \in issued \union Foreign : Arrive(s, "jwt", tok)
          \/ CompareHeader(s) \/ ForwardAsk(s)
          \/ \E status \in {200, 301, 302, 403, 500} : ForwardAnswer(s, status)
          \/ JwtNone(s) \/ JwtStart(s) \/ Hit(s) \/ Miss(s) \/ Decode(s) \/ Insert(s)
          \/ Leave(s)
    \/ \E minutes \in Validities : JwtGen(minutes)
    \/ \E tok \in DOMAIN cache : Evict(tok)
    \/ Tick

Spec == Init /\ [][Next]_vars

-----------------------------------------------------------------------------
(* Properties *)

\* Types of the variables; no check believes the clock to be ahead of it.
TypeOK ==
    /\ envKey \in {NoKey, EnvKey}
    /\ now \in 0..MaxTime
    /\ DOMAIN cache \subseteq Tokens /\ \A t \in DOMAIN cache : cache[t] \in Exps
    /\ issued \subseteq Tokens
    /\ req \in [Slots -> [pc : {"idle", "auth", "forward", "lookup", "decode", "insert",
                                "pass", "refused"},
                          method : Methods, tok : Tokens \union {NoToken},
                          since : 0..now]]

\* The check that is under way in a slot, as the contract sees it.
CheckOf(s) ==
    LET r == req[s]
        checking == r.pc \in {"lookup", "decode", "insert"}
        decided == r.pc \in {"pass", "refused"} /\ envKey # NoKey /\ r.tok # NoToken
    IN  IF r.method = "jwt" /\ (checking \/ decided)
        THEN {[tok |-> r.tok, since |-> r.since,
               verdict |-> IF checking THEN "none" ELSE IF r.pc = "pass" THEN "accept" ELSE "refuse"]}
        ELSE {}

TC == INSTANCE TokenCheck WITH secret <- envKey, check <- [s \in Slots |-> CheckOf(s)]

\* check_jwt keeps the contract of TokenCheck, which knows no cache: whatever
\* other requests put into JWT_CACHE or it drops between the readings of the
\* clock, a token is accepted only if it is genuine and was valid when the check
\* began, and refused only for a reason that holds.
KeepsContract == TC!Spec

\* The cache holds only tokens whose signature was verified, with their expiry.
CacheHonest ==
    \A t \in DOMAIN cache : t.form = "ok" /\ t.key = envKey /\ cache[t] = t.exp

\* A token that jwt_gen issued is good, until it expires, exactly if JWT_KEY is
\* set: then the API signs with the key that the proxy verifies with, whatever
\* key main.yaml has.  Without JWT_KEY the API still issues tokens, signed with
\* main.yaml's master_key, and the proxy lets no request with a token pass,
\* though README.md:317-318 and 256 have that key do, or the one of the path.
IssuedNeedsJwtKey ==
    [][\A s \in Slots :
          LET becomes(pc) == req[s].pc # pc /\ req'[s].pc = pc
          IN  req[s].method = "jwt" =>
                 /\ becomes("pass") => envKey # NoKey
                 /\ becomes("refused") /\ req[s].tok \in issued =>
                       envKey = NoKey \/ req[s].tok.exp <= now]_vars
=============================================================================
