--------------------------- MODULE RoutingProofs ----------------------------
(***************************************************************************)
(* For any hosts, paths, servers, tables, clients and number of requests   *)
(* and rewrites: the best path is chosen (BestMatch), turns are taken      *)
(* (Balanced), requests between rewrites are served as the table says      *)
(* (CalmService), and a cookie decides only what it may (StickyKept,       *)
(* StaleCookieIgnored, AddressOfRoute).  Routing implements Dispatch       *)
(* (KeepsDispatch).                                                        *)
(*                                                                         *)
(* A descent is a recursive function; it is compared with the function of  *)
(* the longest prefixes, which satisfies the same equation.  The invariant *)
(* says what a rewrite has done so far (TableInv, ByIdInv), what is known  *)
(* of a request at each of its steps (ReqInv, CalmInv), and how much the   *)
(* requests under way can still add to a counter (CountInv).               *)
(***************************************************************************)
EXTENDS Routing, NatLemmas, SequenceTheorems, FiniteSetTheorems

Pcs == {"idle", "host", "route", "reply"}
Request == [pc : Pcs, host : Hosts, path : Paths \cup {Root}, found : SUBSET Hosts,
            route : SUBSET Paths, pick : SUBSET Servers, calm : BOOLEAN]

Single(S) == \A x, y \in S : x = y

\* Every server had q turns, those before the next one had one more.
Turns(e) ==
    \E q \in Nat : \A i \in DOMAIN e.srv :
        e.tally[i] = q + (IF i <= e.idx % Len(e.srv) THEN 1 ELSE 0)

Counting(r) == [srv : {r.srv}, hdr : {r.hdr}, idx : Nat, tally : [DOMAIN r.srv -> Nat]]

TableInv ==
    /\ table \in Tables
    /\ DOMAIN upst \subseteq DOMAIN table /\ wLeft \subseteq DOMAIN table
    /\ \A h \in DOMAIN upst :
          /\ DOMAIN upst[h] = DOMAIN table[h]
          /\ \A p \in DOMAIN upst[h] : upst[h][p] \in Counting(table[h][p]) /\ Turns(upst[h][p])
    /\ wPc \in {"idle", "clear", "upst", "byid"}
    /\ wPc = "upst" => DOMAIN table = DOMAIN upst \cup wLeft /\ DOMAIN upst \cap wLeft = {}
    /\ wPc \in {"idle", "byid"} => DOMAIN upst = DOMAIN table

\* The entries of the hosts whose identifiers are put back.
Refilled == UNION {ServersOf(h, table[h]) : h \in DOMAIN table \ wLeft}

ByIdInv ==
    /\ byid \subseteq [host : Hosts, srv : Servers]
    /\ \A d, e \in byid : Id(d) = Id(e) => d = e
    /\ wPc = "byid" => OnePerId(byid, Refilled)
    /\ wPc \in {"idle", "clear"} => OnePerId(byid, EntriesOf(table))

\* What a cookie may hold.
Idents == {Id(e) : e \in [host : Hosts, srv : Servers]}

ReqOK(r) ==
    /\ Single(r.found) /\ Single(r.pick) /\ r.found \subseteq {r.host, DEFAULT}
    /\ r.pc # "idle" => r.path \in Paths \ {<< >>}
    /\ r.pc \in {"host", "route"} => r.pick = {} /\ r.route = {}

ReqInv ==
    /\ req \in [Clients -> Request]
    /\ jar \in [Clients -> SUBSET Idents]
    /\ \A c \in Clients : ReqOK(req[c]) /\ Single(jar[c])

\* The host that serves h, and the path of it that serves path.
HostFor(h) == IF h \in DOMAIN table THEN {h} ELSE {DEFAULT} \cap DOMAIN table
BestFor(hs, path) == UNION {Longest(table[x], path, Usable) : x \in hs}

CalmOK(r) ==
    r.calm => /\ r.pc # "idle" => wPc = "idle"
              /\ r.pc \in {"route", "reply"} => r.found = HostFor(r.host)
              /\ r.pc = "reply" => /\ r.route = BestFor(r.found, r.path)
                                   /\ r.pick = {} <=> r.route = {}

CalmInv == \A c \in Clients : CalmOK(req[c])

\* The requests that may still take a turn.
Waiting == {c \in Clients : req[c].pc \in {"host", "route"}}

CountInv ==
    /\ reqs \in 0..MaxReqs /\ writes \in 0..MaxWrites
    /\ IsFiniteSet(Waiting) /\ Cardinality(Waiting) <= reqs
    /\ \A h \in DOMAIN upst : \A p \in DOMAIN upst[h] :
          upst[h][p].idx + Cardinality(Waiting) <= reqs

RoutingInv == TableInv /\ ByIdInv /\ ReqInv /\ CalmInv /\ CountInv

-----------------------------------------------------------------------------
(* The descents through the prefixes of a path *)

Prefix(path, n) == SubSeq(path, 1, n)

\* A function that descends from the whole path to the prefix of length lo, and
\* stops at the first one that is in U.
Descends(f, U, path, lo) ==
    f = [n \in lo..Len(path) |->
            IF Prefix(path, n) \in U THEN {Prefix(path, n)}
            ELSE IF n > lo THEN f[n - 1] ELSE {q \in {Root} : q \in U}]

\* The lengths, up to n, of the prefixes in U.
Fits(U, path, lo, n) == {k \in lo..n : Prefix(path, k) \in U}

\* The longest of these prefixes, or "/".
Best(U, path, lo, n) ==
    LET fits == Fits(U, path, lo, n)
    IN  IF fits # {} THEN {Prefix(path, k) : k \in {j \in fits : \A i \in fits : i <= j}}
                     ELSE {q \in {Root} : q \in U}

\* What the longest prefix up to n is, given the one up to n - 1.
LEMMA BestStep ==
    ASSUME NEW U, NEW path, Len(path) \in Nat, NEW lo \in Nat, NEW n \in lo..Len(path)
    PROVE  Best(U, path, lo, n) =
              IF Prefix(path, n) \in U THEN {Prefix(path, n)}
              ELSE IF n > lo THEN Best(U, path, lo, n - 1) ELSE {q \in {Root} : q \in U}
<1> DEFINE fits == Fits(U, path, lo, n)
<1>1. CASE Prefix(path, n) \in U
  <2>1. n \in fits /\ \A k \in fits : k \in Nat /\ k <= n
    BY <1>1 DEF Fits
  <2>2. {j \in fits : \A i \in fits : i <= j} = {n}
    BY <2>1
  <2>3. Best(U, path, lo, n) = {Prefix(path, k) : k \in {n}}
    <3> HIDE DEF fits
    <3>1. fits # {}
      BY <2>1
    <3> QED
      BY <3>1, <2>2 DEF Best, fits
  <2> QED
    BY <1>1, <2>3
<1>2. CASE Prefix(path, n) \notin U /\ n > lo
  <2>1. fits = Fits(U, path, lo, n - 1)
    BY <1>2 DEF Fits
  <2> QED
    BY <1>2, <2>1 DEF Best
<1>3. CASE Prefix(path, n) \notin U /\ ~(n > lo)
  <2>1. n = lo
    BY <1>3
  <2>2. fits = {}
    BY <1>3, <2>1 DEF Fits
  <2> QED
    BY <1>3, <2>2 DEF Best
<1> QED
  BY <1>1, <1>2, <1>3

\* There is a descent.
LEMMA DescentExists ==
    ASSUME NEW U, NEW path, Len(path) \in Nat, NEW lo \in Nat
    PROVE  Descends([n \in lo..Len(path) |-> Best(U, path, lo, n)], U, path, lo)
<1> DEFINE f == [n \in lo..Len(path) |-> Best(U, path, lo, n)]
<1>1. ASSUME NEW n \in lo..Len(path)
      PROVE  f[n] = IF Prefix(path, n) \in U THEN {Prefix(path, n)}
                    ELSE IF n > lo THEN f[n - 1] ELSE {q \in {Root} : q \in U}
  <2>1. n > lo => n - 1 \in lo..Len(path)
    OBVIOUS
  <2> QED
    BY <2>1, BestStep
<1> QED
  BY <1>1 DEF Descends

\* It ends at the longest prefix: a shortest path for which it did not would
\* have been preceded by one.
LEMMA DescentEnds ==
    ASSUME NEW U, NEW path, Len(path) \in Nat, NEW lo \in Nat, lo <= Len(path),
           NEW f, Descends(f, U, path, lo)
    PROVE  f[Len(path)] = Best(U, path, lo, Len(path))
<1> DEFINE T == {n \in lo..Len(path) : f[n] # Best(U, path, lo, n)}
<1>0. ASSUME NEW n \in lo..Len(path)
      PROVE  f[n] = IF Prefix(path, n) \in U THEN {Prefix(path, n)}
                    ELSE IF n > lo THEN f[n - 1] ELSE {q \in {Root} : q \in U}
  BY DEF Descends
<1>1. SUFFICES ASSUME T # {} PROVE FALSE
  <2>1. Len(path) \in lo..Len(path)
    OBVIOUS
  <2> QED
    BY <2>1
<1>2. T \in SUBSET Nat
  OBVIOUS
<1>3. PICK n \in T : \A m \in T : n <= m
  <2> HIDE DEF T
  <2> QED
    BY <1>1, <1>2, LeastNumber
<1>4. n \in lo..Len(path) /\ f[n] # Best(U, path, lo, n)
  BY <1>3
<1>5. n > lo => f[n - 1] = Best(U, path, lo, n - 1)
  BY <1>3, <1>4
<1>6. Best(U, path, lo, n) =
         IF Prefix(path, n) \in U THEN {Prefix(path, n)}
         ELSE IF n > lo THEN Best(U, path, lo, n - 1) ELSE {q \in {Root} : q \in U}
  BY <1>4, BestStep
<1>7. f[n] = IF Prefix(path, n) \in U THEN {Prefix(path, n)}
             ELSE IF n > lo THEN f[n - 1] ELSE {q \in {Root} : q \in U}
  BY <1>0, <1>4
<1> QED
  BY <1>4, <1>5, <1>6, <1>7

\* The longest of the members of U that are prefixes of path, or "/".
LongestIn(U, path) ==
    LET fit == {p \in U : IsPrefix(p, path)}
    IN  IF fit # {} THEN {p \in fit : \A q \in fit : Len(q) <= Len(p)}
                    ELSE {q \in {Root} : q \in U}

\* Prefixes are given by their lengths.
LEMMA PrefixLength ==
    ASSUME NEW path, path \in Seq(Range(path)), NEW p, p \in Seq(Range(p))
    PROVE  /\ IsPrefix(p, path) <=> Len(p) \in 0..Len(path) /\ p = Prefix(path, Len(p))
           /\ \A k \in 0..Len(path) : Len(Prefix(path, k)) = k /\ IsPrefix(Prefix(path, k), path)
<1>1. Len(path) \in Nat /\ Len(p) \in Nat
  OBVIOUS
<1>2. SubSeq(p, 1, Len(p)) = p
  BY SubSeqFull
<1>3. IsPrefix(p, path) <=> Len(p) \in 0..Len(path) /\ p = Prefix(path, Len(p))
  BY <1>1, <1>2 DEF IsPrefix, Prefix
<1>4. ASSUME NEW k \in 0..Len(path)
      PROVE  Len(Prefix(path, k)) = k /\ IsPrefix(Prefix(path, k), path)
  <2>1. \A i \in 1..k : path[i] \in Range(path)
    BY <1>1
  <2>2. Prefix(path, k) \in Seq(Range(path)) /\ Len(Prefix(path, k)) = k
    BY <1>1, <2>1, SubSeqProperties DEF Prefix
  <2>3. SubSeq(Prefix(path, k), 1, k) = Prefix(path, k)
    BY <2>2, SubSeqFull
  <2> QED
    BY <1>1, <2>2, <2>3 DEF IsPrefix, Prefix
<1> QED
  BY <1>3, <1>4

\* The longest prefix by its length is the longest one.
LEMMA BestIsLongest ==
    ASSUME NEW U, \A p \in U : p \in Seq(Range(p)), NEW path, path \in Seq(Range(path)),
           NEW lo \in {0, 1}, \A p \in U : Len(p) >= lo
    PROVE  Best(U, path, lo, Len(path)) = LongestIn(U, path)
<1> DEFINE fits == Fits(U, path, lo, Len(path))
           fit == {p \in U : IsPrefix(p, path)}
<1>0. Len(path) \in Nat
  OBVIOUS
<1>1. \A k \in fits : k \in 0..Len(path) /\ k \in Nat /\ Prefix(path, k) \in fit
                        /\ Len(Prefix(path, k)) = k
  BY <1>0, PrefixLength DEF Fits
<1>2. \A p \in fit : Len(p) \in fits /\ p = Prefix(path, Len(p))
  <2> SUFFICES ASSUME NEW p \in fit PROVE Len(p) \in fits /\ p = Prefix(path, Len(p))
    OBVIOUS
  <2>1. Len(p) \in 0..Len(path) /\ p = Prefix(path, Len(p)) /\ Len(p) >= lo
    BY PrefixLength
  <2> QED
    BY <1>0, <2>1 DEF Fits
<1> HIDE DEF fits, fit
<1>3. CASE fits = {}
  <2>1. fit = {}
    BY <1>2, <1>3
  <2> QED
    BY <1>3, <2>1 DEF Best, LongestIn, fits, fit
<1>4. CASE fits # {}
  <2> DEFINE long == {j \in fits : \A i \in fits : i <= j}
  <2>1. fit # {}
    BY <1>1, <1>4
  <2>2. Best(U, path, lo, Len(path)) = {Prefix(path, k) : k \in long}
    BY <1>4 DEF Best, fits
  <2>3. LongestIn(U, path) = {p \in fit : \A q \in fit : Len(q) <= Len(p)}
    BY <2>1 DEF LongestIn, fit
  <2>4. ASSUME NEW k \in long
        PROVE  Prefix(path, k) \in fit /\ \A q \in fit : Len(q) <= Len(Prefix(path, k))
    BY <1>1, <1>2
  <2>5. ASSUME NEW p \in fit, \A q \in fit : Len(q) <= Len(p)
        PROVE  Len(p) \in long /\ p = Prefix(path, Len(p))
    <3>1. ASSUME NEW i \in fits PROVE i <= Len(p)
      BY <1>1, <2>5
    <3> QED
      BY <1>2, <3>1
  <2> QED
    BY <2>2, <2>3, <2>4, <2>5
<1> QED
  BY <1>3, <1>4

\* get_host ends at the longest prefix that has servers, or at "/".
LEMMA GetPathIsLongest ==
    ASSUME NEW ps, DOMAIN ps \subseteq Paths, NEW path \in Paths
    PROVE  GetPath(ps, path) = Longest(ps, path, Usable)
<1> DEFINE U == {p \in DOMAIN ps : Usable(ps, p)}
           try[n \in 0..Len(path)] ==
               LET p == SubSeq(path, 1, n) IN
               IF Usable(ps, p) THEN {p}
               ELSE IF n > 0 THEN try[n - 1]
               ELSE {q \in {Root} : Usable(ps, q)}
<1>1. GetPath(ps, path) = try[Len(path)]
  BY Zenon DEF GetPath
<1>2. \A p : Usable(ps, p) <=> p \in U
  BY DEF Usable
<1>3. path \in Seq(Range(path)) /\ \A p \in U : p \in Seq(Range(p))
  BY PathsAssumption
<1>4. Len(path) \in Nat /\ 0 <= Len(path) /\ \A p \in U : Len(p) >= 0
  BY <1>3
<1> DEFINE Body(f) == [n \in 0..Len(path) |->
                         LET p == SubSeq(path, 1, n) IN
                         IF Usable(ps, p) THEN {p}
                         ELSE IF n > 0 THEN f[n - 1]
                         ELSE {q \in {Root} : Usable(ps, q)}]
<1>5. try = CHOOSE f : f = Body(f)
  BY Zenon
<1> HIDE DEF U, try
<1>6. \A f : f = Body(f) <=> Descends(f, U, path, 0)
  BY <1>2 DEF Descends, Prefix
<1> HIDE DEF Body
<1>7. \E f : f = Body(f)
  BY <1>4, <1>6, DescentExists
<1>8. try = Body(try)
  BY <1>5, <1>7, Zenon
<1>9. Descends(try, U, path, 0)
  BY <1>6, <1>8
<1>10. try[Len(path)] = Best(U, path, 0, Len(path))
  BY <1>4, <1>9, DescentEnds
<1>11. Best(U, path, 0, Len(path)) = LongestIn(U, path)
  BY <1>3, <1>4, BestIsLongest
<1>12. Longest(ps, path, Usable) = LongestIn(U, path)
  <2>1. {p \in DOMAIN ps : Usable(ps, p) /\ IsPrefix(p, path)} = {p \in U : IsPrefix(p, path)}
    BY DEF U
  <2>2. {p \in {Root} : Usable(ps, p)} = {q \in {Root} : q \in U}
    BY <1>2
  <2> QED
    BY <2>1, <2>2 DEF Longest, LongestIn
<1> QED
  BY <1>1, <1>10, <1>11, <1>12

\* get_header ends at the longest prefix that has headers, or at "/", and never
\* looks at the path "".
LEMMA GetHeaderPathIsLongest ==
    ASSUME NEW e, NEW D \in SUBSET Paths, NEW path \in Paths \ {<< >>}
    PROVE  GetHeaderPath([p \in D |-> e[p]], path)
              = Longest([p \in D \ {<< >>} |-> e[p]], path, HasHeaders)
<1>0. PICK ps : ps = [p \in D |-> e[p]]
  OBVIOUS
<1>00. PICK qs : qs = [p \in D \ {<< >>} |-> e[p]]
  OBVIOUS
<1> DEFINE U == {p \in D \ {<< >>} : e[p].hdr}
           try[n \in 1..Len(path)] ==
               LET p == SubSeq(path, 1, n) IN
               IF HasHeaders(ps, p) THEN {p}
               ELSE IF n > 1 THEN try[n - 1]
               ELSE {q \in {Root} : HasHeaders(ps, q)}
<1>1. GetHeaderPath(ps, path) = try[Len(path)]
  BY Zenon DEF GetHeaderPath
<1>2. /\ \A p : p # << >> => (HasHeaders(ps, p) <=> p \in U)
      /\ \A p : HasHeaders(qs, p) <=> p \in U
  BY <1>0, <1>00 DEF HasHeaders
<1>3. path \in Seq(Range(path)) /\ \A p \in U : p \in Seq(Range(p)) /\ p # << >>
  BY PathsAssumption
<1>4. Len(path) \in Nat /\ 1 <= Len(path) /\ \A p \in U : Len(p) >= 1
  BY <1>3
<1>5. Root # << >> /\ \A n \in 1..Len(path) : SubSeq(path, 1, n) # << >>
  <2>1. ASSUME NEW n \in 1..Len(path) PROVE Len(Prefix(path, n)) = n /\ n # 0
    BY <1>3, <1>4, PrefixLength
  <2> QED
    BY <2>1 DEF Root, Prefix
<1> DEFINE Body(f) == [n \in 1..Len(path) |->
                         LET p == SubSeq(path, 1, n) IN
                         IF HasHeaders(ps, p) THEN {p}
                         ELSE IF n > 1 THEN f[n - 1]
                         ELSE {q \in {Root} : HasHeaders(ps, q)}]
<1>6. try = CHOOSE f : f = Body(f)
  BY Zenon
<1> HIDE DEF U, try
<1>7. \A f : f = Body(f) <=> Descends(f, U, path, 1)
  BY <1>2, <1>5 DEF Descends, Prefix
<1> HIDE DEF Body
<1>8. \E f : f = Body(f)
  BY <1>4, <1>7, DescentExists
<1>9. try = Body(try)
  BY <1>6, <1>8, Zenon
<1>10. Descends(try, U, path, 1)
  BY <1>7, <1>9
<1>11. try[Len(path)] = Best(U, path, 1, Len(path))
  BY <1>4, <1>10, DescentEnds
<1>12. Best(U, path, 1, Len(path)) = LongestIn(U, path)
  BY <1>3, <1>4, BestIsLongest
<1>13. Longest(qs, path, HasHeaders) = LongestIn(U, path)
  <2>1. {p \in DOMAIN qs : HasHeaders(qs, p) /\ IsPrefix(p, path)} = {p \in U : IsPrefix(p, path)}
    BY <1>2, <1>00 DEF U
  <2>2. {p \in {Root} : HasHeaders(qs, p)} = {q \in {Root} : q \in U}
    BY <1>2
  <2> QED
    BY <2>1, <2>2 DEF Longest, LongestIn
<1> QED
  BY <1>0, <1>00, <1>1, <1>11, <1>12, <1>13

\* At most one path is found, and it has servers.
LEMMA OnePath ==
    ASSUME NEW ps, DOMAIN ps \subseteq Paths, NEW path \in Paths
    PROVE  Single(GetPath(ps, path)) /\ \A p \in GetPath(ps, path) : Usable(ps, p)
<1> DEFINE fit == {p \in DOMAIN ps : Usable(ps, p) /\ IsPrefix(p, path)}
<1>1. GetPath(ps, path) = IF fit # {} THEN {p \in fit : \A q \in fit : Len(q) <= Len(p)}
                                      ELSE {p \in {Root} : Usable(ps, p)}
  BY GetPathIsLongest DEF Longest
<1>2. \A p \in fit : Len(p) \in Nat /\ p = Prefix(path, Len(p))
  BY PathsAssumption, PrefixLength
<1>3. \A p, q \in fit : Len(p) <= Len(q) /\ Len(q) <= Len(p) => p = q
  <2> SUFFICES ASSUME NEW p \in fit, NEW q \in fit, Len(p) <= Len(q), Len(q) <= Len(p)
               PROVE  p = q
    OBVIOUS
  <2>1. Len(p) = Len(q)
    BY <1>2
  <2>2. p = Prefix(path, Len(p)) /\ q = Prefix(path, Len(q))
    BY <1>2
  <2> QED
    BY <2>1, <2>2
<1>4. \A p \in fit : Usable(ps, p)
  OBVIOUS
<1> HIDE DEF fit
<1> QED
  BY <1>1, <1>3, <1>4 DEF Single

-----------------------------------------------------------------------------
(* The entries of the tables *)

\* A route of a table.
LEMMA RouteOf ==
    ASSUME NEW t \in Tables, NEW h \in DOMAIN t
    PROVE  /\ h \in Hosts /\ DOMAIN t[h] \subseteq Paths
           /\ \A p \in DOMAIN t[h] : t[h][p] \in Route
BY TablesAssumption

\* Turns, with the remainder of the counter given.
LEMMA TurnsAre ==
    ASSUME NEW e, NEW k, e.idx % Len(e.srv) = k, NEW q \in Nat,
           \A i \in DOMAIN e.srv : e.tally[i] = q + (IF i <= k THEN 1 ELSE 0)
    PROVE  Turns(e)
BY Zenon DEF Turns

\* An entry starts with all its turns to come.
LEMMA EntryStarts ==
    ASSUME NEW ps, \A p \in DOMAIN ps : ps[p] \in Route
    PROVE  /\ DOMAIN Entry(ps) = DOMAIN ps
           /\ \A p \in DOMAIN ps : /\ Entry(ps)[p] \in Counting(ps[p]) /\ Turns(Entry(ps)[p])
                                   /\ Entry(ps)[p].idx = 0
<1>1. DOMAIN Entry(ps) = DOMAIN ps
  BY DEF Entry
<1>2. ASSUME NEW p \in DOMAIN ps
      PROVE  /\ Entry(ps)[p] \in Counting(ps[p]) /\ Turns(Entry(ps)[p])
             /\ Entry(ps)[p].idx = 0
  <2>1. PICK e : e = [srv |-> ps[p].srv, hdr |-> ps[p].hdr, idx |-> 0,
                      tally |-> [i \in DOMAIN ps[p].srv |-> 0]]
    OBVIOUS
  <2>2. Entry(ps)[p] = e
    BY <2>1 DEF Entry
  <2>3. e \in Counting(ps[p])
    BY <2>1 DEF Counting
  <2>4. Turns(e)
    <3>1. e.srv \in Seq(Servers) /\ e.idx = 0 /\ \A i \in DOMAIN e.srv : e.tally[i] = 0
      BY <2>1 DEF Route
    <3>2. CASE e.srv = << >>
      <4>1. DOMAIN e.srv = {} /\ 0 \in Nat
        BY <3>2
      <4> QED
        BY <4>1, TurnsAre
    <3>3. CASE e.srv # << >>
      <4>1. Len(e.srv) \in Nat \ {0}
        BY <3>1, <3>3
      <4>2. 0 % Len(e.srv) = 0
        BY <4>1, ZeroRemainder
      <4>3. e.idx % Len(e.srv) = 0
        BY <3>1, <4>2, Zenon
      <4>4. \A i \in DOMAIN e.srv : e.tally[i] = 0 + (IF i <= 0 THEN 1 ELSE 0)
        BY <3>1
      <4>5. 0 \in Nat
        OBVIOUS
      <4> QED
        BY <4>3, <4>4, <4>5, TurnsAre
    <3> QED
      BY <3>2, <3>3
  <2> QED
    BY <2>1, <2>2, <2>3, <2>4
<1> QED
  BY <1>1, <1>2

\* The next turn is one of the servers, and the turns go on.
LEMMA NextTurn ==
    ASSUME NEW r \in Route, NEW e \in Counting(r), Turns(e), e.srv # << >>
    PROVE  /\ Position(e) \in DOMAIN e.srv /\ e.srv[Position(e)] \in Servers
           /\ Advance(e) \in Counting(r) /\ Turns(Advance(e))
           /\ Advance(e).idx = e.idx + 1
<1>1. /\ e.srv = r.srv /\ e.hdr = r.hdr /\ e.idx \in Nat /\ e.tally \in [DOMAIN r.srv -> Nat]
      /\ e.srv \in Seq(Servers)
  BY DEF Counting, Route
<1>2. Len(e.srv) \in Nat \ {0} /\ DOMAIN e.srv = 1..Len(e.srv)
  BY <1>1
<1> DEFINE l == Len(e.srv)   k == e.idx % l
<1>3. k \in 0..(l - 1) /\ (e.idx + 1) % l = IF k = l - 1 THEN 0 ELSE k + 1
  BY <1>1, <1>2, NextRemainder
<1>4. Position(e) = k + 1
  BY DEF Position
<1> HIDE DEF k, l
<1>5. k \in Nat /\ l \in Nat \ {0} /\ k + 1 \in 1..l
  BY <1>2, <1>3 DEF l
<1>6. Position(e) \in DOMAIN e.srv
  BY <1>2, <1>4, <1>5 DEF l
<1>7. e.srv[Position(e)] \in Servers
  BY <1>1, <1>6
<1>8. PICK f : f = [e.tally EXCEPT ![Position(e)] = e.tally[Position(e)] + 1]
  OBVIOUS
<1>9. /\ f \in [DOMAIN r.srv -> Nat]
      /\ \A i \in DOMAIN e.srv : f[i] = IF i = k + 1 THEN e.tally[i] + 1 ELSE e.tally[i]
  BY <1>1, <1>4, <1>6, <1>8
<1>10. PICK a : a = [srv |-> r.srv, hdr |-> r.hdr, idx |-> e.idx + 1, tally |-> f]
  OBVIOUS
<1>11. Advance(e) = a
  <2>1. e = [srv |-> r.srv, hdr |-> r.hdr, idx |-> e.idx, tally |-> e.tally]
    BY DEF Counting
  <2>2. Advance(e) = [e EXCEPT !.idx = e.idx + 1, !.tally = f]
    BY <1>8 DEF Advance
  <2>3. PICK m, n, x : m = e.idx /\ n = e.tally /\ x = e.idx + 1
    OBVIOUS
  <2>4. e = [srv |-> r.srv, hdr |-> r.hdr, idx |-> m, tally |-> n]
    BY <2>1, <2>3
  <2>5. [e EXCEPT !.idx = x, !.tally = f] = [srv |-> r.srv, hdr |-> r.hdr, idx |-> x, tally |-> f]
    <3>1. PICK b : b = [e EXCEPT !.idx = x]
      OBVIOUS
    <3>2. b = [srv |-> r.srv, hdr |-> r.hdr, idx |-> x, tally |-> n]
      BY <2>4, <3>1
    <3>3. [e EXCEPT !.idx = x, !.tally = f] = [b EXCEPT !.tally = f]
      BY <2>4, <3>1
    <3> QED
      BY <3>2, <3>3
  <2> QED
    BY <1>10, <2>2, <2>3, <2>5
<1>12. /\ a \in Counting(r) /\ a.idx = e.idx + 1 /\ a.srv = e.srv /\ a.tally = f
  BY <1>1, <1>9, <1>10 DEF Counting
<1>13. Turns(a)
  <2>1. PICK q \in Nat : \A i \in DOMAIN e.srv : e.tally[i] = q + (IF i <= k THEN 1 ELSE 0)
    BY DEF Turns, k, l
  <2>2. \A i \in DOMAIN e.srv : i \in 1..l
    BY <1>2 DEF l
  <2>3. CASE k = l - 1
    <3>1. (e.idx + 1) % l = 0
      BY <1>3, <2>3
    <3>2. ASSUME NEW i \in DOMAIN e.srv PROVE f[i] = (q + 1) + (IF i <= 0 THEN 1 ELSE 0)
      BY <1>5, <1>9, <2>1, <2>2, <2>3
    <3>3. q + 1 \in Nat /\ a.idx % Len(a.srv) = 0
      BY <1>12, <3>1 DEF l
    <3> QED
      BY <1>12, <3>2, <3>3, TurnsAre
  <2>4. CASE k # l - 1
    <3>1. (e.idx + 1) % l = k + 1
      BY <1>3, <2>4
    <3>2. ASSUME NEW i \in DOMAIN e.srv PROVE f[i] = q + (IF i <= k + 1 THEN 1 ELSE 0)
      BY <1>5, <1>9, <2>1, <2>2
    <3>3. a.idx % Len(a.srv) = k + 1
      BY <1>12, <3>1 DEF l
    <3> QED
      BY <1>12, <3>2, <3>3, TurnsAre
  <2> QED
    BY <2>3, <2>4
<1> QED
  BY <1>6, <1>7, <1>11, <1>12, <1>13

\* What is chosen from an entry is what the table says.
LEMMA SamePath ==
    ASSUME TableInv, NEW h \in DOMAIN upst, NEW path \in Paths
    PROVE  /\ DOMAIN upst[h] \subseteq Paths
           /\ GetPath(upst[h], path) = Longest(table[h], path, Usable)
<1>1. /\ h \in DOMAIN table /\ DOMAIN upst[h] = DOMAIN table[h] /\ DOMAIN upst[h] \subseteq Paths
  BY RouteOf DEF TableInv
<1>2. \A p \in DOMAIN upst[h] : upst[h][p].srv = table[h][p].srv
  BY DEF TableInv, Counting
<1>3. \A p : Usable(upst[h], p) <=> Usable(table[h], p)
  BY <1>1, <1>2 DEF Usable
<1>4. Longest(upst[h], path, Usable) = Longest(table[h], path, Usable)
  <2>1. {p \in DOMAIN upst[h] : Usable(upst[h], p) /\ IsPrefix(p, path)}
           = {p \in DOMAIN table[h] : Usable(table[h], p) /\ IsPrefix(p, path)}
    BY <1>1, <1>3
  <2>2. {p \in {Root} : Usable(upst[h], p)} = {p \in {Root} : Usable(table[h], p)}
    BY <1>3
  <2> QED
    BY <2>1, <2>2 DEF Longest
<1> QED
  BY <1>1, <1>4, GetPathIsLongest

\* An identifier has the host, the address and the hashed options.
LEMMA IdFields ==
    ASSUME NEW h, NEW v
    PROVE  /\ IdOf(h, v).host = h /\ IdOf(h, v).addr = v.addr /\ IdOf(h, v).opt = v.opt
           /\ \A e : Id(e).host = e.host /\ Id(e).addr = e.srv.addr
BY DEF Id, IdOf

\* The entries of a host are of that host, and have its servers.
LEMMA ServersOfHost ==
    ASSUME NEW t \in Tables, NEW h \in DOMAIN t
    PROVE  /\ ServersOf(h, t[h]) \subseteq [host : {h}, srv : Servers]
           /\ ServersOf(h, t[h]) \subseteq [host : Hosts, srv : Servers]
<1>1. ASSUME NEW p \in DOMAIN t[h]
      PROVE  h \in Hosts /\ Range(t[h][p].srv) \subseteq Servers
  <2>1. h \in Hosts /\ t[h][p].srv \in Seq(Servers)
    BY RouteOf DEF Route
  <2>2. PICK s \in Seq(Servers) : s = t[h][p].srv
    BY <2>1
  <2>3. Range(s) \subseteq Servers
    BY DEF Range
  <2> QED
    BY <2>1, <2>2, <2>3
<1>2. ASSUME NEW e \in ServersOf(h, t[h])
      PROVE  e \in [host : {h}, srv : Servers] /\ e \in [host : Hosts, srv : Servers]
  <2>1. PICK p \in DOMAIN t[h] : e \in [host : {h}, srv : Range(t[h][p].srv)]
    BY <1>2 DEF ServersOf
  <2> QED
    BY <1>1, <2>1
<1> QED
  BY <1>2

\* The entries of a table name its hosts and servers.
LEMMA EntriesTyped ==
    ASSUME NEW t \in Tables
    PROVE  EntriesOf(t) \subseteq [host : Hosts, srv : Servers]
BY ServersOfHost DEF EntriesOf

\* A client that waits for nothing.
LEMMA IdleRequest ==
    /\ Idle \in Request /\ ReqOK(Idle) /\ CalmOK(Idle) /\ Idle.pc = "idle"
    /\ Idle.found = {} /\ Idle.route = {} /\ Idle.pick = {}
BY DefaultAssumption DEF Idle, Request, Pcs, ReqOK, CalmOK, Single

-----------------------------------------------------------------------------
(* The invariant, step by step *)

\* One request changes: the others keep their part of the invariant.
LEMMA Requested ==
    ASSUME ReqInv, CalmInv, NEW c \in Clients, NEW r \in Request, ReqOK(r), CalmOK(r),
           req' = [req EXCEPT ![c] = r], UNCHANGED <<table, wPc>>,
           jar' \in [Clients -> SUBSET Idents],
           \A d \in Clients : Single(jar'[d])
    PROVE  ReqInv' /\ CalmInv'
<1>1. req \in [Clients -> Request]
  BY DEF ReqInv
<1>2. req' \in [Clients -> Request] /\ \A d \in Clients : req'[d] = IF d = c THEN r ELSE req[d]
  BY <1>1
<1>3. ReqInv'
  BY <1>2 DEF ReqInv
<1>4. \A q \in Request : CalmOK(q)' <=> CalmOK(q)
  BY DEF CalmOK, HostFor, BestFor
<1>5. ASSUME NEW d \in Clients PROVE CalmOK(req[d])'
  <2>1. PICK q \in Request : q = req'[d]
    BY <1>2
  <2>2. CalmOK(q)
    BY <1>2, <2>1 DEF CalmInv
  <2>3. CalmOK(q)'
    BY <1>4, <2>2
  <2> QED
    BY <2>1, <2>3
<1> QED
  BY <1>3, <1>5 DEF CalmInv

Waits(r) == r.pc \in {"host", "route"}

\* How the number of waiting requests changes with one request.
LEMMA Counted ==
    ASSUME ReqInv, CountInv, NEW c \in Clients, NEW r \in Request, req' = [req EXCEPT ![c] = r]
    PROVE  /\ IsFiniteSet(Waiting') /\ Cardinality(Waiting) \in Nat
           /\ (Waits(req[c]) <=> Waits(r)) => Cardinality(Waiting') = Cardinality(Waiting)
           /\ ~Waits(req[c]) /\ Waits(r) => Cardinality(Waiting') = Cardinality(Waiting) + 1
           /\ Waits(req[c]) /\ ~Waits(r) => Cardinality(Waiting') = Cardinality(Waiting) - 1
<1>1. req \in [Clients -> Request] /\ IsFiniteSet(Waiting)
  BY DEF ReqInv, CountInv
<1>2. \A d \in Clients : req'[d] = IF d = c THEN r ELSE req[d]
  BY <1>1
<1>3. Waiting' = IF Waits(r) THEN Waiting \cup {c} ELSE Waiting \ {c}
  BY <1>2 DEF Waiting, Waits
<1>4. c \in Waiting <=> Waits(req[c])
  BY DEF Waiting, Waits
<1>5. Cardinality(Waiting) \in Nat
  BY <1>1, FS_CardinalityType
<1>6. /\ IsFiniteSet(Waiting \cup {c})
      /\ Cardinality(Waiting \cup {c}) =
            IF c \in Waiting THEN Cardinality(Waiting) ELSE Cardinality(Waiting) + 1
  BY <1>1, FS_AddElement, Zenon
<1>7. /\ IsFiniteSet(Waiting \ {c})
      /\ Cardinality(Waiting \ {c}) =
            IF c \in Waiting THEN Cardinality(Waiting) - 1 ELSE Cardinality(Waiting)
  BY <1>1, FS_RemoveElement, Zenon
<1> QED
  BY <1>3, <1>4, <1>5, <1>6, <1>7

\* The initial state.
LEMMA InitHolds ==
    ASSUME Init
    PROVE  RoutingInv
<1>1. /\ table \in Tables /\ upst = [h \in DOMAIN table |-> Entry(table[h])]
      /\ OnePerId(byid, EntriesOf(table)) /\ wPc = "idle" /\ wLeft = {} /\ writes = 0 /\ reqs = 0
      /\ req = [c \in Clients |-> Idle] /\ jar = [c \in Clients |-> {}]
  BY DEF Init
<1>2. ASSUME NEW h \in DOMAIN table
      PROVE  /\ DOMAIN upst[h] = DOMAIN table[h]
             /\ \A p \in DOMAIN upst[h] : /\ upst[h][p] \in Counting(table[h][p])
                                          /\ Turns(upst[h][p]) /\ upst[h][p].idx = 0
  <2>1. \A p \in DOMAIN table[h] : table[h][p] \in Route
    BY <1>1, RouteOf
  <2>2. upst[h] = Entry(table[h])
    BY <1>1
  <2> QED
    BY <2>1, <2>2, EntryStarts
<1>3. TableInv
  <2>1. DOMAIN upst = DOMAIN table
    BY <1>1
  <2> QED
    BY <1>1, <1>2, <2>1 DEF TableInv
<1>4. ByIdInv
  <2>1. EntriesOf(table) \subseteq [host : Hosts, srv : Servers]
    BY <1>1, EntriesTyped
  <2> QED
    BY <1>1, <2>1 DEF ByIdInv, OnePerId
<1>5. Idle \in Request /\ ReqOK(Idle) /\ CalmOK(Idle) /\ ~Waits(Idle)
  BY IdleRequest DEF Waits
<1>6. ReqInv /\ CalmInv
  BY <1>1, <1>5 DEF ReqInv, CalmInv, Single
<1>7. CountInv
  <2>1. Waiting = {}
    BY <1>1, <1>5 DEF Waiting, Waits
  <2>2. IsFiniteSet(Waiting) /\ Cardinality(Waiting) = 0
    BY <2>1, FS_EmptySet
  <2>3. \A h \in DOMAIN upst : \A p \in DOMAIN upst[h] : upst[h][p].idx = 0
    BY <1>1, <1>2
  <2> QED
    BY <1>1, <2>2, <2>3, BoundsAssumption DEF CountInv
<1> QED
  BY <1>3, <1>4, <1>6, <1>7 DEF RoutingInv

\* The tables do not change.
LEMMA TablesStand ==
    ASSUME TableInv, ByIdInv, UNCHANGED writer
    PROVE  TableInv' /\ ByIdInv'
BY DEF TableInv, ByIdInv, Refilled, writer

\* A request arrives.
LEMMA ArriveHolds ==
    ASSUME RoutingInv, NEW c \in Clients, NEW h \in Hosts, NEW p \in Paths \ {<< >>},
           Arrive(c, h, p)
    PROVE  RoutingInv'
<1> USE DEF RoutingInv
<1>0. PICK r : r = [Idle EXCEPT !.pc = "host", !.host = h, !.path = p, !.calm = (wPc = "idle")]
  OBVIOUS
<1>1. /\ req[c].pc = "idle" /\ reqs < MaxReqs /\ req' = [req EXCEPT ![c] = r]
      /\ reqs' = reqs + 1 /\ UNCHANGED writer /\ UNCHANGED jar
  BY <1>0 DEF Arrive
<1>2. /\ r \in Request /\ r.pc = "host" /\ r.path = p /\ r.found = {} /\ r.route = {}
      /\ r.pick = {}
  BY <1>0, IdleRequest DEF Request, Pcs
<1>3. r.calm = (wPc = "idle")
  BY <1>0 DEF Idle
<1>4. ReqOK(r) /\ CalmOK(r)
  BY <1>2, <1>3 DEF ReqOK, CalmOK, Single
<1>5. ReqInv' /\ CalmInv'
  <2>1. UNCHANGED <<table, wPc>>
    BY <1>1 DEF writer
  <2>2. /\ jar' \in [Clients -> SUBSET Idents]
        /\ \A d \in Clients : Single(jar'[d])
    BY <1>1 DEF ReqInv
  <2> QED
    BY <1>1, <1>2, <1>4, <2>1, <2>2, Requested
<1>6. CountInv'
  <2>1. Waits(r) /\ ~Waits(req[c])
    BY <1>1, <1>2 DEF Waits
  <2>2. /\ IsFiniteSet(Waiting') /\ Cardinality(Waiting) \in Nat
        /\ Cardinality(Waiting') = Cardinality(Waiting) + 1
    BY <1>1, <1>2, <2>1, Counted
  <2>3. \A g \in DOMAIN upst : \A q \in DOMAIN upst[g] : upst[g][q].idx \in Nat
    BY DEF TableInv, Counting
  <2> QED
    BY <1>1, <2>2, <2>3, BoundsAssumption DEF CountInv, writer
<1> QED
  BY <1>1, <1>5, <1>6, TablesStand

\* The first lookup of the host.
LEMMA FindHostHolds ==
    ASSUME RoutingInv, NEW c \in Clients, FindHost(c)
    PROVE  RoutingInv'
<1> USE DEF RoutingInv
<1>0. req \in [Clients -> Request] /\ req[c] \in Request
  BY DEF ReqInv
<1>1. PICK r : r = [req[c] EXCEPT !.pc = "route", !.found = Lookup(req[c].host)]
  OBVIOUS
<1>2. /\ req[c].pc = "host" /\ req' = [req EXCEPT ![c] = r]
      /\ UNCHANGED writer /\ UNCHANGED <<jar, reqs>>
  BY <1>0, <1>1 DEF FindHost
<1>3. /\ Single(Lookup(req[c].host)) /\ Lookup(req[c].host) \in SUBSET Hosts
      /\ Lookup(req[c].host) \subseteq {req[c].host, DEFAULT}
  <2>1. DOMAIN upst \subseteq Hosts
    BY TablesAssumption DEF TableInv
  <2> QED
    BY <2>1 DEF Lookup, Single
<1>4. /\ r \in Request /\ r.pc = "route" /\ r.found = Lookup(req[c].host)
      /\ r.host = req[c].host /\ r.path = req[c].path /\ r.route = req[c].route
      /\ r.pick = req[c].pick /\ r.calm = req[c].calm
  BY <1>0, <1>1, <1>3 DEF Request, Pcs
<1>5. ReqOK(req[c]) /\ CalmOK(req[c])
  BY DEF ReqInv, CalmInv
<1>6. ReqOK(r)
  BY <1>2, <1>3, <1>4, <1>5 DEF ReqOK, Single
<1>7. CalmOK(r)
  <2>1. r.calm => wPc = "idle"
    BY <1>2, <1>4, <1>5 DEF CalmOK
  <2>2. wPc = "idle" => Lookup(req[c].host) = HostFor(req[c].host)
    BY DEF TableInv, Lookup, HostFor
  <2> QED
    BY <1>4, <2>1, <2>2 DEF CalmOK
<1>8. ReqInv' /\ CalmInv'
  <2>1. UNCHANGED <<table, wPc>>
    BY <1>2 DEF writer
  <2>2. /\ jar' \in [Clients -> SUBSET Idents]
        /\ \A d \in Clients : Single(jar'[d])
    BY <1>2 DEF ReqInv
  <2> QED
    BY <1>2, <1>4, <1>6, <1>7, <2>1, <2>2, Requested
<1>9. CountInv'
  <2>1. Waits(r) /\ Waits(req[c])
    BY <1>2, <1>4 DEF Waits
  <2>2. IsFiniteSet(Waiting') /\ Cardinality(Waiting') = Cardinality(Waiting)
    BY <1>2, <1>4, <2>1, Counted
  <2> QED
    BY <1>2, <2>2 DEF CountInv, writer
<1> QED
  BY <1>2, <1>8, <1>9, TablesStand

\* The response.
LEMMA ReplyHolds ==
    ASSUME RoutingInv, NEW c \in Clients, Reply(c)
    PROVE  RoutingInv'
<1> USE DEF RoutingInv
<1>0. req \in [Clients -> Request] /\ req[c] \in Request /\ ReqOK(req[c])
  BY DEF ReqInv
<1>1. PICK r : r = Idle
  OBVIOUS
<1>2. /\ req[c].pc = "reply" /\ req' = [req EXCEPT ![c] = r]
      /\ UNCHANGED writer /\ UNCHANGED reqs
  BY <1>1 DEF Reply
<1>3. r \in Request /\ ReqOK(r) /\ CalmOK(r) /\ r.pc = "idle"
  <2>1. Idle \in Request /\ ReqOK(Idle) /\ CalmOK(Idle) /\ Idle.pc = "idle"
    BY IdleRequest
  <2> QED
    BY <1>1, <2>1
<1>4. /\ jar' \in [Clients -> SUBSET Idents]
      /\ \A d \in Clients : Single(jar'[d])
  <2>1. CASE UNCHANGED jar
    BY <2>1 DEF ReqInv
  <2>2. CASE jar' = [jar EXCEPT ![c] =
                        {Id(e) : e \in [host : req[c].found, srv : req[c].pick]}]
    <3>0. /\ [host : req[c].found, srv : req[c].pick] \subseteq [host : Hosts, srv : Servers]
          /\ Single([host : req[c].found, srv : req[c].pick])
      BY <1>0 DEF Request, ReqOK, Single
    <3>1. PICK k : k = {Id(e) : e \in [host : req[c].found, srv : req[c].pick]}
      OBVIOUS
    <3>2. k \in SUBSET Idents
      BY <3>0, <3>1 DEF Idents
    <3>3. Single(k)
      BY <3>0, <3>1 DEF Single
    <3>4. jar' = [jar EXCEPT ![c] = k]
      BY <2>2, <3>1
    <3> QED
      BY <3>2, <3>3, <3>4 DEF ReqInv
  <2> QED
    BY <2>1, <2>2 DEF Reply
<1>5. ReqInv' /\ CalmInv'
  <2>1. UNCHANGED <<table, wPc>>
    BY <1>2 DEF writer
  <2> QED
    BY <1>2, <1>3, <1>4, <2>1, Requested
<1>6. CountInv'
  <2>1. ~Waits(r) /\ ~Waits(req[c])
    BY <1>2, <1>3 DEF Waits
  <2>2. IsFiniteSet(Waiting') /\ Cardinality(Waiting') = Cardinality(Waiting)
    BY <1>2, <1>3, <2>1, Counted
  <2> QED
    BY <1>2, <2>2 DEF CountInv, writer
<1> QED
  BY <1>2, <1>5, <1>6, TablesStand

\* get_host: without a path the request has no server; otherwise there is one
\* host and one path of it.
LEMMA RoutedOrNot ==
    ASSUME RoutingInv, NEW c \in Clients, GetHost(c)
    PROVE  /\ req[c].pc = "route" /\ UNCHANGED <<byid, table, wPc, wLeft, writes, jar, reqs>>
           /\ \/ /\ req' = [req EXCEPT ![c].pc = "reply"] /\ UNCHANGED upst
                 /\ \A x \in req[c].found \cap DOMAIN upst : GetPath(upst[x], req[c].path) = {}
              \/ \E x \in DOMAIN upst : \E p \in DOMAIN upst[x] :
                    /\ req[c].found = {x} /\ GetPath(upst[x], req[c].path) = {p}
                    /\ upst[x][p].srv # << >> /\ Route1(c, x, p)
<1> DEFINE h == req[c].found \cap DOMAIN upst
           ps == UNION {GetPath(upst[x], req[c].path) : x \in h}
<1>1. /\ req[c].pc = "route" /\ UNCHANGED <<byid, table, wPc, wLeft, writes, jar, reqs>>
      /\ IF ps = {} THEN req' = [req EXCEPT ![c].pc = "reply"] /\ UNCHANGED upst
                    ELSE \E x \in h, p \in ps : Route1(c, x, p)
  BY DEF GetHost
<1>2. Single(req[c].found) /\ req[c].path \in Paths
  BY <1>1 DEF RoutingInv, ReqInv, ReqOK
<1>3. CASE ps = {}
  <2>1. \A x \in h : GetPath(upst[x], req[c].path) = {}
    BY <1>3
  <2> QED
    BY <1>1, <1>3, <2>1
<1>4. CASE ps # {}
  <2>1. PICK x \in h, p \in ps : Route1(c, x, p)
    BY <1>1, <1>4
  <2>2. req[c].found = {x} /\ h = {x} /\ x \in DOMAIN upst
    BY <1>2 DEF Single
  <2>3. p \in GetPath(upst[x], req[c].path)
    BY <2>2
  <2>4. DOMAIN upst[x] \subseteq Paths
    BY <1>2, <2>2, SamePath DEF RoutingInv
  <2>5. Single(GetPath(upst[x], req[c].path)) /\ Usable(upst[x], p)
    BY <1>2, <2>3, <2>4, OnePath
  <2>6. GetPath(upst[x], req[c].path) = {p}
    BY <2>3, <2>5 DEF Single
  <2>7. p \in DOMAIN upst[x] /\ upst[x][p].srv # << >>
    BY <2>5 DEF Usable
  <2> QED
    BY <1>1, <2>1, <2>2, <2>6, <2>7
<1> QED
  BY <1>3, <1>4

\* What the cookie chooses, and what the cookie or the turn chooses.
Sticky(c, x, p) == FindSticky(upst[x][p], jar[c])
Pick(c, x, p) ==
    IF Sticky(c, x, p) # {} THEN Sticky(c, x, p)
                            ELSE {upst[x][p].srv[Position(upst[x][p])]}

\* The step of get_host that gives c a server of the path p of the host x.
Served(c, x, p) ==
    /\ req' = [req EXCEPT ![c] = [req[c] EXCEPT !.pc = "reply", !.route = {p},
                                                !.pick = Pick(c, x, p)]]
    /\ Sticky(c, x, p) # {} => upst' = upst
    /\ Sticky(c, x, p) = {} =>
          upst' = [upst EXCEPT ![x] = [upst[x] EXCEPT ![p] = Advance(upst[x][p])]]
    /\ Pick(c, x, p) \in SUBSET Servers /\ Single(Pick(c, x, p)) /\ Pick(c, x, p) # {}
    /\ x \in Hosts /\ p \in Paths /\ table[x][p] \in Route
    /\ upst[x][p] \in Counting(table[x][p]) /\ Turns(upst[x][p])
    /\ Position(upst[x][p]) \in DOMAIN upst[x][p].srv

\* The cookie decides, or the turn.
LEMMA ServerChosen ==
    ASSUME RoutingInv, NEW c \in Clients, NEW x \in DOMAIN upst, NEW p \in DOMAIN upst[x],
           upst[x][p].srv # << >>, Route1(c, x, p)
    PROVE  Served(c, x, p)
<1> DEFINE e == upst[x][p]
           sticky == Sticky(c, x, p)
           pick == Pick(c, x, p)
<1>1. /\ req \in [Clients -> Request] /\ req[c] \in Request
      /\ Single(jar[c]) /\ byid \subseteq [host : Hosts, srv : Servers]
      /\ \A a, b \in byid : Id(a) = Id(b) => a = b
  BY DEF RoutingInv, ReqInv, ByIdInv
<1>2. /\ req' = [req EXCEPT ![c].pc = "reply", ![c].route = {p}, ![c].pick = pick]
      /\ upst' = IF sticky # {} THEN upst ELSE [upst EXCEPT ![x][p] = Advance(e)]
  BY DEF Route1, Sticky, Pick
<1>3. /\ x \in Hosts /\ p \in Paths /\ e \in Counting(table[x][p]) /\ Turns(e)
      /\ table[x][p] \in Route
  <2>1. x \in DOMAIN table /\ p \in DOMAIN table[x] /\ table \in Tables
    BY DEF RoutingInv, TableInv
  <2>2. x \in Hosts /\ p \in Paths /\ table[x][p] \in Route
    BY <2>1, RouteOf
  <2>3. e \in Counting(table[x][p]) /\ Turns(e)
    BY DEF RoutingInv, TableInv
  <2> QED
    BY <2>2, <2>3
<1>4. Position(e) \in DOMAIN e.srv /\ e.srv[Position(e)] \in Servers
  BY <1>3, NextTurn
<1>5. sticky \in SUBSET Servers /\ Single(sticky)
  <2>1. \A s \in sticky : \E b \in byid : Id(b) \in jar[c] /\ s = b.srv
    BY DEF FindSticky, Sticky
  <2> HIDE DEF sticky
  <2>2. \A b \in byid : b.srv \in Servers
    BY <1>1
  <2>3. sticky \subseteq Servers
    BY <2>1, <2>2
  <2>4. \A s, t \in sticky : s = t
    BY <1>1, <2>1 DEF Single
  <2> QED
    BY <2>3, <2>4 DEF Single
<1>6. pick \in SUBSET Servers /\ Single(pick) /\ pick # {}
  BY <1>4, <1>5 DEF Single, Pick
<1> HIDE DEF e, sticky
<1> HIDE DEF pick
<1>7. req' = [req EXCEPT ![c] = [req[c] EXCEPT !.pc = "reply", !.route = {p}, !.pick = pick]]
  BY <1>1, <1>2
<1>8. /\ sticky # {} => upst' = upst
      /\ sticky = {} => upst' = [upst EXCEPT ![x] = [upst[x] EXCEPT ![p] = Advance(e)]]
  BY <1>2
<1> QED
  BY <1>3, <1>4, <1>6, <1>7, <1>8 DEF e, sticky, pick, Served

\* The request has its answer: with no server, or with one.
LEMMA Answered ==
    ASSUME RoutingInv, NEW c \in Clients, req[c].pc = "route",
           NEW ro \in SUBSET Paths, NEW pi \in SUBSET Servers, Single(pi),
           NEW r, r = [req[c] EXCEPT !.pc = "reply", !.route = ro, !.pick = pi],
           req' = [req EXCEPT ![c] = r], UNCHANGED <<table, wPc, jar>>,
           pi = {} <=> ro = {},
           req[c].calm => ro = BestFor(req[c].found, req[c].path)
    PROVE  /\ ReqInv' /\ CalmInv'
           /\ IsFiniteSet(Waiting') /\ Cardinality(Waiting) \in Nat
           /\ Cardinality(Waiting') = Cardinality(Waiting) - 1
<1> USE DEF RoutingInv
<1>1. req[c] \in Request /\ ReqOK(req[c]) /\ CalmOK(req[c])
  BY DEF ReqInv, CalmInv
<1>2. /\ r \in Request /\ r.pc = "reply" /\ r.route = ro /\ r.pick = pi /\ r.host = req[c].host
      /\ r.path = req[c].path /\ r.found = req[c].found /\ r.calm = req[c].calm
  BY <1>1 DEF Request, Pcs
<1>3. ReqOK(r)
  BY <1>1, <1>2 DEF ReqOK
<1>4. CalmOK(r)
  BY <1>1, <1>2 DEF CalmOK
<1>5. /\ jar' \in [Clients -> SUBSET Idents]
      /\ \A d \in Clients : Single(jar'[d])
  BY DEF ReqInv
<1>6. Waits(req[c]) /\ ~Waits(r)
  BY <1>2 DEF Waits
<1> QED
  BY <1>2, <1>3, <1>4, <1>5, <1>6, Requested, Counted

\* While the tables stand still, the paths of get_host are those of the table.
LEMMA BestPaths ==
    ASSUME TableInv, NEW hs, NEW path \in Paths, hs \subseteq DOMAIN upst
    PROVE  BestFor(hs, path) = UNION {GetPath(upst[x], path) : x \in hs}
<1>1. \A x \in hs : GetPath(upst[x], path) = Longest(table[x], path, Usable)
  BY SamePath
<1> QED
  BY <1>1 DEF BestFor

\* The second lookup of the host, and the choice of a server.
LEMMA GetHostHolds ==
    ASSUME RoutingInv, NEW c \in Clients, GetHost(c)
    PROVE  RoutingInv'
<1> USE DEF RoutingInv
<1>1. req[c].pc = "route" /\ UNCHANGED <<byid, table, wPc, wLeft, writes, jar, reqs>>
  BY RoutedOrNot
<1>2. /\ req \in [Clients -> Request] /\ req[c] \in Request /\ ReqOK(req[c])
      /\ CalmOK(req[c]) /\ req[c].path \in Paths
  BY <1>1 DEF ReqInv, CalmInv, ReqOK
<1>3. req[c].route = {} /\ req[c].pick = {}
  BY <1>1, <1>2 DEF ReqOK
<1>4. req[c].calm =>
         /\ req[c].found \subseteq DOMAIN upst
         /\ BestFor(req[c].found, req[c].path)
               = UNION {GetPath(upst[x], req[c].path) : x \in req[c].found}
  <2>1. req[c].calm => req[c].found \subseteq DOMAIN upst
    BY <1>1, <1>2 DEF CalmOK, HostFor, TableInv
  <2> QED
    BY <1>2, <2>1, BestPaths
<1>5. CASE /\ req' = [req EXCEPT ![c].pc = "reply"] /\ UNCHANGED upst
           /\ \A x \in req[c].found \cap DOMAIN upst : GetPath(upst[x], req[c].path) = {}
  <2>1. PICK r : r = [req[c] EXCEPT !.pc = "reply", !.route = {}, !.pick = {}]
    OBVIOUS
  <2>2. req' = [req EXCEPT ![c] = r]
    <3>1. r = [req[c] EXCEPT !.pc = "reply"]
      BY <1>2, <1>3, <2>1 DEF Request
    <3> QED
      BY <1>2, <1>5, <3>1
  <2>3. req[c].calm => {} = BestFor(req[c].found, req[c].path)
    BY <1>4, <1>5
  <2>4. {} \in SUBSET Paths /\ {} \in SUBSET Servers /\ Single({})
    BY DEF Single
  <2>5. /\ ReqInv' /\ CalmInv'
        /\ IsFiniteSet(Waiting') /\ Cardinality(Waiting) \in Nat
        /\ Cardinality(Waiting') = Cardinality(Waiting) - 1
    BY <1>1, <2>1, <2>2, <2>3, <2>4, Answered
  <2>6. \A g \in DOMAIN upst : \A q \in DOMAIN upst[g] : upst[g][q].idx \in Nat
    BY DEF TableInv, Counting
  <2>7. CountInv'
    BY <1>1, <1>5, <2>5, <2>6 DEF CountInv
  <2>8. UNCHANGED writer
    BY <1>1, <1>5 DEF writer
  <2> QED
    BY <2>5, <2>7, <2>8, TablesStand
<1>6. CASE \E x \in DOMAIN upst : \E p \in DOMAIN upst[x] :
              /\ req[c].found = {x} /\ GetPath(upst[x], req[c].path) = {p}
              /\ upst[x][p].srv # << >> /\ Route1(c, x, p)
  <2>1. PICK x \in DOMAIN upst : \E p \in DOMAIN upst[x] :
              /\ req[c].found = {x} /\ GetPath(upst[x], req[c].path) = {p}
              /\ upst[x][p].srv # << >> /\ Route1(c, x, p)
    BY <1>6
  <2>2. PICK p \in DOMAIN upst[x] :
              /\ req[c].found = {x} /\ GetPath(upst[x], req[c].path) = {p}
              /\ upst[x][p].srv # << >> /\ Route1(c, x, p)
    BY <2>1
  <2> DEFINE e == upst[x][p]
             sticky == Sticky(c, x, p)
             who == Pick(c, x, p)
  <2>3. /\ req' = [req EXCEPT ![c] = [req[c] EXCEPT !.pc = "reply", !.route = {p}, !.pick = who]]
        /\ sticky # {} => upst' = upst
        /\ sticky = {} => upst' = [upst EXCEPT ![x] = [upst[x] EXCEPT ![p] = Advance(e)]]
        /\ who \in SUBSET Servers /\ Single(who) /\ who # {}
        /\ x \in Hosts /\ p \in Paths /\ table[x][p] \in Route
        /\ e \in Counting(table[x][p]) /\ Turns(e)
    <3>1. Served(c, x, p)
      BY <2>2, ServerChosen
    <3> QED
      BY <3>1 DEF Served
  <2> HIDE DEF sticky, who
  <2>4. req[c].calm => {p} = BestFor(req[c].found, req[c].path)
    <3>1. UNION {GetPath(upst[y], req[c].path) : y \in {x}} = GetPath(upst[x], req[c].path)
      OBVIOUS
    <3>2. UNION {GetPath(upst[y], req[c].path) : y \in req[c].found} = {p}
      BY ONLY <2>2, <3>1
    <3> QED
      BY ONLY <1>4, <3>2
  <2>5. /\ ReqInv' /\ CalmInv'
        /\ IsFiniteSet(Waiting') /\ Cardinality(Waiting) \in Nat
        /\ Cardinality(Waiting') = Cardinality(Waiting) - 1
    <3>1. PICK r : r = [req[c] EXCEPT !.pc = "reply", !.route = {p}, !.pick = who]
      OBVIOUS
    <3>2. req' = [req EXCEPT ![c] = r] /\ {p} \in SUBSET Paths /\ (who = {} <=> {p} = {})
      BY <2>3, <3>1
    <3> QED
      BY <1>1, <2>3, <2>4, <3>1, <3>2, Answered
  <2>6. \A g \in DOMAIN upst : \A q \in DOMAIN upst[g] : upst[g][q].idx \in Nat
    BY DEF TableInv, Counting
  <2>7. CASE sticky # {}
    <3>1. UNCHANGED writer
      BY <1>1, <2>3, <2>7 DEF writer
    <3>2. CountInv'
      BY <2>5, <2>6, <3>1, <1>1 DEF CountInv, writer
    <3> QED
      BY <2>5, <3>1, <3>2, TablesStand
  <2>8. CASE sticky = {}
    <3>1. PICK a : a = Advance(e)
      OBVIOUS
    <3>2. a \in Counting(table[x][p]) /\ Turns(a) /\ a.idx = e.idx + 1
      BY <2>2, <2>3, <3>1, NextTurn
    <3> HIDE DEF e
    <3>3. PICK u : u = [upst[x] EXCEPT ![p] = a]
      OBVIOUS
    <3>4. upst' = [upst EXCEPT ![x] = u]
      BY <2>3, <2>8, <3>1, <3>3
    <3>5. /\ DOMAIN u = DOMAIN upst[x]
          /\ \A q \in DOMAIN upst[x] : u[q] = IF q = p THEN a ELSE upst[x][q]
      BY <3>3
    <3>6. /\ DOMAIN upst' = DOMAIN upst
          /\ \A g \in DOMAIN upst : upst'[g] = IF g = x THEN u ELSE upst[g]
      BY <3>4
    <3>7. TableInv'
      <4>1. ASSUME NEW g \in DOMAIN upst
            PROVE  /\ DOMAIN upst'[g] = DOMAIN table[g]
                   /\ \A q \in DOMAIN upst'[g] : /\ upst'[g][q] \in Counting(table[g][q])
                                                 /\ Turns(upst'[g][q])
        BY <3>2, <3>5, <3>6 DEF TableInv
      <4> QED
        BY <1>1, <3>6, <4>1 DEF TableInv
    <3>8. CountInv'
      <4>1. ASSUME NEW g \in DOMAIN upst, NEW q \in DOMAIN upst'[g]
            PROVE  /\ q \in DOMAIN upst[g]
                   /\ upst'[g][q].idx \in Nat /\ upst'[g][q].idx <= upst[g][q].idx + 1
        BY <2>6, <3>2, <3>5, <3>6 DEF e
      <4>2. ASSUME NEW g \in DOMAIN upst, NEW q \in DOMAIN upst'[g]
            PROVE  upst'[g][q].idx + Cardinality(Waiting') <= reqs
        <5>1. upst[g][q].idx + Cardinality(Waiting) <= reqs /\ reqs \in Nat /\ upst[g][q].idx \in Nat
          BY <2>6, <4>1 DEF CountInv
        <5> QED
          BY <2>5, <4>1, <5>1
      <4> QED
        BY <1>1, <2>5, <3>6, <4>2 DEF CountInv
    <3>9. ByIdInv'
      BY <1>1 DEF ByIdInv, Refilled
    <3> QED
      BY <2>5, <3>7, <3>8, <3>9
  <2> QED
    BY <2>7, <2>8
<1> QED
  BY <1>5, <1>6, RoutedOrNot

\* The requests and cookies do not change, and no request is calm unless the
\* writer was, and is, at rest.
LEMMA RequestsStand ==
    ASSUME ReqInv, CalmInv, UNCHANGED <<req, jar>>, wPc # "idle"
    PROVE  ReqInv' /\ CalmInv' /\ Waiting' = Waiting
<1>1. ReqInv' /\ Waiting' = Waiting
  BY DEF ReqInv, Waiting
<1>2. ASSUME NEW c \in Clients PROVE CalmOK(req[c])'
  <2>1. CalmOK(req[c])
    BY DEF CalmInv
  <2>2. req[c].calm => req[c].pc = "idle"
    BY <2>1 DEF CalmOK
  <2> QED
    BY <2>2 DEF CalmOK
<1> QED
  BY <1>1, <1>2 DEF CalmInv

\* A rewrite begins: from now on no request is calm.
LEMMA WriterStartHolds ==
    ASSUME RoutingInv, WriterStart
    PROVE  RoutingInv'
<1> USE DEF RoutingInv
<1>1. /\ wPc = "idle" /\ writes < MaxWrites /\ wPc' = "clear"
      /\ writes' = writes + 1 /\ UNCHANGED <<upst, byid, table, wLeft, jar, reqs>>
      /\ req' = [c \in Clients |-> [req[c] EXCEPT !.calm = FALSE]]
  BY DEF WriterStart
<1>3. TableInv'
  BY <1>1 DEF TableInv
<1>4. ByIdInv'
  BY <1>1 DEF ByIdInv
<1>5. ASSUME NEW c \in Clients
      PROVE  /\ req'[c] \in Request /\ ReqOK(req'[c]) /\ ~req'[c].calm
             /\ req'[c].pc = req[c].pc
  <2>1. req[c] \in Request /\ ReqOK(req[c])
    BY DEF ReqInv
  <2>2. PICK r : r = [req[c] EXCEPT !.calm = FALSE]
    OBVIOUS
  <2>3. /\ r \in Request /\ r.pc = req[c].pc /\ r.found = req[c].found /\ r.path = req[c].path
        /\ r.host = req[c].host
        /\ r.route = req[c].route /\ r.pick = req[c].pick /\ r.calm = FALSE
    BY <2>1, <2>2 DEF Request
  <2>4. req'[c] = r
    BY <1>1, <2>2
  <2>5. ReqOK(r)
    BY <2>1, <2>3 DEF ReqOK
  <2> QED
    BY <2>3, <2>4, <2>5
<1>6. ReqInv' /\ CalmInv'
  <2>1. req' \in [Clients -> Request]
    BY <1>1, <1>5
  <2>2. ReqInv'
    BY <1>1, <1>5, <2>1 DEF ReqInv
  <2>3. \A c \in Clients : CalmOK(req[c])'
    BY <1>5 DEF CalmOK
  <2> QED
    BY <2>2, <2>3 DEF CalmInv
<1>7. CountInv'
  <2>1. Waiting' = Waiting
    BY <1>5 DEF Waiting
  <2> QED
    BY <1>1, <2>1, BoundsAssumption DEF CountInv
<1> QED
  BY <1>3, <1>4, <1>6, <1>7

\* A host is dropped.
LEMMA WriterClearHolds ==
    ASSUME RoutingInv, NEW h \in Hosts, WriterClear(h)
    PROVE  RoutingInv'
<1> USE DEF RoutingInv
<1>1. /\ wPc = "clear" /\ upst' = [g \in DOMAIN upst \ {h} |-> upst[g]]
      /\ UNCHANGED <<byid, table, wPc, wLeft, writes, req, jar, reqs>>
  BY DEF WriterClear
<1>2. /\ DOMAIN upst' \subseteq DOMAIN upst
      /\ \A g \in DOMAIN upst' : upst'[g] = upst[g]
  BY <1>1
<1>3. TableInv'
  BY <1>1, <1>2 DEF TableInv
<1>4. ByIdInv'
  BY <1>1 DEF ByIdInv
<1>5. ReqInv' /\ CalmInv' /\ Waiting' = Waiting
  BY <1>1, RequestsStand
<1>6. CountInv'
  BY <1>1, <1>2, <1>5 DEF CountInv
<1> QED
  BY <1>3, <1>4, <1>5, <1>6

\* All hosts are dropped: the new table is begun.
LEMMA WriterClearedHolds ==
    ASSUME RoutingInv, NEW t \in Tables, WriterCleared(t)
    PROVE  RoutingInv'
<1> USE DEF RoutingInv
<1>1. /\ wPc = "clear" /\ DOMAIN upst = {} /\ table' = t /\ wPc' = "upst"
      /\ wLeft' = DOMAIN t /\ UNCHANGED <<upst, byid, writes, req, jar, reqs>>
  BY DEF WriterCleared
<1>2. TableInv'
  BY <1>1 DEF TableInv
<1>3. ByIdInv'
  BY <1>1 DEF ByIdInv
<1>4. ReqInv' /\ CalmInv' /\ Waiting' = Waiting
  BY <1>1, RequestsStand
<1>5. CountInv'
  BY <1>1, <1>4 DEF CountInv
<1> QED
  BY <1>2, <1>3, <1>4, <1>5

\* A host is put back, with new counters.
LEMMA WriterUpstHolds ==
    ASSUME RoutingInv, NEW h \in Hosts, WriterUpst(h)
    PROVE  RoutingInv'
<1> USE DEF RoutingInv
<1>1. /\ wPc = "upst" /\ h \in wLeft /\ upst' = Insert(upst, h, Entry(table[h]))
      /\ wLeft' = wLeft \ {h} /\ UNCHANGED <<byid, table, wPc, writes, req, jar, reqs>>
  BY DEF WriterUpst
<1>2. h \in DOMAIN table /\ table \in Tables
  BY <1>1 DEF TableInv
<1>3. /\ DOMAIN Entry(table[h]) = DOMAIN table[h]
      /\ \A p \in DOMAIN table[h] : /\ Entry(table[h])[p] \in Counting(table[h][p])
                                    /\ Turns(Entry(table[h])[p]) /\ Entry(table[h])[p].idx = 0
  BY <1>2, RouteOf, EntryStarts
<1>4. PICK e : e = Entry(table[h])
  OBVIOUS
<1>5. /\ DOMAIN e = DOMAIN table[h]
      /\ \A p \in DOMAIN e : e[p] \in Counting(table[h][p]) /\ Turns(e[p]) /\ e[p].idx = 0
  BY <1>3, <1>4
<1>6. /\ DOMAIN upst' = DOMAIN upst \cup {h}
      /\ \A g \in DOMAIN upst' : upst'[g] = IF g = h THEN e ELSE upst[g]
  BY <1>1, <1>4 DEF Insert
<1>7. TableInv'
  <2>1. ASSUME NEW g \in DOMAIN upst'
        PROVE  /\ DOMAIN upst'[g] = DOMAIN table[g]
               /\ \A p \in DOMAIN upst'[g] : /\ upst'[g][p] \in Counting(table[g][p])
                                             /\ Turns(upst'[g][p])
    BY <1>5, <1>6 DEF TableInv
  <2>2. /\ DOMAIN upst' \subseteq DOMAIN table
        /\ DOMAIN table = DOMAIN upst' \cup wLeft' /\ DOMAIN upst' \cap wLeft' = {}
    BY <1>1, <1>2, <1>6 DEF TableInv
  <2> QED
    BY <1>1, <2>1, <2>2 DEF TableInv
<1>8. ByIdInv'
  BY <1>1 DEF ByIdInv
<1>9. ReqInv' /\ CalmInv' /\ Waiting' = Waiting
  BY <1>1, RequestsStand
<1>10. CountInv'
  <2>1. Cardinality(Waiting) \in Nat
    BY FS_CardinalityType DEF CountInv
  <2>2. ASSUME NEW g \in DOMAIN upst', NEW p \in DOMAIN upst'[g]
        PROVE  upst'[g][p].idx + Cardinality(Waiting) <= reqs
    <3>1. CASE g = h
      <4>1. upst'[g][p].idx = 0
        BY <1>5, <1>6, <3>1
      <4> QED
        BY <2>1, <4>1 DEF CountInv
    <3>2. CASE g # h
      BY <1>6, <3>2 DEF CountInv
    <3> QED
      BY <3>1, <3>2
  <2> QED
    BY <1>1, <1>9, <2>2 DEF CountInv
<1> QED
  BY <1>7, <1>8, <1>9, <1>10

\* The steps that clear and fill the map of identifiers.
LEMMA WriterByIdHolds ==
    ASSUME RoutingInv,
           \/ \E e \in byid : WriterDrop(e)
           \/ WriterDropped \/ (\E h \in Hosts : WriterById(h)) \/ WriterDone
    PROVE  RoutingInv'
<1> USE DEF RoutingInv
<1>1. wPc # "idle" /\ UNCHANGED <<upst, table, writes, req, jar, reqs>>
  BY DEF WriterDrop, WriterDropped, WriterById, WriterDone
<1>2. ReqInv' /\ CalmInv' /\ Waiting' = Waiting
  BY <1>1, RequestsStand
<1>3. CountInv'
  BY <1>1, <1>2 DEF CountInv
<1>7. CASE \E e \in byid : WriterDrop(e)
  <2>1. PICK e \in byid : WriterDrop(e)
    BY <1>7
  <2>2. wPc = "upst" /\ byid' = byid \ {e} /\ UNCHANGED <<wPc, wLeft>>
    BY <2>1 DEF WriterDrop
  <2>3. TableInv'
    BY <1>1, <2>2 DEF TableInv
  <2>4. ByIdInv'
    BY <2>2 DEF ByIdInv
  <2> QED
    BY <1>2, <1>3, <2>3, <2>4
<1>4. CASE WriterDropped
  <2>1. /\ wPc = "upst" /\ wLeft = {} /\ byid = {} /\ byid' = {}
        /\ wPc' = "byid" /\ wLeft' = DOMAIN table
    BY <1>4 DEF WriterDropped
  <2>2. TableInv'
    BY <1>1, <2>1 DEF TableInv
  <2>3. Refilled' = {}
    BY <1>1, <2>1 DEF Refilled
  <2>4. ByIdInv'
    BY <2>1, <2>3 DEF ByIdInv, OnePerId
  <2> QED
    BY <1>2, <1>3, <2>2, <2>4
<1>5. CASE \E h \in Hosts : WriterById(h)
  <2>1. PICK h \in Hosts : WriterById(h)
    BY <1>5
  <2>2. /\ wPc = "byid" /\ h \in wLeft /\ wLeft' = wLeft \ {h} /\ UNCHANGED wPc
        /\ \E P \in Ids(h, table[h]) : byid' = byid \cup P
    BY <2>1 DEF WriterById
  <2>3. PICK P : OnePerId(P, ServersOf(h, table[h])) /\ byid' = byid \cup P
    BY <2>2 DEF Ids
  <2>4. TableInv'
    BY <1>1, <2>2 DEF TableInv
  <2>5. h \in DOMAIN table /\ table \in Tables
    BY <2>2 DEF TableInv
  <2>6. DOMAIN table \ wLeft' = (DOMAIN table \ wLeft) \cup {h}
    BY <2>2, <2>5
  <2>7. Refilled' = Refilled \cup ServersOf(h, table[h])
    BY <1>1, <2>6 DEF Refilled
  <2>8. OnePerId(byid, Refilled) /\ byid \subseteq [host : Hosts, srv : Servers]
    BY <2>2 DEF ByIdInv
  <2>9. \A d \in byid : d.host # h
    <3>1. ASSUME NEW d \in byid PROVE d.host # h
      <4>1. PICK g \in DOMAIN table \ wLeft : d \in ServersOf(g, table[g])
        BY <2>8 DEF OnePerId, Refilled
      <4>2. d.host = g
        BY <2>5, <4>1, ServersOfHost
      <4> QED
        BY <2>2, <4>1, <4>2
    <3> QED
      BY <3>1
  <2>10. P \subseteq [host : Hosts, srv : Servers] /\ \A d \in P : d.host = h
    BY <2>3, <2>5, ServersOfHost DEF OnePerId
  <2>11. ASSUME NEW d \in byid, NEW e \in P PROVE Id(d) # Id(e)
    BY <2>9, <2>10, IdFields
  <2>12. \A d, e \in byid \cup P : Id(d) = Id(e) => d = e
    BY <2>3, <2>8, <2>11 DEF OnePerId
  <2>13. OnePerId(byid \cup P, Refilled \cup ServersOf(h, table[h]))
    BY <2>3, <2>8, <2>12 DEF OnePerId
  <2>14. ByIdInv'
    BY <2>2, <2>3, <2>7, <2>8, <2>10, <2>12, <2>13 DEF ByIdInv
  <2> QED
    BY <1>2, <1>3, <2>4, <2>14
<1>6. CASE WriterDone
  <2>1. wPc = "byid" /\ wLeft = {} /\ wPc' = "idle" /\ UNCHANGED <<byid, wLeft>>
    BY <1>6 DEF WriterDone
  <2>2. TableInv'
    BY <1>1, <2>1 DEF TableInv
  <2>3. Refilled = EntriesOf(table)
    BY <2>1 DEF Refilled, EntriesOf
  <2>4. ByIdInv'
    BY <1>1, <2>1, <2>3 DEF ByIdInv
  <2> QED
    BY <1>2, <1>3, <2>2, <2>4
<1> QED
  BY <1>4, <1>5, <1>6, <1>7

\* The invariant is inductive.
LEMMA Inductive ==
    ASSUME RoutingInv, [Next]_vars
    PROVE  RoutingInv'
<1>1. ASSUME NEW c \in Clients, \E h \in Hosts, p \in Paths \ {<< >>} : Arrive(c, h, p)
      PROVE  RoutingInv'
  BY <1>1, ArriveHolds
<1>2. ASSUME NEW c \in Clients, FindHost(c) \/ GetHost(c) \/ Reply(c)
      PROVE  RoutingInv'
  BY <1>2, FindHostHolds, GetHostHolds, ReplyHolds
<1>3. ASSUME WriterStart \/ \E t \in Tables : WriterCleared(t)
      PROVE  RoutingInv'
  BY <1>3, WriterStartHolds, WriterClearedHolds
<1>4. ASSUME NEW h \in Hosts, WriterClear(h) \/ WriterUpst(h)
      PROVE  RoutingInv'
  BY <1>4, WriterClearHolds, WriterUpstHolds
<1>5. ASSUME \/ \E e \in byid : WriterDrop(e)
             \/ WriterDropped \/ (\E h \in Hosts : WriterById(h)) \/ WriterDone
      PROVE  RoutingInv'
  BY <1>5, WriterByIdHolds
<1>6. CASE UNCHANGED vars
  <2>1. UNCHANGED <<upst, byid, table, wPc, wLeft, writes, req, jar, reqs>>
    BY <1>6 DEF vars
  <2>2. TableInv' /\ ByIdInv'
    BY <2>1, TablesStand DEF RoutingInv, writer
  <2>3. ReqInv'
    BY <2>1 DEF RoutingInv, ReqInv
  <2>4. CalmInv'
    <3>1. \A q \in Request : CalmOK(q)' <=> CalmOK(q)
      BY <2>1 DEF CalmOK, HostFor, BestFor
    <3>2. \A c \in Clients : req[c] \in Request /\ req'[c] = req[c] /\ CalmOK(req[c])
      BY <2>1 DEF RoutingInv, ReqInv, CalmInv
    <3>3. ASSUME NEW c \in Clients PROVE CalmOK(req[c])'
      <4>1. PICK q \in Request : q = req[c]
        BY <3>2
      <4>2. CalmOK(q)' /\ req'[c] = q
        BY <3>1, <3>2, <4>1
      <4> QED
        BY <4>2
    <3> QED
      BY <3>3 DEF CalmInv
  <2>5. CountInv'
    BY <2>1 DEF RoutingInv, CountInv, Waiting
  <2> QED
    BY <2>2, <2>3, <2>4, <2>5 DEF RoutingInv
<1> QED
  BY <1>1, <1>2, <1>3, <1>4, <1>5, <1>6 DEF Next

-----------------------------------------------------------------------------
(* Theorems *)

\* The invariant holds in every reachable state.
LEMMA Invariance == Spec => []RoutingInv
<1>1. Init => RoutingInv
  BY InitHolds
<1>2. RoutingInv /\ [Next]_vars => RoutingInv'
  BY Inductive
<1> QED
  BY <1>1, <1>2, PTL DEF Spec

\* The types of the tables and of the requests, whatever the interleaving of
\* get_host and of the writer; no counter passes the number of requests.
THEOREM TypeCorrect == Spec => []TypeOK
<1>1. ASSUME RoutingInv PROVE TypeOK
  <2> USE <1>1 DEF RoutingInv
  <2>1. /\ table \in Tables /\ DOMAIN upst \subseteq DOMAIN table
        /\ wPc \in {"idle", "clear", "upst", "byid"} /\ wLeft \subseteq DOMAIN table
        /\ byid \subseteq [host : Hosts, srv : Servers]
        /\ writes \in 0..MaxWrites /\ reqs \in 0..MaxReqs
    BY DEF TableInv, ByIdInv, CountInv
  <2>2. \A c \in Clients :
          /\ req[c].pc \in {"idle", "host", "route", "reply"}
          /\ req[c].found \subseteq Hosts /\ req[c].pick \subseteq Servers
          /\ jar[c] \subseteq {Id(e) : e \in [host : Hosts, srv : Servers]}
    BY DEF ReqInv, Request, Pcs, Idents
  <2>3. ASSUME NEW h \in DOMAIN upst, NEW p \in DOMAIN upst[h]
        PROVE  /\ DOMAIN upst[h] = DOMAIN table[h] /\ upst[h][p].srv = table[h][p].srv
               /\ upst[h][p].idx \in 0..MaxReqs
    <3>1. /\ DOMAIN upst[h] = DOMAIN table[h] /\ upst[h][p].srv = table[h][p].srv
          /\ upst[h][p].idx \in Nat
      BY DEF TableInv, Counting
    <3>2. upst[h][p].idx + Cardinality(Waiting) <= reqs /\ Cardinality(Waiting) \in Nat
      BY FS_CardinalityType DEF CountInv
    <3> QED
      BY <2>1, <3>1, <3>2, BoundsAssumption
  <2>4. \A h \in DOMAIN upst : DOMAIN upst[h] = DOMAIN table[h]
    BY DEF TableInv
  <2> QED
    BY <2>1, <2>2, <2>3, <2>4 DEF TypeOK
<1> QED
  BY <1>1, Invariance, PTL

\* "the best match chosen": the loops of get_host and get_header end at the
\* longest configured prefix, for paths of any length and any set of paths.
THEOREM BestPathChosen == Spec => []BestMatch
<1>1. ASSUME RoutingInv PROVE BestMatch
  <2>1. SUFFICES ASSUME NEW h \in DOMAIN upst, NEW D \in SUBSET DOMAIN upst[h],
                        NEW path \in Paths \ {<< >>}
                 PROVE  /\ GetPath([p \in D |-> upst[h][p]], path)
                              = Longest([p \in D |-> upst[h][p]], path, Usable)
                        /\ GetHeaderPath([p \in D |-> upst[h][p]], path)
                              = Longest([p \in D \ {<< >>} |-> upst[h][p]], path, HasHeaders)
    BY DEF BestMatch
  <2>2. DOMAIN upst[h] \subseteq Paths
    BY <1>1, SamePath DEF RoutingInv
  <2>3. PICK ps : ps = [p \in D |-> upst[h][p]]
    OBVIOUS
  <2>4. DOMAIN ps \subseteq Paths /\ D \in SUBSET Paths
    BY <2>2, <2>3
  <2>5. GetPath(ps, path) = Longest(ps, path, Usable)
    BY <2>4, GetPathIsLongest
  <2>6. GetHeaderPath([p \in D |-> upst[h][p]], path)
           = Longest([p \in D \ {<< >>} |-> upst[h][p]], path, HasHeaders)
    BY <2>4, GetHeaderPathIsLongest
  <2> QED
    BY <2>3, <2>5, <2>6
<1> QED
  BY <1>1, Invariance, PTL

\* Round robin over any number of servers: pick_backend's counter gives none of
\* a path's servers two turns more than another.
THEOREM TurnsBalanced == Spec => []Balanced
<1>1. ASSUME RoutingInv PROVE Balanced
  <2>1. SUFFICES ASSUME NEW h \in DOMAIN upst, NEW p \in DOMAIN upst[h],
                        NEW i \in DOMAIN upst[h][p].tally, NEW j \in DOMAIN upst[h][p].tally
                 PROVE  upst[h][p].tally[i] <= upst[h][p].tally[j] + 1
    BY DEF Balanced
  <2>2. PICK e : e = upst[h][p]
    OBVIOUS
  <2>3. e \in Counting(table[h][p]) /\ Turns(e)
    BY <1>1, <2>2 DEF RoutingInv, TableInv
  <2>4. DOMAIN e.tally = DOMAIN e.srv
    BY <2>3 DEF Counting
  <2>5. PICK q \in Nat : \A k \in DOMAIN e.srv :
                            e.tally[k] = q + (IF k <= e.idx % Len(e.srv) THEN 1 ELSE 0)
    BY <2>3 DEF Turns
  <2>6. e.tally[i] \in {q, q + 1} /\ e.tally[j] \in {q, q + 1}
    BY <2>2, <2>4, <2>5
  <2> QED
    BY <2>2, <2>6
<1> QED
  BY <1>1, Invariance, PTL

\* A request that no rewrite overlaps is served as the table says.
THEOREM CalmServed == Spec => []CalmService
<1>1. ASSUME RoutingInv PROVE CalmService
  <2>1. ASSUME NEW c \in Clients, req[c].pc = "reply", req[c].calm
        PROVE  /\ req[c].found = HostFor(req[c].host)
               /\ req[c].route = BestFor(HostFor(req[c].host), req[c].path)
               /\ (req[c].pick = {})
                     = (BestFor(HostFor(req[c].host), req[c].path) = {})
    <3>1. CalmOK(req[c])
      BY <1>1 DEF RoutingInv, CalmInv
    <3> QED
      BY <2>1, <3>1 DEF CalmOK
  <2> QED
    BY <2>1 DEF CalmService, HostFor, BestFor
<1> QED
  BY <1>1, Invariance, PTL

\* Only get_host gives a request a server.
LEMMA ChosenByGetHost ==
    ASSUME RoutingInv, [Next]_vars, NEW c \in Clients, Chosen(c)
    PROVE  GetHost(c)
<1>1. /\ req[c].pc = "route" /\ req[c].pick = {} /\ req \in [Clients -> Request]
      /\ req'[c].pick # {}
  BY DEF RoutingInv, ReqInv, ReqOK, Chosen
<1>2. req'[c].pick = req[c].pick => FALSE
  BY <1>1
<1>3. ASSUME NEW d \in Clients, \E h \in Hosts, p \in Paths \ {<< >>} : Arrive(d, h, p)
      PROVE  FALSE
  <2>1. d # c /\ req'[c] = req[c]
    BY <1>1, <1>3 DEF Arrive
  <2> QED
    BY <1>2, <2>1
<1>4. ASSUME NEW d \in Clients, FindHost(d) PROVE FALSE
  <2>1. d # c /\ req'[c] = req[c]
    BY <1>1, <1>4 DEF FindHost
  <2> QED
    BY <1>2, <2>1
<1>5. ASSUME NEW d \in Clients, Reply(d) PROVE FALSE
  <2>1. d # c /\ req'[c] = req[c]
    BY <1>1, <1>5 DEF Reply
  <2> QED
    BY <1>2, <2>1
<1>6. ASSUME NEW d \in Clients, GetHost(d), d # c PROVE FALSE
  <2>1. req'[c] = req[c]
    BY <1>1, <1>6 DEF GetHost, Route1
  <2> QED
    BY <1>2, <2>1
<1>7. ASSUME WriterStart PROVE FALSE
  <2>1. req'[c] = [req[c] EXCEPT !.calm = FALSE] /\ req[c] \in Request
    BY <1>1, <1>7 DEF WriterStart
  <2>2. req'[c].pick = req[c].pick
    BY <2>1 DEF Request
  <2> QED
    BY <1>2, <2>2
<1>8. ASSUME UNCHANGED req PROVE FALSE
  BY <1>2, <1>8
<1> QED
  BY <1>3, <1>4, <1>5, <1>6, <1>7, <1>8
     DEF Next, vars, WriterClear, WriterCleared, WriterUpst, WriterDrop, WriterDropped,
         WriterById, WriterDone

\* A request that is given a server has one host and one path, whose servers
\* are its candidates, and the server that the cookie or the turn chooses.
LEMMA ChosenFrom ==
    ASSUME RoutingInv, [Next]_vars, NEW c \in Clients, Chosen(c)
    PROVE  \E x \in DOMAIN upst : \E p \in DOMAIN upst[x] :
              /\ Candidates(c) = Range(upst[x][p].srv)
              /\ req'[c].pick = Pick(c, x, p)
              /\ Position(upst[x][p]) \in DOMAIN upst[x][p].srv
<1>1. /\ req[c].pick = {} /\ req \in [Clients -> Request] /\ req[c] \in Request
      /\ req'[c].pick # {}
  BY DEF RoutingInv, ReqInv, ReqOK, Chosen
<1>2. GetHost(c)
  BY ChosenByGetHost
<1>3. ASSUME req' = [req EXCEPT ![c].pc = "reply"] PROVE FALSE
  <2>1. req'[c] = [req[c] EXCEPT !.pc = "reply"]
    BY <1>1, <1>3
  <2>2. req'[c].pick = req[c].pick
    BY <1>1, <2>1 DEF Request
  <2> QED
    BY <1>1, <2>2
<1>4. \E x \in DOMAIN upst : \E p \in DOMAIN upst[x] :
         req[c].found = {x} /\ upst[x][p].srv # << >> /\ Route1(c, x, p)
  BY <1>2, <1>3, RoutedOrNot
<1>5. PICK x \in DOMAIN upst : \E p \in DOMAIN upst[x] :
         req[c].found = {x} /\ upst[x][p].srv # << >> /\ Route1(c, x, p)
  BY <1>4
<1>6. PICK p \in DOMAIN upst[x] :
         req[c].found = {x} /\ upst[x][p].srv # << >> /\ Route1(c, x, p)
  BY <1>5
<1>7. /\ req' = [req EXCEPT ![c] = [req[c] EXCEPT !.pc = "reply", !.route = {p},
                                                  !.pick = Pick(c, x, p)]]
      /\ Position(upst[x][p]) \in DOMAIN upst[x][p].srv
  <2>1. Served(c, x, p)
    BY <1>6, ServerChosen
  <2> QED
    BY <2>1 DEF Served
<1>8. req'[c].route = {p} /\ req'[c].pick = Pick(c, x, p)
  <2>1. req'[c] = [req[c] EXCEPT !.pc = "reply", !.route = {p}, !.pick = Pick(c, x, p)]
    BY <1>1, <1>7
  <2> QED
    BY <1>1, <2>1 DEF Request
<1>9. Candidates(c) = Range(upst[x][p].srv)
  BY <1>6, <1>8 DEF Candidates
<1> QED
  BY <1>7, <1>8, <1>9

\* While the tables stand still, or the hosts are dropped, ump_byid has an entry
\* for each identifier of the table.
LEMMA NamedIsKnown ==
    ASSUME RoutingInv, wPc \in {"idle", "clear"}, NEW k
    PROVE  /\ Named(k) # {} => \E d \in byid : Id(d) = k
           /\ \A d \in byid : d \in Named(Id(d))
<1>1. OnePerId(byid, EntriesOf(table))
  BY DEF RoutingInv, ByIdInv
<1> QED
  BY <1>1 DEF OnePerId, Named

\* While the tables stand still a cookie with the identifier of a server of the
\* table is honoured wherever the path has a server at its address: the request
\* goes to a server of the table with that identifier, of this path or another.
THEOREM StickyAlwaysKept == Spec => StickyKept
<1>1. ASSUME RoutingInv, [Next]_vars, NEW c \in Clients, Chosen(c), wPc = "idle",
             NEW k \in jar[c], Named(k) # {}, \E s \in Candidates(c) : s.addr = k.addr
      PROVE  \E e \in Named(k) : req'[c].pick = {e.srv}
  <2>1. PICK x \in DOMAIN upst : \E p \in DOMAIN upst[x] :
           /\ Candidates(c) = Range(upst[x][p].srv) /\ req'[c].pick = Pick(c, x, p)
           /\ Position(upst[x][p]) \in DOMAIN upst[x][p].srv
    BY <1>1, ChosenFrom
  <2>2. PICK p \in DOMAIN upst[x] :
           /\ Candidates(c) = Range(upst[x][p].srv) /\ req'[c].pick = Pick(c, x, p)
           /\ Position(upst[x][p]) \in DOMAIN upst[x][p].srv
    BY <2>1
  <2>3. PICK d \in byid : Id(d) = k
    BY <1>1, NamedIsKnown
  <2>4. d \in Named(k)
    BY <1>1, <2>3, NamedIsKnown
  <2>5. Single(jar[c]) /\ \A a, b \in byid : Id(a) = Id(b) => a = b
    BY <1>1 DEF RoutingInv, ReqInv, ByIdInv
  <2>6. k.addr = d.srv.addr
    BY <2>3, IdFields
  <2>7. Sticky(c, x, p) = {d.srv}
    <3>1. {b \in byid : /\ Id(b) \in jar[c]
                        /\ \E s \in Range(upst[x][p].srv) : s.addr = b.srv.addr} = {d}
      BY <1>1, <2>2, <2>3, <2>5, <2>6 DEF Single
    <3> QED
      BY <3>1 DEF Sticky, FindSticky
  <2> QED
    BY <2>2, <2>4, <2>7 DEF Pick
<1>2. ASSUME RoutingInv, [Next]_vars
      PROVE  \A c \in Clients : (Chosen(c) /\ wPc = "idle") =>
                \A k \in jar[c] :
                    (Named(k) # {} /\ \E s \in Candidates(c) : s.addr = k.addr)
                    => \E e \in Named(k) : req'[c].pick = {e.srv}
  BY <1>1, <1>2
<1> QED
  BY <1>2, Invariance, PTL DEF Spec, StickyKept

\* While the tables stand still a cookie whose identifier no server of the table
\* has changes nothing: the request gets a server of its path.
THEOREM StaleCookieHarmless == Spec => StaleCookieIgnored
<1>1. ASSUME RoutingInv, [Next]_vars, NEW c \in Clients, Chosen(c), wPc = "idle",
             \A k \in jar[c] : Named(k) = {}
      PROVE  req'[c].pick \subseteq Candidates(c)
  <2>1. PICK x \in DOMAIN upst : \E p \in DOMAIN upst[x] :
           /\ Candidates(c) = Range(upst[x][p].srv) /\ req'[c].pick = Pick(c, x, p)
           /\ Position(upst[x][p]) \in DOMAIN upst[x][p].srv
    BY <1>1, ChosenFrom
  <2>2. PICK p \in DOMAIN upst[x] :
           /\ Candidates(c) = Range(upst[x][p].srv) /\ req'[c].pick = Pick(c, x, p)
           /\ Position(upst[x][p]) \in DOMAIN upst[x][p].srv
    BY <2>1
  <2>3. \A b \in byid : Id(b) \notin jar[c]
    BY <1>1, NamedIsKnown
  <2>4. Sticky(c, x, p) = {}
    BY <2>3 DEF Sticky, FindSticky
  <2>5. Pick(c, x, p) = {upst[x][p].srv[Position(upst[x][p])]}
    BY <2>4 DEF Pick
  <2> QED
    BY <2>2, <2>5 DEF Range
<1>2. ASSUME RoutingInv, [Next]_vars
      PROVE  \A c \in Clients : (Chosen(c) /\ wPc = "idle") =>
                ((\A k \in jar[c] : Named(k) = {})
                    => req'[c].pick \subseteq Candidates(c))
  BY <1>1, <1>2
<1> QED
  BY <1>2, Invariance, PTL DEF Spec, StaleCookieIgnored

\* The address a request goes to is one of the servers of the path it matched,
\* whatever its cookie says (find_sticky_backend), also in the middle of a rewrite.
THEOREM AddressAlwaysOfRoute == Spec => AddressOfRoute
<1>1. ASSUME RoutingInv, [Next]_vars, NEW c \in Clients, Chosen(c), NEW s \in req'[c].pick
      PROVE  \E t \in Candidates(c) : t.addr = s.addr
  <2>1. PICK x \in DOMAIN upst : \E p \in DOMAIN upst[x] :
           /\ Candidates(c) = Range(upst[x][p].srv) /\ req'[c].pick = Pick(c, x, p)
           /\ Position(upst[x][p]) \in DOMAIN upst[x][p].srv
    BY <1>1, ChosenFrom
  <2>2. PICK p \in DOMAIN upst[x] :
           /\ Candidates(c) = Range(upst[x][p].srv) /\ req'[c].pick = Pick(c, x, p)
           /\ Position(upst[x][p]) \in DOMAIN upst[x][p].srv
    BY <2>1
  <2>3. CASE Sticky(c, x, p) # {}
    <3>1. s \in FindSticky(upst[x][p], jar[c])
      BY <1>1, <2>2, <2>3 DEF Pick, Sticky
    <3> QED
      BY <2>2, <3>1 DEF FindSticky
  <2>4. CASE Sticky(c, x, p) = {}
    <3>1. s = upst[x][p].srv[Position(upst[x][p])]
      BY <1>1, <2>2, <2>4 DEF Pick
    <3> QED
      BY <2>2, <3>1 DEF Range
  <2> QED
    BY <2>3, <2>4
<1>2. ASSUME RoutingInv, [Next]_vars
      PROVE  \A c \in Clients : Chosen(c) =>
                \A s \in req'[c].pick : \E t \in Candidates(c) : t.addr = s.addr
  BY <1>1, <1>2
<1> QED
  BY <1>2, Invariance, PTL DEF Spec, AddressOfRoute

-----------------------------------------------------------------------------
(* Dispatch: the table is replaced at once, a server given in one step *)

\* One request changes: so does what Dispatch sees of it, and nothing else.
LEMMA AskedStep ==
    ASSUME req \in [Clients -> Request], NEW c \in Clients, NEW r, req' = [req EXCEPT ![c] = r]
    PROVE  AsksNow' = [AsksNow EXCEPT ![c] = AskOf(r)]
<1>1. \A d \in Clients : req'[d] = IF d = c THEN r ELSE req[d]
  OBVIOUS
<1> HIDE DEF AskOf
<1> QED
  BY <1>1 DEF AsksNow

\* What Dispatch sees of a request.
LEMMA Asked ==
    ASSUME NEW r
    PROVE  /\ AskOf(r).pc = IF r.pc \in {"host", "route"} THEN "ask" ELSE r.pc
           /\ AskOf(r).host = r.host /\ AskOf(r).path = r.path /\ AskOf(r).calm = r.calm
           /\ AskOf(r).by = (IF r.pick # {} THEN r.found ELSE {}) /\ AskOf(r).pick = r.pick
           /\ \A c \in Clients : AsksNow[c] = AskOf(req[c])
BY DEF AskOf, AsksNow

\* The stage that Dispatch sees.
LEMMA Staged ==
    /\ wPc = "idle" => StageNow = "calm"
    /\ wPc = "clear" => StageNow = "clearing"
    /\ wPc \in {"upst", "byid"} => StageNow = "filling"
    /\ wPc' = "idle" => StageNow' = "calm"
    /\ wPc' = "clear" => StageNow' = "clearing"
    /\ wPc' \in {"upst", "byid"} => StageNow' = "filling"
    /\ wPc' = wPc => StageNow' = StageNow
BY DEF StageNow

\* The initial states are initial states of Dispatch.
LEMMA InitMapped ==
    ASSUME Init
    PROVE  DP!Init
<1>1. StageNow = "calm"
  BY Staged DEF Init
<1>2. AskOf(Idle) = DP!Idle
  BY DEF AskOf, Idle, DP!Idle, DP!Request, Root, DP!Root
<1>3. AsksNow = [c \in Clients |-> DP!Idle]
  BY <1>2 DEF Init, AsksNow
<1> QED
  BY <1>1, <1>3 DEF Init, DP!Init

\* A request arrives.
LEMMA ArriveMapped ==
    ASSUME RoutingInv, NEW c \in Clients, NEW h \in Hosts, NEW p \in Paths,
           Arrive(c, h, p)
    PROVE  DP!Arrive(c, h, p)
<1>1. PICK b : b = (wPc = "idle")
  OBVIOUS
<1>2. b = (StageNow = "calm")
  BY <1>1, Staged DEF RoutingInv, TableInv
<1>3. PICK r : r = [Idle EXCEPT !.pc = "host", !.host = h, !.path = p, !.calm = b]
  OBVIOUS
<1>4. /\ req[c].pc = "idle" /\ req' = [req EXCEPT ![c] = r]
      /\ UNCHANGED writer /\ jar' = jar
  BY <1>1, <1>3 DEF Arrive
<1>5. AskOf(r) = DP!Request("ask", h, p, {}, {}, b)
  <2>1. r.pc = "host" /\ r.host = h /\ r.path = p /\ r.calm = b /\ r.pick = {}
    BY <1>3 DEF Idle
  <2> QED
    BY <2>1 DEF AskOf, DP!Request
<1>6. AsksNow' = [AsksNow EXCEPT ![c] = AskOf(r)]
  BY <1>4, AskedStep DEF RoutingInv, ReqInv
<1>7. AsksNow[c].pc = "idle"
  BY <1>4, Asked
<1>8. UNCHANGED <<table, StageNow, jar>>
  BY <1>4, Staged DEF writer
<1> QED
  BY <1>2, <1>5, <1>6, <1>7, <1>8 DEF DP!Arrive

\* The response.
LEMMA ReplyMapped ==
    ASSUME RoutingInv, NEW c \in Clients, Reply(c)
    PROVE  DP!Reply(c)
<1>1. /\ req[c].pc = "reply" /\ req' = [req EXCEPT ![c] = Idle] /\ UNCHANGED writer
      /\ \/ UNCHANGED jar
         \/ /\ req[c].pick # {}
            /\ jar' = [jar EXCEPT ![c] = {Id(e) : e \in [host : req[c].found, srv : req[c].pick]}]
  BY DEF Reply
<1>2. AskOf(Idle) = DP!Idle
  BY DEF AskOf, Idle, DP!Idle, DP!Request, Root, DP!Root
<1>3. AsksNow' = [AsksNow EXCEPT ![c] = AskOf(Idle)]
  BY <1>1, AskedStep DEF RoutingInv, ReqInv
<1>4. /\ AsksNow[c].pc = "reply" /\ AsksNow[c].pick = req[c].pick
      /\ req[c].pick # {} => AsksNow[c].by = req[c].found
  BY <1>1, Asked
<1>5. UNCHANGED <<table, StageNow>>
  BY <1>1, Staged DEF writer
<1>6. CASE UNCHANGED jar
  BY <1>2, <1>3, <1>4, <1>5, <1>6 DEF DP!Reply
<1>7. CASE /\ req[c].pick # {}
           /\ jar' = [jar EXCEPT ![c] = {Id(e) : e \in [host : req[c].found, srv : req[c].pick]}]
  <2>1. PICK by, pick : by = AsksNow[c].by /\ pick = AsksNow[c].pick
    OBVIOUS
  <2>2. jar' = [jar EXCEPT ![c] = {Id(e) : e \in [host : by, srv : pick]}] /\ pick # {}
    BY <1>4, <1>7, <2>1
  <2>3. jar' = [jar EXCEPT ![c] = {DP!IdOf(e.host, e.srv) : e \in [host : by, srv : pick]}]
    BY <2>2, Zenon DEF Id, IdOf, DP!IdOf
  <2> HIDE DEF DP!IdOf
  <2> QED
    BY <1>2, <1>3, <1>4, <1>5, <2>1, <2>2, <2>3 DEF DP!Reply
<1> QED
  BY <1>1, <1>6, <1>7

\* The first lookup of the host is not seen.
LEMMA FindHostMapped ==
    ASSUME RoutingInv, NEW c \in Clients, FindHost(c)
    PROVE  UNCHANGED <<table, StageNow, AsksNow, jar>>
<1>1. req \in [Clients -> Request] /\ req[c] \in Request /\ ReqOK(req[c])
  BY DEF RoutingInv, ReqInv
<1>2. PICK r : r = [req[c] EXCEPT !.pc = "route", !.found = Lookup(req[c].host)]
  OBVIOUS
<1>3. req[c].pc = "host" /\ req' = [req EXCEPT ![c] = r] /\ UNCHANGED writer /\ jar' = jar
  BY <1>1, <1>2 DEF FindHost
<1>4. /\ r.pc = "route" /\ r.host = req[c].host /\ r.path = req[c].path
      /\ r.pick = req[c].pick /\ r.calm = req[c].calm /\ req[c].pick = {}
  BY <1>1, <1>2, <1>3 DEF Request, ReqOK
<1>5. AskOf(r) = AskOf(req[c])
  BY <1>3, <1>4 DEF AskOf
<1>6. AsksNow' = [AsksNow EXCEPT ![c] = AskOf(r)]
  BY <1>1, <1>3, AskedStep
<1>7. AsksNow' = AsksNow
  BY <1>5, <1>6, Asked DEF AsksNow
<1> QED
  BY <1>3, <1>7, Staged DEF writer

\* A rewrite begins: so it does in Dispatch.
LEMMA ClearMapped ==
    ASSUME RoutingInv, WriterStart
    PROVE  DP!Clear
<1>1. /\ wPc = "idle" /\ wPc' = "clear" /\ jar' = jar /\ table' = table
      /\ req' = [c \in Clients |-> [req[c] EXCEPT !.calm = FALSE]]
  BY DEF WriterStart
<1>2. StageNow = "calm" /\ StageNow' = "clearing"
  BY <1>1, Staged
<1>3. ASSUME NEW c \in Clients
      PROVE  AsksNow'[c] = [AsksNow[c] EXCEPT !.calm = FALSE]
  <2>1. PICK r : r = [req[c] EXCEPT !.calm = FALSE]
    OBVIOUS
  <2>2. req[c] \in Request
    BY DEF RoutingInv, ReqInv
  <2>3. /\ r.pc = req[c].pc /\ r.found = req[c].found /\ r.path = req[c].path
        /\ r.host = req[c].host /\ r.pick = req[c].pick /\ r.calm = FALSE
    BY <2>1, <2>2 DEF Request
  <2>4. AskOf(r) = [AskOf(req[c]) EXCEPT !.calm = FALSE]
    <3>1. PICK pc, by, no : /\ pc = IF r.pc \in {"host", "route"} THEN "ask" ELSE r.pc
                            /\ by = IF r.pick # {} THEN r.found ELSE {}
                            /\ no = FALSE
      OBVIOUS
    <3>2. AskOf(r) = DP!Request(pc, r.host, r.path, by, r.pick, no)
      BY <2>3, <3>1 DEF AskOf, DP!Request
    <3>3. AskOf(req[c]) = DP!Request(pc, r.host, r.path, by, r.pick, req[c].calm)
      BY <2>3, <3>1 DEF AskOf, DP!Request
    <3>4. [AskOf(req[c]) EXCEPT !.calm = no] = DP!Request(pc, r.host, r.path, by, r.pick, no)
      BY <3>3 DEF DP!Request
    <3> QED
      BY <3>1, <3>2, <3>4, Zenon
  <2>5. AsksNow'[c] = AskOf(r)
    BY <1>1, <2>1 DEF AsksNow
  <2> QED
    BY <2>4, <2>5, Asked
<1>4. AsksNow' = [c \in Clients |-> [AsksNow[c] EXCEPT !.calm = FALSE]]
  <2>1. DOMAIN AsksNow' = Clients /\ AsksNow' = [c \in Clients |-> AsksNow'[c]]
    BY DEF AsksNow
  <2> QED
    BY <1>3, <2>1
<1> QED
  BY <1>1, <1>2, <1>4 DEF DP!Clear

\* Of what the writer then does Dispatch sees the end of the clear, when it
\* replaces the table, and the end of the rewrite.
LEMMA WriterMapped ==
    ASSUME RoutingInv,
           \/ \E t \in Tables : WriterCleared(t)
           \/ \E h \in Hosts : WriterClear(h) \/ WriterUpst(h) \/ WriterById(h)
           \/ \E e \in byid : WriterDrop(e)
           \/ WriterDropped \/ WriterDone
    PROVE  \/ \E t \in Tables : DP!Replace(t)
           \/ DP!Settle \/ UNCHANGED <<table, StageNow, AsksNow, jar>>
<1>1. UNCHANGED req => AsksNow' = AsksNow
  BY DEF AsksNow
<1>2. ASSUME NEW t \in Tables, WriterCleared(t)
      PROVE  DP!Replace(t)
  BY <1>1, <1>2, Staged DEF WriterCleared, DP!Replace
<1>3. ASSUME NEW h \in Hosts, WriterClear(h) \/ WriterUpst(h) \/ WriterById(h)
      PROVE  UNCHANGED <<table, StageNow, AsksNow, jar>>
  BY <1>1, <1>3, Staged DEF WriterClear, WriterUpst, WriterById
<1>4. ASSUME (\E e \in byid : WriterDrop(e)) \/ WriterDropped
      PROVE  UNCHANGED <<table, StageNow, AsksNow, jar>>
  BY <1>1, <1>4, Staged DEF WriterDrop, WriterDropped
<1>5. ASSUME WriterDone
      PROVE  DP!Settle
  BY <1>1, <1>5, Staged DEF WriterDone, DP!Settle
<1> QED
  BY <1>2, <1>3, <1>4, <1>5

\* get_host finds the best path of the table, in whatever is put back so far.
LEMMA BestMapped ==
    ASSUME TableInv, NEW x \in DOMAIN upst, NEW path \in Paths
    PROVE  DP!Best(x, path) = GetPath(upst[x], path)
<1>1. PICK ps : ps = table[x]
  OBVIOUS
<1>2. \A p : DP!IsPrefix(p, path) <=> IsPrefix(p, path)
  BY DEF DP!IsPrefix, IsPrefix
<1>3. {p \in {p \in DOMAIN ps : ps[p].srv # << >>} : DP!IsPrefix(p, path)}
         = {p \in DOMAIN ps : Usable(ps, p) /\ IsPrefix(p, path)}
  BY <1>2 DEF Usable
<1>4. {p \in DOMAIN ps : ps[p].srv # << >>} \cap {DP!Root} = {p \in {Root} : Usable(ps, p)}
  BY DEF Usable, Root, DP!Root
<1>5. DP!Best(x, path) = Longest(ps, path, Usable)
  BY <1>1, <1>3, <1>4 DEF DP!Best, Longest
<1> QED
  BY <1>1, <1>5, SamePath

\* The servers that an identifier names are the same in Dispatch.
LEMMA NamedMapped ==
    ASSUME table \in Tables, NEW k
    PROVE  /\ \A d \in Named(k) : d.srv \in DP!Named(k)
           /\ DP!Named(k) # {} => Named(k) # {}
<1>1. \A f : DP!Range(f) = Range(f)
  BY DEF DP!Range, Range
<1>2. ASSUME NEW d \in Named(k)
      PROVE  d.srv \in DP!Named(k)
  <2>1. PICK h \in DOMAIN table : d \in ServersOf(h, table[h]) /\ Id(d) = k
    BY DEF Named, EntriesOf
  <2>2. PICK p \in DOMAIN table[h] : d \in [host : {h}, srv : Range(table[h][p].srv)]
    BY <2>1 DEF ServersOf
  <2>3. d.host = h /\ d.srv \in Range(table[h][p].srv) /\ d.srv \in Servers
    BY <2>1, <2>2, ServersOfHost
  <2>4. k.host = h /\ DP!IdOf(h, d.srv) = k
    BY <2>1, <2>3 DEF Id, IdOf, DP!IdOf
  <2> QED
    BY <1>1, <2>1, <2>3, <2>4 DEF DP!Named
<1>3. ASSUME NEW s \in DP!Named(k)
      PROVE  Named(k) # {}
  <2>1. /\ s \in Servers /\ DP!IdOf(k.host, s) = k /\ k.host \in DOMAIN table
        /\ \E p \in DOMAIN table[k.host] : s \in Range(table[k.host][p].srv)
    BY <1>1 DEF DP!Named
  <2>2. PICK h \in DOMAIN table : h = k.host
    BY <2>1
  <2>3. PICK p \in DOMAIN table[h] : s \in Range(table[h][p].srv)
    BY <2>1, <2>2
  <2>4. PICK e : e = [host |-> h, srv |-> s]
    OBVIOUS
  <2>5. e \in [host : {h}, srv : Range(table[h][p].srv)] /\ e.host = h /\ e.srv = s
    BY <2>3, <2>4
  <2>6. e \in EntriesOf(table)
    BY <2>5 DEF EntriesOf, ServersOf
  <2>7. Id(e) = k
    BY <2>1, <2>2, <2>5 DEF Id, IdOf, DP!IdOf
  <2> QED
    BY <2>6, <2>7 DEF Named
<1> QED
  BY <1>2, <1>3

\* A request at its second lookup, as Dispatch sees it: the host it found is one
\* that may serve it, and the only one if no rewrite overlaps it.
LEMMA MayMapped ==
    ASSUME RoutingInv, NEW c \in Clients, req[c].pc = "route"
    PROVE  /\ AsksNow[c].pc = "ask" /\ AsksNow[c].path = req[c].path /\ req[c].path \in Paths
           /\ req[c].found \cap DOMAIN upst \subseteq DP!May(AsksNow[c])
           /\ AsksNow[c].calm => DP!May(AsksNow[c]) \subseteq req[c].found \cap DOMAIN upst
<1>1. PICK r : r = req[c]
  OBVIOUS
<1>2. ReqOK(r) /\ CalmOK(r) /\ r.pc = "route" /\ r \in Request
  BY <1>1 DEF RoutingInv, ReqInv, CalmInv
<1>3. r.path \in Paths /\ r.found \subseteq {r.host, DEFAULT} /\ r.calm \in BOOLEAN
  BY <1>2 DEF ReqOK, Request
<1>4. r.calm => wPc = "idle" /\ r.found = HostFor(r.host)
  BY <1>2 DEF CalmOK
<1>5. PICK a : a = AsksNow[c]
  OBVIOUS
<1>6. a.pc = "ask" /\ a.host = r.host /\ a.path = r.path /\ a.calm = r.calm
  BY <1>1, <1>2, <1>5, Asked
<1>7. DOMAIN upst \subseteq DOMAIN table /\ (wPc = "idle" => DOMAIN upst = DOMAIN table)
  BY DEF RoutingInv, TableInv
<1>8. CASE r.calm
  <2>1. DP!May(a) = HostFor(r.host)
    BY <1>6, <1>8 DEF DP!May, HostFor
  <2>2. r.found = HostFor(r.host) /\ HostFor(r.host) \subseteq DOMAIN upst
    BY <1>4, <1>7, <1>8 DEF HostFor
  <2> QED
    BY <1>1, <1>3, <1>5, <1>6, <2>1, <2>2
<1>9. CASE ~r.calm
  <2>1. DP!May(a) = {r.host, DEFAULT} \cap DOMAIN table
    BY <1>6, <1>9 DEF DP!May
  <2> QED
    BY <1>1, <1>3, <1>5, <1>6, <1>7, <1>9, <2>1
<1> QED
  BY <1>8, <1>9

\* The answer to a request, as Dispatch sees it.
LEMMA AnswerMapped ==
    ASSUME RoutingInv, NEW c \in Clients, req[c].pc = "route", NEW ro, NEW pi,
           NEW r, r = [req[c] EXCEPT !.pc = "reply", !.route = ro, !.pick = pi],
           req' = [req EXCEPT ![c] = r]
    PROVE  DP!Answer(c, IF pi # {} THEN req[c].found ELSE {}, pi)
<1>1. req \in [Clients -> Request] /\ req[c] \in Request
  BY DEF RoutingInv, ReqInv
<1>2. PICK a : a = AsksNow[c]
  OBVIOUS
<1>3. a.host = req[c].host /\ a.path = req[c].path /\ a.calm = req[c].calm
  BY <1>2, Asked
<1>4. /\ r.pc = "reply" /\ r.host = req[c].host /\ r.path = req[c].path
      /\ r.found = req[c].found /\ r.pick = pi /\ r.calm = req[c].calm
  BY <1>1 DEF Request
<1>5. PICK by : by = IF pi # {} THEN req[c].found ELSE {}
  OBVIOUS
<1>6. AskOf(r) = DP!Request("reply", a.host, a.path, by, pi, a.calm)
  BY <1>3, <1>4, <1>5 DEF AskOf, DP!Request
<1>7. AsksNow' = [AsksNow EXCEPT ![c] = AskOf(r)]
  BY <1>1, AskedStep
<1> QED
  BY <1>2, <1>5, <1>6, <1>7 DEF DP!Answer

\* get_host finds no path: the request is refused.
LEMMA RefuseMapped ==
    ASSUME RoutingInv, NEW c \in Clients, req[c].pc = "route",
           req' = [req EXCEPT ![c].pc = "reply"], UNCHANGED <<upst, table, wPc, jar>>,
           \A x \in req[c].found \cap DOMAIN upst : GetPath(upst[x], req[c].path) = {}
    PROVE  DP!Refuse(c)
<1>1. req \in [Clients -> Request] /\ req[c] \in Request /\ req[c].pick = {} /\ req[c].route = {}
  BY DEF RoutingInv, ReqInv, ReqOK
<1>2. PICK r : r = [req[c] EXCEPT !.pc = "reply", !.route = {}, !.pick = {}]
  OBVIOUS
<1>3. req' = [req EXCEPT ![c] = r]
  <2>1. r = [req[c] EXCEPT !.pc = "reply"]
    BY <1>1, <1>2 DEF Request
  <2> QED
    BY <1>1, <2>1
<1>4. DP!Answer(c, {}, {})
  BY <1>2, <1>3, AnswerMapped
<1>5. \A x \in req[c].found \cap DOMAIN upst : DP!Best(x, req[c].path) = {}
  BY MayMapped, BestMapped DEF RoutingInv
<1>6. AsksNow[c].calm => \A x \in DP!May(AsksNow[c]) : DP!Best(x, AsksNow[c].path) = {}
  BY <1>5, MayMapped
<1> QED
  BY <1>4, <1>6, MayMapped, Staged DEF DP!Refuse

\* The turn decides.
LEMMA TurnMapped ==
    ASSUME RoutingInv, NEW c \in Clients, NEW x \in DOMAIN upst, NEW p \in DOMAIN upst[x],
           Sticky(c, x, p) = {}, Served(c, x, p), DP!Answer(c, {x}, Pick(c, x, p))
    PROVE  DP!ByTurn(c, x, p)
<1>1. PICK e : e = upst[x][p]
  OBVIOUS
<1>2. e.srv = table[x][p].srv /\ Position(e) \in DOMAIN e.srv /\ table \in Tables
  BY <1>1 DEF Served, Counting, RoutingInv, TableInv
<1>3. PICK s \in DP!Range(table[x][p].srv) : Pick(c, x, p) = {s}
  <2>1. Pick(c, x, p) = {e.srv[Position(e)]}
    BY <1>1 DEF Pick
  <2> QED
    BY <1>2, <2>1 DEF DP!Range
<1>4. ASSUME StageNow # "filling", NEW k \in jar[c],
             DP!Named(k) # {}, DP!Fits(k, table[x][p].srv)
      PROVE  FALSE
  <2>1. wPc \in {"idle", "clear"}
    BY <1>4, Staged DEF RoutingInv, TableInv
  <2>2. Named(k) # {}
    BY <1>2, <1>4, NamedMapped
  <2>3. PICK d \in byid : Id(d) = k
    BY <2>1, <2>2, NamedIsKnown
  <2>4. k.addr = d.srv.addr
    BY <2>3, IdFields
  <2>5. \E t \in Range(e.srv) : t.addr = d.srv.addr
    BY <1>2, <1>4, <2>4 DEF DP!Fits, DP!Range, Range
  <2> QED
    BY <1>1, <1>4, <2>3, <2>5 DEF Sticky, FindSticky
<1> QED
  BY <1>3, <1>4 DEF DP!ByTurn

\* The cookie decides.
LEMMA CookieMapped ==
    ASSUME RoutingInv, NEW c \in Clients, NEW x \in DOMAIN upst, NEW p \in DOMAIN upst[x],
           Sticky(c, x, p) # {}, Served(c, x, p), DP!Answer(c, {x}, Pick(c, x, p))
    PROVE  DP!ByCookie(c, x, p)
<1>1. PICK d \in byid : /\ Id(d) \in jar[c]
                        /\ \E s \in Range(upst[x][p].srv) : s.addr = d.srv.addr
  BY DEF Sticky, FindSticky
<1>2. /\ Single(jar[c]) /\ \A a, b \in byid : Id(a) = Id(b) => a = b
      /\ d \in [host : Hosts, srv : Servers] /\ table \in Tables
  BY <1>1 DEF RoutingInv, ReqInv, ByIdInv, TableInv
<1>3. Pick(c, x, p) = {d.srv}
  <2>1. {b \in byid : /\ Id(b) \in jar[c]
                      /\ \E s \in Range(upst[x][p].srv) : s.addr = b.srv.addr} = {d}
    BY <1>1, <1>2 DEF Single
  <2> QED
    BY <2>1 DEF Pick, Sticky, FindSticky
<1>4. PICK k \in jar[c] : k = Id(d)
  BY <1>1
<1>5. k.host = d.host /\ k.addr = d.srv.addr /\ DP!IdOf(k.host, d.srv) = k /\ d.srv \in Servers
  BY <1>2, <1>4 DEF Id, IdOf, DP!IdOf
<1>6. DP!Fits(k, table[x][p].srv)
  <2>1. upst[x][p].srv = table[x][p].srv
    BY DEF Served, Counting
  <2> QED
    BY <1>1, <1>5, <2>1 DEF DP!Fits, DP!Range, Range
<1>7. StageNow # "filling" => d.srv \in DP!Named(k)
  <2>1. SUFFICES ASSUME StageNow # "filling" PROVE d.srv \in DP!Named(k)
    OBVIOUS
  <2>2. wPc \in {"idle", "clear"}
    BY <2>1, Staged DEF RoutingInv, TableInv
  <2>3. d \in Named(k)
    BY <1>1, <1>4, <2>2, NamedIsKnown
  <2> QED
    BY <1>2, <2>3, NamedMapped
<1>8. DP!Answer(c, {x}, {d.srv})
  BY <1>3
<1> QED
  BY <1>5, <1>6, <1>7, <1>8 DEF DP!ByCookie

\* The second lookup and the choice of a server are one step of Dispatch.
LEMMA GetHostMapped ==
    ASSUME RoutingInv, NEW c \in Clients, GetHost(c)
    PROVE  DP!Serve(c) \/ DP!Refuse(c)
<1>1. req[c].pc = "route" /\ UNCHANGED <<table, wPc, jar>>
  BY RoutedOrNot
<1>2. CASE /\ req' = [req EXCEPT ![c].pc = "reply"] /\ UNCHANGED upst
           /\ \A x \in req[c].found \cap DOMAIN upst : GetPath(upst[x], req[c].path) = {}
  BY <1>1, <1>2, RefuseMapped
<1>3. ASSUME NEW x \in DOMAIN upst, NEW p \in DOMAIN upst[x],
             req[c].found = {x}, GetPath(upst[x], req[c].path) = {p},
             upst[x][p].srv # << >>, Route1(c, x, p)
      PROVE  DP!Serve(c)
  <2>1. Served(c, x, p)
    BY <1>3, ServerChosen
  <2>2. PICK r : r = [req[c] EXCEPT !.pc = "reply", !.route = {p}, !.pick = Pick(c, x, p)]
    OBVIOUS
  <2>3. req' = [req EXCEPT ![c] = r] /\ Pick(c, x, p) # {}
    BY <2>1, <2>2 DEF Served
  <2>4. DP!Answer(c, {x}, Pick(c, x, p))
    BY <1>1, <1>3, <2>2, <2>3, AnswerMapped
  <2>5. DP!ByTurn(c, x, p) \/ DP!ByCookie(c, x, p)
    BY <1>1, <1>3, <2>1, <2>4, TurnMapped, CookieMapped
  <2>6. AsksNow[c].pc = "ask" /\ x \in DP!May(AsksNow[c])
    BY <1>1, <1>3, MayMapped
  <2>7. p \in DP!Best(x, AsksNow[c].path)
    BY <1>1, <1>3, MayMapped, BestMapped DEF RoutingInv
  <2> QED
    BY <1>1, <2>5, <2>6, <2>7, Staged DEF DP!Serve
<1> QED
  BY <1>2, <1>3, RoutedOrNot

\* Routing implements Dispatch: although return_header_host_from_upstream and
\* get_host look up the host one after the other while the writer drops and puts
\* back the hosts and the identifiers one by one, a request gets its server as if
\* in one step, from a table that was replaced at once: a server of the path, or
\* one with the identifier in its cookie.
THEOREM DispatchKept == Spec => KeepsDispatch
<1>1. Init => DP!Init
  BY InitMapped
<1>2. RoutingInv /\ [Next]_vars => [DP!Next]_DP!vars
  <2> DEFINE stutter == UNCHANGED <<table, StageNow, AsksNow, jar>>
  <2>1. SUFFICES ASSUME RoutingInv, [Next]_vars
                 PROVE  DP!Next \/ stutter
    BY DEF DP!vars
  <2>2. ASSUME NEW c \in Clients, \E h \in Hosts, p \in Paths \ {<< >>} : Arrive(c, h, p)
        PROVE  DP!Next
    BY <2>1, <2>2, ArriveMapped DEF DP!Next
  <2>3. ASSUME NEW c \in Clients, FindHost(c)
        PROVE  stutter
    BY <2>1, <2>3, FindHostMapped
  <2>4. ASSUME NEW c \in Clients, GetHost(c)
        PROVE  DP!Next
    BY <2>1, <2>4, GetHostMapped DEF DP!Next
  <2>5. ASSUME NEW c \in Clients, Reply(c)
        PROVE  DP!Next
    BY <2>1, <2>5, ReplyMapped DEF DP!Next
  <2>6. ASSUME WriterStart
        PROVE  DP!Next
    BY <2>1, <2>6, ClearMapped DEF DP!Next
  <2>7. ASSUME \/ \E t \in Tables : WriterCleared(t)
               \/ \E h \in Hosts : WriterClear(h) \/ WriterUpst(h) \/ WriterById(h)
               \/ \E e \in byid : WriterDrop(e)
               \/ WriterDropped \/ WriterDone
        PROVE  DP!Next \/ stutter
    BY <2>1, <2>7, WriterMapped DEF DP!Next
  <2>8. ASSUME UNCHANGED vars
        PROVE  stutter
    BY <2>8, Staged DEF vars, AsksNow
  <2> HIDE DEF stutter
  <2> QED
    BY <2>1, <2>2, <2>3, <2>4, <2>5, <2>6, <2>7, <2>8 DEF Next
<1> QED
  BY <1>1, <1>2, Invariance, PTL DEF Spec, KeepsDispatch, DP!Spec
=============================================================================
