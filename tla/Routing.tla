------------------------------ MODULE Routing -------------------------------
(***************************************************************************)
(* How a request finds its server while the routing tables are rewritten.  *)
(*                                                                         *)
(* A request looks up its host (return_header_host_from_upstream), then    *)
(* its path and a server in it (get_host), and the response sets a cookie  *)
(* that names the server (upstream_peer, response_filter).  The host is    *)
(* looked up twice, and between the two lookups the writer of the tables,  *)
(* which is the background task or the health checker of Reload, may have  *)
(* cleared ump_upst and put back only some hosts.  DashMap::clear empties  *)
(* one shard after the other: hosts go, and then come back, one by one,    *)
(* and so do the entries of ump_byid.                                      *)
(*                                                                         *)
(* get_host is one step: it keeps the host's entry locked, so that when it *)
(* reads ump_byid the entry is what it was when it was looked up.          *)
(*                                                                         *)
(* A path is the sequence of its segments: "/a/b" is <<"a", "b">>, "/" is  *)
(* <<"">>, and cutting a path at its last slash drops the last segment.    *)
(* A server has its address, the options that its identifier hashes (opt:  *)
(* the limits, is_http2, to_https, healthcheck, authorization) and what    *)
(* that leaves out (rest: redirect_to, is_ssl, and whether an option is    *)
(* absent or zero).  The identifier, which is the key of ump_byid and the  *)
(* content of the cookie, has the host but not the path, so two paths may  *)
(* have servers with one identifier, of which ump_byid keeps one.          *)
(***************************************************************************)
EXTENDS Naturals, Sequences, SequencesExt, FiniteSetsExt

CONSTANTS
    Hosts,      \* host names, DEFAULT among them
    DEFAULT,    \* the host that takes requests for any other
    Paths,      \* paths that are configured or requested
    Servers,    \* records [addr, opt, rest]
    Tables,     \* the routing tables that may be written
    Clients,    \* clients: each sends one request after the other
    MaxReqs,    \* bound: requests
    MaxWrites   \* bound: rewrites of the tables

Root == <<"">>

\* What a configuration gives a path: its servers in order, and whether it has
\* headers of its own.
Route == [srv : Seq(Servers), hdr : BOOLEAN]

\* A path is a sequence; << >> is the configured path "", which no request has.
ASSUME PathsAssumption == \A p \in Paths : p \in Seq(Range(p))
ASSUME DefaultAssumption == DEFAULT \in Hosts
ASSUME TablesAssumption ==
    \A t \in Tables :
        /\ DOMAIN t \subseteq Hosts
        /\ \A h \in DOMAIN t :
              /\ DOMAIN t[h] \subseteq Paths
              /\ \A p \in DOMAIN t[h] : t[h][p] \in Route
ASSUME BoundsAssumption == MaxReqs \in Nat /\ MaxWrites \in Nat

VARIABLES
    upst,       \* host -> path -> [srv, hdr, idx, tally]
    byid,       \* set of [host, srv], one for each identifier
    table,      \* the table written last, or being written
    wPc, wLeft, \* the writer: what it clears or fills, and the hosts left
    writes,     \* rewrites so far
    req,        \* per client, the request it waits for
    jar,        \* per client, the identifier in its cookie, if it has one
    reqs        \* requests so far

vars == <<upst, byid, table, wPc, wLeft, writes, req, jar, reqs>>
writer == <<upst, byid, table, wPc, wLeft, writes>>

-----------------------------------------------------------------------------
(* The tables *)

Insert(t, h, v) ==
    [x \in DOMAIN t \cup {h} |-> IF x = h THEN v ELSE t[x]]

\* clone_dashmap_into: the counter of every path starts again at zero.
\* tally is history: how often the counter chose each server.
Entry(ps) ==
    [p \in DOMAIN ps |->
        [srv |-> ps[p].srv, hdr |-> ps[p].hdr, idx |-> 0,
         tally |-> [i \in DOMAIN ps[p].srv |-> 0]]]

\* What is hashed for a server of a host.
IdOf(h, s) == [host |-> h, addr |-> s.addr, opt |-> s.opt]
Id(e) == IdOf(e.host, e.srv)

\* The servers of a host, and of a table, each with its host.
ServersOf(h, ps) == UNION {[host : {h}, srv : Range(ps[p].srv)] : p \in DOMAIN ps}
EntriesOf(t) == UNION {ServersOf(h, t[h]) : h \in DOMAIN t}

\* P has one entry of E for each identifier: the one inserted last, and the
\* paths of a host are visited in any order.
OnePerId(P, E) ==
    /\ P \subseteq E
    /\ \A e \in E : \E d \in P : Id(d) = Id(e)
    /\ \A d, e \in P : Id(d) = Id(e) => d = e

\* clone_idmap_into, for one host
Ids(h, ps) == {P \in SUBSET ServersOf(h, ps) : OnePerId(P, ServersOf(h, ps))}

-----------------------------------------------------------------------------
(* Choosing a path and a server *)

Usable(ps, p) == p \in DOMAIN ps /\ ps[p].srv # << >>

\* Mutant: only the whole path and "/" are tried.
GetPathFlat(ps, path) ==
    {p \in {path} : Usable(ps, p)}
        \cup {p \in {Root} : ~Usable(ps, path) /\ Usable(ps, p)}

\* get_host, its loop: from the whole path downwards, the first prefix that
\* has a server, and "/" after the empty prefix.
GetPath(ps, path) ==
    LET try[n \in 0..Len(path)] ==
          LET p == SubSeq(path, 1, n) IN
          IF Usable(ps, p) THEN {p}
          ELSE IF n > 0 THEN try[n - 1]
          ELSE {q \in {Root} : Usable(ps, q)}
    IN  try[Len(path)]

HasHeaders(ps, p) == p \in DOMAIN ps /\ ps[p].hdr

\* get_header, its loop: the same descent, but it ends at "/" and passes over
\* paths without headers.
GetHeaderPath(ps, path) ==
    LET try[n \in 1..Len(path)] ==
          LET p == SubSeq(path, 1, n) IN
          IF HasHeaders(ps, p) THEN {p}
          ELSE IF n > 1 THEN try[n - 1]
          ELSE {q \in {Root} : HasHeaders(ps, q)}
    IN  try[Len(path)]

\* Mutant: any server that is known is taken, whatever the path.
FindStickyAny(e, cookie) == {d.srv : d \in {b \in byid : Id(b) \in cookie}}

\* find_sticky_backend: the cookie names a server that is known, and the path
\* has a server at the same address.
FindSticky(e, cookie) ==
    {d.srv : d \in {b \in byid : /\ Id(b) \in cookie
                                 /\ \E s \in Range(e.srv) : s.addr = b.srv.addr}}

\* Mutant: the last server is never chosen.
PositionShort(e) == (e.idx % (IF Len(e.srv) > 1 THEN Len(e.srv) - 1 ELSE 1)) + 1

\* pick_backend without a cookie: the counter's old value, modulo the length.
Position(e) == (e.idx % Len(e.srv)) + 1
Advance(e) == [e EXCEPT !.idx = @ + 1, !.tally[Position(e)] = @ + 1]

-----------------------------------------------------------------------------
(* Requests.  In a request found, route and pick are sets of at most one    *)
(* element; calm is history: no rewrite has overlapped it.                  *)

Idle == [pc |-> "idle", host |-> DEFAULT, path |-> Root,
         found |-> {}, route |-> {}, pick |-> {}, calm |-> TRUE]

Arrive(c, h, p) ==
    /\ req[c].pc = "idle" /\ reqs < MaxReqs
    /\ req' = [req EXCEPT ![c] = [Idle EXCEPT !.pc = "host", !.host = h,
                                              !.path = p, !.calm = (wPc = "idle")]]
    /\ reqs' = reqs + 1
    /\ UNCHANGED <<writer, jar>>

\* Mutant: there is no catch-all host.
LookupStrict(h) == {h} \cap DOMAIN upst

\* return_header_host_from_upstream
Lookup(h) ==
    IF h \in DOMAIN upst THEN {h} ELSE {DEFAULT} \cap DOMAIN upst

FindHost(c) ==
    /\ req[c].pc = "host"
    /\ req' = [req EXCEPT ![c].pc = "route", ![c].found = Lookup(req[c].host)]
    /\ UNCHANGED <<writer, jar, reqs>>

\* get_host finds the host again, and a path: the cookie decides, or the turn.
Route1(c, h, p) ==
    LET e == upst[h][p]
        sticky == FindSticky(e, jar[c])
    IN  /\ req' = [req EXCEPT ![c].pc = "reply", ![c].route = {p},
                     ![c].pick = IF sticky # {} THEN sticky
                                                ELSE {e.srv[Position(e)]}]
        /\ upst' = IF sticky # {} THEN upst
                                  ELSE [upst EXCEPT ![h][p] = Advance(e)]

GetHost(c) ==
    /\ req[c].pc = "route"
    /\ LET h == req[c].found \cap DOMAIN upst
           ps == UNION {GetPath(upst[x], req[c].path) : x \in h}
       IN  IF ps = {}
           THEN req' = [req EXCEPT ![c].pc = "reply"] /\ UNCHANGED upst
           ELSE \E x \in h, p \in ps : Route1(c, x, p)
    /\ UNCHANGED <<byid, table, wPc, wLeft, writes, jar, reqs>>

\* upstream_peer and response_filter: the server's response carries its
\* identifier, unlike the 502 without a server, the proxy's own answers (401,
\* 429, 301) and those for a server that failed.
Reply(c) ==
    /\ req[c].pc = "reply"
    /\ \/ UNCHANGED jar
       \/ /\ req[c].pick # {}
          /\ jar' = [jar EXCEPT ![c] =
                        {Id(e) : e \in [host : req[c].found, srv : req[c].pick]}]
    /\ req' = [req EXCEPT ![c] = Idle]
    /\ UNCHANGED <<writer, reqs>>

-----------------------------------------------------------------------------
(* The writer: Reload's background task or health checker *)

\* A rewrite begins with ump_upst.clear, ...
WriterStart ==
    /\ wPc = "idle" /\ writes < MaxWrites
    /\ wPc' = "clear"
    /\ writes' = writes + 1
    /\ req' = [c \in Clients |-> [req[c] EXCEPT !.calm = FALSE]]
    /\ UNCHANGED <<upst, byid, table, wLeft, jar, reqs>>

\* ... which drops the hosts, ...
WriterClear(h) ==
    /\ wPc = "clear" /\ h \in DOMAIN upst
    /\ upst' = [g \in DOMAIN upst \ {h} |-> upst[g]]
    /\ UNCHANGED <<byid, table, wPc, wLeft, writes, req, jar, reqs>>

\* Mutant: hosts of the old table stay.
WriterClearedKeep(t) ==
    /\ wPc = "clear"
    /\ table' = t
    /\ wPc' = "upst" /\ wLeft' = DOMAIN t
    /\ UNCHANGED <<upst, byid, writes, req, jar, reqs>>

\* ... and ends when none is left.
WriterCleared(t) ==
    /\ wPc = "clear" /\ DOMAIN upst = {}
    /\ table' = t
    /\ wPc' = "upst" /\ wLeft' = DOMAIN t
    /\ UNCHANGED <<upst, byid, writes, req, jar, reqs>>

WriterUpst(h) ==
    /\ wPc = "upst" /\ h \in wLeft
    /\ upst' = Insert(upst, h, Entry(table[h]))
    /\ wLeft' = wLeft \ {h}
    /\ UNCHANGED <<byid, table, wPc, writes, req, jar, reqs>>

\* ump_byid.clear drops an entry, ...
WriterDrop(e) ==
    /\ wPc = "upst" /\ wLeft = {} /\ e \in byid
    /\ byid' = byid \ {e}
    /\ UNCHANGED <<upst, table, wPc, wLeft, writes, req, jar, reqs>>

\* Mutant: entries of the old table stay.
WriterDroppedKeep ==
    /\ wPc = "upst" /\ wLeft = {}
    /\ wPc' = "byid" /\ wLeft' = DOMAIN table
    /\ UNCHANGED <<upst, byid, table, writes, req, jar, reqs>>

\* ... and ends when none is left.
WriterDropped ==
    /\ wPc = "upst" /\ wLeft = {} /\ byid = {}
    /\ wPc' = "byid" /\ wLeft' = DOMAIN table
    /\ UNCHANGED <<upst, byid, table, writes, req, jar, reqs>>

\* Mutant: the map of identifiers is left empty.
WriterByIdSkip(h) ==
    /\ wPc = "byid" /\ h \in wLeft
    /\ wLeft' = wLeft \ {h}
    /\ UNCHANGED <<byid, upst, table, wPc, writes, req, jar, reqs>>

\* No identifier of one host is one of another's.
WriterById(h) ==
    /\ wPc = "byid" /\ h \in wLeft
    /\ \E P \in Ids(h, table[h]) : byid' = byid \cup P
    /\ wLeft' = wLeft \ {h}
    /\ UNCHANGED <<upst, table, wPc, writes, req, jar, reqs>>

WriterDone ==
    /\ wPc = "byid" /\ wLeft = {}
    /\ wPc' = "idle"
    /\ UNCHANGED <<upst, byid, table, wLeft, writes, req, jar, reqs>>

Init ==
    /\ table \in Tables
    /\ upst = [h \in DOMAIN table |-> Entry(table[h])]
    /\ byid \in {P \in SUBSET EntriesOf(table) : OnePerId(P, EntriesOf(table))}
    /\ wPc = "idle" /\ wLeft = {} /\ writes = 0
    /\ req = [c \in Clients |-> Idle]
    /\ jar = [c \in Clients |-> {}]
    /\ reqs = 0

Next ==
    \/ \E c \in Clients :
          \/ \E h \in Hosts, p \in Paths \ {<< >>} : Arrive(c, h, p)
          \/ FindHost(c) \/ GetHost(c) \/ Reply(c)
    \/ \E t \in Tables : WriterCleared(t)
    \/ \E h \in Hosts : WriterClear(h) \/ WriterUpst(h) \/ WriterById(h)
    \/ \E e \in byid : WriterDrop(e)
    \/ WriterStart \/ WriterDropped \/ WriterDone

Spec == Init /\ [][Next]_vars

-----------------------------------------------------------------------------
(* Properties *)

\* Types of the variables.
TypeOK ==
    /\ table \in Tables
    /\ DOMAIN upst \subseteq DOMAIN table
    /\ \A h \in DOMAIN upst :
          /\ DOMAIN upst[h] = DOMAIN table[h]
          /\ \A p \in DOMAIN upst[h] : /\ upst[h][p].srv = table[h][p].srv
                                       /\ upst[h][p].idx \in 0..MaxReqs
    /\ byid \subseteq [host : Hosts, srv : Servers]
    /\ wPc \in {"idle", "clear", "upst", "byid"} /\ wLeft \subseteq DOMAIN table
    /\ \A c \in Clients :
          /\ req[c].pc \in {"idle", "host", "route", "reply"}
          /\ req[c].found \subseteq Hosts /\ req[c].pick \subseteq Servers
          /\ jar[c] \subseteq {Id(e) : e \in [host : Hosts, srv : Servers]}
    /\ writes \in 0..MaxWrites /\ reqs \in 0..MaxReqs

\* The longest prefix of path that satisfies OK, and "/" when none does.
Longest(ps, path, OK(_, _)) ==
    LET fit == {p \in DOMAIN ps : OK(ps, p) /\ IsPrefix(p, path)}
    IN  IF fit # {} THEN {p \in fit : \A q \in fit : Len(q) <= Len(p)}
                    ELSE {p \in {Root} : OK(ps, p)}

\* "deep nested paths are supported, the best match chosen" (README.md): both
\* descents end at the longest configured prefix that has servers, or headers,
\* for every subset of the paths of a host; the path "" serves what no longer
\* one does, but its headers are never used.
BestMatch ==
    \A h \in DOMAIN upst : \A D \in SUBSET DOMAIN upst[h] :
        LET Of(S) == [p \in S |-> upst[h][p]]
        IN  \A path \in Paths \ {<< >>} :
              /\ GetPath(Of(D), path) = Longest(Of(D), path, Usable)
              /\ GetHeaderPath(Of(D), path) = Longest(Of(D \ {<< >>}), path, HasHeaders)

\* Round robin: among the requests without a cookie for one path since the
\* last rewrite, no server of the path got two more than another.
Balanced ==
    \A h \in DOMAIN upst : \A p \in DOMAIN upst[h] :
        LET n == upst[h][p].tally
        IN  \A i, j \in DOMAIN n : n[i] <= n[j] + 1

\* A request that no rewrite overlaps is served by its own host if the table
\* has it, by DEFAULT otherwise, from the best path, and refused (502) only if
\* that host has no path for it.
CalmService ==
    \A c \in Clients :
        LET r == req[c]
            h == IF r.host \in DOMAIN table THEN {r.host}
                                            ELSE {DEFAULT} \cap DOMAIN table
            best == UNION {Longest(table[x], r.path, Usable) : x \in h}
        IN  (r.pc = "reply" /\ r.calm) =>
              /\ r.found = h
              /\ r.route = best
              /\ (r.pick = {}) = (best = {})

\* c is given a server in this step; path of the step.
Chosen(c) == req[c].pc = "route" /\ req'[c].pick # {}
Candidates(c) ==
    UNION {Range(upst[h][p].srv) : h \in req[c].found, p \in req'[c].route}

\* The entries of the table with the identifier k.
Named(k) == {e \in EntriesOf(table) : Id(e) = k}

\* While the tables stand still, a client whose cookie names a server of the
\* table goes back to a server of the table with that identifier, if the path
\* has one at its address, also when the tables were rewritten after the cookie
\* was set.  When two paths have servers with one identifier it may be either:
\* only the address and the options that are hashed are sure to be the same.
StickyKept ==
    [][\A c \in Clients : (Chosen(c) /\ wPc = "idle") =>
          \A k \in jar[c] :
              (Named(k) # {} /\ \E s \in Candidates(c) : s.addr = k.addr)
              => \E e \in Named(k) : req'[c].pick = {e.srv}]_vars

\* While the tables stand still, a client without a cookie, or whose cookie is
\* the identifier of no server of the table, gets a server of the path with all
\* its options.
StaleCookieIgnored ==
    [][\A c \in Clients : (Chosen(c) /\ wPc = "idle") =>
          ((\A k \in jar[c] : Named(k) = {})
              => req'[c].pick \subseteq Candidates(c))]_vars

\* Whatever the cookie says, and also in the middle of a rewrite, the address
\* a request goes to is one of the servers of the path it matched.
AddressOfRoute ==
    [][\A c \in Clients : Chosen(c) =>
          \A s \in req'[c].pick : \E t \in Candidates(c) : t.addr = s.addr]_vars

\* The mapping to Dispatch: the table counts as replaced when the last host of
\* the old one is dropped, and the two lookups are one step.
StageNow ==
    CASE wPc = "idle" -> "calm" [] wPc = "clear" -> "clearing" [] OTHER -> "filling"
AskOf(r) ==
    [pc |-> IF r.pc \in {"host", "route"} THEN "ask" ELSE r.pc,
     host |-> r.host, path |-> r.path,
     by |-> IF r.pick # {} THEN r.found ELSE {}, pick |-> r.pick, calm |-> r.calm]
AsksNow == [c \in Clients |-> AskOf(req[c])]

DP == INSTANCE Dispatch WITH
        stage <- StageNow, ask <- AsksNow

\* Routing keeps the contract of Dispatch, which replaces the table at once and
\* gives a request its server in one step: while hosts are dropped the old table
\* is served from, and once they are, no request is served from it any more, not
\* even one that looked up its host in it; only while the new table is filled
\* may a cookie be ignored or bring back a server that is gone.
KeepsDispatch == DP!Spec
=============================================================================
