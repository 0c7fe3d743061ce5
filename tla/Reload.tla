------------------------------- MODULE Reload -------------------------------
(***************************************************************************)
(* The routing tables of the proxy and the tasks that write them.          *)
(*                                                                         *)
(*   ump_full   every server of the configuration last applied             *)
(*   ump_upst   the servers that requests are sent to                      *)
(*   ump_byid   the servers of ump_upst by their sticky-session identifier *)
(*                                                                         *)
(* Loaders (the watcher of upstreams.yaml, the handlers of POST /conf)     *)
(* parse a configuration, probe its servers and send the result down a     *)
(* channel of capacity one.  The background task receives it and rewrites  *)
(* the three tables, the parameters and the headers.  The health checker   *)
(* copies ump_full, probes every server in it, and rewrites ump_upst and   *)
(* ump_byid when the outcome differs from ump_upst.                        *)
(*                                                                         *)
(* A table is cleared and then filled host by host, and the proxy's        *)
(* threads read it meanwhile, so a rewrite is one step per host.  Neither  *)
(* rewrite has an await inside: when the background runtime has one worker *)
(* thread the two never interleave, when it has more they may.  The clear  *)
(* is one step here, where only the writers matter; Routing takes it apart *)
(* for the requests that see it under way.                                 *)
(*                                                                         *)
(* Abstractions: the servers of a host are one set, in which each has its  *)
(* path; so a path none of whose servers is left counts as absent, also in *)
(* a comparison.  Of the options only healthcheck is modelled, and path    *)
(* stands also for redirect_to, which no identifier has.  The client and   *)
(* the server headers of a host are written in one step; the probes made   *)
(* by one load, and those of one host in a round, are one step, as is a    *)
(* comparison of two tables; only files and bodies that parse, with        *)
(* provider file, are loaded.                                              *)
(***************************************************************************)
EXTENDS Naturals, Sequences, FiniteSets

CONSTANTS
    Hosts,      \* host names
    Paths,      \* paths
    Backends,   \* addresses (address:port) of servers
    Configs,    \* the configurations that may be loaded
    Loaders,    \* tasks that load a configuration and send it
    Workers,    \* worker threads of the background runtime
    MaxLoads,   \* bound: configurations loaded after start
    MaxFlips    \* bound: changes of the state of a backend

\* What a backend answers to a probe: nothing, HTTP, HTTPS, or HTTP/2.
Status == {"down", "plain", "tls", "h2"}

\* healthcheck: not given, true or false.
HealthCheck == {"none", "yes", "no"}

Server == [path : Paths, addr : Backends, hc : HealthCheck]
InnerMap == [path : Paths, addr : Backends, hc : HealthCheck, proto : Status]

\* A table is a function from the hosts it holds.
IsTable(t, S) == \E D \in SUBSET Hosts : t \in [D -> SUBSET S]
Empty == [h \in {} |-> {}]

ASSUME ConfigsAssumption == \A c \in Configs : IsTable(c, Server)
ASSUME WorkersAssumption == Workers \in Nat \ {0}
ASSUME BoundsAssumption == MaxLoads \in Nat /\ MaxFlips \in Nat

VARIABLES
    up,         \* environment: the state of every backend
    flips,      \* changes made to up
    loads,      \* configurations loaded after start
    firstRun,   \* GLOBAL_STATE.first_run
    ld,         \* per loader, the configuration it waits to send
    chan,       \* the channel of capacity one to the background task
    bgPc,       \* the table the background task is filling
    bgLeft,     \* hosts it has still to insert there
    cur,        \* the message it received last
    full, upst, byid,
    params,     \* the configuration extraparams come from, none at start
    hdrs,       \* per host, the configuration its headers come from
    hcPc,       \* the stage of the health checker's round
    hcLeft,     \* hosts left in that stage
    hcTab,      \* its copy of ump_full, then the outcome of the probes
    applied,    \* history: every configuration received
    fresh,      \* history: nothing was received since the round began
    early,      \* history: nothing had been received when it began
    blank       \* history: such a round has rewritten ump_upst last

envVars == <<up, flips>>
ldVars == <<loads, firstRun, ld>>
bgVars == <<bgPc, bgLeft, cur, params, hdrs, applied>>
hcVars == <<hcPc, hcLeft, hcTab>>
tables == <<full, upst, byid>>
hist == <<fresh, early, blank>>
vars == <<envVars, ldVars, chan, bgVars, hcVars, tables, hist>>

-----------------------------------------------------------------------------
(* Servers and tables *)

\* populate_file_upstreams: a server as it is written in the file.
AsConfigured(c) ==
    [h \in DOMAIN c |->
        {[path |-> s.path, addr |-> s.addr, hc |-> s.hc, proto |-> "plain"] : s \in c[h]}]

\* healthcheck.unwrap_or(true)
Probed(s) == s.hc # "no"

\* The servers of S that are kept: those that answer, and those that are not
\* probed, for which TLS is not detected either.
Probe(S) ==
    {[path |-> s.path, addr |-> s.addr, hc |-> s.hc,
      proto |-> IF Probed(s) THEN up[s.addr] ELSE "plain"] :
        s \in {t \in S : Probed(t) => up[t.addr] # "down"}}

\* build_upstreams: a host all of whose servers are dead stays in the table.
Build(t) == [h \in DOMAIN t |-> Probe(t[h])]

\* DashMap::insert
Insert(t, h, v) ==
    [x \in DOMAIN t \cup {h} |-> IF x = h THEN v ELSE t[x]]

\* The servers of a table, each with its host.
Entries(t) == {e \in [host : DOMAIN t, srv : InnerMap] : e.srv \in t[e.host]}

\* What is hashed for a server: healthcheck.unwrap_or_default and is_http2, but
\* neither the path nor is_ssl.
Id(e) == [host |-> e.host, addr |-> e.srv.addr,
          hc |-> e.srv.hc = "yes", h2 |-> e.srv.proto = "h2"]

\* P has one entry of E for each identifier: the one inserted last, and the
\* paths of a host are visited in any order.
OnePerId(P, E) ==
    /\ P \subseteq E
    /\ \A e \in E : \E d \in P : Id(d) = Id(e)
    /\ \A d, e \in P : Id(d) = Id(e) => d = e

\* clone_idmap_into, for one host: the entries that it may leave, ...
Ids(h, S) == {P \in SUBSET [host : {h}, srv : S] : OnePerId(P, [host : {h}, srv : S])}

\* ... each in the place of the one with its identifier.
PutIds(b, h, S) ==
    {{e \in b : \A d \in P : Id(d) # Id(e)} \cup P : P \in Ids(h, S)}

IsMessage(m) ==
    m \in [cfg : Configs, ups : {m.ups}] /\ IsTable(m.ups, InnerMap)

-----------------------------------------------------------------------------
(* Loaders *)

\* load_configuration for c: only the first configuration that has upstreams
\* keeps the servers that do not answer.
Load(l, c) ==
    /\ loads < MaxLoads
    /\ ld[l] = {}
    /\ ld' = [ld EXCEPT ![l] =
                {[cfg |-> c, ups |-> IF firstRun THEN AsConfigured(c)
                                                 ELSE Build(c)]}]
    /\ firstRun' = (firstRun /\ c = Empty)
    /\ loads' = loads + 1
    /\ UNCHANGED <<envVars, chan, bgVars, hcVars, tables, hist>>

\* Mutant: the channel has no capacity limit.
SendUnbounded(l) ==
    /\ \E m \in ld[l] : chan' = Append(chan, m)
    /\ ld' = [ld EXCEPT ![l] = {}]
    /\ UNCHANGED <<envVars, loads, firstRun, bgVars, hcVars, tables, hist>>

\* tx.send: waits while the channel is full.
Send(l) ==
    /\ chan = << >>
    /\ \E m \in ld[l] : chan' = <<m>>
    /\ ld' = [ld EXCEPT ![l] = {}]
    /\ UNCHANGED <<envVars, loads, firstRun, bgVars, hcVars, tables, hist>>

-----------------------------------------------------------------------------
(* The background task.  It is between two awaits unless it is idle, and so *)
(* is the health checker unless it is idle or waits for a probe.            *)

BgRunning == bgPc # "idle"
HcRunning == hcPc \in {"copy", "upst", "byid"}

\* With one worker a task runs only when the other has reached an await.
BgMayRun == Workers = 1 => ~HcRunning
HcMayRun == Workers = 1 => ~BgRunning

\* Mutant: ump_full is extended rather than replaced.
BgRecvNoClear ==
    /\ bgPc = "idle" /\ BgMayRun
    /\ chan # << >>
    /\ cur' = Head(chan)
    /\ chan' = Tail(chan)
    /\ bgPc' = "full"
    /\ bgLeft' = DOMAIN Head(chan).ups
    /\ applied' = applied \cup {Head(chan).cfg}
    /\ fresh' = FALSE
    /\ UNCHANGED <<early, blank, envVars, ldVars, params, hdrs, hcVars, tables>>

\* Mutant: the message stays in the channel.
BgRecvPeek ==
    /\ bgPc = "idle" /\ BgMayRun
    /\ chan # << >>
    /\ cur' = Head(chan)
    /\ full' = Empty
    /\ bgPc' = "full"
    /\ bgLeft' = DOMAIN Head(chan).ups
    /\ applied' = applied \cup {Head(chan).cfg}
    /\ fresh' = FALSE
    /\ UNCHANGED <<early, blank, envVars, ldVars, chan, params, hdrs, hcVars, upst, byid>>

\* rx.recv; the first clone_dashmap_into starts with ump_full.clear.
BgRecv ==
    /\ bgPc = "idle" /\ BgMayRun
    /\ chan # << >>
    /\ cur' = Head(chan)
    /\ chan' = Tail(chan)
    /\ full' = Empty
    /\ bgPc' = "full"
    /\ bgLeft' = DOMAIN Head(chan).ups
    /\ applied' = applied \cup {Head(chan).cfg}
    /\ fresh' = FALSE
    /\ UNCHANGED <<early, blank, envVars, ldVars, params, hdrs, hcVars, upst, byid>>

BgFull(h) ==
    /\ bgPc = "full"
    /\ full' = Insert(full, h, cur.ups[h])
    /\ UNCHANGED <<upst, byid, hdrs>>

BgUpst(h) ==
    /\ bgPc = "upst"
    /\ upst' = Insert(upst, h, cur.ups[h])
    /\ UNCHANGED <<full, byid, hdrs>>

BgById(h) ==
    /\ bgPc = "byid"
    /\ byid' \in PutIds(byid, h, cur.ups[h])
    /\ UNCHANGED <<full, upst, hdrs>>

BgHdrs(h) ==
    /\ bgPc = "hdrs"
    /\ hdrs' = Insert(hdrs, h, cur.cfg)
    /\ UNCHANGED tables

\* One iteration of the loop over the hosts that is under way.
BgInsert(h) ==
    /\ h \in bgLeft /\ BgMayRun
    /\ bgLeft' = bgLeft \ {h}
    /\ \/ BgFull(h)
       \/ BgUpst(h)
       \/ BgById(h)
       \/ BgHdrs(h)
    /\ UNCHANGED <<envVars, ldVars, chan, bgPc, cur, params, applied,
                   hcVars, hist>>

\* Mutant: ump_upst is extended rather than replaced.
BgClearUpstKeep ==
    /\ bgPc = "full"
    /\ bgPc' = "upst" /\ blank' = FALSE
    /\ UNCHANGED <<full, upst, byid, params, hdrs>>

\* A loop ends; the next one starts by clearing its table.
BgClearUpst ==
    /\ bgPc = "full"
    /\ bgPc' = "upst" /\ upst' = Empty /\ blank' = FALSE
    /\ UNCHANGED <<full, byid, params, hdrs>>

BgClearById ==
    /\ bgPc = "upst"
    /\ bgPc' = "byid" /\ byid' = {}
    /\ UNCHANGED <<full, upst, params, hdrs, blank>>

BgParams ==
    /\ bgPc = "byid"
    /\ bgPc' = "hdrs" /\ params' = {cur.cfg} /\ hdrs' = Empty
    /\ UNCHANGED <<tables, blank>>

BgNext ==
    /\ bgLeft = {} /\ BgMayRun
    /\ BgClearUpst \/ BgClearById \/ BgParams
    /\ bgLeft' = DOMAIN cur.ups
    /\ UNCHANGED <<envVars, ldVars, chan, cur, applied, hcVars, fresh, early>>

\* Back to the select.
BgDone ==
    /\ bgPc = "hdrs" /\ bgLeft = {} /\ BgMayRun
    /\ bgPc' = "idle"
    /\ UNCHANGED <<envVars, ldVars, chan, bgLeft, cur, params, hdrs, applied,
                   hcVars, tables, hist>>

-----------------------------------------------------------------------------
(* The health checker *)

\* Mutant: the servers of a host are not compared.
SameHosts(t, u) == DOMAIN t = DOMAIN u

\* compare_dashmaps: same hosts, and for each the same set of servers.
SameTables(t, u) == DOMAIN t = DOMAIN u /\ \A h \in DOMAIN t : t[h] = u[h]

\* Mutant: the copy of the last round is reused.
HcTickReuse ==
    /\ hcPc = "idle" /\ HcMayRun
    /\ hcPc' = "copy" /\ hcLeft' = Hosts
    /\ fresh' = TRUE /\ early' = (applied = {})
    /\ UNCHANGED <<blank, envVars, ldVars, chan, bgVars, tables, hcTab>>

\* period.tick: build_upstreams starts to copy ump_full.
HcTick ==
    /\ hcPc = "idle" /\ HcMayRun
    /\ hcPc' = "copy" /\ hcLeft' = Hosts /\ hcTab' = Empty
    /\ fresh' = TRUE /\ early' = (applied = {})
    /\ UNCHANGED <<blank, envVars, ldVars, chan, bgVars, tables>>

\* clone_dashmap visits a host, which ump_full may or may not hold by then.
HcCopy(h) ==
    /\ hcPc = "copy" /\ h \in hcLeft /\ HcMayRun
    /\ hcLeft' = hcLeft \ {h}
    /\ hcTab' = IF h \in DOMAIN full THEN Insert(hcTab, h, full[h]) ELSE hcTab
    /\ UNCHANGED <<envVars, ldVars, chan, bgVars, hcPc, tables, hist>>

HcCopied ==
    /\ hcPc = "copy" /\ hcLeft = {} /\ HcMayRun
    /\ hcPc' = "probe" /\ hcLeft' = DOMAIN hcTab
    /\ UNCHANGED <<envVars, ldVars, chan, bgVars, hcTab, tables, hist>>

\* The servers of a host are probed: detect_tls and http_request are awaited.
HcProbe(h) ==
    /\ hcPc = "probe" /\ h \in hcLeft /\ HcMayRun
    /\ hcLeft' = hcLeft \ {h}
    /\ hcTab' = Insert(hcTab, h, Probe(hcTab[h]))
    /\ UNCHANGED <<envVars, ldVars, chan, bgVars, hcPc, tables, hist>>

\* compare_dashmaps finds nothing new.
HcSame ==
    /\ hcPc = "probe" /\ hcLeft = {} /\ HcMayRun
    /\ SameTables(hcTab, upst)
    /\ hcPc' = "idle"
    /\ UNCHANGED <<envVars, ldVars, chan, bgVars, hcLeft, hcTab, tables, hist>>

\* It finds a difference, and clone_dashmap_into starts with upslist.clear.
HcDiffer ==
    /\ hcPc = "probe" /\ hcLeft = {} /\ HcMayRun
    /\ ~SameTables(hcTab, upst)
    /\ hcPc' = "upst" /\ hcLeft' = DOMAIN hcTab
    /\ upst' = Empty /\ blank' = early
    /\ UNCHANGED <<envVars, ldVars, chan, bgVars, hcTab, full, byid, fresh, early>>

HcUpst(h) ==
    /\ hcPc = "upst" /\ h \in hcLeft /\ HcMayRun
    /\ hcLeft' = hcLeft \ {h}
    /\ upst' = Insert(upst, h, hcTab[h])
    /\ UNCHANGED <<envVars, ldVars, chan, bgVars, hcPc, hcTab, full, byid, hist>>

\* Mutant: ump_byid is extended rather than replaced.
HcClearByIdKeep ==
    /\ hcPc = "upst" /\ hcLeft = {} /\ HcMayRun
    /\ hcPc' = "byid" /\ hcLeft' = DOMAIN hcTab
    /\ UNCHANGED <<envVars, ldVars, chan, bgVars, hcTab, full, upst, byid, hist>>

HcClearById ==
    /\ hcPc = "upst" /\ hcLeft = {} /\ HcMayRun
    /\ hcPc' = "byid" /\ hcLeft' = DOMAIN hcTab
    /\ byid' = {}
    /\ UNCHANGED <<envVars, ldVars, chan, bgVars, hcTab, full, upst, hist>>

HcById(h) ==
    /\ hcPc = "byid" /\ h \in hcLeft /\ HcMayRun
    /\ hcLeft' = hcLeft \ {h}
    /\ byid' \in PutIds(byid, h, hcTab[h])
    /\ UNCHANGED <<envVars, ldVars, chan, bgVars, hcPc, hcTab, full, upst, hist>>

HcDone ==
    /\ hcPc = "byid" /\ hcLeft = {} /\ HcMayRun
    /\ hcPc' = "idle"
    /\ UNCHANGED <<envVars, ldVars, chan, bgVars, hcLeft, hcTab, tables, hist>>

-----------------------------------------------------------------------------
(* GET /status?live *)

\* Mutant: a server is looked up among those that are configured.
AliveConfigured(h, s) ==
    h \in DOMAIN full /\ \E t \in full[h] : t.path = s.path /\ t.addr = s.addr

\* upstreams_liveness_json: what is reported of a server s of ump_full[h].
Alive(h, s) ==
    h \in DOMAIN upst /\ \E t \in upst[h] : t.path = s.path /\ t.addr = s.addr

-----------------------------------------------------------------------------
(* A backend starts, stops, or changes the protocol it speaks. *)
Flip(b) ==
    /\ flips < MaxFlips
    /\ \E s \in Status \ {up[b]} : up' = [up EXCEPT ![b] = s]
    /\ flips' = flips + 1
    /\ UNCHANGED <<ldVars, chan, bgVars, hcVars, tables, hist>>

\* LB::start has loaded the file and sent it; the tables are still empty.
Init ==
    /\ up \in [Backends -> Status]
    /\ flips = 0 /\ loads = 0
    /\ ld = [l \in Loaders |-> {}]
    /\ \E c \in Configs :
          /\ chan = <<[cfg |-> c, ups |-> AsConfigured(c)]>>
          /\ cur = [cfg |-> c, ups |-> Empty]
          /\ firstRun = (c = Empty)
    /\ bgPc = "idle" /\ bgLeft = {}
    /\ full = Empty /\ upst = Empty /\ byid = {}
    /\ params = {} /\ hdrs = Empty
    /\ hcPc = "idle" /\ hcLeft = {} /\ hcTab = Empty
    /\ applied = {}
    /\ fresh = FALSE /\ early = FALSE /\ blank = FALSE

Bg == BgRecv \/ (\E h \in Hosts : BgInsert(h)) \/ BgNext \/ BgDone

HcStep(h) == HcCopy(h) \/ HcProbe(h) \/ HcUpst(h) \/ HcById(h)

Hc ==
    \/ HcTick \/ HcCopied \/ HcSame \/ HcDiffer \/ HcClearById \/ HcDone
    \/ \E h \in Hosts : HcStep(h)

Next ==
    \/ \E l \in Loaders : Send(l) \/ \E c \in Configs : Load(l, c)
    \/ Bg
    \/ Hc
    \/ \E b \in Backends : Flip(b)

Spec == Init /\ [][Next]_vars

\* The runtime polls a task that is ready again and again in turn, the health
\* checker's interval keeps ticking, and the channel's semaphore serves the
\* senders that wait for it in turn: what is enabled again and again happens.
Fairness ==
    /\ SF_vars(Bg)
    /\ SF_vars(Hc)
    /\ \A l \in Loaders : SF_vars(Send(l))

FairSpec == Spec /\ Fairness

-----------------------------------------------------------------------------
(* Properties *)

Stages == {"idle", "full", "upst", "byid", "hdrs"}
Rounds == {"idle", "copy", "probe", "upst", "byid"}

\* Types of the variables, and the capacity of the channel.
TypeOK ==
    /\ up \in [Backends -> Status]
    /\ flips \in Nat /\ loads \in Nat
    /\ firstRun \in BOOLEAN
    /\ ld = [l \in Loaders |-> {m \in ld[l] : IsMessage(m)}]
    /\ chan = << >> \/ (chan = <<Head(chan)>> /\ IsMessage(Head(chan)))
    /\ bgPc \in Stages /\ bgLeft \in SUBSET Hosts
    /\ IsMessage(cur)
    /\ IsTable(full, InnerMap) /\ IsTable(upst, InnerMap)
    /\ byid \in SUBSET [host : Hosts, srv : InnerMap]
    /\ params \in SUBSET Configs
    /\ hdrs \in UNION {[D -> Configs] : D \in SUBSET Hosts}
    /\ hcPc \in Rounds /\ hcLeft \in SUBSET Hosts
    /\ IsTable(hcTab, InnerMap)
    /\ applied \in SUBSET Configs
    /\ fresh \in BOOLEAN /\ early \in BOOLEAN /\ blank \in BOOLEAN

\* t holds some hosts of u, each with the servers u has for it.
Within(t, u) == DOMAIN t \subseteq DOMAIN u /\ \A h \in DOMAIN t : t[h] = u[h]

Addrs(S) == {s.addr : s \in S}

\* Neither task is in the middle of a rewrite.
Quiet == ~BgRunning /\ ~HcRunning

\* ump_full never mixes two configurations, however loads and health rounds
\* interleave: while the background task fills it, it holds part of the last
\* message, and from then on exactly that message; when the task is back at
\* its select, parameters and headers come from the same configuration.
FullFromOneConfig ==
    /\ Within(full, cur.ups)
    /\ bgPc # "full" => full = cur.ups
    /\ (bgPc = "idle" /\ applied # {}) =>
          /\ params = {cur.cfg}
          /\ hdrs = [h \in DOMAIN cur.ups |-> cur.cfg]

\* With one worker, whenever both tasks are at an await ump_byid has, for each
\* identifier of a server of ump_upst, one of the servers that have it, and
\* nothing else: the cookie of a server that requests may be sent to is known,
\* though perhaps as another path's, and no other cookie is.
IdMapAgrees == (Workers = 1 /\ Quiet) => OnePerId(byid, Entries(upst))

\* With one worker, whenever both tasks are at an await and a configuration was
\* received, ump_upst has exactly the hosts of one configuration that was
\* received, and for each host only servers that this configuration lists,
\* although a health round that copied an older configuration may write it
\* after a newer one.  The exception: a round that began before the first
\* configuration was received writes the empty table back, and nothing is
\* served until the next round or configuration.
ServesOneConfig ==
    (Workers = 1 /\ Quiet /\ applied # {}) =>
        IF blank THEN upst = Empty
        ELSE \E c \in applied :
              /\ DOMAIN upst = DOMAIN c
              /\ \A h \in DOMAIN c : Addrs(upst[h]) \subseteq Addrs(c[h])

\* With one worker, a health round that began after the last configuration was
\* received carries exactly its hosts, and only its servers: such a round ends
\* the service of anything older.
FreshRound ==
    (Workers = 1 /\ fresh /\ hcPc \in {"probe", "upst", "byid"}) =>
        /\ DOMAIN hcTab = DOMAIN full
        /\ \A h \in DOMAIN full : Addrs(hcTab[h]) \subseteq Addrs(full[h])

\* A configuration that was loaded is handed to the background task.
Delivered == \A l \in Loaders : (ld[l] # {}) ~> (ld[l] = {})

\* Once no more configurations are loaded and the backends keep their state,
\* the table that serves requests becomes the servers of ump_full that answer,
\* with the protocol they speak, and stays so.
Converges == <>[](upst = Build(full))

\* Once the environment is quiet the status API calls a server of ump_full
\* alive exactly if it answers or is not to be checked, although the report is
\* put together from two tables that are rewritten at different times.
StatusTruthful ==
    <>[](\A h \in DOMAIN full : \A s \in full[h] :
            Alive(h, s) <=> (Probed(s) => up[s.addr] # "down"))

\* After a configuration was applied, requests go only to servers it lists
\* (README.md: "Changes to `upstreams.yaml` are applied immediately on save").
NoStaleServe ==
    (Quiet /\ applied # {}) =>
        \A h \in DOMAIN upst :
            h \in DOMAIN cur.cfg /\ Addrs(upst[h]) \subseteq Addrs(cur.cfg[h])

\* In the end requests of a host go to every server that the file lists for it
\* and that answers (README.md: "Requests to `myhost.mydomain.com/` will be
\* proxied to `127.0.0.1` and `127.0.0.2`").
LiveServersServe ==
    <>[](\A h \in DOMAIN cur.cfg : \A s \in cur.cfg[h] :
            up[s.addr] # "down" =>
                h \in DOMAIN upst /\ s.addr \in Addrs(upst[h]))

\* The mapping to TableWriter: whichever task is rewriting ump_upst or ump_byid
\* is the writer, and the table it copies the one being written.
Rewriting == {"upst", "byid"}
WriterOf(bg, hc, none) ==
    IF bgPc \in Rewriting THEN bg ELSE IF hcPc \in Rewriting THEN hc ELSE none

TW == INSTANCE TableWriter WITH
        pc <- WriterOf(bgPc, hcPc, "idle"),
        left <- WriterOf(bgLeft, hcLeft, {}), table <- WriterOf(cur.ups, hcTab, upst)

\* With one worker the background task and the health checker are one writer of
\* ump_upst and ump_byid, the one that Routing assumes: a rewrite goes through
\* both maps before another starts, both are filled from one table although the
\* channel, ump_full and the probes go on in between, and no identifier of one
\* host takes the place of another's.
OneWriter == TW!Spec
=============================================================================
