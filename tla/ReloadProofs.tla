---------------------------- MODULE ReloadProofs ----------------------------
(***************************************************************************)
(* Proofs about Reload, for any hosts, backends, configurations, loaders   *)
(* and bounds; and that with one worker Reload implements TableWriter.     *)
(***************************************************************************)
EXTENDS Reload, TLAPS

-----------------------------------------------------------------------------
(* Tables *)

\* The history variables are named together only in UNCHANGED.
USE DEF hist

\* The tables, and the messages, as sets: the types that the proofs speak of.
TableOf(S) == UNION {[D -> SUBSET S] : D \in SUBSET Hosts}
Table == TableOf(InnerMap)
Message == [cfg : Configs, ups : Table]

\* The configurations, which are read from the file, are tables of servers.
LEMMA ConfigsTables == Configs \subseteq TableOf(Server)
BY ConfigsAssumption DEF IsTable, TableOf

\* A table is a function from a set of hosts to sets of servers.
LEMMA TableIntro ==
    ASSUME NEW S, NEW D \in SUBSET Hosts, NEW t \in [D -> SUBSET S]
    PROVE  t \in TableOf(S)
BY DEF TableOf

\* Conversely, the hosts and the servers of a table.
LEMMA TableElim ==
    ASSUME NEW S, NEW t \in TableOf(S)
    PROVE  /\ DOMAIN t \in SUBSET Hosts
           /\ t \in [DOMAIN t -> SUBSET S]
BY DEF TableOf

\* What clear leaves is a table without hosts.
LEMMA EmptyTable ==
    /\ Empty \in Table
    /\ DOMAIN Empty = {}
<1>1. Empty \in [{} -> SUBSET InnerMap]
  BY DEF Empty
<1> QED
  BY <1>1, TableIntro DEF Table, Empty

\* What DashMap::insert leaves in a table.
LEMMA InsertTable ==
    ASSUME NEW t \in Table, NEW h \in Hosts, NEW v \in SUBSET InnerMap
    PROVE  /\ Insert(t, h, v) \in Table
           /\ DOMAIN Insert(t, h, v) = DOMAIN t \cup {h}
           /\ Insert(t, h, v)[h] = v
           /\ \A x \in DOMAIN t : x # h => Insert(t, h, v)[x] = t[x]
<1>1. DOMAIN t \in SUBSET Hosts /\ t \in [DOMAIN t -> SUBSET InnerMap]
  BY TableElim DEF Table
<1>2. Insert(t, h, v) \in [DOMAIN t \cup {h} -> SUBSET InnerMap]
  BY <1>1 DEF Insert
<1>3. Insert(t, h, v) \in Table
  BY <1>1, <1>2, TableIntro DEF Table
<1> QED
  BY <1>3 DEF Insert

\* Two tables with the same hosts and the same servers for each are equal.
LEMMA TableEqual ==
    ASSUME NEW t \in Table, NEW u \in Table,
           DOMAIN t = DOMAIN u, \A h \in DOMAIN t : t[h] = u[h]
    PROVE  t = u
<1>1. t \in [DOMAIN t -> SUBSET InnerMap] /\ u \in [DOMAIN t -> SUBSET InnerMap]
  BY TableElim DEF Table
<1> QED
  BY <1>1

\* A probe keeps the addresses of some of the servers and adds none.
LEMMA ProbeType ==
    ASSUME NEW S, up \in [Backends -> Status],
           \A s \in S : s.path \in Paths /\ s.addr \in Backends /\ s.hc \in HealthCheck
    PROVE  /\ Probe(S) \in SUBSET InnerMap
           /\ Addrs(Probe(S)) \subseteq Addrs(S)
<1>1. ASSUME NEW e \in Probe(S)
      PROVE  e \in InnerMap /\ \E s \in S : e.addr = s.addr
  <2>1. PICK s \in S : e = [path |-> s.path, addr |-> s.addr, hc |-> s.hc,
                            proto |-> IF Probed(s) THEN up[s.addr] ELSE "plain"]
    BY DEF Probe
  <2>2. PICK p \in Status : p = IF Probed(s) THEN up[s.addr] ELSE "plain"
    BY DEF Status
  <2>3. e = [path |-> s.path, addr |-> s.addr, hc |-> s.hc, proto |-> p]
    BY <2>1, <2>2
  <2>4. e.addr = s.addr /\ e \in InnerMap
    BY <2>3 DEF InnerMap
  <2> QED
    BY <2>4
<1>2. Probe(S) \subseteq InnerMap
  BY <1>1
<1>3. Addrs(Probe(S)) \subseteq Addrs(S)
  BY <1>1 DEF Addrs
<1> QED
  BY <1>2, <1>3

\* What a load makes of a configuration, and a health round of a table.
LEMMA BuildTable ==
    ASSUME NEW c \in TableOf(Server), up \in [Backends -> Status]
    PROVE  /\ Build(c) \in Table
           /\ DOMAIN Build(c) = DOMAIN c
           /\ \A h \in DOMAIN c : Addrs(Build(c)[h]) \subseteq Addrs(c[h])
<1>1. DOMAIN c \in SUBSET Hosts /\ c \in [DOMAIN c -> SUBSET Server]
  BY TableElim
<1>2. \A h \in DOMAIN c : /\ Probe(c[h]) \in SUBSET InnerMap
                          /\ Addrs(Probe(c[h])) \subseteq Addrs(c[h])
  BY <1>1, ProbeType DEF Server
<1>3. Build(c) \in [DOMAIN c -> SUBSET InnerMap]
  BY <1>2 DEF Build
<1> QED
  BY <1>1, <1>2, <1>3, TableIntro DEF Build, Table

\* What the first load makes of a configuration: its hosts and addresses.
LEMMA AsConfiguredTable ==
    ASSUME NEW c \in TableOf(Server)
    PROVE  /\ AsConfigured(c) \in Table
           /\ DOMAIN AsConfigured(c) = DOMAIN c
           /\ \A h \in DOMAIN c : Addrs(AsConfigured(c)[h]) \subseteq Addrs(c[h])
<1>1. DOMAIN c \in SUBSET Hosts /\ c \in [DOMAIN c -> SUBSET Server]
  BY TableElim
<1>2. AsConfigured(c) \in [DOMAIN c -> SUBSET InnerMap]
  <2>1. ASSUME NEW h \in DOMAIN c
        PROVE  {[path |-> s.path, addr |-> s.addr, hc |-> s.hc, proto |-> "plain"] :
                    s \in c[h]} \subseteq InnerMap
    <3>1. ASSUME NEW s \in c[h]
          PROVE  [path |-> s.path, addr |-> s.addr, hc |-> s.hc, proto |-> "plain"]
                    \in InnerMap
      <4>1. s \in Server
        BY <1>1
      <4> QED
        BY <4>1 DEF Server, InnerMap, Status
    <3> QED
      BY <3>1
  <2> QED
    BY <2>1 DEF AsConfigured
<1>3. \A h \in DOMAIN c : Addrs(AsConfigured(c)[h]) \subseteq Addrs(c[h])
  BY DEF AsConfigured, Addrs
<1> QED
  BY <1>1, <1>2, <1>3, TableIntro DEF Table

-----------------------------------------------------------------------------
(* Types *)

Headers == UNION {[D -> Configs] : D \in SUBSET Hosts}

\* TypeOK with sets in the place of IsTable and IsMessage.
Typed ==
    /\ up \in [Backends -> Status]
    /\ flips \in Nat /\ loads \in Nat
    /\ firstRun \in BOOLEAN
    /\ ld \in [Loaders -> SUBSET Message]
    /\ chan \in Seq(Message) /\ Len(chan) <= 1
    /\ bgPc \in Stages /\ bgLeft \in SUBSET Hosts
    /\ cur \in Message
    /\ full \in Table /\ upst \in Table
    /\ byid \in SUBSET [host : Hosts, srv : InnerMap]
    /\ params \in SUBSET Configs
    /\ hdrs \in Headers
    /\ hcPc \in Rounds /\ hcLeft \in SUBSET Hosts
    /\ hcTab \in Table
    /\ applied \in SUBSET Configs
    /\ fresh \in BOOLEAN /\ early \in BOOLEAN /\ blank \in BOOLEAN

\* A member of Message is a message.
LEMMA MessageIs ==
    ASSUME NEW m \in Message
    PROVE  IsMessage(m)
<1>1. m.cfg \in Configs /\ m.ups \in Table /\ m = [cfg |-> m.cfg, ups |-> m.ups]
  BY DEF Message
<1>2. IsTable(m.ups, InnerMap)
  BY <1>1 DEF Table, TableOf, IsTable
<1>3. m \in [cfg : Configs, ups : {m.ups}]
  BY <1>1
<1> QED
  BY <1>2, <1>3 DEF IsMessage

\* A sequence of at most one element.
LEMMA OneOrNone ==
    ASSUME NEW S, NEW s \in Seq(S), Len(s) <= 1
    PROVE  s = << >> \/ (s = <<Head(s)>> /\ Head(s) \in S)
<1>1. Len(s) \in Nat /\ s \in [1..Len(s) -> S]
  OBVIOUS
<1>2. CASE Len(s) = 0
  BY <1>2
<1>3. CASE Len(s) = 1
  <2>1. Head(s) = s[1] /\ s[1] \in S
    BY <1>1, <1>3
  <2>2. 1..1 = {1} /\ DOMAIN s = {1}
    BY <1>1, <1>3
  <2>3. s = <<s[1]>>
    BY <1>1, <1>3, <2>2
  <2> QED
    BY <2>1, <2>3
<1> QED
  BY <1>1, <1>2, <1>3

\* The types with sets imply those that TLC checks.
LEMMA TypedTypeOK == Typed => TypeOK
<1> SUFFICES ASSUME Typed PROVE TypeOK
  OBVIOUS
<1>1. ld = [l \in Loaders |-> {m \in ld[l] : IsMessage(m)}]
  <2>1. ASSUME NEW l \in Loaders PROVE ld[l] = {m \in ld[l] : IsMessage(m)}
    BY MessageIs DEF Typed
  <2> QED
    BY <2>1 DEF Typed
<1>2. chan = << >> \/ (chan = <<Head(chan)>> /\ IsMessage(Head(chan)))
  <2>1. chan = << >> \/ (chan = <<Head(chan)>> /\ Head(chan) \in Message)
    BY OneOrNone DEF Typed
  <2> QED
    BY <2>1, MessageIs
<1>3. IsTable(full, InnerMap) /\ IsTable(upst, InnerMap) /\ IsTable(hcTab, InnerMap)
  BY DEF Typed, Table, TableOf, IsTable
<1>4. IsMessage(cur)
  BY MessageIs DEF Typed
<1> QED
  BY <1>1, <1>2, <1>3, <1>4 DEF Typed, TypeOK, Headers

\* Typed, and: the hosts still to be inserted are hosts of the table that is
\* copied.  The latter makes cur.ups[h] and hcTab[h] sets of servers.
TypeInv ==
    /\ Typed
    /\ bgLeft \subseteq DOMAIN cur.ups
    /\ hcPc \in {"probe", "upst", "byid"} => hcLeft \subseteq DOMAIN hcTab

\* The invariant holds when LB::start has sent the first configuration.
LEMMA TypeInit == Init => TypeInv
<1> SUFFICES ASSUME Init PROVE TypeInv
  OBVIOUS
<1>1. PICK c \in Configs :
          /\ chan = <<[cfg |-> c, ups |-> AsConfigured(c)]>>
          /\ cur = [cfg |-> c, ups |-> Empty]
          /\ firstRun = (c = Empty)
  BY DEF Init
<1>2. AsConfigured(c) \in Table
  BY AsConfiguredTable, ConfigsTables
<1>3. /\ cur \in Message
      /\ chan \in Seq(Message) /\ Len(chan) <= 1
  BY <1>1, <1>2, EmptyTable DEF Message
<1>4. Empty \in Headers
  BY DEF Empty, Headers
<1>5. firstRun \in BOOLEAN
  BY <1>1
<1>6. ld \in [Loaders -> SUBSET Message]
  BY DEF Init
<1> QED
  BY <1>3, <1>4, <1>5, <1>6, EmptyTable
  DEF Init, TypeInv, Typed, Stages, Rounds, Headers

\* load_configuration keeps types.
LEMMA TypeLoad ==
    ASSUME TypeInv, NEW l \in Loaders, NEW c \in Configs, Load(l, c)
    PROVE  TypeInv'
<1>1. AsConfigured(c) \in Table /\ Build(c) \in Table
  BY AsConfiguredTable, BuildTable, ConfigsTables DEF TypeInv, Typed
<1>2. [cfg |-> c, ups |-> IF firstRun THEN AsConfigured(c) ELSE Build(c)]
          \in Message
  BY <1>1 DEF Message
<1>3. ld' \in [Loaders -> SUBSET Message]
  BY <1>2 DEF Load, TypeInv, Typed
<1>4. firstRun' \in BOOLEAN /\ loads' \in Nat
  BY DEF Load, TypeInv, Typed
<1> QED
  BY <1>3, <1>4
  DEF Load, TypeInv, Typed, envVars, bgVars, hcVars, tables

\* Sending waits for room, so the channel keeps its capacity.
LEMMA TypeSend ==
    ASSUME TypeInv, NEW l \in Loaders, Send(l)
    PROVE  TypeInv'
<1>1. PICK m \in ld[l] : chan' = <<m>>
  BY DEF Send
<1>2. m \in Message
  BY DEF TypeInv, Typed
<1>3. chan' \in Seq(Message) /\ Len(chan') <= 1
  BY <1>1, <1>2
<1>4. ld' \in [Loaders -> SUBSET Message]
  BY DEF Send, TypeInv, Typed
<1> QED
  BY <1>3, <1>4
  DEF Send, TypeInv, Typed, envVars, bgVars, hcVars, tables

\* Inserting one more host keeps headers typed.
LEMMA InsertHeaders ==
    ASSUME NEW t \in Headers, NEW h \in Hosts, NEW c \in Configs
    PROVE  Insert(t, h, c) \in Headers
<1>1. DOMAIN t \in SUBSET Hosts /\ t \in [DOMAIN t -> Configs]
  BY DEF Headers
<1>2. Insert(t, h, c) \in [DOMAIN t \cup {h} -> Configs]
  BY <1>1 DEF Insert
<1> QED
  BY <1>1, <1>2 DEF Headers

\* The entries of a host keep ump_byid typed.
LEMMA PutIdsType ==
    ASSUME NEW b \in SUBSET [host : Hosts, srv : InnerMap],
           NEW h \in Hosts, NEW S \in SUBSET InnerMap, NEW c \in PutIds(b, h, S)
    PROVE  c \in SUBSET [host : Hosts, srv : InnerMap]
<1>1. PICK P \in Ids(h, S) : c = {e \in b : \A d \in P : Id(d) # Id(e)} \cup P
  BY DEF PutIds
<1>2. P \subseteq [host : {h}, srv : S]
  BY DEF Ids
<1>3. [host : {h}, srv : S] \subseteq [host : Hosts, srv : InnerMap]
  OBVIOUS
<1> QED
  BY <1>1, <1>2, <1>3

\* The background task takes the message out of the channel.
LEMMA TypeBgRecv ==
    ASSUME TypeInv, BgRecv
    PROVE  TypeInv'
<1>1. Head(chan) \in Message /\ Tail(chan) \in Seq(Message) /\ Len(Tail(chan)) <= 1
  BY DEF BgRecv, TypeInv, Typed
<1>2. /\ Head(chan).ups \in Table
      /\ Head(chan).cfg \in Configs
      /\ DOMAIN Head(chan).ups \in SUBSET Hosts
  BY <1>1, TableElim DEF Message, Table
<1> QED
  BY <1>1, <1>2, EmptyTable
  DEF BgRecv, TypeInv, Typed, Stages, envVars, ldVars, hcVars

\* One host more in the table that is being filled.
LEMMA TypeBgInsert ==
    ASSUME TypeInv, NEW h \in Hosts, BgInsert(h)
    PROVE  TypeInv'
<1>1. /\ cur \in Message /\ cur.cfg \in Configs
      /\ cur.ups[h] \in SUBSET InnerMap
  BY TableElim DEF BgInsert, TypeInv, Typed, Message, Table
<1>a. /\ Insert(full, h, cur.ups[h]) \in Table
      /\ Insert(upst, h, cur.ups[h]) \in Table
  BY <1>1, InsertTable DEF TypeInv, Typed
<1>2. full' \in Table
  BY <1>a DEF BgInsert, BgFull, BgUpst, BgById, BgHdrs, tables, TypeInv, Typed
<1>3. upst' \in Table
  BY <1>a DEF BgInsert, BgFull, BgUpst, BgById, BgHdrs, tables, TypeInv, Typed
<1>4. byid' \in SUBSET [host : Hosts, srv : InnerMap]
  BY <1>1, PutIdsType DEF BgInsert, BgFull, BgUpst, BgById, BgHdrs, tables,
     TypeInv, Typed
<1>5. hdrs' \in Headers
  BY <1>1, InsertHeaders DEF BgInsert, BgFull, BgUpst, BgById, BgHdrs, tables,
     TypeInv, Typed, Headers
<1> QED
  BY <1>2, <1>3, <1>4, <1>5
  DEF BgInsert, TypeInv, Typed, Headers, envVars, ldVars, hcVars

\* The next table is cleared.
LEMMA TypeBgNext ==
    ASSUME TypeInv, BgNext
    PROVE  TypeInv'
<1>1. cur.cfg \in Configs /\ DOMAIN cur.ups \in SUBSET Hosts
  BY TableElim DEF TypeInv, Typed, Message, Table
<1>2. Empty \in Headers
  BY DEF Empty, Headers
<1> QED
  BY <1>1, <1>2, EmptyTable
  DEF BgNext, BgClearUpst, BgClearById, BgParams, TypeInv, Typed, Headers,
      Stages, envVars, ldVars, hcVars, tables

\* The health checker's steps for one host.
LEMMA TypeHcStep ==
    ASSUME TypeInv, NEW h \in Hosts, HcStep(h)
    PROVE  TypeInv'
<1> USE DEF TypeInv, Typed, envVars, ldVars, bgVars, tables
<1>1. CASE HcCopy(h)
  <2>1. h \in DOMAIN full => full[h] \in SUBSET InnerMap
    BY TableElim DEF Table
  <2>2. hcTab' \in Table
    BY <1>1, <2>1, InsertTable DEF HcCopy
  <2> QED
    BY <1>1, <2>2 DEF HcCopy
<1>2. CASE HcProbe(h)
  <2>1. hcTab[h] \in SUBSET InnerMap
    BY <1>2, TableElim DEF HcProbe, Table
  <2>2. Probe(hcTab[h]) \in SUBSET InnerMap
    BY <2>1, ProbeType DEF InnerMap
  <2>3. hcTab' \in Table /\ DOMAIN hcTab' = DOMAIN hcTab \cup {h}
    BY <1>2, <2>2, InsertTable DEF HcProbe
  <2> QED
    BY <1>2, <2>3 DEF HcProbe
<1>3. CASE HcUpst(h)
  <2>1. hcTab[h] \in SUBSET InnerMap
    BY <1>3, TableElim DEF HcUpst, Table
  <2>2. upst' \in Table
    BY <1>3, <2>1, InsertTable DEF HcUpst
  <2> QED
    BY <1>3, <2>2 DEF HcUpst
<1>4. CASE HcById(h)
  <2>1. hcTab[h] \in SUBSET InnerMap
    BY <1>4, TableElim DEF HcById, Table
  <2>2. byid' \in SUBSET [host : Hosts, srv : InnerMap]
    BY <1>4, <2>1, PutIdsType DEF HcById
  <2> QED
    BY <1>4, <2>2 DEF HcById
<1> QED
  BY <1>1, <1>2, <1>3, <1>4 DEF HcStep

\* All of the health checker's steps.
LEMMA TypeHc ==
    ASSUME TypeInv, Hc
    PROVE  TypeInv'
<1>1. DOMAIN hcTab \in SUBSET Hosts
  BY TableElim DEF TypeInv, Typed, Table
<1> USE DEF TypeInv, Typed, Rounds, envVars, ldVars, bgVars, tables
<1>2. CASE HcTick
  BY <1>2, EmptyTable DEF HcTick
<1>3. CASE HcCopied
  BY <1>1, <1>3 DEF HcCopied
<1>4. CASE HcSame
  BY <1>4 DEF HcSame
<1>5. CASE HcDiffer
  BY <1>1, <1>5, EmptyTable DEF HcDiffer
<1>6. CASE HcClearById
  BY <1>1, <1>6 DEF HcClearById
<1>7. CASE HcDone
  BY <1>7 DEF HcDone
<1>8. CASE \E h \in Hosts : HcStep(h)
  BY <1>8, TypeHcStep
<1> QED
  BY <1>2, <1>3, <1>4, <1>5, <1>6, <1>7, <1>8 DEF Hc

\* Every step keeps types.
LEMMA TypeNext == TypeInv /\ [Next]_vars => TypeInv'
<1> SUFFICES ASSUME TypeInv, [Next]_vars PROVE TypeInv'
  OBVIOUS
<1>1. CASE \E l \in Loaders : Send(l) \/ \E c \in Configs : Load(l, c)
  BY <1>1, TypeSend, TypeLoad
<1>2. CASE BgRecv
  BY <1>2, TypeBgRecv
<1>3. CASE \E h \in Hosts : BgInsert(h)
  BY <1>3, TypeBgInsert
<1>4. CASE BgNext
  BY <1>4, TypeBgNext
<1>5. CASE BgDone
  BY <1>5 DEF BgDone, TypeInv, Typed, Stages, envVars, ldVars, hcVars, tables
<1>6. CASE Hc
  BY <1>6, TypeHc
<1>7. CASE \E b \in Backends : Flip(b)
  BY <1>7 DEF Flip, TypeInv, Typed, Status, ldVars, bgVars, hcVars, tables
<1>8. CASE UNCHANGED vars
  BY <1>8 DEF vars, TypeInv, Typed, envVars, ldVars, bgVars, hcVars, tables
<1> QED
  BY <1>1, <1>2, <1>3, <1>4, <1>5, <1>6, <1>7, <1>8 DEF Next, Bg

\* Types hold throughout.
LEMMA TypeInvariant == Spec => []TypeInv
BY TypeInit, TypeNext, PTL DEF Spec

\* Every variable keeps its type, and the channel its capacity, whatever the
\* tasks, the configurations and the number of workers.
THEOREM TypeCorrect == Spec => []TypeOK
<1>1. TypeInv => TypeOK
  BY TypedTypeOK DEF TypeInv
<1> QED
  BY <1>1, TypeInvariant, PTL

-----------------------------------------------------------------------------
(* ump_full holds one configuration *)

\* FullFromOneConfig says nothing about which hosts are missing while a table
\* is filled, nor about the headers before the last loop ends: the inductive
\* form says that exactly the hosts in bgLeft are missing.
FillInv ==
    /\ bgPc = "full" => /\ DOMAIN full = DOMAIN cur.ups \ bgLeft
                        /\ \A h \in DOMAIN full : full[h] = cur.ups[h]
    /\ bgPc # "full" => full = cur.ups
    /\ bgPc = "hdrs" => /\ params = {cur.cfg}
                        /\ hdrs = [h \in DOMAIN cur.ups \ bgLeft |-> cur.cfg]
    /\ (bgPc = "idle" /\ applied # {}) =>
          /\ params = {cur.cfg}
          /\ hdrs = [h \in DOMAIN cur.ups |-> cur.cfg]

\* At start nothing was received and ump_full is empty.
LEMMA FillInit == Init => FillInv
BY DEF Init, FillInv

\* Inserting a host keeps the table being filled part of the message.
LEMMA FillBgInsert ==
    ASSUME TypeInv, FillInv, NEW h \in Hosts, BgInsert(h)
    PROVE  FillInv'
<1>1. /\ h \in DOMAIN cur.ups
      /\ cur.ups[h] \in SUBSET InnerMap
      /\ full \in Table
  BY TableElim DEF BgInsert, TypeInv, Typed, Message, Table
<1>2. CASE BgFull(h)
  <2>1. /\ full' = Insert(full, h, cur.ups[h])
        /\ bgLeft' = bgLeft \ {h} /\ h \in bgLeft
        /\ bgPc' = "full" /\ cur' = cur
    BY <1>2 DEF BgInsert, BgFull
  <2>2. /\ DOMAIN full' = DOMAIN full \cup {h}
        /\ full'[h] = cur.ups[h]
        /\ \A x \in DOMAIN full : x # h => full'[x] = full[x]
    BY <1>1, <2>1, InsertTable, ZenonT(60)
  <2> QED
    BY <1>1, <1>2, <2>1, <2>2 DEF FillInv, BgFull
<1>3. CASE BgUpst(h) \/ BgById(h)
  BY <1>3 DEF BgInsert, BgUpst, BgById, FillInv
<1>4. CASE BgHdrs(h)
  <2>1. /\ hdrs' = Insert(hdrs, h, cur.cfg)
        /\ bgLeft' = bgLeft \ {h} /\ h \in bgLeft
        /\ bgPc' = "hdrs" /\ cur' = cur /\ full' = full /\ params' = params
    BY <1>4 DEF BgInsert, BgHdrs, tables
  <2>2. hdrs = [x \in DOMAIN cur.ups \ bgLeft |-> cur.cfg]
    BY <1>4 DEF FillInv, BgHdrs
  <2>3. Insert(hdrs, h, cur.cfg)
          = [x \in DOMAIN cur.ups \ (bgLeft \ {h}) |-> cur.cfg]
    BY <1>1, <2>1, <2>2 DEF Insert
  <2> QED
    BY <1>4, <2>1, <2>3 DEF FillInv, BgHdrs
<1> QED
  BY <1>2, <1>3, <1>4 DEF BgInsert

\* A loop that ends has inserted every host.
LEMMA FillBgNext ==
    ASSUME TypeInv, FillInv, BgNext
    PROVE  FillInv'
<1>1. CASE BgClearUpst
  <2>1. full \in Table /\ cur.ups \in Table
    BY DEF TypeInv, Typed, Message
  <2>2. full = cur.ups
    BY <1>1, <2>1, TableEqual DEF BgNext, BgClearUpst, FillInv
  <2> QED
    BY <1>1, <2>2 DEF BgNext, BgClearUpst, FillInv
<1>2. CASE BgClearById
  BY <1>2 DEF BgNext, BgClearById, FillInv
<1>3. CASE BgParams
  <2>1. Empty = [h \in {} |-> cur.cfg]
    BY DEF Empty
  <2> QED
    BY <1>3, <2>1 DEF BgNext, BgParams, FillInv, tables
<1> QED
  BY <1>1, <1>2, <1>3 DEF BgNext

\* Every step keeps FillInv: only the background task writes what it speaks of.
LEMMA FillNext == TypeInv /\ FillInv /\ [Next]_vars => FillInv'
<1> SUFFICES ASSUME TypeInv, FillInv, [Next]_vars PROVE FillInv'
  OBVIOUS
<1>1. CASE \E l \in Loaders : Send(l) \/ \E c \in Configs : Load(l, c)
  BY <1>1 DEF Send, Load, FillInv, bgVars, tables
<1>2. CASE BgRecv
  BY <1>2, EmptyTable DEF BgRecv, FillInv
<1>3. CASE \E h \in Hosts : BgInsert(h)
  BY <1>3, FillBgInsert
<1>4. CASE BgNext
  BY <1>4, FillBgNext
<1>5. CASE BgDone
  BY <1>5 DEF BgDone, FillInv, tables
<1>6. CASE Hc
  BY <1>6 DEF Hc, HcStep, HcTick, HcCopy, HcCopied, HcProbe, HcSame, HcDiffer,
     HcUpst, HcClearById, HcById, HcDone, FillInv, bgVars, tables
<1>7. CASE \E b \in Backends : Flip(b)
  BY <1>7 DEF Flip, FillInv, bgVars, tables
<1>8. CASE UNCHANGED vars
  BY <1>8 DEF vars, FillInv, bgVars, tables
<1> QED
  BY <1>1, <1>2, <1>3, <1>4, <1>5, <1>6, <1>7, <1>8 DEF Next, Bg

\* FillInv holds throughout, with types.
LEMMA FillInvariant == Spec => [](TypeInv /\ FillInv)
<1>1. Init => TypeInv /\ FillInv
  BY TypeInit, FillInit
<1>2. TypeInv /\ FillInv /\ [Next]_vars => (TypeInv /\ FillInv)'
  BY TypeNext, FillNext
<1> QED
  BY <1>1, <1>2, PTL DEF Spec

\* With any number of workers ump_full is part of, and then exactly, the last
\* configuration received, and headers and parameters follow it.
THEOREM FullIsOneConfig == Spec => []FullFromOneConfig
<1>1. TypeInv /\ FillInv => FullFromOneConfig
  BY DEF TypeInv, Typed, FillInv, FullFromOneConfig, Within
<1> QED
  BY <1>1, FillInvariant, PTL

-----------------------------------------------------------------------------
(* One worker: the two rewrites exclude each other *)

OneWorker == Workers = 1

\* Only servers of u, for exactly its hosts.
Narrows(t, u) ==
    /\ DOMAIN t = DOMAIN u
    /\ \A h \in DOMAIN u : Addrs(t[h]) \subseteq Addrs(u[h])

\* The tasks are never both between two awaits, so ump_full stands still while
\* it is copied; and a round that is fresh narrows ump_full.
RoundInv ==
    OneWorker =>
        /\ ~(BgRunning /\ HcRunning)
        /\ BgRunning => ~fresh
        /\ hcPc = "copy" => /\ DOMAIN hcTab = DOMAIN full \ hcLeft
                            /\ \A h \in DOMAIN hcTab : hcTab[h] = full[h]
        /\ (fresh /\ hcPc \in {"probe", "upst", "byid"}) => Narrows(hcTab, full)

\* At start no round is under way.
LEMMA RoundInit == Init => RoundInv
BY DEF Init, RoundInv, BgRunning, HcRunning

\* A step of the background task leaves a round alone; receiving ends freshness.
LEMMA RoundBg ==
    ASSUME TypeInv, RoundInv, Bg
    PROVE  RoundInv'
<1> SUFFICES ASSUME OneWorker PROVE RoundInv'
  BY DEF RoundInv, OneWorker
<1>1. ~HcRunning /\ UNCHANGED hcVars
  BY DEF Bg, BgRecv, BgInsert, BgNext, BgDone, BgMayRun, OneWorker
<1>2. ~fresh'
  BY DEF Bg, BgRecv, BgInsert, BgFull, BgUpst, BgById, BgHdrs, BgNext,
     BgClearUpst, BgClearById, BgParams, BgDone, RoundInv, BgRunning
<1> QED
  BY <1>1, <1>2 DEF RoundInv, HcRunning, BgRunning, hcVars

\* Copying or probing one host of a round.
LEMMA RoundHcStep ==
    ASSUME TypeInv, RoundInv, NEW h \in Hosts, HcStep(h)
    PROVE  RoundInv'
<1> SUFFICES ASSUME OneWorker PROVE RoundInv'
  BY DEF RoundInv, OneWorker
<1>1. /\ ~BgRunning /\ ~BgRunning' /\ full' = full /\ fresh' = fresh
      /\ hcPc' = hcPc
  BY DEF HcStep, HcCopy, HcProbe, HcUpst, HcById, HcMayRun, OneWorker,
     BgRunning, bgVars, tables
<1>2. hcTab \in Table /\ full \in Table
  BY DEF TypeInv, Typed
<1>3. CASE HcCopy(h)
  <2>1. CASE h \in DOMAIN full
    <3>1. full[h] \in SUBSET InnerMap
      BY <1>2, <2>1, TableElim DEF Table
    <3>2. hcTab' = Insert(hcTab, h, full[h])
      BY <1>3, <2>1 DEF HcCopy
    <3>3. /\ DOMAIN hcTab' = DOMAIN hcTab \cup {h}
          /\ hcTab'[h] = full[h]
          /\ \A x \in DOMAIN hcTab : x # h => hcTab'[x] = hcTab[x]
      BY <1>2, <3>1, <3>2, InsertTable, ZenonT(60)
    <3> QED
      BY <1>1, <1>3, <2>1, <3>3 DEF RoundInv, HcCopy
  <2>2. CASE h \notin DOMAIN full
    BY <1>1, <1>3, <2>2 DEF RoundInv, HcCopy
  <2> QED
    BY <2>1, <2>2
<1>4. CASE HcProbe(h)
  <2>1. h \in DOMAIN hcTab /\ hcTab[h] \in SUBSET InnerMap
    BY <1>2, <1>4, TableElim DEF HcProbe, Table, TypeInv
  <2>2. /\ Probe(hcTab[h]) \in SUBSET InnerMap
        /\ Addrs(Probe(hcTab[h])) \subseteq Addrs(hcTab[h])
    BY <2>1, ProbeType DEF InnerMap, TypeInv, Typed
  <2>a. hcTab' = Insert(hcTab, h, Probe(hcTab[h]))
    BY <1>4 DEF HcProbe
  <2>b. /\ DOMAIN hcTab' = DOMAIN hcTab \cup {h}
        /\ hcTab'[h] = Probe(hcTab[h])
        /\ \A x \in DOMAIN hcTab : x # h => hcTab'[x] = hcTab[x]
    BY <1>2, <2>a, <2>2, InsertTable, ZenonT(60)
  <2>3. /\ DOMAIN hcTab' = DOMAIN hcTab
        /\ hcTab'[h] = Probe(hcTab[h])
        /\ \A x \in DOMAIN hcTab : x # h => hcTab'[x] = hcTab[x]
    BY <2>1, <2>b
  <2>4. Narrows(hcTab, full) => Narrows(hcTab, full)'
    BY <1>1, <2>2, <2>3 DEF Narrows
  <2> QED
    BY <1>1, <1>4, <2>4 DEF RoundInv, HcProbe
<1>5. CASE HcUpst(h) \/ HcById(h)
  BY <1>1, <1>5 DEF HcUpst, HcById, RoundInv, Narrows
<1> QED
  BY <1>3, <1>4, <1>5 DEF HcStep

\* All of the health checker's steps.
LEMMA RoundHc ==
    ASSUME TypeInv, RoundInv, Hc
    PROVE  RoundInv'
<1> SUFFICES ASSUME OneWorker PROVE RoundInv'
  BY DEF RoundInv, OneWorker
<1>1. CASE HcTick
  BY <1>1, EmptyTable DEF HcTick, HcMayRun, OneWorker, RoundInv, BgRunning,
     HcRunning, bgVars, tables, TypeInv, Typed, Table, TableOf
<1>2. CASE HcCopied
  BY <1>2 DEF HcCopied, HcMayRun, OneWorker, RoundInv, BgRunning, HcRunning,
     bgVars, tables, Narrows
<1>3. CASE HcSame \/ HcDone
  BY <1>3 DEF HcSame, HcDone, RoundInv, BgRunning, HcRunning, bgVars, tables
<1>4. CASE HcDiffer \/ HcClearById
  BY <1>4 DEF HcDiffer, HcClearById, HcMayRun, OneWorker, RoundInv, BgRunning,
     HcRunning, bgVars, Narrows
<1>5. CASE \E h \in Hosts : HcStep(h)
  BY <1>5, RoundHcStep
<1> QED
  BY <1>1, <1>2, <1>3, <1>4, <1>5 DEF Hc

\* Every step keeps RoundInv.
LEMMA RoundNext == TypeInv /\ RoundInv /\ [Next]_vars => RoundInv'
<1> SUFFICES ASSUME TypeInv, RoundInv, [Next]_vars PROVE RoundInv'
  OBVIOUS
<1>1. CASE \E l \in Loaders : Send(l) \/ \E c \in Configs : Load(l, c)
  BY <1>1 DEF Send, Load, RoundInv, BgRunning, HcRunning, Narrows, bgVars,
     hcVars, tables
<1>2. CASE Bg
  BY <1>2, RoundBg
<1>3. CASE Hc
  BY <1>3, RoundHc
<1>4. CASE \E b \in Backends : Flip(b)
  BY <1>4 DEF Flip, RoundInv, BgRunning, HcRunning, Narrows, bgVars, hcVars,
     tables
<1>5. CASE UNCHANGED vars
  BY <1>5 DEF vars, RoundInv, BgRunning, HcRunning, Narrows, bgVars, hcVars,
     tables
<1> QED
  BY <1>1, <1>2, <1>3, <1>4, <1>5 DEF Next

\* A health round begun after the last configuration carries that one only.
THEOREM FreshRoundHolds == Spec => []FreshRound
<1>1. Init => TypeInv /\ RoundInv
  BY TypeInit, RoundInit
<1>2. TypeInv /\ RoundInv /\ [Next]_vars => (TypeInv /\ RoundInv)'
  BY TypeNext, RoundNext
<1>3. RoundInv => FreshRound
  BY DEF RoundInv, FreshRound, OneWorker, Narrows
<1> QED
  BY <1>1, <1>2, <1>3, PTL DEF Spec

-----------------------------------------------------------------------------
(* One worker: ump_byid follows ump_upst *)

\* The entries of t for hosts that are not in L.
EntriesBut(t, L) == {e \in Entries(t) : e.host \notin L}

\* What an identifier tells of an entry.
LEMMA IdHost ==
    ASSUME NEW d, NEW e, Id(d) = Id(e)
    PROVE  d.host = e.host
BY DEF Id

\* The entries of t for its hosts that are left, one host at a time.
LEMMA EntriesNext ==
    ASSUME NEW t \in Table, NEW L \in SUBSET DOMAIN t, NEW h \in L
    PROVE  EntriesBut(t, L \ {h}) = EntriesBut(t, L) \cup [host : {h}, srv : t[h]]
<1>1. t[h] \in SUBSET InnerMap /\ h \in DOMAIN t
  BY TableElim DEF Table
<1>2. ASSUME NEW e
      PROVE  e \in EntriesBut(t, L \ {h})
               <=> e \in EntriesBut(t, L) \/ e \in [host : {h}, srv : t[h]]
  <2>1. e \in [host : {h}, srv : t[h]]
          <=> e \in Entries(t) /\ e.host = h
    BY <1>1 DEF Entries
  <2> QED
    BY <2>1 DEF EntriesBut
<1> QED
  BY <1>2

\* c is b with entries of the servers S of host h added.
Adds(b, c, h, S) == \E P \in Ids(h, S) : c = b \cup P

\* Inserting the entries of the next host of a table: they take the place of
\* none, and leave one entry for each identifier.
LEMMA PutIdsEntries ==
    ASSUME NEW t \in Table, NEW L \in SUBSET DOMAIN t, NEW h \in L,
           NEW b, OnePerId(b, EntriesBut(t, L)), NEW c \in PutIds(b, h, t[h])
    PROVE  /\ OnePerId(c, EntriesBut(t, L \ {h}))
           /\ Adds(b, c, h, t[h])
<1> DEFINE E == EntriesBut(t, L)
           F == [host : {h}, srv : t[h]]
<1>1. PICK P \in Ids(h, t[h]) : c = {e \in b : \A d \in P : Id(d) # Id(e)} \cup P
  BY DEF PutIds
<1>2. OnePerId(P, F) /\ OnePerId(b, E)
  BY DEF Ids
<1>3. /\ \A e \in E : e.host # h
      /\ \A e \in F : e.host = h
  BY DEF EntriesBut
<1>4. EntriesBut(t, L \ {h}) = E \cup F
  BY EntriesNext
<1> HIDE DEF E, F
<1>5. \A d \in P : \A e \in b : Id(d) # Id(e)
  BY <1>2, <1>3, IdHost DEF OnePerId
<1>6. c = b \cup P
  BY <1>1, <1>5
<1>7. \A d, e \in b \cup P : Id(d) = Id(e) => d = e
  BY <1>2, <1>5 DEF OnePerId
<1>8. OnePerId(b \cup P, E \cup F)
  BY <1>2, <1>7 DEF OnePerId
<1> QED
  BY <1>1, <1>4, <1>6, <1>8 DEF Adds

\* Filled with the hosts of u that are not in L.
FilledBut(t, u, L) ==
    /\ DOMAIN t = DOMAIN u \ L
    /\ \A h \in DOMAIN t : t[h] = u[h]

\* Both rewrites fill ump_upst and then ump_byid from one table, so that the
\* two agree when the writer is done.
IdInv ==
    OneWorker =>
        /\ bgPc = "upst" => FilledBut(upst, cur.ups, bgLeft)
        /\ bgPc \in {"byid", "hdrs"} => upst = cur.ups
        /\ bgPc = "byid" => OnePerId(byid, EntriesBut(cur.ups, bgLeft))
        /\ bgPc = "hdrs" => OnePerId(byid, Entries(cur.ups))
        /\ hcPc = "upst" => FilledBut(upst, hcTab, hcLeft)
        /\ hcPc = "byid" => upst = hcTab /\ OnePerId(byid, EntriesBut(hcTab, hcLeft))
        /\ (bgPc = "idle" /\ hcPc \notin {"upst", "byid"}) =>
              OnePerId(byid, Entries(upst))

\* No host left, or every host left.
LEMMA EntriesButNone ==
    ASSUME NEW t
    PROVE  /\ EntriesBut(t, {}) = Entries(t)
           /\ EntriesBut(t, DOMAIN t) = {}
           /\ OnePerId({}, EntriesBut(t, DOMAIN t))
BY DEF EntriesBut, Entries, OnePerId

\* Inserting one of the hosts left leaves one host less.
LEMMA InsertFilled ==
    ASSUME NEW t \in Table, NEW u \in Table, NEW L \in SUBSET DOMAIN u,
           NEW h \in L, FilledBut(t, u, L)
    PROVE  FilledBut(Insert(t, h, u[h]), u, L \ {h})
<1>1. h \in Hosts /\ u[h] \in SUBSET InnerMap
  BY TableElim DEF Table
<1>2. /\ DOMAIN Insert(t, h, u[h]) = DOMAIN t \cup {h}
      /\ Insert(t, h, u[h])[h] = u[h]
      /\ \A x \in DOMAIN t : x # h => Insert(t, h, u[h])[x] = t[x]
  BY <1>1, InsertTable, ZenonT(60)
<1> QED
  BY <1>2 DEF FilledBut

\* A table with no host left to insert is the table copied.
LEMMA FilledAll ==
    ASSUME NEW t \in Table, NEW u \in Table, FilledBut(t, u, {})
    PROVE  t = u
BY TableEqual DEF FilledBut

\* At start both ump_upst and ump_byid are empty.
LEMMA IdInit == Init => IdInv
<1>1. Entries(Empty) = {}
  BY DEF Entries, Empty
<1> QED
  BY <1>1 DEF Init, IdInv, OnePerId

\* The background task inserts one host into one of the tables.
LEMMA IdBgInsert ==
    ASSUME TypeInv, RoundInv, IdInv, NEW h \in Hosts, BgInsert(h)
    PROVE  IdInv'
<1> SUFFICES ASSUME OneWorker PROVE IdInv'
  BY DEF IdInv, OneWorker
<1>1. /\ h \in bgLeft /\ bgLeft' = bgLeft \ {h} /\ bgLeft \in SUBSET DOMAIN cur.ups
      /\ bgPc' = bgPc /\ cur' = cur /\ hcPc' = hcPc /\ hcPc \notin {"upst", "byid"}
      /\ upst \in Table /\ cur.ups \in Table
  BY DEF BgInsert, BgMayRun, OneWorker, HcRunning, hcVars, TypeInv, Typed, Message
<1>2. CASE BgFull(h)
  BY <1>1, <1>2 DEF BgFull, IdInv
<1>3. CASE BgUpst(h)
  <2>1. FilledBut(upst, cur.ups, bgLeft)' 
    BY <1>1, <1>3, InsertFilled DEF BgUpst, IdInv
  <2> QED
    BY <1>1, <1>3, <2>1 DEF BgUpst, IdInv
<1>4. CASE BgById(h)
  <2>1. OnePerId(byid', EntriesBut(cur'.ups, bgLeft'))
    BY <1>1, <1>4, PutIdsEntries DEF BgById, IdInv
  <2> QED
    BY <1>1, <1>4, <2>1 DEF BgById, IdInv
<1>5. CASE BgHdrs(h)
  BY <1>1, <1>5 DEF BgHdrs, IdInv, tables
<1> QED
  BY <1>2, <1>3, <1>4, <1>5 DEF BgInsert

\* All of the background task's steps.
LEMMA IdBg ==
    ASSUME TypeInv, RoundInv, IdInv, Bg
    PROVE  IdInv'
<1> SUFFICES ASSUME OneWorker PROVE IdInv'
  BY DEF IdInv, OneWorker
<1>1. /\ hcPc \notin {"upst", "byid"} /\ hcPc' = hcPc
      /\ upst \in Table /\ cur.ups \in Table
  BY DEF Bg, BgRecv, BgInsert, BgNext, BgDone, BgMayRun, OneWorker, HcRunning,
     hcVars, TypeInv, Typed, Message
<1>2. CASE BgRecv
  BY <1>1, <1>2 DEF BgRecv, IdInv
<1>3. CASE \E h \in Hosts : BgInsert(h)
  BY <1>3, IdBgInsert
<1>4. CASE BgNext /\ BgClearUpst
  BY <1>1, <1>4, EmptyTable
  DEF BgNext, BgClearUpst, IdInv, FilledBut
<1>5. CASE BgNext /\ BgClearById
  <2>1. upst = cur.ups
    BY <1>1, <1>5, FilledAll DEF BgNext, BgClearById, IdInv
  <2> QED
    BY <1>1, <1>5, <2>1, EntriesButNone
    DEF BgNext, BgClearById, IdInv
<1>6. CASE BgNext /\ BgParams
  BY <1>1, <1>6, EntriesButNone
  DEF BgNext, BgParams, IdInv, tables
<1>7. CASE BgDone
  BY <1>1, <1>7 DEF BgDone, IdInv, tables
<1> QED
  BY <1>2, <1>3, <1>4, <1>5, <1>6, <1>7 DEF Bg, BgNext

\* All of the health checker's steps.
LEMMA IdHc ==
    ASSUME TypeInv, RoundInv, IdInv, Hc
    PROVE  IdInv'
<1> SUFFICES ASSUME OneWorker PROVE IdInv'
  BY DEF IdInv, OneWorker
<1>1. /\ ~BgRunning /\ bgPc' = bgPc /\ bgPc = "idle"
      /\ upst \in Table /\ hcTab \in Table
  BY DEF Hc, HcStep, HcTick, HcCopy, HcCopied, HcProbe, HcSame, HcDiffer,
     HcUpst, HcClearById, HcById, HcDone, HcMayRun, OneWorker, BgRunning,
     bgVars, TypeInv, Typed
<1> USE DEF IdInv, tables
<1>2. CASE HcTick \/ HcCopied \/ HcSame
  BY <1>1, <1>2 DEF HcTick, HcCopied, HcSame
<1>3. CASE HcDiffer
  BY <1>1, <1>3, EmptyTable DEF HcDiffer, FilledBut
<1>4. CASE HcClearById
  <2>1. upst = hcTab
    BY <1>1, <1>4, FilledAll DEF HcClearById
  <2> QED
    BY <1>1, <1>4, <2>1, EntriesButNone DEF HcClearById
<1>5. CASE HcDone
  BY <1>1, <1>5, EntriesButNone DEF HcDone
<1>6. CASE \E h \in Hosts : HcStep(h)
  <2>1. PICK h \in Hosts : HcStep(h)
    BY <1>6
  <2>2. CASE HcCopy(h) \/ HcProbe(h)
    BY <1>1, <2>2 DEF HcCopy, HcProbe
  <2>3. CASE HcUpst(h)
    <3>1. FilledBut(upst, hcTab, hcLeft)'
      BY <1>1, <2>3, InsertFilled DEF HcUpst, TypeInv
    <3> QED
      BY <1>1, <2>3, <3>1 DEF HcUpst
  <2>4. CASE HcById(h)
    <3>1. OnePerId(byid', EntriesBut(hcTab', hcLeft'))
      BY <1>1, <2>4, PutIdsEntries DEF HcById, TypeInv
    <3> QED
      BY <1>1, <2>4, <3>1 DEF HcById
  <2> QED
    BY <2>1, <2>2, <2>3, <2>4 DEF HcStep
<1> QED
  BY <1>2, <1>3, <1>4, <1>5, <1>6 DEF Hc

\* Every step keeps IdInv.
LEMMA IdNext == TypeInv /\ RoundInv /\ IdInv /\ [Next]_vars => IdInv'
<1> SUFFICES ASSUME TypeInv, RoundInv, IdInv, [Next]_vars PROVE IdInv'
  OBVIOUS
<1>1. CASE \E l \in Loaders : Send(l) \/ \E c \in Configs : Load(l, c)
  BY <1>1 DEF Send, Load, IdInv, FilledBut,
     bgVars, hcVars, tables
<1>2. CASE Bg
  BY <1>2, IdBg
<1>3. CASE Hc
  BY <1>3, IdHc
<1>4. CASE \E b \in Backends : Flip(b)
  BY <1>4 DEF Flip, IdInv, FilledBut, bgVars,
     hcVars, tables
<1>5. CASE UNCHANGED vars
  BY <1>5 DEF vars, IdInv, FilledBut, bgVars,
     hcVars, tables
<1> QED
  BY <1>1, <1>2, <1>3, <1>4, <1>5 DEF Next

\* With one worker, once the task that rewrote them is at an await, the
\* sticky-session map has an entry of ump_upst for every identifier of a server
\* there, one for those that share it, and no other entry.
THEOREM IdMapFollows == Spec => []IdMapAgrees
<1>1. Init => TypeInv /\ RoundInv /\ IdInv
  BY TypeInit, RoundInit, IdInit
<1>2. TypeInv /\ RoundInv /\ IdInv /\ [Next]_vars => (TypeInv /\ RoundInv /\ IdInv)'
  BY TypeNext, RoundNext, IdNext
<1>3. IdInv => IdMapAgrees
  BY DEF IdInv, IdMapAgrees, OneWorker, Quiet, BgRunning, HcRunning
<1> QED
  BY <1>1, <1>2, <1>3, PTL DEF Spec

-----------------------------------------------------------------------------
(* One worker: ump_upst comes from one configuration that was received *)

\* t comes from a member of A, unless none, when it is empty.
From(t, none, A) == IF none THEN t = Empty ELSE \E c \in A : Narrows(t, c)

\* Every message narrows the configuration it was made from; the table of a
\* health round that is past its copy, and ump_upst when no task is rewriting
\* it, each come from a configuration that was received, unless the round began
\* before there was one.
ServeInv ==
    /\ \A l \in Loaders : \A m \in ld[l] : Narrows(m.ups, m.cfg)
    /\ chan # << >> => Narrows(Head(chan).ups, Head(chan).cfg)
    /\ From(cur.ups, applied = {}, applied)
    /\ OneWorker =>
          /\ hcPc = "copy" => early = (applied = {})
          /\ hcPc \in {"probe", "upst", "byid"} => From(hcTab, early, applied)
          /\ hcPc = "upst" => blank = early
          /\ bgPc \in {"upst", "byid", "hdrs"} => ~blank
          /\ bgPc # "idle" => applied # {}
          /\ (bgPc = "idle" /\ hcPc # "upst" /\ applied # {}) =>
                From(upst, blank, applied)

\* A configuration received later does not take anything away.
LEMMA FromMore ==
    ASSUME NEW t, NEW none, NEW A, NEW B, A \subseteq B, From(t, none, A)
    PROVE  From(t, none, B)
BY DEF From

\* A load keeps the hosts of its configuration and adds no server.
LEMMA LoadNarrows ==
    ASSUME NEW c \in Configs, up \in [Backends -> Status]
    PROVE  Narrows(AsConfigured(c), c) /\ Narrows(Build(c), c)
BY ConfigsTables, AsConfiguredTable, BuildTable DEF Narrows

\* A probe keeps a table within the configuration it comes from.
LEMMA FromProbe ==
    ASSUME NEW t \in Table, NEW h \in DOMAIN t, NEW none, NEW A,
           From(t, none, A), up \in [Backends -> Status]
    PROVE  From(Insert(t, h, Probe(t[h])), none, A)
<1>1. h \in Hosts /\ t[h] \in SUBSET InnerMap
  BY TableElim DEF Table
<1>2. /\ Probe(t[h]) \in SUBSET InnerMap
      /\ Addrs(Probe(t[h])) \subseteq Addrs(t[h])
  BY <1>1, ProbeType DEF InnerMap
<1>3. t # Empty
  BY EmptyTable
<1>a. ~none
  BY <1>3 DEF From
<1>4. PICK c \in A : Narrows(t, c)
  BY <1>a DEF From
<1> DEFINE u == Insert(t, h, Probe(t[h]))
<1>5. /\ DOMAIN u = DOMAIN t \cup {h}
      /\ u[h] = Probe(t[h])
      /\ \A x \in DOMAIN t : x # h => u[x] = t[x]
  BY <1>1, <1>2, InsertTable, ZenonT(60)
<1> HIDE DEF u
<1>6. Narrows(u, c)
  BY <1>2, <1>4, <1>5 DEF Narrows
<1> QED
  BY <1>6, <1>a DEF From, u

\* At start the first configuration is in the channel and nothing is served.
LEMMA ServeInit == Init => ServeInv
<1> SUFFICES ASSUME Init PROVE ServeInv
  OBVIOUS
<1>1. PICK c \in Configs :
          /\ chan = <<[cfg |-> c, ups |-> AsConfigured(c)]>>
          /\ cur = [cfg |-> c, ups |-> Empty]
  BY DEF Init
<1>2. Narrows(Head(chan).ups, Head(chan).cfg)
  BY <1>1, LoadNarrows DEF Init
<1> QED
  BY <1>1, <1>2 DEF Init, ServeInv, From

\* A loaded message stays within its configuration.
LEMMA ServeLoad ==
    ASSUME TypeInv, ServeInv, NEW l \in Loaders, NEW c \in Configs, Load(l, c)
    PROVE  ServeInv'
<1> DEFINE m == [cfg |-> c,
                 ups |-> IF firstRun THEN AsConfigured(c) ELSE Build(c)]
<1>1. Narrows(m.ups, m.cfg)
  BY LoadNarrows DEF TypeInv, Typed
<1>2. \A k \in Loaders : ld'[k] = IF k = l THEN {m} ELSE ld[k]
  BY DEF Load, TypeInv, Typed
<1> HIDE DEF m
<1>3. \A k \in Loaders : \A n \in ld'[k] : Narrows(n.ups, n.cfg)
  BY <1>1, <1>2 DEF ServeInv
<1> QED
  BY <1>3 DEF Load, ServeInv, bgVars, hcVars, tables

\* Sending moves a message that does.
LEMMA ServeSend ==
    ASSUME TypeInv, ServeInv, NEW l \in Loaders, Send(l)
    PROVE  ServeInv'
<1>1. PICK m \in ld[l] : chan' = <<m>>
  BY DEF Send
<1>2. Narrows(Head(chan').ups, Head(chan').cfg)
  BY <1>1 DEF ServeInv
<1>3. \A k \in Loaders : ld'[k] \subseteq ld[k]
  BY DEF Send, TypeInv, Typed
<1> QED
  BY <1>2, <1>3 DEF Send, ServeInv, bgVars, hcVars, tables

\* What the background task serves is the message it received.
LEMMA ServeBg ==
    ASSUME TypeInv, FillInv, RoundInv, IdInv, ServeInv, Bg
    PROVE  ServeInv'
<1>1. CASE BgRecv
  <2>1. /\ applied \subseteq applied' /\ cur'.cfg \in applied'
        /\ Narrows(cur'.ups, cur'.cfg)
    BY <1>1 DEF BgRecv, ServeInv
  <2>2. From(cur'.ups, applied' = {}, applied')
    BY <2>1 DEF From
  <2>3. From(hcTab, early, applied) => From(hcTab, early, applied')
    BY <2>1, FromMore
  <2>4. bgPc' = "full" /\ applied' # {}
    BY <1>1 DEF BgRecv
  <2>a. chan' = << >>
    BY <1>1 DEF BgRecv, TypeInv, Typed
  <2>5. UNCHANGED <<ldVars, hcVars, early, blank>> /\ (OneWorker => ~HcRunning)
    BY <1>1 DEF BgRecv, BgMayRun, OneWorker
  <2> QED
    BY <2>2, <2>3, <2>4, <2>5, <2>a DEF ServeInv, ldVars, hcVars, HcRunning
<1>2. CASE BgDone
  <2>1. OneWorker => upst = cur.ups
    BY <1>2 DEF BgDone, IdInv
  <2>2. OneWorker => From(upst, blank, applied)
    BY <1>2, <2>1 DEF BgDone, ServeInv, From
  <2> QED
    BY <1>2, <2>2 DEF BgDone, ServeInv, ldVars, hcVars, tables
<1>3. CASE BgNext \/ \E h \in Hosts : BgInsert(h)
  <2>1. bgPc # "idle" /\ bgPc' # "idle"
    BY <1>3 DEF BgNext, BgClearUpst, BgClearById, BgParams, BgInsert, BgFull,
       BgUpst, BgById, BgHdrs
  <2>2. UNCHANGED <<ldVars, chan, cur, applied, hcVars, early>>
    BY <1>3 DEF BgNext, BgInsert
  <2>3. (OneWorker /\ bgPc' \in {"upst", "byid", "hdrs"}) => ~blank'
    BY <1>3 DEF BgNext, BgClearUpst, BgClearById, BgParams, BgInsert, BgFull,
       BgUpst, BgById, BgHdrs, ServeInv
  <2>4. OneWorker => hcPc # "upst"
    BY <1>3 DEF BgNext, BgInsert, BgMayRun, HcRunning, OneWorker
  <2> QED
    BY <2>1, <2>2, <2>3, <2>4 DEF ServeInv, ldVars, hcVars
<1> QED
  BY <1>1, <1>2, <1>3 DEF Bg

\* What the health checker serves comes from a configuration received earlier.
LEMMA ServeHc ==
    ASSUME TypeInv, FillInv, RoundInv, IdInv, ServeInv, Hc
    PROVE  ServeInv'
<1>1. UNCHANGED <<ldVars, chan, cur, bgPc, applied>>
  BY DEF Hc, HcStep, HcTick, HcCopy, HcCopied, HcProbe, HcSame, HcDiffer,
     HcUpst, HcClearById, HcById, HcDone, bgVars
<1>2. CASE ~OneWorker
  BY <1>1, <1>2 DEF ServeInv, ldVars, OneWorker
<1>3. CASE OneWorker
  <2>1. /\ bgPc = "idle" /\ upst \in Table /\ hcTab \in Table /\ full \in Table
        /\ up \in [Backends -> Status]
    BY <1>3 DEF Hc, HcStep, HcTick, HcCopy, HcCopied, HcProbe, HcSame, HcDiffer,
       HcUpst, HcClearById, HcById, HcDone, HcMayRun, OneWorker, BgRunning,
       TypeInv, Typed
  <2>2. SUFFICES
          /\ hcPc' = "copy" => early' = (applied = {})
          /\ hcPc' \in {"probe", "upst", "byid"} => From(hcTab', early', applied)
          /\ hcPc' = "upst" => blank' = early'
          /\ (hcPc' # "upst" /\ applied # {}) => From(upst', blank', applied)
    BY <1>1, <2>1 DEF ServeInv, ldVars
  <2>3. CASE HcTick \/ HcSame \/ HcDiffer \/ HcDone
    BY <1>3, <2>1, <2>3 DEF HcTick, HcSame, HcDiffer, HcDone, ServeInv, tables
  <2>4. CASE HcCopied
    <3>1. hcTab = full
      BY <1>3, <2>1, <2>4, TableEqual DEF HcCopied, RoundInv
    <3>2. full = cur.ups
      BY <2>1 DEF FillInv
    <3>3. From(hcTab, early, applied)
      BY <1>3, <2>4, <3>1, <3>2 DEF HcCopied, ServeInv
    <3> QED
      BY <1>3, <2>1, <2>4, <3>3 DEF HcCopied, ServeInv, tables
  <2>5. CASE HcClearById
    <3>1. upst = hcTab
      BY <1>3, <2>1, <2>5, FilledAll DEF HcClearById, IdInv
    <3> QED
      BY <1>3, <2>1, <2>5, <3>1 DEF HcClearById, ServeInv
  <2>6. CASE \E h \in Hosts : HcStep(h)
    <3>1. PICK h \in Hosts : HcStep(h)
      BY <2>6
    <3>2. CASE HcCopy(h)
      BY <1>3, <2>1, <3>2 DEF HcCopy, ServeInv, tables
    <3>3. CASE HcProbe(h)
      <4>1. From(hcTab', early, applied)
        BY <1>3, <2>1, <3>3, FromProbe DEF HcProbe, TypeInv, ServeInv
      <4> QED
        BY <1>3, <2>1, <3>3, <4>1 DEF HcProbe, ServeInv, tables
    <3>4. CASE HcUpst(h)
      BY <1>3, <2>1, <3>4 DEF HcUpst, ServeInv
    <3>5. CASE HcById(h)
      BY <1>3, <2>1, <3>5 DEF HcById, ServeInv
    <3> QED
      BY <3>1, <3>2, <3>3, <3>4, <3>5 DEF HcStep
  <2> QED
    BY <2>3, <2>4, <2>5, <2>6 DEF Hc
<1> QED
  BY <1>2, <1>3

\* The conjunction that is inductive.
ReloadInv == TypeInv /\ FillInv /\ RoundInv /\ IdInv /\ ServeInv

\* Every step keeps ServeInv.
LEMMA ServeNext == ReloadInv /\ [Next]_vars => ServeInv'
<1> SUFFICES ASSUME ReloadInv, [Next]_vars PROVE ServeInv'
  OBVIOUS
<1> USE DEF ReloadInv
<1>1. CASE \E l \in Loaders : Send(l) \/ \E c \in Configs : Load(l, c)
  BY <1>1, ServeSend, ServeLoad
<1>2. CASE Bg
  BY <1>2, ServeBg
<1>3. CASE Hc
  BY <1>3, ServeHc
<1>4. CASE \E b \in Backends : Flip(b)
  BY <1>4 DEF Flip, ServeInv, ldVars, bgVars, hcVars, tables
<1>5. CASE UNCHANGED vars
  BY <1>5 DEF vars, ServeInv, ldVars, bgVars, hcVars, tables
<1> QED
  BY <1>1, <1>2, <1>3, <1>4, <1>5 DEF Next

\* With one worker, requests are served from a single configuration that was
\* received, never from a mixture of two, unless the last to rewrite ump_upst is
\* a round that began before the first one was received: then it is empty.
THEOREM ServedConfigIsOne == Spec => []ServesOneConfig
<1>1. Init => ReloadInv
  BY TypeInit, FillInit, RoundInit, IdInit, ServeInit DEF ReloadInv
<1>2. ReloadInv /\ [Next]_vars => ReloadInv'
  BY TypeNext, FillNext, RoundNext, IdNext, ServeNext DEF ReloadInv
<1>3. ReloadInv => ServesOneConfig
  BY DEF ReloadInv, ServeInv, ServesOneConfig, From, Narrows, OneWorker, Quiet,
     BgRunning, HcRunning
<1> QED
  BY <1>1, <1>2, <1>3, PTL DEF Spec

-----------------------------------------------------------------------------
(* One worker: the two tasks are one writer *)

\* A step that leaves the tables and the stages of a rewrite alone is not seen.
LEMMA NotSeen ==
    ASSUME UNCHANGED <<upst, byid>>, UNCHANGED <<bgPc, hcPc>> \/
              (bgPc \notin Rewriting /\ bgPc' \notin Rewriting
               /\ hcPc \notin Rewriting /\ hcPc' \notin Rewriting),
           bgPc \in Rewriting => UNCHANGED <<bgLeft, cur>>,
           hcPc \in Rewriting => UNCHANGED <<hcLeft, hcTab>>
    PROVE  UNCHANGED TW!vars
BY DEF TW!vars, WriterOf

\* The steps of the background task, the only one that is running.
LEMMA BgMapped ==
    ASSUME TypeInv, RoundInv, IdInv, OneWorker, Bg
    PROVE  TW!Next \/ UNCHANGED TW!vars
<1>1. /\ hcPc \notin Rewriting /\ hcPc' \notin Rewriting
      /\ upst \in Table /\ cur.ups \in Table /\ bgLeft \in SUBSET DOMAIN cur.ups
  BY DEF Bg, BgRecv, BgInsert, BgNext, BgDone, BgMayRun, OneWorker, HcRunning,
     Rewriting, hcVars, TypeInv, Typed, Message
<1>2. CASE BgRecv \/ BgDone
  <2>1. bgPc \notin Rewriting /\ bgPc' \notin Rewriting /\ UNCHANGED <<upst, byid>>
    BY <1>2 DEF BgRecv, BgDone, Rewriting, tables
  <2> QED
    BY <1>1, <2>1, NotSeen
<1>3. ASSUME NEW h \in Hosts, BgInsert(h) PROVE TW!Next \/ UNCHANGED TW!vars
  <2>1. /\ h \in bgLeft /\ bgLeft' = bgLeft \ {h} /\ bgPc' = bgPc /\ cur' = cur
        /\ hcPc' = hcPc
    BY <1>3 DEF BgInsert, hcVars
  <2>2. CASE BgFull(h) \/ BgHdrs(h)
    <3>1. bgPc \notin Rewriting /\ UNCHANGED <<upst, byid>>
      BY <2>2 DEF BgFull, BgHdrs, Rewriting, tables
    <3> QED
      BY <1>1, <2>1, <3>1, NotSeen
  <2>3. CASE BgUpst(h)
    <3>1. /\ bgPc = "upst" /\ bgPc \in Rewriting /\ bgPc' \in Rewriting
          /\ upst' = Insert(upst, h, cur.ups[h]) /\ byid' = byid
      BY <2>1, <2>3 DEF BgUpst, Rewriting
    <3>2. TW!PutHost(h) /\ h \in WriterOf(bgLeft, hcLeft, {})
      BY <2>1, <3>1 DEF TW!PutHost, WriterOf, Insert
    <3> QED
      BY <3>2 DEF TW!Next
  <2>4. CASE BgById(h)
    <3>1. /\ bgPc = "byid" /\ bgPc \in Rewriting /\ bgPc' \in Rewriting
          /\ byid' \in PutIds(byid, h, cur.ups[h]) /\ upst' = upst
      BY <2>1, <2>4 DEF BgById, Rewriting
    <3>a. OnePerId(byid, EntriesBut(cur.ups, bgLeft))
      BY <3>1 DEF IdInv
    <3>2. \E P \in Ids(h, cur.ups[h]) : byid' = byid \cup P
      <4>1. Adds(byid, byid', h, cur.ups[h])
        BY <1>1, <2>1, <3>1, <3>a, PutIdsEntries
      <4> QED
        BY <4>1 DEF Adds
    <3>3. TW!PutIds(h) /\ h \in WriterOf(bgLeft, hcLeft, {})
      BY <2>1, <3>1, <3>2 DEF TW!PutIds, WriterOf
    <3> QED
      BY <3>3 DEF TW!Next
  <2> QED
    BY <1>3, <2>2, <2>3, <2>4 DEF BgInsert
<1>4. CASE BgNext
  <2>1. bgLeft = {} /\ bgLeft' = DOMAIN cur.ups /\ cur' = cur /\ hcPc' = hcPc
    BY <1>4 DEF BgNext, hcVars
  <2>2. CASE BgClearUpst
    <3>1. /\ bgPc \notin Rewriting /\ bgPc' = "upst" /\ bgPc' \in Rewriting
          /\ upst' = Empty /\ byid' = byid
      BY <2>2 DEF BgClearUpst, Rewriting
    <3>2. TW!Start
      BY <1>1, <2>1, <3>1 DEF TW!Start, TW!Empty, WriterOf, Empty
    <3> QED
      BY <3>2 DEF TW!Next
  <2>3. CASE BgClearById
    <3>1. /\ bgPc = "upst" /\ bgPc' = "byid" /\ bgPc \in Rewriting /\ bgPc' \in Rewriting
          /\ byid' = {} /\ upst' = upst
      BY <2>3 DEF BgClearById, Rewriting
    <3>2. TW!ClearById
      BY <2>1, <3>1 DEF TW!ClearById, WriterOf
    <3> QED
      BY <3>2 DEF TW!Next
  <2>4. CASE BgParams
    <3>1. /\ bgPc = "byid" /\ bgPc \in Rewriting /\ bgPc' \notin Rewriting
          /\ byid' = byid /\ upst' = upst
      BY <2>4 DEF BgParams, Rewriting, tables
    <3>2. upst = cur.ups
      BY <3>1 DEF IdInv
    <3>3. TW!Done
      BY <1>1, <2>1, <3>1, <3>2 DEF TW!Done, WriterOf
    <3> QED
      BY <3>3 DEF TW!Next
  <2> QED
    BY <1>4, <2>2, <2>3, <2>4 DEF BgNext
<1> QED
  BY <1>2, <1>3, <1>4 DEF Bg

\* The steps of the health checker, the only task that is running.
LEMMA HcMapped ==
    ASSUME TypeInv, RoundInv, IdInv, OneWorker, Hc
    PROVE  TW!Next \/ UNCHANGED TW!vars
<1>1. /\ bgPc \notin Rewriting /\ bgPc' \notin Rewriting
      /\ upst \in Table /\ hcTab \in Table
  BY DEF Hc, HcStep, HcTick, HcCopy, HcCopied, HcProbe, HcSame, HcDiffer,
     HcUpst, HcClearById, HcById, HcDone, HcMayRun, OneWorker, BgRunning,
     Rewriting, bgVars, TypeInv, Typed
<1>2. CASE HcTick \/ HcCopied \/ HcSame
  <2>1. hcPc \notin Rewriting /\ hcPc' \notin Rewriting /\ UNCHANGED <<upst, byid>>
    BY <1>2 DEF HcTick, HcCopied, HcSame, Rewriting, tables
  <2> QED
    BY <1>1, <2>1, NotSeen
<1>3. CASE HcDiffer
  <2>1. /\ hcPc \notin Rewriting /\ hcPc' = "upst" /\ hcPc' \in Rewriting
        /\ upst' = Empty /\ byid' = byid /\ hcTab' = hcTab /\ hcLeft' = DOMAIN hcTab
    BY <1>3 DEF HcDiffer, Rewriting
  <2>2. TW!Start
    BY <1>1, <2>1 DEF TW!Start, TW!Empty, WriterOf, Empty
  <2> QED
    BY <2>2 DEF TW!Next
<1>4. CASE HcClearById
  <2>1. /\ hcPc = "upst" /\ hcPc' = "byid" /\ hcPc \in Rewriting /\ hcPc' \in Rewriting
        /\ hcLeft = {} /\ hcLeft' = DOMAIN hcTab
        /\ byid' = {} /\ upst' = upst /\ hcTab' = hcTab
    BY <1>4 DEF HcClearById, Rewriting
  <2>2. TW!ClearById
    BY <1>1, <2>1 DEF TW!ClearById, WriterOf
  <2> QED
    BY <2>2 DEF TW!Next
<1>5. CASE HcDone
  <2>1. /\ hcPc = "byid" /\ hcPc \in Rewriting /\ hcPc' \notin Rewriting
        /\ hcLeft = {} /\ byid' = byid /\ upst' = upst
    BY <1>5 DEF HcDone, Rewriting, tables
  <2>2. upst = hcTab
    BY <2>1 DEF IdInv
  <2>3. TW!Done
    BY <1>1, <2>1, <2>2 DEF TW!Done, WriterOf
  <2> QED
    BY <2>3 DEF TW!Next
<1>6. ASSUME NEW h \in Hosts, HcStep(h) PROVE TW!Next \/ UNCHANGED TW!vars
  <2>1. h \in hcLeft /\ hcLeft' = hcLeft \ {h} /\ hcPc' = hcPc
    BY <1>6 DEF HcStep, HcCopy, HcProbe, HcUpst, HcById
  <2>2. CASE HcCopy(h) \/ HcProbe(h)
    <3>1. hcPc \notin Rewriting /\ UNCHANGED <<upst, byid>>
      BY <2>2 DEF HcCopy, HcProbe, Rewriting, tables
    <3> QED
      BY <1>1, <2>1, <3>1, NotSeen
  <2>3. CASE HcUpst(h)
    <3>1. /\ hcPc = "upst" /\ hcPc \in Rewriting /\ hcPc' \in Rewriting
          /\ upst' = Insert(upst, h, hcTab[h]) /\ byid' = byid /\ hcTab' = hcTab
      BY <2>1, <2>3 DEF HcUpst, Rewriting
    <3>2. TW!PutHost(h) /\ h \in WriterOf(bgLeft, hcLeft, {})
      BY <1>1, <2>1, <3>1 DEF TW!PutHost, WriterOf, Insert
    <3> QED
      BY <3>2 DEF TW!Next
  <2>4. CASE HcById(h)
    <3>1. /\ hcPc = "byid" /\ hcPc \in Rewriting /\ hcPc' \in Rewriting
          /\ byid' \in PutIds(byid, h, hcTab[h]) /\ upst' = upst /\ hcTab' = hcTab
      BY <2>1, <2>4 DEF HcById, Rewriting
    <3>2. hcLeft \in SUBSET DOMAIN hcTab /\ OnePerId(byid, EntriesBut(hcTab, hcLeft))
      BY <3>1 DEF TypeInv, IdInv
    <3>3. \E P \in Ids(h, hcTab[h]) : byid' = byid \cup P
      <4>1. Adds(byid, byid', h, hcTab[h])
        BY <1>1, <2>1, <3>1, <3>2, PutIdsEntries
      <4> QED
        BY <4>1 DEF Adds
    <3>4. TW!PutIds(h) /\ h \in WriterOf(bgLeft, hcLeft, {})
      BY <1>1, <2>1, <3>1, <3>3 DEF TW!PutIds, WriterOf
    <3> QED
      BY <3>4 DEF TW!Next
  <2> QED
    BY <1>6, <2>2, <2>3, <2>4 DEF HcStep
<1> QED
  BY <1>2, <1>3, <1>4, <1>5, <1>6 DEF Hc

\* At start the writer is idle and both maps are empty.
LEMMA InitMapped == Init => TW!Init
<1> SUFFICES ASSUME Init PROVE TW!Init
  OBVIOUS
<1>1. /\ bgPc \notin Rewriting /\ hcPc \notin Rewriting /\ upst = Empty /\ byid = {}
  BY DEF Init, Rewriting
<1> QED
  BY <1>1 DEF TW!Init, TW!Empty, WriterOf, Empty

\* Every step is a step of the writer, or is not seen.
LEMMA StepMapped ==
    ASSUME TypeInv, RoundInv, IdInv, OneWorker, [Next]_vars
    PROVE  TW!Next \/ UNCHANGED TW!vars
<1>1. CASE \/ \E l \in Loaders : Send(l) \/ \E c \in Configs : Load(l, c)
           \/ \E b \in Backends : Flip(b)
           \/ UNCHANGED vars
  <2>1. UNCHANGED <<upst, byid, bgPc, bgLeft, cur, hcPc, hcLeft, hcTab>>
    BY <1>1 DEF Send, Load, Flip, vars, bgVars, hcVars, tables
  <2> QED
    BY <2>1, NotSeen
<1>2. CASE Bg
  BY <1>2, BgMapped
<1>3. CASE Hc
  BY <1>3, HcMapped
<1> QED
  BY <1>1, <1>2, <1>3 DEF Next

\* With one worker the background task and the health checker, with the loaders
\* and the channel between them, implement the one writer that Routing assumes.
THEOREM TasksAreOneWriter ==
    ASSUME Workers = 1
    PROVE  Spec => OneWriter
<1>1. Init => TypeInv /\ RoundInv /\ IdInv /\ TW!Init
  BY TypeInit, RoundInit, IdInit, InitMapped
<1>2. TypeInv /\ RoundInv /\ IdInv /\ [Next]_vars
        => (TypeInv /\ RoundInv /\ IdInv)' /\ [TW!Next]_TW!vars
  BY TypeNext, RoundNext, IdNext, StepMapped DEF OneWorker
<1> QED
  BY <1>1, <1>2, PTL DEF Spec, OneWriter, TW!Spec
=============================================================================
