--------------------------- MODULE SourcesProofs ----------------------------
(***************************************************************************)
(* Whichever provider was started, for any handlers, mappings, endpoints,  *)
(* API servers and number of changes: types and the capacity of the        *)
(* channel (SourcesTypeOK), no difference found by a poll is lost (InStep), *)
(* and what was found for one mapping outlives the next (EveryMappingKept). *)
(*                                                                         *)
(* That the reads of a load are counted to five needs that a load that     *)
(* goes on has made fewer.  InStep speaks of the time between two polls;   *)
(* that it holds again after a poll that found nothing new needs it during *)
(* the poll, and that the table about to be sent is the one that was       *)
(* remembered.                                                             *)
(***************************************************************************)
EXTENDS Sources, NatLemmas, SequenceTheorems

\* What the watcher's part needs besides its types.
FileInv ==
    /\ TypeOK
    /\ wPc = "read" => tries < Attempts

\* The mappings that are left when k were asked for.
Rest(k) == SubSeq(Mappings, k + 1, Len(Mappings))

Hosts == {Mappings[i].hostname : i \in DOMAIN Mappings}

\* The table of a poll is made of the hosts of the mappings.
PollInv ==
    /\ D!TypeOK
    /\ \E k \in 0..Len(Mappings) : todo = Rest(k)
    /\ DOMAIN upstreams \subseteq Hosts

\* What was sent last is what was remembered, also during a poll.
StepInv ==
    /\ dPc # "poll" => prev = upstreams
    /\ dPc # "send" /\ ~overridden => prev = IF chan = << >> THEN applied ELSE Head(chan)

\* Until the first change every API server answers.
KeptInv == (changes = 0 => up = 1..ApiServers) /\ D!EveryMappingKept

SourcesInv ==
    IF provider = "file" THEN FileInv ELSE PollInv /\ StepInv /\ KeptInv

-----------------------------------------------------------------------------
(* The watcher and POST /conf *)

\* The versions are numbers, 1 among them.
LEMMA VersionsAreNat ==
    /\ Versions \subseteq Nat /\ 1 \in Versions /\ Empty \in Versions /\ Empty = 0
    /\ Versions \subseteq Contents /\ \A v \in Versions : Part(v) \in Contents
BY BoundsAssumption DEF Versions, Empty, Contents, Part

\* The invariant holds when the watcher is started.
LEMMA FileInit == Init => FileInv
<1> SUFFICES ASSUME Init PROVE FileInv
  OBVIOUS
<1>0. cooled \in BOOLEAN /\ calm \in BOOLEAN /\ FALSE \in BOOLEAN
  BY Zenon DEF Init, WatchInit
<1>1. TypeOK
  BY <1>0, VersionsAreNat, BoundsAssumption DEF Init, WatchInit, TypeOK, Attempts
<1> QED
  BY <1>1, VersionsAreNat DEF Init, WatchInit, FileInv

\* An editor, or time, takes a step.
LEMMA EnvironmentStep ==
    ASSUME FileInv, Truncate \/ WritePart \/ Write \/ WriteTemp \/ Rename \/ OtherFile \/ Cool
    PROVE  FileInv'
<1> USE VersionsAreNat, BoundsAssumption DEF FileInv, TypeOK, Versions, watcher, file
<1>0. CalmMoment \in BOOLEAN
  BY DEF CalmMoment
<1>1. CASE Truncate
  BY <1>0, <1>1 DEF Truncate
<1>2. CASE Write
  BY <1>2 DEF Write
<1>3. CASE WriteTemp
  <2>1. calm' \in BOOLEAN
    BY <1>3, Zenon DEF WriteTemp
  <2> QED
    BY <1>3, <2>1 DEF WriteTemp
<1>4. CASE Rename
  BY <1>4 DEF Rename
<1>5. CASE OtherFile
  BY <1>5 DEF OtherFile
<1>6. CASE Cool
  BY <1>6 DEF Cool
<1>7. CASE WritePart
  <2>1. calm' \in BOOLEAN
    BY <1>7, Zenon DEF WritePart
  <2>2. disk' \in Contents
    BY <1>7 DEF WritePart
  <2> QED
    BY <1>7, <2>1, <2>2 DEF WritePart
<1> QED
  BY <1>1, <1>2, <1>3, <1>4, <1>5, <1>6, <1>7

\* The watcher takes a step.
LEMMA WatcherStep ==
    ASSUME FileInv, Watcher \/ Receive
    PROVE  FileInv'
<1> USE VersionsAreNat DEF FileInv, TypeOK, Attempts, watcher, file
<1>1. CASE Handle
  <2>1. cooled' \in BOOLEAN
    BY <1>1, Zenon DEF Handle
  <2> QED
    BY <1>1, <2>1 DEF Handle
<1>2. CASE Drop
  BY <1>2 DEF Drop
<1>3. CASE Read
  BY <1>3 DEF Read
<1>4. CASE Retry
  BY <1>4 DEF Retry
<1>5. CASE SendLoaded
  BY <1>5 DEF SendLoaded
<1>6. CASE Receive
  BY <1>6 DEF Receive
<1>7. CASE ReadBroken
  BY <1>7 DEF ReadBroken
<1> QED
  BY <1>1, <1>2, <1>3, <1>4, <1>5, <1>6, <1>7 DEF Watcher, Load

\* A handler of POST /conf takes a step.
LEMMA HandlerStep ==
    ASSUME FileInv, NEW h \in Handlers,
           Save(h) \/ SendPosted(h) \/ \E save \in BOOLEAN : Post(h, save)
    PROVE  FileInv'
<1> USE VersionsAreNat, BoundsAssumption DEF FileInv, TypeOK, Versions, watcher, file
<1>0. CalmMoment \in BOOLEAN
  BY DEF CalmMoment
<1>1. CASE Save(h)
  BY <1>1, SMTT(30) DEF Save
<1>2. CASE SendPosted(h)
  BY <1>2 DEF SendPosted
<1>3. ASSUME NEW save \in BOOLEAN, Post(h, save) PROVE FileInv'
  BY <1>0, <1>3 DEF Post
<1> QED
  BY <1>1, <1>2, <1>3

-----------------------------------------------------------------------------
(* Polls *)

\* The hosts as Discovery writes them.
LEMMA HostsRange == {m.hostname : m \in D!Range(Mappings)} = Hosts
BY DEF Hosts, D!Range

\* What is added for a mapping is added under its host.
LEMMA AddedHosts ==
    ASSUME NEW tab, NEW m, NEW list
    PROVE  DOMAIN D!ListToUpstreams(tab, m, list) = {m.hostname} \cup DOMAIN tab
BY DEF D!ListToUpstreams

\* Asking for one mapping leaves the rest but that one.
LEMMA RestProps ==
    ASSUME NEW k \in 0..Len(Mappings)
    PROVE  /\ Len(Rest(k)) = Len(Mappings) - k
           /\ Rest(k) # << >> <=> k # Len(Mappings)
           /\ k # Len(Mappings) => /\ Head(Rest(k)) = Mappings[k + 1]
                                   /\ Tail(Rest(k)) = Rest(k + 1)
           /\ D!IsSuffix(Rest(k), Mappings)
<1> DEFINE S == {Mappings[i] : i \in DOMAIN Mappings}
<1>1. Mappings \in Seq(S)
  BY ListsAssumption DEF IsList
<1> HIDE DEF S
<1>2. Len(Mappings) \in Nat
  BY <1>1
<1>3. \A i \in k + 1 .. Len(Mappings) : Mappings[i] \in S
  BY <1>1
<1>4. /\ Rest(k) \in Seq(S)
      /\ Len(Rest(k)) = Len(Mappings) - k
      /\ \A i \in 1..(Len(Mappings) - k) : Rest(k)[i] = Mappings[k + i]
  BY <1>2, <1>3, SubSeqProperties DEF Rest
<1>5. Rest(k) # << >> <=> k # Len(Mappings)
  BY <1>2, <1>4
<1>6. k # Len(Mappings) => /\ Head(Rest(k)) = Mappings[k + 1]
                           /\ Tail(Rest(k)) = Rest(k + 1)
  BY <1>1, <1>2, HeadTailOfSubSeq DEF Rest
<1>7. D!IsSuffix(Rest(k), Mappings)
  <2> DEFINE R == D!Reverse(Rest(k))  M == D!Reverse(Mappings)
  <2>1. R \in Seq(S) /\ Len(R) = Len(Mappings) - k
    BY <1>4, <1>2 DEF D!Reverse
  <2>2. M \in Seq(S) /\ Len(M) = Len(Mappings)
    BY <1>1, <1>2 DEF D!Reverse
  <2>3. \A i \in 1..(Len(Mappings) - k) : R[i] = M[i]
    BY <1>2, <1>4 DEF D!Reverse
  <2>4. R = SubSeq(M, 1, Len(R))
    BY <2>1, <2>2, <2>3, <1>2
  <2>5. R = SubSeq(R, 1, Len(R))
    BY <2>1, <1>2
  <2> QED
    BY <2>1, <2>2, <2>4, <2>5, <1>2 DEF D!IsSuffix, D!IsPrefix
<1> QED
  BY <1>4, <1>5, <1>6, <1>7

\* Before any is asked for, all are left.
LEMMA WholeList ==
    Len(Mappings) \in Nat /\ Mappings = Rest(0) /\ D!IsSuffix(Mappings, Mappings)
<1> DEFINE S == {Mappings[i] : i \in DOMAIN Mappings}
<1>1. Mappings \in Seq(S)
  BY ListsAssumption DEF IsList
<1> HIDE DEF S
<1>2. Len(Mappings) \in Nat
  BY <1>1
<1>3. Mappings = Rest(0)
  BY <1>1, <1>2, SubSeqFull DEF Rest
<1> QED
  BY <1>2, <1>3, RestProps

LastIn(e) == D!SelectLastInSeq(e, LAMBDA s : s # {})

\* The last subset of a list that is not empty is one of its subsets.
LEMMA LastFull ==
    ASSUME NEW e \in Endpoints
    PROVE  IF \E i \in DOMAIN e : e[i] # {}
           THEN LastIn(e) \in DOMAIN e /\ LastIn(e) # 0 /\ e[LastIn(e)] # {}
           ELSE LastIn(e) = 0
<1> DEFINE I == {i \in 1..Len(e) : e[i] # {}}
<1>1. Len(e) \in Nat /\ DOMAIN e = 1..Len(e)
  BY ListsAssumption DEF IsList
<1>2. LastIn(e) = IF I # {} THEN D!Max(I) ELSE 0
  BY DEF D!SelectLastInSeq, LastIn
<1>3. CASE I # {}
  <2>0. I \in SUBSET (0..Len(e))
    BY <1>1
  <2>1. \E x \in I : \A y \in I : x >= y
    <3> HIDE DEF I
    <3> QED
      BY <1>1, <1>3, <2>0, GreatestNumber
  <2>2. D!Max(I) \in I
    BY <2>1 DEF D!Max
  <2>3. LastIn(e) \in I
    BY <1>2, <1>3, <2>2
  <2> QED
    BY <1>1, <2>3
<1>4. CASE I = {}
  BY <1>1, <1>2, <1>4
<1> QED
  BY <1>3, <1>4

\* The list of a service has its path, and servers of it if there are any.
LEMMA ListServes ==
    ASSUME NEW m, NEW e \in Endpoints
    PROVE  /\ DOMAIN D!ListOf(m, e) \subseteq {m.path}
           /\ UNION D!Range(e) # {} =>
                 /\ m.path \in DOMAIN D!ListOf(m, e)
                 /\ D!ListOf(m, e)[m.path] \in (SUBSET UNION D!Range(e)) \ {{}}
<1>1. CASE provider = "consul"
  BY <1>1 DEF D!ListOf, D!ConsulList, D!PathTo
<1>2. CASE provider # "consul"
  <2>1. D!ListOf(m, e) = IF LastIn(e) = 0 THEN << >> ELSE D!PathTo(m.path, e[LastIn(e)])
    BY <1>2 DEF D!ListOf, D!KuberList, D!NoTable, LastIn
  <2>2. IF \E i \in DOMAIN e : e[i] # {}
        THEN LastIn(e) \in DOMAIN e /\ LastIn(e) # 0 /\ e[LastIn(e)] # {}
        ELSE LastIn(e) = 0
    BY LastFull
  <2>3. CASE \E i \in DOMAIN e : e[i] # {}
    <3>1. D!ListOf(m, e) = D!PathTo(m.path, e[LastIn(e)])
      BY <2>1, <2>2, <2>3
    <3>2. e[LastIn(e)] \in (SUBSET UNION D!Range(e)) \ {{}}
      BY <2>2, <2>3 DEF D!Range
    <3> QED
      BY <3>1, <3>2 DEF D!PathTo
  <2>4. CASE \A i \in DOMAIN e : e[i] = {}
    <3>1. D!ListOf(m, e) = << >>
      BY <2>1, <2>2, <2>4
    <3>2. UNION D!Range(e) = {}
      BY <2>4 DEF D!Range
    <3> QED
      BY <3>1, <3>2
  <2> QED
    BY <2>3, <2>4
<1> QED
  BY <1>1, <1>2

-----------------------------------------------------------------------------
(* The steps of a discovery *)

\* What a poll added for the mapping that is asked for is there, and all that
\* was there before except, at most, at its own path of its own host.
LEMMA TableGrows ==
    ASSUME NEW tab, NEW m, NEW list, DOMAIN list \subseteq {m.path}
    PROVE  LET new == D!ListToUpstreams(tab, m, list) IN
           /\ m.hostname \in DOMAIN new /\ DOMAIN tab \subseteq DOMAIN new
           /\ m.path \in DOMAIN list => /\ m.path \in DOMAIN new[m.hostname]
                                        /\ new[m.hostname][m.path] = list[m.path]
           /\ \A h \in DOMAIN tab : \A p \in DOMAIN tab[h] :
                 ~(h = m.hostname /\ p = m.path) =>
                     p \in DOMAIN new[h] /\ new[h][p] = tab[h][p]
<1> DEFINE new == D!ListToUpstreams(tab, m, list)
<1>1. /\ DOMAIN new = DOMAIN tab \cup {m.hostname}
      /\ \A h \in DOMAIN new :
            new[h] = IF h # m.hostname THEN tab[h]
                     ELSE IF h \in DOMAIN tab THEN D!Insert(list, tab[h]) ELSE list
  BY DEF D!ListToUpstreams
<1>2. \A old : /\ DOMAIN D!Insert(list, old) = DOMAIN list \cup DOMAIN old
               /\ \A k \in DOMAIN list \cup DOMAIN old :
                     D!Insert(list, old)[k] = IF k \in DOMAIN list THEN list[k] ELSE old[k]
  BY DEF D!Insert
<1> HIDE DEF new
<1>3. m.path \in DOMAIN list => /\ m.path \in DOMAIN new[m.hostname]
                                /\ new[m.hostname][m.path] = list[m.path]
  <2>1. CASE m.hostname \in DOMAIN tab
    <3>1. new[m.hostname] = D!Insert(list, tab[m.hostname])
      BY <1>1, <2>1
    <3> QED
      BY <3>1, <1>2, ZenonT(60)
  <2>2. CASE m.hostname \notin DOMAIN tab
    BY <1>1, <2>2
  <2> QED
    BY <2>1, <2>2
<1>4. ASSUME NEW h \in DOMAIN tab, NEW p \in DOMAIN tab[h], ~(h = m.hostname /\ p = m.path)
      PROVE  p \in DOMAIN new[h] /\ new[h][p] = tab[h][p]
  <2>1. CASE h # m.hostname
    BY <1>1, <2>1
  <2>2. CASE h = m.hostname
    <3>1. new[h] = D!Insert(list, tab[h]) /\ p \notin DOMAIN list
      BY <1>1, <1>4, <2>2
    <3> QED
      BY <3>1, <1>2, ZenonT(60)
  <2> QED
    BY <2>1, <2>2
<1> QED
  BY <1>1, <1>3, <1>4 DEF new

\* The invariant holds when a discovery is started.
LEMMA DiscoveryInit == D!Init => PollInv /\ StepInv /\ KeptInv
<1> SUFFICES ASSUME D!Init PROVE PollInv /\ StepInv /\ KeptInv
  OBVIOUS
<1>1. Len(Mappings) \in Nat /\ Mappings = Rest(0) /\ D!IsSuffix(Mappings, Mappings)
  BY WholeList
<1>2. 0 \in 0..Len(Mappings)
  BY <1>1
<1>3. server \in 1..ApiServers
  BY ServersAssumption DEF D!Init, D!Choosable
<1>4. overridden \in BOOLEAN
  BY Zenon DEF D!Init
<1>5. D!TypeOK
  BY <1>1, <1>3, <1>4, DiscoveryBoundsAssumption DEF D!Init, D!TypeOK, D!NoTable
<1>6. PollInv
  BY <1>1, <1>2, <1>5 DEF PollInv, D!Init, D!NoTable
<1>7. StepInv
  BY DEF StepInv, D!Init
<1>8. KeptInv
  BY <1>1 DEF KeptInv, D!EveryMappingKept, D!Init
<1> QED
  BY <1>6, <1>7, <1>8

\* The poller, a sender, the background task, the registry or an API server
\* takes a step other than an answer for a mapping.
LEMMA OtherStep ==
    ASSUME PollInv, StepInv, KeptInv,
           \/ D!Wake \/ D!PollFails \/ D!CloneCompare \/ D!Send
           \/ \E tab \in Bodies : D!Post(tab) \/ D!SendPosted(tab)
           \/ D!Receive
           \/ \E s \in D!Asked : D!Register(s)
           \/ \E i \in 1..ApiServers : D!Toggle(i)
    PROVE  PollInv' /\ StepInv' /\ KeptInv'
<1> USE DEF D!environment, D!poller, D!dVars, D!Asked, D!AskedFor
<1>0. Len(Mappings) \in Nat /\ Mappings = Rest(0) /\ D!IsSuffix(Mappings, Mappings)
  BY WholeList
<1>1. CASE D!Wake
  <2>1. server' \in 1..ApiServers
    BY <1>1, ServersAssumption DEF D!Wake, D!Choosable, PollInv, D!TypeOK
  <2>2. PollInv'
    BY <1>0, <1>1, <2>1 DEF D!Wake, PollInv, D!TypeOK, D!NoTable
  <2>3. StepInv'
    BY <1>1 DEF D!Wake, StepInv
  <2>4. KeptInv'
    BY <1>0, <1>1 DEF D!Wake, KeptInv, D!EveryMappingKept
  <2> QED
    BY <2>2, <2>3, <2>4
<1>2. CASE D!PollFails
  <2>1. PICK k \in 0..Len(Mappings) : todo = Rest(k)
    BY DEF PollInv
  <2>2. k + 1 \in 0..Len(Mappings) /\ todo' = Rest(k + 1)
    BY <1>0, <1>2, <2>1, RestProps DEF D!PollFails
  <2>3. D!IsSuffix(todo', Mappings)
    BY <2>2, RestProps
  <2>4. PollInv'
    BY <1>2, <2>2, <2>3 DEF D!PollFails, PollInv, D!TypeOK
  <2>5. StepInv'
    BY <1>2 DEF D!PollFails, StepInv
  <2>6. changes # 0
    BY <1>2 DEF D!PollFails, KeptInv, PollInv, D!TypeOK
  <2>7. KeptInv'
    BY <1>2, <2>6 DEF D!PollFails, KeptInv, D!EveryMappingKept
  <2> QED
    BY <2>4, <2>5, <2>7
<1>3. CASE D!CloneCompare
  <2>1. PollInv'
    BY <1>3, HostsRange DEF D!CloneCompare, PollInv, D!TypeOK
  <2>2. StepInv'
    BY <1>3 DEF D!CloneCompare, StepInv
  <2>3. KeptInv'
    BY <1>3 DEF D!CloneCompare, KeptInv, D!EveryMappingKept
  <2> QED
    BY <2>1, <2>2, <2>3
<1>4. CASE D!Send
  <2>0. overridden' \in BOOLEAN
    BY <1>4, Zenon DEF D!Send
  <2>1. PollInv'
    BY <1>4, <2>0 DEF D!Send, PollInv, D!TypeOK
  <2>2. StepInv'
    BY <1>4 DEF D!Send, StepInv
  <2>3. KeptInv'
    BY <1>4 DEF D!Send, KeptInv, D!EveryMappingKept
  <2> QED
    BY <2>1, <2>2, <2>3
<1>5. ASSUME NEW tab \in Bodies, D!Post(tab) PROVE PollInv' /\ StepInv' /\ KeptInv'
  <2>1. PollInv'
    BY <1>5, DiscoveryBoundsAssumption DEF D!Post, PollInv, D!TypeOK
  <2>2. StepInv' /\ KeptInv'
    BY <1>5 DEF D!Post, StepInv, KeptInv, D!EveryMappingKept
  <2> QED
    BY <2>1, <2>2
<1>6. ASSUME NEW tab \in Bodies, D!SendPosted(tab) PROVE PollInv' /\ StepInv' /\ KeptInv'
  <2>0. overridden' \in BOOLEAN
    BY <1>6, Zenon DEF D!SendPosted
  <2>1. PollInv'
    BY <1>6, <2>0 DEF D!SendPosted, PollInv, D!TypeOK
  <2>2. StepInv' /\ KeptInv'
    BY <1>6 DEF D!SendPosted, StepInv, KeptInv, D!EveryMappingKept
  <2> QED
    BY <2>1, <2>2
<1>7. CASE D!Receive
  <2>1. PollInv'
    BY <1>7 DEF D!Receive, PollInv, D!TypeOK
  <2>2. StepInv' /\ KeptInv'
    BY <1>7 DEF D!Receive, StepInv, KeptInv, D!EveryMappingKept
  <2> QED
    BY <2>1, <2>2
<1>8. ASSUME NEW s \in D!Asked, D!Register(s) PROVE PollInv' /\ StepInv' /\ KeptInv'
  <2>1. PollInv' /\ changes' # 0
    BY <1>8, DiscoveryBoundsAssumption DEF D!Register, PollInv, D!TypeOK
  <2>2. StepInv' /\ KeptInv'
    BY <1>8, <2>1 DEF D!Register, StepInv, KeptInv, D!EveryMappingKept
  <2> QED
    BY <2>1, <2>2
<1>9. ASSUME NEW i \in 1..ApiServers, D!Toggle(i) PROVE PollInv' /\ StepInv' /\ KeptInv'
  <2>1. PollInv' /\ changes' # 0
    BY <1>9, DiscoveryBoundsAssumption DEF D!Toggle, PollInv, D!TypeOK
  <2>2. StepInv' /\ KeptInv'
    BY <1>9, <2>1 DEF D!Toggle, StepInv, KeptInv, D!EveryMappingKept
  <2> QED
    BY <2>1, <2>2
<1> QED
  BY <1>1, <1>2, <1>3, <1>4, <1>5, <1>6, <1>7, <1>8, <1>9

\* The API server answers for a mapping.
LEMMA PollStep ==
    ASSUME PollInv, StepInv, KeptInv, D!Poll
    PROVE  PollInv' /\ StepInv' /\ KeptInv'
<1> USE DEF D!environment
<1> DEFINE m == Head(todo)
           list == D!ListOf(m, registry[D!AskedFor(m)])
<1>0. Len(Mappings) \in Nat /\ DOMAIN Mappings = 1..Len(Mappings)
  BY ListsAssumption DEF IsList
<1>1. PICK k \in 0..Len(Mappings) : todo = Rest(k)
  BY DEF PollInv
<1>2. /\ k \in Nat /\ k + 1 \in 1..Len(Mappings)
      /\ m = Mappings[k + 1] /\ todo' = Rest(k + 1)
  <2>1. todo # << >> /\ todo' = Tail(todo)
    BY DEF D!Poll
  <2>2. /\ Rest(k) # << >> <=> k # Len(Mappings)
        /\ k # Len(Mappings) => /\ Head(Rest(k)) = Mappings[k + 1]
                                /\ Tail(Rest(k)) = Rest(k + 1)
    BY RestProps
  <2>3. k # Len(Mappings)
    BY <1>1, <2>1, <2>2
  <2>4. k \in Nat /\ k + 1 \in 1..Len(Mappings)
    <3>1. Len(Mappings) \in Nat
      BY WholeList
    <3> QED
      BY <3>1, <2>3
  <2>5. m = Mappings[k + 1] /\ todo' = Rest(k + 1)
    BY <1>1, <2>1, <2>2, <2>3
  <2> QED
    BY <2>4, <2>5
<1>3. /\ Len(todo) = Len(Mappings) - k /\ Len(todo') = Len(Mappings) - (k + 1)
      /\ D!IsSuffix(todo', Mappings)
  <2>1. Len(Rest(k)) = Len(Mappings) - k
    BY RestProps
  <2>2. k + 1 \in 0..Len(Mappings)
    BY <1>0, <1>2
  <2>3. Len(Rest(k + 1)) = Len(Mappings) - (k + 1) /\ D!IsSuffix(Rest(k + 1), Mappings)
    BY <2>2, RestProps
  <2> QED
    BY <1>1, <1>2, <2>1, <2>3
<1>4. upstreams' = D!ListToUpstreams(upstreams, m, list)
  BY DEF D!Poll
<1>5. PollInv'
  <2>1. m.hostname \in Hosts
    BY <1>0, <1>2 DEF Hosts
  <2>2. DOMAIN upstreams' \subseteq Hosts
    BY <1>4, <2>1, AddedHosts DEF PollInv
  <2> QED
    BY <1>2, <1>3, <2>2, SMTT(30) DEF PollInv, D!Poll, D!TypeOK, D!Asked, D!AskedFor
<1>6. StepInv'
  BY DEF D!Poll, StepInv
<1>7. KeptInv'
  <2> SUFFICES ASSUME changes = 0 PROVE KeptInv'
    BY DEF D!Poll, KeptInv, D!EveryMappingKept
  <2>1. registry[D!AskedFor(m)] \in Endpoints
    <3>1. D!AskedFor(m) \in D!Asked
      BY <1>0, <1>2 DEF D!Asked, D!Range
    <3> QED
      BY <3>1 DEF PollInv, D!TypeOK
  <2> DEFINE asked == 1..(Len(Mappings) - Len(todo))
             servers(i) == UNION D!Range(registry[D!AskedFor(Mappings[i])])
             Twin(i, j) == j > i /\ Mappings[j].hostname = Mappings[i].hostname
                                 /\ Mappings[j].path = Mappings[i].path
             Kept(i) == /\ Mappings[i].path \in DOMAIN upstreams[Mappings[i].hostname]
                        /\ upstreams[Mappings[i].hostname][Mappings[i].path]
                               \in (SUBSET servers(i)) \ {{}}
  <2>2. asked = 1..k /\ asked' = 1..(k + 1)
    <3>0. k \in Nat /\ Len(Mappings) \in Nat
      BY <1>0, <1>2
    <3>1. Len(Mappings) - Len(todo) = k /\ Len(Mappings) - Len(todo') = k + 1
      BY <3>0, <1>3
    <3> QED
      BY <3>1
  <2>3. \A i \in 1..k :
            /\ Mappings[i].hostname \in DOMAIN upstreams
            /\ servers(i) # {} /\ {j \in 1..k : Twin(i, j)} = {} => Kept(i)
    BY <2>2 DEF KeptInv, D!EveryMappingKept, D!Poll
  <2>4. DOMAIN list \subseteq {m.path}
    BY <2>1, ListServes
  <2>5. servers(k + 1) # {} =>
            m.path \in DOMAIN list /\ list[m.path] \in (SUBSET servers(k + 1)) \ {{}}
    BY <1>2, <2>1, ListServes
  <2> HIDE DEF list
  <2>6. /\ m.hostname \in DOMAIN upstreams' /\ DOMAIN upstreams \subseteq DOMAIN upstreams'
        /\ m.path \in DOMAIN list => /\ m.path \in DOMAIN upstreams'[m.hostname]
                                     /\ upstreams'[m.hostname][m.path] = list[m.path]
        /\ \A h \in DOMAIN upstreams : \A p \in DOMAIN upstreams[h] :
              ~(h = m.hostname /\ p = m.path) =>
                  p \in DOMAIN upstreams'[h] /\ upstreams'[h][p] = upstreams[h][p]
    BY <1>4, <2>4, TableGrows
  <2> HIDE DEF m
  <2>7. \A i \in 1..(k + 1) :
            /\ Mappings[i].hostname \in DOMAIN upstreams'
            /\ servers(i) # {} /\ {j \in 1..(k + 1) : Twin(i, j)} = {} => Kept(i)'
    <3> SUFFICES ASSUME NEW i \in 1..(k + 1)
                 PROVE  /\ Mappings[i].hostname \in DOMAIN upstreams'
                        /\ servers(i) # {} /\ {j \in 1..(k + 1) : Twin(i, j)} = {} => Kept(i)'
      OBVIOUS
    <3>0. servers(i)' = servers(i)
      BY DEF D!Poll, D!AskedFor
    <3> HIDE DEF servers
    <3>1. CASE i = k + 1
      BY <1>2, <2>5, <2>6, <3>0, <3>1
    <3>2. CASE i # k + 1
      <4>1. i \in 1..k
        BY <1>2, <3>2
      <4>2. ASSUME servers(i) # {}, {j \in 1..(k + 1) : Twin(i, j)} = {} PROVE Kept(i)'
        <5>1. {j \in 1..k : Twin(i, j)} = {} /\ ~Twin(i, k + 1)
          BY <1>2, <4>2
        <5>2. Kept(i) /\ Mappings[i].hostname \in DOMAIN upstreams
          BY <2>3, <4>1, <4>2, <5>1
        <5>3. ~(Mappings[i].hostname = m.hostname /\ Mappings[i].path = m.path)
          BY <1>2, <4>1, <5>1
        <5> QED
          BY <2>6, <3>0, <5>2, <5>3
      <4> QED
        BY <2>3, <2>6, <4>1, <4>2
    <3> QED
      BY <3>1, <3>2
  <2>8. D!EveryMappingKept'
    BY <2>2, <2>7 DEF D!EveryMappingKept, D!Poll, D!AskedFor
  <2> QED
    BY <2>8 DEF KeptInv, D!Poll
<1> QED
  BY <1>5, <1>6, <1>7

-----------------------------------------------------------------------------
(* Both parts together *)

\* The provider is read once, at the start.
LEMMA ProviderStays == D!Next => provider' = provider
BY DEF D!Next, D!Wake, D!Poll, D!PollFails, D!CloneCompare, D!Send, D!Post, D!SendPosted,
       D!Receive, D!Register, D!Toggle, D!dVars

\* The invariant of the part that was started holds at the start.
LEMMA InitHolds == StartInit => SourcesInv
<1>1. StartFile => SourcesInv
  BY FileInit DEF StartFile, SourcesInv
<1>2. StartDiscovery => SourcesInv
  <2> SUFFICES ASSUME StartDiscovery PROVE SourcesInv
    OBVIOUS
  <2>1. provider # "file"
    BY DEF StartDiscovery, D!Init
  <2> QED
    BY <2>1, DiscoveryInit DEF StartDiscovery, SourcesInv
<1> QED
  BY <1>1, <1>2 DEF StartInit

\* Every step keeps it.
LEMMA StepHolds == SourcesInv /\ [StartNext]_allVars => SourcesInv'
<1> SUFFICES ASSUME SourcesInv, [StartNext]_allVars PROVE SourcesInv'
  OBVIOUS
<1>1. CASE FileNext
  <2>1. FileInv /\ Next /\ provider = "file" /\ provider' = provider
    BY <1>1 DEF FileNext, SourcesInv, discovery
  <2>2. FileInv'
    BY <2>1, EnvironmentStep, WatcherStep, HandlerStep DEF Next
  <2> QED
    BY <2>1, <2>2 DEF SourcesInv
<1>2. CASE DiscoveryNext
  <2>1. /\ PollInv /\ StepInv /\ KeptInv /\ D!Next
        /\ provider # "file" /\ provider' = provider
    BY <1>2, ProviderStays DEF DiscoveryNext, SourcesInv
  <2>2. PollInv' /\ StepInv' /\ KeptInv'
    BY <2>1, OtherStep, PollStep DEF D!Next
  <2> QED
    BY <2>1, <2>2 DEF SourcesInv
<1>3. CASE UNCHANGED allVars
  <2>1. UNCHANGED vars /\ UNCHANGED discovery
    BY <1>3 DEF allVars
  <2>2. FileInv => FileInv'
    BY <2>1 DEF vars, file, watcher, FileInv, TypeOK
  <2>3. PollInv /\ StepInv /\ KeptInv => PollInv' /\ StepInv' /\ KeptInv'
    BY <2>1 DEF vars, discovery, PollInv, StepInv, KeptInv, D!TypeOK, D!EveryMappingKept,
                    D!Asked, D!AskedFor
  <2> QED
    BY <2>1, <2>2, <2>3 DEF SourcesInv, discovery
<1> QED
  BY <1>1, <1>2, <1>3 DEF StartNext

\* The invariant holds forever.
LEMMA Invariance == StartSpec => []SourcesInv
BY InitHolds, StepHolds, PTL DEF StartSpec

\* Whatever the provider, every variable keeps its type, and the channel to the
\* background task never holds more than one configuration, however many
\* senders wait for it (mpsc::channel(1) in LB::start).
THEOREM TypeCorrect == StartSpec => []SourcesTypeOK
<1>1. SourcesInv => SourcesTypeOK
  BY DEF SourcesInv, SourcesTypeOK, FileInv, PollInv
<1> QED
  BY <1>1, Invariance, PTL

\* No difference that a poll found is lost between prev_upstreams and the
\* served tables, whatever the registry, the API servers and POST /conf do
\* meanwhile (clone_compare, which remembers a table before it is sent).
THEOREM NoDifferenceLost == StartSpec => []InStep
<1>1. SourcesInv => InStep
  BY DEF SourcesInv, InStep, D!InStep, StepInv
<1> QED
  BY <1>1, Invariance, PTL

\* For any list of mappings, hosts and paths that several of them share
\* included, what a poll found for one is still in the table when the others
\* are added, and was found under the name its provider is asked for: the
\* upstream for Consul, the hostname for Kubernetes (fetch_upstreams,
\* list_to_upstreams, match_path).
THEOREM MappingsKept == StartSpec => []EveryMappingKept
<1>1. SourcesInv => EveryMappingKept
  BY DEF SourcesInv, EveryMappingKept, KeptInv
<1> QED
  BY <1>1, Invariance, PTL
=============================================================================
