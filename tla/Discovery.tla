----------------------------- MODULE Discovery ------------------------------
(***************************************************************************)
(* Upstreams from Consul or Kubernetes (kuberconsul.rs, httpclient.rs).    *)
(*                                                                         *)
(* Every five seconds a task asks an API server for the endpoints of each  *)
(* configured mapping, one after the other, and builds a table of what it  *)
(* got; a mapping whose request fails is not in it.  Consul is asked for   *)
(* the upstream of the mapping and Kubernetes for its hostname.  A table   *)
(* that differs from the one sent before is sent to the background task.   *)
(* POST /conf works beside it and sends the table of its body.             *)
(*                                                                         *)
(* The endpoints under a name are a sequence of subsets, each a set of     *)
(* servers.  A table maps hosts to functions from paths to servers.        *)
(***************************************************************************)
EXTENDS Naturals, Sequences, FiniteSets, SequencesExt

CONSTANTS
    Mappings,   \* config.services: [upstream, hostname, path] in their order
    Endpoints,  \* what the registry may hold under a name
    ApiServers, \* the number of servers configured for the provider
    Bodies,     \* tables that may be posted
    MaxChanges, \* bound: changes of the registry and of the API servers
    MaxPosts    \* bound: POST /conf

VARIABLES
    provider,   \* config.typecfg
    registry,   \* the endpoints under every name that is asked for
    up,         \* API servers that answer
    changes,    \* changes of the two so far
    server,     \* the API server that is asked
    todo,       \* mappings the poll under way has still to ask for
    upstreams,  \* the table it builds
    dPc,        \* "poll", "send" or "sleep"
    prev,       \* prev_upstreams
    posting,    \* bodies whose tasks wait for room in the channel
    posts,      \* bodies posted so far
    chan,       \* the channel to the background task
    applied,    \* the table received last
    overridden  \* history: it, or the one on its way, was posted

environment == <<registry, up, changes>>
poller == <<server, todo, upstreams, dPc, prev>>
dVars == <<provider, environment, poller, posting, posts, overridden>>
vars == <<dVars, chan, applied>>

NoTable == << >>

\* The name in the URL of a request: service.hostname in the one of
\* KubernetesDiscovery, whatever its upstream is, i.upstream in ConsulDiscovery's.
AskedFor(m) == IF provider = "consul" THEN m.upstream ELSE m.hostname

Asked == {AskedFor(m) : m \in Range(Mappings)}

-----------------------------------------------------------------------------
(* One poll *)

\* servers.get(num) with num in 0..end, end the last index, which a range of
\* Rust excludes: the last of several servers is never chosen.
Choosable == 1..(IF ApiServers > 1 THEN ApiServers - 1 ELSE 1)

\* match_path
PathTo(path, servers) == [p \in {path} |-> servers]

\* for_consul: all the servers of the answer.
ConsulList(path, subsets) == PathTo(path, UNION Range(subsets))

\* for_kuber: match_path stores the servers of each subset that has addresses
\* under the path of the mapping, so the last one stays.
KuberList(path, subsets) ==
    LET last == SelectLastInSeq(subsets, LAMBDA s : s # {})
    IN  IF last = 0 THEN NoTable ELSE PathTo(path, subsets[last])

ListOf(m, subsets) ==
    IF provider = "consul" THEN ConsulList(m.path, subsets) ELSE KuberList(m.path, subsets)

\* Inserting the entries of one map into another.
Insert(new, old) ==
    [k \in DOMAIN new \cup DOMAIN old |-> IF k \in DOMAIN new THEN new[k] ELSE old[k]]

\* Mutant: a host that is in the table is replaced.
ListToUpstreamsReplace(tab, m, list) ==
    [h \in DOMAIN tab \cup {m.hostname} |-> IF h = m.hostname THEN list ELSE tab[h]]

\* list_to_upstreams: paths are added to a host that is in the table.
ListToUpstreams(tab, m, list) ==
    [h \in DOMAIN tab \cup {m.hostname} |->
        IF h # m.hostname THEN tab[h]
        ELSE IF h \in DOMAIN tab THEN Insert(list, tab[h]) ELSE list]

\* The table of a poll that asks for all the mappings now.
TableNow ==
    FoldLeft(LAMBDA tab, m : ListToUpstreams(tab, m, ListOf(m, registry[AskedFor(m)])),
             NoTable, Mappings)

\* Mutant: the table is not made anew for a poll.
WakeKeeps ==
    /\ dPc = "sleep"
    /\ server' \in IF provider = "consul" THEN Choosable ELSE {server}
    /\ todo' = Mappings
    /\ dPc' = "poll"
    /\ UNCHANGED <<provider, environment, upstreams, prev, posting, posts,
                   overridden, chan, applied>>

\* A poll begins.  Consul's server is chosen for each, Kubernetes' once.
Wake ==
    /\ dPc = "sleep"
    /\ server' \in IF provider = "consul" THEN Choosable ELSE {server}
    /\ todo' = Mappings /\ upstreams' = NoTable
    /\ dPc' = "poll"
    /\ UNCHANGED <<provider, environment, prev, posting, posts, overridden, chan, applied>>

\* The API server answers for the next mapping.
Poll ==
    /\ dPc = "poll" /\ todo # << >> /\ server \in up
    /\ LET m == Head(todo)
       IN  upstreams' = ListToUpstreams(upstreams, m, ListOf(m, registry[AskedFor(m)]))
    /\ todo' = Tail(todo)
    /\ UNCHANGED <<provider, environment, server, dPc, prev, posting, posts,
                   overridden, chan, applied>>

\* It does not: for_consul and for_kuber return None.
PollFails ==
    /\ dPc = "poll" /\ todo # << >> /\ server \notin up
    /\ todo' = Tail(todo)
    /\ UNCHANGED <<provider, environment, server, upstreams, dPc, prev, posting,
                   posts, overridden, chan, applied>>

\* Mutant: prev_upstreams is not updated.
CompareForgets ==
    /\ dPc = "poll" /\ todo = << >>
    /\ dPc' = IF upstreams = prev THEN "sleep" ELSE "send"
    /\ UNCHANGED <<provider, environment, server, todo, upstreams, prev, posting,
                   posts, overridden, chan, applied>>

\* clone_compare: a table that differs becomes prev_upstreams and is sent.
CloneCompare ==
    /\ dPc = "poll" /\ todo = << >>
    /\ dPc' = IF upstreams = prev THEN "sleep" ELSE "send"
    /\ prev' = upstreams
    /\ UNCHANGED <<provider, environment, server, todo, upstreams, posting, posts,
                   overridden, chan, applied>>

\* toreturn.send waits for room in the channel.
Send ==
    /\ dPc = "send" /\ chan = << >>
    /\ chan' = <<upstreams>>
    /\ overridden' = FALSE
    /\ dPc' = "sleep"
    /\ UNCHANGED <<provider, environment, server, todo, upstreams, prev, posting,
                   posts, applied>>

-----------------------------------------------------------------------------
(* POST /conf, the background task and the registry *)

\* conf spawns apply_config.
Post(tab) ==
    /\ posts < MaxPosts
    /\ posts' = posts + 1
    /\ posting' = posting \union {tab}
    /\ UNCHANGED <<provider, environment, poller, overridden, chan, applied>>

\* config_sender.send
SendPosted(tab) ==
    /\ tab \in posting /\ chan = << >>
    /\ chan' = <<tab>>
    /\ overridden' = TRUE
    /\ posting' = posting \ {tab}
    /\ UNCHANGED <<provider, environment, poller, posts, applied>>

\* The background task receives a configuration and applies it (Reload).
Receive ==
    /\ chan # << >>
    /\ applied' = Head(chan)
    /\ chan' = << >>
    /\ UNCHANGED dVars

\* The endpoints under a name change.
Register(s) ==
    /\ changes < MaxChanges
    /\ \E e \in Endpoints : e # registry[s] /\ registry' = [registry EXCEPT ![s] = e]
    /\ changes' = changes + 1
    /\ UNCHANGED <<provider, up, poller, posting, posts, overridden, chan, applied>>

\* An API server fails or comes back.
Toggle(i) ==
    /\ changes < MaxChanges
    /\ up' = IF i \in up THEN up \ {i} ELSE up \union {i}
    /\ changes' = changes + 1
    /\ UNCHANGED <<provider, registry, poller, posting, posts, overridden, chan, applied>>

\* LB::start has spawned fetch_upstreams, which is about to poll.
Init ==
    /\ provider \in {"consul", "kubernetes"}
    /\ registry \in [Asked -> Endpoints]
    /\ up = 1..ApiServers /\ changes = 0
    /\ server \in Choosable
    /\ todo = Mappings /\ upstreams = NoTable
    /\ dPc = "poll" /\ prev = NoTable
    /\ posting = {} /\ posts = 0
    /\ chan = << >> /\ applied = NoTable
    /\ overridden = FALSE

Next ==
    \/ Wake \/ Poll \/ PollFails \/ CloneCompare \/ Send
    \/ \E tab \in Bodies : Post(tab) \/ SendPosted(tab)
    \/ Receive
    \/ \E s \in Asked : Register(s)
    \/ \E i \in 1..ApiServers : Toggle(i)

Spec == Init /\ [][Next]_vars

\* Requests end (they have a timeout), time passes, tasks run, and senders are
\* served in turn.
Fairness ==
    /\ WF_vars(Wake) /\ WF_vars(Poll \/ PollFails) /\ WF_vars(CloneCompare)
    /\ WF_vars(Receive)
    /\ SF_vars(Send) /\ \A tab \in Bodies : SF_vars(SendPosted(tab))

FairSpec == Spec /\ Fairness

-----------------------------------------------------------------------------
(* Properties *)

\* The values of the channel and of the tables are tables of known hosts.
TypeOK ==
    /\ provider \in {"consul", "kubernetes"}
    /\ registry \in [Asked -> Endpoints] /\ up \subseteq 1..ApiServers
    /\ changes \in 0..MaxChanges /\ posts \in 0..MaxPosts
    /\ server \in 1..ApiServers /\ IsSuffix(todo, Mappings)
    /\ dPc \in {"poll", "send", "sleep"}
    /\ posting \subseteq Bodies
    /\ Len(chan) <= 1 /\ overridden \in BOOLEAN
    /\ DOMAIN prev \subseteq {m.hostname : m \in Range(Mappings)}

\* Between two polls the background task has, or is about to have, the table of
\* the last poll that differed, unless a POST came in between: no difference is
\* lost on the way from prev_upstreams to the tables that are served.
InStep ==
    dPc = "sleep" /\ ~overridden => prev = IF chan = << >> THEN applied ELSE Head(chan)

\* Before anything changed, each mapping that was asked for has servers in the
\* table, and only servers of the name that was asked for, unless a later one
\* has the same host and path: what one mapping added is not lost when the next
\* is.  For Kubernetes that name is the hostname, so two mappings of one host
\* have the same servers, whatever their upstreams are.
EveryMappingKept ==
    LET asked == 1..(Len(Mappings) - Len(todo))
        later(i) == {j \in asked : j > i /\ Mappings[j].hostname = Mappings[i].hostname
                                         /\ Mappings[j].path = Mappings[i].path}
    IN  dPc = "poll" /\ changes = 0 =>
            \A i \in asked :
                LET m == Mappings[i]
                    servers == UNION Range(registry[AskedFor(m)])
                IN  /\ m.hostname \in DOMAIN upstreams
                    /\ servers # {} /\ later(i) = {} =>
                          /\ m.path \in DOMAIN upstreams[m.hostname]
                          /\ upstreams[m.hostname][m.path] \in (SUBSET servers) \ {{}}
=============================================================================
