------------------------------ MODULE Sources -------------------------------
(***************************************************************************)
(* Where configurations come from (LB::start in bgservice.rs).             *)
(*                                                                         *)
(* The file that is loaded at the start names a provider, and the match on *)
(* it starts either the watcher of the file or the discovery.  Only in the *)
(* former case is the configuration sent.  POST /conf, the channel and the *)
(* background task are there in both.                                      *)
(***************************************************************************)
EXTENDS FileWatch

CONSTANTS Mappings, Endpoints, ApiServers, Bodies, MaxChanges, MaxPosts

\* config.services is a list, and so are the subsets of the endpoints.
IsList(s) == s \in Seq({s[i] : i \in DOMAIN s})

ASSUME ListsAssumption == IsList(Mappings) /\ \A e \in Endpoints : IsList(e)
ASSUME ServersAssumption == ApiServers \in Nat \ {0}
ASSUME DiscoveryBoundsAssumption == MaxChanges \in Nat /\ MaxPosts \in Nat

VARIABLES
    provider, registry, up, changes, server, todo, upstreams, dPc, prev,
    posting, posts, overridden

D == INSTANCE Discovery

discovery ==
    <<provider, registry, up, changes, server, todo, upstreams, dPc, prev,
      posting, posts, overridden>>
allVars == <<vars, discovery>>

\* "file": FromFileProvider is started; there is no discovery.
StartFile ==
    /\ Init
    /\ provider = "file"
    /\ registry = << >> /\ up = {} /\ changes = 0
    /\ server = 0 /\ todo = << >> /\ upstreams = << >> /\ dPc = "off" /\ prev = << >>
    /\ posting = {} /\ posts = 0 /\ overridden = FALSE

\* "consul" and "kubernetes": discovery is started; nobody watches the file.
StartDiscovery == WatchInit /\ D!Init

StartInit == StartFile \/ StartDiscovery

FileNext == provider = "file" /\ Next /\ UNCHANGED discovery

DiscoveryNext == provider # "file" /\ D!Next /\ UNCHANGED fVars

StartNext == FileNext \/ DiscoveryNext

\* The fairness of the part that was started.
StartSpec ==
    /\ StartInit /\ [][StartNext]_allVars
    /\ \/ provider = "file" /\ Fairness
       \/ provider # "file" /\ D!Fairness

-----------------------------------------------------------------------------
(* Properties *)

\* Types, and the capacity of the channel.
SourcesTypeOK == IF provider = "file" THEN TypeOK ELSE D!TypeOK

\* A change that is made at a calm moment, by an editor that writes the content
\* at once and before the retries of load_configuration are over, or by a POST
\* that saves, and that no other change follows, becomes the running
\* configuration and stays it, although the save truncates the file first and
\* other files of the directory may change during the save of an editor.
CalmEditApplied ==
    (calm /\ saving = {}) ~> ([](provider = "file" /\ applied = disk) \/ ~calm)

\* No difference that a poll found is lost on its way to the served tables.
InStep == provider # "file" => D!InStep

\* What a poll found for one mapping is not lost when the next is added.
EveryMappingKept == provider # "file" => D!EveryMappingKept

\* When the registry no longer changes and every API server that may be chosen
\* answers, the table of the registry is served in the end, unless a posted one
\* is: polls that failed, and the tables without their services that were
\* applied for them, are made good (README.md: "upstreams will be periodically
\* update from API").
Discovered ==
    <>[](D!Choosable \subseteq up) =>
        <>[](provider = "file" \/ overridden \/ applied = D!TableNow)
=============================================================================
