----------------------------- MODULE CertStore ------------------------------
(***************************************************************************)
(* How certificates in a folder become the ones that TLS handshakes use.   *)
(*                                                                         *)
(* watch_folder sees every change in the folder; when more than a second   *)
(* has passed since it started or since it last did so, it lists the       *)
(* folder and sends the list to the loader, and it drops the event         *)
(* otherwise.  The loader (a thread of run) reads every pair of the list   *)
(* and replaces the whole set if all of them load, and keeps the old set   *)
(* if one does not.  A renewal writes the certificate, then the key (order *)
(* does, and so does an administrator who copies both files).              *)
(*                                                                         *)
(* A file is the version it belongs to, Absent, or Torn between the        *)
(* truncation and the write of fs::write.  The second is a flag that the   *)
(* passing of time sets.  The model starts when the first set has been     *)
(* loaded.  The names in a certificate do not change when it is renewed,   *)
(* nor does the type of its key: OpenSSL then refuses a key that does not  *)
(* belong to the certificate (one of another type it would accept).        *)
(***************************************************************************)
EXTENDS Naturals, Sequences, SequencesExt

CONSTANTS
    Names,      \* base names of the pairs, <name>.crt and <name>.key
    Order,      \* the order in which read_dir returns them
    CommonNames,\* per name, the common names of its certificate
    AltNames,   \* per name, the alternative names that are not among them
    ServerNames,\* names that clients ask for, sequences of labels
    Present,    \* those that exist at start
    MaxChanges, \* bound: renewals and removals
    MaxNoise    \* bound: changes of other files in the folder

ASSUME OrderAssumption == Order \in Seq(Names) /\ Range(Order) = Names
ASSUME LabelsAssumption ==
    \A name \in ServerNames \cup UNION {CommonNames[n] \cup AltNames[n] : n \in Names} :
        name \in Seq(Range(name))
ASSUME PresentAssumption == Present \subseteq Names /\ Present # {}
ASSUME BoundsAssumption == MaxChanges \in Nat /\ MaxNoise \in Nat

VARIABLES
    crt, key,   \* per name, the two files
    wr,         \* per name, what is left of the change under way
    changes,    \* changes so far
    noise,      \* changes of other files so far
    events,     \* events on their way to the watcher
    cooled,     \* start.elapsed() > 1 s
    queue,      \* lists sent to the loader
    ldPc,       \* loader: "idle", "crt", "chain", "key", or "dead" after a panic
    ldLeft,     \* names of the list it has still to load
    ldAt,       \* the name it is loading, and the certificate it read
    ldSet,      \* what it has loaded
    served,     \* the set in use: name -> version
    removed,    \* history: names whose certificate was removed at some time
    calm        \* history: the last event came at a calm moment

files == <<crt, key, wr, changes, removed>>
watcher == <<events, cooled>>
loader == <<ldPc, ldLeft, ldAt, ldSet>>
vars == <<files, noise, watcher, queue, loader, served, calm>>

Absent == 0
Torn == MaxChanges + 2
Versions == 1..(MaxChanges + 1)
Empty == [n \in {} |-> 0]

\* The files of a name that listdir finds.
Listed == {n \in Names : crt[n] # Absent}

\* What should be in use when nothing changes any more.
Folder == [n \in Listed |-> crt[n]]

\* The watcher would act on an event now, nothing is under way, and every pair
\* is complete in the files f and g.
CalmMoment(f, g) ==
    /\ cooled /\ events = 0 /\ queue = << >> /\ ldPc = "idle"
    /\ \A n \in Names : f[n] = g[n] /\ f[n] # Torn

-----------------------------------------------------------------------------
(* Changes of the folder *)

Begin(n) ==
    /\ changes < MaxChanges /\ wr[n] = << >>
    /\ changes' = changes + 1
    /\ events' = events + 1
    /\ calm' = FALSE
    /\ UNCHANGED <<noise, cooled, queue, loader, served>>

\* fs::write(crt), fs::write(key): each truncates and then writes.
Renew(n) ==
    /\ Begin(n)
    /\ crt' = [crt EXCEPT ![n] = Torn]
    /\ wr' = [wr EXCEPT ![n] = LET v == changes + 2
                               IN  << <<"crt", v>>, <<"key", Torn>>, <<"key", v>> >>]
    /\ UNCHANGED <<key, removed>>

RemovePair(n) ==
    /\ Begin(n) /\ crt[n] # Absent
    /\ crt' = [crt EXCEPT ![n] = Absent]
    /\ wr' = [wr EXCEPT ![n] = << <<"key", Absent>> >>]
    /\ removed' = removed \cup {n}
    /\ UNCHANGED key

\* The next step of a change under way.
Continue(n) ==
    /\ wr[n] # << >>
    /\ LET file == Head(wr[n])[1]
           v == Head(wr[n])[2]
       IN  /\ crt' = IF file = "crt" THEN [crt EXCEPT ![n] = v] ELSE crt
           /\ key' = IF file = "key" THEN [key EXCEPT ![n] = v] ELSE key
    /\ wr' = [wr EXCEPT ![n] = Tail(@)]
    /\ events' = events + 1
    /\ calm' = CalmMoment(crt', key')
    /\ UNCHANGED <<changes, removed, noise, cooled, queue, loader, served>>

\* Another file of the folder changes.
Touch ==
    /\ noise < MaxNoise
    /\ noise' = noise + 1
    /\ events' = events + 1
    /\ calm' = (calm \/ CalmMoment(crt, key))
    /\ UNCHANGED <<files, cooled, queue, loader, served>>

\* More than a second since the last list.
Cool ==
    /\ ~cooled
    /\ cooled' = TRUE
    /\ UNCHANGED <<files, noise, events, queue, loader, served, calm>>

-----------------------------------------------------------------------------
(* watch_folder *)

\* listdir, and the list is sent.
Handle ==
    /\ events > 0 /\ cooled
    /\ events' = events - 1
    /\ cooled' = FALSE
    /\ queue' = Append(queue, Listed)
    /\ UNCHANGED <<files, noise, loader, served, calm>>

\* An event soon after a list is dropped; nothing reads the folder later.
Drop ==
    /\ events > 0 /\ ~cooled
    /\ events' = events - 1
    /\ UNCHANGED <<files, noise, cooled, queue, loader, served, calm>>

-----------------------------------------------------------------------------
(* The loader *)

\* rx.recv and Certificates::new, which expects at least one certificate.
LdRecv ==
    /\ ldPc = "idle" /\ queue # << >>
    /\ queue' = Tail(queue)
    /\ ldPc' = IF Head(queue) = {} THEN "dead" ELSE "crt"
    /\ ldLeft' = Head(queue)
    /\ ldSet' = Empty
    /\ UNCHANGED <<files, noise, watcher, ldAt, served, calm>>

\* load_cert_info reads the names in a certificate; if it cannot, new returns
\* None.
LdCrt(n) ==
    /\ ldPc = "crt" /\ n \in ldLeft
    /\ ldPc' = IF crt[n] \in Versions THEN "chain" ELSE "idle"
    /\ ldAt' = <<n, crt[n]>>
    /\ UNCHANGED <<files, noise, watcher, queue, ldLeft, ldSet, served, calm>>

\* Mutant: a certificate that is gone or torn by now passes.
LdChainAny ==
    /\ ldPc = "chain"
    /\ ldPc' = "key"
    /\ ldAt' = <<ldAt[1], crt[ldAt[1]]>>
    /\ UNCHANGED <<files, noise, watcher, queue, ldLeft, ldSet, served, calm>>

\* create_ssl_context opens the certificate a second time, for the context.
LdChain ==
    /\ ldPc = "chain"
    /\ ldPc' = IF crt[ldAt[1]] \in Versions THEN "key" ELSE "idle"
    /\ ldAt' = <<ldAt[1], crt[ldAt[1]]>>
    /\ UNCHANGED <<files, noise, watcher, queue, ldLeft, ldSet, served, calm>>

Keep(n, v) == ldSet' = [m \in DOMAIN ldSet \cup {n} |-> IF m = n THEN v ELSE ldSet[m]]

\* Then it reads the key, which has to fit.
LdKey ==
    /\ ldPc = "key"
    /\ key[ldAt[1]] = ldAt[2]
    /\ Keep(ldAt[1], ldAt[2])
    /\ ldLeft' = ldLeft \ {ldAt[1]}
    /\ ldPc' = "crt"
    /\ UNCHANGED <<files, noise, watcher, queue, ldAt, served, calm>>

\* Mutant: a pair that does not load is left out.
LdFailSkip ==
    /\ ldPc = "key"
    /\ key[ldAt[1]] # ldAt[2]
    /\ ldLeft' = ldLeft \ {ldAt[1]}
    /\ ldPc' = "crt"
    /\ UNCHANGED <<files, noise, watcher, queue, ldAt, ldSet, served, calm>>

\* Mutant: a load that fails goes back to the first set.
LdFailFirst ==
    /\ ldPc = "key"
    /\ key[ldAt[1]] # ldAt[2]
    /\ ldPc' = "idle"
    /\ served' = [n \in Present |-> 1]
    /\ UNCHANGED <<files, noise, watcher, queue, ldLeft, ldAt, ldSet, calm>>

\* Otherwise new returns None, and the set in use stays.
LdFail ==
    /\ ldPc = "key"
    /\ key[ldAt[1]] # ldAt[2]
    /\ ldPc' = "idle"
    /\ UNCHANGED <<files, noise, watcher, queue, ldLeft, ldAt, ldSet, served, calm>>

\* Mutant: the set in use is extended.
LdStoreMerge ==
    /\ ldPc = "crt" /\ ldLeft = {}
    /\ served' = [n \in DOMAIN ldSet \cup DOMAIN served |->
                    IF n \in DOMAIN served THEN served[n] ELSE ldSet[n]]
    /\ ldPc' = "idle"
    /\ UNCHANGED <<files, noise, watcher, queue, ldLeft, ldAt, ldSet, calm>>

\* certs_for_watcher.store
LdStore ==
    /\ ldPc = "crt" /\ ldLeft = {}
    /\ served' = ldSet
    /\ ldPc' = "idle"
    /\ UNCHANGED <<files, noise, watcher, queue, ldLeft, ldAt, ldSet, calm>>

-----------------------------------------------------------------------------
(* Handshakes *)

NamesOf(n) == CommonNames[n] \cup AltNames[n]

\* configs: the places in the list of the certificates that were loaded from it.
Configs == {i \in DOMAIN Order : Order[i] \in DOMAIN served}

\* Mutant: only common names are entered.
NameMapCommon ==
    [name \in UNION {CommonNames[Order[i]] : i \in Configs} |->
        Order[Max({i \in Configs : name \in CommonNames[Order[i]]})]]

\* name_map: a later certificate replaces an earlier one of the same name.
NameMap ==
    [name \in UNION {NamesOf(Order[i]) : i \in Configs} |->
        Order[Max({i \in Configs : name \in NamesOf(Order[i])})]]

\* name.starts_with("*.") && server_name.ends_with(&name[1..]), which any
\* number of labels may precede.
WildMatch(name, srv) ==
    /\ Len(name) > 1 /\ Head(name) = "*"
    /\ Len(srv) >= Len(name) /\ IsSuffix(Tail(name), srv)

\* find_ssl_context: the pair whose context is used, or nothing, for which the
\* connection keeps the context of the listener.
FindSslContext(srv) ==
    LET wild == {i \in Configs : \E name \in NamesOf(Order[i]) : WildMatch(name, srv)}
    IN  IF srv \in DOMAIN NameMap THEN {NameMap[srv]}
        ELSE IF wild # {} THEN {Order[Min(wild)]} ELSE {}

-----------------------------------------------------------------------------
Init ==
    /\ crt = [n \in Names |-> IF n \in Present THEN 1 ELSE Absent]
    /\ key = crt
    /\ wr = [n \in Names |-> << >>]
    /\ changes = 0 /\ noise = 0
    /\ events = 0 /\ cooled = FALSE
    /\ queue = << >>
    /\ ldPc = "idle" /\ ldLeft = {} /\ ldAt = << >> /\ ldSet = Empty
    /\ served = [n \in Present |-> 1]
    /\ removed = {} /\ calm = FALSE

Load == LdRecv \/ LdChain \/ LdKey \/ LdFail \/ LdStore \/ \E n \in Names : LdCrt(n)

Next ==
    \/ \E n \in Names : Renew(n) \/ RemovePair(n) \/ Continue(n)
    \/ Touch \/ Cool
    \/ Handle \/ Drop
    \/ Load

Spec == Init /\ [][Next]_vars

\* A change that began ends, time passes, and the two threads run.
Fairness ==
    /\ \A n \in Names : WF_vars(Continue(n))
    /\ WF_vars(Cool) /\ WF_vars(Handle \/ Drop) /\ WF_vars(Load)

FairSpec == Spec /\ Fairness

-----------------------------------------------------------------------------
(* Properties *)

Partial == UNION {[D -> Versions] : D \in SUBSET Names}

\* Types of the variables.
TypeOK ==
    /\ crt \in [Names -> Versions \cup {Absent, Torn}]
    /\ key \in [Names -> Versions \cup {Absent, Torn}]
    /\ wr \in [Names -> Seq({"crt", "key"} \X (Versions \cup {Absent, Torn}))]
    /\ changes \in 0..MaxChanges /\ noise \in 0..MaxNoise
    /\ events \in Nat /\ cooled \in BOOLEAN
    /\ queue \in Seq(SUBSET Names)
    /\ ldPc \in {"idle", "crt", "chain", "key", "dead"} /\ ldLeft \in SUBSET Names
    /\ ldSet \in Partial /\ served \in Partial
    /\ removed \in SUBSET Names /\ calm \in BOOLEAN

\* A certificate that is being replaced, or whose key is not there yet, never
\* costs a name its certificate, nor any other name: what is served for a name
\* is dropped only if the certificate was removed (Certificates::new gives up
\* the whole set when one pair does not load).
KeepsServing ==
    [][\A n \in DOMAIN served : n \in DOMAIN served' \/ n \in removed]_vars

\* What is served never goes back to an older certificate of the same name,
\* although a list may be loaded long after it was made and the files change
\* while they are read.
NeverOlder ==
    [][\A n \in DOMAIN served : n \in DOMAIN served' => served'[n] >= served[n]]_vars

\* name is a wildcard for what srv is without its first k labels.
WildFor(name, srv, k) ==
    /\ Len(name) > 1 /\ Head(name) = "*"
    /\ SubSeq(srv, k + 1, Len(srv)) = Tail(name)

\* What a client takes the certificate of n to be for: its very names, and one
\* label in the place of the star of a wildcard.
Covers(n, srv) ==
    \E name \in NamesOf(n) : name = srv \/ WildFor(name, srv, 1)

\* The certificate of n has a wildcard of a domain further up.
CoversAbove(n, srv) ==
    \E name \in NamesOf(n), k \in 2..Len(srv) : WildFor(name, srv, k)

\* A handshake for a name gets a certificate with that very name if one is in
\* use, and some certificate if any in use covers the name; and the one it gets
\* covers the name, unless there is one in use with a wildcard of a domain
\* further up.  That one find_ssl_context may choose, in the order of the list,
\* also before a certificate that covers the name.
HandshakeCovered ==
    \A srv \in ServerNames :
        LET able == {n \in DOMAIN served : Covers(n, srv)}
            exact == {n \in able : srv \in NamesOf(n)}
            above == {n \in DOMAIN served : CoversAbove(n, srv)}
            found == FindSslContext(srv)
        IN  /\ able # {} => found # {}
            /\ exact # {} => found \subseteq exact
            /\ found \subseteq able \cup above

\* An event at a calm moment, with every pair complete, brings the whole folder
\* into use, unless the folder changes again or is empty (and the loader dies).
CalmLoaded == calm ~> (served = Folder \/ ~calm \/ ldPc = "dead")

\* In the end, if the folder is not empty, the certificates in use are those in
\* the folder (README.md: "Automatically loads new/changed certificates from a
\* folder, without a restart").
FolderServed == <>[](served = Folder \/ ldPc = "dead")
=============================================================================
