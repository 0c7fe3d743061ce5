-------------------------------- MODULE Acme --------------------------------
(***************************************************************************)
(* Ordering and renewing certificates (order.rs, account.rs, web/acme.rs). *)
(*                                                                         *)
(* refresh_order visits DOMAINS every 12 hours and orders what is due, the *)
(* API orders on request, and a reload of upstreams.yaml inserts the names *)
(* of domains.json into DOMAINS.  All of them, and the handler that shows  *)
(* the authority its tokens, share the one thread of the background        *)
(* service: an action is what a task does from one await to the next, and  *)
(* a lock that is not free stops the thread for good.                      *)
(*                                                                         *)
(* DOMAINS is a sharded map.  Its iterator keeps the read guard of the     *)
(* shard it is in, also while an order of that shard is awaited; an insert *)
(* needs the shard's write guard.                                          *)
(*                                                                         *)
(* A file that is missing and a file that was cut off are read alike (as   *)
(* nothing), so both are the value that stands for nothing.  The token of  *)
(* an order is the task that placed it.  Both files of a pair come from    *)
(* the order's own new KeyPair, so the pair an order leaves fits.          *)
(*                                                                         *)
(* order() writes domains.json into autoconfigs of proxy_configs, and      *)
(* load_configuration reads it from autoconfigs beside upstreams_conf:     *)
(* main.yaml may have these in one directory or in two.                    *)
(***************************************************************************)
EXTENDS Naturals, FiniteSets

CONSTANTS
    Domains,    \* names a certificate may be ordered for
    NoDomain,   \* none of them: an account is asked for, not a certificate
    Handlers,   \* tasks that run acme_order or acme_create
    Refresher,  \* the task of refresh_order
    Shards,     \* number of shards of DOMAINS
    Hashes,     \* the ways names may be spread over them
    OneDir,     \* whether proxy_configs is the directory of upstreams_conf
    MaxOrders,  \* bound: requests to the API
    MaxFaults   \* bound: crashes, failed writes and failed calls

ASSUME ShardAssumption == Shards \in Nat /\ Hashes \subseteq [Domains -> 1..Shards]
ASSUME TaskAssumption == Refresher \notin Handlers /\ NoDomain \notin Domains
ASSUME DirAssumption == OneDir \in BOOLEAN
ASSUME BoundsAssumption == {MaxOrders, MaxFaults} \subseteq Nat

VARIABLES
    domains,     \* DOMAINS
    domainsFile, \* domains.json as order() writes it, under proxy_configs
    challenges,  \* CHALLENGES
    account,     \* ACCOUNT, 0 when not set
    credsFile,   \* autoconfigs/acme_credentials.json, 0 when it holds none
    accounts,    \* accounts made at the authority so far
    crt,         \* per name, the certificate file: "none", "due" or "fresh"
    fits,        \* per name, whether the key file belongs to it
    task,        \* per task, [pc, dom, acct, ca, cleared]
    hash,        \* the shard of each name; the hasher is seeded at random
    shard,       \* the shard refresh_order iterates over
    left,        \* its names not yet visited
    blocked,     \* the thread waits for a guard that its own task holds
    reload,      \* a reload of upstreams.yaml is wanted
    used,        \* what was used up of the bounds
    namesLost,   \* history: a write of domains.json failed or was cut off
    credsLost,   \* history: so did one of the credentials
    raced        \* history: two tasks created an account at the same time

files == <<domainsFile, credsFile, crt, fits>>
memory == <<domains, challenges, account>>
iter == <<hash, shard, left>>
history == <<namesLost, credsLost, raced>>
vars == <<files, memory, accounts, task, iter, blocked, reload, used, history>>

Tasks == Handlers \union {Refresher}

\* The thread is free to run a task that is ready: refresh_order, which has no
\* await between two names whose certificates are fresh, is not running.
Free == ~blocked /\ task[Refresher].pc # "loop"

\* The shard whose read guard refresh_order holds while its order is awaited.
Guarded == IF task[Refresher].pc \in {"loop", "sleep"} THEN {} ELSE {shard}

\* What load_configuration finds in domains.json.  In a directory that is not
\* proxy_configs nobody writes one.
LoadedNames == IF OneDir THEN domainsFile ELSE {}

\* A fault may still happen.
MayFail == used.faults < MaxFaults
Fault == used' = [used EXCEPT !.faults = @ + 1]

\* A task that has nothing to do, and one whose order is over.
Ready(pc) == [pc |-> pc, dom |-> NoDomain, acct |-> 0, ca |-> "none", cleared |-> FALSE]
Done(t) == Ready(IF t = Refresher THEN "loop" ELSE "idle")
End(t) == task' = [task EXCEPT ![t] = Done(t)]

\* At an await of order or of get_account.
Waiting(t) == task[t].pc \in {"restore", "create", "order", "ready"}

-----------------------------------------------------------------------------
(* get_account *)

\* get_account has returned a: new_order is called, or the API is answered.
GotAccount(t, d, a) ==
    IF d = NoDomain THEN Done(t)
    ELSE [Ready("order") EXCEPT !.dom = d, !.acct = a]

\* get_account up to its first await, for an order of d or for the API.
GetAccount(t, d) ==
    IF account # 0 THEN GotAccount(t, d, account)
    ELSE [Ready(IF credsFile # 0 THEN "restore" ELSE "create")
             EXCEPT !.dom = d, !.acct = credsFile]

\* ACCOUNT.set keeps the first value.
SetAccount(a) == account' = IF account = 0 THEN a ELSE account

\* The account of the credentials file is loaded.
Restored(t) ==
    /\ Free /\ task[t].pc = "restore"
    /\ SetAccount(task[t].acct)
    /\ task' = [task EXCEPT ![t] = GotAccount(t, @.dom, account')]
    /\ UNCHANGED <<files, domains, challenges, accounts, iter, blocked, reload,
                   used, history>>

\* Mutant: create_account returns the account it made.
CreatedOwn(t) ==
    /\ Free /\ task[t].pc = "create"
    /\ accounts' = accounts + 1
    /\ credsFile' = accounts'
    /\ SetAccount(accounts')
    /\ task' = [task EXCEPT ![t] = GotAccount(t, @.dom, accounts')]
    /\ raced' = (raced \/ \E u \in Tasks \ {t} : task[u].pc = "create")
    /\ UNCHANGED <<domainsFile, crt, fits, domains, challenges, iter, blocked,
                   reload, used, namesLost, credsLost>>

\* An account is created: its credentials are saved, then it is set.
Created(t) ==
    /\ Free /\ task[t].pc = "create"
    /\ accounts' = accounts + 1
    /\ credsFile' = accounts'
    /\ SetAccount(accounts')
    /\ task' = [task EXCEPT ![t] = GotAccount(t, @.dom, account')]
    /\ raced' = (raced \/ \E u \in Tasks \ {t} : task[u].pc = "create")
    /\ UNCHANGED <<domainsFile, crt, fits, domains, challenges, iter, blocked,
                   reload, used, namesLost, credsLost>>

\* save_credentials fails: the account is lost.
SaveFails(t) ==
    /\ Free /\ MayFail /\ task[t].pc = "create"
    /\ accounts' = accounts + 1
    /\ credsFile' \in {credsFile, 0}
    /\ credsLost' = TRUE
    /\ End(t) /\ Fault
    /\ UNCHANGED <<domainsFile, crt, fits, memory, iter, blocked, reload,
                   namesLost, raced>>

\* The API is asked for an account (acme_create).
AskAccount(h) ==
    /\ Free /\ task[h].pc = "idle"
    /\ used.orders < MaxOrders
    /\ used' = [used EXCEPT !.orders = @ + 1]
    /\ task' = [task EXCEPT ![h] = GetAccount(h, NoDomain)]
    /\ UNCHANGED <<files, memory, accounts, iter, blocked, reload, history>>

-----------------------------------------------------------------------------
(* order *)

\* order after the registration: a fresh certificate is not renewed.
Checked(t, d) == IF crt[d] = "fresh" THEN Done(t) ELSE GetAccount(t, d)

\* The API is asked for a certificate of d (acme_order), ...
Ask(h) ==
    /\ Free /\ task[h].pc = "idle"
    /\ used.orders < MaxOrders

\* ... which is known, ...
AskKnown(h, d) ==
    /\ Ask(h) /\ d \in domains
    /\ used' = [used EXCEPT !.orders = @ + 1]
    /\ task' = [task EXCEPT ![h] = Checked(h, d)]
    /\ UNCHANGED <<files, memory, accounts, iter, blocked, reload, history>>

\* Mutant: the list is made before the name is inserted.
AskNewLate(h, d) ==
    /\ Ask(h) /\ d \notin domains /\ hash[d] \notin Guarded
    /\ used' = [used EXCEPT !.orders = @ + 1]
    /\ domains' = domains \union {d}
    /\ domainsFile' = domains
    /\ task' = [task EXCEPT ![h] = Checked(h, d)]
    /\ UNCHANGED <<credsFile, crt, fits, challenges, account, accounts, iter,
                   blocked, reload, history>>

\* ... or new: it is inserted and the list of names is written, ...
AskNew(h, d) ==
    /\ Ask(h) /\ d \notin domains /\ hash[d] \notin Guarded
    /\ used' = [used EXCEPT !.orders = @ + 1]
    /\ domains' = domains \union {d}
    /\ domainsFile' = domains'
    /\ task' = [task EXCEPT ![h] = Checked(h, d)]
    /\ UNCHANGED <<credsFile, crt, fits, challenges, account, accounts, iter,
                   blocked, reload, history>>

\* ... the write may fail, which ends the order, ...
AskNewFails(h, d) ==
    /\ Ask(h) /\ MayFail /\ d \notin domains /\ hash[d] \notin Guarded
    /\ used' = [used EXCEPT !.orders = @ + 1, !.faults = @ + 1]
    /\ domains' = domains \union {d}
    /\ domainsFile' \in {domainsFile, {}}
    /\ namesLost' = TRUE
    /\ UNCHANGED <<credsFile, crt, fits, challenges, account, accounts, task,
                   iter, blocked, reload, credsLost, raced>>

\* ... and the insert waits for ever while refresh_order is in its shard.
AskNewBlocks(h, d) ==
    /\ Ask(h) /\ d \notin domains /\ hash[d] \in Guarded
    /\ used' = [used EXCEPT !.orders = @ + 1]
    /\ blocked' = TRUE
    /\ UNCHANGED <<files, memory, accounts, task, iter, reload, history>>

\* Mutant: the authority is told before the token can be shown.
OrderedEarly(t) ==
    /\ Free /\ task[t].pc = "order"
    /\ task' = [task EXCEPT ![t].pc = "ready", ![t].ca = "pending"]
    /\ UNCHANGED <<files, memory, accounts, iter, blocked, reload, used, history>>

\* new_order and the authorization have come: the token is stored, then the
\* authority is told (set_ready).
Ordered(t) ==
    /\ Free /\ task[t].pc = "order"
    /\ challenges' = challenges \union {t}
    /\ task' = [task EXCEPT ![t].pc = "ready", ![t].ca = "pending"]
    /\ UNCHANGED <<files, domains, account, accounts, iter, blocked, reload,
                   used, history>>

\* The authority asks http01_challenge for the token.
Validate(t) ==
    /\ Free /\ task[t].ca = "pending"
    /\ task' = [task EXCEPT ![t].ca = IF t \in challenges THEN "valid" ELSE "invalid"]
    /\ UNCHANGED <<files, memory, accounts, iter, blocked, reload, used, history>>

\* poll_ready returns also when the order is invalid; finalize_csr is refused.
Refused(t) ==
    /\ Free /\ task[t].ca = "invalid"
    /\ End(t)
    /\ UNCHANGED <<files, memory, accounts, iter, blocked, reload, used, history>>

\* The tokens of all the orders are cleared when one has its certificate.
ClearTokens(t) ==
    /\ challenges' = {}
    /\ task' = [u \in Tasks |->
                   IF u = t THEN Done(t)
                   ELSE [task[u] EXCEPT !.cleared = @ \/ task[u].pc = "ready"]]

\* poll_ready, finalize_csr and poll_certificate return: both files are written
\* without an await, the certificate of the KeyPair made after poll_ready and
\* that key itself.
Install(t) ==
    /\ Free /\ task[t].ca = "valid"
    /\ ClearTokens(t)
    /\ crt' = [crt EXCEPT ![task[t].dom] = "fresh"]
    /\ fits' = [fits EXCEPT ![task[t].dom] = TRUE]
    /\ UNCHANGED <<domainsFile, credsFile, domains, account, accounts, iter,
                   blocked, reload, used, history>>

\* What a write that fails, or that a crash cuts off, leaves of the pair of d:
\* the old pair, no certificate, or a new one beside a key that is not its own.
HalfInstalled(d) ==
    \/ UNCHANGED <<crt, fits>>
    \/ /\ crt' \in {[crt EXCEPT ![d] = c] : c \in {"none", "fresh"}}
       /\ fits' = [fits EXCEPT ![d] = FALSE]

\* One of the two writes fails.
InstallFails(t) ==
    /\ Free /\ MayFail /\ task[t].ca = "valid"
    /\ ClearTokens(t)
    /\ HalfInstalled(task[t].dom)
    /\ Fault
    /\ UNCHANGED <<domainsFile, credsFile, domains, account, accounts, iter,
                   blocked, reload, history>>

\* A call to the authority fails or times out: order and get_account return.
CallFails(t) ==
    /\ Free /\ MayFail /\ Waiting(t)
    /\ End(t) /\ Fault
    /\ UNCHANGED <<files, memory, accounts, iter, blocked, reload, history>>

\* The client of the API goes away: its handler is dropped at an await.
Cancel(h) ==
    /\ Free /\ Waiting(h)
    /\ End(h)
    /\ UNCHANGED <<files, memory, accounts, iter, blocked, reload, used, history>>

-----------------------------------------------------------------------------
(* refresh_order *)

\* Mutant: the names are listed without regard to the shard.
NextShardAll ==
    /\ ~blocked /\ task[Refresher].pc = "loop"
    /\ left = {} /\ shard < Shards
    /\ shard' = shard + 1
    /\ left' = domains
    /\ UNCHANGED <<files, memory, accounts, task, hash, blocked, reload, used,
                   history>>

\* The iterator takes the guard of the next shard.
NextShard ==
    /\ ~blocked /\ task[Refresher].pc = "loop"
    /\ left = {} /\ shard < Shards
    /\ shard' = shard + 1
    /\ left' = {d \in domains : hash[d] = shard'}
    /\ UNCHANGED <<files, memory, accounts, task, hash, blocked, reload, used,
                   history>>

\* Mutant: only names without a certificate are ordered.
VisitMissing(d) ==
    /\ ~blocked /\ task[Refresher].pc = "loop" /\ d \in left
    /\ left' = left \ {d}
    /\ task' = [task EXCEPT ![Refresher] =
                   IF crt[d] = "none" THEN Checked(Refresher, d) ELSE @]
    /\ UNCHANGED <<files, memory, accounts, hash, shard, blocked, reload, used, history>>

\* order of the next name, which is in DOMAINS.
Visit(d) ==
    /\ ~blocked /\ task[Refresher].pc = "loop" /\ d \in left
    /\ left' = left \ {d}
    /\ task' = [task EXCEPT ![Refresher] = Checked(Refresher, d)]
    /\ UNCHANGED <<files, memory, accounts, hash, shard, blocked, reload, used, history>>

\* The iterator ends; twelve hours later the next round begins.
EndRound ==
    /\ ~blocked /\ task[Refresher].pc = "loop"
    /\ left = {} /\ shard = Shards
    /\ shard' = 0
    /\ task' = [task EXCEPT ![Refresher] = Ready("sleep")]
    /\ UNCHANGED <<files, memory, accounts, hash, left, blocked, reload, used, history>>

Wake ==
    /\ Free /\ task[Refresher].pc = "sleep"
    /\ task' = [task EXCEPT ![Refresher] = Ready("loop")]
    /\ UNCHANGED <<files, memory, accounts, iter, blocked, reload, used, history>>

-----------------------------------------------------------------------------
(* Reloads, time and crashes *)

\* upstreams.yaml is saved.
WantReload ==
    /\ ~reload /\ reload' = TRUE
    /\ UNCHANGED <<files, memory, accounts, task, iter, blocked, used, history>>

\* load_configuration inserts the names of domains.json.
LoadDomains ==
    /\ Free /\ reload
    /\ \A d \in LoadedNames : hash[d] \notin Guarded
    /\ domains' = domains \union LoadedNames
    /\ reload' = FALSE
    /\ UNCHANGED <<files, challenges, account, accounts, task, iter, blocked,
                   used, history>>

\* It waits for ever when refresh_order is in the shard of one of them.
LoadBlocks ==
    /\ Free /\ reload
    /\ \E d \in LoadedNames : hash[d] \in Guarded
    /\ blocked' = TRUE
    /\ UNCHANGED <<files, memory, accounts, task, iter, reload, used, history>>

\* A certificate has thirty days left.
Age(d) ==
    /\ crt[d] = "fresh"
    /\ crt' = [crt EXCEPT ![d] = "due"]
    /\ UNCHANGED <<domainsFile, credsFile, fits, memory, accounts, task, iter,
                   blocked, reload, used, history>>

\* The process starts: LB::start loads the names, then spawns refresh_order.
Start ==
    /\ domains' = LoadedNames' /\ challenges' = {} /\ account' = 0
    /\ task' = [t \in Tasks |-> Done(t)]
    /\ hash' \in Hashes /\ shard' = 0 /\ left' = {}
    /\ blocked' = FALSE /\ reload' = FALSE

\* The process is restarted after a crash, ...
Crash ==
    /\ MayFail
    /\ UNCHANGED <<files, accounts, history>>
    /\ Start /\ Fault

\* ... which may have cut off the write of a file that was under way.
CrashWriting(t) ==
    /\ Free /\ MayFail
    /\ \/ /\ task[t].pc = "idle" /\ used.orders < MaxOrders
          /\ \E d \in Domains \ domains : hash[d] \notin Guarded
          /\ domainsFile' = {} /\ namesLost' = TRUE
          /\ UNCHANGED <<credsFile, crt, fits, credsLost>>
       \/ /\ task[t].pc = "create"
          /\ credsFile' = 0 /\ credsLost' = TRUE
          /\ UNCHANGED <<domainsFile, crt, fits, namesLost>>
       \/ /\ task[t].ca = "valid"
          /\ HalfInstalled(task[t].dom)
          /\ UNCHANGED <<domainsFile, credsFile, namesLost, credsLost>>
    /\ Start /\ Fault
    /\ UNCHANGED <<accounts, raced>>

\* A start with names of an earlier life, whose certificates are to be ordered.
Init ==
    /\ domainsFile \in SUBSET Domains /\ domains = LoadedNames
    /\ challenges = {}
    /\ account = 0 /\ credsFile = 0 /\ accounts = 0
    /\ crt = [d \in Domains |-> "none"] /\ fits = [d \in Domains |-> FALSE]
    /\ task = [t \in Tasks |-> Done(t)]
    /\ hash \in Hashes /\ shard = 0 /\ left = {}
    /\ blocked = FALSE /\ reload = FALSE
    /\ used = [orders |-> 0, faults |-> 0]
    /\ namesLost = FALSE /\ credsLost = FALSE /\ raced = FALSE

\* An answer of the authority that lets a task go on.
Answer(t) ==
    Restored(t) \/ Created(t) \/ Ordered(t) \/ Refused(t) \/ Install(t)

Refresh == NextShard \/ EndRound \/ Wake \/ \E d \in Domains : Visit(d)

Next ==
    \/ \E h \in Handlers :
          \/ AskAccount(h) \/ Cancel(h)
          \/ \E d \in Domains :
                AskKnown(h, d) \/ AskNew(h, d) \/ AskNewFails(h, d) \/ AskNewBlocks(h, d)
    \/ \E t \in Tasks :
          \/ Answer(t) \/ Validate(t)
          \/ SaveFails(t) \/ InstallFails(t) \/ CallFails(t) \/ CrashWriting(t)
    \/ Refresh
    \/ WantReload \/ LoadDomains \/ LoadBlocks
    \/ \E d \in Domains : Age(d)
    \/ Crash

Spec == Init /\ [][Next]_vars

\* The authority answers and validates, the thread runs every ready task in
\* turn, a reload that is wanted is begun, and certificates grow old.  Strong,
\* because a task does not run while another does.
Fairness ==
    /\ \A t \in Tasks : SF_vars(Answer(t)) /\ SF_vars(Validate(t))
    /\ WF_vars(Refresh)
    /\ \A d \in Domains : WF_vars(Age(d))
    /\ SF_vars(LoadDomains \/ LoadBlocks)

FairSpec == Spec /\ Fairness

-----------------------------------------------------------------------------
(* Properties *)

\* Types of the variables.  refresh_order visits names it knows, of its shard.
TypeOK ==
    /\ domains \subseteq Domains /\ domainsFile \subseteq Domains
    /\ challenges \subseteq Tasks
    /\ accounts \in Nat /\ {account, credsFile} \subseteq 0..accounts
    /\ crt \in [Domains -> {"none", "due", "fresh"}] /\ fits \in [Domains -> BOOLEAN]
    /\ task \in [Tasks ->
          [pc : {"idle", "restore", "create", "order", "ready", "loop", "sleep"},
           dom : Domains \union {NoDomain}, acct : 0..accounts,
           ca : {"none", "pending", "valid", "invalid"}, cleared : BOOLEAN]]
    /\ hash \in Hashes /\ shard \in 0..Shards
    /\ left \subseteq {d \in domains : hash[d] = shard}
    /\ {blocked, reload, namesLost, credsLost, raced} \subseteq BOOLEAN
    /\ used \in [orders : 0..MaxOrders, faults : 0..MaxFaults]

\* Every name in DOMAINS is in the list order() wrote, and where that is the
\* list load_configuration reads, every name that ever got a certificate is in
\* DOMAINS again after a restart and is renewed, unless a write of the list
\* itself failed or was cut off.  With the two settings in different directories
\* a restart forgets the names, and only the first half holds.
DomainsRemembered ==
    \/ namesLost
    \/ /\ domains \subseteq domainsFile
       /\ OneDir => /\ domainsFile \subseteq domains
                    /\ \A d \in Domains : crt[d] # "none" => d \in domains

\* Orders that go on use the account of the process, also when several tasks
\* created one; and unless that happened, or a write of the credentials failed,
\* it is the account that a restart finds.
OneAccount ==
    /\ \A t \in Tasks : task[t].pc \in {"order", "ready"} => task[t].acct = account
    /\ credsLost \/ raced \/ account \in {0, credsFile}

\* The authority finds no token only if another order was completed since this
\* one was placed (it cleared CHALLENGES).
InvalidForClear == \A t \in Tasks : task[t].ca = "invalid" => task[t].cleared

\* A name that is known and has no fresh certificate with its key gets them,
\* although orders are cancelled, fail, crash or clear each other's tokens and
\* a write may leave a certificate with a wrong key, unless the thread blocks
\* or a lost domains.json makes the process forget the name.
Renewed ==
    \A d \in Domains :
        d \in domains ~> (crt[d] = "fresh" /\ fits[d]) \/ blocked \/ d \notin domains

\* A reload of upstreams.yaml that is wanted is done (README.md: "Changes to
\* `upstreams.yaml` are applied immediately on save without restart").
ReloadDone == reload ~> ~reload
=============================================================================
