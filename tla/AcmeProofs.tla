----------------------------- MODULE AcmeProofs -----------------------------
(***************************************************************************)
(* For any names, any number of tasks and any spread of the names over     *)
(* shards: names are remembered before they are ordered for                *)
(* (DomainsRemembered), orders use the one account of the process          *)
(* (OneAccount), and a challenge fails only because the tokens were        *)
(* cleared (InvalidForClear).                                              *)
(*                                                                         *)
(* None of them is inductive.  What a task may rely on across its    *)
(* awaits is Holds: its name is in DOMAINS; its account is the one of the  *)
(* process; the file it restores still has that account, and nobody else   *)
(* has set one while it creates one, unless a write failed or two tasks    *)
(* raced; its token is shown, or was cleared.                              *)
(***************************************************************************)
EXTENDS Acme, TLAPS

Pcs == {"idle", "restore", "create", "order", "ready", "loop", "sleep"}
Cas == {"none", "pending", "valid", "invalid"}

TaskRecord == [pc : Pcs, dom : Domains \cup {NoDomain}, acct : Nat, ca : Cas, cleared : BOOLEAN]

\* What task t, at r, may rely on.
Holds(t, r) ==
    /\ r.acct <= accounts
    /\ r.dom \in domains \cup {NoDomain}
    /\ r.pc \in {"order", "ready"} => r.acct = account /\ account # 0
    /\ r.pc = "restore" => r.acct # 0 /\ (credsLost \/ raced \/ r.acct = credsFile)
    /\ r.pc = "create" => credsLost \/ raced \/ (account = 0 /\ credsFile = 0)
    /\ r.ca # "none" => r.pc = "ready"
    /\ r.ca = "pending" => t \in challenges \/ r.cleared
    /\ r.ca = "invalid" => r.cleared

TaskInv == task \in [Tasks -> TaskRecord] /\ \A t \in Tasks : Holds(t, task[t])

DataInv ==
    /\ domains \subseteq Domains /\ domainsFile \subseteq Domains
    /\ challenges \subseteq Tasks
    /\ accounts \in Nat /\ account \in 0..accounts /\ credsFile \in 0..accounts
    /\ crt \in [Domains -> {"none", "due", "fresh"}] /\ fits \in [Domains -> BOOLEAN]

IterInv == hash \in Hashes /\ shard \in 0..Shards /\ left \subseteq {d \in domains : hash[d] = shard}

FlagInv ==
    /\ {blocked, reload, namesLost, credsLost, raced} \subseteq BOOLEAN
    /\ used \in [orders : 0..MaxOrders, faults : 0..MaxFaults]

FileInv == DomainsRemembered /\ (credsLost \/ raced \/ account \in {0, credsFile})

AcmeInv == TaskInv /\ DataInv /\ IterInv /\ FlagInv /\ FileInv

\* A task at r has not gone further than get_account, for an order of d.
Placed(r, d) ==
    /\ r \in TaskRecord
    /\ r.dom \in {d, NoDomain} /\ r.acct <= accounts
    /\ r.pc = "order" => r.acct = account /\ account # 0
    /\ r.pc = "restore" => r.acct = credsFile /\ credsFile # 0
    /\ r.pc = "create" => account = 0 /\ credsFile = 0
    /\ r.pc # "ready" /\ r.ca = "none"

-----------------------------------------------------------------------------
(* Facts about the records of tasks *)

\* A task whose order is over is idle, or goes on with its loop.
LEMMA DoneFields ==
    ASSUME NEW t
    PROVE  \E pc \in {"idle", "loop"} : pc \in Pcs /\ Done(t) = Ready(pc)
BY DEF Done, Pcs

\* A task that has nothing to do relies on nothing.
LEMMA DonePlaced ==
    ASSUME DataInv, NEW t, NEW d
    PROVE  Placed(Done(t), d) /\ Placed(Ready("sleep"), d) /\ Placed(Ready("loop"), d)
<1>1. ASSUME NEW pc \in {"idle", "loop", "sleep"}
      PROVE  Placed(Ready(pc), d)
  <2>1. pc \in Pcs
    BY DEF Pcs
  <2>2. accounts \in Nat
    BY DEF DataInv
  <2>3. /\ Ready(pc) \in TaskRecord /\ Ready(pc).pc = pc /\ Ready(pc).dom = NoDomain
        /\ Ready(pc).acct = 0 /\ Ready(pc).ca = "none"
    BY <2>1 DEF Ready, TaskRecord, Cas
  <2> QED
    BY <2>2, <2>3 DEF Placed
<1> QED
  BY <1>1, DoneFields

\* get_account returns account a: the order of d goes on with it, if there is one.
LEMMA GotFields ==
    ASSUME NEW t, NEW d \in Domains \cup {NoDomain}, NEW a \in Nat, NEW r, r = GotAccount(t, d, a)
    PROVE  /\ r \in TaskRecord /\ r.dom \in {d, NoDomain} /\ r.acct \in {0, a}
           /\ r.pc \in {"idle", "loop", "order"} /\ (r.pc = "order" => r.acct = a)
           /\ r.ca = "none"
<1>1. CASE d = NoDomain
  <2>1. PICK pc \in {"idle", "loop"} : pc \in Pcs /\ r = Ready(pc)
    BY <1>1, DoneFields DEF GotAccount
  <2> QED
    BY <2>1 DEF Ready, TaskRecord, Cas
<1>2. CASE d # NoDomain
  <2>1. "order" \in Pcs
    BY DEF Pcs
  <2>2. r = [Ready("order") EXCEPT !.dom = d, !.acct = a]
    BY <1>2 DEF GotAccount
  <2> QED
    BY <2>1, <2>2 DEF Ready, TaskRecord, Cas
<1> QED
  BY <1>1, <1>2

\* An account that was returned is the one of the process.
LEMMA GotPlaced ==
    ASSUME DataInv, account # 0, NEW t, NEW d \in Domains \cup {NoDomain}
    PROVE  Placed(GotAccount(t, d, account), d)
<1>1. account \in Nat /\ account <= accounts /\ accounts \in Nat
  BY DEF DataInv
<1> QED
  BY <1>1, GotFields DEF Placed

\* get_account goes on with what it finds in memory or in the file.
LEMMA GetPlaced ==
    ASSUME DataInv, NEW t, NEW d \in Domains \cup {NoDomain}
    PROVE  Placed(GetAccount(t, d), d)
<1>1. CASE account # 0
  BY <1>1, GotPlaced DEF GetAccount
<1>2. CASE account = 0
  <2> DEFINE pc == IF credsFile # 0 THEN "restore" ELSE "create"
             r == [Ready(pc) EXCEPT !.dom = d, !.acct = credsFile]
  <2>1. pc \in Pcs
    BY DEF Pcs
  <2>2. credsFile \in Nat /\ credsFile <= accounts
    BY DEF DataInv
  <2>3. /\ r \in TaskRecord /\ r.pc = pc /\ r.dom = d /\ r.acct = credsFile
        /\ r.ca = "none"
    BY <2>1, <2>2 DEF Ready, TaskRecord, Cas
  <2>4. GetAccount(t, d) = r
    BY <1>2 DEF GetAccount
  <2> QED
    BY <1>2, <2>2, <2>3, <2>4 DEF Placed
<1> QED
  BY <1>1, <1>2

\* order goes on with get_account, or is over.
LEMMA CheckedPlaced ==
    ASSUME DataInv, NEW t, NEW d \in Domains
    PROVE  Placed(Checked(t, d), d)
BY GetPlaced, DonePlaced DEF Checked

\* One task places an order or ends one; what others rely on stays.
LEMMA PlacedStep ==
    ASSUME TaskInv, NEW t \in Tasks, NEW r, NEW d, Placed(r, d),
           task' = [task EXCEPT ![t] = r],
           d \in domains' \cup {NoDomain}, domains \subseteq domains',
           challenges \subseteq challenges',
           UNCHANGED <<accounts, account, credsFile, credsLost, raced>>
    PROVE  TaskInv'
<1>1. task' \in [Tasks -> TaskRecord]
  BY DEF TaskInv, Placed
<1>2. \A u \in Tasks : task'[u] = IF u = t THEN r ELSE task[u]
  BY DEF TaskInv
<1>3. Holds(t, r)'
  BY DEF Placed, Holds
<1>4. \A u \in Tasks : Holds(u, task[u])
  BY DEF TaskInv
<1>5. \A u \in Tasks \ {t} : Holds(u, task[u])'
  BY <1>2, <1>4 DEF Holds
<1>6. Holds(t, task[t])'
  BY <1>2, <1>3 DEF Holds
<1> QED
  BY <1>1, <1>5, <1>6 DEF TaskInv

\* No task does anything; what they rely on stays.
LEMMA NoTaskStep ==
    ASSUME TaskInv, task' = task, domains \subseteq domains', challenges' = challenges,
           UNCHANGED <<accounts, account, credsFile, raced>>, credsLost => credsLost'
    PROVE  TaskInv'
BY DEF TaskInv, Holds

-----------------------------------------------------------------------------
(* The invariant *)

\* The invariant holds at start.
LEMMA InitHolds == Init => AcmeInv
<1> SUFFICES ASSUME Init PROVE AcmeInv
  OBVIOUS
<1>1. DataInv
  BY DEF Init, DataInv, LoadedNames
<1>2. IterInv
  BY ShardAssumption DEF Init, IterInv
<1>3. FlagInv
  <2>1. {blocked, reload, namesLost, credsLost, raced} \subseteq BOOLEAN
    BY Zenon DEF Init
  <2>2. used \in [orders : 0..MaxOrders, faults : 0..MaxFaults]
    BY BoundsAssumption DEF Init
  <2> QED
    BY <2>1, <2>2 DEF FlagInv
<1>4. FileInv
  BY DEF Init, FileInv, DomainsRemembered, LoadedNames
<1>5. \A t \in Tasks : Placed(task[t], NoDomain)
  BY <1>1, DonePlaced DEF Init
<1>6. TaskInv
  BY <1>5 DEF Init, TaskInv, Placed, Holds
<1> QED
  BY <1>1, <1>2, <1>3, <1>4, <1>6 DEF AcmeInv

\* Files, maps and the account stay.
LEMMA DataStays ==
    ASSUME AcmeInv, TaskInv', IterInv', FlagInv', UNCHANGED <<files, memory, accounts, history>>
    PROVE  AcmeInv'
BY DEF AcmeInv, DataInv, FileInv, DomainsRemembered, files, memory, history

\* So does refresh_order's iterator.
LEMMA IterStays ==
    ASSUME IterInv, domains \subseteq domains', UNCHANGED iter
    PROVE  IterInv'
BY DEF IterInv, iter

\* A fault, or a request to the API, that the bounds allow.
LEMMA UsedStep ==
    ASSUME FlagInv, used' \in {used, [used EXCEPT !.orders = @ + 1], [used EXCEPT !.faults = @ + 1],
                               [used EXCEPT !.orders = @ + 1, !.faults = @ + 1]},
           used'.orders # used.orders => used.orders < MaxOrders,
           used'.faults # used.faults => MayFail
    PROVE  used' \in [orders : 0..MaxOrders, faults : 0..MaxFaults]
<1>1. used \in [orders : 0..MaxOrders, faults : 0..MaxFaults] /\ {MaxOrders, MaxFaults} \subseteq Nat
  BY BoundsAssumption DEF FlagInv
<1>2. ASSUME NEW o \in {used.orders, used.orders + 1}, NEW f \in {used.faults, used.faults + 1},
             o # used.orders => used.orders < MaxOrders, f # used.faults => used.faults < MaxFaults
      PROVE  [used EXCEPT !.orders = o, !.faults = f]
                \in [orders : 0..MaxOrders, faults : 0..MaxFaults]
  <2>1. o \in 0..MaxOrders
    BY <1>1, <1>2
  <2>2. f \in 0..MaxFaults
    BY <1>1, <1>2
  <2> QED
    BY <1>1, <2>1, <2>2
<1>3. \E o \in {used.orders, used.orders + 1}, f \in {used.faults, used.faults + 1} :
         used' = [used EXCEPT !.orders = o, !.faults = f]
  BY <1>1
<1>4. \A o, f : LET u == [used EXCEPT !.orders = o, !.faults = f]
                IN  u.orders = o /\ u.faults = f
  BY <1>1
<1> QED
  BY <1>2, <1>3, <1>4 DEF MayFail

\* Requests to the API.
LEMMA AskSteps ==
    ASSUME AcmeInv, NEW h \in Handlers,
           \/ AskAccount(h)
           \/ \E d \in Domains :
                 AskKnown(h, d) \/ AskNew(h, d) \/ AskNewFails(h, d) \/ AskNewBlocks(h, d)
    PROVE  AcmeInv'
<1> USE DEF AcmeInv
<1>0. h \in Tasks /\ used.orders \in Nat /\ used.faults \in Nat
  BY BoundsAssumption DEF Tasks, FlagInv
<1>1. CASE AskAccount(h)
  <2>1. TaskInv'
    BY <1>0, <1>1, GetPlaced, PlacedStep DEF AskAccount, files, memory, history
  <2>2. IterInv'
    BY <1>1, IterStays DEF AskAccount, memory
  <2>3. FlagInv'
    BY <1>0, <1>1, UsedStep DEF AskAccount, FlagInv, history
  <2> QED
    BY <1>1, <2>1, <2>2, <2>3, DataStays DEF AskAccount
<1>2. ASSUME NEW d \in Domains, AskKnown(h, d)
      PROVE  AcmeInv'
  <2>1. Placed(Checked(h, d), d)
    BY CheckedPlaced
  <2>2. TaskInv'
    BY <1>0, <1>2, <2>1, PlacedStep DEF AskKnown, files, memory, history
  <2>3. IterInv'
    BY <1>2, IterStays DEF AskKnown, memory
  <2>4. FlagInv'
    BY <1>0, <1>2, UsedStep DEF AskKnown, Ask, FlagInv, history
  <2> QED
    BY <1>2, <2>2, <2>3, <2>4, DataStays DEF AskKnown
<1>3. ASSUME NEW d \in Domains, AskNew(h, d)
      PROVE  AcmeInv'
  <2>1. Placed(Checked(h, d), d)
    BY CheckedPlaced
  <2>2. TaskInv'
    BY <1>0, <1>3, <2>1, PlacedStep DEF AskNew, history
  <2>3. IterInv'
    BY <1>3, IterStays DEF AskNew
  <2>4. FlagInv'
    BY <1>0, <1>3, UsedStep DEF AskNew, Ask, FlagInv, history
  <2>5. DataInv'
    BY <1>3 DEF AskNew, DataInv
  <2>6. FileInv'
    BY <1>3 DEF AskNew, FileInv, DomainsRemembered, history
  <2> QED
    BY <2>2, <2>3, <2>4, <2>5, <2>6
<1>4. ASSUME NEW d \in Domains, AskNewFails(h, d)
      PROVE  AcmeInv'
  <2>1. TaskInv'
    BY <1>4, NoTaskStep DEF AskNewFails
  <2>2. IterInv'
    BY <1>4, IterStays DEF AskNewFails
  <2>3. FlagInv'
    BY <1>0, <1>4, UsedStep DEF AskNewFails, Ask, FlagInv
  <2>4. DataInv'
    BY <1>4 DEF AskNewFails, DataInv
  <2>5. FileInv'
    BY <1>4 DEF AskNewFails, FileInv, DomainsRemembered
  <2> QED
    BY <2>1, <2>2, <2>3, <2>4, <2>5
<1>5. ASSUME NEW d \in Domains, AskNewBlocks(h, d)
      PROVE  AcmeInv'
  <2>1. TaskInv'
    BY <1>5, NoTaskStep DEF AskNewBlocks, files, memory, history
  <2>2. IterInv'
    BY <1>5, IterStays DEF AskNewBlocks, memory
  <2>3. FlagInv'
    BY <1>0, <1>5, UsedStep DEF AskNewBlocks, Ask, FlagInv, history
  <2> QED
    BY <1>5, <2>1, <2>2, <2>3, DataStays DEF AskNewBlocks
<1> QED
  BY <1>1, <1>2, <1>3, <1>4, <1>5

\* A task whose order is over relies on nothing, what others rely on stays.
LEMMA EndStep ==
    ASSUME AcmeInv, NEW t \in Tasks, End(t), FlagInv',
           UNCHANGED <<files, memory, accounts, iter, history>>
    PROVE  AcmeInv'
<1>1. Placed(Done(t), NoDomain)
  BY DonePlaced DEF AcmeInv
<1>2. TaskInv'
  BY <1>1, PlacedStep DEF AcmeInv, End, files, memory, history
<1>3. IterInv'
  BY IterStays DEF AcmeInv, memory
<1> QED
  BY <1>2, <1>3, DataStays

\* get_account returns the account of the process, which t itself may have set.
LEMMA GotStep ==
    ASSUME AcmeInv, NEW t \in Tasks,
           task' = [task EXCEPT ![t] = GotAccount(t, task[t].dom, account')],
           account' \in Nat, account' # 0, account' <= accounts',
           account # 0 => account' = account,
           accounts' \in Nat, accounts <= accounts', credsLost => credsLost', raced => raced',
           \A u \in Tasks \ {t} :
              /\ task[u].pc = "restore" => credsLost' \/ raced' \/ task[u].acct = credsFile'
              /\ task[u].pc = "create" => credsLost' \/ raced',
           UNCHANGED <<domains, challenges>>
    PROVE  TaskInv'
<1>1. /\ DOMAIN task = Tasks /\ accounts \in Nat
      /\ \A u \in Tasks : task[u] \in TaskRecord /\ Holds(u, task[u])
  BY DEF AcmeInv, TaskInv, DataInv
<1>2. PICK r : r = GotAccount(t, task[t].dom, account')
  OBVIOUS
<1>3. task[t].dom \in Domains \cup {NoDomain}
  BY <1>1 DEF TaskRecord
<1>4. /\ r \in TaskRecord /\ r.dom \in {task[t].dom, NoDomain} /\ r.acct \in {0, account'}
      /\ r.pc \in {"idle", "loop", "order"} /\ (r.pc = "order" => r.acct = account')
      /\ r.ca = "none"
  BY <1>2, <1>3, GotFields
<1>5. \A u \in Tasks : task'[u] = IF u = t THEN r ELSE task[u]
  BY <1>1, <1>2
<1>6. Holds(t, task[t])'
  BY <1>1, <1>4, <1>5 DEF Holds
<1>7. ASSUME NEW u \in Tasks \ {t}
      PROVE  Holds(u, task[u])'
  <2>1. task[u].acct <= accounts'
    BY <1>1 DEF Holds, TaskRecord
  <2> QED
    BY <1>1, <1>5, <2>1 DEF Holds
<1>8. task' \in [Tasks -> TaskRecord]
  BY <1>1, <1>2, <1>4, <1>5 DEF AcmeInv, TaskInv
<1> QED
  BY <1>6, <1>7, <1>8 DEF TaskInv

\* The answers that get_account waits for.
LEMMA AccountSteps ==
    ASSUME AcmeInv, NEW t \in Tasks, Restored(t) \/ Created(t) \/ SaveFails(t)
    PROVE  AcmeInv'
<1> USE DEF AcmeInv
<1>0. /\ task[t] \in TaskRecord /\ DOMAIN task = Tasks
      /\ \A u \in Tasks : task[u] \in TaskRecord /\ Holds(u, task[u])
  BY DEF TaskInv
<1>1. CASE Restored(t)
  <2>1. task[t].acct # 0 /\ (credsLost \/ raced \/ task[t].acct = credsFile)
    BY <1>0, <1>1 DEF Restored, Holds
  <2>2. account' # 0 /\ account' \in {account, task[t].acct} /\ (account # 0 => account' = account)
    BY <1>1, <2>1 DEF Restored, SetAccount
  <2>3. DataInv'
    BY <1>0, <1>1, <2>2 DEF Restored, DataInv, Holds, TaskRecord, files
  <2>4. FileInv'
    BY <1>1, <2>1, <2>2 DEF Restored, FileInv, DomainsRemembered, files, history, SetAccount
  <2>5. IterInv'
    BY <1>1, IterStays DEF Restored
  <2>6. FlagInv'
    BY <1>1 DEF Restored, FlagInv, history
  <2>7. \A u \in Tasks \ {t} :
           /\ task[u].pc = "restore" => credsLost \/ raced \/ task[u].acct = credsFile
           /\ task[u].pc = "create" => credsLost \/ raced
    BY <1>0, <2>1 DEF Holds
  <2>8. credsLost' = credsLost /\ raced' = raced /\ credsFile' = credsFile
    BY <1>1 DEF Restored, files, history
  <2>9. \A u \in Tasks \ {t} :
           /\ task[u].pc = "restore" => credsLost' \/ raced' \/ task[u].acct = credsFile'
           /\ task[u].pc = "create" => credsLost' \/ raced'
    BY <2>7, <2>8
  <2>10. /\ task' = [task EXCEPT ![t] = GotAccount(t, task[t].dom, account')]
         /\ UNCHANGED <<domains, challenges>>
    BY <1>1 DEF Restored
  <2>11. /\ accounts' \in Nat /\ accounts <= accounts'
         /\ account' \in Nat /\ account' <= accounts'
    BY <1>1, <2>3 DEF Restored, DataInv
  <2>12. TaskInv'
    BY <2>2, <2>8, <2>9, <2>10, <2>11, GotStep
  <2> QED
    BY <2>3, <2>4, <2>5, <2>6, <2>12
<1>2. CASE Created(t)
  <2>1. accounts \in Nat /\ account \in 0..accounts /\ credsFile \in 0..accounts
    BY DEF DataInv
  <2>2. accounts' = accounts + 1 /\ credsFile' = accounts + 1 /\ domains' = domains
    BY <1>2 DEF Created
  <2>3. /\ account' # 0 /\ account' \in {account, accounts + 1}
        /\ (account # 0 => account' = account) /\ (account = 0 => account' = accounts + 1)
    BY <1>2, <2>1 DEF Created, SetAccount
  <2>4. account' \in Nat /\ account' <= accounts'
    BY <2>1, <2>2, <2>3
  <2>5. DataInv'
    BY <1>2, <2>1, <2>2, <2>4 DEF Created, DataInv
  <2>6. credsLost' = credsLost /\ (raced => raced') /\ ((\E u \in Tasks \ {t} : task[u].pc = "create") => raced')
    BY <1>2 DEF Created
  <2>7. credsLost \/ raced \/ (account = 0 /\ credsFile = 0)
    BY <1>0, <1>2 DEF Created, Holds
  <2>8. \A u \in Tasks \ {t} :
           /\ task[u].pc = "restore" => credsLost' \/ raced' \/ task[u].acct = credsFile'
           /\ task[u].pc = "create" => credsLost' \/ raced'
    BY <1>0, <2>6, <2>7 DEF Holds
  <2>9. TaskInv'
    <3>1. /\ task' = [task EXCEPT ![t] = GotAccount(t, task[t].dom, account')]
          /\ UNCHANGED <<domains, challenges>>
      BY <1>2 DEF Created
    <3>2. accounts' \in Nat /\ accounts <= accounts'
      BY <2>1, <2>2
    <3> QED
      BY <2>3, <2>4, <2>6, <2>8, <3>1, <3>2, GotStep
  <2>10. FileInv'
    BY <1>2, <2>2, <2>3, <2>6, <2>7 DEF Created, FileInv, DomainsRemembered
  <2>11. IterInv'
    BY <1>2, IterStays DEF Created
  <2>12. FlagInv'
    <3>1. raced' \in BOOLEAN
      BY <1>2, Zenon DEF Created
    <3> QED
      BY <1>2, <3>1 DEF Created, FlagInv
  <2> QED
    BY <2>5, <2>9, <2>10, <2>11, <2>12
<1>3. CASE SaveFails(t)
  <2>1. accounts' = accounts + 1 /\ credsFile' \in {credsFile, 0} /\ credsLost' = TRUE
    BY <1>3 DEF SaveFails
  <2>2. DataInv'
    BY <1>3, <2>1 DEF SaveFails, DataInv, memory
  <2>3. FileInv'
    BY <1>3, <2>1 DEF SaveFails, FileInv, DomainsRemembered, memory
  <2>4. IterInv'
    BY <1>3, IterStays DEF SaveFails, memory
  <2>5. FlagInv'
    BY <1>3, UsedStep DEF SaveFails, Fault, FlagInv
  <2>6. Placed(Done(t), NoDomain)
    BY DonePlaced
  <2>7. task' \in [Tasks -> TaskRecord] /\ \A u \in Tasks : task'[u] = IF u = t THEN Done(t) ELSE task[u]
    BY <1>0, <1>3, <2>6 DEF SaveFails, End, TaskInv, Placed
  <2>8. \A u \in Tasks : Holds(u, task[u])'
    BY <1>0, <1>3, <2>1, <2>6, <2>7 DEF SaveFails, Placed, Holds, TaskRecord, DataInv, memory
  <2> QED
    BY <2>2, <2>3, <2>4, <2>5, <2>7, <2>8 DEF TaskInv
<1> QED
  BY <1>1, <1>2, <1>3

\* The steps of an order up to the answer of the authority, and its failures.
LEMMA OrderSteps ==
    ASSUME AcmeInv, NEW t \in Tasks,
           Ordered(t) \/ Validate(t) \/ Refused(t) \/ CallFails(t) \/ Cancel(t)
    PROVE  AcmeInv'
<1> USE DEF AcmeInv
<1>0. /\ DOMAIN task = Tasks
      /\ \A u \in Tasks : task[u] \in TaskRecord /\ Holds(u, task[u])
  BY DEF TaskInv
<1>1. ASSUME NEW r \in TaskRecord, task' = [task EXCEPT ![t] = r], Holds(t, r)',
             challenges \subseteq challenges',
             UNCHANGED <<domains, account, accounts, credsFile, credsLost, raced>>
      PROVE  TaskInv'
  <2>1. \A u \in Tasks : task'[u] = IF u = t THEN r ELSE task[u]
    BY <1>0, <1>1
  <2>2. Holds(t, task[t])'
    BY <1>1, <2>1 DEF Holds
  <2>3. \A u \in Tasks \ {t} : Holds(u, task[u])'
    BY <1>0, <1>1, <2>1 DEF Holds
  <2>4. task' \in [Tasks -> TaskRecord]
    BY <1>1 DEF TaskInv
  <2> QED
    BY <2>2, <2>3, <2>4 DEF TaskInv
<1>2. CASE Ordered(t)
  <2>1. PICK r : r = [task[t] EXCEPT !.pc = "ready", !.ca = "pending"]
    OBVIOUS
  <2>2. "ready" \in Pcs /\ "pending" \in Cas
    BY DEF Pcs, Cas
  <2>3. /\ r \in TaskRecord /\ r.pc = "ready" /\ r.ca = "pending"
        /\ r.dom = task[t].dom /\ r.acct = task[t].acct
    BY <1>0, <2>1, <2>2 DEF TaskRecord
  <2>4. Holds(t, r)'
    BY <1>0, <1>2, <2>3 DEF Ordered, Holds, files, history
  <2>5. task' = [task EXCEPT ![t] = r]
    BY <1>0, <1>2, <2>1 DEF Ordered
  <2>6. TaskInv'
    BY <1>1, <1>2, <2>3, <2>4, <2>5 DEF Ordered, files, history
  <2>7. DataInv' /\ FileInv'
    BY <1>2 DEF Ordered, DataInv, FileInv, DomainsRemembered, files, history
  <2>8. IterInv'
    BY <1>2, IterStays DEF Ordered
  <2>9. FlagInv'
    BY <1>2 DEF Ordered, FlagInv, history
  <2> QED
    BY <2>6, <2>7, <2>8, <2>9
<1>3. CASE Validate(t)
  <2>1. PICK r : r = [task[t] EXCEPT !.ca = IF t \in challenges THEN "valid" ELSE "invalid"]
    OBVIOUS
  <2>2. "valid" \in Cas /\ "invalid" \in Cas
    BY DEF Cas
  <2>3. /\ r \in TaskRecord /\ r.ca \in {"valid", "invalid"}
        /\ (r.ca = "invalid" => t \notin challenges)
        /\ r.pc = task[t].pc /\ r.dom = task[t].dom /\ r.acct = task[t].acct
        /\ r.cleared = task[t].cleared
    BY <1>0, <2>1, <2>2 DEF TaskRecord
  <2>4. UNCHANGED <<domains, challenges, account, accounts, credsFile, credsLost, raced>>
    BY <1>3 DEF Validate, files, memory, history
  <2>5. Holds(t, r)'
    BY <1>0, <1>3, <2>3, <2>4 DEF Validate, Holds
  <2>6. task' = [task EXCEPT ![t] = r]
    BY <1>0, <1>3, <2>1 DEF Validate
  <2>7. TaskInv'
    BY <1>1, <2>3, <2>4, <2>5, <2>6
  <2>8. IterInv'
    BY <1>3, <2>4, IterStays DEF Validate
  <2>9. FlagInv'
    BY <1>3 DEF Validate, FlagInv, history
  <2> QED
    BY <1>3, <2>7, <2>8, <2>9, DataStays DEF Validate
<1>4. CASE Refused(t)
  <2>1. FlagInv'
    BY <1>4 DEF Refused, FlagInv, history
  <2> QED
    BY <1>4, <2>1, EndStep DEF Refused
<1>5. CASE CallFails(t)
  <2>1. FlagInv'
    BY <1>5, UsedStep DEF CallFails, Fault, FlagInv, history
  <2> QED
    BY <1>5, <2>1, EndStep DEF CallFails
<1>6. CASE Cancel(t)
  <2>1. FlagInv'
    BY <1>6 DEF Cancel, FlagInv, history
  <2> QED
    BY <1>6, <2>1, EndStep DEF Cancel
<1> QED
  BY <1>2, <1>3, <1>4, <1>5, <1>6

\* When one order is completed the others keep what they rely on: their tokens
\* are gone, and they are marked as cleared.
LEMMA ClearStep ==
    ASSUME AcmeInv, NEW t \in Tasks, ClearTokens(t), credsLost => credsLost',
           UNCHANGED <<domains, account, accounts, credsFile, raced>>
    PROVE  TaskInv'
<1>1. /\ DOMAIN task = Tasks
      /\ \A u \in Tasks : task[u] \in TaskRecord /\ Holds(u, task[u])
  BY DEF AcmeInv, TaskInv
<1>2. Placed(Done(t), NoDomain)
  BY DonePlaced DEF AcmeInv
<1>3. ASSUME NEW u \in Tasks \ {t}
      PROVE  task'[u] \in TaskRecord /\ Holds(u, task[u])'
  <2>1. task'[u] = [task[u] EXCEPT !.cleared = @ \/ task[u].pc = "ready"]
    BY <1>3 DEF ClearTokens
  <2>2. task[u].cleared \in BOOLEAN /\ (task[u].cleared \/ task[u].pc = "ready") \in BOOLEAN
    BY <1>1 DEF TaskRecord
  <2>3. /\ task'[u] \in TaskRecord
        /\ task'[u].pc = task[u].pc /\ task'[u].dom = task[u].dom
        /\ task'[u].acct = task[u].acct /\ task'[u].ca = task[u].ca
        /\ (task[u].cleared \/ task[u].pc = "ready" => task'[u].cleared)
    BY <1>1, <2>1, <2>2 DEF TaskRecord
  <2> QED
    BY <1>1, <2>3 DEF Holds
<1>4. task'[t] = Done(t)
  BY DEF ClearTokens
<1>5. task'[t] \in TaskRecord /\ Holds(t, task[t])'
  BY <1>2, <1>4 DEF Placed, Holds
<1>6. task' = [u \in Tasks |-> task'[u]]
  BY DEF ClearTokens
<1> QED
  BY <1>3, <1>5, <1>6 DEF TaskInv

\* The name a task orders for is in DOMAINS.
LEMMA OwnName ==
    ASSUME AcmeInv, NEW t \in Tasks
    PROVE  task[t].dom \in Domains => task[t].dom \in domains
BY TaskAssumption DEF AcmeInv, TaskInv, Holds

\* Also a write that fails brings a certificate only to the name ordered for.
LEMMA HalfKnown ==
    ASSUME DataInv, NEW d, d \in Domains => d \in domains, HalfInstalled(d)
    PROVE  \A e \in Domains : crt'[e] # "none" => crt[e] # "none" \/ e \in domains
BY DEF HalfInstalled, DataInv

\* The two files of a certificate are written, or one of the writes fails.
LEMMA InstallSteps ==
    ASSUME AcmeInv, NEW t \in Tasks, Install(t) \/ InstallFails(t)
    PROVE  AcmeInv'
<1> USE DEF AcmeInv
<1>0. task[t].dom \in Domains => task[t].dom \in domains
  BY OwnName
<1>1. CASE Install(t)
  <2>1. TaskInv'
    BY <1>1, ClearStep DEF Install, history
  <2>2. DataInv'
    BY <1>1 DEF Install, ClearTokens, DataInv
  <2>3. DomainsRemembered'
    BY <1>0, <1>1 DEF Install, FileInv, DomainsRemembered, DataInv, history
  <2>4. FileInv'
    BY <1>1, <2>3 DEF Install, FileInv, history
  <2>5. IterInv'
    BY <1>1, IterStays DEF Install
  <2>6. FlagInv'
    BY <1>1 DEF Install, FlagInv, history
  <2> QED
    BY <2>1, <2>2, <2>3, <2>4, <2>5, <2>6
<1>2. CASE InstallFails(t)
  <2>1. TaskInv'
    BY <1>2, ClearStep DEF InstallFails, history
  <2>2. DataInv'
    BY <1>2 DEF InstallFails, HalfInstalled, ClearTokens, DataInv
  <2>3. FileInv'
    BY <1>0, <1>2, HalfKnown DEF InstallFails, FileInv, DomainsRemembered, history
  <2>4. IterInv'
    BY <1>2, IterStays DEF InstallFails
  <2>5. FlagInv'
    BY <1>2, UsedStep DEF InstallFails, Fault, FlagInv, history
  <2> QED
    BY <2>1, <2>2, <2>3, <2>4, <2>5
<1> QED
  BY <1>1, <1>2

\* refresh_order: its iterator stays within the names of one shard.
LEMMA RefreshSteps ==
    ASSUME AcmeInv, Refresh
    PROVE  AcmeInv'
<1> USE DEF AcmeInv
<1>0. Refresher \in Tasks /\ Shards \in Nat
  BY ShardAssumption DEF Tasks
<1>1. CASE NextShard
  <2>1. IterInv'
    BY <1>0, <1>1 DEF NextShard, IterInv, memory
  <2>2. TaskInv'
    BY <1>1, NoTaskStep DEF NextShard, files, memory, history
  <2>3. FlagInv'
    BY <1>1 DEF NextShard, FlagInv, history
  <2> QED
    BY <1>1, <2>1, <2>2, <2>3, DataStays DEF NextShard
<1>2. CASE EndRound
  <2>1. IterInv'
    BY <1>0, <1>2 DEF EndRound, IterInv, memory
  <2>2. TaskInv'
    BY <1>0, <1>2, DonePlaced, PlacedStep DEF EndRound, files, memory, history
  <2>3. FlagInv'
    BY <1>2 DEF EndRound, FlagInv, history
  <2> QED
    BY <1>2, <2>1, <2>2, <2>3, DataStays DEF EndRound
<1>3. CASE Wake
  <2>1. IterInv'
    BY <1>3, IterStays DEF Wake, memory
  <2>2. TaskInv'
    BY <1>0, <1>3, DonePlaced, PlacedStep DEF Wake, files, memory, history
  <2>3. FlagInv'
    BY <1>3 DEF Wake, FlagInv, history
  <2> QED
    BY <1>3, <2>1, <2>2, <2>3, DataStays DEF Wake
<1>4. ASSUME NEW d \in Domains, Visit(d)
      PROVE  AcmeInv'
  <2>1. IterInv'
    BY <1>4 DEF Visit, IterInv, memory
  <2>2. d \in domains
    BY <1>4 DEF Visit, IterInv
  <2>3. Placed(Checked(Refresher, d), d)
    BY CheckedPlaced
  <2>4. TaskInv'
    BY <1>0, <1>4, <2>2, <2>3, PlacedStep DEF Visit, files, memory, history
  <2>5. FlagInv'
    BY <1>4 DEF Visit, FlagInv, history
  <2> QED
    BY <1>4, <2>1, <2>4, <2>5, DataStays DEF Visit
<1> QED
  BY <1>1, <1>2, <1>3, <1>4 DEF Refresh

\* Reloads, and certificates that grow old.
LEMMA ReloadSteps ==
    ASSUME AcmeInv, WantReload \/ LoadDomains \/ LoadBlocks \/ \E d \in Domains : Age(d)
    PROVE  AcmeInv'
<1> USE DEF AcmeInv
<1>1. CASE WantReload
  <2>1. TaskInv' /\ IterInv'
    BY <1>1, NoTaskStep, IterStays DEF WantReload, files, memory, history
  <2>2. FlagInv'
    BY <1>1 DEF WantReload, FlagInv, history
  <2> QED
    BY <1>1, <2>1, <2>2, DataStays DEF WantReload
<1>2. CASE LoadDomains
  <2>1. TaskInv' /\ IterInv'
    BY <1>2, NoTaskStep, IterStays DEF LoadDomains, files, history
  <2>2. FlagInv'
    BY <1>2 DEF LoadDomains, FlagInv, history
  <2>3. DataInv'
    BY <1>2 DEF LoadDomains, LoadedNames, DataInv, files
  <2>4. FileInv'
    BY <1>2 DEF LoadDomains, LoadedNames, FileInv, DomainsRemembered, files, history
  <2> QED
    BY <2>1, <2>2, <2>3, <2>4
<1>3. CASE LoadBlocks
  <2>1. TaskInv' /\ IterInv'
    BY <1>3, NoTaskStep, IterStays DEF LoadBlocks, files, memory, history
  <2>2. FlagInv'
    BY <1>3 DEF LoadBlocks, FlagInv, history
  <2> QED
    BY <1>3, <2>1, <2>2, DataStays DEF LoadBlocks
<1>4. ASSUME NEW d \in Domains, Age(d)
      PROVE  AcmeInv'
  <2>1. TaskInv' /\ IterInv'
    BY <1>4, NoTaskStep, IterStays DEF Age, memory, history
  <2>2. FlagInv'
    BY <1>4 DEF Age, FlagInv, history
  <2>3. DataInv'
    BY <1>4 DEF Age, DataInv, memory
  <2>4. FileInv'
    BY <1>4 DEF Age, FileInv, DomainsRemembered, DataInv, memory, history
  <2> QED
    BY <2>1, <2>2, <2>3, <2>4
<1> QED
  BY <1>1, <1>2, <1>3, <1>4

\* The process starts again with what the files hold.
LEMMA StartStep ==
    ASSUME DataInv, Start, Fault, MayFail, FlagInv, accounts' = accounts,
           domainsFile' \subseteq Domains, credsFile' \in 0..accounts,
           crt' \in [Domains -> {"none", "due", "fresh"}], fits' \in [Domains -> BOOLEAN],
           namesLost' \in BOOLEAN, credsLost' \in BOOLEAN, raced' \in BOOLEAN
    PROVE  TaskInv' /\ DataInv' /\ IterInv' /\ FlagInv'
<1>1. DataInv'
  BY DEF Start, LoadedNames, DataInv
<1>2. IterInv'
  BY ShardAssumption DEF Start, IterInv
<1>3. FlagInv'
  <2>1. used' \in [orders : 0..MaxOrders, faults : 0..MaxFaults]
    BY UsedStep DEF Fault, FlagInv
  <2>2. blocked' \in BOOLEAN /\ reload' \in BOOLEAN
    BY Zenon DEF Start
  <2> QED
    BY <2>1, <2>2 DEF FlagInv
<1>4. ASSUME NEW t \in Tasks
      PROVE  /\ Done(t) \in TaskRecord /\ Done(t).pc \in {"idle", "loop"}
             /\ Done(t).dom = NoDomain /\ Done(t).acct = 0 /\ Done(t).ca = "none"
  <2>1. PICK pc \in {"idle", "loop"} : pc \in Pcs /\ Done(t) = Ready(pc)
    BY DoneFields
  <2> QED
    BY <2>1 DEF Ready, TaskRecord, Cas
<1>5. task' \in [Tasks -> TaskRecord]
  BY <1>4 DEF Start
<1>6. \A t \in Tasks : Holds(t, task[t])'
  BY <1>1, <1>4 DEF Start, Holds, DataInv
<1>7. TaskInv'
  BY <1>5, <1>6 DEF TaskInv
<1> QED
  BY <1>1, <1>2, <1>3, <1>7

\* Crashes, also ones that cut off a write.
LEMMA CrashSteps ==
    ASSUME AcmeInv, Crash \/ \E t \in Tasks : CrashWriting(t)
    PROVE  AcmeInv'
<1> USE DEF AcmeInv
<1>1. CASE Crash
  <2>1. TaskInv' /\ DataInv' /\ IterInv' /\ FlagInv'
    BY <1>1, StartStep DEF Crash, DataInv, FlagInv, files, history
  <2>2. FileInv'
    BY <1>1 DEF Crash, Start, LoadedNames, FileInv, DomainsRemembered, files, history
  <2> QED
    BY <2>1, <2>2
<1>2. ASSUME NEW t \in Tasks, CrashWriting(t)
      PROVE  AcmeInv'
  <2> DEFINE names == /\ domainsFile' = {} /\ namesLost' = TRUE
                      /\ UNCHANGED <<credsFile, crt, fits, credsLost>>
             creds == /\ credsFile' = 0 /\ credsLost' = TRUE
                      /\ UNCHANGED <<domainsFile, crt, fits, namesLost>>
             pair == /\ HalfInstalled(task[t].dom)
                     /\ UNCHANGED <<domainsFile, credsFile, namesLost, credsLost>>
  <2>1. names \/ creds \/ pair
    BY <1>2 DEF CrashWriting
  <2>2. /\ domainsFile' \subseteq Domains /\ credsFile' \in 0..accounts
        /\ crt' \in [Domains -> {"none", "due", "fresh"}] /\ fits' \in [Domains -> BOOLEAN]
    <3>1. ASSUME pair
          PROVE  crt' \in [Domains -> {"none", "due", "fresh"}] /\ fits' \in [Domains -> BOOLEAN]
      BY <3>1 DEF HalfInstalled, DataInv
    <3>2. (crt' = crt /\ fits' = fits) \/ pair
      BY <2>1
    <3>3. domainsFile' \in {{}, domainsFile} /\ credsFile' \in {0, credsFile}
      BY <2>1
    <3> HIDE DEF names, creds, pair
    <3> QED
      BY <3>1, <3>2, <3>3 DEF DataInv
  <2>3. namesLost' \in BOOLEAN /\ credsLost' \in BOOLEAN /\ raced' = raced
    <3>1. namesLost' \in {namesLost, TRUE} /\ credsLost' \in {credsLost, TRUE} /\ raced' = raced
      BY <1>2, <2>1, Zenon DEF CrashWriting
    <3> QED
      BY <3>1 DEF FlagInv
  <2>4. TaskInv' /\ DataInv' /\ IterInv' /\ FlagInv'
    BY <1>2, <2>2, <2>3, StartStep DEF CrashWriting, FlagInv
  <2>5. /\ account' = 0 /\ (OneDir => domains' = domainsFile') /\ (~OneDir => domains' = {})
    BY <1>2 DEF CrashWriting, Start, LoadedNames
  <2>6. task[t].dom \in Domains => task[t].dom \in domains
    BY OwnName
  <2>7. DomainsRemembered'
    BY <2>1, <2>5, <2>6, HalfKnown DEF FileInv, DomainsRemembered
  <2> QED
    BY <2>4, <2>5, <2>7 DEF FileInv
<1> QED
  BY <1>1, <1>2

\* Every step keeps the invariant.
LEMMA StepHolds == AcmeInv /\ [Next]_vars => AcmeInv'
<1> SUFFICES ASSUME AcmeInv, [Next]_vars PROVE AcmeInv'
  OBVIOUS
<1>1. CASE UNCHANGED vars
  <2>1. TaskInv' /\ IterInv'
    BY <1>1, NoTaskStep, IterStays DEF AcmeInv, vars, files, memory, history
  <2>2. FlagInv'
    BY <1>1 DEF AcmeInv, FlagInv, vars, history
  <2> QED
    BY <1>1, <2>1, <2>2, DataStays DEF vars
<1>2. CASE \E h \in Handlers :
              \/ AskAccount(h) \/ Cancel(h)
              \/ \E d \in Domains :
                    AskKnown(h, d) \/ AskNew(h, d) \/ AskNewFails(h, d) \/ AskNewBlocks(h, d)
  BY <1>2, AskSteps, OrderSteps DEF Tasks
<1>3. CASE \E t \in Tasks :
              \/ Answer(t) \/ Validate(t)
              \/ SaveFails(t) \/ InstallFails(t) \/ CallFails(t) \/ CrashWriting(t)
  BY <1>3, AccountSteps, OrderSteps, InstallSteps, CrashSteps DEF Answer
<1> QED
  BY <1>1, <1>2, <1>3, RefreshSteps, ReloadSteps, CrashSteps DEF Next

\* The invariant holds in every state.
LEMMA Invariance == Spec => []AcmeInv
BY InitHolds, StepHolds, PTL DEF Spec

-----------------------------------------------------------------------------
(* Theorems *)

\* The variables keep their types, and refresh_order's iterator visits only
\* names that are in DOMAINS and in its shard.
THEOREM TypeCorrect == Spec => []TypeOK
<1>1. AcmeInv => TypeOK
  <2> SUFFICES ASSUME AcmeInv PROVE TypeOK
    OBVIOUS
  <2>1. \A t \in Tasks :
           task[t] \in [pc : Pcs, dom : Domains \union {NoDomain}, acct : 0..accounts,
                       ca : Cas, cleared : BOOLEAN]
    BY DEF AcmeInv, TaskInv, TaskRecord, Holds, DataInv
  <2>2. task \in [Tasks -> [pc : Pcs, dom : Domains \union {NoDomain}, acct : 0..accounts,
                            ca : Cas, cleared : BOOLEAN]]
    BY <2>1 DEF AcmeInv, TaskInv
  <2> QED
    BY <2>2 DEF TypeOK, AcmeInv, DataInv, IterInv, FlagInv, Pcs, Cas
<1> QED
  BY <1>1, Invariance, PTL

\* A name is in the list of domains.json before a certificate is ordered for it,
\* unless a write of the list failed; where that list is the one that a start
\* reads, a restart knows every name that has a certificate.
THEOREM NamesRemembered == Spec => []DomainsRemembered
<1>1. AcmeInv => DomainsRemembered
  BY DEF AcmeInv, FileInv
<1> QED
  BY <1>1, Invariance, PTL

\* Orders that go on use the account of the process, also when several tasks
\* created one; and unless that happened, or a write of the credentials failed,
\* it is the account that a restart finds.
THEOREM OneAccountUsed == Spec => []OneAccount
<1>1. AcmeInv => OneAccount
  BY DEF AcmeInv, FileInv, TaskInv, Holds, OneAccount
<1> QED
  BY <1>1, Invariance, PTL

\* The authority finds no token only if another order was completed since this
\* one was placed.
THEOREM InvalidOnlyForClear == Spec => []InvalidForClear
<1>1. AcmeInv => InvalidForClear
  BY DEF AcmeInv, TaskInv, Holds, InvalidForClear
<1> QED
  BY <1>1, Invariance, PTL
=============================================================================
