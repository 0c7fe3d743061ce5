# A TLA+ verification of Aralez

Aralez is a reverse proxy in Rust on Cloudflare's pingora. Requests are routed
by host and path to servers that come from a hot-reloaded file, an API or a
service discovery; servers are health-checked; certificates are loaded from a
folder and may be ordered from Let's Encrypt. This directory models the parts
of it whose state is shared between tasks and threads, checks small instances
with TLC and proves every safety property the runs check with TLAPS, for all
instances.

Source paths below are relative to the repository's `src/`.

## 1. Inventory

| Part | State it keeps | Operations | Interacts with |
|---|---|---|---|
| Background service (`web/bgservice.rs`) | `ump_full`, `ump_upst`, `ump_byid`, `extraparams`, `client_headers`, `server_headers` | start, receive and apply a configuration | receives from loaders over a channel of capacity one; its tables are read by every request |
| Health checker (`utils/healthcheck.rs`) | a private copy of `ump_full` during a round | tick, copy, probe, compare, rewrite | reads `ump_full`, writes `ump_upst`, `ump_byid` |
| Table helpers (`utils/tools.rs`) | - | `clone_dashmap`, `clone_dashmap_into`, `clone_idmap_into`, `compare_dashmaps`, `merge_headers` | called by the two above |
| Configuration loading (`utils/parceyaml.rs`, `utils/state.rs`) | `first_run`, `DOMAINS` | read with retries, parse, probe, populate | called at start, by the watcher and by the API |
| File watcher (`utils/filewatch.rs`) | time of the last load | event, load, send | file system, channel |
| API (`web/webserver.rs`) | - | `conf`, `apply_config`, `status`, `metrics`, `jwt_gen`, ACME routes | writes `upstreams.yaml`, channel |
| Request path (`web/proxyhttp.rs`, `web/gethosts.rs`) | per request: host, server, parameters; shared: round-robin counters, `RATE_LIMITER`, `REQUESTS_4XX`, `REVERSE_STORE` | lookup, descent through the paths, sticky session, limits, redirects, logging | reads the tables |
| Certificates (`tls/load.rs`, `utils/tools.rs`, `web/start.rs`) | the set in use (an `ArcSwap`) | watch, list, load, replace, choose by server name | folder; TLS handshakes |
| ACME (`tls/acme/*`, `web/acme.rs`) | `CHALLENGES`, `ACCOUNT`, `DOMAINS`, files | order, refresh every 12 h, challenge | writes the folder of certificates |
| Discovery (`utils/kuberconsul.rs`, `utils/httpclient.rs`) | the upstreams of the last poll | poll every 5 s, compare, send | channel |
| Authentication (`utils/auth.rs`, `utils/jwt.rs`) | `JWT_CACHE`, `JWT_TOKEN` | basic, api key, JWT, forward; `jwt_gen` of the API | called by every request that needs it |
| Access log, metrics, TLS grades, startup | no shared protocol state | | |

What is hard to test here, and what the properties are for:

* the tables are cleared and refilled in place while proxy threads read them,
  and two tasks rewrite them;
* a health round works on a copy that is old when it is written back;
* file events are dropped within a window after a load, and a save truncates
  the file before it writes it;
* the limits are unlocked read-modify-write counters with an expiry, shared by
  routes with different limits;
* a renewal writes two files, and a watcher with a window sees the first;
* a map guard is held across an await while others need it (ACME);
* orders of certificates share the tokens, the account and the files, are
  cancelled, fail and are cut off by crashes;
* polls of a registry fail for a part of the services;
* a cache remembers verdicts on tokens that expire by another clock.

`PROJECT.json` lists each at its line under `hazards`.

## 2. Modules

| Module | Models |
|---|---|
| `Reload` | background service, health checker, loaders, the three tables |
| `TableWriter` | abstract: one writer of `ump_upst` and `ump_byid`, who copies one table after the other |
| `ReloadProofs` | theorems about `Reload`, which implements `TableWriter` when the runtime has one worker |
| `Routing` | host lookup, path descent, header lookup, sticky sessions, round robin, against a writer of the tables; implements `Dispatch` |
| `Dispatch` | abstract: one table that is replaced at once, and requests that are given a server in one step |
| `FileWatch` | editor, file watcher, `POST /conf`, the channel |
| `Discovery` | the polls of Consul and Kubernetes, `POST /conf` beside them, the channel |
| `Sources` | composition: `LB::start` starts `FileWatch` or `Discovery`, by the provider of the file |
| `Limiter` | `request_filter` from authentication to the redirects, and the count made in `logging` |
| `LimiterProofs` | theorems about `Limiter` |
| `CertStore` | changes in the certificate folder, `watch_folder`, the loader, the choice of a certificate in a handshake |
| `Acme` | `refresh_order`, orders of the API, the account, challenges, reloads, on one thread |
| `TokenCheck` | abstract: what a check of a token promises |
| `Auth` | `authenticate`, `check_jwt` with its cache, `jwt_gen`; implements `TokenCheck` |
| `RoutingProofs`, `SourcesProofs`, `CertStoreProofs`, `AcmeProofs`, `AuthProofs` | theorems about the module of the same name |
| `NatLemmas` | least and greatest number of a set, remainders: lemmas that the proofs share |
| `MCReload`, `MCRouting`, `MCSources`, `MCLimiter`, `MCCertStore`, `MCAcme`, `MCAuth` | constants of the instances; `FileWatch` needs none |

A definition whose comment begins with "Mutant" is a plausible mistake in the
definition that follows it. It is not part of any specification: each property
is shown to fail when the definition is replaced by its mutant.

### Reload

`Load` is `load_configuration` (with `populate_file_upstreams`), `Send` the
`send` on the channel. The background task's steps are `BgRecv` (receive and
`ump_full.clear`), `BgInsert` (one host into the table that is being filled),
`BgNext` (a loop ends, the next table is cleared; the parameters are stored
before the headers are cleared) and `BgDone`. The health checker's are
`HcTick`, `HcCopy` (one host of `clone_dashmap`), `HcCopied`, `HcProbe` (one
host's servers: the awaits), `HcSame` or `HcDiffer` (`compare_dashmaps`),
`HcUpst`, `HcClearById`, `HcById`, `HcDone`. `Flip` is the environment.

`Workers` is the number of worker threads of the runtime that the background
task and the health checker share. pingora runs a background service on a
runtime of one thread, so `Workers = 1` is the deployed case; then a rewrite,
which has no await, is not interrupted by the other task (`BgMayRun`,
`HcMayRun`), though proxy threads read the tables in the middle of it. The
theorems on types and on `ump_full` hold for any number of workers.

Abstractions: the servers of a host are one set, in which each has its path (so
a path none of whose servers is left counts as absent), of the options only
`healthcheck` (not given, true or false); a probe finds a server down, or that
it speaks HTTP, HTTPS or HTTP/2. The identifier of a server is what
`tools.rs:154-175` hashes: host, address, `is_http2` and `healthcheck`, for
which "not given" and "false" are the same, but neither the path nor `is_ssl`.
Servers under two paths of a host may share one, and `PutIds` keeps any one of
them (the order in which a map is visited is not fixed). `path` stands also for
`redirect_to`, which is not hashed either. The headers of a host are the
configuration they come from; the probes of one load are a single step (their
outcome can be old when it is sent, since `Send` comes later); files and bodies
that do not parse change nothing and are left to `FileWatch`, the other
providers to `Discovery`. A file without `upstreams` is the table `Empty`, which
leaves `first_run` set. `Alive` is what `GET /status?live` reports of a server
(`upstreams_liveness_json`), a report on two tables without state of its own.
`fresh`, `early` and `blank` are history: nothing was received since the round
began; nothing had been received before it; such a round was the last to rewrite
`ump_upst`.

`TableWriter` is the writer alone: clear `ump_upst`, fill it host by host from a
table, then do the same with `ump_byid`, then start over with another table.
`OneWriter` says that the two tasks of `Reload`, with one worker, are this writer:
`WriterOf` takes the stage, the hosts left and the table copied from whichever
task is in a rewrite; everything else (channel, `ump_full`, probes, headers)
is a stuttering step. With two workers TLC refutes it, as it should: the two
rewrites then interleave.

### Routing

`Arrive`, `FindHost` (`return_header_host_from_upstream`), `GetHost` (the second
lookup, the descent and the choice of a server, which hold the guard of the
host's entry and so are one step) and `Reply` (cookie). The writer does what
`TableWriter` says, which `Reload` implements, with the two clears taken apart:
`DashMap::clear` empties one shard after the other, so hosts and identifiers go
one by one before the new ones come. `WriterStart`, `WriterClear`,
`WriterCleared` and `WriterUpst` rewrite `ump_upst`; `WriterDrop`,
`WriterDropped`, `WriterById` and `WriterDone` rewrite `ump_byid`. A path is the
sequence of its segments. A server has an address, the options that its
identifier hashes (`opt`) and those it leaves out (`rest`: `redirect_to`,
`is_ssl`, whether an option is absent or zero); the identifier (`IdOf`) has the
host, the address and `opt`, not the path. `REVERSE_STORE` only memoises the
hash and is left out. `GetPath` and `GetHeaderPath` follow the two loops;
`BestMatch` compares them with a definition by quantifiers (`Longest`). The
configured path `""` is `<< >>`: `get_host` tries it last before `"/"`,
`get_header` never does, and no request has it.

`Dispatch` has one table, replaced at once, and requests that are asked and
answered. It also states the price of rewriting in place: a request that a
rewrite overlaps may be refused or served by `DEFAULT` instead of its host, a
cookie brings back a server with its identifier, which may be another path's,
and while the new table is filled a cookie may be ignored or bring back such a
server of an older table; but no request is ever served from a table that was
replaced, although it may have looked up its host there. `Routing` implements it
under the mapping `stage <- StageNow` (calm, the old table is cleared, the new
one filled), `ask <- AsksNow`: the table counts as replaced when the last host
of the old one is dropped, until then requests are served from the old one, as
far as it is there; the lookup of the host and the writer's other steps are
stuttering steps. How the turns go round is `Balanced`'s matter.

### FileWatch

Contents are version numbers. A save is `Truncate`, perhaps `WritePart`, and
`Write`; a `POST` is `Post` (`conf` spawns the task), `Save` and `SendPosted`
(`apply_config`); the watcher is `Handle` or `Drop`, then `Read`, `ReadBroken`
or `Retry`, and `SendLoaded`. A part of a version may parse (`Read` loads it) or
not (`ReadBroken`). `cooled` is `start.elapsed() > 2 s`, set by `Cool`. `Retry`
gives up after five reads of an empty file (`Attempts`). A save may also go by a
temporary file, `WriteTemp` and `Rename`: the creation is an event, the renaming
(`Modify(Name)`) one that the watcher ignores. A failing write of the file is
not modelled. `calm` is history: the last change began when nothing was under
way; it ends when a part is written, when a load gives up, when an editor
renames, or when another file changes during a `POST`, and `CalmEditApplied`
speaks of the rest.

### Discovery and Sources

A poll is `Wake`, one `Poll` or `PollFails` per configured mapping (each an
awaited request), `CloneCompare` and, for a table that differs, `Send`. The name
that is asked for is the mapping's `upstream` with Consul and its `hostname`
with Kubernetes (`AskedFor`), and the registry has endpoints under every such
name. The endpoints under a name are a sequence of subsets: Consul's become one
list, of Kubernetes' the last with addresses stays (`match_path` inserts under
the same path). `Register` and `Toggle` are the registry and its API servers;
`Choosable` are the servers that `random_range(0..end)` can return, all but the
last. The client headers of the services are left out, and so is the panic of
`for_consul` on a service without `lan_ipv4`.

`Sources` extends `FileWatch` and instantiates `Discovery` on the same channel:
its initial states are the branches of the match in `LB::start`, and its fairness
is that of the part that was started. In a discovery the file is not watched and
the configuration of the start is not sent.

### Limiter

A request goes through `Auth`, `Check4xx`, `CheckRate`, `Forward` and then
`Skip` or `Get`, `Put` (the two steps of the count in `logging`). Time is
counted in half seconds, `Tick` begins an interval of `RATE_LIMITER` at every
second one, and an entry of `REQUESTS_4XX` lives `TTL` after it was written.
`passed`, `asked` and `total4xx` are history.

### CertStore

A file is a version, absent, or torn while it is written. `Renew` and `Continue`
write the certificate and the key (`order.rs:80-81`); `RemovePair` deletes both.
`Handle` or `Drop` is the body of `watch_folder`; `LdRecv`, `LdCrt`, `LdKey` or
`LdFail`, `LdStore` is the loader thread with `Certificates::new`. An empty list
kills the loader (`expect`). The model starts after the first set was loaded.
The certificate is opened twice, for its names (`LdCrt`) and for the context
(`LdChain`). OpenSSL refuses a key that does not belong to the certificate
loaded before it (external); it compares only keys of one type, and a renewal is
taken to keep the type.

`FindSslContext` is the choice made in a handshake: a name is a sequence of
labels, the certificates are places in the order they were listed; in `NameMap`
the last one with a name has it, and of the certificates with a wildcard that
fits the first is taken. Their names stay the same when they are renewed. What a
certificate covers (`Covers`) is stated apart from that rule, as a client has
it: its very names, and one label in the place of a star.

### Acme

An action is what a task does between two awaits, because the tasks share the
one thread of the background service. A task at `restore`, `create`, `order` or
`ready` awaits the authority; `ca` is what the authority thinks of its order.
`Restored`, `Created` are `get_account`; `AskKnown`, `AskNew` the registration of
a name and the check of its certificate; `Ordered` stores the token and tells the
authority, `Validate` is its visit to `http01_challenge`, `Install` or `Refused`
the end of the order. `NextShard`, `Visit`, `EndRound`, `Wake` are
`refresh_order`: `shard` is the shard of `DOMAINS` whose read guard the iterator
has, and `Guarded` says that it is kept while an order is awaited. An insert into
that shard (`LoadBlocks`, `AskNewBlocks`) blocks the thread for good.

Faults: `CallFails` (also a timeout), `SaveFails`, `AskNewFails`, `InstallFails`
(a write fails), `Cancel` (axum drops the handler when its client is gone),
`Crash` and `CrashWriting` (a restart, after a write that may have been cut
off). A file that is cut off is read like a missing one. Certificates are
`none`, `due` or `fresh`; `fits` says whether the key on disk is theirs, which a
write that fails or is cut off may undo (`HalfInstalled`; it may also leave the
old pair). `namesLost`, `credsLost` and `raced` are history: a write of
`domains.json` or of the credentials failed, two tasks created an account.
`order()` writes `domains.json` under `proxy_configs` and `load_configuration`
reads it beside `upstreams_conf`; `OneDir` says whether these are one directory,
and if not, nothing is read (`LoadedNames`). Orders are placed for one name with
one authorization. Its last step is the `Renew` of `CertStore`.

### Auth and TokenCheck

`Auth` follows `check_jwt` step by step (`JwtStart` reads the clock, `Hit` or
`Miss`, `Decode`, `Insert`) for requests on several threads, while the clock
ticks and `JWT_CACHE` drops entries at any time (it is bounded, and expires by
another clock than tokens do). A token is its key, its expiry and whether it
parses and has one. `JwtGen` signs with `MasterKey`: `JWT_KEY` if it is set, the
file's otherwise. A `JWT_KEY` that is set to the empty string is left out. The
comparison of basic credentials and API keys, and the answers of a forward-auth
service, are choices.

`TokenCheck` has no cache, only checks that are asked for and decided: accept
only if the token is genuine and was valid when the check began, refuse only if
it is not genuine or has expired. `Auth` implements it under the mapping
`secret <- envKey`, `check <- CheckOf` (which maps the stages of a request to a
check without verdict, accepted or refused); the cache and the other methods of
authentication are stuttering steps.

## 3. Runs

| Run | Bounds | Shows |
|---|---|---|
| `reload` | 2 hosts, 2 paths, 2 backends, 3 configurations, one with a server under two paths that share its identifier, 2 loaders; loads after the first and backend changes: 2 in all; 4 states of backends and channel at the start; with fairness | `TypeOK`, `FullFromOneConfig`, `IdMapAgrees`, `ServesOneConfig`, `FreshRound`, `Delivered`, `Converges`, `StatusTruthful`, `OneWriter` |
| `reload_stale` (violated) | 1 host, 2 configurations, 1 load | `NoStaleServe`: a health round begun before a reload writes the old configuration back |
| `reload_dead` (violated) | 1 host, 2 configurations, 1 load, 1 backend change, with fairness | `LiveServersServe`: a server that was down during a reload is never served again |
| `routing` | 2 hosts, 4 nested paths, the empty one among them, 3 tables, one with a shared identifier, 3 requests for two paths of one host, 1 rewrite (a host changes or goes), clients symmetric | `TypeOK`, `BestMatch`, `Balanced`, `CalmService`, `StickyKept`, `AddressOfRoute`, `KeepsDispatch` |
| `sources` | file: 2 handlers, 3 versions, 1 unrelated event; discovery: 3 mappings of 2 services, 2 API servers, 2 changes, 1 post; with fairness | `SourcesTypeOK`, `InStep`, `EveryMappingKept`, `CalmEditApplied`, `Discovered` |
| `filewatch_lost` (violated) | 2 versions, with fairness | `EditApplied`: an edit within two seconds of the last load, or by renaming, is not applied |
| `limiter` | 2 clients, 2 concurrent requests, 3 routes, 5 requests, 1.5 s | `TypeOK`, `RateBound`, `RefusedForCause` |
| `certs` | 2 names, 2 changes, 1 unrelated event, 5 server names, with fairness | `TypeOK`, `HandshakeCovered`, `KeepsServing`, `NeverOlder`, `CalmLoaded` |
| `certs_lost` (violated) | 2 names, 1 change, with fairness | `FolderServed`: a renewal may not be loaded |
| `acme` | 2 names that share one of 2 shards, the second known only once it is asked for, 1 handler, 1 request to the API, 1 fault, any number of renewals, rounds and reloads; both settings in one directory; with fairness | `TypeOK`, `DomainsRemembered`, `OneAccount`, `InvalidForClear`, `Renewed` |
| `acme_blocked` (violated) | 2 names in 2 shards, no faults, with fairness | `ReloadDone`: a reload during an order of the refresh stops the thread |
| `auth` | 2 concurrent requests, 3 foreign tokens, 1 issued, 3 s, validity 0 or 2 s, requests symmetric | `TypeOK`, `CacheHonest`, `KeepsContract`, `IssuedNeedsJwtKey` |

The bounds let the interesting cases happen: two loads after the first let one
be sent while another is being applied and a health round of a third spans
both, two backend changes let a server fail and come back, and one of each lets
it fail around a reload (the sum is bounded by `BudgetNext` in `MCReload`, which
leaves the tasks of the system alone); three requests of two clients let a cookie
be set, the tables be rewritten and the cookie be used, for each of the two
rewrites of `BoundedNext` in `MCRouting`; five requests pass both
limits of the routes of the instance; two changes let a renewal be interrupted by
another name's; two services at one host and one of them at two let mappings
meet; two changes let an API server fail in the middle of a poll and come back;
one order of the API and one of the refresh let tokens be cleared, accounts be
created twice and two orders for one name overlap; one fault hits any of the
steps; three seconds let a token expire between the two readings of the clock.
The safety properties are proved without bounds (section 4).

`CHECK_DEADLOCK FALSE` is set where the models end when their bounds are used
up (`routing`, `sources`, `limiter`, `certs`) and in `acme`, where the thread may
block for good; the health checker's interval keeps `reload` going, and requests
and their refusals keep `auth` going.

Fairness. `Reload`: strong fairness of the background task, of the health
checker and of each sender. The runtime polls every ready task in turn, the
interval keeps ticking, and tokio's bounded channel serves waiting senders in
order; strong rather than weak, because with one worker each task is disabled
while the other runs. `FileWatch` and `Discovery`: time passes, a save that began
ends, requests end (they have a timeout), tasks run, senders are served in turn.
`CertStore`: the same for two threads. `Acme`: the authority answers what it is
asked and validates again and again (strong, as answers are only taken while
no other task runs), time passes, a reload that is wanted is begun. None assumes
that a file is ever changed, a request made, a backend or API server repaired;
`Discovered` has the latter as its hypothesis.

What holds. However loads and rounds interleave, `ump_full`, the parameters and
the headers come from one configuration; the serving table has all the hosts of
one configuration that was received and no other server, except that a health
round begun before the first configuration may empty it until the next round; the
map of sticky identifiers has one server for each identifier in it whenever the
writer is at an await; and a round begun after the last reload repairs what an
older one undid. A difference found by a poll is not lost, and failed polls are made
good by later ones. Where both settings name one directory the names that have
certificates are remembered, unless a write of their list fails, and every known
name is renewed with its key in spite of one fault of any kind, unless the thread
blocks. The cache of tokens changes nothing that a caller could tell.

Several properties say what the code does where the documentation of the
repository promises something else, and their comments say so: `RateBound` and
`RefusedForCause` (limits over all the hosts of a client, not per host),
`IssuedNeedsJwtKey` (the key of `main.yaml` does not verify), `HandshakeCovered`
(wildcards further up), `EveryMappingKept` (Kubernetes is asked for the
hostname), `StickyKept` (shared identifiers). Section 5 lists the differences.
And some excuse what the code has no answer to: a write that fails or is cut off
(`namesLost`, `credsLost`), accounts that are created at the same time
(`raced`), changes that meet others (`calm`). They say that nothing else goes
wrong; they do not say that these are harmless.

The five violated properties quote the README of the repository; the findings in
`PROJECT.json` explain each. `reload_stale` is repaired by the next health round;
`filewatch_lost`, `certs_lost` and `reload_dead` last until the next change of the
file or the folder; `acme_blocked` until a restart.

## 4. Proofs

`ReloadProofs`, for all hosts, backends, configurations (`ConfigsAssumption`:
they are tables of servers), loaders, workers (`WorkersAssumption`) and bounds:

* `TypeCorrect`: `Spec => []TypeOK`. Inductive as `TypeInv`, which has the types
  as sets (`Typed`, where `TypeOK` has predicates that TLC can evaluate) and
  adds that the hosts still to be inserted are hosts of the table that is
  copied, since otherwise `cur.ups[h]` and `hcTab[h]` would be outside their
  domains.
* `FullIsOneConfig`: `Spec => []FullFromOneConfig`, for any number of workers.
  `FillInv` says that while the task fills `ump_full` it holds exactly the hosts
  not yet in `bgLeft`, and the same of the headers: a loop that ends has
  inserted every host.
* `FreshRoundHolds`: `Spec => []FreshRound`. `RoundInv` says that with one worker
  only one task is between awaits, that the copy of a fresh round holds the
  hosts visited so far with exactly the servers of `ump_full`, and after it
  narrows them.
* `IdMapFollows`: `Spec => []IdMapAgrees`. `IdInv` says, for whichever task is
  rewriting, that the table holds every host except those left, and that
  `ump_byid` has one entry for each identifier of the hosts except those left
  (`OnePerId`); the entries of one host never replace those of another, whatever
  is shared within it (`PutIdsEntries`).
* `ServedConfigIsOne`: `Spec => []ServesOneConfig`. `ServeInv` follows a
  configuration from the loader through the channel, the background task and a
  health round's copy: each of them only narrows it (`From`). `early` and `blank`
  single out the round that began before there was one.
* `TasksAreOneWriter`: for `Workers = 1`, `Spec => OneWriter`, the refinement of
  `TableWriter`. The same `RoundInv` and `IdInv` carry it: a step of one task
  finds the other outside a rewrite (`BgMapped`, `HcMapped`), the table is in
  `ump_upst` when a rewrite ends, and `clone_idmap_into` adds the entries of a
  host and takes none of another's away (`PutIdsEntries`).

`LimiterProofs`, for all clients, routes, limits, concurrent requests and bounds:

* `RateIsBounded`: `Spec => []RateBound`. The bound is inductive only together
  with `passed[c][n] <= rate[c]`: the code compares the counter, not the history.
* `RefusalHasCause`: `Spec => RefusedForCause`, an action property. It needs that
  neither the cached count nor a count some request read earlier exceeds the
  responses counted so far, which survives lost updates and expiry.
* `TypeCorrect`: `Spec => []TypeOK`, whose hard part is that counters stay within
  the number of requests. `BoundInv` counts what is still to come: the rate of a
  client plus the requests that have not passed `CheckRate` (`Fresh`), and the
  4xx responses plus the requests under way (`Active`), never exceed `reqs`.

`RoutingProofs`, for all hosts, paths (`PathsAssumption`: sequences), servers,
tables (`TablesAssumption`), clients and bounds:

* `BestPathChosen`: `Spec => []BestMatch`. A descent is a recursive function. The
  function of the longest prefixes satisfies its equation (`BestStep`,
  `DescentExists`), and a function that satisfies it has that value for the whole
  path, because a shortest prefix where it had not would be preceded by one
  (`DescentEnds`, by `LeastNumber`). Prefixes are then given by their lengths
  (`PrefixLength`).
* `TurnsBalanced`: `Spec => []Balanced`. Inductive as `Turns`: every server had `q`
  turns and those up to `idx % Len(srv)` one more; `NextRemainder` says how the
  remainder moves on.
* `CalmServed`: `Spec => []CalmService`. `CalmInv` says of a request that no rewrite
  has overlapped what it knows after each step, and `TableInv` that a writer at
  rest has put back every host of the table, with its paths and servers.
* `StickyAlwaysKept`, `StaleCookieHarmless`, `AddressAlwaysOfRoute`: the three
  action properties. Only `GetHost` gives a request a server
  (`ChosenByGetHost`), it has then one host and one path (`RoutedOrNot`,
  `OnePath`), and `ByIdInv` says that a writer at rest has put back one entry
  for every identifier. `StaleCookieIgnored` is proved only: the run has
  `KeepsDispatch`, which says the same and more.
* `TypeCorrect`: `Spec => []TypeOK`. That a counter stays within the number of
  requests needs `CountInv`: `idx` plus the requests that may still take a turn.
* `DispatchKept`: `Spec => KeepsDispatch`, the refinement of `Dispatch`. The end
  of the first clear is the replacement of the table, the end of `ump_byid` the
  end of the rewrite (`ClearMapped`, `WriterMapped`), and `GetHost` serves or
  refuses (`TurnMapped`, `CookieMapped`, `RefuseMapped`). `TableInv` says that
  what `ump_upst` holds is the old table's while it is cleared, and then the new
  table's and not yet to be written again, `ReqInv` that a request found nothing
  but its own host or `DEFAULT`, `ByIdInv` that `ump_byid` has one entry for
  each identifier of the table until the new one replaces it.

`SourcesProofs`, for either provider, all handlers, mappings, endpoints
(`ListsAssumption`: sequences), API servers and bounds; `BoundsAssumption` of
`FileWatch` has at least one version, the one of the start. `SourcesInv` is
`FileInv` for the watcher, `PollInv`, `StepInv` and `KeptInv` for the polls:

* `TypeCorrect`: `StartSpec => []SourcesTypeOK`, with the capacity of the channel.
* `NoDifferenceLost`: `StartSpec => []InStep`. The property is about the time
  between polls; `StepInv` carries it through the poll and the waiting send.
* `MappingsKept`: `StartSpec => []EveryMappingKept`. `PollInv` says that the
  mappings left are a suffix of the list, so that what was asked for is known; a
  list of a mapping has servers of the name asked for (`ListServes`), and a
  table only grows (`TableGrows`).

`CertStoreProofs`, for all names, orders of listing (`OrderAssumption`), names in
certificates (`LabelsAssumption`: sequences of labels) and bounds:

* `TypeCorrect`, `ServingKept` (`Spec => KeepsServing`), `NeverGoesBack`
  (`Spec => NeverOlder`). `ListInv` says that a list has every name of the earlier
  ones that was not removed, `VersionInv` that what was read earlier is not later
  than what is on disk or still to be written (`Past`); `WriteInv` that a
  certificate still to be written is the next write of its change.
* `HandshakesCovered`: `Spec => []HandshakeCovered`, from the types alone: the
  greatest place with a name, the least with a wildcard (`GreatestNumber`,
  `LeastNumber`), and `ends_with` against what a wildcard is for
  (`WildIsCover`), which is the one label a client accepts or a domain further
  up (`WildSplit`).

`AcmeProofs`, for all names, handlers, shards and any spread of the names over
them (`ShardAssumption`), with one directory or two (`DirAssumption`), with
`AcmeInv`, whose `Holds` says what a task may rely on across an await:
`TypeCorrect`, `NamesRemembered`, `OneAccountUsed`, `InvalidOnlyForClear`, each
`Spec => []` the property. Without `Holds` a task could install a certificate
for a name that is not remembered, order with an account that is not the one of
the process, or find its token gone without a clear.

`AuthProofs`, for all keys, tokens, concurrent requests and times
(`ForeignAssumption`: foreign tokens are tokens, and the absence of one is not):

* `TypeCorrect`, `CacheIsHonest` (`Spec => []CacheHonest`) and
  `IssuedPassWithJwtKey` (`Spec => IssuedNeedsJwtKey`). `Established` says what
  each stage of a check has verified; what `Insert` puts into the cache was
  verified by an earlier step.
* `ContractKept`: `Spec => KeepsContract`, the refinement: the initial states of
  `Auth` map to those of `TokenCheck`, and each step to a step or a stutter; a
  hit needs `CacheHonest`, and the verdicts that a check began no later than now
  (`ReqInv`).

Two ways around the limits of the prover are used. The library's induction takes
an operator as its parameter and cannot be used; `LeastNumber` (every non-empty
set of numbers has a least one, from well-foundedness) can, with the set of the
counterexamples. And a recursive function is compared with a closed form that
satisfies its equation instead of being unfolded.

Only model-checked: liveness (`Delivered`, `Converges`, `StatusTruthful`,
`CalmEditApplied`, `Discovered`, `CalmLoaded`, `Renewed`), which needs fairness and
`ENABLED`. The five violated properties are refuted by TLC's counterexamples.

## 5. Observations

Differences between documentation and code, or surprises, that were met while
modelling and are not runs of their own:

* Both limits are counted per client address (`proxyhttp.rs:103`), while
  `README.md:245` and `249` say "per requester ip plus requested virtualhost": a
  client that keeps the limit on every host is refused when it uses several. The
  count of 4xx responses lives another second with every response
  (`proxyhttp.rs:306`), so that the responses of a longer time refuse a client,
  where `README.md:244` and `253` have those of one second.
* While the tables are rewritten (`tools.rs:90`) a request for a configured host
  may not find it and is sent to `DEFAULT`, which `README.md:265` has "catch up
  everything else".
* `README.md:320` calls the validity of a token `valid`; `Claims` needs `exp`
  (`jwt.rs:16`). Without `JWT_KEY` in the environment tokens are issued with the
  `master_key` of the file and none is accepted (`auth.rs:181`), while
  `README.md:317-318` has that key do; the `data` of a path, by which
  `README.md:256` has its tokens signed, is not looked at.
* Two servers of a host with one address, under different paths, may have one
  identifier, since path, `redirect_to` and `is_ssl` are not hashed and an absent
  limit or `healthcheck` counts as zero or false (`tools.rs:154-175`): a cookie then
  brings a client to the server of the other path, with that one's options.
* A health round that began before the first configuration was received writes
  the empty table back when it ends (`healthcheck.rs:20-23`); nothing is served
  until the next round.
* Kubernetes is asked for `endpoints/{hostname}` (`kuberconsul.rs:135`), so the
  mappings of one hostname in `etc/upstreams.yaml:38-51`, which have different
  upstreams, all get the same servers.
* `domains.json` is written under `proxy_configs` (`bgservice.rs:55`,
  `order.rs:35`) and read beside `upstreams_conf` (`parceyaml.rs:59-67`).
  `etc/main.yaml` has these in two directories: a restart forgets the names, and
  they are not renewed.
* A half-written `upstreams.yaml` that parses is loaded (`parceyaml.rs:29-33`),
  and the event of the rest may be dropped.
* A renewal that changes the type of the key is not refused while the old key is
  still there: OpenSSL compares keys of one type only, and nothing calls
  `check_private_key` (`load.rs:180-181`).
* The token of Consul is put into a map of headers that is not sent
  (`httpclient.rs:12-17`).
* Of several API servers the last is never chosen (`kuberconsul.rs:108`, `176`).
* Of several subsets of a Kubernetes service with addresses only the last is
  served (`httpclient.rs:80`).
* A table that is posted while a discovery runs is served until the registry
  changes (`kuberconsul.rs:212`); a posted configuration with the provider
  `consul` or `kubernetes` has no upstreams and empties the tables.
* Of two services with one hostname the client headers of the second replace
  those of the first (`kuberconsul.rs:133`, `195`).
* A wildcard matches any number of labels, while clients accept one label for the
  star, and the first certificate listed with a wildcard that fits is used even if
  a later one has the closer wildcard that covers the name (`load.rs:76`).
* `load_configuration` says it goes on with an empty list when the file is empty
  (`parceyaml.rs:54`), but at the start the caller panics (`bgservice.rs:26`).

## 6. Not modelled

Parsing, formatting, hashing, the comparison of credentials, access log,
metrics, TLS grades, static files, startup and the dropping of privileges are
sequential or output only. Requests are not modelled beyond the answer of the
server: bodies, retries and connection pools belong to pingora. The certificate
that the listener is built with at start is not part of the set that is reloaded.

## 7. What could follow

`Acme` composed with `CertStore` would follow a renewal from the order to the
handshake; at present the last step of the one is an action of the other by
comment only. `TableWriter` abstracts from what a host's entry holds: `Reload`
has sets of servers with their paths, `Routing` lists of servers per path, so
that the two meet in the order and the source of the writes, not in the contents
of an entry. A run of `Acme` with two directories would follow what a restart
forgets.
