# A verification project for dip

`dip` is a command-line tool for local development with containers. Its commands
drive `docker compose`, or a built-in replacement for it on Apple's `container`;
they run hooks, dump and migrate databases, and tell a built-in HTTPS proxy, a
background daemon, which domain leads to which container. This directory holds
TLA+ modules of those parts, the TLC runs that check them on small instances,
and TLAPS proofs of what matters most for instances of every size. Paths below
are relative to the repository's `src/`.

## Inventory

| Component | State | Operations | What is hard | What makes it correct |
|---|---|---|---|---|
| event watcher, `proxy/watcher.rs` | the stream of `docker events`, the backoff, running start tasks, the daemon's table of routes behind a lock | connect, fail, sleep, retry; start a task per "start"; handle a "stop" at once; inspect, then write | inspection and write are separate steps, a stop can come between; events are lost while the stream is down; every signal is a "kill" | a running container is routed to where it is, a stopped one is not, no route leads to another's address |
| route registry, `proxy/config.rs` and `commands/proxy/routes.rs` | `config.json` | add, remove, sync, unsync: load, edit, save, tell the daemon | no lock around load and save; the file is truncated before it is written; Ctrl-C | each command is one change of what it names |
| daemon, `proxy/server.rs` | the table, the certificate loaded at start, the SIGHUP handler | boot, bind, set up the handler, reload | a signal during a reload; a signal before the handler is there; a file that cannot be read; two processes, one of which gets the ports and one of which `proxy.pid` names | it catches up with the file, is not ended by it, and serves the stored certificate |
| daemon control, `commands/proxy/daemon.rs` | `proxy.pid` | start, stop, restart, hang up | ids are asked about and used later; ids are reused; a daemon ends slowly or crashes; commands overlap; zombies | the daemon that runs is the one the file names; a stop stops it |
| certificates, `proxy/certs.rs` | CA key and certificate, server key, certificate and list of names | make what is missing or has other names, replacing each file atomically | death between two files; two processes with one temporary file | key, certificate and list agree; the chain ends in the CA the system trusts |
| set-up commands, `commands/proxy/setup.rs` | `config.json`, DNS set-up | init, config | read-modify-write after an unreadable file | as the registry |
| request path, `proxy/{handler,router,upstream}.rs` | pooled and dedicated connections | match a route, dial, forward, retry | the table and the way of dialling change under requests; connections break before or after the request went out | the most specific route; nothing is done twice |
| dialer, `proxy/dialer.rs` | the agent's address, the probe in progress | probe, ask `whalet`, remember | the agent moves or ends between probes; probes time out | the mode is right once the world leaves it alone |
| DNS, `dns/server.rs` | one socket per forwarded query | answer for the TLDs, forward the rest | late, lost, doubled or foreign answers; reused ports; cut packets | an answer belongs to its query |
| lifecycle commands, `commands/{start,stop,restart,remove,reset,cleanup}.rs`, `hooks.rs` | `.env`, settings, the routes they leave | hooks, compose calls, sync or unsync | one step of several fails; what a hook exports; Ctrl-C | routes and containers agree after a command that reports success |
| runtimes, `runtime/{mod,docker}.rs` | the child process and its two pipes | choose a runtime, run compose, list containers | a full pipe blocks the child; a reader that stops kills it | every command ends |
| Apple runtime, `runtime/apple.rs` | containers, images, networks | start in dependency order, replace, build, create networks | fallbacks, replacement of running dependencies, cycles | what is needed runs first |
| compose reader, `runtime/compose_file.rs`, `utils/yaml.rs` | - | lines to a tree to services | one meaning, many spellings | what is written is what runs |
| database access, `db/{mod,mysql,postgres}.rs`, `commands/db.rs` | the dump file | find the service, dump, import | the file exists before the dump succeeds | a dump that is reported is whole |
| migration, `db/migrate.rs` | the target database | schema, truncation, streamed batches, indexes, sequences, foreign keys | truncation cascades on a second run; errors are swallowed; the source is written to meanwhile; values without a counterpart | the target holds what was read |
| the rest | - | passthrough wrappers, templates, validation, diagnostics, output, tunnel, self update | little: sequential, or pure I/O | - |

How they interact. A command and the daemon share `config.json`, the certificate
files and `proxy.pid`, and a command sends the daemon SIGHUP or SIGTERM. Inside
the daemon the SIGHUP task, the watcher's loop and its start tasks write one
table, which request handlers read; the dialer's task writes the address all new
connections use. The watcher never writes the file; the file never learns what
the watcher knows. A command on a project calls the runtime, which calls an
engine; afterwards it lists the containers and edits `config.json` accordingly.

## Modules

The proxy and its control:

| Module | Models | Correspondence |
|---|---|---|
| `RouteTable` | `Vec<Route>` and its edits | `retain` is `Without`, `retain` and `push`/`extend` is `Upsert`, a command's edit is `Apply`. A set, as order matters only between two routes of one domain |
| `DockerEngine` | what the watcher relies on (external) | containers get addresses at a start and lose them at an exit; events reach a pipe only while it is open |
| `Watcher` | `proxy/watcher.rs` | `Connect`, `SpawnFails`, `LoopFails`, `Retry`: `run` and `watch_loop`; `SpawnStartTask`, `HandleStop`: the match on the action; `Inspect`, `Register`: `handle_start` up to, and after, the await of the lock. An upstream is the *sequence* of a container's addresses, as `container_ip` prints those of all networks in a row |
| `RouteRegistry` | what `config.json` is for (abstract) | a command asks, and later executes its request in one step or gives up |
| `RouteConfig` | `routes.rs`, `config.rs`, the certificate steps of `certs.rs`, the daemon processes and `proxy.pid` | a command is a process with a program counter: `Load`; `CheckCert`, `WritePem`, `Record`, each of the last two a file of its own; `Truncate`, `WriteText`; then `FindDaemon` or `NoDaemon`, and `Hangup`, or `Stop`, `Unlink`, `Spawn`, `Track`; `Interrupt` anywhere in `Breakable`. A process of the daemon: `ReadFiles`, `Bind`, `HandlerReady`, `ReloadRead`, `ReloadWrite`. Commands know it by `proxy.pid` alone, which each of them overwrites or removes; `untold` is the history of processes that a change was never told to |
| `RouteSystem` | engine, watcher, commands and daemon together | extends `Watcher`, instantiates `RouteConfig`; both act on one table. Requests are what `discover_routes` and `discover_project_domains` find. The watcher lives and dies with the daemon |
| `CertStore` | `certs.rs` | `Check`, `EnsureCa`, `InstallCa`, `Issue`, and `write_atomic` in three steps `Open`, `WriteAll`, `Rename` for each file; `InstallCa` may fail with a warning; a call may need no name at all; open files follow renames as they do in POSIX |
| `DaemonControl` | `daemon.rs` and its callers | every use of `daemon_pid` is a step of its own, as is each signal; processes boot, bind, serve, end, and are zombies while the command that spawned them lives |
| `Dialer` | `proxy/dialer.rs` | `Refresh`, `Probe`, `Discover`, `Found` are `refresh` between its awaits; the address it started from (`look.known`) is compared with its result, as in the code, not with what is there by then |
| `Requests` | `router.rs`, `handler.rs`, `upstream.rs` | `MatchRoute` is `match_route`; a request is looked up, collected or streamed, takes a pooled connection or dials, is sent, and answered. A connection may break at any time; the client retries only one that was reused and broke before the request went out |
| `DnsServer` | `dns/server.rs` | a packet is one of the forms the parser tells apart; `Forward` binds a port of the query's own, `AcceptAnswer` compares ids, `Deadline` is the three seconds |
| `Server` | the daemon's serving tasks | `Requests`, `Dialer` and `DnsServer` side by side, after `dialer::init` and the bind of the DNS port |

Projects and databases:

| Module | Models | Correspondence |
|---|---|---|
| `Values` | what the readers and the runtimes share | values as `serde_json` has them, options, tables; texts are sequences of words |
| `Yaml` | `utils/yaml.rs` | the recursive descent over lines of tokens; what starts a token is taken as found, what a line *means* (block or flow, comment, anchor, merge, block scalar) is the code's |
| `ComposeFile` | `runtime/compose_file.rs` | interpolation and `normalize`: dependencies, environment, labels, ports, volumes, build, command |
| `Backends` | `runtime/mod.rs`, `commands/use_runtime.rs` | `DetectForProject` and the settings behind it; the containers of each engine |
| `AppleRuntime` | `runtime/apple.rs` | `up`, `stop`, `rm`, `build`, `pull` and the refused `down` as calls of `container`, each of which may fail; it is given the services and their order as a constant, `Loaded` |
| `StartOrder` | `load_project_compose` and `start_order` of `runtime/apple.rs` | the depth-first visit, and the assumption that `Loaded` is what `ComposeFile` and it make of the files |
| `ChildProcess` | the pipes of a child, `runtime/docker.rs`, `hooks.rs` | a child blocks at a full pipe; a reader stops at a line that is not UTF-8 and closes its pipe; the child then dies of writing to it; the command joins readers and child in the code's order |
| `DockerCompose` | `compose_run` of `runtime/docker.rs` | one `docker compose` child; what it does to containers is external: `up` of a service takes the services it depends on along, running containers get new addresses or keep theirs, an unknown service is refused. What Docker reads in the file is taken to be what dip's own reader does |
| `DbAccess` | `db/mod.rs`, `mysql.rs`, `postgres.rs`, `commands/db.rs` | the service is found by its label in each runtime's listing, or is `db` by a `ps -q` query; `create` truncates the file, `dump` fills it, `import` reads it |
| `Lifecycle` | the commands and `hooks.rs`, `project.rs` | a command is its list of steps (`Steps`); it ends at the first step whose error the code does not ignore. `Sync` and `Unsync` swallow every error (`missed`): of the listing, and of reading or writing `config.json`, which a cut-off write leaves unreadable (`torn`). A container may run without an address and is skipped |
| `MigrateTypes` | the type maps and conversions of `db/migrate.rs` | one operator per map and per extraction; a value is its kind and its size |
| `Migrate` | the rest of `db/migrate.rs` | one action per statement, in both directions; connections come from a pool, so a session setting may miss the statement it was made for. `ByColumn` splits a foreign key of several columns as the code does; an error of `setval` is dropped (`unset`) |

`MC*` modules give TLC its instances. `WatcherProofs`, `RouteConfigProofs`,
`RouteSystemProofs` (which builds on those two), `ControlProofs`, `CertProofs`,
`ServerProofs`, `LifecycleProofs` and `MigrateProofs` hold the theorems. The
recursive definitions are in `Yaml`, `ComposeFile` and `StartOrder`, which only
`MCProject` extends: the modules with theorems know a compose file by what was
read from it. Definitions commented "a mistake" or "Mutation" are variants of a
definition with a plausible bug; each property is broken by one of them.

## Runs

Runs marked "fails" state what the repository says of the program and show that
the code does otherwise.

| Run | Instance | What it shows |
|---|---|---|
| `watcher` | two containers, one domain each and one shared, two addresses, at most 3 starts, 2 unread lines, 1 outage | see below |
| `watcher_reconnect` (fails) | as `watcher`, with longer unread input; containers change during the outage | `RoutesRecover`: a container started while the stream was down is never routed (`watcher.rs:8`) |
| `config` | a sync of two domains and an unsync of one at once, two process ids; interrupted, or failing, before the certificate, before its list of names, before the save, half-way through it | with no command under way a daemon serves the stored certificate and has the routes of the file, unless a change was never told to it; signals during a reload are not lost; only a restart ends it |
| `system` | two projects of one container, 2 starts, 2 addresses, 1 unread line, one command at a time, interrupted before saving | `SyncedRouted`: a synced container that has not changed is routed; `SystemProvenance`; one route per domain in file and table (`SystemUnambiguous`); the commands implement the registry |
| `system_reload` (fails) | as `system`, only syncs | `WatchedRouteStays`: another project's sync undoes what the watcher learned (`watcher.rs:8`, `server.rs:69`) |
| `certs` | one process, calls for no name, one and two, 6 key pairs; a CA installation that fails; death during the replacement of any file | files are never partial, a call leaves a matching pair with the right names unless it found what a dead process left, the chain is trusted |
| `certs_overlap` (fails) | two processes, no deaths | `NeverPartial` (`certs.rs:379`): the shared temporary file is truncated before the other's rename |
| `daemon` | two ids, two commands; crashes, reused ids, slow ends, overlap, ports that cannot be bound | the pid file names the daemon; stop stops; a started daemon serves; one daemon is left |
| `daemon_report` (fails) | one command, ports that cannot be bound | `FailureNoticed` (`daemon.rs:145`, `:200`): the dead child is a zombie, `kill -0` finds it, "Proxy started" is printed |
| `migrate` | a MySQL and two PostgreSQL services, two migrations with any filter, one write to the source, failing truncations and setvals, Ctrl-C; either two tables related by a key of one column or of several, or one table of each column type and value | a reported migration left the rows it read (`DoneComplete`), usable sequences, its foreign keys, and no change of a value but the listed ones; it touched only its own tables; it ends |
| `project` | up to three commands on one compose file in either runtime, with a container that may come without an address, and one fault or Ctrl-C; or the first start on Apple of a file in every spelling near the usual one, with and without a dependency cycle | routes and containers agree after success, dumps are whole, a file means the same however it is written, dependencies are first, every command ends |
| `requests` | two requests of each kind while containers, routes and the agent change; an agent that moves between two ports; three name queries over two ports | a request is given to one container at most, the one its route led to; answers match queries; the dialer's mode is right in the end |

`watcher` checks each promise under the faults it survives. The set `faults` is
chosen at the start and kept: nothing; "signals" (reported as kills, survived);
or "overtaken" and "unwatched" (containers exit between a task's inspection and
its write, and change while the stream is down). Without any fault a container
may exit at every other moment: with its start unread, with its task asleep, with
tasks of earlier lives about. `StoppedUnrouted` and `EventuallyUnrouted` hold with
signals; `RunningRouted` and `EventuallyRouted` only without, because a "kill"
drops the routes of a container that survives it; `LiveRouteStays` wherever no
container is overtaken; provenance and uniqueness always. An overtaken container
is routed after its end, or at its earlier life's address ("What the models make
visible"). Domains that two containers share are left out of what is routed (`Own`): the die of one takes the
other's route, and the code promises no more than one route.

`config` speaks of daemons that were told. A process has missed a change (`untold`)
when the command that made it was interrupted or failed before it told anybody, or
looked for the daemon by `proxy.pid` and did not find this one, which commands
that overlap bring about without any failure.

### Bounds

`watcher`, `system`: two containers suffice for every interleaving of two start
tasks or of one container's stop with another's start; the shared domain makes
them collide. Three starts allow a restart of one container beside the other's
start, with a task of the first life still waiting. One outage is one
disconnection, with a later reconnection. Two addresses and one network per
container make address reuse certain. `config`: two commands make
every overlap of load, truncation and write, and of spawn, stop and `proxy.pid`;
three would need three writers to one file, which adds no new kind of
overwriting. Two ids are a daemon and its successor or its rival for the ports.
One upstream is enough, as two domains make files, tables and certificates
differ; a domain with two upstreams is in `system`, where a restart moves a
container. `daemon`: two ids are one daemon and one stale id, or two daemons.

`certs`: six key pairs are a CA and several server certificates, with those that
dead processes leave; names for two different certificates make an old list
tell.

`migrate`: `MaxRuns` = 2 is a migration over the leavings of another, failed,
interrupted or whole, in either direction; `MaxWrites` = 1 is one row that one
table's stream sees and another's does not. `Chunk` = 1 makes two rows two
batches. Two tables carry a foreign key either way round. The types matter one
at a time, so each typed database has one column and one value.

`project`: `MaxCommands` = 3 is a command on what another left, and a passive
one (dump, import, build, pull) after those; `Focus` makes a behaviour begin
with a start or `use` and end with any passive command, as a passive command
changes nothing the next one sees but the dump file. `MaxFaults` = 1: one call
fails or one Ctrl-C comes, at any step. `PipeSize` = 1 with scripts of up to
three lines fills a pipe. The spellings differ in two things at most from the
usual one, which covers every pair of features of the reader; a first start is
one command, as reading the file depends on nothing before it. `Loaded` is the
table of all readings of those files, taken once (`LoadedAssumption` says it
is the reader's own, and TLC checks it). `ProjectIsPlain` has TLC check that these
projects meet what `RoutesFollowContainers` assumes.

`requests`: `MaxChanges` = 2 lets a container end and start again, or routes
change twice, under a request; `MaxTimeouts` = 1. A behaviour is about the agent,
or requests, or queries (`focus`): queries share nothing with the rest, and the
dialer's own steps read nothing of a request. In the behaviours about requests
an agent comes and goes at one address, and all its steps interleave with theirs.
Three queries over two ports reuse a port while a datagram for it is late.

### Fairness

The watcher's loop and its start tasks are weakly fair: tokio runs what can run.
So are each command that was called (`DaemonControl`), the
daemon's steps and its end after SIGTERM: processes are scheduled. The dialer's
task keeps looking (`Looks`: a loop with a sleep, whose probe and `whalet` call
have time-outs). A project command takes its steps, and so do its child and its
reader threads (`WF(Step)`; a child that was told to end does). A migration's
statements return. None is assumed for containers, users, crashes, outages,
clients or the network.

## Proofs

| Theorem | Says | Assumes |
|---|---|---|
| `WatcherProofs!TypeCorrect` | `TypeOK` always | - |
| `WatcherProofs!RoutesUnambiguous` | one route per domain | - |
| `WatcherProofs!RoutesProvenance` | routes lead where their container was | - |
| `WatcherProofs!StopsUnroute` | `StoppedUnrouted`: once the watcher has caught up, a stopped container has no routes, also if it died before its start was served | no exit between inspection and write (part of the property) |
| `WatcherProofs!StartsRoute` | `RunningRouted`: once it has caught up, a running container is routed to where it is | `Attached` |
| `WatcherProofs!LiveRoutesStay` | `LiveRouteStays`: no step takes a right route away but a stop, though tasks of earlier lives are asleep | the same |
| `RouteConfigProofs!ConfigTypeCorrect` | `ConfigTypeOK` always | - |
| `RouteConfigProofs!TablesUnambiguous` | one route per domain in file and table | `SingleRequests` |
| `RouteConfigProofs!CertificateIsCurrent` | with no command under way, a daemon that was told of every change serves the stored certificate, however commands overlap, fail and are interrupted | - |
| `RouteConfigProofs!DaemonCatchesUp` | `DaemonCaughtUp`: with no command, signal or reload under way, a daemon that was told of every change has the routes of the file, if that can be read | - |
| `RouteConfigProofs!OnlyRestarts` | only a restart ends a serving daemon | - |
| `RouteConfigProofs!RegistryKept` | `RouteConfig` implements `RouteRegistry` | `Serial`, no interruption before the write |
| `RouteSystemProofs!SystemTypeCorrect` | `SystemTypeOK` always | - |
| `RouteSystemProofs!SystemRoutesProvenance` | `SystemProvenance`: file and daemon lead only where the container was | `OneNetwork` |
| `RouteSystemProofs!SyncedStayRouted` | `SyncedRouted`: a synced container that has not changed is routed | `Orderly` |
| `RouteSystemProofs!SystemRegistryKept` | the commands of the whole system implement `RouteRegistry` | `OneAtATime` |
| `ControlProofs!ControlTypeCorrect` | `ControlTypeOK` always | - |
| `ControlProofs!DaemonAlwaysTracked` | with no command under way, a daemon that was not told to end is the one the pid file names | commands neither overlap nor are interrupted (part of the property) |
| `ControlProofs!StopAlwaysStops` | when a stop is done, every daemon was told to end | the same |
| `CertProofs!CertTypeCorrect` | `CertTypeOK` always | - |
| `CertProofs!NeverPartialAlone` | no file is ever half written, wherever a process dies | `~Overlap` |
| `CertProofs!ChainTrustedAlone` | `ChainTrusted`, wherever a process dies | `~Overlap` |
| `CertProofs!EnsureUsable` | `EnsureLeavesUsable`: success leaves a matching pair, with the right names if any were needed, wherever processes died before | `~Overlap`; the property excepts what a death between the renames of `server.key`, `server.pem` and `server.sans` leaves |
| `ServerProofs!RoutesToMostSpecific` | `MatchRoute` finds one of the most specific routes, and none only where none covers the host | - |
| `ServerProofs!RequestsServedOnce` | `ServedOnce` always | - |
| `ServerProofs!AnswersAreRight` | `AnswersMatch` always | - |
| `LifecycleProofs!RoutesFollowContainers` | `RoutesAgree`: after a start, restart or stop that ended well, and could list its containers and read and write the configuration, the routes say what the containers with an address say | `HookKeepsRuntime`, `DomainsDiffer` of every file |
| `LifecycleProofs!DumpsAreWhole` | `DumpsWhole`: a dump reported as done is whole, unless it is compressed, and one that fails after it opened the file leaves no part of one, unless the file could not be removed | - |
| `MigrateProofs!MigrateTypeCorrect` | `MigrateTypeOK` always | - |
| `MigrateProofs!TargetOnly` | `TouchesOnlyItsTables`: only the service `--to` names changes | - |
| `MigrateProofs!CopiedComplete` | `DoneComplete`: success means that each table holds what its stream yielded | - |
| `MigrateProofs!NextIdsFree` | `NextIdFree`: after a migration the next id is free, where setval did not fail | `SameIds` of every initial database |
| `MigrateProofs!FirstRunKeepsKeys` | `FksKept`: a first migration keeps the foreign keys of one column | `Fresh` of every initial database |
| `MigrateProofs!LossesListed` | `LossesAreListed`: no value changes but the listed ones | `KeyedById` of every initial database |

They hold for any number of containers, domains, networks, addresses, commands,
requests, queries, ids, processes, services, compose files, tables, rows and
runs, and whatever combination of faults. Beside what the table names they rest
on the types of the constants (`HostsType`, `TablesType`, `CommandsType`,
`CertBounds`, `LoadedServices`, `EnvironmentsClosed`, `MigrateAssumption`, ...),
which TLC evaluates in the runs.

Where a theorem assumes more, the run that checks its property meets the
assumption, except where it says otherwise:

- `Attached`: every container has a network. One without an address is inspected
  and given up (`handle_start`), hence has no route. `OneNetwork`: a sync
  registers the address in the first network, the watcher all of them in a row,
  which is the address of nothing when there are more than one.
- `SingleRequests`: see below.
- `Serial`, `OneAtATime`, `Orderly`: nothing locks `config.json`, so that what one
  command promises holds only if no other runs meanwhile and if it is not cut off
  between truncation and write. `Orderly` also asks for one network and for
  containers that do not exit between inspection and write: the task leaves the
  route of a dead one, or of an earlier life.
- `~Overlap`: two processes share one temporary file per target
  (`certs_overlap`).
- `HookKeepsRuntime`: what pre-start exports does not name `DIP_RUNTIME`. The
  commands keep the runtime they began with, while `sync` asks `detect_for_project`
  anew with the exported variables, so that it may list the other runtime's
  containers. `DomainsDiffer`: no two labels of a project ask for one domain, and
  no domain goes from one service to another when `.env` changes. Of two
  containers with one domain only one can have it.
- `SameIds`: the same table has an automatic id in every service or in none, and
  MySQL's next id is free, as InnoDB keeps it. Else PostgreSQL's `setval` is not
  sent for a table that needs it, as it is decided by the source's column.
- `Fresh`: MySQL and PostgreSQL share no table before the first migration, and
  MySQL's keys hold (it enforces them). A target with rows of its own may refuse
  a constraint, and the refusal is only a warning (`db/migrate.rs:212`).
- `KeyedById`: tables have an integer primary key, by which a row of the target
  is known to be the copy of one of the source. TLC checks `LossesAreListed` of
  tables without a key, or with another column as key, too; the theorem does not
  speak of them.

`DatabasesAssumption` of `MCMigrate` has TLC check that every instance satisfies
`SameIds` and `Fresh`, and that `KeyedById` holds of all related ones and of
typed ones of each kind.

- The watcher. A route's provenance is not inductive by itself: a task that has
  inspected carries an address to the table later, when the container may have
  lost it. The invariant adds that what a task carries, and every address in
  use, is in the history of leases, and that every line and task is about a
  container.
- What is routed once the watcher has caught up. `StoppedUnrouted` and
  `RunningRouted` say nothing of the time before, so the invariant (`LifeInv`)
  says what is still to come: a container that is down has no routes, or a line
  that takes them away is unread (`StopsKnown`); one that is up is routed, or its
  start is unread or in a task, and every unread stop of it has its start behind
  it (`StartsKnown`, `Outlived`). Both need that lines wait only while the stream
  is read, and that an inspected task's address is still the container's
  (`Fresh`), which is where an exit between inspection and write
  would break it. Each part is conditional on the faults it survives, as the
  properties are.
- The whole system. `SystemInv` is the two components' invariants side by side;
  a step of one has to keep the other's, as reloads assign the watcher's table
  and containers change what commands discover. For provenance every place a
  table passes through (`CP!Within`) holds only routes to leased addresses, and
  no container has more than one. For `SyncedRouted`, `FileCovers` follows the
  synced routes from request to copy to file, and `DaemonCovers` says that a
  daemon which no command is about to tell, and which has no signal to serve,
  reloads them, has them, or has a start task about to write them; in between,
  the watcher must not take one away, which is `LifeInv`'s argument again.
- Unambiguous tables. Each place a table passes through - request, a command's
  copy, the file, a reload in flight, the daemon - has to be unambiguous
  (`CleanTables`). The assumption is needed: `discover_routes` pushes two routes
  when two running containers carry the same label.
- The certificate. Between making a certificate and restarting the daemon a
  command owes a restart (`Debt`); the invariant (`RestartOwed`) says that each
  process which has read the certificate has the stored one, or is one that a
  change was never told to, or some command owes a restart. A command that ends on
  its way, or misses a process, moves every process it leaves behind into
  `untold`; a process that was killed leaves it.
- Catching up. The same with routes for names (`WordOwed`): whoever wrote the
  file owes the daemon a word (`Telltale`), and a process is up to date when it
  has the file's routes, in its table or in a reload under way, or has a signal
  to serve. While the file cannot be read nothing is asked: whoever makes it
  readable again owes the word.
- The registry. The refinement maps the registry to the routes in the file or,
  between truncation and write, to what the writer loaded. The invariant
  (`Alone`) says that one command at most is under way, that it was asked for
  something, that its copy is its request applied to what it loaded, and that
  what it loaded is what the file holds until it truncates. An interruption
  between truncation and write leaves no registry at all, overlapping commands
  lose updates: hence the two assumptions.
- Daemon control. `DaemonTracked` speaks of the times when no command is under
  way; `TrackInv` adds what holds in between (`OneFine`): between the stop of
  one daemon and the start of the next none lasts, a daemon just spawned is all
  there is though the file does not name it yet, and otherwise the file names
  the only one. A process that crashes, ends, or takes over an id never *makes*
  a daemon last, so that only the command's own steps need an argument.
- Certificates. `NeverPartial` is about the files, but it is the sibling that
  becomes the file: `AloneInv` says that the one process at work has it open
  under its own name, that it is empty until it wrote and whole afterwards, and
  that everything still to be written is whole. With two processes the first
  part fails, as `certs_overlap` shows.
- The chain. `OneCa` bounds what a death between `ca.key` and `ca.pem` leaves: a
  key without its certificate is replaced, and a certificate on disk is its key's,
  so that whatever is signed later is signed by the CA that was installed.
  `OnIts` says that a process which installs or issues has seen a CA, and that
  its sibling holds what it is about to rename.
- Usable certificates. `Settled`: key, certificate and list of names match
  whenever no process is between the renames of the server's key and of the list.
  A death there leaves a new key beside an old certificate, or an old list beside
  a new one, which later calls find good enough as long as they need the names of
  that list: `torn` remembers it until a certificate is made again.
- Routing. The routes that cover a host are exact or have their star in front.
  That the first exact one, or else the last of the longest wildcards, is found
  needs that CHOOSE finds the least and the greatest of a bounded set of
  numbers, which the library's well-foundedness of < gives.
- Requests. `ServedOnce` is not inductive: `RequestInv` ties `handled` to the
  request's state (`Fine`): nothing was handed over before "sent", exactly one
  container's name after it, and the upstream a request carries is one of those
  expected when its route was looked up.
- Queries. A late datagram may reach a later query that has its port. `QueryInv`
  adds that each datagram under way answers a query that came, with its id and
  name, and that only names that are not dip's are asked of the resolver.
- Routes of a project. `RoutesAgree` speaks of the end of a command; `TodoInv`
  says what is left to it: a routing command has its `sync` or `unsync` still
  before it, with nothing but hooks behind, or has only hooks left and routes that
  agree, unless it missed them: the listing failed, or the configuration could not
  be read or written. A configuration that is torn stays so, and every later sync
  that has something to adapt misses it. So containers change only before the routes
  are read from them. That what `sync` lists is what the command changed needs
  `CommandInv`: the runtime picked at the beginning is still the one that the
  project's environment chooses. That every listed container gets its own
  address needs `WorldInv`: each container is where its service belongs and bears
  the labels that service had in some environment, so that a domain has one
  owner (`OneOwner`). Containers outlive the environment they were made in, which
  is why the assumption speaks of all of them. `CallInv` says the same of the
  services that a call of `up` has queued; TLC checked all parts on the shop.
- Dumps. The file says nothing of a dump that is under way; `DumpInv` ties it to
  the steps left: opened and empty when only the client is, whole when none is.
- Migrations. `DoneComplete` speaks of the end; `CopyInv` says, table by table
  in their order, that those behind hold all they were read, the current one the
  batches inserted so far, and those ahead matter only as the ones a TRUNCATE
  ... CASCADE may still start from (`Begun`, `WipedSoFar`). `Aimed` keeps the
  foreign keys of the target as they were before, so that what a TRUNCATE
  reaches is known in advance. That `setval` leaves free ids where it is
  executed (`IdInv`), and that constraints are accepted at the end of a first
  run (`FirstInv`: no TRUNCATE reaches another table, every parent row a child
  needs was read and converts to a key), need the schema to stay what was
  introspected (`SchemaRead`). For the values, a row of the target is followed
  back to the row it was made from, which takes ids that are integers, unique
  among the rows read (`ReadInv`), and kept by conversion.

Model-checked only. Liveness (`EventuallyRouted`, `EventuallyUnrouted`,
`StartedServes`, `OneDaemonLeft`, `MigrationEnds`,
`CommandEnds`, `DialerFollows`), as the prover has no ENABLED. `ReadAsWritten`
and `DependenciesFirst` of `MCProject`, because they are about the reader of
compose files and the order of its services, which are recursive: the provers
cannot expand recursive operators, nor do induction over data. And
`LossesAreListed` of tables that are not keyed by an integer id. Where commands
overlap, `SyncedRouted` and the registry are neither checked nor proved: they do
not hold there.

## What the models make visible

Properties that hold are stated with the exceptions the code needs. These are
the exceptions, and what was met beside them:

- Unquoted numbers and booleans in a compose file are read as absent on Apple
  (`ReadAsWritten`, `Kept`); an unquoted database password makes the service go
  undetected. A sequence at its key's indentation is refused. A `~` source of a
  bind is joined to the base directory. Services whose names sanitise to the
  same name share a container.
- `down` is refused on Apple, so that `dip remove` of a whole project always
  fails there.
- Containers that cannot be listed are taken for none, a configuration that
  cannot be read or written is passed over: routes stay as they were, and the
  start ends well (`result.missed`). A running container without an address is
  skipped. `reset` and `remove` never sync or unsync. `sync` picks a
  runtime anew, so a pre-start hook that exports `DIP_RUNTIME` misleads it. A
  failing pre-start hook ends a restart after the containers were stopped.
- A dump whose program cannot be started leaves an empty file; a compressed one
  reports gzip's status; one that failed is left where its file cannot be
  removed. An import through psql reports success after failed statements. The
  only database service is taken whatever `--service` says.
- A second migration to PostgreSQL empties children it has just copied, when a
  parent sorts after them (`Wiped`); a refused TRUNCATE is ignored
  and rows are added to old ones; so is a failed `setval`, and the next insert
  collides. Foreign keys of several columns are lost. BIT, and
  what cannot be decoded, becomes NULL; parts of a second are rounded by TIME and
  DATETIME columns (`ListedLoss`).
- A container that exits after its start task inspected it, and before the task
  gets the lock, is routed after its end; if it is restarted meanwhile, the older
  task may write the earlier address over the new one ("overtaken").
- A command that looks for the daemon between another's spawn and its write of
  `proxy.pid`, or after another removed that file, finds none: the daemon that
  serves keeps the certificate and the routes before, though nothing failed
  (`untold`).
- A process that dies between the renames of `server.pem` and `server.sans` leaves
  the old list beside the new certificate: a later call for the old names keeps
  a certificate without them (`torn`).
- On Apple, status 130 of a call of `container` passes for success.
- The dialer keeps a known address as long as anything speaks SOCKS5 there,
  without asking `whalet` again. Answers to name queries are matched by id, not
  by question. A route is looked up before a request's body is collected, so an
  address that is reused meanwhile gets the request.
- A command interrupted between spawning the daemon and writing its id leaves a
  daemon no command finds.

## Not modelled

Ports in the watcher's upstreams; the fields of `config.json` that are not
routes; headers and bodies; time (delays and time-outs are steps that may come
at any moment); expiry and fields of certificates; wildcard names (a set of
names stands for them); output. Characters: tokens, labels and words stand for
them. Column sizes, defaults and quoting in migrations. Docker's socket, which
answers `ps` queries and leaves them to the command line on any failure: both
are taken to give one answer. A hook's background process that holds stdout open
keeps the command waiting: a child's end closes its pipes here. Lines of `docker
events` are well-formed. A process of `RouteConfig` gets both ports or ends;
reused ids and slow ends are `DaemonControl`'s subject. What `ReadAsWritten`
does not claim is in its comment (booleans, `$NAME` without braces, bare names
in `environment`, sequences at their key's indentation, folded blocks with
deeper lines). Nothing removes the files of the CA, and certificates do not
expire.

Whole components: the tunnel (one ssh child until Ctrl-C), templates and
`update-commands`, self update, argument parsing, validation, doctor, health,
inspection commands and output helpers: sequential, without state of their own,
or pure I/O. The DNS wizard of `proxy init` and the resolver set-up of
`dns/mod.rs` are edits of system files through sudo.

## Plan

1. Done: the modules, runs and theorems above.
2. Theorems next: that the daemon's table implements a registry of its own, given
   in turn by the file and by the engine; what `DependenciesFirst` says of an
   order that is given as a relation instead of computed.
