----------------------------- MODULE RouteSystem ----------------------------
(* The routing half of dip as a whole: containers that come and go, the     *)
(* commands that write what they discover into config.json, the daemon that *)
(* reloads the file on SIGHUP, and its watcher, which changes the same      *)
(* in-memory table from container events and never writes the file.         *)
EXTENDS Watcher

CONSTANTS
  Clis, Pids, NoPid, Serial, Breakable,    \* see RouteConfig
  Projects,                   \* the containers of each project
  Ops                         \* the commands that are run

ASSUME ProjectsType == Projects \subseteq SUBSET Containers

VARIABLES file, cli, made, sans, record, pid, boots, daemon, dpid, hup, reload, acceptor, untold,
  synced    \* history: containers that did not change since a sync, not interrupted, read them

fileVars == <<file, cli, made, sans, record, pid>>
processVars == <<boots, daemon, dpid, hup, reload, acceptor, untold>>
loopVars == <<phase, backoff, tasks, link, pipe>>
systemVars == <<vars, fileVars, processVars, synced>>

(* What commands may ask for: routes to first addresses, domains to drop.   *)
Requested ==
  LET Found == [domain : Domains, upstream : {<<a>> : a \in Addrs}] IN
  [op : {"sync"}, new : (SUBSET Found) \ {{}}, gone : {{}}]
    \cup [op : {"unsync"}, new : {{}}, gone : (SUBSET Domains) \ {{}}]

Config == INSTANCE RouteConfig WITH
  Upstreams <- Seq(Addrs), Requests <- Requested, Sans <- Domains,
  San <- [d \in Domains |-> d]

ASSUME PidsFresh == NoPid \notin Pids
ASSUME CommandsType == Serial \in BOOLEAN /\ Breakable \subseteq Config!Steps

SystemTypeOK ==
  TypeOK /\ Config!ConfigTypeOK /\ synced \subseteq Containers

SystemInit == Init /\ Config!ConfigInit /\ synced = {}

(* A container changes, whoever asked for it and whether or not the daemon  *)
(* is there to be told.  That the stream breaks while the daemon lives is     *)
(* Watcher's subject; here it ends with the daemon.                         *)
Change(c) ==
  /\ Len(pipe) < MaxPipe
  /\ \/ ContainerStart(c)
     \/ ContainerStop(c)
     \/ MayExit(c) /\ ContainerExit(c)
  /\ synced' = synced \ {c}
  /\ UNCHANGED <<watcherVars, faults, fileVars, processVars>>

(* The watcher's tasks live in the daemon.                                  *)
WatcherStep ==
  /\ daemon = "on"
  /\ Loop \/ StartTask
  /\ UNCHANGED <<faults, fileVars, processVars, synced>>

(* discover_routes: the running containers, by the address in their first   *)
(* network.  discover_project_domains: all containers there are.            *)
FirstAddress(c) == <<ips[c][1]>>
Discovered(project) ==
  UNION {{[domain |-> d, upstream |-> FirstAddress(c)] : d \in Hosts[c]} :
           c \in {x \in project : Up(x) /\ ips[x] # << >>}}
ProjectDomains(project) ==
  UNION {Hosts[c] : c \in {x \in project : gen[x] > 0 /\ state[x] # "gone"}}

Sync(p, project) ==
  /\ "sync" \in Ops /\ Discovered(project) # {}
  /\ Config!Begin(p, [op |-> "sync", new |-> Discovered(project), gone |-> {}])
  /\ synced' = synced \cup {c \in project : state[c] = "up"}
  /\ UNCHANGED <<engineVars, phase, backoff, tasks, faults>>

Unsync(p, project) ==
  /\ "unsync" \in Ops /\ ProjectDomains(project) # {}
  /\ Config!Begin(p, [op |-> "unsync", new |-> {}, gone |-> ProjectDomains(project)])
  /\ synced' = synced \ project
  /\ UNCHANGED <<engineVars, phase, backoff, tasks, faults>>

(* A step of a command or of the daemon.  With the process go its watcher,  *)
(* the tasks and the stream.                                                *)
Proceed ==
  /\ (\E p \in Clis : Config!CliStep(p)) \/ Config!DaemonStep
  /\ IF daemon' = "off"
     THEN phase' = "idle" /\ backoff' = 2 /\ tasks' = {} /\ link' = "closed" /\ pipe' = << >>
     ELSE UNCHANGED loopVars
  /\ UNCHANGED <<state, ips, gen, outages, leases, faults, synced>>

(* A command is interrupted: it has not done what it was called for.        *)
Interrupted ==
  /\ \E p \in Clis : Config!Interrupt(p)
  /\ synced' = {}
  /\ UNCHANGED vars

SystemNext ==
  \/ \E c \in Containers : Change(c)
  \/ WatcherStep
  \/ \E p \in Clis, project \in Projects : Sync(p, project) \/ Unsync(p, project)
  \/ Proceed
  \/ Interrupted

SystemSpec == SystemInit /\ [][SystemNext]_systemVars
-----------------------------------------------------------------------------
(* Properties                                                              *)

Settled ==
  /\ daemon = "on" /\ dpid \notin untold /\ Quiet /\ ~hup /\ reload = {}
  /\ \A p \in Clis : cli[p].pc = "idle"

(* What `dip start` is for: a container that has not changed since a sync   *)
(* read it is routed to where it is, through every reload, restart of the   *)
(* daemon and event about an earlier life of the container still in the     *)
(* pipe; unless the daemon is one the command could not find in proxy.pid.  *)
SyncedRouted == Settled => \A c \in synced : Routed(c)

(* Fed with what containers are labelled with, and with the daemon and its  *)
(* watcher at work, the commands still keep a registry: see RouteConfig.    *)
CommandsKeepRegistry == Config!KeepsRegistry

(* The daemon's table has two kinds of writers, the reload, which replaces  *)
(* it by what the commands wrote, and the watcher, which edits it: neither  *)
(* makes the other leave two routes for a domain, in the table or the file. *)
SystemUnambiguous == Config!OneRoutePerDomain

(* Neither the file nor the daemon ever sends a domain to an address that   *)
(* was not given to a container labelled with it.                           *)
SystemProvenance ==
  \A r \in table \cup file.routes : \E c \in Containers :
    r.domain \in Hosts[c] /\ <<c, r.upstream>> \in leases

(* "container IPs change - routes update within seconds without any manual  *)
(* `dip start`" (watcher.rs:8): where only syncs are run, none of which     *)
(* asks to drop a route, a running container keeps the route the watcher    *)
(* gave it.                                                                 *)
WatchedRouteStays ==
  [][\A c \in Containers :
       /\ daemon = "on" /\ daemon' = "on"
       /\ state[c] = "up" /\ state'[c] = "up" /\ Routed(c) /\ ~StopPending(c)
       => Routed(c)']_systemVars
=============================================================================
