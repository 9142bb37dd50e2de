------------------------------ MODULE Watcher -------------------------------
(* The event watcher of the proxy daemon, src/proxy/watcher.rs: it reads    *)
(* `docker events`, registers the routes of a container that starts and     *)
(* drops those of one that stops, in the route table the request handlers   *)
(* read.  A "start" is served by a task of its own, which sleeps, inspects  *)
(* the container and takes the write lock afterwards; a "stop" is served    *)
(* at once by the loop that reads the stream.                               *)
EXTENDS DockerEngine, FiniteSets

CONSTANTS
  Domains,      \* domains the labels of containers name
  Hosts,        \* Hosts[c]: the domains of c's dip.host labels
  Faults        \* the combinations of FaultKinds to look at

ASSUME HostsType == Hosts \in [Containers -> SUBSET Domains]
(* "overtaken": a container exits between a task's inspection of it and the *)
(* task's write; "unwatched": containers change while the stream is         *)
(* interrupted; "signals": containers are sent signals they survive.        *)
FaultKinds == {"overtaken", "unwatched", "signals"}
ASSUME FaultsType == Faults \subseteq SUBSET FaultKinds

VARIABLES
  phase,    \* "idle" (about to spawn), "reading" the stream, or "sleeping"
  backoff,  \* seconds the next sleep takes
  tasks,    \* the start tasks that have not finished
  table,    \* the daemon's routes, behind the write lock
  faults    \* what goes wrong in this behaviour

watcherVars == <<phase, backoff, tasks, table>>
vars == <<engineVars, watcherVars, faults>>

(* What container_ip returns is the text `docker inspect` prints, the       *)
(* addresses of all networks one after the other with nothing in between:   *)
(* a sequence of addresses, and an address only if it has one element.      *)
Table == INSTANCE RouteTable WITH Upstreams <- Seq(Addrs)
Backoffs == {2, 4, 8, 16, 30}
Task == [id : Containers, gen : Nat, pc : {"sleeping", "inspected"}, ip : Seq(Addrs)]

WatcherTypeOK ==
  /\ phase \in {"idle", "reading", "sleeping"}
  /\ backoff \in Backoffs
  /\ tasks \in SUBSET Task
  /\ table \in SUBSET Table!Route
  /\ link = "open" => phase = "reading"

TypeOK == EngineTypeOK /\ WatcherTypeOK /\ faults \in Faults

WatcherInit ==
  /\ phase = "idle" /\ backoff = 2
  /\ tasks = {} /\ table = {}

Init == EngineInit /\ WatcherInit /\ faults \in Faults
-----------------------------------------------------------------------------
(* run / watch_loop: the life of the stream                                *)

Connect ==
  /\ phase = "idle"
  /\ phase' = "reading"
  /\ link' = "open" /\ pipe' = << >>
  /\ UNCHANGED <<state, ips, gen, outages, leases, backoff, tasks, table>>

(* `docker` cannot be spawned.                                             *)
SpawnFails ==
  /\ phase = "idle" /\ outages < MaxOutages
  /\ phase' = "sleeping"
  /\ outages' = outages + 1
  /\ UNCHANGED <<state, ips, gen, link, pipe, leases, backoff, tasks, table>>

(* The lines end and watch_loop bails; run sleeps before it tries again.   *)
LoopFails ==
  /\ phase = "reading" /\ link = "ended" /\ pipe = << >>
  /\ phase' = "sleeping"
  /\ link' = "closed"
  /\ UNCHANGED <<state, ips, gen, pipe, outages, leases, backoff, tasks, table>>

RetryShrinks ==             \* a mistake: the delay is halved
  /\ phase = "sleeping"
  /\ phase' = "idle" /\ backoff' = backoff \div 2
  /\ UNCHANGED <<engineVars, tasks, table>>

(* backoff = (backoff * 2).min(30): never reset, for watch_loop never       *)
(* returns Ok.                                                              *)
Retry ==
  /\ phase = "sleeping"
  /\ phase' = "idle"
  /\ backoff' = IF 2 * backoff < 30 THEN 2 * backoff ELSE 30
  /\ UNCHANGED <<engineVars, tasks, table>>
-----------------------------------------------------------------------------
(* The event loop: one line at a time, in order                            *)

NextLine(actions) ==
  /\ phase = "reading" /\ pipe # << >>
  /\ Head(pipe).action \in actions
  /\ pipe' = Tail(pipe)
  /\ UNCHANGED <<state, ips, gen, link, outages, leases, phase, backoff>>

SpawnIfNoTask ==            \* a mistake: one start at a time, others dropped
  /\ NextLine({"start"})
  /\ tasks' = IF tasks # {} THEN tasks
              ELSE {[id |-> Head(pipe).id, gen |-> Head(pipe).gen,
                     pc |-> "sleeping", ip |-> << >>]}
  /\ UNCHANGED table

SpawnStartTask ==
  /\ NextLine({"start"})
  /\ tasks' = tasks \cup {[id |-> Head(pipe).id, gen |-> Head(pipe).gen,
                           pc |-> "sleeping", ip |-> << >>]}
  /\ UNCHANGED table

StopActions == {"stop", "die", "kill", "destroy"}

HandleStopNotDie ==         \* a mistake: "die" is not listened to
  /\ NextLine(StopActions)
  /\ table' = IF Head(pipe).action = "die" THEN table
              ELSE Table!Without(table, Hosts[Head(pipe).id])
  /\ UNCHANGED tasks

HandleStop ==
  /\ NextLine(StopActions)
  /\ table' = Table!Without(table, Hosts[Head(pipe).id])
  /\ UNCHANGED tasks
-----------------------------------------------------------------------------
(* handle_start, in a task: inspect, and later write                       *)

InspectAnything(t) ==       \* a mistake: an empty answer is an address too
  /\ t \in tasks /\ t.pc = "sleeping"
  /\ tasks' = (tasks \ {t}) \cup {[t EXCEPT !.pc = "inspected", !.ip = ips[t.id]]}
  /\ UNCHANGED <<engineVars, phase, backoff, table>>

InspectShared(t) ==         \* a mistake: tasks share what they inspected
  /\ t \in tasks /\ t.pc = "sleeping"
  /\ \E c \in Containers :
       /\ ips[c] # << >>
       /\ tasks' = (tasks \ {t}) \cup {[t EXCEPT !.pc = "inspected", !.ip = ips[c]]}
  /\ UNCHANGED <<engineVars, phase, backoff, table>>

(* The sleep is over and `docker inspect` has answered: what it read is     *)
(* kept until the write lock is granted.  No label or no address, no route. *)
Inspect(t) ==
  /\ t \in tasks /\ t.pc = "sleeping"
  /\ tasks' = IF Hosts[t.id] = {} \/ ips[t.id] = << >>
              THEN tasks \ {t}
              ELSE (tasks \ {t}) \cup {[t EXCEPT !.pc = "inspected", !.ip = ips[t.id]]}
  /\ UNCHANGED <<engineVars, phase, backoff, table>>

RegisterPushes(t) ==        \* a mistake: push without retain
  /\ t \in tasks /\ t.pc = "inspected"
  /\ table' = table \cup {[domain |-> d, upstream |-> t.ip] : d \in Hosts[t.id]}
  /\ tasks' = tasks \ {t}
  /\ UNCHANGED <<engineVars, phase, backoff>>

RegisterReplaces(t) ==      \* a mistake: the whole table is assigned
  /\ t \in tasks /\ t.pc = "inspected"
  /\ table' = {[domain |-> d, upstream |-> t.ip] : d \in Hosts[t.id]}
  /\ tasks' = tasks \ {t}
  /\ UNCHANGED <<engineVars, phase, backoff>>

Register(t) ==
  /\ t \in tasks /\ t.pc = "inspected"
  /\ table' = Table!Upsert(table, {[domain |-> d, upstream |-> t.ip] : d \in Hosts[t.id]})
  /\ tasks' = tasks \ {t}
  /\ UNCHANGED <<engineVars, phase, backoff>>
-----------------------------------------------------------------------------
(* What of a container's life the watcher has still to act on.              *)
StartPending(c) ==
  \/ \E i \in 1..Len(pipe) : pipe[i].action = "start" /\ pipe[i].id = c
  \/ \E t \in tasks : t.id = c
StopPending(c) == \E i \in 1..Len(pipe) : pipe[i].action # "start" /\ pipe[i].id = c

(* The world around the watcher.  Before the first connection the table is  *)
(* what config.json gave the daemon, so containers change only from there.  *)
Observed == link = "open" \/ ("unwatched" \in faults /\ outages > 0)
(* A container may exit at any time: with its start unread, with its task   *)
(* asleep, with tasks of earlier lives about; but while a task of its own   *)
(* holds what it inspected and waits for the lock, only if "overtaken".     *)
Inspected(c) == \E t \in tasks : t.id = c /\ t.pc = "inspected"
MayExit(c) == "overtaken" \in faults \/ ~Inspected(c)

Engine ==
  /\ \/ \E c \in Containers :
          /\ Observed /\ Len(pipe) < MaxPipe
          /\ \/ ContainerStart(c)
             \/ ContainerRemove(c)
             \/ ContainerStop(c)
             \/ MayExit(c) /\ ContainerExit(c)
             \/ "signals" \in faults /\ ContainerSignal(c)
     \/ StreamEnds
  /\ UNCHANGED watcherVars

Loop == Connect \/ SpawnFails \/ LoopFails \/ Retry \/ SpawnStartTask \/ HandleStop
StartTask == \E t \in tasks : Inspect(t) \/ Register(t)

Next == (Engine \/ Loop \/ StartTask) /\ UNCHANGED faults

(* The daemon's own tasks run whenever they can; nothing makes a container  *)
(* start, stop or exit.                                                     *)
Spec == Init /\ [][Next]_vars
FairSpec == Spec /\ WF_vars(Loop /\ UNCHANGED faults) /\ WF_vars(StartTask /\ UNCHANGED faults)
-----------------------------------------------------------------------------
(* Properties                                                              *)

(* Domains no other container is labelled with.                            *)
Own(c) == {d \in Hosts[c] : \A o \in Containers \ {c} : d \notin Hosts[o]}
Routed(c) == \A d \in Own(c) : [domain |-> d, upstream |-> ips[c]] \in table
Unrouted(c) == \A r \in table : r.domain \notin Own(c)

(* Connected, every line read and every task finished: the watcher has      *)
(* nothing left to do.                                                      *)
Quiet == link = "open" /\ pipe = << >> /\ tasks = {}

(* "container stop -> remove route" (watcher.rs:6), and a container that    *)
(* dies before its start task runs is skipped (watcher.rs:93): once the     *)
(* watcher has caught up, a container that is not running has no routes of  *)
(* its own.  Deaths with the start unread or the task asleep are among what *)
(* is checked; the exceptions are a death between inspection and write      *)
(* ("overtaken"), after which the task writes the route of a dead container,*)
(* and changes while the stream is down.                                    *)
StoppedUnrouted ==
  Quiet /\ faults \subseteq {"signals"} =>
    \A c \in Containers : state[c] \in {"down", "gone"} => Unrouted(c)

(* "container start -> inspect new IP -> add/update route" (watcher.rs:5):  *)
(* once the watcher has caught up, a running container is routed to the     *)
(* addresses it has now.  It holds where, besides, no signal that a         *)
(* container survives is reported as a "kill".                              *)
RunningRouted ==
  Quiet /\ faults = {} => \A c \in Containers : state[c] = "up" => Routed(c)

(* While a container runs and nobody reported a stop, no step of the        *)
(* watcher takes the route to its current addresses away: not one on behalf *)
(* of another container, nor the task of an earlier start that slept        *)
(* through the death and inspects this life.  The exception is a task that  *)
(* inspected an earlier life and writes in this one; domains that           *)
(* containers share are left out (Own).                                     *)
LiveRouteStays ==
  [][\A c \in Containers :
       /\ "overtaken" \notin faults
       /\ state[c] = "up" /\ state'[c] = "up" /\ Routed(c) /\ ~StopPending(c)
       => Routed(c)']_vars

(* Whatever goes wrong: a route leads to addresses that a container with    *)
(* that very domain was given, never to another container's.                *)
RouteProvenance ==
  \A r \in table : \E c \in Containers :
    r.domain \in Hosts[c] /\ <<c, r.upstream>> \in leases

(* Start tasks of containers that share a domain race for the write lock,   *)
(* and never leave two routes of one domain.                                *)
OneRoutePerDomain == Table!Unambiguous(table)

(* The watcher catches up: a container that keeps running gets its routes,  *)
(* though the stream breaks and the loop sleeps in between.                 *)
EventuallyRouted ==
  \A c \in Containers :
    state[c] = "up" /\ faults = {} ~> (state[c] # "up" \/ Routed(c))

(* A container that stays down loses its routes for good, whenever it died, *)
(* except between a task's inspection of it and the task's write.           *)
EventuallyUnrouted ==
  \A c \in Containers :
    <>[](state[c] \in {"down", "gone"} /\ faults \subseteq {"signals"}) => <>[]Unrouted(c)

(* "This handles OrbStack/Docker Desktop restarts where container IPs       *)
(* change - routes update within seconds without any manual `dip start`"    *)
(* (watcher.rs:8): a container that keeps running gets its routes, also     *)
(* where it was started while the engine, and with it the stream, was down. *)
RoutesRecover ==
  \A c \in Containers :
    state[c] = "up" /\ faults \subseteq {"unwatched"} ~> (state[c] # "up" \/ Routed(c))
=============================================================================
