---------------------------- MODULE WatcherProofs ----------------------------
(* Theorems about the event watcher: its state has its type, the table has  *)
(* one route per domain, and every route leads where a container with that  *)
(* domain really was, for any containers, networks, labels and faults.      *)
EXTENDS Watcher, TLAPS

(* Provenance has to be carried along the way of an address: a container    *)
(* has only addresses it was given, and so has a task that inspected it.    *)
Leased == \A c \in Containers : ips[c] # << >> => <<c, ips[c]>> \in leases
InspectedLeased ==
  \A t \in tasks : t.pc = "inspected" => <<t.id, t.ip>> \in leases

IInv == TypeOK /\ Leased /\ InspectedLeased

(* What no step does to the table, whatever else fills it.                  *)
KeepsRoutes ==
  /\ OneRoutePerDomain => OneRoutePerDomain'
  /\ RouteProvenance => RouteProvenance'
-----------------------------------------------------------------------------
(* The routes a task registers are routes, one per domain.                  *)
LEMMA NewRoutes ==
  ASSUME NEW D \in SUBSET Domains, NEW ip \in Seq(Addrs)
  PROVE  /\ {[domain |-> d, upstream |-> ip] : d \in D} \in SUBSET Table!Route
         /\ Table!Unambiguous({[domain |-> d, upstream |-> ip] : d \in D})
BY DEF Table!Route, Table!Unambiguous

(* retain: what is left of a table.                                         *)
LEMMA WithoutTable ==
  ASSUME NEW T \in SUBSET Table!Route, NEW D
  PROVE  /\ Table!Without(T, D) \in SUBSET T
         /\ Table!Unambiguous(T) => Table!Unambiguous(Table!Without(T, D))
BY DEF Table!Without, Table!Unambiguous

(* retain and push: still one route per domain.                             *)
LEMMA UpsertTable ==
  ASSUME NEW T \in SUBSET Table!Route, NEW N \in SUBSET Table!Route,
         Table!Unambiguous(N)
  PROVE  /\ Table!Upsert(T, N) \in SUBSET (T \cup N)
         /\ Table!Unambiguous(T) => Table!Unambiguous(Table!Upsert(T, N))
BY DEF Table!Upsert, Table!Without, Table!Unambiguous
-----------------------------------------------------------------------------
(* Event lines are appended to the pipe and taken from its head.            *)
LEMMA EmitType ==
  ASSUME EngineTypeOK, NEW events \in Seq(Line),
         Emit(events)
  PROVE  pipe' \in Seq(Line)
BY DEF Emit, EngineTypeOK

LEMMA EventType ==
  ASSUME EngineTypeOK, NEW a \in Actions, NEW c \in Containers
  PROVE  Event(a, c) \in Line
BY DEF Event, Line, EngineTypeOK

LEMMA HeadType ==
  ASSUME EngineTypeOK, pipe # << >>
  PROVE  /\ Head(pipe) \in Line
         /\ Tail(pipe) \in Seq(Line)
BY DEF EngineTypeOK

(* A container's change keeps the engine's types, never takes a lease back, *)
(* and gives the container leased addresses or none.                        *)
LEMMA ContainerStep ==
  ASSUME EngineTypeOK, Leased, NEW c \in Containers,
         \/ ContainerStart(c) \/ ContainerStop(c) \/ ContainerSignal(c)
         \/ ContainerExit(c) \/ ContainerRemove(c)
  PROVE  EngineTypeOK' /\ Leased' /\ leases \subseteq leases' /\ link' = link
<1> USE NetsType
<1>1. CASE ContainerStart(c)
  <2>1. PICK a \in [1..Nets[c] -> Addrs \ InUse] :
          /\ ips' = [ips EXCEPT ![c] = a]
          /\ leases' = leases \cup {<<c, a>>}
    BY <1>1 DEF ContainerStart
  <2>2. a \in Seq(Addrs)
    BY <2>1
  <2>3. <<[action |-> "start", id |-> c, gen |-> gen[c] + 1]>>
          \in Seq(Line)
    BY DEF EngineTypeOK, Line, Actions
  <2>4. pipe' \in Seq(Line)
    BY <1>1, <2>3, EmitType DEF ContainerStart
  <2>5. EngineTypeOK'
    BY <1>1, <2>1, <2>2, <2>4 DEF ContainerStart, EngineTypeOK
  <2>6. Leased'
    BY <2>1 DEF Leased, EngineTypeOK
  <2> QED
    BY <1>1, <2>1, <2>5, <2>6 DEF ContainerStart
<1>2. CASE ContainerStop(c)
  <2>1. <<Event("kill", c)>> \in Seq(Line)
    BY EventType DEF Actions
  <2>2. pipe' \in Seq(Line)
    BY <1>2, <2>1, EmitType DEF ContainerStop
  <2> QED
    BY <1>2, <2>2 DEF ContainerStop, EngineTypeOK, Leased
<1>3. CASE ContainerSignal(c)
  <2>1. <<Event("kill", c)>> \in Seq(Line)
    BY EventType DEF Actions
  <2>2. pipe' \in Seq(Line)
    BY <1>3, <2>1, EmitType DEF ContainerSignal
  <2> QED
    BY <1>3, <2>2 DEF ContainerSignal, EngineTypeOK, Leased
<1>4. CASE ContainerExit(c)
  <2> DEFINE stopped == IF state[c] = "stopping" THEN <<Event("stop", c)>> ELSE << >>
  <2>1. /\ Event("die", c) \in Line
        /\ Event("stop", c) \in Line
    BY EventType DEF Actions
  <2>2. stopped \in Seq(Line) /\ <<Event("die", c)>> \in Seq(Line)
    BY <2>1
  <2> HIDE DEF stopped
  <2>3. <<Event("die", c)>> \o stopped \in Seq(Line)
    BY <2>2
  <2> USE DEF stopped
  <2>4. pipe' \in Seq(Line)
    BY <1>4, <2>3, EmitType DEF ContainerExit
  <2>5. << >> \in Seq(Addrs)
    OBVIOUS
  <2> QED
    BY <1>4, <2>4, <2>5 DEF ContainerExit, EngineTypeOK, Leased
<1>5. CASE ContainerRemove(c)
  <2>1. <<Event("destroy", c)>> \in Seq(Line)
    BY EventType DEF Actions
  <2>2. pipe' \in Seq(Line)
    BY <1>5, <2>1, EmitType DEF ContainerRemove
  <2> QED
    BY <1>5, <2>2 DEF ContainerRemove, EngineTypeOK, Leased
<1> QED
  BY <1>1, <1>2, <1>3, <1>4, <1>5
-----------------------------------------------------------------------------
(* The invariant holds at first, and no step breaks it.                     *)
LEMMA InitInv == Init => IInv /\ OneRoutePerDomain /\ RouteProvenance
<1> SUFFICES ASSUME Init PROVE IInv /\ OneRoutePerDomain /\ RouteProvenance
  OBVIOUS
<1> USE DEF Init, EngineInit, WatcherInit
<1>1. EngineTypeOK
  BY DEF EngineTypeOK
<1>2. WatcherTypeOK
  BY DEF WatcherTypeOK, Backoffs
<1> QED
  BY <1>1, <1>2 DEF IInv, TypeOK, Leased, InspectedLeased, OneRoutePerDomain,
     RouteProvenance, Table!Unambiguous

(* The parts that speak of the watcher's own state follow for steps that    *)
(* leave it alone, as long as no lease is taken back.                       *)
LEMMA EngineInv == IInv /\ Engine /\ UNCHANGED faults => IInv' /\ KeepsRoutes
<1> SUFFICES ASSUME IInv, Engine, UNCHANGED faults PROVE IInv' /\ KeepsRoutes
  OBVIOUS
<1>1. EngineTypeOK' /\ Leased' /\ leases \subseteq leases' /\ (link' = "open" => link = "open")
  <2>1. CASE StreamEnds
    BY <2>1 DEF StreamEnds, IInv, TypeOK, EngineTypeOK, Leased
  <2>2. CASE \E c \in Containers :
               \/ ContainerStart(c) \/ ContainerStop(c) \/ ContainerSignal(c)
               \/ ContainerExit(c) \/ ContainerRemove(c)
    BY <2>2, ContainerStep DEF IInv, TypeOK
  <2> QED
    BY <2>1, <2>2 DEF Engine
<1>2. UNCHANGED <<phase, backoff, tasks, table>>
  BY DEF Engine, watcherVars
<1>3. TypeOK'
  BY <1>1, <1>2 DEF IInv, TypeOK, WatcherTypeOK
<1>4. InspectedLeased' /\ (RouteProvenance => RouteProvenance')
  BY <1>1, <1>2 DEF IInv, InspectedLeased, RouteProvenance
<1> QED
  BY <1>1, <1>2, <1>3, <1>4 DEF IInv, KeepsRoutes, OneRoutePerDomain, Table!Unambiguous

(* The loop: connections come and go, a start makes a task, a stop takes    *)
(* routes away.                                                             *)
LEMMA LoopInv == IInv /\ Loop /\ UNCHANGED faults => IInv' /\ KeepsRoutes
<1> SUFFICES ASSUME IInv, Loop, UNCHANGED faults PROVE IInv' /\ KeepsRoutes
  OBVIOUS
<1> USE DEF IInv, TypeOK, KeepsRoutes, OneRoutePerDomain
<1>1. CASE Connect \/ SpawnFails \/ LoopFails \/ Retry
  <2>1. /\ UNCHANGED <<state, ips, gen, leases, tasks, table>>
        /\ pipe' = pipe \/ pipe' = << >>
        /\ outages' = outages \/ outages' = outages + 1
        /\ link' \in {"closed", "open", "ended"} /\ phase' \in {"idle", "reading", "sleeping"}
        /\ link' = "open" => phase' = "reading"
    BY <1>1 DEF Connect, SpawnFails, LoopFails, Retry, EngineTypeOK, WatcherTypeOK, engineVars
  <2>2. backoff' \in Backoffs
    BY <1>1 DEF Connect, SpawnFails, LoopFails, Retry, WatcherTypeOK, Backoffs
  <2>3. EngineTypeOK'
    <3>1. << >> \in Seq(Line)
      OBVIOUS
    <3>2. pipe \in Seq(Line)
      BY DEF EngineTypeOK
    <3>3. pipe' = pipe \/ pipe' = << >>
      BY <2>1
    <3>4. pipe' \in Seq(Line)
      BY <3>1, <3>2, <3>3, Zenon
    <3>5. outages' \in Nat
      BY <2>1 DEF EngineTypeOK
    <3> QED
      BY <2>1, <3>4, <3>5 DEF EngineTypeOK
  <2> QED
    BY <2>1, <2>2, <2>3 DEF WatcherTypeOK, Leased, InspectedLeased, RouteProvenance,
       Table!Unambiguous
<1>2. CASE SpawnStartTask \/ HandleStop
  <2>1. /\ UNCHANGED <<state, ips, gen, link, outages, leases, phase, backoff>>
        /\ pipe # << >> /\ pipe' = Tail(pipe)
    BY <1>2 DEF SpawnStartTask, HandleStop, NextLine
  <2>2. Head(pipe) \in Line /\ EngineTypeOK'
    BY <2>1, HeadType DEF EngineTypeOK
  <2>3. CASE SpawnStartTask
    <3> DEFINE new == [id |-> Head(pipe).id, gen |-> Head(pipe).gen,
                       pc |-> "sleeping", ip |-> << >>]
    <3>1. new \in Task /\ new.pc = "sleeping"
      BY <2>2 DEF Task, Line
    <3>2. tasks' = tasks \cup {new} /\ table' = table
      BY <2>3 DEF SpawnStartTask
    <3> HIDE DEF new
    <3> QED
      BY <2>1, <2>2, <3>1, <3>2 DEF WatcherTypeOK, Leased, InspectedLeased,
         RouteProvenance, Table!Unambiguous
  <2>4. CASE HandleStop
    <3>1. tasks' = tasks /\ table' = Table!Without(table, Hosts[Head(pipe).id])
      BY <2>4 DEF HandleStop
    <3>2. table' \in SUBSET table /\ (Table!Unambiguous(table) => Table!Unambiguous(table'))
      BY <3>1, WithoutTable DEF WatcherTypeOK
    <3> QED
      BY <2>1, <2>2, <3>1, <3>2 DEF WatcherTypeOK, Leased, InspectedLeased,
         RouteProvenance, Table!Unambiguous
  <2> QED
    BY <1>2, <2>3, <2>4
<1> QED
  BY <1>1, <1>2 DEF Loop

(* A start task: it carries a leased address from the inspection to the     *)
(* table, where it replaces the routes of its domains.                      *)
LEMMA StartTaskInv == IInv /\ StartTask /\ UNCHANGED faults => IInv' /\ KeepsRoutes
<1> SUFFICES ASSUME IInv, NEW t \in tasks, Inspect(t) \/ Register(t), UNCHANGED faults
             PROVE  IInv' /\ KeepsRoutes
  BY DEF StartTask
<1> USE DEF IInv, TypeOK, KeepsRoutes, OneRoutePerDomain
<1>1. t \in Task
  BY DEF WatcherTypeOK
<1>2. /\ UNCHANGED engineVars /\ UNCHANGED <<phase, backoff>>
      /\ EngineTypeOK' /\ Leased'
  BY DEF Inspect, Register, engineVars, EngineTypeOK, Leased
<1>3. CASE Inspect(t)
  <2> DEFINE done == [t EXCEPT !.pc = "inspected", !.ip = ips[t.id]]
  <2>1. done \in Task
    BY <1>1 DEF Task, EngineTypeOK
  <2>2. \/ tasks' = tasks \ {t}
        \/ /\ tasks' = (tasks \ {t}) \cup {done}
           /\ ips[t.id] # << >>
    BY <1>3 DEF Inspect
  <2>3. ips[t.id] # << >> => <<done.id, done.ip>> \in leases
    BY <1>1 DEF Task, Leased
  <2>4. table' = table
    BY <1>3 DEF Inspect
  <2> HIDE DEF done
  <2>5. tasks' \in SUBSET Task /\ InspectedLeased'
    BY <1>2, <2>1, <2>2, <2>3 DEF WatcherTypeOK, InspectedLeased, engineVars
  <2> QED
    BY <1>2, <2>4, <2>5 DEF WatcherTypeOK, RouteProvenance, Table!Unambiguous, engineVars
<1>4. CASE Register(t)
  <2> DEFINE new == {[domain |-> d, upstream |-> t.ip] : d \in Hosts[t.id]}
  <2>1. /\ Hosts[t.id] \in SUBSET Domains /\ t.ip \in Seq(Addrs) /\ t.id \in Containers
        /\ <<t.id, t.ip>> \in leases
    BY <1>1, <1>4, HostsType DEF Register, Task, InspectedLeased
  <2>2. new \in SUBSET Table!Route /\ Table!Unambiguous(new)
    BY <2>1, NewRoutes
  <2>3. table' = Table!Upsert(table, new) /\ tasks' = tasks \ {t}
    BY <1>4 DEF Register
  <2>4. \A r \in new : r.domain \in Hosts[t.id] /\ r.upstream = t.ip
    OBVIOUS
  <2> HIDE DEF new
  <2>5. table' \in SUBSET (table \cup new) /\ (Table!Unambiguous(table) => Table!Unambiguous(table'))
    BY <2>2, <2>3, UpsertTable DEF WatcherTypeOK
  <2>6. RouteProvenance => RouteProvenance'
    BY <1>2, <2>1, <2>4, <2>5 DEF RouteProvenance, engineVars
  <2> QED
    BY <1>2, <2>2, <2>3, <2>5, <2>6 DEF WatcherTypeOK, InspectedLeased, engineVars
<1> QED
  BY <1>3, <1>4

LEMMA NextInv == IInv /\ [Next]_vars => IInv' /\ KeepsRoutes
<1>1. IInv /\ UNCHANGED vars => IInv' /\ KeepsRoutes
  BY DEF vars, engineVars, watcherVars, IInv, TypeOK, EngineTypeOK, WatcherTypeOK,
     Leased, InspectedLeased, KeepsRoutes, OneRoutePerDomain, RouteProvenance, Table!Unambiguous
<1> QED
  BY <1>1, EngineInv, LoopInv, StartTaskInv DEF Next

(* Types, leases and what inspections hold, at every moment of the watcher  *)
(* and the engine.                                                          *)
THEOREM Invariant == Spec => []IInv
BY InitInv, NextInv, PTL DEF Spec
-----------------------------------------------------------------------------
(* The state of the engine and the watcher has its type in every behaviour; *)
(* in particular the watcher reads whenever a stream is open, and the sleep  *)
(* between two connections is one of the five lengths up to 30 seconds.     *)
THEOREM TypeCorrect == Spec => []TypeOK
BY Invariant, PTL DEF IInv

(* watcher.rs, handle_start: retain and push under one write lock leave no  *)
(* two routes of one domain, however the start tasks of containers that     *)
(* share it are ordered.                                                    *)
THEOREM RoutesUnambiguous == Spec => []OneRoutePerDomain
BY Invariant, InitInv, NextInv, PTL DEF Spec, KeepsRoutes

(* watcher.rs, handle_start: a route leads to addresses the engine gave to  *)
(* a container labelled with the route's domain, also where the container   *)
(* died, was started again or was renumbered between inspection and write.  *)
THEOREM RoutesProvenance == Spec => []RouteProvenance
BY Invariant, InitInv, NextInv, PTL DEF Spec, KeepsRoutes
-----------------------------------------------------------------------------
(* What is still to be read of a container's life.  A stop line is outlived *)
(* when a start line comes behind it.                                       *)
StartLine(c) == \E i \in 1..Len(pipe) : pipe[i].action = "start" /\ pipe[i].id = c
Outlived(c) ==
  \A i \in 1..Len(pipe) : pipe[i].action # "start" /\ pipe[i].id = c =>
    \E j \in 1..Len(pipe) : j > i /\ pipe[j].action = "start" /\ pipe[j].id = c

(* Lines that are appended come behind all others.                          *)
LEMMA Appended ==
  ASSUME EngineTypeOK, NEW events \in Seq(Line), pipe' = pipe \o events, NEW c \in Containers
  PROVE  /\ StopPending(c) => StopPending(c)'
         /\ StopPending(c)' => \/ StopPending(c)
                               \/ \E i \in 1..Len(events) : events[i].action # "start" /\ events[i].id = c
         /\ StartLine(c)' <=> \/ StartLine(c)
                              \/ \E i \in 1..Len(events) : events[i].action = "start" /\ events[i].id = c
         /\ Outlived(c) /\ (\A i \in 1..Len(events) : events[i].id = c => events[i].action = "start")
              => Outlived(c)'
<1>1. /\ pipe \in Seq(Line) /\ Len(pipe) \in Nat /\ Len(events) \in Nat
      /\ Len(pipe') = Len(pipe) + Len(events)
      /\ \A i \in 1..Len(pipe) : pipe'[i] = pipe[i]
      /\ \A i \in 1..Len(events) : pipe'[Len(pipe) + i] = events[i]
  BY DEF EngineTypeOK
<1>2. ASSUME NEW i \in 1..Len(pipe') PROVE i \in 1..Len(pipe) \/ i - Len(pipe) \in 1..Len(events)
  BY <1>1
<1>3. ASSUME NEW i \in 1..Len(pipe'), i \notin 1..Len(pipe)
      PROVE  i - Len(pipe) \in 1..Len(events) /\ pipe'[i] = events[i - Len(pipe)]
  <2>1. i - Len(pipe) \in 1..Len(events) /\ Len(pipe) + (i - Len(pipe)) = i
    BY <1>1, <1>3
  <2> QED
    BY <1>1, <2>1
<1>4. \A i \in 1..Len(pipe) : i \in 1..Len(pipe')
  BY <1>1
<1>5. \A i \in 1..Len(events) : Len(pipe) + i \in 1..Len(pipe')
  BY <1>1
<1>6. /\ StopPending(c) => StopPending(c)'
      /\ StopPending(c)' => \/ StopPending(c)
                            \/ \E i \in 1..Len(events) : events[i].action # "start" /\ events[i].id = c
  BY <1>1, <1>3, <1>4 DEF StopPending
<1>7. StartLine(c)' <=> \/ StartLine(c)
                        \/ \E i \in 1..Len(events) : events[i].action = "start" /\ events[i].id = c
  BY ZenonT(60), <1>1, <1>3, <1>4, <1>5 DEF StartLine
<1>8. ASSUME Outlived(c), \A i \in 1..Len(events) : events[i].id = c => events[i].action = "start"
      PROVE  Outlived(c)'
  <2> SUFFICES ASSUME NEW i \in 1..Len(pipe'), pipe'[i].action # "start", pipe'[i].id = c
               PROVE  \E j \in 1..Len(pipe') : j > i /\ pipe'[j].action = "start" /\ pipe'[j].id = c
    BY DEF Outlived
  <2>1. i \in 1..Len(pipe)
    BY <1>3, <1>8
  <2>2. PICK j \in 1..Len(pipe) : j > i /\ pipe[j].action = "start" /\ pipe[j].id = c
    BY <1>1, <1>8, <2>1 DEF Outlived
  <2> QED
    BY <1>1, <1>4, <2>2
<1> QED
  BY <1>6, <1>7, <1>8

(* The head of the pipe is taken.                                           *)
LEMMA Taken ==
  ASSUME EngineTypeOK, pipe # << >>, pipe' = Tail(pipe), NEW c \in Containers
  PROVE  /\ StopPending(c)' => StopPending(c)
         /\ StopPending(c) => StopPending(c)' \/ (Head(pipe).action # "start" /\ Head(pipe).id = c)
         /\ StartLine(c)' => StartLine(c)
         /\ StartLine(c) => StartLine(c)' \/ (Head(pipe).action = "start" /\ Head(pipe).id = c)
         /\ Outlived(c) => Outlived(c)'
         /\ Outlived(c) /\ Head(pipe).action # "start" /\ Head(pipe).id = c => StartLine(c)'
<1>1. /\ pipe \in Seq(Line) /\ Len(pipe) \in Nat \ {0} /\ Len(pipe') = Len(pipe) - 1
      /\ \A i \in 1..Len(pipe') : pipe'[i] = pipe[i + 1] /\ i + 1 \in 1..Len(pipe)
      /\ Head(pipe) = pipe[1]
  BY DEF EngineTypeOK
<1>2. ASSUME NEW i \in 1..Len(pipe), i # 1 PROVE i - 1 \in 1..Len(pipe') /\ pipe'[i - 1] = pipe[i]
  BY <1>1, <1>2
<1>3. /\ StopPending(c)' => StopPending(c)
      /\ StopPending(c) => StopPending(c)' \/ (Head(pipe).action # "start" /\ Head(pipe).id = c)
  BY <1>1, <1>2 DEF StopPending
<1>4. /\ StartLine(c)' => StartLine(c)
      /\ StartLine(c) => StartLine(c)' \/ (Head(pipe).action = "start" /\ Head(pipe).id = c)
  BY <1>1, <1>2 DEF StartLine
<1>5. ASSUME Outlived(c) PROVE Outlived(c)'
  <2> SUFFICES ASSUME NEW i \in 1..Len(pipe'), pipe'[i].action # "start", pipe'[i].id = c
               PROVE  \E j \in 1..Len(pipe') : j > i /\ pipe'[j].action = "start" /\ pipe'[j].id = c
    BY DEF Outlived
  <2>1. PICK j \in 1..Len(pipe) : j > i + 1 /\ pipe[j].action = "start" /\ pipe[j].id = c
    BY <1>1, <1>5 DEF Outlived
  <2>2. j # 1 /\ j - 1 > i
    BY <1>1, <2>1
  <2> QED
    BY <1>2, <2>1, <2>2
<1>6. ASSUME Outlived(c), Head(pipe).action # "start", Head(pipe).id = c PROVE StartLine(c)'
  <2>1. PICK j \in 1..Len(pipe) : j > 1 /\ pipe[j].action = "start" /\ pipe[j].id = c
    BY <1>1, <1>6 DEF Outlived
  <2> QED
    BY <1>2, <2>1 DEF StartLine
<1> QED
  BY <1>3, <1>4, <1>5, <1>6

(* Each change of a container reports lines of its own, a start one start   *)
(* line, and all others none.                                               *)
Changes(c) ==
  ContainerStart(c) \/ ContainerStop(c) \/ ContainerSignal(c) \/ ContainerExit(c) \/ ContainerRemove(c)

LEMMA ChangeEvents ==
  ASSUME EngineTypeOK, NEW c \in Containers, Changes(c)
  PROVE  \E events \in Seq(Line) :
           /\ Emit(events) /\ Len(events) \in Nat \ {0}
           /\ \A i \in 1..Len(events) : events[i].id = c /\ (events[i].action = "start" <=> ContainerStart(c))
<1> DEFINE Reports(events) ==
             /\ events \in Seq(Line) /\ Emit(events) /\ Len(events) \in Nat \ {0}
             /\ \A i \in 1..Len(events) : events[i].id = c /\ (events[i].action = "start" <=> ContainerStart(c))
<1>1. CASE ContainerStart(c)
  <2> DEFINE line == [action |-> "start", id |-> c, gen |-> gen[c] + 1]
  <2>1. line \in Line /\ line.id = c /\ line.action = "start"
    BY DEF EngineTypeOK, Line, Actions
  <2>2. Emit(<<line>>)
    BY <1>1 DEF ContainerStart
  <2> HIDE DEF line
  <2>3. Reports(<<line>>)
    BY <1>1, <2>1, <2>2
  <2> QED
    BY <2>3
<1>2. ASSUME NEW a \in Actions \ {"start"} PROVE Event(a, c) \in Line /\ Event(a, c).id = c /\ Event(a, c).action = a
  BY DEF Event, EngineTypeOK, Line
<1>3. ~ContainerStart(c) \/ state[c] = "down"
  BY DEF ContainerStart
<1>4. ASSUME NEW a \in Actions \ {"start"}, Emit(<<Event(a, c)>>), ~ContainerStart(c) PROVE Reports(<<Event(a, c)>>)
  BY <1>2, <1>4
<1>5. CASE ContainerStop(c) \/ ContainerSignal(c)
  <2>1. Emit(<<Event("kill", c)>>) /\ ~ContainerStart(c) /\ "kill" \in Actions \ {"start"}
    BY <1>3, <1>5 DEF ContainerStop, ContainerSignal, Actions
  <2>2. Reports(<<Event("kill", c)>>)
    BY <1>4, <2>1
  <2> QED
    BY <2>2
<1>6. CASE ContainerRemove(c)
  <2>1. state'[c] = "gone"
    BY <1>6 DEF ContainerRemove, EngineTypeOK
  <2>2. Emit(<<Event("destroy", c)>>) /\ ~ContainerStart(c) /\ "destroy" \in Actions \ {"start"}
    BY <1>6, <2>1 DEF ContainerRemove, ContainerStart, EngineTypeOK, Actions
  <2>3. Reports(<<Event("destroy", c)>>)
    BY <1>4, <2>2
  <2> QED
    BY <2>3
<1>7. CASE ContainerExit(c)
  <2> DEFINE die == Event("die", c)
             stop == Event("stop", c)
  <2>1. /\ die \in Line /\ die.id = c /\ die.action # "start"
        /\ stop \in Line /\ stop.id = c /\ stop.action # "start"
    BY <1>2 DEF Actions
  <2>2. ~ContainerStart(c)
    BY <1>3, <1>7 DEF ContainerExit, Up
  <2>3. Emit(<<die>> \o IF state[c] = "stopping" THEN <<stop>> ELSE << >>)
    BY <1>7 DEF ContainerExit
  <2> HIDE DEF die, stop
  <2>4. CASE state[c] = "stopping"
    <3> DEFINE both == <<die>> \o <<stop>>
    <3>1. Emit(both)
      BY <2>3, <2>4
    <3>2. both \in Seq(Line) /\ Len(both) = 2 /\ both[1] = die /\ both[2] = stop
      BY <2>1
    <3> HIDE DEF both
    <3>3. Reports(both)
      BY <2>1, <2>2, <3>1, <3>2
    <3> QED
      BY <3>3
  <2>5. CASE state[c] # "stopping"
    <3>1. Emit(<<die>>)
      BY <2>3, <2>5
    <3>2. Reports(<<die>>)
      BY <2>1, <2>2, <3>1
    <3> QED
      BY <3>2
  <2> QED
    BY <2>4, <2>5
<1> QED
  BY <1>1, <1>5, <1>6, <1>7 DEF Changes

(* What that does to the lines still to be read.                            *)
LEMMA ChangeLines ==
  ASSUME EngineTypeOK, NEW c \in Containers, Changes(c), NEW o \in Containers
  PROVE  /\ StopPending(o) => StopPending(o)'
         /\ StartLine(o) => StartLine(o)'
         /\ StartLine(o)' => StartLine(o) \/ (o = c /\ ContainerStart(c))
         /\ Outlived(o) /\ (o # c \/ ContainerStart(c)) => Outlived(o)'
         /\ StopPending(o)' => StopPending(o) \/ (o = c /\ ~ContainerStart(c))
         /\ link = "open" /\ ~ContainerStart(c) => StopPending(c)'
         /\ link = "open" /\ ContainerStart(c) => StartLine(c)' /\ Outlived(c)'
<1>1. PICK events \in Seq(Line) :
        /\ Emit(events) /\ Len(events) \in Nat \ {0}
        /\ \A i \in 1..Len(events) : events[i].id = c /\ (events[i].action = "start" <=> ContainerStart(c))
  BY ChangeEvents
<1>2. CASE link # "open"
  <2>1. pipe' = pipe
    BY <1>1, <1>2 DEF Emit
  <2> QED
    BY <1>2, <2>1 DEF StopPending, StartLine, Outlived
<1>3. CASE link = "open"
  <2>1. pipe' = pipe \o events
    BY <1>1, <1>3 DEF Emit
  <2>2. 1 \in 1..Len(events)
    BY <1>1
  <2>3. \A e \in Containers :
          /\ StopPending(e) => StopPending(e)'
          /\ StopPending(e)' => \/ StopPending(e)
                                \/ \E i \in 1..Len(events) : events[i].action # "start" /\ events[i].id = e
          /\ StartLine(e)' <=> \/ StartLine(e)
                               \/ \E i \in 1..Len(events) : events[i].action = "start" /\ events[i].id = e
          /\ Outlived(e) /\ (\A i \in 1..Len(events) : events[i].id = e => events[i].action = "start")
               => Outlived(e)'
    BY <2>1, Appended
  <2>4. ASSUME ~ContainerStart(c) PROVE StopPending(c)'
    <3>1. /\ pipe'[Len(pipe) + 1] = events[1] /\ Len(pipe) + 1 \in 1..Len(pipe')
      BY <1>1, <2>1, <2>2 DEF EngineTypeOK
    <3> QED
      BY <1>1, <2>2, <2>4, <3>1 DEF StopPending
  <2>5. ASSUME ContainerStart(c) PROVE Outlived(c)'
    <3>1. pipe \in Seq(Line)
      BY DEF EngineTypeOK
    <3>2. /\ Len(pipe') = Len(pipe) + Len(events) /\ Len(pipe) \in Nat
          /\ \A i \in 1..Len(events) : pipe'[Len(pipe) + i] = events[i]
      BY <1>1, <2>1, <3>1
    <3> DEFINE n == Len(pipe')
    <3>3. n \in Nat \ {0} /\ n \in 1..n /\ pipe'[n] = events[Len(events)] /\ Len(events) \in 1..Len(events)
      BY <1>1, <3>2
    <3>4. pipe'[n].action = "start" /\ pipe'[n].id = c
      BY <1>1, <2>5, <3>3
    <3> QED
      BY <3>3, <3>4 DEF Outlived
  <2> QED
    BY <1>1, <1>3, <2>2, <2>3, <2>4, <2>5
<1> QED
  BY <1>2, <1>3
-----------------------------------------------------------------------------
(* The lives of containers and what the watcher knows of them.  Lines are    *)
(* left over only while the stream is read.                                 *)
PipeRead == phase # "reading" => pipe = << >> /\ link = "closed"

(* Where no exit comes between inspection and write, what a task inspected  *)
(* is still true when it writes, whatever lives the container has behind it. *)
Fresh ==
  "overtaken" \notin faults =>
    \A t \in tasks : t.pc = "inspected" => t.ip = ips[t.id] /\ ips[t.id] # << >>

(* No stop is missed: a container that is down has lost its routes, or the  *)
(* line that takes them away is still to be read.                           *)
StopsKnown ==
  faults \subseteq {"signals"} =>
    \A c \in Containers : state[c] \in {"down", "gone"} => Unrouted(c) \/ StopPending(c)

(* Every container is attached to a network: one that is not has no address *)
(* to be routed to.                                                         *)
Attached == \A c \in Containers : Nets[c] # 0

(* No start is missed: a container that runs is routed, or its start is on  *)
(* the way, and the stops of its earlier lives come before that start.      *)
StartsKnown ==
  Attached /\ faults = {} =>
    \A c \in Containers : state[c] = "up" => Outlived(c) /\ (StartPending(c) \/ Routed(c))

(* A container that runs has an address in each of its networks, any other  *)
(* has none.                                                                *)
Addressed ==
  \A c \in Containers : IF Up(c) THEN Len(ips[c]) = Nets[c] ELSE ips[c] = << >>

LifeInv == PipeRead /\ Fresh /\ StopsKnown /\ StartsKnown /\ Addressed

LEMMA InitLife == Init => LifeInv
BY DEF Init, EngineInit, WatcherInit, LifeInv, PipeRead, Fresh, StopsKnown, StartsKnown,
   Addressed, StartPending, Unrouted, Up

(* What a change of one container leaves alone.                             *)
LEMMA ChangeStates ==
  ASSUME EngineTypeOK, NEW c \in Containers, Changes(c)
  PROVE  /\ \A o \in Containers \ {c} : state'[o] = state[o] /\ ips'[o] = ips[o]
         /\ ContainerStart(c) => state[c] = "down" /\ state'[c] = "up"
         /\ state'[c] = "up" /\ ~ContainerStart(c) => ContainerSignal(c)
         /\ ContainerSignal(c) => state[c] = "up" /\ ips'[c] = ips[c]
         /\ ips'[c] # ips[c] => ContainerStart(c) \/ ContainerExit(c)
         /\ state'[c] = "up" \/ state[c] = "down" \/ ContainerStop(c) \/ ContainerExit(c)
         /\ link' = link
<1> USE DEF EngineTypeOK
<1>1. CASE ContainerStart(c)
  BY <1>1 DEF ContainerStart, ContainerSignal
<1>2. CASE ContainerStop(c)
  BY <1>2 DEF ContainerStop, ContainerStart, ContainerSignal
<1>3. CASE ContainerSignal(c)
  BY <1>3 DEF ContainerStart, ContainerSignal
<1>4. CASE ContainerExit(c)
  BY <1>4 DEF ContainerExit, ContainerStart, ContainerSignal, Up
<1>5. CASE ContainerRemove(c)
  BY <1>5 DEF ContainerRemove, ContainerStart, ContainerSignal
<1> QED
  BY <1>1, <1>2, <1>3, <1>4, <1>5 DEF Changes

LEMMA ChangeFresh ==
  ASSUME EngineTypeOK, Fresh, NEW c \in Containers, Changes(c),
         ContainerExit(c) => MayExit(c), Addressed,
         UNCHANGED <<tasks, faults>>, tasks \in SUBSET Task
  PROVE  Fresh'
<1> SUFFICES ASSUME "overtaken" \notin faults, NEW t \in tasks, t.pc = "inspected"
             PROVE  t.ip = ips'[t.id] /\ ips'[t.id] # << >>
  BY DEF Fresh
<1>1. t.id \in Containers /\ t.ip = ips[t.id] /\ ips[t.id] # << >>
  BY DEF Fresh, Task
<1>2. t.id = c => ~ContainerExit(c)
  BY DEF MayExit, Inspected
<1>3. t.id = c => ~ContainerStart(c)
  BY <1>1 DEF Addressed, ContainerStart, Up
<1> QED
  BY <1>1, <1>2, <1>3, ChangeStates
LEMMA ChangeAddresses ==
  ASSUME EngineTypeOK, Addressed, NEW c \in Containers, Changes(c)
  PROVE  Addressed' /\ (link # "open" => pipe' = pipe)
<1>1. Addressed'
  <2> SUFFICES ASSUME NEW o \in Containers
               PROVE  IF Up(o)' THEN Len(ips'[o]) = Nets[o] ELSE ips'[o] = << >>
    BY DEF Addressed
  <2>1. CASE o # c
    BY <2>1, ChangeStates DEF Addressed, Up
  <2>2. CASE o = c /\ ContainerStart(c)
    <3>1. PICK a \in [1..Nets[c] -> Addrs \ InUse] : ips' = [ips EXCEPT ![c] = a]
      BY <2>2 DEF ContainerStart
    <3>2. a \in Seq(Addrs) /\ Len(a) = Nets[c]
      BY <3>1, NetsType
    <3> QED
      BY <2>2, <3>1, <3>2 DEF EngineTypeOK, ContainerStart, Up
  <2>3. CASE o = c /\ ~ContainerStart(c)
    BY <2>3 DEF Changes, ContainerStop, ContainerSignal, ContainerExit, ContainerRemove,
       Addressed, Up, EngineTypeOK
  <2> QED
    BY <2>1, <2>2, <2>3
<1>2. link # "open" => pipe' = pipe
  BY ChangeEvents DEF Emit
<1> QED
  BY <1>1, <1>2

(* A change is seen: its line is in the pipe, and no route has moved.       *)
LEMMA EngineLife ==
  ASSUME IInv, LifeInv, Engine, UNCHANGED faults
  PROVE  LifeInv'
<1> USE DEF IInv, TypeOK
<1>1. UNCHANGED <<phase, backoff, tasks, table, faults>>
  BY DEF Engine, watcherVars
<1>2. CASE StreamEnds
  <2>1. UNCHANGED <<state, ips, pipe>> /\ link = "open"
    BY <1>2 DEF StreamEnds
  <2>2. phase = "reading"
    BY <2>1 DEF WatcherTypeOK
  <2> QED
    BY <1>1, <2>1, <2>2 DEF LifeInv, PipeRead, Fresh, StopsKnown, StartsKnown, Addressed,
       StartPending, StopPending, Routed, Unrouted, Outlived, Up
<1>3. ASSUME NEW c \in Containers, Changes(c), Observed,
             ContainerExit(c) => MayExit(c),
             ContainerSignal(c) => "signals" \in faults
      PROVE  LifeInv'
  <2>1. /\ \A o \in Containers \ {c} : state'[o] = state[o] /\ ips'[o] = ips[o]
        /\ ContainerStart(c) => state[c] = "down" /\ state'[c] = "up"
        /\ state'[c] = "up" /\ ~ContainerStart(c) => ContainerSignal(c)
        /\ ContainerSignal(c) => state[c] = "up" /\ ips'[c] = ips[c]
        /\ link' = link
    BY <1>3, ChangeStates
  <2>2. /\ \A o \in Containers : StopPending(o) => StopPending(o)'
        /\ \A o \in Containers : StartLine(o) => StartLine(o)'
        /\ \A o \in Containers : Outlived(o) /\ (o # c \/ ContainerStart(c)) => Outlived(o)'
        /\ link = "open" /\ ~ContainerStart(c) => StopPending(c)'
        /\ link = "open" /\ ContainerStart(c) => StartLine(c)' /\ Outlived(c)'
    BY <1>3, ChangeLines
  <2>3. \A o \in Containers : StartPending(o) => StartPending(o)'
    BY <1>1, <2>2 DEF StartPending, StartLine
  <2>4. \A o \in Containers \ {c} : Routed(o) => Routed(o)'
    BY <1>1, <2>1 DEF Routed
  <2>5. \A o \in Containers : Unrouted(o) => Unrouted(o)'
    BY <1>1 DEF Unrouted
  <2>6. Fresh'
    BY <1>1, <1>3, ChangeFresh DEF LifeInv, WatcherTypeOK
  <2>7. Addressed' /\ (link # "open" => pipe' = pipe)
    BY <1>3, ChangeAddresses DEF LifeInv
  <2>8. PipeRead'
    BY <1>1, <2>1, <2>7 DEF LifeInv, PipeRead, WatcherTypeOK
  <2>9. "unwatched" \notin faults => link = "open"
    BY <1>3 DEF Observed
  <2>10. StopsKnown'
    <3> SUFFICES ASSUME faults \subseteq {"signals"}, NEW o \in Containers, state'[o] \in {"down", "gone"}
                 PROVE  Unrouted(o)' \/ StopPending(o)'
      BY <1>1 DEF StopsKnown
    <3>1. CASE o = c
      BY <2>1, <2>2, <2>9, <3>1
    <3>2. CASE o # c
      BY <2>1, <2>2, <2>5, <3>2 DEF LifeInv, StopsKnown
    <3> QED
      BY <3>1, <3>2
  <2>11. StartsKnown'
    <3> SUFFICES ASSUME Attached, faults = {}, NEW o \in Containers, state'[o] = "up"
                 PROVE  Outlived(o)' /\ (StartPending(o)' \/ Routed(o)')
      BY <1>1 DEF StartsKnown
    <3>1. CASE o = c
      <4>1. ContainerStart(c)
        BY <1>3, <2>1, <3>1
      <4>2. StartLine(c)' /\ Outlived(c)'
        BY <2>2, <2>9, <4>1
      <4> QED
        BY <3>1, <4>2 DEF StartPending, StartLine
    <3>2. CASE o # c
      BY <2>1, <2>2, <2>3, <2>4, <3>2 DEF LifeInv, StartsKnown
    <3> QED
      BY <3>1, <3>2
  <2> QED
    BY <2>6, <2>7, <2>8, <2>10, <2>11 DEF LifeInv
<1>4. CASE \E c \in Containers :
             /\ Observed
             /\ \/ ContainerStart(c)
                \/ ContainerRemove(c)
                \/ ContainerStop(c)
                \/ MayExit(c) /\ ContainerExit(c)
                \/ "signals" \in faults /\ ContainerSignal(c)
  <2>1. PICK c \in Containers :
             /\ Observed
             /\ \/ ContainerStart(c)
                \/ ContainerRemove(c)
                \/ ContainerStop(c)
                \/ MayExit(c) /\ ContainerExit(c)
                \/ "signals" \in faults /\ ContainerSignal(c)
    BY <1>4
  <2>2. Changes(c)
    BY <2>1 DEF Changes
  <2>3. ContainerExit(c) => MayExit(c)
    BY <2>1 DEF EngineTypeOK, ContainerStart, ContainerStop, ContainerSignal, ContainerExit, ContainerRemove, Up
  <2>4. ContainerSignal(c) => "signals" \in faults
    BY <2>1 DEF EngineTypeOK, ContainerStart, ContainerStop, ContainerSignal, ContainerExit, ContainerRemove, Up
  <2> QED
    BY <1>3, <2>1, <2>2, <2>3, <2>4
<1> QED
  BY <1>2, <1>4 DEF Engine
(* A start or stop of one container never touches the routes of domains      *)
(* that are another's alone.                                                *)
RoutesOf(t) == {[domain |-> d, upstream |-> t.ip] : d \in Hosts[t.id]}

LEMMA OthersRoutes ==
  ASSUME NEW c \in Containers, NEW o \in Containers \ {c}, UNCHANGED ips,
         \/ table' = Table!Without(table, Hosts[o])
         \/ \E t \in Task : t.id = o /\ table' = Table!Upsert(table, RoutesOf(t))
  PROVE  /\ Routed(c) => Routed(c)'
         /\ Unrouted(c) => Unrouted(c)'
<1>1. \A d \in Own(c) : d \notin Hosts[o]
  BY DEF Own
<1>2. CASE table' = Table!Without(table, Hosts[o])
  BY <1>1, <1>2 DEF Table!Without, Routed, Unrouted
<1>3. ASSUME NEW t \in Task, t.id = o, table' = Table!Upsert(table, RoutesOf(t))
      PROVE  /\ Routed(c) => Routed(c)'
             /\ Unrouted(c) => Unrouted(c)'
  <2>1. \A r \in RoutesOf(t) : r.domain \in Hosts[o]
    BY <1>3 DEF RoutesOf
  <2> QED
    BY <1>1, <1>3, <2>1 DEF Table!Upsert, Table!Without, Routed, Unrouted
<1> QED
  BY <1>2, <1>3

(* A step of the loop takes a line, or none that was still to be read.      *)
LEMMA LoopLines ==
  ASSUME TypeOK, PipeRead, Loop
  PROVE  /\ UNCHANGED <<state, ips>> /\ PipeRead'
         /\ \/ UNCHANGED <<pipe, tasks, table>>
            \/ pipe # << >> /\ pipe' = Tail(pipe) /\ (SpawnStartTask \/ HandleStop)
<1>1. CASE Connect \/ SpawnFails \/ LoopFails \/ Retry
  BY <1>1 DEF Connect, SpawnFails, LoopFails, Retry, engineVars, PipeRead, TypeOK, WatcherTypeOK
<1>2. CASE SpawnStartTask \/ HandleStop
  BY <1>2 DEF SpawnStartTask, HandleStop, NextLine, PipeRead
<1> QED
  BY <1>1, <1>2 DEF Loop

(* The start line of a container becomes its task.                          *)
LEMMA LineTaken ==
  ASSUME TypeOK, pipe # << >>, pipe' = Tail(pipe), SpawnStartTask, NEW c \in Containers
  PROVE  /\ StartPending(c)' <=> StartPending(c)
         /\ StopPending(c)' <=> StopPending(c)
         /\ \A t \in tasks' : t \in tasks \/ t.pc = "sleeping"
<1> DEFINE new == [id |-> Head(pipe).id, gen |-> Head(pipe).gen,
                   pc |-> "sleeping", ip |-> << >>]
<1>1. new.pc = "sleeping" /\ new.id = Head(pipe).id
  OBVIOUS
<1>2. tasks' = tasks \cup {new} /\ Head(pipe).action = "start"
  BY DEF SpawnStartTask, NextLine
<1> HIDE DEF new
<1>3. \A t \in tasks' : t \in tasks \/ t.pc = "sleeping"
  BY <1>1, <1>2
<1>4. (\E t \in tasks' : t.id = c) <=> (\E t \in tasks : t.id = c) \/ Head(pipe).id = c
  BY <1>1, <1>2
<1>5. /\ StartLine(c)' => StartLine(c)
      /\ StartLine(c) => StartLine(c)' \/ Head(pipe).id = c
      /\ StopPending(c)' <=> StopPending(c)
  BY <1>2, Taken DEF TypeOK
<1>6. Head(pipe).id = c => StartLine(c)
  BY <1>2 DEF StartLine, TypeOK, EngineTypeOK
<1> QED
  BY <1>3, <1>4, <1>5, <1>6 DEF StartPending, StartLine

(* A stop takes a line and the routes of its container.                     *)
LEMMA StopTaken ==
  ASSUME TypeOK, pipe # << >>, pipe' = Tail(pipe), HandleStop, NEW c \in Containers
  PROVE  /\ StartPending(c)' <=> StartPending(c)
         /\ StopPending(c) => StopPending(c)' \/ Unrouted(c)'
         /\ Outlived(c) /\ Head(pipe).id = c => StartPending(c)'
<1>1. tasks' = tasks /\ table' = Table!Without(table, Hosts[Head(pipe).id]) /\ Head(pipe).action # "start"
  BY DEF HandleStop, NextLine, StopActions
<1>2. /\ StopPending(c) => StopPending(c)' \/ Head(pipe).id = c
      /\ StartLine(c)' <=> StartLine(c)
      /\ Outlived(c) /\ Head(pipe).id = c => StartLine(c)'
  BY <1>1, Taken DEF TypeOK
<1>3. Head(pipe).id = c => Unrouted(c)'
  BY <1>1 DEF Unrouted, Own, Table!Without
<1> QED
  BY <1>1, <1>2, <1>3 DEF StartPending, StartLine

(* What a step of the loop does to what is known of each container.         *)
LEMMA LoopKeeps ==
  ASSUME TypeOK, PipeRead, Fresh, Loop, UNCHANGED faults
  PROVE  /\ UNCHANGED <<state, ips>> /\ PipeRead' /\ Fresh'
         /\ \A c \in Containers :
              /\ Outlived(c) => Outlived(c)'
              /\ StartPending(c) => StartPending(c)'
              /\ StopPending(c) => StopPending(c)' \/ Unrouted(c)'
              /\ Unrouted(c) => Unrouted(c)'
              /\ Outlived(c) /\ Routed(c) => StartPending(c)' \/ Routed(c)'
<1>1. UNCHANGED <<state, ips>> /\ PipeRead'
  BY LoopLines
<1>2. CASE UNCHANGED <<pipe, tasks, table>>
  BY <1>1, <1>2 DEF Fresh, StartPending, StopPending, Routed, Unrouted, Outlived
<1>3. CASE pipe # << >> /\ pipe' = Tail(pipe) /\ SpawnStartTask
  <2>1. table' = table
    BY <1>3 DEF SpawnStartTask
  <2>2. \A c \in Containers :
          /\ StartPending(c)' <=> StartPending(c)
          /\ StopPending(c)' <=> StopPending(c)
          /\ Outlived(c) => Outlived(c)'
    BY <1>3, LineTaken, Taken DEF TypeOK
  <2>3. \A t \in tasks' : t \in tasks \/ t.pc = "sleeping"
    <3>1. Head(pipe).id \in Containers
      BY <1>3, HeadType DEF TypeOK, Line
    <3> QED
      BY <1>3, <3>1, LineTaken
  <2>4. Fresh'
    BY <1>1, <2>2, <2>3 DEF Fresh
  <2> QED
    BY <1>1, <2>1, <2>2, <2>4 DEF Routed, Unrouted
<1>4. CASE pipe # << >> /\ pipe' = Tail(pipe) /\ HandleStop
  <2>1. /\ tasks' = tasks /\ Head(pipe).id \in Containers
        /\ table' = Table!Without(table, Hosts[Head(pipe).id])
    BY <1>4, HeadType DEF HandleStop, TypeOK, Line
  <2>2. \A c \in Containers :
          /\ StartPending(c)' <=> StartPending(c)
          /\ StopPending(c) => StopPending(c)' \/ Unrouted(c)'
          /\ Outlived(c) /\ Head(pipe).id = c => StartPending(c)'
          /\ Outlived(c) => Outlived(c)'
    BY <1>4, StopTaken, Taken DEF TypeOK
  <2>3. \A c \in Containers : Unrouted(c) => Unrouted(c)'
    BY <2>1 DEF Unrouted, Table!Without
  <2>4. \A c \in Containers \ {Head(pipe).id} : Routed(c) => Routed(c)'
    BY <1>1, <2>1, OthersRoutes
  <2>5. Fresh'
    BY <1>1, <2>1, <2>2 DEF Fresh
  <2> QED
    BY <1>1, <2>2, <2>3, <2>4, <2>5
<1> QED
  BY <1>2, <1>3, <1>4, LoopLines

LEMMA LoopLife ==
  ASSUME IInv, LifeInv, Loop, UNCHANGED faults
  PROVE  LifeInv'
<1> USE LoopKeeps DEF IInv, LifeInv
<1>1. Addressed'
  BY DEF Addressed, Up
<1>2. StopsKnown'
  BY DEF StopsKnown
<1>3. StartsKnown'
  BY DEF StartsKnown
<1> QED
  BY <1>1, <1>2, <1>3

(* A task gives up only a container without routes of its own or without    *)
(* an address; otherwise it writes the addresses the container has.         *)
LEMMA StartTaskKeeps ==
  ASSUME TypeOK, PipeRead, Fresh, Addressed, StartTask, UNCHANGED faults
  PROVE  /\ UNCHANGED <<state, ips>> /\ PipeRead' /\ Fresh'
         /\ \A c \in Containers :
              /\ StopPending(c) => StopPending(c)'
              /\ Outlived(c) => Outlived(c)'
         /\ "overtaken" \notin faults =>
              \A c \in Containers :
                /\ state[c] \in {"down", "gone"} /\ Unrouted(c) => Unrouted(c)'
                /\ ips[c] # << >> /\ (StartPending(c) \/ Routed(c)) => StartPending(c)' \/ Routed(c)'
<1> USE DEF TypeOK
<1>1. PICK t \in tasks : Inspect(t) \/ Register(t)
  BY DEF StartTask
<1>2. t \in Task /\ t.id \in Containers
  BY DEF WatcherTypeOK, Task
<1>3. UNCHANGED <<state, ips, pipe, link, phase, faults>>
  BY <1>1 DEF Inspect, Register, engineVars
<1>4. PipeRead'
  BY <1>3 DEF PipeRead
<1>5. \A c \in Containers : (StopPending(c) => StopPending(c)') /\ (Outlived(c) => Outlived(c)')
  BY <1>3 DEF StopPending, Outlived
<1>6. \A c \in Containers : StartPending(c)' => StartPending(c)
  BY ZenonT(60), <1>1, <1>2, <1>3 DEF Inspect, Register, StartPending, Task
<1>7. \A c \in Containers \ {t.id} : StartPending(c) => StartPending(c)'
  BY <1>1, <1>2, <1>3 DEF Inspect, Register, StartPending
<1>8. CASE Inspect(t)
  <2> DEFINE done == [t EXCEPT !.pc = "inspected", !.ip = ips[t.id]]
  <2>1. done.id = t.id /\ done.ip = ips[t.id]
    BY <1>2 DEF Task
  <2>2. /\ table' = table
        /\ tasks' = IF Hosts[t.id] = {} \/ ips[t.id] = << >> THEN tasks \ {t}
                    ELSE (tasks \ {t}) \cup {done}
    BY <1>8 DEF Inspect
  <2> HIDE DEF done
  <2>3. Fresh'
    BY <1>3, <1>6, <2>1, <2>2 DEF Fresh
  <2>4. \A c \in Containers : (Unrouted(c) => Unrouted(c)') /\ (Routed(c) => Routed(c)')
    BY <1>3, <2>2 DEF Unrouted, Routed
  <2>5. ASSUME ips[t.id] # << >> PROVE StartPending(t.id)' \/ Routed(t.id)'
    <3>1. CASE Hosts[t.id] = {}
      BY <3>1 DEF Routed, Own
    <3>2. CASE Hosts[t.id] # {}
      BY <2>1, <2>2, <2>5, <3>2 DEF StartPending
    <3> QED
      BY <3>1, <3>2
  <2> QED
    BY <1>3, <1>4, <1>5, <1>7, <2>3, <2>4, <2>5
<1>9. CASE Register(t)
  <2>1. /\ t.pc = "inspected" /\ tasks' = tasks \ {t}
        /\ table' = Table!Upsert(table, RoutesOf(t))
    BY <1>9 DEF Register, RoutesOf
  <2>2. "overtaken" \notin faults => t.ip = ips[t.id] /\ state[t.id] \notin {"down", "gone"}
    BY <1>2, <2>1 DEF Fresh, Addressed, Up
  <2>3. \A c \in Containers \ {t.id} : (Routed(c) => Routed(c)') /\ (Unrouted(c) => Unrouted(c)')
    BY <1>2, <1>3, <2>1, OthersRoutes
  <2>4. Fresh'
    BY <1>3, <1>6, <2>1 DEF Fresh
  <2>5. t.ip = ips[t.id] => Routed(t.id)'
    BY <1>3, <2>1 DEF RoutesOf, Routed, Own, Table!Upsert
  <2> QED
    BY <1>2, <1>3, <1>4, <1>5, <1>7, <2>2, <2>3, <2>4, <2>5
<1> QED
  BY <1>1, <1>8, <1>9

LEMMA StartTaskLife ==
  ASSUME IInv, LifeInv, StartTask, UNCHANGED faults
  PROVE  LifeInv'
<1> USE StartTaskKeeps DEF IInv, LifeInv
<1>1. Addressed'
  BY DEF Addressed, Up
<1>2. StopsKnown'
  BY DEF StopsKnown
<1>3. \A c \in Containers : Attached /\ state[c] = "up" => ips[c] # << >>
  BY DEF Attached, Addressed, Up
<1>4. StartsKnown'
  BY <1>3 DEF StartsKnown
<1> QED
  BY <1>1, <1>2, <1>4

LEMMA NextLife == IInv /\ LifeInv /\ [Next]_vars => LifeInv'
<1>1. IInv /\ LifeInv /\ UNCHANGED vars => LifeInv'
  BY DEF vars, engineVars, watcherVars, LifeInv, PipeRead, Fresh, StopsKnown, StartsKnown,
     Addressed, StartPending, StopPending, Routed, Unrouted, Outlived, Up
<1> QED
  BY <1>1, EngineLife, LoopLife, StartTaskLife DEF Next

(* Whatever a container has gone through, the watcher has served it, or the *)
(* line or task that will serve it is still to come (watcher.rs, watch_loop *)
(* and handle_start).                                                       *)
THEOREM LifeInvariant == Spec => []LifeInv
BY InitInv, NextInv, InitLife, NextLife, PTL DEF Spec

(* watcher.rs:6, "container stop -> remove route": whenever the watcher has *)
(* read all lines and its tasks are over, a container that does not run has *)
(* no routes of its own, also where it died with its start unread or its    *)
(* task asleep.  Exits between a task's inspection and its write are not    *)
(* spoken of ("overtaken"): the task writes the route of a dead container.  *)
THEOREM StopsUnroute == Spec => []StoppedUnrouted
<1>1. TypeOK /\ LifeInv => StoppedUnrouted
  BY DEF LifeInv, StopsKnown, StoppedUnrouted, Quiet, StopPending
<1> QED
  BY <1>1, TypeCorrect, LifeInvariant, PTL

(* watcher.rs:5, "container start -> inspect new IP -> add/update route":   *)
(* whenever the watcher has caught up, a container that runs is routed to   *)
(* the addresses of this life, in whatever order starts, stops and tasks    *)
(* were served.                                                             *)
THEOREM StartsRoute ==
  ASSUME Attached
  PROVE  Spec => []RunningRouted
<1>1. TypeOK /\ LifeInv => RunningRouted
  BY DEF LifeInv, StartsKnown, RunningRouted, Quiet, StartPending
<1> QED
  BY <1>1, TypeCorrect, LifeInvariant, PTL

(* watcher.rs, handle_start and handle_stop: no step takes a route to the   *)
(* present addresses of a running container away unless a stop of that      *)
(* container is reported: not the task of another container, nor one of an  *)
(* earlier life that was still asleep when that life ended.  A task that    *)
(* had inspected by then ("overtaken") is not spoken of.                    *)
THEOREM LiveRoutesStay == Spec => LiveRouteStays
<1> DEFINE Stays ==
      \A c \in Containers :
        /\ "overtaken" \notin faults
        /\ state[c] = "up" /\ state'[c] = "up" /\ Routed(c) /\ ~StopPending(c)
        => Routed(c)'
<1>1. ASSUME IInv, LifeInv, [Next]_vars PROVE Stays
  <2> SUFFICES ASSUME NEW c \in Containers, "overtaken" \notin faults,
                      state[c] = "up", state'[c] = "up", Routed(c), ~StopPending(c)
               PROVE  Routed(c)'
    OBVIOUS
  <2> USE <1>1 DEF IInv
  <2>1. CASE Engine
    <3>1. table' = table
      BY <2>1 DEF Engine, watcherVars
    <3>2. ips'[c] = ips[c]
      BY <2>1 DEF Engine, ContainerStart, ContainerStop, ContainerSignal, ContainerExit,
         ContainerRemove, StreamEnds, TypeOK, EngineTypeOK
    <3> QED
      BY <3>1, <3>2 DEF Routed
  <2>2. CASE Loop
    <3>1. CASE UNCHANGED <<pipe, tasks, table>>
      BY <2>2, <3>1, LoopLines DEF LifeInv, Routed
    <3>2. CASE SpawnStartTask
      BY <2>2, <3>2, LoopLines DEF LifeInv, SpawnStartTask, Routed
    <3>3. CASE HandleStop
      <4>1. /\ pipe # << >> /\ Head(pipe).action # "start"
            /\ table' = Table!Without(table, Hosts[Head(pipe).id])
        BY <3>3 DEF HandleStop, NextLine, StopActions
      <4>2. Head(pipe).id # c /\ Head(pipe).id \in Containers
        BY SMTT(60), <4>1, HeadType DEF StopPending, TypeOK, EngineTypeOK, Line
      <4> QED
        BY <2>2, <4>1, <4>2, OthersRoutes, LoopLines DEF LifeInv
    <3> QED
      BY <2>2, <3>1, <3>2, <3>3, LoopLines DEF LifeInv
  <2>3. CASE StartTask
    <3>1. PICK t \in tasks : Inspect(t) \/ Register(t)
      BY <2>3 DEF StartTask
    <3>2. UNCHANGED ips /\ t \in Task /\ t.id \in Containers
      BY <3>1 DEF Inspect, Register, engineVars, TypeOK, WatcherTypeOK, Task
    <3>3. CASE Inspect(t)
      BY <3>2, <3>3 DEF Inspect, Routed
    <3>4. CASE Register(t)
      <4>1. t.pc = "inspected" /\ t.ip = ips[t.id] /\ table' = Table!Upsert(table, RoutesOf(t))
        BY <3>4 DEF Register, RoutesOf, LifeInv, Fresh
      <4>2. CASE t.id = c
        BY <3>2, <4>1, <4>2 DEF RoutesOf, Routed, Own, Table!Upsert
      <4>3. CASE t.id # c
        BY <3>2, <4>1, <4>3, OthersRoutes
      <4> QED
        BY <4>2, <4>3
    <3> QED
      BY <3>1, <3>3, <3>4
  <2>4. CASE UNCHANGED vars
    BY <2>4 DEF vars, engineVars, watcherVars, Routed
  <2> QED
    BY <2>1, <2>2, <2>3, <2>4 DEF Next
<1> QED
  BY <1>1, Invariant, LifeInvariant, PTL DEF Spec, LiveRouteStays
=============================================================================
