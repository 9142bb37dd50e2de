-------------------------- MODULE RouteSystemProofs --------------------------
(* Theorems about the routing system as a whole: commands, config.json, the *)
(* daemon with its reloads, and its watcher, together.  What the parts do   *)
(* by themselves is proved in WatcherProofs and RouteConfigProofs; the      *)
(* steps of the system are steps of the parts.                              *)
EXTENDS RouteSystem, WatcherProofs, SequenceTheorems

CP == INSTANCE RouteConfigProofs WITH
  Upstreams <- Seq(Addrs), Requests <- Requested, Sans <- Domains,
  San <- [d \in Domains |-> d]
-----------------------------------------------------------------------------
(* The parameters of the system are parameters of the commands.             *)
LEMMA SansAreDomains == [d \in Domains |-> d] \in [Domains -> Domains]
OBVIOUS

LEMMA StepsAreSteps == Serial \in BOOLEAN /\ Breakable \subseteq CP!Steps
BY CommandsType DEF CP!Steps, Config!Steps

LEMMA PidsAreFresh == NoPid \notin Pids
BY PidsFresh

LEMMA RequestedType ==
  /\ Requested \subseteq [op : CP!Commands, new : SUBSET CP!Route, gone : SUBSET Domains]
  /\ \A req \in Requested :
       /\ req.op \in {"add", "sync"} => req.gone = {} /\ req.new # {}
       /\ req.op \in {"remove", "unsync"} => req.new = {} /\ req.gone # {}
<1>1. \A a \in Addrs : <<a>> \in Seq(Addrs)
  OBVIOUS
<1>2. [domain : Domains, upstream : {<<a>> : a \in Addrs}] \subseteq CP!Route
  BY <1>1 DEF CP!Route
<1> SUFFICES ASSUME NEW req \in Requested
             PROVE  /\ req \in [op : CP!Commands, new : SUBSET CP!Route, gone : SUBSET Domains]
                    /\ req.op \in {"add", "sync"} => req.gone = {} /\ req.new # {}
                    /\ req.op \in {"remove", "unsync"} => req.new = {} /\ req.gone # {}
  OBVIOUS
<1> DEFINE Found == [domain : Domains, upstream : {<<a>> : a \in Addrs}]
<1>3. \/ req \in [op : {"sync"}, new : (SUBSET Found) \ {{}}, gone : {{}}]
      \/ req \in [op : {"unsync"}, new : {{}}, gone : (SUBSET Domains) \ {{}}]
  BY DEF Requested
<1> HIDE DEF Found
<1>4. Found \subseteq CP!Route
  BY <1>2 DEF Found
<1> QED
  BY <1>3, <1>4 DEF CP!Commands

(* The commands of the system are those RouteConfigProofs speaks of.        *)
LEMMA SameInit == CP!ConfigInit <=> Config!ConfigInit
BY DEF CP!ConfigInit, Config!ConfigInit, CP!Whole, Config!Whole, CP!Idle, Config!Idle,
   CP!NoRequest, Config!NoRequest, CP!Absent, Config!Absent

LEMMA SameType == CP!ConfigTypeOK <=> Config!ConfigTypeOK
BY DEF CP!ConfigTypeOK, Config!ConfigTypeOK, CP!Route, Config!Route, CP!Command, Config!Command,
   CP!Steps, Config!Steps, CP!Commands, Config!Commands, CP!Process, Config!Process,
   CP!HaveRead, Config!HaveRead

LEMMA SameBegin ==
  ASSUME NEW p \in Clis, NEW req
  PROVE  Config!Begin(p, req) => CP!Begin(p, req)
BY DEF CP!Begin, Config!Begin, CP!Become, Config!Become, CP!Reached, Config!Reached,
   CP!AllIdle, Config!AllIdle, CP!Idle, Config!Idle, CP!NoRequest, Config!NoRequest,
   CP!daemonVars, Config!daemonVars, CP!certVars, Config!certVars

LEMMA SameRecords ==
  /\ CP!Idle = Config!Idle
  /\ \A c, changed : CP!AfterCert(c, changed) = Config!AfterCert(c, changed)
  /\ \A c : CP!AfterWrite(c) = Config!AfterWrite(c)
  /\ \A op, step, changed : CP!Telling(op, step, changed) = Config!Telling(op, step, changed)
BY DEF CP!Idle, Config!Idle, CP!NoRequest, Config!NoRequest, CP!Telling, Config!Telling,
   CP!AfterCert, Config!AfterCert, CP!AfterWrite, Config!AfterWrite

LEMMA SameTelling ==
  /\ CP!Found <=> Config!Found
  /\ \A told : CP!Missed(told) <=> Config!Missed(told)
  /\ \A i : CP!Kill(i) <=> Config!Kill(i)
BY DEF CP!Found, Config!Found, CP!Exists, Config!Exists, CP!Missed, Config!Missed,
   CP!Kill, Config!Kill, CP!HaveRead, Config!HaveRead, CP!Absent, Config!Absent

LEMMA SameInterrupt ==
  ASSUME NEW p \in Clis
  PROVE  Config!Interrupt(p) => CP!Interrupt(p)
BY SameRecords, SameTelling DEF CP!Interrupt, Config!Interrupt, CP!Finish, Config!Finish,
   CP!Become, Config!Become, CP!Owes, Config!Owes,
   CP!daemonVars, Config!daemonVars, CP!certVars, Config!certVars

LEMMA SameCliStep ==
  ASSUME NEW p \in Clis, Config!CliStep(p)
  PROVE  CP!CliStep(p)
<1> USE SameRecords, SameTelling
    DEF CP!daemonVars, Config!daemonVars, CP!certVars, Config!certVars, CP!Reached, Config!Reached,
     CP!Finish, Config!Finish, CP!Goto, Config!Goto, CP!Become, Config!Become
<1>1. Config!Load(p) => CP!Load(p)
  BY DEF CP!Load, Config!Load, CP!Apply, Config!Apply, CP!Readable, Config!Readable,
     CP!Upsert, CP!Without, Config!Upsert, Config!Without
<1>2. Config!CheckCert(p) => CP!CheckCert(p)
  BY DEF CP!CheckCert, Config!CheckCert, CP!Wanted, Config!Wanted
<1>3. Config!WritePem(p) => CP!WritePem(p)
  BY DEF CP!WritePem, Config!WritePem, CP!Wanted, Config!Wanted
<1>4. Config!Record(p) => CP!Record(p)
  BY DEF CP!Record, Config!Record, CP!Wanted, Config!Wanted, CP!HaveRead, Config!HaveRead
<1>5. Config!Save(p) => CP!Save(p)
  BY DEF CP!Save, Config!Save, CP!Truncate, CP!WriteText, Config!Truncate, Config!WriteText,
     CP!Whole, CP!Truncated, CP!Overlaid, Config!Whole, Config!Truncated, Config!Overlaid
<1>6. Config!FindDaemon(p) => CP!FindDaemon(p)
  BY DEF CP!FindDaemon, Config!FindDaemon
<1>7. Config!NoDaemon(p) => CP!NoDaemon(p)
  BY DEF CP!NoDaemon, Config!NoDaemon
<1>8. Config!Hangup(p) => CP!Hangup(p)
  BY DEF CP!Hangup, Config!Hangup
<1>9. Config!Stop(p) => CP!Stop(p)
  BY DEF CP!Stop, Config!Stop
<1>10. Config!Unlink(p) => CP!Unlink(p)
  BY DEF CP!Unlink, Config!Unlink
<1>11. Config!Spawn(p) => CP!Spawn(p)
  BY DEF CP!Spawn, Config!Spawn, CP!Exists, Config!Exists
<1>12. Config!Track(p) => CP!Track(p)
  BY DEF CP!Track, Config!Track
<1>13. Config!CertStep(p) => CP!CertStep(p)
  BY <1>2, <1>3, <1>4 DEF CP!CertStep, Config!CertStep
<1>14. Config!TellStep(p) => CP!TellStep(p)
  BY <1>6, <1>7, <1>8, <1>9, <1>10, <1>11, <1>12 DEF CP!TellStep, Config!TellStep
<1> QED
  BY <1>1, <1>5, <1>13, <1>14 DEF CP!CliStep, Config!CliStep

LEMMA SameDaemonStep == Config!DaemonStep => CP!DaemonStep
<1> USE DEF CP!certVars, Config!certVars
<1>1. \A i \in Pids : Config!BootStep(i) => CP!BootStep(i)
  BY DEF CP!BootStep, Config!BootStep, CP!ReadFiles, Config!ReadFiles, CP!Bind, Config!Bind,
     CP!Absent, Config!Absent, CP!Readable, Config!Readable
<1>2. Config!HandlerReady \/ Config!ReloadRead \/ Config!ReloadWrite
        => CP!HandlerReady \/ CP!ReloadRead \/ CP!ReloadWrite
  BY DEF CP!HandlerReady, Config!HandlerReady, CP!ReloadRead, Config!ReloadRead,
     CP!ReloadWrite, Config!ReloadWrite, CP!Readable, Config!Readable
<1> QED
  BY <1>1, <1>2 DEF CP!DaemonStep, Config!DaemonStep
-----------------------------------------------------------------------------
(* What discover_routes finds and what an unsync gives up can be asked for.  *)
LEMMA SyncRequest ==
  ASSUME TypeOK, NEW project \in Projects, Discovered(project) # {}
  PROVE  [op |-> "sync", new |-> Discovered(project), gone |-> {}] \in Requested
<1> DEFINE Found == [domain : Domains, upstream : {<<a>> : a \in Addrs}]
<1>1. ASSUME NEW c \in project, ips[c] # << >>, NEW d \in Hosts[c]
      PROVE  [domain |-> d, upstream |-> FirstAddress(c)] \in Found
  <2>1. c \in Containers /\ d \in Domains
    BY <1>1, ProjectsType, HostsType
  <2>2. ips[c][1] \in Addrs
    BY <1>1, <2>1 DEF TypeOK, EngineTypeOK
  <2> QED
    BY <2>1, <2>2 DEF FirstAddress
<1> HIDE DEF Found
<1>2. Discovered(project) \subseteq Found
  BY <1>1 DEF Discovered
<1>3. Discovered(project) \in (SUBSET Found) \ {{}}
  BY <1>2
<1> QED
  BY <1>3 DEF Requested, Found

LEMMA UnsyncRequest ==
  ASSUME NEW project \in Projects, ProjectDomains(project) # {}
  PROVE  [op |-> "unsync", new |-> {}, gone |-> ProjectDomains(project)] \in Requested
<1>1. ProjectDomains(project) \subseteq Domains
  BY ProjectsType, HostsType DEF ProjectDomains
<1>2. ProjectDomains(project) \in (SUBSET Domains) \ {{}}
  BY <1>1
<1> QED
  BY <1>2 DEF Requested

(* A step of the system is a change of a container, a step of the watcher,  *)
(* or a step of the commands and the daemon, which leaves the watcher alone *)
(* or ends it with the daemon.                                              *)
SystemInv == IInv /\ CP!ConfigTypeOK /\ synced \in SUBSET Containers

EndsWatcher ==
  /\ daemon' = "off"
  /\ phase' = "idle" /\ backoff' = 2 /\ tasks' = {} /\ link' = "closed" /\ pipe' = << >>
ConfigStep ==
  /\ CP!ConfigNext
  /\ UNCHANGED <<state, ips, gen, outages, leases, faults>>
  /\ \/ EndsWatcher
     \/ UNCHANGED loopVars /\ (daemon' # "off" \/ daemon = "off")

LEMMA SyncSteps ==
  ASSUME SystemInv, NEW p \in Clis, NEW project \in Projects, Sync(p, project)
  PROVE  /\ ConfigStep /\ UNCHANGED loopVars
         /\ CP!Begin(p, [op |-> "sync", new |-> Discovered(project), gone |-> {}])
<1> DEFINE req == [op |-> "sync", new |-> Discovered(project), gone |-> {}]
<1>1. req \in Requested
  BY SyncRequest DEF Sync, SystemInv, IInv
<1>2. /\ Config!Begin(p, req)
      /\ UNCHANGED <<state, ips, gen, outages, leases, faults>> /\ UNCHANGED loopVars
  BY DEF Sync, engineVars, loopVars
<1> HIDE DEF req
<1>3. CP!Begin(p, req)
  BY <1>2, SameBegin
<1>4. daemon' = daemon
  BY <1>3 DEF CP!Begin, CP!daemonVars
<1>5. CP!ConfigNext
  BY <1>1, <1>3 DEF CP!ConfigNext
<1>6. ConfigStep /\ UNCHANGED loopVars /\ CP!Begin(p, req)
  BY <1>2, <1>3, <1>4, <1>5 DEF ConfigStep
<1> QED
  BY <1>6 DEF req

LEMMA UnsyncSteps ==
  ASSUME SystemInv, NEW p \in Clis, NEW project \in Projects, Unsync(p, project)
  PROVE  /\ ConfigStep /\ UNCHANGED loopVars
         /\ CP!Begin(p, [op |-> "unsync", new |-> {}, gone |-> ProjectDomains(project)])
<1> DEFINE req == [op |-> "unsync", new |-> {}, gone |-> ProjectDomains(project)]
<1>1. req \in Requested
  BY UnsyncRequest DEF Unsync, SystemInv, IInv
<1>2. /\ Config!Begin(p, req)
      /\ UNCHANGED <<state, ips, gen, outages, leases, faults>> /\ UNCHANGED loopVars
  BY DEF Unsync, engineVars, loopVars
<1> HIDE DEF req
<1>3. CP!Begin(p, req)
  BY <1>2, SameBegin
<1>4. daemon' = daemon
  BY <1>3 DEF CP!Begin, CP!daemonVars
<1>5. CP!ConfigNext
  BY <1>1, <1>3 DEF CP!ConfigNext
<1>6. ConfigStep /\ UNCHANGED loopVars /\ CP!Begin(p, req)
  BY <1>2, <1>3, <1>4, <1>5 DEF ConfigStep
<1> QED
  BY <1>6 DEF req
LEMMA ProceedSteps ==
  ASSUME Proceed
  PROVE  ConfigStep /\ synced' = synced
<1>1. \/ \E p \in Clis : CP!CliStep(p)
      \/ CP!DaemonStep
  BY SameCliStep, SameDaemonStep DEF Proceed
<1>2. CP!ConfigNext
  BY <1>1 DEF CP!ConfigNext
<1>3. EndsWatcher \/ (daemon' # "off" /\ UNCHANGED loopVars)
  BY DEF Proceed, EndsWatcher
<1> QED
  BY <1>2, <1>3 DEF Proceed, ConfigStep

LEMMA InterruptedSteps ==
  ASSUME Interrupted
  PROVE  /\ ConfigStep /\ UNCHANGED loopVars /\ UNCHANGED vars /\ synced' = {}
         /\ \E p \in Clis : CP!Interrupt(p)
<1>1. PICK p \in Clis : CP!Interrupt(p)
  BY SameInterrupt DEF Interrupted
<1>2. CP!ConfigNext
  BY <1>1 DEF CP!ConfigNext
<1>3. daemon' = daemon
  BY <1>1 DEF CP!Interrupt, CP!daemonVars
<1>4. UNCHANGED vars /\ synced' = {}
  BY DEF Interrupted
<1>5. UNCHANGED <<state, ips, gen, outages, leases, faults>> /\ UNCHANGED loopVars
  BY <1>4 DEF vars, engineVars, watcherVars, loopVars
<1> QED
  BY <1>1, <1>2, <1>3, <1>4, <1>5 DEF ConfigStep

(* Every step of the system is one of three.                                *)
OutsideConfig == UNCHANGED <<fileVars, processVars>>
ChangeStep(c) ==
  /\ ContainerStart(c) \/ ContainerStop(c) \/ ContainerExit(c)
  /\ ContainerExit(c) => MayExit(c)
  /\ UNCHANGED <<watcherVars, faults>> /\ OutsideConfig
  /\ synced' = synced \ {c}

LEMMA ChangeSteps ==
  ASSUME SystemInv, NEW c \in Containers, Change(c)
  PROVE  ChangeStep(c) /\ Changes(c)
<1>1. ContainerExit(c) => ~ContainerStop(c) /\ ~ContainerStart(c)
  BY DEF ContainerStart, ContainerStop, ContainerExit, Up, SystemInv, IInv, TypeOK, EngineTypeOK
<1> QED
  BY <1>1 DEF Change, ChangeStep, Changes, OutsideConfig

LEMMA SystemSteps ==
  ASSUME SystemInv, SystemNext
  PROVE  \/ \E c \in Containers : ChangeStep(c) /\ Changes(c)
         \/ WatcherStep /\ OutsideConfig
         \/ \E p \in Clis, project \in Projects : Sync(p, project) \/ Unsync(p, project)
         \/ Proceed
         \/ Interrupted
BY ChangeSteps DEF SystemNext, WatcherStep, OutsideConfig
-----------------------------------------------------------------------------
(* The types.                                                               *)
LEMMA ConfigType ==
  ASSUME CP!ConfigTypeOK, [CP!ConfigNext]_CP!configVars
  PROVE  CP!ConfigTypeOK'
BY CP!NextType, SansAreDomains, StepsAreSteps, RequestedType, PidsAreFresh

LEMMA OutsideType ==
  ASSUME CP!ConfigTypeOK, OutsideConfig, table' \in SUBSET Table!Route
  PROVE  CP!ConfigTypeOK'
BY DEF CP!ConfigTypeOK, CP!Route, Table!Route, OutsideConfig, fileVars, processVars, CP!HaveRead

LEMMA ConfigStepType ==
  ASSUME SystemInv, ConfigStep
  PROVE  IInv' /\ CP!ConfigTypeOK'
<1> USE DEF SystemInv, IInv, TypeOK
<1>1. CP!ConfigTypeOK'
  BY ConfigType DEF ConfigStep
<1>2. table' \in SUBSET Table!Route
  BY <1>1 DEF CP!ConfigTypeOK, CP!Route, Table!Route
<1>3. UNCHANGED <<state, ips, gen, outages, leases, faults>>
  BY DEF ConfigStep
<1>4. CASE UNCHANGED loopVars
  BY <1>1, <1>2, <1>3, <1>4 DEF loopVars, EngineTypeOK, WatcherTypeOK, Leased, InspectedLeased
<1>5. CASE EndsWatcher
  <2>1. << >> \in Seq(Line) /\ 2 \in Backoffs
    BY DEF Backoffs
  <2> QED
    BY <1>1, <1>2, <1>3, <1>5, <2>1 DEF EndsWatcher, EngineTypeOK, WatcherTypeOK, Leased, InspectedLeased
<1> QED
  BY <1>4, <1>5 DEF ConfigStep

LEMMA ChangeType ==
  ASSUME SystemInv, NEW c \in Containers, ChangeStep(c), Changes(c)
  PROVE  SystemInv' /\ leases \subseteq leases'
<1> USE DEF SystemInv, IInv, TypeOK
<1>1. EngineTypeOK' /\ Leased' /\ leases \subseteq leases' /\ link' = link
  BY ContainerStep DEF Changes
<1>2. UNCHANGED <<phase, backoff, tasks, table, faults>>
  BY DEF ChangeStep, watcherVars
<1>3. IInv'
  BY <1>1, <1>2 DEF WatcherTypeOK, InspectedLeased
<1>4. CP!ConfigTypeOK'
  BY <1>2, OutsideType DEF ChangeStep, WatcherTypeOK
<1> QED
  BY <1>1, <1>3, <1>4 DEF ChangeStep

LEMMA WatcherStepType ==
  ASSUME SystemInv, WatcherStep, OutsideConfig
  PROVE  SystemInv' /\ KeepsRoutes /\ leases' = leases /\ ips' = ips
<1> USE DEF SystemInv
<1>1. IInv' /\ KeepsRoutes
  BY LoopInv, StartTaskInv DEF WatcherStep
<1>2. CP!ConfigTypeOK'
  BY <1>1, OutsideType DEF IInv, TypeOK, WatcherTypeOK
<1>3. leases' = leases /\ ips' = ips
  BY DEF WatcherStep, Loop, StartTask, Connect, SpawnFails, LoopFails, Retry, SpawnStartTask,
     HandleStop, NextLine, Inspect, Register, engineVars
<1> QED
  BY <1>1, <1>2, <1>3 DEF WatcherStep

LEMMA SystemInitInv == SystemInit => SystemInv
<1> SUFFICES ASSUME SystemInit PROVE SystemInv
  OBVIOUS
<1>1. CP!ConfigTypeOK
  BY SameInit, CP!InitType, SansAreDomains, StepsAreSteps, RequestedType, PidsAreFresh DEF SystemInit
<1> QED
  BY <1>1, InitInv DEF SystemInit, SystemInv

LEMMA SyncedType ==
  ASSUME SystemInv, NEW p \in Clis, NEW project \in Projects, Sync(p, project) \/ Unsync(p, project)
  PROVE  synced' \in SUBSET Containers
BY ProjectsType DEF SystemInv, Sync, Unsync

LEMMA SystemNextInv == SystemInv /\ [SystemNext]_systemVars => SystemInv'
<1> SUFFICES ASSUME SystemInv, [SystemNext]_systemVars PROVE SystemInv'
  OBVIOUS
<1>1. CASE UNCHANGED systemVars
  <2>1. UNCHANGED vars /\ synced' = synced /\ OutsideConfig
    BY <1>1 DEF systemVars, OutsideConfig
  <2>2. IInv'
    BY <2>1 DEF vars, engineVars, watcherVars, SystemInv, IInv, TypeOK,
       EngineTypeOK, WatcherTypeOK, Leased, InspectedLeased
  <2>3. CP!ConfigTypeOK'
    BY <2>1, <2>2, OutsideType DEF SystemInv, IInv, TypeOK, WatcherTypeOK
  <2> QED
    BY <2>1, <2>2, <2>3 DEF SystemInv
<1>2. ASSUME NEW p \in Clis, NEW project \in Projects, Sync(p, project) \/ Unsync(p, project)
      PROVE  SystemInv'
  BY <1>2, SyncSteps, UnsyncSteps, ConfigStepType, SyncedType DEF SystemInv
<1>3. CASE Proceed
  BY <1>3, ProceedSteps, ConfigStepType DEF SystemInv
<1>4. CASE Interrupted
  BY <1>4, InterruptedSteps, ConfigStepType DEF SystemInv
<1> QED
  BY <1>1, <1>2, <1>3, <1>4, ChangeType, WatcherStepType, SystemSteps

(* The invariants of the watcher and the types of the commands and the      *)
(* daemon hold together, though each changes what the others read.          *)
THEOREM SystemInvariant == SystemSpec => []SystemInv
BY SystemInitInv, SystemNextInv, PTL DEF SystemSpec

(* Commands, file, daemon and watcher, each taking the others' state as it  *)
(* finds it, keep the state of all of them of its type: in particular a     *)
(* reload assigns the watcher's table only what it can look up routes in.   *)
THEOREM SystemTypeCorrect == SystemSpec => []SystemTypeOK
<1>1. SystemInv => SystemTypeOK
  BY SameType DEF SystemInv, IInv, SystemTypeOK
<1> QED
  BY <1>1, SystemInvariant, PTL
-----------------------------------------------------------------------------
(* Provenance.  A sync registers a container by the address in its first    *)
(* network alone, which is no complete answer of container_ip where there   *)
(* are more, so what follows is about containers with one network at most.  *)
OneNetwork == \A c \in Containers : Nets[c] <= 1

LedRoutes ==
  {r \in Table!Route : \E c \in Containers : r.domain \in Hosts[c] /\ <<c, r.upstream>> \in leases}
OneAddress == \A c \in Containers : Len(ips[c]) <= 1
ProvenanceInv == OneAddress /\ CP!Within(LedRoutes)

(* A change of a container hands out addresses and takes no lease back.     *)
LEMMA ChangeProvenance ==
  ASSUME OneNetwork, SystemInv, ProvenanceInv, NEW c \in Containers, ChangeStep(c), Changes(c)
  PROVE  ProvenanceInv'
<1>1. LedRoutes \subseteq LedRoutes'
  BY ChangeType DEF LedRoutes
<1>2. UNCHANGED <<file, cli, boots, reload, table>>
  BY DEF ChangeStep, OutsideConfig, fileVars, processVars, watcherVars
<1>3. CP!Within(LedRoutes)'
  BY <1>1, <1>2 DEF ProvenanceInv, CP!Within
<1>4. OneAddress'
  <2> USE DEF SystemInv, IInv, TypeOK
  <2>1. CASE ContainerStart(c)
    <3>1. PICK a \in [1..Nets[c] -> Addrs \ InUse] : ips' = [ips EXCEPT ![c] = a]
      BY <2>1 DEF ContainerStart
    <3>2. Len(a) <= 1
      BY <3>1, NetsType DEF OneNetwork
    <3> QED
      BY <3>1, <3>2 DEF ProvenanceInv, OneAddress, EngineTypeOK
  <2>2. CASE ContainerStop(c)
    BY <2>2 DEF ContainerStop, ProvenanceInv, OneAddress
  <2>3. CASE ContainerExit(c)
    <3>1. Len(<< >>) = 0
      OBVIOUS
    <3> QED
      BY <2>3, <3>1 DEF ContainerExit, ProvenanceInv, OneAddress, EngineTypeOK
  <2> QED
    BY <2>1, <2>2, <2>3 DEF ChangeStep
<1> QED
  BY <1>3, <1>4 DEF ProvenanceInv

LEMMA LedTable ==
  ASSUME SystemInv
  PROVE  table \subseteq LedRoutes <=> RouteProvenance
BY DEF SystemInv, IInv, TypeOK, WatcherTypeOK, LedRoutes, RouteProvenance

LEMMA WatcherProvenance ==
  ASSUME SystemInv, ProvenanceInv, WatcherStep, OutsideConfig
  PROVE  ProvenanceInv'
<1>1. SystemInv' /\ KeepsRoutes /\ leases' = leases /\ ips' = ips
  BY WatcherStepType
<1>2. RouteProvenance'
  BY <1>1, LedTable DEF ProvenanceInv, CP!Within, KeepsRoutes
<1>3. table' \subseteq LedRoutes'
  BY <1>1, <1>2 DEF SystemInv, IInv, TypeOK, WatcherTypeOK, LedRoutes, RouteProvenance
<1>4. LedRoutes' = LedRoutes
  BY <1>1 DEF LedRoutes
<1>5. UNCHANGED <<file, cli, boots, reload>>
  BY DEF OutsideConfig, fileVars, processVars
<1> QED
  BY <1>1, <1>3, <1>4, <1>5 DEF ProvenanceInv, OneAddress, CP!Within

(* A sync asks for routes that lead where containers are.                   *)
LEMMA DiscoveredLed ==
  ASSUME SystemInv, ProvenanceInv, NEW project \in Projects
  PROVE  Discovered(project) \subseteq LedRoutes
<1> SUFFICES ASSUME NEW c \in project, ips[c] # << >>, NEW d \in Hosts[c]
             PROVE  [domain |-> d, upstream |-> FirstAddress(c)] \in LedRoutes
  BY DEF Discovered
<1>1. c \in Containers /\ d \in Domains
  BY ProjectsType, HostsType
<1>2. ips[c] \in Seq(Addrs) /\ <<c, ips[c]>> \in leases /\ Len(ips[c]) <= 1
  BY <1>1 DEF SystemInv, IInv, TypeOK, EngineTypeOK, Leased, ProvenanceInv, OneAddress
<1>3. Len(ips[c]) = 1
  <2>1. ips[c] \in Seq(Addrs) /\ ips[c] # << >>
    BY <1>2
  <2>2. Len(ips[c]) \in Nat \ {0}
    BY <2>1, EmptySeq
  <2>3. \A n \in Nat \ {0} : n <= 1 => n = 1
    OBVIOUS
  <2> QED
    BY <1>2, <2>2, <2>3
<1>4. ips[c] = <<ips[c][1]>>
  BY <1>2, <1>3
<1>5. FirstAddress(c) = ips[c]
  BY <1>4 DEF FirstAddress
<1> DEFINE r == [domain |-> d, upstream |-> ips[c]]
<1>6. r \in Table!Route /\ r.domain \in Hosts[c] /\ <<c, r.upstream>> \in leases
  BY <1>1, <1>2 DEF Table!Route
<1> HIDE DEF r
<1>7. r \in LedRoutes
  BY <1>1, <1>6 DEF LedRoutes
<1> QED
  BY <1>5, <1>7 DEF r

(* Commands and the daemon only pass routes on.                             *)
LEMMA ConfigProvenance ==
  ASSUME SystemInv, ProvenanceInv, ConfigStep,
         \/ \E p \in Clis : CP!CliStep(p) \/ CP!Interrupt(p)
         \/ \E p \in Clis, req \in Requested : req.new \subseteq LedRoutes /\ CP!Begin(p, req)
         \/ CP!DaemonStep
  PROVE  ProvenanceInv'
<1>1. PICK S : S = LedRoutes
  OBVIOUS
<1>2. CP!ConfigTypeOK /\ CP!Within(S)
  BY <1>1 DEF SystemInv, ProvenanceInv
<1>3. CP!Within(S)'
  BY <1>1, <1>2, CP!CliWithin, CP!BeginWithin, CP!DaemonWithin,
     SansAreDomains, StepsAreSteps, RequestedType, PidsAreFresh
<1>4. UNCHANGED <<ips, leases>>
  BY DEF ConfigStep
<1>5. LedRoutes' = S
  BY <1>1, <1>4 DEF LedRoutes
<1> QED
  BY <1>3, <1>4, <1>5 DEF ProvenanceInv, OneAddress, CP!Within

LEMMA SystemNextProvenance ==
  ASSUME OneNetwork
  PROVE  SystemInv /\ ProvenanceInv /\ [SystemNext]_systemVars => ProvenanceInv'
<1> SUFFICES ASSUME SystemInv, ProvenanceInv, [SystemNext]_systemVars PROVE ProvenanceInv'
  OBVIOUS
<1>1. CASE UNCHANGED systemVars
  BY <1>1 DEF systemVars, vars, engineVars, watcherVars, fileVars, processVars, ProvenanceInv,
     OneAddress, LedRoutes, CP!Within
<1>2. ASSUME NEW p \in Clis, NEW project \in Projects, Sync(p, project) PROVE ProvenanceInv'
  <2> DEFINE req == [op |-> "sync", new |-> Discovered(project), gone |-> {}]
  <2>1. req \in Requested /\ req.new \subseteq LedRoutes
    BY <1>2, SyncRequest, DiscoveredLed DEF Sync, SystemInv, IInv
  <2>2. ConfigStep /\ CP!Begin(p, req)
    BY <1>2, SyncSteps
  <2> HIDE DEF req
  <2> QED
    BY <2>1, <2>2, ConfigProvenance
<1>3. ASSUME NEW p \in Clis, NEW project \in Projects, Unsync(p, project) PROVE ProvenanceInv'
  <2> DEFINE req == [op |-> "unsync", new |-> {}, gone |-> ProjectDomains(project)]
  <2>1. req \in Requested /\ req.new \subseteq LedRoutes
    BY <1>3, UnsyncRequest DEF Unsync
  <2>2. ConfigStep /\ CP!Begin(p, req)
    BY <1>3, UnsyncSteps
  <2> HIDE DEF req
  <2> QED
    BY <2>1, <2>2, ConfigProvenance
<1>4. CASE Proceed
  BY <1>4, ProceedSteps, SameCliStep, SameDaemonStep, ConfigProvenance DEF Proceed
<1>5. CASE Interrupted
  BY <1>5, InterruptedSteps, ConfigProvenance
<1> QED
  BY <1>1, <1>2, <1>3, <1>4, <1>5, ChangeProvenance, WatcherProvenance, SystemSteps

LEMMA SystemInitProvenance == SystemInit => ProvenanceInv
<1> SUFFICES ASSUME SystemInit PROVE ProvenanceInv
  OBVIOUS
<1>1. OneAddress
  BY DEF SystemInit, Init, EngineInit, OneAddress
<1>2. file.routes = {} /\ table = {} /\ reload = {}
  BY SameInit DEF SystemInit, CP!ConfigInit, CP!Whole
<1>3. ASSUME NEW p \in Clis PROVE cli[p].req.new = {} /\ cli[p].cfg = {}
  BY <1>3, SameInit DEF SystemInit, CP!ConfigInit, CP!Idle, CP!NoRequest
<1>4. ASSUME NEW i \in Pids PROVE boots[i].routes = {}
  BY <1>4, SameInit DEF SystemInit, CP!ConfigInit, CP!Absent
<1> QED
  BY <1>1, <1>2, <1>3, <1>4 DEF ProvenanceInv, CP!Within

(* Through file, reload and watcher, whatever commands overlap and wherever *)
(* one is interrupted: neither config.json nor the daemon sends a domain to *)
(* an address that was never given to a container labelled with it.         *)
THEOREM SystemRoutesProvenance ==
  ASSUME OneNetwork
  PROVE  SystemSpec => []SystemProvenance
<1>1. ProvenanceInv => SystemProvenance
  BY DEF ProvenanceInv, CP!Within, LedRoutes, SystemProvenance
<1> QED
  BY <1>1, SystemInvariant, SystemInitProvenance, SystemInitInv, SystemNextProvenance, PTL DEF SystemSpec
-----------------------------------------------------------------------------
(* What a sync did stays done.  First the watcher: as in WatcherProofs, but *)
(* containers change unseen while the daemon, or its stream, is not there.  *)
StreamLines == link # "open" => pipe = << >>
StopsOutlived == \A c \in Containers : state[c] = "up" => Outlived(c)
LinesInv == PipeRead /\ StreamLines /\ Fresh /\ StopsOutlived /\ Addressed

LEMMA SystemInitLines == SystemInit => LinesInv
<1> SUFFICES ASSUME SystemInit PROVE LinesInv
  OBVIOUS
<1>1. LifeInv
  BY InitLife DEF SystemInit
<1>2. pipe = << >>
  BY DEF SystemInit, Init, EngineInit
<1> QED
  BY <1>1, <1>2 DEF LinesInv, LifeInv, StreamLines, StopsOutlived, Outlived

LEMMA ChangeLinesInv ==
  ASSUME SystemInv, LinesInv, NEW c \in Containers, ChangeStep(c), Changes(c)
  PROVE  /\ LinesInv'
         /\ \A o \in Containers \ {c} : state'[o] = state[o] /\ ips'[o] = ips[o]
         /\ \A o \in Containers : StartPending(o) => StartPending(o)'
<1> USE DEF SystemInv, IInv, TypeOK
<1>1. UNCHANGED <<phase, tasks, faults>>
  BY DEF ChangeStep, watcherVars
<1>2. /\ \A o \in Containers \ {c} : state'[o] = state[o] /\ ips'[o] = ips[o]
      /\ link' = link
  BY ChangeStates
<1>3. state'[c] = "up" => ContainerStart(c)
  BY DEF ChangeStep, ContainerStop, ContainerExit, EngineTypeOK
<1>4. Addressed' /\ (link # "open" => pipe' = pipe)
  BY ChangeAddresses DEF LinesInv
<1>5. Fresh'
  BY <1>1, ChangeFresh DEF LinesInv, ChangeStep, WatcherTypeOK
<1>6. PipeRead' /\ StreamLines'
  BY <1>1, <1>2, <1>4 DEF LinesInv, PipeRead, StreamLines, WatcherTypeOK
<1>7. StopsOutlived'
  <2> SUFFICES ASSUME NEW o \in Containers, state'[o] = "up" PROVE Outlived(o)'
    BY DEF StopsOutlived
  <2>1. CASE o # c
    BY <1>2, <2>1, ChangeLines DEF LinesInv, StopsOutlived
  <2>2. CASE o = c /\ link = "open"
    BY <1>3, <2>2, ChangeLines
  <2>3. CASE o = c /\ link # "open"
    BY <1>4, <2>3 DEF LinesInv, StreamLines, Outlived
  <2> QED
    BY <2>1, <2>2, <2>3
<1>8. \A o \in Containers : StartLine(o) => StartLine(o)'
  BY ChangeLines
<1>9. \A o \in Containers : StartPending(o) => StartPending(o)'
  BY <1>1, <1>8 DEF StartPending, StartLine
<1> QED
  BY <1>2, <1>4, <1>5, <1>6, <1>7, <1>9 DEF LinesInv

LEMMA WatcherLinesInv ==
  ASSUME SystemInv, LinesInv, WatcherStep
  PROVE  LinesInv' /\ UNCHANGED <<state, ips>>
<1> USE DEF SystemInv, IInv, LinesInv
<1>1. UNCHANGED faults /\ (Loop \/ StartTask)
  BY DEF WatcherStep
<1>2. /\ UNCHANGED <<state, ips>> /\ PipeRead' /\ Fresh'
      /\ \A c \in Containers : Outlived(c) => Outlived(c)'
  BY <1>1, LoopKeeps, StartTaskKeeps
<1>3. StreamLines'
  BY <1>1 DEF StreamLines, Loop, StartTask, Connect, SpawnFails, LoopFails, Retry, SpawnStartTask,
     HandleStop, NextLine, Inspect, Register, engineVars
<1> QED
  BY <1>2, <1>3 DEF StopsOutlived, Addressed, Up

LEMMA ConfigLinesInv ==
  ASSUME LinesInv, ConfigStep
  PROVE  LinesInv'
<1>1. UNCHANGED <<state, ips, faults>>
  BY DEF ConfigStep
<1>2. CASE UNCHANGED loopVars
  BY <1>1, <1>2 DEF loopVars, LinesInv, PipeRead, StreamLines, Fresh, StopsOutlived, Outlived,
     Addressed, Up, StartPending
<1>3. CASE EndsWatcher
  BY <1>1, <1>3 DEF EndsWatcher, LinesInv, PipeRead, StreamLines, Fresh, StopsOutlived, Outlived,
     Addressed, Up, StartPending
<1> QED
  BY <1>2, <1>3 DEF ConfigStep
-----------------------------------------------------------------------------
(* Then the way of the routes a sync found: what a command is about to      *)
(* write, and the file once it is written, lead to every container that has *)
(* not changed since it was synced.                                         *)
Covers(T) == \A c \in synced : \A d \in Own(c) : [domain |-> d, upstream |-> ips[c]] \in T
SyncedUp == \A c \in synced : state[c] = "up"
FileCovers ==
  /\ \A p \in Clis : /\ CP!Reached(p, "load") => Covers(CP!Apply(cli[p].req, file.routes))
                     /\ CP!Editing(p) => Covers(cli[p].cfg)
  /\ (\A p \in Clis : ~CP!Reached(p, "load") /\ ~CP!Editing(p)) => Covers(file.routes)

(* A command that will tell the daemon of a change.                         *)
Unsignaled(p) ==
  \/ CP!Reached(p, "load") /\ cli[p].req.op = "sync"
  \/ cli[p].pc \in {"cert", "pem", "record", "save", "write", "signal", "hup", "stop"}

(* When no command is about to tell of a change, a process that is not      *)
(* missed has read those routes; and a daemon that has no signal to serve   *)
(* reloads them or has them, or a start task is about to write them.        *)
DaemonCovers ==
  (\A p \in Clis : ~Unsignaled(p)) =>
    /\ \A i \in Pids : boots[i].at = "read" /\ i \notin untold => Covers(boots[i].routes)
    /\ daemon # "off" /\ dpid \notin untold /\ ~hup =>
         /\ \A T \in reload : Covers(T)
         /\ reload = {} => \A c \in synced : StartPending(c) \/ Routed(c)

SyncedInv == CP!Alone /\ SyncedUp /\ FileCovers /\ DaemonCovers

(* Commands do not overlap and are not cut off in the middle of a write; a  *)
(* container has one network and does not die while a start task is about   *)
(* to write.                                                                *)
Orderly ==
  /\ Serial /\ "write" \notin Breakable
  /\ \A c \in Containers : Nets[c] = 1
  /\ \A f \in Faults : "overtaken" \notin f

LEMMA CoversFewer ==
  ASSUME synced' \subseteq synced, \A c \in synced' : ips'[c] = ips[c]
  PROVE  \A T : Covers(T) => Covers(T)'
BY DEF Covers

(* What an unsync, at the load, leaves of a file was in it.                 *)
LEMMA FileNow ==
  ASSUME SystemInv, CP!Alone, FileCovers, \A p \in Clis : ~Unsignaled(p)
  PROVE  Covers(file.routes) /\ CP!Readable
<1>1. \A p \in Clis : ~CP!Editing(p)
  BY DEF Unsignaled, CP!Editing, CP!Edits
<1>2. CP!Readable
  BY DEF CP!Alone, CP!Writing, Unsignaled
<1>3. CASE \A p \in Clis : ~CP!Reached(p, "load")
  BY <1>1, <1>2, <1>3 DEF FileCovers
<1>4. ASSUME NEW p \in Clis, CP!Reached(p, "load") PROVE Covers(file.routes)
  <2>1. cli[p].req \in Requested /\ cli[p].req.op # "sync"
    BY <1>4 DEF CP!Alone, Unsignaled
  <2>2. cli[p].req.new = {}
    BY <2>1 DEF Requested
  <2>3. CP!Apply(cli[p].req, file.routes) \subseteq file.routes
    BY <2>2 DEF CP!Apply, CP!Upsert, CP!Without
  <2> QED
    BY <1>4, <2>3 DEF FileCovers, Covers
<1> QED
  BY <1>2, <1>3, <1>4

LEMMA SystemInitSynced == SystemInit => SyncedInv
<1> SUFFICES ASSUME SystemInit PROVE SyncedInv
  OBVIOUS
<1>1. CP!ConfigInit /\ synced = {}
  BY SameInit DEF SystemInit
<1>2. CP!Alone
  BY <1>1, CP!InitAlone, SansAreDomains, StepsAreSteps, RequestedType, PidsAreFresh
<1> QED
  BY <1>1, <1>2 DEF SyncedInv, SyncedUp, FileCovers, DaemonCovers, Covers

LEMMA ChangeSynced ==
  ASSUME SystemInv, LinesInv, SyncedInv, NEW c \in Containers, ChangeStep(c), Changes(c)
  PROVE  SyncedInv'
<1>1. /\ UNCHANGED <<file, cli, boots, daemon, dpid, hup, reload, untold, table, tasks>>
      /\ synced' = synced \ {c}
  BY DEF ChangeStep, OutsideConfig, fileVars, processVars, watcherVars
<1>2. /\ \A o \in Containers \ {c} : state'[o] = state[o] /\ ips'[o] = ips[o]
      /\ \A o \in Containers : StartPending(o) => StartPending(o)'
  BY ChangeLinesInv
<1>3. synced \subseteq Containers
  BY DEF SystemInv
<1>4. \A T : Covers(T) => Covers(T)'
  BY <1>1, <1>2, <1>3, CoversFewer
<1>5. SyncedUp'
  BY <1>1, <1>2, <1>3 DEF SyncedInv, SyncedUp
<1>6. CP!Alone'
  BY <1>1 DEF SyncedInv, CP!Alone, CP!Reached, CP!Editing, CP!Edits, CP!Writing, CP!Readable
<1>7. FileCovers'
  BY <1>1, <1>4 DEF SyncedInv, FileCovers, Covers, CP!Reached, CP!Editing, CP!Edits
<1>8. \A o \in synced' : Routed(o) => Routed(o)'
  BY <1>1, <1>2, <1>3 DEF Routed
<1>9. DaemonCovers'
  <2>1. \A p \in Clis : Unsignaled(p)' <=> Unsignaled(p)
    BY <1>1 DEF Unsignaled, CP!Reached, CP!Editing, CP!Edits
  <2> QED
    BY <1>1, <1>2, <1>3, <1>4, <1>8, <2>1 DEF SyncedInv, DaemonCovers
<1> QED
  BY <1>5, <1>6, <1>7, <1>9 DEF SyncedInv

LEMMA WatcherSynced ==
  ASSUME Orderly, SystemInv, LinesInv, SyncedInv, WatcherStep, OutsideConfig
  PROVE  SyncedInv'
<1>1. /\ UNCHANGED <<file, cli, boots, daemon, dpid, hup, reload, untold, synced, faults>>
      /\ Loop \/ StartTask
  BY DEF WatcherStep, OutsideConfig, fileVars, processVars
<1>2. UNCHANGED <<state, ips>>
  BY WatcherLinesInv
<1>3. "overtaken" \notin faults
  BY DEF Orderly, SystemInv, IInv, TypeOK
<1>4. ASSUME NEW c \in synced PROVE Outlived(c) /\ ips[c] # << >> /\ c \in Containers
  <2>1. c \in Containers /\ state[c] = "up"
    BY <1>4 DEF SystemInv, SyncedInv, SyncedUp
  <2>2. Outlived(c) /\ Len(ips[c]) = 1
    BY <2>1 DEF LinesInv, StopsOutlived, Addressed, Up, Orderly
  <2> QED
    BY <2>1, <2>2, EmptySeq
<1>5. \A c \in synced : StartPending(c) \/ Routed(c) => StartPending(c)' \/ Routed(c)'
  BY <1>1, <1>3, <1>4, LoopKeeps, StartTaskKeeps DEF SystemInv, IInv, LinesInv
<1>6. \A T : Covers(T)' <=> Covers(T)
  BY <1>1, <1>2 DEF Covers
<1>7. CP!Alone'
  BY <1>1 DEF SyncedInv, CP!Alone, CP!Reached, CP!Editing, CP!Edits, CP!Writing, CP!Readable
<1>8. SyncedUp' /\ FileCovers'
  BY <1>1, <1>2 DEF SyncedInv, SyncedUp, FileCovers, Covers, CP!Reached, CP!Editing, CP!Edits
<1>9. DaemonCovers'
  <2>1. \A p \in Clis : Unsignaled(p)' <=> Unsignaled(p)
    BY <1>1 DEF Unsignaled, CP!Reached, CP!Editing, CP!Edits
  <2> QED
    BY <1>1, <1>5, <1>6, <2>1 DEF SyncedInv, DaemonCovers
<1> QED
  BY <1>7, <1>8, <1>9 DEF SyncedInv
(* A command reads nothing back that the others have not written: the whole *)
(* change is known when it begins.                                          *)
LEMMA AloneNext ==
  ASSUME Orderly, CP!ConfigTypeOK, CP!Alone, CP!ConfigNext
  PROVE  CP!Alone'
BY CP!NextAlone, SansAreDomains, StepsAreSteps, RequestedType, PidsAreFresh DEF Orderly

LEMMA SyncCovers ==
  ASSUME Orderly, SystemInv, LinesInv, SyncedUp, NEW project \in Projects, NEW req,
         req.new = Discovered(project), req.gone = {},
         Covers(file.routes), NEW c \in synced \cup {x \in project : state[x] = "up"}, NEW d \in Own(c)
  PROVE  [domain |-> d, upstream |-> ips[c]] \in CP!Apply(req, file.routes)
<1> DEFINE r == [domain |-> d, upstream |-> ips[c]]
<1>1. c \in Containers /\ state[c] = "up" /\ d \in Hosts[c]
  BY ProjectsType DEF SystemInv, SyncedUp, Own
<1>2. CASE c \in project
  <2>1. Len(ips[c]) = 1 /\ Up(c) /\ ips[c] \in Seq(Addrs)
    BY <1>1 DEF LinesInv, Addressed, Up, Orderly, SystemInv, IInv, TypeOK, EngineTypeOK
  <2>2. ips[c] = <<ips[c][1]>>
    BY <2>1
  <2>3. ips[c] # << >>
    <3>1. Len(<< >>) = 0
      OBVIOUS
    <3>2. Len(ips[c]) # 0
      BY <2>1
    <3> QED
      BY <3>1, <3>2, Zenon
  <2>4. r \in Discovered(project)
    BY <1>1, <1>2, <2>1, <2>2, <2>3 DEF Discovered, FirstAddress
  <2> QED
    BY <2>4 DEF CP!Apply, CP!Upsert, CP!Without
<1>3. CASE c \notin project
  <2>1. r \in file.routes
    BY <1>3 DEF Covers
  <2>2. ASSUME NEW s \in Discovered(project) PROVE s.domain # d
    <3>1. PICK o \in project : s.domain \in Hosts[o]
      BY DEF Discovered
    <3>2. o \in Containers /\ o # c
      BY <1>3, ProjectsType
    <3> QED
      BY <1>1, <3>1, <3>2 DEF Own
  <2>3. r.domain = d
    OBVIOUS
  <2> HIDE DEF r
  <2>4. r \in CP!Apply(req, file.routes)
    BY <2>1, <2>2, <2>3 DEF CP!Apply, CP!Upsert, CP!Without
  <2> QED
    BY <2>4 DEF r
<1> QED
  BY <1>2, <1>3

LEMMA UnsyncCovers ==
  ASSUME SystemInv, NEW project \in Projects, NEW req,
         req.new = {}, req.gone = ProjectDomains(project),
         Covers(file.routes), NEW c \in synced \ project, NEW d \in Own(c)
  PROVE  [domain |-> d, upstream |-> ips[c]] \in CP!Apply(req, file.routes)
<1> DEFINE r == [domain |-> d, upstream |-> ips[c]]
<1>1. r \in file.routes /\ r.domain = d
  BY DEF Covers
<1>2. d \notin ProjectDomains(project)
  BY ProjectsType DEF Own, ProjectDomains, SystemInv
<1> HIDE DEF r
<1>3. r \in CP!Apply(req, file.routes)
  BY <1>1, <1>2 DEF CP!Apply, CP!Upsert, CP!Without
<1> QED
  BY <1>3 DEF r

(* What the beginning of a command leaves as it is.                         *)
LEMMA BeginFrame ==
  ASSUME Orderly, SystemInv, NEW p \in Clis, NEW req, CP!Begin(p, req)
  PROVE  /\ UNCHANGED <<file, boots, daemon, dpid, hup, reload, untold, table>>
         /\ \A q \in Clis : CP!Reached(q, "idle")
         /\ cli'[p].pc = "load" /\ cli'[p].req = req
         /\ \A q \in Clis \ {p} : cli'[q] = cli[q]
BY DEF Orderly, SystemInv, CP!Begin, CP!Become, CP!AllIdle, CP!daemonVars, CP!ConfigTypeOK, CP!Idle,
   CP!Reached

LEMMA BeginSynced ==
  ASSUME Orderly, SystemInv, LinesInv, SyncedInv, NEW p \in Clis, NEW project \in Projects,
         Sync(p, project) \/ Unsync(p, project)
  PROVE  SyncedInv'
<1> USE DEF SyncedInv
<1>1. /\ ConfigStep /\ UNCHANGED loopVars
      /\ UNCHANGED <<state, ips>> /\ UNCHANGED tasks /\ UNCHANGED pipe
  BY SyncSteps, UnsyncSteps DEF ConfigStep, loopVars
<1>2. CP!Alone'
  BY <1>1, AloneNext DEF ConfigStep, SystemInv
<1>3. SyncedUp'
  BY <1>1 DEF Sync, Unsync, SyncedUp
<1>4. ASSUME NEW req, CP!Begin(p, req),
             \A T : T = CP!Apply(req, file.routes) => Covers(T)',
             req.op = "sync" \/ synced' \subseteq synced
      PROVE  FileCovers' /\ DaemonCovers'
  <2>1. /\ UNCHANGED <<file, boots, daemon, dpid, hup, reload, untold, table>>
        /\ \A q \in Clis : CP!Reached(q, "idle")
        /\ cli'[p].pc = "load" /\ cli'[p].req = req
        /\ \A q \in Clis \ {p} : cli'[q] = cli[q]
    BY <1>4, BeginFrame
  <2>2. FileCovers'
    BY <1>4, <2>1 DEF FileCovers, Covers, CP!Reached, CP!Editing, CP!Edits
  <2>3. CASE req.op = "sync"
    BY <2>1, <2>2, <2>3 DEF DaemonCovers, Unsignaled, CP!Reached
  <2>4. CASE synced' \subseteq synced
    <3>1. \A T : Covers(T) => Covers(T)'
      BY <1>1, <2>4, CoversFewer
    <3>2. \A q \in Clis : ~Unsignaled(q)
      BY <2>1 DEF Unsignaled, CP!Reached, CP!Editing, CP!Edits
    <3>3. \A c \in Containers : /\ StartPending(c) => StartPending(c)'
                                /\ Routed(c) => Routed(c)'
      BY <1>1, <2>1 DEF StartPending, Routed
    <3>4. DaemonCovers'
      BY <2>1, <2>4, <3>1, <3>2, <3>3 DEF DaemonCovers, SystemInv
    <3> QED
      BY <2>2, <3>4
  <2> QED
    BY <1>4, <2>3, <2>4
<1>5. ASSUME NEW req, CP!Begin(p, req) PROVE Covers(file.routes)
  <2>1. \A q \in Clis : CP!Reached(q, "idle")
    BY <1>5, BeginFrame
  <2> QED
    BY <2>1 DEF FileCovers, CP!Reached, CP!Editing, CP!Edits
<1>6. CASE Sync(p, project)
  <2> DEFINE req == [op |-> "sync", new |-> Discovered(project), gone |-> {}]
  <2>1. CP!Begin(p, req)
    BY <1>6, SyncSteps
  <2>2. req.op = "sync" /\ req.new = Discovered(project) /\ req.gone = {}
    OBVIOUS
  <2> HIDE DEF req
  <2>3. synced' = synced \cup {x \in project : state[x] = "up"}
    BY <1>6 DEF Sync
  <2>4. \A T : T = CP!Apply(req, file.routes) => Covers(T)'
    BY <1>1, <1>5, <2>1, <2>2, <2>3, SyncCovers DEF Covers
  <2> QED
    BY <1>2, <1>3, <1>4, <2>1, <2>2, <2>4
<1>7. CASE Unsync(p, project)
  <2> DEFINE req == [op |-> "unsync", new |-> {}, gone |-> ProjectDomains(project)]
  <2>1. CP!Begin(p, req)
    BY <1>7, UnsyncSteps
  <2>2. req.new = {} /\ req.gone = ProjectDomains(project)
    OBVIOUS
  <2> HIDE DEF req
  <2>3. synced' = synced \ project
    BY <1>7 DEF Unsync
  <2>4. \A T : T = CP!Apply(req, file.routes) => Covers(T)'
    BY <1>1, <1>5, <2>1, <2>2, <2>3, UnsyncCovers DEF Covers
  <2> QED
    BY <1>2, <1>3, <1>4, <2>1, <2>3, <2>4
<1> QED
  BY <1>6, <1>7
(* A step of a command: it is the only one, and takes its change along.      *)
LEMMA OnlyCommand ==
  ASSUME CP!Alone, NEW p \in Clis, ~CP!Reached(p, "idle"), NEW q \in Clis \ {p}
  PROVE  cli[q].pc = "idle"
BY DEF CP!Alone, CP!Reached

(* A command that tells the daemon tells one process and misses the others. *)
LEMMA AllUntold ==
  ASSUME CP!ConfigTypeOK', untold' = CP!HaveRead'
  PROVE  DaemonCovers'
BY DEF DaemonCovers, CP!ConfigTypeOK, CP!HaveRead

LEMMA TellSynced ==
  ASSUME SystemInv, SyncedInv, NEW p \in Clis, CP!TellStep(p),
         UNCHANGED <<state, ips, synced>>,
         UNCHANGED <<tasks, pipe>> \/ daemon' = "off"
  PROVE  /\ DaemonCovers' /\ file' = file
         /\ cli[p].pc \in {"signal", "hup", "stop", "unlink", "spawn", "track"}
         /\ cli'[p].pc \in {"idle", "signal", "hup", "stop", "unlink", "spawn", "track"}
         /\ \A q \in Clis \ {p} : cli'[q] = cli[q]
<1> USE DEF CP!Reached
<1>1. cli \in [Clis -> CP!Command] /\ CP!ConfigTypeOK
  BY DEF SystemInv, CP!ConfigTypeOK
<1>2. CP!ConfigTypeOK'
  BY <1>1, ConfigType DEF CP!ConfigNext, CP!CliStep
<1>3. cli[p].pc \in {"signal", "hup", "stop", "unlink", "spawn", "track"} /\ file' = file
  BY DEF CP!TellStep, CP!FindDaemon, CP!NoDaemon, CP!Hangup, CP!Stop, CP!Unlink, CP!Spawn, CP!Track
<1>4. ASSUME NEW c, CP!Become(p, c), c.pc \in {"idle", "signal", "hup", "stop", "unlink", "spawn", "track"}
      PROVE  /\ cli'[p].pc = c.pc
             /\ cli'[p].pc \in {"idle", "signal", "hup", "stop", "unlink", "spawn", "track"}
             /\ \A q \in Clis \ {p} : cli'[q] = cli[q]
  BY <1>1, <1>4 DEF CP!Become
<1>5. CP!Idle.pc = "idle" /\ \A op, step, changed : CP!Telling(op, step, changed).pc = step
  BY DEF CP!Idle, CP!Telling
<1>6. \A q \in Clis \ {p} : cli[q].pc = "idle"
  BY <1>3, OnlyCommand DEF SyncedInv
<1>7. ASSUME CP!Missed(NoPid), UNCHANGED CP!daemonVars PROVE DaemonCovers'
  <2>1. untold' = CP!HaveRead'
    BY <1>1, <1>7, CP!MissedAll, SansAreDomains, StepsAreSteps, RequestedType, PidsAreFresh
       DEF CP!HaveRead, CP!daemonVars
  <2> QED
    BY <1>2, <2>1, AllUntold
<1>8. ASSUME NEW i \in Pids, CP!Kill(i) PROVE DaemonCovers'
  <2>1. untold' = CP!HaveRead'
    BY <1>1, <1>8, CP!KillType, SansAreDomains, StepsAreSteps, RequestedType, PidsAreFresh
  <2> QED
    BY <1>2, <2>1, AllUntold
<1>9. CASE CP!FindDaemon(p)
  <2>1. PICK step \in {"stop", "hup"}, changed \in {cli[p].changed} : CP!Become(p, CP!Telling("none", step, changed))
    BY <1>9 DEF CP!FindDaemon
  <2>2. cli'[p].pc \in {"stop", "hup"} /\ \A q \in Clis \ {p} : cli'[q] = cli[q]
    BY <1>4, <1>5, <2>1
  <2>3. Unsignaled(p)'
    BY <2>2 DEF Unsignaled
  <2> QED
    BY <1>3, <2>2, <2>3 DEF DaemonCovers
<1>10. CASE CP!NoDaemon(p)
  <2>1. CP!Become(p, CP!Idle) \/ CP!Become(p, CP!Telling("none", "spawn", FALSE))
    BY <1>10 DEF CP!NoDaemon, CP!Finish
  <2>2. DaemonCovers'
    BY <1>7, <1>10 DEF CP!NoDaemon
  <2>3. /\ cli'[p].pc \in {"idle", "signal", "hup", "stop", "unlink", "spawn", "track"}
        /\ \A q \in Clis \ {p} : cli'[q] = cli[q]
    <3>1. CASE CP!Become(p, CP!Idle)
      BY <1>4, <1>5, <3>1
    <3>2. CASE CP!Become(p, CP!Telling("none", "spawn", FALSE))
      <4>1. CP!Telling("none", "spawn", FALSE).pc = "spawn"
        BY <1>5
      <4> QED
        BY <1>4, <3>2, <4>1
    <3> QED
      BY <2>1, <3>1, <3>2
  <2> QED
    BY <1>3, <2>2, <2>3
<1>11. CASE CP!Hangup(p)
  <2>1. CP!Become(p, CP!Idle)
    BY <1>11 DEF CP!Hangup, CP!Finish
  <2>2. ASSUME CP!Missed(NoPid) /\ UNCHANGED CP!daemonVars PROVE DaemonCovers'
    BY <1>7, <2>2
  <2>3. ASSUME pid = dpid, hup' = TRUE, CP!Missed(pid), UNCHANGED <<boots, daemon, dpid>>, CP!Found
        PROVE  DaemonCovers'
    <3>1. boots[dpid].at # "read" /\ dpid \in Pids
      BY <1>1, <2>3 DEF CP!ConfigTypeOK, CP!Found
    <3>2. \A i \in Pids : boots'[i].at = "read" => i \in untold'
      BY <2>3, <3>1 DEF CP!Missed, CP!HaveRead
    <3>3. DaemonCovers'
      BY <2>3, <3>2 DEF DaemonCovers
    <3> QED
      BY <3>3
  <2>4. ASSUME CP!Found /\ CP!Kill(pid) PROVE DaemonCovers'
    BY <1>8, <2>4 DEF CP!Found
  <2>5. DaemonCovers'
    BY <1>11, <2>2, <2>3, <2>4 DEF CP!Hangup
  <2> QED
    BY <1>3, <1>4, <1>5, <2>1, <2>5
<1>12. CASE CP!Stop(p)
  <2>1. \E step \in {"spawn", "unlink"} : CP!Become(p, CP!Telling("none", step, FALSE))
    BY <1>12 DEF CP!Stop
  <2>2. ASSUME CP!Missed(NoPid) /\ UNCHANGED CP!daemonVars PROVE DaemonCovers'
    BY <1>7, <2>2
  <2>3. ASSUME CP!Found /\ CP!Kill(pid) PROVE DaemonCovers'
    BY <1>8, <2>3 DEF CP!Found
  <2>4. DaemonCovers'
    BY <1>12, <2>2, <2>3 DEF CP!Stop
  <2>5. /\ cli'[p].pc \in {"idle", "signal", "hup", "stop", "unlink", "spawn", "track"}
        /\ \A q \in Clis \ {p} : cli'[q] = cli[q]
    <3>1. PICK step \in {"spawn", "unlink"} : CP!Become(p, CP!Telling("none", step, FALSE))
      BY <2>1
    <3>2. CP!Telling("none", step, FALSE).pc = step
      BY <1>5
    <3> QED
      BY <1>4, <3>1, <3>2
  <2> QED
    BY <1>3, <2>4, <2>5
<1>13. CASE CP!Unlink(p) \/ CP!Spawn(p) \/ CP!Track(p)
  <2>1. cli[p].pc \in {"unlink", "spawn", "track"} /\ cli[p] \in CP!Command
    BY <1>1, <1>13 DEF CP!Unlink, CP!Spawn, CP!Track
  <2>2. cli'[p].pc \in {"idle", "spawn", "track"} /\ \A q \in Clis \ {p} : cli'[q] = cli[q]
    <3>1. CASE CP!Unlink(p)
      BY <1>1, <2>1, <3>1 DEF CP!Unlink, CP!Goto, CP!Become, CP!Command
    <3>2. CASE CP!Spawn(p)
      <4>1. PICK i \in Pids : cli' = [cli EXCEPT ![p] = [cli[p] EXCEPT !.child = i, !.pc = "track"]]
        BY <3>2 DEF CP!Spawn, CP!Become
      <4> QED
        BY <1>1, <2>1, <4>1 DEF CP!Command
    <3>3. CASE CP!Track(p)
      BY <1>4, <1>5, <3>3 DEF CP!Track, CP!Finish
    <3> QED
      BY <1>13, <3>1, <3>2, <3>3
  <2>3. \A q \in Clis : ~Unsignaled(q)
    BY <1>6, <2>1 DEF Unsignaled
  <2>4. UNCHANGED <<daemon, dpid, hup, reload, table, untold>>
    BY <1>13 DEF CP!Unlink, CP!Spawn, CP!Track, CP!daemonVars
  <2>5. \A i \in Pids : boots'[i].at = "read" => boots'[i] = boots[i]
    <3>1. CASE UNCHANGED boots
      BY <3>1
    <3>2. ASSUME NEW i \in Pids, boots' = [boots EXCEPT ![i].at = "started"]
          PROVE  \A j \in Pids : boots'[j].at = "read" => boots'[j] = boots[j]
      <4>1. boots \in [Pids -> CP!Process]
        BY <1>1 DEF CP!ConfigTypeOK
      <4>2. boots'[i].at = "started" /\ \A j \in Pids \ {i} : boots'[j] = boots[j]
        BY <3>2, <4>1 DEF CP!Process
      <4> QED
        BY <4>2
    <3> QED
      BY <1>13, <3>1, <3>2 DEF CP!Unlink, CP!Spawn, CP!Track, CP!daemonVars
  <2>6. \A T : Covers(T)' <=> Covers(T)
    BY DEF Covers
  <2>7. DaemonCovers'
    BY <2>3, <2>4, <2>5, <2>6 DEF DaemonCovers, SyncedInv, Routed, StartPending
  <2> QED
    BY <1>3, <2>2, <2>7
<1> QED
  BY <1>9, <1>10, <1>11, <1>12, <1>13 DEF CP!TellStep

(* Where a command that sees to the certificate goes from there.            *)
LEMMA CertGoesOn ==
  ASSUME CP!ConfigTypeOK, NEW p \in Clis, CP!CertStep(p)
  PROVE  /\ file' = file /\ cli[p].pc \in {"cert", "pem", "record"}
         /\ \A q \in Clis \ {p} : cli'[q] = cli[q]
         /\ cli[p].req.op = "sync" =>
              /\ cli'[p].pc \in {"save", "pem", "record"}
              /\ cli'[p].req = cli[p].req /\ cli'[p].cfg = cli[p].cfg
         /\ cli[p].req.op # "sync" =>
              cli'[p].pc \in {"signal", "pem", "record"} /\ cli'[p].req.op # "sync"
<1>1. cli \in [Clis -> CP!Command] /\ cli[p] \in CP!Command
  BY DEF CP!ConfigTypeOK
<1>2. /\ file' = file /\ cli[p].pc \in {"cert", "pem", "record"}
      /\ \/ \E changed : CP!Become(p, CP!AfterCert(cli[p], changed))
         \/ \E step \in {"pem", "record"} : CP!Become(p, [cli[p] EXCEPT !.pc = step])
  BY DEF CP!CertStep, CP!CheckCert, CP!WritePem, CP!Record, CP!Goto, CP!Reached
<1>3. \A c : CP!Become(p, c) => cli'[p] = c /\ \A q \in Clis \ {p} : cli'[q] = cli[q]
  BY <1>1 DEF CP!Become
<1>4. ASSUME NEW step \in {"pem", "record"}, CP!Become(p, [cli[p] EXCEPT !.pc = step])
      PROVE  /\ cli'[p].pc = step /\ cli'[p].req = cli[p].req /\ cli'[p].cfg = cli[p].cfg
             /\ \A q \in Clis \ {p} : cli'[q] = cli[q]
  <2>1. cli'[p] = [cli[p] EXCEPT !.pc = step]
    BY <1>3, <1>4
  <2> QED
    BY <1>1, <1>3, <1>4, <2>1 DEF CP!Command
<1>5. ASSUME NEW changed, CP!Become(p, CP!AfterCert(cli[p], changed)), cli[p].req.op = "sync"
      PROVE  /\ cli'[p].pc = "save" /\ cli'[p].req = cli[p].req /\ cli'[p].cfg = cli[p].cfg
             /\ \A q \in Clis \ {p} : cli'[q] = cli[q]
  <2>1. cli'[p] = [cli[p] EXCEPT !.pc = "save", !.changed = changed]
    BY <1>3, <1>5 DEF CP!AfterCert
  <2> QED
    BY <1>1, <1>3, <1>5, <2>1 DEF CP!Command
<1>6. ASSUME NEW changed, CP!Become(p, CP!AfterCert(cli[p], changed)), cli[p].req.op # "sync"
      PROVE  /\ cli'[p].pc = "signal" /\ cli'[p].req.op = cli[p].req.op
             /\ \A q \in Clis \ {p} : cli'[q] = cli[q]
  <2>1. cli'[p] = CP!Telling(cli[p].req.op, "signal", changed)
    BY <1>3, <1>6 DEF CP!AfterCert
  <2>2. \A op, step : /\ CP!Telling(op, step, changed).pc = step
                      /\ CP!Telling(op, step, changed).req.op = op
    BY DEF CP!Telling, CP!Idle, CP!NoRequest
  <2> QED
    BY <1>3, <1>6, <2>1, <2>2
<1> QED
  BY <1>2, <1>4, <1>5, <1>6

LEMMA CliSynced ==
  ASSUME Orderly, SystemInv, SyncedInv, NEW p \in Clis, CP!CliStep(p), CP!Alone',
         UNCHANGED <<state, ips, synced>>,
         UNCHANGED <<tasks, pipe>> \/ daemon' = "off"
  PROVE  SyncedInv'
<1> USE DEF SyncedInv, CP!Reached, CP!Editing, CP!Edits
<1>1. cli \in [Clis -> CP!Command] /\ cli[p] \in CP!Command /\ CP!ConfigTypeOK
  BY DEF SystemInv, CP!ConfigTypeOK
<1>2. \A T : Covers(T)' <=> Covers(T)
  BY DEF Covers
<1>3. SyncedUp'
  BY DEF SyncedUp
<1>4. ~CP!Reached(p, "idle")
  BY DEF CP!CliStep, CP!Load, CP!CertStep, CP!CheckCert, CP!WritePem, CP!Record, CP!Save, CP!Truncate,
     CP!WriteText, CP!TellStep, CP!FindDaemon, CP!NoDaemon, CP!Hangup, CP!Stop, CP!Unlink, CP!Spawn, CP!Track
<1>5. \A q \in Clis \ {p} : cli[q].pc = "idle"
  BY <1>4, OnlyCommand
<1>6. ASSUME \A q \in Clis \ {p} : cli'[q] = cli[q],
             cli'[p].pc = "load" => Covers(CP!Apply(cli'[p].req, file'.routes)),
             CP!Editing(p)' => Covers(cli'[p].cfg),
             cli'[p].pc # "load" /\ ~CP!Editing(p)' => Covers(file'.routes)
      PROVE  FileCovers'
  BY <1>2, <1>5, <1>6 DEF FileCovers
<1>7. ASSUME Unsignaled(p)' PROVE DaemonCovers'
  BY <1>7 DEF DaemonCovers
<1>8. CASE CP!Load(p)
  <2>1. CP!Readable /\ cli[p].req \in Requested
    BY <1>5, <1>8 DEF CP!Load, CP!Alone, CP!Writing
  <2>2. /\ Covers(CP!Apply(cli[p].req, file.routes))
        /\ UNCHANGED <<file, boots, daemon, dpid, hup, reload, untold, table>>
    BY <1>8 DEF CP!Load, FileCovers, CP!daemonVars
  <2> DEFINE new == CP!Apply(cli[p].req, file.routes)
             r == [cli[p] EXCEPT !.base = file.routes, !.cfg = new,
                     !.pc = IF cli[p].req.op = "sync" THEN "cert" ELSE "save"]
  <2>3. CASE /\ cli[p].req.new = {} /\ new = file.routes
             /\ CP!Become(p, CP!Idle)
    <3>1. cli'[p].pc = "idle" /\ \A q \in Clis \ {p} : cli'[q] = cli[q]
      BY <1>1, <2>3 DEF CP!Idle, CP!Become
    <3>2. FileCovers'
      BY <1>6, <2>2, <2>3, <3>1
    <3>3. cli[p].req.op # "sync"
      BY <2>1, <2>3, RequestedType
    <3>4. \A q \in Clis : ~Unsignaled(q) /\ ~Unsignaled(q)'
      BY <1>5, <1>8, <3>1, <3>3 DEF Unsignaled, CP!Load
    <3>5. DaemonCovers'
      BY <1>2, <2>2, <3>4 DEF DaemonCovers, Routed, StartPending
    <3> QED
      BY <1>3, <3>2, <3>5
  <2>4. CASE CP!Become(p, r)
    <3>1. /\ r.pc = (IF cli[p].req.op = "sync" THEN "cert" ELSE "save") /\ r.cfg = new
          /\ r.req = cli[p].req
      BY <1>1 DEF CP!Command
    <3> HIDE DEF new, r
    <3>2. cli'[p] = r /\ \A q \in Clis \ {p} : cli'[q] = cli[q]
      BY <1>1, <2>4 DEF CP!Become
    <3>3. CP!Editing(p)' /\ cli'[p].pc # "load"
      BY <3>1, <3>2
    <3>4. FileCovers'
      BY <1>6, <2>2, <3>1, <3>2, <3>3 DEF new
    <3>5. Unsignaled(p)'
      BY <3>1, <3>2 DEF Unsignaled
    <3> QED
      BY <1>3, <1>7, <3>4, <3>5
  <2> QED
    BY <1>8, <2>1, <2>3, <2>4 DEF CP!Load, CP!Finish
<1>9. CASE CP!CertStep(p)
  <2>1. FileCovers'
    <3>1. CASE cli[p].req.op = "sync"
      BY <1>1, <1>6, <1>9, <3>1, CertGoesOn DEF FileCovers
    <3>2. CASE cli[p].req.op # "sync"
      <4>1. Covers(file.routes)
        BY <1>1, <1>5, <1>9, <3>2, CertGoesOn DEF FileCovers
      <4> QED
        BY <1>1, <1>6, <1>9, <3>2, <4>1, CertGoesOn
    <3> QED
      BY <3>1, <3>2
  <2>2. Unsignaled(p)'
    BY <1>1, <1>9, CertGoesOn DEF Unsignaled
  <2> QED
    BY <1>3, <1>7, <2>1, <2>2
<1>10. CASE CP!Truncate(p)
  <2>1. /\ cli'[p].pc = "write" /\ cli'[p].cfg = cli[p].cfg /\ cli[p].pc = "save"
        /\ \A q \in Clis \ {p} : cli'[q] = cli[q]
    BY <1>1, <1>10 DEF CP!Truncate, CP!Goto, CP!Become, CP!Command
  <2>2. FileCovers'
    BY <1>6, <2>1 DEF FileCovers
  <2>3. Unsignaled(p)'
    BY <2>1 DEF Unsignaled
  <2> QED
    BY <1>3, <1>7, <2>2, <2>3
<1>11. CASE CP!WriteText(p)
  <2>1. cli[p].pc = "write" /\ CP!Become(p, CP!AfterWrite(cli[p]))
    BY <1>11 DEF CP!WriteText
  <2>2. /\ CP!AfterWrite(cli[p]).pc \in {"signal", "hup", "cert"}
        /\ CP!AfterWrite(cli[p]).pc = "cert" => CP!AfterWrite(cli[p]).req.op = "unsync"
    BY DEF CP!AfterWrite, CP!Telling, CP!Idle, CP!NoRequest
  <2>3. /\ cli'[p].pc \in {"signal", "hup", "cert"}
        /\ cli'[p].pc = "cert" => cli'[p].req.op = "unsync"
        /\ \A q \in Clis \ {p} : cli'[q] = cli[q]
    BY <1>1, <2>1, <2>2 DEF CP!Become
  <2>4. file = CP!Truncated
    BY <2>1 DEF CP!Alone, CP!Writing
  <2>5. file'.routes = cli[p].cfg
    BY <1>11, <2>4 DEF CP!WriteText, CP!Whole
  <2>6. Covers(cli[p].cfg)
    BY <2>1 DEF FileCovers
  <2>7. FileCovers'
    BY <1>6, <2>3, <2>5, <2>6
  <2>8. Unsignaled(p)'
    BY <2>3 DEF Unsignaled
  <2> QED
    BY <1>3, <1>7, <2>7, <2>8
<1>12. CASE CP!TellStep(p)
  <2>1. /\ DaemonCovers' /\ file' = file
        /\ cli[p].pc \in {"signal", "hup", "stop", "unlink", "spawn", "track"}
        /\ cli'[p].pc \in {"idle", "signal", "hup", "stop", "unlink", "spawn", "track"}
        /\ \A q \in Clis \ {p} : cli'[q] = cli[q]
    BY <1>12, TellSynced
  <2>2. Covers(file.routes)
    BY <1>5, <2>1 DEF FileCovers
  <2>3. FileCovers'
    BY <1>6, <2>1, <2>2
  <2> QED
    BY <1>3, <2>1, <2>3
<1> QED
  BY <1>8, <1>9, <1>10, <1>11, <1>12 DEF CP!CliStep, CP!Save

(* A process reads the file when it is whole, or while a command is about   *)
(* to tell of the change.                                                   *)
LEMMA DaemonSynced ==
  ASSUME SystemInv, SyncedInv, CP!DaemonStep, CP!Alone',
         UNCHANGED <<state, ips, synced>>,
         UNCHANGED <<tasks, pipe>> \/ daemon' = "off"
  PROVE  SyncedInv'
<1> USE DEF SyncedInv
<1>1. UNCHANGED <<file, cli>>
  BY DEF CP!DaemonStep, CP!BootStep, CP!ReadFiles, CP!Bind, CP!HandlerReady, CP!ReloadRead, CP!ReloadWrite
<1>2. \A T : Covers(T)' <=> Covers(T)
  BY DEF Covers
<1>3. SyncedUp' /\ FileCovers'
  BY <1>1 DEF SyncedUp, FileCovers, Covers, CP!Reached, CP!Editing, CP!Edits
<1>4. \A p \in Clis : Unsignaled(p)' <=> Unsignaled(p)
  BY <1>1 DEF Unsignaled, CP!Reached
<1>5. CP!ConfigTypeOK /\ synced \subseteq Containers
  BY DEF SystemInv
<1>6. DaemonCovers'
  <2> SUFFICES ASSUME \A p \in Clis : ~Unsignaled(p)
               PROVE  /\ \A i \in Pids : boots'[i].at = "read" /\ i \notin untold' => Covers(boots'[i].routes)
                      /\ daemon' # "off" /\ dpid' \notin untold' /\ ~hup' =>
                           /\ \A T \in reload' : Covers(T)
                           /\ reload' = {} => \A c \in synced : StartPending(c)' \/ Routed(c)'
    BY <1>2, <1>4 DEF DaemonCovers
  <2>1. Covers(file.routes) /\ CP!Readable
    BY FileNow
  <2>2. \A c \in Containers : StartPending(c) /\ daemon' # "off" => StartPending(c)'
    BY DEF StartPending
  <2>3. /\ \A i \in Pids : boots[i].at = "read" /\ i \notin untold => Covers(boots[i].routes)
        /\ daemon # "off" /\ dpid \notin untold /\ ~hup =>
             /\ \A T \in reload : Covers(T)
             /\ reload = {} => \A c \in synced : StartPending(c) \/ Routed(c)
    BY DEF DaemonCovers
  <2>4. ASSUME NEW i \in Pids, CP!ReadFiles(i)
        PROVE  /\ \A j \in Pids : boots'[j].at = "read" /\ j \notin untold' => Covers(boots'[j].routes)
               /\ UNCHANGED <<daemon, dpid, hup, reload, table, untold>>
    <3>1. PICK b \in {CP!Absent, [at |-> "read", routes |-> file.routes, sans |-> sans]} :
            boots' = [boots EXCEPT ![i] = b]
      BY <2>4 DEF CP!ReadFiles
    <3>2. b.at = "read" => b.routes = file.routes
      BY DEF CP!Absent
    <3>3. \A j \in Pids : boots'[j] = IF j = i THEN b ELSE boots[j]
      BY <1>5, <3>1 DEF CP!ConfigTypeOK
    <3> QED
      BY <2>1, <2>3, <2>4, <3>2, <3>3 DEF CP!ReadFiles
  <2>5. ASSUME NEW i \in Pids, CP!Bind(i)
        PROVE  /\ \A j \in Pids : boots'[j].at = "read" /\ j \notin untold' => Covers(boots'[j].routes)
               /\ daemon' # "off" /\ dpid' \notin untold' /\ ~hup' =>
                    /\ \A T \in reload' : Covers(T)
                    /\ reload' = {} => \A c \in synced : StartPending(c)' \/ Routed(c)'
    <3>1. boots[i].at = "read" /\ UNCHANGED <<hup, reload>>
      BY <2>5 DEF CP!Bind
    <3>2. \A j \in Pids : boots'[j].at = "read" => j # i /\ boots'[j] = boots[j]
      BY <1>5, <2>5 DEF CP!Bind, CP!Absent, CP!ConfigTypeOK
    <3>3. CASE dpid = NoPid
      <4>1. dpid' = i /\ table' = boots[i].routes /\ untold' = untold
        BY <2>5, <3>3 DEF CP!Bind
      <4>2. reload = {}
        BY <1>5, <3>3 DEF CP!ConfigTypeOK
      <4>3. i \notin untold => \A c \in synced : Routed(c)'
        BY <2>3, <3>1, <4>1 DEF Covers, Routed, Own
      <4> QED
        BY <2>3, <3>1, <3>2, <4>1, <4>2, <4>3
    <3>4. CASE dpid # NoPid
      <4>1. untold' = untold \ {i} /\ UNCHANGED <<daemon, dpid, table>>
        BY <2>5, <3>4 DEF CP!Bind
      <4>2. dpid # i
        BY <1>5, <3>1 DEF CP!ConfigTypeOK
      <4> QED
        BY <1>5, <2>2, <2>3, <3>1, <3>2, <4>1, <4>2 DEF Routed, Own
    <3> QED
      BY <3>3, <3>4
  <2>6. CASE \E i \in Pids : CP!BootStep(i)
    BY <1>5, <2>2, <2>3, <2>4, <2>5, <2>6 DEF CP!BootStep, Routed, Own
  <2>7. CASE CP!HandlerReady
    <3>1. daemon = "loaded" /\ UNCHANGED <<boots, dpid, untold, hup, reload, table>>
      BY <2>7 DEF CP!HandlerReady
    <3> QED
      BY <1>5, <2>2, <2>3, <3>1 DEF Routed, Own
  <2>8. CASE CP!ReloadRead
    <3>1. reload' = {file.routes} /\ UNCHANGED <<boots, untold>>
      BY <2>1, <2>8 DEF CP!ReloadRead
    <3> QED
      BY <2>1, <2>3, <3>1
  <2>9. CASE CP!ReloadWrite
    <3>1. /\ reload' = {} /\ UNCHANGED <<boots, daemon, dpid, hup, untold>>
          /\ \E T \in reload : table' = T
      BY <2>9 DEF CP!ReloadWrite
    <3>2. PICK T \in reload : table' = T
      BY <3>1
    <3>3. Covers(T) => \A c \in synced : Routed(c)'
      BY <3>2 DEF Covers, Routed, Own
    <3> QED
      BY <2>3, <3>1, <3>2, <3>3
  <2> QED
    BY <2>6, <2>7, <2>8, <2>9 DEF CP!DaemonStep
<1> QED
  BY <1>3, <1>6

LEMMA SystemNextSynced ==
  ASSUME Orderly
  PROVE  SystemInv /\ LinesInv /\ SyncedInv /\ [SystemNext]_systemVars => LinesInv' /\ SyncedInv'
<1> SUFFICES ASSUME SystemInv, LinesInv, SyncedInv, [SystemNext]_systemVars PROVE LinesInv' /\ SyncedInv'
  OBVIOUS
<1>1. CASE UNCHANGED systemVars
  <2> USE <1>1 DEF systemVars, vars, engineVars, watcherVars, fileVars, processVars
  <2>1. LinesInv'
    BY DEF LinesInv, PipeRead, StreamLines, Fresh, StopsOutlived, Outlived, Addressed, Up, StartPending
  <2>2. CP!Alone' /\ SyncedUp'
    BY DEF SyncedInv, CP!Alone, CP!Reached, CP!Editing, CP!Edits, CP!Writing, CP!Readable, SyncedUp
  <2>3. FileCovers'
    BY DEF SyncedInv, FileCovers, Covers, CP!Reached, CP!Editing, CP!Edits
  <2>4. DaemonCovers'
    BY DEF SyncedInv, DaemonCovers, Unsignaled, CP!Reached, CP!Editing, CP!Edits, Covers, StartPending, Routed
  <2> QED
    BY <2>1, <2>2, <2>3, <2>4 DEF SyncedInv
<1>2. ASSUME NEW p \in Clis, NEW project \in Projects, Sync(p, project) \/ Unsync(p, project)
      PROVE  LinesInv' /\ SyncedInv'
  BY <1>2, BeginSynced, SyncSteps, UnsyncSteps, ConfigLinesInv
<1>3. CASE Proceed
  <2>1. ConfigStep /\ synced' = synced
    BY <1>3, ProceedSteps
  <2>2. CP!Alone'
    BY <2>1, AloneNext DEF ConfigStep, SystemInv, SyncedInv
  <2>3. UNCHANGED <<state, ips, synced>> /\ (UNCHANGED <<tasks, pipe>> \/ daemon' = "off")
    BY <2>1 DEF ConfigStep, EndsWatcher, loopVars
  <2>4. CASE \E p \in Clis : Config!CliStep(p)
    BY <2>1, <2>2, <2>3, <2>4, SameCliStep, CliSynced, ConfigLinesInv
  <2>5. CASE Config!DaemonStep
    BY <2>1, <2>2, <2>3, <2>5, SameDaemonStep, DaemonSynced, ConfigLinesInv
  <2> QED
    BY <1>3, <2>4, <2>5 DEF Proceed
<1>4. CASE Interrupted
  <2>1. ConfigStep /\ synced' = {}
    BY <1>4, InterruptedSteps
  <2>2. CP!Alone'
    BY <2>1, AloneNext DEF ConfigStep, SystemInv, SyncedInv
  <2>3. SyncedUp' /\ FileCovers' /\ DaemonCovers'
    BY <2>1 DEF SyncedUp, FileCovers, DaemonCovers, Covers
  <2> QED
    BY <2>1, <2>2, <2>3, ConfigLinesInv DEF SyncedInv
<1>5. ASSUME NEW c \in Containers, ChangeStep(c), Changes(c) PROVE LinesInv' /\ SyncedInv'
  BY <1>5, ChangeLinesInv, ChangeSynced
<1>6. ASSUME WatcherStep, OutsideConfig PROVE LinesInv' /\ SyncedInv'
  BY <1>6, WatcherLinesInv, WatcherSynced
<1> QED
  BY <1>1, <1>2, <1>3, <1>4, <1>5, <1>6, SystemSteps

(* What `dip start` is for (routes.rs, run_sync; server.rs, the SIGHUP task; *)
(* watcher.rs): a container that has not changed since a sync read it is    *)
(* routed to where it is whenever daemon and watcher have caught up, across *)
(* reloads, restarts of the daemon, and starts and stops still to be served. *)
THEOREM SyncedStayRouted ==
  ASSUME Orderly
  PROVE  SystemSpec => []SyncedRouted
<1>1. SystemInv /\ SyncedInv => SyncedRouted
  <2> SUFFICES ASSUME SystemInv, SyncedInv, Settled, NEW c \in synced PROVE Routed(c)
    BY DEF SyncedRouted
  <2>1. \A p \in Clis : ~Unsignaled(p)
    BY DEF Settled, Unsignaled, CP!Reached, CP!Editing, CP!Edits
  <2>2. StartPending(c) \/ Routed(c)
    BY <2>1 DEF Settled, SyncedInv, DaemonCovers
  <2>3. ~StartPending(c)
    BY DEF Settled, Quiet, StartPending
  <2> QED
    BY <2>2, <2>3
<1> QED
  BY <1>1, SystemInvariant, SystemInitInv, SystemInitLines, SystemInitSynced, SystemNextSynced, PTL
     DEF SystemSpec
-----------------------------------------------------------------------------
(* The registry.                                                            *)
OneAtATime == Serial /\ "write" \notin Breakable

(* The refinement mapping of RouteConfigProofs is the one meant here.       *)
LEMMA SameRegistry ==
  /\ CP!Registry!Init => Config!Registry!Init
  /\ CP!Registry!Next => Config!Registry!Next
  /\ CP!Durable = Config!Durable /\ CP!Asked = Config!Asked
  /\ CP!Durable' = Config!Durable' /\ CP!Asked' = Config!Asked'
<1>1. CP!Durable = Config!Durable /\ CP!Asked = Config!Asked
  BY DEF CP!Durable, Config!Durable, CP!Asked, Config!Asked, CP!Reached, Config!Reached,
         CP!Pending, Config!Pending, CP!NoRequest, Config!NoRequest
<1>2. CP!Durable' = Config!Durable' /\ CP!Asked' = Config!Asked'
  BY DEF CP!Durable, Config!Durable, CP!Asked, Config!Asked, CP!Reached, Config!Reached,
         CP!Pending, Config!Pending, CP!NoRequest, Config!NoRequest
<1>3. \A req, T : CP!Registry!Apply(req, T) = Config!Registry!Apply(req, T)
  BY DEF CP!Registry!Apply, CP!Registry!Upsert, CP!Registry!Without,
         Config!Registry!Apply, Config!Registry!Upsert, Config!Registry!Without
<1>4. CP!NoRequest = Config!NoRequest
  BY DEF CP!NoRequest, Config!NoRequest
<1>5. CP!Registry!Init => Config!Registry!Init
  BY <1>1, <1>4 DEF CP!Registry!Init, Config!Registry!Init
<1>6. ASSUME NEW p \in Clis
      PROVE  /\ \A req : CP!Registry!Ask(p, req) => Config!Registry!Ask(p, req)
             /\ CP!Registry!Execute(p) => Config!Registry!Execute(p)
             /\ CP!Registry!GiveUp(p) => Config!Registry!GiveUp(p)
  BY <1>1, <1>2, <1>3, <1>4
     DEF CP!Registry!Ask, Config!Registry!Ask, CP!Registry!Execute, Config!Registry!Execute,
         CP!Registry!GiveUp, Config!Registry!GiveUp
<1>7. CP!Registry!Next => Config!Registry!Next
  BY <1>6 DEF CP!Registry!Next, Config!Registry!Next
<1> QED
  BY <1>1, <1>2, <1>5, <1>7

(* A step that leaves file and commands alone leaves the registry alone.    *)
LEMMA RegistryUntouched ==
  ASSUME UNCHANGED <<file, cli>>
  PROVE  UNCHANGED <<Config!Durable, Config!Asked>>
BY DEF Config!Durable, Config!Asked, Config!Reached

(* Every step of the system is one of the registry, or leaves it alone.     *)
LEMMA SystemNextRegistry ==
  ASSUME OneAtATime
  PROVE  SystemInv /\ CP!Alone /\ [SystemNext]_systemVars
           => CP!Alone' /\ [Config!Registry!Next]_<<Config!Durable, Config!Asked>>
<1> SUFFICES ASSUME SystemInv, CP!Alone, [SystemNext]_systemVars
             PROVE  CP!Alone' /\ [Config!Registry!Next]_<<Config!Durable, Config!Asked>>
  OBVIOUS
<1>1. ASSUME ConfigStep PROVE CP!Alone' /\ [Config!Registry!Next]_<<Config!Durable, Config!Asked>>
  <2>1. CP!ConfigTypeOK /\ CP!ConfigNext
    BY <1>1 DEF ConfigStep, SystemInv
  <2>2. CP!Alone'
    BY <2>1, CP!NextAlone, SansAreDomains, StepsAreSteps, RequestedType, PidsAreFresh DEF OneAtATime
  <2>3. CP!Registry!Next \/ UNCHANGED <<CP!Durable, CP!Asked>>
    BY <2>1, <2>2, CP!NextRegistry, SansAreDomains, StepsAreSteps, RequestedType, PidsAreFresh DEF OneAtATime
  <2> QED
    BY <2>2, <2>3, SameRegistry
<1>2. ASSUME UNCHANGED <<file, cli>> PROVE CP!Alone' /\ [Config!Registry!Next]_<<Config!Durable, Config!Asked>>
  <2>1. CP!Alone'
    BY <1>2 DEF CP!Alone, CP!Reached, CP!Editing, CP!Edits, CP!Writing, CP!Readable
  <2> QED
    BY <1>2, <2>1, RegistryUntouched
<1>3. CASE UNCHANGED systemVars
  BY <1>2, <1>3 DEF systemVars, fileVars
<1>4. ASSUME NEW c \in Containers, ChangeStep(c) PROVE UNCHANGED <<file, cli>>
  BY <1>4 DEF ChangeStep, OutsideConfig, fileVars
<1>5. ASSUME OutsideConfig PROVE UNCHANGED <<file, cli>>
  BY <1>5 DEF OutsideConfig, fileVars
<1> QED
  BY <1>1, <1>2, <1>3, <1>4, <1>5, SystemSteps, SyncSteps, UnsyncSteps, ProceedSteps, InterruptedSteps

(* The commands as they are in the system, asked for what discovery found   *)
(* at the engine and next to a daemon and its watcher that read the file    *)
(* and are told of changes, still implement the registry: routes.rs and     *)
(* config.rs never take more or less from it than a command was asked.      *)
THEOREM SystemRegistryKept ==
  ASSUME OneAtATime
  PROVE  SystemSpec => CommandsKeepRegistry
<1>1. SystemInit => CP!Alone /\ Config!Registry!Init
  <2> SUFFICES ASSUME SystemInit PROVE CP!Alone /\ Config!Registry!Init
    OBVIOUS
  <2>1. CP!ConfigInit
    BY SameInit DEF SystemInit
  <2>2. CP!Alone
    BY <2>1, CP!InitAlone, SansAreDomains, StepsAreSteps, RequestedType, PidsAreFresh
  <2>3. CP!Registry!Init
    BY <2>1 DEF CP!ConfigInit, CP!Registry!Init, CP!Durable, CP!Asked, CP!Pending, CP!Reached,
       CP!Idle, CP!Whole
  <2> QED
    BY <2>2, <2>3, SameRegistry
<1> QED
  BY <1>1, SystemInitInv, SystemNextInv, SystemNextRegistry, PTL
     DEF SystemSpec, CommandsKeepRegistry, Config!KeepsRegistry, Config!Registry!Spec
=============================================================================
