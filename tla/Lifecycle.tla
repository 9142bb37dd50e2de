------------------------------ MODULE Lifecycle ------------------------------
(***************************************************************************)
(* The commands that work on a project (src/commands/start.rs, stop.rs,    *)
(* restart.rs, remove.rs, reset.rs, cleanup.rs, build.rs, pull.rs,         *)
(* use_runtime.rs, db.rs), one after the other: each loads the project     *)
(* (src/project.rs), picks the runtime, and carries out its steps: hooks   *)
(* (src/hooks.rs), compose_run, and the routes of the proxy that follow.   *)
(* A command ends at the first step whose error it does not ignore.        *)
(***************************************************************************)
EXTENDS DbAccess

CONSTANTS
    SystemEnv,     \* the variables dip itself was started with
    DotEnvs,       \* the texts a .env or a default.env may have
    DefaultEnv,    \* the text of default.env, None if there is no such file
    Hooks,         \* the hook scripts of the project
    HookExports,   \* what pre-start writes to its stdout as KEY=VALUE
    Commands,      \* the commands users may give
    UseChoices,    \* the arguments <<scope, runtime>> of `dip use`
    MaxCommands    \* how many of them in a behaviour

VARIABLES
    dotEnv,        \* the variables of .env, None until there is one
    settings,      \* the runtime settings, see Backends
    cmd,           \* the command in progress
    todo,          \* the steps it has left
    backend,       \* the runtime it works with
    routes,        \* routes[d]: the upstream the proxy's configuration has for d
    torn,          \* was a save of that configuration cut off?  It cannot be read then
    missed,        \* could the routes not be adapted in this command?
    started,       \* the containers its calls have run so far, in order
    result,        \* how the last command ended
    given          \* commands given so far

commandVars == <<cmd, todo, backend, started, missed, projEnv>>
vars == <<backendVars, child, compose, dbVars, dotEnv, settings, commandVars, routes, torn, result, given>>

NoCommand == [name |-> "none", svc |-> All, arg |-> ""]
Cmd(name, svc, arg) == [name |-> name, svc |-> svc, arg |-> arg]
NoResult == [cmd |-> NoCommand, status |-> "none", backend |-> "docker", missed |-> FALSE]

------------------------------------------------------------------------------
(* The steps of each command                                               *)

Hook(name) == [op |-> "hook", verb |-> name, svc |-> All]
Compose(verb, svc) == [op |-> "compose", verb |-> verb, svc |-> svc]
Do(op) == [op |-> op, verb |-> "", svc |-> All]

StartSteps(svc) ==
    IF svc = All THEN <<Hook("pre-start"), Compose("up", All), Do("sync"), Hook("post-start")>>
    ELSE <<Compose("up", svc), Do("sync")>>
StopSteps(svc) ==
    IF svc = All THEN <<Hook("pre-stop"), Compose("stop", All), Do("unsync"), Hook("post-stop")>>
    ELSE <<Compose("stop", svc), Do("unsync")>>
RestartStepsUnsynced(svc) ==     (* Mutation: a restart leaves the routes as they are *)
    IF svc = All THEN <<Hook("pre-stop"), Compose("stop", All), Hook("post-stop"),
                        Hook("pre-start"), Compose("up", All), Hook("post-start")>>
    ELSE <<Compose("stop", svc), Compose("up", svc)>>

RestartSteps(svc) ==
    IF svc = All THEN <<Hook("pre-stop"), Compose("stop", All), Hook("post-stop")>> \o StartSteps(All)
    ELSE <<Compose("stop", svc), Compose("up", svc), Do("sync")>>
RemoveSteps(svc) ==
    <<Do("check"), Do("confirm"), IF svc = All THEN Compose("down", All) ELSE Compose("rm -s", svc)>>
ResetSteps == <<Compose("stop", All), Compose("rm", All), Compose("up", All)>>
CleanupSteps == <<Compose("rm -s", All), Do("prune")>>
Steps(c) ==
    CASE c.name = "start"   -> StartSteps(c.svc)
      [] c.name = "stop"    -> StopSteps(c.svc)
      [] c.name = "restart" -> RestartSteps(c.svc)
      [] c.name = "remove"  -> RemoveSteps(c.svc)
      [] c.name = "reset"   -> ResetSteps
      [] c.name = "cleanup" -> CleanupSteps
      [] c.name = "build"   -> <<Compose("build", c.svc)>>
      [] c.name = "pull"    -> <<Compose("pull", All)>>
      [] c.name = "dump"    -> <<Do("check"), Do("resolve"), Do("create"), Do("dump")>>
      [] c.name = "import"  -> <<Do("check"), Do("resolve"), Do("import")>>

Doing(op) == cmd # NoCommand /\ todo # <<>> /\ Head(todo).op = op
NextStep == todo' = Tail(todo)
Ended(status) ==
    /\ result' = [cmd |-> cmd, status |-> status, backend |-> backend, missed |-> missed]
    /\ cmd' = NoCommand /\ todo' = <<>> /\ call' = NoCall /\ child' = NoChild
    /\ dbTarget' = NoTarget
    /\ UNCHANGED <<projEnv, backend, started, missed>>
(* A step that ended well, or the end of the command by its error. *)
StepDone == NextStep /\ UNCHANGED <<cmd, backend, result, dbTarget, call, child>>
StepFailed == Ended("failed")

------------------------------------------------------------------------------
(* ProjectConfig::load: .env is made from default.env the first time; it   *)
(* must name the project.  The variables of .env go over those of the      *)
(* system.                                                                 *)
Over(env, more) == MergeInto(more, env)
LoadedEnv(file) == Over(SystemEnv, file)
EnvFile == IF dotEnv = None THEN DefaultEnv ELSE dotEnv
ASSUME EnvironmentsClosed ==
    /\ DefaultEnv \in {None} \cup {Some(file) : file \in DotEnvs}
    /\ \A file \in DotEnvs : LoadedEnv(file) \in Environments
    /\ \A env \in Environments : Over(env, HookExports) \in Environments
Loads == EnvFile # None /\ "PROJECT_NAME" \in DOMAIN EnvFile[1]

Give(c) ==
    /\ cmd = NoCommand /\ given < MaxCommands
    /\ given' = given + 1
    /\ dotEnv' = EnvFile
    /\ IF Loads
       THEN /\ cmd' = c /\ todo' = Steps(c)
            /\ projEnv' = LoadedEnv(EnvFile[1])
            /\ backend' = DetectForProject(settings, LoadedEnv(EnvFile[1]))
            /\ result' = NoResult
       ELSE /\ result' = [NoResult EXCEPT !.cmd = c, !.status = "failed"]
            /\ UNCHANGED <<cmd, todo, projEnv, backend>>
    /\ started' = <<>> /\ missed' = FALSE
    /\ UNCHANGED <<backendVars, child, compose, dbVars, settings, routes, torn>>
Use(scope, choice) ==
    /\ cmd = NoCommand /\ given < MaxCommands
    /\ given' = given + 1
    /\ settings' = SetRuntime(settings, scope, choice)
    /\ UNCHANGED <<backendVars, child, compose, dbVars, dotEnv, commandVars, routes, torn, result>>

(* A hook that is there runs, and its stdout is read to the end.  A        *)
(* pre-start that fails aborts the command, its variables are the          *)
(* project's from then on; the other hooks' errors are warnings.           *)
HookSpawn ==
    /\ Doing("hook") /\ Head(todo).verb \in Hooks /\ child = NoChild
    /\ \E script \in Scripts, fails \in BOOLEAN :
        /\ IF fails THEN Fault ELSE NoFault
        /\ child' = Spawned({"out"}, script, fails)
    /\ UNCHANGED <<worldVars, call, compose, dbVars, dotEnv, settings, commandVars, routes, torn, result, given>>
HookRuns ==
    /\ Doing("hook") /\ child # NoChild
    /\ Write({"out"}) \/ Exit \/ Read("out")
    /\ UNCHANGED <<backendVars, compose, dbVars, dotEnv, settings, commandVars, routes, torn, result, given>>
HookDone ==
    /\ Doing("hook") /\ child # NoChild /\ Waited
    /\ LET starts == Head(todo).verb = "pre-start"
       IN  IF starts /\ child.fails
           THEN StepFailed
           ELSE /\ NextStep /\ child' = NoChild
                /\ projEnv' = IF starts /\ child.captured > 0 THEN Over(projEnv, HookExports) ELSE projEnv
                /\ UNCHANGED <<cmd, backend, result, dbTarget, call, started, missed>>
    /\ UNCHANGED <<worldVars, faults, compose, dump, data, dotEnv, settings, routes, torn, given>>
HookAbsent ==
    /\ Doing("hook") /\ Head(todo).verb \notin Hooks
    /\ StepDone
    /\ UNCHANGED <<worldVars, faults, compose, dump, data, dotEnv, settings, routes, torn, given, projEnv, started, missed>>

(* compose_run, in the runtime the command picked when it began. *)
ComposeCall ==
    /\ Doing("compose") /\ call.state = "idle"
    /\ call' = Call(backend, Head(todo).verb, Head(todo).svc)
    /\ UNCHANGED <<worldVars, faults, child, compose, dbVars, dotEnv, settings, commandVars, routes, torn, result, given>>
ComposeRuns ==
    /\ Doing("compose")
    /\ \/ DockerNext /\ UNCHANGED started
       \/ /\ AppleNext /\ UNCHANGED child
          /\ started' = IF Due({"up"}) /\ call'.queue = Tail(call.queue) /\ call'.state = "busy"
                        THEN Append(started, Service) ELSE started
    /\ UNCHANGED <<compose, dbVars, dotEnv, settings, cmd, todo, backend, missed, projEnv, routes, torn, result, given>>
ComposeReturns ==
    /\ Doing("compose") /\ call.state \in {"ok", "failed"}
    /\ IF call.state = "failed" THEN StepFailed
       ELSE /\ NextStep /\ call' = NoCall
            /\ UNCHANGED <<cmd, backend, result, dbTarget, child, projEnv, started, missed>>
    /\ UNCHANGED <<worldVars, faults, compose, dump, data, dotEnv, settings, routes, torn, given>>

------------------------------------------------------------------------------
(* The routes.  A runtime is picked anew, from the project's environment   *)
(* with what the hook exported; a listing that fails counts as empty, and  *)
(* where nothing is found the routes stay as they are.  A container        *)
(* without an address is left out.                                         *)

(* project_containers: on Docker the ids of `compose ps -q`, with -a the    *)
(* stopped ones too, and their inspection; on Apple the rows of `container *)
(* list --all`.  A container that is not running has no address.           *)
DockerProjectContainers(all) ==
    LET cs == containers.docker
        ids == IF all THEN DOMAIN cs ELSE Running(cs)
    IN  {[labels |-> cs[id].args.labels, ip |-> cs[id].ip] : id \in ids}
AppleProjectContainers(all) ==
    LET cs == containers.apple
    IN  {[labels |-> cs[n].args.labels, ip |-> cs[n].ip] :
            n \in {m \in DOMAIN cs : all \/ cs[m].state = "running"}}
Listed(all) ==
    IF DetectForProject(settings, projEnv) = "docker" THEN DockerProjectContainers(all)
    ELSE AppleProjectContainers(all)
Reachable(listed) == {c \in listed : c.ip # NoAddress}
Discovered ==
    UNION {{[domain |-> e.domain, upstream |-> <<c.ip, e.port>>] : e \in HostEntries(c.labels)} : c \in Reachable(Listed(FALSE))}
ProjectDomains == UNION {{e.domain : e \in HostEntries(c.labels)} : c \in Listed(TRUE)}
RoutesOf(found) == [d \in {r.domain : r \in found} |-> (CHOOSE r \in found : r.domain = d).upstream]

(* apply_sync and apply_unsync ignore every error: of the listing, of      *)
(* config::load, of config::save.  The configuration is loaded only if     *)
(* there is something to adapt.  A save that is cut off, by an error or by *)
(* the end of the command, leaves what cannot be read.                     *)
Saves ==
    /\ ~torn
    /\ \/ Doing("sync") /\ Discovered # {}
       \/ Doing("unsync") /\ Drop(routes, ProjectDomains) # routes
CutOff == Saves /\ torn' = TRUE /\ routes' = <<>>
Adapt(found, table) ==
    \/ NoFault /\ (torn => found = {}) /\ routes' = table /\ UNCHANGED <<torn, missed>>
    \/ NoFault /\ torn /\ found # {} /\ UNCHANGED <<routes, torn>> /\ missed' = TRUE
    \/ Fault /\ (CutOff \/ UNCHANGED <<routes, torn>>) /\ missed' = TRUE

Sync ==
    /\ Doing("sync")
    /\ Adapt(Discovered, Over(routes, RoutesOf(Discovered)))
    /\ StepDone
    /\ UNCHANGED <<worldVars, compose, dump, data, dotEnv, settings, given, projEnv, started>>
Unsync ==
    /\ Doing("unsync")
    /\ Adapt(ProjectDomains, Drop(routes, ProjectDomains))
    /\ StepDone
    /\ UNCHANGED <<worldVars, compose, dump, data, dotEnv, settings, given, projEnv, started>>

(* check_daemon asks the runtime; confirm asks the user, whose "no" is no  *)
(* error.                                                                  *)
CheckDaemon ==
    /\ Doing("check")
    /\ \/ NoFault /\ StepDone /\ UNCHANGED <<projEnv, started, missed>>
       \/ Fault /\ StepFailed
    /\ UNCHANGED <<worldVars, compose, dump, data, dotEnv, settings, routes, torn, given>>
Confirm ==
    /\ Doing("confirm")
    /\ \/ StepDone /\ UNCHANGED <<projEnv, started, missed>>
       \/ Ended("aborted")
    /\ UNCHANGED <<worldVars, faults, compose, dump, data, dotEnv, settings, routes, torn, given>>

(* `image prune` takes only images without a name. *)
Prune ==
    /\ Doing("prune")
    /\ \/ NoFault /\ StepDone /\ UNCHANGED <<projEnv, started, missed>>
       \/ Fault /\ StepFailed
    /\ UNCHANGED <<worldVars, compose, dump, data, dotEnv, settings, routes, torn, given>>

(* The database commands; the containers are listed, which may fail. *)
ResolveService ==
    /\ Doing("resolve")
    /\ \/ \E t \in Resolved(backend, cmd.svc) :
            dbTarget' = t /\ NextStep /\ NoFault
            /\ UNCHANGED <<cmd, backend, result, call, child, projEnv, started, missed>>
       \/ Resolved(backend, cmd.svc) = {} /\ NoFault /\ StepFailed
       \/ Fault /\ StepFailed
    /\ UNCHANGED <<worldVars, compose, dump, data, dotEnv, settings, routes, torn, given>>
CreateDump ==
    /\ Doing("create")
    /\ \/ CreateOutput("ok") /\ StepDone /\ UNCHANGED <<projEnv, started, missed>>
       \/ CreateOutput("failed") /\ StepFailed
    /\ UNCHANGED <<worldVars, compose, data, dotEnv, settings, routes, torn, given>>
RunClient ==
    /\ Doing("dump") \/ Doing("import")
    /\ \E status \in {"ok", "failed"} :
        /\ \/ Doing("dump") /\ ExecDump(cmd.arg = "gz", status) /\ UNCHANGED data
           \/ Doing("import") /\ ExecImport(cmd.arg = "gz", status) /\ UNCHANGED dump
        /\ IF status = "failed" THEN StepFailed
           ELSE StepDone /\ UNCHANGED <<projEnv, started, missed>>
    /\ UNCHANGED <<worldVars, compose, dotEnv, settings, routes, torn, given>>

Finish ==
    /\ cmd # NoCommand /\ todo = <<>>
    /\ Ended("ok")
    /\ UNCHANGED <<worldVars, faults, compose, dump, data, dotEnv, settings, routes, torn, given>>

Step ==
    \/ HookSpawn \/ HookRuns \/ HookDone \/ HookAbsent \/ ComposeCall \/ ComposeRuns \/ ComposeReturns
    \/ Sync \/ Unsync \/ CheckDaemon \/ Confirm \/ Prune \/ ResolveService \/ CreateDump \/ RunClient \/ Finish
(* Ctrl-C, or a crash, between two steps or in the middle of a save. *)
Interrupt ==
    /\ cmd # NoCommand /\ Fault /\ Ended("interrupted")
    /\ CutOff \/ UNCHANGED <<routes, torn>>
    /\ UNCHANGED <<worldVars, compose, dump, data, dotEnv, settings, given>>

Next ==
    \/ \E c \in Commands : Give(c)
    \/ \E choice \in UseChoices : Use(choice[1], choice[2])
    \/ Step \/ Interrupt

(* The behaviour of a project whose containers are yet to be made; some of *)
(* the commands and faults it is bounded by may be spent.                  *)
Init ==
    /\ compose \in Files
    /\ dotEnv \in {None} \cup {Some(file) : file \in DotEnvs}
    /\ settings \in [{"process", "project", "global"} -> Apples \cup {"docker", "auto", ""}]
    /\ given \in 0 .. MaxCommands /\ faults \in 0 .. MaxFaults
    /\ containers = [b \in BackendNames |-> <<>>] /\ networks = {} /\ images = <<>>
    /\ call = NoCall /\ child = NoChild /\ projEnv = <<>>
    /\ dump = "old" /\ data = [s \in DOMAIN DbEnv |-> "old"] /\ dbTarget = NoTarget
    /\ cmd = NoCommand /\ todo = <<>> /\ backend = "docker" /\ routes = <<>> /\ torn = FALSE
    /\ missed = FALSE /\ started = <<>> /\ result = NoResult

(* A command goes on by itself until it has ended. *)
Spec == Init /\ [][Next]_vars /\ WF_vars(Step)

------------------------------------------------------------------------------
(* Properties                                                              *)

(* Once a start or a restart has ended well, each running container of the *)
(* project that asks for a domain is reached by it at the address it has   *)
(* now, and once a stop has, no container of the project is routed;        *)
(* whatever commands came before and however they failed.  Three cases are *)
(* left out, in which the command ends well all the same: a container that *)
(* had no address when the command looked; containers that could not be    *)
(* listed, which the command takes for "none"; and a configuration that    *)
(* could not be read or written, as when an earlier save was cut off.      *)
Agree(name, b) ==
    \A n \in DOMAIN containers[b] :
        LET c == containers[b][n]
        IN  \A e \in HostEntries(c.args.labels) :
            /\ name \in {"start", "restart"} /\ c.state = "running" /\ c.ip # NoAddress =>
                   e.domain \in DOMAIN routes /\ routes[e.domain] = <<c.ip, e.port>>
            /\ name = "stop" => e.domain \notin DOMAIN routes
RoutesAgree ==
    result.status = "ok" /\ ~result.missed => Agree(result.cmd.name, result.backend)

(* What that takes of a project: its hook does not move the command to     *)
(* another runtime halfway, and no domain is asked for twice.              *)
HookKeepsRuntime == "DIP_RUNTIME" \notin DOMAIN HookExports
Claims(file) ==
    UNION {LET services == Loaded[file, env].config.services
           IN  UNION {{[svc |-> svc, env |-> env, entry |-> e] : e \in HostEntries(services[svc].labels)} :
                          svc \in DOMAIN services} : env \in Environments}
DomainsDiffer(file) ==
    \A a, b \in Claims(file) :
        a.entry.domain = b.entry.domain => a.svc = b.svc /\ (a.env = b.env => a.entry = b.entry)

(* A dump that is reported as done has put the whole database in the file, *)
(* and one that fails leaves no part of one there, unless it failed before *)
(* it opened the file, or the file could not be removed ("kept"); a        *)
(* compressed one may be cut short, because its status is gzip's.          *)
DumpsWhole ==
    [][cmd.name = "dump" /\ cmd' = NoCommand =>
           /\ result'.status = "ok" /\ cmd.arg # "gz" => dump' = "full"
           /\ result'.status = "failed" =>
                  dump' # "partial" \/ (UNCHANGED dump /\ (Doing("check") \/ Doing("resolve") \/ Doing("create")))]_vars

(* Every command ends, however much its children write and whatever fails. *)
CommandEnds == cmd # NoCommand ~> cmd = NoCommand
=============================================================================
