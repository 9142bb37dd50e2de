---------------------------- MODULE DockerCompose ---------------------------
(***************************************************************************)
(* The Docker runtime's compose_run (src/runtime/docker.rs): one `docker   *)
(* compose` child, both of its streams read, its status the result.  What  *)
(* compose does to the containers is external, and taken from what dip     *)
(* relies on; it happens while the child runs.                             *)
(***************************************************************************)
EXTENDS AppleRuntime, ChildProcess

dockerContainers == containers["docker"]
Piped == {"out", "err"}

(* The services a call touches: `up` the named one and what it depends on. *)
Needed(services, svc) ==
    LET closed == {T \in SUBSET DOMAIN services :
                      svc \in T /\ \A s \in T : DOMAIN services \cap Range(services[s].dependsOn) \subseteq T}
    IN  {s \in DOMAIN services : \A T \in closed : s \in T}
Touched(services) ==
    CASE call.svc = All -> DOMAIN services
      [] call.svc \in DOMAIN services \ {All} /\ call.verb = "up" -> Needed(services, call.svc)
      [] OTHER -> {call.svc} \cap DOMAIN services
Labels(services) == [svc \in DOMAIN services |->
                        [service |-> svc, project |-> ProjectName, labels |-> services[svc].labels]]

(* The containers of svcs run, with the address they have, or started or   *)
(* made again with another one; no two run with the same, those in bare    *)
(* with none.                                                              *)
Started(svcs, bare, labels, cs) ==
    {[n \in DOMAIN cs \cup svcs |->
          IF n \in svcs THEN [state |-> "running", ip |-> IF n \in bare THEN NoAddress ELSE ips[n],
                              network |-> "", args |-> labels[n]] ELSE cs[n]] :
        ips \in {f \in [svcs \ bare -> Addresses \ InUse(Drop(cs, svcs))] : IsInjective(f)}}

(* What compose leaves behind when it carries out verb on svcs. *)
Carried(verb, svcs, bare, labels, cs) ==
    CASE verb = "up"   -> Started(svcs, bare, labels, cs)
      [] verb = "stop" -> {[n \in DOMAIN cs |-> IF n \in svcs THEN Stopped(cs[n]) ELSE cs[n]]}
      [] verb = "rm"   -> {Drop(cs, svcs \ Running(cs))}
      [] verb = "rm -s" -> {Drop(cs, svcs)}
      [] verb = "down" -> {<<>>}
      [] OTHER         -> {cs}

(* compose does not start anything for a service the file does not have. *)
Known == call.svc \in DOMAIN Config.services \cup {All}
DockerSpawn ==
    /\ Calling("docker", "todo")
    /\ \E script \in Scripts, fails \in BOOLEAN :
        /\ ~Known => fails
        /\ IF fails /\ Known THEN Fault ELSE NoFault
        /\ child' = Spawned(Piped, script, fails)
    /\ call' = [call EXCEPT !.state = "busy"]
    /\ UNCHANGED worldVars
(* All of it, or what was done before it failed.  A container that has no  *)
(* address counts as a fault.                                              *)
DockerWorks ==
    /\ Calling("docker", "busy") /\ child.alive
    /\ LET services == Config.services
           touched == Touched(services)
       IN  \E svcs \in IF child.fails THEN SUBSET touched ELSE {touched} :
             \E bare \in IF call.verb = "up" THEN SUBSET svcs ELSE {{}} :
                 /\ IF bare = {} THEN NoFault ELSE Fault
                 /\ \E after \in Carried(call.verb, svcs, bare, Labels(services), dockerContainers) :
                        containers' = [containers EXCEPT !["docker"] = after]
    /\ call' = [call EXCEPT !.state = "worked"]
    /\ UNCHANGED <<networks, images, child>>
DockerOutput ==
    /\ call.backend = "docker" /\ call.state \in {"busy", "worked"}
    /\ Write(Piped) \/ (call.state = "worked" /\ Exit) \/ \E s \in Streams : Read(s)
    /\ UNCHANGED backendVars
(* A child that was killed before it had done anything has done nothing. *)
DockerReturn ==
    /\ call.backend = "docker" /\ call.state \in {"busy", "worked"} /\ Waited
    /\ Returns(IF child.fails THEN "failed" ELSE "ok")
    /\ child' = NoChild
    /\ UNCHANGED <<worldVars, faults>>

DockerNext == DockerSpawn \/ DockerWorks \/ DockerOutput \/ DockerReturn
=============================================================================
