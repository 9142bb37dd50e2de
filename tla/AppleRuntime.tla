---------------------------- MODULE AppleRuntime ----------------------------
(***************************************************************************)
(* The Apple container runtime (src/runtime/apple.rs): a shim that carries *)
(* out the compose commands dip uses with calls of `container`, one        *)
(* service after the other.  The calls are external: each may fail.        *)
(***************************************************************************)
EXTENDS Backends

CONSTANTS
    Files,         \* compose files
    Environments,  \* the environments a project may have
    ProjectName,
    Loaded,        \* Loaded[file, env]: what is read of them, and the order to start the
                   \* services in; StartOrder says what that is
    SanitizeName   \* SanitizeName[n]: n in lower case, with dashes for what a name cannot hold

VARIABLES
    compose,       \* the compose file
    projEnv        \* the environment of the command's project

appleContainers == containers["apple"]
ContainerName(svc) == "dip-" \o SanitizeName[ProjectName] \o "-" \o SanitizeName[svc]
NetworkName == "dip-" \o SanitizeName[ProjectName]
ImageName(svc, service) == OrElse(service.image, <<ContainerName(svc), ":", "latest">>)

------------------------------------------------------------------------------
(* The services a call is about. *)
SelectedServices(services, svc) == IF svc = All THEN SetToSeq(DOMAIN services) ELSE <<svc>>

(* visit_service keeps to the services of the file. *)
ASSUME LoadedServices ==
    \A file \in Files, env \in Environments :
        LET services == Loaded[file, env].config.services
        IN  \A svc \in DOMAIN services \cup {All} : Loaded[file, env].order[svc] \in Seq(DOMAIN services)
Config == Loaded[compose, projEnv].config
Order == Loaded[compose, projEnv].order

------------------------------------------------------------------------------
(* The options of `container run`. *)

ValueToString(v) == IF v.k \in {"str", "num", "bool"} THEN Some(v.v) ELSE None
Strings(v) == FlattenSeq([i \in DOMAIN v.v |-> ValueToString(v.v[i])])
CommandArgs(v) ==
    CASE v.k = "str"  -> IF v.v = <<>> THEN <<>> ELSE <<<<"/bin/sh">>, <<"-lc">>, v.v>>
      [] v.k = "list" -> Strings(v)
      [] OTHER        -> <<>>
Joined(parts) == FoldLeft(LAMBDA a, p : IF a = <<>> THEN p ELSE a \o <<" ">> \o p, <<>>, parts)
EntrypointArg(v) ==
    CASE v.k = "str"  -> IF v.v = <<>> THEN None ELSE Some(v.v)
      [] v.k = "list" -> IF Strings(v) = <<>> THEN None ELSE Some(Joined(Strings(v)))
      [] OTHER        -> None
VolumeSpec(volume) ==
    IF volume.target = None THEN None
    ELSE Some((IF volume.source = None THEN <<>> ELSE volume.source[1] \o <<":">>)
              \o volume.target[1]
              \o (IF volume.readOnly /\ volume.source # None THEN <<":", "ro">> ELSE <<>>))
RunArgs(svc, service) ==
    [image |-> ImageName(svc, service), labels |-> service.labels, env |-> service.environment,
     envFiles |-> service.envFile, ports |-> service.ports,
     volumes |-> FlattenSeq([i \in DOMAIN service.volumes |-> VolumeSpec(service.volumes[i])]),
     workdir |-> service.workingDir, entrypoint |-> EntrypointArg(service.entrypoint),
     command |-> CommandArgs(service.command), service |-> svc, project |-> ProjectName]

------------------------------------------------------------------------------
(* Building: the Dockerfile, the target, the arguments, the context.  An   *)
(* absolute Dockerfile stays, a relative one is under the context.         *)
DockerfilePath(build) ==
    LET file == OrElse(build.dockerfile, <<"Dockerfile">>)
    IN  IF Absolute(file) THEN file ELSE build.context \o file
BuildArgs(service) ==
    LET build == service.build[1]
        given == {key \in DOMAIN build.args : ValueToString(build.args[key]) # None}
    IN  [file |-> DockerfilePath(build), target |-> build.target, context |-> build.context,
         args |-> [key \in given |-> ValueToString(build.args[key])[1]]]

(* The queue holds the services as they were read, once, when the call began. *)
Queue(services, names) == [i \in DOMAIN names |-> [name |-> names[i], service |-> services[names[i]]]]
Service == Head(call.queue).name
Described == Head(call.queue).service
Image == ImageName(Service, Described)
Proceed == call' = [call EXCEPT !.queue = Tail(@)]

(* build_service: the image is built, or the call fails; a build that      *)
(* Ctrl-C has ended (status 130) passes for one that succeeded.            *)
BuildService ==
    \/ NoFault /\ images' = Set(images, Image, BuildArgs(Described)) /\ Proceed
    \/ Fault /\ UNCHANGED images /\ (Returns("failed") \/ Proceed)

(* The container the next service is run in, with one of the addresses ips. *)
Container(network, ip) ==
    [state |-> "running", ip |-> ip, network |-> network, args |-> RunArgs(Service, Described)]
RunOn(cs, network, ips) ==
    \E ip \in ips :
        containers' = [containers EXCEPT !["apple"] = Put(cs, ContainerName(Service), Container(network, ip))]

(* run_service: an old container is deleted first.  If it cannot be, that  *)
(* is only logged, and the run fails because the name is taken.  A network *)
(* that `run` does not know after all is replaced by the default one, once. *)
(* The address is one that no running container has; to get none is a fault. *)
RunService(network) ==
    LET name == ContainerName(Service)
        others == Drop(appleContainers, {name})
        free == Addresses \ InUse(others)
    IN  \/ NoFault /\ RunOn(others, network, free) /\ Proceed
        \/ /\ Fault
           /\ \/ RunOn(others, network, {NoAddress}) /\ Proceed
              \/ network # "default" /\ RunOn(others, "default", free) /\ Proceed
              \/ containers' = [containers EXCEPT !["apple"] = others] /\ Returns("failed")
              \/ name \in DOMAIN appleContainers /\ UNCHANGED containers /\ Returns("failed")

------------------------------------------------------------------------------
(* The steps of a call                                                     *)

(* compose_run: what the shim does not know fails, `down` among it; so do  *)
(* a compose file that cannot be read and a service it does not have.      *)
AppleBegin ==
    /\ Calling("apple", "todo")
    /\ NoFault /\ UNCHANGED <<containers, images>>
    /\ LET config == Config
           known == config.ok /\ call.svc \in DOMAIN config.services \cup {All}
           names == IF call.verb = "up" THEN Order[call.svc]
                    ELSE SelectedServices(config.services, call.svc)
           begun(network) ==
               IF known THEN call' = [call EXCEPT !.state = "busy", !.network = network,
                                                  !.queue = Queue(config.services, names)]
                        ELSE Returns("failed")
       IN  IF call.verb # "up" \/ ~config.ok
           THEN UNCHANGED networks /\ (IF call.verb = "down" THEN Returns("failed") ELSE begun(""))
           (* ensure_network: ready, or created; polled until it is, else the default one *)
           ELSE \/ begun(NetworkName) /\ networks' = networks \cup {NetworkName}
                \/ /\ NetworkName \notin networks /\ begun("default")
                   /\ networks' \in {networks, networks \cup {NetworkName}}

Due(verbs) == Calling("apple", "busy") /\ call.verb \in verbs /\ call.queue # <<>>

(* up_services: an image that is missing is built before the service runs. *)
(* After a build that Ctrl-C has ended the service is run all the same,     *)
(* which fails for want of the image (no registry has one of its name).    *)
AppleBuildImage ==
    /\ Due({"up"}) /\ Described.build # None /\ Image \notin DOMAIN images
    /\ \/ NoFault /\ images' = Set(images, Image, BuildArgs(Described)) /\ UNCHANGED <<call, containers>>
       \/ /\ Fault /\ UNCHANGED images /\ Returns("failed")
          /\ \/ UNCHANGED containers
             \/ containers' = [containers EXCEPT !["apple"] = Drop(@, {ContainerName(Service)})]
    /\ UNCHANGED networks
AppleRunService ==
    /\ Due({"up"}) /\ (Described.build # None => Image \in DOMAIN images)
    /\ RunService(call.network)
    /\ UNCHANGED <<networks, images>>
AppleBuild ==
    /\ Due({"build"})
    /\ IF Described.build = None THEN Proceed /\ NoFault /\ UNCHANGED images ELSE BuildService
    /\ UNCHANGED <<containers, networks>>
(* pull_services: the images of services that are not built; see            *)
(* BuildService for Ctrl-C.                                                *)
ApplePull ==
    /\ Due({"pull"})
    /\ \/ (Described.build # None \/ Described.image = None) /\ Proceed /\ NoFault /\ UNCHANGED images
       \/ /\ Described.build = None /\ Described.image # None
          /\ \/ NoFault /\ images' = Set(images, Image, <<>>) /\ Proceed
             \/ Fault /\ UNCHANGED images /\ (Returns("failed") \/ Proceed)
    /\ UNCHANGED <<containers, networks>>
(* stop_services and remove_services go on where a call fails. *)
AppleStop ==
    /\ Due({"stop"}) /\ Proceed
    /\ LET name == ContainerName(Service)
       IN  \/ NoFault /\ containers' = [containers EXCEPT !["apple"] =
                             [n \in DOMAIN @ |-> IF n = name THEN Stopped(@[n]) ELSE @[n]]]
           \/ name \in Running(appleContainers) /\ Fault /\ UNCHANGED containers
    /\ UNCHANGED <<networks, images>>
AppleRemove ==
    /\ Due({"rm", "rm -s"}) /\ Proceed
    /\ LET name == ContainerName(Service)
       IN  \/ NoFault /\ containers' = [containers EXCEPT !["apple"] = Drop(@, {name})]
           \/ name \in DOMAIN appleContainers /\ Fault /\ UNCHANGED containers
    /\ UNCHANGED <<networks, images>>
AppleReturn ==
    /\ Calling("apple", "busy") /\ call.queue = <<>>
    /\ Returns("ok")
    /\ UNCHANGED <<worldVars, faults>>

AppleNext ==
    \/ AppleBegin \/ AppleBuildImage \/ AppleRunService \/ AppleBuild
    \/ ApplePull \/ AppleStop \/ AppleRemove \/ AppleReturn
=============================================================================
