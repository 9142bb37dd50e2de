------------------------------ MODULE Backends ------------------------------
(***************************************************************************)
(* What the two container runtimes have in common: the containers, the     *)
(* compose_run in progress, and the choice of the runtime                  *)
(* (src/runtime/mod.rs, src/commands/use_runtime.rs).                      *)
(***************************************************************************)
EXTENDS Values

CONSTANTS
    Addresses,     \* addresses containers can be given
    HostLabels,    \* the label keys dip.host and dip.host.<name>
    MaxFaults      \* how many calls of a runtime may fail in a behaviour

All == ""          \* no service is named
BackendNames == {"docker", "apple"}

VARIABLES
    containers,    \* containers[b][name]: [state, ip, network, args]
    networks,      \* the Apple networks that are ready
    images,        \* images[n]: what image n was built from, <<>> if it was pulled
    call,          \* the compose_run in progress
    faults         \* calls that have failed so far

worldVars == <<containers, networks, images>>
backendVars == <<containers, networks, images, call, faults>>

(* A call: verb and service, where it stands, the services left to do, and *)
(* the network that ensure_network found.                                  *)
NoCall == [backend |-> "docker", verb |-> "none", svc |-> All, state |-> "idle", queue |-> <<>>, network |-> ""]
Call(backend, verb, svc) == [NoCall EXCEPT !.backend = backend, !.verb = verb, !.svc = svc, !.state = "todo"]
Calling(backend, state) == call.backend = backend /\ call.state = state
Returns(state) == call' = [call EXCEPT !.state = state, !.queue = <<>>]
Fault == faults < MaxFaults /\ faults' = faults + 1
NoFault == UNCHANGED faults

Put(cs, name, c) == Set(cs, name, c)
Drop(cs, names) == [name \in DOMAIN cs \ names |-> cs[name]]
Running(cs) == {name \in DOMAIN cs : cs[name].state = "running"}
NoAddress == ""    \* of a container that is not running, or in no network yet
InUse(cs) == {cs[name].ip : name \in Running(cs)}
Stopped(c) == [c EXCEPT !.state = "exited", !.ip = NoAddress]

------------------------------------------------------------------------------
(* The runtime in use.  settings.process is the variable DIP_RUNTIME of    *)
(* dip's own environment, project and global are the texts of the files    *)
(* .dip/runtime and ~/.config/dip/runtime, "" where there is none.         *)

Apples == {"apple", "container", "apple-container"}
(* normalize_runtime, None where it is an error. *)
NormalizeRuntime(name) ==
    CASE name \in Apples      -> Some("apple")
      [] name = "docker"      -> Some("docker")
      [] name \in {"auto", ""} -> Some("auto")
      [] OTHER                -> None
(* read_runtime_file; its caller takes an error for an empty file. *)
RuntimeFile(text) ==
    LET name == NormalizeRuntime(text) IN IF name \in {None, Some("auto")} THEN "" ELSE name[1]
BackendFor(name) == IF name \in Apples THEN "apple" ELSE "docker"
DetectForProject(settings, env) ==
    LET asked == IF "DIP_RUNTIME" \in DOMAIN env THEN Name(env["DIP_RUNTIME"]) ELSE ""
    IN  BackendFor(CASE settings.process # ""              -> settings.process
                     [] settings.process = "" /\ RuntimeFile(settings.project) # "" -> RuntimeFile(settings.project)
                     [] settings.process = "" /\ RuntimeFile(settings.project) = "" /\ asked # "" -> asked
                     [] OTHER -> RuntimeFile(settings.global))
(* `dip use`: "auto" removes the file of the scope. *)
SetRuntime(settings, scope, choice) == [settings EXCEPT ![scope] = IF choice = "auto" THEN "" ELSE choice]

------------------------------------------------------------------------------
(* parse_host_labels: what a container asks the proxy for.  A value is     *)
(* "domain" or "domain:port".                                              *)
HostEntries(labels) ==
    {LET text == labels[key]
     IN  IF Find(text, ":") = 0 THEN [domain |-> Name(text), port |-> "80"]
         ELSE [domain |-> Name(Before(text, ":")), port |-> Name(After(text, ":"))] :
        key \in {x \in DOMAIN labels \cap HostLabels : labels[x] # <<>> /\ Head(labels[x]) # ":"}}
=============================================================================
