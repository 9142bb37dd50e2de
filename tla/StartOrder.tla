----------------------------- MODULE StartOrder -----------------------------
(***************************************************************************)
(* What the Apple runtime makes of a compose file before it acts on it     *)
(* (load_project_compose and start_order of src/runtime/apple.rs): the     *)
(* services, and the order to start them in.                               *)
(***************************************************************************)
EXTENDS AppleRuntime, ComposeFile

CONSTANT Lines(_)     \* the lines of a compose file

(* Depth first, a service after the services it depends on.  A service     *)
(* that is already on the way is not visited again.                        *)

RECURSIVE VisitBefore(_, _, _)
VisitBefore(services, svc, visit) ==     (* Mutation: a service is pushed before those it depends on *)
    IF svc \in visit.seen THEN visit
    ELSE LET known == SelectSeq(services[svc].dependsOn, LAMBDA d : d \in DOMAIN services)
         IN  FoldLeft(LAMBDA v, d : VisitBefore(services, d, v),
                      [seen |-> visit.seen \cup {svc}, order |-> Append(visit.order, svc)], known)

RECURSIVE VisitService(_, _, _)
VisitService(services, svc, visit) ==
    IF svc \in visit.seen THEN visit
    ELSE LET known == SelectSeq(services[svc].dependsOn, LAMBDA d : d \in DOMAIN services)
             deps == FoldLeft(LAMBDA v, d : VisitService(services, d, v),
                              [visit EXCEPT !.seen = @ \cup {svc}], known)
         IN  [deps EXCEPT !.order = Append(@, svc)]
StartOrder(services, svc) ==
    FoldLeft(LAMBDA v, s : VisitService(services, s, v), [seen |-> {}, order |-> <<>>],
             SelectedServices(services, svc)).order

(* What the reader makes of each file in each environment, and the order   *)
(* its services start in; compared with itself, so that TLC reads each     *)
(* file once.                                                              *)
Reading ==
    LET table == [file \in Files, env \in Environments |->
                    LET config == LoadProjectCompose(Lines(file), env)
                    IN  [config |-> config, order |-> [svc \in DOMAIN config.services \cup {All} |->
                                                          StartOrder(config.services, svc)]]]
    IN  CHOOSE t \in {table} : t = table
ASSUME LoadedAssumption == Loaded = Reading
=============================================================================
