--------------------------- MODULE RouteRegistry ----------------------------
(* What config.json is for: a registry of routes.  A command asks for a     *)
(* change and then makes it in one step, exactly as asked and only once, or *)
(* gives up and changes nothing.                                            *)
EXTENDS RouteTable

CONSTANTS
  Clis,       \* processes that run commands
  Requests,   \* what commands ask for, see RouteConfig
  None        \* no request

VARIABLES
  registry,   \* the routes
  asked       \* asked[p]: what p asked for and has not done yet

Init == registry = {} /\ asked = [p \in Clis |-> None]

Ask(p, req) ==
  /\ asked[p] = None
  /\ asked' = [asked EXCEPT ![p] = req]
  /\ UNCHANGED registry

Execute(p) ==
  /\ asked[p] # None
  /\ registry' = Apply(asked[p], registry)
  /\ asked' = [asked EXCEPT ![p] = None]

GiveUp(p) ==
  /\ asked[p] # None
  /\ asked' = [asked EXCEPT ![p] = None]
  /\ UNCHANGED registry

Next == \E p \in Clis : (\E req \in Requests : Ask(p, req)) \/ Execute(p) \/ GiveUp(p)
Spec == Init /\ [][Next]_<<registry, asked>>
=============================================================================
