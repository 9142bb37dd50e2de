--------------------------- MODULE MCRouteConfig ----------------------------
(* A small instance of the commands: a project with two domains comes, one  *)
(* of them goes, and it comes again.                                       *)
EXTENDS RouteConfig, TLC
CONSTANTS d1, d2, u1
R(d, u) == [domain |-> d, upstream |-> u]
Req(op, new, gone) == [op |-> op, new |-> new, gone |-> gone]
OwnSan == [d \in Domains |-> d]
SmallRequests ==
  { Req("sync", {R(d1, u1), R(d2, u1)}, {}), Req("unsync", {}, {d2}) }
ProcessSymmetry == {a @@ b : a \in Permutations(Clis), b \in Permutations(Pids)}
=============================================================================
