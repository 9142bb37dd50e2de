--------------------------- MODULE MCRouteSystem ----------------------------
(* Small instances of the routing system: two containers, each a project of *)
(* its own with a domain of its own, so that the two may change places.     *)
EXTENDS RouteSystem, TLC
CONSTANTS c1, c2, d1, d2
Same == c1 :> c1 @@ c2 :> c2 @@ d1 :> d1 @@ d2 :> d2
Swapped == c1 :> c2 @@ c2 :> c1 @@ d1 :> d2 @@ d2 :> d1
SystemSymmetry == {a @@ i @@ x : a \in Permutations(Addrs), i \in Permutations(Pids), x \in {Same, Swapped}}
OneNet == [c \in Containers |-> 1]
OwnDomains == [c \in Containers |-> IF c = c1 THEN {d1} ELSE {d2}]
OwnProjects == {{c} : c \in Containers}
=============================================================================
