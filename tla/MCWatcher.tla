----------------------------- MODULE MCWatcher ------------------------------
(* A small instance of the watcher: two containers with a domain of their   *)
(* own each and one they share.                                             *)
EXTENDS Watcher
CONSTANTS c1, c2, d1, d2, d3
OneNet == [c \in Containers |-> 1]
SharedDomain == [c \in Containers |-> IF c = c1 THEN {d1, d3} ELSE {d2, d3}]
=============================================================================
