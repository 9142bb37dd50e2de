---------------------------- MODULE DockerEngine ----------------------------
(* The container engine as the proxy's watcher meets it.  It is no part of *)
(* the repository: what is modelled here is what src/proxy/watcher.rs      *)
(* relies on, the life of labelled containers, the addresses                *)
(* `docker inspect` reports for them, and the pipe of `docker events`,      *)
(* which carries only what happens while somebody reads it.                 *)
EXTENDS Naturals, Sequences
LOCAL INSTANCE Functions

CONSTANTS
  Containers,   \* containers the engine may run
  Addrs,        \* addresses the engine hands out
  Nets,         \* Nets[c]: how many networks container c is attached to
  MaxStarts,    \* bound: how often containers are started in all
  MaxPipe,      \* bound: containers change only while fewer lines are unread
  MaxOutages    \* bound: how often the event stream ends

ASSUME NetsType == Nets \in [Containers -> Nat]
ASSUME BoundsType ==
  MaxStarts \in Nat /\ MaxPipe \in Nat /\ MaxOutages \in Nat

VARIABLES
  state,    \* state[c]: "down", "up", "stopping" (told to stop) or "gone"
  ips,      \* ips[c]: its addresses in the order of its networks, << >> if none
  gen,      \* gen[c]: how often it was started; tells two starts apart
  link,     \* the pipe of `docker events`: "closed", "open" or "ended"
  pipe,     \* the event lines not read yet
  outages,  \* how often the stream ended
  leases    \* history: the pairs <<container, addresses>> handed out so far

engineVars == <<state, ips, gen, link, pipe, outages, leases>>

Actions == {"start", "kill", "die", "stop", "destroy"}
Line == [action : Actions, id : Containers, gen : Nat]
Event(a, c) == [action |-> a, id |-> c, gen |-> gen[c]]
Up(c) == state[c] \in {"up", "stopping"}

EngineTypeOK ==
  /\ state \in [Containers -> {"down", "up", "stopping", "gone"}]
  /\ ips \in [Containers -> Seq(Addrs)]
  /\ gen \in [Containers -> Nat]
  /\ link \in {"closed", "open", "ended"}
  /\ pipe \in Seq(Line)
  /\ outages \in Nat
  /\ leases \in SUBSET (Containers \X Seq(Addrs))

EngineInit ==
  /\ state = [c \in Containers |-> "down"]
  /\ ips = [c \in Containers |-> << >>]
  /\ gen = [c \in Containers |-> 0]
  /\ link = "closed"
  /\ pipe = << >>
  /\ outages = 0
  /\ leases = {}

(* Events reach the pipe only while `docker events` runs: nothing is       *)
(* replayed later, for the watcher passes no --since.                      *)
Emit(events) == pipe' = IF link = "open" THEN pipe \o events ELSE pipe

InUse == {a \in Addrs : \E c \in Containers : \E i \in 1..Len(ips[c]) : ips[c][i] = a}

Starts == FoldFunction(+, 0, gen)

(* A start hands out one unused address per network.                       *)
ContainerStart(c) ==
  /\ state[c] = "down" /\ Starts < MaxStarts
  /\ \E a \in [1..Nets[c] -> Addrs \ InUse] :
       /\ \A i, j \in 1..Nets[c] : i # j => a[i] # a[j]
       /\ ips' = [ips EXCEPT ![c] = a]
       /\ leases' = leases \cup {<<c, a>>}
  /\ state' = [state EXCEPT ![c] = "up"]
  /\ gen' = [gen EXCEPT ![c] = @ + 1]
  /\ Emit(<<[action |-> "start", id |-> c, gen |-> gen[c] + 1]>>)
  /\ UNCHANGED <<link, outages>>

(* `docker stop`: the signal is reported first, the container exits later. *)
ContainerStop(c) ==
  /\ state[c] = "up"
  /\ state' = [state EXCEPT ![c] = "stopping"]
  /\ Emit(<<Event("kill", c)>>)
  /\ UNCHANGED <<ips, gen, link, outages, leases>>

(* `docker kill --signal HUP` and its like: reported as "kill", survived.  *)
ContainerSignal(c) ==
  /\ state[c] = "up" /\ link = "open"
  /\ Emit(<<Event("kill", c)>>)
  /\ UNCHANGED <<state, ips, gen, link, outages, leases>>

(* The container exits, by itself or because it was stopped.               *)
ContainerExit(c) ==
  /\ Up(c)
  /\ Emit(<<Event("die", c)>> \o
            IF state[c] = "stopping" THEN <<Event("stop", c)>> ELSE << >>)
  /\ state' = [state EXCEPT ![c] = "down"]
  /\ ips' = [ips EXCEPT ![c] = << >>]
  /\ UNCHANGED <<gen, link, outages, leases>>

(* A container that is not running is removed.                             *)
ContainerRemove(c) ==
  /\ state[c] = "down" /\ gen[c] > 0
  /\ state' = [state EXCEPT ![c] = "gone"]
  /\ Emit(<<Event("destroy", c)>>)
  /\ UNCHANGED <<ips, gen, link, outages, leases>>

(* `docker events` ends: the engine restarts, or the process is killed.    *)
StreamEnds ==
  /\ link = "open" /\ outages < MaxOutages
  /\ link' = "ended" /\ outages' = outages + 1
  /\ UNCHANGED <<state, ips, gen, pipe, leases>>
=============================================================================
