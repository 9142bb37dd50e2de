------------------------------- MODULE Dialer -------------------------------
(***************************************************************************)
(* How the proxy reaches containers (src/proxy/dialer.rs): directly, or    *)
(* through the SOCKS agent that whalet publishes.  A task looks for the    *)
(* agent every ten seconds; each new connection takes the way the last     *)
(* look found.                                                             *)
(***************************************************************************)
EXTENDS Naturals, Sequences

CONSTANTS
    Ports,         \* addresses a SOCKS server may listen on
    Forced,        \* the one DIP_SOCKS names
    MaxChanges,    \* changes of the world in a behaviour
    MaxTimeouts    \* probes, discoveries and connects that run out of time

Nowhere == ""      \* no address: Rust's None

VARIABLES
    source,        \* "off", "forced" or "whalet"
    agent,         \* AGENT: where connections go, Nowhere for direct
    look,          \* the refresh in progress
    socks,         \* addresses where something speaks SOCKS5
    published,     \* the address `whalet status` prints
    changes,       \* changes of the world so far
    timeouts       \* time-outs so far

dialerVars == <<source, agent, look>>
agentVars == <<socks, published>>

Asleep == [pc |-> "asleep", known |-> Nowhere, candidate |-> Nowhere, asked |-> FALSE]
Starting == [Asleep EXCEPT !.pc = "starting"]
TimesOut == timeouts < MaxTimeouts /\ timeouts' = timeouts + 1
InTime == UNCHANGED timeouts

(* refresh reads what is known and probes it; without anything known, or   *)
(* if it does not answer, whalet is asked and what it says is probed.      *)
Refresh ==
    /\ look.pc \in {"starting", "asleep"} /\ source # "off"
    /\ LET candidate == IF source = "forced" THEN Forced ELSE agent
       IN  look' = [Asleep EXCEPT !.pc = IF candidate = Nowhere THEN "ask" ELSE "probe",
                                  !.known = agent, !.candidate = candidate]
    /\ UNCHANGED <<source, agent, agentVars, changes, timeouts>>
Probe ==
    /\ look.pc = "probe"
    /\ \/ InTime /\ look.candidate \in socks /\ look' = [look EXCEPT !.pc = "found"]
       \/ /\ (look.candidate \notin socks /\ InTime) \/ TimesOut
          /\ look' = IF source = "whalet" /\ ~look.asked THEN [look EXCEPT !.pc = "ask"]
                     ELSE [look EXCEPT !.pc = "found", !.candidate = Nowhere]
    /\ UNCHANGED <<source, agent, agentVars, changes>>
Discover ==
    /\ look.pc = "ask"
    /\ \/ InTime /\ published # Nowhere
          /\ look' = [look EXCEPT !.pc = "probe", !.candidate = published, !.asked = TRUE]
       \/ /\ (published = Nowhere /\ InTime) \/ TimesOut
          /\ look' = [look EXCEPT !.pc = "found", !.candidate = Nowhere]
    /\ UNCHANGED <<source, agent, agentVars, changes>>

FoundLive ==     (* Mutation: an agent that is gone is not forgotten *)
    /\ look.pc = "found"
    /\ agent' = IF look.candidate = Nowhere THEN agent ELSE look.candidate
    /\ look' = Asleep
    /\ UNCHANGED <<source, agentVars, changes, timeouts>>

Found ==
    /\ look.pc = "found"
    /\ agent' = IF look.candidate # look.known THEN look.candidate ELSE agent
    /\ look' = Asleep
    /\ UNCHANGED <<source, agentVars, changes, timeouts>>

Look == Refresh \/ Probe \/ Discover \/ Found

(* whalet and other SOCKS servers come and go; its status may lag behind. *)
Change == changes < MaxChanges /\ changes' = changes + 1
SocksStarts(a) == Change /\ a \notin socks /\ socks' = socks \cup {a} /\ UNCHANGED published
SocksEnds(a) == Change /\ a \in socks /\ socks' = socks \ {a} /\ UNCHANGED published
Publish(a) == Change /\ a # published /\ published' = a /\ UNCHANGED socks

(* init: with nothing to look for it returns at once, without a task. *)
DialerInit ==
    /\ agent = Nowhere /\ look = IF source = "off" THEN Asleep ELSE Starting
    /\ changes = 0 /\ timeouts = 0

------------------------------------------------------------------------------
(* Once the world leaves it alone, the proxy dials an agent that answers;  *)
(* it dials directly only if the agent it was told of, or that whalet      *)
(* names, does not answer.  (Whether the one that answers is still         *)
(* whalet's is not looked at again.)                                       *)
DialerFollows ==
    <>[](/\ agent # Nowhere => agent \in socks
         /\ source = "whalet" /\ agent = Nowhere => published \notin socks
         /\ source = "forced" => (agent = Forced <=> Forced \in socks)
         /\ source = "off" => agent = Nowhere)
=============================================================================
