------------------------------- MODULE Server -------------------------------
(***************************************************************************)
(* The tasks of the daemon that serve (src/proxy/server.rs): the two       *)
(* listeners, the dialer and the DNS server.                               *)
(***************************************************************************)
EXTENDS Requests, DnsServer

VARIABLES
    serving,       \* are connections accepted?
    dnsUp          \* does the DNS server run?

serverVars == <<serving, dnsUp>>
vars == <<dialerVars, agentVars, changes, timeouts, requestVars, dnsVars, serverVars>>

(* dialer::init has returned: the first look, if there is one, is over,    *)
(* the next is ten seconds away.                                           *)
Serve ==
    /\ ~serving /\ look.pc = "asleep"
    /\ serving' = TRUE
    /\ UNCHANGED <<dialerVars, agentVars, changes, timeouts, requestVars, dnsVars, dnsUp>>
(* The DNS task binds its port, or ends for good. *)
BindDns ==
    /\ serving /\ ~dnsUp
    /\ dnsUp' = TRUE
    /\ UNCHANGED <<dialerVars, agentVars, changes, timeouts, requestVars, dnsVars, serving>>
AcceptRequest(r) ==
    /\ serving
    /\ \E host \in Hosts, kind \in Kinds : Accept(r, host, kind)
    /\ UNCHANGED <<dialerVars, agentVars, changes>>
ReceiveQuery(q) ==
    /\ dnsUp
    /\ \E packet \in Packets : Receive(q, packet)

ProxySide ==
    /\ \/ Surroundings
       \/ Look /\ UNCHANGED requestVars
       \/ \E r \in Requesters : AcceptRequest(r) \/ RequestStep(r)
    /\ UNCHANGED <<dnsVars, serverVars>>
DnsSide ==
    /\ DnsStep \/ \E q \in Queries : ReceiveQuery(q)
    /\ UNCHANGED <<dialerVars, agentVars, changes, timeouts, requestVars, serverVars>>

ServerInit ==
    /\ source \in {"off", "forced", "whalet"} /\ reach \in BOOLEAN
    /\ socks \in SUBSET Ports /\ published \in Ports \cup {Nowhere}
    /\ apps \in SUBSET Upstreams /\ routes \in Tables
    /\ DialerInit /\ RequestInit /\ DnsInit
    /\ serving = FALSE /\ dnsUp = FALSE
Next == Serve \/ BindDns \/ ProxySide \/ DnsSide
(* The task of the dialer keeps looking. *)
Looks == WF_vars(ProxySide /\ Look)
Spec == ServerInit /\ [][Next]_vars /\ Looks
=============================================================================
