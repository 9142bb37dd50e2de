------------------------------ MODULE MCServer ------------------------------
(* The server for TLC: two requests among routes that change, an agent     *)
(* that moves, and three name queries over two ports.  A behaviour is about *)
(* the agent, about requests (with an agent that comes and goes), or about *)
(* queries, which share nothing with the rest.                             *)
EXTENDS Server

VARIABLE focus     \* "agent", "requests" or "queries"

MCHosts == {<<"api", "shop", "test">>, <<"shop", "test">>}
Exact(labels, u) == [star |-> "none", labels |-> labels, upstream |-> u]
Wild(labels, u) == [star |-> "front", labels |-> labels, upstream |-> u]
Inner(labels, u) == [star |-> "inner", labels |-> labels, upstream |-> u]
MCTables == {
    <<Wild(<<"shop", "test">>, "b"), Wild(<<"test">>, "a"), Exact(<<"shop", "test">>, "b")>>,
    <<Wild(<<"shop", "test">>, "a"), Inner(<<"shop", "test">>, "a"), Wild(<<"shop", "test">>, "b")>> }

MCLowerCase == [l \in {"Shop", "shop", "test", "Test", "org"} |->
                   CASE l = "Shop" -> "shop" [] l = "Test" -> "test" [] OTHER -> l]
Asked(i, n, type, form) == [id |-> i, name |-> n, type |-> type, form |-> form]
MCPackets == {
    Asked(1, <<"Shop", "Test">>, "A", "whole"), Asked(2, <<"test">>, "AAAA", "whole"),
    Asked(1, <<"shop", "test">>, "A", "more"), Asked(2, <<"org">>, "A", "pointer"),
    Asked(1, <<"org">>, "A", "whole"), Asked(2, <<"shop", "org">>, "A", "whole"),
    Asked(1, <<"test">>, "A", "cut"), Asked(1, <<>>, "", "short") }
MCTlds == {<<"test">>}

MCInit ==
    /\ focus \in {"agent", "requests", "queries"}
    /\ ServerInit
    /\ source \in CASE focus = "agent" -> {"forced", "whalet"} [] focus = "requests" -> {"off", "forced"}
                     [] OTHER -> {"off"}
    /\ reach = (source = "off")
    /\ focus # "agent" => socks = {Forced} /\ published = Nowhere
    /\ focus # "requests" => routes = CHOOSE table \in Tables : TRUE
    /\ apps = Upstreams
MCNext ==
    /\ \/ Serve
       \/ focus = "agent" /\ ProxySide /\ UNCHANGED requestVars
       \/ focus = "requests" /\ ProxySide /\ UNCHANGED published /\ socks' \subseteq {Forced}
       \/ focus = "queries" /\ (BindDns \/ DnsSide)
    /\ UNCHANGED focus
MCSpec == MCInit /\ [][MCNext]_<<vars, focus>> /\ Looks
=============================================================================
