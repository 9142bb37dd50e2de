------------------------------ MODULE Requests ------------------------------
(***************************************************************************)
(* What becomes of a request: accepted and routed (src/proxy/handler.rs,   *)
(* router.rs), sent to its upstream over a pooled or a dedicated           *)
(* connection, and answered (src/proxy/upstream.rs).  Requests run side by *)
(* side, while containers stop and start and the routes change.            *)
(***************************************************************************)
EXTENDS Dialer, FiniteSetsExt, SequencesExt

CONSTANTS
    Requesters,    \* requests
    Hosts,         \* hosts they ask for, sequences of labels
    Kinds,         \* "plain" (not TLS), "small", "large" (or of unknown size), "upgrade"
    Upstreams,     \* addresses of containers
    Tables         \* route tables: sequences of [star, labels, upstream]

ASSUME HostsType == Hosts \subseteq Seq(STRING)
ASSUME TablesType == Tables \subseteq Seq([star : {"none", "front", "inner"}, labels : Seq(STRING), upstream : Upstreams])
ASSUME UpstreamsType == Nowhere \notin Upstreams

VARIABLES
    routes,        \* the table in memory
    apps,          \* upstreams where something listens
    reach,         \* can containers be reached without the agent?
    pool,          \* pool[u]: idle connections to u, the latest last
    req,           \* req[r]: request r
    handled        \* handled[r]: the upstreams that were given r, in order

requestVars == <<routes, apps, reach, pool, req, handled>>

NoConnection == [via |-> Nowhere, alive |-> FALSE]
NewRequest == [pc |-> "new", host |-> <<>>, kind |-> "small", upstream |-> Nowhere, expected |-> {},
               conn |-> NoConnection, reused |-> FALSE, answer |-> ""]
At(r, pc) == req[r].pc = pc
Moves(r, to) == req' = [req EXCEPT ![r] = to]
Answered(r, answer) ==
    Moves(r, [NewRequest EXCEPT !.pc = "done", !.answer = answer, !.expected = req[r].expected])

------------------------------------------------------------------------------
(* match_route: the first exact route, else the longest wildcard, the last *)
(* of several.  A star that is not in front matches nothing.               *)
Covers(route, host) ==
    CASE route.star = "none"  -> host = route.labels
      [] route.star = "front" -> Len(host) > Len(route.labels) /\ IsSuffix(route.labels, host)
      [] OTHER                -> FALSE
MatchRoute(host, table) ==
    LET matching(star) == {i \in DOMAIN table : table[i].star = star /\ Covers(table[i], host)}
        exact == matching("none")
        longest(i) == \A j \in matching("front") : Len(table[j].labels) <= Len(table[i].labels)
    IN  IF exact # {} THEN table[Min(exact)].upstream
        ELSE IF matching("front") # {} THEN table[Max({i \in matching("front") : longest(i)})].upstream
        ELSE Nowhere

(* The route a reader of the documentation expects. *)
MoreSpecific(a, b) == a.star = "none" \/ (b.star # "none" /\ Len(a.labels) >= Len(b.labels))
Expected(host, table) ==
    LET covering == {i \in DOMAIN table : Covers(table[i], host)}
    IN  {table[i].upstream : i \in {j \in covering : \A k \in covering : MoreSpecific(table[j], table[k])}}

------------------------------------------------------------------------------
(* A request that did not come by TLS is sent to where it would. *)
Accept(r, host, kind) ==
    /\ At(r, "new")
    /\ Moves(r, IF kind = "plain" THEN [NewRequest EXCEPT !.pc = "done", !.answer = "301"]
                ELSE [NewRequest EXCEPT !.pc = "accepted", !.host = host, !.kind = kind])
    /\ UNCHANGED <<routes, apps, reach, pool, handled, timeouts>>
(* The upstream is looked up under the lock, and used after it. *)
LookUp(r) ==
    /\ At(r, "accepted")
    /\ LET upstream == MatchRoute(req[r].host, routes)
           routed == [req[r] EXCEPT !.upstream = upstream, !.expected = Expected(req[r].host, routes)]
       IN  Moves(r, IF upstream = Nowhere THEN [NewRequest EXCEPT !.pc = "done", !.answer = "404", !.expected = routed.expected]
                    ELSE [routed EXCEPT !.pc = IF req[r].kind = "large" THEN "ready" ELSE "collecting"])
    /\ UNCHANGED <<routes, apps, reach, pool, handled, timeouts>>
(* The body, unless it is streamed, is read first; the client may leave. *)
Collect(r) ==
    /\ At(r, "collecting")
    /\ \/ Moves(r, [req[r] EXCEPT !.pc = "ready"])
       \/ Answered(r, "502")
    /\ UNCHANGED <<routes, apps, reach, pool, handled, timeouts>>

(* Small requests take an idle connection of the pool; the others, and     *)
(* those that find none, connect, on the way the dialer knows at this      *)
(* moment and within five seconds.                                         *)
Pooled(r) == req[r].kind = "small"
CheckOut(r) ==
    /\ At(r, "ready") /\ Pooled(r) /\ pool[req[r].upstream] # <<>>
    /\ LET idle == pool[req[r].upstream]
       IN  /\ Moves(r, [req[r] EXCEPT !.pc = "connected", !.conn = Last(idle), !.reused = TRUE])
           /\ pool' = [pool EXCEPT ![req[r].upstream] = Front(idle)]
    /\ UNCHANGED <<routes, apps, reach, handled, timeouts>>
Reachable(u, via) == u \in apps /\ (IF via = Nowhere THEN reach ELSE via \in socks)
Dial(r) ==
    /\ \/ /\ Reachable(req[r].upstream, agent) /\ InTime
          /\ Moves(r, [req[r] EXCEPT !.pc = "connected", !.conn = [via |-> agent, alive |-> TRUE], !.reused = FALSE])
       \/ ~Reachable(req[r].upstream, agent) /\ InTime /\ Answered(r, "502")
       \/ TimesOut /\ Answered(r, "502")
    /\ UNCHANGED <<routes, apps, reach, pool, handled>>
ConnectUpstream(r) == At(r, "ready") /\ ~Pooled(r) /\ Dial(r)
ConnectPooled(r) == At(r, "ready") /\ Pooled(r) /\ pool[req[r].upstream] = <<>> /\ Dial(r)
(* A pooled connection seen to be closed before the request went out costs *)
(* nothing: the request is tried again.  If it is seen later, that is that. *)
Send(r) ==
    /\ At(r, "connected")
    /\ IF req[r].conn.alive
       THEN /\ Moves(r, [req[r] EXCEPT !.pc = "sent"])
            /\ handled' = [handled EXCEPT ![r] = Append(@, req[r].upstream)]
       ELSE /\ \/ req[r].reused /\ Moves(r, [req[r] EXCEPT !.pc = "ready"])
               \/ Answered(r, "502")
            /\ UNCHANGED handled
    /\ UNCHANGED <<routes, apps, reach, pool, timeouts>>
(* The answer; an upgrade may be granted, the connection is a tunnel then. *)
Respond(r) ==
    /\ At(r, "sent") /\ req[r].conn.alive
    /\ \/ Answered(r, "200")
       \/ req[r].kind = "upgrade" /\ Answered(r, "101")
    /\ pool' = IF Pooled(r) THEN [pool EXCEPT ![req[r].upstream] = Append(@, req[r].conn)] ELSE pool
    /\ UNCHANGED <<routes, apps, reach, handled, timeouts>>
BreakRetried(r) ==     (* Mutation: a request is tried again after it was sent *)
    /\ At(r, "sent") /\ ~req[r].conn.alive
    /\ \/ req[r].reused /\ Moves(r, [req[r] EXCEPT !.pc = "ready"])
       \/ Answered(r, "502")
    /\ UNCHANGED <<routes, apps, reach, pool, handled, timeouts>>

Break(r) ==
    /\ At(r, "sent") /\ ~req[r].conn.alive
    /\ Answered(r, "502")
    /\ UNCHANGED <<routes, apps, reach, pool, handled, timeouts>>

RequestStep(r) ==
    /\ LookUp(r) \/ Collect(r) \/ CheckOut(r) \/ ConnectPooled(r) \/ ConnectUpstream(r) \/ Send(r) \/ Respond(r) \/ Break(r)
    /\ UNCHANGED <<dialerVars, agentVars, changes>>

------------------------------------------------------------------------------
(* Around the proxy: containers come and go, agents too, which ends the    *)
(* connections through them; idle ones leave the pool in time.             *)
Severed(lost(_, _)) ==
    /\ pool' = [u \in Upstreams |-> [i \in DOMAIN pool[u] |->
                    [pool[u][i] EXCEPT !.alive = @ /\ ~lost(u, pool[u][i])]]]
    /\ req' = [r \in Requesters |->
                    [req[r] EXCEPT !.conn.alive = @ /\ ~lost(req[r].upstream, req[r].conn)]]
AppStarts(u) == Change /\ u \notin apps /\ apps' = apps \cup {u} /\ UNCHANGED <<pool, req>>
AppStops(u) == Change /\ u \in apps /\ apps' = apps \ {u} /\ Severed(LAMBDA v, c : v = u)
TableChanges(table) == Change /\ table # routes /\ routes' = table
Forget(u, i) == pool' = [pool EXCEPT ![u] = RemoveAt(@, i)]

Outside ==
    \/ \E u \in Upstreams : (AppStarts(u) \/ AppStops(u)) /\ UNCHANGED <<routes, agentVars>>
    \/ \E table \in Tables : TableChanges(table) /\ UNCHANGED <<apps, pool, req, agentVars>>
    \/ \E a \in Ports : \/ (SocksStarts(a) \/ Publish(a)) /\ UNCHANGED <<routes, apps, pool, req>>
                        \/ SocksEnds(a) /\ Severed(LAMBDA u, c : c.via = a) /\ UNCHANGED <<routes, apps>>
    \/ \E u \in Upstreams : \E i \in DOMAIN pool[u] : Forget(u, i) /\ UNCHANGED <<routes, apps, req, agentVars, changes>>
Surroundings == Outside /\ UNCHANGED <<dialerVars, reach, handled, timeouts>>

RequestInit ==
    /\ pool = [u \in Upstreams |-> <<>>]
    /\ req = [r \in Requesters |-> NewRequest]
    /\ handled = [r \in Requesters |-> <<>>]

------------------------------------------------------------------------------
(* No request is given to a container twice, whatever breaks; what is said *)
(* to be answered by one was given to the one that the most specific route *)
(* of its host led to when it was looked up; and no route means 404.       *)
ServedOnce ==
    \A r \in Requesters :
        /\ Len(handled[r]) <= 1
        /\ \A i \in DOMAIN handled[r] : handled[r][i] \in req[r].expected
        /\ req[r].answer \in {"200", "101"} => handled[r] # <<>>
        /\ req[r].answer = "404" => req[r].expected = {} /\ handled[r] = <<>>
=============================================================================
