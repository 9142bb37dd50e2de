---------------------------- MODULE ServerProofs -----------------------------
(***************************************************************************)
(* Theorems about requests, for any number of them, any hosts, any routes  *)
(* and any upstreams, and about name queries, for any number of them, any  *)
(* packets, any top-level domains and any ports.                           *)
(***************************************************************************)
EXTENDS Server, WellFoundedInduction, TLAPS

------------------------------------------------------------------------------
(* Sets of numbers                                                         *)

(* A set of naturals that is not empty has a least element. *)
LEMMA LeastNatural ==
  ASSUME NEW S \in SUBSET Nat, S # {}
  PROVE  \E x \in S : \A y \in S : x =< y
<1>1. \E x \in S : \A y \in S : ~ (<<y, x>> \in OpToRel(<, Nat))
  BY NatLessThanWellFounded, WFMin
<1>2. PICK x \in S : \A y \in S : ~ (<<y, x>> \in OpToRel(<, Nat))
  BY <1>1
<1>3. \A y \in S : ~ (y < x)
  BY <1>2 DEF OpToRel
<1> QED
  BY <1>3

(* So CHOOSE finds it, in FiniteSetsExt's Min ... *)
LEMMA MinIsLeast ==
  ASSUME NEW S \in SUBSET Nat, S # {}
  PROVE  Min(S) \in S
BY LeastNatural DEF Min

(* One that has a bound has a greatest element. *)
LEMMA GreatestNatural ==
  ASSUME NEW n \in Nat, NEW S \in SUBSET (0 .. n), S # {}
  PROVE  \E x \in S : \A y \in S : x >= y
<1> DEFINE T == {n - x : x \in S}
<1>1. \A x \in S : x \in Nat /\ n - x \in Nat /\ n - x \in T
  OBVIOUS
<1>2. T \subseteq Nat /\ T # {}
  BY <1>1
<1>3. PICK t \in T : \A u \in T : t =< u
  BY <1>2, LeastNatural
<1>4. PICK x \in S : t = n - x
  OBVIOUS
<1>5. \A y \in S : n - x =< n - y
  BY <1>1, <1>3, <1>4
<1> QED
  BY <1>1, <1>5

(* ... and in its Max. *)
LEMMA MaxIsGreatest ==
  ASSUME NEW n \in Nat, NEW S \in SUBSET (0 .. n), S # {}
  PROVE  Max(S) \in S
BY GreatestNatural DEF Max

------------------------------------------------------------------------------
(* Routing                                                                 *)

(* What the assumptions on Hosts and Tables say of a route. *)
LEMMA ElementsTyped ==
  ASSUME NEW S, NEW s \in Seq(S)
  PROVE  Len(s) \in Nat /\ DOMAIN s = 1 .. Len(s) /\ \A i \in DOMAIN s : s[i] \in S
OBVIOUS

LEMMA TableTyped ==
  ASSUME NEW table \in Tables
  PROVE  /\ Len(table) \in Nat /\ DOMAIN table = 1 .. Len(table)
         /\ \A i \in DOMAIN table : /\ table[i].labels \in Seq(STRING) /\ table[i].upstream \in Upstreams
                                    /\ table[i].star \in {"none", "front", "inner"}
                                    /\ Len(table[i].labels) \in Nat
<1> DEFINE Entry == [star : {"none", "front", "inner"}, labels : Seq(STRING), upstream : Upstreams]
<1>1. table \in Seq(Entry)
  BY TablesType
<1>2. Len(table) \in Nat /\ DOMAIN table = 1 .. Len(table)
  BY <1>1
<1>3. \A i \in DOMAIN table : table[i] \in Entry
  BY <1>1, ElementsTyped
<1>4. \A e \in Entry : /\ e.labels \in Seq(STRING) /\ e.upstream \in Upstreams
                       /\ e.star \in {"none", "front", "inner"} /\ Len(e.labels) \in Nat
  OBVIOUS
<1> HIDE DEF Entry
<1> QED
  BY <1>2, <1>3, <1>4

(* What match_route finds is one of the most specific routes of the host,  *)
(* and it finds nothing only where no route covers the host.               *)
THEOREM RoutesToMostSpecific ==
  ASSUME NEW host \in Hosts, NEW table \in Tables
  PROVE  /\ MatchRoute(host, table) = Nowhere => Expected(host, table) = {}
         /\ MatchRoute(host, table) # Nowhere => MatchRoute(host, table) \in Expected(host, table)
<1> DEFINE matching(star) == {i \in DOMAIN table : table[i].star = star /\ Covers(table[i], host)}
           longest(i) == \A j \in matching("front") : Len(table[j].labels) <= Len(table[i].labels)
           covering == {i \in DOMAIN table : Covers(table[i], host)}
           best == {i \in matching("front") : longest(i)}
<1>1. /\ Len(table) \in Nat /\ DOMAIN table = 1 .. Len(table)
      /\ \A i \in DOMAIN table : /\ table[i].labels \in Seq(STRING) /\ table[i].upstream \in Upstreams
                                 /\ table[i].star \in {"none", "front", "inner"}
                                 /\ Len(table[i].labels) \in Nat
  BY TableTyped
<1>2. host \in Seq(STRING) /\ Len(host) \in Nat
  BY HostsType
<1>3. covering = matching("none") \cup matching("front")
  BY <1>1 DEF Covers
<1>4. ASSUME NEW i \in covering, \A k \in covering : MoreSpecific(table[i], table[k])
      PROVE  table[i].upstream \in Expected(host, table) /\ table[i].upstream # Nowhere
  BY <1>1, <1>4, UpstreamsType DEF Expected
<1>5. CASE matching("none") # {}
  <2> DEFINE i == Min(matching("none"))
  <2>1. matching("none") \in SUBSET Nat
    BY <1>1
  <2>2. i \in matching("none")
    BY <1>5, <2>1, MinIsLeast
  <2>3. i \in covering /\ table[i].star = "none"
    BY <2>2
  <2>4. \A k \in covering : MoreSpecific(table[i], table[k])
    BY <2>3 DEF MoreSpecific
  <2>5. MatchRoute(host, table) = table[i].upstream
    BY <1>5 DEF MatchRoute
  <2> QED
    BY <1>4, <2>3, <2>4, <2>5
<1>6. CASE matching("none") = {} /\ matching("front") # {}
  <2> DEFINE lengths == {Len(table[i].labels) : i \in matching("front")}
             i == Max(best)
  <2>1. lengths \subseteq 0 .. Len(host)
    BY <1>1, <1>2 DEF Covers
  <2>2. PICK x \in lengths : \A y \in lengths : x >= y
    BY ZenonT(60), <1>2, <1>6, <2>1, GreatestNatural
  <2>3. best # {}
    BY <2>2
  <2>4. best \subseteq 0 .. Len(table)
    BY <1>1
  <2>5. i \in best
    BY <1>1, <2>3, <2>4, MaxIsGreatest
  <2>6. i \in covering /\ longest(i)
    BY <2>5
  <2>7. \A k \in covering : MoreSpecific(table[i], table[k])
    BY <1>1, <1>3, <1>6, <2>6 DEF MoreSpecific
  <2>8. MatchRoute(host, table) = table[i].upstream
    BY <1>6 DEF MatchRoute
  <2> QED
    BY <1>4, <2>6, <2>7, <2>8
<1>7. CASE matching("none") = {} /\ matching("front") = {}
  <2>1. covering = {}
    BY <1>3, <1>7
  <2>2. Expected(host, table) = {}
    BY <2>1 DEF Expected
  <2>3. MatchRoute(host, table) = Nowhere
    BY <1>7 DEF MatchRoute
  <2> QED
    BY <2>2, <2>3
<1> QED
  BY <1>5, <1>6, <1>7

(* The expected upstreams are upstreams. *)
LEMMA ExpectedType ==
  ASSUME NEW host, NEW table \in Tables
  PROVE  Expected(host, table) \in SUBSET Upstreams
BY TableTyped DEF Expected

------------------------------------------------------------------------------
(* Requests.  The connections are any values here.                         *)

ReqType(x) == [pc : {"new", "accepted", "collecting", "ready", "connected", "sent", "done"},
               host : Hosts \cup {<<>>}, kind : Kinds \cup {"small"}, upstream : Upstreams \cup {Nowhere},
               expected : SUBSET Upstreams, conn : {x.conn}, reused : {x.reused},
               answer : {"", "200", "101", "301", "404", "502"}]

(* What the containers were given of request x is h: nothing before it is  *)
(* sent, and then its upstream, one of those it was looked up for.         *)
Fine(x, h) ==
    /\ x.pc # "done" => x.answer = ""
    /\ x.pc \in {"new", "accepted", "collecting", "ready", "connected"} => h = <<>>
    /\ x.pc = "accepted" => x.host \in Hosts
    /\ x.pc \in {"collecting", "ready", "connected", "sent"} => x.upstream \in x.expected
    /\ x.pc = "sent" => h = <<x.upstream>>
    /\ h = <<>> \/ \E u \in x.expected : h = <<u>>
    /\ x.answer \in {"200", "101"} => h # <<>>
    /\ x.answer = "404" => x.expected = {} /\ h = <<>>

RequestInv ==
    /\ routes \in Tables
    /\ DOMAIN req = Requesters
    /\ handled \in [Requesters -> Seq(Upstreams)]
    /\ \A r \in Requesters : req[r] \in ReqType(req[r]) /\ Fine(req[r], handled[r])

(* The invariant says more than the property. *)
LEMMA InvServes == RequestInv => ServedOnce
<1> SUFFICES ASSUME RequestInv, NEW r \in Requesters
             PROVE  /\ Len(handled[r]) <= 1
                    /\ \A i \in DOMAIN handled[r] : handled[r][i] \in req[r].expected
                    /\ req[r].answer \in {"200", "101"} => handled[r] # <<>>
                    /\ req[r].answer = "404" => req[r].expected = {} /\ handled[r] = <<>>
  BY DEF ServedOnce
<1>1. Fine(req[r], handled[r])
  BY DEF RequestInv
<1>2. Len(handled[r]) <= 1 /\ \A i \in DOMAIN handled[r] : handled[r][i] \in req[r].expected
  <2>1. CASE handled[r] = <<>>
    <3>1. Len(handled[r]) = 0 /\ DOMAIN handled[r] = {}
      BY <2>1
    <3> QED
      BY <3>1
  <2>2. CASE \E u \in req[r].expected : handled[r] = <<u>>
    <3>1. PICK u \in req[r].expected : handled[r] = <<u>>
      BY <2>2
    <3>2. Len(handled[r]) = 1 /\ DOMAIN handled[r] = {1} /\ handled[r][1] = u
      BY <3>1
    <3> QED
      BY <3>2
  <2> QED
    BY <1>1, <2>1, <2>2 DEF Fine
<1> QED
  BY <1>1, <1>2 DEF Fine

(* A request that has not come is fine. *)
LEMMA NewIsFine ==
  /\ NewRequest \in ReqType(NewRequest)
  /\ Fine(NewRequest, <<>>)
BY DEF NewRequest, ReqType, Fine, Nowhere

(* A step of one request keeps the invariant if what it becomes is fine.   *)
LEMMA MovesKeeps ==
  ASSUME RequestInv, NEW r \in Requesters, NEW x, Moves(r, x),
         x \in ReqType(x), Fine(x, handled'[r]),
         handled' \in [Requesters -> Seq(Upstreams)],
         \A p \in Requesters \ {r} : handled'[p] = handled[p],
         routes' \in Tables
  PROVE  RequestInv'
<1>1. /\ DOMAIN req' = Requesters /\ req'[r] = x
      /\ \A p \in Requesters \ {r} : req'[p] = req[p]
  BY DEF Moves, RequestInv
<1>2. \A p \in Requesters : req'[p] \in ReqType(req'[p]) /\ Fine(req'[p], handled'[p])
  BY <1>1 DEF RequestInv
<1> QED
  BY <1>1, <1>2 DEF RequestInv

Stages == {"new", "accepted", "collecting", "ready", "connected", "sent", "done"}

(* A request goes on to another stage. *)
LEMMA StageChanges ==
  ASSUME NEW x, x \in ReqType(x), NEW pc \in Stages, NEW y, y = [x EXCEPT !.pc = pc]
  PROVE  /\ y \in ReqType(y)
         /\ y.pc = pc /\ y.host = x.host /\ y.upstream = x.upstream
         /\ y.expected = x.expected /\ y.answer = x.answer
BY DEF ReqType, Stages

(* A request that is answered with an error keeps the invariant; so does   *)
(* one that is answered after it was sent.                                 *)
LEMMA AnsweredKeeps ==
  ASSUME RequestInv, NEW r \in Requesters, NEW answer \in {"200", "101", "502"},
         Answered(r, answer), answer # "502" => req[r].pc = "sent",
         UNCHANGED <<routes, handled>>
  PROVE  RequestInv'
<1> DEFINE y == [NewRequest EXCEPT !.pc = "done", !.answer = answer, !.expected = req[r].expected]
<1>1. req[r] \in ReqType(req[r]) /\ Fine(req[r], handled[r])
  BY DEF RequestInv
<1>2. req[r].expected \in SUBSET Upstreams
  BY <1>1 DEF ReqType
<1>3. y \in ReqType(y) /\ y.pc = "done" /\ y.answer = answer /\ y.expected = req[r].expected
  BY <1>2 DEF NewRequest, ReqType
<1>4. Moves(r, y)
  BY DEF Answered
<1> HIDE DEF y
<1>5. answer # "502" => handled[r] # <<>>
  <2>1. \A u : <<u>> # <<>>
    <3> SUFFICES ASSUME NEW u PROVE <<u>> # <<>>
      OBVIOUS
    <3>1. Len(<<u>>) = 1 /\ Len(<<>>) = 0
      OBVIOUS
    <3> QED
      BY <3>1
  <2> QED
    BY <1>1, <2>1 DEF Fine
<1>6. Fine(y, handled[r])
  BY <1>1, <1>3, <1>5 DEF Fine
<1>7. Fine(y, handled'[r]) /\ routes' \in Tables /\ handled' \in [Requesters -> Seq(Upstreams)]
      /\ \A p \in Requesters \ {r} : handled'[p] = handled[p]
  BY <1>6 DEF RequestInv
<1> QED
  BY <1>3, <1>4, <1>7, MovesKeeps

(* So does one that goes on without being sent. *)
LEMMA GoesOn ==
  ASSUME RequestInv, NEW r \in Requesters, NEW y, Moves(r, y), y \in ReqType(y), Fine(y, handled[r]),
         UNCHANGED <<routes, handled>>
  PROVE  RequestInv'
<1>1. Fine(y, handled'[r]) /\ routes' \in Tables /\ handled' \in [Requesters -> Seq(Upstreams)]
      /\ \A p \in Requesters \ {r} : handled'[p] = handled[p]
  BY DEF RequestInv
<1> QED
  BY <1>1, MovesKeeps

(* The steps of a request, one after the other. *)
LEMMA AcceptKeeps ==
  ASSUME RequestInv, NEW r \in Requesters, NEW host \in Hosts, NEW kind \in Kinds, Accept(r, host, kind)
  PROVE  RequestInv'
<1>1. handled[r] = <<>>
  BY DEF RequestInv, Fine, Accept, At
<1>2. UNCHANGED <<routes, handled>>
  BY DEF Accept
<1>3. CASE kind = "plain"
  <2> DEFINE y == [NewRequest EXCEPT !.pc = "done", !.answer = "301"]
  <2>1. Moves(r, y)
    BY <1>3 DEF Accept
  <2>2. y \in ReqType(y) /\ Fine(y, <<>>)
    BY DEF NewRequest, ReqType, Fine
  <2> QED
    BY <1>1, <1>2, <2>1, <2>2, GoesOn
<1>4. CASE kind # "plain"
  <2> DEFINE y == [NewRequest EXCEPT !.pc = "accepted", !.host = host, !.kind = kind]
  <2>1. Moves(r, y)
    BY <1>4 DEF Accept
  <2>2. y \in ReqType(y) /\ Fine(y, <<>>)
    BY DEF NewRequest, ReqType, Fine
  <2> QED
    BY <1>1, <1>2, <2>1, <2>2, GoesOn
<1> QED
  BY <1>3, <1>4

(* The upstream that is looked up is the one its request expects. *)
LEMMA LookUpKeeps ==
  ASSUME RequestInv, NEW r \in Requesters, LookUp(r)
  PROVE  RequestInv'
<1> DEFINE upstream == MatchRoute(req[r].host, routes)
           expected == Expected(req[r].host, routes)
<1>1. /\ req[r].pc = "accepted" /\ req[r].host \in Hosts /\ handled[r] = <<>> /\ req[r].answer = ""
      /\ routes \in Tables /\ req[r] \in ReqType(req[r])
  BY DEF RequestInv, Fine, LookUp, At
<1>2. expected \in SUBSET Upstreams
  BY <1>1, ExpectedType
<1>3. UNCHANGED <<routes, handled>>
  BY DEF LookUp
<1>4. CASE upstream = Nowhere
  <2> DEFINE y == [NewRequest EXCEPT !.pc = "done", !.answer = "404", !.expected = expected]
  <2>1. expected = {}
    BY <1>1, <1>4, RoutesToMostSpecific
  <2>2. Moves(r, y)
    BY <1>1, <1>4 DEF LookUp, ReqType
  <2>3. y \in ReqType(y) /\ y.pc = "done" /\ y.answer = "404" /\ y.expected = expected
    <3> HIDE DEF expected
    <3> QED
      BY <1>2 DEF NewRequest, ReqType
  <2> HIDE DEF y, expected
  <2>4. Fine(y, <<>>)
    BY <2>1, <2>3 DEF Fine
  <2> QED
    BY <1>1, <1>3, <2>2, <2>3, <2>4, GoesOn
<1>5. CASE upstream # Nowhere
  <2> DEFINE next == IF req[r].kind = "large" THEN "ready" ELSE "collecting"
             y == [[req[r] EXCEPT !.upstream = upstream, !.expected = expected] EXCEPT !.pc = next]
  <2>1. upstream \in expected /\ upstream \in Upstreams
    BY <1>1, <1>2, <1>5, RoutesToMostSpecific
  <2>2. Moves(r, y)
    BY <1>5 DEF LookUp
  <2> HIDE DEF upstream, expected
  <2>3. y \in ReqType(y) /\ y.pc \in {"ready", "collecting"} /\ y.answer = ""
        /\ y.expected = expected /\ y.upstream = upstream
    BY <1>1, <1>2, <2>1 DEF ReqType
  <2> HIDE DEF y
  <2>4. Fine(y, <<>>)
    BY <2>1, <2>3 DEF Fine
  <2> QED
    BY <1>1, <1>3, <2>2, <2>3, <2>4, GoesOn
<1> QED
  BY <1>4, <1>5

LEMMA CollectKeeps ==
  ASSUME RequestInv, NEW r \in Requesters, Collect(r)
  PROVE  RequestInv'
<1> DEFINE y == [req[r] EXCEPT !.pc = "ready"]
<1>1. req[r] \in ReqType(req[r]) /\ Fine(req[r], handled[r]) /\ req[r].pc = "collecting"
      /\ UNCHANGED <<routes, handled>>
  BY DEF RequestInv, Collect, At
<1>2. CASE Answered(r, "502")
  BY <1>1, <1>2, AnsweredKeeps
<1>3. CASE Moves(r, y)
  <2>1. /\ y \in ReqType(y) /\ y.pc = "ready" /\ y.host = req[r].host /\ y.upstream = req[r].upstream
        /\ y.expected = req[r].expected /\ y.answer = req[r].answer
    BY <1>1, StageChanges DEF Stages
  <2> HIDE DEF y
  <2>2. Fine(y, handled[r])
    BY <1>1, <2>1 DEF Fine
  <2> QED
    BY <1>1, <1>3, <2>1, <2>2, GoesOn
<1> QED
  BY <1>2, <1>3 DEF Collect

(* A request that gets a connection. *)
LEMMA ConnectedKeeps ==
  ASSUME RequestInv, NEW r \in Requesters, req[r].pc = "ready", NEW c, NEW b,
         Moves(r, [req[r] EXCEPT !.pc = "connected", !.conn = c, !.reused = b]),
         UNCHANGED <<routes, handled>>
  PROVE  RequestInv'
<1> DEFINE y == [req[r] EXCEPT !.pc = "connected", !.conn = c, !.reused = b]
<1>1. req[r] \in ReqType(req[r]) /\ Fine(req[r], handled[r])
  BY DEF RequestInv
<1>2. /\ y \in ReqType(y)
      /\ y.pc = "connected" /\ y.host = req[r].host /\ y.upstream = req[r].upstream
      /\ y.expected = req[r].expected /\ y.answer = req[r].answer
  BY <1>1 DEF ReqType
<1>3. Moves(r, y)
  OBVIOUS
<1> HIDE DEF y
<1>4. Fine(y, handled[r])
  BY <1>1, <1>2 DEF Fine
<1> QED
  BY <1>2, <1>3, <1>4, GoesOn

LEMMA ConnectsKeep ==
  ASSUME RequestInv, NEW r \in Requesters, CheckOut(r) \/ ConnectUpstream(r) \/ ConnectPooled(r)
  PROVE  RequestInv'
<1>1. CASE CheckOut(r)
  <2> DEFINE idle == pool[req[r].upstream]
  <2>1. /\ req[r].pc = "ready" /\ UNCHANGED <<routes, handled>>
        /\ Moves(r, [req[r] EXCEPT !.pc = "connected", !.conn = Last(idle), !.reused = TRUE])
    BY <1>1 DEF CheckOut, At
  <2> QED
    BY <2>1, ConnectedKeeps
<1>2. CASE ConnectUpstream(r) \/ ConnectPooled(r)
  <2>1. req[r].pc = "ready" /\ Dial(r) /\ UNCHANGED <<routes, handled>>
    BY <1>2 DEF ConnectUpstream, ConnectPooled, Dial, At
  <2>2. CASE Answered(r, "502")
    BY <2>1, <2>2, AnsweredKeeps
  <2>3. CASE Moves(r, [req[r] EXCEPT !.pc = "connected", !.conn = [via |-> agent, alive |-> TRUE], !.reused = FALSE])
    BY <2>1, <2>3, ConnectedKeeps
  <2> QED
    BY <2>1, <2>2, <2>3 DEF Dial
<1> QED
  BY <1>1, <1>2

(* A request is sent once: before, nothing was given to anyone. *)
LEMMA SendKeeps ==
  ASSUME RequestInv, NEW r \in Requesters, Send(r)
  PROVE  RequestInv'
<1>1. /\ req[r].pc = "connected" /\ routes' = routes /\ routes \in Tables
      /\ req[r] \in ReqType(req[r]) /\ Fine(req[r], handled[r])
      /\ handled \in [Requesters -> Seq(Upstreams)]
  BY DEF RequestInv, Send, At
<1>2. CASE req[r].conn.alive
  <2> DEFINE y == [req[r] EXCEPT !.pc = "sent"]
             u == req[r].upstream
  <2>1. Moves(r, y) /\ handled' = [handled EXCEPT ![r] = Append(@, u)]
    BY <1>2 DEF Send
  <2>2. handled[r] = <<>> /\ u \in req[r].expected /\ u \in Upstreams
    BY <1>1 DEF Fine, ReqType
  <2>3. /\ y \in ReqType(y)
        /\ y.pc = "sent" /\ y.upstream = u /\ y.expected = req[r].expected /\ y.answer = req[r].answer
    BY <1>1, StageChanges DEF Stages
  <2> HIDE DEF y, u
  <2>4. handled'[r] = <<u>>
    BY <1>1, <2>1, <2>2
  <2>5. handled' \in [Requesters -> Seq(Upstreams)] /\ \A p \in Requesters \ {r} : handled'[p] = handled[p]
    BY <1>1, <2>1, <2>2
  <2>6. Fine(y, handled'[r])
    BY <1>1, <2>2, <2>3, <2>4 DEF Fine
  <2> QED
    BY <1>1, <2>1, <2>3, <2>5, <2>6, MovesKeeps
<1>3. CASE ~req[r].conn.alive
  <2> DEFINE y == [req[r] EXCEPT !.pc = "ready"]
  <2>1. UNCHANGED <<routes, handled>> /\ (Moves(r, y) \/ Answered(r, "502"))
    BY <1>3 DEF Send
  <2>2. CASE Answered(r, "502")
    BY <2>1, <2>2, AnsweredKeeps
  <2>3. CASE Moves(r, y)
    <3>1. /\ y \in ReqType(y) /\ y.pc = "ready" /\ y.upstream = req[r].upstream
          /\ y.expected = req[r].expected /\ y.answer = req[r].answer
      BY <1>1, StageChanges DEF Stages
    <3> HIDE DEF y
    <3>2. Fine(y, handled[r])
      BY <1>1, <3>1 DEF Fine
    <3> QED
      BY <2>1, <2>3, <3>1, <3>2, GoesOn
  <2> QED
    BY <2>1, <2>2, <2>3
<1> QED
  BY <1>2, <1>3

LEMMA RequestStepKeeps ==
  ASSUME RequestInv, NEW r \in Requesters, RequestStep(r)
  PROVE  RequestInv'
<1>1. CASE Respond(r) \/ Break(r)
  <2>1. req[r].pc = "sent" /\ UNCHANGED <<routes, handled>> /\ \E answer \in {"200", "101", "502"} : Answered(r, answer)
    BY <1>1 DEF Respond, Break, At
  <2> QED
    BY <2>1, AnsweredKeeps
<1> QED
  BY <1>1, LookUpKeeps, CollectKeeps, ConnectsKeep, SendKeeps DEF RequestStep

(* What happens around the proxy only ends connections or changes routes.  *)
LEMMA SurroundingsKeep ==
  ASSUME RequestInv, Surroundings
  PROVE  RequestInv'
<1>1. handled' = handled /\ routes' \in Tables
  BY DEF Surroundings, Outside, TableChanges, RequestInv
<1>2. CASE UNCHANGED req
  BY <1>1, <1>2 DEF RequestInv
<1>3. ASSUME ~UNCHANGED req
      PROVE  \E lost : req' = [r \in Requesters |-> [req[r] EXCEPT !.conn.alive = @ /\ ~lost[r]]]
  <2>1. CASE \E u \in Upstreams : AppStops(u)
    <3>1. PICK u \in Upstreams : AppStops(u)
      BY <2>1
    <3>2. req' = [r \in Requesters |-> [req[r] EXCEPT !.conn.alive = @ /\ ~(req[r].upstream = u)]]
      BY <3>1 DEF AppStops, Severed
    <3> DEFINE lost == [r \in Requesters |-> req[r].upstream = u]
    <3>3. req' = [r \in Requesters |-> [req[r] EXCEPT !.conn.alive = @ /\ ~lost[r]]]
      BY <3>2
    <3> QED
      BY <3>3
  <2>2. CASE \E a \in Ports : SocksEnds(a) /\ Severed(LAMBDA u, c : c.via = a)
    <3>1. PICK a \in Ports : Severed(LAMBDA u, c : c.via = a)
      BY <2>2
    <3>2. req' = [r \in Requesters |-> [req[r] EXCEPT !.conn.alive = @ /\ ~(req[r].conn.via = a)]]
      BY <3>1 DEF Severed
    <3> DEFINE lost == [r \in Requesters |-> req[r].conn.via = a]
    <3>3. req' = [r \in Requesters |-> [req[r] EXCEPT !.conn.alive = @ /\ ~lost[r]]]
      BY <3>2
    <3> QED
      BY <3>3
  <2> QED
    BY <1>3, <2>1, <2>2 DEF Surroundings, Outside, AppStarts
<1>4. CASE ~UNCHANGED req
  <2>1. PICK lost : req' = [r \in Requesters |-> [req[r] EXCEPT !.conn.alive = @ /\ ~lost[r]]]
    BY <1>3, <1>4
  <2>2. ASSUME NEW r \in Requesters
        PROVE  req'[r] \in ReqType(req'[r]) /\ Fine(req'[r], handled'[r])
    <3>1. \E c : req'[r] = [req[r] EXCEPT !.conn = c]
      BY <2>1
    <3>2. PICK c : req'[r] = [req[r] EXCEPT !.conn = c]
      BY <3>1
    <3>3. req[r] \in ReqType(req[r]) /\ Fine(req[r], handled[r])
      BY DEF RequestInv
    <3>4. /\ req'[r] \in ReqType(req'[r])
          /\ req'[r].pc = req[r].pc /\ req'[r].host = req[r].host /\ req'[r].upstream = req[r].upstream
          /\ req'[r].expected = req[r].expected /\ req'[r].answer = req[r].answer
      BY <3>2, <3>3 DEF ReqType
    <3> QED
      BY <1>1, <3>3, <3>4 DEF Fine
  <2> QED
    BY <1>1, <2>1, <2>2 DEF RequestInv
<1> QED
  BY <1>2, <1>4

LEMMA RequestInitial == ServerInit => RequestInv
<1> SUFFICES ASSUME ServerInit PROVE RequestInv
  OBVIOUS
<1>1. /\ routes \in Tables
      /\ req = [r \in Requesters |-> NewRequest]
      /\ handled = [r \in Requesters |-> <<>>]
  BY DEF ServerInit, RequestInit
<1>2. handled \in [Requesters -> Seq(Upstreams)]
  BY <1>1
<1> QED
  BY <1>1, <1>2, NewIsFine DEF RequestInv

LEMMA RequestStepsKeep == RequestInv /\ [Next]_vars => RequestInv'
<1> SUFFICES ASSUME RequestInv, [Next]_vars PROVE RequestInv'
  OBVIOUS
<1>1. CASE UNCHANGED requestVars
  BY <1>1 DEF requestVars, RequestInv
<1>2. ASSUME NEW r \in Requesters, AcceptRequest(r) PROVE RequestInv'
  BY <1>2, AcceptKeeps DEF AcceptRequest
<1>3. CASE ProxySide
  BY <1>1, <1>2, <1>3, RequestStepKeeps, SurroundingsKeep DEF ProxySide
<1> QED
  BY <1>1, <1>3 DEF Next, Serve, BindDns, DnsSide, vars, requestVars

(* Whatever breaks, and however routes and containers change: a request    *)
(* is given to a container at most once, and to the one its route led to.  *)
THEOREM RequestsServedOnce == Spec => []ServedOnce
BY RequestInitial, RequestStepsKeep, InvServes, PTL DEF Spec

------------------------------------------------------------------------------
(* Name queries                                                            *)

Ids == {p.id : p \in Packets \cup {Unsent}}
Names == {p.name : p \in Packets \cup {Unsent}}
Answers == [from : {"nobody", "dip", "resolver"}, id : Ids, name : Names, loopback : BOOLEAN]
QueryTypeOK ==
    /\ query \in [Queries -> [pc : {"unsent", "received", "waiting", "done"}, packet : Packets \cup {Unsent},
                              port : UdpPorts \cup {0}, answer : Answers]]
    /\ datagrams \subseteq [port : UdpPorts, id : Ids, name : Names]

(* Query p has been received and has this id and this name, or only the id. *)
Came(p, id) == query[p].pc # "unsent" /\ query[p].packet.id = id
CameFor(p, id, name) == Came(p, id) /\ query[p].packet.name = name

(* The inductive invariant: only done queries have an answer, only names   *)
(* that are not dip's are asked of the resolver, and each datagram answers *)
(* a query that came.                                                      *)
AnswerOf(q) ==
    LET packet == query[q].packet
        answer == query[q].answer
    IN  answer # NoAnswer =>
          /\ answer.id = packet.id
          /\ answer.name = packet.name \/ \E p \in Queries \ {q} : Came(p, packet.id)
          /\ (answer.from = "dip" <=> MatchesTld(packet))
          /\ (answer.loopback => packet.type = "A")
QueryInv ==
    /\ QueryTypeOK
    /\ \A q \in Queries :
        /\ query[q].pc # "done" => query[q].answer = NoAnswer
        /\ query[q].pc = "waiting" => ~MatchesTld(query[q].packet)
        /\ AnswerOf(q)
    /\ \A m \in datagrams : \E p \in Queries : CameFor(p, m.id, m.name)

(* Both kinds of answers of dip's own are answers. *)
LEMMA AnswersTyped ==
  /\ NoAnswer \in Answers
  /\ \A packet \in Packets \cup {Unsent} : MakeResponse(packet) \in Answers
<1>1. NoAnswer \in Answers
  <2>1. Unsent.id = 0 /\ Unsent.name = <<>>
    BY DEF Unsent
  <2>2. 0 \in Ids /\ <<>> \in Names
    BY <2>1 DEF Ids, Names
  <2> QED
    BY <2>2 DEF NoAnswer, Answers
<1>2. ASSUME NEW packet \in Packets \cup {Unsent} PROVE MakeResponse(packet) \in Answers
  <2>1. packet.id \in Ids /\ packet.name \in Names
    BY DEF Ids, Names
  <2> QED
    BY <1>1, <2>1 DEF MakeResponse, Answers
<1> QED
  BY <1>1, <1>2

(* A query that ends keeps everything but its answer. *)
LEMMA EndsChanges ==
  ASSUME QueryTypeOK, NEW q \in Queries, NEW answer \in Answers, Ends(q, answer)
  PROVE  /\ query' \in [Queries -> [pc : {"unsent", "received", "waiting", "done"}, packet : Packets \cup {Unsent},
                                    port : UdpPorts \cup {0}, answer : Answers]]
         /\ query'[q].pc = "done" /\ query'[q].answer = answer /\ query'[q].packet = query[q].packet
         /\ \A p \in Queries \ {q} : query'[p] = query[p]
BY ZenonT(60) DEF Ends, QueryTypeOK

(* A query that does not change keeps its right answer. *)
LEMMA OthersKeep ==
  ASSUME NEW q \in Queries, AnswerOf(q), query'[q] = query[q],
         \A p \in Queries : \A id : Came(p, id) => Came(p, id)'
  PROVE  AnswerOf(q)'
BY DEF AnswerOf

(* So does the invariant, if the answer is right. *)
LEMMA EndsKeeps ==
  ASSUME QueryInv, NEW q \in Queries, query[q].pc \in {"received", "waiting"},
         NEW answer \in Answers, Ends(q, answer),
         answer # NoAnswer =>
           /\ answer.id = query[q].packet.id
           /\ answer.name = query[q].packet.name \/ \E p \in Queries \ {q} : Came(p, query[q].packet.id)
           /\ (answer.from = "dip" <=> MatchesTld(query[q].packet))
           /\ (answer.loopback => query[q].packet.type = "A"),
         datagrams' \subseteq datagrams
  PROVE  QueryInv'
<1>1. QueryTypeOK /\ QueryTypeOK'
  BY EndsChanges DEF QueryInv, QueryTypeOK
<1>2. /\ query'[q].pc = "done" /\ query'[q].answer = answer /\ query'[q].packet = query[q].packet
      /\ \A p \in Queries \ {q} : query'[p] = query[p]
  BY <1>1, EndsChanges
<1>3. \A p \in Queries : \A id : Came(p, id) => Came(p, id)'
  BY <1>2 DEF Came
<1>4. \A p \in Queries : \A id, name : CameFor(p, id, name) => CameFor(p, id, name)'
  BY <1>2, <1>3 DEF CameFor
<1>5. ASSUME NEW p \in Queries
      PROVE  /\ query'[p].pc # "done" => query'[p].answer = NoAnswer
             /\ query'[p].pc = "waiting" => ~MatchesTld(query'[p].packet)
             /\ AnswerOf(p)'
  <2>1. CASE p = q
    BY <1>2, <1>3, <2>1 DEF AnswerOf
  <2>2. CASE p # q
    <3>1. query'[p] = query[p]
      BY <1>2, <2>2
    <3>2. AnswerOf(p)'
      BY <1>3, <3>1, OthersKeep DEF QueryInv
    <3> QED
      BY <3>1, <3>2 DEF QueryInv
  <2> QED
    BY <2>1, <2>2
<1>6. \A m \in datagrams' : \E p \in Queries : CameFor(p, m.id, m.name)'
  BY <1>4 DEF QueryInv
<1> QED
  BY <1>1, <1>5, <1>6 DEF QueryInv

------------------------------------------------------------------------------
(* The steps of the server, one after the other. *)
LEMMA QueryInitial == ServerInit => QueryInv
<1> SUFFICES ASSUME DnsInit PROVE QueryInv
  BY DEF ServerInit
<1>1. QueryTypeOK
  BY AnswersTyped DEF DnsInit, QueryTypeOK
<1>2. \A q \in Queries : query[q].pc = "unsent" /\ query[q].answer = NoAnswer
  BY DEF DnsInit
<1>3. datagrams = {}
  BY DEF DnsInit
<1> QED
  BY <1>1, <1>2, <1>3 DEF QueryInv, AnswerOf

LEMMA ReceiveKeeps ==
  ASSUME QueryInv, NEW q \in Queries, NEW packet \in Packets, Receive(q, packet)
  PROVE  QueryInv'
<1> USE DEF Receive, QueryAt
<1>1. QueryTypeOK /\ QueryTypeOK'
  BY ZenonT(60) DEF QueryInv, QueryTypeOK
<1>2. /\ query[q].pc = "unsent" /\ query[q].answer = NoAnswer
      /\ query'[q].pc = "received" /\ query'[q].answer = NoAnswer
      /\ \A p \in Queries \ {q} : query'[p] = query[p]
  BY <1>1 DEF QueryInv, QueryTypeOK
<1>3. \A p \in Queries : \A id : Came(p, id) => Came(p, id)'
  BY <1>2 DEF Came
<1>4. \A p \in Queries : \A id, name : CameFor(p, id, name) => CameFor(p, id, name)'
  BY <1>2, <1>3 DEF CameFor, Came
<1>5. ASSUME NEW p \in Queries
      PROVE  /\ query'[p].pc # "done" => query'[p].answer = NoAnswer
             /\ query'[p].pc = "waiting" => ~MatchesTld(query'[p].packet)
             /\ AnswerOf(p)'
  <2>1. CASE p = q
    BY <1>2, <2>1 DEF AnswerOf
  <2>2. CASE p # q
    <3>1. query'[p] = query[p]
      BY <1>2, <2>2
    <3>2. AnswerOf(p)'
      BY <1>3, <3>1, OthersKeep DEF QueryInv
    <3> QED
      BY <3>1, <3>2 DEF QueryInv
  <2> QED
    BY <2>1, <2>2
<1>6. \A m \in datagrams' : \E p \in Queries : CameFor(p, m.id, m.name)'
  BY <1>4 DEF QueryInv
<1> QED
  BY <1>1, <1>5, <1>6 DEF QueryInv

LEMMA ForwardKeeps ==
  ASSUME QueryInv, NEW q \in Queries, Forward(q)
  PROVE  QueryInv'
<1> DEFINE packet == query[q].packet
<1>1. /\ query[q].pc = "received" /\ packet \in Packets \cup {Unsent} /\ ~MatchesTld(packet)
      /\ query[q].answer = NoAnswer
  BY DEF Forward, QueryAt, QueryInv, QueryTypeOK
<1>2. CASE packet.form = "short"
  <2>1. Ends(q, NoAnswer) /\ UNCHANGED datagrams
    BY <1>2 DEF Forward
  <2> QED
    BY <1>1, <2>1, AnswersTyped, EndsKeeps
<1>3. CASE packet.form # "short"
  <2>1. PICK port \in UdpPorts \ Bound :
           /\ query' = [query EXCEPT ![q].pc = "waiting", ![q].port = port]
           /\ datagrams' \in {datagrams, datagrams \cup {[port |-> port, id |-> packet.id, name |-> packet.name]}}
    BY <1>3 DEF Forward
  <2>2. packet.id \in Ids /\ packet.name \in Names
    BY <1>1 DEF Ids, Names
  <2>3. QueryTypeOK /\ QueryTypeOK'
    <3>1. QueryTypeOK
      BY DEF QueryInv
    <3>2. port \in UdpPorts
      OBVIOUS
    <3>3. query' \in [Queries -> [pc : {"unsent", "received", "waiting", "done"}, packet : Packets \cup {Unsent},
                                  port : UdpPorts \cup {0}, answer : Answers]]
      BY ZenonT(60), <2>1, <3>1, <3>2 DEF QueryTypeOK
    <3>4. [port |-> port, id |-> packet.id, name |-> packet.name] \in [port : UdpPorts, id : Ids, name : Names]
      BY <2>2, <3>2
    <3>5. datagrams' \subseteq [port : UdpPorts, id : Ids, name : Names]
      BY <2>1, <3>1, <3>4 DEF QueryTypeOK
    <3> QED
      BY <3>1, <3>3, <3>5 DEF QueryTypeOK
  <2>4. /\ query'[q].pc = "waiting" /\ query'[q].answer = NoAnswer /\ query'[q].packet = packet
        /\ \A p \in Queries \ {q} : query'[p] = query[p]
    BY <1>1, <2>1, <2>3 DEF QueryTypeOK
  <2>5. \A p \in Queries : \A id : Came(p, id) => Came(p, id)'
    BY <2>4 DEF Came
  <2>6. \A p \in Queries : \A id, name : CameFor(p, id, name) => CameFor(p, id, name)'
    BY <2>4, <2>5 DEF CameFor
  <2>7. ASSUME NEW p \in Queries
        PROVE  /\ query'[p].pc # "done" => query'[p].answer = NoAnswer
               /\ query'[p].pc = "waiting" => ~MatchesTld(query'[p].packet)
               /\ AnswerOf(p)'
    <3>1. CASE p = q
      BY <1>1, <2>4, <3>1 DEF AnswerOf
    <3>2. CASE p # q
      <4>1. query'[p] = query[p]
        BY <2>4, <3>2
      <4>2. AnswerOf(p)'
        BY <2>5, <4>1, OthersKeep DEF QueryInv
      <4> QED
        BY <4>1, <4>2 DEF QueryInv
    <3> QED
      BY <3>1, <3>2
  <2>8. \A m \in datagrams' : \E p \in Queries : CameFor(p, m.id, m.name)'
    <3> SUFFICES ASSUME NEW m \in datagrams' PROVE \E p \in Queries : CameFor(p, m.id, m.name)'
      OBVIOUS
    <3>1. CASE m \in datagrams
      BY <2>6, <3>1 DEF QueryInv
    <3>2. CASE m \notin datagrams
      <4>1. m.id = packet.id /\ m.name = packet.name
        BY <2>1, <3>2
      <4> QED
        BY <2>4, <4>1 DEF CameFor, Came
    <3> QED
      BY <3>1, <3>2
  <2> QED
    BY <2>3, <2>7, <2>8 DEF QueryInv
<1> QED
  BY <1>2, <1>3

LEMMA DeliverKeeps ==
  ASSUME QueryInv, NEW m \in datagrams, Deliver(m)
  PROVE  QueryInv'
<1>1. datagrams' \subseteq datagrams
  BY DEF Deliver
<1>2. CASE UNCHANGED query
  BY <1>1, <1>2 DEF QueryInv, QueryTypeOK, AnswerOf, CameFor, Came
<1>3. ASSUME NEW q \in Queries, AcceptAnswer(q, m), ~UNCHANGED query
      PROVE  QueryInv'
  <2> DEFINE answer == [NoAnswer EXCEPT !.from = "resolver", !.id = m.id, !.name = m.name]
  <2>1. Ends(q, answer) /\ m.id = query[q].packet.id /\ query[q].pc = "waiting"
    BY <1>3 DEF AcceptAnswer, QueryAt
  <2>2. answer.id = m.id /\ answer.name = m.name /\ answer.from = "resolver" /\ ~answer.loopback
    BY DEF NoAnswer
  <2>3. answer \in Answers
    BY <2>2 DEF NoAnswer, Answers, QueryInv, QueryTypeOK
  <2>4. PICK p \in Queries : CameFor(p, m.id, m.name)
    BY DEF QueryInv
  <2>5. answer.name = query[q].packet.name \/ \E x \in Queries \ {q} : Came(x, query[q].packet.id)
    BY <2>1, <2>2, <2>4 DEF CameFor
  <2>6. ~MatchesTld(query[q].packet)
    BY <2>1 DEF QueryInv
  <2> QED
    BY <1>1, <2>1, <2>2, <2>3, <2>5, <2>6, EndsKeeps
<1> QED
  BY <1>2, <1>3 DEF Deliver

LEMMA AnswerItselfKeeps ==
  ASSUME QueryInv, NEW q \in Queries, AnswerItself(q)
  PROVE  QueryInv'
<1> DEFINE packet == query[q].packet
<1>1. /\ query[q].pc = "received" /\ packet \in Packets \cup {Unsent} /\ MatchesTld(packet)
      /\ Ends(q, MakeResponse(packet)) /\ datagrams' = datagrams
  BY DEF AnswerItself, QueryAt, QueryInv, QueryTypeOK
<1>2. MakeResponse(packet) \in Answers
  BY <1>1, AnswersTyped
<1>3. MakeResponse(packet) # NoAnswer =>
        /\ MakeResponse(packet).id = packet.id /\ MakeResponse(packet).name = packet.name
        /\ MakeResponse(packet).from = "dip"
        /\ MakeResponse(packet).loopback => packet.type = "A"
  BY DEF MakeResponse
<1> QED
  BY <1>1, <1>2, <1>3, EndsKeeps

LEMMA QueryStep == QueryInv /\ [Next]_vars => QueryInv'
<1> SUFFICES ASSUME QueryInv, [Next]_vars PROVE QueryInv'
  OBVIOUS
<1>1. CASE UNCHANGED dnsVars
  BY <1>1 DEF dnsVars, QueryInv, QueryTypeOK, AnswerOf, CameFor, Came
<1>2. CASE DnsSide
  <2>1. ASSUME NEW q \in Queries, ReceiveQuery(q) PROVE QueryInv'
    BY <2>1, ReceiveKeeps DEF ReceiveQuery
  <2>2. ASSUME NEW q \in Queries, Deadline(q) PROVE QueryInv'
    BY <2>2, AnswersTyped, EndsKeeps DEF Deadline, QueryAt
  <2>3. ASSUME NEW q \in Queries, AnswerItself(q) PROVE QueryInv'
    BY <2>3, AnswerItselfKeeps
  <2>4. ASSUME NEW q \in Queries, Forward(q) PROVE QueryInv'
    BY <2>4, ForwardKeeps
  <2>5. ASSUME NEW m \in datagrams, Deliver(m) PROVE QueryInv'
    BY <2>5, DeliverKeeps
  <2> QED
    BY <1>2, <2>1, <2>2, <2>3, <2>4, <2>5 DEF DnsSide, DnsStep
<1> QED
  BY <1>1, <1>2 DEF Next, Serve, BindDns, ProxySide, vars

(* Whatever the network does to the datagrams, and however the ports are   *)
(* used again, the answers of the DNS server match their queries.          *)
THEOREM AnswersAreRight == Spec => []AnswersMatch
<1>1. QueryInv => AnswersMatch
  BY DEF QueryInv, AnswerOf, Came, AnswersMatch
<1> QED
  BY <1>1, QueryInitial, QueryStep, PTL DEF Spec
=============================================================================
