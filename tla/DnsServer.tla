----------------------------- MODULE DnsServer ------------------------------
(***************************************************************************)
(* The DNS server of the proxy (src/dns/server.rs): names under its        *)
(* top-level domains are this host, the others are asked of a resolver,    *)
(* over a socket of the query's own, for three seconds.  Datagrams get     *)
(* lost, late or doubled, and a port may have been an earlier query's.     *)
(***************************************************************************)
EXTENDS Naturals, Sequences, FiniteSets, SequencesExt

CONSTANTS
    Queries,       \* queries
    Packets,       \* what they say: [id, name, type, form]
    LowerCase,     \* LowerCase[l]: label l in lower case
    Tlds,          \* the top-level domains, sequences of labels
    UdpPorts       \* ports a socket may be bound to

(* Forms: "whole"; "short", no header; "cut", the first name cannot be     *)
(* read; "pointer", it is a pointer; "more", a second question is cut off. *)

VARIABLES
    query,         \* query[q]: [pc, packet, port, answer]
    datagrams      \* what the resolver has sent and the network has: [port, id, name]

dnsVars == <<query, datagrams>>

Unsent == [id |-> 0, name |-> <<>>, type |-> "", form |-> "short"]
NoAnswer == [from |-> "nobody", id |-> 0, name |-> <<>>, loopback |-> FALSE]
QueryAt(q, pc) == query[q].pc = pc
Ends(q, answer) == query' = [query EXCEPT ![q].pc = "done", ![q].answer = answer]

(* parse_first_question: a pointer ends the name. *)
Parsed(packet) == packet.form \notin {"short", "cut"}
ReadName(packet) == IF packet.form = "pointer" THEN <<>> ELSE packet.name
QuestionsEnd(packet) == packet.form \notin {"short", "cut", "more"}
MatchesTld(packet) ==
    Parsed(packet) /\ LET lower == [i \in DOMAIN ReadName(packet) |-> LowerCase[ReadName(packet)[i]]]
                      IN  \E tld \in Tlds : IsSuffix(tld, lower)
(* make_response: one address for type A, none for the others. *)
MakeResponse(packet) ==
    IF QuestionsEnd(packet)
    THEN [from |-> "dip", id |-> packet.id, name |-> packet.name, loopback |-> packet.type = "A"]
    ELSE NoAnswer

Receive(q, packet) ==
    /\ QueryAt(q, "unsent")
    /\ query' = [query EXCEPT ![q].pc = "received", ![q].packet = packet]
    /\ UNCHANGED datagrams
AnswerItself(q) ==
    /\ QueryAt(q, "received") /\ MatchesTld(query[q].packet)
    /\ Ends(q, MakeResponse(query[q].packet))
    /\ UNCHANGED datagrams
(* forward: a socket on a free port; the query, or its answer, may be lost. *)
Bound == {query[p].port : p \in {x \in Queries : query[x].pc = "waiting"}}
Forward(q) ==
    LET packet == query[q].packet
    IN  /\ QueryAt(q, "received") /\ ~MatchesTld(packet)
        /\ IF packet.form = "short" THEN Ends(q, NoAnswer) /\ UNCHANGED datagrams
           ELSE \E port \in UdpPorts \ Bound :
                    /\ query' = [query EXCEPT ![q].pc = "waiting", ![q].port = port]
                    /\ datagrams' \in {datagrams, datagrams \cup {[port |-> port, id |-> packet.id, name |-> packet.name]}}

AcceptAny(q, m) ==     (* Mutation: the first datagram is taken for the answer *)
    /\ QueryAt(q, "waiting") /\ query[q].port = m.port
    /\ Ends(q, [NoAnswer EXCEPT !.from = "resolver", !.id = m.id, !.name = m.name])

(* A datagram with the id of the query is its answer, others are dropped. *)
AcceptAnswer(q, m) ==
    /\ QueryAt(q, "waiting") /\ query[q].port = m.port
    /\ IF m.id = query[q].packet.id
       THEN Ends(q, [NoAnswer EXCEPT !.from = "resolver", !.id = m.id, !.name = m.name])
       ELSE UNCHANGED query
(* A datagram arrives, and perhaps once more; a closed port drops it. *)
Deliver(m) ==
    /\ \/ \E q \in Queries : AcceptAnswer(q, m)
       \/ m.port \notin Bound /\ UNCHANGED query
    /\ datagrams' \in {datagrams, datagrams \ {m}}
Deadline(q) ==
    /\ QueryAt(q, "waiting")
    /\ Ends(q, NoAnswer)
    /\ UNCHANGED datagrams

DnsStep ==
    \/ \E q \in Queries : AnswerItself(q) \/ Forward(q) \/ Deadline(q)
    \/ \E m \in datagrams : Deliver(m)
DnsInit ==
    /\ query = [q \in Queries |-> [pc |-> "unsent", packet |-> Unsent, port |-> 0, answer |-> NoAnswer]]
    /\ datagrams = {}

------------------------------------------------------------------------------
(* An answer has the id of its query and is about its name, unless another *)
(* query had the same id (the question of an answer is not compared).      *)
(* Names of dip are never asked of the resolver, and this host is never    *)
(* the answer for another name.                                            *)
AnswersMatch ==
    \A q \in Queries :
        LET packet == query[q].packet
            answer == query[q].answer
        IN  answer # NoAnswer =>
              /\ answer.id = packet.id
              /\ answer.name = packet.name \/ \E p \in Queries \ {q} : query[p].packet.id = packet.id
              /\ (answer.from = "dip" <=> MatchesTld(packet))
              /\ (answer.loopback => packet.type = "A")
=============================================================================
