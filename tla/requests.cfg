\* Requests and name queries, while containers, routes and the agent change.
SPECIFICATION MCSpec
CONSTANTS
    Ports = {"p1", "p2"}
    Forced = "p1"
    MaxChanges = 2
    MaxTimeouts = 1
    Requesters = {"r1", "r2"}
    Hosts <- MCHosts
    Kinds = {"plain", "small", "large", "upgrade"}
    Upstreams = {"a", "b"}
    Tables <- MCTables
    Queries = {"q1", "q2", "q3"}
    Packets <- MCPackets
    LowerCase <- MCLowerCase
    Tlds <- MCTlds
    UdpPorts = {1, 2}
INVARIANTS ServedOnce AnswersMatch
PROPERTIES DialerFollows
CHECK_DEADLOCK FALSE
