SPECIFICATION FairSpec
CONSTANTS
  c1 = c1
  c2 = c2
  d1 = d1
  d2 = d2
  d3 = d3
  Containers = {c1, c2}
  Domains = {d1, d2, d3}
  Addrs = {a1, a2}
  Nets <- OneNet
  Hosts <- SharedDomain
  MaxStarts = 3
  MaxPipe = 2
  MaxOutages = 1
  Faults = {{}, {"signals"}, {"overtaken", "unwatched"}}
INVARIANTS TypeOK StoppedUnrouted RunningRouted RouteProvenance OneRoutePerDomain
PROPERTIES LiveRouteStays EventuallyRouted EventuallyUnrouted
CHECK_DEADLOCK FALSE
