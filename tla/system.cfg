SPECIFICATION SystemSpec
CONSTANTS
  c1 = c1
  c2 = c2
  d1 = d1
  d2 = d2
  Containers = {c1, c2}
  Domains = {d1, d2}
  Addrs = {a1, a2}
  Nets <- OneNet
  Hosts <- OwnDomains
  MaxStarts = 2
  MaxPipe = 1
  MaxOutages = 0
  Faults = {{}}
  Projects <- OwnProjects
  Ops = {"sync", "unsync"}
  Clis = {p1}
  Pids = {i1, i2}
  NoPid = NoPid
  Serial = TRUE
  Breakable = {"save"}
INVARIANTS SystemTypeOK SyncedRouted SystemProvenance SystemUnambiguous
PROPERTY CommandsKeepRegistry
SYMMETRY SystemSymmetry
CHECK_DEADLOCK FALSE
