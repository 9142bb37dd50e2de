SPECIFICATION ConfigSpec
CONSTANTS
  d1 = d1
  d2 = d2
  u1 = u1
  Domains = {d1, d2}
  Upstreams = {u1}
  Sans = {d1, d2}
  San <- OwnSan
  Requests <- SmallRequests
  Clis = {p1, p2}
  Pids = {i1, i2}
  NoPid = NoPid
  Serial = FALSE
  Breakable = {"cert", "record", "save", "write"}
INVARIANTS CertificateCurrent DaemonCaughtUp
PROPERTY OnlyRestartStopsDaemon
SYMMETRY ProcessSymmetry
