SPECIFICATION CertSpec
CONSTANTS
  Procs = {p1, p2}
  Wants = {{n1}, {n1, n2}}
  Localhost = localhost
  MaxKeys = 3
  Overlap = TRUE
  Breakable = {}
INVARIANT NeverPartial
CHECK_DEADLOCK FALSE
