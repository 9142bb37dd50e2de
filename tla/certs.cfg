SPECIFICATION CertSpec
CONSTANTS
  Procs = {p1}
  Wants = {{}, {n1}, {n1, n2}}
  Localhost = localhost
  MaxKeys = 6
  Overlap = FALSE
  Breakable = {"ca.key", "ca.pem", "server.key", "server.pem", "server.sans"}
INVARIANTS CertTypeOK NeverPartial ChainTrusted
PROPERTY EnsureLeavesUsable
CHECK_DEADLOCK FALSE
