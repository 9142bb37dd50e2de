SPECIFICATION FairControlSpec
CONSTANTS
  Pids = {p1, p2}
  NoPid = none
  Clis = {x, y}
  Faults = {{"crash", "reuse", "timeout"}, {"reuse"}, {"overlap"}, {"ports"}, {"interrupt", "timeout"}}
INVARIANTS ControlTypeOK DaemonTracked
PROPERTIES StopStops StartedServes OneDaemonLeft
