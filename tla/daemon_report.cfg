SPECIFICATION ControlSpec
CONSTANTS
  Pids = {p1, p2}
  NoPid = none
  Clis = {x}
  Faults = {{"ports"}}
INVARIANT FailureNoticed
