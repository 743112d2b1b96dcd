SPECIFICATION Spec
CONSTANTS
  Daemons = {d1, d2}
  Jobs = {jobA}
  NoPid = NoPid
  Signals = {"TERM"}
  MaxSenders = 1
SYMMETRY DaemonSymmetry
INVARIANTS
  RestartIsSafe
CHECK_DEADLOCK FALSE
