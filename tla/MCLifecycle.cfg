SPECIFICATION Spec
CONSTANTS
  Daemons = {d1, d2, d3}
  Jobs = {jobA}
  NoPid = NoPid
  Signals = {"HUP", "TERM"}
  MaxSenders = 1
SYMMETRY DaemonSymmetry
INVARIANTS
  TypeOK
  NoJobTwice
  PidFileNamesServer
CHECK_DEADLOCK FALSE
