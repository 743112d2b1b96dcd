SPECIFICATION Spec
CONSTANTS
  jobA = jobA
  jobB = jobB
  NoNode = NoNode
  NoRoot = NoRoot
  Jobs = {jobA}
  Configs = {"setting"}
  Watch <- OneWatch
  Nodes <- OneNode
  Dir <- NoDirs
  Real <- OneReal
  Late = {}
  Replaceable <- OneNode
  Backends = {"given"}
  MaxChanges = 2
INVARIANTS
  NoChangeMissed
CHECK_DEADLOCK FALSE
