SPECIFICATION Spec
CONSTANTS
  jobA = jobA
  jobB = jobB
  NoNode = NoNode
  NoRoot = NoRoot
  Jobs = {jobA, jobB}
  Configs = {"uploads", "setting"}
  Watch <- TwoWatches
  Nodes <- FourNodes
  Dir <- SpoolDir
  Real <- LinkReal
  Late <- LateNodes
  Replaceable <- Uploads
  Backends = {"given", "real"}
  MaxChanges = 4
INVARIANTS
  TypeOK
  NoChangeMissed
  PathNamesFile
CHECK_DEADLOCK FALSE
