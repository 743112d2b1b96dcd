SPECIFICATION KSpec
CONSTANTS
  jobA = jobA
  jobB = jobB
  NoJob = NoJob
  NoPid = NoPid
  NoNote = NoNote
  NoLetter = NoLetter
  NoText = NoText
  Jobs = {jobA, jobB}
  Pids = {p1, p2}
  Configs = {"one"}
  Names <- ChainNames
  Cfg <- ChainCfg
  Paths = {}
  Messages <- ChainMessages
  Notes <- ChainNotes
  Signals = {}
  FailingJobs = {}
  StartUnix = 1
  MaxTime = 3
  ClockSteps = {2}
  Capacity = 20
  Attempts = 2
  MaxDups = 0
  MaxSame = 2
  MaxSets = 1
SYMMETRY PidSymmetry
INVARIANTS
  NoStuckEntry
  LeastRecentFirst
  OneRunPerEvent
PROPERTIES
  IntervalRespected
CHECK_DEADLOCK FALSE
