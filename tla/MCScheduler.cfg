SPECIFICATION Spec
CONSTANTS
  jobA = jobA
  jobB = jobB
  jobC = jobC
  watched = watched
  NoJob = NoJob
  NoPid = NoPid
  Jobs = {jobA, jobB}
  Pids = {p1, p2, p3}
  Configs = {"both", "only_b", "after_a"}
  Names <- CoreNames
  Cfg <- CoreCfg
  Paths = {watched}
  Messages = {}
  Signals = {"HUP", "USR2", "TERM"}
  FailingJobs = {jobA}
  StartUnix = 1
  MaxTime = 3
  ClockSteps = {}
SYMMETRY PidSymmetry
INVARIANTS
  TypeOK
  EveryJobProcessKnown
  Bookkeeping
  NoStuckEntry
  MutualExclusion
PROPERTIES
  ImplementsExclusion
  SignalsHitOwnJob
  DrainIsFinal
  DependenciesHeld
