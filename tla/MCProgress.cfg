SPECIFICATION TimedSpec
CONSTANTS
  jobA = jobA
  jobB = jobB
  jobC = jobC
  watched = watched
  NoJob = NoJob
  NoPid = NoPid
  Jobs = {jobA, jobB, jobC}
  Pids = {p1, p2}
  Configs = {"first", "second"}
  Names <- ChangeNames
  Cfg <- ChangeCfg
  Paths = {}
  Messages <- Pings
  Signals = {"HUP"}
  FailingJobs = {}
  StartUnix = 1
  MaxTime = 3
  ClockSteps = {3}
INVARIANTS
  CyclesNeverStart
PROPERTIES
  IntervalRespected
  EndedJobsAreReaped
  SignalsAreServed
  EveryJobStarts
