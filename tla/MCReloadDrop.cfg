SPECIFICATION Spec
CONSTANTS
  jobA = jobA
  jobB = jobB
  jobC = jobC
  watched = watched
  NoJob = NoJob
  NoPid = NoPid
  Jobs = {jobA, jobB}
  Pids = {p1, p2}
  Configs = {"both", "only_b"}
  Names <- DropNames
  Cfg <- DropCfg
  Paths = {}
  Messages = {}
  Signals = {"HUP"}
  FailingJobs = {}
  StartUnix = 1
  MaxTime = 4
  ClockSteps = {}
PROPERTIES
  IntervalRespected
