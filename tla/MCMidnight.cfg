SPECIFICATION Spec
CONSTANTS
  jobA = jobA
  jobB = jobB
  jobC = jobC
  watched = watched
  NoJob = NoJob
  NoPid = NoPid
  Jobs = {jobA, jobB}
  Pids = {p1, p2}
  Configs = {"one"}
  Names <- MidnightNames
  Cfg <- MidnightCfg
  Paths = {}
  Messages = {}
  Signals = {}
  FailingJobs = {}
  StartUnix = 1
  MaxTime = 5
  ClockSteps = {}
PROPERTIES
  OncePerDay
