------------------------------ MODULE Scheduler ------------------------------
(***************************************************************************)
(* The kubjas daemon: the event loop of src/main.rs, start_jobs() of       *)
(* src/scheduler.rs and the processes they fork and reap.                  *)
(*                                                                         *)
(* The daemon is single-threaded and is modelled with a program counter,   *)
(* one phase of the loop (or one iteration of an inner loop) per step;     *)
(* between any two steps children exec and exit, signals are caught, the   *)
(* clock moves, and files change or datagrams arrive.                      *)
(***************************************************************************)
EXTENDS Naturals, Sequences, FiniteSets

CONSTANTS
  Jobs,       \* the job names any configuration may mention
  Pids,       \* process ids; the kernel reuses one once it has been reaped
  NoJob,      \* not a job: the owner of a notify sender, an absent map entry
  NoPid,      \* not a pid: an absent entry of the running map
  Configs,    \* names of the configurations load_config() may return
  Names,      \* Names[c]: the jobs configuration c has
  Cfg,        \* Cfg[c][j]: the settings of job j under configuration c
  Paths,      \* changed files read_events() may report
  Messages,   \* datagrams recv_notify() may accept: [to, type]
  FailingJobs,\* jobs whose exec_job() may fail: no fork, no such user or group
  Signals,    \* signals the operator may send: a subset of HUP, USR2, TERM
  StartUnix,  \* the clock when the daemon starts
  MaxTime,    \* bound on the clock
  ClockSteps  \* values the wall clock may be set to by hand or by NTP

MessageTypes == {"start-message", "success-message", "failure-message", "ping"}
IntervalKinds == {"disabled", "seconds", "onchange", "start-message",
                  "success-message", "failure-message"}
Interval == [kind : IntervalKinds, lo : Nat, hi : Nat]

(* A job of the configuration. file is the rank of the file it comes from. *)
(* The period is the set of instants at which in_period() is true; watch   *)
(* the set of paths in_watch() accepts; starts, successes and failures     *)
(* count the targets of notify-start and so on.                            *)
JobCfg == [file : Nat, interval : Interval, period : SUBSET Nat,
           conflicts : SUBSET Jobs, depends : SUBSET Jobs, watch : SUBSET Paths,
           starts : Nat, successes : Nat, failures : Nat, signal : BOOLEAN]

(* The vectors load_config() may build: no name twice, for it keeps the    *)
(* first section of each name; the files in order, the sections of a file  *)
(* in any, for the INI parser keeps them in a hash map.                    *)
LoadOrders(c) ==
  {s \in [1 .. Cardinality(Names[c]) -> Names[c]] :
     \A a, b \in DOMAIN s : a < b => /\ s[a] # s[b]
                                     /\ Cfg[c][s[a]].file <= Cfg[c][s[b]].file}

(* Pids and names are opaque.                                              *)
ASSUME ConstantsAssumption ==
  /\ NoJob \notin Jobs
  /\ NoPid \notin Pids
  /\ IsFiniteSet(Jobs)
  /\ Names \in [Configs -> SUBSET Jobs]
  /\ \A c \in Configs, j \in Jobs : Cfg[c][j] \in JobCfg
  /\ \A m \in Messages : m.type \in MessageTypes
  /\ FailingJobs \subseteq Jobs
  /\ Signals \subseteq {"HUP", "USR2", "TERM"}
  /\ StartUnix \in Nat \ {0}
  /\ MaxTime \in Nat
  /\ ClockSteps \subseteq Nat \ {0}

VARIABLES
  jobs,       \* names in the order of the jobs vector
  conf,       \* the configuration loaded last
  execTime,   \* job -> exec_time_unix, 0 when never run
  running,    \* job -> pid, NoPid when absent
  pidToJob,   \* pid -> job, NoJob when absent
  noNewJobs,  \* scheduling switched off
  lastTick,   \* last second handled by the timer
  pc,         \* phase of the event loop
  scan,       \* locals of the start_jobs() call in progress
  exited,     \* children reaped and not yet handled
  flags,      \* signal flags set by the handlers
  proc,       \* pid -> the process behind it
  clock,      \* seconds since the epoch
  ran         \* history: job -> the clock it read and the clock at its last start

daemonVars == <<jobs, conf, execTime, running, pidToJob, noNewJobs, lastTick,
                pc, scan, exited>>
vars == <<jobs, conf, execTime, running, pidToJob, noNewJobs, lastTick,
          pc, scan, exited, flags, proc, clock, ran>>

-----------------------------------------------------------------------------
Triggers == [kind : {"time"}] \cup [kind : {"watch"}, path : Paths]
              \cup [kind : {"notify"}, msg : Messages]

Phases == {"chld", "wait", "handle", "hup", "term", "usr2", "watch", "udp",
           "tick", "timer", "scan", "exit"}

TimeTrigger == [kind |-> "time"]
NoneStarted == [p \in Pids |-> NoJob]
Idle == [trigger |-> TimeTrigger, now |-> 0, i |-> 1, started |-> NoneStarted]

(* A process: free, forked (still running the daemon's code), exec         *)
(* (running its program) or zombie. avoid is the conflicts list its job    *)
(* was started under, sig what became of a signal sent to it.              *)
Proc == [st : {"free", "forked", "exec", "zombie"}, job : Jobs \cup {NoJob},
         avoid : SUBSET Jobs, ok : BOOLEAN, sig : {"none", "caught", "lost"}]

Free == [st |-> "free", job |-> NoJob, avoid |-> {}, ok |-> TRUE, sig |-> "none"]
Forked(j, avoid) ==
  [st |-> "forked", job |-> j, avoid |-> avoid, ok |-> TRUE, sig |-> "none"]
Sender == Forked(NoJob, {})

FreePids == {p \in Pids : proc[p].st = "free"}
Live(p) == proc[p].st \in {"forked", "exec"}
LiveJobs == {p \in Pids : Live(p) /\ proc[p].job # NoJob}

Loaded == {jobs[i] : i \in DOMAIN jobs}

-----------------------------------------------------------------------------
Init ==
  /\ conf \in Configs
  /\ jobs \in LoadOrders(conf)
  /\ execTime = [j \in Jobs |-> 0]
  /\ running = [j \in Jobs |-> NoPid]
  /\ pidToJob = [p \in Pids |-> NoJob]
  /\ noNewJobs = FALSE
  /\ lastTick = StartUnix - 1
  /\ pc = "chld"
  /\ scan = Idle
  /\ exited = <<>>
  /\ flags = {}
  /\ proc = [p \in Pids |-> Free]
  /\ clock = StartUnix
  /\ ran = [j \in Jobs |-> [now |-> StartUnix, at |-> 0]]

-----------------------------------------------------------------------------
(* start_jobs(): which jobs a trigger makes eligible.                      *)

SaturatingSub(a, b) == IF a >= b THEN a - b ELSE 0

(* Faulty variant: looks conflicting jobs up in the configuration, which   *)
(* may have lost one that still runs.                                      *)
InConflictsOfLoaded(c) == \E n \in c.conflicts \cap Loaded : running[n] # NoPid

InConflicts(c) == \E n \in c.conflicts : running[n] # NoPid

(* Faulty variant: one of several jobs depended on is enough.              *)
AllMissing(c) == c.depends # {} /\ \A n \in c.depends : running[n] = NoPid
NoDependency(c) == \E n \in c.depends : running[n] = NoPid

(* A range interval is drawn anew on every evaluation.                     *)
Draws(iv) == IF iv.hi > iv.lo THEN iv.lo .. iv.hi ELSE {iv.lo}

TriggerMatches(t, j, c) ==
  \/ t.kind = "watch" /\ c.interval.kind = "onchange" /\ t.path \in c.watch
  \/ t.kind = "notify" /\ t.msg.to = j /\ t.msg.type # "ping"
                       /\ c.interval.kind = t.msg.type
  \/ t.kind = "time" /\ c.interval.kind = "seconds"

(* Has the interval passed since the last start, and since the daemon's?   *)
(* Faulty variant: the first difference wraps when the clock was set back. *)
WrappingElapsed(j, now, secs) ==
  /\ execTime[j] = 0 \/ now < execTime[j] \/ now - execTime[j] >= secs
  /\ SaturatingSub(now, StartUnix) >= secs
IntervalElapsed(j, now, secs) ==
  /\ execTime[j] = 0 \/ SaturatingSub(now, execTime[j]) >= secs
  /\ SaturatingSub(now, StartUnix) >= secs

(* The checks a job passes before it is signalled or started. now_unix was *)
(* read when start_jobs() began; the period is checked against the clock   *)
(* as it is now.                                                           *)
Passes(j, secs) ==
  LET c == Cfg[conf][j] IN
    /\ clock \in c.period
    /\ ~InConflicts(c)
    /\ ~NoDependency(c)
    /\ TriggerMatches(scan.trigger, j, c)
    /\ scan.trigger.kind = "time" => IntervalElapsed(j, scan.now, secs)

(* Where the loop goes on after start_jobs() returns.                      *)
After(t) == CASE t.kind = "watch" -> "watch"
              [] t.kind = "notify" -> "udp"
              [] OTHER -> "chld"

(* Faulty variant: the switch holds back timer starts only.                *)
TimerSuspended(t) == noNewJobs /\ t.kind = "time"
Suspended(t) == noNewJobs

StartJobs(t) ==
  IF Suspended(t)
  THEN pc' = After(t) /\ UNCHANGED scan
  ELSE /\ pc' = "scan"
       /\ scan' = [trigger |-> t, now |-> clock, i |-> 1, started |-> NoneStarted]

(* send_notify() forks one sender per target; a failing fork is logged and *)
(* skipped.                                                                *)
SenderSets(pids, targets) == {S \in SUBSET pids : Cardinality(S) <= targets}

(* Faulty variant: does not ask whether the job already runs.              *)
NeverRunning(j) == FALSE
AlreadyRunning(j) == running[j] # NoPid

Scanning == pc = "scan" /\ scan.i <= Len(jobs)
Current == jobs[scan.i]
NextJob == scan' = [scan EXCEPT !.i = @ + 1]

ScanSkip ==
  /\ Scanning
  /\ \E secs \in Draws(Cfg[conf][Current].interval) : ~Passes(Current, secs)
  /\ NextJob
  /\ UNCHANGED <<jobs, conf, execTime, running, pidToJob, noNewJobs, lastTick,
                 pc, exited, flags, proc, clock, ran>>

(* Faulty variant: signals the process group, to which children belong     *)
(* until they call setsid().                                               *)
KillGroup(p) ==
  [q \in Pids |-> IF proc[q].st = "forked" THEN [proc[q] EXCEPT !.sig = "lost"]
                  ELSE IF q = p /\ proc[q].st = "exec"
                  THEN [proc[q] EXCEPT !.sig = "caught"] ELSE proc[q]]

(* kill(2) on a process: a child that has not called execvp() yet still    *)
(* has the daemon's handlers, which set a flag in its own memory.          *)
Kill(p) ==
  CASE proc[p].st = "forked" -> [proc EXCEPT ![p].sig = "lost"]
    [] proc[p].st = "exec" -> [proc EXCEPT ![p].sig = "caught"]
    [] OTHER -> proc

ScanRunning ==
  /\ Scanning
  /\ \E secs \in Draws(Cfg[conf][Current].interval) : Passes(Current, secs)
  /\ AlreadyRunning(Current)
  /\ proc' = IF Cfg[conf][Current].signal /\ scan.trigger.kind # "time"
             THEN Kill(running[Current]) ELSE proc
  /\ NextJob
  /\ UNCHANGED <<jobs, conf, execTime, running, pidToJob, noNewJobs, lastTick,
                 pc, exited, flags, clock, ran>>

ExecJob(p, S) ==
  LET j == Current
      c == Cfg[conf][j]
  IN
  /\ Scanning
  /\ \E secs \in Draws(c.interval) : Passes(j, secs)
  /\ ~AlreadyRunning(j)
  /\ p \in FreePids
  /\ S \in SenderSets(FreePids \ {p}, c.starts)
  /\ proc' = [q \in Pids |-> IF q = p THEN Forked(j, c.conflicts)
                             ELSE IF q \in S THEN Sender ELSE proc[q]]
  /\ running' = [running EXCEPT ![j] = p]
  /\ execTime' = [execTime EXCEPT ![j] = scan.now]
  /\ scan' = [scan EXCEPT !.i = @ + 1, !.started[p] = j]
  /\ ran' = [ran EXCEPT ![j] = [now |-> scan.now, at |-> clock]]
  /\ UNCHANGED <<jobs, conf, pidToJob, noNewJobs, lastTick, pc, exited, flags,
                 clock>>

(* exec_job() returns None; the execution time stays and the next trigger  *)
(* tries again.                                                            *)
ExecFails ==
  /\ Scanning
  /\ Current \in FailingJobs \/ FreePids = {}
  /\ \E secs \in Draws(Cfg[conf][Current].interval) : Passes(Current, secs)
  /\ ~AlreadyRunning(Current)
  /\ NextJob
  /\ UNCHANGED <<jobs, conf, execTime, running, pidToJob, noNewJobs, lastTick,
                 pc, exited, flags, proc, clock, ran>>

(* Faulty variant: moves the jobs just started to the end, which is the    *)
(* same only while the clock never goes back.                              *)
StartedLast(s, key) ==
  LET isNew(j) == \E p \in Pids : scan.started[p] = j
      isOld(j) == ~isNew(j)
  IN {SelectSeq(s, isOld) \o SelectSeq(s, isNew)}

(* sort_by_key() is stable: equal keys keep their order. The set has one   *)
(* element.                                                                *)
StableSorts(s, key) ==
  {[k \in DOMAIN s |-> s[m[k]]] :
     m \in {m \in [DOMAIN s -> DOMAIN s] :
              \A a, b \in DOMAIN s : a < b =>
                \/ key[s[m[a]]] < key[s[m[b]]]
                \/ key[s[m[a]]] = key[s[m[b]]] /\ m[a] < m[b]}}

(* The caller inserts what start_jobs() returns into pid_to_job. Faulty    *)
(* variant: it drops it.                                                   *)
NothingRecorded == pidToJob
Recorded == [p \in Pids |-> IF scan.started[p] # NoJob THEN scan.started[p]
                                                       ELSE pidToJob[p]]

EndScan ==
  /\ pc = "scan"
  /\ scan.i > Len(jobs)
  /\ IF scan.started = NoneStarted THEN UNCHANGED jobs
                                   ELSE jobs' \in StableSorts(jobs, execTime)
  /\ pidToJob' = Recorded
  /\ pc' = After(scan.trigger)
  /\ scan' = Idle
  /\ UNCHANGED <<conf, execTime, running, noNewJobs, lastTick, exited, flags,
                 proc, clock, ran>>

-----------------------------------------------------------------------------
(* The event loop.                                                         *)

(* swap(false) on a flag. Faulty variant: load().                          *)
LoadFlag(s) == UNCHANGED flags
SwapFlag(s) == flags' = flags \ {s}

TakeChld ==
  /\ pc = "chld"
  /\ pc' = IF "CHLD" \in flags THEN "wait" ELSE "hup"
  /\ SwapFlag("CHLD")
  /\ UNCHANGED <<jobs, conf, execTime, running, pidToJob, noNewJobs, lastTick,
                 scan, exited, proc, clock, ran>>

(* Faulty variant: one child for each SIGCHLD.                             *)
OneReaped == exited # <<>> \/ \A p \in Pids : proc[p].st # "zombie"
AllReaped == \A p \in Pids : proc[p].st # "zombie"

(* One waitpid(-1, WNOHANG): any zombie, or none left.                     *)
WaitPid ==
  /\ pc = "wait"
  /\ \/ \E p \in Pids :
          /\ proc[p].st = "zombie"
          /\ exited' = Append(exited, [pid |-> p, ok |-> proc[p].ok])
          /\ proc' = [proc EXCEPT ![p] = Free]
          /\ UNCHANGED pc
     \/ /\ AllReaped
        /\ pc' = "handle"
        /\ UNCHANGED <<exited, proc>>
  /\ UNCHANGED <<jobs, conf, execTime, running, pidToJob, noNewJobs, lastTick,
                 scan, flags, clock, ran>>

(* Removal of the entries of a reaped child. Faulty variants: pid_to_job   *)
(* is read and not removed from; the job is freed only on success.         *)
PidKept(child) == pidToJob
PidForgotten(child) == [pidToJob EXCEPT ![child.pid] = NoJob]

FreedOnSuccess(child) ==
  [n \in Jobs |-> IF child.ok /\ n = pidToJob[child.pid] THEN NoPid ELSE running[n]]
JobFreed(child) ==
  [n \in Jobs |-> IF n = pidToJob[child.pid] THEN NoPid ELSE running[n]]

(* One reaped child: its outcome is notified to the targets its job has    *)
(* now, if the configuration still has the job, and the job is free again. *)
(* A child that is no job's, a notify sender, is only logged.              *)
HandleExit(S) ==
  /\ pc = "handle"
  /\ exited # <<>>
  /\ LET child == Head(exited)
         j == pidToJob[child.pid]
         targets == IF j \notin Loaded THEN 0
                    ELSE IF child.ok THEN Cfg[conf][j].successes
                    ELSE Cfg[conf][j].failures
     IN /\ S \in SenderSets(FreePids, targets)
        /\ proc' = [q \in Pids |-> IF q \in S THEN Sender ELSE proc[q]]
        /\ pidToJob' = PidForgotten(child)
        /\ running' = JobFreed(child)
  /\ exited' = Tail(exited)
  /\ UNCHANGED <<jobs, conf, execTime, noNewJobs, lastTick, pc, scan, flags,
                 clock, ran>>

HandleDone ==
  /\ pc = "handle"
  /\ exited = <<>>
  /\ pc' = "hup"
  /\ UNCHANGED <<jobs, conf, execTime, running, pidToJob, noNewJobs, lastTick,
                 scan, exited, flags, proc, clock, ran>>

(* load_config() keeps the execution times of the names it finds in the    *)
(* vector it replaces. Faulty variants: the vector has no other names; all *)
(* times start anew.                                                       *)
TimesOfLoaded(c) == [j \in Names[c] |-> IF j \in Loaded THEN execTime[j] ELSE 0]
NoTimes(c) == [j \in Jobs |-> 0]
KeptTimes(c) ==
  [j \in Jobs |-> IF j \in Loaded \cap Names[c] THEN execTime[j] ELSE 0]

LoadConfig(c) ==
  /\ conf' = c
  /\ jobs' \in LoadOrders(c)
  /\ execTime' = KeptTimes(c)

TakeHup ==
  /\ pc = "hup"
  /\ IF "HUP" \in flags THEN \E c \in Configs : LoadConfig(c)
                        ELSE UNCHANGED <<conf, jobs, execTime>>
  /\ SwapFlag("HUP")
  /\ pc' = "term"
  /\ UNCHANGED <<running, pidToJob, noNewJobs, lastTick, scan, exited, proc,
                 clock, ran>>

TakeTerm ==
  /\ pc = "term"
  /\ pc' = IF "TERM" \in flags THEN "exit" ELSE "usr2"
  /\ UNCHANGED <<jobs, conf, execTime, running, pidToJob, noNewJobs, lastTick,
                 scan, exited, flags, proc, clock, ran>>

TakeUsr2 ==
  /\ pc = "usr2"
  /\ noNewJobs' = IF "USR2" \in flags THEN ~noNewJobs ELSE noNewJobs
  /\ SwapFlag("USR2")
  /\ pc' = "watch"
  /\ UNCHANGED <<jobs, conf, execTime, running, pidToJob, lastTick, scan,
                 exited, proc, clock, ran>>

WatchEvent ==
  /\ pc = "watch"
  /\ \E path \in Paths : StartJobs([kind |-> "watch", path |-> path])
  /\ UNCHANGED <<jobs, conf, execTime, running, pidToJob, noNewJobs, lastTick,
                 exited, flags, proc, clock, ran>>

WatchDone ==
  /\ pc = "watch"
  /\ pc' = "udp"
  /\ UNCHANGED <<jobs, conf, execTime, running, pidToJob, noNewJobs, lastTick,
                 scan, exited, flags, proc, clock, ran>>

UdpMessage ==
  /\ pc = "udp"
  /\ \E m \in Messages : StartJobs([kind |-> "notify", msg |-> m])
  /\ UNCHANGED <<jobs, conf, execTime, running, pidToJob, noNewJobs, lastTick,
                 exited, flags, proc, clock, ran>>

UdpWouldBlock ==
  /\ pc = "udp"
  /\ pc' = "tick"
  /\ UNCHANGED <<jobs, conf, execTime, running, pidToJob, noNewJobs, lastTick,
                 scan, exited, flags, proc, clock, ran>>

(* Faulty variant: waits for the very next second, which a slow loop may   *)
(* miss.                                                                   *)
VeryNextSecond == clock = lastTick + 1
NewSecond == clock > lastTick

TimerTick ==
  /\ pc = "tick"
  /\ IF NewSecond THEN lastTick' = clock /\ pc' = "timer"
                         ELSE pc' = "chld" /\ UNCHANGED lastTick
  /\ UNCHANGED <<jobs, conf, execTime, running, pidToJob, noNewJobs, scan,
                 exited, flags, proc, clock, ran>>

(* start_jobs() reads the clock again.                                     *)
TimerScan ==
  /\ pc = "timer"
  /\ StartJobs(TimeTrigger)
  /\ UNCHANGED <<jobs, conf, execTime, running, pidToJob, noNewJobs, lastTick,
                 exited, flags, proc, clock, ran>>

-----------------------------------------------------------------------------
(* The kernel, the children, the operator and time.                        *)

ChildExec(p) ==
  /\ proc[p].st = "forked"
  /\ proc[p].job # NoJob
  /\ proc' = [proc EXCEPT ![p].st = "exec"]
  /\ UNCHANGED <<daemonVars, flags, clock, ran>>

ChildExit(p) ==
  /\ Live(p)
  /\ \E ok \in IF proc[p].job = NoJob THEN {TRUE} ELSE BOOLEAN :
       proc' = [proc EXCEPT ![p].st = "zombie", ![p].ok = ok]
  /\ flags' = flags \cup {"CHLD"}
  /\ UNCHANGED <<daemonVars, clock, ran>>

OperatorSignal ==
  /\ \E s \in Signals : flags' = flags \cup {s}
  /\ UNCHANGED <<daemonVars, proc, clock, ran>>

ClockTick ==
  /\ clock < MaxTime
  /\ clock' = clock + 1
  /\ UNCHANGED <<daemonVars, flags, proc, ran>>

ClockSet ==
  /\ clock' \in ClockSteps
  /\ UNCHANGED <<daemonVars, flags, proc, ran>>

Daemon ==
  \/ TakeChld \/ WaitPid \/ HandleDone \/ TakeHup \/ TakeTerm \/ TakeUsr2
  \/ WatchEvent \/ WatchDone \/ UdpMessage \/ UdpWouldBlock
  \/ TimerTick \/ TimerScan
  \/ ScanSkip \/ ScanRunning \/ ExecFails \/ EndScan
  \/ \E p \in Pids, S \in SUBSET Pids : ExecJob(p, S)
  \/ \E S \in SUBSET Pids : HandleExit(S)

Environment ==
  \/ \E p \in Pids : ChildExec(p) \/ ChildExit(p)
  \/ OperatorSignal
  \/ ClockTick
  \/ ClockSet

Next == Daemon \/ Environment

Spec == Init /\ [][Next]_vars

(* Fairness. The loop never blocks: its only waits are a 200 ms sleep and  *)
(* non-blocking reads, so the daemon keeps stepping (weak fairness). A     *)
(* drained batch of file events is finite and the socket is empty from     *)
(* time to time (strong fairness of leaving the two inner loops).          *)
DaemonFairness ==
  /\ WF_vars(Daemon)
  /\ SF_vars(WatchDone)
  /\ SF_vars(UdpWouldBlock)

FairSpec == Spec /\ DaemonFairness

(* Jobs end and time passes, too.                                          *)
TimedSpec == /\ FairSpec
             /\ WF_vars(ClockTick)
             /\ \A p \in Pids : WF_vars(ChildExit(p))

-----------------------------------------------------------------------------
(* Properties.                                                             *)

TypeOK ==
  /\ jobs \in Seq(Jobs)
  /\ conf \in Configs
  /\ execTime \in [Jobs -> Nat]
  /\ running \in [Jobs -> Pids \cup {NoPid}]
  /\ pidToJob \in [Pids -> Jobs \cup {NoJob}]
  /\ noNewJobs \in BOOLEAN
  /\ lastTick \in Nat
  /\ pc \in Phases
  /\ scan \in [trigger : Triggers, now : Nat, i : Nat \ {0},
               started : [Pids -> Jobs \cup {NoJob}]]
  /\ exited \in Seq([pid : Pids, ok : BOOLEAN])
  /\ flags \subseteq {"CHLD", "HUP", "USR2", "TERM"}
  /\ proc \in [Pids -> Proc]
  /\ clock \in Nat
  /\ ran \in [Jobs -> [now : Nat, at : Nat]]

(* Every process of a job that has not been reaped is the one the running  *)
(* map names, so the map never forgets a job that may still be at work:    *)
(* in_conflicts() and the already-running check rest on this.              *)
EveryJobProcessKnown ==
  \A p \in Pids : proc[p].job # NoJob => running[proc[p].job] = p

(* A job is in the running map only as long as a process of it is alive,   *)
(* waits to be reaped, or has been reaped and waits to be handled under a  *)
(* pid the daemon can map back to the job. An entry without one would keep *)
(* the job from ever starting again.                                       *)
NoStuckEntry ==
  \A j \in Jobs : running[j] # NoPid =>
    LET p == running[j] IN
      /\ pidToJob[p] = j \/ scan.started[p] = j
      /\ proc[p].job = j \/ \E k \in DOMAIN exited : exited[k].pid = p

(* The pid bookkeeping the two invariants above rest on: each map entry is *)
(* the inverse of an entry of the running map, a reaped pid that is still  *)
(* to be handled belongs to no job anew, and neither reaped children nor   *)
(* started jobs are carried over to another phase of the loop.             *)
Bookkeeping ==
  /\ \A p \in Pids : proc[p].st = "free" => proc[p].job = NoJob
  /\ \A p \in Pids : pidToJob[p] # NoJob => running[pidToJob[p]] = p
  /\ \A p \in Pids : scan.started[p] # NoJob => running[scan.started[p]] = p
  /\ \A k \in DOMAIN exited : proc[exited[k].pid].job = NoJob
  /\ exited # <<>> => pc \in {"wait", "handle"}
  /\ pc # "scan" => scan.started = NoneStarted

(* Two jobs that each list the other under conflicts never run at the same *)
(* time, and no job runs twice, through reloads, lost SIGCHLDs and reused  *)
(* pids. The lists are those the processes were started under.             *)
MutualExclusion ==
  \A p, q \in LiveJobs : p # q =>
    /\ proc[p].job # proc[q].job
    /\ ~(proc[q].job \in proc[p].avoid /\ proc[p].job \in proc[q].avoid)

(* A signal for a job reaches a process of that job and no other process,  *)
(* even though pids are reused.                                            *)
SignalsHitOwnJob ==
  [][\A p \in Pids : proc[p].st = proc'[p].st /\ proc'[p].sig # proc[p].sig =>
       proc[p].job = Current]_vars

(* Between two starts of a job with a numeric interval the daemon's clock  *)
(* advances by at least the lower bound of the interval, and the first one *)
(* waits as long after the daemon's own start (README: the minimum delay   *)
(* between runs).                                                          *)
Started(j) == running[j] = NoPid /\ running'[j] # NoPid
WaitsInterval(j) ==
  Started(j) /\ scan.trigger.kind = "time" =>
    SaturatingSub(ran'[j].now, ran[j].now) >= Cfg[conf][j].interval.lo
IntervalRespected == [][\A j \in Jobs : WaitsInterval(j)]_vars

(* A job starts only while every job it depends on has a process, alive or *)
(* not reaped yet, although depends is answered from the running map.      *)
DependenciesHeld ==
  [][\A j \in Jobs : Started(j) =>
       \A n \in Cfg[conf][j].depends : \E p \in Pids : proc[p].job = n]_vars

(* Jobs that wait for each other, or for themselves, under every           *)
(* configuration that has them: none of them ever runs.                    *)
Cycles ==
  {D \in SUBSET Jobs : \A c \in Configs :
     \A j \in D \cap Names[c] : Cfg[c][j].depends \cap D # {}}
CyclesNeverStart == \A D \in Cycles : \A j \in D : running[j] = NoPid

(* Once scheduling is off and the running map is empty no process of any   *)
(* job is alive, and none appears until scheduling is on again: what the   *)
(* operator relies on who waits for that before a restart.                 *)
DrainIsFinal ==
  [][noNewJobs /\ (\A j \in Jobs : running[j] = NoPid) =>
       LiveJobs = {} /\ (noNewJobs' => LiveJobs' = {})]_vars

(* Outside start_jobs() the vector has the least recently run jobs first.  *)
LeastRecentFirst ==
  pc # "scan" => \A a, b \in DOMAIN jobs :
                   a < b => execTime[jobs[a]] <= execTime[jobs[b]]

(* The detailed daemon implements the abstract exclusion of Exclusion.tla: *)
(* a program starts only when none of its kind and none it must avoid is   *)
(* alive.                                                                  *)
Active == {[job |-> proc[p].job, avoid |-> proc[p].avoid] : p \in LiveJobs}
Abstract == INSTANCE Exclusion WITH active <- Active
ImplementsExclusion == Abstract!Spec

(* A job whose process has ended leaves the running map, however SIGCHLDs  *)
(* coalesce with each other and with the reaping.                          *)
EndedJobsAreReaped ==
  \A j \in Jobs :
    (\E p \in Pids : proc[p].st = "zombie" /\ proc[p].job = j)
      ~> (running[j] = NoPid \/ pc = "exit")

(* A caught SIGHUP or SIGUSR2 is acted upon.                               *)
SignalsAreServed ==
  \A s \in {"HUP", "USR2"} : s \in flags ~> (s \notin flags \/ pc = "exit")

(* Every job that depends on no other has its first run sooner or later.   *)
Unconditional == {j \in Jobs : \A c \in Configs : Cfg[c][j].depends = {}}
EveryJobStarts == \A j \in Unconditional : <>(ran[j].at # 0)
=============================================================================
