----------------------------- MODULE StartProofs -----------------------------
(***************************************************************************)
(* Theorems about starts and signals in Scheduler.tla: whom a signal hits, *)
(* what a drained daemon does, what a job that depends on others waits     *)
(* for, how long a job waits between two starts, and in which order the    *)
(* vector has the jobs.                                                    *)
(***************************************************************************)
EXTENDS SchedulerProofs

(* One-line helpers of the actions are always expanded.                    *)
USE DEF SwapFlag, AlreadyRunning, Recorded, PidForgotten, JobFreed, KeptTimes

Elements(s) == {s[i] : i \in DOMAIN s}
Sorted(s, key) == \A a, b \in DOMAIN s : a < b => key[s[a]] <= key[s[b]]

-----------------------------------------------------------------------------
(* What one step may do.                                                   *)

(* Only ExecJob puts a job into the running map.                           *)
LEMMA OnlyExecJobStarts ==
  ASSUME TypeOK, [Next]_vars, NEW j \in Jobs, Started(j)
  PROVE  \E p \in Pids, S \in SUBSET Pids : ExecJob(p, S) /\ j = Current
<1>1. running' # running
  BY DEF Started
<1>2. ASSUME NEW S \in SUBSET Pids, HandleExit(S) PROVE FALSE
  BY <1>2 DEF HandleExit, Started, TypeOK
<1>3. PICK p \in Pids, S \in SUBSET Pids : ExecJob(p, S)
  BY <1>1, <1>2
  DEF Next, Daemon, Environment, vars, daemonVars, TakeChld, WaitPid, HandleDone,
      TakeHup, TakeTerm, TakeUsr2, WatchEvent, WatchDone, UdpMessage, UdpWouldBlock,
      TimerTick, TimerScan, ScanSkip, ScanRunning, ExecFails, EndScan, ChildExec,
      ChildExit, OperatorSignal, ClockTick, ClockSet
<1>4. j = Current
  BY <1>3 DEF ExecJob, Started, TypeOK
<1> QED BY <1>3, <1>4

(* In start_jobs() nothing waits to be handled, so that an entry of the    *)
(* running map names a process of its job that is not reaped.              *)
LEMMA EntryHasProcess ==
  ASSUME SafetyInv, pc = "scan", NEW j \in Jobs, running[j] # NoPid
  PROVE  running[j] \in Pids /\ proc[running[j]].job = j
<1>1. exited = <<>>
  BY DEF SafetyInv, Bookkeeping
<1> QED BY <1>1 DEF SafetyInv, NoStuckEntry, TypeOK

(* Outside ScanRunning no process keeps its state and gets a signal.       *)
LEMMA OnlyScanRunningSignals ==
  ASSUME SafetyInv, [Next]_vars, ~ScanRunning, NEW p \in Pids,
         proc'[p].st = proc[p].st
  PROVE  proc'[p].sig = proc[p].sig
<1>1. CASE UNCHANGED proc
  BY <1>1
<1>2. CASE WaitPid
  <2>1. CASE UNCHANGED proc
    BY <2>1
  <2>2. ASSUME NEW q \in Pids, proc[q].st = "zombie", proc' = [proc EXCEPT ![q] = Free]
        PROVE  proc'[p].sig = proc[p].sig
    BY <2>2 DEF Free, SafetyInv, TypeOK
  <2> QED BY <1>2, <2>1, <2>2 DEF WaitPid
<1>3. ASSUME NEW q \in Pids, NEW S \in SUBSET Pids, ExecJob(q, S)
      PROVE  proc'[p].sig = proc[p].sig
  BY <1>3 DEF ExecJob, SenderSets, FreePids, Forked, Sender
<1>4. ASSUME NEW S \in SUBSET Pids, HandleExit(S) PROVE proc'[p].sig = proc[p].sig
  BY <1>4 DEF HandleExit, SenderSets, FreePids, Forked, Sender
<1>5. ASSUME NEW q \in Pids, ChildExec(q) \/ ChildExit(q)
      PROVE  proc'[p].sig = proc[p].sig
  <2>1. proc \in [Pids -> Proc] /\ proc[p] \in Proc /\ proc[q] \in Proc
    BY DEF SafetyInv, TypeOK
  <2>2. CASE ChildExec(q)
    BY <2>1, <2>2 DEF ChildExec, Proc
  <2>3. CASE ChildExit(q)
    <3>1. PICK ok : proc' = [proc EXCEPT ![q].st = "zombie", ![q].ok = ok]
      BY <2>3 DEF ChildExit
    <3>2. proc'[p].sig = IF p = q THEN [proc[q] EXCEPT !.st = "zombie", !.ok = ok].sig
                         ELSE proc[p].sig
      BY <2>1, <3>1
    <3> QED BY <2>1, <3>2 DEF Proc
  <2> QED BY <1>5, <2>2, <2>3
<1> QED
  BY <1>1, <1>2, <1>3, <1>4, <1>5
  DEF Next, Daemon, Environment, vars, TakeChld, HandleDone, TakeHup, TakeTerm,
      TakeUsr2, WatchEvent, WatchDone, UdpMessage, UdpWouldBlock, TimerTick,
      TimerScan, ScanSkip, ExecFails, EndScan, OperatorSignal, ClockTick, ClockSet

(* A signal for a job reaches a process of that job: the pid in the        *)
(* running map has not been given to another process meanwhile.            *)
THEOREM SignalsReachJob == Spec => SignalsHitOwnJob
<1>1. SafetyInv /\ [Next]_vars =>
        [\A p \in Pids : proc[p].st = proc'[p].st /\ proc'[p].sig # proc[p].sig =>
           proc[p].job = Current]_vars
  <2> SUFFICES ASSUME SafetyInv, [Next]_vars, NEW p \in Pids,
                      proc[p].st = proc'[p].st, proc'[p].sig # proc[p].sig
               PROVE  proc[p].job = Current
    OBVIOUS
  <2>1. ScanRunning
    BY OnlyScanRunningSignals
  <2>2. Current \in Jobs /\ pc = "scan" /\ running[Current] # NoPid
    BY <2>1 DEF ScanRunning, Scanning, Current, SafetyInv, TypeOK
  <2>3. running[Current] \in Pids /\ proc[running[Current]].job = Current
    BY <2>2, EntryHasProcess
  <2>4. p = running[Current]
    BY <2>1, <2>3 DEF ScanRunning, Kill, SafetyInv, TypeOK, Proc
  <2> QED BY <2>3, <2>4
<1> QED BY <1>1, Safety, PTL DEF Spec, SignalsHitOwnJob

-----------------------------------------------------------------------------
(* Draining: start_jobs() does not even begin while scheduling is off, so  *)
(* that no job of a drained daemon comes to life.                          *)
NotSuspended == pc = "scan" => ~noNewJobs

LEMMA NotSuspendedStep ==
  ASSUME NotSuspended, [Next]_vars
  PROVE  NotSuspended'
<1> USE DEF NotSuspended
<1>1. ASSUME NEW t, StartJobs(t), UNCHANGED noNewJobs PROVE NotSuspended'
  BY <1>1 DEF StartJobs, Suspended, After
<1>2. CASE WatchEvent \/ UdpMessage \/ TimerScan
  BY <1>1, <1>2 DEF WatchEvent, UdpMessage, TimerScan
<1>3. ASSUME NEW p \in Pids, NEW S \in SUBSET Pids, ExecJob(p, S) PROVE NotSuspended'
  BY <1>3 DEF ExecJob
<1>4. ASSUME NEW S \in SUBSET Pids, HandleExit(S) PROVE NotSuspended'
  BY <1>4 DEF HandleExit
<1>5. ASSUME NEW p \in Pids, ChildExec(p) \/ ChildExit(p) PROVE NotSuspended'
  BY <1>5 DEF ChildExec, ChildExit, daemonVars
<1> QED
  BY <1>2, <1>3, <1>4, <1>5
  DEF Next, Daemon, Environment, vars, daemonVars, TakeChld, WaitPid, HandleDone,
      TakeHup, TakeTerm, TakeUsr2, WatchDone, UdpWouldBlock, TimerTick, ScanSkip,
      ScanRunning, ExecFails, EndScan, After, OperatorSignal, ClockTick, ClockSet

(* A job is alive after a step if it was before or ExecJob started it.     *)
LEMMA OnlyExecJobRevives ==
  ASSUME SafetyInv, [Next]_vars,
         \A p \in Pids, S \in SUBSET Pids : ~ExecJob(p, S)
  PROVE  LiveJobs' \subseteq LiveJobs
<1> USE DEF SafetyInv
<1> SUFFICES ASSUME NEW p \in LiveJobs' PROVE p \in LiveJobs
  OBVIOUS
<1>0. /\ p \in Pids /\ proc \in [Pids -> Proc] /\ proc[p] \in Proc
      /\ proc'[p].st \in {"forked", "exec"} /\ proc'[p].job # NoJob
  BY DEF LiveJobs, Live, TypeOK
<1>1. CASE UNCHANGED proc
  BY <1>1 DEF LiveJobs, Live
<1>2. CASE WaitPid
  <2>1. CASE ~UNCHANGED proc
    <3>1. PICK q \in Pids : proc' = [proc EXCEPT ![q] = Free]
      BY <1>2, <2>1 DEF WaitPid
    <3>2. p # q /\ proc'[p] = proc[p]
      BY <1>0, <3>1 DEF Free
    <3> QED BY <1>0, <3>2 DEF LiveJobs, Live
  <2> QED BY <1>1, <2>1
<1>3. CASE ScanRunning
  BY <1>0, <1>3 DEF ScanRunning, Kill, Proc, LiveJobs, Live
<1>4. ASSUME NEW S \in SUBSET Pids, HandleExit(S) PROVE p \in LiveJobs
  BY <1>0, <1>4 DEF HandleExit, Sender, Forked, LiveJobs, Live
<1>5. ASSUME NEW q \in Pids, ChildExec(q) PROVE p \in LiveJobs
  BY <1>0, <1>5 DEF ChildExec, Proc, LiveJobs, Live
<1>6. ASSUME NEW q \in Pids, ChildExit(q) PROVE p \in LiveJobs
  <2>1. PICK ok : proc' = [proc EXCEPT ![q].st = "zombie", ![q].ok = ok]
    BY <1>6 DEF ChildExit
  <2> QED BY <1>0, <2>1 DEF Proc, LiveJobs, Live
<1> QED
  BY <1>1, <1>2, <1>3, <1>4, <1>5, <1>6
  DEF Next, Daemon, Environment, vars, TakeChld, HandleDone, TakeHup, TakeTerm,
      TakeUsr2, WatchEvent, WatchDone, UdpMessage, UdpWouldBlock, TimerTick,
      TimerScan, ScanSkip, ExecFails, EndScan, OperatorSignal, ClockTick, ClockSet

(* With scheduling off and nothing in the running map no job is alive, and *)
(* none comes to life before scheduling is on again.                       *)
THEOREM Drained == Spec => DrainIsFinal
<1>1. Init => NotSuspended
  BY DEF Init, NotSuspended
<1>2. SafetyInv /\ NotSuspended /\ [Next]_vars =>
        [noNewJobs /\ (\A j \in Jobs : running[j] = NoPid) =>
           LiveJobs = {} /\ (noNewJobs' => LiveJobs' = {})]_vars
  <2> SUFFICES ASSUME SafetyInv, NotSuspended, [Next]_vars,
                      noNewJobs, \A j \in Jobs : running[j] = NoPid
               PROVE  LiveJobs = {} /\ LiveJobs' = {}
    OBVIOUS
  <2>1. LiveJobs = {}
    BY ConstantsAssumption
    DEF SafetyInv, TypeOK, Proc, EveryJobProcessKnown, LiveJobs
  <2>2. \A p \in Pids, S \in SUBSET Pids : ~ExecJob(p, S)
    BY DEF NotSuspended, ExecJob, Scanning
  <2>3. LiveJobs' \subseteq LiveJobs
    BY <2>2, OnlyExecJobRevives
  <2> QED BY <2>1, <2>3
<1> QED BY <1>1, <1>2, NotSuspendedStep, Safety, PTL DEF Spec, DrainIsFinal

-----------------------------------------------------------------------------
(* Dependencies.                                                           *)

(* A job starts only while each job it depends on has a process that is    *)
(* alive or not reaped yet: nothing reaped waits to be handled when        *)
(* start_jobs() reads the running map.                                     *)
THEOREM DependenciesHaveProcesses == Spec => DependenciesHeld
<1>1. SafetyInv /\ [Next]_vars =>
        [\A j \in Jobs : Started(j) =>
           \A n \in Cfg[conf][j].depends : \E p \in Pids : proc[p].job = n]_vars
  <2> SUFFICES ASSUME SafetyInv, [Next]_vars, NEW j \in Jobs, Started(j),
                      NEW n \in Cfg[conf][j].depends
               PROVE  \E p \in Pids : proc[p].job = n
    OBVIOUS
  <2>1. PICK p \in Pids, S \in SUBSET Pids : ExecJob(p, S) /\ j = Current
    BY OnlyExecJobStarts DEF SafetyInv
  <2>2. pc = "scan" /\ ~NoDependency(Cfg[conf][j])
    BY <2>1 DEF ExecJob, Scanning, Passes
  <2>3. n \in Jobs /\ running[n] # NoPid
    BY <2>2, CfgType DEF NoDependency, SafetyInv, TypeOK
  <2> QED BY <2>2, <2>3, EntryHasProcess
<1> QED BY <1>1, Safety, PTL DEF Spec, DependenciesHeld

-----------------------------------------------------------------------------
(* What the helpers on vectors return.                                     *)

(* The pigeonhole principle on an interval.                                *)
LEMMA InjectiveIsOnto ==
  ASSUME NEW n \in Nat, NEW S, IsFiniteSet(S), Cardinality(S) = n,
         NEW f \in [1 .. n -> S], \A a, b \in 1 .. n : a # b => f[a] # f[b]
  PROVE  \A x \in S : \E a \in 1 .. n : f[a] = x
<1>1. f \in Injection(1 .. n, S)
  BY DEF Injection, IsInjective
<1>2. Cardinality(1 .. n) = n
  BY FS_Interval
<1>3. f \in Surjection(1 .. n, S)
  BY <1>1, <1>2, FS_Injection, Zenon
<1> QED BY <1>3 DEF Surjection

LEMMA LoadOrdersComplete ==
  ASSUME NEW c \in Configs, NEW s \in LoadOrders(c)
  PROVE  Elements(s) = Names[c]
<1> DEFINE n == Cardinality(Names[c])
<1>1. IsFiniteSet(Names[c])
  BY ConstantsAssumption, FS_Subset
<1>2. n \in Nat
  BY <1>1, FS_CardinalityType
<1>3. s \in [1 .. n -> Names[c]] /\ \A a, b \in 1 .. n : a < b => s[a] # s[b]
  BY DEF LoadOrders
<1>4. \A a, b \in 1 .. n : a # b => s[a] # s[b]
  <2> SUFFICES ASSUME NEW a \in 1 .. n, NEW b \in 1 .. n, a # b PROVE s[a] # s[b]
    OBVIOUS
  <2>1. a < b \/ b < a
    BY <1>2
  <2> QED BY <1>3, <2>1
<1>5. \A x \in Names[c] : \E a \in 1 .. n : s[a] = x
  BY <1>1, <1>2, <1>3, <1>4, InjectiveIsOnto
<1> QED BY <1>3, <1>5 DEF Elements

(* sort_by_key() permutes the vector and puts the smallest keys first.     *)
LEMMA StableSortsSort ==
  ASSUME NEW s \in Seq(Jobs), NEW key \in [Jobs -> Nat], NEW t \in StableSorts(s, key)
  PROVE  Elements(t) = Elements(s) /\ Sorted(t, key)
<1>0. PICK n \in Nat : DOMAIN s = 1 .. n /\ \A a \in 1 .. n : s[a] \in Jobs
  <2>1. Len(s) \in Nat /\ DOMAIN s = 1 .. Len(s) /\ \A a \in 1 .. Len(s) : s[a] \in Jobs
    OBVIOUS
  <2> QED BY <2>1
<1>1. PICK m : /\ m \in [1 .. n -> 1 .. n]
               /\ \A a, b \in 1 .. n : a < b =>
                    \/ key[s[m[a]]] < key[s[m[b]]]
                    \/ key[s[m[a]]] = key[s[m[b]]] /\ m[a] < m[b]
               /\ t = [k \in 1 .. n |-> s[m[k]]]
  BY <1>0, Zenon DEF StableSorts
<1>2. /\ DOMAIN t = 1 .. n
      /\ \A a \in 1 .. n : m[a] \in 1 .. n /\ t[a] = s[m[a]] /\ t[a] \in Jobs
  BY <1>0, <1>1, Zenon
<1>3. \A a \in 1 .. n : key[t[a]] \in Nat
  BY <1>2, Zenon
<1>4. \A a, b \in 1 .. n : a < b =>
        key[t[a]] < key[t[b]] \/ (key[t[a]] = key[t[b]] /\ m[a] < m[b])
  BY <1>1, <1>2
<1>5. Sorted(t, key)
  <2> SUFFICES ASSUME NEW a \in 1 .. n, NEW b \in 1 .. n, a < b
               PROVE  key[t[a]] <= key[t[b]]
    BY <1>2, Zenon DEF Sorted
  <2>1. key[t[a]] \in Nat /\ key[t[b]] \in Nat
    BY <1>3, Zenon
  <2>2. key[t[a]] < key[t[b]] \/ key[t[a]] = key[t[b]]
    BY <1>4, Zenon
  <2> QED BY ONLY <2>1, <2>2
<1>6. ASSUME NEW a \in 1 .. n, NEW b \in 1 .. n, a < b PROVE m[a] # m[b]
  <2>1. m[a] = m[b] => t[a] = t[b]
    BY <1>2, Zenon
  <2>2. key[t[a]] \in Nat /\ m[a] \in 1 .. n
    BY <1>2, <1>3, Zenon
  <2>3. key[t[a]] < key[t[b]] \/ (key[t[a]] = key[t[b]] /\ m[a] < m[b])
    BY <1>4, <1>6, Zenon
  <2> QED BY ONLY n \in Nat, <2>1, <2>2, <2>3
<1>7. \A x \in 1 .. n : \E a \in 1 .. n : m[a] = x
  <2>1. \A a, b \in 1 .. n : a # b => a < b \/ b < a
    OBVIOUS
  <2>2. \A a, b \in 1 .. n : a # b => m[a] # m[b]
    BY <1>6, <2>1, Zenon
  <2>3. IsFiniteSet(1 .. n) /\ Cardinality(1 .. n) = n
    BY FS_Interval
  <2>4. m \in Injection(1 .. n, 1 .. n)
    BY <1>1, <2>2, Zenon DEF Injection, IsInjective
  <2>5. m \in Surjection(1 .. n, 1 .. n)
    BY <2>3, <2>4, FS_Injection, Zenon
  <2> QED BY <2>5, Zenon DEF Surjection
<1>8. \A x \in Elements(t) : x \in Elements(s)
  BY <1>0, <1>2 DEF Elements
<1>9. \A x \in Elements(s) : x \in Elements(t)
  <2> SUFFICES ASSUME NEW b \in 1 .. n PROVE s[b] \in Elements(t)
    BY <1>0 DEF Elements
  <2>1. PICK a \in 1 .. n : m[a] = b
    BY <1>7
  <2>2. t[a] = s[b]
    BY <1>2, <2>1
  <2> QED BY <1>2, <2>2 DEF Elements
<1> QED BY <1>5, <1>8, <1>9, Zenon

-----------------------------------------------------------------------------
(* The vector and the configuration: a load builds it from all names, and  *)
(* sorting loses none, so that a job which starts is one of the            *)
(* configuration loaded last.                                              *)
VectorComplete == Loaded = Names[conf]

LEMMA VectorCompleteInit == Init => VectorComplete
BY LoadOrdersComplete DEF Init, VectorComplete, Loaded, Elements

LEMMA VectorCompleteStep ==
  ASSUME TypeOK, VectorComplete, [Next]_vars
  PROVE  VectorComplete'
<1>1. CASE UNCHANGED <<jobs, conf>>
  BY <1>1 DEF VectorComplete, Loaded
<1>2. CASE TakeHup
  <2>1. ASSUME NEW c \in Configs, LoadConfig(c) PROVE VectorComplete'
    BY <2>1, LoadOrdersComplete DEF LoadConfig, VectorComplete, Loaded, Elements
  <2> QED BY <1>1, <1>2, <2>1 DEF TakeHup
<1>3. CASE EndScan
  <2>1. CASE jobs' \in StableSorts(jobs, execTime)
    <3>1. Elements(jobs') = Elements(jobs)
      BY <2>1, StableSortsSort DEF TypeOK
    <3> QED BY <1>3, <3>1 DEF EndScan, VectorComplete, Loaded, Elements
  <2> QED BY <1>1, <1>3, <2>1 DEF EndScan
<1>4. ASSUME NEW p \in Pids, NEW S \in SUBSET Pids, ExecJob(p, S) PROVE VectorComplete'
  BY <1>1, <1>4 DEF ExecJob
<1>5. ASSUME NEW S \in SUBSET Pids, HandleExit(S) PROVE VectorComplete'
  BY <1>1, <1>5 DEF HandleExit
<1>6. ASSUME NEW p \in Pids, ChildExec(p) \/ ChildExit(p) PROVE VectorComplete'
  BY <1>1, <1>6 DEF ChildExec, ChildExit, daemonVars
<1> QED
  BY <1>1, <1>2, <1>3, <1>4, <1>5, <1>6
  DEF Next, Daemon, Environment, vars, daemonVars, TakeChld, WaitPid, HandleDone,
      TakeTerm, TakeUsr2, WatchEvent, WatchDone, UdpMessage, UdpWouldBlock, TimerTick,
      TimerScan, ScanSkip, ScanRunning, ExecFails, OperatorSignal, ClockTick, ClockSet

(* A job that starts is in the vector, and so in the configuration.        *)
LEMMA StartedIsConfigured ==
  ASSUME TypeOK, VectorComplete, [Next]_vars, NEW j \in Jobs, Started(j)
  PROVE  j \in Names[conf]
<1>1. PICK p \in Pids, S \in SUBSET Pids : ExecJob(p, S) /\ j = Current
  BY OnlyExecJobStarts
<1>2. scan.i \in DOMAIN jobs
  BY <1>1 DEF ExecJob, Scanning, TypeOK
<1>3. j \in Loaded
  BY <1>1, <1>2, Zenon DEF Current, Loaded
<1> QED BY <1>3 DEF VectorComplete

(* Jobs that wait for each other, or for themselves, never start: the      *)
(* first of them to start would depend on one that does not run.           *)
THEOREM CyclesStayDown == Spec => []CyclesNeverStart
<1>1. Init => CyclesNeverStart
  BY DEF Init, CyclesNeverStart, Cycles
<1>2. TypeOK /\ VectorComplete /\ CyclesNeverStart /\ [Next]_vars => CyclesNeverStart'
  <2> SUFFICES ASSUME TypeOK, VectorComplete, CyclesNeverStart, [Next]_vars,
                      NEW D \in Cycles, NEW j \in D, running'[j] # NoPid
               PROVE  FALSE
    BY DEF CyclesNeverStart
  <2>1. j \in Jobs /\ running[j] = NoPid
    BY DEF Cycles, CyclesNeverStart
  <2>2. Started(j)
    BY <2>1 DEF Started
  <2>3. j \in Names[conf] /\ conf \in Configs
    BY <2>1, <2>2, StartedIsConfigured DEF TypeOK
  <2>4. PICK n \in D : n \in Cfg[conf][j].depends
    BY <2>3 DEF Cycles
  <2>5. running[n] = NoPid
    BY DEF CyclesNeverStart
  <2>6. PICK p \in Pids, S \in SUBSET Pids : ExecJob(p, S) /\ j = Current
    BY <2>1, <2>2, OnlyExecJobStarts
  <2>7. ~NoDependency(Cfg[conf][j])
    BY <2>6 DEF ExecJob, Passes
  <2> QED BY <2>4, <2>5, <2>7 DEF NoDependency
<1> QED
  BY <1>1, <1>2, VectorCompleteInit, VectorCompleteStep, TypeCorrect, PTL DEF Spec

-----------------------------------------------------------------------------
(* The interval. A job that every configuration has keeps its execution    *)
(* time through reloads, and that is the second read at its last start.    *)
Staying == {j \in Jobs : \A c \in Configs : j \in Names[c]}
TimesKept ==
  /\ clock # 0
  /\ pc = "scan" => scan.now # 0
  /\ \A j \in Staying : /\ execTime[j] # 0 => ran[j].now = execTime[j]
                        /\ execTime[j] = 0 => ran[j].now = StartUnix

LEMMA TimesKeptInit == Init => TimesKept
BY ConstantsAssumption DEF Init, TimesKept, Staying

(* What every step but a load and a start leaves alone.                    *)
LEMMA TimesUnchanged ==
  ASSUME TimesKept, UNCHANGED <<execTime, ran>>, clock' # 0,
         pc' = "scan" => scan'.now # 0
  PROVE  TimesKept'
BY DEF TimesKept, Staying

LEMMA TimesKeptStep ==
  ASSUME TypeOK, VectorComplete, TimesKept, [Next]_vars
  PROVE  TimesKept'
<1>0. clock # 0 /\ (pc = "scan" => scan.now # 0)
  BY DEF TimesKept
<1>1. CASE TakeChld \/ WaitPid \/ HandleDone \/ TakeTerm \/ TakeUsr2 \/ WatchDone
           \/ UdpWouldBlock \/ TimerTick
  BY <1>1, <1>0, TimesUnchanged
  DEF TakeChld, WaitPid, HandleDone, TakeTerm, TakeUsr2, WatchDone, UdpWouldBlock,
      TimerTick
<1>2. CASE TakeHup
  <2>1. CASE UNCHANGED <<conf, jobs, execTime>>
    BY <1>2, <2>1, <1>0, TimesUnchanged DEF TakeHup
  <2>2. ASSUME NEW c \in Configs, LoadConfig(c) PROVE TimesKept'
    <3>1. ASSUME NEW j \in Staying PROVE execTime'[j] = execTime[j]
      BY <2>2, <3>1 DEF LoadConfig, VectorComplete, Staying, TypeOK
    <3>2. UNCHANGED <<clock, scan, ran>> /\ pc' = "term"
      BY <1>2 DEF TakeHup
    <3> QED BY <3>1, <3>2 DEF TimesKept, Staying
  <2> QED BY <1>2, <2>1, <2>2 DEF TakeHup
<1>3. ASSUME NEW t, StartJobs(t), pc \in {"watch", "udp", "timer"},
             UNCHANGED <<execTime, clock, ran>>
      PROVE  TimesKept'
  <2>1. pc' = "scan" => scan'.now # 0
    BY <1>0, <1>3 DEF StartJobs, After
  <2> QED BY <1>0, <1>3, <2>1, TimesUnchanged
<1>4. CASE WatchEvent \/ UdpMessage \/ TimerScan
  BY <1>3, <1>4 DEF WatchEvent, UdpMessage, TimerScan
<1>5. CASE ScanSkip \/ ScanRunning \/ ExecFails
  <2>1. NextJob /\ UNCHANGED <<execTime, ran, clock>> /\ pc = "scan"
    BY <1>5 DEF ScanSkip, ScanRunning, ExecFails, Scanning
  <2>2. scan'.now = scan.now
    BY <2>1 DEF NextJob, TypeOK
  <2> QED BY <1>0, <2>1, <2>2, TimesUnchanged
<1>6. CASE EndScan
  <2>1. pc' # "scan" /\ UNCHANGED <<execTime, clock, ran>>
    BY <1>6 DEF EndScan, After
  <2> QED BY <1>0, <2>1, TimesUnchanged
<1>7. ASSUME NEW p \in Pids, NEW S \in SUBSET Pids, ExecJob(p, S) PROVE TimesKept'
  <2>1. pc = "scan" /\ scan'.now = scan.now /\ scan.now # 0 /\ UNCHANGED <<pc, clock>>
    BY <1>0, <1>7 DEF ExecJob, Scanning, TypeOK
  <2>2. \A j \in Jobs : /\ j # Current => execTime'[j] = execTime[j] /\ ran'[j] = ran[j]
                        /\ j = Current => execTime'[j] = scan.now /\ ran'[j].now = scan.now
    BY <1>7 DEF ExecJob, TypeOK
  <2>3. ASSUME NEW j \in Staying
        PROVE  /\ execTime'[j] # 0 => ran'[j].now = execTime'[j]
               /\ execTime'[j] = 0 => ran'[j].now = StartUnix
    <3>1. CASE j = Current
      BY <2>1, <2>2, <3>1 DEF Staying
    <3>2. CASE j # Current
      BY <2>2, <3>2 DEF Staying, TimesKept
    <3> QED BY <3>1, <3>2
  <2> QED BY <1>0, <2>1, <2>3 DEF TimesKept, Staying
<1>8. ASSUME NEW S \in SUBSET Pids, HandleExit(S) PROVE TimesKept'
  BY <1>0, <1>8, TimesUnchanged DEF HandleExit
<1>9. ASSUME NEW p \in Pids, ChildExec(p) \/ ChildExit(p) PROVE TimesKept'
  BY <1>0, <1>9, TimesUnchanged DEF ChildExec, ChildExit, daemonVars
<1>10. CASE OperatorSignal \/ UNCHANGED vars
  BY <1>0, <1>10, TimesUnchanged DEF OperatorSignal, daemonVars, vars
<1>11. CASE ClockTick \/ ClockSet
  <2>1. clock' # 0
    BY <1>11, ConstantsAssumption DEF ClockTick, ClockSet, TypeOK
  <2>2. UNCHANGED daemonVars /\ UNCHANGED ran
    BY <1>11 DEF ClockTick, ClockSet
  <2> QED BY <1>0, <2>1, <2>2, TimesUnchanged DEF daemonVars
<1> QED
  BY <1>1, <1>2, <1>4, <1>5, <1>6, <1>7, <1>8, <1>9, <1>10, <1>11
  DEF Next, Daemon, Environment

(* The interval drawn is at least its lower bound.                         *)
LEMMA DrawsBound ==
  ASSUME NEW iv \in Interval, NEW secs \in Draws(iv)
  PROVE  secs \in Nat /\ secs >= iv.lo
BY DEF Draws, Interval

LEMMA StayingWaits ==
  ASSUME TypeOK, TimesKept, [Next]_vars, NEW j \in Staying
  PROVE  WaitsInterval(j)
<1> SUFFICES ASSUME Started(j), scan.trigger.kind = "time"
             PROVE  SaturatingSub(ran'[j].now, ran[j].now) >= Cfg[conf][j].interval.lo
  BY DEF WaitsInterval
<1>1. PICK p \in Pids, S \in SUBSET Pids : ExecJob(p, S) /\ j = Current
  BY OnlyExecJobStarts DEF Staying
<1> DEFINE lo == Cfg[conf][j].interval.lo
<1>2. PICK secs \in Draws(Cfg[conf][j].interval) : Passes(j, secs)
  BY <1>1 DEF ExecJob
<1>3. secs \in Nat /\ lo \in Nat /\ secs >= lo
  BY <1>2, CfgType, DrawsBound DEF TypeOK, Interval, Staying
<1>4. IntervalElapsed(j, scan.now, secs)
  BY <1>2 DEF Passes
<1>5. /\ ran'[j].now = scan.now /\ scan.now \in Nat /\ execTime[j] \in Nat
      /\ ran[j].now = IF execTime[j] = 0 THEN StartUnix ELSE execTime[j]
  BY <1>1 DEF ExecJob, TypeOK, TimesKept, Staying
<1> HIDE DEF lo
<1>6. SaturatingSub(ran'[j].now, ran[j].now) >= lo
  BY <1>3, <1>4, <1>5, ConstantsAssumption DEF IntervalElapsed, SaturatingSub
<1> QED BY <1>6 DEF lo

(* A job that no reload drops waits at least the lower bound of its        *)
(* interval between two starts, and after the start of the daemon, however *)
(* the clock is set, intervals change and other jobs come and go. (A job   *)
(* that one reload drops and the next brings back does not: that is the    *)
(* finding.)                                                               *)
THEOREM StayingJobsWait == Spec => [][\A j \in Staying : WaitsInterval(j)]_vars
<1>1. TypeOK /\ VectorComplete /\ TimesKept /\ [Next]_vars => TimesKept'
  BY TimesKeptStep
<1>2. TypeOK /\ TimesKept /\ [Next]_vars => [\A j \in Staying : WaitsInterval(j)]_vars
  BY StayingWaits
<1> QED
  BY <1>1, <1>2, TimesKeptInit, VectorCompleteInit, VectorCompleteStep, TypeCorrect,
     PTL DEF Spec

(* Where reloads neither drop nor add jobs this is every job.              *)
THEOREM IntervalKept ==
  ASSUME \A c, d \in Configs : Names[c] = Names[d]
  PROVE  Spec => IntervalRespected
<1>1. TypeOK /\ VectorComplete /\ TimesKept /\ [Next]_vars => TimesKept'
  BY TimesKeptStep
<1>2. TypeOK /\ VectorComplete /\ TimesKept /\ [Next]_vars =>
        [\A j \in Jobs : WaitsInterval(j)]_vars
  <2> SUFFICES ASSUME TypeOK, VectorComplete, TimesKept, [Next]_vars, NEW j \in Jobs
               PROVE  WaitsInterval(j)
    OBVIOUS
  <2>1. CASE ~Started(j)
    BY <2>1 DEF WaitsInterval
  <2>2. CASE Started(j)
    <3>1. j \in Staying
      BY <2>2, StartedIsConfigured DEF Staying, TypeOK
    <3> QED BY <3>1, StayingWaits
  <2> QED BY <2>1, <2>2
<1> QED
  BY <1>1, <1>2, TimesKeptInit, VectorCompleteInit, VectorCompleteStep, TypeCorrect,
     PTL DEF Spec, IntervalRespected

-----------------------------------------------------------------------------
(* The order. A start marks the scan, and a marked scan ends with a sort.  *)
OrderKept == scan.started = NoneStarted => Sorted(jobs, execTime)

LEMMA OrderUnchanged ==
  ASSUME OrderKept, UNCHANGED <<jobs, execTime>>,
         scan'.started = scan.started \/ scan.started = NoneStarted
  PROVE  OrderKept'
BY DEF OrderKept, NoneStarted, Sorted

LEMMA OrderKeptStep ==
  ASSUME SafetyInv, OrderKept, "HUP" \notin flags, [Next]_vars
  PROVE  OrderKept'
<1> USE DEF SafetyInv
<1>1. CASE UNCHANGED <<jobs, execTime, scan>>
  BY <1>1, OrderUnchanged
<1>2. CASE TakeHup
  BY <1>1, <1>2 DEF TakeHup
<1>3. CASE WatchEvent \/ UdpMessage \/ TimerScan
  BY <1>3, OrderUnchanged DEF WatchEvent, UdpMessage, TimerScan, Bookkeeping
<1>4. CASE ScanSkip \/ ScanRunning \/ ExecFails
  BY <1>4, OrderUnchanged DEF ScanSkip, ScanRunning, ExecFails, NextJob, TypeOK
<1>5. CASE EndScan
  <2>1. CASE scan.started = NoneStarted
    BY <1>5, <2>1, OrderUnchanged DEF EndScan
  <2>2. CASE scan.started # NoneStarted
    <3>1. Sorted(jobs', execTime)
      BY <1>5, <2>2, StableSortsSort DEF EndScan, TypeOK
    <3> QED BY <1>5, <3>1 DEF EndScan, OrderKept, Sorted
  <2> QED BY <2>1, <2>2
<1>6. ASSUME NEW p \in Pids, NEW S \in SUBSET Pids, ExecJob(p, S) PROVE OrderKept'
  <2>1. Current \in Jobs /\ scan'.started[p] = Current
    BY <1>6 DEF ExecJob, Scanning, Current, TypeOK
  <2>2. scan'.started # NoneStarted
    BY <2>1, ConstantsAssumption DEF NoneStarted
  <2> QED BY <2>2 DEF OrderKept, NoneStarted
<1>7. ASSUME NEW S \in SUBSET Pids, HandleExit(S) PROVE OrderKept'
  BY <1>1, <1>7 DEF HandleExit
<1>8. ASSUME NEW p \in Pids, ChildExec(p) \/ ChildExit(p) PROVE OrderKept'
  BY <1>1, <1>8 DEF ChildExec, ChildExit, daemonVars
<1> QED
  BY <1>1, <1>2, <1>3, <1>4, <1>5, <1>6, <1>7, <1>8
  DEF Next, Daemon, Environment, vars, daemonVars, TakeChld, WaitPid, HandleDone,
      TakeTerm, TakeUsr2, WatchDone, UdpWouldBlock, TimerTick, OperatorSignal,
      ClockTick, ClockSet

(* Until a reload is asked for, the job that has waited longest is tried   *)
(* first, also when the clock is set back and forth. (A reload orders the  *)
(* vector by files; the end of the next scan that starts a job sorts it.)  *)
THEOREM LeastRecentFirstKept == Spec /\ []("HUP" \notin flags) => []LeastRecentFirst
<1>1. Init => OrderKept
  <2> SUFFICES ASSUME Init PROVE Sorted(jobs, execTime)
    BY DEF OrderKept
  <2>1. jobs \in Seq(Jobs)
    BY LoadOrdersType DEF Init
  <2>2. \A i \in DOMAIN jobs : execTime[jobs[i]] = 0
    BY <2>1 DEF Init
  <2> QED BY <2>2 DEF Sorted
<1>2. SafetyInv /\ OrderKept /\ "HUP" \notin flags /\ [Next]_vars => OrderKept'
  BY OrderKeptStep
<1>3. SafetyInv /\ OrderKept => LeastRecentFirst
  BY DEF SafetyInv, Bookkeeping, OrderKept, LeastRecentFirst, Sorted
<1> QED BY <1>1, <1>2, <1>3, Safety, PTL DEF Spec
=============================================================================
