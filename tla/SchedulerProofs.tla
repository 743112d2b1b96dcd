--------------------------- MODULE SchedulerProofs ---------------------------
(***************************************************************************)
(* Proofs about the daemon of Scheduler.tla, for any jobs, configurations, *)
(* pids and signals.                                                       *)
(***************************************************************************)
EXTENDS Scheduler, SequenceTheorems, FiniteSetTheorems, TLAPS

(* One-line helpers of the actions are always expanded.                    *)
USE DEF SwapFlag, AlreadyRunning, Recorded, PidForgotten, JobFreed, KeptTimes

-----------------------------------------------------------------------------
(* Helpers keep their types.                                               *)

LEMMA CfgType ==
  ASSUME NEW c \in Configs, NEW j \in Jobs
  PROVE  /\ Cfg[c][j].interval \in Interval
         /\ Cfg[c][j].conflicts \in SUBSET Jobs
         /\ Cfg[c][j].depends \in SUBSET Jobs
BY ConstantsAssumption DEF JobCfg

LEMMA LoadOrdersType ==
  ASSUME NEW c \in Configs, NEW s \in LoadOrders(c)
  PROVE  s \in Seq(Jobs)
<1>1. Names[c] \subseteq Jobs /\ IsFiniteSet(Names[c])
  BY ConstantsAssumption, FS_Subset
<1>2. Cardinality(Names[c]) \in Nat
  BY <1>1, FS_CardinalityType
<1>3. s \in [1 .. Cardinality(Names[c]) -> Jobs]
  BY <1>1 DEF LoadOrders
<1> QED BY <1>2, <1>3, SeqDef

LEMMA FreeType == Free \in Proc
BY DEF Free, Proc

LEMMA ForkedType ==
  ASSUME NEW j \in Jobs \cup {NoJob}, NEW avoid \in SUBSET Jobs
  PROVE  Forked(j, avoid) \in Proc
BY DEF Forked, Proc

LEMMA SenderType == Sender \in Proc
BY ForkedType DEF Sender

ScanType == [trigger : Triggers, now : Nat, i : Nat \ {0},
             started : [Pids -> Jobs \cup {NoJob}]]

LEMMA IdleType == Idle \in ScanType
BY DEF Idle, TimeTrigger, Triggers, NoneStarted, ScanType

LEMMA NextJobType ==
  ASSUME scan \in ScanType, NextJob
  PROVE  scan' \in ScanType
<1>1. /\ scan.i + 1 \in Nat \ {0} /\ scan.trigger \in Triggers /\ scan.now \in Nat
      /\ scan.started \in [Pids -> Jobs \cup {NoJob}]
  BY DEF ScanType
<1>2. scan' = [trigger |-> scan.trigger, now |-> scan.now, i |-> scan.i + 1,
               started |-> scan.started]
  BY DEF NextJob, ScanType
<1> QED BY <1>1, <1>2 DEF ScanType

LEMMA StableSortsType ==
  ASSUME NEW s \in Seq(Jobs), NEW key, NEW t \in StableSorts(s, key)
  PROVE  t \in Seq(Jobs)
<1>1. PICK m \in [DOMAIN s -> DOMAIN s] : t = [k \in DOMAIN s |-> s[m[k]]]
  BY DEF StableSorts
<1>2. DOMAIN s = 1 .. Len(s) /\ Len(s) \in Nat /\ \A k \in DOMAIN s : s[k] \in Jobs
  OBVIOUS
<1>3. t \in [1 .. Len(s) -> Jobs]
  BY <1>1, <1>2
<1> QED BY <1>2, <1>3, SeqDef

LEMMA StartJobsType ==
  ASSUME TypeOK, NEW t \in Triggers, StartJobs(t)
  PROVE  pc' \in Phases /\ scan' \in ScanType
BY DEF TypeOK, StartJobs, After, Phases, NoneStarted, ScanType

(* An operation on one process keeps the table's type.                     *)
LEMMA KillType ==
  ASSUME proc \in [Pids -> Proc], NEW p
  PROVE  Kill(p) \in [Pids -> Proc]
<1>1. ASSUME NEW sig \in {"lost", "caught"}
      PROVE  [proc EXCEPT ![p].sig = sig] \in [Pids -> Proc]
  <2>1. CASE p \notin Pids BY <2>1
  <2>2. CASE p \in Pids
    <3>1. [proc[p] EXCEPT !.sig = sig] \in Proc
      BY <2>2 DEF Proc
    <3> QED BY <2>2, <3>1
  <2> QED BY <2>1, <2>2
<1> QED BY <1>1 DEF Kill

-----------------------------------------------------------------------------
(* TypeOK: every variable of the daemon and of its processes keeps its     *)
(* type, under every configuration, signal and setting of the clock.       *)
LEMMA TypeInit == Init => TypeOK
<1> SUFFICES ASSUME Init PROVE TypeOK
  OBVIOUS
<1>1. jobs \in Seq(Jobs)
  BY LoadOrdersType DEF Init
<1>2. scan \in ScanType /\ exited \in Seq([pid : Pids, ok : BOOLEAN])
  BY IdleType DEF Init
<1>3. proc \in [Pids -> Proc]
  BY FreeType DEF Init
<1>4. lastTick \in Nat /\ clock \in Nat /\ ran \in [Jobs -> [now : Nat, at : Nat]]
  BY ConstantsAssumption DEF Init
<1> QED BY <1>1, <1>2, <1>3, <1>4 DEF Init, TypeOK, ScanType, Phases

LEMMA TypeStep == TypeOK /\ [Next]_vars => TypeOK'
<1> SUFFICES ASSUME TypeOK, [Next]_vars PROVE TypeOK'
  OBVIOUS
<1> USE DEF TypeOK
<1>0. Scanning => Current \in Jobs
  BY DEF Scanning, Current
<1>1. CASE TakeChld BY <1>1 DEF TakeChld, Phases
<1>2. CASE WaitPid
  <2>1. pc' \in Phases
    BY <1>2 DEF WaitPid, Phases
  <2>2. proc' \in [Pids -> Proc]
    BY <1>2, FreeType DEF WaitPid
  <2>3. exited' \in Seq([pid : Pids, ok : BOOLEAN])
    <3>1. ASSUME NEW p \in Pids
          PROVE  Append(exited, [pid |-> p, ok |-> proc[p].ok])
                   \in Seq([pid : Pids, ok : BOOLEAN])
      <4>1. [pid |-> p, ok |-> proc[p].ok] \in [pid : Pids, ok : BOOLEAN]
        BY DEF Proc
      <4> QED BY <4>1, AppendProperties
    <3>2. exited' = exited \/ \E p \in Pids : exited' = Append(exited, [pid |-> p, ok |-> proc[p].ok])
      BY <1>2 DEF WaitPid
    <3> QED BY <3>1, <3>2
  <2> QED BY <1>2, <2>1, <2>2, <2>3 DEF WaitPid
<1>3. CASE HandleDone BY <1>3 DEF HandleDone, Phases
<1>4. CASE TakeHup
  <2>1. ASSUME NEW c \in Configs, LoadConfig(c)
        PROVE  conf' \in Configs /\ jobs' \in Seq(Jobs) /\ execTime' \in [Jobs -> Nat]
    <3>1. jobs' \in Seq(Jobs)
      BY <2>1, LoadOrdersType DEF LoadConfig
    <3>2. execTime' \in [Jobs -> Nat]
      BY <2>1 DEF LoadConfig
    <3> QED BY <2>1, <3>1, <3>2 DEF LoadConfig
  <2> QED BY <1>4, <2>1 DEF TakeHup, Phases
<1>5. CASE TakeTerm BY <1>5 DEF TakeTerm, Phases
<1>6. CASE TakeUsr2 BY <1>6 DEF TakeUsr2, Phases
<1>7. CASE WatchEvent
  <2>1. PICK path \in Paths : StartJobs([kind |-> "watch", path |-> path])
    BY <1>7 DEF WatchEvent
  <2>2. [kind |-> "watch", path |-> path] \in Triggers
    BY DEF Triggers
  <2> QED BY <1>7, <2>1, <2>2, StartJobsType DEF WatchEvent, ScanType
<1>8. CASE WatchDone BY <1>8 DEF WatchDone, Phases
<1>9. CASE UdpMessage
  <2>1. PICK m \in Messages : StartJobs([kind |-> "notify", msg |-> m])
    BY <1>9 DEF UdpMessage
  <2>2. [kind |-> "notify", msg |-> m] \in Triggers
    BY DEF Triggers
  <2> QED BY <1>9, <2>1, <2>2, StartJobsType DEF UdpMessage, ScanType
<1>10. CASE UdpWouldBlock BY <1>10 DEF UdpWouldBlock, Phases
<1>11. CASE TimerTick BY <1>11 DEF TimerTick, Phases
<1>12. CASE TimerScan
  <2>1. TimeTrigger \in Triggers
    BY DEF Triggers, TimeTrigger
  <2> QED BY <1>12, <2>1, StartJobsType DEF TimerScan, ScanType
<1>13. CASE ScanSkip
  BY <1>13, NextJobType DEF ScanSkip, ScanType
<1>14. CASE ScanRunning
  <2>1. proc' \in [Pids -> Proc]
    BY <1>14, KillType DEF ScanRunning
  <2>2. scan' \in ScanType
    BY <1>14, NextJobType DEF ScanRunning, ScanType
  <2> QED BY <1>14, <2>1, <2>2 DEF ScanRunning, ScanType
<1>15. CASE ExecFails
  BY <1>15, NextJobType DEF ExecFails, ScanType
<1>16. CASE EndScan
  <2>1. jobs' \in Seq(Jobs)
    BY <1>16, StableSortsType DEF EndScan
  <2>2. pc' \in Phases
    BY <1>16 DEF EndScan, After, Phases
  <2>3. pidToJob' \in [Pids -> Jobs \cup {NoJob}]
    BY <1>16 DEF EndScan
  <2> QED BY <1>16, <2>1, <2>2, <2>3, IdleType DEF EndScan, ScanType
<1>17. ASSUME NEW p \in Pids, NEW S \in SUBSET Pids, ExecJob(p, S) PROVE TypeOK'
  <2>1. Current \in Jobs /\ Cfg[conf][Current].conflicts \in SUBSET Jobs
    BY <1>0, <1>17, CfgType DEF ExecJob
  <2>2. proc' \in [Pids -> Proc]
    BY <1>17, <2>1, ForkedType, SenderType DEF ExecJob
  <2>3. scan' \in ScanType
    <3>1. /\ scan.i + 1 \in Nat \ {0} /\ scan.trigger \in Triggers /\ scan.now \in Nat
          /\ [scan.started EXCEPT ![p] = Current] \in [Pids -> Jobs \cup {NoJob}]
      BY <2>1
    <3>2. scan' = [trigger |-> scan.trigger, now |-> scan.now, i |-> scan.i + 1,
                   started |-> [scan.started EXCEPT ![p] = Current]]
      BY <1>17 DEF ExecJob
    <3> QED BY <3>1, <3>2 DEF ScanType
  <2>4. ran' \in [Jobs -> [now : Nat, at : Nat]] /\ execTime' \in [Jobs -> Nat]
    BY <1>17, <2>1 DEF ExecJob
  <2>5. running' \in [Jobs -> Pids \cup {NoPid}]
    BY <1>17, <2>1 DEF ExecJob
  <2> QED BY <1>17, <2>2, <2>3, <2>4, <2>5 DEF ExecJob, ScanType
<1>18. ASSUME NEW S \in SUBSET Pids, HandleExit(S) PROVE TypeOK'
  <2>1. exited' \in Seq([pid : Pids, ok : BOOLEAN])
    BY <1>18 DEF HandleExit
  <2>2. proc' \in [Pids -> Proc]
    BY <1>18, SenderType DEF HandleExit
  <2>3. pidToJob' \in [Pids -> Jobs \cup {NoJob}] /\ running' \in [Jobs -> Pids \cup {NoPid}]
    BY <1>18 DEF HandleExit
  <2> QED BY <1>18, <2>1, <2>2, <2>3 DEF HandleExit
<1>19. ASSUME NEW p \in Pids, ChildExec(p) PROVE TypeOK'
  <2>0. proc[p] \in Proc
    OBVIOUS
  <2>1. [proc[p] EXCEPT !.st = "exec"] \in Proc
    BY <2>0 DEF Proc
  <2> QED BY <1>19, <2>1 DEF ChildExec, daemonVars
<1>20. ASSUME NEW p \in Pids, ChildExit(p) PROVE TypeOK'
  <2>1. PICK ok \in BOOLEAN : proc' = [proc EXCEPT ![p].st = "zombie", ![p].ok = ok]
    BY <1>20 DEF ChildExit
  <2>0. proc[p] \in Proc
    OBVIOUS
  <2>2. [proc[p] EXCEPT !.st = "zombie", !.ok = ok] \in Proc
    BY <2>0 DEF Proc
  <2>3. proc' \in [Pids -> Proc]
    BY <2>1, <2>2
  <2> QED BY <1>20, <2>3 DEF ChildExit, daemonVars
<1>21. CASE OperatorSignal
  BY <1>21, ConstantsAssumption DEF OperatorSignal, daemonVars
<1>22. CASE ClockTick BY <1>22 DEF ClockTick, daemonVars
<1>23. CASE ClockSet BY <1>23, ConstantsAssumption DEF ClockSet, daemonVars
<1>24. CASE UNCHANGED vars BY <1>24 DEF vars
<1> QED
  BY <1>1, <1>2, <1>3, <1>4, <1>5, <1>6, <1>7, <1>8, <1>9, <1>10, <1>11, <1>12,
     <1>13, <1>14, <1>15, <1>16, <1>17, <1>18, <1>19, <1>20, <1>21, <1>22, <1>23,
     <1>24
  DEF Next, Daemon, Environment

THEOREM TypeCorrect == Spec => []TypeOK
BY TypeInit, TypeStep, PTL DEF Spec

-----------------------------------------------------------------------------
(* The inductive invariant: what the daemon's maps say of the processes.   *)
SafetyInv == /\ TypeOK
             /\ Bookkeeping
             /\ EveryJobProcessKnown
             /\ NoStuckEntry
             /\ MutualExclusion

LEMMA SafetyInit == Init => SafetyInv
<1> SUFFICES ASSUME Init PROVE SafetyInv
  OBVIOUS
<1>1. TypeOK
  BY TypeInit
<1>2. \A p \in Pids : proc[p].st = "free" /\ proc[p].job = NoJob
  BY DEF Init, Free
<1>3. \A j \in Jobs : running[j] = NoPid
  BY DEF Init
<1>4. Bookkeeping
  BY <1>2 DEF Init, Bookkeeping, Idle, NoneStarted
<1>5. EveryJobProcessKnown /\ NoStuckEntry /\ MutualExclusion
  BY <1>2, <1>3
  DEF EveryJobProcessKnown, NoStuckEntry, MutualExclusion, LiveJobs, Live
<1> QED BY <1>1, <1>4, <1>5 DEF SafetyInv

LEMMA ReapedPids ==
  ASSUME TypeOK, NEW k \in DOMAIN exited
  PROVE  exited[k].pid \in Pids
<1>1. exited \in Seq([pid : Pids, ok : BOOLEAN])
  BY DEF TypeOK
<1>2. k \in 1 .. Len(exited)
  BY <1>1
<1>3. exited[k] \in [pid : Pids, ok : BOOLEAN]
  BY <1>1, <1>2, ElementOfSeq, Zenon
<1> QED BY <1>3

LEMMA StartedType ==
  ASSUME TypeOK
  PROVE  \A p \in Pids : scan.started[p] \in Jobs \cup {NoJob}
BY DEF TypeOK

(* A step that leaves the maps and the owner of every process alone, and   *)
(* brings no process to life.                                              *)
LEMMA SameOwners ==
  ASSUME SafetyInv,
         UNCHANGED <<running, pidToJob, exited>>,
         scan'.started = scan.started,
         exited # <<>> => pc' \in {"wait", "handle"},
         pc' # "scan" => scan'.started = NoneStarted,
         \A p \in Pids : /\ proc'[p].job = proc[p].job
                         /\ proc'[p].avoid = proc[p].avoid
                         /\ proc'[p].st = "free" => proc[p].st = "free"
                         /\ proc'[p].st \in {"forked", "exec"} => Live(p)
  PROVE  Bookkeeping' /\ EveryJobProcessKnown' /\ NoStuckEntry' /\ MutualExclusion'
<1> USE DEF SafetyInv
<1>1. Bookkeeping'
  <2>1. \A k \in DOMAIN exited : exited[k].pid \in Pids
    BY ReapedPids
  <2> QED BY <2>1 DEF Bookkeeping
<1>2. EveryJobProcessKnown'
  BY DEF EveryJobProcessKnown
<1>3. NoStuckEntry'
  <2>1. \A j \in Jobs : running[j] # NoPid => running[j] \in Pids
    BY DEF TypeOK
  <2> QED BY <2>1 DEF NoStuckEntry
<1>4. MutualExclusion'
  BY DEF MutualExclusion, LiveJobs, Live
<1> QED BY <1>1, <1>2, <1>3, <1>4

(* A new process of its own is started for job j, and senders; no other    *)
(* process changes. Its pid was free, so the maps know nothing of it.      *)
LEMMA ExecJobSafe ==
  ASSUME SafetyInv, NEW p \in Pids, NEW S \in SUBSET Pids, ExecJob(p, S)
  PROVE  Bookkeeping' /\ EveryJobProcessKnown' /\ NoStuckEntry' /\ MutualExclusion'
<1> DEFINE j == Current
           avoid == Cfg[conf][j].conflicts
<1> USE DEF SafetyInv
<1>1. j \in Jobs /\ pc = "scan" /\ exited = <<>> /\ running[j] = NoPid
  BY DEF ExecJob, Scanning, Current, TypeOK, Bookkeeping
<1>2. /\ proc[p].st = "free" /\ p \notin S
      /\ \A q \in S : proc[q].st = "free"
  BY DEF ExecJob, FreePids, SenderSets
<1>3. /\ proc' = [q \in Pids |-> IF q = p THEN Forked(j, avoid)
                                 ELSE IF q \in S THEN Sender ELSE proc[q]]
      /\ running' = [running EXCEPT ![j] = p]
      /\ scan'.started = [scan.started EXCEPT ![p] = j]
      /\ UNCHANGED <<pc, exited, pidToJob>>
  BY DEF ExecJob, TypeOK
<1>4. \A n \in Jobs : n \in avoid => running[n] = NoPid
  BY DEF ExecJob, Passes, InConflicts
<1>5. /\ proc'[p].job = j /\ proc'[p].avoid = avoid /\ proc'[p].st = "forked"
      /\ \A q \in S : proc'[q].job = NoJob /\ proc'[q].st = "forked"
      /\ \A q \in Pids \ (S \cup {p}) : proc'[q] = proc[q]
  BY <1>2, <1>3 DEF Forked, Sender
<1>6. running'[j] = p /\ \A n \in Jobs \ {j} : running'[n] = running[n]
  BY <1>1, <1>3 DEF TypeOK
<1>7. scan'.started[p] = j /\ \A q \in Pids \ {p} : scan'.started[q] = scan.started[q]
  BY <1>3 DEF TypeOK
<1>8. \A q \in Pids : pidToJob[q] # j /\ scan.started[q] # j
  BY <1>1, ConstantsAssumption DEF Bookkeeping
<1>9. \A q \in Pids : proc[q].job # NoJob => q # p /\ q \notin S /\ proc[q].job \in Jobs \ {j}
  <2>1. \A q \in Pids : proc[q].job \in Jobs \cup {NoJob}
    BY DEF TypeOK, Proc
  <2> QED BY <1>1, <1>2, <2>1, ConstantsAssumption DEF Bookkeeping, EveryJobProcessKnown
<1>10. Bookkeeping'
  <2>1. \A q \in Pids : proc'[q].st = "free" => proc'[q].job = NoJob
    BY <1>5 DEF Bookkeeping
  <2>2. \A q \in Pids : pidToJob'[q] # NoJob => running'[pidToJob'[q]] = q
    BY <1>3, <1>6, <1>8 DEF Bookkeeping, TypeOK
  <2>3. \A q \in Pids : scan'.started[q] # NoJob => running'[scan'.started[q]] = q
    <3> SUFFICES ASSUME NEW q \in Pids, scan'.started[q] # NoJob
                 PROVE  running'[scan'.started[q]] = q
      OBVIOUS
    <3>1. CASE q = p BY <3>1, <1>6, <1>7
    <3>2. CASE q # p
      <4>1. scan'.started[q] = scan.started[q] /\ scan.started[q] \in Jobs \ {j}
        BY <3>2, <1>7, <1>8, StartedType
      <4> QED BY <4>1, <1>6 DEF Bookkeeping
    <3> QED BY <3>1, <3>2
  <2> QED BY <1>1, <1>3, <2>1, <2>2, <2>3 DEF Bookkeeping
<1>11. EveryJobProcessKnown'
  BY <1>5, <1>6, <1>9 DEF EveryJobProcessKnown
<1>12. NoStuckEntry'
  <2>1. ASSUME NEW n \in Jobs \ {j}, running[n] # NoPid
        PROVE  running[n] \in Pids /\ proc[running[n]].job = n
    BY <1>1, <2>1 DEF NoStuckEntry, TypeOK
  <2>2. ASSUME NEW n \in Jobs \ {j}, running[n] # NoPid
        PROVE  /\ proc'[running[n]].job = n
               /\ scan'.started[running[n]] = scan.started[running[n]]
    BY <2>1, <2>2, <1>5, <1>7, <1>9, ConstantsAssumption
  <2> SUFFICES ASSUME NEW n \in Jobs, running'[n] # NoPid
               PROVE  /\ \/ pidToJob'[running'[n]] = n
                         \/ scan'.started[running'[n]] = n
                      /\ proc'[running'[n]].job = n
    BY DEF NoStuckEntry
  <2>3. CASE n = j BY <2>3, <1>5, <1>6, <1>7
  <2>4. CASE n # j
    <3>1. running'[n] = running[n] /\ running[n] # NoPid
      BY <2>4, <1>6
    <3>2. pidToJob[running[n]] = n \/ scan.started[running[n]] = n
      BY <3>1 DEF NoStuckEntry
    <3> QED BY <2>4, <3>1, <3>2, <2>2, <1>3
  <2> QED BY <2>3, <2>4
<1>13. MutualExclusion'
  <2>1. \A q \in LiveJobs' : q = p \/ (q \in LiveJobs /\ proc'[q] = proc[q])
    BY <1>5 DEF LiveJobs, Live
  <2>2. \A q \in LiveJobs : proc[q].job # j /\ proc[q].job \notin avoid
    <3> SUFFICES ASSUME NEW q \in LiveJobs PROVE proc[q].job # j /\ proc[q].job \notin avoid
      OBVIOUS
    <3>1. q \in Pids /\ proc[q].job # NoJob
      BY DEF LiveJobs
    <3>2. proc[q].job \in Jobs \ {j} /\ running[proc[q].job] = q
      BY <1>9, <3>1 DEF EveryJobProcessKnown
    <3> QED BY <1>4, <3>1, <3>2, ConstantsAssumption
  <2> QED BY <1>5, <2>1, <2>2 DEF MutualExclusion
<1> QED BY <1>10, <1>11, <1>12, <1>13

(* waitpid() frees a pid; the maps keep it until it is handled.            *)
LEMMA WaitPidSafe ==
  ASSUME SafetyInv, WaitPid
  PROVE  Bookkeeping' /\ EveryJobProcessKnown' /\ NoStuckEntry' /\ MutualExclusion'
<1> USE DEF SafetyInv
<1>0. UNCHANGED <<running, pidToJob, scan>> /\ pc = "wait"
  BY DEF WaitPid
<1>1. CASE UNCHANGED <<exited, proc>>
  <2>1. pc' \in {"wait", "handle"}
    BY DEF WaitPid
  <2> QED BY <1>0, <1>1, <2>1, SameOwners DEF Live, Bookkeeping
<1>2. CASE \E p \in Pids :
             /\ exited' = Append(exited, [pid |-> p, ok |-> proc[p].ok])
             /\ proc' = [proc EXCEPT ![p] = Free]
             /\ UNCHANGED pc
  <2>1. PICK p \in Pids : /\ exited' = Append(exited, [pid |-> p, ok |-> proc[p].ok])
                          /\ proc' = [proc EXCEPT ![p] = Free]
                          /\ UNCHANGED pc
    BY <1>2
  <2>2. /\ proc'[p] = Free
        /\ \A q \in Pids \ {p} : proc'[q] = proc[q]
    BY <2>1 DEF TypeOK
  <2>3. Free.job = NoJob /\ Free.st = "free"
    BY DEF Free
  <2>4. /\ DOMAIN exited' = 1 .. Len(exited) + 1
        /\ DOMAIN exited = 1 .. Len(exited)
        /\ \A k \in DOMAIN exited : exited'[k] = exited[k]
        /\ exited'[Len(exited) + 1].pid = p
    BY <2>1 DEF TypeOK
  <2>5. Len(exited) \in Nat
    BY DEF TypeOK
  <2>6. Bookkeeping'
    <3>1. ASSUME NEW k \in DOMAIN exited' PROVE proc'[exited'[k].pid].job = NoJob
      <4>1. CASE k \in DOMAIN exited
        BY <4>1, <2>2, <2>3, <2>4, ReapedPids DEF Bookkeeping
      <4>2. CASE k = Len(exited) + 1
        BY <4>2, <2>2, <2>3, <2>4
      <4> QED BY <4>1, <4>2, <2>4, <2>5
    <3> QED BY <1>0, <2>1, <2>2, <2>3, <3>1 DEF Bookkeeping
  <2>7. EveryJobProcessKnown'
    BY <1>0, <2>2, <2>3 DEF EveryJobProcessKnown
  <2>8. NoStuckEntry'
    <3> SUFFICES ASSUME NEW j \in Jobs, running[j] # NoPid
                 PROVE  \/ proc'[running[j]].job = j
                        \/ \E k \in DOMAIN exited' : exited'[k].pid = running[j]
      BY <1>0 DEF NoStuckEntry
    <3>1. running[j] \in Pids
      BY DEF TypeOK
    <3>2. CASE running[j] = p
      BY <3>2, <2>4, <2>5
    <3>3. CASE running[j] # p /\ proc[running[j]].job = j
      BY <3>1, <3>3, <2>2
    <3>4. CASE \E k \in DOMAIN exited : exited[k].pid = running[j]
      BY <3>4, <2>4, <2>5
    <3> QED BY <3>2, <3>3, <3>4 DEF NoStuckEntry
  <2>9. MutualExclusion'
    BY <2>2, <2>3 DEF MutualExclusion, LiveJobs, Live
  <2> QED BY <2>6, <2>7, <2>8, <2>9
<1> QED BY <1>1, <1>2 DEF WaitPid

(* The entries of a reaped child go together; no live process has its pid  *)
(* and its job.                                                            *)
LEMMA HandleExitSafe ==
  ASSUME SafetyInv, NEW S \in SUBSET Pids, HandleExit(S)
  PROVE  Bookkeeping' /\ EveryJobProcessKnown' /\ NoStuckEntry' /\ MutualExclusion'
<1> DEFINE x == Head(exited).pid
           j == pidToJob[x]
<1> USE DEF SafetyInv
<1>1. /\ exited # <<>> /\ exited' = Tail(exited) /\ pc = "handle" /\ UNCHANGED <<pc, scan>>
      /\ \A q \in S : proc[q].st = "free"
      /\ proc' = [q \in Pids |-> IF q \in S THEN Sender ELSE proc[q]]
      /\ pidToJob' = [pidToJob EXCEPT ![x] = NoJob]
      /\ running' = [n \in Jobs |-> IF n = j THEN NoPid ELSE running[n]]
  BY DEF HandleExit, FreePids, SenderSets
<1>2. /\ Len(exited) \in Nat \ {0}
      /\ DOMAIN exited = 1 .. Len(exited)
      /\ DOMAIN exited' = 1 .. Len(exited) - 1
      /\ \A k \in DOMAIN exited' : exited'[k] = exited[k + 1]
      /\ x = exited[1].pid
  <2>1. exited \in Seq([pid : Pids, ok : BOOLEAN])
    BY DEF TypeOK
  <2> QED BY <1>1, <2>1, HeadTailProperties
<1>3. x \in Pids /\ proc[x].job = NoJob
  BY <1>2, ReapedPids DEF Bookkeeping
<1>4. \A q \in Pids : /\ q \in S => proc'[q].job = NoJob /\ proc'[q].st = "forked"
                      /\ q \notin S => proc'[q] = proc[q]
                      /\ q \in S => proc[q].job = NoJob
  BY <1>1 DEF Sender, Forked, Bookkeeping
<1>5. /\ pidToJob'[x] = NoJob
      /\ \A q \in Pids \ {x} : pidToJob'[q] = pidToJob[q]
  BY <1>1, <1>3 DEF TypeOK
<1>6. \A q \in Pids : scan.started[q] = NoJob
  BY <1>1 DEF Bookkeeping, NoneStarted
<1>7. j # NoJob => running[j] = x
  BY <1>3 DEF Bookkeeping
<1>8. \A q \in Pids : pidToJob[q] \in Jobs \cup {NoJob} /\ proc[q].job \in Jobs \cup {NoJob}
  BY DEF TypeOK, Proc
<1>9. Bookkeeping'
  <2>1. \A q \in Pids : proc'[q].st = "free" => proc'[q].job = NoJob
    BY <1>4 DEF Bookkeeping
  <2>2. ASSUME NEW q \in Pids, pidToJob'[q] # NoJob PROVE running'[pidToJob'[q]] = q
    <3>1. q # x /\ pidToJob'[q] = pidToJob[q] /\ pidToJob[q] \in Jobs /\ running[pidToJob[q]] = q
      BY <2>2, <1>5, <1>8 DEF Bookkeeping
    <3>2. pidToJob[q] # j
      BY <3>1, <1>7, <2>2
    <3> QED BY <3>1, <3>2, <1>1
  <2>3. ASSUME NEW k \in DOMAIN exited' PROVE proc'[exited'[k].pid].job = NoJob
    <3>1. k + 1 \in DOMAIN exited /\ exited'[k] = exited[k + 1]
      BY <1>2
    <3>2. exited[k + 1].pid \in Pids /\ proc[exited[k + 1].pid].job = NoJob
      BY <3>1, ReapedPids DEF Bookkeeping
    <3> QED BY <3>1, <3>2, <1>4
  <2> QED BY <2>1, <2>2, <2>3, <1>1, <1>6 DEF Bookkeeping
<1>10. EveryJobProcessKnown'
  <2> SUFFICES ASSUME NEW q \in Pids, proc'[q].job # NoJob
               PROVE  running'[proc'[q].job] = q
    BY DEF EveryJobProcessKnown
  <2>1. q \notin S /\ proc'[q] = proc[q] /\ proc[q].job \in Jobs
    BY <1>4, <1>8
  <2>2. running[proc[q].job] = q /\ q # x
    BY <2>1, <1>3, ConstantsAssumption DEF EveryJobProcessKnown
  <2>3. proc[q].job # j
    BY <2>1, <2>2, <1>7, ConstantsAssumption
  <2> QED BY <2>1, <2>2, <2>3, <1>1
<1>11. NoStuckEntry'
  <2> SUFFICES ASSUME NEW n \in Jobs, running'[n] # NoPid
               PROVE  /\ pidToJob'[running'[n]] = n
                      /\ \/ proc'[running'[n]].job = n
                         \/ \E k \in DOMAIN exited' : exited'[k].pid = running'[n]
    BY DEF NoStuckEntry
  <2>1. n # j /\ running'[n] = running[n] /\ running[n] \in Pids
    BY <1>1 DEF TypeOK
  <2>2. pidToJob[running[n]] = n
    BY <2>1, <1>6, ConstantsAssumption DEF NoStuckEntry
  <2>3. running[n] # x
    BY <2>1, <2>2
  <2>4. CASE proc[running[n]].job = n
    BY <2>1, <2>2, <2>3, <2>4, <1>4, <1>5, ConstantsAssumption
  <2>5. CASE \E k \in DOMAIN exited : exited[k].pid = running[n]
    <3>1. PICK k \in DOMAIN exited : exited[k].pid = running[n]
      BY <2>5
    <3>2. k # 1 /\ k - 1 \in DOMAIN exited' /\ exited'[k - 1] = exited[k]
      BY <3>1, <2>3, <1>2
    <3> QED BY <3>1, <3>2, <2>1, <2>2, <2>3, <1>5
  <2> QED BY <2>1, <2>4, <2>5 DEF NoStuckEntry
<1>12. MutualExclusion'
  BY <1>4 DEF MutualExclusion, LiveJobs, Live
<1> QED BY <1>9, <1>10, <1>11, <1>12

(* The end of start_jobs() records the pids of the jobs it started; an     *)
(* entry it overwrites would belong to the same job.                       *)
LEMMA EndScanSafe ==
  ASSUME SafetyInv, EndScan
  PROVE  Bookkeeping' /\ EveryJobProcessKnown' /\ NoStuckEntry' /\ MutualExclusion'
<1> USE DEF SafetyInv
<1>1. /\ pc = "scan" /\ scan' = Idle /\ UNCHANGED <<running, exited, proc>>
      /\ pidToJob' = [p \in Pids |-> IF scan.started[p] # NoJob
                                     THEN scan.started[p] ELSE pidToJob[p]]
  BY DEF EndScan
<1>2. exited = <<>> /\ DOMAIN exited = {}
  BY <1>1 DEF Bookkeeping
<1>3. Idle.started = NoneStarted /\ \A p \in Pids : NoneStarted[p] = NoJob
  BY DEF Idle, NoneStarted
<1>4. Bookkeeping'
  BY <1>1, <1>2, <1>3 DEF Bookkeeping
<1>5. EveryJobProcessKnown'
  BY <1>1 DEF EveryJobProcessKnown
<1>6. NoStuckEntry'
  <2> SUFFICES ASSUME NEW j \in Jobs, running[j] # NoPid
               PROVE  pidToJob'[running[j]] = j /\ proc[running[j]].job = j
    BY <1>1 DEF NoStuckEntry
  <2> DEFINE p == running[j]
  <2>1. p \in Pids /\ proc[p].job = j /\ (pidToJob[p] = j \/ scan.started[p] = j)
    BY <1>2 DEF NoStuckEntry, TypeOK
  <2>2. CASE scan.started[p] = NoJob
    BY <2>1, <2>2, <1>1, ConstantsAssumption
  <2>3. CASE scan.started[p] # NoJob
    <3>1. scan.started[p] \in Jobs /\ running[scan.started[p]] = p
      BY <2>1, <2>3, StartedType DEF Bookkeeping
    <3>2. proc[p].job = scan.started[p]
      BY <3>1, <2>1, <1>2, ConstantsAssumption DEF NoStuckEntry
    <3> QED BY <2>1, <2>3, <3>2, <1>1
  <2> QED BY <2>2, <2>3
<1>7. MutualExclusion'
  BY <1>1 DEF MutualExclusion, LiveJobs, Live
<1> QED BY <1>4, <1>5, <1>6, <1>7

LEMMA SafetyStep == SafetyInv /\ [Next]_vars => SafetyInv'
<1> SUFFICES ASSUME SafetyInv, [Next]_vars
             PROVE  Bookkeeping' /\ EveryJobProcessKnown' /\ NoStuckEntry' /\ MutualExclusion'
  BY TypeStep DEF SafetyInv
<1> USE DEF SafetyInv
<1>0. /\ exited # <<>> => pc \in {"wait", "handle"}
      /\ pc # "scan" => scan.started = NoneStarted
      /\ \A p \in Pids : proc[p].st \in {"forked", "exec"} => Live(p)
  BY DEF Bookkeeping, Live
<1>1. CASE TakeChld
  BY <1>1, <1>0, SameOwners DEF TakeChld
<1>2. CASE WaitPid
  BY <1>2, WaitPidSafe
<1>3. CASE HandleDone
  BY <1>3, <1>0, SameOwners DEF HandleDone
<1>4. CASE TakeHup
  BY <1>4, <1>0, SameOwners DEF TakeHup
<1>5. CASE TakeTerm
  BY <1>5, <1>0, SameOwners DEF TakeTerm
<1>6. CASE TakeUsr2
  BY <1>6, <1>0, SameOwners DEF TakeUsr2
<1>7. ASSUME NEW t, StartJobs(t), pc \in {"watch", "udp", "timer"},
             UNCHANGED <<running, pidToJob, exited, proc>>
      PROVE  Bookkeeping' /\ EveryJobProcessKnown' /\ NoStuckEntry' /\ MutualExclusion'
  BY <1>7, <1>0, SameOwners DEF StartJobs
<1>8. CASE WatchEvent
  BY <1>8, <1>7 DEF WatchEvent
<1>9. CASE WatchDone
  BY <1>9, <1>0, SameOwners DEF WatchDone
<1>10. CASE UdpMessage
  BY <1>10, <1>7 DEF UdpMessage
<1>11. CASE UdpWouldBlock
  BY <1>11, <1>0, SameOwners DEF UdpWouldBlock
<1>12. CASE TimerTick
  BY <1>12, <1>0, SameOwners DEF TimerTick
<1>13. CASE TimerScan
  BY <1>13, <1>7 DEF TimerScan
<1>14. ASSUME Scanning, NextJob, UNCHANGED <<running, pidToJob, exited, pc>>
       PROVE  /\ scan'.started = scan.started
              /\ exited # <<>> => pc' \in {"wait", "handle"}
              /\ pc' # "scan" => scan'.started = NoneStarted
  BY <1>14, <1>0 DEF Scanning, NextJob, TypeOK
<1>15. CASE ScanSkip
  BY <1>15, <1>14, <1>0, SameOwners DEF ScanSkip
<1>16. CASE ScanRunning
  <2>1. ASSUME NEW p \in Pids
        PROVE  /\ Kill(running[Current])[p].job = proc[p].job
               /\ Kill(running[Current])[p].avoid = proc[p].avoid
               /\ Kill(running[Current])[p].st = proc[p].st
    BY DEF Kill, TypeOK, Proc
  <2>2. proc' = Kill(running[Current]) \/ proc' = proc
    BY <1>16 DEF ScanRunning
  <2>3. UNCHANGED <<running, pidToJob, exited, pc>> /\ Scanning /\ NextJob
    BY <1>16 DEF ScanRunning
  <2> QED BY <2>1, <2>2, <2>3, <1>14, <1>0, SameOwners
<1>17. CASE ExecFails
  BY <1>17, <1>14, <1>0, SameOwners DEF ExecFails
<1>18. CASE EndScan
  BY <1>18, EndScanSafe
<1>19. ASSUME NEW p \in Pids, NEW S \in SUBSET Pids, ExecJob(p, S)
       PROVE  Bookkeeping' /\ EveryJobProcessKnown' /\ NoStuckEntry' /\ MutualExclusion'
  BY <1>19, ExecJobSafe
<1>20. ASSUME NEW S \in SUBSET Pids, HandleExit(S)
       PROVE  Bookkeeping' /\ EveryJobProcessKnown' /\ NoStuckEntry' /\ MutualExclusion'
  BY <1>20, HandleExitSafe
<1>21. ASSUME NEW p \in Pids, ChildExec(p) \/ ChildExit(p)
       PROVE  Bookkeeping' /\ EveryJobProcessKnown' /\ NoStuckEntry' /\ MutualExclusion'
  <2>1. UNCHANGED daemonVars
    BY <1>21 DEF ChildExec, ChildExit
  <2>2. Live(p)
    BY <1>21 DEF ChildExec, ChildExit, Live
  <2>3. ASSUME NEW q \in Pids
        PROVE  /\ proc'[q].job = proc[q].job
               /\ proc'[q].avoid = proc[q].avoid
               /\ proc'[q].st = "free" => proc[q].st = "free"
               /\ proc'[q].st \in {"forked", "exec"} => Live(q)
    <3>1. CASE ChildExec(p)
      BY <3>1, <2>2, <1>0 DEF ChildExec, TypeOK, Proc
    <3>2. CASE ChildExit(p)
      BY <3>2, <2>2, <1>0 DEF ChildExit, TypeOK, Proc
    <3> QED BY <1>21, <3>1, <3>2
  <2> QED BY <2>1, <2>3, <1>0, SameOwners DEF daemonVars
<1>22. CASE OperatorSignal \/ ClockTick \/ ClockSet \/ UNCHANGED vars
  BY <1>22, <1>0, SameOwners DEF OperatorSignal, ClockTick, ClockSet, daemonVars, vars
<1> QED
  BY <1>1, <1>2, <1>3, <1>4, <1>5, <1>6, <1>8, <1>9, <1>10, <1>11, <1>12, <1>13,
     <1>15, <1>16, <1>17, <1>18, <1>19, <1>20, <1>21, <1>22
  DEF Next, Daemon, Environment

LEMMA Safety == Spec => []SafetyInv
BY SafetyInit, SafetyStep, PTL DEF Spec

(* The running map forgets no process of a job that is not reaped: what    *)
(* start_jobs() reads there of conflicts and of the job itself is true.    *)
THEOREM RunningMapKnowsAll == Spec => []EveryJobProcessKnown
BY Safety, PTL DEF SafetyInv

(* No entry outlives its process without a way to be removed, under any    *)
(* reuse of pids and merging of SIGCHLDs.                                  *)
THEOREM RunningMapNeverStuck == Spec => []NoStuckEntry
BY Safety, PTL DEF SafetyInv

(* The maps of names to pids and of pids to names are inverse where both   *)
(* are defined, and a pid reaped but not handled belongs to no job anew.   *)
THEOREM MapsAgree == Spec => []Bookkeeping
BY Safety, PTL DEF SafetyInv

(* Jobs that list each other under conflicts never run at the same time,   *)
(* and no job runs twice, for any set of jobs, configurations, pids and    *)
(* signals.                                                                *)
THEOREM Exclusive == Spec => []MutualExclusion
BY Safety, PTL DEF SafetyInv

-----------------------------------------------------------------------------
(* The daemon implements Exclusion.tla: under the mapping Active each step *)
(* starts one program that nothing alive forbids, ends one, or changes     *)
(* nothing.                                                                *)
LEMMA SameActive ==
  ASSUME LiveJobs' = LiveJobs,
         \A p \in LiveJobs : proc'[p].job = proc[p].job /\ proc'[p].avoid = proc[p].avoid
  PROVE  Active' = Active
BY DEF Active

LEMMA ExecJobStarts ==
  ASSUME SafetyInv, NEW p \in Pids, NEW S \in SUBSET Pids, ExecJob(p, S)
  PROVE  Abstract!Next
<1> DEFINE j == Current
           avoid == Cfg[conf][j].conflicts
<1> USE DEF SafetyInv
<1>1. j \in Jobs /\ running[j] = NoPid /\ avoid \in SUBSET Jobs
  BY CfgType DEF ExecJob, Scanning, Current, TypeOK
<1>2. /\ proc[p].st = "free" /\ p \notin S
      /\ \A q \in S : proc[q].st = "free"
  BY DEF ExecJob, FreePids, SenderSets
<1>3. proc' = [q \in Pids |-> IF q = p THEN Forked(j, avoid)
                              ELSE IF q \in S THEN Sender ELSE proc[q]]
  BY DEF ExecJob
<1>4. /\ proc'[p].job = j /\ proc'[p].avoid = avoid /\ proc'[p].st = "forked"
      /\ \A q \in S : proc'[q].job = NoJob
      /\ \A q \in Pids \ (S \cup {p}) : proc'[q] = proc[q]
  BY <1>2, <1>3 DEF Forked, Sender
<1>5. LiveJobs' = LiveJobs \cup {p} /\ p \notin LiveJobs
  BY <1>1, <1>2, <1>4, ConstantsAssumption DEF LiveJobs, Live
<1>6. \A q \in LiveJobs : proc'[q] = proc[q]
  BY <1>2, <1>4, <1>5 DEF LiveJobs, Live
<1>7. Active' = Active \cup {[job |-> j, avoid |-> avoid]}
  BY <1>4, <1>5, <1>6 DEF Active
<1>8. \A n \in Jobs : n \in avoid => running[n] = NoPid
  BY DEF ExecJob, Passes, InConflicts
<1>9. ASSUME NEW q \in LiveJobs PROVE proc[q].job # j /\ proc[q].job \notin avoid
  <2>1. q \in Pids /\ running[proc[q].job] = q
    BY DEF LiveJobs, EveryJobProcessKnown
  <2> QED BY <1>1, <1>8, <2>1, ConstantsAssumption
<1>10. \A a \in Active : a.job # j /\ a.job \notin avoid
  BY <1>9 DEF Active
<1>11. Abstract!Start(j, avoid)
  BY <1>7, <1>10 DEF Abstract!Start
<1> DEFINE started == [job |-> j, avoid |-> avoid]
<1>12. started \in Active' \ Active /\ started.job = j /\ started.avoid = avoid
  BY <1>7, <1>10
<1> QED BY <1>11, <1>12 DEF Abstract!Next

LEMMA ChildExitEnds ==
  ASSUME SafetyInv, NEW p \in Pids, ChildExit(p)
  PROVE  Abstract!Next \/ Active' = Active
<1> USE DEF SafetyInv
<1>1. Live(p) /\ proc'[p].st = "zombie" /\ \A q \in Pids \ {p} : proc'[q] = proc[q]
  BY DEF ChildExit, TypeOK, Proc
<1>2. LiveJobs' = LiveJobs \ {p}
  BY <1>1 DEF LiveJobs, Live
<1>3. CASE proc[p].job = NoJob
  <2>1. LiveJobs' = LiveJobs /\ \A q \in LiveJobs : proc'[q] = proc[q]
    BY <1>1, <1>2, <1>3 DEF LiveJobs
  <2> QED BY <2>1, SameActive
<1>4. CASE proc[p].job # NoJob
  <2> DEFINE ended == [job |-> proc[p].job, avoid |-> proc[p].avoid]
  <2>1. p \in LiveJobs /\ ended \in Active
    BY <1>1, <1>4 DEF LiveJobs, Active
  <2>2. \A q \in LiveJobs \ {p} : proc[q].job # proc[p].job
    BY <2>1 DEF MutualExclusion
  <2>3. Active' = {[job |-> proc[q].job, avoid |-> proc[q].avoid] : q \in LiveJobs \ {p}}
    BY <1>1, <1>2 DEF Active, LiveJobs
  <2>4. Active' = Active \ {ended}
    BY <2>1, <2>2, <2>3 DEF Active
  <2> QED BY <2>1, <2>4 DEF Abstract!Next, Abstract!End
<1> QED BY <1>3, <1>4

LEMMA RefinementStep == SafetyInv /\ [Next]_vars => [Abstract!Next]_Active
<1> SUFFICES ASSUME SafetyInv, [Next]_vars PROVE Abstract!Next \/ Active' = Active
  OBVIOUS
<1> USE DEF SafetyInv
<1>1. CASE UNCHANGED proc
  BY <1>1 DEF Active, LiveJobs, Live
<1>2. CASE WaitPid
  <2>1. CASE UNCHANGED proc BY <2>1, <1>1
  <2>2. CASE ~UNCHANGED proc
    <3>1. PICK p \in Pids : proc[p].st = "zombie" /\ proc' = [proc EXCEPT ![p] = Free]
      BY <1>2, <2>2 DEF WaitPid
    <3>2. \A q \in Pids : /\ q # p => proc'[q] = proc[q]
                          /\ q = p => proc'[q] = Free
      BY <3>1 DEF TypeOK
    <3>3. LiveJobs' = LiveJobs /\ \A q \in LiveJobs : proc'[q] = proc[q]
      BY <3>1, <3>2 DEF LiveJobs, Live, Free
    <3> QED BY <3>3, SameActive
  <2> QED BY <2>1, <2>2
<1>3. CASE ScanRunning
  <2>1. \A q \in Pids : /\ proc'[q].job = proc[q].job
                        /\ proc'[q].avoid = proc[q].avoid
                        /\ proc'[q].st = proc[q].st
    BY <1>3 DEF ScanRunning, Kill, TypeOK, Proc
  <2>2. LiveJobs' = LiveJobs /\ LiveJobs \subseteq Pids
    BY <2>1 DEF LiveJobs, Live
  <2> QED BY <2>1, <2>2, SameActive
<1>4. ASSUME NEW p \in Pids, NEW S \in SUBSET Pids, ExecJob(p, S) PROVE Abstract!Next
  BY <1>4, ExecJobStarts
<1>5. ASSUME NEW S \in SUBSET Pids, HandleExit(S) PROVE Active' = Active
  <2>1. /\ \A q \in S : proc[q].st = "free"
        /\ proc' = [q \in Pids |-> IF q \in S THEN Sender ELSE proc[q]]
    BY <1>5 DEF HandleExit, FreePids, SenderSets
  <2>2. \A q \in Pids : /\ q \in S => proc'[q].job = NoJob
                        /\ q \notin S => proc'[q] = proc[q]
    BY <2>1 DEF Sender, Forked
  <2>3. LiveJobs' = LiveJobs /\ \A q \in LiveJobs : proc'[q] = proc[q]
    BY <2>1, <2>2 DEF LiveJobs, Live
  <2> QED BY <2>3, SameActive
<1>6. ASSUME NEW p \in Pids, ChildExec(p) PROVE Active' = Active
  <2>1. \A q \in Pids : /\ proc'[q].job = proc[q].job
                        /\ proc'[q].avoid = proc[q].avoid
                        /\ q # p => proc'[q].st = proc[q].st
    BY <1>6 DEF ChildExec, TypeOK, Proc
  <2>2. proc[p].st = "forked" /\ proc'[p].st = "exec"
    BY <1>6 DEF ChildExec, TypeOK, Proc
  <2>3. LiveJobs' = LiveJobs /\ LiveJobs \subseteq Pids
    BY <2>1, <2>2 DEF LiveJobs, Live
  <2> QED BY <2>1, <2>3, SameActive
<1>7. ASSUME NEW p \in Pids, ChildExit(p) PROVE Abstract!Next \/ Active' = Active
  BY <1>7, ChildExitEnds
<1> QED
  BY <1>1, <1>2, <1>3, <1>4, <1>5, <1>6, <1>7
  DEF Next, Daemon, Environment, vars, TakeChld, HandleDone, TakeHup, TakeTerm,
      TakeUsr2, WatchEvent, WatchDone, UdpMessage, UdpWouldBlock, TimerTick,
      TimerScan, ScanSkip, ExecFails, EndScan, OperatorSignal, ClockTick, ClockSet

(* Every behaviour of the daemon is one of the abstract exclusion: a       *)
(* program starts only when none of its job and none on its conflicts list *)
(* is alive, whatever happens between the checks and the start.            *)
THEOREM Refinement == Spec => ImplementsExclusion
<1>1. Init => Abstract!Init
  BY DEF Init, Abstract!Init, Active, LiveJobs, Live, Free
<1> QED BY <1>1, Safety, RefinementStep, PTL DEF Spec, ImplementsExclusion, Abstract!Spec
=============================================================================
