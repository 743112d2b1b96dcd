------------------------------ MODULE Lifecycle ------------------------------
(***************************************************************************)
(* Daemons that are started, stopped and killed on one host: the order in  *)
(* which main() takes the PID file, the signal handlers and the port, the  *)
(* loop as far as signals see it, and the children that outlive a daemon.  *)
(*                                                                         *)
(* A turn of the loop is a step per signal; reaping and handling exits, or *)
(* starting jobs, is one step each (Scheduler.tla has them in detail).     *)
(*                                                                         *)
(* Beside the daemons there is an operator who restarts them as the README *)
(* says: USR2, wait for all jobs to finish, TERM, start anew.              *)
(***************************************************************************)
EXTENDS Naturals, FiniteSets

CONSTANTS
  Daemons,     \* pids of the daemons that may be started, each once
  Jobs,        \* names of jobs
  NoPid,       \* content of a PID file that is absent or empty
  Signals,     \* signals that others than the operator may send
  MaxSenders   \* bound on the notify senders of a daemon

ASSUME LifecycleAssumption ==
  /\ NoPid \notin Daemons
  /\ Signals \subseteq {"HUP", "USR1", "USR2", "TERM"}
  /\ MaxSenders \in Nat

VARIABLES
  phase,    \* daemon -> what it does next
  cause,    \* daemon -> why it ended
  flags,    \* daemon -> signals caught and not handled
  noNew,    \* daemon -> no_new_jobs
  running,  \* daemon -> jobs in its running map
  report,   \* daemon -> what SIGUSR1 printed since it was sent last: {} or
            \* {a set of jobs}
  proc,     \* daemon -> job -> the process it started for it
  senders,  \* daemon -> notify senders it forked that have not ended
  file,     \* the pid in the PID file
  op,       \* where the operator is in a restart
  target,   \* the daemon the operator restarts
  upset     \* history: what has happened that the README does not foresee

daemonVars == <<phase, cause, flags, noNew, running, report>>
children == <<proc, senders>>
others == <<file, op, target, upset>>
vars == <<daemonVars, children, others>>

Prologue == {"pid", "config", "watcher", "bind"}
Loop == {"chld", "hup", "term", "usr1", "usr2", "jobs"}
Gone == {"unborn", "dead"}
Sigs == {"HUP", "USR1", "USR2", "TERM"}

Alive(d) == phase[d] \notin Gone
Serves(d) == phase[d] \in Loop
Catches(d) == phase[d] \notin Gone \cup {"pid", "config"}
LiveJob(d, j) == proc[d][j] \in {"forked", "exec"}

Init ==
  /\ phase = [d \in Daemons |-> "unborn"]
  /\ cause = [d \in Daemons |-> "none"]
  /\ flags = [d \in Daemons |-> {}]
  /\ noNew = [d \in Daemons |-> FALSE]
  /\ running = [d \in Daemons |-> {}]
  /\ report = [d \in Daemons |-> {}]
  /\ proc = [d \in Daemons |-> [j \in Jobs |-> "none"]]
  /\ senders = [d \in Daemons |-> 0]
  /\ file = NoPid
  /\ op = "none"
  /\ target = NoPid
  /\ upset = {}

Goes(d, from, to) == phase[d] = from /\ phase' = [phase EXCEPT ![d] = to]

(* The memory of a daemon ends with it; its children live on, and init     *)
(* reaps them.                                                             *)
Orphaned(d) ==
  [proc EXCEPT ![d] = [j \in Jobs |-> IF @[j] = "zombie" THEN "none" ELSE @[j]]]

Ends(d, why) ==
  /\ phase' = [phase EXCEPT ![d] = "dead"]
  /\ cause' = [cause EXCEPT ![d] = why]
  /\ flags' = [flags EXCEPT ![d] = {}]
  /\ noNew' = [noNew EXCEPT ![d] = FALSE]
  /\ running' = [running EXCEPT ![d] = {}]
  /\ report' = [report EXCEPT ![d] = {}]
  /\ proc' = Orphaned(d)

memory == <<flags, noNew, running, report>>

-----------------------------------------------------------------------------
(* main() before the loop.                                                 *)

(* The process after daemonize(). An init system may start a second one.   *)
Start(d) ==
  /\ Goes(d, "unborn", "pid")
  /\ IF \E e \in Daemons : Alive(e)
     THEN upset' = upset \cup {"overlap"} /\ UNCHANGED <<op, target>>
     ELSE op' = "none" /\ target' = NoPid /\ UNCHANGED upset
  /\ UNCHANGED <<cause, flags, noNew, running, report, children, file>>

(* Faulty variant: a file that is there is not written again.              *)
FirstWriter(d) == IF file = NoPid THEN d ELSE file
Writer(d) == d

(* File::create() or the write may fail, which is only logged.             *)
WritePidFile(d) ==
  /\ Goes(d, "pid", "config")
  /\ \/ file' = Writer(d) /\ UNCHANGED upset
     \/ file' \in {file, NoPid} /\ upset' = upset \cup {"unwritten"}
  /\ UNCHANGED <<cause, flags, noNew, running, report, children, op, target>>

(* The configuration is read, and then the handlers are installed.         *)
SetupSignals(d) ==
  /\ Goes(d, "config", "watcher")
  /\ UNCHANGED <<cause, flags, noNew, running, report, children, others>>

NewWatcher(d) ==
  /\ phase[d] = "watcher"
  /\ \/ Goes(d, "watcher", "bind") /\ UNCHANGED <<cause, memory, proc>>
     \/ Ends(d, "watcher")
  /\ UNCHANGED <<senders, others>>

(* A socket lives as long as some process has it open: its daemon, the     *)
(* daemon's senders, which never exec, and jobs up to execvp(). Faulty     *)
(* variant: the port may be shared.                                        *)
PortShared(d) == TRUE
PortFree(d) ==
  \A e \in Daemons \ {d} :
    /\ phase[e] \notin Loop \cup {"exit"}
    /\ senders[e] = 0
    /\ \A j \in Jobs : proc[e][j] # "forked"

Bind(d) ==
  /\ phase[d] = "bind"
  /\ IF PortFree(d) THEN Goes(d, "bind", "chld") /\ UNCHANGED <<cause, memory, proc>>
                    ELSE Ends(d, "bind")
  /\ UNCHANGED <<senders, others>>

-----------------------------------------------------------------------------
(* The loop.                                                               *)

Swap(d, s) == flags' = [flags EXCEPT ![d] = @ \ {s}]

(* send_notify() for some of the targets of a start or an end.             *)
ForksSenders(d, J) ==
  \E n \in senders[d] .. MaxSenders :
    (J = {} => n = senders[d]) /\ senders' = [senders EXCEPT ![d] = n]

(* Faulty variant: an exit is logged and its job stays in the map.         *)
RunningKept(d, J) == running
Freed(d, J) == [running EXCEPT ![d] = @ \ J]

Reap(d) ==
  LET ended == IF "CHLD" \in flags[d] THEN {j \in Jobs : proc[d][j] = "zombie"} ELSE {}
  IN /\ Goes(d, "chld", "hup")
     /\ Swap(d, "CHLD")
     /\ ForksSenders(d, ended)
     /\ proc' = [proc EXCEPT ![d] = [j \in Jobs |-> IF j \in ended THEN "none" ELSE @[j]]]
     /\ running' = Freed(d, ended)
     /\ UNCHANGED <<cause, noNew, report, others>>

Reload(d) ==
  /\ Goes(d, "hup", "term")
  /\ Swap(d, "HUP")
  /\ UNCHANGED <<cause, noNew, running, report, children, others>>

(* remove_file() takes whatever file is there.                             *)
TakeTerm(d) ==
  /\ IF "TERM" \in flags[d] THEN Goes(d, "term", "exit") /\ file' = NoPid
                            ELSE Goes(d, "term", "usr1") /\ UNCHANGED file
  /\ UNCHANGED <<cause, flags, noNew, running, report, children, op, target, upset>>

Exit(d) ==
  /\ phase[d] = "exit"
  /\ Ends(d, "term")
  /\ UNCHANGED <<senders, others>>

PrintRunning(d) ==
  /\ Goes(d, "usr1", "usr2")
  /\ Swap(d, "USR1")
  /\ report' = IF "USR1" \in flags[d] THEN [report EXCEPT ![d] = {running[d]}] ELSE report
  /\ UNCHANGED <<cause, noNew, running, children, others>>

Toggle(d) ==
  /\ Goes(d, "usr2", "jobs")
  /\ Swap(d, "USR2")
  /\ noNew' = [noNew EXCEPT ![d] = IF "USR2" \in flags[d] THEN ~@ ELSE @]
  /\ UNCHANGED <<cause, running, report, children, others>>

(* Faulty variant: the switch is not looked at.                            *)
Anytime(d) == TRUE
MayStart(d) == ~noNew[d]

StartJobs(d, J) ==
  /\ Goes(d, "jobs", "chld")
  /\ J \subseteq Jobs \ running[d]
  /\ J # {} => MayStart(d)
  /\ running' = [running EXCEPT ![d] = @ \cup J]
  /\ proc' = [proc EXCEPT ![d] = [j \in Jobs |-> IF j \in J THEN "forked" ELSE @[j]]]
  /\ ForksSenders(d, J)
  /\ UNCHANGED <<cause, flags, noNew, report, others>>

-----------------------------------------------------------------------------
(* Children and signals.                                                   *)

Execvp(d, j) ==
  /\ proc[d][j] = "forked"
  /\ proc' = [proc EXCEPT ![d][j] = "exec"]
  /\ UNCHANGED <<daemonVars, senders, others>>

Chld(d) == flags' = IF Alive(d) THEN [flags EXCEPT ![d] = @ \cup {"CHLD"}] ELSE flags

JobEnds(d, j) ==
  /\ LiveJob(d, j)
  /\ proc' = [proc EXCEPT ![d][j] = IF Alive(d) THEN "zombie" ELSE "none"]
  /\ Chld(d)
  /\ UNCHANGED <<phase, cause, noNew, running, report, senders, others>>

SenderEnds(d) ==
  /\ senders[d] > 0
  /\ senders' = [senders EXCEPT ![d] = @ - 1]
  /\ Chld(d)
  /\ UNCHANGED <<phase, cause, noNew, running, report, proc, others>>

(* kill(2): a daemon that has not installed its handlers yet dies of any   *)
(* of these signals.                                                       *)
Deliver(s, d) ==
  IF d = NoPid \/ ~Alive(d) THEN UNCHANGED <<phase, cause, memory, proc>>
  ELSE IF ~Catches(d) THEN Ends(d, "signal")
  ELSE /\ flags' = [flags EXCEPT ![d] = @ \cup {s}]
       /\ report' = IF s = "USR1" THEN [report EXCEPT ![d] = {}] ELSE report
       /\ UNCHANGED <<phase, cause, noNew, running, proc>>

(* Signals that are no part of a restart: kill -s $(cat kubjas.pid)        *)
Signal(s) ==
  /\ file # NoPid
  /\ Deliver(s, file)
  /\ upset' = IF s \in {"USR2", "TERM"} THEN upset \cup {"careless"} ELSE upset
  /\ UNCHANGED <<senders, file, op, target>>

Crash(d) ==
  /\ Alive(d)
  /\ Ends(d, "crash")
  /\ upset' = upset \cup {"careless"}
  /\ UNCHANGED <<senders, file, op, target>>

-----------------------------------------------------------------------------
(* The operator, who reads the PID file once, need not see in the log that *)
(* scheduling was switched off before asking which jobs are running.       *)
(* (Start() is the last step of the restart.)                              *)

SwitchOff ==
  /\ op = "none" /\ file # NoPid
  /\ Deliver("USR2", file)
  /\ op' = "off"
  /\ target' = file
  /\ UNCHANGED <<senders, file, upset>>

AskRunning ==
  /\ op = "off"
  /\ Deliver("USR1", target)
  /\ op' = "asked"
  /\ UNCHANGED <<senders, file, target, upset>>

AskAgain ==
  /\ op = "asked" /\ report[target] \notin {{}, {{}}}
  /\ op' = "off"
  /\ UNCHANGED <<daemonVars, children, file, target, upset>>

Terminate ==
  /\ op = "asked" /\ report[target] = {{}}
  /\ Deliver("TERM", target)
  /\ op' = "stopping"
  /\ UNCHANGED <<senders, file, target, upset>>

Main(d) ==
  \/ WritePidFile(d) \/ SetupSignals(d) \/ NewWatcher(d) \/ Bind(d)
  \/ Reap(d) \/ Reload(d) \/ TakeTerm(d) \/ Exit(d) \/ PrintRunning(d) \/ Toggle(d)
  \/ \E J \in SUBSET Jobs : StartJobs(d, J)

Next ==
  \/ \E d \in Daemons : \/ Start(d) \/ Main(d) \/ Crash(d) \/ SenderEnds(d)
                        \/ \E j \in Jobs : Execvp(d, j) \/ JobEnds(d, j)
  \/ \E s \in Signals : Signal(s)
  \/ SwitchOff \/ AskRunning \/ AskAgain \/ Terminate

Spec == Init /\ [][Next]_vars

-----------------------------------------------------------------------------
(* Properties.                                                             *)

(* The map of a daemon names the children it has not reaped.               *)
TypeOK ==
  /\ phase \in [Daemons -> Prologue \cup Loop \cup Gone \cup {"exit"}]
  /\ cause \in [Daemons -> {"none", "watcher", "bind", "term", "signal", "crash"}]
  /\ flags \in [Daemons -> SUBSET (Sigs \cup {"CHLD"})]
  /\ noNew \in [Daemons -> BOOLEAN]
  /\ running \in [Daemons -> SUBSET Jobs]
  /\ \A d \in Daemons : Alive(d) => running[d] = {j \in Jobs : proc[d][j] # "none"}
  /\ report \in [Daemons -> SUBSET (SUBSET Jobs)]
  /\ proc \in [Daemons -> [Jobs -> {"none", "forked", "exec", "zombie"}]]
  /\ senders \in [Daemons -> 0 .. MaxSenders]
  /\ file \in Daemons \cup {NoPid}
  /\ op \in {"none", "off", "asked", "stopping"}
  /\ target \in Daemons \cup {NoPid}
  /\ upset \subseteq {"overlap", "unwritten", "careless"}

(* While daemons are restarted as the README says (USR2, wait for all jobs *)
(* to finish, then restart safely), no job has processes of two daemons,   *)
(* although the new one knows nothing of the children of the old one, and  *)
(* even if daemons are started while another one serves.                   *)
NoJobTwice ==
  "careless" \notin upset =>
    \A d, e \in Daemons, j \in Jobs : LiveJob(d, j) /\ LiveJob(e, j) => d = e

(* As long as daemons are started one after the other, the signals of the  *)
(* README, sent to the pid in the PID file, reach the daemon that serves,  *)
(* whatever crashes left the file behind; a daemon that was told to stop   *)
(* leaves none.                                                            *)
PidFileNamesServer ==
  upset \cap {"overlap", "unwritten"} = {} =>
    \A d \in Daemons : /\ Serves(d) => file = d
                       /\ cause[d] = "term" => file # d

(* A daemon that is started in a restart by the README serves: none finds  *)
(* the port taken.                                                         *)
RestartIsSafe == upset = {} => \A d \in Daemons : cause[d] # "bind"
=============================================================================
