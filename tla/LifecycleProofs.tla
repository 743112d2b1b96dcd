--------------------------- MODULE LifecycleProofs ---------------------------
(***************************************************************************)
(* Theorems about Lifecycle.tla: the PID file names the daemon that        *)
(* serves, and a careful restart never doubles a job, for any number of    *)
(* daemons, jobs and senders.                                              *)
(***************************************************************************)
EXTENDS Lifecycle, TLAPS

Careful == "careless" \notin upset
OneAfterTheOther == upset \cap {"overlap", "unwritten"} = {}

(* A daemon that is not there holds nothing in memory, one that has not    *)
(* reached its loop has started nothing.                                   *)
Fresh ==
  \A d \in Daemons :
    /\ phase[d] \in Gone => flags[d] = {} /\ ~noNew[d] /\ report[d] = {}
    /\ phase[d] \in Prologue \cup {"unborn"} =>
         running[d] = {} /\ \A j \in Jobs : proc[d][j] = "none"
    /\ phase[d] # "dead" => cause[d] = "none"

(* The port belongs to one daemon.                                         *)
OneInLoop ==
  \A d, e \in Daemons :
    phase[d] \in Loop \cup {"exit"} /\ phase[e] \in Loop \cup {"exit"} => d = e

(* Pids that are known belong to daemons that were started.                *)
KnownStarted ==
  /\ \A d \in Daemons : file = d => phase[d] # "unborn"
  /\ op # "none" => target \in Daemons /\ phase[target] # "unborn"

(* USR2 goes to one daemon once, TERM to that one when nothing runs.       *)
SwitchedOnce ==
  \A d \in Daemons :
    /\ op = "none" \/ d # target => ~noNew[d] /\ "USR2" \notin flags[d]
    /\ op # "none" /\ d = target /\ Alive(d) => (noNew[d] <=> "USR2" \notin flags[d])
    /\ "TERM" \in flags[d] \/ phase[d] = "exit" => op = "stopping" /\ d = target

(* What was printed after the switch was asked for bounds what runs: the   *)
(* loop prints just before it looks at the switch.                         *)
Off(d) == phase[d] = "usr2" \/ noNew[d]
PrintedBounds ==
  \A d \in Daemons :
    /\ op \in {"asked", "stopping"} /\ d = target /\ Alive(d) /\ report[d] # {} =>
         Off(d) /\ \A R \in report[d] : running[d] \subseteq R
    /\ op = "stopping" /\ d = target /\ Alive(d) => Off(d) /\ running[d] = {}

DeadLeaveNoJob ==
  \A d \in Daemons, j \in Jobs : phase[d] = "dead" => ~LiveJob(d, j)

CarefulRestart == Careful => SwitchedOnce /\ PrintedBounds /\ DeadLeaveNoJob

FileFollows ==
  OneAfterTheOther =>
    /\ \A d, e \in Daemons : Alive(d) /\ Alive(e) => d = e
    /\ \A d \in Daemons :
         /\ phase[d] \notin Gone \cup {"pid", "exit"} => file = d
         /\ phase[d] = "exit" \/ cause[d] = "term" => file # d

Inv == TypeOK /\ Fresh /\ OneInLoop /\ KnownStarted /\ CarefulRestart /\ FileFollows

-----------------------------------------------------------------------------
(* The invariant holds before any daemon is started.                       *)
LEMMA InitInv == Init => Inv
BY LifecycleAssumption
DEF Init, Inv, TypeOK, Fresh, OneInLoop, KnownStarted, CarefulRestart, SwitchedOnce,
    PrintedBounds, DeadLeaveNoJob, FileFollows, Alive, Gone, Prologue, Loop, Sigs,
    Careful, OneAfterTheOther, LiveJob

(* What TypeOK says of the daemons and their jobs.                         *)
DaemonsOK ==
  /\ phase \in [Daemons -> Prologue \cup Loop \cup Gone \cup {"exit"}]
  /\ cause \in [Daemons -> {"none", "watcher", "bind", "term", "signal", "crash"}]
  /\ flags \in [Daemons -> SUBSET (Sigs \cup {"CHLD"})]
  /\ noNew \in [Daemons -> BOOLEAN]
  /\ running \in [Daemons -> SUBSET Jobs]
  /\ \A d \in Daemons : Alive(d) => running[d] = {j \in Jobs : proc[d][j] # "none"}
  /\ report \in [Daemons -> SUBSET (SUBSET Jobs)]
  /\ proc \in [Daemons -> [Jobs -> {"none", "forked", "exec", "zombie"}]]

(* A daemon that ends leaves its table well-typed.                         *)
LEMMA EndsTypes ==
  ASSUME TypeOK, NEW d \in Daemons, Ends(d, "watcher") \/ Ends(d, "bind")
           \/ Ends(d, "term") \/ Ends(d, "signal") \/ Ends(d, "crash")
  PROVE  DaemonsOK'
<1> USE DEF TypeOK, Ends, Orphaned
<1>1. /\ phase' \in [Daemons -> Prologue \cup Loop \cup Gone \cup {"exit"}]
      /\ flags' \in [Daemons -> SUBSET (Sigs \cup {"CHLD"})]
      /\ noNew' \in [Daemons -> BOOLEAN]
  BY DEF Gone
<1>2. cause' \in [Daemons -> {"none", "watcher", "bind", "term", "signal", "crash"}]
  OBVIOUS
<1>3. /\ running' \in [Daemons -> SUBSET Jobs]
      /\ report' \in [Daemons -> SUBSET (SUBSET Jobs)]
  OBVIOUS
<1>4. proc' \in [Daemons -> [Jobs -> {"none", "forked", "exec", "zombie"}]]
  <2>1. [j \in Jobs |-> IF proc[d][j] = "zombie" THEN "none" ELSE proc[d][j]]
          \in [Jobs -> {"none", "forked", "exec", "zombie"}]
    <3>1. proc[d] \in [Jobs -> {"none", "forked", "exec", "zombie"}]
      OBVIOUS
    <3> HIDE DEF TypeOK, Ends
    <3>2. ASSUME NEW j \in Jobs
          PROVE (IF proc[d][j] = "zombie" THEN "none" ELSE proc[d][j])
                  \in {"none", "forked", "exec", "zombie"}
      BY <3>1
    <3> QED
      BY <3>2, Zenon
  <2>2. proc' = [proc EXCEPT ![d] =
                   [j \in Jobs |-> IF proc[d][j] = "zombie" THEN "none" ELSE proc[d][j]]]
    OBVIOUS
  <2>3. proc \in [Daemons -> [Jobs -> {"none", "forked", "exec", "zombie"}]]
    OBVIOUS
  <2> HIDE DEF TypeOK, Ends
  <2>4. ASSUME NEW g \in [Jobs -> {"none", "forked", "exec", "zombie"}]
        PROVE  [proc EXCEPT ![d] = g] \in [Daemons -> [Jobs -> {"none", "forked", "exec", "zombie"}]]
    BY <2>3
  <2> QED
    BY <2>1, <2>2, <2>4, Zenon
<1>5. ASSUME NEW e \in Daemons, Alive(e)'
      PROVE running'[e] = {j \in Jobs : proc'[e][j] # "none"}
  BY <1>5 DEF Alive, Gone
<1> QED
  BY <1>1, <1>2, <1>3, <1>4, <1>5 DEF DaemonsOK

(* So does a signal, caught or not.                                        *)
LEMMA DeliverTypes ==
  ASSUME TypeOK, NEW s \in Sigs, NEW d \in Daemons \cup {NoPid}, Deliver(s, d)
  PROVE  DaemonsOK'
<1>1. CASE d = NoPid \/ ~Alive(d)
  BY <1>1 DEF Deliver, DaemonsOK, TypeOK, memory, Alive
<1>2. CASE d \in Daemons /\ ~Catches(d) /\ Alive(d)
  BY <1>2, EndsTypes, LifecycleAssumption DEF Deliver
<1>3. CASE d \in Daemons /\ Catches(d) /\ Alive(d)
  <2>1. /\ flags' = [flags EXCEPT ![d] = @ \cup {s}]
        /\ report' = [report EXCEPT ![d] = {}] \/ report' = report
        /\ UNCHANGED <<phase, cause, noNew, running, proc>>
    BY <1>3, LifecycleAssumption DEF Deliver
  <2>2. flags' \in [Daemons -> SUBSET (Sigs \cup {"CHLD"})]
    BY <1>3, <2>1 DEF TypeOK
  <2>3. report' \in [Daemons -> SUBSET (SUBSET Jobs)]
    BY <1>3, <2>1 DEF TypeOK
  <2> QED
    BY <2>1, <2>2, <2>3 DEF DaemonsOK, TypeOK, Alive
<1> QED
  BY <1>1, <1>2, <1>3

(* TypeOK needs Fresh: a daemon starts with an empty map and no jobs.      *)
LEMMA TypeStep == Inv /\ [Next]_vars => TypeOK'
<1> SUFFICES ASSUME Inv, [Next]_vars PROVE TypeOK'
  OBVIOUS
<1> USE LifecycleAssumption DEF Inv, TypeOK, Alive, Gone, Loop, Prologue, Sigs, Goes
<1>1. ASSUME NEW d \in Daemons, Start(d) PROVE TypeOK'
  <2>1. phase[d] = "unborn" /\ phase' = [phase EXCEPT ![d] = "pid"]
    BY <1>1 DEF Start
  <2>2. {j \in Jobs : proc[d][j] # "none"} = {}
    BY <2>1 DEF Fresh
  <2>3. running[d] = {}
    BY <2>1 DEF Fresh
  <2>4. ASSUME NEW e \in Daemons, Alive(e)'
        PROVE running'[e] = {j \in Jobs : proc'[e][j] # "none"}
    BY <1>1, <2>1, <2>2, <2>3, <2>4 DEF Start, children
  <2>5. /\ op' \in {"none", "off", "asked", "stopping"}
        /\ target' \in Daemons \cup {NoPid}
        /\ upset' \subseteq {"overlap", "unwritten", "careless"}
    BY <1>1 DEF Start
  <2>6. phase' \in [Daemons -> Prologue \cup Loop \cup Gone \cup {"exit"}]
    BY <2>1
  <2>7. UNCHANGED <<cause, flags, noNew, running, report, proc, senders, file>>
    BY <1>1 DEF Start, children
  <2> QED
    BY <2>4, <2>5, <2>6, <2>7
<1>2. ASSUME NEW d \in Daemons, WritePidFile(d) PROVE TypeOK'
  BY <1>2 DEF WritePidFile, Writer, children
<1>3. ASSUME NEW d \in Daemons, SetupSignals(d) PROVE TypeOK'
  BY <1>3 DEF SetupSignals, children, others
<1>4. ASSUME NEW d \in Daemons, NewWatcher(d) PROVE TypeOK'
  <2>1. CASE Goes(d, "watcher", "bind") /\ UNCHANGED <<cause, memory, proc>>
    BY <1>4, <2>1 DEF NewWatcher, memory, others
  <2>2. CASE Ends(d, "watcher")
    BY <1>4, <2>2, EndsTypes DEF NewWatcher, DaemonsOK, others
  <2> QED
    BY <1>4, <2>1, <2>2 DEF NewWatcher
<1>5. ASSUME NEW d \in Daemons, Bind(d) PROVE TypeOK'
  <2>1. CASE Goes(d, "bind", "chld") /\ UNCHANGED <<cause, memory, proc>>
    BY <1>5, <2>1 DEF Bind, memory, others
  <2>2. CASE Ends(d, "bind")
    BY <1>5, <2>2, EndsTypes DEF Bind, DaemonsOK, others
  <2> QED
    BY <1>5, <2>1, <2>2 DEF Bind
<1>6. ASSUME NEW d \in Daemons, Reap(d) PROVE TypeOK'
  BY <1>6 DEF Reap, Swap, ForksSenders, Freed, others
<1>7. ASSUME NEW d \in Daemons, Reload(d) PROVE TypeOK'
  BY <1>7 DEF Reload, Swap, children, others
<1>8. ASSUME NEW d \in Daemons, TakeTerm(d) PROVE TypeOK'
  BY <1>8 DEF TakeTerm, children
<1>9. ASSUME NEW d \in Daemons, Exit(d) PROVE TypeOK'
  BY <1>9, EndsTypes DEF Exit, DaemonsOK, others
<1>10. ASSUME NEW d \in Daemons, PrintRunning(d) PROVE TypeOK'
  BY <1>10 DEF PrintRunning, Swap, children, others
<1>11. ASSUME NEW d \in Daemons, Toggle(d) PROVE TypeOK'
  BY <1>11 DEF Toggle, Swap, children, others
<1>12. ASSUME NEW d \in Daemons, NEW J \in SUBSET Jobs, StartJobs(d, J) PROVE TypeOK'
  BY <1>12 DEF StartJobs, ForksSenders, others
<1>13. ASSUME NEW d \in Daemons, Crash(d) PROVE TypeOK'
  BY <1>13, EndsTypes DEF Crash, DaemonsOK
<1>14. ASSUME NEW d \in Daemons, SenderEnds(d) PROVE TypeOK'
  BY <1>14 DEF SenderEnds, Chld, others
<1>15. ASSUME NEW d \in Daemons, NEW j \in Jobs, Execvp(d, j) PROVE TypeOK'
  BY <1>15 DEF Execvp, daemonVars, others
<1>16. ASSUME NEW d \in Daemons, NEW j \in Jobs, JobEnds(d, j) PROVE TypeOK'
  BY <1>16 DEF JobEnds, LiveJob, Chld, others
<1>17. ASSUME NEW s \in Signals, Signal(s) PROVE TypeOK'
  BY <1>17, DeliverTypes DEF Signal, DaemonsOK
<1>18. ASSUME SwitchOff PROVE TypeOK'
  BY <1>18, DeliverTypes DEF SwitchOff, DaemonsOK
<1>19. ASSUME AskRunning PROVE TypeOK'
  BY <1>19, DeliverTypes DEF AskRunning, DaemonsOK
<1>20. ASSUME AskAgain PROVE TypeOK'
  BY <1>20 DEF AskAgain, daemonVars, children
<1>21. ASSUME Terminate PROVE TypeOK'
  BY <1>21, DeliverTypes DEF Terminate, DaemonsOK
<1>22. ASSUME UNCHANGED vars PROVE TypeOK'
  BY <1>22 DEF vars, daemonVars, children, others
<1> QED
  BY <1>1, <1>2, <1>3, <1>4, <1>5, <1>6, <1>7, <1>8, <1>9, <1>10, <1>11, <1>12,
     <1>13, <1>14, <1>15, <1>16, <1>17, <1>18, <1>19, <1>20, <1>21, <1>22 DEF
     Next, Main

(* What ends is cleared, and only the loop starts jobs.                    *)
LEMMA FreshStep == Inv /\ [Next]_vars => Fresh'
<1> SUFFICES ASSUME Inv, [Next]_vars PROVE Fresh'
  OBVIOUS
<1> USE LifecycleAssumption DEF Inv, TypeOK, Alive, Gone, Loop, Prologue, Sigs,
      Goes, Fresh
<1>1. ASSUME NEW d \in Daemons, Start(d) PROVE Fresh'
  BY <1>1 DEF Start, children
<1>2. ASSUME NEW d \in Daemons, WritePidFile(d) PROVE Fresh'
  BY <1>2 DEF WritePidFile, Writer, children
<1>3. ASSUME NEW d \in Daemons, SetupSignals(d) PROVE Fresh'
  BY <1>3 DEF SetupSignals, children, others
<1>4. ASSUME NEW d \in Daemons, NewWatcher(d) PROVE Fresh'
  BY <1>4 DEF NewWatcher, others, Ends, Orphaned, memory
<1>5. ASSUME NEW d \in Daemons, Bind(d) PROVE Fresh'
  BY <1>5 DEF Bind, others, PortFree, Ends, Orphaned, memory
<1>6. ASSUME NEW d \in Daemons, Reap(d) PROVE Fresh'
  BY <1>6 DEF Reap, Swap, Freed, others
<1>7. ASSUME NEW d \in Daemons, Reload(d) PROVE Fresh'
  BY <1>7 DEF Reload, Swap, children, others
<1>8. ASSUME NEW d \in Daemons, TakeTerm(d) PROVE Fresh'
  BY <1>8 DEF TakeTerm, children
<1>9. ASSUME NEW d \in Daemons, Exit(d) PROVE Fresh'
  BY <1>9 DEF Exit, others, Ends, Orphaned, memory
<1>10. ASSUME NEW d \in Daemons, PrintRunning(d) PROVE Fresh'
  BY <1>10 DEF PrintRunning, Swap, children, others
<1>11. ASSUME NEW d \in Daemons, Toggle(d) PROVE Fresh'
  BY <1>11 DEF Toggle, Swap, children, others
<1>12. ASSUME NEW d \in Daemons, NEW J \in SUBSET Jobs, StartJobs(d, J) PROVE Fresh'
  BY <1>12 DEF StartJobs, MayStart, others
<1>13. ASSUME NEW d \in Daemons, Crash(d) PROVE Fresh'
  BY <1>13 DEF Crash, Ends, Orphaned, memory
<1>14. ASSUME NEW d \in Daemons, SenderEnds(d) PROVE Fresh'
  BY <1>14 DEF SenderEnds, Chld, others
<1>15. ASSUME NEW d \in Daemons, NEW j \in Jobs, Execvp(d, j) PROVE Fresh'
  BY <1>15 DEF Execvp, daemonVars, others
<1>16. ASSUME NEW d \in Daemons, NEW j \in Jobs, JobEnds(d, j) PROVE Fresh'
  BY <1>16 DEF JobEnds, LiveJob, Chld, others
<1>17. ASSUME NEW s \in Signals, Signal(s) PROVE Fresh'
  <2>1. CASE file = NoPid \/ ~Alive(file)
    BY <1>17, <2>1 DEF Signal, Deliver, memory
  <2>2. CASE file \in Daemons /\ Alive(file) /\ ~Catches(file)
    BY <1>17, <2>2 DEF Signal, Deliver, Ends, Orphaned
  <2>3. CASE file \in Daemons /\ Alive(file) /\ Catches(file)
    BY <1>17, <2>3 DEF Signal, Deliver, Catches
  <2> QED
    BY <2>1, <2>2, <2>3
<1>18. ASSUME SwitchOff PROVE Fresh'
  BY <1>18 DEF SwitchOff, Deliver, Catches, Ends, Orphaned, memory
<1>19. ASSUME AskRunning PROVE Fresh'
  BY <1>19 DEF AskRunning, Deliver, Catches, Ends, Orphaned, memory
<1>20. ASSUME AskAgain PROVE Fresh'
  BY <1>20 DEF AskAgain, daemonVars, children
<1>21. ASSUME Terminate PROVE Fresh'
  BY <1>21 DEF Terminate, Deliver, Catches, Ends, Orphaned, memory
<1>22. ASSUME UNCHANGED vars PROVE Fresh'
  BY <1>22 DEF vars, daemonVars, children, others
<1> QED
  BY <1>1, <1>2, <1>3, <1>4, <1>5, <1>6, <1>7, <1>8, <1>9, <1>10, <1>11, <1>12,
     <1>13, <1>14, <1>15, <1>16, <1>17, <1>18, <1>19, <1>20, <1>21, <1>22 DEF
     Next, Main

(* Bind() fails while another daemon holds the port.                       *)
LEMMA OneInLoopStep == Inv /\ [Next]_vars => OneInLoop'
<1> SUFFICES ASSUME Inv, [Next]_vars PROVE OneInLoop'
  OBVIOUS
<1> USE LifecycleAssumption DEF Inv, TypeOK, Alive, Gone, Loop, Prologue, Sigs,
      Goes, OneInLoop
<1>1. ASSUME NEW d \in Daemons, Start(d) PROVE OneInLoop'
  BY <1>1 DEF Start, children
<1>2. ASSUME NEW d \in Daemons, WritePidFile(d) PROVE OneInLoop'
  BY <1>2 DEF WritePidFile, Writer, children
<1>3. ASSUME NEW d \in Daemons, SetupSignals(d) PROVE OneInLoop'
  BY <1>3 DEF SetupSignals, children, others
<1>4. ASSUME NEW d \in Daemons, NewWatcher(d) PROVE OneInLoop'
  BY <1>4 DEF NewWatcher, others, Ends, Orphaned, memory
<1>5. ASSUME NEW d \in Daemons, Bind(d) PROVE OneInLoop'
  BY <1>5 DEF Bind, others, PortFree, Ends, Orphaned, memory
<1>6. ASSUME NEW d \in Daemons, Reap(d) PROVE OneInLoop'
  BY <1>6 DEF Reap, Swap, Freed, others
<1>7. ASSUME NEW d \in Daemons, Reload(d) PROVE OneInLoop'
  BY <1>7 DEF Reload, Swap, children, others
<1>8. ASSUME NEW d \in Daemons, TakeTerm(d) PROVE OneInLoop'
  BY <1>8 DEF TakeTerm, children
<1>9. ASSUME NEW d \in Daemons, Exit(d) PROVE OneInLoop'
  BY <1>9 DEF Exit, others, Ends, Orphaned, memory
<1>10. ASSUME NEW d \in Daemons, PrintRunning(d) PROVE OneInLoop'
  BY <1>10 DEF PrintRunning, Swap, children, others
<1>11. ASSUME NEW d \in Daemons, Toggle(d) PROVE OneInLoop'
  BY <1>11 DEF Toggle, Swap, children, others
<1>12. ASSUME NEW d \in Daemons, NEW J \in SUBSET Jobs, StartJobs(d, J) PROVE OneInLoop'
  BY <1>12 DEF StartJobs, MayStart, others
<1>13. ASSUME NEW d \in Daemons, Crash(d) PROVE OneInLoop'
  BY <1>13 DEF Crash, Ends, Orphaned, memory
<1>14. ASSUME NEW d \in Daemons, SenderEnds(d) PROVE OneInLoop'
  BY <1>14 DEF SenderEnds, Chld, others
<1>15. ASSUME NEW d \in Daemons, NEW j \in Jobs, Execvp(d, j) PROVE OneInLoop'
  BY <1>15 DEF Execvp, daemonVars, others
<1>16. ASSUME NEW d \in Daemons, NEW j \in Jobs, JobEnds(d, j) PROVE OneInLoop'
  BY <1>16 DEF JobEnds, LiveJob, Chld, others
<1>17. ASSUME NEW s \in Signals, Signal(s) PROVE OneInLoop'
  BY <1>17 DEF Signal, Deliver, Catches, Ends, Orphaned, memory
<1>18. ASSUME SwitchOff PROVE OneInLoop'
  BY <1>18 DEF SwitchOff, Deliver, Catches, Ends, Orphaned, memory
<1>19. ASSUME AskRunning PROVE OneInLoop'
  BY <1>19 DEF AskRunning, Deliver, Catches, Ends, Orphaned, memory
<1>20. ASSUME AskAgain PROVE OneInLoop'
  BY <1>20 DEF AskAgain, daemonVars, children
<1>21. ASSUME Terminate PROVE OneInLoop'
  BY <1>21 DEF Terminate, Deliver, Catches, Ends, Orphaned, memory
<1>22. ASSUME UNCHANGED vars PROVE OneInLoop'
  BY <1>22 DEF vars, daemonVars, children, others
<1> QED
  BY <1>1, <1>2, <1>3, <1>4, <1>5, <1>6, <1>7, <1>8, <1>9, <1>10, <1>11, <1>12,
     <1>13, <1>14, <1>15, <1>16, <1>17, <1>18, <1>19, <1>20, <1>21, <1>22 DEF
     Next, Main

(* The PID file and the operator name started daemons only.                *)
LEMMA KnownStep == Inv /\ [Next]_vars => KnownStarted'
<1> SUFFICES ASSUME Inv, [Next]_vars PROVE KnownStarted'
  OBVIOUS
<1> USE LifecycleAssumption DEF Inv, TypeOK, Alive, Gone, Loop, Prologue, Sigs,
      Goes, KnownStarted, Fresh
<1>1. ASSUME NEW d \in Daemons, Start(d) PROVE KnownStarted'
  BY <1>1 DEF Start, children
<1>2. ASSUME NEW d \in Daemons, WritePidFile(d) PROVE KnownStarted'
  BY <1>2 DEF WritePidFile, Writer, children
<1>3. ASSUME NEW d \in Daemons, SetupSignals(d) PROVE KnownStarted'
  BY <1>3 DEF SetupSignals, children, others
<1>4. ASSUME NEW d \in Daemons, NewWatcher(d) PROVE KnownStarted'
  BY <1>4 DEF NewWatcher, others, Ends, Orphaned, memory
<1>5. ASSUME NEW d \in Daemons, Bind(d) PROVE KnownStarted'
  BY <1>5 DEF Bind, others, PortFree, Ends, Orphaned, memory
<1>6. ASSUME NEW d \in Daemons, Reap(d) PROVE KnownStarted'
  BY <1>6 DEF Reap, Swap, Freed, others
<1>7. ASSUME NEW d \in Daemons, Reload(d) PROVE KnownStarted'
  BY <1>7 DEF Reload, Swap, children, others
<1>8. ASSUME NEW d \in Daemons, TakeTerm(d) PROVE KnownStarted'
  BY <1>8 DEF TakeTerm, children
<1>9. ASSUME NEW d \in Daemons, Exit(d) PROVE KnownStarted'
  BY <1>9 DEF Exit, others, Ends, Orphaned, memory
<1>10. ASSUME NEW d \in Daemons, PrintRunning(d) PROVE KnownStarted'
  BY <1>10 DEF PrintRunning, Swap, children, others
<1>11. ASSUME NEW d \in Daemons, Toggle(d) PROVE KnownStarted'
  BY <1>11 DEF Toggle, Swap, children, others
<1>12. ASSUME NEW d \in Daemons, NEW J \in SUBSET Jobs, StartJobs(d, J) PROVE KnownStarted'
  BY <1>12 DEF StartJobs, MayStart, others
<1>13. ASSUME NEW d \in Daemons, Crash(d) PROVE KnownStarted'
  BY <1>13 DEF Crash, Ends, Orphaned, memory
<1>14. ASSUME NEW d \in Daemons, SenderEnds(d) PROVE KnownStarted'
  BY <1>14 DEF SenderEnds, Chld, others
<1>15. ASSUME NEW d \in Daemons, NEW j \in Jobs, Execvp(d, j) PROVE KnownStarted'
  BY <1>15 DEF Execvp, daemonVars, others
<1>16. ASSUME NEW d \in Daemons, NEW j \in Jobs, JobEnds(d, j) PROVE KnownStarted'
  BY <1>16 DEF JobEnds, LiveJob, Chld, others
<1>17. ASSUME NEW s \in Signals, Signal(s) PROVE KnownStarted'
  BY <1>17 DEF Signal, Deliver, Catches, Ends, Orphaned, memory
<1>18. ASSUME SwitchOff PROVE KnownStarted'
  BY <1>18 DEF SwitchOff, Deliver, Catches, Ends, Orphaned, memory
<1>19. ASSUME AskRunning PROVE KnownStarted'
  BY <1>19 DEF AskRunning, Deliver, Catches, Ends, Orphaned, memory
<1>20. ASSUME AskAgain PROVE KnownStarted'
  BY <1>20 DEF AskAgain, daemonVars, children
<1>21. ASSUME Terminate PROVE KnownStarted'
  BY <1>21 DEF Terminate, Deliver, Catches, Ends, Orphaned, memory
<1>22. ASSUME UNCHANGED vars PROVE KnownStarted'
  BY <1>22 DEF vars, daemonVars, children, others
<1> QED
  BY <1>1, <1>2, <1>3, <1>4, <1>5, <1>6, <1>7, <1>8, <1>9, <1>10, <1>11, <1>12,
     <1>13, <1>14, <1>15, <1>16, <1>17, <1>18, <1>19, <1>20, <1>21, <1>22 DEF
     Next, Main

(* The file is written before the loop and removed last.                   *)
LEMMA FileStep == Inv /\ [Next]_vars => FileFollows'
<1> SUFFICES ASSUME Inv, [Next]_vars PROVE FileFollows'
  OBVIOUS
<1> USE LifecycleAssumption DEF Inv, TypeOK, Alive, Gone, Loop, Prologue, Sigs,
      Goes, FileFollows, Fresh, OneAfterTheOther
<1>1. ASSUME NEW d \in Daemons, Start(d) PROVE FileFollows'
  <2>1. CASE \E e \in Daemons : Alive(e)
    BY <1>1, <2>1 DEF Start
  <2>2. CASE \A e \in Daemons : ~Alive(e)
    <3>1. /\ UNCHANGED <<file, cause, upset>> /\ cause[d] = "none"
          /\ phase' = [phase EXCEPT ![d] = "pid"]
      BY <1>1, <2>2 DEF Start
    <3> QED
      BY <2>2, <3>1
  <2> QED
    BY <2>1, <2>2
<1>2. ASSUME NEW d \in Daemons, WritePidFile(d) PROVE FileFollows'
  <2> SUFFICES ASSUME OneAfterTheOther' PROVE FileFollows'
    OBVIOUS
  <2>1. /\ file' = d /\ UNCHANGED <<upset, cause>>
        /\ phase[d] = "pid" /\ phase' = [phase EXCEPT ![d] = "config"]
    BY <1>2 DEF WritePidFile, Writer
  <2>2. \A e \in Daemons : Alive(e) => e = d
    BY <2>1
  <2>3. cause[d] # "term"
    BY <2>1
  <2> QED
    BY <2>1, <2>2, <2>3
<1>3. ASSUME NEW d \in Daemons, SetupSignals(d) PROVE FileFollows'
  BY <1>3 DEF SetupSignals, children, others
<1>4. ASSUME NEW d \in Daemons, NewWatcher(d) PROVE FileFollows'
  <2>1. CASE Goes(d, "watcher", "bind") /\ UNCHANGED <<cause, memory, proc>>
    BY <1>4, <2>1 DEF NewWatcher, others
  <2>2. CASE Ends(d, "watcher")
    BY <1>4, <2>2 DEF NewWatcher, others, Ends
  <2> QED
    BY <1>4, <2>1, <2>2 DEF NewWatcher
<1>5. ASSUME NEW d \in Daemons, Bind(d) PROVE FileFollows'
  BY <1>5 DEF Bind, others, PortFree, Ends, Orphaned, memory
<1>6. ASSUME NEW d \in Daemons, Reap(d) PROVE FileFollows'
  BY <1>6 DEF Reap, Swap, Freed, others
<1>7. ASSUME NEW d \in Daemons, Reload(d) PROVE FileFollows'
  BY <1>7 DEF Reload, Swap, children, others
<1>8. ASSUME NEW d \in Daemons, TakeTerm(d) PROVE FileFollows'
  <2> SUFFICES ASSUME OneAfterTheOther' PROVE FileFollows'
    OBVIOUS
  <2>1. CASE "TERM" \in flags[d]
    <3>1. /\ file' = NoPid /\ UNCHANGED <<upset, cause>>
          /\ phase[d] = "term" /\ phase' = [phase EXCEPT ![d] = "exit"]
      BY <1>8, <2>1 DEF TakeTerm
    <3>2. \A e \in Daemons : Alive(e) => e = d
      BY <3>1
    <3> QED
      BY <3>1, <3>2
  <2>2. CASE "TERM" \notin flags[d]
    BY <1>8, <2>2 DEF TakeTerm
  <2> QED
    BY <2>1, <2>2
<1>9. ASSUME NEW d \in Daemons, Exit(d) PROVE FileFollows'
  BY <1>9 DEF Exit, others, Ends, Orphaned, memory
<1>10. ASSUME NEW d \in Daemons, PrintRunning(d) PROVE FileFollows'
  BY <1>10 DEF PrintRunning, Swap, children, others
<1>11. ASSUME NEW d \in Daemons, Toggle(d) PROVE FileFollows'
  BY <1>11 DEF Toggle, Swap, children, others
<1>12. ASSUME NEW d \in Daemons, NEW J \in SUBSET Jobs, StartJobs(d, J) PROVE FileFollows'
  BY <1>12 DEF StartJobs, MayStart, others
<1>13. ASSUME NEW d \in Daemons, Crash(d) PROVE FileFollows'
  BY <1>13 DEF Crash, Ends, Orphaned, memory
<1>14. ASSUME NEW d \in Daemons, SenderEnds(d) PROVE FileFollows'
  BY <1>14 DEF SenderEnds, Chld, others
<1>15. ASSUME NEW d \in Daemons, NEW j \in Jobs, Execvp(d, j) PROVE FileFollows'
  BY <1>15 DEF Execvp, daemonVars, others
<1>16. ASSUME NEW d \in Daemons, NEW j \in Jobs, JobEnds(d, j) PROVE FileFollows'
  BY <1>16 DEF JobEnds, LiveJob, Chld, others
<1>17. ASSUME NEW s \in Signals, Signal(s) PROVE FileFollows'
  BY <1>17 DEF Signal, Deliver, Catches, Ends, Orphaned, memory
<1>18. ASSUME SwitchOff PROVE FileFollows'
  BY <1>18 DEF SwitchOff, Deliver, Catches, Ends, Orphaned, memory
<1>19. ASSUME AskRunning PROVE FileFollows'
  BY <1>19 DEF AskRunning, Deliver, Catches, Ends, Orphaned, memory
<1>20. ASSUME AskAgain PROVE FileFollows'
  BY <1>20 DEF AskAgain, daemonVars, children
<1>21. ASSUME Terminate PROVE FileFollows'
  <2>1. CASE target = NoPid \/ ~Alive(target)
    BY <1>21, <2>1 DEF Terminate, Deliver
  <2>2. CASE target \in Daemons /\ Alive(target) /\ ~Catches(target)
    BY <1>21, <2>2 DEF Terminate, Deliver, Ends
  <2>3. CASE target \in Daemons /\ Alive(target) /\ Catches(target)
    BY <1>21, <2>3 DEF Terminate, Deliver
  <2> QED
    BY <2>1, <2>2, <2>3
<1>22. ASSUME UNCHANGED vars PROVE FileFollows'
  BY <1>22 DEF vars, daemonVars, children, others
<1> QED
  BY <1>1, <1>2, <1>3, <1>4, <1>5, <1>6, <1>7, <1>8, <1>9, <1>10, <1>11, <1>12,
     <1>13, <1>14, <1>15, <1>16, <1>17, <1>18, <1>19, <1>20, <1>21, <1>22 DEF
     Next, Main

(* Without other USR2 and TERM, only the operator turns the switch.        *)
LEMMA SwitchStep == Inv /\ [Next]_vars => (Careful => SwitchedOnce)'
<1> SUFFICES ASSUME Inv, [Next]_vars PROVE (Careful => SwitchedOnce)'
  OBVIOUS
<1> USE LifecycleAssumption DEF Inv, TypeOK, Alive, Gone, Loop, Prologue, Sigs,
      Goes, CarefulRestart, SwitchedOnce, Fresh, KnownStarted, Careful
<1>1. ASSUME NEW d \in Daemons, Start(d) PROVE (Careful => SwitchedOnce)'
  BY <1>1 DEF Start, children
<1>2. ASSUME NEW d \in Daemons, WritePidFile(d) PROVE (Careful => SwitchedOnce)'
  BY <1>2 DEF WritePidFile, Writer, children
<1>3. ASSUME NEW d \in Daemons, SetupSignals(d) PROVE (Careful => SwitchedOnce)'
  BY <1>3 DEF SetupSignals, children, others
<1>4. ASSUME NEW d \in Daemons, NewWatcher(d) PROVE (Careful => SwitchedOnce)'
  BY <1>4 DEF NewWatcher, others, Ends, Orphaned, memory
<1>5. ASSUME NEW d \in Daemons, Bind(d) PROVE (Careful => SwitchedOnce)'
  BY <1>5 DEF Bind, others, PortFree, Ends, Orphaned, memory
<1>6. ASSUME NEW d \in Daemons, Reap(d) PROVE (Careful => SwitchedOnce)'
  BY <1>6 DEF Reap, Swap, Freed, others
<1>7. ASSUME NEW d \in Daemons, Reload(d) PROVE (Careful => SwitchedOnce)'
  BY <1>7 DEF Reload, Swap, children, others
<1>8. ASSUME NEW d \in Daemons, TakeTerm(d) PROVE (Careful => SwitchedOnce)'
  BY <1>8 DEF TakeTerm, children
<1>9. ASSUME NEW d \in Daemons, Exit(d) PROVE (Careful => SwitchedOnce)'
  BY <1>9 DEF Exit, others, Ends, Orphaned, memory
<1>10. ASSUME NEW d \in Daemons, PrintRunning(d) PROVE (Careful => SwitchedOnce)'
  BY <1>10 DEF PrintRunning, Swap, children, others
<1>11. ASSUME NEW d \in Daemons, Toggle(d) PROVE (Careful => SwitchedOnce)'
  <2> SUFFICES ASSUME Careful' PROVE SwitchedOnce'
    OBVIOUS
  <2>1. /\ \A e \in Daemons : e # d => noNew'[e] = noNew[e] /\ flags'[e] = flags[e]
        /\ flags'[d] = flags[d] \ {"USR2"}
        /\ phase[d] = "usr2" /\ phase' = [phase EXCEPT ![d] = "jobs"]
        /\ UNCHANGED <<upset, op, target, running, report>>
    BY <1>11 DEF Toggle, Swap, others
  <2>2. /\ "USR2" \in flags[d] => noNew'[d] = ~noNew[d]
        /\ "USR2" \notin flags[d] => noNew'[d] = noNew[d]
    <3>1. noNew' = [noNew EXCEPT ![d] = IF "USR2" \in flags[d] THEN ~@ ELSE @]
      BY <1>11 DEF Toggle
    <3>2. noNew \in [Daemons -> BOOLEAN]
      OBVIOUS
    <3> HIDE DEF TypeOK, Inv
    <3> QED
      BY <3>1, <3>2, SMT
  <2>3. op # "none" /\ d = target => noNew'[d]
    BY <2>1, <2>2
  <2>4. op = "none" \/ d # target => ~noNew'[d]
    BY <2>1, <2>2
  <2>5. ASSUME NEW e \in Daemons, e # d
        PROVE  noNew'[e] = noNew[e] /\ flags'[e] = flags[e] /\ phase'[e] = phase[e]
    BY <2>1, <2>5
  <2>6. "USR2" \notin flags'[d] /\ phase'[d] = "jobs" /\ ("TERM" \in flags'[d] => "TERM" \in flags[d])
    BY <2>1
  <2>7. Careful /\ UNCHANGED <<op, target>>
    BY <2>1
  <2> HIDE DEF TypeOK
  <2> QED
    BY <2>3, <2>4, <2>5, <2>6, <2>7
<1>12. ASSUME NEW d \in Daemons, NEW J \in SUBSET Jobs, StartJobs(d, J) PROVE (Careful => SwitchedOnce)'
  BY <1>12 DEF StartJobs, MayStart, others
<1>13. ASSUME NEW d \in Daemons, Crash(d) PROVE (Careful => SwitchedOnce)'
  BY <1>13 DEF Crash, Ends, Orphaned, memory
<1>14. ASSUME NEW d \in Daemons, SenderEnds(d) PROVE (Careful => SwitchedOnce)'
  BY <1>14 DEF SenderEnds, Chld, others
<1>15. ASSUME NEW d \in Daemons, NEW j \in Jobs, Execvp(d, j) PROVE (Careful => SwitchedOnce)'
  BY <1>15 DEF Execvp, daemonVars, others
<1>16. ASSUME NEW d \in Daemons, NEW j \in Jobs, JobEnds(d, j) PROVE (Careful => SwitchedOnce)'
  BY <1>16 DEF JobEnds, LiveJob, Chld, others
<1>17. ASSUME NEW s \in Signals, Signal(s) PROVE (Careful => SwitchedOnce)'
  BY <1>17 DEF Signal, Deliver, Catches, Ends, Orphaned, memory
<1>18. ASSUME SwitchOff PROVE (Careful => SwitchedOnce)'
  BY <1>18 DEF SwitchOff, Deliver, Catches, Ends, Orphaned, memory
<1>19. ASSUME AskRunning PROVE (Careful => SwitchedOnce)'
  BY <1>19 DEF AskRunning, Deliver, Catches, Ends, Orphaned, memory
<1>20. ASSUME AskAgain PROVE (Careful => SwitchedOnce)'
  BY <1>20 DEF AskAgain, daemonVars, children
<1>21. ASSUME Terminate PROVE (Careful => SwitchedOnce)'
  BY <1>21 DEF Terminate, Deliver, Catches, Ends, Orphaned, memory
<1>22. ASSUME UNCHANGED vars PROVE (Careful => SwitchedOnce)'
  BY <1>22 DEF vars, daemonVars, children, others
<1> QED
  BY <1>1, <1>2, <1>3, <1>4, <1>5, <1>6, <1>7, <1>8, <1>9, <1>10, <1>11, <1>12,
     <1>13, <1>14, <1>15, <1>16, <1>17, <1>18, <1>19, <1>20, <1>21, <1>22 DEF
     Next, Main

(* StartJobs() is never between the printing and the switch.               *)
LEMMA PrintStep == Inv /\ [Next]_vars => (Careful => PrintedBounds)'
<1> SUFFICES ASSUME Inv, [Next]_vars PROVE (Careful => PrintedBounds)'
  OBVIOUS
<1> USE LifecycleAssumption DEF Inv, TypeOK, Alive, Gone, Loop, Prologue, Sigs,
      Goes, CarefulRestart, SwitchedOnce, PrintedBounds, Fresh, KnownStarted,
      Careful, Off
<1>1. ASSUME NEW d \in Daemons, Start(d) PROVE (Careful => PrintedBounds)'
  BY <1>1 DEF Start, children
<1>2. ASSUME NEW d \in Daemons, WritePidFile(d) PROVE (Careful => PrintedBounds)'
  BY <1>2 DEF WritePidFile, Writer, children
<1>3. ASSUME NEW d \in Daemons, SetupSignals(d) PROVE (Careful => PrintedBounds)'
  BY <1>3 DEF SetupSignals, children, others
<1>4. ASSUME NEW d \in Daemons, NewWatcher(d) PROVE (Careful => PrintedBounds)'
  BY <1>4 DEF NewWatcher, others, Ends, Orphaned, memory
<1>5. ASSUME NEW d \in Daemons, Bind(d) PROVE (Careful => PrintedBounds)'
  BY <1>5 DEF Bind, others, PortFree, Ends, Orphaned, memory
<1>6. ASSUME NEW d \in Daemons, Reap(d) PROVE (Careful => PrintedBounds)'
  BY <1>6 DEF Reap, Swap, Freed, others
<1>7. ASSUME NEW d \in Daemons, Reload(d) PROVE (Careful => PrintedBounds)'
  BY <1>7 DEF Reload, Swap, children, others
<1>8. ASSUME NEW d \in Daemons, TakeTerm(d) PROVE (Careful => PrintedBounds)'
  BY <1>8 DEF TakeTerm, children
<1>9. ASSUME NEW d \in Daemons, Exit(d) PROVE (Careful => PrintedBounds)'
  BY <1>9 DEF Exit, others, Ends, Orphaned, memory
<1>10. ASSUME NEW d \in Daemons, PrintRunning(d) PROVE (Careful => PrintedBounds)'
  BY <1>10 DEF PrintRunning, Swap, children, others
<1>11. ASSUME NEW d \in Daemons, Toggle(d) PROVE (Careful => PrintedBounds)'
  <2> SUFFICES ASSUME Careful' PROVE PrintedBounds'
    OBVIOUS
  <2>1. /\ \A e \in Daemons : e # d => noNew'[e] = noNew[e] /\ flags'[e] = flags[e]
        /\ flags'[d] = flags[d] \ {"USR2"}
        /\ phase[d] = "usr2" /\ phase' = [phase EXCEPT ![d] = "jobs"]
        /\ UNCHANGED <<upset, op, target, running, report>>
    BY <1>11 DEF Toggle, Swap, others
  <2>2. /\ "USR2" \in flags[d] => noNew'[d] = ~noNew[d]
        /\ "USR2" \notin flags[d] => noNew'[d] = noNew[d]
    <3>1. noNew' = [noNew EXCEPT ![d] = IF "USR2" \in flags[d] THEN ~@ ELSE @]
      BY <1>11 DEF Toggle
    <3>2. noNew \in [Daemons -> BOOLEAN]
      OBVIOUS
    <3> HIDE DEF TypeOK, Inv
    <3> QED
      BY <3>1, <3>2, SMT
  <2>3. op # "none" /\ d = target => noNew'[d]
    BY <2>1, <2>2
  <2> QED
    BY <2>1, <2>3
<1>12. ASSUME NEW d \in Daemons, NEW J \in SUBSET Jobs, StartJobs(d, J) PROVE (Careful => PrintedBounds)'
  BY <1>12 DEF StartJobs, MayStart, others
<1>13. ASSUME NEW d \in Daemons, Crash(d) PROVE (Careful => PrintedBounds)'
  BY <1>13 DEF Crash, Ends, Orphaned, memory
<1>14. ASSUME NEW d \in Daemons, SenderEnds(d) PROVE (Careful => PrintedBounds)'
  BY <1>14 DEF SenderEnds, Chld, others
<1>15. ASSUME NEW d \in Daemons, NEW j \in Jobs, Execvp(d, j) PROVE (Careful => PrintedBounds)'
  BY <1>15 DEF Execvp, daemonVars, others
<1>16. ASSUME NEW d \in Daemons, NEW j \in Jobs, JobEnds(d, j) PROVE (Careful => PrintedBounds)'
  BY <1>16 DEF JobEnds, LiveJob, Chld, others
<1>17. ASSUME NEW s \in Signals, Signal(s) PROVE (Careful => PrintedBounds)'
  BY <1>17 DEF Signal, Deliver, Catches, Ends, Orphaned, memory
<1>18. ASSUME SwitchOff PROVE (Careful => PrintedBounds)'
  BY <1>18 DEF SwitchOff, Deliver, Catches, Ends, Orphaned, memory
<1>19. ASSUME AskRunning PROVE (Careful => PrintedBounds)'
  BY <1>19 DEF AskRunning, Deliver, Catches, Ends, Orphaned, memory
<1>20. ASSUME AskAgain PROVE (Careful => PrintedBounds)'
  BY <1>20 DEF AskAgain, daemonVars, children
<1>21. ASSUME Terminate PROVE (Careful => PrintedBounds)'
  <2> SUFFICES ASSUME Careful' PROVE PrintedBounds'
    OBVIOUS
  <2>1. target \in Daemons /\ UNCHANGED <<upset, target>>
    BY <1>21 DEF Terminate
  <2>2. CASE ~Alive(target)
    BY <1>21, <2>1, <2>2 DEF Terminate, Deliver, memory
  <2>3. CASE Alive(target) /\ ~Catches(target)
    BY <1>21, <2>1, <2>3 DEF Terminate, Deliver, Ends
  <2>4. CASE Alive(target) /\ Catches(target)
    <3>1. Off(target) /\ running[target] = {}
      <4>1. report[target] = {{}} /\ op = "asked"
        BY <1>21 DEF Terminate
      <4>2. {} \in report[target]
        BY <4>1
      <4>3. Careful
        BY <2>1
      <4>4. Off(target) /\ \A R \in report[target] : running[target] \subseteq R
        BY <2>1, <2>4, <4>1, <4>2, <4>3
      <4>5. running[target] \subseteq {}
        BY <4>2, <4>4
      <4> QED
        BY <4>4, <4>5
    <3>2. UNCHANGED <<phase, noNew, running, report>>
      BY <1>21, <2>1, <2>4 DEF Terminate, Deliver
    <3> QED
      BY <2>1, <3>1, <3>2
  <2> QED
    BY <2>2, <2>3, <2>4
<1>22. ASSUME UNCHANGED vars PROVE (Careful => PrintedBounds)'
  BY <1>22 DEF vars, daemonVars, children, others
<1> QED
  BY <1>1, <1>2, <1>3, <1>4, <1>5, <1>6, <1>7, <1>8, <1>9, <1>10, <1>11, <1>12,
     <1>13, <1>14, <1>15, <1>16, <1>17, <1>18, <1>19, <1>20, <1>21, <1>22 DEF
     Next, Main

(* A daemon that was told to stop had no job left.                         *)
LEMMA DeadStep == Inv /\ [Next]_vars => (Careful => DeadLeaveNoJob)'
<1> SUFFICES ASSUME Inv, [Next]_vars PROVE (Careful => DeadLeaveNoJob)'
  OBVIOUS
<1> USE LifecycleAssumption DEF Inv, TypeOK, Alive, Gone, Loop, Prologue, Sigs,
      Goes, CarefulRestart, SwitchedOnce, PrintedBounds, DeadLeaveNoJob, LiveJob,
      Fresh, KnownStarted, Careful
<1>1. ASSUME NEW d \in Daemons, Start(d) PROVE (Careful => DeadLeaveNoJob)'
  BY <1>1 DEF Start, children
<1>2. ASSUME NEW d \in Daemons, WritePidFile(d) PROVE (Careful => DeadLeaveNoJob)'
  BY <1>2 DEF WritePidFile, Writer, children
<1>3. ASSUME NEW d \in Daemons, SetupSignals(d) PROVE (Careful => DeadLeaveNoJob)'
  BY <1>3 DEF SetupSignals, children, others
<1>4. ASSUME NEW d \in Daemons, NewWatcher(d) PROVE (Careful => DeadLeaveNoJob)'
  BY <1>4 DEF NewWatcher, others, Ends, Orphaned, memory
<1>5. ASSUME NEW d \in Daemons, Bind(d) PROVE (Careful => DeadLeaveNoJob)'
  BY <1>5 DEF Bind, others, PortFree, Ends, Orphaned, memory
<1>6. ASSUME NEW d \in Daemons, Reap(d) PROVE (Careful => DeadLeaveNoJob)'
  BY <1>6 DEF Reap, Swap, Freed, others
<1>7. ASSUME NEW d \in Daemons, Reload(d) PROVE (Careful => DeadLeaveNoJob)'
  BY <1>7 DEF Reload, Swap, children, others
<1>8. ASSUME NEW d \in Daemons, TakeTerm(d) PROVE (Careful => DeadLeaveNoJob)'
  BY <1>8 DEF TakeTerm, children
<1>9. ASSUME NEW d \in Daemons, Exit(d) PROVE (Careful => DeadLeaveNoJob)'
  BY <1>9 DEF Exit, others, Ends, Orphaned, memory
<1>10. ASSUME NEW d \in Daemons, PrintRunning(d) PROVE (Careful => DeadLeaveNoJob)'
  BY <1>10 DEF PrintRunning, Swap, children, others
<1>11. ASSUME NEW d \in Daemons, Toggle(d) PROVE (Careful => DeadLeaveNoJob)'
  BY <1>11 DEF Toggle, Swap, children, others
<1>12. ASSUME NEW d \in Daemons, NEW J \in SUBSET Jobs, StartJobs(d, J) PROVE (Careful => DeadLeaveNoJob)'
  BY <1>12 DEF StartJobs, MayStart, others
<1>13. ASSUME NEW d \in Daemons, Crash(d) PROVE (Careful => DeadLeaveNoJob)'
  BY <1>13 DEF Crash, Ends, Orphaned, memory
<1>14. ASSUME NEW d \in Daemons, SenderEnds(d) PROVE (Careful => DeadLeaveNoJob)'
  BY <1>14 DEF SenderEnds, Chld, others
<1>15. ASSUME NEW d \in Daemons, NEW j \in Jobs, Execvp(d, j) PROVE (Careful => DeadLeaveNoJob)'
  BY <1>15 DEF Execvp, daemonVars, others
<1>16. ASSUME NEW d \in Daemons, NEW j \in Jobs, JobEnds(d, j) PROVE (Careful => DeadLeaveNoJob)'
  BY <1>16 DEF JobEnds, LiveJob, Chld, others
<1>17. ASSUME NEW s \in Signals, Signal(s) PROVE (Careful => DeadLeaveNoJob)'
  BY <1>17 DEF Signal, Deliver, Catches, Ends, Orphaned, memory
<1>18. ASSUME SwitchOff PROVE (Careful => DeadLeaveNoJob)'
  BY <1>18 DEF SwitchOff, Deliver, Catches, Ends, Orphaned, memory
<1>19. ASSUME AskRunning PROVE (Careful => DeadLeaveNoJob)'
  BY <1>19 DEF AskRunning, Deliver, Catches, Ends, Orphaned, memory
<1>20. ASSUME AskAgain PROVE (Careful => DeadLeaveNoJob)'
  BY <1>20 DEF AskAgain, daemonVars, children
<1>21. ASSUME Terminate PROVE (Careful => DeadLeaveNoJob)'
  BY <1>21 DEF Terminate, Deliver, Catches, Ends, Orphaned, memory
<1>22. ASSUME UNCHANGED vars PROVE (Careful => DeadLeaveNoJob)'
  BY <1>22 DEF vars, daemonVars, children, others
<1> QED
  BY <1>1, <1>2, <1>3, <1>4, <1>5, <1>6, <1>7, <1>8, <1>9, <1>10, <1>11, <1>12,
     <1>13, <1>14, <1>15, <1>16, <1>17, <1>18, <1>19, <1>20, <1>21, <1>22 DEF
     Next, Main

-----------------------------------------------------------------------------
LEMMA InvHolds == Spec => []Inv
<1>1. Inv /\ [Next]_vars => Inv'
  BY TypeStep, FreshStep, OneInLoopStep, KnownStep, FileStep, SwitchStep, PrintStep,
     DeadStep DEF Inv, CarefulRestart
<1> QED
  BY InitInv, <1>1, PTL DEF Spec

(* The tables have their types, and each daemon's running map names the    *)
(* children it has not reaped.                                             *)
THEOREM LifecycleTypeCorrect == Spec => []TypeOK
<1>1. Inv => TypeOK
  BY DEF Inv
<1> QED
  BY InvHolds, <1>1, PTL

(* Where daemons are started one after the other and the file can be       *)
(* written, the PID file names the daemon that serves, after any number of *)
(* crashes, early signals and restarts; one that stops on TERM leaves none.*)
THEOREM PidFileIsTrue == Spec => []PidFileNamesServer
<1>1. Inv => PidFileNamesServer
  BY DEF Inv, FileFollows, OneAfterTheOther, PidFileNamesServer, Serves, Loop, Gone
<1> QED
  BY InvHolds, <1>1, PTL

(* The restart of the README never leaves a job with processes of two      *)
(* daemons, for any number of daemons started at any time, although the    *)
(* switch and the question for running jobs are two signals that may be    *)
(* handled in one turn of the loop.                                        *)
THEOREM RestartDoublesNoJob == Spec => []NoJobTwice
<1>1. Inv => NoJobTwice
  <2> SUFFICES ASSUME Inv, Careful, NEW d \in Daemons, NEW e \in Daemons,
                      NEW j \in Jobs, LiveJob(d, j), LiveJob(e, j)
               PROVE  d = e
    BY DEF NoJobTwice, Careful
  <2>1. ASSUME NEW c \in Daemons, LiveJob(c, j) PROVE phase[c] \in Loop \cup {"exit"}
    <3>1. phase[c] # "dead"
      BY <2>1 DEF Inv, CarefulRestart, DeadLeaveNoJob
    <3>2. phase[c] \notin Prologue \cup {"unborn"}
      BY <2>1 DEF Inv, Fresh, LiveJob
    <3> QED
      BY <3>1, <3>2 DEF Inv, TypeOK, Gone
  <2> QED
    BY <2>1 DEF Inv, OneInLoop
<1> QED
  BY InvHolds, <1>1, PTL
=============================================================================
