------------------------------- MODULE Kubjas -------------------------------
(***************************************************************************)
(* A daemon whose jobs notify each other: Scheduler.tla and Notify.tla put *)
(* together. A sender process forked by the loop runs the protocol of a    *)
(* sender, and the loop gets its datagrams through the filter.             *)
(*                                                                         *)
(* A letter is what a sender sends: a note (from one job to another, with  *)
(* a type), the second in which it was written, and a number to tell       *)
(* senders of the same text apart.                                         *)
(***************************************************************************)
EXTENDS Scheduler

CONSTANTS
  Notes,     \* [from, to, type]: the targets of notify-start and so on
  NoNote,    \* no note: a process that is no sender
  NoLetter,  \* no letter: the note of the process was not written yet
  NoText,
  Capacity,  \* see Notify.tla
  Attempts,
  MaxDups,
  MaxSame,   \* bound on the letters of the same text
  MaxSets    \* bound on the settings of the clock

Letters == [note : Notes, at : 0 .. MaxTime, k : 1 .. MaxSame]
TextOf(s) == [note |-> s.note, at |-> s.at]
AllTexts == {TextOf(s) : s \in Letters}

NotesOf(j, type) == {n \in Notes : n.from = j /\ n.type = type}

ASSUME KubjasAssumption ==
  /\ Notes \subseteq [from : Jobs, to : Jobs, type : MessageTypes \ {"ping"}]
  /\ IsFiniteSet(Notes)
  /\ NoNote \notin Notes
  /\ NoLetter \notin Letters
  /\ NoText \notin AllTexts
  /\ Capacity \in Nat \ {0}
  /\ Attempts \in Nat \ {0}
  /\ MaxDups \in Nat
  /\ \A c \in Configs, j \in Jobs :
       /\ Cfg[c][j].starts = Cardinality(NotesOf(j, "start-message"))
       /\ Cfg[c][j].successes = Cardinality(NotesOf(j, "success-message"))
       /\ Cfg[c][j].failures = Cardinality(NotesOf(j, "failure-message"))
  /\ \A n \in Notes : [to |-> n.to, type |-> n.type] \in Messages

VARIABLES
  st, attempts, copies, oks, known, lifo, fresh, dups, lost,  \* of Notify.tla
  note,      \* pid -> the note its process was forked for
  letter,    \* pid -> the letter it sends
  noted,     \* history: job -> events that another job's notes told it of
  followed,  \* history: job -> starts by a notification
  sets       \* history: settings of the clock

N == INSTANCE Notify WITH
  Senders <- Letters, Texts <- AllTexts, Text <- [s \in Letters |-> TextOf(s)],
  Valid <- AllTexts, Fingerprints <- AllTexts, Crc <- [t \in AllTexts |-> t]

net == <<st, attempts, copies, oks, known, lifo, fresh, dups, lost>>
mail == <<note, letter>>
history == <<noted, followed, sets>>
schedVars == vars
allVars == <<schedVars, net, mail, history>>

KInit ==
  /\ Init
  /\ N!Init
  /\ note = [p \in Pids |-> NoNote]
  /\ letter = [p \in Pids |-> NoLetter]
  /\ noted = [j \in Jobs |-> 0]
  /\ followed = [j \in Jobs |-> 0]
  /\ sets = 0

-----------------------------------------------------------------------------
(* send_notify() for each target: the processes in S are its children.     *)
Forks(S, due) ==
  \E f \in [S -> due] :
    /\ \A p, q \in S : p # q => f[p] # f[q]
    /\ note' = [p \in Pids |-> IF p \in S THEN f[p] ELSE note[p]]
    /\ noted' = [j \in Jobs |-> noted[j] + Cardinality({n \in due : n.to = j})]

EndOfJob(S) ==
  /\ HandleExit(S)
  /\ LET child == Head(exited)
         j == pidToJob[child.pid]
         type == IF child.ok THEN "success-message" ELSE "failure-message"
     IN Forks(S, IF j \in Loaded THEN NotesOf(j, type) ELSE {})
  /\ UNCHANGED <<net, letter, followed, sets>>

StartOfJob(p, S) ==
  /\ ExecJob(p, S)
  /\ Forks(S, NotesOf(Current, "start-message"))
  /\ followed' = [followed EXCEPT ![Current] =
                    IF scan.trigger.kind = "notify" THEN @ + 1 ELSE @]
  /\ UNCHANGED <<net, letter, sets>>

(* One datagram: what the filter lets through triggers jobs, the rest is   *)
(* dropped and the next one is read.                                       *)
Datagram ==
  /\ pc = "udp"
  /\ \E s \in Letters :
       /\ N!Receive(s)
       /\ IF fresh' = fresh THEN UNCHANGED schedVars
          ELSE /\ StartJobs([kind |-> "notify",
                             msg |-> [to |-> s.note.to, type |-> s.note.type]])
               /\ UNCHANGED <<jobs, conf, execTime, running, pidToJob, noNewJobs,
                              lastTick, exited, flags, proc, clock, ran>>
  /\ UNCHANGED <<mail, history>>

OtherStep ==
  /\ \/ TakeChld \/ WaitPid \/ HandleDone \/ TakeHup \/ TakeTerm \/ TakeUsr2
     \/ WatchEvent \/ WatchDone \/ UdpWouldBlock \/ TimerTick \/ TimerScan
     \/ ScanSkip \/ ScanRunning \/ ExecFails \/ EndScan
     \/ OperatorSignal \/ ClockTick
     \/ \E p \in Pids : ChildExec(p) \/ (proc[p].job # NoJob /\ ChildExit(p))
  /\ UNCHANGED <<net, mail, history>>

SetClock ==
  /\ ClockSet
  /\ sets < MaxSets
  /\ sets' = sets + 1
  /\ UNCHANGED <<net, mail, noted, followed>>

-----------------------------------------------------------------------------
(* A sender process reads the clock and writes its text, runs the          *)
(* protocol, and exits when that has ended.                                *)
Write(p) ==
  /\ note[p] # NoNote /\ letter[p] = NoLetter
  /\ \E s \in Letters : /\ s.note = note[p] /\ s.at = clock
                        /\ \A k \in 1 .. s.k - 1 : st[[s EXCEPT !.k = k]] # "idle"
                        /\ N!Fork(s)
                        /\ letter' = [letter EXCEPT ![p] = s]
  /\ UNCHANGED <<schedVars, note, history>>

SenderStep(p) ==
  /\ letter[p] # NoLetter
  /\ N!Child(letter[p])
  /\ UNCHANGED <<schedVars, mail, history>>

SenderExit(p) ==
  /\ letter[p] # NoLetter
  /\ st[letter[p]] \in N!Ended
  /\ ChildExit(p)
  /\ note' = [note EXCEPT ![p] = NoNote]
  /\ letter' = [letter EXCEPT ![p] = NoLetter]
  /\ UNCHANGED <<net, history>>

KNext ==
  \/ \E S \in SUBSET Pids : EndOfJob(S)
  \/ \E p \in Pids, S \in SUBSET Pids : StartOfJob(p, S)
  \/ Datagram
  \/ OtherStep
  \/ SetClock
  \/ \E p \in Pids : Write(p) \/ SenderStep(p) \/ SenderExit(p)

KSpec == KInit /\ [][KNext]_allVars

-----------------------------------------------------------------------------
(* Properties.                                                             *)

(* A job that follows others starts at most once for each start or end it  *)
(* was notified of, however often a sender retries because the loop was    *)
(* busy, and whatever the network repeats and delays (README: Kubjas       *)
(* notifies other jobs when the current one starts and ends).              *)
OneRunPerEvent == \A j \in Jobs : followed[j] <= noted[j]
=============================================================================
