---------------------------- MODULE KubjasProofs ----------------------------
(***************************************************************************)
(* The daemon whose jobs notify each other is a scheduler: it implements   *)
(* Scheduler.tla, which takes any datagram at any time. What is proved     *)
(* there holds of the composition.                                         *)
(***************************************************************************)
EXTENDS Kubjas, StartProofs

NP == INSTANCE NotifyProofs WITH
  Senders <- Letters, Texts <- AllTexts, Text <- [s \in Letters |-> TextOf(s)],
  Valid <- AllTexts, Fingerprints <- AllTexts, Crc <- [t \in AllTexts |-> t]

(* A datagram the filter lets through is one of the messages the scheduler *)
(* reacts to, and one it holds back changes nothing for it.                *)
LEMMA DatagramStep == Datagram => [Next]_vars
<1> SUFFICES ASSUME Datagram, fresh' # fresh PROVE UdpMessage
  BY DEF Datagram, schedVars, Next, Daemon
<1>1. PICK s \in Letters :
        StartJobs([kind |-> "notify", msg |-> [to |-> s.note.to, type |-> s.note.type]])
  BY DEF Datagram
<1>2. [to |-> s.note.to, type |-> s.note.type] \in Messages
  BY KubjasAssumption DEF Letters
<1>3. pc = "udp" /\ UNCHANGED <<jobs, conf, execTime, running, pidToJob, noNewJobs,
                                lastTick, exited, flags, proc, clock, ran>>
  BY DEF Datagram
<1> QED
  BY <1>1, <1>2, <1>3 DEF UdpMessage

(* Every step of the composition is a step of the scheduler or leaves it   *)
(* alone.                                                                  *)
LEMMA SchedulerStep == [KNext]_allVars => [Next]_vars
<1> SUFFICES ASSUME [KNext]_allVars PROVE [Next]_vars
  OBVIOUS
<1>1. ASSUME NEW S \in SUBSET Pids, EndOfJob(S) PROVE Next
  BY <1>1 DEF EndOfJob, Next, Daemon
<1>2. ASSUME NEW p \in Pids, NEW S \in SUBSET Pids, StartOfJob(p, S) PROVE Next
  BY <1>2 DEF StartOfJob, Next, Daemon
<1>3. CASE Datagram
  BY <1>3, DatagramStep
<1>4. CASE OtherStep
  BY <1>4 DEF OtherStep, Next, Daemon, Environment
<1>5. CASE SetClock
  BY <1>5 DEF SetClock, Next, Environment
<1>6. ASSUME NEW p \in Pids, Write(p) \/ SenderStep(p) PROVE UNCHANGED vars
  BY <1>6 DEF Write, SenderStep, schedVars
<1>7. ASSUME NEW p \in Pids, SenderExit(p) PROVE Next
  BY <1>7 DEF SenderExit, Next, Environment
<1>8. CASE UNCHANGED allVars
  BY <1>8 DEF allVars, schedVars
<1> QED
  BY <1>1, <1>2, <1>3, <1>4, <1>5, <1>6, <1>7, <1>8 DEF KNext

(* The daemon with its senders, its socket and its filter behaves as       *)
(* Scheduler.tla allows.                                                   *)
THEOREM ImplementsScheduler == KSpec => Spec
<1>1. KInit => Init
  BY DEF KInit
<1> QED
  BY <1>1, SchedulerStep, PTL DEF KSpec, Spec

(* Jobs that exclude each other never overlap, also when they start each   *)
(* other by notifications.                                                 *)
THEOREM ChainedExclusive == KSpec => []MutualExclusion
  BY ImplementsScheduler, Exclusive, PTL

(* No entry of the running map is left without a process, also while       *)
(* senders come and go and take the pids of jobs.                          *)
THEOREM ChainedNeverStuck == KSpec => []NoStuckEntry
  BY ImplementsScheduler, RunningMapNeverStuck, PTL

(* The minimum delay between two runs is kept by jobs that start each      *)
(* other, too.                                                             *)
THEOREM ChainedIntervalKept ==
  ASSUME \A c, d \in Configs : Names[c] = Names[d]
  PROVE  KSpec => IntervalRespected
  BY ImplementsScheduler, IntervalKept, PTL

(* The job that has waited longest is tried first, also when jobs start    *)
(* each other.                                                             *)
THEOREM ChainedLeastRecentFirst ==
  KSpec /\ []("HUP" \notin flags) => []LeastRecentFirst
  BY ImplementsScheduler, LeastRecentFirstKept, PTL

-----------------------------------------------------------------------------
(* The senders, the socket and the filter are those of Notify.tla.         *)

(* The assumption of Notify.tla, for letters and their texts.              *)
LEMMA NetAssumption ==
  /\ [s \in Letters |-> TextOf(s)] \in [Letters -> AllTexts]
  /\ AllTexts \subseteq AllTexts
  /\ NoText \notin AllTexts
  /\ [t \in AllTexts |-> t] \in [AllTexts -> AllTexts]
  /\ Capacity \in Nat \ {0}
  /\ Attempts \in Nat \ {0}
  /\ MaxDups \in Nat
BY KubjasAssumption DEF AllTexts

(* The notes and letters of the sender processes, and the counts of what   *)
(* jobs were told and what they did.                                       *)
MailType == /\ note \in [Pids -> Notes \cup {NoNote}]
            /\ letter \in [Pids -> Letters \cup {NoLetter}]
            /\ noted \in [Jobs -> Nat]
            /\ followed \in [Jobs -> Nat]

LEMMA NotesOfType ==
  ASSUME NEW j, NEW type
  PROVE  NotesOf(j, type) \in SUBSET Notes
BY DEF NotesOf

LEMMA ForksType ==
  ASSUME MailType, NEW S \in SUBSET Pids, NEW due \in SUBSET Notes, Forks(S, due)
  PROVE  note' \in [Pids -> Notes \cup {NoNote}] /\ noted' \in [Jobs -> Nat]
<1>1. PICK f : /\ f \in [S -> due]
               /\ note' = [p \in Pids |-> IF p \in S THEN f[p] ELSE note[p]]
               /\ noted' = [j \in Jobs |-> noted[j] + Cardinality({n \in due : n.to = j})]
  BY DEF Forks
<1>2. ASSUME NEW p \in Pids
      PROVE  (IF p \in S THEN f[p] ELSE note[p]) \in Notes \cup {NoNote}
  <2>1. p \in S => f[p] \in Notes
    BY <1>1
  <2> QED BY <2>1 DEF MailType
<1>3. ASSUME NEW j \in Jobs PROVE noted[j] + Cardinality({n \in due : n.to = j}) \in Nat
  <2>1. IsFiniteSet({n \in due : n.to = j})
    BY KubjasAssumption, FS_Subset
  <2>2. Cardinality({n \in due : n.to = j}) \in Nat
    BY <2>1, FS_CardinalityType
  <2> QED BY <2>2 DEF MailType
<1> QED BY <1>1, <1>2, <1>3

LEMMA MailTypeHolds == KSpec => []MailType
<1>1. KInit => MailType
  BY DEF KInit, MailType
<1>2. ASSUME MailType, [KNext]_allVars PROVE MailType'
  <2> USE <1>2
  <2>1. ASSUME NEW S \in SUBSET Pids, EndOfJob(S) PROVE MailType'
    <3>1. PICK due \in SUBSET Notes : Forks(S, due)
      BY <2>1, NotesOfType DEF EndOfJob
    <3> QED BY <2>1, <3>1, ForksType DEF EndOfJob, MailType
  <2>2. ASSUME NEW p \in Pids, NEW S \in SUBSET Pids, StartOfJob(p, S) PROVE MailType'
    <3>1. Forks(S, NotesOf(Current, "start-message"))
      BY <2>2 DEF StartOfJob
    <3>2. note' \in [Pids -> Notes \cup {NoNote}] /\ noted' \in [Jobs -> Nat]
      BY <3>1, ForksType, NotesOfType
    <3>3. followed' \in [Jobs -> Nat]
      <4>1. followed' = [followed EXCEPT ![Current] =
                           IF scan.trigger.kind = "notify" THEN @ + 1 ELSE @]
        BY <2>2 DEF StartOfJob
      <4>2. \/ followed' = [followed EXCEPT ![Current] = @ + 1]
            \/ followed' = [followed EXCEPT ![Current] = @]
        BY <4>1
      <4> QED BY <4>2 DEF MailType
    <3> QED BY <2>2, <3>2, <3>3 DEF StartOfJob, MailType
  <2>3. CASE Datagram \/ OtherStep \/ SetClock
    BY <2>3 DEF Datagram, OtherStep, SetClock, mail, history, MailType
  <2>4. ASSUME NEW p \in Pids, Write(p) \/ SenderStep(p) \/ SenderExit(p) PROVE MailType'
    BY <2>4 DEF Write, SenderStep, SenderExit, mail, history, MailType
  <2>5. CASE UNCHANGED allVars
    BY <2>5 DEF allVars, mail, history, MailType
  <2> QED BY <2>1, <2>2, <2>3, <2>4, <2>5 DEF KNext
<1> QED BY <1>1, <1>2, PTL DEF KSpec

(* Every step of the composition is one of theirs or leaves them alone.    *)
LEMMA NotifyStep == MailType /\ [KNext]_allVars => [NP!Next]_NP!vars
<1> SUFFICES ASSUME MailType, [KNext]_allVars PROVE NP!Next \/ UNCHANGED net
  BY DEF net, NP!vars
<1>1. ASSUME NEW S \in SUBSET Pids, EndOfJob(S) PROVE UNCHANGED net
  BY <1>1 DEF EndOfJob
<1>2. ASSUME NEW p \in Pids, NEW S \in SUBSET Pids, StartOfJob(p, S) PROVE UNCHANGED net
  BY <1>2 DEF StartOfJob
<1>3. ASSUME NEW s \in Letters, N!Receive(s) PROVE NP!Next
  BY <1>3
  DEF NP!Next, N!Receive, NP!Receive, N!IsDuplicate, NP!IsDuplicate, N!Remember,
      NP!Remember, N!Overfull, NP!Overfull, N!OldestForgotten, NP!OldestForgotten,
      N!Answers, NP!Answers, N!senderVars, NP!senderVars, N!filterVars, NP!filterVars
<1>4. CASE Datagram
  BY <1>3, <1>4 DEF Datagram
<1>5. CASE OtherStep \/ SetClock
  BY <1>5 DEF OtherStep, SetClock
<1>6. ASSUME NEW s \in Letters, N!Fork(s) \/ N!Child(s) PROVE NP!Next
  BY <1>6
  DEF NP!Next, N!Fork, NP!Fork, N!Child, NP!Child, N!Send, NP!Send, N!SendFails,
      NP!SendFails, N!RecvOk, NP!RecvOk, N!Timeout, NP!Timeout, N!filterVars,
      NP!filterVars
<1>7. ASSUME NEW p \in Pids, Write(p) PROVE NP!Next
  BY <1>6, <1>7 DEF Write
<1>8. ASSUME NEW p \in Pids, SenderStep(p) PROVE NP!Next \/ UNCHANGED net
  <2>1. letter[p] \in Letters
    BY <1>8 DEF SenderStep, MailType
  <2> QED BY <1>6, <1>8, <2>1 DEF SenderStep
<1>9. ASSUME NEW p \in Pids, SenderExit(p) PROVE UNCHANGED net
  BY <1>9 DEF SenderExit
<1>10. CASE UNCHANGED allVars
  BY <1>10 DEF allVars
<1> QED BY <1>1, <1>2, <1>4, <1>5, <1>7, <1>8, <1>9, <1>10 DEF KNext

(* The composition's notifications behave as Notify.tla allows: what is    *)
(* proved there of the filter, the answers and the retries holds of it.    *)
THEOREM ImplementsNotify == KSpec => NP!Spec
<1>1. KInit => NP!Init
  BY DEF KInit, N!Init, NP!Init
<1> QED BY <1>1, NotifyStep, MailTypeHolds, PTL DEF KSpec, NP!Spec

-----------------------------------------------------------------------------
(* Events, letters and starts.                                             *)

(* The sender processes that are still to write to job j, and the letters  *)
(* written to it.                                                          *)
Unwritten(j) == {p \in Pids : /\ note[p] # NoNote /\ letter[p] = NoLetter
                              /\ note[p].to = j}
Written(j) == {s \in Letters : st[s] # "idle" /\ s.note.to = j}

(* No letter without an event: each process writes one, for its note.      *)
NotesAccounted ==
  \A j \in Jobs : /\ IsFiniteSet(Unwritten(j))
                  /\ IsFiniteSet(Written(j))
                  /\ Cardinality(Unwritten(j)) + Cardinality(Written(j)) <= noted[j]

(* As many processes are forked for a job as events are counted, at most.  *)
LEMMA ForksCount ==
  ASSUME MailType, NEW S \in SUBSET Pids, NEW due \in SUBSET Notes, Forks(S, due),
         UNCHANGED letter, NEW j \in Jobs, IsFiniteSet(Unwritten(j))
  PROVE  \E n \in Nat : /\ noted'[j] = noted[j] + n
                        /\ IsFiniteSet(Unwritten(j)')
                        /\ Cardinality(Unwritten(j)') <= Cardinality(Unwritten(j)) + n
<1>1. PICK f : /\ f \in [S -> due]
               /\ \A p, q \in S : p # q => f[p] # f[q]
               /\ note' = [p \in Pids |-> IF p \in S THEN f[p] ELSE note[p]]
               /\ noted' = [i \in Jobs |-> noted[i] + Cardinality({n \in due : n.to = i})]
  BY DEF Forks
<1> DEFINE D == {n \in due : n.to = j}
           A == {p \in S : f[p].to = j}
           W == Unwritten(j)
<1>2. IsFiniteSet(D)
  BY KubjasAssumption, FS_Subset
<1>3. Cardinality(D) \in Nat /\ noted'[j] = noted[j] + Cardinality(D)
  BY <1>1, <1>2, FS_CardinalityType
<1>4. IsFiniteSet(A) /\ Cardinality(A) <= Cardinality(D)
  <2> DEFINE g == [p \in A |-> f[p]]
  <2>1. \A p \in A : f[p] \in D
    BY <1>1
  <2>2. g \in Injection(A, D)
    BY <1>1, <2>1 DEF Injection, IsInjective
  <2> QED BY <1>2, <2>2, FS_Injection
<1>5. Unwritten(j)' \in SUBSET (W \cup A)
  BY <1>1 DEF Unwritten
<1> HIDE DEF D, A, W
<1>6. IsFiniteSet(W \cap A) /\ IsFiniteSet(W)
  BY FS_Subset DEF W
<1>7. /\ IsFiniteSet(W \cup A)
      /\ Cardinality(W \cup A) = Cardinality(W) + Cardinality(A) - Cardinality(W \cap A)
  BY <1>4, <1>6, FS_Union
<1>8. IsFiniteSet(Unwritten(j)') /\ Cardinality(Unwritten(j)') <= Cardinality(W \cup A)
  BY <1>5, <1>7, FS_Subset
<1>9. /\ Cardinality(W) \in Nat /\ Cardinality(A) \in Nat /\ Cardinality(W \cap A) \in Nat
      /\ Cardinality(Unwritten(j)') \in Nat
  BY <1>4, <1>6, <1>8, FS_CardinalityType
<1>10. Cardinality(Unwritten(j)') <= Cardinality(W) + Cardinality(D)
  BY <1>3, <1>4, <1>7, <1>8, <1>9
<1> QED BY <1>3, <1>8, <1>10 DEF W

(* Nothing else changes the count than a fork and the writing of a letter, *)
(* which turns a process that is to write into a letter.                   *)
LEMMA SameAccounts ==
  ASSUME NotesAccounted, UNCHANGED <<noted, note, letter>>,
         \A s \in Letters : st'[s] = "idle" <=> st[s] = "idle"
  PROVE  NotesAccounted'
<1>1. \A j \in Jobs : Unwritten(j)' = Unwritten(j) /\ Written(j)' = Written(j)
  BY DEF Unwritten, Written
<1> QED BY <1>1 DEF NotesAccounted

LEMMA ForksAccounted ==
  ASSUME MailType, NotesAccounted, NEW S \in SUBSET Pids, NEW due \in SUBSET Notes,
         Forks(S, due), UNCHANGED <<letter, st>>
  PROVE  NotesAccounted'
<1> SUFFICES ASSUME NEW j \in Jobs
             PROVE  /\ IsFiniteSet(Unwritten(j)')
                    /\ IsFiniteSet(Written(j)')
                    /\ Cardinality(Unwritten(j)') + Cardinality(Written(j)') <= noted'[j]
  BY DEF NotesAccounted
<1>1. Written(j)' = Written(j)
  BY DEF Written
<1>2. PICK n \in Nat : /\ noted'[j] = noted[j] + n
                       /\ IsFiniteSet(Unwritten(j)')
                       /\ Cardinality(Unwritten(j)') <= Cardinality(Unwritten(j)) + n
  BY ForksCount DEF NotesAccounted
<1>3. /\ IsFiniteSet(Unwritten(j)) /\ IsFiniteSet(Written(j)) /\ noted[j] \in Nat
      /\ Cardinality(Unwritten(j)) + Cardinality(Written(j)) <= noted[j]
  BY DEF NotesAccounted, MailType
<1>4. /\ Cardinality(Unwritten(j)) \in Nat /\ Cardinality(Written(j)) \in Nat
      /\ Cardinality(Unwritten(j)') \in Nat
  BY <1>2, <1>3, FS_CardinalityType
<1>5. Cardinality(Unwritten(j)') + Cardinality(Written(j)) <= noted'[j]
  BY <1>2, <1>3, <1>4
<1> QED BY <1>1, <1>2, <1>3, <1>5

LEMMA WriteAccounted ==
  ASSUME MailType, NotesAccounted, st \in [Letters -> N!States], NEW p \in Pids, Write(p)
  PROVE  NotesAccounted'
<1> SUFFICES ASSUME NEW j \in Jobs
             PROVE  /\ IsFiniteSet(Unwritten(j)')
                    /\ IsFiniteSet(Written(j)')
                    /\ Cardinality(Unwritten(j)') + Cardinality(Written(j)') <= noted'[j]
  BY DEF NotesAccounted
<1>1. /\ IsFiniteSet(Unwritten(j)) /\ IsFiniteSet(Written(j)) /\ noted[j] \in Nat
      /\ Cardinality(Unwritten(j)) + Cardinality(Written(j)) <= noted[j]
      /\ UNCHANGED <<note, noted>>
  BY DEF NotesAccounted, MailType, Write, history
<1>2. PICK s \in Letters : /\ s.note = note[p] /\ st[s] = "idle"
                           /\ st' = [st EXCEPT ![s] = "sending"]
                           /\ letter' = [letter EXCEPT ![p] = s]
  BY DEF Write, N!Fork
<1>3. note[p] # NoNote /\ letter[p] = NoLetter /\ NoLetter \notin Letters
  BY KubjasAssumption DEF Write
<1>4. \A q \in Pids : letter'[q] = IF q = p THEN s ELSE letter[q]
  BY <1>2 DEF MailType
<1>5. Unwritten(j)' = Unwritten(j) \ {p}
  BY <1>1, <1>2, <1>3, <1>4 DEF Unwritten
<1>6. \A r \in Letters : st'[r] = IF r = s THEN "sending" ELSE st[r]
  BY <1>2
<1>7. CASE s.note.to = j
  <2>1. p \in Unwritten(j)
    BY <1>2, <1>3, <1>7 DEF Unwritten
  <2>2. Written(j)' = Written(j) \cup {s} /\ s \notin Written(j)
    BY <1>2, <1>6, <1>7 DEF Written
  <2>3. /\ IsFiniteSet(Unwritten(j)')
        /\ Cardinality(Unwritten(j)') = Cardinality(Unwritten(j)) - 1
    BY <1>1, <1>5, <2>1, FS_RemoveElement
  <2>4. /\ IsFiniteSet(Written(j)')
        /\ Cardinality(Written(j)') = Cardinality(Written(j)) + 1
    BY <1>1, <2>2, FS_AddElement
  <2>5. Cardinality(Unwritten(j)) \in Nat /\ Cardinality(Written(j)) \in Nat
    BY <1>1, FS_CardinalityType
  <2> QED BY <1>1, <2>3, <2>4, <2>5
<1>8. CASE s.note.to # j
  <2>1. Unwritten(j)' = Unwritten(j)
    BY <1>2, <1>5, <1>8 DEF Unwritten
  <2>2. Written(j)' = Written(j)
    BY <1>2, <1>6, <1>8 DEF Written
  <2> QED BY <1>1, <2>1, <2>2
<1> QED BY <1>7, <1>8

(* A sender that runs its protocol is neither forked nor forgotten.        *)
LEMMA ChildNeverIdle ==
  ASSUME st \in [Letters -> N!States], NEW s \in Letters, N!Child(s)
  PROVE  \A r \in Letters : st'[r] = "idle" <=> st[r] = "idle"
<1>1. st[s] # "idle" /\ st'[s] # "idle" /\ \A r \in Letters \ {s} : st'[r] = st[r]
  <2>1. CASE N!Send(s) \/ N!SendFails(s) \/ N!RecvOk(s)
    BY <2>1 DEF N!Send, N!SendFails, N!RecvOk
  <2>2. CASE N!Timeout(s)
    <3>1. /\ st[s] = "waiting"
          /\ \E x \in {"silent", "sending"} : st' = [st EXCEPT ![s] = x]
      BY <2>2 DEF N!Timeout
    <3> QED BY <3>1
  <2> QED BY <2>1, <2>2 DEF N!Child
<1> QED BY <1>1

LEMMA NotesAccountedStep ==
  ASSUME MailType, st \in [Letters -> N!States], NotesAccounted, [KNext]_allVars
  PROVE  NotesAccounted'
<1>1. ASSUME NEW S \in SUBSET Pids, EndOfJob(S) PROVE NotesAccounted'
  <2>1. PICK due \in SUBSET Notes : Forks(S, due)
    BY <1>1, NotesOfType DEF EndOfJob
  <2> QED BY <1>1, <2>1, ForksAccounted DEF EndOfJob, net
<1>2. ASSUME NEW p \in Pids, NEW S \in SUBSET Pids, StartOfJob(p, S) PROVE NotesAccounted'
  <2>1. Forks(S, NotesOf(Current, "start-message"))
    BY <1>2 DEF StartOfJob
  <2> QED BY <1>2, <2>1, NotesOfType, ForksAccounted DEF StartOfJob, net
<1>3. CASE Datagram
  BY <1>3, SameAccounts DEF Datagram, N!Receive, N!senderVars, mail, history
<1>4. CASE OtherStep \/ SetClock
  BY <1>4, SameAccounts DEF OtherStep, SetClock, net, mail, history
<1>5. ASSUME NEW p \in Pids, Write(p) PROVE NotesAccounted'
  BY <1>5, WriteAccounted
<1>6. ASSUME NEW p \in Pids, SenderStep(p) PROVE NotesAccounted'
  <2>1. letter[p] \in Letters
    BY <1>6 DEF SenderStep, MailType
  <2>2. \A r \in Letters : st'[r] = "idle" <=> st[r] = "idle"
    BY <1>6, <2>1, ChildNeverIdle DEF SenderStep
  <2> QED BY <1>6, <2>2, SameAccounts DEF SenderStep, mail, history
<1>7. ASSUME NEW p \in Pids, SenderExit(p) PROVE NotesAccounted'
  <2>1. /\ letter[p] # NoLetter /\ UNCHANGED <<st, noted>>
        /\ \A q \in Pids : /\ note'[q] = IF q = p THEN NoNote ELSE note[q]
                           /\ letter'[q] = IF q = p THEN NoLetter ELSE letter[q]
    BY <1>7 DEF SenderExit, net, history, MailType
  <2>2. \A j \in Jobs : Unwritten(j)' = Unwritten(j) /\ Written(j)' = Written(j)
    BY <2>1 DEF Unwritten, Written
  <2> QED BY <2>1, <2>2 DEF NotesAccounted
<1>8. CASE UNCHANGED allVars
  BY <1>8, SameAccounts DEF allVars, net, mail, history
<1> QED BY <1>1, <1>2, <1>3, <1>4, <1>5, <1>6, <1>7, <1>8 DEF KNext

LEMMA NotesAccountedHold == KSpec => []NotesAccounted
<1>1. KInit => NotesAccounted
  <2> SUFFICES ASSUME KInit, NEW j \in Jobs
               PROVE  /\ IsFiniteSet(Unwritten(j))
                      /\ IsFiniteSet(Written(j))
                      /\ Cardinality(Unwritten(j)) + Cardinality(Written(j)) <= noted[j]
    BY DEF NotesAccounted
  <2>1. Unwritten(j) = {} /\ Written(j) = {} /\ noted[j] = 0
    BY DEF KInit, N!Init, Unwritten, Written
  <2> QED BY <2>1, FS_EmptySet
<1>2. NP!TypeOK => st \in [Letters -> N!States]
  BY DEF NP!TypeOK, NP!States, NP!Ended, N!States, N!Ended
<1>3. KSpec => []NP!TypeOK
  BY ImplementsNotify, NetAssumption, NP!NotifyTypeCorrect, PTL
<1> QED BY <1>1, <1>2, <1>3, NotesAccountedStep, MailTypeHolds, PTL DEF KSpec

(* The letters to job j that got through the filter.                       *)
HeardBy(j) == {i \in DOMAIN fresh : fresh[i].note.to = j}

(* start_jobs() was called for one of them and has not started the job yet *)
Pending(j) == /\ pc = "scan" /\ scan.trigger.kind = "notify"
              /\ scan.trigger.msg.to = j
              /\ running[j] = NoPid

(* No start without such a letter: a call of start_jobs() starts the job   *)
(* once at most.                                                           *)
StartsAccounted ==
  \A j \in Jobs : followed[j] + (IF Pending(j) THEN 1 ELSE 0) <= Cardinality(HeardBy(j))

LEMMA HeardByFinite ==
  ASSUME NP!TypeOK, NEW j
  PROVE  IsFiniteSet(HeardBy(j)) /\ Cardinality(HeardBy(j)) \in Nat
<1>1. Len(fresh) \in Nat /\ DOMAIN fresh = 1 .. Len(fresh)
  BY DEF NP!TypeOK
<1>2. IsFiniteSet(1 .. Len(fresh))
  BY <1>1, FS_Interval
<1>3. HeardBy(j) \in SUBSET (1 .. Len(fresh))
  BY <1>1 DEF HeardBy
<1> QED BY <1>2, <1>3, FS_Subset, FS_CardinalityType

(* A step that starts no job for a notification, and calls start_jobs()    *)
(* for none.                                                               *)
LEMMA SameStarts ==
  ASSUME StartsAccounted, UNCHANGED <<fresh, followed>>,
         \A j \in Jobs : Pending(j)' => Pending(j),
         MailType, NP!TypeOK
  PROVE  StartsAccounted'
<1> SUFFICES ASSUME NEW j \in Jobs
             PROVE  followed[j] + (IF Pending(j)' THEN 1 ELSE 0) <= Cardinality(HeardBy(j))
  BY DEF StartsAccounted, HeardBy
<1>1. followed[j] \in Nat /\ Cardinality(HeardBy(j)) \in Nat
  BY HeardByFinite DEF MailType
<1>2. followed[j] + (IF Pending(j) THEN 1 ELSE 0) <= Cardinality(HeardBy(j))
  BY DEF StartsAccounted
<1> QED BY <1>1, <1>2

LEMMA DatagramAccounted ==
  ASSUME StartsAccounted, MailType, NP!TypeOK, Datagram
  PROVE  StartsAccounted'
<1>1. PICK s \in Letters :
        /\ N!Receive(s)
        /\ IF fresh' = fresh THEN UNCHANGED schedVars
           ELSE StartJobs([kind |-> "notify",
                           msg |-> [to |-> s.note.to, type |-> s.note.type]])
  BY DEF Datagram
<1>2. pc = "udp" /\ UNCHANGED <<running, followed>>
  BY <1>1 DEF Datagram, history, schedVars, vars
<1>3. CASE fresh' = fresh
  BY <1>1, <1>2, <1>3, SameStarts DEF Pending, schedVars, vars
<1>4. CASE fresh' # fresh
  <2>1. fresh' = Append(fresh, TextOf(s)) /\ TextOf(s) \in AllTexts /\ fresh \in Seq(AllTexts)
    BY <1>1, <1>4 DEF N!Receive, N!Remember, N!filterVars, AllTexts, NP!TypeOK
  <2> DEFINE n == Len(fresh) + 1
  <2>2. /\ n \in Nat /\ n \notin DOMAIN fresh /\ DOMAIN fresh' = DOMAIN fresh \cup {n}
        /\ fresh'[n] = TextOf(s) /\ \A i \in DOMAIN fresh : fresh'[i] = fresh[i]
    <3>1. DOMAIN fresh = 1 .. Len(fresh) /\ Len(fresh) \in Nat
      BY <2>1
    <3>2. /\ Len(fresh') = n /\ fresh'[n] = TextOf(s) /\ DOMAIN fresh' = 1 .. n
          /\ \A i \in 1 .. Len(fresh) : fresh'[i] = fresh[i]
      BY <2>1, <3>1, AppendProperties
    <3> QED BY <3>1, <3>2
  <2> HIDE DEF n
  <2> SUFFICES ASSUME NEW j \in Jobs
               PROVE  followed[j] + (IF Pending(j)' THEN 1 ELSE 0)
                        <= Cardinality(HeardBy(j)')
    BY <1>2 DEF StartsAccounted
  <2>3. followed[j] \in Nat /\ followed[j] <= Cardinality(HeardBy(j))
    BY <1>2, HeardByFinite DEF MailType, StartsAccounted, Pending
  <2>4. IsFiniteSet(HeardBy(j)) /\ Cardinality(HeardBy(j)) \in Nat
    BY HeardByFinite
  <2>5. CASE s.note.to = j
    <3>1. HeardBy(j)' = HeardBy(j) \cup {n} /\ n \notin HeardBy(j)
      BY <2>2, <2>5 DEF HeardBy, TextOf
    <3>2. Cardinality(HeardBy(j)') = Cardinality(HeardBy(j)) + 1
      BY <2>4, <3>1, FS_AddElement
    <3> QED BY <2>3, <2>4, <3>2
  <2>6. CASE s.note.to # j
    <3>1. HeardBy(j)' = HeardBy(j)
      BY <2>2, <2>6 DEF HeardBy, TextOf
    <3>2. ~Pending(j)'
      BY <1>1, <1>2, <1>4, <2>6 DEF StartJobs, Suspended, After, Pending
    <3> QED BY <2>3, <3>1, <3>2
  <2> QED BY <2>5, <2>6
<1> QED BY <1>3, <1>4

LEMMA StartAccounted ==
  ASSUME StartsAccounted, MailType, NP!TypeOK, TypeOK,
         NEW p \in Pids, NEW S \in SUBSET Pids, StartOfJob(p, S)
  PROVE  StartsAccounted'
<1> DEFINE c == Current
<1>1. /\ c \in Jobs /\ pc = "scan" /\ pc' = "scan" /\ scan'.trigger = scan.trigger
      /\ running[c] = NoPid /\ running' = [running EXCEPT ![c] = p] /\ p # NoPid
      /\ UNCHANGED fresh
  BY ConstantsAssumption
  DEF StartOfJob, ExecJob, Scanning, Current, AlreadyRunning, net, TypeOK
<1>2. \A j \in Jobs : running'[j] = IF j = c THEN p ELSE running[j]
  BY <1>1 DEF TypeOK
<1>3. followed' = [followed EXCEPT ![c] =
                     IF scan.trigger.kind = "notify" THEN @ + 1 ELSE @]
  BY DEF StartOfJob
<1>4. CASE scan.trigger.kind = "notify"
  <2>1. scan.trigger.msg.to = c
    BY <1>4 DEF StartOfJob, ExecJob, Passes, TriggerMatches
  <2>2. Pending(c) /\ \A j \in Jobs : Pending(j)' <=> j # c /\ Pending(j)
    BY <1>1, <1>2, <1>4, <2>1 DEF Pending
  <2>3. \A j \in Jobs : followed'[j] = IF j = c THEN followed[j] + 1 ELSE followed[j]
    BY <1>3, <1>4 DEF MailType
  <2> SUFFICES ASSUME NEW j \in Jobs
               PROVE  followed'[j] + (IF Pending(j)' THEN 1 ELSE 0)
                        <= Cardinality(HeardBy(j))
    BY <1>1 DEF StartsAccounted, HeardBy
  <2>4. followed[j] \in Nat /\ Cardinality(HeardBy(j)) \in Nat
    BY HeardByFinite DEF MailType
  <2>5. followed[j] + (IF Pending(j) THEN 1 ELSE 0) <= Cardinality(HeardBy(j))
    BY DEF StartsAccounted
  <2> HIDE DEF c
  <2>6. CASE j = c
    BY <2>2, <2>3, <2>4, <2>5, <2>6
  <2>7. CASE j # c
    BY <2>2, <2>3, <2>4, <2>5, <2>7
  <2> QED BY <2>6, <2>7
<1>5. CASE scan.trigger.kind # "notify"
  <2>1. followed' = followed
    BY <1>3, <1>5 DEF MailType
  <2>2. \A j \in Jobs : Pending(j)' => Pending(j)
    BY <1>1, <1>5 DEF Pending
  <2> QED BY <1>1, <2>1, <2>2, SameStarts
<1> QED BY <1>4, <1>5

(* The other steps of the scheduler call start_jobs() for no notification. *)
LEMMA OtherNotPending ==
  ASSUME OtherStep, TypeOK, NEW j \in Jobs, Pending(j)'
  PROVE  Pending(j)
<1> USE DEF Pending
<1>1. ASSUME NEW t, t.kind # "notify", StartJobs(t) PROVE FALSE
  BY <1>1 DEF StartJobs, Suspended, After
<1>2. CASE WatchEvent \/ TimerScan
  BY <1>1, <1>2 DEF WatchEvent, TimerScan, TimeTrigger
<1>3. CASE ScanSkip \/ ScanRunning \/ ExecFails
  BY <1>3 DEF ScanSkip, ScanRunning, ExecFails, NextJob, TypeOK
<1>4. ASSUME NEW p \in Pids, ChildExec(p) \/ ChildExit(p) PROVE Pending(j)
  BY <1>4 DEF ChildExec, ChildExit, daemonVars
<1> QED
  BY <1>2, <1>3, <1>4
  DEF OtherStep, TakeChld, WaitPid, HandleDone, TakeHup, TakeTerm, TakeUsr2, WatchDone,
      UdpWouldBlock, TimerTick, EndScan, After, OperatorSignal, ClockTick, daemonVars

LEMMA StartsAccountedStep ==
  ASSUME StartsAccounted, MailType, NP!TypeOK, TypeOK, [KNext]_allVars
  PROVE  StartsAccounted'
<1>1. ASSUME NEW S \in SUBSET Pids, EndOfJob(S) PROVE StartsAccounted'
  BY <1>1, SameStarts DEF EndOfJob, HandleExit, Pending, net
<1>2. ASSUME NEW p \in Pids, NEW S \in SUBSET Pids, StartOfJob(p, S) PROVE StartsAccounted'
  BY <1>2, StartAccounted
<1>3. CASE Datagram
  BY <1>3, DatagramAccounted
<1>4. CASE OtherStep
  BY <1>4, OtherNotPending, SameStarts DEF OtherStep, net, history
<1>5. CASE SetClock
  BY <1>5, SameStarts DEF SetClock, ClockSet, daemonVars, net, Pending
<1>6. ASSUME NEW p \in Pids, Write(p) PROVE StartsAccounted'
  BY <1>6, SameStarts
  DEF Write, N!Fork, N!filterVars, Pending, schedVars, vars, history
<1>7. ASSUME NEW p \in Pids, SenderStep(p) PROVE StartsAccounted'
  BY <1>7, SameStarts
  DEF SenderStep, N!Child, N!Send, N!SendFails, N!RecvOk, N!Timeout, N!filterVars,
      Pending, schedVars, vars, history
<1>8. ASSUME NEW p \in Pids, SenderExit(p) PROVE StartsAccounted'
  BY <1>8, SameStarts DEF SenderExit, ChildExit, daemonVars, Pending, net, history
<1>9. CASE UNCHANGED allVars
  BY <1>9, SameStarts DEF allVars, Pending, schedVars, vars, net, history
<1> QED BY <1>1, <1>2, <1>3, <1>4, <1>5, <1>6, <1>7, <1>8, <1>9 DEF KNext

LEMMA StartsAccountedHold == KSpec => []StartsAccounted
<1>1. KInit => StartsAccounted
  BY FS_EmptySet DEF KInit, Init, N!Init, StartsAccounted, Pending, HeardBy
<1>2. KSpec => []NP!TypeOK
  BY ImplementsNotify, NetAssumption, NP!NotifyTypeCorrect, PTL
<1>3. KSpec => []TypeOK
  BY ImplementsScheduler, TypeCorrect, PTL
<1> QED BY <1>1, <1>2, <1>3, StartsAccountedStep, MailTypeHolds, PTL DEF KSpec

(* While the filter has forgotten nothing, each letter gets through once.  *)
LEMMA HeardAtMostWritten ==
  ASSUME NP!FilterInv, NP!Accounts, NP!IdleUntried, NotesAccounted,
         Len(fresh) <= Capacity, NEW j \in Jobs
  PROVE  Cardinality(HeardBy(j)) <= Cardinality(Written(j))
<1>1. NP!NoClashes
  BY DEF NP!NoClashes
<1>2. \A i, k \in DOMAIN fresh : fresh[i] = fresh[k] => i = k
  BY <1>1, NetAssumption, NP!HeardOnce
<1>3. ASSUME NEW i \in HeardBy(j) PROVE \E s \in Written(j) : TextOf(s) = fresh[i]
  <2>1. PICK s \in Letters : NP!Sent(s) /\ TextOf(s) = fresh[i]
    BY <1>3 DEF NP!Accounts, HeardBy
  <2>2. st[s] # "idle"
    BY <2>1 DEF NP!Sent, NP!IdleUntried
  <2> QED BY <1>3, <2>1, <2>2 DEF HeardBy, Written, TextOf
<1> DEFINE g == [i \in HeardBy(j) |-> CHOOSE s \in Written(j) : TextOf(s) = fresh[i]]
<1>4. \A i \in HeardBy(j) : g[i] \in Written(j) /\ TextOf(g[i]) = fresh[i]
  BY <1>3
<1>5. g \in [HeardBy(j) -> Written(j)]
  BY <1>4
<1>6. \A i, k \in HeardBy(j) : g[i] = g[k] => i = k
  <2> HIDE DEF g
  <2> QED BY <1>2, <1>4 DEF HeardBy
<1>7. g \in Injection(HeardBy(j), Written(j))
  <2> HIDE DEF g
  <2> QED BY <1>5, <1>6 DEF Injection, IsInjective
<1> QED BY <1>7, FS_Injection DEF NotesAccounted

(* Until the filter has let more texts through than it can keep, no job    *)
(* that follows others starts more often than it was notified of an event, *)
(* however often senders retry and whatever the network repeats.           *)
THEOREM FollowersRunOnce == KSpec => [](Len(fresh) <= Capacity => OneRunPerEvent)
<1>1. ASSUME NP!FilterInv, NP!Accounts, NP!IdleUntried, MailType, NotesAccounted,
             StartsAccounted
      PROVE  Len(fresh) <= Capacity => OneRunPerEvent
  <2> SUFFICES ASSUME Len(fresh) <= Capacity, NEW j \in Jobs PROVE followed[j] <= noted[j]
    BY DEF OneRunPerEvent
  <2>1. Cardinality(HeardBy(j)) <= Cardinality(Written(j))
    BY <1>1, HeardAtMostWritten
  <2>2. followed[j] <= Cardinality(HeardBy(j))
    <3>1. followed[j] \in Nat /\ Cardinality(HeardBy(j)) \in Nat
      BY <1>1, HeardByFinite DEF MailType, NP!FilterInv
    <3> QED BY <1>1, <3>1 DEF StartsAccounted
  <2>3. Cardinality(Written(j)) <= noted[j]
    <3>1. Cardinality(Unwritten(j)) \in Nat /\ Cardinality(Written(j)) \in Nat
      BY <1>1, FS_CardinalityType DEF NotesAccounted
    <3> QED BY <1>1, <3>1 DEF NotesAccounted, MailType
  <2>4. /\ followed[j] \in Nat /\ noted[j] \in Nat
        /\ Cardinality(HeardBy(j)) \in Nat /\ Cardinality(Written(j)) \in Nat
    BY <1>1, HeardByFinite, FS_CardinalityType
    DEF MailType, NP!FilterInv, NotesAccounted
  <2> QED BY <2>1, <2>2, <2>3, <2>4
<1>2. KSpec => []NP!FilterInv
  BY ImplementsNotify, NetAssumption, NP!Filter, PTL
<1>3. KSpec => []NP!Accounts
  BY ImplementsNotify, NetAssumption, NP!AccountsHold, PTL
<1>4. KSpec => []NP!IdleUntried
  BY ImplementsNotify, NetAssumption, NP!IdleUntriedHolds, PTL
<1> QED
  BY <1>1, <1>2, <1>3, <1>4, MailTypeHolds, NotesAccountedHold, StartsAccountedHold, PTL

NothingForgotten == Len(fresh) <= Capacity

(* Where the notes and seconds at hand make no more texts than the filter  *)
(* keeps, no job that follows others ever starts more often than it was    *)
(* notified of an event.                                                   *)
THEOREM FollowersNeverRunTwice ==
  ASSUME IsFiniteSet(AllTexts), Cardinality(AllTexts) <= Capacity
  PROVE  KSpec => []OneRunPerEvent
<1>1. NP!NoClashes
  BY DEF NP!NoClashes
<1>2. KInit => NothingForgotten
  BY KubjasAssumption DEF KInit, N!Init, NothingForgotten
<1>3. /\ NP!FilterInv /\ NP!FilterInv' /\ MailType
      /\ NothingForgotten /\ [KNext]_allVars
      => NothingForgotten'
  <2> SUFFICES ASSUME NP!FilterInv, NP!FilterInv', Len(fresh) <= Capacity,
                      [NP!Next]_NP!vars
               PROVE  Len(fresh') <= Capacity
    BY NotifyStep DEF NothingForgotten
  <2> DEFINE n == Len(fresh')
  <2>1. \A i, k \in DOMAIN fresh' : fresh'[i] = fresh'[k] => i = k
    BY <1>1, NetAssumption, NP!NextHeardOnce
  <2>2. n \in Nat /\ DOMAIN fresh' = 1 .. n /\ fresh' \in [1 .. n -> AllTexts]
    BY DEF NP!FilterInv, NP!TypeOK
  <2> HIDE DEF n
  <2>3. fresh' \in Injection(1 .. n, AllTexts)
    BY <2>1, <2>2 DEF Injection, IsInjective
  <2>4. Cardinality(1 .. n) = n /\ Cardinality(1 .. n) <= Cardinality(AllTexts)
    BY <2>2, <2>3, FS_Interval, FS_Injection
  <2>5. Cardinality(AllTexts) \in Nat /\ Capacity \in Nat
    BY KubjasAssumption, FS_CardinalityType
  <2> QED BY <2>2, <2>4, <2>5 DEF n
<1>4. KSpec => []NP!FilterInv
  BY ImplementsNotify, NetAssumption, NP!Filter, PTL
<1>5. NothingForgotten => (Len(fresh) <= Capacity)
  BY DEF NothingForgotten
<1> QED BY <1>2, <1>3, <1>4, <1>5, MailTypeHolds, FollowersRunOnce, PTL DEF KSpec
=============================================================================
