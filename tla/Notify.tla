------------------------------- MODULE Notify -------------------------------
(***************************************************************************)
(* Notifications over UDP (src/notify.rs): the forked senders, each with   *)
(* its retries, a network that loses, repeats and reorders datagrams, and  *)
(* the receiving daemon's duplicate filter. What the daemon does with a    *)
(* notification it accepts is in Scheduler.tla.                            *)
(***************************************************************************)
EXTENDS Naturals, Sequences, FiniteSets

CONSTANTS
  Senders,       \* forked children of send_notify(), on any host
  Texts,         \* texts of datagrams: host, job, job, type and second
  Text,          \* Text[s]: what sender s sends; equal for two senders of
                 \* the same notification in the same second
  Valid,         \* the texts recv_notify() can parse
  NoText,        \* an absent entry of the filter
  Fingerprints,  \* CRC32 values
  Crc,           \* Crc[t]: the CRC32 of text t
  Capacity,      \* fingerprints the filter keeps, 20 in the code
  Attempts,      \* receive timeouts of a sender, 3 in the code
  MaxDups        \* bound on the datagrams the network repeats

ASSUME NotifyAssumption ==
  /\ Text \in [Senders -> Texts]
  /\ Valid \subseteq Texts
  /\ NoText \notin Texts
  /\ Crc \in [Texts -> Fingerprints]
  /\ Capacity \in Nat \ {0}
  /\ Attempts \in Nat \ {0}
  /\ MaxDups \in Nat

VARIABLES
  st,        \* sender -> where it is in send_notify_child()
  attempts,  \* sender -> timeouts so far
  copies,    \* sender -> copies of its datagram in flight
  oks,       \* sender -> replies to it in flight
  known,     \* fingerprint -> text
  lifo,      \* fingerprints, oldest first
  fresh,     \* history: texts the filter let through
  dups,      \* history: datagrams the network has repeated
  lost       \* history: a datagram was lost

vars == <<st, attempts, copies, oks, known, lifo, fresh, dups, lost>>
senderVars == <<st, attempts>>
filterVars == <<known, lifo, fresh>>

Ended == {"acked", "failed", "silent"}
States == {"idle", "sending", "waiting"} \cup Ended

Init ==
  /\ st = [s \in Senders |-> "idle"]
  /\ attempts = [s \in Senders |-> 0]
  /\ copies = [s \in Senders |-> 0]
  /\ oks = [s \in Senders |-> 0]
  /\ known = [f \in Fingerprints |-> NoText]
  /\ lifo = <<>>
  /\ fresh = <<>>
  /\ dups = 0
  /\ lost = FALSE

-----------------------------------------------------------------------------
(* send_notify_child()                                                     *)

Fork(s) ==
  /\ st[s] = "idle"
  /\ st' = [st EXCEPT ![s] = "sending"]
  /\ UNCHANGED <<attempts, copies, oks, filterVars, dups, lost>>

Send(s) ==
  /\ st[s] = "sending"
  /\ st' = [st EXCEPT ![s] = "waiting"]
  /\ copies' = [copies EXCEPT ![s] = @ + 1]
  /\ UNCHANGED <<attempts, oks, filterVars, dups, lost>>

(* No valid target, no socket, no route, or an error of send().            *)
SendFails(s) ==
  /\ st[s] = "sending"
  /\ st' = [st EXCEPT ![s] = "failed"]
  /\ UNCHANGED <<attempts, copies, oks, filterVars, dups, lost>>

RecvOk(s) ==
  /\ st[s] = "waiting"
  /\ oks[s] > 0
  /\ oks' = [oks EXCEPT ![s] = @ - 1]
  /\ st' = [st EXCEPT ![s] = "acked"]
  /\ UNCHANGED <<attempts, copies, filterVars, dups, lost>>

(* One second without an answer, which may still be on its way. Faulty     *)
(* variant: tries for ever.                                                *)
TimeoutForever(s) ==
  /\ st[s] = "waiting"
  /\ attempts' = [attempts EXCEPT ![s] = IF @ < Attempts THEN @ + 1 ELSE @]
  /\ st' = [st EXCEPT ![s] = "sending"]
  /\ UNCHANGED <<copies, oks, filterVars, dups, lost>>
Timeout(s) ==
  /\ st[s] = "waiting"
  /\ attempts' = [attempts EXCEPT ![s] = @ + 1]
  /\ st' = [st EXCEPT ![s] = IF attempts'[s] >= Attempts THEN "silent"
                                                        ELSE "sending"]
  /\ UNCHANGED <<copies, oks, filterVars, dups, lost>>

-----------------------------------------------------------------------------
(* recv_notify() and DuplicateFilter::is_duplicate()                       *)

(* Faulty variant: the filter is never asked.                              *)
NeverDuplicate(t) == FALSE
IsDuplicate(t) == known[Crc[t]] = t

(* Faulty variants: one fingerprint too many; the newest goes first, as    *)
(* the name of the queue would have it.                                    *)
OverfullByOne(l) == Len(l) > Capacity + 1
Overfull(l) == Len(l) > Capacity

NewestForgotten(k, l) == [k EXCEPT ![l[Len(l)]] = NoText]
OldestForgotten(k, l) == [k EXCEPT ![Head(l)] = NoText]

Remember(t) ==
  LET k == [known EXCEPT ![Crc[t]] = t]
      l == Append(lifo, Crc[t])
  IN /\ known' = IF Overfull(l) THEN OldestForgotten(k, l) ELSE k
     /\ lifo' = IF Overfull(l) THEN Tail(l) ELSE l
     /\ fresh' = Append(fresh, t)

(* The daemon answers what it accepts. Faulty variant: whatever it reads.  *)
AnswersAll(t) == TRUE
Answers(t) == t \in Valid

(* A datagram of sender s is read: a duplicate is dropped without an       *)
(* answer, an unparsable text is remembered and dropped, any other one is  *)
(* answered and triggers jobs.                                             *)
Receive(s) ==
  LET t == Text[s] IN
  /\ copies[s] > 0
  /\ copies' = [copies EXCEPT ![s] = @ - 1]
  /\ IF IsDuplicate(t) THEN UNCHANGED <<oks, filterVars>>
     ELSE /\ Remember(t)
          /\ oks' = IF Answers(t) THEN [oks EXCEPT ![s] = @ + 1] ELSE oks
  /\ UNCHANGED <<senderVars, dups, lost>>

-----------------------------------------------------------------------------
(* The network.                                                            *)

LoseDatagram(s) ==
  /\ copies[s] > 0
  /\ copies' = [copies EXCEPT ![s] = @ - 1]
  /\ lost' = TRUE
  /\ UNCHANGED <<senderVars, oks, filterVars, dups>>

RepeatDatagram(s) ==
  /\ copies[s] > 0
  /\ dups < MaxDups
  /\ copies' = [copies EXCEPT ![s] = @ + 1]
  /\ dups' = dups + 1
  /\ UNCHANGED <<senderVars, oks, filterVars, lost>>

LoseOk(s) ==
  /\ oks[s] > 0
  /\ oks' = [oks EXCEPT ![s] = @ - 1]
  /\ UNCHANGED <<senderVars, copies, filterVars, dups, lost>>

Child(s) == Send(s) \/ SendFails(s) \/ RecvOk(s) \/ Timeout(s)

Next == \E s \in Senders : \/ Fork(s) \/ Child(s) \/ Receive(s)
                           \/ LoseDatagram(s) \/ RepeatDatagram(s) \/ LoseOk(s)

Spec == Init /\ [][Next]_vars

(* A sender's receive times out after a second, so it always goes on.      *)
FairSpec == Spec /\ \A s \in Senders : WF_vars(Child(s))

-----------------------------------------------------------------------------
(* Properties.                                                             *)

TypeOK ==
  /\ st \in [Senders -> States]
  /\ attempts \in [Senders -> 0 .. Attempts]
  /\ copies \in [Senders -> Nat]
  /\ oks \in [Senders -> Nat]
  /\ known \in [Fingerprints -> Texts \cup {NoText}]
  /\ lifo \in Seq(Fingerprints) /\ Len(lifo) <= Capacity
  /\ fresh \in Seq(Texts)
  /\ dups \in 0 .. MaxDups
  /\ lost \in BOOLEAN

(* A text gets through the filter again only after Capacity other ones     *)
(* have, whatever the network repeats, delays and reorders (the filter     *)
(* "keeps last 20 fingerprints").                                          *)
NoRepeatWithinWindow ==
  [][\A i \in DOMAIN fresh :
       fresh' # fresh /\ i > Len(fresh) - Capacity
         => fresh[i] # fresh'[Len(fresh')]]_vars

Times(t) == Cardinality({i \in DOMAIN fresh : fresh[i] = t})
Sent(s) == st[s] \in {"waiting", "acked", "silent"} \/ attempts[s] > 0

(* Each notification sent over a network that loses nothing triggers its   *)
(* jobs exactly once, whether the sender retries after an early timeout or *)
(* not, as long as no fingerprint had to be forgotten (README: Kubjas      *)
(* notifies other jobs when the current one ends).                         *)
OnceUnlessLost ==
  ~lost /\ Len(fresh) <= Capacity =>
    \A t \in Valid : (\A s \in Senders : Text[s] = t => copies[s] = 0) =>
      Times(t) = Cardinality({s \in Senders : Text[s] = t /\ Sent(s)})

(* The protocol hears each text once within the filter's window, and tells *)
(* a sender that it was heard only when it was, and triggered jobs.        *)
Told == {s \in Senders : st[s] = "acked"}
Abstract == INSTANCE Delivery WITH heard <- fresh, told <- Told, Window <- Capacity
ImplementsDelivery == Abstract!Spec

(* A sender process ends, answered or not; they do not pile up.            *)
SendersEnd == \A s \in Senders : st[s] # "idle" ~> st[s] \in Ended
=============================================================================
