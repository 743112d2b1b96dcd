----------------------------- MODULE NotifyProofs -----------------------------
(***************************************************************************)
(* Proofs about the notifications of Notify.tla, for any senders, texts,   *)
(* fingerprints and size of the filter.                                    *)
(***************************************************************************)
EXTENDS Notify, SequenceTheorems, FiniteSetTheorems, TLAPS

-----------------------------------------------------------------------------
(* TypeOK: the filter stays within its capacity, a sender within its       *)
(* attempts, whatever is lost, repeated and delayed.                       *)

(* What the filter keeps of a text it lets through.                        *)
LEMMA RememberType ==
  ASSUME TypeOK, NEW t \in Texts, Remember(t)
  PROVE  /\ known' \in [Fingerprints -> Texts \cup {NoText}]
         /\ lifo' \in Seq(Fingerprints) /\ Len(lifo') <= Capacity
         /\ fresh' \in Seq(Texts)
<1> DEFINE k == [known EXCEPT ![Crc[t]] = t]
           l == Append(lifo, Crc[t])
<1>1. Crc[t] \in Fingerprints /\ Capacity \in Nat \ {0}
  BY NotifyAssumption
<1>2. lifo \in Seq(Fingerprints) /\ Len(lifo) <= Capacity
  BY DEF TypeOK
<1>7. l \in Seq(Fingerprints) /\ Len(l) = Len(lifo) + 1 /\ l # <<>>
  BY <1>1, <1>2, AppendProperties
<1>3. k \in [Fingerprints -> Texts \cup {NoText}]
  BY <1>1 DEF TypeOK
<1>4. fresh' \in Seq(Texts)
  BY AppendProperties DEF Remember, TypeOK
<1>5. CASE Overfull(l)
  <2>1. lifo' = Tail(l) /\ known' = OldestForgotten(k, l)
    BY <1>5 DEF Remember
  <2> HIDE DEF k, l
  <2>2. lifo' \in Seq(Fingerprints) /\ Len(lifo') = Len(l) - 1
    BY <1>7, <2>1, HeadTailProperties
  <2>3. known' \in [Fingerprints -> Texts \cup {NoText}]
    BY <1>3, <2>1 DEF OldestForgotten
  <2>4. Len(lifo') = Len(lifo) /\ Len(lifo) <= Capacity
    BY <1>2, <1>7, <2>2
  <2> QED BY <1>4, <2>2, <2>3, <2>4
<1>6. CASE ~Overfull(l)
  <2>1. lifo' = l /\ known' = k
    BY <1>6 DEF Remember
  <2>2. Len(l) <= Capacity
    BY <1>1, <1>7, <1>6, LenProperties DEF Overfull
  <2> QED BY <1>7, <1>3, <1>4, <2>1, <2>2
<1> QED BY <1>5, <1>6

LEMMA TypeInit == Init => TypeOK
<1> SUFFICES ASSUME Init PROVE TypeOK
  OBVIOUS
<1>1. lifo \in Seq(Fingerprints) /\ Len(lifo) = 0 /\ fresh \in Seq(Texts)
  BY DEF Init
<1>2. Capacity \in Nat /\ Attempts \in Nat /\ MaxDups \in Nat
  BY NotifyAssumption
<1>3. attempts \in [Senders -> 0 .. Attempts] /\ dups \in 0 .. MaxDups
  BY <1>2 DEF Init
<1>4. st \in [Senders -> States] /\ known \in [Fingerprints -> Texts \cup {NoText}]
  BY DEF Init, States
<1>5. copies \in [Senders -> Nat] /\ oks \in [Senders -> Nat] /\ lost \in BOOLEAN
  BY DEF Init
<1> QED BY <1>1, <1>2, <1>3, <1>4, <1>5 DEF TypeOK

(* One entry of a sender's counters or of its state changes.               *)
LEMMA CountersType ==
  ASSUME NEW f \in [Senders -> Nat], NEW s \in Senders
  PROVE  /\ [f EXCEPT ![s] = @ + 1] \in [Senders -> Nat]
         /\ f[s] > 0 => [f EXCEPT ![s] = @ - 1] \in [Senders -> Nat]
<1>1. f[s] \in Nat /\ f[s] + 1 \in Nat /\ (f[s] > 0 => f[s] - 1 \in Nat)
  OBVIOUS
<1>2. ASSUME NEW n \in Nat PROVE [f EXCEPT ![s] = n] \in [Senders -> Nat]
  OBVIOUS
<1> QED BY <1>1, <1>2

LEMMA StatesType ==
  ASSUME NEW f \in [Senders -> States], NEW s \in Senders, NEW x \in States
  PROVE  [f EXCEPT ![s] = x] \in [Senders -> States]
OBVIOUS

(* A sender that has not ended has an attempt left: without this the next  *)
(* timeout could count beyond its bound.                                   *)
AttemptLeft == \A s \in Senders : st[s] \notin Ended => attempts[s] < Attempts

LEMMA AttemptLeftStep ==
  ASSUME TypeOK, AttemptLeft, [Next]_vars
  PROVE  AttemptLeft'
<1> SUFFICES ASSUME NEW r \in Senders, st'[r] \notin Ended PROVE attempts'[r] < Attempts
  BY DEF AttemptLeft
<1>0. st \in [Senders -> States] /\ attempts \in [Senders -> 0 .. Attempts]
  BY DEF TypeOK
<1>1. CASE UNCHANGED senderVars
  BY <1>1 DEF senderVars, AttemptLeft
<1>2. ASSUME NEW s \in Senders, Fork(s) \/ Send(s) PROVE attempts'[r] < Attempts
  BY <1>0, <1>2 DEF Fork, Send, Ended, AttemptLeft
<1>3. ASSUME NEW s \in Senders, SendFails(s) \/ RecvOk(s) PROVE attempts'[r] < Attempts
  BY <1>0, <1>3 DEF SendFails, RecvOk, Ended, AttemptLeft
<1>4. ASSUME NEW s \in Senders, Timeout(s) PROVE attempts'[r] < Attempts
  <2>1. CASE r = s
    <3>1. attempts[s] \in Nat /\ Attempts \in Nat /\ attempts'[s] = attempts[s] + 1
      BY <1>0, <1>4, NotifyAssumption DEF Timeout
    <3>2. st'[s] = IF attempts'[s] >= Attempts THEN "silent" ELSE "sending"
      BY <1>0, <1>4 DEF Timeout
    <3> QED BY <2>1, <3>1, <3>2 DEF Ended
  <2>2. CASE r # s
    BY <1>0, <1>4, <2>2 DEF Timeout, AttemptLeft
  <2> QED BY <2>1, <2>2
<1> QED
  BY <1>1, <1>2, <1>3, <1>4
  DEF Next, Child, vars, senderVars, Receive, LoseDatagram, RepeatDatagram, LoseOk

LEMMA TypeStep == TypeOK /\ AttemptLeft /\ [Next]_vars => TypeOK'
<1> SUFFICES ASSUME TypeOK, AttemptLeft, [Next]_vars PROVE TypeOK'
  OBVIOUS
<1>0. {"sending", "waiting", "failed", "acked", "silent"} \subseteq States
  BY DEF States, Ended
<1>1. CASE UNCHANGED vars
  BY <1>1 DEF vars, TypeOK
<1>2. ASSUME NEW s \in Senders, Fork(s) \/ SendFails(s) PROVE TypeOK'
  BY <1>0, <1>2, StatesType DEF Fork, SendFails, filterVars, TypeOK
<1>3. ASSUME NEW s \in Senders, Send(s) PROVE TypeOK'
  BY <1>0, <1>3, StatesType, CountersType DEF Send, filterVars, TypeOK
<1>4. ASSUME NEW s \in Senders, RecvOk(s) PROVE TypeOK'
  BY <1>0, <1>4, StatesType, CountersType DEF RecvOk, filterVars, TypeOK
<1>5. ASSUME NEW s \in Senders, Timeout(s) PROVE TypeOK'
  <2>1. attempts[s] + 1 \in 0 .. Attempts
    <3>1. attempts[s] \in 0 .. Attempts /\ Attempts \in Nat
      BY NotifyAssumption DEF TypeOK
    <3>2. attempts[s] < Attempts
      BY <1>5 DEF Timeout, AttemptLeft, Ended
    <3> QED BY <3>1, <3>2
  <2>2. attempts' \in [Senders -> 0 .. Attempts]
    BY <1>5, <2>1 DEF Timeout, TypeOK
  <2>3. st' \in [Senders -> States]
    BY <1>0, <1>5, StatesType DEF Timeout, TypeOK
  <2> QED BY <1>5, <2>2, <2>3 DEF Timeout, filterVars, TypeOK
<1>6. ASSUME NEW s \in Senders, Receive(s) PROVE TypeOK'
  <2>1. Text[s] \in Texts
    BY NotifyAssumption
  <2>2. /\ known' \in [Fingerprints -> Texts \cup {NoText}]
        /\ lifo' \in Seq(Fingerprints) /\ Len(lifo') <= Capacity
        /\ fresh' \in Seq(Texts)
    <3>1. CASE IsDuplicate(Text[s])
      BY <1>6, <3>1 DEF Receive, filterVars, TypeOK
    <3>2. CASE ~IsDuplicate(Text[s])
      BY <1>6, <3>2, <2>1, RememberType DEF Receive
    <3> QED BY <3>1, <3>2
  <2>3. copies' \in [Senders -> Nat]
    BY <1>6, CountersType DEF Receive, TypeOK
  <2>4. oks' \in [Senders -> Nat]
    <3>1. oks' = oks \/ oks' = [oks EXCEPT ![s] = @ + 1]
      BY <1>6 DEF Receive
    <3>2. oks \in [Senders -> Nat]
      BY DEF TypeOK
    <3> QED BY <3>1, <3>2, CountersType
  <2> QED BY <1>6, <2>2, <2>3, <2>4 DEF Receive, senderVars, TypeOK
<1>7. ASSUME NEW s \in Senders, LoseDatagram(s) PROVE TypeOK'
  BY <1>7, CountersType DEF LoseDatagram, senderVars, filterVars, TypeOK
<1>8. ASSUME NEW s \in Senders, RepeatDatagram(s) PROVE TypeOK'
  BY <1>8, CountersType, NotifyAssumption
  DEF RepeatDatagram, senderVars, filterVars, TypeOK
<1>9. ASSUME NEW s \in Senders, LoseOk(s) PROVE TypeOK'
  BY <1>9, CountersType DEF LoseOk, senderVars, filterVars, TypeOK
<1> QED BY <1>1, <1>2, <1>3, <1>4, <1>5, <1>6, <1>7, <1>8, <1>9 DEF Next, Child

LEMMA TypesAndAttempts == Spec => [](TypeOK /\ AttemptLeft)
<1>1. Init => AttemptLeft
  BY NotifyAssumption DEF Init, AttemptLeft
<1> QED BY <1>1, TypeInit, TypeStep, AttemptLeftStep, PTL DEF Spec

(* The filter never holds more fingerprints than its capacity, and no      *)
(* sender tries more often than it may.                                    *)
THEOREM NotifyTypeCorrect == Spec => []TypeOK
BY TypesAndAttempts, PTL

-----------------------------------------------------------------------------
(* The window of the filter.                                               *)

(* One of the texts heard has the fingerprint of t without being t.        *)
Clashes(heard, t) == \E i \in DOMAIN heard : heard[i] # t /\ Crc[heard[i]] = Crc[t]

(* The queue holds the fingerprints of the last texts let through, oldest  *)
(* first; each of these texts is known and is there once, unless another   *)
(* text has the same fingerprint.                                          *)
First == Len(fresh) - Len(lifo)
WindowKept ==
  /\ Len(lifo) <= Len(fresh)
  /\ Len(lifo) = Len(fresh) \/ Len(lifo) = Capacity
  /\ \A k \in 1 .. Len(lifo) : lifo[k] = Crc[fresh[First + k]]
  /\ \A i \in DOMAIN fresh : i > First /\ ~Clashes(fresh, fresh[i]) =>
       /\ known[Crc[fresh[i]]] = fresh[i]
       /\ \A k \in DOMAIN fresh : k > First /\ fresh[k] = fresh[i] => k = i

(* Which texts are in the window after a text was let through.             *)
LEMMA RememberWindow ==
  ASSUME TypeOK, WindowKept, NEW t \in Texts, ~IsDuplicate(t), Remember(t)
  PROVE  WindowKept'
<1> DEFINE n == Len(fresh)
           m == Len(lifo)
           k == [known EXCEPT ![Crc[t]] = t]
           l == Append(lifo, Crc[t])
<1>1. /\ n \in Nat /\ m \in Nat /\ m <= Capacity /\ m <= n /\ (m = n \/ m = Capacity)
      /\ Capacity \in Nat \ {0} /\ Crc[t] \in Fingerprints
      /\ fresh \in Seq(Texts) /\ lifo \in Seq(Fingerprints)
  BY NotifyAssumption DEF TypeOK, WindowKept
<1>2. /\ DOMAIN fresh = 1 .. n /\ DOMAIN fresh' = 1 .. n + 1 /\ Len(fresh') = n + 1
      /\ fresh'[n + 1] = t /\ \A i \in 1 .. n : fresh'[i] = fresh[i]
  BY <1>1, AppendProperties DEF Remember
<1>3. /\ l \in Seq(Fingerprints) /\ Len(l) = m + 1 /\ l[m + 1] = Crc[t] /\ l # <<>>
      /\ \A i \in 1 .. m : l[i] = lifo[i]
  BY <1>1, AppendProperties
<1>4. /\ \A i \in 1 .. n : fresh[i] \in Texts /\ Crc[fresh[i]] \in Fingerprints
      /\ known \in [Fingerprints -> Texts \cup {NoText}]
  BY <1>1, NotifyAssumption, ElementOfSeq DEF TypeOK
<1>5. \A i \in 1 .. m : lifo[i] = Crc[fresh[n - m + i]]
  BY DEF WindowKept, First
<1>6. ASSUME NEW i \in 1 .. n, i > n - m, ~Clashes(fresh, fresh[i])
      PROVE  /\ known[Crc[fresh[i]]] = fresh[i]
             /\ \A j \in 1 .. n : j > n - m /\ fresh[j] = fresh[i] => j = i
  BY <1>2, <1>6 DEF WindowKept, First
<1>7. \A i \in 1 .. m + 1 : l[i] = Crc[fresh'[n - m + i]]
  <2> SUFFICES ASSUME NEW i \in 1 .. m + 1 PROVE l[i] = Crc[fresh'[n - m + i]]
    OBVIOUS
  <2> HIDE DEF n, m, l
  <2>1. CASE i = m + 1
    <3>1. n - m + i = n + 1
      BY <1>1, <2>1
    <3> QED BY <1>2, <1>3, <2>1, <3>1
  <2>2. CASE i # m + 1
    <3>1. i \in 1 .. m /\ n - m + i \in 1 .. n
      BY <1>1, <2>2
    <3> QED BY <1>2, <1>3, <1>5, <3>1
  <2> QED BY <2>1, <2>2
(* A text whose fingerprint no other text had is not in the window yet, or *)
(* it would have been a duplicate.                                         *)
<1>8. ASSUME NEW i \in 1 .. n, i > n - m, ~Clashes(fresh, fresh[i])
      PROVE  fresh[i] # t
  BY <1>6, <1>8 DEF IsDuplicate
<1>9. ASSUME NEW i \in 1 .. n, i > n - m, ~Clashes(fresh', fresh[i])
      PROVE  /\ ~Clashes(fresh, fresh[i]) /\ Crc[fresh[i]] # Crc[t]
             /\ k[Crc[fresh[i]]] = fresh[i]
  <2>1. ~Clashes(fresh, fresh[i])
    BY <1>1, <1>2, <1>9 DEF Clashes
  <2>2. fresh[i] # t
    BY <1>8, <1>9, <2>1
  <2>3. Crc[fresh[i]] # Crc[t]
    BY <1>1, <1>2, <1>9, <2>2 DEF Clashes
  <2>4. known[Crc[fresh[i]]] = fresh[i]
    BY <1>6, <1>9, <2>1
  <2> QED BY <1>4, <2>1, <2>3, <2>4
<1>10. ASSUME ~Clashes(fresh', t), NEW i \in 1 .. n, i > n - m PROVE Crc[fresh[i]] # Crc[t]
  <2>1. CASE fresh[i] = t
    <3>1. ~Clashes(fresh, fresh[i])
      BY <1>1, <1>2, <1>10, <2>1 DEF Clashes
    <3> QED BY <1>8, <1>10, <2>1, <3>1
  <2>2. CASE fresh[i] # t
    BY <1>1, <1>2, <1>10, <2>2 DEF Clashes
  <2> QED BY <2>1, <2>2
(* Either nothing is forgotten, or the oldest text of a full window is.    *)
<1>11. /\ Len(lifo') \in {m, m + 1} /\ Len(lifo') <= n + 1
       /\ Len(lifo') = n + 1 \/ Len(lifo') = Capacity
       /\ \A i \in 1 .. Len(lifo') : lifo'[i] = Crc[fresh'[n + 1 - Len(lifo') + i]]
       /\ \A f \in Fingerprints :
            known'[f] = IF Len(lifo') = m /\ f = Crc[fresh[n - m + 1]] THEN NoText
                        ELSE IF f = Crc[t] THEN t ELSE known[f]
       /\ Len(lifo') = m => m > 0
  <2>1. CASE ~Overfull(l)
    <3>1. lifo' = l /\ known' = k /\ m < Capacity
      BY <1>1, <1>3, <2>1 DEF Remember, Overfull
    <3>2. \A f \in Fingerprints : known'[f] = IF f = Crc[t] THEN t ELSE known[f]
      BY <1>1, <1>4, <3>1
    <3> HIDE DEF k, l, n, m
    <3>3. Len(lifo') = m + 1 /\ m = n /\ n + 1 - Len(lifo') = n - m
      BY <1>1, <1>3, <3>1
    <3>4. \A i \in 1 .. Len(lifo') : lifo'[i] = Crc[fresh'[n + 1 - Len(lifo') + i]]
      BY <1>7, <3>1, <3>3
    <3> QED BY <1>1, <3>2, <3>3, <3>4
  <2>2. CASE Overfull(l)
    <3>1. lifo' = Tail(l) /\ known' = OldestForgotten(k, l) /\ m = Capacity /\ m > 0
      BY <1>1, <1>3, <2>2 DEF Remember, Overfull
    <3>2. Head(l) = Crc[fresh[n - m + 1]]
      BY <1>1, <1>3, <1>5, <3>1
    <3>3. \A f \in Fingerprints :
            known'[f] = IF f = Crc[fresh[n - m + 1]] THEN NoText
                        ELSE IF f = Crc[t] THEN t ELSE known[f]
      BY <1>1, <1>4, <3>1, <3>2 DEF OldestForgotten
    <3> HIDE DEF k, l, n, m
    <3>4. Len(lifo') = m /\ \A i \in 1 .. m : lifo'[i] = l[i + 1]
      BY <1>1, <1>3, <3>1, HeadTailProperties
    <3>5. ASSUME NEW i \in 1 .. m PROVE lifo'[i] = Crc[fresh'[n + 1 - m + i]]
      <4>1. i + 1 \in 1 .. m + 1 /\ n - m + (i + 1) = n + 1 - m + i
        BY <1>1
      <4> QED BY <1>7, <3>4, <4>1
    <3>6. \A i \in 1 .. Len(lifo') : lifo'[i] = Crc[fresh'[n + 1 - Len(lifo') + i]]
      BY <3>4, <3>5
    <3>7. /\ Len(lifo') \in {m, m + 1} /\ Len(lifo') <= n + 1
          /\ Len(lifo') = n + 1 \/ Len(lifo') = Capacity
          /\ Len(lifo') = m => m > 0
      BY <1>1, <3>1, <3>4
    <3> QED BY <3>3, <3>4, <3>6, <3>7
  <2> QED BY <2>1, <2>2
<1> DEFINE o == n + 1 - Len(lifo')
<1> HIDE DEF k, l, n, m
<1>12. /\ o \in Nat /\ First' = o
       /\ o = IF Len(lifo') = m THEN n - m + 1 ELSE n - m
  <2>1. First' = o
    <3>1. First' = Len(fresh') - Len(lifo')
      BY DEF First
    <3>2. Len(fresh') = n + 1
      BY <1>2
    <3> QED BY <1>1, <1>11, <3>1, <3>2
  <2>2. Len(lifo') = m \/ Len(lifo') = m + 1
    BY <1>11
  <2>3. o \in Nat
    BY <1>1, <1>11, <2>2
  <2>4. o = IF Len(lifo') = m THEN n - m + 1 ELSE n - m
    BY <1>1, <2>2
  <2> QED BY <2>1, <2>3, <2>4
<1> HIDE DEF o
(* The texts that stay in the window stay known.                           *)
<1>13. ASSUME NEW i \in 1 .. n, i > o, ~Clashes(fresh', fresh'[i])
       PROVE  /\ known'[Crc[fresh'[i]]] = fresh'[i]
              /\ \A j \in 1 .. n + 1 : j > o /\ fresh'[j] = fresh'[i] => j = i
  <2>1. i > n - m /\ fresh'[i] = fresh[i]
    BY <1>1, <1>2, <1>12, <1>13
  <2>2. /\ ~Clashes(fresh, fresh[i]) /\ Crc[fresh[i]] # Crc[t]
        /\ known[Crc[fresh[i]]] = fresh[i]
        /\ \A j \in 1 .. n : j > n - m /\ fresh[j] = fresh[i] => j = i
    BY <1>6, <1>9, <1>13, <2>1
  <2>3. ASSUME NEW j \in 1 .. n + 1, j > o, fresh'[j] = fresh'[i] PROVE j = i
    <3>1. j # n + 1
      BY <1>2, <2>1, <2>2, <2>3
    <3>2. j \in 1 .. n /\ j > n - m
      BY <1>1, <1>12, <2>3, <3>1
    <3> QED BY <1>2, <2>1, <2>2, <2>3, <3>2
  <2>4. CASE Len(lifo') = m
    <3>1. n - m + 1 \in 1 .. n /\ n - m + 1 > n - m /\ i # n - m + 1
      BY <1>1, <1>11, <1>12, <1>13, <2>4
    <3>2. fresh[n - m + 1] # fresh[i]
      BY <2>2, <3>1
    <3>3. Crc[fresh[n - m + 1]] # Crc[fresh[i]]
      BY <1>2, <2>2, <3>1, <3>2 DEF Clashes
    <3> QED BY <1>4, <1>11, <2>1, <2>2, <2>3, <3>3
  <2>5. CASE Len(lifo') # m
    BY <1>4, <1>11, <2>1, <2>2, <2>3, <2>5
  <2> QED BY <2>4, <2>5
(* The new text is known and was not in the window.                        *)
<1>14. ASSUME ~Clashes(fresh', t)
       PROVE  /\ known'[Crc[t]] = t
              /\ \A j \in 1 .. n + 1 : j > o /\ fresh'[j] = t => j = n + 1
  <2>1. ASSUME NEW j \in 1 .. n + 1, j > o, fresh'[j] = t PROVE j = n + 1
    <3> SUFFICES ASSUME j # n + 1 PROVE FALSE
      OBVIOUS
    <3>1. j \in 1 .. n /\ j > n - m
      BY <1>1, <1>12, <2>1
    <3> QED BY <1>2, <1>10, <1>14, <2>1, <3>1
  <2>2. Len(lifo') = m => Crc[fresh[n - m + 1]] # Crc[t]
    <3>1. Len(lifo') = m => n - m + 1 \in 1 .. n /\ n - m + 1 > n - m
      BY <1>1, <1>11
    <3> QED BY <1>10, <1>14, <3>1
  <2> QED BY <1>1, <1>11, <2>1, <2>2
<1>15. ASSUME NEW i \in DOMAIN fresh', i > First', ~Clashes(fresh', fresh'[i])
       PROVE  /\ known'[Crc[fresh'[i]]] = fresh'[i]
              /\ \A j \in DOMAIN fresh' : j > First' /\ fresh'[j] = fresh'[i] => j = i
  <2>1. CASE i = n + 1
    BY <1>2, <1>12, <1>14, <1>15, <2>1
  <2>2. CASE i # n + 1
    <3>1. i \in 1 .. n
      BY <1>1, <1>2, <2>2
    <3> QED BY <1>2, <1>12, <1>13, <1>15, <3>1
  <2> QED BY <2>1, <2>2
<1>16. \A i \in 1 .. Len(lifo') : lifo'[i] = Crc[fresh'[First' + i]]
  BY <1>11, <1>12 DEF o
<1> QED BY <1>2, <1>11, <1>15, <1>16 DEF WindowKept

LEMMA WindowStep ==
  ASSUME TypeOK, WindowKept, [Next]_vars
  PROVE  WindowKept'
<1>1. CASE UNCHANGED filterVars
  BY <1>1 DEF filterVars, WindowKept, First, Clashes
<1>2. ASSUME NEW s \in Senders, Receive(s) PROVE WindowKept'
  <2>1. CASE IsDuplicate(Text[s])
    BY <1>1, <1>2, <2>1 DEF Receive
  <2>2. CASE ~IsDuplicate(Text[s])
    BY <1>2, <2>2, RememberWindow, NotifyAssumption DEF Receive
  <2> QED BY <2>1, <2>2
<1> QED
  BY <1>1, <1>2
  DEF Next, Child, vars, filterVars, Fork, Send, SendFails, RecvOk, Timeout,
      LoseDatagram, RepeatDatagram, LoseOk

FilterInv == TypeOK /\ AttemptLeft /\ WindowKept

LEMMA Filter == Spec => []FilterInv
<1>1. Init => WindowKept
  <2> SUFFICES ASSUME Init PROVE WindowKept
    OBVIOUS
  <2>1. fresh = <<>> /\ lifo = <<>> /\ Len(fresh) = 0 /\ Len(lifo) = 0 /\ DOMAIN fresh = {}
    BY DEF Init
  <2> QED BY <2>1 DEF WindowKept
<1> QED BY <1>1, WindowStep, TypesAndAttempts, PTL DEF Spec, FilterInv

(* What a datagram that gets through adds to the texts heard.              *)
LEMMA OnlyReceiveHears ==
  ASSUME TypeOK, [Next]_vars, fresh' # fresh
  PROVE  \E s \in Senders : /\ Receive(s) /\ ~IsDuplicate(Text[s]) /\ Text[s] \in Texts
                            /\ fresh' = Append(fresh, Text[s])
<1>1. PICK s \in Senders : Receive(s)
  BY DEF Next, Child, vars, filterVars, Fork, Send, SendFails, RecvOk, Timeout,
         LoseDatagram, RepeatDatagram, LoseOk
<1>2. ~IsDuplicate(Text[s])
  BY <1>1 DEF Receive, filterVars
<1> QED BY <1>1, <1>2, NotifyAssumption DEF Receive, Remember

(* A text heard now is none of the last Capacity ones, or one of those     *)
(* that were heard has the same fingerprint.                               *)
LEMMA HeardAnew ==
  ASSUME FilterInv, [Next]_vars, NEW i \in DOMAIN fresh, fresh' # fresh,
         i > Len(fresh) - Capacity, ~Clashes(fresh, fresh[i])
  PROVE  fresh[i] # fresh'[Len(fresh')]
<1> USE DEF FilterInv
<1>1. PICK s \in Senders : ~IsDuplicate(Text[s]) /\ Text[s] \in Texts
                          /\ fresh' = Append(fresh, Text[s])
  BY OnlyReceiveHears
<1>2. /\ fresh \in Seq(Texts) /\ Len(fresh) \in Nat /\ Len(lifo) \in Nat
      /\ DOMAIN fresh = 1 .. Len(fresh) /\ Capacity \in Nat
  BY NotifyAssumption DEF TypeOK
<1>3. fresh'[Len(fresh')] = Text[s]
  <2>1. Len(fresh') = Len(fresh) + 1 /\ fresh'[Len(fresh) + 1] = Text[s]
    BY <1>1, <1>2, AppendProperties
  <2> QED BY <2>1
<1>4. i > First
  BY <1>2 DEF WindowKept, First
<1>5. known[Crc[fresh[i]]] = fresh[i]
  BY <1>4 DEF WindowKept
<1> QED BY <1>1, <1>3, <1>5 DEF IsDuplicate

NoClashes == \A t, u \in Texts : Crc[t] = Crc[u] => t = u

LEMMA NoneClash ==
  ASSUME NoClashes, TypeOK, NEW i \in DOMAIN fresh
  PROVE  ~Clashes(fresh, fresh[i])
<1>1. \A k \in DOMAIN fresh : fresh[k] \in Texts
  BY DEF TypeOK
<1> QED BY <1>1 DEF NoClashes, Clashes

NoRepeatUnlessClash ==
  [][\A i \in DOMAIN fresh :
       fresh' # fresh /\ i > Len(fresh) - Capacity /\ ~Clashes(fresh, fresh[i])
         => fresh[i] # fresh'[Len(fresh')]]_vars

(* A text gets through the filter again within the window only if another  *)
(* text with its fingerprint was heard: the price of 32 bits.              *)
THEOREM RepeatsComeFromClashes == Spec => NoRepeatUnlessClash
<1>1. FilterInv /\ [Next]_vars =>
        [\A i \in DOMAIN fresh :
           fresh' # fresh /\ i > Len(fresh) - Capacity /\ ~Clashes(fresh, fresh[i])
             => fresh[i] # fresh'[Len(fresh')]]_vars
  BY HeardAnew
<1> QED BY <1>1, Filter, PTL DEF Spec, NoRepeatUnlessClash

(* With fingerprints that tell the texts apart no text gets through again  *)
(* within the window, for any network and any number of retries.           *)
THEOREM WindowRespected ==
  ASSUME NoClashes
  PROVE  Spec => NoRepeatWithinWindow
<1>1. FilterInv /\ [Next]_vars =>
        [\A i \in DOMAIN fresh : fresh' # fresh /\ i > Len(fresh) - Capacity
           => fresh[i] # fresh'[Len(fresh')]]_vars
  <2> SUFFICES ASSUME FilterInv, [Next]_vars, NEW i \in DOMAIN fresh, fresh' # fresh,
                      i > Len(fresh) - Capacity
               PROVE  fresh[i] # fresh'[Len(fresh')]
    OBVIOUS
  <2>1. ~Clashes(fresh, fresh[i])
    BY NoneClash DEF FilterInv
  <2> QED BY <2>1, HeardAnew
<1> QED BY <1>1, Filter, PTL DEF Spec, NoRepeatWithinWindow

-----------------------------------------------------------------------------
(* The protocol implements Delivery.tla.                                   *)

(* An answer on its way to a sender says that its text was heard.          *)
AnswersTrue ==
  \A s \in Senders : oks[s] > 0 =>
    Text[s] \in Valid /\ \E i \in DOMAIN fresh : fresh[i] = Text[s]

(* The texts heard stay heard, and a new one is the last.                  *)
LEMMA HeardGrows ==
  ASSUME TypeOK, [Next]_vars
  PROVE  /\ \A i \in DOMAIN fresh : i \in DOMAIN fresh' /\ fresh'[i] = fresh[i]
         /\ Len(fresh') \in Nat /\ Len(fresh') >= Len(fresh)
         /\ DOMAIN fresh = 1 .. Len(fresh) /\ DOMAIN fresh' = 1 .. Len(fresh')
<1>1. fresh \in Seq(Texts) /\ Len(fresh) \in Nat /\ DOMAIN fresh = 1 .. Len(fresh)
  BY DEF TypeOK
<1>2. CASE fresh' = fresh
  BY <1>1, <1>2
<1>3. CASE fresh' # fresh
  <2>1. PICK t \in Texts : fresh' = Append(fresh, t)
    BY <1>3, OnlyReceiveHears
  <2>2. /\ Len(fresh') = Len(fresh) + 1 /\ \A i \in 1 .. Len(fresh) : fresh'[i] = fresh[i]
        /\ DOMAIN fresh' = 1 .. Len(fresh')
    BY <1>1, <2>1, AppendProperties
  <2> QED BY <1>1, <2>2
<1> QED BY <1>2, <1>3

LEMMA AnswersTrueStep ==
  ASSUME TypeOK, AnswersTrue, [Next]_vars
  PROVE  AnswersTrue'
<1> SUFFICES ASSUME NEW r \in Senders, oks'[r] > 0
             PROVE  Text[r] \in Valid /\ \E i \in DOMAIN fresh' : fresh'[i] = Text[r]
  BY DEF AnswersTrue
<1>0. oks \in [Senders -> Nat]
  BY DEF TypeOK
<1>1. CASE oks[r] > 0
  BY <1>1, HeardGrows DEF AnswersTrue
<1>2. CASE ~(oks[r] > 0)
  <2>1. ASSUME NEW s \in Senders, RecvOk(s) \/ LoseOk(s) PROVE FALSE
    BY <1>0, <1>2, <2>1 DEF RecvOk, LoseOk
  <2>2. PICK s \in Senders : Receive(s) /\ oks' # oks
    BY <1>2, <2>1
    DEF Next, Child, vars, senderVars, Fork, Send, SendFails, Timeout, Receive,
        LoseDatagram, RepeatDatagram
  <2>3. ~IsDuplicate(Text[s]) /\ Text[s] \in Valid /\ oks' = [oks EXCEPT ![s] = @ + 1]
    BY <2>2 DEF Receive, Answers
  <2>4. r = s
    BY <1>0, <1>2, <2>3
  <2>5. fresh' = Append(fresh, Text[s]) /\ Text[s] \in Texts /\ fresh \in Seq(Texts)
    BY <2>2, <2>3, NotifyAssumption DEF Receive, Remember, TypeOK
  <2>6. fresh'[Len(fresh) + 1] = Text[s] /\ Len(fresh) + 1 \in DOMAIN fresh'
    BY <2>5, AppendProperties
  <2> QED BY <2>3, <2>4, <2>6
<1> QED BY <1>1, <1>2

LEMMA AnswersHold == Spec => []AnswersTrue
<1>1. Init => AnswersTrue
  BY DEF Init, AnswersTrue
<1> QED BY <1>1, AnswersTrueStep, Filter, PTL DEF Spec, FilterInv

(* A sender is told so by an answer only, and by nothing else.             *)
LEMMA OnlyRecvOkTells ==
  ASSUME TypeOK, [Next]_vars, Told' # Told
  PROVE  \E s \in Senders : RecvOk(s) /\ Told' = Told \cup {s}
<1>0. st \in [Senders -> States]
  BY DEF TypeOK
<1>1. st' # st
  BY DEF Told
<1>2. ASSUME NEW s \in Senders, Fork(s) \/ Send(s) \/ SendFails(s) \/ Timeout(s)
      PROVE  FALSE
  <2>1. st[s] # "acked" /\ st'[s] # "acked" /\ \A r \in Senders \ {s} : st'[r] = st[r]
    BY <1>0, <1>2 DEF Fork, Send, SendFails, Timeout
  <2> QED BY <2>1 DEF Told
<1>3. PICK s \in Senders : RecvOk(s)
  BY <1>1, <1>2
  DEF Next, Child, vars, senderVars, Receive, LoseDatagram, RepeatDatagram, LoseOk
<1>4. st' = [st EXCEPT ![s] = "acked"]
  BY <1>3 DEF RecvOk
<1>5. Told' = Told \cup {s}
  BY <1>0, <1>4 DEF Told
<1> QED BY <1>3, <1>5

LEMMA DeliveryStep ==
  ASSUME NoClashes, FilterInv, AnswersTrue, [Next]_vars
  PROVE  [Abstract!Next]_<<fresh, Told>>
<1> USE DEF FilterInv
<1>1. CASE fresh' # fresh
  <2>1. PICK s \in Senders : /\ Receive(s) /\ Text[s] \in Texts
                            /\ fresh' = Append(fresh, Text[s])
    BY <1>1, OnlyReceiveHears
  <2>2. Told' = Told
    BY <2>1 DEF Receive, senderVars, Told
  <2>3. Len(fresh) \in Nat /\ Capacity \in Nat /\ DOMAIN fresh = 1 .. Len(fresh)
        /\ fresh \in Seq(Texts)
    BY NotifyAssumption DEF TypeOK
  <2>4. fresh'[Len(fresh')] = Text[s]
    <3>1. Len(fresh') = Len(fresh) + 1 /\ fresh'[Len(fresh) + 1] = Text[s]
      BY <2>1, <2>3, AppendProperties
    <3> QED BY <3>1
  <2>5. ASSUME NEW i \in DOMAIN fresh, i + Capacity > Len(fresh) PROVE fresh[i] # Text[s]
    <3>1. i > Len(fresh) - Capacity
      BY <2>3, <2>5
    <3> QED BY <1>1, <2>4, <3>1, NoneClash, HeardAnew
  <2>6. Abstract!Hear(Text[s])
    BY <2>1, <2>2, <2>5 DEF Abstract!Hear
  <2> QED BY <2>1, <2>6 DEF Abstract!Next
<1>2. CASE Told' # Told
  <2>1. PICK s \in Senders : RecvOk(s) /\ Told' = Told \cup {s}
    BY <1>2, OnlyRecvOkTells
  <2>2. fresh' = fresh /\ oks[s] > 0
    BY <2>1 DEF RecvOk, filterVars
  <2>3. Abstract!Tell(s)
    BY <2>1, <2>2 DEF Abstract!Tell, AnswersTrue
  <2> QED BY <2>3 DEF Abstract!Next
<1> QED BY <1>1, <1>2

(* With fingerprints that tell the texts apart, the senders, the network   *)
(* and the filter together implement the abstract delivery: a text is      *)
(* heard once in a window, and who is told so was heard.                   *)
THEOREM DeliveryRefinement ==
  ASSUME NoClashes
  PROVE  Spec => ImplementsDelivery
<1>1. Init => Abstract!Init
  BY DEF Init, Told, Abstract!Init
<1>2. FilterInv /\ AnswersTrue /\ [Next]_vars => [Abstract!Next]_<<fresh, Told>>
  BY DeliveryStep
<1> QED
  BY <1>1, <1>2, Filter, AnswersHold, PTL DEF Spec, ImplementsDelivery, Abstract!Spec

-----------------------------------------------------------------------------
(* Every notification once.                                                *)

Heard(t) == \E i \in DOMAIN fresh : fresh[i] = t

(* What the filter knows was heard, what was heard or is in flight was     *)
(* sent, and what was sent is in flight or was heard, unless it was lost.  *)
Accounts ==
  /\ \A f \in Fingerprints : known[f] # NoText => Heard(known[f])
  /\ \A s \in Senders : copies[s] > 0 => Sent(s)
  /\ \A i \in DOMAIN fresh : \E s \in Senders : Sent(s) /\ Text[s] = fresh[i]
  /\ ~lost => \A s \in Senders : Sent(s) => copies[s] > 0 \/ Heard(Text[s])

(* Only Send makes a sender one that has sent, and it stays one.           *)
LEMMA SentStep ==
  ASSUME TypeOK, [Next]_vars, NEW r \in Senders
  PROVE  /\ Sent(r) => Sent(r)'
         /\ Sent(r)' /\ ~Sent(r) => Send(r)
<1>0. st \in [Senders -> States] /\ attempts \in [Senders -> Nat]
  BY NotifyAssumption DEF TypeOK
<1>1. CASE UNCHANGED senderVars
  BY <1>1 DEF senderVars, Sent
<1>2. ASSUME NEW s \in Senders, Fork(s) \/ Send(s) \/ SendFails(s) \/ RecvOk(s)
      PROVE  /\ Sent(r) => Sent(r)'
             /\ Sent(r)' /\ ~Sent(r) => Send(r)
  <2>1. CASE r # s
    BY <1>0, <1>2, <2>1 DEF Fork, Send, SendFails, RecvOk, Sent
  <2>2. CASE r = s
    <3>1. CASE Send(s)
      BY <1>0, <2>2, <3>1 DEF Send, Sent
    <3>2. CASE Fork(s) \/ SendFails(s) \/ RecvOk(s)
      BY <1>0, <2>2, <3>2 DEF Fork, SendFails, RecvOk, Sent
    <3> QED BY <1>2, <3>1, <3>2
  <2> QED BY <2>1, <2>2
<1>3. ASSUME NEW s \in Senders, Timeout(s)
      PROVE  /\ Sent(r) => Sent(r)'
             /\ Sent(r)' /\ ~Sent(r) => Send(r)
  <2>1. CASE r # s
    BY <1>0, <1>3, <2>1 DEF Timeout, Sent
  <2>2. CASE r = s
    <3>1. attempts'[s] > 0 /\ st[s] = "waiting"
      BY <1>0, <1>3 DEF Timeout
    <3> QED BY <2>2, <3>1 DEF Sent
  <2> QED BY <2>1, <2>2
<1> QED
  BY <1>1, <1>2, <1>3
  DEF Next, Child, vars, senderVars, Receive, LoseDatagram, RepeatDatagram, LoseOk

(* What a datagram that is read leaves behind: its text was heard.         *)
LEMMA ReceiveHears ==
  ASSUME TypeOK, Accounts, NEW s \in Senders, Receive(s)
  PROVE  /\ Heard(Text[s])'
         /\ \A f \in Fingerprints :
              known'[f] # NoText => known'[f] = known[f] \/ known'[f] = Text[s]
<1> DEFINE t == Text[s]
<1>1. t \in Texts /\ t # NoText /\ Crc[t] \in Fingerprints
  BY NotifyAssumption
<1>2. CASE IsDuplicate(t)
  BY <1>1, <1>2 DEF Receive, filterVars, IsDuplicate, Accounts, Heard
<1>3. CASE ~IsDuplicate(t)
  <2>1. Remember(t)
    BY <1>3 DEF Receive
  <2>2. Heard(t)'
    <3>1. fresh \in Seq(Texts) /\ fresh' = Append(fresh, t)
      BY <2>1 DEF Remember, TypeOK
    <3>2. fresh'[Len(fresh) + 1] = t /\ Len(fresh) + 1 \in DOMAIN fresh'
      BY <1>1, <3>1, AppendProperties
    <3> QED BY <3>2 DEF Heard
  <2>3. ASSUME NEW f \in Fingerprints, known'[f] # NoText
        PROVE  known'[f] = known[f] \/ known'[f] = t
    <3> DEFINE k == [known EXCEPT ![Crc[t]] = t]
    <3>1. k \in [Fingerprints -> Texts \cup {NoText}] /\ (k[f] = known[f] \/ k[f] = t)
      BY <1>1 DEF TypeOK
    <3>2. known' = k \/ known' = OldestForgotten(k, Append(lifo, Crc[t]))
      BY <2>1 DEF Remember
    <3> HIDE DEF k
    <3> QED BY <2>3, <3>1, <3>2 DEF OldestForgotten
  <2> QED BY <2>2, <2>3
<1> QED BY <1>2, <1>3

(* What happens to the copies of one sender's datagram.                    *)
LEMMA CopiesStep ==
  ASSUME TypeOK, [Next]_vars, NEW r \in Senders
  PROVE  /\ copies'[r] > copies[r] => Send(r) \/ copies[r] > 0
         /\ copies'[r] < copies[r] => Receive(r) \/ lost'
<1>0. copies \in [Senders -> Nat]
  BY DEF TypeOK
<1>1. CASE UNCHANGED copies
  BY <1>0, <1>1
<1>2. ASSUME NEW s \in Senders, Send(s)
      PROVE  /\ copies'[r] > copies[r] => Send(r) \/ copies[r] > 0
             /\ copies'[r] < copies[r] => Receive(r) \/ lost'
  <2>1. copies'[r] = IF r = s THEN copies[r] + 1 ELSE copies[r]
    BY <1>0, <1>2 DEF Send
  <2> QED BY <1>0, <1>2, <2>1
<1>3. ASSUME NEW s \in Senders, Receive(s) \/ LoseDatagram(s)
      PROVE  /\ copies'[r] > copies[r] => Send(r) \/ copies[r] > 0
             /\ copies'[r] < copies[r] => Receive(r) \/ lost'
  <2>1. copies'[r] = IF r = s THEN copies[r] - 1 ELSE copies[r]
    BY <1>0, <1>3 DEF Receive, LoseDatagram
  <2>2. LoseDatagram(s) => lost'
    BY DEF LoseDatagram
  <2> QED BY <1>0, <1>3, <2>1, <2>2
<1>4. ASSUME NEW s \in Senders, RepeatDatagram(s)
      PROVE  /\ copies'[r] > copies[r] => Send(r) \/ copies[r] > 0
             /\ copies'[r] < copies[r] => Receive(r) \/ lost'
  <2>1. /\ copies'[r] = IF r = s THEN copies[r] + 1 ELSE copies[r]
        /\ copies[s] > 0
    BY <1>0, <1>4 DEF RepeatDatagram
  <2> QED BY <1>0, <2>1
<1> QED
  BY <1>1, <1>2, <1>3, <1>4
  DEF Next, Child, vars, Fork, SendFails, RecvOk, Timeout, LoseOk

LEMMA AccountsStep ==
  ASSUME TypeOK, Accounts, [Next]_vars
  PROVE  Accounts'
<1>0. copies \in [Senders -> Nat] /\ copies' \in [Senders -> Nat]
  <2>1. copies' \in [Senders -> Nat]
    BY CountersType
    DEF Next, Child, vars, Fork, Send, SendFails, RecvOk, Timeout, Receive,
        LoseDatagram, RepeatDatagram, LoseOk, TypeOK
  <2> QED BY <2>1 DEF TypeOK
<1>1. \A t : Heard(t) => Heard(t)'
  BY HeardGrows DEF Heard
<1>2. \A s \in Senders : Receive(s) => Heard(Text[s])' /\ Sent(s)
  BY ReceiveHears DEF Receive, Accounts
<1>3. ASSUME NEW f \in Fingerprints, known'[f] # NoText PROVE Heard(known[f])'
  <2>1. CASE known'[f] = known[f]
    BY <1>1, <1>3, <2>1 DEF Accounts, Heard
  <2>2. CASE known'[f] # known[f]
    <3>1. PICK s \in Senders : Receive(s)
      BY <2>2
      DEF Next, Child, vars, filterVars, Fork, Send, SendFails, RecvOk, Timeout,
          LoseDatagram, RepeatDatagram, LoseOk
    <3>2. known'[f] = Text[s]
      BY <1>3, <2>2, <3>1, ReceiveHears
    <3> QED BY <1>2, <3>1, <3>2 DEF Heard
  <2> QED BY <2>1, <2>2
<1>4. ASSUME NEW r \in Senders, copies'[r] > 0 PROVE Sent(r)'
  <2>1. CASE copies[r] > 0
    BY <2>1, SentStep DEF Accounts
  <2>2. CASE ~(copies[r] > 0)
    <3>1. Send(r)
      BY <1>0, <1>4, <2>2, CopiesStep
    <3> QED BY <3>1 DEF Send, Sent, TypeOK
  <2> QED BY <2>1, <2>2
<1>5. ASSUME NEW i \in DOMAIN fresh'
      PROVE  \E s \in Senders : Sent(s)' /\ Text[s] = fresh'[i]
  <2>1. CASE i \in DOMAIN fresh
    <3>1. PICK s \in Senders : Sent(s) /\ Text[s] = fresh[i]
      BY <2>1 DEF Accounts
    <3> QED BY <2>1, <3>1, SentStep, HeardGrows
  <2>2. CASE i \notin DOMAIN fresh
    <3>1. PICK s \in Senders : Receive(s) /\ Text[s] \in Texts
                              /\ fresh' = Append(fresh, Text[s])
      BY <2>2, OnlyReceiveHears
    <3>2. fresh \in Seq(Texts) /\ DOMAIN fresh = 1 .. Len(fresh) /\ Len(fresh) \in Nat
      BY DEF TypeOK
    <3>3. DOMAIN fresh' = 1 .. Len(fresh) + 1 /\ fresh'[Len(fresh) + 1] = Text[s]
      BY <3>1, <3>2, AppendProperties
    <3>4. i = Len(fresh) + 1
      BY <2>2, <3>2, <3>3
    <3> QED BY <1>2, <3>1, <3>3, <3>4, SentStep
  <2> QED BY <2>1, <2>2
<1>6. ASSUME ~lost', NEW r \in Senders, Sent(r)'
      PROVE  copies'[r] > 0 \/ Heard(Text[r])'
  <2>1. ~lost
    BY <1>6
    DEF Next, Child, vars, Fork, Send, SendFails, RecvOk, Timeout, Receive,
        LoseDatagram, RepeatDatagram, LoseOk, TypeOK
  <2>2. CASE ~Sent(r)
    <3>1. Send(r)
      BY <1>6, <2>2, SentStep
    <3> QED BY <1>0, <3>1 DEF Send
  <2>3. CASE Sent(r) /\ Heard(Text[r])
    BY <1>1, <2>3
  <2>4. CASE Sent(r) /\ ~Heard(Text[r])
    <3>1. copies[r] > 0
      BY <2>1, <2>4 DEF Accounts
    <3> QED BY <1>0, <1>2, <1>6, <3>1, CopiesStep
  <2> QED BY <2>2, <2>3, <2>4
<1> QED BY <1>3, <1>4, <1>5, <1>6 DEF Accounts, Heard

LEMMA AccountsHold == Spec => []Accounts
<1>1. Init => Accounts
  BY DEF Init, Accounts, Sent
<1> QED BY <1>1, AccountsStep, Filter, PTL DEF Spec, FilterInv

(* A sender that was not forked has sent nothing.                          *)
IdleUntried == \A s \in Senders : st[s] = "idle" => attempts[s] = 0

LEMMA IdleUntriedHolds == Spec => []IdleUntried
<1>1. Init => IdleUntried
  BY DEF Init, IdleUntried
<1>2. ASSUME TypeOK, IdleUntried, [Next]_vars PROVE IdleUntried'
  <2> SUFFICES ASSUME NEW r \in Senders, st'[r] = "idle" PROVE attempts'[r] = 0
    BY DEF IdleUntried
  <2>0. st \in [Senders -> States] /\ attempts \in [Senders -> 0 .. Attempts]
    BY <1>2 DEF TypeOK
  <2>1. CASE UNCHANGED senderVars
    BY <1>2, <2>1 DEF senderVars, IdleUntried
  <2>2. ASSUME NEW s \in Senders, Fork(s) \/ Send(s) \/ SendFails(s) \/ RecvOk(s)
        PROVE  attempts'[r] = 0
    BY <1>2, <2>0, <2>2 DEF Fork, Send, SendFails, RecvOk, IdleUntried
  <2>3. ASSUME NEW s \in Senders, Timeout(s) PROVE attempts'[r] = 0
    <3>1. st'[s] # "idle"
      BY <2>0, <2>3 DEF Timeout
    <3> QED BY <1>2, <2>0, <2>3, <3>1 DEF Timeout, IdleUntried
  <2> QED
    BY <1>2, <2>1, <2>2, <2>3
    DEF Next, Child, vars, senderVars, Receive, LoseDatagram, RepeatDatagram, LoseOk
<1> QED BY <1>1, <1>2, Filter, PTL DEF Spec, FilterInv

(* As long as nothing was forgotten, no text was heard twice.              *)
LEMMA HeardOnce ==
  ASSUME NoClashes, FilterInv, Len(fresh) <= Capacity,
         NEW i \in DOMAIN fresh, NEW k \in DOMAIN fresh, fresh[i] = fresh[k]
  PROVE  i = k
<1>1. DOMAIN fresh = 1 .. Len(fresh) /\ Len(fresh) \in Nat /\ Len(lifo) \in Nat
  BY DEF FilterInv, TypeOK
<1>2. First = 0
  BY <1>1 DEF FilterInv, WindowKept, First
<1>3. ~Clashes(fresh, fresh[i])
  BY NoneClash DEF FilterInv
<1> QED BY <1>1, <1>2, <1>3 DEF FilterInv, WindowKept

(* Nor is the next text one of those heard before.                         *)
LEMMA NextHeardOnce ==
  ASSUME NoClashes, FilterInv, Len(fresh) <= Capacity, [Next]_vars
  PROVE  \A i, k \in DOMAIN fresh' : fresh'[i] = fresh'[k] => i = k
<1> DEFINE n == Len(fresh)
<1>1. /\ n \in Nat /\ DOMAIN fresh = 1 .. n /\ fresh \in Seq(Texts) /\ Capacity \in Nat
      /\ \A i, k \in 1 .. n : fresh[i] = fresh[k] => i = k
  BY NotifyAssumption, HeardOnce DEF FilterInv, TypeOK
<1>2. CASE fresh' = fresh
  BY <1>1, <1>2
<1>3. CASE fresh' # fresh
  <2>1. PICK t \in Texts : fresh' = Append(fresh, t)
    BY <1>3, OnlyReceiveHears DEF FilterInv
  <2>2. /\ Len(fresh') = n + 1 /\ fresh'[n + 1] = t /\ DOMAIN fresh' = 1 .. n + 1
        /\ \A i \in 1 .. n : fresh'[i] = fresh[i]
    BY <1>1, <2>1, AppendProperties
  <2>3. ASSUME NEW i \in 1 .. n PROVE fresh[i] # t
    <3>1. i \in DOMAIN fresh /\ i > Len(fresh) - Capacity
      BY <1>1
    <3>2. ~Clashes(fresh, fresh[i])
      BY <3>1, NoneClash DEF FilterInv
    <3>3. fresh'[Len(fresh')] = t
      BY <2>2
    <3> QED BY <1>3, <3>1, <3>2, <3>3, HeardAnew
  <2>4. \A i \in 1 .. n + 1 : i = n + 1 \/ i \in 1 .. n
    BY <1>1
  <2> HIDE DEF n
  <2> QED BY <1>1, <2>2, <2>3, <2>4
<1> QED BY <1>2, <1>3

(* Over a network that loses nothing, and with no fingerprint forgotten,   *)
(* each valid notification that was sent and is not in flight any more has *)
(* triggered its jobs exactly once, if senders' texts differ.              *)
THEOREM EachSentOnce ==
  ASSUME NoClashes, \A r, s \in Senders : Text[r] = Text[s] /\ Text[r] \in Valid => r = s
  PROVE  Spec => []OnceUnlessLost
<1>1. FilterInv /\ Accounts => OnceUnlessLost
  <2> SUFFICES ASSUME FilterInv, Accounts, ~lost, Len(fresh) <= Capacity, NEW t \in Valid,
                      \A s \in Senders : Text[s] = t => copies[s] = 0
               PROVE  Times(t) = Cardinality({s \in Senders : Text[s] = t /\ Sent(s)})
    BY DEF OnceUnlessLost
  <2> DEFINE A == {i \in DOMAIN fresh : fresh[i] = t}
             B == {s \in Senders : Text[s] = t /\ Sent(s)}
  <2>1. CASE Heard(t)
    <3>1. PICK i \in DOMAIN fresh : fresh[i] = t
      BY <2>1 DEF Heard
    <3>2. A = {i}
      BY <3>1, HeardOnce
    <3>3. PICK s \in Senders : Sent(s) /\ Text[s] = t
      BY <3>1 DEF Accounts
    <3>4. B = {s}
      BY <3>3
    <3> QED BY <3>2, <3>4, FS_Singleton DEF Times
  <2>2. CASE ~Heard(t)
    <3>1. A = {}
      BY <2>2 DEF Heard
    <3>2. B = {}
      BY <2>2 DEF Accounts
    <3> QED BY <3>1, <3>2 DEF Times
  <2> QED BY <2>1, <2>2
<1> QED BY <1>1, Filter, AccountsHold, PTL
=============================================================================
