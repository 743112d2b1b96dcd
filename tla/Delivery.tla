------------------------------ MODULE Delivery ------------------------------
(***************************************************************************)
(* What notifications promise: a text is heard again only after Window     *)
(* other ones, and a sender is told so only if its text was heard and is a *)
(* valid one, which has triggered its jobs.                                *)
(***************************************************************************)
EXTENDS Naturals, Sequences

CONSTANTS Senders, Texts, Text, Valid, Window
VARIABLES heard,  \* the texts the daemon took, in order
          told    \* the senders that were answered

Init == heard = <<>> /\ told = {}

Hear(t) ==
  /\ \A i \in DOMAIN heard : i + Window > Len(heard) => heard[i] # t
  /\ heard' = Append(heard, t)
  /\ UNCHANGED told

Tell(s) ==
  /\ Text[s] \in Valid
  /\ \E i \in DOMAIN heard : heard[i] = Text[s]
  /\ told' = told \cup {s}
  /\ UNCHANGED heard

Next == (\E t \in Texts : Hear(t)) \/ (\E s \in Senders : Tell(s))

Spec == Init /\ [][Next]_<<heard, told>>
=============================================================================
