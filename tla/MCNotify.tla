------------------------------ MODULE MCNotify ------------------------------
(* Small networks of senders for TLC.                                      *)
EXTENDS Notify, TLC

CONSTANTS s1, s2, s3, t1, t2, bad

(* Three notifications, one of an unknown type, for a filter of two.       *)
Distinct == (s1 :> t1) @@ (s2 :> t2) @@ (s3 :> bad)
OwnCrc == [t \in Texts |-> t]
=============================================================================
