----------------------------- MODULE MCLifecycle -----------------------------
(* Few daemons and jobs for TLC.                                           *)
EXTENDS Lifecycle, TLC

DaemonSymmetry == Permutations(Daemons)
=============================================================================
