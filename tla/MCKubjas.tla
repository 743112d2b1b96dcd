------------------------------ MODULE MCKubjas ------------------------------
(* A chain of two jobs for TLC.                                            *)
EXTENDS Kubjas, TLC

CONSTANTS jobA, jobB

Always == 0 .. MaxTime
Job(rank, kind, lo) ==
  [file |-> rank, interval |-> [kind |-> kind, lo |-> lo, hi |-> lo],
   period |-> Always, conflicts |-> {}, depends |-> {}, watch |-> {},
   starts |-> 0, successes |-> 0, failures |-> 0, signal |-> FALSE]

(* A runs every second; B follows its successes; neither runs beside the  *)
(* other.                                                                  *)
ChainNames == [one \in {"one"} |-> {jobA, jobB}]
ChainCfg ==
  [one \in {"one"} |->
     (jobA :> [Job(1, "seconds", 1) EXCEPT !.successes = 1, !.conflicts = {jobB}])
       @@ (jobB :> [Job(2, "success-message", 0) EXCEPT !.conflicts = {jobA}])]
ChainNotes == {[from |-> jobA, to |-> jobB, type |-> "success-message"]}
ChainMessages == {[to |-> jobB, type |-> "success-message"]}

PidSymmetry == Permutations(Pids)
=============================================================================
