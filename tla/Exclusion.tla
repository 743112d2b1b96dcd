------------------------------ MODULE Exclusion ------------------------------
(***************************************************************************)
(* What the scheduler promises about programs that run at the same time: a *)
(* program of a job starts only when no program of the same job and none   *)
(* of a job on its conflicts list is alive.                                *)
(***************************************************************************)
VARIABLE active  \* the programs alive: their job and the jobs they avoid

Init == active = {}

Start(j, avoid) ==
  /\ \A a \in active : a.job # j /\ a.job \notin avoid
  /\ active' = active \cup {[job |-> j, avoid |-> avoid]}

End(a) == active' = active \ {a}

Next == \/ \E a \in active' \ active : Start(a.job, a.avoid)
        \/ \E a \in active : End(a)

Spec == Init /\ [][Next]_active
=============================================================================
