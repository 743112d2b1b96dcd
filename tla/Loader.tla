------------------------------- MODULE Loader -------------------------------
(***************************************************************************)
(* What loading the configuration promises: it happens at once, between    *)
(* two starts of jobs, from one content of each file; of a name the first  *)
(* file decides, of a setting the job's own section before the section [*] *)
(* of its file before the program; the times of the last starts survive.   *)
(***************************************************************************)
EXTENDS Naturals, Sequences

CONSTANTS Files, Contents, Builtin, Flags, Wildcards, Executable,
          Intervals, Times

VARIABLE jobs  \* the jobs the daemon has

(* The first file that has the section n.                                  *)
Having(snap, n) == {f \in DOMAIN Files : n \in DOMAIN snap[f]}
First(snap, n) == CHOOSE f \in Having(snap, n) :
                    \A g \in Having(snap, n) : f <= g

Meant(c, n, k, v) ==
  CASE k \in Wildcards /\ v = {"*"} -> DOMAIN c \ {"*", n}
    [] k \in Flags -> v \cap {"1"}
    [] k = "interval" -> v \cap Intervals
    [] OTHER -> v

(* What a section of content c says of key k of the job n, if anything. An *)
(* empty value says nothing, but of a job's own flag that it is not set.   *)
Says(c, section, n, k) ==
  IF section \notin DOMAIN c THEN {}
  ELSE {Meant(c, n, k, v) : v \in
          {v \in {c[section][i] : i \in DOMAIN c[section] \cap {k}} :
             \/ k \in Flags /\ section = n
             \/ k \in Wildcards /\ Meant(c, n, k, v) # {}
             \/ k \notin Wildcards /\ v # {}}}

Setting(c, n, k) ==
  CASE Says(c, n, n, k) # {} -> CHOOSE v \in Says(c, n, n, k) : TRUE
    [] Says(c, n, n, k) = {} /\ Says(c, "*", n, k) # {}
         -> CHOOSE v \in Says(c, "*", n, k) : TRUE
    [] OTHER -> Builtin[k]

LastStart(n) == IF \E j \in jobs : j.name = n
                THEN (CHOOSE j \in jobs : j.name = n).exec ELSE 0

Job(snap, n) ==
  [name |-> n, exec |-> LastStart(n),
   set |-> [k \in DOMAIN Builtin |-> Setting(snap[First(snap, n)], n, k)]]

Sections(snap) == (UNION {DOMAIN snap[f] : f \in DOMAIN Files}) \ {"*"}

Snapshots == {s \in [DOMAIN Files -> UNION {Contents[Files[f]] : f \in DOMAIN Files}] :
                \A f \in DOMAIN Files : s[f] \in Contents[Files[f]]}

Load ==
  \E snap \in Snapshots :
    jobs' = {j \in {Job(snap, n) : n \in Sections(snap)} :
               j.set["cmdline"] \subseteq Executable /\ j.set["cmdline"] # {}}

(* A job starts and its time is kept; the other jobs stay as they are.     *)
Start ==
  \E j \in jobs : \E t \in Times :
    t > j.exec /\ jobs' = (jobs \ {j}) \cup {[j EXCEPT !.exec = t]}

Init == jobs = {}
Next == Load \/ Start
Spec == Init /\ [][Next]_jobs
=============================================================================
