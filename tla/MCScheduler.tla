----------------------------- MODULE MCScheduler -----------------------------
(* Small configurations of the scheduler for TLC.                          *)
EXTENDS Scheduler, TLC

CONSTANTS jobA, jobB, jobC, watched

Always == 0 .. MaxTime
Numeric(lo, hi) == [kind |-> "seconds", lo |-> lo, hi |-> hi]
Event(kind) == [kind |-> kind, lo |-> 0, hi |-> 0]

(* A job with nothing but an interval.                                     *)
Plain(iv) ==
  [file |-> 1, interval |-> iv, period |-> Always, conflicts |-> {}, depends |-> {},
   watch |-> {}, starts |-> 0, successes |-> 0, failures |-> 0, signal |-> FALSE]

OneConfig(value) == [one \in {"one"} |-> value]

(* A every one to two seconds, B on a file change and with a signal, each  *)
(* avoiding the other; the second configuration drops A, which may be      *)
(* running; under the third B needs A to be running.                       *)
CoreNames == [both |-> {jobA, jobB}, only_b |-> {jobB}, after_a |-> {jobB}]
TwoJobs ==
  (jobA :> [Plain(Numeric(1, 2)) EXCEPT !.conflicts = {jobB}, !.failures = 1])
    @@ (jobB :> [Plain(Event("onchange")) EXCEPT
                   !.conflicts = {jobA}, !.watch = {watched}, !.signal = TRUE,
                   !.starts = 1])
BAfterA ==
  (jobA :> TwoJobs[jobA])
    @@ (jobB :> [Plain(Event("onchange")) EXCEPT
                   !.depends = {jobA}, !.watch = {watched}])
CoreCfg == [both |-> TwoJobs, only_b |-> TwoJobs, after_a |-> BAfterA]

(* The interval of A changes, is once drawn from a range, and its starts   *)
(* are notified. B and C wait for A and for each other; in the second      *)
(* configuration C waits for itself, as depends = * in [*] makes it.       *)
(* Somebody pings A and B.                                                 *)
ChangeNames == [c \in {"first", "second"} |-> {jobA, jobB, jobC}]
Told(iv) == [Plain(iv) EXCEPT !.starts = 1]
InRing(j) == [Plain(Numeric(1, 1)) EXCEPT !.depends = {jobA, j}]
ChangeCfg ==
  [first  |-> (jobA :> Told(Numeric(1, 2))) @@ (jobB :> InRing(jobC)) @@ (jobC :> InRing(jobB)),
   second |-> (jobA :> Told(Numeric(2, 2))) @@ (jobB :> InRing(jobC)) @@ (jobC :> InRing(jobC))]
Pings == {[to |-> j, type |-> "ping"] : j \in {jobA, jobB}}

(* Between the two reloads A is not in the configuration.                  *)
DropNames == [both |-> {jobA, jobB}, only_b |-> {jobB}]
DropCfg == [both   |-> (jobA :> Plain(Numeric(2, 2))) @@ (jobB :> Plain(Numeric(2, 2))),
            only_b |-> (jobA :> Plain(Numeric(2, 2))) @@ (jobB :> Plain(Numeric(2, 2)))]

(* A day of four seconds with a "midnight minute" of two seconds, and an   *)
(* interval as long as that minute: the README's once-a-day recipe.        *)
Day == 4
MidnightNames == OneConfig({jobA, jobB})
MidnightCfg ==
  OneConfig((jobA :> [Plain(Numeric(2, 2)) EXCEPT !.period = {t \in Always : t % Day < 2}])
         @@ (jobB :> Plain(Numeric(2, 2))))

(* Job A of the once-a-day recipe starts at most once a day (README:       *)
(* interval as long as the window of the period).                          *)
OncePerDay ==
  [][ran'[jobA] # ran[jobA] /\ ran[jobA].at # 0
       => ran[jobA].at \div Day # ran'[jobA].at \div Day]_vars

PidSymmetry == Permutations(Pids)
=============================================================================
