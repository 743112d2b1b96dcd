# Verification of kubjas

kubjas is a periodic job scheduler: a single-threaded daemon that forks jobs
when their time has come, when a file changes or when another daemon notifies
it over UDP. This directory holds TLA+ models of it, the TLC configurations
that check them, and TLAPS proofs. Every definition that stands for code is
listed with its lines in `PROJECT.json` ("map").

## 1. Inventory

| Part | Source | State | Operations |
|---|---|---|---|
| event loop | `main.rs` 324-477 | `jobs`, `running` (job → pid), `pid_to_job`, `no_new_jobs`, `last_tick`, signal flags | reap and handle exits, reload, shut down, toggle, drain file events, drain datagrams, timer, sleep 200 ms |
| scheduler | `scheduler.rs` | works on the loop's state; `now_unix` of a call | `start_jobs()`: checks, signal, exec, notify-start, sort |
| executor | `executor.rs` | none of its own: processes | fork, set up the child, `execvp` |
| notifications | `notify.rs` | `DuplicateFilter` (`known`, `lifo`); a sender's `attempts` | `send_notify()` forks a sender with retries; `recv_notify()` filters and parses |
| configuration loader | `config.rs` | files on disk; times of the last starts | `load_config()`: files, `[*]`, sections, validation |
| periods | `period.rs` | none | parse and evaluate an expression |
| file watcher | `inotify_watch.rs` | `canonical`, `known_watches`, a channel of events | add a watch, drain events, resolve paths |
| startup, shutdown | `main.rs` 130-326, 388-395 | PID file, port, handlers, children that outlive a daemon | daemonize, write the PID file, install handlers, bind, remove the PID file |
| command line, log | `main.rs` | none | parsing and printing |

How they interact. The loop calls everything else and shares `jobs` and
`running` with `start_jobs()`. Children talk to the daemon only through their
exit (SIGCHLD, a flag, `waitpid`), and senders through datagrams that reach a
daemon on this or another host. Signals set flags that the loop reads once per
iteration. The PID file tells others where to send them. Reloads replace `jobs` while jobs run: `running` and `pid_to_job`
are what is left of the old ones.

What is hard. Two maps of pids lag behind the processes while the kernel
reuses pids; SIGCHLDs merge; a reload changes the rules under running jobs; the
clock is read several times in one decision and may be set back; datagrams are
lost, repeated and late while a filter of 20 entries decides what is new; files
are edited while they are read one by one, in the order of a hash map; an
expression that cannot be parsed matches always; watches belong to files that
editors replace; children keep the daemon's socket and outlive it. `PROJECT.json` ("hazards") has
each at its line, with the properties that would catch it going wrong.

What makes the parts correct:

* loop, scheduler, executor: a job never runs twice; jobs that exclude each
  other never overlap; every end is noticed and frees the job; a signal goes
  to the job's own process; minimum delays hold; a drained daemon stays so.
* notifications: at most one effect per notification, exactly one if nothing
  is lost; an answered sender was heard; senders end.
* loader: names are unique; a load is one step from one content of each file;
  wildcards reach every job of a file.
* periods: the parser takes the documented grammar and gives it its meaning.
* file watcher: no finished change is missed, across reloads, late and replaced
  files; a trigger names the file that changed.
* startup, shutdown: the PID file names the daemon that serves; a restart
  neither doubles a job nor fails.

## 2. Modules

| Module | Role |
|---|---|
| `Scheduler` | the daemon: loop, `start_jobs()`, processes, signals, clock |
| `Exclusion` | what it promises: a program starts only if none of its kind and none it must avoid is alive |
| `SchedulerProofs` | theorems about `Scheduler`: types, the two maps of pids, exclusion |
| `StartProofs` | further ones: what is signalled, what starts and when, dependencies, the order of the vector |
| `Notify` | senders, network and duplicate filter |
| `Delivery` | what it promises: a text is heard once within a window, who is answered was heard |
| `NotifyProofs` | theorems about `Notify`, for any number of senders, texts and repeats |
| `Kubjas` | `Scheduler` and `Notify` put together: a daemon whose jobs notify each other |
| `KubjasProofs` | `Kubjas` implements `Scheduler` and `Notify`, whose theorems carry over; followers run once |
| `FileWatch` | the file watcher, between a file system and the triggers |
| `FileWatchProofs` | theorems about `FileWatch` |
| `Lifecycle` | several daemons on one host: PID file, handlers, port, children, restart |
| `LifecycleProofs` | theorems about `Lifecycle` |
| `Config` | `load_config()` with files edited meanwhile |
| `Loader` | what it promises: an atomic load |
| `ConfigProofs` | theorems about `Config`, among them that it implements `Loader` |
| `Period`, `Calendar` | parser and evaluation of periods; the calendar of the chrono crate |
| `PeriodDocs` | the documented grammar, table of values and recipes, to hold `Period` against |
| `PeriodProofs` | theorems about `Period`: it is the documented grammar, for expressions of any length, and the recipes do what is written of them |
| `MCScheduler`, `MCKubjas`, `MCNotify`, `MCConfig`, `MCPeriod`, `MCFileWatch`, `MCLifecycle` | small instances for TLC |

Some definitions have a *faulty variant* before them: a plausible mistake that
makes a property fail, to show that the property can fail.

### Scheduler

`pc` is the place in the loop; each phase, or each iteration of an inner loop,
is one action, and between two of them children exec and end, signals arrive
and the clock moves. A call of `start_jobs()` is `pc = "scan"` with its locals
in `scan`; each job of the vector is one action:

| Code | Action |
|---|---|
| `SIGCHLD_RECEIVED.swap`, `reap_children()`, handling | `TakeChld`, `WaitPid`, `HandleExit`, `HandleDone` |
| SIGHUP, `save_exec_times`, `load_config` | `TakeHup` |
| SIGTERM, SIGUSR2 | `TakeTerm`, `TakeUsr2` |
| `read_events()`, `recv_from()` loops | `WatchEvent`, `WatchDone`, `UdpMessage`, `UdpWouldBlock` |
| timer | `TimerTick`, `TimerScan` |
| `start_jobs()`, per job | `ScanSkip`, `ScanRunning`, `ExecJob`, `ExecFails`; then `EndScan` with the sort |
| child: `execvp`, end | `ChildExec`, `ChildExit` |

A process is free, forked, exec'ed or a zombie; a free pid may be handed out
again at once. A configuration is one of `Configs`; a reload takes any of them
in any order `LoadOrders` allows (`Config` says where they come from). A period
is the set of seconds in which it holds (`Period` says which); a datagram is
what `recv_notify()` accepts (`Notify` says when). A randomised interval is any
value of its range. `execTime` is read and written as in the code; `ran` is a
history variable with the clock the daemon read at a start and the clock when
it happened.

### Notify

A sender is `send_notify_child()`: `sending`, `waiting`, then `acked`, `silent`
(three timeouts) or `failed`. A timeout can happen at any time, so an answer
may come before or after it. Datagrams in flight are counted per sender, which
makes them unordered; the network loses and repeats them. The filter is the
map and the queue of the code, with the fingerprint an arbitrary function of
the text, so that collisions are possible.

### Kubjas

`Kubjas` extends `Scheduler` and has the senders and the filter as an instance
of `Notify`. The loop's `HandleExit` and `ExecJob` now fork a sender for each
note (from a job, to a job, with a type); the sender process reads the clock
when it writes its letter (`Write`), takes the steps of the protocol, and can
exit only when that has ended. `UdpMessage` is replaced by `Datagram`, which
passes a letter in flight through `Notify!Receive` and starts jobs with it if
the filter lets it through. The senders of two jobs that end in one second may
have the same text; `k` tells them apart. Notifications stay on the host, where
nothing is lost or repeated but by the sender's own retries: the network is in
`Notify`.

### FileWatch

A node is a file or directory; a path is a sequence of pieces of text, so that
`/spool/up2` continues the text of `/spool/up` without being below it. `mark`
is what the kernel watches: a watch belongs to the object, is lost with it
(`Replace`, `Unlink`), and reports to the daemon's `queue` what happens to the
object and, for a directory, directly in it. `Load` is the first load and each
reload with `setup_inotify_watches()`; the order of its paths is any. `ReadEvent`
is one turn of the loop in `read_events()` with the triggers of the path it
yields; `canonical` is read in any order, as the hash map it is. `backend`
says whether events carry the path as it was given to `watch()` (inotify) or
without links (others). `due` is a history of what is owed to jobs: a file that
was closed after writing or renamed into place, to those that watch it or its
directory by a path that was there when the configuration was loaded and that
the backend's events lead back to.

### Lifecycle

`phase` is what a daemon does next, from the PID file to the port and around
the loop; a signal before `SetupSignals` kills. A socket is taken as long as a
process has it open: the daemon, its senders, and its jobs until `execvp()`.
The memory of a daemon ends with it and its children live on. Daemons may be
started while another one is alive, crash at any step, and fail to write the
PID file; `upset` remembers such events, and each property says which of them
it excludes. The operator's steps are those of README 324: USR2, USR1 until no
job is printed, TERM, and a start when the old process is gone.

### Config

A load is a step per file and a step per section, in any order; edits may come
between any two. A field is the set of the lines of its value. `jobs` is a set:
the order is in `Scheduler.LoadOrders`. `readAs` remembers the content each
file had when it was read. The abstract `Loader` computes the jobs from a
snapshot, setting by setting.

### Period

An expression is a sequence of tokens. Blanks do not matter to the parser but
between a number and `am`, `pm` or `noon`, so that a number with one of these is
one token and a number with other letters (`3su`, `3jan`) is two, of which the
letters are the next value. `Take` is the parser's step for one of
them, which expects a scale, a brace, a range or what may follow one, and
`Reading` what it has after each. `PeriodDocs` gives the same sentences their
meanings by the documented grammar, from all ways to cut them into clauses and
ranges, and from the README's table of values. The parser takes values that are
not in the table (`wd {9}`, `hr {99}`, `mon` for `mo`); `InTable` says that a
sentence has none of them, and `ParserMeetsGrammar` is about those sentences,
malformed ones included. `ErrorsMatch` is about whole expressions and their
evaluation: an expression holds exactly when one of the parts between its commas
is no sentence of the grammar, or is one whose clauses all hold.

## 3. Runs

| Run | Question | Answer |
|---|---|---|
| `core` | two jobs that avoid each other, one on time and one on files with a signal; reloads that drop a running job or have B wait for A; SIGUSR2; SIGTERM; failing execs; pid reuse | all safety properties hold |
| `kubjas` | a job that follows another by notifications to its own daemon; senders that retry and take pids; the clock set back, also between the tick and the reading of the clock | one start for each end at most, no entry is stuck, least recent first, no job runs early |
| `progress` | merged SIGCHLDs, reloads that change the interval and the order, notifications; two jobs that wait for each other and for a third, until a reload has one of them wait for itself | delays hold, ends are noticed, reloads happen, the job without dependencies has its first run, the jobs of the ring none |
| `notify` | lost, repeated, late datagrams; a full filter; a text that is not valid | once within the window, once if nothing is lost or forgotten; senders end |
| `config` | files edited while they are read | the load is atomic, names unique |
| `period` | sentences up to five pieces; two years of days | parser and recipes agree with the documents, errors hold and nothing else does |
| `watch` | atomic saves in a watched directory, late files, links, reloads to other paths, two forms of event paths | no finished change is missed, triggers name the changed file |
| `lifecycle` | three daemons one after and beside another, crashes, signals before the handlers, a restart by a hasty operator | no job of two daemons, the PID file names the daemon that serves |

Four runs end with a counterexample to a sentence the code does not keep:

| Run | Sentence | What happens |
|---|---|---|
| `reload_drop` | README:125 "the minimum delay between runs" | a job that two reloads drop and restore starts too early |
| `midnight` | README:146 "once a day at midnight" | a tick around 00:00:00 makes the recipe run its job twice: `in_period()` reads the clock after `now_unix` was read |
| `watch_replaced` | inotify_watch.rs:60 (atomic save), kubjas.conf:192 | the second save of a file that is itself watched triggers nothing, nor does any later one: the watch went with the first file |
| `restart` | README:324 "then restart safely" | the new daemon dies because a notify sender of the old one still has the socket open |

The hasty operator of `lifecycle` is safe for a reason that is easily lost:
`NoJobTwice` fails if the loop starts jobs between the handling of USR1 and of
USR2, for then the printed list is older than the switch.

More sentences that the code does not keep, met while it was modelled and
without a run:

* kubjas.conf:242: a conflict that only one of two jobs lists does not stop the
  other one from starting (`InConflicts`).
* README:278: a job may start after its dependency has ended, as long as the
  process is not reaped (`NoDependency` asks `running`); `DependenciesHeld`
  says what is left of the rule.
* scheduler.rs:185: a reload loses the order by last start until the next start
  (`LoadConfig`).
* README:306: a signal between `fork` and `execvp` runs the daemon's handler in
  the child (`Kill`, `ChildExec`).
* README:195, 204: recipes without an interval are disabled (`TriggerMatches`).
* kubjas.conf:20: lists of a job replace those of `[*]` (`Settings`).
* period.rs:89, README:167: weeks are 1 to 53 (`ScaleValue`).
* period.rs:32: every expression is valid, so none is ever refused;
  kubjas.conf:104: `saturday` is not parsed and matches every day (`Values`).
* kubjas.conf:264 "Override with empty value": an empty value is ignored, and
  the alert handler keeps notifying itself (`Settings`).
* README:234: the second of two ends of a job in one second is taken for a
  duplicate and triggers nothing (`TextOf`, `IsDuplicate`); a job with
  `interval = 1` gets there when the loop is late.
* notify.rs:64: after a text with the same CRC32 a retry is no duplicate
  (`Remember`); `notify` holds for texts with different ones.
* README:223 "write-close events": jobs are also triggered by each write, by
  changes of metadata, and before a new file is closed (`IsWrite`).
* inotify_watch.rs:83, scheduler.rs:202: both compare texts, so that a job that
  watches `/spool/up` is triggered by `/spool/up2` (`InWatch`).
* inotify_watch.rs:34: with inotify, whose events carry the path as given, a
  path through a link begins with no root, is resolved to the real one, and
  triggers no job that watches it through the link (`Canonicalize`, `Reaches`).
* inotify_watch.rs:80: a link to a file whose name begins that of another one
  gives the other one a name that does not exist: with `/l` for `/spool/up`,
  `/spool/up2` is named `/l2` (`ResolveEventPath`; `PathNamesFile` leaves such
  links out).
* README:46: the `>` of the example is an argument of `date`, since no shell
  runs the words of a command line; README:19: the resolution of milliseconds
  is that of times below a second. (Both are outside the models.)
* README:321: a HUP to a daemon that still reads its configuration kills it
  (`Deliver`).
* README:325 "Removes the PID file": TERM removes whatever file is there, so a
  daemon that was started meanwhile loses its own (`TakeTerm`), and one that
  fails to bind leaves its dead pid in the file of the one that serves.

### Bounds

* Two jobs, three in `progress`, and two or three pids: a conflict, a
  dependency, a chain and an order need two jobs, and the ring a third one that
  both wait for and that may be there; pid reuse needs a pid that is freed while
  its exit is unhandled. `SignalsAreServed` is about SIGHUP there: the other
  signals are sent in `core` only, where no liveness is checked. With
  three pids one is a notify sender beside two jobs.
* The clock has three to five values (`MaxTime`): intervals of one and two
  seconds elapse, are drawn, and are cut by a reload and by a set clock
  (`ClockSteps`). `kubjas` sets it back once (`MaxSets`), after which the time
  of a start lies in the future. `MidnightCfg` has a day of four seconds.
* Three senders, one of them unparsable, two `Attempts` instead of three (a
  first one and a retry), one repeated datagram (`MaxDups`). The filter holds
  two texts instead of 20: what matters is whether it is full, and there is one
  text more than fits. In `kubjas` it holds 20, with two attempts, and two
  letters of the same text (`MaxSame`).
* Four nodes and four changes (`MaxChanges`): an atomic save in a directory and
  its events, with a reload in between and another file that appears.
* Three daemons, one job and one sender at a time each (`MaxSenders`): the
  third daemon follows one that crashed, and one that found the port taken.
* Two files, three names and five contents, among them a file cut short, and
  two starts of jobs (`MaxRuns`): enough for a name in both files, defaults
  and wildcards that meet, and a time that is carried over.
* Sentences of five pieces (`MaxChunks`), where a scale and its brace are one,
  and a number with the closing brace may be: two clauses, one with two ranges,
  two parts with a comma between them or in the braces. Sentences are written at the first
  instant only, for the parser does not look at the clock. Every day of 2024 and 2025, a leap year
  and a common one, at the recipes' times and the seconds around them.

Pids are symmetric where no liveness is checked. Deadlock is checked but where
the system stops by design: after SIGTERM, when all senders have ended, when
the bounds on time or text are reached.

### Fairness

* `FairSpec` of `Scheduler` has weak fairness of the loop, whose only waits
  are a sleep of 200 ms and reads that do not block, and strong fairness of
  leaving the two inner loops: a batch of file events is finite, and the socket
  is empty from time to time. The latter is an assumption about the network:
  the code itself would read datagrams for ever.
* `TimedSpec`, of the run `progress`, adds that the clock moves and that jobs
  end. Only `EveryJobStarts` needs this. It is about the jobs without
  dependencies: one with a dependency may wait for a job that never runs at
  the right moment, or for itself.
* `FairSpec` of `Notify` has weak fairness of a sender's steps: its receive
  times out after a second.

## 4. Proofs

`SchedulerProofs` proves, for any jobs, pids, configurations, messages,
signals, start and settings of the clock that satisfy `ConstantsAssumption`:
`TypeCorrect`, `RunningMapKnowsAll` (`EveryJobProcessKnown`),
`RunningMapNeverStuck` (`NoStuckEntry`), `MapsAgree` (`Bookkeeping`),
`Exclusive` (`MutualExclusion`) and `Refinement` (`ImplementsExclusion`).

The inductive invariant `SafetyInv` conjoins the five. None is inductive by
itself. That a program is known (`EveryJobProcessKnown`) survives the handling
of an exit only if the pid that is handled belongs to no job anew, which is
`Bookkeeping`: between `waitpid()` and the handling the loop starts no job, and
a notify sender that gets the pid has no job. `NoStuckEntry` needs the entry of
`pid_to_job` that `start_jobs()` inserts only when it returns; until then
`scan.started` holds it. `MutualExclusion` needs the conflict check to see
every live process, which is `EveryJobProcessKnown`; the lists compared are
those under which a process was started, so that reloads do not matter.
`Refinement` maps the live processes of jobs to the active programs of
`Exclusion`: `ExecJob` is its start, `ChildExit` its end, every other step a
stutter.

`StartProofs` adds `SignalsReachJob` (`SignalsHitOwnJob`) and `Drained`
(`DrainIsFinal`). The first is `EveryJobProcessKnown` and `Bookkeeping` at the
moment of the signal; the second needs one more invariant, that a scan is never
under way with scheduling off (`NotSuspended`), because the switch is turned
only between two scans.

It goes on with dependencies. `DependenciesHaveProcesses` (`DependenciesHeld`): the
entry that the check finds has a process or a reaped child (`NoStuckEntry`),
and while jobs are started nothing reaped waits to be handled, so that it has a
process. `CyclesStayDown` (`CyclesNeverStart`): of the jobs that wait for each
other none is in the running map, so that the first to start would have to
depend on one that is not; the invariant needs that the job looked at is of the
configuration in force.

The rest is about start times and the order of the vector. `StayingJobsWait`
is the minimum delay (`WaitsInterval`) of every job that no configuration
drops, whatever happens to the others; `IntervalKept` (`IntervalRespected`)
follows where all configurations have the same jobs. `TimesKept` ties the
daemon's `execTime` of such a job to the history of its starts, through the
sort and through every load. That the job stays is needed: the run
`reload_drop` shows that the delay is lost where a job comes and goes. For
`LeastRecentFirstKept` (`LeastRecentFirst`), `OrderKept` says that the vector is
in order until a scan starts a job, after which it is sorted before the scan
ends; it is proved of behaviours in which no SIGHUP waits, for a reload loses
the order (section 3).

`NotifyProofs` proves `NotifyTypeCorrect` (`TypeOK`, which needs that a waiting
sender has an attempt left), and then follows the filter. Its map and its queue
agree (`FilterInv`), from which, for any fingerprints, a text passes twice
within the window only if another one with its fingerprint came between
(`RepeatsComeFromClashes`). Under `NoClashes`, that fingerprints tell the texts
apart, follow `WindowRespected` (`NoRepeatWithinWindow`), `DeliveryRefinement`
(`ImplementsDelivery`: a new text that is received is `Delivery`'s hearing, an
answer that is taken its telling) and `EachSentOnce` (`OnceUnlessLost`). The last
counts: what was sent is in flight, lost or heard (`Accounts`), and is heard
once; it assumes that valid texts of two senders differ, for two equal ones are
one to the filter.

`KubjasProofs` proves that the composition implements the scheduler
(`ImplementsScheduler`: every step of `Kubjas` is one of `Scheduler` or leaves
it alone) and the protocol (`ImplementsNotify`), so that what is proved of both
holds of jobs that start each other: `ChainedExclusive`, `ChainedNeverStuck`,
`ChainedIntervalKept`, `ChainedLeastRecentFirst`. The step that has to be argued
for the first is `Datagram`: what the filter lets through is one of the
`Messages` of the scheduler, which is `KubjasAssumption` on the notes.
`FollowersRunOnce` is about the whole chain from the end of a job to the start
of its follower: notes are accounted for by letters written and not yet written
(`NotesAccounted`), starts by texts heard (`StartsAccounted`), texts heard by
letters (`Accounts` of `NotifyProofs`), so that a follower starts at most once
for each event (`OneRunPerEvent`), as long as the filter has forgotten no text.
`FollowersNeverRunTwice` removes this condition where there are no more texts
than the filter keeps. Fingerprints are the texts themselves in `Kubjas`.

`ConfigProofs` proves, for any files, contents and edits while they are read,
`NamesAreUnique` (`NamesUnique`) and `LoaderRefinement` (`ImplementsLoader`).
The invariant of a load (`Reading`) is that there is one content of each file,
those read so far and any for the rest, of which the names met are the
sections of the files before and of this one up to those still to look at, and
of which the vector so far is what `Loader` makes of the names met. A file that
is read chooses its content; a section adds its job, for the settings that
`apply_field_from_str()` and `apply_ini_section()` give it are `Loader`'s
(`SettingsMeant`); at the end every section was met. `WildcardsComplete`
(`WildcardListsAll`) keeps what a load made until the next one (`Settled`) and
assumes that no file is loaded twice (`FilesDiffer`); `ConfigTypeCorrect`
(`TypeOK`) that `*` stands alone in a list (`StarsAlone`), since otherwise the
code takes it for a name.

`FileWatchProofs` proves `WatchTypeCorrect` (`TypeOK`), `PathsNameFiles`
(`PathNamesFile`) and `NoneMissed` (`NoChangeMissed`), for any tree of files and
links, any watches and any number of events that wait. Both maps of watches
lead from an object to a path of it (`Watches`), so that an event that waits has
a name of its file (`Named`), which the replacement of a prefix turns into
another name. For `NoneMissed`: a path that was there when it was loaded keeps
its watch (`Known`), and for whatever is owed an event waits that will trigger
the job, whichever root is met first (`Owed`). It assumes what the run
`watch_replaced` shows to be necessary, that what is watched itself is not
replaced (`WatchedStay`; files in a watched directory may be), and that where a
link leads no other watched path leads or begins (`LinksAlone`), for else the
event may be resolved to the other path. The instance of the run `watch`
satisfies both.

`LifecycleProofs` proves `LifecycleTypeCorrect` (`TypeOK`), `PidFileIsTrue`
(`PidFileNamesServer`) and `RestartDoublesNoJob` (`NoJobTwice`) for any number
of daemons, jobs and senders. The first needs that a daemon starts with an
empty map (`Fresh`). The second needs that at most one daemon is alive while
none is started beside another, that the file holds its pid from its write to
its removal, and that no cause of an end is remembered before the end
(`FileFollows`). The third is the long one: USR2 reaches one daemon and once, so that its
switch is on or the signal waits (`SwitchedOnce`); what is printed afterwards
bounds what runs, because the loop prints just before it looks at the switch
and starts nothing in between (`PrintedBounds`); TERM is sent only when that
is empty, so that a daemon that has ended has no job (`DeadLeaveNoJob`); and
`bind()` keeps the loop to one daemon (`OneInLoop`), before which nothing is
started (`Fresh`).

`PeriodProofs` proves `ParserIsTheGrammar` (`ParserMeetsGrammar`) and
`TypingErrorsMatch` (`ErrorsMatch`) for expressions of any length,
`RecipesAreCrontabLines` (`RecipesAgreeWithCron`) and
`ShyJobHasItsTurn` (`ShyJobAlternates`) for any days and seconds. The library's
induction theorems cannot be used, but the least element of a set of numbers
can be had from `WFMin`, and from it induction over the set of the numbers for
which something holds (`Induction`, `StrongInduction`). With these the recursive
functions have the steps they are written with (`ReadingSteps`,
`OneOrMoreSteps`). The parser is sound: after each token, unless it has failed,
what it has is a meaning of what it has read, or of all but the range or clause
it is in (`Sound`, `ReadingSound`; one lemma for each thing it can expect). It is
complete: whatever way the grammar cuts a sentence, the parser stands at the end
of each range and clause with that meaning (`RangesRead`, `ClausesRead`), and so
has not failed. A token has one value at
most (`OneValue`) and no sign has one, so that the meaning is one. `ErrorsMatch` follows part by part,
once `split(',')` is shown to find the parts (`SubPeriodsAreParts`). For the
recipes, `ValuesClauseFollows` and `SpanClauseFollows` read a clause after what
was read before (`ReadingPrefix`: what follows does not change it), which gives
the clauses of each period; `SentenceHolds` and `CommaHolds` evaluate them, and
the calendar is needed for one fact only, that every day is one of the 31 of a
month (`DayOfMonth`, from the lengths of the months and years).

Assumptions are those of the modules: names and pids are opaque, `NoJob` and
`NoPid` are not among them, settings have their types, notes are between jobs
and there are finitely many of them, expressions are sequences of tokens
(`ChunksAssumption`), days lie in the years (`DaysAssumption`) and seconds in a
day (`SecondsAssumption`). A token is a word, or a number with no letters or
with those that belong to it (`Token`). `Jobs` of `Scheduler` is finite. Every
other hypothesis is in the statement of its theorem and holds in the instance
whose run checks the property.

Model-checked only: liveness (`EndedJobsAreReaped`, `SignalsAreServed`,
`EveryJobStarts`, `SendersEnd`), which is beyond the proof system. Every
invariant and every action property of the passing runs has a theorem.

## 5. Not modelled

* Command line, log, `elapsed_str()`; the descriptors that `daemonize()`
  redirects. None of it is state of the scheduling.
* The child between `fork` and `execvp` (users, priorities, redirections,
  word splitting) does not act on the daemon; `ChildExec` stands for all of
  it. `FailingJobs` covers failures before the fork.
* Texts: formatting, logs, substitution of `%host%` and others, the INI parser
  and blanks. Repeated keys, which the documents use for lists, depend on the
  INI crate, which is not part of the repository.
* The network between hosts in `Kubjas`; it is in `Notify`. The filter that is
  lost in a restart, so that a datagram repeated over it starts jobs again.
* Numbers beyond 32 bits; changes between winter and summer time.
* The kernel's limits on watches and on the queue of their events.

## 6. Plan

1. Core, in place: `Scheduler`, `Exclusion`, their runs and the safety proof.
2. Sources of its inputs, in place: `Notify`, `Config`, `Period` with their
   abstract specifications, and `FileWatch`.
3. What surrounds it, in place: `Lifecycle` with its proofs, and the
   composition `Kubjas` with its refinement.
4. Proofs, in place: every invariant and action property of the runs.
5. `Elapsed`, open: `elapsed_str()` as a function against exact arithmetic.
