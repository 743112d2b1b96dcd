------------------------------- MODULE Config -------------------------------
(***************************************************************************)
(* The configuration loader (load_config() in src/config.rs) while someone *)
(* edits the files: a load reads the files one after the other and takes   *)
(* the sections of each in the order of a hash map.                        *)
(***************************************************************************)
EXTENDS Naturals, Sequences, FiniteSets

CONSTANTS
  Files,       \* --conf-file, then the files of --config-dir by name
  Contents,    \* Contents[f]: what file f may hold, its sections and "*"
               \* for [*]: section -> key -> the lines of the value. A file
               \* that cannot be read holds no section.
  Executable,  \* command lines is_executable() accepts
  Intervals,   \* intervals Interval::parse() does not take for disabled
  MaxRuns      \* bound on the starts of jobs

Flags == {"ionice", "nice"}
Wildcards == {"conflicts", "depends"}
Keys == Flags \cup Wildcards \cup
  {"cmdline", "user", "group", "interval", "period", "watch", "notify-start",
   "notify-success", "notify-failure", "signal", "output"}

(* Job::default(). A field is the set of its lines, none for an absent     *)
(* one, a flag not set, an interval Disabled or the output Passthrough.    *)
Builtin == [k \in Keys |-> IF k \in {"user", "group"} THEN {"root"} ELSE {}]

ASSUME ConfigAssumption ==
  /\ Files \in Seq(DOMAIN Contents)
  /\ \A f \in DOMAIN Contents : \A c \in Contents[f] : \A s \in DOMAIN c :
       DOMAIN c[s] \subseteq Keys
  /\ MaxRuns \in Nat

VARIABLES
  disk,      \* file -> its content
  jobs,      \* the jobs vector of the daemon, as a set
  loading,   \* load_config() is running
  prev,      \* save_exec_times(): the jobs the daemon had when it started
  cfgFiles,  \* files still to read
  cfg,       \* the content of the file read last
  sections,  \* its sections not looked at yet
  seen,      \* names of sections met so far
  loaded,    \* the vector load_config() builds
  readAs,    \* history: file -> its content when it was read
  runs       \* history: starts of jobs so far

loaderVars == <<loading, prev, cfgFiles, cfg, sections, seen, loaded, readAs>>
vars == <<disk, jobs, loaderVars, runs>>

Paths == {Files[i] : i \in DOMAIN Files}
Empty == <<>>

Init ==
  /\ disk \in {d \in [Paths -> UNION {Contents[f] : f \in Paths}] :
                 \A f \in Paths : d[f] \in Contents[f]}
  /\ jobs = {}
  /\ loading = TRUE
  /\ prev = {}
  /\ cfgFiles = Files
  /\ cfg = Empty
  /\ sections = {}
  /\ seen = {}
  /\ loaded = {}
  /\ readAs = [f \in Paths |-> Empty]
  /\ runs = 0

-----------------------------------------------------------------------------
(* Settings.                                                               *)

(* "*" is every other section of the file, loaded or not. Faulty variants: *)
(* [*] too; those not met yet.                                             *)
AllAndDefault == DOMAIN cfg
UnseenSections == DOMAIN cfg \ (seen \cup {"*"})
AllSections == DOMAIN cfg \ {"*"}

(* A value as a field: "*" expanded, a flag compared with 1, an interval   *)
(* nobody understands disabled.                                            *)
Field(n, k, v) ==
  CASE k \in Wildcards /\ v = {"*"} -> AllSections \ {n}
    [] k \in Flags -> v \cap {"1"}
    [] k = "interval" -> v \cap Intervals
    [] OTHER -> v

(* The non-empty settings of [*].                                          *)
Defaults ==
  IF "*" \notin DOMAIN cfg THEN Empty
  ELSE [k \in {k \in DOMAIN cfg["*"] : cfg["*"][k] # {}} |-> cfg["*"][k]]

(* apply_field_from_str() for each default.                                *)
WithDefaults(n) ==
  [k \in Keys |-> IF k \in DOMAIN Defaults THEN Field(n, k, Defaults[k])
                                           ELSE Builtin[k]]

(* apply_ini_section(): an own setting counts unless its value, for a list *)
(* once "*" is expanded, is empty; a flag always counts.                   *)
Counts(n, k) ==
  /\ k \in DOMAIN cfg[n]
  /\ \/ k \in Flags
     \/ k \in Wildcards /\ Field(n, k, cfg[n][k]) # {}
     \/ k \notin Wildcards /\ cfg[n][k] # {}

Settings(n) ==
  [k \in Keys |-> IF Counts(n, k) THEN Field(n, k, cfg[n][k])
                                  ELSE WithDefaults(n)[k]]

ExecTime(n) == IF \E j \in prev : j.name = n
               THEN (CHOOSE j \in prev : j.name = n).exec ELSE 0

(* A command line, and one that can be run: the search on PATH is external.*)
IsExecutable(cmdline) == cmdline # {} /\ cmdline \subseteq Executable

-----------------------------------------------------------------------------
(* load_config()                                                           *)

(* SIGHUP.                                                                 *)
StartLoad ==
  /\ ~loading
  /\ loading' = TRUE
  /\ prev' = jobs
  /\ cfgFiles' = Files
  /\ cfg' = Empty
  /\ sections' = {}
  /\ seen' = {}
  /\ loaded' = {}
  /\ readAs' = [f \in Paths |-> Empty]
  /\ UNCHANGED <<disk, jobs, runs>>

ReadFile ==
  /\ loading /\ sections = {} /\ cfgFiles # <<>>
  /\ LET f == Head(cfgFiles) IN
       /\ cfg' = disk[f]
       /\ sections' = DOMAIN disk[f] \ {"*"}
       /\ readAs' = [readAs EXCEPT ![f] = disk[f]]
  /\ cfgFiles' = Tail(cfgFiles)
  /\ UNCHANGED <<disk, jobs, loading, prev, seen, loaded, runs>>

(* Faulty variants: nothing is a duplicate; a name is met only once its    *)
(* job has been accepted, so that a later file may mend an earlier one.    *)
NeverMet(n) == FALSE
MetIfLoaded(n) == \E j \in loaded : j.name = n
Met(n) == n \in seen

(* One section, in any order. A name already met is a duplicate. A section *)
(* without a usable command is dropped, and its name has been met.         *)
LoadSection(n) ==
  /\ loading /\ n \in sections
  /\ sections' = sections \ {n}
  /\ seen' = seen \cup {n}
  /\ LET s == Settings(n)
         j == [name |-> n, exec |-> ExecTime(n), set |-> s]
     IN loaded' = IF ~Met(n) /\ IsExecutable(s["cmdline"])
                  THEN loaded \cup {j} ELSE loaded
  /\ UNCHANGED <<disk, jobs, loading, prev, cfgFiles, cfg, readAs, runs>>

(* The caller replaces its jobs.                                           *)
FinishLoad ==
  /\ loading /\ sections = {} /\ cfgFiles = <<>>
  /\ jobs' = loaded
  /\ loading' = FALSE
  /\ UNCHANGED <<disk, prev, cfgFiles, cfg, sections, seen, loaded, readAs,
                 runs>>

(* A job starts (Scheduler.tla says when).                                 *)
StartJob(j) ==
  /\ ~loading /\ runs < MaxRuns
  /\ runs' = runs + 1
  /\ jobs' = (jobs \ {j}) \cup {[j EXCEPT !.exec = runs']}
  /\ UNCHANGED <<disk, loaderVars>>

(* Someone writes a file, perhaps while it is loaded.                      *)
Edit(f) ==
  /\ \E c \in Contents[f] : c # disk[f] /\ disk' = [disk EXCEPT ![f] = c]
  /\ UNCHANGED <<jobs, loaderVars, runs>>

Next ==
  \/ StartLoad
  \/ ReadFile
  \/ \E n \in sections : LoadSection(n)
  \/ FinishLoad
  \/ \E j \in jobs : StartJob(j)
  \/ \E f \in Paths : Edit(f)

Spec == Init /\ [][Next]_vars

-----------------------------------------------------------------------------
(* Properties.                                                             *)

(* Types; a list names jobs, never [*], and a kept job has been met.       *)
TypeOK ==
  /\ \A f \in Paths : disk[f] \in Contents[f]
  /\ \A j \in jobs \cup prev \cup loaded :
       DOMAIN j = {"name", "exec", "set"} /\ DOMAIN j.set = Keys
         /\ j.exec \in 0 .. runs /\ \A k \in Wildcards : "*" \notin j.set[k]
  /\ loading \in BOOLEAN
  /\ cfgFiles \in Seq(Paths)
  /\ sections \subseteq DOMAIN cfg
  /\ \A j \in loaded : j.name \in seen
  /\ runs \in 0 .. MaxRuns

(* The rest of the daemon knows a job by its name: no two jobs have the    *)
(* same, whatever files say and whenever they are edited (README: job      *)
(* names must be unique).                                                  *)
NamesUnique == \A S \in {jobs, loaded} :
                 \A i, j \in S : i.name = j.name => i = j

(* The file a loaded job comes from, and its section there.                *)
From(n) == LET i == CHOOSE i \in DOMAIN Files :
                      /\ n \in DOMAIN readAs[Files[i]]
                      /\ \A h \in 1 .. (i - 1) : n \notin DOMAIN readAs[Files[h]]
           IN readAs[Files[i]]
SaysOf(n, section, k) ==
  IF section \in DOMAIN From(n) /\ k \in DOMAIN From(n)[section]
  THEN From(n)[section][k] ELSE {}

(* A job with conflicts = * lists every other job of its file, whichever   *)
(* of their sections was loaded first and whatever [*] says (README: the   *)
(* wildcard conflicts with every other job in the same config file).       *)
WildcardListsAll ==
  ~loading => \A i, j \in jobs :
    i # j /\ From(i.name) = From(j.name)
      /\ (\/ SaysOf(i.name, i.name, "conflicts") = {"*"}
          \/ /\ SaysOf(i.name, i.name, "conflicts") = {}
             /\ SaysOf(i.name, "*", "conflicts") = {"*"})
      => j.name \in i.set["conflicts"]

(* A load in several steps, with files edited meanwhile, is one step from  *)
(* one content of each file.                                               *)
Times == 1 .. MaxRuns
Abstract == INSTANCE Loader
ImplementsLoader == Abstract!Spec
=============================================================================
