---------------------------- MODULE ConfigProofs ----------------------------
(***************************************************************************)
(* Proofs about the configuration loader of Config.tla, for any files, any *)
(* contents and any edits while they are read.                             *)
(***************************************************************************)
EXTENDS Config, TLAPS

-----------------------------------------------------------------------------
(* The vector of jobs.                                                     *)

(* Types but for what lists name.                                          *)
JobType(j) == /\ DOMAIN j = {"name", "exec", "set"}
              /\ DOMAIN j.set = Keys
              /\ j.exec \in 0 .. runs
Types ==
  /\ \A f \in Paths : disk[f] \in Contents[f]
  /\ \A j \in jobs \cup prev \cup loaded : JobType(j)
  /\ loading \in BOOLEAN
  /\ cfgFiles \in Seq(Paths)
  /\ sections \subseteq DOMAIN cfg
  /\ \A j \in loaded : j.name \in seen
  /\ runs \in 0 .. MaxRuns

(* What a load builds: the jobs met once, of one content at a time.        *)
CfgKnown == cfg = Empty \/ \E f \in Paths : cfg \in Contents[f]
ConfigInv == Types /\ CfgKnown /\ NamesUnique

LEMMA ConfigInvInit == Init => ConfigInv
<1> SUFFICES ASSUME Init PROVE ConfigInv
  OBVIOUS
<1>1. Files \in Seq(Paths)
  BY ConfigAssumption DEF Paths
<1>2. MaxRuns \in Nat
  BY ConfigAssumption
<1> QED BY <1>1, <1>2 DEF Init, ConfigInv, Types, CfgKnown, NamesUnique, Empty

LEMMA JobTypeKept ==
  ASSUME NEW j, JobType(j), runs \in Nat, runs' \in Nat, runs <= runs'
  PROVE  JobType(j)'
BY DEF JobType

(* A job that starts keeps its name and settings.                          *)
LEMMA StartedJob ==
  ASSUME NEW j, JobType(j), NEW n
  PROVE  /\ DOMAIN [j EXCEPT !.exec = n] = {"name", "exec", "set"}
         /\ [j EXCEPT !.exec = n].exec = n
         /\ [j EXCEPT !.exec = n].name = j.name
         /\ [j EXCEPT !.exec = n].set = j.set
BY DEF JobType

LEMMA TypesStep ==
  ASSUME ConfigInv, [Next]_vars
  PROVE  Types'
<1> USE DEF ConfigInv
<1>0. /\ runs \in Nat /\ MaxRuns \in Nat /\ runs \in 0 .. MaxRuns
      /\ \A j \in jobs \cup prev \cup loaded : JobType(j)
      /\ Files \in Seq(Paths) /\ cfgFiles \in Seq(Paths)
  BY ConfigAssumption DEF Types, Paths
<1>1. CASE UNCHANGED vars
  BY <1>1 DEF vars, loaderVars, Types, JobType
<1>2. CASE StartLoad
  BY <1>0, <1>2 DEF StartLoad, Types, JobType
<1>3. CASE ReadFile
  <2>1. cfgFiles' \in Seq(Paths)
    BY <1>0, <1>3 DEF ReadFile
  <2> QED BY <1>0, <1>3, <2>1 DEF ReadFile, Types, JobType
<1>4. ASSUME NEW n \in sections, LoadSection(n) PROVE Types'
  <2> DEFINE new == [name |-> n, exec |-> ExecTime(n), set |-> Settings(n)]
  <2>1. JobType(new) /\ new.name = n
    <3>1. ExecTime(n) \in 0 .. runs
      BY <1>0 DEF ExecTime, JobType
    <3>2. DOMAIN Settings(n) = Keys
      BY DEF Settings
    <3> QED BY <3>1, <3>2 DEF JobType
  <2>2. loaded' = loaded \cup {new} \/ loaded' = loaded
    BY <1>4 DEF LoadSection
  <2>3. /\ UNCHANGED <<disk, jobs, loading, prev, cfgFiles, cfg, runs>>
        /\ seen' = seen \cup {n} /\ sections' = sections \ {n}
    BY <1>4 DEF LoadSection
  <2> HIDE DEF new
  <2>4. \A j \in jobs' \cup prev' \cup loaded' : JobType(j)'
    BY <1>0, <2>1, <2>2, <2>3 DEF JobType
  <2>5. \A j \in loaded' : j.name \in seen'
    BY <2>1, <2>2, <2>3 DEF Types
  <2> QED BY <2>3, <2>4, <2>5 DEF Types
<1>5. CASE FinishLoad
  BY <1>0, <1>5 DEF FinishLoad, Types, JobType
<1>6. ASSUME NEW j \in jobs, StartJob(j) PROVE Types'
  <2>1. PICK again : again = [j EXCEPT !.exec = runs']
    OBVIOUS
  <2>2. runs' \in 0 .. MaxRuns /\ runs <= runs' /\ runs' \in Nat
    BY <1>0, <1>6 DEF StartJob
  <2>3. jobs' = (jobs \ {j}) \cup {again} /\ UNCHANGED <<disk, loaderVars>>
    BY <1>6, <2>1 DEF StartJob
  <2>4. JobType(again)'
    <3>1. DOMAIN again = {"name", "exec", "set"} /\ again.exec = runs' /\ again.set = j.set
      BY <1>0, <2>1, StartedJob
    <3>2. DOMAIN j.set = Keys /\ runs' \in 0 .. runs'
      BY <1>0, <2>2 DEF JobType
    <3> QED BY <3>1, <3>2 DEF JobType
  <2>5. \A i \in jobs \cup prev \cup loaded : JobType(i)'
    BY <1>0, <2>2, JobTypeKept
  <2>6. \A i \in jobs' \cup prev' \cup loaded' : JobType(i)'
    BY <2>3, <2>4, <2>5 DEF loaderVars
  <2> QED BY <2>2, <2>3, <2>6 DEF loaderVars, Types
<1>7. ASSUME NEW f \in Paths, Edit(f) PROVE Types'
  <2>1. \A g \in Paths : disk'[g] \in Contents[g]
    BY <1>7 DEF Edit, Types
  <2> QED BY <1>7, <2>1 DEF Edit, loaderVars, Types, JobType
<1> QED BY <1>1, <1>2, <1>3, <1>4, <1>5, <1>6, <1>7 DEF Next

LEMMA CfgKnownStep ==
  ASSUME ConfigInv, [Next]_vars
  PROVE  CfgKnown'
<1> USE DEF ConfigInv
<1>1. CASE ReadFile
  <2>1. Head(cfgFiles) \in Paths
    BY <1>1 DEF ReadFile, Types
  <2> QED BY <1>1, <2>1 DEF ReadFile, Types, CfgKnown
<1>2. CASE ~ReadFile
  <2>1. cfg' = cfg \/ cfg' = Empty
    BY <1>2 DEF Next, vars, loaderVars, StartLoad, LoadSection, FinishLoad, StartJob, Edit
  <2> QED BY <2>1 DEF CfgKnown
<1> QED BY <1>1, <1>2

LEMMA NamesUniqueStep ==
  ASSUME ConfigInv, [Next]_vars
  PROVE  NamesUnique'
<1> USE DEF ConfigInv
<1>1. /\ \A i, j \in jobs : i.name = j.name => i = j
      /\ \A i, j \in loaded : i.name = j.name => i = j
      /\ \A j \in loaded : j.name \in seen
  BY DEF NamesUnique, Types
<1>2. ASSUME NEW n \in sections, LoadSection(n), loaded' # loaded PROVE NamesUnique'
  <2>1. PICK new : new = [name |-> n, exec |-> ExecTime(n), set |-> Settings(n)]
    OBVIOUS
  <2>2. new.name = n /\ loaded' = loaded \cup {new} /\ n \notin seen /\ jobs' = jobs
    BY <1>2, <2>1 DEF LoadSection, Met
  <2> QED BY <1>1, <2>2 DEF NamesUnique
<1>3. ASSUME NEW j \in jobs, StartJob(j) PROVE NamesUnique'
  <2>1. PICK again : again = [j EXCEPT !.exec = runs']
    OBVIOUS
  <2>2. again.name = j.name /\ jobs' = (jobs \ {j}) \cup {again} /\ loaded' = loaded
    BY <1>3, <2>1, StartedJob DEF StartJob, Types, loaderVars
  <2> QED BY <1>1, <2>2 DEF NamesUnique
<1>4. CASE jobs' \in {jobs, loaded} /\ loaded' \in {loaded, {}}
  BY <1>1, <1>4 DEF NamesUnique
<1> QED
  BY <1>2, <1>3, <1>4
  DEF Next, vars, loaderVars, StartLoad, ReadFile, LoadSection, FinishLoad, Edit

LEMMA ConfigInvHolds == Spec => []ConfigInv
<1>1. ConfigInv /\ [Next]_vars => ConfigInv'
  BY TypesStep, CfgKnownStep, NamesUniqueStep DEF ConfigInv
<1> QED BY <1>1, ConfigInvInit, PTL DEF Spec

(* No two jobs have the same name, whatever the files say and whenever     *)
(* they are edited.                                                        *)
THEOREM NamesAreUnique == Spec => []NamesUnique
BY ConfigInvHolds, PTL DEF ConfigInv

-----------------------------------------------------------------------------
(* Settings.                                                               *)

(* What a value says of a field, by the kind of its key.                   *)
LEMMA FieldOf ==
  ASSUME NEW n, NEW v
  PROVE  /\ \A k \in Wildcards : Field(n, k, v) = IF v = {"*"} THEN AllSections \ {n} ELSE v
         /\ \A k \in Flags : Field(n, k, v) = v \cap {"1"}
BY DEF Field, Flags, Wildcards

(* * in a list stands alone, as README:273 and README:289 write it: the    *)
(* loader compares the whole value with it, and beside other names takes   *)
(* it for the name of a job.                                               *)
StarsAlone ==
  \A f \in Paths : \A c \in Contents[f] : \A s \in DOMAIN c :
    \A k \in Wildcards \cap DOMAIN c[s] : "*" \in c[s][k] => c[s][k] = {"*"}

(* The wildcard of a list is expanded, wherever it comes from.             *)
LEMMA StarExpanded ==
  ASSUME StarsAlone, CfgKnown, NEW n \in DOMAIN cfg, NEW k \in Wildcards
  PROVE  "*" \notin Settings(n)[k]
<1>1. k \in Keys /\ k \notin {"user", "group"}
  BY DEF Keys, Wildcards
<1>2. PICK f \in Paths : cfg \in Contents[f]
  BY DEF CfgKnown, Empty
<1>3. ASSUME NEW s \in DOMAIN cfg, k \in DOMAIN cfg[s]
      PROVE  "*" \notin Field(n, k, cfg[s][k])
  <2>1. "*" \in cfg[s][k] => cfg[s][k] = {"*"}
    BY <1>2, <1>3 DEF StarsAlone
  <2>2. "*" \notin AllSections
    BY DEF AllSections
  <2> QED BY <2>1, <2>2, FieldOf
<1>4. CASE Counts(n, k)
  <2>1. Settings(n)[k] = Field(n, k, cfg[n][k])
    BY <1>1, <1>4 DEF Settings
  <2>2. k \in DOMAIN cfg[n]
    BY <1>4 DEF Counts
  <2> QED BY <1>3, <2>1, <2>2
<1>5. CASE ~Counts(n, k)
  <2>1. Settings(n)[k] = WithDefaults(n)[k]
    BY <1>1, <1>5 DEF Settings
  <2>2. CASE k \in DOMAIN Defaults
    <3>1. "*" \in DOMAIN cfg /\ k \in DOMAIN cfg["*"] /\ Defaults[k] = cfg["*"][k]
      BY <2>2 DEF Defaults, Empty
    <3> QED BY <1>1, <1>3, <2>1, <2>2, <3>1 DEF WithDefaults
  <2>3. CASE k \notin DOMAIN Defaults
    BY <1>1, <2>1, <2>3 DEF WithDefaults, Builtin
  <2> QED BY <2>2, <2>3
<1> QED BY <1>4, <1>5

NoStars ==
  \A j \in jobs \cup prev \cup loaded : \A k \in Wildcards : "*" \notin j.set[k]

LEMMA NoStarsStep ==
  ASSUME StarsAlone, ConfigInv, NoStars, [Next]_vars
  PROVE  NoStars'
<1>1. ASSUME NEW n \in sections, LoadSection(n) PROVE NoStars'
  <2>1. PICK new : new = [name |-> n, exec |-> ExecTime(n), set |-> Settings(n)]
    OBVIOUS
  <2>2. \A k \in Wildcards : "*" \notin new.set[k]
    BY <2>1, StarExpanded DEF ConfigInv, Types
  <2>3. loaded' \in {loaded, loaded \cup {new}} /\ UNCHANGED <<jobs, prev>>
    BY <1>1, <2>1 DEF LoadSection
  <2> QED BY <2>2, <2>3 DEF NoStars
<1>2. ASSUME NEW j \in jobs, StartJob(j) PROVE NoStars'
  <2>1. PICK again : again = [j EXCEPT !.exec = runs']
    OBVIOUS
  <2>2. /\ again.set = j.set /\ jobs' = (jobs \ {j}) \cup {again}
        /\ UNCHANGED <<prev, loaded>>
    BY <1>2, <2>1, StartedJob DEF StartJob, ConfigInv, Types, loaderVars
  <2> QED BY <2>2 DEF NoStars
<1>3. CASE /\ jobs' \in {jobs, loaded} /\ prev' \in {prev, jobs}
           /\ loaded' \in {loaded, {}}
  BY <1>3 DEF NoStars
<1> QED
  BY <1>1, <1>2, <1>3
  DEF Next, vars, loaderVars, StartLoad, ReadFile, FinishLoad, Edit

(* The loader's state has its types, and no list of a job names [*], the   *)
(* section of defaults, from whichever section its wildcard was taken.     *)
THEOREM ConfigTypeCorrect ==
  ASSUME StarsAlone
  PROVE  Spec => []TypeOK
<1>1. Init => NoStars
  BY DEF Init, NoStars
<1>2. ConfigInv /\ NoStars /\ [Next]_vars => NoStars'
  BY NoStarsStep
<1>3. ConfigInv /\ NoStars => TypeOK
  BY DEF ConfigInv, Types, JobType, NoStars, TypeOK
<1> QED BY <1>1, <1>2, <1>3, ConfigInvHolds, PTL DEF Spec

-----------------------------------------------------------------------------
(* What a section means: apply_field_from_str() and apply_ini_section() do *)
(* what Loader.tla says.                                                   *)

LEMMA FieldIsMeant ==
  ASSUME NEW n, NEW k, NEW v
  PROVE  Abstract!Meant(cfg, n, k, v) = Field(n, k, v)
<1>1. DOMAIN cfg \ {"*", n} = AllSections \ {n}
  BY DEF AllSections
<1> QED BY <1>1 DEF Abstract!Meant, Field

(* A setting that says something, and one that does not.                   *)
Applies(section, n, k) ==
  /\ section \in DOMAIN cfg /\ k \in DOMAIN cfg[section]
  /\ \/ k \in Flags /\ section = n
     \/ k \in Wildcards /\ Field(n, k, cfg[section][k]) # {}
     \/ k \notin Wildcards /\ cfg[section][k] # {}

LEMMA SaysIs ==
  ASSUME NEW section, NEW n, NEW k
  PROVE  Abstract!Says(cfg, section, n, k)
           = IF Applies(section, n, k) THEN {Field(n, k, cfg[section][k])} ELSE {}
<1>1. CASE section \notin DOMAIN cfg
  BY <1>1 DEF Abstract!Says, Applies
<1>2. CASE section \in DOMAIN cfg /\ k \notin DOMAIN cfg[section]
  BY <1>2 DEF Abstract!Says, Applies
<1>3. CASE section \in DOMAIN cfg /\ k \in DOMAIN cfg[section]
  <2>1. {cfg[section][i] : i \in DOMAIN cfg[section] \cap {k}} = {cfg[section][k]}
    BY <1>3
  <2>2. Abstract!Meant(cfg, n, k, cfg[section][k]) = Field(n, k, cfg[section][k])
    BY FieldIsMeant
  <2> QED BY <1>3, <2>1, <2>2 DEF Abstract!Says, Applies
<1> QED BY <1>1, <1>2, <1>3

LEMMA SettingsMeant ==
  ASSUME NEW n \in DOMAIN cfg, n # "*"
  PROVE  Settings(n) = [k \in DOMAIN Builtin |-> Abstract!Setting(cfg, n, k)]
<1>0. DOMAIN Builtin = Keys
  BY DEF Builtin
<1> SUFFICES ASSUME NEW k \in Keys PROVE Settings(n)[k] = Abstract!Setting(cfg, n, k)
  BY <1>0 DEF Settings
<1>1. Counts(n, k) <=> Applies(n, n, k)
  BY DEF Counts, Applies
<1>2. CASE Applies(n, n, k)
  <2>1. Abstract!Says(cfg, n, n, k) = {Field(n, k, cfg[n][k])}
    BY <1>2, SaysIs
  <2>2. Abstract!Setting(cfg, n, k) = Field(n, k, cfg[n][k])
    BY <2>1 DEF Abstract!Setting
  <2> QED BY <1>1, <1>2, <2>2 DEF Settings
<1>3. CASE ~Applies(n, n, k)
  <2>0. Settings(n)[k] = WithDefaults(n)[k] /\ Abstract!Says(cfg, n, n, k) = {}
    BY <1>1, <1>3, SaysIs DEF Settings
  <2>1. CASE Applies("*", n, k)
    <3>1. Abstract!Says(cfg, "*", n, k) = {Field(n, k, cfg["*"][k])}
      BY <2>1, SaysIs
    <3>2. Abstract!Setting(cfg, n, k) = Field(n, k, cfg["*"][k])
      BY <2>0, <3>1 DEF Abstract!Setting
    <3>3. cfg["*"][k] # {}
      BY <2>1, FieldOf DEF Applies, Wildcards, Flags
    <3>4. k \in DOMAIN Defaults /\ Defaults[k] = cfg["*"][k]
      BY <2>1, <3>3 DEF Applies, Defaults
    <3> QED BY <2>0, <3>2, <3>4 DEF WithDefaults
  <2>2. CASE ~Applies("*", n, k)
    <3>1. Abstract!Says(cfg, "*", n, k) = {}
      BY <2>2, SaysIs
    <3>2. Abstract!Setting(cfg, n, k) = Builtin[k]
      BY <2>0, <3>1 DEF Abstract!Setting
    <3>3. ASSUME k \in DOMAIN Defaults PROVE Field(n, k, Defaults[k]) = Builtin[k]
      <4>1. /\ "*" \in DOMAIN cfg /\ k \in DOMAIN cfg["*"]
            /\ Defaults[k] = cfg["*"][k] /\ cfg["*"][k] # {}
        BY <3>3 DEF Defaults, Empty
      <4>2. k \in Wildcards /\ Field(n, k, cfg["*"][k]) = {}
        BY <2>2, <4>1 DEF Applies
      <4>3. Builtin[k] = {}
        BY <4>2 DEF Builtin, Wildcards
      <4> QED BY <4>1, <4>2, <4>3
    <3> QED BY <2>0, <3>2, <3>3 DEF WithDefaults
  <2> QED BY <2>1, <2>2
<1> QED BY <1>2, <1>3

-----------------------------------------------------------------------------
(* A load reads one content of each file.                                  *)

(* The files read so far, and the first of all that has section n.         *)
FilesRead == Len(Files) - Len(cfgFiles)
IsFirst(snap, n, i) == /\ i \in DOMAIN Files /\ n \in DOMAIN snap[i]
                       /\ \A h \in 1 .. (i - 1) : n \notin DOMAIN snap[h]
FilesDiffer == \A i, h \in DOMAIN Files : Files[i] = Files[h] => i = h

(* The content of each file that a load in progress has read or may read:  *)
(* which names were met, and what was made of them.                        *)
Reading(snap) ==
  /\ snap \in Abstract!Snapshots
  /\ Len(cfgFiles) <= Len(Files)
  /\ \A i \in 1 .. Len(cfgFiles) : cfgFiles[i] = Files[FilesRead + i]
  /\ FilesRead = 0 => cfg = Empty
  /\ FilesRead # 0 => cfg = snap[FilesRead]
  /\ \A i \in 1 .. FilesRead : \A n \in DOMAIN snap[i] \ {"*"} :
       n \in seen \/ (i = FilesRead /\ n \in sections)
  /\ \A n \in seen : n # "*" /\ \E i \in 1 .. FilesRead : IsFirst(snap, n, i)
  /\ "*" \notin sections
  /\ prev = jobs
  /\ DOMAIN readAs = Paths
  /\ loaded = {j \in {Abstract!Job(snap, n) : n \in seen} : IsExecutable(j.set["cmdline"])}
  /\ FilesDiffer => \A i \in 1 .. FilesRead : readAs[Files[i]] = snap[i]

LEMMA FirstIs ==
  ASSUME NEW snap, NEW n, NEW i, IsFirst(snap, n, i)
  PROVE  Abstract!First(snap, n) = i
<1> DEFINE H == Abstract!Having(snap, n)
<1>0. DOMAIN Files = 1 .. Len(Files) /\ Len(Files) \in Nat
  BY ConfigAssumption
<1>1. i \in H /\ H \subseteq 1 .. Len(Files)
  BY <1>0 DEF IsFirst, Abstract!Having
<1>2. \A g \in H : i <= g
  BY <1>0 DEF IsFirst, Abstract!Having
<1>3. \A f \in H : (\A g \in H : f <= g) => f = i
  BY <1>0, <1>1, <1>2
<1> HIDE DEF H
<1>4. (CHOOSE f \in H : \A g \in H : f <= g) = i
  BY <1>1, <1>2, <1>3
<1> QED BY <1>4 DEF Abstract!First, H

(* What a load that starts has read.                                       *)
Readable == \E snap : Reading(snap)
JustStarted == /\ Types
               /\ cfgFiles = Files /\ cfg = Empty
               /\ sections = {} /\ seen = {} /\ loaded = {}
               /\ prev = jobs
               /\ DOMAIN readAs = Paths

LEMMA NothingRead == JustStarted => Readable
<1> SUFFICES ASSUME JustStarted PROVE \E snap : Reading(snap)
  BY DEF Readable
<1> USE DEF JustStarted
<1>1. DOMAIN Files = 1 .. Len(Files) /\ Len(Files) \in Nat
  BY ConfigAssumption
<1> DEFINE snap == [i \in DOMAIN Files |-> disk[Files[i]]]
<1>2. snap \in Abstract!Snapshots
  <2>1. \A i \in DOMAIN Files : disk[Files[i]] \in Contents[Files[i]]
    BY DEF Types, Paths
  <2> QED BY <2>1 DEF Abstract!Snapshots
<1> HIDE DEF snap
<1>3. FilesRead = 0
  BY <1>1 DEF FilesRead
<1>4. Reading(snap)
  BY <1>1, <1>2, <1>3 DEF Reading
<1> QED BY <1>4

LEMMA ReadFileReads ==
  ASSUME Types, NEW snap, Reading(snap), ReadFile
  PROVE  \E next : Reading(next)'
<1> DEFINE r == FilesRead
           f == Files[r + 1]
<1>0. PICK next : next = [snap EXCEPT ![r + 1] = disk[f]]
  OBVIOUS
<1>1. /\ DOMAIN Files = 1 .. Len(Files) /\ Len(Files) \in Nat
      /\ cfgFiles \in Seq(Paths) /\ Len(cfgFiles) \in Nat /\ cfgFiles # <<>>
      /\ Len(cfgFiles) <= Len(Files) /\ sections = {}
  BY ConfigAssumption DEF Types, ReadFile, Reading
<1>2. /\ cfgFiles' = Tail(cfgFiles) /\ cfg' = disk[Head(cfgFiles)]
      /\ sections' = DOMAIN disk[Head(cfgFiles)] \ {"*"}
      /\ readAs' = [readAs EXCEPT ![Head(cfgFiles)] = disk[Head(cfgFiles)]]
      /\ UNCHANGED <<jobs, prev, seen, loaded>>
  BY DEF ReadFile
<1>3. /\ Len(cfgFiles') = Len(cfgFiles) - 1 /\ Len(cfgFiles') \in Nat
      /\ r \in Nat /\ r + 1 \in 1 .. Len(Files)
      /\ \A i \in 1 .. Len(cfgFiles') : cfgFiles'[i] = cfgFiles[i + 1]
  BY <1>1, <1>2 DEF FilesRead
<1>4. FilesRead' = r + 1
  BY <1>1, <1>3 DEF FilesRead
<1>5. Head(cfgFiles) = f /\ f \in Paths
  BY <1>1, <1>3 DEF Reading, Paths
<1>6. /\ snap \in [DOMAIN Files -> UNION {Contents[Files[i]] : i \in DOMAIN Files}]
      /\ \A i \in DOMAIN Files : snap[i] \in Contents[Files[i]]
  BY DEF Reading, Abstract!Snapshots
<1>7. \A i \in DOMAIN Files : next[i] = IF i = r + 1 THEN disk[f] ELSE snap[i]
  BY <1>0, <1>6
<1>8. next \in Abstract!Snapshots
  <2>1. disk[f] \in Contents[f]
    BY <1>5 DEF Types
  <2> QED BY <1>0, <1>1, <1>3, <1>6, <2>1 DEF Abstract!Snapshots
<1> HIDE DEF f
<1>9. \A i \in 1 .. Len(cfgFiles') : cfgFiles'[i] = Files[(r + 1) + i]
  <2> SUFFICES ASSUME NEW i \in 1 .. Len(cfgFiles') PROVE cfgFiles'[i] = Files[(r + 1) + i]
    OBVIOUS
  <2>1. i + 1 \in 1 .. Len(cfgFiles) /\ r + (i + 1) = (r + 1) + i
    BY <1>1, <1>3
  <2>2. cfgFiles[i + 1] = Files[r + (i + 1)]
    BY <2>1 DEF Reading
  <2> QED BY <1>3, <2>1, <2>2
<1>10. \A i \in 1 .. r : i \in DOMAIN Files /\ i # r + 1 /\ next[i] = snap[i]
  BY <1>1, <1>3, <1>7
<1> HIDE DEF r
<1>11. ASSUME NEW i \in 1 .. r + 1, NEW n \in DOMAIN next[i] \ {"*"}
       PROVE  n \in seen \/ (i = r + 1 /\ n \in sections')
  <2>1. CASE i = r + 1
    BY <1>1, <1>2, <1>3, <1>5, <1>7, <1>11, <2>1
  <2>2. CASE i # r + 1
    <3>1. i \in 1 .. r
      BY <1>3, <2>2
    <3> QED BY <1>1, <1>10, <1>11, <3>1 DEF Reading, r
  <2> QED BY <2>1, <2>2
<1>12. ASSUME NEW n \in seen
       PROVE  n # "*" /\ \E i \in 1 .. r + 1 : IsFirst(next, n, i) /\ IsFirst(snap, n, i)
  <2>1. PICK i \in 1 .. r : IsFirst(snap, n, i)
    BY DEF Reading, r
  <2>2. \A h \in 1 .. (i - 1) : h \in 1 .. r
    BY <1>3, <2>1
  <2>3. IsFirst(next, n, i)
    BY <1>10, <2>1, <2>2 DEF IsFirst
  <2>4. i \in 1 .. r + 1
    BY <1>3
  <2> QED BY <2>1, <2>3, <2>4 DEF Reading
<1>13. ASSUME NEW n \in seen PROVE Abstract!Job(next, n) = Abstract!Job(snap, n)
  <2>1. PICK i \in 1 .. r : IsFirst(snap, n, i)
    BY DEF Reading, r
  <2>2. \A h \in 1 .. (i - 1) : h \in 1 .. r
    BY <1>3, <2>1
  <2>3. IsFirst(next, n, i)
    BY <1>10, <2>1, <2>2 DEF IsFirst
  <2>4. next[Abstract!First(next, n)] = snap[Abstract!First(snap, n)]
    BY <1>10, <2>1, <2>3, FirstIs
  <2> QED BY <2>4 DEF Abstract!Job
<1>14. ASSUME NEW n PROVE Abstract!Job(next, n)' = Abstract!Job(next, n)
  BY <1>2 DEF Abstract!Job, Abstract!LastStart
<1>15. loaded' = {j \in {Abstract!Job(next, n)' : n \in seen'} : IsExecutable(j.set["cmdline"])}
  <2>1. loaded = {j \in {Abstract!Job(snap, n) : n \in seen} : IsExecutable(j.set["cmdline"])}
    BY DEF Reading
  <2> QED BY <1>2, <1>13, <1>14, <2>1
<1>16. ASSUME FilesDiffer, NEW i \in 1 .. r + 1 PROVE readAs'[Files[i]] = next[i]
  <2>1. DOMAIN readAs = Paths /\ readAs' = [readAs EXCEPT ![f] = disk[f]]
    BY <1>2, <1>5 DEF Reading
  <2>2. CASE i = r + 1
    BY <1>3, <1>1, <1>5, <1>7, <2>1, <2>2 DEF f
  <2>3. CASE i # r + 1
    <3>1. i \in 1 .. r
      BY <1>3, <2>3
    <3>2. Files[i] # f /\ Files[i] \in Paths
      BY <1>1, <1>3, <1>10, <1>16, <3>1 DEF FilesDiffer, f, Paths
    <3>3. readAs[Files[i]] = snap[i]
      BY <1>16, <3>1 DEF Reading, r
    <3> QED BY <1>10, <2>1, <3>1, <3>2, <3>3
  <2> QED BY <2>2, <2>3
<1>17. DOMAIN readAs' = Paths
  BY <1>2 DEF Reading
<1>18. cfg' = next[r + 1]
  BY <1>1, <1>2, <1>3, <1>5, <1>7
<1>19. Reading(next)'
  <2>1. next \in Abstract!Snapshots' /\ Len(cfgFiles') <= Len(Files)
    BY <1>1, <1>3, <1>8 DEF Abstract!Snapshots
  <2>2. \A n \in seen' : n # "*" /\ \E i \in 1 .. FilesRead' : IsFirst(next, n, i)
    BY <1>2, <1>4, <1>12
  <2>3. "*" \notin sections' /\ prev' = jobs' /\ (FilesRead')  # 0
    BY <1>2, <1>3, <1>4 DEF Reading
  <2> QED
    BY <1>2, <1>4, <1>9, <1>11, <1>15, <1>16, <1>17, <1>18, <2>1, <2>2, <2>3
    DEF Reading, IsFirst
<1> QED BY <1>19

LEMMA SectionReads ==
  ASSUME Types, NEW snap, Reading(snap), NEW n \in sections, LoadSection(n)
  PROVE  Reading(snap)'
<1> DEFINE r == FilesRead
           new == [name |-> n, exec |-> ExecTime(n), set |-> Settings(n)]
<1>1. /\ DOMAIN Files = 1 .. Len(Files) /\ Len(Files) \in Nat
      /\ Len(cfgFiles) \in Nat /\ Len(cfgFiles) <= Len(Files)
  BY ConfigAssumption DEF Types, Reading
<1>2. /\ UNCHANGED <<disk, jobs, prev, cfgFiles, cfg, readAs>>
      /\ sections' = sections \ {n} /\ seen' = seen \cup {n}
  BY DEF LoadSection
<1>3. FilesRead' = r
  BY <1>2 DEF FilesRead
<1>4. n \in DOMAIN cfg /\ n # "*"
  BY DEF Types, Reading
<1>5. r \in 1 .. Len(Files) /\ cfg = snap[r]
  <2>1. r # 0
    BY <1>4 DEF Reading, Empty
  <2>2. r \in 1 .. Len(Files)
    BY <1>1, <2>1 DEF FilesRead
  <2>3. cfg = snap[r]
    BY <2>1 DEF Reading
  <2> QED BY <2>2, <2>3
<1> HIDE DEF r
<1>6. ASSUME n \notin seen PROVE IsFirst(snap, n, r)
  <2>1. ASSUME NEW h \in 1 .. (r - 1) PROVE n \notin DOMAIN snap[h]
    <3>1. h \in 1 .. r /\ h # r
      BY <1>5
    <3> QED BY <1>4, <1>6, <3>1 DEF Reading, r
  <2> QED BY <1>1, <1>4, <1>5, <2>1 DEF IsFirst
<1>7. ASSUME NEW m PROVE Abstract!Job(snap, m)' = Abstract!Job(snap, m)
  BY <1>2 DEF Abstract!Job, Abstract!LastStart
<1>8. ASSUME n \notin seen PROVE new = Abstract!Job(snap, n)
  <2>1. Abstract!First(snap, n) = r
    BY <1>6, <1>8, FirstIs
  <2>2. Abstract!LastStart(n) = ExecTime(n)
    BY DEF Abstract!LastStart, ExecTime, Reading
  <2>3. Settings(n) = [k \in DOMAIN Builtin |-> Abstract!Setting(cfg, n, k)]
    BY <1>4, SettingsMeant
  <2> QED BY <1>5, <2>1, <2>2, <2>3 DEF Abstract!Job
<1>9. loaded' = {j \in {Abstract!Job(snap, m)' : m \in seen'} : IsExecutable(j.set["cmdline"])}
  <2>1. loaded = {j \in {Abstract!Job(snap, m) : m \in seen} : IsExecutable(j.set["cmdline"])}
    BY DEF Reading
  <2>2. CASE n \in seen
    <3>1. seen' = seen /\ loaded' = loaded
      BY <1>2, <2>2 DEF LoadSection, Met
    <3>2. {Abstract!Job(snap, m)' : m \in seen'} = {Abstract!Job(snap, m) : m \in seen}
      BY <1>7, <3>1
    <3> QED BY <2>1, <3>1, <3>2
  <2>3. CASE n \notin seen
    <3>1. loaded' = IF IsExecutable(new.set["cmdline"]) THEN loaded \cup {new} ELSE loaded
      BY <2>3 DEF LoadSection, Met
    <3> HIDE DEF new
    <3> QED BY <1>2, <1>7, <1>8, <2>1, <2>3, <3>1
  <2> QED BY <2>2, <2>3
<1>10. ASSUME NEW m \in seen'
       PROVE  m # "*" /\ \E i \in 1 .. r : IsFirst(snap, m, i)
  <2>1. r \in 1 .. r
    BY <1>5
  <2> QED BY <1>2, <1>4, <1>6, <1>10, <2>1 DEF Reading, r
<1>11. ASSUME NEW i \in 1 .. r, NEW m \in DOMAIN snap[i] \ {"*"}
       PROVE  m \in seen' \/ (i = r /\ m \in sections')
  BY <1>2, <1>11 DEF Reading, r
<1> QED
  BY <1>2, <1>3, <1>9, <1>10, <1>11 DEF Reading, IsFirst, Abstract!Snapshots, r

(* The invariant of a load, whoever edits the files meanwhile.             *)
LoadInv == loading => Readable

LEMMA ReadingUnchanged ==
  ASSUME NEW snap, Reading(snap), UNCHANGED <<jobs, loaderVars>>
  PROVE  Reading(snap)'
BY DEF loaderVars, Reading, FilesRead, IsFirst, Abstract!Snapshots, Abstract!Job,
       Abstract!LastStart

LEMMA LoadInvStep ==
  ASSUME ConfigInv, LoadInv, [Next]_vars
  PROVE  LoadInv'
<1> USE DEF ConfigInv
<1>1. CASE StartLoad
  <2>1. JustStarted'
    BY <1>1, TypesStep DEF StartLoad, JustStarted
  <2>2. Readable'
    BY <2>1, NothingRead, PTL
  <2> QED BY <2>2 DEF LoadInv
<1>2. CASE ReadFile
  <2>1. PICK snap : Reading(snap)
    BY <1>2 DEF ReadFile, LoadInv, Readable
  <2>2. \E next : Reading(next)'
    BY <1>2, <2>1, ReadFileReads
  <2> QED BY <2>2 DEF LoadInv, Readable
<1>3. ASSUME NEW n \in sections, LoadSection(n) PROVE LoadInv'
  <2>1. PICK snap : Reading(snap)
    BY <1>3 DEF LoadSection, LoadInv, Readable
  <2>2. Reading(snap)'
    BY <1>3, <2>1, SectionReads
  <2> QED BY <2>2 DEF LoadInv, Readable
<1>4. CASE FinishLoad
  BY <1>4 DEF FinishLoad, LoadInv
<1>5. ASSUME NEW j \in jobs, StartJob(j) PROVE LoadInv'
  BY <1>5 DEF StartJob, loaderVars, LoadInv
<1>6. ASSUME UNCHANGED <<jobs, loaderVars>> PROVE LoadInv'
  BY <1>6, ReadingUnchanged DEF LoadInv, Readable, loaderVars
<1> QED BY <1>1, <1>2, <1>3, <1>4, <1>5, <1>6 DEF Next, vars, Edit

LEMMA LoadInvHolds == Spec => []LoadInv
<1>1. Init => LoadInv
  <2> SUFFICES ASSUME Init PROVE JustStarted
    BY NothingRead DEF LoadInv
  <2>1. Types
    BY ConfigInvInit DEF ConfigInv
  <2> QED BY <2>1 DEF Init, JustStarted
<1> QED BY <1>1, LoadInvStep, ConfigInvHolds, PTL DEF Spec

-----------------------------------------------------------------------------
(* A load is one step of Loader.tla.                                       *)

LEMMA ReadAll ==
  ASSUME Types, NEW snap, Reading(snap), FinishLoad
  PROVE  /\ FilesRead = Len(Files)
         /\ seen = Abstract!Sections(snap)
<1>1. /\ DOMAIN Files = 1 .. Len(Files) /\ Len(Files) \in Nat
      /\ sections = {} /\ Len(cfgFiles) = 0
  BY ConfigAssumption DEF FinishLoad
<1>2. FilesRead = Len(Files)
  BY <1>1 DEF FilesRead
<1>3. \A i \in DOMAIN Files : \A n \in DOMAIN snap[i] \ {"*"} : n \in seen
  BY <1>1, <1>2 DEF Reading
<1>4. \A n \in seen : n # "*" /\ \E i \in DOMAIN Files : n \in DOMAIN snap[i]
  BY <1>1, <1>2 DEF Reading, IsFirst
<1>5. seen = (UNION {DOMAIN snap[f] : f \in DOMAIN Files}) \ {"*"}
  BY <1>3, <1>4
<1> QED BY <1>2, <1>5 DEF Abstract!Sections

LEMMA FinishIsLoad ==
  ASSUME Types, LoadInv, FinishLoad
  PROVE  Abstract!Load
<1>1. PICK snap : Reading(snap)
  BY DEF FinishLoad, LoadInv, Readable
<1>2. jobs' = {j \in {Abstract!Job(snap, n) : n \in Abstract!Sections(snap)} :
                 IsExecutable(j.set["cmdline"])}
  BY <1>1, ReadAll DEF FinishLoad, Reading
<1>3. snap \in Abstract!Snapshots
  BY <1>1 DEF Reading
<1> QED BY <1>2, <1>3 DEF Abstract!Load, IsExecutable

LEMMA StartIsStart ==
  ASSUME Types, NEW j \in jobs, StartJob(j)
  PROVE  Abstract!Start
<1>1. /\ runs \in Nat /\ MaxRuns \in Nat /\ runs < MaxRuns /\ runs' = runs + 1
      /\ j.exec \in 0 .. runs
  BY ConfigAssumption DEF Types, JobType, StartJob
<1>2. runs' \in Times /\ runs' > j.exec
  BY <1>1 DEF Times
<1> QED BY <1>2 DEF StartJob, Abstract!Start

(* However the files are read, in whatever order their sections come and   *)
(* whoever edits them meanwhile, a load of load_config() is one step from  *)
(* one content of each file: the first file decides of a name, a job's own *)
(* section before [*], and the times of the last starts survive.           *)
THEOREM LoaderRefinement == Spec => ImplementsLoader
<1>1. Init => Abstract!Init
  BY DEF Init, Abstract!Init
<1>2. ConfigInv /\ LoadInv /\ [Next]_vars => [Abstract!Next]_jobs
  <2> SUFFICES ASSUME ConfigInv, LoadInv, [Next]_vars PROVE [Abstract!Next]_jobs
    OBVIOUS
  <2>1. CASE FinishLoad
    BY <2>1, FinishIsLoad DEF ConfigInv, Abstract!Next
  <2>2. ASSUME NEW j \in jobs, StartJob(j) PROVE Abstract!Next
    BY <2>2, StartIsStart DEF ConfigInv, Abstract!Next
  <2>3. CASE UNCHANGED jobs
    BY <2>3
  <2> QED
    BY <2>1, <2>2, <2>3
    DEF Next, vars, StartLoad, ReadFile, LoadSection, Edit
<1> QED
  BY <1>1, <1>2, ConfigInvHolds, LoadInvHolds, PTL
  DEF Spec, ImplementsLoader, Abstract!Spec

-----------------------------------------------------------------------------
(* The wildcard of a job's conflicts.                                      *)

(* The jobs are what the content of their file says, until the next load.  *)
SetFrom(j, i) ==
  /\ i \in DOMAIN Files /\ j.name \in DOMAIN readAs[Files[i]]
  /\ \A h \in 1 .. (i - 1) : j.name \notin DOMAIN readAs[Files[h]]
  /\ j.name # "*"
  /\ j.set["conflicts"] = Abstract!Setting(readAs[Files[i]], j.name, "conflicts")
Settled == ~loading => \A j \in jobs : \E i : SetFrom(j, i)

LEMMA LoadedIsSettled ==
  ASSUME Types, FilesDiffer, LoadInv, FinishLoad
  PROVE  Settled'
<1>1. PICK snap : Reading(snap)
  BY DEF FinishLoad, LoadInv, Readable
<1>2. /\ DOMAIN Files = 1 .. Len(Files) /\ Len(Files) \in Nat
      /\ FilesRead = Len(Files)
  BY <1>1, ReadAll, ConfigAssumption
<1>3. jobs' \subseteq {Abstract!Job(snap, n) : n \in seen} /\ readAs' = readAs
  BY <1>1 DEF FinishLoad, Reading
<1>4. \A i \in DOMAIN Files : readAs[Files[i]] = snap[i]
  BY <1>1, <1>2 DEF Reading
<1>5. ASSUME NEW j \in jobs' PROVE \E i : SetFrom(j, i)'
  <2>1. PICK n \in seen : j = Abstract!Job(snap, n)
    BY <1>3, <1>5
  <2>2. PICK i \in 1 .. Len(Files) : IsFirst(snap, n, i)
    BY <1>1, <1>2 DEF Reading
  <2>3. j.name = n /\ n # "*"
    BY <1>1, <2>1 DEF Abstract!Job, Reading
  <2>4. "conflicts" \in DOMAIN Builtin
    BY DEF Builtin, Keys, Wildcards
  <2>5. j.set["conflicts"] = Abstract!Setting(snap[i], n, "conflicts")
    BY <2>1, <2>2, <2>4, FirstIs DEF Abstract!Job
  <2>6. \A h \in 1 .. (i - 1) : h \in DOMAIN Files
    BY <1>2, <2>2
  <2>7. SetFrom(j, i)'
    BY <1>2, <1>3, <1>4, <2>2, <2>3, <2>5, <2>6 DEF SetFrom, IsFirst
  <2> QED BY <2>7
<1> QED BY <1>5 DEF Settled

LEMMA SettledStep ==
  ASSUME ConfigInv, LoadInv, FilesDiffer, Settled, [Next]_vars
  PROVE  Settled'
<1> USE DEF ConfigInv
<1>1. CASE FinishLoad
  BY <1>1, LoadedIsSettled
<1>2. ASSUME NEW j \in jobs, StartJob(j) PROVE Settled'
  <2>1. PICK again : again = [j EXCEPT !.exec = runs']
    OBVIOUS
  <2>2. /\ again.name = j.name /\ again.set = j.set
        /\ jobs' = (jobs \ {j}) \cup {again} /\ readAs' = readAs /\ ~loading
    BY <1>2, <2>1, StartedJob DEF StartJob, Types, loaderVars
  <2>3. \A i : SetFrom(j, i) => SetFrom(again, i)'
    BY <2>2 DEF SetFrom
  <2>4. \A k \in jobs : \A i : SetFrom(k, i) => SetFrom(k, i)'
    BY <2>2 DEF SetFrom
  <2> QED BY <2>2, <2>3, <2>4 DEF Settled
<1>3. CASE UNCHANGED <<jobs, loading, readAs>>
  BY <1>3 DEF Settled, SetFrom
<1>4. CASE loading'
  BY <1>4 DEF Settled
<1> QED
  BY <1>1, <1>2, <1>3, <1>4
  DEF Next, vars, loaderVars, StartLoad, ReadFile, LoadSection, Edit

LEMMA FromIs ==
  ASSUME NEW j, NEW i, SetFrom(j, i)
  PROVE  From(j.name) = readAs[Files[i]]
<1> DEFINE Here(h) == /\ j.name \in DOMAIN readAs[Files[h]]
                      /\ \A g \in 1 .. (h - 1) : j.name \notin DOMAIN readAs[Files[g]]
<1>1. DOMAIN Files = 1 .. Len(Files) /\ Len(Files) \in Nat
  BY ConfigAssumption
<1>2. i \in DOMAIN Files /\ Here(i)
  BY DEF SetFrom
<1>3. ASSUME NEW h \in DOMAIN Files, Here(h) PROVE h = i
  <2>1. ~(h \in 1 .. (i - 1)) /\ ~(i \in 1 .. (h - 1))
    BY <1>2, <1>3
  <2> QED BY <1>1, <1>2, <2>1
<1>4. (CHOOSE h \in DOMAIN Files : Here(h)) = i
  <2> HIDE DEF Here
  <2> QED BY <1>2, <1>3
<1> QED BY <1>4 DEF From

(* A list that is * is every other section of the file, own or default.    *)
LEMMA StarMeansAll ==
  ASSUME NEW c, NEW n \in DOMAIN c, n # "*", NEW m \in DOMAIN c \ {"*", n},
         LET Value(s) == IF s \in DOMAIN c /\ "conflicts" \in DOMAIN c[s]
                         THEN c[s]["conflicts"] ELSE {}
         IN Value(n) = {"*"} \/ (Value(n) = {} /\ Value("*") = {"*"})
  PROVE  m \in Abstract!Setting(c, n, "conflicts")
<1> DEFINE all == DOMAIN c \ {"*", n}
           Lines(s) == {c[s][i] : i \in DOMAIN c[s] \cap {"conflicts"}}
<1>1. "conflicts" \in Wildcards /\ "conflicts" \notin Flags
  BY DEF Wildcards, Flags
<1>2. Abstract!Meant(c, n, "conflicts", {"*"}) = all
  BY <1>1 DEF Abstract!Meant
<1>3. Abstract!Meant(c, n, "conflicts", {}) = {}
  BY <1>1 DEF Abstract!Meant
<1>4. ASSUME NEW s \in DOMAIN c, "conflicts" \in DOMAIN c[s], c[s]["conflicts"] = {"*"}
      PROVE  Abstract!Says(c, s, n, "conflicts") = {all}
  <2>1. Lines(s) = {{"*"}}
    BY <1>4
  <2>2. all # {}
    OBVIOUS
  <2> HIDE DEF all
  <2>3. {v \in Lines(s) : \/ "conflicts" \in Flags /\ s = n
                          \/ "conflicts" \in Wildcards
                               /\ Abstract!Meant(c, n, "conflicts", v) # {}
                          \/ "conflicts" \notin Wildcards /\ v # {}} = {{"*"}}
    BY <1>1, <1>2, <2>1, <2>2
  <2> QED BY <1>2, <2>3 DEF Abstract!Says
<1>5. CASE "conflicts" \in DOMAIN c[n] /\ c[n]["conflicts"] = {"*"}
  <2>1. Abstract!Says(c, n, n, "conflicts") = {all}
    BY <1>4, <1>5
  <2>2. Abstract!Setting(c, n, "conflicts") = all
    <3> HIDE DEF all
    <3> QED BY <2>1 DEF Abstract!Setting
  <2> QED BY <2>2
<1>6. CASE /\ "conflicts" \in DOMAIN c[n] => c[n]["conflicts"] = {}
           /\ "*" \in DOMAIN c /\ "conflicts" \in DOMAIN c["*"]
           /\ c["*"]["conflicts"] = {"*"}
  <2>1. Abstract!Says(c, "*", n, "conflicts") = {all}
    BY <1>4, <1>6
  <2>2. Abstract!Says(c, n, n, "conflicts") = {}
    <3>1. \A v \in Lines(n) : v = {}
      BY <1>6
    <3> QED BY <1>1, <1>3, <3>1 DEF Abstract!Says
  <2>3. Abstract!Setting(c, n, "conflicts") = all
    <3> HIDE DEF all
    <3> QED BY <2>1, <2>2 DEF Abstract!Setting
  <2> QED BY <2>3
<1> QED BY <1>5, <1>6

LEMMA SettledLists ==
  ASSUME NamesUnique, Settled
  PROVE  WildcardListsAll
<1> SUFFICES ASSUME ~loading, NEW i \in jobs, NEW j \in jobs,
                    i # j, From(i.name) = From(j.name),
                    \/ SaysOf(i.name, i.name, "conflicts") = {"*"}
                    \/ /\ SaysOf(i.name, i.name, "conflicts") = {}
                       /\ SaysOf(i.name, "*", "conflicts") = {"*"}
             PROVE  j.name \in i.set["conflicts"]
  BY DEF WildcardListsAll
<1>1. PICK f : SetFrom(i, f)
  BY DEF Settled
<1>2. PICK g : SetFrom(j, g)
  BY DEF Settled
<1>3. From(i.name) = readAs[Files[f]] /\ From(j.name) = readAs[Files[g]]
  BY <1>1, <1>2, FromIs
<1>4. PICK c : c = From(i.name)
  OBVIOUS
<1>5. /\ i.name \in DOMAIN c /\ i.name # "*"
      /\ j.name \in DOMAIN c /\ j.name # "*" /\ j.name # i.name
      /\ i.set["conflicts"] = Abstract!Setting(c, i.name, "conflicts")
  BY <1>1, <1>2, <1>3, <1>4 DEF SetFrom, NamesUnique
<1> QED BY <1>4, <1>5, StarMeansAll DEF SaysOf

(* A job with conflicts = * lists every other job of its file, whichever   *)
(* was loaded first, whatever [*] says and whoever edits the file while it *)
(* is read; if no file is named twice, which --conf-file inside            *)
(* --config-dir would do.                                                  *)
THEOREM WildcardsComplete ==
  ASSUME FilesDiffer
  PROVE  Spec => []WildcardListsAll
<1>1. Init => Settled
  BY DEF Init, Settled
<1>2. ConfigInv /\ LoadInv /\ Settled /\ [Next]_vars => Settled'
  BY SettledStep
<1>3. ConfigInv /\ Settled => WildcardListsAll
  BY SettledLists DEF ConfigInv
<1> QED BY <1>1, <1>2, <1>3, ConfigInvHolds, LoadInvHolds, PTL DEF Spec
=============================================================================
