------------------------------ MODULE FileWatch ------------------------------
(***************************************************************************)
(* The file watcher: src/inotify_watch.rs and setup_inotify_watches() of   *)
(* src/main.rs, between the file system and the triggers of start_jobs().  *)
(*                                                                         *)
(* A path is a sequence of pieces of text. One that continues the text of  *)
(* another one is below it only if the next piece begins with a slash:     *)
(* <<"/a", "/b">> is in directory <<"/a">>, <<"/a", "2">> is beside it.     *)
(*                                                                         *)
(* The kernel and the notify crate are external: a watch belongs to the    *)
(* object a path named when it was set, is lost with that object, and      *)
(* reports changes of it and, for a directory, of what is directly in it.  *)
(***************************************************************************)
EXTENDS Naturals, Sequences, FiniteSets, SequencesExt

CONSTANTS
  Jobs,         \* names of jobs
  Configs,      \* configurations
  Watch,        \* Watch[c][j]: the paths job j watches under configuration c
  Nodes,        \* files and directories, as paths without links
  Dir,          \* Dir[n]: the directory a node is in, NoNode if none is watched
  NoNode,
  NoRoot,       \* an absent entry of a map of watches
  Real,         \* Real[r]: the node a watched path leads to, links resolved
  Late,         \* nodes that need not exist when the daemon starts
  Replaceable,  \* nodes that may be removed, or replaced by a rename
  Backends,     \* "given": events carry the path as it was given to watch(),
                \* as inotify's do; "real": without links, as on macOS
  MaxChanges    \* bound on the changes of files

Roots == UNION {Watch[c][j] : c \in Configs, j \in Jobs}
RootsOf(c) == UNION {Watch[c][j] : j \in Jobs}

ASSUME WatchAssumption ==
  /\ Watch \in [Configs -> [Jobs -> SUBSET Roots]]
  /\ \A p \in Roots \cup Nodes : p \in Seq(STRING)
  /\ Real \in [Roots -> Nodes]
  /\ Dir \in [Nodes -> Nodes \cup {NoNode}]
  /\ \A n \in Nodes : Dir[n] # NoNode => IsStrictPrefix(Dir[n], n)
  /\ NoNode \notin Nodes
  /\ NoRoot \notin Roots
  /\ Late \subseteq Nodes
  /\ Replaceable \subseteq Nodes
  /\ Backends \subseteq {"given", "real"}
  /\ MaxChanges \in Nat

VARIABLES
  conf,       \* the configuration loaded last
  known,      \* known_watches
  canonical,  \* node -> the watched path that add_watch() stored for it
  mark,       \* node -> the path its object is watched as, by the kernel
  queue,      \* events that read_events() has not drained yet
  triggers,   \* the triggers of the last event: job, path passed to it, node
  present,    \* nodes that exist
  dirty,      \* nodes open for writing and changed
  backend,    \* which form the paths of events have
  changes,    \* changes of files so far
  setUp,      \* history: paths whose node existed when they were last loaded
  due         \* history: pairs of a job and a node it must be triggered for

watcher == <<conf, known, canonical>>
files == <<present, dirty, changes>>
vars == <<watcher, mark, queue, triggers, files, backend, setUp, due>>

Kinds == {"data", "close", "create", "name", "metadata", "remove", "access"}

-----------------------------------------------------------------------------
(* setup_inotify_watches(): the watched paths of a configuration that are  *)
(* not known yet are set in the order of the vector of jobs, which may be  *)
(* any; the last one of an object gives it its name. Setting fails when    *)
(* nothing is there.                                                       *)
Settable(c) == {r \in RootsOf(c) \ known : Real[r] \in present}

(* Faulty variant: a path counts as known although its watch failed.       *)
KnownAnyway(c) == known \cup RootsOf(c)
KnownWith(c) == known \cup Settable(c)

(* What add_watch() stores of a path. Faulty variant: key and value        *)
(* swapped.                                                                *)
StoredNode(r) == Real[r]
Stored(r) == r

SetupWatches(c) ==
  LET new == Settable(c)
      nodes == {Real[r] : r \in new}
  IN \E last \in [nodes -> new] :
       /\ \A n \in nodes : Real[last[n]] = n
       /\ canonical' = [n \in Nodes |-> IF n \in nodes THEN Stored(last[n])
                                                      ELSE canonical[n]]
       /\ mark' = [n \in Nodes |-> IF n \in nodes THEN last[n] ELSE mark[n]]
       /\ known' = KnownWith(c)
       /\ setUp' = setUp \cup {r \in RootsOf(c) : Real[r] \in present}

(* The jobs owed changes of node n: those that watch it, or its directory, *)
(* by a path that was there to be set.                                     *)
Sees(r, n) == n = Real[r] \/ Dir[n] = Real[r]
Reaches(r) == Real[r] = r \/ backend = "real"
Watchers(c, n) ==
  {j \in Jobs : \E r \in Watch[c][j] \cap setUp : Sees(r, n) /\ Reaches(r)}

Init ==
  /\ conf \in Configs
  /\ known = {}
  /\ canonical = [n \in Nodes |-> NoRoot]
  /\ mark = [n \in Nodes |-> NoRoot]
  /\ queue = <<>>
  /\ triggers = {}
  /\ \E late \in SUBSET Late : present = Nodes \ late
  /\ dirty = {}
  /\ backend \in Backends
  /\ changes = 0
  /\ setUp = {}
  /\ due = {}

(* The first load, before the loop, and each SIGHUP. What was due to a job *)
(* under the old configuration and is not under the new one lapses.        *)
Load(c) ==
  /\ conf' = c
  /\ SetupWatches(c)
  /\ due' = {d \in due : d[1] \in Watchers(c, d[2])}
  /\ UNCHANGED <<queue, triggers, files, backend>>

-----------------------------------------------------------------------------
(* FileWatcher::read_events()                                              *)

Rest(n, path) == SubSeq(path, Len(n) + 1, Len(path))

(* canonicalize() fails, and leaves the path, when nothing is there.       *)
Canonicalize(e) == IF e.node \in present THEN e.node ELSE e.path

(* resolve_event_path(): the paths an event may resolve to. Any root whose *)
(* text begins the path's may be met first, for the map is unordered.      *)
(* Faulty variant: drops what follows the root.                            *)
ResolvedToRoot(e) ==
  LET begun == {n \in Nodes : canonical[n] # NoRoot /\ IsPrefix(n, e.path)}
  IN IF begun = {} THEN {Canonicalize(e)} ELSE {canonical[n] : n \in begun}
ResolveEventPath(e) ==
  LET begun == {n \in Nodes : canonical[n] # NoRoot /\ IsPrefix(n, e.path)}
  IN IF begun = {} THEN {Canonicalize(e)}
     ELSE {canonical[n] \o Rest(n, e.path) : n \in begun}

(* Faulty variant: a rename is no write.                                   *)
IsWriteInPlace(e) == e.kind \in {"close", "data", "create"}
IsWrite(e) == e.kind \in {"close", "data", "metadata", "name", "create"}

(* in_watch() of src/scheduler.rs                                          *)
InWatch(j, path) == \E w \in Watch[conf][j] : IsPrefix(w, path)

(* One turn of the loop that drains the channel, and the triggers of the   *)
(* path it yields. (What a trigger does is in Scheduler.tla.)              *)
ReadEvent ==
  /\ queue # <<>>
  /\ LET e == Head(queue) IN
       \E path \in ResolveEventPath(e) :
         triggers' = {[job |-> j, path |-> path, node |-> e.node] :
                        j \in {j \in Jobs : IsWrite(e) /\ InWatch(j, path)}}
  /\ due' = due \ {<<t.job, t.node>> : t \in triggers'}
  /\ queue' = Tail(queue)
  /\ UNCHANGED <<watcher, mark, files, backend, setUp>>

-----------------------------------------------------------------------------
(* The file system and the watches the kernel keeps.                       *)

PathVia(n, d, root) ==
  IF backend = "real" THEN n ELSE root \o Rest(d, n)

(* Events of a change of node n: one by the watch of its directory, then   *)
(* those by its own.                                                       *)
Reported(n, kind, ownKinds) ==
  LET d == Dir[n]
      inDir == IF d # NoNode /\ mark[d] # NoRoot
               THEN <<[kind |-> kind, path |-> PathVia(n, d, mark[d]), node |-> n]>>
               ELSE <<>>
      own == IF mark[n] = NoRoot THEN <<>>
             ELSE [i \in DOMAIN ownKinds |->
                     [kind |-> ownKinds[i], path |-> PathVia(n, n, mark[n]), node |-> n]]
  IN inDir \o own

Change(n, kind, ownKinds) ==
  /\ changes < MaxChanges
  /\ changes' = changes + 1
  /\ queue' = queue \o Reported(n, kind, ownKinds)
  /\ UNCHANGED <<watcher, triggers, backend, setUp>>

IsFile(n) == \A m \in Nodes : Dir[m] # n

Modify(n) ==
  /\ IsFile(n) /\ n \in present
  /\ Change(n, "data", <<"data">>)
  /\ dirty' = dirty \cup {n}
  /\ UNCHANGED <<mark, present, due>>

CloseWrite(n) ==
  /\ n \in dirty
  /\ Change(n, "close", <<"close">>)
  /\ dirty' = dirty \ {n}
  /\ due' = due \cup {<<j, n>> : j \in Watchers(conf, n)}
  /\ UNCHANGED <<mark, present>>

Read(n) ==
  /\ IsFile(n) /\ n \in present
  /\ Change(n, "access", <<"access">>)
  /\ UNCHANGED <<mark, present, dirty, due>>

Create(n) ==
  /\ n \notin present
  /\ Change(n, "create", <<>>)
  /\ present' = present \cup {n}
  /\ dirty' = IF IsFile(n) THEN dirty \cup {n} ELSE dirty
  /\ UNCHANGED <<mark, due>>

(* A finished file is renamed into the place of n, whose object and watch  *)
(* are gone after a last change of the number of its links.                *)
Replace(n) ==
  /\ n \in Replaceable \cap present
  /\ n \notin dirty
  /\ Change(n, "name", <<"metadata", "remove">>)
  /\ mark' = [mark EXCEPT ![n] = NoRoot]
  /\ due' = due \cup {<<j, n>> : j \in Watchers(conf, n)}
  /\ UNCHANGED <<present, dirty>>

Unlink(n) ==
  /\ n \in Replaceable \cap present
  /\ n \notin dirty
  /\ Change(n, "remove", <<"metadata", "remove">>)
  /\ mark' = [mark EXCEPT ![n] = NoRoot]
  /\ present' = present \ {n}
  /\ due' = due \ (Jobs \X {n})
  /\ UNCHANGED dirty

Next ==
  \/ \E c \in Configs : Load(c)
  \/ ReadEvent
  \/ \E n \in Nodes : \/ Modify(n) \/ CloseWrite(n) \/ Read(n) \/ Create(n)
                      \/ Replace(n) \/ Unlink(n)

Spec == Init /\ [][Next]_vars

-----------------------------------------------------------------------------
(* Properties.                                                             *)

TypeOK ==
  /\ conf \in Configs
  /\ known \subseteq Roots
  /\ canonical \in [Nodes -> Roots \cup {NoRoot}]
  /\ mark \in [Nodes -> Roots \cup {NoRoot}]
  /\ queue \in Seq([kind : Kinds, path : Seq(STRING), node : Nodes])
  /\ triggers \subseteq [job : Jobs, path : Seq(STRING), node : Nodes]
  /\ present \subseteq Nodes
  /\ dirty \subseteq present
  /\ backend \in Backends
  /\ changes \in 0 .. MaxChanges
  /\ setUp \subseteq Roots
  /\ due \subseteq Jobs \X Nodes

(* Each file that was written and closed, or renamed into place, triggers  *)
(* every job that watches it or its directory by a path that existed when  *)
(* the configuration was loaded, whatever came before and in between: once *)
(* the events are drained nothing is owed (README:223; the comment on      *)
(* atomic saves in read_events()).                                         *)
NoChangeMissed == queue = <<>> => due = {}

(* The path a job is given for %notify% is one of the changed file's own   *)
(* names, whichever root is met first (README:105). No more is claimed     *)
(* where a link leads to a file whose name begins that of another one, or  *)
(* the name by which another link leads to one.                            *)
NamesOf(n) == {n} \cup {r \o Rest(Real[r], n) : r \in {r \in Roots : Sees(r, n)}}
LinksApart ==
  \A r \in Roots, n \in Nodes : r # Real[r] =>
    /\ IsPrefix(Real[r], n) => Sees(r, n)
    /\ \A q \in Roots : Sees(q, n) /\ q # Real[q] =>
         ~IsPrefix(Real[r], q \o Rest(Real[q], n))
PathNamesFile == LinksApart => \A t \in triggers : t.path \in NamesOf(t.node)
=============================================================================
