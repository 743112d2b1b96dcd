--------------------------- MODULE FileWatchProofs ---------------------------
(***************************************************************************)
(* Proofs about the file watcher of FileWatch.tla, for any files, links,   *)
(* watches and configurations.                                             *)
(***************************************************************************)
EXTENDS FileWatch, SequenceTheorems, TLAPS

-----------------------------------------------------------------------------
(* Paths.                                                                  *)

Path == Seq(STRING)

LEMMA RestProperties ==
  ASSUME NEW p \in Path, NEW s \in Path, IsPrefix(p, s)
  PROVE  /\ Rest(p, s) \in Path
         /\ p \o Rest(p, s) = s
<1>1. Len(p) \in Nat /\ Len(s) \in Nat /\ Len(p) <= Len(s)
  BY DEF IsPrefix, Path
<1>2. Rest(p, s) \in Path
  <2>1. \A i \in Len(p) + 1 .. Len(s) : s[i] \in STRING
    BY <1>1 DEF Path
  <2> QED BY <1>1, <2>1, SubSeqProperties DEF Rest, Path
<1>3. SubSeq(s, 1, Len(p)) = p
  BY <1>1, SubSeqFull DEF IsPrefix, Path
<1>4. SubSeq(s, 1, Len(p)) \o SubSeq(s, Len(p) + 1, Len(s)) = SubSeq(s, 1, Len(s))
  <2>1. /\ 1 \in 1 .. Len(s) + 1 /\ Len(p) \in 1 - 1 .. Len(s)
        /\ Len(s) \in Len(p) .. Len(s)
    BY <1>1
  <2> QED BY <2>1, ConcatAdjacentSubSeq DEF Path
<1>5. SubSeq(s, 1, Len(s)) = s
  BY SubSeqFull DEF Path
<1> QED BY <1>2, <1>3, <1>4, <1>5 DEF Rest

LEMMA RestOfSelf ==
  ASSUME NEW p \in Path
  PROVE  IsPrefix(p, p) /\ Rest(p, p) = <<>> /\ \A q \in Path : q \o Rest(p, p) = q
<1>1. Len(p) \in Nat
  BY DEF Path
<1>2. Rest(p, p) = <<>>
  BY <1>1, SubSeqEmpty DEF Rest
<1> QED BY <1>1, <1>2, ConcatEmptySeq DEF IsPrefix, Path

LEMMA PrefixOfConcat ==
  ASSUME NEW p \in Path, NEW t \in Path
  PROVE  p \o t \in Path /\ IsPrefix(p, p \o t)
<1>1. /\ p \o t \in Path /\ Len(p \o t) = Len(p) + Len(t)
      /\ Len(p) \in Nat /\ Len(t) \in Nat
      /\ \A i \in 1 .. Len(p) : (p \o t)[i] = p[i]
  BY ConcatProperties DEF Path
<1>2. SubSeq(p \o t, 1, Len(p)) = SubSeq(p, 1, Len(p))
  <2>1. \A i \in 1 .. Len(p) : p[i] \in STRING
    BY DEF Path
  <2>2. /\ SubSeq(p, 1, Len(p)) \in Path /\ SubSeq(p \o t, 1, Len(p)) \in Path
        /\ Len(SubSeq(p, 1, Len(p))) = Len(SubSeq(p \o t, 1, Len(p)))
        /\ \A i \in 1 .. Len(SubSeq(p, 1, Len(p))) :
             SubSeq(p, 1, Len(p))[i] = SubSeq(p \o t, 1, Len(p))[i]
    BY <1>1, <2>1, SubSeqProperties DEF Path
  <2> QED BY <2>2, SeqEqual DEF Path
<1> QED BY <1>1, <1>2 DEF IsPrefix

LEMMA Constants ==
  /\ Roots \subseteq Path /\ Nodes \subseteq Path
  /\ Real \in [Roots -> Nodes] /\ NoRoot \notin Roots
  /\ MaxChanges \in Nat /\ Late \subseteq Nodes /\ NoNode \notin Nodes
  /\ \A n \in Nodes : Dir[n] \in Nodes \cup {NoNode}
                      /\ (Dir[n] \in Nodes => IsPrefix(Dir[n], n))
<1>1. \A n \in Nodes : Dir[n] # NoNode => IsStrictPrefix(Dir[n], n)
  BY WatchAssumption
<1> QED BY <1>1, WatchAssumption DEF Path, IsStrictPrefix

LEMMA RootsOfType ==
  ASSUME NEW c \in Configs
  PROVE  RootsOf(c) \subseteq Roots
BY DEF RootsOf, Roots

(* What a root sees has a name that begins with what the root leads to.    *)
LEMMA SeenBelow ==
  ASSUME NEW r \in Roots, NEW n \in Nodes, Sees(r, n)
  PROVE  /\ IsPrefix(Real[r], n)
         /\ r \o Rest(Real[r], n) \in Path
         /\ IsPrefix(r, r \o Rest(Real[r], n))
<1>1. r \in Path /\ n \in Path /\ Real[r] \in Nodes /\ Real[r] \in Path
  BY Constants
<1>2. IsPrefix(Real[r], n)
  BY <1>1, RestOfSelf, Constants DEF Sees
<1> QED BY <1>1, <1>2, RestProperties, PrefixOfConcat

-----------------------------------------------------------------------------
(* Types.                                                                  *)

Event == [kind : Kinds, path : Path, node : Nodes]

(* A map of watches names, for an object, a path that leads to it.         *)
LeadsThere(map) == \A n \in Nodes : map[n] # NoRoot => Real[map[n]] = n
Watches == LeadsThere(canonical) /\ LeadsThere(mark)

WatchType == TypeOK /\ Watches

LEMMA WatchTypeInit == Init => WatchType
<1> SUFFICES ASSUME Init PROVE WatchType
  OBVIOUS
<1>1. queue \in Seq([kind : Kinds, path : Seq(STRING), node : Nodes])
  BY EmptySeq DEF Init
<1>2. present \subseteq Nodes /\ dirty = {} /\ changes \in 0 .. MaxChanges
  BY Constants DEF Init
<1>3. Watches
  BY DEF Init, Watches, LeadsThere
<1> QED BY <1>1, <1>2, <1>3 DEF Init, TypeOK, WatchType

(* What a load of the configuration does to the watches.                   *)
LEMMA SetupProperties ==
  ASSUME WatchType, NEW c \in Configs, SetupWatches(c)
  PROVE  /\ canonical' \in [Nodes -> Roots \cup {NoRoot}]
         /\ mark' \in [Nodes -> Roots \cup {NoRoot}]
         /\ LeadsThere(canonical') /\ LeadsThere(mark')
         /\ \A n \in Nodes : canonical[n] # NoRoot => canonical'[n] # NoRoot
         /\ \A n \in Nodes : mark[n] # NoRoot => mark'[n] # NoRoot
         /\ \A r \in Settable(c) : canonical'[Real[r]] # NoRoot /\ mark'[Real[r]] # NoRoot
         /\ known' = known \cup Settable(c)
         /\ setUp' = setUp \cup {r \in RootsOf(c) : Real[r] \in present}
         /\ Settable(c) \subseteq Roots
<1> DEFINE new == Settable(c)
           nodes == {Real[r] : r \in new}
<1>1. new \subseteq Roots
  BY RootsOfType DEF Settable
<1>2. PICK last \in [nodes -> new] :
        /\ \A n \in nodes : Real[last[n]] = n
        /\ canonical' = [n \in Nodes |-> IF n \in nodes THEN Stored(last[n])
                                                       ELSE canonical[n]]
        /\ mark' = [n \in Nodes |-> IF n \in nodes THEN last[n] ELSE mark[n]]
        /\ known' = KnownWith(c)
        /\ setUp' = setUp \cup {r \in RootsOf(c) : Real[r] \in present}
  BY DEF SetupWatches
<1>3. \A n \in nodes : last[n] \in Roots /\ last[n] # NoRoot /\ Real[last[n]] = n
  BY <1>1, <1>2, Constants
<1>4. \A r \in new : Real[r] \in nodes /\ Real[r] \in Nodes
  BY <1>1, Constants
<1> HIDE DEF new, nodes
<1>5. \A n \in Nodes : canonical'[n] = (IF n \in nodes THEN last[n] ELSE canonical[n])
                       /\ mark'[n] = (IF n \in nodes THEN last[n] ELSE mark[n])
  BY <1>2 DEF Stored
<1>6. /\ canonical \in [Nodes -> Roots \cup {NoRoot}]
      /\ mark \in [Nodes -> Roots \cup {NoRoot}]
      /\ LeadsThere(canonical) /\ LeadsThere(mark)
  BY DEF WatchType, TypeOK, Watches
<1>7. /\ canonical' \in [Nodes -> Roots \cup {NoRoot}]
      /\ mark' \in [Nodes -> Roots \cup {NoRoot}]
  BY <1>2, <1>3, <1>6 DEF Stored
<1>8. LeadsThere(canonical') /\ LeadsThere(mark')
  BY <1>3, <1>5, <1>6 DEF LeadsThere
<1>9. known' = known \cup new
  BY <1>2 DEF KnownWith, new
<1> QED BY <1>1, <1>2, <1>3, <1>4, <1>5, <1>7, <1>8, <1>9 DEF new

LEMMA ConcatElements ==
  ASSUME NEW S, NEW s \in Seq(S), NEW t \in Seq(S)
  PROVE  /\ s \o t \in Seq(S)
         /\ \A e : Contains(s \o t, e) <=> Contains(s, e) \/ Contains(t, e)
<1>1. /\ s \o t \in Seq(S) /\ Len(s \o t) = Len(s) + Len(t)
      /\ \A i \in 1 .. Len(s) + Len(t) :
           (s \o t)[i] = IF i <= Len(s) THEN s[i] ELSE t[i - Len(s)]
      /\ Len(s) \in Nat /\ Len(t) \in Nat
  BY ConcatProperties
<1>2. ASSUME NEW i \in 1 .. Len(s \o t)
      PROVE  \/ \E k \in 1 .. Len(s) : (s \o t)[i] = s[k]
             \/ \E k \in 1 .. Len(t) : (s \o t)[i] = t[k]
  <2>1. CASE i <= Len(s)
    BY <1>1, <2>1
  <2>2. CASE ~(i <= Len(s))
    <3>1. i - Len(s) \in 1 .. Len(t)
      BY <1>1, <2>2
    <3> QED BY <1>1, <2>2, <3>1
  <2> QED BY <2>1, <2>2
<1>3. ASSUME NEW k \in 1 .. Len(s) PROVE \E i \in 1 .. Len(s \o t) : (s \o t)[i] = s[k]
  <2>1. k \in 1 .. Len(s) + Len(t) /\ k <= Len(s)
    BY <1>1
  <2> QED BY <1>1, <2>1
<1>4. ASSUME NEW k \in 1 .. Len(t) PROVE \E i \in 1 .. Len(s \o t) : (s \o t)[i] = t[k]
  <2>1. /\ Len(s) + k \in 1 .. Len(s) + Len(t) /\ ~(Len(s) + k <= Len(s))
        /\ (Len(s) + k) - Len(s) = k
    BY <1>1
  <2> QED BY <1>1, <2>1
<1> QED BY <1>1, <1>2, <1>3, <1>4 DEF Contains

(* An event reports the file by one of its names.                          *)
LEMMA PathIsName ==
  ASSUME NEW n \in Nodes, NEW r \in Roots, Sees(r, n)
  PROVE  PathVia(n, Real[r], r) \in NamesOf(n) \cap Path
BY SeenBelow, Constants DEF PathVia, NamesOf

(* The events of a change: which there are, and which there are not.       *)
LEMMA ReportedProperties ==
  ASSUME WatchType, NEW n \in Nodes, NEW kind \in Kinds, NEW ownKinds \in Seq(Kinds),
         NEW events, events = Reported(n, kind, ownKinds)
  PROVE  /\ events \in Seq(Event)
         /\ \A e : Contains(events, e) => e.node = n /\ e.path \in NamesOf(n)
         /\ Dir[n] # NoNode /\ mark[Dir[n]] # NoRoot =>
              Contains(events, [kind |-> kind, path |-> PathVia(n, Dir[n], mark[Dir[n]]),
                                node |-> n])
         /\ mark[n] # NoRoot => \A k \in 1 .. Len(ownKinds) :
              Contains(events, [kind |-> ownKinds[k], path |-> PathVia(n, n, mark[n]),
                                node |-> n])
<1> DEFINE d == Dir[n]
           above == [kind |-> kind, path |-> PathVia(n, d, mark[d]), node |-> n]
           self(k) == [kind |-> k, path |-> PathVia(n, n, mark[n]), node |-> n]
           inDir == IF d # NoNode /\ mark[d] # NoRoot THEN <<above>> ELSE <<>>
           own == IF mark[n] = NoRoot THEN <<>>
                  ELSE [i \in DOMAIN ownKinds |-> self(ownKinds[i])]
<1>1. events = inDir \o own
  BY DEF Reported
<1>2. /\ mark \in [Nodes -> Roots \cup {NoRoot}]
      /\ \A m \in Nodes : mark[m] # NoRoot => Real[mark[m]] = m
  BY DEF WatchType, TypeOK, Watches, LeadsThere
<1>3. d # NoNode => d \in Nodes
  BY Constants
<1>4. ASSUME d # NoNode, mark[d] # NoRoot
      PROVE  above \in Event /\ above.node = n /\ above.path \in NamesOf(n)
  <2>1. mark[d] \in Roots /\ Real[mark[d]] = d
    BY <1>2, <1>3, <1>4
  <2>2. PathVia(n, d, mark[d]) \in NamesOf(n) \cap Path
    BY <2>1, PathIsName DEF Sees
  <2> QED BY <2>2 DEF Event
<1>5. ASSUME mark[n] # NoRoot, NEW k \in Kinds
      PROVE  self(k) \in Event /\ self(k).node = n /\ self(k).path \in NamesOf(n)
  <2>1. mark[n] \in Roots /\ Real[mark[n]] = n
    BY <1>2, <1>5
  <2>2. PathVia(n, n, mark[n]) \in NamesOf(n) \cap Path
    BY <2>1, PathIsName DEF Sees
  <2> QED BY <2>2 DEF Event
<1>6. /\ inDir \in Seq(Event)
      /\ \A e : Contains(inDir, e) => e.node = n /\ e.path \in NamesOf(n)
      /\ d # NoNode /\ mark[d] # NoRoot => Contains(inDir, above)
  <2> HIDE DEF above
  <2>1. CASE d # NoNode /\ mark[d] # NoRoot
    <3>1. inDir = <<above>> /\ above \in Event
      BY <1>4, <2>1
    <3>2. \A e : Contains(inDir, e) <=> e = above
      BY <3>1 DEF Contains
    <3> QED BY <1>4, <2>1, <3>1, <3>2
  <2>2. CASE ~(d # NoNode /\ mark[d] # NoRoot)
    <3>1. inDir = <<>>
      BY <2>2
    <3> QED BY <2>2, <3>1 DEF Contains
  <2> QED BY <2>1, <2>2
<1>7. /\ own \in Seq(Event)
      /\ \A e : Contains(own, e) => e.node = n /\ e.path \in NamesOf(n)
      /\ mark[n] # NoRoot =>
           \A k \in 1 .. Len(ownKinds) : Contains(own, self(ownKinds[k]))
  <2> HIDE DEF self
  <2>1. CASE mark[n] # NoRoot
    <3>1. /\ DOMAIN ownKinds = 1 .. Len(ownKinds) /\ Len(ownKinds) \in Nat
          /\ \A k \in 1 .. Len(ownKinds) : ownKinds[k] \in Kinds
      OBVIOUS
    <3>2. own = [i \in 1 .. Len(ownKinds) |-> self(ownKinds[i])]
      BY <2>1, <3>1
    <3>3. \A i \in 1 .. Len(ownKinds) : own[i] \in Event /\ own[i] = self(ownKinds[i])
      BY <1>5, <2>1, <3>1, <3>2
    <3> HIDE DEF own
    <3>4. own \in Seq(Event) /\ Len(own) = Len(ownKinds)
      <4>1. own \in [1 .. Len(ownKinds) -> Event]
        BY <3>2, <3>3
      <4> QED BY <3>1, <4>1, LenProperties, IsASeq
    <3>5. \A e : Contains(own, e) <=> \E i \in 1 .. Len(ownKinds) : e = self(ownKinds[i])
      BY <3>3, <3>4 DEF Contains
    <3> QED BY <1>5, <3>1, <3>4, <3>5, <2>1
  <2>2. CASE mark[n] = NoRoot
    <3>1. own = <<>>
      BY <2>2
    <3> QED BY <2>2, <3>1 DEF Contains
  <2> QED BY <2>1, <2>2
<1> HIDE DEF inDir, own, above, self
<1>8. /\ events \in Seq(Event)
      /\ \A e : Contains(events, e) <=> Contains(inDir, e) \/ Contains(own, e)
  BY <1>1, <1>6, <1>7, ConcatElements
<1> QED BY <1>6, <1>7, <1>8 DEF above, self

LEMMA ChangeProperties ==
  ASSUME WatchType, NEW n \in Nodes, NEW kind \in Kinds, NEW ownKinds \in Seq(Kinds),
         Change(n, kind, ownKinds)
  PROVE  /\ queue' \in Seq(Event)
         /\ \A e : Contains(queue', e) <=>
              Contains(queue, e) \/ Contains(Reported(n, kind, ownKinds), e)
         /\ changes' \in 0 .. MaxChanges
         /\ UNCHANGED <<conf, known, canonical, triggers, backend, setUp>>
<1>1. PICK events : events = Reported(n, kind, ownKinds)
  OBVIOUS
<1>2. events \in Seq(Event) /\ queue \in Seq(Event)
  BY <1>1, ReportedProperties DEF WatchType, TypeOK, Event, Path
<1>3. queue' = queue \o events
  BY <1>1 DEF Change
<1>4. changes' \in 0 .. MaxChanges
  BY Constants DEF Change, WatchType, TypeOK
<1>5. /\ queue' \in Seq(Event)
      /\ \A e : Contains(queue', e) <=> Contains(queue, e) \/ Contains(events, e)
  BY <1>2, <1>3, ConcatElements
<1> QED BY <1>1, <1>4, <1>5 DEF Change, watcher

(* What is drained is the head of the queue, and the rest stays.           *)
LEMMA DrainProperties ==
  ASSUME WatchType, queue # <<>>
  PROVE  /\ Head(queue) \in Event /\ Contains(queue, Head(queue))
         /\ Tail(queue) \in Seq(Event)
         /\ \A e : Contains(queue, e) <=> e = Head(queue) \/ Contains(Tail(queue), e)
<1>1. queue \in Seq(Event)
  BY DEF WatchType, TypeOK, Event, Path
<1>2. /\ Head(queue) \in Event /\ Tail(queue) \in Seq(Event)
      /\ Len(Tail(queue)) = Len(queue) - 1 /\ Len(queue) \in Nat /\ Len(queue) # 0
      /\ \A i \in 1 .. Len(Tail(queue)) : Tail(queue)[i] = queue[i + 1]
      /\ Head(queue) = queue[1]
  BY <1>1, HeadTailProperties
<1>3. ASSUME NEW e, Contains(queue, e) PROVE e = Head(queue) \/ Contains(Tail(queue), e)
  <2>1. PICK i \in 1 .. Len(queue) : queue[i] = e
    BY <1>3 DEF Contains
  <2>2. CASE i # 1
    <3>1. i - 1 \in 1 .. Len(Tail(queue)) /\ (i - 1) + 1 = i
      BY <1>2, <2>2
    <3> QED BY <1>2, <2>1, <3>1 DEF Contains
  <2> QED BY <1>2, <2>1, <2>2
<1>4. ASSUME NEW e, Contains(Tail(queue), e) PROVE Contains(queue, e)
  <2>1. PICK i \in 1 .. Len(Tail(queue)) : Tail(queue)[i] = e
    BY <1>4 DEF Contains
  <2>2. i + 1 \in 1 .. Len(queue)
    BY <1>2
  <2> QED BY <1>2, <2>1, <2>2 DEF Contains
<1>5. Contains(queue, Head(queue))
  <2>1. 1 \in 1 .. Len(queue)
    BY <1>2
  <2> QED BY <1>2, <2>1 DEF Contains
<1> QED BY <1>2, <1>3, <1>4, <1>5

LEMMA ResolvedType ==
  ASSUME WatchType, NEW e \in Event, NEW path \in ResolveEventPath(e)
  PROVE  path \in Path
<1>1. e.path \in Path /\ e.node \in Path
  BY Constants DEF Event
<1>2. ASSUME NEW n \in Nodes, canonical[n] # NoRoot, IsPrefix(n, e.path)
      PROVE  canonical[n] \o Rest(n, e.path) \in Path
  <2>1. canonical[n] \in Path /\ n \in Path
    BY <1>2, Constants DEF WatchType, TypeOK
  <2>2. Rest(n, e.path) \in Path
    BY <1>1, <1>2, <2>1, RestProperties
  <2> QED BY <2>1, <2>2, PrefixOfConcat
<1> QED BY <1>1, <1>2 DEF ResolveEventPath, Canonicalize

LEMMA KindsOf ==
  /\ {"data", "close", "create", "name", "metadata", "remove", "access"} \subseteq Kinds
  /\ \A k \in Kinds : <<k>> \in Seq(Kinds) /\ Len(<<k>>) = 1 /\ <<k>>[1] = k
  /\ <<>> \in Seq(Kinds)
  /\ <<"metadata", "remove">> \in Seq(Kinds)
<1>1. "metadata" \in Kinds /\ "remove" \in Kinds
  BY DEF Kinds
<1>2. \A k \in Kinds : <<k>> \in Seq(Kinds) /\ Len(<<k>>) = 1 /\ <<k>>[1] = k
  OBVIOUS
<1>3. <<"metadata", "remove">> \in Seq(Kinds)
  BY <1>1
<1> QED BY <1>2, <1>3 DEF Kinds

LEMMA WatchTypeStep ==
  ASSUME WatchType, [Next]_vars
  PROVE  WatchType'
<1>0. TypeOK /\ Watches /\ queue \in Seq(Event)
  BY DEF WatchType, TypeOK, Event, Path
<1>1. CASE UNCHANGED vars
  BY <1>0, <1>1 DEF vars, watcher, files, WatchType, TypeOK, Watches, LeadsThere
<1>2. ASSUME NEW c \in Configs, Load(c) PROVE WatchType'
  <2>1. SetupWatches(c)
    BY <1>2 DEF Load
  <2>2. /\ known' \subseteq Roots /\ setUp' \subseteq Roots
        /\ canonical' \in [Nodes -> Roots \cup {NoRoot}]
        /\ mark' \in [Nodes -> Roots \cup {NoRoot}]
        /\ LeadsThere(canonical') /\ LeadsThere(mark')
    BY <1>0, <2>1, SetupProperties, RootsOfType DEF TypeOK
  <2> QED BY <1>0, <1>2, <2>2 DEF Load, files, WatchType, TypeOK, Watches, LeadsThere
<1>3. CASE ReadEvent
  <2>1. PICK path \in ResolveEventPath(Head(queue)) :
          triggers' = {[job |-> j, path |-> path, node |-> Head(queue).node] :
                         j \in {j \in Jobs : IsWrite(Head(queue)) /\ InWatch(j, path)}}
    BY <1>3 DEF ReadEvent
  <2>2. Head(queue) \in Event /\ Tail(queue) \in Seq(Event)
    BY <1>3, DrainProperties DEF ReadEvent
  <2>3. path \in Path /\ Head(queue).node \in Nodes
    BY <2>1, <2>2, ResolvedType DEF Event
  <2>4. triggers' \subseteq [job : Jobs, path : Path, node : Nodes]
    BY <2>1, <2>3
  <2> QED
    BY <1>0, <1>3, <2>2, <2>4
    DEF ReadEvent, watcher, files, WatchType, TypeOK, Watches, LeadsThere, Event, Path
<1>4. ASSUME NEW n \in Nodes, NEW kind \in Kinds, NEW ownKinds \in Seq(Kinds),
             Change(n, kind, ownKinds),
             mark' \in {mark, [mark EXCEPT ![n] = NoRoot]},
             present' \subseteq Nodes, dirty' \subseteq present', due' \subseteq Jobs \X Nodes
      PROVE  WatchType'
  <2>1. /\ queue' \in Seq(Event) /\ changes' \in 0 .. MaxChanges
        /\ UNCHANGED <<conf, known, canonical, triggers, backend, setUp>>
    BY <1>4, ChangeProperties
  <2>2. mark' \in [Nodes -> Roots \cup {NoRoot}] /\ LeadsThere(mark')
    BY <1>0, <1>4 DEF TypeOK, Watches, LeadsThere
  <2> QED BY <1>0, <1>4, <2>1, <2>2 DEF WatchType, TypeOK, Watches, LeadsThere, Event, Path
<1>5. ASSUME NEW n \in Nodes,
             Modify(n) \/ CloseWrite(n) \/ Read(n) \/ Create(n) \/ Replace(n) \/ Unlink(n)
      PROVE  WatchType'
  <2>0. /\ present \subseteq Nodes /\ dirty \subseteq present /\ due \subseteq Jobs \X Nodes
        /\ \A m \in Nodes : Watchers(conf, m) \subseteq Jobs
    BY <1>0 DEF TypeOK, Watchers
  <2>1. CASE Modify(n)
    BY <1>4, <2>0, <2>1, KindsOf DEF Modify, Kinds
  <2>2. CASE CloseWrite(n)
    <3>1. due' \subseteq Jobs \X Nodes
      BY <2>0, <2>2 DEF CloseWrite
    <3> QED BY <1>4, <2>0, <2>2, <3>1, KindsOf DEF CloseWrite, Kinds
  <2>3. CASE Read(n)
    BY <1>4, <2>0, <2>3, KindsOf DEF Read, Kinds
  <2>4. CASE Create(n)
    BY <1>4, <2>0, <2>4, KindsOf DEF Create, Kinds
  <2>5. CASE Replace(n)
    <3>1. due' \subseteq Jobs \X Nodes
      BY <2>0, <2>5 DEF Replace
    <3> QED BY <1>4, <2>0, <2>5, <3>1, KindsOf DEF Replace, Kinds
  <2>6. CASE Unlink(n)
    BY <1>4, <2>0, <2>6, KindsOf DEF Unlink, Kinds
  <2> QED BY <1>5, <2>1, <2>2, <2>3, <2>4, <2>5, <2>6
<1> QED BY <1>1, <1>2, <1>3, <1>5 DEF Next

LEMMA WatchTypeHolds == Spec => []WatchType
BY WatchTypeInit, WatchTypeStep, PTL DEF Spec

(* The watcher's state has its types: whatever is loaded and changed, a    *)
(* map of watches leads from an object to a path of that object, and paths *)
(* stay paths when prefixes are replaced.                                  *)
THEOREM WatchTypeCorrect == Spec => []TypeOK
BY WatchTypeHolds, PTL DEF WatchType

-----------------------------------------------------------------------------
(* The path of a trigger.                                                  *)

(* Events that wait name their file.                                       *)
Named == \A e : Contains(queue, e) => e.path \in NamesOf(e.node)
Triggered == \A t \in triggers : t.path \in NamesOf(t.node)

(* Whichever root is met first, a name is resolved to a name.              *)
LEMMA ResolvedNames ==
  ASSUME WatchType, LinksApart, NEW e \in Event, e.path \in NamesOf(e.node),
         NEW path \in ResolveEventPath(e)
  PROVE  path \in NamesOf(e.node)
<1> DEFINE n == e.node
<1>1. n \in Nodes /\ n \in Path /\ e.path \in Path
  BY Constants DEF Event
<1>2. ASSUME NEW m \in Nodes, canonical[m] # NoRoot, IsPrefix(m, e.path)
      PROVE  canonical[m] \o Rest(m, e.path) \in NamesOf(n)
  <2> DEFINE q == canonical[m]
  <2>1. q \in Roots /\ Real[q] = m /\ m \in Path
    BY <1>2, Constants DEF WatchType, TypeOK, Watches, LeadsThere
  <2> HIDE DEF q, n
  <2>2. CASE q = m
    <3>1. m \o Rest(m, e.path) = e.path
      BY <1>1, <1>2, <2>1, RestProperties
    <3> QED BY <2>2, <3>1 DEF q, n
  <2>3. CASE q # m
    <3>1. CASE e.path = n
      <4>1. Sees(q, n)
        BY <1>1, <1>2, <2>1, <2>3, <3>1 DEF LinksApart
      <4> QED BY <2>1, <3>1, <4>1 DEF NamesOf, q
    <3>2. CASE e.path # n
      <4>1. PICK r \in Roots : Sees(r, n) /\ e.path = r \o Rest(Real[r], n)
        BY <3>2 DEF NamesOf, n
      <4>2. CASE r = Real[r]
        <5>1. e.path = n
          BY <1>1, <4>1, <4>2, SeenBelow, RestProperties, Constants
        <5> QED BY <3>2, <5>1
      <4>3. CASE r # Real[r]
        BY <1>1, <1>2, <2>1, <2>3, <4>1, <4>3 DEF LinksApart
      <4> QED BY <4>2, <4>3
    <3> QED BY <3>1, <3>2
  <2> QED BY <2>2, <2>3
<1>3. Canonicalize(e) \in NamesOf(n)
  BY DEF Canonicalize, NamesOf
<1> QED BY <1>2, <1>3 DEF ResolveEventPath

LEMMA NamedStep ==
  ASSUME WatchType, Named, [Next]_vars
  PROVE  Named'
<1>1. ASSUME NEW n \in Nodes, NEW kind \in Kinds, NEW ownKinds \in Seq(Kinds),
             Change(n, kind, ownKinds)
      PROVE  Named'
  <2>1. PICK events : events = Reported(n, kind, ownKinds)
    OBVIOUS
  <2>2. \A e : Contains(events, e) => e.node = n /\ e.path \in NamesOf(n)
    BY <2>1, ReportedProperties
  <2>3. \A e : Contains(queue', e) => Contains(queue, e) \/ Contains(events, e)
    BY <1>1, <2>1, ChangeProperties
  <2> QED BY <2>2, <2>3 DEF Named, NamesOf
<1>2. CASE ReadEvent
  <2>1. \A e : Contains(queue', e) => Contains(queue, e)
    BY <1>2, DrainProperties DEF ReadEvent
  <2> QED BY <2>1 DEF Named, NamesOf
<1>3. CASE UNCHANGED queue
  BY <1>3 DEF Named, NamesOf
<1> QED
  BY <1>1, <1>2, <1>3, KindsOf
  DEF Next, vars, Load, Modify, CloseWrite, Read, Create, Replace, Unlink, Kinds

LEMMA TriggeredStep ==
  ASSUME WatchType, LinksApart, Named, Triggered, [Next]_vars
  PROVE  Triggered'
<1>1. CASE ReadEvent
  <2>1. PICK path \in ResolveEventPath(Head(queue)) :
          triggers' = {[job |-> j, path |-> path, node |-> Head(queue).node] :
                         j \in {j \in Jobs : IsWrite(Head(queue)) /\ InWatch(j, path)}}
    BY <1>1 DEF ReadEvent
  <2>2. Head(queue) \in Event /\ Head(queue).path \in NamesOf(Head(queue).node)
    BY <1>1, DrainProperties DEF ReadEvent, Named
  <2>3. path \in NamesOf(Head(queue).node)
    BY <2>1, <2>2, ResolvedNames
  <2>4. \A t \in triggers' : t.path = path /\ t.node = Head(queue).node
    BY <2>1
  <2> QED BY <2>3, <2>4 DEF Triggered, NamesOf
<1>2. CASE UNCHANGED triggers
  BY <1>2 DEF Triggered, NamesOf
<1> QED
  BY <1>1, <1>2
  DEF Next, vars, Load, Modify, CloseWrite, Read, Create, Replace, Unlink, Change

(* A job is triggered with a name of the file that changed, in whatever    *)
(* order the roots are tried, files are replaced and watches are added,    *)
(* where links stand apart.                                                *)
THEOREM PathsNameFiles == Spec => []PathNamesFile
<1>1. Init => Named /\ Triggered
  BY DEF Init, Named, Triggered, Contains
<1>2. CASE LinksApart
  <2>1. WatchType /\ Named /\ Triggered /\ [Next]_vars => (Named /\ Triggered)'
    BY <1>2, NamedStep, TriggeredStep
  <2>2. Triggered => PathNamesFile
    BY DEF Triggered, PathNamesFile
  <2> QED BY <1>1, <2>1, <2>2, WatchTypeHolds, PTL DEF Spec
<1>3. CASE ~LinksApart
  <2>1. PathNamesFile
    BY <1>3 DEF PathNamesFile
  <2> QED BY <2>1, PTL
<1> QED BY <1>2, <1>3

-----------------------------------------------------------------------------
(* No change is missed.                                                    *)

(* What is watched stays: no editor renames over it or removes it.         *)
WatchedStay == \A r \in Roots : Real[r] \notin Replaceable

(* Where a link leads, no other watched path leads, and no name of a file  *)
(* begins both as that place and as another one that is watched.           *)
LinksAlone ==
  \A q, r \in Roots, n \in Nodes :
    r # Real[r] /\ IsPrefix(Real[r], n) /\ IsPrefix(Real[q], n) => q = r

(* A path that was there when it was loaded has its watch ever after, and  *)
(* read_events() knows where it leads.                                     *)
Known == \A r \in known \cup setUp : mark[Real[r]] # NoRoot /\ canonical[Real[r]] # NoRoot

LEMMA KnownStep ==
  ASSUME WatchedStay, WatchType, Known, [Next]_vars
  PROVE  Known'
<1>1. known \subseteq Roots /\ setUp \subseteq Roots /\ Real \in [Roots -> Nodes]
      /\ mark \in [Nodes -> Roots \cup {NoRoot}]
  BY Constants DEF WatchType, TypeOK
<1>2. ASSUME NEW c \in Configs, Load(c) PROVE Known'
  <2>1. SetupWatches(c)
    BY <1>2 DEF Load
  <2>2. \A r \in known' \cup setUp' : r \in known \cup setUp \cup Settable(c)
    BY <2>1, SetupProperties DEF Settable
  <2>3. \A r \in known' \cup setUp' : Real[r] \in Nodes
    BY <1>1, <2>1, <2>2, SetupProperties
  <2> QED BY <2>1, <2>2, <2>3, SetupProperties DEF Known
<1>3. ASSUME NEW n \in Nodes, Replace(n) \/ Unlink(n) PROVE Known'
  <2>1. /\ mark' = [mark EXCEPT ![n] = NoRoot] /\ n \in Replaceable
        /\ UNCHANGED <<known, setUp, canonical>>
    BY <1>3 DEF Replace, Unlink, Change, watcher
  <2>2. \A r \in Roots : mark'[Real[r]] = mark[Real[r]]
    BY <1>1, <2>1 DEF WatchedStay
  <2> QED BY <1>1, <2>1, <2>2 DEF Known
<1>4. CASE UNCHANGED <<known, setUp, canonical, mark>>
  BY <1>4 DEF Known
<1> QED
  BY <1>2, <1>3, <1>4
  DEF Next, vars, watcher, ReadEvent, Modify, CloseWrite, Read, Create, Change

(* A write event of the file that waits, with its own name: whoever is     *)
(* owed the file's changes will be triggered by it.                        *)
Tells(e, n) == e.node = n /\ e.path = n /\ IsWrite(e)
Owed == \A d \in due : /\ d[1] \in Watchers(conf, d[2])
                       /\ \E e : Contains(queue, e) /\ Tells(e, d[2])

(* The end of a write or a rename is told to whoever watches.              *)
LEMMA WriteIsTold ==
  ASSUME LinksAlone, WatchType, Known, NEW n \in Nodes, NEW j \in Watchers(conf, n),
         NEW kind \in {"close", "name"}, NEW ownKinds \in Seq(Kinds),
         ownKinds = <<"close">> \/ \A r \in Roots : Real[r] # n,
         NEW events, events = Reported(n, kind, ownKinds)
  PROVE  \E e : Contains(events, e) /\ Tells(e, n)
<1>1. PICK r \in setUp : Sees(r, n) /\ Reaches(r)
  BY DEF Watchers
<1>2. r \in Roots /\ Real[r] \in Nodes /\ kind \in Kinds
  BY Constants DEF WatchType, TypeOK, Kinds
<1>3. PICK q : q = mark[Real[r]]
  OBVIOUS
<1>4. q \in Roots /\ q # NoRoot /\ Real[q] = Real[r]
  BY <1>2, <1>3 DEF WatchType, TypeOK, Watches, LeadsThere, Known
<1>5. PathVia(n, Real[r], q) = n
  <2>1. CASE backend = "real"
    BY <2>1 DEF PathVia
  <2>2. CASE backend # "real"
    <3>1. r = Real[r]
      BY <1>1, <2>2 DEF Reaches
    <3>2. IsPrefix(Real[r], n)
      BY <1>1, <1>2, SeenBelow
    <3>3. q = Real[r]
      BY <1>2, <1>4, <3>1, <3>2 DEF LinksAlone
    <3>4. q \o Rest(Real[r], n) = n
      BY <1>2, <3>2, <3>3, RestProperties, Constants
    <3> QED BY <2>2, <3>4 DEF PathVia
  <2> QED BY <2>1, <2>2
<1>6. \A k \in {"close", "name"} : Tells([kind |-> k, path |-> n, node |-> n], n)
  BY DEF Tells, IsWrite
<1>7. CASE n = Real[r]
  <2>1. ownKinds = <<"close">> /\ 1 \in 1 .. Len(ownKinds) /\ ownKinds[1] = "close"
    BY <1>2, <1>7
  <2>2. Contains(events, [kind |-> ownKinds[1], path |-> PathVia(n, n, mark[n]), node |-> n])
    BY <1>2, <1>3, <1>4, <1>7, <2>1, ReportedProperties
  <2> QED BY <1>3, <1>5, <1>6, <1>7, <2>1, <2>2
<1>8. CASE n # Real[r]
  <2>1. Dir[n] = Real[r] /\ Dir[n] # NoNode
    BY <1>1, <1>2, <1>8, Constants DEF Sees
  <2>2. Contains(events, [kind |-> kind, path |-> PathVia(n, Dir[n], mark[Dir[n]]),
                          node |-> n])
    BY <1>2, <1>3, <1>4, <2>1, ReportedProperties
  <2> QED BY <1>3, <1>5, <1>6, <2>1, <2>2
<1> QED BY <1>7, <1>8

(* What is told triggers, however late it is read and whichever root is    *)
(* met first.                                                              *)
LEMMA ToldTriggers ==
  ASSUME LinksAlone, WatchType, Known, NEW n \in Nodes, NEW j \in Watchers(conf, n),
         NEW e \in Event, Tells(e, n), NEW path \in ResolveEventPath(e)
  PROVE  InWatch(j, path)
<1>1. PICK r \in Watch[conf][j] \cap setUp : Sees(r, n)
  BY DEF Watchers
<1>2. /\ r \in Roots /\ Real[r] \in Nodes /\ IsPrefix(Real[r], n)
      /\ canonical[Real[r]] # NoRoot /\ n \in Path /\ e.path = n
  BY <1>1, SeenBelow, Constants DEF WatchType, TypeOK, Known, Tells
<1>3. PICK m \in Nodes : canonical[m] # NoRoot /\ IsPrefix(m, n)
                         /\ path = canonical[m] \o Rest(m, n)
  <2>1. {m \in Nodes : canonical[m] # NoRoot /\ IsPrefix(m, n)} # {}
    BY <1>2
  <2> QED BY <1>2, <2>1 DEF ResolveEventPath
<1>4. PICK q : q = canonical[m]
  OBVIOUS
<1>5. q \in Roots /\ q \in Path /\ m \in Path /\ Real[q] = m
  BY <1>3, <1>4, Constants DEF WatchType, TypeOK, Watches, LeadsThere
<1>6. IsPrefix(r, path)
  <2>1. CASE q = r
    BY <1>1, <1>2, <1>3, <1>4, <1>5, <2>1, SeenBelow
  <2>2. CASE q # r
    <3>1. q = m /\ r = Real[r]
      BY <1>2, <1>3, <1>5, <2>2 DEF LinksAlone
    <3>2. path = n
      BY <1>2, <1>3, <1>4, <1>5, <3>1, RestProperties
    <3> QED BY <1>2, <3>1, <3>2
  <2> QED BY <2>1, <2>2
<1> QED BY <1>1, <1>6 DEF InWatch

LEMMA OwedStep ==
  ASSUME WatchedStay, LinksAlone, WatchType, Known, Owed, [Next]_vars
  PROVE  Owed'
<1>0. due \subseteq Jobs \X Nodes
  BY DEF WatchType, TypeOK
<1>1. ASSUME NEW c \in Configs, Load(c) PROVE Owed'
  <2>1. setUp \subseteq setUp' /\ conf' = c /\ UNCHANGED <<queue, backend>>
    BY <1>1 DEF Load, SetupWatches
  <2>2. \A n : Watchers(c, n) \subseteq Watchers(c, n)'
    BY <2>1 DEF Watchers, Reaches
  <2>3. due' = {d \in due : d[1] \in Watchers(c, d[2])}
    BY <1>1 DEF Load
  <2> QED BY <2>1, <2>2, <2>3 DEF Owed
<1>2. CASE ReadEvent
  <2>1. PICK h : h = Head(queue)
    OBVIOUS
  <2>2. PICK path \in ResolveEventPath(h) :
          triggers' = {[job |-> j, path |-> path, node |-> h.node] :
                         j \in {j \in Jobs : IsWrite(h) /\ InWatch(j, path)}}
    BY <1>2, <2>1 DEF ReadEvent
  <2>3. /\ due' = due \ {<<t.job, t.node>> : t \in triggers'}
        /\ queue' = Tail(queue) /\ UNCHANGED <<conf, setUp, backend>>
    BY <1>2 DEF ReadEvent, watcher
  <2>4. /\ h \in Event
        /\ \A e : Contains(queue, e) => e = h \/ Contains(queue', e)
    BY <1>2, <2>1, <2>3, DrainProperties DEF ReadEvent
  <2>5. ASSUME NEW d \in due' PROVE ~Tells(h, d[2])
    <3>1. /\ d \in due /\ d[1] \in Jobs /\ d[2] \in Nodes /\ d = <<d[1], d[2]>>
          /\ d[1] \in Watchers(conf, d[2])
      BY <1>0, <2>3, <2>5 DEF Owed
    <3>2. ASSUME Tells(h, d[2]) PROVE FALSE
      <4>1. InWatch(d[1], path)
        BY <2>2, <2>4, <3>1, <3>2, ToldTriggers
      <4>2. IsWrite(h) /\ h.node = d[2]
        BY <3>2 DEF Tells
      <4>3. PICK t : t = [job |-> d[1], path |-> path, node |-> h.node]
        OBVIOUS
      <4>4. t \in triggers'
        BY <2>2, <3>1, <4>1, <4>2, <4>3
      <4>5. <<t.job, t.node>> = d
        BY <3>1, <4>2, <4>3
      <4> QED BY <2>3, <2>5, <4>4, <4>5
    <3> QED BY <3>2
  <2>6. \A n : Watchers(conf, n)' = Watchers(conf, n)
    BY <2>3 DEF Watchers, Reaches
  <2> QED BY <2>3, <2>4, <2>5, <2>6 DEF Owed
<1>3. ASSUME NEW n \in Nodes, NEW kind \in Kinds, NEW ownKinds \in Seq(Kinds),
             Change(n, kind, ownKinds),
             \A d \in due' : d \in due \/
                (/\ d[2] = n /\ d[1] \in Watchers(conf, n)
                 /\ \E e : Contains(Reported(n, kind, ownKinds), e) /\ Tells(e, n))
      PROVE  Owed'
  <2>1. /\ \A e : Contains(queue', e) <=>
             Contains(queue, e) \/ Contains(Reported(n, kind, ownKinds), e)
        /\ UNCHANGED <<conf, setUp, backend>>
    BY <1>3, ChangeProperties
  <2>2. \A m : Watchers(conf, m)' = Watchers(conf, m)
    BY <2>1 DEF Watchers, Reaches
  <2> QED BY <1>3, <2>1, <2>2 DEF Owed
<1>4. ASSUME NEW n \in Nodes, CloseWrite(n) PROVE Owed'
  <2>1. "close" \in Kinds /\ <<"close">> \in Seq(Kinds)
    BY KindsOf DEF Kinds
  <2>2. Change(n, "close", <<"close">>) /\ due' = due \cup {<<j, n>> : j \in Watchers(conf, n)}
    BY <1>4 DEF CloseWrite
  <2>3. \A j \in Watchers(conf, n) :
          \E e : Contains(Reported(n, "close", <<"close">>), e) /\ Tells(e, n)
    BY <2>1, WriteIsTold
  <2>4. \A d \in due' : d \in due \/ (d[2] = n /\ d[1] \in Watchers(conf, n))
    BY <2>2
  <2> QED BY <1>3, <2>1, <2>2, <2>3, <2>4
<1>5. ASSUME NEW n \in Nodes, Replace(n) PROVE Owed'
  <2>1. "name" \in Kinds /\ <<"metadata", "remove">> \in Seq(Kinds)
    BY KindsOf DEF Kinds
  <2>2. /\ Change(n, "name", <<"metadata", "remove">>) /\ n \in Replaceable
        /\ due' = due \cup {<<j, n>> : j \in Watchers(conf, n)}
    BY <1>5 DEF Replace
  <2>3. \A r \in Roots : Real[r] # n
    BY <2>2 DEF WatchedStay
  <2>4. \A j \in Watchers(conf, n) :
          \E e : Contains(Reported(n, "name", <<"metadata", "remove">>), e) /\ Tells(e, n)
    BY <2>1, <2>3, WriteIsTold
  <2>5. \A d \in due' : d \in due \/ (d[2] = n /\ d[1] \in Watchers(conf, n))
    BY <2>2
  <2> QED BY <1>3, <2>1, <2>2, <2>4, <2>5
<1>6. ASSUME NEW n \in Nodes, Modify(n) \/ Read(n) \/ Create(n) \/ Unlink(n) PROVE Owed'
  <2>1. due' \subseteq due
    BY <1>6 DEF Modify, Read, Create, Unlink
  <2>2. /\ {"data", "access", "create", "remove"} \subseteq Kinds
        /\ <<"data">> \in Seq(Kinds) /\ <<"access">> \in Seq(Kinds)
        /\ <<>> \in Seq(Kinds) /\ <<"metadata", "remove">> \in Seq(Kinds)
    BY KindsOf DEF Kinds
  <2> QED BY <1>3, <1>6, <2>1, <2>2 DEF Modify, Read, Create, Unlink
<1>7. CASE UNCHANGED vars
  BY <1>7 DEF vars, watcher, files, Owed, Watchers, Reaches
<1> QED BY <1>1, <1>2, <1>4, <1>5, <1>6, <1>7 DEF Next

(* Each save of a file triggers every job that watches it or its directory *)
(* by a path that was there when it was loaded, whatever is loaded, read   *)
(* or changed in between, if what is watched itself is not replaced and    *)
(* links lead to places of their own.                                      *)
THEOREM NoneMissed ==
  ASSUME WatchedStay, LinksAlone
  PROVE  Spec => []NoChangeMissed
<1>1. Init => Known /\ Owed
  BY DEF Init, Known, Owed
<1>2. WatchType /\ Known /\ Owed /\ [Next]_vars => (Known /\ Owed)'
  BY KnownStep, OwedStep
<1>3. Owed => NoChangeMissed
  <2> SUFFICES ASSUME Owed, queue = <<>>, NEW d \in due PROVE FALSE
    BY DEF NoChangeMissed
  <2>1. PICK e : Contains(queue, e)
    BY DEF Owed
  <2> QED BY <2>1 DEF Contains
<1> QED BY <1>1, <1>2, <1>3, WatchTypeHolds, PTL DEF Spec
=============================================================================
