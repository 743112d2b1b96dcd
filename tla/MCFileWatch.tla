----------------------------- MODULE MCFileWatch -----------------------------
(* Small file systems for TLC.                                             *)
EXTENDS FileWatch, TLC

CONSTANTS jobA, jobB

(* A directory with a file that is replaced by renames, a file whose name  *)
(* continues that of the first one, and a file behind a link.              *)
Spool == <<"/spool">>
Upload == <<"/spool", "/up">>
Beside == <<"/spool", "/up", "2">>
Setting == <<"/etc", "/conf">>
Link == <<"/link">>

FourNodes == {Spool, Upload, Beside, Setting}
SpoolDir == (Spool :> NoNode) @@ (Upload :> Spool) @@ (Beside :> Spool) @@ (Setting :> NoNode)
LinkReal == (Spool :> Spool) @@ (Beside :> Beside) @@ (Link :> Setting)
LateNodes == {Beside, Setting}
Uploads == {Upload}
TwoWatches ==
  [uploads |-> (jobA :> {Spool}) @@ (jobB :> {Beside}),
   setting |-> (jobA :> {Beside}) @@ (jobB :> {Link})]

(* A file that is watched itself and is saved by an editor that renames.   *)
OneNode == {Setting}
NoDirs == Setting :> NoNode
OneReal == Setting :> Setting
OneWatch == [setting |-> (jobA :> {Setting})]
=============================================================================
