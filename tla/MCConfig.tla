------------------------------ MODULE MCConfig ------------------------------
(* Small configurations for TLC.                                           *)
EXTENDS Config, TLC

Ok == "cmdline" :> {"/bin/ok"}
Gone == "cmdline" :> {"/bin/gone"}
Every == "conflicts" :> {"*"}

TwoFiles == <<"kubjas.conf", "kubjas.d/extra">>

(* kubjas.conf: a default list and flag that one job keeps and another     *)
(* changes; a job whose command is gone; a wildcard; the file cut short.   *)
Main1 == ("*" :> (("nice" :> {"1"}) @@ ("interval" :> {"60"}) @@ Every))
  @@ ("a" :> (Ok @@ ("nice" :> {})))
  @@ ("b" :> (Gone @@ ("interval" :> {"10"})))
Main2 == ("a" :> (Ok @@ Every @@ ("interval" :> {"often"})))
  @@ ("b" :> (Ok @@ ("conflicts" :> {"c"}))) @@ ("c" :> Ok)
(* kubjas.d/extra: the same names again, and a default that one section    *)
(* alone in its file cannot expand.                                        *)
Extra1 == ("*" :> ((Ok @@ ("conflicts" :> {"a"}))))
  @@ ("b" :> ("interval" :> {"60"})) @@ ("c" :> ("depends" :> {"*"}))
Extra2 == ("*" :> ("conflicts" :> {"a"})) @@ ("c" :> (Ok @@ Every))

Edited == ("kubjas.conf" :> {Main1, Main2, <<>>})
       @@ ("kubjas.d/extra" :> {Extra1, Extra2})
=============================================================================
