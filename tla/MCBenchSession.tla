---------------------------- MODULE MCBenchSession ----------------------------
(***************************************************************************)
(* Small instances of BenchSession: scripts 1, 2, ... with a mode, an      *)
(* experiment id and numbers of samples each.                              *)
(***************************************************************************)
EXTENDS BenchSession

AllModes == <<"multiplex", "blob", "probe", "multiplex">>
OneReuse == <<"multiplex">>

OwnIds == [s \in Scripts |-> s]

Zero  == [s \in Scripts |-> 0]
Three == [s \in Scripts |-> 3]

OnlyProbesWarm == [s \in Scripts |-> IF Mode[s] = "probe" THEN 1 ELSE 0]
ReuseTwo       == [s \in Scripts |-> IF s = 1 THEN 2 ELSE 1]
=============================================================================
