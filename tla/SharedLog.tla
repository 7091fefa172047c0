------------------------------- MODULE SharedLog ------------------------------
(***************************************************************************)
(* The results log as the script and the dashboard share it: ResultsLog    *)
(* implements it, each operation being one step.                           *)
(***************************************************************************)
EXTENDS Runs, Timing

VARIABLE table  \* the runs of the log; a run's id is its place
=============================================================================
