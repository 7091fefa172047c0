----------------------------- MODULE MCResultsLog -----------------------------
(***************************************************************************)
(* Small instances of ResultsLog: two recorded runs of one experiment that *)
(* share a blob name, and posts that address them by experiment or name.   *)
(***************************************************************************)
EXTENDS ResultsLog, TLC

D1 == [op |-> "download", name |-> 7, exp |-> 5, idx |-> 1]
D2 == [op |-> "download", name |-> 7, exp |-> 5, idx |-> 2]

ByExperiment == [op |-> "download", name |-> 8, exp |-> 5, idx |-> 1,
                 phases |-> 1, hs |-> 1]
ByName == [op |-> "download", name |-> 7, exp |-> 0, idx |-> 2,
           phases |-> 2, hs |-> 0]

MCDrafts == {D1, D2}
MCPosts  == {ByExperiment, ByName}

OneDraft == {D1}
OnePost  == {ByExperiment}

Perms == Permutations(Threads)
=============================================================================
