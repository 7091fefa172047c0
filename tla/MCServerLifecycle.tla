-------------------------- MODULE MCServerLifecycle ---------------------------
(***************************************************************************)
(* Small instances of ServerLifecycle.                                     *)
(***************************************************************************)
EXTENDS ServerLifecycle, TLC

Perms == Permutations(Reqs)
=============================================================================
