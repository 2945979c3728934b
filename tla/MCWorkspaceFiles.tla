-------------------------- MODULE MCWorkspaceFiles --------------------------
(* Instances of WorkspaceFiles for TLC. *)
EXTENDS WorkspaceFiles, TLC

CONSTANTS t1, t2, a, b, env, modules, dist, s1, s2

Swaps == Permutations({t1, t2}) \cup Permutations({a, b}) \cup Permutations({modules, dist})
=============================================================================
