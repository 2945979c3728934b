-------------------------- MODULE MCRuntimeManager --------------------------
(* Instances of RuntimeManager for TLC. *)
EXTENDS RuntimeManager, TLC

CONSTANTS c1, c2, r1, r2, w1

\* One workspace whose generations follow one another.
OneWorkspace == [r \in RuntimeId |-> w1]

Callers == Permutations({c1, c2})
=============================================================================
