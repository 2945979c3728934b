-------------------------- MODULE MCPreviewManager --------------------------
(* Instances of PreviewManager for TLC. *)
EXTENDS PreviewManager, TLC

CONSTANTS c1, c2, a, b, v1, v2, v3

\* Two generations of project a, and one preview of project b.
TwoProjects == [v \in PreviewId |-> IF v = v3 THEN b ELSE a]

Callers == Permutations({c1, c2})
=============================================================================
