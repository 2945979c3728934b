-------------------------- MODULE MCPreviewGateway --------------------------
(* Instances of PreviewGateway for TLC. *)
EXTENDS PreviewGateway

CONSTANTS p1, p2, q1, q2, q3, x1, x2, n1

\* Two requests to the first preview, the others to the second.
FirstTwo == [r \in Request |-> IF r \in {q1, q2} THEN p1 ELSE p2]
=============================================================================
