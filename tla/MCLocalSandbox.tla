--------------------------- MODULE MCLocalSandbox ---------------------------
(* Instances of LocalSandbox for TLC. *)
EXTENDS LocalSandbox

Both == {"run", "serve"}
=============================================================================
