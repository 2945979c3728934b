--------------------------- MODULE MCDockerSandbox ---------------------------
(* Instances of DockerSandbox for TLC. *)
EXTENDS DockerSandbox

Every == {"validate", "install", "serve", "preview"}
=============================================================================
