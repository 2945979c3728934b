----------------------------- MODULE MCAgentTask -----------------------------
(* Instances of AgentTask for TLC. *)
EXTENDS AgentTask

CONSTANTS t1, t2, w1

\* Two tasks of one workspace.
OneWorkspace == [t \in Task |-> w1]
=============================================================================
