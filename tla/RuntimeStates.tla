--------------------------- MODULE RuntimeStates ---------------------------
(***************************************************************************)
(* The runtime state machine of redstone/runtime/models.py: the states of  *)
(* RuntimeState and the relation can_transition_runtime() decides.         *)
(***************************************************************************)

\* RuntimeState (domain/models.py).  "idle" and "expired" are reserved there:
\* the graph knows them and no operation assigns them.
State == {"created", "starting", "running", "idle", "stopping", "stopped",
          "failed", "killed", "destroyed", "expired"}

\* TERMINAL_RUNTIME_STATES: no longer the workspace's active runtime.
Terminal == {"stopped", "failed", "killed", "destroyed", "expired"}

Active == State \ Terminal

Resting == {"stopped", "failed", "killed"}

\* _ACTIVE_TRANSITIONS, the productive moves.
Productive ==
    {<<"created", "starting">>, <<"created", "stopping">>,
     <<"starting", "running">>,
     <<"running", "idle">>, <<"running", "stopping">>,
     <<"idle", "running">>, <<"idle", "stopping">>,
     <<"stopping", "stopped">>}

\* can_transition_runtime(current, target).
CanTransition(current, target) ==
    \/ current \in Resting /\ target = "destroyed"
    \/ current \in Active /\ target \in {"failed", "killed", "destroyed"}
    \/ current \in Active /\ <<current, target>> \in Productive
=============================================================================
