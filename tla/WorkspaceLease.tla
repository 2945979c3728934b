--------------------------- MODULE WorkspaceLease ---------------------------
(***************************************************************************)
(* What RuntimeManager promises about a workspace, whatever its threads,   *)
(* timers and provider do: sandboxes of one Redstone process run on a      *)
(* workspace only under the lease of one runtime, a lease is passed on     *)
(* only when nothing of its holder runs, and a process that dies leaves    *)
(* orphans behind that no later process ever starts again.                 *)
(***************************************************************************)
CONSTANTS RuntimeId, Workspace, WorkspaceOf, None

VARIABLES
    holder,     \* the runtime a workspace is leased to
    used,       \* ids that have been given to a runtime
    live,       \* runtimes of this process with a running sandbox
    orphans     \* runtimes of dead processes with a running sandbox

vars == <<holder, used, live, orphans>>

Init ==
    /\ holder = [w \in Workspace |-> None]
    /\ used = {}
    /\ live = {}
    /\ orphans = {}

Acquire(r) ==
    /\ r \notin used
    /\ holder[WorkspaceOf[r]] = None
    /\ holder' = [holder EXCEPT ![WorkspaceOf[r]] = r]
    /\ used' = used \cup {r}
    /\ UNCHANGED <<live, orphans>>

Run(r) ==
    /\ holder[WorkspaceOf[r]] = r
    /\ live' = live \cup {r}
    /\ UNCHANGED <<holder, used, orphans>>

End(r) ==
    /\ r \in live \cup orphans
    /\ live' = live \ {r}
    /\ orphans' = orphans \ {r}
    /\ UNCHANGED <<holder, used>>

Free(w) ==
    /\ holder[w] # None
    /\ holder[w] \notin live
    /\ holder' = [holder EXCEPT ![w] = None]
    /\ UNCHANGED <<used, live, orphans>>

Die ==
    /\ holder' = [w \in Workspace |-> None]
    /\ live' = {}
    /\ orphans' = orphans \cup live
    /\ UNCHANGED used

Next ==
    \/ \E r \in RuntimeId : Acquire(r) \/ Run(r) \/ End(r)
    \/ \E w \in Workspace : Free(w)
    \/ Die

Spec == Init /\ [][Next]_vars

\* What follows from the leases: two runtimes that run in one workspace are the
\* same one.
Exclusive ==
    \A r, q \in live : WorkspaceOf[r] = WorkspaceOf[q] => r = q
=============================================================================
