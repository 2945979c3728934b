--------------------------- MODULE RuntimeManager ---------------------------
(***************************************************************************)
(* redstone/runtime/manager.py: RuntimeManager, the threads that call it   *)
(* and the sandboxes it drives through a SandboxProvider.                  *)
(*                                                                         *)
(* A runtime is one generation of a workspace's dev server.  The manager   *)
(* keeps a lease per workspace (_workspace_active), an operation lock per  *)
(* runtime (_op_locks) and an expiry timer per running runtime.  Its own   *)
(* dictionaries are read and written under a short lock, so each such      *)
(* section is part of one step; every call of the provider is a step of    *)
(* its own, because it blocks for seconds while other threads move.        *)
(*                                                                         *)
(* Left out: ownership checks (they raise before anything changes), error  *)
(* codes, logs and events.                                                 *)
(***************************************************************************)
EXTENDS RuntimeStates, Naturals

CONSTANTS
    Caller,         \* threads of API handlers, the preview manager, the sweeper
    RuntimeId,      \* the ids new_id("rt") hands out; r also names r's timer thread
    Workspace,
    WorkspaceOf,    \* the workspace a runtime id will be created for
    None,           \* no runtime, no thread
    Ops,            \* the operations callers use, a bound of the instance
    ProviderFails,  \* whether provider calls may raise
    MaxCrashes      \* how often the Redstone process may die, a bound

Proc == Caller \cup RuntimeId

ASSUME RuntimeManagerAssumption ==
    /\ WorkspaceOf \in [RuntimeId -> Workspace]
    /\ Caller \cap RuntimeId = {}
    /\ None \notin Proc
    /\ ProviderFails \in BOOLEAN
    /\ MaxCrashes \in Nat

\* start() makes at most one sandbox of each kind: a bounded install and the
\* long-running dev server.
Kind == {"install", "dev"}
Sandbox == RuntimeId \X Kind

VARIABLES
    state,      \* Runtime.state; "absent" before create(), "lost" once the
                \* process that knew the runtime has died
    sandboxId,  \* Runtime.sandbox_id: the kind recorded, or "none"
    lease,      \* _workspace_active
    opLock,     \* _op_locks: the thread holding each one
    timer,      \* _expiry_timers
    sandbox,    \* what the provider's backend holds
    pc, target, \* what each thread does, and to which runtime
    then,       \* the caller of the operation the thread is in
    todo,       \* sandboxes a reconciling thread still has to look at
    keep,       \* live_runtime_ids of reconcile_orphaned_containers()
    serving,    \* create_app() has returned
    crashes

records == <<state, sandboxId, lease, timer>>
local == <<target, then, todo, keep>>
vars == <<state, sandboxId, lease, opLock, timer, sandbox,
          pc, target, then, todo, keep, serving, crashes>>

\* The steps a thread takes while it holds the operation lock of its target.
Locked == {"installCreate", "installStart", "installWait", "installDone",
           "installBad", "devCreate", "devStart", "devAbort", "probe",
           "teardown", "fail", "release", "stopCall", "stopSave", "stopped",
           "killCall", "killSave", "destroyCall", "destroySave",
           "crashCall", "crashSave"}

Unlocked == {"idle", "startLock", "killLock", "restartCreate", "expireSave",
             "healthCheck", "crashLock", "reconcile", "orphanList", "orphan"}

SandboxState == {"none", "created", "running", "exited", "gone"}

TypeOK ==
    /\ state \in [RuntimeId -> State \cup {"absent", "lost"}]
    /\ sandboxId \in [RuntimeId -> Kind \cup {"none"}]
    /\ lease \in [Workspace -> RuntimeId \cup {None}]
    /\ opLock \in [RuntimeId -> Proc \cup {None}]
    /\ timer \in [RuntimeId -> {"none", "armed"}]
    /\ sandbox \in [Sandbox -> SandboxState]
    /\ pc \in [Proc -> Locked \cup Unlocked]
    /\ target \in [Proc -> RuntimeId \cup {None}]
    /\ then \in [Proc -> {"none", "restart", "expire", "reconcile"}]
    /\ todo \in [Proc -> SUBSET Sandbox]
    /\ keep \in [Proc -> SUBSET RuntimeId]
    /\ serving \in BOOLEAN
    /\ crashes \in Nat

Init ==
    /\ state = [r \in RuntimeId |-> "absent"]
    /\ sandboxId = [r \in RuntimeId |-> "none"]
    /\ lease = [w \in Workspace |-> None]
    /\ opLock = [r \in RuntimeId |-> None]
    /\ timer = [r \in RuntimeId |-> "none"]
    /\ sandbox = [x \in Sandbox |-> "none"]
    /\ pc = [p \in Proc |-> "idle"]
    /\ target = [p \in Proc |-> None]
    /\ then = [p \in Proc |-> "none"]
    /\ todo = [p \in Proc |-> {}]
    /\ keep = [p \in Proc |-> {}]
    /\ serving = FALSE
    /\ crashes = 0

-----------------------------------------------------------------------------
(* Threads and locks.                                                      *)

Goto(p, label) == pc' = [pc EXCEPT ![p] = label]

\* The sandbox recorded for thread p's runtime.
Recorded(p) == <<target[p], sandboxId[target[p]]>>

\* Caller p begins an operation on runtime r.
Idle(p, op) == p \in Caller /\ pc[p] = "idle" /\ serving /\ op \in Ops

\* `with self._op_lock(r)`: p waits until the lock is free.
Lock(p, r) == opLock[r] = None /\ opLock' = [opLock EXCEPT ![r] = p]

Unlock(p) == opLock' = [opLock EXCEPT ![target[p]] = None]

Call(p, r, caller) ==
    /\ target' = [target EXCEPT ![p] = r]
    /\ then' = [then EXCEPT ![p] = caller]
    /\ UNCHANGED <<todo, keep>>

\* Where a thread goes when stop/kill/destroy/_mark_crashed returns.
Return(p) == IF then[p] = "restart" THEN "restartCreate"
             ELSE IF then[p] = "expire" THEN "expireSave"
             ELSE IF then[p] = "reconcile" THEN "reconcile"
             ELSE "idle"

\* The operation raises: its whole call chain unwinds.
Raise(p) == Unlock(p) /\ Goto(p, "idle")

Save(r, s) == state' = [state EXCEPT ![r] = s]

Record(p, kind) == sandboxId' = [sandboxId EXCEPT ![target[p]] = kind]

Becomes(x, s) == sandbox' = [sandbox EXCEPT ![x] = s]

-----------------------------------------------------------------------------
(* The provider: what a call may do to sandbox x when it raises.  A docker *)
(* command that times out may or may not have taken effect.                *)

DestroyRaises(x) ==
    /\ ProviderFails
    /\ sandbox' = sandbox \/ Becomes(x, "gone")

\* stop or kill, then destroy, one of them raising.
TeardownRaises(x) ==
    /\ ProviderFails
    /\ \/ sandbox' = sandbox
       \/ sandbox[x] = "running" /\ Becomes(x, "exited")
       \/ Becomes(x, "gone")

\* create() raises; the container may exist, never started, all the same.
CreateRaises(x) ==
    /\ ProviderFails
    /\ sandbox' = sandbox \/ Becomes(x, "created")

\* start() raises when the container was removed under it, or times out.
StartRaises(x) ==
    \/ sandbox[x] # "created" /\ sandbox' = sandbox
    \/ ProviderFails /\ sandbox' = sandbox
    \/ ProviderFails /\ sandbox[x] = "created" /\ Becomes(x, "running")

-----------------------------------------------------------------------------
(* create() and start().                                                   *)

\* Mutation: create() does not look for an existing lease.
Admit_NotBusy(r) ==
    /\ state[r] = "absent"
    /\ Save(r, "created")
    /\ lease' = [lease EXCEPT ![WorkspaceOf[r]] = r]

\* The record and the lease are written in one section of self._lock.
Admit(r) ==
    /\ state[r] = "absent"
    /\ lease[WorkspaceOf[r]] = None
    /\ Save(r, "created")
    /\ lease' = [lease EXCEPT ![WorkspaceOf[r]] = r]

Create(p, r) ==
    /\ Idle(p, "create")
    /\ Admit(r)
    /\ UNCHANGED <<sandboxId, opLock, timer, sandbox, pc, local, serving, crashes>>

\* package.json decides whether dependencies are installed first.
StartBegin(p, r) ==
    /\ \/ Idle(p, "start") /\ Call(p, r, "none")
       \/ pc[p] = "startLock" /\ r = target[p] /\ UNCHANGED local
    /\ state[r] = "created"
    /\ Lock(p, r)
    /\ Save(r, "starting")
    /\ \E next \in {"installCreate", "devCreate"} : Goto(p, next)
    /\ UNCHANGED <<sandboxId, lease, timer, sandbox, serving, crashes>>

\* restart() lost its new runtime to a concurrent stop, kill or destroy:
\* transition() raises INVALID_TRANSITION.
StartRefused(p) ==
    /\ pc[p] = "startLock"
    /\ opLock[target[p]] = None
    /\ state[target[p]] # "created"
    /\ Goto(p, "idle")
    /\ UNCHANGED <<records, opLock, sandbox, local, serving, crashes>>

\* provider.create() and the _save() of the id it returns.
MakeSandbox(p, kind, next) ==
    LET x == <<target[p], kind>> IN
    \/ /\ Becomes(x, "created")
       /\ Record(p, kind)
       /\ Goto(p, next)
    \/ /\ CreateRaises(x)
       /\ Goto(p, "fail")
       /\ UNCHANGED sandboxId

SandboxStep == UNCHANGED <<state, lease, opLock, timer, local, serving, crashes>>

InstallCreate(p) ==
    /\ pc[p] = "installCreate"
    /\ MakeSandbox(p, "install", "installStart")
    /\ SandboxStep

InstallStart(p) ==
    LET x == <<target[p], "install">> IN
    /\ pc[p] = "installStart"
    /\ \/ sandbox[x] = "created" /\ Becomes(x, "running") /\ Goto(p, "installWait")
       \/ StartRaises(x) /\ Goto(p, "installBad")
    /\ UNCHANGED sandboxId /\ SandboxStep

\* wait(): the install ends by itself, with or without success, or the
\* timeout kills it; the kill may raise.
InstallWait(p) ==
    LET x == <<target[p], "install">> IN
    /\ pc[p] = "installWait"
    /\ \/ sandbox[x] = "exited" /\ Goto(p, "installDone") /\ UNCHANGED sandbox
       \/ sandbox[x] # "running" /\ Goto(p, "installBad") /\ UNCHANGED sandbox
       \/ sandbox[x] = "running" /\ Goto(p, "installBad") /\ Becomes(x, "exited")
       \/ ProviderFails /\ Goto(p, "installBad") /\ UNCHANGED sandbox
    /\ UNCHANGED sandboxId /\ SandboxStep

\* The finally clause of _run_install().
InstallDestroy(p) ==
    LET x == <<target[p], "install">> IN
    /\ pc[p] \in {"installDone", "installBad"}
    /\ \/ /\ Becomes(x, "gone")
          /\ Record(p, "none")
          /\ Goto(p, IF pc[p] = "installDone" THEN "devCreate" ELSE "fail")
       \/ /\ DestroyRaises(x)
          /\ Goto(p, "fail")
          /\ UNCHANGED sandboxId
    /\ SandboxStep

DevCreate(p) ==
    /\ pc[p] = "devCreate"
    /\ MakeSandbox(p, "dev", "devStart")
    /\ SandboxStep

DevStart(p) ==
    LET x == <<target[p], "dev">> IN
    /\ pc[p] = "devStart"
    /\ \/ sandbox[x] = "created" /\ Becomes(x, "running") /\ Goto(p, "probe")
       \/ StartRaises(x) /\ Goto(p, "devAbort")
    /\ UNCHANGED sandboxId /\ SandboxStep

\* The except clause of _start_dev_server().
DevAbort(p) ==
    LET x == <<target[p], "dev">> IN
    /\ pc[p] = "devAbort"
    /\ Goto(p, "fail")
    /\ \/ Becomes(x, "gone") /\ Record(p, "none")
       \/ DestroyRaises(x) /\ UNCHANGED sandboxId
    /\ SandboxStep

\* Mutation: a running runtime gets no timer.
ArmExpiry_Never(p) == timer' = timer

ArmExpiry(p) == timer' = [timer EXCEPT ![target[p]] = "armed"]

\* _wait_until_healthy(): an answered probe makes the runtime RUNNING and arms
\* its expiry timer.
Healthy(p) ==
    /\ pc[p] = "probe"
    /\ sandbox[<<target[p], "dev">>] = "running"
    /\ Save(target[p], "running")
    /\ ArmExpiry(p)
    /\ Unlock(p) /\ Goto(p, "idle")
    /\ UNCHANGED <<sandboxId, lease, sandbox, local, serving, crashes>>

\* A dead sandbox or the deadline ends the poll; status() may raise, which
\* skips the teardown.
Unhealthy(p) ==
    /\ pc[p] = "probe"
    /\ \/ Goto(p, "teardown")
       \/ ProviderFails /\ Goto(p, "fail")
    /\ UNCHANGED <<records, opLock, sandbox, local, serving, crashes>>

Teardown(p) ==
    LET x == <<target[p], "dev">> IN
    /\ pc[p] = "teardown"
    /\ Goto(p, "fail")
    /\ \/ Becomes(x, "gone") /\ Record(p, "none")
       \/ TeardownRaises(x) /\ UNCHANGED sandboxId
    /\ SandboxStep

\* The except clauses of start(): FAILED, and the lease is kept for destroy()
\* while a sandbox is still recorded.
\* Mutations: the lease is released under a sandbox, or never released.
FailKeepsLease_Never(p) == FALSE
FailKeepsLease_Always(p) == TRUE

FailKeepsLease(p) == sandboxId[target[p]] # "none"

\* Mutation: the except clause re-raises before it records the failure.
MarkFailed_Never(p) == state' = state

MarkFailed(p) == Save(target[p], "failed")

Fail(p) ==
    /\ pc[p] = "fail"
    /\ MarkFailed(p)
    /\ IF FailKeepsLease(p)
         THEN Raise(p)
         ELSE Goto(p, "release") /\ UNCHANGED opLock
    /\ UNCHANGED <<sandboxId, lease, timer, sandbox, local, serving, crashes>>

-----------------------------------------------------------------------------
(* The end of every successful termination: _cancel_expiry() and           *)
(* _release_slot(), then the operation lock.  The two sections are one     *)
(* step: between them a timer that fires finds the runtime not RUNNING.    *)

LeaseAfter(r) ==
    [w \in Workspace |-> IF lease[w] = r THEN None ELSE lease[w]]

Release(p) ==
    /\ pc[p] = "release"
    /\ timer' = [timer EXCEPT ![target[p]] = "none"]
    /\ lease' = LeaseAfter(target[p])
    /\ Unlock(p) /\ Goto(p, Return(p))
    /\ UNCHANGED <<state, sandboxId, sandbox, local, serving, crashes>>

\* The provider calls of a termination: they are skipped when no sandbox is
\* recorded, and when one raises the operation fails and changes nothing.
End(p, next) ==
    \/ sandboxId[target[p]] = "none" /\ Goto(p, next) /\ UNCHANGED <<sandbox, opLock>>
    \/ /\ sandboxId[target[p]] # "none"
       /\ Becomes(Recorded(p), "gone") /\ Goto(p, next) /\ UNCHANGED opLock

EndRaises(p) ==
    /\ sandboxId[target[p]] # "none"
    /\ TeardownRaises(Recorded(p))
    /\ Raise(p)

\* transition() and _save() of the state an operation ends in.
Move(p, label, s, next) ==
    /\ pc[p] = label
    /\ CanTransition(state[target[p]], s)
    /\ Save(target[p], s)
    /\ Goto(p, next)
    /\ UNCHANGED <<sandboxId, lease, opLock, timer, sandbox, local, serving, crashes>>

EndCall(p, label, next) ==
    /\ pc[p] = label
    /\ End(p, next) \/ EndRaises(p)
    /\ UNCHANGED <<records, local, serving, crashes>>

Begin(p, r, label) ==
    /\ Lock(p, r)
    /\ Goto(p, label)
    /\ UNCHANGED <<records, sandbox, serving, crashes>>

(* stop(): a terminal runtime is returned as it is. *)
StopBegin(p, r) ==
    /\ Idle(p, "stop") /\ Call(p, r, "none")
    /\ state[r] \in Active
    /\ Begin(p, r, "stopCall")

StopCall(p) == EndCall(p, "stopCall", "stopSave")
StopSave(p) == Move(p, "stopSave", "stopping", "stopped")
Stopped(p) == Move(p, "stopped", "stopped", "release")

(* kill(), by a caller or by the expiry timer. *)
KillBegin(p, r) ==
    /\ \/ Idle(p, "kill") /\ Call(p, r, "none")
       \/ pc[p] = "killLock" /\ r = target[p] /\ UNCHANGED local
    /\ state[r] \in Active
    /\ Begin(p, r, "killCall")

KillCall(p) == EndCall(p, "killCall", "killSave")
KillSave(p) == Move(p, "killSave", "killed", "release")

(* destroy(), alone or as the first half of restart(). *)
DestroyBegin(p, r) ==
    /\ \/ Idle(p, "destroy") /\ Call(p, r, "none")
       \/ Idle(p, "restart") /\ Call(p, r, "restart")
    /\ state[r] \in State \ {"destroyed"}
    /\ Begin(p, r, "destroyCall")

\* Mutation: destroy() swallows what provider.destroy() raises.
DestroyRaisesOrEnds_Swallows(p) ==
    \/ End(p, "destroySave")
    \/ /\ sandboxId[target[p]] # "none" /\ DestroyRaises(Recorded(p))
       /\ Goto(p, "destroySave") /\ UNCHANGED opLock

DestroyRaisesOrEnds(p) ==
    \/ End(p, "destroySave")
    \/ sandboxId[target[p]] # "none" /\ DestroyRaises(Recorded(p)) /\ Raise(p)

DestroyCall(p) ==
    /\ pc[p] = "destroyCall"
    /\ DestroyRaisesOrEnds(p)
    /\ UNCHANGED <<records, local, serving, crashes>>

DestroySave(p) == Move(p, "destroySave", "destroyed", "release")

-----------------------------------------------------------------------------
(* restart(): destroy, then create and start the next generation.          *)

RestartOfDestroyed(p, r) ==
    /\ Idle(p, "restart") /\ Call(p, r, "restart")
    /\ state[r] = "destroyed"
    /\ opLock[r] = None
    /\ Goto(p, "restartCreate")
    /\ UNCHANGED <<records, opLock, sandbox, serving, crashes>>

RestartCreate(p, r) ==
    /\ pc[p] = "restartCreate"
    /\ WorkspaceOf[r] = WorkspaceOf[target[p]]
    /\ Admit(r)
    /\ Call(p, r, "none")
    /\ Goto(p, "startLock")
    /\ UNCHANGED <<sandboxId, opLock, timer, sandbox, serving, crashes>>

\* Another runtime took the workspace (or the instance is out of ids).
RestartBusy(p) ==
    LET w == WorkspaceOf[target[p]] IN
    /\ pc[p] = "restartCreate"
    /\ lease[w] # None \/ \A r \in RuntimeId : WorkspaceOf[r] = w => state[r] # "absent"
    /\ Goto(p, "idle")
    /\ UNCHANGED <<records, opLock, sandbox, local, serving, crashes>>

-----------------------------------------------------------------------------
(* The expiry timer: _expire_runtime() runs in the thread named r.         *)

ExpiryFires(r) ==
    /\ pc[r] = "idle"
    /\ timer[r] = "armed"
    /\ timer' = [timer EXCEPT ![r] = "none"]
    /\ IF state[r] = "running"
         THEN Call(r, r, "expire") /\ Goto(r, "killLock")
         ELSE UNCHANGED <<local, pc>>
    /\ UNCHANGED <<state, sandboxId, lease, opLock, sandbox, serving, crashes>>

\* kill() found the runtime already terminal and returned its record.
ExpiryTooLate(p) ==
    /\ pc[p] = "killLock"
    /\ opLock[target[p]] = None
    /\ state[target[p]] \in Terminal
    /\ Goto(p, IF state[target[p]] = "killed" THEN "expireSave" ELSE "idle")
    /\ UNCHANGED <<records, opLock, sandbox, local, serving, crashes>>

\* _save(stopped.with_error(...)): the KILLED record kill() returned is
\* written back, under self._lock but without the operation lock.
ExpirySave(p) ==
    /\ pc[p] = "expireSave"
    /\ Save(target[p], "killed")
    /\ Goto(p, "idle")
    /\ UNCHANGED <<sandboxId, lease, opLock, timer, sandbox, local, serving, crashes>>

-----------------------------------------------------------------------------
(* health_check(): reads the record without the operation lock, then asks  *)
(* the provider, then takes the lock in _mark_crashed().                   *)

HealthRead(p, r) ==
    /\ Idle(p, "health") /\ Call(p, r, "none")
    /\ state[r] = "running" /\ sandboxId[r] # "none"
    /\ Goto(p, "healthCheck")
    /\ UNCHANGED <<records, opLock, sandbox, serving, crashes>>

\* status() or the probe says dead; a hung server may fail the probe.
HealthCheck(p) ==
    /\ pc[p] = "healthCheck"
    /\ \/ sandbox[<<target[p], "dev">>] = "running" /\ Goto(p, "idle")
       \/ ProviderFails /\ Goto(p, "idle")
       \/ Goto(p, "crashLock")
    /\ UNCHANGED <<records, opLock, sandbox, local, serving, crashes>>

\* _mark_crashed() after a concurrent termination.
CrashHandled(p) ==
    /\ pc[p] = "crashLock"
    /\ opLock[target[p]] = None
    /\ state[target[p]] \in Terminal
    /\ Goto(p, Return(p))
    /\ UNCHANGED <<records, opLock, sandbox, local, serving, crashes>>

\* Mutation: _mark_crashed() trusts the record its caller read.
CrashBegin_NoReread(p) ==
    /\ pc[p] = "crashLock"
    /\ Begin(p, target[p], "crashCall") /\ UNCHANGED local

CrashBegin(p) ==
    /\ pc[p] = "crashLock"
    /\ state[target[p]] \in Active
    /\ Begin(p, target[p], "crashCall") /\ UNCHANGED local

\* The teardown; when it raises the runtime is FAILED and keeps its lease.
CrashCall(p) ==
    /\ pc[p] = "crashCall"
    /\ \/ End(p, "crashSave") /\ UNCHANGED state
       \/ /\ sandboxId[target[p]] # "none"
          /\ TeardownRaises(Recorded(p))
          /\ Save(target[p], "failed")
          /\ Unlock(p) /\ Goto(p, Return(p))
    /\ UNCHANGED <<sandboxId, lease, timer, local, serving, crashes>>

CrashSave(p) == Move(p, "crashSave", "failed", "release")

-----------------------------------------------------------------------------
(* reconcile(): a snapshot of the records, then one status() per sandbox   *)
(* id of the snapshot.                                                     *)

ReconcileRead(p) ==
    /\ Idle(p, "reconcile")
    /\ todo' = [todo EXCEPT ![p] =
                  {<<r, sandboxId[r]>> :
                     r \in {q \in RuntimeId : state[q] \in Active /\ sandboxId[q] # "none"}}]
    /\ then' = [then EXCEPT ![p] = "reconcile"]
    /\ Goto(p, "reconcile")
    /\ UNCHANGED <<records, opLock, sandbox, target, keep, serving, crashes>>

ReconcileStep(p, x) ==
    /\ pc[p] = "reconcile"
    /\ x \in todo[p]
    /\ todo' = [todo EXCEPT ![p] = @ \ {x}]
    /\ IF sandbox[x] = "running"
         THEN UNCHANGED <<pc, target>>
         ELSE target' = [target EXCEPT ![p] = x[1]] /\ Goto(p, "crashLock")
    /\ UNCHANGED <<records, opLock, sandbox, then, keep, serving, crashes>>

\* The snapshot is done, or a status() raised and ended the pass.
ReconcileEnd(p) ==
    /\ pc[p] = "reconcile"
    /\ todo[p] = {} \/ ProviderFails
    /\ todo' = [todo EXCEPT ![p] = {}]
    /\ Goto(p, "idle")
    /\ UNCHANGED <<records, opLock, sandbox, target, then, keep, serving, crashes>>

-----------------------------------------------------------------------------
(* reconcile_orphaned_containers(), called by create_app() before the      *)
(* process serves, and by whoever calls it later.                          *)

OrphanRead(p) ==
    /\ p \in Caller /\ pc[p] = "idle"
    /\ \/ serving /\ "orphans" \in Ops
       \/ ~serving /\ \A q \in Proc : pc[q] = "idle"
    /\ keep' = [keep EXCEPT ![p] = {r \in RuntimeId : state[r] \in Active}]
    /\ Goto(p, "orphanList")
    /\ UNCHANGED <<records, opLock, sandbox, target, then, todo, serving, crashes>>

\* list_managed() asks the backend; create_app() swallows its error.
OrphanList(p) ==
    /\ pc[p] = "orphanList"
    /\ \/ /\ todo' = [todo EXCEPT ![p] =
                        {x \in Sandbox : /\ sandbox[x] \in {"created", "running", "exited"}
                                         /\ x[1] \notin keep[p]}]
          /\ Goto(p, "orphan")
          /\ UNCHANGED <<keep, serving>>
       \/ /\ ProviderFails
          /\ keep' = [keep EXCEPT ![p] = {}]
          /\ Goto(p, "idle")
          /\ serving' = TRUE
          /\ UNCHANGED todo
    /\ UNCHANGED <<records, opLock, sandbox, target, then, crashes>>

\* One orphan; a destroy that raises is reported and the loop goes on.
OrphanDestroy(p, x) ==
    /\ pc[p] = "orphan"
    /\ x \in todo[p]
    /\ todo' = [todo EXCEPT ![p] = @ \ {x}]
    /\ Becomes(x, "gone") \/ DestroyRaises(x)
    /\ UNCHANGED <<records, opLock, pc, target, then, keep, serving, crashes>>

OrphanEnd(p) ==
    /\ pc[p] = "orphan"
    /\ todo[p] = {}
    /\ keep' = [keep EXCEPT ![p] = {}]
    /\ Goto(p, "idle")
    /\ serving' = TRUE
    /\ UNCHANGED <<records, opLock, sandbox, target, then, todo, crashes>>

-----------------------------------------------------------------------------
(* The environment.                                                        *)

\* The process in a sandbox ends: by itself, out of memory, or killed by the
\* storage watchdog.
SandboxExits(x) ==
    /\ sandbox[x] = "running"
    /\ Becomes(x, "exited")
    /\ UNCHANGED <<records, opLock, pc, local, serving, crashes>>

\* The Redstone process dies and starts again: everything but the backend's
\* sandboxes is gone.
ProcessDies ==
    /\ crashes < MaxCrashes
    /\ crashes' = crashes + 1
    /\ state' = [r \in RuntimeId |-> IF state[r] = "absent" THEN "absent" ELSE "lost"]
    /\ sandboxId' = [r \in RuntimeId |-> "none"]
    /\ lease' = [w \in Workspace |-> None]
    /\ opLock' = [r \in RuntimeId |-> None]
    /\ timer' = [r \in RuntimeId |-> "none"]
    /\ pc' = [p \in Proc |-> "idle"]
    /\ target' = [p \in Proc |-> None]
    /\ then' = [p \in Proc |-> "none"]
    /\ todo' = [p \in Proc |-> {}]
    /\ keep' = [p \in Proc |-> {}]
    /\ serving' = FALSE
    /\ UNCHANGED sandbox

-----------------------------------------------------------------------------
\* A caller begins an operation.
Request(p) ==
    \/ \E r \in RuntimeId :
         \/ Create(p, r)
         \/ Idle(p, "start") /\ StartBegin(p, r)
         \/ StopBegin(p, r)
         \/ Idle(p, "kill") /\ KillBegin(p, r)
         \/ DestroyBegin(p, r)
         \/ RestartOfDestroyed(p, r)
         \/ HealthRead(p, r)
    \/ ReconcileRead(p)
    \/ OrphanRead(p)

\* A thread goes on with the operation it is in.
Continue(p) ==
    \/ InstallCreate(p) \/ InstallStart(p) \/ InstallWait(p) \/ InstallDestroy(p)
    \/ DevCreate(p) \/ DevStart(p) \/ DevAbort(p)
    \/ Healthy(p) \/ Unhealthy(p) \/ Teardown(p) \/ Fail(p) \/ Release(p)
    \/ StopCall(p) \/ StopSave(p) \/ Stopped(p)
    \/ KillCall(p) \/ KillSave(p)
    \/ DestroyCall(p) \/ DestroySave(p)
    \/ StartRefused(p) \/ RestartBusy(p)
    \/ ExpiryTooLate(p) \/ ExpirySave(p)
    \/ HealthCheck(p) \/ CrashHandled(p) \/ CrashBegin(p) \/ CrashCall(p) \/ CrashSave(p)
    \/ ReconcileEnd(p) \/ OrphanList(p) \/ OrphanEnd(p)
    \/ \E r \in RuntimeId :
         \/ pc[p] = "startLock" /\ StartBegin(p, r)
         \/ pc[p] = "killLock" /\ KillBegin(p, r)
         \/ RestartCreate(p, r)
    \/ \E x \in Sandbox : ReconcileStep(p, x) \/ OrphanDestroy(p, x)

Next ==
    \/ \E p \in Caller : Request(p)
    \/ \E p \in Proc : Continue(p)
    \/ \E r \in RuntimeId : ExpiryFires(r)
    \/ \E x \in Sandbox : SandboxExits(x)
    \/ ProcessDies

\* A thread that is not blocked runs: provider calls have timeouts, and a lock
\* is only ever waited for by threads that hold none.  Callers owe nothing.
Fairness ==
    /\ \A p \in Proc : WF_vars(Continue(p))
    /\ \A r \in RuntimeId : WF_vars(ExpiryFires(r))

Spec == Init /\ [][Next]_vars

FairSpec == Spec /\ Fairness

-----------------------------------------------------------------------------
(* What the manager promises.                                              *)

Tracked(r) == state[r] \notin {"absent", "lost"}
Runs(r, k) == sandbox[<<r, k>>] = "running"

\* One active runtime per workspace: a runtime that is not terminal holds its
\* workspace's lease (manager.py, `_workspace_active`).
LeaseHeld ==
    \A r \in RuntimeId : state[r] \in Active => lease[WorkspaceOf[r]] = r

\* The point of the lease: whatever raises, crashes or interleaves, at most one
\* sandbox of this process runs on a workspace's files, counting the installs
\* and the sandboxes whose cleanup failed.
OneSandboxPerWorkspace ==
    \A r, q \in RuntimeId, k, j \in Kind :
        /\ Runs(r, k) /\ Tracked(r)
        /\ Runs(q, j) /\ Tracked(q)
        /\ WorkspaceOf[r] = WorkspaceOf[q]
        => r = q /\ k = j

\* The reasons to hold a lease: an active runtime, a terminal one whose sandbox
\* is still recorded for destroy() to retry, or the moment before _release_slot().
Needs(r) ==
    \/ state[r] \in Active
    \/ state[r] \in Terminal /\ sandboxId[r] # "none"
    \/ \E p \in Proc : pc[p] = "release" /\ target[p] = r

\* No lease outlives its reason, or create() would answer WORKSPACE_BUSY forever.
NoLeakedLease ==
    \A w \in Workspace : lease[w] # None => Needs(lease[w])

\* A destroyed runtime left nothing of its own running or exited behind: the id
\* recorded never loses a sandbox that was started.
DestroyedLeavesNothing ==
    \A r \in RuntimeId, k \in Kind :
        state[r] = "destroyed" => sandbox[<<r, k>>] \notin {"running", "exited"}

\* Every change of a state is one can_transition_runtime() allows, except for
\* the unlocked save of the expiry thread, which may turn DESTROYED to KILLED.
MovesFollowGraph ==
    [][\A r \in RuntimeId : state'[r] # state[r] =>
          \/ CanTransition(state[r], state'[r])
          \/ state[r] = "absent" /\ state'[r] = "created"
          \/ state'[r] = "lost" /\ crashes' # crashes
          \/ /\ state[r] = "destroyed" /\ state'[r] = "killed"
             /\ pc[r] = "expireSave"]_vars

\* The ids given to a runtime, and the runtimes of this process and of dead ones
\* with a running sandbox.
Used == {r \in RuntimeId : state[r] # "absent"}
Live == {r \in RuntimeId : state[r] # "lost" /\ \E k \in Kind : Runs(r, k)}
Orphans == {r \in RuntimeId : state[r] = "lost" /\ \E k \in Kind : Runs(r, k)}

Lease == INSTANCE WorkspaceLease WITH
    holder <- lease, used <- Used, live <- Live, orphans <- Orphans

\* RuntimeManager implements WorkspaceLease: every step of the manager is a step
\* on the leases and the running sandboxes, or changes neither.
ImplementsLease == Lease!Spec

\* A start() always ends: no runtime stays STARTING.
StartResolves ==
    \A r \in RuntimeId : state[r] = "starting" ~> state[r] # "starting"

\* Every operation lock taken is given back.
LockReleased ==
    \A r \in RuntimeId : opLock[r] # None ~> opLock[r] = None

\* Whatever waits for a runtime's lock or polls its state comes to an end.
OperationsEnd == StartResolves /\ LockReleased

\* The expiry timer bounds a runtime's life when the provider answers.
LifetimeEnforced ==
    \A r \in RuntimeId : state[r] = "running" ~> state[r] # "running"

-----------------------------------------------------------------------------
(* The inductive invariant behind LeaseHeld, OneSandboxPerWorkspace and    *)
(* NoLeakedLease.                                                          *)

Installing == {"installStart", "installWait", "installDone", "installBad"}
Serving == {"devStart", "devAbort", "probe", "teardown"}
Starting == {"installCreate", "devCreate", "fail"} \cup Installing \cup Serving
Ending == {"stopCall", "stopSave", "killCall", "killSave", "crashCall", "crashSave"}
Cleaned == {"stopSave", "stopped", "killSave", "destroySave", "crashSave", "release"}
NoTarget == {"idle", "reconcile", "orphanList", "orphan"}

\* A thread inside an operation holds its runtime's lock, and nobody else does.
LockInv ==
    /\ \A p \in Proc : pc[p] \notin NoTarget => target[p] \in RuntimeId
    /\ \A p \in Proc : pc[p] \in Locked => opLock[target[p]] = p
    /\ \A r \in RuntimeId : opLock[r] # None =>
          pc[opLock[r]] \in Locked /\ target[opLock[r]] = r

\* What a thread knows of the state of the runtime it has locked.
PhaseInv ==
    \A p \in Proc :
        /\ pc[p] \in Starting => state[target[p]] = "starting"
        /\ pc[p] \in Ending => state[target[p]] \in Active
        /\ pc[p] = "stopped" => state[target[p]] = "stopping"
        /\ pc[p] \in {"destroyCall", "destroySave"} => state[target[p]] \in State
        /\ pc[p] = "release" => state[target[p]] \in Terminal
        /\ pc[p] = "expireSave" => state[target[p]] \in {"killed", "destroyed"}
        /\ pc[p] = "release" /\ then[p] = "expire" =>
              state[target[p]] \in {"killed", "destroyed"}
        /\ then[p] = "expire" =>
              pc[p] \in {"killLock", "killCall", "killSave", "release", "expireSave",
                          "idle", "orphanList", "orphan"}

\* What a thread knows of the sandbox of the runtime it has locked.
Knows(p) ==
    /\ pc[p] \in {"installCreate", "devCreate"} => sandboxId[target[p]] = "none"
    /\ pc[p] \in Installing => sandboxId[target[p]] = "install"
    /\ pc[p] \in Serving => sandboxId[target[p]] = "dev"
    /\ pc[p] \in Cleaned => \A k \in Kind : ~Runs(target[p], k)

\* A sandbox runs only while its runtime's record names it.
SandboxInv ==
    /\ \A r \in RuntimeId, k \in Kind :
          Runs(r, k) /\ state[r] # "lost" => sandboxId[r] = k
    /\ \A r \in RuntimeId : state[r] \in {"absent", "created"} => sandboxId[r] = "none"
    /\ \A p \in Proc : Knows(p)

\* The lease is with every runtime that is active or still has a sandbox.
LeaseInv ==
    /\ LeaseHeld
    /\ \A r \in RuntimeId, k \in Kind :
          Runs(r, k) /\ state[r] # "lost" => lease[WorkspaceOf[r]] = r
    /\ \A w \in Workspace : lease[w] # None => WorkspaceOf[lease[w]] = w
    /\ NoLeakedLease

IInv == TypeOK /\ LockInv /\ PhaseInv /\ SandboxInv /\ LeaseInv
=============================================================================
