----------------------------- MODULE AgentTask -----------------------------
(***************************************************************************)
(* redstone/agent: AgentService and its leases, the loop that runs a task, *)
(* the pool of threads that runs tool handlers, and what both leave in the *)
(* files of a workspace.                                                   *)
(*                                                                         *)
(* The n-th iteration of task t makes at most one tool call, <<t, n>>.  A  *)
(* handler that is not waited for any more goes on: its file operation may *)
(* happen long after the task, or during another one.                      *)
(*                                                                         *)
(* Left out: prompts, messages and steps, BYOK credentials, events, how    *)
(* long a retry sleeps.  A reply of the model is the action it was parsed  *)
(* to.                                                                     *)
(***************************************************************************)
EXTENDS AIExchange, FiniteSets

CONSTANTS
    Task,           \* the ids AgentTask.create() hands out
    Workspace,
    WorkspaceOf,    \* the workspace of a task's project
    None,           \* no task, no snapshot, no call
    MaxIterations,  \* Limits.max_agent_iterations
    MaxRetries,     \* AIConfig.max_retries
    PoolSize,       \* max_workers of _EXECUTOR
    DiskFails       \* whether files, snapshots or a workspace may be unreadable

Call == Task \X (1..MaxIterations)

ASSUME AgentTaskAssumption ==
    /\ WorkspaceOf \in [Task -> Workspace]
    /\ None \notin Task \cup Call
    /\ \A calls \in SUBSET Call : calls # None
    /\ {MaxIterations, MaxRetries} \subseteq Nat
    /\ PoolSize \in Nat \ {0}
    /\ DiskFails \in BOOLEAN

VARIABLES
    lease,      \* _leases: the task that holds the lock of a workspace
    record,     \* _tasks: the status clients see, "absent" before start_task()
    status,     \* the status of the loop's own copy of the task
    iterations, \* task.iterations_used
    attempt,    \* the attempts of generate() that have failed
    cancelled,  \* _cancel_flags: None, or the iteration in which it was set
    snapshot,   \* the edits that the task's snapshot holds, None without one
    before,     \* the edits that before_state has seen, {} outside of the loop
    changes,    \* the edits the changeset reports
    job,        \* where the handler of a call is, "none" when nothing is known of it
    kind,       \* the kind of the tool of a call, until it has ended without an edit
    edits,      \* the calls whose edit is in the files of a workspace
    writer,     \* workspace_lock: the call that is writing
    pc

service == <<lease, record, cancelled>>
task == <<status, iterations, attempt, snapshot, before, changes>>
pool == <<job, kind, edits, writer>>
vars == <<lease, record, status, iterations, attempt, cancelled, snapshot, before,
          changes, job, kind, edits, writer, pc>>

\* AgentStatus and TERMINAL_STATUSES (agent/models.py).
Working == {"planning", "inspecting", "editing", "validating"}
Terminal == {"completed", "failed", "cancelled", "timed_out"}
AgentStatus == {"created"} \cup Working \cup Terminal

\* can_transition(current, target), with _ACTIVE_TRANSITIONS.
CanTransition(current, target) ==
    /\ current \notin Terminal
    /\ \/ target \in {"failed", "cancelled", "timed_out"}
       \/ current = "created" /\ target = "planning"
       \/ current \in Working /\ target \in (Working \cup {"completed"}) \ {current}

\* _KIND_TO_STATUS; kind_of() calls an unknown tool "read".
StatusOf == [read |-> "inspecting", mutate |-> "editing", validate |-> "validating"]
ToolKind == DOMAIN StatusOf

Stage == {"none", "queued", "running", "abandoned", "ended", "late"}

WS(t) == WorkspaceOf[t]
Current(t) == <<t, iterations[t]>>
Busy == {c \in Call : job[c] \in {"running", "abandoned"}}

Init ==
    /\ lease = [w \in Workspace |-> None]
    /\ record = [t \in Task |-> "absent"]
    /\ status = [t \in Task |-> "created"]
    /\ iterations = [t \in Task |-> 0]
    /\ attempt = [t \in Task |-> 0]
    /\ cancelled = [t \in Task |-> None]
    /\ snapshot = [t \in Task |-> None]
    /\ before = [t \in Task |-> {}]
    /\ changes = [t \in Task |-> {}]
    /\ job = [c \in Call |-> "none"]
    /\ kind = [c \in Call |-> "read"]
    /\ edits = [w \in Workspace |-> {}]
    /\ writer = [w \in Workspace |-> None]
    /\ pc = [t \in Task |-> "idle"]

\* The future of a call that has ended is dropped; what it wrote stays.
Forget(c) ==
    /\ job' = [job EXCEPT ![c] = "none"]
    /\ kind' = IF c \in edits[WS(c[1])] THEN kind ELSE [kind EXCEPT ![c] = "read"]

Goto(t, label) == pc' = [pc EXCEPT ![t] = label]

\* with_status() on the loop's copy, then on_update().
Update(t, s) ==
    /\ status' = [status EXCEPT ![t] = s]
    /\ record' = [record EXCEPT ![t] = s]

\* run_agent_task() returns a task that will not move again.
Return(t, s) ==
    /\ Update(t, s)
    /\ Goto(t, "finish")
    /\ attempt' = [attempt EXCEPT ![t] = 0]
    /\ UNCHANGED <<lease, iterations, cancelled, snapshot, before, changes, pool>>

-----------------------------------------------------------------------------
(* The service. *)

\* lease.lock.acquire(blocking=False).
Acquire_Steals(t) == lease' = [lease EXCEPT ![WS(t)] = t]
Acquire(t) ==
    /\ lease[WS(t)] = None
    /\ lease' = [lease EXCEPT ![WS(t)] = t]

\* start_task(): the lease is taken without waiting, and the task registered.
StartTask(t) ==
    /\ pc[t] = "idle"
    /\ Acquire(t)
    /\ record' = [record EXCEPT ![t] = "created"]
    /\ Goto(t, "setup")
    /\ UNCHANGED <<task, cancelled, pool>>

\* cancel_task(), which a client may call whenever it knows the id.  Nobody reads
\* the flag of a task that has ended.
CancelTask(t) ==
    /\ record[t] \notin Terminal \cup {"absent"}
    /\ cancelled[t] = None
    /\ cancelled' = [cancelled EXCEPT ![t] = iterations[t]]
    /\ UNCHANGED <<lease, record, task, pool, pc>>

\* _run() finds the workspace, and run_agent_task() begins.
Setup(t) ==
    /\ pc[t] = "setup"
    /\ Update(t, "planning")
    /\ Goto(t, "capture")
    /\ UNCHANGED <<lease, iterations, attempt, cancelled, snapshot, before, changes, pool>>

\* An exception outside of the loop's own try: the service makes the CREATED
\* copy FAILED, which clients see when _finish() has saved it.
SetupRaises(t) ==
    /\ DiskFails
    /\ \/ pc[t] = "setup"
       \/ pc[t] = "capture" /\ writer[WS(t)] = None
    /\ status' = [status EXCEPT ![t] = "failed"]
    /\ Goto(t, "finish")
    /\ UNCHANGED <<service, iterations, attempt, snapshot, before, changes, pool>>

\* What _finish() saves.
Final_Stale(t) == "created"
Final(t) == status[t]

\* _finish().
Finish(t) ==
    /\ pc[t] = "finish"
    /\ record' = [record EXCEPT ![t] = Final(t)]
    /\ lease' = [lease EXCEPT ![WS(t)] = None]
    /\ before' = [before EXCEPT ![t] = {}]
    /\ Goto(t, "done")
    /\ UNCHANGED <<cancelled, status, iterations, attempt, snapshot, changes, pool>>

-----------------------------------------------------------------------------
(* run_agent_task(). *)

\* before_state = capture_state(), which waits for the lock of the workspace.
Capture(t) ==
    /\ pc[t] = "capture"
    /\ writer[WS(t)] = None
    /\ before' = [before EXCEPT ![t] = edits[WS(t)]]
    /\ Goto(t, "top")
    /\ UNCHANGED <<service, status, iterations, attempt, snapshot, changes, pool>>

\* is_cancelled(), and the condition of the loop.
MustStop_Never(t) == FALSE
MustStop(t) == cancelled[t] # None
MayIterate(t) == iterations[t] < MaxIterations

\* The head of the loop: cancellation, then the clock, then one more iteration.
Cancelled(t) ==
    /\ pc[t] = "top"
    /\ MayIterate(t)
    /\ MustStop(t)
    /\ Return(t, "cancelled")

OutOfTime(t) ==
    /\ pc[t] = "top"
    /\ MayIterate(t)
    /\ ~MustStop(t)
    /\ Return(t, "timed_out")

OutOfIterations(t) ==
    /\ pc[t] = "top"
    /\ ~MayIterate(t)
    /\ Return(t, "timed_out")

NextIteration(t) ==
    /\ pc[t] = "top"
    /\ MayIterate(t)
    /\ ~MustStop(t)
    /\ iterations' = [iterations EXCEPT ![t] = @ + 1]
    /\ Goto(t, "generate")
    /\ UNCHANGED <<service, status, attempt, snapshot, before, changes, pool>>

\* _run_with_retries(): an error that may pass is tried again, after a sleep that
\* nothing cuts short, until the attempts are used up.
MayRetry(t, code) == code \in Retryable /\ attempt[t] < MaxRetries

AttemptFails(t) ==
    /\ pc[t] = "generate"
    /\ \E code \in Failures : MayRetry(t, code)
    /\ attempt' = [attempt EXCEPT ![t] = @ + 1]
    /\ UNCHANGED <<service, status, iterations, snapshot, before, changes, pool, pc>>

\* generate() raises: it refuses the request before the first attempt, the last
\* attempt fails, an error is not worth another one, or something unexpected.
GenerateRaises(t) ==
    /\ pc[t] = "generate"
    /\ \E code \in Failures \cup Refused : ~MayRetry(t, code)
    /\ Return(t, "failed")

\* _parse_action(): what a reply is, a call of a tool of some kind among others.
Action == {"malformed", "message", "complete"} \cup ToolKind

\* Where the loop goes with it: a malformed action and a message are answered in
\* the next iteration.
After(t, action) ==
    CASE action \in {"malformed", "message"} -> "top"
      [] action = "complete" -> "complete"
      [] action = "mutate" /\ snapshot[t] = None -> "snapshot"
      [] OTHER -> "call"

Reply(t) ==
    /\ pc[t] = "generate"
    /\ attempt' = [attempt EXCEPT ![t] = 0]
    /\ \E action \in Action :
        /\ kind' = IF action \in ToolKind THEN [kind EXCEPT ![Current(t)] = action] ELSE kind
        /\ Goto(t, After(t, action))
    /\ UNCHANGED <<service, status, iterations, snapshot, before, changes, job, edits, writer>>

\* _handle_tool_call(): snapshot_store.create() before the first mutation.
TakeSnapshot(t) ==
    /\ pc[t] = "snapshot"
    /\ writer[WS(t)] = None
    /\ snapshot' = [snapshot EXCEPT ![t] = edits[WS(t)]]
    /\ Goto(t, "call")
    /\ UNCHANGED <<service, status, iterations, attempt, before, changes, pool>>

DiskRaises_Ignored(t) ==
    /\ pc[t] = "snapshot"
    /\ Goto(t, "call")
    /\ UNCHANGED <<service, task, pool>>

\* What create() and capture_state() raise reaches the loop's except clause.
DiskRaises(t) ==
    /\ DiskFails
    /\ pc[t] \in {"snapshot", "complete"}
    /\ writer[WS(t)] = None
    /\ Return(t, "failed")

\* The result of a call is added to the conversation, whatever it was.
ToolResult(t) ==
    /\ Update(t, StatusOf[kind[Current(t)]])
    /\ Goto(t, "top")

\* ToolRegistry.call(): an unknown tool or arguments that do not fit the schema.
Reject(t) ==
    /\ pc[t] = "call"
    /\ Forget(Current(t))
    /\ ToolResult(t)
    /\ UNCHANGED <<lease, cancelled, iterations, attempt, snapshot, before, changes,
                   edits, writer>>

Submit(t) ==
    /\ pc[t] = "call"
    /\ job' = [job EXCEPT ![Current(t)] = "queued"]
    /\ Goto(t, "wait")
    /\ UNCHANGED <<service, task, kind, edits, writer>>

\* future.result() returns, or raises what the handler raised.
ToolAnswers(t) ==
    /\ pc[t] = "wait"
    /\ job[Current(t)] = "ended"
    /\ Forget(Current(t))
    /\ ToolResult(t)
    /\ UNCHANGED <<lease, cancelled, iterations, attempt, snapshot, before, changes,
                   edits, writer>>

\* future.cancel() stops a handler that has not begun, and no other.
Abandon(c) ==
    \/ job[c] = "queued" /\ Forget(c)
    \/ job[c] = "running" /\ job' = [job EXCEPT ![c] = "abandoned"] /\ UNCHANGED kind

\* future.result() times out.
ToolTimesOut_Never(t) == FALSE
ToolTimesOut(t) ==
    /\ pc[t] = "wait"
    /\ Abandon(Current(t))
    /\ ToolResult(t)
    /\ UNCHANGED <<lease, cancelled, iterations, attempt, snapshot, before, changes,
                   edits, writer>>

\* diff_states(before_state, after_state).
Diff_All(t) == edits[WS(t)]
Diff(t) == edits[WS(t)] \ before[t]

\* _handle_completion(): the changeset is what has changed in the files.
Complete(t) ==
    /\ pc[t] = "complete"
    /\ writer[WS(t)] = None
    /\ changes' = [changes EXCEPT ![t] = Diff(t)]
    /\ Update(t, "completed")
    /\ Goto(t, "finish")
    /\ UNCHANGED <<lease, iterations, attempt, cancelled, snapshot, before, pool>>

-----------------------------------------------------------------------------
(* The threads of the pool. *)

HandlerStarts(c) ==
    /\ job[c] = "queued"
    /\ Cardinality(Busy) < PoolSize
    /\ job' = [job EXCEPT ![c] = "running"]
    /\ UNCHANGED <<service, task, kind, edits, writer, pc>>

\* A file tool that changes something takes the lock of the workspace.
HandlerLocks(c) ==
    LET w == WS(c[1]) IN
    /\ c \in Busy
    /\ kind[c] = "mutate"
    /\ writer[w] = None
    /\ writer' = [writer EXCEPT ![w] = c]
    /\ UNCHANGED <<service, task, job, kind, edits, pc>>

\* The outcome of a handler, with its edit or without: its task waits for it, or
\* has gone on.
Edits(c) ==
    /\ edits' = [edits EXCEPT ![WS(c[1])] = @ \cup {c}]
    /\ job' = [job EXCEPT ![c] = IF @ = "running" THEN "ended" ELSE "late"]
    /\ UNCHANGED kind

EditsNot(c) ==
    /\ \/ job[c] = "running" /\ job' = [job EXCEPT ![c] = "ended"] /\ UNCHANGED kind
       \/ job[c] = "abandoned" /\ Forget(c)
    /\ UNCHANGED edits

\* It writes, deletes or renames, or its checks refuse to.
HandlerWrites(c) ==
    /\ writer[WS(c[1])] = c
    /\ Edits(c) \/ EditsNot(c)
    /\ writer' = [writer EXCEPT ![WS(c[1])] = None]
    /\ UNCHANGED <<service, task, pc>>

\* Readers, and what is refused before the lock, end without it.  A validation
\* runs the project's own scripts on a writable mount, so it may edit files too.
HandlerEnds(c) ==
    /\ c \in Busy
    /\ writer[WS(c[1])] # c
    /\ \/ EditsNot(c)
       \/ kind[c] = "validate" /\ Edits(c)
    /\ UNCHANGED <<service, task, writer, pc>>
-----------------------------------------------------------------------------
\* A step of the thread that runs task t.
Thread(t) ==
    \/ Setup(t) \/ SetupRaises(t) \/ Capture(t) \/ Finish(t)
    \/ Cancelled(t) \/ OutOfTime(t) \/ OutOfIterations(t) \/ NextIteration(t)
    \/ AttemptFails(t) \/ GenerateRaises(t) \/ Reply(t)
    \/ TakeSnapshot(t) \/ DiskRaises(t)
    \/ Reject(t) \/ Submit(t) \/ ToolAnswers(t) \/ ToolTimesOut(t) \/ Complete(t)

Handler(c) == HandlerStarts(c) \/ HandlerLocks(c) \/ HandlerWrites(c) \/ HandlerEnds(c)

Next ==
    \/ \E t \in Task : StartTask(t) \/ CancelTask(t) \/ Thread(t)
    \/ \E c \in Call : Handler(c)

Spec == Init /\ [][Next]_vars

\* Threads of tasks run, and every wait of theirs but that for a workspace's
\* lock has a timeout.  A handler that has the lock is a local file operation
\* and ends; any other handler may hang.
Fairness ==
    /\ \A t \in Task : WF_vars(Thread(t))
    /\ \A c \in Call : WF_vars(HandlerWrites(c))

FairSpec == Spec /\ Fairness
-----------------------------------------------------------------------------
(* Properties. *)

TypeOK ==
    /\ lease \in [Workspace -> Task \cup {None}]
    /\ record \in [Task -> AgentStatus \cup {"absent"}]
    /\ status \in [Task -> AgentStatus]
    /\ iterations \in [Task -> 0..MaxIterations]
    /\ attempt \in [Task -> 0..MaxRetries]
    /\ cancelled \in [Task -> (0..MaxIterations) \cup {None}]
    /\ snapshot \in [Task -> (SUBSET Call) \cup {None}]
    /\ before \in [Task -> SUBSET Call]
    /\ changes \in [Task -> SUBSET Call]
    /\ job \in [Call -> Stage]
    /\ kind \in [Call -> ToolKind]
    /\ edits \in [Workspace -> SUBSET Call]
    /\ writer \in [Workspace -> Call \cup {None}]
    /\ pc \in [Task -> {"idle", "setup", "capture", "top", "generate", "snapshot",
                        "call", "wait", "complete", "finish", "done"}]

\* Whatever a file tool of a task has changed, even late, the task's snapshot
\* was taken before: rolling back to it undoes the edit (AGENT.md, "Changesets
\* and snapshots").
SnapshotPrecedesEdits ==
    \A t \in Task : \A c \in edits[WS(t)] :
        (c[1] = t /\ kind[c] = "mutate") => snapshot[t] # None /\ c \notin snapshot[t]

\* The changeset of a completed task reports all of its edits and nobody else's,
\* but for handlers that timed out and went on: of this task after its end, of an
\* earlier one during it.
ChangesetIsExact ==
    \A t \in Task : status[t] = "completed" =>
        \A c \in edits[WS(t)] :
            \/ job[c] = "late"
            \/ c \in changes[t] <=> c[1] = t

\* A cancelled task makes at most one more round trip and tool call: the one it
\* was in, or had passed the check of, when the flag was set.
CancelIsPrompt ==
    \A t \in Task : cancelled[t] # None =>
        iterations[t] <= cancelled[t] + 1

\* A handler begins only while its task waits for it: a call that timed out in
\* the queue of the pool never runs (future.cancel()).
NoLateStart ==
    [][\A c \in Call : job[c] = "queued" /\ job'[c] = "running" =>
           pc[c[1]] = "wait" /\ Current(c[1]) = c]_vars

\* The status clients see moves along the graph of agent/models.py only, though
\* the loop and the service write it from copies of their own.
RecordFollowsGraph ==
    [][\A t \in Task : record'[t] # record[t] =>
           \/ record[t] = "absent" /\ record'[t] = "created"
           \/ CanTransition(record[t], record'[t])]_vars

\* The lease specification, with the state of the service mapped to it: a task
\* is live while its thread is inside run_agent_task().
Lease == INSTANCE WorkspaceLease WITH
    RuntimeId <- Task,
    holder  <- lease,
    used    <- {t \in Task : record[t] # "absent"},
    live    <- {t \in Task : pc[t] \notin {"idle", "setup", "finish", "done"}},
    orphans <- {}

\* AgentService implements WorkspaceLease: one task at a time works in a
\* workspace, and whoever holds the lease is not in the loop when it passes on.
ImplementsLease == Lease!Spec

\* Every task that was started ends, whatever its tools do, and the workspace is
\* free for the next one.
TaskEnds ==
    \A t \in Task : record[t] # "absent" ~> record[t] \in Terminal /\ lease[WS(t)] # t
=============================================================================
