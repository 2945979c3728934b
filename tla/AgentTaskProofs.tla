--------------------------- MODULE AgentTaskProofs ---------------------------
(***************************************************************************)
(* Proofs about AgentTask, for any tasks, workspaces and limits.           *)
(*                                                                         *)
(* Handlers that nobody waits for any more write into the same files as    *)
(* the task that holds the lease, so nothing about the files follows from  *)
(* the lease alone.  The argument is about calls: one that has not begun   *)
(* can begin only for its own task, now; one that has begun may end at any *)
(* time, and what it may then do to a snapshot or to a changeset was       *)
(* settled when its task asked for it.                                     *)
(***************************************************************************)
EXTENDS AgentTask, TLAPS

\* The points of run_agent_task() at which a call of the current iteration exists.
Before == {"generate", "snapshot", "call"}
InLoop == {"top", "complete", "wait"} \cup Before
Inside == {"capture"} \cup InLoop

\* Where the thread of a task is says what its status, its lease and its counters are.
LabelInv == \A t \in Task :
    /\ pc[t] = "idle" <=> record[t] = "absent"
    /\ pc[t] \notin {"idle", "done"} => lease[WS(t)] = t
    /\ pc[t] \in {"idle", "setup", "capture"} => iterations[t] = 0
    /\ pc[t] \in {"wait"} \cup Before => iterations[t] > 0
    /\ cancelled[t] # None => iterations[t] <= cancelled[t]

StatusInv == \A t \in Task :
    /\ pc[t] \in {"idle", "setup"} => status[t] = "created"
    /\ pc[t] = "setup" => record[t] = "created"
    /\ pc[t] \in Inside => status[t] \in Working /\ record[t] = status[t]
    /\ pc[t] = "finish" =>
        /\ status[t] \in Terminal
        /\ \/ record[t] = status[t]
           \/ status[t] = "failed" /\ record[t] \in {"created"} \cup Working
    /\ pc[t] = "done" => status[t] \in Terminal /\ record[t] = status[t]

\* A call whose task waits for it, and what is known of calls that come later.
Awaited(c) == pc[c[1]] = "wait" /\ Current(c[1]) = c
Unused(c) == job[c] = "none" /\ c \notin edits[WS(c[1])]

CallInv == \A c \in Call :
    /\ c[2] > iterations[c[1]] => Unused(c)
    /\ pc[c[1]] \in Before /\ c = Current(c[1]) => Unused(c)
    /\ job[c] \in {"queued", "running", "ended"} => Awaited(c)

LockInv == \A w \in Workspace : writer[w] # None =>
    writer[w] \in Busy /\ WS(writer[w][1]) = w

\* A call of a mutating tool has an older snapshot, or waits for it.
Covered(c) ==
    \/ snapshot[c[1]] # None /\ c \notin snapshot[c[1]]
    \/ c = Current(c[1]) /\ pc[c[1]] \in {"snapshot", "finish", "done"} /\ Unused(c)

SnapshotInv ==
    /\ \A t \in Task :
        /\ pc[t] = "snapshot" => snapshot[t] = None
        /\ snapshot[t] # None => snapshot[t] \subseteq edits[WS(t)]
    /\ \A c \in Call : kind[c] = "mutate" => Covered(c)

\* The edits after a state of the files are exactly those of task t.
Since(t, files) ==
    /\ files \subseteq edits[WS(t)]
    /\ \A c \in edits[WS(t)] : job[c] = "late" \/ (c \notin files <=> c[1] = t)

Reported(t) ==
    /\ changes[t] \subseteq edits[WS(t)]
    /\ \A c \in edits[WS(t)] : job[c] = "late" \/ (c \in changes[t] <=> c[1] = t)

ChangeInv == \A t \in Task :
    /\ pc[t] \in InLoop => Since(t, before[t])
    /\ status[t] = "completed" => Reported(t)

IInv == TypeOK /\ LabelInv /\ StatusInv /\ CallInv /\ LockInv /\ SnapshotInv /\ ChangeInv

-----------------------------------------------------------------------------
(* The steps of a task.                                                    *)

\* The call of an iteration is one of the calls there are.
LEMMA CurrentCall ==
    ASSUME IInv, NEW t \in Task, pc[t] \in {"wait"} \cup Before
    PROVE  Current(t) \in Call
<1>1. iterations[t] \in 0..MaxIterations /\ iterations[t] > 0
  BY DEF IInv, TypeOK, LabelInv
<1>2. iterations[t] \in 1..MaxIterations
  BY <1>1, AgentTaskAssumption
<1> QED BY <1>2 DEF Current, Call

LEMMA StartTaskTypes ==
    ASSUME IInv, NEW t \in Task, StartTask(t)
    PROVE  TypeOK'
<1>1. lease' \in [Workspace -> Task \cup {None}]
  BY AgentTaskAssumption DEF IInv, TypeOK, StartTask, Acquire
<1>2. record' \in [Task -> AgentStatus \cup {"absent"}]
  BY DEF IInv, TypeOK, StartTask, AgentStatus
<1>3. pc' \in [Task -> {"idle", "setup", "capture", "top", "generate", "snapshot",
                      "call", "wait", "complete", "finish", "done"}]
  BY DEF IInv, TypeOK, StartTask, Goto
<1> QED BY <1>1, <1>2, <1>3 DEF IInv, TypeOK, StartTask, service, task, pool

LEMMA StartTaskLabels ==
    ASSUME IInv, NEW t \in Task, StartTask(t)
    PROVE  LabelInv'
<1>1. \A u \in Task : u # t /\ pc[u] \notin {"idle", "done"} => lease'[WS(u)] = u
  <2>1. ASSUME NEW u \in Task, u # t, pc[u] \notin {"idle", "done"} PROVE WS(u) # WS(t)
    BY <2>1, AgentTaskAssumption DEF IInv, LabelInv, StartTask, Acquire
  <2> QED BY <2>1, AgentTaskAssumption DEF IInv, TypeOK, LabelInv, StartTask, Acquire, WS
<1>2. lease'[WS(t)] = t
  BY AgentTaskAssumption DEF IInv, TypeOK, StartTask, Acquire, WS
<1> QED BY <1>1, <1>2 DEF IInv, TypeOK, LabelInv, Before, StartTask, Goto, service, task

LEMMA StartTaskStep ==
    ASSUME IInv, NEW t \in Task, StartTask(t)
    PROVE  IInv'
<1>1. TypeOK'
  BY StartTaskTypes
<1>2. LabelInv'
  BY StartTaskLabels
<1>3. StatusInv'
  BY DEF IInv, TypeOK, StatusInv, Before, InLoop, Inside, StartTask, Goto, task
<1>4. CallInv'
  BY DEF IInv, CallInv, Awaited, Unused, Current, Before, StartTask, Goto, task, pool
<1>5. LockInv'
  BY DEF IInv, LockInv, Busy, StartTask, pool
<1>6. SnapshotInv'
  BY DEF IInv, SnapshotInv, Covered, Unused, Current, StartTask, Goto, task, pool
<1>7. ChangeInv'
  BY DEF IInv, ChangeInv, Since, Reported, Before, InLoop, StartTask, Goto, task, pool
<1> QED BY <1>1, <1>2, <1>3, <1>4, <1>5, <1>6, <1>7 DEF IInv

LEMMA CancelTaskStep ==
    ASSUME IInv, NEW t \in Task, CancelTask(t)
    PROVE  IInv'
<1>1. TypeOK'
  BY DEF IInv, TypeOK, CancelTask, task, pool
<1>2. LabelInv'
  BY DEF IInv, TypeOK, LabelInv, CancelTask, task
<1>3. StatusInv'
  BY DEF IInv, StatusInv, CancelTask, task
<1>4. CallInv'
  BY DEF IInv, CallInv, Awaited, Unused, Current, CancelTask, task, pool
<1>5. LockInv'
  BY DEF IInv, LockInv, Busy, CancelTask, pool
<1>6. SnapshotInv'
  BY DEF IInv, SnapshotInv, Covered, Unused, Current, CancelTask, task, pool
<1>7. ChangeInv'
  BY DEF IInv, ChangeInv, Since, Reported, CancelTask, task, pool
<1> QED BY <1>1, <1>2, <1>3, <1>4, <1>5, <1>6, <1>7 DEF IInv

LEMMA SetupStep ==
    ASSUME IInv, NEW t \in Task, Setup(t)
    PROVE  IInv'
<1>1. TypeOK'
  BY DEF IInv, TypeOK, AgentStatus, Working, Setup, Update, Goto, pool
<1>2. LabelInv'
  BY DEF IInv, LabelInv, Before, Setup, Update, Goto
<1>3. StatusInv'
  BY DEF IInv, TypeOK, StatusInv, Working, Setup, Update, Goto
<1>4. CallInv'
  BY DEF IInv, CallInv, Awaited, Unused, Current, Before, Setup, Goto, pool
<1>5. LockInv'
  BY DEF IInv, LockInv, Busy, Setup, pool
<1>6. SnapshotInv'
  BY DEF IInv, SnapshotInv, Covered, Unused, Current, Setup, Goto, pool
<1>7. ChangeInv'
  BY DEF IInv, ChangeInv, Since, Reported, Before, InLoop, Setup, Update, Goto, pool
<1> QED BY <1>1, <1>2, <1>3, <1>4, <1>5, <1>6, <1>7 DEF IInv

LEMMA SetupRaisesStep ==
    ASSUME IInv, NEW t \in Task, SetupRaises(t)
    PROVE  IInv'
<1>1. TypeOK'
  BY DEF IInv, TypeOK, AgentStatus, Terminal, SetupRaises, Goto, service, pool
<1>2. LabelInv'
  BY DEF IInv, LabelInv, Before, SetupRaises, Goto, service
<1>3. StatusInv'
  BY DEF IInv, TypeOK, StatusInv, Terminal, Before, InLoop, Inside, SetupRaises, Goto,
         service
<1>4. CallInv'
  BY DEF IInv, CallInv, Awaited, Unused, Current, Before, SetupRaises, Goto, pool
<1>5. LockInv'
  BY DEF IInv, LockInv, Busy, SetupRaises, pool
<1>6. SnapshotInv'
  BY DEF IInv, SnapshotInv, Covered, Unused, Current, SetupRaises, Goto, pool
<1>7. ChangeInv'
  BY DEF IInv, ChangeInv, Since, Reported, Before, InLoop, SetupRaises, Goto, pool
<1> QED BY <1>1, <1>2, <1>3, <1>4, <1>5, <1>6, <1>7 DEF IInv

LEMMA FinishTypes ==
    ASSUME IInv, NEW t \in Task, Finish(t)
    PROVE  TypeOK'
<1>1. lease' \in [Workspace -> Task \cup {None}]
  BY AgentTaskAssumption DEF IInv, TypeOK, Finish
<1>2. record' \in [Task -> AgentStatus \cup {"absent"}]
  BY DEF IInv, TypeOK, Finish, Final
<1>3. before' \in [Task -> SUBSET Call]
  BY DEF IInv, TypeOK, Finish
<1>4. pc' \in [Task -> {"idle", "setup", "capture", "top", "generate", "snapshot",
                      "call", "wait", "complete", "finish", "done"}]
  BY DEF IInv, TypeOK, Finish, Goto
<1> QED BY <1>1, <1>2, <1>3, <1>4 DEF IInv, TypeOK, Finish, service, task, pool

LEMMA FinishLabels ==
    ASSUME IInv, NEW t \in Task, Finish(t)
    PROVE  LabelInv'
<1>1. lease[WS(t)] = t
  BY DEF IInv, LabelInv, Finish
<1>2. \A u \in Task : u # t /\ pc[u] \notin {"idle", "done"} => lease'[WS(u)] = u
  BY <1>1, AgentTaskAssumption DEF IInv, TypeOK, LabelInv, Finish, WS
<1>3. record'[t] \in Terminal
  BY DEF IInv, TypeOK, StatusInv, Finish, Final
<1> QED BY <1>2, <1>3 DEF IInv, TypeOK, LabelInv, Before, Terminal, Finish, Goto

LEMMA FinishStep ==
    ASSUME IInv, NEW t \in Task, Finish(t)
    PROVE  IInv'
<1>1. TypeOK'
  BY FinishTypes
<1>2. LabelInv'
  BY FinishLabels
<1>3. StatusInv'
  BY DEF IInv, TypeOK, StatusInv, Before, InLoop, Inside, Finish, Final, Goto
<1>4. CallInv'
  BY DEF IInv, CallInv, Awaited, Unused, Current, Before, Finish, Goto, pool
<1>5. LockInv'
  BY DEF IInv, LockInv, Busy, Finish, pool
<1>6. SnapshotInv'
  BY DEF IInv, SnapshotInv, Covered, Unused, Current, Finish, Goto, pool
<1>7. ChangeInv'
  BY DEF IInv, ChangeInv, Since, Reported, Before, InLoop, Finish, Goto, pool
<1> QED BY <1>1, <1>2, <1>3, <1>4, <1>5, <1>6, <1>7 DEF IInv

LEMMA CaptureTypes ==
    ASSUME IInv, NEW t \in Task, Capture(t)
    PROVE  TypeOK'
<1>1. before' \in [Task -> SUBSET Call]
  BY AgentTaskAssumption DEF IInv, TypeOK, Capture, WS
<1>2. pc' \in [Task -> {"idle", "setup", "capture", "top", "generate", "snapshot",
                      "call", "wait", "complete", "finish", "done"}]
  BY DEF IInv, TypeOK, Capture, Goto
<1> QED BY <1>1, <1>2 DEF IInv, TypeOK, Capture, service, task, pool

LEMMA CaptureChanges ==
    ASSUME IInv, NEW t \in Task, Capture(t)
    PROVE  ChangeInv'
<1>1. \A c \in edits[WS(t)] : c[1] # t
  <2>1. edits[WS(t)] \subseteq Call
    BY AgentTaskAssumption DEF IInv, TypeOK, WS
  <2>2. \A c \in Call : c[1] = t => c[2] > iterations[t]
    BY AgentTaskAssumption DEF IInv, TypeOK, LabelInv, Call, Capture
  <2> QED BY <2>1, <2>2 DEF IInv, CallInv, Unused, WS
<1>2. Since(t, before[t])'
  BY <1>1 DEF IInv, TypeOK, Since, Capture, WS, pool
<1>3. \A u \in Task : u # t /\ pc[u] \in InLoop => Since(u, before[u])'
  BY DEF IInv, TypeOK, ChangeInv, Since, Capture, WS, pool
<1>4. \A u \in Task : status[u] = "completed" => Reported(u)'
  BY DEF IInv, ChangeInv, Reported, Capture, WS, pool
<1> QED BY <1>2, <1>3, <1>4 DEF IInv, TypeOK, ChangeInv, InLoop, Capture, Goto

LEMMA CaptureStep ==
    ASSUME IInv, NEW t \in Task, Capture(t)
    PROVE  IInv'
<1>1. TypeOK'
  BY CaptureTypes
<1>2. LabelInv'
  BY DEF IInv, LabelInv, Before, Capture, Goto, service
<1>3. StatusInv'
  BY DEF IInv, StatusInv, Inside, Capture, Goto, service
<1>4. CallInv'
  BY DEF IInv, CallInv, Awaited, Unused, Current, Before, Capture, Goto, pool
<1>5. LockInv'
  BY DEF IInv, LockInv, Busy, Capture, pool
<1>6. SnapshotInv'
  BY DEF IInv, SnapshotInv, Covered, Unused, Current, Capture, Goto, pool
<1>7. ChangeInv'
  BY CaptureChanges
<1> QED BY <1>1, <1>2, <1>3, <1>4, <1>5, <1>6, <1>7 DEF IInv

LEMMA ReturnLabels ==
    ASSUME IInv, NEW t \in Task, NEW s \in Terminal \ {"completed"},
           pc[t] \in {"top", "complete"} \cup Before, Return(t, s)
    PROVE  LabelInv' /\ CallInv'
<1>1. LabelInv'
  BY AgentTaskAssumption DEF IInv, TypeOK, LabelInv, WS, Terminal, Before, InLoop,
      Return, Update, Goto, pool
<1>2. CallInv'
  BY DEF IInv, TypeOK, CallInv, Unused, Awaited, Current, WS, Before, Call, Return, Goto, pool
<1> QED BY <1>1, <1>2

LEMMA ReturnStep ==
    ASSUME IInv, NEW t \in Task, NEW s \in Terminal \ {"completed"},
           pc[t] \in {"top", "complete"} \cup Before, Return(t, s)
    PROVE  IInv'
<1>1. TypeOK'
  BY AgentTaskAssumption DEF IInv, TypeOK, AgentStatus, Return, Update, Goto, pool
<1>2. LabelInv' /\ CallInv'
  BY ReturnLabels
<1>3. StatusInv'
  BY DEF IInv, TypeOK, StatusInv, Before, InLoop, Inside, Return, Update, Goto
<1>4. LockInv'
  BY DEF IInv, LockInv, Busy, Return, pool
<1>5. SnapshotInv'
  BY DEF IInv, SnapshotInv, Covered, Unused, Current, Return, Goto, pool
<1>6. ChangeInv'
  BY DEF IInv, ChangeInv, Since, Reported, InLoop,
      Return, Update, Goto, pool
<1> QED BY <1>1, <1>2, <1>3, <1>4, <1>5, <1>6 DEF IInv

\* The five ways in which the loop itself gives up.
LEMMA ReturnsInside ==
    ASSUME NEW t \in Task,
           Cancelled(t) \/ OutOfTime(t) \/ OutOfIterations(t) \/ GenerateRaises(t)
              \/ DiskRaises(t)
    PROVE  /\ pc[t] \in {"top", "complete"} \cup Before
           /\ \E s \in Terminal \ {"completed"} : Return(t, s)
BY DEF Before, Terminal, Cancelled, OutOfTime, OutOfIterations, GenerateRaises, DiskRaises

LEMMA NextIterationStep ==
    ASSUME IInv, NEW t \in Task, NextIteration(t)
    PROVE  IInv'
<1>1. TypeOK'
  BY AgentTaskAssumption DEF IInv, TypeOK, NextIteration, MayIterate, Goto, service,
      pool
<1>2. LabelInv'
  BY DEF IInv, TypeOK, LabelInv, NextIteration, MustStop, Goto, service
<1>3. StatusInv'
  BY DEF IInv, StatusInv, InLoop, Inside, NextIteration, Goto, service
<1>4. CallInv'
  BY DEF IInv, TypeOK, CallInv, Awaited, Unused, Current, Call, NextIteration, Goto,
         pool
<1>5. LockInv'
  BY DEF IInv, LockInv, Busy, NextIteration, pool
<1>6. SnapshotInv'
  BY DEF IInv, SnapshotInv, Covered, Unused, Current, NextIteration, Goto, pool
<1>7. ChangeInv'
  BY DEF IInv, ChangeInv, Since, Reported, InLoop, NextIteration, Goto, pool
<1> QED BY <1>1, <1>2, <1>3, <1>4, <1>5, <1>6, <1>7 DEF IInv

LEMMA AttemptFailsStep ==
    ASSUME IInv, NEW t \in Task, AttemptFails(t)
    PROVE  IInv'
<1>1. TypeOK'
  BY AgentTaskAssumption DEF IInv, TypeOK, AttemptFails, MayRetry, service, pool
<1>2. LabelInv'
  BY DEF IInv, LabelInv, AttemptFails, service
<1>3. StatusInv'
  BY DEF IInv, StatusInv, AttemptFails, service
<1>4. CallInv'
  BY DEF IInv, CallInv, Awaited, Unused, Current, AttemptFails, pool
<1>5. LockInv'
  BY DEF IInv, LockInv, Busy, AttemptFails, pool
<1>6. SnapshotInv'
  BY DEF IInv, SnapshotInv, Covered, Unused, Current, AttemptFails, pool
<1>7. ChangeInv'
  BY DEF IInv, ChangeInv, Since, Reported, AttemptFails, pool
<1> QED BY <1>1, <1>2, <1>3, <1>4, <1>5, <1>6, <1>7 DEF IInv

LEMMA ReplyTypes ==
    ASSUME IInv, NEW t \in Task, Reply(t)
    PROVE  TypeOK'
<1>1. attempt' \in [Task -> 0..MaxRetries]
  BY AgentTaskAssumption DEF IInv, TypeOK, Reply
<1>2. kind' \in [Call -> ToolKind]
  BY DEF IInv, TypeOK, Reply, ToolKind
<1>3. pc' \in [Task -> {"idle", "setup", "capture", "top", "generate", "snapshot",
                      "call", "wait", "complete", "finish", "done"}]
  BY DEF IInv, TypeOK, Reply, After, Goto
<1> QED BY <1>1, <1>2, <1>3 DEF IInv, TypeOK, Reply, service, task, pool

LEMMA ReplySnapshots ==
    ASSUME IInv, NEW t \in Task, Reply(t)
    PROVE  SnapshotInv'
<1>1. \A c \in Call : c[1] \in Task
  BY DEF Call
<1>2. ASSUME NEW c \in Call, kind'[c] = "mutate" PROVE Covered(c)'
  <2>1. CASE c = Current(t)
    <3>1. Unused(c)
      BY <2>1 DEF IInv, CallInv, Before, Reply, Current
    <3>2. CASE snapshot[t] # None
      BY <2>1, <3>1, <3>2 DEF IInv, SnapshotInv, Covered, Unused, Current, Reply
    <3> QED BY <1>2, <2>1, <3>1, <3>2
            DEF IInv, TypeOK, SnapshotInv, Covered, Unused, Current, Reply, After, Goto
  <2>2. CASE c # Current(t)
    BY <1>1, <1>2, <2>2 DEF IInv, TypeOK, SnapshotInv, Covered, Unused, Current, Reply, Goto
  <2> QED BY <2>1, <2>2
<1>3. \A u \in Task : pc'[u] = "snapshot" => snapshot'[u] = None
  BY DEF IInv, TypeOK, SnapshotInv, Reply, After, Goto
<1> QED BY <1>2, <1>3 DEF IInv, SnapshotInv, Reply

LEMMA ReplyStep ==
    ASSUME IInv, NEW t \in Task, Reply(t)
    PROVE  IInv'
<1>1. TypeOK'
  BY ReplyTypes
<1>2. LabelInv'
  BY DEF IInv, LabelInv, Before, Reply, After, Goto, service
<1>3. StatusInv'
  BY DEF IInv, StatusInv, Before, InLoop, Inside, Reply, After, Goto, service
<1>4. CallInv'
  BY DEF IInv, CallInv, Awaited, Unused, Current, Before, Reply, Goto
<1>5. LockInv'
  BY DEF IInv, LockInv, Busy, Reply
<1>6. SnapshotInv'
  BY ReplySnapshots
<1>7. ChangeInv'
  BY DEF IInv, ChangeInv, Since, Reported, Before, InLoop, Reply, Goto
<1> QED BY <1>1, <1>2, <1>3, <1>4, <1>5, <1>6, <1>7 DEF IInv

LEMMA TakeSnapshotTypes ==
    ASSUME IInv, NEW t \in Task, TakeSnapshot(t)
    PROVE  TypeOK'
<1>1. snapshot' \in [Task -> (SUBSET Call) \cup {None}]
  BY AgentTaskAssumption DEF IInv, TypeOK, TakeSnapshot, WS
<1>2. pc' \in [Task -> {"idle", "setup", "capture", "top", "generate", "snapshot",
                      "call", "wait", "complete", "finish", "done"}]
  BY DEF IInv, TypeOK, TakeSnapshot, Goto
<1> QED BY <1>1, <1>2 DEF IInv, TypeOK, TakeSnapshot, service, task, pool

LEMMA TakeSnapshotCovers ==
    ASSUME IInv, NEW t \in Task, TakeSnapshot(t)
    PROVE  SnapshotInv'
<1>1. edits[WS(t)] # None /\ edits[WS(t)] \subseteq Call
  BY AgentTaskAssumption DEF IInv, TypeOK, WS
<1>2. \A u \in Task : /\ pc'[u] = "snapshot" => snapshot'[u] = None
                      /\ snapshot'[u] # None => snapshot'[u] \subseteq edits'[WS(u)]
  BY DEF IInv, TypeOK, SnapshotInv, TakeSnapshot, Goto, pool
<1>3. \A c \in Call : c[1] \in Task
  BY DEF Call
<1>4. ASSUME NEW c \in Call, kind'[c] = "mutate" PROVE Covered(c)'
  <2>1. Covered(c)
    BY <1>4 DEF IInv, SnapshotInv, TakeSnapshot, pool
  <2>2. CASE c[1] # t
    BY <1>3, <2>1, <2>2 DEF IInv, TypeOK, Covered, Unused, Current, WS, TakeSnapshot, Goto, pool
  <2>3. CASE c[1] = t
    <3>1. c = Current(t)
      BY <2>1, <2>3 DEF IInv, SnapshotInv, Covered, TakeSnapshot
    <3>2. c \notin edits[WS(t)]
      BY <2>3, <3>1 DEF IInv, CallInv, Before, Unused, TakeSnapshot
    <3> QED BY <1>1, <2>3, <3>2 DEF IInv, TypeOK, Covered, TakeSnapshot
  <2> QED BY <2>2, <2>3
<1> QED BY <1>2, <1>4 DEF SnapshotInv

LEMMA TakeSnapshotStep ==
    ASSUME IInv, NEW t \in Task, TakeSnapshot(t)
    PROVE  IInv'
<1>1. TypeOK'
  BY TakeSnapshotTypes
<1>2. LabelInv'
  BY DEF IInv, LabelInv, Before, TakeSnapshot, Goto, service
<1>3. StatusInv'
  BY DEF IInv, StatusInv, Before, InLoop, Inside, TakeSnapshot, Goto, service
<1>4. CallInv'
  BY DEF IInv, CallInv, Awaited, Unused, Current, Before, TakeSnapshot, Goto, pool
<1>5. LockInv'
  BY DEF IInv, LockInv, Busy, TakeSnapshot, pool
<1>6. SnapshotInv'
  BY TakeSnapshotCovers
<1>7. ChangeInv'
  BY DEF IInv, ChangeInv, Since, Reported, Before, InLoop, TakeSnapshot, Goto, pool
<1> QED BY <1>1, <1>2, <1>3, <1>4, <1>5, <1>6, <1>7 DEF IInv

\* The end of a call, however it ends: nothing is written, and the task goes on.
LEMMA ToolResultStep ==
    ASSUME IInv, NEW t \in Task, NEW c \in Call, c = Current(t), pc[t] \in {"call", "wait"},
           NEW stage \in {"none", "abandoned"}, job' = [job EXCEPT ![c] = stage],
           job[c] \notin {"late", "abandoned"}, job[c] = "running" => stage = "abandoned",
           kind' = kind \/ (c \notin edits[WS(t)] /\ kind' = [kind EXCEPT ![c] = "read"]),
           ToolResult(t),
           UNCHANGED <<lease, cancelled, iterations, attempt, snapshot, before, changes,
                       edits, writer>>
    PROVE  IInv'
<1>1. c[1] = t /\ \A d \in Call : d[1] \in Task
  BY DEF Current, Call
<1>2. StatusOf[kind[c]] \in Working
  BY DEF IInv, TypeOK, ToolKind, StatusOf, Working
<1>3. TypeOK'
  <2>1. job' \in [Call -> Stage]
    BY DEF IInv, TypeOK, Stage
  <2>2. kind' \in [Call -> ToolKind]
    BY DEF IInv, TypeOK, ToolKind, StatusOf
  <2>3. status' \in [Task -> AgentStatus] /\ record' \in [Task -> AgentStatus \cup {"absent"}]
    BY <1>2 DEF IInv, TypeOK, AgentStatus, ToolResult, Update
  <2> QED BY <2>1, <2>2, <2>3 DEF IInv, TypeOK, ToolResult, Goto
<1>4. LabelInv'
  BY <1>2 DEF IInv, TypeOK, LabelInv, Working, Before, ToolResult, Update, Goto
<1>5. StatusInv'
  BY <1>2 DEF IInv, TypeOK, StatusInv, InLoop, Inside, ToolResult, Update, Goto
<1>6. CallInv'
  BY <1>1 DEF IInv, TypeOK, CallInv, Unused, Awaited, Current, WS, Before, ToolResult, Goto
<1>7. LockInv'
  <2>1. \A d \in Busy : d \in Busy'
    BY DEF IInv, TypeOK, Busy
  <2> QED BY <2>1 DEF IInv, LockInv
<1>8. SnapshotInv'
  <2>1. ASSUME NEW d \in Call, kind'[d] = "mutate" PROVE Covered(d)'
    <3>1. Covered(d) /\ kind[d] = "mutate"
      BY <2>1 DEF IInv, TypeOK, SnapshotInv
    <3>2. CASE d[1] = t
      BY <3>1, <3>2 DEF Covered
    <3>3. CASE d[1] # t
      <4>1. job'[d] = job[d] /\ pc'[d[1]] = pc[d[1]]
        BY <1>1, <3>3 DEF IInv, TypeOK, ToolResult, Goto
      <4> QED BY <3>1, <4>1 DEF Covered, Unused, Current, WS
    <3> QED BY <3>2, <3>3
  <2> QED BY <2>1 DEF IInv, TypeOK, SnapshotInv, ToolResult, Goto
<1>9. ChangeInv'
  <2>1. \A d \in Call : job[d] = "late" => job'[d] = "late"
    BY DEF IInv, TypeOK
  <2>2. \A w \in Workspace : edits[w] \subseteq Call
    BY DEF IInv, TypeOK
  <2>3. \A u \in Task : WS(u) \in Workspace
    BY AgentTaskAssumption DEF WS
  <2>4. ASSUME NEW u \in Task, pc'[u] \in InLoop PROVE Since(u, before[u])'
    <3>1. Since(u, before[u])
      BY <2>4 DEF IInv, TypeOK, ChangeInv, InLoop, Before, ToolResult, Goto
    <3> QED BY <2>1, <2>2, <2>3, <3>1 DEF Since, WS
  <2>5. ASSUME NEW u \in Task, status'[u] = "completed" PROVE Reported(u)'
    <3>1. Reported(u)
      BY <1>2, <2>5 DEF IInv, TypeOK, ChangeInv, Working, ToolResult, Update
    <3> QED BY <2>1, <2>2, <2>3, <3>1 DEF Reported, WS
  <2> QED BY <2>4, <2>5 DEF ChangeInv
<1> QED BY <1>3, <1>4, <1>5, <1>6, <1>7, <1>8, <1>9 DEF IInv

LEMMA RejectStep ==
    ASSUME IInv, NEW t \in Task, Reject(t)
    PROVE  IInv'
<1>1. PICK c \in Call : c = Current(t) /\ c[1] = t
  BY CurrentCall DEF Before, Reject, Current
<1>2. pc[t] = "call" /\ job[c] = "none" /\ c \notin edits[WS(t)]
  BY <1>1 DEF IInv, CallInv, Unused, Before, Reject
<1>3. /\ job' = [job EXCEPT ![c] = "none"] /\ ToolResult(t)
      /\ kind' = [kind EXCEPT ![c] = "read"]
  BY <1>1, <1>2 DEF Reject, Forget
<1> QED BY <1>1, <1>2, <1>3, ToolResultStep DEF Reject

LEMMA ToolAnswersStep ==
    ASSUME IInv, NEW t \in Task, ToolAnswers(t)
    PROVE  IInv'
<1>1. PICK c \in Call : c = Current(t) /\ c[1] = t
  BY CurrentCall DEF Before, ToolAnswers, Current
<1>2. pc[t] = "wait" /\ job[c] = "ended" /\ ToolResult(t)
  BY <1>1 DEF ToolAnswers
<1>3. /\ job' = [job EXCEPT ![c] = "none"]
      /\ kind' = kind \/ (c \notin edits[WS(t)] /\ kind' = [kind EXCEPT ![c] = "read"])
  BY <1>1 DEF ToolAnswers, Forget
<1> QED BY <1>1, <1>2, <1>3, ToolResultStep DEF ToolAnswers

LEMMA ToolTimesOutStep ==
    ASSUME IInv, NEW t \in Task, ToolTimesOut(t)
    PROVE  IInv'
<1>1. PICK c \in Call : c = Current(t) /\ c[1] = t
  BY CurrentCall DEF Before, ToolTimesOut, Current
<1>2. pc[t] = "wait" /\ ToolResult(t) /\ Abandon(c)
  BY <1>1 DEF ToolTimesOut
<1>3. UNCHANGED <<lease, cancelled, iterations, attempt, snapshot, before, changes,
                  edits, writer>>
  BY DEF ToolTimesOut
<1>4. CASE job[c] = "queued" /\ Forget(c)
  <2>1. /\ job' = [job EXCEPT ![c] = "none"]
        /\ kind' = kind \/ (c \notin edits[WS(t)] /\ kind' = [kind EXCEPT ![c] = "read"])
    BY <1>1, <1>4 DEF Forget
  <2> QED BY <1>1, <1>2, <1>3, <1>4, <2>1, ToolResultStep
<1>5. CASE job[c] = "running" /\ job' = [job EXCEPT ![c] = "abandoned"] /\ kind' = kind
  BY <1>1, <1>2, <1>3, <1>5, ToolResultStep
<1> QED BY <1>2, <1>4, <1>5 DEF Abandon

LEMMA SubmitChanges ==
    ASSUME IInv, NEW t \in Task, Submit(t)
    PROVE  TypeOK' /\ ChangeInv'
<1>1. TypeOK'
  <2>1. job' \in [Call -> Stage]
    BY DEF IInv, TypeOK, Submit, Stage
  <2> QED BY <2>1 DEF IInv, TypeOK, Submit, Goto, service, task
<1>2. \A w \in Workspace : edits[w] \subseteq Call
  BY DEF IInv, TypeOK
<1>3. \A u \in Task : WS(u) \in Workspace
  BY AgentTaskAssumption DEF WS
<1>4. \A c \in Call : c[1] \in Task
  BY DEF Call
<1>5. \A c \in Call : job[c] = "late" => job'[c] = "late"
  BY <1>4 DEF IInv, TypeOK, CallInv, Unused, Before, Submit, Current
<1>6. ASSUME NEW u \in Task, pc'[u] \in InLoop PROVE Since(u, before[u])'
  <2>1. Since(u, before[u])
    BY <1>6 DEF IInv, TypeOK, ChangeInv, InLoop, Before, Submit, Goto
  <2> QED BY <1>2, <1>3, <1>5, <2>1 DEF Since, WS, Submit, task
<1>7. ASSUME NEW u \in Task, status'[u] = "completed" PROVE Reported(u)'
  <2>1. Reported(u)
    BY <1>7 DEF IInv, ChangeInv, Submit, task
  <2> QED BY <1>2, <1>3, <1>5, <2>1 DEF Reported, WS, Submit, task
<1> QED BY <1>1, <1>6, <1>7 DEF ChangeInv, Submit, task

LEMMA SubmitStep ==
    ASSUME IInv, NEW t \in Task, Submit(t)
    PROVE  IInv'
<1>1. TypeOK' /\ ChangeInv'
  BY SubmitChanges
<1>2. LabelInv'
  BY DEF IInv, LabelInv, Before, Submit, Goto, service, task
<1>3. StatusInv'
  BY DEF IInv, StatusInv, Before, InLoop, Inside, Submit, Goto, service, task
<1>4. CallInv'
  BY DEF IInv, TypeOK, CallInv, Awaited, Unused, Current, Before, Submit, Goto, task
<1>5. LockInv'
  BY DEF IInv, CallInv, LockInv, Unused, Busy, Current, Before, Submit
<1>6. SnapshotInv'
  BY DEF IInv, SnapshotInv, Covered, Unused, Current, Submit, Goto, task
<1> QED BY <1>1, <1>2, <1>3, <1>4, <1>5, <1>6 DEF IInv

LEMMA CompleteTypes ==
    ASSUME IInv, NEW t \in Task, Complete(t)
    PROVE  TypeOK'
<1>1. changes' \in [Task -> SUBSET Call]
  BY AgentTaskAssumption DEF IInv, TypeOK, Complete, Diff, WS
<1>2. status' \in [Task -> AgentStatus] /\ record' \in [Task -> AgentStatus \cup {"absent"}]
  BY DEF IInv, TypeOK, AgentStatus, Terminal, Complete, Update
<1> QED BY <1>1, <1>2 DEF IInv, TypeOK, Complete, Goto, pool

LEMMA CompleteStep ==
    ASSUME IInv, NEW t \in Task, Complete(t)
    PROVE  IInv'
<1>1. TypeOK'
  BY CompleteTypes
<1>2. LabelInv'
  BY DEF IInv, LabelInv, Before, Complete, Update, Goto
<1>3. StatusInv'
  BY DEF IInv, TypeOK, StatusInv, Terminal, Before, InLoop, Inside, Complete, Update,
         Goto
<1>4. CallInv'
  BY DEF IInv, CallInv, Awaited, Unused, Current, Before, Complete, Goto, pool
<1>5. LockInv'
  BY DEF IInv, LockInv, Busy, Complete, pool
<1>6. SnapshotInv'
  BY DEF IInv, SnapshotInv, Covered, Unused, Current, Complete, Goto, pool
<1>7. ChangeInv'
  BY DEF IInv, TypeOK, ChangeInv, Since, Reported, InLoop, Complete, Diff, Update, Goto,
         pool
<1> QED BY <1>1, <1>2, <1>3, <1>4, <1>5, <1>6, <1>7 DEF IInv

-----------------------------------------------------------------------------
(* The steps of a handler.                                                 *)

LEMMA HandlerStartsStep ==
    ASSUME IInv, NEW c \in Call, HandlerStarts(c)
    PROVE  IInv'
<1>1. TypeOK'
  BY DEF IInv, TypeOK, Stage, HandlerStarts, service, task
<1>2. LabelInv'
  BY DEF IInv, LabelInv, HandlerStarts, service, task
<1>3. StatusInv'
  BY DEF IInv, StatusInv, HandlerStarts, service, task
<1>4. CallInv'
  BY DEF IInv, CallInv, Awaited, Unused, Current, HandlerStarts, task
<1>5. LockInv'
  BY DEF IInv, LockInv, Busy, HandlerStarts
<1>6. SnapshotInv'
  BY DEF IInv, SnapshotInv, Covered, Unused, Current, HandlerStarts, task
<1>7. ChangeInv'
  BY DEF IInv, ChangeInv, Since, Reported, HandlerStarts, task
<1> QED BY <1>1, <1>2, <1>3, <1>4, <1>5, <1>6, <1>7 DEF IInv

LEMMA HandlerLocksTypes ==
    ASSUME IInv, NEW c \in Call, HandlerLocks(c)
    PROVE  TypeOK'
<1>1. writer' \in [Workspace -> Call \cup {None}]
  BY DEF IInv, TypeOK, HandlerLocks
<1> QED BY <1>1 DEF IInv, TypeOK, HandlerLocks, service, task

LEMMA HandlerLocksStep ==
    ASSUME IInv, NEW c \in Call, HandlerLocks(c)
    PROVE  IInv'
<1>1. TypeOK'
  BY HandlerLocksTypes
<1>2. LabelInv'
  BY DEF IInv, LabelInv, HandlerLocks, service, task
<1>3. StatusInv'
  BY DEF IInv, StatusInv, HandlerLocks, service, task
<1>4. CallInv'
  BY DEF IInv, CallInv, Awaited, Unused, Current, HandlerLocks, task
<1>5. LockInv'
  BY DEF IInv, LockInv, Busy, HandlerLocks
<1>6. SnapshotInv'
  BY DEF IInv, SnapshotInv, Covered, Unused, Current, HandlerLocks, task
<1>7. ChangeInv'
  BY DEF IInv, ChangeInv, Since, Reported, HandlerLocks, task
<1> QED BY <1>1, <1>2, <1>3, <1>4, <1>5, <1>6, <1>7 DEF IInv

\* A handler ends, with an edit or without, after its call or in time.
LEMMA EditStep ==
    ASSUME IInv, NEW c \in Call, c \in Busy, Edits(c) \/ EditsNot(c),
           UNCHANGED <<service, task, pc>>,
           writer' \in [Workspace -> Call \cup {None}]
    PROVE  TypeOK' /\ CallInv' /\ SnapshotInv' /\ ChangeInv'
<1>1. c[1] \in Task /\ WS(c[1]) \in Workspace /\ \A d \in Call : d[1] \in Task
  BY AgentTaskAssumption DEF Call, WS
<1>2. TypeOK'
  <2>1. job' \in [Call -> Stage]
    BY DEF IInv, TypeOK, Stage, Edits, EditsNot, Forget
  <2>2. kind' \in [Call -> ToolKind]
    BY DEF IInv, TypeOK, ToolKind, StatusOf, Edits, EditsNot, Forget
  <2>3. edits' \in [Workspace -> SUBSET Call]
    BY <1>1 DEF IInv, TypeOK, Edits, EditsNot
  <2> QED BY <2>1, <2>2, <2>3 DEF IInv, TypeOK, service, task
<1>3. job[c] \in {"running", "abandoned"} /\ ~Unused(c)
  BY DEF Busy, Unused
<1>4. \A d \in Call : d # c => job'[d] = job[d] /\ (Unused(d) => Unused(d)')
  <2>1. \A d \in Call : d # c => job'[d] = job[d]
    BY DEF IInv, TypeOK, Edits, EditsNot, Forget
  <2>2. \A d \in Call : d # c /\ d \notin edits[WS(d[1])] => d \notin edits'[WS(d[1])]
    <3>1. \A w \in Workspace : edits'[w] \subseteq edits[w] \cup {c}
      BY DEF IInv, TypeOK, Edits, EditsNot
    <3> QED BY <1>1, <3>1, AgentTaskAssumption DEF WS
  <2> QED BY <2>1, <2>2 DEF Unused, WS
<1>5. job'[c] = "ended" => job[c] = "running"
  BY <1>3 DEF IInv, TypeOK, Edits, EditsNot, Forget
<1>6. job'[c] \notin {"queued", "running"}
  BY <1>3 DEF IInv, TypeOK, Edits, EditsNot, Forget
<1>7. ASSUME NEW d \in Call
      PROVE  /\ d[2] > iterations[d[1]] => Unused(d)'
             /\ pc[d[1]] \in Before /\ d = Current(d[1]) => Unused(d)'
             /\ job'[d] \in {"queued", "running", "ended"} => Awaited(d)
  BY <1>3, <1>4, <1>5, <1>6 DEF IInv, CallInv
<1>8. CallInv'
  BY <1>7 DEF CallInv, Awaited, Current, service, task
<1>9. /\ \A w \in Workspace : edits[w] \subseteq edits'[w] /\ edits'[w] \subseteq Call
      /\ \A t \in Task : WS(t) \in Workspace
  BY <1>1, AgentTaskAssumption DEF IInv, TypeOK, WS, Edits, EditsNot
<1>10. SnapshotInv'
  <2>1. ASSUME NEW d \in Call, kind'[d] = "mutate" PROVE Covered(d)'
    <3>1. kind[d] = "mutate"
      BY <2>1 DEF IInv, TypeOK, Edits, EditsNot, Forget
    <3>2. Covered(d)
      BY <3>1 DEF IInv, SnapshotInv
    <3>3. Unused(d) => Unused(d)'
      BY <1>3, <1>4
    <3> QED BY <3>2, <3>3 DEF Covered, Current, task
  <2>2. ASSUME NEW t \in Task
        PROVE  /\ pc[t] = "snapshot" => snapshot[t] = None
               /\ snapshot[t] # None => snapshot[t] \subseteq edits'[WS(t)]
    BY <1>9 DEF IInv, SnapshotInv
  <2> QED BY <2>1, <2>2 DEF SnapshotInv, WS, task
<1>11. \A d \in Call : job[d] = "late" => job'[d] = "late"
  BY <1>3, <1>4
<1>12. ASSUME NEW t \in Task, NEW d \in edits'[WS(t)], d \notin edits[WS(t)]
       PROVE  d = c /\ WS(t) = WS(c[1]) /\ (job'[c] = "late" \/ Awaited(c))
  <2>1. Edits(c) /\ d = c /\ WS(t) = WS(c[1])
    BY <1>1, <1>9, <1>12 DEF IInv, TypeOK, Edits, EditsNot
  <2>2. job'[c] = "late" \/ job[c] = "running"
    BY <1>3, <2>1 DEF IInv, TypeOK, Edits
  <2> QED BY <2>1, <2>2 DEF IInv, CallInv
<1>13. ASSUME NEW t \in Task, pc[t] \in InLoop
       PROVE  /\ before[t] \subseteq edits'[WS(t)]
              /\ \A d \in edits'[WS(t)] : job'[d] = "late" \/ (d \notin before[t] <=> d[1] = t)
  <2>1. Since(t, before[t])
    BY <1>13 DEF IInv, ChangeInv
  <2>2. ASSUME NEW d \in edits'[WS(t)], d \notin edits[WS(t)]
        PROVE  job'[d] = "late" \/ (d \notin before[t] <=> d[1] = t)
    <3>1. d = c /\ WS(t) = WS(c[1]) /\ (job'[c] = "late" \/ Awaited(c))
      BY <1>12, <2>2
    <3>2. d \notin before[t]
      BY <2>1, <2>2 DEF Since
    <3>3. CASE Awaited(c)
      <4>1. lease[WS(t)] = t /\ lease[WS(c[1])] = c[1]
        BY <1>1, <1>13, <3>3 DEF IInv, LabelInv, Awaited, InLoop, Before
      <4> QED BY <3>1, <3>2, <4>1
    <3> QED BY <3>1, <3>3
  <2>3. ASSUME NEW d \in edits[WS(t)]
        PROVE  job'[d] = "late" \/ (d \notin before[t] <=> d[1] = t)
    BY <1>9, <1>11, <2>1 DEF Since
  <2> QED BY <1>9, <2>1, <2>2, <2>3 DEF Since
<1>14. ASSUME NEW t \in Task, status[t] = "completed"
       PROVE  /\ changes[t] \subseteq edits'[WS(t)]
              /\ \A d \in edits'[WS(t)] : job'[d] = "late" \/ (d \in changes[t] <=> d[1] = t)
  <2>1. Reported(t)
    BY <1>14 DEF IInv, ChangeInv
  <2>2. ASSUME NEW d \in edits'[WS(t)], d \notin edits[WS(t)]
        PROVE  job'[d] = "late" \/ (d \in changes[t] <=> d[1] = t)
    <3>1. d = c /\ (job'[c] = "late" \/ Awaited(c)) /\ d \notin changes[t]
      BY <1>12, <2>1, <2>2 DEF Reported
    <3>2. CASE Awaited(c)
      <4>1. status[c[1]] \in Working
        BY <1>1, <3>2 DEF IInv, StatusInv, Awaited, Inside, InLoop
      <4> QED BY <1>14, <3>1, <4>1 DEF Working
    <3> QED BY <3>1, <3>2
  <2>3. ASSUME NEW d \in edits[WS(t)]
        PROVE  job'[d] = "late" \/ (d \in changes[t] <=> d[1] = t)
    BY <1>9, <1>11, <2>1 DEF Reported
  <2> QED BY <1>9, <2>1, <2>2, <2>3 DEF Reported
<1>15. ChangeInv'
  BY <1>13, <1>14 DEF ChangeInv, Since, Reported, WS, task
<1> QED BY <1>2, <1>8, <1>10, <1>15

LEMMA HandlerWritesStep ==
    ASSUME IInv, NEW c \in Call, HandlerWrites(c)
    PROVE  IInv'
<1>1. c \in Busy /\ WS(c[1]) \in Workspace
  <2>1. WS(c[1]) \in Workspace /\ c # None
    BY AgentTaskAssumption DEF Call, WS
  <2> QED BY <2>1 DEF IInv, LockInv, HandlerWrites
<1>2. TypeOK' /\ CallInv' /\ SnapshotInv' /\ ChangeInv'
  <2>1. writer' \in [Workspace -> Call \cup {None}]
    BY <1>1 DEF IInv, TypeOK, HandlerWrites
  <2> QED BY <1>1, <2>1, EditStep DEF HandlerWrites
<1>3. LabelInv'
  BY DEF IInv, LabelInv, HandlerWrites, service, task
<1>4. StatusInv'
  BY DEF IInv, StatusInv, HandlerWrites, service, task
<1>5. LockInv'
  BY DEF IInv, TypeOK, LockInv, Busy, HandlerWrites, Edits, EditsNot, Forget
<1> QED BY <1>2, <1>3, <1>4, <1>5 DEF IInv

LEMMA HandlerEndsStep ==
    ASSUME IInv, NEW c \in Call, HandlerEnds(c)
    PROVE  IInv'
<1>1. c \in Busy /\ writer' \in [Workspace -> Call \cup {None}]
  BY DEF IInv, TypeOK, HandlerEnds
<1>2. TypeOK' /\ CallInv' /\ SnapshotInv' /\ ChangeInv'
  BY <1>1, EditStep DEF HandlerEnds
<1>3. LabelInv'
  BY DEF IInv, LabelInv, HandlerEnds, service, task
<1>4. StatusInv'
  BY DEF IInv, StatusInv, HandlerEnds, service, task
<1>5. LockInv'
  BY DEF IInv, TypeOK, LockInv, Busy, HandlerEnds, Edits, EditsNot, Forget, service
<1> QED BY <1>2, <1>3, <1>4, <1>5 DEF IInv

-----------------------------------------------------------------------------
(* The invariant.                                                          *)

LEMMA InitIInv == Init => IInv
<1> SUFFICES ASSUME Init PROVE IInv
  OBVIOUS
<1>1. TypeOK
  <2>1. MaxIterations \in Nat /\ MaxRetries \in Nat
    BY AgentTaskAssumption
  <2>2. /\ status \in [Task -> AgentStatus] /\ record \in [Task -> AgentStatus \cup {"absent"}]
        /\ job \in [Call -> Stage] /\ kind \in [Call -> ToolKind]
    BY DEF Init, AgentStatus, Stage, ToolKind, StatusOf
  <2> QED BY <2>1, <2>2 DEF Init, TypeOK
<1>2. LabelInv /\ StatusInv
  BY DEF Init, LabelInv, StatusInv, Before, InLoop, Inside
<1>3. CallInv /\ SnapshotInv
  <2>1. \A c \in Call : c[1] \in Task
    BY DEF Call
  <2>2. \A t \in Task : WS(t) \in Workspace
    BY AgentTaskAssumption DEF WS
  <2>3. \A c \in Call : Unused(c) /\ kind[c] = "read" /\ job[c] = "none"
    BY <2>1, <2>2 DEF Init, Unused
  <2> QED BY <2>3 DEF Init, CallInv, SnapshotInv
<1>4. LockInv
  BY DEF Init, LockInv
<1>5. ChangeInv
  BY DEF Init, ChangeInv, InLoop, Before
<1> QED BY <1>1, <1>2, <1>3, <1>4, <1>5 DEF IInv

LEMMA NextIInv == IInv /\ [Next]_vars => IInv'
<1> SUFFICES ASSUME IInv, [Next]_vars PROVE IInv'
  OBVIOUS
<1>1. CASE UNCHANGED vars
  <2>1. TypeOK' /\ LabelInv' /\ StatusInv'
    BY <1>1 DEF IInv, TypeOK, LabelInv, StatusInv, vars
  <2>2. CallInv' /\ LockInv' /\ SnapshotInv'
    BY <1>1 DEF IInv, CallInv, Awaited, Unused, LockInv, Busy, SnapshotInv, Covered, Current, vars
  <2>3. ChangeInv'
    BY <1>1 DEF IInv, ChangeInv, Since, Reported, vars
  <2> QED BY <2>1, <2>2, <2>3 DEF IInv
<1>2. ASSUME NEW t \in Task, StartTask(t) \/ CancelTask(t) PROVE IInv'
  BY <1>2, StartTaskStep, CancelTaskStep
<1>3. ASSUME NEW t \in Task, Thread(t) PROVE IInv'
  <2>1. CASE Cancelled(t) \/ OutOfTime(t) \/ OutOfIterations(t) \/ GenerateRaises(t)
              \/ DiskRaises(t)
    BY <2>1, ReturnsInside, ReturnStep
  <2> QED BY <1>3, <2>1, SetupStep, SetupRaisesStep, CaptureStep, FinishStep, NextIterationStep,
             AttemptFailsStep, ReplyStep, TakeSnapshotStep, RejectStep, SubmitStep,
             ToolAnswersStep, ToolTimesOutStep, CompleteStep DEF Thread
<1>4. ASSUME NEW c \in Call, Handler(c) PROVE IInv'
  BY <1>4, HandlerStartsStep, HandlerLocksStep, HandlerWritesStep, HandlerEndsStep DEF Handler
<1> QED BY <1>1, <1>2, <1>3, <1>4 DEF Next

LEMMA Invariance == Spec => []IInv
BY InitIInv, NextIInv, PTL DEF Spec

-----------------------------------------------------------------------------
(* The theorems.                                                           *)

\* The service, the loop and the pool keep what they write in its range.
THEOREM TypeCorrect == Spec => []TypeOK
BY Invariance, PTL DEF IInv

\* Rolling back to the snapshot of a task undoes whatever its file tools have done,
\* even those that ended after the task (loop.py takes it before the first mutation).
THEOREM SnapshotsCover == Spec => []SnapshotPrecedesEdits
<1>1. ASSUME IInv, NEW t \in Task, NEW c \in edits[WS(t)], c[1] = t, kind[c] = "mutate"
      PROVE  snapshot[t] # None /\ c \notin snapshot[t]
  <2>1. c \in Call
    BY <1>1, AgentTaskAssumption DEF IInv, TypeOK, WS
  <2> QED BY <1>1, <2>1 DEF IInv, SnapshotInv, Covered, Unused
<1>2. IInv => SnapshotPrecedesEdits
  BY <1>1 DEF SnapshotPrecedesEdits
<1> QED BY <1>2, Invariance, PTL

\* The changeset of a completed task is what the task did to the files, but for
\* handlers that were given up and ended later.
THEOREM ChangesetsExact == Spec => []ChangesetIsExact
<1>1. IInv => ChangesetIsExact
  BY DEF IInv, ChangeInv, Reported, ChangesetIsExact
<1> QED BY <1>1, Invariance, PTL

\* is_cancelled() is asked before every iteration: the one in which the flag was set
\* is the last.
THEOREM CancellationPrompt == Spec => []CancelIsPrompt
<1>1. ASSUME IInv, NEW t \in Task, cancelled[t] # None
      PROVE  iterations[t] <= cancelled[t] + 1
  <2>1. iterations[t] <= cancelled[t] /\ iterations[t] \in Nat /\ cancelled[t] \in Nat
    BY <1>1, AgentTaskAssumption DEF IInv, TypeOK, LabelInv
  <2> QED BY <2>1
<1>2. IInv => CancelIsPrompt
  BY <1>1 DEF CancelIsPrompt
<1> QED BY <1>2, Invariance, PTL

\* The pool never begins a call that its task has given up (future.cancel()).
THEOREM StartsInTime == Spec => NoLateStart
<1>1. IInv => \A c \in Call : job[c] = "queued" => pc[c[1]] = "wait" /\ Current(c[1]) = c
  BY DEF IInv, CallInv, Awaited
<1>2. IInv /\ [Next]_vars =>
          [\A c \in Call : job[c] = "queued" /\ job'[c] = "running" =>
               pc[c[1]] = "wait" /\ Current(c[1]) = c]_vars
  BY <1>1
<1> QED BY <1>2, Invariance, PTL DEF Spec, NoLateStart

\* What a move of the record is, for the steps that save one.
LEMMA RecordMoves ==
    ASSUME IInv, [Next]_vars, NEW t \in Task, record'[t] # record[t]
    PROVE  \/ record[t] = "absent" /\ record'[t] = "created"
           \/ CanTransition(record[t], record'[t])
<1> DEFINE Goal == \/ record[t] = "absent" /\ record'[t] = "created"
                   \/ CanTransition(record[t], record'[t])
<1>1. CASE UNCHANGED vars
  BY <1>1 DEF vars
<1>2. ASSUME NEW c \in Call, Handler(c) PROVE Goal
  BY <1>2 DEF Handler, HandlerStarts, HandlerLocks, HandlerWrites, HandlerEnds, service
<1>3. ASSUME NEW u \in Task, StartTask(u) \/ CancelTask(u) PROVE Goal
  BY <1>3 DEF IInv, TypeOK, LabelInv, StartTask, CancelTask
<1>4. ASSUME NEW u \in Task, Setup(u) PROVE Goal
  BY <1>4 DEF IInv, TypeOK, StatusInv, CanTransition, Terminal, Setup, Update
<1>5. ASSUME NEW u \in Task, Finish(u) PROVE Goal
  BY <1>5 DEF IInv, TypeOK, StatusInv, CanTransition, Terminal, Working, Finish, Final
<1>6. ASSUME NEW u \in Task, NEW s \in Terminal \ {"completed"},
             pc[u] \in {"top", "complete"} \cup Before, Return(u, s)
      PROVE  Goal
  BY <1>6 DEF IInv, TypeOK, StatusInv, CanTransition, Terminal, Working, Before, InLoop, Inside,
              Return, Update
<1>7. ASSUME NEW u \in Task, Complete(u) PROVE Goal
  BY <1>7 DEF IInv, TypeOK, StatusInv, CanTransition, Terminal, Working, InLoop, Inside, Complete,
              Update
<1>8. ASSUME NEW u \in Task, Reject(u) \/ ToolAnswers(u) \/ ToolTimesOut(u) PROVE Goal
  <2>1. pc[u] \in {"call", "wait"} /\ ToolResult(u)
    BY <1>8 DEF Reject, ToolAnswers, ToolTimesOut
  <2>2. StatusOf[kind[Current(u)]] \in Working
    BY <2>1, CurrentCall DEF IInv, TypeOK, ToolKind, StatusOf, Working, Before
  <2>3. t = u /\ record[t] \in Working /\ record'[t] \in Working
    BY <2>1, <2>2 DEF IInv, TypeOK, StatusInv, InLoop, Inside, Before, ToolResult, Update
  <2> QED BY <2>3 DEF CanTransition, Working, Terminal
<1>9. ASSUME NEW u \in Task,
             SetupRaises(u) \/ Capture(u) \/ NextIteration(u) \/ AttemptFails(u) \/ Reply(u)
                 \/ TakeSnapshot(u) \/ Submit(u)
      PROVE  Goal
  BY <1>9 DEF SetupRaises, Capture, NextIteration, AttemptFails, Reply, TakeSnapshot, Submit,
              service
<1>10. ASSUME NEW u \in Task, Thread(u) PROVE Goal
  <2>1. CASE Cancelled(u) \/ OutOfTime(u) \/ OutOfIterations(u) \/ GenerateRaises(u)
              \/ DiskRaises(u)
    BY <2>1, <1>6, ReturnsInside
  <2> QED BY <1>4, <1>5, <1>7, <1>8, <1>9, <1>10, <2>1 DEF Thread
<1> QED BY <1>1, <1>2, <1>3, <1>10 DEF Next

\* Clients see a task move along the graph of agent/models.py only.
THEOREM RecordsFollowGraph == Spec => RecordFollowsGraph
<1>1. IInv /\ [Next]_vars =>
          [\A t \in Task : record'[t] # record[t] =>
               \/ record[t] = "absent" /\ record'[t] = "created"
               \/ CanTransition(record[t], record'[t])]_vars
  BY RecordMoves
<1> QED BY <1>1, Invariance, PTL DEF Spec, RecordFollowsGraph

-----------------------------------------------------------------------------
(* The refinement.                                                         *)

Used == {t \in Task : record[t] # "absent"}
Live == {t \in Task : pc[t] \notin {"idle", "setup", "finish", "done"}}

\* A task that leaves run_agent_task() still has the lease.
LEMMA EndsLive ==
    ASSUME IInv, NEW t \in Task, pc[t] \in Inside, pc' = [pc EXCEPT ![t] = "finish"],
           lease' = lease,
           record' = record \/ \E s \in Terminal : record' = [record EXCEPT ![t] = s]
    PROVE  Lease!End(t)
<1>1. t \in Live /\ Live' = Live \ {t}
  BY DEF IInv, TypeOK, Live, Inside, InLoop, Before
<1>2. Used' = Used
  BY DEF IInv, TypeOK, LabelInv, Used, Inside, InLoop, Before, Terminal
<1> QED BY <1>1, <1>2 DEF Lease!End, Live, Used

LEMMA LeaseSame ==
    ASSUME lease' = lease, Used' = Used, Live' = Live
    PROVE  UNCHANGED Lease!vars
BY DEF Lease!vars, Used, Live

LEMMA LeaseStep ==
    ASSUME IInv, [Next]_vars
    PROVE  [Lease!Next]_(Lease!vars)
<1>1. CASE UNCHANGED vars
  BY <1>1, LeaseSame DEF Used, Live, vars
<1>2. ASSUME NEW c \in Call, Handler(c) PROVE UNCHANGED Lease!vars
  BY <1>2, LeaseSame
  DEF Handler, HandlerStarts, HandlerLocks, HandlerWrites, HandlerEnds, Used, Live, service
<1>3. ASSUME NEW t \in Task, StartTask(t) PROVE Lease!Acquire(t)
  <2>1. t \notin Used /\ Used' = Used \cup {t}
    BY <1>3 DEF IInv, TypeOK, LabelInv, Used, StartTask
  <2>2. Live' = Live
    BY <1>3 DEF IInv, TypeOK, Live, StartTask, Goto
  <2> QED BY <1>3, <2>1, <2>2 DEF Lease!Acquire, Used, Live, StartTask, Acquire, WS
<1>4. ASSUME NEW t \in Task, CancelTask(t) PROVE UNCHANGED Lease!vars
  BY <1>4, LeaseSame DEF CancelTask, Used, Live
<1>5. ASSUME NEW t \in Task, Setup(t) PROVE Lease!Run(t)
  <2>1. Used' = Used /\ Live' = Live \cup {t}
    BY <1>5 DEF IInv, TypeOK, LabelInv, Used, Live, Setup, Update, Goto
  <2>2. lease[WS(t)] = t
    BY <1>5 DEF IInv, LabelInv, Setup
  <2> QED BY <1>5, <2>1, <2>2 DEF Lease!Run, Used, Live, Setup, WS
<1>6. ASSUME NEW t \in Task, SetupRaises(t) PROVE Lease!End(t) \/ UNCHANGED Lease!vars
  <2>1. CASE pc[t] = "setup"
    <3>1. Used' = Used /\ Live' = Live
      BY <1>6, <2>1 DEF IInv, TypeOK, Used, Live, SetupRaises, Goto, service
    <3> QED BY <1>6, <3>1, LeaseSame DEF SetupRaises, service
  <2>2. CASE pc[t] = "capture"
    BY <1>6, <2>2, EndsLive DEF SetupRaises, Goto, Inside, service
  <2> QED BY <1>6, <2>1, <2>2 DEF SetupRaises
<1>7. ASSUME NEW t \in Task, Finish(t) PROVE Lease!Free(WS(t))
  <2>1. lease[WS(t)] = t /\ t # None /\ t \notin Live /\ WS(t) \in Workspace
    BY <1>7, AgentTaskAssumption DEF IInv, LabelInv, Finish, Live, WS
  <2>2. Live' = Live
    BY <1>7 DEF IInv, TypeOK, Live, Finish, Goto
  <2>3. record[t] # "absent" /\ record'[t] # "absent"
    BY <1>7 DEF IInv, TypeOK, LabelInv, StatusInv, Terminal, Finish, Final
  <2>4. Used' = Used
    BY <1>7, <2>3 DEF IInv, TypeOK, Used, Finish
  <2> QED BY <1>7, <2>1, <2>2, <2>4 DEF Lease!Free, Used, Live, Finish
<1>8. ASSUME NEW t \in Task, NEW s \in Terminal \ {"completed"},
             pc[t] \in {"top", "complete"} \cup Before, Return(t, s)
      PROVE  Lease!End(t)
  BY <1>8, EndsLive DEF Return, Update, Goto, Inside, InLoop
<1>9. ASSUME NEW t \in Task, Complete(t) PROVE Lease!End(t)
  BY <1>9, EndsLive DEF Complete, Update, Goto, Inside, InLoop, Terminal
<1>10. ASSUME NEW t \in Task, Reject(t) \/ ToolAnswers(t) \/ ToolTimesOut(t)
       PROVE  UNCHANGED Lease!vars
  <2>1. pc[t] \in {"call", "wait"} /\ ToolResult(t) /\ lease' = lease
    BY <1>10 DEF Reject, ToolAnswers, ToolTimesOut
  <2>2. StatusOf[kind[Current(t)]] \in Working
    BY <2>1, CurrentCall DEF IInv, TypeOK, ToolKind, StatusOf, Working, Before
  <2>3. Used' = Used /\ Live' = Live
    BY <2>1, <2>2 DEF IInv, TypeOK, LabelInv, Used, Live, Working, ToolResult, Update, Goto
  <2> QED BY <2>1, <2>3, LeaseSame
<1>11. ASSUME NEW t \in Task,
              Capture(t) \/ NextIteration(t) \/ AttemptFails(t) \/ Reply(t) \/ TakeSnapshot(t)
                  \/ Submit(t)
       PROVE  UNCHANGED Lease!vars
  <2>1. lease' = lease /\ record' = record
    BY <1>11 DEF Capture, NextIteration, AttemptFails, Reply, TakeSnapshot, Submit, service
  <2>2. Live' = Live
    BY <1>11 DEF IInv, TypeOK, Live, Capture, NextIteration, AttemptFails, Reply, After,
                 TakeSnapshot, Submit, Goto
  <2> QED BY <2>1, <2>2, LeaseSame DEF Used
<1>12. ASSUME NEW t \in Task, Thread(t) PROVE [Lease!Next]_(Lease!vars)
  <2>1. CASE Cancelled(t) \/ OutOfTime(t) \/ OutOfIterations(t) \/ GenerateRaises(t)
              \/ DiskRaises(t)
    BY <2>1, <1>8, ReturnsInside DEF Lease!Next
  <2>2. WS(t) \in Workspace
    BY AgentTaskAssumption DEF WS
  <2> QED BY <1>5, <1>6, <1>7, <1>9, <1>10, <1>11, <1>12, <2>1, <2>2 DEF Thread, Lease!Next
<1>13. CASE Next
  BY <1>2, <1>3, <1>4, <1>12, <1>13 DEF Next, Lease!Next
<1> QED BY <1>1, <1>13

\* AgentService keeps to the protocol of WorkspaceLease, whatever the loop and the
\* pool do: as every system that keeps to it, it lets one task at a time work in a
\* workspace.
THEOREM Refinement == Spec => ImplementsLease
<1>1. Init => Lease!Init
  <2>1. Init => Used = {} /\ Live = {}
    BY DEF Init, Used, Live
  <2> QED BY <2>1 DEF Init, Lease!Init, Used, Live
<1> QED BY <1>1, LeaseStep, Invariance, PTL DEF Spec, ImplementsLease, Lease!Spec

\* One task at a time works in a workspace: a client that starts a second one before
\* the first has finished is refused (AgentService.start_task()).
THEOREM OneTaskAtATime == Spec => []Lease!Exclusive
<1>1. IInv => Lease!Exclusive
  BY DEF IInv, LabelInv, Lease!Exclusive, WS
<1> QED BY <1>1, Invariance, PTL
=============================================================================
