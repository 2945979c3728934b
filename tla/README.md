# Formal model of Redstone and BhashaSub

TLA+ modules, TLC runs and TLAPS proofs for the concurrent core of this
repository (`src/redstone`: agents, sandboxes and previews of untrusted
projects) and for the subtitle core (`src/bhashasub`). Paths below are relative
to the repository root; `tlc -config X.cfg MCModule` repeats a run and
`tlapm M.tla` a proof.

## 1. The system

| Component | State it keeps | Operations | What can go wrong |
|---|---|---|---|
| Runtime state machine (`runtime/models.py`) | none | `can_transition_runtime` | a terminal state that moves |
| RuntimeManager (`runtime/manager.py`) | `_runtimes`, `_workspace_active` (the lease of a workspace), `_op_locks`, `_expiry_timers` | create, start, stop, kill, destroy, restart, health_check, reconcile, reconcile_orphaned_containers, expiry | two sandboxes on one workspace, leases that leak, cleanup that half fails, stale snapshots, a dead process |
| Sandbox providers (`sandbox/providers`) | containers, proxies, relays, networks in Docker; `_sandboxes`, `_preview_upstreams`; local processes and `_handles` | create, start, wait, status, stop, kill, destroy, list_managed, storage watchdog | commands that time out after taking effect, infrastructure left behind |
| PreviewManager (`preview/manager.py`) | `_sessions`, `_by_project`, `_upstreams`, a lock per project | start, stop, destroy, resolve, sweep | the sweeper's snapshot against everyone else |
| Preview gateway (`preview/gateway.py`) | a semaphore per preview | one asynchronous handler | permits not given back, upstreams resolved too early |
| Agent service and loop (`agent/service.py`, `agent/loop.py`) | tasks, cancel flags, a lease per workspace | start_task, cancel_task, the loop | cancellation against timeouts, leases not released |
| Agent tools (`agent/tools`) | a pool of four threads | call | handlers that go on after their timeout |
| Snapshots (`changes/snapshots.py`) | directories | create, restore, delete | a restore that fails or dies between renames |
| Workspaces and files (`workspace`) | directories, quotas | read, write, delete, create, destroy | quotas and locks |
| Event bus (`events/bus.py`) | subscribers, a bounded history | publish, subscribe | order, late handlers |
| AI gateway (`ai/gateway.py`) | none | generate with retries | attempts and retryable errors |
| Egress proxy, preview relay (`sandbox/*.js`) | connection counters and timers | CONNECT, forward | counters that drift, timers that race |
| HTTP API (`api`) | the singletons above | one route per operation | startup order |
| BhashaSub core (`src/bhashasub/core`) | none | SRT parsing, measures | boundaries of timecodes and cues |
| Translator service, web page, React frontend, research scripts | none shared | requests, rendering | outside the model |

How they interact. The API calls `AgentService`, `RuntimeManager` and
`PreviewManager` from its own threads. `PreviewManager` creates, starts,
checks and destroys runtimes through `RuntimeManager`; its sweeper thread does
so too. `RuntimeManager` calls one `SandboxProvider` and is called back by its
own timers. The gateway, a second server in the same process, only asks
`PreviewManager.resolve()`. Agents and sandboxes share the files of a
workspace. Everything but the files and the containers lives in memory and is
lost with the process; `create_app()` then destroys the containers it finds.

What makes it hard: provider calls take seconds, may raise, and may take effect
though they raised; nothing but short sections is done under `_lock`; three
kinds of background threads (timers, the sweeper, the watchdog) act on records
they have read earlier; and a failed cleanup must leave enough behind to be
retried.

`PROJECT.json` lists every component with its status and every hazard at its
line, with the properties that cover it.

## 2. The modules

| Module | What it is |
|---|---|
| `RuntimeStates` | `RuntimeState`, the terminal and resting sets, `can_transition_runtime()` |
| `RuntimeManager` | the manager, its callers, its timers, the provider and the death of the process |
| `WorkspaceLease` | what the manager, and the agent service, promise about a workspace, abstractly |
| `PreviewManager` | sessions, project locks, the sweeper, the gateway's lookups |
| `PreviewGateway` | a request to a preview through the gateway and the relay |
| `AgentTask`, `AIExchange` | the agent service, its loop, its pool of tool threads; an answer of an AI provider and what it is taken for |
| `WorkspaceFiles` | the files of a workspace and its snapshots |
| `DockerSandbox` | one sandbox as docker commands, its watchdog, orphan recovery |
| `LocalSandbox` | one sandbox as a child process of the backend, its pipe and its reader |
| `EgressProxy` | the install proxy: sockets, timers, the address policy |
| `SubRip` | SubRip text to cues and back, frames, gaps, aksharas |
| `MC...` | the instance of the module for TLC |
| `...Proofs` | the theorems about the module |

How they fit together. `RuntimeManager` extends `RuntimeStates` and is
shown to implement `WorkspaceLease`; `AgentTask` extends
`AIExchange` and is shown to implement the same lease, with tasks for runtimes.
`PreviewManager` sees a runtime through the outcomes `RuntimeManager` allows,
`PreviewGateway` sees previews through what `resolve()` answers, and
`RuntimeManager` sees a sandbox through what `DockerSandbox` may leave behind when
a command is not answered.

### RuntimeManager

State: `state` and `sandboxId` are the two fields of a `Runtime` record that
operations change (`"absent"` before `create()`, `"lost"` when the process that
knew the runtime has died); `lease`, `opLock`, `timer` are `_workspace_active`,
`_op_locks`, `_expiry_timers`; `sandbox` is what the backend really holds, which
no thread sees except through a call. A runtime has at most two sandboxes: the
install and the dev server. `pc`, `target`, `then`, `todo`, `keep` are the local
variables of the threads. A runtime's id also names its timer thread.

Actions: each critical section of `self._lock` is atomic, as in the code. Each
provider call is one step, in the order of the code, and either answers or
raises; when it raises, the sandbox may or may not have changed
(`DestroyRaises`, `TeardownRaises`, `CreateRaises`, `StartRaises`), because
`_run_docker()` turns a timeout into an exception and the daemon may have
finished the command. `start()` is `StartBegin`, the five steps of an install, the four of
the dev server, the probe, the teardown and `Fail`; `stop`, `kill`, `destroy`
and `_mark_crashed` share `EndCall` and `Release` because they share the code's
shape. An operation that raises gives its lock back and ends its caller's
operation too (`Raise`).

`reconcile()` and `reconcile_orphaned_containers()` keep their snapshots in
`todo` and `keep`, so the records may change under them. `ProcessDies` loses
everything but `sandbox`; the next process serves only after orphan recovery
has ended, with or without an error, as `create_app()` does it.

Merged steps, and why nothing is lost: `_cancel_expiry()` and `_release_slot()`
(a timer that fires between them finds the runtime terminal and returns), the
save of RUNNING and the arming of the timer (nobody waits for a timer), a
provider's answer and the `_save()` of its id (the operation lock is held and
only the id is written).

Left out: the ownership check, which raises before anything changes; error
codes, logs, events; malformed labels and containers without the `redstone-`
prefix in orphan recovery.

### WorkspaceLease

`holder`, the runtimes `used`, those with a `live` sandbox and the `orphans` of
dead processes. Five actions: `Acquire`, `Run` (only the holder), `End`, `Free`
(only when nothing of the holder runs), `Die`. `RuntimeManager!Lease` maps
the manager to it: `holder <- lease`, `used <-` the runtimes that were created,
`live <-` those of this process with a running sandbox, `orphans <-` the lost
ones with a running sandbox. `AgentTask!Lease` maps the service to it: a task is
`live` while its thread is inside `run_agent_task()`; the leases of agents and of
runtimes are two dictionaries in the code and two instances here.
`ImplementsLease` says that every step is a step of the lease or changes none of
the four.

### PreviewManager

State: `session`, `recorded`, `current`, `upstream` are `_sessions` (status and
`runtime_id`), `_by_project` and `_upstreams`; `age` is what `created_at` and
`last_activity` amount to when `sweep()` compares them; `projectLock` the lock
of each project; `mine`, `held` and `todo` the records a thread has read, which
is where the stale ones come from; the history variable `swallowed` has the runtimes
a `destroy()` of which raised in `_discard_runtime()`. Every session has a new id and creates at
most one runtime, so the runtime is named after the session.

Calls of `RuntimeManager` are steps with the outcomes that module
`RuntimeManager` allows: `start()` may end RUNNING, FAILED without a sandbox, or
FAILED with one (`"stuck"`, lease kept); `destroy()` may raise and change
nothing; `health_check()` tears a dead runtime down or leaves it stuck;
`RuntimeEnds` is the expiry timer or another route of the API. The project
lock is taken without waiting by `start()` and with waiting by `stop()` and
`destroy()`; `_fail()` runs under it in `start()` and without it in the sweep.
Calls that change nothing (BUSY, LIMIT_REACHED, a second stop) have no step.

Left out: previews on a provider that does not isolate (refused before anything
changes), exceptions other than the two kinds `start()` catches.

### PreviewGateway

State: `semaphore` is `semaphores[preview_id]._value`, `upstream` what
`PreviewManager.resolve()` answers, `target` the upstream the handler has
resolved, `holds` the requests between `acquire()` and `release()`, `serving` the
relay whose `active` counts the request, `answer` the relay whose response the
client is given. A relay stands for one run of a preview and for its token;
`port` may be given to the next relay when one has stopped.

Actions: `Resolve` (host to upstream), `Refuse`, `Admit` and `TooMany` (after the
body has been read, which is when the preview may have changed), `Deny`, `Serve`
(the relay's token check and limit), `AppAnswers`, `AppRefused`,
`TransportRaises`, `StreamEnds`, `RelayReleases`, and `ClientLeaves`, which may happen at every
`await`. Each action ends where the code awaits, so that the permit is taken and
given back exactly where `gateway.py` does it. A response is a loop: `SendChunk` waits
for the client (`"unread"`) until `ClientReads`, and only then is the next chunk, and
with it the deadline, looked at; `DeadlinePasses` makes a response `late`, after which
the next chunk ends it. For a client that has left `send()` returns at once, and
`relay_body()` is begun and ended for it too, so its `finally` runs.

### AgentTask, with AIExchange

State: `lease`, `record`, `cancelled` are `_leases`, `_tasks`, `_cancel_flags` of
the service; `status`, `iterations`, `snapshot`, `before`, `changes` the loop's
own copy of the task and its locals; `job` the future of each tool call; `edits`
what the handlers have done to the files, and `writer` who holds
`workspace_lock`. The n-th call of task t is the pair `<<t, n>>`, so an edit
names the call that made it and a snapshot or a changeset is a set of edits.

Actions: `StartTask`, `CancelTask`; the thread of a task from `Setup` over
`Capture`, the checks at the top of an iteration in the order of the code
(cancelled, out of time, out of iterations), the attempts of `generate()`, the
reply, the snapshot before the first mutating call, the tool call with its
refusals, its answer or its timeout, to `Complete` and `Finish`; and the handlers in the pool,
which start when a thread is free, wait for the lock, write, and end, whether or
not anybody still waits (`"abandoned"` until then and `"late"` after). `Return`
writes the record before `Finish` gives the lease back, as in the code.

`AIExchange` enumerates the answers a provider may give (a status, a body, no
answer) and computes the error code that `status_to_error_code()`, `post_json()` and
the adapters come to; `AgentTask` decides on that code whether to retry.

### WorkspaceFiles

State: the directories `project`, `staging`, `trash`, `wreck`
(what a restore left in `.redstone/restore`) and `snaps`; `owner` of
`workspace_lock`; `pc`, `arg`, `todo` of each thread; ghosts `start` (the project
when the lock was taken) and `raced` (somebody who takes no lock has changed what
the holder works on). A file is its size.

Actions: `Write` to `Made` with its checks and its truncation,
`DeleteFile`, `RenameFile`, `CreateSnapshot` with the three steps of each file
(`CheckFile`, `CopyFile`, `CountFile`: the sandbox may make the file larger between the
check and the copy, and the copy is checked again), `DeleteSnapshot` (which takes no lock), and `Restore`: staging file by file, each
ignored directory carried over by a rename, the project to the trash, the
staging to the project, the sweep; every rename may fail, and then the recovery,
whose own renames may fail too. `Sandbox` writes at any time and `Die` ends the
process at any time.

### DockerSandbox

State: `docker` is what the daemon has; `known`, `upstream`, `watch`, `stopped`, `exceeded`
are `_sandboxes`, `_preview_upstreams`, the watchdog thread, its stop event and its flag.
The watchdog looks at the event only between two measurements (`WatchPolls`), so one
that is measuring, or about to kill, when `_stop_watchdog()` sets the event goes on to
record and to kill. `wait()` reads the flag after the logs (`ReadLogs`). One
action per `docker` command of `create()`, `_remove_network()`, `start()`,
`wait()`, `stop()`, `kill()`, `destroy()`, each with four outcomes: answered,
refused, timed out before it took effect, timed out after. The side container
may die and the app may exit at any time; `ProcessDies` loses the memory, and
the next process destroys what `list_managed()` lists. Sandboxes share no docker
object, because every name is derived from the sandbox's id, so one is enough.

### LocalSandbox

State: `handle` is what `_pending` and `_handles` have of the sandbox, `leader` the
process and `child` something it forked, in its group or out of it; `reaped` says
that its returncode was collected, after which `os.getpgid()` finds no group;
`left`, `pipe`, `read` and `kept` count the output the command has not written,
the pipe holds, and the reader has read and kept. The owner of a sandbox calls
create, start, wait, stop, kill and destroy one after the other (`pc`, and `then`
for where `kill()` returns to); the process, the reader thread and threads that
ask for `status()` run beside it. A deadline of `wait()` or `stop()` may come
between any two of their steps. On POSIX only.

### EgressProxy

One action per callback of the Node process: `Accept`, `TurnAway`, `HeaderChunk`,
`HeaderEnds`, `LookupAnswers`, `LookupTooLate`, `Connected`, `UpstreamFails`,
`TunnelChunk`, the three timers and both closes. `isPublicAddress()` is there in
full for IPv4 and IPv6: octets, hextets, gaps, dotted ends, mapped addresses. An
address is masked octet by octet; that the code's shifts of signed 32-bit numbers come
to the same is taken from their `>>> 0`, and not modelled. Nor is an end of the process:
a client that was turned away has no `error` handler yet (`egress_proxy.js:222-226`, it
is set at 229), so a reset of its connection is an uncaught exception that ends the
proxy and every tunnel with it, while in the model it only closes that client.
`PolicyIsExact` compares it with the reserved ranges that the comments of the
source name.

### SubRip

`Scan` is the loop of `_split_blocks()` as a fold over lines, `Read` the loop of
`parse()` as a fold over blocks, `Parse` the two together, `Serialize` is `serialize()`,
`TimeCode`, `Parts`, `FramesToMs`, `MsToFrames`, `GapTo`, `Overlaps`, `Aksharas`,
`Count` and `ReadingSpeed` the functions
of `model.py` and `units.py`. A file grows by a line (`TypeLine`) or is saved
(`Save`), and every file on the way is parsed. `FileLine` is every line the parser can
tell from another, with any numbers in its timecodes, any digits and any clusters; an
instance types a few of them. A cluster is a sequence of code points, `CodePoints` counts
those, and a cluster joins the next when its last one is a virama or a joiner; which
code points make a cluster is the regular expression's business and left to the file.
A frame rate is a fraction, so 23.976 is 2997 frames in 125 seconds, and `FramesToMs`
and `MsToFrames` divide exactly. The code divides floating-point numbers. Compared with
exact arithmetic outside the model, at each rate of the instance, it gives the same for
every count up to 400,000 frames and every time up to 4,000,000 ms (more than an hour);
that it always does is not shown.

## 3. The runs

| Run | Checks | Instance | Distinct states |
|---|---|---|---|
| `runtime` | `OneSandboxPerWorkspace`, `NoLeakedLease`, `DestroyedLeavesNothing`, `MovesFollowGraph`, `ImplementsLease` | 2 callers of create, start, destroy, restart and health_check, 2 generations of 1 workspace, failing provider, 1 death of the process with orphan recovery | 1,064,787 |
| `runtime_live` | `OperationsEnd`, `LifetimeEnforced` | 2 callers, 1 runtime, both reconciliations on demand, a provider that answers, fairness | 42,473 |
| `preview` | `RoutesAreCurrent`, `ActiveBound`, `StartUndisturbed`, `NoForgottenRuntime` | 2 callers, the sweeper, 3 sessions of 2 projects, room for 1, failing provider | 5,403,912 |
| `preview_live` | `StartEnds`, `SweepNotices` | 2 callers, the sweeper, 2 sessions of 1 project, a provider that answers, fairness | 11,300 |
| `agent` | `SnapshotPrecedesEdits`, `ChangesetIsExact`, `CancelIsPrompt`, `RecordFollowsGraph`, `ImplementsLease`, `TaskEnds` | 2 tasks of 1 workspace, 2 iterations, 1 retry, a pool of 1, failing disk, fairness | 390,245 |
| `workspace` | `RestoreIsAtomic`, `SnapshotIsOneMoment`, `NothingIsLost`, `QuotasHold` | 2 threads, 2 sources, a credential, 2 ignored directories, 1 snapshot, 2 faults, 1 death, a sandbox that writes | 1,601,656 |
| `gateway` | `NeverAnothersApp`, `PermitsAddUp`, `EverythingEnds` | 2 previews, 2 relays on 1 port, 3 requests, 1 permit, clients that leave or do not read, fairness | 266,888 |
| `egress` | `CountIsExact`, `PolicyIsExact`, `NoOrphanUpstream`, `StagesEnd` | 3 clients of a proxy for 2, six answers at the edges of the ranges, fairness | 72,689 |
| `docker` | `CleanupIsComplete`, `ResultIsTrue`, `FailsClosed`, `EverySandboxEnds` | every purpose, every outcome, 1 death of the process, fairness | 214,192 |
| `local` | `OutcomeIsTrue`, `RunsEnd` | a command of 5 chunks over a pipe of 2 and a limit of 2, a server, a forked process, fairness | 5,669 |
| `subrip` | `ParseIsFaithful`, `MeasuresAgree`, `SavingIsLossless`, `ClosedCuesStay` | every file of 5 lines of 10 kinds, 7 frame rates, 23.976 and 29.97 among them | 150,714 |
| `gateway_deadline` | `WholeResponseEnds`: **violated** | the instance of `gateway` | - |

Every property of these runs has a mutant of the code in `PROJECT.json` (an
operator such as `FailKeepsLease_Never` defined beside the one it replaces)
under which TLC finds it violated. Some properties are conjunctions of named
parts; each part is defined, with its comment, just before.

The violation. `docs/redstone/PREVIEW.md:218` gives "time to first byte / whole
response | 30 s / 120 s | GATEWAY-ENFORCED". The gateway compares the deadline when
another chunk has come from the app (`preview/gateway.py:247`), and it does not ask
for one while a connected client has not read the last: such a client keeps its
response and its permit for as long as it likes. `EverythingEnds` says that nobody
else does, and that the requests of others end all the same.

Bounds. Two callers and one timer per runtime are enough for every pair of
operations to race and a third thread to wait; two generations of a workspace are enough
for a lease to be passed on wrongly; leases of different workspaces share no
state, so one workspace is enough for the manager. One death
leaves orphans of one process beside the runtimes of the next; `MaxCrashes`
bounds it. `Ops` restricts what callers ask for: `stop`, `kill`, `reconcile` and orphan
recovery on demand are in `runtime_live`, where the provider answers; with one that
fails, and for every set of operations, the five properties of `runtime` are
theorems. The set of ids bounds
the number of generations: `RestartBusy` and the end of `issued` stand for its
exhaustion. Previews need three ids: two generations of a project and a
competitor for the last place. Two tasks are a task and the one that is refused,
or that inherits the workspace with handlers still running in it; a pool of one
thread is full with one hanging handler, and two iterations are the one in which
something happens and the one after it. Two relays on one port are the shortest way to
another preview's app. A restore has five kinds of step; two faults are one in
the restore and one in its recovery. Files are written with one size, which fills the
snapshot store, and a write that fails leaves an empty file: one that the sandbox fills
after its check was made takes the store over its quota while it is copied. Three clients of a proxy for two make the limit bite.
The six answers are one on each side of the edges the classifier may get wrong (a mask
inside an octet, a mapped address, the first special hextets, an address outside
2000::/3). A command that writes more than the pipe and the limit hold together is one that a
reader which stopped at the limit would block. Five lines are a whole cue and the
beginning of the next.

Deadlock is not checked except in `subrip`: callers may stop calling and ids run
out. That no thread waits forever is what `OperationsEnd`, `StartEnds`,
`TaskEnds`, `EverythingEnds`, `StagesEnd` and `EverySandboxEnds` say.

Fairness is stated only where the code schedules. `FairSpec` of `RuntimeManager`
asks for weak fairness of every thread that is inside an operation, and of armed
timers: the interpreter schedules every thread, every provider call has a
timeout, and operation locks are only waited for by threads that hold no other.
Nothing is asked of callers, of sandboxes or of the process. In `PreviewManager`
the sweeper is fair too (`serve.py` starts it and its loop survives a pass that
fails); clients, clocks and runtimes are not. The liveness runs of both use a
provider that answers: with one that fails forever, the code keeps the lease for
`destroy()` to retry, and nothing is promised. In `AgentTask` the threads of
tasks are fair, and a handler that has the workspace's lock, which is a local file
operation; a handler without it may hang for ever. In `PreviewGateway` what the
gateway and the relay do once a permit is taken, for every wait of theirs for each other
or the app has a timeout, and the passing of deadlines; no client has to send its body, to
read, or to leave. In `EgressProxy` the timers
and the answers of lookups, but no client and no upstream. In `DockerSandbox` the
caller's thread while it owns the sandbox, docker's own timeouts, and the thread of the
watchdog. In
`LocalSandbox` the reader, the owner and a command that writes and ends; the deadline of
`wait()` is not fair, so `RunsEnd` shows that nothing depends on it.

Known disagreements. While modelling we met behaviours of the code that its
comments or docs do not lead one to expect. The models contain all of them, and no
property above claims the contrary:

- The expiry thread saves the record it got from `kill()` after the lock is
  released: a `destroy()` in between is undone in the record, DESTROYED becomes
  KILLED (`runtime/manager.py:157`; `runtime/models.py:45` says it never moves).
- Orphan recovery on demand compares containers with live ids it took before:
  it destroys a runtime created in between (`manager.py:626`).
- `reconcile()` asks for the install sandbox of its snapshot and takes the dev
  server that has replaced it for a crash (`manager.py:586`).
- A probe or a teardown that raises leaves FAILED with a running sandbox
  (`manager.py:383`); the lease stays with it until a `destroy()`.
- The sweeper puts a session back as FAILED that was destroyed during its health
  check (`preview/manager.py:288`), and stops a preview that was used, or
  started, after its snapshot (`preview/manager.py:281`).
- When `_discard_runtime()` fails the session forgets the runtime, which keeps
  its lease until its timer kills it (`preview/manager.py:151`). `NoForgottenRuntime`
  says that this is the only way to lose one.
- A connected client that does not read its response keeps it, and its permit, past
  the deadline (`preview/gateway.py:247`; the run `gateway_deadline`).
- The snapshot store exceeds its limit by a file that grew while it was copied, until
  the copy is checked and removed, and for good when the removal fails or the process
  dies (`changes/snapshots.py:236`).
- A storage watchdog that was measuring when its sandbox ended by itself, and `wait()`
  stopped it, may still report the limit as exceeded (`docker_provider.py:701`).
- When orphan recovery fails at startup `create_app()` logs it and serves, so a
  fresh runtime can run beside the orphan (`api/app.py:122`).
- `SnapshotStore.delete()` takes no lock, and a `restore()` of the snapshot it removes
  returns with part of the files (`changes/snapshots.py:337`).
- Networks whose app container was never created are not found by orphan
  recovery (`docs/redstone/RUNTIME.md:125` says that they go with it).
- A cancellation during the last iteration ends as TIMED_OUT (`agent/loop.py:211`).
- The agent's snapshot is taken before the first mutating call is made, not on
  the first that succeeds (`docs/redstone/AGENT.md:199`).
- A local process that has ended by itself is not killed by `destroy()`, and what it
  left running in its process group goes on, though `kill()` is to be "including
  descendants" (`sandbox/provider.py:66`, `providers/local_provider.py:262`).
- A client that was denied and does not close keeps its place in the egress
  proxy: `reply()` arms no timer (`sandbox/egress_proxy.js:162`). One that was turned
  away for want of a place and resets its connection ends the whole proxy
  (`egress_proxy.js:222`; not in the model, see `EgressProxy` above).
- Text after the times of a timing line is dropped with a warning
  (`formats/srt.py:151`), and `ok` stays true, which is documented as "True when nothing
  was lost" (`srt.py:53`).

## 4. The proofs

All for every number of callers, runtimes, workspaces, previews, tasks, requests,
connections, lines of a file and deaths of the process, from the named assumptions on the
constants only. The type invariants and inductive invariants of the modules with proofs
are theorems, and so are not repeated as properties of the runs; they were
checked with TLC before they were proved.

| Module | Theorems |
|---|---|
| `RuntimeManagerProofs` | `TypeCorrect`, and the lemmas that a thread inside an operation holds its lock and knows the state of its runtime; `Inductive` (`IInv`); `LeaseIsHeld`, `Isolation` (`OneSandboxPerWorkspace`), `LeasesAreNeeded` (`NoLeakedLease`) |
| the same | `MovesAreLegal` (`MovesFollowGraph`), `DestroyedIsClean` (`DestroyedLeavesNothing`), `Refinement` (`ImplementsLease`); `LeaseExcludes`: no system that keeps to the abstract lease runs two of one workspace |
| `PreviewManagerProofs` | `TypeCorrect`, `Inductive` (`IInv`); `Routing` (`RoutesAreCurrent`), `StartsAreUndisturbed` (`StartUndisturbed`), `Bounded` (`ActiveBound`), `NoneForgotten` (`NoForgottenRuntime`) |
| `AgentTaskProofs` | `TypeCorrect`, `SnapshotsCover` (`SnapshotPrecedesEdits`), `ChangesetsExact` (`ChangesetIsExact`), `CancellationPrompt` (`CancelIsPrompt`), `StartsInTime`, `RecordsFollowGraph` (`RecordFollowsGraph`), `Refinement` (`ImplementsLease`), `OneTaskAtATime` |
| `PreviewGatewayProofs` | `TypeCorrect`, `AnswersAreOwn` (`NeverAnothersApp`), `PermitsCorrect` (`PermitsAddUp`), `BusyOnlyWhenFull` (a 429 only while the limit is in progress), `RelaysBounded` |
| `EgressProxyProofs` | `TypeCorrect`, `CountCorrect` (`CountIsExact`), `UpstreamsHaveClients` (`NoOrphanUpstream`), `UpstreamsAreChecked`, `PolicyExact` (`PolicyIsExact`) |
| `DockerSandboxProofs` | `TypeCorrect`, `Inductive` (`IInv`); `CleanupComplete` (`CleanupIsComplete`), `ResultsAreTrue` (`ResultIsTrue`), `CreateFailsClosed` (`FailsClosed`) |
| `WorkspaceFilesProofs` | `TypeCorrect`, `Inductive` (`IInv`); `RestoreAtomic` (`RestoreIsAtomic`), `SnapshotAtOneMoment` (`SnapshotIsOneMoment`), `NothingLost` (`NothingIsLost`), `QuotasKept` (`QuotasHold`) |
| `LocalSandboxAndSubRipProofs`, first part | `TypeCorrect`, `Inductive` (`IInv`) of `LocalSandbox`; `OutcomesAreTrue` (`OutcomeIsTrue`) |
| the same, second part | of `SubRip`: `ParsedIsCurrent` (`Reached`); `ParsingIsFaithful` (`ParseIsFaithful`), `MeasuresHold` (`MeasuresAgree`), `SavingLosesNothing` (`SavingIsLossless`), `TypingKeepsClosed` (`ClosedCuesStay`) |

The argument for `OneSandboxPerWorkspace`. The property is not inductive: it
says nothing of which runtime may start a sandbox. `IInv` adds four parts.
`LockInv`: a thread inside an operation holds the lock of its target, and the
holder of a lock is inside an operation on it. `PhaseInv`: what that thread
knows of the runtime's state from its program counter (a starting thread's
runtime is STARTING, so no other thread is past `_op_lock`). `SandboxInv`: a
sandbox of this process runs only while `sandbox_id` names it, and after the
cleanup calls none runs. `LeaseInv`: a runtime that is active, or has a running
sandbox, holds the lease; and a lease that is held has a reason. Two running
sandboxes of a workspace are then both the lease holder's, and both recorded in
its one `sandbox_id`.

Three promises need a little more than `IInv`. `ExpiryInv`: a thread that ends a
runtime for its timer is that runtime's own timer thread, so the one save made
without the lock can only turn the runtime's own DESTROYED to KILLED
(`MovesAreLegal`). `CleanupInv`: `sandbox_id` names not only the running sandbox
but any that was started and not removed, and while destroy() is between the
provider and its save there is none; a record changes only under the lock of a
start() whose runtime has nothing started (`RecordStep`), and a thread reaches
the save only past the removal (`DestroyStep`). `Refinement` needs no further
invariant: a sandbox starts under the lease (`Run`), one that stops or is removed
is `End` or nothing, `_release_slot()` comes after the cleanup (`Free`), and the
death of the process turns what runs into orphans (`Die`).

The argument for `RoutesAreCurrent`. A session becomes READY only from
STARTING, under the project lock and with its runtime recorded, and whoever takes
READY away removes the upstream before. `LockInv` says that a thread inside
start, stop or destroy holds the lock and works on its project's current
preview, `StartInv` what start() may assume, `DownInv` that whoever is about to
change a session has unrouted it. The sweeper fails previews without the lock;
`SweepInv` is why that is harmless to routes: its stale records are of sessions
that were READY once, and those are never STARTING again because ids are not
reused. `ActiveBound` follows from it because
only `StartBegin` adds an active session, in the section that counts them, and
`Publish` makes READY only what was STARTING; it needs no assumption that ids
are finitely many.

The argument for the agent. Handlers that nobody waits for any more write into
the same files as the task that holds the lease, so nothing about the files
follows from the lease. The invariant is about calls instead: a call that has
not begun belongs to the current iteration of a task that waits for it
(`CallInv`: `Awaited`, `Unused`); a call of a mutating tool has an older
snapshot or still waits for it (`SnapshotInv`: `Covered`), which settles what a
late edit may do; and the edits since `before_state` are exactly the task's own,
but for late ones (`ChangeInv`: `Since`, `Reported`). `LabelInv` ties the lease
to the thread, so `live` in the refinement mapping is at most the holder:
`Refinement` shows every step to be one of `WorkspaceLease`, and `OneTaskAtATime`
is what the lease then gives.

The argument for the gateway. `Tokens`: the relay a request is sent to, is served
by and is answered by are the same run, because a relay serves only its own
token, whatever port it listens on; a run belongs to one preview. `Permits`: free
permits and the requests in `holds` make up the limit, because each of the ends
of a request releases once and removes it from `holds`; `Labels` says that these are the
requests in progress, wherever their clients are, and so `PermitsAddUp` and
`BusyOnlyWhenFull` follow. `Slots` is the same for the relay's count.

The argument for the egress proxy. The counter is a plain integer lowered in a
`close` handler that connections of every stage reach. `Count` says that it is
the cardinality of the open, counted sockets; each step then needs to know only
what the stage says of the sockets (`Sockets`), the timers (`Armed`) and the bytes
(`Bytes`). `Checked` follows what was allowed from the header to the connection.

`PolicyExact` is about addresses, not states: `ClassifierIsExact` says that
`isPublicAddress()` accepts exactly the addresses outside the ranges the comments of
the source name. The masks are compared as numbers (`MaskIs`: an octet with its free
bits cleared is the multiple of a power of two below it), which turns a row of the
table into an interval (`IPv4IsExact`). `ExpandIsExact` says that `expandIPv6()`
puts the hextets before the gap, after it and of a dotted end where they belong, so
that the tests on hextets are intervals too (`IPv6IsExact`). Assumed of the answers
of a lookup is only that they are addresses (`WellFormed`: `dns.lookup()` gives four
octets or eight hextets); with it `Checked` carries the property to every connection.

`NoneForgotten` holds whatever the provider does. A runtime is `Owed` while it has a
lease and no `destroy()` of it was swallowed. `NamedInv` says that one that is owed is
recorded by a session that is STARTING or READY; `GoneInv`, that none is wherever a thread is
about to end or to forget a session, for it has been destroyed or its destroy was
swallowed; and `StarterInv`, that a session is STARTING only while the `start()` that began
it has the project's lock.

The argument for docker. What exists depends on how far a sequence of commands has
come: `BuildInv` says that everything before the current command of `create()` is
there, `RubbleInv` that everything before the current command of
`_remove_network()` is gone, `RecoverInv` that every container of a dead process
is still on the list of orphan recovery, `MemoryInv` what the process knows
of the sandbox meanwhile, and that a watchdog it is done with has been told to end. A
command that fails costs only the object it was about, or the networks that this object
keeps (`Excused`), which is what `CleanupIsComplete` says too. `WatchInv` follows the
reason of a kill from the watchdog, which records it first, to the result: `wait()` reads
it after the end of the app, and what a stopped watchdog does later is about an app that
had ended without it.

The argument for snapshots and restores. `Placed` ties the program counter of the thread
that has the lock to its arguments, and `DirsInv` says which directories exist
at each step. `CopyInv` and `RestoreInv` say where each part of the project is: the
project's own files are in one directory, and every ignored tree in one of two
(`Scattered`), so that each recovery has a place to take it from; a second fault
leaves them scattered and lost to nobody. `WreckInv` is the same of what a process
that died has left on the disk. All three except the files of somebody
who takes no lock (`raced`): the sandbox, and `delete()`. `QuotaInv` needs
sums over the snapshots: the theorems of the library on finite sums take their induction hypothesis
as an operator, which no installed prover can be given, so `NaturalInduction` is
proved once for a set and the lemmas on sums and cardinalities follow from it. Between
two files the snapshot being made has `copy.total` bytes and fits; between a copy and its
check it fits without that one file (`Counted`, `Without`), and a death or a removal that
fails leaves it so, for while the store is over its limit no `create()` begins (`Bounded`).

The argument for the local provider. `StreamInv` says where the output is: still to be
written, in the pipe, or read, and what was read is kept up to the limit; a reader that is
done has left nothing. `ProcessInv`: only a process that has ended is reaped, so a
`killpg()` before that found its group, and nothing of the group outlives it. `OwnerInv`:
what the calls may count on where they are. `HarvestInv`: `result` was made from what was
there when the reader was joined, or is marked late.

The argument for `SubRip`. The invariant is that the track is what `parse()` makes of the
file (`Reached`), so the work is in lemmas about `parse()` and `serialize()` for every
sequence of lines. Their loops are folds, and a fold of the community modules is a choice
of a function on sets of indices: `Iteration` shows that there is one, `Unrolled` and
`Recursion` that it is a recursion over 0..N, `Agree` that there is only one; from there
come facts such as `ScanAppend` (a line more is read after the others, and changes nothing
of what was found before). `SeqInduction` follows, as `NaturalInduction` does, from the
library's theorem on well-founded relations, which needs no operator; `ScanIsRight`,
`ReadIsRight` and `SavedIsKept` are proved with it, one line, one block, one cue at a time.

- `ParseIsFaithful`: `Scanned` says what `_split_blocks()` knows at any line, `SplitIsRight`
  that its blocks are the runs of lines between blank ones, in order, and `AsManyRuns`
  that there are as many. `RightlyRead` says what `parse()` knows at any block: each block
  is one cue or has one error, and the next index follows the last cue's.
- `SavingIsLossless`: `WrittenIsRead` (hours, minutes, seconds and digits add up to the
  time they were cut from), `CueIsRead` (a cue's lines are read as the cue), `ScanBlock`
  (with its blank line it is one block, whatever comes before), and `CuesAreSaved`, the
  reason it works: no cue read from a file holds a blank line.
- `ClosedCuesStay`: a line at the end reaches only the block that is not over.
- `MeasuresAgree`: `CutAll` follows `_aksharas()` cluster by cluster; `FramesOfMs` is the
  arithmetic of rounding up and down, for every rate that is a fraction; `FlattenGrows`
  orders the units; `StartsInOrder` takes the order of neighbours to the
  order of any two cues, which is why the gaps of neighbours are enough.

Only model-checked are the liveness properties, which are out of the prover's reach:
`OperationsEnd`, `LifetimeEnforced`, `StartEnds`, `SweepNotices`, `TaskEnds`, `EverythingEnds`,
`StagesEnd`, `EverySandboxEnds`, `RunsEnd`. Every invariant and every action property of the
runs is a theorem.

## 5. Plan

1. *Done:* RuntimeManager with its lease specification, PreviewManager.
2. *Done:* PreviewGateway with the relay, AgentTask with the tool pool and the AI
   exchange, WorkspaceFiles with snapshots, DockerSandbox with the validation
   runner and recovery, EgressProxy, SubRip; proofs for the gateway, the agent
   and the egress proxy, and the agent's refinement of `WorkspaceLease`.
3. *Done:* the manager's moves, its cleanup and its refinement of
   `WorkspaceLease`; the docker sandbox, snapshots and restores, the address policy
   and the runtimes of previews, proved; `LocalSandbox`, checked.
4. *Done:* `OutcomeIsTrue` of `LocalSandbox`, and all of `SubRip`, proved.
5. Worth doing after that: a composition of `AgentTask` and `WorkspaceFiles` in which a
   task's calls are the steps of a restore or a write; WebVTT beside SubRip.

## 6. Not modelled

- The local provider on Windows (`taskkill`); its `logs()` and `list_managed()`, which
  only read, and `exec_in()`, which runs another command and touches none of its state.
- Event bus: one lock around a bounded history; no handler in `src` decides
  anything on an event, so no state of another part depends on the order of
  delivery.
- Configuration and domain records: values that do not change after startup.
- HTTP API: each route calls one service operation; the startup that changes
  state is in `RuntimeManager` and `DockerSandbox`.
- Parsing and formatting (prompts, tool arguments, headers, cookies, paths), path and link
  checks, redaction, base-URL checks: refusals and conversions without state. In
  the modules that need them they are a choice between refused and accepted.
- The translator service, the web page, the React frontend and the research
  scripts: no state that two actors share.
- A provider that never answers: every call of it has a timeout in the code.
