--------------------------- MODULE PreviewManager ---------------------------
(***************************************************************************)
(* redstone/preview/manager.py: PreviewManager, the threads of the API     *)
(* that start, stop and destroy previews, the sweeper, the gateway's       *)
(* lookups, and the runtimes the previews live on.                         *)
(*                                                                         *)
(* Every session gets a new id and creates at most one runtime, so the     *)
(* runtime of session v is named v.  A section of self._lock is one step;  *)
(* calls of RuntimeManager are steps of their own, with the outcomes that  *)
(* module RuntimeManager allows them.                                      *)
(*                                                                         *)
(* Left out: events, error codes, the URL of a preview.                    *)
(***************************************************************************)
EXTENDS Naturals, FiniteSets

CONSTANTS
    Caller,         \* threads of API handlers
    Sweeper,        \* the thread of start_sweeper()
    Project,
    PreviewId,      \* the ids new_preview_id() hands out
    ProjectOf,      \* the project a preview id will be used for
    None,           \* no preview, no thread
    MaxActive,      \* PreviewConfig.max_active
    ProviderFails   \* whether calls of the sandbox provider may raise

Proc == Caller \cup {Sweeper}

ASSUME PreviewManagerAssumption ==
    /\ ProjectOf \in [PreviewId -> Project]
    /\ Sweeper \notin Caller
    /\ None \notin Proc \cup PreviewId
    /\ MaxActive \in Nat \ {0}
    /\ ProviderFails \in BOOLEAN

VARIABLES
    session,    \* _sessions: the status, "absent" when there is no session
    recorded,   \* the sessions whose record has a runtime_id
    current,    \* _by_project
    upstream,   \* the sessions _upstreams has an entry for
    issued,     \* preview ids handed out so far
    age,        \* created_at and last_activity, as sweep() compares them
    projectLock,
    runtime,    \* what RuntimeManager and the provider know of v's runtime
    swallowed,  \* history: the runtimes whose destroy() raised in _discard_runtime()
    pc, mine,   \* what each thread does, and the preview it has read
    held,       \* whether the record it has read names a runtime
    todo        \* the records of sweep()'s snapshot still to look at

sessions == <<session, recorded, current, upstream, issued>>
local == <<mine, held, todo>>
vars == <<session, recorded, current, upstream, issued, age, projectLock,
          runtime, swallowed, pc, mine, held, todo>>

Status == {"absent", "starting", "ready", "failed", "stopped"}

\* "dead": RUNNING in the records, but its server does not answer any more.
\* "stuck": FAILED, and its sandbox could not be removed.
Runtime == {"none", "created", "running", "dead", "stuck", "ended"}

\* RuntimeManager keeps the workspace's lease for these.
Leased == {"created", "running", "dead", "stuck"}

Age == {"fresh", "idle", "old"}

StartSteps == {"create", "startRuntime", "lookup", "probe", "publish"}
FailSteps == {"discard", "unroute", "fail"}
StopSteps == {"stopDiscard", "stopped"}
DestroySteps == {"destroyDiscard", "forget"}
SweepSteps == {"sweep", "sweepStop"}

TypeOK ==
    /\ session \in [PreviewId -> Status]
    /\ recorded \subseteq PreviewId
    /\ current \in [Project -> PreviewId \cup {None}]
    /\ upstream \subseteq PreviewId
    /\ issued \subseteq PreviewId
    /\ age \in [PreviewId -> Age]
    /\ projectLock \in [Project -> Proc \cup {None}]
    /\ runtime \in [PreviewId -> Runtime]
    /\ swallowed \subseteq PreviewId
    /\ pc \in [Proc -> {"idle"} \cup StartSteps \cup FailSteps \cup StopSteps
                         \cup DestroySteps \cup SweepSteps]
    /\ mine \in [Proc -> PreviewId \cup {None}]
    /\ held \in [Proc -> BOOLEAN]
    /\ todo \subseteq PreviewId \X Age

Init ==
    /\ session = [v \in PreviewId |-> "absent"]
    /\ recorded = {}
    /\ current = [j \in Project |-> None]
    /\ upstream = {}
    /\ issued = {}
    /\ age = [v \in PreviewId |-> "fresh"]
    /\ projectLock = [j \in Project |-> None]
    /\ runtime = [v \in PreviewId |-> "none"]
    /\ swallowed = {}
    /\ pc = [p \in Proc |-> "idle"]
    /\ mine = [p \in Proc |-> None]
    /\ held = [p \in Proc |-> FALSE]
    /\ todo = {}

-----------------------------------------------------------------------------
Goto(p, label) == pc' = [pc EXCEPT ![p] = label]

Lock(p, j) == projectLock[j] = None /\ projectLock' = [projectLock EXCEPT ![j] = p]

Unlock(p) == projectLock' = [projectLock EXCEPT ![ProjectOf[mine[p]]] = None]

\* The thread keeps the record of v it has read.
Read(p, v) ==
    /\ mine' = [mine EXCEPT ![p] = v]
    /\ held' = [held EXCEPT ![p] = v \in recorded]

\* The operation is over; sweep() goes on with its snapshot.
Return(p) ==
    /\ Goto(p, IF p = Sweeper THEN "sweep" ELSE "idle")
    /\ mine' = [mine EXCEPT ![p] = None]
    /\ held' = [held EXCEPT ![p] = FALSE]

\* _put(): the record replaces whatever _sessions holds, or does not hold.
\* These puts clear runtime_id, and with_status() is an activity.
Put(p, status) ==
    /\ session' = [session EXCEPT ![mine[p]] = status]
    /\ recorded' = recorded \ {mine[p]}
    /\ age' = [age EXCEPT ![mine[p]] = IF @ = "idle" THEN "fresh" ELSE @]

Current(j) == IF current[j] = None THEN "absent" ELSE session[current[j]]

Active == {v \in PreviewId : session[v] \in {"starting", "ready"}}

-----------------------------------------------------------------------------
(* start(): BUSY, LIMIT_REACHED and a READY preview change nothing.        *)

\* Mutation: the limit is compared as if this start were not counted.
Room_OffByOne == Cardinality(Active) <= MaxActive

Room == Cardinality(Active) < MaxActive

StartBegin(p, j, v) ==
    /\ p \in Caller /\ pc[p] = "idle"
    /\ Lock(p, j)
    /\ Current(j) # "ready"
    /\ Room
    /\ v \notin issued /\ ProjectOf[v] = j
    /\ issued' = issued \cup {v}
    /\ session' = [u \in PreviewId |-> IF u = v THEN "starting"
                                       ELSE IF u = current[j] THEN "absent"
                                       ELSE session[u]]
    /\ recorded' = recorded \ {current[j]}
    /\ current' = [current EXCEPT ![j] = v]
    /\ mine' = [mine EXCEPT ![p] = v]
    /\ held' = [held EXCEPT ![p] = FALSE]
    /\ Goto(p, "create")
    /\ UNCHANGED <<upstream, age, runtime, swallowed, todo>>

\* RuntimeManager.create() and the _put() of the runtime id.  It raises when
\* another runtime holds the workspace or the provider is unavailable.
CreateRuntime(p) ==
    /\ pc[p] = "create"
    /\ \/ /\ \A u \in PreviewId :
               ProjectOf[u] = ProjectOf[mine[p]] => runtime[u] \notin Leased
          /\ runtime' = [runtime EXCEPT ![mine[p]] = "created"]
          /\ recorded' = recorded \cup {mine[p]}
          /\ held' = [held EXCEPT ![p] = TRUE]
          /\ Goto(p, "startRuntime")
       \/ Goto(p, "discard") /\ UNCHANGED <<runtime, recorded, held>>
    /\ UNCHANGED <<swallowed, session, current, upstream, issued, age, projectLock, mine, todo>>

\* RuntimeManager.start(): RUNNING; or FAILED, without its sandbox or, when the
\* teardown failed, with it.  It raises when someone ended the runtime before.
StartRuntime(p) ==
    LET v == mine[p] IN
    /\ pc[p] = "startRuntime"
    /\ IF runtime[v] # "created"
         THEN Goto(p, "discard") /\ UNCHANGED runtime
         ELSE \E outcome \in {"running", "ended"} \cup IF ProviderFails THEN {"stuck"} ELSE {} :
                /\ runtime' = [runtime EXCEPT ![v] = outcome]
                /\ Goto(p, IF outcome = "running" THEN "lookup" ELSE "discard")
    /\ UNCHANGED <<sessions, age, projectLock, swallowed, local>>

\* RuntimeManager.preview_upstream(): only for a RUNNING runtime.
Lookup(p) ==
    /\ pc[p] = "lookup"
    /\ Goto(p, IF runtime[mine[p]] \in {"running", "dead"} THEN "probe" ELSE "discard")
    /\ UNCHANGED <<sessions, age, projectLock, runtime, swallowed, local>>

\* _wait_until_serving(): the app answers through its relay, or the deadline
\* passes.
Probe(p) ==
    /\ pc[p] = "probe"
    /\ \/ runtime[mine[p]] = "running" /\ Goto(p, "publish")
       \/ Goto(p, "discard")
    /\ UNCHANGED <<sessions, age, projectLock, runtime, swallowed, local>>

Publish(p) ==
    /\ pc[p] = "publish"
    /\ upstream' = upstream \cup {mine[p]}
    /\ session' = [session EXCEPT ![mine[p]] = "ready"]
    /\ Unlock(p) /\ Return(p)
    /\ UNCHANGED <<recorded, current, issued, age, runtime, swallowed, todo>>

-----------------------------------------------------------------------------
(* _discard_runtime(): RuntimeManager.destroy() of the runtime the record  *)
(* names.  An error is swallowed; the runtime stays as it was, or has only *)
(* lost its sandbox.                                                       *)

\* Mutation: the runtime is left to its expiry timer.
Discard_Skips(p) == UNCHANGED <<runtime, swallowed>>

Discard(p) ==
    LET v == mine[p] IN
    \/ ~held[p] /\ UNCHANGED <<runtime, swallowed>>
    \/ held[p] /\ runtime' = [runtime EXCEPT ![v] = "ended"] /\ UNCHANGED swallowed
    \/ /\ held[p] /\ ProviderFails /\ runtime[v] \in Leased \ {"created"}
       /\ swallowed' = swallowed \cup {v}
       /\ \/ UNCHANGED runtime
          \/ runtime[v] = "running" /\ runtime' = [runtime EXCEPT ![v] = "dead"]

DiscardStep(p, label, next) ==
    /\ pc[p] = label
    /\ Discard(p)
    /\ Goto(p, next)
    /\ UNCHANGED <<sessions, age, projectLock, local>>

(* _fail(), under the project lock in start() and without it in sweep().   *)
FailDiscard(p) == DiscardStep(p, "discard", "unroute")

\* Mutation: a failed preview keeps its upstream.
Unroute_Never(p) == upstream' = upstream

Unroute(p) == upstream' = upstream \ {mine[p]}

FailUnroute(p) ==
    /\ pc[p] = "unroute"
    /\ Unroute(p)
    /\ Goto(p, "fail")
    /\ UNCHANGED <<session, recorded, current, issued, age, projectLock, runtime, swallowed, local>>

\* Mutation: the failure is not put into the records.
PutFailed_Never(p) == UNCHANGED <<session, recorded, age>>

PutFailed(p) == Put(p, "failed")

Fail(p) ==
    /\ pc[p] = "fail"
    /\ PutFailed(p)
    /\ IF p = Sweeper THEN UNCHANGED projectLock ELSE Unlock(p)
    /\ Return(p)
    /\ UNCHANGED <<current, upstream, issued, runtime, swallowed, todo>>

-----------------------------------------------------------------------------
(* stop(): waits for the project lock.  A stopped preview is returned as   *)
(* it is, and a project without a preview raises NOT_FOUND.                *)

\* Mutation: stop() does not take the project lock.
Wait_Never(p, j) == projectLock' = [projectLock EXCEPT ![j] = p]

Wait(p, j) == Lock(p, j)

StopBegin(p, j) ==
    /\ \/ p \in Caller /\ pc[p] = "idle"
       \/ p = Sweeper /\ pc[p] = "sweepStop" /\ ProjectOf[mine[p]] = j
    /\ Wait(p, j)
    /\ Current(j) \notin {"absent", "stopped"}
    /\ Read(p, current[j])
    /\ upstream' = upstream \ {current[j]}
    /\ Goto(p, "stopDiscard")
    /\ UNCHANGED <<session, recorded, current, issued, age, runtime, swallowed, todo>>

\* The sweeper finds the preview stopped, or gone: NOT_FOUND ends the pass.
SweepStopIdle(p) ==
    LET j == ProjectOf[mine[p]] IN
    /\ p = Sweeper /\ pc[p] = "sweepStop"
    /\ projectLock[j] = None
    /\ Current(j) \in {"absent", "stopped"}
    /\ todo' = IF Current(j) = "absent" THEN {} ELSE todo
    /\ Return(p)
    /\ UNCHANGED <<sessions, age, projectLock, runtime, swallowed>>

StopDiscard(p) == DiscardStep(p, "stopDiscard", "stopped")

Stopped(p) ==
    /\ pc[p] = "stopped"
    /\ Put(p, "stopped")
    /\ Unlock(p) /\ Return(p)
    /\ UNCHANGED <<current, upstream, issued, runtime, swallowed, todo>>

(* destroy(): stop and forget.                                             *)
DestroyBegin(p, j) ==
    /\ p \in Caller /\ pc[p] = "idle"
    /\ Wait(p, j)
    /\ Current(j) # "absent"
    /\ Read(p, current[j])
    /\ upstream' = upstream \ {current[j]}
    /\ Goto(p, "destroyDiscard")
    /\ UNCHANGED <<session, recorded, current, issued, age, runtime, swallowed, todo>>

DestroyDiscard(p) == DiscardStep(p, "destroyDiscard", "forget")

Forget(p) ==
    /\ pc[p] = "forget"
    /\ Put(p, "absent")
    /\ current' = [current EXCEPT ![ProjectOf[mine[p]]] = None]
    /\ Unlock(p) /\ Return(p)
    /\ UNCHANGED <<upstream, issued, runtime, swallowed, todo>>

-----------------------------------------------------------------------------
(* sweep(): a snapshot of the READY previews, each of them stopped when it *)
(* was idle or old at the snapshot and checked otherwise.                  *)

SweepRead ==
    /\ pc[Sweeper] = "idle"
    /\ todo' = {<<v, age[v]>> : v \in {u \in PreviewId : session[u] = "ready"}}
    /\ todo' # {}
    /\ Goto(Sweeper, "sweep")
    /\ UNCHANGED <<sessions, age, projectLock, runtime, swallowed, mine, held>>

\* Mutation: the idle timeout is not compared.
Due_Fresh(a) == a = "old"

Due(a) == a \in {"idle", "old"}

SweepOverdue(v, a) ==
    /\ pc[Sweeper] = "sweep"
    /\ <<v, a>> \in todo /\ Due(a)
    /\ todo' = todo \ {<<v, a>>}
    /\ mine' = [mine EXCEPT ![Sweeper] = v]
    /\ Goto(Sweeper, "sweepStop")
    /\ UNCHANGED <<sessions, age, projectLock, runtime, swallowed, held>>

\* RuntimeManager.health_check(): a runtime that does not answer is torn down.
HealthCheck(v) ==
    \/ runtime[v] # "dead" /\ UNCHANGED runtime
    \/ runtime[v] = "dead" /\ runtime' = [runtime EXCEPT ![v] = "ended"]
    \/ runtime[v] = "dead" /\ ProviderFails /\ runtime' = [runtime EXCEPT ![v] = "stuck"]

\* An unhealthy preview goes to _fail() with the record of the snapshot.
SweepCheck(v, a) ==
    /\ pc[Sweeper] = "sweep"
    /\ <<v, a>> \in todo /\ ~Due(a)
    /\ todo' = todo \ {<<v, a>>}
    /\ HealthCheck(v)
    /\ IF runtime[v] = "running"
         THEN UNCHANGED <<pc, mine, held>>
         ELSE /\ Goto(Sweeper, "discard")
              /\ mine' = [mine EXCEPT ![Sweeper] = v]
              /\ held' = [held EXCEPT ![Sweeper] = TRUE]
    /\ UNCHANGED <<sessions, age, projectLock, swallowed>>

\* The snapshot is done, or a provider call of a health check raised: the loop
\* of start_sweeper() catches it and the rest of the pass is lost.
SweepEnd ==
    /\ pc[Sweeper] = "sweep"
    /\ todo = {} \/ ProviderFails
    /\ todo' = {}
    /\ Goto(Sweeper, "idle")
    /\ UNCHANGED <<sessions, age, projectLock, runtime, swallowed, mine, held>>

-----------------------------------------------------------------------------
(* The gateway, time, and everyone else who uses the runtimes.             *)

\* resolve(): a hit of a READY preview is activity.
Resolve(v) ==
    /\ session[v] = "ready" /\ v \in upstream
    /\ age[v] = "idle"
    /\ age' = [age EXCEPT ![v] = "fresh"]
    /\ UNCHANGED <<sessions, projectLock, runtime, swallowed, pc, local>>

Ages(v) ==
    /\ session[v] = "ready"
    /\ \E a \in {"idle", "old"} :
         /\ age[v] # "old" /\ age[v] # a
         /\ age' = [age EXCEPT ![v] = a]
    /\ UNCHANGED <<sessions, projectLock, runtime, swallowed, pc, local>>

\* The server of a runtime crashes or hangs.
RuntimeDies(v) ==
    /\ runtime[v] = "running"
    /\ runtime' = [runtime EXCEPT ![v] = "dead"]
    /\ UNCHANGED <<sessions, age, projectLock, swallowed, pc, local>>

\* The expiry timer kills it, or the runtime routes of the API stop it.
RuntimeEnds(v) ==
    /\ runtime[v] \in {"created", "running", "dead"}
    /\ runtime' = [runtime EXCEPT ![v] = "ended"]
    /\ UNCHANGED <<sessions, age, projectLock, swallowed, pc, local>>

-----------------------------------------------------------------------------
Request(p) ==
    \E j \in Project :
        \/ \E v \in PreviewId : StartBegin(p, j, v)
        \/ p \in Caller /\ StopBegin(p, j)
        \/ DestroyBegin(p, j)

Continue(p) ==
    \/ CreateRuntime(p) \/ StartRuntime(p) \/ Lookup(p) \/ Probe(p) \/ Publish(p)
    \/ FailDiscard(p) \/ FailUnroute(p) \/ Fail(p)
    \/ StopDiscard(p) \/ Stopped(p)
    \/ DestroyDiscard(p) \/ Forget(p)

Sweep ==
    \/ SweepRead \/ SweepEnd \/ SweepStopIdle(Sweeper)
    \/ \E v \in PreviewId, a \in Age : SweepOverdue(v, a) \/ SweepCheck(v, a)
    \/ \E j \in Project : pc[Sweeper] = "sweepStop" /\ StopBegin(Sweeper, j)

Environment ==
    \E v \in PreviewId : Resolve(v) \/ Ages(v) \/ RuntimeDies(v) \/ RuntimeEnds(v)

Next ==
    \/ \E p \in Caller : Request(p)
    \/ \E p \in Proc : Continue(p)
    \/ Sweep
    \/ Environment

\* Every call ends within its timeout, and serve.py starts the sweeper.
Fairness ==
    /\ \A p \in Proc : WF_vars(Continue(p))
    /\ WF_vars(Sweep)

Spec == Init /\ [][Next]_vars

FairSpec == Spec /\ Fairness

-----------------------------------------------------------------------------
(* What the previews promise.                                              *)

\* The gateway reaches an app only through the READY preview its project has
\* now: no stopped, failed, replaced or forgotten preview keeps a route.
RoutesAreCurrent ==
    \A v \in upstream :
        session[v] = "ready" /\ v \in recorded /\ current[ProjectOf[v]] = v

\* Never more than max_active previews are STARTING or READY.
ActiveBound == Cardinality(Active) <= MaxActive

\* While start() is at work its session stays STARTING and its project's own:
\* stop() and destroy() wait, the sweeper and the gateway leave it alone.
StartUndisturbed ==
    \A p \in Caller :
        pc[p] \in StartSteps =>
            /\ session[mine[p]] = "starting"
            /\ current[ProjectOf[mine[p]]] = mine[p]

\* The runtime has its workspace's lease, and nobody has been told in vain to
\* give it back.
Owed(v) == runtime[v] \in Leased /\ v \notin swallowed

\* The previews lose a runtime in one way only: its own destroy() raised and
\* _discard_runtime() swallowed the error.  Any other runtime that keeps the
\* lease of its workspace is named by the record of a session the API knows,
\* so that stop(), destroy() or the sweeper will give it back.
NoForgottenRuntime ==
    \A v \in PreviewId : Owed(v) => v \in recorded /\ session[v] # "absent"

\* A start() always ends, READY or FAILED.
StartEnds ==
    \A v \in PreviewId : session[v] = "starting" ~> session[v] # "starting"

\* An idle or old preview is stopped, unless it is used again.
OverdueIsStopped ==
    \A v \in PreviewId :
        session[v] = "ready" /\ age[v] # "fresh"
            ~> session[v] # "ready" \/ age[v] = "fresh"

\* A READY preview whose runtime is gone does not stay READY.
CrashIsNoticed ==
    \A v \in PreviewId :
        session[v] = "ready" /\ runtime[v] # "running" ~> session[v] # "ready"

\* The sweeper misses nothing for ever, whatever its snapshots miss.
SweepNotices == OverdueIsStopped /\ CrashIsNoticed

-----------------------------------------------------------------------------
(* The inductive invariant.                                                *)

\* p is between the taking and the giving back of its project's lock.
Starting(p) ==
    \/ pc[p] \in StartSteps
    \/ p # Sweeper /\ pc[p] \in FailSteps

Ending(p) == pc[p] \in StopSteps \cup DestroySteps

\* Only ids that were handed out name a session.
IdInv ==
    /\ \A j \in Project :
         current[j] # None => current[j] \in issued /\ ProjectOf[current[j]] = j
    /\ \A v \in PreviewId : session[v] # "absent" => v \in issued

\* A thread inside start(), stop() or destroy() holds the lock of its project
\* and works on the preview the project has.
LockInv ==
    \A p \in Proc :
        Starting(p) \/ Ending(p) =>
            /\ mine[p] \in issued
            /\ projectLock[ProjectOf[mine[p]]] = p
            /\ current[ProjectOf[mine[p]]] = mine[p]

\* start() works on a STARTING session that has no route; between create() and
\* the end its record names the runtime.
StartInv ==
    /\ pc[Sweeper] \notin StartSteps
    /\ \A p \in Caller : Starting(p) =>
         session[mine[p]] = "starting" /\ mine[p] \notin upstream
    /\ \A p \in Caller :
         pc[p] \in StartSteps \ {"create"} => mine[p] \in recorded

\* What stop(), destroy() and a failing sweep change has no route any more.
DownInv ==
    \A p \in Proc : Ending(p) \/ pc[p] = "fail" => mine[p] \notin upstream

\* The sweeper's stale records are of sessions that were READY once: start()
\* is done with them for good, because ids are not used twice.
SweepInv ==
    /\ \A x \in todo : x[1] \in issued /\ session[x[1]] # "starting"
    /\ pc[Sweeper] \in FailSteps \cup {"sweepStop"} =>
         mine[Sweeper] \in issued /\ session[mine[Sweeper]] # "starting"

IInv ==
    /\ TypeOK /\ IdInv /\ LockInv /\ StartInv /\ DownInv /\ SweepInv
    /\ RoutesAreCurrent
=============================================================================
