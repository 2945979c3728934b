------------------------ MODULE PreviewManagerProofs ------------------------
(***************************************************************************)
(* Routes, undisturbed starts and the limit of PreviewManager, for every   *)
(* number of callers, projects and previews.                               *)
(***************************************************************************)
EXTENDS PreviewManager, TLAPS, FiniteSetTheorems

-----------------------------------------------------------------------------
(* start(): each step keeps every part of the invariant.                   *)

\* A new id: no thread, no snapshot and no route knows it yet.
LEMMA StartBeginStep ==
    ASSUME IInv, NEW p \in Caller, NEW j \in Project, NEW v \in PreviewId,
           StartBegin(p, j, v)
    PROVE  IInv'
<1>1. TypeOK'
  BY DEF IInv, TypeOK, StartSteps, Proc, StartBegin, Lock, Goto, Status
<1>2. IdInv'
  BY DEF IInv, IdInv, StartBegin
<1>3. LockInv'
  BY PreviewManagerAssumption
  DEF IInv, TypeOK, LockInv, Starting, Ending, StartBegin, Lock, Goto
<1>4. StartInv'
  BY PreviewManagerAssumption
  DEF IInv, TypeOK, IdInv, LockInv, StartInv, RoutesAreCurrent, Starting,
      Proc, StartBegin, Lock, Goto
<1>5. DownInv'
  BY DEF IInv, DownInv, Ending, StopSteps, DestroySteps, StartBegin, Goto
<1>6. SweepInv'
  BY DEF IInv, TypeOK, SweepInv, FailSteps, StartBegin, Goto
<1>7. RoutesAreCurrent'
  BY PreviewManagerAssumption
  DEF IInv, TypeOK, RoutesAreCurrent, StartBegin, Current
<1> QED BY <1>1, <1>2, <1>3, <1>4, <1>5, <1>6, <1>7 DEF IInv

LEMMA CreateRuntimeStep ==
    ASSUME IInv, NEW p \in Proc, CreateRuntime(p)
    PROVE  IInv'
<1>1. TypeOK'
  <2>1. mine[p] \in PreviewId
    BY DEF IInv, LockInv, TypeOK, CreateRuntime, Starting, StartSteps
  <2> QED BY <2>1
    DEF IInv, TypeOK, CreateRuntime, Goto, StartSteps, FailSteps, Runtime
<1>2. IdInv'
  BY DEF IInv, IdInv, CreateRuntime
<1>3. LockInv'
  BY DEF IInv, TypeOK, LockInv, Starting, Ending, StartSteps,
     CreateRuntime, Goto
<1>4. StartInv'
  BY DEF IInv, TypeOK, StartInv, Starting, StartSteps, Proc,
     CreateRuntime, Goto
<1>5. DownInv'
  BY DEF IInv, TypeOK, DownInv, Ending, StopSteps, DestroySteps,
     CreateRuntime, Goto
<1>6. SweepInv'
  BY DEF IInv, TypeOK, StartInv, SweepInv, StartSteps, Proc,
     CreateRuntime, Goto
<1>7. RoutesAreCurrent'
  BY DEF IInv, RoutesAreCurrent, CreateRuntime
<1> QED BY <1>1, <1>2, <1>3, <1>4, <1>5, <1>6, <1>7 DEF IInv

LEMMA StartRuntimeStep ==
    ASSUME IInv, NEW p \in Proc, StartRuntime(p)
    PROVE  IInv'
<1>1. TypeOK'
  BY DEF IInv, TypeOK, StartSteps, FailSteps, StartRuntime, Goto,
     sessions, local, Runtime
<1>2. IdInv'
  BY DEF IInv, IdInv, StartRuntime, sessions
<1>3. LockInv'
  BY DEF IInv, TypeOK, LockInv, Starting, Ending, StartSteps,
     StartRuntime, Goto, sessions, local
<1>4. StartInv'
  BY DEF IInv, TypeOK, StartInv, Starting, StartSteps, Proc, StartRuntime,
     Goto, sessions, local
<1>5. DownInv'
  BY DEF IInv, TypeOK, DownInv, Ending, StopSteps, DestroySteps,
     StartRuntime, Goto, sessions, local
<1>6. SweepInv'
  BY DEF IInv, TypeOK, StartInv, SweepInv, StartSteps, Proc, StartRuntime,
     Goto, sessions, local
<1>7. RoutesAreCurrent'
  BY DEF IInv, RoutesAreCurrent, StartRuntime, sessions
<1> QED BY <1>1, <1>2, <1>3, <1>4, <1>5, <1>6, <1>7 DEF IInv

LEMMA LookupProbeStep ==
    ASSUME IInv, NEW p \in Proc, Lookup(p) \/ Probe(p)
    PROVE  IInv'
<1>1. TypeOK'
  BY DEF IInv, TypeOK, StartSteps, FailSteps, Lookup, Probe, Goto,
     sessions, local
<1>2. IdInv'
  BY DEF IInv, IdInv, Lookup, Probe, sessions
<1>3. LockInv'
  BY DEF IInv, TypeOK, LockInv, Starting, Ending, StartSteps, Lookup,
     Probe, Goto, sessions, local
<1>4. StartInv'
  BY DEF IInv, TypeOK, StartInv, Starting, StartSteps, Proc, Lookup,
     Probe, Goto, sessions, local
<1>5. DownInv'
  BY DEF IInv, TypeOK, DownInv, Ending, StopSteps, DestroySteps, Lookup,
     Probe, Goto, sessions, local
<1>6. SweepInv'
  BY DEF IInv, TypeOK, StartInv, SweepInv, StartSteps, Proc, Lookup,
     Probe, Goto, sessions, local
<1>7. RoutesAreCurrent'
  BY DEF IInv, RoutesAreCurrent, Lookup, Probe, sessions
<1> QED BY <1>1, <1>2, <1>3, <1>4, <1>5, <1>6, <1>7 DEF IInv

\* READY and routed at once, by the thread that holds the project's lock.
LEMMA PublishStep ==
    ASSUME IInv, NEW p \in Proc, Publish(p)
    PROVE  IInv'
<1>1. TypeOK'
  <2>1. mine[p] \in PreviewId
    BY DEF IInv, LockInv, TypeOK, Publish, Starting, StartSteps
  <2> QED BY <2>1
    DEF IInv, TypeOK, Publish, Return, Unlock, Goto, SweepSteps, Status
<1>2. IdInv'
  BY DEF IInv, IdInv, StartInv, Starting, StartSteps, Proc, Publish
<1>3. LockInv'
  BY DEF IInv, TypeOK, LockInv, Starting, Ending, StartSteps, FailSteps,
     StopSteps, DestroySteps, Publish, Unlock, Return, Goto
<1>4. StartInv'
  BY DEF IInv, TypeOK, LockInv, StartInv, Starting, StartSteps, FailSteps,
     Proc, Publish, Return, Goto
<1>5. DownInv'
  BY DEF IInv, LockInv, StartInv, DownInv, SweepInv, Starting, Ending,
     StartSteps, FailSteps, StopSteps, DestroySteps, Proc, Publish,
     Return, Goto
<1>6. SweepInv'
  BY DEF IInv, SweepInv, FailSteps, Publish, Return, Goto
<1>7. RoutesAreCurrent'
  BY DEF IInv, TypeOK, LockInv, StartInv, RoutesAreCurrent, Starting,
     StartSteps, Proc, Publish
<1> QED BY <1>1, <1>2, <1>3, <1>4, <1>5, <1>6, <1>7 DEF IInv

-----------------------------------------------------------------------------
(* The calls that destroy a runtime, and _fail().                          *)

LEMMA DiscardsStep ==
    ASSUME IInv, NEW p \in Proc, FailDiscard(p) \/ StopDiscard(p) \/
           DestroyDiscard(p)
    PROVE  IInv'
<1>1. TypeOK'
  <2>1. mine[p] \in PreviewId
    BY DEF IInv, TypeOK, LockInv, SweepInv, Starting, Ending, StartSteps, FailSteps, StopSteps,
           DestroySteps, Proc, FailDiscard, StopDiscard, DestroyDiscard, DiscardStep
  <2> QED BY <2>1 DEF IInv, TypeOK, FailSteps, StopSteps, DestroySteps, FailDiscard,
        StopDiscard, DestroyDiscard, DiscardStep, Discard, Goto, sessions, local, Runtime
<1>2. IdInv'
  BY DEF IInv, IdInv, FailDiscard, StopDiscard, DestroyDiscard,
     DiscardStep, sessions
<1>3. LockInv'
  BY DEF IInv, TypeOK, LockInv, Starting, Ending, StartSteps, FailSteps,
     StopSteps, DestroySteps, FailDiscard, StopDiscard, DestroyDiscard,
     DiscardStep, Goto, sessions, local
<1>4. StartInv'
  BY DEF IInv, TypeOK, StartInv, Starting, StartSteps, FailSteps, Proc,
     FailDiscard, StopDiscard, DestroyDiscard, DiscardStep, Goto,
     sessions, local
<1>5. DownInv'
  BY DEF IInv, TypeOK, DownInv, Ending, StopSteps, DestroySteps,
     FailDiscard, StopDiscard, DestroyDiscard, DiscardStep, Goto,
     sessions, local
<1>6. SweepInv'
  BY DEF IInv, TypeOK, SweepInv, FailSteps, Proc, FailDiscard,
     StopDiscard, DestroyDiscard, DiscardStep, Goto, sessions, local
<1>7. RoutesAreCurrent'
  BY DEF IInv, RoutesAreCurrent, FailDiscard, StopDiscard, DestroyDiscard,
     DiscardStep, sessions
<1> QED BY <1>1, <1>2, <1>3, <1>4, <1>5, <1>6, <1>7 DEF IInv

\* The route is gone before the session changes.
LEMMA FailUnrouteStep ==
    ASSUME IInv, NEW p \in Proc, FailUnroute(p)
    PROVE  IInv'
<1>1. TypeOK'
  BY DEF IInv, TypeOK, FailSteps, FailUnroute, Unroute, Goto, local
<1>2. IdInv'
  BY DEF IInv, IdInv, FailUnroute
<1>3. LockInv'
  BY DEF IInv, LockInv, Starting, Ending, StartSteps, FailSteps,
     StopSteps, DestroySteps, FailUnroute, Goto, local
<1>4. StartInv'
  BY DEF IInv, StartInv, Starting, StartSteps, FailSteps, FailUnroute,
     Unroute, Goto, local
<1>5. DownInv'
  BY DEF IInv, DownInv, Ending, FailUnroute, Unroute, Goto, local
<1>6. SweepInv'
  BY DEF IInv, SweepInv, FailSteps, FailUnroute, Goto, local
<1>7. RoutesAreCurrent'
  BY DEF IInv, RoutesAreCurrent, FailUnroute, Unroute
<1> QED BY <1>1, <1>2, <1>3, <1>4, <1>5, <1>6, <1>7 DEF IInv

\* The sweeper puts FAILED without the lock, but never over a STARTING session.
LEMMA FailStep ==
    ASSUME IInv, NEW p \in Proc, Fail(p)
    PROVE  IInv'
<1>1. TypeOK'
  BY DEF IInv, TypeOK, SweepSteps, Fail, PutFailed, Put, Unlock, Return,
     Goto, Status, Age
<1>2. IdInv'
  BY DEF IInv, IdInv, StartInv, SweepInv, Starting, FailSteps, Proc, Fail,
     PutFailed, Put
<1>3. LockInv'
  <2>1. CASE p = Sweeper
    BY <2>1, PreviewManagerAssumption
    DEF IInv, TypeOK, LockInv, Starting, Ending, StartSteps, FailSteps,
        StopSteps, DestroySteps, Proc, Fail, Return, Goto
  <2>2. CASE p # Sweeper
    BY <2>2, PreviewManagerAssumption
    DEF IInv, TypeOK, LockInv, Starting, Ending, StartSteps, FailSteps,
        StopSteps, DestroySteps, Proc, Fail, Return, Goto, Unlock
  <2> QED BY <2>1, <2>2
<1>4. StartInv'
  BY DEF IInv, TypeOK, LockInv, StartInv, SweepInv, Starting, StartSteps,
     FailSteps, Proc, Fail, PutFailed, Put, Return, Goto
<1>5. DownInv'
  BY DEF IInv, TypeOK, DownInv, Ending, StopSteps, DestroySteps, Fail,
     Return, Goto
<1>6. SweepInv'
  BY DEF IInv, TypeOK, SweepInv, FailSteps, Fail, PutFailed, Put, Return,
     Goto
<1>7. RoutesAreCurrent'
  BY DEF IInv, DownInv, RoutesAreCurrent, Fail, PutFailed, Put
<1> QED BY <1>1, <1>2, <1>3, <1>4, <1>5, <1>6, <1>7 DEF IInv

-----------------------------------------------------------------------------
(* stop() and destroy().                                                   *)

\* The lock is free, so nobody else is inside an operation of this project.
LEMMA StopBeginStep ==
    ASSUME IInv, NEW p \in Proc, NEW j \in Project, StopBegin(p, j)
    PROVE  IInv'
<1>1. TypeOK'
  BY DEF IInv, TypeOK, StopSteps, StopBegin, Wait, Lock, Read, Goto
<1>2. IdInv'
  BY DEF IInv, IdInv, StopBegin
<1>3. LockInv'
  BY PreviewManagerAssumption
  DEF IInv, TypeOK, IdInv, LockInv, Starting, Ending, StopBegin, Wait,
      Lock, Current, Read, Goto
<1>4. StartInv'
  BY DEF IInv, StartInv, Starting, StartSteps, FailSteps, StopBegin, Read,
     Goto
<1>5. DownInv'
  BY DEF IInv, TypeOK, DownInv, Ending, StopBegin, Read, Goto
<1>6. SweepInv'
  BY DEF IInv, TypeOK, SweepInv, FailSteps, StopBegin, Read, Goto
<1>7. RoutesAreCurrent'
  BY DEF IInv, RoutesAreCurrent, StopBegin
<1> QED BY <1>1, <1>2, <1>3, <1>4, <1>5, <1>6, <1>7 DEF IInv

LEMMA SweepStopIdleStep ==
    ASSUME IInv, SweepStopIdle(Sweeper)
    PROVE  IInv'
<1>1. TypeOK'
  BY DEF IInv, TypeOK, SweepSteps, SweepStopIdle, Return, Goto, sessions
<1>2. IdInv'
  BY DEF IInv, IdInv, SweepStopIdle, sessions
<1>3. LockInv'
  BY DEF IInv, LockInv, Starting, Ending, StartSteps, StopSteps,
     DestroySteps, SweepStopIdle, Return, Goto, sessions
<1>4. StartInv'
  BY DEF IInv, StartInv, Starting, StartSteps, SweepStopIdle, Return,
     Goto, sessions
<1>5. DownInv'
  BY DEF IInv, DownInv, Ending, StopSteps, DestroySteps, SweepStopIdle,
     Return, Goto, sessions
<1>6. SweepInv'
  BY DEF IInv, TypeOK, SweepInv, FailSteps, SweepStopIdle, Return, Goto,
     sessions
<1>7. RoutesAreCurrent'
  BY DEF IInv, RoutesAreCurrent, SweepStopIdle, sessions
<1> QED BY <1>1, <1>2, <1>3, <1>4, <1>5, <1>6, <1>7 DEF IInv

LEMMA StoppedStep ==
    ASSUME IInv, NEW p \in Proc, Stopped(p)
    PROVE  IInv'
<1>1. TypeOK'
  BY DEF IInv, TypeOK, Stopped, Put, Return, Unlock, Goto, SweepSteps, Status, Age
<1>2. IdInv'
  BY DEF IInv, IdInv, LockInv, Ending, StopSteps, Stopped, Put
<1>3. LockInv'
  BY DEF IInv, TypeOK, LockInv, Starting, Ending, StartSteps, FailSteps,
     StopSteps, DestroySteps, Stopped, Unlock, Return, Goto
<1>4. StartInv'
  BY DEF IInv, LockInv, StartInv, Starting, Ending, StartSteps, FailSteps,
     StopSteps, Proc, Stopped, Put, Return, Goto
<1>5. DownInv'
  BY DEF IInv, TypeOK, DownInv, Ending, StopSteps, DestroySteps, Stopped,
     Return, Goto
<1>6. SweepInv'
  BY DEF IInv, SweepInv, FailSteps, Stopped, Put, Return, Goto
<1>7. RoutesAreCurrent'
  BY DEF IInv, DownInv, RoutesAreCurrent, Ending, StopSteps, Stopped, Put
<1> QED BY <1>1, <1>2, <1>3, <1>4, <1>5, <1>6, <1>7 DEF IInv

LEMMA DestroyBeginStep ==
    ASSUME IInv, NEW p \in Caller, NEW j \in Project, DestroyBegin(p, j)
    PROVE  IInv'
<1>1. TypeOK'
  BY DEF IInv, TypeOK, DestroySteps, Proc, DestroyBegin, Wait, Lock, Read,
     Goto
<1>2. IdInv'
  BY DEF IInv, IdInv, DestroyBegin
<1>3. LockInv'
  BY PreviewManagerAssumption
  DEF IInv, TypeOK, IdInv, LockInv, Starting, Ending, DestroyBegin, Wait,
      Lock, Current, Read, Goto
<1>4. StartInv'
  BY DEF IInv, StartInv, Starting, StartSteps, FailSteps, DestroyBegin,
     Read, Goto
<1>5. DownInv'
  BY DEF IInv, TypeOK, DownInv, Ending, DestroyBegin, Read, Goto
<1>6. SweepInv'
  BY DEF IInv, SweepInv, FailSteps, DestroyBegin, Read, Goto
<1>7. RoutesAreCurrent'
  BY DEF IInv, RoutesAreCurrent, DestroyBegin
<1> QED BY <1>1, <1>2, <1>3, <1>4, <1>5, <1>6, <1>7 DEF IInv

LEMMA ForgetStep ==
    ASSUME IInv, NEW p \in Proc, Forget(p)
    PROVE  IInv'
<1>1. TypeOK'
  BY DEF IInv, TypeOK, Forget, Put, Return, Unlock, Goto, SweepSteps, Status, Age
<1>2. IdInv'
  BY DEF IInv, IdInv, Forget, Put
<1>3. LockInv'
  BY DEF IInv, TypeOK, LockInv, Starting, Ending, StartSteps, FailSteps,
     StopSteps, DestroySteps, Forget, Unlock, Return, Goto
<1>4. StartInv'
  BY DEF IInv, LockInv, StartInv, Starting, Ending, StartSteps, FailSteps,
     DestroySteps, Proc, Forget, Put, Return, Goto
<1>5. DownInv'
  BY DEF IInv, TypeOK, DownInv, Ending, StopSteps, DestroySteps, Forget,
     Return, Goto
<1>6. SweepInv'
  BY DEF IInv, SweepInv, FailSteps, Forget, Put, Return, Goto
<1>7. RoutesAreCurrent'
  BY DEF IInv, LockInv, DownInv, RoutesAreCurrent, Ending, DestroySteps,
     Forget, Put
<1> QED BY <1>1, <1>2, <1>3, <1>4, <1>5, <1>6, <1>7 DEF IInv

-----------------------------------------------------------------------------
(* sweep().                                                                *)

\* The snapshot holds READY sessions only.
LEMMA SweepReadStep ==
    ASSUME IInv, SweepRead
    PROVE  IInv'
<1>1. TypeOK'
  BY DEF IInv, TypeOK, SweepSteps, Proc, SweepRead, Goto, sessions
<1>2. IdInv'
  BY DEF IInv, IdInv, SweepRead, sessions
<1>3. LockInv'
  BY DEF IInv, LockInv, Starting, Ending, StartSteps, StopSteps,
     DestroySteps, SweepRead, Goto, sessions
<1>4. StartInv'
  BY DEF IInv, StartInv, Starting, StartSteps, SweepRead, Goto, sessions
<1>5. DownInv'
  BY DEF IInv, DownInv, Ending, StopSteps, DestroySteps, SweepRead, Goto,
     sessions
<1>6. SweepInv'
  BY DEF IInv, IdInv, SweepInv, FailSteps, SweepRead, Goto, sessions
<1>7. RoutesAreCurrent'
  BY DEF IInv, RoutesAreCurrent, SweepRead, sessions
<1> QED BY <1>1, <1>2, <1>3, <1>4, <1>5, <1>6, <1>7 DEF IInv

LEMMA SweepOverdueStep ==
    ASSUME IInv, NEW v \in PreviewId, NEW a \in Age, SweepOverdue(v, a)
    PROVE  IInv'
<1>1. TypeOK'
  BY DEF IInv, TypeOK, SweepSteps, SweepOverdue, Goto, sessions
<1>2. IdInv'
  BY DEF IInv, IdInv, SweepOverdue, sessions
<1>3. LockInv'
  BY DEF IInv, LockInv, Starting, Ending, StartSteps, StopSteps,
     DestroySteps, SweepOverdue, Goto, sessions
<1>4. StartInv'
  BY DEF IInv, StartInv, Starting, StartSteps, SweepOverdue, Goto,
     sessions
<1>5. DownInv'
  BY DEF IInv, DownInv, Ending, StopSteps, DestroySteps, SweepOverdue,
     Goto, sessions
<1>6. SweepInv'
  BY DEF IInv, TypeOK, SweepInv, Proc, SweepOverdue, sessions
<1>7. RoutesAreCurrent'
  BY DEF IInv, RoutesAreCurrent, SweepOverdue, sessions
<1> QED BY <1>1, <1>2, <1>3, <1>4, <1>5, <1>6, <1>7 DEF IInv

LEMMA SweepCheckStep ==
    ASSUME IInv, NEW v \in PreviewId, NEW a \in Age, SweepCheck(v, a)
    PROVE  IInv'
<1>1. TypeOK'
  BY DEF IInv, TypeOK, SweepCheck, HealthCheck, Goto, sessions, FailSteps,
     Runtime, Proc
<1>2. IdInv'
  BY DEF IInv, IdInv, SweepCheck, sessions
<1>3. LockInv'
  BY DEF IInv, TypeOK, LockInv, Starting, Ending, StartSteps, StopSteps,
     DestroySteps, SweepCheck, Goto, sessions
<1>4. StartInv'
  BY DEF IInv, TypeOK, StartInv, Starting, StartSteps, Proc, SweepCheck,
     Goto, sessions
<1>5. DownInv'
  BY DEF IInv, TypeOK, DownInv, Ending, StopSteps, DestroySteps,
     SweepCheck, Goto, sessions
<1>6. SweepInv'
  BY DEF IInv, TypeOK, SweepInv, Proc, SweepCheck, sessions
<1>7. RoutesAreCurrent'
  BY DEF IInv, RoutesAreCurrent, SweepCheck, sessions
<1> QED BY <1>1, <1>2, <1>3, <1>4, <1>5, <1>6, <1>7 DEF IInv

LEMMA SweepEndStep ==
    ASSUME IInv, SweepEnd
    PROVE  IInv'
<1>1. TypeOK'
  BY DEF IInv, TypeOK, SweepEnd, Goto, sessions
<1>2. IdInv'
  BY DEF IInv, IdInv, SweepEnd, sessions
<1>3. LockInv'
  BY DEF IInv, LockInv, Starting, Ending, StartSteps, StopSteps,
     DestroySteps, SweepEnd, Goto, sessions
<1>4. StartInv'
  BY DEF IInv, StartInv, Starting, StartSteps, SweepEnd, Goto, sessions
<1>5. DownInv'
  BY DEF IInv, DownInv, Ending, StopSteps, DestroySteps, SweepEnd, Goto,
     sessions
<1>6. SweepInv'
  BY DEF SweepInv, FailSteps, SweepEnd, Goto
<1>7. RoutesAreCurrent'
  BY DEF IInv, RoutesAreCurrent, SweepEnd, sessions
<1> QED BY <1>1, <1>2, <1>3, <1>4, <1>5, <1>6, <1>7 DEF IInv

-----------------------------------------------------------------------------
(* The gateway, time, and everyone else who uses the runtimes.             *)

LEMMA EnvironmentStep ==
    ASSUME IInv, Environment
    PROVE  IInv'
<1>1. TypeOK'
  BY DEF IInv, TypeOK, Environment, Resolve, Ages, RuntimeDies,
     RuntimeEnds, sessions, local, Runtime, Age
<1>2. IdInv'
  BY DEF IInv, IdInv, Environment, Resolve, Ages, RuntimeDies,
     RuntimeEnds, sessions
<1>3. LockInv'
  BY DEF IInv, LockInv, Starting, Ending, Environment, Resolve, Ages,
     RuntimeDies, RuntimeEnds, sessions, local
<1>4. StartInv'
  BY DEF IInv, StartInv, Starting, Environment, Resolve, Ages,
     RuntimeDies, RuntimeEnds, sessions, local
<1>5. DownInv'
  BY DEF IInv, DownInv, Ending, Environment, Resolve, Ages, RuntimeDies,
     RuntimeEnds, sessions, local
<1>6. SweepInv'
  BY DEF IInv, SweepInv, Environment, Resolve, Ages, RuntimeDies,
     RuntimeEnds, sessions, local
<1>7. RoutesAreCurrent'
  BY DEF IInv, RoutesAreCurrent, Environment, Resolve, Ages, RuntimeDies,
     RuntimeEnds, sessions
<1> QED BY <1>1, <1>2, <1>3, <1>4, <1>5, <1>6, <1>7 DEF IInv
-----------------------------------------------------------------------------
(* The invariant.                                                          *)

LEMMA InvInit == Init => IInv
<1> SUFFICES ASSUME Init PROVE IInv
  OBVIOUS
<1>1. TypeOK
  BY DEF Init, TypeOK, Status, Runtime, Age
<1>2. IdInv /\ RoutesAreCurrent
  BY DEF Init, IdInv, RoutesAreCurrent
<1>3. LockInv /\ StartInv /\ DownInv
  BY DEF Init, LockInv, StartInv, DownInv, Starting, Ending, StartSteps,
     FailSteps, StopSteps, DestroySteps, Proc
<1>4. SweepInv
  BY DEF Init, SweepInv, FailSteps, Proc
<1> QED BY <1>1, <1>2, <1>3, <1>4 DEF IInv

LEMMA InvStep == ASSUME IInv, [Next]_vars PROVE IInv'
<1>1. ASSUME NEW p \in Caller, Request(p) PROVE IInv'
  BY <1>1, StartBeginStep, StopBeginStep, DestroyBeginStep DEF Request, Proc
<1>2. ASSUME NEW p \in Proc, Continue(p) PROVE IInv'
  BY <1>2, CreateRuntimeStep, StartRuntimeStep, LookupProbeStep, PublishStep,
     DiscardsStep, FailUnrouteStep, FailStep, StoppedStep, ForgetStep
  DEF Continue
<1>3. CASE Sweep
  BY <1>3, SweepReadStep, SweepEndStep, SweepStopIdleStep, SweepOverdueStep,
     SweepCheckStep, StopBeginStep
  DEF Sweep, Proc
<1>4. CASE Environment
  BY <1>4, EnvironmentStep
<1>5. CASE UNCHANGED vars
  BY <1>5
  DEF vars, IInv, TypeOK, IdInv, LockInv, StartInv, DownInv, SweepInv,
      RoutesAreCurrent, Starting, Ending
<1> QED BY <1>1, <1>2, <1>3, <1>4, <1>5 DEF Next

\* The inductive invariant of PreviewManager.
THEOREM Inductive == Spec => []IInv
<1>1. Init => IInv
  BY InvInit
<1>2. IInv /\ [Next]_vars => IInv'
  BY InvStep
<1> QED BY <1>1, <1>2, PTL DEF Spec

\* resolve() sends the gateway only to the READY preview its project has now,
\* though the sweeper fails previews without the project lock.
THEOREM Routing == Spec => []RoutesAreCurrent
<1>1. IInv => RoutesAreCurrent
  BY DEF IInv
<1> QED BY <1>1, Inductive, PTL

\* From the lock it takes to the lock it gives back, start() is alone with its
\* session.
THEOREM StartsAreUndisturbed == Spec => []StartUndisturbed
<1>1. IInv => StartUndisturbed
  BY DEF IInv, LockInv, StartInv, StartUndisturbed, Starting, Proc
<1> QED BY <1>1, Inductive, PTL

-----------------------------------------------------------------------------
(* The limit.                                                              *)

\* Only the section of start() that has counted the active sessions adds one.
LEMMA ActiveGrows ==
    ASSUME IInv, [Next]_vars
    PROVE  \/ Active' \subseteq Active
           \/ Room /\ \E v \in PreviewId : Active' \subseteq Active \cup {v}
<1>1. ASSUME NEW p \in Caller, NEW j \in Project, NEW v \in PreviewId,
             StartBegin(p, j, v)
      PROVE  Room /\ Active' \subseteq Active \cup {v}
  BY <1>1 DEF StartBegin, Active
<1>2. ASSUME NEW p \in Proc, Publish(p) PROVE Active' \subseteq Active
  <2>1. p \in Caller /\ session[mine[p]] = "starting"
    BY <1>2 DEF Publish, IInv, StartInv, Starting, StartSteps, Proc
  <2> QED BY <1>2, <2>1 DEF Publish, Active, IInv, TypeOK
<1>3. ASSUME NEW p \in Proc, Fail(p) \/ Stopped(p) \/ Forget(p)
      PROVE  Active' \subseteq Active
  BY <1>3 DEF Fail, PutFailed, Stopped, Forget, Put, Active, IInv, TypeOK
<1>4. ASSUME NEW p \in Proc,
             \/ CreateRuntime(p) \/ StartRuntime(p) \/ Lookup(p) \/ Probe(p)
             \/ FailDiscard(p) \/ FailUnroute(p)
             \/ StopDiscard(p) \/ DestroyDiscard(p)
      PROVE  session' = session
  BY <1>4
  DEF CreateRuntime, StartRuntime, Lookup, Probe, FailDiscard, FailUnroute,
      StopDiscard, DestroyDiscard, DiscardStep, sessions
<1>5. ASSUME NEW p \in Proc, NEW j \in Project,
             StopBegin(p, j) \/ DestroyBegin(p, j)
      PROVE  session' = session
  BY <1>5 DEF StopBegin, DestroyBegin
<1>6. ASSUME SweepRead \/ SweepEnd \/ SweepStopIdle(Sweeper)
      PROVE  session' = session
  BY <1>6 DEF SweepRead, SweepEnd, SweepStopIdle, sessions
<1>7. ASSUME NEW v \in PreviewId, NEW a \in Age,
             SweepOverdue(v, a) \/ SweepCheck(v, a)
      PROVE  session' = session
  BY <1>7 DEF SweepOverdue, SweepCheck, sessions
<1>8. CASE Environment
  BY <1>8 DEF Environment, Resolve, Ages, RuntimeDies, RuntimeEnds, sessions, Active
<1>9. CASE UNCHANGED vars
  BY <1>9 DEF vars, Active
<1>10. ASSUME session' = session PROVE Active' \subseteq Active
  BY <1>10 DEF Active
<1>11. ASSUME NEW p \in Caller, Request(p)
       PROVE  \/ Active' \subseteq Active
              \/ Room /\ \E v \in PreviewId : Active' \subseteq Active \cup {v}
  BY <1>11, <1>1, <1>5, <1>10 DEF Request, Proc
<1>12. ASSUME NEW p \in Proc, Continue(p) PROVE Active' \subseteq Active
  BY <1>12, <1>2, <1>3, <1>4, <1>10 DEF Continue
<1>13. CASE Sweep
  BY <1>13, <1>5, <1>6, <1>7, <1>10 DEF Sweep, Proc
<1> QED BY <1>8, <1>9, <1>11, <1>12, <1>13 DEF Next

Few == IsFiniteSet(Active) /\ ActiveBound

LEMMA FewStep == ASSUME IInv, Few, [Next]_vars PROVE Few'
<1>1. /\ IsFiniteSet(Active) /\ Cardinality(Active) \in Nat
      /\ Cardinality(Active) <= MaxActive
      /\ MaxActive \in Nat
  BY FS_CardinalityType, PreviewManagerAssumption DEF Few, ActiveBound
<1>2. CASE Active' \subseteq Active
  <2>1. /\ IsFiniteSet(Active') /\ Cardinality(Active') \in Nat
        /\ Cardinality(Active') <= Cardinality(Active)
    BY <1>1, <1>2, FS_Subset, FS_CardinalityType
  <2> QED BY <1>1, <2>1 DEF Few, ActiveBound
<1>3. ASSUME Room, NEW v \in PreviewId, Active' \subseteq Active \cup {v}
      PROVE  Few'
  <2>1. /\ IsFiniteSet(Active \cup {v})
        /\ Cardinality(Active \cup {v}) <= Cardinality(Active) + 1
        /\ Cardinality(Active \cup {v}) \in Nat
    <3>1. /\ IsFiniteSet(Active \cup {v})
          /\ \/ Cardinality(Active \cup {v}) = Cardinality(Active)
             \/ Cardinality(Active \cup {v}) = Cardinality(Active) + 1
      BY <1>1, FS_AddElement
    <3> QED BY <1>1, <3>1
  <2>2. /\ IsFiniteSet(Active') /\ Cardinality(Active') \in Nat
        /\ Cardinality(Active') <= Cardinality(Active \cup {v})
    BY <1>3, <2>1, FS_Subset, FS_CardinalityType
  <2>3. Cardinality(Active) < MaxActive
    BY <1>3 DEF Room
  <2> QED BY <1>1, <2>1, <2>2, <2>3 DEF Few, ActiveBound
<1> QED BY <1>2, <1>3, ActiveGrows

\* The records of the manager, of its reservations and of its runtimes stay in
\* their ranges.
THEOREM TypeCorrect == Spec => []TypeOK
BY Inductive, PTL DEF IInv

\* Whatever starts, stops and sweeps, max_active bounds the live previews.
THEOREM Bounded == Spec => []ActiveBound
<1>1. Init => Few
  <2> SUFFICES ASSUME Init PROVE Few
    OBVIOUS
  <2>1. Active = {}
    BY DEF Init, Active
  <2> QED BY <2>1, FS_EmptySet, PreviewManagerAssumption DEF Few, ActiveBound
<1>2. IInv /\ Few /\ [Next]_vars => Few'
  BY FewStep
<1>3. Few => ActiveBound
  BY DEF Few
<1> QED BY <1>1, <1>2, <1>3, Inductive, PTL DEF Spec

-----------------------------------------------------------------------------
(* The runtimes: who names those that have to be given back.               *)

\* Who works on a STARTING session holds the lock of its project.
StarterInv ==
    \A v \in PreviewId : session[v] = "starting" =>
        \E p \in Caller : projectLock[ProjectOf[v]] = p /\ Starting(p) /\ mine[p] = v

\* A runtime is named by a session that is STARTING or READY.
NamedInv == \A v \in PreviewId : Owed(v) => v \in recorded /\ session[v] \in {"starting", "ready"}

\* p knows of no runtime of its preview: there is none yet, it has destroyed
\* it, or the record it works on names none.
KnowsNone(p) ==
    \/ pc[p] \in {"create", "unroute", "fail", "stopped", "forget"}
    \/ /\ pc[p] \in {"startRuntime", "lookup", "probe", "discard", "stopDiscard", "destroyDiscard"}
       /\ ~held[p]

GoneInv == \A p \in Proc : KnowsNone(p) => ~Owed(mine[p])

LeaseInv == StarterInv /\ NamedInv /\ GoneInv

\* Nobody else has a hand in the preview a start() is at work on.
LEMMA Alone ==
    ASSUME IInv, NEW p \in Proc, NEW q \in Caller, p # q, Starting(q),
           Starting(p) \/ Ending(p) \/ pc[p] \in FailSteps
    PROVE  mine[p] # mine[q]
BY DEF IInv, LockInv, StartInv, SweepInv, Starting, Proc

LEMMA Busy ==
    ASSUME IInv, NEW p \in Proc, KnowsNone(p)
    PROVE  (Starting(p) \/ Ending(p) \/ pc[p] \in FailSteps) /\ mine[p] \in PreviewId
<1>1. Starting(p) \/ Ending(p) \/ pc[p] \in FailSteps
  BY DEF KnowsNone, Starting, Ending, StartSteps, FailSteps, StopSteps, DestroySteps
<1> QED BY <1>1 DEF IInv, TypeOK, LockInv, SweepInv, Starting, Proc

\* Steps that leave the sessions and the locks alone, and give no runtime a
\* lease: what is left to see is whether p still knows of none.
LEMMA RuntimesEnd ==
    ASSUME IInv, LeaseInv, UNCHANGED <<session, recorded, projectLock>>, NEW p \in Proc,
           \A q \in Proc \ {p} : pc'[q] = pc[q] /\ mine'[q] = mine[q] /\ held'[q] = held[q],
           p \in Caller => (Starting(p) <=> Starting(p)') /\ mine'[p] = mine[p],
           \A v \in PreviewId : Owed(v)' => Owed(v),
           KnowsNone(p)' => ~Owed(mine[p])'
    PROVE  LeaseInv'
<1>1. \A q \in Caller : Starting(q)' = Starting(q) /\ mine'[q] = mine[q]
  BY DEF Starting, Proc
<1>2. StarterInv'
  BY <1>1 DEF LeaseInv, StarterInv
<1>3. NamedInv'
  BY DEF Owed, LeaseInv, NamedInv
<1>4. ASSUME NEW q \in Proc \ {p}, KnowsNone(q)' PROVE ~Owed(mine[q])'
  <2>1. KnowsNone(q) /\ mine'[q] = mine[q]
    BY <1>4 DEF KnowsNone
  <2> QED BY <2>1, Busy DEF Owed, LeaseInv, GoneInv
<1>5. GoneInv'
  BY <1>4 DEF Owed, GoneInv
<1> QED BY <1>2, <1>3, <1>5 DEF LeaseInv

LEMMA StartKeepsLeases ==
    ASSUME IInv, LeaseInv, NEW p \in Proc, StartRuntime(p) \/ Lookup(p) \/ Probe(p)
    PROVE  LeaseInv'
<1>1. /\ UNCHANGED <<session, recorded, projectLock, mine, held>>
      /\ \A q \in Proc \ {p} : pc'[q] = pc[q]
      /\ pc[p] \in {"startRuntime", "lookup", "probe"} /\ pc'[p] \in {"lookup", "probe", "publish", "discard"}
  BY DEF Owed, IInv, TypeOK, StartRuntime, Lookup, Probe, Goto, sessions, local
<1>2. p \in Caller /\ Starting(p) /\ Starting(p)' /\ mine[p] \in PreviewId
  BY <1>1, PreviewManagerAssumption
  DEF IInv, TypeOK, LockInv, StartInv, Starting, StartSteps, FailSteps, Proc
<1>3. \A v \in PreviewId : Owed(v)' => Owed(v)
  BY <1>2 DEF Owed, IInv, TypeOK, StartRuntime, Lookup, Probe, Leased
<1>4. KnowsNone(p)' => ~Owed(mine[p])'
  BY <1>1, <1>2, <1>3 DEF Owed, LeaseInv, GoneInv, KnowsNone
<1> QED BY <1>1, <1>2, <1>3, <1>4, RuntimesEnd

LEMMA CreateKeepsLeases ==
    ASSUME IInv, LeaseInv, NEW p \in Proc, CreateRuntime(p)
    PROVE  LeaseInv'
<1>1. /\ UNCHANGED <<session, projectLock, mine>>
      /\ \A q \in Proc \ {p} : pc'[q] = pc[q] /\ held'[q] = held[q]
      /\ pc[p] = "create" /\ pc'[p] \in {"startRuntime", "discard"}
  BY DEF IInv, TypeOK, CreateRuntime, Goto
<1>2. /\ p \in Caller /\ Starting(p) /\ Starting(p)' /\ mine[p] \in PreviewId
      /\ session[mine[p]] = "starting"
  BY <1>1, PreviewManagerAssumption
  DEF IInv, TypeOK, LockInv, StartInv, Starting, StartSteps, FailSteps, Proc
<1>3. CASE UNCHANGED <<runtime, swallowed, recorded, held>>
  <2>1. KnowsNone(p)' => ~Owed(mine[p])'
    BY <1>1, <1>3 DEF Owed, LeaseInv, GoneInv, KnowsNone
  <2> QED BY <1>1, <1>2, <1>3, <2>1, RuntimesEnd DEF Owed
<1>4. CASE /\ runtime' = [runtime EXCEPT ![mine[p]] = "created"]
           /\ recorded' = recorded \cup {mine[p]} /\ UNCHANGED swallowed
           /\ held' = [held EXCEPT ![p] = TRUE] /\ pc'[p] = "startRuntime"
  <2>1. \A q \in Caller : Starting(q)' <=> Starting(q)
    BY <1>1, <1>2 DEF Starting, Proc
  <2>2. StarterInv'
    BY <1>1, <2>1 DEF LeaseInv, StarterInv
  <2>3. NamedInv'
    BY <1>1, <1>2, <1>4 DEF Owed, LeaseInv, NamedInv
  <2>4. ~KnowsNone(p)'
    <3>1. held'[p]
      BY <1>4, Zenon DEF IInv, TypeOK
    <3> QED BY <1>4, <3>1 DEF KnowsNone
  <2>5. ASSUME NEW q \in Proc \ {p}, KnowsNone(q)' PROVE ~Owed(mine[q])'
    <3>1. KnowsNone(q)
      BY <1>1, <2>5 DEF KnowsNone
    <3>2. mine[q] # mine[p] /\ ~Owed(mine[q]) /\ mine[q] \in PreviewId
      BY <1>2, <3>1, Busy, Alone DEF Owed, LeaseInv, GoneInv
    <3> QED BY <1>1, <1>4, <3>2 DEF Owed
  <2> QED BY <2>2, <2>3, <2>4, <2>5 DEF Owed, LeaseInv, GoneInv
<1> QED BY <1>3, <1>4 DEF CreateRuntime, Goto, IInv, TypeOK

LEMMA DiscardKeepsLeases ==
    ASSUME IInv, LeaseInv, NEW p \in Proc,
           FailDiscard(p) \/ StopDiscard(p) \/ DestroyDiscard(p)
    PROVE  LeaseInv'
<1>1. /\ UNCHANGED <<session, recorded, projectLock, mine, held>>
      /\ \A q \in Proc \ {p} : pc'[q] = pc[q]
      /\ \/ pc[p] = "discard" /\ pc'[p] = "unroute"
         \/ pc[p] = "stopDiscard" /\ pc'[p] = "stopped"
         \/ pc[p] = "destroyDiscard" /\ pc'[p] = "forget"
      /\ Discard(p)
  BY DEF IInv, TypeOK, FailDiscard, StopDiscard, DestroyDiscard, DiscardStep, Goto, sessions, local
<1>2. /\ Starting(p) <=> Starting(p)'
      /\ mine[p] \in PreviewId
  BY <1>1 DEF IInv, TypeOK, LockInv, SweepInv, Starting, Ending, StartSteps, FailSteps, StopSteps, DestroySteps, Proc
<1>3. \/ ~held[p] /\ UNCHANGED <<runtime, swallowed>>
      \/ held[p] /\ runtime' = [runtime EXCEPT ![mine[p]] = "ended"] /\ UNCHANGED swallowed
      \/ /\ swallowed' = swallowed \cup {mine[p]}
         /\ \A v \in PreviewId \ {mine[p]} : runtime'[v] = runtime[v]
  BY <1>1, <1>2 DEF Discard, IInv, TypeOK
<1>4. \A v \in PreviewId : Owed(v)' => Owed(v)
  BY <1>3 DEF IInv, TypeOK, Leased, Owed
<1>5. ~Owed(mine[p])'
  <2>1. CASE ~held[p] /\ UNCHANGED <<runtime, swallowed>>
    BY <1>1, <2>1 DEF LeaseInv, GoneInv, KnowsNone, Owed
  <2>2. CASE runtime' = [runtime EXCEPT ![mine[p]] = "ended"]
    BY <1>1, <1>2, <2>2 DEF IInv, TypeOK, Leased, Owed
  <2>3. CASE swallowed' = swallowed \cup {mine[p]}
    BY <1>1, <2>3 DEF Owed
  <2> QED BY <1>3, <2>1, <2>2, <2>3
<1> QED BY <1>1, <1>2, <1>4, <1>5, RuntimesEnd

LEMMA UnrouteKeepsLeases ==
    ASSUME IInv, LeaseInv, NEW p \in Proc, FailUnroute(p)
    PROVE  LeaseInv'
<1>1. /\ UNCHANGED <<session, recorded, projectLock, mine, held, runtime, swallowed>>
      /\ \A q \in Proc \ {p} : pc'[q] = pc[q]
      /\ pc[p] = "unroute" /\ pc'[p] = "fail"
  BY DEF IInv, TypeOK, FailUnroute, Goto, local
<1>2. Starting(p) <=> Starting(p)'
  BY <1>1 DEF Starting, StartSteps, FailSteps
<1>3. ~Owed(mine[p])'
  BY <1>1 DEF Owed, LeaseInv, GoneInv, KnowsNone
<1> QED BY <1>1, <1>2, <1>3, RuntimesEnd DEF Owed

\* The operation is over: its session is not STARTING any more, and another one
\* is under another lock.
LEMMA EndsKeepLeases ==
    ASSUME IInv, LeaseInv, NEW p \in Proc, Publish(p) \/ Fail(p) \/ Stopped(p) \/ Forget(p)
    PROVE  LeaseInv'
<1> DEFINE v == mine[p]
<1>1. /\ v \in PreviewId /\ UNCHANGED <<runtime, swallowed>>
      /\ \A u \in PreviewId \ {v} : session'[u] = session[u] /\ (u \in recorded <=> u \in recorded')
      /\ \/ session'[v] = "ready" /\ session[v] = "starting" /\ recorded' = recorded
         \/ session'[v] \in {"failed", "stopped", "absent"} /\ ~Owed(v)
  <2>1. v \in PreviewId
    BY DEF IInv, TypeOK, LockInv, StartInv, SweepInv, Starting, Ending, StartSteps, FailSteps, StopSteps,
           DestroySteps, Proc, Publish, Fail, Stopped, Forget
  <2>2. CASE Publish(p)
    BY <2>1, <2>2 DEF Publish, IInv, TypeOK, StartInv, Starting, StartSteps, Proc
  <2>3. CASE Fail(p) \/ Stopped(p) \/ Forget(p)
    <3>1. ~Owed(v)
      BY <2>3 DEF Owed, Fail, Stopped, Forget, LeaseInv, GoneInv, KnowsNone
    <3> QED BY <2>1, <2>3, <3>1 DEF Owed, Fail, PutFailed, Stopped, Forget, Put, IInv, TypeOK
  <2> QED BY <2>2, <2>3
<1>2. /\ \A q \in Proc \ {p} : pc'[q] = pc[q] /\ mine'[q] = mine[q] /\ held'[q] = held[q]
      /\ pc'[p] \in {"idle", "sweep"}
  BY DEF Publish, Fail, Stopped, Forget, Return, Goto, IInv, TypeOK
<1>3. \A u \in PreviewId \ {v} : session[u] = "starting" =>
        projectLock'[ProjectOf[u]] = projectLock[ProjectOf[u]] /\ projectLock[ProjectOf[u]] # p
  <2> SUFFICES ASSUME NEW u \in PreviewId \ {v}, session[u] = "starting"
               PROVE  projectLock'[ProjectOf[u]] = projectLock[ProjectOf[u]] /\ projectLock[ProjectOf[u]] # p
    OBVIOUS
  <2>1. projectLock[ProjectOf[u]] # p
    BY DEF LeaseInv, StarterInv
  <2>2. (p = Sweeper /\ Fail(p)) \/ projectLock[ProjectOf[v]] = p
    BY DEF Publish, Fail, Stopped, Forget, IInv, LockInv, StartInv, Starting, Ending, StartSteps, FailSteps, StopSteps, DestroySteps, Proc
  <2>3. projectLock' = projectLock \/ projectLock' = [projectLock EXCEPT ![ProjectOf[v]] = None]
    BY DEF Publish, Fail, Stopped, Forget, Unlock
  <2>4. projectLock' = projectLock \/ ProjectOf[u] # ProjectOf[v]
    BY <2>1, <2>2 DEF Fail
  <2> QED BY <2>1, <2>3, <2>4, PreviewManagerAssumption DEF IInv, TypeOK
<1>4. StarterInv'
  <2> SUFFICES ASSUME NEW u \in PreviewId, session'[u] = "starting"
               PROVE  \E q \in Caller : projectLock'[ProjectOf[u]] = q /\ Starting(q)' /\ mine'[q] = u
    BY DEF StarterInv
  <2>1. u # v /\ session[u] = "starting"
    BY <1>1
  <2>2. PICK q \in Caller : Starting(q) /\ mine[q] = u /\ q # p /\ projectLock'[ProjectOf[u]] = q
    BY <1>3, <2>1 DEF LeaseInv, StarterInv
  <2>3. Starting(q)' /\ mine'[q] = u
    BY <1>2, <2>2 DEF Starting, Proc
  <2> QED BY <2>2, <2>3
<1>5. NamedInv'
  BY <1>1 DEF Owed, LeaseInv, NamedInv
<1>6. GoneInv'
  <2>1. ~KnowsNone(p)'
    BY <1>2 DEF KnowsNone
  <2>2. \A q \in Proc \ {p} : KnowsNone(q)' <=> KnowsNone(q)
    BY <1>2 DEF KnowsNone
  <2> QED BY <1>1, <1>2, <2>1, <2>2 DEF Owed, LeaseInv, GoneInv
<1> QED BY <1>4, <1>5, <1>6 DEF LeaseInv

\* The lock is free, so nobody is at work on a preview of the project.
LEMMA LockKeepsLeases ==
    ASSUME IInv, LeaseInv, NEW p \in Proc, NEW j \in Project, StopBegin(p, j) \/ DestroyBegin(p, j)
    PROVE  LeaseInv'
<1>1. /\ UNCHANGED <<session, recorded, runtime, swallowed>>
      /\ \A q \in Proc \ {p} : pc'[q] = pc[q] /\ mine'[q] = mine[q] /\ held'[q] = held[q]
      /\ projectLock[j] = None /\ projectLock' = [projectLock EXCEPT ![j] = p]
      /\ current[j] \in PreviewId /\ mine'[p] = current[j] /\ held'[p] = (current[j] \in recorded)
      /\ pc[p] \in {"idle", "sweepStop"} /\ pc'[p] \in {"stopDiscard", "destroyDiscard"}
  BY DEF StopBegin, DestroyBegin, Wait, Lock, Read, Goto, Current, IInv, TypeOK
<1>2. StarterInv'
  <2>1. ASSUME NEW v \in PreviewId, session[v] = "starting" PROVE projectLock[ProjectOf[v]] \in Caller
    BY <2>1 DEF LeaseInv, StarterInv
  <2>2. \A v \in PreviewId : session[v] = "starting" => ProjectOf[v] # j
    BY <1>1, <2>1, PreviewManagerAssumption DEF Proc
  <2>3. ~Starting(p)
    BY <1>1 DEF Starting, StartSteps, FailSteps
  <2>4. \A q \in Caller \ {p} : Starting(q)' <=> Starting(q)
    BY <1>1 DEF Starting, Proc
  <2> QED BY <1>1, <2>2, <2>3, <2>4 DEF LeaseInv, StarterInv, IInv, TypeOK, Proc
<1>3. NamedInv'
  BY <1>1 DEF Owed, LeaseInv, NamedInv
<1>4. GoneInv'
  <2>1. KnowsNone(p)' => ~Owed(current[j])
    BY <1>1 DEF Owed, KnowsNone, LeaseInv, NamedInv
  <2>2. \A q \in Proc \ {p} : KnowsNone(q)' <=> KnowsNone(q)
    BY <1>1 DEF KnowsNone
  <2> QED BY <1>1, <2>1, <2>2 DEF Owed, LeaseInv, GoneInv
<1> QED BY <1>2, <1>3, <1>4 DEF LeaseInv

\* The preview that is replaced is FAILED or STOPPED: its runtime is gone.
LEMMA BeginKeepsLeases ==
    ASSUME IInv, LeaseInv, NEW p \in Caller, NEW j \in Project, NEW v \in PreviewId, StartBegin(p, j, v)
    PROVE  LeaseInv'
<1>1. /\ UNCHANGED <<runtime, swallowed>> /\ p \in Proc /\ pc[p] = "idle" /\ pc'[p] = "create" /\ mine'[p] = v
      /\ \A q \in Proc \ {p} : pc'[q] = pc[q] /\ mine'[q] = mine[q] /\ held'[q] = held[q]
      /\ projectLock[j] = None /\ projectLock' = [projectLock EXCEPT ![j] = p]
      /\ v \notin issued /\ ProjectOf[v] = j /\ session[v] = "absent"
      /\ \A u \in PreviewId : session'[u] = IF u = v THEN "starting" ELSE IF u = current[j] THEN "absent" ELSE session[u]
      /\ recorded' = recorded \ {current[j]}
  BY DEF StartBegin, Lock, Goto, IInv, TypeOK, IdInv, Proc
<1>2. \A u \in PreviewId : session[u] = "starting" => ProjectOf[u] # j
  <2>1. ASSUME NEW u \in PreviewId, session[u] = "starting" PROVE projectLock[ProjectOf[u]] \in Caller
    BY <2>1 DEF LeaseInv, StarterInv
  <2> QED BY <1>1, <2>1, PreviewManagerAssumption DEF Proc
<1>3. current[j] \in PreviewId => ~Owed(current[j])
  <2>1. current[j] \in PreviewId => session[current[j]] \notin {"starting", "ready"}
    BY <1>2, PreviewManagerAssumption DEF StartBegin, Current, IInv, IdInv
  <2> QED BY <2>1 DEF Owed, LeaseInv, NamedInv
<1>4. ~Owed(v)
  BY <1>1 DEF Owed, LeaseInv, NamedInv
<1>5. StarterInv'
  <2> SUFFICES ASSUME NEW u \in PreviewId, session'[u] = "starting"
               PROVE  \E q \in Caller : projectLock'[ProjectOf[u]] = q /\ Starting(q)' /\ mine'[q] = u
    BY DEF StarterInv
  <2>1. CASE u = v
    BY <1>1, <2>1, PreviewManagerAssumption DEF Starting, StartSteps, IInv, TypeOK
  <2>2. CASE u # v
    <3>1. session[u] = "starting" /\ ProjectOf[u] # j /\ ProjectOf[u] \in Project
      BY <1>1, <1>2, <2>2, PreviewManagerAssumption
    <3>2. PICK q \in Caller : Starting(q) /\ mine[q] = u /\ projectLock'[ProjectOf[u]] = q
      BY <1>1, <3>1 DEF LeaseInv, StarterInv, IInv, TypeOK
    <3>3. q # p
      BY <1>1, <3>2, PreviewManagerAssumption DEF Starting, StartSteps, FailSteps
    <3>4. Starting(q)' /\ mine'[q] = u
      BY <1>1, <3>2, <3>3 DEF Starting, Proc
    <3> QED BY <3>2, <3>4
  <2> QED BY <2>1, <2>2
<1>6. NamedInv'
  BY <1>1, <1>3, <1>4 DEF Owed, LeaseInv, NamedInv
<1>7. GoneInv'
  <2>1. \A q \in Proc \ {p} : KnowsNone(q)' <=> KnowsNone(q)
    BY <1>1 DEF KnowsNone
  <2> QED BY <1>1, <1>4, <2>1 DEF Owed, LeaseInv, GoneInv
<1> QED BY <1>5, <1>6, <1>7 DEF LeaseInv

LEMMA SweepKeepsLeases ==
    ASSUME IInv, LeaseInv,
           \/ SweepRead \/ SweepEnd \/ SweepStopIdle(Sweeper)
           \/ \E v \in PreviewId, a \in Age : SweepOverdue(v, a) \/ SweepCheck(v, a)
    PROVE  LeaseInv'
<1>1. /\ UNCHANGED <<session, recorded, projectLock>> /\ Sweeper \in Proc /\ Sweeper \notin Caller
      /\ \A q \in Proc \ {Sweeper} : pc'[q] = pc[q] /\ mine'[q] = mine[q] /\ held'[q] = held[q]
  BY PreviewManagerAssumption
  DEF SweepRead, SweepEnd, SweepStopIdle, SweepOverdue, SweepCheck, Return, Goto, sessions, IInv, TypeOK, Proc
<1>2. \A v \in PreviewId : Owed(v)' => Owed(v)
  BY DEF Owed, SweepRead, SweepEnd, SweepStopIdle, SweepOverdue, SweepCheck, HealthCheck, IInv, TypeOK, Leased
<1>3. ~KnowsNone(Sweeper)'
  <2>1. CASE SweepRead \/ SweepEnd \/ SweepStopIdle(Sweeper) \/ \E v \in PreviewId, a \in Age : SweepOverdue(v, a)
    BY <1>1, <2>1
    DEF SweepRead, SweepEnd, SweepStopIdle, SweepOverdue, Return, Goto, KnowsNone, IInv, TypeOK
  <2>2. ASSUME NEW v \in PreviewId, NEW a \in Age, SweepCheck(v, a) PROVE ~KnowsNone(Sweeper)'
    <3>1. CASE runtime[v] = "running"
      BY <1>1, <2>2, <3>1 DEF SweepCheck, KnowsNone
    <3>2. CASE runtime[v] # "running"
      <4>1. pc'[Sweeper] = "discard" /\ held' = [held EXCEPT ![Sweeper] = TRUE]
        BY <1>1, <2>2, <3>2 DEF SweepCheck, Goto, IInv, TypeOK
      <4>2. held'[Sweeper]
        BY <1>1, <4>1, Zenon DEF IInv, TypeOK
      <4> QED BY <4>1, <4>2 DEF KnowsNone
    <3> QED BY <3>1, <3>2
  <2> QED BY <2>1, <2>2
<1> QED BY <1>1, <1>2, <1>3, RuntimesEnd

LEMMA LeaseStep ==
    ASSUME IInv, LeaseInv, [Next]_vars
    PROVE  LeaseInv'
<1>1. CASE UNCHANGED vars
  BY <1>1 DEF Owed, vars, LeaseInv, StarterInv, NamedInv, GoneInv, KnowsNone, Starting
<1>2. CASE Environment
  <2>1. UNCHANGED <<session, recorded, projectLock, pc, mine, held>>
    BY <1>2 DEF Owed, Environment, Resolve, Ages, RuntimeDies, RuntimeEnds, sessions, local
  <2>2. \A v \in PreviewId : Owed(v)' => Owed(v)
    BY <1>2 DEF Owed, Environment, Resolve, Ages, RuntimeDies, RuntimeEnds, sessions, Leased, IInv, TypeOK
  <2>3. StarterInv' /\ NamedInv'
    BY <2>1, <2>2 DEF Owed, LeaseInv, StarterInv, NamedInv, Starting
  <2>4. \A q \in Proc : KnowsNone(q)' => KnowsNone(q)
    BY <2>1 DEF KnowsNone
  <2>5. GoneInv'
    BY <2>1, <2>2, <2>4, Busy DEF Owed, LeaseInv, GoneInv
  <2> QED BY <2>3, <2>5 DEF LeaseInv
<1>3. ASSUME NEW p \in Caller, Request(p) PROVE LeaseInv'
  BY <1>3, BeginKeepsLeases, LockKeepsLeases DEF Request, Proc
<1>4. ASSUME NEW p \in Proc, Continue(p) PROVE LeaseInv'
  BY <1>4, CreateKeepsLeases, StartKeepsLeases, DiscardKeepsLeases, UnrouteKeepsLeases, EndsKeepLeases
  DEF Continue
<1>5. CASE Sweep
  BY <1>5, SweepKeepsLeases, LockKeepsLeases DEF Sweep, Proc
<1> QED BY <1>1, <1>2, <1>3, <1>4, <1>5 DEF Next

\* Whatever calls of the provider fail: start(), stop(), destroy() and the
\* sweeper forget no runtime but one whose own destroy() raised, the error that
\* _discard_runtime() swallows.
THEOREM NoneForgotten == Spec => []NoForgottenRuntime
<1>1. Init => LeaseInv
  BY DEF Owed, Init, LeaseInv, StarterInv, NamedInv, GoneInv, KnowsNone, Leased
<1>2. IInv /\ LeaseInv /\ [Next]_vars => LeaseInv'
  BY LeaseStep
<1>3. LeaseInv => NoForgottenRuntime
  BY DEF Owed, LeaseInv, NamedInv, NoForgottenRuntime
<1> QED BY <1>1, <1>2, <1>3, Inductive, PTL DEF Spec
=============================================================================
