------------------------ MODULE RuntimeManagerProofs ------------------------
(***************************************************************************)
(* RuntimeManager's inductive invariant, layer by layer: its types, who    *)
(* holds which operation lock and what a thread inside an operation may    *)
(* assume of its runtime's state, then the sandboxes and the leases; and   *)
(* the safety properties that follow from it.  Then three promises that    *)
(* say more: the moves of a runtime's state, what a destroyed runtime      *)
(* leaves behind, and that every step keeps to the abstract lease of a     *)
(* workspace, with the reason that lease is worth keeping to.              *)
(***************************************************************************)
EXTENDS RuntimeManager, TLAPS

\* The literals the steps write, so that the sets they belong to can stay
\* folded in the proofs below.
LEMMA Labels ==
    /\ "installCreate" \in Locked /\ "installStart" \in Locked
    /\ "installWait" \in Locked /\ "installDone" \in Locked
    /\ "installBad" \in Locked /\ "devCreate" \in Locked
    /\ "devStart" \in Locked /\ "devAbort" \in Locked /\ "probe" \in Locked
    /\ "teardown" \in Locked /\ "fail" \in Locked /\ "release" \in Locked
    /\ "stopCall" \in Locked /\ "stopSave" \in Locked /\ "stopped" \in Locked
    /\ "killCall" \in Locked /\ "killSave" \in Locked
    /\ "destroyCall" \in Locked /\ "destroySave" \in Locked
    /\ "crashCall" \in Locked /\ "crashSave" \in Locked
    /\ "idle" \in Unlocked /\ "startLock" \in Unlocked
    /\ "killLock" \in Unlocked /\ "restartCreate" \in Unlocked
    /\ "expireSave" \in Unlocked /\ "healthCheck" \in Unlocked
    /\ "crashLock" \in Unlocked /\ "reconcile" \in Unlocked
    /\ "orphanList" \in Unlocked /\ "orphan" \in Unlocked
BY DEF Locked, Unlocked

LEMMA Words ==
    /\ "created" \in State /\ "starting" \in State /\ "running" \in State
    /\ "idle" \in State /\ "stopping" \in State /\ "stopped" \in State
    /\ "failed" \in State /\ "killed" \in State /\ "destroyed" \in State
    /\ "expired" \in State
    /\ "none" \in SandboxState /\ "created" \in SandboxState
    /\ "running" \in SandboxState /\ "exited" \in SandboxState
    /\ "gone" \in SandboxState
    /\ "install" \in Kind /\ "dev" \in Kind
BY DEF State, SandboxState, Kind

LEMMA Apart == \A label \in Unlocked : label \notin Locked
BY DEF Locked, Unlocked

-----------------------------------------------------------------------------
(* Types.                                                                  *)

LEMMA TypeInit == Init => TypeOK
<1> SUFFICES ASSUME Init PROVE TypeOK
  OBVIOUS
<1>1. /\ state \in [RuntimeId -> State \cup {"absent", "lost"}]
      /\ sandboxId \in [RuntimeId -> Kind \cup {"none"}]
      /\ sandbox \in [Sandbox -> SandboxState]
  BY Words DEF Init
<1>2. /\ lease \in [Workspace -> RuntimeId \cup {None}]
      /\ opLock \in [RuntimeId -> Proc \cup {None}]
      /\ timer \in [RuntimeId -> {"none", "armed"}]
  BY DEF Init
<1>3. /\ pc \in [Proc -> Locked \cup Unlocked]
      /\ target \in [Proc -> RuntimeId \cup {None}]
      /\ then \in [Proc -> {"none", "restart", "expire", "reconcile"}]
  BY Labels DEF Init
<1>4. /\ todo \in [Proc -> SUBSET Sandbox]
      /\ keep \in [Proc -> SUBSET RuntimeId]
      /\ serving \in BOOLEAN /\ crashes \in Nat
  BY DEF Init
<1> QED BY <1>1, <1>2, <1>3, <1>4 DEF TypeOK

\* The provider call of stop() and kill().
LEMMA EndCallType ==
    ASSUME TypeOK, NEW p \in Proc, NEW label, NEW next \in Locked,
           EndCall(p, label, next)
    PROVE  TypeOK'
BY Labels, Words
DEF TypeOK, EndCall, End, EndRaises, TeardownRaises, Becomes, Recorded, Goto,
    Raise, Unlock, records, local

LEMMA TypeStep == ASSUME TypeOK, [Next]_vars PROVE TypeOK'
<1> USE DEF TypeOK, records, local
<1>1. ASSUME NEW p \in Proc, NEW r \in RuntimeId,
              StartBegin(p, r)
      PROVE  TypeOK'
  BY <1>1, Labels, Words, RuntimeManagerAssumption, SMTT(60)
  DEF StartBegin, Goto, Idle, Lock, Call, Save, Proc
<1>2. ASSUME NEW p \in Proc, NEW r \in RuntimeId,
              Create(p, r)
      PROVE  TypeOK'
  BY <1>2, Labels, Words, RuntimeManagerAssumption
  DEF Create, Idle, Admit, Save, Proc
<1>3. ASSUME NEW p \in Proc,
              \/ InstallCreate(p)
              \/ InstallStart(p)
              \/ InstallWait(p)
              \/ InstallDestroy(p)
      PROVE  TypeOK'
  BY <1>3, Labels, Words, RuntimeManagerAssumption, SMTT(60)
  DEF InstallCreate, MakeSandbox, Goto, Record, Becomes, CreateRaises,
      SandboxStep, InstallStart, StartRaises, InstallWait, InstallDestroy,
      DestroyRaises
<1>4. ASSUME NEW p \in Proc,
              \/ DevCreate(p)
              \/ DevStart(p)
              \/ DevAbort(p)
              \/ Teardown(p)
      PROVE  TypeOK'
  BY <1>4, Labels, Words, RuntimeManagerAssumption, SMTT(60)
  DEF DevCreate, MakeSandbox, Goto, Record, Becomes, CreateRaises,
      SandboxStep, DevStart, StartRaises, DevAbort, DestroyRaises, Teardown,
      TeardownRaises
<1>5. ASSUME NEW p \in Proc,
              \/ Healthy(p)
              \/ Unhealthy(p)
              \/ Fail(p)
              \/ StartRefused(p)
      PROVE  TypeOK'
  BY <1>5, Labels, Words, RuntimeManagerAssumption, SMTT(60)
  DEF Healthy, Goto, Unlock, Save, ArmExpiry, Unhealthy, Fail, Raise,
      FailKeepsLease, MarkFailed, StartRefused
<1>6. ASSUME NEW p \in Proc,
              Release(p)
      PROVE  TypeOK'
  BY <1>6, Labels, Words, RuntimeManagerAssumption
  DEF Release, Goto, Unlock, Return, LeaseAfter
<1>7. ASSUME NEW p \in Proc, NEW r \in RuntimeId,
              \/ StopBegin(p, r)
              \/ KillBegin(p, r)
              \/ DestroyBegin(p, r)
      PROVE  TypeOK'
  BY <1>7, Labels, Words, RuntimeManagerAssumption, SMTT(60)
  DEF StopBegin, Active, Terminal, Idle, Call, Begin, Goto, Lock, KillBegin,
      DestroyBegin
<1>8. ASSUME NEW p \in Proc,
              DestroyCall(p)
      PROVE  TypeOK'
  BY <1>8, Labels, Words, RuntimeManagerAssumption, SMTT(60)
  DEF DestroyCall, DestroyRaisesOrEnds, Recorded, Raise, Goto, Unlock,
      DestroyRaises, Becomes, End
<1>9. ASSUME NEW p \in Proc,
              CrashCall(p)
      PROVE  TypeOK'
  BY <1>9, Labels, Words, RuntimeManagerAssumption, SMTT(60)
  DEF CrashCall, Goto, Recorded, Unlock, Return, Save, TeardownRaises,
      Becomes, End
<1>10. ASSUME NEW p \in Proc, StopCall(p)
      PROVE  TypeOK'
  BY <1>10, Labels, EndCallType DEF StopCall
<1>11. ASSUME NEW p \in Proc, KillCall(p)
      PROVE  TypeOK'
  BY <1>11, Labels, EndCallType DEF KillCall
<1>12. ASSUME NEW p \in Proc,
              \/ StopSave(p)
              \/ Stopped(p)
              \/ KillSave(p)
              \/ DestroySave(p)
              \/ CrashSave(p)
      PROVE  TypeOK'
  BY <1>12, Labels, Words, RuntimeManagerAssumption, SMTT(60)
  DEF StopSave, Move, CanTransition, Active, Terminal, Resting, Productive,
      Goto, Save, Stopped, KillSave, DestroySave, CrashSave
<1>13. ASSUME NEW p \in Proc, NEW r \in RuntimeId,
              \/ RestartOfDestroyed(p, r)
              \/ HealthRead(p, r)
      PROVE  TypeOK'
  BY <1>13, Labels, Words, RuntimeManagerAssumption, SMTT(60)
  DEF RestartOfDestroyed, Goto, Idle, Call, HealthRead
<1>14. ASSUME NEW p \in Proc, NEW r \in RuntimeId,
              RestartCreate(p, r)
      PROVE  TypeOK'
  BY <1>14, Labels, Words, RuntimeManagerAssumption
  DEF RestartCreate, Goto, Call, Admit, Save
<1>15. ASSUME NEW p \in Proc,
              \/ RestartBusy(p)
              \/ ExpiryTooLate(p)
              \/ ExpirySave(p)
      PROVE  TypeOK'
  BY <1>15, Labels, Words, RuntimeManagerAssumption, SMTT(60)
  DEF RestartBusy, Goto, ExpiryTooLate, Terminal, ExpirySave, Save
<1>16. ASSUME NEW p \in Proc,
              \/ HealthCheck(p)
              \/ CrashHandled(p)
              \/ CrashBegin(p)
      PROVE  TypeOK'
  BY <1>16, Labels, Words, RuntimeManagerAssumption, SMTT(60)
  DEF HealthCheck, Goto, CrashHandled, Terminal, Return, CrashBegin, Active,
      Begin, Lock
<1>17. ASSUME NEW p \in Proc,
              ReconcileRead(p)
      PROVE  TypeOK'
  BY <1>17, Labels, Words, RuntimeManagerAssumption, SMTT(60)
  DEF ReconcileRead, Active, Terminal, Goto, Idle, Sandbox
<1>18. ASSUME NEW p \in Proc,
              ReconcileEnd(p)
      PROVE  TypeOK'
  BY <1>18, Labels, Words, RuntimeManagerAssumption, SMTT(60)
  DEF ReconcileEnd, Goto
<1>19. ASSUME NEW p \in Proc,
              OrphanRead(p)
      PROVE  TypeOK'
  BY <1>19, Labels, Words, RuntimeManagerAssumption, SMTT(60)
  DEF OrphanRead, Active, Terminal, Proc, Goto
<1>20. ASSUME NEW p \in Proc,
              OrphanEnd(p)
      PROVE  TypeOK'
  BY <1>20, Labels, Words, RuntimeManagerAssumption, SMTT(60)
  DEF OrphanEnd, Goto
<1>21. ASSUME NEW p \in Proc, OrphanList(p)
      PROVE  TypeOK'
  <2>1. todo' \in [Proc -> SUBSET Sandbox]
    BY <1>21 DEF OrphanList
  <2>2. pc' \in [Proc -> Locked \cup Unlocked]
    BY <1>21, Labels DEF OrphanList, Goto
  <2> QED BY <1>21, <2>1, <2>2 DEF OrphanList
<1>22. ASSUME NEW p \in Proc, NEW x \in Sandbox,
              \/ ReconcileStep(p, x)
              \/ OrphanDestroy(p, x)
      PROVE  TypeOK'
  BY <1>22, Labels, Words, RuntimeManagerAssumption, SMTT(60)
  DEF ReconcileStep, Goto, Sandbox, OrphanDestroy, Becomes, DestroyRaises
<1>23. ASSUME NEW r \in RuntimeId,
              ExpiryFires(r)
      PROVE  TypeOK'
  BY <1>23, Labels, Words, RuntimeManagerAssumption, SMTT(60)
  DEF ExpiryFires, Goto, Call, Proc
<1>24. ASSUME NEW x \in Sandbox,
              SandboxExits(x)
      PROVE  TypeOK'
  BY <1>24, Labels, Words, RuntimeManagerAssumption, SMTT(60)
  DEF SandboxExits, Becomes
<1>25. ASSUME ProcessDies
      PROVE  TypeOK'
  <2>1. state' \in [RuntimeId -> State \cup {"absent", "lost"}] /\ crashes' \in Nat
    BY <1>25 DEF ProcessDies
  <2>2. pc' \in [Proc -> Locked \cup Unlocked]
    BY <1>25, Labels DEF ProcessDies
  <2>3. /\ todo' \in [Proc -> SUBSET Sandbox]
        /\ keep' \in [Proc -> SUBSET RuntimeId]
    BY <1>25 DEF ProcessDies
  <2> QED BY <1>25, <2>1, <2>2, <2>3 DEF ProcessDies
<1>26. CASE UNCHANGED vars
  BY <1>26 DEF vars
<1> HIDE DEF TypeOK, records, local
<1> QED
  BY <1>1, <1>2, <1>3, <1>4, <1>5, <1>6, <1>7, <1>8, <1>9, <1>10, <1>11,
     <1>12, <1>13, <1>14, <1>15, <1>16, <1>17, <1>18, <1>19, <1>20, <1>21,
     <1>22, <1>23, <1>24, <1>25, <1>26
  DEF Next, Request, Continue, Proc

\* Every variable keeps its type.
THEOREM TypeCorrect == Spec => []TypeOK
<1>1. Init => TypeOK
  BY TypeInit
<1>2. TypeOK /\ [Next]_vars => TypeOK'
  BY TypeStep
<1> QED BY <1>1, <1>2, PTL DEF Spec

-----------------------------------------------------------------------------
(* Operation locks.                                                        *)

\* A step inside an operation, or outside of any.
LEMMA LockKept ==
    ASSUME TypeOK, LockInv, NEW p \in Proc, NEW label,
           pc' = [pc EXCEPT ![p] = label], opLock' = opLock,
           label \in Locked <=> pc[p] \in Locked,
           \A q \in Proc : q # p => target'[q] = target[q],
           pc[p] \in Locked => target'[p] = target[p],
           label \notin NoTarget => target'[p] \in RuntimeId
    PROVE  LockInv'
<1>1. \A q \in Proc : pc'[q] = IF q = p THEN label ELSE pc[q]
  BY DEF TypeOK
<1>2. \A q \in Proc : pc'[q] \in Locked <=> pc[q] \in Locked
  BY <1>1
<1>3. \A q \in Proc : pc[q] \in Locked => target'[q] = target[q]
  OBVIOUS
<1>4. \A r \in RuntimeId : opLock[r] # None => opLock[r] \in Proc
  BY DEF TypeOK
<1> QED BY <1>1, <1>2, <1>3, <1>4 DEF LockInv

\* The end of an operation.
LEMMA LockLeft ==
    ASSUME TypeOK, LockInv, NEW p \in Proc, NEW label \in Unlocked,
           pc[p] \in Locked, Unlock(p),
           pc' = [pc EXCEPT ![p] = label], target' = target
    PROVE  LockInv'
<1>1. \A q \in Proc : pc'[q] = IF q = p THEN label ELSE pc[q]
  BY DEF TypeOK
<1>2. target[p] \in RuntimeId /\ opLock[target[p]] = p
  BY DEF LockInv, NoTarget, Locked
<1>3. \A r \in RuntimeId : opLock'[r] = IF r = target[p] THEN None ELSE opLock[r]
  BY DEF Unlock, TypeOK
<1>4. \A q \in Proc : pc'[q] \in Locked => q # p /\ opLock'[target'[q]] = q
  BY <1>1, <1>2, <1>3, Apart DEF LockInv, NoTarget, Locked
<1>5. \A r \in RuntimeId : opLock'[r] # None =>
         pc'[opLock'[r]] \in Locked /\ target'[opLock'[r]] = r
  BY <1>1, <1>2, <1>3 DEF LockInv, TypeOK
<1> QED BY <1>1, <1>2, <1>4, <1>5 DEF LockInv

LEMMA LockInit == Init => LockInv
BY RuntimeManagerAssumption, Labels, Apart DEF Init, LockInv, NoTarget, Proc

LEMMA LockStep == ASSUME TypeOK, LockInv, [Next]_vars PROVE LockInv'
<1> USE DEF TypeOK, LockInv, NoTarget, records, local
<1>1. ASSUME NEW p \in Proc, NEW r \in RuntimeId,
              Create(p, r)
      PROVE  LockInv'
  BY <1>1, RuntimeManagerAssumption, Labels, Apart, SMTT(60)
  DEF Create, Idle, Admit, Save, Proc
<1>2. ASSUME NEW p \in Proc, NEW r \in RuntimeId,
              StartBegin(p, r)
      PROVE  LockInv'
  BY <1>2, RuntimeManagerAssumption, Labels, Apart, SMTT(60)
  DEF StartBegin, Goto, Idle, Lock, Call, Save, Proc
<1>3. ASSUME NEW p \in Proc,
              \/ InstallCreate(p)
              \/ InstallStart(p)
              \/ InstallWait(p)
              \/ InstallDestroy(p)
      PROVE  LockInv'
  BY <1>3, RuntimeManagerAssumption, Labels, Apart, SMTT(60)
  DEF InstallCreate, MakeSandbox, Goto, Record, Becomes, CreateRaises,
      SandboxStep, Proc, InstallStart, StartRaises, InstallWait,
      InstallDestroy, DestroyRaises
<1>4. ASSUME NEW p \in Proc,
              \/ DevCreate(p)
              \/ DevStart(p)
              \/ DevAbort(p)
              \/ Teardown(p)
      PROVE  LockInv'
  BY <1>4, RuntimeManagerAssumption, Labels, Apart, SMTT(60)
  DEF DevCreate, MakeSandbox, Goto, Record, Becomes, CreateRaises,
      SandboxStep, Proc, DevStart, StartRaises, DevAbort, DestroyRaises,
      Teardown, TeardownRaises
<1>5. ASSUME NEW p \in Proc,
              \/ Healthy(p)
              \/ Unhealthy(p)
              \/ StartRefused(p)
      PROVE  LockInv'
  BY <1>5, RuntimeManagerAssumption, Labels, Apart, SMTT(60)
  DEF Healthy, Goto, Unlock, Save, ArmExpiry, Proc, Unhealthy, StartRefused
<1>6. ASSUME NEW p \in Proc, Fail(p)
      PROVE  LockInv'
  <2>1. pc[p] \in Locked /\ target' = target /\ target[p] \in RuntimeId
    BY <1>6, Labels DEF Fail, local, LockInv, NoTarget
  <2>2. CASE \E label \in Locked : Goto(p, label) /\ UNCHANGED opLock
    BY <2>1, <2>2, LockKept DEF Goto
  <2>3. CASE \E label \in Unlocked : Goto(p, label) /\ Unlock(p)
    BY <2>1, <2>3, LockLeft DEF Goto
  <2> QED
    BY <1>6, <2>2, <2>3, Labels
    DEF Fail, Raise
<1>7. ASSUME NEW p \in Proc,
              Release(p)
      PROVE  LockInv'
  BY <1>7, RuntimeManagerAssumption, Labels, Apart, SMTT(60)
  DEF Release, Goto, Unlock, Return, LeaseAfter, Proc
<1>8. ASSUME NEW p \in Proc, NEW r \in RuntimeId,
              \/ StopBegin(p, r)
              \/ KillBegin(p, r)
              \/ DestroyBegin(p, r)
      PROVE  LockInv'
  BY <1>8, RuntimeManagerAssumption, Labels, Apart, SMTT(60)
  DEF StopBegin, Active, State, Terminal, Idle, Call, Begin, Goto, Lock, Proc,
      KillBegin, DestroyBegin
<1>9. ASSUME NEW p \in Proc, StopCall(p)
      PROVE  LockInv'
  <2>1. /\ pc[p] \in Locked /\ target' = target /\ target[p] \in RuntimeId
    BY <1>9, Labels DEF StopCall, EndCall
  <2>2. CASE \E label \in Locked : Goto(p, label) /\ UNCHANGED opLock
    BY <2>1, <2>2, LockKept DEF Goto
  <2>3. CASE Goto(p, "idle") /\ Unlock(p)
    BY <2>1, <2>3, Labels, LockLeft DEF Goto
  <2> QED BY <1>9, <2>2, <2>3, Labels DEF StopCall, EndCall, End, EndRaises, Raise
<1>10. ASSUME NEW p \in Proc, KillCall(p)
      PROVE  LockInv'
  <2>1. /\ pc[p] \in Locked /\ target' = target /\ target[p] \in RuntimeId
    BY <1>10, Labels DEF KillCall, EndCall
  <2>2. CASE \E label \in Locked : Goto(p, label) /\ UNCHANGED opLock
    BY <2>1, <2>2, LockKept DEF Goto
  <2>3. CASE Goto(p, "idle") /\ Unlock(p)
    BY <2>1, <2>3, Labels, LockLeft DEF Goto
  <2> QED BY <1>10, <2>2, <2>3, Labels DEF KillCall, EndCall, End, EndRaises, Raise
<1>11. ASSUME NEW p \in Proc, DestroyCall(p)
      PROVE  LockInv'
  <2>1. pc[p] \in Locked /\ target' = target /\ target[p] \in RuntimeId
    BY <1>11, Labels DEF DestroyCall, local, LockInv, NoTarget
  <2>2. CASE \E label \in Locked : Goto(p, label) /\ UNCHANGED opLock
    BY <2>1, <2>2, LockKept DEF Goto
  <2>3. CASE \E label \in Unlocked : Goto(p, label) /\ Unlock(p)
    BY <2>1, <2>3, LockLeft DEF Goto
  <2> QED
    BY <1>11, <2>2, <2>3, Labels
    DEF DestroyCall, DestroyRaisesOrEnds, End, Raise
<1>12. ASSUME NEW p \in Proc, CrashCall(p)
      PROVE  LockInv'
  <2>1. pc[p] \in Locked /\ target' = target /\ target[p] \in RuntimeId
    BY <1>12, Labels DEF CrashCall, local, LockInv, NoTarget
  <2>2. CASE \E label \in Locked : Goto(p, label) /\ UNCHANGED opLock
    BY <2>1, <2>2, LockKept DEF Goto
  <2>3. CASE \E label \in Unlocked : Goto(p, label) /\ Unlock(p)
    BY <2>1, <2>3, LockLeft DEF Goto
  <2>4. Return(p) \in Unlocked
    BY Labels DEF Return
  <2> QED
    BY <1>12, <2>2, <2>3, <2>4, Labels
    DEF CrashCall, End
<1>13. ASSUME NEW p \in Proc,
              \/ StopSave(p)
              \/ Stopped(p)
              \/ KillSave(p)
              \/ DestroySave(p)
              \/ CrashSave(p)
      PROVE  LockInv'
  BY <1>13, RuntimeManagerAssumption, Labels, Apart, SMTT(60)
  DEF StopSave, Move, CanTransition, Active, State, Terminal, Resting,
      Productive, Goto, Save, Proc, Stopped, KillSave, DestroySave, CrashSave
<1>14. ASSUME NEW p \in Proc, NEW r \in RuntimeId,
              \/ RestartOfDestroyed(p, r)
              \/ RestartCreate(p, r)
              \/ HealthRead(p, r)
      PROVE  LockInv'
  BY <1>14, RuntimeManagerAssumption, Labels, Apart, SMTT(60)
  DEF RestartOfDestroyed, Goto, Idle, Call, Proc, RestartCreate, Admit, Save,
      HealthRead
<1>15. ASSUME NEW p \in Proc,
              \/ RestartBusy(p)
              \/ ExpiryTooLate(p)
              \/ ExpirySave(p)
      PROVE  LockInv'
  BY <1>15, RuntimeManagerAssumption, Labels, Apart, SMTT(60)
  DEF RestartBusy, Goto, Proc, ExpiryTooLate, Terminal, ExpirySave, Save
<1>16. ASSUME NEW p \in Proc,
              \/ HealthCheck(p)
              \/ CrashHandled(p)
              \/ CrashBegin(p)
      PROVE  LockInv'
  BY <1>16, RuntimeManagerAssumption, Labels, Apart, SMTT(60)
  DEF HealthCheck, Goto, Proc, CrashHandled, Terminal, Return, CrashBegin,
      Active, State, Begin, Lock
<1>17. ASSUME NEW p \in Proc,
              ReconcileRead(p)
      PROVE  LockInv'
  BY <1>17, RuntimeManagerAssumption, Labels, Apart, SMTT(60)
  DEF ReconcileRead, Active, State, Terminal, Goto, Idle, Proc
<1>18. ASSUME NEW p \in Proc,
              ReconcileEnd(p)
      PROVE  LockInv'
  BY <1>18, RuntimeManagerAssumption, Labels, Apart, SMTT(60)
  DEF ReconcileEnd, Goto, Proc
<1>19. ASSUME NEW p \in Proc,
              OrphanRead(p)
      PROVE  LockInv'
  BY <1>19, RuntimeManagerAssumption, Labels, Apart, SMTT(60)
  DEF OrphanRead, Active, State, Terminal, Proc, Goto
<1>20. ASSUME NEW p \in Proc,
              OrphanList(p)
      PROVE  LockInv'
  BY <1>20, RuntimeManagerAssumption, Labels, Apart, SMTT(60)
  DEF OrphanList, Sandbox, Kind, Goto, Proc
<1>21. ASSUME NEW p \in Proc,
              OrphanEnd(p)
      PROVE  LockInv'
  BY <1>21, RuntimeManagerAssumption, Labels, Apart, SMTT(60)
  DEF OrphanEnd, Goto, Proc
<1>22. ASSUME NEW p \in Proc, NEW x \in Sandbox, ReconcileStep(p, x)
      PROVE  LockInv'
  <2>1. CASE UNCHANGED <<pc, target>>
    BY <1>22, <2>1 DEF ReconcileStep, LockInv
  <2>2. CASE Goto(p, "crashLock") /\ target' = [target EXCEPT ![p] = x[1]]
    BY <1>22, <2>2, Labels, Apart, LockKept DEF ReconcileStep, Goto, TypeOK, Sandbox
  <2> QED BY <1>22, <2>1, <2>2 DEF ReconcileStep
<1>23. ASSUME NEW p \in Proc, NEW x \in Sandbox, OrphanDestroy(p, x)
      PROVE  LockInv'
  BY <1>23 DEF OrphanDestroy, LockInv
<1>24. ASSUME NEW r \in RuntimeId,
              ExpiryFires(r)
      PROVE  LockInv'
  BY <1>24, RuntimeManagerAssumption, Labels, Apart, SMTT(60)
  DEF ExpiryFires, Goto, Call, Proc
<1>25. ASSUME NEW x \in Sandbox,
              SandboxExits(x)
      PROVE  LockInv'
  BY <1>25, RuntimeManagerAssumption, Labels, Apart, SMTT(60)
  DEF SandboxExits, Becomes, Proc
<1>26. ASSUME ProcessDies
      PROVE  LockInv'
  BY <1>26, RuntimeManagerAssumption, Labels, Apart, SMTT(60)
  DEF ProcessDies, Proc
<1>27. CASE UNCHANGED vars
  BY <1>27 DEF vars
<1> HIDE DEF TypeOK, LockInv, NoTarget, records, local
<1> QED
  BY <1>1, <1>2, <1>3, <1>4, <1>5, <1>6, <1>7, <1>8, <1>9, <1>10, <1>11,
     <1>12, <1>13, <1>14, <1>15, <1>16, <1>17, <1>18, <1>19, <1>20, <1>21,
     <1>22, <1>23, <1>24, <1>25, <1>26, <1>27
  DEF Next, Request, Continue, Proc

-----------------------------------------------------------------------------
(* Phases of an operation.                                                 *)

LEMMA PhaseInit == Init => PhaseInv
BY RuntimeManagerAssumption DEF Init, PhaseInv, Starting, Installing, Serving, Ending, NoTarget

LEMMA PhaseStep == ASSUME TypeOK, LockInv, PhaseInv, [Next]_vars PROVE PhaseInv'
<1> USE DEF TypeOK, LockInv, PhaseInv, NoTarget, Starting, Installing, Serving, Ending,
            CanTransition, Resting, Active, Terminal, State, Productive, records, local
<1>1. ASSUME NEW p \in Proc, NEW r \in RuntimeId,
              Create(p, r)
      PROVE  PhaseInv'
  BY <1>1, RuntimeManagerAssumption, Labels, Apart, SMTT(60)
  DEF Create, Idle, Admit, Save, Proc
<1>2. ASSUME NEW p \in Proc, NEW r \in RuntimeId,
              StartBegin(p, r)
      PROVE  PhaseInv'
  BY <1>2, RuntimeManagerAssumption, Labels, Apart, SMTT(60)
  DEF StartBegin, Goto, Idle, Lock, Call, Save, Proc
<1>3. ASSUME NEW p \in Proc,
              \/ InstallCreate(p)
              \/ InstallStart(p)
              \/ InstallWait(p)
              \/ InstallDestroy(p)
      PROVE  PhaseInv'
  BY <1>3, RuntimeManagerAssumption, Labels, Apart, SMTT(60)
  DEF InstallCreate, MakeSandbox, Goto, Record, Becomes, CreateRaises,
      SandboxStep, Proc, InstallStart, StartRaises, InstallWait,
      InstallDestroy, DestroyRaises
<1>4. ASSUME NEW p \in Proc,
              \/ DevCreate(p)
              \/ DevStart(p)
              \/ DevAbort(p)
              \/ Teardown(p)
      PROVE  PhaseInv'
  BY <1>4, RuntimeManagerAssumption, Labels, Apart, SMTT(60)
  DEF DevCreate, MakeSandbox, Goto, Record, Becomes, CreateRaises,
      SandboxStep, Proc, DevStart, StartRaises, DevAbort, DestroyRaises,
      Teardown, TeardownRaises
<1>5. ASSUME NEW p \in Proc,
              \/ Healthy(p)
              \/ Unhealthy(p)
              \/ Fail(p)
              \/ StartRefused(p)
      PROVE  PhaseInv'
  BY <1>5, RuntimeManagerAssumption, Labels, Apart, SMTT(60)
  DEF Healthy, Goto, Unlock, Save, ArmExpiry, Proc, Unhealthy, Fail, Raise,
      FailKeepsLease, MarkFailed, StartRefused
<1>6. ASSUME NEW p \in Proc,
              Release(p)
      PROVE  PhaseInv'
  BY <1>6, RuntimeManagerAssumption, Labels, Apart, SMTT(60)
  DEF Release, Goto, Unlock, Return, LeaseAfter, Proc
<1>7. ASSUME NEW p \in Proc, NEW r \in RuntimeId,
              \/ StopBegin(p, r)
              \/ KillBegin(p, r)
              \/ DestroyBegin(p, r)
      PROVE  PhaseInv'
  BY <1>7, RuntimeManagerAssumption, Labels, Apart, SMTT(60)
  DEF StopBegin, Idle, Call, Begin, Goto, Lock, Proc, KillBegin, DestroyBegin
<1>8. ASSUME NEW p \in Proc,
              \/ StopCall(p)
              \/ KillCall(p)
              \/ DestroyCall(p)
              \/ CrashCall(p)
      PROVE  PhaseInv'
  BY <1>8, RuntimeManagerAssumption, Labels, Apart, SMTT(60)
  DEF StopCall, EndCall, End, Goto, Recorded, Becomes, EndRaises, Raise,
      Unlock, TeardownRaises, Proc, KillCall, DestroyCall,
      DestroyRaisesOrEnds, DestroyRaises, CrashCall, Return, Save
<1>9. ASSUME NEW p \in Proc,
              \/ StopSave(p)
              \/ Stopped(p)
              \/ KillSave(p)
              \/ DestroySave(p)
              \/ CrashSave(p)
      PROVE  PhaseInv'
  BY <1>9, RuntimeManagerAssumption, Labels, Apart, SMTT(60)
  DEF StopSave, Move, Goto, Save, Proc, Stopped, KillSave, DestroySave,
      CrashSave
<1>10. ASSUME NEW p \in Proc, NEW r \in RuntimeId,
              \/ RestartOfDestroyed(p, r)
              \/ RestartCreate(p, r)
              \/ HealthRead(p, r)
      PROVE  PhaseInv'
  BY <1>10, RuntimeManagerAssumption, Labels, Apart, SMTT(60)
  DEF RestartOfDestroyed, Goto, Idle, Call, Proc, RestartCreate, Admit, Save,
      HealthRead
<1>11. ASSUME NEW p \in Proc,
              \/ RestartBusy(p)
              \/ ExpiryTooLate(p)
              \/ ExpirySave(p)
      PROVE  PhaseInv'
  BY <1>11, RuntimeManagerAssumption, Labels, Apart, SMTT(60)
  DEF RestartBusy, Goto, Proc, ExpiryTooLate, ExpirySave, Save
<1>12. ASSUME NEW p \in Proc,
              \/ HealthCheck(p)
              \/ CrashHandled(p)
              \/ CrashBegin(p)
      PROVE  PhaseInv'
  BY <1>12, RuntimeManagerAssumption, Labels, Apart, SMTT(60)
  DEF HealthCheck, Goto, Proc, CrashHandled, Return, CrashBegin, Begin, Lock
<1>13. ASSUME NEW p \in Proc,
              \/ ReconcileRead(p)
              \/ ReconcileEnd(p)
              \/ OrphanRead(p)
              \/ OrphanList(p)
              \/ OrphanEnd(p)
      PROVE  PhaseInv'
  BY <1>13, RuntimeManagerAssumption, Labels, Apart, SMTT(60)
  DEF ReconcileRead, Goto, Idle, Proc, ReconcileEnd, OrphanRead, OrphanList,
      Sandbox, Kind, OrphanEnd
<1>14. ASSUME NEW p \in Proc, NEW x \in Sandbox, ReconcileStep(p, x)
      PROVE  PhaseInv'
  <2>1. CASE UNCHANGED <<pc, target>>
    BY <1>14, <2>1 DEF ReconcileStep
  <2>2. CASE Goto(p, "crashLock") /\ target' = [target EXCEPT ![p] = x[1]]
    BY <1>14, <2>2 DEF ReconcileStep, Goto
  <2> QED BY <1>14, <2>1, <2>2 DEF ReconcileStep
<1>15. ASSUME NEW p \in Proc, NEW x \in Sandbox, OrphanDestroy(p, x)
      PROVE  PhaseInv'
  BY <1>15 DEF OrphanDestroy
<1>16. ASSUME NEW r \in RuntimeId,
              ExpiryFires(r)
      PROVE  PhaseInv'
  BY <1>16, RuntimeManagerAssumption, Labels, Apart, SMTT(60)
  DEF ExpiryFires, Goto, Call, Proc
<1>17. ASSUME NEW x \in Sandbox,
              SandboxExits(x)
      PROVE  PhaseInv'
  BY <1>17, RuntimeManagerAssumption, Labels, Apart, SMTT(60)
  DEF SandboxExits, Becomes, Proc
<1>18. ASSUME ProcessDies
      PROVE  PhaseInv'
  BY <1>18, RuntimeManagerAssumption, Labels, Apart, SMTT(60)
  DEF ProcessDies, Proc
<1>19. CASE UNCHANGED vars
  BY <1>19 DEF vars
<1> HIDE DEF TypeOK, LockInv, PhaseInv, NoTarget, Starting, Installing,
            Serving, Ending, CanTransition, Resting, Active, Terminal, State,
            Productive, records, local
<1> QED
  BY <1>1, <1>2, <1>3, <1>4, <1>5, <1>6, <1>7, <1>8, <1>9, <1>10, <1>11,
     <1>12, <1>13, <1>14, <1>15, <1>16, <1>17, <1>18, <1>19
  DEF Next, Request, Continue, Proc


-----------------------------------------------------------------------------
(* What each provider call does to the set of running sandboxes.           *)

LEMMA Ends ==
    ASSUME TypeOK, NEW r \in RuntimeId, NEW k \in Kind, NEW s, s # "running",
           Becomes(<<r, k>>, s)
    PROVE  \A q \in RuntimeId, j \in Kind :
              Runs(q, j)' <=> (Runs(q, j) /\ ~(q = r /\ j = k))
BY DEF TypeOK, Becomes, Runs, Sandbox

LEMMA Begins ==
    ASSUME TypeOK, NEW r \in RuntimeId, NEW k \in Kind, Becomes(<<r, k>>, "running")
    PROVE  \A q \in RuntimeId, j \in Kind :
              Runs(q, j)' <=> (Runs(q, j) \/ (q = r /\ j = k))
BY DEF TypeOK, Becomes, Runs, Sandbox

LEMMA RaisesStartNothing ==
    ASSUME TypeOK, NEW r \in RuntimeId, NEW k \in Kind,
           DestroyRaises(<<r, k>>) \/ TeardownRaises(<<r, k>>) \/ CreateRaises(<<r, k>>)
    PROVE  \A q \in RuntimeId, j \in Kind : Runs(q, j)' => Runs(q, j)
<1>1. CASE sandbox' = sandbox
  BY <1>1 DEF Runs
<1>2. ASSUME NEW s \in {"created", "exited", "gone"}, Becomes(<<r, k>>, s)
      PROVE  \A q \in RuntimeId, j \in Kind : Runs(q, j)' => Runs(q, j)
  BY <1>2, Ends
<1> QED BY <1>1, <1>2 DEF DestroyRaises, TeardownRaises, CreateRaises

LEMMA StartRaisesEffect ==
    ASSUME TypeOK, NEW r \in RuntimeId, NEW k \in Kind, StartRaises(<<r, k>>)
    PROVE  \A q \in RuntimeId, j \in Kind :
              Runs(q, j)' => Runs(q, j) \/ (q = r /\ j = k)
<1>1. CASE sandbox' = sandbox
  BY <1>1 DEF Runs
<1>2. CASE Becomes(<<r, k>>, "running")
  BY <1>2, Begins
<1> QED BY <1>1, <1>2 DEF StartRaises

-----------------------------------------------------------------------------
(* Running sandboxes and the records that name them.                       *)

\* A thread that holds the lock of r changes nothing another thread relies on.
LEMMA LockedStep ==
    ASSUME TypeOK, LockInv, SandboxInv,
           NEW p \in Proc, pc[p] \in Locked,
           NEW r \in RuntimeId, target[p] = r, target' = target,
           NEW label, pc' = [pc EXCEPT ![p] = label],
           \A q \in RuntimeId : q # r => state'[q] = state[q] /\ sandboxId'[q] = sandboxId[q],
           \A q \in RuntimeId, j \in Kind : q # r /\ Runs(q, j)' => Runs(q, j),
           state'[r] \in {"absent", "created"} => sandboxId'[r] = "none",
           \A j \in Kind : Runs(r, j)' => sandboxId'[r] = j,
           label \in {"installCreate", "devCreate"} => sandboxId'[r] = "none",
           label \in Installing => sandboxId'[r] = "install",
           label \in Serving => sandboxId'[r] = "dev",
           label \in Cleaned => \A j \in Kind : ~Runs(r, j)'
    PROVE  SandboxInv'
<1>1. ASSUME NEW q \in RuntimeId
      PROVE  /\ \A k \in Kind : Runs(q, k)' /\ state'[q] # "lost" => sandboxId'[q] = k
             /\ state'[q] \in {"absent", "created"} => sandboxId'[q] = "none"
  BY <1>1 DEF SandboxInv
<1>2. Knows(p)'
  BY DEF Knows, TypeOK
<1>3. ASSUME NEW q \in Proc, q # p PROVE Knows(q)'
  <2>1. pc'[q] = pc[q] /\ target'[q] = target[q]
    BY <1>3 DEF TypeOK
  <2>2. CASE pc[q] \in Locked
    <3>1. PICK t \in RuntimeId : target[q] = t
      BY <2>2 DEF LockInv, NoTarget, Locked
    <3>2. t # r
      BY <1>3, <2>2, <3>1 DEF LockInv
    <3>3. Knows(q)
      BY DEF SandboxInv
    <3> QED BY <2>1, <3>1, <3>2, <3>3 DEF Knows
  <2>3. CASE pc[q] \notin Locked
    BY <2>1, <2>3 DEF Knows, Locked, Installing, Serving, Cleaned
  <2> QED BY <2>2, <2>3
<1> QED BY <1>1, <1>2, <1>3 DEF SandboxInv

LEMMA MakeSandboxStep ==
    ASSUME TypeOK, LockInv, PhaseInv, SandboxInv,
           NEW p \in Proc, pc[p] \in {"installCreate", "devCreate"},
           NEW k \in Kind, NEW next, MakeSandbox(p, k, next),
           k = "install" => next = "installStart",
           k = "dev" => next = "devStart",
           state' = state, target' = target
    PROVE  SandboxInv'
<1>1. pc[p] \in Locked /\ target[p] \in RuntimeId
  BY DEF LockInv, Locked, NoTarget
<1>2. PICK r \in RuntimeId : r = target[p]
  BY <1>1
<1>3. /\ state[r] = "starting"
      /\ sandboxId[r] = "none"
  BY <1>2 DEF PhaseInv, SandboxInv, Knows, Starting
<1>4. \A j \in Kind : ~Runs(r, j)
  BY <1>3 DEF SandboxInv, Kind
<1>5. CASE Becomes(<<r, k>>, "created") /\ Record(p, k) /\ Goto(p, next)
  <2>1. \A q \in RuntimeId, j \in Kind : Runs(q, j)' => Runs(q, j)
    BY <1>5, Ends
  <2>2. sandboxId' = [sandboxId EXCEPT ![r] = k]
    BY <1>2, <1>5 DEF Record
  <2>3. \A q \in RuntimeId : sandboxId'[q] = IF q = r THEN k ELSE sandboxId[q]
    BY <2>2 DEF TypeOK
  <2>4. next \in Installing => k = "install"
    BY DEF Kind, Installing
  <2>5. next \in Serving => k = "dev"
    BY DEF Kind, Serving
  <2>6. next \notin {"installCreate", "devCreate"} /\ next \notin Cleaned
    BY DEF Kind, Cleaned
  <2> QED
    BY <1>1, <1>2, <1>3, <1>4, <1>5, <2>1, <2>3, <2>4, <2>5, <2>6, LockedStep DEF Goto
<1>6. CASE CreateRaises(<<r, k>>) /\ Goto(p, "fail") /\ UNCHANGED sandboxId
  <2>1. \A q \in RuntimeId, j \in Kind : Runs(q, j)' => Runs(q, j)
    BY <1>6, RaisesStartNothing
  <2> QED
    BY <1>1, <1>2, <1>3, <1>4, <1>6, <2>1, LockedStep DEF Goto, Installing, Serving, Cleaned
<1> QED BY <1>2, <1>5, <1>6 DEF MakeSandbox

LEMMA StartSandboxStep ==
    ASSUME TypeOK, LockInv, PhaseInv, SandboxInv, NEW p \in Proc,
           NEW k \in Kind, NEW label,
           k = "install" => pc[p] = "installStart" /\ label \in Installing,
           k = "dev" => pc[p] = "devStart" /\ label \in Serving,
           Becomes(<<target[p], k>>, "running") \/ StartRaises(<<target[p], k>>),
           pc' = [pc EXCEPT ![p] = label],
           state' = state, target' = target, sandboxId' = sandboxId
    PROVE  SandboxInv'
<1>1. pc[p] \in Locked /\ target[p] \in RuntimeId
  BY DEF LockInv, Locked, NoTarget, Kind
<1>2. PICK r \in RuntimeId : r = target[p]
  BY <1>1
<1>3. state[r] = "starting" /\ sandboxId[r] = k
  BY <1>2 DEF PhaseInv, SandboxInv, Knows, Starting, Installing, Serving, Kind
<1>4. \A q \in RuntimeId, j \in Kind : Runs(q, j)' => Runs(q, j) \/ (q = r /\ j = k)
  <2>1. CASE Becomes(<<r, k>>, "running")
    BY <2>1, Begins
  <2>2. CASE StartRaises(<<r, k>>)
    BY <2>2, StartRaisesEffect
  <2> QED BY <1>2, <2>1, <2>2
<1>5. \A j \in Kind : Runs(r, j)' => sandboxId'[r] = j
  BY <1>3, <1>4 DEF SandboxInv
<1>6. /\ label \notin {"installCreate", "devCreate"} /\ label \notin Cleaned
      /\ label \in Installing => k = "install"
      /\ label \in Serving => k = "dev"
  BY DEF Installing, Serving, Cleaned, Kind
<1> QED BY <1>1, <1>2, <1>3, <1>4, <1>5, <1>6, LockedStep

\* A step that starts nothing and leaves the record of the sandbox alone.
LEMMA QuietStep ==
    ASSUME TypeOK, LockInv, SandboxInv,
           NEW p \in Proc, pc[p] \in Locked,
           NEW r \in RuntimeId, r = target[p], state[r] \in State, state'[r] \in State,
           \A q \in RuntimeId : q # r => state'[q] = state[q],
           state'[r] = "created" => state[r] = "created",
           \A q \in RuntimeId, j \in Kind : Runs(q, j)' => Runs(q, j),
           NEW label, pc' = [pc EXCEPT ![p] = label],
           target' = target, sandboxId' = sandboxId,
           label \notin {"installCreate", "devCreate"},
           label \in Installing => sandboxId[r] = "install",
           label \in Serving => sandboxId[r] = "dev",
           label \in Cleaned => \A j \in Kind : ~Runs(r, j)'
    PROVE  SandboxInv'
<1>1. \A j \in Kind : Runs(r, j)' => sandboxId'[r] = j
  BY DEF SandboxInv, State
<1>2. state'[r] \in {"absent", "created"} => sandboxId'[r] = "none"
  BY DEF State, SandboxInv
<1> QED BY <1>1, <1>2, LockedStep

\* The removal of the sandbox start() recorded, by a finally or except clause.
LEMMA RemoveStep ==
    ASSUME TypeOK, LockInv, PhaseInv, SandboxInv, NEW p \in Proc,
           NEW k \in Kind, NEW label,
           k = "install" => pc[p] \in Installing,
           k = "dev" => pc[p] \in Serving,
           label \in {"devCreate", "fail"},
           \/ Becomes(<<target[p], k>>, "gone") /\ Record(p, "none")
           \/ /\ DestroyRaises(<<target[p], k>>) \/ TeardownRaises(<<target[p], k>>)
              /\ UNCHANGED sandboxId /\ label = "fail",
           pc' = [pc EXCEPT ![p] = label], state' = state, target' = target
    PROVE  SandboxInv'
<1>1. pc[p] \in Locked /\ target[p] \in RuntimeId
  BY DEF LockInv, Locked, NoTarget, Installing, Serving, Kind
<1>2. PICK r \in RuntimeId : r = target[p]
  BY <1>1
<1>3. state[r] = "starting" /\ sandboxId[r] = k
  BY <1>2 DEF PhaseInv, SandboxInv, Knows, Starting, Installing, Serving, Kind
<1>4. label \notin Installing /\ label \notin Serving /\ label \notin Cleaned
  BY DEF Installing, Serving, Cleaned
<1>5. CASE Becomes(<<r, k>>, "gone") /\ Record(p, "none")
  <2>1. \A q \in RuntimeId, j \in Kind :
           Runs(q, j)' <=> (Runs(q, j) /\ ~(q = r /\ j = k))
    BY <1>5, Ends
  <2>2. \A j \in Kind : ~Runs(r, j)'
    BY <1>3, <2>1 DEF SandboxInv
  <2>3. sandboxId' = [sandboxId EXCEPT ![r] = "none"]
    BY <1>2, <1>5 DEF Record
  <2>4. \A q \in RuntimeId : sandboxId'[q] = IF q = r THEN "none" ELSE sandboxId[q]
    BY <2>3 DEF TypeOK
  <2> QED BY <1>1, <1>2, <1>3, <1>4, <2>1, <2>2, <2>4, LockedStep
<1>6. CASE /\ DestroyRaises(<<r, k>>) \/ TeardownRaises(<<r, k>>)
           /\ UNCHANGED sandboxId /\ label = "fail"
  <2>1. \A q \in RuntimeId, j \in Kind : Runs(q, j)' => Runs(q, j)
    BY <1>6, RaisesStartNothing
  <2> QED BY <1>1, <1>2, <1>3, <1>4, <1>6, <2>1, QuietStep, Words
<1> QED BY <1>2, <1>5, <1>6

\* The provider calls that end a runtime leave nothing of it running.
LEMMA EndStep ==
    ASSUME TypeOK, LockInv, SandboxInv,
           NEW p \in Proc, pc[p] \in Locked,
           NEW r \in RuntimeId, r = target[p], state[r] \in State,
           NEW label \in Cleaned, End(p, label),
           state' = state, target' = target, sandboxId' = sandboxId
    PROVE  SandboxInv'
<1>1. label \notin {"installCreate", "devCreate"} /\ label \notin Installing
      /\ label \notin Serving
  BY DEF Installing, Serving, Cleaned
<1>2. CASE sandboxId[r] = "none"
  <2>1. \A q \in RuntimeId, j \in Kind : Runs(q, j)' => Runs(q, j)
    BY <1>2 DEF End, Runs
  <2>2. \A j \in Kind : ~Runs(r, j)'
    BY <1>2, <2>1 DEF SandboxInv, State, Kind
  <2> QED BY <1>1, <2>1, <2>2, QuietStep DEF End, Goto
<1>3. CASE sandboxId[r] # "none"
  <2>1. PICK k \in Kind : sandboxId[r] = k
    BY <1>3 DEF TypeOK
  <2>2. Becomes(<<r, k>>, "gone") /\ Goto(p, label)
    BY <1>3, <2>1 DEF End, Recorded
  <2>3. \A q \in RuntimeId, j \in Kind :
           Runs(q, j)' <=> (Runs(q, j) /\ ~(q = r /\ j = k))
    BY <2>2, Ends
  <2>4. \A j \in Kind : ~Runs(r, j)'
    BY <2>1, <2>3 DEF SandboxInv, State
  <2> QED BY <1>1, <2>2, <2>3, <2>4, QuietStep DEF Goto
<1> QED BY <1>2, <1>3

\* A sandbox that ends or is removed by a thread that holds no lock.
LEMMA QuietEnv ==
    ASSUME TypeOK, LockInv, SandboxInv,
           \A r \in RuntimeId, j \in Kind : Runs(r, j)' => Runs(r, j),
           UNCHANGED <<pc, target, state, sandboxId>>
    PROVE  SandboxInv'
<1>1. ASSUME NEW p \in Proc PROVE Knows(p)'
  <2>1. CASE pc[p] \in Locked
    <3>1. target[p] \in RuntimeId
      BY <2>1 DEF LockInv, Locked, NoTarget
    <3>2. PICK t \in RuntimeId : target[p] = t
      BY <3>1
    <3> QED BY <3>2 DEF SandboxInv, Knows
  <2>2. CASE pc[p] \notin Locked
    BY <2>2 DEF Knows, Locked, Installing, Serving, Cleaned
  <2> QED BY <2>1, <2>2
<1> QED BY <1>1 DEF SandboxInv

\* The provider call of stop() and kill().
LEMMA EndCallSandbox ==
    ASSUME TypeOK, LockInv, SandboxInv, NEW p \in Proc,
           NEW label \in Locked, NEW next \in Cleaned,
           EndCall(p, label, next), state[target[p]] \in State
    PROVE  SandboxInv'
<1>1. pc[p] \in Locked /\ target[p] \in RuntimeId
  BY DEF EndCall, LockInv, Locked, NoTarget
<1>2. CASE End(p, next)
  BY <1>1, <1>2, EndStep DEF EndCall, records, local
<1>3. CASE EndRaises(p)
  <2>1. sandboxId[target[p]] \in Kind /\ TeardownRaises(Recorded(p))
    BY <1>1, <1>3 DEF EndRaises, TypeOK
  <2>2. \A r \in RuntimeId, j \in Kind : Runs(r, j)' => Runs(r, j)
    BY <1>1, <2>1, RaisesStartNothing DEF Recorded
  <2>3. PICK idle \in {"idle"} : pc' = [pc EXCEPT ![p] = idle]
    BY <1>3 DEF EndRaises, Raise, Goto
  <2>4. /\ idle \notin {"installCreate", "devCreate"} /\ idle \notin Cleaned
        /\ idle \notin Installing /\ idle \notin Serving
    BY DEF Installing, Serving, Cleaned
  <2>5. state' = state /\ target' = target /\ sandboxId' = sandboxId
    BY DEF EndCall, records, local
  <2> QED BY <1>1, <2>2, <2>3, <2>4, <2>5, QuietStep
<1> QED BY <1>2, <1>3 DEF EndCall

\* A thread that only begins, leaves or waits for an operation.
Elsewhere == Unlocked \cup {"stopCall", "killCall", "destroyCall", "crashCall"}

LEMMA MovesSandbox ==
    ASSUME TypeOK, LockInv, SandboxInv,
           UNCHANGED <<state, sandboxId, sandbox>>,
           \A p \in Proc : \/ pc'[p] = pc[p] /\ target'[p] = target[p]
                          \/ pc'[p] \in Elsewhere
    PROVE  SandboxInv'
<1>1. ASSUME NEW p \in Proc PROVE Knows(p)'
  <2>1. CASE pc'[p] = pc[p] /\ target'[p] = target[p]
    BY <2>1 DEF SandboxInv, Knows, Runs
  <2>2. CASE pc'[p] \in Elsewhere
    BY <2>2 DEF Knows, Elsewhere, Unlocked, Installing, Serving, Cleaned
  <2> QED BY <2>1, <2>2
<1> QED BY <1>1 DEF SandboxInv, Runs

LEMMA SandboxInit == Init => SandboxInv
BY DEF Init, SandboxInv, Knows, Runs, Sandbox, Installing, Serving, Cleaned

LEMMA SandboxInvStep ==
    ASSUME TypeOK, LockInv, PhaseInv, SandboxInv, [Next]_vars PROVE SandboxInv'
<1>1. ASSUME NEW p \in Proc, NEW r \in RuntimeId, Create(p, r)
      PROVE  SandboxInv'
  BY <1>1, RuntimeManagerAssumption, Labels
  DEF Create, Idle, Admit, Save, TypeOK, LockInv, PhaseInv, SandboxInv, Knows,
      Runs, NoTarget, Starting, Installing, Serving, Ending, Cleaned, Kind,
      local, records, Proc
<1>2. ASSUME NEW p \in Proc, NEW r \in RuntimeId, StartBegin(p, r)
      PROVE  SandboxInv'
  BY <1>2, RuntimeManagerAssumption, Labels
  DEF StartBegin, Goto, Idle, Lock, Call, Save, TypeOK, LockInv, PhaseInv,
      SandboxInv, Knows, Runs, NoTarget, Starting, Installing, Serving,
      Ending, Cleaned, Kind, local, records, Proc, State
<1>3. ASSUME NEW p \in Proc, InstallCreate(p)
      PROVE  SandboxInv'
  BY <1>3, MakeSandboxStep DEF InstallCreate, SandboxStep, local, Kind
<1>4. ASSUME NEW p \in Proc, InstallStart(p)
      PROVE  SandboxInv'
  <2>1. PICK label \in {"installWait", "installBad"} : Goto(p, label)
    BY <1>4 DEF InstallStart
  <2>2. label \in Installing
    BY DEF Installing
  <2>3. \/ Becomes(<<target[p], "install">>, "running")
        \/ StartRaises(<<target[p], "install">>)
    BY <1>4 DEF InstallStart
  <2>4. /\ pc[p] = "installStart"
        /\ pc' = [pc EXCEPT ![p] = label]
        /\ state' = state /\ target' = target /\ sandboxId' = sandboxId
    BY <1>4, <2>1 DEF InstallStart, Goto, SandboxStep, local
  <2> QED BY <2>2, <2>3, <2>4, Words, StartSandboxStep
<1>5. ASSUME NEW p \in Proc, InstallWait(p)
      PROVE  SandboxInv'
  <2>1. /\ pc[p] \in Locked
        /\ target[p] \in RuntimeId
        /\ state[target[p]] = "starting"
    BY <1>5 DEF InstallWait, PhaseInv, LockInv, Locked, NoTarget, Starting, Installing
  <2>2. \A r \in RuntimeId, j \in Kind : Runs(r, j)' => Runs(r, j)
    <3>1. CASE Becomes(<<target[p], "install">>, "exited")
      BY <2>1, <3>1, Ends DEF Kind
    <3>2. CASE UNCHANGED sandbox
      BY <3>2 DEF Runs
    <3> QED BY <1>5, <3>1, <3>2 DEF InstallWait
  <2>3. sandboxId[target[p]] = "install"
    BY <1>5 DEF InstallWait, SandboxInv, Knows, Installing
  <2>4. PICK label \in {"installDone", "installBad"} : Goto(p, label)
    BY <1>5 DEF InstallWait
  <2>5. /\ pc' = [pc EXCEPT ![p] = label]
        /\ state' = state /\ target' = target /\ sandboxId' = sandboxId
    BY <1>5, <2>4 DEF InstallWait, Goto, SandboxStep, local
  <2>6. /\ label \notin {"installCreate", "devCreate"}
        /\ label \notin Serving /\ label \notin Cleaned
    BY <2>4 DEF Serving, Cleaned
  <2>7. state[target[p]] \in State /\ state'[target[p]] \in State
    BY <2>1, <2>5, Words
  <2> QED BY <2>1, <2>2, <2>3, <2>5, <2>6, <2>7, QuietStep
<1>6. ASSUME NEW p \in Proc, InstallDestroy(p)
      PROVE  SandboxInv'
  <2>1. PICK label \in {"devCreate", "fail"} : Goto(p, label)
    BY <1>6 DEF InstallDestroy
  <2>2. pc[p] \in Installing
    BY <1>6 DEF InstallDestroy, Installing
  <2>3. \/ Becomes(<<target[p], "install">>, "gone") /\ Record(p, "none")
        \/ /\ DestroyRaises(<<target[p], "install">>) \/ TeardownRaises(<<target[p], "install">>)
           /\ UNCHANGED sandboxId /\ label = "fail"
    BY <1>6, <2>1 DEF InstallDestroy, Goto, TypeOK
  <2>4. /\ pc' = [pc EXCEPT ![p] = label]
        /\ state' = state /\ target' = target
    BY <1>6, <2>1 DEF InstallDestroy, Goto, SandboxStep, local
  <2> QED BY <2>1, <2>2, <2>3, <2>4, Words, RemoveStep
<1>7. ASSUME NEW p \in Proc, DevCreate(p)
      PROVE  SandboxInv'
  BY <1>7, MakeSandboxStep DEF DevCreate, SandboxStep, local, Kind
<1>8. ASSUME NEW p \in Proc, DevStart(p)
      PROVE  SandboxInv'
  <2>1. PICK label \in {"probe", "devAbort"} : Goto(p, label)
    BY <1>8 DEF DevStart
  <2>2. label \in Serving
    BY DEF Serving
  <2>3. \/ Becomes(<<target[p], "dev">>, "running")
        \/ StartRaises(<<target[p], "dev">>)
    BY <1>8 DEF DevStart
  <2>4. /\ pc[p] = "devStart"
        /\ pc' = [pc EXCEPT ![p] = label]
        /\ state' = state /\ target' = target /\ sandboxId' = sandboxId
    BY <1>8, <2>1 DEF DevStart, Goto, SandboxStep, local
  <2> QED BY <2>2, <2>3, <2>4, Words, StartSandboxStep
<1>9. ASSUME NEW p \in Proc, DevAbort(p)
      PROVE  SandboxInv'
  <2>1. PICK label \in {"devCreate", "fail"} : Goto(p, label)
    BY <1>9 DEF DevAbort
  <2>2. pc[p] \in Serving
    BY <1>9 DEF DevAbort, Serving
  <2>3. \/ Becomes(<<target[p], "dev">>, "gone") /\ Record(p, "none")
        \/ /\ DestroyRaises(<<target[p], "dev">>) \/ TeardownRaises(<<target[p], "dev">>)
           /\ UNCHANGED sandboxId /\ label = "fail"
    BY <1>9, <2>1 DEF DevAbort, Goto, TypeOK
  <2>4. /\ pc' = [pc EXCEPT ![p] = label]
        /\ state' = state /\ target' = target
    BY <1>9, <2>1 DEF DevAbort, Goto, SandboxStep, local
  <2> QED BY <2>1, <2>2, <2>3, <2>4, Words, RemoveStep
<1>10. ASSUME NEW p \in Proc, Teardown(p)
      PROVE  SandboxInv'
  <2>1. PICK label \in {"devCreate", "fail"} : Goto(p, label)
    BY <1>10 DEF Teardown
  <2>2. pc[p] \in Serving
    BY <1>10 DEF Teardown, Serving
  <2>3. \/ Becomes(<<target[p], "dev">>, "gone") /\ Record(p, "none")
        \/ /\ DestroyRaises(<<target[p], "dev">>) \/ TeardownRaises(<<target[p], "dev">>)
           /\ UNCHANGED sandboxId /\ label = "fail"
    BY <1>10, <2>1 DEF Teardown, Goto, TypeOK
  <2>4. /\ pc' = [pc EXCEPT ![p] = label]
        /\ state' = state /\ target' = target
    BY <1>10, <2>1 DEF Teardown, Goto, SandboxStep, local
  <2> QED BY <2>1, <2>2, <2>3, <2>4, Words, RemoveStep
<1>11. ASSUME NEW p \in Proc, Healthy(p)
      PROVE  SandboxInv'
  <2>1. /\ pc[p] \in Locked
        /\ target[p] \in RuntimeId
        /\ state[target[p]] = "starting"
    BY <1>11 DEF Healthy, PhaseInv, LockInv, Locked, NoTarget, Starting, Serving
  <2>2. PICK r \in RuntimeId : r = target[p]
    BY <2>1
  <2>3. PICK label \in {"idle"} : Goto(p, label)
    BY <1>11 DEF Healthy
  <2>4. label \notin Installing \cup Serving \cup Cleaned \cup {"installCreate", "devCreate"}
    BY DEF Installing, Serving, Cleaned
  <2>5. /\ pc' = [pc EXCEPT ![p] = label]
        /\ state' = [state EXCEPT ![r] = "running"]
        /\ target' = target /\ sandboxId' = sandboxId /\ sandbox' = sandbox
    BY <1>11, <2>2, <2>3 DEF Healthy, Goto, Save, local
  <2>6. \A q \in RuntimeId, j \in Kind : Runs(q, j)' => Runs(q, j)
    BY <2>5 DEF Runs
  <2>7. /\ state[r] \in State /\ state'[r] \in State /\ state'[r] # "created"
        /\ \A q \in RuntimeId : q # r => state'[q] = state[q]
    BY <2>1, <2>2, <2>5, Words DEF TypeOK
  <2> QED BY <2>1, <2>2, <2>4, <2>5, <2>6, <2>7, QuietStep
<1>12. ASSUME NEW p \in Proc, Unhealthy(p)
      PROVE  SandboxInv'
  <2>1. PICK label \in {"teardown", "fail"} : Goto(p, label)
    BY <1>12 DEF Unhealthy
  <2>2. /\ pc[p] \in Locked
        /\ target[p] \in RuntimeId
        /\ state[target[p]] = "starting"
        /\ sandboxId[target[p]] = "dev"
    BY <1>12
    DEF Unhealthy, PhaseInv, LockInv, Locked, NoTarget, Starting, Serving,
        SandboxInv, Knows
  <2>3. PICK r \in RuntimeId : r = target[p]
    BY <2>2
  <2>4. /\ pc' = [pc EXCEPT ![p] = label]
        /\ state' = state
        /\ target' = target /\ sandboxId' = sandboxId /\ sandbox' = sandbox
    BY <1>12, <2>1 DEF Unhealthy, Goto, local, records
  <2>5. label \notin Installing \cup Cleaned \cup {"installCreate", "devCreate"}
    BY DEF Installing, Cleaned
  <2>6. \A q \in RuntimeId, j \in Kind : Runs(q, j)' => Runs(q, j)
    BY <2>4 DEF Runs
  <2> QED BY <2>2, <2>3, <2>4, <2>5, <2>6, Words, QuietStep
<1>13. ASSUME NEW p \in Proc, Fail(p)
      PROVE  SandboxInv'
  <2>1. PICK label \in {"idle", "release"} : Goto(p, label)
    BY <1>13 DEF Fail, Raise
  <2>2. /\ pc[p] \in Locked
        /\ target[p] \in RuntimeId
        /\ state[target[p]] = "starting"
    BY <1>13 DEF Fail, PhaseInv, LockInv, Locked, NoTarget, Starting, Serving
  <2>3. PICK r \in RuntimeId : r = target[p]
    BY <2>2
  <2>4. /\ pc' = [pc EXCEPT ![p] = label]
        /\ state' = [state EXCEPT ![r] = "failed"]
        /\ target' = target /\ sandboxId' = sandboxId /\ sandbox' = sandbox
    BY <1>13, <2>1, <2>3 DEF Fail, Goto, MarkFailed, Save, local
  <2>5. label = "release" => sandboxId[r] = "none"
    BY <1>13, <2>1, <2>3 DEF Fail, Raise, Goto, FailKeepsLease, TypeOK
  <2>6. label = "release" => \A j \in Kind : ~Runs(r, j)'
    BY <2>2, <2>3, <2>4, <2>5 DEF SandboxInv, Runs, Kind
  <2>7. /\ label \notin Installing \cup Serving \cup {"installCreate", "devCreate"}
        /\ label \in Cleaned => label = "release"
    BY DEF Installing, Serving, Cleaned
  <2>8. \A q \in RuntimeId, j \in Kind : Runs(q, j)' => Runs(q, j)
    BY <2>4 DEF Runs
  <2>9. /\ state[r] \in State /\ state'[r] \in State /\ state'[r] # "created"
        /\ \A q \in RuntimeId : q # r => state'[q] = state[q]
    BY <2>2, <2>3, <2>4, Words DEF TypeOK
  <2> QED BY <2>2, <2>3, <2>4, <2>6, <2>7, <2>8, <2>9, QuietStep
<1>14. ASSUME NEW p \in Proc, Release(p)
      PROVE  SandboxInv'
  BY <1>14, RuntimeManagerAssumption, Labels
  DEF Release, Goto, Unlock, Return, LeaseAfter, TypeOK, LockInv, PhaseInv,
      SandboxInv, Knows, Runs, NoTarget, Starting, Installing, Serving,
      Ending, Cleaned, Kind, local, records
<1>15. ASSUME NEW p \in Proc, ExpirySave(p)
      PROVE  SandboxInv'
  BY <1>15, RuntimeManagerAssumption, Labels
  DEF ExpirySave, Goto, Save, TypeOK, LockInv, PhaseInv, SandboxInv, Knows,
      Runs, NoTarget, Starting, Installing, Serving, Ending, Cleaned, Kind,
      local, records
<1>16. ASSUME NEW p \in Proc, NEW r \in RuntimeId,
              \/ StopBegin(p, r)
              \/ KillBegin(p, r)
              \/ DestroyBegin(p, r)
      PROVE  SandboxInv'
  <2>1. UNCHANGED <<state, sandboxId, sandbox>>
    BY <1>16 DEF StopBegin, Begin, KillBegin, DestroyBegin, records
  <2>2. \A q \in Proc : \/ pc'[q] = pc[q] /\ target'[q] = target[q]
                      \/ pc'[q] \in Elsewhere
    BY <1>16, Labels
    DEF StopBegin, Idle, Call, Begin, Goto, Lock, KillBegin, DestroyBegin,
        local, TypeOK, Proc, Elsewhere
  <2> QED BY <2>1, <2>2, MovesSandbox
<1>17. ASSUME NEW p \in Proc, StopCall(p)
      PROVE  SandboxInv'
  <2>1. state[target[p]] \in State
    BY <1>17 DEF StopCall, EndCall, PhaseInv, Ending, Active
  <2> QED BY <1>17, <2>1, Labels, EndCallSandbox DEF StopCall, Cleaned
<1>18. ASSUME NEW p \in Proc, KillCall(p)
      PROVE  SandboxInv'
  <2>1. state[target[p]] \in State
    BY <1>18 DEF KillCall, EndCall, PhaseInv, Ending, Active
  <2> QED BY <1>18, <2>1, Labels, EndCallSandbox DEF KillCall, Cleaned
<1>19. ASSUME NEW p \in Proc, DestroyCall(p)
      PROVE  SandboxInv'
  <2>1. /\ pc[p] \in Locked
        /\ target[p] \in RuntimeId
        /\ state[target[p]] \in State
    BY <1>19 DEF DestroyCall, PhaseInv, LockInv, Locked, NoTarget, State
  <2>2. CASE End(p, "destroySave")
    BY <1>19, <2>1, <2>2, EndStep DEF DestroyCall, records, local, Cleaned
  <2>3. CASE ~End(p, "destroySave")
    <3>1. /\ sandboxId[target[p]] \in Kind
          /\ TeardownRaises(Recorded(p)) \/ DestroyRaises(Recorded(p))
      BY <1>19, <2>1, <2>3 DEF DestroyCall, TypeOK, DestroyRaisesOrEnds
    <3>2. \A r \in RuntimeId, j \in Kind : Runs(r, j)' => Runs(r, j)
      BY <2>1, <3>1, RaisesStartNothing DEF Recorded
    <3>3. PICK label : /\ pc' = [pc EXCEPT ![p] = label]
                       /\ label \notin {"installCreate", "devCreate"}
                       /\ label \notin Installing
                       /\ label \notin Serving
                       /\ label \notin Cleaned
      BY <1>19, <2>3 DEF DestroyCall, DestroyRaisesOrEnds, Raise, Goto, Installing, Serving, Cleaned
    <3>4. /\ state'[target[p]] \in State
          /\ \A r \in RuntimeId : r # target[p] => state'[r] = state[r]
          /\ state'[target[p]] = "created" => state[target[p]] = "created"
          /\ target' = target /\ sandboxId' = sandboxId
      BY <1>19, <2>1, <2>3, Words DEF DestroyCall, records, local
    <3> QED
      BY <2>1, <3>2, <3>3, <3>4, QuietStep
  <2> QED BY <2>2, <2>3
<1>20. ASSUME NEW p \in Proc, CrashCall(p)
      PROVE  SandboxInv'
  <2>1. /\ pc[p] \in Locked
        /\ target[p] \in RuntimeId
        /\ state[target[p]] \in State
    BY <1>20 DEF CrashCall, PhaseInv, LockInv, Locked, NoTarget, Ending, Active
  <2>2. CASE End(p, "crashSave") /\ UNCHANGED state
    BY <1>20, <2>1, <2>2, EndStep DEF CrashCall, records, local, Cleaned
  <2>3. CASE ~(End(p, "crashSave") /\ UNCHANGED state)
    <3>1. /\ sandboxId[target[p]] \in Kind
          /\ TeardownRaises(Recorded(p)) \/ DestroyRaises(Recorded(p))
      BY <1>20, <2>1, <2>3 DEF CrashCall, TypeOK
    <3>2. \A r \in RuntimeId, j \in Kind : Runs(r, j)' => Runs(r, j)
      BY <2>1, <3>1, RaisesStartNothing DEF Recorded
    <3>3. PICK label : /\ pc' = [pc EXCEPT ![p] = label]
                       /\ label \notin {"installCreate", "devCreate"}
                       /\ label \notin Installing
                       /\ label \notin Serving
                       /\ label \notin Cleaned
      BY <1>20, <2>3 DEF CrashCall, Return, Goto, Installing, Serving, Cleaned
    <3>4. /\ state'[target[p]] \in State
          /\ \A r \in RuntimeId : r # target[p] => state'[r] = state[r]
          /\ state'[target[p]] = "created" => state[target[p]] = "created"
          /\ target' = target /\ sandboxId' = sandboxId
      BY <1>20, <2>1, <2>3, Words DEF CrashCall, records, local, Save, TypeOK
    <3> QED
      BY <2>1, <3>2, <3>3, <3>4, QuietStep
  <2> QED BY <2>2, <2>3
<1>21. ASSUME NEW p \in Proc,
              \/ StopSave(p)
              \/ Stopped(p)
              \/ KillSave(p)
              \/ DestroySave(p)
              \/ CrashSave(p)
      PROVE  SandboxInv'
  BY <1>21, RuntimeManagerAssumption, Labels
  DEF StopSave, Move, CanTransition, Active, State, Terminal, Resting,
      Productive, Goto, Save, Stopped, KillSave, DestroySave, CrashSave,
      TypeOK, LockInv, PhaseInv, SandboxInv, Knows, Runs, NoTarget, Starting,
      Installing, Serving, Ending, Cleaned, Kind, local, records
<1>22. ASSUME NEW p \in Proc, NEW r \in RuntimeId,
              \/ RestartOfDestroyed(p, r)
              \/ HealthRead(p, r)
      PROVE  SandboxInv'
  <2>1. UNCHANGED <<state, sandboxId, sandbox>>
    BY <1>22 DEF RestartOfDestroyed, HealthRead, records
  <2>2. \A q \in Proc : \/ pc'[q] = pc[q] /\ target'[q] = target[q]
                      \/ pc'[q] \in Elsewhere
    BY <1>22, Labels
    DEF RestartOfDestroyed, Goto, Idle, Call, HealthRead, local, TypeOK, Proc,
        Elsewhere
  <2> QED BY <2>1, <2>2, MovesSandbox
<1>23. ASSUME NEW p \in Proc, NEW r \in RuntimeId, RestartCreate(p, r)
      PROVE  SandboxInv'
  BY <1>23, RuntimeManagerAssumption, Labels
  DEF RestartCreate, Goto, Call, Admit, Save, TypeOK, LockInv, PhaseInv,
      SandboxInv, Knows, Runs, NoTarget, Starting, Installing, Serving,
      Ending, Cleaned, Kind, local, records, Proc
<1>24. ASSUME NEW p \in Proc,
              \/ StartRefused(p)
              \/ RestartBusy(p)
              \/ ExpiryTooLate(p)
              \/ HealthCheck(p)
              \/ CrashHandled(p)
              \/ CrashBegin(p)
      PROVE  SandboxInv'
  <2>1. UNCHANGED <<state, sandboxId, sandbox>>
    BY <1>24 DEF StartRefused, RestartBusy, ExpiryTooLate, HealthCheck,
           CrashHandled, CrashBegin, Begin, records
  <2>2. \A q \in Proc : \/ pc'[q] = pc[q] /\ target'[q] = target[q]
                      \/ pc'[q] \in Elsewhere
    BY <1>24, Labels
    DEF StartRefused, Goto, RestartBusy, ExpiryTooLate, HealthCheck,
        CrashHandled, Return, CrashBegin, Begin, Lock, local, TypeOK, Proc,
        Elsewhere
  <2> QED BY <2>1, <2>2, MovesSandbox
<1>25. ASSUME NEW p \in Proc,
              \/ ReconcileRead(p)
              \/ ReconcileEnd(p)
              \/ OrphanRead(p)
              \/ OrphanList(p)
              \/ OrphanEnd(p)
      PROVE  SandboxInv'
  <2>1. UNCHANGED <<state, sandboxId, sandbox>>
    BY <1>25 DEF ReconcileRead, ReconcileEnd, OrphanRead, OrphanList, Sandbox, Kind,
           OrphanEnd, records
  <2>2. \A q \in Proc : \/ pc'[q] = pc[q] /\ target'[q] = target[q]
                      \/ pc'[q] \in Elsewhere
    BY <1>25, Labels
    DEF ReconcileRead, Goto, Idle, ReconcileEnd, OrphanRead, OrphanList,
        Sandbox, Kind, OrphanEnd, local, TypeOK, Proc, Elsewhere
  <2> QED BY <2>1, <2>2, MovesSandbox
<1>26. ASSUME NEW p \in Proc, NEW x \in Sandbox, ReconcileStep(p, x)
      PROVE  SandboxInv'
  <2>1. UNCHANGED <<state, sandboxId, sandbox>>
    BY <1>26 DEF ReconcileStep, records
  <2>2. \A q \in Proc : \/ pc'[q] = pc[q] /\ target'[q] = target[q]
                      \/ pc'[q] \in Elsewhere
    BY <1>26, Labels
    DEF ReconcileStep, Goto, local, TypeOK, Proc, Elsewhere
  <2> QED BY <2>1, <2>2, MovesSandbox
<1>27. ASSUME NEW p \in Proc, NEW x \in Sandbox, OrphanDestroy(p, x)
      PROVE  SandboxInv'
  <2>1. PICK r \in RuntimeId, k \in Kind : x = <<r, k>>
    BY DEF Sandbox
  <2>2. \A q \in RuntimeId, j \in Kind : Runs(q, j)' => Runs(q, j)
    BY <1>27, <2>1, Ends, RaisesStartNothing DEF OrphanDestroy
  <2>3. UNCHANGED <<pc, target, state, sandboxId>>
    BY <1>27 DEF OrphanDestroy, records
  <2> QED BY <2>2, <2>3, QuietEnv
<1>28. ASSUME NEW r \in RuntimeId, ExpiryFires(r)
      PROVE  SandboxInv'
  <2>1. UNCHANGED <<state, sandboxId, sandbox>>
    BY <1>28 DEF ExpiryFires, records
  <2>2. \A q \in Proc : \/ pc'[q] = pc[q] /\ target'[q] = target[q]
                      \/ pc'[q] \in Elsewhere
    BY <1>28, Labels
    DEF ExpiryFires, Goto, Call, local, TypeOK, Proc, Elsewhere
  <2> QED BY <2>1, <2>2, MovesSandbox
<1>29. ASSUME NEW x \in Sandbox, SandboxExits(x)
      PROVE  SandboxInv'
  <2>1. PICK r \in RuntimeId, k \in Kind : x = <<r, k>>
    BY DEF Sandbox
  <2>2. \A q \in RuntimeId, j \in Kind : Runs(q, j)' => Runs(q, j)
    BY <1>29, <2>1, Ends DEF SandboxExits
  <2>3. UNCHANGED <<pc, target, state, sandboxId>>
    BY <1>29 DEF SandboxExits, records, local
  <2> QED BY <2>2, <2>3, QuietEnv
<1>30. ASSUME ProcessDies
      PROVE  SandboxInv'
  BY <1>30
  DEF ProcessDies, Proc, SandboxInv, Knows, Runs, Installing, Serving, Cleaned
<1>31. CASE UNCHANGED vars
  BY <1>31 DEF vars, SandboxInv, Knows, Runs
<1> QED
  BY <1>1, <1>2, <1>3, <1>4, <1>5, <1>6, <1>7, <1>8, <1>9, <1>10, <1>11,
     <1>12, <1>13, <1>14, <1>15, <1>16, <1>17, <1>18, <1>19, <1>20, <1>21,
     <1>22, <1>23, <1>24, <1>25, <1>26, <1>27, <1>28, <1>29, <1>30, <1>31
  DEF Next, Request, Continue, Proc

-----------------------------------------------------------------------------
(* Leases and the reasons to hold them.                                    *)

\* A step that moves no lease and takes no lease's reason away.
LEMMA LeaseKept ==
    ASSUME TypeOK, LeaseInv, lease' = lease,
           \A r \in RuntimeId : state'[r] \in Active => state[r] \in Active,
           \A r \in RuntimeId : state'[r] # "lost" => state[r] # "lost",
           \A r \in RuntimeId, k \in Kind :
              Runs(r, k)' => Runs(r, k) \/ state[r] \in Active,
           \A r \in RuntimeId : Needs(r) => Needs(r)'
    PROVE  LeaseInv'
<1>1. LeaseHeld'
  BY DEF LeaseInv, LeaseHeld
<1>2. \A r \in RuntimeId, k \in Kind :
         Runs(r, k)' /\ state'[r] # "lost" => lease'[WorkspaceOf[r]] = r
  BY DEF LeaseInv, LeaseHeld
<1>3. \A w \in Workspace : lease'[w] # None => WorkspaceOf[lease'[w]] = w
  BY DEF LeaseInv
<1>4. NoLeakedLease'
  <2>1. SUFFICES ASSUME NEW w \in Workspace, lease[w] # None PROVE Needs(lease[w])'
    BY DEF NoLeakedLease
  <2>2. PICK r \in RuntimeId : r = lease[w]
    BY <2>1 DEF TypeOK
  <2>3. Needs(r)'
    BY <2>1, <2>2 DEF LeaseInv, NoLeakedLease
  <2> QED BY <2>2, <2>3 DEF Needs
<1> QED BY <1>1, <1>2, <1>3, <1>4 DEF LeaseInv

\* create(), alone or inside restart().
LEMMA LeaseTaken ==
    ASSUME TypeOK, LockInv, PhaseInv, SandboxInv, LeaseInv,
           NEW r \in RuntimeId, Admit(r),
           UNCHANGED <<sandboxId, sandbox>>,
           \A p \in Proc : pc[p] = "release" => pc'[p] = "release" /\ target'[p] = target[p]
    PROVE  LeaseInv'
<1> DEFINE w == WorkspaceOf[r]
<1>1. w \in Workspace /\ lease[w] = None /\ state[r] = "absent" /\ r # None
  BY RuntimeManagerAssumption DEF Admit, Proc
<1>2. \A v \in Workspace : lease'[v] = IF v = w THEN r ELSE lease[v]
  BY DEF Admit, TypeOK
<1>3. \A q \in RuntimeId : state'[q] = IF q = r THEN "created" ELSE state[q]
  BY DEF Admit, Save, TypeOK
<1>4. \A q \in RuntimeId : state[q] \in Active => WorkspaceOf[q] # w
  BY <1>1, RuntimeManagerAssumption DEF LeaseInv, LeaseHeld, Proc
<1>5. \A q \in RuntimeId, k \in Kind : Runs(q, k)' <=> Runs(q, k)
  BY DEF Runs
<1>6. \A q \in RuntimeId, k \in Kind : Runs(q, k) /\ state[q] # "lost" => WorkspaceOf[q] # w
  BY <1>1, RuntimeManagerAssumption DEF LeaseInv, Proc
<1>7. \A k \in Kind : ~Runs(r, k)
  BY <1>1, <1>6
<1>8. LeaseHeld'
  BY <1>2, <1>3, <1>4, RuntimeManagerAssumption DEF LeaseInv, LeaseHeld
<1>9. \A q \in RuntimeId, k \in Kind :
         Runs(q, k)' /\ state'[q] # "lost" => lease'[WorkspaceOf[q]] = q
  BY <1>2, <1>3, <1>5, <1>6, <1>7, RuntimeManagerAssumption DEF LeaseInv
<1>10. \A v \in Workspace : lease'[v] # None => WorkspaceOf[lease'[v]] = v
  BY <1>2 DEF LeaseInv
<1>11. NoLeakedLease'
  <2>1. SUFFICES ASSUME NEW v \in Workspace, lease'[v] # None PROVE Needs(lease[v])'
    BY DEF NoLeakedLease
  <2>2. CASE v = w
    BY <1>2, <1>3, <2>2 DEF Needs, Active, State, Terminal
  <2>3. CASE v # w
    <3>1. PICK q \in RuntimeId : q = lease[v] /\ q = lease'[v]
      BY <1>2, <2>1, <2>3 DEF TypeOK
    <3>2. Needs(q)
      BY <2>1, <3>1, RuntimeManagerAssumption DEF LeaseInv, NoLeakedLease, Proc
    <3>3. Needs(q)'
      BY <1>3, <1>1, <3>2 DEF Needs, Active, Terminal, State
    <3> QED BY <3>1, <3>3 DEF Needs
  <2> QED BY <2>2, <2>3
<1> QED BY <1>8, <1>9, <1>10, <1>11 DEF LeaseInv

\* _release_slot().
LEMMA LeaseReleased ==
    ASSUME TypeOK, LockInv, PhaseInv, SandboxInv, LeaseInv,
           NEW p \in Proc, Release(p)
    PROVE  LeaseInv'
<1>1. PICK r \in RuntimeId : r = target[p]
  BY DEF Release, LockInv, NoTarget
<1>2. state[r] \in Terminal /\ \A k \in Kind : ~Runs(r, k)
  BY <1>1 DEF Release, PhaseInv, SandboxInv, Knows, Cleaned
<1>3. \A v \in Workspace : lease'[v] = IF lease[v] = r THEN None ELSE lease[v]
  BY <1>1 DEF Release, LeaseAfter
<1>4. UNCHANGED <<state, sandboxId, sandbox, target>>
  BY DEF Release, local
<1>5. \A q \in Proc : q # p => pc'[q] = pc[q]
  BY DEF Release, Goto, TypeOK
<1>6. LeaseHeld'
  BY <1>2, <1>3, <1>4, RuntimeManagerAssumption DEF LeaseInv, LeaseHeld, Active
<1>7. \A q \in RuntimeId, k \in Kind :
         Runs(q, k)' /\ state'[q] # "lost" => lease'[WorkspaceOf[q]] = q
  BY <1>2, <1>3, <1>4, RuntimeManagerAssumption DEF LeaseInv, Runs
<1>8. \A v \in Workspace : lease'[v] # None => WorkspaceOf[lease'[v]] = v
  BY <1>3 DEF LeaseInv
<1>9. NoLeakedLease'
  <2>1. SUFFICES ASSUME NEW v \in Workspace, lease'[v] # None PROVE Needs(lease[v])'
    BY DEF NoLeakedLease
  <2>2. PICK q \in RuntimeId : q = lease[v] /\ q = lease'[v] /\ q # r
    BY <1>3, <2>1 DEF TypeOK
  <2>3. Needs(q)
    BY <2>1, <2>2, RuntimeManagerAssumption DEF LeaseInv, NoLeakedLease, Proc
  <2>4. Needs(q)'
    BY <1>1, <1>4, <1>5, <2>2, <2>3 DEF Needs
  <2> QED BY <2>2, <2>4 DEF Needs
<1> QED BY <1>6, <1>7, <1>8, <1>9 DEF LeaseInv

\* A thread that only begins, leaves or waits for an operation.
LEMMA MovesLease ==
    ASSUME TypeOK, LeaseInv,
           UNCHANGED <<state, sandboxId, lease, sandbox>>,
           \A p \in Proc :
              pc[p] = "release" => pc'[p] = "release" /\ target'[p] = target[p]
    PROVE  LeaseInv'
<1>1. \A r \in RuntimeId : Needs(r) => Needs(r)'
  BY DEF Needs
<1>2. \A r \in RuntimeId, k \in Kind : Runs(r, k)' => Runs(r, k)
  BY DEF Runs
<1> QED BY <1>1, <1>2, LeaseKept

\* The sandbox steps of start(): the runtime is STARTING all along.
LEMMA StartingLease ==
    ASSUME TypeOK, LockInv, PhaseInv, LeaseInv,
           NEW p \in Proc, pc[p] \in Starting, NEW label, Goto(p, label),
           UNCHANGED <<state, lease, target>>,
           \A r \in RuntimeId : r # target[p] => sandboxId'[r] = sandboxId[r],
           \A r \in RuntimeId, k \in Kind :
              r # target[p] => (Runs(r, k)' => Runs(r, k))
    PROVE  LeaseInv'
<1>1. state[target[p]] \in Active /\ pc[p] # "release"
  BY DEF PhaseInv, Active, State, Terminal, Starting, Installing, Serving
<1>2. \A q \in Proc : pc[q] = "release" => pc'[q] = "release"
  BY <1>1 DEF Goto, TypeOK
<1>3. \A r \in RuntimeId : Needs(r) => Needs(r)'
  BY <1>1, <1>2 DEF Needs
<1> QED BY <1>1, <1>3, LeaseKept

\* The provider call of a termination; a _mark_crashed() that raises leaves
\* FAILED with its sandbox still recorded.
LEMMA EndingLease ==
    ASSUME TypeOK, LockInv, LeaseInv, NEW p \in Proc, target[p] \in RuntimeId,
           UNCHANGED <<sandboxId, lease, target>>,
           \/ UNCHANGED sandbox
           \/ /\ sandboxId[target[p]] # "none"
              /\ \/ Becomes(Recorded(p), "gone")
                 \/ TeardownRaises(Recorded(p)) \/ DestroyRaises(Recorded(p)),
           \A r \in RuntimeId :
              \/ state'[r] = state[r]
              \/ r = target[p] /\ state'[r] = "failed" /\ sandboxId[r] # "none"
                 /\ state[r] \in State,
           \A q \in Proc : pc[q] = "release" => pc'[q] = "release"
    PROVE  LeaseInv'
<1>1. \A r \in RuntimeId, k \in Kind : Runs(r, k)' => Runs(r, k)
  <2>1. CASE UNCHANGED sandbox
    BY <2>1 DEF Runs
  <2>2. CASE sandboxId[target[p]] # "none"
    <3>1. sandboxId[target[p]] \in Kind
      BY <2>2 DEF TypeOK
    <3> QED BY <2>1, <3>1, Ends, RaisesStartNothing DEF Recorded
  <2> QED BY <2>1, <2>2
<1>2. \A r \in RuntimeId : state'[r] \in Active => state[r] \in Active
  BY DEF Active, State, Terminal
<1>3. \A r \in RuntimeId : state'[r] # "lost" => state[r] # "lost"
  BY DEF State
<1>4. \A r \in RuntimeId : Needs(r) => Needs(r)'
  BY DEF Needs, Terminal, State
<1> QED BY <1>1, <1>2, <1>3, <1>4, LeaseKept

LEMMA SaveEffect ==
    ASSUME TypeOK, NEW r \in RuntimeId, NEW s, Save(r, s)
    PROVE  \A q \in RuntimeId : state'[q] = IF q = r THEN s ELSE state[q]
BY DEF TypeOK, Save

LEMMA LeaseInit == Init => LeaseInv
BY DEF Init, LeaseInv, LeaseHeld, NoLeakedLease, Needs, Runs, Sandbox, Active, State, Terminal

LEMMA LeaseStep ==
    ASSUME TypeOK, LockInv, PhaseInv, SandboxInv, LeaseInv, [Next]_vars
    PROVE  LeaseInv'
<1>1. ASSUME NEW p \in Proc, NEW r \in RuntimeId, Create(p, r)
      PROVE  LeaseInv'
  BY <1>1, LeaseTaken DEF Create, local
<1>2. ASSUME NEW p \in Proc, NEW r \in RuntimeId, StartBegin(p, r)
      PROVE  LeaseInv'
  <2>1. \A t \in RuntimeId, k \in Kind : Runs(t, k)' => Runs(t, k)
    BY <1>2 DEF StartBegin, Runs
  <2>2. /\ lease' = lease
        /\ \A t \in RuntimeId : state'[t] \in Active => state[t] \in Active
        /\ \A t \in RuntimeId : state'[t] # "lost" => state[t] # "lost"
    BY <1>2 DEF StartBegin, Goto, Idle, Call, Save, local, TypeOK, Active, Terminal, State
  <2>3. \A t \in RuntimeId : Needs(t) => Needs(t)'
    BY <1>2 DEF Needs, StartBegin, Goto, Idle, Call, Save, local, TypeOK, Active, Terminal, State
  <2> QED BY <2>1, <2>2, <2>3, LeaseKept
<1>3. ASSUME NEW p \in Proc,
              \/ InstallCreate(p)
              \/ DevCreate(p)
      PROVE  LeaseInv'
  <2>1. pc[p] \in Starting
    BY <1>3 DEF InstallCreate, DevCreate, Starting, Installing, Serving
  <2>2. target[p] \in RuntimeId
    BY <2>1 DEF LockInv, NoTarget, Starting, Installing, Serving
  <2>3. \E label : Goto(p, label)
    BY <1>3 DEF InstallCreate, DevCreate, MakeSandbox
  <2>4. /\ UNCHANGED <<state, lease, target>>
        /\ \A r \in RuntimeId : r # target[p] => sandboxId'[r] = sandboxId[r]
    BY <1>3 DEF InstallCreate, DevCreate, MakeSandbox, Record, SandboxStep, local,
           TypeOK
  <2>5. \A r \in RuntimeId, k \in Kind : r # target[p] => (Runs(r, k)' => Runs(r, k))
    BY <1>3, <2>2 DEF InstallCreate, MakeSandbox, Becomes, CreateRaises, DevCreate, Runs,
           Sandbox, Kind, TypeOK
  <2> QED BY <2>1, <2>3, <2>4, <2>5, StartingLease
<1>4. ASSUME NEW p \in Proc,
              \/ InstallStart(p)
              \/ DevStart(p)
      PROVE  LeaseInv'
  <2>1. pc[p] \in Starting
    BY <1>4 DEF InstallStart, DevStart, Starting, Installing, Serving
  <2>2. target[p] \in RuntimeId
    BY <2>1 DEF LockInv, NoTarget, Starting, Installing, Serving
  <2>3. \E label : Goto(p, label)
    BY <1>4 DEF InstallStart, DevStart
  <2>4. /\ UNCHANGED <<state, lease, target>>
        /\ \A r \in RuntimeId : r # target[p] => sandboxId'[r] = sandboxId[r]
    BY <1>4 DEF InstallStart, DevStart, SandboxStep, local, TypeOK
  <2>5. \A r \in RuntimeId, k \in Kind : r # target[p] => (Runs(r, k)' => Runs(r, k))
    BY <1>4, <2>2 DEF InstallStart, Becomes, StartRaises, DevStart, Runs, Sandbox, Kind,
           TypeOK
  <2> QED BY <2>1, <2>3, <2>4, <2>5, StartingLease
<1>5. ASSUME NEW p \in Proc, InstallWait(p)
      PROVE  LeaseInv'
  <2>1. pc[p] \in Starting
    BY <1>5 DEF InstallWait, Starting, Installing, Serving
  <2>2. target[p] \in RuntimeId
    BY <2>1 DEF LockInv, NoTarget, Starting, Installing, Serving
  <2>3. \E label : Goto(p, label)
    BY <1>5 DEF InstallWait
  <2>4. /\ UNCHANGED <<state, lease, target>>
        /\ \A r \in RuntimeId : r # target[p] => sandboxId'[r] = sandboxId[r]
    BY <1>5 DEF InstallWait, SandboxStep, local, TypeOK
  <2>5. \A r \in RuntimeId, k \in Kind : r # target[p] => (Runs(r, k)' => Runs(r, k))
    BY <1>5, <2>2 DEF InstallWait, Becomes, Runs, Sandbox, Kind, TypeOK
  <2> QED BY <2>1, <2>3, <2>4, <2>5, StartingLease
<1>6. ASSUME NEW p \in Proc,
              \/ InstallDestroy(p)
              \/ DevAbort(p)
              \/ Teardown(p)
      PROVE  LeaseInv'
  <2>1. pc[p] \in Starting
    BY <1>6 DEF InstallDestroy, DevAbort, Teardown, Starting, Installing, Serving
  <2>2. target[p] \in RuntimeId
    BY <2>1 DEF LockInv, NoTarget, Starting, Installing, Serving
  <2>3. \E label : Goto(p, label)
    BY <1>6 DEF InstallDestroy, DevAbort, Teardown
  <2>4. /\ UNCHANGED <<state, lease, target>>
        /\ \A r \in RuntimeId : r # target[p] => sandboxId'[r] = sandboxId[r]
    BY <1>6 DEF InstallDestroy, DevAbort, Teardown, Record, SandboxStep, local,
           TypeOK
  <2>5. \A r \in RuntimeId, k \in Kind : r # target[p] => (Runs(r, k)' => Runs(r, k))
    BY <1>6, <2>2 DEF InstallDestroy, Becomes, DestroyRaises, DevAbort, Teardown,
           TeardownRaises, Runs, Sandbox, Kind, TypeOK
  <2> QED BY <2>1, <2>3, <2>4, <2>5, StartingLease
<1>7. ASSUME NEW p \in Proc, Healthy(p)
      PROVE  LeaseInv'
  <2>0. target[p] \in RuntimeId /\ state[target[p]] = "starting"
    BY <1>7 DEF Healthy, LockInv, PhaseInv, NoTarget, Starting, Serving
  <2>1. \A t \in RuntimeId, k \in Kind : Runs(t, k)' => Runs(t, k)
    BY <1>7 DEF Healthy, Runs
  <2>2. /\ lease' = lease
        /\ \A t \in RuntimeId : state'[t] \in Active => state[t] \in Active
        /\ \A t \in RuntimeId : state'[t] # "lost" => state[t] # "lost"
    BY <1>7, <2>0 DEF Healthy, Goto, Save, local, TypeOK, Active, Terminal, State
  <2>3. \A t \in RuntimeId : Needs(t) => Needs(t)'
    BY <1>7, <2>0 DEF Needs, Healthy, Goto, Save, local, TypeOK, Active, Terminal, State
  <2> QED BY <2>1, <2>2, <2>3, LeaseKept
<1>8. ASSUME NEW p \in Proc, Fail(p)
      PROVE  LeaseInv'
  <2>1. \A r \in RuntimeId, k \in Kind : Runs(r, k)' => Runs(r, k)
    BY <1>8 DEF Fail, Runs
  <2>2. target[p] \in RuntimeId /\ state[target[p]] = "starting"
    BY <1>8 DEF Fail, LockInv, PhaseInv, NoTarget, Starting
  <2>3. \A r \in RuntimeId : state'[r] = IF r = target[p] THEN "failed" ELSE state[r]
    BY <1>8, <2>2 DEF Fail, MarkFailed, Save, TypeOK
  <2>4. UNCHANGED <<sandboxId, lease, target>>
    BY <1>8 DEF Fail, local
  <2>5. \/ sandboxId[target[p]] # "none"
        \/ pc'[p] = "release"
    BY <1>8 DEF Fail, FailKeepsLease, Goto, TypeOK
  <2>6. \A q \in Proc : pc[q] = "release" => pc'[q] = "release"
    BY <1>8 DEF Fail, Raise, Goto, TypeOK
  <2>7. \A r \in RuntimeId : Needs(r) => Needs(r)'
    BY <2>3, <2>4, <2>5, <2>6 DEF Needs, Terminal
  <2> QED BY <2>1, <2>2, <2>3, <2>4, <2>7, LeaseKept DEF Active, Terminal
<1>9. ASSUME NEW p \in Proc, Release(p)
      PROVE  LeaseInv'
  BY <1>9, LeaseReleased
<1>10. ASSUME NEW p \in Proc, Unhealthy(p)
      PROVE  LeaseInv'
  <2>1. UNCHANGED <<state, sandboxId, lease, sandbox>>
    BY <1>10 DEF Unhealthy, records
  <2>2. \A q \in Proc : 
           pc[q] = "release" => pc'[q] = "release" /\ target'[q] = target[q]
    BY <1>10, RuntimeManagerAssumption
    DEF Unhealthy, Goto, local, TypeOK, Proc
  <2> QED BY <2>1, <2>2, MovesLease
<1>11. ASSUME NEW p \in Proc, NEW r \in RuntimeId,
              \/ StopBegin(p, r)
              \/ KillBegin(p, r)
              \/ DestroyBegin(p, r)
      PROVE  LeaseInv'
  <2>1. UNCHANGED <<state, sandboxId, lease, sandbox>>
    BY <1>11 DEF StopBegin, Begin, KillBegin, DestroyBegin, records
  <2>2. \A q \in Proc : 
           pc[q] = "release" => pc'[q] = "release" /\ target'[q] = target[q]
    BY <1>11, RuntimeManagerAssumption
    DEF StopBegin, Idle, Call, Begin, Goto, Lock, KillBegin, DestroyBegin,
        local, TypeOK, Proc
  <2> QED BY <2>1, <2>2, MovesLease
<1>12. ASSUME NEW p \in Proc, StopCall(p)
      PROVE  LeaseInv'
  <2>1. target[p] \in RuntimeId /\ state[target[p]] \in State
    BY <1>12 DEF StopCall, EndCall, EndRaises, LockInv, PhaseInv, NoTarget, Ending, Active
  <2>2. \/ UNCHANGED sandbox
        \/ /\ sandboxId[target[p]] # "none"
           /\ \/ Becomes(Recorded(p), "gone")
              \/ TeardownRaises(Recorded(p)) \/ DestroyRaises(Recorded(p))
    BY <1>12 DEF StopCall, EndCall, EndRaises, End
  <2>3. UNCHANGED <<sandboxId, lease, target>>
    BY <1>12 DEF StopCall, EndCall, EndRaises, records, local
  <2>4. \A r \in RuntimeId :
           \/ state'[r] = state[r]
           \/ r = target[p] /\ state'[r] = "failed" /\ sandboxId[r] # "none"
              /\ state[r] \in State
    BY <1>12, <2>1 DEF StopCall, EndCall, EndRaises, records
  <2>5. \A q \in Proc : pc[q] = "release" => pc'[q] = "release"
    BY <1>12 DEF StopCall, EndCall, EndRaises, End, Goto, TypeOK, Raise
  <2> QED BY <2>1, <2>2, <2>3, <2>4, <2>5, EndingLease
<1>13. ASSUME NEW p \in Proc, KillCall(p)
      PROVE  LeaseInv'
  <2>1. target[p] \in RuntimeId /\ state[target[p]] \in State
    BY <1>13 DEF KillCall, EndCall, EndRaises, LockInv, PhaseInv, NoTarget, Ending, Active
  <2>2. \/ UNCHANGED sandbox
        \/ /\ sandboxId[target[p]] # "none"
           /\ \/ Becomes(Recorded(p), "gone")
              \/ TeardownRaises(Recorded(p)) \/ DestroyRaises(Recorded(p))
    BY <1>13 DEF KillCall, EndCall, EndRaises, End
  <2>3. UNCHANGED <<sandboxId, lease, target>>
    BY <1>13 DEF KillCall, EndCall, EndRaises, records, local
  <2>4. \A r \in RuntimeId :
           \/ state'[r] = state[r]
           \/ r = target[p] /\ state'[r] = "failed" /\ sandboxId[r] # "none"
              /\ state[r] \in State
    BY <1>13, <2>1 DEF KillCall, EndCall, EndRaises, records
  <2>5. \A q \in Proc : pc[q] = "release" => pc'[q] = "release"
    BY <1>13 DEF KillCall, EndCall, EndRaises, End, Goto, TypeOK, Raise
  <2> QED BY <2>1, <2>2, <2>3, <2>4, <2>5, EndingLease
<1>14. ASSUME NEW p \in Proc, DestroyCall(p)
      PROVE  LeaseInv'
  <2>1. target[p] \in RuntimeId /\ state[target[p]] \in State
    BY <1>14 DEF DestroyCall, DestroyRaisesOrEnds, LockInv, PhaseInv, NoTarget, Ending, Active
  <2>2. \/ UNCHANGED sandbox
        \/ /\ sandboxId[target[p]] # "none"
           /\ \/ Becomes(Recorded(p), "gone")
              \/ TeardownRaises(Recorded(p)) \/ DestroyRaises(Recorded(p))
    BY <1>14 DEF DestroyCall, DestroyRaisesOrEnds, End
  <2>3. UNCHANGED <<sandboxId, lease, target>>
    BY <1>14 DEF DestroyCall, DestroyRaisesOrEnds, records, local
  <2>4. \A r \in RuntimeId :
           \/ state'[r] = state[r]
           \/ r = target[p] /\ state'[r] = "failed" /\ sandboxId[r] # "none"
              /\ state[r] \in State
    BY <1>14, <2>1 DEF DestroyCall, DestroyRaisesOrEnds, records
  <2>5. \A q \in Proc : pc[q] = "release" => pc'[q] = "release"
    BY <1>14 DEF DestroyCall, DestroyRaisesOrEnds, End, Goto, TypeOK, Raise
  <2> QED BY <2>1, <2>2, <2>3, <2>4, <2>5, EndingLease
<1>15. ASSUME NEW p \in Proc, CrashCall(p)
      PROVE  LeaseInv'
  <2>1. target[p] \in RuntimeId /\ state[target[p]] \in State
    BY <1>15 DEF CrashCall, LockInv, PhaseInv, NoTarget, Ending, Active
  <2>2. \/ UNCHANGED sandbox
        \/ /\ sandboxId[target[p]] # "none"
           /\ \/ Becomes(Recorded(p), "gone")
              \/ TeardownRaises(Recorded(p)) \/ DestroyRaises(Recorded(p))
    BY <1>15 DEF CrashCall, End
  <2>3. UNCHANGED <<sandboxId, lease, target>>
    BY <1>15 DEF CrashCall, records, local
  <2>4. \A r \in RuntimeId :
           \/ state'[r] = state[r]
           \/ r = target[p] /\ state'[r] = "failed" /\ sandboxId[r] # "none"
              /\ state[r] \in State
    BY <1>15, <2>1 DEF CrashCall, Save, TypeOK
  <2>5. \A q \in Proc : pc[q] = "release" => pc'[q] = "release"
    BY <1>15 DEF CrashCall, End, Goto, TypeOK, Return
  <2> QED BY <2>1, <2>2, <2>3, <2>4, <2>5, EndingLease
<1>16. ASSUME NEW p \in Proc,
              \/ StopSave(p)
              \/ Stopped(p)
              \/ KillSave(p)
              \/ DestroySave(p)
              \/ CrashSave(p)
      PROVE  LeaseInv'
  <2>1. \A r \in RuntimeId, k \in Kind : Runs(r, k)' => Runs(r, k)
    BY <1>16 DEF StopSave, Stopped, KillSave, DestroySave, CrashSave, Move, Runs
  <2>2. target[p] \in RuntimeId /\ state[target[p]] \in State
    BY <1>16 DEF StopSave, Stopped, KillSave, DestroySave, CrashSave, Move,
              LockInv, PhaseInv, NoTarget, Ending, Active, State
  <2>3. UNCHANGED <<sandboxId, lease, target>>
    BY <1>16 DEF StopSave, Stopped, KillSave, DestroySave, CrashSave, Move, local
  <2>4. PICK s \in State :
           /\ Save(target[p], s)
           /\ s \in Active => state[target[p]] \in Active
           /\ s \in Active \/ pc'[p] = "release"
    BY <1>16, Words DEF StopSave, Stopped, KillSave, DestroySave, CrashSave, Move, Save,
                    Goto, PhaseInv, Ending, Active, Terminal, State, TypeOK
  <2>5. \A q \in Proc : pc[q] = "release" => pc'[q] = "release"
    BY <1>16 DEF StopSave, Stopped, KillSave, DestroySave, CrashSave, Move, Goto, TypeOK
  <2>6. \A r \in RuntimeId : state'[r] = IF r = target[p] THEN s ELSE state[r]
    BY <2>2, <2>4, SaveEffect
  <2>7. \A r \in RuntimeId : Needs(r) => Needs(r)'
    BY <2>3, <2>4, <2>5, <2>6 DEF Needs, Active
  <2> QED BY <2>1, <2>2, <2>3, <2>4, <2>6, <2>7, LeaseKept DEF State
<1>17. ASSUME NEW p \in Proc, ExpirySave(p)
      PROVE  LeaseInv'
  <2>1. target[p] \in RuntimeId /\ state[target[p]] \in {"killed", "destroyed"}
    BY <1>17 DEF ExpirySave, LockInv, PhaseInv, NoTarget
  <2>2. UNCHANGED <<sandboxId, lease, target, sandbox>>
    BY <1>17 DEF ExpirySave, local
  <2>3. \A r \in RuntimeId : state'[r] = IF r = target[p] THEN "killed" ELSE state[r]
    BY <1>17, <2>1 DEF ExpirySave, Save, TypeOK
  <2>4. \A q \in Proc : pc[q] = "release" => pc'[q] = "release"
    BY <1>17 DEF ExpirySave, Goto, TypeOK
  <2>5. \A r \in RuntimeId : Needs(r) => Needs(r)'
    BY <2>1, <2>2, <2>3, <2>4 DEF Needs, Active, State, Terminal
  <2> QED BY <2>1, <2>2, <2>3, <2>5, LeaseKept DEF Runs, Active, State, Terminal
<1>18. ASSUME NEW p \in Proc, NEW r \in RuntimeId,
              \/ RestartOfDestroyed(p, r)
              \/ HealthRead(p, r)
      PROVE  LeaseInv'
  <2>1. UNCHANGED <<state, sandboxId, lease, sandbox>>
    BY <1>18 DEF RestartOfDestroyed, HealthRead, records
  <2>2. \A q \in Proc : 
           pc[q] = "release" => pc'[q] = "release" /\ target'[q] = target[q]
    BY <1>18, RuntimeManagerAssumption
    DEF RestartOfDestroyed, Goto, Idle, Call, HealthRead, local, TypeOK, Proc
  <2> QED BY <2>1, <2>2, MovesLease
<1>19. ASSUME NEW p \in Proc, NEW r \in RuntimeId, RestartCreate(p, r)
      PROVE  LeaseInv'
  <2>1. \A q \in Proc : pc[q] = "release" => pc'[q] = "release" /\ target'[q] = target[q]
    BY <1>19 DEF RestartCreate, Call, Goto, TypeOK
  <2> QED BY <1>19, <2>1, LeaseTaken DEF RestartCreate
<1>20. ASSUME NEW p \in Proc,
              \/ StartRefused(p)
              \/ RestartBusy(p)
              \/ ExpiryTooLate(p)
              \/ HealthCheck(p)
              \/ CrashHandled(p)
              \/ CrashBegin(p)
      PROVE  LeaseInv'
  <2>1. UNCHANGED <<state, sandboxId, lease, sandbox>>
    BY <1>20 DEF StartRefused, RestartBusy, ExpiryTooLate, HealthCheck,
           CrashHandled, CrashBegin, Begin, records
  <2>2. \A q \in Proc : 
           pc[q] = "release" => pc'[q] = "release" /\ target'[q] = target[q]
    BY <1>20, RuntimeManagerAssumption
    DEF StartRefused, Goto, RestartBusy, ExpiryTooLate, HealthCheck,
        CrashHandled, Return, CrashBegin, Begin, Lock, local, TypeOK, Proc
  <2> QED BY <2>1, <2>2, MovesLease
<1>21. ASSUME NEW p \in Proc,
              \/ ReconcileRead(p)
              \/ ReconcileEnd(p)
              \/ OrphanRead(p)
              \/ OrphanList(p)
              \/ OrphanEnd(p)
      PROVE  LeaseInv'
  <2>1. UNCHANGED <<state, sandboxId, lease, sandbox>>
    BY <1>21 DEF ReconcileRead, ReconcileEnd, OrphanRead, OrphanList, Sandbox, Kind,
           OrphanEnd, records
  <2>2. \A q \in Proc : 
           pc[q] = "release" => pc'[q] = "release" /\ target'[q] = target[q]
    BY <1>21, RuntimeManagerAssumption
    DEF ReconcileRead, Goto, Idle, ReconcileEnd, OrphanRead, OrphanList,
        Sandbox, Kind, OrphanEnd, local, TypeOK, Proc
  <2> QED BY <2>1, <2>2, MovesLease
<1>22. ASSUME NEW p \in Proc, NEW x \in Sandbox, ReconcileStep(p, x)
      PROVE  LeaseInv'
  <2>1. UNCHANGED <<state, sandboxId, lease, sandbox>>
    BY <1>22 DEF ReconcileStep, records
  <2>2. \A q \in Proc : 
           pc[q] = "release" => pc'[q] = "release" /\ target'[q] = target[q]
    BY <1>22, RuntimeManagerAssumption
    DEF ReconcileStep, Goto, local, TypeOK, Proc
  <2> QED BY <2>1, <2>2, MovesLease
<1>23. ASSUME NEW p \in Proc, NEW x \in Sandbox, OrphanDestroy(p, x)
      PROVE  LeaseInv'
  <2>1. PICK r \in RuntimeId, k \in Kind : x = <<r, k>>
    BY DEF Sandbox
  <2>2. \A q \in RuntimeId, j \in Kind : Runs(q, j)' => Runs(q, j)
    BY <1>23, <2>1, Ends, RaisesStartNothing DEF OrphanDestroy
  <2>3. UNCHANGED <<pc, target, state, sandboxId, lease>>
    BY <1>23 DEF OrphanDestroy, records, local
  <2>4. \A t \in RuntimeId : Needs(t) => Needs(t)'
    BY <2>3 DEF Needs
  <2> QED BY <2>2, <2>3, <2>4, LeaseKept
<1>24. ASSUME NEW r \in RuntimeId, ExpiryFires(r)
      PROVE  LeaseInv'
  <2>1. UNCHANGED <<state, sandboxId, lease, sandbox>>
    BY <1>24 DEF ExpiryFires, records
  <2>2. \A q \in Proc : 
           pc[q] = "release" => pc'[q] = "release" /\ target'[q] = target[q]
    BY <1>24, RuntimeManagerAssumption
    DEF ExpiryFires, Goto, Call, local, TypeOK, Proc
  <2> QED BY <2>1, <2>2, MovesLease
<1>25. ASSUME NEW x \in Sandbox, SandboxExits(x)
      PROVE  LeaseInv'
  <2>1. PICK r \in RuntimeId, k \in Kind : x = <<r, k>>
    BY DEF Sandbox
  <2>2. \A q \in RuntimeId, j \in Kind : Runs(q, j)' => Runs(q, j)
    BY <1>25, <2>1, Ends, RaisesStartNothing DEF SandboxExits
  <2>3. UNCHANGED <<pc, target, state, sandboxId, lease>>
    BY <1>25 DEF SandboxExits, records, local
  <2>4. \A t \in RuntimeId : Needs(t) => Needs(t)'
    BY <2>3 DEF Needs
  <2> QED BY <2>2, <2>3, <2>4, LeaseKept
<1>26. ASSUME ProcessDies
      PROVE  LeaseInv'
  <2>1. /\ \A r \in RuntimeId : state'[r] \in {"absent", "lost"}
        /\ \A w \in Workspace : lease'[w] = None
    BY <1>26 DEF ProcessDies
  <2>2. \A r \in RuntimeId, k \in Kind : Runs(r, k)' => state'[r] = "lost"
    BY <1>26 DEF ProcessDies, Runs, SandboxInv, Kind
  <2> QED
    BY <2>1, <2>2 DEF LeaseInv, LeaseHeld, NoLeakedLease, Active, State, Terminal
<1>27. CASE UNCHANGED vars
  BY <1>27, MovesLease DEF vars
<1> QED
  BY <1>1, <1>2, <1>3, <1>4, <1>5, <1>6, <1>7, <1>8, <1>9, <1>10, <1>11,
     <1>12, <1>13, <1>14, <1>15, <1>16, <1>17, <1>18, <1>19, <1>20, <1>21,
     <1>22, <1>23, <1>24, <1>25, <1>26, <1>27
  DEF Next, Request, Continue, Proc

-----------------------------------------------------------------------------
(* The invariant and what follows from it.                                 *)

\* The conjunction of the five layers is inductive: every operation of the
\* manager, the expiry timers, a sandbox that ends and a restart of the process
\* preserve it, for any number of callers, runtimes and workspaces.
THEOREM Inductive == Spec => []IInv
<1>1. Init => IInv
  BY TypeInit, LockInit, PhaseInit, SandboxInit, LeaseInit DEF IInv
<1>2. IInv /\ [Next]_vars => IInv'
  BY TypeStep, LockStep, PhaseStep, SandboxInvStep, LeaseStep DEF IInv
<1> QED BY <1>1, <1>2, PTL DEF Spec

\* A runtime that is not terminal holds its workspace's lease
\* (_workspace_active), so a workspace has at most one active runtime.
THEOREM LeaseIsHeld == Spec => []LeaseHeld
<1>1. IInv => LeaseHeld
  BY DEF IInv, LeaseInv
<1> QED BY <1>1, Inductive, PTL

\* At most one sandbox of this process runs on a workspace's files, whatever the
\* provider does and however the threads interleave.
THEOREM Isolation == Spec => []OneSandboxPerWorkspace
<1>1. IInv => OneSandboxPerWorkspace
  <2>1. SUFFICES ASSUME IInv, NEW r \in RuntimeId, NEW q \in RuntimeId,
                        NEW k \in Kind, NEW j \in Kind,
                        Runs(r, k), Tracked(r), Runs(q, j), Tracked(q),
                        WorkspaceOf[r] = WorkspaceOf[q]
                 PROVE  r = q /\ k = j
    BY DEF OneSandboxPerWorkspace
  <2>2. lease[WorkspaceOf[r]] = r /\ lease[WorkspaceOf[q]] = q
    BY <2>1 DEF IInv, LeaseInv, Tracked
  <2>3. sandboxId[r] = k /\ sandboxId[q] = j
    BY <2>1 DEF IInv, SandboxInv, Tracked
  <2> QED BY <2>1, <2>2, <2>3
<1> QED BY <1>1, Inductive, PTL

\* create() never answers WORKSPACE_BUSY for a lease nobody needs.
THEOREM LeasesAreNeeded == Spec => []NoLeakedLease
<1>1. IInv => NoLeakedLease
  BY DEF IInv, LeaseInv
<1> QED BY <1>1, Inductive, PTL

-----------------------------------------------------------------------------
(* The moves of a runtime's state.                                         *)

\* The thread that saves an expired record without the lock is that runtime's
\* own timer: whom it kills was settled when it fired.
ExpiryInv == \A p \in Proc :
    /\ then[p] = "expire" => target[p] = p
    /\ pc[p] \in {"killLock", "expireSave"} => then[p] = "expire"

LEMMA ExpiryInit == Init => ExpiryInv
BY DEF Init, ExpiryInv

LEMMA ExpiryKept ==
    ASSUME TypeOK, ExpiryInv, NEW p \in Proc, NEW label,
           pc' = [pc EXCEPT ![p] = label], then' = then, target' = target,
           label \in {"killLock", "expireSave"} =>
              pc[p] \in {"killLock", "expireSave"} \/ then[p] = "expire"
    PROVE  ExpiryInv'
BY DEF TypeOK, ExpiryInv

LEMMA ExpiryCalled ==
    ASSUME TypeOK, ExpiryInv, NEW p \in Proc, NEW r \in RuntimeId, NEW label,
           NEW caller, Call(p, r, caller), pc' = [pc EXCEPT ![p] = label],
           caller = "expire" => r = p,
           label \in {"killLock", "expireSave"} => caller = "expire"
    PROVE  ExpiryInv'
BY DEF TypeOK, ExpiryInv, Call

LEMMA ExpiryStep ==
    ASSUME TypeOK, LockInv, PhaseInv, ExpiryInv, [Next]_vars PROVE ExpiryInv'
<1>1. ASSUME UNCHANGED <<pc, target, then>> PROVE ExpiryInv'
  BY <1>1 DEF ExpiryInv
<1>2. ASSUME NEW p \in Proc,
             \/ InstallCreate(p) \/ InstallStart(p) \/ InstallWait(p) \/ InstallDestroy(p)
             \/ DevCreate(p) \/ DevStart(p) \/ DevAbort(p) \/ Teardown(p)
      PROVE  ExpiryInv'
  <2>1. PICK label \in {"installStart", "installWait", "installDone", "installBad", "devCreate",
                        "devStart", "devAbort", "probe", "fail"} : Goto(p, label)
    BY <1>2 DEF InstallCreate, InstallStart, InstallWait, InstallDestroy, DevCreate, DevStart,
                DevAbort, Teardown, MakeSandbox
  <2>2. then' = then /\ target' = target
    BY <1>2 DEF InstallCreate, InstallStart, InstallWait, InstallDestroy, DevCreate, DevStart,
                DevAbort, Teardown, SandboxStep, local
  <2> QED BY <2>1, <2>2, ExpiryKept DEF Goto
<1>3. ASSUME NEW p \in Proc,
             \/ Healthy(p) \/ Unhealthy(p) \/ Fail(p) \/ StopSave(p) \/ Stopped(p) \/ KillSave(p)
             \/ DestroySave(p) \/ CrashSave(p) \/ StartRefused(p) \/ RestartBusy(p)
             \/ ExpiryTooLate(p) \/ ExpirySave(p) \/ HealthCheck(p) \/ CrashBegin(p)
      PROVE  ExpiryInv'
  <2>1. PICK label : Goto(p, label) /\ (label = "expireSave" => pc[p] = "killLock")
                     /\ label # "killLock"
    BY <1>3 DEF Healthy, Unhealthy, Fail, Raise, StopSave, Stopped, KillSave, DestroySave,
                CrashSave, Move, StartRefused, RestartBusy, ExpiryTooLate, ExpirySave,
                HealthCheck, CrashBegin, Begin
  <2>2. then' = then /\ target' = target
    BY <1>3 DEF Healthy, Unhealthy, Fail, Raise, StopSave, Stopped, KillSave, DestroySave,
                CrashSave, Move, StartRefused, RestartBusy, ExpiryTooLate, ExpirySave,
                HealthCheck, CrashBegin, local
  <2> QED BY <2>1, <2>2, ExpiryKept DEF Goto
<1>4. ASSUME NEW p \in Proc,
             \/ Release(p) \/ CrashHandled(p) \/ StopCall(p) \/ KillCall(p) \/ DestroyCall(p)
             \/ CrashCall(p)
      PROVE  ExpiryInv'
  <2>1. PICK label : Goto(p, label) /\ (label = "expireSave" => then[p] = "expire")
                     /\ label # "killLock"
    BY <1>4 DEF Release, CrashHandled, StopCall, KillCall, EndCall, DestroyCall, CrashCall, End,
                EndRaises, DestroyRaisesOrEnds, Raise, Return
  <2>2. then' = then /\ target' = target
    BY <1>4 DEF Release, CrashHandled, StopCall, KillCall, EndCall, DestroyCall, CrashCall, local
  <2> QED BY <2>1, <2>2, ExpiryKept DEF Goto
<1>5. ASSUME NEW p \in Proc, NEW r \in RuntimeId,
             \/ StopBegin(p, r) \/ DestroyBegin(p, r) \/ RestartOfDestroyed(p, r)
             \/ RestartCreate(p, r) \/ HealthRead(p, r)
      PROVE  ExpiryInv'
  <2>1. PICK label \in {"stopCall", "destroyCall", "restartCreate", "startLock", "healthCheck"} :
           Goto(p, label)
    BY <1>5 DEF StopBegin, DestroyBegin, Begin, RestartOfDestroyed, RestartCreate, HealthRead
  <2>2. PICK caller \in {"none", "restart"} : Call(p, r, caller)
    BY <1>5 DEF StopBegin, DestroyBegin, RestartOfDestroyed, RestartCreate, HealthRead
  <2> QED BY <2>1, <2>2, ExpiryCalled DEF Goto
<1>6. ASSUME NEW p \in Proc, NEW r \in RuntimeId, StartBegin(p, r) \/ KillBegin(p, r)
      PROVE  ExpiryInv'
  <2>1. PICK label \in {"installCreate", "devCreate", "killCall"} : Goto(p, label)
    BY <1>6 DEF StartBegin, KillBegin, Begin
  <2>2. CASE Call(p, r, "none")
    BY <2>1, <2>2, ExpiryCalled DEF Goto
  <2>3. CASE UNCHANGED local
    BY <2>1, <2>3, ExpiryKept DEF Goto, local
  <2> QED BY <1>6, <2>2, <2>3 DEF StartBegin, KillBegin
<1>7. ASSUME NEW p \in Proc,
             ReconcileRead(p) \/ ReconcileEnd(p) \/ OrphanRead(p) \/ OrphanList(p) \/ OrphanEnd(p)
      PROVE  ExpiryInv'
  <2>1. PICK label \in {"idle", "reconcile", "orphanList", "orphan"} : Goto(p, label)
    BY <1>7 DEF ReconcileRead, ReconcileEnd, OrphanRead, OrphanList, OrphanEnd
  <2>2. target' = target /\ (then' = then \/ then' = [then EXCEPT ![p] = "reconcile"])
    BY <1>7 DEF ReconcileRead, ReconcileEnd, OrphanRead, OrphanList, OrphanEnd
  <2> QED BY <2>1, <2>2 DEF Goto, TypeOK, ExpiryInv
<1>8. ASSUME NEW p \in Proc, NEW x \in Sandbox, ReconcileStep(p, x) PROVE ExpiryInv'
  <2>1. then[p] # "expire" /\ then' = then
    BY <1>8 DEF ReconcileStep, PhaseInv
  <2>2. CASE UNCHANGED <<pc, target>>
    BY <2>1, <2>2 DEF ExpiryInv
  <2>3. CASE target' = [target EXCEPT ![p] = x[1]] /\ Goto(p, "crashLock")
    BY <2>1, <2>3 DEF Goto, TypeOK, ExpiryInv
  <2> QED BY <1>8, <2>2, <2>3 DEF ReconcileStep
<1>9. ASSUME NEW r \in RuntimeId, ExpiryFires(r) PROVE ExpiryInv'
  <2>1. CASE Call(r, r, "expire") /\ Goto(r, "killLock")
    BY <2>1, ExpiryCalled DEF Goto, Proc
  <2>2. CASE UNCHANGED <<local, pc>>
    BY <2>2, <1>1 DEF local
  <2> QED BY <1>9, <2>1, <2>2 DEF ExpiryFires
<1>10. CASE ProcessDies
  BY <1>10 DEF ProcessDies, ExpiryInv
<1>11. ASSUME NEW p \in Proc, NEW r \in RuntimeId, Create(p, r) PROVE ExpiryInv'
  BY <1>11, <1>1 DEF Create, local
<1>12. ASSUME NEW p \in Proc, NEW x \in Sandbox, OrphanDestroy(p, x) PROVE ExpiryInv'
  BY <1>12, <1>1 DEF OrphanDestroy
<1>13. ASSUME NEW x \in Sandbox, SandboxExits(x) PROVE ExpiryInv'
  BY <1>13, <1>1 DEF SandboxExits, local
<1>14. CASE UNCHANGED vars
  BY <1>14, <1>1 DEF vars
<1> QED
  BY <1>2, <1>3, <1>4, <1>5, <1>6, <1>7, <1>8, <1>9, <1>10, <1>11, <1>12, <1>13, <1>14
  DEF Next, Request, Continue, Proc

\* destroy() is past provider.destroy().
Destroys(r) == \E p \in Proc : pc[p] = "destroySave" /\ target[p] = r

\* What each step does to the states, the timers' writes included; only destroy()
\* records DESTROYED.
LEMMA StateMoves ==
    ASSUME IInv, ExpiryInv, [Next]_vars
    PROVE  \A r \in RuntimeId : state'[r] # state[r] =>
              /\ \/ CanTransition(state[r], state'[r])
                 \/ state[r] = "absent" /\ state'[r] = "created"
                 \/ state'[r] = "lost" /\ crashes' # crashes
                 \/ /\ state[r] = "destroyed" /\ state'[r] = "killed"
                    /\ pc[r] = "expireSave"
              /\ state'[r] = "destroyed" => Destroys(r)
<1> DEFINE Good(r) == state'[r] # state[r] =>
      /\ \/ CanTransition(state[r], state'[r])
         \/ state[r] = "absent" /\ state'[r] = "created"
         \/ state'[r] = "lost" /\ crashes' # crashes
         \/ /\ state[r] = "destroyed" /\ state'[r] = "killed"
            /\ pc[r] = "expireSave"
      /\ state'[r] = "destroyed" => Destroys(r)
<1> SUFFICES \A r \in RuntimeId : Good(r)
  OBVIOUS
<1> USE DEF IInv, TypeOK
<1>1. CASE state' = state
  BY <1>1
<1>2. ASSUME NEW r \in RuntimeId, Admit(r) PROVE \A q \in RuntimeId : Good(q)
  BY <1>2 DEF Admit, Save
<1>3. ASSUME NEW p \in Proc, NEW r \in RuntimeId, StartBegin(p, r)
      PROVE  \A q \in RuntimeId : Good(q)
  BY <1>3 DEF StartBegin, Save, CanTransition, Active, State, Terminal, Productive
<1>4. ASSUME NEW p \in Proc, Healthy(p) \/ Fail(p) PROVE \A q \in RuntimeId : Good(q)
  <2>1. state[target[p]] = "starting"
    BY <1>4 DEF PhaseInv, Starting, Serving, Healthy, Fail
  <2>2. PICK s \in {"running", "failed"} : Save(target[p], s)
    BY <1>4 DEF Healthy, Fail, MarkFailed
  <2>3. CanTransition("starting", s)
    BY DEF CanTransition, Active, State, Terminal, Productive
  <2> QED BY <2>1, <2>2, <2>3 DEF Save
<1>5. ASSUME NEW p \in Proc, NEW label, NEW s, NEW next, Move(p, label, s, next),
             s = "destroyed" => label = "destroySave"
      PROVE  \A q \in RuntimeId : Good(q)
  <2>1. ASSUME NEW r \in RuntimeId PROVE state'[r] = IF r = target[p] THEN s ELSE state[r]
    BY <1>5 DEF Move, Save
  <2> QED BY <1>5, <2>1 DEF Move, Destroys
<1>6. ASSUME NEW p \in Proc, ExpirySave(p) PROVE \A q \in RuntimeId : Good(q)
  <2>1. target[p] = p /\ state[p] \in {"killed", "destroyed"}
    BY <1>6 DEF ExpirySave, PhaseInv, ExpiryInv
  <2> QED BY <1>6, <2>1 DEF ExpirySave, Save
<1>7. ASSUME NEW p \in Proc, CrashCall(p) PROVE \A q \in RuntimeId : Good(q)
  <2>1. state[target[p]] \in Active
    BY <1>7 DEF CrashCall, PhaseInv, Ending
  <2>2. state' = state \/ Save(target[p], "failed")
    BY <1>7 DEF CrashCall
  <2>3. CanTransition(state[target[p]], "failed")
    BY <2>1 DEF CanTransition
  <2> QED BY <2>2, <2>3 DEF Save
<1>8. CASE ProcessDies
  BY <1>8 DEF ProcessDies
<1>9. ASSUME NEW p \in Proc,
             \/ InstallCreate(p) \/ InstallStart(p) \/ InstallWait(p) \/ InstallDestroy(p)
             \/ DevCreate(p) \/ DevStart(p) \/ DevAbort(p) \/ Teardown(p)
             \/ Unhealthy(p) \/ Release(p) \/ StopCall(p) \/ KillCall(p) \/ DestroyCall(p)
             \/ StartRefused(p) \/ RestartBusy(p) \/ ExpiryTooLate(p) \/ HealthCheck(p)
             \/ CrashHandled(p) \/ CrashBegin(p) \/ ReconcileRead(p) \/ ReconcileEnd(p)
             \/ OrphanRead(p) \/ OrphanList(p) \/ OrphanEnd(p)
      PROVE  state' = state
  BY <1>9
  DEF InstallCreate, InstallStart, InstallWait, InstallDestroy, DevCreate, DevStart, DevAbort,
      Teardown, SandboxStep, Unhealthy, Release, StopCall, KillCall, EndCall, DestroyCall,
      StartRefused, RestartBusy, ExpiryTooLate, HealthCheck, CrashHandled, CrashBegin, Begin,
      ReconcileRead, ReconcileEnd, OrphanRead, OrphanList, OrphanEnd, records
<1>10. ASSUME NEW p \in Proc, NEW r \in RuntimeId,
              \/ StopBegin(p, r) \/ KillBegin(p, r) \/ DestroyBegin(p, r)
              \/ RestartOfDestroyed(p, r) \/ HealthRead(p, r)
       PROVE  state' = state
  BY <1>10 DEF StopBegin, KillBegin, DestroyBegin, Begin, RestartOfDestroyed, HealthRead, records
<1>11. ASSUME NEW p \in Proc, NEW x \in Sandbox, ReconcileStep(p, x) \/ OrphanDestroy(p, x)
       PROVE  state' = state
  BY <1>11 DEF ReconcileStep, OrphanDestroy, records
<1>12. ASSUME NEW r \in RuntimeId, ExpiryFires(r) PROVE state' = state
  BY <1>12 DEF ExpiryFires
<1>13. ASSUME NEW x \in Sandbox, SandboxExits(x) PROVE state' = state
  BY <1>13 DEF SandboxExits, records
<1>14. CASE UNCHANGED vars
  BY <1>14, <1>1 DEF vars
<1> HIDE DEF Good, IInv, TypeOK
<1> QED
  BY <1>1, <1>2, <1>3, <1>4, <1>5, <1>6, <1>7, <1>8, <1>9, <1>10, <1>11, <1>12, <1>13, <1>14
  DEF Next, Request, Continue, Proc, Create, RestartCreate, StopSave, Stopped, KillSave,
      DestroySave, CrashSave

\* A runtime's state moves along can_transition_runtime() only, whatever threads
\* save, but for the record the expiry timer writes back without the lock.
THEOREM MovesAreLegal == Spec => MovesFollowGraph
<1>1. Init => ExpiryInv
  BY ExpiryInit
<1>2. IInv /\ ExpiryInv /\ [Next]_vars => ExpiryInv'
  BY ExpiryStep DEF IInv
<1>3. IInv /\ ExpiryInv /\ [Next]_vars =>
         [\A r \in RuntimeId : state'[r] # state[r] =>
              \/ CanTransition(state[r], state'[r])
              \/ state[r] = "absent" /\ state'[r] = "created"
              \/ state'[r] = "lost" /\ crashes' # crashes
              \/ /\ state[r] = "destroyed" /\ state'[r] = "killed"
                 /\ pc[r] = "expireSave"]_vars
  BY StateMoves
<1> QED BY <1>1, <1>2, <1>3, Inductive, PTL DEF Spec, MovesFollowGraph

-----------------------------------------------------------------------------
(* What a destroyed runtime leaves behind.                                 *)

\* A sandbox that was started and has not been removed.
Holds(r, k) == sandbox[<<r, k>>] \in {"running", "exited"}

\* A record names its runtime's sandbox until the provider has removed it, and
\* destroy() records nothing before that.
CleanupInv ==
    /\ \A r \in RuntimeId, k \in Kind : Holds(r, k) /\ state[r] # "lost" => sandboxId[r] = k
    /\ \A p \in Proc, k \in Kind : pc[p] = "destroySave" => ~Holds(target[p], k)
    /\ DestroyedLeavesNothing

\* No started sandbox appears: what every step but the two start() calls does.
HoldsKept == \A r \in RuntimeId, k \in Kind : Holds(r, k)' => Holds(r, k)

LEMMA Removed ==
    ASSUME TypeOK, NEW r \in RuntimeId, NEW j \in Kind, NEW s, s \notin {"running", "exited"},
           Becomes(<<r, j>>, s)
    PROVE  HoldsKept /\ ~Holds(r, j)'
BY DEF TypeOK, Becomes, Holds, HoldsKept, Sandbox

LEMMA Exited ==
    ASSUME TypeOK, NEW r \in RuntimeId, NEW j \in Kind, sandbox[<<r, j>>] = "running",
           Becomes(<<r, j>>, "exited")
    PROVE  HoldsKept
BY DEF TypeOK, Becomes, Holds, HoldsKept, Sandbox

LEMMA RaisesHoldNothing ==
    ASSUME TypeOK, NEW r \in RuntimeId, NEW j \in Kind,
           DestroyRaises(<<r, j>>) \/ TeardownRaises(<<r, j>>) \/ CreateRaises(<<r, j>>)
    PROVE  HoldsKept
<1>1. CASE sandbox' = sandbox
  BY <1>1 DEF Holds, HoldsKept
<1>2. CASE sandbox[<<r, j>>] = "running" /\ Becomes(<<r, j>>, "exited")
  BY <1>2, Exited
<1>3. ASSUME NEW s \in {"created", "gone"}, Becomes(<<r, j>>, s)
      PROVE  HoldsKept
  BY <1>3, Removed
<1> QED BY <1>1, <1>2, <1>3 DEF DestroyRaises, TeardownRaises, CreateRaises

\* A provider call that ends a runtime removes the sandbox on record, which is
\* the only one that was started.
LEMMA EndHoldsNothing ==
    ASSUME TypeOK, CleanupInv, NEW p \in Proc, NEW r \in RuntimeId, target[p] = r,
           state[r] # "lost", NEW next, End(p, next)
    PROVE  HoldsKept /\ \A k \in Kind : ~Holds(r, k)'
<1>1. CASE sandboxId[r] = "none"
  <2>1. sandbox' = sandbox
    BY <1>1 DEF End
  <2>2. \A k \in Kind : ~Holds(r, k)
    BY <1>1 DEF CleanupInv, Kind
  <2> QED BY <2>1, <2>2 DEF Holds, HoldsKept
<1>2. CASE sandboxId[r] # "none"
  <2>1. PICK k \in Kind : sandboxId[r] = k
    BY <1>2 DEF TypeOK
  <2>2. HoldsKept /\ ~Holds(r, k)'
    BY <1>2, <2>1, Removed DEF End, Recorded
  <2>3. \A j \in Kind : Holds(r, j) => j = k
    BY <2>1 DEF CleanupInv
  <2> QED BY <2>2, <2>3 DEF HoldsKept
<1> QED BY <1>1, <1>2

\* A sandbox is started by start(), under its record; anything else only takes
\* away.
StartsSandbox(r, k) ==
    \E p \in Proc : /\ pc[p] \in {"installStart", "devStart"}
                    /\ target[p] = r /\ sandboxId[r] = k /\ sandboxId' = sandboxId

LEMMA StartHolds ==
    ASSUME TypeOK, LockInv, NEW p \in Proc, NEW k \in Kind,
           pc[p] \in {"installStart", "devStart"},
           sandboxId[target[p]] = k, sandboxId' = sandboxId,
           Becomes(<<target[p], k>>, "running") \/ StartRaises(<<target[p], k>>)
    PROVE  \A r \in RuntimeId, j \in Kind : Holds(r, j)' => Holds(r, j) \/ StartsSandbox(r, j)
<1>1. PICK r \in RuntimeId : r = target[p]
  BY DEF LockInv, NoTarget
<1>2. sandbox' = sandbox \/ Becomes(<<r, k>>, "running")
  BY <1>1 DEF StartRaises
<1>3. \A q \in RuntimeId, j \in Kind : Holds(q, j)' => Holds(q, j) \/ (q = r /\ j = k)
  BY <1>2 DEF TypeOK, Becomes, Holds, Sandbox
<1> QED BY <1>1, <1>3 DEF StartsSandbox

LEMMA HoldsStep ==
    ASSUME IInv, CleanupInv, [Next]_vars
    PROVE  \A r \in RuntimeId, k \in Kind : Holds(r, k)' => Holds(r, k) \/ StartsSandbox(r, k)
<1> USE DEF IInv
<1> DEFINE Good == \A r \in RuntimeId, k \in Kind :
                      Holds(r, k)' => Holds(r, k) \/ StartsSandbox(r, k)
<1> SUFFICES Good
  OBVIOUS
<1>1. CASE HoldsKept
  BY <1>1 DEF HoldsKept
<1>2. CASE sandbox' = sandbox
  BY <1>2, <1>1 DEF HoldsKept, Holds
<1>3. ASSUME NEW p \in Proc, InstallCreate(p) \/ DevCreate(p) PROVE Good
  <2>1. target[p] \in RuntimeId
    BY <1>3 DEF InstallCreate, DevCreate, LockInv, NoTarget
  <2>2. PICK k \in Kind : Becomes(<<target[p], k>>, "created") \/ CreateRaises(<<target[p], k>>)
    BY <1>3, Words DEF InstallCreate, DevCreate, MakeSandbox
  <2>3. HoldsKept
    BY <2>1, <2>2, Removed, RaisesHoldNothing
  <2> QED BY <2>3, <1>1
<1>4. ASSUME NEW p \in Proc, InstallStart(p) PROVE Good
  <2>1. sandboxId[target[p]] = "install" /\ "install" \in Kind
    BY <1>4 DEF InstallStart, SandboxInv, Knows, Installing, Kind
  <2> QED BY <1>4, <2>1, StartHolds DEF InstallStart
<1>5. ASSUME NEW p \in Proc, DevStart(p) PROVE Good
  <2>1. sandboxId[target[p]] = "dev" /\ "dev" \in Kind
    BY <1>5 DEF DevStart, SandboxInv, Knows, Serving, Kind
  <2> QED BY <1>5, <2>1, StartHolds DEF DevStart
<1>6. ASSUME NEW p \in Proc, InstallWait(p) PROVE Good
  <2>1. target[p] \in RuntimeId
    BY <1>6 DEF InstallWait, LockInv, NoTarget
  <2>2. \/ sandbox' = sandbox
        \/ sandbox[<<target[p], "install">>] = "running"
           /\ Becomes(<<target[p], "install">>, "exited")
    BY <1>6 DEF InstallWait
  <2> QED BY <2>1, <2>2, <1>1, <1>2, Exited, Words
<1>7. ASSUME NEW p \in Proc, InstallDestroy(p) \/ DevAbort(p) \/ Teardown(p) PROVE Good
  <2>1. target[p] \in RuntimeId
    BY <1>7 DEF InstallDestroy, DevAbort, Teardown, LockInv, NoTarget
  <2>2. PICK k \in Kind : \/ Becomes(<<target[p], k>>, "gone")
                          \/ DestroyRaises(<<target[p], k>>) \/ TeardownRaises(<<target[p], k>>)
    BY <1>7, Words DEF InstallDestroy, DevAbort, Teardown
  <2>3. HoldsKept
    BY <2>1, <2>2, Removed, RaisesHoldNothing
  <2> QED BY <2>3, <1>1
<1>8. ASSUME NEW p \in Proc, StopCall(p) \/ KillCall(p) \/ DestroyCall(p) \/ CrashCall(p)
      PROVE  Good
  <2>1. target[p] \in RuntimeId /\ state[target[p]] # "lost"
    BY <1>8 DEF StopCall, KillCall, EndCall, DestroyCall, CrashCall, LockInv, PhaseInv,
                NoTarget, Ending, Active, State, Terminal
  <2>2. \/ \E next \in Cleaned : End(p, next)
        \/ /\ sandboxId[target[p]] # "none"
           /\ TeardownRaises(Recorded(p)) \/ DestroyRaises(Recorded(p))
    BY <1>8 DEF StopCall, KillCall, EndCall, EndRaises, DestroyCall, DestroyRaisesOrEnds,
                CrashCall, Cleaned
  <2>3. sandboxId[target[p]] # "none" => sandboxId[target[p]] \in Kind
    BY <2>1 DEF TypeOK
  <2>4. HoldsKept
    BY <2>1, <2>2, <2>3, EndHoldsNothing, RaisesHoldNothing DEF Recorded
  <2> QED BY <2>4, <1>1
<1>9. ASSUME NEW p \in Proc, NEW x \in Sandbox, OrphanDestroy(p, x) PROVE Good
  <2>1. PICK r \in RuntimeId, k \in Kind : x = <<r, k>>
    BY DEF Sandbox
  <2>2. HoldsKept
    BY <1>9, <2>1, Removed, RaisesHoldNothing DEF OrphanDestroy
  <2> QED BY <2>2, <1>1
<1>10. ASSUME NEW x \in Sandbox, SandboxExits(x) PROVE Good
  <2>1. PICK r \in RuntimeId, k \in Kind : x = <<r, k>>
    BY DEF Sandbox
  <2>2. HoldsKept
    BY <1>10, <2>1, Exited DEF SandboxExits
  <2> QED BY <2>2, <1>1
<1>11. ASSUME NEW p \in Proc,
              \/ Healthy(p) \/ Unhealthy(p) \/ Fail(p) \/ Release(p) \/ StartRefused(p)
              \/ RestartBusy(p) \/ ExpiryTooLate(p) \/ ExpirySave(p) \/ HealthCheck(p)
              \/ CrashHandled(p) \/ CrashBegin(p) \/ ReconcileRead(p) \/ ReconcileEnd(p)
              \/ OrphanRead(p) \/ OrphanList(p) \/ OrphanEnd(p)
              \/ StopSave(p) \/ Stopped(p) \/ KillSave(p) \/ DestroySave(p) \/ CrashSave(p)
       PROVE  sandbox' = sandbox
  BY <1>11
  DEF Healthy, Unhealthy, Fail, Release, StartRefused, RestartBusy, ExpiryTooLate, ExpirySave,
      HealthCheck, CrashHandled, CrashBegin, Begin, ReconcileRead, ReconcileEnd, OrphanRead,
      OrphanList, OrphanEnd, StopSave, Stopped, KillSave, DestroySave, CrashSave, Move
<1>12. ASSUME NEW p \in Proc, NEW r \in RuntimeId,
              \/ Create(p, r) \/ StartBegin(p, r) \/ StopBegin(p, r) \/ KillBegin(p, r)
              \/ DestroyBegin(p, r) \/ RestartOfDestroyed(p, r) \/ HealthRead(p, r)
              \/ RestartCreate(p, r)
       PROVE  sandbox' = sandbox
  BY <1>12 DEF Create, StartBegin, StopBegin, KillBegin, DestroyBegin, Begin,
               RestartOfDestroyed, HealthRead, RestartCreate
<1>13. ASSUME NEW p \in Proc, NEW x \in Sandbox, ReconcileStep(p, x) PROVE sandbox' = sandbox
  BY <1>13 DEF ReconcileStep
<1>14. ASSUME NEW r \in RuntimeId, ExpiryFires(r) PROVE sandbox' = sandbox
  BY <1>14 DEF ExpiryFires
<1>15. CASE ProcessDies \/ UNCHANGED vars
  BY <1>15, <1>2 DEF ProcessDies, vars
<1> HIDE DEF Good, IInv
<1> QED
  BY <1>2, <1>3, <1>4, <1>5, <1>6, <1>7, <1>8, <1>9, <1>10, <1>11, <1>12, <1>13, <1>14, <1>15
  DEF Next, Request, Continue, Proc

\* A record is changed under the lock of start(), when its runtime has nothing
\* started: before the sandbox is made, or after it has been removed.
LEMMA RecordStep ==
    ASSUME IInv, CleanupInv, [Next]_vars
    PROVE  \A r \in RuntimeId, k \in Kind :
              sandboxId'[r] # sandboxId[r] /\ state'[r] # "lost" => ~Holds(r, k)'
<1> USE DEF IInv
<1> DEFINE Good == \A r \in RuntimeId, k \in Kind :
                      sandboxId'[r] # sandboxId[r] /\ state'[r] # "lost" => ~Holds(r, k)'
<1> SUFFICES Good
  OBVIOUS
<1>1. CASE sandboxId' = sandboxId
  BY <1>1
<1>2. ASSUME NEW p \in Proc, NEW j \in Kind, NEW s \in {"created", "gone"},
             NEW id, target[p] \in RuntimeId, state[target[p]] # "lost",
             \A k \in Kind : k # j => sandboxId[target[p]] # k,
             Becomes(<<target[p], j>>, s), Record(p, id)
      PROVE  Good
  <2>1. PICK r \in RuntimeId : r = target[p]
    BY <1>2
  <2>2. HoldsKept /\ ~Holds(r, j)'
    BY <1>2, <2>1, Removed
  <2>3. \A k \in Kind : k # j => ~Holds(r, k)
    BY <1>2, <2>1 DEF CleanupInv
  <2>4. \A k \in Kind : ~Holds(r, k)'
    BY <2>2, <2>3 DEF HoldsKept
  <2>5. \A q \in RuntimeId : q # r => sandboxId'[q] = sandboxId[q]
    BY <1>2, <2>1 DEF Record, TypeOK
  <2> QED BY <2>4, <2>5
<1>3. ASSUME NEW p \in Proc, InstallCreate(p) \/ DevCreate(p) PROVE Good
  <2>1. /\ target[p] \in RuntimeId /\ state[target[p]] # "lost"
        /\ sandboxId[target[p]] = "none"
    BY <1>3 DEF InstallCreate, DevCreate, LockInv, PhaseInv, SandboxInv, Knows, NoTarget, Starting
  <2>2. \/ sandboxId' = sandboxId
        \/ \E j \in Kind : Becomes(<<target[p], j>>, "created") /\ Record(p, j)
    BY <1>3, Words DEF InstallCreate, DevCreate, MakeSandbox
  <2>3. \A k \in Kind : sandboxId[target[p]] # k
    BY <2>1 DEF Kind
  <2> QED BY <2>1, <2>2, <2>3, <1>1, <1>2
<1>4. ASSUME NEW p \in Proc, InstallDestroy(p) \/ DevAbort(p) \/ Teardown(p) PROVE Good
  <2>1. target[p] \in RuntimeId /\ state[target[p]] # "lost"
    BY <1>4 DEF InstallDestroy, DevAbort, Teardown, LockInv, PhaseInv, NoTarget, Starting,
                Installing, Serving
  <2>2. \/ sandboxId' = sandboxId
        \/ \E j \in Kind : /\ sandboxId[target[p]] = j
                           /\ Becomes(<<target[p], j>>, "gone") /\ Record(p, "none")
    BY <1>4, Words DEF InstallDestroy, DevAbort, Teardown, SandboxInv, Knows, Installing, Serving
  <2> QED BY <2>1, <2>2, <1>1, <1>2
<1>5. CASE ProcessDies
  <2>1. \A r \in RuntimeId : state'[r] # "lost" => state[r] = "absent" /\ sandboxId'[r] = "none"
    BY <1>5 DEF ProcessDies
  <2>2. \A r \in RuntimeId : state[r] = "absent" => sandboxId[r] = "none"
    BY DEF SandboxInv
  <2> QED BY <2>1, <2>2
<1>6. ASSUME NEW p \in Proc,
             \/ InstallStart(p) \/ InstallWait(p) \/ DevStart(p)
             \/ Healthy(p) \/ Unhealthy(p) \/ Fail(p) \/ Release(p) \/ StartRefused(p)
             \/ RestartBusy(p) \/ ExpiryTooLate(p) \/ ExpirySave(p) \/ HealthCheck(p)
             \/ CrashHandled(p) \/ CrashBegin(p) \/ ReconcileRead(p) \/ ReconcileEnd(p)
             \/ OrphanRead(p) \/ OrphanList(p) \/ OrphanEnd(p)
             \/ StopSave(p) \/ Stopped(p) \/ KillSave(p) \/ DestroySave(p) \/ CrashSave(p)
             \/ StopCall(p) \/ KillCall(p) \/ DestroyCall(p) \/ CrashCall(p)
      PROVE  sandboxId' = sandboxId
  BY <1>6
  DEF InstallStart, InstallWait, DevStart, Healthy, Unhealthy, Fail, Release, StartRefused,
      RestartBusy, ExpiryTooLate, ExpirySave, HealthCheck, CrashHandled, CrashBegin, Begin,
      ReconcileRead, ReconcileEnd, OrphanRead, OrphanList, OrphanEnd, StopSave, Stopped,
      KillSave, DestroySave, CrashSave, Move, StopCall, KillCall, EndCall, DestroyCall,
      CrashCall, records
<1>7. ASSUME NEW p \in Proc, NEW r \in RuntimeId,
             \/ Create(p, r) \/ StartBegin(p, r) \/ StopBegin(p, r) \/ KillBegin(p, r)
             \/ DestroyBegin(p, r) \/ RestartOfDestroyed(p, r) \/ HealthRead(p, r)
             \/ RestartCreate(p, r)
      PROVE  sandboxId' = sandboxId
  BY <1>7 DEF Create, StartBegin, StopBegin, KillBegin, DestroyBegin, Begin,
              RestartOfDestroyed, HealthRead, RestartCreate, records
<1>8. ASSUME NEW p \in Proc, NEW x \in Sandbox, ReconcileStep(p, x) \/ OrphanDestroy(p, x)
      PROVE  sandboxId' = sandboxId
  BY <1>8 DEF ReconcileStep, OrphanDestroy, records
<1>9. ASSUME NEW r \in RuntimeId, ExpiryFires(r) PROVE sandboxId' = sandboxId
  BY <1>9 DEF ExpiryFires
<1>10. ASSUME NEW x \in Sandbox, SandboxExits(x) PROVE sandboxId' = sandboxId
  BY <1>10 DEF SandboxExits, records
<1>11. CASE UNCHANGED vars
  BY <1>11, <1>1 DEF vars
<1> HIDE DEF Good, IInv
<1> QED
  BY <1>1, <1>3, <1>4, <1>5, <1>6, <1>7, <1>8, <1>9, <1>10, <1>11
  DEF Next, Request, Continue, Proc

\* destroy() reaches its last section only past provider.destroy().
LEMMA DestroyStep ==
    ASSUME IInv, CleanupInv, [Next]_vars
    PROVE  \A p \in Proc, r \in RuntimeId : pc'[p] = "destroySave" /\ target'[p] = r =>
              \/ pc[p] = "destroySave" /\ target[p] = r
              \/ \A k \in Kind : ~Holds(r, k)'
<1> USE DEF IInv
<1> DEFINE Good == \A p \in Proc, r \in RuntimeId : pc'[p] = "destroySave" /\ target'[p] = r =>
                      \/ pc[p] = "destroySave" /\ target[p] = r
                      \/ \A k \in Kind : ~Holds(r, k)'
<1> SUFFICES Good
  OBVIOUS
<1>1. ASSUME \A p \in Proc : \/ pc'[p] # "destroySave"
                             \/ pc'[p] = pc[p] /\ target'[p] = target[p]
      PROVE  Good
  BY <1>1
<1>2. ASSUME NEW p \in Proc, NEW label, label # "destroySave",
             pc' = [pc EXCEPT ![p] = label],
             target' = target \/ \E r \in RuntimeId : target' = [target EXCEPT ![p] = r]
      PROVE  Good
  BY <1>1, <1>2 DEF TypeOK
<1>3. ASSUME NEW p \in Proc, DestroyCall(p) PROVE Good
  <2>1. PICK r \in RuntimeId : r = target[p]
    BY <1>3 DEF DestroyCall, LockInv, NoTarget
  <2>2. state[r] # "lost"
    BY <1>3, <2>1 DEF DestroyCall, PhaseInv, State, Active, Terminal
  <2>3. target' = target
    BY <1>3 DEF DestroyCall, local
  <2>4. CASE End(p, "destroySave")
    <3>1. \A k \in Kind : ~Holds(r, k)'
      BY <2>1, <2>2, <2>4, EndHoldsNothing
    <3>2. \A q \in Proc : q # p => pc'[q] = pc[q]
      BY <2>4 DEF End, Goto, TypeOK
    <3> QED BY <2>1, <2>3, <3>1, <3>2
  <2>5. CASE Raise(p)
    BY <2>3, <2>5, <1>2 DEF Raise, Goto
  <2> QED BY <1>3, <2>4, <2>5 DEF DestroyCall, DestroyRaisesOrEnds
<1>4. ASSUME NEW p \in Proc,
             \/ InstallCreate(p) \/ InstallStart(p) \/ InstallWait(p) \/ InstallDestroy(p)
             \/ DevCreate(p) \/ DevStart(p) \/ DevAbort(p) \/ Teardown(p)
             \/ Healthy(p) \/ Unhealthy(p) \/ Fail(p) \/ StopSave(p) \/ Stopped(p) \/ KillSave(p)
             \/ DestroySave(p) \/ CrashSave(p) \/ StartRefused(p) \/ RestartBusy(p)
      PROVE  Good
  <2>1. PICK label : Goto(p, label) /\ label # "destroySave"
    BY <1>4 DEF InstallCreate, InstallStart, InstallWait, InstallDestroy, DevCreate, DevStart,
                DevAbort, Teardown, MakeSandbox, Healthy, Unhealthy, Fail, Raise, StopSave,
                Stopped, KillSave, DestroySave, CrashSave, Move, StartRefused, RestartBusy
  <2>2. target' = target
    BY <1>4 DEF InstallCreate, InstallStart, InstallWait, InstallDestroy, DevCreate, DevStart,
                DevAbort, Teardown, SandboxStep, Healthy, Unhealthy, Fail, StopSave,
                Stopped, KillSave, DestroySave, CrashSave, Move, StartRefused, RestartBusy, local
  <2> QED BY <2>1, <2>2, <1>2 DEF Goto
<1>5. ASSUME NEW p \in Proc,
             \/ ExpiryTooLate(p) \/ ExpirySave(p) \/ HealthCheck(p) \/ CrashBegin(p)
             \/ Release(p) \/ CrashHandled(p) \/ StopCall(p) \/ KillCall(p) \/ CrashCall(p)
             \/ ReconcileRead(p) \/ ReconcileEnd(p) \/ OrphanRead(p) \/ OrphanList(p) \/ OrphanEnd(p)
      PROVE  Good
  <2>1. PICK label : Goto(p, label) /\ label # "destroySave"
    BY <1>5 DEF ExpiryTooLate, ExpirySave, HealthCheck, CrashBegin, Begin, Release, CrashHandled,
                StopCall, KillCall, EndCall, CrashCall, End, EndRaises, Raise, Return,
                ReconcileRead, ReconcileEnd, OrphanRead, OrphanList, OrphanEnd
  <2>2. target' = target
    BY <1>5 DEF ExpiryTooLate, ExpirySave, HealthCheck, CrashBegin, Begin, Release, CrashHandled,
                StopCall, KillCall, EndCall, CrashCall, local,
                ReconcileRead, ReconcileEnd, OrphanRead, OrphanList, OrphanEnd
  <2> QED BY <2>1, <2>2, <1>2 DEF Goto
<1>6. ASSUME NEW p \in Proc, NEW r \in RuntimeId,
             \/ StartBegin(p, r) \/ StopBegin(p, r) \/ KillBegin(p, r) \/ DestroyBegin(p, r)
             \/ RestartOfDestroyed(p, r) \/ HealthRead(p, r) \/ RestartCreate(p, r)
      PROVE  Good
  <2>1. PICK label : Goto(p, label) /\ label # "destroySave"
    BY <1>6 DEF StartBegin, StopBegin, KillBegin, DestroyBegin, Begin, RestartOfDestroyed,
                HealthRead, RestartCreate
  <2>2. target' = target \/ target' = [target EXCEPT ![p] = r]
    BY <1>6 DEF StartBegin, StopBegin, KillBegin, DestroyBegin, Call, RestartOfDestroyed,
                HealthRead, RestartCreate, local
  <2> QED BY <2>1, <2>2, <1>2 DEF Goto
<1>7. ASSUME NEW p \in Proc, NEW x \in Sandbox, ReconcileStep(p, x) PROVE Good
  <2>1. x[1] \in RuntimeId
    BY DEF Sandbox
  <2>2. CASE UNCHANGED <<pc, target>>
    BY <2>2, <1>1
  <2>3. CASE target' = [target EXCEPT ![p] = x[1]] /\ Goto(p, "crashLock")
    BY <2>1, <2>3, <1>2 DEF Goto
  <2> QED BY <1>7, <2>2, <2>3 DEF ReconcileStep
<1>8. ASSUME NEW r \in RuntimeId, ExpiryFires(r) PROVE Good
  <2>1. r \in Proc
    BY DEF Proc
  <2>2. CASE UNCHANGED <<local, pc>>
    BY <2>2, <1>1 DEF local
  <2>3. CASE Call(r, r, "expire") /\ Goto(r, "killLock")
    BY <2>1, <2>3, <1>2 DEF Call, Goto
  <2> QED BY <1>8, <2>2, <2>3 DEF ExpiryFires
<1>9. CASE ProcessDies
  BY <1>9, <1>1 DEF ProcessDies
<1>10. ASSUME NEW p \in Proc, NEW r \in RuntimeId, Create(p, r) PROVE Good
  BY <1>10, <1>1 DEF Create, local
<1>11. ASSUME NEW p \in Proc, NEW x \in Sandbox, OrphanDestroy(p, x) PROVE Good
  BY <1>11, <1>1 DEF OrphanDestroy
<1>12. ASSUME NEW x \in Sandbox, SandboxExits(x) PROVE Good
  BY <1>12, <1>1 DEF SandboxExits, local
<1>13. CASE UNCHANGED vars
  BY <1>13, <1>1 DEF vars
<1> HIDE DEF Good, IInv
<1> QED
  BY <1>3, <1>4, <1>5, <1>6, <1>7, <1>8, <1>9, <1>10, <1>11, <1>12, <1>13
  DEF Next, Request, Continue, Proc

\* Together: what was started stays on record until it is removed, also while
\* destroy() runs.
LEMMA CleanupStep ==
    ASSUME IInv, ExpiryInv, CleanupInv, [Next]_vars PROVE CleanupInv'
<1>1. \A r \in RuntimeId, k \in Kind :
         Holds(r, k)' => Holds(r, k) \/ StartsSandbox(r, k)
  BY HoldsStep
<1>2. ASSUME NEW r \in RuntimeId, NEW k \in Kind, StartsSandbox(r, k)
      PROVE  state[r] = "starting" /\ ~Destroys(r)
  <2>1. PICK p \in Proc : pc[p] \in {"installStart", "devStart"} /\ target[p] = r
    BY <1>2 DEF StartsSandbox
  <2>2. state[r] = "starting"
    BY <2>1 DEF IInv, PhaseInv, Starting, Installing, Serving
  <2>3. \A q \in Proc : pc[q] = "destroySave" => target[q] # r
    BY <2>1, Labels DEF IInv, LockInv
  <2> QED BY <2>2, <2>3 DEF Destroys
<1>3. \A r \in RuntimeId : state'[r] # "lost" => state[r] # "lost"
  BY StateMoves DEF CanTransition, Resting, Active, State
<1>4. ASSUME NEW r \in RuntimeId, NEW k \in Kind, Holds(r, k)', state'[r] # "lost"
      PROVE  sandboxId'[r] = k
  <2>1. sandboxId'[r] = sandboxId[r]
    BY <1>4, RecordStep
  <2>2. sandboxId[r] = k
    BY <1>1, <1>3, <1>4 DEF CleanupInv, StartsSandbox
  <2> QED BY <2>1, <2>2
<1>5. ASSUME NEW r \in RuntimeId, Destroys(r) PROVE \A k \in Kind : ~Holds(r, k)'
  BY <1>1, <1>2, <1>5 DEF Destroys, CleanupInv
<1>6. ASSUME NEW p \in Proc, pc'[p] = "destroySave", NEW k \in Kind
      PROVE  ~Holds(target[p], k)'
  <2>1. LockInv'
    BY LockStep DEF IInv
  <2>2. PICK r \in RuntimeId : r = target'[p]
    BY <1>6, <2>1 DEF LockInv, NoTarget
  <2>3. ~Holds(r, k)'
    BY <1>5, <1>6, <2>2, DestroyStep DEF Destroys
  <2> QED BY <2>2, <2>3 DEF Holds
<1>7. ASSUME NEW r \in RuntimeId, NEW k \in Kind, state'[r] = "destroyed"
      PROVE  ~Holds(r, k)'
  <2>1. CASE state[r] = "destroyed"
    BY <1>1, <1>2, <2>1 DEF CleanupInv, DestroyedLeavesNothing, Holds
  <2>2. CASE state[r] # "destroyed"
    BY <1>5, <1>7, <2>2, StateMoves
  <2> QED BY <2>1, <2>2
<1> QED BY <1>4, <1>6, <1>7 DEF CleanupInv, DestroyedLeavesNothing, Holds

\* A destroyed runtime left no sandbox of its own running or exited behind,
\* whatever the provider raised and however the threads interleave.
THEOREM DestroyedIsClean == Spec => []DestroyedLeavesNothing
<1>1. Init => ExpiryInv /\ CleanupInv
  BY ExpiryInit DEF Init, CleanupInv, DestroyedLeavesNothing, Holds, Sandbox
<1>2. IInv /\ ExpiryInv /\ CleanupInv /\ [Next]_vars => ExpiryInv' /\ CleanupInv'
  BY ExpiryStep, CleanupStep DEF IInv
<1>3. CleanupInv => DestroyedLeavesNothing
  BY DEF CleanupInv
<1> QED BY <1>1, <1>2, <1>3, Inductive, PTL DEF Spec

-----------------------------------------------------------------------------
(* The leases of the workspaces.                                           *)

\* A step after which a runtime is absent or lost just when it was before.
SameLife ==
    \A r \in RuntimeId : /\ state'[r] = "absent" <=> state[r] = "absent"
                         /\ state'[r] = "lost" <=> state[r] = "lost"

LEMMA LeaseSame ==
    ASSUME lease' = lease, SameLife, \A r \in RuntimeId, k \in Kind : Runs(r, k)' <=> Runs(r, k)
    PROVE  UNCHANGED Lease!vars
<1>1. Used' = Used
  BY DEF SameLife, Used
<1>2. Live' = Live /\ Orphans' = Orphans
  BY DEF SameLife, Live, Orphans
<1> QED BY <1>1, <1>2 DEF Lease!vars

\* Sandboxes of one runtime that stop running.
LEMMA LeaseEnds ==
    ASSUME lease' = lease, SameLife, NEW r \in RuntimeId,
           \A q \in RuntimeId, k \in Kind : /\ Runs(q, k)' => Runs(q, k)
                                            /\ q # r => (Runs(q, k)' <=> Runs(q, k))
    PROVE  [Lease!Next]_(Lease!vars)
<1>1. CASE (\E k \in Kind : Runs(r, k)') <=> (\E k \in Kind : Runs(r, k))
  <2>1. \A q \in RuntimeId : (\E k \in Kind : Runs(q, k)') <=> (\E k \in Kind : Runs(q, k))
    BY <1>1
  <2>2. Used' = Used /\ Live' = Live /\ Orphans' = Orphans
    BY <2>1 DEF SameLife, Used, Live, Orphans
  <2> QED BY <2>2 DEF Lease!vars
<1>2. CASE /\ \E k \in Kind : Runs(r, k)
           /\ \A k \in Kind : ~Runs(r, k)'
  <2>1. Used' = Used
    BY DEF SameLife, Used
  <2>2. Live' = Live \ {r} /\ Orphans' = Orphans \ {r} /\ r \in Live \cup Orphans
    BY <1>2 DEF SameLife, Live, Orphans
  <2>3. Lease!End(r)
    BY <2>1, <2>2 DEF Lease!End
  <2> QED BY <2>3 DEF Lease!Next
<1> QED BY <1>1, <1>2

\* What becomes of one sandbox, be it by a call that raises.
LEMMA OneSandbox ==
    ASSUME TypeOK, NEW r \in RuntimeId, NEW j \in Kind,
           \/ sandbox' = sandbox
           \/ \E s \in {"created", "exited", "gone"} : Becomes(<<r, j>>, s)
    PROVE  \A q \in RuntimeId, k \in Kind : /\ Runs(q, k)' => Runs(q, k)
                                            /\ q # r => (Runs(q, k)' <=> Runs(q, k))
<1>1. CASE sandbox' = sandbox
  BY <1>1 DEF Runs
<1>2. ASSUME NEW s \in {"created", "exited", "gone"}, Becomes(<<r, j>>, s)
      PROVE  \A q \in RuntimeId, k \in Kind : Runs(q, k)' <=> (Runs(q, k) /\ ~(q = r /\ k = j))
  BY <1>2, Ends
<1> QED BY <1>1, <1>2

LEMMA LeaseRuns ==
    ASSUME IInv, NEW p \in Proc, NEW k \in Kind, pc[p] \in {"installStart", "devStart"},
           \/ Becomes(<<target[p], k>>, "running") \/ StartRaises(<<target[p], k>>),
           state' = state, lease' = lease
    PROVE  [Lease!Next]_(Lease!vars)
<1> USE DEF IInv
<1>1. PICK r \in RuntimeId : r = target[p]
  BY DEF LockInv, NoTarget
<1>2. state[r] = "starting" /\ lease[WorkspaceOf[r]] = r
  BY <1>1 DEF PhaseInv, Starting, Installing, Serving, LeaseInv, LeaseHeld, Active, State, Terminal
<1>3. CASE Becomes(<<r, k>>, "running")
  <2>1. \A q \in RuntimeId, j \in Kind : Runs(q, j)' <=> (Runs(q, j) \/ (q = r /\ j = k))
    BY <1>3, Begins
  <2>2. Used' = Used
    BY DEF Used
  <2>3. Live' = Live \cup {r} /\ Orphans' = Orphans
    BY <1>2, <2>1 DEF Live, Orphans
  <2>4. Lease!Run(r)
    BY <1>2, <2>2, <2>3 DEF Lease!Run
  <2> QED BY <2>4 DEF Lease!Next
<1>4. CASE sandbox' = sandbox
  BY <1>4, LeaseSame DEF SameLife, Runs
<1> QED BY <1>1, <1>3, <1>4 DEF StartRaises

LEMMA LeaseAcquired ==
    ASSUME NEW r \in RuntimeId, Admit(r), TypeOK, sandbox' = sandbox
    PROVE  Lease!Acquire(r)
<1>1. \A q \in RuntimeId : state'[q] = IF q = r THEN "created" ELSE state[q]
  BY DEF Admit, Save, TypeOK
<1>2. r \notin Used /\ Used' = Used \cup {r}
  BY <1>1 DEF Admit, Used
<1>3. Live' = Live /\ Orphans' = Orphans
  BY <1>1 DEF Admit, Live, Orphans, Runs
<1> QED BY <1>2, <1>3 DEF Admit, Lease!Acquire

\* Every step is one of the lease's or changes nothing of it.
LEMMA LeaseImplemented ==
    ASSUME IInv, [Next]_vars PROVE [Lease!Next]_(Lease!vars)
<1> DEFINE Good == [Lease!Next]_(Lease!vars)
<1> SUFFICES Good
  OBVIOUS
<1> USE DEF IInv
<1>1. ASSUME UNCHANGED <<lease, sandbox>>, SameLife PROVE Good
  BY <1>1, LeaseSame DEF Runs
<1>2. ASSUME NEW p \in Proc, NEW r \in RuntimeId, Create(p, r) \/ RestartCreate(p, r) PROVE Good
  <2>1. Lease!Acquire(r)
    BY <1>2, LeaseAcquired DEF Create, RestartCreate
  <2> QED BY <2>1 DEF Lease!Next
<1>3. ASSUME NEW p \in Proc, InstallStart(p) \/ DevStart(p) PROVE Good
  BY <1>3, LeaseRuns, Words DEF InstallStart, DevStart, SandboxStep
<1>4. ASSUME lease' = lease, SameLife, NEW r \in RuntimeId, NEW j \in Kind,
             \/ sandbox' = sandbox
             \/ \E s \in {"created", "exited", "gone"} : Becomes(<<r, j>>, s)
      PROVE  Good
  BY <1>4, OneSandbox, LeaseEnds
<1>5. ASSUME NEW p \in Proc,
             \/ InstallCreate(p) \/ InstallWait(p) \/ InstallDestroy(p)
             \/ DevCreate(p) \/ DevAbort(p) \/ Teardown(p)
      PROVE  Good
  <2>1. target[p] \in RuntimeId
    BY <1>5 DEF InstallCreate, InstallWait, InstallDestroy, DevCreate, DevAbort, Teardown,
                LockInv, NoTarget
  <2>2. lease' = lease /\ state' = state
    BY <1>5 DEF InstallCreate, InstallWait, InstallDestroy, DevCreate, DevAbort, Teardown,
                SandboxStep
  <2>3. \E j \in Kind : \/ sandbox' = sandbox
                        \/ \E s \in {"created", "exited", "gone"} : Becomes(<<target[p], j>>, s)
    BY <1>5, Words DEF InstallCreate, InstallWait, InstallDestroy, DevCreate, DevAbort, Teardown,
                MakeSandbox, CreateRaises, DestroyRaises, TeardownRaises
  <2> QED BY <2>1, <2>2, <2>3, <1>4 DEF SameLife
<1>6. ASSUME NEW p \in Proc, StopCall(p) \/ KillCall(p) \/ DestroyCall(p) \/ CrashCall(p)
      PROVE  Good
  <2>1. target[p] \in RuntimeId /\ state[target[p]] \in State
    BY <1>6 DEF StopCall, KillCall, EndCall, DestroyCall, CrashCall, LockInv, PhaseInv,
                NoTarget, Ending, Active
  <2>2. lease' = lease
    BY <1>6 DEF StopCall, KillCall, EndCall, DestroyCall, CrashCall, records
  <2>3. SameLife
    BY <1>6, <2>1 DEF StopCall, KillCall, EndCall, DestroyCall, CrashCall, records, SameLife,
                      Save, TypeOK, State
  <2>4. \/ sandbox' = sandbox
        \/ /\ sandboxId[target[p]] # "none"
           /\ \E s \in {"created", "exited", "gone"} : Becomes(Recorded(p), s)
    BY <1>6 DEF StopCall, KillCall, EndCall, EndRaises, DestroyCall, DestroyRaisesOrEnds,
                CrashCall, End, DestroyRaises, TeardownRaises
  <2>5. sandboxId[target[p]] # "none" => sandboxId[target[p]] \in Kind
    BY <2>1 DEF TypeOK
  <2> QED BY <2>1, <2>2, <2>3, <2>4, <2>5, <1>1, <1>4 DEF Recorded
<1>7. ASSUME NEW x \in Sandbox, SandboxExits(x) \/ \E p \in Proc : OrphanDestroy(p, x)
      PROVE  Good
  <2>1. PICK r \in RuntimeId, k \in Kind : x = <<r, k>>
    BY DEF Sandbox
  <2>2. \/ sandbox' = sandbox
        \/ \E s \in {"created", "exited", "gone"} : Becomes(<<r, k>>, s)
    BY <1>7, <2>1 DEF OrphanDestroy, SandboxExits, DestroyRaises
  <2>3. lease' = lease /\ state' = state
    BY <1>7 DEF OrphanDestroy, SandboxExits, records
  <2> QED BY <2>2, <2>3, <1>4 DEF SameLife
<1>8. ASSUME NEW p \in Proc, Release(p) PROVE Good
  <2>1. PICK r \in RuntimeId : r = target[p]
    BY <1>8 DEF Release, LockInv, NoTarget
  <2>2. state' = state /\ sandbox' = sandbox /\ lease' = LeaseAfter(r)
    BY <1>8, <2>1 DEF Release
  <2>3. Used' = Used /\ Live' = Live /\ Orphans' = Orphans
    BY <2>2 DEF Used, Live, Orphans, Runs
  <2>4. CASE \A w \in Workspace : lease[w] # r
    <3>1. lease' = lease
      BY <2>2, <2>4 DEF LeaseAfter, TypeOK
    <3> QED BY <2>3, <3>1 DEF Lease!vars
  <2>5. ASSUME NEW w \in Workspace, lease[w] = r PROVE Lease!Free(w)
    <3>1. r # None /\ r \notin Live
      BY <1>8, <2>1, RuntimeManagerAssumption
      DEF Release, SandboxInv, Knows, Cleaned, Live, Proc
    <3>2. \A v \in Workspace : lease[v] = r => v = w
      BY <2>5, <3>1 DEF LeaseInv
    <3>3. lease' = [lease EXCEPT ![w] = None]
      BY <2>2, <2>5, <3>2 DEF LeaseAfter, TypeOK
    <3> QED BY <2>3, <2>5, <3>1, <3>3 DEF Lease!Free
  <2> QED BY <2>4, <2>5 DEF Lease!Next
<1>9. CASE ProcessDies
  <2>1. \A r \in RuntimeId : state'[r] = IF state[r] = "absent" THEN "absent" ELSE "lost"
    BY <1>9 DEF ProcessDies
  <2>2. \A r \in RuntimeId, k \in Kind : Runs(r, k) => state[r] # "absent"
    BY DEF SandboxInv, Kind
  <2>3. \A r \in RuntimeId, k \in Kind : Runs(r, k)' <=> Runs(r, k)
    BY <1>9 DEF ProcessDies, Runs
  <2>4. Used' = Used
    BY <2>1 DEF Used
  <2>5. Live' = {} /\ Orphans' = Orphans \cup Live
    BY <2>1, <2>2, <2>3 DEF Live, Orphans
  <2>6. Lease!Die
    BY <1>9, <2>4, <2>5 DEF ProcessDies, Lease!Die
  <2> QED BY <2>6 DEF Lease!Next
<1>10. ASSUME NEW p \in Proc, NEW r \in RuntimeId, StartBegin(p, r) PROVE Good
  BY <1>10, <1>1 DEF StartBegin, Save, SameLife, TypeOK
<1>11. ASSUME NEW p \in Proc,
              \/ Healthy(p) \/ Fail(p) \/ StopSave(p) \/ Stopped(p) \/ KillSave(p)
              \/ DestroySave(p) \/ CrashSave(p) \/ ExpirySave(p)
       PROVE  Good
  <2>1. target[p] \in RuntimeId /\ state[target[p]] \in State
    BY <1>11 DEF Healthy, Fail, StopSave, Stopped, KillSave, DestroySave, CrashSave, ExpirySave,
                 Move, LockInv, PhaseInv, NoTarget, Starting, Serving, Ending, Active, State
  <2>2. PICK s \in State : Save(target[p], s)
    BY <1>11, Words DEF Healthy, Fail, MarkFailed, StopSave, Stopped, KillSave, DestroySave,
                 CrashSave, ExpirySave, Move
  <2>3. UNCHANGED <<lease, sandbox>>
    BY <1>11 DEF Healthy, Fail, StopSave, Stopped, KillSave, DestroySave, CrashSave, ExpirySave,
                 Move
  <2>4. SameLife
    BY <2>1, <2>2 DEF Save, SameLife, TypeOK, State
  <2> QED BY <2>3, <2>4, <1>1
<1>12. ASSUME UNCHANGED <<state, lease, sandbox>> PROVE Good
  BY <1>1, <1>12 DEF SameLife
<1>13. ASSUME NEW p \in Proc,
              \/ Unhealthy(p) \/ StartRefused(p) \/ RestartBusy(p) \/ ExpiryTooLate(p)
              \/ HealthCheck(p) \/ CrashHandled(p) \/ CrashBegin(p) \/ ReconcileRead(p)
              \/ ReconcileEnd(p) \/ OrphanRead(p) \/ OrphanList(p) \/ OrphanEnd(p)
       PROVE  Good
  BY <1>12, <1>13 DEF Unhealthy, StartRefused, RestartBusy, ExpiryTooLate, HealthCheck, CrashHandled,
               CrashBegin, Begin, ReconcileRead, ReconcileEnd, OrphanRead, OrphanList, OrphanEnd,
               records
<1>14. ASSUME NEW p \in Proc, NEW r \in RuntimeId,
              \/ StopBegin(p, r) \/ KillBegin(p, r) \/ DestroyBegin(p, r)
              \/ RestartOfDestroyed(p, r) \/ HealthRead(p, r)
       PROVE  Good
  BY <1>12, <1>14 DEF StopBegin, KillBegin, DestroyBegin, Begin, RestartOfDestroyed, HealthRead, records
<1>15. ASSUME NEW p \in Proc, NEW x \in Sandbox, ReconcileStep(p, x)
       PROVE  Good
  BY <1>12, <1>15 DEF ReconcileStep, records
<1>16. ASSUME NEW r \in RuntimeId, ExpiryFires(r) PROVE Good
  BY <1>12, <1>16 DEF ExpiryFires
<1>17. CASE UNCHANGED vars
  BY <1>17, <1>12 DEF vars
<1> HIDE DEF Good, IInv
<1> QED
  BY <1>2, <1>3, <1>5, <1>6, <1>7, <1>8, <1>9, <1>10, <1>11, <1>13, <1>14, <1>15, <1>16, <1>17
  DEF Next, Request, Continue, Proc

\* RuntimeManager implements WorkspaceLease: a sandbox runs only under its
\* runtime's lease, a lease is freed only when nothing of its holder runs, and
\* what a dead process leaves behind is only ever removed.
THEOREM Refinement == Spec => ImplementsLease
<1>1. Init => Lease!Init
  <2>1. SUFFICES ASSUME Init PROVE Lease!Init
    OBVIOUS
  <2>2. \A r \in RuntimeId, k \in Kind : ~Runs(r, k)
    BY <2>1 DEF Init, Runs, Sandbox
  <2>3. Used = {} /\ Live = {} /\ Orphans = {}
    BY <2>1, <2>2 DEF Init, Used, Live, Orphans
  <2> QED BY <2>1, <2>3 DEF Init, Lease!Init
<1> QED BY <1>1, LeaseImplemented, Inductive, PTL DEF Spec, ImplementsLease, Lease!Spec

-----------------------------------------------------------------------------
(* Why the protocol of WorkspaceLease is worth implementing.               *)

\* What runs, runs under its own lease.
Leased ==
    /\ lease \in [Workspace -> RuntimeId \cup {None}]
    /\ \A r \in Live : lease[WorkspaceOf[r]] = r

LEMMA LeasedStep ==
    ASSUME Leased, [Lease!Next]_(Lease!vars)
    PROVE  Leased'
<1> USE DEF Leased
<1>1. Live \subseteq RuntimeId /\ Live' \subseteq RuntimeId
  BY DEF Live
<1> USE RuntimeManagerAssumption DEF RuntimeManagerAssumption, Proc
<1>2. ASSUME NEW r \in RuntimeId, Lease!Acquire(r) PROVE Leased'
  BY <1>1, <1>2 DEF Lease!Acquire
<1>3. ASSUME NEW r \in RuntimeId, Lease!Run(r) PROVE Leased'
  BY <1>1, <1>3 DEF Lease!Run
<1>4. ASSUME NEW r \in RuntimeId, Lease!End(r) PROVE Leased'
  BY <1>1, <1>4 DEF Lease!End
<1>5. ASSUME NEW w \in Workspace, Lease!Free(w) PROVE Leased'
  BY <1>1, <1>5 DEF Lease!Free
<1>6. CASE Lease!Die
  BY <1>6 DEF Lease!Die
<1>7. CASE UNCHANGED Lease!vars
  BY <1>7 DEF Lease!vars
<1> QED BY <1>2, <1>3, <1>4, <1>5, <1>6, <1>7 DEF Lease!Next

\* A system that keeps to the leases never runs two runtimes of one process in
\* one workspace: what RuntimeManager owes its callers follows from the
\* protocol alone.
THEOREM LeaseExcludes == Lease!Spec => []Lease!Exclusive
<1>1. Lease!Init => Leased
  BY RuntimeManagerAssumption DEF RuntimeManagerAssumption, Lease!Init, Leased
<1>2. Leased => Lease!Exclusive
  BY DEF Leased, Lease!Exclusive
<1> QED BY <1>1, <1>2, LeasedStep, PTL DEF Lease!Spec
=============================================================================
