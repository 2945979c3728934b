--------------------- MODULE LocalSandboxAndSubRipProofs ----------------------
(***************************************************************************)
(* Two components that have nothing of each other; each part is of one     *)
(* specification only.                                                     *)
(*                                                                         *)
(* LocalSandbox: what wait() and destroy() of the local provider say of a  *)
(* sandbox, for every amount of output, limit and size of the pipe, and    *)
(* whatever the process, what it forks and the threads that poll it do     *)
(* meanwhile.                                                              *)
(*                                                                         *)
(* SubRip: parse() drops nothing, the measures agree, and a saved file has *)
(* the cues that were read, for every file that can be typed or saved,     *)
(* every line the parser tells apart and every frame rate that is a        *)
(* fraction, up to 1000 frames a second, in exact arithmetic.  Files are   *)
(* sequences of any length: their loops are folds, unrolled into           *)
(* recursions, and what holds of all files is shown by induction on their  *)
(* length, one line or one block at a time.                                *)
(***************************************************************************)
EXTENDS LocalSandbox, SubRip, SequenceTheorems, FiniteSetTheorems, WellFoundedInduction, TLAPS

(***************************************************************************)
(* LocalSandbox                                                            *)
(***************************************************************************)
-----------------------------------------------------------------------------
(* The inductive invariant.                                                *)

\* What the command has written is in the pipe, or was read; what was read is
\* kept up to the limit; a reader that is done has left nothing.
StreamInv ==
    /\ left + pipe + read = Output
    /\ kept = IF read < OutputBytes THEN read ELSE OutputBytes
    /\ reader = "done" => Ended /\ pipe = 0

\* A process that was not killed has run to its end, and only one that has ended is
\* reaped; a kill() found the group of its leader, as it was not reaped.
ProcessInv ==
    /\ leader = "zero" => left = 0
    /\ reaped => Ended
    /\ leader \in {"dying", "killed"} => child # "group"

\* What the owner may count on where it is: kill() has somewhere to go on, a process
\* that was started is known until destroy() has forgotten it, and after kill() it
\* does not run.
OwnerInv ==
    /\ pc = "create" => handle = None
    /\ pc \in {"create", "start"} => leader = "none" /\ result = None
    /\ pc \in {"kill", "signal", "reap"} => then # None
    /\ Known \/ leader = "none" \/ pc = "over"
    /\ pc \in {"reap", "join", "forget", "over"} => leader # "running"
    /\ pc = "over" => handle = None

\* A result that was not late had all of the output, and a success was one.
HarvestInv ==
    result # None =>
        /\ ~late => reader = "done"
        /\ ResultIsTrue

IInv == TypeOK /\ StreamInv /\ ProcessInv /\ OwnerInv /\ HarvestInv
-----------------------------------------------------------------------------
LEMMA InvInit == Init => IInv
<1> SUFFICES ASSUME Init PROVE IInv
  OBVIOUS
<1> USE LocalSandboxAssumption DEF Init
<1>1. 0 \in 0..Output /\ 0 \in 0..PipeSize /\ 0 \in 0..OutputBytes /\ Output \in 0..Output
  OBVIOUS
<1>2. TypeOK
  BY <1>1, Zenon DEF TypeOK
<1>3. StreamInv /\ ProcessInv /\ OwnerInv /\ HarvestInv
  BY DEF StreamInv, ProcessInv, OwnerInv, HarvestInv, Ended
<1> QED BY <1>2, <1>3 DEF IInv

\* Every step of the owner, of the process, of its reader and of a thread that polls
\* it preserves the invariant.
LEMMA InvStep == IInv /\ [Next]_vars => IInv'
<1> SUFFICES ASSUME IInv, [Next]_vars PROVE IInv'
  OBVIOUS
<1> USE LocalSandboxAssumption
        DEF Goto, EnterKill, Call, Outside, Polled, Known, Ended, process, stream, outcome
<1>1. CASE Create
  <2>1. TypeOK'
    BY <1>1 DEF IInv, TypeOK, StreamInv, OwnerInv, Create
  <2>2. StreamInv'
    BY <1>1 DEF IInv, TypeOK, StreamInv, OwnerInv, Create
  <2>3. ProcessInv'
    BY <1>1 DEF IInv, TypeOK, ProcessInv, OwnerInv, Create
  <2>4. OwnerInv'
    BY <1>1 DEF IInv, TypeOK, OwnerInv, ProcessInv, Create
  <2>5. HarvestInv'
    BY <1>1 DEF IInv, HarvestInv, ResultIsTrue, StreamInv, ProcessInv, OwnerInv, Create
  <2> QED BY <2>1, <2>2, <2>3, <2>4, <2>5 DEF IInv
<1>2. CASE Start
  <2>1. TypeOK'
    BY <1>2 DEF IInv, TypeOK, StreamInv, OwnerInv, Start
  <2>2. StreamInv'
    BY <1>2 DEF IInv, TypeOK, StreamInv, OwnerInv, Start
  <2>3. ProcessInv'
    BY <1>2 DEF IInv, TypeOK, ProcessInv, OwnerInv, Start
  <2>4. OwnerInv'
    BY <1>2 DEF IInv, TypeOK, OwnerInv, ProcessInv, Start
  <2>5. HarvestInv'
    BY <1>2 DEF IInv, HarvestInv, ResultIsTrue, StreamInv, ProcessInv, OwnerInv, Start
  <2> QED BY <2>1, <2>2, <2>3, <2>4, <2>5 DEF IInv
<1>3. CASE Kill
  <2>1. TypeOK'
    BY <1>3 DEF IInv, TypeOK, StreamInv, OwnerInv, Kill
  <2>2. StreamInv'
    BY <1>3 DEF IInv, TypeOK, StreamInv, OwnerInv, Kill
  <2>3. ProcessInv'
    BY <1>3 DEF IInv, TypeOK, ProcessInv, OwnerInv, Kill
  <2>4. OwnerInv'
    BY <1>3 DEF IInv, TypeOK, OwnerInv, ProcessInv, Kill
  <2>5. HarvestInv'
    BY <1>3 DEF IInv, HarvestInv, ResultIsTrue, StreamInv, ProcessInv, OwnerInv, Kill
  <2> QED BY <2>1, <2>2, <2>3, <2>4, <2>5 DEF IInv
<1>4. CASE Killpg
  <2>1. TypeOK'
    BY <1>4 DEF IInv, TypeOK, StreamInv, OwnerInv, Killpg
  <2>2. StreamInv'
    BY <1>4 DEF IInv, TypeOK, StreamInv, OwnerInv, Killpg
  <2>3. ProcessInv'
    BY <1>4 DEF IInv, TypeOK, ProcessInv, OwnerInv, Killpg
  <2>4. OwnerInv'
    BY <1>4 DEF IInv, TypeOK, OwnerInv, ProcessInv, Killpg
  <2>5. HarvestInv'
    BY <1>4 DEF IInv, HarvestInv, ResultIsTrue, StreamInv, ProcessInv, OwnerInv, Killpg
  <2> QED BY <2>1, <2>2, <2>3, <2>4, <2>5 DEF IInv
<1>5. CASE KillEnds
  <2>1. TypeOK'
    BY <1>5 DEF IInv, TypeOK, StreamInv, OwnerInv, KillEnds
  <2>2. StreamInv'
    BY <1>5 DEF IInv, TypeOK, StreamInv, OwnerInv, KillEnds
  <2>3. ProcessInv'
    BY <1>5 DEF IInv, TypeOK, ProcessInv, OwnerInv, KillEnds
  <2>4. OwnerInv'
    BY <1>5 DEF IInv, TypeOK, OwnerInv, ProcessInv, KillEnds
  <2>5. HarvestInv'
    BY <1>5 DEF IInv, HarvestInv, ResultIsTrue, StreamInv, ProcessInv, OwnerInv, KillEnds
  <2> QED BY <2>1, <2>2, <2>3, <2>4, <2>5 DEF IInv
<1>6. CASE Waits("wait", "join")
  <2>1. TypeOK'
    BY <1>6 DEF IInv, TypeOK, StreamInv, OwnerInv, Waits
  <2>2. StreamInv'
    BY <1>6 DEF IInv, TypeOK, StreamInv, OwnerInv, Waits
  <2>3. ProcessInv'
    BY <1>6 DEF IInv, TypeOK, ProcessInv, OwnerInv, Waits
  <2>4. OwnerInv'
    BY <1>6 DEF IInv, TypeOK, OwnerInv, ProcessInv, Waits
  <2>5. HarvestInv'
    BY <1>6 DEF IInv, HarvestInv, ResultIsTrue, StreamInv, ProcessInv, OwnerInv, Waits
  <2> QED BY <2>1, <2>2, <2>3, <2>4, <2>5 DEF IInv
<1>7. CASE TimesOut("wait", "join")
  <2>1. TypeOK'
    BY <1>7 DEF IInv, TypeOK, StreamInv, OwnerInv, TimesOut
  <2>2. StreamInv'
    BY <1>7 DEF IInv, TypeOK, StreamInv, OwnerInv, TimesOut
  <2>3. ProcessInv'
    BY <1>7 DEF IInv, TypeOK, ProcessInv, OwnerInv, TimesOut
  <2>4. OwnerInv'
    BY <1>7 DEF IInv, TypeOK, OwnerInv, ProcessInv, TimesOut
  <2>5. HarvestInv'
    BY <1>7 DEF IInv, HarvestInv, ResultIsTrue, StreamInv, ProcessInv, OwnerInv, TimesOut
  <2> QED BY <2>1, <2>2, <2>3, <2>4, <2>5 DEF IInv
<1>8. CASE Harvest
  <2>1. TypeOK'
    BY <1>8 DEF IInv, TypeOK, StreamInv, OwnerInv, Harvest
  <2>2. StreamInv'
    BY <1>8 DEF IInv, TypeOK, StreamInv, OwnerInv, Harvest
  <2>3. ProcessInv'
    BY <1>8 DEF IInv, TypeOK, ProcessInv, OwnerInv, Harvest
  <2>4. OwnerInv'
    BY <1>8 DEF IInv, TypeOK, OwnerInv, ProcessInv, Harvest
  <2>5. HarvestInv'
    <3>1. /\ result'.exit_code = IF then = "join" THEN None ELSE leader
          /\ result'.timed_out <=> then = "join"
          /\ result'.stdout = kept
          /\ result'.truncated <=> read > kept
      BY <1>8, Zenon DEF Harvest
    <3>2. /\ late' = (reader # "done") /\ UNCHANGED <<leader, left, reader>>
      BY <1>8 DEF Harvest
    <3>3. kept = (IF read < OutputBytes THEN read ELSE OutputBytes) /\ left + pipe + read = Output
          /\ (reader = "done" => pipe = 0) /\ (leader = "zero" => left = 0)
          /\ left \in Nat /\ read \in Nat /\ pipe \in Nat
      BY DEF IInv, TypeOK, StreamInv, ProcessInv
    <3>4. /\ result'.exit_code = "zero" => leader = "zero" /\ left = 0
          /\ result'.timed_out => result'.exit_code = None
          /\ ~result'.truncated /\ reader = "done" => result'.stdout = Output - left
          /\ result'.truncated => result'.stdout = OutputBytes
      BY <3>1, <3>3
    <3> QED BY <3>2, <3>4 DEF HarvestInv, ResultIsTrue
  <2> QED BY <2>1, <2>2, <2>3, <2>4, <2>5 DEF IInv
<1>9. CASE Serve
  <2>1. TypeOK'
    <3>1. /\ pc' \in {"destroy", "terminate", "kill"} /\ then' \in {then, "destroy"}
          /\ reaped' \in BOOLEAN
      BY <1>9 DEF IInv, TypeOK, Serve
    <3>2. UNCHANGED <<purpose, handle, leader, child, left, pipe, reader, read, kept, late>>
      BY <1>9 DEF Serve
    <3> QED BY <3>1, <3>2 DEF IInv, TypeOK
  <2>2. StreamInv'
    BY <1>9 DEF IInv, TypeOK, StreamInv, OwnerInv, Serve
  <2>3. ProcessInv'
    BY <1>9 DEF IInv, TypeOK, ProcessInv, OwnerInv, Serve
  <2>4. OwnerInv'
    BY <1>9 DEF IInv, TypeOK, OwnerInv, ProcessInv, Serve
  <2>5. HarvestInv'
    BY <1>9 DEF IInv, HarvestInv, ResultIsTrue, StreamInv, ProcessInv, OwnerInv, Serve
  <2> QED BY <2>1, <2>2, <2>3, <2>4, <2>5 DEF IInv
<1>10. CASE Terminate
  <2>1. TypeOK'
    BY <1>10 DEF IInv, TypeOK, StreamInv, OwnerInv, Terminate
  <2>2. StreamInv'
    BY <1>10 DEF IInv, TypeOK, StreamInv, OwnerInv, Terminate
  <2>3. ProcessInv'
    BY <1>10 DEF IInv, TypeOK, ProcessInv, OwnerInv, Terminate
  <2>4. OwnerInv'
    BY <1>10 DEF IInv, TypeOK, OwnerInv, ProcessInv, Terminate
  <2>5. HarvestInv'
    BY <1>10 DEF IInv, HarvestInv, ResultIsTrue, StreamInv, ProcessInv, OwnerInv, Terminate
  <2> QED BY <2>1, <2>2, <2>3, <2>4, <2>5 DEF IInv
<1>11. CASE Waits("stop", "destroy")
  <2>1. TypeOK'
    BY <1>11 DEF IInv, TypeOK, StreamInv, OwnerInv, Waits
  <2>2. StreamInv'
    BY <1>11 DEF IInv, TypeOK, StreamInv, OwnerInv, Waits
  <2>3. ProcessInv'
    BY <1>11 DEF IInv, TypeOK, ProcessInv, OwnerInv, Waits
  <2>4. OwnerInv'
    BY <1>11 DEF IInv, TypeOK, OwnerInv, ProcessInv, Waits
  <2>5. HarvestInv'
    BY <1>11 DEF IInv, HarvestInv, ResultIsTrue, StreamInv, ProcessInv, OwnerInv, Waits
  <2> QED BY <2>1, <2>2, <2>3, <2>4, <2>5 DEF IInv
<1>12. CASE TimesOut("stop", "destroy")
  <2>1. TypeOK'
    BY <1>12 DEF IInv, TypeOK, StreamInv, OwnerInv, TimesOut
  <2>2. StreamInv'
    BY <1>12 DEF IInv, TypeOK, StreamInv, OwnerInv, TimesOut
  <2>3. ProcessInv'
    BY <1>12 DEF IInv, TypeOK, ProcessInv, OwnerInv, TimesOut
  <2>4. OwnerInv'
    BY <1>12 DEF IInv, TypeOK, OwnerInv, ProcessInv, TimesOut
  <2>5. HarvestInv'
    BY <1>12 DEF IInv, HarvestInv, ResultIsTrue, StreamInv, ProcessInv, OwnerInv, TimesOut
  <2> QED BY <2>1, <2>2, <2>3, <2>4, <2>5 DEF IInv
<1>13. CASE Destroy
  <2>1. TypeOK'
    BY <1>13 DEF IInv, TypeOK, StreamInv, OwnerInv, Destroy, MustKill
  <2>2. StreamInv'
    BY <1>13 DEF IInv, TypeOK, StreamInv, OwnerInv, Destroy, MustKill
  <2>3. ProcessInv'
    BY <1>13 DEF IInv, TypeOK, ProcessInv, OwnerInv, Destroy, MustKill
  <2>4. OwnerInv'
    BY <1>13 DEF IInv, TypeOK, OwnerInv, ProcessInv, Destroy, MustKill
  <2>5. HarvestInv'
    BY <1>13 DEF IInv, HarvestInv, ResultIsTrue, StreamInv, ProcessInv, OwnerInv, Destroy, MustKill
  <2> QED BY <2>1, <2>2, <2>3, <2>4, <2>5 DEF IInv
<1>14. CASE Forget
  <2>1. TypeOK'
    BY <1>14 DEF IInv, TypeOK, StreamInv, OwnerInv, Forget
  <2>2. StreamInv'
    BY <1>14 DEF IInv, TypeOK, StreamInv, OwnerInv, Forget
  <2>3. ProcessInv'
    BY <1>14 DEF IInv, TypeOK, ProcessInv, OwnerInv, Forget
  <2>4. OwnerInv'
    BY <1>14 DEF IInv, TypeOK, OwnerInv, ProcessInv, Forget
  <2>5. HarvestInv'
    BY <1>14 DEF IInv, HarvestInv, ResultIsTrue, StreamInv, ProcessInv, OwnerInv, Forget
  <2> QED BY <2>1, <2>2, <2>3, <2>4, <2>5 DEF IInv
<1>15. CASE Writes
  <2>1. TypeOK'
    BY <1>15 DEF IInv, TypeOK, StreamInv, OwnerInv, Writes
  <2>2. StreamInv'
    BY <1>15 DEF IInv, TypeOK, StreamInv, OwnerInv, Writes
  <2>3. ProcessInv'
    BY <1>15 DEF IInv, TypeOK, ProcessInv, OwnerInv, Writes
  <2>4. OwnerInv'
    BY <1>15 DEF IInv, TypeOK, OwnerInv, ProcessInv, Writes
  <2>5. HarvestInv'
    BY <1>15 DEF IInv, HarvestInv, ResultIsTrue, StreamInv, ProcessInv, OwnerInv, Writes
  <2> QED BY <2>1, <2>2, <2>3, <2>4, <2>5 DEF IInv
<1>16. CASE Ends(Exits)
  <2>1. TypeOK'
    BY <1>16 DEF IInv, TypeOK, StreamInv, OwnerInv, Ends, Exits
  <2>2. StreamInv'
    BY <1>16 DEF IInv, TypeOK, StreamInv, OwnerInv, Ends, Exits
  <2>3. ProcessInv'
    BY <1>16 DEF IInv, TypeOK, ProcessInv, OwnerInv, Ends, Exits
  <2>4. OwnerInv'
    BY <1>16 DEF IInv, TypeOK, OwnerInv, ProcessInv, Ends, Exits
  <2>5. HarvestInv'
    BY <1>16 DEF IInv, HarvestInv, ResultIsTrue, StreamInv, ProcessInv, OwnerInv, Ends, Exits
  <2> QED BY <2>1, <2>2, <2>3, <2>4, <2>5 DEF IInv
<1>17. CASE Ends(Fails)
  <2>1. TypeOK'
    BY <1>17 DEF IInv, TypeOK, StreamInv, OwnerInv, Ends, Fails
  <2>2. StreamInv'
    BY <1>17 DEF IInv, TypeOK, StreamInv, OwnerInv, Ends, Fails
  <2>3. ProcessInv'
    BY <1>17 DEF IInv, TypeOK, ProcessInv, OwnerInv, Ends, Fails
  <2>4. OwnerInv'
    BY <1>17 DEF IInv, TypeOK, OwnerInv, ProcessInv, Ends, Fails
  <2>5. HarvestInv'
    BY <1>17 DEF IInv, HarvestInv, ResultIsTrue, StreamInv, ProcessInv, OwnerInv, Ends, Fails
  <2> QED BY <2>1, <2>2, <2>3, <2>4, <2>5 DEF IInv
<1>18. CASE Ends(Dies)
  <2>1. TypeOK'
    BY <1>18 DEF IInv, TypeOK, StreamInv, OwnerInv, Ends, Dies
  <2>2. StreamInv'
    BY <1>18 DEF IInv, TypeOK, StreamInv, OwnerInv, Ends, Dies
  <2>3. ProcessInv'
    BY <1>18 DEF IInv, TypeOK, ProcessInv, OwnerInv, Ends, Dies
  <2>4. OwnerInv'
    BY <1>18 DEF IInv, TypeOK, OwnerInv, ProcessInv, Ends, Dies
  <2>5. HarvestInv'
    BY <1>18 DEF IInv, HarvestInv, ResultIsTrue, StreamInv, ProcessInv, OwnerInv, Ends, Dies
  <2> QED BY <2>1, <2>2, <2>3, <2>4, <2>5 DEF IInv
<1>19. CASE Forks
  <2>1. TypeOK'
    BY <1>19 DEF IInv, TypeOK, StreamInv, OwnerInv, Forks
  <2>2. StreamInv'
    BY <1>19 DEF IInv, TypeOK, StreamInv, OwnerInv, Forks
  <2>3. ProcessInv'
    BY <1>19 DEF IInv, TypeOK, ProcessInv, OwnerInv, Forks
  <2>4. OwnerInv'
    BY <1>19 DEF IInv, TypeOK, OwnerInv, ProcessInv, Forks
  <2>5. HarvestInv'
    BY <1>19 DEF IInv, HarvestInv, ResultIsTrue, StreamInv, ProcessInv, OwnerInv, Forks
  <2> QED BY <2>1, <2>2, <2>3, <2>4, <2>5 DEF IInv
<1>20. CASE Reads
  <2>1. TypeOK'
    BY <1>20 DEF IInv, TypeOK, StreamInv, OwnerInv, Reads, Draining
  <2>2. StreamInv'
    BY <1>20 DEF IInv, TypeOK, StreamInv, OwnerInv, Reads, Draining
  <2>3. ProcessInv'
    BY <1>20 DEF IInv, TypeOK, ProcessInv, OwnerInv, Reads, Draining
  <2>4. OwnerInv'
    BY <1>20 DEF IInv, TypeOK, OwnerInv, ProcessInv, Reads, Draining
  <2>5. HarvestInv'
    BY <1>20 DEF IInv, HarvestInv, ResultIsTrue, StreamInv, ProcessInv, OwnerInv, Reads, Draining
  <2> QED BY <2>1, <2>2, <2>3, <2>4, <2>5 DEF IInv
<1>21. CASE ReaderEnds
  <2>1. TypeOK'
    BY <1>21 DEF IInv, TypeOK, StreamInv, OwnerInv, ReaderEnds
  <2>2. StreamInv'
    BY <1>21 DEF IInv, TypeOK, StreamInv, OwnerInv, ReaderEnds
  <2>3. ProcessInv'
    BY <1>21 DEF IInv, TypeOK, ProcessInv, OwnerInv, ReaderEnds
  <2>4. OwnerInv'
    BY <1>21 DEF IInv, TypeOK, OwnerInv, ProcessInv, ReaderEnds
  <2>5. HarvestInv'
    BY <1>21 DEF IInv, HarvestInv, ResultIsTrue, StreamInv, ProcessInv, OwnerInv, ReaderEnds
  <2> QED BY <2>1, <2>2, <2>3, <2>4, <2>5 DEF IInv
<1>22. CASE Status
  <2>1. TypeOK'
    BY <1>22 DEF IInv, TypeOK, StreamInv, OwnerInv, Status
  <2>2. StreamInv'
    BY <1>22 DEF IInv, TypeOK, StreamInv, OwnerInv, Status
  <2>3. ProcessInv'
    BY <1>22 DEF IInv, TypeOK, ProcessInv, OwnerInv, Status
  <2>4. OwnerInv'
    BY <1>22 DEF IInv, TypeOK, OwnerInv, ProcessInv, Status
  <2>5. HarvestInv'
    BY <1>22 DEF IInv, HarvestInv, ResultIsTrue, StreamInv, ProcessInv, OwnerInv, Status
  <2> QED BY <2>1, <2>2, <2>3, <2>4, <2>5 DEF IInv
<1>23. CASE UNCHANGED vars
  <2>1. TypeOK'
    BY <1>23 DEF IInv, TypeOK, StreamInv, OwnerInv, vars
  <2>2. StreamInv'
    BY <1>23 DEF IInv, TypeOK, StreamInv, OwnerInv, vars
  <2>3. ProcessInv'
    BY <1>23 DEF IInv, TypeOK, ProcessInv, OwnerInv, vars
  <2>4. OwnerInv'
    BY <1>23 DEF IInv, TypeOK, OwnerInv, ProcessInv, vars
  <2>5. HarvestInv'
    BY <1>23 DEF IInv, HarvestInv, ResultIsTrue, StreamInv, ProcessInv, OwnerInv, vars
  <2> QED BY <2>1, <2>2, <2>3, <2>4, <2>5 DEF IInv
<1> QED BY <1>1, <1>2, <1>3, <1>4, <1>5, <1>6, <1>7, <1>8, <1>9, <1>10, <1>11, <1>12, <1>13, <1>14, <1>15, <1>16, <1>17, <1>18, <1>19, <1>20, <1>21, <1>22, <1>23 DEF Next, Owner

\* The invariant holds for every amount of output, limit and size of the pipe.
THEOREM Inductive == Spec => []IInv
BY InvInit, InvStep, PTL DEF Spec

\* The sandbox and its owner keep their variables in their ranges.
THEOREM TypeCorrect == Spec => []TypeOK
<1>1. IInv => TypeOK
  BY DEF IInv
<1> QED BY <1>1, Inductive, PTL

\* A success of wait() is one, output that is not said to be truncated is all of it
\* unless the reader could not be waited for, and after destroy() nothing runs on that
\* the sandbox had to end itself.
THEOREM OutcomesAreTrue == Spec => []OutcomeIsTrue
<1>1. IInv => ResultIsTrue
  BY DEF IInv, HarvestInv, ResultIsTrue
<1>2. IInv => DestroyIsFinal
  BY DEF IInv, OwnerInv, ProcessInv, DestroyIsFinal
<1>3. IInv => OutcomeIsTrue
  BY <1>1, <1>2 DEF OutcomeIsTrue
<1> QED BY <1>3, Inductive, PTL

(***************************************************************************)
(* SubRip                                                                  *)
(***************************************************************************)
-----------------------------------------------------------------------------
(* Induction, and folds as recursions.                                     *)

\* Induction on the natural numbers, for a set of them.
LEMMA NaturalInduction ==
    ASSUME NEW T \in SUBSET Nat, 0 \in T, \A n \in T : n + 1 \in T
    PROVE  T = Nat
<1> SUFFICES ASSUME Nat \ T # {} PROVE FALSE
  OBVIOUS
<1>1. PICK m \in Nat \ T : \A y \in Nat \ T : ~ (<<y, m>> \in OpToRel(<, Nat))
  BY NatLessThanWellFounded, WFMin, Zenon
<1>2. m - 1 \in Nat /\ m - 1 < m /\ m = (m - 1) + 1
  OBVIOUS
<1>3. <<m - 1, m>> \in OpToRel(<, Nat)
  <2>1. <<m - 1, m>> \in Nat \X Nat /\ <<m - 1, m>>[1] < <<m - 1, m>>[2]
    BY <1>2
  <2> QED BY <2>1, Zenon DEF OpToRel
<1>4. m - 1 \in T
  BY <1>1, <1>2, <1>3, Zenon
<1> QED BY <1>2, <1>4

\* A non-empty set of numbers up to n has a largest one.
LEMMA MaxFacts ==
    ASSUME NEW n \in Nat, NEW s \in SUBSET (1..n), s # {}
    PROVE  /\ Max(s) \in s /\ Max(s) \in 1..n
           /\ \A m \in Nat : n <= m + 1 => s \ {Max(s)} \in SUBSET (1..m)
<1> DEFINE Good == {k \in Nat : \A t \in SUBSET (1..k) : t # {} => \E x \in t : \A y \in t : x >= y}
<1>1. 0 \in Good
  <2>1. 1..0 = {}
    OBVIOUS
  <2> QED BY <2>1
<1>2. ASSUME NEW k \in Good PROVE k + 1 \in Good
  <2>1. ASSUME NEW t \in SUBSET (1..(k + 1)), t # {} PROVE \E x \in t : \A y \in t : x >= y
    <3>1. CASE k + 1 \in t
      BY <3>1
    <3>2. CASE k + 1 \notin t
      <4>1. t \in SUBSET (1..k)
        BY <3>2
      <4> QED BY <4>1, <2>1
    <3> QED BY <3>1, <3>2
  <2> QED BY <2>1
<1>3. Good = Nat
  <2> HIDE DEF Good
  <2> QED BY <1>1, <1>2, NaturalInduction DEF Good
<1>4. \E x \in s : \A y \in s : x >= y
  BY <1>3
<1>5. Max(s) \in s /\ \A y \in s : Max(s) >= y
  BY <1>4 DEF Max
<1>6. Max(s) \in 1..n
  BY <1>5, Zenon
<1>7. ASSUME NEW m \in Nat, n <= m + 1, NEW y \in s \ {Max(s)} PROVE y \in 1..m
  <2>1. y \in 1..n /\ y # Max(s) /\ Max(s) >= y
    BY <1>5, Zenon
  <2> QED BY <2>1, <1>6, <1>7
<1> QED BY <1>5, <1>6, <1>7

\* The largest of 1..n, which the folds of the community modules take first.
LEMMA MaxUpTo ==
    ASSUME NEW n \in Nat \ {0}
    PROVE  Max(1..n) = n /\ (1..n) \ {n} = 1..(n - 1) /\ 1..n # {}
<1>1. n \in 1..n /\ 1..n # {}
  OBVIOUS
<1>2. Max(1..n) \in 1..n
  BY <1>1, MaxFacts
<1>3. \A y \in 1..n : Max(1..n) >= y
  BY <1>1 DEF Max
<1> QED BY <1>1, <1>2, <1>3

\* MapThenFoldSet(), as the folds of the community modules choose it.
Iterates(it, N, X, base, step) ==
    /\ it \in [SUBSET (1..N) -> X]
    /\ \A s \in SUBSET (1..N) : it[s] = IF s = {} THEN base ELSE step[<<Max(s), it[s \ {Max(s)}]>>]

\* A function on the sets of 1..N that takes their largest element off, one step
\* for each, exists: MapThenFoldSet() chooses it.
LEMMA Iteration ==
    ASSUME NEW N \in Nat, NEW X, NEW base \in X, NEW step \in [(1..N) \X X -> X]
    PROVE  \E it : Iterates(it, N, X, base, step)
<1> DEFINE Body(g, s) == IF s = {} THEN base ELSE step[<<Max(s), g[s \ {Max(s)}]>>]
           Good == {n \in Nat : n <= N => \E g \in [SUBSET (1..N) -> X] :
                                    \A s \in SUBSET (1..n) : g[s] = Body(g, s)}
<1>1. 0 \in Good
  <2> DEFINE g == [s \in SUBSET (1..N) |-> base]
  <2>1. g \in [SUBSET (1..N) -> X] /\ \A s \in SUBSET (1..0) : g[s] = Body(g, s)
    OBVIOUS
  <2> HIDE DEF g
  <2> QED BY <2>1
<1>2. ASSUME NEW n \in Good PROVE n + 1 \in Good
  <2>1. CASE n + 1 <= N
    <3>0. n \in Nat /\ n <= N
      BY <2>1
    <3>1. PICK g \in [SUBSET (1..N) -> X] : \A s \in SUBSET (1..n) : g[s] = Body(g, s)
      BY <3>0
    <3> DEFINE h == [s \in SUBSET (1..N) |-> Body(g, s)]
    <3>2. h \in [SUBSET (1..N) -> X]
      <4> SUFFICES ASSUME NEW s \in SUBSET (1..N) PROVE Body(g, s) \in X
        OBVIOUS
      <4>1. CASE s # {}
        <5>1. Max(s) \in 1..N /\ s \ {Max(s)} \in SUBSET (1..N)
          BY <4>1, MaxFacts
        <5>2. <<Max(s), g[s \ {Max(s)}]>> \in (1..N) \X X
          BY <5>1
        <5> QED BY <5>2
      <4> QED BY <4>1
    <3>3. ASSUME NEW s \in SUBSET (1..(n + 1)) PROVE h[s] = Body(h, s)
      <4>0. s \in SUBSET (1..N)
        BY <2>1, <3>0
      <4>1. CASE s # {}
        <5>1. s \ {Max(s)} \in SUBSET (1..n)
          BY <4>1, <3>0, MaxFacts
        <5>2. h[s \ {Max(s)}] = g[s \ {Max(s)}]
          <6>1. s \ {Max(s)} \in SUBSET (1..N)
            BY <5>1, <3>0
          <6>2. h[s \ {Max(s)}] = Body(g, s \ {Max(s)})
            BY <6>1
          <6> QED BY <6>2, <5>1, <3>1
        <5> QED BY <5>2, <4>0
      <4> QED BY <4>1, <4>0
    <3> HIDE DEF h
    <3>4. \A s \in SUBSET (1..(n + 1)) : h[s] = Body(h, s)
      BY <3>3
    <3>5. n + 1 \in Nat
      BY <3>0
    <3> HIDE DEF Body
    <3> QED BY <3>2, <3>4, <3>5, Zenon
  <2>2. CASE ~(n + 1 <= N)
    BY <2>2
  <2> QED BY <2>1, <2>2
<1>3. Good = Nat
  <2> HIDE DEF Good
  <2> QED BY <1>1, <1>2, NaturalInduction DEF Good
<1>4. N \in Good /\ N <= N
  <2> HIDE DEF Good
  <2> QED BY <1>3
<1>5. \E g \in [SUBSET (1..N) -> X] : \A s \in SUBSET (1..N) : g[s] = Body(g, s)
  <2> HIDE DEF Body
  <2> QED BY <1>4
<1> QED BY <1>5 DEF Iterates

\* What such a function does on the sets 1..n.
Climbs(it, N, X, base, step) ==
    /\ it[1..0] = base
    /\ \A n \in 1..N : it[1..(n - 1)] \in X => it[1..n] = step[<<n, it[1..(n - 1)]>>]

\* A recursion from 0 to N.
Unrolls(g, N, X, base, step) ==
    /\ g \in [0..N -> X]
    /\ g[0] = base
    /\ \A n \in 1..N : g[n] = step[<<n, g[n - 1]>>]

\* Such a function, read on the sets 1..n only, is a recursion from 0 to N.
LEMMA Unrolled ==
    ASSUME NEW N \in Nat, NEW X, NEW base \in X, NEW step \in [(1..N) \X X -> X], NEW it,
           Climbs(it, N, X, base, step)
    PROVE  Unrolls([n \in 0..N |-> it[1..n]], N, X, base, step)
<1> USE DEF Climbs, Unrolls
<1> DEFINE Good == {n \in Nat : n <= N => it[1..n] \in X}
<1>1. 0 \in Good
  OBVIOUS
<1>2. ASSUME NEW n \in Good PROVE n + 1 \in Good
  <2>1. CASE n + 1 <= N
    <3>1. it[1..((n + 1) - 1)] \in X /\ n + 1 \in 1..N /\ (n + 1) - 1 = n
      BY <2>1
    <3>2. it[1..(n + 1)] = step[<<n + 1, it[1..n]>>]
      BY <3>1
    <3> QED BY <3>1, <3>2
  <2> QED BY <2>1
<1>3. Good = Nat
  <2> HIDE DEF Good
  <2> QED BY <1>1, <1>2, NaturalInduction DEF Good
<1>4. \A n \in 0..N : it[1..n] \in X
  BY <1>3
<1> DEFINE h == [n \in 0..N |-> it[1..n]]
<1>5. h \in [0..N -> X] /\ h = [n \in 0..N |-> it[1..n]]
  BY <1>4
<1>6. h[0] = base
  OBVIOUS
<1>7. ASSUME NEW n \in 1..N PROVE h[n] = step[<<n, h[n - 1]>>]
  <2>1. n \in 0..N /\ n - 1 \in 0..N
    OBVIOUS
  <2> QED BY <2>1, <1>4
<1> QED BY <1>5, <1>6, <1>7

\* What _aksharas() has at any time.
Syllables == [merged : Seq(Seq(Cluster)), carry : Seq(Cluster)]

\* One cluster more keeps the syllables syllables.
LEMMA MergeType ==
    ASSUME NEW s \in Syllables, NEW c \in Cluster
    PROVE  Merge(s, c) \in Syllables
<1>1. CASE Joins(c)
  <2>1. Merge(s, c) = [merged |-> s.merged, carry |-> Append(s.carry, c)]
    BY <1>1 DEF Merge, Syllables
  <2>2. Append(s.carry, c) \in Seq(Cluster) /\ s.merged \in Seq(Seq(Cluster))
    BY DEF Syllables
  <2> QED BY <2>1, <2>2 DEF Syllables
<1>2. CASE ~Joins(c)
  <2>1. Append(s.carry, c) \in Seq(Cluster) /\ s.merged \in Seq(Seq(Cluster))
    BY DEF Syllables
  <2>2. Append(s.merged, Append(s.carry, c)) \in Seq(Seq(Cluster)) /\ <<>> \in Seq(Cluster)
    BY <2>1
  <2>3. Merge(s, c) = [merged |-> Append(s.merged, Append(s.carry, c)), carry |-> <<>>]
    BY <1>2 DEF Merge
  <2> QED BY <2>2, <2>3 DEF Syllables
<1> QED BY <1>1, <1>2

\* _aksharas(), one cluster after the other.
LEMMA AksharaFold ==
    ASSUME NEW clusters \in Seq(Cluster)
    PROVE  \E g \in [0..Len(clusters) -> Syllables] :
             /\ g[0] = [merged |-> <<>>, carry |-> <<>>]
             /\ \A n \in 1..Len(clusters) : g[n] = Merge(g[n - 1], clusters[n])
             /\ Aksharas(clusters) = g[Len(clusters)].merged \o Rest(g[Len(clusters)])
<1> DEFINE N == Len(clusters)
           base == [merged |-> <<>>, carry |-> <<>>]
           step == [p \in (1..N) \X Syllables |-> Merge(p[2], clusters[p[1]])]
           It(it) == it = [s \in SUBSET DOMAIN clusters |->
                             IF s = {} THEN base ELSE Merge(it[s \ {Max(s)}], clusters[Max(s)])]
           end == FoldLeft(Merge, base, clusters)
<1>1. N \in Nat /\ DOMAIN clusters = 1..N /\ \A n \in 1..N : clusters[n] \in Cluster
  OBVIOUS
<1>2. base \in Syllables
  BY DEF Syllables
<1>3. step \in [(1..N) \X Syllables -> Syllables]
  BY <1>1, MergeType
<1>4. end = (CHOOSE it : It(it))[1..N]
  BY <1>1 DEF FoldLeft, MapThenFoldSet
<1>5. \E it : It(it)
  <2>1. PICK it : Iterates(it, N, Syllables, base, step)
    <3>1. N \in Nat
      BY <1>1
    <3> HIDE DEF N, base, step
    <3> QED BY <3>1, <1>2, <1>3, Iteration
  <2>2. ASSUME NEW s \in SUBSET (1..N), s # {}
        PROVE  it[s] = Merge(it[s \ {Max(s)}], clusters[Max(s)])
    <3>1. Max(s) \in 1..N /\ s \ {Max(s)} \in SUBSET (1..N)
      <4> HIDE DEF N
      <4> QED BY <1>1, <2>2, MaxFacts
    <3> QED BY <3>1, <2>1, <2>2 DEF Iterates
  <2>3. It(it)
    BY <1>1, <2>1, <2>2 DEF Iterates
  <2> QED BY <2>3
<1> DEFINE it == CHOOSE it : It(it)
           g == [n \in 0..N |-> it[1..n]]
<1>6. It(it)
  <2> HIDE DEF It
  <2> QED BY <1>5
<1>7. it[1..0] = base
  <2>1. 1..0 = {} /\ {} \in SUBSET DOMAIN clusters
    OBVIOUS
  <2> QED BY <1>6, <2>1
<1>8. ASSUME NEW n \in 1..N, it[1..(n - 1)] \in Syllables
      PROVE  it[1..n] = step[<<n, it[1..(n - 1)]>>]
  <2>1. Max(1..n) = n /\ (1..n) \ {n} = 1..(n - 1) /\ 1..n # {}
    BY MaxUpTo
  <2>2. 1..n \in SUBSET DOMAIN clusters
    BY <1>1
  <2>3. it[1..n] = Merge(it[1..(n - 1)], clusters[n])
    BY <1>6, <2>1, <2>2
  <2>4. <<n, it[1..(n - 1)]>> \in (1..N) \X Syllables
    BY <1>8
  <2> HIDE DEF it, N
  <2> QED BY <2>3, <2>4
<1>9. Unrolls(g, N, Syllables, base, step)
  <2>1. N \in Nat
    BY <1>1
  <2> HIDE DEF it, step, base, N
  <2>2. Climbs(it, N, Syllables, base, step)
    BY <1>7, <1>8 DEF Climbs
  <2> QED BY <2>1, <2>2, <1>2, <1>3, Unrolled
<1>10. \A n \in 1..N : g[n] = Merge(g[n - 1], clusters[n])
  <2> SUFFICES ASSUME NEW n \in 1..N PROVE g[n] = Merge(g[n - 1], clusters[n])
    OBVIOUS
  <2>1. n - 1 \in 0..N
    BY <1>1
  <2> HIDE DEF g, N
  <2>2. <<n, g[n - 1]>> \in (1..N) \X Syllables
    <3> HIDE DEF step, base
    <3> QED BY <1>9, <2>1 DEF Unrolls
  <2> QED BY <1>9, <2>2 DEF Unrolls
<1>11. end = g[N]
  BY <1>4, <1>1
<1>12. Aksharas(clusters) = end.merged \o Rest(end)
  BY DEF Aksharas
<1> HIDE DEF end, g, step
<1>13. g \in [0..N -> Syllables] /\ g[0] = base
  BY <1>9 DEF Unrolls
<1> QED BY <1>10, <1>11, <1>12, <1>13

\* A recursion from 0 to N exists.
LEMMA Recursion ==
    ASSUME NEW N \in Nat, NEW X, NEW base \in X, NEW step \in [(1..N) \X X -> X]
    PROVE  \E g : Unrolls(g, N, X, base, step)
<1>1. PICK it : Iterates(it, N, X, base, step)
  BY Iteration
<1>2. Climbs(it, N, X, base, step)
  <2>1. it[1..0] = base
    <3>1. 1..0 = {} /\ {} \in SUBSET (1..N)
      OBVIOUS
    <3> QED BY <1>1, <3>1 DEF Iterates
  <2>2. ASSUME NEW n \in 1..N PROVE it[1..n] = step[<<n, it[1..(n - 1)]>>]
    <3>1. Max(1..n) = n /\ (1..n) \ {n} = 1..(n - 1) /\ 1..n # {}
      BY MaxUpTo
    <3>2. 1..n \in SUBSET (1..N)
      OBVIOUS
    <3> QED BY <1>1, <3>1, <3>2 DEF Iterates
  <2> QED BY <2>1, <2>2 DEF Climbs
<1> QED BY <1>2, Unrolled

\* Two recursions that start and go on alike are the same.
LEMMA Agree ==
    ASSUME NEW N \in Nat, NEW g, NEW h, g[0] = h[0],
           \A n \in 1..N : g[n - 1] = h[n - 1] => g[n] = h[n]
    PROVE  \A n \in 0..N : g[n] = h[n]
<1> DEFINE Good == {n \in Nat : n <= N => g[n] = h[n]}
<1>1. 0 \in Good
  OBVIOUS
<1>2. ASSUME NEW n \in Good PROVE n + 1 \in Good
  <2>1. CASE n + 1 <= N
    <3>1. n + 1 \in 1..N /\ (n + 1) - 1 = n /\ g[n] = h[n]
      BY <2>1
    <3>2. g[n + 1] = h[n + 1]
      BY <3>1
    <3> QED BY <3>2
  <2> QED BY <2>1
<1>3. Good = Nat
  <2> HIDE DEF Good
  <2> QED BY <1>1, <1>2, NaturalInduction DEF Good
<1> QED BY <1>3

-----------------------------------------------------------------------------
(* FlattenSeq(). *)

\* The step of FlattenSeq().
Join(seqs, T) == [p \in (1..Len(seqs)) \X Seq(T) |-> p[2] \o seqs[p[1]]]

\* FlattenSeq(), one sequence after the other.
LEMMA FlattenIs ==
    ASSUME NEW T, NEW seqs \in Seq(Seq(T))
    PROVE  \E g \in [0..Len(seqs) -> Seq(T)] :
             /\ g[0] = <<>>
             /\ \A n \in 1..Len(seqs) : g[n] = g[n - 1] \o seqs[n]
             /\ FlattenSeq(seqs) = g[Len(seqs)]
<1> DEFINE N == Len(seqs)
           step == Join(seqs, T)
           It(f) == f = [i \in 1..N |-> IF i = 1 THEN seqs[i] ELSE f[i - 1] \o seqs[i]]
           f == CHOOSE f : It(f)
           g == [n \in 0..N |-> IF n = 0 THEN <<>> ELSE f[n]]
<1>1. N \in Nat /\ \A n \in 1..N : seqs[n] \in Seq(T)
  OBVIOUS
<1>2. step \in [(1..N) \X Seq(T) -> Seq(T)]
  BY <1>1 DEF Join
<1>3. PICK h : Unrolls(h, N, Seq(T), <<>>, step)
  <2>1. <<>> \in Seq(T)
    OBVIOUS
  <2> HIDE DEF N, step
  <2> QED BY <1>1, <1>2, <2>1, Recursion
<1>4. \A n \in 1..N : h[n] = h[n - 1] \o seqs[n]
  <2> SUFFICES ASSUME NEW n \in 1..N PROVE h[n] = h[n - 1] \o seqs[n]
    OBVIOUS
  <2>1. n - 1 \in 0..N
    BY <1>1
  <2>2. <<n, h[n - 1]>> \in (1..N) \X Seq(T)
    BY <1>3, <2>1 DEF Unrolls
  <2> QED BY <1>3, <2>2 DEF Unrolls, Join
<1>5. h[0] = <<>> /\ h \in [0..N -> Seq(T)]
  BY <1>3 DEF Unrolls
<1>6. \E e : It(e)
  <2> DEFINE e == [i \in 1..N |-> h[i]]
  <2>1. ASSUME NEW i \in 1..N PROVE e[i] = IF i = 1 THEN seqs[i] ELSE e[i - 1] \o seqs[i]
    <3>1. CASE i = 1
      <4>1. <<>> \o seqs[1] = seqs[1]
        BY <1>1, <3>1
      <4>2. 1 \in 1..N /\ 1 - 1 = 0
        BY <3>1
      <4>3. h[1] = h[0] \o seqs[1]
        BY <1>4, <4>2
      <4> HIDE DEF N
      <4> QED BY <3>1, <1>5, <4>1, <4>3
    <3>2. CASE i # 1
      <4>1. i - 1 \in 1..N
        BY <3>2
      <4> QED BY <3>2, <1>4, <4>1
    <3> QED BY <3>1, <3>2
  <2>2. It(e)
    BY <2>1
  <2> HIDE DEF It, e
  <2> QED BY <2>2
<1>7. It(f)
  <2> HIDE DEF It
  <2> QED BY <1>6
<1>8. g[0] = h[0]
  BY <1>5, <1>1
<1>9. ASSUME NEW n \in 1..N, g[n - 1] = h[n - 1] PROVE g[n] = h[n]
  <2>1. CASE n = 1
    <3>1. <<>> \o seqs[1] = seqs[1]
      BY <1>1, <2>1
    <3>2. f[1] = seqs[1]
      BY <1>7, <2>1
    <3>3. 1 \in 1..N /\ 1 - 1 = 0 /\ g[1] = f[1]
      BY <2>1
    <3>4. h[1] = h[0] \o seqs[1]
      BY <1>4, <3>3
    <3> HIDE DEF f, g, N
    <3> QED BY <2>1, <1>5, <3>1, <3>2, <3>3, <3>4
  <2>2. CASE n # 1
    <3>1. n - 1 \in 1..N /\ n \in 0..N /\ n - 1 \in 0..N /\ n - 1 # 0
      BY <2>2
    <3>2. f[n] = f[n - 1] \o seqs[n]
      BY <1>7, <2>2
    <3>3. g[n] = f[n] /\ g[n - 1] = f[n - 1]
      BY <3>1, <2>2
    <3> HIDE DEF f, It, g, N
    <3> QED BY <3>2, <3>3, <1>4, <1>9
  <2> QED BY <2>1, <2>2
<1>10. \A n \in 0..N : g[n] = h[n]
  <2> HIDE DEF g, N
  <2> QED BY <1>1, <1>8, <1>9, Agree, ZenonT(60)
<1>11. FlattenSeq(seqs) = g[N]
  <2>1. CASE N = 0
    <3>1. seqs = <<>>
      BY <2>1
    <3> QED BY <2>1, <3>1 DEF FlattenSeq
  <2>2. CASE N # 0
    <3>1. FlattenSeq(seqs) = f[N]
      BY <2>2, <1>1 DEF FlattenSeq
    <3> HIDE DEF f
    <3> QED BY <2>2, <3>1, <1>1
  <2> QED BY <2>1, <2>2
<1>12. FlattenSeq(seqs) = h[N]
  <2> HIDE DEF g
  <2> QED BY <1>1, <1>10, <1>11
<1> QED BY <1>4, <1>5, <1>12

\* Sequences of one kind, put together, are a sequence of it.
LEMMA FlattenType ==
    ASSUME NEW T, NEW seqs \in Seq(Seq(T)) PROVE FlattenSeq(seqs) \in Seq(T)
<1>1. Len(seqs) \in 0..Len(seqs)
  OBVIOUS
<1>2. PICK g \in [0..Len(seqs) -> Seq(T)] : FlattenSeq(seqs) = g[Len(seqs)]
  BY FlattenIs
<1> QED BY <1>1, <1>2

\* Nothing, put together.
LEMMA FlattenEmpty == FlattenSeq(<<>>) = <<>>
BY DEF FlattenSeq

\* One sequence more is put at the end.
LEMMA FlattenAppend ==
    ASSUME NEW T, NEW seqs \in Seq(Seq(T)), NEW s \in Seq(T)
    PROVE  FlattenSeq(Append(seqs, s)) = FlattenSeq(seqs) \o s
<1> DEFINE N == Len(seqs)
<1>1. /\ N \in Nat /\ Append(seqs, s) \in Seq(Seq(T)) /\ Len(Append(seqs, s)) = N + 1
      /\ Append(seqs, s)[N + 1] = s /\ \A n \in 1..N : Append(seqs, s)[n] = seqs[n]
  OBVIOUS
<1> HIDE DEF N
<1>2. PICK g : /\ g[0] = <<>>
               /\ \A n \in 1..N : g[n] = g[n - 1] \o seqs[n]
               /\ FlattenSeq(seqs) = g[N]
  BY FlattenIs DEF N
<1> DEFINE all == Append(seqs, s)
<1> HIDE DEF all
<1>0. all \in Seq(Seq(T)) /\ Len(all) = N + 1
  BY <1>1 DEF all
<1>3. PICK h : /\ h[0] = <<>>
               /\ \A n \in 1..(N + 1) : h[n] = h[n - 1] \o all[n]
               /\ FlattenSeq(all) = h[N + 1]
  <2>1. PICK h : /\ h[0] = <<>>
                 /\ \A n \in 1..Len(all) : h[n] = h[n - 1] \o all[n]
                 /\ FlattenSeq(all) = h[Len(all)]
    BY <1>0, FlattenIs
  <2> QED BY <2>1, <1>0
<1>4. ASSUME NEW n \in 1..N, g[n - 1] = h[n - 1] PROVE g[n] = h[n]
  <2>1. n \in 1..(N + 1) /\ all[n] = seqs[n]
    BY <1>1 DEF all
  <2> QED BY <1>2, <1>3, <1>4, <2>1
<1>5. g[N] = h[N]
  <2>1. N \in Nat /\ g[0] = h[0]
    BY <1>1, <1>2, <1>3
  <2>2. \A n \in 0..N : g[n] = h[n]
    BY <2>1, <1>4, Agree, ZenonT(60)
  <2> QED BY <2>1, <2>2
<1>6. N + 1 \in 1..(N + 1) /\ (N + 1) - 1 = N /\ all[N + 1] = s
  BY <1>1 DEF all
<1> QED BY <1>2, <1>3, <1>5, <1>6 DEF all

\* Sequences that are not empty are at most as many as their elements.
LEMMA FlattenGrows ==
    ASSUME NEW T, NEW seqs \in Seq(Seq(T) \ {<<>>})
    PROVE  Len(FlattenSeq(seqs)) \in Nat /\ Len(seqs) <= Len(FlattenSeq(seqs))
<1> DEFINE N == Len(seqs)
<1>1. N \in Nat /\ seqs \in Seq(Seq(T)) /\ \A n \in 1..N : seqs[n] \in Seq(T) /\ seqs[n] # <<>>
  OBVIOUS
<1>2. PICK g \in [0..N -> Seq(T)] :
             /\ g[0] = <<>>
             /\ \A n \in 1..N : g[n] = g[n - 1] \o seqs[n]
             /\ FlattenSeq(seqs) = g[N]
  BY <1>1, FlattenIs
<1> HIDE DEF N
<1> DEFINE Good == {n \in Nat : n <= N => Len(g[n]) \in Nat /\ n <= Len(g[n])}
<1>3. 0 \in Good
  <2>1. Len(g[0]) = 0
    BY <1>2
  <2> QED BY <2>1
<1>4. ASSUME NEW n \in Good PROVE n + 1 \in Good
  <2>1. CASE n + 1 <= N
    <3>1. n \in 0..N /\ n + 1 \in 1..N /\ (n + 1) - 1 = n /\ n \in Nat
      BY <1>1, <2>1
    <3>2. Len(g[n]) \in Nat /\ n <= Len(g[n]) /\ g[n] \in Seq(T)
      BY <1>1, <1>2, <2>1, <3>1
    <3>3. g[n + 1] = g[n] \o seqs[n + 1]
      BY <1>2, <3>1
    <3>4. seqs[n + 1] \in Seq(T) /\ Len(seqs[n + 1]) \in Nat /\ Len(seqs[n + 1]) > 0
      BY <1>1, <3>1
    <3>5. Len(g[n + 1]) = Len(g[n]) + Len(seqs[n + 1])
      BY <3>2, <3>3, <3>4
    <3>6. Len(g[n + 1]) \in Nat /\ n + 1 <= Len(g[n + 1])
      BY <3>1, <3>2, <3>4, <3>5
    <3> QED BY <3>1, <3>6
  <2>2. CASE ~(n + 1 <= N)
    BY <2>2
  <2> QED BY <2>1, <2>2
<1>5. Good = Nat
  <2> HIDE DEF Good
  <2> QED BY <1>3, <1>4, NaturalInduction DEF Good
<1>6. Len(g[N]) \in Nat /\ N <= Len(g[N])
  <2>1. N \in Nat /\ N <= N
    BY <1>1
  <2>2. N \in Good
    <3> HIDE DEF Good
    <3> QED BY <1>5, <2>1
  <2> QED BY <2>1, <2>2
<1> QED BY <1>2, <1>6 DEF N

-----------------------------------------------------------------------------
(* Aksharas.                                                               *)

\* What has been cut off: the clusters are all there, a syllable ends where one stands.
Cut(s, clusters, n) ==
    /\ FlattenSeq(s.merged) \o s.carry = SubSeq(clusters, 1, n)
    /\ \A i \in DOMAIN s.carry : Joins(s.carry[i])
    /\ \A k \in DOMAIN s.merged : \A i \in DOMAIN s.merged[k] :
          ~Joins(s.merged[k][i]) <=> i = Len(s.merged[k])
    /\ n > 0 => (s.carry # <<>> <=> Joins(clusters[n]))
    /\ Len(s.merged) + Len(s.carry) <= n

\* Putting sequences together is associative.
LEMMA Regroup ==
    ASSUME NEW T, NEW s \in Seq(T), NEW t \in Seq(T), NEW u \in Seq(T)
    PROVE  (s \o t) \o u = s \o (t \o u)
OBVIOUS

\* The count of a syllable closed or carried on.
LEMMA Grown ==
    ASSUME NEW a \in Nat, NEW b \in Nat, NEW n \in Nat, a + b <= n
    PROVE  a + (b + 1) <= n + 1 /\ (a + 1) + 0 <= n + 1 /\ a <= n /\ (b > 0 => a + 1 <= n)
OBVIOUS

\* One more cluster, merged as _aksharas() does, is cut right.
LEMMA CutStep ==
    ASSUME NEW clusters \in Seq(Cluster), NEW n \in 0..(Len(clusters) - 1), NEW s \in Syllables,
           Cut(s, clusters, n)
    PROVE  Cut(Merge(s, clusters[n + 1]), clusters, n + 1)
<1> DEFINE c == clusters[n + 1]
           m == Merge(s, c)
<1>0. n \in Nat /\ n + 1 \in 1..Len(clusters) /\ c \in Cluster
  OBVIOUS
<1>1. s.merged \in Seq(Seq(Cluster)) /\ s.carry \in Seq(Cluster)
  BY DEF Syllables
<1>2. FlattenSeq(s.merged) \in Seq(Cluster)
  BY <1>1, FlattenType
<1>3. SubSeq(clusters, 1, n + 1) = SubSeq(clusters, 1, n) \o <<c>>
  <2>1. (n + 1) - 1 = n /\ 1 \in 1..Len(clusters) /\ n + 1 \in 1..Len(clusters)
    BY <1>0
  <2>2. SubSeq(clusters, 1, n + 1) = SubSeq(clusters, 1, (n + 1) - 1) \o << clusters[n + 1] >>
    BY <2>1, SubSeqRecursiveSecond
  <2> QED BY <2>1, <2>2
<1>4. Append(s.carry, c) \in Seq(Cluster) /\ Append(s.carry, c) = s.carry \o <<c>>
  BY <1>0, <1>1
<1>5. (FlattenSeq(s.merged) \o s.carry) \o <<c>> = FlattenSeq(s.merged) \o Append(s.carry, c)
  <2> DEFINE f == FlattenSeq(s.merged)
             k == s.carry
             u == <<c>>
  <2>1. f \in Seq(Cluster) /\ k \in Seq(Cluster) /\ u \in Seq(Cluster)
    BY <1>0, <1>1, <1>2
  <2> HIDE DEF f, k, u
  <2>2. (f \o k) \o u = f \o (k \o u)
    BY <2>1, Regroup
  <2> USE DEF f, k, u
  <2> QED BY <1>4, <2>2
<1>6. FlattenSeq(s.merged) \o Append(s.carry, c) = SubSeq(clusters, 1, n + 1)
  BY <1>3, <1>5 DEF Cut
<1>7. CASE Joins(c)
  <2>1. m.merged = s.merged /\ m.carry = Append(s.carry, c)
    BY <1>7 DEF Merge, Syllables
  <2> HIDE DEF m, c
  <2>2. \A i \in DOMAIN m.carry : Joins(m.carry[i])
    <3>1. \A i \in DOMAIN s.carry : Joins(s.carry[i])
      BY DEF Cut
    <3> QED BY <1>0, <1>1, <1>7, <2>1, <3>1
  <2>3. m.carry # <<>> /\ Len(m.carry) = Len(s.carry) + 1 /\ Len(s.carry) \in Nat /\ Len(s.merged) \in Nat
    <3>1. Append(s.carry, c) # <<>> /\ Len(Append(s.carry, c)) = Len(s.carry) + 1
      BY <1>0, <1>1, AppendProperties, SMTT(30)
    <3> QED BY <1>1, <2>1, <3>1
  <2>4. n + 1 > 0 => (m.carry # <<>> <=> Joins(clusters[n + 1]))
    BY <1>7, <2>3 DEF c
  <2>5. Len(m.merged) + Len(m.carry) <= n + 1
    <3>1. Len(s.merged) + Len(s.carry) <= n
      BY DEF Cut
    <3> QED BY <1>0, <2>1, <2>3, <3>1, Grown
  <2>6. Cut(m, clusters, n + 1)
    <3>1. FlattenSeq(m.merged) \o m.carry = SubSeq(clusters, 1, n + 1)
      BY <1>6, <2>1
    <3>2. \A k \in DOMAIN m.merged : \A i \in DOMAIN m.merged[k] :
             ~Joins(m.merged[k][i]) <=> i = Len(m.merged[k])
      BY <2>1 DEF Cut
    <3> QED BY <3>1, <3>2, <2>2, <2>4, <2>5 DEF Cut
  <2> QED BY <2>6 DEF m, c
<1>8. CASE ~Joins(c)
  <2>1. m.merged = Append(s.merged, Append(s.carry, c)) /\ m.carry = <<>>
    BY <1>8 DEF Merge
  <2>2. FlattenSeq(m.merged) = FlattenSeq(s.merged) \o Append(s.carry, c)
    BY <1>1, <1>4, <2>1, FlattenAppend
  <2>3. FlattenSeq(m.merged) \o m.carry = SubSeq(clusters, 1, n + 1)
    <3>1. FlattenSeq(m.merged) \in Seq(Cluster)
      BY <1>2, <1>4, <2>2
    <3>2. FlattenSeq(m.merged) \o <<>> = FlattenSeq(m.merged)
      BY <3>1
    <3> QED BY <1>6, <2>1, <2>2, <3>2
  <2>4. /\ Len(m.merged) = Len(s.merged) + 1 /\ DOMAIN m.merged = 1..(Len(s.merged) + 1)
        /\ \A k \in 1..Len(s.merged) : m.merged[k] = s.merged[k]
        /\ m.merged[Len(s.merged) + 1] = Append(s.carry, c) /\ Len(s.merged) \in Nat
        /\ Len(s.carry) \in Nat /\ DOMAIN s.merged = 1..Len(s.merged)
    BY <1>1, <1>4, <2>1, SMTT(30)
  <2>5. \A i \in DOMAIN Append(s.carry, c) :
          ~Joins(Append(s.carry, c)[i]) <=> i = Len(Append(s.carry, c))
    <3>1. \A i \in DOMAIN s.carry : Joins(s.carry[i])
      BY DEF Cut
    <3>2. /\ Len(Append(s.carry, c)) = Len(s.carry) + 1 /\ DOMAIN Append(s.carry, c) = 1..(Len(s.carry) + 1)
          /\ Append(s.carry, c)[Len(s.carry) + 1] = c /\ Len(s.carry) \in Nat
          /\ \A i \in 1..Len(s.carry) : i \in DOMAIN s.carry /\ Append(s.carry, c)[i] = s.carry[i]
      BY <1>0, <1>1, AppendProperties, SMTT(30)
    <3> HIDE DEF c
    <3> QED BY <1>8, <3>1, <3>2
  <2> HIDE DEF m, c
  <2>6. \A k \in DOMAIN m.merged : \A i \in DOMAIN m.merged[k] :
          ~Joins(m.merged[k][i]) <=> i = Len(m.merged[k])
    <3> SUFFICES ASSUME NEW k \in DOMAIN m.merged
                 PROVE \A i \in DOMAIN m.merged[k] : ~Joins(m.merged[k][i]) <=> i = Len(m.merged[k])
      OBVIOUS
    <3>1. CASE k = Len(s.merged) + 1
      BY <2>4, <2>5, <3>1
    <3>2. CASE k # Len(s.merged) + 1
      <4>1. k \in DOMAIN s.merged /\ m.merged[k] = s.merged[k]
        BY <2>4, <3>2
      <4> QED BY <4>1 DEF Cut
    <3> QED BY <3>1, <3>2
  <2>7. Len(m.merged) + Len(m.carry) <= n + 1
    <3>1. Len(s.merged) + Len(s.carry) <= n /\ Len(m.carry) = 0
      BY <2>1 DEF Cut
    <3> QED BY <1>0, <2>4, <3>1, Grown
  <2>8. n + 1 > 0 => (m.carry # <<>> <=> Joins(clusters[n + 1]))
    BY <1>8, <2>1 DEF c
  <2>9. Cut(m, clusters, n + 1)
    BY <2>1, <2>3, <2>6, <2>7, <2>8 DEF Cut
  <2> QED BY <2>9 DEF m, c
<1> QED BY <1>7, <1>8

\* All of the clusters are.
LEMMA CutAll ==
    ASSUME NEW clusters \in Seq(Cluster)
    PROVE  \E s \in Syllables : Cut(s, clusters, Len(clusters)) /\ Aksharas(clusters) = s.merged \o Rest(s)
<1> DEFINE N == Len(clusters)
<1>0. N \in Nat
  OBVIOUS
<1>1. PICK g \in [0..N -> Syllables] :
             /\ g[0] = [merged |-> <<>>, carry |-> <<>>]
             /\ \A n \in 1..N : g[n] = Merge(g[n - 1], clusters[n])
             /\ Aksharas(clusters) = g[N].merged \o Rest(g[N])
  BY AksharaFold
<1> DEFINE Good == {n \in Nat : n <= N => Cut(g[n], clusters, n)}
<1>2. 0 \in Good
  <2>1. SubSeq(clusters, 1, 0) = <<>> /\ <<>> \o <<>> = <<>> /\ Len(<<>>) = 0
    OBVIOUS
  <2>2. g[0].merged = <<>> /\ g[0].carry = <<>>
    BY <1>1
  <2>3. Cut(g[0], clusters, 0)
    BY <2>1, <2>2, FlattenEmpty DEF Cut
  <2> QED BY <2>3
<1>3. ASSUME NEW n \in Good PROVE n + 1 \in Good
  <2>1. CASE n + 1 <= N
    <3>1. n \in 0..(N - 1) /\ n \in 0..N /\ n + 1 \in 1..N /\ (n + 1) - 1 = n
      BY <1>0, <2>1
    <3>2. Cut(g[n], clusters, n) /\ g[n] \in Syllables
      BY <1>0, <2>1, <3>1, <1>1
    <3>3. g[n + 1] = Merge(g[n], clusters[n + 1])
      BY <1>1, <3>1
    <3>4. Cut(g[n + 1], clusters, n + 1)
      BY <3>1, <3>2, <3>3, CutStep
    <3> QED BY <3>1, <3>4
  <2> QED BY <2>1
<1>4. Good = Nat
  <2> HIDE DEF Good
  <2> QED BY <1>2, <1>3, NaturalInduction DEF Good
<1>5. Cut(g[N], clusters, N) /\ g[N] \in Syllables
  BY <1>0, <1>1, <1>4
<1> QED BY <1>1, <1>5

\* _aksharas(), of any clusters: no cluster is lost, a syllable ends where a cluster
\* stands, or at the end, and there are no more of them than of clusters.
LEMMA AksharasWhole ==
    ASSUME NEW clusters \in Seq(Cluster)
    PROVE  LET a == Aksharas(clusters) IN
             /\ FlattenSeq(a) = clusters
             /\ \A k \in DOMAIN a :
                \A i \in DOMAIN a[k] : ~Joins(a[k][i]) <=> i = Len(a[k]) /\
                    ~(k = Len(a) /\ Joins(Last(clusters)))
             /\ Len(a) \in Nat /\ Len(a) <= Len(clusters)
<1> DEFINE a == Aksharas(clusters)
           N == Len(clusters)
<1>1. PICK s \in Syllables : Cut(s, clusters, N) /\ a = s.merged \o Rest(s)
  BY CutAll
<1>2. s.merged \in Seq(Seq(Cluster)) /\ s.carry \in Seq(Cluster) /\ N \in Nat
  BY DEF Syllables
<1>3. SubSeq(clusters, 1, N) = clusters
  BY SubSeqFull
<1>4. FlattenSeq(s.merged) \in Seq(Cluster)
  BY <1>2, FlattenType
<1> HIDE DEF a, N
<1>5. CASE s.carry = <<>>
  <2>1. a = s.merged
    BY <1>1, <1>2, <1>5 DEF Rest
  <2>2. FlattenSeq(a) = clusters
    BY <1>1, <1>2, <1>3, <1>4, <1>5, <2>1 DEF Cut
  <2>3. N > 0 => ~Joins(clusters[N])
    BY <1>1, <1>5 DEF Cut
  <2>4. Len(a) \in Nat /\ Len(a) <= N /\ DOMAIN a = 1..Len(a)
    BY <1>1, <1>2, <1>5, <2>1 DEF Cut
  <2>5. ASSUME NEW k \in DOMAIN a, NEW i \in DOMAIN a[k]
        PROVE  ~Joins(a[k][i]) <=> i = Len(a[k]) /\ ~(k = Len(a) /\ Joins(Last(clusters)))
    <3>1. N > 0
      BY <2>4, <1>2
    <3>2. ~Joins(Last(clusters))
      BY <2>3, <3>1 DEF Last, N
    <3> QED BY <1>1, <2>1, <3>2 DEF Cut
  <2> QED BY <2>2, <2>4, <2>5 DEF a, N
<1>6. CASE s.carry # <<>>
  <2>1. a = Append(s.merged, s.carry)
    BY <1>1, <1>2, <1>6 DEF Rest
  <2>2. FlattenSeq(a) = clusters
    <3>1. FlattenSeq(a) = FlattenSeq(s.merged) \o s.carry
      BY <1>2, <2>1, FlattenAppend
    <3> QED BY <1>1, <1>3, <3>1 DEF Cut
  <2>3. /\ Len(a) = Len(s.merged) + 1 /\ DOMAIN a = 1..(Len(s.merged) + 1)
        /\ Len(s.merged) \in Nat /\ Len(s.carry) \in Nat /\ Len(s.carry) > 0
        /\ a[Len(s.merged) + 1] = s.carry
        /\ \A k \in 1..Len(s.merged) : k \in DOMAIN s.merged /\ a[k] = s.merged[k]
    BY <1>2, <1>6, <2>1
  <2>4. Len(a) <= N
    <3>1. Len(s.merged) + Len(s.carry) <= N
      BY <1>1 DEF Cut
    <3>2. Len(s.merged) + 1 <= N
      BY <1>2, <2>3, <3>1, Grown
    <3> QED BY <2>3, <3>2
  <2>5. N > 0
    BY <1>2, <2>3, <2>4
  <2>6. Joins(Last(clusters))
    BY <1>1, <1>6, <2>5 DEF Cut, Last, N
  <2>7. ASSUME NEW k \in DOMAIN a, NEW i \in DOMAIN a[k]
        PROVE  ~Joins(a[k][i]) <=> i = Len(a[k]) /\ ~(k = Len(a) /\ Joins(Last(clusters)))
    <3>1. CASE k = Len(a)
      BY <1>1, <2>3, <2>6, <3>1 DEF Cut
    <3>2. CASE k # Len(a)
      <4>1. k \in 1..Len(s.merged)
        BY <2>3, <3>2
      <4>2. k \in DOMAIN s.merged /\ a[k] = s.merged[k]
        BY <2>3, <4>1
      <4> QED BY <1>1, <3>2, <4>2 DEF Cut
    <3> QED BY <3>1, <3>2
  <2> QED BY <2>2, <2>3, <2>4, <2>7 DEF a, N
<1> QED BY <1>5, <1>6

-----------------------------------------------------------------------------
(* Induction over sequences.                                               *)

\* What holds of no element, and of one more element, holds of every sequence.
LEMMA SeqInduction ==
    ASSUME NEW S, NEW T \in SUBSET Seq(S), <<>> \in T, \A s \in T : \A e \in S : Append(s, e) \in T
    PROVE  T = Seq(S)
<1> DEFINE Good == {n \in Nat : \A s \in Seq(S) : Len(s) = n => s \in T}
<1>1. 0 \in Good
  <2>1. \A s \in Seq(S) : Len(s) = 0 => s = <<>>
    OBVIOUS
  <2> QED BY <2>1
<1>2. ASSUME NEW n \in Good PROVE n + 1 \in Good
  <2>1. ASSUME NEW s \in Seq(S), Len(s) = n + 1 PROVE s \in T
    <3>1. n \in Nat /\ s[n + 1] \in S
      BY <2>1
    <3>2. SubSeq(s, 1, n) \in Seq(S) /\ Len(SubSeq(s, 1, n)) = n
      BY <2>1, <3>1
    <3>3. s = Append(SubSeq(s, 1, n), s[n + 1])
      <4>1. (n + 1) - 1 = n /\ 1 \in 1..Len(s) /\ n + 1 \in 1..Len(s)
        BY <2>1, <3>1
      <4>2. SubSeq(s, 1, n + 1) = SubSeq(s, 1, (n + 1) - 1) \o <<s[n + 1]>>
        BY <4>1, SubSeqRecursiveSecond
      <4>3. SubSeq(s, 1, n + 1) = s
        BY <2>1, SubSeqFull
      <4>4. Append(SubSeq(s, 1, n), s[n + 1]) = SubSeq(s, 1, n) \o <<s[n + 1]>>
        BY <3>1, <3>2, AppendIsConcat
      <4> QED BY <4>1, <4>2, <4>3, <4>4
    <3>4. SubSeq(s, 1, n) \in T
      BY <3>2
    <3> QED BY <3>1, <3>3, <3>4
  <2> QED BY <2>1
<1>3. Good = Nat
  <2> HIDE DEF Good
  <2> QED BY <1>1, <1>2, NaturalInduction DEF Good
<1>4. \A s \in Seq(S) : s \in T
  <2>1. \A s \in Seq(S) : Len(s) \in Nat
    OBVIOUS
  <2> QED BY <1>3, <2>1
<1> QED BY <1>4

-----------------------------------------------------------------------------
(* Scan(). *)

\* What _split_blocks() has at any time.
FileBlock == [start : Nat, lines : Seq(FileLine) \ {<<>>}]
Splits == [blocks : Seq(FileBlock), current : Seq(FileLine), start : Nat]
NoSplit == [blocks |-> <<>>, current |-> <<>>, start |-> 0]

\* A blank line is a line.
LEMMA BlankLine == Blank \in FileLine
BY DEF FileLine

\* flush() of _split_blocks() keeps the blocks blocks, none of them empty.
LEMMA FlushType == ASSUME NEW s \in Splits PROVE Flush(s) \in Splits
<1>1. CASE s.current # <<>>
  <2>1. s.blocks \in Seq(FileBlock) /\ s.current \in Seq(FileLine) \ {<<>>} /\ s.start \in Nat
    BY <1>1 DEF Splits
  <2>2. [start |-> s.start, lines |-> s.current] \in FileBlock
    BY <2>1 DEF FileBlock
  <2>3. Append(s.blocks, [start |-> s.start, lines |-> s.current]) \in Seq(FileBlock)
    BY <2>1, <2>2
  <2>4. Flush(s) = [blocks |-> Append(s.blocks, [start |-> s.start, lines |-> s.current]),
                    current |-> <<>>, start |-> s.start]
    BY <1>1 DEF Flush, Splits
  <2>5. <<>> \in Seq(FileLine)
    OBVIOUS
  <2> QED BY <2>1, <2>3, <2>4, <2>5 DEF Splits
<1> QED BY <1>1 DEF Flush

\* So does one more line.
LEMMA FeedType ==
    ASSUME NEW s \in Splits, NEW i \in Nat, NEW l \in FileLine
    PROVE  Feed(s, i, l) \in Splits
<1>1. CASE l = Blank
  BY <1>1, FlushType DEF Feed
<1>2. CASE l # Blank
  <2>1. s.blocks \in Seq(FileBlock) /\ s.current \in Seq(FileLine) /\ s.start \in Nat
    BY DEF Splits
  <2>2. Append(s.current, l) \in Seq(FileLine)
    BY <2>1
  <2>3. Feed(s, i, l) = [blocks |-> s.blocks, current |-> Append(s.current, l),
                         start |-> IF s.current = <<>> THEN i ELSE s.start]
    BY <1>2 DEF Feed, Splits
  <2> QED BY <2>1, <2>2, <2>3 DEF Splits
<1> QED BY <1>1, <1>2

\* _split_blocks(), one line after the other.
LEMMA ScanFold ==
    ASSUME NEW lines \in Seq(FileLine)
    PROVE  \E g \in [0..Len(lines) -> Splits] :
             /\ g[0] = NoSplit
             /\ \A n \in 1..Len(lines) : g[n] = Feed(g[n - 1], n, lines[n])
             /\ Scan(lines) = g[Len(lines)]
<1> DEFINE N == Len(lines)
           base == NoSplit
           q == [i \in DOMAIN lines |-> i]
           step == [p \in (1..N) \X Splits |-> Feed(p[2], p[1], lines[p[1]])]
           It(it) == it = [s \in SUBSET DOMAIN q |->
                             IF s = {} THEN base
                             ELSE Feed(it[s \ {Max(s)}], q[Max(s)], lines[q[Max(s)]])]
<1>1. /\ N \in Nat /\ DOMAIN lines = 1..N /\ DOMAIN q = 1..N
      /\ \A n \in 1..N : lines[n] \in FileLine /\ q[n] = n
  OBVIOUS
<1>2. base \in Splits
  BY DEF Splits, NoSplit
<1>3. step \in [(1..N) \X Splits -> Splits]
  BY <1>1, FeedType
<1>4. Scan(lines) = (CHOOSE it : It(it))[1..N]
  BY <1>1 DEF Scan, FoldLeft, MapThenFoldSet, NoSplit
<1> HIDE DEF q
<1>5. \E it : It(it)
  <2>1. PICK it : Iterates(it, N, Splits, base, step)
    <3>1. N \in Nat
      BY <1>1
    <3> HIDE DEF N, base, step
    <3> QED BY <3>1, <1>2, <1>3, Iteration
  <2>2. ASSUME NEW s \in SUBSET (1..N), s # {}
        PROVE  it[s] = Feed(it[s \ {Max(s)}], q[Max(s)], lines[q[Max(s)]])
    <3>1. Max(s) \in 1..N /\ s \ {Max(s)} \in SUBSET (1..N)
      <4> HIDE DEF N
      <4> QED BY <1>1, <2>2, MaxFacts
    <3>2. it[s \ {Max(s)}] \in Splits
      BY <2>1, <3>1 DEF Iterates
    <3>3. it[s] = step[<<Max(s), it[s \ {Max(s)}]>>]
      BY <2>1, <2>2 DEF Iterates
    <3> QED BY <1>1, <3>1, <3>2, <3>3
  <2>3. It(it)
    BY <1>1, <2>1, <2>2 DEF Iterates
  <2> QED BY <2>3
<1> DEFINE it == CHOOSE it : It(it)
           g == [n \in 0..N |-> it[1..n]]
<1>6. It(it)
  <2> HIDE DEF It
  <2> QED BY <1>5
<1>7. it[1..0] = base
  <2>1. 1..0 = {} /\ {} \in SUBSET DOMAIN q
    OBVIOUS
  <2> QED BY <1>6, <2>1
<1>8. ASSUME NEW n \in 1..N, it[1..(n - 1)] \in Splits
      PROVE  it[1..n] = step[<<n, it[1..(n - 1)]>>]
  <2>1. Max(1..n) = n /\ (1..n) \ {n} = 1..(n - 1) /\ 1..n # {}
    BY MaxUpTo
  <2>2. 1..n \in SUBSET DOMAIN q
    BY <1>1
  <2>3. it[1..n] = Feed(it[1..(n - 1)], n, lines[n])
    BY <1>1, <1>6, <2>1, <2>2
  <2>4. <<n, it[1..(n - 1)]>> \in (1..N) \X Splits
    BY <1>8
  <2> HIDE DEF it, N
  <2> QED BY <2>3, <2>4
<1>9. Unrolls(g, N, Splits, base, step)
  <2>1. N \in Nat
    BY <1>1
  <2> HIDE DEF it, step, base, N
  <2>2. Climbs(it, N, Splits, base, step)
    BY <1>7, <1>8 DEF Climbs
  <2> QED BY <2>1, <2>2, <1>2, <1>3, Unrolled
<1>10. \A n \in 1..N : g[n] = Feed(g[n - 1], n, lines[n])
  <2> SUFFICES ASSUME NEW n \in 1..N PROVE g[n] = Feed(g[n - 1], n, lines[n])
    OBVIOUS
  <2>1. n - 1 \in 0..N
    BY <1>1
  <2> HIDE DEF g, N
  <2>2. <<n, g[n - 1]>> \in (1..N) \X Splits
    <3> HIDE DEF step, base
    <3> QED BY <1>9, <2>1 DEF Unrolls
  <2> QED BY <1>9, <2>2 DEF Unrolls
<1>11. Scan(lines) = g[N]
  BY <1>4, <1>1
<1> HIDE DEF g, step
<1>13. g \in [0..N -> Splits] /\ g[0] = base
  BY <1>9 DEF Unrolls
<1> QED BY <1>10, <1>11, <1>13

\* What it has found at any time is blocks, and the lines of one that is not over.
LEMMA ScanType == ASSUME NEW lines \in Seq(FileLine) PROVE Scan(lines) \in Splits
<1>1. Len(lines) \in 0..Len(lines)
  OBVIOUS
<1>2. PICK g \in [0..Len(lines) -> Splits] : Scan(lines) = g[Len(lines)]
  BY ScanFold
<1> QED BY <1>1, <1>2

\* No lines are no blocks.
LEMMA ScanEmpty == Scan(<<>>) = NoSplit
<1>1. <<>> \in Seq(FileLine) /\ Len(<<>>) = 0
  OBVIOUS
<1> QED BY <1>1, ScanFold

\* A line at the end of a file is read after all the others, and changes none of what
\* was found before it.
LEMMA ScanAppend ==
    ASSUME NEW lines \in Seq(FileLine), NEW l \in FileLine
    PROVE  Scan(Append(lines, l)) = Feed(Scan(lines), Len(lines) + 1, l)
<1> DEFINE N == Len(lines)
           all == Append(lines, l)
<1>1. /\ N \in Nat /\ all \in Seq(FileLine) /\ Len(all) = N + 1
      /\ all[N + 1] = l /\ \A n \in 1..N : all[n] = lines[n]
  OBVIOUS
<1> HIDE DEF N, all
<1>2. PICK g : /\ g[0] = NoSplit
               /\ \A n \in 1..N : g[n] = Feed(g[n - 1], n, lines[n])
               /\ Scan(lines) = g[N]
  BY ScanFold DEF N
<1>3. PICK h : /\ h[0] = NoSplit
               /\ \A n \in 1..(N + 1) : h[n] = Feed(h[n - 1], n, all[n])
               /\ Scan(all) = h[N + 1]
  <2>1. PICK h : /\ h[0] = NoSplit
                 /\ \A n \in 1..Len(all) : h[n] = Feed(h[n - 1], n, all[n])
                 /\ Scan(all) = h[Len(all)]
    BY <1>1, ScanFold
  <2> QED BY <2>1, <1>1
<1>4. ASSUME NEW n \in 1..N, g[n - 1] = h[n - 1] PROVE g[n] = h[n]
  <2>1. n \in 1..(N + 1) /\ all[n] = lines[n]
    BY <1>1
  <2> QED BY <1>2, <1>3, <1>4, <2>1
<1>5. g[N] = h[N]
  <2>1. N \in Nat /\ g[0] = h[0]
    BY <1>1, <1>2, <1>3
  <2>2. \A n \in 0..N : g[n] = h[n]
    BY <2>1, <1>4, Agree, SMTT(30)
  <2> QED BY <2>1, <2>2
<1>6. N + 1 \in 1..(N + 1) /\ (N + 1) - 1 = N /\ all[N + 1] = l
  BY <1>1
<1> QED BY <1>2, <1>3, <1>5, <1>6 DEF N, all

-----------------------------------------------------------------------------
(* Lines, cues and tracks.                                                 *)

\* What the kind of a line tells of it.
LEMMA LineFacts ==
    ASSUME NEW l \in FileLine
    PROVE  /\ l.kind \in {"blank", "number", "timing", "arrow", "words"}
           /\ l = Blank <=> l.kind = "blank"
           /\ l.kind = "number" => l.value \in Nat /\ l = Number(l.value)
           /\ l.kind = "timing" => l.start \in Written /\ l.end \in Written /\ l.trailing \in BOOLEAN
           /\ l.kind = "words" => l.clusters \in Seq(Cluster)
<1>1. CASE l \in {Blank, Arrow}
  BY <1>1 DEF Blank, Arrow
<1>2. CASE l \in [kind : {"number"}, value : Nat]
  BY <1>2 DEF Blank, Number
<1>3. CASE l \in [kind : {"timing"}, start : Written, end : Written, trailing : BOOLEAN]
  BY <1>3 DEF Blank
<1>4. CASE l \in [kind : {"words"}, clusters : Seq(Cluster)]
  BY <1>4 DEF Blank
<1> QED BY <1>1, <1>2, <1>3, <1>4 DEF FileLine

\* An element put before a sequence.
LEMMA Prefixed ==
    ASSUME NEW S, NEW s \in Seq(S), NEW e
    PROVE  (<<e>> \o s)[1] = e /\ \A i \in 1..Len(s) : (<<e>> \o s)[i + 1] = s[i]
OBVIOUS

\* A sequence is one of any larger set.
LEMMA Widened == ASSUME NEW S, NEW T, S \subseteq T, NEW s \in Seq(S) PROVE s \in Seq(T)
OBVIOUS

\* A readable timecode has hours, minutes and seconds, written or left out.
LEMMA FieldsType ==
    ASSUME NEW x \in Written, Readable(x)
    PROVE  LET f == Fields(x) IN f[1] \in Nat /\ f[2] \in Nat /\ f[3] \in Nat
<1>1. x.fields \in Seq(Nat)
  BY DEF Written
<1>2. CASE Len(x.fields) = 2
  <2>1. Fields(x) = <<0>> \o x.fields
    BY <1>2 DEF Fields
  <2>2. 1 \in 1..2 /\ 2 \in 1..2 /\ 1 + 1 = 2 /\ 2 + 1 = 3
    OBVIOUS
  <2>3. Fields(x)[1] = 0 /\ Fields(x)[1 + 1] = x.fields[1] /\ Fields(x)[2 + 1] = x.fields[2]
    BY <1>1, <1>2, <2>1, <2>2, Prefixed
  <2>4. x.fields[1] \in Nat /\ x.fields[2] \in Nat
    BY <1>1, <1>2
  <2> QED BY <2>2, <2>3, <2>4
<1>3. CASE Len(x.fields) # 2
  <2>1. Fields(x) = x.fields /\ Len(x.fields) = 3
    BY <1>3 DEF Fields, Readable
  <2> QED BY <1>1, <2>1
<1> QED BY <1>2, <1>3

\* A sum of its parts is a number.
LEMMA SumType ==
    ASSUME NEW a \in Nat, NEW b \in Nat, NEW c \in Nat, NEW d \in Nat, NEW e \in Nat, NEW f \in Nat
    PROVE  3600000 * a + 60000 * b + 1000 * c + 100 * d + 10 * e + f \in Nat
BY SMT

\* So TimeCode.parse() gives milliseconds.
LEMMA TimeCodeType == ASSUME NEW x \in Written, Readable(x) PROVE TimeCode(x) \in Nat
<1> DEFINE f == Fields(x)
<1>1. f[1] \in Nat /\ f[2] \in Nat /\ f[3] \in Nat
  BY FieldsType
<1>2. x.frac \in Seq(0..9)
  BY DEF Written
<1>3. ASSUME NEW i \in Nat \ {0} PROVE Digit(x.frac, i) \in 0..9
  BY <1>2 DEF Digit
<1>4. Digit(x.frac, 1) \in 0..9 /\ Digit(x.frac, 2) \in 0..9 /\ Digit(x.frac, 3) \in 0..9
  BY <1>3
<1> HIDE DEF f
<1>5. TimeCode(x) = 3600000 * f[1] + 60000 * f[2] + 1000 * f[3]
          + 100 * Digit(x.frac, 1) + 10 * Digit(x.frac, 2) + Digit(x.frac, 3)
  BY SMT DEF TimeCode, f
<1>6. Digit(x.frac, 1) \in Nat /\ Digit(x.frac, 2) \in Nat /\ Digit(x.frac, 3) \in Nat
  BY <1>4
<1> QED BY <1>1, <1>5, <1>6, SumType, SMT

\* What parse() has at any time.
FileCue == [index : Nat, start : Nat, end : Nat, lines : Seq(FileLine), first : Nat, last : Nat]
Issue == [line : Nat, severity : {"error", "warning"}]
Tracks == [cues : Seq(FileCue), issues : Seq(Issue), next : Nat]
NoTrack == [cues |-> <<>>, issues |-> <<>>, next |-> 1]

\* What the parser looks at in a block.
LEMMA BlockFacts ==
    ASSUME NEW b \in FileBlock
    PROVE  /\ b.start \in Nat /\ b.lines \in Seq(FileLine) /\ Len(b.lines) \in Nat \ {0}
           /\ HasIndex(b) => Len(b.lines) > 1 /\ b.lines[1].value \in Nat
           /\ Cursor(b) \in 1..Len(b.lines) /\ Cursor(b) \in {1, 2}
           /\ TimingLine(b) \in FileLine
           /\ ErrorLine(b) \in b.start..(b.start + Len(b.lines) - 1)
           /\ Usable(b) => /\ TimingLine(b).start \in Written /\ Readable(TimingLine(b).start)
                           /\ TimingLine(b).end \in Written /\ Readable(TimingLine(b).end)
<1>1. b.start \in Nat /\ b.lines \in Seq(FileLine) /\ b.lines # <<>>
  BY DEF FileBlock
<1>2. Len(b.lines) \in Nat \ {0}
  BY <1>1
<1>3. HasIndex(b) => Len(b.lines) > 1 /\ b.lines[1].value \in Nat
  <2>1. b.lines[1] \in FileLine
    BY <1>1, <1>2
  <2> QED BY <2>1, LineFacts DEF HasIndex
<1>4. Cursor(b) \in 1..Len(b.lines) /\ Cursor(b) \in {1, 2}
  BY <1>2, <1>3 DEF Cursor
<1>5. TimingLine(b) \in FileLine
  BY <1>1, <1>4 DEF TimingLine
<1>6. ErrorLine(b) \in b.start..(b.start + Len(b.lines) - 1)
  BY <1>1, <1>2, <1>4 DEF ErrorLine
<1>7. Usable(b) => /\ TimingLine(b).start \in Written /\ Readable(TimingLine(b).start)
                   /\ TimingLine(b).end \in Written /\ Readable(TimingLine(b).end)
  BY <1>5, LineFacts DEF Usable
<1> QED BY <1>1, <1>2, <1>3, <1>4, <1>5, <1>6, <1>7

\* The cue of a usable block, and what its warnings are.
CueOf(b, index) ==
    [index |-> index, start |-> TimeCode(TimingLine(b).start), end |-> TimeCode(TimingLine(b).end),
     lines |-> SubSeq(b.lines, Cursor(b) + 1, Len(b.lines)),
     first |-> b.start, last |-> b.start + Len(b.lines) - 1]

IndexOf(b, next) == IF HasIndex(b) THEN b.lines[1].value ELSE next

\* What a usable block adds to a track, by name.
LEMMA AddCueIs ==
    ASSUME NEW t, NEW b
    PROVE  AddCue(t, b) = [cues |-> Append(t.cues, CueOf(b, IndexOf(b, t.next))),
                           issues |-> t.issues \o Warnings(b), next |-> IndexOf(b, t.next) + 1]
BY DEF AddCue, CueOf, IndexOf, NextIndex

\* A usable block's cue is a cue.
LEMMA CueType ==
    ASSUME NEW b \in FileBlock, Usable(b), NEW n \in Nat
    PROVE  CueOf(b, n) \in FileCue
<1>1. /\ b.start \in Nat /\ b.lines \in Seq(FileLine) /\ Len(b.lines) \in Nat \ {0}
      /\ Cursor(b) \in 1..Len(b.lines)
  BY BlockFacts
<1>2. TimeCode(TimingLine(b).start) \in Nat /\ TimeCode(TimingLine(b).end) \in Nat
  BY BlockFacts, TimeCodeType
<1>3. SubSeq(b.lines, Cursor(b) + 1, Len(b.lines)) \in Seq(FileLine)
  BY <1>1
<1>4. b.start + Len(b.lines) - 1 \in Nat
  BY <1>1
<1> QED BY <1>1, <1>2, <1>3, <1>4 DEF CueOf, FileCue

\* The issues of a usable block.
Warning == {i \in Issue : i.severity = "warning"}

\* Its issues are warnings.
LEMMA WarningsType == ASSUME NEW b \in FileBlock PROVE Warnings(b) \in Seq(Warning)
<1> DEFINE at(n) == [line |-> n, severity |-> "warning"]
           x == at(b.start + Cursor(b) - 1)
           y == at(b.start)
           p == IF TimingLine(b).trailing THEN <<x>> ELSE <<>>
           q == IF HasIndex(b) THEN <<>> ELSE <<y>>
<1>1. x \in Warning /\ y \in Warning
  BY BlockFacts DEF Issue, Warning
<1> HIDE DEF x, y
<1>2. p \in Seq(Warning) /\ q \in Seq(Warning)
  BY <1>1
<1>3. Warnings(b) = p \o q
  BY DEF Warnings, x, y
<1> HIDE DEF p, q
<1> QED BY <1>2, <1>3

\* One more block keeps a track a track.
LEMMA ParseBlockType ==
    ASSUME NEW t \in Tracks, NEW b \in FileBlock
    PROVE  ParseBlock(t, b) \in Tracks
<1>0. t.cues \in Seq(FileCue) /\ t.issues \in Seq(Issue) /\ t.next \in Nat
  BY DEF Tracks
<1>1. CASE Usable(b)
  <2> DEFINE n == IndexOf(b, t.next)
             c == CueOf(b, n)
  <2>1. n \in Nat
    BY <1>0, BlockFacts DEF IndexOf
  <2> HIDE DEF n
  <2>2. c \in FileCue
    BY <1>1, <2>1, CueType
  <2> HIDE DEF c
  <2>3. Append(t.cues, c) \in Seq(FileCue)
    BY <1>0, <2>2
  <2>4. t.issues \o Warnings(b) \in Seq(Issue)
    <3>1. Warnings(b) \in Seq(Issue)
      <4>1. Warnings(b) \in Seq(Warning) /\ Warning \subseteq Issue
        BY WarningsType DEF Warning
      <4> HIDE DEF Warning
      <4> QED BY <4>1, Widened
    <3> QED BY <1>0, <3>1
  <2>5. ParseBlock(t, b) = [cues |-> Append(t.cues, c), issues |-> t.issues \o Warnings(b), next |-> n + 1]
    BY <1>1, AddCueIs DEF ParseBlock, c, n
  <2> QED BY <2>1, <2>3, <2>4, <2>5 DEF Tracks
<1>2. CASE ~Usable(b)
  <2>1. [line |-> ErrorLine(b), severity |-> "error"] \in Issue
    BY BlockFacts DEF Issue
  <2>2. Append(t.issues, [line |-> ErrorLine(b), severity |-> "error"]) \in Seq(Issue)
    BY <1>0, <2>1
  <2> QED BY <1>0, <1>2, <2>2 DEF ParseBlock, Skip, Tracks
<1> QED BY <1>1, <1>2

\* The loop of parse(), one block after the other.
LEMMA ReadFold ==
    ASSUME NEW blocks \in Seq(FileBlock)
    PROVE  \E g \in [0..Len(blocks) -> Tracks] :
             /\ g[0] = NoTrack
             /\ \A n \in 1..Len(blocks) : g[n] = ParseBlock(g[n - 1], blocks[n])
             /\ Read(blocks) = g[Len(blocks)]
<1> DEFINE N == Len(blocks)
           base == NoTrack
           step == [p \in (1..N) \X Tracks |-> ParseBlock(p[2], blocks[p[1]])]
           It(it) == it = [s \in SUBSET DOMAIN blocks |->
                             IF s = {} THEN base
                             ELSE ParseBlock(it[s \ {Max(s)}], blocks[Max(s)])]
<1>1. /\ N \in Nat /\ DOMAIN blocks = 1..N
      /\ \A n \in 1..N : blocks[n] \in FileBlock
  OBVIOUS
<1>2. base \in Tracks
  BY DEF Tracks, NoTrack
<1>3. step \in [(1..N) \X Tracks -> Tracks]
  BY <1>1, ParseBlockType
<1>4. Read(blocks) = (CHOOSE it : It(it))[1..N]
  BY <1>1 DEF Read, FoldLeft, MapThenFoldSet, NoTrack
<1>5. \E it : It(it)
  <2>1. PICK it : Iterates(it, N, Tracks, base, step)
    <3>1. N \in Nat
      BY <1>1
    <3> HIDE DEF N, base, step
    <3> QED BY <3>1, <1>2, <1>3, Iteration
  <2>2. ASSUME NEW s \in SUBSET (1..N), s # {}
        PROVE  it[s] = ParseBlock(it[s \ {Max(s)}], blocks[Max(s)])
    <3>1. Max(s) \in 1..N /\ s \ {Max(s)} \in SUBSET (1..N)
      <4> HIDE DEF N
      <4> QED BY <1>1, <2>2, MaxFacts
    <3>2. it[s \ {Max(s)}] \in Tracks
      BY <2>1, <3>1 DEF Iterates
    <3>3. it[s] = step[<<Max(s), it[s \ {Max(s)}]>>]
      BY <2>1, <2>2 DEF Iterates
    <3> QED BY <1>1, <3>1, <3>2, <3>3
  <2>3. It(it)
    BY <1>1, <2>1, <2>2 DEF Iterates
  <2> QED BY <2>3
<1> DEFINE it == CHOOSE it : It(it)
           g == [n \in 0..N |-> it[1..n]]
<1>6. It(it)
  <2> HIDE DEF It
  <2> QED BY <1>5
<1>7. it[1..0] = base
  <2>1. 1..0 = {} /\ {} \in SUBSET DOMAIN blocks
    OBVIOUS
  <2> QED BY <1>6, <2>1
<1>8. ASSUME NEW n \in 1..N, it[1..(n - 1)] \in Tracks
      PROVE  it[1..n] = step[<<n, it[1..(n - 1)]>>]
  <2>1. Max(1..n) = n /\ (1..n) \ {n} = 1..(n - 1) /\ 1..n # {}
    BY MaxUpTo
  <2>2. 1..n \in SUBSET DOMAIN blocks
    BY <1>1
  <2>3. it[1..n] = ParseBlock(it[1..(n - 1)], blocks[n])
    BY <1>1, <1>6, <2>1, <2>2
  <2>4. <<n, it[1..(n - 1)]>> \in (1..N) \X Tracks
    BY <1>8
  <2> HIDE DEF it, N
  <2> QED BY <2>3, <2>4
<1>9. Unrolls(g, N, Tracks, base, step)
  <2>1. N \in Nat
    BY <1>1
  <2> HIDE DEF it, step, base, N
  <2>2. Climbs(it, N, Tracks, base, step)
    BY <1>7, <1>8 DEF Climbs
  <2> QED BY <2>1, <2>2, <1>2, <1>3, Unrolled
<1>10. \A n \in 1..N : g[n] = ParseBlock(g[n - 1], blocks[n])
  <2> SUFFICES ASSUME NEW n \in 1..N PROVE g[n] = ParseBlock(g[n - 1], blocks[n])
    OBVIOUS
  <2>1. n - 1 \in 0..N
    BY <1>1
  <2> HIDE DEF g, N
  <2>2. <<n, g[n - 1]>> \in (1..N) \X Tracks
    <3> HIDE DEF step, base
    <3> QED BY <1>9, <2>1 DEF Unrolls
  <2> QED BY <1>9, <2>2 DEF Unrolls
<1>11. Read(blocks) = g[N]
  BY <1>4, <1>1
<1> HIDE DEF g, step
<1>13. g \in [0..N -> Tracks] /\ g[0] = base
  BY <1>9 DEF Unrolls
<1> QED BY <1>10, <1>11, <1>13

\* What it has read is a track.
LEMMA ReadType == ASSUME NEW blocks \in Seq(FileBlock) PROVE Read(blocks) \in Tracks
<1>1. Len(blocks) \in 0..Len(blocks)
  OBVIOUS
<1>2. PICK g \in [0..Len(blocks) -> Tracks] : Read(blocks) = g[Len(blocks)]
  BY ReadFold
<1> QED BY <1>1, <1>2

\* No block is no cue, no issue, and the next index is 1.
LEMMA ReadEmpty == Read(<<>>) = NoTrack
<1>1. <<>> \in Seq(FileBlock) /\ Len(<<>>) = 0
  OBVIOUS
<1> QED BY <1>1, ReadFold

\* A block at the end is read after all the others.
LEMMA ReadAppend ==
    ASSUME NEW blocks \in Seq(FileBlock), NEW b \in FileBlock
    PROVE  Read(Append(blocks, b)) = ParseBlock(Read(blocks), b)
<1> DEFINE N == Len(blocks)
           all == Append(blocks, b)
<1>1. /\ N \in Nat /\ all \in Seq(FileBlock) /\ Len(all) = N + 1
      /\ all[N + 1] = b /\ \A n \in 1..N : all[n] = blocks[n]
  OBVIOUS
<1> HIDE DEF N, all
<1>2. PICK g : /\ g[0] = NoTrack
               /\ \A n \in 1..N : g[n] = ParseBlock(g[n - 1], blocks[n])
               /\ Read(blocks) = g[N]
  BY ReadFold DEF N
<1>3. PICK h : /\ h[0] = NoTrack
               /\ \A n \in 1..(N + 1) : h[n] = ParseBlock(h[n - 1], all[n])
               /\ Read(all) = h[N + 1]
  <2>1. PICK h : /\ h[0] = NoTrack
                 /\ \A n \in 1..Len(all) : h[n] = ParseBlock(h[n - 1], all[n])
                 /\ Read(all) = h[Len(all)]
    BY <1>1, ReadFold
  <2> QED BY <2>1, <1>1
<1>4. ASSUME NEW n \in 1..N, g[n - 1] = h[n - 1] PROVE g[n] = h[n]
  <2>1. n \in 1..(N + 1) /\ all[n] = blocks[n]
    BY <1>1
  <2> QED BY <1>2, <1>3, <1>4, <2>1
<1>5. g[N] = h[N]
  <2>1. N \in Nat /\ g[0] = h[0]
    BY <1>1, <1>2, <1>3
  <2>2. \A n \in 0..N : g[n] = h[n]
    BY <2>1, <1>4, Agree, SMTT(30)
  <2> QED BY <2>1, <2>2
<1>6. N + 1 \in 1..(N + 1) /\ (N + 1) - 1 = N /\ all[N + 1] = b
  BY <1>1
<1> QED BY <1>2, <1>3, <1>5, <1>6 DEF N, all

\* _split_blocks() gives blocks, none of them empty.
LEMMA SplitType == ASSUME NEW lines \in Seq(FileLine) PROVE SplitBlocks(lines) \in Seq(FileBlock)
<1>1. Flush(Scan(lines)) \in Splits
  BY ScanType, FlushType
<1> QED BY <1>1 DEF Splits, SplitBlocks

\* parse() gives a track, of any lines.
LEMMA ParseType == ASSUME NEW lines \in Seq(FileLine) PROVE Parse(lines) \in Tracks
BY SplitType, ReadType DEF Parse

-----------------------------------------------------------------------------
(* serialize(). *)

\* The parts of a timecode are in their bounds, so to_srt() writes one that is read.
LEMMA PartsType ==
    ASSUME NEW ms \in Nat
    PROVE  LET p == Parts(ms) IN
             /\ p[1] \in Nat /\ p[2] \in 0..59 /\ p[3] \in 0..59 /\ p[4] \in 0..999
             /\ ToSrt(ms) \in Written /\ Readable(ToSrt(ms))
             /\ Fields(ToSrt(ms)) = <<p[1], p[2], p[3]>>
<1> DEFINE p == Parts(ms)
<1>1. /\ p[1] \in Nat /\ p[2] \in 0..59 /\ p[3] \in 0..59 /\ p[4] \in 0..999
  <2>1. p[1] = ms \div 3600000 /\ p[2] = (ms \div 60000) % 60 /\ p[3] = (ms \div 1000) % 60 /\ p[4] = ms % 1000
    BY SMT DEF Parts
  <2>2. ms \div 3600000 \in Nat /\ ms \div 60000 \in Nat /\ ms \div 1000 \in Nat /\ ms % 1000 \in 0..999
    BY SMT
  <2>3. \A x \in Nat : x % 60 \in 0..59
    BY SMT
  <2> QED BY <2>1, <2>2, <2>3, SMT
<1> HIDE DEF p
<1>2. /\ p[4] \div 100 \in 0..9 /\ (p[4] \div 10) % 10 \in 0..9 /\ p[4] % 10 \in 0..9
  BY <1>1, SMTT(30)
<1>3. ToSrt(ms) = [fields |-> <<p[1], p[2], p[3]>>,
                   frac |-> <<p[4] \div 100, (p[4] \div 10) % 10, p[4] % 10>>]
  BY DEF ToSrt, p
<1>4. <<p[1], p[2], p[3]>> \in Seq(Nat) /\ Len(<<p[1], p[2], p[3]>>) = 3
  BY <1>1
<1>5. <<p[4] \div 100, (p[4] \div 10) % 10, p[4] % 10>> \in Seq(0..9)
  BY <1>2
<1>6. ToSrt(ms) \in Written
  BY <1>3, <1>4, <1>5 DEF Written
<1>7. Fields(ToSrt(ms)) = <<p[1], p[2], p[3]>>
  BY <1>3, <1>4 DEF Fields
<1>8. Readable(ToSrt(ms))
  BY <1>1, <1>3, <1>4, <1>7 DEF Readable
<1> QED BY <1>1, <1>6, <1>7, <1>8 DEF p

\* A cue is written as lines.
LEMMA BlockType ==
    ASSUME NEW c \in FileCue, NEW i \in Nat
    PROVE  Block(c, i) \in Seq(FileLine)
<1> DEFINE t == Timing(ToSrt(c.start), ToSrt(c.end), FALSE)
<1>1. Number(i) \in FileLine
  BY DEF FileLine, Number
<1>2. t \in FileLine
  <2>1. ToSrt(c.start) \in Written /\ ToSrt(c.end) \in Written
    BY PartsType DEF FileCue
  <2> QED BY <2>1 DEF FileLine, Timing
<1>3. c.lines \in Seq(FileLine)
  BY DEF FileCue
<1> HIDE DEF t
<1>4. Block(c, i) = <<Number(i), t>> \o c.lines \o <<Blank>>
  BY DEF Block, t
<1> QED BY <1>1, <1>2, <1>3, <1>4, BlankLine

\* serialize() gives lines.
LEMMA SerializeType ==
    ASSUME NEW cues \in Seq(FileCue), NEW renumber \in BOOLEAN
    PROVE  Serialize(cues, renumber) \in Seq(FileLine)
<1>1. CASE cues = <<>>
  BY <1>1, BlankLine DEF Serialize
<1>2. CASE cues # <<>>
  <2> DEFINE n(k) == IF renumber THEN k ELSE cues[k].index
             s == [k \in DOMAIN cues |-> Block(cues[k], n(k))]
  <2>1. ASSUME NEW k \in DOMAIN cues PROVE Block(cues[k], n(k)) \in Seq(FileLine)
    <3>1. cues[k] \in FileCue /\ k \in Nat
      OBVIOUS
    <3>2. n(k) \in Nat
      BY <3>1 DEF FileCue
    <3> HIDE DEF n
    <3> QED BY <3>1, <3>2, BlockType
  <2>2. s \in Seq(Seq(FileLine))
    <3>1. DOMAIN cues = 1..Len(cues) /\ Len(cues) \in Nat
      OBVIOUS
    <3> HIDE DEF n
    <3> QED BY <2>1, <3>1
  <2>3. Serialize(cues, renumber) = FlattenSeq(s)
    BY <1>2 DEF Serialize
  <2> HIDE DEF s
  <2> QED BY <2>2, <2>3, FlattenType
<1> QED BY <1>1, <1>2

-----------------------------------------------------------------------------
\* A file is lines, and what was parsed is the file's.
Reached == doc \in Seq(FileLine) /\ parsed = Parse(doc)

-----------------------------------------------------------------------------
(* The runs of a file.                                                     *)

\* A block is a run of lines: the lines it has, and where it stands.
EndOf(b) == b.start + Len(b.lines) - 1

IsRunOf(b, lines) ==
    /\ b.start \in 1..Len(lines) /\ EndOf(b) \in b.start..Len(lines)
    /\ b.lines = SubSeq(lines, b.start, EndOf(b))
    /\ \A i \in b.start..EndOf(b) : lines[i] # Blank
    /\ b.start > 1 => lines[b.start - 1] = Blank

\* Blocks in order, what they cover, and the one that is not over.
InOrder(bs) == \A j, k \in DOMAIN bs : j < k => EndOf(bs[j]) < bs[k].start

Covered(bs, i) == \E k \in DOMAIN bs : i \in bs[k].start..EndOf(bs[k])

Pending(s) == [start |-> s.start, lines |-> s.current]

\* What the scan of lines has found: the runs that have ended, and the one that has not.
Scanned(s, lines) ==
    /\ \A k \in DOMAIN s.blocks :
          /\ IsRunOf(s.blocks[k], lines)
          /\ EndOf(s.blocks[k]) < Len(lines) /\ lines[EndOf(s.blocks[k]) + 1] = Blank
    /\ InOrder(s.blocks)
    /\ s.current # <<>> =>
          /\ IsRunOf(Pending(s), lines) /\ EndOf(Pending(s)) = Len(lines)
          /\ \A k \in DOMAIN s.blocks : EndOf(s.blocks[k]) < s.start
    /\ s.current = <<>> /\ Len(lines) > 0 => lines[Len(lines)] = Blank
    /\ \A i \in 1..Len(lines) : lines[i] # Blank =>
          Covered(s.blocks, i) \/ (s.current # <<>> /\ i >= s.start)

\* A sequence with one more element.
LEMMA Extended ==
    ASSUME NEW S, NEW s \in Seq(S), NEW e \in S
    PROVE  /\ Append(s, e) \in Seq(S) /\ Len(s) \in Nat /\ Len(Append(s, e)) = Len(s) + 1
           /\ Append(s, e)[Len(s) + 1] = e
           /\ \A i \in 1..Len(s) : Append(s, e)[i] = s[i]
           /\ DOMAIN Append(s, e) = 1..(Len(s) + 1) /\ DOMAIN s = 1..Len(s)
OBVIOUS

\* It has the parts that it had.
LEMMA ExtendedSub ==
    ASSUME NEW S, NEW s \in Seq(S), NEW e \in S, NEW i \in 1..Len(s), NEW j \in i..Len(s)
    PROVE  SubSeq(Append(s, e), i, j) = SubSeq(s, i, j)
<1>1. Append(s, e) = s \o <<e>> /\ <<e>> \in Seq(S)
  OBVIOUS
<1>2. SubSeq(s \o <<e>>, i, j) = SubSeq(s, i, j)
  OBVIOUS
<1> QED BY <1>1, <1>2

\* Its last parts end with the new element.
LEMMA ExtendedLast ==
    ASSUME NEW S, NEW s \in Seq(S), NEW e \in S, NEW i \in 1..(Len(s) + 1)
    PROVE  SubSeq(Append(s, e), i, Len(s) + 1) = Append(SubSeq(s, i, Len(s)), e)
OBVIOUS

\* A run of a file is one of the longer file.
LEMMA RunStays ==
    ASSUME NEW lines \in Seq(FileLine), NEW l \in FileLine, NEW b \in FileBlock, IsRunOf(b, lines)
    PROVE  IsRunOf(b, Append(lines, l))
<1> DEFINE N == Len(lines)
           all == Append(lines, l)
           e == EndOf(b)
<1>1. /\ N \in Nat /\ Len(all) = N + 1
      /\ \A i \in 1..N : all[i] = lines[i]
  BY Extended
<1>2. b.start \in 1..N /\ e \in b.start..N
  BY DEF IsRunOf
<1>3. SubSeq(all, b.start, e) = SubSeq(lines, b.start, e)
  BY <1>2, ExtendedSub
<1> HIDE DEF all, N, e
<1>4. b.start \in 1..Len(all) /\ e \in b.start..Len(all)
  BY <1>1, <1>2
<1>5. \A i \in b.start..e : all[i] # Blank
  <2>1. \A i \in b.start..e : lines[i] # Blank
    BY DEF IsRunOf, e
  <2>2. \A i \in b.start..e : i \in 1..N
    BY <1>1, <1>2
  <2> QED BY <1>1, <2>1, <2>2
<1>6. b.start > 1 => all[b.start - 1] = Blank
  <2>1. b.start > 1 => b.start - 1 \in 1..N
    BY <1>1, <1>2
  <2>2. b.start > 1 => lines[b.start - 1] = Blank
    BY DEF IsRunOf
  <2> QED BY <1>1, <2>1, <2>2
<1>7. b.lines = SubSeq(all, b.start, e)
  BY <1>3 DEF IsRunOf, e
<1> QED BY <1>4, <1>5, <1>6, <1>7 DEF IsRunOf, all, e

\* A block ends where it starts, or later.
LEMMA EndType == ASSUME NEW b \in FileBlock PROVE EndOf(b) \in Int /\ b.start \in Nat /\ EndOf(b) >= b.start
<1>1. b.start \in Nat /\ b.lines \in Seq(FileLine) /\ b.lines # <<>>
  BY DEF FileBlock
<1>2. Len(b.lines) \in Nat /\ Len(b.lines) > 0
  BY <1>1
<1> QED BY <1>1, <1>2 DEF EndOf

\* One more run after those in order.
LEMMA OrderGrows ==
    ASSUME NEW bs \in Seq(FileBlock), NEW b \in FileBlock, InOrder(bs),
           \A k \in DOMAIN bs : EndOf(bs[k]) < b.start
    PROVE  InOrder(Append(bs, b))
<1> DEFINE N == Len(bs)
           all == Append(bs, b)
<1>1. N \in Nat /\ DOMAIN all = 1..(N + 1) /\ all[N + 1] = b /\ DOMAIN bs = 1..N
      /\ \A k \in 1..N : all[k] = bs[k]
  BY Extended
<1> HIDE DEF N, all
<1>2. ASSUME NEW j \in DOMAIN all, NEW k \in DOMAIN all, j < k PROVE EndOf(all[j]) < all[k].start
  <2>1. j \in 1..N
    BY <1>1, <1>2
  <2>2. CASE k = N + 1
    BY <1>1, <2>1, <2>2
  <2>3. CASE k # N + 1
    <3>1. k \in 1..N
      BY <1>1, <2>3
    <3> QED BY <1>1, <1>2, <2>1, <3>1 DEF InOrder
  <2> QED BY <2>2, <2>3
<1> QED BY <1>2 DEF InOrder, all

\* What one more block covers.
LEMMA CoverGrows ==
    ASSUME NEW bs \in Seq(FileBlock), NEW b \in FileBlock, NEW i
    PROVE  Covered(Append(bs, b), i) <=> Covered(bs, i) \/ i \in b.start..EndOf(b)
<1> DEFINE N == Len(bs)
           all == Append(bs, b)
<1>1. N \in Nat /\ DOMAIN all = 1..(N + 1) /\ all[N + 1] = b /\ DOMAIN bs = 1..N
      /\ \A k \in 1..N : all[k] = bs[k]
  BY Extended
<1> HIDE DEF N, all
<1>2. Covered(all, i) <=> Covered(bs, i) \/ i \in b.start..EndOf(b)
  <2>1. ASSUME NEW k \in DOMAIN all, i \in all[k].start..EndOf(all[k])
        PROVE  Covered(bs, i) \/ i \in b.start..EndOf(b)
    <3>1. CASE k = N + 1
      BY <1>1, <2>1, <3>1
    <3>2. CASE k # N + 1
      <4>1. k \in 1..N
        BY <1>1, <3>2
      <4> QED BY <1>1, <2>1, <4>1 DEF Covered
    <3> QED BY <3>1, <3>2
  <2>2. ASSUME Covered(bs, i) PROVE Covered(all, i)
    <3>1. PICK k \in DOMAIN bs : i \in bs[k].start..EndOf(bs[k])
      BY <2>2 DEF Covered
    <3>2. k \in DOMAIN all /\ all[k] = bs[k]
      BY <1>1
    <3> QED BY <3>1, <3>2 DEF Covered
  <2>3. ASSUME i \in b.start..EndOf(b) PROVE Covered(all, i)
    <3>1. N + 1 \in DOMAIN all
      BY <1>1
    <3> QED BY <1>1, <2>3, <3>1 DEF Covered
  <2> QED BY <2>1, <2>2, <2>3 DEF Covered
<1> QED BY <1>2 DEF all

\* The lines of a block that is not over would be a block.
LEMMA PendingType == ASSUME NEW s \in Splits, s.current # <<>> PROVE Pending(s) \in FileBlock
BY DEF Splits, FileBlock, Pending

\* The runs that have ended are runs of the longer file, and have ended in it.
LEMMA EndedStay ==
    ASSUME NEW s \in Splits, NEW lines \in Seq(FileLine), NEW l \in FileLine, Scanned(s, lines)
    PROVE  \A k \in DOMAIN s.blocks :
              LET all == Append(lines, l) IN
              /\ IsRunOf(s.blocks[k], all)
              /\ EndOf(s.blocks[k]) < Len(lines) /\ EndOf(s.blocks[k]) < Len(all)
              /\ all[EndOf(s.blocks[k]) + 1] = Blank
<1> SUFFICES ASSUME NEW k \in DOMAIN s.blocks
             PROVE  LET all == Append(lines, l) IN
              /\ IsRunOf(s.blocks[k], all)
              /\ EndOf(s.blocks[k]) < Len(lines) /\ EndOf(s.blocks[k]) < Len(all)
              /\ all[EndOf(s.blocks[k]) + 1] = Blank
  OBVIOUS
<1> DEFINE N == Len(lines)
           all == Append(lines, l)
           b == s.blocks[k]
           e == EndOf(b)
<1>1. N \in Nat /\ Len(all) = N + 1 /\ \A i \in 1..N : all[i] = lines[i]
  BY Extended
<1>2. b \in FileBlock
  BY DEF Splits
<1>3. IsRunOf(b, lines) /\ e < N /\ lines[e + 1] = Blank
  BY DEF Scanned
<1>4. e \in Int /\ e >= b.start /\ b.start \in 1..N
  BY <1>2, <1>3, EndType DEF IsRunOf
<1> HIDE DEF b, e, N
<1>5. IsRunOf(b, all)
  BY <1>2, <1>3, RunStays
<1> HIDE DEF all
<1>6. e + 1 \in 1..N /\ e < N + 1
  BY <1>1, <1>3, <1>4
<1> QED BY <1>1, <1>3, <1>5, <1>6 DEF b, e, N, all

\* A blank line ends a run, which then is one of the blocks.
LEMMA ScanBlank ==
    ASSUME NEW s \in Splits, NEW lines \in Seq(FileLine), Scanned(s, lines)
    PROVE  Scanned(Flush(s), Append(lines, Blank))
<1> DEFINE N == Len(lines)
           all == Append(lines, Blank)
           t == Flush(s)
           p == Pending(s)
<1>1. N \in Nat /\ Len(all) = N + 1 /\ all[N + 1] = Blank /\ \A i \in 1..N : all[i] = lines[i]
  BY BlankLine, Extended
<1>2. /\ s.blocks \in Seq(FileBlock)
      /\ \A k \in DOMAIN s.blocks : IsRunOf(s.blocks[k], all) /\ EndOf(s.blocks[k]) < N + 1
            /\ all[EndOf(s.blocks[k]) + 1] = Blank
  BY <1>1, BlankLine, EndedStay DEF Splits
<1>3. \A i \in 1..N : lines[i] # Blank => Covered(s.blocks, i) \/ (s.current # <<>> /\ i >= s.start)
  BY DEF Scanned
<1>4. CASE s.current = <<>>
  <2>1. t = s
    BY <1>4 DEF Flush
  <2> HIDE DEF N, all, t
  <2>2. \A i \in 1..(N + 1) : all[i] # Blank => Covered(s.blocks, i)
    BY <1>1, <1>3, <1>4
  <2>3. InOrder(s.blocks)
    BY DEF Scanned
  <2> QED BY <1>1, <1>2, <1>4, <2>1, <2>2, <2>3 DEF Scanned, t, all
<1>5. CASE s.current # <<>>
  <2>1. t.blocks = Append(s.blocks, p) /\ t.current = <<>>
    BY <1>5 DEF Flush, Pending, Splits
  <2>2. p \in FileBlock
    BY <1>5, PendingType
  <2>3. IsRunOf(p, lines) /\ EndOf(p) = N /\ p.start = s.start
    BY <1>5 DEF Scanned, Pending
  <2>4. IsRunOf(p, all)
    BY <2>2, <2>3, BlankLine, RunStays
  <2>5. InOrder(t.blocks)
    <3>1. \A k \in DOMAIN s.blocks : EndOf(s.blocks[k]) < p.start
      BY <1>5, <2>3 DEF Scanned
    <3>2. InOrder(s.blocks)
      BY DEF Scanned
    <3> HIDE DEF p, t
    <3> QED BY <1>2, <2>1, <2>2, <3>1, <3>2, OrderGrows
  <2> HIDE DEF p, t, N, all
  <2>6. \A k \in DOMAIN t.blocks : IsRunOf(t.blocks[k], all) /\ EndOf(t.blocks[k]) < N + 1
            /\ all[EndOf(t.blocks[k]) + 1] = Blank
    <3>1. /\ Len(s.blocks) \in Nat /\ DOMAIN t.blocks = 1..(Len(s.blocks) + 1)
          /\ t.blocks[Len(s.blocks) + 1] = p /\ DOMAIN s.blocks = 1..Len(s.blocks)
          /\ \A k \in 1..Len(s.blocks) : t.blocks[k] = s.blocks[k]
      BY <1>2, <2>1, <2>2, Extended
    <3> SUFFICES ASSUME NEW k \in DOMAIN t.blocks
                 PROVE IsRunOf(t.blocks[k], all) /\ EndOf(t.blocks[k]) < N + 1
                        /\ all[EndOf(t.blocks[k]) + 1] = Blank
      OBVIOUS
    <3>2. CASE k = Len(s.blocks) + 1
      BY <1>1, <2>3, <2>4, <3>1, <3>2
    <3>3. CASE k # Len(s.blocks) + 1
      <4>1. k \in DOMAIN s.blocks /\ t.blocks[k] = s.blocks[k]
        BY <3>1, <3>3
      <4> QED BY <1>2, <4>1
    <3> QED BY <3>2, <3>3
  <2>7. \A i \in 1..(N + 1) : all[i] # Blank => Covered(t.blocks, i)
    <3> SUFFICES ASSUME NEW i \in 1..(N + 1), all[i] # Blank PROVE Covered(t.blocks, i)
      OBVIOUS
    <3>1. i \in 1..N /\ lines[i] # Blank
      BY <1>1
    <3>2. Covered(s.blocks, i) \/ i >= p.start
      BY <1>3, <2>3, <3>1
    <3>3. Covered(s.blocks, i) \/ i \in p.start..EndOf(p)
      <4>1. p.start \in Nat
        BY <2>2, EndType
      <4> QED BY <1>1, <2>3, <3>1, <3>2, <4>1
    <3> QED BY <1>2, <2>1, <2>2, <3>3, CoverGrows
  <2> QED BY <1>1, <2>1, <2>5, <2>6, <2>7 DEF Scanned, t, all
<1> QED BY <1>4, <1>5

\* Another line goes on with the run, or starts one where it stands.
LEMMA ScanText ==
    ASSUME NEW s \in Splits, NEW lines \in Seq(FileLine), NEW l \in FileLine, l # Blank, Scanned(s, lines)
    PROVE  Scanned(Feed(s, Len(lines) + 1, l), Append(lines, l))
<1> DEFINE N == Len(lines)
           all == Append(lines, l)
           t == Feed(s, N + 1, l)
           p == Pending(t)
<1>1. N \in Nat /\ Len(all) = N + 1 /\ all[N + 1] = l /\ \A i \in 1..N : all[i] = lines[i]
      /\ all \in Seq(FileLine)
  BY Extended
<1>2. /\ s.blocks \in Seq(FileBlock)
      /\ \A k \in DOMAIN s.blocks : IsRunOf(s.blocks[k], all) /\ EndOf(s.blocks[k]) < N + 1
            /\ EndOf(s.blocks[k]) < N /\ all[EndOf(s.blocks[k]) + 1] = Blank
  BY <1>1, EndedStay DEF Splits
<1>3. \A i \in 1..N : lines[i] # Blank => Covered(s.blocks, i) \/ (s.current # <<>> /\ i >= s.start)
  BY DEF Scanned
<1>4. /\ t.blocks = s.blocks /\ t.current = Append(s.current, l)
      /\ t.start = IF s.current = <<>> THEN N + 1 ELSE s.start
  BY DEF Feed, Splits
<1>5. s.current \in Seq(FileLine) /\ s.start \in Nat
  BY DEF Splits
<1>6. t.current # <<>> /\ Len(t.current) = Len(s.current) + 1 /\ Len(s.current) \in Nat
  BY <1>4, <1>5, AppendProperties
<1>7. p.start = t.start /\ p.lines = t.current /\ EndOf(p) = t.start + Len(s.current)
  <2>1. p.start = t.start /\ p.lines = t.current /\ t.start \in Nat
    BY <1>1, <1>4, <1>5 DEF Pending
  <2> HIDE DEF t, p
  <2> QED BY <1>6, <2>1 DEF EndOf
<1> HIDE DEF N, all, t, p
<1>8. CASE s.current = <<>>
  <2>1. p.start = N + 1 /\ EndOf(p) = N + 1 /\ Len(s.current) = 0
    BY <1>1, <1>4, <1>7, <1>8
  <2>2. p.lines = SubSeq(all, N + 1, N + 1)
    <3>1. N + 1 \in 1..(Len(lines) + 1) /\ SubSeq(lines, N + 1, N) = <<>>
      BY <1>1 DEF N
    <3>2. SubSeq(all, N + 1, N + 1) = Append(SubSeq(lines, N + 1, N), l)
      BY <3>1, ExtendedLast DEF N, all
    <3> QED BY <1>4, <1>7, <1>8, <3>1, <3>2
  <2>3. p.start > 1 => all[p.start - 1] = Blank
    <3>1. N > 0 => lines[N] = Blank
      BY <1>8 DEF Scanned, N
    <3>2. N > 0 => N \in 1..N
      BY <1>1
    <3>3. p.start - 1 = N /\ (p.start > 1 => N > 0)
      BY <1>1, <2>1
    <3> QED BY <1>1, <3>1, <3>2, <3>3
  <2>4. IsRunOf(p, all)
    <3>1. p.start \in 1..Len(all) /\ EndOf(p) \in p.start..Len(all)
      BY <1>1, <2>1
    <3>2. \A i \in p.start..EndOf(p) : i = N + 1
      BY <1>1, <2>1
    <3> QED BY <1>1, <2>1, <2>2, <2>3, <3>1, <3>2 DEF IsRunOf
  <2>5. \A k \in DOMAIN s.blocks : EndOf(s.blocks[k]) < t.start
    BY <1>2, <1>4, <1>8
  <2>6. \A i \in 1..(N + 1) : all[i] # Blank => Covered(s.blocks, i) \/ i >= t.start
    <3> SUFFICES ASSUME NEW i \in 1..(N + 1), all[i] # Blank PROVE Covered(s.blocks, i) \/ i >= t.start
      OBVIOUS
    <3>1. CASE i = N + 1
      BY <1>1, <1>4, <1>8, <3>1
    <3>2. CASE i # N + 1
      <4>1. i \in 1..N
        BY <1>1, <3>2
      <4> QED BY <1>1, <1>3, <1>8, <4>1
    <3> QED BY <3>1, <3>2
  <2>7. InOrder(s.blocks)
    BY DEF Scanned
  <2>8. Scanned(t, all)
    BY <1>1, <1>2, <1>4, <1>6, <1>7, <2>1, <2>4, <2>5, <2>6, <2>7 DEF Scanned, p
  <2> QED BY <2>8 DEF t, all, N
<1>9. CASE s.current # <<>>
  <2> DEFINE q == Pending(s)
  <2>1. /\ IsRunOf(q, lines) /\ EndOf(q) = N /\ q.start = s.start /\ q.lines = s.current
        /\ q \in FileBlock /\ \A k \in DOMAIN s.blocks : EndOf(s.blocks[k]) < s.start
    BY <1>9, PendingType DEF Scanned, Pending, N
  <2>2. t.start = s.start /\ p.start = s.start
    BY <1>4, <1>7, <1>9
  <2>3. s.start \in 1..N /\ s.current = SubSeq(lines, s.start, N)
        /\ (\A i \in s.start..N : lines[i] # Blank) /\ (s.start > 1 => lines[s.start - 1] = Blank)
    <3> HIDE DEF q
    <3> QED BY <2>1 DEF IsRunOf, N
  <2>4. EndOf(p) = N + 1
    <3>1. N = s.start + Len(s.current) - 1
      <4> HIDE DEF q
      <4> QED BY <2>1 DEF EndOf
    <3> QED BY <1>1, <1>5, <1>6, <1>7, <2>2, <3>1
  <2> HIDE DEF q
  <2>5. p.lines = SubSeq(all, s.start, N + 1)
    <3>1. s.start \in 1..(Len(lines) + 1)
      BY <1>1, <2>3 DEF N
    <3>2. SubSeq(all, s.start, N + 1) = Append(SubSeq(lines, s.start, N), l)
      BY <3>1, ExtendedLast DEF N, all
    <3> QED BY <1>4, <1>7, <2>3, <3>2
  <2>6. IsRunOf(p, all)
    <3>1. p.start \in 1..Len(all) /\ EndOf(p) \in p.start..Len(all)
      BY <1>1, <2>2, <2>3, <2>4
    <3>2. \A i \in p.start..EndOf(p) : i = N + 1 \/ (i \in s.start..N /\ i \in 1..N)
      <4> SUFFICES ASSUME NEW i \in s.start..(N + 1) PROVE i = N + 1 \/ (i \in s.start..N /\ i \in 1..N)
        BY <2>2, <2>4
      <4> QED BY <1>1, <2>3
    <3>3. \A i \in p.start..EndOf(p) : all[i] # Blank
      BY <1>1, <2>3, <3>2
    <3>4. p.start > 1 => all[p.start - 1] = Blank
      <4>1. s.start > 1 => s.start - 1 \in 1..N
        BY <1>1, <2>3
      <4> QED BY <1>1, <2>2, <2>3, <4>1
    <3> QED BY <2>2, <2>4, <2>5, <3>1, <3>3, <3>4 DEF IsRunOf
  <2>7. \A i \in 1..(N + 1) : all[i] # Blank => Covered(s.blocks, i) \/ i >= t.start
    <3> SUFFICES ASSUME NEW i \in 1..(N + 1), all[i] # Blank PROVE Covered(s.blocks, i) \/ i >= t.start
      OBVIOUS
    <3>1. CASE i = N + 1
      BY <1>1, <2>2, <2>3, <3>1
    <3>2. CASE i # N + 1
      <4>1. i \in 1..N
        BY <1>1, <3>2
      <4> QED BY <1>1, <1>3, <2>2, <4>1
    <3> QED BY <3>1, <3>2
  <2>8. InOrder(s.blocks)
    BY DEF Scanned
  <2>9. Scanned(t, all)
    BY <1>1, <1>2, <1>4, <1>6, <2>1, <2>2, <2>4, <2>6, <2>7, <2>8 DEF Scanned, p
  <2> QED BY <2>9 DEF t, all, N
<1> QED BY <1>8, <1>9

\* So _split_blocks(), at any line of any file, has found the runs that have ended and
\* the one that has not.
LEMMA ScanIsRight == ASSUME NEW lines \in Seq(FileLine) PROVE Scanned(Scan(lines), lines)
<1> DEFINE T == {x \in Seq(FileLine) : Scanned(Scan(x), x)}
<1>1. <<>> \in T
  <2>1. <<>> \in Seq(FileLine) /\ Len(<<>>) = 0 /\ DOMAIN <<>> = {} /\ 1..0 = {}
    OBVIOUS
  <2>2. Scanned(NoSplit, <<>>)
    BY <2>1 DEF Scanned, NoSplit, InOrder
  <2> QED BY <2>1, <2>2, ScanEmpty
<1>2. ASSUME NEW x \in T, NEW l \in FileLine PROVE Append(x, l) \in T
  <2>1. x \in Seq(FileLine) /\ Scanned(Scan(x), x) /\ Scan(x) \in Splits
    BY ScanType
  <2>2. Scan(Append(x, l)) = Feed(Scan(x), Len(x) + 1, l)
    BY <2>1, ScanAppend
  <2>3. CASE l = Blank
    <3>1. Feed(Scan(x), Len(x) + 1, l) = Flush(Scan(x))
      BY <2>3 DEF Feed
    <3> QED BY <2>1, <2>2, <2>3, <3>1, ScanBlank, Extended
  <2>4. CASE l # Blank
    BY <2>1, <2>2, <2>4, ScanText, Extended
  <2> QED BY <2>3, <2>4
<1>3. T = Seq(FileLine)
  <2> HIDE DEF T
  <2> QED BY <1>1, <1>2, SeqInduction DEF T
<1> QED BY <1>3

-----------------------------------------------------------------------------
(* The blocks are the runs.                                                *)

\* A block that ends before the file does has a blank line after it.
EndsRight(b, lines) == EndOf(b) < Len(lines) => lines[EndOf(b) + 1] = Blank

\* The blocks of lines, without saying how they were found.
IsSplit(bs, lines) ==
    /\ bs \in Seq(FileBlock)
    /\ \A k \in DOMAIN bs : IsRunOf(bs[k], lines) /\ EndsRight(bs[k], lines)
    /\ InOrder(bs)
    /\ \A i \in 1..Len(lines) : lines[i] # Blank => Covered(bs, i)

\* _split_blocks(): its blocks are the runs of lines between blank ones, in order, with
\* all of their lines and the number of the first, and no line that is not blank is
\* outside of them.
LEMMA SplitIsRight == ASSUME NEW lines \in Seq(FileLine) PROVE IsSplit(SplitBlocks(lines), lines)
<1> DEFINE N == Len(lines)
           all == Append(lines, Blank)
           t == Flush(Scan(lines))
           bs == SplitBlocks(lines)
<1>1. N \in Nat /\ Len(all) = N + 1 /\ all[N + 1] = Blank /\ \A i \in 1..N : all[i] = lines[i]
  BY BlankLine, Extended
<1>2. Scan(lines) \in Splits /\ t \in Splits /\ Scanned(Scan(lines), lines) /\ Scanned(t, all)
  BY ScanType, FlushType, ScanIsRight, ScanBlank
<1>3. t.current = <<>> /\ bs = t.blocks /\ bs \in Seq(FileBlock)
  BY <1>2 DEF Flush, SplitBlocks, Splits
<1> HIDE DEF N, t, bs
<1>4. ASSUME NEW k \in DOMAIN bs PROVE IsRunOf(bs[k], lines) /\ EndsRight(bs[k], lines)
  <2> DEFINE b == bs[k]
             e == EndOf(b)
  <2>1. IsRunOf(b, all) /\ e < N + 1 /\ all[e + 1] = Blank /\ b \in FileBlock
    <3>1. b \in FileBlock
      BY <1>3, <1>4
    <3>2. k \in DOMAIN t.blocks /\ b = t.blocks[k]
      BY <1>3, <1>4
    <3> HIDE DEF b, all
    <3> QED BY <1>1, <1>2, <3>1, <3>2 DEF Scanned
  <2>2. e \in Int /\ e >= b.start /\ b.start \in 1..N
    <3>1. b.start \in 1..Len(all)
      BY <2>1 DEF IsRunOf
    <3>2. e \in Int /\ e >= b.start
      BY <2>1, EndType
    <3> HIDE DEF b, e, all
    <3> QED BY <1>1, <2>1, <3>1, <3>2
  <2>3. b.lines = SubSeq(lines, b.start, e)
    <3>1. e \in b.start..Len(lines) /\ b.start \in 1..Len(lines)
      BY <1>1, <2>1, <2>2 DEF N
    <3>2. SubSeq(all, b.start, e) = SubSeq(lines, b.start, e)
      BY <3>1, BlankLine, ExtendedSub
    <3> QED BY <2>1, <3>2 DEF IsRunOf
  <2> HIDE DEF b, all
  <2>4. \A i \in b.start..e : lines[i] # Blank
    <3>1. \A i \in b.start..e : all[i] # Blank
      BY <2>1 DEF IsRunOf
    <3> HIDE DEF e
    <3>2. \A i \in b.start..e : i \in 1..N
      BY <1>1, <2>1, <2>2
    <3> QED BY <1>1, <3>1, <3>2
  <2>5. b.start > 1 => lines[b.start - 1] = Blank
    <3>1. b.start > 1 => b.start - 1 \in 1..N
      BY <1>1, <2>2
    <3>2. b.start > 1 => all[b.start - 1] = Blank
      BY <2>1 DEF IsRunOf
    <3> QED BY <1>1, <3>1, <3>2
  <2>6. e < N => lines[e + 1] = Blank
    <3> HIDE DEF e
    <3>1. e < N => e + 1 \in 1..N
      BY <1>1, <2>2
    <3> QED BY <1>1, <2>1, <3>1
  <2>7. e \in b.start..N
    BY <1>1, <2>1, <2>2
  <2> QED BY <2>2, <2>3, <2>4, <2>5, <2>6, <2>7 DEF IsRunOf, EndsRight, b, N
<1>5. InOrder(bs)
  BY <1>2, <1>3 DEF Scanned
<1>6. ASSUME NEW i \in 1..N, lines[i] # Blank PROVE Covered(bs, i)
  <2>1. i \in 1..Len(all) /\ all[i] # Blank
    BY <1>1, <1>6
  <2> HIDE DEF all
  <2> QED BY <1>2, <1>3, <2>1 DEF Scanned
<1> QED BY <1>3, <1>4, <1>5, <1>6 DEF IsSplit, bs, N

\* Runs, of any lines.
RunsOf(lines) == {r \in (DOMAIN lines) \X (DOMAIN lines) :
    /\ r[1] <= r[2] /\ \A i \in r[1]..r[2] : lines[i] # Blank
    /\ r[1] > 1 => lines[r[1] - 1] = Blank
    /\ r[2] < Len(lines) => lines[r[2] + 1] = Blank}

\* A block is a run, and a run that meets a block is the block.
LEMMA BlockIsRun ==
    ASSUME NEW lines \in Seq(FileLine), NEW bs, IsSplit(bs, lines), NEW k \in DOMAIN bs
    PROVE  <<bs[k].start, EndOf(bs[k])>> \in RunsOf(lines)
<1> DEFINE b == bs[k]
           e == EndOf(b)
<1>1. IsRunOf(b, lines) /\ EndsRight(b, lines) /\ b \in FileBlock
  BY DEF IsSplit
<1>2. e \in Int /\ e >= b.start /\ b.start \in Nat
  BY <1>1, EndType
<1>3. b.start \in 1..Len(lines) /\ e \in b.start..Len(lines) /\ Len(lines) \in Nat /\ DOMAIN lines = 1..Len(lines)
  BY <1>1 DEF IsRunOf
<1>4. (\A i \in b.start..e : lines[i] # Blank) /\ (b.start > 1 => lines[b.start - 1] = Blank)
  BY <1>1 DEF IsRunOf
<1>5. e < Len(lines) => lines[e + 1] = Blank
  BY <1>1 DEF EndsRight
<1> HIDE DEF b, e
<1>6. <<b.start, e>> \in (DOMAIN lines) \X (DOMAIN lines) /\ b.start <= e
  BY <1>2, <1>3
<1>7. <<b.start, e>> \in RunsOf(lines)
  BY <1>4, <1>5, <1>6 DEF RunsOf
<1> QED BY <1>7 DEF b, e

\* Two runs that share a line are the same.
LEMMA SameRun ==
    ASSUME NEW lines \in Seq(FileLine), NEW p \in RunsOf(lines), NEW r \in RunsOf(lines),
           NEW i \in p[1]..p[2], i \in r[1]..r[2]
    PROVE  p = r
<1> DEFINE N == Len(lines)
<1>1. /\ N \in Nat /\ p = <<p[1], p[2]>> /\ r = <<r[1], r[2]>>
      /\ p[1] \in 1..N /\ p[2] \in 1..N /\ r[1] \in 1..N /\ r[2] \in 1..N
  BY DEF RunsOf
<1>2. /\ \A j \in p[1]..p[2] : lines[j] # Blank
      /\ \A j \in r[1]..r[2] : lines[j] # Blank
      /\ p[1] > 1 => lines[p[1] - 1] = Blank
      /\ r[1] > 1 => lines[r[1] - 1] = Blank
      /\ p[2] < N => lines[p[2] + 1] = Blank
      /\ r[2] < N => lines[r[2] + 1] = Blank
  BY DEF RunsOf
<1>3. i \in Int /\ p[1] <= i /\ i <= p[2] /\ r[1] <= i /\ i <= r[2]
  BY <1>1
<1> HIDE DEF N
<1>4. ~(p[1] < r[1])
  <2>1. p[1] < r[1] => r[1] > 1 /\ r[1] - 1 \in p[1]..p[2]
    BY <1>1, <1>3
  <2> QED BY <1>2, <2>1
<1>5. ~(r[1] < p[1])
  <2>1. r[1] < p[1] => p[1] > 1 /\ p[1] - 1 \in r[1]..r[2]
    BY <1>1, <1>3
  <2> QED BY <1>2, <2>1
<1>6. ~(p[2] < r[2])
  <2>1. p[2] < r[2] => p[2] < N /\ p[2] + 1 \in r[1]..r[2]
    BY <1>1, <1>3
  <2> QED BY <1>2, <2>1
<1>7. ~(r[2] < p[2])
  <2>1. r[2] < p[2] => r[2] < N /\ r[2] + 1 \in p[1]..p[2]
    BY <1>1, <1>3
  <2> QED BY <1>2, <2>1
<1>8. p[1] = r[1] /\ p[2] = r[2]
  BY <1>1, <1>4, <1>5, <1>6, <1>7
<1> QED BY <1>1, <1>8

\* Every run is a block.
LEMMA RunIsBlock ==
    ASSUME NEW lines \in Seq(FileLine), NEW bs, IsSplit(bs, lines), NEW r \in RunsOf(lines)
    PROVE  \E k \in DOMAIN bs : r = <<bs[k].start, EndOf(bs[k])>>
<1>1. r[1] \in 1..Len(lines) /\ r[1] \in r[1]..r[2] /\ lines[r[1]] # Blank
  <2>1. r[1] \in 1..Len(lines) /\ r[2] \in 1..Len(lines) /\ r[1] <= r[2]
    BY DEF RunsOf
  <2>2. r[1] \in r[1]..r[2]
    BY <2>1
  <2> QED BY <2>1, <2>2 DEF RunsOf
<1>2. PICK k \in DOMAIN bs : r[1] \in bs[k].start..EndOf(bs[k])
  BY <1>1 DEF IsSplit, Covered
<1> DEFINE p == <<bs[k].start, EndOf(bs[k])>>
<1>3. p \in RunsOf(lines) /\ r[1] \in p[1]..p[2]
  BY <1>2, BlockIsRun
<1> HIDE DEF p
<1>4. p = r
  BY <1>1, <1>3, SameRun
<1> QED BY <1>4 DEF p

\* There are as many of them as blocks.
LEMMA AsManyRuns ==
    ASSUME NEW lines \in Seq(FileLine), NEW bs, IsSplit(bs, lines)
    PROVE  Cardinality(RunsOf(lines)) = Len(bs)
<1> DEFINE R == RunsOf(lines)
           N == Len(bs)
           f == [k \in 1..N |-> <<bs[k].start, EndOf(bs[k])>>]
<1>1. bs \in Seq(FileBlock) /\ N \in Nat /\ DOMAIN bs = 1..N
  BY DEF IsSplit
<1> HIDE DEF N, R
<1>2. f \in [1..N -> R]
  BY <1>1, BlockIsRun DEF R
<1>3. \A r \in R : \E k \in 1..N : f[k] = r
  BY <1>1, RunIsBlock DEF R
<1>4. ASSUME NEW j \in 1..N, NEW k \in 1..N, f[j] = f[k] PROVE j = k
  <2>1. /\ bs[j] \in FileBlock /\ bs[k] \in FileBlock
        /\ bs[j].start = bs[k].start /\ EndOf(bs[j]) = EndOf(bs[k])
    BY <1>1, <1>4
  <2>2. EndOf(bs[j]) >= bs[j].start /\ EndOf(bs[k]) >= bs[k].start
        /\ EndOf(bs[j]) \in Int /\ bs[j].start \in Nat
    BY <2>1, EndType
  <2>3. ~(j < k) /\ ~(k < j)
    BY <1>1, <2>1, <2>2 DEF IsSplit, InOrder
  <2> QED BY <2>3
<1> HIDE DEF f
<1>5. f \in Bijection(1..N, R)
  BY <1>2, <1>3, <1>4 DEF Bijection, Injection, Surjection, IsInjective
<1>6. ExistsBijection(1..N, R)
  BY <1>5 DEF ExistsBijection
<1>7. Cardinality(R) = N
  BY <1>1, <1>6, FS_CountingElements
<1> QED BY <1>7 DEF R, N

-----------------------------------------------------------------------------
(* Each block is read, or has its error.                                   *)

\* The index the next cue gets when it has none.
NextAfter(cues) == IF cues = <<>> THEN 1 ELSE cues[Len(cues)].index + 1

\* A cue is that of a usable block, with its index or the one that follows; a block is
\* a cue or has an error.
CueStands(cues, k, bs) ==
    \E j \in DOMAIN bs :
        /\ Usable(bs[j])
        /\ cues[k] = CueOf(bs[j], IndexOf(bs[j], IF k = 1 THEN 1 ELSE cues[k - 1].index + 1))

BlockAnswered(t, b) ==
    \/ \E k \in DOMAIN t.cues : t.cues[k].first = b.start
    \/ \E i \in Errors(t) : t.issues[i].line \in b.start..EndOf(b)

RightlyRead(t, bs) ==
    /\ IsFiniteSet(Errors(t)) /\ Len(t.cues) + Cardinality(Errors(t)) = Len(bs)
    /\ \A k \in DOMAIN t.cues : CueStands(t.cues, k, bs)
    /\ \A j \in DOMAIN bs : BlockAnswered(t, bs[j])
    /\ t.next = NextAfter(t.cues)

\* An unusable block adds one error, at a line of its own, and nothing else.
LEMMA SkipIs ==
    ASSUME NEW t \in Tracks, NEW b \in FileBlock
    PROVE  LET u == Skip(t, b) IN
             /\ u.cues = t.cues /\ u.next = t.next
             /\ Errors(u) = Errors(t) \cup {Len(t.issues) + 1} /\ Len(t.issues) + 1 \notin Errors(t)
             /\ u.issues[Len(t.issues) + 1].line = ErrorLine(b)
             /\ \A i \in DOMAIN t.issues : u.issues[i] = t.issues[i]
<1> DEFINE u == Skip(t, b)
           e == [line |-> ErrorLine(b), severity |-> "error"]
           N == Len(t.issues)
<1>1. t.issues \in Seq(Issue)
  BY DEF Tracks
<1>2. e \in Issue /\ e.severity = "error" /\ e.line = ErrorLine(b)
  BY BlockFacts DEF Issue
<1>3. u.cues = t.cues /\ u.next = t.next /\ u.issues = Append(t.issues, e)
  BY DEF Skip, Tracks
<1> HIDE DEF u, e
<1>4. /\ N \in Nat /\ DOMAIN u.issues = 1..(N + 1) /\ DOMAIN t.issues = 1..N /\ u.issues[N + 1] = e
      /\ \A i \in 1..N : u.issues[i] = t.issues[i]
  BY <1>1, <1>2, <1>3, Extended
<1> HIDE DEF N
<1>5. Errors(u) = Errors(t) \cup {N + 1}
  <2>1. \A i : i \in 1..(N + 1) <=> i \in 1..N \/ i = N + 1
    BY <1>4
  <2> QED BY <1>2, <1>4, <2>1 DEF Errors
<1>6. N + 1 \notin Errors(t)
  BY <1>4 DEF Errors
<1> QED BY <1>2, <1>3, <1>4, <1>5, <1>6 DEF u, N

\* A usable block adds its cue and no error.
LEMMA AddIs ==
    ASSUME NEW t \in Tracks, NEW b \in FileBlock, Usable(b)
    PROVE  LET u == AddCue(t, b)
               n == IndexOf(b, t.next) IN
             /\ u.cues = Append(t.cues, CueOf(b, n)) /\ CueOf(b, n) \in FileCue /\ u.next = n + 1 /\ n \in Nat
             /\ Errors(u) = Errors(t) /\ \A i \in DOMAIN t.issues : u.issues[i] = t.issues[i]
<1> DEFINE u == AddCue(t, b)
           n == IndexOf(b, t.next)
           w == Warnings(b)
           N == Len(t.issues)
<1>1. t.issues \in Seq(Issue) /\ t.next \in Nat
  BY DEF Tracks
<1>2. n \in Nat
  BY <1>1, BlockFacts DEF IndexOf
<1>3. CueOf(b, n) \in FileCue
  <2> HIDE DEF n
  <2> QED BY <1>2, CueType
<1>4. u.cues = Append(t.cues, CueOf(b, n)) /\ u.issues = t.issues \o w /\ u.next = n + 1
  BY AddCueIs
<1>5. w \in Seq(Warning)
  BY WarningsType
<1> HIDE DEF u, n, w
<1>6. /\ N \in Nat /\ Len(w) \in Nat /\ DOMAIN t.issues = 1..N /\ DOMAIN u.issues = 1..(N + Len(w))
      /\ \A i \in 1..N : u.issues[i] = t.issues[i]
      /\ \A i \in 1..(N + Len(w)) : i \notin 1..N => u.issues[i] \in Warning
  <2>1. N \in Nat /\ Len(w) \in Nat /\ DOMAIN t.issues = 1..N
    BY <1>1, <1>5
  <2>2. DOMAIN u.issues = 1..(N + Len(w))
    BY <1>1, <1>4, <1>5
  <2>3. \A i \in 1..N : u.issues[i] = t.issues[i]
    BY <1>1, <1>4, <1>5
  <2>4. ASSUME NEW i \in 1..(N + Len(w)), i \notin 1..N PROVE u.issues[i] \in Warning
    <3>1. i - N \in 1..Len(w) /\ i > N
      BY <2>1, <2>4
    <3>2. u.issues[i] = w[i - N]
      BY <1>1, <1>4, <1>5, <2>4
    <3> QED BY <1>5, <3>1, <3>2
  <2> QED BY <2>1, <2>2, <2>3, <2>4
<1> HIDE DEF N
<1>7. Errors(u) = Errors(t)
  <2>1. \A i \in 1..N : i \in 1..(N + Len(w))
    BY <1>6
  <2>2. \A i \in 1..(N + Len(w)) : i \notin 1..N => u.issues[i].severity # "error"
    BY <1>6 DEF Warning
  <2> QED BY <1>6, <2>1, <2>2 DEF Errors
<1> QED BY <1>2, <1>3, <1>4, <1>6, <1>7 DEF u, n, N

\* Cues and blocks that follow change nothing of the cues before them.
LEMMA CueStaysPut ==
    ASSUME NEW cues \in Seq(FileCue), NEW c \in FileCue, NEW bs \in Seq(FileBlock), NEW b \in FileBlock,
           NEW k \in DOMAIN cues, CueStands(cues, k, bs)
    PROVE  CueStands(Append(cues, c), k, Append(bs, b)) /\ CueStands(cues, k, Append(bs, b))
<1> DEFINE all == Append(cues, c)
           runs == Append(bs, b)
<1>1. \A i \in DOMAIN cues : all[i] = cues[i]
  BY Extended
<1>2. \A j \in DOMAIN bs : j \in DOMAIN runs /\ runs[j] = bs[j]
  BY Extended
<1>3. k # 1 => k - 1 \in DOMAIN cues
  OBVIOUS
<1> HIDE DEF all, runs
<1>4. PICK j \in DOMAIN bs :
        /\ Usable(bs[j])
        /\ cues[k] = CueOf(bs[j], IndexOf(bs[j], IF k = 1 THEN 1 ELSE cues[k - 1].index + 1))
  BY DEF CueStands
<1>5. CueStands(all, k, runs)
  <2>1. j \in DOMAIN runs /\ runs[j] = bs[j] /\ all[k] = cues[k]
    BY <1>1, <1>2
  <2>2. (IF k = 1 THEN 1 ELSE all[k - 1].index + 1) = (IF k = 1 THEN 1 ELSE cues[k - 1].index + 1)
    BY <1>1, <1>3
  <2> QED BY <1>4, <2>1, <2>2 DEF CueStands
<1>6. CueStands(cues, k, runs)
  BY <1>2, <1>4 DEF CueStands
<1> QED BY <1>5, <1>6 DEF all, runs

\* One more block is read rightly after others that were.
LEMMA ReadStep ==
    ASSUME NEW t \in Tracks, NEW bs \in Seq(FileBlock), NEW b \in FileBlock, RightlyRead(t, bs)
    PROVE  RightlyRead(ParseBlock(t, b), Append(bs, b))
<1> DEFINE runs == Append(bs, b)
           N == Len(bs)
           u == ParseBlock(t, b)
<1>1. /\ N \in Nat /\ DOMAIN runs = 1..(N + 1) /\ Len(runs) = N + 1 /\ runs[N + 1] = b /\ DOMAIN bs = 1..N
      /\ \A j \in 1..N : runs[j] = bs[j]
  BY Extended
<1>2. t.cues \in Seq(FileCue) /\ t.issues \in Seq(Issue) /\ t.next \in Nat
  BY DEF Tracks
<1>3. /\ IsFiniteSet(Errors(t)) /\ Cardinality(Errors(t)) \in Nat
      /\ Len(t.cues) + Cardinality(Errors(t)) = N
      /\ \A k \in DOMAIN t.cues : CueStands(t.cues, k, bs)
      /\ \A j \in DOMAIN bs : BlockAnswered(t, bs[j])
      /\ t.next = NextAfter(t.cues)
  BY FS_CardinalityType DEF RightlyRead
<1>4. b.start \in Nat /\ EndOf(b) \in Int /\ EndOf(b) >= b.start /\ ErrorLine(b) \in b.start..EndOf(b)
  BY BlockFacts, EndType DEF EndOf
<1>5. Len(t.cues) \in Nat /\ DOMAIN t.cues = 1..Len(t.cues)
  BY <1>2
<1> HIDE DEF runs, N, u
<1>6. CASE ~Usable(b)
  <2> DEFINE e == Len(t.issues) + 1
  <2>1. u = Skip(t, b)
    BY <1>6 DEF ParseBlock, u
  <2>2. /\ u.cues = t.cues /\ u.next = t.next
        /\ Errors(u) = Errors(t) \cup {e} /\ e \notin Errors(t)
        /\ u.issues[e].line = ErrorLine(b)
        /\ \A i \in DOMAIN t.issues : u.issues[i] = t.issues[i]
    BY <2>1, SkipIs
  <2> HIDE DEF e
  <2>3. IsFiniteSet(Errors(u)) /\ Cardinality(Errors(u)) = Cardinality(Errors(t)) + 1
    BY <1>3, <2>2, FS_AddElement
  <2>4. Len(u.cues) + Cardinality(Errors(u)) = Len(runs)
    BY <1>1, <1>3, <1>5, <2>2, <2>3
  <2>5. ASSUME NEW k \in DOMAIN u.cues PROVE CueStands(u.cues, k, runs)
    <3>1. \E c : c \in FileCue
      BY <1>2, <2>2, <2>5
    <3> QED BY <1>2, <1>3, <2>2, <2>5, <3>1, CueStaysPut DEF runs
  <2>6. ASSUME NEW j \in DOMAIN runs PROVE BlockAnswered(u, runs[j])
    <3>1. CASE j = N + 1
      <4>1. e \in Errors(u) /\ u.issues[e].line \in b.start..EndOf(b)
        BY <1>4, <2>2
      <4> QED BY <1>1, <3>1, <4>1 DEF BlockAnswered
    <3>2. CASE j # N + 1
      <4>1. j \in DOMAIN bs /\ runs[j] = bs[j]
        BY <1>1, <3>2
      <4>2. \A i \in Errors(t) : i \in Errors(u) /\ u.issues[i] = t.issues[i]
        BY <2>2 DEF Errors
      <4> QED BY <1>3, <2>2, <4>1, <4>2 DEF BlockAnswered
    <3> QED BY <3>1, <3>2
  <2>7. u.next = NextAfter(u.cues)
    BY <1>3, <2>2
  <2>8. RightlyRead(u, runs)
    BY <2>3, <2>4, <2>5, <2>6, <2>7 DEF RightlyRead
  <2> QED BY <2>8 DEF u, runs
<1>7. CASE Usable(b)
  <2> DEFINE n == IndexOf(b, t.next)
             c == CueOf(b, n)
             C == Len(t.cues)
  <2>1. u = AddCue(t, b)
    BY <1>7 DEF ParseBlock, u
  <2>2. /\ u.cues = Append(t.cues, c) /\ c \in FileCue /\ u.next = n + 1 /\ n \in Nat
        /\ Errors(u) = Errors(t) /\ \A i \in DOMAIN t.issues : u.issues[i] = t.issues[i]
    BY <1>7, <2>1, AddIs
  <2>3. c.index = n /\ c.first = b.start
    BY DEF CueOf
  <2>4. /\ Len(u.cues) = C + 1 /\ u.cues[C + 1] = c /\ DOMAIN u.cues = 1..(C + 1)
        /\ \A k \in 1..C : u.cues[k] = t.cues[k]
    <3> HIDE DEF c, n
    <3> QED BY <1>2, <2>2, Extended
  <2>5. Len(u.cues) + Cardinality(Errors(u)) = Len(runs)
    BY <1>1, <1>3, <1>5, <2>2, <2>4
  <2>6. u.next = NextAfter(u.cues)
    <3>1. u.cues # <<>>
      <4> HIDE DEF c, n
      <4> QED BY <1>5, <2>4
    <3>2. NextAfter(u.cues) = u.cues[C + 1].index + 1
      BY <3>1, <2>4 DEF NextAfter
    <3> QED BY <2>2, <2>3, <2>4, <3>2
  <2>7. ASSUME NEW k \in DOMAIN u.cues PROVE CueStands(u.cues, k, runs)
    <3>1. CASE k = C + 1
      <4>1. t.next = IF k = 1 THEN 1 ELSE u.cues[k - 1].index + 1
        <5>1. CASE C = 0
          <6>1. t.cues = <<>>
            BY <1>2, <5>1
          <6> QED BY <1>3, <3>1, <5>1, <6>1 DEF NextAfter
        <5>2. CASE C # 0
          <6>1. t.cues # <<>> /\ C \in 1..C /\ k # 1 /\ k - 1 = C
            BY <1>2, <1>5, <3>1, <5>2
          <6>2. u.cues[k - 1] = t.cues[C]
            BY <2>4, <6>1
          <6> HIDE DEF c, n
          <6> QED BY <1>3, <6>1, <6>2 DEF NextAfter
        <5> QED BY <5>1, <5>2
      <4>2. u.cues[k] = c /\ N + 1 \in DOMAIN runs /\ runs[N + 1] = b
        BY <1>1, <2>4, <3>1
      <4>3. u.cues[k] = CueOf(b, IndexOf(b, IF k = 1 THEN 1 ELSE u.cues[k - 1].index + 1))
        BY <4>1, <4>2
      <4> HIDE DEF c, n
      <4> QED BY <1>7, <4>2, <4>3 DEF CueStands
    <3>2. CASE k # C + 1
      <4> HIDE DEF c, n
      <4>1. k \in DOMAIN t.cues
        BY <1>5, <2>4, <3>2
      <4> QED BY <1>2, <1>3, <2>2, <4>1, CueStaysPut DEF runs
    <3> QED BY <3>1, <3>2
  <2>8. ASSUME NEW j \in DOMAIN runs PROVE BlockAnswered(u, runs[j])
    <3>1. CASE j = N + 1
      <4>1. C + 1 \in DOMAIN u.cues /\ u.cues[C + 1].first = b.start
        BY <1>5, <2>3, <2>4
      <4> HIDE DEF c, n
      <4> QED BY <1>1, <3>1, <4>1 DEF BlockAnswered
    <3>2. CASE j # N + 1
      <4> HIDE DEF c, n
      <4>1. j \in DOMAIN bs /\ runs[j] = bs[j]
        BY <1>1, <3>2
      <4>2. \A i \in Errors(t) : i \in Errors(u) /\ u.issues[i] = t.issues[i]
        BY <2>2 DEF Errors
      <4>3. \A k \in DOMAIN t.cues : k \in DOMAIN u.cues /\ u.cues[k] = t.cues[k]
        BY <1>5, <2>4
      <4> QED BY <1>3, <4>1, <4>2, <4>3 DEF BlockAnswered
    <3> QED BY <3>1, <3>2
  <2>9. RightlyRead(u, runs)
    <3> HIDE DEF c, n
    <3> QED BY <1>3, <2>2, <2>5, <2>6, <2>7, <2>8 DEF RightlyRead
  <2> QED BY <2>9 DEF u, runs
<1> QED BY <1>6, <1>7

\* The loop of parse(), for any blocks: each is a cue with its text, or has an error of
\* its own, never both; and a cue has its written index, or the one after the cue
\* before it.
LEMMA ReadIsRight == ASSUME NEW bs \in Seq(FileBlock) PROVE RightlyRead(Read(bs), bs)
<1> DEFINE T == {x \in Seq(FileBlock) : RightlyRead(Read(x), x)}
<1>1. <<>> \in T
  <2>1. <<>> \in Seq(FileBlock) /\ Len(<<>>) = 0 /\ DOMAIN <<>> = {}
    OBVIOUS
  <2>2. Errors(NoTrack) = {} /\ NoTrack.cues = <<>> /\ NoTrack.next = 1
    BY <2>1 DEF Errors, NoTrack
  <2>3. RightlyRead(NoTrack, <<>>)
    BY <2>1, <2>2, FS_EmptySet DEF RightlyRead, NextAfter
  <2> QED BY <2>1, <2>3, ReadEmpty
<1>2. ASSUME NEW x \in T, NEW b \in FileBlock PROVE Append(x, b) \in T
  <2>1. x \in Seq(FileBlock) /\ RightlyRead(Read(x), x) /\ Read(x) \in Tracks
    BY ReadType
  <2>2. Read(Append(x, b)) = ParseBlock(Read(x), b)
    BY <2>1, ReadAppend
  <2> QED BY <2>1, <2>2, ReadStep, Extended
<1>3. T = Seq(FileBlock)
  <2> HIDE DEF T
  <2> QED BY <1>1, <1>2, SeqInduction DEF T
<1> QED BY <1>3

-----------------------------------------------------------------------------
(* parse() is faithful.                                                    *)

\* What a cue has of the file: the lines after its timing line, to the end of its block.
LEMMA TextOfCue ==
    ASSUME NEW S, NEW lines \in Seq(S), NEW s \in Nat, NEW n \in Nat \ {0}, NEW c \in 1..n,
           s \in 1..Len(lines), s + n - 1 \in s..Len(lines)
    PROVE  LET b == SubSeq(lines, s, s + n - 1)
               e == s + n - 1
               text == SubSeq(b, c + 1, n) IN
             Len(b) = n =>
             /\ text = SubSeq(lines, e - Len(text) + 1, e)
             /\ lines[e - Len(text)] = b[c] /\ lines[s] = b[1]
<1> DEFINE e == s + n - 1
           b == SubSeq(lines, s, e)
           text == SubSeq(b, c + 1, n)
<1>1. b \in Seq(S) /\ Len(b) = n /\ \A i \in 1..n : b[i] = lines[s + i - 1]
  OBVIOUS
<1>2. text \in Seq(S) /\ Len(text) = n - c /\ \A i \in 1..(n - c) : text[i] = b[c + i]
  <2> HIDE DEF b
  <2>1. c \in Nat /\ c + 1 \in 1..(n + 1) /\ n \in 0..Len(b)
    BY <1>1
  <2>2. text \in Seq(S) /\ Len(text) = n - c
    BY <1>1, <2>1
  <2>3. ASSUME NEW i \in 1..(n - c) PROVE text[i] = b[c + i]
    <3>1. SubSeq(b, c + 1, n)[i] = b[(c + 1) + i - 1]
      BY <1>1, <2>1
    <3>2. (c + 1) + i - 1 = c + i
      BY <2>1
    <3> QED BY <3>1, <3>2
  <2> QED BY <2>2, <2>3
<1>3. \A i \in 1..(n - c) : text[i] = lines[s + c + i - 1]
  <2> HIDE DEF text, b
  <2> SUFFICES ASSUME NEW i \in 1..(n - c) PROVE text[i] = lines[s + c + i - 1]
    OBVIOUS
  <2>1. c + i \in 1..n /\ s + (c + i) - 1 = s + c + i - 1
    OBVIOUS
  <2> QED BY <1>1, <1>2, <2>1
<1>4. e - Len(text) + 1 = s + c /\ e - Len(text) = s + c - 1
  <2> HIDE DEF text
  <2> QED BY <1>2
<1>5. text = SubSeq(lines, s + c, e)
  <2> DEFINE u == SubSeq(lines, s + c, e)
  <2>1. u \in Seq(S) /\ Len(u) = n - c /\ \A i \in 1..(n - c) : u[i] = lines[s + c + i - 1]
    BY SMTT(30)
  <2> HIDE DEF u, text, b
  <2> QED BY <1>2, <1>3, <2>1, SMTT(30)
<1>6. lines[s + c - 1] = b[c] /\ lines[s] = b[1]
  <2> HIDE DEF b
  <2>1. 1 \in 1..n /\ s + 1 - 1 = s
    OBVIOUS
  <2> QED BY <1>1, <2>1
<1> HIDE DEF text, b
<1> QED BY <1>1, <1>4, <1>5, <1>6 DEF text, b

\* The cue of a run has its lines, and the lines it stands on.
LEMMA CueOfRun ==
    ASSUME NEW lines \in Seq(FileLine), NEW b \in FileBlock, IsRunOf(b, lines), Usable(b), NEW n \in Nat
    PROVE  LET c == CueOf(b, n) IN
             /\ c.first = b.start /\ c.last = EndOf(b) /\ c.index = n
             /\ c.lines = SubSeq(lines, c.last - Len(c.lines) + 1, c.last)
             /\ lines[c.last - Len(c.lines)] = TimingLine(b)
             /\ lines[c.first] = b.lines[1]
<1> DEFINE c == CueOf(b, n)
           s == b.start
           m == Len(b.lines)
           k == Cursor(b)
<1>1. s \in Nat /\ m \in Nat \ {0} /\ k \in 1..m
  BY BlockFacts
<1>2. EndOf(b) = s + m - 1
  BY DEF EndOf
<1>3. s \in 1..Len(lines) /\ s + m - 1 \in s..Len(lines) /\ b.lines = SubSeq(lines, s, s + m - 1)
  BY <1>2 DEF IsRunOf
<1>4. c.first = s /\ c.last = s + m - 1 /\ c.index = n /\ c.lines = SubSeq(b.lines, k + 1, m)
  BY DEF CueOf
<1>5. TimingLine(b) = b.lines[k]
  BY DEF TimingLine
<1> HIDE DEF c, s, k
<1>6. Len(SubSeq(lines, s, s + m - 1)) = m
  BY <1>3
<1> HIDE DEF m
<1>7. /\ SubSeq(b.lines, k + 1, m) = SubSeq(lines, (s + m - 1) - Len(SubSeq(b.lines, k + 1, m)) + 1, s + m - 1)
      /\ lines[(s + m - 1) - Len(SubSeq(b.lines, k + 1, m))] = b.lines[k] /\ lines[s] = b.lines[1]
  BY <1>1, <1>3, <1>6, TextOfCue
<1> QED BY <1>2, <1>4, <1>5, <1>7 DEF c, s

\* What parse() makes of any lines: their runs, each of them read rightly.
LEMMA ParsedCues ==
    ASSUME NEW lines \in Seq(FileLine)
    PROVE  LET bs == SplitBlocks(lines)
               t == Parse(lines) IN
             /\ IsSplit(bs, lines) /\ RightlyRead(t, bs) /\ t \in Tracks /\ bs \in Seq(FileBlock)
BY SplitIsRight, SplitType, ReadIsRight, ParseType DEF Parse

\* Nothing is dropped by parse() and its numbers follow, in any file: the step from the
\* invariant to the property of the run.
THEOREM FaithfulParse == Reached => ParseIsFaithful
<1> SUFFICES ASSUME Reached PROVE ParseIsFaithful
  OBVIOUS
<1> DEFINE bs == SplitBlocks(doc)
<1>1. IsSplit(bs, doc) /\ RightlyRead(parsed, bs) /\ parsed \in Tracks /\ bs \in Seq(FileBlock)
      /\ doc \in Seq(FileLine)
  BY ParsedCues DEF Reached
<1> HIDE DEF bs
<1>2. Runs = RunsOf(doc)
  BY DEF Runs, RunsOf
<1>3. Cues \in Seq(FileCue)
  BY <1>1 DEF Tracks, Cues
<1>4. ASSUME NEW k \in DOMAIN Cues
      PROVE  /\ <<Cues[k].first, Cues[k].last>> \in Runs
             /\ Cues[k].lines = SubSeq(doc, Cues[k].last - Len(Cues[k].lines) + 1, Cues[k].last)
             /\ doc[Cues[k].last - Len(Cues[k].lines)].kind = "timing"
             /\ Cues[k].index = IF doc[Cues[k].first].kind = "number" THEN doc[Cues[k].first].value
                                ELSE IF k = 1 THEN 1 ELSE Cues[k - 1].index + 1
  <2> DEFINE before == IF k = 1 THEN 1 ELSE Cues[k - 1].index + 1
  <2>1. before \in Nat
    <3>1. k # 1 => k - 1 \in DOMAIN Cues
      BY <1>3
    <3>2. k # 1 => Cues[k - 1].index \in Nat
      <4>1. k # 1 => Cues[k - 1] \in FileCue
        BY <1>3, <3>1
      <4> QED BY <4>1 DEF FileCue
    <3> QED BY <3>2
  <2>2. PICK j \in DOMAIN bs : Usable(bs[j]) /\ Cues[k] = CueOf(bs[j], IndexOf(bs[j], before))
    BY <1>1, <1>4 DEF RightlyRead, CueStands, Cues
  <2> HIDE DEF before
  <2> DEFINE b == bs[j]
             n == IndexOf(b, before)
  <2>3. b \in FileBlock /\ IsRunOf(b, doc) /\ <<b.start, EndOf(b)>> \in Runs
    BY <1>1, <1>2, BlockIsRun DEF IsSplit
  <2>4. n \in Nat
    BY <2>1, <2>3, BlockFacts DEF IndexOf
  <2>5. Usable(b) /\ Cues[k] = CueOf(b, n)
    BY <2>2
  <2> HIDE DEF b
  <2>6. (TimingLine(b)).kind = "timing"
    BY <2>5 DEF Usable
  <2> HIDE DEF n
  <2>7. /\ Cues[k].first = b.start /\ Cues[k].last = EndOf(b) /\ Cues[k].index = n
        /\ Cues[k].lines = SubSeq(doc, Cues[k].last - Len(Cues[k].lines) + 1, Cues[k].last)
        /\ doc[Cues[k].last - Len(Cues[k].lines)] = TimingLine(b)
        /\ doc[Cues[k].first] = b.lines[1]
    BY <1>1, <2>3, <2>4, <2>5, CueOfRun
  <2>8. n = IF b.lines[1].kind = "number" THEN b.lines[1].value ELSE before
    <3>1. CASE HasIndex(b)
      BY <3>1 DEF HasIndex, IndexOf, n
    <3>2. CASE ~HasIndex(b)
      <4>1. b.lines[1].kind = "timing"
        BY <2>6, <3>2 DEF TimingLine, Cursor
      <4> QED BY <3>2, <4>1 DEF IndexOf, n
    <3> QED BY <3>1, <3>2
  <2> QED BY <2>3, <2>6, <2>7, <2>8 DEF before
<1>5. ASSUME NEW r \in Runs
      PROVE  \/ \E k \in DOMAIN Cues : Cues[k].first = r[1]
             \/ \E i \in Errors(parsed) : parsed.issues[i].line \in r[1]..r[2]
  <2>1. PICK j \in DOMAIN bs : r = <<bs[j].start, EndOf(bs[j])>>
    BY <1>1, <1>2, RunIsBlock
  <2>2. BlockAnswered(parsed, bs[j])
    BY <1>1 DEF RightlyRead
  <2> QED BY <2>1, <2>2 DEF BlockAnswered, Cues
<1>6. Cardinality(Runs) = Len(Cues) + Cardinality(Errors(parsed))
  BY <1>1, <1>2, AsManyRuns DEF RightlyRead, Cues
<1> QED BY <1>4, <1>5, <1>6 DEF ParseIsFaithful, NothingIsDropped, NumbersFollow

-----------------------------------------------------------------------------
(* What typing on changes. *)

\* One more block leaves the cues before it as they are.
LEMMA ParseBlockGrows ==
    ASSUME NEW t \in Tracks, NEW b \in FileBlock
    PROVE  LET u == ParseBlock(t, b) IN
             /\ \A k \in DOMAIN t.cues : k \in DOMAIN u.cues /\ u.cues[k] = t.cues[k]
             /\ \A k \in DOMAIN u.cues : k \in DOMAIN t.cues \/ u.cues[k].last = EndOf(b)
<1> DEFINE u == ParseBlock(t, b)
           n == IndexOf(b, t.next)
<1>0. t.cues \in Seq(FileCue)
  BY DEF Tracks
<1>1. CASE ~Usable(b)
  <2>1. u.cues = t.cues
    BY <1>1, SkipIs DEF ParseBlock
  <2> QED BY <2>1
<1>2. CASE Usable(b)
  <2>1. u.cues = Append(t.cues, CueOf(b, n)) /\ CueOf(b, n) \in FileCue
    BY <1>2, AddIs DEF ParseBlock
  <2>2. CueOf(b, n).last = EndOf(b)
    BY DEF CueOf, EndOf
  <2> DEFINE c == CueOf(b, n)
             N == Len(t.cues)
  <2> HIDE DEF u, c
  <2>3. /\ N \in Nat /\ DOMAIN u.cues = 1..(N + 1) /\ DOMAIN t.cues = 1..N /\ u.cues[N + 1] = c
        /\ \A k \in 1..N : u.cues[k] = t.cues[k]
    BY <1>0, <2>1, Extended DEF c
  <2>4. c.last = EndOf(b)
    BY <2>2 DEF c
  <2> HIDE DEF N
  <2>5. \A k \in 1..N : k \in 1..(N + 1)
    BY <2>3
  <2>6. \A k \in 1..(N + 1) : k \in 1..N \/ k = N + 1
    BY <2>3
  <2>7. /\ \A k \in DOMAIN t.cues : k \in DOMAIN u.cues /\ u.cues[k] = t.cues[k]
        /\ \A k \in DOMAIN u.cues : k \in DOMAIN t.cues \/ u.cues[k].last = EndOf(b)
    BY <2>3, <2>4, <2>5, <2>6
  <2> QED BY <2>7 DEF u
<1> QED BY <1>1, <1>2

\* parse() of a file and a line more: cues that ended before the last line stay.
LEMMA ClosedStay ==
    ASSUME NEW lines \in Seq(FileLine), NEW l \in FileLine
    PROVE  LET cues == Parse(lines).cues
               more == Parse(Append(lines, l)).cues IN
             \A k \in DOMAIN cues : cues[k].last < Len(lines) => k \in DOMAIN more /\ more[k] = cues[k]
<1> DEFINE s == Scan(lines)
           i == Len(lines) + 1
           t == Feed(s, i, l)
           old == Read(s.blocks)
           cues == Parse(lines).cues
           more == Parse(Append(lines, l)).cues
<1>1. s \in Splits /\ Scanned(s, lines) /\ s.blocks \in Seq(FileBlock) /\ old \in Tracks
  <2>1. s \in Splits /\ Scanned(s, lines)
    BY ScanType, ScanIsRight
  <2>2. s.blocks \in Seq(FileBlock)
    BY <2>1 DEF Splits
  <2> QED BY <2>1, <2>2, ReadType
<1>2. Scan(Append(lines, l)) = t /\ t \in Splits
  <2>1. i \in Nat
    OBVIOUS
  <2> QED BY <1>1, <2>1, ScanAppend, FeedType
<1>3. Parse(lines) = Read(Flush(s).blocks) /\ Parse(Append(lines, l)) = Read(Flush(t).blocks)
  BY <1>2 DEF Parse, SplitBlocks
<1> HIDE DEF s, t
<1>4. CASE l = Blank
  <2>1. t = Flush(s)
    BY <1>4 DEF Feed, t
  <2>2. Flush(t) = t
    <3>1. t.current = <<>>
      BY <2>1 DEF Flush
    <3> QED BY <3>1 DEF Flush
  <2>3. Parse(Append(lines, l)) = Parse(lines)
    BY <1>3, <2>1, <2>2
  <2> QED BY <2>3
<1>5. CASE l # Blank
  <2> DEFINE p == Pending(s)
             q == Pending(t)
  <2>1. t.blocks = s.blocks /\ t.current = Append(s.current, l) /\ t.current # <<>>
    <3>1. t.blocks = s.blocks /\ t.current = Append(s.current, l)
      BY <1>1, <1>5 DEF Feed, Splits, t
    <3>2. s.current \in Seq(FileLine)
      BY <1>1 DEF Splits
    <3> QED BY <3>1, <3>2, AppendProperties
  <2>2. q \in FileBlock
    BY <1>2, <2>1, PendingType
  <2>3. Parse(Append(lines, l)) = ParseBlock(old, q)
    <3>1. Flush(t).blocks = Append(s.blocks, q)
      BY <1>2, <2>1 DEF Flush, Pending, Splits
    <3> HIDE DEF q
    <3> QED BY <1>1, <1>3, <2>2, <3>1, ReadAppend
  <2> HIDE DEF q, old
  <2>4. \A k \in DOMAIN old.cues : k \in DOMAIN more /\ more[k] = old.cues[k]
    BY <1>1, <2>2, <2>3, ParseBlockGrows
  <2>5. CASE s.current = <<>>
    <3>1. Flush(s) = s
      BY <2>5 DEF Flush
    <3>2. cues = old.cues
      BY <1>3, <3>1 DEF old
    <3> QED BY <2>4, <3>2
  <2>6. CASE s.current # <<>>
    <3>1. p \in FileBlock /\ EndOf(p) = Len(lines)
      BY <1>1, <2>6, PendingType DEF Scanned
    <3>2. Parse(lines) = ParseBlock(old, p)
      <4>1. Flush(s).blocks = Append(s.blocks, p)
        BY <1>1, <2>6 DEF Flush, Pending, Splits
      <4> HIDE DEF p
      <4> QED BY <1>1, <1>3, <3>1, <4>1, ReadAppend DEF old
    <3> HIDE DEF p
    <3>3. /\ \A k \in DOMAIN old.cues : k \in DOMAIN cues /\ cues[k] = old.cues[k]
          /\ \A k \in DOMAIN cues : k \in DOMAIN old.cues \/ cues[k].last = Len(lines)
      BY <1>1, <3>1, <3>2, ParseBlockGrows
    <3>4. ~(Len(lines) < Len(lines))
      <4>1. Len(lines) \in Nat
        OBVIOUS
      <4> QED BY <4>1
    <3> HIDE DEF cues, more
    <3>5. \A k \in DOMAIN cues : cues[k].last < Len(lines) => k \in DOMAIN more /\ more[k] = cues[k]
      BY <2>4, <3>3, <3>4
    <3> QED BY <3>5 DEF cues, more
  <2> QED BY <2>5, <2>6
<1> QED BY <1>4, <1>5

-----------------------------------------------------------------------------
(* What is written is read again. *)

\* A quotient and its remainder are determined.
LEMMA DivUnique == ASSUME NEW b \in Nat \ {0}, NEW q \in Nat, NEW r \in 0..(b - 1)
   PROVE (b * q + r) \div b = q /\ (b * q + r) % b = r
BY SMT

\* One multiple more.
LEMMA Distributes == ASSUME NEW b \in Nat, NEW q \in Nat PROVE b * (q + 1) = b * q + b /\ b * q \in Nat
BY SMT
Divided(n, b) == \E q \in Nat, r \in 0..(b - 1) : n = b * q + r

\* A division by its quotient and remainder.
LEMMA DivPick == ASSUME NEW a \in Nat, NEW b \in Nat \ {0}
   PROVE \E q \in Nat, r \in 0..(b - 1) : a = b * q + r /\ a \div b = q /\ a % b = r
<1> DEFINE Good == {n \in Nat : Divided(n, b)}
<1>1. 0 \in Good
  <2>1. 0 = b * 0 + 0 /\ 0 \in 0..(b - 1)
    OBVIOUS
  <2>2. Divided(0, b)
    BY <2>1, Zenon DEF Divided
  <2> QED BY <2>2
<1>2. ASSUME NEW n \in Good PROVE n + 1 \in Good
  <2>1. PICK q \in Nat, r \in 0..(b - 1) : n = b * q + r
    BY Zenon DEF Divided
  <2>2. ASSUME r + 1 < b PROVE Divided(n + 1, b)
    <3>1. r + 1 \in 0..(b - 1) /\ n + 1 = b * q + (r + 1)
      BY <2>1, <2>2, Distributes
    <3> QED BY <3>1, Zenon DEF Divided
  <2>3. ASSUME ~(r + 1 < b) PROVE Divided(n + 1, b)
    <3>1. q + 1 \in Nat /\ 0 \in 0..(b - 1) /\ n + 1 = b * (q + 1) + 0
      <4>1. r + 1 = b
        BY <2>3
      <4> DEFINE p == b * q
      <4>2. p \in Nat /\ b * (q + 1) = p + b /\ n = p + r
        BY <2>1, Distributes
      <4> HIDE DEF p
      <4> QED BY <4>1, <4>2
    <3> QED BY <3>1, Zenon DEF Divided
  <2>4. Divided(n + 1, b)
    BY <2>2, <2>3
  <2> QED BY <2>4
<1>3. Good = Nat
  <2> HIDE DEF Good
  <2> QED BY <1>1, <1>2, NaturalInduction DEF Good
<1>4. PICK q \in Nat, r \in 0..(b - 1) : a = b * q + r
  <2>1. Divided(a, b)
    BY <1>3
  <2> QED BY <2>1, Zenon DEF Divided
<1>5. a \div b = q /\ a % b = r
  BY <1>4, DivUnique
<1> QED BY <1>4, <1>5

\* Dividing by b and then by c divides by their product.
LEMMA DivTwice ==
    ASSUME NEW a \in Nat, NEW b \in Nat \ {0}, NEW c \in Nat \ {0}, NEW d, d = b * c, d \in Nat \ {0}
    PROVE  a \div d = (a \div b) \div c
<1>1. PICK q \in Nat, r \in 0..(b - 1) : a = b * q + r /\ a \div b = q
  BY DivPick
<1>2. PICK p \in Nat, x \in 0..(c - 1) : q = c * p + x /\ q \div c = p
  BY DivPick
<1>3. b * q = d * p + b * x
  <2>1. b * (c * p + x) = (b * c) * p + b * x
    BY SMT
  <2> QED BY <1>2, <2>1
<1>4. b * x + r \in 0..(d - 1)
  <2>1. b * x + b <= d
    <3>1. x + 1 <= c /\ x + 1 \in Nat
      BY <1>2
    <3>2. b * (x + 1) <= b * c
      BY <3>1, SMT
    <3>3. b * (x + 1) = b * x + b
      BY SMT
    <3> QED BY <3>2, <3>3
  <2>2. b * x \in Nat
    BY SMT
  <2> DEFINE y == b * x
  <2> HIDE DEF y
  <2>3. y \in Nat /\ y + b <= d
    BY <2>1, <2>2 DEF y
  <2>4. y + r \in 0..(d - 1)
    BY <2>3, <1>1
  <2> QED BY <2>4 DEF y
<1>5. a = d * p + (b * x + r)
  <2> DEFINE y == b * x
             z == d * p
             w == b * q
  <2>1. y \in Nat /\ z \in Nat /\ w \in Nat
    BY SMT
  <2>2. w = z + y /\ a = w + r
    BY <1>1, <1>3
  <2> HIDE DEF y, z, w
  <2>3. a = z + (y + r)
    BY <2>1, <2>2
  <2> QED BY <2>3 DEF y, z
<1>6. (d * p + (b * x + r)) \div d = p
  <2> DEFINE y == b * x + r
  <2> HIDE DEF y
  <2>1. y \in 0..(d - 1)
    BY <1>4 DEF y
  <2>2. (d * p + y) \div d = p
    BY <2>1, DivUnique
  <2> QED BY <2>2 DEF y
<1> QED BY <1>1, <1>2, <1>5, <1>6

\* Hours, minutes, seconds and digits add up to the milliseconds they are parts of.
LEMMA SumOfParts ==
    ASSUME NEW h \in Nat, NEW m \in Nat, NEW s \in Nat, NEW r \in Nat, NEW x \in Nat, NEW y \in Nat, NEW ms,
           ms = 1000 * s + r, s = 60 * m + x, m = 60 * h + y,
           NEW u \in Nat, NEW v \in Nat, NEW w \in Nat, NEW t \in Nat, r = 10 * t + w, t = 10 * u + v
    PROVE  3600000 * h + 60000 * y + 1000 * x + 100 * u + 10 * v + w = ms
BY SMT

\* A timecode written by to_srt() is read as it was.
LEMMA PartsAdd ==
    ASSUME NEW ms \in Nat
    PROVE  \E h \in Nat, y \in Nat, x \in Nat, u \in Nat, v \in Nat, w \in Nat :
             /\ (ms \div 60000) % 60 = y /\ (ms \div 1000) % 60 = x /\ (ms % 1000) \div 100 = u
             /\ ((ms % 1000) \div 10) % 10 = v /\ (ms % 1000) % 10 = w /\ ms \div 3600000 = h
             /\ 3600000 * h + 60000 * y + 1000 * x + 100 * u + 10 * v + w = ms
<1>1. PICK s \in Nat, r \in 0..999 : ms = 1000 * s + r /\ ms \div 1000 = s /\ ms % 1000 = r
  <2>1. 1000 \in Nat \ {0} /\ 1000 - 1 = 999
    BY SMT
  <2>2. \E s \in Nat, r \in 0..(1000 - 1) : ms = 1000 * s + r /\ ms \div 1000 = s /\ ms % 1000 = r
    BY <2>1, DivPick, SMT
  <2> QED BY <2>1, <2>2, SMTT(30)
<1>2. PICK m \in Nat, x \in 0..59 : s = 60 * m + x /\ s \div 60 = m /\ s % 60 = x
  <2>1. 60 \in Nat \ {0} /\ 60 - 1 = 59
    BY SMT
  <2>2. \E m \in Nat, x \in 0..(60 - 1) : s = 60 * m + x /\ s \div 60 = m /\ s % 60 = x
    BY <2>1, DivPick, SMT
  <2> QED BY <2>1, <2>2, SMT
<1>3. PICK h \in Nat, y \in 0..59 : m = 60 * h + y /\ m \div 60 = h /\ m % 60 = y
  <2>1. 60 \in Nat \ {0} /\ 60 - 1 = 59
    BY SMT
  <2>2. \E h \in Nat, y \in 0..(60 - 1) : m = 60 * h + y /\ m \div 60 = h /\ m % 60 = y
    BY <2>1, DivPick, SMT
  <2> QED BY <2>1, <2>2, SMT
<1>4. ms \div 60000 = m /\ ms \div 3600000 = h
  <2>1. ms \div 60000 = (ms \div 1000) \div 60
    <3>1. 60000 = 1000 * 60 /\ 60000 \in Nat \ {0} /\ 1000 \in Nat \ {0} /\ 60 \in Nat \ {0}
      BY SMT
    <3> QED BY <3>1, DivTwice, SMT
  <2>2. ms \div 3600000 = (ms \div 60000) \div 60
    <3>1. 3600000 = 60000 * 60 /\ 3600000 \in Nat \ {0} /\ 60000 \in Nat \ {0} /\ 60 \in Nat \ {0}
      BY SMT
    <3> QED BY <3>1, DivTwice, SMT
  <2> QED BY <1>1, <1>2, <1>3, <2>1, <2>2, SMT
<1>5. PICK t \in Nat, w \in 0..9 : r = 10 * t + w /\ r \div 10 = t /\ r % 10 = w
  <2>1. 10 \in Nat \ {0} /\ 10 - 1 = 9 /\ r \in Nat
    BY SMT
  <2>2. \E t \in Nat, w \in 0..(10 - 1) : r = 10 * t + w /\ r \div 10 = t /\ r % 10 = w
    BY <2>1, DivPick, SMT
  <2> QED BY <2>1, <2>2, SMT
<1>6. PICK u \in Nat, v \in 0..9 : t = 10 * u + v /\ t \div 10 = u /\ t % 10 = v
  <2>1. 10 \in Nat \ {0} /\ 10 - 1 = 9
    BY SMT
  <2>2. \E u \in Nat, v \in 0..(10 - 1) : t = 10 * u + v /\ t \div 10 = u /\ t % 10 = v
    BY <2>1, DivPick, SMT
  <2> QED BY <2>1, <2>2, SMT
<1>7. r \div 100 = u
  <2>1. r \div 100 = (r \div 10) \div 10
    <3>1. 100 = 10 * 10 /\ 100 \in Nat \ {0} /\ 10 \in Nat \ {0} /\ r \in Nat
      BY SMT
    <3> QED BY <3>1, DivTwice, SMT
  <2> QED BY <1>5, <1>6, <2>1
<1>8. r \in Nat /\ x \in Nat /\ y \in Nat /\ v \in Nat /\ w \in Nat
  BY SMT
<1>9. 3600000 * h + 60000 * y + 1000 * x + 100 * u + 10 * v + w = ms
  BY <1>1, <1>2, <1>3, <1>5, <1>6, <1>8, SumOfParts, SMT
<1>10. /\ (ms \div 60000) % 60 = y /\ (ms \div 1000) % 60 = x /\ (ms % 1000) \div 100 = u
       /\ ((ms % 1000) \div 10) % 10 = v /\ (ms % 1000) % 10 = w /\ ms \div 3600000 = h
  BY <1>1, <1>2, <1>3, <1>4, <1>5, <1>6, <1>7, SMT
<1> QED BY <1>8, <1>9, <1>10

\* TimeCode.parse(to_srt(ms)) = ms, for any time: no digit is lost or rounded.
LEMMA WrittenIsRead ==
    ASSUME NEW ms \in Nat
    PROVE  TimeCode(ToSrt(ms)) = ms /\ Readable(ToSrt(ms)) /\ ToSrt(ms) \in Written
<1> DEFINE p == Parts(ms)
           x == ToSrt(ms)
           f == Fields(x)
<1>1. f = <<p[1], p[2], p[3]>> /\ Readable(x) /\ x \in Written
  BY PartsType
<1>2. p[1] = ms \div 3600000 /\ p[2] = (ms \div 60000) % 60 /\ p[3] = (ms \div 1000) % 60 /\ p[4] = ms % 1000
  BY SMT DEF Parts
<1>3. x.frac = <<p[4] \div 100, (p[4] \div 10) % 10, p[4] % 10>>
  BY DEF ToSrt
<1>4. f[1] = p[1] /\ f[2] = p[2] /\ f[3] = p[3]
  <2> HIDE DEF f, p
  <2> QED BY <1>1
<1> HIDE DEF f, p, x
<1>5. Digit(x.frac, 1) = p[4] \div 100 /\ Digit(x.frac, 2) = (p[4] \div 10) % 10 /\ Digit(x.frac, 3) = p[4] % 10
  BY <1>3 DEF Digit
<1>6. TimeCode(x) = 3600000 * f[1] + 60000 * f[2] + 1000 * f[3]
          + 100 * Digit(x.frac, 1) + 10 * Digit(x.frac, 2) + Digit(x.frac, 3)
  BY SMT DEF TimeCode, f
<1>7. TimeCode(x) = ms
  <2>1. PICK h \in Nat, y \in Nat, z \in Nat, u \in Nat, v \in Nat, w \in Nat :
             /\ (ms \div 60000) % 60 = y /\ (ms \div 1000) % 60 = z /\ (ms % 1000) \div 100 = u
             /\ ((ms % 1000) \div 10) % 10 = v /\ (ms % 1000) % 10 = w /\ ms \div 3600000 = h
             /\ 3600000 * h + 60000 * y + 1000 * z + 100 * u + 10 * v + w = ms
    BY PartsAdd, SMT
  <2>2. /\ f[1] = h /\ f[2] = y /\ f[3] = z /\ Digit(x.frac, 1) = u /\ Digit(x.frac, 2) = v
        /\ Digit(x.frac, 3) = w
    BY <1>2, <1>4, <1>5, <2>1, SMT
  <2>3. TimeCode(x) = 3600000 * h + 60000 * y + 1000 * z + 100 * u + 10 * v + w
    BY <1>6, <2>2, SMT
  <2> QED BY <2>1, <2>3, SMT
<1> QED BY <1>1, <1>7 DEF x

-----------------------------------------------------------------------------

\* Lines that are not blank.
Text == FileLine \ {Blank}

\* Lines that are not blank, after a blank one or at the beginning, become a block.
LEMMA ScanRun ==
    ASSUME NEW lines \in Seq(FileLine), Scan(lines).current = <<>>, NEW u \in Seq(Text)
    PROVE  /\ lines \o u \in Seq(FileLine)
           /\ Scan(lines \o u).blocks = Scan(lines).blocks /\ Scan(lines \o u).current = u
<1> DEFINE T == {x \in Seq(Text) : /\ lines \o x \in Seq(FileLine)
                                   /\ Scan(lines \o x).blocks = Scan(lines).blocks
                                   /\ Scan(lines \o x).current = x}
<1>1. <<>> \in T
  <2>1. lines \o <<>> = lines
    BY ConcatEmptySeq
  <2> QED BY <2>1
<1>2. ASSUME NEW x \in T, NEW l \in Text PROVE Append(x, l) \in T
  <2>1. x \in Seq(Text) /\ Append(x, l) \in Seq(Text) /\ x \in Seq(FileLine) /\ l \in FileLine /\ l # Blank
    BY Widened DEF Text
  <2>2. lines \o Append(x, l) = Append(lines \o x, l)
    BY <2>1
  <2>3. lines \o x \in Seq(FileLine) /\ Scan(lines \o x) \in Splits
    BY ScanType
  <2>4. Scan(Append(lines \o x, l)) = Feed(Scan(lines \o x), Len(lines \o x) + 1, l)
    BY <2>1, <2>3, ScanAppend
  <2>5. /\ Scan(Append(lines \o x, l)).blocks = Scan(lines \o x).blocks
        /\ Scan(Append(lines \o x, l)).current = Append(Scan(lines \o x).current, l)
    BY <2>1, <2>3, <2>4 DEF Feed, Splits
  <2>6. Append(lines \o x, l) \in Seq(FileLine)
    BY <2>1, <2>3
  <2> QED BY <2>1, <2>2, <2>5, <2>6
<1>3. T = Seq(Text)
  <2> HIDE DEF T
  <2> QED BY <1>1, <1>2, SeqInduction DEF T
<1> QED BY <1>3

\* With a blank line after them they are one block more.
LEMMA ScanBlock ==
    ASSUME NEW lines \in Seq(FileLine), Scan(lines).current = <<>>, NEW u \in Seq(Text), u # <<>>
    PROVE  LET all == Append(lines \o u, Blank) IN
             /\ Scan(all).current = <<>>
             /\ \E n \in Nat : Scan(all).blocks = Append(Scan(lines).blocks, [start |-> n, lines |-> u])
<1> DEFINE x == lines \o u
           s == Scan(x)
<1>1. x \in Seq(FileLine) /\ s.blocks = Scan(lines).blocks /\ s.current = u /\ s \in Splits
  BY ScanRun, ScanType
<1>2. Scan(Append(x, Blank)) = Flush(s)
  <2>1. Scan(Append(x, Blank)) = Feed(s, Len(x) + 1, Blank)
    BY <1>1, BlankLine, ScanAppend
  <2> QED BY <2>1 DEF Feed
<1> HIDE DEF x, s
<1>3. Flush(s).current = <<>> /\ Flush(s).blocks = Append(s.blocks, [start |-> s.start, lines |-> s.current])
  BY <1>1 DEF Flush, Splits
<1>4. s.start \in Nat
  BY <1>1 DEF Splits
<1> QED BY <1>1, <1>2, <1>3, <1>4 DEF x, s

\* The block of a cue, as it is written, is read as the cue.
CueLines(c, i) == <<Number(i), Timing(ToSrt(c.start), ToSrt(c.end), FALSE)>> \o c.lines

SavedCue == {c \in FileCue : c.lines \in Seq(Text)}

\* The lines of a cue that is written: its number, its times and its text.
LEMMA CueLinesFacts ==
    ASSUME NEW c \in SavedCue, NEW i \in Nat
    PROVE  LET u == CueLines(c, i) IN
             /\ u \in Seq(Text) /\ u # <<>> /\ Len(u) = 2 + Len(c.lines)
             /\ u[1] = Number(i) /\ u[2] = Timing(ToSrt(c.start), ToSrt(c.end), FALSE)
             /\ SubSeq(u, 3, Len(u)) = c.lines
             /\ Block(c, i) = Append(u, Blank)
<1> DEFINE t == Timing(ToSrt(c.start), ToSrt(c.end), FALSE)
           a == Number(i)
           u == CueLines(c, i)
<1>1. c.lines \in Seq(Text) /\ c \in FileCue
  BY DEF SavedCue
<1>2. ToSrt(c.start) \in Written /\ ToSrt(c.end) \in Written
  BY <1>1, WrittenIsRead DEF FileCue
<1>3. t \in Text /\ a \in Text
  <2>1. t \in FileLine /\ t # Blank
    BY <1>2 DEF FileLine, Timing, Blank
  <2>2. a \in FileLine /\ a # Blank
    BY DEF FileLine, Number, Blank
  <2> QED BY <2>1, <2>2 DEF Text
<1> HIDE DEF t, a
<1>4. u = <<a, t>> \o c.lines
  BY DEF CueLines, t, a
<1>5. <<a, t>> \in Seq(Text) /\ Len(<<a, t>>) = 2
  BY <1>3
<1>6. u \in Seq(Text) /\ Len(u) = 2 + Len(c.lines) /\ u[1] = a /\ u[2] = t
      /\ \A k \in 1..Len(c.lines) : u[k + 2] = c.lines[k]
  BY <1>1, <1>3, <1>4
<1>7. u # <<>>
  <2> HIDE DEF u
  <2> QED BY <1>1, <1>6
<1>8. SubSeq(u, 3, Len(u)) = c.lines
  <2> HIDE DEF u
  <2> DEFINE v == SubSeq(u, 3, Len(u))
             n == Len(c.lines)
  <2>1. n \in Nat /\ Len(u) = 2 + n
    BY <1>1, <1>6
  <2> HIDE DEF n
  <2>2. v \in Seq(Text) /\ Len(v) = n /\ \A k \in 1..n : v[k] = u[k + 2]
    BY <1>6, <2>1
  <2> HIDE DEF v
  <2>3. \A k \in 1..n : v[k] = c.lines[k]
    BY <1>6, <2>2 DEF n
  <2>4. v = c.lines
    BY <1>1, <2>2, <2>3, SeqEqual DEF n
  <2> QED BY <2>4 DEF v
<1>9. Block(c, i) = Append(u, Blank)
  <2>1. Block(c, i) = u \o <<Blank>>
    BY <1>4 DEF Block, t, a
  <2>2. u \in Seq(FileLine)
    BY <1>6, Widened DEF Text
  <2> HIDE DEF u
  <2> QED BY <2>1, <2>2, BlankLine, AppendIsConcat
<1> QED BY <1>6, <1>7, <1>8, <1>9 DEF t, a

\* Read, they give that cue, without an issue.
LEMMA CueIsRead ==
    ASSUME NEW c \in SavedCue, NEW i \in Nat, NEW n \in Nat, NEW t \in Tracks
    PROVE  LET b == [start |-> n, lines |-> CueLines(c, i)]
               u == ParseBlock(t, b) IN
             /\ b \in FileBlock /\ u.issues = t.issues
             /\ \E d \in FileCue : u.cues = Append(t.cues, d) /\ Content(d) = <<i, c.start, c.end, c.lines>>
<1> DEFINE v == CueLines(c, i)
           b == [start |-> n, lines |-> v]
           u == ParseBlock(t, b)
           line == Timing(ToSrt(c.start), ToSrt(c.end), FALSE)
<1>1. /\ v \in Seq(Text) /\ v # <<>> /\ Len(v) = 2 + Len(c.lines) /\ v[1] = Number(i) /\ v[2] = line
      /\ SubSeq(v, 3, Len(v)) = c.lines
  BY CueLinesFacts
<1>2. Len(c.lines) \in Nat
  BY DEF SavedCue
<1>3. v \in Seq(FileLine)
  BY <1>1, Widened DEF Text
<1> HIDE DEF v
<1>4. b \in FileBlock /\ b.lines = v
  BY <1>1, <1>3 DEF FileBlock
<1> HIDE DEF b
<1>5. HasIndex(b) /\ b.lines[1].value = i
  <2>1. v[1].kind = "number" /\ v[1].value = i
    BY <1>1 DEF Number
  <2>2. v[2].kind = "timing"
    BY <1>1 DEF Timing
  <2>3. Len(v) > 1
    BY <1>1, <1>2
  <2> QED BY <1>4, <2>1, <2>2, <2>3 DEF HasIndex, HasArrow
<1>6. Cursor(b) = 2 /\ TimingLine(b) = line
  BY <1>1, <1>4, <1>5 DEF Cursor, TimingLine
<1>7. c.start \in Nat /\ c.end \in Nat
  BY DEF SavedCue, FileCue
<1>8. line.kind = "timing" /\ line.start = ToSrt(c.start) /\ line.end = ToSrt(c.end) /\ line.trailing = FALSE
  BY DEF Timing
<1> HIDE DEF line
<1>9. Usable(b)
  BY <1>6, <1>7, <1>8, WrittenIsRead DEF Usable
<1>10. IndexOf(b, t.next) = i
  BY <1>5 DEF IndexOf
<1>11. Warnings(b) = <<>>
  <2>1. Warnings(b) = <<>> \o <<>>
    BY <1>5, <1>6, <1>8 DEF Warnings
  <2> QED BY <2>1
<1>12. u = [cues |-> Append(t.cues, CueOf(b, i)), issues |-> t.issues \o Warnings(b), next |-> i + 1]
  BY <1>9, <1>10, AddCueIs DEF ParseBlock
<1>13. u.issues = t.issues
  <2>1. t.issues \in Seq(Issue)
    BY DEF Tracks
  <2>2. t.issues \o <<>> = t.issues
    BY <2>1, ConcatEmptySeq
  <2> QED BY <1>11, <1>12, <2>2
<1>14. CueOf(b, i) \in FileCue /\ u.cues = Append(t.cues, CueOf(b, i))
  BY <1>4, <1>9, <1>12, CueType
<1>15. Content(CueOf(b, i)) = <<i, c.start, c.end, c.lines>>
  <2>1. SubSeq(b.lines, Cursor(b) + 1, Len(b.lines)) = c.lines
    BY <1>1, <1>4, <1>6
  <2>2. CueOf(b, i).index = i /\ CueOf(b, i).lines = c.lines
    BY <2>1 DEF CueOf
  <2>3. CueOf(b, i).start = c.start /\ CueOf(b, i).end = c.end
    BY <1>6, <1>7, <1>8, WrittenIsRead DEF CueOf
  <2> QED BY <2>2, <2>3 DEF Content
<1> QED BY <1>4, <1>13, <1>14, <1>15 DEF b, v

-----------------------------------------------------------------------------
(* A saved file, block by block.                                           *)

\* Cues and the indices they are written with; their lines, and what is read of them.
Saved == [cue : SavedCue, index : Nat]

Blocks(saved) == [k \in DOMAIN saved |-> Block(saved[k].cue, saved[k].index)]

SavedLines(saved) == FlattenSeq(Blocks(saved))

SavedContents(saved) ==
    [k \in DOMAIN saved |-> <<saved[k].index, saved[k].cue.start, saved[k].cue.end, saved[k].cue.lines>>]

\* The blocks that are saved are lines.
LEMMA BlocksType == ASSUME NEW saved \in Seq(Saved) PROVE Blocks(saved) \in Seq(Seq(FileLine))
<1>1. DOMAIN saved = 1..Len(saved) /\ Len(saved) \in Nat
  OBVIOUS
<1>2. ASSUME NEW k \in 1..Len(saved) PROVE Block(saved[k].cue, saved[k].index) \in Seq(FileLine)
  <2>1. saved[k] \in Saved
    OBVIOUS
  <2>2. saved[k].cue \in FileCue /\ saved[k].index \in Nat
    BY <2>1 DEF Saved, SavedCue
  <2> QED BY <2>2, BlockType
<1> QED BY <1>1, <1>2 DEF Blocks

\* One more cue is written at the end.
LEMMA SavedAppend ==
    ASSUME NEW saved \in Seq(Saved), NEW e \in Saved
    PROVE  SavedLines(Append(saved, e)) = Append(SavedLines(saved) \o CueLines(e.cue, e.index), Blank)
<1> DEFINE N == Len(saved)
           all == Append(saved, e)
           b == Block(e.cue, e.index)
           u == CueLines(e.cue, e.index)
<1>1. /\ N \in Nat /\ DOMAIN all = 1..(N + 1) /\ DOMAIN saved = 1..N /\ all[N + 1] = e
      /\ all \in Seq(Saved) /\ \A k \in 1..N : all[k] = saved[k]
  BY Extended
<1>2. e.cue \in SavedCue /\ e.cue \in FileCue /\ e.index \in Nat
  BY DEF Saved, SavedCue
<1>3. b \in Seq(FileLine) /\ b = Append(u, Blank) /\ u \in Seq(FileLine)
  <2>1. b \in Seq(FileLine)
    BY <1>2, BlockType
  <2>2. b = Append(u, Blank) /\ u \in Seq(Text)
    BY <1>2, CueLinesFacts
  <2> HIDE DEF u, b
  <2>3. u \in Seq(FileLine)
    BY <2>2, Widened DEF Text
  <2> QED BY <2>1, <2>2, <2>3
<1>4. Blocks(saved) \in Seq(Seq(FileLine)) /\ Blocks(all) \in Seq(Seq(FileLine))
  BY <1>1, BlocksType
<1>5. Blocks(all) = Append(Blocks(saved), b)
  <2> HIDE DEF N, all, b
  <2>1. Len(Blocks(saved)) = N /\ DOMAIN Blocks(all) = 1..(N + 1)
    BY <1>1, <1>4 DEF Blocks
  <2>2. \A k \in 1..N : Blocks(all)[k] = Blocks(saved)[k]
    BY <1>1 DEF Blocks
  <2>3. Blocks(all)[N + 1] = b
    BY <1>1 DEF Blocks, b
  <2> DEFINE w == Append(Blocks(saved), b)
  <2>4. w \in Seq(Seq(FileLine)) /\ Len(w) = N + 1 /\ w[N + 1] = b
        /\ \A k \in 1..N : w[k] = Blocks(saved)[k]
    BY <1>3, <1>4, <2>1, Extended
  <2>5. Len(Blocks(all)) = N + 1
    BY <1>1, <1>4, <2>1
  <2> HIDE DEF w
  <2>6. ASSUME NEW k \in 1..(N + 1) PROVE Blocks(all)[k] = w[k]
    <3>1. N \in Nat
      BY <1>1
    <3>2. k \in 1..N \/ k = N + 1
      BY <3>1
    <3>3. CASE k \in 1..N
      BY <2>2, <2>4, <3>3
    <3>4. CASE k = N + 1
      BY <2>3, <2>4, <3>4
    <3> QED BY <3>2, <3>3, <3>4
  <2>7. Blocks(all) = w
    BY <1>4, <2>4, <2>5, <2>6, SeqEqual
  <2> QED BY <2>7 DEF w
<1>6. SavedLines(all) = SavedLines(saved) \o b
  <2> HIDE DEF b, all
  <2> QED BY <1>3, <1>4, <1>5, FlattenAppend DEF SavedLines
<1>7. SavedLines(saved) \in Seq(FileLine)
  BY <1>4, FlattenType DEF SavedLines
<1>8. SavedLines(saved) \o Append(u, Blank) = Append(SavedLines(saved) \o u, Blank)
  <2> DEFINE f == SavedLines(saved)
  <2> HIDE DEF u, f
  <2>1. f \in Seq(FileLine) /\ u \in Seq(FileLine)
    BY <1>3, <1>7 DEF f
  <2>2. f \o Append(u, Blank) = Append(f \o u, Blank)
    BY <2>1, BlankLine
  <2> QED BY <2>2 DEF f
<1> QED BY <1>3, <1>6, <1>8

\* And is one more in what the file holds.
LEMMA ContentsAppend ==
    ASSUME NEW cues \in Seq(FileCue), NEW saved \in Seq(Saved), NEW d \in FileCue, NEW e \in Saved,
           Contents(cues) = SavedContents(saved),
           Content(d) = <<e.index, e.cue.start, e.cue.end, e.cue.lines>>
    PROVE  Contents(Append(cues, d)) = SavedContents(Append(saved, e))
<1> DEFINE N == Len(cues)
           x == Append(cues, d)
           y == Append(saved, e)
<1>1. DOMAIN cues = DOMAIN saved /\ \A k \in DOMAIN cues : Content(cues[k]) = SavedContents(saved)[k]
  <2>1. DOMAIN Contents(cues) = DOMAIN cues /\ DOMAIN SavedContents(saved) = DOMAIN saved
        /\ \A k \in DOMAIN cues : Contents(cues)[k] = Content(cues[k])
    BY DEF Contents, SavedContents
  <2> QED BY <2>1
<1>2. Len(saved) = N /\ N \in Nat
  BY <1>1
<1>3. /\ DOMAIN x = 1..(N + 1) /\ x[N + 1] = d /\ DOMAIN cues = 1..N /\ \A k \in 1..N : x[k] = cues[k]
  BY Extended
<1>4. /\ DOMAIN y = 1..(N + 1) /\ y[N + 1] = e /\ \A k \in 1..N : y[k] = saved[k]
  BY <1>2, Extended
<1> HIDE DEF N, x, y
<1>5. ASSUME NEW k \in 1..(N + 1)
      PROVE  Content(x[k]) = <<y[k].index, y[k].cue.start, y[k].cue.end, y[k].cue.lines>>
  <2>1. CASE k = N + 1
    BY <1>3, <1>4, <2>1
  <2>2. CASE k # N + 1
    <3>1. k \in 1..N
      BY <1>2, <2>2
    <3>2. Content(cues[k]) = <<saved[k].index, saved[k].cue.start, saved[k].cue.end, saved[k].cue.lines>>
      BY <1>1, <1>3, <3>1 DEF SavedContents
    <3> QED BY <1>3, <1>4, <3>1, <3>2
  <2> QED BY <2>1, <2>2
<1>6. Contents(x) = SavedContents(y)
  BY <1>3, <1>4, <1>5 DEF Contents, SavedContents
<1> QED BY <1>6 DEF x, y

\* What was saved is in the blocks of the file, and read as it was.
Kept(saved) ==
    LET s == Scan(SavedLines(saved))
        t == Read(s.blocks) IN
    /\ SavedLines(saved) \in Seq(FileLine) /\ s.current = <<>>
    /\ t.issues = <<>> /\ Contents(t.cues) = SavedContents(saved)

\* By induction, all cues that are saved are read as they were.
LEMMA SavedIsKept == ASSUME NEW saved \in Seq(Saved) PROVE Kept(saved)
<1> DEFINE T == {x \in Seq(Saved) : Kept(x)}
<1>1. <<>> \in T
  <2>1. Blocks(<<>>) = <<>>
    BY DEF Blocks
  <2>2. SavedLines(<<>>) = <<>>
    BY <2>1, FlattenEmpty DEF SavedLines
  <2>3. Read(<<>>) = NoTrack /\ Scan(<<>>) = NoSplit
    BY ReadEmpty, ScanEmpty
  <2>4. Contents(<<>>) = SavedContents(<<>>)
    BY DEF Contents, SavedContents
  <2>5. <<>> \in Seq(FileLine) /\ <<>> \in Seq(Saved)
    OBVIOUS
  <2>6. NoSplit.blocks = <<>> /\ NoSplit.current = <<>> /\ NoTrack.cues = <<>> /\ NoTrack.issues = <<>>
    BY DEF NoTrack, NoSplit
  <2>7. Kept(<<>>)
    BY <2>2, <2>3, <2>4, <2>5, <2>6 DEF Kept
  <2> QED BY <2>5, <2>7
<1>2. ASSUME NEW x \in T, NEW e \in Saved PROVE Append(x, e) \in T
  <2> DEFINE f == SavedLines(x)
             u == CueLines(e.cue, e.index)
             all == Append(f \o u, Blank)
             old == Read(Scan(f).blocks)
  <2>1. /\ x \in Seq(Saved) /\ f \in Seq(FileLine) /\ Scan(f).current = <<>>
        /\ old.issues = <<>> /\ Contents(old.cues) = SavedContents(x)
    BY DEF Kept
  <2>2. SavedLines(Append(x, e)) = all
    BY <2>1, SavedAppend
  <2>3. e.cue \in SavedCue /\ e.index \in Nat
    BY DEF Saved
  <2>4. u \in Seq(Text) /\ u # <<>>
    BY <2>3, CueLinesFacts
  <2>5. /\ Scan(all).current = <<>>
        /\ \E n \in Nat : Scan(all).blocks = Append(Scan(f).blocks, [start |-> n, lines |-> u])
    <3> HIDE DEF f, u
    <3> QED BY <2>1, <2>4, ScanBlock
  <2>6. PICK n \in Nat : Scan(all).blocks = Append(Scan(f).blocks, [start |-> n, lines |-> u])
    BY <2>5
  <2>7. Scan(f).blocks \in Seq(FileBlock) /\ old \in Tracks
    <3>1. Scan(f) \in Splits
      BY <2>1, ScanType
    <3>2. Scan(f).blocks \in Seq(FileBlock)
      BY <3>1 DEF Splits
    <3> QED BY <3>2, ReadType
  <2> DEFINE b == [start |-> n, lines |-> u]
             new == ParseBlock(old, b)
  <2> HIDE DEF f, old
  <2>8. /\ b \in FileBlock /\ new.issues = old.issues
        /\ \E d \in FileCue : /\ new.cues = Append(old.cues, d)
                              /\ Content(d) = <<e.index, e.cue.start, e.cue.end, e.cue.lines>>
    BY <2>3, <2>7, CueIsRead
  <2> HIDE DEF b, u, all
  <2>9. Read(Scan(all).blocks) = new
    <3>1. Scan(all).blocks = Append(Scan(f).blocks, b)
      BY <2>6 DEF b
    <3> QED BY <2>7, <2>8, <3>1, ReadAppend DEF old
  <2>10. Contents(new.cues) = SavedContents(Append(x, e))
    <3>1. PICK d \in FileCue : /\ new.cues = Append(old.cues, d)
                               /\ Content(d) = <<e.index, e.cue.start, e.cue.end, e.cue.lines>>
      BY <2>8
    <3>2. old.cues \in Seq(FileCue)
      BY <2>7 DEF Tracks
    <3> HIDE DEF new
    <3> QED BY <2>1, <3>1, <3>2, ContentsAppend
  <2>11. all \in Seq(FileLine)
    <3>1. u \in Seq(FileLine)
      BY <2>4, Widened DEF Text
    <3>2. f \o u \in Seq(FileLine)
      BY <2>1, <3>1
    <3> QED BY <3>2, BlankLine DEF all
  <2>12. Append(x, e) \in Seq(Saved)
    BY <2>1
  <2> HIDE DEF new
  <2> QED BY <2>1, <2>2, <2>5, <2>8, <2>9, <2>10, <2>11, <2>12 DEF Kept
<1>3. T = Seq(Saved)
  <2> HIDE DEF T
  <2> QED BY <1>1, <1>2, SeqInduction DEF T
<1> QED BY <1>3

\* The cues of a file hold no blank line.
LEMMA CuesAreSaved ==
    ASSUME NEW lines \in Seq(FileLine), NEW k \in DOMAIN Parse(lines).cues
    PROVE  Parse(lines).cues[k] \in SavedCue
<1> DEFINE bs == SplitBlocks(lines)
           t == Parse(lines)
           c == t.cues[k]
<1>1. IsSplit(bs, lines) /\ RightlyRead(t, bs) /\ t \in Tracks /\ bs \in Seq(FileBlock)
  BY ParsedCues
<1> HIDE DEF bs, t
<1>2. c \in FileCue
  <2>1. t.cues \in Seq(FileCue) /\ k \in DOMAIN t.cues
    BY <1>1 DEF Tracks, t
  <2> QED BY <2>1
<1>3. PICK j \in DOMAIN bs : Usable(bs[j]) /\ \E n : c = CueOf(bs[j], n)
  <2>1. CueStands(t.cues, k, bs)
    BY <1>1 DEF RightlyRead, t
  <2> QED BY <2>1, Zenon DEF CueStands
<1>3a. PICK n : c = CueOf(bs[j], n)
  BY <1>3
<1> DEFINE b == bs[j]
<1>4. b \in FileBlock /\ IsRunOf(b, lines)
  BY <1>1 DEF IsSplit
<1> HIDE DEF b
<1>5. b.start \in Nat /\ b.lines \in Seq(FileLine) /\ Len(b.lines) \in Nat \ {0} /\ Cursor(b) \in 1..Len(b.lines)
  BY <1>4, BlockFacts
<1> DEFINE m == Len(b.lines)
           s == b.start
<1>6. s \in 1..Len(lines) /\ s + m - 1 \in s..Len(lines) /\ b.lines = SubSeq(lines, s, s + m - 1)
      /\ \A i \in s..(s + m - 1) : lines[i] # Blank
  BY <1>4 DEF IsRunOf, EndOf
<1>7. \A i \in 1..m : b.lines[i] \in Text
  <2> SUFFICES ASSUME NEW i \in 1..m PROVE b.lines[i] # Blank
    BY <1>5 DEF Text
  <2>0. s \in Nat /\ m \in Nat
    BY <1>5
  <2> HIDE DEF s, m
  <2>1. s + i - 1 \in s..(s + m - 1)
    BY <2>0
  <2>2. SubSeq(lines, s, s + m - 1)[i] = lines[s + i - 1]
    BY <1>6, <2>0
  <2> QED BY <1>6, <2>1, <2>2
<1>8. b.lines \in Seq(Text)
  BY <1>5, <1>7
<1>9. SubSeq(b.lines, Cursor(b) + 1, m) \in Seq(Text)
  <2> DEFINE v == b.lines
  <2> HIDE DEF v
  <2>1. v \in Seq(Text) /\ Cursor(b) \in 1..Len(v)
    BY <1>5, <1>8 DEF v
  <2>2. SubSeq(v, Cursor(b) + 1, Len(v)) \in Seq(Text)
    BY <2>1
  <2> QED BY <2>2 DEF v
<1>10. c.lines = SubSeq(b.lines, Cursor(b) + 1, m)
  <2>1. c = CueOf(b, n)
    BY <1>3a DEF b
  <2> HIDE DEF c
  <2> QED BY <2>1 DEF CueOf
<1> HIDE DEF c, m
<1>11. c \in SavedCue
  BY <1>2, <1>9, <1>10 DEF SavedCue
<1> QED BY <1>11 DEF c, t

\* A saved file holds the cues that were read, with the indices they are saved with.
LEMMA Lossless ==
    ASSUME NEW lines \in Seq(FileLine), NEW renumber \in BOOLEAN
    PROVE  LET cues == Parse(lines).cues
               t == Parse(Serialize(cues, renumber)) IN
             /\ t.issues = <<>>
             /\ Contents(t.cues) =
                  [k \in DOMAIN cues |-> <<IF renumber THEN k ELSE cues[k].index,
                                           cues[k].start, cues[k].end, cues[k].lines>>]
<1> DEFINE cues == Parse(lines).cues
           n(k) == IF renumber THEN k ELSE cues[k].index
           saved == [k \in DOMAIN cues |-> [cue |-> cues[k], index |-> n(k)]]
           t == Parse(Serialize(cues, renumber))
           want == [k \in DOMAIN cues |-> <<n(k), cues[k].start, cues[k].end, cues[k].lines>>]
<1>1. cues \in Seq(FileCue)
  BY ParseType DEF Tracks
<1>2. \A k \in DOMAIN cues : cues[k] \in SavedCue
  BY CuesAreSaved
<1> HIDE DEF cues
<1>3. \A k \in DOMAIN cues : n(k) \in Nat
  <2>1. \A k \in DOMAIN cues : k \in Nat /\ cues[k] \in FileCue
    BY <1>1
  <2> QED BY <2>1 DEF FileCue
<1> HIDE DEF n
<1>4. saved \in Seq(Saved)
  <2>1. DOMAIN cues = 1..Len(cues) /\ Len(cues) \in Nat
    BY <1>1
  <2>2. \A k \in DOMAIN cues : [cue |-> cues[k], index |-> n(k)] \in Saved
    BY <1>2, <1>3 DEF Saved
  <2> QED BY <2>1, <2>2
<1>5. SavedContents(saved) = want
  BY DEF SavedContents
<1>6. Blocks(saved) = [k \in DOMAIN cues |-> Block(cues[k], n(k))]
  BY DEF Blocks
<1>7. CASE cues = <<>>
  <2>1. Serialize(cues, renumber) = <<Blank>>
    BY <1>7 DEF Serialize
  <2>2. <<Blank>> = Append(<<>>, Blank) /\ <<>> \in Seq(FileLine)
    OBVIOUS
  <2>3. Scan(<<Blank>>) = Flush(NoSplit)
    <3>1. Scan(Append(<<>>, Blank)) = Feed(Scan(<<>>), Len(<<>>) + 1, Blank)
      BY <2>2, BlankLine, ScanAppend
    <3> QED BY <2>2, <3>1, ScanEmpty DEF Feed
  <2>4. Flush(NoSplit) = NoSplit
    BY DEF Flush, NoSplit
  <2>5. SplitBlocks(<<Blank>>) = <<>>
    BY <2>3, <2>4 DEF SplitBlocks, NoSplit
  <2>6. t = NoTrack
    BY <2>1, <2>5, ReadEmpty DEF Parse
  <2>7. Contents(<<>>) = want
    BY <1>7 DEF Contents
  <2> QED BY <2>6, <2>7 DEF NoTrack, n, cues
<1>8. CASE cues # <<>>
  <2>1. Serialize(cues, renumber) = SavedLines(saved)
    BY <1>6, <1>8 DEF Serialize, SavedLines, n
  <2> HIDE DEF saved
  <2>2. Kept(saved)
    BY <1>4, SavedIsKept
  <2>3. SplitBlocks(SavedLines(saved)) = Scan(SavedLines(saved)).blocks
    BY <2>2 DEF Kept, SplitBlocks, Flush
  <2>4. t = Read(Scan(SavedLines(saved)).blocks)
    BY <2>1, <2>3 DEF Parse
  <2> HIDE DEF t, want
  <2>5. t.issues = <<>> /\ Contents(t.cues) = want
    BY <1>5, <2>2, <2>4 DEF Kept
  <2> QED BY <2>5 DEF t, want, n, cues
<1> QED BY <1>7, <1>8

-----------------------------------------------------------------------------
(* Quotients.                                                              *)

\* Products grow with their factors.
LEMMA ProductGrows ==
    ASSUME NEW b \in Nat, NEW x \in Nat, NEW y \in Nat, x <= y
    PROVE  b * x <= b * y /\ b * x \in Nat /\ b * y \in Nat
<1>1. y = x + (y - x) /\ y - x \in Nat
  OBVIOUS
<1>2. b * (x + (y - x)) = b * x + b * (y - x)
  BY SMT
<1>3. b * (y - x) \in Nat /\ b * x \in Nat /\ b * y \in Nat
  BY <1>1, SMT
<1> DEFINE u == b * x
           v == b * (y - x)
           w == b * y
<1>4. w = u + v
  BY <1>1, <1>2
<1>5. u \in Nat /\ v \in Nat
  BY <1>3
<1> HIDE DEF u, v, w
<1>6. u <= w
  BY <1>4, <1>5
<1> QED BY <1>3, <1>6 DEF u, w

\* A quotient is bounded as its dividend is.
LEMMA DivBelow ==
    ASSUME NEW a \in Nat, NEW b \in Nat \ {0}, NEW x \in Nat
    PROVE  /\ a < b * (x + 1) => a \div b <= x
           /\ b * x <= a => x <= a \div b
           /\ a \div b \in Nat
<1>1. PICK q \in Nat, r \in 0..(b - 1) : a = b * q + r /\ a \div b = q
  BY DivPick
<1> DEFINE u == b * q
           v == b * x
           w == b * (x + 1)
<1>2. u \in Nat /\ v \in Nat /\ w \in Nat /\ a = u + r
  BY <1>1, SMT
<1>3. x + 1 <= q => w <= u
  BY ProductGrows
<1>4. q + 1 <= x => u + b <= v
  <2>1. q + 1 <= x => b * (q + 1) <= v
    BY ProductGrows
  <2>2. b * (q + 1) = u + b
    BY Distributes
  <2> QED BY <2>1, <2>2
<1> HIDE DEF u, v, w
<1>5. (a < w => q <= x) /\ (v <= a => x <= q)
  BY <1>2, <1>3, <1>4
<1> QED BY <1>1, <1>5 DEF v, w

\* Quotients grow with their dividend.
LEMMA DivGrows ==
    ASSUME NEW a \in Nat, NEW b \in Nat, a <= b, NEW m \in Nat \ {0}
    PROVE  0 <= a \div m /\ a \div m <= b \div m
<1>1. PICK q \in Nat, r \in 0..(m - 1) : a = m * q + r /\ a \div m = q
  BY DivPick
<1> DEFINE u == m * q
<1>2. u \in Nat
  BY SMT
<1>3. u <= b
  <2>1. a = u + r
    BY <1>1
  <2> HIDE DEF u
  <2> QED BY <1>2, <2>1
<1>4. q <= b \div m
  BY <1>3, DivBelow
<1> QED BY <1>1, <1>4

-----------------------------------------------------------------------------
(* Frames. *)

\* frames_to_ms() rounds up what ms_to_frames() rounds down: at any rate, so many frames
\* fit into a time exactly when their milliseconds do, and going there and back is exact.
LEMMA FramesOfMs ==
    ASSUME NEW ms \in Nat, NEW fps \in [frames : Nat \ {0}, seconds : Nat \ {0}],
           fps.frames <= 1000 * fps.seconds
    PROVE  LET n == MsToFrames(ms, fps) IN
            /\ ms >= FramesToMs(n, fps) /\ ms < FramesToMs(n + 1, fps)
            /\ MsToFrames(FramesToMs(n, fps), fps) = n
<1> DEFINE f == fps.frames
           d == Period(fps)
<1>0. f \in Nat \ {0} /\ d \in Nat \ {0} /\ f <= d /\ f \in Nat /\ d \in Nat
  <2>1. fps.seconds \in Nat \ {0} /\ d = 1000 * fps.seconds /\ f \in Nat \ {0}
    BY DEF Period
  <2> QED BY <2>1, SMT
<1>ToFrames. \A m : MsToFrames(m, fps) = f * (m \div d) + (f * (m % d)) \div d
  BY Zenon DEF MsToFrames
<1>ToMs. \A m : FramesToMs(m, fps) = d * (m \div f) + (d * (m % f) + f - 1) \div f
  BY Zenon DEF FramesToMs
<1> HIDE DEF f, d
<1>1. PICK s \in Nat, r \in 0..(d - 1) : ms = d * s + r /\ ms \div d = s /\ ms % d = r
  BY <1>0, DivPick
<1> DEFINE fr == f * r
           fs == f * s
           ds == d * s
<1>2. r \in Nat /\ r <= d - 1 /\ fr \in Nat /\ fs \in Nat /\ ds \in Nat /\ ms = ds + r
  BY <1>0, <1>1, SMT
<1>3. PICK q \in Nat, e \in 0..(d - 1) : fr = d * q + e /\ fr \div d = q
  <2> HIDE DEF fr
  <2> QED BY <1>0, <1>2, DivPick
<1> DEFINE n == MsToFrames(ms, fps)
           dq == d * q
<1>4. n = fs + q
  BY <1>1, <1>3, <1>ToFrames
<1>q. dq \in Nat /\ fr = dq + e
  BY <1>0, <1>3, SMT
\* The frames of the last period are fewer than f.
<1>5. q < f
  <2>1. fr <= f * (d - 1) /\ d - 1 \in Nat
    BY <1>0, <1>2, ProductGrows
  <2>2. f * (d - 1) < d * f
    <3>1. f * ((d - 1) + 1) = f * (d - 1) + f /\ f * (d - 1) \in Nat
      BY <1>0, <2>1, Distributes
    <3>2. f * ((d - 1) + 1) = d * f
      BY <1>0, SMT
    <3> DEFINE x == f * (d - 1)
               y == d * f
    <3>3. y = x + f /\ x \in Nat
      BY <3>1, <3>2
    <3> HIDE DEF x, y
    <3> QED BY <1>0, <3>3 DEF x, y
  <2>3. f <= q => d * f <= dq
    BY <1>0, ProductGrows
  <2>4. d * f \in Nat /\ f * (d - 1) \in Nat
    BY <1>0, <2>1, SMT
  <2> DEFINE x == f * (d - 1)
             y == d * f
  <2> HIDE DEF fr, dq, x, y
  <2>5. fr <= x /\ x < y /\ (f <= q => y <= dq) /\ y \in Nat /\ x \in Nat
    BY <2>1, <2>2, <2>3, <2>4 DEF x, y
  <2> QED BY <1>0, <1>2, <1>3, <1>q, <2>5
<1> DEFINE c == (dq + f - 1) \div f
           fc == f * c
<1>6. FramesToMs(n, fps) = ds + c
  <2>1. q \in 0..(f - 1)
    BY <1>0, <1>5
  <2>2. (fs + q) \div f = s /\ (fs + q) % f = q
    BY <1>0, <2>1, DivUnique
  <2>3. n \div f = s /\ n % f = q
    <3> HIDE DEF n, fs
    <3> QED BY <1>4, <2>2
  <2> HIDE DEF n
  <2> QED BY <2>3, <1>ToMs
\* c is the ceiling of d q / f.
<1>a. dq + f - 1 \in Nat
  <2> HIDE DEF dq
  <2> QED BY <1>0, <1>q
<1>7. PICK x \in 0..(f - 1) : c \in Nat /\ dq + f - 1 = fc + x
  <2> DEFINE a == dq + f - 1
  <2> HIDE DEF a
  <2>1. PICK k \in Nat, x \in 0..(f - 1) : a = f * k + x /\ a \div f = k
    BY <1>0, <1>a, DivPick DEF a
  <2> QED BY <2>1 DEF a
<1>8. fc \in Nat
  <2> HIDE DEF c
  <2> QED BY <1>0, <1>7, SMT
<1>9. dq <= fc /\ fc <= dq + f - 1
  <2> HIDE DEF c, fc, dq
  <2> QED BY <1>0, <1>7, <1>8, <1>q
<1>10. c <= r
  <2>1. dq + f - 1 < f * (r + 1)
    <3>1. f * (r + 1) = fr + f
      BY <1>0, <1>2, Distributes
    <3> HIDE DEF fr, dq
    <3> QED BY <1>0, <1>2, <1>3, <1>q, <3>1
  <2> HIDE DEF dq
  <2> QED BY <1>0, <1>2, <1>a, <2>1, DivBelow
<1> HIDE DEF c
<1>11. ms >= FramesToMs(n, fps)
  <2> HIDE DEF n, ds
  <2> QED BY <1>2, <1>6, <1>7, <1>10
<1>12. MsToFrames(FramesToMs(n, fps), fps) = n
  <2>1. c \in 0..(d - 1)
    BY <1>0, <1>2, <1>7, <1>10
  <2>2. (d * s + c) \div d = s /\ (d * s + c) % d = c
    BY <1>0, <2>1, DivUnique
  <2>3. fc \div d = q
    <3>1. fc < d * (q + 1)
      <4>1. d * (q + 1) = dq + d
        BY <1>0, Distributes
      <4> HIDE DEF fc, dq
      <4> QED BY <1>0, <1>8, <1>9, <1>q, <4>1
    <3> HIDE DEF fc
    <3>2. fc \div d <= q /\ q <= fc \div d /\ fc \div d \in Nat
      BY <1>0, <1>8, <1>9, <3>1, DivBelow
    <3> QED BY <3>2
  <2> DEFINE m == FramesToMs(n, fps)
  <2>4. m \div d = s /\ m % d = c
    BY <1>6, <2>2
  <2> HIDE DEF m, n
  <2>5. MsToFrames(m, fps) = fs + fc \div d
    BY <2>4, <1>ToFrames
  <2> HIDE DEF fs, fc
  <2> QED BY <1>4, <2>3, <2>5 DEF m
<1>13. ms < FramesToMs(n + 1, fps)
  <2>1. CASE q + 1 < f
    <3> DEFINE b == d * (q + 1) + f - 1
               g == b \div f
    <3>0. d * (q + 1) = dq + d /\ d * (q + 1) \in Nat
      <4>1. d * (q + 1) = dq + d
        BY <1>0, Distributes
      <4> HIDE DEF dq
      <4> QED BY <1>0, <1>q, <4>1
    <3>1. FramesToMs(n + 1, fps) = ds + g
      <4>1. q + 1 \in 0..(f - 1)
        BY <1>0, <2>1
      <4>2. (fs + (q + 1)) \div f = s /\ (fs + (q + 1)) % f = q + 1
        BY <1>0, <4>1, DivUnique
      <4>3. n + 1 = fs + (q + 1)
        <5> HIDE DEF n, fs
        <5> QED BY <1>2, <1>4
      <4> HIDE DEF n, fs
      <4>4. (n + 1) \div f = s /\ (n + 1) % f = q + 1
        BY <4>2, <4>3
      <4> QED BY <4>4, <1>ToMs
    <3>2. b \in Nat
      <4> DEFINE y == d * (q + 1)
      <4> HIDE DEF y
      <4>1. y \in Nat
        BY <3>0 DEF y
      <4>2. y + f - 1 \in Nat
        BY <1>0, <4>1
      <4> QED BY <4>2 DEF y
    <3>3. r + 1 <= g
      <4>1. f * (r + 1) <= b
        <5>1. f * (r + 1) = fr + f
          BY <1>0, <1>2, Distributes
        <5> DEFINE y == d * (q + 1)
                   z == f * (r + 1)
        <5>2. y = dq + d /\ z = fr + f
          BY <3>0, <5>1
        <5> HIDE DEF fr, dq, y, z
        <5>3. z <= y + f - 1
          BY <1>0, <1>2, <1>3, <1>q, <5>2
        <5> QED BY <5>3 DEF y, z
      <4> HIDE DEF b
      <4> QED BY <1>0, <1>2, <3>2, <4>1, DivBelow
    <3>4. g \in Nat
      <4> HIDE DEF b
      <4> QED BY <1>0, <3>2, DivBelow
    <3> HIDE DEF g, n, ds
    <3> QED BY <1>2, <3>1, <3>3, <3>4
  <2>2. CASE ~(q + 1 < f)
    <3>1. q + 1 = f
      BY <1>0, <1>5, <2>2
    <3>2. n + 1 = f * (s + 1) + 0
      <4>1. f * (s + 1) = fs + f
        BY <1>0, Distributes
      <4> HIDE DEF n, fs
      <4> QED BY <1>2, <1>4, <3>1, <4>1
    <3>3. (f * (s + 1) + 0) \div f = s + 1 /\ (f * (s + 1) + 0) % f = 0
      <4>1. 0 \in 0..(f - 1) /\ s + 1 \in Nat
        BY <1>0
      <4> QED BY <1>0, <4>1, DivUnique
    <3>4. (n + 1) \div f = s + 1 /\ (n + 1) % f = 0
      <4> HIDE DEF n
      <4> QED BY <3>2, <3>3
    <3> HIDE DEF n
    <3> DEFINE g == (d * 0 + f - 1) \div f
    <3>5. FramesToMs(n + 1, fps) = d * (s + 1) + g
      BY <3>4, <1>ToMs
    <3>6. g \in Nat
      <4>1. d * 0 + f - 1 \in Nat
        <5>1. d * 0 = 0
          BY <1>0, SMT
        <5> DEFINE y == d * 0
        <5>2. y = 0
          BY <5>1
        <5> HIDE DEF y
        <5>3. y + f - 1 \in Nat
          BY <1>0, <5>2
        <5> QED BY <5>3 DEF y
      <4> DEFINE b == d * 0 + f - 1
      <4> HIDE DEF b
      <4>2. b \div f \in Nat
        BY <1>0, <4>1, DivBelow DEF b
      <4> QED BY <4>2 DEF b
    <3>7. d * (s + 1) = ds + d
      BY <1>0, Distributes
    <3> HIDE DEF g, ds
    <3> QED BY <1>0, <1>2, <3>5, <3>6, <3>7
  <2> QED BY <2>1, <2>2
<1> QED BY <1>11, <1>12, <1>13

-----------------------------------------------------------------------------
(* The measures of a file.                                                 *)

\* The cues of the track are cues.
LEMMA CuesType == ASSUME Reached PROVE Cues \in Seq(FileCue) /\ doc \in Seq(FileLine)
BY ParseType DEF Reached, Cues, Tracks

\* A duration, which may be negative.
LEMMA DurationType ==
    ASSUME NEW c \in FileCue
    PROVE  Duration(c) \in Int /\ (HasValidTiming(c) <=> Duration(c) > 0)
BY DEF FileCue, Duration, HasValidTiming

\* FramesAgree, of any file.
LEMMA FramesRight == Reached => FramesAgree
<1> SUFFICES ASSUME Reached, NEW k \in DOMAIN Cues,
                    NEW ms \in {Duration(Cues[k]) - 1, Duration(Cues[k])}, NEW fps \in Fps, ms >= 0
             PROVE  LET n == MsToFrames(ms, fps) IN
                      /\ ms >= FramesToMs(n, fps) /\ ms < FramesToMs(n + 1, fps)
                      /\ MsToFrames(FramesToMs(n, fps), fps) = n
  BY DEF FramesAgree
<1>1. Cues[k] \in FileCue
  BY CuesType
<1>2. Duration(Cues[k]) \in Int
  BY <1>1, DurationType
<1>3. ms \in Nat
  BY <1>2
<1>4. fps \in [frames : Nat \ {0}, seconds : Nat \ {0}] /\ fps.frames <= 1000 * fps.seconds
  BY SubRipAssumption DEF SubRipAssumption
<1> QED BY <1>3, <1>4, FramesOfMs, ZenonT(60)

\* AksharasAreWhole, of any file.
LEMMA AksharasRight == Reached => AksharasAreWhole
<1> SUFFICES ASSUME Reached, NEW l \in Range(doc), l.kind = "words"
             PROVE  LET a == Aksharas(l.clusters) IN
            /\ FlattenSeq(a) = l.clusters
            /\ \A k \in DOMAIN a :
                \A i \in DOMAIN a[k] : ~Joins(a[k][i]) <=> i = Len(a[k]) /\
                    ~(k = Len(a) /\ Joins(Last(l.clusters)))
  BY DEF AksharasAreWhole
<1>1. l \in FileLine
  BY CuesType DEF Range
<1>2. l.clusters \in Seq(Cluster)
  BY <1>1, LineFacts
<1> QED BY <1>2, AksharasWhole

\* reading_speed() grows with the units that are counted.
LEMMA SpeedGrows ==
    ASSUME NEW a \in Nat, NEW b \in Nat, a <= b, NEW ms \in Int
    PROVE  0 <= ReadingSpeed(a, ms) /\ ReadingSpeed(a, ms) <= ReadingSpeed(b, ms)
<1>1. CASE ms <= 0
  BY <1>1 DEF ReadingSpeed
<1>2. CASE ~(ms <= 0)
  <2>1. ms \in Nat \ {0}
    BY <1>2
  <2>2. 1000000 * a \in Nat /\ 1000000 * b \in Nat /\ 1000000 * a <= 1000000 * b
    BY SMT
  <2>3. 0 <= (1000000 * a) \div ms /\ (1000000 * a) \div ms <= (1000000 * b) \div ms
    BY <2>1, <2>2, DivGrows, SMT
  <2> QED BY <1>2, <2>3, SMT DEF ReadingSpeed
<1> QED BY <1>1, <1>2

\* There are at most as many aksharas as graphemes, and as graphemes code points.
LEMMA UnitsGrow ==
    ASSUME NEW clusters \in Seq(Cluster)
    PROVE  /\ Count(clusters, "akshara") \in Nat /\ Count(clusters, "grapheme") \in Nat
           /\ Count(clusters, "codepoint") \in Nat
           /\ Count(clusters, "akshara") <= Count(clusters, "grapheme")
           /\ Count(clusters, "grapheme") <= Count(clusters, "codepoint")
<1>1. Len(clusters) \in Nat
  OBVIOUS
<1>2. Len(FlattenSeq(clusters)) \in Nat /\ Len(clusters) <= Len(FlattenSeq(clusters))
  BY FlattenGrows DEF Cluster
<1>3. Count(clusters, "codepoint") = Len(FlattenSeq(clusters))
  BY DEF Count, CodePoints
<1>4. Count(clusters, "grapheme") = Len(clusters) /\ Count(clusters, "akshara") = Len(Aksharas(clusters))
  BY DEF Count
<1>5. Len(Aksharas(clusters)) \in Nat /\ Len(Aksharas(clusters)) <= Len(clusters)
  BY AksharasWhole
<1> QED BY <1>1, <1>2, <1>3, <1>4, <1>5

\* UnitsAreOrdered, of any file.
LEMMA UnitsRight == Reached => UnitsAreOrdered
<1> SUFFICES ASSUME Reached, NEW k \in DOMAIN Cues, NEW l \in Range(Cues[k].lines), l.kind = "words"
             PROVE  LET speed(unit) == ReadingSpeed(Count(l.clusters, unit), Duration(Cues[k])) IN
                      /\ 0 <= speed("akshara") /\ speed("akshara") <= speed("grapheme")
                      /\ speed("grapheme") <= speed("codepoint")
                      /\ speed("akshara") > 0 => HasValidTiming(Cues[k])
  BY DEF UnitsAreOrdered
<1> DEFINE c == Cues[k]
           ms == Duration(c)
<1>1. c \in FileCue
  BY CuesType
<1> HIDE DEF c
<1>2. l \in FileLine
  BY <1>1 DEF Range, FileCue, c
<1>3. l.clusters \in Seq(Cluster)
  BY <1>2, LineFacts
<1>4. ms \in Int /\ (HasValidTiming(c) <=> ms > 0)
  BY <1>1, DurationType
<1> HIDE DEF ms
<1> DEFINE a == Count(l.clusters, "akshara")
           g == Count(l.clusters, "grapheme")
           p == Count(l.clusters, "codepoint")
<1>5. a \in Nat /\ g \in Nat /\ p \in Nat /\ a <= g /\ g <= p
  BY <1>3, UnitsGrow
<1> HIDE DEF a, g, p
<1>6. 0 <= ReadingSpeed(a, ms) /\ ReadingSpeed(a, ms) <= ReadingSpeed(g, ms)
      /\ ReadingSpeed(g, ms) <= ReadingSpeed(p, ms)
  BY <1>4, <1>5, SpeedGrows
<1>7. ReadingSpeed(a, ms) > 0 => ms > 0
  <2>1. ms <= 0 => ReadingSpeed(a, ms) = 0
    BY DEF ReadingSpeed
  <2> QED BY <1>4, <2>1
<1> QED BY <1>4, <1>6, <1>7 DEF a, g, p, ms, c

-----------------------------------------------------------------------------
(* The cues of an ordered track. *)

\* Neighbours in order are all in order (Track.is_ordered()).
LEMMA StartsInOrder ==
    ASSUME NEW cues \in Seq(FileCue), IsOrdered(cues), NEW j \in 1..Len(cues), NEW i \in 1..j
    PROVE  cues[i].start <= cues[j].start
<1> DEFINE N == Len(cues)
           Good == {n \in Nat : n <= N => \A m \in 1..n : cues[m].start <= cues[n].start}
<1>0. N \in Nat /\ \A k \in 1..N : cues[k].start \in Nat
  <2>1. \A k \in 1..N : cues[k] \in FileCue
    OBVIOUS
  <2>2. N \in Nat
    OBVIOUS
  <2> HIDE DEF N
  <2> QED BY <2>1, <2>2 DEF FileCue
<1>1. 0 \in Good
  OBVIOUS
<1>2. ASSUME NEW n \in Good PROVE n + 1 \in Good
  <2>1. ASSUME n + 1 <= N, NEW m \in 1..(n + 1) PROVE cues[m].start <= cues[n + 1].start
    <3>1. n \in Nat /\ n <= N /\ n + 1 \in 1..N
      BY <1>0, <2>1
    <3>2. CASE m = n + 1
      BY <1>0, <3>1, <3>2
    <3>3. CASE m # n + 1
      <4>1. m \in 1..n /\ n \in 1..(N - 1) /\ n \in 1..N /\ m \in 1..N
        BY <1>0, <2>1, <3>1, <3>3
      <4>2. cues[m].start <= cues[n].start
        BY <3>1, <4>1
      <4>3. cues[n].start <= cues[n + 1].start
        BY <4>1 DEF IsOrdered
      <4> HIDE DEF Good
      <4> QED BY <1>0, <3>1, <4>1, <4>2, <4>3
    <3> QED BY <3>2, <3>3
  <2>2. n + 1 \in Nat
    OBVIOUS
  <2> QED BY <2>1, <2>2
<1>3. Good = Nat
  <2> HIDE DEF Good
  <2> QED BY <1>1, <1>2, NaturalInduction DEF Good
<1>4. j \in Nat /\ j <= N
  BY <1>0
<1> QED BY <1>3, <1>4

\* GapsShowOverlaps, of any file: gaps of neighbours show the overlaps of any two.
LEMMA GapsRight == Reached => GapsShowOverlaps
<1> SUFFICES ASSUME Reached, IsOrdered(Cues), \A k \in DOMAIN Cues : HasValidTiming(Cues[k])
             PROVE  (\A k \in 1..(Len(Cues) - 1) : GapTo(Cues[k], Cues[k + 1]) >= 0)
                      <=> (\A i, j \in DOMAIN Cues : i # j => ~Overlaps(Cues[i], Cues[j]))
  BY DEF GapsShowOverlaps
<1> DEFINE N == Len(Cues)
<1>1. Cues \in Seq(FileCue) /\ N \in Nat /\ DOMAIN Cues = 1..N
  BY CuesType
<1>2. \A k \in 1..N : Cues[k].start \in Nat /\ Cues[k].end \in Nat /\ Cues[k].end > Cues[k].start
  <2>1. \A k \in 1..N : Cues[k] \in FileCue
    BY <1>1
  <2> QED BY <1>1, <2>1 DEF FileCue, HasValidTiming
<1>3. \A j \in 1..N : \A i \in 1..j : Cues[i].start <= Cues[j].start
  BY <1>1, StartsInOrder
<1> HIDE DEF N
<1>4. ASSUME \A k \in 1..(N - 1) : GapTo(Cues[k], Cues[k + 1]) >= 0,
             NEW i \in 1..N, NEW j \in 1..N, i < j
      PROVE  Cues[i].end <= Cues[j].start
  <2>1. i \in 1..(N - 1) /\ i + 1 \in 1..N /\ i + 1 \in 1..j
    BY <1>1, <1>4
  <2>2. GapTo(Cues[i], Cues[i + 1]) >= 0
    BY <1>4, <2>1
  <2>3. Cues[i].end <= Cues[i + 1].start
    BY <1>2, <2>1, <2>2 DEF GapTo
  <2>4. Cues[i + 1].start <= Cues[j].start
    BY <1>3, <2>1
  <2> QED BY <1>2, <2>1, <2>3, <2>4
<1>5. ASSUME \A k \in 1..(N - 1) : GapTo(Cues[k], Cues[k + 1]) >= 0,
             NEW i \in 1..N, NEW j \in 1..N, i # j
      PROVE  ~Overlaps(Cues[i], Cues[j])
  <2>1. CASE i < j
    <3>1. Cues[i].end <= Cues[j].start
      BY <1>4, <1>5, <2>1
    <3> QED BY <1>2, <3>1 DEF Overlaps
  <2>2. CASE j < i
    <3>1. Cues[j].end <= Cues[i].start
      BY <1>4, <1>5, <2>2
    <3> QED BY <1>2, <3>1 DEF Overlaps
  <2> QED BY <1>5, <2>1, <2>2
<1>6. ASSUME \A i, j \in 1..N : i # j => ~Overlaps(Cues[i], Cues[j]), NEW k \in 1..(N - 1)
      PROVE  GapTo(Cues[k], Cues[k + 1]) >= 0
  <2>1. k \in 1..N /\ k + 1 \in 1..N /\ k \in 1..(k + 1) /\ k # k + 1
    BY <1>1
  <2>2. ~Overlaps(Cues[k], Cues[k + 1])
    BY <1>6, <2>1
  <2>3. Cues[k].start <= Cues[k + 1].start
    BY <1>3, <2>1
  <2> QED BY <1>2, <2>1, <2>2, <2>3 DEF Overlaps, GapTo
<1> QED BY <1>1, <1>5, <1>6 DEF N

-----------------------------------------------------------------------------

\* The first line.
LEMMA Typing == FileInit => Reached
<1> SUFFICES ASSUME NEW l \in Line, doc = <<l>>, parsed = Parse(<<l>>) PROVE Reached
  BY DEF FileInit
<1>1. l \in FileLine
  BY SubRipAssumption DEF SubRipAssumption
<1> QED BY <1>1 DEF Reached

\* A line typed, or a file saved.
LEMMA Editing == Reached /\ [FileNext]_file => Reached'
<1> SUFFICES ASSUME Reached, [FileNext]_file PROVE Reached'
  OBVIOUS
<1>1. ASSUME NEW l \in Line, TypeLine(l) PROVE Reached'
  <2>1. l \in FileLine /\ doc \in Seq(FileLine)
    BY SubRipAssumption DEF SubRipAssumption, Reached
  <2>2. Append(doc, l) \in Seq(FileLine)
    BY <2>1
  <2> QED BY <1>1, <2>2 DEF TypeLine, Reached
<1>2. ASSUME NEW renumber \in BOOLEAN, Save(renumber) PROVE Reached'
  <2>1. parsed.cues \in Seq(FileCue)
    BY CuesType DEF Cues
  <2> QED BY <1>2, <2>1, SerializeType DEF Save, Reached
<1>3. CASE UNCHANGED file
  BY <1>3 DEF file, Reached
<1> QED BY <1>1, <1>2, <1>3 DEF FileNext

\* Whatever is typed and saved, the file is lines, and the track is what parse() makes
\* of it.
THEOREM ParsedIsCurrent == FileSpec => []Reached
BY Typing, Editing, PTL DEF FileSpec

\* parse(), of every file that can be typed or saved: no block is dropped without an
\* error of its own, each cue has all of its text, its lines and its number.
THEOREM ParsingIsFaithful == FileSpec => []ParseIsFaithful
BY ParsedIsCurrent, FaithfulParse, PTL

\* The measures of every such file: gaps show overlaps, frames agree with milliseconds,
\* aksharas are whole, and the units are ordered.
THEOREM MeasuresHold == FileSpec => []MeasuresAgree
<1>1. Reached => MeasuresAgree
  BY GapsRight, FramesRight, AksharasRight, UnitsRight DEF MeasuresAgree
<1> QED BY <1>1, ParsedIsCurrent, PTL

\* SavingIsLossless, of one step.
SavedAlike ==
    /\ Save(FALSE) => Contents(parsed'.cues) = Contents(Cues) /\ parsed'.issues = <<>>
    /\ Save(TRUE) =>
         /\ Contents(parsed'.cues) = Contents([k \in DOMAIN Cues |-> [Cues[k] EXCEPT !.index = k]])
         /\ parsed'.issues = <<>>

\* parse(serialize(parse(s))) has the cues of parse(s) and no issue; renumbering changes
\* indices only.  For every file, not only those typed in a run.
THEOREM SavingLosesNothing == FileSpec => SavingIsLossless
<1>1. Reached /\ [FileNext]_file => [SavedAlike]_file
  <2> SUFFICES ASSUME Reached PROVE SavedAlike
    OBVIOUS
  <2>0. doc \in Seq(FileLine) /\ Cues = Parse(doc).cues /\ Cues \in Seq(FileCue)
    BY CuesType DEF Reached, Cues
  <2>1. ASSUME Save(FALSE) PROVE Contents(parsed'.cues) = Contents(Cues) /\ parsed'.issues = <<>>
    <3>1. parsed' = Parse(Serialize(Parse(doc).cues, FALSE))
      BY <2>0, <2>1 DEF Save, Cues
    <3>2. parsed'.issues = <<>> /\ Contents(parsed'.cues) =
            [k \in DOMAIN Cues |-> <<Cues[k].index, Cues[k].start, Cues[k].end, Cues[k].lines>>]
      BY <2>0, <3>1, Lossless
    <3>3. Contents(Cues) = [k \in DOMAIN Cues |-> <<Cues[k].index, Cues[k].start, Cues[k].end, Cues[k].lines>>]
      BY DEF Contents, Content
    <3> QED BY <3>2, <3>3
  <2>2. ASSUME Save(TRUE)
        PROVE  /\ Contents(parsed'.cues) = Contents([k \in DOMAIN Cues |-> [Cues[k] EXCEPT !.index = k]])
               /\ parsed'.issues = <<>>
    <3>1. parsed' = Parse(Serialize(Parse(doc).cues, TRUE))
      BY <2>0, <2>2 DEF Save, Cues
    <3>2. parsed'.issues = <<>> /\ Contents(parsed'.cues) =
            [k \in DOMAIN Cues |-> <<k, Cues[k].start, Cues[k].end, Cues[k].lines>>]
      BY <2>0, <3>1, Lossless
    <3> DEFINE other == [k \in DOMAIN Cues |-> [Cues[k] EXCEPT !.index = k]]
    <3>3. ASSUME NEW k \in DOMAIN Cues
          PROVE  Content(other[k]) = <<k, Cues[k].start, Cues[k].end, Cues[k].lines>>
      <4>1. Cues[k] \in FileCue
        BY <2>0
      <4> QED BY <4>1 DEF Content, FileCue
    <3>4. Contents(other) = [k \in DOMAIN Cues |-> <<k, Cues[k].start, Cues[k].end, Cues[k].lines>>]
      BY <3>3 DEF Contents
    <3> QED BY <3>2, <3>4
  <2> QED BY <2>1, <2>2 DEF SavedAlike
<1> QED BY <1>1, ParsedIsCurrent, PTL DEF FileSpec, SavingIsLossless, SavedAlike

\* ClosedCuesStay, of one step.
ClosedAlike ==
    (\E l \in Line : TypeLine(l)) =>
        \A k \in DOMAIN Cues : Cues[k].last < Len(doc) =>
            k \in DOMAIN parsed'.cues /\ parsed'.cues[k] = Cues[k]

\* A line typed at the end leaves every cue that ended before as it was.
THEOREM TypingKeepsClosed == FileSpec => ClosedCuesStay
<1>1. Reached /\ [FileNext]_file => [ClosedAlike]_file
  <2> SUFFICES ASSUME Reached, NEW l \in Line, TypeLine(l)
               PROVE \A k \in DOMAIN Cues : Cues[k].last < Len(doc) =>
                        k \in DOMAIN parsed'.cues /\ parsed'.cues[k] = Cues[k]
    BY DEF ClosedAlike
  <2>1. l \in FileLine /\ doc \in Seq(FileLine) /\ Cues = Parse(doc).cues
    BY SubRipAssumption DEF SubRipAssumption, Reached, Cues
  <2>2. parsed' = Parse(Append(doc, l))
    BY DEF TypeLine
  <2> QED BY <2>1, <2>2, ClosedStay
<1> QED BY <1>1, ParsedIsCurrent, PTL DEF FileSpec, ClosedCuesStay, ClosedAlike
=============================================================================
