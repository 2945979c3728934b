---------------------------- MODULE LocalSandbox ----------------------------
(***************************************************************************)
(* sandbox/providers/local_provider.py: a sandbox that is a child process  *)
(* of the backend, its pipe, the thread that drains the pipe, and the      *)
(* calls of its owner, which RuntimeManager and the validation runner make *)
(* one at a time.  Beside them run the process with what it forks, and     *)
(* threads that only ask for its status, which reaps it.                   *)
(*                                                                         *)
(* Output is counted in chunks.  A process id is not given to another      *)
(* process between two lines of kill().                                    *)
(***************************************************************************)
EXTENDS Naturals

CONSTANTS
    Purposes,    \* what the sandbox is for: a command to wait for, or a server
    Output,      \* what the command writes
    OutputBytes, \* the output_bytes of its ResourceLimits
    PipeSize,    \* what the pipe holds
    None

ASSUME LocalSandboxAssumption ==
    /\ Purposes \subseteq {"run", "serve"}
    /\ Output \in Nat /\ OutputBytes \in Nat /\ PipeSize \in Nat \ {0}
    /\ None \notin {"join", "destroy", "forget", "running", "zero", "stopped", "failed", "killed"}

VARIABLES
    purpose,
    pc, then, \* where the owner is, and where it goes on after kill()
    handle,   \* what _pending and _handles have of the sandbox
    leader,   \* the process: alive, killed but not dead yet, or how it ended
    reaped,   \* whether its returncode was collected
    child,    \* a process it forked, in its process group or out of it
    left,     \* what the command has still to write
    pipe,     \* what is in the pipe
    reader,   \* the thread of _drain_output()
    read,     \* log_bytes
    kept,     \* the length of log_data
    late,     \* whether wait() went on before the reader's end
    result    \* the SandboxResult of wait()

process == <<leader, child, left>>
stream == <<pipe, reader, read, kept>>
outcome == <<late, result>>
vars == <<purpose, pc, then, handle, process, reaped, stream, outcome>>

Init ==
    /\ purpose \in Purposes
    /\ pc = "create" /\ then = None /\ handle = None
    /\ leader = "none" /\ reaped = FALSE /\ child = "none" /\ left = Output
    /\ pipe = 0 /\ reader = "none" /\ read = 0 /\ kept = 0
    /\ late = FALSE /\ result = None
-----------------------------------------------------------------------------
(* The process and its pipe. *)

Known == handle \notin {None, "pending"}
Ended == leader \in {"zero", "failed", "killed"}
Outside == UNCHANGED <<purpose, pc, then, handle, outcome>>

Writes ==
    /\ leader = "running" /\ left > 0 /\ pipe < PipeSize
    /\ left' = left - 1 /\ pipe' = pipe + 1
    /\ Outside /\ UNCHANGED <<leader, reaped, child, reader, read, kept>>

\* The end of its program; a crash; a SIGKILL.
Exits == leader = "running" /\ left = 0 /\ leader' = "zero"
Fails == leader = "running" /\ leader' = "failed"
Dies == leader = "dying" /\ leader' = "killed"
Ends(how) == how /\ Outside /\ UNCHANGED <<reaped, child, left, stream>>

\* A forked process has the pipe open too.
Forks ==
    /\ \/ leader = "running" /\ child = "none" /\ child' \in {"group", "detached"}
       \/ child # "none" /\ child' = "none"
    /\ Outside /\ UNCHANGED <<leader, left, reaped, stream>>

\* _drain_output(): what is over the limit is read and counted, not kept.
Draining_UpToLimit(n) == reader = "reading" /\ n <= OutputBytes - kept
Draining(n) == reader = "reading"
Reads == \E n \in 1..pipe :
    /\ Draining(n)
    /\ pipe' = pipe - n /\ read' = read + n
    /\ kept' = IF kept + n < OutputBytes THEN kept + n ELSE OutputBytes
    /\ Outside /\ UNCHANGED <<process, reaped, reader>>
ReaderEnds ==
    /\ reader = "reading" /\ pipe = 0 /\ Ended /\ child = "none"
    /\ reader' = "done"
    /\ Outside /\ UNCHANGED <<process, reaped, pipe, read, kept>>

\* status() of another thread polls the process.
Polled == reaped' = (reaped \/ (Known /\ Ended))
Status == purpose = "serve" /\ Known /\ ~reaped /\ Polled /\ Outside /\ UNCHANGED <<process, stream>>
-----------------------------------------------------------------------------
(* create(), start(), and kill(), which every other call may come to. *)

Goto(label) == pc' = label /\ UNCHANGED then
EnterKill(next) == pc' = "kill" /\ then' = next
Call == UNCHANGED <<purpose, process, stream>>

\* Refused for its mounts, or waiting in _pending.
Create ==
    /\ pc = "create"
    /\ \/ handle' = "pending" /\ Goto("start")
       \/ handle' = handle /\ Goto("over")
    /\ Call /\ UNCHANGED <<reaped, outcome>>

\* The command is started with its reader, or no thread can be started, or no
\* process can: whoever called start() destroys the sandbox then.
Start ==
    /\ pc = "start"
    /\ \/ /\ leader' = "running" /\ handle' = "running" /\ reader' = "reading"
          /\ Goto(IF purpose = "run" THEN "wait" ELSE "use")
       \/ leader' = "running" /\ handle' = "running" /\ UNCHANGED reader /\ Goto("destroy")
       \/ handle' = None /\ UNCHANGED <<leader, reader>> /\ Goto("destroy")
    /\ UNCHANGED <<purpose, child, left, reaped, pipe, read, kept, outcome>>

\* A sandbox that is not known, or whose process has ended, is left alone.
Kill ==
    /\ pc = "kill"
    /\ Goto(IF Known /\ ~Ended THEN "signal" ELSE then)
    /\ Polled
    /\ Call /\ UNCHANGED <<handle, outcome>>

\* killpg() reaches the group as long as its leader has not been reaped.
Killpg ==
    /\ pc = "signal"
    /\ leader' = IF leader = "running" THEN "dying" ELSE leader
    /\ child' = IF child = "group" /\ ~reaped THEN "none" ELSE child
    /\ Goto("reap")
    /\ UNCHANGED <<purpose, left, reaped, stream, handle, outcome>>

\* process.wait(timeout=5), which may end before the process has.
KillEnds ==
    /\ pc = "reap"
    /\ Polled
    /\ handle' = "killed"
    /\ Goto(then)
    /\ Call /\ UNCHANGED outcome
-----------------------------------------------------------------------------
(* wait(), stop() and destroy(). *)

\* process.wait() of wait() and of stop().
Waits(label, next) ==
    /\ pc = label /\ Ended
    /\ Polled
    /\ Goto(next)
    /\ Call /\ UNCHANGED <<handle, outcome>>

\* Its deadline; the process may end before kill() looks at it.
TimesOut(label, next) ==
    /\ pc = label /\ ~Ended
    /\ EnterKill(next)
    /\ Call /\ UNCHANGED <<handle, reaped, outcome>>

\* reader.join(timeout=1), and the result from what is there.
Harvest ==
    /\ pc = "join"
    /\ late' = (reader # "done")
    /\ LET timedOut == then = "join" IN
        /\ result' = [timed_out |-> timedOut, exit_code |-> IF timedOut THEN None ELSE leader,
                      stdout |-> kept, truncated |-> read > kept]
        /\ handle' = IF timedOut THEN "killed" ELSE IF leader = "zero" THEN "stopped" ELSE "failed"
    /\ Goto("destroy")
    /\ Call /\ UNCHANGED reaped

\* A server is stopped, killed or destroyed; the first two are followed by
\* destroy().
Serve ==
    /\ pc = "use"
    /\ \/ Goto(IF Ended THEN "destroy" ELSE "terminate") /\ Polled
       \/ EnterKill("destroy") /\ UNCHANGED reaped
       \/ Goto("destroy") /\ UNCHANGED reaped
    /\ Call /\ UNCHANGED <<handle, outcome>>

\* _signal() with SIGTERM, which each process of the group may ignore.
Terminate ==
    /\ pc = "terminate"
    /\ leader' \in {leader} \cup (IF leader = "running" THEN {"failed"} ELSE {})
    /\ child' \in {child} \cup (IF child = "group" /\ ~reaped THEN {"none"} ELSE {})
    /\ Goto("stop")
    /\ UNCHANGED <<purpose, left, reaped, stream, handle, outcome>>

MustKill_Never == FALSE
MustKill == Known /\ ~Ended
Destroy ==
    /\ pc = "destroy"
    /\ IF MustKill THEN EnterKill("forget") ELSE Goto("forget")
    /\ Polled
    /\ Call /\ UNCHANGED <<handle, outcome>>
Forget ==
    /\ pc = "forget"
    /\ handle' = None
    /\ Goto("over")
    /\ Call /\ UNCHANGED <<reaped, outcome>>
-----------------------------------------------------------------------------
Owner ==
    \/ Create \/ Start \/ Terminate \/ Kill \/ Killpg \/ KillEnds
    \/ Waits("wait", "join") \/ Waits("stop", "destroy") \/ TimesOut("stop", "destroy")
    \/ Harvest \/ Destroy \/ Forget

Next ==
    \/ Owner \/ TimesOut("wait", "join") \/ Serve
    \/ Writes \/ Ends(Exits) \/ Ends(Fails) \/ Ends(Dies) \/ Forks \/ Reads \/ ReaderEnds \/ Status

Spec == Init /\ [][Next]_vars

\* The command goes on as long as the pipe takes what it writes; the reader and
\* the owner are threads; a join ends after a second.  Nobody counts on the
\* deadline of wait().
Fairness == WF_vars(Writes) /\ WF_vars(Ends(Exits)) /\ WF_vars(Reads) /\ WF_vars(Owner)

FairSpec == Spec /\ Fairness
-----------------------------------------------------------------------------
(* Properties. *)

TypeOK ==
    /\ purpose \in Purposes
    /\ pc \in {"create", "start", "wait", "join", "use", "terminate", "stop", "kill", "signal",
               "reap", "destroy", "forget", "over"}
    /\ then \in {None, "join", "destroy", "forget"}
    /\ handle \in {None, "pending", "running", "stopped", "failed", "killed"}
    /\ leader \in {"none", "running", "dying", "zero", "failed", "killed"}
    /\ child \in {"none", "group", "detached"}
    /\ {reaped, late} \subseteq BOOLEAN
    /\ left \in 0..Output /\ pipe \in 0..PipeSize
    /\ reader \in {"none", "reading", "done"}
    /\ read \in 0..Output /\ kept \in 0..OutputBytes

\* A success is one; what is not said to be truncated is everything the command
\* wrote, unless the reader could not be waited for; and nothing is over the limit.
ResultIsTrue ==
    result # None =>
        /\ result.exit_code = "zero" => leader = "zero" /\ left = 0
        /\ result.timed_out => result.exit_code = None
        /\ ~result.truncated /\ ~late => result.stdout = Output - left
        /\ result.truncated => result.stdout = OutputBytes

\* After destroy() nothing of the sandbox runs on that it had to end itself: what
\* the process had forked into its group went with it.
DestroyIsFinal ==
    pc = "over" =>
        /\ handle = None
        /\ leader # "running"
        /\ leader \in {"dying", "killed"} => child # "group"

\* What wait() and destroy() say of a sandbox is so.
OutcomeIsTrue == ResultIsTrue /\ DestroyIsFinal

\* A command that would come to its end does, however much it writes, and so do the
\* calls of its owner, though none of them runs into a deadline.
RunsEnd == purpose = "run" ~> pc = "over"
=============================================================================
