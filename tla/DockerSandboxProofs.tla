------------------------ MODULE DockerSandboxProofs ------------------------
(***************************************************************************)
(* What a sandbox of the docker provider leaves behind, for every purpose, *)
(* every outcome of every docker command and any number of deaths of the   *)
(* process.                                                                *)
(***************************************************************************)
EXTENDS DockerSandbox, TLAPS

-----------------------------------------------------------------------------
(* The inductive invariant.                                                *)

\* create() has carried out the commands before the one it is at, and nothing
\* of the app exists yet.
Done(command) ==
    CASE command = "join" -> docker.joined
      [] command \in {"up", "ready", "address"} -> TRUE
      [] OTHER -> command \in docker.things

BuildInv ==
    /\ pc = "create" =>
         /\ at \in 1..Len(Plan)
         /\ \A i \in 1..(at - 1) : Done(Plan[i])
         /\ "app" \notin docker.things
    /\ pc = "created" => "app" \in docker.things

\* Of what _remove_network() has come past, and of the app before it, only what a
\* command failed to remove is left.
RubbleInv ==
    /\ pc = "cleanup" =>
         /\ at \in 1..Len(Rubble) /\ goal \in {"failed", "gone", "recover"}
         /\ \A i \in 1..(at - 1) : Rubble[i] \in docker.things => Excused(Rubble[i])
    /\ pc \in {"cleanup", "failed", "gone"} =>
         "app" \notin docker.running /\ ("app" \in docker.things => "app" \in lost)
    /\ pc \in {"failed", "gone"} => \A x \in docker.things : Excused(x)

\* Orphan recovery has still to destroy every container it has not failed to.
RecoverInv ==
    /\ pc = "recover" \/ (pc = "cleanup" /\ goal = "recover") =>
         docker.things \cap Containers \subseteq todo \cup lost
    /\ RecoveryClears

\* What the process remembers of the sandbox at each stage of its life, and that
\* a watchdog it has done with is told to end.
Alive == {"created", "wait", "logs", "kept", "finally"}

MemoryInv ==
    /\ pc \in Alive => known
    /\ pc \in {"failed", "gone", "dead", "recover", "recovered"} => ~known
    /\ pc \in {"cleanup", "failed", "gone", "dead", "recover", "recovered"} => ~upstream
    /\ watch # "off" => pc \in Alive \/ stopped
    /\ pc \in {"create", "created"} => watch = "off"
    /\ UpstreamHasRelay

\* The watchdog has said why before it kills, and wait() asks after it has seen the
\* end: what a stopped watchdog does later is about an app that had not ended.
WatchInv ==
    /\ pc \in Alive \cup {"create"} /\ (watch = "killing" \/ docker.code = "watchdog") => exceeded
    /\ pc \in {"create", "created", "wait"} => result = None
    /\ pc = "logs" => result # None
    /\ result # None /\ result.exit # None =>
         "app" \notin docker.running /\ result.exit = docker.code /\ ~result.timedOut
    /\ result # None /\ result.timedOut => "app" \notin docker.running
    /\ result # None /\ result.exit = "watchdog" => result.exceeded \/ pc = "logs"

IInv == TypeOK /\ BuildInv /\ RubbleInv /\ RecoverInv /\ MemoryInv /\ WatchInv

-----------------------------------------------------------------------------
(* The sequences of commands, and what one command does.                   *)

\* create() has one command for an isolated sandbox, and eight with a topology:
\* the networks and the side container on both of them come before the app.
LEMMA PlanFacts ==
    ASSUME TypeOK
    PROVE  /\ Side \in Sides /\ Outer \in {"egress", "pub"}
           /\ Topology = {} => Len(Plan) = 1 /\ Plan[1] = "app"
           /\ Topology # {} =>
                /\ Topology = {"net", Outer, Side} /\ Len(Plan) = 8
                /\ Plan[1] = "net" /\ Plan[2] = Outer /\ Plan[3] = Side /\ Plan[4] = "join"
                /\ Plan[5] = "up" /\ Plan[6] = "ready" /\ Plan[7] = "address" /\ Plan[8] = "app"
<1>1. CASE purpose = "install"
  BY <1>1 DEF Plan, InstallPlan, Topology, Side, Outer, Sides
<1>2. CASE purpose = "preview"
  BY <1>2 DEF Plan, PreviewPlan, Topology, Side, Outer, Sides
<1>3. CASE purpose \notin {"install", "preview"}
  BY <1>3 DEF Plan, Topology, Side, Outer, Sides
<1> QED BY <1>1, <1>2, <1>3

\* The command create() is at: an object that is made, or a command that needs
\* its side container, which is there.
LEMMA PlanStep ==
    ASSUME TypeOK, BuildInv, pc = "create"
    PROVE  /\ at \in 1..8 /\ at <= Len(Plan) /\ Len(Plan) \in 1..8
           /\ Plan[at] \in {"net", "egress", "pub", "proxy", "relay", "join", "up", "ready", "address", "app"}
           /\ Plan[at] = "app" <=> at = Len(Plan)
           /\ Plan[at] \in {"up", "ready", "address"} => Side \in docker.things
           /\ Plan[at] \in {"address", "app"} => Topology \subseteq docker.things /\ (Topology # {} => docker.joined)
<1>1. CASE Topology = {}
  <2>1. Len(Plan) = 1 /\ Plan[1] = "app"
    BY <1>1, PlanFacts
  <2>2. at \in 1..Len(Plan)
    BY DEF BuildInv
  <2>3. at = 1
    BY <2>1, <2>2
  <2> QED BY <1>1, <2>1, <2>3
<1>2. CASE Topology # {}
  <2>1. at \in 1..8 /\ \A i \in 1..(at - 1) : Done(Plan[i])
    BY <1>2, PlanFacts DEF BuildInv
  <2>2. at > 3 => Side \in docker.things
    <3>1. at > 3 => Done(Plan[3])
      BY <2>1
    <3> QED BY <1>2, <3>1, PlanFacts DEF Done, Sides
  <2>3. at > 4 => "net" \in docker.things /\ Outer \in docker.things /\ docker.joined
    <3>1. at > 4 => Done(Plan[1]) /\ Done(Plan[2]) /\ Done(Plan[4])
      BY <2>1
    <3> QED BY <1>2, <3>1, PlanFacts DEF Done
  <2>4. \/ at = 1 /\ Plan[at] = "net"
        \/ at = 2 /\ Plan[at] \in {"egress", "pub"}
        \/ at = 3 /\ Plan[at] \in Sides
        \/ at = 4 /\ Plan[at] = "join"
        \/ at = 5 /\ Plan[at] = "up"
        \/ at = 6 /\ Plan[at] = "ready"
        \/ at = 7 /\ Plan[at] = "address"
        \/ at = 8 /\ Plan[at] = "app"
    <3>1. at = 1 \/ at = 2 \/ at = 3 \/ at = 4 \/ at = 5 \/ at = 6 \/ at = 7 \/ at = 8
      BY <2>1
    <3> QED BY <1>2, <3>1, PlanFacts
  <2>5. at > 4 => Topology \subseteq docker.things /\ docker.joined
    BY <1>2, <2>1, <2>2, <2>3, PlanFacts
  <2>6. Len(Plan) = 8
    BY <1>2, PlanFacts
  <2> QED BY <1>2, <2>2, <2>4, <2>5, <2>6 DEF Sides
<1> QED BY <1>1, <1>2

\* _remove_network() comes past everything but the app.
LEMMA RubbleFacts ==
    /\ Len(Rubble) = 5
    /\ Rubble[1] = "proxy" /\ Rubble[2] = "relay"
    /\ Rubble[3] = "net" /\ Rubble[4] = "egress" /\ Rubble[5] = "pub"
BY DEF Rubble

\* The shape of what docker has, whatever is removed from it.
Shape(d) ==
    /\ d \in [things : SUBSET (Containers \cup Networks), running : SUBSET Containers,
              joined : BOOLEAN, code : Codes]
    /\ d.running \subseteq d.things

LEMMA RemovedFacts ==
    ASSUME TypeOK, NEW x
    PROVE  /\ Shape(Removed(x))
           /\ Removed(x).things = docker.things \ {x}
           /\ Removed(x).running = docker.running \ {x}
           /\ Removed(x).code = docker.code
           /\ x \notin Sides => Removed(x).joined = docker.joined
BY DEF TypeOK, Shape, Removed

LEMMA EndedFacts ==
    ASSUME TypeOK, NEW how \in {"zero", "failed", "killed", "watchdog"}
    PROVE  /\ Shape(Ended(how))
           /\ Ended(how).things = docker.things
           /\ Ended(how).running = docker.running \ {"app"}
           /\ Ended(how).joined = docker.joined
           /\ Ended(how).code = IF "app" \in docker.running THEN how ELSE docker.code
BY DEF TypeOK, Shape, Ended, Codes

LEMMA EffectFacts ==
    ASSUME TypeOK,
           NEW x \in {"net", "egress", "pub", "proxy", "relay", "join", "up", "ready", "address", "app"},
           x = "up" => Side \in docker.things /\ Side \in Sides
    PROVE  /\ Shape(Effect(x))
           /\ Effect(x).things = docker.things \cup ({x} \ {"join", "up", "ready", "address"})
           /\ Effect(x).running \subseteq docker.running \cup Sides
           /\ Effect(x).joined <=> docker.joined \/ x = "join"
           /\ Effect(x).code = docker.code
<1> USE DEF TypeOK, Shape, Effect, Containers, Networks, Sides
<1>1. CASE x = "join"
  BY <1>1
<1>2. CASE x = "up"
  BY <1>2
<1>3. CASE x \in {"ready", "address"}
  BY <1>3
<1>4. CASE x \notin {"join", "up", "ready", "address"}
  BY <1>4
<1> QED BY <1>1, <1>2, <1>3, <1>4

LEMMA PlanEffect ==
    ASSUME TypeOK, BuildInv, pc = "create"
    PROVE  /\ Shape(Effect(Plan[at]))
           /\ Effect(Plan[at]).things = docker.things \cup ({Plan[at]} \ {"join", "up", "ready", "address"})
           /\ Effect(Plan[at]).running \subseteq docker.running \cup Sides
           /\ Effect(Plan[at]).joined <=> docker.joined \/ Plan[at] = "join"
           /\ Effect(Plan[at]).code = docker.code
BY PlanStep, PlanFacts, EffectFacts

-----------------------------------------------------------------------------
(* The steps keep the invariant, conjunct by conjunct.                     *)

LEMMA TypeShape == TypeOK => Shape(docker)
BY DEF TypeOK, Shape

\* What TypeOK says of everything else.
Rest ==
    /\ purpose \in Purposes
    /\ pc \in {"create", "cleanup", "failed", "created", "wait", "logs", "finally", "kept", "abandoned", "gone",
               "dead", "recover", "recovered"}
    /\ at \in 1..9
    /\ goal \in {None, "failed", "gone", "recover"}
    /\ todo \subseteq Containers
    /\ known \in BOOLEAN /\ upstream \in BOOLEAN /\ stopped \in BOOLEAN /\ exceeded \in BOOLEAN
    /\ big \in BOOLEAN
    /\ watch \in {"off", "waiting", "measuring", "over", "killing", "ended"}
    /\ result \in {None} \cup Results
    /\ lost \subseteq Containers \cup Networks \cup {"join", "up", "ready", "address", "start", "stop", "kill", "rm", "ps"}
    /\ deaths \in 0..MaxDeaths

LEMMA TypeParts == TypeOK <=> Shape(docker) /\ Rest
BY DEF TypeOK, Shape, Rest

LEMMA TypePartsNext == Shape(docker') /\ Rest' => TypeOK'
BY DEF TypeOK, Shape, Rest

LEMMA TypeInit == Init => TypeOK
<1> SUFFICES ASSUME Init PROVE TypeOK
  OBVIOUS
<1>1. Shape(docker)
  BY DEF Init, Shape, Codes
<1>2. {known, upstream, stopped, exceeded, big} \subseteq BOOLEAN
  BY Zenon DEF Init
<1>3. Rest
  BY <1>2, DockerSandboxAssumption DEF DockerSandboxAssumption, Init, Rest
<1> QED BY <1>1, <1>3, TypeParts

LEMMA ShapeStep ==
    ASSUME TypeOK, BuildInv, [Next]_vars
    PROVE  Shape(docker')
<1> USE TypeShape
<1>1. CASE docker' = docker
  BY <1>1
<1>2. ASSUME NEW x, docker' = Removed(x) PROVE Shape(docker')
  BY <1>2, RemovedFacts
<1>3. ASSUME NEW how \in {"zero", "failed", "killed", "watchdog"}, docker' = Ended(how) PROVE Shape(docker')
  BY <1>3, EndedFacts
<1>4. CASE CreateCommand \/ CreateRaises
  BY <1>1, <1>4, PlanEffect DEF CreateCommand, CreateRaises
<1>5. CASE CleanupCommand \/ DestroyCommand \/ RecoveryDestroys
  BY <1>1, <1>2, <1>5 DEF CleanupCommand, DestroyCommand, RecoveryDestroys
<1>6. CASE Start
  BY <1>1, <1>6 DEF Start, BuildInv, Shape, Containers
<1>7. CASE WatchKills \/ AppExits \/ WaitTimesOut \/ WaitRaises \/ Stop \/ Kill
  BY <1>1, <1>3, <1>7 DEF WatchKills, AppExits, WaitTimesOut, WaitRaises, Stop, Kill
<1>8. CASE SideDies
  BY <1>8 DEF SideDies, Shape
<1>9. CASE \/ WatchPolls \/ WatchMeasures \/ WatchRecords \/ WorkspaceChanges \/ WaitEnds \/ WaitFails
           \/ ReadLogs \/ ProcessDies \/ RecoveryBegins \/ RecoveryEnds \/ UNCHANGED vars
  BY <1>1, <1>9 DEF WatchPolls, WatchMeasures, WatchRecords, WorkspaceChanges, WaitEnds, WaitFails,
                    ReadLogs, ProcessDies, RecoveryBegins, RecoveryEnds, vars
<1> QED BY <1>4, <1>5, <1>6, <1>7, <1>8, <1>9 DEF Next, Caller, Watchdog

LEMMA RestStep ==
    ASSUME TypeOK, BuildInv, RubbleInv, WatchInv, [Next]_vars
    PROVE  Rest'
<1> USE TypeParts DEF Rest, Unanswered
<1>1. ASSUME CreateCommand PROVE Rest'
  BY <1>1, PlanStep DEF CreateCommand
<1>2. ASSUME CreateRaises PROVE Rest'
  <2>1. Plan[at] \in Containers \cup Networks \cup {"join", "up", "ready", "address"}
    BY <1>2, PlanStep DEF CreateRaises, Containers, Sides, Networks
  <2>2. upstream' \in BOOLEAN
    BY <1>2, Zenon DEF CreateRaises, EnterCleanup
  <2> QED BY <1>2, <2>1, <2>2 DEF CreateRaises, EnterCleanup
<1>3. ASSUME CleanupCommand PROVE Rest'
  <2>1. at \in 1..5 /\ goal \in {"failed", "gone", "recover"}
    BY <1>3, RubbleFacts DEF CleanupCommand, RubbleInv
  <2>2. Rubble[at] \in Sides \cup Networks
    <3>1. at = 1 \/ at = 2 \/ at = 3 \/ at = 4 \/ at = 5
      BY <2>1
    <3> QED BY <3>1, RubbleFacts DEF Sides, Networks
  <2>3. known' \in BOOLEAN
    BY <1>3, Zenon DEF CleanupCommand
  <2>4. lost' \subseteq lost \cup {Rubble[at]}
    BY <1>3 DEF CleanupCommand
  <2>5. /\ at' = at + 1 /\ pc' \in {pc, goal}
        /\ UNCHANGED <<purpose, goal, todo, upstream, watch, stopped, exceeded, big, result, deaths>>
    BY <1>3 DEF CleanupCommand
  <2> QED BY <2>1, <2>2, <2>3, <2>4, <2>5 DEF Containers
<1>4. ASSUME Start PROVE Rest'
  BY <1>4 DEF Start, Arm
<1>5. ASSUME Watchdog PROVE Rest'
  <2>1. exceeded' \in BOOLEAN
    BY <1>5, Zenon DEF Watchdog, WatchPolls, WatchMeasures, WatchRecords, WatchKills, Excess
  <2>2. /\ UNCHANGED <<purpose, pc, at, goal, todo, known, upstream, stopped, big, result, deaths>>
        /\ watch' \in {"ended", "waiting", "measuring", "over", "killing"}
        /\ lost' \subseteq lost \cup {"kill"}
    BY <1>5 DEF Watchdog, WatchPolls, WatchMeasures, WatchRecords, WatchKills
  <2> QED BY <2>1, <2>2
<1>6. ASSUME AppExits \/ SideDies \/ WorkspaceChanges PROVE Rest'
  <2>1. big' \in BOOLEAN
    BY <1>6, Zenon DEF AppExits, SideDies, WorkspaceChanges
  <2> QED BY <1>6, <2>1 DEF AppExits, SideDies, WorkspaceChanges, memory
<1>7. ASSUME WaitEnds \/ WaitFails \/ WaitTimesOut \/ ReadLogs PROVE Rest'
  <2>1. CASE ReadLogs
    <3>1. result' \in Results
      <4>1. result \in Results
        BY <2>1 DEF ReadLogs, WatchInv
      <4>2. result' = [result EXCEPT !.exceeded = exceeded] /\ exceeded \in BOOLEAN
        BY <2>1, Zenon DEF ReadLogs
      <4> QED BY <4>1, <4>2 DEF Results
    <3>2. {known', upstream', stopped', exceeded', big'} \subseteq BOOLEAN
      BY <2>1, Zenon DEF ReadLogs, memory
    <3> QED BY <2>1, <3>1, <3>2 DEF ReadLogs, memory
  <2>2. ASSUME NEW exit \in Codes, NEW timedOut \in BOOLEAN,
               WaitReturns(exit, timedOut), lost' = lost
        PROVE  Rest'
    <3>1. {known', upstream', stopped', exceeded', big'} \subseteq BOOLEAN
      BY <2>2, Zenon DEF WaitReturns, StopWatchdog
    <3>2. result' \in Results
      BY <2>2 DEF WaitReturns, Results
    <3> QED BY <2>2, <3>1, <3>2 DEF WaitReturns
  <2>3. docker.code \in Codes /\ None \in Codes
    BY DEF TypeOK, Codes
  <2> QED BY <1>7, <2>1, <2>2, <2>3 DEF WaitEnds, WaitFails, WaitTimesOut
<1>8. ASSUME WaitRaises PROVE Rest'
  BY <1>8 DEF WaitRaises, memory
<1>9. ASSUME Stop \/ Kill PROVE Rest'
  <2>1. stopped' \in BOOLEAN
    BY <1>9, Zenon DEF Stop, Kill, StopWatchdog, memory
  <2> QED BY <1>9, <2>1 DEF Stop, Kill, memory
<1>10. ASSUME DestroyCommand PROVE Rest'
  <2>1. upstream' \in BOOLEAN /\ stopped' \in BOOLEAN
    BY <1>10, Zenon DEF DestroyCommand, EnterCleanup, StopWatchdog
  <2> QED BY <1>10, <2>1 DEF DestroyCommand, EnterCleanup
<1>11. ASSUME ProcessDies PROVE Rest'
  <2>1. {known', upstream', stopped', exceeded'} \subseteq BOOLEAN
    BY <1>11, Zenon DEF ProcessDies
  <2> QED BY <1>11, <2>1, DockerSandboxAssumption DEF DockerSandboxAssumption, ProcessDies
<1>12. ASSUME RecoveryBegins \/ RecoveryEnds PROVE Rest'
  BY <1>12 DEF RecoveryBegins, RecoveryEnds, Listed, memory
<1>13. ASSUME RecoveryDestroys PROVE Rest'
  <2>1. upstream' \in BOOLEAN
    BY <1>13, Zenon DEF RecoveryDestroys, EnterCleanup
  <2> QED BY <1>13, <2>1 DEF RecoveryDestroys, EnterCleanup
<1>14. CASE UNCHANGED vars
  BY <1>14 DEF vars, memory
<1> QED
  BY <1>1, <1>2, <1>3, <1>4, <1>5, <1>6, <1>7, <1>8, <1>9, <1>10, <1>11, <1>12, <1>13, <1>14
  DEF Next, Caller

LEMMA TypeStep ==
    ASSUME TypeOK, BuildInv, RubbleInv, WatchInv, [Next]_vars
    PROVE  TypeOK'
BY ShapeStep, RestStep, TypePartsNext

\* Only create(), destroy(), _remove_network() and orphan recovery change what
\* exists; the rest starts and ends containers.
Quiet ==
    \/ Start \/ Watchdog \/ AppExits \/ SideDies \/ WorkspaceChanges
    \/ WaitEnds \/ WaitFails \/ WaitTimesOut \/ WaitRaises \/ ReadLogs \/ Stop \/ Kill
    \/ ProcessDies \/ RecoveryBegins \/ RecoveryEnds \/ UNCHANGED vars

LEMMA Steps ==
    [Next]_vars => \/ CreateCommand \/ CreateRaises \/ CleanupCommand
                   \/ DestroyCommand \/ RecoveryDestroys \/ Quiet
BY DEF Next, Caller, Quiet

LEMMA QuietKeeps ==
    ASSUME TypeOK, Quiet
    PROVE  /\ docker'.things = docker.things /\ (docker'.joined <=> docker.joined)
           /\ pc # "created" => docker'.running \subseteq docker.running
<1> DEFINE Kept == /\ docker'.things = docker.things /\ (docker'.joined <=> docker.joined)
                   /\ pc # "created" => docker'.running \subseteq docker.running
<1> SUFFICES Kept
  OBVIOUS
<1>1. ASSUME docker' = docker PROVE Kept
  BY <1>1
<1>2. ASSUME NEW how \in {"zero", "failed", "killed", "watchdog"}, docker' = Ended(how)
      PROVE  Kept
  BY <1>2, EndedFacts
<1> HIDE DEF Kept
<1>3. CASE WatchKills \/ AppExits \/ WaitTimesOut \/ WaitRaises \/ Stop \/ Kill
  BY <1>1, <1>2, <1>3 DEF WatchKills, AppExits, WaitTimesOut, WaitRaises, Stop, Kill
<1>4. CASE Start \/ SideDies
  BY <1>1, <1>4 DEF Start, SideDies, TypeOK, Kept
<1>5. CASE \/ WatchPolls \/ WatchMeasures \/ WatchRecords \/ WorkspaceChanges \/ WaitEnds \/ WaitFails
           \/ ReadLogs \/ ProcessDies \/ RecoveryBegins \/ RecoveryEnds \/ UNCHANGED vars
  BY <1>1, <1>5 DEF WatchPolls, WatchMeasures, WatchRecords, WorkspaceChanges, WaitEnds, WaitFails,
                    ReadLogs, ProcessDies, RecoveryBegins, RecoveryEnds, vars
<1> QED BY <1>3, <1>4, <1>5 DEF Quiet, Watchdog

\* Where such a step leads the caller: nowhere into create() or _remove_network().
LEMMA QuietGoes ==
    ASSUME Quiet
    PROVE  \/ pc' = pc /\ at' = at /\ goal' = goal
           \/ pc' \in {"finally", "wait", "logs", "kept", "dead", "recover", "recovered"}
BY DEF Quiet, Start, Watchdog, WatchPolls, WatchMeasures, WatchRecords, WatchKills, AppExits, SideDies,
       WorkspaceChanges, WaitEnds, WaitFails, WaitReturns, WaitTimesOut, WaitRaises, ReadLogs, Stop, Kill,
       ProcessDies, RecoveryBegins, RecoveryEnds, vars

LEMMA PurposeStays == [Next]_vars => purpose' = purpose
BY DEF Next, Caller, CreateCommand, CreateRaises, CleanupCommand, Start, Watchdog, WatchPolls, WatchMeasures,
       WatchRecords, WatchKills, AppExits, SideDies, WorkspaceChanges, WaitEnds, WaitFails, WaitReturns,
       WaitTimesOut, WaitRaises, ReadLogs, Stop, Kill, DestroyCommand, ProcessDies, RecoveryBegins,
       RecoveryDestroys, RecoveryEnds, vars

LEMMA BuildStep ==
    ASSUME TypeOK, BuildInv, RubbleInv, [Next]_vars
    PROVE  BuildInv'
<1>1. Plan' = Plan
  BY PurposeStays DEF Plan
<1>2. CASE CreateCommand
  <2>1. pc = "create" /\ at' = at + 1 /\ docker' = Effect(Plan[at])
    BY <1>2 DEF CreateCommand
  <2>2. at \in 1..Len(Plan) /\ Len(Plan) \in 1..8 /\ (Plan[at] = "app" <=> at = Len(Plan))
    BY <2>1, PlanStep
  <2>3. CASE at = Len(Plan)
    <3>1. pc' = "created" /\ Plan[at] = "app"
      BY <1>2, <2>2, <2>3 DEF CreateCommand
    <3> QED BY <2>1, <3>1, PlanEffect DEF BuildInv
  <2>4. CASE at # Len(Plan)
    <3>1. pc' = "create" /\ at' \in 1..Len(Plan)
      BY <1>2, <2>1, <2>2, <2>4 DEF CreateCommand
    <3>2. "app" \notin docker'.things
      BY <2>1, <2>2, <2>4, PlanEffect DEF BuildInv
    <3>3. ASSUME NEW i \in 1..at PROVE Done(Plan[i])'
      <4>1. docker.things \subseteq docker'.things /\ (docker.joined => docker'.joined)
        BY <2>1, PlanEffect
      <4>2. CASE i = at
        BY <2>1, <4>2, PlanEffect, <1>1 DEF Done
      <4>3. CASE i # at
        <5>1. Done(Plan[i])
          BY <2>1, <2>2, <3>3, <4>3 DEF BuildInv
        <5> QED BY <5>1, <4>1, <1>1 DEF Done
      <4> QED BY <4>2, <4>3
    <3>4. \A i \in 1..(at' - 1) : Done(Plan[i])'
      BY <2>1, <2>2, <3>3
    <3> QED BY <1>1, <3>1, <3>2, <3>4 DEF BuildInv
  <2> QED BY <2>3, <2>4
<1>3. CASE CreateRaises
  BY <1>3 DEF CreateRaises, EnterCleanup, BuildInv
<1>4. CASE CleanupCommand
  BY <1>4 DEF CleanupCommand, BuildInv, RubbleInv
<1>5. CASE DestroyCommand
  BY <1>5 DEF DestroyCommand, EnterCleanup, BuildInv
<1>6. CASE RecoveryDestroys
  BY <1>6 DEF RecoveryDestroys, EnterCleanup, BuildInv
<1>7. CASE Quiet
  BY <1>1, <1>7, QuietKeeps, QuietGoes DEF BuildInv, Done
<1> QED BY <1>2, <1>3, <1>4, <1>5, <1>6, <1>7, Steps

\* A command that went unanswered stays so, as long as its process lives.
LEMMA LostStays == TypeOK /\ [Next]_vars => lost \subseteq lost' \/ pc' = "dead"
BY DEF Next, Caller, CreateCommand, CreateRaises, CleanupCommand, Start, Watchdog, WatchPolls, WatchMeasures,
       WatchRecords, WatchKills, AppExits, SideDies, WorkspaceChanges, WaitEnds, WaitFails, WaitReturns,
       WaitTimesOut, WaitRaises, ReadLogs, Stop, Kill, DestroyCommand, ProcessDies, RecoveryBegins,
       RecoveryDestroys, RecoveryEnds, vars, Unanswered, TypeOK

\* What excuses an object after a step.
ExcusedNext(x) == x \in lost' \/ (x \in Networks /\ docker'.things \cap lost' \cap Sides # {})

\* One command of _remove_network(): what it is about is gone, or the command has
\* failed, or a side container that is still there keeps a network.
LEMMA CleanupRemoves ==
    ASSUME TypeOK, RubbleInv, CleanupCommand
    PROVE  /\ at \in 1..5 /\ at' = at + 1 /\ pc = "cleanup"
           /\ docker' = docker \/ docker' = Removed(Rubble[at])
           /\ lost \subseteq lost'
           /\ Rubble[at] \in docker'.things => ExcusedNext(Rubble[at])
<1>1. at \in 1..5 /\ at' = at + 1 /\ pc = "cleanup"
  BY RubbleFacts DEF CleanupCommand, RubbleInv
<1>2. PICK outcome \in Outcome :
        /\ docker' = IF Took(outcome) THEN Removed(Rubble[at]) ELSE docker
        /\ IF Removable(Rubble[at]) THEN Unanswered(outcome, Rubble[at]) ELSE UNCHANGED lost
        /\ outcome \in {"ok", "late"} => Removable(Rubble[at])
  BY DEF CleanupCommand
<1>3. lost \subseteq lost'
  BY <1>2 DEF Unanswered
<1>4. ASSUME Removable(Rubble[at]), Rubble[at] \in docker'.things
      PROVE  ExcusedNext(Rubble[at])
  <2>1. outcome # "ok"
    BY <1>2, <1>4, RemovedFacts DEF Took
  <2>2. Rubble[at] \in lost'
    BY <1>2, <1>4, <2>1 DEF Unanswered
  <2> QED BY <2>2 DEF ExcusedNext
<1>5. ASSUME ~Removable(Rubble[at]), Rubble[at] \in docker'.things
      PROVE  ExcusedNext(Rubble[at])
  <2>1. docker' = docker /\ lost' = lost
    BY <1>2, <1>5 DEF Took
  <2>2. Rubble[at] \in Networks /\ Members(Rubble[at]) # {}
    BY <1>5, <2>1 DEF Removable
  <2>3. at > 2
    BY <1>1, <2>2, RubbleFacts DEF Networks
  <2>4. PICK c \in docker.running : c \in Sides
    BY <1>1, <2>2 DEF Members, TypeOK, Containers, RubbleInv
  <2>5. c \in docker.things /\ (c = Rubble[1] \/ c = Rubble[2])
    BY <2>4, RubbleFacts DEF TypeOK, Sides
  <2>6. c \in lost
    <3>1. c \notin Networks
      BY <2>4 DEF Sides, Networks
    <3>2. Excused(c)
      BY <1>1, <2>3, <2>5, RubbleFacts DEF RubbleInv
    <3> QED BY <3>1, <3>2 DEF Excused
  <2> QED BY <2>1, <2>2, <2>4, <2>5, <2>6 DEF ExcusedNext
<1> QED BY <1>1, <1>2, <1>3, <1>4, <1>5

LEMMA RubbleStep ==
    ASSUME TypeOK, BuildInv, RubbleInv, [Next]_vars
    PROVE  RubbleInv'
<1> USE DEF RubbleInv
<1>1. CASE CreateCommand
  BY <1>1 DEF CreateCommand
<1>2. CASE CreateRaises
  <2>1. pc = "create" /\ pc' = "cleanup" /\ at' = 1 /\ goal' = "failed"
    BY <1>2 DEF CreateRaises, EnterCleanup
  <2>2. "app" \notin docker.things /\ "app" \notin docker.running
    BY <2>1 DEF BuildInv, TypeOK
  <2>3. PICK outcome \in Outcome \ {"ok"} :
          /\ docker' = IF Took(outcome) THEN Effect(Plan[at]) ELSE docker
          /\ lost' = IF outcome = "refused" THEN lost ELSE lost \cup {Plan[at]}
    BY <1>2 DEF CreateRaises
  <2>4. "app" \notin docker'.running /\ ("app" \in docker'.things => "app" \in lost')
    BY <2>1, <2>2, <2>3, PlanEffect DEF Took, Outcome, Sides
  <2> QED BY <2>1, <2>4, RubbleFacts
<1>3. CASE CleanupCommand
  <2>1. at \in 1..5 /\ at' = at + 1 /\ goal' = goal /\ pc' = (IF at = 5 THEN goal ELSE "cleanup")
        /\ goal \in {"failed", "gone", "recover"} /\ pc = "cleanup"
    BY <1>3, RubbleFacts DEF CleanupCommand
  <2>2. /\ docker'.things \subseteq docker.things /\ docker'.running \subseteq docker.running
        /\ docker.things \subseteq docker'.things \cup {Rubble[at]} /\ lost \subseteq lost'
    BY <1>3, CleanupRemoves, RemovedFacts
  <2>3. ASSUME NEW i \in 1..at, Rubble[i] \in docker'.things
        PROVE  ExcusedNext(Rubble[i])
    <3>1. CASE i = at
      BY <1>3, <2>3, <3>1, CleanupRemoves
    <3>2. CASE i # at
      <4>1. Excused(Rubble[i])
        BY <2>1, <2>2, <2>3, <3>2
      <4>2. CASE Rubble[i] \in lost
        BY <2>2, <4>2 DEF ExcusedNext
      <4>3. CASE Rubble[i] \in Networks /\ docker.things \cap lost \cap Sides # {}
        <5>1. i \in {3, 4, 5}
          BY <2>1, <4>3, RubbleFacts DEF Networks
        <5>2. at \in {4, 5}
          BY <2>1, <3>2, <5>1
        <5>3. Rubble[at] \notin Sides
          BY <5>2, RubbleFacts DEF Sides
        <5> QED BY <2>2, <4>3, <5>3 DEF ExcusedNext
      <4> QED BY <4>1, <4>2, <4>3 DEF Excused
    <3> QED BY <3>1, <3>2
  <2>4. "app" \notin docker'.running /\ ("app" \in docker'.things => "app" \in lost')
    BY <2>1, <2>2
  <2>5. CASE at = 5
    <3>1. ASSUME NEW x \in docker'.things PROVE ExcusedNext(x)
      <4>1. x \in {"app", "proxy", "relay", "net", "egress", "pub"}
        BY <2>2 DEF TypeOK, Containers, Sides, Networks
      <4>2. CASE x = "app"
        BY <2>4, <4>2 DEF ExcusedNext
      <4>3. CASE x # "app"
        <5>1. \E i \in 1..5 : x = Rubble[i]
          BY <4>1, <4>3, RubbleFacts
        <5> QED BY <2>3, <2>5, <5>1
      <4> QED BY <4>2, <4>3
    <3>2. \A x \in docker'.things : Excused(x)'
      BY <3>1 DEF Excused, ExcusedNext
    <3> QED BY <2>1, <2>4, <2>5, <3>2
  <2>6. CASE at # 5
    <3>1. at' \in 1..Len(Rubble) /\ pc' = "cleanup" /\ at' - 1 = at
      BY <2>1, <2>6, RubbleFacts
    <3>2. \A i \in 1..(at' - 1) : Rubble[i] \in docker'.things => Excused(Rubble[i])'
      BY <2>3, <3>1 DEF Excused, ExcusedNext, Rubble
    <3> QED BY <2>1, <2>4, <3>1, <3>2
  <2> QED BY <2>5, <2>6
<1>4. CASE DestroyCommand
  BY <1>4, RemovedFacts, RubbleFacts DEF DestroyCommand, EnterCleanup, Unanswered, Took
<1>5. CASE RecoveryDestroys
  BY <1>5, RemovedFacts, RubbleFacts DEF RecoveryDestroys, EnterCleanup, Unanswered, Took
<1>6. CASE Quiet
  <2>1. CASE pc' = pc /\ at' = at /\ goal' = goal
    BY <1>6, <2>1, QuietKeeps, LostStays DEF Excused
  <2> QED BY <1>6, <2>1, QuietGoes
<1> QED BY <1>1, <1>2, <1>3, <1>4, <1>5, <1>6, Steps

LEMMA RecoverStep ==
    ASSUME TypeOK, BuildInv, RubbleInv, RecoverInv, [Next]_vars
    PROVE  RecoverInv'
<1> USE DEF RecoverInv, RecoveryClears
<1>1. CASE CreateCommand
  BY <1>1 DEF CreateCommand
<1>2. CASE CreateRaises
  BY <1>2 DEF CreateRaises, EnterCleanup
<1>3. CASE CleanupCommand
  <2>1. at \in 1..5 /\ todo' = todo /\ goal' = goal /\ pc = "cleanup" /\ pc' \in {goal, "cleanup"}
        /\ goal \in {"failed", "gone", "recover"}
    BY <1>3, RubbleFacts DEF CleanupCommand, RubbleInv
  <2>2. docker'.things \subseteq docker.things /\ lost \subseteq lost'
    BY <1>3, CleanupRemoves, RemovedFacts
  <2> QED BY <2>1, <2>2
<1>4. CASE DestroyCommand
  BY <1>4 DEF DestroyCommand, EnterCleanup
<1>5. CASE RecoveryDestroys
  <2>1. PICK c \in todo, outcome \in Outcome :
          /\ todo' = todo \ {c}
          /\ docker' = IF Took(outcome) THEN Removed(c) ELSE docker
          /\ Unanswered(outcome, c)
          /\ IF outcome = "ok" /\ c = "app" THEN EnterCleanup("recover") ELSE UNCHANGED <<pc, at, goal, upstream>>
    BY <1>5 DEF RecoveryDestroys
  <2>2. pc = "recover" /\ pc' \in {"recover", "cleanup"}
    BY <1>5, <2>1 DEF RecoveryDestroys, EnterCleanup
  <2>3. /\ lost \subseteq lost' /\ docker'.things \subseteq docker.things
        /\ c \in docker'.things => c \in lost'
    BY <2>1, RemovedFacts DEF Unanswered, Took
  <2> QED BY <2>1, <2>2, <2>3
<1>6. CASE RecoveryBegins \/ RecoveryEnds
  BY <1>6, QuietKeeps DEF RecoveryBegins, RecoveryEnds, Listed, Quiet
<1>7. CASE ProcessDies
  BY <1>7 DEF ProcessDies
<1>8. CASE pc' = pc /\ todo' = todo /\ goal' = goal /\ Quiet
  BY <1>8, QuietKeeps, LostStays
<1>9. CASE pc' \in {"finally", "wait", "logs", "kept"}
  BY <1>9
<1>10. CASE Quiet
  BY <1>6, <1>7, <1>8, <1>9, <1>10
  DEF Quiet, Start, Watchdog, WatchPolls, WatchMeasures, WatchRecords, WatchKills, AppExits, SideDies,
      WorkspaceChanges, WaitEnds, WaitFails, WaitReturns, WaitTimesOut, WaitRaises, ReadLogs, Stop, Kill, vars
<1> QED BY <1>1, <1>2, <1>3, <1>4, <1>5, <1>10, Steps

LEMMA MemoryStep ==
    ASSUME TypeOK, BuildInv, RubbleInv, MemoryInv, [Next]_vars
    PROVE  MemoryInv'
<1> USE DEF MemoryInv, UpstreamHasRelay, Alive
<1>1. CASE CreateCommand
  <2>1. pc = "create" /\ watch = "off" /\ watch' = watch
    BY <1>1 DEF CreateCommand
  <2>2. \/ pc' = "create"
        \/ pc' = "created" /\ known'
    BY <1>1 DEF CreateCommand
  <2>3. docker.things \subseteq docker'.things /\ (docker.joined => docker'.joined)
    BY <1>1, <2>1, PlanEffect DEF CreateCommand
  <2>4. upstream' => upstream \/ (purpose = "preview" /\ Plan[at] = "address")
    BY <1>1 DEF CreateCommand
  <2>5. purpose = "preview" /\ Plan[at] = "address" => "relay" \in docker.things /\ docker.joined
    BY <2>1, PlanStep DEF Topology, Side
  <2> QED BY <2>1, <2>2, <2>3, <2>4, <2>5
<1>2. CASE CreateRaises
  BY <1>2 DEF CreateRaises, EnterCleanup
<1>3. CASE CleanupCommand
  <2>1. pc = "cleanup" /\ pc' \in {"cleanup", "failed", "gone", "recover"} /\ (pc' # "cleanup" => ~known')
    BY <1>3, RubbleFacts DEF CleanupCommand, RubbleInv
  <2>2. upstream' = upstream /\ watch' = watch /\ stopped' = stopped
    BY <1>3 DEF CleanupCommand
  <2> QED BY <2>1, <2>2
<1>4. CASE DestroyCommand
  <2>1. /\ pc' \in {"cleanup", "abandoned", "kept"} /\ known' = known /\ known
        /\ watch' = watch /\ (watch # "off" => stopped')
    BY <1>4 DEF DestroyCommand, EnterCleanup, StopWatchdog
  <2>2. \/ ~upstream'
        \/ upstream' = upstream /\ (docker' = docker \/ docker' = Removed("app"))
    BY <1>4, Zenon DEF DestroyCommand, EnterCleanup
  <2>3. upstream' => "relay" \in docker'.things /\ docker'.joined
    BY <2>2, RemovedFacts DEF Sides
  <2>4. pc' = "cleanup" => ~upstream'
    BY <1>4 DEF DestroyCommand, EnterCleanup
  <2> QED BY <2>1, <2>3, <2>4
<1>5. CASE RecoveryDestroys
  <2>1. pc = "recover" /\ pc' \in {"recover", "cleanup"} /\ ~upstream' /\ known' = known
        /\ watch' = watch /\ stopped' = stopped
    BY <1>5 DEF RecoveryDestroys, EnterCleanup
  <2> QED BY <2>1
<1>6. CASE Start
  <2>1. pc = "created" /\ pc' \in {"finally", "wait", "kept"} /\ UNCHANGED <<known, upstream>>
    BY <1>6 DEF Start
  <2> QED BY <1>6, <2>1, QuietKeeps DEF Quiet
<1>7. CASE ProcessDies
  BY <1>7 DEF ProcessDies
<1>8. CASE WaitEnds \/ WaitFails \/ WaitTimesOut \/ WaitRaises \/ ReadLogs
  <2>1. pc \in {"wait", "logs"} /\ pc' \in {"logs", "finally"} /\ UNCHANGED <<known, upstream>>
    BY <1>8 DEF WaitEnds, WaitFails, WaitReturns, WaitTimesOut, WaitRaises, ReadLogs, MayTimeOut, memory
  <2> QED BY <1>8, <2>1, QuietKeeps DEF Quiet
<1>9. CASE RecoveryBegins \/ RecoveryEnds
  <2>1. pc \in {"dead", "recover"} /\ pc' \in {"recover", "recovered"} /\ UNCHANGED <<known, upstream, watch, stopped>>
    BY <1>9 DEF RecoveryBegins, RecoveryEnds, memory
  <2> QED BY <2>1
<1>10. CASE \/ Watchdog \/ AppExits \/ SideDies \/ WorkspaceChanges
            \/ Stop \/ Kill \/ UNCHANGED vars
  <2>1. UNCHANGED <<pc, known, upstream>> /\ (watch = "off" <=> watch' = "off") /\ (stopped => stopped')
    BY <1>10 DEF Watchdog, WatchPolls, WatchMeasures, WatchRecords, WatchKills, AppExits, SideDies,
                 WorkspaceChanges, Stop, Kill, StopWatchdog, vars, memory
  <2> QED BY <1>10, <2>1, QuietKeeps DEF Quiet
<1> QED BY <1>1, <1>2, <1>3, <1>4, <1>5, <1>6, <1>7, <1>8, <1>9, <1>10, Steps DEF Quiet

LEMMA WatchStep ==
    ASSUME TypeOK, BuildInv, RubbleInv, MemoryInv, WatchInv, [Next]_vars
    PROVE  WatchInv'
<1> USE DEF WatchInv, MemoryInv, Alive
<1>1. CASE CreateCommand
  <2>1. /\ pc = "create" /\ pc' \in {"create", "created"} /\ docker' = Effect(Plan[at])
        /\ UNCHANGED <<watch, exceeded, result>>
    BY <1>1 DEF CreateCommand
  <2> QED BY <2>1, PlanEffect
<1>2. CASE CreateRaises
  <2>1. pc = "create" /\ pc' = "cleanup" /\ UNCHANGED <<watch, exceeded, result>>
    BY <1>2 DEF CreateRaises, EnterCleanup
  <2> QED BY <2>1
<1>3. CASE CleanupCommand
  <2>1. pc = "cleanup" /\ pc' \in {"cleanup", "failed", "gone", "recover"} /\ UNCHANGED <<watch, exceeded, result>>
    BY <1>3, RubbleFacts DEF CleanupCommand, RubbleInv
  <2>2. docker'.code = docker.code /\ docker'.running \subseteq docker.running
    BY <1>3, RemovedFacts DEF CleanupCommand
  <2> QED BY <2>1, <2>2
<1>4. CASE DestroyCommand \/ RecoveryDestroys
  <2>1. docker'.code = docker.code /\ docker'.running \subseteq docker.running /\ UNCHANGED <<exceeded, result>>
    BY <1>4, RemovedFacts DEF DestroyCommand, RecoveryDestroys
  <2>2. /\ watch' = watch /\ pc # "logs"
        /\ pc' \in {"cleanup", "abandoned", "kept", "recover"}
        /\ pc' = "kept" => pc \in Alive
    BY <1>4 DEF DestroyCommand, RecoveryDestroys, EnterCleanup
  <2> QED BY <2>1, <2>2
<1>5. CASE Start
  <2>1. /\ pc = "created" /\ pc' \in {"finally", "wait", "kept"} /\ UNCHANGED <<exceeded, result>>
        /\ watch' \in {"off", "waiting"}
    BY <1>5 DEF Start, Arm
  <2>2. docker'.code = docker.code
    BY <1>5 DEF Start, TypeOK
  <2>3. result = None /\ result' = None
    BY <2>1
  <2>4. docker'.code = "watchdog" => exceeded'
    BY <2>1, <2>2
  <2> QED BY <2>1, <2>3, <2>4
<1>6. CASE WatchPolls \/ WatchMeasures \/ WatchRecords
  <2>1. /\ UNCHANGED <<docker, pc, result>> /\ watch # "killing"
    BY <1>6 DEF WatchPolls, WatchMeasures, WatchRecords
  <2>2. pc \in Alive \cup {"create"} /\ (watch' = "killing" \/ docker.code = "watchdog") => exceeded'
    <3>1. pc = "create" => watch' # "killing"
      BY <1>6 DEF WatchPolls, WatchMeasures, WatchRecords
    <3>2. (exceeded => exceeded') /\ (watch' = "killing" /\ known => exceeded')
      BY <1>6, Zenon DEF WatchPolls, WatchMeasures, WatchRecords, Excess
    <3> QED BY <2>1, <3>1, <3>2
  <2> QED BY <2>1, <2>2
<1>7. CASE WatchKills
  <2>1. /\ watch = "killing" /\ watch' = "ended" /\ UNCHANGED <<pc, exceeded, result>>
        /\ docker'.running \subseteq docker.running
        /\ docker'.code = docker.code \/ "app" \in docker.running
    BY <1>7, EndedFacts DEF WatchKills
  <2> QED BY <2>1
<1>8. CASE AppExits
  <2>1. /\ UNCHANGED <<pc, watch, exceeded, result>>
        /\ docker'.running \subseteq docker.running
        /\ docker'.code # "watchdog" /\ "app" \in docker.running
    BY <1>8, EndedFacts DEF AppExits, memory
  <2> QED BY <2>1
<1>9. CASE \/ SideDies \/ WorkspaceChanges \/ RecoveryBegins \/ RecoveryEnds \/ UNCHANGED vars
  <2>1. docker'.code = docker.code /\ docker'.running \subseteq docker.running
    BY <1>9 DEF SideDies, WorkspaceChanges, RecoveryBegins, RecoveryEnds, vars, TypeOK
  <2>2. UNCHANGED <<watch, exceeded, result>>
        /\ (pc' = pc \/ (pc \in {"dead", "recover"} /\ pc' \in {"recover", "recovered"}))
    BY <1>9 DEF SideDies, WorkspaceChanges, RecoveryBegins, RecoveryEnds, vars, memory
  <2> QED BY <2>1, <2>2
<1>10. CASE WaitEnds \/ WaitFails \/ WaitTimesOut
  <2>1. PICK exit \in {None, docker.code}, timedOut \in BOOLEAN :
          /\ WaitReturns(exit, timedOut)
          /\ exit # None => "app" \notin docker.running /\ docker' = docker /\ ~timedOut
          /\ timedOut => docker' = Ended("killed")
          /\ docker' = docker \/ docker' = Ended("killed")
    <3>1. CASE WaitEnds
      BY <3>1 DEF WaitEnds
    <3>2. CASE WaitFails
      BY <3>2 DEF WaitFails
    <3>3. CASE WaitTimesOut
      BY <3>3 DEF WaitTimesOut
    <3> QED BY <1>10, <3>1, <3>2, <3>3
  <2>2. /\ pc = "wait" /\ pc' = "logs" /\ UNCHANGED <<watch, exceeded>>
        /\ result' = [exit |-> exit, timedOut |-> timedOut, exceeded |-> FALSE]
    BY <2>1 DEF WaitReturns
  <2>3. result' # None /\ result'.exit = exit /\ (result'.timedOut <=> timedOut)
    <3>1. exit \in Codes
      BY <2>1 DEF TypeOK, Codes
    <3>2. result' \in Results
      BY <2>2, <3>1 DEF Results
    <3>3. result'.timedOut <=> timedOut
      BY <2>2, Zenon
    <3> QED BY <2>2, <3>2, <3>3, DockerSandboxAssumption DEF DockerSandboxAssumption
  <2>4. docker'.code = docker.code \/ docker'.code = "killed"
    BY <2>1, EndedFacts
  <2>5. timedOut => "app" \notin docker'.running
    BY <2>1, EndedFacts
  <2> QED BY <2>1, <2>2, <2>3, <2>4, <2>5
<1>11. CASE WaitRaises
  <2>1. /\ pc = "wait" /\ pc' = "finally" /\ UNCHANGED <<watch, exceeded, result>>
        /\ docker'.code = docker.code \/ docker'.code = "killed"
    BY <1>11, EndedFacts DEF WaitRaises, MayTimeOut, memory
  <2> QED BY <2>1
<1>12. CASE ReadLogs
  <2>1. /\ pc = "logs" /\ pc' = "finally" /\ UNCHANGED <<docker, watch, exceeded>> /\ result # None
        /\ result' = [result EXCEPT !.exceeded = exceeded]
    BY <1>12 DEF ReadLogs, memory
  <2>2. result' # None /\ result'.exit = result.exit /\ result'.timedOut = result.timedOut
        /\ (result'.exceeded <=> exceeded)
    <3>1. result \in Results
      BY <2>1 DEF TypeOK
    <3>2. result' \in Results
      BY <2>1, <3>1 DEF TypeOK, Results
    <3>3. result'.exceeded = exceeded
      BY <2>1, <3>1 DEF Results
    <3>4. result'.exceeded <=> exceeded
      BY <3>3, Zenon
    <3> QED BY <2>1, <3>1, <3>2, <3>4, DockerSandboxAssumption DEF DockerSandboxAssumption, Results
  <2>3. result.exit = "watchdog" => exceeded
    BY <2>1, DockerSandboxAssumption DEF DockerSandboxAssumption
  <2> QED BY <2>1, <2>2, <2>3
<1>13. CASE Stop \/ Kill
  <2>1. pc = "kept" /\ UNCHANGED <<pc, watch, exceeded, result>>
    BY <1>13 DEF Stop, Kill, memory
  <2>2. /\ docker'.running \subseteq docker.running
        /\ docker'.code = docker.code \/ (docker'.code # "watchdog" /\ "app" \in docker.running)
    BY <1>13, EndedFacts DEF Stop, Kill
  <2> QED BY <2>1, <2>2
<1>14. CASE ProcessDies
  <2>1. pc' = "dead" /\ watch' = "off" /\ docker' = docker /\ result' = None
    BY <1>14 DEF ProcessDies
  <2> QED BY <2>1
<1> QED
  BY <1>1, <1>2, <1>3, <1>4, <1>5, <1>6, <1>7, <1>8, <1>9, <1>10, <1>11, <1>12, <1>13, <1>14, Steps
  DEF Quiet, Watchdog

-----------------------------------------------------------------------------
(* What follows.                                                           *)

\* The inductive invariant holds in every state.
THEOREM Inductive == Spec => []IInv
<1>1. Init => IInv
  <2> SUFFICES ASSUME Init PROVE IInv
    OBVIOUS
  <2>1. TypeOK
    BY TypeInit
  <2>2. BuildInv
    <3>1. 1 \in 1..Len(Plan)
      BY <2>1, PlanFacts
    <3> QED BY <3>1 DEF Init, BuildInv
  <2>3. RubbleInv /\ RecoverInv /\ MemoryInv /\ WatchInv
    BY DockerSandboxAssumption
    DEF DockerSandboxAssumption, Init, RubbleInv, RecoverInv, RecoveryClears, MemoryInv, UpstreamHasRelay,
        Alive, WatchInv
  <2> QED BY <2>1, <2>2, <2>3 DEF IInv
<1>2. IInv /\ [Next]_vars => IInv'
  BY TypeStep, BuildStep, RubbleStep, RecoverStep, MemoryStep, WatchStep DEF IInv
<1> QED BY <1>1, <1>2, PTL DEF Spec

\* The variables keep the shapes the code and docker give them.
THEOREM TypeCorrect == Spec => []TypeOK
<1>1. IInv => TypeOK
  BY DEF IInv
<1> QED BY <1>1, Inductive, PTL

\* create() fails closed for every policy: the app container comes to exist only
\* behind its networks and its side container, whatever docker answers.
THEOREM CreateFailsClosed == Spec => FailsClosed
<1> DEFINE Closed == ("app" \notin docker.things /\ "app" \in docker'.things) =>
                         Topology \subseteq docker.things /\ (Topology # {} => docker.joined)
<1>1. IInv /\ [Next]_vars => Closed
  <2> SUFFICES ASSUME IInv, [Next]_vars, "app" \notin docker.things, "app" \in docker'.things
               PROVE  Topology \subseteq docker.things /\ (Topology # {} => docker.joined)
    OBVIOUS
  <2> USE DEF IInv
  <2>1. CASE CreateCommand \/ CreateRaises
    <3>1. pc = "create" /\ (docker' = docker \/ docker' = Effect(Plan[at]))
      BY <2>1 DEF CreateCommand, CreateRaises
    <3>2. Plan[at] = "app"
      BY <3>1, PlanEffect
    <3> QED BY <3>1, <3>2, PlanStep
  <2>2. CASE CleanupCommand \/ DestroyCommand \/ RecoveryDestroys
    BY <2>2, RemovedFacts DEF CleanupCommand, DestroyCommand, RecoveryDestroys
  <2>3. CASE Quiet
    BY <2>3, QuietKeeps
  <2> QED BY <2>1, <2>2, <2>3, Steps
<1>2. IInv /\ [Next]_vars => [Closed]_vars
  BY <1>1
<1> QED BY <1>2, Inductive, PTL DEF Spec, FailsClosed

\* Whatever command a create() fails at and whatever goes unanswered, memory forgets
\* the sandbox, the commands of _remove_network() that fail cost no more than the
\* object each is about and the networks it holds, the next process is left no
\* container it could list and remove, and no preview is routed to a relay that is
\* not there.
THEOREM CleanupComplete == Spec => []CleanupIsComplete
<1>1. IInv => CleanupIsComplete
  BY DEF IInv, CleanupIsComplete, NothingLeft, RubbleInv, RecoverInv, MemoryInv, Alive
<1> QED BY <1>1, Inductive, PTL

\* wait() gives the exit code the app ended with or none, says "timed out" only once
\* the app has been ended, and an app it saw ended by the watchdog it reports as over
\* its limit, however late a stopped watchdog still acts.
THEOREM ResultsAreTrue == Spec => []ResultIsTrue
<1>1. IInv => ResultIsTrue
  BY DEF IInv, WatchInv, ResultIsTrue
<1> QED BY <1>1, Inductive, PTL
=============================================================================
