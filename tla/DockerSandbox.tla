--------------------------- MODULE DockerSandbox ---------------------------
(***************************************************************************)
(* sandbox/providers/docker_provider.py: one sandbox, from create() to the *)
(* end of destroy(), as a sequence of docker commands each of which may be *)
(* answered, refused, or time out before or after it took effect.  Beside  *)
(* its caller run the storage watchdog of the sandbox, the containers, and *)
(* the death of the process with the orphan recovery of the next one.      *)
(*                                                                         *)
(* Sandboxes share no docker object: every name is derived from the id of  *)
(* one, so one sandbox is the whole story.                                 *)
(***************************************************************************)
EXTENDS Naturals, Sequences

CONSTANTS
    Purposes,   \* what the caller creates the sandbox for
    MaxDeaths,  \* how often the process may die
    None

\* What SandboxResult says: an exit code, if there is one, and the two reasons.
Codes == {None, "zero", "failed", "killed", "watchdog"}
Results == [exit : Codes, timedOut : BOOLEAN, exceeded : BOOLEAN]

ASSUME DockerSandboxAssumption ==
    /\ Purposes \subseteq {"validate", "install", "serve", "preview"}
    /\ MaxDeaths \in Nat
    /\ None \notin Results \cup {"zero", "failed", "killed", "watchdog"}

VARIABLES
    docker,   \* what the daemon has: objects, running containers, the side container's second link, how the app ended
    purpose,  \* what the sandbox is for
    pc, at,   \* where the caller is, and at which command of a sequence
    goal,     \* where it goes on after _remove_network()
    todo,     \* the containers orphan recovery has still to destroy
    known,    \* whether _sandboxes has the sandbox
    upstream, \* whether _preview_upstreams has it
    watch,    \* its watchdog thread
    stopped,  \* the stop_event of the watchdog
    exceeded, \* limit_exceeded
    big,      \* whether the workspace is over storage_mb
    result,   \* the SandboxResult of wait()
    lost,     \* the commands of this process whose answer or whose effect was lost
    deaths    \* the deaths of the process

memory == <<known, upstream, watch, stopped, exceeded>>
vars == <<docker, purpose, pc, at, goal, todo, memory, big, result, lost, deaths>>

Sides == {"proxy", "relay"}
Containers == {"app"} \cup Sides
Networks == {"net", "egress", "pub"}

Init ==
    /\ docker = [things |-> {}, running |-> {}, joined |-> FALSE, code |-> None]
    /\ purpose \in Purposes
    /\ pc = "create" /\ at = 1 /\ goal = None /\ todo = {}
    /\ known = FALSE /\ upstream = FALSE /\ watch = "off" /\ stopped = FALSE /\ exceeded = FALSE
    /\ big = FALSE /\ result = None /\ lost = {} /\ deaths = 0

-----------------------------------------------------------------------------
(* One docker command. *)

\* _run_docker(): answered, a nonzero exit, or a timeout after which the
\* daemon has done what it was told, or has not.
Outcome == {"ok", "refused", "lost", "late"}
Took(outcome) == outcome \in {"ok", "late"}

Side == IF purpose = "preview" THEN "relay" ELSE "proxy"
Outer == IF purpose = "preview" THEN "pub" ELSE "egress"
Topology == IF purpose \in {"install", "preview"} THEN {"net", Outer, Side} ELSE {}

\* The containers that keep a network from being removed.
Members(n) == {c \in docker.running :
    IF n = "net" THEN c = "app" \/ docker.joined ELSE c \in Sides}

Removable(x) == IF x \in Networks THEN x \in docker.things /\ Members(x) = {} ELSE TRUE
Removed(x) == [docker EXCEPT !.things = @ \ {x}, !.running = @ \ {x}, !.joined = @ /\ x \notin Sides]
Ended(how) == IF "app" \in docker.running
              THEN [docker EXCEPT !.running = @ \ {"app"}, !.code = how]
              ELSE docker

Unanswered(outcome, command) == lost' = IF outcome = "ok" THEN lost ELSE lost \cup {command}

-----------------------------------------------------------------------------
(* create() *)

\* _network_args(): each policy's commands, in order, up to `docker create`.
\* "up" starts the side container, "ready" waits for its marker, "address"
\* reads where it listens.
InstallPlan == <<"net", "egress", "proxy", "join", "up", "ready", "address", "app">>
PreviewPlan == <<"net", "pub", "relay", "join", "up", "ready", "address", "app">>
Plan_JoinsLast == IF purpose = "install" THEN <<"net", "egress", "proxy", "up", "ready", "address", "app", "join">>
                  ELSE IF purpose = "preview" THEN PreviewPlan ELSE <<"app">>
Plan == CASE purpose = "install" -> InstallPlan
          [] purpose = "preview" -> PreviewPlan
          [] OTHER -> <<"app">>

Effect(command) ==
    CASE command = "join" -> [docker EXCEPT !.joined = TRUE]
      [] command = "up" -> [docker EXCEPT !.running = @ \cup {Side}]
      [] command \in {"ready", "address"} -> docker
      [] OTHER -> [docker EXCEPT !.things = @ \cup {command}]

\* A container that has stopped has no address and no published port.
CanAnswer(command) == command = "address" => Side \in docker.running

\* _remove_network() forgets the upstream before it asks docker for anything.
EnterCleanup(next) == pc' = "cleanup" /\ at' = 1 /\ goal' = next /\ upstream' = FALSE

CreateCommand ==
    /\ pc = "create"
    /\ CanAnswer(Plan[at])
    /\ docker' = Effect(Plan[at])
    /\ at' = at + 1
    /\ upstream' = (upstream \/ (purpose = "preview" /\ Plan[at] = "address"))
    /\ known' = (at = Len(Plan))
    /\ pc' = IF at = Len(Plan) THEN "created" ELSE "create"
    /\ UNCHANGED <<purpose, goal, todo, watch, stopped, exceeded, big, result, lost, deaths>>

\* Any other outcome removes the infrastructure and raises; a `docker create`
\* that timed out may have made the container all the same.
CreateRaises ==
    /\ pc = "create"
    /\ \E outcome \in Outcome \ {"ok"} :
        /\ docker' = IF Took(outcome) THEN Effect(Plan[at]) ELSE docker
        /\ lost' = IF outcome = "refused" THEN lost ELSE lost \cup {Plan[at]}
    /\ EnterCleanup("failed")
    /\ UNCHANGED <<purpose, todo, known, watch, stopped, exceeded, big, result, deaths>>

\* _remove_network(): containers first, or their networks cannot go.
Rubble_NetworksFirst == <<"net", "egress", "pub", "proxy", "relay">>
Rubble == <<"proxy", "relay", "net", "egress", "pub">>

\* One of its commands, whatever the answer: failures are passed over.
CleanupCommand ==
    /\ pc = "cleanup"
    /\ \E outcome \in Outcome :
        /\ outcome \in {"ok", "late"} => Removable(Rubble[at])
        /\ docker' = IF Took(outcome) THEN Removed(Rubble[at]) ELSE docker
        /\ IF Removable(Rubble[at]) THEN Unanswered(outcome, Rubble[at]) ELSE UNCHANGED lost
    /\ at' = at + 1
    /\ pc' = IF at = Len(Rubble) THEN goal ELSE pc
    /\ known' = IF at = Len(Rubble) THEN FALSE ELSE known
    /\ UNCHANGED <<purpose, goal, todo, upstream, watch, stopped, exceeded, big, result, deaths>>

-----------------------------------------------------------------------------
(* start(), the watchdog, and the containers. *)

Runs == purpose \in {"validate", "install"}

\* _start_storage_watchdog() runs only once docker has answered.
Arm_Never == watch
Arm == IF known /\ watch = "off" THEN "waiting" ELSE watch

\* start(), once per sandbox; a caller whose start raised destroys it.
Start ==
    /\ pc = "created"
    /\ \E outcome \in Outcome :
        /\ docker' = IF Took(outcome) THEN [docker EXCEPT !.running = @ \cup {"app"}] ELSE docker
        /\ Unanswered(outcome, "start")
        /\ pc' = IF outcome # "ok" THEN "finally" ELSE IF Runs THEN "wait" ELSE "kept"
        /\ watch' = IF outcome = "ok" THEN Arm ELSE watch
    /\ UNCHANGED <<purpose, at, goal, todo, known, upstream, stopped, exceeded, big, result, deaths>>

\* _watch_storage() looks at its stop_event only between two measurements: one
\* under way goes on when the watchdog is stopped.
WatchPolls ==
    /\ watch = "waiting"
    /\ watch' = IF stopped THEN "ended" ELSE "measuring"
    /\ UNCHANGED <<docker, purpose, pc, at, goal, todo, known, upstream, stopped, exceeded, big, result, lost, deaths>>

WatchMeasures ==
    /\ watch = "measuring"
    /\ watch' = IF big THEN "over" ELSE "waiting"
    /\ UNCHANGED <<docker, purpose, pc, at, goal, todo, known, upstream, stopped, exceeded, big, result, lost, deaths>>

\* The reason is recorded before the kill, so that wait() reports it.
Excess_Unsaid == exceeded
Excess == TRUE
WatchRecords ==
    /\ watch = "over"
    /\ watch' = "killing"
    /\ exceeded' = (IF known THEN Excess ELSE exceeded)
    /\ UNCHANGED <<docker, purpose, pc, at, goal, todo, known, upstream, stopped, big, result, lost, deaths>>

\* A kill that raises is swallowed and the thread ends.
WatchKills ==
    /\ watch = "killing"
    /\ watch' = "ended"
    /\ \E outcome \in Outcome :
        /\ docker' = IF Took(outcome) THEN Ended("watchdog") ELSE docker
        /\ Unanswered(outcome, "kill")
    /\ UNCHANGED <<purpose, pc, at, goal, todo, known, upstream, stopped, exceeded, big, result, deaths>>

\* _stop_watchdog() sets the event of a watchdog that has been started.
StopWatchdog == stopped' = (stopped \/ (known /\ watch # "off"))

AppExits ==
    /\ "app" \in docker.running
    /\ \E how \in {"zero", "failed"} : docker' = Ended(how)
    /\ UNCHANGED <<purpose, pc, at, goal, todo, memory, big, result, lost, deaths>>

SideDies ==
    /\ docker.running \cap Sides # {}
    /\ docker' = [docker EXCEPT !.running = @ \ Sides]
    /\ UNCHANGED <<purpose, pc, at, goal, todo, memory, big, result, lost, deaths>>

\* The sandbox writes to its mount.
WorkspaceChanges ==
    /\ "app" \in docker.running
    /\ big' = ~big
    /\ UNCHANGED <<docker, purpose, pc, at, goal, todo, memory, result, lost, deaths>>

-----------------------------------------------------------------------------
(* wait(), stop(), kill(), destroy(). *)

\* What wait() has when it stops the watchdog.  The exit code, where docker wait
\* gave one, stands for who ended the app.
WaitReturns(exit, timedOut) ==
    /\ pc = "wait"
    /\ result' = [exit |-> exit, timedOut |-> timedOut, exceeded |-> FALSE]
    /\ StopWatchdog
    /\ pc' = "logs"
    /\ UNCHANGED <<purpose, at, goal, todo, known, upstream, watch, exceeded, big, deaths>>

\* `docker wait` answers with the exit code, or fails and there is none to read.
WaitEnds == "app" \notin docker.running /\ WaitReturns(docker.code, FALSE) /\ UNCHANGED <<docker, lost>>
WaitFails == WaitReturns(None, FALSE) /\ UNCHANGED <<docker, lost>>

\* The timeout kills; when the kill raises so does wait(), with no result.
MayTimeOut == pc = "wait"
WaitTimesOut ==
    /\ MayTimeOut
    /\ docker' = Ended("killed")
    /\ WaitReturns(None, TRUE)
    /\ UNCHANGED lost

WaitRaises ==
    /\ MayTimeOut
    /\ \E outcome \in Outcome \ {"ok"} :
        /\ docker' = IF Took(outcome) THEN Ended("killed") ELSE docker
        /\ Unanswered(outcome, "kill")
    /\ pc' = "finally"
    /\ UNCHANGED <<purpose, at, goal, todo, memory, big, result, deaths>>

\* The logs are read, and limit_exceeded only after them.
ReadLogs ==
    /\ pc = "logs"
    /\ result' = [result EXCEPT !.exceeded = exceeded]
    /\ pc' = "finally"
    /\ UNCHANGED <<docker, purpose, at, goal, todo, memory, big, lost, deaths>>

\* stop() and kill() of a caller that keeps its sandbox.
Stop ==
    /\ pc = "kept" /\ ~Runs
    /\ StopWatchdog
    /\ \E outcome \in Outcome :
        /\ \E how \in {"zero", "killed"} : docker' = IF Took(outcome) THEN Ended(how) ELSE docker
        /\ Unanswered(outcome, "stop")
    /\ UNCHANGED <<purpose, pc, at, goal, todo, known, upstream, watch, exceeded, big, result, deaths>>

Kill ==
    /\ pc = "kept" /\ ~Runs
    /\ \E outcome \in Outcome :
        /\ docker' = IF Took(outcome) THEN Ended("killed") ELSE docker
        /\ Unanswered(outcome, "kill")
    /\ UNCHANGED <<purpose, pc, at, goal, todo, memory, big, result, deaths>>

\* destroy(): when `docker rm` raises nothing else is removed or forgotten;
\* RuntimeManager keeps the id and may ask again, the validation runner does not.
DestroyCommand ==
    /\ pc \in {"finally", "kept"}
    /\ StopWatchdog
    /\ \E outcome \in Outcome :
        /\ docker' = IF Took(outcome) THEN Removed("app") ELSE docker
        /\ Unanswered(outcome, "rm")
        /\ IF outcome = "ok" THEN EnterCleanup("gone")
           ELSE /\ pc' = IF purpose = "validate" THEN "abandoned" ELSE "kept"
                /\ UNCHANGED <<at, goal, upstream>>
    /\ UNCHANGED <<purpose, todo, known, watch, exceeded, big, result, deaths>>

-----------------------------------------------------------------------------
(* The process dies; the next one destroys what list_managed() shows it. *)

ProcessDies ==
    /\ pc # "dead" /\ deaths < MaxDeaths
    /\ deaths' = deaths + 1
    /\ pc' = "dead" /\ todo' = {}
    /\ known' = FALSE /\ upstream' = FALSE /\ watch' = "off" /\ stopped' = FALSE /\ exceeded' = FALSE
    /\ result' = None /\ lost' = {}
    /\ UNCHANGED <<docker, purpose, at, goal, big>>

\* list_managed() asks docker for labelled containers, never for networks.
Listed == docker.things \cap Containers

RecoveryBegins ==
    /\ pc = "dead"
    /\ \/ pc' = "recover" /\ todo' = Listed /\ UNCHANGED lost
       \/ pc' = "recovered" /\ todo' = {} /\ lost' = lost \cup {"ps"}
    /\ UNCHANGED <<docker, purpose, at, goal, memory, big, result, deaths>>

\* destroy() of each: under the name of a proxy or a relay there are no networks.
RecoveryDestroys ==
    /\ pc = "recover"
    /\ \E c \in todo, outcome \in Outcome :
        /\ todo' = todo \ {c}
        /\ docker' = IF Took(outcome) THEN Removed(c) ELSE docker
        /\ Unanswered(outcome, c)
        /\ IF outcome = "ok" /\ c = "app" THEN EnterCleanup("recover") ELSE UNCHANGED <<pc, at, goal, upstream>>
    /\ UNCHANGED <<purpose, known, watch, stopped, exceeded, big, result, deaths>>

RecoveryEnds ==
    /\ pc = "recover" /\ todo = {}
    /\ pc' = "recovered"
    /\ UNCHANGED <<docker, purpose, at, goal, todo, memory, big, result, lost, deaths>>

-----------------------------------------------------------------------------
Caller == CreateCommand \/ CreateRaises \/ CleanupCommand \/ Start
          \/ WaitEnds \/ WaitTimesOut \/ WaitRaises \/ ReadLogs
          \/ DestroyCommand \/ RecoveryBegins \/ RecoveryDestroys \/ RecoveryEnds

Watchdog == WatchPolls \/ WatchMeasures \/ WatchRecords \/ WatchKills

Next ==
    \/ Caller \/ WaitFails \/ Stop \/ Kill
    \/ Watchdog
    \/ AppExits \/ SideDies \/ WorkspaceChanges
    \/ ProcessDies

Spec == Init /\ [][Next]_vars

\* The caller's thread goes on unless it keeps the sandbox for a user, docker
\* commands and docker wait have timeouts, and the watchdog's thread goes on.
FairSpec ==
    /\ Spec
    /\ WF_vars(Caller /\ pc # "kept")
    /\ WF_vars(Watchdog)

-----------------------------------------------------------------------------
(* Properties. *)

\* The variables keep the shapes __init__(), create() and docker give them.
TypeOK ==
    /\ docker \in [things : SUBSET (Containers \cup Networks), running : SUBSET Containers,
                   joined : BOOLEAN, code : Codes]
    /\ docker.running \subseteq docker.things
    /\ purpose \in Purposes
    /\ pc \in {"create", "cleanup", "failed", "created", "wait", "logs", "finally", "kept", "abandoned", "gone",
               "dead", "recover", "recovered"}
    /\ at \in 1..9
    /\ goal \in {None, "failed", "gone", "recover"}
    /\ todo \subseteq Containers
    /\ known \in BOOLEAN /\ upstream \in BOOLEAN /\ stopped \in BOOLEAN /\ exceeded \in BOOLEAN
    /\ big \in BOOLEAN
    /\ watch \in {"off", "waiting", "measuring", "over", "killing", "ended"}
    /\ result \in {None} \cup Results
    /\ lost \subseteq Containers \cup Networks \cup {"join", "up", "ready", "address", "start", "stop", "kill", "rm", "ps"}
    /\ deaths \in 0..MaxDeaths

\* create() fails closed: whatever docker answers, the app container comes to
\* exist only once both networks exist and its side container is on both.
FailsClosed ==
    [][("app" \notin docker.things /\ "app" \in docker'.things) =>
        Topology \subseteq docker.things /\ (Topology # {} => docker.joined)]_vars

\* What a command that failed or went unanswered left behind, and the networks
\* that a side container among it keeps.
Excused(x) == x \in lost \/ (x \in Networks /\ docker.things \cap lost \cap Sides # {})

\* A create() that raised and a destroy() that returned leave nothing in memory, a
\* watchdog that ends, and in docker only what its own command failed to remove:
\* a failure at one command costs no other.
NothingLeft ==
    pc \in {"failed", "gone"} =>
        /\ ~upstream /\ ~known
        /\ watch # "off" => stopped
        /\ \A x \in docker.things : Excused(x)

\* preview_upstream() never names a relay that is not there: it is registered
\* last and forgotten first.
UpstreamHasRelay == upstream => "relay" \in docker.things /\ docker.joined

\* wait() tells the truth, whatever a watchdog it has stopped goes on to do: an
\* exit code is the one the app ended with, "timed out" means that the app has been
\* ended, and an end the watchdog brought about is reported as the limit exceeded.
ResultIsTrue ==
    result # None =>
        /\ result.exit # None => result.exit = docker.code /\ ~result.timedOut
        /\ result.timedOut => "app" \notin docker.running
        /\ result.exit = "watchdog" => result.exceeded \/ pc = "logs"

\* Once orphan recovery has ended no container is left of what a dead process
\* was doing, wherever it died, but those it could not list or not remove.
RecoveryClears == pc = "recovered" => "ps" \in lost \/ docker.things \cap Containers \subseteq lost

\* Memory and docker agree, and whoever cleans up cleans up all of it.
CleanupIsComplete == NothingLeft /\ UpstreamHasRelay /\ RecoveryClears

\* A running sandbox that stays over its storage limit is ended, unless docker
\* did not answer.
StopsOverLimit == ("app" \in docker.running /\ big) ~> ("app" \notin docker.running \/ ~big \/ lost # {})

\* A validation or an install ends, whatever the sandbox and docker do.
RunEnds == (Runs /\ pc = "create") ~> (pc \in {"failed", "gone", "abandoned", "kept", "recovered"})

\* A sandbox comes to its end, by itself, its owner, its timeout or its watchdog.
EverySandboxEnds == StopsOverLimit /\ RunEnds
=============================================================================
