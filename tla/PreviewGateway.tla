--------------------------- MODULE PreviewGateway ---------------------------
(***************************************************************************)
(* A request from the browser to the app of a preview, through the two     *)
(* proxies on its way: preview/gateway.py, one asynchronous process, and   *)
(* sandbox/preview_relay.js, one process per run of a preview.             *)
(*                                                                         *)
(* A relay stands for its run and for its token.  A port of the host may   *)
(* belong to another run's relay by the time a request is sent to it.      *)
(*                                                                         *)
(* Left out: what is done to headers, cookies, redirects and paths; a      *)
(* request or a response that a check of those refuses is one that is      *)
(* refused, for no reason in particular.                                   *)
(***************************************************************************)
EXTENDS Naturals, FiniteSets

CONSTANTS
    Request,
    Preview,
    PreviewOf,   \* the preview a request names in its Host
    Relay,       \* the runs of previews, one relay each
    Port,        \* the ports of the loopback interface relays get
    None,
    MaxRequests, \* PreviewConfig.max_concurrent_requests
    MaxRelay     \* MAX_CONCURRENT of the relay

ASSUME PreviewGatewayAssumption ==
    /\ PreviewOf \in [Request -> Preview]
    /\ None \notin Preview \cup Relay
    /\ {MaxRequests, MaxRelay} \subseteq Nat \ {0}

VARIABLES
    run,       \* the preview a relay was started for
    port,      \* the port it was given
    running,   \* the relays that listen on theirs
    upstream,  \* what PreviewManager.resolve() answers for a preview
    semaphore, \* the free permits of semaphores[preview_id]
    pc,        \* where a request is in the gateway
    target,    \* its upstream: a port and a token
    holds,     \* the requests that have a permit
    gone,      \* the requests whose client has left
    late,      \* the responses past their deadline
    serving,   \* the relay that counts a request in `active`
    answer     \* the relay whose app's response a request has been given

previews == <<run, port, running, upstream>>
vars == <<previews, semaphore, pc, target, holds, gone, late, serving, answer>>

InRelay(x) == {r \in Request : serving[r] = x}
InGateway(p) ==
    {r \in Request : PreviewOf[r] = p /\ pc[r] \in {"send", "wait", "stream", "unread"}}

Init ==
    /\ run = [x \in Relay |-> None]
    /\ port = [x \in Relay |-> None]
    /\ running = {}
    /\ upstream = [p \in Preview |-> None]
    /\ semaphore = [p \in Preview |-> MaxRequests]
    /\ pc = [r \in Request |-> "new"]
    /\ target = [r \in Request |-> None]
    /\ holds = {}
    /\ gone = {}
    /\ late = {}
    /\ serving = [r \in Request |-> None]
    /\ answer = [r \in Request |-> None]

Goto(r, label) == pc' = [pc EXCEPT ![r] = label]

-----------------------------------------------------------------------------
(* The previews, as PreviewManager and the provider leave them. *)

\* A start: its relay has a free port when resolve() first answers.
PreviewStarts(p, x, n) ==
    /\ upstream[p] = None
    /\ run[x] = None
    /\ \A y \in running : port[y] # n
    /\ run' = [run EXCEPT ![x] = p]
    /\ port' = [port EXCEPT ![x] = n]
    /\ running' = running \cup {x}
    /\ upstream' = [upstream EXCEPT ![p] = x]
    /\ UNCHANGED <<semaphore, pc, target, holds, gone, late, serving, answer>>

\* A stop forgets the upstream first.
PreviewStops(p) ==
    /\ upstream[p] # None
    /\ upstream' = [upstream EXCEPT ![p] = None]
    /\ UNCHANGED <<run, port, running, semaphore, pc, target, holds, gone, late, serving, answer>>

\* Its relay is removed later, or dies.
RelayDies(x) ==
    /\ x \in running
    /\ running' = running \ {x}
    /\ serving' = [r \in Request |-> IF serving[r] = x THEN None ELSE serving[r]]
    /\ UNCHANGED <<run, port, upstream, semaphore, pc, target, holds, gone, late, answer>>

-----------------------------------------------------------------------------
(* The gateway. *)

\* The upstream is looked up before the body is read.
Resolve(r) ==
    /\ pc[r] = "new"
    /\ target' = [target EXCEPT ![r] = upstream[PreviewOf[r]]]
    /\ Goto(r, IF upstream[PreviewOf[r]] = None THEN "done" ELSE "body")
    /\ UNCHANGED <<previews, semaphore, holds, gone, late, serving, answer>>

\* A path, method or body that is not allowed, or a client that leaves before
\* the body is complete.
Refuse(r) ==
    /\ pc[r] = "body"
    /\ Goto(r, "done")
    /\ UNCHANGED <<previews, semaphore, target, holds, gone, late, serving, answer>>

Locked(p) == semaphore[p] = 0

\* The body is complete: 429 or a permit, with no await between the two.
Admit(r) ==
    LET p == PreviewOf[r] IN
    /\ pc[r] = "body"
    /\ r \notin gone
    /\ ~Locked(p)
    /\ semaphore' = [semaphore EXCEPT ![p] = @ - 1]
    /\ holds' = holds \cup {r}
    /\ Goto(r, "send")
    /\ UNCHANGED <<previews, target, gone, late, serving, answer>>

TooMany(r) ==
    /\ pc[r] = "body"
    /\ r \notin gone
    /\ Locked(PreviewOf[r])
    /\ Goto(r, "busy")
    /\ UNCHANGED <<previews, semaphore, target, holds, gone, late, serving, answer>>

\* release().
Release(r) ==
    /\ holds' = holds \ {r}
    /\ semaphore' = [semaphore EXCEPT ![PreviewOf[r]] = IF r \in holds THEN @ + 1 ELSE @]

\* The request fails in the gateway, or its response is abandoned: 502.  The
\* relay learns that its connection has been closed in a step of its own.
Abandon_Keeps(r) ==
    /\ UNCHANGED <<semaphore, holds>>
    /\ Goto(r, "done")
Abandon(r) ==
    /\ Release(r)
    /\ Goto(r, "done")

\* No relay listens on the port any more, the transport times out or breaks.
Waiting(r) == pc[r] \in {"send", "wait"}
TransportRaises(r) ==
    /\ Waiting(r)
    /\ Abandon(r)
    /\ UNCHANGED <<previews, target, gone, late, serving, answer>>

\* StreamingResponse starts relay_body(), for a client that has left as well.
Streams(r) ==
    /\ Goto(r, "stream")
    /\ answer' = [answer EXCEPT ![r] = serving[r]]
    /\ UNCHANGED <<semaphore, holds>>

DeadlinePasses(r) ==
    /\ pc[r] \in {"stream", "unread"}
    /\ r \notin late
    /\ late' = late \cup {r}
    /\ UNCHANGED <<previews, semaphore, pc, target, holds, gone, serving, answer>>

\* A chunk that comes in time is sent on, and send() waits while the client does
\* not read.
SendChunk(r) ==
    /\ pc[r] = "stream"
    /\ r \notin late \cup gone
    /\ Goto(r, "unread")
    /\ UNCHANGED <<previews, semaphore, target, holds, gone, late, serving, answer>>

ClientReads(r) ==
    /\ pc[r] = "unread"
    /\ Goto(r, "stream")
    /\ UNCHANGED <<previews, semaphore, target, holds, gone, late, serving, answer>>

\* The body ends, breaks, stalls for longer than the transport waits, or its next
\* chunk is past a limit, or its client has left.
StreamEnds(r) ==
    /\ pc[r] = "stream"
    /\ Release(r)
    /\ Goto(r, "done")
    /\ UNCHANGED <<previews, target, gone, late, serving, answer>>

\* send() returns at once when its client has left.
ClientLeaves(r) ==
    /\ pc[r] \in {"body", "send", "wait", "stream", "unread"}
    /\ r \notin gone
    /\ gone' = gone \cup {r}
    /\ Goto(r, IF pc[r] = "unread" THEN "stream" ELSE pc[r])
    /\ UNCHANGED <<previews, semaphore, target, holds, late, serving, answer>>

-----------------------------------------------------------------------------
(* The relay. *)

\* authorised(): the token of the upstream the gateway resolved.
Authorised_ByPosition(x, r) == TRUE
Authorised(x, r) == target[r] = x

Busy(x) == Cardinality(InRelay(x)) >= MaxRelay

\* The request reaches the relay that has the port now.
AtRelay(r, x) ==
    /\ pc[r] = "send"
    /\ x \in running
    /\ port[x] = port[target[r]]

\* A denial carries the relay's status header: the gateway answers 502.
Deny(r, x) ==
    /\ AtRelay(r, x)
    /\ ~Authorised(x, r) \/ Busy(x)
    /\ Abandon(r)
    /\ UNCHANGED <<previews, target, gone, late, serving, answer>>

Serve(r, x) ==
    /\ AtRelay(r, x)
    /\ Authorised(x, r)
    /\ ~Busy(x)
    /\ serving' = [serving EXCEPT ![r] = x]
    /\ Goto(r, "wait")
    /\ UNCHANGED <<previews, semaphore, target, holds, gone, late, answer>>

\* The app answers: the gateway has the headers of its response.
AppAnswers(r) ==
    /\ pc[r] = "wait"
    /\ serving[r] # None
    /\ Streams(r)
    /\ UNCHANGED <<previews, target, gone, late, serving>>

\* The app's error or timeout, or a response the gateway does not relay.
AppRefused(r) ==
    /\ pc[r] = "wait"
    /\ serving[r] # None
    /\ Abandon(r)
    /\ UNCHANGED <<previews, target, gone, late, serving, answer>>

\* res.on("close", release): the response is complete, a limit or the timeout of
\* the upstream cuts it, or the gateway has closed the connection.
CloseSeen_OnEnd(r) == pc[r] = "stream"
CloseSeen(r) == pc[r] \in {"stream", "unread", "done"}
RelayReleases(r) ==
    /\ serving[r] # None
    /\ CloseSeen(r)
    /\ serving' = [serving EXCEPT ![r] = None]
    /\ UNCHANGED <<previews, semaphore, pc, target, holds, gone, late, answer>>
-----------------------------------------------------------------------------
Gateway(r) == TransportRaises(r) \/ AppAnswers(r) \/ AppRefused(r) \/ StreamEnds(r)
                \/ \E x \in Relay : Deny(r, x) \/ Serve(r, x)

Next ==
    \/ \E p \in Preview : \/ PreviewStops(p)
                          \/ \E x \in Relay, n \in Port : PreviewStarts(p, x, n)
    \/ \E x \in Relay : RelayDies(x)
    \/ \E r \in Request :
        \/ Resolve(r) \/ Refuse(r) \/ Admit(r) \/ TooMany(r) \/ Gateway(r)
        \/ DeadlinePasses(r) \/ SendChunk(r) \/ ClientReads(r) \/ ClientLeaves(r)
        \/ RelayReleases(r)

Spec == Init /\ [][Next]_vars

\* Every wait of the gateway for a relay and of a relay for its app has a timeout,
\* deadlines pass, and a relay sees that its connection was closed.  Nothing
\* limits how long a client takes to send its body, or to read the response.
Fairness ==
    \A r \in Request : /\ WF_vars(Gateway(r)) /\ WF_vars(DeadlinePasses(r))
                      /\ WF_vars(pc[r] = "done" /\ RelayReleases(r))
FairSpec == Spec /\ Fairness
-----------------------------------------------------------------------------
(* Properties. *)

TypeOK ==
    /\ run \in [Relay -> Preview \cup {None}]
    /\ port \in [Relay -> Port \cup {None}]
    /\ running \subseteq Relay
    /\ upstream \in [Preview -> Relay \cup {None}]
    /\ semaphore \in [Preview -> 0..MaxRequests]
    /\ pc \in [Request -> {"new", "body", "send", "wait", "stream", "unread", "busy", "done"}]
    /\ target \in [Request -> Relay \cup {None}]
    /\ holds \subseteq Request /\ gone \subseteq Request /\ late \subseteq Request
    /\ serving \in [Request -> Relay \cup {None}]
    /\ answer \in [Request -> Relay \cup {None}]

\* What a client is given comes from the app of the preview in its Host, and from
\* the run it was asked for, though previews stop, start and reuse ports while
\* the request is on its way: "the token is what protects it" (PREVIEW.md).
NeverAnothersApp ==
    \A r \in Request : answer[r] # None =>
        run[answer[r]] = PreviewOf[r] /\ answer[r] = target[r]

\* No permit is lost, or given back twice, at whatever await a client leaves: a
\* preview's permits are the free ones and those of its requests in progress.  A
\* client is told 429 only while max_concurrent_requests others are in progress.
PermitsAddUp ==
    \A p \in Preview :
        /\ Cardinality(InGateway(p)) <= MaxRequests
        /\ semaphore[p] + Cardinality(InGateway(p)) = MaxRequests
        /\ InGateway(p) = {r \in holds : PreviewOf[r] = p}

\* The relay counts no more requests than MAX_CONCURRENT, each of its own run.
RelayBounded ==
    \A x \in Relay : /\ Cardinality(InRelay(x)) <= MaxRelay
                     /\ \A r \in InRelay(x) : run[x] = PreviewOf[r]

\* The client is there and does not read what it was sent.
Unread(r) == pc[r] = "unread"

\* A request that has a permit ends and gives it back.
PermitReturned ==
    \A r \in Request : r \in holds ~> (pc[r] = "done" /\ r \notin holds) \/ []Unread(r)

\* The relay's count goes down again.
SlotReturned == \A r \in Request : serving[r] # None ~> serving[r] = None \/ []Unread(r)

\* Whoever dies, leaves or stalls, gateway and relay are done with a request in
\* the end -- unless its client stays for ever and reads no more, and then the
\* requests of others are.
EverythingEnds == PermitReturned /\ SlotReturned

\* "time to first byte / whole response | 30 s / 120 s | GATEWAY-ENFORCED"
\* (PREVIEW.md): a response that has begun ends.
WholeResponseEnds == \A r \in Request : pc[r] = "stream" ~> pc[r] = "done"
=============================================================================
