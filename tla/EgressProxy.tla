---------------------------- MODULE EgressProxy ----------------------------
(***************************************************************************)
(* sandbox/egress_proxy.js: the process an install sandbox reaches the     *)
(* package registry through.  One event loop serves connections that send  *)
(* a CONNECT, wait for a name lookup, then for the upstream, then carry    *)
(* bytes both ways, each stage with a limit of its own.                    *)
(*                                                                         *)
(* A header is the host and port it asks for: NoHost for every malformed   *)
(* target, method or name.  Bytes are counted in chunks.  An address is    *)
(* its text: the hextets before a "::" and after it, then what is dotted,  *)
(* which is all there is of an IPv4 address.                               *)
(***************************************************************************)
EXTENDS Naturals, FiniteSets, Sequences

CONSTANTS
    Conn,           \* the connections clients make
    Host, NoHost,   \* what a request may name
    AllowedHosts,   \* REDSTONE_EGRESS_ALLOW
    PortNo,         \* the ports a request may name
    AllowedPorts,   \* REDSTONE_EGRESS_PORTS
    Answer,         \* what a lookup may answer: sets of addresses
    MaxConnections, \* REDSTONE_EGRESS_MAX_CONNECTIONS
    MaxHeader,      \* MAX_HEADER_BYTES, in chunks
    MaxBytes,       \* REDSTONE_EGRESS_MAX_TUNNEL_BYTES, in chunks
    None

Octet == 0..255
IPv4 == [1..4 -> Octet]
Hextets == Seq({n \in Nat : n < 65536})
Address == [head : Hextets, gap : BOOLEAN, tail : Hextets, dotted : IPv4 \cup {<<>>}]

VARIABLES
    active,   \* the connections counted against MAX_CONNECTIONS
    client,   \* the socket of a connection: "half" once reply() has ended our side
    stage,    \* what the connection waits for
    received, \* the chunks of the header, then of the tunnel
    wanted,   \* the host and port of the CONNECT
    found,    \* what the lookup answered
    upstream, \* the socket of the tunnel
    peer,     \* the address it was connected to
    timers    \* the timers that are armed for a connection

vars == <<active, client, stage, received, wanted, found, upstream, peer, timers>>

Init ==
    /\ active = 0
    /\ client = [c \in Conn |-> "none"]
    /\ stage = [c \in Conn |-> "none"]
    /\ received = [c \in Conn |-> 0]
    /\ wanted = [c \in Conn |-> None]
    /\ found = [c \in Conn |-> None]
    /\ upstream = [c \in Conn |-> "none"]
    /\ peer = [c \in Conn |-> None]
    /\ timers = [c \in Conn |-> {}]

-----------------------------------------------------------------------------
(* The address classifier. *)

IPv4Deny == {
    <<<<0, 0, 0, 0>>, 8>>, <<<<10, 0, 0, 0>>, 8>>, <<<<100, 64, 0, 0>>, 10>>,
    <<<<127, 0, 0, 0>>, 8>>, <<<<169, 254, 0, 0>>, 16>>, <<<<172, 16, 0, 0>>, 12>>,
    <<<<192, 0, 0, 0>>, 24>>, <<<<192, 0, 2, 0>>, 24>>, <<<<192, 88, 99, 0>>, 24>>,
    <<<<192, 168, 0, 0>>, 16>>, <<<<198, 18, 0, 0>>, 15>>, <<<<198, 51, 100, 0>>, 24>>,
    <<<<203, 0, 113, 0>>, 24>>, <<<<224, 0, 0, 0>>, 4>>, <<<<240, 0, 0, 0>>, 4>>}

\* The bits of octet i a mask leaves out, and the address under the mask.
FreeBits_WholeOctets(bits, i) == IF bits >= 8 * i THEN 0 ELSE 8
FreeBits(bits, i) == IF bits >= 8 * i THEN 0 ELSE IF bits <= 8 * (i - 1) THEN 8 ELSE 8 * i - bits
Masked(ip, bits) == [i \in 1..4 |-> ip[i] \div 2 ^ FreeBits(bits, i)]

IsPublicIPv4(ip) == \A entry \in IPv4Deny : Masked(ip, entry[2]) # Masked(entry[1], entry[2])

\* expandIPv6(): zeros for the gap, two hextets for a dotted end.
Dotted(d) == IF d = <<>> THEN <<>> ELSE <<256 * d[1] + d[2], 256 * d[3] + d[4]>>

ExpandIPv6(a) ==
    LET last == a.tail \o Dotted(a.dotted)
        fill == IF a.gap THEN 8 - Len(a.head) - Len(last) ELSE 0
    IN  a.head \o [i \in 1..fill |-> 0] \o last

Mapped(h) == h[6] = 65535 /\ \A i \in 1..5 : h[i] = 0
Embedded(h) == <<h[7] \div 256, h[7] % 256, h[8] \div 256, h[8] % 256>>

\* isPublicIPv6(): 2000::/3 without 2001::/23, 2001:db8::/32 and 2002::/16; a
\* mapped IPv4 address is judged as one.
IsPublicIPv6(a) ==
    LET h == ExpandIPv6(a) IN
    /\ Len(h) = 8
    /\ IF Mapped(h) THEN IsPublicIPv4(Embedded(h))
       ELSE /\ h[1] \div 8192 = 1
            /\ ~(h[1] = 8193 /\ h[2] < 512)
            /\ ~(h[1] = 8193 /\ h[2] = 3512)
            /\ h[1] # 8194

Family(a) == IF a.head = <<>> /\ ~a.gap THEN 4 ELSE 6
IsPublicAddress(a) == IF Family(a) = 4 THEN IsPublicIPv4(a.dotted) ELSE IsPublicIPv6(a)

\* What dns.lookup() answers are addresses: four octets, or eight hextets.
WellFormed(a) ==
    IF Family(a) = 4 THEN a.dotted # <<>> /\ a.tail = <<>> ELSE Len(ExpandIPv6(a)) = 8

ASSUME EgressProxyAssumption ==
    /\ AllowedHosts \subseteq Host /\ AllowedHosts # {} /\ NoHost \notin Host
    /\ AllowedPorts \subseteq PortNo
    /\ \A addresses \in Answer : addresses \subseteq {a \in Address : WellFormed(a)}
    /\ {MaxConnections, MaxHeader, MaxBytes} \subseteq Nat \ {0}

-----------------------------------------------------------------------------
(* A client connects, sends its header, and leaves. *)

Full == active >= MaxConnections

\* handle(): beyond the limit a client is told 503 and not counted.
Accept(c) ==
    /\ client[c] = "none"
    /\ ~Full
    /\ active' = active + 1
    /\ client' = [client EXCEPT ![c] = "open"]
    /\ stage' = [stage EXCEPT ![c] = "header"]
    /\ timers' = [timers EXCEPT ![c] = {"header"}]
    /\ UNCHANGED <<received, wanted, found, upstream, peer>>

TurnAway(c) ==
    /\ client[c] = "none"
    /\ Full
    /\ client' = [client EXCEPT ![c] = "half"]
    /\ stage' = [stage EXCEPT ![c] = "away"]
    /\ UNCHANGED <<active, received, wanted, found, upstream, peer, timers>>

\* client.on("close"): the count goes down, and the tunnel's close() takes the
\* other socket and both timers with it.  The header timer stays armed.
Counted_All(c) == TRUE
Counted(c) == stage[c] # "away"
Close(c) ==
    /\ client' = [client EXCEPT ![c] = "closed"]
    /\ active' = IF Counted(c) THEN active - 1 ELSE active
    /\ upstream' = [upstream EXCEPT ![c] = IF @ = "none" THEN @ ELSE "closed"]
    /\ timers' = [timers EXCEPT ![c] = @ \ {"connect", "lifetime"}]

\* reply() ends our side and leaves the rest to the client.
Reply(c) ==
    /\ client' = [client EXCEPT ![c] = "half"]
    /\ stage' = [stage EXCEPT ![c] = "replied"]
    /\ UNCHANGED <<active, upstream, peer>>

ClientLeaves(c) ==
    /\ client[c] \in {"open", "half"}
    /\ Close(c)
    /\ UNCHANGED <<stage, received, wanted, found, peer>>

\* setTimeout(() => client.destroy(), HEADER_TIMEOUT_MS).
HeaderTimer(c) ==
    /\ "header" \in timers[c]
    /\ IF client[c] = "closed"
       THEN timers' = [timers EXCEPT ![c] = @ \ {"header"}] /\ UNCHANGED <<active, client, upstream>>
       ELSE /\ client' = [client EXCEPT ![c] = "closed"]
            /\ active' = active - 1
            /\ timers' = [timers EXCEPT ![c] = {}]
            /\ UNCHANGED upstream
    /\ UNCHANGED <<stage, received, wanted, found, peer>>

\* onData() without the end of the header.
HeaderChunk(c) ==
    /\ client[c] = "open" /\ stage[c] = "header"
    /\ received' = [received EXCEPT ![c] = @ + 1]
    /\ IF received'[c] > MaxHeader
       THEN Reply(c) /\ timers' = [timers EXCEPT ![c] = {}]
       ELSE UNCHANGED <<active, client, stage, upstream, peer, timers>>
    /\ UNCHANGED <<wanted, found>>

\* The host and port of the allowlist: exact matches.
Allowed(host, n) == host \in AllowedHosts /\ n \in AllowedPorts

\* The chunk that ends the header: a request the policy refuses, or the health
\* check, is answered at once; the others wait for their lookup, paused.
HeaderEnds(c, host, n) ==
    /\ client[c] = "open" /\ stage[c] = "header"
    /\ wanted' = [wanted EXCEPT ![c] = <<host, n>>]
    /\ received' = [received EXCEPT ![c] = 0]
    /\ timers' = [timers EXCEPT ![c] = {}]
    /\ IF Allowed(host, n)
       THEN stage' = [stage EXCEPT ![c] = "lookup"] /\ UNCHANGED <<active, client, upstream, peer>>
       ELSE Reply(c)
    /\ UNCHANGED found

-----------------------------------------------------------------------------
(* The callback of dns.lookup(), and tunnel(). *)

Alive_Unchecked(c) == TRUE
Alive(c) == client[c] # "closed"

\* The first IPv4 address of the answer, or its first.
Candidates(addresses) ==
    IF \E a \in addresses : Family(a) = 4 THEN {a \in addresses : Family(a) = 4} ELSE addresses

\* The upstream is connected to an address of the answer, once all of it is public.
LookupAnswers(c, addresses) ==
    /\ stage[c] = "lookup"
    /\ Alive(c)
    /\ found' = [found EXCEPT ![c] = addresses]
    /\ IF addresses # {} /\ \A a \in addresses : IsPublicAddress(a)
       THEN /\ \E a \in Candidates(addresses) : peer' = [peer EXCEPT ![c] = a]
            /\ upstream' = [upstream EXCEPT ![c] = "connecting"]
            /\ stage' = [stage EXCEPT ![c] = "connect"]
            /\ timers' = [timers EXCEPT ![c] = {"lifetime", "connect"}]
            /\ UNCHANGED <<active, client>>
       ELSE Reply(c) /\ UNCHANGED timers
    /\ UNCHANGED <<received, wanted>>

LookupTooLate(c) ==
    /\ stage[c] = "lookup"
    /\ ~Alive(c)
    /\ stage' = [stage EXCEPT ![c] = "dropped"]
    /\ UNCHANGED <<active, client, received, wanted, found, upstream, peer, timers>>

\* upstream.on("connect"): the bytes that came with the header are sent first.
Connected(c) ==
    /\ upstream[c] = "connecting"
    /\ upstream' = [upstream EXCEPT ![c] = "open"]
    /\ stage' = [stage EXCEPT ![c] = "tunnel"]
    /\ timers' = [timers EXCEPT ![c] = @ \ {"connect"}]
    /\ UNCHANGED <<active, client, received, wanted, found, peer>>

\* upstream.on("error") before and after it; CONNECT_TIMEOUT_MS; the idle timeout
\* of either socket; MAX_TUNNEL_MS: all of them end in close().
UpstreamFails(c) ==
    /\ upstream[c] \in {"connecting", "open"}
    /\ Close(c)
    /\ UNCHANGED <<stage, received, wanted, found, peer>>

TimerFires_ConnectOnly(c) == "connect" \in timers[c]
TimerFires(c) == timers[c] \cap {"connect", "lifetime"} # {}
TunnelTimer(c) ==
    /\ TimerFires(c)
    /\ IF client[c] = "closed"
       THEN /\ upstream' = [upstream EXCEPT ![c] = "closed"]
            /\ timers' = [timers EXCEPT ![c] = {}]
            /\ UNCHANGED <<active, client>>
       ELSE Close(c)
    /\ UNCHANGED <<stage, received, wanted, found, peer>>

\* count(): both directions together.
TunnelChunk(c) ==
    /\ upstream[c] = "open" /\ client[c] = "open"
    /\ received' = [received EXCEPT ![c] = @ + 1]
    /\ IF received'[c] > MaxBytes
       THEN Close(c)
       ELSE UNCHANGED <<active, client, upstream, timers>>
    /\ UNCHANGED <<stage, wanted, found, peer>>
-----------------------------------------------------------------------------
Timer(c) == HeaderTimer(c) \/ TunnelTimer(c)

Next == \E c \in Conn :
    \/ Accept(c) \/ TurnAway(c) \/ ClientLeaves(c) \/ Timer(c) \/ HeaderChunk(c)
    \/ \E host \in Host \cup {NoHost}, n \in PortNo : HeaderEnds(c, host, n)
    \/ \E addresses \in Answer : LookupAnswers(c, addresses)
    \/ LookupTooLate(c) \/ Connected(c) \/ UpstreamFails(c) \/ TunnelChunk(c)

Spec == Init /\ [][Next]_vars

\* Timers fire and lookups answer.  Clients and upstreams may do nothing.
Fairness == \A c \in Conn :
    /\ WF_vars(Timer(c))
    /\ WF_vars(LookupTooLate(c) \/ \E addresses \in Answer : LookupAnswers(c, addresses))

FairSpec == Spec /\ Fairness
-----------------------------------------------------------------------------
(* Properties. *)

TypeOK ==
    /\ active \in Nat
    /\ client \in [Conn -> {"none", "open", "half", "closed"}]
    /\ stage \in [Conn -> {"none", "away", "header", "lookup", "connect", "tunnel", "replied", "dropped"}]
    /\ received \in [Conn -> 0..(MaxHeader + MaxBytes + 1)]
    /\ wanted \in [Conn -> ((Host \cup {NoHost}) \X PortNo) \cup {None}]
    /\ found \in [Conn -> Answer \cup {None}]
    /\ upstream \in [Conn -> {"none", "connecting", "open", "closed"}]
    /\ \A c \in Conn : peer[c] = None \/ \E addresses \in Answer : peer[c] \in addresses
    /\ timers \in [Conn -> SUBSET {"header", "connect", "lifetime"}]

\* `active` counts the sockets that are open, whichever of its many ends a
\* connection has had: it never drifts, up or down, and never passes the limit.
CountIsExact ==
    /\ active = Cardinality({c \in Conn : client[c] \in {"open", "half"} /\ stage[c] # "away"})
    /\ active <= MaxConnections

\* An upstream is an allowed host on an allowed port, at an address of the very
\* answer that was checked, and nothing of that answer is in a private, local,
\* reserved or multicast range (egress_proxy.js, "Policy").
ReservedIPv4(ip) ==
    \/ ip[1] \in {0, 10, 127} \cup 224..255
    \/ ip[1] = 100 /\ ip[2] \in 64..127
    \/ ip[1] = 169 /\ ip[2] = 254
    \/ ip[1] = 172 /\ ip[2] \in 16..31
    \/ ip[1] = 192 /\ ip[2] = 168
    \/ ip[1] = 192 /\ ip[2] = 0 /\ ip[3] \in {0, 2}
    \/ ip[1] = 192 /\ ip[2] = 88 /\ ip[3] = 99
    \/ ip[1] = 198 /\ ip[2] \in 18..19
    \/ ip[1] = 198 /\ ip[2] = 51 /\ ip[3] = 100
    \/ ip[1] = 203 /\ ip[2] = 0 /\ ip[3] = 113

\* Hextet i of an address, said without writing it out.
Hextet(a, i) ==
    LET back == 9 - i
        d == Dotted(a.dotted)
    IN  IF i <= Len(a.head) THEN a.head[i]
        ELSE IF back <= Len(d) THEN d[Len(d) + 1 - back]
        ELSE IF back <= Len(d) + Len(a.tail) THEN a.tail[Len(d) + Len(a.tail) + 1 - back]
        ELSE 0

ReservedIPv6(a) ==
    LET h == [i \in 1..8 |-> Hextet(a, i)] IN
    IF h[6] = 65535 /\ {h[i] : i \in 1..5} = {0}
    THEN ReservedIPv4(<<h[7] \div 256, h[7] % 256, h[8] \div 256, h[8] % 256>>)
    ELSE \/ h[1] < 8192 \/ h[1] > 16383
         \/ h[1] = 8193 /\ h[2] \in (0..511) \cup {3512}
         \/ h[1] = 8194

Reserved(a) == IF Family(a) = 4 THEN ReservedIPv4(a.dotted) ELSE ReservedIPv6(a)

OnlyThePolicy ==
    \A c \in Conn : upstream[c] # "none" =>
        /\ wanted[c] \in AllowedHosts \X AllowedPorts
        /\ peer[c] \in found[c]
        /\ \A a \in found[c] : ~Reserved(a)

\* The classifier is no stricter than the ranges either: a registry at a public
\* address beside one of them can be reached.
PublicIsReachable ==
    \A c \in Conn : stage[c] = "replied" /\ found[c] # None /\ found[c] # {} =>
        \E a \in found[c] : Reserved(a)

\* The policy is the one egress_proxy.js states, no looser and no stricter.
PolicyIsExact == OnlyThePolicy /\ PublicIsReachable

\* No upstream is connected for a client that has gone: nobody would close it.
NoOrphanUpstream ==
    \A c \in Conn : upstream[c] \in {"connecting", "open"} => client[c] # "closed"

\* Whatever the client and the upstream do, a header ends and a tunnel ends.
StagesEnd ==
    \A c \in Conn : stage[c] \in {"header", "lookup", "connect", "tunnel"}
        ~> client[c] \in {"half", "closed"}
=============================================================================
