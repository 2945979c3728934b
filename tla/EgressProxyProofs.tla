-------------------------- MODULE EgressProxyProofs --------------------------
(***************************************************************************)
(* Proofs about EgressProxy, for any number of connections and any limits. *)
(* The counter is a plain integer that five different ends of a connection *)
(* lower: the argument is that each of them finds the connection among the *)
(* open ones, which takes knowing what each stage says of the sockets and  *)
(* of the timers.                                                          *)
(***************************************************************************)
EXTENDS EgressProxy, Integers, FiniteSetTheorems, TLAPS

OpenSet == {c \in Conn : client[c] \in {"open", "half"} /\ stage[c] # "away"}

Count ==
    /\ IsFiniteSet(OpenSet)
    /\ active = Cardinality(OpenSet)
    /\ active <= MaxConnections

\* What the stage of a connection says of its sockets, its timers and its bytes.
Sockets(c) ==
    /\ client[c] = "none" => stage[c] = "none"
    /\ stage[c] = "none" => client[c] = "none" /\ upstream[c] = "none" /\ timers[c] = {}
    /\ stage[c] = "away" => client[c] \in {"half", "closed"} /\ upstream[c] = "none" /\ timers[c] = {}
    /\ stage[c] \in {"header", "lookup"} => upstream[c] = "none"
    /\ stage[c] \in {"connect", "tunnel"} => upstream[c] # "none"
    /\ stage[c] \in {"header", "lookup", "connect", "tunnel"} => client[c] \in {"open", "closed"}
    /\ upstream[c] \in {"connecting", "open"} =>
           stage[c] \in {"connect", "tunnel"} /\ client[c] = "open"

Armed(c) ==
    /\ "header" \in timers[c] => stage[c] = "header"
    /\ TimerFires(c) => stage[c] \in {"connect", "tunnel"}

Bytes(c) ==
    /\ stage[c] = "none" => received[c] = 0
    /\ stage[c] = "header" /\ client[c] = "open" => received[c] <= MaxHeader
    /\ stage[c] \in {"lookup", "connect", "tunnel"} /\ client[c] = "open" =>
           received[c] <= MaxBytes

\* What the policy has let through, as the code judges it.
Checked(c) ==
    /\ stage[c] \in {"none", "header", "lookup"} => found[c] = None
    /\ stage[c] = "replied" /\ found[c] # None /\ found[c] # {} =>
           \E a \in found[c] : ~IsPublicAddress(a)
    /\ upstream[c] # "none" => found[c] \in Answer
    /\ stage[c] = "lookup" => wanted[c] \in AllowedHosts \X AllowedPorts
    /\ upstream[c] # "none" =>
           /\ wanted[c] \in AllowedHosts \X AllowedPorts
           /\ peer[c] \in found[c]
           /\ \A a \in found[c] : IsPublicAddress(a)

IInv ==
    /\ TypeOK
    /\ peer = [c \in Conn |-> peer[c]]
    /\ Count
    /\ \A c \in Conn : Sockets(c) /\ Armed(c) /\ Bytes(c) /\ Checked(c)
-----------------------------------------------------------------------------
(* The counter.                                                            *)

\* A connection that opens is one more, one that ends is one less.
LEMMA Opens ==
    ASSUME TypeOK, Count, NEW c, c \notin OpenSet, OpenSet' = OpenSet \cup {c},
           active < MaxConnections, active' = active + 1
    PROVE  Count' /\ active' \in Nat
<1>1. IsFiniteSet(OpenSet') /\ Cardinality(OpenSet') = Cardinality(OpenSet) + 1
  BY FS_AddElement DEF Count
<1> QED BY <1>1, EgressProxyAssumption DEF Count, TypeOK

LEMMA Ends ==
    ASSUME TypeOK, Count, NEW c, c \in OpenSet, OpenSet' = OpenSet \ {c},
           active' = active - 1
    PROVE  Count' /\ active' \in Nat
<1>1. IsFiniteSet(OpenSet') /\ Cardinality(OpenSet') = Cardinality(OpenSet) - 1
  BY FS_RemoveElement DEF Count
<1>2. Cardinality(OpenSet') \in Nat
  BY <1>1, FS_CardinalityType
<1> QED BY <1>1, <1>2, EgressProxyAssumption DEF Count, TypeOK

-----------------------------------------------------------------------------
(* The steps of a connection.                                              *)

LEMMA AcceptStep ==
    ASSUME IInv, NEW c \in Conn, Accept(c)
    PROVE  IInv'
<1>1. Count' /\ active' \in Nat
  <2>1. OpenSet' = OpenSet \cup {c} /\ c \notin OpenSet
    BY DEF OpenSet, IInv, TypeOK, Sockets, Armed, TimerFires, Accept, Full
  <2>2. active < MaxConnections /\ active' = active + 1
    BY EgressProxyAssumption DEF IInv, TypeOK, Accept, Full
  <2> QED BY <2>1, <2>2, Opens DEF IInv
<1>2. TypeOK'
  BY <1>1, EgressProxyAssumption DEF IInv, TypeOK, Bytes, Accept, Full
<1>3. \A d \in Conn : (Sockets(d) /\ Armed(d))'
  BY DEF IInv, TypeOK, Sockets, Armed, TimerFires, Accept, Full
<1>4. \A d \in Conn : Bytes(d)'
  BY EgressProxyAssumption DEF IInv, TypeOK, Sockets, Bytes, Accept, Full
<1>5. peer' = [d \in Conn |-> peer'[d]]
  BY DEF IInv, Accept
<1>6. \A d \in Conn : Checked(d)'
  BY DEF IInv, TypeOK, Sockets, Checked, Accept, Full
<1> QED BY <1>1, <1>2, <1>3, <1>4, <1>5, <1>6 DEF IInv

LEMMA TurnAwayStep ==
    ASSUME IInv, NEW c \in Conn, TurnAway(c)
    PROVE  IInv'
<1>1. Count' /\ active' \in Nat
  <2>1. OpenSet' = OpenSet /\ active' = active
    BY DEF OpenSet, IInv, TypeOK, Sockets, Armed, TimerFires, TurnAway
  <2> QED BY <2>1 DEF IInv, Count, TypeOK
<1>2. TypeOK'
  BY <1>1, EgressProxyAssumption DEF IInv, TypeOK, Bytes, TurnAway
<1>3. \A d \in Conn : (Sockets(d) /\ Armed(d))'
  BY DEF IInv, TypeOK, Sockets, Armed, TimerFires, TurnAway
<1>4. \A d \in Conn : Bytes(d)'
  BY EgressProxyAssumption DEF IInv, TypeOK, Sockets, Bytes, TurnAway
<1>5. peer' = [d \in Conn |-> peer'[d]]
  BY DEF IInv, TurnAway
<1>6. \A d \in Conn : Checked(d)'
  BY DEF IInv, TypeOK, Sockets, Checked, TurnAway
<1> QED BY <1>1, <1>2, <1>3, <1>4, <1>5, <1>6 DEF IInv

LEMMA ClientLeavesStep ==
    ASSUME IInv, NEW c \in Conn, ClientLeaves(c)
    PROVE  IInv'
<1>1. Count' /\ active' \in Nat
  <2>1. \A d \in Conn : d \in OpenSet' <=> d \in OpenSet /\ d # c
    BY DEF OpenSet, IInv, TypeOK, ClientLeaves, Close
  <2>2. OpenSet' = OpenSet \ {c}
    BY <2>1 DEF OpenSet
  <2>3. CASE Counted(c)
    <3>1. c \in OpenSet /\ active' = active - 1
      BY <2>3 DEF OpenSet, Counted, ClientLeaves, Close
    <3> QED BY <2>2, <3>1, Ends DEF IInv
  <2>4. CASE ~Counted(c)
    <3>1. c \notin OpenSet /\ active' = active
      BY <2>4 DEF OpenSet, Counted, ClientLeaves, Close
    <3>2. OpenSet' = OpenSet
      BY <2>2, <3>1
    <3> QED BY <3>1, <3>2 DEF IInv, Count, TypeOK
  <2> QED BY <2>3, <2>4
<1>2. TypeOK'
  BY <1>1, EgressProxyAssumption DEF IInv, TypeOK, Bytes, ClientLeaves, Close, Counted
<1>3. \A d \in Conn : (Sockets(d) /\ Armed(d))'
  BY DEF IInv, TypeOK, Sockets, Armed, TimerFires, ClientLeaves, Close, Counted
<1>4. \A d \in Conn : Bytes(d)'
  BY EgressProxyAssumption DEF IInv, TypeOK, Sockets, Bytes, ClientLeaves, Close, Counted
<1>5. peer' = [d \in Conn |-> peer'[d]]
  BY DEF IInv, ClientLeaves
<1>6. \A d \in Conn : Checked(d)'
  BY DEF IInv, TypeOK, Sockets, Checked, ClientLeaves, Close, Counted
<1> QED BY <1>1, <1>2, <1>3, <1>4, <1>5, <1>6 DEF IInv

LEMMA HeaderTimerStep ==
    ASSUME IInv, NEW c \in Conn, HeaderTimer(c)
    PROVE  IInv'
<1>1. Count' /\ active' \in Nat
  <2>1. \/ OpenSet' = OpenSet /\ active' = active
        \/ c \in OpenSet /\ OpenSet' = OpenSet \ {c} /\ active' = active - 1
    BY DEF OpenSet, IInv, TypeOK, Sockets, Armed, TimerFires, HeaderTimer
  <2> QED BY <2>1, Ends DEF IInv, Count, TypeOK
<1>2. TypeOK'
  BY <1>1, EgressProxyAssumption DEF IInv, TypeOK, Bytes, HeaderTimer
<1>3. \A d \in Conn : (Sockets(d) /\ Armed(d))'
  BY DEF IInv, TypeOK, Sockets, Armed, TimerFires, HeaderTimer
<1>4. \A d \in Conn : Bytes(d)'
  BY EgressProxyAssumption DEF IInv, TypeOK, Sockets, Bytes, HeaderTimer
<1>5. peer' = [d \in Conn |-> peer'[d]]
  BY DEF IInv, HeaderTimer
<1>6. \A d \in Conn : Checked(d)'
  BY DEF IInv, TypeOK, Sockets, Checked, HeaderTimer
<1> QED BY <1>1, <1>2, <1>3, <1>4, <1>5, <1>6 DEF IInv

LEMMA HeaderChunkStep ==
    ASSUME IInv, NEW c \in Conn, HeaderChunk(c)
    PROVE  IInv'
<1>1. Count' /\ active' \in Nat
  <2>1. OpenSet' = OpenSet /\ active' = active
    BY DEF OpenSet, IInv, TypeOK, Sockets, Armed, TimerFires, HeaderChunk, Reply
  <2> QED BY <2>1 DEF IInv, Count, TypeOK
<1>2. TypeOK'
  BY <1>1, EgressProxyAssumption DEF IInv, TypeOK, Bytes, HeaderChunk, Reply
<1>3. \A d \in Conn : (Sockets(d) /\ Armed(d))'
  BY DEF IInv, TypeOK, Sockets, Armed, TimerFires, HeaderChunk, Reply
<1>4. \A d \in Conn : Bytes(d)'
  BY EgressProxyAssumption DEF IInv, TypeOK, Sockets, Bytes, HeaderChunk, Reply
<1>5. peer' = [d \in Conn |-> peer'[d]]
  BY DEF IInv, HeaderChunk, Reply
<1>6. \A d \in Conn : Checked(d)'
  BY DEF IInv, TypeOK, Sockets, Checked, HeaderChunk, Reply
<1> QED BY <1>1, <1>2, <1>3, <1>4, <1>5, <1>6 DEF IInv

LEMMA HeaderEndsStep ==
    ASSUME IInv, NEW c \in Conn, NEW host \in Host \cup {NoHost}, NEW n \in PortNo, HeaderEnds(c, host, n)
    PROVE  IInv'
<1>1. Count' /\ active' \in Nat
  <2>1. OpenSet' = OpenSet /\ active' = active
    BY DEF OpenSet, IInv, TypeOK, Sockets, Armed, TimerFires, HeaderEnds, Reply
  <2> QED BY <2>1 DEF IInv, Count, TypeOK
<1>2. TypeOK'
  BY <1>1, EgressProxyAssumption DEF IInv, TypeOK, Bytes, HeaderEnds, Reply
<1>3. \A d \in Conn : (Sockets(d) /\ Armed(d))'
  BY DEF IInv, TypeOK, Sockets, Armed, TimerFires, HeaderEnds, Reply
<1>4. \A d \in Conn : Bytes(d)'
  BY EgressProxyAssumption DEF IInv, TypeOK, Sockets, Bytes, HeaderEnds, Reply
<1>5. peer' = [d \in Conn |-> peer'[d]]
  BY DEF IInv, HeaderEnds, Reply
<1>6. \A d \in Conn : Checked(d)'
  BY DEF IInv, TypeOK, Sockets, Checked, HeaderEnds, Allowed, Reply
<1> QED BY <1>1, <1>2, <1>3, <1>4, <1>5, <1>6 DEF IInv

LEMMA LookupAnswersStep ==
    ASSUME IInv, NEW c \in Conn, NEW addresses \in Answer, LookupAnswers(c, addresses)
    PROVE  IInv'
<1>1. Count' /\ active' \in Nat
  <2>1. OpenSet' = OpenSet /\ active' = active
    BY DEF OpenSet, IInv, TypeOK, Sockets, Armed, TimerFires, LookupAnswers, Reply, Alive
  <2> QED BY <2>1 DEF IInv, Count, TypeOK
<1>2. TypeOK'
  <2>1. peer' = peer \/ \E a \in addresses : peer' = [peer EXCEPT ![c] = a]
    BY DEF LookupAnswers, Reply, Candidates
  <2>2. \A d \in Conn : peer'[d] = None \/ \E answer \in Answer : peer'[d] \in answer
    BY <2>1 DEF IInv, TypeOK
  <2>3. stage' \in [Conn -> {"none", "away", "header", "lookup", "connect", "tunnel", "replied", "dropped"}]
    BY DEF IInv, TypeOK, LookupAnswers, Reply
  <2>4. client' \in [Conn -> {"none", "open", "half", "closed"}]
    BY DEF IInv, TypeOK, LookupAnswers, Reply
  <2>5. upstream' \in [Conn -> {"none", "connecting", "open", "closed"}]
    BY DEF IInv, TypeOK, LookupAnswers, Reply
  <2>6. timers' \in [Conn -> SUBSET {"header", "connect", "lifetime"}]
    BY DEF IInv, TypeOK, LookupAnswers, Reply
  <2> QED BY <1>1, <2>2, <2>3, <2>4, <2>5, <2>6 DEF IInv, TypeOK, LookupAnswers
<1>3. \A d \in Conn : (Sockets(d) /\ Armed(d))'
  BY DEF IInv, TypeOK, Sockets, Armed, TimerFires, LookupAnswers, Reply, Alive
<1>4. \A d \in Conn : Bytes(d)'
  BY EgressProxyAssumption DEF IInv, TypeOK, Sockets, Bytes, LookupAnswers, Reply, Alive
<1>5. peer' = [d \in Conn |-> peer'[d]]
  BY DEF IInv, LookupAnswers, Reply
<1>6. \A d \in Conn : Checked(d)'
  <2>1. ASSUME NEW d \in Conn, d # c PROVE Checked(d)'
    BY <2>1 DEF IInv, TypeOK, Checked, LookupAnswers, Reply
  <2>2. CASE addresses # {} /\ \A a \in addresses : IsPublicAddress(a)
    <3>1. peer'[c] \in addresses /\ found'[c] = addresses /\ wanted'[c] = wanted[c]
      BY <2>2 DEF IInv, TypeOK, LookupAnswers, Candidates
    <3>2. stage'[c] = "connect" /\ stage[c] = "lookup"
      BY <2>2 DEF IInv, TypeOK, LookupAnswers
    <3>3. Checked(c)'
      BY <2>2, <3>1, <3>2 DEF IInv, Checked
    <3> QED BY <2>1, <3>3
  <2>3. CASE ~(addresses # {} /\ \A a \in addresses : IsPublicAddress(a))
    <3>1. Checked(c)'
      BY <2>3 DEF IInv, TypeOK, Sockets, Checked, LookupAnswers, Reply
    <3> QED BY <2>1, <3>1
  <2> QED BY <2>2, <2>3
<1> QED BY <1>1, <1>2, <1>3, <1>4, <1>5, <1>6 DEF IInv

LEMMA LookupTooLateStep ==
    ASSUME IInv, NEW c \in Conn, LookupTooLate(c)
    PROVE  IInv'
<1>1. Count' /\ active' \in Nat
  <2>1. OpenSet' = OpenSet /\ active' = active
    BY DEF OpenSet, IInv, TypeOK, Sockets, Armed, TimerFires, LookupTooLate, Alive
  <2> QED BY <2>1 DEF IInv, Count, TypeOK
<1>2. TypeOK'
  BY <1>1, EgressProxyAssumption DEF IInv, TypeOK, Bytes, LookupTooLate, Alive
<1>3. \A d \in Conn : (Sockets(d) /\ Armed(d))'
  BY DEF IInv, TypeOK, Sockets, Armed, TimerFires, LookupTooLate, Alive
<1>4. \A d \in Conn : Bytes(d)'
  BY EgressProxyAssumption DEF IInv, TypeOK, Sockets, Bytes, LookupTooLate, Alive
<1>5. peer' = [d \in Conn |-> peer'[d]]
  BY DEF IInv, LookupTooLate
<1>6. \A d \in Conn : Checked(d)'
  BY DEF IInv, TypeOK, Sockets, Checked, LookupTooLate, Alive
<1> QED BY <1>1, <1>2, <1>3, <1>4, <1>5, <1>6 DEF IInv

LEMMA ConnectedStep ==
    ASSUME IInv, NEW c \in Conn, Connected(c)
    PROVE  IInv'
<1>1. Count' /\ active' \in Nat
  <2>1. OpenSet' = OpenSet /\ active' = active
    BY DEF OpenSet, IInv, TypeOK, Sockets, Armed, TimerFires, Connected
  <2> QED BY <2>1 DEF IInv, Count, TypeOK
<1>2. TypeOK'
  BY <1>1, EgressProxyAssumption DEF IInv, TypeOK, Bytes, Connected
<1>3. \A d \in Conn : (Sockets(d) /\ Armed(d))'
  BY DEF IInv, TypeOK, Sockets, Armed, TimerFires, Connected
<1>4. \A d \in Conn : Bytes(d)'
  BY EgressProxyAssumption DEF IInv, TypeOK, Sockets, Bytes, Connected
<1>5. peer' = [d \in Conn |-> peer'[d]]
  BY DEF IInv, Connected
<1>6. \A d \in Conn : Checked(d)'
  BY DEF IInv, TypeOK, Sockets, Checked, Connected
<1> QED BY <1>1, <1>2, <1>3, <1>4, <1>5, <1>6 DEF IInv

LEMMA UpstreamFailsStep ==
    ASSUME IInv, NEW c \in Conn, UpstreamFails(c)
    PROVE  IInv'
<1>1. Count' /\ active' \in Nat
  <2>1. c \in OpenSet
    BY DEF OpenSet, IInv, TypeOK, Sockets, Armed, TimerFires, UpstreamFails
  <2>2. OpenSet' = OpenSet \ {c}
    BY DEF OpenSet, IInv, TypeOK, Sockets, Armed, TimerFires, UpstreamFails, Close, Counted
  <2>3. active' = active - 1
    BY <2>1 DEF OpenSet, UpstreamFails, Close, Counted
  <2> QED BY <2>1, <2>2, <2>3, Ends DEF IInv
<1>2. TypeOK'
  BY <1>1, EgressProxyAssumption DEF IInv, TypeOK, Bytes, UpstreamFails, Close, Counted
<1>3. \A d \in Conn : (Sockets(d) /\ Armed(d))'
  BY DEF IInv, TypeOK, Sockets, Armed, TimerFires, UpstreamFails, Close, Counted
<1>4. \A d \in Conn : Bytes(d)'
  BY EgressProxyAssumption DEF IInv, TypeOK, Sockets, Bytes, UpstreamFails, Close, Counted
<1>5. peer' = [d \in Conn |-> peer'[d]]
  BY DEF IInv, UpstreamFails
<1>6. \A d \in Conn : Checked(d)'
  BY DEF IInv, TypeOK, Sockets, Checked, UpstreamFails, Close, Counted
<1> QED BY <1>1, <1>2, <1>3, <1>4, <1>5, <1>6 DEF IInv

LEMMA TunnelTimerStep ==
    ASSUME IInv, NEW c \in Conn, TunnelTimer(c)
    PROVE  IInv'
<1>1. Count' /\ active' \in Nat
  <2>1. \/ OpenSet' = OpenSet /\ active' = active
        \/ c \in OpenSet /\ OpenSet' = OpenSet \ {c} /\ active' = active - 1
    BY DEF OpenSet, IInv, TypeOK, Sockets, Armed, TimerFires, TunnelTimer, Close, Counted
  <2> QED BY <2>1, Ends DEF IInv, Count, TypeOK
<1>2. TypeOK'
  BY <1>1, EgressProxyAssumption DEF IInv, TypeOK, Bytes, TunnelTimer, Close, Counted
<1>3. \A d \in Conn : (Sockets(d) /\ Armed(d))'
  BY DEF IInv, TypeOK, Sockets, Armed, TimerFires, TunnelTimer, Close, Counted
<1>4. \A d \in Conn : Bytes(d)'
  BY EgressProxyAssumption DEF IInv, TypeOK, Sockets, Bytes, TunnelTimer, Close, Counted
<1>5. peer' = [d \in Conn |-> peer'[d]]
  BY DEF IInv, TunnelTimer
<1>6. \A d \in Conn : Checked(d)'
  <2>1. stage' = stage /\ wanted' = wanted /\ found' = found /\ peer' = peer
    BY DEF TunnelTimer
  <2>2. \A d \in Conn : upstream'[d] # "none" => d = c \/ upstream[d] # "none"
    BY DEF IInv, TypeOK, TunnelTimer, Close
  <2>3. upstream[c] # "none"
    BY DEF IInv, TypeOK, Sockets, Armed, TunnelTimer
  <2> QED BY <2>1, <2>2, <2>3 DEF IInv, Checked
<1> QED BY <1>1, <1>2, <1>3, <1>4, <1>5, <1>6 DEF IInv

LEMMA TunnelChunkStep ==
    ASSUME IInv, NEW c \in Conn, TunnelChunk(c)
    PROVE  IInv'
<1>1. Count' /\ active' \in Nat
  <2>1. \/ OpenSet' = OpenSet /\ active' = active
        \/ c \in OpenSet /\ OpenSet' = OpenSet \ {c} /\ active' = active - 1
    BY DEF OpenSet, IInv, TypeOK, Sockets, Armed, TimerFires, TunnelChunk, Close, Counted
  <2> QED BY <2>1, Ends DEF IInv, Count, TypeOK
<1>2. TypeOK'
  BY <1>1, EgressProxyAssumption DEF IInv, TypeOK, Sockets, Bytes, TunnelChunk, Close, Counted
<1>3. \A d \in Conn : (Sockets(d) /\ Armed(d))'
  BY DEF IInv, TypeOK, Sockets, Armed, TimerFires, TunnelChunk, Close, Counted
<1>4. \A d \in Conn : Bytes(d)'
  BY EgressProxyAssumption DEF IInv, TypeOK, Sockets, Bytes, TunnelChunk, Close, Counted
<1>5. peer' = [d \in Conn |-> peer'[d]]
  BY DEF IInv, TunnelChunk
<1>6. \A d \in Conn : Checked(d)'
  BY DEF IInv, TypeOK, Sockets, Checked, TunnelChunk, Close, Counted
<1> QED BY <1>1, <1>2, <1>3, <1>4, <1>5, <1>6 DEF IInv

LEMMA InitIInv == Init => IInv
<1> SUFFICES ASSUME Init PROVE IInv
  OBVIOUS
<1>1. OpenSet = {}
  BY DEF Init, OpenSet
<1>2. Count
  BY <1>1, FS_EmptySet, EgressProxyAssumption DEF Init, Count
<1>3. TypeOK
  BY EgressProxyAssumption DEF Init, TypeOK
<1>4. \A c \in Conn : Sockets(c) /\ Armed(c) /\ Bytes(c) /\ Checked(c)
  BY DEF Init, Sockets, Armed, Bytes, Checked, TimerFires
<1>5. peer = [c \in Conn |-> peer[c]]
  BY DEF Init
<1> QED BY <1>2, <1>3, <1>4, <1>5 DEF IInv

LEMMA NextIInv == IInv /\ [Next]_vars => IInv'
<1> SUFFICES ASSUME IInv, [Next]_vars PROVE IInv'
  OBVIOUS
<1>1. CASE UNCHANGED vars
  BY <1>1 DEF IInv, TypeOK, Count, OpenSet, Sockets, Armed, TimerFires, Bytes, Checked, vars
<1>2. CASE Next
  <2>1. PICK c \in Conn :
            \/ Accept(c) \/ TurnAway(c) \/ ClientLeaves(c) \/ Timer(c) \/ HeaderChunk(c)
            \/ \E host \in Host \cup {NoHost}, n \in PortNo : HeaderEnds(c, host, n)
            \/ \E addresses \in Answer : LookupAnswers(c, addresses)
            \/ LookupTooLate(c) \/ Connected(c) \/ UpstreamFails(c) \/ TunnelChunk(c)
    BY <1>2 DEF Next
  <2> QED
    BY <2>1, AcceptStep, TurnAwayStep, ClientLeavesStep, HeaderTimerStep, HeaderChunkStep,
       HeaderEndsStep, LookupAnswersStep, LookupTooLateStep, ConnectedStep,
       UpstreamFailsStep, TunnelTimerStep, TunnelChunkStep DEF Timer
<1> QED BY <1>1, <1>2

LEMMA Invariance == Spec => []IInv
BY InitIInv, NextIInv, PTL DEF Spec

-----------------------------------------------------------------------------
(* The classifier.  The provers take a literal range apart, so hextets are *)
(* told by their bounds.                                                   *)

\* The size of k bits, and the hextets.
Power(k) == 2 ^ k
Word == {n \in Nat : n < 65536}

\* Two addresses agree under a mask when they do octet by octet.
LEMMA MaskIs ==
    ASSUME NEW ip, NEW net, NEW bits
    PROVE  Masked(ip, bits) = Masked(net, bits) <=>
             /\ ip[1] \div Power(FreeBits(bits, 1)) = net[1] \div Power(FreeBits(bits, 1))
             /\ ip[2] \div Power(FreeBits(bits, 2)) = net[2] \div Power(FreeBits(bits, 2))
             /\ ip[3] \div Power(FreeBits(bits, 3)) = net[3] \div Power(FreeBits(bits, 3))
             /\ ip[4] \div Power(FreeBits(bits, 4)) = net[4] \div Power(FreeBits(bits, 4))
<1>1. Masked(ip, bits) = Masked(net, bits) <=>
        \A i \in 1..4 : ip[i] \div Power(FreeBits(bits, i)) = net[i] \div Power(FreeBits(bits, i))
  BY DEF Masked, Power
<1>2. \A i \in 1..4 : i = 1 \/ i = 2 \/ i = 3 \/ i = 4
  OBVIOUS
<1> QED BY <1>1, <1>2

LEMMA Powers == Power(0) = 1 /\ Power(1) = 2 /\ Power(4) = 16 /\ Power(6) = 64 /\ Power(8) = 256
BY DEF Power

LEMMA Octets == \A n \in 0..255 : n \in Nat /\ n < 256
OBVIOUS

LEMMA Masks ==
    ASSUME NEW ip \in IPv4, NEW a \in Octet, NEW b \in Octet, NEW c \in Octet, NEW d \in Octet
    PROVE  LET Agree(bits) == Masked(ip, bits) = Masked(<<a, b, c, d>>, bits) IN
           /\ Agree(4) <=> ip[1] \div 16 = a \div 16
           /\ Agree(8) <=> ip[1] = a
           /\ Agree(10) <=> ip[1] = a /\ ip[2] \div 64 = b \div 64
           /\ Agree(12) <=> ip[1] = a /\ ip[2] \div 16 = b \div 16
           /\ Agree(15) <=> ip[1] = a /\ ip[2] \div 2 = b \div 2
           /\ Agree(16) <=> ip[1] = a /\ ip[2] = b
           /\ Agree(24) <=> ip[1] = a /\ ip[2] = b /\ ip[3] = c
<1> DEFINE net == <<a, b, c, d>>
<1>1. /\ net[1] = a /\ net[2] = b /\ net[3] = c /\ net[4] = d
      /\ \A i \in 1..4 : ip[i] \in Nat /\ ip[i] < 256
      /\ a \in Nat /\ a < 256 /\ b \in Nat /\ b < 256
      /\ c \in Nat /\ c < 256 /\ d \in Nat /\ d < 256
  BY Octets DEF IPv4, Octet
<1>2. \A x \in Nat : x < 256 => x \div 1 = x /\ x \div 256 = 0
  OBVIOUS
<1> HIDE DEF net
<1>4. Masked(ip, 4) = Masked(net, 4) <=> ip[1] \div 16 = a \div 16
  <2>1. FreeBits(4, 1) = 4 /\ FreeBits(4, 2) = 8 /\ FreeBits(4, 3) = 8 /\ FreeBits(4, 4) = 8
    BY DEF FreeBits
  <2> QED BY <1>1, <1>2, <2>1, MaskIs, Powers
<1>8. Masked(ip, 8) = Masked(net, 8) <=> ip[1] = a
  <2>1. FreeBits(8, 1) = 0 /\ FreeBits(8, 2) = 8 /\ FreeBits(8, 3) = 8 /\ FreeBits(8, 4) = 8
    BY DEF FreeBits
  <2> QED BY <1>1, <1>2, <2>1, MaskIs, Powers
<1>10. Masked(ip, 10) = Masked(net, 10) <=> ip[1] = a /\ ip[2] \div 64 = b \div 64
  <2>1. FreeBits(10, 1) = 0 /\ FreeBits(10, 2) = 6 /\ FreeBits(10, 3) = 8 /\ FreeBits(10, 4) = 8
    BY DEF FreeBits
  <2> QED BY <1>1, <1>2, <2>1, MaskIs, Powers
<1>12. Masked(ip, 12) = Masked(net, 12) <=> ip[1] = a /\ ip[2] \div 16 = b \div 16
  <2>1. FreeBits(12, 1) = 0 /\ FreeBits(12, 2) = 4 /\ FreeBits(12, 3) = 8 /\ FreeBits(12, 4) = 8
    BY DEF FreeBits
  <2> QED BY <1>1, <1>2, <2>1, MaskIs, Powers
<1>15. Masked(ip, 15) = Masked(net, 15) <=> ip[1] = a /\ ip[2] \div 2 = b \div 2
  <2>1. FreeBits(15, 1) = 0 /\ FreeBits(15, 2) = 1 /\ FreeBits(15, 3) = 8 /\ FreeBits(15, 4) = 8
    BY DEF FreeBits
  <2> QED BY <1>1, <1>2, <2>1, MaskIs, Powers
<1>16. Masked(ip, 16) = Masked(net, 16) <=> ip[1] = a /\ ip[2] = b
  <2>1. FreeBits(16, 1) = 0 /\ FreeBits(16, 2) = 0 /\ FreeBits(16, 3) = 8 /\ FreeBits(16, 4) = 8
    BY DEF FreeBits
  <2> QED BY <1>1, <1>2, <2>1, MaskIs, Powers
<1>24. Masked(ip, 24) = Masked(net, 24) <=> ip[1] = a /\ ip[2] = b /\ ip[3] = c
  <2>1. FreeBits(24, 1) = 0 /\ FreeBits(24, 2) = 0 /\ FreeBits(24, 3) = 0 /\ FreeBits(24, 4) = 8
    BY DEF FreeBits
  <2> QED BY <1>1, <1>2, <2>1, MaskIs, Powers
<1> QED BY <1>4, <1>8, <1>10, <1>12, <1>15, <1>16, <1>24 DEF net

\* The table of egress_proxy.js denies the reserved ranges and nothing else.
LEMMA IPv4IsExact == \A ip \in IPv4 : IsPublicIPv4(ip) <=> ~ReservedIPv4(ip)
<1> SUFFICES ASSUME NEW ip \in IPv4 PROVE IsPublicIPv4(ip) <=> ~ReservedIPv4(ip)
  OBVIOUS
<1> DEFINE Agree(net, bits) == Masked(ip, bits) = Masked(net, bits)
<1>1. /\ ip[1] \in 0..255 /\ ip[2] \in 0..255 /\ ip[3] \in 0..255
      /\ \A x \in {0, 2, 10, 15, 16, 18, 51, 64, 88, 99, 100, 113, 127, 168, 169, 172, 192, 198, 203, 224, 240, 254} : x \in Octet
  BY DEF IPv4, Octet
<1>2. /\ Agree(<<0, 0, 0, 0>>, 8) <=> ip[1] = 0
      /\ Agree(<<10, 0, 0, 0>>, 8) <=> ip[1] = 10
      /\ Agree(<<127, 0, 0, 0>>, 8) <=> ip[1] = 127
  BY <1>1, Masks
<1>3. /\ Agree(<<169, 254, 0, 0>>, 16) <=> ip[1] = 169 /\ ip[2] = 254
      /\ Agree(<<192, 168, 0, 0>>, 16) <=> ip[1] = 192 /\ ip[2] = 168
  BY <1>1, Masks
<1>4. /\ Agree(<<192, 0, 0, 0>>, 24) <=> ip[1] = 192 /\ ip[2] = 0 /\ ip[3] = 0
      /\ Agree(<<192, 0, 2, 0>>, 24) <=> ip[1] = 192 /\ ip[2] = 0 /\ ip[3] = 2
      /\ Agree(<<192, 88, 99, 0>>, 24) <=> ip[1] = 192 /\ ip[2] = 88 /\ ip[3] = 99
      /\ Agree(<<198, 51, 100, 0>>, 24) <=> ip[1] = 198 /\ ip[2] = 51 /\ ip[3] = 100
      /\ Agree(<<203, 0, 113, 0>>, 24) <=> ip[1] = 203 /\ ip[2] = 0 /\ ip[3] = 113
  BY <1>1, Masks
<1>5. Agree(<<100, 64, 0, 0>>, 10) <=> ip[1] = 100 /\ ip[2] \in 64..127
  <2>1. Agree(<<100, 64, 0, 0>>, 10) <=> ip[1] = 100 /\ ip[2] \div 64 = 64 \div 64
    BY <1>1, Masks
  <2> QED BY <1>1, <2>1
<1>6. Agree(<<172, 16, 0, 0>>, 12) <=> ip[1] = 172 /\ ip[2] \in 16..31
  <2>1. Agree(<<172, 16, 0, 0>>, 12) <=> ip[1] = 172 /\ ip[2] \div 16 = 16 \div 16
    BY <1>1, Masks
  <2> QED BY <1>1, <2>1
<1>7. Agree(<<198, 18, 0, 0>>, 15) <=> ip[1] = 198 /\ ip[2] \in 18..19
  <2>1. Agree(<<198, 18, 0, 0>>, 15) <=> ip[1] = 198 /\ ip[2] \div 2 = 18 \div 2
    BY <1>1, Masks
  <2> QED BY <1>1, <2>1
<1>8. Agree(<<224, 0, 0, 0>>, 4) \/ Agree(<<240, 0, 0, 0>>, 4) <=> ip[1] \in 224..255
  <2>1. /\ Agree(<<224, 0, 0, 0>>, 4) <=> ip[1] \div 16 = 224 \div 16
        /\ Agree(<<240, 0, 0, 0>>, 4) <=> ip[1] \div 16 = 240 \div 16
    BY <1>1, Masks
  <2> QED BY <1>1, <2>1
<1>9. IsPublicIPv4(ip) <=>
        ~ \/ Agree(<<0, 0, 0, 0>>, 8) \/ Agree(<<10, 0, 0, 0>>, 8) \/ Agree(<<100, 64, 0, 0>>, 10)
          \/ Agree(<<127, 0, 0, 0>>, 8) \/ Agree(<<169, 254, 0, 0>>, 16) \/ Agree(<<172, 16, 0, 0>>, 12)
          \/ Agree(<<192, 0, 0, 0>>, 24) \/ Agree(<<192, 0, 2, 0>>, 24) \/ Agree(<<192, 88, 99, 0>>, 24)
          \/ Agree(<<192, 168, 0, 0>>, 16) \/ Agree(<<198, 18, 0, 0>>, 15) \/ Agree(<<198, 51, 100, 0>>, 24)
          \/ Agree(<<203, 0, 113, 0>>, 24) \/ Agree(<<224, 0, 0, 0>>, 4) \/ Agree(<<240, 0, 0, 0>>, 4)
  BY DEF IsPublicIPv4, IPv4Deny
<1> HIDE DEF Agree
<1> QED BY <1>1, <1>2, <1>3, <1>4, <1>5, <1>6, <1>7, <1>8, <1>9 DEF ReservedIPv4

LEMMA Join ==
    ASSUME NEW S, NEW p \in Seq(S), NEW q \in Seq(S), NEW r \in Seq(S)
    PROVE  /\ p \o q \o r \in Seq(S)
           /\ Len(p \o q \o r) = Len(p) + Len(q) + Len(r)
           /\ \A i \in 1..(Len(p) + Len(q) + Len(r)) : (p \o q \o r)[i] =
                IF i <= Len(p) THEN p[i]
                ELSE IF i <= Len(p) + Len(q) THEN q[i - Len(p)]
                ELSE r[i - Len(p) - Len(q)]
<1> DEFINE h == p \o q
<1>1. Len(p) \in Nat /\ Len(q) \in Nat /\ Len(r) \in Nat
  OBVIOUS
<1>2. /\ h \in Seq(S) /\ Len(h) = Len(p) + Len(q)
      /\ \A i \in 1..(Len(p) + Len(q)) : h[i] = IF i <= Len(p) THEN p[i] ELSE q[i - Len(p)]
  OBVIOUS
<1> HIDE DEF h
<1>7. h \in Seq(S)
  BY <1>2
<1>3. /\ h \o r \in Seq(S) /\ Len(h \o r) = Len(h) + Len(r)
      /\ \A i \in 1..(Len(h) + Len(r)) : (h \o r)[i] = IF i <= Len(h) THEN h[i] ELSE r[i - Len(h)]
  BY <1>7
<1> SUFFICES ASSUME NEW i \in 1..(Len(p) + Len(q) + Len(r))
             PROVE  (h \o r)[i] =
                IF i <= Len(p) THEN p[i]
                ELSE IF i <= Len(p) + Len(q) THEN q[i - Len(p)]
                ELSE r[i - Len(p) - Len(q)]
  BY <1>1, <1>2, <1>3 DEF h
<1>4. CASE i <= Len(p)
  BY <1>1, <1>2, <1>3, <1>4
<1>5. CASE ~(i <= Len(p)) /\ i <= Len(p) + Len(q)
  BY <1>1, <1>2, <1>3, <1>5
<1>6. CASE ~(i <= Len(p)) /\ ~(i <= Len(p) + Len(q))
  <2>1. (h \o r)[i] = r[i - (Len(p) + Len(q))]
    BY <1>1, <1>2, <1>3, <1>6
  <2>2. i - (Len(p) + Len(q)) = i - Len(p) - Len(q)
    BY <1>1
  <2> QED BY <1>6, <2>1, <2>2
<1> QED BY <1>4, <1>5, <1>6

\* Where the hextets of an address are, by the lengths of its parts.
LEMMA Places ==
    ASSUME NEW h \in Nat, NEW f \in Nat, NEW t \in Nat, NEW k \in Nat, h + f + (t + k) = 8, NEW i \in 1..8
    PROVE  /\ h < i /\ i <= h + f => i - h \in 1..f /\ ~(9 - i <= k) /\ ~(9 - i <= k + t)
           /\ h + f < i => i - h - f \in 1..(t + k)
           /\ h + f < i /\ i - h - f <= t =>
                  i - h - f \in 1..t /\ ~(9 - i <= k) /\ 9 - i <= k + t /\ k + t + 1 - (9 - i) = i - h - f
           /\ h + f < i /\ ~(i - h - f <= t) =>
                  i - h - f - t \in 1..k /\ 9 - i <= k /\ k + 1 - (9 - i) = i - h - f - t
OBVIOUS

LEMMA NoZeros == \A n \in Int : n < 0 => [i \in 1..n |-> 0] = <<>>
<1> SUFFICES ASSUME NEW n \in Int, n < 0 PROVE [i \in 1..n |-> 0] = <<>>
  OBVIOUS
<1>1. 1..n = 1..0
  OBVIOUS
<1>2. [i \in 1..0 |-> 0] = <<>>
  OBVIOUS
<1> QED BY <1>1, <1>2

\* expandIPv6() puts every hextet where it belongs.
LEMMA ExpandIsExact ==
    ASSUME NEW a \in Address, Len(ExpandIPv6(a)) = 8
    PROVE  \A i \in 1..8 : ExpandIPv6(a)[i] = Hextet(a, i) /\ ExpandIPv6(a)[i] \in Word
<1> DEFINE d == Dotted(a.dotted)
           last == a.tail \o d
           fill == IF a.gap THEN 8 - Len(a.head) - Len(last) ELSE 0
           zeros == [i \in 1..fill |-> 0]
<1>1. a.head \in Hextets /\ a.tail \in Hextets /\ a.dotted \in IPv4 \cup {<<>>}
  BY DEF Address
<1>2. d \in Hextets
  <2>1. CASE a.dotted = <<>>
    BY <2>1 DEF Dotted, Hextets
  <2>2. CASE a.dotted \in IPv4 /\ a.dotted # <<>>
    <3> DEFINE x(k) == a.dotted[k]
    <3>1. x(1) \in 0..255 /\ x(2) \in 0..255 /\ x(3) \in 0..255 /\ x(4) \in 0..255
      BY <2>2 DEF IPv4, Octet
    <3>2. Dotted(a.dotted) = <<256 * x(1) + x(2), 256 * x(3) + x(4)>>
      BY <2>2 DEF Dotted
    <3> HIDE DEF x
    <3>3. \A m, n : m \in Nat /\ m < 256 /\ n \in Nat /\ n < 256 => 256 * m + n \in Word
      BY DEF Word
    <3>4. 256 * x(1) + x(2) \in Word /\ 256 * x(3) + x(4) \in Word
      BY <3>1, <3>3, Octets
    <3> QED BY <3>2, <3>4 DEF Hextets, Word
  <2> QED BY <1>1, <2>1, <2>2
<1> HIDE DEF d
<1>3. /\ last \in Hextets /\ Len(last) = Len(a.tail) + Len(d)
      /\ \A j \in 1..Len(last) : last[j] = IF j <= Len(a.tail) THEN a.tail[j] ELSE d[j - Len(a.tail)]
  BY <1>1, <1>2 DEF Hextets, Word
<1> HIDE DEF last
<1>8. /\ Len(a.head) \in Nat /\ Len(a.tail) \in Nat /\ Len(d) \in Nat /\ Len(last) \in Nat
      /\ Len(last) = Len(a.tail) + Len(d)
      /\ a.head \in Seq(Word) /\ last \in Seq(Word)
  BY <1>1, <1>2, <1>3 DEF Hextets, Word
<1>4. zeros \in Seq(Word) => /\ Len(ExpandIPv6(a)) = Len(a.head) + Len(zeros) + Len(last)
                             /\ \A i \in 1..(Len(a.head) + Len(zeros) + Len(last)) : ExpandIPv6(a)[i] =
                                  IF i <= Len(a.head) THEN a.head[i]
                                  ELSE IF i <= Len(a.head) + Len(zeros) THEN zeros[i - Len(a.head)]
                                  ELSE last[i - Len(a.head) - Len(zeros)]
  <2>1. ExpandIPv6(a) = a.head \o zeros \o last
    BY DEF ExpandIPv6, last, d
  <2> HIDE DEF zeros
  <2> SUFFICES ASSUME zeros \in Seq(Word)
               PROVE  LET p == a.head \o zeros \o last IN
                      /\ Len(p) = Len(a.head) + Len(zeros) + Len(last)
                      /\ \A i \in 1..(Len(a.head) + Len(zeros) + Len(last)) : p[i] =
                           IF i <= Len(a.head) THEN a.head[i]
                           ELSE IF i <= Len(a.head) + Len(zeros) THEN zeros[i - Len(a.head)]
                           ELSE last[i - Len(a.head) - Len(zeros)]
    BY <2>1, Zenon
  <2>2. ASSUME NEW p \in Seq(Word), NEW q \in Seq(Word), NEW r \in Seq(Word)
        PROVE  LET s == p \o q \o r IN
               /\ Len(s) = Len(p) + Len(q) + Len(r)
               /\ \A i \in 1..(Len(p) + Len(q) + Len(r)) : s[i] =
                    IF i <= Len(p) THEN p[i]
                    ELSE IF i <= Len(p) + Len(q) THEN q[i - Len(p)]
                    ELSE r[i - Len(p) - Len(q)]
    BY Join
  <2>3. a.head \in Seq(Word) /\ last \in Seq(Word)
    BY <1>8
  <2> QED BY <2>2, <2>3, Zenon
<1>5. fill \in Nat
  <2>1. CASE ~a.gap
    BY <2>1
  <2>2. CASE a.gap
    <3>1. fill = 8 - Len(a.head) - Len(last)
      BY <2>2
    <3> DEFINE n == Len(a.head)
               m == Len(last)
    <3>2. n \in Nat /\ m \in Nat /\ fill = 8 - n - m
      BY <1>8, <3>1
    <3> HIDE DEF fill, n, m
    <3>3. ASSUME fill < 0 PROVE FALSE
      <4>1. fill \in Int
        BY <3>2
      <4>2. zeros = <<>>
        BY <3>3, <4>1, NoZeros
      <4> HIDE DEF zeros
      <4>3. Len(zeros) = 0 /\ zeros \in Seq(Word)
        BY <4>2
      <4>4. n + 0 + m = 8
        BY <1>4, <4>3 DEF n, m
      <4> QED BY <3>2, <3>3, <4>4
    <3> QED BY <3>2, <3>3
  <2> QED BY <2>1, <2>2
<1> HIDE DEF fill
<1>6. zeros \in Seq(Word) /\ Len(zeros) = fill /\ \A i \in 1..fill : zeros[i] = 0
  BY <1>5 DEF Word
<1> HIDE DEF zeros
<1>7. Len(a.head) + fill + (Len(a.tail) + Len(d)) = 8
  BY <1>4, <1>6, <1>8
<1>14. \A i \in 1..8 : ExpandIPv6(a)[i] =
            IF i <= Len(a.head) THEN a.head[i]
            ELSE IF i <= Len(a.head) + fill THEN zeros[i - Len(a.head)]
            ELSE last[i - Len(a.head) - fill]
  BY <1>4, <1>6
<1>9. /\ \A i \in 1..Len(a.head) : a.head[i] \in Word
      /\ \A i \in 1..Len(a.tail) : a.tail[i] \in Word
      /\ \A i \in 1..Len(d) : d[i] \in Word
  BY <1>1, <1>2 DEF Hextets, Word
<1> SUFFICES ASSUME NEW i \in 1..8
             PROVE  ExpandIPv6(a)[i] = Hextet(a, i) /\ ExpandIPv6(a)[i] \in Word
  OBVIOUS
<1>10. Hextet(a, i) =
         IF i <= Len(a.head) THEN a.head[i]
         ELSE IF 9 - i <= Len(d) THEN d[Len(d) + 1 - (9 - i)]
         ELSE IF 9 - i <= Len(d) + Len(a.tail) THEN a.tail[Len(d) + Len(a.tail) + 1 - (9 - i)]
         ELSE 0
  BY DEF Hextet, d
<1>15. ExpandIPv6(a)[i] =
         IF i <= Len(a.head) THEN a.head[i]
         ELSE IF i <= Len(a.head) + fill THEN zeros[i - Len(a.head)]
         ELSE last[i - Len(a.head) - fill]
  BY <1>14
<1>16. 0 \in Word
  BY DEF Word
<1> DEFINE h == Len(a.head)
           t == Len(a.tail)
           k == Len(d)
<1>17. h \in Nat /\ t \in Nat /\ k \in Nat /\ h + fill + (t + k) = 8 /\ Len(last) = t + k
  BY <1>7, <1>8
<1>18. /\ Hextet(a, i) = IF i <= h THEN a.head[i]
                         ELSE IF 9 - i <= k THEN d[k + 1 - (9 - i)]
                         ELSE IF 9 - i <= k + t THEN a.tail[k + t + 1 - (9 - i)]
                         ELSE 0
       /\ ExpandIPv6(a)[i] = IF i <= h THEN a.head[i]
                             ELSE IF i <= h + fill THEN zeros[i - h]
                             ELSE last[i - h - fill]
       /\ \A j \in 1..(t + k) : last[j] = IF j <= t THEN a.tail[j] ELSE d[j - t]
       /\ \A j \in 1..h : a.head[j] \in Word
       /\ \A j \in 1..t : a.tail[j] \in Word
       /\ \A j \in 1..k : d[j] \in Word
  BY <1>3, <1>9, <1>10, <1>15, <1>17
<1> HIDE DEF h, t, k
<1>11. CASE i <= h
  BY <1>11, <1>17, <1>18
<1>12. CASE h < i /\ i <= h + fill
  <2>1. i - h \in 1..fill /\ ~(i <= h) /\ ~(9 - i <= k) /\ ~(9 - i <= k + t)
    BY <1>5, <1>12, <1>17, Places
  <2>2. ExpandIPv6(a)[i] = 0
    BY <1>6, <1>12, <1>18, <2>1
  <2>3. Hextet(a, i) = 0
    BY <1>18, <2>1
  <2> QED BY <1>16, <2>2, <2>3
<1>13. CASE h + fill < i
  <2> DEFINE j == i - h - fill
  <2>1. j \in 1..(t + k) /\ ~(i <= h) /\ ~(i <= h + fill)
    BY <1>5, <1>13, <1>17, Places
  <2>2. ExpandIPv6(a)[i] = last[j]
    BY <1>18, <2>1
  <2>3. CASE j <= t
    <3>1. j \in 1..t /\ ~(9 - i <= k) /\ 9 - i <= k + t /\ k + t + 1 - (9 - i) = j
      BY <1>5, <1>13, <1>17, <2>3, Places
    <3> HIDE DEF j
    <3>2. Hextet(a, i) = a.tail[j]
      BY <1>18, <2>1, <3>1
    <3> QED BY <1>18, <2>1, <2>2, <2>3, <3>1, <3>2
  <2>4. CASE ~(j <= t)
    <3>1. j - t \in 1..k /\ 9 - i <= k /\ k + 1 - (9 - i) = j - t
      BY <1>5, <1>13, <1>17, <2>4, Places
    <3> HIDE DEF j
    <3>2. Hextet(a, i) = d[j - t]
      BY <1>18, <2>1, <3>1
    <3> QED BY <1>18, <2>1, <2>2, <2>4, <3>1, <3>2
  <2> QED BY <2>3, <2>4
<1> QED BY <1>5, <1>11, <1>12, <1>13, <1>17

LEMMA IPv6IsExact ==
    ASSUME NEW a \in Address, Len(ExpandIPv6(a)) = 8
    PROVE  IsPublicIPv6(a) <=> ~ReservedIPv6(a)
<1> DEFINE h == ExpandIPv6(a)
           g == [i \in 1..8 |-> Hextet(a, i)]
<1>1. \A i \in 1..8 : h[i] = g[i] /\ h[i] \in Word
  BY ExpandIsExact
<1>2. IsPublicIPv6(a) <=>
        IF Mapped(h) THEN IsPublicIPv4(Embedded(h))
        ELSE h[1] \div 8192 = 1 /\ ~(h[1] = 8193 /\ h[2] < 512) /\ ~(h[1] = 8193 /\ h[2] = 3512) /\ h[1] # 8194
  BY DEF IsPublicIPv6
<1> DEFINE M == g[6] = 65535 /\ {g[i] : i \in 1..5} = {0}
           V == <<g[7] \div 256, g[7] % 256, g[8] \div 256, g[8] % 256>>
           R == \/ g[1] < 8192 \/ g[1] > 16383
                \/ g[1] = 8193 /\ g[2] \in (0..511) \cup {3512}
                \/ g[1] = 8194
<1>3. /\ M => (ReservedIPv6(a) <=> ReservedIPv4(V))
      /\ ~M => (ReservedIPv6(a) <=> R)
  BY DEF ReservedIPv6
<1> HIDE DEF h, g
<1>4. Mapped(h) <=> g[6] = 65535 /\ {g[i] : i \in 1..5} = {0}
  <2>1. Mapped(h) <=> g[6] = 65535 /\ \A i \in 1..5 : g[i] = 0
    BY <1>1 DEF Mapped
  <2>2. {g[i] : i \in 1..5} = {0} <=> \A i \in 1..5 : g[i] = 0
    OBVIOUS
  <2> QED BY <2>1, <2>2
<1>5. Embedded(h) \in IPv4 /\ Embedded(h) = <<g[7] \div 256, g[7] % 256, g[8] \div 256, g[8] % 256>>
  <2>1. h[7] \in Word /\ h[8] \in Word /\ h[7] = g[7] /\ h[8] = g[8]
    BY <1>1
  <2>2. /\ h[7] \div 256 \in 0..255 /\ h[7] % 256 \in 0..255
        /\ h[8] \div 256 \in 0..255 /\ h[8] % 256 \in 0..255
    BY <2>1 DEF Word
  <2> QED BY <2>1, <2>2 DEF Embedded, IPv4, Octet
<1>6. h[1] \in Word /\ h[2] \in Word /\ h[1] = g[1] /\ h[2] = g[2]
  BY <1>1
<1>7. (h[1] \div 8192 = 1) <=> 8192 <= h[1] /\ h[1] <= 16383
  BY <1>6 DEF Word
<1>8. IsPublicIPv4(Embedded(h)) <=> ~ReservedIPv4(Embedded(h))
  BY <1>5, IPv4IsExact
<1>9. h[2] \in (0..511) \cup {3512} <=> h[2] < 512 \/ h[2] = 3512
  <2>1. \A n \in Word : n \in 0..511 <=> n < 512
    BY DEF Word
  <2> QED BY <1>6, <2>1
<1> HIDE DEF M, R
<1>12. Mapped(h) <=> M
  BY <1>4 DEF M
<1>10. CASE Mapped(h)
  <2>1. IsPublicIPv6(a) <=> IsPublicIPv4(Embedded(h))
    BY <1>2, <1>10
  <2>2. ReservedIPv6(a) <=> ReservedIPv4(Embedded(h))
    <3> HIDE DEF V
    <3>1. ReservedIPv6(a) <=> ReservedIPv4(V)
      BY <1>3, <1>10, <1>12, Zenon
    <3> QED BY <1>5, <3>1 DEF V
  <2> QED BY <1>8, <2>1, <2>2
<1>11. CASE ~Mapped(h)
  <2>1. IsPublicIPv6(a) <=>
          /\ 8192 <= h[1] /\ h[1] <= 16383
          /\ ~(h[1] = 8193 /\ (h[2] < 512 \/ h[2] = 3512))
          /\ h[1] # 8194
    BY <1>2, <1>7, <1>11
  <2>2. ReservedIPv6(a) <=>
          \/ h[1] < 8192 \/ h[1] > 16383
          \/ h[1] = 8193 /\ (h[2] < 512 \/ h[2] = 3512)
          \/ h[1] = 8194
    <3>1. ReservedIPv6(a) <=> R
      BY <1>3, <1>11, <1>12, Zenon
    <3>2. R <=> \/ g[1] < 8192 \/ g[1] > 16383
                \/ g[1] = 8193 /\ g[2] \in (0..511) \cup {3512}
                \/ g[1] = 8194
      BY DEF R
    <3> QED BY <1>6, <1>9, <3>1, <3>2
  <2>3. h[1] \in Nat
    BY <1>6 DEF Word
  <2> QED BY <2>1, <2>2, <2>3
<1> QED BY <1>10, <1>11

\* An address is let through exactly when it is in none of the ranges.
LEMMA ClassifierIsExact ==
    \A a \in Address : WellFormed(a) => (IsPublicAddress(a) <=> ~Reserved(a))
BY IPv4IsExact, IPv6IsExact DEF WellFormed, IsPublicAddress, Reserved, Address

-----------------------------------------------------------------------------
(* The theorems.                                                           *)

\* egress_proxy.js keeps its variables in their ranges; `active`, which is an
\* integer that is only ever added to and subtracted from, is never negative.
THEOREM TypeCorrect == Spec => []TypeOK
BY Invariance, PTL DEF IInv

\* The counter of egress_proxy.js is the number of sockets that are open, and never
\* above MAX_CONNECTIONS.
THEOREM CountCorrect == Spec => []CountIsExact
<1>1. IInv => CountIsExact
  BY DEF IInv, Count, OpenSet, CountIsExact
<1> QED BY <1>1, Invariance, PTL

\* close() reaches the upstream of every client that goes.
THEOREM UpstreamsHaveClients == Spec => []NoOrphanUpstream
<1>1. IInv => NoOrphanUpstream
  BY DEF IInv, Sockets, NoOrphanUpstream
<1> QED BY <1>1, Invariance, PTL
\* tunnel() is reached with an allowed host and port only, and with an address of an
\* answer that isPublicAddress() has accepted as a whole: nothing is looked up
\* again, and nothing changes between the check and the connection.
THEOREM UpstreamsAreChecked ==
    Spec => [](\A c \in Conn : upstream[c] # "none" =>
                   /\ wanted[c] \in AllowedHosts \X AllowedPorts
                   /\ peer[c] \in found[c]
                   /\ \A a \in found[c] : IsPublicAddress(a))
<1>1. IInv => \A c \in Conn : upstream[c] # "none" =>
                   /\ wanted[c] \in AllowedHosts \X AllowedPorts
                   /\ peer[c] \in found[c]
                   /\ \A a \in found[c] : IsPublicAddress(a)
  BY DEF IInv, Checked
<1> QED BY <1>1, Invariance, PTL

\* Nothing in a reserved range is connected to, and nothing outside of them is
\* refused: isPublicIPv4() and isPublicIPv6() say of every address what the ranges
\* say, whichever way it is written.
THEOREM PolicyExact == Spec => []PolicyIsExact
<1>1. ASSUME IInv PROVE PolicyIsExact
  <2>1. ASSUME NEW answer \in Answer, NEW a \in answer PROVE IsPublicAddress(a) <=> ~Reserved(a)
    BY EgressProxyAssumption, ClassifierIsExact
  <2>2. OnlyThePolicy
    BY <1>1, <2>1 DEF IInv, Checked, OnlyThePolicy
  <2>3. PublicIsReachable
    BY <1>1, <2>1 DEF IInv, TypeOK, Checked, PublicIsReachable
  <2> QED BY <2>2, <2>3 DEF PolicyIsExact
<1> QED BY <1>1, Invariance, PTL
=============================================================================
