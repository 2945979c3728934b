------------------------- MODULE PreviewGatewayProofs -------------------------
(***************************************************************************)
(* Proofs about PreviewGateway, for any number of requests, previews and   *)
(* relays and any limits.  A request carries the token of the run it was   *)
(* resolved to, and the proofs follow that token: to the relay that serves *)
(* it, and to the answer.  The two limits are counted on the sets of       *)
(* requests that hold a permit or a slot.                                  *)
(***************************************************************************)
EXTENDS PreviewGateway, FiniteSetTheorems, TLAPS

\* The requests to a preview that have a permit.
Held(p) == {r \in holds : PreviewOf[r] = p}

Permits == \A p \in Preview :
    /\ IsFiniteSet(Held(p))
    /\ semaphore[p] + Cardinality(Held(p)) = MaxRequests

Slots == \A x \in Relay :
    /\ IsFiniteSet(InRelay(x))
    /\ Cardinality(InRelay(x)) <= MaxRelay

\* A run belongs to the preview it was started for, wherever it is named.
Tokens ==
    /\ \A p \in Preview : upstream[p] # None => run[upstream[p]] = p
    /\ \A r \in Request :
        /\ target[r] # None => run[target[r]] = PreviewOf[r]
        /\ serving[r] # None => serving[r] = target[r]
        /\ answer[r] # None => answer[r] = target[r]

\* What a request has at each point of the gateway.
Labels == \A r \in Request :
    /\ pc[r] \in {"send", "wait", "stream", "unread"} <=> r \in holds
    /\ pc[r] = "new" => answer[r] = None
    /\ pc[r] \in {"new", "body", "send", "busy"} => serving[r] = None

IInv == TypeOK /\ Permits /\ Slots /\ Tokens /\ Labels

-----------------------------------------------------------------------------
(* The two counts.                                                         *)

\* release() gives back the permit of a request that has one, and no other.
LEMMA ReleasePermits ==
    ASSUME TypeOK, Permits, NEW r \in Request, Release(r)
    PROVE  Permits' /\ semaphore' \in [Preview -> 0..MaxRequests]
<1> DEFINE q == PreviewOf[r]
<1>1. q \in Preview
  BY PreviewGatewayAssumption
<1>2. CASE r \in holds
  <2>1. r \in Held(q) /\ Held(q)' = Held(q) \ {r}
    BY <1>2 DEF Held, Release
  <2>2. IsFiniteSet(Held(q)') /\ Cardinality(Held(q)') = Cardinality(Held(q)) - 1
    BY <1>1, <2>1, FS_RemoveElement DEF Permits
  <2>3. Cardinality(Held(q)') \in Nat
    BY <2>2, FS_CardinalityType
  <2>4. \A p \in Preview \ {q} : Held(p)' = Held(p) /\ semaphore'[p] = semaphore[p]
    BY DEF Held, Release, TypeOK
  <2>5. semaphore'[q] = semaphore[q] + 1
    BY <1>1, <1>2 DEF Release, TypeOK
  <2>6. semaphore' = [p \in Preview |-> semaphore'[p]]
    BY DEF Release, TypeOK
  <2>7. Permits'
    <3>1. semaphore'[q] + Cardinality(Held(q)') = MaxRequests
      <4>1. semaphore[q] \in Nat /\ Cardinality(Held(q)) \in Nat
        BY <1>1, FS_CardinalityType, PreviewGatewayAssumption DEF TypeOK, Permits
      <4>2. semaphore[q] + Cardinality(Held(q)) = MaxRequests
        BY <1>1 DEF Permits
      <4> HIDE DEF q
      <4> QED BY <2>2, <2>5, <4>1, <4>2
    <3>2. \A p \in Preview : IsFiniteSet(Held(p)')
                             /\ semaphore'[p] + Cardinality(Held(p)') = MaxRequests
      BY <2>2, <2>4, <3>1 DEF Permits
    <3> QED BY <3>2 DEF Permits
  <2>8. \A p \in Preview : semaphore'[p] \in 0..MaxRequests
    <3>1. semaphore'[q] \in 0..MaxRequests
      <4>1. semaphore[q] + 1 \in Nat /\ semaphore'[q] + Cardinality(Held(q)') = MaxRequests
        BY <1>1, <2>7, PreviewGatewayAssumption DEF Permits, TypeOK
      <4> HIDE DEF q
      <4> QED BY <2>3, <2>5, <4>1, PreviewGatewayAssumption
    <3> QED BY <2>4, <3>1 DEF TypeOK
  <2> QED BY <2>6, <2>7, <2>8
<1>3. CASE r \notin holds
  <2>1. holds' = holds /\ semaphore' = semaphore
    BY <1>3 DEF Release, TypeOK
  <2> QED BY <2>1 DEF Permits, Held, TypeOK
<1> QED BY <1>2, <1>3

\* A relay that serves no more requests than before stays within its limit.
LEMMA SlotsShrink ==
    ASSUME Slots, \A x \in Relay : InRelay(x)' \subseteq InRelay(x)
    PROVE  Slots'
<1> SUFFICES ASSUME NEW x \in Relay
             PROVE  IsFiniteSet(InRelay(x)') /\ Cardinality(InRelay(x)') <= MaxRelay
  BY DEF Slots
<1>1. IsFiniteSet(InRelay(x)') /\ Cardinality(InRelay(x)') <= Cardinality(InRelay(x))
  BY FS_Subset DEF Slots
<1>2. Cardinality(InRelay(x)') \in Nat /\ Cardinality(InRelay(x)) \in Nat
  BY <1>1, FS_CardinalityType DEF Slots
<1> QED BY <1>1, <1>2, PreviewGatewayAssumption DEF Slots

-----------------------------------------------------------------------------
(* The steps.                                                              *)

LEMMA PreviewStartsStep ==
    ASSUME IInv, NEW p \in Preview, NEW x \in Relay, NEW n \in Port, PreviewStarts(p, x, n)
    PROVE  IInv'
<1>1. Permits' /\ semaphore' \in [Preview -> 0..MaxRequests]
  BY DEF IInv, TypeOK, Permits, Held, PreviewStarts
<1>2. Slots'
  <2>1. serving' = serving
    BY DEF PreviewStarts
  <2> QED BY <2>1 DEF IInv, Slots, InRelay
<1>3. TypeOK'
  BY <1>1, PreviewGatewayAssumption DEF IInv, TypeOK, PreviewStarts, previews
<1>4. Tokens'
  BY PreviewGatewayAssumption DEF IInv, TypeOK, Tokens, Labels, PreviewStarts, previews
<1>5. Labels'
  BY DEF IInv, TypeOK, Labels, PreviewStarts, previews
<1> QED BY <1>1, <1>2, <1>3, <1>4, <1>5 DEF IInv

LEMMA PreviewStopsStep ==
    ASSUME IInv, NEW p \in Preview, PreviewStops(p)
    PROVE  IInv'
<1>1. Permits' /\ semaphore' \in [Preview -> 0..MaxRequests]
  BY DEF IInv, TypeOK, Permits, Held, PreviewStops
<1>2. Slots'
  <2>1. serving' = serving
    BY DEF PreviewStops
  <2> QED BY <2>1 DEF IInv, Slots, InRelay
<1>3. TypeOK'
  BY <1>1, PreviewGatewayAssumption DEF IInv, TypeOK, PreviewStops, previews
<1>4. Tokens'
  BY PreviewGatewayAssumption DEF IInv, TypeOK, Tokens, Labels, PreviewStops, previews
<1>5. Labels'
  BY DEF IInv, TypeOK, Labels, PreviewStops, previews
<1> QED BY <1>1, <1>2, <1>3, <1>4, <1>5 DEF IInv

LEMMA RelayDiesStep ==
    ASSUME IInv, NEW x \in Relay, RelayDies(x)
    PROVE  IInv'
<1>1. Permits' /\ semaphore' \in [Preview -> 0..MaxRequests]
  BY DEF IInv, TypeOK, Permits, Held, RelayDies
<1>2. Slots'
  <2>1. \A y \in Relay : InRelay(y)' \subseteq InRelay(y)
    BY PreviewGatewayAssumption DEF IInv, TypeOK, InRelay, RelayDies
  <2> QED BY <2>1, SlotsShrink DEF IInv
<1>3. TypeOK'
  BY <1>1, PreviewGatewayAssumption DEF IInv, TypeOK, RelayDies, previews
<1>4. Tokens'
  BY PreviewGatewayAssumption DEF IInv, TypeOK, Tokens, Labels, RelayDies, previews
<1>5. Labels'
  BY DEF IInv, TypeOK, Labels, RelayDies, previews
<1> QED BY <1>1, <1>2, <1>3, <1>4, <1>5 DEF IInv

LEMMA ResolveStep ==
    ASSUME IInv, NEW r \in Request, Resolve(r)
    PROVE  IInv'
<1>1. Permits' /\ semaphore' \in [Preview -> 0..MaxRequests]
  BY DEF IInv, TypeOK, Permits, Held, Resolve
<1>2. Slots'
  <2>1. serving' = serving
    BY DEF Resolve
  <2> QED BY <2>1 DEF IInv, Slots, InRelay
<1>3. TypeOK'
  BY <1>1, PreviewGatewayAssumption DEF IInv, TypeOK, Resolve, Goto, previews
<1>4. Tokens'
  <2>1. run' = run /\ upstream' = upstream /\ serving' = serving /\ answer' = answer
    BY DEF Resolve, previews
  <2>2. serving[r] = None /\ answer[r] = None /\ PreviewOf[r] \in Preview
    BY PreviewGatewayAssumption DEF IInv, Labels, Resolve
  <2>3. target' = [target EXCEPT ![r] = upstream[PreviewOf[r]]] /\ target \in [Request -> Relay \cup {None}]
    BY DEF IInv, TypeOK, Resolve
  <2> QED BY <2>1, <2>2, <2>3 DEF IInv, Tokens
<1>5. Labels'
  BY DEF IInv, TypeOK, Labels, Resolve, Goto, previews
<1> QED BY <1>1, <1>2, <1>3, <1>4, <1>5 DEF IInv

LEMMA RefuseStep ==
    ASSUME IInv, NEW r \in Request, Refuse(r)
    PROVE  IInv'
<1>1. Permits' /\ semaphore' \in [Preview -> 0..MaxRequests]
  BY DEF IInv, TypeOK, Permits, Held, Refuse
<1>2. Slots'
  <2>1. serving' = serving
    BY DEF Refuse
  <2> QED BY <2>1 DEF IInv, Slots, InRelay
<1>3. TypeOK'
  BY <1>1, PreviewGatewayAssumption DEF IInv, TypeOK, Refuse, Goto, previews
<1>4. Tokens'
  BY PreviewGatewayAssumption DEF IInv, TypeOK, Tokens, Labels, Refuse, Goto, previews
<1>5. Labels'
  BY DEF IInv, TypeOK, Labels, Refuse, Goto, previews
<1> QED BY <1>1, <1>2, <1>3, <1>4, <1>5 DEF IInv

LEMMA AdmitStep ==
    ASSUME IInv, NEW r \in Request, Admit(r)
    PROVE  IInv'
<1>1. Permits' /\ semaphore' \in [Preview -> 0..MaxRequests]
  <2> DEFINE q == PreviewOf[r]
  <2>1. q \in Preview /\ semaphore[q] \in 0..MaxRequests /\ semaphore[q] # 0
    BY PreviewGatewayAssumption DEF IInv, TypeOK, Admit, Locked
  <2>2. r \notin Held(q) /\ Held(q)' = Held(q) \cup {r}
    BY DEF IInv, TypeOK, Labels, Held, Admit
  <2>3. IsFiniteSet(Held(q)') /\ Cardinality(Held(q)') = Cardinality(Held(q)) + 1
    BY <2>1, <2>2, FS_AddElement DEF IInv, Permits
  <2>4. \A p \in Preview \ {q} : Held(p)' = Held(p) /\ semaphore'[p] = semaphore[p]
    BY DEF IInv, TypeOK, Held, Admit
  <2>5. semaphore' = [p \in Preview |-> semaphore'[p]] /\ semaphore'[q] = semaphore[q] - 1
    BY <2>1 DEF IInv, TypeOK, Admit
  <2>6. semaphore'[q] + Cardinality(Held(q)') = MaxRequests
    <3>1. Cardinality(Held(q)) \in Nat /\ semaphore[q] + Cardinality(Held(q)) = MaxRequests
      BY <2>1, FS_CardinalityType DEF IInv, Permits
    <3> HIDE DEF q
    <3> QED BY <2>1, <2>3, <2>5, <3>1, PreviewGatewayAssumption
  <2>7. semaphore'[q] \in 0..MaxRequests
    BY <2>1, <2>5, PreviewGatewayAssumption
  <2>8. \A p \in Preview : IsFiniteSet(Held(p)')
                           /\ semaphore'[p] + Cardinality(Held(p)') = MaxRequests
    BY <2>3, <2>4, <2>6 DEF IInv, Permits
  <2>9. \A p \in Preview : semaphore'[p] \in 0..MaxRequests
    BY <2>4, <2>7 DEF IInv, TypeOK
  <2> QED BY <2>5, <2>8, <2>9 DEF Permits
<1>2. Slots'
  <2>1. serving' = serving
    BY DEF Admit
  <2> QED BY <2>1 DEF IInv, Slots, InRelay
<1>3. TypeOK'
  BY <1>1, PreviewGatewayAssumption DEF IInv, TypeOK, Admit, Goto, previews
<1>4. Tokens'
  BY PreviewGatewayAssumption DEF IInv, TypeOK, Tokens, Labels, Admit, Goto, previews
<1>5. Labels'
  BY DEF IInv, TypeOK, Labels, Admit, Goto, previews
<1> QED BY <1>1, <1>2, <1>3, <1>4, <1>5 DEF IInv

LEMMA TooManyStep ==
    ASSUME IInv, NEW r \in Request, TooMany(r)
    PROVE  IInv'
<1>1. Permits' /\ semaphore' \in [Preview -> 0..MaxRequests]
  BY DEF IInv, TypeOK, Permits, Held, TooMany
<1>2. Slots'
  <2>1. serving' = serving
    BY DEF TooMany
  <2> QED BY <2>1 DEF IInv, Slots, InRelay
<1>3. TypeOK'
  BY <1>1, PreviewGatewayAssumption DEF IInv, TypeOK, TooMany, Goto, previews
<1>4. Tokens'
  BY PreviewGatewayAssumption DEF IInv, TypeOK, Tokens, Labels, TooMany, Goto, previews
<1>5. Labels'
  BY DEF IInv, TypeOK, Labels, TooMany, Goto, previews
<1> QED BY <1>1, <1>2, <1>3, <1>4, <1>5 DEF IInv

LEMMA TransportRaisesStep ==
    ASSUME IInv, NEW r \in Request, TransportRaises(r)
    PROVE  IInv'
<1>1. Permits' /\ semaphore' \in [Preview -> 0..MaxRequests]
  BY ReleasePermits DEF IInv, TransportRaises, Abandon
<1>2. Slots'
  <2>1. serving' = serving
    BY DEF TransportRaises
  <2> QED BY <2>1 DEF IInv, Slots, InRelay
<1>3. TypeOK'
  BY <1>1, PreviewGatewayAssumption DEF IInv, TypeOK, TransportRaises, Abandon, Release, Goto, previews
<1>4. Tokens'
  BY PreviewGatewayAssumption DEF IInv, TypeOK, Tokens, Labels, TransportRaises, Abandon, Release, Goto, previews
<1>5. Labels'
  BY DEF IInv, TypeOK, Labels, TransportRaises, Abandon, Release, Goto, previews
<1> QED BY <1>1, <1>2, <1>3, <1>4, <1>5 DEF IInv

LEMMA DeadlinePassesStep ==
    ASSUME IInv, NEW r \in Request, DeadlinePasses(r)
    PROVE  IInv'
<1>1. Permits' /\ semaphore' \in [Preview -> 0..MaxRequests]
  BY DEF IInv, TypeOK, Permits, Held, DeadlinePasses
<1>2. Slots'
  <2>1. serving' = serving
    BY DEF DeadlinePasses
  <2> QED BY <2>1 DEF IInv, Slots, InRelay
<1>3. TypeOK'
  BY <1>1, PreviewGatewayAssumption DEF IInv, TypeOK, DeadlinePasses, Goto, previews
<1>4. Tokens'
  BY PreviewGatewayAssumption DEF IInv, TypeOK, Tokens, Labels, DeadlinePasses, Goto, previews
<1>5. Labels'
  BY DEF IInv, TypeOK, Labels, DeadlinePasses, Goto, previews
<1> QED BY <1>1, <1>2, <1>3, <1>4, <1>5 DEF IInv

LEMMA SendChunkStep ==
    ASSUME IInv, NEW r \in Request, SendChunk(r)
    PROVE  IInv'
<1>1. Permits' /\ semaphore' \in [Preview -> 0..MaxRequests]
  BY DEF IInv, TypeOK, Permits, Held, SendChunk
<1>2. Slots'
  <2>1. serving' = serving
    BY DEF SendChunk
  <2> QED BY <2>1 DEF IInv, Slots, InRelay
<1>3. TypeOK'
  BY <1>1, PreviewGatewayAssumption DEF IInv, TypeOK, SendChunk, Goto, previews
<1>4. Tokens'
  BY PreviewGatewayAssumption DEF IInv, TypeOK, Tokens, Labels, SendChunk, Goto, previews
<1>5. Labels'
  BY DEF IInv, TypeOK, Labels, SendChunk, Goto, previews
<1> QED BY <1>1, <1>2, <1>3, <1>4, <1>5 DEF IInv

LEMMA ClientReadsStep ==
    ASSUME IInv, NEW r \in Request, ClientReads(r)
    PROVE  IInv'
<1>1. Permits' /\ semaphore' \in [Preview -> 0..MaxRequests]
  BY DEF IInv, TypeOK, Permits, Held, ClientReads
<1>2. Slots'
  <2>1. serving' = serving
    BY DEF ClientReads
  <2> QED BY <2>1 DEF IInv, Slots, InRelay
<1>3. TypeOK'
  BY <1>1, PreviewGatewayAssumption DEF IInv, TypeOK, ClientReads, Goto, previews
<1>4. Tokens'
  BY PreviewGatewayAssumption DEF IInv, TypeOK, Tokens, Labels, ClientReads, Goto, previews
<1>5. Labels'
  BY DEF IInv, TypeOK, Labels, ClientReads, Goto, previews
<1> QED BY <1>1, <1>2, <1>3, <1>4, <1>5 DEF IInv

LEMMA StreamEndsStep ==
    ASSUME IInv, NEW r \in Request, StreamEnds(r)
    PROVE  IInv'
<1>1. Permits' /\ semaphore' \in [Preview -> 0..MaxRequests]
  BY ReleasePermits DEF IInv, StreamEnds
<1>2. Slots'
  <2>1. serving' = serving
    BY DEF StreamEnds
  <2> QED BY <2>1 DEF IInv, Slots, InRelay
<1>3. TypeOK'
  BY <1>1, PreviewGatewayAssumption DEF IInv, TypeOK, StreamEnds, Release, Goto, previews
<1>4. Tokens'
  BY PreviewGatewayAssumption DEF IInv, TypeOK, Tokens, Labels, StreamEnds, Release, Goto, previews
<1>5. Labels'
  BY DEF IInv, TypeOK, Labels, StreamEnds, Release, Goto, previews
<1> QED BY <1>1, <1>2, <1>3, <1>4, <1>5 DEF IInv

LEMMA ClientLeavesStep ==
    ASSUME IInv, NEW r \in Request, ClientLeaves(r)
    PROVE  IInv'
<1>1. Permits' /\ semaphore' \in [Preview -> 0..MaxRequests]
  BY DEF IInv, TypeOK, Permits, Held, ClientLeaves
<1>2. Slots'
  <2>1. serving' = serving
    BY DEF ClientLeaves
  <2> QED BY <2>1 DEF IInv, Slots, InRelay
<1>3. TypeOK'
  BY <1>1, PreviewGatewayAssumption DEF IInv, TypeOK, ClientLeaves, Goto, previews
<1>4. Tokens'
  BY PreviewGatewayAssumption DEF IInv, TypeOK, Tokens, Labels, ClientLeaves, Goto, previews
<1>5. Labels'
  BY DEF IInv, TypeOK, Labels, ClientLeaves, Goto, previews
<1> QED BY <1>1, <1>2, <1>3, <1>4, <1>5 DEF IInv

LEMMA DenyStep ==
    ASSUME IInv, NEW r \in Request, NEW x \in Relay, Deny(r, x)
    PROVE  IInv'
<1>1. Permits' /\ semaphore' \in [Preview -> 0..MaxRequests]
  BY ReleasePermits DEF IInv, Deny, Abandon
<1>2. Slots'
  <2>1. serving' = serving
    BY DEF Deny
  <2> QED BY <2>1 DEF IInv, Slots, InRelay
<1>3. TypeOK'
  BY <1>1, PreviewGatewayAssumption DEF IInv, TypeOK, Deny, Abandon, Release, Goto, previews
<1>4. Tokens'
  BY PreviewGatewayAssumption DEF IInv, TypeOK, Tokens, Labels, Deny, Abandon, Release, Goto, previews
<1>5. Labels'
  BY DEF IInv, TypeOK, Labels, Deny, Abandon, Release, Goto, previews
<1> QED BY <1>1, <1>2, <1>3, <1>4, <1>5 DEF IInv

LEMMA ServeStep ==
    ASSUME IInv, NEW r \in Request, NEW x \in Relay, Serve(r, x)
    PROVE  IInv'
<1>1. Permits' /\ semaphore' \in [Preview -> 0..MaxRequests]
  BY DEF IInv, TypeOK, Permits, Held, Serve
<1>2. Slots'
  <2>1. \A y \in Relay \ {x} : InRelay(y)' = InRelay(y)
    BY PreviewGatewayAssumption DEF IInv, TypeOK, Labels, InRelay, Serve, AtRelay
  <2>2. InRelay(x)' = InRelay(x) \cup {r}
    BY DEF IInv, TypeOK, InRelay, Serve
  <2>3. IsFiniteSet(InRelay(x)') /\ Cardinality(InRelay(x)') <= Cardinality(InRelay(x)) + 1
    <3>1. IsFiniteSet(InRelay(x)) /\ Cardinality(InRelay(x)) \in Nat
      BY FS_CardinalityType DEF IInv, Slots
    <3>2. r \notin InRelay(x)
      BY PreviewGatewayAssumption DEF IInv, Labels, InRelay, Serve, AtRelay
    <3>3. IsFiniteSet(InRelay(x)') /\ Cardinality(InRelay(x)') = Cardinality(InRelay(x)) + 1
      BY <2>2, <3>1, <3>2, FS_AddElement
    <3> QED BY <3>1, <3>3
  <2>4. Cardinality(InRelay(x)') <= MaxRelay
    <3>1. Cardinality(InRelay(x)) \in Nat /\ Cardinality(InRelay(x)') \in Nat
      BY <2>3, FS_CardinalityType DEF IInv, Slots
    <3>2. ~(Cardinality(InRelay(x)) >= MaxRelay)
      BY DEF Serve, Busy
    <3> QED BY <2>3, <3>1, <3>2, PreviewGatewayAssumption
  <2> QED BY <2>1, <2>3, <2>4 DEF IInv, Slots
<1>3. TypeOK'
  BY <1>1, PreviewGatewayAssumption DEF IInv, TypeOK, Serve, AtRelay, Authorised, Goto, previews
<1>4. Tokens'
  BY PreviewGatewayAssumption DEF IInv, TypeOK, Tokens, Labels, Serve, AtRelay, Authorised, Goto, previews
<1>5. Labels'
  BY DEF IInv, TypeOK, Labels, Serve, AtRelay, Authorised, Goto, previews
<1> QED BY <1>1, <1>2, <1>3, <1>4, <1>5 DEF IInv

LEMMA AppAnswersStep ==
    ASSUME IInv, NEW r \in Request, AppAnswers(r)
    PROVE  IInv'
<1>1. Permits' /\ semaphore' \in [Preview -> 0..MaxRequests]
  BY DEF IInv, TypeOK, Permits, Held, AppAnswers, Streams
<1>2. Slots'
  <2>1. serving' = serving
    BY DEF AppAnswers, Streams
  <2> QED BY <2>1 DEF IInv, Slots, InRelay
<1>3. TypeOK'
  BY <1>1, PreviewGatewayAssumption DEF IInv, TypeOK, AppAnswers, Streams, Goto, previews
<1>4. Tokens'
  BY PreviewGatewayAssumption DEF IInv, TypeOK, Tokens, Labels, AppAnswers, Streams, Goto, previews
<1>5. Labels'
  BY DEF IInv, TypeOK, Labels, AppAnswers, Streams, Goto, previews
<1> QED BY <1>1, <1>2, <1>3, <1>4, <1>5 DEF IInv

LEMMA AppRefusedStep ==
    ASSUME IInv, NEW r \in Request, AppRefused(r)
    PROVE  IInv'
<1>1. Permits' /\ semaphore' \in [Preview -> 0..MaxRequests]
  BY ReleasePermits DEF IInv, AppRefused, Abandon
<1>2. Slots'
  <2>1. serving' = serving
    BY DEF AppRefused
  <2> QED BY <2>1 DEF IInv, Slots, InRelay
<1>3. TypeOK'
  BY <1>1, PreviewGatewayAssumption DEF IInv, TypeOK, AppRefused, Abandon, Release, Goto, previews
<1>4. Tokens'
  BY PreviewGatewayAssumption DEF IInv, TypeOK, Tokens, Labels, AppRefused, Abandon, Release, Goto, previews
<1>5. Labels'
  BY DEF IInv, TypeOK, Labels, AppRefused, Abandon, Release, Goto, previews
<1> QED BY <1>1, <1>2, <1>3, <1>4, <1>5 DEF IInv

LEMMA RelayReleasesStep ==
    ASSUME IInv, NEW r \in Request, RelayReleases(r)
    PROVE  IInv'
<1>1. Permits' /\ semaphore' \in [Preview -> 0..MaxRequests]
  BY DEF IInv, TypeOK, Permits, Held, RelayReleases
<1>2. Slots'
  <2>1. \A y \in Relay : InRelay(y)' \subseteq InRelay(y)
    BY PreviewGatewayAssumption DEF IInv, TypeOK, InRelay, RelayReleases
  <2> QED BY <2>1, SlotsShrink DEF IInv
<1>3. TypeOK'
  BY <1>1, PreviewGatewayAssumption DEF IInv, TypeOK, RelayReleases, CloseSeen, previews
<1>4. Tokens'
  BY PreviewGatewayAssumption DEF IInv, TypeOK, Tokens, Labels, RelayReleases, CloseSeen, previews
<1>5. Labels'
  BY DEF IInv, TypeOK, Labels, RelayReleases, CloseSeen, previews
<1> QED BY <1>1, <1>2, <1>3, <1>4, <1>5 DEF IInv

-----------------------------------------------------------------------------
LEMMA InitIInv == Init => IInv
<1> SUFFICES ASSUME Init PROVE IInv
  OBVIOUS
<1>1. TypeOK
  BY PreviewGatewayAssumption DEF Init, TypeOK
<1>2. Permits
  <2>1. \A p \in Preview : Held(p) = {} /\ semaphore[p] = MaxRequests
    BY DEF Init, Held
  <2> QED BY <2>1, FS_EmptySet, PreviewGatewayAssumption DEF Permits
<1>3. Slots
  <2>1. \A x \in Relay : InRelay(x) = {}
    BY PreviewGatewayAssumption DEF Init, InRelay
  <2> QED BY <2>1, FS_EmptySet, PreviewGatewayAssumption DEF Slots
<1>4. Tokens /\ Labels
  BY DEF Init, Tokens, Labels
<1> QED BY <1>1, <1>2, <1>3, <1>4 DEF IInv

LEMMA NextIInv == IInv /\ [Next]_vars => IInv'
<1> SUFFICES ASSUME IInv, [Next]_vars PROVE IInv'
  OBVIOUS
<1>1. CASE UNCHANGED vars
  BY <1>1 DEF IInv, TypeOK, Permits, Held, Slots, InRelay, Tokens, Labels, vars, previews
<1>2. ASSUME NEW p \in Preview,
             PreviewStops(p) \/ \E x \in Relay, n \in Port : PreviewStarts(p, x, n)
      PROVE  IInv'
  BY <1>2, PreviewStopsStep, PreviewStartsStep
<1>3. ASSUME NEW x \in Relay, RelayDies(x) PROVE IInv'
  BY <1>3, RelayDiesStep
<1>4. ASSUME NEW r \in Request, Gateway(r) PROVE IInv'
  BY <1>4, TransportRaisesStep, AppAnswersStep, AppRefusedStep, StreamEndsStep, DenyStep,
     ServeStep DEF Gateway
<1>5. ASSUME NEW r \in Request,
             \/ Resolve(r) \/ Refuse(r) \/ Admit(r) \/ TooMany(r)
             \/ DeadlinePasses(r) \/ SendChunk(r) \/ ClientReads(r) \/ ClientLeaves(r)
             \/ RelayReleases(r)
      PROVE  IInv'
  BY <1>5, ResolveStep, RefuseStep, AdmitStep, TooManyStep, DeadlinePassesStep,
     SendChunkStep, ClientReadsStep, ClientLeavesStep, RelayReleasesStep
<1> QED BY <1>1, <1>2, <1>3, <1>4, <1>5 DEF Next

LEMMA Invariance == Spec => []IInv
BY InitIInv, NextIInv, PTL DEF Spec

-----------------------------------------------------------------------------
(* The theorems.                                                           *)

\* gateway.py and preview_relay.js keep their variables in their ranges; a
\* semaphore is never released above its limit.
THEOREM TypeCorrect == Spec => []TypeOK
BY Invariance, PTL DEF IInv

\* The token a relay asks for keeps every response to the preview of its request,
\* however many previews stop, start and reuse ports meanwhile.
THEOREM AnswersAreOwn == Spec => []NeverAnothersApp
<1>1. IInv => NeverAnothersApp
  BY DEF IInv, Tokens, NeverAnothersApp
<1> QED BY <1>1, Invariance, PTL

\* The free permits of a preview and its requests in progress always make up
\* max_concurrent_requests: none is lost and none given back twice.
THEOREM PermitsCorrect == Spec => []PermitsAddUp
<1>1. ASSUME IInv, NEW p \in Preview
      PROVE  InGateway(p) = Held(p)
  BY <1>1 DEF IInv, TypeOK, Labels, InGateway, Held
<1>2. ASSUME IInv, NEW p \in Preview
      PROVE  /\ Cardinality(Held(p)) <= MaxRequests
             /\ semaphore[p] + Cardinality(Held(p)) = MaxRequests
  <2>1. IsFiniteSet(Held(p)) /\ semaphore[p] + Cardinality(Held(p)) = MaxRequests
    BY <1>2 DEF IInv, Permits
  <2>2. Cardinality(Held(p)) \in Nat /\ semaphore[p] \in Nat
    BY <1>2, <2>1, FS_CardinalityType, PreviewGatewayAssumption DEF IInv, TypeOK
  <2> QED BY <2>1, <2>2, PreviewGatewayAssumption
<1>3. IInv => PermitsAddUp
  BY <1>1, <1>2 DEF Held, PermitsAddUp
<1> QED BY <1>3, Invariance, PTL

\* A client is told 429 only while max_concurrent_requests requests to its preview
\* are in progress.
THEOREM BusyOnlyWhenFull ==
    Spec => [][\A r \in Request : TooMany(r) =>
                   Cardinality(InGateway(PreviewOf[r])) = MaxRequests]_vars
<1>1. ASSUME IInv, NEW r \in Request, TooMany(r)
      PROVE  Cardinality(InGateway(PreviewOf[r])) = MaxRequests
  <2> DEFINE q == PreviewOf[r]
  <2>1. q \in Preview /\ semaphore[q] = 0
    BY <1>1, PreviewGatewayAssumption DEF TooMany, Locked
  <2>2. InGateway(q) = Held(q)
    BY <1>1 DEF IInv, TypeOK, Labels, InGateway, Held
  <2>3. IsFiniteSet(Held(q)) /\ semaphore[q] + Cardinality(Held(q)) = MaxRequests
    BY <1>1, <2>1 DEF IInv, Permits
  <2>4. Cardinality(Held(q)) \in Nat
    BY <2>3, FS_CardinalityType
  <2> HIDE DEF q
  <2>5. Cardinality(Held(q)) = MaxRequests
    BY <2>1, <2>3, <2>4, PreviewGatewayAssumption
  <2> QED BY <2>2, <2>5 DEF q
<1>2. IInv => (\A r \in Request : TooMany(r) =>
                   Cardinality(InGateway(PreviewOf[r])) = MaxRequests)
  BY <1>1
<1> QED BY <1>2, Invariance, PTL

\* `active` of preview_relay.js never passes MAX_CONCURRENT, and every request it
\* counts is one for the preview of its own run.
THEOREM RelaysBounded == Spec => []RelayBounded
<1>1. IInv => RelayBounded
  BY PreviewGatewayAssumption DEF IInv, Slots, Tokens, InRelay, RelayBounded
<1> QED BY <1>1, Invariance, PTL
=============================================================================
