------------------------ MODULE TunnelSessionProofs -------------------------
(***************************************************************************)
(* What the steps of the tunnels have in common.  First, every step keeps  *)
(* the state well-typed: one lemma per action; in particular a             *)
(* half-initialized session never leaves the uninit slot.  Then the places *)
(* a session can be in and how it moves between them, what the table       *)
(* holds, and what a step that leaves a part of the state alone keeps of   *)
(* the invariant.                                                          *)
(***************************************************************************)
EXTENDS Tunnel, TLAPS

AnySession == HalfSession \cup FullSession

\* The device of a peer object and the device it stands for are nodes.
LEMMA PeerEnds ==
  ASSUME NEW l \in Peers
  PROVE  l[1] \in Nodes /\ l[2] \in Nodes /\ l[1] # l[2] /\ l = <<l[1], l[2]>>
BY DEF Peers

\* A session is not the empty slot.
LEMMA SessionNotNone ==
  /\ \A s \in HalfSession : s # None
  /\ \A s \in FullSession : s # None
BY NoneAssumption, Zenon

\* Counting one more delivery of packet m.
LEMMA TallyDomain ==
  \A B, m : DOMAIN Tally(B, m) = DOMAIN B \cup {m}
BY Zenon DEF Tally

-----------------------------------------------------------------------------
\* Type correctness

\* A daemon that has just started is well-typed.
LEMMA InitType == Init => TypeOK
BY TunnelAssumption
   DEF Init, TypeOK, NewActiveSession, SlotsType, Idle, Task, Indices

\* initiate makes a half-initialized session under the next index.
LEMMA InitiateType ==
  ASSUME TypeOK, NEW l \in Peers, Initiate(l)
  PROVE  TypeOK'
<1>1. l[1] \in Nodes /\ l[2] \in Nodes
  BY PeerEnds, Zenon
<1> DEFINE i == nextIndex[l[1]]
           s == [peer |-> l[2], local |-> i, remote |-> 0, key |-> None]
<1>2. i \in Indices /\ i + 1 \in 1 .. MaxIndex + 1 /\ i \in Nat
  BY TunnelAssumption DEF Initiate, Indices
<1>3. s \in HalfSession
  BY <1>1, <1>2, Zenon DEF HalfSession
<1>4. nextIndex' = [nextIndex EXCEPT ![l[1]] = i + 1]
      /\ handshake' = [handshake EXCEPT ![l] = i]
      /\ hsTask' = [hsTask EXCEPT ![l] = s]
  BY Zenon DEF Initiate
<1>5. nextIndex' \in [Nodes -> 1 .. MaxIndex + 1]
  BY <1>1, <1>2, <1>4, Zenon DEF TypeOK
<1>6. handshake' \in [Peers -> Nat]
  BY <1>2, <1>4, Zenon DEF TypeOK
<1>7. hsTask' \in [Peers -> HalfSession \cup {None}]
  BY <1>3, <1>4, Zenon DEF TypeOK
<1>8. QED
  BY <1>5, <1>6, <1>7, Zenon DEF Initiate, TypeOK, sessVars, netVars

\* prepare_uninit puts a half-initialized session in the uninit slot only.
LEMMA PrepareUninitType ==
  ASSUME TypeOK, NEW l \in Peers, PrepareUninit(l)
  PROVE  TypeOK'
<1>1. l[1] \in Nodes /\ l[2] \in Nodes
  BY PeerEnds, Zenon
<1>2. hsTask[l] \in HalfSession /\ slots[l] \in SlotsType /\ index[l[1]] \subseteq AnySession
  BY <1>1, Zenon DEF PrepareUninit, TypeOK, AnySession
<1>3. prepare_uninit(slots[l], hsTask[l]) \in SlotsType
  BY <1>2, Zenon DEF prepare_uninit, SlotsType
<1>4. prepare_uninit_index(slots[l], index[l[1]], hsTask[l]) \subseteq AnySession
  BY <1>2, Zenon DEF prepare_uninit_index, insert, deactivate, remove, AnySession
<1>5. [src |-> l[1], dst |-> l[2], index |-> hsTask[l].local] \in Initiation
  BY <1>1, <1>2, Zenon DEF HalfSession, Initiation
<1>6. slots' \in [Peers -> SlotsType]
  BY <1>3, Zenon DEF PrepareUninit, TypeOK
<1>7. index' \in [Nodes -> SUBSET (HalfSession \cup FullSession)]
  BY <1>1, <1>4, Zenon DEF PrepareUninit, TypeOK, AnySession
<1>8. initiations' \subseteq Initiation
  BY <1>5, Zenon DEF PrepareUninit, TypeOK
<1>9. hsTask' \in [Peers -> HalfSession \cup {None}]
  BY Zenon DEF PrepareUninit, TypeOK
<1>10. QED
  BY <1>6, <1>7, <1>8, <1>9, Zenon DEF PrepareUninit, TypeOK, sessVars

\* stage_inbound appends one event.
LEMMA StageType ==
  ASSUME TypeOK, NEW l, NEW e \in Event, Stage(l, e)
  PROVE  TypeOK'
<1>1. inq' \in [Peers -> Seq(Event)]
  BY DEF Stage, TypeOK
<1>2. QED
  BY <1>1, Zenon DEF Stage, TypeOK, deviceVars, sessVars, netVars

\* tick_inbound queues a datagram with the session the table gave it.
LEMMA ReceiveType ==
  ASSUME TypeOK,
         \/ \E m \in initiations : ReceiveInitiation(m)
         \/ \E m \in responses : ReceiveResponse(m)
         \/ \E m \in transport : ReceiveTransport(m)
  PROVE  TypeOK'
<1>1. CASE \E m \in initiations : ReceiveInitiation(m)
  <2>1. PICK m \in initiations : ReceiveInitiation(m)
    BY <1>1, Zenon
  <2>2. [kind |-> "initiation", msg |-> m, session |-> None] \in Event
    BY Zenon DEF Event, TypeOK
  <2>3. QED
    BY <2>1, <2>2, StageType, Zenon DEF ReceiveInitiation
<1>2. CASE \E m \in responses : ReceiveResponse(m)
  <2>1. PICK m \in responses : ReceiveResponse(m)
    BY <1>2, Zenon
  <2>2. m \in Response /\ m.dst \in Nodes
    BY Zenon DEF TypeOK, Response
  <2>3. PICK s \in index[m.dst] :
          Stage(<<m.dst, s.peer>>, [kind |-> "response", msg |-> m, session |-> s])
    BY <2>1, Zenon DEF ReceiveResponse
  <2>4. s \in HalfSession \cup FullSession
    BY <2>2, <2>3, Zenon DEF TypeOK
  <2>5. [kind |-> "response", msg |-> m, session |-> s] \in Event
    BY <2>2, <2>4, Zenon DEF Event
  <2>6. QED
    BY <2>3, <2>5, StageType, Zenon
<1>3. CASE \E m \in transport : ReceiveTransport(m)
  <2>1. PICK m \in transport : ReceiveTransport(m)
    BY <1>3, Zenon
  <2>2. m \in Transport /\ m.dst \in Nodes
    BY Zenon DEF TypeOK, Transport
  <2>3. PICK s \in index[m.dst] :
          Stage(<<m.dst, s.peer>>, [kind |-> "transport", msg |-> m, session |-> s])
    BY <2>1, Zenon DEF ReceiveTransport
  <2>4. s \in HalfSession \cup FullSession
    BY <2>2, <2>3, Zenon DEF TypeOK
  <2>5. [kind |-> "transport", msg |-> m, session |-> s] \in Event
    BY <2>2, <2>4, Zenon DEF Event
  <2>6. QED
    BY <2>3, <2>5, StageType, Zenon
<1>4. QED
  BY <1>1, <1>2, <1>3, Zenon

\* The head of a peer's queue, by kind, and the queue without it.
LEMMA HeadType ==
  ASSUME TypeOK, NEW l \in Peers, inq[l] # <<>>
  PROVE  /\ Head(inq[l]) \in Event
         /\ Tail(inq[l]) \in Seq(Event)
         /\ Head(inq[l]) = inq[l][1]
         /\ Len(inq[l]) \in Nat /\ Len(inq[l]) >= 1
         /\ Len(Tail(inq[l])) = Len(inq[l]) - 1
         /\ \A i \in 1 .. Len(Tail(inq[l])) : Tail(inq[l])[i] = inq[l][i + 1]
         /\ Head(inq[l]).kind = "initiation" => Head(inq[l]).msg \in Initiation
         /\ Head(inq[l]).kind = "response" => Head(inq[l]).msg \in Response
         /\ Head(inq[l]).kind = "transport" =>
              Head(inq[l]).msg \in Transport /\ Head(inq[l]).session \in AnySession
<1>1. inq[l] \in Seq(Event)
  BY Zenon DEF TypeOK
<1>2. Head(inq[l]) \in Event
  BY <1>1
<1>3. QED
  BY <1>1, <1>2 DEF Event, AnySession

\* respond makes a session with both indices and a key.
LEMMA RespondType ==
  ASSUME TypeOK, NEW l \in Peers, Respond(l)
  PROVE  TypeOK'
<1>1. l[1] \in Nodes /\ l[2] \in Nodes
  BY PeerEnds, Zenon
<1> DEFINE m == Head(inq[l]).msg
           j == nextIndex[l[1]]
           k == [initiator |-> m.src, iIndex |-> m.index, responder |-> l[1], rIndex |-> j]
           s == [peer |-> l[2], local |-> j, remote |-> m.index, key |-> k]
<1>2. m \in Initiation /\ Tail(inq[l]) \in Seq(Event)
  BY HeadType, Zenon DEF Respond
<1>3. j \in Indices /\ j + 1 \in 1 .. MaxIndex + 1
  BY TunnelAssumption DEF Respond, Indices
<1>4. s \in FullSession
  BY <1>1, <1>2, <1>3, Zenon DEF FullSession, Key, Initiation
<1>5. [pc |-> "respond", session |-> s] \in Task
  BY <1>4, Zenon DEF Task
<1>6. inTask' = [inTask EXCEPT ![l] = [pc |-> "respond", session |-> s]]
      /\ nextIndex' = [nextIndex EXCEPT ![l[1]] = j + 1]
      /\ inq' = [inq EXCEPT ![l] = Tail(inq[l])]
  BY Zenon DEF Respond
<1>7. inTask' \in [Peers -> Task]
  BY <1>5, <1>6, Zenon DEF TypeOK
<1>8. nextIndex' \in [Nodes -> 1 .. MaxIndex + 1]
  BY <1>1, <1>3, <1>6, Zenon DEF TypeOK
<1>9. inq' \in [Peers -> Seq(Event)]
  BY <1>2, <1>6, Zenon DEF TypeOK
<1>10. QED
  BY <1>7, <1>8, <1>9, Zenon DEF Respond, TypeOK, sessVars, netVars

\* The session the inbound task holds between two of its lock regions.
LEMMA TaskType ==
  ASSUME TypeOK, NEW l \in Peers
  PROVE  /\ inTask[l].pc = "respond" => inTask[l].session \in FullSession
         /\ inTask[l].pc = "finalize" => inTask[l].session \in FullSession
         /\ inTask[l] \in Task
BY Zenon DEF TypeOK, Task

\* prepare_next moves only sessions that have a key.
LEMMA PrepareNextType ==
  ASSUME TypeOK, NEW l \in Peers, PrepareNext(l)
  PROVE  TypeOK'
<1>1. l[1] \in Nodes /\ l[2] \in Nodes
  BY PeerEnds, Zenon
<1> DEFINE s == inTask[l].session
<1>2. s \in FullSession /\ s.local \in Indices /\ s.remote \in Indices
  BY TaskType, Zenon DEF PrepareNext, FullSession
<1>3. slots[l] \in SlotsType /\ index[l[1]] \subseteq AnySession
  BY <1>1, Zenon DEF TypeOK, AnySession
<1>4. prepare_next(slots[l], s) \in SlotsType
  BY <1>2, <1>3, Zenon DEF prepare_next, SlotsType
<1>5. prepare_next_index(slots[l], index[l[1]], s) \subseteq AnySession
  BY <1>2, <1>3, Zenon DEF prepare_next_index, insert, deactivate, remove, AnySession
<1>6. [src |-> l[1], dst |-> l[2], index |-> s.local, to |-> s.remote] \in Response
  BY <1>1, <1>2, Zenon DEF Response
<1>7. /\ slots' = [slots EXCEPT ![l] = prepare_next(slots[l], s)]
      /\ index' = [index EXCEPT ![l[1]] = prepare_next_index(slots[l], index[l[1]], s)]
      /\ nonce' = [nonce EXCEPT ![<<l[1], s.local>>] = 0]
      /\ filter' = [filter EXCEPT ![<<l[1], s.local>>] = {}]
  BY Zenon DEF PrepareNext
<1>8. slots' \in [Peers -> SlotsType]
  BY <1>4, <1>7, Zenon DEF TypeOK
<1>9. index' \in [Nodes -> SUBSET (HalfSession \cup FullSession)]
  BY <1>1, <1>5, <1>7, Zenon DEF TypeOK, AnySession
<1>10. nonce' \in [Nodes \X Indices -> Nat]
  BY <1>1, <1>2, <1>7, Zenon DEF TypeOK
<1>11. filter' \in [Nodes \X Indices -> SUBSET Nat]
  BY <1>1, <1>2, <1>7, Zenon DEF TypeOK
<1>12. responses' \subseteq Response
  BY <1>6, Zenon DEF PrepareNext, TypeOK
<1>13. inTask' \in [Peers -> Task] /\ inq' \in [Peers -> Seq(Event)]
  <2>1. Idle \in Task /\ Dead \in Task /\ <<>> \in Seq(Event)
    BY DEF Idle, Dead, Task
  <2>2. QED
    BY <2>1, Zenon DEF PrepareNext, TypeOK
<1>14. QED
  BY <1>8, <1>9, <1>10, <1>11, <1>12, <1>13, Zenon DEF PrepareNext, TypeOK

\* finalize makes a session with both indices and a key.
LEMMA FinalizeType ==
  ASSUME TypeOK, NEW l \in Peers, Finalize(l)
  PROVE  TypeOK'
<1>1. l[1] \in Nodes /\ l[2] \in Nodes
  BY PeerEnds, Zenon
<1> DEFINE m == Head(inq[l]).msg
           k == [initiator |-> l[1], iIndex |-> m.to, responder |-> m.src, rIndex |-> m.index]
           s == [peer |-> l[2], local |-> m.to, remote |-> m.index, key |-> k]
<1>2. m \in Response /\ Tail(inq[l]) \in Seq(Event)
  BY HeadType, Zenon DEF Finalize
<1>3. s \in FullSession
  BY <1>1, <1>2, Zenon DEF FullSession, Key, Response
<1>4. [pc |-> "finalize", session |-> s] \in Task
  BY <1>3, Zenon DEF Task
<1>5. inTask' = (IF Verifies(l, m)
                   THEN [inTask EXCEPT ![l] = [pc |-> "finalize", session |-> s]]
                   ELSE inTask)
      /\ inq' = [inq EXCEPT ![l] = Tail(inq[l])]
  BY Zenon DEF Finalize
<1>6. inTask' \in [Peers -> Task]
  BY <1>4, <1>5, Zenon DEF TypeOK
<1>7. inq' \in [Peers -> Seq(Event)]
  BY <1>2, <1>5, Zenon DEF TypeOK
<1>8. QED
  BY <1>6, <1>7, Zenon DEF Finalize, TypeOK, deviceVars, sessVars, netVars

\* complete_uninit replaces the half-initialized session by a full one.
LEMMA CompleteUninitType ==
  ASSUME TypeOK, NEW l \in Peers, CompleteUninit(l)
  PROVE  TypeOK'
<1>1. l[1] \in Nodes /\ l[2] \in Nodes
  BY PeerEnds, Zenon
<1> DEFINE s == inTask[l].session
<1>2. s \in FullSession /\ s.local \in Indices
  BY TaskType, Zenon DEF CompleteUninit, FullSession
<1>3. slots[l] \in SlotsType /\ index[l[1]] \subseteq AnySession
  BY <1>1, Zenon DEF TypeOK, AnySession
<1>4. CASE completes_uninit(slots[l], s)
  <2>1. complete_uninit(slots[l], s) \in SlotsType
    BY <1>2, <1>3, Zenon DEF complete_uninit, SlotsType
  <2>2. complete_uninit_index(slots[l], index[l[1]], s) \subseteq AnySession
    BY <1>2, <1>3, Zenon DEF complete_uninit_index, insert, deactivate, remove, AnySession
  <2>3. /\ slots' = [slots EXCEPT ![l] = complete_uninit(slots[l], s)]
        /\ index' = [index EXCEPT ![l[1]] = complete_uninit_index(slots[l], index[l[1]], s)]
        /\ nonce' = [nonce EXCEPT ![<<l[1], s.local>>] = 0]
        /\ filter' = [filter EXCEPT ![<<l[1], s.local>>] = {}]
        /\ inTask' = [inTask EXCEPT ![l] = [pc |-> "confirm", session |-> None]]
    BY <1>4, Zenon DEF CompleteUninit
  <2>4. slots' \in [Peers -> SlotsType]
    BY <2>1, <2>3, Zenon DEF TypeOK
  <2>5. index' \in [Nodes -> SUBSET (HalfSession \cup FullSession)]
    BY <1>1, <2>2, <2>3, Zenon DEF TypeOK, AnySession
  <2>6. nonce' \in [Nodes \X Indices -> Nat]
    BY <1>1, <1>2, <2>3, Zenon DEF TypeOK
  <2>7. filter' \in [Nodes \X Indices -> SUBSET Nat]
    BY <1>1, <1>2, <2>3, Zenon DEF TypeOK
  <2>8. [pc |-> "confirm", session |-> None] \in Task
    BY Zenon DEF Task
  <2>9. inTask' \in [Peers -> Task]
    BY <2>3, <2>8, Zenon DEF TypeOK
  <2>10. QED
    BY <2>4, <2>5, <2>6, <2>7, <2>9, Zenon DEF CompleteUninit, TypeOK, netVars
<1>5. CASE ~ completes_uninit(slots[l], s)
  <2>1. Idle \in Task
    BY Zenon DEF Idle, Task
  <2>2. inTask' = [inTask EXCEPT ![l] = Idle] /\ UNCHANGED <<slots, index, nonce, filter>>
    BY <1>5, Zenon DEF CompleteUninit
  <2>3. inTask' \in [Peers -> Task]
    BY <2>1, <2>2, Zenon DEF TypeOK
  <2>4. QED
    BY <2>2, <2>3, Zenon DEF CompleteUninit, TypeOK, netVars
<1>6. QED
  BY <1>4, <1>5, Zenon

\* The confirmation is one empty packet for the outbound task.
LEMMA StageConfirmationType ==
  ASSUME TypeOK, NEW l \in Peers, StageConfirmation(l)
  PROVE  TypeOK'
<1>1. Idle \in Task
  BY Zenon DEF Idle, Task
<1>2. inTask' \in [Peers -> Task]
  BY <1>1, Zenon DEF StageConfirmation, TypeOK
<1>3. outq' \in [Peers -> Seq({"data", "empty"})]
  BY DEF StageConfirmation, TypeOK
<1>4. QED
  BY <1>2, <1>3, Zenon DEF StageConfirmation, TypeOK, deviceVars, sessVars, netVars

\* What handle_transport_data does to the slots and the table.
LEMMA HandleTransportSlots ==
  ASSUME TypeOK, NEW l \in Peers, HandleTransport(l)
  PROVE  LET s == Head(inq[l]).session
         IN  \/ /\ completes_next(slots[l], s)
                /\ slots' = [slots EXCEPT ![l] = complete_next(slots[l], s)]
                /\ index' = [index EXCEPT ![l[1]] = complete_next_index(slots[l], index[l[1]], s)]
             \/ ~ completes_next(slots[l], s) /\ slots' = slots /\ index' = index
<1>1. ConfirmNext(l, Head(inq[l]).session)
  BY Zenon DEF HandleTransport
<1>2. QED
  BY <1>1, Zenon DEF ConfirmNext

\* What handle_transport_data does to the filter and the TUN device.
LEMMA HandleTransportDelivery ==
  ASSUME NEW l \in Peers, NEW m, NEW s, HandleTransport(l),
         m = Head(inq[l]).msg, s = Head(inq[l]).session
  PROVE  \/ Deliver(l, m, s) /\ DOMAIN delivered' = DOMAIN delivered \cup {m}
         \/ filter' = filter /\ delivered' = delivered
<1>1. Deliver(l, m, s) \/ Drop(l, m, s)
  BY Zenon DEF HandleTransport
<1>2. Deliver(l, m, s) => delivered' = Tally(delivered, m)
  BY Zenon DEF Deliver
<1>3. Drop(l, m, s) => filter' = filter /\ delivered' = delivered
  BY Zenon DEF Drop
<1>4. QED
  BY <1>1, <1>2, <1>3, TallyDomain, Zenon

\* What handle_transport_data records in the filter.
LEMMA HandleTransportFilter ==
  ASSUME NEW l \in Peers, NEW m, NEW s, HandleTransport(l),
         m = Head(inq[l]).msg, s = Head(inq[l]).session
  PROVE  \/ filter' = [filter EXCEPT ![<<l[1], s.local>>] = filter[<<l[1], s.local>>] \cup {m.counter}]
         \/ filter' = filter
<1>1. Deliver(l, m, s) \/ filter' = filter
  BY HandleTransportDelivery, Zenon
<1>2. QED
  BY <1>1, Zenon, Zenon DEF Deliver

\* handle_transport_data keeps slots, table and filter well-typed.
LEMMA HandleTransportType ==
  ASSUME TypeOK, NEW l \in Peers, HandleTransport(l),
         Head(inq[l]).session \in FullSession
  PROVE  TypeOK'
<1>1. l[1] \in Nodes /\ l[2] \in Nodes
  BY PeerEnds, Zenon
<1> DEFINE m == Head(inq[l]).msg
           s == Head(inq[l]).session
<1>2. m \in Transport /\ s.local \in Indices /\ Tail(inq[l]) \in Seq(Event)
  BY HeadType, Zenon DEF HandleTransport, FullSession
<1>3. slots[l] \in SlotsType /\ index[l[1]] \subseteq AnySession
  BY <1>1, Zenon DEF TypeOK, AnySession
<1>4. complete_next(slots[l], s) \in SlotsType
  BY <1>3, Zenon DEF complete_next, SlotsType
<1>5. complete_next_index(slots[l], index[l[1]], s) \subseteq AnySession
  BY <1>3, Zenon DEF complete_next_index, insert, deactivate, remove, AnySession
<1>6. slots' \in [Peers -> SlotsType]
  BY <1>4, HandleTransportSlots, Zenon DEF TypeOK
<1>7. index' \in [Nodes -> SUBSET (HalfSession \cup FullSession)]
  <2> DEFINE x == complete_next_index(slots[l], index[l[1]], s)
  <2>1. index \in [Nodes -> SUBSET (HalfSession \cup FullSession)]
    BY Zenon DEF TypeOK
  <2>2. index' = [index EXCEPT ![l[1]] = x] \/ index' = index
    BY HandleTransportSlots, Zenon
  <2>3. x \in SUBSET (HalfSession \cup FullSession)
    BY <1>5, Zenon DEF AnySession
  <2> HIDE DEF x
  <2>4. QED
    BY <1>1, <2>1, <2>2, <2>3, Zenon
<1>8. filter' \in [Nodes \X Indices -> SUBSET Nat]
  <2>1. filter[<<l[1], s.local>>] \cup {m.counter} \in SUBSET Nat
    <3>1. filter \in [Nodes \X Indices -> SUBSET Nat]
      BY Zenon DEF TypeOK
    <3>2. filter[<<l[1], s.local>>] \in SUBSET Nat
      BY <1>1, <1>2, <3>1, Zenon
    <3>3. m.counter \in Nat
      BY <1>2, Zenon DEF Transport
    <3>4. QED
      BY <3>2, <3>3, Zenon
  <2>2. \/ filter' = [filter EXCEPT ![<<l[1], s.local>>] = filter[<<l[1], s.local>>] \cup {m.counter}]
        \/ filter' = filter
    BY HandleTransportFilter, Zenon
  <2>3. filter \in [Nodes \X Indices -> SUBSET Nat]
    BY Zenon DEF TypeOK
  <2> DEFINE y == filter[<<l[1], s.local>>] \cup {m.counter}
  <2>4. y \in SUBSET Nat /\ (filter' = [filter EXCEPT ![<<l[1], s.local>>] = y] \/ filter' = filter)
    BY <2>1, <2>2, Zenon
  <2>5. s.local \in Indices
    BY <1>2, Zenon
  <2> HIDE DEF y, s
  <2>6. CASE filter' = [filter EXCEPT ![<<l[1], s.local>>] = y]
    BY <1>1, <2>3, <2>4, <2>5, <2>6, Zenon
  <2>7. QED
    BY <2>3, <2>4, <2>6, Zenon
<1>9. DOMAIN delivered' \subseteq Transport
  <2>1. DOMAIN delivered' = DOMAIN delivered \/ DOMAIN delivered' = DOMAIN delivered \cup {m}
    BY HandleTransportDelivery, Zenon
  <2>2. QED
    BY <1>2, <2>1, Zenon DEF TypeOK
<1>10. inq' \in [Peers -> Seq(Event)]
  BY <1>2, Zenon DEF HandleTransport, TypeOK
<1>11. QED
  BY <1>6, <1>7, <1>8, <1>9, <1>10, Zenon DEF HandleTransport, TypeOK, netVars

\* stage_outbound appends one packet.
LEMMA StageOutboundType ==
  ASSUME TypeOK, NEW l \in Peers, NEW p \in Traffic, StageOutbound(l, p)
  PROVE  TypeOK'
<1>1. p \in {"data", "empty"}
  BY TunnelAssumption, Zenon
<1>2. outq' \in [Peers -> Seq({"data", "empty"})]
  BY <1>1 DEF StageOutbound, TypeOK
<1>3. QED
  BY <1>2, Zenon DEF StageOutbound, TypeOK, deviceVars, sessVars, netVars

\* tick_outbound sends a well-formed packet and counts it.
LEMMA TickOutboundType ==
  ASSUME TypeOK, NEW l \in Peers, TickOutbound(l)
  PROVE  TypeOK'
<1>1. l[1] \in Nodes /\ l[2] \in Nodes
  BY PeerEnds, Zenon
<1> DEFINE s == slots[l].current
<1>2. outq' \in [Peers -> Seq({"data", "empty"})]
  <2>1. outq[l] \in Seq({"data", "empty"}) /\ outq[l] # <<>>
    BY Zenon DEF TickOutbound, TypeOK
  <2>2. Tail(outq[l]) \in Seq({"data", "empty"})
    BY <2>1
  <2>3. QED
    BY <2>2, Zenon DEF TickOutbound, TypeOK
<1>3. CASE s = None
  BY <1>2, <1>3, Zenon DEF TickOutbound, TypeOK, deviceVars
<1>4. CASE s # None
  <2>1. s \in FullSession
    BY <1>4, Zenon DEF TypeOK, SlotsType
  <2>2. s.local \in Indices /\ s.remote \in Indices /\ s.key \in Key
    BY <2>1, Zenon DEF FullSession
  <2>3. nonce[<<l[1], s.local>>] \in Nat
    BY <1>1, <2>2, Zenon DEF TypeOK
  <2> DEFINE e == Head(outq[l]) = "empty"
             m == [src |-> l[1], dst |-> l[2], to |-> s.remote, key |-> s.key,
                   counter |-> nonce[<<l[1], s.local>>], empty |-> e]
  <2>4. transport' = transport \cup {m}
    BY <1>4, Zenon DEF TickOutbound
  <2>5. transport' \subseteq Transport
    <3>1. e \in BOOLEAN
      BY Zenon
    <3> HIDE DEF e
    <3>2. m \in Transport
      BY <1>1, <2>2, <2>3, <3>1, Zenon DEF Transport
    <3>3. QED
      BY <2>4, <3>2, Zenon DEF TypeOK
  <2>6. nonce' = [nonce EXCEPT ![<<l[1], s.local>>] = nonce[<<l[1], s.local>>] + 1]
    BY <1>4, Zenon DEF TickOutbound
  <2>7. nonce' \in [Nodes \X Indices -> Nat]
    <3> DEFINE y == nonce[<<l[1], s.local>>] + 1
               i == s.local
    <3>1. y \in Nat /\ i \in Indices /\ nonce' = [nonce EXCEPT ![<<l[1], i>>] = y]
      BY <2>2, <2>3, <2>6
    <3>2. nonce \in [Nodes \X Indices -> Nat]
      BY Zenon DEF TypeOK
    <3> HIDE DEF y, i
    <3>3. QED
      BY <1>1, <3>1, <3>2, Zenon
  <2>8. QED
    BY <1>2, <2>5, <2>7, Zenon DEF TickOutbound, TypeOK, deviceVars
<1>5. QED
  BY <1>3, <1>4, Zenon

\* A restarted daemon is well-typed.
LEMMA RestartType ==
  ASSUME TypeOK, NEW n \in Nodes, Restart(n)
  PROVE  TypeOK'
<1>1. NewActiveSession \in SlotsType /\ Idle \in Task /\ <<>> \in Seq(Event)
      /\ <<>> \in Seq({"data", "empty"})
  BY DEF NewActiveSession, SlotsType, Idle, Task
<1>2. index' \in [Nodes -> SUBSET (HalfSession \cup FullSession)]
  BY Zenon DEF Restart, TypeOK
<1>3. handshake' \in [Peers -> Nat] /\ hsTask' \in [Peers -> HalfSession \cup {None}]
  BY Zenon DEF Restart, TypeOK
<1>4. slots' \in [Peers -> SlotsType]
  BY <1>1, Zenon DEF Restart, TypeOK
<1>5. inTask' \in [Peers -> Task]
  BY <1>1, Zenon DEF Restart, TypeOK
<1>6. inq' \in [Peers -> Seq(Event)] /\ outq' \in [Peers -> Seq({"data", "empty"})]
  BY <1>1, Zenon DEF Restart, TypeOK
<1>7. restarts' \in Nat
  BY DEF Restart, TypeOK
<1>8. QED
  BY <1>2, <1>3, <1>4, <1>5, <1>6, <1>7, Zenon DEF Restart, TypeOK, sessVars

-----------------------------------------------------------------------------
\* Sessions, their places and the table

\* The next index of a device is a number.
LEMMA NextIndexNat ==
  ASSUME TypeOK
  PROVE  /\ \A n \in Nodes : nextIndex[n] \in Nat
         /\ \A l \in Peers : nextIndex[l[1]] \in Nat
<1>1. nextIndex \in [Nodes -> 1 .. MaxIndex + 1]
  BY Zenon DEF TypeOK
<1>2. \A n \in Nodes : nextIndex[n] \in Nat
  BY <1>1, TunnelAssumption
<1>3. QED
  BY <1>2, PeerEnds, Zenon

\* The key of a session this device initiated, field by field.
LEMMA InitiatorKey ==
  ASSUME NEW l, NEW s, AsInitiator(l, s)
  PROVE  /\ s.key.initiator = l[1] /\ s.key.iIndex = s.local
         /\ s.key.responder = l[2] /\ s.key.rIndex = s.remote
BY DEF AsInitiator

-----------------------------------------------------------------------------
\* Where the sessions of a peer are

\* The six places a session can be in, before a step.
LEMMA AtIs ==
  \A l : /\ At(l, "uninit") = slots[l].uninit
         /\ At(l, "previous") = slots[l].previous
         /\ At(l, "current") = slots[l].current
         /\ At(l, "next") = slots[l].next
         /\ At(l, "hs") = hsTask[l]
         /\ At(l, "respond") = IF inTask[l].pc = "respond" THEN inTask[l].session ELSE None
BY Zenon DEF At

\* The six places a session can be in, after a step.
LEMMA AtIsNext ==
  \A l : /\ At(l, "uninit")' = slots'[l].uninit
         /\ At(l, "previous")' = slots'[l].previous
         /\ At(l, "current")' = slots'[l].current
         /\ At(l, "next")' = slots'[l].next
         /\ At(l, "hs")' = hsTask'[l]
         /\ At(l, "respond")' = IF inTask'[l].pc = "respond" THEN inTask'[l].session ELSE None
BY Zenon DEF At

\* The slots after the initiator completes its session (complete_uninit).
LEMMA CompleteUninitSlots ==
  ASSUME NEW a, NEW b, NEW s, b = complete_uninit(a, s)
  PROVE  b.uninit = None /\ b.previous = a.current /\ b.current = s /\ b.next = a.next
BY Zenon DEF complete_uninit

\* The slots after the responder prepares its session (prepare_next).
LEMMA PrepareNextSlots ==
  ASSUME NEW a, NEW b, NEW s, b = prepare_next(a, s)
  PROVE  /\ b.uninit = a.uninit /\ b.current = a.current /\ b.next = s
         /\ b.previous = IF a.next = None THEN a.previous ELSE a.next
BY Zenon DEF prepare_next

\* A step that does not touch the handshake task leaves its session in place.
LEMMA HsStays ==
  ASSUME hsTask' = hsTask, NEW l
  PROVE  At(l, "hs")' = At(l, "hs")
BY AtIs, AtIsNext

\* The sessions of a peer stay in place when a step leaves its slots and tasks
\* alone; the inbound task matters only while it responds.
LEMMA AtFrame ==
  ASSUME NEW l, slots'[l] = slots[l], hsTask'[l] = hsTask[l],
         \/ inTask'[l] = inTask[l]
         \/ inTask[l].pc # "respond" /\ inTask'[l].pc # "respond"
  PROVE  \A r \in Roles : At(l, r)' = At(l, r)
<1>1. At(l, "respond")' = At(l, "respond")
  BY AtIs, AtIsNext
<1>2. At(l, "hs")' = At(l, "hs")
  BY AtIs, AtIsNext, Zenon
<1>3. /\ At(l, "uninit")' = At(l, "uninit") /\ At(l, "previous")' = At(l, "previous")
      /\ At(l, "current")' = At(l, "current") /\ At(l, "next")' = At(l, "next")
  BY AtIs, AtIsNext
<1>4. QED
  BY <1>1, <1>2, <1>3, Zenon DEF Roles

\* The places of sessions nothing was sent in, and of those whose response was
\* sent if this device is their responder.
Unsent == {"uninit", "next", "hs", "respond"}
Answered == {"previous", "current", "next"}

\* In this step sessions only change places or go: rho names the place each one
\* came from.
Moved(rho) ==
  /\ rho \in [Peers -> [Roles -> Roles]]
  /\ \A l \in Peers : \A r \in Roles :
       At(l, r)' # None =>
         /\ At(l, rho[l][r]) # None
         /\ At(l, r)'.local = At(l, rho[l][r]).local
         /\ At(l, r)'.peer = At(l, rho[l][r]).peer
         /\ r \in Unsent => rho[l][r] \in Unsent
         /\ rho[l][r] \in Answered =>
              r \in Answered /\ At(l, r)'.key = At(l, rho[l][r]).key
  /\ \A l \in Peers : \A r1, r2 \in Roles :
       At(l, r1)' # None /\ At(l, r2)' # None /\ rho[l][r1] = rho[l][r2] => r1 = r2

\* Sessions that only change places keep their indices distinct.
LEMMA DistinctMove ==
  ASSUME NEW rho, Moved(rho), IndexesDistinct
  PROVE  IndexesDistinct'
<1>1. SUFFICES ASSUME NEW l1 \in Peers, NEW l2 \in Peers, NEW r1 \in Roles, NEW r2 \in Roles,
                      l1[1] = l2[1], At(l1, r1)' # None, At(l2, r2)' # None,
                      At(l1, r1)'.local = At(l2, r2)'.local
               PROVE  l1 = l2 /\ r1 = r2
  BY DEF IndexesDistinct
<1>2. PICK q1 \in Roles : /\ At(l1, q1) # None
                          /\ At(l1, r1)'.local = At(l1, q1).local
                          /\ q1 = rho[l1][r1]
  BY <1>1, Zenon DEF Moved
<1>3. PICK q2 \in Roles : /\ At(l2, q2) # None
                          /\ At(l2, r2)'.local = At(l2, q2).local
                          /\ q2 = rho[l2][r2]
  BY <1>1, Zenon DEF Moved
<1>4. At(l1, q1).local = At(l2, q2).local
  BY <1>1, <1>2, <1>3, Zenon
<1>5. l1 = l2 /\ q1 = q2
  BY <1>1, <1>2, <1>3, <1>4, Zenon DEF IndexesDistinct
<1>6. QED
  BY <1>1, <1>2, <1>3, <1>5, Zenon DEF Moved

\* Sessions that only change places stay below the next index, and stay with
\* their peer.
LEMMA FreshMove ==
  ASSUME NEW rho, Moved(rho), IndexesFresh, SessionsProper, nextIndex' = nextIndex
  PROVE  \A l \in Peers : \A r \in Roles :
           At(l, r)' # None => At(l, r)'.local < nextIndex'[l[1]] /\ At(l, r)'.peer = l[2]
<1>1. SUFFICES ASSUME NEW l \in Peers, NEW r \in Roles, At(l, r)' # None
               PROVE  At(l, r)'.local < nextIndex'[l[1]] /\ At(l, r)'.peer = l[2]
  BY Zenon
<1>2. PICK q \in Roles : /\ At(l, q) # None
                         /\ At(l, r)'.local = At(l, q).local
                         /\ At(l, r)'.peer = At(l, q).peer
  BY <1>1, Zenon DEF Moved
<1>3. At(l, q).local < nextIndex[l[1]] /\ At(l, q).peer = l[2]
  BY <1>2, Zenon DEF IndexesFresh, SessionsProper
<1>4. QED
  BY <1>2, <1>3, Zenon

\* Sessions that only change places keep their history of packets sent.
LEMMA SentMove ==
  ASSUME NEW rho, Moved(rho), SentUnderKey, transport' = transport
  PROVE  SentUnderKey'
<1>1. SUFFICES ASSUME NEW l \in Peers, NEW m \in transport, m.src = l[1], NEW r \in Roles,
                      At(l, r)' # None, LocalIndex(m.key, m.src) = At(l, r)'.local
               PROVE  r \in {"previous", "current"} /\ m.key = At(l, r)'.key
  BY DEF SentUnderKey, Roles
<1>2. PICK q \in Roles : /\ At(l, q) # None
                         /\ At(l, r)'.local = At(l, q).local
                         /\ r \in Unsent => q \in Unsent
                         /\ q \in Answered => At(l, r)'.key = At(l, q).key
  BY <1>1, Zenon DEF Moved
<1>3. LocalIndex(m.key, m.src) = At(l, q).local
  BY <1>1, <1>2, Zenon
<1>4. q \notin {"uninit", "next", "hs", "respond"}
  BY <1>1, <1>2, <1>3, Zenon DEF SentUnderKey
<1>5. q \in {"previous", "current"} /\ r \in {"previous", "current"}
  BY <1>2, <1>4, Zenon DEF Roles, Unsent
<1>6. m.key = At(l, q).key
  BY <1>1, <1>2, <1>3, <1>5, Zenon DEF SentUnderKey
<1>7. QED
  BY <1>2, <1>5, <1>6, Zenon DEF Answered

\* Sessions that only change places keep their history of responses sent.
LEMMA ResponsesMove ==
  ASSUME NEW rho, Moved(rho), ResponsesProper
  PROVE  \A q \in responses : \A l \in Peers : \A r \in Roles :
           l[1] = q.src /\ At(l, r)' # None /\ At(l, r)'.local = q.index
             => r \in Answered /\ At(l, r)'.key = KeyOf(q)
<1>1. SUFFICES ASSUME NEW q \in responses, NEW l \in Peers, NEW r \in Roles,
                      l[1] = q.src, At(l, r)' # None, At(l, r)'.local = q.index
               PROVE  r \in Answered /\ At(l, r)'.key = KeyOf(q)
  BY Zenon
<1>2. PICK p \in Roles : /\ At(l, p) # None
                         /\ At(l, r)'.local = At(l, p).local
                         /\ p \in Answered => r \in Answered /\ At(l, r)'.key = At(l, p).key
  BY <1>1, Zenon DEF Moved
<1>3. p \in Answered /\ At(l, p).key = KeyOf(q)
  BY <1>1, <1>2, Zenon DEF ResponsesProper, Answered
<1>4. QED
  BY <1>2, <1>3, Zenon

\* A new session under the next index keeps the indices distinct.
LEMMA DistinctNew ==
  ASSUME NEW l0 \in Peers, NEW r0 \in Roles, IndexesDistinct, IndexesFresh, TypeOK,
         \A l \in Peers : \A r \in Roles :
           <<l, r>> # <<l0, r0>> => At(l, r)' = At(l, r),
         At(l0, r0)'.local = nextIndex[l0[1]]
  PROVE  IndexesDistinct'
<1>1. SUFFICES ASSUME NEW l1 \in Peers, NEW l2 \in Peers, NEW r1 \in Roles, NEW r2 \in Roles,
                      l1[1] = l2[1], At(l1, r1)' # None, At(l2, r2)' # None,
                      At(l1, r1)'.local = At(l2, r2)'.local
               PROVE  l1 = l2 /\ r1 = r2
  BY DEF IndexesDistinct
<1>2. nextIndex[l0[1]] \in Nat
  BY NextIndexNat, Zenon
<1>3. ASSUME NEW l \in Peers, NEW r \in Roles, l[1] = l0[1], <<l, r>> # <<l0, r0>>,
             At(l, r)' # None
      PROVE  At(l, r)'.local # nextIndex[l0[1]]
  <2>1. At(l, r)' = At(l, r) /\ At(l, r).local < nextIndex[l0[1]]
    BY <1>3, Zenon DEF IndexesFresh
  <2>2. QED
    BY <1>2, <2>1
<1>4. CASE <<l1, r1>> = <<l0, r0>>
  BY <1>1, <1>3, <1>4, Zenon
<1>5. CASE <<l2, r2>> = <<l0, r0>>
  BY <1>1, <1>3, <1>5, Zenon
<1>6. CASE <<l1, r1>> # <<l0, r0>> /\ <<l2, r2>> # <<l0, r0>>
  BY <1>1, <1>6 DEF IndexesDistinct
<1>7. QED
  BY <1>4, <1>5, <1>6, Zenon

\* The sessions a device knows of have numbers for indices.
LEMMA AtType ==
  ASSUME TypeOK, NEW l \in Peers, NEW r \in Roles, At(l, r) # None
  PROVE  At(l, r) \in HalfSession \cup FullSession /\ At(l, r).local \in Nat
<1>1. slots[l] \in SlotsType /\ hsTask[l] \in HalfSession \cup {None} /\ inTask[l] \in Task
  BY Zenon DEF TypeOK
<1>2. At(l, r) \in HalfSession \cup FullSession
  BY <1>1, AtIs, SMTT(30) DEF Roles, SlotsType, Task
<1>3. QED
  BY <1>2 DEF HalfSession, FullSession, Indices

\* The index a packet's sender knows its session by is a number.
LEMMA SentIndexNat ==
  ASSUME TypeOK, NEW m \in transport
  PROVE  LocalIndex(m.key, m.src) \in Nat /\ m.src \in Nodes
<1>1. m \in Transport
  BY Zenon DEF TypeOK
<1>2. QED
  BY <1>1 DEF Transport, Key, Indices, LocalIndex

\* What a step that makes a session under the next index preserves.
LEMMA AddedInv ==
  ASSUME TypeOK, IndInv,
         NEW l0 \in Peers, NEW r0 \in {"hs", "respond"},
         \A l \in Peers : \A r \in Roles :
           <<l, r>> # <<l0, r0>> => At(l, r)' = At(l, r),
         At(l0, r0)'.local = nextIndex[l0[1]],
         nextIndex' = [nextIndex EXCEPT ![l0[1]] = nextIndex[l0[1]] + 1],
         transport' = transport, responses' = responses
  PROVE  IndexesDistinct' /\ IndexesFresh' /\ SentUnderKey' /\ ResponsesProper'
<1> DEFINE n0 == l0[1]
<1>1. n0 \in Nodes /\ nextIndex[n0] \in Nat
  BY NextIndexNat, PeerEnds, Zenon
<1>2. r0 \in Roles
  BY Zenon DEF Roles
<1>3. \A n \in Nodes : nextIndex[n] \in Nat /\ nextIndex'[n] \in Nat
                      /\ nextIndex[n] <= nextIndex'[n]
  <2>1. nextIndex \in [Nodes -> 1 .. MaxIndex + 1]
    BY Zenon DEF TypeOK
  <2>2. QED
    BY <1>1, <2>1, NextIndexNat
<1>4. nextIndex[n0] < nextIndex'[n0]
  <2>1. nextIndex \in [Nodes -> 1 .. MaxIndex + 1]
    BY Zenon DEF TypeOK
  <2>2. QED
    BY <1>1, <2>1
<1>5. IndexesDistinct'
  BY <1>2, DistinctNew, Zenon DEF IndInv
<1>6. IndexesFresh'
  <2>1. ASSUME NEW l \in Peers, NEW r \in Roles, At(l, r)' # None
        PROVE  At(l, r)'.local < nextIndex'[l[1]]
    <3>1. CASE <<l, r>> = <<l0, r0>>
      BY <1>4, <3>1, Zenon
    <3>2. CASE <<l, r>> # <<l0, r0>>
      <4>1. At(l, r)' = At(l, r) /\ At(l, r) # None
        BY <2>1, <3>2, Zenon
      <4>2. At(l, r).local < nextIndex[l[1]] /\ At(l, r).local \in Nat /\ l[1] \in Nodes
        BY <4>1, AtType, PeerEnds, Zenon DEF IndInv, IndexesFresh
      <4>3. QED
        BY <4>1, <4>2, <1>3
    <3>3. QED
      BY <3>1, <3>2, Zenon
  <2>2. ASSUME NEW m \in transport
        PROVE  LocalIndex(m.key, m.src) < nextIndex'[m.src]
    <3>1. LocalIndex(m.key, m.src) < nextIndex[m.src]
      BY Zenon DEF IndInv, IndexesFresh
    <3>2. QED
      BY <3>1, <1>3, SentIndexNat
  <2>3. ASSUME NEW q \in responses
        PROVE  q.index < nextIndex'[q.src]
    <3>1. q.index < nextIndex[q.src]
      BY Zenon DEF IndInv, IndexesFresh
    <3>2. q.src \in Nodes /\ q.index \in Nat
      BY DEF TypeOK, Response, Indices
    <3>3. QED
      BY <3>1, <3>2, <1>3
  <2>4. QED
    BY <2>1, <2>2, <2>3, Zenon DEF IndexesFresh
<1>7. SentUnderKey'
  <2>1. SUFFICES ASSUME NEW l \in Peers, NEW m \in transport, m.src = l[1], NEW r \in Roles,
                        At(l, r)' # None, LocalIndex(m.key, m.src) = At(l, r)'.local
                 PROVE  r \in {"previous", "current"} /\ m.key = At(l, r)'.key
    BY DEF SentUnderKey, Roles
  <2>2. <<l, r>> # <<l0, r0>>
    <3>1. LocalIndex(m.key, m.src) < nextIndex[l[1]]
      BY <2>1, Zenon DEF IndInv, IndexesFresh
    <3>2. QED
      BY <2>1, <3>1, <1>1
  <2>3. At(l, r)' = At(l, r)
    BY <2>2, Zenon
  <2>4. At(l, r) # None /\ LocalIndex(m.key, m.src) = At(l, r).local
    BY <2>1, <2>3, Zenon
  <2>5. r \notin {"uninit", "next", "hs", "respond"}
    BY <2>1, <2>4, Zenon DEF IndInv, SentUnderKey
  <2>6. r \in {"previous", "current"}
    BY <2>1, <2>5, Zenon DEF Roles
  <2>7. m.key = At(l, r).key
    BY <2>1, <2>4, <2>6, Zenon DEF IndInv, SentUnderKey
  <2>8. QED
    BY <2>3, <2>6, <2>7, Zenon
<1>8. ResponsesProper'
  <2>1. SUFFICES ASSUME NEW q \in responses, NEW l \in Peers, NEW r \in Roles,
                        l[1] = q.src, At(l, r)' # None, At(l, r)'.local = q.index
                 PROVE  r \in {"previous", "current", "next"} /\ At(l, r)'.key = KeyOf(q)
    BY Zenon DEF ResponsesProper
  <2>2. <<l, r>> # <<l0, r0>>
    <3>1. q.index < nextIndex[l[1]]
      BY <2>1, Zenon DEF IndInv, IndexesFresh
    <3>2. QED
      BY <2>1, <3>1, <1>1
  <2>3. At(l, r)' = At(l, r)
    BY <2>2, Zenon
  <2>4. QED
    BY <2>1, <2>3, Zenon DEF IndInv, ResponsesProper
<1>9. QED
  BY <1>5, <1>6, <1>7, <1>8, Zenon

-----------------------------------------------------------------------------
\* The table

Slotted == {"uninit", "previous", "current", "next"}

\* IndexExact, one session at a time.
InTable ==
  \A n \in Nodes : \A s :
    s \in index[n] <=> \E l \in Peers : \E r \in Slotted : l[1] = n /\ s # None /\ s = At(l, r)

\* A session of the index table is in one of the slots of a peer of that device.
LEMMA InTableEntry ==
  ASSUME InTable, NEW n \in Nodes, NEW s \in index[n]
  PROVE  \E k \in Peers : \E r \in Slotted : k[1] = n /\ s # None /\ s = At(k, r)
BY DEF InTable

\* The two ways of saying that the table holds the sessions in the slots.
LEMMA TableExact ==
  InTable <=> \A n \in Nodes : index[n] = UNION {Live(slots[l]) : l \in PeersOf(n)}
<1>1. ASSUME NEW n \in Nodes, NEW s
      PROVE  s \in UNION {Live(slots[l]) : l \in PeersOf(n)} <=>
               \E l \in Peers : \E r \in Slotted : l[1] = n /\ s # None /\ s = At(l, r)
  <2>1. ASSUME NEW l \in Peers
        PROVE  s \in Live(slots[l]) <=> \E r \in Slotted : s # None /\ s = At(l, r)
    BY AtIs DEF Live, Slotted
  <2>2. QED
    BY <2>1, Zenon DEF PeersOf
<1>2. ASSUME NEW n \in Nodes
      PROVE  index[n] = UNION {Live(slots[l]) : l \in PeersOf(n)} <=>
               \A s : s \in index[n] <=>
                 \E l \in Peers : \E r \in Slotted : l[1] = n /\ s # None /\ s = At(l, r)
  <2> DEFINE U == UNION {Live(slots[l]) : l \in PeersOf(n)}
  <2>1. \A s : s \in U <=>
          \E l \in Peers : \E r \in Slotted : l[1] = n /\ s # None /\ s = At(l, r)
    BY <1>1, Zenon
  <2> HIDE DEF U
  <2>2. index[n] = U <=> \A s : s \in index[n] <=> s \in U
    BY Zenon
  <2>3. QED
    BY <2>1, <2>2, Zenon DEF U
<1>3. QED
  BY <1>2, Zenon, Zenon DEF InTable

\* Distinct indices make a session's index its name in the table.
LEMMA TableDistinct ==
  InTable /\ IndexesDistinct => IndexExact
<1>1. SUFFICES ASSUME InTable, IndexesDistinct
               PROVE  IndexExact
  BY Zenon
<1>2. ASSUME NEW n \in Nodes, NEW s \in index[n], NEW t \in index[n], s.local = t.local
      PROVE  s = t
  <2>1. PICK l1 \in Peers : \E r1 \in Slotted : l1[1] = n /\ s # None /\ s = At(l1, r1)
    BY <1>1, <1>2 DEF InTable
  <2>2. PICK r1 \in Slotted : l1[1] = n /\ s # None /\ s = At(l1, r1)
    BY <2>1, Zenon
  <2>3. PICK l2 \in Peers : \E r2 \in Slotted : l2[1] = n /\ t # None /\ t = At(l2, r2)
    BY <1>1, <1>2 DEF InTable
  <2>4. PICK r2 \in Slotted : l2[1] = n /\ t # None /\ t = At(l2, r2)
    BY <2>3, Zenon
  <2>5. r1 \in Roles /\ r2 \in Roles
    BY Zenon DEF Slotted, Roles
  <2>6. l1 = l2 /\ r1 = r2
    BY <1>1, <1>2, <2>2, <2>4, <2>5 DEF IndexesDistinct
  <2>7. QED
    BY <2>2, <2>4, <2>6, Zenon
<1>3. QED
  BY <1>1, <1>2, TableExact, Zenon DEF IndexExact

\* The table after a step.
LEMMA TableNext ==
  InTable' /\ IndexesDistinct' => IndexExact'
BY TableDistinct, PTL

\* A step of peer l0 takes the sessions in the slots G out of the table and puts
\* s0 in, whose index was that of the session in p0.
TableStep(l0, G, s0, p0) ==
  /\ \A l \in Peers : \A r \in Slotted : l # l0 => At(l, r)' = At(l, r)
  /\ \E r \in Slotted : At(l0, r)' = s0
  /\ \A r \in Slotted :
       At(l0, r)' # None /\ At(l0, r)' # s0 =>
         \E p \in Slotted \ G : p # p0 /\ At(l0, r)' = At(l0, p)
  /\ \A p \in Slotted \ G :
       At(l0, p) # None /\ p # p0 => \E r \in Slotted : At(l0, r)' = At(l0, p)
  /\ \A n \in Nodes : n # l0[1] => index'[n] = index[n]
  /\ \A e : e \in index'[l0[1]] <=>
       \/ e = s0
       \/ /\ e \in index[l0[1]]
          /\ e.local # s0.local
          /\ \A g \in G : At(l0, g) # None => e.local # At(l0, g).local

\* After such a step the table again holds the sessions in the slots.
LEMMA TableMove ==
  ASSUME InTable, IndexesDistinct,
         NEW l0 \in Peers, NEW G \in SUBSET Slotted, NEW s0, s0 # None,
         NEW p0 \in Roles, At(l0, p0) # None, s0.local = At(l0, p0).local,
         TableStep(l0, G, s0, p0)
  PROVE  InTable'
<1> USE DEF TableStep
<1>1. ASSUME NEW n \in Nodes, n # l0[1], NEW s
      PROVE  s \in index'[n] <=>
               \E l \in Peers : \E r \in Slotted : l[1] = n /\ s # None /\ s = At(l, r)'
  <2>1. s \in index'[n] <=> s \in index[n]
    BY <1>1, Zenon
  <2>2. \A l \in Peers : \A r \in Slotted : l[1] = n => At(l, r)' = At(l, r)
    BY <1>1, Zenon
  <2>3. s \in index[n] <=>
          \E l \in Peers : \E r \in Slotted : l[1] = n /\ s # None /\ s = At(l, r)
    BY SMTT(30) DEF InTable
  <2>4. QED
    BY <2>1, <2>2, <2>3, SMTT(30)
<1>2. ASSUME NEW s, s \in index'[l0[1]]
      PROVE  \E l \in Peers : \E r \in Slotted : l[1] = l0[1] /\ s # None /\ s = At(l, r)'
  <2>1. CASE s = s0
    BY <2>1, Zenon
  <2>2. CASE s # s0
    <3>1. /\ s \in index[l0[1]] /\ s.local # s0.local
          /\ \A g \in G : At(l0, g) # None => s.local # At(l0, g).local
      BY <1>2, <2>2, Zenon
    <3>2. PICK l \in Peers : \E r \in Slotted : l[1] = l0[1] /\ s # None /\ s = At(l, r)
      BY <3>1, PeerEnds DEF InTable
    <3>3. PICK r \in Slotted : l[1] = l0[1] /\ s # None /\ s = At(l, r)
      BY <3>2, Zenon
    <3>4. CASE l # l0
      BY <3>3, <3>4, Zenon
    <3>5. CASE l = l0
      <4>1. r \notin G /\ r # p0
        BY <3>1, <3>3, <3>5, Zenon
      <4>2. QED
        BY <3>3, <3>5, <4>1, Zenon
    <3>6. QED
      BY <3>4, <3>5, Zenon
  <2>3. QED
    BY <2>1, <2>2, Zenon
<1>3. ASSUME NEW l \in Peers, NEW r \in Slotted, l[1] = l0[1], At(l, r)' # None,
             At(l, r)' # s0
      PROVE  At(l, r)' \in index'[l0[1]]
  <2>1. PICK p \in Slotted : /\ At(l, r)' = At(l, p)
                             /\ l = l0 => p \notin G /\ p # p0
    BY <1>3, SMTT(30)
  <2>2. At(l, p) \in index[l0[1]]
    BY <1>3, <2>1, PeerEnds, Zenon DEF InTable
  <2>3. At(l, p).local # s0.local
    BY <1>3, <2>1, SMTT(30) DEF IndexesDistinct, Slotted, Roles
  <2>4. \A g \in G : At(l0, g) # None => At(l, p).local # At(l0, g).local
    <3>1. ASSUME NEW g \in G, At(l0, g) # None, At(l, p).local = At(l0, g).local
          PROVE  FALSE
      <4>1. g \in Roles /\ p \in Roles
        BY Zenon DEF Slotted, Roles
      <4>2. At(l, p) # None /\ l[1] = l0[1]
        BY <1>3, <2>1, Zenon
      <4>3. l = l0 /\ p = g
        BY <3>1, <4>1, <4>2, SMTT(30) DEF IndexesDistinct
      <4>4. QED
        BY <2>1, <4>3, Zenon
    <3>2. QED
      BY <3>1, Zenon
  <2>5. QED
    BY <2>1, <2>2, <2>3, <2>4, Zenon
<1>4. ASSUME NEW s
      PROVE  s \in index'[l0[1]] <=>
               \E l \in Peers : \E r \in Slotted : l[1] = l0[1] /\ s # None /\ s = At(l, r)'
  BY <1>2, <1>3, SMTT(30)
<1>5. QED
  BY <1>1, <1>4, SMTT(30) DEF InTable

-----------------------------------------------------------------------------
\* Facts used by several actions

\* Each conjunct of the invariant is about a few of the variables.
LEMMA Frames ==
  /\ UNCHANGED <<transport, responses, delivered>> /\ PacketsProper => PacketsProper'
  /\ UNCHANGED <<transport, responses, inq>> /\ QueuesProper => QueuesProper'
  /\ UNCHANGED <<index, slots>> /\ IndexExact => IndexExact'
  /\ UNCHANGED <<transport, responses, slots>> /\ CurrentIsConfirmed => CurrentIsConfirmed'
  /\ UNCHANGED <<transport, nonce>> /\ NoNonceReuse => NoNonceReuse'
  /\ UNCHANGED <<delivered, filter>> /\ FilterRemembers => FilterRemembers'
<1>1. UNCHANGED <<transport, responses, delivered>> /\ PacketsProper => PacketsProper'
  BY Zenon DEF PacketsProper
<1>2. UNCHANGED <<transport, responses, inq>> /\ QueuesProper => QueuesProper'
  BY SMTT(30) DEF QueuesProper
<1>3. UNCHANGED <<index, slots>> /\ IndexExact => IndexExact'
  BY SMTT(30) DEF IndexExact, Live
<1>4. UNCHANGED <<transport, responses, slots>> /\ CurrentIsConfirmed => CurrentIsConfirmed'
  BY Zenon DEF CurrentIsConfirmed
<1>5. UNCHANGED <<transport, nonce>> /\ NoNonceReuse => NoNonceReuse'
  BY Zenon DEF NoNonceReuse
<1>6. UNCHANGED <<delivered, filter>> /\ FilterRemembers => FilterRemembers'
  BY Zenon DEF FilterRemembers
<1>7. QED
  BY <1>1, <1>2, <1>3, <1>4, <1>5, <1>6, Zenon

\* What SessionsProper says of a session about to be completed.
FinalizeProper ==
  \A l \in Peers :
    inTask[l].pc = "finalize" =>
      /\ AsInitiator(l, inTask[l].session)
      /\ inTask[l].session.peer = l[2]
      /\ ResponseOf(inTask[l].session.key) \in responses

\* A task that has nothing new to complete.
LEMMA FinalizeFrame ==
  ASSUME SessionsProper, responses \subseteq responses',
         \A l \in Peers : inTask'[l] = inTask[l] \/ inTask'[l].pc # "finalize"
  PROVE  FinalizeProper'
<1>1. ASSUME NEW l \in Peers, inTask'[l].pc = "finalize"
      PROVE  /\ AsInitiator(l, inTask[l].session)'
             /\ inTask'[l].session.peer = l[2]
             /\ ResponseOf(inTask'[l].session.key) \in responses'
  BY <1>1, Zenon DEF SessionsProper, AsInitiator
<1>2. QED
  BY <1>1, Zenon DEF FinalizeProper

\* SessionsProper, when the sessions with a key stay where they are, go, or are
\* made by a responder.
LEMMA SessionsFrame ==
  ASSUME SessionsProper, FinalizeProper',
         \A l \in Peers : \A r \in {"previous", "current", "next", "respond"} :
           At(l, r)' = At(l, r) \/ At(l, r)' = None \/ AsResponder(l, At(l, r))',
         \A l \in Peers : \A r \in Roles : At(l, r)' # None => At(l, r)'.peer = l[2]
  PROVE  SessionsProper'
<1>1. ASSUME NEW l \in Peers, NEW r \in {"previous", "current"}, At(l, r)' # None
      PROVE  AsInitiator(l, At(l, r))' \/ AsResponder(l, At(l, r))'
  <2>1. CASE At(l, r)' = At(l, r)
    <3>1. AsInitiator(l, At(l, r)) \/ AsResponder(l, At(l, r))
      BY <1>1, <2>1, Zenon DEF SessionsProper
    <3>2. QED
      BY <2>1, <3>1, Zenon DEF AsInitiator, AsResponder
  <2>2. QED
    BY <1>1, <2>1, Zenon
<1>2. ASSUME NEW l \in Peers, NEW r \in {"next", "respond"}, At(l, r)' # None
      PROVE  AsResponder(l, At(l, r))'
  <2>1. CASE At(l, r)' = At(l, r)
    <3>1. AsResponder(l, At(l, r))
      BY <1>2, <2>1, Zenon DEF SessionsProper
    <3>2. QED
      BY <2>1, <3>1, Zenon DEF AsResponder
  <2>2. QED
    BY <1>2, <2>1, Zenon
<1>3. QED
  BY <1>1, <1>2, Zenon DEF SessionsProper, FinalizeProper

\* The invariant, when no session is made, moved or lost and nothing is sent.
LEMMA QuietInv ==
  ASSUME IndInv, \A l \in Peers : \A r \in Roles : At(l, r)' = At(l, r),
         UNCHANGED <<nextIndex, index, slots, nonce, responses, transport>>,
         SessionsProper', PacketsProper', QueuesProper', FilterRemembers'
  PROVE  IndInv'
<1>1. IndexesDistinct'
  BY DEF IndInv, IndexesDistinct
<1>2. IndexesFresh'
  BY Zenon DEF IndInv, IndexesFresh
<1>3. SentUnderKey'
  <2>1. Unsent \subseteq Roles /\ Answered \subseteq Roles
    BY Zenon DEF Unsent, Answered, Roles
  <2>2. QED
    BY <2>1, SMTT(30) DEF IndInv, SentUnderKey, Unsent, Answered
<1>4. ResponsesProper'
  <2>1. ResponsesProper /\ responses' = responses
    BY Zenon DEF IndInv
  <2>2. QED
    BY <2>1, SMTT(30) DEF ResponsesProper
<1>5. IndexExact' /\ CurrentIsConfirmed' /\ NoNonceReuse'
  BY Frames, Zenon DEF IndInv
<1>6. QED
  BY <1>1, <1>2, <1>3, <1>4, <1>5, Zenon DEF IndInv

\* QueuesProper, one entry at a time.
EntryProper(l, e) ==
  /\ e.msg.dst = l[1]
  /\ e.kind = "initiation" => e.msg.src = l[2]
  /\ e.kind = "response" => e.msg \in responses
  /\ e.kind = "transport" =>
       /\ e.msg \in transport
       /\ e.session.peer = l[2]
       /\ e.session.local = e.msg.to
       /\ e.session.key = e.msg.key
       /\ AsInitiator(l, e.session) \/ AsResponder(l, e.session)

\* The queues of a proper state hold proper entries.
LEMMA EntriesProper ==
  QueuesProper <=> \A l \in Peers : \A i \in 1 .. Len(inq[l]) : EntryProper(l, inq[l][i])
BY Zenon DEF QueuesProper, EntryProper

\* The same after a step.
LEMMA EntriesProperNext ==
  (\A l \in Peers : \A i \in 1 .. Len(inq'[l]) : EntryProper(l, inq[l][i])') => QueuesProper'
BY Zenon DEF QueuesProper, EntryProper

\* A queue that loses its head, or everything, still holds proper entries.
LEMMA QueuesShrink ==
  ASSUME TypeOK, QueuesProper, NEW l0 \in Peers,
         \A l \in Peers : l # l0 => inq'[l] = inq[l],
         \/ inq[l0] # <<>> /\ inq'[l0] = Tail(inq[l0])
         \/ inq'[l0] = inq[l0]
         \/ inq'[l0] = <<>>,
         responses \subseteq responses', transport \subseteq transport'
  PROVE  QueuesProper'
<1>1. ASSUME NEW l \in Peers, NEW i \in 1 .. Len(inq'[l])
      PROVE  \E j \in 1 .. Len(inq[l]) : inq'[l][i] = inq[l][j]
  <2>1. inq[l0] \in Seq(Event) /\ inq[l] \in Seq(Event)
    BY Zenon DEF TypeOK
  <2>2. CASE l # l0 \/ inq'[l] = inq[l]
    BY <2>2, Zenon
  <2>3. CASE l = l0 /\ inq[l0] # <<>> /\ inq'[l0] = Tail(inq[l0])
    <3>1. i + 1 \in 1 .. Len(inq[l]) /\ inq'[l][i] = inq[l][i + 1]
      BY <2>1, <2>3
    <3>2. QED
      BY <3>1, Zenon
  <2>4. CASE l = l0 /\ inq'[l0] = <<>>
    BY <2>4
  <2>5. QED
    BY <2>2, <2>3, <2>4, Zenon
<1>2. ASSUME NEW l \in Peers, NEW i \in 1 .. Len(inq'[l])
      PROVE  EntryProper(l, inq[l][i])'
  <2>1. PICK j \in 1 .. Len(inq[l]) : inq'[l][i] = inq[l][j]
    BY <1>1, Zenon
  <2>2. EntryProper(l, inq[l][j])
    BY EntriesProper, Zenon
  <2>3. QED
    BY <2>1, <2>2, Zenon DEF EntryProper
<1>3. QED
  BY <1>2, EntriesProperNext, Zenon

\* PacketFindsItsSession for a session in a slot, with the peer and the slot.
LEMMA PacketMatch ==
  ASSUME TypeOK, IndInv, NEW m \in transport, NEW l \in Peers, NEW r \in Roles,
         l[1] = m.dst, At(l, r) # None, At(l, r).local = m.to
  PROVE  r \in Answered /\ At(l, r).key = m.key
<1>1. /\ m.to = LocalIndex(m.key, m.dst)
      /\ m.src # m.dst
      /\ ResponseOf(m.key) \in responses
      /\ \/ m.key.initiator = m.src /\ m.key.responder = m.dst
         \/ m.key.initiator = m.dst /\ m.key.responder = m.src
      /\ m.key.initiator = m.dst => \E m2 \in transport : m2.src = m.dst /\ m2.key = m.key
  BY Zenon DEF IndInv, PacketsProper, Peers
<1>2. CASE m.key.initiator = m.dst
  <2>1. PICK m2 \in transport : m2.src = m.dst /\ m2.key = m.key
    BY <1>1, <1>2, Zenon
  <2>2. m2.src = l[1] /\ LocalIndex(m2.key, m2.src) = At(l, r).local
    BY <1>1, <2>1, Zenon
  <2>3. r \notin {"uninit", "next", "hs", "respond"}
    BY <2>2, Zenon DEF IndInv, SentUnderKey
  <2>4. r \in {"previous", "current"}
    BY <2>3, Zenon DEF Roles
  <2>5. m2.key = At(l, r).key
    BY <2>2, <2>4, Zenon DEF IndInv, SentUnderKey
  <2>6. QED
    BY <2>1, <2>4, <2>5, Zenon DEF Answered
<1>3. CASE m.key.initiator = m.src /\ m.key.responder = m.dst
  <2> DEFINE q == ResponseOf(m.key)
  <2>1. q.src = l[1] /\ q.index = At(l, r).local
    BY <1>1, <1>3, Zenon DEF ResponseOf, LocalIndex
  <2>2. r \in {"previous", "current", "next"} /\ At(l, r).key = KeyOf(q)
    BY <1>1, <2>1, Zenon DEF IndInv, ResponsesProper
  <2>3. m.key \in Key
    BY Zenon DEF TypeOK, Transport
  <2>4. KeyOf(q) = m.key
    BY <2>3, Zenon DEF KeyOf, ResponseOf, Key
  <2>5. QED
    BY <2>2, <2>4, Zenon DEF Answered
<1>4. QED
  BY <1>1, <1>2, <1>3, Zenon

\* A queue that is not empty has a first place.
LEMMA FirstPlace == \A n \in Nat : n >= 1 => 1 \in 1 .. n
OBVIOUS

\* The head of a queue is a proper entry.
LEMMA HeadProper ==
  ASSUME TypeOK, IndInv, NEW l \in Peers, inq[l] # <<>>
  PROVE  EntryProper(l, Head(inq[l]))
<1>1. Head(inq[l]) = inq[l][1]
  BY HeadType, Zenon
<1>2. 1 \in 1 .. Len(inq[l])
  <2>1. Len(inq[l]) \in Nat /\ Len(inq[l]) >= 1
    BY HeadType, Zenon
  <2>2. QED
    BY <2>1, FirstPlace, Zenon, Zenon
<1>3. EntryProper(l, inq[l][1])
  <2>1. QueuesProper
    BY Zenon DEF IndInv
  <2>2. QED
    BY <1>2, <2>1, EntriesProper, Zenon
<1>4. QED
  BY <1>1, <1>3, Zenon

\* CurrentIsConfirmed, for session s of peer l, responses R and packets T.
ConfirmedBy(l, s, R, T) ==
  IF s.key.initiator = l[1]
  THEN [src |-> l[2], dst |-> l[1], index |-> s.remote, to |-> s.local] \in R
  ELSE \E m \in T : m.src = l[2] /\ m.key = s.key

\* A current session stays confirmed; a new one has to be.
LEMMA ConfirmedStep ==
  ASSUME CurrentIsConfirmed, responses \subseteq responses', transport \subseteq transport',
         \A l \in Peers :
           \/ slots'[l].current = slots[l].current
           \/ slots'[l].current = None
           \/ ConfirmedBy(l, slots'[l].current, responses, transport)
  PROVE  CurrentIsConfirmed'
<1>1. ASSUME NEW l \in Peers, slots'[l].current # None
      PROVE  ConfirmedBy(l, slots'[l].current, responses', transport')
  <2>1. ConfirmedBy(l, slots'[l].current, responses, transport)
    BY <1>1, Zenon DEF CurrentIsConfirmed, ConfirmedBy
  <2>2. QED
    BY <2>1, Zenon DEF ConfirmedBy
<1>2. QED
  BY <1>1, Zenon DEF CurrentIsConfirmed, ConfirmedBy

\* SessionsProper, when sessions with a key change places or new ones come.
LEMMA SessionsMove ==
  ASSUME SessionsProper, FinalizeProper',
         \A l \in Peers : \A r \in {"previous", "current"} :
           \/ At(l, r)' = None
           \/ \E p \in {"previous", "current", "next"} : At(l, r)' = At(l, p)
           \/ AsInitiator(l, At(l, r))'
           \/ AsResponder(l, At(l, r))',
         \A l \in Peers : \A r \in {"next", "respond"} :
           \/ At(l, r)' = None
           \/ \E p \in {"next", "respond"} : At(l, r)' = At(l, p),
         \A l \in Peers : \A r \in Roles : At(l, r)' # None => At(l, r)'.peer = l[2]
  PROVE  SessionsProper'
<1>1. ASSUME NEW l \in Peers, NEW r \in {"previous", "current"}, At(l, r)' # None
      PROVE  AsInitiator(l, At(l, r))' \/ AsResponder(l, At(l, r))'
  <2>1. CASE \E p \in {"previous", "current", "next"} : At(l, r)' = At(l, p)
    <3>1. PICK p \in {"previous", "current", "next"} : At(l, r)' = At(l, p)
      BY <2>1, Zenon
    <3>2. AsInitiator(l, At(l, p)) \/ AsResponder(l, At(l, p))
      BY <1>1, <3>1, Zenon DEF SessionsProper
    <3>3. QED
      BY <3>1, <3>2, Zenon DEF AsInitiator, AsResponder
  <2>2. QED
    BY <1>1, <2>1, Zenon
<1>2. ASSUME NEW l \in Peers, NEW r \in {"next", "respond"}, At(l, r)' # None
      PROVE  AsResponder(l, At(l, r))'
  <2>1. PICK p \in {"next", "respond"} : At(l, r)' = At(l, p)
    BY <1>2, Zenon
  <2>2. AsResponder(l, At(l, p))
    BY <1>2, <2>1, Zenon DEF SessionsProper
  <2>3. QED
    BY <2>1, <2>2, Zenon DEF AsResponder
<1>3. QED
  BY <1>1, <1>2, Zenon DEF SessionsProper, FinalizeProper

\* Resetting the counter or the filter of one session leaves the others alone.
LEMMA ResetOne ==
  ASSUME NEW S, NEW f \in [Nodes \X Indices -> S], NEW n \in Nodes, NEW i \in Indices, NEW v,
         NEW m \in Nodes, NEW j \in Indices
  PROVE  [f EXCEPT ![<<n, i>>] = v][<<m, j>>] = IF m = n /\ j = i THEN v ELSE f[<<m, j>>]
BY Zenon
=============================================================================
