---------------------------- MODULE TunnelProofs ----------------------------
(***************************************************************************)
(* Theorems about the tunnels, for any set of devices, any bounds and any  *)
(* pattern of losses, duplicates, restarts and failed sends.  The          *)
(* inductive invariant of Tunnel is shown to be kept action by action:     *)
(* first the handshake, up to complete_uninit, with which the initiator    *)
(* puts a session with keys in a slot; then the next session of the        *)
(* responder and the transport of data; then a restart, and the theorems.  *)
(***************************************************************************)
EXTENDS TunnelSessionProofs

-----------------------------------------------------------------------------
\* The initial state and the handshake

\* Initially no device knows a session and the network is empty.
LEMMA InitInv == Init => IndInv
<1>1. SUFFICES ASSUME Init PROVE IndInv
  BY Zenon
<1>2. \A l \in Peers : \A r \in Roles : At(l, r) = None
  BY <1>1, AtIs DEF Init, NewActiveSession, Idle, Roles
<1>3. \A l \in Peers : slots[l].current = None /\ inTask[l].pc = "idle" /\ inq[l] = <<>>
  BY <1>1, Zenon DEF Init, NewActiveSession, Idle
<1>4. transport = {} /\ responses = {} /\ DOMAIN delivered = {} /\ \A n \in Nodes : index[n] = {}
  BY <1>1, Zenon DEF Init
<1>5. IndexesDistinct /\ IndexesFresh /\ PacketsProper /\ SentUnderKey
  BY <1>2, <1>4, Zenon DEF IndexesDistinct, IndexesFresh, PacketsProper, SentUnderKey
<1>6. ResponsesProper /\ NoNonceReuse /\ FilterRemembers
  BY <1>4, Zenon DEF ResponsesProper, NoNonceReuse, FilterRemembers
<1>7. SessionsProper
  BY <1>2, <1>3, Zenon DEF SessionsProper, Roles
<1>8. QueuesProper
  BY <1>3 DEF QueuesProper
<1>9. CurrentIsConfirmed
  BY <1>3, Zenon DEF CurrentIsConfirmed
<1>10. InTable
  BY <1>2, <1>4, Zenon DEF InTable, Slotted, Roles
<1>11. QED
  BY <1>5, <1>6, <1>7, <1>8, <1>9, <1>10, TableDistinct, Zenon DEF IndInv

\* initiate makes a session under the next index.
LEMMA InitiateInv ==
  ASSUME TypeOK, IndInv, NEW l0 \in Peers, Initiate(l0)
  PROVE  IndInv'
<1> DEFINE s == [peer |-> l0[2], local |-> nextIndex[l0[1]], remote |-> 0, key |-> None]
<1>1. /\ UNCHANGED <<index, slots, inTask, inq, nonce, filter, responses, transport, delivered>>
      /\ nextIndex' = [nextIndex EXCEPT ![l0[1]] = nextIndex[l0[1]] + 1]
      /\ hsTask' = [hsTask EXCEPT ![l0] = s]
  BY Zenon DEF Initiate, sessVars, netVars
<1>2. hsTask \in [Peers -> HalfSession \cup {None}]
  BY Zenon DEF TypeOK
<1>3. At(l0, "hs")' = s
  BY <1>1, <1>2, AtIsNext, Zenon
<1>4. \A l \in Peers : \A r \in Roles : <<l, r>> # <<l0, "hs">> => At(l, r)' = At(l, r)
  BY <1>1, <1>2, AtIs, AtIsNext DEF Roles
<1>5. IndexesDistinct' /\ IndexesFresh' /\ SentUnderKey' /\ ResponsesProper'
  <2>1. At(l0, "hs")'.local = nextIndex[l0[1]]
    BY <1>3
  <2>2. QED
    BY <1>1, <1>4, <2>1, AddedInv, Zenon
<1>6. SessionsProper'
  <2>1. \A l \in Peers : \A r \in {"previous", "current", "next", "respond"} :
          At(l, r)' = At(l, r)
    BY <1>4, Zenon DEF Roles
  <2>2. \A l \in Peers : \A r \in Roles : At(l, r)' # None => At(l, r)'.peer = l[2]
    BY <1>3, <1>4 DEF IndInv, SessionsProper
  <2>3. FinalizeProper'
    BY <1>1, FinalizeFrame, Zenon DEF IndInv
  <2>4. QED
    BY <2>1, <2>2, <2>3, SessionsFrame, Zenon DEF IndInv
<1>7. QED
  BY <1>1, <1>5, <1>6, Frames, Zenon DEF IndInv

\* prepare_uninit moves the session of the handshake task to the uninit slot.
LEMMA PrepareUninitInv ==
  ASSUME TypeOK, IndInv, NEW l0 \in Peers, PrepareUninit(l0)
  PROVE  IndInv'
<1> DEFINE s == hsTask[l0]
<1>1. /\ UNCHANGED <<nextIndex, inTask, inq, nonce, filter, responses, transport, delivered>>
      /\ hsTask' = [hsTask EXCEPT ![l0] = None]
      /\ slots' = [slots EXCEPT ![l0] = prepare_uninit(slots[l0], s)]
      /\ index' = [index EXCEPT ![l0[1]] = prepare_uninit_index(slots[l0], index[l0[1]], s)]
      /\ s # None
  BY Zenon DEF PrepareUninit, sessVars
<1>2. /\ hsTask \in [Peers -> HalfSession \cup {None}]
      /\ slots \in [Peers -> SlotsType]
      /\ DOMAIN index = Nodes
      /\ l0[1] \in Nodes
  BY PeerEnds, Zenon DEF TypeOK
<1>3. /\ At(l0, "uninit")' = At(l0, "hs")
      /\ At(l0, "hs")' = None
      /\ \A r \in Roles \ {"uninit", "hs"} : At(l0, r)' = At(l0, r)
      /\ \A l \in Peers : l # l0 => \A r \in Roles : At(l, r)' = At(l, r)
  BY <1>1, <1>2, AtIs, AtIsNext DEF Roles, prepare_uninit
<1>4. At(l0, "hs") = s /\ At(l0, "hs") # None
  BY <1>1, AtIs, Zenon
<1> DEFINE rho == [l \in Peers |-> [r \in Roles |->
                     IF l = l0 /\ r = "uninit" THEN "hs" ELSE r]]
<1>5. Moved(rho)
  BY <1>3, <1>4 DEF Moved, Roles, Unsent, Answered
<1>6. IndexesDistinct' /\ IndexesFresh' /\ SentUnderKey' /\ ResponsesProper'
  <2> HIDE DEF rho
  <2>1. IndexesDistinct' /\ SentUnderKey'
    BY <1>1, <1>5, DistinctMove, SentMove, Zenon DEF IndInv
  <2>2. ResponsesProper'
    BY <1>1, <1>5, ResponsesMove, Zenon DEF IndInv, ResponsesProper, Answered
  <2>3. IndexesFresh'
    BY <1>1, <1>5, FreshMove, Zenon DEF IndInv, IndexesFresh
  <2>4. QED
    BY <2>1, <2>2, <2>3, Zenon
<1>7. SessionsProper'
  <2>1. \A l \in Peers : \A r \in {"previous", "current", "next", "respond"} :
          At(l, r)' = At(l, r)
    BY <1>3, Zenon DEF Roles
  <2>2. \A l \in Peers : \A r \in Roles : At(l, r)' # None => At(l, r)'.peer = l[2]
    BY <1>3, <1>4 DEF IndInv, SessionsProper, Roles
  <2>3. FinalizeProper'
    BY <1>1, FinalizeFrame, Zenon DEF IndInv
  <2>4. QED
    BY <2>1, <2>2, <2>3, SessionsFrame, Zenon DEF IndInv
<1>8. InTable'
  <2>1. \A e : e \in index'[l0[1]] <=>
          \/ e = s
          \/ /\ e \in index[l0[1]]
             /\ e.local # s.local
             /\ \A g \in {"uninit"} : At(l0, g) # None => e.local # At(l0, g).local
    BY <1>1, <1>2, AtIs, Zenon DEF prepare_uninit_index, insert, deactivate, remove
  <2>2. \A n \in Nodes : n # l0[1] => index'[n] = index[n]
    BY <1>1, <1>2, Zenon
  <2>3. InTable /\ IndexesDistinct
    BY TableExact, Zenon DEF IndInv, IndexExact
  <2>4. \E r \in Slotted : At(l0, r)' = s
    BY <1>3, <1>4, Zenon DEF Slotted
  <2>5. \A r \in Slotted :
          At(l0, r)' # None /\ At(l0, r)' # s =>
            \E p \in Slotted \ {"uninit"} : p # "hs" /\ At(l0, r)' = At(l0, p)
    BY <1>3, <1>4, Zenon DEF Slotted, Roles
  <2>6. \A p \in Slotted \ {"uninit"} :
          At(l0, p) # None /\ p # "hs" => \E r \in Slotted : At(l0, r)' = At(l0, p)
    BY <1>3, Zenon DEF Slotted, Roles
  <2>7. \A l \in Peers : \A r \in Slotted : l # l0 => At(l, r)' = At(l, r)
    BY <1>3, Zenon DEF Slotted, Roles
  <2>8. {"uninit"} \in SUBSET Slotted /\ "hs" \in Roles
    BY Zenon DEF Slotted, Roles
  <2>9. TableStep(l0, {"uninit"}, s, "hs")
    BY <2>1, <2>2, <2>4, <2>5, <2>6, <2>7, Zenon DEF TableStep
  <2> HIDE DEF s
  <2>10. QED
    BY <1>1, <1>4, <2>3, <2>8, <2>9, TableMove, Zenon
<1>9. CurrentIsConfirmed'
  <2>1. slots \in [Peers -> SlotsType] /\ slots' = [slots EXCEPT ![l0] = prepare_uninit(slots[l0], s)]
    BY <1>1, <1>2, Zenon
  <2>2. prepare_uninit(slots[l0], s).current = slots[l0].current
    BY Zenon DEF prepare_uninit
  <2>3. \A l \in Peers : slots'[l].current = slots[l].current
    <3> HIDE DEF s
    <3>1. QED
      BY <2>1, <2>2, Zenon
  <2>4. responses' = responses /\ transport' = transport
    BY <1>1, Zenon
  <2>5. CurrentIsConfirmed
    BY Zenon DEF IndInv
  <2>6. QED
    BY <2>3, <2>4, <2>5, Zenon DEF CurrentIsConfirmed
<1>10. QED
  BY <1>1, <1>6, <1>7, <1>8, <1>9, TableNext, Frames, Zenon DEF IndInv

\* The sessions of a peer's queue are proper after an entry was appended.
LEMMA StageInv ==
  ASSUME TypeOK, IndInv, NEW l0 \in Peers, NEW e, EntryProper(l0, e), Stage(l0, e)
  PROVE  IndInv'
<1>1. /\ UNCHANGED <<nextIndex, index, slots, hsTask, inTask, nonce, filter,
                     responses, transport, delivered>>
      /\ inq' = [inq EXCEPT ![l0] = Append(inq[l0], e)]
  BY Zenon DEF Stage, deviceVars, sessVars, netVars
<1>2. \A l \in Peers : \A r \in Roles : At(l, r)' = At(l, r)
  BY <1>1, AtFrame, Zenon
<1>3. QueuesProper'
  <2>1. ASSUME NEW l \in Peers, NEW i \in 1 .. Len(inq'[l])
        PROVE  EntryProper(l, inq[l][i])'
    <3>1. inq \in [Peers -> Seq(Event)] /\ inq[l] \in Seq(Event)
      BY Zenon DEF TypeOK
    <3>2. CASE l = l0 /\ i = Len(inq[l]) + 1
      <4>1. inq'[l][i] = e
        BY <1>1, <3>1, <3>2
      <4>2. responses' = responses /\ transport' = transport
        BY <1>1, Zenon
      <4>3. QED
        BY <3>2, <4>1, <4>2, Zenon DEF EntryProper, AsInitiator, AsResponder
    <3>3. CASE l # l0 \/ i # Len(inq[l]) + 1
      <4>1. i \in 1 .. Len(inq[l]) /\ inq'[l][i] = inq[l][i]
        BY <1>1, <3>1, <3>3
      <4>2. EntryProper(l, inq[l][i])
        BY <4>1, EntriesProper, Zenon DEF IndInv
      <4>3. responses' = responses /\ transport' = transport
        BY <1>1, Zenon
      <4>4. QED
        BY <4>1, <4>2, <4>3, Zenon DEF EntryProper, AsInitiator, AsResponder
    <3>4. QED
      BY <3>2, <3>3, Zenon
  <2>2. QED
    BY <2>1, EntriesProperNext, Zenon
<1>4. SessionsProper'
  <2>1. \A l \in Peers : \A r \in Roles : At(l, r)' # None => At(l, r)'.peer = l[2]
    BY <1>2, Zenon DEF IndInv, SessionsProper
  <2>2. FinalizeProper'
    BY <1>1, FinalizeFrame, Zenon DEF IndInv
  <2>3. QED
    BY <1>2, <2>1, <2>2, SessionsFrame, Zenon DEF IndInv, Roles
<1>5. QED
  BY <1>1, <1>2, <1>3, <1>4, Frames, QuietInv, Zenon DEF IndInv

\* The device's task queues a datagram at the peer of the session it found.
LEMMA ReceiveInv ==
  ASSUME TypeOK, IndInv,
         \/ \E m \in initiations : ReceiveInitiation(m)
         \/ \E m \in responses : ReceiveResponse(m)
         \/ \E m \in transport : ReceiveTransport(m)
  PROVE  IndInv'
<1>1. CASE \E m \in initiations : ReceiveInitiation(m)
  <2>1. PICK m \in initiations : ReceiveInitiation(m)
    BY <1>1, Zenon
  <2> DEFINE l == <<m.dst, m.src>>
             e == [kind |-> "initiation", msg |-> m, session |-> None]
  <2>2. Stage(l, e) /\ l \in Peers
    BY <2>1, Zenon DEF ReceiveInitiation, Stage
  <2>3. EntryProper(l, e)
    BY Zenon DEF EntryProper
  <2> HIDE DEF l, e
  <2>4. QED
    BY <2>2, <2>3, StageInv, Zenon
<1>2. CASE \E m \in responses : ReceiveResponse(m)
  <2>1. PICK m \in responses : ReceiveResponse(m)
    BY <1>2, Zenon
  <2>2. PICK s \in index[m.dst] :
          Stage(<<m.dst, s.peer>>, [kind |-> "response", msg |-> m, session |-> s])
    BY <2>1, Zenon DEF ReceiveResponse
  <2> DEFINE l == <<m.dst, s.peer>>
             e == [kind |-> "response", msg |-> m, session |-> s]
  <2>3. Stage(l, e) /\ l \in Peers
    BY <2>2, Zenon DEF Stage
  <2>4. EntryProper(l, e)
    BY Zenon DEF EntryProper
  <2> HIDE DEF l, e
  <2>5. QED
    BY <2>3, <2>4, StageInv, Zenon
<1>3. CASE \E m \in transport : ReceiveTransport(m)
  <2>1. PICK m \in transport : ReceiveTransport(m)
    BY <1>3, Zenon
  <2>2. PICK s \in index[m.dst] :
          /\ s.local = m.to
          /\ Stage(<<m.dst, s.peer>>, [kind |-> "transport", msg |-> m, session |-> s])
    BY <2>1, Zenon DEF ReceiveTransport
  <2> DEFINE l == <<m.dst, s.peer>>
             e == [kind |-> "transport", msg |-> m, session |-> s]
  <2>3. Stage(l, e) /\ l \in Peers
    BY <2>2, Zenon DEF Stage
  <2>4. m.dst \in Nodes
    BY Zenon DEF TypeOK, Transport
  <2>5. InTable
    BY TableExact, Zenon DEF IndInv, IndexExact
  <2>6. PICK k \in Peers : \E r \in Slotted : k[1] = m.dst /\ s # None /\ s = At(k, r)
    <3>1. s \in index[m.dst]
      BY <2>2, Zenon
    <3>2. QED
      BY <2>4, <2>5, <3>1, InTableEntry, Zenon
  <2>7. PICK r \in Slotted : k[1] = m.dst /\ s # None /\ s = At(k, r)
    BY <2>6, Zenon
  <2>8. r \in Roles
    BY Zenon DEF Slotted, Roles
  <2>9. r \in Answered /\ s.key = m.key
    BY <2>2, <2>7, <2>8, PacketMatch, Zenon
  <2>10. s.peer = k[2] /\ (AsInitiator(k, s) \/ AsResponder(k, s))
    BY <2>7, <2>8, <2>9, Zenon DEF IndInv, SessionsProper, Answered
  <2>11. k = l
    BY <2>7, <2>10, PeerEnds, Zenon
  <2>12. EntryProper(l, e)
    BY <2>2, <2>9, <2>10, <2>11, Zenon DEF EntryProper
  <2> HIDE DEF l, e
  <2>13. QED
    BY <2>3, <2>12, StageInv, Zenon
<1>4. QED
  BY <1>1, <1>2, <1>3, Zenon

\* respond makes a session under the next index.
LEMMA RespondInv ==
  ASSUME TypeOK, IndInv, NEW l0 \in Peers, Respond(l0)
  PROVE  IndInv'
<1> DEFINE m == Head(inq[l0]).msg
           j == nextIndex[l0[1]]
           k == [initiator |-> m.src, iIndex |-> m.index, responder |-> l0[1], rIndex |-> j]
           s == [peer |-> l0[2], local |-> j, remote |-> m.index, key |-> k]
<1>1. /\ UNCHANGED <<index, slots, hsTask, nonce, filter, responses, transport, delivered>>
      /\ nextIndex' = [nextIndex EXCEPT ![l0[1]] = j + 1]
      /\ inTask' = [inTask EXCEPT ![l0] = [pc |-> "respond", session |-> s]]
      /\ inq' = [inq EXCEPT ![l0] = Tail(inq[l0])]
      /\ inq[l0] # <<>>
      /\ Head(inq[l0]).kind = "initiation"
  BY Zenon DEF Respond, sessVars, netVars
<1>2. inTask \in [Peers -> Task] /\ inq \in [Peers -> Seq(Event)]
  BY Zenon DEF TypeOK
<1>3. m.src = l0[2]
  BY <1>1, HeadProper, Zenon DEF EntryProper
<1>4. At(l0, "respond")' = s
  BY <1>1, <1>2, AtIsNext, Zenon
<1>5. \A l \in Peers : \A r \in Roles : <<l, r>> # <<l0, "respond">> => At(l, r)' = At(l, r)
  <2>1. \A l \in Peers : l # l0 => inTask'[l] = inTask[l]
    BY <1>1, <1>2, Zenon
  <2> HIDE DEF s
  <2>2. QED
    BY <1>1, <2>1, AtIs, AtIsNext DEF Roles
<1>6. IndexesDistinct' /\ IndexesFresh' /\ SentUnderKey' /\ ResponsesProper'
  <2>1. At(l0, "respond")'.local = nextIndex[l0[1]]
    <3> HIDE DEF k
    <3>1. s.local = j
      BY Zenon
    <3> HIDE DEF s
    <3>2. QED
      BY <1>4, <3>1, Zenon
  <2>2. QED
    BY <1>1, <1>5, <2>1, AddedInv, Zenon
<1>7. SessionsProper'
  <2>1. AsResponder(l0, At(l0, "respond"))'
    BY <1>3, <1>4, SMTT(30) DEF AsResponder
  <2>2. \A l \in Peers : \A r \in Roles : At(l, r)' # None => At(l, r)'.peer = l[2]
    <3>1. \A l \in Peers : \A r \in Roles : At(l, r) # None => At(l, r).peer = l[2]
      BY Zenon DEF IndInv, SessionsProper
    <3>2. s.peer = l0[2]
      BY Zenon
    <3> HIDE DEF s
    <3>3. QED
      BY <1>4, <1>5, <3>1, <3>2, Zenon
  <2>3. FinalizeProper'
    BY <1>1, <1>2, FinalizeFrame, Zenon DEF IndInv
  <2>4. \A l \in Peers : \A r \in {"previous", "current", "next", "respond"} :
          At(l, r)' = At(l, r) \/ AsResponder(l, At(l, r))'
    BY <1>5, <2>1, Zenon DEF Roles
  <2>5. QED
    BY <2>2, <2>3, <2>4, SessionsFrame, Zenon DEF IndInv
<1>8. QueuesProper'
  BY <1>1, <1>2, QueuesShrink, Zenon DEF IndInv
<1>9. QED
  BY <1>1, <1>6, <1>7, <1>8, Frames, Zenon DEF IndInv

\* finalize makes the session of the response it verified.
LEMMA FinalizeInv ==
  ASSUME TypeOK, IndInv, NEW l0 \in Peers, Finalize(l0)
  PROVE  IndInv'
<1> DEFINE m == Head(inq[l0]).msg
           k == [initiator |-> l0[1], iIndex |-> m.to, responder |-> m.src, rIndex |-> m.index]
           s == [peer |-> l0[2], local |-> m.to, remote |-> m.index, key |-> k]
<1>1. /\ UNCHANGED <<nextIndex, index, slots, hsTask, nonce, filter,
                     responses, transport, delivered>>
      /\ inTask[l0] = Idle
      /\ \/ Verifies(l0, m) /\ inTask' = [inTask EXCEPT ![l0] = [pc |-> "finalize", session |-> s]]
         \/ inTask' = inTask
      /\ inq' = [inq EXCEPT ![l0] = Tail(inq[l0])]
      /\ inq[l0] # <<>>
      /\ Head(inq[l0]).kind = "response"
  BY Zenon DEF Finalize, deviceVars, sessVars, netVars
<1>2. inTask \in [Peers -> Task] /\ inq \in [Peers -> Seq(Event)]
  BY Zenon DEF TypeOK
<1>3. m \in Response /\ m \in responses /\ m.dst = l0[1]
  BY <1>1, HeadProper, HeadType, Zenon DEF EntryProper
<1>4. \A l \in Peers : \A r \in Roles : At(l, r)' = At(l, r)
  <2>1. \A l \in Peers :
          \/ inTask'[l] = inTask[l]
          \/ inTask[l].pc # "respond" /\ inTask'[l].pc # "respond"
    <3> DEFINE t == [pc |-> "finalize", session |-> s]
    <3>1. inTask' = [inTask EXCEPT ![l0] = t] \/ inTask' = inTask
      BY <1>1, Zenon
    <3>2. t.pc # "respond" /\ inTask[l0].pc # "respond"
      <4>1. inTask[l0] = Idle
        BY <1>1, Zenon
      <4>2. QED
        BY <4>1 DEF Idle
    <3> HIDE DEF t
    <3>3. QED
      BY <1>2, <3>1, <3>2, Zenon
  <2>2. \A l \in Peers : At(l, "respond")' = At(l, "respond")
    BY <2>1, AtIs, AtIsNext
  <2>3. \A l \in Peers : \A r \in Roles \ {"respond"} : At(l, r)' = At(l, r)
    <3>1. slots' = slots /\ hsTask' = hsTask
      BY <1>1, Zenon
    <3>2. QED
      BY <3>1, AtIs, AtIsNext DEF Roles
  <2>4. QED
    BY <2>2, <2>3, Zenon
<1>5. FinalizeProper'
  <2>1. CASE inTask' = inTask
    BY <1>1, <2>1, FinalizeFrame, Zenon DEF IndInv
  <2>2. CASE Verifies(l0, m) /\ inTask' = [inTask EXCEPT ![l0] = [pc |-> "finalize", session |-> s]]
    <3>1. m.src = l0[2] /\ inTask'[l0].session = s
      BY <1>2, <2>2, Zenon DEF Verifies
    <3>2. AsInitiator(l0, s)
      BY <3>1, Zenon DEF AsInitiator
    <3>3. ResponseOf(s.key) = m
      BY <1>3, Zenon DEF ResponseOf, Response
    <3>4. \A l \in Peers : l # l0 => inTask'[l] = inTask[l]
      BY <1>2, <2>2, Zenon
    <3>5. ASSUME NEW l \in Peers, inTask'[l].pc = "finalize"
          PROVE  /\ AsInitiator(l, inTask[l].session)'
                 /\ inTask'[l].session.peer = l[2]
                 /\ ResponseOf(inTask'[l].session.key) \in responses'
      <4>1. CASE l = l0
        <5>1. inTask'[l].session = s
          BY <3>1, <4>1, Zenon
        <5>2. AsInitiator(l, inTask[l].session)' /\ s.peer = l[2]
          BY <3>2, <4>1, <5>1, Zenon DEF AsInitiator
        <5>3. ResponseOf(inTask'[l].session.key) \in responses'
          BY <1>1, <1>3, <3>3, <5>1, Zenon
        <5>4. QED
          BY <5>1, <5>2, <5>3, Zenon
      <4>2. CASE l # l0
        BY <1>1, <3>4, <3>5, <4>2, Zenon DEF IndInv, SessionsProper, AsInitiator
      <4>3. QED
        BY <4>1, <4>2, Zenon
    <3>6. QED
      BY <3>5, Zenon DEF FinalizeProper
  <2>3. QED
    BY <1>1, <2>1, <2>2, Zenon
<1>6. SessionsProper'
  <2>1. \A l \in Peers : \A r \in Roles : At(l, r)' # None => At(l, r)'.peer = l[2]
    BY <1>4, Zenon DEF IndInv, SessionsProper
  <2>2. QED
    BY <1>4, <1>5, <2>1, SessionsFrame, Zenon DEF IndInv, Roles
<1>7. QueuesProper'
  BY <1>1, <1>2, QueuesShrink, Zenon DEF IndInv
<1>8. QED
  BY <1>1, <1>4, <1>6, <1>7, Frames, QuietInv, Zenon DEF IndInv

\* Staging an outbound packet concerns no session.
LEMMA OutboundQueueInv ==
  ASSUME TypeOK, IndInv, NEW l0 \in Peers,
         StageConfirmation(l0) \/ \E p \in Traffic : StageOutbound(l0, p)
  PROVE  IndInv'
<1>1. /\ UNCHANGED <<nextIndex, index, slots, hsTask, inq, nonce, filter,
                     responses, transport, delivered>>
      /\ \/ inTask[l0].pc = "confirm" /\ inTask' = [inTask EXCEPT ![l0] = Idle]
         \/ inTask' = inTask
  BY Zenon DEF StageConfirmation, StageOutbound, deviceVars, sessVars, netVars
<1>2. inTask \in [Peers -> Task]
  BY Zenon DEF TypeOK
<1>3. \A l \in Peers :
        \/ inTask'[l] = inTask[l]
        \/ inTask[l].pc = "confirm" /\ inTask'[l].pc = "idle"
  BY <1>1, <1>2 DEF Idle
<1>4. \A l \in Peers : \A r \in Roles : At(l, r)' = At(l, r)
  <2>1. slots' = slots /\ hsTask' = hsTask
    BY <1>1, Zenon
  <2>2. QED
    BY <1>3, <2>1, AtFrame, Zenon
<1>5. SessionsProper'
  <2>1. \A l \in Peers : \A r \in Roles : At(l, r)' # None => At(l, r)'.peer = l[2]
    BY <1>4, Zenon DEF IndInv, SessionsProper
  <2>2. FinalizeProper'
    BY <1>1, <1>3, FinalizeFrame, Zenon DEF IndInv
  <2>3. QED
    BY <1>4, <2>1, <2>2, SessionsFrame, Zenon DEF IndInv, Roles
<1>6. QED
  BY <1>1, <1>4, <1>5, Frames, QuietInv, Zenon DEF IndInv

\* A response to an initiation that is no longer the uninit session is dropped.
LEMMA DropResponseInv ==
  ASSUME TypeOK, IndInv, NEW l0 \in Peers, CompleteUninit(l0),
         ~ completes_uninit(slots[l0], inTask[l0].session)
  PROVE  IndInv'
<1>1. /\ UNCHANGED <<nextIndex, index, slots, hsTask, inq, nonce, filter,
                     responses, transport, delivered>>
      /\ inTask[l0].pc = "finalize"
      /\ inTask' = [inTask EXCEPT ![l0] = Idle]
  BY Zenon DEF CompleteUninit, netVars
<1>2. inTask \in [Peers -> Task]
  BY Zenon DEF TypeOK
<1>3. \A l \in Peers :
        \/ inTask'[l] = inTask[l]
        \/ inTask[l].pc = "finalize" /\ inTask'[l].pc = "idle"
  BY <1>1, <1>2, Zenon DEF Idle
<1>4. \A l \in Peers : \A r \in Roles : At(l, r)' = At(l, r)
  <2>1. slots' = slots /\ hsTask' = hsTask
    BY <1>1, Zenon
  <2>2. QED
    BY <1>3, <2>1, AtFrame, Zenon
<1>5. SessionsProper'
  <2>1. \A l \in Peers : \A r \in Roles : At(l, r)' # None => At(l, r)'.peer = l[2]
    BY <1>4, Zenon DEF IndInv, SessionsProper
  <2>2. FinalizeProper'
    BY <1>1, <1>3, FinalizeFrame, Zenon DEF IndInv
  <2>3. QED
    BY <1>4, <2>1, <2>2, SessionsFrame, Zenon DEF IndInv, Roles
<1>6. QED
  BY <1>1, <1>4, <1>5, Frames, QuietInv, Zenon DEF IndInv

-----------------------------------------------------------------------------
\* Nothing was sent, and nothing delivered, in a session nothing was sent in and
\* no packet can find: its counter and its filter can start afresh.
LEMMA FreshCounters ==
  ASSUME TypeOK, IndInv, NEW l0 \in Peers, NEW r \in Unsent, r \notin Answered,
         At(l0, r) # None, NEW s \in FullSession, s.local = At(l0, r).local,
         nonce' = [nonce EXCEPT ![<<l0[1], s.local>>] = 0],
         filter' = [filter EXCEPT ![<<l0[1], s.local>>] = {}],
         transport' = transport, delivered' = delivered
  PROVE  NoNonceReuse' /\ FilterRemembers'
<1>1. /\ l0[1] \in Nodes /\ s.local \in Indices
      /\ nonce \in [Nodes \X Indices -> Nat]
      /\ filter \in [Nodes \X Indices -> SUBSET Nat]
  BY PeerEnds, Zenon DEF TypeOK, FullSession
<1>2. r \in Roles
  BY Zenon DEF Unsent, Roles
<1>3. ASSUME NEW m \in transport
      PROVE  /\ m.src \in Nodes /\ m.dst \in Nodes
             /\ LocalIndex(m.key, m.src) \in Indices /\ LocalIndex(m.key, m.dst) \in Indices
  <2>1. m \in Transport
    BY Zenon DEF TypeOK
  <2>2. QED
    BY <2>1, Zenon DEF Transport, Key, LocalIndex
<1>4. ASSUME NEW m \in transport
      PROVE  m.counter < nonce'[<<m.src, LocalIndex(m.key, m.src)>>]
  <2>1. m.src = l0[1] => LocalIndex(m.key, m.src) # s.local
    BY Zenon DEF IndInv, SentUnderKey, Unsent
  <2>2. nonce'[<<m.src, LocalIndex(m.key, m.src)>>] = nonce[<<m.src, LocalIndex(m.key, m.src)>>]
    BY <1>1, <1>3, <2>1, ResetOne, Zenon
  <2>3. QED
    BY <2>2, Zenon DEF IndInv, NoNonceReuse
<1>5. ASSUME NEW m \in DOMAIN delivered
      PROVE  m.counter \in filter'[<<m.dst, LocalIndex(m.key, m.dst)>>]
  <2>1. m \in transport /\ m.to = LocalIndex(m.key, m.dst)
    BY Zenon DEF IndInv, PacketsProper
  <2>2. m.dst = l0[1] => m.to # s.local
    BY <1>2, <2>1, PacketMatch, Zenon
  <2>3. filter'[<<m.dst, LocalIndex(m.key, m.dst)>>] = filter[<<m.dst, LocalIndex(m.key, m.dst)>>]
    BY <1>1, <1>3, <2>1, <2>2, ResetOne, Zenon
  <2>4. QED
    BY <2>3, Zenon DEF IndInv, FilterRemembers
<1>6. QED
  BY <1>4, <1>5, Zenon DEF NoNonceReuse, FilterRemembers

\* complete_uninit makes the session of the response current.
LEMMA CompleteUninitInv ==
  ASSUME TypeOK, IndInv, NEW l0 \in Peers, CompleteUninit(l0),
         completes_uninit(slots[l0], inTask[l0].session)
  PROVE  IndInv'
<1> DEFINE s == inTask[l0].session
<1>1. /\ UNCHANGED <<nextIndex, hsTask, inq, responses, transport, delivered>>
      /\ inTask[l0].pc = "finalize"
      /\ inTask' = [inTask EXCEPT ![l0] = [pc |-> "confirm", session |-> None]]
      /\ slots' = [slots EXCEPT ![l0] = complete_uninit(slots[l0], s)]
      /\ index' = [index EXCEPT ![l0[1]] = complete_uninit_index(slots[l0], index[l0[1]], s)]
      /\ nonce' = [nonce EXCEPT ![<<l0[1], s.local>>] = 0]
      /\ filter' = [filter EXCEPT ![<<l0[1], s.local>>] = {}]
  BY Zenon DEF CompleteUninit, netVars
<1>2. /\ inTask \in [Peers -> Task]
      /\ slots \in [Peers -> SlotsType]
      /\ DOMAIN index = Nodes
      /\ l0[1] \in Nodes
      /\ s \in FullSession /\ s # None
  BY <1>1, PeerEnds, TaskType, SessionNotNone, Zenon DEF TypeOK
<1>3. At(l0, "uninit") # None /\ At(l0, "uninit").local = s.local
  BY AtIs, Zenon DEF completes_uninit
<1>4. /\ AsInitiator(l0, s)
      /\ s.peer = l0[2]
      /\ ResponseOf(s.key) \in responses
      /\ At(l0, "uninit").peer = l0[2]
  BY <1>1, <1>3, Zenon DEF IndInv, SessionsProper, Roles
<1>5. /\ At(l0, "uninit")' = None
      /\ At(l0, "previous")' = At(l0, "current")
      /\ At(l0, "current")' = s
      /\ At(l0, "next")' = At(l0, "next")
      /\ At(l0, "hs")' = At(l0, "hs")
      /\ At(l0, "respond")' = None
  <2>1. inTask'[l0].pc = "confirm"
    BY <1>1, <1>2, Zenon
  <2>2. slots'[l0] = complete_uninit(slots[l0], s)
    BY <1>1, <1>2, Zenon
  <2>3. hsTask' = hsTask
    BY <1>1, Zenon
  <2>4. /\ slots'[l0].uninit = None
        /\ slots'[l0].previous = slots[l0].current
        /\ slots'[l0].current = s
        /\ slots'[l0].next = slots[l0].next
    BY <2>2, CompleteUninitSlots, SMTT(30)
  <2>5. At(l0, "respond")' = None
    BY <2>1, AtIsNext, Zenon
  <2>6. At(l0, "hs")' = At(l0, "hs")
    BY <2>3, HsStays, Zenon
  <2>7. At(l0, "uninit")' = None /\ At(l0, "previous")' = At(l0, "current")
    BY <2>4, AtIs, AtIsNext
  <2>8. At(l0, "current")' = s /\ At(l0, "next")' = At(l0, "next")
    BY <2>4, AtIs, AtIsNext
  <2>9. QED
    BY <2>5, <2>6, <2>7, <2>8, Zenon
<1>6. \A l \in Peers : l # l0 => \A r \in Roles : At(l, r)' = At(l, r)
  <2>1. \A l \in Peers : l # l0 => slots'[l] = slots[l] /\ inTask'[l] = inTask[l]
    BY <1>1, <1>2, Zenon
  <2>2. hsTask' = hsTask
    BY <1>1, Zenon
  <2>3. QED
    BY <2>1, <2>2, AtFrame, Zenon
<1> HIDE DEF s
<1> DEFINE from == [r \in Roles |-> IF r = "current" THEN "uninit"
                                    ELSE IF r = "previous" THEN "current" ELSE r]
           rho == [l \in Peers |-> IF l = l0 THEN from ELSE [r \in Roles |-> r]]
<1>7. Moved(rho)
  <2>1. rho \in [Peers -> [Roles -> Roles]]
    BY Zenon DEF Roles
  <2>2. \A l \in Peers : \A r \in Roles : l # l0 => rho[l][r] = r
    BY Zenon
  <2>3. \A r \in Roles : rho[l0][r] = from[r]
    BY Zenon
  <2> HIDE DEF rho
  <2>4. ASSUME NEW l \in Peers, NEW r \in Roles, At(l, r)' # None
        PROVE  /\ At(l, rho[l][r]) # None
               /\ At(l, r)'.local = At(l, rho[l][r]).local
               /\ At(l, r)'.peer = At(l, rho[l][r]).peer
               /\ r \in Unsent => rho[l][r] \in Unsent
               /\ rho[l][r] \in Answered =>
                    r \in Answered /\ At(l, r)'.key = At(l, rho[l][r]).key
    <3>1. CASE l # l0
      BY <1>6, <2>2, <2>4, <3>1, Zenon
    <3>2. CASE l = l0
      BY <1>3, <1>4, <1>5, <2>3, <2>4, <3>2, Zenon DEF Roles, Unsent, Answered
    <3>3. QED
      BY <3>1, <3>2, Zenon
  <2>5. ASSUME NEW l \in Peers, NEW r1 \in Roles, NEW r2 \in Roles,
               At(l, r1)' # None, At(l, r2)' # None, rho[l][r1] = rho[l][r2]
        PROVE  r1 = r2
    <3>1. CASE l # l0
      BY <2>2, <2>5, <3>1, Zenon
    <3>2. CASE l = l0
      <4>1. from[r1] = from[r2]
        BY <2>3, <2>5, <3>2, Zenon
      <4>2. r1 # "uninit" /\ r2 # "uninit"
        BY <1>5, <2>5, <3>2, Zenon
      <4>3. QED
        BY <4>1, <4>2, Zenon DEF Roles
    <3>3. QED
      BY <3>1, <3>2, Zenon
  <2>6. QED
    BY <2>1, <2>4, <2>5, Zenon DEF Moved
<1> HIDE DEF rho
<1>8. IndexesDistinct' /\ IndexesFresh' /\ SentUnderKey' /\ ResponsesProper'
  <2>1. IndexesDistinct' /\ SentUnderKey'
    BY <1>1, <1>7, DistinctMove, SentMove, Zenon DEF IndInv
  <2>2. ResponsesProper'
    BY <1>1, <1>7, ResponsesMove, Zenon DEF IndInv, ResponsesProper, Answered
  <2>3. IndexesFresh'
    BY <1>1, <1>7, FreshMove, Zenon DEF IndInv, IndexesFresh
  <2>4. QED
    BY <2>1, <2>2, <2>3, Zenon
<1>9. SessionsProper'
  <2>1. \A l \in Peers : \A r \in Roles : At(l, r)' # None => At(l, r)'.peer = l[2]
    BY <1>1, <1>7, FreshMove, Zenon DEF IndInv
  <2>2. FinalizeProper'
    <3>1. \A l \in Peers : inTask'[l] = inTask[l] \/ inTask'[l].pc # "finalize"
      BY <1>1, <1>2, Zenon
    <3>2. QED
      BY <1>1, <3>1, FinalizeFrame, Zenon DEF IndInv
  <2>3. AsInitiator(l0, At(l0, "current"))'
    BY <1>4, <1>5, Zenon DEF AsInitiator
  <2>4. \A l \in Peers : \A r \in {"previous", "current"} :
           \/ \E p \in {"previous", "current", "next"} : At(l, r)' = At(l, p)
           \/ AsInitiator(l, At(l, r))'
    BY <1>5, <1>6, <2>3, Zenon DEF Roles
  <2>5. \A l \in Peers : \A r \in {"next", "respond"} :
           \/ At(l, r)' = None
           \/ \E p \in {"next", "respond"} : At(l, r)' = At(l, p)
    BY <1>5, <1>6, Zenon DEF Roles
  <2>6. QED
    BY <2>1, <2>2, <2>4, <2>5, SessionsMove, Zenon DEF IndInv
<1>10. InTable'
  <2> DEFINE G == {"uninit", "previous"}
  <2>1. InTable /\ IndexesDistinct
    BY TableExact, Zenon DEF IndInv, IndexExact
  <2>2. At(l0, "previous") # None => At(l0, "previous").local # s.local
    BY <1>3, <2>1, Zenon DEF IndexesDistinct, Roles
  <2>3. \A e : e \in index'[l0[1]] <=>
          \/ e = s
          \/ /\ e \in index[l0[1]]
             /\ e.local # s.local
             /\ \A g \in G : At(l0, g) # None => e.local # At(l0, g).local
    <3>1. index'[l0[1]] = complete_uninit_index(slots[l0], index[l0[1]], s)
      BY <1>1, <1>2, Zenon
    <3>2. /\ slots[l0].uninit = At(l0, "uninit")
          /\ slots[l0].previous = At(l0, "previous")
      BY AtIs, Zenon
    <3>3. QED
      BY <1>3, <2>2, <3>1, <3>2, Zenon DEF complete_uninit_index, insert, deactivate, remove
  <2>4. \A n \in Nodes : n # l0[1] => index'[n] = index[n]
    BY <1>1, <1>2, Zenon
  <2>5. TableStep(l0, G, s, "uninit")
    <3>1. \A r \in Slotted :
            At(l0, r)' # None /\ At(l0, r)' # s =>
              \E p \in Slotted \ G : p # "uninit" /\ At(l0, r)' = At(l0, p)
      BY <1>5, Zenon DEF Slotted
    <3>2. \A p \in Slotted \ G :
            At(l0, p) # None /\ p # "uninit" => \E r \in Slotted : At(l0, r)' = At(l0, p)
      BY <1>5, Zenon DEF Slotted
    <3>3. \A l \in Peers : \A r \in Slotted : l # l0 => At(l, r)' = At(l, r)
      BY <1>6, Zenon DEF Slotted, Roles
    <3>4. \E r \in Slotted : At(l0, r)' = s
      BY <1>5, Zenon DEF Slotted
    <3>5. QED
      BY <2>3, <2>4, <3>1, <3>2, <3>3, <3>4, Zenon DEF TableStep
  <2>6. G \in SUBSET Slotted /\ "uninit" \in Roles
    BY Zenon DEF Slotted, Roles
  <2> HIDE DEF G
  <2>7. QED
    BY <1>2, <1>3, <2>1, <2>5, <2>6, TableMove, Zenon
<1>11. CurrentIsConfirmed'
  <2>1. \A l \in Peers : l # l0 => slots'[l] = slots[l]
    BY <1>1, <1>2, Zenon
  <2>2. slots'[l0].current = s
    BY <1>5, AtIsNext, Zenon
  <2>3. /\ s.key.initiator = l0[1]
        /\ [src |-> l0[2], dst |-> l0[1], index |-> s.remote, to |-> s.local] \in responses
    <3>1. /\ s.key.initiator = l0[1] /\ s.key.iIndex = s.local
          /\ s.key.responder = l0[2] /\ s.key.rIndex = s.remote
      <4>1. AsInitiator(l0, s)
        BY <1>4, Zenon
      <4>2. QED
        BY <4>1, InitiatorKey, Zenon
    <3>2. ResponseOf(s.key) \in responses
      BY <1>4, Zenon
    <3>3. QED
      BY <3>1, <3>2, Zenon DEF ResponseOf
  <2>4. QED
    BY <1>1, <2>1, <2>2, <2>3, ConfirmedStep, Zenon DEF IndInv, ConfirmedBy
<1>12. NoNonceReuse' /\ FilterRemembers'
  <2>1. "uninit" \in Unsent /\ "uninit" \notin Answered
    BY Zenon DEF Unsent, Answered
  <2>2. QED
    BY <1>1, <1>2, <1>3, <2>1, FreshCounters, Zenon DEF s
<1>13. QED
  BY <1>1, <1>8, <1>9, <1>10, <1>11, <1>12, TableNext, Frames, Zenon DEF IndInv

-----------------------------------------------------------------------------
\* The next session and the transport of data

\* prepare_next keeps the new session until its first packet comes.
LEMMA PrepareNextInv ==
  ASSUME TypeOK, IndInv, NEW l0 \in Peers, PrepareNext(l0)
  PROVE  IndInv'
<1> DEFINE s == inTask[l0].session
           q0 == [src |-> l0[1], dst |-> l0[2], index |-> s.local, to |-> s.remote]
<1>1. /\ UNCHANGED <<nextIndex, hsTask, transport, delivered>>
      /\ inTask[l0].pc = "respond"
      /\ inTask' = [inTask EXCEPT ![l0] = Idle] \/ inTask' = [inTask EXCEPT ![l0] = Dead]
      /\ inq' = inq \/ inq' = [inq EXCEPT ![l0] = <<>>]
      /\ responses' = responses \cup {q0} \/ responses' = responses
      /\ slots' = [slots EXCEPT ![l0] = prepare_next(slots[l0], s)]
      /\ index' = [index EXCEPT ![l0[1]] = prepare_next_index(slots[l0], index[l0[1]], s)]
      /\ nonce' = [nonce EXCEPT ![<<l0[1], s.local>>] = 0]
      /\ filter' = [filter EXCEPT ![<<l0[1], s.local>>] = {}]
  BY Zenon DEF PrepareNext
<1>2. /\ inTask \in [Peers -> Task]
      /\ slots \in [Peers -> SlotsType]
      /\ inq \in [Peers -> Seq(Event)]
      /\ DOMAIN index = Nodes
      /\ l0[1] \in Nodes
      /\ s \in FullSession /\ s # None
  BY <1>1, PeerEnds, TaskType, SessionNotNone, Zenon DEF TypeOK
<1>3. At(l0, "respond") = s
  BY <1>1, AtIs, Zenon
<1>4. AsResponder(l0, s) /\ s.peer = l0[2]
  BY <1>2, <1>3, Zenon DEF IndInv, SessionsProper, Roles
<1>5. /\ At(l0, "next")' = s
      /\ At(l0, "previous")' = IF At(l0, "next") = None THEN At(l0, "previous") ELSE At(l0, "next")
      /\ At(l0, "current")' = At(l0, "current")
      /\ At(l0, "uninit")' = At(l0, "uninit")
      /\ At(l0, "hs")' = At(l0, "hs")
      /\ At(l0, "respond")' = None
  <2>1. inTask'[l0].pc # "respond"
    <3>1. inTask' = [inTask EXCEPT ![l0] = Idle] \/ inTask' = [inTask EXCEPT ![l0] = Dead]
      BY <1>1, Zenon
    <3>2. inTask \in [Peers -> Task]
      BY <1>2, Zenon
    <3>3. QED
      BY <3>1, <3>2 DEF Idle, Dead
  <2>2. slots'[l0] = prepare_next(slots[l0], s)
    BY <1>1, <1>2, Zenon
  <2>3. hsTask' = hsTask
    BY <1>1, Zenon
  <2>4. /\ slots'[l0].next = s
        /\ slots'[l0].previous = IF slots[l0].next = None THEN slots[l0].previous
                                 ELSE slots[l0].next
        /\ slots'[l0].current = slots[l0].current
        /\ slots'[l0].uninit = slots[l0].uninit
    BY <2>2, PrepareNextSlots
  <2>5. At(l0, "respond")' = None
    BY <2>1, AtIsNext, Zenon
  <2>6. At(l0, "hs")' = At(l0, "hs")
    BY <2>3, HsStays, Zenon
  <2>7. /\ At(l0, "next")' = s
        /\ At(l0, "previous")' = IF At(l0, "next") = None THEN At(l0, "previous") ELSE At(l0, "next")
    <3>1. At(l0, "next")' = s
      BY <2>4, AtIsNext, Zenon
    <3>2. At(l0, "previous")' = IF slots[l0].next = None THEN slots[l0].previous ELSE slots[l0].next
      BY <2>4, AtIsNext, Zenon
    <3>3. At(l0, "next") = slots[l0].next /\ At(l0, "previous") = slots[l0].previous
      BY AtIs, Zenon
    <3>4. QED
      BY <3>1, <3>2, <3>3, Zenon
  <2>8. At(l0, "current")' = At(l0, "current") /\ At(l0, "uninit")' = At(l0, "uninit")
    BY <2>4, AtIs, AtIsNext
  <2>9. QED
    BY <2>5, <2>6, <2>7, <2>8, Zenon
<1>6. \A l \in Peers : l # l0 => \A r \in Roles : At(l, r)' = At(l, r)
  <2>1. \A l \in Peers : l # l0 => slots'[l] = slots[l] /\ inTask'[l] = inTask[l]
    BY <1>1, <1>2, Zenon
  <2>2. hsTask' = hsTask
    BY <1>1, Zenon
  <2>3. QED
    BY <2>1, <2>2, AtFrame, Zenon
<1> HIDE DEF s
<1> DEFINE from == [r \in Roles |->
                      IF r = "next" THEN "respond"
                      ELSE IF r = "previous" /\ At(l0, "next") # None THEN "next" ELSE r]
           rho == [l \in Peers |-> IF l = l0 THEN from ELSE [r \in Roles |-> r]]
<1>7. Moved(rho)
  <2>1. rho \in [Peers -> [Roles -> Roles]]
    <3>1. from \in [Roles -> Roles]
      BY Zenon DEF Roles
    <3> HIDE DEF from
    <3>2. QED
      BY <3>1, Zenon
  <2>2. \A l \in Peers : \A r \in Roles : l # l0 => rho[l][r] = r
    BY Zenon
  <2>3. \A r \in Roles : rho[l0][r] = from[r]
    BY Zenon
  <2> HIDE DEF rho
  <2>4. ASSUME NEW l \in Peers, NEW r \in Roles, At(l, r)' # None
        PROVE  /\ At(l, rho[l][r]) # None
               /\ At(l, r)'.local = At(l, rho[l][r]).local
               /\ At(l, r)'.peer = At(l, rho[l][r]).peer
               /\ r \in Unsent => rho[l][r] \in Unsent
               /\ rho[l][r] \in Answered =>
                    r \in Answered /\ At(l, r)'.key = At(l, rho[l][r]).key
    <3>1. CASE l # l0
      BY <1>6, <2>2, <2>4, <3>1, Zenon
    <3>2. CASE l = l0
      BY <1>2, <1>3, <1>5, <2>3, <2>4, <3>2, Zenon DEF Roles, Unsent, Answered
    <3>3. QED
      BY <3>1, <3>2, Zenon
  <2>5. ASSUME NEW l \in Peers, NEW r1 \in Roles, NEW r2 \in Roles,
               At(l, r1)' # None, At(l, r2)' # None, rho[l][r1] = rho[l][r2]
        PROVE  r1 = r2
    <3>1. CASE l # l0
      BY <2>2, <2>5, <3>1, Zenon
    <3>2. CASE l = l0
      <4>1. from[r1] = from[r2]
        BY <2>3, <2>5, <3>2, Zenon
      <4>2. r1 # "respond" /\ r2 # "respond"
        BY <1>5, <2>5, <3>2, Zenon
      <4>3. QED
        BY <4>1, <4>2, Zenon DEF Roles
    <3>3. QED
      BY <3>1, <3>2, Zenon
  <2>6. QED
    BY <2>1, <2>4, <2>5, Zenon DEF Moved
<1> HIDE DEF rho
<1>8. IndexesDistinct' /\ SentUnderKey'
  BY <1>1, <1>7, DistinctMove, SentMove, Zenon DEF IndInv
<1>9. \A l \in Peers : \A r \in Roles :
        At(l, r)' # None => At(l, r)'.local < nextIndex'[l[1]] /\ At(l, r)'.peer = l[2]
  BY <1>1, <1>7, FreshMove, Zenon DEF IndInv
<1>10. IndexesFresh'
  <2>1. s.local < nextIndex'[l0[1]]
    BY <1>2, <1>5, <1>9, Zenon DEF Roles
  <2>2. \A q \in responses' : q.index < nextIndex'[q.src]
    <3>1. nextIndex' = nextIndex /\ responses' \subseteq responses \cup {q0}
      BY <1>1, Zenon
    <3>2. q0.src = l0[1] /\ q0.index = s.local
      BY Zenon
    <3>3. \A q \in responses : q.index < nextIndex[q.src]
      BY Zenon DEF IndInv, IndexesFresh
    <3> HIDE DEF q0
    <3>4. QED
      BY <2>1, <3>1, <3>2, <3>3, Zenon
  <2>3. QED
    BY <1>1, <1>9, <2>2, Zenon DEF IndInv, IndexesFresh
<1>11. ResponsesProper'
  <2>1. SUFFICES ASSUME NEW q \in responses', NEW l \in Peers, NEW r \in Roles,
                        l[1] = q.src, At(l, r)' # None, At(l, r)'.local = q.index
                 PROVE  r \in Answered /\ At(l, r)'.key = KeyOf(q)
    BY Zenon DEF ResponsesProper, Answered
  <2>2. CASE q \in responses
    BY <1>7, <2>1, <2>2, ResponsesMove, Zenon DEF IndInv
  <2>3. CASE q = q0
    <3>1. l[1] = l0[1] /\ At(l, r)'.local = At(l0, "next")'.local
      BY <1>5, <2>1, <2>3, Zenon
    <3>2. l = l0 /\ r = "next"
      BY <1>2, <1>5, <1>8, <2>1, <3>1, Zenon DEF IndexesDistinct, Roles
    <3>3. s.key = KeyOf(q0)
      BY <1>4, Zenon DEF AsResponder, KeyOf
    <3>4. QED
      BY <1>5, <2>3, <3>2, <3>3, Zenon DEF Answered
  <2>4. QED
    BY <1>1, <2>2, <2>3, Zenon
<1>12. SessionsProper'
  <2>1. FinalizeProper'
    <3>1. \A l \in Peers : inTask'[l] = inTask[l] \/ inTask'[l].pc # "finalize"
      <4>1. inTask' = [inTask EXCEPT ![l0] = Idle] \/ inTask' = [inTask EXCEPT ![l0] = Dead]
        BY <1>1, Zenon
      <4>2. inTask \in [Peers -> Task]
        BY <1>2, Zenon
      <4>3. QED
        BY <4>1, <4>2 DEF Idle, Dead
    <3>2. QED
      BY <1>1, <3>1, FinalizeFrame, Zenon DEF IndInv
  <2>2. \A l \in Peers : \A r \in {"previous", "current"} :
           \E p \in {"previous", "current", "next"} : At(l, r)' = At(l, p)
    BY <1>5, <1>6, Zenon DEF Roles
  <2>3. \A l \in Peers : \A r \in {"next", "respond"} :
           \/ At(l, r)' = None
           \/ \E p \in {"next", "respond"} : At(l, r)' = At(l, p)
    BY <1>3, <1>5, <1>6, Zenon DEF Roles
  <2>4. QED
    BY <1>9, <2>1, <2>2, <2>3, SessionsMove, Zenon DEF IndInv
<1>13. InTable'
  <2> DEFINE G == IF At(l0, "next") = None THEN {} ELSE {"previous"}
  <2>1. InTable /\ IndexesDistinct
    BY TableExact, Zenon DEF IndInv, IndexExact
  <2>2. \A e : e \in index'[l0[1]] <=>
          \/ e = s
          \/ /\ e \in index[l0[1]]
             /\ e.local # s.local
             /\ \A g \in G : At(l0, g) # None => e.local # At(l0, g).local
    <3>1. index'[l0[1]] = prepare_next_index(slots[l0], index[l0[1]], s)
      BY <1>1, <1>2, Zenon
    <3>2. /\ slots[l0].next = At(l0, "next")
          /\ slots[l0].previous = At(l0, "previous")
      BY AtIs, Zenon
    <3>3. QED
      BY <3>1, <3>2, Zenon DEF prepare_next_index, insert, deactivate, remove
  <2>3. \A n \in Nodes : n # l0[1] => index'[n] = index[n]
    BY <1>1, <1>2, Zenon
  <2>4. TableStep(l0, G, s, "respond")
    <3>1. \A r \in Slotted :
            At(l0, r)' # None /\ At(l0, r)' # s =>
              \E p \in Slotted \ G : p # "respond" /\ At(l0, r)' = At(l0, p)
      BY <1>5, Zenon DEF Slotted
    <3>2. \A p \in Slotted \ G :
            At(l0, p) # None /\ p # "respond" => \E r \in Slotted : At(l0, r)' = At(l0, p)
      BY <1>5, Zenon DEF Slotted
    <3>3. \A l \in Peers : \A r \in Slotted : l # l0 => At(l, r)' = At(l, r)
      BY <1>6, Zenon DEF Slotted, Roles
    <3>4. \E r \in Slotted : At(l0, r)' = s
      BY <1>5, Zenon DEF Slotted
    <3>5. QED
      BY <2>2, <2>3, <3>1, <3>2, <3>3, <3>4, Zenon DEF TableStep
  <2>5. G \in SUBSET Slotted /\ "respond" \in Roles
    BY Zenon DEF Slotted, Roles
  <2> HIDE DEF G
  <2>6. QED
    BY <1>2, <1>3, <2>1, <2>4, <2>5, TableMove, Zenon
<1>14. CurrentIsConfirmed'
  <2>1. \A l \in Peers : slots'[l].current = slots[l].current
    <3>1. \A l \in Peers : At(l, "current")' = At(l, "current")
      BY <1>5, <1>6, Zenon DEF Roles
    <3>2. QED
      BY <3>1, AtIs, AtIsNext, Zenon
  <2>2. QED
    BY <1>1, <2>1, ConfirmedStep, Zenon DEF IndInv
<1>15. NoNonceReuse' /\ FilterRemembers'
  <2>1. "respond" \in Unsent /\ "respond" \notin Answered
    BY Zenon DEF Unsent, Answered
  <2>2. QED
    BY <1>1, <1>2, <1>3, <2>1, FreshCounters, Zenon
<1>16. PacketsProper'
  <2>1. responses \subseteq responses' /\ transport' = transport /\ delivered' = delivered
    BY <1>1, Zenon
  <2>2. QED
    BY <2>1, Zenon DEF IndInv, PacketsProper
<1>17. QueuesProper'
  BY <1>1, <1>2, QueuesShrink, Zenon DEF IndInv
<1>18. QED
  BY <1>8, <1>10, <1>11, <1>12, <1>13, <1>14, <1>15, <1>16, <1>17, TableNext, Zenon DEF IndInv

-----------------------------------------------------------------------------
\* What is known of the packet at the head of a queue and of its session.
LEMMA HeadPacket ==
  ASSUME TypeOK, IndInv, NEW l \in Peers, inq[l] # <<>>, Head(inq[l]).kind = "transport"
  PROVE  LET m == Head(inq[l]).msg
             s == Head(inq[l]).session
         IN  /\ m \in transport /\ m \in Transport
             /\ m.dst = l[1]
             /\ s \in FullSession /\ s # None
             /\ s.peer = l[2] /\ s.local = m.to /\ s.key = m.key
             /\ AsInitiator(l, s) \/ AsResponder(l, s)
             /\ LocalIndex(m.key, m.dst) = s.local
<1> DEFINE m == Head(inq[l]).msg
           s == Head(inq[l]).session
<1>1. /\ m \in transport /\ m.dst = l[1]
      /\ s.peer = l[2] /\ s.local = m.to /\ s.key = m.key
      /\ AsInitiator(l, s) \/ AsResponder(l, s)
  BY HeadProper, Zenon DEF EntryProper
<1>2. m \in Transport /\ s \in HalfSession \cup FullSession
  BY HeadType, Zenon DEF AnySession
<1>3. s \in FullSession
  <2>1. s.key \in Key
    BY <1>1, <1>2, Zenon DEF Transport
  <2>2. s.remote \in Indices
    BY <1>1, <2>1, SMTT(30) DEF AsInitiator, AsResponder, Key
  <2>3. s.remote # 0
    BY <2>2, TunnelAssumption DEF Indices
  <2>4. QED
    BY <1>2, <2>3, Zenon DEF HalfSession
<1>4. LocalIndex(m.key, m.dst) = s.local
  BY <1>1, Zenon DEF IndInv, PacketsProper
<1>5. QED
  BY <1>1, <1>2, <1>3, <1>4, SessionNotNone, Zenon

\* A packet that completes the next session was found by that very session.
LEMMA CompletesItself ==
  ASSUME TypeOK, IndInv, NEW l \in Peers, inq[l] # <<>>, Head(inq[l]).kind = "transport",
         completes_next(slots[l], Head(inq[l]).session)
  PROVE  /\ At(l, "next") = Head(inq[l]).session
         /\ AsResponder(l, At(l, "next"))
         /\ At(l, "next").key = Head(inq[l]).msg.key
<1> DEFINE m == Head(inq[l]).msg
           s == Head(inq[l]).session
           t == At(l, "next")
<1>1. t # None /\ t.local = s.local
  BY AtIs, Zenon DEF completes_next
<1>2. t \in FullSession
  BY <1>1, AtIs DEF TypeOK, SlotsType
<1>3. "next" \in Roles
  BY Zenon DEF Roles
<1>4. /\ m \in transport /\ m.dst = l[1]
      /\ s \in FullSession
      /\ s.peer = l[2] /\ s.local = m.to /\ s.key = m.key
      /\ AsInitiator(l, s) \/ AsResponder(l, s)
  BY HeadPacket, Zenon
<1>5. t.key = m.key
  BY <1>1, <1>3, <1>4, PacketMatch, Zenon
<1>6. AsResponder(l, t) /\ t.peer = l[2]
  BY <1>1, <1>3, Zenon DEF IndInv, SessionsProper
<1>7. l[1] # l[2]
  BY PeerEnds, Zenon
<1>8. AsResponder(l, s)
  BY <1>4, <1>5, <1>6, <1>7, SMTT(30) DEF AsInitiator, AsResponder
<1>9. t.remote = s.remote
  BY <1>4, <1>5, <1>6, <1>8 DEF AsResponder
<1> HIDE DEF t, s, m
<1>10. t = s
  BY <1>1, <1>2, <1>4, <1>5, <1>6, <1>9 DEF FullSession
<1>11. QED
  BY <1>5, <1>6, <1>10, Zenon DEF t, s, m

\* handle_transport_data records what it delivers in the filter.
LEMMA DeliverInv ==
  ASSUME TypeOK, IndInv, NEW l0 \in Peers, HandleTransport(l0)
  PROVE  PacketsProper' /\ FilterRemembers' /\ QueuesProper'
<1> DEFINE m == Head(inq[l0]).msg
           s == Head(inq[l0]).session
           F == filter[<<l0[1], s.local>>] \cup {m.counter}
<1>1. /\ inq[l0] # <<>> /\ Head(inq[l0]).kind = "transport"
      /\ responses' = responses /\ transport' = transport
      /\ inq' = [inq EXCEPT ![l0] = Tail(inq[l0])]
  BY Zenon DEF HandleTransport, netVars
<1>0. \/ /\ filter' = [filter EXCEPT ![<<l0[1], s.local>>] = F]
         /\ DOMAIN delivered' = DOMAIN delivered \cup {m}
      \/ filter' = filter /\ delivered' = delivered
  <2>1. \/ Deliver(l0, m, s) /\ DOMAIN delivered' = DOMAIN delivered \cup {m}
        \/ filter' = filter /\ delivered' = delivered
    BY HandleTransportDelivery, Zenon
  <2>2. Deliver(l0, m, s) => filter' = [filter EXCEPT ![<<l0[1], s.local>>] = F]
    <3> HIDE DEF m, s
    <3>1. QED
      BY Zenon, Zenon DEF Deliver
  <2>3. QED
    BY <2>1, <2>2, Zenon
<1>2. /\ m \in transport /\ m.dst = l0[1] /\ s.local \in Indices /\ l0[1] \in Nodes
      /\ LocalIndex(m.key, m.dst) = s.local
  BY <1>1, HeadPacket, PeerEnds, Zenon DEF FullSession
<1>3. PacketsProper'
  <2>1. DOMAIN delivered' \subseteq transport
    BY <1>0, <1>2, Zenon DEF IndInv, PacketsProper
  <2>2. QED
    BY <1>1, <2>1, Zenon DEF IndInv, PacketsProper
<1>4. FilterRemembers'
  <2>1. CASE filter' = filter /\ delivered' = delivered
    BY <2>1, Zenon DEF IndInv, FilterRemembers
  <2>2. CASE /\ filter' = [filter EXCEPT ![<<l0[1], s.local>>] = F]
             /\ DOMAIN delivered' = DOMAIN delivered \cup {m}
    <3>1. filter \in [Nodes \X Indices -> SUBSET Nat]
      BY Zenon DEF TypeOK
    <3>2. ASSUME NEW d \in DOMAIN delivered'
          PROVE  d.counter \in filter'[<<d.dst, LocalIndex(d.key, d.dst)>>]
      <4>1. d \in transport
        BY <1>2, <2>2, Zenon DEF IndInv, PacketsProper
      <4>2. d.dst \in Nodes /\ LocalIndex(d.key, d.dst) \in Indices
        <5>1. d \in Transport
          BY <4>1, Zenon DEF TypeOK
        <5>2. QED
          BY <5>1, Zenon DEF Transport, Key, LocalIndex
      <4> HIDE DEF F
      <4>3. filter'[<<d.dst, LocalIndex(d.key, d.dst)>>] =
              IF d.dst = l0[1] /\ LocalIndex(d.key, d.dst) = s.local
              THEN F ELSE filter[<<d.dst, LocalIndex(d.key, d.dst)>>]
        BY <1>2, <2>2, <3>1, <4>2, ResetOne, Zenon
      <4>4. CASE d = m
        BY <1>2, <4>3, <4>4, Zenon DEF F
      <4>5. CASE d # m
        <5>1. d.counter \in filter[<<d.dst, LocalIndex(d.key, d.dst)>>]
          BY <2>2, <4>5, Zenon DEF IndInv, FilterRemembers
        <5>2. QED
          BY <4>3, <5>1, Zenon DEF F
      <4>6. QED
        BY <4>4, <4>5, Zenon
    <3>3. QED
      BY <3>2, Zenon DEF FilterRemembers
  <2>3. QED
    BY <1>0, <2>1, <2>2, Zenon
<1>5. QueuesProper'
  <2>1. inq \in [Peers -> Seq(Event)]
    BY Zenon DEF TypeOK
  <2>2. QED
    BY <1>1, <2>1, QueuesShrink, Zenon DEF IndInv
<1>6. QED
  BY <1>3, <1>4, <1>5, Zenon

\* A packet of a session that is not the next one changes no session.
LEMMA HandleTransportInv ==
  ASSUME TypeOK, IndInv, NEW l0 \in Peers, HandleTransport(l0),
         ~ completes_next(slots[l0], Head(inq[l0]).session)
  PROVE  IndInv'
<1>1. UNCHANGED <<nextIndex, index, slots, hsTask, inTask, nonce, responses, transport>>
  BY HandleTransportSlots, Zenon DEF HandleTransport, netVars
<1>2. \A l \in Peers : \A r \in Roles : At(l, r)' = At(l, r)
  <2>1. slots' = slots /\ hsTask' = hsTask /\ inTask' = inTask
    BY <1>1, Zenon
  <2>2. QED
    BY <2>1, AtFrame, Zenon
<1>3. SessionsProper'
  <2>1. \A l \in Peers : \A r \in Roles : At(l, r)' # None => At(l, r)'.peer = l[2]
    BY <1>2, Zenon DEF IndInv, SessionsProper
  <2>2. FinalizeProper'
    BY <1>1, FinalizeFrame, Zenon DEF IndInv
  <2>3. QED
    BY <1>2, <2>1, <2>2, SessionsFrame, Zenon DEF IndInv, Roles
<1>4. QED
  BY <1>1, <1>2, <1>3, DeliverInv, QuietInv, Zenon

\* complete_next makes the next session current.
LEMMA CompleteNextInv ==
  ASSUME TypeOK, IndInv, NEW l0 \in Peers, HandleTransport(l0),
         completes_next(slots[l0], Head(inq[l0]).session)
  PROVE  IndInv'
<1> DEFINE m == Head(inq[l0]).msg
           s == Head(inq[l0]).session
<1>1. /\ UNCHANGED <<nextIndex, hsTask, inTask, nonce, responses, transport>>
      /\ inq[l0] # <<>> /\ Head(inq[l0]).kind = "transport"
      /\ slots' = [slots EXCEPT ![l0] = complete_next(slots[l0], s)]
      /\ index' = [index EXCEPT ![l0[1]] = complete_next_index(slots[l0], index[l0[1]], s)]
  BY HandleTransportSlots, Zenon DEF HandleTransport, netVars
<1>2. /\ slots \in [Peers -> SlotsType]
      /\ DOMAIN index = Nodes
      /\ l0[1] \in Nodes
      /\ s # None
  BY <1>1, PeerEnds, HeadPacket, Zenon DEF TypeOK
<1>3. At(l0, "next") = s /\ AsResponder(l0, s) /\ s.key = m.key
  BY <1>1, CompletesItself, Zenon
<1>4. m \in transport /\ m.dst = l0[1] /\ s.local = m.to
  BY <1>1, HeadPacket, Zenon
<1>5. /\ At(l0, "next")' = None
      /\ At(l0, "previous")' = At(l0, "current")
      /\ At(l0, "current")' = s
      /\ At(l0, "uninit")' = At(l0, "uninit")
      /\ At(l0, "hs")' = At(l0, "hs")
      /\ At(l0, "respond")' = At(l0, "respond")
  <2>1. inTask' = inTask /\ hsTask' = hsTask
    BY <1>1, Zenon
  <2>2. slots'[l0] = complete_next(slots[l0], s)
    BY <1>1, <1>2, Zenon
  <2>3. QED
    BY <2>1, <2>2, AtIs, AtIsNext, SMTT(30) DEF complete_next
<1>6. \A l \in Peers : l # l0 => \A r \in Roles : At(l, r)' = At(l, r)
  <2>1. \A l \in Peers : l # l0 => slots'[l] = slots[l]
    BY <1>1, <1>2, Zenon
  <2>2. inTask' = inTask /\ hsTask' = hsTask
    BY <1>1, Zenon
  <2>3. QED
    BY <2>1, <2>2, AtFrame, Zenon
<1> HIDE DEF s, m
<1> DEFINE from == [r \in Roles |-> IF r = "current" THEN "next"
                                    ELSE IF r = "previous" THEN "current" ELSE r]
           rho == [l \in Peers |-> IF l = l0 THEN from ELSE [r \in Roles |-> r]]
<1>7. Moved(rho)
  <2>1. rho \in [Peers -> [Roles -> Roles]]
    BY Zenon DEF Roles
  <2>2. \A l \in Peers : \A r \in Roles : l # l0 => rho[l][r] = r
    BY Zenon
  <2>3. \A r \in Roles : rho[l0][r] = from[r]
    BY Zenon
  <2> HIDE DEF rho
  <2>4. ASSUME NEW l \in Peers, NEW r \in Roles, At(l, r)' # None
        PROVE  /\ At(l, rho[l][r]) # None
               /\ At(l, r)'.local = At(l, rho[l][r]).local
               /\ At(l, r)'.peer = At(l, rho[l][r]).peer
               /\ r \in Unsent => rho[l][r] \in Unsent
               /\ rho[l][r] \in Answered =>
                    r \in Answered /\ At(l, r)'.key = At(l, rho[l][r]).key
    <3>1. CASE l # l0
      BY <1>6, <2>2, <2>4, <3>1, Zenon
    <3>2. CASE l = l0
      BY <1>2, <1>3, <1>5, <2>3, <2>4, <3>2, Zenon DEF Roles, Unsent, Answered
    <3>3. QED
      BY <3>1, <3>2, Zenon
  <2>5. ASSUME NEW l \in Peers, NEW r1 \in Roles, NEW r2 \in Roles,
               At(l, r1)' # None, At(l, r2)' # None, rho[l][r1] = rho[l][r2]
        PROVE  r1 = r2
    BY <1>5, <2>2, <2>3, <2>5, SMTT(30) DEF Roles
  <2>6. QED
    BY <2>1, <2>4, <2>5, Zenon DEF Moved
<1> HIDE DEF rho
<1>8. IndexesDistinct' /\ IndexesFresh' /\ SentUnderKey' /\ ResponsesProper'
  <2>1. IndexesDistinct' /\ SentUnderKey'
    BY <1>1, <1>7, DistinctMove, SentMove, Zenon DEF IndInv
  <2>2. ResponsesProper'
    BY <1>1, <1>7, ResponsesMove, Zenon DEF IndInv, ResponsesProper, Answered
  <2>3. IndexesFresh'
    BY <1>1, <1>7, FreshMove, Zenon DEF IndInv, IndexesFresh
  <2>4. QED
    BY <2>1, <2>2, <2>3, Zenon
<1>9. SessionsProper'
  <2>1. \A l \in Peers : \A r \in Roles : At(l, r)' # None => At(l, r)'.peer = l[2]
    BY <1>1, <1>7, FreshMove, Zenon DEF IndInv
  <2>2. FinalizeProper'
    BY <1>1, FinalizeFrame, Zenon DEF IndInv
  <2>3. \A l \in Peers : \A r \in {"previous", "current"} :
           \E p \in {"previous", "current", "next"} : At(l, r)' = At(l, p)
    BY <1>3, <1>5, <1>6, Zenon DEF Roles
  <2>4. \A l \in Peers : \A r \in {"next", "respond"} :
           \/ At(l, r)' = None
           \/ \E p \in {"next", "respond"} : At(l, r)' = At(l, p)
    BY <1>5, <1>6, Zenon DEF Roles
  <2>5. QED
    BY <2>1, <2>2, <2>3, <2>4, SessionsMove, Zenon DEF IndInv
<1>10. InTable'
  <2> DEFINE G == {"next", "previous"}
  <2>1. InTable /\ IndexesDistinct
    BY TableExact, Zenon DEF IndInv, IndexExact
  <2>2. \A e : e \in index'[l0[1]] <=>
          \/ e = s
          \/ /\ e \in index[l0[1]]
             /\ e.local # s.local
             /\ \A g \in G : At(l0, g) # None => e.local # At(l0, g).local
    <3>1. index'[l0[1]] = complete_next_index(slots[l0], index[l0[1]], s)
      BY <1>1, <1>2, Zenon
    <3>2. /\ slots[l0].next = At(l0, "next")
          /\ slots[l0].previous = At(l0, "previous")
      BY AtIs, Zenon
    <3>3. QED
      BY <1>3, <3>1, <3>2, Zenon DEF complete_next_index, insert, deactivate, remove
  <2>3. \A n \in Nodes : n # l0[1] => index'[n] = index[n]
    BY <1>1, <1>2, Zenon
  <2>4. TableStep(l0, G, s, "next")
    <3>1. \A r \in Slotted :
            At(l0, r)' # None /\ At(l0, r)' # s =>
              \E p \in Slotted \ G : p # "next" /\ At(l0, r)' = At(l0, p)
      BY <1>5, Zenon DEF Slotted
    <3>2. \A p \in Slotted \ G :
            At(l0, p) # None /\ p # "next" => \E r \in Slotted : At(l0, r)' = At(l0, p)
      BY <1>5, Zenon DEF Slotted
    <3>3. \A l \in Peers : \A r \in Slotted : l # l0 => At(l, r)' = At(l, r)
      BY <1>6, Zenon DEF Slotted, Roles
    <3>4. \E r \in Slotted : At(l0, r)' = s
      BY <1>5, Zenon DEF Slotted
    <3>5. QED
      BY <2>2, <2>3, <3>1, <3>2, <3>3, <3>4, Zenon DEF TableStep
  <2>5. G \in SUBSET Slotted /\ "next" \in Roles
    BY Zenon DEF Slotted, Roles
  <2> HIDE DEF G
  <2>6. QED
    BY <1>2, <1>3, <2>1, <2>4, <2>5, TableMove, Zenon
<1>11. CurrentIsConfirmed'
  <2>1. \A l \in Peers : l # l0 => slots'[l].current = slots[l].current
    BY <1>1, <1>2, Zenon
  <2>2. slots'[l0].current = s
    BY <1>5, AtIsNext, Zenon
  <2>3. ConfirmedBy(l0, s, responses, transport)
    <3>1. s.key.initiator = l0[2] /\ s.key.responder = l0[1] /\ l0[1] # l0[2]
      BY <1>3, PeerEnds DEF AsResponder
    <3>2. \/ m.key.initiator = m.src /\ m.key.responder = m.dst
          \/ m.key.initiator = m.dst /\ m.key.responder = m.src
      BY <1>4, Zenon DEF IndInv, PacketsProper
    <3>3. m.src = l0[2] /\ m.key = s.key
      BY <1>3, <1>4, <3>1, <3>2, Zenon
    <3>4. QED
      BY <1>4, <3>1, <3>3, Zenon DEF ConfirmedBy
  <2>4. QED
    BY <1>1, <2>1, <2>2, <2>3, ConfirmedStep, Zenon DEF IndInv
<1>12. NoNonceReuse'
  BY <1>1, Frames, Zenon DEF IndInv
<1>13. QED
  BY <1>8, <1>9, <1>10, <1>11, <1>12, DeliverInv, TableNext, Zenon DEF IndInv

\* tick_outbound encrypts a packet under the current session.
LEMMA TickOutboundInv ==
  ASSUME TypeOK, IndInv, NEW l0 \in Peers, TickOutbound(l0)
  PROVE  IndInv'
<1> DEFINE s == slots[l0].current
           n == nonce[<<l0[1], s.local>>]
           m0 == [src |-> l0[1], dst |-> l0[2], to |-> s.remote, key |-> s.key,
                  counter |-> n, empty |-> Head(outq[l0]) = "empty"]
<1>1. /\ UNCHANGED <<nextIndex, index, slots, hsTask, inTask, inq, filter, responses, delivered>>
      /\ \/ nonce' = nonce /\ transport' = transport
         \/ /\ s # None
            /\ nonce' = [nonce EXCEPT ![<<l0[1], s.local>>] = n + 1]
            /\ transport' = transport \cup {m0}
  BY Zenon DEF TickOutbound, deviceVars
<1>2. \A l \in Peers : \A r \in Roles : At(l, r)' = At(l, r)
  <2>1. slots' = slots /\ hsTask' = hsTask /\ inTask' = inTask
    BY <1>1, Zenon
  <2>2. QED
    BY <2>1, AtFrame, Zenon
<1>3. SessionsProper'
  <2>1. \A l \in Peers : \A r \in Roles : At(l, r)' # None => At(l, r)'.peer = l[2]
    BY <1>2, Zenon DEF IndInv, SessionsProper
  <2>2. FinalizeProper'
    BY <1>1, FinalizeFrame, Zenon DEF IndInv
  <2>3. QED
    BY <1>2, <2>1, <2>2, SessionsFrame, Zenon DEF IndInv, Roles
<1>4. CASE nonce' = nonce /\ transport' = transport
  BY <1>1, <1>2, <1>3, <1>4, Frames, QuietInv, Zenon DEF IndInv
<1>5. CASE /\ s # None
           /\ nonce' = [nonce EXCEPT ![<<l0[1], s.local>>] = n + 1]
           /\ transport' = transport \cup {m0}
  <2>1. /\ l0[1] \in Nodes /\ l0[2] \in Nodes /\ l0[1] # l0[2] /\ l0 = <<l0[1], l0[2]>>
        /\ At(l0, "current") = s
        /\ s \in FullSession
    <3>1. slots[l0] \in SlotsType
      BY Zenon DEF TypeOK
    <3>2. QED
      BY <1>5, <3>1, PeerEnds, AtIs, Zenon DEF SlotsType
  <2>2. s.local \in Indices /\ s.local < nextIndex[l0[1]]
    BY <1>5, <2>1, Zenon DEF IndInv, IndexesFresh, Roles, FullSession
  <2>3. AsInitiator(l0, s) \/ AsResponder(l0, s)
    BY <1>5, <2>1, Zenon DEF IndInv, SessionsProper
  <2>4. ConfirmedBy(l0, s, responses, transport)
    BY <1>5, Zenon DEF IndInv, CurrentIsConfirmed, ConfirmedBy
  <2>5. m0.src = l0[1] /\ m0.dst = l0[2] /\ m0.key = s.key /\ m0.to = s.remote /\ m0.counter = n
    BY Zenon
  <2>6. LocalIndex(s.key, l0[1]) = s.local /\ LocalIndex(s.key, l0[2]) = s.remote
    BY <2>1, <2>3 DEF AsInitiator, AsResponder, LocalIndex
  <2>7. n \in Nat
    BY <2>1, <2>2, Zenon DEF TypeOK
  <2> HIDE DEF m0, n, s
  <2>8. IndexesDistinct' /\ IndexExact'
    BY <1>1, <1>2, Frames DEF IndInv, IndexesDistinct
  <2>9. IndexesFresh'
    <3>1. \A m \in transport' : LocalIndex(m.key, m.src) < nextIndex[m.src]
      BY <1>5, <2>2, <2>5, <2>6, Zenon DEF IndInv, IndexesFresh
    <3>2. QED
      BY <1>1, <1>2, <3>1, Zenon DEF IndInv, IndexesFresh
  <2>10. PacketsProper'
    <3>1. /\ <<m0.src, m0.dst>> \in Peers
          /\ \/ m0.key.initiator = m0.src /\ m0.key.responder = m0.dst
             \/ m0.key.initiator = m0.dst /\ m0.key.responder = m0.src
          /\ m0.to = LocalIndex(m0.key, m0.dst)
      BY <2>1, <2>3, <2>5, <2>6 DEF AsInitiator, AsResponder
    <3>2. /\ ResponseOf(m0.key) \in responses
          /\ m0.key.initiator = m0.dst => \E m2 \in transport : m2.src = m0.dst /\ m2.key = m0.key
      <4>1. CASE AsInitiator(l0, s)
        BY <2>1, <2>4, <2>5, <4>1 DEF AsInitiator, ConfirmedBy, ResponseOf
      <4>2. CASE AsResponder(l0, s)
        <5>1. s.key.initiator = l0[2] /\ s.key.initiator # l0[1]
          BY <2>1, <4>2 DEF AsResponder
        <5>2. PICK m2 \in transport : m2.src = l0[2] /\ m2.key = s.key
          BY <2>4, <5>1, Zenon DEF ConfirmedBy
        <5>3. ResponseOf(s.key) \in responses
          BY <5>2, Zenon DEF IndInv, PacketsProper
        <5>4. QED
          BY <2>5, <5>2, <5>3, Zenon
      <4>3. QED
        BY <2>3, <4>1, <4>2, Zenon
    <3>3. ASSUME NEW m \in transport'
          PROVE  /\ <<m.src, m.dst>> \in Peers
                 /\ \/ m.key.initiator = m.src /\ m.key.responder = m.dst
                    \/ m.key.initiator = m.dst /\ m.key.responder = m.src
                 /\ m.to = LocalIndex(m.key, m.dst)
                 /\ ResponseOf(m.key) \in responses
                 /\ m.key.initiator = m.dst =>
                      \E m2 \in transport : m2.src = m.dst /\ m2.key = m.key
      <4>1. CASE m = m0
        BY <3>1, <3>2, <4>1, Zenon
      <4>2. CASE m \in transport
        BY <4>2, Zenon DEF IndInv, PacketsProper
      <4>3. QED
        BY <1>5, <4>1, <4>2, Zenon
    <3>4. DOMAIN delivered' \subseteq transport' /\ transport \subseteq transport'
      BY <1>1, <1>5, Zenon DEF IndInv, PacketsProper
    <3>5. QED
      BY <1>1, <3>3, <3>4, Zenon DEF PacketsProper
  <2>11. SentUnderKey'
    <3>1. SUFFICES ASSUME NEW l \in Peers, NEW m \in transport', m.src = l[1], NEW r \in Roles,
                          At(l, r)' # None, LocalIndex(m.key, m.src) = At(l, r)'.local
                   PROVE  r \in {"previous", "current"} /\ m.key = At(l, r)'.key
      BY DEF SentUnderKey, Roles
    <3>2. At(l, r)' = At(l, r)
      BY <1>2, Zenon
    <3>3. CASE m = m0
      <4>1. l[1] = l0[1] /\ At(l, r).local = At(l0, "current").local
        BY <2>1, <2>5, <2>6, <3>1, <3>2, <3>3, Zenon
      <4>2. l = l0 /\ r = "current"
        BY <1>5, <2>1, <3>1, <3>2, <4>1, Zenon DEF IndInv, IndexesDistinct, Roles
      <4>3. QED
        BY <2>1, <2>5, <3>2, <3>3, <4>2, Zenon
    <3>4. CASE m \in transport
      BY <3>1, <3>2, <3>4 DEF IndInv, SentUnderKey, Roles
    <3>5. QED
      BY <1>5, <3>3, <3>4, Zenon
  <2>12. ResponsesProper'
    BY <1>1, <1>2 DEF IndInv, ResponsesProper
  <2>13. QueuesProper'
    BY <1>1, <1>5, QueuesShrink, Zenon DEF IndInv
  <2>14. CurrentIsConfirmed'
    BY <1>1, <1>5, ConfirmedStep, Zenon DEF IndInv
  <2>15. NoNonceReuse'
    <3>1. nonce \in [Nodes \X Indices -> Nat]
      BY Zenon DEF TypeOK
    <3>2. ASSUME NEW i \in Nodes, NEW j \in Indices
          PROVE  nonce'[<<i, j>>] = IF i = l0[1] /\ j = s.local THEN n + 1 ELSE nonce[<<i, j>>]
      BY <1>5, <2>1, <2>2, <3>1, ResetOne, Zenon
    <3>3. ASSUME NEW m \in transport'
          PROVE  m.counter < nonce'[<<m.src, LocalIndex(m.key, m.src)>>]
      <4>1. CASE m = m0
        <5>1. nonce'[<<l0[1], s.local>>] = n + 1
          BY <2>1, <2>2, <3>2, Zenon
        <5>2. QED
          BY <2>5, <2>6, <2>7, <4>1, <5>1
      <4>2. CASE m \in transport
        <5> DEFINE i == m.src
                   j == LocalIndex(m.key, m.src)
        <5>1. i \in Nodes /\ j \in Indices /\ m.counter \in Nat
          <6>1. m \in Transport
            BY <4>2, Zenon DEF TypeOK
          <6>2. QED
            BY <6>1, Zenon DEF Transport, Key, LocalIndex
        <5>2. m.counter < nonce[<<i, j>>]
          BY <4>2, Zenon DEF IndInv, NoNonceReuse
        <5>3. nonce[<<i, j>>] \in Nat
          BY <3>1, <5>1, Zenon
        <5>4. nonce'[<<i, j>>] = nonce[<<i, j>>] \/ nonce'[<<i, j>>] = nonce[<<i, j>>] + 1
          BY <3>2, <5>1, Zenon DEF n
        <5> HIDE DEF i, j
        <5>5. m.counter < nonce'[<<i, j>>]
          BY <5>1, <5>2, <5>3, <5>4
        <5>6. QED
          BY <5>5, Zenon DEF i, j
      <4>3. QED
        BY <1>5, <4>1, <4>2, Zenon
    <3>4. QED
      BY <3>3, Zenon DEF NoNonceReuse
  <2>16. FilterRemembers'
    BY <1>1, Frames, Zenon DEF IndInv
  <2>17. QED
    BY <1>3, <2>8, <2>9, <2>10, <2>11, <2>12, <2>13, <2>14, <2>15, <2>16, Zenon DEF IndInv
<1>6. QED
  BY <1>1, <1>4, <1>5, Zenon

-----------------------------------------------------------------------------
\* Restarts, and the theorems

\* A restarted device knows no session; the network still holds its packets.
LEMMA RestartInv ==
  ASSUME TypeOK, IndInv, NEW n \in Nodes, Restart(n)
  PROVE  IndInv'
<1>1. /\ UNCHANGED <<nextIndex, nonce, filter, responses, transport, delivered>>
      /\ index' = [index EXCEPT ![n] = {}]
      /\ DOMAIN index = Nodes
  BY Zenon DEF Restart, sessVars, TypeOK
<1>2. \A l \in Peers : l[1] = n =>
        /\ slots'[l] = NewActiveSession
        /\ hsTask'[l] = None
        /\ inTask'[l] = Idle
        /\ inq'[l] = <<>>
  BY Zenon DEF Restart
<1>3. \A l \in Peers : l[1] # n =>
        /\ slots'[l] = slots[l]
        /\ hsTask'[l] = hsTask[l]
        /\ inTask'[l] = inTask[l]
        /\ inq'[l] = inq[l]
  BY Zenon DEF Restart
<1>4. \A l \in Peers : \A r \in Roles : l[1] = n => At(l, r)' = None
  BY <1>2, AtIsNext DEF Roles, NewActiveSession, Idle
<1>5. \A l \in Peers : \A r \in Roles : l[1] # n => At(l, r)' = At(l, r)
  BY <1>3, AtFrame, Zenon
<1> DEFINE rho == [l \in Peers |-> [r \in Roles |-> r]]
<1>6. Moved(rho)
  BY <1>4, <1>5, Zenon DEF Moved
<1> HIDE DEF rho
<1>7. IndexesDistinct' /\ IndexesFresh' /\ SentUnderKey' /\ ResponsesProper'
  <2>1. IndexesDistinct' /\ SentUnderKey'
    BY <1>1, <1>6, DistinctMove, SentMove, Zenon DEF IndInv
  <2>2. ResponsesProper'
    BY <1>1, <1>6, ResponsesMove, Zenon DEF IndInv, ResponsesProper, Answered
  <2>3. IndexesFresh'
    BY <1>1, <1>6, FreshMove, Zenon DEF IndInv, IndexesFresh
  <2>4. QED
    BY <2>1, <2>2, <2>3, Zenon
<1>8. SessionsProper'
  <2>1. \A l \in Peers : \A r \in Roles : At(l, r)' # None => At(l, r)'.peer = l[2]
    BY <1>1, <1>6, FreshMove, Zenon DEF IndInv
  <2>2. FinalizeProper'
    <3>1. \A l \in Peers : inTask'[l] = inTask[l] \/ inTask'[l].pc # "finalize"
      BY <1>2, <1>3 DEF Idle
    <3>2. QED
      BY <1>1, <3>1, FinalizeFrame, Zenon DEF IndInv
  <2>3. \A l \in Peers : \A r \in Roles : At(l, r)' = At(l, r) \/ At(l, r)' = None
    BY <1>4, <1>5, Zenon
  <2>4. QED
    BY <2>1, <2>2, <2>3, SessionsFrame, Zenon DEF IndInv, Roles
<1>9. InTable'
  <2>1. InTable
    BY TableExact, Zenon DEF IndInv, IndexExact
  <2>2. ASSUME NEW k \in Nodes, NEW s
        PROVE  s \in index'[k] <=>
                 \E l \in Peers : \E r \in Slotted : l[1] = k /\ s # None /\ s = At(l, r)'
    <3>1. Slotted \subseteq Roles
      BY Zenon DEF Slotted, Roles
    <3>2. CASE k = n
      BY <1>1, <1>4, <3>1, <3>2, Zenon
    <3>3. CASE k # n
      <4>1. index'[k] = index[k]
        BY <1>1, <3>3, Zenon
      <4>2. s \in index[k] <=>
              \E l \in Peers : \E r \in Slotted : l[1] = k /\ s # None /\ s = At(l, r)
        BY <2>1 DEF InTable
      <4>3. \A l \in Peers : \A r \in Slotted : l[1] = k => At(l, r)' = At(l, r)
        BY <1>5, <3>1, <3>3, Zenon
      <4>4. QED
        BY <4>1, <4>2, <4>3, Zenon
    <3>4. QED
      BY <3>2, <3>3, Zenon
  <2>3. QED
    BY <2>2, Zenon DEF InTable
<1>10. CurrentIsConfirmed'
  <2>1. \A l \in Peers : slots'[l].current = slots[l].current \/ slots'[l].current = None
    BY <1>2, <1>3 DEF NewActiveSession
  <2>2. QED
    BY <1>1, <2>1, ConfirmedStep, Zenon DEF IndInv
<1>11. QueuesProper'
  <2>1. ASSUME NEW l \in Peers, NEW i \in 1 .. Len(inq'[l])
        PROVE  EntryProper(l, inq[l][i])'
    <3>1. inq'[l] = inq[l]
      <4>1. inq'[l] # <<>>
        BY <2>1
      <4>2. QED
        BY <1>2, <1>3, <4>1, Zenon
    <3>2. EntryProper(l, inq[l][i])
      BY <2>1, <3>1, EntriesProper, Zenon DEF IndInv
    <3>3. QED
      BY <1>1, <3>1, <3>2, Zenon DEF EntryProper
  <2>2. QED
    BY <2>1, EntriesProperNext, Zenon
<1>12. QED
  BY <1>1, <1>7, <1>8, <1>9, <1>10, <1>11, TableNext, Frames, Zenon DEF IndInv

Inv == TypeOK /\ IndInv

\* Every step of a device or of the network keeps the invariant.
LEMMA NextInv ==
  ASSUME Inv, [Next]_vars
  PROVE  Inv'
<1>1. TypeOK /\ IndInv
  BY Zenon DEF Inv
<1>2. CASE UNCHANGED vars
  <2>1. UNCHANGED <<nextIndex, index, handshake, slots, hsTask, inTask, inq, outq, nonce,
                    filter, initiations, responses, transport, restarts, delivered>>
    BY <1>2, Zenon DEF vars, deviceVars, peerVars, sessVars, netVars
  <2>2. TypeOK'
    BY <1>1, <2>1, Zenon DEF TypeOK
  <2>3. \A l \in Peers : \A r \in Roles : At(l, r)' = At(l, r)
    BY <2>1, AtIs, AtIsNext DEF Roles
  <2>4. SessionsProper'
    <3>1. \A l \in Peers : \A r \in Roles : At(l, r)' # None => At(l, r)'.peer = l[2]
      BY <1>1, <2>3, Zenon DEF IndInv, SessionsProper
    <3>2. FinalizeProper'
      BY <1>1, <2>1, FinalizeFrame, Zenon DEF IndInv
    <3>3. QED
      BY <1>1, <2>3, <3>1, <3>2, SessionsFrame, Zenon DEF IndInv, Roles
  <2>5. QED
    BY <1>1, <2>1, <2>2, <2>3, <2>4, Frames, QuietInv, Zenon DEF IndInv, Inv
<1>3. ASSUME NEW l \in Peers, Initiate(l)
      PROVE  Inv'
  BY <1>1, <1>3, InitiateType, InitiateInv, Zenon DEF Inv
<1>4. ASSUME NEW l \in Peers, PrepareUninit(l)
      PROVE  Inv'
  BY <1>1, <1>4, PrepareUninitType, PrepareUninitInv, Zenon DEF Inv
<1>5. ASSUME NEW l \in Peers, Respond(l)
      PROVE  Inv'
  BY <1>1, <1>5, RespondType, RespondInv, Zenon DEF Inv
<1>6. ASSUME NEW l \in Peers, PrepareNext(l)
      PROVE  Inv'
  BY <1>1, <1>6, PrepareNextType, PrepareNextInv, Zenon DEF Inv
<1>7. ASSUME NEW l \in Peers, Finalize(l)
      PROVE  Inv'
  BY <1>1, <1>7, FinalizeType, FinalizeInv, Zenon DEF Inv
<1>8. ASSUME NEW l \in Peers, CompleteUninit(l)
      PROVE  Inv'
  BY <1>1, <1>8, CompleteUninitType, CompleteUninitInv, DropResponseInv, Zenon DEF Inv
<1>9. ASSUME NEW l \in Peers, StageConfirmation(l)
      PROVE  Inv'
  BY <1>1, <1>9, StageConfirmationType, OutboundQueueInv, Zenon DEF Inv
<1>10. ASSUME NEW l \in Peers, HandleTransport(l)
       PROVE  Inv'
  <2>1. Head(inq[l]).session \in FullSession
    BY <1>1, <1>10, HeadPacket, Zenon DEF HandleTransport
  <2>2. QED
    BY <1>1, <1>10, <2>1, HandleTransportType, HandleTransportInv, CompleteNextInv, Zenon DEF Inv
<1>11. ASSUME NEW l \in Peers, NEW p \in Traffic, StageOutbound(l, p)
       PROVE  Inv'
  BY <1>1, <1>11, StageOutboundType, OutboundQueueInv, Zenon DEF Inv
<1>12. ASSUME NEW l \in Peers, TickOutbound(l)
       PROVE  Inv'
  BY <1>1, <1>12, TickOutboundType, TickOutboundInv, Zenon DEF Inv
<1>13. ASSUME \/ \E m \in initiations : ReceiveInitiation(m)
              \/ \E m \in responses : ReceiveResponse(m)
              \/ \E m \in transport : ReceiveTransport(m)
       PROVE  Inv'
  BY <1>1, <1>13, ReceiveType, ReceiveInv, Zenon DEF Inv
<1>14. ASSUME NEW n \in Nodes, Restart(n)
       PROVE  Inv'
  BY <1>1, <1>14, RestartType, RestartInv, Zenon DEF Inv
<1>15. QED
  BY <1>2, <1>3, <1>4, <1>5, <1>6, <1>7, <1>8, <1>9, <1>10, <1>11, <1>12, <1>13, <1>14, Zenon
     DEF Next

\* The state of the devices is always well-typed and their sessions are always
\* as IndInv says.
THEOREM Invariance == Spec => []Inv
<1>1. Init => Inv
  BY InitType, InitInv, Zenon DEF Inv
<1>2. Inv /\ [Next]_vars => Inv'
  BY NextInv, Zenon
<1>3. QED
  BY <1>1, <1>2, PTL DEF Spec

-----------------------------------------------------------------------------
\* Safety

\* The state of every device is always well-typed (SlotsType in particular:
\* only the uninit slot ever holds a session without a key).
THEOREM TypeCorrect == Spec => []TypeOK
<1>1. Inv => TypeOK
  BY Zenon DEF Inv
<1>2. QED
  BY <1>1, Invariance, PTL

\* The table that tick_inbound looks sessions up in is always exactly what the
\* slots of the device's peers hold, however many peers share it.
THEOREM TableIsExact == Spec => []IndexExact
<1>1. Inv => IndexExact
  BY Zenon DEF Inv, IndInv
<1>2. QED
  BY <1>1, Invariance, PTL

\* next_nonce never numbers two packets alike under one key.
THEOREM NoncesAreUnique == Spec => []NoNonceReuse
<1>1. Inv => NoNonceReuse
  BY Zenon DEF Inv, IndInv
<1>2. QED
  BY <1>1, Invariance, PTL

\* No rekeying, restart or duplicate ever makes a filter forget a delivery.
THEOREM FiltersRemember == Spec => []FilterRemembers
<1>1. Inv => FilterRemembers
  BY Zenon DEF Inv, IndInv
<1>2. QED
  BY <1>1, Invariance, PTL

\* A session is current only once the other side is known to have had it.
THEOREM CurrentConfirmed == Spec => []CurrentIsConfirmed
<1>1. Inv => CurrentIsConfirmed
  BY Zenon DEF Inv, IndInv
<1>2. QED
  BY <1>1, Invariance, PTL

\* A packet in flight that finds a session in the table finds its own.
LEMMA TableMatches == Inv => PacketFindsItsSession
<1>1. SUFFICES ASSUME TypeOK, IndInv, NEW m \in transport, NEW s \in index[m.dst],
                      s.local = m.to
               PROVE  s.key = m.key
  BY Zenon DEF Inv, PacketFindsItsSession
<1>2. m.dst \in Nodes
  BY <1>1, Zenon DEF TypeOK, Transport
<1>3. InTable
  BY <1>1, TableExact, Zenon DEF IndInv, IndexExact
<1>4. PICK l \in Peers, r \in Slotted : l[1] = m.dst /\ s # None /\ s = At(l, r)
  BY <1>2, <1>3 DEF InTable
<1>5. r \in Roles
  BY Zenon DEF Slotted, Roles
<1>6. QED
  BY <1>1, <1>4, <1>5, PacketMatch, Zenon

\* tick_inbound pairs every transport packet with the session it was encrypted
\* for, across rekeying, evictions and restarts.
THEOREM PacketsFindTheirSession == Spec => []PacketFindsItsSession
<1>1. QED
  BY TableMatches, Invariance, PTL

-----------------------------------------------------------------------------
\* The current session

\* Where a new current session comes from: the uninit or the next slot.
LEMMA NewCurrent ==
  ASSUME Inv, Next, NEW l \in Peers
  PROVE  \/ slots'[l].current = slots[l].current
         \/ slots'[l].current = None
         \/ \E r \in {"uninit", "next"} :
              /\ At(l, r) # None
              /\ LocalIndex(slots'[l].current.key, l[1]) = At(l, r).local
<1>1. TypeOK /\ IndInv /\ slots \in [Peers -> SlotsType]
  BY Zenon DEF Inv, TypeOK
<1>2. CASE \E l0 \in Peers : CompleteUninit(l0)
  <2>1. PICK l0 \in Peers : CompleteUninit(l0)
    BY <1>2, Zenon
  <2> DEFINE s == inTask[l0].session
  <2>2. CASE ~ completes_uninit(slots[l0], s) \/ l # l0
    BY <1>1, <2>1, <2>2, Zenon DEF CompleteUninit
  <2>3. CASE completes_uninit(slots[l0], s) /\ l = l0
    <3>1. slots' = [slots EXCEPT ![l0] = complete_uninit(slots[l0], s)]
      BY <2>1, <2>3, Zenon DEF CompleteUninit
    <3>2. slots'[l].current = s
      BY <1>1, <2>3, <3>1, Zenon DEF complete_uninit
    <3>3. At(l, "uninit") # None /\ At(l, "uninit").local = s.local
      BY <2>3, AtIs, Zenon DEF completes_uninit
    <3>4. AsInitiator(l, s)
      BY <1>1, <2>1, <2>3, Zenon DEF CompleteUninit, IndInv, SessionsProper
    <3>5. LocalIndex(s.key, l[1]) = s.local
      BY <3>4 DEF AsInitiator, LocalIndex
    <3>6. QED
      BY <3>2, <3>3, <3>5, Zenon
  <2>4. QED
    BY <2>2, <2>3, Zenon
<1>3. CASE \E l0 \in Peers : HandleTransport(l0)
  <2>1. PICK l0 \in Peers : HandleTransport(l0)
    BY <1>3, Zenon
  <2> DEFINE s == Head(inq[l0]).session
  <2>2. CASE ~ completes_next(slots[l0], s) \/ l # l0
    BY <1>1, <2>1, <2>2, HandleTransportSlots, Zenon
  <2>3. CASE completes_next(slots[l0], s) /\ l = l0
    <3>1. slots' = [slots EXCEPT ![l0] = complete_next(slots[l0], s)]
      BY <1>1, <2>1, <2>3, HandleTransportSlots, Zenon
    <3>2. slots'[l].current = s
      BY <1>1, <2>3, <3>1, Zenon DEF complete_next
    <3>3. At(l, "next") # None
      BY <2>3, AtIs, Zenon DEF completes_next
    <3>4. At(l, "next") = s /\ AsResponder(l, s)
      BY <1>1, <2>1, <2>3, CompletesItself, Zenon DEF HandleTransport
    <3>5. LocalIndex(s.key, l[1]) = s.local
      BY <3>4, PeerEnds DEF AsResponder, LocalIndex
    <3>6. QED
      BY <3>2, <3>3, <3>4, <3>5, Zenon
  <2>4. QED
    BY <2>2, <2>3, Zenon
<1>4. CASE \E n \in Nodes : Restart(n)
  BY <1>1, <1>4 DEF Restart, NewActiveSession
<1>5. CASE \E l0 \in Peers : PrepareUninit(l0)
  BY <1>1, <1>5 DEF PrepareUninit, prepare_uninit
<1>6. CASE \E l0 \in Peers : PrepareNext(l0)
  BY <1>1, <1>6 DEF PrepareNext, prepare_next
<1>7. CASE \E l0 \in Peers : Initiate(l0) \/ Respond(l0) \/ Finalize(l0)
  BY <1>7, Zenon DEF Initiate, Respond, Finalize
<1>8. CASE \E l0 \in Peers : \/ StageConfirmation(l0) \/ TickOutbound(l0)
                             \/ \E p \in Traffic : StageOutbound(l0, p)
  BY <1>8, Zenon DEF StageConfirmation, TickOutbound, StageOutbound
<1>9. CASE \/ \E m \in initiations : ReceiveInitiation(m)
           \/ \E m \in responses : ReceiveResponse(m)
           \/ \E m \in transport : ReceiveTransport(m)
  BY <1>9, Zenon DEF ReceiveInitiation, ReceiveResponse, ReceiveTransport, Stage
<1>10. QED
  BY <1>2, <1>3, <1>4, <1>5, <1>6, <1>7, <1>8, <1>9, Zenon DEF Next

\* No step of complete_uninit or complete_next goes back to a session this side
\* has already sent in, whatever is duplicated or arrives late.
THEOREM CurrentNeverGoesBack == Spec => CurrentMovesForward
<1> DEFINE Forward(l) ==
      slots[l].current # slots'[l].current /\ slots'[l].current # None
        => \A m \in transport : m.src = l[1] => m.key # slots'[l].current.key
<1>1. ASSUME Inv, Next, NEW l \in Peers
      PROVE  Forward(l)
  <2>1. SUFFICES ASSUME slots[l].current # slots'[l].current, slots'[l].current # None,
                        NEW m \in transport, m.src = l[1]
                 PROVE  m.key # slots'[l].current.key
    BY Zenon
  <2>2. PICK r \in {"uninit", "next"} :
          /\ At(l, r) # None
          /\ LocalIndex(slots'[l].current.key, l[1]) = At(l, r).local
    BY <1>1, <2>1, NewCurrent, Zenon
  <2>3. LocalIndex(m.key, m.src) # At(l, r).local
    BY <1>1, <2>1, <2>2, Zenon DEF Inv, IndInv, SentUnderKey
  <2>4. QED
    BY <2>1, <2>2, <2>3, Zenon
<1>2. Inv /\ [Next]_vars => [\A l \in Peers : Forward(l)]_vars
  BY <1>1, Zenon
<1>3. QED
  BY <1>2, Invariance, PTL DEF Spec, CurrentMovesForward

-----------------------------------------------------------------------------
\* Refinement

\* The payloads given to the network: keepalives and confirmations have none.
Sent == {m \in transport : ~ m.empty}

\* handle_transport_data delivers a payload that was sent and not delivered yet,
\* or delivers nothing.
LEMMA HandleIsGet ==
  ASSUME Inv, NEW l \in Peers, HandleTransport(l)
  PROVE  Channel!Get \/ (Sent' = Sent /\ delivered' = delivered)
<1>1. /\ inq[l] # <<>> /\ Head(inq[l]).kind = "transport"
      /\ transport' = transport
  BY Zenon DEF HandleTransport, netVars
<1>2. TypeOK /\ IndInv
  BY Zenon DEF Inv
<1>3. PICK m, s : m = Head(inq[l]).msg /\ s = Head(inq[l]).session
  BY Zenon
<1>4. /\ m \in transport
      /\ filter[<<l[1], s.local>>] = filter[<<m.dst, LocalIndex(m.key, m.dst)>>]
  BY <1>1, <1>2, <1>3, HeadPacket, Zenon
<1>5. Sent' = Sent
  BY <1>1, Zenon DEF Sent
<1>6. CASE Deliver(l, m, s)
  <2>1. /\ ~ MustRefuse(filter[<<l[1], s.local>>], m.counter)
        /\ ~ m.empty
        /\ delivered' = Tally(delivered, m)
    BY <1>6, Zenon DEF Deliver
  <2>2. m \notin DOMAIN delivered
    BY <1>2, <1>4, <2>1, Zenon DEF IndInv, FilterRemembers, MustRefuse
  <2>3. delivered' = [d \in DOMAIN delivered \cup {m} |-> IF d = m THEN 1 ELSE delivered[d]]
    <3>1. Tally(delivered, m) =
            [d \in DOMAIN delivered \cup {m} |-> IF d = m THEN 1 ELSE delivered[d]]
      BY <2>2, Zenon DEF Tally
    <3>2. QED
      BY <2>1, <3>1, Zenon, Zenon
  <2>4. m \in Sent \ DOMAIN delivered
    BY <1>4, <2>1, <2>2, Zenon DEF Sent
  <2>5. QED
    BY <1>5, <2>3, <2>4, Zenon DEF Channel!Get, Sent
<1>7. QED
  BY <1>3, <1>5, <1>6, HandleTransportDelivery, Zenon

\* tick_outbound sends a payload that was never sent before, or none.
LEMMA TickIsPut ==
  ASSUME Inv, NEW l \in Peers, TickOutbound(l)
  PROVE  Channel!Put \/ (Sent' = Sent /\ delivered' = delivered)
<1> DEFINE s == slots[l].current
           n == nonce[<<l[1], s.local>>]
           m0 == [src |-> l[1], dst |-> l[2], to |-> s.remote, key |-> s.key,
                  counter |-> n, empty |-> Head(outq[l]) = "empty"]
<1>1. /\ delivered' = delivered
      /\ transport' = transport \/ (s # None /\ transport' = transport \cup {m0})
  BY Zenon DEF TickOutbound
<1>2. TypeOK /\ IndInv
  BY Zenon DEF Inv
<1>3. CASE transport' = transport
  BY <1>1, <1>3, Zenon DEF Sent
<1>4. CASE s # None /\ transport' = transport \cup {m0}
  <2>1. At(l, "current") = s /\ s \in FullSession
    <3>1. slots[l] \in SlotsType
      BY <1>2, Zenon DEF TypeOK
    <3>2. QED
      BY <1>4, <3>1, AtIs, Zenon DEF SlotsType
  <2>2. AsInitiator(l, s) \/ AsResponder(l, s)
    BY <1>2, <1>4, <2>1, Zenon DEF IndInv, SessionsProper
  <2>3. LocalIndex(s.key, l[1]) = s.local
    BY <2>2, PeerEnds DEF AsInitiator, AsResponder, LocalIndex
  <2>4. m0.src = l[1] /\ m0.key = s.key /\ m0.counter = n
    BY Zenon
  <2>5. n \in Nat
    BY <1>2, <2>1, PeerEnds, Zenon DEF TypeOK, FullSession
  <2> HIDE DEF m0
  <2>6. m0 \notin transport
    <3>1. SUFFICES ASSUME m0 \in transport
                   PROVE  FALSE
      BY Zenon
    <3>2. m0.counter < nonce[<<m0.src, LocalIndex(m0.key, m0.src)>>]
      BY <1>2, <3>1, Zenon DEF IndInv, NoNonceReuse
    <3>3. m0.counter < n
      BY <2>3, <2>4, <3>2, Zenon
    <3>4. QED
      BY <2>4, <2>5, <3>3
  <2>7. CASE m0.empty
    BY <1>1, <1>4, <2>7, Zenon DEF Sent
  <2>8. CASE ~ m0.empty
    <3>1. Sent' = Sent \cup {m0} /\ m0 \in Sent' \ Sent
      BY <1>4, <2>6, <2>8, Zenon DEF Sent
    <3>2. QED
      BY <1>1, <3>1, Zenon DEF Channel!Put, Sent
  <2>9. QED
    BY <2>7, <2>8, Zenon
<1>5. QED
  BY <1>1, <1>3, <1>4, Zenon

\* No other step sends or delivers a payload.
LEMMA OthersStutter ==
  ASSUME Next, \A l \in Peers : ~ HandleTransport(l) /\ ~ TickOutbound(l)
  PROVE  Sent' = Sent /\ delivered' = delivered
<1> SUFFICES transport' = transport /\ delivered' = delivered
  BY Zenon DEF Sent
<1>1. CASE \E l \in Peers : \/ Initiate(l) \/ PrepareUninit(l) \/ Respond(l)
                            \/ PrepareNext(l) \/ Finalize(l)
  BY <1>1, Zenon DEF Initiate, PrepareUninit, Respond, PrepareNext, Finalize, netVars
<1>2. CASE \E l \in Peers : \/ CompleteUninit(l) \/ StageConfirmation(l)
                            \/ \E p \in Traffic : StageOutbound(l, p)
  BY <1>2, Zenon DEF CompleteUninit, StageConfirmation, StageOutbound, netVars
<1>3. CASE \/ \E m \in initiations : ReceiveInitiation(m)
           \/ \E m \in responses : ReceiveResponse(m)
           \/ \E m \in transport : ReceiveTransport(m)
  BY <1>3, Zenon DEF ReceiveInitiation, ReceiveResponse, ReceiveTransport, Stage, netVars
<1>4. CASE \E n \in Nodes : Restart(n)
  BY <1>4, Zenon DEF Restart
<1>5. QED
  BY <1>1, <1>2, <1>3, <1>4, Zenon DEF Next

\* The tunnels implement the channel: a payload that reaches a TUN device was
\* sent by the peer, and reaches it once, over a network that loses, repeats
\* and reorders, across rekeying and restarts.
THEOREM Refinement == Spec => ImplementsChannel
<1>1. Init => Channel!Init
  BY Zenon DEF Init, Channel!Init
<1>2. Inv /\ [Next]_vars => [Channel!Next]_<<Sent, delivered>>
  <2> SUFFICES ASSUME Inv, [Next]_vars
               PROVE  Channel!Next \/ (Sent' = Sent /\ delivered' = delivered)
    BY Zenon
  <2>1. CASE \E l \in Peers : HandleTransport(l)
    BY <2>1, HandleIsGet, Zenon DEF Channel!Next
  <2>2. CASE \E l \in Peers : TickOutbound(l)
    BY <2>2, TickIsPut, Zenon DEF Channel!Next
  <2>3. CASE Next /\ \A l \in Peers : ~ HandleTransport(l) /\ ~ TickOutbound(l)
    BY <2>3, OthersStutter, Zenon
  <2>4. CASE UNCHANGED vars
    BY <2>4, Zenon DEF vars, netVars, Sent
  <2>5. QED
    BY <2>1, <2>2, <2>3, <2>4, Zenon
<1>3. [Channel!Next]_<<Sent, delivered>>
        <=> [Channel!Next]_<<{m \in transport : ~ m.empty}, delivered>>
  BY Zenon DEF Sent
<1>4. QED
  BY <1>1, <1>2, <1>3, Invariance, PTL DEF Spec, ImplementsChannel, Channel!Spec
=============================================================================
