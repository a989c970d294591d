------------------------------- MODULE Tunnel -------------------------------
(***************************************************************************)
(* The devices of an overlay network: the noise handshake, the session     *)
(* slots and the transport of packets between every two of them, over a    *)
(* network that loses, duplicates and reorders datagrams.                  *)
(*                                                                         *)
(* A device runs one task that takes datagrams from the network and, for   *)
(* each peer, an inbound task (handles what the first one queued), an      *)
(* outbound task and a handshake task (device/handle.rs, device/peer).     *)
(* Each action is one lock region or one await-free stretch of one task,   *)
(* so the steps of the tasks interleave wherever the locks allow it.       *)
(*                                                                         *)
(* Cryptography is ideal: a key is named by the two messages it was        *)
(* derived from, a response verifies only against the initiation it        *)
(* answers, a packet decrypts only under the key it was encrypted with.    *)
(* When the handshake task wants to initiate (PeerMonitor) is left open.   *)
(***************************************************************************)
EXTENDS Naturals, Sequences, ActiveSession

CONSTANTS Nodes,
          Online,        \* the peers <<n, p>> such that n believes p is online
          Traffic,       \* what is staged besides confirmations: "data" from the
                         \* TUN device, "empty" from the keepalive timer
          MaxRestarts,   \* bound: restarts of daemons
          SendMayFail,   \* whether sending on an endpoint may return an error
          Window,        \* MAX_REPLAY_SIZE of the sessions' filters
          MaxIndex,      \* bound: session indices a device hands out
          MaxNonce,      \* bound: packets sent in one session
          InboundCap,    \* capacity of a peer's inbound channel
          OutboundCap    \* capacity of a peer's outbound channel

ASSUME TunnelAssumption ==
  /\ Online \subseteq Nodes \X Nodes
  /\ Traffic \subseteq {"data", "empty"}
  /\ SendMayFail \in BOOLEAN
  /\ Window \in Nat
  /\ MaxRestarts \in Nat
  /\ MaxIndex \in Nat
  /\ MaxNonce \in Nat
  /\ InboundCap \in Nat
  /\ OutboundCap \in Nat

VARIABLES
  nextIndex,    \* per device: SessionIndex.index
  index,        \* per device: SessionIndex.indexes
  handshake,    \* per peer: Handshake.state, the index of the last initiation or 0
  slots,        \* per peer: the ActiveSession
  hsTask,       \* per peer: the session the handshake task is about to prepare
  inTask,       \* per peer: where the inbound task is, and its session
  inq, outq,    \* per peer: the inbound and outbound channels
  nonce,        \* per device and session: sender_nonce
  filter,       \* per device and session: the counters accepted
  initiations, responses, transport,   \* the datagrams ever sent
  restarts,     \* how many daemons were restarted
  delivered     \* history: how often each packet's payload went to a TUN device

deviceVars == <<nextIndex, index>>
peerVars   == <<handshake, slots, hsTask, inTask, inq, outq>>
sessVars   == <<nonce, filter>>
netVars    == <<initiations, responses, transport, restarts>>
vars       == <<deviceVars, peerVars, sessVars, netVars, delivered>>

\* The peer object of device l[1] for device l[2].
Peers == {l \in Nodes \X Nodes : l[1] # l[2]}

Indices == 1 .. MaxIndex

Key == [initiator : Nodes, iIndex : Indices, responder : Nodes, rIndex : Indices]

\* A half-initialized session has no key yet (all zero in the code).
HalfSession == [peer : Nodes, local : Indices, remote : {0}, key : {None}]
FullSession == [peer : Nodes, local : Indices, remote : Indices, key : Key]

Initiation == [src : Nodes, dst : Nodes, index : Indices]
Response   == [src : Nodes, dst : Nodes, index : Indices, to : Indices]
Transport  == [src : Nodes, dst : Nodes, to : Indices, key : Key,
               counter : Nat, empty : BOOLEAN]

Idle == [pc |-> "idle", session |-> None]
Dead == [pc |-> "dead", session |-> None]

ASSUME NoneAssumption == None \notin HalfSession \cup FullSession

-----------------------------------------------------------------------------
Init ==
  /\ nextIndex = [n \in Nodes |-> 1]
  /\ index = [n \in Nodes |-> {}]
  /\ handshake = [l \in Peers |-> 0]
  /\ slots = [l \in Peers |-> NewActiveSession]
  /\ hsTask = [l \in Peers |-> None]
  /\ inTask = [l \in Peers |-> Idle]
  /\ inq = [l \in Peers |-> <<>>]
  /\ outq = [l \in Peers |-> <<>>]
  /\ nonce = [x \in Nodes \X Indices |-> 0]
  /\ filter = [x \in Nodes \X Indices |-> {}]
  /\ initiations = {}
  /\ responses = {}
  /\ transport = {}
  /\ restarts = 0
  /\ delivered = [m \in {} |-> 0]

-----------------------------------------------------------------------------
\* The handshake task

\* Handshake::initiate under the handshake lock, once the peer is online.
Initiate(l) ==
  /\ l \in Online
  /\ hsTask[l] = None
  /\ nextIndex[l[1]] \in Indices
  /\ LET i == nextIndex[l[1]]
     IN  /\ nextIndex' = [nextIndex EXCEPT ![l[1]] = i + 1]
         /\ handshake' = [handshake EXCEPT ![l] = i]
         /\ hsTask' = [hsTask EXCEPT ![l] =
                         [peer |-> l[2], local |-> i, remote |-> 0, key |-> None]]
  /\ UNCHANGED <<index, slots, inTask, inq, outq, sessVars, netVars, delivered>>

\* prepare_uninit under the sessions lock, then the initiation is sent.
PrepareUninit(l) ==
  /\ hsTask[l] # None
  /\ slots' = [slots EXCEPT ![l] = prepare_uninit(@, hsTask[l])]
  /\ index' = [index EXCEPT ![l[1]] = prepare_uninit_index(slots[l], @, hsTask[l])]
  /\ initiations' = initiations \cup
       {[src |-> l[1], dst |-> l[2], index |-> hsTask[l].local]}
  /\ hsTask' = [hsTask EXCEPT ![l] = None]
  /\ UNCHANGED <<nextIndex, handshake, inTask, inq, outq, sessVars,
                 responses, transport, restarts, delivered>>

-----------------------------------------------------------------------------
\* The device's task: find the peer a datagram is for and queue it there

\* Nothing is queued for a peer whose inbound task has died: its channel is closed.
Stage(l, e) ==
  /\ l \in Peers
  /\ inTask[l] # Dead
  /\ Len(inq[l]) < InboundCap
  /\ inq' = [inq EXCEPT ![l] = Append(@, e)]
  /\ UNCHANGED <<deviceVars, handshake, slots, hsTask, inTask, outq, sessVars,
                 netVars, delivered>>

ReceiveInitiation(m) ==
  Stage(<<m.dst, m.src>>, [kind |-> "initiation", msg |-> m, session |-> None])

\* A datagram for an index the table does not hold is dropped.
ReceiveResponse(m) ==
  \E s \in index[m.dst] :
    /\ s.local = m.to
    /\ Stage(<<m.dst, s.peer>>, [kind |-> "response", msg |-> m, session |-> s])

ReceiveTransport(m) ==
  \E s \in index[m.dst] :
    /\ s.local = m.to
    /\ Stage(<<m.dst, s.peer>>, [kind |-> "transport", msg |-> m, session |-> s])

-----------------------------------------------------------------------------
\* The inbound task

\* Mutant: the responder's index is not advanced.
Respond_SameIndex(l) ==
  /\ inTask[l] = Idle
  /\ inq[l] # <<>>
  /\ Head(inq[l]).kind = "initiation"
  /\ nextIndex[l[1]] \in Indices
  /\ LET m == Head(inq[l]).msg
         j == nextIndex[l[1]]
         k == [initiator |-> m.src, iIndex |-> m.index, responder |-> l[1], rIndex |-> j]
     IN  inTask' = [inTask EXCEPT ![l] =
               [pc |-> "respond",
                session |-> [peer |-> l[2], local |-> j, remote |-> m.index, key |-> k]]]
  /\ inq' = [inq EXCEPT ![l] = Tail(@)]
  /\ UNCHANGED <<nextIndex, index, handshake, slots, hsTask, outq, sessVars, netVars, delivered>>

\* Handshake::respond under the handshake lock.
Respond(l) ==
  /\ inTask[l] = Idle
  /\ inq[l] # <<>>
  /\ Head(inq[l]).kind = "initiation"
  /\ nextIndex[l[1]] \in Indices
  /\ LET m == Head(inq[l]).msg
         j == nextIndex[l[1]]
         k == [initiator |-> m.src, iIndex |-> m.index, responder |-> l[1], rIndex |-> j]
     IN  /\ inTask' = [inTask EXCEPT ![l] =
               [pc |-> "respond",
                session |-> [peer |-> l[2], local |-> j, remote |-> m.index, key |-> k]]]
         /\ nextIndex' = [nextIndex EXCEPT ![l[1]] = j + 1]
  /\ inq' = [inq EXCEPT ![l] = Tail(@)]
  /\ UNCHANGED <<index, handshake, slots, hsTask, outq, sessVars, netVars, delivered>>

\* prepare_next under the sessions lock, then the response is sent.  An error
\* from send is unwrapped: the task dies and drops its end of the channel.
PrepareNext(l) ==
  /\ inTask[l].pc = "respond"
  /\ LET s == inTask[l].session
     IN  /\ slots' = [slots EXCEPT ![l] = prepare_next(@, s)]
         /\ index' = [index EXCEPT ![l[1]] = prepare_next_index(slots[l], @, s)]
         /\ nonce' = [nonce EXCEPT ![<<l[1], s.local>>] = 0]
         /\ filter' = [filter EXCEPT ![<<l[1], s.local>>] = {}]
         /\ \/ /\ responses' = responses \cup
                    {[src |-> l[1], dst |-> l[2], index |-> s.local, to |-> s.remote]}
               /\ inTask' = [inTask EXCEPT ![l] = Idle]
               /\ UNCHANGED inq
            \/ /\ SendMayFail
               /\ inTask' = [inTask EXCEPT ![l] = Dead]
               /\ inq' = [inq EXCEPT ![l] = <<>>]
               /\ UNCHANGED responses
  /\ UNCHANGED <<nextIndex, handshake, hsTask, outq, initiations, transport,
                 restarts, delivered>>

\* Handshake::finalize under the handshake lock: the response verifies only
\* against the last initiation, and makes a new session each time it does.
Verifies(l, m) == m.src = l[2] /\ m.to = handshake[l]

Finalize(l) ==
  /\ inTask[l] = Idle
  /\ inq[l] # <<>>
  /\ Head(inq[l]).kind = "response"
  /\ LET m == Head(inq[l]).msg
         k == [initiator |-> l[1], iIndex |-> m.to, responder |-> m.src, rIndex |-> m.index]
     IN  inTask' = IF Verifies(l, m)
                     THEN [inTask EXCEPT ![l] =
                            [pc |-> "finalize",
                             session |-> [peer |-> l[2], local |-> m.to,
                                          remote |-> m.index, key |-> k]]]
                     ELSE inTask
  /\ inq' = [inq EXCEPT ![l] = Tail(@)]
  /\ UNCHANGED <<deviceVars, handshake, slots, hsTask, outq, sessVars, netVars, delivered>>

\* complete_uninit under the sessions lock.
CompleteUninit(l) ==
  /\ inTask[l].pc = "finalize"
  /\ LET s == inTask[l].session
     IN  IF completes_uninit(slots[l], s)
         THEN /\ slots' = [slots EXCEPT ![l] = complete_uninit(@, s)]
              /\ index' = [index EXCEPT ![l[1]] = complete_uninit_index(slots[l], @, s)]
              /\ nonce' = [nonce EXCEPT ![<<l[1], s.local>>] = 0]
              /\ filter' = [filter EXCEPT ![<<l[1], s.local>>] = {}]
              /\ inTask' = [inTask EXCEPT ![l] = [pc |-> "confirm", session |-> None]]
         ELSE /\ inTask' = [inTask EXCEPT ![l] = Idle]
              /\ UNCHANGED <<slots, index, nonce, filter>>
  /\ UNCHANGED <<nextIndex, handshake, hsTask, inq, outq, netVars, delivered>>

\* "let the peer know the session is valid": an empty packet is staged.
StageConfirmation(l) ==
  /\ inTask[l].pc = "confirm"
  /\ Len(outq[l]) < OutboundCap
  /\ outq' = [outq EXCEPT ![l] = Append(@, "empty")]
  /\ inTask' = [inTask EXCEPT ![l] = Idle]
  /\ UNCHANGED <<deviceVars, handshake, slots, hsTask, inq, sessVars, netVars, delivered>>

\* One more delivery of packet m.
Tally(D, m) == [d \in DOMAIN D \cup {m} |-> IF d \notin DOMAIN D THEN 1
                                          ELSE IF d = m THEN D[d] + 1 ELSE D[d]]

\* The filter of a session (NonceFilter) refuses a counter it has accepted, one
\* that has left the window, and possibly counter Window once it accepted 0.
MustRefuse(F, c) == c \in F \/ \E d \in F : c + Window <= d + 1
MayRefuse(F, c) == MustRefuse(F, c) \/ (c = Window /\ 0 \in F)

\* The first packet of the next session completes it.
ConfirmNext(l, s) ==
  IF completes_next(slots[l], s)
  THEN /\ slots' = [slots EXCEPT ![l] = complete_next(@, s)]
       /\ index' = [index EXCEPT ![l[1]] = complete_next_index(slots[l], @, s)]
  ELSE UNCHANGED <<slots, index>>

\* Mutant: the filter is updated but not asked.
Deliver_NoCheck(l, m, s) ==
  /\ m.key = s.key
  /\ ~ m.empty
  /\ filter' = [filter EXCEPT ![<<l[1], s.local>>] = @ \cup {m.counter}]
  /\ delivered' = Tally(delivered, m)

\* A packet that passes the filter, decrypts and is not a keepalive is delivered
\* and recorded in the filter.
Deliver(l, m, s) ==
  /\ ~ MustRefuse(filter[<<l[1], s.local>>], m.counter)
  /\ m.key = s.key
  /\ ~ m.empty
  /\ filter' = [filter EXCEPT ![<<l[1], s.local>>] = @ \cup {m.counter}]
  /\ delivered' = Tally(delivered, m)

\* Any other packet is dropped.
Drop(l, m, s) ==
  /\ MayRefuse(filter[<<l[1], s.local>>], m.counter) \/ m.key # s.key \/ m.empty
  /\ UNCHANGED <<filter, delivered>>

\* handle_transport_data
HandleTransport(l) ==
  /\ inTask[l] = Idle
  /\ inq[l] # <<>>
  /\ Head(inq[l]).kind = "transport"
  /\ LET m == Head(inq[l]).msg
         s == Head(inq[l]).session
     IN  /\ ConfirmNext(l, s)
         /\ Deliver(l, m, s) \/ Drop(l, m, s)
  /\ inq' = [inq EXCEPT ![l] = Tail(@)]
  /\ UNCHANGED <<nextIndex, handshake, hsTask, inTask, outq, nonce, netVars>>

-----------------------------------------------------------------------------
\* The outbound task

\* A packet from the TUN device, or the keepalive of the outbound task.
StageOutbound(l, p) ==
  /\ Len(outq[l]) < OutboundCap
  /\ outq' = [outq EXCEPT ![l] = Append(@, p)]
  /\ UNCHANGED <<deviceVars, handshake, slots, hsTask, inTask, inq, sessVars,
                 netVars, delivered>>

\* tick_outbound: encrypt under the current session, or drop the packet.
TickOutbound(l) ==
  /\ outq[l] # <<>>
  /\ LET s == slots[l].current
     IN  IF s = None
         THEN UNCHANGED <<nonce, transport>>
         ELSE /\ nonce[<<l[1], s.local>>] < MaxNonce
              /\ nonce' = [nonce EXCEPT ![<<l[1], s.local>>] = @ + 1]
              /\ transport' = transport \cup
                   {[src |-> l[1], dst |-> l[2], to |-> s.remote, key |-> s.key,
                     counter |-> nonce[<<l[1], s.local>>], empty |-> Head(outq[l]) = "empty"]}
  /\ outq' = [outq EXCEPT ![l] = Tail(@)]
  /\ UNCHANGED <<deviceVars, handshake, slots, hsTask, inTask, inq, filter,
                 initiations, responses, restarts, delivered>>

-----------------------------------------------------------------------------
\* The daemon of a node is restarted.  Nothing of a session is kept; the new
\* process draws its indices afresh, so no old index is handed out again.
Restart(n) ==
  LET mine == {l \in Peers : l[1] = n}
      Reset(f, v) == [l \in Peers |-> IF l \in mine THEN v ELSE f[l]]
  IN  /\ restarts < MaxRestarts
      /\ restarts' = restarts + 1
      /\ index' = [index EXCEPT ![n] = {}]
      /\ handshake' = Reset(handshake, 0)
      /\ slots' = Reset(slots, NewActiveSession)
      /\ hsTask' = Reset(hsTask, None)
      /\ inTask' = Reset(inTask, Idle)
      /\ inq' = Reset(inq, <<>>)
      /\ outq' = Reset(outq, <<>>)
      /\ UNCHANGED <<nextIndex, sessVars, initiations, responses, transport, delivered>>

Next ==
  \/ \E l \in Peers :
       \/ Initiate(l) \/ PrepareUninit(l)
       \/ Respond(l) \/ PrepareNext(l)
       \/ Finalize(l) \/ CompleteUninit(l) \/ StageConfirmation(l)
       \/ HandleTransport(l)
       \/ \E p \in Traffic : StageOutbound(l, p)
       \/ TickOutbound(l)
  \/ \E m \in initiations : ReceiveInitiation(m)
  \/ \E m \in responses : ReceiveResponse(m)
  \/ \E m \in transport : ReceiveTransport(m)
  \/ \E n \in Nodes : Restart(n)

Spec == Init /\ [][Next]_vars

-----------------------------------------------------------------------------
\* Properties

Task == [pc : {"idle", "confirm", "dead"}, session : {None}]
          \cup [pc : {"respond", "finalize"}, session : FullSession]

Event == [kind : {"initiation"}, msg : Initiation, session : {None}]
           \cup [kind : {"response"}, msg : Response, session : HalfSession \cup FullSession]
           \cup [kind : {"transport"}, msg : Transport, session : HalfSession \cup FullSession]

\* Half-initialized sessions are only ever found in the uninit slot.
SlotsType == [uninit : HalfSession \cup {None},
              previous : FullSession \cup {None},
              current : FullSession \cup {None},
              next : FullSession \cup {None}]

\* Indices, sessions, queues and datagrams are what their types say; only the
\* uninit slot and the handshake task hold sessions without a key.
TypeOK ==
  /\ nextIndex \in [Nodes -> 1 .. MaxIndex + 1]
  /\ index \in [Nodes -> SUBSET (HalfSession \cup FullSession)]
  /\ handshake \in [Peers -> Nat]
  /\ slots \in [Peers -> SlotsType]
  /\ hsTask \in [Peers -> HalfSession \cup {None}]
  /\ inTask \in [Peers -> Task]
  /\ inq \in [Peers -> Seq(Event)]
  /\ outq \in [Peers -> Seq({"data", "empty"})]
  /\ nonce \in [Nodes \X Indices -> Nat]
  /\ filter \in [Nodes \X Indices -> SUBSET Nat]
  /\ initiations \subseteq Initiation
  /\ responses \subseteq Response
  /\ transport \subseteq Transport
  /\ restarts \in Nat
  /\ DOMAIN delivered \subseteq Transport

PeersOf(n) == {l \in Peers : l[1] = n}

\* The table of a device holds exactly the sessions in the slots of its peers,
\* each under an index of its own: a retired session cannot be found, a live
\* one always can (activate and deactivate in prepare_* and complete_*).
IndexExact ==
  \A n \in Nodes :
    /\ index[n] = UNION {Live(slots[l]) : l \in PeersOf(n)}
    /\ \A s, t \in index[n] : s.local = t.local => s = t

\* A transport packet that finds a session by its index finds the one it was
\* encrypted for, never a half-initialized or a newer one (tick_inbound).
PacketFindsItsSession ==
  \A m \in transport : \A s \in index[m.dst] : s.local = m.to => s.key = m.key

\* The index under which device n knows the session with key k.
LocalIndex(k, n) == IF k.initiator = n THEN k.iIndex ELSE k.rIndex

\* A counter is used once under a key: whatever was sent in a session was
\* numbered below the session's counter.  A repeated response makes finalize
\* build the same session anew with its counter at zero; complete_uninit must
\* not install it (next_nonce).
NoNonceReuse ==
  \A m \in transport : m.counter < nonce[<<m.src, LocalIndex(m.key, m.src)>>]

\* The filter of a session knows every packet ever delivered in it.
FilterRemembers ==
  \A m \in DOMAIN delivered : m.counter \in filter[<<m.dst, LocalIndex(m.key, m.dst)>>]

\* A session becomes current only after the other side had it: the initiator
\* has its response, the responder has a packet the initiator encrypted with it.
CurrentIsConfirmed ==
  \A l \in Peers :
    LET s == slots[l].current
    IN  s # None =>
          IF s.key.initiator = l[1]
          THEN [src |-> l[2], dst |-> l[1], index |-> s.remote, to |-> s.local] \in responses
          ELSE \E m \in transport : m.src = l[2] /\ m.key = s.key

\* A session that becomes current is new to this side: it has sent nothing
\* under it, so no step ever goes back to an earlier session.
CurrentMovesForward ==
  [][\A l \in Peers :
       slots[l].current # slots'[l].current /\ slots'[l].current # None
         => \A m \in transport : m.src = l[1] => m.key # slots'[l].current.key]_vars

\* The tunnels implement a channel that delivers a packet at most once.
Channel == INSTANCE AtMostOnceChannel
             WITH sent <- {m \in transport : ~ m.empty},
                  received <- delivered
ImplementsChannel == Channel!Spec
-----------------------------------------------------------------------------
\* The inductive invariant

\* Every session a peer of the device knows of, by the place it is in.
Roles == {"uninit", "previous", "current", "next", "hs", "respond"}

At(l, r) ==
  CASE r = "uninit"   -> slots[l].uninit
    [] r = "previous" -> slots[l].previous
    [] r = "current"  -> slots[l].current
    [] r = "next"     -> slots[l].next
    [] r = "hs"       -> hsTask[l]
    [] r = "respond"  -> IF inTask[l].pc = "respond" THEN inTask[l].session ELSE None

\* No two places of a device share an index.
IndexesDistinct ==
  \A l1, l2 \in Peers : \A r1, r2 \in Roles :
    /\ l1[1] = l2[1]
    /\ At(l1, r1) # None
    /\ At(l2, r2) # None
    /\ At(l1, r1).local = At(l2, r2).local
    => l1 = l2 /\ r1 = r2

\* An index handed out in the future is in use nowhere.
IndexesFresh ==
  /\ \A l \in Peers : \A r \in Roles : At(l, r) # None => At(l, r).local < nextIndex[l[1]]
  /\ \A m \in transport : LocalIndex(m.key, m.src) < nextIndex[m.src]
  /\ \A q \in responses : q.index < nextIndex[q.src]

\* The key of a session names its two ends and the index each knows it by.
AsInitiator(l, s) ==
  s.key = [initiator |-> l[1], iIndex |-> s.local, responder |-> l[2], rIndex |-> s.remote]
AsResponder(l, s) ==
  s.key = [initiator |-> l[2], iIndex |-> s.remote, responder |-> l[1], rIndex |-> s.local]

KeyOf(q) ==
  [initiator |-> q.dst, iIndex |-> q.to, responder |-> q.src, rIndex |-> q.index]
ResponseOf(k) ==
  [src |-> k.responder, dst |-> k.initiator, index |-> k.rIndex, to |-> k.iIndex]

SessionsProper ==
  \A l \in Peers :
    /\ \A r \in Roles : At(l, r) # None => At(l, r).peer = l[2]
    /\ \A r \in {"previous", "current"} :
         At(l, r) # None => AsInitiator(l, At(l, r)) \/ AsResponder(l, At(l, r))
    /\ \A r \in {"next", "respond"} : At(l, r) # None => AsResponder(l, At(l, r))
    /\ inTask[l].pc = "finalize" =>
         /\ AsInitiator(l, inTask[l].session)
         /\ inTask[l].session.peer = l[2]
         /\ ResponseOf(inTask[l].session.key) \in responses

\* Packets flow between the two ends of their key, the first one from the
\* initiator and only after the response was sent.
PacketsProper ==
  /\ DOMAIN delivered \subseteq transport
  /\ \A m \in transport :
       /\ <<m.src, m.dst>> \in Peers
       /\ \/ m.key.initiator = m.src /\ m.key.responder = m.dst
          \/ m.key.initiator = m.dst /\ m.key.responder = m.src
       /\ m.to = LocalIndex(m.key, m.dst)
       /\ ResponseOf(m.key) \in responses
       /\ m.key.initiator = m.dst => \E m2 \in transport : m2.src = m.dst /\ m2.key = m.key

\* Nothing was sent in a session that has never been current, and whatever was
\* sent under the index of one that has was sent under its key.
SentUnderKey ==
  \A l \in Peers : \A m \in transport :
    m.src = l[1] =>
      /\ \A r \in {"uninit", "next", "hs", "respond"} :
           At(l, r) # None => LocalIndex(m.key, m.src) # At(l, r).local
      /\ \A r \in {"previous", "current"} :
           At(l, r) # None /\ LocalIndex(m.key, m.src) = At(l, r).local
             => m.key = At(l, r).key

\* A session whose response was sent is prepared, and has that response's key.
ResponsesProper ==
  \A q \in responses : \A l \in Peers : \A r \in Roles :
    l[1] = q.src /\ At(l, r) # None /\ At(l, r).local = q.index
      => r \in {"previous", "current", "next"} /\ At(l, r).key = KeyOf(q)

\* A queued packet carries the session it belongs to.
QueuesProper ==
  \A l \in Peers : \A i \in 1 .. Len(inq[l]) :
    LET e == inq[l][i]
    IN  /\ e.msg.dst = l[1]
        /\ e.kind = "initiation" => e.msg.src = l[2]
        /\ e.kind = "response" => e.msg \in responses
        /\ e.kind = "transport" =>
             /\ e.msg \in transport
             /\ e.session.peer = l[2]
             /\ e.session.local = e.msg.to
             /\ e.session.key = e.msg.key
             /\ AsInitiator(l, e.session) \/ AsResponder(l, e.session)

IndInv ==
  /\ IndexesDistinct
  /\ IndexesFresh
  /\ SessionsProper
  /\ PacketsProper
  /\ SentUnderKey
  /\ ResponsesProper
  /\ QueuesProper
  /\ IndexExact
  /\ CurrentIsConfirmed
  /\ NoNonceReuse
  /\ FilterRemembers
=============================================================================
