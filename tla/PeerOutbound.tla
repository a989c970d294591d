---------------------------- MODULE PeerOutbound ----------------------------
(***************************************************************************)
(* The outbound channels of a device's peers: who fills them, and the      *)
(* outbound task of each peer that drains its own (device/handle.rs,       *)
(* device/peer/handler.rs, device/peer/mod.rs).                            *)
(*                                                                         *)
(* The channels are bounded, and a task that finds one full waits.  One    *)
(* task reads the TUN device for all peers; the inbound task of a peer     *)
(* stages the confirmation of a handshake; the outbound task itself stages *)
(* the peer's keepalives.                                                  *)
(***************************************************************************)
EXTENDS Naturals

CONSTANTS Peers,
          Capacity,      \* of an outbound channel
          Persistent,    \* the peers with a persistent keepalive interval
          None

ASSUME OutboundAssumption ==
  /\ Capacity \in Nat \ {0}
  /\ Persistent \subseteq Peers
  /\ None \notin Peers

VARIABLES
  queued,     \* per peer: packets in the outbound channel
  tun,        \* the peer the TUN task has a packet for, or None
  inbound,    \* per peer: whether the inbound task has a confirmation to stage
  outbound,   \* per peer: where the outbound task is in its loop
  due,        \* per peer: whether the keepalive timer has run out
  online,     \* per peer: the online flag
  session,    \* per peer: whether there is a current session
  endpoint    \* per peer: whether there is an endpoint

vars == <<queued, tun, inbound, outbound, due, online, session, endpoint>>

Init ==
  /\ queued = [p \in Peers |-> 0]
  /\ tun = None
  /\ inbound = [p \in Peers |-> "idle"]
  /\ outbound = [p \in Peers |-> "select"]
  /\ due = [p \in Peers |-> FALSE]
  /\ online \in [Peers -> BOOLEAN]
  /\ session = [p \in Peers |-> FALSE]
  /\ endpoint \in [Peers -> BOOLEAN]

-----------------------------------------------------------------------------
\* stage_outbound: wait for a place in the channel
Stage(p) ==
  /\ queued[p] < Capacity
  /\ queued' = [queued EXCEPT ![p] = @ + 1]

\* The TUN task has read a packet for an address of peer p.
TunRecv(p) ==
  /\ tun = None
  /\ tun' = p
  /\ UNCHANGED <<queued, inbound, outbound, due, online, session, endpoint>>

TunStage ==
  /\ tun # None
  /\ Stage(tun)
  /\ tun' = None
  /\ UNCHANGED <<inbound, outbound, due, online, session, endpoint>>

\* handle_handshake_response has completed a session: the packet came over an
\* endpoint, and the session is confirmed by an empty packet.
HandshakeComplete(p) ==
  /\ inbound[p] = "idle"
  /\ session' = [session EXCEPT ![p] = TRUE]
  /\ endpoint' = [endpoint EXCEPT ![p] = TRUE]
  /\ inbound' = [inbound EXCEPT ![p] = "confirm"]
  /\ UNCHANGED <<queued, tun, outbound, due, online>>

\* handle_transport_data has confirmed the next session: nothing to stage
CompleteNext(p) ==
  /\ inbound[p] = "idle"
  /\ session' = [session EXCEPT ![p] = TRUE]
  /\ UNCHANGED <<queued, tun, inbound, outbound, due, online, endpoint>>

Confirm(p) ==
  /\ inbound[p] = "confirm"
  /\ Stage(p)
  /\ inbound' = [inbound EXCEPT ![p] = "idle"]
  /\ UNCHANGED <<tun, outbound, due, online, session, endpoint>>

-----------------------------------------------------------------------------
\* The outbound task

\* Mutant: a packet stays in the channel until there is a session.
TickOutbound_WhenConnected(p) ==
  /\ outbound[p] = "select"
  /\ queued[p] > 0
  /\ session[p]
  /\ queued' = [queued EXCEPT ![p] = @ - 1]
  /\ outbound' = [outbound EXCEPT ![p] = "send"]
  /\ UNCHANGED <<tun, inbound, due, online, session, endpoint>>

\* tick_outbound: without a session the packet is dropped and an event published.
TickOutbound(p) ==
  /\ outbound[p] = "select"
  /\ queued[p] > 0
  /\ queued' = [queued EXCEPT ![p] = @ - 1]
  /\ outbound' = IF session[p] THEN [outbound EXCEPT ![p] = "send"] ELSE outbound
  /\ UNCHANGED <<tun, inbound, due, online, session, endpoint>>

\* Mutant: without an endpoint the task keeps trying.
SendOutbound_Retry(p) ==
  /\ outbound[p] = "send"
  /\ endpoint[p]
  /\ outbound' = [outbound EXCEPT ![p] = "select"]
  /\ UNCHANGED <<queued, tun, inbound, due, online, session, endpoint>>

\* send_outbound: without an endpoint the packet is dropped as well
SendOutbound(p) ==
  /\ outbound[p] = "send"
  /\ outbound' = [outbound EXCEPT ![p] = "select"]
  /\ UNCHANGED <<queued, tun, inbound, due, online, session, endpoint>>

\* The keepalive interval has passed since the last attempt.
KeepaliveDue(p) ==
  /\ p \in Persistent
  /\ due' = [due EXCEPT ![p] = TRUE]
  /\ UNCHANGED <<queued, tun, inbound, outbound, online, session, endpoint>>

\* keepalive: without effect while the peer is offline
Keepalive(p) ==
  /\ outbound[p] = "select"
  /\ due[p]
  /\ IF online[p]
     THEN /\ due' = [due EXCEPT ![p] = FALSE]
          /\ outbound' = [outbound EXCEPT ![p] = "keepalive"]
     ELSE UNCHANGED <<due, outbound>>
  /\ UNCHANGED <<queued, tun, inbound, online, session, endpoint>>

KeepaliveStage(p) ==
  /\ outbound[p] = "keepalive"
  /\ Stage(p)
  /\ outbound' = [outbound EXCEPT ![p] = "select"]
  /\ UNCHANGED <<tun, inbound, due, online, session, endpoint>>

-----------------------------------------------------------------------------
\* The daemon

SetOnline(p) ==
  /\ \E v \in BOOLEAN : online' = [online EXCEPT ![p] = v]
  /\ UNCHANGED <<queued, tun, inbound, outbound, due, session, endpoint>>

\* update_endpoint and clear_endpoint
SetEndpoint(p) ==
  /\ \E v \in BOOLEAN : endpoint' = [endpoint EXCEPT ![p] = v]
  /\ UNCHANGED <<queued, tun, inbound, outbound, due, online, session>>

Next ==
  \/ TunStage
  \/ \E p \in Peers :
       \/ TunRecv(p)
       \/ HandshakeComplete(p) \/ CompleteNext(p) \/ Confirm(p)
       \/ TickOutbound(p) \/ SendOutbound(p)
       \/ KeepaliveDue(p) \/ Keepalive(p) \/ KeepaliveStage(p)
       \/ SetOnline(p) \/ SetEndpoint(p)

\* The tasks are scheduled and sending to an endpoint returns (weak fairness), and
\* a sender that waits for a place in a channel gets one when places keep coming
\* free, because tokio's channels serve waiting senders in order (strong fairness).
Fairness ==
  /\ SF_vars(TunStage)
  /\ \A p \in Peers : /\ SF_vars(Confirm(p))
                      /\ SF_vars(KeepaliveStage(p))
                      /\ WF_vars(TickOutbound(p))
                      /\ WF_vars(SendOutbound(p))

Spec == Init /\ [][Next]_vars /\ Fairness

-----------------------------------------------------------------------------
\* Properties

\* Channels hold at most Capacity packets and tasks are in one of their places.
TypeOK ==
  /\ queued \in [Peers -> 0 .. Capacity]
  /\ tun \in Peers \cup {None}
  /\ inbound \in [Peers -> {"idle", "confirm"}]
  /\ outbound \in [Peers -> {"select", "send", "keepalive"}]
  /\ due \in [Peers -> BOOLEAN]
  /\ online \in [Peers -> BOOLEAN]
  /\ session \in [Peers -> BOOLEAN]
  /\ endpoint \in [Peers -> BOOLEAN]

\* "Stage outbound data to be sent to the peer" (device/peer/mod.rs:182): the
\* task that reads the TUN device gets rid of every packet, whatever the state
\* of the peer it is for, and goes on to serve the other peers.
TunServed == \A p \in Peers : tun = p ~> tun # p

\* The outbound task waits for a place in the channel that only it drains.
SelfWait(p) == outbound[p] = "keepalive" /\ queued[p] = Capacity

\* The TUN task gets rid of every packet, whether or not its peer has a session,
\* an endpoint or is online, unless the peer's outbound task waits for itself; no
\* channel ever holds more than its capacity.
TunServedUnlessSelfWait ==
  /\ []TypeOK
  /\ \A p \in Peers : tun = p ~> (tun # p \/ SelfWait(p))

\* The inbound task of a peer without persistent keepalives gets rid of its
\* confirmation and goes on to read packets, however busy the TUN task is.
ConfirmationStaged ==
  \A p \in Peers \ Persistent : inbound[p] = "confirm" ~> inbound[p] = "idle"
=============================================================================
