--------------------------- MODULE ExtraTransport ---------------------------
(***************************************************************************)
(* An extra transport of the daemon: for every public address that the NAT *)
(* service finds, it starts a forwarder on that port, drops the one before *)
(* and publishes the address.  The handler of device events records the    *)
(* address in extra_status and tells the server; the network manager sends *)
(* what is recorded along with PeerEnter whenever a link to the server is  *)
(* up again.  Addresses are identified with their ports.                   *)
(***************************************************************************)
EXTENDS Naturals, Sequences, FiniteSets

CONSTANTS Addrs,    \* port numbers, not 0
          MaxAddrs, \* bound: addresses the NAT service finds
          BusSize,  \* places of the event bus
          MaxNoise, \* bound: other events published on the bus
          MaxLinks  \* bound: links to the server; the last one does not break

ASSUME ExtraAssumption ==
  /\ Addrs \subseteq Nat \ {0}
  /\ MaxAddrs \in Nat /\ MaxNoise \in Nat
  /\ BusSize \in Nat \ {0} /\ MaxLinks \in Nat \ {0}

Forwarders == 1 .. MaxAddrs
Noise == 0

VARIABLES
  kind,      \* "UDP" or "TCP", chosen in ExtraInit
  addrs,     \* the address on its way from the NAT service
  found,     \* addresses the service has sent
  transport, \* "run", "spawned", "failing", "failed" or "panicked"
  fport,     \* per forwarder: the port it listens on, 0 before it is started
  task,      \* per forwarder: its task
  fwd,       \* the forwarder the transport holds, or 0
  holding,   \* the forwarders whose socket is part of a peer's endpoint
  bus,       \* the events not yet taken by the handler
  lagged,    \* whether an event was overwritten before it was taken
  noise,     \* other events published
  handler,   \* what the event handler is about to send, 0 when it waits
  alive,     \* whether the event handler runs
  status,    \* the endpoint of extra_status, 0 for none
  links,     \* links made so far
  up,        \* whether the link is up
  turn,      \* the network manager: "idle", "connected", "send" or "ended"
  enter,     \* the endpoint in the PeerEnter it is about to send
  wire,      \* the messages on their way to the server
  entered,   \* the server has an OnlineInfo for this link
  known,     \* the extra endpoint in it, 0 for none
  late,      \* history: an event was handled after the transport had failed
  overtaken  \* history: an address was recorded behind the last PeerEnter's back

fwds == <<fport, task, fwd, holding>>
events == <<bus, lagged, noise, handler, alive>>
server == <<links, up, turn, enter, wire, entered, known>>
extraState == <<addrs, found, transport, fwds, events, status, server, late, overtaken>>
extraVars == <<kind, extraState>>

ExtraInit ==
  /\ kind \in {"UDP", "TCP"}
  /\ addrs = <<>> /\ found = 0 /\ transport = "run"
  /\ fport = [i \in Forwarders |-> 0] /\ task = [i \in Forwarders |-> "none"]
  /\ fwd = 0 /\ holding = {}
  /\ bus = <<>> /\ lagged = FALSE /\ noise = 0 /\ handler = 0 /\ alive = TRUE
  /\ status = 0
  /\ links = 1 /\ up = TRUE /\ turn = "connected" /\ enter = 0
  /\ wire = <<>> /\ entered = FALSE /\ known = 0
  /\ late = FALSE /\ overtaken = FALSE

-----------------------------------------------------------------------------
\* broadcast::Sender::send overwrites the oldest event of a full bus.
Publish(e) ==
  /\ bus' = IF ~ alive THEN bus
            ELSE IF Len(bus) = BusSize THEN Append(Tail(bus), e)
            ELSE Append(bus, e)
  /\ lagged' = (lagged \/ (alive /\ Len(bus) = BusSize))

\* The NAT service sends an address.
Found(p) ==
  /\ found < MaxAddrs /\ addrs = <<>> /\ transport \in {"run", "spawned"}
  /\ addrs' = <<p>>
  /\ found' = found + 1
  /\ UNCHANGED <<transport, fwds, events, status, server, late, overtaken>>

Started == {i \in Forwarders : fport[i] # 0}

\* UdpForwarder::spawn and TcpForwarder::spawn: the port can be shared, so the
\* old forwarder runs on meanwhile.
Spawn ==
  /\ transport = "run" /\ addrs # <<>>
  /\ LET i == Cardinality(Started) + 1 IN
       /\ fport' = [fport EXCEPT ![i] = Head(addrs)]
       /\ task' = [task EXCEPT ![i] = "running"]
  /\ addrs' = <<>>
  /\ transport' = "spawned"
  /\ UNCHANGED <<found, fwd, holding, events, status, server, late, overtaken>>

\* A forwarder that is dropped cancels its task.
Dropped(i) == IF i # 0 /\ task[i] = "running" THEN [task EXCEPT ![i] = "cancelled"]
                                              ELSE task

\* Mutant: the forwarder that is replaced is not cancelled.
Replace_Leak ==
  /\ transport = "spawned"
  /\ LET i == Cardinality(Started) IN
       /\ fwd' = i
       /\ Publish(fport[i])
  /\ transport' = "run"
  /\ UNCHANGED <<addrs, found, fport, task, holding, noise, handler, alive, status,
                 server, late, overtaken>>

\* The new forwarder replaces the old one, and the address is published.
Replace ==
  /\ transport = "spawned"
  /\ LET i == Cardinality(Started) IN
       /\ fwd' = i
       /\ task' = Dropped(fwd)
       /\ Publish(fport[i])
  /\ transport' = "run"
  /\ UNCHANGED <<addrs, found, fport, holding, noise, handler, alive, status, server,
                 late, overtaken>>

\* The port cannot be bound or listened on: the transport is dropped.  A TCP
\* port that cannot be bound is a panic, which leaves the status as it is.
SpawnFails ==
  /\ transport = "run" /\ addrs # <<>>
  /\ transport' \in {"failing"} \cup (IF kind = "TCP" THEN {"panicked"} ELSE {})
  /\ addrs' = <<>>
  /\ task' = Dropped(fwd)
  /\ fwd' = 0
  /\ UNCHANGED <<found, fport, holding, events, status, server, late, overtaken>>

\* The error of start_extra_transport is recorded in extra_status.
RecordFailure ==
  /\ transport = "failing"
  /\ status' = 0
  /\ transport' = "failed"
  /\ UNCHANGED <<addrs, found, fwds, events, server, late, overtaken>>

\* The task of a dropped forwarder sees its token.
ForwarderEnds(i) ==
  /\ task[i] = "cancelled"
  /\ task' = [task EXCEPT ![i] = "ended"]
  /\ UNCHANGED <<addrs, found, transport, fport, fwd, holding, events, status, server,
                 late, overtaken>>

\* recv_from fails: the task of a UDP forwarder ends, and nobody is told.
SocketFails(i) ==
  /\ kind = "UDP" /\ task[i] = "running"
  /\ task' = [task EXCEPT ![i] = "failed"]
  /\ UNCHANGED <<addrs, found, transport, fport, fwd, holding, events, status, server,
                 late, overtaken>>

\* A packet of a peer comes in: the peer's endpoint holds the UDP socket.
Hold(i) ==
  /\ kind = "UDP" /\ task[i] = "running" /\ i \notin holding
  /\ holding' = holding \cup {i}
  /\ UNCHANGED <<addrs, found, transport, fport, task, fwd, events, status, server,
                 late, overtaken>>

\* The endpoint of the peer is replaced.
Release(i) ==
  /\ i \in holding
  /\ holding' = holding \ {i}
  /\ UNCHANGED <<addrs, found, transport, fport, task, fwd, events, status, server,
                 late, overtaken>>

-----------------------------------------------------------------------------
\* Another event of the device.
OtherEvent ==
  /\ noise < MaxNoise /\ alive
  /\ noise' = noise + 1
  /\ Publish(Noise)
  /\ UNCHANGED <<addrs, found, transport, fwds, handler, alive, status, server, late,
                 overtaken>>

\* The handler takes an event; an address is recorded first.
HandleEvent ==
  /\ alive /\ handler = 0 /\ ~ lagged /\ bus # <<>>
  /\ bus' = Tail(bus)
  /\ handler' = Head(bus)
  /\ status' = IF Head(bus) = Noise THEN status ELSE Head(bus)
  /\ late' = (late \/ (Head(bus) # Noise /\ transport \in {"failed", "panicked"}))
  /\ overtaken' = (overtaken \/ (turn = "send" /\ status' # enter))
  /\ UNCHANGED <<addrs, found, transport, fwds, lagged, noise, alive, server>>

\* recv returns Lagged: the loop over the events ends.
HandlerEnds ==
  /\ alive /\ handler = 0 /\ lagged
  /\ alive' = FALSE
  /\ bus' = <<>>
  /\ UNCHANGED <<addrs, found, transport, fwds, lagged, noise, handler, status,
                 server, late, overtaken>>

\* The update is sent; without a link it is lost.
SendUpdate ==
  /\ alive /\ handler # 0
  /\ wire' = IF up THEN Append(wire, <<"update", handler>>) ELSE wire
  /\ overtaken' = (overtaken /\ ~ (up /\ turn = "idle"))
  /\ handler' = 0
  /\ UNCHANGED <<addrs, found, transport, fwds, bus, lagged, noise, alive, status,
                 links, up, turn, enter, entered, known, late>>

-----------------------------------------------------------------------------
\* Mutant: PeerEnter leaves the endpoints out.
ReadStatus_None ==
  /\ turn = "connected"
  /\ enter' = 0
  /\ turn' = "send"
  /\ overtaken' = FALSE
  /\ UNCHANGED <<addrs, found, transport, fwds, events, status, links, up, wire,
                 entered, known, late>>

\* handler_connected collects the endpoints that are recorded.
ReadStatus ==
  /\ turn = "connected"
  /\ enter' = status
  /\ turn' = "send"
  /\ overtaken' = FALSE
  /\ UNCHANGED <<addrs, found, transport, fwds, events, status, links, up, wire,
                 entered, known, late>>

\* It sends PeerEnter; an error ends the manager.
SendEnter ==
  /\ turn = "send"
  /\ wire' = IF up THEN Append(wire, <<"enter", enter>>) ELSE wire
  /\ turn' = IF up THEN "idle" ELSE "ended"
  /\ UNCHANGED <<addrs, found, transport, fwds, events, status, links, up, enter,
                 entered, known, late, overtaken>>

\* The server takes a message: an update of a peer that has not entered is not
\* stored, PeerEnter makes a new OnlineInfo.
Serve ==
  /\ wire # <<>>
  /\ LET m == Head(wire) IN
       /\ known' = IF m[1] = "enter" \/ entered THEN m[2] ELSE known
       /\ entered' = (entered \/ m[1] = "enter")
  /\ wire' = Tail(wire)
  /\ UNCHANGED <<addrs, found, transport, fwds, events, status, links, up, turn,
                 enter, late, overtaken>>

\* The link breaks and the server forgets the peer.
LinkBreaks ==
  /\ up /\ links < MaxLinks
  /\ up' = FALSE /\ wire' = <<>> /\ entered' = FALSE /\ known' = 0
  /\ UNCHANGED <<addrs, found, transport, fwds, events, status, links, turn, enter,
                 late, overtaken>>

\* The daemon has a new link: NetworkCtrlCmd::Connected.
Reconnect ==
  /\ ~ up /\ turn = "idle"
  /\ links' = links + 1
  /\ up' = TRUE /\ turn' = "connected"
  /\ UNCHANGED <<addrs, found, transport, fwds, events, status, enter, wire, entered,
                 known, late, overtaken>>

ExtraStep ==
  \/ \E p \in Addrs : Found(p)
  \/ Spawn \/ Replace \/ SpawnFails \/ RecordFailure
  \/ \E i \in Forwarders : ForwarderEnds(i) \/ SocketFails(i) \/ Hold(i) \/ Release(i)
  \/ OtherEvent \/ HandleEvent \/ HandlerEnds \/ SendUpdate
  \/ ReadStatus \/ SendEnter \/ Serve \/ LinkBreaks \/ Reconnect

ExtraNext == ExtraStep /\ UNCHANGED kind

\* The tasks of the daemon run, and the server takes what it is sent.
ExtraSpec ==
  /\ ExtraInit /\ [][ExtraNext]_extraVars
  /\ WF_extraState(Spawn) /\ WF_extraState(Replace) /\ WF_extraState(RecordFailure)
  /\ WF_extraState(HandleEvent) /\ WF_extraState(HandlerEnds) /\ WF_extraState(SendUpdate)
  /\ WF_extraState(ReadStatus) /\ WF_extraState(SendEnter) /\ WF_extraState(Serve)
  /\ WF_extraState(Reconnect)
  /\ \A i \in Forwarders : WF_extraState(ForwarderEnds(i))

-----------------------------------------------------------------------------
ForwarderTypes ==
  /\ addrs \in {<<>>} \cup {<<p>> : p \in Addrs} /\ found \in 0 .. MaxAddrs
  /\ transport \in {"run", "spawned", "failing", "failed", "panicked"}
  /\ fport \in [Forwarders -> Addrs \cup {0}]
  /\ task \in [Forwarders -> {"none", "running", "cancelled", "ended", "failed"}]
  /\ fwd \in Forwarders \cup {0} /\ holding \in SUBSET Forwarders

EventTypes ==
  /\ bus \in Seq(Addrs \cup {Noise}) /\ Len(bus) <= BusSize
  /\ lagged \in BOOLEAN /\ noise \in 0 .. MaxNoise
  /\ handler \in Addrs \cup {0} /\ status \in Addrs \cup {0}
  /\ alive \in BOOLEAN /\ late \in BOOLEAN

LinkTypes ==
  /\ links \in 1 .. MaxLinks /\ up \in BOOLEAN /\ (~ up => links < MaxLinks)
  /\ turn \in {"idle", "connected", "send", "ended"}
  /\ enter \in Addrs \cup {0} /\ known \in Addrs \cup {0}
  /\ wire \in Seq({"update", "enter"} \X (Addrs \cup {0}))
  /\ entered \in BOOLEAN /\ overtaken \in BOOLEAN

\* The variables have their types; a link that breaks is not the last.
ExtraTypeOK == ForwarderTypes /\ EventTypes /\ LinkTypes

Running == {i \in Forwarders : task[i] = "running"}

OneForwarder ==
  /\ transport = "run" => Cardinality(Running) <= 1
  /\ transport = "spawned" => Cardinality(Running) <= 2
  /\ transport \in {"failing", "failed", "panicked"} => Running = {}

FailureIsRecorded == transport = "failed" /\ ~ late => status = 0

\* A transport leaves nothing behind: two forwarders share a port only while
\* the new one replaces the old one, none outlives its transport, and when a
\* transport has failed no endpoint of it stays recorded for a later PeerEnter,
\* unless its last event was handled late.
NothingLeftBehind == ExtraTypeOK /\ OneForwarder /\ FailureIsRecorded

Learnt == fwd # 0 /\ transport = "run" => known = fport[fwd]

\* The server comes to know the address of the forwarder that runs, also when
\* a link broke while it was reported, unless the handler of the events or the
\* manager has ended or a PeerEnter was overtaken by the update.
ServerLearns ==
  <>[](Learnt \/ ~ alive \/ turn = "ended" \/ overtaken)

-----------------------------------------------------------------------------
\* What makes NothingLeftBehind inductive.  Forwarders are started in the order in
\* which addresses are found, one for each; and the ones that run are the one the
\* transport holds and the one that is about to replace it.
ForwarderInv ==
  /\ ForwarderTypes
  /\ \E k \in 0 .. found :
       /\ Started = 1 .. k
       /\ addrs # <<>> => k < found
       /\ transport = "spawned" => Running \subseteq {fwd, k} /\ k # 0
  /\ transport = "run" => Running \subseteq {fwd}
  /\ transport \in {"failing", "failed", "panicked"} => Running = {}

ExtraInv == ForwarderInv /\ EventTypes /\ LinkTypes /\ FailureIsRecorded
=============================================================================
