------------------------------- MODULE Device -------------------------------
(***************************************************************************)
(* How a device gets its sockets and its packets: UdpTransport binds an    *)
(* IPv4 and an IPv6 socket to one port and forwards what it receives into  *)
(* the inbound channel, the extra transports write to the same channel,    *)
(* and one loop takes the packets out and stages each with its peer, whose *)
(* own channel is bounded too.                                             *)
(***************************************************************************)
EXTENDS Naturals, Sequences, Functions

CONSTANTS HostPorts,    \* ports of the host
          Retries,      \* attempts for port 0 (10 in the code)
          Peers,        \* peers of the device
          Capacity,     \* of the inbound channel (1024 in the code)
          PeerCapacity, \* of a peer's inbound channel (32 in the code)
          MaxData       \* bound: packets that are sent to the device

NoPeer == "nobody"

ASSUME DeviceAssumption ==
  /\ HostPorts \subseteq Nat \ {0} /\ NoPeer \notin Peers /\ MaxData \in Nat
  /\ Retries \in Nat \ {0} /\ Capacity \in Nat \ {0} /\ PeerCapacity \in Nat \ {0}

VARIABLES
  pc,      \* Device::new: "bind4", "bind6", "up" or "failed"
  asked,   \* the port of the configuration
  tries,   \* attempts so far
  v4, v6,  \* ports of the sockets, 0 for none
  port,    \* Device::port
  sent,    \* number of packets sent to the device
  buffer,  \* packets that wait in each socket
  udp,     \* the task of UdpTransport: "recv", "send" or "ended"
  datagram,    \* the packet it forwards
  inbound, \* the inbound channel
  staging, \* the packet the inbound loop stages, if any
  queue,   \* the inbound channel of each peer
  handled  \* packets each peer has handled

binding == <<pc, asked, tries, v4, v6, port>>
deviceVars == <<binding, sent, buffer, udp, datagram, inbound, staging, queue, handled>>

\* A packet: where it comes from, whom it is for (or nobody the device knows),
\* and its number; Empty is what is left of one that was cut to no bytes.
Sources == {"v4", "v6", "ext"}
Targets == Peers \cup {NoPeer}
Empty == [from |-> "v6", peer |-> NoPeer, n |-> 0]

DeviceInit ==
  /\ pc = "bind4" /\ asked \in HostPorts \cup {0} /\ tries = 0
  /\ v4 = 0 /\ v6 = 0 /\ port = 0
  /\ sent = 0 /\ buffer = [f \in {"v4", "v6"} |-> <<>>]
  /\ udp = "recv" /\ datagram = <<>> /\ inbound = <<>> /\ staging = <<>>
  /\ queue = [p \in Peers |-> <<>>] /\ handled = [p \in Peers |-> <<>>]

-----------------------------------------------------------------------------
max_retry == IF asked = 0 THEN Retries ELSE 1

\* An attempt failed: the next one, or none.
Again ==
  /\ tries' = tries + 1
  /\ pc' = IF tries' < max_retry THEN "bind4" ELSE "failed"
  /\ v4' = 0
  /\ UNCHANGED <<asked, v6, port>>

Rest == UNCHANGED <<sent, buffer, udp, datagram, inbound, staging, queue, handled>>

\* bind_socket, the IPv4 socket: port 0 gets a free port of the host.
Bind4 ==
  /\ pc = "bind4"
  /\ \/ /\ v4' \in (IF asked = 0 THEN HostPorts ELSE {asked})
        /\ pc' = "bind6"
        /\ UNCHANGED <<asked, tries, v6, port>>
     \/ Again
  /\ Rest

\* Mutant: the IPv6 socket is bound to the port that was asked for.
Port6_Asked(p) == IF asked = 0 THEN CHOOSE q \in HostPorts : TRUE ELSE asked

\* The IPv6 socket is bound to the port of the IPv4 socket.
Port6(p) == p

\* bind_socket, the IPv6 socket; spawn returns the port it was given.
Bind6 ==
  /\ pc = "bind6"
  /\ \/ /\ v6' = Port6(v4)
        /\ pc' = "up"
        /\ port' = asked
        /\ UNCHANGED <<asked, tries, v4>>
     \/ Again
  /\ Rest

-----------------------------------------------------------------------------
\* A packet is sent to one of the sockets.
Send(f, p) ==
  /\ pc = "up" /\ sent < MaxData
  /\ sent' = sent + 1
  /\ buffer' = [buffer EXCEPT ![f] = Append(@, [from |-> f, peer |-> p, n |-> sent'])]
  /\ UNCHANGED <<binding, udp, datagram, inbound, staging, queue, handled>>

\* An extra transport writes a packet to inbound_tx.
SendExtra(p) ==
  /\ pc = "up" /\ sent < MaxData /\ Len(inbound) < Capacity
  /\ sent' = sent + 1
  /\ inbound' = Append(inbound, [from |-> "ext", peer |-> p, n |-> sent'])
  /\ UNCHANGED <<binding, buffer, udp, datagram, staging, queue, handled>>

\* recv_from: the buffer of the IPv4 socket is made in either case, the one of
\* the IPv6 socket never, so that nothing of a packet fits into it.
Received(packet) == IF packet.from = "v6" THEN Empty ELSE packet

RecvFrom(f) ==
  /\ pc = "up" /\ udp = "recv" /\ buffer[f] # <<>>
  /\ datagram' = <<Received(Head(buffer[f]))>>
  /\ buffer' = [buffer EXCEPT ![f] = Tail(@)]
  /\ udp' = "send"
  /\ UNCHANGED <<binding, sent, inbound, staging, queue, handled>>

\* It waits for room in the channel.
Forward ==
  /\ udp = "send" /\ Len(inbound) < Capacity
  /\ inbound' = inbound \o datagram
  /\ datagram' = <<>> /\ udp' = "recv"
  /\ UNCHANGED <<binding, sent, buffer, staging, queue, handled>>

\* An error of a socket ends the task.
RecvError ==
  /\ pc = "up" /\ udp = "recv"
  /\ udp' = "ended"
  /\ UNCHANGED <<binding, sent, buffer, datagram, inbound, staging, queue, handled>>

-----------------------------------------------------------------------------
\* Mutant: the loop gives up on a packet for nobody it knows.
Known_Wait(packet) == TRUE

\* tick_inbound drops what does not parse, and what is for no peer or session it
\* knows.
Known(packet) == packet.peer \in Peers

\* loop_inbound takes the next packet.
TickInbound ==
  /\ staging = <<>> /\ inbound # <<>>
  /\ inbound' = Tail(inbound)
  /\ staging' = IF Known(Head(inbound)) THEN <<Head(inbound)>> ELSE <<>>
  /\ UNCHANGED <<binding, sent, buffer, udp, datagram, queue, handled>>

\* stage_inbound waits for room in the channel of the peer.
StageInbound ==
  /\ staging # <<>>
  /\ LET p == Head(staging).peer IN
       /\ p \in Peers /\ Len(queue[p]) < PeerCapacity
       /\ queue' = [queue EXCEPT ![p] = Append(@, Head(staging))]
  /\ staging' = Tail(staging)
  /\ UNCHANGED <<binding, sent, buffer, udp, datagram, inbound, handled>>

\* The inbound task of a peer handles a packet.
HandleInbound(p) ==
  /\ queue[p] # <<>>
  /\ handled' = [handled EXCEPT ![p] = Append(@, Head(queue[p]))]
  /\ queue' = [queue EXCEPT ![p] = Tail(@)]
  /\ UNCHANGED <<binding, sent, buffer, udp, datagram, inbound, staging>>

DeviceNext ==
  \/ Bind4 \/ Bind6
  \/ \E f \in {"v4", "v6"} : RecvFrom(f) \/ \E p \in Targets : Send(f, p)
  \/ \E p \in Targets : SendExtra(p)
  \/ Forward \/ RecvError \/ TickInbound \/ StageInbound
  \/ \E p \in Peers : HandleInbound(p)

\* The tasks run; select! of recv_from looks at both sockets, in random order.
DeviceFairness ==
  /\ \A f \in {"v4", "v6"} : SF_deviceVars(RecvFrom(f))
  /\ SF_deviceVars(Forward)
  /\ WF_deviceVars(TickInbound) /\ WF_deviceVars(StageInbound)
  /\ \A p \in Peers : WF_deviceVars(HandleInbound(p))

DeviceSpec == DeviceInit /\ [][DeviceNext]_deviceVars /\ DeviceFairness

-----------------------------------------------------------------------------
\* A device that is up has both sockets on one port, the port it was asked for if
\* it was asked for one; and it says so.
OnePort ==
  pc = "up" =>
    /\ v4 = v6 /\ v4 \in HostPorts
    /\ asked # 0 => v4 = asked /\ port = v4

\* The packets of a source that a peer has handled were sent in that order.
InOrder ==
  \A p \in Peers : \A i, j \in DOMAIN handled[p] :
    i < j /\ handled[p][i].from = handled[p][j].from => handled[p][i].n < handled[p][j].n

HasHandled(p, n) == \E i \in DOMAIN handled[p] : handled[p][i].n = n
Waits(packets, p, n) == \E i \in DOMAIN packets : packets[i].n = n /\ packets[i].peer = p

InboundIsHandled ==
  \A p \in Peers, n \in 1 .. MaxData : Waits(inbound, p, n) ~> HasHandled(p, n)

DatagramIsHandled ==
  \A p \in Peers, n \in 1 .. MaxData :
    Waits(buffer["v4"], p, n) ~> (udp = "ended" \/ HasHandled(p, n))

\* A packet for a peer that has reached the inbound channel is handled, although
\* packets for nobody and a full channel of another peer stand before it; so is
\* one in the IPv4 socket, unless an error has ended the task that receives.  The
\* packets of a source are handled in the order they were sent, each once.
PacketsAreHandled == []InOrder /\ InboundIsHandled /\ DatagramIsHandled

-----------------------------------------------------------------------------
Packet == [from : Sources, peer : Targets, n : 0 .. MaxData]

DeviceTypeOK ==
  /\ pc \in {"bind4", "bind6", "up", "failed"} /\ asked \in HostPorts \cup {0}
  /\ sent \in 0 .. MaxData /\ buffer \in [{"v4", "v6"} -> Seq(Packet)]
  /\ datagram \in {<<>>} \cup {<<d>> : d \in Packet} /\ inbound \in Seq(Packet)
  /\ staging \in {<<>>} \cup {<<d>> : d \in Packet}
  /\ queue \in [Peers -> Seq(Packet)] /\ handled \in [Peers -> Seq(Packet)]

\* While the IPv6 socket is bound, the IPv4 one has the port it should.
PortInv ==
  /\ pc = "bind6" => v4 \in HostPorts /\ (asked # 0 => v4 = asked)
  /\ OnePort

\* What is on its way, by how far it has come.
InSockets == Range(buffer["v4"]) \cup Range(buffer["v6"])
Unforwarded == Range(datagram) \cup InSockets
Unticked == Range(inbound) \cup Unforwarded
Unstaged == Range(staging) \cup Unticked
Unhandled(p) == Range(queue[p]) \cup Unstaged

\* The packets of S that have the source and the peer of one of T were sent
\* before it.
Ahead(S, T) ==
  \A d \in S, e \in T : d.from = e.from /\ d.peer = e.peer /\ d.peer \in Peers => d.n < e.n

\* So were those of a channel before the ones behind them.
Ordered(s) == \A i, j \in DOMAIN s : i < j => Ahead({s[i]}, {s[j]})

\* At every stage packets are ahead of those that have not come so far.  A packet
\* of an extra transport overtakes those of the sockets, and has another source.
OrderInv ==
  /\ \A f \in {"v4", "v6"} : Ordered(buffer[f]) /\ \A d \in Range(buffer[f]) : d.from = f
  /\ Ahead(Range(datagram), InSockets)
  /\ Ordered(inbound) /\ Ahead(Range(inbound), Unforwarded)
  /\ Ahead(Range(staging), Unticked)
  /\ \A p \in Peers :
       /\ Ordered(queue[p]) /\ Ahead(Range(queue[p]), Unstaged)
       /\ Ordered(handled[p]) /\ Ahead(Range(handled[p]), Unhandled(p))
       /\ \A d \in Range(queue[p]) \cup Range(handled[p]) : d.peer = p /\ d.n <= sent
  /\ \A d \in Unstaged : d.n <= sent
  /\ \A d \in Unforwarded : d.from # "ext"

\* The inductive invariant.
DeviceInv == DeviceTypeOK /\ PortInv /\ OrderInv
=============================================================================
