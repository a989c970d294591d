------------------------------ MODULE Endpoints ------------------------------
(***************************************************************************)
(* The endpoint of a peer: where the packets for it are sent, and the      *)
(* tasks that set and clear it.  Two nodes have each other as a peer; the  *)
(* state of node n is about the Peer object of the other node at n.  The   *)
(* selector dials when the peer is online and has no endpoint, the reader  *)
(* of a dialled TCP stream clears the endpoint when the stream ends, the   *)
(* handler of every packet sets it to the path the packet came by, and the *)
(* relay sets it when the peer asks for it.                                *)
(***************************************************************************)
EXTENDS Naturals, Sequences, FiniteSets

CONSTANTS Nodes,      \* the two nodes
          Setups,     \* what the nodes may be set up with
          MaxStreams, \* bound: TCP streams made
          MaxQueue    \* bound: packets that wait in the inbound queue of a node

\* A setup has the first transport of each node to the other, or "none"; the nodes
\* where the peer may have an endpoint_addr; what may happen to the relay of each
\* node; and a bound on the streams, the last of which does not break.
Setup == [first : [Nodes -> {"NatUdp", "NatTcp", "other", "none"}],
          configured : SUBSET Nodes,
          faults : [Nodes -> SUBSET {"lag", "break"}],
          streams : 0 .. MaxStreams]

ASSUME EndpointsAssumption ==
  /\ Cardinality(Nodes) = 2 /\ Setups \subseteq Setup
  /\ MaxStreams \in Nat /\ MaxQueue \in Nat \ {0}

Streams == 1 .. MaxStreams
OtherNode(n) == CHOOSE m \in Nodes : m # n

VARIABLES
  setup,     \* the setup, chosen in EndpointsInit
  online,    \* per node: the online flag of the peer
  endpoint,  \* per node: the endpoint of the peer
  sel,       \* per node: where the selector of the peer is
  dialled,   \* per node: the stream the selector has just dialled
  inq,       \* per node: packets of the peer, with their paths, not yet handled
  handling,  \* per node: whether the inbound loop of the peer runs
  stream,    \* per stream: "none", "open" or "broken"
  dials,     \* per node: the streams it dialled
  reading,   \* per node: the streams its tasks read from
  derp,      \* per node: the relay server in derp_client_map
  serving,   \* per node: whether the relay's task still takes RequireReply
  asks,      \* per node: whether a RequireReply is on its way to it
  late       \* history: a stream was stored as endpoint after its reader ended

tcp == <<stream, dials, reading>>
relay == <<derp, serving, asks>>
endpointState == <<online, endpoint, sel, dialled, inq, handling, tcp, relay, late>>
endpointVars == <<setup, endpointState>>

First(n) == setup.first[n]

NoEndpoint == <<"none", 0>>
Udp == <<"udp", 0>>
Tcp(i) == <<"tcp", i>>
Relay == <<"relay", 0>>

EndpointsInit ==
  /\ setup \in Setups
  /\ online = [n \in Nodes |-> FALSE]
  /\ endpoint \in [Nodes -> {NoEndpoint, Udp}]
  /\ \A n \in Nodes : endpoint[n] = Udp => n \in setup.configured
  /\ sel = [n \in Nodes |-> "await"]
  /\ dialled = [n \in Nodes |-> 0]
  /\ inq = [n \in Nodes |-> <<>>]
  /\ handling = [n \in Nodes |-> TRUE]
  /\ stream = [i \in Streams |-> "none"]
  /\ dials = [n \in Nodes |-> {}]
  /\ reading = [n \in Nodes |-> {}]
  /\ derp = [n \in Nodes |-> "vacant"]
  /\ serving = [n \in Nodes |-> TRUE]
  /\ asks = [n \in Nodes |-> FALSE]
  /\ late = FALSE

\* Peer::update_endpoint
update_endpoint(n, e) ==
  /\ endpoint' = [endpoint EXCEPT ![n] = e]
  /\ late' = (late \/ (e[1] = "tcp" /\ e[2] \notin reading[n]))

-----------------------------------------------------------------------------
\* The server says that the peer entered or left.
SetOnline(n) ==
  /\ online' = [online EXCEPT ![n] = ~ @]
  /\ UNCHANGED <<endpoint, sel, dialled, inq, handling, tcp, relay, late>>

\* await_online
AwaitOnline(n) ==
  /\ sel[n] = "await" /\ online[n]
  /\ sel' = [sel EXCEPT ![n] = "check"]
  /\ UNCHANGED <<online, endpoint, dialled, inq, handling, tcp, relay, late>>

\* What is done when there is no endpoint; an unsupported transport is only
\* reported.
NextTransport(n) == IF First(n) = "none" THEN "relay"
                    ELSE IF First(n) = "other" THEN "tick"
                    ELSE "dial"

\* Mutant: the selector dials whether or not there is an endpoint.
Check_Always(n) ==
  /\ sel[n] = "check"
  /\ sel' = [sel EXCEPT ![n] = NextTransport(n)]
  /\ UNCHANGED <<online, endpoint, dialled, inq, handling, tcp, relay, late>>

\* The endpoint is looked at.
Check(n) ==
  /\ sel[n] = "check"
  /\ sel' = [sel EXCEPT ![n] = IF endpoint[n] # NoEndpoint THEN "tick" ELSE NextTransport(n)]
  /\ UNCHANGED <<online, endpoint, dialled, inq, handling, tcp, relay, late>>

\* interval.tick
Tick(n) ==
  /\ sel[n] = "tick"
  /\ sel' = [sel EXCEPT ![n] = "await"]
  /\ UNCHANGED <<online, endpoint, dialled, inq, handling, tcp, relay, late>>

\* NatUdpTransportClient::new and its endpoint
DialUdp(n) ==
  /\ sel[n] = "dial" /\ First(n) = "NatUdp"
  /\ update_endpoint(n, Udp)
  /\ sel' = [sel EXCEPT ![n] = "tick"]
  /\ UNCHANGED <<online, dialled, inq, handling, tcp, relay>>

\* No socket, or an address that does not parse: unwrap ends the selector.
DialUdpFails(n) ==
  /\ sel[n] = "dial" /\ First(n) = "NatUdp"
  /\ sel' = [sel EXCEPT ![n] = "dead"]
  /\ UNCHANGED <<online, endpoint, dialled, inq, handling, tcp, relay, late>>

Made == {i \in DOMAIN stream : stream[i] # "none"}

\* NatTcpTransportClient::spawn connects and starts its reader; the forwarder of
\* the other node accepts and starts another.
DialTcp(n) ==
  /\ sel[n] = "dial" /\ First(n) = "NatTcp"
  /\ LET i == Cardinality(Made) + 1 IN
       /\ i <= setup.streams
       /\ stream' = [stream EXCEPT ![i] = "open"]
       /\ dials' = [dials EXCEPT ![n] = @ \cup {i}]
       /\ reading' = [m \in Nodes |-> reading[m] \cup {i}]
       /\ dialled' = [dialled EXCEPT ![n] = i]
  /\ sel' = [sel EXCEPT ![n] = "set"]
  /\ UNCHANGED <<online, endpoint, inq, handling, relay, late>>

DialTcpFails(n) ==
  /\ sel[n] = "dial" /\ First(n) = "NatTcp"
  /\ sel' = [sel EXCEPT ![n] = "tick"]
  /\ UNCHANGED <<online, endpoint, dialled, inq, handling, tcp, relay, late>>

\* The selector stores the endpoint of the stream it dialled.
SetTcp(n) ==
  /\ sel[n] = "set"
  /\ update_endpoint(n, Tcp(dialled[n]))
  /\ sel' = [sel EXCEPT ![n] = "tick"]
  /\ UNCHANGED <<online, dialled, inq, handling, tcp, relay>>

-----------------------------------------------------------------------------
\* Streams and packets

StreamBreaks(i) ==
  /\ stream[i] = "open" /\ i < setup.streams
  /\ stream' = [stream EXCEPT ![i] = "broken"]
  /\ UNCHANGED <<online, endpoint, sel, dialled, inq, handling, dials, reading,
                 relay, late>>

\* Mutant: the reader leaves the endpoint as it is.
ReaderEnds_Silent(n, i) ==
  /\ i \in reading[n] /\ stream[i] = "broken"
  /\ reading' = [reading EXCEPT ![n] = @ \ {i}]
  /\ UNCHANGED <<online, endpoint, sel, dialled, inq, handling, stream, dials,
                 relay, late>>

\* The reader of a stream that broke ends.  At the node that dialled it clears
\* the endpoint, whatever the endpoint is; at the other only an event is sent.
ReaderEnds(n, i) ==
  /\ i \in reading[n] /\ stream[i] = "broken"
  /\ reading' = [reading EXCEPT ![n] = @ \ {i}]
  /\ endpoint' = IF i \in dials[n] THEN [endpoint EXCEPT ![n] = NoEndpoint]
                                   ELSE endpoint
  /\ UNCHANGED <<online, sel, dialled, inq, handling, stream, dials,
                 relay, late>>

\* Whether a packet sent to an endpoint gets to the other node.
Carries(n, e) == \/ e[1] = "tcp" /\ stream[e[2]] = "open"
                 \/ e[1] = "udp"
                 \/ e[1] = "relay" /\ derp[n] = "open" /\ derp[OtherNode(n)] = "open"

\* A packet arrives with the path back as its endpoint.
Arrives(n, kind, e) ==
  inq' = IF handling[n] THEN [inq EXCEPT ![n] = Append(@, <<kind, e>>)] ELSE inq

\* send_outbound: the initiation of a handshake, or data
SendOutbound(n, kind) ==
  /\ Carries(n, endpoint[n])
  /\ Len(inq[OtherNode(n)]) < MaxQueue
  /\ Arrives(OtherNode(n), kind, endpoint[n])
  /\ UNCHANGED <<online, endpoint, sel, dialled, handling, tcp, relay, late>>

\* The inbound loop handles data or the response to a handshake.
HandleData(n) ==
  /\ inq[n] # <<>> /\ Head(inq[n])[1] = "data"
  /\ inq' = [inq EXCEPT ![n] = Tail(@)]
  /\ update_endpoint(n, Head(inq[n])[2])
  /\ UNCHANGED <<online, sel, dialled, handling, tcp, relay>>

\* handle_handshake_initiation sends the response by the path of the initiation
\* (what it does at the other node is left to the data that follows); a send
\* that fails ends the inbound loop, as a write to a broken stream may.
HandleInitiation(n) ==
  /\ inq[n] # <<>> /\ Head(inq[n])[1] = "initiation"
  /\ LET e == Head(inq[n])[2] IN
       /\ update_endpoint(n, e)
       /\ \E sent \in BOOLEAN :
            /\ sent \/ (e[1] = "tcp" /\ ~ Carries(n, e))
            /\ handling' = [handling EXCEPT ![n] = sent]
            /\ inq' = [inq EXCEPT ![n] = IF sent THEN Tail(@) ELSE <<>>]
  /\ UNCHANGED <<online, sel, dialled, tcp, relay>>

-----------------------------------------------------------------------------
\* The relay

\* connect_derp_server with a server that is in the map: its sender becomes the
\* endpoint, also when its connection has ended.
Occupied(n) ==
  /\ derp[n] # "vacant"
  /\ update_endpoint(n, Relay)
  /\ UNCHANGED derp

\* With a server that is not: it is connected to and inserted, or it is not; the
\* endpoint stays as it is.
Vacant(n) ==
  /\ derp[n] = "vacant"
  /\ \E r \in {"vacant", "open"} : derp' = [derp EXCEPT ![n] = r]
  /\ UNCHANGED <<endpoint, late>>

connect_derp_server(n) == Occupied(n) \/ Vacant(n)

\* require_reply: connect, then ask the other node, whatever came of it
require_reply(n) ==
  /\ sel[n] = "relay"
  /\ connect_derp_server(n)
  /\ sel' = [sel EXCEPT ![n] = "ask"]
  /\ UNCHANGED <<online, dialled, inq, handling, tcp, serving, asks>>

\* forward_to; the request may be lost on its way through the server.
Forward(n) ==
  /\ sel[n] = "ask"
  /\ \E arrives \in BOOLEAN : asks' = [asks EXCEPT ![OtherNode(n)] = @ \/ arrives]
  /\ sel' = [sel EXCEPT ![n] = "tick"]
  /\ UNCHANGED <<online, endpoint, dialled, inq, handling, tcp,
                 derp, serving, late>>

\* The relay's task takes a RequireReply.
Asked(n) ==
  /\ serving[n] /\ asks[n]
  /\ connect_derp_server(n)
  /\ asks' = [asks EXCEPT ![n] = FALSE]
  /\ UNCHANGED <<online, sel, dialled, inq, handling, tcp, serving>>

\* The task is behind by more messages than the channel holds: it ends.
Lags(n) ==
  /\ "lag" \in setup.faults[n]
  /\ serving[n]
  /\ serving' = [serving EXCEPT ![n] = FALSE]
  /\ UNCHANGED <<online, endpoint, sel, dialled, inq, handling, tcp,
                 derp, asks, late>>

\* The connection to the relay server ends; the map and the endpoint stay.
RelayEnds(n) ==
  /\ "break" \in setup.faults[n]
  /\ derp[n] = "open"
  /\ derp' = [derp EXCEPT ![n] = "dead"]
  /\ UNCHANGED <<online, endpoint, sel, dialled, inq, handling, tcp,
                 serving, asks, late>>

Selector(n) ==
  \/ AwaitOnline(n) \/ Check(n) \/ Tick(n)
  \/ DialUdp(n) \/ DialUdpFails(n) \/ DialTcp(n) \/ DialTcpFails(n) \/ SetTcp(n)
  \/ require_reply(n) \/ Forward(n)

Inbound(n) == HandleData(n) \/ HandleInitiation(n)

EndpointsStep ==
  \/ \E n \in Nodes :
       \/ SetOnline(n) \/ Selector(n) \/ Inbound(n)
       \/ \E kind \in {"initiation", "data"} : SendOutbound(n, kind)
       \/ \E i \in Streams : ReaderEnds(n, i)
       \/ Asked(n) \/ Lags(n) \/ RelayEnds(n)
  \/ \E i \in Streams : StreamBreaks(i)

EndpointsNext == EndpointsStep /\ UNCHANGED setup

\* The tasks are scheduled, the handshake loop goes on sending, and neither a
\* connection nor a forwarded request fails every time.
EndpointsFairness ==
  \A n \in Nodes :
    /\ WF_endpointState(Selector(n)) /\ WF_endpointState(Inbound(n)) /\ WF_endpointState(Asked(n))
    /\ \A i \in Streams : WF_endpointState(ReaderEnds(n, i))
    /\ WF_endpointState(SendOutbound(n, "initiation"))
    /\ SF_endpointState(DialTcp(n))
    /\ SF_endpointState(require_reply(n) /\ derp'[n] # "vacant")

EndpointsSpec == EndpointsInit /\ [][EndpointsNext]_endpointVars /\ EndpointsFairness

-----------------------------------------------------------------------------
\* Properties

\* The ways a packet may come by: the streams among them were made.
Paths == {Udp, Relay} \cup {Tcp(i) : i \in Made}

EndpointsTypeOK ==
  /\ setup \in Setups
  /\ online \in [Nodes -> BOOLEAN] /\ handling \in [Nodes -> BOOLEAN]
  /\ endpoint \in [Nodes -> Paths \cup {NoEndpoint}]
  /\ sel \in [Nodes -> {"await", "check", "dial", "set", "relay", "ask", "tick",
                       "dead"}]
  /\ dialled \in [Nodes -> Made \cup {0}]
  /\ inq \in [Nodes -> Seq({"initiation", "data"} \X Paths)]
  /\ stream \in [Streams -> {"none", "open", "broken"}]
  /\ dials \in [Nodes -> SUBSET Made] /\ reading \in [Nodes -> SUBSET Made]

\* The streams a node dialled and still reads from.
Dialled(n) == reading[n] \cap dials[n]

\* A node reads from at most one stream it dialled to a peer: the selector dials
\* only when there is no endpoint, and there is one as long as the reader runs
\* (ext_transport_selector.rs:40, nat_tcp.rs:160).  A stream that is stored as the
\* endpoint, read from or came with a packet was made.
OneStream == EndpointsTypeOK /\ \A n \in Nodes : Cardinality(Dialled(n)) <= 1

\* A reader that ends, which clears the endpoint whatever it is (nat_tcp.rs:160),
\* never takes away a stream that the node dialled later.
ClearsNoNewer ==
  [][\A n \in Nodes, i \in DOMAIN stream :
       (/\ endpoint[n] = Tcp(i) /\ endpoint'[n] = NoEndpoint
        /\ i \in dials[n])
       => stream[i] = "broken"]_endpointVars

Live(n) == \/ endpoint[n][1] = "tcp" /\ stream[endpoint[n][2]] = "open"
           \/ endpoint[n][1] = "udp"
           \/ endpoint[n][1] = "relay" /\ derp[n] = "open"

\* If the peers stay online, streams stop breaking, no stream was stored as the
\* endpoint after its reader ended and no connection to a relay has broken, the
\* nodes come to have endpoints that work and keep them, unless a selector or an
\* inbound loop has panicked.
Heals ==
  (\A n \in Nodes : <>[](online[n]))
    => <>[](\/ late
            \/ \E n \in Nodes : ~ handling[n] \/ sel[n] = "dead" \/ derp[n] = "dead"
            \/ \A n \in Nodes : Live(n))

-----------------------------------------------------------------------------
\* What makes OneStream inductive.  Streams are made in order; as long as a node
\* reads from a stream it dialled, the stream's path or a later one is stored or
\* about to be, so that the selector does not dial; and the reader of a dialled
\* stream ends only when the stream is broken.
NodeInv(n) ==
  /\ \A i, j \in Dialled(n) : i = j
  /\ sel[n] = "set" => dialled[n] \in dials[n] /\ Dialled(n) \subseteq {dialled[n]}
  /\ sel[n] = "dial" => Dialled(n) = {}
  /\ Dialled(n) # {} => endpoint[n] # NoEndpoint \/ sel[n] = "set"
  /\ \A i \in dials[n] \ reading[n] : stream[i] = "broken"

EndpointsInv ==
  /\ EndpointsTypeOK
  /\ \E k \in 0 .. MaxStreams : Made = 1 .. k
  /\ \A n \in Nodes : NodeInv(n)
=============================================================================
