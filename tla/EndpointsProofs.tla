--------------------------- MODULE EndpointsProofs ---------------------------
(***************************************************************************)
(* Theorems about the endpoints, for any nodes, any of the set-ups and any *)
(* number of streams: a node reads only the stream it would write to, and  *)
(* a reader that ends clears nobody's stream but its own.  Then about the  *)
(* connections to a relay server, for any number of calls, connections and *)
(* packets: calls for one server share a connection.                       *)
(***************************************************************************)
EXTENDS Endpoints, DerpClient, FiniteSetTheorems, TLAPS

\* Streams are numbered in the order they are made.
LEMMA FreshStream ==
  ASSUME EndpointsInv
  PROVE  /\ Cardinality(Made) + 1 \in Nat \ {0} /\ Cardinality(Made) + 1 \notin Made
         /\ Made \cup {Cardinality(Made) + 1} = 1 .. (Cardinality(Made) + 1)
         /\ Made \subseteq Nat \ {0}
<1>1. PICK k \in 0 .. MaxStreams : Made = 1 .. k
  BY Zenon DEF EndpointsInv
<1>2. k \in Nat
  BY <1>1, EndpointsAssumption
<1>3. Cardinality(1 .. k) = k
  BY <1>2, FS_Interval
<1>4. Cardinality(Made) = k
  BY <1>1, <1>3, Zenon
<1>5. QED
  BY <1>1, <1>2, <1>4

\* Paths are pairwise different, and none of them is NoEndpoint.
LEMMA PathKinds ==
  /\ NoEndpoint \notin Paths
  /\ \A i \in Made : Tcp(i) \in Paths /\ Tcp(i)[1] = "tcp" /\ Tcp(i)[2] = i
  /\ Udp \in Paths /\ Relay \in Paths /\ NoEndpoint[1] = "none"
BY Zenon DEF Paths, NoEndpoint, Udp, Relay, Tcp

\* Only streams that were made are used, also when another is made.
LEMMA MorePaths ==
  ASSUME Made \subseteq Made', NEW s \in Seq({"initiation", "data"} \X Paths)
  PROVE  Paths \subseteq Paths' /\ s \in Seq({"initiation", "data"} \X Paths')
<1>1. Paths \subseteq Paths'
  BY Zenon DEF Paths
<1>2. {"initiation", "data"} \X Paths \subseteq {"initiation", "data"} \X Paths'
  BY <1>1, Zenon
<1>3. QED
  BY <1>1, <1>2

\* A packet comes off the inbound queue.
LEMMA InboundTypes ==
  ASSUME NEW s \in Seq({"initiation", "data"} \X Paths), s # <<>>
  PROVE  Head(s)[2] \in Paths /\ Tail(s) \in Seq({"initiation", "data"} \X Paths)
<1>1. Head(s) \in {"initiation", "data"} \X Paths
  OBVIOUS
<1>2. QED
  BY <1>1

\* The variables keep their types while no stream is made.
LEMMA TypesKept ==
  ASSUME EndpointsTypeOK, stream' = stream, setup' = setup,
         online' \in [Nodes -> BOOLEAN], handling' \in [Nodes -> BOOLEAN],
         endpoint' \in [Nodes -> Paths \cup {NoEndpoint}],
         sel' \in [Nodes -> {"await", "check", "dial", "set", "relay", "ask", "tick", "dead"}],
         dialled' = dialled, inq' \in [Nodes -> Seq({"initiation", "data"} \X Paths)],
         dials' = dials, reading' \in [Nodes -> SUBSET Made]
  PROVE  EndpointsTypeOK' /\ Made' = Made
<1>1. Made' = Made
  BY Zenon DEF Made
<1>2. Paths' = Paths
  BY <1>1, Zenon DEF Paths
<1>3. QED
  BY <1>1, <1>2, Zenon DEF EndpointsTypeOK

\* What NodeInv says of a node depends on little.
LEMMA NodeFrame ==
  ASSUME NEW n, NodeInv(n), stream' = stream,
         reading'[n] = reading[n], dials'[n] = dials[n], dialled'[n] = dialled[n],
         sel'[n] = sel[n] \/ sel'[n] \notin {"dial", "set"},
         endpoint'[n] # NoEndpoint \/ (endpoint'[n] = endpoint[n] /\ (sel[n] = "set" => sel'[n] = "set"))
  PROVE  NodeInv(n)'
BY DEF NodeInv, Dialled

\* A step of one node that makes no stream and leaves the readers alone.
LEMMA NodeStep ==
  ASSUME EndpointsInv, NEW n \in Nodes, UNCHANGED <<setup, stream, dials, reading, dialled>>,
         online' \in [Nodes -> BOOLEAN], handling' \in [Nodes -> BOOLEAN],
         inq' \in [Nodes -> Seq({"initiation", "data"} \X Paths)],
         NEW s \in {"await", "check", "relay", "ask", "tick", "dead"},
         sel' = sel \/ sel' = [sel EXCEPT ![n] = s],
         NEW e \in Paths,
         endpoint' = endpoint \/ endpoint' = [endpoint EXCEPT ![n] = e],
         sel[n] = "set" => sel' = sel \/ endpoint' = [endpoint EXCEPT ![n] = e]
  PROVE  EndpointsInv'
<1>a. EndpointsTypeOK /\ (\A m \in Nodes : NodeInv(m))
  BY Zenon DEF EndpointsInv
<1>b. PICK k \in 0 .. MaxStreams : Made = 1 .. k
  BY Zenon DEF EndpointsInv
<1>c. /\ endpoint \in [Nodes -> Paths \cup {NoEndpoint}]
      /\ sel \in [Nodes -> {"await", "check", "dial", "set", "relay", "ask", "tick", "dead"}]
      /\ reading \in [Nodes -> SUBSET Made]
  BY <1>a, Zenon DEF EndpointsTypeOK
<1>1. endpoint' \in [Nodes -> Paths \cup {NoEndpoint}]
  BY <1>c, Zenon
<1>2. sel' \in [Nodes -> {"await", "check", "dial", "set", "relay", "ask", "tick", "dead"}]
  BY <1>c, Zenon
<1>3. reading' \in [Nodes -> SUBSET Made]
  BY <1>c, Zenon
<1>4. EndpointsTypeOK' /\ Made' = Made
  BY <1>a, <1>1, <1>2, <1>3, TypesKept, Zenon
<1>5. ASSUME NEW m \in Nodes PROVE NodeInv(m)'
  <2>1. sel'[m] = sel[m] \/ sel'[m] \notin {"dial", "set"}
    BY <1>c, Zenon
  <2>2. e # NoEndpoint
    BY PathKinds, Zenon
  <2>3. \/ endpoint'[m] # NoEndpoint
        \/ endpoint'[m] = endpoint[m] /\ (sel[m] = "set" => sel'[m] = "set")
    BY <1>c, <2>2, Zenon
  <2>4. QED
    BY <1>a, <2>1, <2>3, NodeFrame, Zenon
<1>6. QED
  BY <1>b, <1>4, <1>5, Zenon DEF EndpointsInv

\* The selector looks at the endpoint: it is about to dial only when there is
\* none, and then it reads from no stream it dialled.
LEMMA CheckStep ==
  ASSUME EndpointsInv, NEW n \in Nodes, Check(n), UNCHANGED setup
  PROVE  EndpointsInv'
<1>a. EndpointsTypeOK /\ (\A m \in Nodes : NodeInv(m))
  BY Zenon DEF EndpointsInv
<1>b. /\ UNCHANGED <<setup, online, endpoint, dialled, inq, handling, stream, dials, reading, derp, late>>
      /\ sel[n] = "check"
  BY Zenon DEF Check, tcp, relay
<1>c. /\ online' \in [Nodes -> BOOLEAN] /\ handling' \in [Nodes -> BOOLEAN]
      /\ inq' \in [Nodes -> Seq({"initiation", "data"} \X Paths)]
      /\ sel \in [Nodes -> {"await", "check", "dial", "set", "relay", "ask", "tick", "dead"}]
      /\ reading' \in [Nodes -> SUBSET Made] /\ endpoint' \in [Nodes -> Paths \cup {NoEndpoint}]
  BY <1>a, <1>b, Zenon DEF EndpointsTypeOK
<1>1. CASE sel' = [sel EXCEPT ![n] = "tick"]
  BY <1>b, <1>c, <1>1, NodeStep, PathKinds, Zenon
<1>2. CASE sel' = [sel EXCEPT ![n] = "relay"]
  BY <1>b, <1>c, <1>2, NodeStep, PathKinds, Zenon
<1>3. CASE sel' = [sel EXCEPT ![n] = "dial"] /\ endpoint[n] = NoEndpoint
  <2>1. sel' \in [Nodes -> {"await", "check", "dial", "set", "relay", "ask", "tick", "dead"}]
    BY <1>c, <1>3, Zenon
  <2>2. EndpointsTypeOK' /\ Made' = Made
    BY <1>a, <1>b, <1>c, <2>1, TypesKept, Zenon
  <2>3. ASSUME NEW m \in Nodes PROVE NodeInv(m)'
    <3>1. CASE m = n
      <4>1. Dialled(n) = {}
        BY <1>a, <1>b, <1>3, Zenon DEF NodeInv
      <4>2. Dialled(n)' = {} /\ sel'[n] = "dial"
        BY <4>1, <1>b, <1>c, <1>3, Zenon DEF Dialled
      <4>3. QED
        BY <3>1, <4>2, <1>a, <1>b, Zenon DEF NodeInv
    <3>2. CASE m # n
      BY <3>2, <1>a, <1>b, <1>c, <1>3, NodeFrame, Zenon
    <3>3. QED
      BY <3>1, <3>2, Zenon
  <2>4. QED
    BY <2>2, <2>3, Zenon DEF EndpointsInv
<1>4. QED
  BY <1>1, <1>2, <1>3, Zenon DEF Check, NextTransport

\* A stream is dialled: it is the only one the node dialled and reads from.
LEMMA DialStep ==
  ASSUME EndpointsInv, NEW n \in Nodes, DialTcp(n), UNCHANGED setup
  PROVE  EndpointsInv'
<1>a. EndpointsTypeOK /\ (\A m \in Nodes : NodeInv(m))
  BY Zenon DEF EndpointsInv
<1>b. /\ online \in [Nodes -> BOOLEAN] /\ handling \in [Nodes -> BOOLEAN]
      /\ endpoint \in [Nodes -> Paths \cup {NoEndpoint}] /\ setup \in Setups
      /\ sel \in [Nodes -> {"await", "check", "dial", "set", "relay", "ask", "tick", "dead"}]
      /\ dialled \in [Nodes -> Made \cup {0}]
      /\ inq \in [Nodes -> Seq({"initiation", "data"} \X Paths)]
      /\ stream \in [Streams -> {"none", "open", "broken"}]
      /\ dials \in [Nodes -> SUBSET Made] /\ reading \in [Nodes -> SUBSET Made]
  BY <1>a, Zenon DEF EndpointsTypeOK
<1> DEFINE i == Cardinality(Made) + 1
<1>c. /\ UNCHANGED <<online, endpoint, inq, handling>> /\ sel[n] = "dial" /\ i <= setup.streams
      /\ stream' = [stream EXCEPT ![i] = "open"]
      /\ dials' = [dials EXCEPT ![n] = @ \cup {i}]
      /\ reading' = [m \in Nodes |-> reading[m] \cup {i}]
      /\ dialled' = [dialled EXCEPT ![n] = i]
      /\ sel' = [sel EXCEPT ![n] = "set"]
  BY Zenon DEF DialTcp
<1>d. i \in Nat \ {0} /\ i \notin Made /\ Made \cup {i} = 1 .. i
  BY FreshStream, Zenon
<1> HIDE DEF i
<1>e. i \in Streams
  <2>1. setup.streams \in 0 .. MaxStreams
    BY <1>b, EndpointsAssumption, Zenon DEF Setup
  <2>2. QED
    BY <2>1, <1>c, <1>d, EndpointsAssumption DEF Streams
<1>1. Made' = Made \cup {i}
  BY <1>b, <1>c, <1>e, Zenon DEF Made
<1>2. Paths \subseteq Paths' /\ \A m \in Nodes : inq[m] \in Seq({"initiation", "data"} \X Paths')
  BY <1>b, <1>1, MorePaths, Zenon
<1>3. EndpointsTypeOK'
  <2>1. stream' \in [Streams -> {"none", "open", "broken"}]
    BY <1>b, <1>c, <1>e, Zenon
  <2>2. inq' \in [Nodes -> Seq({"initiation", "data"} \X Paths')]
    BY <1>b, <1>c, <1>2, Zenon
  <2>3. endpoint' \in [Nodes -> Paths' \cup {NoEndpoint}]
    BY <1>b, <1>c, <1>2, Zenon
  <2>4. dialled' \in [Nodes -> Made' \cup {0}]
    BY <1>b, <1>c, <1>1, Zenon
  <2>5. dials' \in [Nodes -> SUBSET Made'] /\ reading' \in [Nodes -> SUBSET Made']
    BY <1>b, <1>c, <1>1, Zenon
  <2>6. sel' \in [Nodes -> {"await", "check", "dial", "set", "relay", "ask", "tick", "dead"}]
    BY <1>b, <1>c, Zenon
  <2>7. QED
    BY <1>b, <1>c, <2>1, <2>2, <2>3, <2>4, <2>5, <2>6, Zenon DEF EndpointsTypeOK
<1>4. ASSUME NEW m \in Nodes PROVE NodeInv(m)'
  <2>1. \A j \in dials[m] \ reading[m] : stream'[j] = "broken"
    BY <1>a, <1>b, <1>c, <1>d, <1>e DEF NodeInv
  <2>2. CASE m = n
    <3>1. Dialled(n) = {}
      BY <1>a, <1>c, Zenon DEF NodeInv
    <3>2. Dialled(n)' = {i}
      BY <3>1, <1>b, <1>c, <1>d, Zenon DEF Dialled
    <3>3. sel'[n] = "set" /\ dialled'[n] = i /\ i \in dials'[n]
      BY <1>b, <1>c, Zenon
    <3>4. \A j \in dials'[n] \ reading'[n] : stream'[j] = "broken"
      BY <2>1, <2>2, <1>b, <1>c, Zenon
    <3>5. QED
      BY <2>2, <3>2, <3>3, <3>4, Zenon DEF NodeInv
  <2>3. CASE m # n
    <3>1. Dialled(m)' = Dialled(m)
      BY <2>3, <1>b, <1>c, <1>d, Zenon DEF Dialled
    <3>2. UNCHANGED <<sel[m], dialled[m], endpoint[m], dials[m]>>
      BY <2>3, <1>b, <1>c, Zenon
    <3>3. \A j \in dials'[m] \ reading'[m] : stream'[j] = "broken"
      BY <2>1, <3>2, <1>b, <1>c, Zenon
    <3>4. QED
      BY <3>1, <3>2, <3>3, <1>a, Zenon DEF NodeInv
  <2>4. QED
    BY <2>2, <2>3, Zenon
<1>5. \E k \in 0 .. MaxStreams : Made' = 1 .. k
  BY <1>1, <1>d, <1>e, EndpointsAssumption DEF Streams
<1>6. QED
  BY <1>3, <1>4, <1>5, Zenon DEF EndpointsInv

\* The endpoint of the stream the selector dialled is stored.
LEMMA SetStep ==
  ASSUME EndpointsInv, NEW n \in Nodes, SetTcp(n), UNCHANGED setup
  PROVE  EndpointsInv'
<1>1. /\ EndpointsTypeOK /\ NodeInv(n)
      /\ UNCHANGED <<online, dialled, inq, handling, stream, dials, reading>> /\ sel[n] = "set"
      /\ sel' = [sel EXCEPT ![n] = "tick"]
      /\ endpoint' = [endpoint EXCEPT ![n] = Tcp(dialled[n])]
  BY Zenon DEF EndpointsInv, SetTcp, update_endpoint, tcp
<1>2. dialled[n] \in Made
  BY <1>1, Zenon DEF NodeInv, EndpointsTypeOK
<1>3. Tcp(dialled[n]) \in Paths
  BY <1>2, PathKinds, Zenon
<1>4. /\ online' \in [Nodes -> BOOLEAN] /\ handling' \in [Nodes -> BOOLEAN]
      /\ inq' \in [Nodes -> Seq({"initiation", "data"} \X Paths)]
  BY <1>1, Zenon DEF EndpointsTypeOK
<1>5. QED
  BY <1>1, <1>3, <1>4, NodeStep, Zenon

\* The reader of a broken stream ends; no other dialled stream is read from.
LEMMA ReaderStep ==
  ASSUME EndpointsInv, NEW n \in Nodes, NEW i \in Streams, ReaderEnds(n, i), UNCHANGED setup
  PROVE  EndpointsInv'
<1>a. EndpointsTypeOK /\ (\A m \in Nodes : NodeInv(m))
  BY Zenon DEF EndpointsInv
<1>b. /\ UNCHANGED <<online, sel, dialled, inq, handling, stream, dials>>
      /\ i \in reading[n] /\ stream[i] = "broken"
      /\ reading' = [reading EXCEPT ![n] = @ \ {i}]
      /\ endpoint' = IF i \in dials[n] THEN [endpoint EXCEPT ![n] = NoEndpoint] ELSE endpoint
  BY Zenon DEF ReaderEnds
<1>c. /\ online \in [Nodes -> BOOLEAN] /\ handling \in [Nodes -> BOOLEAN]
      /\ inq \in [Nodes -> Seq({"initiation", "data"} \X Paths)]
      /\ endpoint \in [Nodes -> Paths \cup {NoEndpoint}]
      /\ sel \in [Nodes -> {"await", "check", "dial", "set", "relay", "ask", "tick", "dead"}]
      /\ reading \in [Nodes -> SUBSET Made]
  BY <1>a, Zenon DEF EndpointsTypeOK
<1>1. reading' \in [Nodes -> SUBSET Made] /\ endpoint' \in [Nodes -> Paths \cup {NoEndpoint}]
  BY <1>b, <1>c, Zenon
<1>2. EndpointsTypeOK' /\ Made' = Made
  BY <1>a, <1>b, <1>c, <1>1, TypesKept, Zenon
<1>3. ASSUME NEW m \in Nodes PROVE NodeInv(m)'
  <2>1. CASE m = n
    <3>1. Dialled(n)' = Dialled(n) \ {i}
      BY <1>b, <1>c, Zenon DEF Dialled
    <3>2. \A j \in dials'[n] \ reading'[n] : stream'[j] = "broken"
      BY <1>a, <1>b, <1>c DEF NodeInv
    <3>3. Dialled(n)' # {} => endpoint'[n] # NoEndpoint \/ sel'[n] = "set"
      <4>1. CASE i \in dials[n]
        BY <4>1, <3>1, <1>a, <1>b DEF NodeInv, Dialled
      <4>2. CASE i \notin dials[n]
        BY <4>2, <3>1, <1>a, <1>b, Zenon DEF NodeInv
      <4>3. QED
        BY <4>1, <4>2, Zenon
    <3>4. QED
      BY <2>1, <3>1, <3>2, <3>3, <1>a, <1>b DEF NodeInv
  <2>2. CASE m # n
    <3>1. reading'[m] = reading[m] /\ endpoint'[m] = endpoint[m]
      BY <2>2, <1>b, <1>c, Zenon
    <3>2. QED
      BY <3>1, <1>a, <1>b, NodeFrame, Zenon
  <2>3. QED
    BY <2>1, <2>2, Zenon
<1>4. QED
  BY <1>2, <1>3, Zenon DEF EndpointsInv

\* A stream breaks.
LEMMA BreakStep ==
  ASSUME EndpointsInv, NEW i \in Streams, StreamBreaks(i), UNCHANGED setup
  PROVE  EndpointsInv'
<1>a. EndpointsTypeOK /\ (\A m \in Nodes : NodeInv(m))
  BY Zenon DEF EndpointsInv
<1>b. /\ UNCHANGED <<online, endpoint, sel, dialled, inq, handling, dials, reading>>
      /\ stream[i] = "open" /\ stream' = [stream EXCEPT ![i] = "broken"]
  BY Zenon DEF StreamBreaks
<1>c. stream \in [Streams -> {"none", "open", "broken"}]
  BY <1>a, Zenon DEF EndpointsTypeOK
<1>1. Made' = Made
  BY <1>b, <1>c, Zenon DEF Made
<1>2. Paths' = Paths
  BY <1>1, Zenon DEF Paths
<1>3. stream' \in [Streams -> {"none", "open", "broken"}]
  BY <1>b, <1>c, Zenon
<1>4. EndpointsTypeOK'
  BY <1>a, <1>b, <1>1, <1>2, <1>3, Zenon DEF EndpointsTypeOK
<1>5. ASSUME NEW m \in Nodes PROVE NodeInv(m)'
  <2>1. \A j \in dials[m] \ reading[m] : stream'[j] = "broken"
    <3>1. \A j \in dials[m] \ reading[m] : stream[j] = "broken"
      BY <1>a, Zenon DEF NodeInv
    <3>2. dials[m] \subseteq Streams
      BY <1>a, <1>c, Zenon DEF EndpointsTypeOK, Made
    <3>3. QED
      BY <3>1, <3>2, <1>b, <1>c, Zenon
  <2>2. QED
    BY <2>1, <1>a, <1>b DEF NodeInv, Dialled
<1>6. QED
  BY <1>1, <1>4, <1>5, Zenon DEF EndpointsInv

\* A step of a selector.
LEMMA SelectorStep ==
  ASSUME EndpointsInv, NEW n \in Nodes, Selector(n), UNCHANGED setup
  PROVE  EndpointsInv'
<1>a. /\ online \in [Nodes -> BOOLEAN] /\ handling \in [Nodes -> BOOLEAN]
      /\ inq \in [Nodes -> Seq({"initiation", "data"} \X Paths)]
  BY Zenon DEF EndpointsInv, EndpointsTypeOK
<1>b. Udp \in Paths /\ Relay \in Paths
  BY PathKinds, Zenon
<1> USE DEF tcp, relay, update_endpoint
<1>1. CASE AwaitOnline(n)
  BY <1>1, <1>a, <1>b, NodeStep, Zenon DEF AwaitOnline
<1>2. CASE Check(n)
  BY <1>2, CheckStep, Zenon
<1>3. CASE Tick(n)
  BY <1>3, <1>a, <1>b, NodeStep, Zenon DEF Tick
<1>4. CASE DialUdp(n)
  BY <1>4, <1>a, <1>b, NodeStep, Zenon DEF DialUdp
<1>5. CASE DialUdpFails(n)
  BY <1>5, <1>a, <1>b, NodeStep, Zenon DEF DialUdpFails
<1>6. CASE DialTcp(n)
  BY <1>6, DialStep, Zenon
<1>7. CASE DialTcpFails(n)
  BY <1>7, <1>a, <1>b, NodeStep, Zenon DEF DialTcpFails
<1>8. CASE SetTcp(n)
  BY <1>8, SetStep, Zenon
<1>9. CASE require_reply(n)
  BY <1>9, <1>a, <1>b, NodeStep, Zenon DEF require_reply, connect_derp_server, Occupied, Vacant
<1>10. CASE Forward(n)
  BY <1>10, <1>a, <1>b, NodeStep, Zenon DEF Forward
<1>11. QED
  BY <1>1, <1>2, <1>3, <1>4, <1>5, <1>6, <1>7, <1>8, <1>9, <1>10, Zenon DEF Selector

\* A packet is sent, or handled.
LEMMA PacketStep ==
  ASSUME EndpointsInv, NEW n \in Nodes, UNCHANGED setup,
         Inbound(n) \/ (\E kind \in {"initiation", "data"} : SendOutbound(n, kind))
  PROVE  EndpointsInv'
<1>a. /\ online \in [Nodes -> BOOLEAN] /\ handling \in [Nodes -> BOOLEAN]
      /\ inq \in [Nodes -> Seq({"initiation", "data"} \X Paths)]
      /\ endpoint \in [Nodes -> Paths \cup {NoEndpoint}]
  BY Zenon DEF EndpointsInv, EndpointsTypeOK
<1>b. Udp \in Paths
  BY PathKinds, Zenon
<1>1. CASE HandleData(n)
  <2>1. Head(inq[n])[2] \in Paths /\ Tail(inq[n]) \in Seq({"initiation", "data"} \X Paths)
    BY <1>1, <1>a, InboundTypes, Zenon DEF HandleData
  <2>2. inq' \in [Nodes -> Seq({"initiation", "data"} \X Paths)]
    BY <1>1, <1>a, <2>1, Zenon DEF HandleData
  <2>3. QED
    BY <1>1, <1>a, <2>1, <2>2, NodeStep, Zenon DEF HandleData, update_endpoint, tcp
<1>2. CASE HandleInitiation(n)
  <2>1. Head(inq[n])[2] \in Paths /\ Tail(inq[n]) \in Seq({"initiation", "data"} \X Paths)
    BY <1>2, <1>a, InboundTypes, Zenon DEF HandleInitiation
  <2>2. PICK sent \in BOOLEAN :
          /\ handling' = [handling EXCEPT ![n] = sent]
          /\ inq' = [inq EXCEPT ![n] = IF sent THEN Tail(@) ELSE <<>>]
    BY <1>2, Zenon DEF HandleInitiation
  <2>3. inq' \in [Nodes -> Seq({"initiation", "data"} \X Paths)]
    BY <1>a, <2>1, <2>2
  <2>4. handling' \in [Nodes -> BOOLEAN]
    BY <1>a, <2>2, Zenon
  <2>5. QED
    BY <1>2, <1>a, <2>1, <2>3, <2>4, NodeStep, Zenon DEF HandleInitiation, update_endpoint, tcp
<1>3. ASSUME NEW kind \in {"initiation", "data"}, SendOutbound(n, kind) PROVE EndpointsInv'
  <2>1. endpoint[n] \in Paths
    BY <1>3, <1>a, PathKinds, Zenon DEF SendOutbound, Carries
  <2>2. <<kind, endpoint[n]>> \in {"initiation", "data"} \X Paths
    BY <2>1, Zenon
  <2>3. inq' \in [Nodes -> Seq({"initiation", "data"} \X Paths)]
    <3> DEFINE m == OtherNode(n)
               q == Append(inq[m], <<kind, endpoint[n]>>)
    <3>1. inq' = inq \/ inq' = [inq EXCEPT ![m] = q]
      BY <1>3, Zenon DEF SendOutbound, Arrives
    <3>2. m \in Nodes => q \in Seq({"initiation", "data"} \X Paths)
      BY <1>a, <2>2
    <3> HIDE DEF m, q
    <3>3. QED
      BY <1>a, <3>1, <3>2, Zenon
  <2>4. QED
    BY <1>3, <1>a, <1>b, <2>3, NodeStep, Zenon DEF SendOutbound, tcp
<1>4. QED
  BY <1>1, <1>2, <1>3, Zenon DEF Inbound

\* Every step keeps the invariant.
LEMMA EndpointsStepInv ==
  ASSUME EndpointsInv, [EndpointsNext]_endpointVars
  PROVE  EndpointsInv'
<1>a. /\ online \in [Nodes -> BOOLEAN] /\ handling \in [Nodes -> BOOLEAN]
      /\ inq \in [Nodes -> Seq({"initiation", "data"} \X Paths)]
  BY Zenon DEF EndpointsInv, EndpointsTypeOK
<1>b. Udp \in Paths /\ Relay \in Paths
  BY PathKinds, Zenon
<1>1. CASE UNCHANGED endpointVars
  BY <1>1 DEF endpointVars, endpointState, tcp, EndpointsInv, EndpointsTypeOK, NodeInv, Dialled,
              Made, Paths, Tcp
<1>2. CASE EndpointsNext
  <2>1. ASSUME NEW n \in Nodes, SetOnline(n) PROVE EndpointsInv'
    BY <2>1, <1>2, <1>a, <1>b, NodeStep, Zenon DEF EndpointsNext, SetOnline, tcp
  <2>2. ASSUME NEW n \in Nodes, Asked(n) PROVE EndpointsInv'
    BY <2>2, <1>2, <1>a, <1>b, NodeStep, Zenon
       DEF EndpointsNext, Asked, connect_derp_server, Occupied, Vacant, update_endpoint, tcp
  <2>3. ASSUME NEW n \in Nodes, Lags(n) \/ RelayEnds(n) PROVE EndpointsInv'
    BY <2>3, <1>2, <1>a, <1>b, NodeStep, Zenon DEF EndpointsNext, Lags, RelayEnds, tcp
  <2>4. QED
    BY <1>2, <2>1, <2>2, <2>3, SelectorStep, PacketStep, ReaderStep, BreakStep, Zenon
       DEF EndpointsNext, EndpointsStep
<1>3. QED
  BY <1>1, <1>2, Zenon

\* The invariant holds whatever the nodes are set up with and in whatever order
\* their tasks run.
THEOREM EndpointsInvariant == EndpointsSpec => []EndpointsInv
<1>1. ASSUME EndpointsInit PROVE EndpointsInv
  <2>1. Made = {}
    BY <1>1, Zenon DEF EndpointsInit, Made
  <2>2. Udp \in Paths
    BY PathKinds, Zenon
  <2>3. inq \in [Nodes -> Seq({"initiation", "data"} \X Paths)]
    BY <1>1 DEF EndpointsInit
  <2>4. EndpointsTypeOK
    BY <1>1, <2>1, <2>2, <2>3, Zenon DEF EndpointsInit, EndpointsTypeOK
  <2>5. Made = 1 .. 0 /\ 0 \in 0 .. MaxStreams
    BY <2>1, EndpointsAssumption
  <2>6. \A n \in Nodes : NodeInv(n)
    BY <1>1, Zenon DEF EndpointsInit, NodeInv, Dialled
  <2>7. QED
    BY <2>4, <2>5, <2>6, Zenon DEF EndpointsInv
<1>2. QED
  BY <1>1, EndpointsStepInv, PTL DEF EndpointsSpec

\* A node never reads from two streams it dialled to a peer
\* (ext_transport_selector.rs:40, nat_tcp.rs:160).
THEOREM ReadsOneStream == EndpointsSpec => []OneStream
<1>1. ASSUME EndpointsInv PROVE OneStream
  <2>1. ASSUME NEW n \in Nodes PROVE Cardinality(Dialled(n)) <= 1
    <3>1. \A i, j \in Dialled(n) : i = j
      BY <1>1, Zenon DEF EndpointsInv, NodeInv
    <3>2. CASE Dialled(n) = {}
      BY <3>2, FS_EmptySet
    <3>3. CASE \E i : Dialled(n) = {i}
      BY <3>3, FS_Singleton
    <3>4. QED
      BY <3>1, <3>2, <3>3, Zenon
  <2>2. QED
    BY <1>1, <2>1, Zenon DEF EndpointsInv, OneStream
<1>2. QED
  BY <1>1, EndpointsInvariant, PTL

\* What is stored as the endpoint is a path: only the reader of a dialled stream
\* clears it.
LEMMA OnlyReadersClear ==
  ASSUME EndpointsInv, EndpointsStep, NEW n \in Nodes,
         endpoint[n] # NoEndpoint, endpoint'[n] = NoEndpoint
  PROVE  \E i \in Streams : ReaderEnds(n, i) /\ i \in dials[n]
<1>a. /\ endpoint \in [Nodes -> Paths \cup {NoEndpoint}]
      /\ inq \in [Nodes -> Seq({"initiation", "data"} \X Paths)]
  BY Zenon DEF EndpointsInv, EndpointsTypeOK
<1>b. NoEndpoint \notin Paths /\ Udp \in Paths /\ Relay \in Paths
  BY PathKinds, Zenon
<1>c. ASSUME NEW m \in Nodes, NEW e, update_endpoint(m, e) PROVE e \notin Paths
  BY <1>a, <1>b, <1>c, Zenon DEF update_endpoint
<1>d. endpoint' # endpoint
  BY Zenon
<1>1. ASSUME NEW m \in Nodes, Selector(m) PROVE FALSE
  <2>1. Tcp(dialled[m]) # NoEndpoint
    BY Zenon DEF Tcp, NoEndpoint
  <2>2. CASE SetTcp(m)
    BY <2>1, <2>2, <1>a, Zenon DEF SetTcp, update_endpoint
  <2>3. CASE DialUdp(m)
    BY <2>3, <1>b, <1>c, Zenon DEF DialUdp
  <2>4. CASE require_reply(m)
    BY <2>4, <1>b, <1>c, <1>d, Zenon DEF require_reply, connect_derp_server, Occupied, Vacant
  <2>5. QED
    BY <1>1, <2>2, <2>3, <2>4, <1>d, Zenon
       DEF Selector, AwaitOnline, Check, Tick, DialUdpFails, DialTcp, DialTcpFails, Forward
<1>2. ASSUME NEW m \in Nodes, Inbound(m) PROVE FALSE
  <2>1. Head(inq[m])[2] \in Paths
    BY <1>2, <1>a, InboundTypes, Zenon DEF Inbound, HandleData, HandleInitiation
  <2>2. update_endpoint(m, Head(inq[m])[2])
    BY <1>2, Zenon DEF Inbound, HandleData, HandleInitiation
  <2>3. QED
    BY <2>1, <2>2, <1>c, Zenon
<1>3. ASSUME NEW m \in Nodes, Asked(m) PROVE FALSE
  BY <1>3, <1>b, <1>c, <1>d, Zenon DEF Asked, connect_derp_server, Occupied, Vacant
<1>4. PICK m \in Nodes, i \in Streams : ReaderEnds(m, i)
  BY <1>1, <1>2, <1>3, <1>d, Zenon
     DEF EndpointsStep, SetOnline, SendOutbound, Lags, RelayEnds, StreamBreaks
<1>5. m = n /\ i \in dials[n]
  BY <1>4, <1>a, Zenon DEF ReaderEnds
<1>6. QED
  BY <1>4, <1>5, Zenon

\* A reader that ends takes from the endpoint no stream its node dialled that still
\* works (nat_tcp.rs:160 clears the endpoint without looking at it).
THEOREM ReadersClearNoNewer == EndpointsSpec => ClearsNoNewer
<1>1. ASSUME EndpointsInv, [EndpointsNext]_endpointVars
      PROVE  [\A n \in Nodes, i \in DOMAIN stream :
                (/\ endpoint[n] = Tcp(i) /\ endpoint'[n] = NoEndpoint
                 /\ i \in dials[n])
                => stream[i] = "broken"]_endpointVars
  <2>1. ASSUME NEW n \in Nodes, NEW i \in DOMAIN stream, EndpointsNext,
               endpoint[n] = Tcp(i), endpoint'[n] = NoEndpoint, i \in dials[n]
        PROVE  stream[i] = "broken"
    <3>1. Tcp(i) # NoEndpoint
      BY Zenon DEF Tcp, NoEndpoint
    <3>2. PICK j \in Streams : ReaderEnds(n, j) /\ j \in dials[n]
      BY <1>1, <2>1, <3>1, OnlyReadersClear, Zenon DEF EndpointsNext
    <3>3. j \in Dialled(n) /\ stream[j] = "broken"
      BY <3>2, Zenon DEF ReaderEnds, Dialled
    <3>4. NodeInv(n)
      BY <1>1, Zenon DEF EndpointsInv
    <3>5. QED
      BY <2>1, <3>3, <3>4, Zenon DEF NodeInv, Dialled
  <2>2. QED
    BY <1>1, <2>1, Zenon
<1>2. QED
  BY <1>1, EndpointsInvariant, PTL DEF EndpointsSpec, ClearsNoNewer

-----------------------------------------------------------------------------
\* The connections to a relay server

\* Initially no connection was dialled.
LEMMA DerpStarts == DerpInit => DerpInv
<1> SUFFICES ASSUME DerpInit PROVE DerpInv
  BY Zenon
<1>1. /\ <<>> \in Seq(Frames) /\ <<>> \in Seq(Writes) /\ <<>> \in Seq({"ServerInfo", "RecvPacket"})
      /\ Len(<<>>) = 0 /\ <<>> \notin Greetings
  BY DEF Greetings
<1>2. DerpTypeOK
  BY <1>1, DerpAssumption DEF DerpInit, DerpTypeOK
<1>3. \A c \in Conns : ConnInv(c)
  BY <1>1, DerpAssumption DEF DerpInit, ConnInv, Conns
<1>4. QED
  BY <1>2, <1>3, DerpAssumption, Zenon DEF DerpInit, DerpInv

\* A connection on which nothing happens.
LEMMA ConnStill ==
  ASSUME DerpTypeOK, NEW c \in Conns, ConnInv(c), conn' \in Nat, conn' >= conn,
         entry' = entry \/ c # entry',
         reader'[c] = reader[c], reader[c] # "none" => entry' = entry,
         UNCHANGED <<toC[c], queue[c], toS[c], link[c], read[c]>>
  PROVE  ConnInv(c)'
<1>1. conn \in Nat /\ c \in Nat
  BY DerpAssumption DEF DerpTypeOK, Conns
<1>2. QED
  BY <1>1 DEF ConnInv, Greetings

\* Appending to a sequence that is not empty leaves its first element.
LEMMA AppendKeepsFirst ==
  ASSUME NEW S, NEW s \in Seq(S), NEW e \in S
  PROVE  /\ Append(s, e) \in Seq(S) /\ Append(s, e) # <<>> /\ Len(Append(s, e)) = Len(s) + 1
         /\ s # <<>> => Append(s, e)[1] = s[1]
         /\ s = <<>> => Append(s, e)[1] = e
OBVIOUS

\* Taking the first element.
LEMMA TakeFirst ==
  ASSUME NEW S, NEW s \in Seq(S), s # <<>>
  PROVE  /\ Head(s) \in S /\ Head(s) = s[1] /\ Tail(s) \in Seq(S)
         /\ Len(Tail(s)) = Len(s) - 1 /\ Len(s) \in Nat \ {0}
OBVIOUS

\* What the server says once it knows the client is no greeting.
LEMMA NotGreeting ==
  ASSUME NEW s \in Seq({"ServerInfo", "RecvPacket"})
  PROVE  s \notin Greetings
<1>1. s = <<>> \/ s[1] \in {"ServerInfo", "RecvPacket"}
  OBVIOUS
<1>2. /\ <<"Ws", "ServerKey">>[1] = "Ws" /\ <<"Ws", "ServerKey">> # <<>>
      /\ <<"ServerKey">>[1] = "ServerKey" /\ <<"ServerKey">> # <<>>
  BY Zenon
<1>3. QED
  BY <1>1, <1>2, Zenon DEF Greetings

\* Every step keeps the types.
LEMMA DerpTypes ==
  ASSUME DerpInv, [DerpNext]_derpVars
  PROVE  DerpTypeOK'
<1>a. DerpTypeOK /\ \A r \in Requests : req[r] = "shake" => conn \in Conns
  <2>1. DerpTypeOK /\ \A r \in Requests : req[r] = "shake" => conn > 0
    BY Zenon DEF DerpInv
  <2>2. conn > 0 => conn \in Conns
    BY <2>1, DerpAssumption DEF DerpTypeOK, Conns
  <2>3. QED
    BY <2>1, <2>2, Zenon
<1>b. conn \in Nat /\ entry \in Nat /\ (entry # 0 => entry \in Conns) /\ conn + 1 > conn
  BY <1>a, DerpAssumption DEF DerpTypeOK, Conns
<1>1. CASE UNCHANGED derpVars
  BY <1>1, <1>a, Zenon DEF DerpTypeOK, derpVars
<1>2. ASSUME NEW r \in Requests, Ask(r) PROVE DerpTypeOK'
  BY <1>2, <1>a, Zenon DEF DerpTypeOK, Ask
<1>3. ASSUME NEW r \in Requests, Lock(r) PROVE DerpTypeOK'
  BY <1>3, <1>a, Zenon DEF DerpTypeOK, Lock
<1>4. ASSUME NEW r \in Requests, Dial(r) PROVE DerpTypeOK'
  <2>1. conn' \in 1 .. MaxConns /\ entry \in 0 .. conn'
    BY <1>4, <1>a, <1>b, DerpAssumption DEF Dial, DerpTypeOK
  <2>2. <<"Ws", "ServerKey">> \in Seq(Frames)
    BY DEF Frames
  <2>3. toC' \in [Conns -> Seq(Frames)]
    BY <1>4, <2>1, <2>2, <1>a, Zenon DEF Dial, DerpTypeOK
  <2>4. QED
    BY <1>4, <2>1, <2>3, <1>a DEF Dial, DerpTypeOK
<1>5. ASSUME NEW r \in Requests, DialFails(r) PROVE DerpTypeOK'
  BY <1>5, <1>a, Zenon DEF DerpTypeOK, DialFails
<1>6. ASSUME NEW r \in Requests, await_handshake(r) PROVE DerpTypeOK'
  <2>1. conn \in Conns /\ toC[conn] \in Seq(Frames) /\ queue[conn] \in Seq(Writes)
    BY <1>6, <1>a, Zenon DEF await_handshake, DerpTypeOK
  <2>2. Tail(toC[conn]) \in Seq(Frames)
    BY <1>6, <2>1, TakeFirst, Zenon DEF await_handshake
  <2>3. Append(queue[conn], "ClientInfo") \in Seq(Writes)
    BY <2>1, AppendKeepsFirst, Zenon DEF Writes
  <2>4. toC' \in [Conns -> Seq(Frames)]
    BY <1>6, <2>1, <2>2, <1>a, Zenon DEF await_handshake, DerpTypeOK
  <2>9. /\ queue' \in {queue, [queue EXCEPT ![conn] = Append(@, "ClientInfo")]}
        /\ entry' \in {entry, conn} /\ lock' \in {lock, NoOne}
    BY <1>6, Zenon DEF await_handshake, Connected
  <2>5. queue' \in [Conns -> Seq(Writes)]
    BY <2>1, <2>3, <2>9, <1>a, ZenonT(30) DEF DerpTypeOK
  <2>6. entry' \in 0 .. conn /\ lock' \in Requests \cup {NoOne}
    BY <2>9, <1>a, <1>b DEF DerpTypeOK
  <2>7. /\ req' \in [Requests -> {"idle", "wait", "connect", "shake", "done", "failed"}]
        /\ reader' \in [Conns -> {"none", "run", "ended"}]
        /\ shaken' \in [Conns -> BOOLEAN] /\ keyed' \in [Conns -> BOOLEAN]
    BY <1>6, <2>1, <1>a, Zenon DEF await_handshake, Connected, DerpTypeOK
  <2>8. QED
    BY <1>6, <2>4, <2>5, <2>6, <2>7, <1>a, Zenon DEF await_handshake, DerpTypeOK
<1>7. ASSUME NEW r \in Requests, HandshakeEof(r) PROVE DerpTypeOK'
  BY <1>7, <1>a, <1>b DEF DerpTypeOK, HandshakeEof, Connected
<1>8. ASSUME NEW r \in Requests, HandshakeFails(r) PROVE DerpTypeOK'
  BY <1>8, <1>a, Zenon DEF DerpTypeOK, HandshakeFails
<1>9. ASSUME NEW c \in Conns, SinkSend(c) PROVE DerpTypeOK'
  <2>1. queue[c] \in Seq(Writes) /\ queue[c] # <<>> /\ toS[c] \in Seq(Writes)
    BY <1>9, <1>a, Zenon DEF DerpTypeOK, SinkSend
  <2>2. Head(queue[c]) \in Writes /\ Tail(queue[c]) \in Seq(Writes) /\ <<>> \in Seq(Writes)
    BY <2>1, TakeFirst
  <2>3. Append(toS[c], Head(queue[c])) \in Seq(Writes)
    BY <2>1, <2>2, AppendKeepsFirst, Zenon
  <2>4. toS' \in [Conns -> Seq(Writes)] /\ queue' \in [Conns -> Seq(Writes)]
    BY <1>9, <2>2, <2>3, <1>a DEF DerpTypeOK, SinkSend
  <2>5. QED
    BY <1>9, <2>4, <1>a, Zenon DEF DerpTypeOK, SinkSend
<1>10. ASSUME SendPacket PROVE DerpTypeOK'
  <2>1. entry \in Conns /\ queue[entry] \in Seq(Writes) /\ packets[entry] + 1 \in 0 .. MaxPackets
    BY <1>10, <1>a, <1>b, DerpAssumption DEF DerpTypeOK, SendPacket
  <2>2. Append(queue[entry], "Packet") \in Seq(Writes)
    BY <2>1, AppendKeepsFirst, Zenon DEF Writes
  <2>3. queue' \in [Conns -> Seq(Writes)]
    BY <1>10, <2>2, <1>a, Zenon DEF DerpTypeOK, SendPacket
  <2>4. packets' \in [Conns -> 0 .. MaxPackets]
    BY <1>10, <2>1, <1>a, Zenon DEF DerpTypeOK, SendPacket
  <2>5. QED
    BY <1>10, <2>3, <2>4, <1>a, Zenon DEF DerpTypeOK, SendPacket
<1>11. ASSUME NEW c \in Conns, Read(c) PROVE DerpTypeOK'
  <2>1. toC[c] # <<>> => Tail(toC[c]) \in Seq(Frames)
    BY <1>a, TakeFirst, Zenon DEF DerpTypeOK
  <2>2. toC' \in [Conns -> Seq(Frames)]
    BY <1>11, <2>1, <1>a, Zenon DEF DerpTypeOK, Read
  <2>3. QED
    BY <1>11, <2>2, <1>a, Zenon DEF DerpTypeOK, Read
<1>12. ASSUME NEW c \in Conns, Server(c) PROVE DerpTypeOK'
  <2>1. toC[c] \in Seq(Frames) /\ read[c] + 1 \in Nat
    BY <1>a DEF DerpTypeOK
  <2>2. /\ Append(toC[c], "ServerInfo") \in Seq(Frames)
        /\ Append(toC[c], "RecvPacket") \in Seq(Frames)
    BY <2>1, AppendKeepsFirst, Zenon DEF Frames
  <2>3. toC' \in [Conns -> Seq(Frames)]
    BY <1>12, <2>2, <1>a, Zenon DEF DerpTypeOK, Server
  <2>4. read' \in [Conns -> Nat]
    BY <1>12, <2>1, <1>a, Zenon DEF DerpTypeOK, Server
  <2>5. QED
    BY <1>12, <2>3, <2>4, <1>a, Zenon DEF DerpTypeOK, Server
<1>13. ASSUME NEW c \in Conns, Break(c) PROVE DerpTypeOK'
  <2>1. <<>> \in Seq(Frames)
    OBVIOUS
  <2>2. toC' \in [Conns -> Seq(Frames)]
    BY <1>13, <2>1, <1>a, Zenon DEF DerpTypeOK, Break
  <2>3. QED
    BY <1>13, <2>2, <1>a, Zenon DEF DerpTypeOK, Break
<1>14. QED
  BY <1>1, <1>2, <1>3, <1>4, <1>5, <1>6, <1>7, <1>8, <1>9, <1>10, <1>11, <1>12, <1>13, Zenon
     DEF DerpNext, Shakes

\* What holds of the lock, the entry and the calls.
LockInv ==
  /\ \A r \in Requests : req[r] \in {"connect", "shake"} <=> lock = r
  /\ entry # 0 => lock = NoOne
  /\ \A r \in Requests : req[r] = "shake" => conn > 0

\* Every step keeps it: a call that gets the lock with no entry in the map holds
\* it until it has made one or failed.
LEMMA DerpLock ==
  ASSUME DerpInv, [DerpNext]_derpVars
  PROVE  LockInv'
<1>a. DerpTypeOK /\ LockInv
  BY Zenon DEF DerpInv, LockInv
<1>b. conn \in Nat /\ req \in [Requests -> {"idle", "wait", "connect", "shake", "done", "failed"}]
  BY <1>a, DerpAssumption DEF DerpTypeOK
<1>1. CASE UNCHANGED <<lock, req, entry, conn>>
  BY <1>1, <1>a, Zenon DEF LockInv
<1>2. ASSUME NEW r \in Requests, Ask(r) PROVE LockInv'
  BY <1>2, <1>a, <1>b, Zenon DEF LockInv, Ask
<1>3. ASSUME NEW r \in Requests, Lock(r) PROVE LockInv'
  BY <1>3, <1>a, <1>b, DerpAssumption, Zenon DEF LockInv, Lock
<1>4. ASSUME NEW r \in Requests, Dial(r) PROVE LockInv'
  BY <1>4, <1>a, <1>b DEF LockInv, Dial
<1>5. ASSUME NEW r \in Requests, DialFails(r) PROVE LockInv'
  BY <1>5, <1>a, <1>b, DerpAssumption, Zenon DEF LockInv, DialFails
<1>6. ASSUME NEW r \in Requests, req[r] = "shake", Connected(r), UNCHANGED conn PROVE LockInv'
  BY <1>6, <1>a, <1>b, DerpAssumption, Zenon DEF LockInv, Connected
<1>7. ASSUME NEW r \in Requests, HandshakeFails(r) PROVE LockInv'
  BY <1>7, <1>a, <1>b, DerpAssumption, Zenon DEF LockInv, HandshakeFails
<1>8. ASSUME NEW r \in Requests, await_handshake(r) PROVE LockInv'
  BY <1>8, <1>1, <1>6, Zenon DEF await_handshake
<1>9. ASSUME NEW r \in Requests, HandshakeEof(r) PROVE LockInv'
  BY <1>9, <1>6, Zenon DEF HandshakeEof
<1>10. ASSUME NEW c \in Conns, SinkSend(c) \/ Read(c) \/ Server(c) \/ Break(c) PROVE LockInv'
  BY <1>10, <1>1, Zenon DEF SinkSend, Read, Server, Break
<1>11. CASE SendPacket
  BY <1>11, <1>1, Zenon DEF SendPacket
<1>12. CASE UNCHANGED derpVars
  BY <1>12, <1>1, Zenon DEF derpVars
<1>13. QED
  BY <1>2, <1>3, <1>4, <1>5, <1>7, <1>8, <1>9, <1>10, <1>11, <1>12, Zenon DEF DerpNext, Shakes

\* While a call shakes hands the map has no entry, so that nobody reads and no
\* endpoint sends.
LEMMA ShakesAlone ==
  ASSUME DerpInv, NEW r \in Requests, req[r] = "shake"
  PROVE  entry = 0 /\ conn \in Conns /\ \A c \in Conns : reader[c] = "none"
<1>1. lock = r /\ lock # NoOne
  BY DerpAssumption, Zenon DEF DerpInv
<1>2. entry = 0 /\ conn \in Conns
  BY <1>1, DerpAssumption DEF DerpInv, DerpTypeOK, Conns
<1>3. \A c \in Conns : c # 0
  BY DEF Conns
<1>4. QED
  BY <1>2, <1>3, Zenon DEF DerpInv, ConnInv

\* Every step keeps what holds of a connection.
LEMMA DerpConns ==
  ASSUME DerpInv, DerpTypeOK', [DerpNext]_derpVars
  PROVE  \A c \in Conns : ConnInv(c)'
<1> DEFINE Goal == \A c \in Conns : ConnInv(c)'
<1>a. DerpTypeOK /\ \A c \in Conns : ConnInv(c)
  BY Zenon DEF DerpInv
<1>b. conn \in Nat /\ conn' \in Nat /\ entry \in Nat /\ Conns \subseteq Nat \ {0}
      /\ (entry # 0 => entry \in Conns /\ entry <= conn)
  <2>1. conn \in 0 .. MaxConns /\ entry \in 0 .. conn /\ MaxConns \in Nat /\ conn' \in 0 .. MaxConns
    BY <1>a, DerpAssumption, Zenon DEF DerpTypeOK
  <2>2. QED
    BY <2>1 DEF Conns
<1>c. ASSUME UNCHANGED <<entry, conn, link, toC, queue, reader, toS, read>> PROVE Goal
  BY <1>a, <1>b, <1>c, ConnStill
\* Nothing happens on the other connections.
<1>d. ASSUME NEW c \in Conns, UNCHANGED <<entry, conn>>, ConnInv(c)',
             \A d \in Conns : d # c =>
               UNCHANGED <<toC[d], queue[d], toS[d], link[d], read[d], reader[d]>>
      PROVE  Goal
  <2>1. ASSUME NEW d \in Conns, d # c PROVE ConnInv(d)'
    BY <2>1, <1>a, <1>b, <1>d, ConnStill
  <2>2. QED
    BY <2>1, <1>d, Zenon
<1>1. CASE UNCHANGED derpVars
  BY <1>1, <1>c, Zenon DEF derpVars
<1>2. ASSUME NEW r \in Requests, Ask(r) \/ Lock(r) \/ DialFails(r) \/ HandshakeFails(r) PROVE Goal
  BY <1>2, <1>c, Zenon DEF Ask, Lock, DialFails, HandshakeFails
<1>4. ASSUME NEW r \in Requests, Dial(r) PROVE Goal
  <2>1. conn' = conn + 1 /\ conn' \in Conns /\ entry' = entry /\ entry # conn'
    BY <1>4, <1>b, DerpAssumption DEF Dial, Conns
  <2>2. ASSUME NEW d \in Conns, d # conn' PROVE ConnInv(d)'
    <3>1. UNCHANGED <<toC[d], queue[d], toS[d], link[d], read[d], reader[d]>>
      BY <1>4, <2>1, <2>2, <1>a DEF Dial, DerpTypeOK
    <3>2. QED
      BY <3>1, <2>1, <2>2, <1>a, <1>b, ConnStill
  <2>3. ConnInv(conn')
    BY <2>1, <1>a, Zenon
  <2>4. /\ queue[conn'] = <<>> /\ toS[conn'] = <<>> /\ read[conn'] = 0
    BY <2>1, <2>3, <1>b DEF ConnInv
  <2>5. ASSUME NEW d \in Conns, d = conn' PROVE ConnInv(d)'
    <3>1. /\ toC'[d] = <<"Ws", "ServerKey">> /\ queue'[d] = <<>> /\ toS'[d] = <<>> /\ read'[d] = 0
          /\ reader'[d] = reader[d]
      BY <1>4, <2>1, <2>4, <2>5, <1>a DEF Dial, DerpTypeOK
    <3>2. Len(<<>>) = 0 /\ d # entry' /\ reader[d] = "none" /\ ~(d > conn')
      BY <2>1, <2>5, <1>a, <1>b DEF ConnInv
    <3>3. QED
      BY <3>1, <3>2, DerpAssumption DEF ConnInv, Greetings
  <2>6. QED
    BY <2>2, <2>5, Zenon
<1>5. ASSUME NEW r \in Requests, req[r] = "shake", Connected(r),
             UNCHANGED <<conn, link, queue, toS, read>>,
             toC[conn] \notin Greetings, link[conn] = "up" => toS[conn] # <<>>,
             toC'[conn] \in Seq({"ServerInfo", "RecvPacket"}), toC[conn] = <<>> => toC'[conn] = <<>>,
             \A d \in Conns : d # conn => toC'[d] = toC[d]
      PROVE  Goal
  <2>1. entry = 0 /\ conn \in Conns /\ \A c \in Conns : reader[c] = "none"
    BY <1>5, ShakesAlone, Zenon
  <2>2. entry' = conn /\ \A d \in Conns : d # conn => reader'[d] = reader[d]
    BY <1>5, <1>a DEF Connected, DerpTypeOK
  <2>3. ASSUME NEW d \in Conns, d # conn PROVE ConnInv(d)'
    BY <2>1, <2>2, <2>3, <1>5, <1>a, <1>b, ConnStill
  <2>4. ConnInv(conn) /\ toC'[conn] \notin Greetings
    BY <2>1, <1>5, <1>a, NotGreeting, Zenon
  <2>5. ASSUME NEW d \in Conns, d = conn PROVE ConnInv(d)'
    BY <2>2, <2>4, <2>5, <1>5, <1>b, Zenon DEF ConnInv
  <2>6. QED
    BY <2>3, <2>5, Zenon
<1>6. ASSUME NEW r \in Requests, HandshakeEof(r) PROVE Goal
  <2>1. /\ req[r] = "shake" /\ toC[conn] = <<>> /\ link[conn] = "down" /\ Connected(r)
        /\ UNCHANGED <<conn, link, queue, toS, read, toC>>
    BY <1>6, Zenon DEF HandshakeEof
  <2>2. <<>> \notin Greetings /\ <<>> \in Seq({"ServerInfo", "RecvPacket"})
    BY DEF Greetings
  <2>3. QED
    BY <2>1, <2>2, <1>5, Zenon
<1>7. ASSUME NEW r \in Requests, await_handshake(r) PROVE Goal
  <2> DEFINE f == Head(toC[conn])
  <2>1. req[r] = "shake" /\ toC[conn] # <<>> /\ UNCHANGED <<conn, link, sink, toS, read>>
    BY <1>7, Zenon DEF await_handshake
  <2>2. entry = 0 /\ conn \in Conns /\ \A c \in Conns : reader[c] = "none"
    BY <2>1, ShakesAlone, Zenon
  <2>3. toC'[conn] = Tail(toC[conn]) /\ \A d \in Conns : d # conn => toC'[d] = toC[d]
    BY <1>7, <2>2, <1>a DEF await_handshake, DerpTypeOK
  <2>4. ConnInv(conn)
    BY <2>2, <1>a, Zenon
  <2>5. CASE toC[conn] = <<"Ws", "ServerKey">>
    <3>1. f = "Ws" /\ Tail(toC[conn]) = <<"ServerKey">>
      BY <2>5
    <3>2. UNCHANGED <<entry, reader, queue>>
      BY <1>7, <3>1, Zenon DEF await_handshake
    <3>3. ConnInv(conn)'
      BY <2>1, <2>3, <2>4, <2>5, <3>1, <3>2, Zenon DEF ConnInv, Greetings
    <3>4. QED
      BY <2>1, <2>2, <2>3, <3>2, <3>3, <1>d, Zenon
  <2>6. CASE toC[conn] = <<"ServerKey">>
    <3>1. f = "ServerKey" /\ Tail(toC[conn]) = <<>>
      BY <2>6
    <3>2. UNCHANGED <<entry, reader>> /\ queue' \in {queue, [queue EXCEPT ![conn] = Append(@, "ClientInfo")]}
      BY <1>7, <3>1, Zenon DEF await_handshake
    <3>3. queue[conn] = <<>> /\ toS[conn] = <<>>
      BY <2>4, <2>6, Zenon DEF ConnInv, Greetings
    <3>4. /\ queue'[conn] \in {<<>>, <<"ClientInfo">>}
          /\ \A d \in Conns : d # conn => queue'[d] = queue[d]
      BY <3>2, <3>3, <2>2, <1>a DEF DerpTypeOK
    <3>5. /\ <<>> \notin Greetings /\ <<>> \in Seq({"ServerInfo", "RecvPacket"})
          /\ Len(<<>>) = 0 /\ Len(<<"ClientInfo">>) = 1 /\ <<"ClientInfo">>[1] = "ClientInfo"
      BY DEF Greetings
    <3>6. Len(queue'[conn]) <= QueueSize
      <4>1. Len(queue'[conn]) \in {0, 1}
        BY <3>4, <3>5, Zenon
      <4>2. 0 <= QueueSize /\ 1 <= QueueSize
        BY DerpAssumption
      <4>3. QED
        BY <4>1, <4>2, Zenon
    <3>7. queue'[conn] # <<>> => queue'[conn][1] = "ClientInfo"
      BY <3>4, <3>5, Zenon
    <3>8. ConnInv(conn)'
      BY <2>1, <2>2, <2>3, <2>4, <3>1, <3>2, <3>3, <3>5, <3>6, <3>7, <1>b, Zenon DEF ConnInv
    <3>9. QED
      BY <2>1, <2>2, <2>3, <3>2, <3>4, <3>8, <1>d, Zenon
  <2>7. CASE toC[conn] \notin Greetings
    <3>1. toC[conn] \in Seq({"ServerInfo", "RecvPacket"}) /\ toS[conn] # <<>>
      BY <2>1, <2>4, <2>7, Zenon DEF ConnInv
    <3>2. f \in {"ServerInfo", "RecvPacket"} /\ Tail(toC[conn]) \in Seq({"ServerInfo", "RecvPacket"})
      BY <2>1, <3>1, TakeFirst, Zenon
    <3>3. CASE f = "ServerInfo"
      <4>1. Connected(r) /\ UNCHANGED queue
        BY <1>7, <3>3, Zenon DEF await_handshake
      <4>2. QED
        BY <2>1, <2>3, <2>7, <3>1, <3>2, <4>1, <1>5, Zenon
    <3>4. CASE f = "RecvPacket"
      <4>1. UNCHANGED <<entry, reader, queue>>
        BY <1>7, <3>4, Zenon DEF await_handshake
      <4>2. Tail(toC[conn]) \notin Greetings
        BY <3>2, NotGreeting, Zenon
      <4>3. ConnInv(conn)'
        BY <2>1, <2>3, <2>4, <3>1, <3>2, <4>1, <4>2, Zenon DEF ConnInv
      <4>4. QED
        BY <2>1, <2>2, <2>3, <4>1, <4>3, <1>d, Zenon
    <3>5. QED
      BY <3>2, <3>3, <3>4, Zenon
  <2>8. QED
    BY <2>5, <2>6, <2>7, Zenon DEF Greetings
<1>8. ASSUME NEW c \in Conns, SinkSend(c) PROVE Goal
  <2>1. /\ queue[c] # <<>> /\ UNCHANGED <<entry, conn, link, toC, reader, read>>
        /\ queue[c] \in Seq(Writes) /\ toS[c] \in Seq(Writes) /\ ConnInv(c)
    BY <1>8, <1>a, Zenon DEF SinkSend, DerpTypeOK
  <2>2. \A d \in Conns : d # c => queue'[d] = queue[d] /\ toS'[d] = toS[d]
    BY <1>8, <1>a, ZenonT(30) DEF SinkSend, DerpTypeOK
  <2>3. toC[c] \notin Greetings
    BY <2>1, Zenon DEF ConnInv
  <2>4. CASE link[c] = "up" /\ Encodable(c, Head(queue[c]))
    <3>1. toS'[c] = Append(toS[c], Head(queue[c])) /\ queue'[c] = Tail(queue[c])
      BY <1>8, <2>4, <1>a, Zenon DEF SinkSend, DerpTypeOK
    <3>2. /\ Head(queue[c]) \in Writes /\ Head(queue[c]) = queue[c][1]
          /\ Len(Tail(queue[c])) = Len(queue[c]) - 1 /\ Len(queue[c]) \in Nat
      BY <2>1, TakeFirst, Zenon
    <3>3. /\ toS'[c] # <<>> /\ Len(toS'[c]) = Len(toS[c]) + 1 /\ Len(toS[c]) \in Nat
          /\ toS[c] # <<>> => toS'[c][1] = toS[c][1]
          /\ toS[c] = <<>> => toS'[c][1] = Head(queue[c])
      BY <2>1, <3>1, <3>2, AppendKeepsFirst
    <3>4. toS'[c][1] = "ClientInfo"
      BY <2>1, <2>4, <3>2, <3>3, Zenon DEF ConnInv
    <3>5. Len(queue'[c]) <= QueueSize /\ read'[c] <= Len(toS'[c])
      BY <2>1, <3>1, <3>2, <3>3, <1>a, DerpAssumption DEF ConnInv, DerpTypeOK
    <3>6. ~(c > conn)
      BY <2>1, Zenon DEF ConnInv
    <3>7. ConnInv(c)'
      BY <2>1, <2>3, <3>3, <3>4, <3>5, <3>6, Zenon DEF ConnInv
    <3>8. QED
      BY <2>1, <2>2, <3>7, <1>d, Zenon
  <2>5. CASE ~(link[c] = "up" /\ Encodable(c, Head(queue[c])))
    <3>1. queue'[c] = <<>> /\ toS' = toS /\ Len(<<>>) = 0
      BY <1>8, <2>5, <1>a, Zenon DEF SinkSend, DerpTypeOK
    <3>2. ConnInv(c)'
      BY <2>1, <2>3, <3>1, DerpAssumption, SMTT(30) DEF ConnInv
    <3>3. QED
      BY <2>1, <2>2, <3>1, <3>2, <1>d, Zenon
  <2>6. QED
    BY <2>4, <2>5, Zenon
<1>9. ASSUME SendPacket PROVE Goal
  <2>1. entry \in Conns /\ UNCHANGED <<entry, conn, link, toC, reader, toS, read>>
    BY <1>9, <1>b, Zenon DEF SendPacket
  <2>2. ConnInv(entry) /\ queue[entry] \in Seq(Writes) /\ \A d \in Conns : d # entry => queue'[d] = queue[d]
    BY <1>9, <2>1, <1>a DEF SendPacket, DerpTypeOK
  <2>3. CASE queue' = queue
    BY <2>1, <2>3, <1>c, Zenon
  <2>4. CASE queue' # queue
    <3>1. queue'[entry] = Append(queue[entry], "Packet") /\ Len(queue[entry]) < QueueSize
      BY <1>9, <2>1, <2>4, <1>a, Zenon DEF SendPacket, DerpTypeOK
    <3>2. Len(queue'[entry]) <= QueueSize
      BY <2>2, <3>1, AppendKeepsFirst, DerpAssumption DEF Writes
    <3>3. toC[entry] \notin Greetings /\ ~(entry > conn)
      BY <2>1, <2>2, <1>b DEF ConnInv
    <3>4. ConnInv(entry)'
      BY <2>1, <2>2, <3>2, <3>3, Zenon DEF ConnInv
    <3>5. QED
      BY <2>1, <2>2, <3>4, <1>d, Zenon
  <2>5. QED
    BY <2>3, <2>4, Zenon
<1>10. ASSUME NEW c \in Conns, Read(c) PROVE Goal
  <2>1. /\ UNCHANGED <<entry, conn, link, queue, toS, read>> /\ ConnInv(c) /\ reader[c] = "run"
        /\ \A d \in Conns : d # c => toC'[d] = toC[d] /\ reader'[d] = reader[d]
    BY <1>10, <1>a, Zenon DEF Read, DerpTypeOK
  <2>2. c = entry /\ toC[c] \notin Greetings
    BY <2>1, Zenon DEF ConnInv
  <2>3. toC[c] \in Seq({"ServerInfo", "RecvPacket"})
    BY <2>1, <2>2, Zenon DEF ConnInv
  <2>4. CASE toC[c] # <<>> /\ toC'[c] = Tail(toC[c])
    <3>1. Tail(toC[c]) \in Seq({"ServerInfo", "RecvPacket"})
      BY <2>3, <2>4, TakeFirst, Zenon
    <3>2. Tail(toC[c]) \notin Greetings
      BY <3>1, NotGreeting, Zenon
    <3>3. ConnInv(c)'
      BY <2>1, <2>2, <2>4, <3>1, <3>2, <1>b, Zenon DEF ConnInv
    <3>4. QED
      BY <2>1, <3>3, <1>d, Zenon
  <2>5. CASE toC' = toC
    <3>1. ConnInv(c)'
      BY <2>1, <2>2, <2>5, Zenon DEF ConnInv
    <3>2. QED
      BY <2>1, <3>1, <1>d, Zenon
  <2>6. QED
    BY <1>10, <2>4, <2>5, <1>a, Zenon DEF Read, DerpTypeOK
<1>11. ASSUME NEW c \in Conns, Server(c) PROVE Goal
  <2>1. /\ UNCHANGED <<entry, conn, link, queue, toS, reader>> /\ ConnInv(c)
        /\ read[c] < Len(toS[c]) /\ toS[c] \in Seq(Writes) /\ read[c] \in Nat
        /\ read'[c] = read[c] + 1
        /\ \A d \in Conns : d # c => toC'[d] = toC[d] /\ read'[d] = read[d]
    BY <1>11, <1>a DEF Server, DerpTypeOK
  <2>2. toS[c] # <<>> /\ read'[c] <= Len(toS[c])
    BY <2>1
  <2>3. toC[c] \in Seq({"ServerInfo", "RecvPacket"}) /\ ~(c > conn)
    BY <2>1, <2>2, Zenon DEF ConnInv
  <2>4. \E m \in {"ServerInfo", "RecvPacket"} : toC'[c] = Append(toC[c], m)
    BY <1>11, <1>a, Zenon DEF Server, DerpTypeOK
  <2>5. toC'[c] \in Seq({"ServerInfo", "RecvPacket"})
    BY <2>3, <2>4, AppendKeepsFirst, Zenon
  <2>6. toC'[c] \notin Greetings
    BY <2>5, NotGreeting, Zenon
  <2>7. ConnInv(c)'
    BY <2>1, <2>2, <2>3, <2>5, <2>6, Zenon DEF ConnInv
  <2>8. QED
    BY <2>1, <2>7, <1>d, Zenon
<1>12. ASSUME NEW c \in Conns, Break(c) PROVE Goal
  <2>1. /\ UNCHANGED <<entry, conn, queue, toS, reader, read>> /\ ConnInv(c)
        /\ link'[c] = "down" /\ toC'[c] \in {toC[c], <<>>}
        /\ \A d \in Conns : d # c => toC'[d] = toC[d] /\ link'[d] = link[d]
    BY <1>12, <1>a DEF Break, DerpTypeOK
  <2>2. <<>> \notin Greetings /\ <<>> \in Seq({"ServerInfo", "RecvPacket"})
    BY DEF Greetings
  <2>3. ConnInv(c)'
    BY <2>1, <2>2, Zenon DEF ConnInv
  <2>4. QED
    BY <2>1, <2>3, <1>d, Zenon
<1>13. QED
  BY <1>1, <1>2, <1>4, <1>6, <1>7, <1>8, <1>9, <1>10, <1>11, <1>12, Zenon DEF DerpNext, Shakes

\* The invariant holds in every state.
THEOREM DerpInvariant == DerpSpec => []DerpInv
<1>1. DerpInv /\ [DerpNext]_derpVars => DerpInv'
  BY DerpTypes, DerpLock, DerpConns, Zenon DEF DerpInv, LockInv
<1>2. QED
  BY DerpStarts, <1>1, PTL DEF DerpSpec

\* Calls for one relay server share a connection, for any number of calls and
\* connections: connect_derp_server holds the lock of the map from the look-up to
\* the entry, and the server is introduced to before it gets a packet.
THEOREM CallsShareAConnection == DerpSpec => []OneConnection
<1>1. DerpInv => OneConnection
  <2> SUFFICES ASSUME DerpInv PROVE OneConnection
    BY Zenon
  <2> DEFINE Readers == {c \in Conns : reader[c] # "none"}
             Shaking == {r \in Requests : req[r] = "shake"}
  <2>1. Readers \subseteq {entry} /\ (entry = 0 => Readers = {})
    BY DEF DerpInv, ConnInv, Conns
  <2>2. Shaking \subseteq {lock} /\ (lock = NoOne => Shaking = {})
    BY DerpAssumption, Zenon DEF DerpInv
  <2>3. Readers = {} \/ Shaking = {}
    BY <2>1, <2>2, Zenon DEF DerpInv
  <2>4. /\ IsFiniteSet({entry}) /\ Cardinality({entry}) = 1
        /\ IsFiniteSet({lock}) /\ Cardinality({lock}) = 1
        /\ Cardinality({}) = 0
    BY FS_Singleton, FS_EmptySet, Zenon
  <2>5. Cardinality(Readers) \in Nat /\ Cardinality(Readers) <= 1
    BY <2>1, <2>4, FS_Subset, FS_CardinalityType
  <2>6. Cardinality(Shaking) \in Nat /\ Cardinality(Shaking) <= 1
    BY <2>2, <2>4, FS_Subset, FS_CardinalityType
  <2>7. Cardinality(Readers) + Cardinality(Shaking) <= 1
    <3>1. CASE Readers = {}
      <4>1. Cardinality(Readers) = 0
        BY <3>1, <2>4, Zenon
      <4>2. QED
        BY <4>1, <2>6
    <3>2. CASE Shaking = {}
      <4>1. Cardinality(Shaking) = 0
        BY <3>2, <2>4, Zenon
      <4>2. QED
        BY <4>1, <2>5
    <3>3. QED
      BY <3>1, <3>2, <2>3, Zenon
  <2>8. QED
    BY <2>7, Zenon DEF DerpInv, ConnInv, OneConnection, InfoFirst
<1>2. QED
  BY <1>1, DerpInvariant, PTL
=============================================================================
