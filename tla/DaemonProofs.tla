---------------------------- MODULE DaemonProofs ----------------------------
(***************************************************************************)
(* How a node starts and joins, proved for every value of the constants:   *)
(* what becomes of its key pair over any number of starts and crashes      *)
(* (Identity, its invariant IndInv), and what the daemon's side of the     *)
(* connection to the server keeps over any number of links (Daemon, its    *)
(* invariant DaemonInv).                                                   *)
(***************************************************************************)
EXTENDS Identity, DaemonLinkProofs

-----------------------------------------------------------------------------
\* Key pairs

\* Every step leaves the variables well-typed, and the steps of load_config to
\* clients.
LEMMA TypeStep ==
  ASSUME TypeOK, [Next]_vars
  PROVE  TypeOK'
<1> USE IdentityAssumption DEF TypeOK, Procs
<1>1. ASSUME NEW p \in Procs, Start(p) PROVE TypeOK'
  BY <1>1, Zenon DEF Start, To
<1>2. ASSUME NEW p \in Procs, Load(p) PROVE TypeOK'
  BY <1>2 DEF Load, To, Up, Unparsed
<1>3. ASSUME NEW p \in Procs, Create(p) PROVE TypeOK'
  BY <1>3, Zenon DEF Create, To
<1>4. ASSUME NEW p \in Procs, Write(p) PROVE TypeOK'
  BY <1>4 DEF Write, To, Up, Handed
<1>5. ASSUME NEW p \in Procs, Written(p) PROVE TypeOK'
  BY <1>5, Zenon DEF Written
<1>6. ASSUME NEW p \in Procs, Find(p) PROVE TypeOK'
  BY <1>6 DEF Find, To, Up
<1>7. ASSUME NEW p \in Procs, Insert(p) PROVE TypeOK'
  BY <1>7 DEF Insert, To, Up
<1>8. ASSUME NEW p \in Procs, Crash(p) PROVE TypeOK'
  BY <1>8, Zenon DEF Crash, To
<1>9. CASE UNCHANGED vars
  BY <1>9, Zenon DEF vars
<1> QED
  BY <1>1, <1>2, <1>3, <1>4, <1>5, <1>6, <1>7, <1>8, <1>9, Zenon DEF Next

\* A server comes up with the row it found, or with the first one.
LEMMA ServerStep ==
  ASSUME TypeOK, ServerInv, [Next]_vars
  PROVE  ServerInv'
<1> USE DEF TypeOK, Procs, ServerInv
<1>1. ASSUME NEW p \in Procs, Find(p) PROVE ServerInv'
  BY <1>1 DEF Find, To, Up
<1>2. ASSUME NEW p \in Procs, Insert(p) PROVE ServerInv'
  BY <1>2 DEF Insert, To, Up
<1>3. ASSUME NEW p \in Procs, Load(p) \/ Write(p) PROVE ServerInv'
  BY <1>3 DEF Load, Write, Up
<1>4. ASSUME NEW p \in Procs, Start(p) \/ Create(p) \/ Written(p) \/ Crash(p) PROVE ServerInv'
  BY <1>4, Zenon DEF Start, Create, Written, Crash
<1>5. CASE UNCHANGED vars
  BY <1>5, Zenon DEF vars
<1> QED
  BY <1>1, <1>2, <1>3, <1>4, <1>5, Zenon DEF Next

\* A client on its own: a step is one of the client c, or one of a server, which
\* leaves the file and what clients have used alone.
LEMMA ClientStep ==
  ASSUME TypeOK, ClientInv, [Next]_vars
  PROVE  ClientInv'
<1> SUFFICES ASSUME NEW c \in Clients, Clients = {c}
             PROVE  ClientInv'
  BY Zenon DEF ClientInv, Alone
<1> c \in Procs /\ c \notin Servers
  BY IdentityAssumption, Zenon DEF Procs
<1> DEFINE Inv ==
      /\ pending[c] # 0 => pc[c] = "up"
      /\ exists /\ file = 0 => cut \/ pc[c] = "write" \/ pending[c] # 0
      /\ pc[c] = "failed" => cut
      /\ ~ denied =>
           /\ ~ exists => used["client"] = {} /\ file = 0
           /\ pc[c] = "create" => ~ exists
           /\ pc[c] = "write" => exists /\ used["client"] = {} /\ file = 0
           /\ pending[c] # 0 => used["client"] = {pending[c]}
           /\ file # 0 => used["client"] \subseteq {file}
           /\ \A j, k \in used["client"] : j = k
<1>0. Inv
  BY Zenon DEF ClientInv, Alone
<1> SUFFICES Inv'
  BY Zenon DEF ClientInv, Alone
<1> USE <1>0 DEF TypeOK
<1>1. CASE Start(c)
  BY <1>1, Zenon DEF Start, To
<1>2. CASE Load(c)
  BY <1>2 DEF Load, To, Up, Unparsed
<1>3. CASE Create(c)
  BY <1>3, Zenon DEF Create, To
<1>4. CASE Write(c)
  <2>1. pc'[c] = "up" /\ pending'[c] = generated + 1 /\ generated + 1 # 0
    BY <1>4 DEF Write, To, Up, Handed
  <2>2. used'["client"] = used["client"] \cup {generated + 1}
    BY <1>4, Zenon DEF Write, Up
  <2>3. pc[c] = "write" /\ UNCHANGED <<exists, file, cut, denied>>
    BY <1>4, Zenon DEF Write
  <2>4. ~ denied => used["client"] = {} /\ file = 0
    BY <2>3, Zenon
  <2>5. ~ denied => exists
    BY <2>3, Zenon
  <2>6. ~ denied => used'["client"] = {pending'[c]}
    BY <2>1, <2>2, <2>4, Zenon
  <2> QED
    BY <2>1, <2>3, <2>4, <2>5, <2>6, Zenon
<1>5. CASE Written(c)
  BY <1>5, Zenon DEF Written
<1>6. CASE Crash(c)
  BY <1>6, Zenon DEF Crash, To
<1>7. ~ Find(c) /\ ~ Insert(c)
  BY Zenon DEF Find, Insert
<1>8. ASSUME NEW p \in Servers,
             Start(p) \/ Load(p) \/ Create(p) \/ Write(p) \/ Written(p) \/ Find(p)
               \/ Insert(p) \/ Crash(p)
      PROVE  Inv'
  <2>1. p \in Procs /\ p # c /\ p \notin Clients
    BY Zenon DEF Procs
  <2>2. pc'[c] = pc[c] /\ pending'[c] = pending[c] /\ used'["client"] = used["client"]
    BY <1>8, <2>1, Zenon DEF Start, Load, Create, Write, Written, Find, Insert, Crash, To, Up
  <2>3. exists' = exists /\ file' = file /\ denied' = denied /\ (cut => cut')
    BY <1>8, <2>1, Zenon DEF Start, Load, Create, Write, Written, Find, Insert, Crash, To, Up
  <2> QED
    BY <2>2, <2>3, Zenon
<1>9. CASE UNCHANGED vars
  BY <1>9, Zenon DEF vars
<1> QED
  BY <1>1, <1>2, <1>3, <1>4, <1>5, <1>6, <1>7, <1>8, <1>9, Zenon DEF Next, Procs

-----------------------------------------------------------------------------
\* The invariant behind the properties of load_config and VlinkServer::new: an
\* empty file is one being written or one that was cut, and the row is the key of
\* every server.
THEOREM IdentityInvariant == Spec => []IndInv
<1>1. Init => IndInv
  <2> SUFFICES ASSUME Init PROVE IndInv
    BY Zenon
  <2>1. used["client"] = {} /\ used["server"] = {}
    BY Zenon DEF Init
  <2>2. TypeOK
    BY IdentityAssumption, Zenon DEF Init, TypeOK, Procs
  <2>3. ClientInv
    BY <2>1, Zenon DEF Init, ClientInv, Procs
  <2>4. ServerInv
    BY <2>1, Zenon DEF ServerInv
  <2> QED
    BY <2>2, <2>3, <2>4, Zenon DEF IndInv
<1>2. IndInv /\ [Next]_vars => IndInv'
  BY TypeStep, ServerStep, ClientStep, Zenon DEF IndInv
<1> QED
  BY <1>1, <1>2, PTL DEF Spec

\* However many servers start at once on one database, they come up with one key;
\* crashes of load_config never give a client on its own a second key; and such a
\* client cannot start only after it was cut while it wrote its file.
THEOREM NodesKeepTheirKeys == Spec => []KeysAreKept
<1>1. IndInv => OneServerKey
  BY Zenon DEF IndInv, ServerInv, OneServerKey
<1>2. IndInv => OneClientKey
  BY Zenon DEF IndInv, TypeOK, ClientInv, OneClientKey, Alone
<1>3. IndInv => FailsOnlyWhenCut
  BY Zenon DEF IndInv, TypeOK, ClientInv, FailsOnlyWhenCut, Alone
<1> QED
  BY <1>1, <1>2, <1>3, IdentityInvariant, PTL DEF KeysAreKept

-----------------------------------------------------------------------------
\* The manager

\* A step that leaves the manager where it is and says nothing of the other peer.
LEMMA ManagerFrame ==
  ASSUME ManagerInv, UNCHANGED <<conn, man>>, wait'["man"] = wait["man"], held' \in {0, held},
         \A i \in Links : i <= conn => cid'[i] = cid[i],
         \A m \in Range(ctrl') :
           m \in Range(ctrl) \cup Range(hand) \/ m.say = "connected" \/ (m.say = "first" /\ conn # 0),
         \A m \in Range(bus') \cup Range(hand') : m \in Range(bus) \cup Range(hand),
         \A i \in Links : \A m \in Range(toC'[i]) : m \in Range(toC[i]) \/ m.say # "peer",
         \A i \in Links : \A m \in Range(toS'[i]) : m \in Range(toS[i]) \/ m.say # "enter"
  PROVE  ManagerInv'
<1>1. \A m \in Range(ctrl') : m.say = "first" => conn' # 0
  BY Zenon DEF ManagerInv
<1>2. \A m \in Range(bus') \cup Range(hand') : m.say \in {"info", "handshake", "config", "peer"}
  BY Zenon DEF ManagerInv
<1>3. ASSUME man' \in {"first", "ask"} PROVE \A i \in Links : i <= conn' => cid'[i] = 1
  BY <1>3, Zenon DEF ManagerInv
<1>4. ASSUME man' \in {"first", "ask", "config"}
      PROVE  /\ held' = 0
             /\ \A i \in Links : \A m \in Range(toC'[i]) : m.say # "peer"
             /\ \A i \in Links : \A m \in Range(toS'[i]) : m.say # "enter"
             /\ \A m \in Range(bus') \cup Range(hand') \cup Range(ctrl') : m.say # "peer"
  BY <1>4 DEF ManagerInv, Words, IsWord
<1>5. QED
  BY <1>1, <1>2, <1>3, <1>4 DEF ManagerInv, Words, IsWord

\* Until its device runs the manager hears nothing of the other peer but the
\* answer to its request.
LEMMA ManagerStep ==
  ASSUME DaemonInv, [DaemonNext]_daemonVars
  PROVE  ManagerInv'
<1>a. DaemonTypeOK /\ LoopInv /\ ReconnectInv /\ ManagerInv /\ \A j \in Links : LinkInv(j)
  BY Zenon DEF DaemonInv
<1>b. /\ made \in Nat /\ conn \in Nat /\ held \in 0 .. made /\ conn \in 0 .. made
      /\ cid \in [Links -> Nat] /\ sid \in [Links -> Nat]
      /\ toS \in [Links -> Seq(Msg)] /\ toC \in [Links -> Seq(Msg)]
      /\ bus \in Seq(Msg) /\ hand \in Seq(Msg) /\ ctrl \in Seq(Msg)
  BY <1>a, LinkNumbers, Zenon DEF DaemonTypeOK
<1>c. /\ wait \in [Tasks -> Waiting] /\ "rec" \in Tasks /\ "man" \in Tasks
      /\ wait["man"] \in Waiting
  BY <1>a, Zenon DEF DaemonTypeOK, Tasks
<1>d. man \in {"ask", "serve"} => conn \in Links
  BY <1>a, <1>b, LinkNumbers, Zenon DEF ManagerInv
<1> USE DEF client, manager, links, server, history
<1>1. CASE /\ UNCHANGED <<conn, man, held, cid, ctrl, bus, hand, toC, toS>>
           /\ wait'["man"] = wait["man"]
  BY <1>1, <1>a, ManagerFrame, Zenon
<1>2. CASE TakeLoop \/ EndLoop \/ AwaitEnd1 \/ AwaitEnd2 \/ ConnectFails \/ Connect \/ HandOver
  BY <1>1, <1>2, <1>c, Zenon DEF TakeLoop, EndLoop, AwaitEnd1, AwaitEnd2, ConnectFails, Connect,
     HandOver
<1>3. CASE Handshake
  <2>1. /\ Sends(made, "handshake") /\ rec = "info"
        /\ UNCHANGED <<conn, man, held, ctrl, bus, hand>>
    BY <1>3, Zenon DEF Handshake, Requests
  <2>2. wait'["man"] = wait["man"]
    BY <1>3, <1>c, Zenon DEF Handshake, Requests
  <2>3. made = conn + 1 /\ made \in Links
    BY <2>1, <1>a, <1>b, LinkNumbers DEF LoopInv
  <2>4. toC' = toC /\ \A i \in Links : i <= conn => cid'[i] = cid[i]
    <3>1. \A i \in Links : i <= conn => i # made
      BY <2>3, <1>b
    <3>2. QED
      BY <2>1, <2>3, <3>1, <1>a, SendsMessage
  <2>5. PICK m \in Msg :
          m.say = "handshake" /\ \A i \in Links : Range(toS'[i]) \subseteq Range(toS[i]) \cup {m}
    BY <2>1, <2>3, <1>a, SendsMessage, Zenon
  <2>6. QED
    BY <2>1, <2>2, <2>4, <2>5, <1>a, ManagerFrame, Zenon
<1>4. CASE GiveUp
  <2>1. /\ UNCHANGED <<conn, man, held, ctrl, cid, toC, toS>> /\ bus' = <<>> /\ hand' = <<>>
        /\ wait'["man"] = wait["man"]
    BY <1>4, <1>c, Zenon DEF GiveUp, StopClient
  <2>2. Range(bus') = {} /\ Range(hand') = {}
    BY <2>1, RangeEmpty, Zenon
  <2>3. QED
    BY <2>1, <2>2, <1>a, ManagerFrame, Zenon
<1>5. CASE Announce
  <2>1. /\ rec \in {"first", "connected"}
        /\ UNCHANGED <<conn, man, held, bus, hand, cid, wait, toC, toS>>
    BY <1>5, Zenon DEF Announce
  <2>2. PICK m \in Msg : m = Message(0, rec, FALSE)
    BY <2>1, MessageType, Zenon
  <2>3. m.say = rec /\ conn # 0
    BY <2>1, <2>2, <1>a, Zenon DEF Message, LoopInv
  <2>4. Range(ctrl') = Range(ctrl) \cup {m}
    BY <1>5, <2>2, <1>b, RangeOf, Zenon DEF Announce
  <2>5. QED
    BY <2>1, <2>3, <2>4, <1>a, ManagerFrame, Zenon
<1>6. CASE Store
  <2>1. rec = "shake" /\ conn' = made /\ UNCHANGED <<man, held, ctrl, bus, hand, cid, toC, toS>>
    BY <1>6, Zenon DEF Store
  <2>2. wait'["man"] = wait["man"]
    BY <1>6, <1>c, Zenon DEF Store
  <2>3. made = conn + 1 /\ cid[made] = 1 /\ made # 0
    <3>1. made = conn + 1
      BY <2>1, <1>a, Zenon DEF LoopInv
    <3>2. cid[made] = 1
      BY <2>1, <1>a, Zenon DEF ReconnectInv
    <3>3. QED
      BY <3>1, <3>2, <1>b
  <2>4. \A i \in Links : i <= made => i <= conn \/ i = made
    <3>1. \A i \in Links : i \in Nat
      BY <1>a, LinkNumbers, Zenon
    <3>2. QED
      BY <2>3, <3>1, <1>b
  <2>5. man \in {"first", "ask"} => \A i \in Links : i <= conn' => cid'[i] = 1
    BY <2>1, <2>3, <2>4, <1>a, Zenon DEF ManagerInv
  <2>6. conn' # 0
    BY <2>1, <2>3, Zenon
  <2>7. QED
    BY <2>1, <2>2, <2>5, <2>6, <1>a, Zenon DEF ManagerInv
<1>7. CASE ProcessTake
  <2>1. /\ bus # <<>> /\ hand' = <<Head(bus)>> /\ bus' = Tail(bus)
        /\ UNCHANGED <<conn, man, held, ctrl, cid, wait, toC, toS>>
    BY <1>7, Zenon DEF ProcessTake
  <2>2. Range(bus') \subseteq Range(bus) /\ Head(bus) \in Range(bus)
    BY <2>1, <1>b, RangeOf, WaitTypes, Zenon
  <2>3. Range(hand') = {Head(bus)}
    BY <2>1, RangeOne, Zenon
  <2>4. QED
    BY <2>1, <2>2, <2>3, <1>a, ManagerFrame, Zenon
<1>8. CASE ProcessForward
  <2>1. /\ hand # <<>> /\ hand' = <<>> /\ ctrl' = Append(ctrl, Head(hand))
        /\ UNCHANGED <<conn, man, held, bus, cid, wait, toC, toS>>
    BY <1>8, Zenon DEF ProcessForward
  <2>2. Head(hand) \in Range(hand) /\ Head(hand) \in Msg
    BY <2>1, <1>b, RangeOf, WaitTypes, Zenon
  <2>3. Range(ctrl') = Range(ctrl) \cup {Head(hand)} /\ Range(hand') = {}
    BY <2>1, <2>2, <1>b, RangeOf, RangeEmpty, Zenon
  <2>4. QED
    BY <2>1, <2>2, <2>3, <1>a, ManagerFrame, Zenon
<1>9. CASE AwaitFirst
  <2>1. /\ man = "first" /\ ctrl # <<>> /\ ctrl' = Tail(ctrl)
        /\ man' = IF Head(ctrl).say = "first" THEN "ask" ELSE "first"
        /\ UNCHANGED <<conn, held, bus, hand, cid, wait, toC, toS>>
    BY <1>9, Zenon DEF AwaitFirst
  <2>2. Range(ctrl') \subseteq Range(ctrl) /\ Head(ctrl) \in Range(ctrl)
    BY <2>1, <1>b, RangeOf, WaitTypes, Zenon
  <2>3. QED
    BY <2>1, <2>2, <1>a, Zenon DEF ManagerInv, Words
<1>10. CASE FirstTimeout \/ ConfigFails \/ ConnectedFails
  <2>1. man' = "over" /\ UNCHANGED <<conn, ctrl, bus, hand>>
    BY <1>10, Zenon DEF FirstTimeout, ConfigFails, ConnectedFails, Exit
  <2>2. QED
    BY <2>1, <1>a, Zenon DEF ManagerInv
<1>11. CASE AskConfig
  <2>1. /\ man = "ask" /\ man' = "config" /\ Sends(conn, "config") /\ conn \in Links
        /\ UNCHANGED <<conn, held, ctrl, bus, hand>>
    BY <1>11, <1>d, Zenon DEF AskConfig, Requests
  <2>2. cid[conn] = 1 /\ conn # 0
    BY <2>1, <1>a, <1>b DEF ManagerInv
  <2>3. wait'["man"] = [NoWait EXCEPT !.on = TRUE, !.id = 2, !.for = "config"]
    BY <1>11, <2>2, <1>c DEF AskConfig, Requests
  <2>4. /\ wait'["man"].on /\ wait'["man"].id = 2 /\ wait'["man"].for = "config"
        /\ wait'["man"].got = Nothing
    BY <2>3, Zenon DEF NoWait
  <2>5. PICK m \in Msg :
          m.say = "config" /\ \A i \in Links : Range(toS'[i]) \subseteq Range(toS[i]) \cup {m}
    BY <2>1, <1>a, SendsMessage, Zenon
  <2>6. toC' = toC
    BY <2>1, <1>a, SendsMessage, Zenon
  <2>7. QED
    BY <2>1, <2>2, <2>4, <2>5, <2>6, <1>a, Zenon DEF ManagerInv, Words
<1>12. CASE StartDevice
  <2>1. /\ man = "config" /\ man' = "serve" /\ wait'["man"] = NoWait
        /\ UNCHANGED <<conn, ctrl, bus, hand>>
    BY <1>12, <1>c, Zenon DEF StartDevice
  <2>2. QED
    BY <2>1, <1>a, Zenon DEF ManagerInv
<1>13. CASE ServeWord \/ ServeConnected
  <2>1. /\ man = "serve" /\ ctrl # <<>> /\ ctrl' = Tail(ctrl)
        /\ UNCHANGED <<conn, man, bus, hand, wait>>
    BY <1>13, Zenon DEF ServeWord, ServeConnected
  <2>2. Range(ctrl') \subseteq Range(ctrl)
    BY <2>1, <1>b, RangeOf, WaitTypes, Zenon
  <2>3. QED
    BY <2>1, <2>2, <1>a, Zenon DEF ManagerInv
<1>14. CASE Deliver
  <2>1. loop \in Links /\ UNCHANGED <<conn, man, held, ctrl, hand, cid, toS>>
    BY <1>14, <1>a, Delivers, Zenon DEF Deliver
  <2>2. PICK m \in Msg :
          /\ m \in Range(toC[loop]) /\ Range(bus') \subseteq Range(bus) \cup {m}
          /\ wait'["man"] = IF Hears(wait["man"], m) THEN [wait["man"] EXCEPT !.got = m]
                                                   ELSE wait["man"]
    BY <1>14, <1>a, <1>c, Delivers, Zenon
  <2>3. /\ m.say \in {"info", "handshake", "config", "peer"}
        /\ m.say \in {"info", "handshake"} => m.id = 1
    BY <2>1, <2>2, <1>a, Zenon DEF LinkInv
  <2>4. \A i \in Links : Range(toC'[i]) \subseteq Range(toC[i])
    BY <1>14, <1>a, Delivers, Zenon
  <2>5. man \notin {"config", "over"} => wait'["man"] = NoWait
    BY <2>2, <1>a DEF ManagerInv, Hears, NoWait
  <2>6. ASSUME man = "config"
        PROVE  /\ wait'["man"].on /\ wait'["man"].id = 2 /\ wait'["man"].for = "config"
               /\ wait'["man"].got = Nothing \/ wait'["man"].got.say = "config"
    <3>1. m.say # "peer"
      BY <2>1, <2>2, <2>6, <1>a, Zenon DEF ManagerInv, Words, IsWord
    <3>2. CASE Hears(wait["man"], m)
      <4>1. m.say = "config"
        BY <2>3, <2>6, <3>1, <3>2, <1>a DEF ManagerInv, Hears
      <4>2. /\ wait'["man"].got = m /\ wait'["man"].on = wait["man"].on
            /\ wait'["man"].id = wait["man"].id /\ wait'["man"].for = wait["man"].for
        BY <2>2, <3>2, <1>c, Zenon DEF Waiting
      <4>3. QED
        BY <2>6, <4>1, <4>2, <1>a, Zenon DEF ManagerInv
    <3>3. CASE ~ Hears(wait["man"], m)
      BY <2>2, <2>6, <3>3, <1>a, Zenon DEF ManagerInv
    <3>4. QED
      BY <3>2, <3>3, Zenon
  <2>7. ASSUME man \in {"first", "ask", "config"}
         PROVE  /\ \A i \in Links : Words(toC'[i]) = {}
                /\ Words(bus') = {}
    BY <2>1, <2>2, <2>4, <2>7, <1>a, Zenon DEF ManagerInv, Words
  <2>8. QED
    BY <2>1, <2>2, <2>3, <2>5, <2>6, <2>7, <1>a, Zenon DEF ManagerInv
<1>15. CASE PeerTurns
  <2>1. UNCHANGED <<conn, man, held, ctrl, bus, hand, cid, wait, toS>>
    BY <1>15, Zenon DEF PeerTurns
  <2>2. man \in {"first", "ask", "config"} => toC' = toC
    BY <1>15, <1>a, Zenon DEF PeerTurns, ManagerInv
  <2>3. QED
    BY <2>1, <2>2, <1>a, Zenon DEF ManagerInv
<1>16. ASSUME NEW j \in Links, Break(j) PROVE ManagerInv'
  <2>1. UNCHANGED <<conn, man, held, ctrl, bus, hand, cid, wait, toS>>
    BY <1>16, Zenon DEF Break
  <2>2. \A i \in Links : toC'[i] = toC[i] \/ toC'[i] = <<>>
    BY <1>16, <1>b, Zenon DEF Break
  <2>3. QED
    BY <2>1, <2>2, <1>a, RangeEmpty, ManagerFrame, Zenon
<1>17. ASSUME NEW j \in Links, ServerHello(j) \/ ServerHandshake(j) \/ ServerConfig(j)
       PROVE  ManagerInv'
  <2>1. UNCHANGED <<conn, man, held, ctrl, bus, hand, cid, wait>>
    BY <1>17, Zenon DEF ServerHello, ServerHandshake, ServerConfig
  <2>2. \A i \in Links : Range(toS'[i]) \subseteq Range(toS[i])
    <3>1. toS' = toS \/ (toS[j] # <<>> /\ toS' = [toS EXCEPT ![j] = Tail(@)])
      BY <1>17, Zenon DEF ServerHello, ServerHandshake, ServerConfig, Takes
    <3>2. toS[j] # <<>> => Range(Tail(toS[j])) \subseteq Range(toS[j])
      BY <1>b, RangeOf, WaitTypes, Zenon
    <3>3. QED
      BY <3>1, <3>2, <1>b, Zenon
  <2>3. PICK m \in Msg :
          m.say # "peer" /\ \A i \in Links : Range(toC'[i]) \subseteq Range(toC[i]) \cup {m}
    BY <1>17, <1>a, ServerWrites, Zenon
  <2>4. QED
    BY <2>1, <2>2, <2>3, <1>a, ManagerFrame, Zenon
<1>18. ASSUME NEW j \in Links, ServerEnter(j) PROVE ManagerInv'
  <2>1. toS[j] # <<>> /\ Head(toS[j]).say = "enter" /\ UNCHANGED <<conn, man, ctrl, bus, hand, cid, wait, toC>>
    BY <1>18, Zenon DEF ServerEnter, Takes
  <2>2. Head(toS[j]) \in Range(toS[j])
    BY <2>1, <1>b, RangeOf, WaitTypes, Zenon
  <2>3. man \notin {"first", "ask", "config"}
    BY <2>1, <2>2, <1>a, Zenon DEF ManagerInv
  <2>4. QED
    BY <2>1, <2>3, <1>a, Zenon DEF ManagerInv
<1>19. ASSUME NEW j \in Links, ServerEnds(j) PROVE ManagerInv'
  <2>1. held' \in {0, held} /\ UNCHANGED <<conn, man, ctrl, bus, hand, cid, wait, toC, toS>>
    BY <1>19, Zenon DEF ServerEnds
  <2>2. QED
    BY <2>1, <1>a, ManagerFrame, Zenon
<1>20. CASE UNCHANGED daemonVars
  BY <1>1, <1>20, Zenon DEF daemonVars
<1> QED
  BY <1>2, <1>3, <1>4, <1>5, <1>6, <1>7, <1>8, <1>9, <1>10, <1>11, <1>12, <1>13, <1>14, <1>15,
     <1>16, <1>17, <1>18, <1>19, <1>20, Zenon
     DEF DaemonNext, Reconnect, Manage, Server

-----------------------------------------------------------------------------
\* The configuration

\* The requests for the configuration in a channel into which a message is put.
LEMMA ConfigAppend ==
  ASSUME NEW s \in Seq(Msg), NEW m \in Msg
  PROVE  /\ ~ HasConfig(s) => OneConfig(s) /\ OneConfig(Append(s, m))
         /\ ~ IsConfig(m) => /\ HasConfig(Append(s, m)) = HasConfig(s)
                             /\ OneConfig(s) => OneConfig(Append(s, m))
<1>1. DOMAIN s = 1 .. Len(s) /\ Len(s) \in Nat /\ DOMAIN Append(s, m) = 1 .. Len(s) + 1
  OBVIOUS
<1>2. Append(s, m)[Len(s) + 1] = m /\ \A k \in 1 .. Len(s) : Append(s, m)[k] = s[k]
  OBVIOUS
<1>3. \A k \in 1 .. Len(s) + 1 : k \in 1 .. Len(s) \/ k = Len(s) + 1
  BY <1>1
<1>4. ASSUME ~ HasConfig(s) PROVE OneConfig(s) /\ OneConfig(Append(s, m))
  <2>1. \A k \in 1 .. Len(s) : ~ IsConfig(s[k])
    BY <1>1, <1>4, Zenon DEF HasConfig, Range
  <2>2. QED
    BY <1>1, <1>2, <1>3, <2>1, Zenon DEF OneConfig
<1>5. ASSUME ~ IsConfig(m) PROVE HasConfig(Append(s, m)) = HasConfig(s)
  <2>1. Range(Append(s, m)) = Range(s) \cup {m}
    BY RangeOf, Zenon
  <2>2. QED
    BY <1>5, <2>1, Zenon DEF HasConfig
<1>6. ASSUME ~ IsConfig(m), OneConfig(s) PROVE OneConfig(Append(s, m))
  BY <1>1, <1>2, <1>3, <1>6, Zenon DEF OneConfig
<1>7. QED
  BY <1>4, <1>5, <1>6, Zenon

\* The requests for the configuration in a channel from which a message is taken.
LEMMA ConfigTail ==
  ASSUME NEW s \in Seq(Msg), s # <<>>
  PROVE  /\ HasConfig(Tail(s)) => HasConfig(s)
         /\ OneConfig(s) => OneConfig(Tail(s))
         /\ OneConfig(s) /\ IsConfig(Head(s)) => ~ HasConfig(Tail(s))
         /\ IsConfig(Head(s)) => HasConfig(s)
<1>1. DOMAIN s = 1 .. Len(s) /\ Len(s) \in Nat /\ Len(s) >= 1 /\ Head(s) = s[1]
  OBVIOUS
<1>2. Tail(s) \in Seq(Msg) /\ Len(Tail(s)) = Len(s) - 1
  OBVIOUS
<1>3. DOMAIN Tail(s) = 1 .. Len(s) - 1 /\ \A k \in 1 .. Len(s) - 1 : Tail(s)[k] = s[k + 1]
  BY <1>2
<1>4. \A k \in 1 .. Len(s) - 1 : k + 1 \in 1 .. Len(s) /\ k + 1 # 1
  BY <1>1
<1>5. HasConfig(Tail(s)) => HasConfig(s)
  BY <1>1, <1>3, <1>4, Zenon DEF HasConfig, Range
<1>6. ASSUME OneConfig(s) PROVE OneConfig(Tail(s))
  <2>1. ASSUME NEW k \in 1 .. Len(s) - 1, NEW l \in 1 .. Len(s) - 1,
               IsConfig(s[k + 1]), IsConfig(s[l + 1])
        PROVE  k = l
    <3>1. k + 1 = l + 1
      BY <1>1, <1>4, <1>6, <2>1, Zenon DEF OneConfig
    <3>2. QED
      BY <1>1, <3>1
  <2>2. QED
    BY <1>3, <2>1, Zenon DEF OneConfig
<1>7. ASSUME OneConfig(s), IsConfig(Head(s)) PROVE ~ HasConfig(Tail(s))
  <2>1. ASSUME NEW k \in 1 .. Len(s) - 1, IsConfig(s[k + 1]) PROVE FALSE
    <3>1. 1 \in DOMAIN s /\ k + 1 \in DOMAIN s /\ IsConfig(s[1])
      BY <1>1, <1>4, <1>7
    <3>2. k + 1 = 1
      BY <1>7, <2>1, <3>1, Zenon DEF OneConfig
    <3>3. QED
      BY <1>4, <3>2, Zenon
  <2>2. QED
    BY <1>3, <2>1, Zenon DEF HasConfig, Range
<1>8. IsConfig(Head(s)) => HasConfig(s)
  BY <1>1 DEF HasConfig, Range
<1>9. QED
  BY <1>5, <1>6, <1>7, <1>8, Zenon

\* A step that has nothing to do with the configuration.
LEMMA ConfigFrame ==
  ASSUME ConfigInv, man' = man, wait'["man"] = wait["man"],
         ~ missed' => ~ missed, peer' = peer,
         \A i \in Links : HasConfig(toS'[i]) => HasConfig(toS[i]),
         \A i \in Links : OneConfig(toS[i]) => OneConfig(toS'[i]),
         \A i \in Links : \A m \in Range(toC'[i]) : IsConfig(m) => m \in Range(toC[i])
  PROVE  ConfigInv'
<1>1. \A i \in Links : HasConfig(toC'[i]) => HasConfig(toC[i])
  BY Zenon DEF HasConfig
<1>2. ASSUME man = "config", \E i \in Links : HasConfig(toS'[i])
      PROVE  wait'["man"].got = Nothing /\ \A i \in Links : ~ HasConfig(toC'[i])
  BY <1>1, <1>2, Zenon DEF ConfigInv
<1>3. ASSUME man = "config", ~ missed'
      PROVE  /\ wait'["man"].got # Nothing => wait'["man"].got.on = peer'
             /\ \A i \in Links : \A m \in Range(toC'[i]) : IsConfig(m) => m.on = peer'
  BY <1>3, Zenon DEF ConfigInv
<1>4. QED
  BY <1>1, <1>2, <1>3, Zenon DEF ConfigInv

\* The manager gets the answer to its request, which is right when it was given.
LEMMA ConfigStep ==
  ASSUME DaemonInv, [DaemonNext]_daemonVars
  PROVE  ConfigInv'
<1>a. /\ DaemonTypeOK /\ ManagerInv /\ ConfigInv /\ ReconnectInv /\ LoopInv
      /\ \A j \in Links : LinkInv(j)
  BY Zenon DEF DaemonInv
<1>b. /\ made \in Nat /\ conn \in Nat /\ conn \in 0 .. made
      /\ cid \in [Links -> Nat] /\ sid \in [Links -> Nat]
      /\ toS \in [Links -> Seq(Msg)] /\ toC \in [Links -> Seq(Msg)]
  BY <1>a, LinkNumbers, Zenon DEF DaemonTypeOK
<1>c. /\ wait \in [Tasks -> Waiting] /\ "rec" \in Tasks /\ "man" \in Tasks
      /\ wait["man"] \in Waiting
  BY <1>a, Zenon DEF DaemonTypeOK, Tasks
<1>d. man \in {"ask", "serve"} => conn \in Links
  BY <1>a, <1>b, LinkNumbers, Zenon DEF ManagerInv
<1>e. ASSUME NEW i \in Links, NEW say \in {"handshake", "enter"}, Sends(i, say)
      PROVE  \A j \in Links : /\ HasConfig(toS'[j]) => HasConfig(toS[j])
                              /\ OneConfig(toS[j]) => OneConfig(toS'[j])
  <2>1. PICK m \in Msg :
          m.say = say /\ \A j \in Links : toS'[j] = toS[j] \/ toS'[j] = Append(toS[j], m)
    BY <1>e, <1>a, SendsMessage
  <2>2. ~ IsConfig(m)
    BY <2>1, Zenon DEF IsConfig
  <2>3. QED
    BY <2>1, <2>2, <1>b, ConfigAppend, Zenon
<1>f. ASSUME NEW i \in Links, NEW at, NEW say, Takes(i, at, say)
      PROVE  \A j \in Links : /\ HasConfig(toS'[j]) => HasConfig(toS[j])
                              /\ OneConfig(toS[j]) => OneConfig(toS'[j])
  <2>1. \A j \in Links : toS'[j] = toS[j] \/ (toS[j] # <<>> /\ toS'[j] = Tail(toS[j]))
    BY <1>f, <1>b, Zenon DEF Takes
  <2>2. QED
    BY <2>1, <1>b, ConfigTail, Zenon
<1> USE DEF client, manager, links, server, history
<1>1. CASE UNCHANGED <<man, missed, peer, toC, toS>> /\ wait'["man"] = wait["man"]
  BY <1>1, <1>a, ConfigFrame, Zenon
<1>2. CASE \/ TakeLoop \/ EndLoop \/ AwaitEnd1 \/ AwaitEnd2 \/ ConnectFails \/ Connect \/ HandOver
           \/ GiveUp \/ Store \/ Announce \/ ProcessTake \/ ProcessForward \/ ServeWord
  BY <1>1, <1>2, <1>c, Zenon DEF TakeLoop, EndLoop, AwaitEnd1, AwaitEnd2, ConnectFails, Connect,
     HandOver, GiveUp, StopClient, Store, Announce, ProcessTake, ProcessForward, ServeWord
<1>3. CASE Handshake \/ ServeConnected
  <2>1. PICK i \in Links, say \in {"handshake", "enter"} : Sends(i, say)
    <3>1. CASE Handshake
      <4>1. rec = "info" /\ Sends(made, "handshake")
        BY <3>1, Zenon DEF Handshake, Requests
      <4>2. made \in Links
        BY <4>1, <1>a, <1>b, LinkNumbers DEF LoopInv
      <4>3. QED
        BY <4>1, <4>2, Zenon
    <3>2. CASE ServeConnected
      BY <3>2, <1>d, Zenon DEF ServeConnected
    <3>3. QED
      BY <1>3, <3>1, <3>2, Zenon
  <2>2. UNCHANGED <<man, missed, peer>> /\ wait'["man"] = wait["man"]
    BY <1>3, <1>c, Zenon DEF Handshake, ServeConnected, Requests
  <2>3. toC' = toC
    BY <2>1, Zenon DEF Sends
  <2>4. QED
    BY <2>1, <2>2, <2>3, <1>a, <1>e, ConfigFrame, Zenon
<1>4. CASE AwaitFirst
  <2>1. man = "first" /\ man' \in {"first", "ask"} /\ UNCHANGED <<toS, toC>>
    BY <1>4, Zenon DEF AwaitFirst
  <2>2. QED
    BY <2>1, <1>a, Zenon DEF ConfigInv
<1>5. CASE FirstTimeout \/ ConfigFails \/ ConnectedFails
  <2>1. man' = "over"
    BY <1>5, Zenon DEF FirstTimeout, ConfigFails, ConnectedFails, Exit
  <2>2. QED
    BY <2>1, Zenon DEF ConfigInv
<1>6. CASE AskConfig
  <2>1. man = "ask" /\ man' = "config" /\ conn \in Links /\ Sends(conn, "config")
    BY <1>6, <1>d, Zenon DEF AskConfig, Requests
  <2>2. wait'["man"].got = Nothing
    BY <1>6, <1>c, Zenon DEF AskConfig, Requests, NoWait
  <2>3. toC' = toC /\ \A i \in Links : ~ HasConfig(toS[i]) /\ ~ HasConfig(toC[i])
    BY <2>1, <1>a, Zenon DEF Sends, ConfigInv
  <2>5. PICK m \in Msg :
          \A i \in Links : toS'[i] = toS[i] \/ (i = conn /\ toS'[i] = Append(toS[i], m))
    BY <2>1, <1>a, SendsMessage
  <2>6. \A i \in Links : OneConfig(toS'[i]) /\ (HasConfig(toS'[i]) => i = conn)
    <3>1. ASSUME NEW i \in Links PROVE OneConfig(toS'[i]) /\ (HasConfig(toS'[i]) => i = conn)
      <4>1. OneConfig(toS[i]) /\ OneConfig(Append(toS[i], m)) /\ ~ HasConfig(toS[i])
        BY <2>3, <1>b, ConfigAppend, Zenon
      <4>2. CASE toS'[i] = toS[i]
        BY <4>1, <4>2, Zenon
      <4>3. CASE i = conn /\ toS'[i] = Append(toS[i], m)
        BY <4>1, <4>3, Zenon
      <4>4. QED
        BY <2>5, <4>2, <4>3, Zenon
    <3>2. QED
      BY <3>1, Zenon
  <2>7. \A i \in Links : \A n \in Range(toC'[i]) : ~ IsConfig(n)
    BY <2>3, Zenon DEF HasConfig
  <2>8. QED
    BY <2>1, <2>2, <2>3, <2>6, <2>7, Zenon DEF ConfigInv
<1>7. CASE StartDevice
  <2>1. man = "config" /\ man' = "serve" /\ wait["man"].got # Nothing /\ toS' = toS
    BY <1>7, Zenon DEF StartDevice, Right, Answered
  <2>2. QED
    BY <2>1, <1>a, Zenon DEF ConfigInv
<1>8. CASE Deliver
  <2>1. loop \in Links /\ (~ missed' => ~ missed) /\ UNCHANGED <<man, toS, peer>>
    BY <1>8, <1>a, Delivers, Zenon DEF Deliver
  <2>2. PICK m \in Msg :
          /\ m \in Range(toC[loop])
          /\ wait'["man"] = IF Hears(wait["man"], m) THEN [wait["man"] EXCEPT !.got = m]
                                                   ELSE wait["man"]
    BY <1>8, <1>a, <1>c, Delivers, Zenon
  <2>3. \A i \in Links : Range(toC'[i]) \subseteq Range(toC[i])
    BY <1>8, <1>a, Delivers, Zenon
  <2>4. wait'["man"] = wait["man"] \/ wait'["man"].got = m
    BY <2>2, <1>c, Zenon DEF Waiting
  <2>5. CASE wait'["man"] = wait["man"]
    BY <2>1, <2>3, <2>5, <1>a, ConfigFrame, Zenon
  <2>6. CASE wait'["man"].got = m /\ man = "config"
    <3>1. m = Nothing \/ IsConfig(m)
      BY <2>1, <2>6, ManagerStep, Zenon DEF ManagerInv, IsConfig
    <3>2. CASE m # Nothing
      <4>1. HasConfig(toC[loop]) /\ \A i \in Links : ~ HasConfig(toS[i])
        BY <2>1, <2>2, <2>6, <3>1, <3>2, <1>a, Zenon DEF ConfigInv, HasConfig
      <4>2. ~ missed => m.on = peer
        BY <2>1, <2>2, <2>6, <3>1, <3>2, <1>a, Zenon DEF ConfigInv
      <4>3. ~ missed => \A i \in Links : \A n \in Range(toC'[i]) : IsConfig(n) => n.on = peer
        BY <2>3, <2>6, <1>a, Zenon DEF ConfigInv
      <4>4. \A i \in Links : OneConfig(toS[i])
        BY <2>6, <1>a, Zenon DEF ConfigInv
      <4>5. QED
        BY <2>1, <2>6, <4>1, <4>2, <4>3, <4>4, Zenon DEF ConfigInv
    <3>3. CASE m = Nothing
      <4>1. ASSUME NEW i \in Links PROVE HasConfig(toC'[i]) => HasConfig(toC[i])
        BY <2>3, Zenon DEF HasConfig
      <4>2. ~ missed => \A i \in Links : \A n \in Range(toC'[i]) : IsConfig(n) => n.on = peer
        BY <2>3, <2>6, <1>a, Zenon DEF ConfigInv
      <4>3. (\E i \in Links : HasConfig(toS[i])) => \A i \in Links : ~ HasConfig(toC'[i])
        BY <2>6, <4>1, <1>a, Zenon DEF ConfigInv
      <4>4. /\ \A i \in Links : OneConfig(toS[i])
            /\ \A i, j \in Links : HasConfig(toS[i]) /\ HasConfig(toS[j]) => i = j
        BY <2>6, <1>a, Zenon DEF ConfigInv
      <4>5. QED
        BY <2>1, <2>6, <3>3, <4>2, <4>3, <4>4, Zenon DEF ConfigInv
    <3>4. QED
      BY <3>2, <3>3, Zenon
  <2>7. CASE man # "config"
    <3>1. \A i \in Links : HasConfig(toC'[i]) => HasConfig(toC[i])
      BY <2>3, Zenon DEF HasConfig
    <3>2. QED
      BY <2>1, <2>7, <3>1, <1>a, Zenon DEF ConfigInv
  <2>8. QED
    BY <2>4, <2>5, <2>6, <2>7, Zenon
<1>9. CASE PeerTurns
  <2>1. UNCHANGED <<man, wait, toS>>
    BY <1>9, Zenon DEF PeerTurns
  <2>2. man \in {"first", "ask", "config"} => toC' = toC /\ missed'
    BY <1>9, <1>a, Zenon DEF PeerTurns, ManagerInv
  <2>3. QED
    BY <2>1, <2>2, <1>a, Zenon DEF ConfigInv
<1>10. ASSUME NEW j \in Links, Break(j) PROVE ConfigInv'
  <2>1. UNCHANGED <<man, wait, toS, peer>> /\ (~ missed' => ~ missed)
    BY <1>10, Zenon DEF Break
  <2>2. \A i \in Links : toC'[i] = toC[i] \/ toC'[i] = <<>>
    BY <1>10, <1>b, Zenon DEF Break
  <2>3. QED
    BY <2>1, <2>2, <1>a, RangeEmpty, ConfigFrame, Zenon
<1>11. ASSUME NEW j \in Links, ServerHello(j) \/ ServerHandshake(j) PROVE ConfigInv'
  <2>1. UNCHANGED <<man, wait, peer, missed>>
    BY <1>11, Zenon DEF ServerHello, ServerHandshake
  <2>2. \A i \in Links : /\ HasConfig(toS'[i]) => HasConfig(toS[i])
                         /\ OneConfig(toS[i]) => OneConfig(toS'[i])
    BY <1>11, <1>f, Zenon DEF ServerHello, ServerHandshake
  <2>3. serves[j] # "in"
    BY <1>11, Zenon DEF ServerHello, ServerHandshake, Takes
  <2>4. PICK m \in Msg :
          ~ IsConfig(m) /\ \A i \in Links : Range(toC'[i]) \subseteq Range(toC[i]) \cup {m}
    BY <1>11, <2>3, <1>a, ServerWrites, Zenon DEF IsConfig
  <2>5. QED
    BY <2>1, <2>2, <2>4, <1>a, ConfigFrame, Zenon
<1>12. ASSUME NEW j \in Links, ServerConfig(j) PROVE ConfigInv'
  <2>1. /\ toS[j] # <<>> /\ IsConfig(Head(toS[j])) /\ toS' = [toS EXCEPT ![j] = Tail(@)]
        /\ UNCHANGED <<man, wait, peer>>
    BY <1>12, Zenon DEF ServerConfig, Takes, IsConfig
  <2>2. HasConfig(toS[j])
    BY <2>1, <1>b, ConfigTail, Zenon
  <2>3. man \in {"config", "over"}
    BY <2>2, <1>a, Zenon DEF ConfigInv, DaemonTypeOK
  <2>4. CASE man = "config"
    <3>1. /\ OneConfig(toS[j]) /\ wait["man"].got = Nothing
          /\ \A i \in Links : ~ HasConfig(toC[i]) /\ (i # j => ~ HasConfig(toS[i]))
      BY <2>2, <2>4, <1>a, Zenon DEF ConfigInv
    <3>2. ~ HasConfig(Tail(toS[j]))
      BY <2>1, <3>1, <1>b, ConfigTail, Zenon
    <3>3. \A i \in Links : ~ HasConfig(toS'[i])
      BY <2>1, <3>1, <3>2, <1>b, Zenon
    <3>4. toS' \in [Links -> Seq(Msg)]
      BY <1>12, <1>a, TakesTypes, Zenon DEF ServerConfig
    <3>5. \A i \in Links : OneConfig(toS'[i])
      BY <3>3, <3>4, ConfigAppend, WaitTypes, Zenon
    <3>6. PICK m \in Msg : m = Message(Head(toS[j]).id, "config", peer)
      <4>1. Head(toS[j]).id \in Nat /\ peer \in BOOLEAN
        BY <1>12, <1>a, TakesTypes, Zenon DEF ServerConfig, DaemonTypeOK
      <4>2. QED
        BY <4>1, MessageType, Zenon
    <3>7. m.on = peer
      BY <3>6, Zenon DEF Message
    <3>8. \A i \in Links : toC'[i] = toC[i] \/ toC'[i] = Append(toC[i], m)
      BY <1>12, <3>6, <1>b, Zenon DEF ServerConfig, Writes
    <3>9. \A i \in Links : Range(toC'[i]) \subseteq Range(toC[i]) \cup {m}
      BY <3>8, <1>b, RangeGrows, Zenon
    <3>10. \A i \in Links : \A n \in Range(toC'[i]) : IsConfig(n) => n.on = peer
      BY <3>1, <3>7, <3>9, Zenon DEF HasConfig
    <3>11. QED
      BY <2>1, <2>4, <3>1, <3>3, <3>5, <3>10, Zenon DEF ConfigInv
  <2>5. CASE man = "over"
    BY <2>1, <2>5, Zenon DEF ConfigInv
  <2>6. QED
    BY <2>3, <2>4, <2>5, Zenon
<1>13. ASSUME NEW j \in Links, ServerEnter(j) PROVE ConfigInv'
  <2>1. UNCHANGED <<man, wait, peer, missed, toC>>
    BY <1>13, Zenon DEF ServerEnter
  <2>2. \A i \in Links : /\ HasConfig(toS'[i]) => HasConfig(toS[i])
                         /\ OneConfig(toS[i]) => OneConfig(toS'[i])
    BY <1>13, <1>f, Zenon DEF ServerEnter
  <2>3. QED
    BY <2>1, <2>2, <1>a, ConfigFrame, Zenon
<1>14. ASSUME NEW j \in Links, ServerEnds(j) PROVE ConfigInv'
  BY <1>14, <1>1, Zenon DEF ServerEnds
<1>15. CASE UNCHANGED daemonVars
  BY <1>1, <1>15, Zenon DEF daemonVars
<1> QED
  BY <1>2, <1>3, <1>4, <1>5, <1>6, <1>7, <1>8, <1>9, <1>10, <1>11, <1>12, <1>13, <1>14, <1>15, Zenon
     DEF DaemonNext, Reconnect, Manage, Server

-----------------------------------------------------------------------------
\* Words about the other peer

\* A word that is put into a channel is the last one; anything else leaves the
\* words in it as they are.
LEMMA WordsAppend ==
  ASSUME NEW s \in Seq(Msg), NEW m \in Msg, NEW b \in BOOLEAN
  PROVE  /\ ~ IsWord(m) => /\ Words(Append(s, m)) = Words(s)
                           /\ Says(s, b) => Says(Append(s, m), b)
         /\ IsWord(m) => /\ Words(Append(s, m)) # {}
                         /\ m.on = b => Says(Append(s, m), b)
<1>1. DOMAIN s = 1 .. Len(s) /\ Len(s) \in Nat /\ DOMAIN Append(s, m) = 1 .. Len(s) + 1
  OBVIOUS
<1>2. Append(s, m)[Len(s) + 1] = m /\ \A k \in 1 .. Len(s) : Append(s, m)[k] = s[k]
  OBVIOUS
<1>3. \A k \in 1 .. Len(s) + 1 : k \in 1 .. Len(s) \/ k = Len(s) + 1
  BY <1>1
<1>4. \A k \in 1 .. Len(s) : k \in 1 .. Len(s) + 1 /\ Len(s) + 1 > k
  BY <1>1
<1>5. Range(Append(s, m)) = Range(s) \cup {m}
  BY RangeOf, Zenon
<1>6. ASSUME ~ IsWord(m), Says(s, b) PROVE Says(Append(s, m), b)
  <2>1. ASSUME NEW k \in 1 .. Len(s) + 1, IsWord(Append(s, m)[k]),
               \A l \in 1 .. Len(s) + 1 : l > k => ~ IsWord(Append(s, m)[l])
        PROVE  Append(s, m)[k].on = b
    <3>1. k \in 1 .. Len(s) /\ IsWord(s[k])
      BY <1>2, <1>3, <1>6, <2>1, Zenon
    <3>2. \A l \in 1 .. Len(s) : l > k => ~ IsWord(s[l])
      BY <1>2, <1>4, <2>1, Zenon
    <3>3. s[k].on = b
      BY <1>1, <1>6, <3>1, <3>2, Zenon DEF Says
    <3>4. QED
      BY <1>2, <3>1, <3>3, Zenon
  <2>2. QED
    BY <1>1, <2>1, Zenon DEF Says
<1>7. ASSUME IsWord(m), m.on = b PROVE Says(Append(s, m), b)
  <2>1. Len(s) + 1 \in 1 .. Len(s) + 1
    BY <1>1
  <2>2. QED
    BY <1>1, <1>2, <1>3, <1>4, <1>7, <2>1, Zenon DEF Says
<1>8. QED
  BY <1>5, <1>6, <1>7, Zenon DEF Words

\* Taking a message out of a channel leaves its last word there, or takes it.
LEMMA WordsTail ==
  ASSUME NEW s \in Seq(Msg), s # <<>>, NEW b \in BOOLEAN
  PROVE  /\ Says(s, b) => Says(Tail(s), b)
         /\ Words(Tail(s)) \subseteq Words(s)
         /\ ~ IsWord(Head(s)) => Words(Tail(s)) = Words(s)
         /\ IsWord(Head(s)) => Words(s) # {}
         /\ Words(Tail(s)) = {} /\ IsWord(Head(s)) /\ Says(s, b) => Head(s).on = b
<1>1. DOMAIN s = 1 .. Len(s) /\ Len(s) \in Nat /\ Len(s) >= 1 /\ Head(s) = s[1]
  OBVIOUS
<1>2. Tail(s) \in Seq(Msg) /\ Len(Tail(s)) = Len(s) - 1
  OBVIOUS
<1>3. DOMAIN Tail(s) = 1 .. Len(s) - 1 /\ \A k \in 1 .. Len(s) - 1 : Tail(s)[k] = s[k + 1]
  BY <1>2
<1>4. \A k \in 1 .. Len(s) : k # 1 => k - 1 \in 1 .. Len(s) - 1 /\ s[k] = Tail(s)[k - 1]
  BY <1>1, <1>3
<1>5. ASSUME Says(s, b) PROVE Says(Tail(s), b)
  <2>1. ASSUME NEW k \in 1 .. Len(s) - 1, IsWord(Tail(s)[k]),
               \A l \in 1 .. Len(s) - 1 : l > k => ~ IsWord(Tail(s)[l])
        PROVE  Tail(s)[k].on = b
    <3>1. k + 1 \in 1 .. Len(s) /\ Tail(s)[k] = s[k + 1]
      BY <1>1, <1>3
    <3>2. ASSUME NEW l \in 1 .. Len(s), l > k + 1 PROVE ~ IsWord(s[l])
      <4>1. l - 1 \in 1 .. Len(s) - 1 /\ s[l] = Tail(s)[l - 1] /\ l - 1 > k
        BY <1>1, <1>4, <3>2
      <4>2. QED
        BY <2>1, <4>1, Zenon
    <3>3. QED
      BY <1>1, <1>5, <2>1, <3>1, <3>2, Zenon DEF Says
  <2>2. QED
    BY <1>3, <2>1, Zenon DEF Says
<1>6. Range(s) = Range(Tail(s)) \cup {Head(s)}
  BY RangeOf, WaitTypes, Zenon
<1>7. ASSUME Words(Tail(s)) = {}, IsWord(Head(s)), Says(s, b) PROVE Head(s).on = b
  <2>1. \A k \in 1 .. Len(s) - 1 : ~ IsWord(Tail(s)[k])
    BY <1>3, <1>7, Zenon DEF Words, Range
  <2>2. \A l \in 1 .. Len(s) : l > 1 => ~ IsWord(s[l])
    <3>1. ASSUME NEW l \in 1 .. Len(s), l > 1 PROVE ~ IsWord(s[l])
      <4>1. l # 1
        BY <3>1
      <4>2. QED
        BY <1>4, <2>1, <4>1, Zenon
    <3>2. QED
      BY <3>1, Zenon
  <2>3. 1 \in DOMAIN s
    BY <1>1
  <2>4. QED
    BY <1>1, <1>7, <2>2, <2>3, Zenon DEF Says
<1>8. QED
  BY <1>5, <1>6, <1>7, Zenon DEF Words

\* Without a word there is no last one.
LEMMA WordsNone ==
  ASSUME NEW s, NEW b
  PROVE  /\ Words(s) = {} => Says(s, b)
         /\ Words(<<>>) = {} /\ Says(<<>>, b)
         /\ \A m : IsWord(m) /\ m.on = b => Says(<<m>>, b)
         /\ \A m : IF IsWord(m) THEN Words(<<m>>) # {} ELSE Words(<<m>>) = {} /\ Says(<<m>>, b)
<1>1. ASSUME NEW t, Words(t) = {} PROVE Says(t, b)
  BY <1>1, Zenon DEF Words, Says, Range
<1>2. Words(<<>>) = {}
  BY RangeEmpty, Zenon DEF Words
<1>3. \A m : IsWord(m) /\ m.on = b => Says(<<m>>, b)
  BY DEF Says
<1>4. ASSUME NEW m PROVE IF IsWord(m) THEN Words(<<m>>) # {} ELSE Words(<<m>>) = {}
  BY RangeOne DEF Words
<1>5. QED
  BY <1>1, <1>2, <1>3, <1>4, Zenon

\* A message goes from the link to the broadcast channel, which may lose its
\* oldest message unless that is a word.
LEMMA HeardDeliver ==
  ASSUME NEW link \in Seq(Msg), link # <<>>, NEW b \in Seq(Msg), NEW h, NEW c, NEW f,
         NEW p \in BOOLEAN, Heard(link, b, h, c, f, p), NEW d,
         \/ d = Append(b, Head(link))
         \/ b # <<>> /\ ~ IsWord(Head(b)) /\ d = Append(Tail(b), Head(link))
  PROVE  Heard(Tail(link), d, h, c, f, p)
<1>1. PICK a \in Seq(Msg) :
        d = Append(a, Head(link)) /\ Words(a) = Words(b) /\ (Says(b, p) => Says(a, p))
  <2>1. CASE d = Append(b, Head(link))
    BY <2>1, Zenon
  <2>2. CASE b # <<>> /\ ~ IsWord(Head(b)) /\ d = Append(Tail(b), Head(link))
    <3>1. Tail(b) \in Seq(Msg) /\ Words(Tail(b)) = Words(b) /\ (Says(b, p) => Says(Tail(b), p))
      BY <2>2, WordsTail
    <3>2. QED
      BY <2>2, <3>1, Zenon
  <2>3. QED
    BY <2>1, <2>2, Zenon
<1>2. Head(link) \in Msg
  OBVIOUS
<1>3. CASE IsWord(Head(link))
  <2>1. Words(d) # {} /\ (Head(link).on = p => Says(d, p))
    BY <1>1, <1>2, <1>3, WordsAppend, Zenon
  <2>2. Says(Tail(link), p) /\ (Words(Tail(link)) = {} => Head(link).on = p)
    BY <1>3, WordsTail DEF Heard
  <2>3. QED
    BY <2>1, <2>2, Zenon DEF Heard
<1>4. CASE ~ IsWord(Head(link))
  <2>1. Words(d) = Words(b) /\ (Says(b, p) => Says(d, p))
    BY <1>1, <1>2, <1>4, WordsAppend, Zenon
  <2>2. Says(Tail(link), p) /\ Words(Tail(link)) = Words(link)
    BY <1>4, WordsTail DEF Heard
  <2>3. QED
    BY <2>1, <2>2, Zenon DEF Heard
<1>5. QED
  BY <1>3, <1>4, Zenon

\* The forwarding task takes a message from the broadcast channel.
LEMMA HeardTake ==
  ASSUME NEW link, NEW b \in Seq(Msg), b # <<>>, NEW c, NEW f,
         NEW p \in BOOLEAN, Heard(link, b, <<>>, c, f, p)
  PROVE  Heard(link, Tail(b), <<Head(b)>>, c, f, p)
<1>1. CASE IsWord(Head(b))
  <2>1. Words(<<Head(b)>>) # {} /\ (Head(b).on = p => Says(<<Head(b)>>, p))
    BY <1>1, WordsNone, Zenon
  <2>2. /\ Says(b, p) => Says(Tail(b), p)
        /\ Words(Tail(b)) = {} /\ Says(b, p) => Head(b).on = p
    BY <1>1, WordsTail
  <2>3. QED
    BY <2>1, <2>2, Zenon DEF Heard
<1>2. CASE ~ IsWord(Head(b))
  <2>1. Words(<<Head(b)>>) = {} /\ Says(<<Head(b)>>, p) /\ Words(<<>>) = {}
    BY <1>2, WordsNone, Zenon
  <2>2. (Says(b, p) => Says(Tail(b), p)) /\ Words(Tail(b)) = Words(b)
    BY <1>2, WordsTail
  <2>3. QED
    BY <2>1, <2>2, Zenon DEF Heard
<1>3. QED
  BY <1>1, <1>2, Zenon

\* It puts the message into the channel of commands.
LEMMA HeardForward ==
  ASSUME NEW link, NEW b, NEW h \in Seq(Msg), h # <<>>, Len(h) <= 1, NEW c \in Seq(Msg), NEW f,
         NEW p \in BOOLEAN, Heard(link, b, h, c, f, p)
  PROVE  Heard(link, b, <<>>, Append(c, Head(h)), f, p)
<1>1. Head(h) \in Msg /\ Tail(h) = <<>>
  OBVIOUS
<1>2. Words(<<>>) = {} /\ Says(<<>>, p)
  BY WordsNone, Zenon
<1>3. CASE IsWord(Head(h))
  <2>1. Words(Append(c, Head(h))) # {} /\ (Head(h).on = p => Says(Append(c, Head(h)), p))
    BY <1>1, <1>3, WordsAppend, Zenon
  <2>4. Words(Tail(h)) = {}
    BY <1>1, <1>2, Zenon
  <2>2. Says(h, p) => Head(h).on = p
    BY <1>3, <2>4, WordsTail
  <2>3. QED
    BY <1>2, <2>1, <2>2, Zenon DEF Heard
<1>4. CASE ~ IsWord(Head(h))
  <2>1. Words(Append(c, Head(h))) = Words(c) /\ (Says(c, p) => Says(Append(c, Head(h)), p))
    BY <1>1, <1>4, WordsAppend, Zenon
  <2>2. Words(h) = {}
    BY <1>1, <1>2, <1>4, WordsTail, Zenon
  <2>3. QED
    BY <1>2, <2>1, <2>2, Zenon DEF Heard
<1>5. QED
  BY <1>3, <1>4, Zenon

\* The manager takes a command, and a word sets the flag.
LEMMA HeardServe ==
  ASSUME NEW link, NEW b, NEW h, NEW c \in Seq(Msg), c # <<>>, NEW f,
         NEW p \in BOOLEAN, Heard(link, b, h, c, f, p), NEW g,
         IF IsWord(Head(c)) THEN g = Head(c).on ELSE g = f
  PROVE  Heard(link, b, h, Tail(c), g, p)
<1>1. CASE IsWord(Head(c))
  <2>1. Says(c, p) => Says(Tail(c), p) /\ (Words(Tail(c)) = {} => Head(c).on = p)
    BY <1>1, WordsTail
  <2>2. QED
    BY <1>1, <2>1, Zenon DEF Heard
<1>2. CASE ~ IsWord(Head(c))
  <2>1. (Says(c, p) => Says(Tail(c), p)) /\ Words(Tail(c)) = Words(c)
    BY <1>2, WordsTail
  <2>2. QED
    BY <1>2, <2>1, Zenon DEF Heard
<1>3. QED
  BY <1>1, <1>2, Zenon

\* Something else than a word is put into the first or the last channel.
LEMMA HeardOther ==
  ASSUME NEW link \in Seq(Msg), NEW b, NEW h, NEW c \in Seq(Msg), NEW f,
         NEW p \in BOOLEAN, Heard(link, b, h, c, f, p), NEW m \in Msg, ~ IsWord(m)
  PROVE  Heard(Append(link, m), b, h, c, f, p) /\ Heard(link, b, h, Append(c, m), f, p)
<1>1. /\ Words(Append(link, m)) = Words(link) /\ Words(Append(c, m)) = Words(c)
      /\ Says(link, p) => Says(Append(link, m), p)
      /\ Says(c, p) => Says(Append(c, m), p)
  BY WordsAppend, Zenon
<1>2. QED
  BY <1>1, Zenon DEF Heard

\* The other peer comes or goes, and the client is told.
LEMMA HeardTurn ==
  ASSUME NEW link \in Seq(Msg), NEW b, NEW h, NEW c, NEW f, NEW m \in Msg, IsWord(m),
         m.on \in BOOLEAN
  PROVE  Heard(Append(link, m), b, h, c, f, m.on)
<1>1. Words(Append(link, m)) # {} /\ Says(Append(link, m), m.on)
  BY WordsAppend, Zenon
<1>2. QED
  BY <1>1, Zenon DEF Heard

\* A link without words is as good as another.
LEMMA HeardLink ==
  ASSUME NEW link, NEW b, NEW h, NEW c, NEW f, NEW p, Heard(link, b, h, c, f, p),
         Words(link) = {}, NEW other, Words(other) = {}
  PROVE  Heard(other, b, h, c, f, p)
<1>1. Says(other, p)
  BY WordsNone, Zenon
<1>2. QED
  BY <1>1, Zenon DEF Heard

\* The latest word on its way to the manager is right.
LEMMA WordStep ==
  ASSUME DaemonInv, [DaemonNext]_daemonVars
  PROVE  WordInv'
<1> SUFFICES ASSUME Linked' PROVE WordInv'
  BY Zenon DEF WordInv
<1>a. /\ DaemonTypeOK /\ ManagerInv /\ ConfigInv /\ LoopInv /\ WordInv
      /\ \A j \in Links : LinkInv(j)
  BY Zenon DEF DaemonInv
<1>b. /\ made \in Nat /\ conn \in 0 .. made /\ held \in 0 .. made
      /\ up \in [Links -> BOOLEAN] /\ sid \in [Links -> Nat]
      /\ toS \in [Links -> Seq(Msg)] /\ toC \in [Links -> Seq(Msg)]
      /\ bus \in Seq(Msg) /\ hand \in Seq(Msg) /\ ctrl \in Seq(Msg) /\ Len(hand) <= 1
      /\ peer \in BOOLEAN
  BY <1>a, LinkNumbers, Zenon DEF DaemonTypeOK
<1>c. ASSUME man \in {"config", "serve"} PROVE made \in Links /\ toC[made] \in Seq(Msg)
  <2>1. conn # 0
    BY <1>a, <1>c, Zenon DEF ManagerInv
  <2>2. made # 0 /\ made \in 0 .. made
    BY <2>1, <1>b
  <2>3. made \in Links
    BY <2>2, <1>a, LinkNumbers, Zenon
  <2>4. QED
    BY <2>3, <1>b, Zenon
<1> USE DEF client, manager, links, server, history
<1>d. Linked
  <2>1. man' = man \/ man # "over"
    BY Zenon DEF DaemonNext, Reconnect, Manage, Server, daemonVars,
           TakeLoop, EndLoop, Deliver, AwaitEnd1, AwaitEnd2, ConnectFails, Connect, HandOver,
           Handshake, GiveUp, Store, Announce, ProcessTake, ProcessForward, AwaitFirst,
           FirstTimeout, AskConfig, StartDevice, ConfigFails, ServeWord, ServeConnected,
           ConnectedFails, PeerTurns, Break, ServerHello, ServerHandshake, ServerConfig,
           ServerEnter, ServerEnds
  <2>2. rec' = rec \/ rec # "over"
    BY Zenon DEF DaemonNext, Reconnect, Manage, Server, daemonVars, Exit, Requests, Linked,
           TakeLoop, EndLoop, Deliver, AwaitEnd1, AwaitEnd2, ConnectFails, Connect, HandOver,
           Handshake, GiveUp, Store, Announce, ProcessTake, ProcessForward, AwaitFirst,
           FirstTimeout, AskConfig, StartDevice, ConfigFails, ServeWord, ServeConnected,
           ConnectedFails, PeerTurns, Break, ServerHello, ServerHandshake, ServerConfig,
           ServerEnter, ServerEnds
  <2>3. QED
    BY <2>1, <2>2, Zenon DEF Linked, Running
<1>e. /\ \A i \in Links : ~ up[i] => Words(toC[i]) = {}
      /\ man = "serve" /\ ~ missed => Heard(toC[made], bus, hand, ctrl, flag, peer)
  BY <1>a, <1>d, Zenon DEF WordInv
<1>1. CASE UNCHANGED <<up, toC, man, missed, made, bus, hand, ctrl, flag, peer>>
  BY <1>1, <1>e, Zenon DEF WordInv
<1>2. CASE TakeLoop \/ EndLoop \/ AwaitEnd1 \/ AwaitEnd2 \/ ConnectFails \/ HandOver \/ Store
  BY <1>1, <1>2, Zenon DEF TakeLoop, EndLoop, AwaitEnd1, AwaitEnd2, ConnectFails, HandOver, Store
<1>3. CASE Handshake
  BY <1>1, <1>3, Zenon DEF Handshake, Requests, Sends
<1>4. CASE \/ GiveUp \/ FirstTimeout \/ ConfigFails \/ ConnectedFails
  <2>1. rec' = "over" \/ man' = "over"
    BY <1>4, Zenon DEF GiveUp, StopClient, FirstTimeout, ConfigFails, ConnectedFails, Exit
  <2>2. QED
    BY <2>1, Zenon DEF Linked, Running
<1>5. CASE Deliver
  <2>1. /\ loop \in Links /\ toC[loop] # <<>>
        /\ UNCHANGED <<up, man, made, hand, ctrl, flag, peer>>
    BY <1>5, <1>a, Delivers, Zenon DEF Deliver
  <2>2. loop = made
    BY <1>5, <1>a, <1>d, Zenon DEF Deliver, LoopInv, Linked
  <2>3. \A i \in Links : ~ up'[i] => Words(toC'[i]) = {}
    <3>1. \A i \in Links : Range(toC'[i]) \subseteq Range(toC[i])
      BY <1>5, <1>a, Delivers, Zenon
    <3>2. QED
      BY <2>1, <3>1, <1>e, Zenon DEF Words
  <2>4. ASSUME man' = "serve", ~ missed'
        PROVE  Heard(toC'[made'], bus', hand', ctrl', flag', peer')
    <3>1. ~ missed /\ toC'[made'] = Tail(toC[made])
      BY <1>5, <2>1, <2>2, <2>4, <1>a, Delivers, Zenon DEF Deliver
    <3>2. \/ bus' = Append(bus, Head(toC[made]))
          \/ bus # <<>> /\ ~ IsWord(Head(bus)) /\ bus' = Append(Tail(bus), Head(toC[made]))
      BY <1>5, <2>2, <2>4, <1>a, Delivers, Zenon
    <3>3. Heard(toC[made], bus, hand, ctrl, flag, peer) /\ toC[made] \in Seq(Msg)
      BY <2>1, <2>2, <2>4, <3>1, <1>b, <1>e, Zenon
    <3>4. Heard(Tail(toC[made]), bus', hand, ctrl, flag, peer)
      BY <2>1, <2>2, <3>2, <3>3, <1>b, HeardDeliver, Zenon
    <3>5. QED
      BY <2>1, <3>1, <3>4, Zenon
  <2>5. QED
    BY <2>3, <2>4, Zenon DEF WordInv
<1>6. CASE Connect
  <2>1. /\ rec = "connect" /\ made' = made + 1 /\ up' = [up EXCEPT ![made + 1] = TRUE]
        /\ UNCHANGED <<toC, man, missed, bus, hand, ctrl, flag, peer>>
    BY <1>6, Zenon DEF Connect
  <2>2. made + 1 \in Links
    BY <1>6, <1>a, LinkNumbers, Zenon DEF Connect
  <2>3. toC[made + 1] = <<>>
    BY <2>2, <1>a, <1>b, SMTT(30) DEF LinkInv
  <2>4. \A i \in Links : ~ up[i]
    <3>1. loop = 0 /\ etx \in {<<>>, <<0>>}
      BY <2>1, <1>a, Zenon DEF LoopInv
    <3>2. \A i \in Links : i # 0 /\ etx # <<i>>
      <4>1. \A i : <<i>> # <<>> /\ (<<0>> = <<i>> => i = 0)
        BY Zenon
      <4>2. QED
        BY <3>1, <4>1, <1>a, LinkNumbers, Zenon
    <3>3. QED
      BY <2>1, <3>1, <3>2, <1>a, Zenon DEF LoopInv
  <2>5. \A i \in Links : Words(toC[i]) = {}
    BY <2>4, <1>e, Zenon
  <2>6. ASSUME man' = "serve", ~ missed'
        PROVE  Heard(toC'[made'], bus', hand', ctrl', flag', peer')
    <3>1. Heard(toC[made], bus, hand, ctrl, flag, peer) /\ Words(toC[made]) = {}
      BY <2>1, <2>5, <2>6, <1>c, <1>e, Zenon
    <3>2. Heard(toC[made + 1], bus, hand, ctrl, flag, peer)
      BY <2>2, <2>5, <3>1, HeardLink, Zenon
    <3>3. QED
      BY <2>1, <3>2, Zenon
  <2>7. QED
    BY <2>1, <2>5, <2>6, Zenon DEF WordInv
<1>7. CASE Announce
  <2>1. /\ rec \in {"first", "connected"}
        /\ UNCHANGED <<up, toC, man, missed, made, bus, hand, flag, peer>>
    BY <1>7, Zenon DEF Announce
  <2>2. PICK m \in Msg : m = Message(0, rec, FALSE)
    BY <2>1, MessageType, Zenon
  <2>3. ~ IsWord(m) /\ ctrl' = Append(ctrl, m)
    BY <1>7, <2>1, <2>2, Zenon DEF Message, IsWord, Announce
  <2>4. ASSUME man = "serve", ~ missed PROVE Heard(toC[made], bus, hand, ctrl', flag, peer)
    BY <2>3, <2>4, <1>b, <1>c, <1>e, HeardOther, Zenon
  <2>5. QED
    BY <2>1, <2>4, <1>e, Zenon DEF WordInv
<1>8. CASE ProcessTake
  <2>1. /\ hand = <<>> /\ bus # <<>> /\ hand' = <<Head(bus)>> /\ bus' = Tail(bus)
        /\ UNCHANGED <<up, toC, man, missed, made, ctrl, flag, peer>>
    BY <1>8, Zenon DEF ProcessTake
  <2>2. ASSUME man = "serve", ~ missed PROVE Heard(toC[made], bus', hand', ctrl, flag, peer)
    BY <2>1, <2>2, <1>b, <1>e, HeardTake, Zenon
  <2>3. QED
    BY <2>1, <2>2, <1>e, Zenon DEF WordInv
<1>9. CASE ProcessForward
  <2>1. /\ hand # <<>> /\ hand' = <<>> /\ ctrl' = Append(ctrl, Head(hand))
        /\ UNCHANGED <<up, toC, man, missed, made, bus, flag, peer>>
    BY <1>9, Zenon DEF ProcessForward
  <2>2. ASSUME man = "serve", ~ missed PROVE Heard(toC[made], bus, hand', ctrl', flag, peer)
    BY <2>1, <2>2, <1>b, <1>e, HeardForward, Zenon
  <2>3. QED
    BY <2>1, <2>2, <1>e, Zenon DEF WordInv
<1>10. CASE AwaitFirst
  <2>1. man' \in {"first", "ask"} /\ UNCHANGED <<up, toC>>
    BY <1>10, Zenon DEF AwaitFirst
  <2>2. QED
    BY <2>1, <1>e, Zenon DEF WordInv
<1>11. CASE AskConfig
  <2>1. man' = "config" /\ UNCHANGED <<up, toC>>
    BY <1>11, Zenon DEF AskConfig, Requests, Sends
  <2>2. QED
    BY <2>1, <1>e, Zenon DEF WordInv
<1>12. CASE StartDevice
  <2>1. /\ man = "config" /\ wait["man"].got # Nothing /\ flag' = wait["man"].got.on
        /\ UNCHANGED <<up, toC, missed, made, bus, hand, ctrl, peer>>
    BY <1>12, Zenon DEF StartDevice, Right, Answered
  <2>2. ~ missed => flag' = peer
    BY <2>1, <1>a, Zenon DEF ConfigInv
  <2>3. Words(toC[made]) = {} /\ Words(bus) = {} /\ Words(hand) = {} /\ Words(ctrl) = {}
    BY <2>1, <1>a, <1>c, Zenon DEF ManagerInv
  <2>4. Says(toC[made], peer) /\ Says(bus, peer) /\ Says(hand, peer) /\ Says(ctrl, peer)
    BY <2>3, WordsNone, Zenon
  <2>5. ~ missed => Heard(toC[made], bus, hand, ctrl, flag', peer)
    BY <2>2, <2>3, <2>4, Zenon DEF Heard
  <2>6. QED
    BY <2>1, <2>5, <1>e, Zenon DEF WordInv
<1>13. CASE ServeWord \/ ServeConnected
  <2>1. /\ man = "serve" /\ ctrl # <<>> /\ ctrl' = Tail(ctrl)
        /\ UNCHANGED <<up, toC, man, missed, made, bus, hand, peer>>
    BY <1>13, Zenon DEF ServeWord, ServeConnected, Sends
  <2>2. IF IsWord(Head(ctrl)) THEN flag' = Head(ctrl).on ELSE flag' = flag
    BY <1>13, Zenon DEF ServeWord, ServeConnected, IsWord
  <2>3. ASSUME ~ missed PROVE Heard(toC[made], bus, hand, ctrl', flag', peer)
    BY <2>1, <2>2, <2>3, <1>b, <1>e, HeardServe, Zenon
  <2>4. QED
    BY <2>1, <2>3, <1>e, Zenon DEF WordInv
<1>14. CASE PeerTurns
  <2>1. peer' = ~ peer /\ UNCHANGED <<up, man, made, bus, hand, ctrl, flag>>
    BY <1>14, Zenon DEF PeerTurns
  <2>2. CASE held # 0 /\ up[held]
    <3>1. held \in Links /\ held = made
      BY <2>2, <1>a, <1>b, LinkNumbers, Zenon DEF LoopInv
    <3>2. PICK m \in Msg : m = Message(sid[held] + 1, "peer", ~ peer)
      <4>1. sid[held] + 1 \in Nat /\ (~ peer) \in BOOLEAN
        BY <3>1, <1>b
      <4>2. QED
        BY <4>1, MessageType, Zenon
    <3>3. IsWord(m) /\ m.on = ~ peer
      BY <3>2, Zenon DEF Message, IsWord
    <3>4. toC' = [toC EXCEPT ![made] = Append(@, m)]
      BY <1>14, <2>2, <3>1, <3>2, Zenon DEF PeerTurns, Writes
    <3>5. Heard(toC'[made], bus, hand, ctrl, flag, peer')
      <4>1. toC'[made] = Append(toC[made], m) /\ toC[made] \in Seq(Msg)
        BY <3>1, <3>4, <1>b, Zenon
      <4>2. peer' = m.on /\ m.on \in BOOLEAN
        BY <2>1, <3>3, Zenon DEF Msg
      <4>3. QED
        BY <3>3, <4>1, <4>2, HeardTurn, Zenon
    <3>6. \A i \in Links : ~ up'[i] => Words(toC'[i]) = {}
      BY <2>1, <2>2, <3>1, <3>4, <1>b, <1>e, Zenon
    <3>7. QED
      BY <2>1, <3>5, <3>6, Zenon DEF WordInv
  <2>3. CASE ~ (held # 0 /\ up[held])
    <3>1. missed' /\ toC' = toC
      BY <1>14, <2>3, Zenon DEF PeerTurns
    <3>2. QED
      BY <2>1, <3>1, <1>e, Zenon DEF WordInv
  <2>4. QED
    BY <2>2, <2>3, Zenon
<1>15. ASSUME NEW j \in Links, Break(j) PROVE WordInv'
  <2>1. /\ up' = [up EXCEPT ![j] = FALSE] /\ toC' = [toC EXCEPT ![j] = <<>>]
        /\ missed' = (missed \/ Words(toC[j]) # {})
        /\ UNCHANGED <<man, made, bus, hand, ctrl, flag, peer>>
    BY <1>15, Zenon DEF Break
  <2>2. Words(<<>>) = {}
    BY WordsNone, Zenon
  <2>3. \A i \in Links : ~ up'[i] => Words(toC'[i]) = {}
    BY <2>1, <2>2, <1>b, <1>e, Zenon
  <2>4. ASSUME man' = "serve", ~ missed' PROVE Heard(toC'[made], bus, hand, ctrl, flag, peer)
    <3>1. made \in Links /\ ~ missed /\ Words(toC[j]) = {}
      BY <2>1, <2>4, <1>c, Zenon
    <3>2. Heard(toC[made], bus, hand, ctrl, flag, peer)
      BY <2>1, <2>4, <3>1, <1>e, Zenon
    <3>3. CASE j # made
      <4>1. toC'[made] = toC[made]
        BY <2>1, <3>1, <3>3, <1>b, Zenon
      <4>2. QED
        BY <3>2, <4>1, Zenon
    <3>4. CASE j = made
      <4>1. Words(toC'[made]) = {} /\ Words(toC[made]) = {}
        BY <2>1, <2>2, <3>1, <3>4, <1>b, Zenon
      <4>2. QED
        BY <3>2, <4>1, HeardLink, Zenon
    <3>5. QED
      BY <3>3, <3>4, Zenon
  <2>5. QED
    BY <2>1, <2>3, <2>4, Zenon DEF WordInv
<1>16. ASSUME NEW j \in Links, ServerHello(j) \/ ServerHandshake(j) \/ ServerConfig(j)
       PROVE  WordInv'
  <2>1. UNCHANGED <<up, man, made, bus, hand, ctrl, flag, peer>>
    BY <1>16, Zenon DEF ServerHello, ServerHandshake, ServerConfig
  <2>2. PICK m \in Msg :
          m.say # "peer" /\ \A i \in Links : toC'[i] = toC[i] \/ toC'[i] = Append(toC[i], m)
    BY <1>16, <1>a, ServerWrites, Zenon
  <2>3. ~ IsWord(m)
    BY <2>2, Zenon DEF IsWord
  <2>4. \A i \in Links : Words(toC'[i]) = Words(toC[i])
    BY <2>2, <2>3, <1>b, WordsAppend, Zenon
  <2>5. CASE ServerHello(j) \/ ServerHandshake(j)
    <3>1. missed' = missed
      BY <2>5, Zenon DEF ServerHello, ServerHandshake
    <3>2. ASSUME man = "serve", ~ missed PROVE Heard(toC'[made], bus, hand, ctrl, flag, peer)
      <4>1. Heard(toC[made], bus, hand, ctrl, flag, peer) /\ made \in Links
        BY <3>2, <1>c, <1>e, Zenon
      <4>2. CASE toC'[made] = toC[made]
        BY <4>1, <4>2, Zenon
      <4>3. CASE toC'[made] = Append(toC[made], m)
        BY <2>3, <4>1, <4>3, <1>b, HeardOther, Zenon
      <4>4. QED
        BY <2>2, <4>1, <4>2, <4>3, Zenon
    <3>3. QED
      BY <2>1, <2>4, <3>1, <3>2, <1>e, Zenon DEF WordInv
  <2>6. CASE ServerConfig(j)
    <3>1. toS[j] # <<>> /\ IsConfig(Head(toS[j]))
      BY <2>6, Zenon DEF ServerConfig, Takes, IsConfig
    <3>2. Head(toS[j]) \in Range(toS[j])
      BY <3>1, <1>b, RangeOf, WaitTypes, Zenon
    <3>3. man # "serve"
      BY <3>1, <3>2, <1>a, Zenon DEF ConfigInv, HasConfig
    <3>4. QED
      BY <2>1, <2>4, <3>3, <1>e, Zenon DEF WordInv
  <2>7. QED
    BY <1>16, <2>5, <2>6, Zenon
<1>17. ASSUME NEW j \in Links, ServerEnter(j) PROVE WordInv'
  BY <1>1, <1>17, Zenon DEF ServerEnter
<1>18. ASSUME NEW j \in Links, ServerEnds(j) PROVE WordInv'
  <2>1. /\ up' = [up EXCEPT ![j] = FALSE] /\ (~ up[j] \/ serves[j] = "refused")
        /\ UNCHANGED <<toC, man, missed, made, bus, hand, ctrl, flag, peer>>
    BY <1>18, Zenon DEF ServerEnds
  <2>2. Words(toC[j]) = {}
    BY <2>1, <1>a, <1>e, Zenon DEF LinkInv, Words, IsWord
  <2>3. QED
    BY <2>1, <2>2, <1>b, <1>e, Zenon DEF WordInv
<1>19. CASE UNCHANGED daemonVars
  BY <1>1, <1>19, Zenon DEF daemonVars
<1> QED
  BY <1>2, <1>3, <1>4, <1>5, <1>6, <1>7, <1>8, <1>9, <1>10, <1>11, <1>12, <1>13, <1>14, <1>15,
     <1>16, <1>17, <1>18, <1>19, Zenon
     DEF DaemonNext, Reconnect, Manage, Server

-----------------------------------------------------------------------------
\* Answers

\* No task takes a message of another kind for its answer.
LEMMA CrossedStep ==
  ASSUME DaemonInv, [DaemonNext]_daemonVars
  PROVE  ~ crossed'
<1>a. ~ crossed /\ ReconnectInv /\ ManagerInv
  BY Zenon DEF DaemonInv
<1> USE DEF client, manager, links, server, history
<1>1. CASE GiveUp
  <2>1. rec \in {"info", "shake"} /\ crossed' = (crossed \/ (Answered("rec") /\ ~ Right("rec")))
    BY <1>1, Zenon DEF GiveUp, Crossing
  <2>2. Answered("rec") => Right("rec")
    BY <2>1, <1>a, Zenon DEF ReconnectInv, Answered, Right
  <2>3. QED
    BY <2>1, <2>2, <1>a, Zenon
<1>2. CASE ConfigFails
  <2>1. man \in {"ask", "config"} /\ crossed' = (crossed \/ (Answered("man") /\ ~ Right("man")))
    BY <1>2, Zenon DEF ConfigFails, Crossing
  <2>2. Answered("man") => Right("man")
    <3>1. CASE man = "ask"
      <4>1. wait["man"] = NoWait
        BY <3>1, <1>a, Zenon DEF ManagerInv
      <4>2. ~ wait["man"].on
        BY <4>1, SMTT(30) DEF NoWait
      <4>3. QED
        BY <4>2, Zenon DEF Answered
    <3>2. CASE man = "config"
      BY <3>2, <1>a, Zenon DEF ManagerInv, Answered, Right
    <3>3. QED
      BY <2>1, <3>1, <3>2, Zenon
  <2>3. QED
    BY <2>1, <2>2, <1>a, Zenon
<1>3. CASE crossed' = crossed
  BY <1>3, <1>a, Zenon
<1>4. CASE TakeLoop \/ EndLoop \/ Deliver \/ ProcessTake \/ ProcessForward \/ PeerTurns
  BY <1>3, <1>4, Zenon DEF TakeLoop, EndLoop, Deliver, ProcessTake, ProcessForward, PeerTurns
<1>5. CASE Reconnect /\ ~ GiveUp
  BY <1>3, <1>5, Zenon DEF Reconnect, AwaitEnd1, AwaitEnd2, ConnectFails, Connect, HandOver, Handshake,
     Store, Announce
<1>6. CASE Manage /\ ~ ConfigFails
  BY <1>3, <1>6, Zenon DEF Manage, AwaitFirst, FirstTimeout, AskConfig, StartDevice, ServeWord,
     ServeConnected, ConnectedFails
<1>7. ASSUME NEW i \in Links, Break(i) \/ Server(i) PROVE ~ crossed'
  BY <1>3, <1>7, Zenon DEF Break, Server, ServerHello, ServerHandshake, ServerConfig, ServerEnter,
     ServerEnds
<1>8. CASE UNCHANGED daemonVars
  BY <1>3, <1>8, Zenon DEF daemonVars
<1> QED
  BY <1>1, <1>2, <1>4, <1>5, <1>6, <1>7, <1>8, Zenon DEF DaemonNext

-----------------------------------------------------------------------------
\* Theorems

\* A daemon that has just started.
LEMMA DaemonStart ==
  ASSUME DaemonInit
  PROVE  DaemonInv
<1> USE DEF DaemonInit
<1>0. /\ "rec" \in Tasks /\ "man" \in Tasks /\ Nothing \in Msg /\ NoWait \in Waiting
      /\ 0 \in 0 .. MaxLinks /\ <<>> \in Seq(Msg) /\ Range(<<>>) = {} /\ Words(<<>>) = {}
  <2>1. "rec" \in Tasks /\ "man" \in Tasks
    BY Zenon DEF Tasks
  <2>2. 0 \in 0 .. MaxLinks /\ <<>> \in Seq(Msg)
    BY DaemonAssumption, SMTT(30)
  <2>3. QED
    BY <2>1, <2>2, WaitTypes, RangeEmpty, WordsNone, Zenon
<1>1. DaemonTypeOK
  <2>1. /\ etx \in Seq(0 .. MaxLinks) /\ Len(etx) <= 1
        /\ bus \in Seq(Msg) /\ hand \in Seq(Msg) /\ ctrl \in Seq(Msg)
        /\ Len(bus) <= BusSize /\ Len(hand) <= 1 /\ Len(ctrl) <= CtrlSize
    BY DaemonAssumption
  <2>2. /\ made \in 0 .. MaxLinks /\ loop \in 0 .. made /\ conn \in 0 .. made
        /\ held \in 0 .. made /\ turns \in Nat
    BY <1>0
  <2>3. /\ wait \in [Tasks -> Waiting] /\ up \in [Links -> BOOLEAN]
        /\ cid \in [Links -> Nat] /\ sid \in [Links -> Nat]
        /\ toS \in [Links -> Seq(Msg)] /\ toC \in [Links -> Seq(Msg)]
        /\ serves \in [Links -> {"none", "new", "hello", "in", "refused", "gone"}]
    BY <1>0, Zenon
  <2>4. QED
    BY <2>1, <2>2, <2>3, Zenon DEF DaemonTypeOK
<1>2. LoopInv
  BY Zenon DEF LoopInv
<1>3. ASSUME NEW i \in Links PROVE LinkInv(i)
  <2>1. i # 0 /\ ~ (i <= 0)
    BY <1>1, LinkNumbers
  <2>2. QED
    BY <1>0, <2>1, Zenon DEF LinkInv
<1>4. ReconnectInv
  BY <1>0, Zenon DEF ReconnectInv
<1>5. ManagerInv
  <2>1. \A i \in Links : ~ (i <= 0)
    BY <1>1, LinkNumbers
  <2>2. QED
    BY <1>0, <2>1, Zenon DEF ManagerInv
<1>6. ConfigInv
  BY <1>0, Zenon DEF ConfigInv, HasConfig
<1>7. WordInv
  BY <1>0, Zenon DEF WordInv
<1>8. QED
  BY <1>1, <1>2, <1>3, <1>4, <1>5, <1>6, <1>7, Zenon DEF DaemonInv

\* The invariant behind the properties of the daemon's link: there is one link at
\* a time, every wait is answered by the message it is for, and of what is on its
\* way to the manager the latest word about the other peer is right.
THEOREM DaemonInvariant == DaemonSpec => []DaemonInv
<1>1. DaemonInit => DaemonInv
  BY DaemonStart, Zenon
<1>2. DaemonInv /\ [DaemonNext]_daemonVars => DaemonInv'
  <2> SUFFICES ASSUME DaemonInv, [DaemonNext]_daemonVars PROVE DaemonInv'
    BY Zenon
  <2>1. DaemonTypeOK' /\ ~ crossed'
    BY DaemonTypes, CrossedStep, Zenon
  <2>2. LoopInv' /\ (\A i \in Links : LinkInv(i))' /\ ReconnectInv'
    BY LoopStep, LinkStep, ReconnectStep, Zenon
  <2>3. ManagerInv' /\ ConfigInv' /\ WordInv'
    BY ManagerStep, ConfigStep, WordStep, Zenon
  <2> QED
    BY <2>1, <2>2, <2>3, Zenon DEF DaemonInv
<1> QED
  BY <1>1, <1>2, PTL DEF DaemonSpec

\* The client never holds two links (client.rs:76-77), and no task takes a message
\* of another kind for the answer to its request (connect.rs:109), over any number
\* of links, turns of the other peer and places in the channels.
THEOREM LinksAreOwn == DaemonSpec => []LinkIsOwn
<1>1. DaemonInv => LinkIsOwn
  BY Zenon DEF DaemonInv, LoopInv, LinkIsOwn, OneLink
<1> QED
  BY <1>1, DaemonInvariant, PTL

\* The online flag of the other peer in the device is what the server last knew,
\* unless the client could not learn of a change (client.rs:187-192).
THEOREM FlagsAreTrue == DaemonSpec => []FlagIsTrue
<1>1. DaemonInv => FlagIsTrue
  <2> SUFFICES ASSUME DaemonInv, man = "serve", Linked, Told, ~ missed PROVE flag = peer
    BY Zenon DEF DaemonInv, FlagIsTrue, FlagAgrees
  <2>0. conn # 0 /\ DaemonTypeOK
    BY Zenon DEF DaemonInv, ManagerInv
  <2>4. made # 0 /\ made \in 0 .. made
    BY <2>0, LinkNumbers, SMTT(30) DEF DaemonTypeOK
  <2>1. made \in Links
    BY <2>0, <2>4, LinkNumbers, Zenon
  <2>2. Words(toC[made]) = {} /\ Heard(toC[made], bus, hand, ctrl, flag, peer)
    BY <2>1, Zenon DEF DaemonInv, WordInv, Told
  <2>3. Words(bus) = {} /\ Words(hand) = {} /\ Words(ctrl) = {}
    BY Zenon DEF Told
  <2> QED
    BY <2>2, <2>3, Zenon DEF Heard
<1> QED
  BY <1>1, DaemonInvariant, PTL

\* The server refuses the client only because of an earlier link of the same
\* client that is broken and not yet noticed (client.rs:114).
THEOREM RefusalsAreByGhosts == DaemonSpec => RefusedOnlyByGhost
<1>1. DaemonInv /\ [DaemonNext]_daemonVars =>
        [\A i \in Links : (serves[i] = "hello" /\ serves'[i] = "refused")
           => held < i /\ ~ up[held]]_daemonVars
  <2> SUFFICES ASSUME DaemonInv, DaemonNext, NEW i \in Links,
                      serves[i] = "hello", serves'[i] = "refused"
               PROVE  held < i /\ ~ up[held]
    BY Zenon
  <2>a. /\ DaemonTypeOK /\ LoopInv /\ \A j \in Links : LinkInv(j)
        /\ serves \in [Links -> {"none", "new", "hello", "in", "refused", "gone"}]
    BY Zenon DEF DaemonInv, DaemonTypeOK
  <2>b. made \in Nat /\ conn \in 0 .. made /\ held \in 0 .. made /\ i \in Nat
    BY <2>a, LinkNumbers, Zenon DEF DaemonTypeOK
  <2>1. held # 0
    <3> USE <2>a DEF client, manager, links, server, history
    <3>1. CASE \E j \in Links : Server(j)
      BY <3>1, Zenon DEF Server, ServerHello, ServerHandshake, ServerConfig, ServerEnter, ServerEnds
    <3>2. CASE Connect
      BY <3>2, Zenon DEF Connect
    <3>3. CASE serves' = serves
      BY <3>3, Zenon
    <3>4. CASE TakeLoop \/ EndLoop \/ Deliver \/ ProcessTake \/ ProcessForward \/ PeerTurns
      BY <3>3, <3>4, Zenon DEF TakeLoop, EndLoop, Deliver, ProcessTake, ProcessForward, PeerTurns
    <3>5. CASE Reconnect /\ ~ Connect
      BY <3>3, <3>5, Zenon DEF Reconnect, AwaitEnd1, AwaitEnd2, ConnectFails, HandOver, Handshake,
         GiveUp, Store, Announce
    <3>6. CASE Manage
      BY <3>3, <3>6, Zenon DEF Manage, AwaitFirst, FirstTimeout, AskConfig, StartDevice, ConfigFails,
         ServeWord, ServeConnected, ConnectedFails, Exit
    <3>7. CASE \E j \in Links : Break(j)
      BY <3>3, <3>7, Zenon DEF Break
    <3> QED
      BY <3>1, <3>2, <3>4, <3>5, <3>6, <3>7, Zenon DEF DaemonNext
  <2>2. held \in Links /\ held <= conn
    BY <2>a, <2>b, <2>1, LinkNumbers, Zenon DEF LinkInv
  <2>3. ~ (i <= conn) /\ ~ (i > made)
    BY <2>a, Zenon DEF LinkInv
  <2>4. held < i /\ held # made
    BY <2>b, <2>2, <2>3
  <2>5. ~ up[held]
    BY <2>a, <2>2, <2>4, Zenon DEF LoopInv
  <2> QED
    BY <2>4, <2>5, Zenon
<1> QED
  BY <1>1, DaemonInvariant, PTL DEF DaemonSpec, RefusedOnlyByGhost
=============================================================================
