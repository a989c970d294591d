-------------------------- MODULE DaemonLinkProofs --------------------------
(***************************************************************************)
(* The first half of the inductive invariant of Daemon: the types, that    *)
(* there is one link, what may be on its way on a link, and the wait of    *)
(* the reconnecting task.                                                  *)
(***************************************************************************)
EXTENDS Daemon, TLAPS

-----------------------------------------------------------------------------
\* Channels

\* What is in a channel after a message was put into it or taken out of it.
LEMMA RangeOf ==
  ASSUME NEW s \in Seq(Msg), NEW m \in Msg
  PROVE  /\ Range(Append(s, m)) = Range(s) \cup {m}
         /\ Append(s, m) \in Seq(Msg) /\ Len(Append(s, m)) = Len(s) + 1
         /\ s # <<>> => /\ Head(s) \in Msg /\ Head(s) \in Range(s)
                        /\ Tail(s) \in Seq(Msg) /\ Len(Tail(s)) = Len(s) - 1
                        /\ Range(Tail(s)) \subseteq Range(s)
                        /\ Range(s) = Range(Tail(s)) \cup {Head(s)}
         /\ Range(s) \subseteq Msg
<1>1. DOMAIN s = 1 .. Len(s) /\ Len(s) \in Nat
  OBVIOUS
<1>2. Range(Append(s, m)) = Range(s) \cup {m}
  <2>1. DOMAIN Append(s, m) = 1 .. Len(s) + 1
    OBVIOUS
  <2>2. Append(s, m)[Len(s) + 1] = m /\ \A k \in 1 .. Len(s) : Append(s, m)[k] = s[k]
    OBVIOUS
  <2>3. 1 .. Len(s) + 1 = (1 .. Len(s)) \cup {Len(s) + 1}
    BY <1>1
  <2>4. QED
    BY <1>1, <2>1, <2>2, <2>3 DEF Range
<1>3. ASSUME s # <<>>
      PROVE  /\ Head(s) \in Msg /\ Head(s) \in Range(s)
             /\ Tail(s) \in Seq(Msg) /\ Len(Tail(s)) = Len(s) - 1
             /\ Range(Tail(s)) \subseteq Range(s)
             /\ Range(s) = Range(Tail(s)) \cup {Head(s)}
  <2>1. Len(s) >= 1 /\ Head(s) = s[1] /\ s[1] \in Msg
    BY <1>1, <1>3
  <2>2. Tail(s) \in Seq(Msg) /\ Len(Tail(s)) = Len(s) - 1
    BY <1>3
  <2>3. DOMAIN Tail(s) = 1 .. Len(s) - 1 /\ \A k \in 1 .. Len(s) - 1 : Tail(s)[k] = s[k + 1]
    BY <1>3, <2>2
  <2>4. Range(Tail(s)) \subseteq Range(s)
    BY <1>1, <2>3 DEF Range
  <2>5. Range(s) \subseteq Range(Tail(s)) \cup {Head(s)}
    <3>1. ASSUME NEW k \in 1 .. Len(s), k # 1 PROVE s[k] \in Range(Tail(s))
      <4>1. k - 1 \in 1 .. Len(s) - 1 /\ s[k] = Tail(s)[k - 1]
        BY <1>1, <2>3, <3>1
      <4>2. QED
        BY <2>3, <4>1, Zenon DEF Range
    <3>2. QED
      BY <1>1, <2>1, <3>1, Zenon DEF Range
  <2>6. Head(s) \in Range(s)
    BY <1>1, <2>1 DEF Range
  <2>7. QED
    BY <2>1, <2>2, <2>4, <2>5, <2>6, Zenon
<1>4. Range(s) \subseteq Msg
  BY <1>1 DEF Range
<1>5. QED
  BY <1>2, <1>3, <1>4

\* What is in a channel after a message may have been put into it.
LEMMA RangeGrows ==
  ASSUME NEW s \in Seq(Msg), NEW m \in Msg, NEW t, t = s \/ t = Append(s, m)
  PROVE  Range(t) \subseteq Range(s) \cup {m}
<1>1. CASE t = s
  BY <1>1, Zenon
<1>2. CASE t = Append(s, m)
  BY <1>2, RangeOf, Zenon
<1>3. QED
  BY <1>1, <1>2, Zenon

\* An empty channel holds nothing.
LEMMA RangeEmpty == Range(<<>>) = {}
BY DEF Range

\* A place for one message holds it.
LEMMA RangeOne ==
  ASSUME NEW m PROVE Range(<<m>>) = {m} /\ Head(<<m>>) = m /\ <<m>> # <<>>
BY DEF Range

-----------------------------------------------------------------------------
\* Types

LEMMA MessageType ==
  ASSUME NEW id \in Nat, NEW on \in BOOLEAN,
         NEW say \in {"nothing", "info", "handshake", "config", "enter", "peer", "first",
                      "connected"}
  PROVE  Message(id, say, on) \in Msg
BY Zenon DEF Message, Msg

\* The numbers of links.
LEMMA LinkNumbers ==
  ASSUME DaemonTypeOK
  PROVE  /\ \A i : i \in Links <=> i \in 1 .. MaxLinks
         /\ \A i \in Links : i \in Nat /\ i # 0
         /\ \A i \in 0 .. made : i \in Nat /\ (i # 0 => i \in Links)
         /\ made \in Nat /\ MaxLinks \in Nat /\ (made < MaxLinks => made + 1 \in Links)
BY DaemonAssumption, SMTT(30) DEF DaemonTypeOK, Links

\* A task that does not wait, and one that begins to.
LEMMA WaitTypes ==
  /\ Nothing \in Msg /\ NoWait \in Waiting
  /\ \A id \in Nat : \A say \in {"info", "handshake", "config"} :
       /\ [NoWait EXCEPT !.on = TRUE, !.for = say] \in Waiting
       /\ [NoWait EXCEPT !.on = TRUE, !.id = id, !.for = say] \in Waiting
  /\ \A w \in Waiting : \A m \in Msg : [w EXCEPT !.got = m] \in Waiting
BY Zenon DEF NoWait, Nothing, Waiting, Msg

\* A message is sent on a link.
LEMMA SendsTypes ==
  ASSUME DaemonTypeOK, NEW i \in Links, NEW say \in {"handshake", "config", "enter"},
         Sends(i, say)
  PROVE  /\ loop = i /\ UNCHANGED <<up, sid, toC>>
         /\ cid' \in [Links -> Nat] /\ toS' \in [Links -> Seq(Msg)]
         /\ cid[i] + 1 \in Nat
<1>0. cid[i] \in Nat /\ toS[i] \in Seq(Msg)
  BY Zenon DEF DaemonTypeOK
<1>1. cid[i] + 1 \in Nat
  BY <1>0
<1>2. Message(cid[i] + 1, say, FALSE) \in Msg
  BY <1>1, MessageType, Zenon
<1>3. Append(toS[i], Message(cid[i] + 1, say, FALSE)) \in Seq(Msg)
  BY <1>0, <1>2, RangeOf, Zenon
<1>4. QED
  BY <1>1, <1>3, Zenon DEF Sends, DaemonTypeOK

\* The server writes to a link.
LEMMA WritesTypes ==
  ASSUME DaemonTypeOK, NEW i \in Links, NEW m \in Msg, Writes(i, m)
  PROVE  toC' \in [Links -> Seq(Msg)]
<1>1. Append(toC[i], m) \in Seq(Msg)
  BY DEF DaemonTypeOK
<1>2. QED
  BY <1>1, Zenon DEF Writes, DaemonTypeOK

\* The server takes a message.
LEMMA TakesTypes ==
  ASSUME DaemonTypeOK, NEW i \in Links, NEW at, NEW say, Takes(i, at, say)
  PROVE  toS' \in [Links -> Seq(Msg)] /\ Head(toS[i]) \in Msg /\ Head(toS[i]).id \in Nat
<1>1. toS[i] \in Seq(Msg) /\ toS[i] # <<>>
  BY Zenon DEF Takes, DaemonTypeOK
<1>2. Head(toS[i]) \in Msg /\ Tail(toS[i]) \in Seq(Msg)
  BY <1>1
<1>3. QED
  BY <1>2, Zenon DEF Takes, DaemonTypeOK, Msg

\* A message that is sent on a link is put into the channel of the link, if it
\* holds, and is numbered by the client's counter.
LEMMA SendsMessage ==
  ASSUME DaemonTypeOK, NEW i \in Links, NEW say \in {"handshake", "config", "enter"},
         Sends(i, say)
  PROVE  /\ UNCHANGED <<up, sid, toC>>
         /\ \A j \in Links : j # i => cid'[j] = cid[j]
         /\ cid'[i] = cid[i] + 1
         /\ \E m \in Msg :
              /\ m.say = say /\ m.id = cid[i] + 1
              /\ \A j \in Links : \/ toS'[j] = toS[j]
                                  \/ j = i /\ toS'[j] = Append(toS[j], m)
              /\ \A j \in Links : Range(toS'[j]) \subseteq Range(toS[j]) \cup {m}
<1>0. /\ cid \in [Links -> Nat] /\ toS \in [Links -> Seq(Msg)] /\ cid[i] + 1 \in Nat
  BY DEF DaemonTypeOK
<1>1. PICK m \in Msg : m = Message(cid[i] + 1, say, FALSE)
  BY <1>0, MessageType, Zenon
<1>2. m.say = say /\ m.id = cid[i] + 1
  BY <1>1, Zenon DEF Message
<1>3. \A j \in Links : toS'[j] = toS[j] \/ (j = i /\ toS'[j] = Append(toS[j], m))
  BY <1>0, <1>1, Zenon DEF Sends
<1>4. \A j \in Links : Range(toS'[j]) \subseteq Range(toS[j]) \cup {m}
  BY <1>0, <1>3, RangeGrows, Zenon
<1>5. UNCHANGED <<up, sid, toC>>
  BY Zenon DEF Sends
<1>6. cid'[i] = cid[i] + 1 /\ \A j \in Links : j # i => cid'[j] = cid[j]
  BY <1>0, Zenon DEF Sends
<1>7. QED
  BY <1>2, <1>3, <1>4, <1>5, <1>6, Zenon

\* What the server writes to a client, but for words about the other peer.
LEMMA ServerWrites ==
  ASSUME DaemonTypeOK, NEW i \in Links,
         ServerHello(i) \/ ServerHandshake(i) \/ ServerConfig(i)
  PROVE  \E m \in Msg :
           /\ m.say \in {"info", "handshake", "config"} /\ (m.say = "config" => serves[i] = "in")
           /\ \A j \in Links : toC'[j] = toC[j] \/ toC'[j] = Append(toC[j], m)
           /\ \A j \in Links : Range(toC'[j]) \subseteq Range(toC[j]) \cup {m}
<1>0. toC \in [Links -> Seq(Msg)] /\ peer \in BOOLEAN /\ (held = 0) \in BOOLEAN
  BY Zenon DEF DaemonTypeOK
<1>1. ASSUME NEW m \in Msg, Writes(i, m)
      PROVE  /\ \A j \in Links : toC'[j] = toC[j] \/ toC'[j] = Append(toC[j], m)
             /\ \A j \in Links : Range(toC'[j]) \subseteq Range(toC[j]) \cup {m}
  <2>1. \A j \in Links : toC'[j] = toC[j] \/ toC'[j] = Append(toC[j], m)
    BY <1>0, <1>1, Zenon DEF Writes
  <2>2. QED
    BY <1>0, <2>1, RangeGrows, Zenon
<1>2. CASE ServerHello(i)
  <2>1. Message(1, "info", FALSE) \in Msg /\ Message(1, "info", FALSE).say = "info"
    BY MessageType, Zenon DEF Message
  <2>2. QED
    BY <1>1, <1>2, <2>1, Zenon DEF ServerHello
<1>3. CASE ServerHandshake(i)
  <2>1. Head(toS[i]).id \in Nat
    BY <1>3, TakesTypes, Zenon DEF ServerHandshake
  <2>2. /\ Message(Head(toS[i]).id, "handshake", held = 0) \in Msg
        /\ Message(Head(toS[i]).id, "handshake", held = 0).say = "handshake"
    BY <1>0, <2>1, MessageType, Zenon DEF Message
  <2>3. QED
    BY <1>1, <1>3, <2>2, Zenon DEF ServerHandshake
<1>4. CASE ServerConfig(i)
  <2>1. Head(toS[i]).id \in Nat /\ serves[i] = "in"
    BY <1>4, TakesTypes, Zenon DEF ServerConfig, Takes
  <2>2. /\ Message(Head(toS[i]).id, "config", peer) \in Msg
        /\ Message(Head(toS[i]).id, "config", peer).say = "config"
    BY <1>0, <2>1, MessageType, Zenon DEF Message
  <2>3. QED
    BY <1>1, <1>4, <2>1, <2>2, Zenon DEF ServerConfig
<1>5. QED
  BY <1>2, <1>3, <1>4, Zenon

\* What the event loop delivers goes into the broadcast channel, in the place of
\* the oldest message there when the channel is full.
LEMMA Delivers ==
  ASSUME DaemonTypeOK, Deliver
  PROVE  /\ loop \in Links /\ toC[loop] \in Seq(Msg) /\ toC[loop] # <<>>
         /\ \E m \in Msg :
              /\ m = Head(toC[loop]) /\ m \in Range(toC[loop])
              /\ \/ bus' = Append(bus, m)
                 \/ /\ bus # <<>> /\ bus' = Append(Tail(bus), m)
                    /\ ~ missed' => ~ IsWord(Head(bus))
              /\ Range(bus') \subseteq Range(bus) \cup {m}
              /\ \A t \in Tasks :
                   wait'[t] = IF Hears(wait[t], m) THEN [wait[t] EXCEPT !.got = m] ELSE wait[t]
         /\ \A i \in Links : toC'[i] = (IF i = loop THEN Tail(toC[loop]) ELSE toC[i])
         /\ \A i \in Links : Range(toC'[i]) \subseteq Range(toC[i])
<1>0. bus \in Seq(Msg) /\ toC \in [Links -> Seq(Msg)]
  BY Zenon DEF DaemonTypeOK
<1>1. loop \in Links /\ toC[loop] \in Seq(Msg) /\ toC[loop] # <<>>
  BY <1>0, LinkNumbers, Zenon DEF Deliver, DaemonTypeOK
<1>2. PICK m \in Msg : m = Head(toC[loop])
  BY <1>1
<1>3. m \in Range(toC[loop]) /\ Range(Tail(toC[loop])) \subseteq Range(toC[loop])
  BY <1>1, <1>2, RangeOf, Zenon
<1>4. \A i \in Links : toC'[i] = (IF i = loop THEN Tail(toC[loop]) ELSE toC[i])
  BY <1>0, <1>1, Zenon DEF Deliver
<1>5. \A t \in Tasks :
        wait'[t] = IF Hears(wait[t], m) THEN [wait[t] EXCEPT !.got = m] ELSE wait[t]
  BY <1>2, Zenon DEF Deliver
<1>6. CASE Len(bus) < BusSize
  <2>1. bus' = Append(bus, m)
    BY <1>2, <1>6, Zenon DEF Deliver
  <2>2. Range(bus') \subseteq Range(bus) \cup {m}
    BY <1>0, <2>1, RangeOf, Zenon
  <2>3. QED
    BY <1>1, <1>2, <1>3, <1>4, <1>5, <2>1, <2>2, Zenon
<1>7. CASE ~ (Len(bus) < BusSize)
  <2>1. bus # <<>>
    BY <1>7, DaemonAssumption
  <2>2. bus' = Append(Tail(bus), m) /\ (~ missed' => ~ IsWord(Head(bus)))
    BY <1>2, <1>7, Zenon DEF Deliver
  <2>3. Tail(bus) \in Seq(Msg) /\ Range(Tail(bus)) \subseteq Range(bus)
    BY <1>0, <2>1, RangeOf, WaitTypes, Zenon
  <2>4. Range(bus') = Range(Tail(bus)) \cup {m}
    BY <2>2, <2>3, RangeOf, Zenon
  <2>5. QED
    BY <1>1, <1>2, <1>3, <1>4, <1>5, <2>1, <2>2, <2>3, <2>4, Zenon
<1>8. QED
  BY <1>6, <1>7, Zenon

\* A step of the server's task of a link leaves most variables alone.
LEMMA ServerTypes ==
  ASSUME DaemonTypeOK, UNCHANGED <<client, manager, up, cid, peer, turns>>,
         sid' \in [Links -> Nat], toS' \in [Links -> Seq(Msg)], toC' \in [Links -> Seq(Msg)],
         serves' \in [Links -> {"none", "new", "hello", "in", "refused", "gone"}],
         held' \in 0 .. made,
         missed' \in BOOLEAN, displaced' \in BOOLEAN, crossed' \in BOOLEAN
  PROVE  DaemonTypeOK'
<1>1. UNCHANGED <<etx, loop, rec, made, conn, bus, hand, wait, ctrl, man, flag, up, cid, peer, turns>>
  BY Zenon DEF client, manager
<1>2. QED
  BY <1>1, Zenon DEF DaemonTypeOK

\* An exit of the manager leaves the client, its channels and the server alone.
LEMMA ExitTypes ==
  ASSUME DaemonTypeOK, Exit, missed' \in BOOLEAN, displaced' \in BOOLEAN, crossed' \in BOOLEAN
  PROVE  DaemonTypeOK'
<1>1. /\ UNCHANGED <<etx, loop, rec, made, conn, bus, hand, wait, ctrl, flag, cid, sid, toS, toC>>
      /\ UNCHANGED <<serves, held, peer, turns>> /\ man' = "over"
  BY Zenon DEF Exit, client, server
<1>2. up' \in [Links -> BOOLEAN]
  BY Zenon DEF Exit
<1>3. QED
  BY <1>1, <1>2, Zenon DEF DaemonTypeOK

\* The variables keep their types.
LEMMA DaemonTypes ==
  ASSUME DaemonInv, [DaemonNext]_daemonVars
  PROVE  DaemonTypeOK'
<1>a. DaemonTypeOK
  BY Zenon DEF DaemonInv
<1>0. man \in {"ask", "config", "serve"} => conn \in Links
  BY <1>a, LinkNumbers, Zenon DEF DaemonInv, ManagerInv, DaemonTypeOK
<1> USE <1>a, DaemonAssumption DEF DaemonTypeOK, client, manager, links, server, history
<1>1. CASE TakeLoop
  <2>1. Head(etx) \in 0 .. made
    BY <1>1 DEF TakeLoop, Linked, DaemonInv, LoopInv
  <2>2. QED
    BY <1>1, <2>1 DEF TakeLoop
<1>2. CASE EndLoop
  BY <1>2 DEF EndLoop
<1>3. CASE Deliver
  <2>1. loop \in Links /\ toC[loop] \in Seq(Msg) /\ toC[loop] # <<>>
    BY <1>3, LinkNumbers, Zenon DEF Deliver
  <2>2. Head(toC[loop]) \in Msg /\ Tail(toC[loop]) \in Seq(Msg)
    BY <2>1
  <2>3. toC' \in [Links -> Seq(Msg)]
    BY <1>3, <2>2, Zenon DEF Deliver
  <2>4. wait' \in [Tasks -> Waiting]
    <3>1. ASSUME NEW t \in Tasks
          PROVE  (IF Hears(wait[t], Head(toC[loop]))
                  THEN [wait[t] EXCEPT !.got = Head(toC[loop])] ELSE wait[t]) \in Waiting
      BY <2>2, WaitTypes, Zenon
    <3>2. QED
      BY <1>3, <3>1, Zenon DEF Deliver
  <2>5. bus' \in Seq(Msg) /\ Len(bus') <= BusSize
    <3>1. CASE Len(bus) < BusSize
      <4>1. bus' = Append(bus, Head(toC[loop]))
        BY <1>3, <3>1, Zenon DEF Deliver
      <4>2. QED
        BY <2>2, <3>1, <4>1, RangeOf
    <3>2. CASE ~ (Len(bus) < BusSize)
      <4>1. bus # <<>>
        BY <3>2
      <4>2. Tail(bus) \in Seq(Msg) /\ Len(Tail(bus)) = Len(bus) - 1 /\ Len(bus) \in Nat
        BY <4>1
      <4>3. bus' = Append(Tail(bus), Head(toC[loop]))
        BY <1>3, <3>2, Zenon DEF Deliver
      <4>4. QED
        BY <2>2, <4>2, <4>3
    <3>3. QED
      BY <3>1, <3>2, Zenon
  <2>6. missed' \in BOOLEAN
    BY <1>3, Zenon DEF Deliver
  <2>7. QED
    BY <1>3, <2>3, <2>4, <2>5, <2>6 DEF Deliver
<1>4. CASE AwaitEnd1 \/ AwaitEnd2 \/ ConnectFails
  <2>1. <<0>> \in Seq(0 .. MaxLinks) /\ Len(<<0>>) = 1
    OBVIOUS
  <2>2. etx' = <<0>> \/ etx' = etx
    BY <1>4, Zenon DEF AwaitEnd1, AwaitEnd2, ConnectFails
  <2>3. rec' \in {"end1", "end2", "connect"}
    BY <1>4, Zenon DEF AwaitEnd1, AwaitEnd2, ConnectFails
  <2>4. UNCHANGED <<loop, made, conn, bus, hand, wait, manager, links, server, history>>
    BY <1>4, Zenon DEF AwaitEnd1, AwaitEnd2, ConnectFails
  <2>5. etx' \in Seq(0 .. MaxLinks) /\ Len(etx') <= 1
    <3>1. CASE etx' = etx
      BY <3>1, Zenon
    <3>2. CASE etx' = <<0>>
      BY <2>1, <3>2
    <3>3. QED
      BY <2>2, <3>1, <3>2, Zenon
  <2>6. QED
    BY <2>3, <2>4, <2>5
<1>5. CASE Connect
  <2>1. made + 1 \in 0 .. MaxLinks /\ made' = made + 1
    BY <1>5, SMTT(30) DEF Connect
  <2>2. wait' \in [Tasks -> Waiting]
    BY <1>5, WaitTypes, Zenon DEF Connect
  <2>3. loop' \in 0 .. made' /\ conn' \in 0 .. made' /\ held' \in 0 .. made'
    BY <1>5, <2>1, SMTT(30) DEF Connect
  <2>4. up' \in [Links -> BOOLEAN]
    BY <1>5, Zenon DEF Connect
  <2>5. QED
    BY <1>5, <2>1, <2>2, <2>3, <2>4, Zenon DEF Connect
<1>6. CASE HandOver
  BY <1>6 DEF HandOver
<1>7. CASE Handshake
  <2>1. rec = "info" /\ Sends(made, "handshake")
    BY <1>7, Zenon DEF Handshake, Requests
  <2>2. made \in Links
    BY <2>1, LinkNumbers DEF DaemonInv, LoopInv
  <2>3. wait' \in [Tasks -> Waiting]
    BY <1>7, <2>1, <2>2, SendsTypes, WaitTypes, Zenon DEF Handshake, Requests
  <2>4. cid' \in [Links -> Nat] /\ toS' \in [Links -> Seq(Msg)] /\ UNCHANGED <<up, sid, toC>>
    BY <2>1, <2>2, SendsTypes, Zenon
  <2>5. QED
    BY <1>7, <2>3, <2>4, Zenon DEF Handshake
<1>8. CASE GiveUp
  <2>1. wait' \in [Tasks -> Waiting]
    BY <1>8, WaitTypes, Zenon DEF GiveUp, StopClient
  <2>2. crossed' \in BOOLEAN
    BY <1>8, Zenon DEF GiveUp, Crossing
  <2>3. QED
    BY <1>8, <2>1, <2>2 DEF GiveUp, StopClient
<1>9. CASE Store
  <2>1. wait' \in [Tasks -> Waiting]
    BY <1>9, WaitTypes, Zenon DEF Store
  <2>2. QED
    BY <1>9, <2>1 DEF Store
<1>10. CASE Announce
  <2>1. rec \in {"first", "connected"}
    BY <1>10, Zenon DEF Announce
  <2>2. PICK m \in Msg : m = Message(0, rec, FALSE)
    BY <2>1, MessageType, Zenon
  <2>3. ctrl' = Append(ctrl, m) /\ Len(ctrl) < CtrlSize
    BY <1>10, <2>2, Zenon DEF Announce
  <2>4. ctrl' \in Seq(Msg) /\ Len(ctrl') <= CtrlSize
    BY <2>3
  <2>5. /\ rec' \in {"connected", "end1"}
        /\ UNCHANGED <<etx, loop, made, conn, bus, hand, wait, man, flag, links, server, history>>
    BY <1>10, Zenon DEF Announce
  <2>6. QED
    BY <2>4, <2>5
<1>11. CASE ProcessTake
  BY <1>11 DEF ProcessTake
<1>12. CASE ProcessForward
  BY <1>12 DEF ProcessForward
<1>13. CASE AwaitFirst
  BY <1>13 DEF AwaitFirst
<1>14. CASE FirstTimeout \/ ConfigFails \/ ConnectedFails
  <2>1. crossed' \in BOOLEAN
    BY <1>14, Zenon DEF FirstTimeout, ConfigFails, ConnectedFails, Crossing
  <2>2. Exit /\ missed' = missed /\ displaced' = displaced
    BY <1>14, Zenon DEF FirstTimeout, ConfigFails, ConnectedFails
  <2>3. missed' \in BOOLEAN /\ displaced' \in BOOLEAN
    BY <2>2, Zenon
  <2> HIDE DEF DaemonTypeOK
  <2>4. QED
    BY <1>a, <2>1, <2>2, <2>3, ExitTypes, Zenon
<1>15. CASE AskConfig
  <2>1. conn \in Links
    BY <1>0, <1>15, Zenon DEF AskConfig
  <2>2. Sends(conn, "config")
    BY <1>15, Zenon DEF AskConfig, Requests
  <2>3. wait' \in [Tasks -> Waiting]
    BY <1>15, <2>1, <2>2, SendsTypes, WaitTypes, Zenon DEF AskConfig, Requests
  <2>4. cid' \in [Links -> Nat] /\ toS' \in [Links -> Seq(Msg)] /\ UNCHANGED <<up, sid, toC>>
    BY <2>1, <2>2, SendsTypes, Zenon
  <2>5. QED
    BY <1>15, <2>3, <2>4, Zenon DEF AskConfig
<1>16. CASE StartDevice
  <2>1. wait["man"] \in Waiting
    BY Zenon DEF Tasks
  <2>2. flag' \in BOOLEAN
    BY <1>16, <2>1, Zenon DEF StartDevice, Waiting, Msg
  <2>3. wait' \in [Tasks -> Waiting]
    BY <1>16, WaitTypes, Zenon DEF StartDevice
  <2>4. QED
    BY <1>16, <2>2, <2>3, Zenon DEF StartDevice
<1>17. CASE ServeWord
  <2>1. Head(ctrl) \in Msg /\ Tail(ctrl) \in Seq(Msg) /\ Len(Tail(ctrl)) <= CtrlSize
    BY <1>17 DEF ServeWord
  <2>2. flag' \in BOOLEAN
    BY <1>17, <2>1, Zenon DEF ServeWord, Msg
  <2>3. QED
    BY <1>17, <2>1, <2>2, Zenon DEF ServeWord
<1>18. CASE ServeConnected
  <2>1. conn \in Links
    BY <1>0, <1>18, Zenon DEF ServeConnected
  <2>2. Sends(conn, "enter")
    BY <1>18, Zenon DEF ServeConnected
  <2>3. cid' \in [Links -> Nat] /\ toS' \in [Links -> Seq(Msg)] /\ UNCHANGED <<up, sid, toC>>
    BY <2>1, <2>2, SendsTypes, Zenon
  <2>4. QED
    BY <1>18, <2>3 DEF ServeConnected
<1>19. CASE PeerTurns
  <2>1. peer' \in BOOLEAN /\ turns' \in Nat /\ missed' \in BOOLEAN
    <3>1. turns' = turns + 1 /\ peer' = ~ peer
      BY <1>19, Zenon DEF PeerTurns
    <3>2. missed' = missed \/ missed' = TRUE
      BY <1>19, Zenon DEF PeerTurns
    <3>3. turns' \in Nat
      BY <3>1
    <3>4. (~ peer) \in BOOLEAN
      BY Zenon, Zenon
    <3>5. missed' \in BOOLEAN
      BY <3>2, Zenon
    <3>6. QED
      BY <3>1, <3>3, <3>4, <3>5, Zenon
  <2>2. sid' \in [Links -> Nat] /\ toC' \in [Links -> Seq(Msg)]
    <3>1. CASE held # 0 /\ up[held]
      <4>1. held \in Links
        BY <3>1, LinkNumbers, Zenon
      <4>2. sid[held] + 1 \in Nat /\ (~ peer) \in BOOLEAN
        BY <4>1
      <4>3. Message(sid[held] + 1, "peer", ~ peer) \in Msg
        BY <4>2, MessageType, Zenon
      <4>4. toC' \in [Links -> Seq(Msg)]
        BY <1>19, <3>1, <4>1, <4>3, WritesTypes, Zenon DEF PeerTurns
      <4>5. QED
        BY <1>19, <3>1, <4>1, <4>2, <4>4, Zenon DEF PeerTurns
    <3>2. CASE ~ (held # 0 /\ up[held])
      BY <1>19, <3>2, Zenon DEF PeerTurns
    <3>3. QED
      BY <3>1, <3>2, Zenon
  <2>3. QED
    BY <1>19, <2>1, <2>2, Zenon DEF PeerTurns
<1>20. ASSUME NEW i \in Links, Break(i) PROVE DaemonTypeOK'
  BY <1>20 DEF Break
<1>21. ASSUME NEW i \in Links, ServerHello(i) PROVE DaemonTypeOK'
  <2>1. toC' \in [Links -> Seq(Msg)]
    BY <1>21, MessageType, WritesTypes, Zenon DEF ServerHello
  <2>2. serves' \in [Links -> {"none", "new", "hello", "in", "refused", "gone"}]
    BY <1>21, Zenon DEF ServerHello
  <2>3. sid' \in [Links -> Nat]
    BY <1>21, Zenon DEF ServerHello
  <2>4. UNCHANGED <<client, manager, up, cid, toS, held, peer, turns, history>>
    BY <1>21, Zenon DEF ServerHello
  <2>5. /\ toS' \in [Links -> Seq(Msg)] /\ held' \in 0 .. made
        /\ missed' \in BOOLEAN /\ displaced' \in BOOLEAN /\ crossed' \in BOOLEAN
    BY <2>4, Zenon
  <2> HIDE DEF DaemonTypeOK, client, manager
  <2>6. QED
    BY <1>a, <2>1, <2>2, <2>3, <2>4, <2>5, ServerTypes, Zenon
<1>22. ASSUME NEW i \in Links, ServerHandshake(i) PROVE DaemonTypeOK'
  <2>1. Takes(i, "hello", "handshake") /\ (held = 0) \in BOOLEAN
    BY <1>22, Zenon DEF ServerHandshake
  <2>2. toS' \in [Links -> Seq(Msg)] /\ Head(toS[i]).id \in Nat
    BY <2>1, TakesTypes, Zenon
  <2>3. toC' \in [Links -> Seq(Msg)]
    BY <1>22, <2>1, <2>2, MessageType, WritesTypes, Zenon DEF ServerHandshake
  <2>4. serves' \in [Links -> {"none", "new", "hello", "in", "refused", "gone"}]
    BY <1>22, Zenon DEF ServerHandshake
  <2>5. UNCHANGED <<client, manager, up, cid, sid, held, peer, turns, history>>
    BY <1>22, Zenon DEF ServerHandshake
  <2>6. /\ sid' \in [Links -> Nat] /\ held' \in 0 .. made
        /\ missed' \in BOOLEAN /\ displaced' \in BOOLEAN /\ crossed' \in BOOLEAN
    BY <2>5, Zenon
  <2> HIDE DEF DaemonTypeOK, client, manager
  <2>7. QED
    BY <1>a, <2>2, <2>3, <2>4, <2>5, <2>6, ServerTypes, Zenon
<1>23. ASSUME NEW i \in Links, ServerConfig(i) PROVE DaemonTypeOK'
  <2>1. Takes(i, "in", "config")
    BY <1>23, Zenon DEF ServerConfig
  <2>2. toS' \in [Links -> Seq(Msg)] /\ Head(toS[i]).id \in Nat
    BY <2>1, TakesTypes, Zenon
  <2>3. toC' \in [Links -> Seq(Msg)]
    BY <1>23, <2>2, MessageType, WritesTypes, Zenon DEF ServerConfig
  <2>4. UNCHANGED <<client, manager, up, cid, sid, server, displaced, crossed>> /\ missed' = FALSE
    BY <1>23, Zenon DEF ServerConfig
  <2>5. /\ UNCHANGED <<client, manager, up, cid, peer, turns>>
        /\ sid' \in [Links -> Nat] /\ held' \in 0 .. made
        /\ serves' \in [Links -> {"none", "new", "hello", "in", "refused", "gone"}]
        /\ missed' \in BOOLEAN /\ displaced' \in BOOLEAN /\ crossed' \in BOOLEAN
    BY <2>4, Zenon
  <2> HIDE DEF DaemonTypeOK, client, manager
  <2>6. QED
    BY <1>a, <2>2, <2>3, <2>5, ServerTypes, Zenon
<1>24. ASSUME NEW i \in Links, ServerEnter(i) PROVE DaemonTypeOK'
  <2>1. serves[i] = "in" /\ Takes(i, "in", "enter")
    BY <1>24, Zenon DEF ServerEnter, Takes
  <2>2. i \in Nat /\ ~ (i > made)
    BY <2>1, LinkNumbers, Zenon DEF DaemonInv, LinkInv
  <2>3. toS' \in [Links -> Seq(Msg)]
    BY <2>1, TakesTypes, Zenon
  <2>4. QED
    <3>1. held' = i /\ made' = made /\ i \in 0 .. made
      BY <1>24, <2>2, LinkNumbers DEF ServerEnter
    <3>2. displaced' \in BOOLEAN
      BY <1>24, Zenon DEF ServerEnter
    <3>3. UNCHANGED <<client, manager, up, cid, sid, toC, serves, peer, turns, missed, crossed>>
      BY <1>24, Zenon DEF ServerEnter
    <3>4. /\ sid' \in [Links -> Nat] /\ toC' \in [Links -> Seq(Msg)]
          /\ serves' \in [Links -> {"none", "new", "hello", "in", "refused", "gone"}]
          /\ missed' \in BOOLEAN /\ crossed' \in BOOLEAN
      BY <3>3, Zenon
    <3> HIDE DEF DaemonTypeOK, client, manager
    <3>5. QED
      BY <1>a, <2>3, <3>1, <3>2, <3>3, <3>4, ServerTypes, Zenon
<1>25. ASSUME NEW i \in Links, ServerEnds(i) PROVE DaemonTypeOK'
  BY <1>25 DEF ServerEnds
<1>26. CASE UNCHANGED daemonVars
  BY <1>26 DEF daemonVars
<1> QED
  BY <1>1, <1>2, <1>3, <1>4, <1>5, <1>6, <1>7, <1>8, <1>9, <1>10, <1>11, <1>12, <1>13, <1>14,
     <1>15, <1>16, <1>17, <1>18, <1>19, <1>20, <1>21, <1>22, <1>23, <1>24, <1>25, <1>26, Zenon
     DEF DaemonNext, Reconnect, Manage, Server

-----------------------------------------------------------------------------
\* One link

\* There is one link: an event loop runs or is about to for the link that is up,
\* and no link is made while one does.
LEMMA LoopStep ==
  ASSUME DaemonInv, [DaemonNext]_daemonVars
  PROVE  LoopInv'
<1>a. DaemonTypeOK /\ LoopInv
  BY Zenon DEF DaemonInv
<1> USE <1>a DEF client, manager, links, server, history, LoopInv
<1>b. up \in [Links -> BOOLEAN] /\ made \in Nat /\ conn \in Nat
  BY LinkNumbers, Zenon DEF DaemonTypeOK
<1>c. /\ <<0>> # <<>> /\ Head(<<0>>) = 0
      /\ \A i : <<i>> # <<>> /\ Head(<<i>>) = i
      /\ \A i, j : <<i>> = <<j>> => i = j
  OBVIOUS
<1>1. CASE TakeLoop
  BY <1>1, <1>b, <1>c, Zenon DEF TakeLoop, Linked
<1>2. CASE EndLoop
  BY <1>2, <1>b, Zenon DEF EndLoop, Linked
<1>3. CASE UNCHANGED <<up, made, loop, etx, rec, conn>>
  BY <1>3, Zenon
<1>4. CASE AwaitEnd1
  BY <1>4, <1>b, <1>c, Zenon DEF AwaitEnd1, Linked
<1>5. CASE AwaitEnd2
  BY <1>5, <1>b, <1>c, Zenon DEF AwaitEnd2, Linked
<1>6. CASE ConnectFails
  BY <1>6, <1>b, Zenon DEF ConnectFails, Linked
<1>7. CASE Connect
  <2>1. \A i \in Links : ~ up[i]
    <3>1. rec = "connect" /\ loop = 0 /\ etx \in {<<>>, <<0>>}
      BY <1>7, Zenon DEF Connect, Linked
    <3>2. QED
      BY <3>1, <1>c, LinkNumbers, Zenon
  <2>2. \A i \in Links : up'[i] => i = made'
    BY <1>7, <2>1, <1>b, Zenon DEF Connect
  <2>3. QED
    BY <1>7, <2>2, <1>b, <1>c, Zenon DEF Connect, Linked
<1>8. CASE HandOver
  <2>1. rec = "handover" /\ rec' = "info" /\ etx' = <<made>> /\ UNCHANGED <<up, made, loop, conn>>
    BY <1>8, Zenon DEF HandOver
  <2>2. made = conn + 1 /\ loop = 0
    BY <2>1, Zenon
  <2>3. \A i \in Links : up'[i] => i = made' /\ etx' = <<i>>
    BY <2>1, Zenon
  <2>4. QED
    BY <2>1, <2>2, <2>3, Zenon
<1>9. CASE Handshake
  BY <1>9, <1>b, <1>c, LinkNumbers DEF Handshake, Requests, Sends, Linked
<1>10. CASE GiveUp
  BY <1>10, <1>b, Zenon DEF GiveUp, StopClient
<1>11. CASE Store
  BY <1>11, <1>b, LinkNumbers DEF Store, Linked
<1>12. CASE Announce
  BY <1>12, <1>b, Zenon DEF Announce, Linked
<1>13. CASE FirstTimeout \/ ConfigFails \/ ConnectedFails
  BY <1>13, <1>b, Zenon DEF FirstTimeout, ConfigFails, ConnectedFails, Exit
<1>14. ASSUME NEW i \in Links, Break(i) \/ ServerEnds(i) PROVE LoopInv'
  <2>1. \A j \in Links : up'[j] => up[j]
    BY <1>14, <1>b, Zenon DEF Break, ServerEnds
  <2>2. UNCHANGED <<made, loop, etx, rec, conn>>
    BY <1>14, Zenon DEF Break, ServerEnds
  <2>3. QED
    BY <2>1, <2>2, Zenon
<1>15. CASE Deliver \/ ProcessTake \/ ProcessForward \/ AwaitFirst \/ StartDevice \/ ServeWord
            \/ PeerTurns
  BY <1>15, <1>3, Zenon DEF Deliver, ProcessTake, ProcessForward, AwaitFirst, StartDevice, ServeWord,
     PeerTurns
<1>16. CASE AskConfig \/ ServeConnected
  BY <1>16, <1>3, Zenon DEF AskConfig, ServeConnected, Requests, Sends
<1>17. ASSUME NEW i \in Links,
              ServerHello(i) \/ ServerHandshake(i) \/ ServerConfig(i) \/ ServerEnter(i)
       PROVE  LoopInv'
  BY <1>17, <1>3, Zenon DEF ServerHello, ServerHandshake, ServerConfig, ServerEnter
<1>18. CASE UNCHANGED daemonVars
  BY <1>18, <1>3, Zenon DEF daemonVars
<1> QED
  BY <1>1, <1>2, <1>4, <1>5, <1>6, <1>7, <1>8, <1>9, <1>10, <1>11, <1>12, <1>13, <1>14,
     <1>15, <1>16, <1>17, <1>18, Zenon
     DEF DaemonNext, Reconnect, Manage, Server

-----------------------------------------------------------------------------
\* The links

\* A step that has nothing to do with a link.
LEMMA LinkFrame ==
  ASSUME NEW i \in Links, LinkInv(i), UNCHANGED <<made, conn>>,
         serves'[i] = serves[i], cid'[i] = cid[i], sid'[i] = sid[i], toS'[i] = toS[i],
         toC'[i] = toC[i], held' = held \/ held' # i
  PROVE  LinkInv(i)'
BY Zenon DEF LinkInv

\* What is on its way on a link fits the state of the link at the server.
LEMMA LinkStep ==
  ASSUME DaemonInv, [DaemonNext]_daemonVars
  PROVE  (\A i \in Links : LinkInv(i))'
<1>a. DaemonTypeOK /\ LoopInv /\ ReconnectInv /\ ManagerInv /\ \A j \in Links : LinkInv(j)
  BY Zenon DEF DaemonInv
<1> SUFFICES ASSUME NEW i \in Links PROVE LinkInv(i)'
  BY Zenon
<1>b. /\ up \in [Links -> BOOLEAN] /\ made \in Nat /\ conn \in Nat /\ held \in Nat
      /\ conn <= made /\ held <= made /\ i \in Nat /\ i # 0
      /\ serves \in [Links -> {"none", "new", "hello", "in", "refused", "gone"}]
      /\ cid \in [Links -> Nat] /\ sid \in [Links -> Nat]
      /\ toS \in [Links -> Seq(Msg)] /\ toC \in [Links -> Seq(Msg)]
  <2>1. made \in Nat /\ conn \in 0 .. made /\ held \in 0 .. made /\ i \in Nat /\ i # 0
    BY <1>a, LinkNumbers, Zenon DEF DaemonTypeOK
  <2>2. conn \in Nat /\ held \in Nat /\ conn <= made /\ held <= made
    BY <2>1
  <2>3. QED
    BY <1>a, <2>1, <2>2, Zenon DEF DaemonTypeOK
<1>c. LinkInv(i)
  BY <1>a, Zenon
<1> USE DEF client, manager, links, server, history
<1>1. CASE UNCHANGED <<made, conn, serves, cid, sid, toS, toC, held>>
  BY <1>1, <1>c, LinkFrame, Zenon
<1>2. CASE TakeLoop \/ EndLoop \/ AwaitEnd1 \/ AwaitEnd2 \/ ConnectFails \/ HandOver \/ GiveUp
  BY <1>1, <1>2, Zenon DEF TakeLoop, EndLoop, AwaitEnd1, AwaitEnd2, ConnectFails, HandOver, GiveUp,
     StopClient
<1>3. CASE Announce \/ ProcessTake \/ ProcessForward \/ AwaitFirst \/ FirstTimeout
           \/ StartDevice \/ ConfigFails \/ ServeWord \/ ConnectedFails
  BY <1>1, <1>3, Zenon DEF Announce, ProcessTake, ProcessForward, AwaitFirst, FirstTimeout, Exit,
     StartDevice, ConfigFails, ServeWord, ConnectedFails
<1>4. CASE Deliver
  <2>1. UNCHANGED <<made, conn, serves, cid, sid, toS, held>>
    BY <1>4, Zenon DEF Deliver
  <2>2. CASE i # loop
    <3>1. toC'[i] = toC[i]
      BY <1>4, <1>a, <2>2, Delivers, Zenon
    <3>2. QED
      BY <2>1, <3>1, <1>c, LinkFrame, Zenon
  <2>3. CASE i = loop
    <3>1. toC[i] # <<>> /\ Range(toC'[i]) \subseteq Range(toC[i])
      BY <1>4, <1>a, <2>3, Delivers, Zenon
    <3>2. i <= made /\ serves[i] \notin {"none", "new"}
      BY <3>1, <1>b, <1>c DEF LinkInv
    <3>3. QED
      BY <2>1, <3>1, <3>2, <1>b, <1>c, Zenon DEF LinkInv
  <2>4. QED
    BY <2>2, <2>3, Zenon
<1>5. CASE Connect
  <2>1. made' = made + 1 /\ UNCHANGED <<conn, cid, sid, toS, toC, held>>
    BY <1>5, Zenon DEF Connect
  <2>2. serves' = [serves EXCEPT ![made + 1] = "new"]
    BY <1>5, Zenon DEF Connect
  <2>3. CASE i # made + 1
    BY <2>1, <2>2, <2>3, <1>b, <1>c DEF LinkInv
  <2>4. CASE i = made + 1
    <3>1. serves[i] = "none" /\ toS[i] = <<>> /\ toC[i] = <<>> /\ serves'[i] = "new"
      BY <2>2, <2>4, <1>b, <1>c DEF LinkInv
    <3>2. held # i /\ ~ (i <= conn) /\ ~ (i > made')
      BY <2>1, <2>4, <3>1, <1>b, <1>c DEF LinkInv
    <3>3. QED
      BY <2>1, <3>1, <3>2, RangeEmpty, Zenon DEF LinkInv
  <2>5. QED
    BY <2>3, <2>4, Zenon
<1>6. CASE Handshake
  <2>1. rec = "info" /\ rec # "over" /\ Sends(made, "handshake") /\ UNCHANGED <<made, conn, serves, held>>
    BY <1>6, Zenon DEF Handshake, Requests
  <2>2. made \in Links /\ made = conn + 1 /\ cid[made] = 0
    BY <2>1, <1>a, <1>b, LinkNumbers, SMTT(30) DEF LoopInv, ReconnectInv
  <2>3. PICK m \in Msg :
          /\ m.say = "handshake" /\ m.id = 1
          /\ \A j \in Links : toS'[j] = toS[j] \/ (j = made /\ toS'[j] = Append(toS[j], m))
          /\ \A j \in Links : Range(toS'[j]) \subseteq Range(toS[j]) \cup {m}
    BY <2>1, <2>2, <1>a, SendsMessage, SMTT(30)
  <2>4. sid' = sid /\ toC' = toC /\ (i # made => cid'[i] = cid[i])
    BY <2>1, <2>2, <1>a, SendsMessage
  <2>5. CASE i # made
    BY <2>1, <2>3, <2>4, <2>5, <1>c, LinkFrame, Zenon
  <2>6. CASE i = made
    <3>1. Range(toS'[i]) \subseteq Range(toS[i]) \cup {m} /\ m.say = "handshake" /\ m.id = 1
      BY <2>3, Zenon
    <3>2. /\ ~ (i > made) /\ ~ (i <= conn) /\ held # i /\ (serves[i] \in {"none", "new"} => toC[i] = <<>>)
          /\ \A n \in Range(toS[i]) : n.say = "handshake" /\ n.id = 1
      BY <2>2, <2>6, <1>b, <1>c DEF LinkInv
    <3>3. \A n \in Range(toS'[i]) : n.say = "handshake" /\ n.id = 1
      BY <3>1, <3>2, Zenon
    <3>4. QED
      BY <2>1, <2>4, <3>2, <3>3, <1>c, Zenon DEF LinkInv
  <2>7. QED
    BY <2>5, <2>6, Zenon
<1>7. CASE Store
  <2>1. /\ rec = "shake" /\ conn' = made /\ UNCHANGED <<made, serves, cid, sid, toS, toC, held>>
        /\ Right("rec") /\ wait["rec"].got.on
    BY <1>7, Zenon DEF Store
  <2>2. made = conn + 1 /\ serves[made] \in {"in", "gone"}
    BY <2>1, <1>a, Zenon DEF LoopInv, ReconnectInv, Right, Answered
  <2>3. CASE i <= conn
    BY <2>1, <2>2, <2>3, <1>b, <1>c, Zenon DEF LinkInv
  <2>4. CASE i = made
    BY <2>1, <2>2, <2>4, <1>b, <1>c, Zenon DEF LinkInv
  <2>5. CASE i > made
    <3>1. toS[i] = <<>> /\ toC[i] = <<>> /\ serves[i] = "none" /\ cid[i] = 0 /\ sid[i] = 0 /\ held # i
      BY <2>5, <1>b, <1>c, Zenon DEF LinkInv
    <3>2. ~ (i <= conn')
      BY <2>1, <2>5, <1>b
    <3>3. QED
      BY <2>1, <3>1, <3>2, RangeEmpty, Zenon DEF LinkInv
  <2>6. QED
    BY <2>2, <2>3, <2>4, <2>5, <1>b
<1>8. CASE AskConfig \/ ServeConnected
  <2>1. PICK kind \in {"config", "enter"} :
          Sends(conn, kind) /\ (kind = "config" => man = "ask") /\ man \in {"ask", "serve"}
    BY <1>8, Zenon DEF AskConfig, ServeConnected, Requests
  <2>2. conn \in Links /\ (man = "ask" => cid[conn] = 1) /\ UNCHANGED <<made, conn, serves, held>>
    <3>1. conn # 0 /\ conn \in 0 .. made
      BY <2>1, <1>a, Zenon DEF ManagerInv, DaemonTypeOK
    <3>2. conn \in Links
      BY <3>1, <1>a, LinkNumbers, Zenon
    <3>3. man = "ask" => cid[conn] = 1
      BY <3>2, <1>a, <1>b, SMTT(30) DEF ManagerInv
    <3>4. UNCHANGED <<made, conn, serves, held>>
      BY <1>8, Zenon DEF AskConfig, ServeConnected
    <3>5. QED
      BY <3>2, <3>3, <3>4, Zenon
  <2>3. PICK m \in Msg :
          /\ m.say = kind /\ m.id = cid[conn] + 1
          /\ \A j \in Links : toS'[j] = toS[j] \/ (j = conn /\ toS'[j] = Append(toS[j], m))
          /\ \A j \in Links : Range(toS'[j]) \subseteq Range(toS[j]) \cup {m}
    <3>1. CASE kind = "config"
      BY <2>1, <2>2, <3>1, <1>a, SendsMessage, Zenon
    <3>2. CASE kind = "enter"
      BY <2>1, <2>2, <3>2, <1>a, SendsMessage, Zenon
    <3>3. QED
      BY <3>1, <3>2, Zenon
  <2>4. sid' = sid /\ toC' = toC /\ (i # conn => cid'[i] = cid[i])
    BY <2>1, <2>2, <1>a, SendsMessage, SMTT(30)
  <2>5. CASE i # conn
    BY <2>2, <2>3, <2>4, <2>5, <1>c, LinkFrame, Zenon
  <2>6. CASE i = conn
    <3>1. Range(toS'[i]) \subseteq Range(toS[i]) \cup {m} /\ m.say = kind /\ m.id = cid[conn] + 1
      BY <2>3, Zenon
    <3>2. m.say = "enter" \/ (m.say = "config" /\ m.id = 2)
      BY <2>1, <2>2, <3>1
    <3>3. /\ ~ (i > made) /\ i <= conn /\ ~ (i > conn)
          /\ \A n \in Range(toS[i]) : /\ n.say \in {"handshake", "config", "enter"}
                                      /\ n.say = "handshake" => n.id = 1
                                      /\ n.say = "config" => n.id = 2
      BY <2>2, <2>6, <1>b, <1>c, SMTT(30) DEF LinkInv
    <3>4. \A n \in Range(toS'[i]) : /\ n.say \in {"handshake", "config", "enter"}
                                    /\ n.say = "handshake" => n.id = 1
                                    /\ n.say = "config" => n.id = 2
      BY <3>1, <3>2, <3>3, Zenon
    <3>5. QED
      BY <2>2, <2>4, <3>3, <3>4, <1>b, <1>c, Zenon DEF LinkInv
  <2>7. QED
    BY <2>5, <2>6, Zenon
<1>9. CASE PeerTurns
  <2>1. UNCHANGED <<made, conn, serves, cid, toS, held>>
    BY <1>9, Zenon DEF PeerTurns
  <2>2. CASE held # 0 /\ up[held] /\ i = held
    <3>1. PICK m \in Msg : m = Message(sid[held] + 1, "peer", ~ peer)
      <4>1. sid[held] + 1 \in Nat /\ (~ peer) \in BOOLEAN
        BY <2>2, <1>b
      <4>2. QED
        BY <4>1, MessageType, Zenon
    <3>2. m.say = "peer"
      BY <3>1, Zenon DEF Message
    <3>3. toC'[i] = Append(toC[i], m)
      BY <1>9, <2>2, <3>1, <1>b, Zenon DEF PeerTurns, Writes
    <3>4. Range(toC'[i]) = Range(toC[i]) \cup {m}
      BY <3>3, <1>b, RangeOf, Zenon
    <3>5. serves[i] = "in" /\ i <= conn
      BY <2>2, <1>c, Zenon DEF LinkInv
    <3>6. QED
      BY <2>1, <3>2, <3>4, <3>5, <1>b, <1>c, Zenon DEF LinkInv
  <2>3. CASE ~ (held # 0 /\ up[held] /\ i = held)
    <3>1. sid'[i] = sid[i] /\ toC'[i] = toC[i]
      BY <1>9, <2>3, <1>b, Zenon DEF PeerTurns, Writes
    <3>2. QED
      BY <2>1, <3>1, <1>c, LinkFrame, Zenon
  <2>4. QED
    BY <2>2, <2>3, Zenon
<1>10. ASSUME NEW j \in Links, Break(j) PROVE LinkInv(i)'
  <2>1. UNCHANGED <<made, conn, serves, cid, sid, toS, held>>
    BY <1>10, Zenon DEF Break
  <2>2. toC'[i] = toC[i] \/ toC'[i] = <<>>
    BY <1>10, <1>b, Zenon DEF Break
  <2>3. QED
    BY <2>1, <2>2, <1>c, RangeEmpty, Zenon DEF LinkInv
<1>11. ASSUME NEW j \in Links, Server(j) PROVE LinkInv(i)'
  <2>1. UNCHANGED <<made, conn>>
    BY <1>11, Zenon DEF Server, ServerHello, ServerHandshake, ServerConfig, ServerEnter, ServerEnds
  <2>2. CASE i # j
    <3>1. serves'[i] = serves[i] /\ cid'[i] = cid[i] /\ sid'[i] = sid[i]
      BY <1>11, <2>2, <1>b, Zenon
         DEF Server, ServerHello, ServerHandshake, ServerConfig, ServerEnter, ServerEnds
    <3>2. toS'[i] = toS[i] /\ toC'[i] = toC[i]
      BY <1>11, <2>2, <1>b
         DEF Server, ServerHello, ServerHandshake, ServerConfig, ServerEnter, ServerEnds, Takes,
             Writes
    <3>3. held' = held \/ held' # i
      BY <1>11, <2>2, <1>b, Zenon
         DEF Server, ServerHello, ServerHandshake, ServerConfig, ServerEnter, ServerEnds
    <3>4. QED
      BY <2>1, <3>1, <3>2, <3>3, <1>c, LinkFrame, Zenon
  <2>3. CASE i = j /\ ServerHello(j)
    <3>1. serves[i] = "new" /\ serves'[i] = "hello" /\ UNCHANGED <<cid, toS, held>>
      BY <2>3, <1>b, Zenon DEF ServerHello
    <3>2. PICK m \in Msg : m = Message(1, "info", FALSE)
      BY MessageType, Zenon
    <3>3. m.say = "info" /\ m.id = 1
      BY <3>2, Zenon DEF Message
    <3>4. toC'[i] = toC[i] \/ toC'[i] = Append(toC[i], m)
      BY <2>3, <3>2, <1>b, Zenon DEF ServerHello, Writes
    <3>5. Range(toC'[i]) \subseteq Range(toC[i]) \cup {m} /\ Range(toC[i]) = {}
      <4>1. toC[i] = <<>>
        BY <3>1, <1>c, Zenon DEF LinkInv
      <4>2. Range(toC[i]) = {}
        BY <4>1, RangeEmpty, Zenon
      <4>3. Range(toC'[i]) \subseteq Range(toC[i]) \cup {m}
        BY <3>4, <1>b, RangeGrows, Zenon
      <4>4. QED
        BY <4>2, <4>3, Zenon
    <3>6. ~ (i > made) /\ ~ (i <= conn) /\ held # i
      BY <3>1, <1>c, Zenon DEF LinkInv
    <3>7. QED
      BY <2>1, <3>1, <3>3, <3>5, <3>6, <1>c, Zenon DEF LinkInv
  <2>4. CASE i = j /\ ServerHandshake(j)
    <3>1. serves[i] = "hello" /\ toS[i] # <<>> /\ Head(toS[i]).say = "handshake"
      BY <2>4, Zenon DEF ServerHandshake, Takes
    <3>2. serves'[i] = (IF held = 0 THEN "in" ELSE "refused") /\ toS'[i] = Tail(toS[i])
      BY <2>4, <1>b, Zenon DEF ServerHandshake, Takes
    <3>3. Range(toS'[i]) \subseteq Range(toS[i]) /\ Head(toS[i]) \in Range(toS[i])
      BY <3>1, <3>2, <1>b, RangeOf, WaitTypes, Zenon
    <3>4. Head(toS[i]).id = 1
      BY <3>1, <3>3, <1>c, Zenon DEF LinkInv
    <3>5. PICK m \in Msg : m = Message(1, "handshake", held = 0)
      <4>1. (held = 0) \in BOOLEAN
        BY Zenon
      <4>2. QED
        BY <4>1, MessageType, Zenon
    <3>6. m.say = "handshake" /\ m.id = 1 /\ (m.on => held = 0)
      BY <3>5, Zenon DEF Message
    <3>7. toC'[i] = toC[i] \/ toC'[i] = Append(toC[i], m)
      BY <2>4, <3>4, <3>5, <1>b, Zenon DEF ServerHandshake, Writes
    <3>8. Range(toC'[i]) \subseteq Range(toC[i]) \cup {m}
      BY <3>7, <1>b, RangeGrows, Zenon
    <3>9. \A n \in Range(toC[i]) : n.say # "peer" /\ ~ (n.say = "handshake" /\ n.on)
      BY <3>1, <1>c, Zenon DEF LinkInv
    <3>10. ~ (i > made) /\ ~ (i <= conn) /\ held # i /\ held' = held
      BY <2>4, <3>1, <1>c, Zenon DEF LinkInv, ServerHandshake
    <3>11. QED
      BY <2>1, <3>2, <3>3, <3>6, <3>8, <3>9, <3>10, <1>c, Zenon DEF LinkInv
  <2>5. CASE i = j /\ ServerConfig(j)
    <3>1. serves[i] = "in" /\ toS[i] # <<>> /\ Head(toS[i]).say = "config"
      BY <2>5, Zenon DEF ServerConfig, Takes
    <3>2. serves'[i] = serves[i] /\ toS'[i] = Tail(toS[i]) /\ held' = held
      BY <2>5, <1>b, Zenon DEF ServerConfig, Takes
    <3>3. Range(toS'[i]) \subseteq Range(toS[i]) /\ Head(toS[i]) \in Range(toS[i])
      BY <3>1, <3>2, <1>b, RangeOf, WaitTypes, Zenon
    <3>4. Head(toS[i]).id = 2
      BY <3>1, <3>3, <1>c, Zenon DEF LinkInv
    <3>5. PICK m \in Msg : m = Message(2, "config", peer)
      BY <1>a, MessageType, Zenon DEF DaemonTypeOK
    <3>6. m.say = "config" /\ m.id = 2
      BY <3>5, Zenon DEF Message
    <3>7. toC'[i] = toC[i] \/ toC'[i] = Append(toC[i], m)
      BY <2>5, <3>4, <3>5, <1>b, Zenon DEF ServerConfig, Writes
    <3>8. Range(toC'[i]) \subseteq Range(toC[i]) \cup {m}
      BY <3>7, <1>b, RangeGrows, Zenon
    <3>9. ~ (i > made)
      BY <3>1, <1>c, Zenon DEF LinkInv
    <3>10. QED
      BY <2>1, <3>1, <3>2, <3>3, <3>6, <3>8, <3>9, <1>c, Zenon DEF LinkInv
  <2>6. CASE i = j /\ ServerEnter(j)
    <3>1. serves[i] = "in" /\ toS[i] # <<>> /\ Head(toS[i]).say = "enter" /\ toS'[i] = Tail(toS[i])
      BY <2>6, <1>b, Zenon DEF ServerEnter, Takes
    <3>2. Range(toS'[i]) \subseteq Range(toS[i]) /\ Head(toS[i]) \in Range(toS[i])
      BY <3>1, <1>b, RangeOf, WaitTypes, Zenon
    <3>3. UNCHANGED <<cid, sid, toC, serves>>
      BY <2>6, Zenon DEF ServerEnter
    <3>4. i <= conn /\ ~ (i > made)
      BY <3>1, <3>2, <1>b, <1>c, SMTT(30) DEF LinkInv
    <3>5. QED
      BY <2>1, <3>1, <3>2, <3>3, <3>4, <1>c, Zenon DEF LinkInv
  <2>7. CASE i = j /\ ServerEnds(j)
    <3>1. serves[i] \in {"new", "hello", "in", "refused"} /\ serves'[i] = "gone"
      BY <2>7, <1>b, Zenon DEF ServerEnds
    <3>2. UNCHANGED <<cid, sid, toC, toS>> /\ held' # i
      BY <2>7, <1>b, <1>c, Zenon DEF ServerEnds, LinkInv
    <3>3. QED
      BY <2>1, <3>1, <3>2, <1>c, Zenon DEF LinkInv
  <2>8. QED
    BY <1>11, <2>2, <2>3, <2>4, <2>5, <2>6, <2>7, Zenon DEF Server
<1>12. CASE UNCHANGED daemonVars
  BY <1>1, <1>12, Zenon DEF daemonVars
<1> QED
  BY <1>2, <1>3, <1>4, <1>5, <1>6, <1>7, <1>8, <1>9, <1>10, <1>11, <1>12, Zenon
     DEF DaemonNext, Reconnect, Manage

-----------------------------------------------------------------------------
\* The reconnecting task

\* A step that touches neither the task nor the link it works on.
LEMMA ReconnectFrame ==
  ASSUME ReconnectInv, UNCHANGED <<rec, made>>, wait'["rec"] = wait["rec"],
         rec \in {"handover", "info", "shake"} =>
           /\ serves'[made] = serves[made] /\ cid'[made] = cid[made]
           /\ toS'[made] = toS[made] /\ toC'[made] = toC[made]
  PROVE  ReconnectInv'
BY Zenon DEF ReconnectInv

\* The reconnecting task gets what it waits for from the link it has made.
LEMMA ReconnectStep ==
  ASSUME DaemonInv, [DaemonNext]_daemonVars
  PROVE  ReconnectInv'
<1>a. DaemonTypeOK /\ LoopInv /\ ReconnectInv /\ ManagerInv /\ \A j \in Links : LinkInv(j)
  BY Zenon DEF DaemonInv
<1>b. /\ made \in Nat /\ conn \in Nat /\ held \in 0 .. made /\ conn \in 0 .. made
      /\ serves \in [Links -> {"none", "new", "hello", "in", "refused", "gone"}]
      /\ cid \in [Links -> Nat] /\ sid \in [Links -> Nat]
      /\ toS \in [Links -> Seq(Msg)] /\ toC \in [Links -> Seq(Msg)]
  BY <1>a, LinkNumbers, Zenon DEF DaemonTypeOK
<1>c. /\ wait \in [Tasks -> Waiting] /\ "rec" \in Tasks /\ "man" \in Tasks
      /\ wait["rec"] \in Waiting
  BY <1>a, Zenon DEF DaemonTypeOK, Tasks
<1>d. ASSUME rec \in {"handover", "info", "shake"}
      PROVE  /\ made \in Links /\ made = conn + 1 /\ conn # made /\ held # made /\ LinkInv(made)
             /\ toS[made] \in Seq(Msg) /\ toC[made] \in Seq(Msg)
  <2>1. made = conn + 1
    BY <1>a, <1>d, Zenon DEF LoopInv
  <2>2. made \in Links
    BY <2>1, <1>a, <1>b, LinkNumbers
  <2>3. held # made
    BY <2>1, <2>2, <1>a, <1>b DEF LinkInv
  <2>4. QED
    BY <2>1, <2>2, <2>3, <1>a, <1>b
<1> USE DEF client, manager, links, server, history
<1>1. CASE /\ UNCHANGED <<rec, made, serves, cid, toS, toC>>
           /\ wait'["rec"] = wait["rec"]
  BY <1>1, <1>a, ReconnectFrame, Zenon
<1>2. CASE \/ TakeLoop \/ EndLoop \/ ProcessTake \/ ProcessForward \/ AwaitFirst \/ FirstTimeout
           \/ StartDevice \/ ConfigFails \/ ServeWord \/ ConnectedFails
  BY <1>1, <1>2, <1>c, Zenon DEF TakeLoop, EndLoop, ProcessTake, ProcessForward, AwaitFirst,
     FirstTimeout, Exit, StartDevice, ConfigFails, ServeWord, ConnectedFails
<1>3. CASE AwaitEnd1 \/ AwaitEnd2 \/ ConnectFails \/ Announce
  <2>1. rec \in {"end1", "end2", "connect", "first", "connected"}
    BY <1>3, Zenon DEF AwaitEnd1, AwaitEnd2, ConnectFails, Announce
  <2>2. rec' \in {"end1", "end2", "connect", "first", "connected"} /\ wait' = wait
    BY <1>3, Zenon DEF AwaitEnd1, AwaitEnd2, ConnectFails, Announce
  <2>3. QED
    BY <2>1, <2>2, <1>a, Zenon DEF ReconnectInv
<1>4. CASE HandOver
  BY <1>4, <1>a, Zenon DEF HandOver, ReconnectInv
<1>5. CASE GiveUp \/ Store
  <2>1. rec' \notin {"handover", "info", "shake"} /\ wait'["rec"] = NoWait
    BY <1>5, <1>c, Zenon DEF GiveUp, StopClient, Store
  <2>2. QED
    BY <2>1, Zenon DEF ReconnectInv
<1>6. CASE Connect
  <2>1. rec' = "handover" /\ made' = made + 1 /\ UNCHANGED <<cid, toS, toC>>
    BY <1>6, Zenon DEF Connect
  <2>2. wait'["rec"] = [NoWait EXCEPT !.on = TRUE, !.for = "info"]
    BY <1>6, <1>c, Zenon DEF Connect
  <2>3. made + 1 \in Links
    BY <1>6, <1>a, LinkNumbers, Zenon DEF Connect
  <2>4. serves'[made'] = "new"
    BY <1>6, <1>b, <2>1, <2>3, Zenon DEF Connect
  <2>5. cid[made + 1] = 0 /\ toS[made + 1] = <<>> /\ toC[made + 1] = <<>>
    BY <2>3, <1>a, <1>b DEF LinkInv
  <2>6. /\ wait'["rec"].on /\ wait'["rec"].id = 0 /\ wait'["rec"].for = "info"
        /\ wait'["rec"].got = Nothing
    BY <2>2, Zenon DEF NoWait
  <2>7. QED
    BY <2>1, <2>4, <2>5, <2>6, RangeEmpty, SMTT(30) DEF ReconnectInv
<1>7. CASE Handshake
  <2>1. /\ rec = "info" /\ rec' = "shake" /\ Right("rec") /\ Sends(made, "handshake")
        /\ UNCHANGED <<made, serves>>
    BY <1>7, Zenon DEF Handshake, Requests
  <2>2. /\ made \in Links /\ cid[made] = 0 /\ toC[made] = <<>> /\ serves[made] # "new"
    BY <2>1, <1>a, <1>d, Zenon DEF ReconnectInv, Right, Answered
  <2>3. cid'[made] = 1 /\ toC' = toC
    BY <2>1, <2>2, <1>b DEF Sends
  <2>4. wait'["rec"] = [NoWait EXCEPT !.on = TRUE, !.id = 1, !.for = "handshake"]
    BY <1>7, <2>2, <1>c DEF Handshake, Requests
  <2>5. /\ wait'["rec"].on /\ wait'["rec"].id = 1 /\ wait'["rec"].for = "handshake"
        /\ wait'["rec"].got = Nothing
    BY <2>4, Zenon DEF NoWait
  <2>6. QED
    BY <2>1, <2>2, <2>3, <2>5, RangeEmpty, Zenon DEF ReconnectInv
<1>8. CASE AskConfig \/ ServeConnected
  <2>1. /\ Sends(conn, "config") \/ Sends(conn, "enter")
        /\ UNCHANGED <<rec, made, serves>>
    BY <1>8, Zenon DEF AskConfig, ServeConnected, Requests
  <2>2. wait'["rec"] = wait["rec"]
    BY <1>8, <1>c, Zenon DEF AskConfig, ServeConnected, Requests
  <2>3. ASSUME rec \in {"handover", "info", "shake"}
        PROVE  cid'[made] = cid[made] /\ toS'[made] = toS[made] /\ toC'[made] = toC[made]
    BY <2>1, <2>3, <1>b, <1>d, Zenon DEF Sends
  <2>4. QED
    BY <2>1, <2>2, <2>3, <1>a, ReconnectFrame, Zenon
<1>9. CASE PeerTurns
  <2>1. UNCHANGED <<rec, made, serves, cid, toS, wait>>
    BY <1>9, Zenon DEF PeerTurns
  <2>2. ASSUME rec \in {"handover", "info", "shake"} PROVE toC'[made] = toC[made]
    BY <1>9, <2>2, <1>b, <1>d, Zenon DEF PeerTurns, Writes
  <2>3. QED
    BY <2>1, <2>2, <1>a, ReconnectFrame, Zenon
<1>10. ASSUME NEW i \in Links, Break(i) PROVE ReconnectInv'
  <2>1. UNCHANGED <<rec, made, serves, cid, toS, wait>>
    BY <1>10, Zenon DEF Break
  <2>2. ASSUME rec \in {"handover", "info", "shake"}
        PROVE  toC'[made] = toC[made] \/ toC'[made] = <<>>
    BY <1>10, <2>2, <1>b, <1>d, Zenon DEF Break
  <2>3. CASE rec \in {"handover", "info", "shake"} /\ toC'[made] = <<>>
    <3>1. Len(toC'[made]) <= 1 /\ Range(toC'[made]) = {} /\ toC'[made'] = toC'[made]
      BY <2>1, <2>3, RangeEmpty
    <3>2. CASE rec \in {"handover", "info"}
      BY <2>1, <2>3, <3>1, <3>2, <1>a, Zenon DEF ReconnectInv
    <3>3. CASE rec = "shake"
      BY <2>1, <3>1, <3>3, <1>a, Zenon DEF ReconnectInv
    <3>4. QED
      BY <2>3, <3>2, <3>3, Zenon
  <2>4. QED
    BY <2>1, <2>2, <2>3, <1>a, ReconnectFrame, Zenon
<1>11. CASE Deliver
  <2>1. /\ rec # "over" /\ loop # 0 /\ loop \in Links /\ toC[loop] # <<>>
        /\ UNCHANGED <<rec, made, serves, cid, toS>>
    BY <1>11, <1>a, LinkNumbers, Zenon DEF Deliver, Linked, DaemonTypeOK
  <2>2. loop = made
    BY <2>1, <1>a, Zenon DEF LoopInv
  <2>3. PICK m \in Msg :
          /\ m \in Range(toC[made])
          /\ wait'["rec"] = IF Hears(wait["rec"], m) THEN [wait["rec"] EXCEPT !.got = m]
                                                   ELSE wait["rec"]
    BY <1>11, <2>2, <1>a, <1>c, Delivers, Zenon
  <2>4. toC'[made] = Tail(toC[made]) /\ Range(toC'[made]) \subseteq Range(toC[made])
    BY <1>11, <2>1, <2>2, <1>a, Delivers, Zenon
  <2>5. Tail(toC[made]) \in Seq(Msg) /\ Len(Tail(toC[made])) = Len(toC[made]) - 1
    BY <2>1, <2>2, <1>b, RangeOf, WaitTypes, Zenon
  <2>6. CASE rec \in {"handover", "info"}
    <3>0. made \in Links /\ toC[made] # <<>>
      BY <2>1, <2>2, Zenon
    <3>7. m.say = "info" /\ wait["rec"].got = Nothing
      BY <2>3, <2>6, <3>0, <1>a, Zenon DEF ReconnectInv
    <3>8. serves[made] # "new"
      BY <3>0, <1>a, <1>d, Zenon DEF LinkInv
    <3>1. m.say = "info" /\ wait["rec"].got = Nothing /\ serves[made] # "new"
      BY <3>7, <3>8, Zenon
    <3>2. Len(toC[made]) <= 1 /\ Len(toC[made]) \in Nat
      BY <2>1, <2>2, <2>6, <1>a, <1>b, SMTT(30) DEF ReconnectInv
    <3>3. toC'[made] = <<>>
      BY <2>4, <2>5, <3>2, SMTT(30)
    <3>4. wait'["rec"] = [wait["rec"] EXCEPT !.got = m]
      BY <2>3, <2>6, <3>1, <1>a, Zenon DEF ReconnectInv, Hears
    <3>5. /\ wait'["rec"].got = m /\ wait'["rec"].on = wait["rec"].on
          /\ wait'["rec"].id = wait["rec"].id /\ wait'["rec"].for = wait["rec"].for
      BY <3>4, <1>c, Zenon DEF Waiting
    <3>6. Len(toC'[made]) <= 1 /\ Range(toC'[made]) = {}
      BY <3>3, RangeEmpty
    <3>9. QED
      BY <2>1, <2>6, <3>1, <3>3, <3>5, <3>6, <1>a, Zenon DEF ReconnectInv
  <2>7. CASE rec = "shake"
    <3>4. m.say = "handshake"
      BY <2>3, <2>7, <1>a, Zenon DEF ReconnectInv
    <3>5. m.on => serves[made] \in {"in", "gone"}
      BY <2>1, <2>2, <2>3, <3>4, <1>a, <1>d, Zenon DEF LinkInv
    <3>1. m.say = "handshake" /\ (m.on => serves[made] \in {"in", "gone"})
      BY <3>4, <3>5, Zenon
    <3>2. /\ wait'["rec"].got \in {m, wait["rec"].got} /\ wait'["rec"].on = wait["rec"].on
          /\ wait'["rec"].id = wait["rec"].id /\ wait'["rec"].for = wait["rec"].for
      BY <2>3, <1>c, Zenon DEF Waiting
    <3>3. \A n \in Range(toC'[made]) : n.say = "handshake"
      BY <2>4, <2>7, <1>a, Zenon DEF ReconnectInv
    <3>6. QED
      BY <2>1, <2>7, <3>1, <3>2, <3>3, <1>a, Zenon DEF ReconnectInv
  <2>8. CASE rec \notin {"handover", "info", "shake"}
    <3>1. wait["rec"] = NoWait /\ ~ Hears(wait["rec"], m)
      BY <2>8, <1>a, SMTT(30) DEF ReconnectInv, Hears, NoWait
    <3>2. QED
      BY <2>1, <2>3, <2>8, <3>1, Zenon DEF ReconnectInv
  <2>9. QED
    BY <2>6, <2>7, <2>8, Zenon
<1>12. ASSUME NEW i \in Links, Server(i) PROVE ReconnectInv'
  <2>1. UNCHANGED <<rec, made, wait>>
    BY <1>12, Zenon DEF Server, ServerHello, ServerHandshake, ServerConfig, ServerEnter, ServerEnds
  <2>2. CASE i # made \/ rec \notin {"handover", "info", "shake"}
    <3>1. ASSUME rec \in {"handover", "info", "shake"}
          PROVE  serves'[made] = serves[made] /\ cid'[made] = cid[made]
      BY <1>12, <2>2, <3>1, <1>b, <1>d, Zenon
         DEF Server, ServerHello, ServerHandshake, ServerConfig, ServerEnter, ServerEnds
    <3>2. ASSUME rec \in {"handover", "info", "shake"}
          PROVE  toS'[made] = toS[made] /\ toC'[made] = toC[made]
      BY <1>12, <2>2, <3>2, <1>b, <1>d, Zenon
         DEF Server, ServerHello, ServerHandshake, ServerConfig, ServerEnter, ServerEnds, Takes,
             Writes
    <3>3. QED
      BY <2>1, <3>1, <3>2, <1>a, ReconnectFrame, Zenon
  <2>3. CASE i = made /\ rec \in {"handover", "info", "shake"} /\ ServerHello(i)
    <3>1. serves[made] = "new" /\ serves'[made] = "hello" /\ UNCHANGED <<cid, toS>>
      BY <2>3, <1>b, Zenon DEF ServerHello
    <3>2. /\ rec # "shake" /\ wait["rec"].got = Nothing /\ toC[made] = <<>>
      BY <2>3, <3>1, <1>a, <1>d, Zenon DEF ReconnectInv, LinkInv
    <3>3. PICK m \in Msg : m = Message(1, "info", FALSE)
      BY MessageType, Zenon
    <3>4. m.say = "info"
      BY <3>3, Zenon DEF Message
    <3>5. toC'[made] = toC[made] \/ toC'[made] = Append(toC[made], m)
      BY <2>3, <3>3, <1>b, Zenon DEF ServerHello, Writes
    <3>6. Range(toC'[made]) \subseteq Range(toC[made]) \cup {m}
      BY <2>3, <3>5, <1>d, RangeGrows, Zenon
    <3>7. Range(toC[made]) = {} /\ Len(toC[made]) = 0
      BY <3>2, RangeEmpty, Zenon
    <3>8. Len(toC'[made]) <= 1
      BY <2>3, <3>5, <3>7, <1>d
    <3>9. QED
      BY <2>1, <2>3, <3>1, <3>2, <3>4, <3>6, <3>7, <3>8, <1>a, Zenon DEF ReconnectInv
  <2>4. CASE i = made /\ rec \in {"handover", "info", "shake"} /\ ServerHandshake(i)
    <3>1. serves[made] = "hello" /\ toS[made] # <<>> /\ cid' = cid
      BY <2>4, Zenon DEF ServerHandshake, Takes
    <3>2. rec = "shake" /\ serves'[made] # "new"
      BY <2>4, <3>1, <1>a, <1>b, Zenon DEF ReconnectInv, ServerHandshake
    <3>3. PICK m \in Msg : m = Message(Head(toS[made]).id, "handshake", held = 0)
      <4>1. Head(toS[made]).id \in Nat /\ (held = 0) \in BOOLEAN
        BY <2>4, <1>a, TakesTypes, Zenon DEF ServerHandshake
      <4>2. QED
        BY <4>1, MessageType, Zenon
    <3>4. m.say = "handshake"
      BY <3>3, Zenon DEF Message
    <3>5. toC'[made] = toC[made] \/ toC'[made] = Append(toC[made], m)
      BY <2>4, <3>3, <1>b, Zenon DEF ServerHandshake, Writes
    <3>6. Range(toC'[made]) \subseteq Range(toC[made]) \cup {m}
      BY <2>4, <3>5, <1>d, RangeGrows, Zenon
    <3>7. QED
      BY <2>1, <3>1, <3>2, <3>4, <3>6, <1>a, Zenon DEF ReconnectInv
  <2>5. CASE i = made /\ rec \in {"handover", "info", "shake"} /\ (ServerConfig(i) \/ ServerEnter(i))
    <3>1. toS[made] # <<>> /\ Head(toS[made]).say \in {"config", "enter"}
      BY <2>5, Zenon DEF ServerConfig, ServerEnter, Takes
    <3>2. Head(toS[made]) \in Range(toS[made])
      BY <2>5, <3>1, <1>d, RangeOf, WaitTypes, Zenon
    <3>3. Head(toS[made]).say = "handshake"
      BY <2>5, <3>2, <1>b, <1>d, SMTT(30) DEF LinkInv
    <3>4. QED
      BY <3>1, <3>3, Zenon
  <2>6. CASE i = made /\ rec \in {"handover", "info", "shake"} /\ ServerEnds(i)
    <3>1. serves'[made] = "gone" /\ UNCHANGED <<cid, toS, toC>>
      BY <2>6, <1>b, Zenon DEF ServerEnds
    <3>2. QED
      BY <2>1, <2>6, <3>1, <1>a, Zenon DEF ReconnectInv
  <2>7. QED
    BY <1>12, <2>2, <2>3, <2>4, <2>5, <2>6, Zenon DEF Server
<1>13. CASE UNCHANGED daemonVars
  BY <1>1, <1>13, Zenon DEF daemonVars
<1> QED
  BY <1>2, <1>3, <1>4, <1>5, <1>6, <1>7, <1>8, <1>9, <1>10, <1>11, <1>12, <1>13, Zenon
     DEF DaemonNext, Reconnect, Manage
=============================================================================
