------------------------------- MODULE Daemon -------------------------------
(***************************************************************************)
(* The daemon's side of the connection to the coordination server: the     *)
(* tasks of VlinkClient::spawn (one runs the event loop of a link, one     *)
(* reconnects, one forwards what the server says), the requests of         *)
(* ClientConnect and the loop of the network manager.  The server is       *)
(* modelled as far as one client and one other peer see it (Registry has   *)
(* the rest); it notices the end of a link later than the client or not.   *)
(***************************************************************************)
EXTENDS Naturals, Sequences, Functions

CONSTANTS MaxLinks,   \* bound: links made; the last one does not break
          MaxTurns,   \* bound: times the other peer comes or goes
          BusSize,    \* places in the broadcast channel of messages (10)
          CtrlSize    \* places in the channel of commands (10)

ASSUME DaemonAssumption ==
  /\ MaxLinks \in Nat \ {0} /\ MaxTurns \in Nat
  /\ BusSize \in Nat \ {0} /\ CtrlSize \in Nat \ {0}

Links == 1 .. MaxLinks

VARIABLES
  \* VlinkClient::spawn
  etx,     \* the channel of event loops: the number of a link, or 0 for None
  loop,    \* the link whose event loop is awaited, or 0
  rec,     \* where the reconnecting task is
  made,    \* links made so far; the latest one has this number
  conn,    \* the connection stored for the others to use, or 0
  bus,     \* messages broadcast and not yet read by process_cmd
  hand,    \* the message process_cmd is forwarding
  wait,    \* per task: what it waits for in the broadcast channel
  \* the network manager
  ctrl,    \* the channel of commands
  man,     \* where VlinkNetworkManager::start is
  flag,    \* the online flag of the other peer in the device
  \* the links
  up,      \* per link: whether it holds, as the client sees it
  cid,     \* per link: the client's counter of message ids
  sid,     \* per link: the server's counter of message ids
  toS, toC,\* per link: messages on their way
  \* the server
  serves,  \* per link: where the server's task of it is
  held,    \* the link of the OnlineInfo of the client, or 0
  peer,    \* whether the other peer is online
  turns,   \* times it came or went
  \* history
  missed,  \* the other peer came or went and the client cannot learn of it
  displaced,\* a late step of an earlier link took the client's link out of the
           \* registry
  crossed  \* a task took a message of another kind for its answer

client == <<etx, loop, rec, made, conn, bus, hand, wait>>
manager == <<ctrl, man, flag>>
links == <<up, cid, sid, toS, toC>>
server == <<serves, held, peer, turns>>
history == <<missed, displaced, crossed>>
daemonVars == <<client, manager, links, server, history>>

Nothing == [id |-> 0, say |-> "nothing", on |-> FALSE]
\* A message: its id, its kind, and the bit of it that matters here.
Message(id, say, on) == [id |-> id, say |-> say, on |-> on]
NoWait == [on |-> FALSE, id |-> 0, for |-> "nothing", got |-> Nothing]
Tasks == {"rec", "man"}

DaemonInit ==
  /\ etx = <<>> /\ loop = 0 /\ rec = "end1" /\ made = 0 /\ conn = 0
  /\ bus = <<>> /\ hand = <<>> /\ wait = [t \in Tasks |-> NoWait]
  /\ ctrl = <<>> /\ man = "first" /\ flag = FALSE
  /\ up = [i \in Links |-> FALSE]
  /\ cid = [i \in Links |-> 0] /\ sid = [i \in Links |-> 0]
  /\ toS = [i \in Links |-> <<>>] /\ toC = [i \in Links |-> <<>>]
  /\ serves = [i \in Links |-> "none"] /\ held = 0
  /\ peer \in BOOLEAN /\ turns = 0
  /\ missed = FALSE /\ displaced = FALSE /\ crossed = FALSE

\* Words about the other peer, which change its flag.
IsWord(m) == m.say = "peer"
Words(s) == {m \in Range(s) : IsWord(m)}
\* The process runs; its client, that is the tasks of spawn, runs.
Running == man # "over"
Linked == Running /\ rec # "over"

-----------------------------------------------------------------------------
\* run_event_loop

\* Mutant: the event loop is spawned and not awaited.
TakeLoop_Spawned ==
  /\ Linked
  /\ etx # <<>>
  /\ loop' = Head(etx) /\ etx' = <<>>
  /\ UNCHANGED <<rec, made, conn, bus, hand, wait, manager, links, server, history>>

\* None, or an event loop, which is then awaited
TakeLoop ==
  /\ Linked
  /\ loop = 0 /\ etx # <<>>
  /\ loop' = Head(etx) /\ etx' = <<>>
  /\ UNCHANGED <<rec, made, conn, bus, hand, wait, manager, links, server, history>>

\* The event loop of a link that broke returns.
EndLoop ==
  /\ Linked
  /\ loop # 0 /\ ~ up[loop]
  /\ loop' = 0
  /\ UNCHANGED <<etx, rec, made, conn, bus, hand, wait, manager, links, server,
                 history>>

\* Mutant: the first message is taken whatever its id.
Hears_Any(w, m) == w.on /\ w.got = Nothing

\* request: a message with the id of the request; RespServerInfo: the first one
Hears(w, m) == w.on /\ w.got = Nothing /\ w.id \in {0, m.id}

\* recv_handler: the message goes to every receiver of the broadcast channel
Deliver ==
  /\ Linked
  /\ loop # 0 /\ up[loop] /\ toC[loop] # <<>>
  /\ LET m == Head(toC[loop]) IN
       /\ toC' = [toC EXCEPT ![loop] = Tail(@)]
       /\ wait' = [t \in Tasks |-> IF Hears(wait[t], m)
                                   THEN [wait[t] EXCEPT !.got = m] ELSE wait[t]]
       /\ IF Len(bus) < BusSize
          THEN bus' = Append(bus, m) /\ UNCHANGED missed
          ELSE /\ bus' = Append(Tail(bus), m)
               /\ missed' = (missed \/ IsWord(Head(bus)))
  /\ UNCHANGED <<etx, loop, rec, made, conn, hand, manager, up, cid, sid, toS,
                 server, displaced, crossed>>

-----------------------------------------------------------------------------
\* reconnect

\* The first etx.send(None), which waits for a place in the channel.
AwaitEnd1 ==
  /\ Linked
  /\ rec = "end1" /\ etx = <<>>
  /\ etx' = <<0>> /\ rec' = "end2"
  /\ UNCHANGED <<loop, made, conn, bus, hand, wait, manager, links, server, history>>

\* The second one: the first has been taken, so no event loop runs.
AwaitEnd2 ==
  /\ Linked
  /\ rec = "end2" /\ etx = <<>>
  /\ etx' = <<0>> /\ rec' = "connect"
  /\ UNCHANGED <<loop, made, conn, bus, hand, wait, manager, links, server, history>>

ConnectFails ==
  /\ Linked
  /\ rec = "connect"
  /\ rec' = "end1"
  /\ UNCHANGED <<etx, loop, made, conn, bus, hand, wait, manager, links, server,
                 history>>

\* TcpStream::connect, subscribe, ClientConnect::new
Connect ==
  /\ Linked
  /\ rec = "connect" /\ made < MaxLinks
  /\ made' = made + 1
  /\ up' = [up EXCEPT ![made + 1] = TRUE]
  /\ serves' = [serves EXCEPT ![made + 1] = "new"]
  /\ wait' = [wait EXCEPT !["rec"] = [NoWait EXCEPT !.on = TRUE, !.for = "info"]]
  /\ rec' = "handover"
  /\ UNCHANGED <<etx, loop, conn, bus, hand, manager, cid, sid, toS, toC, held,
                 peer, turns, history>>

HandOver ==
  /\ Linked
  /\ rec = "handover" /\ etx = <<>>
  /\ etx' = <<made>> /\ rec' = "info"
  /\ UNCHANGED <<loop, made, conn, bus, hand, wait, manager, links, server, history>>

\* ClientConnect::send on link i, whose event loop writes it; what is written to
\* a link that has broken is lost
Sends(i, say) ==
  /\ loop = i
  /\ cid' = [cid EXCEPT ![i] = @ + 1]
  /\ toS' = IF up[i]
            THEN [toS EXCEPT ![i] = Append(@, Message(cid[i] + 1, say, FALSE))]
            ELSE toS
  /\ UNCHANGED <<up, sid, toC>>

\* ClientConnect::request: subscribe, then send
Requests(t, i, say) ==
  /\ Sends(i, say)
  /\ wait' = [wait EXCEPT ![t] = [NoWait EXCEPT !.on = TRUE, !.id = cid[i] + 1,
                                                !.for = say]]

\* The wait of a task is over with an answer.
Answered(t) == wait[t].on /\ wait[t].got # Nothing
Right(t) == Answered(t) /\ wait[t].got.say = wait[t].for
Crossing(t) == crossed' = (crossed \/ (Answered(t) /\ ~ Right(t)))

\* The tasks of spawn are dropped, and the event loop with them.
StopClient ==
  /\ rec' = "over"
  /\ etx' = <<>> /\ loop' = 0 /\ bus' = <<>> /\ hand' = <<>>
  /\ up' = [i \in Links |-> FALSE]
  /\ wait' = [wait EXCEPT !["rec"] = NoWait]
  /\ UNCHANGED <<made, conn, cid, sid, toS, toC>>

\* RespServerInfo is there; the handshake is sent.
Handshake ==
  /\ Linked
  /\ rec = "info" /\ Right("rec")
  /\ Requests("rec", made, "handshake")
  /\ rec' = "shake"
  /\ UNCHANGED <<etx, loop, made, conn, bus, hand, manager, server, history>>

\* The wait for the server's information or for the handshake ends without
\* success: a wrong message, a refusal, a timeout, a link that broke.
GiveUp ==
  /\ Linked
  /\ rec \in {"info", "shake"}
  /\ Right("rec") => IF rec = "info" THEN loop # made ELSE ~ wait["rec"].got.on
  /\ Crossing("rec")
  /\ StopClient
  /\ UNCHANGED <<manager, server, missed, displaced>>

\* The handshake succeeded: the connection is stored.
Store ==
  /\ Linked
  /\ rec = "shake" /\ Right("rec") /\ wait["rec"].got.on
  /\ conn' = made
  /\ wait' = [wait EXCEPT !["rec"] = NoWait]
  /\ rec' = IF conn = 0 THEN "first" ELSE "connected"
  /\ UNCHANGED <<etx, loop, made, bus, hand, manager, links, server, history>>

\* Mutant: a connection after the first is not announced.
Announce_Once ==
  /\ Linked
  /\ rec \in {"first", "connected"} /\ Len(ctrl) < CtrlSize
  /\ ctrl' = IF conn = 1 THEN Append(ctrl, Message(0, rec, FALSE)) ELSE ctrl
  /\ rec' = IF rec = "first" THEN "connected" ELSE "end1"
  /\ UNCHANGED <<etx, loop, made, conn, bus, hand, wait, man, flag, links, server,
                 history>>

\* NetworkCtrlCmd::FirstConnected once, NetworkCtrlCmd::Connected every time
Announce ==
  /\ Linked
  /\ rec \in {"first", "connected"} /\ Len(ctrl) < CtrlSize
  /\ ctrl' = Append(ctrl, Message(0, rec, FALSE))
  /\ rec' = IF rec = "first" THEN "connected" ELSE "end1"
  /\ UNCHANGED <<etx, loop, made, conn, bus, hand, wait, man, flag, links, server,
                 history>>

Reconnect == \/ AwaitEnd1 \/ AwaitEnd2 \/ ConnectFails \/ Connect \/ HandOver
             \/ Handshake \/ GiveUp \/ Store \/ Announce

-----------------------------------------------------------------------------
\* process_cmd

ProcessTake ==
  /\ Linked
  /\ hand = <<>> /\ bus # <<>>
  /\ hand' = <<Head(bus)>> /\ bus' = Tail(bus)
  /\ UNCHANGED <<etx, loop, rec, made, conn, wait, manager, links, server, history>>

\* Mutant: a command is dropped when the channel is full.
ProcessForward_Try ==
  /\ Linked
  /\ hand # <<>>
  /\ ctrl' = IF Len(ctrl) < CtrlSize THEN Append(ctrl, Head(hand)) ELSE ctrl
  /\ hand' = <<>>
  /\ UNCHANGED <<etx, loop, rec, made, conn, bus, wait, man, flag, links, server,
                 history>>

\* ctrl.send waits for a place.
ProcessForward ==
  /\ Linked
  /\ hand # <<>> /\ Len(ctrl) < CtrlSize
  /\ ctrl' = Append(ctrl, Head(hand)) /\ hand' = <<>>
  /\ UNCHANGED <<etx, loop, rec, made, conn, bus, wait, man, flag, links, server,
                 history>>

-----------------------------------------------------------------------------
\* VlinkNetworkManager::start

\* start does not return successfully: the process ends.
Exit ==
  /\ man' = "over"
  /\ up' = [i \in Links |-> FALSE]
  /\ UNCHANGED <<client, ctrl, flag, cid, sid, toS, toC, server>>

\* Every command before FirstConnected is dropped.
AwaitFirst ==
  /\ man = "first" /\ ctrl # <<>>
  /\ ctrl' = Tail(ctrl)
  /\ man' = IF Head(ctrl).say = "first" THEN "ask" ELSE "first"
  /\ UNCHANGED <<client, flag, links, server, history>>

\* No FirstConnected in 2 seconds: todo!() ends the process.
FirstTimeout ==
  /\ man = "first"
  /\ Exit
  /\ UNCHANGED history

\* request_for_config
AskConfig ==
  /\ man = "ask" /\ Linked
  /\ Requests("man", conn, "config")
  /\ man' = "config"
  /\ UNCHANGED <<etx, loop, rec, made, conn, bus, hand, ctrl, flag, server, history>>

\* start_device with the peers of the configuration
StartDevice ==
  /\ man = "config" /\ Right("man")
  /\ flag' = wait["man"].got.on
  /\ wait' = [wait EXCEPT !["man"] = NoWait]
  /\ man' = "serve"
  /\ UNCHANGED <<etx, loop, rec, made, conn, bus, hand, ctrl, links, server, history>>

\* The request fails: the link is gone, no answer in a second, a wrong answer.
ConfigFails ==
  /\ man \in {"ask", "config"}
  /\ IF man = "ask" THEN loop # conn ELSE ~ Right("man")
  /\ Crossing("man")
  /\ Exit
  /\ UNCHANGED <<missed, displaced>>

\* handle_to_client_data, and the commands that do nothing
ServeWord ==
  /\ man = "serve" /\ ctrl # <<>>
  /\ Head(ctrl).say # "connected"
  /\ flag' = IF IsWord(Head(ctrl)) THEN Head(ctrl).on ELSE flag
  /\ ctrl' = Tail(ctrl)
  /\ UNCHANGED <<client, man, links, server, history>>

\* handler_connected: PeerEnter on whatever connection is stored now
ServeConnected ==
  /\ man = "serve" /\ ctrl # <<>> /\ Linked
  /\ Head(ctrl).say = "connected"
  /\ Sends(conn, "enter")
  /\ ctrl' = Tail(ctrl)
  /\ UNCHANGED <<client, man, flag, server, history>>

\* The PeerEnter cannot be sent: start returns the error and the process ends.
ConnectedFails ==
  /\ man = "serve" /\ ctrl # <<>>
  /\ Head(ctrl).say = "connected"
  /\ loop # conn \/ ~ up[conn]
  /\ Exit
  /\ UNCHANGED history

Manage == \/ AwaitFirst \/ FirstTimeout \/ AskConfig \/ StartDevice \/ ConfigFails
          \/ ServeWord \/ ServeConnected \/ ConnectedFails

-----------------------------------------------------------------------------
\* The links and the server

\* A link breaks; what was on its way to the client is lost.
Break(i) ==
  /\ up[i] /\ i < MaxLinks
  /\ up' = [up EXCEPT ![i] = FALSE]
  /\ toC' = [toC EXCEPT ![i] = <<>>]
  /\ missed' = (missed \/ Words(toC[i]) # {})
  /\ UNCHANGED <<client, manager, cid, sid, toS, server, displaced, crossed>>

\* The server writes to a link: an answer has the id of the request, anything
\* else the next id of the server's own counter.
Writes(i, m) == toC' = IF up[i] THEN [toC EXCEPT ![i] = Append(@, m)] ELSE toC

ServerHello(i) ==
  /\ serves[i] = "new"
  /\ serves' = [serves EXCEPT ![i] = "hello"]
  /\ sid' = [sid EXCEPT ![i] = 1]
  /\ Writes(i, Message(1, "info", FALSE))
  /\ UNCHANGED <<client, manager, up, cid, toS, held, peer, turns, history>>

\* The server takes the next message of a kind.
Takes(i, at, say) ==
  /\ serves[i] = at /\ toS[i] # <<>> /\ Head(toS[i]).say = say
  /\ toS' = [toS EXCEPT ![i] = Tail(@)]

\* handshake0: refused while the key of the client is online
ServerHandshake(i) ==
  /\ Takes(i, "hello", "handshake")
  /\ serves' = [serves EXCEPT ![i] = IF held = 0 THEN "in" ELSE "refused"]
  /\ Writes(i, Message(Head(toS[i]).id, "handshake", held = 0))
  /\ UNCHANGED <<client, manager, up, cid, sid, held, peer, turns, history>>

\* ReqConfig; what the client missed before does not matter any more
ServerConfig(i) ==
  /\ Takes(i, "in", "config")
  /\ Writes(i, Message(Head(toS[i]).id, "config", peer))
  /\ missed' = FALSE
  /\ UNCHANGED <<client, manager, up, cid, sid, server, displaced, crossed>>

\* PeerEnter
ServerEnter(i) ==
  /\ Takes(i, "in", "enter")
  /\ held' = i
  /\ displaced' = (displaced \/ held > i)
  /\ UNCHANGED <<client, manager, up, cid, sid, toC, serves, peer, turns, missed,
                 crossed>>

\* The server's task of a link ends: it refused the client, or the link broke.
\* The clean-up takes the key of the client offline, on whatever link it is.
ServerEnds(i) ==
  /\ \/ serves[i] \in {"new", "hello", "in"} /\ ~ up[i]
     \/ serves[i] = "refused"
  /\ serves' = [serves EXCEPT ![i] = "gone"]
  /\ up' = [up EXCEPT ![i] = FALSE]
  /\ held' = IF serves[i] \in {"in", "refused"} THEN 0 ELSE held
  /\ displaced' = \/ displaced
                  \/ serves[i] \in {"in", "refused"} /\ held \notin {0, i}
  /\ UNCHANGED <<client, manager, cid, sid, toS, toC, peer, turns, missed, crossed>>

\* The other peer enters or leaves; the client is told if it is online.
PeerTurns ==
  /\ turns < MaxTurns
  /\ turns' = turns + 1 /\ peer' = ~ peer
  /\ IF held # 0 /\ up[held]
     THEN /\ sid' = [sid EXCEPT ![held] = @ + 1]
          /\ Writes(held, Message(sid[held] + 1, "peer", ~ peer))
          /\ UNCHANGED missed
     ELSE missed' = TRUE /\ UNCHANGED <<sid, toC>>
  /\ UNCHANGED <<client, manager, up, cid, toS, serves, held, displaced, crossed>>

Server(i) == \/ ServerHello(i) \/ ServerHandshake(i) \/ ServerConfig(i)
             \/ ServerEnter(i) \/ ServerEnds(i)

DaemonNext ==
  \/ TakeLoop \/ EndLoop \/ Deliver
  \/ Reconnect \/ ProcessTake \/ ProcessForward \/ Manage
  \/ PeerTurns
  \/ \E i \in Links : Break(i) \/ Server(i)

\* The tasks of the daemon and of the server are scheduled and the links carry
\* what is sent; connecting is assumed to succeed if it is tried forever.
DaemonFairness ==
  /\ WF_daemonVars(TakeLoop) /\ WF_daemonVars(EndLoop) /\ WF_daemonVars(Deliver)
  /\ WF_daemonVars(Reconnect) /\ SF_daemonVars(Connect)
  /\ WF_daemonVars(ProcessTake) /\ WF_daemonVars(ProcessForward) /\ WF_daemonVars(Manage)
  /\ \A i \in Links : WF_daemonVars(Server(i))

DaemonSpec == DaemonInit /\ [][DaemonNext]_daemonVars /\ DaemonFairness

-----------------------------------------------------------------------------
\* Properties

Msg == [id : Nat, on : BOOLEAN,
        say : {"nothing", "info", "handshake", "config", "enter", "peer", "first",
               "connected"}]

Waiting == [on : BOOLEAN, id : Nat, got : Msg,
            for : {"nothing", "info", "handshake", "config"}]

\* The variables have their types: the channels keep to their sizes and only links
\* that were made are used.
DaemonTypeOK ==
  /\ etx \in Seq(0 .. MaxLinks) /\ Len(etx) <= 1
  /\ rec \in {"end1", "end2", "connect", "handover", "info", "shake", "first",
             "connected", "over"}
  /\ made \in 0 .. MaxLinks
  /\ loop \in 0 .. made /\ conn \in 0 .. made /\ held \in 0 .. made
  /\ bus \in Seq(Msg) /\ hand \in Seq(Msg) /\ ctrl \in Seq(Msg)
  /\ Len(bus) <= BusSize /\ Len(hand) <= 1 /\ Len(ctrl) <= CtrlSize
  /\ wait \in [Tasks -> Waiting]
  /\ man \in {"first", "ask", "config", "serve", "over"}
  /\ up \in [Links -> BOOLEAN] /\ cid \in [Links -> Nat] /\ sid \in [Links -> Nat]
  /\ toS \in [Links -> Seq(Msg)] /\ toC \in [Links -> Seq(Msg)]
  /\ serves \in [Links -> {"none", "new", "hello", "in", "refused", "gone"}]
  /\ turns \in Nat
  /\ flag \in BOOLEAN /\ peer \in BOOLEAN
  /\ missed \in BOOLEAN /\ displaced \in BOOLEAN /\ crossed \in BOOLEAN

OneLink == \A i, j \in Links : up[i] /\ up[j] => i = j

\* The client never holds two links to the server: it connects again only when
\* the event loop of the old link has returned (client.rs:76-77).  And no task
\* takes a message of another kind for the answer to its request (connect.rs:109),
\* although the server numbers what it sends by itself with a counter of its own:
\* requests are made only before PeerEnter.
LinkIsOwn == OneLink /\ ~ crossed

\* The server refuses the client only because of an earlier link of the same
\* client that is broken and that the server has not noticed (client.rs:114).
RefusedOnlyByGhost ==
  [][\A i \in Links : (serves[i] = "hello" /\ serves'[i] = "refused")
       => held < i /\ ~ up[held]]_daemonVars

\* Nothing about the other peer is on its way to the manager.
Told ==
  /\ \A i \in Links : up[i] => Words(toC[i]) = {}
  /\ Words(bus) = {} /\ Words(hand) = {} /\ Words(ctrl) = {}

FlagAgrees ==
  (man = "serve" /\ Linked /\ Told /\ ~ missed) => flag = peer

\* The online flag of a peer is what the server last knew of it, unless the peer
\* came or went while the client was not in the registry, or the message was
\* lost with a link or overwritten in the broadcast channel (client.rs:187-192).
\* And the variables have their types.
FlagIsTrue == DaemonTypeOK /\ FlagAgrees

\* When all messages are handled a running daemon with a link is in the server's
\* registry on this link, unless a PeerEnter or the clean-up of an earlier link
\* came later (headlink main.rs:59); and the daemon gets there or has ended.
Joined == held = loop /\ loop # 0 /\ up[loop]
EventuallyJoined == <>[](~ Linked \/ Joined \/ displaced)
-----------------------------------------------------------------------------
\* Why: an inductive invariant

\* A link that is up is the latest one, and its event loop is awaited or about to
\* be.  A new link is made only when no event loop runs.
LoopInv ==
  /\ \A i \in Links : up[i] =>
       i = made /\ (loop = i \/ etx = <<i>> \/ rec = "handover")
  /\ rec \in {"handover", "info", "shake"} => made = conn + 1
  /\ rec \in {"first", "connected", "end1", "end2", "connect"} => made = conn
  /\ rec \in {"first", "connected"} => conn # 0
  /\ rec # "over" =>
       /\ loop \in {0, made}
       /\ IF rec = "info" THEN etx = <<>> \/ (etx = <<made>> /\ loop = 0)
                         ELSE etx \in {<<>>, <<0>>}
       /\ rec \in {"connect", "handover"} => loop = 0
       /\ rec = "end2" /\ etx = <<>> => loop = 0
       /\ rec \in {"shake", "first", "connected"} => etx = <<>>

\* A link and what is on its way on it.
LinkInv(i) ==
  /\ i > made => /\ serves[i] = "none" /\ cid[i] = 0 /\ sid[i] = 0
                 /\ toS[i] = <<>> /\ toC[i] = <<>>
  /\ serves[i] \in {"none", "new"} => toC[i] = <<>>
  /\ i <= conn => serves[i] \in {"in", "gone"}
  /\ held = i => serves[i] = "in" /\ i <= conn
  /\ \A m \in Range(toS[i]) :
       /\ m.say \in {"handshake", "config", "enter"}
       /\ m.say = "handshake" => m.id = 1
       /\ m.say = "config" => m.id = 2
       /\ i > conn => m.say = "handshake"
  /\ \A m \in Range(toC[i]) :
       /\ m.say \in {"info", "handshake", "config", "peer"}
       /\ m.say \in {"info", "handshake"} => m.id = 1
       /\ m.say = "config" => m.id = 2
       /\ m.say = "peer" \/ (m.say = "handshake" /\ m.on) => serves[i] \in {"in", "gone"}

\* The wait of the reconnecting task, and what the link it works on may carry.
ReconnectInv ==
  /\ rec \in {"handover", "info"} =>
       LET w == wait["rec"] IN
       /\ w.on /\ w.id = 0 /\ w.for = "info"
       /\ w.got = Nothing \/ (w.got.say = "info" /\ toC[made] = <<>> /\ serves[made] # "new")
       /\ serves[made] \notin {"in", "refused"}
       /\ cid[made] = 0 /\ toS[made] = <<>>
       /\ Len(toC[made]) <= 1 /\ \A m \in Range(toC[made]) : m.say = "info"
  /\ rec = "shake" =>
       LET w == wait["rec"] IN
       /\ w.on /\ w.id = 1 /\ w.for = "handshake"
       /\ w.got = Nothing \/ w.got.say = "handshake"
       /\ w.got # Nothing /\ w.got.on => serves[made] \in {"in", "gone"}
       /\ serves[made] # "new" /\ cid[made] = 1
       /\ \A m \in Range(toC[made]) : m.say = "handshake"
  /\ rec \notin {"handover", "info", "shake"} => wait["rec"] = NoWait

\* Before its device runs, the manager has asked for the configuration once at
\* most, and nobody has entered the registry for it.
ManagerInv ==
  /\ \A m \in Range(ctrl) : m.say = "first" => conn # 0
  /\ \A m \in Range(bus) \cup Range(hand) : m.say \in {"info", "handshake", "config", "peer"}
  /\ man \in {"ask", "config", "serve"} => conn # 0
  /\ man \notin {"config", "over"} => wait["man"] = NoWait
  /\ man = "config" =>
       LET w == wait["man"] IN
       w.on /\ w.id = 2 /\ w.for = "config" /\ (w.got = Nothing \/ w.got.say = "config")
  /\ man \in {"first", "ask"} => \A i \in Links : i <= conn => cid[i] = 1
  /\ man \in {"first", "ask", "config"} =>
       /\ held = 0
       /\ \A i \in Links : Words(toC[i]) = {} /\ \A m \in Range(toS[i]) : m.say # "enter"
       /\ Words(bus) = {} /\ Words(hand) = {} /\ Words(ctrl) = {}

IsConfig(m) == m.say = "config"
HasConfig(s) == \E m \in Range(s) : IsConfig(m)
OneConfig(s) == \A k, l \in DOMAIN s : IsConfig(s[k]) /\ IsConfig(s[l]) => k = l

\* Where the request for the configuration and its answer are: there is one of
\* them, and the answer is right unless something was missed after it was given.
ConfigInv ==
  /\ man \in {"first", "ask", "serve"} => \A i \in Links : ~ HasConfig(toS[i])
  /\ man \in {"first", "ask"} => \A i \in Links : ~ HasConfig(toC[i])
  /\ man = "config" =>
       /\ \A i \in Links : OneConfig(toS[i])
       /\ \A i, j \in Links : HasConfig(toS[i]) /\ HasConfig(toS[j]) => i = j
       /\ (\E i \in Links : HasConfig(toS[i])) =>
            wait["man"].got = Nothing /\ \A i \in Links : ~ HasConfig(toC[i])
       /\ ~ missed =>
            /\ wait["man"].got # Nothing => wait["man"].got.on = peer
            /\ \A i \in Links : \A m \in Range(toC[i]) : IsConfig(m) => m.on = peer

\* The last word in a channel, if there is one, is b.
Says(s, b) ==
  \A k \in DOMAIN s :
    IsWord(s[k]) /\ (\A l \in DOMAIN s : l > k => ~ IsWord(s[l])) => s[k].on = b

\* On the way from the server to the manager, over a link, the broadcast channel,
\* the forwarding task and the channel of commands, the latest word about the
\* other peer is right; if there is none the flag f is.
Heard(link, b, h, c, f, p) ==
  /\ Says(link, p)
  /\ Words(link) = {} =>
       /\ Says(b, p)
       /\ Words(b) = {} =>
            /\ Says(h, p)
            /\ Words(h) = {} => Says(c, p) /\ (Words(c) = {} => f = p)

WordInv ==
  Linked =>
    /\ \A i \in Links : ~ up[i] => Words(toC[i]) = {}
    /\ man = "serve" /\ ~ missed => Heard(toC[made], bus, hand, ctrl, flag, peer)

DaemonInv ==
  /\ DaemonTypeOK /\ ~ crossed
  /\ LoopInv /\ (\A i \in Links : LinkInv(i)) /\ ReconnectInv
  /\ ManagerInv /\ ConfigInv /\ WordInv
=============================================================================
