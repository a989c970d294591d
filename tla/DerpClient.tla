----------------------------- MODULE DerpClient -----------------------------
(***************************************************************************)
(* The connections to a relay server: connect_derp_server, which keeps one *)
(* per server in derp_client_map under a lock, the handshake of DerpClient,*)
(* the task that sends the queued requests and the task that reads.  The   *)
(* frames are those that DerpCodec delivers.  The server is external: it   *)
(* sends its key, and ServerInfo after it got ClientInfo.                  *)
(***************************************************************************)
EXTENDS Naturals, Sequences, FiniteSets

CONSTANTS Requests,   \* calls of connect_derp_server
          MaxConns,   \* bound: connections dialled
          QueueSize,  \* places of the channel of requests
          MaxPackets  \* bound: packets sent on a connection

Conns == 1 .. MaxConns
NoOne == "none"

ASSUME DerpAssumption ==
  /\ NoOne \notin Requests /\ MaxConns \in Nat
  /\ QueueSize \in Nat \ {0} /\ MaxPackets \in Nat

VARIABLES
  lock,    \* the call that holds the lock of derp_client_map
  req,     \* per call: where it is
  entry,   \* the connection in derp_client_map, or 0
  conn,    \* connections dialled
  link,    \* per connection: "none", "up" or "down"
  toC,     \* per connection: the frames on their way to the client
  shaken,  \* per connection: the client has got ServerInfo
  keyed,   \* per connection: its codec has the server's key
  queue,   \* per connection: the requests in the channel
  sink,    \* per connection: the sending task
  reader,  \* per connection: the reading task
  toS,     \* per connection: the frames sent to the server
  read,    \* per connection: how many of them the server has read
  packets  \* per connection: packets handed to the channel

derpVars == <<lock, req, entry, conn, link, toC, shaken, keyed, queue, sink, reader,
              toS, read, packets>>

DerpInit ==
  /\ lock = NoOne /\ req = [r \in Requests |-> "idle"]
  /\ entry = 0 /\ conn = 0
  /\ link = [c \in Conns |-> "none"]
  /\ toC = [c \in Conns |-> <<>>] /\ shaken = [c \in Conns |-> FALSE]
  /\ keyed = [c \in Conns |-> FALSE] /\ queue = [c \in Conns |-> <<>>]
  /\ sink = [c \in Conns |-> "none"] /\ reader = [c \in Conns |-> "none"]
  /\ toS = [c \in Conns |-> <<>>] /\ read = [c \in Conns |-> 0]
  /\ packets = [c \in Conns |-> 0]

-----------------------------------------------------------------------------
Ask(r) ==
  /\ req[r] = "idle"
  /\ req' = [req EXCEPT ![r] = "wait"]
  /\ UNCHANGED <<lock, entry, conn, link, toC, shaken, keyed, queue, sink, reader, toS,
                 read, packets>>

\* Mutant: the map is looked at before the lock is taken.
Lock_Early(r) ==
  /\ req[r] = "wait"
  /\ req' = [req EXCEPT ![r] = IF entry # 0 THEN "done" ELSE "connect"]
  /\ lock' = r
  /\ UNCHANGED <<entry, conn, link, toC, shaken, keyed, queue, sink, reader, toS, read,
                 packets>>

\* The entry of the server: an occupied one is used, whatever became of its
\* connection; a vacant one keeps the lock while the call connects.
Lock(r) ==
  /\ req[r] = "wait" /\ lock = NoOne
  /\ req' = [req EXCEPT ![r] = IF entry # 0 THEN "done" ELSE "connect"]
  /\ lock' = IF entry # 0 THEN NoOne ELSE r
  /\ UNCHANGED <<entry, conn, link, toC, shaken, keyed, queue, sink, reader, toS, read,
                 packets>>

\* async_connect dials, sends the upgrade request and starts the sending task.
Dial(r) ==
  /\ req[r] = "connect" /\ conn < MaxConns
  /\ conn' = conn + 1
  /\ link' = [link EXCEPT ![conn'] = "up"]
  /\ toC' = [toC EXCEPT ![conn'] = <<"Ws", "ServerKey">>]
  /\ sink' = [sink EXCEPT ![conn'] = "run"]
  /\ req' = [req EXCEPT ![r] = "shake"]
  /\ UNCHANGED <<lock, entry, shaken, keyed, queue, reader, toS, read, packets>>

DialFails(r) ==
  /\ req[r] = "connect"
  /\ req' = [req EXCEPT ![r] = "failed"]
  /\ lock' = NoOne
  /\ UNCHANGED <<entry, conn, link, toC, shaken, keyed, queue, sink, reader, toS, read,
                 packets>>

\* async_connect has returned a stream: the entry is made, the reader started.
Connected(r) ==
  /\ entry' = conn
  /\ reader' = [reader EXCEPT ![conn] = "run"]
  /\ req' = [req EXCEPT ![r] = "done"]
  /\ lock' = NoOne

\* await_handshake takes a frame: ClientInfo answers the server's key and
\* ServerInfo ends the handshake.
await_handshake(r) ==
  /\ req[r] = "shake" /\ toC[conn] # <<>>
  /\ toC' = [toC EXCEPT ![conn] = Tail(@)]
  /\ LET f == Head(toC[conn]) IN
       \/ /\ f = "ServerInfo" /\ Connected(r)
          /\ shaken' = [shaken EXCEPT ![conn] = TRUE]
          /\ UNCHANGED <<keyed, queue>>
       \/ /\ f = "ServerKey"
          /\ keyed' = [keyed EXCEPT ![conn] = TRUE]
          /\ queue' = IF sink[conn] = "run"
                      THEN [queue EXCEPT ![conn] = Append(@, "ClientInfo")]
                      ELSE queue
          /\ UNCHANGED <<entry, reader, req, lock, shaken>>
       \/ /\ f \notin {"ServerInfo", "ServerKey"}
          /\ UNCHANGED <<entry, reader, req, lock, shaken, keyed, queue>>
  /\ UNCHANGED <<conn, link, sink, toS, read, packets>>

\* The stream ends during the handshake: that is not an error.
HandshakeEof(r) ==
  /\ req[r] = "shake" /\ toC[conn] = <<>> /\ link[conn] = "down"
  /\ Connected(r)
  /\ UNCHANGED <<conn, link, toC, shaken, keyed, queue, sink, toS, read, packets>>

\* Mutant: a handshake that failed leaves the lock taken.
HandshakeFails_Locked(r) ==
  /\ req[r] = "shake" /\ link[conn] = "down"
  /\ req' = [req EXCEPT ![r] = "failed"]
  /\ UNCHANGED <<lock, entry, conn, link, toC, shaken, keyed, queue, sink, reader, toS,
                 read, packets>>

\* The stream or its decoding fails: the client and its channel are dropped.
HandshakeFails(r) ==
  /\ req[r] = "shake" /\ link[conn] = "down"
  /\ req' = [req EXCEPT ![r] = "failed"]
  /\ lock' = NoOne
  /\ UNCHANGED <<entry, conn, link, toC, shaken, keyed, queue, sink, reader, toS, read,
                 packets>>

-----------------------------------------------------------------------------
\* encode: ClientInfo is encrypted, which takes the server's key.
Encodable(c, m) == m = "ClientInfo" => keyed[c]

\* The sending task writes a request; an error ends it and its channel.
SinkSend(c) ==
  /\ sink[c] = "run" /\ queue[c] # <<>>
  /\ IF link[c] = "up" /\ Encodable(c, Head(queue[c]))
     THEN /\ toS' = [toS EXCEPT ![c] = Append(@, Head(queue[c]))]
          /\ queue' = [queue EXCEPT ![c] = Tail(@)]
          /\ UNCHANGED sink
     ELSE /\ sink' = [sink EXCEPT ![c] = "ended"]
          /\ queue' = [queue EXCEPT ![c] = <<>>]
          /\ UNCHANGED toS
  /\ UNCHANGED <<lock, req, entry, conn, link, toC, shaken, keyed, reader, read, packets>>

\* A peer's endpoint sends a packet through the entry of the server; it waits
\* for room, and fails once the sending task has ended.
SendPacket ==
  /\ entry # 0 /\ packets[entry] < MaxPackets
  /\ sink[entry] = "run" => Len(queue[entry]) < QueueSize
  /\ packets' = [packets EXCEPT ![entry] = @ + 1]
  /\ queue' = IF sink[entry] = "run"
              THEN [queue EXCEPT ![entry] = Append(@, "Packet")] ELSE queue
  /\ UNCHANGED <<lock, req, entry, conn, link, toC, shaken, keyed, sink, reader, toS, read>>

\* The reading task takes a frame, or ends with the stream.
Read(c) ==
  /\ reader[c] = "run"
  /\ \/ toC[c] # <<>> /\ toC' = [toC EXCEPT ![c] = Tail(@)] /\ UNCHANGED reader
     \/ /\ toC[c] = <<>> /\ link[c] = "down"
        /\ reader' = [reader EXCEPT ![c] = "ended"]
        /\ UNCHANGED toC
  /\ UNCHANGED <<lock, req, entry, conn, link, shaken, keyed, queue, sink, toS, read,
                 packets>>

\* The server reads a frame; ClientInfo is answered, a packet comes back.
Server(c) ==
  /\ link[c] = "up" /\ read[c] < Len(toS[c])
  /\ read' = [read EXCEPT ![c] = @ + 1]
  /\ toC' = [toC EXCEPT ![c] = Append(@, IF toS[c][read'[c]] = "ClientInfo"
                                         THEN "ServerInfo" ELSE "RecvPacket")]
  /\ UNCHANGED <<lock, req, entry, conn, link, shaken, keyed, queue, sink, reader, toS,
                 packets>>

\* The connection breaks; what is on its way may still arrive.
Break(c) ==
  /\ link[c] = "up"
  /\ link' = [link EXCEPT ![c] = "down"]
  /\ toC' \in {toC, [toC EXCEPT ![c] = <<>>]}
  /\ UNCHANGED <<lock, req, entry, conn, shaken, keyed, queue, sink, reader, toS, read,
                 packets>>

Shakes(r) == await_handshake(r) \/ HandshakeEof(r) \/ HandshakeFails(r)

DerpNext ==
  \/ \E r \in Requests : Ask(r) \/ Lock(r) \/ Dial(r) \/ DialFails(r) \/ Shakes(r)
  \/ \E c \in Conns : SinkSend(c) \/ Read(c) \/ Server(c) \/ Break(c)
  \/ SendPacket

\* The lock is fair, a dial succeeds or fails, and the server answers: without
\* the last, a silent server keeps the lock for ever.
DerpFairness ==
  /\ \A r \in Requests :
       /\ SF_derpVars(Lock(r)) /\ WF_derpVars(Dial(r) \/ DialFails(r))
       /\ WF_derpVars(Shakes(r))
  /\ \A c \in Conns : WF_derpVars(SinkSend(c)) /\ WF_derpVars(Server(c))

DerpSpec == DerpInit /\ [][DerpNext]_derpVars /\ DerpFairness

-----------------------------------------------------------------------------
Frames == {"Ws", "ServerKey", "ServerInfo", "RecvPacket"}
Writes == {"ClientInfo", "Packet"}

\* The variables have their types.
DerpTypeOK ==
  /\ lock \in Requests \cup {NoOne}
  /\ req \in [Requests -> {"idle", "wait", "connect", "shake", "done", "failed"}]
  /\ conn \in 0 .. MaxConns /\ entry \in 0 .. conn
  /\ link \in [Conns -> {"none", "up", "down"}] /\ toC \in [Conns -> Seq(Frames)]
  /\ shaken \in [Conns -> BOOLEAN] /\ keyed \in [Conns -> BOOLEAN]
  /\ queue \in [Conns -> Seq(Writes)] /\ toS \in [Conns -> Seq(Writes)]
  /\ sink \in [Conns -> {"none", "run", "ended"}]
  /\ reader \in [Conns -> {"none", "run", "ended"}]
  /\ read \in [Conns -> Nat] /\ packets \in [Conns -> 0 .. MaxPackets]

\* The first frame the server gets is ClientInfo: no packet of an endpoint is
\* sent before the client has introduced itself.
InfoFirst ==
  \A c \in Conns : toS[c] # <<>> => toS[c][1] = "ClientInfo"

\* Calls for the same server share a connection (relay_transport.rs:95): only the
\* call that connects holds the lock, there are never two readers, nor a handshake
\* beside a reader, whatever the order of the calls is, the channel of requests
\* is not overrun, and the server is introduced to before it gets a packet.
OneConnection ==
  /\ DerpTypeOK
  /\ \A r \in Requests : req[r] \in {"connect", "shake"} <=> lock = r
  /\ Cardinality({c \in Conns : reader[c] # "none"})
       + Cardinality({r \in Requests : req[r] = "shake"}) <= 1
  /\ \A c \in Conns : Len(queue[c]) <= QueueSize /\ read[c] <= Len(toS[c])
  /\ InfoFirst

\* Every call of connect_derp_server returns: the lock it may wait for is given
\* back on every path, of a handshake that fails or ends early included.
Returns == \A r \in Requests : req[r] = "wait" ~> req[r] \in {"done", "failed"}

\* What the server says before it knows the client.
Greetings == {<<"Ws", "ServerKey">>, <<"ServerKey">>}

\* A connection: before the client has the server's key nothing is sent, what
\* the server answers comes after something was sent, and what is sent first is
\* ClientInfo, unless the connection has broken.
ConnInv(c) ==
  /\ toC[c] \in Greetings => queue[c] = <<>> /\ toS[c] = <<>> /\ c # entry
  /\ toC[c] \notin Greetings => toC[c] \in Seq({"ServerInfo", "RecvPacket"})
  /\ toC[c] \notin Greetings /\ toC[c] # <<>> => toS[c] # <<>>
  /\ link[c] = "up" /\ toS[c] = <<>> /\ queue[c] # <<>> => queue[c][1] = "ClientInfo"
  /\ link[c] = "up" /\ c = entry => toS[c] # <<>>
  /\ c > conn => toC[c] = <<>> /\ queue[c] = <<>> /\ toS[c] = <<>> /\ read[c] = 0
  /\ toS[c] # <<>> => toS[c][1] = "ClientInfo"
  /\ Len(queue[c]) <= QueueSize /\ read[c] <= Len(toS[c])
  /\ reader[c] # "none" => c = entry

\* The inductive invariant: the call that connects holds the lock, and while it
\* does the map has no entry.
DerpInv ==
  /\ DerpTypeOK
  /\ \A r \in Requests : req[r] \in {"connect", "shake"} <=> lock = r
  /\ entry # 0 => lock = NoOne
  /\ \A r \in Requests : req[r] = "shake" => conn > 0
  /\ \A c \in Conns : ConnInv(c)
=============================================================================
