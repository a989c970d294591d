----------------------------- MODULE FrpControl -----------------------------
(***************************************************************************)
(* The session of the frp client: FrpControl logs in over the main stream, *)
(* exchanges the IV and then opens a work connection for every request of  *)
(* the server.  All streams share one yamux connection, which moves only   *)
(* while ConnControlFuture is polled.  That future is polled when one of   *)
(* its wakers fires: the command channel's, which is registered only by a  *)
(* poll that found the channel empty, or the connection's, which fires     *)
(* when bytes arrive and when a stream is written to.                      *)
(***************************************************************************)
EXTENDS Naturals, Sequences, SequencesExt, FiniteSets

CONSTANTS MaxWork,  \* bound: work connections the server asks for
          Backlog   \* streams yamux opens before one is acknowledged

\* What the constants have to satisfy.
Constants == MaxWork \in Nat /\ Backlog \in Nat \ {0}

Work == 1 .. MaxWork

VARIABLES
  pc,       \* the caller: "opening", "opened", "login", "iv", "keyed",
            \* "logged", "running", "proxied" or "failed"
  runId,    \* run_id is set
  coder,    \* the codec has made its cipher
  handler,  \* handle_stream: "none", "next", "opening" or "down"
  work,     \* the work connections: "none", "open", "written", "flushed",
            \* "started", "proxying" or "done"
  up,       \* messages written to the main stream, with their encryption
  flushed,  \* how many of them the connection has sent
  down,     \* messages of the main stream that wait to be taken
  net,      \* what the server has sent and the connection has not read, with
            \* the work connection of a StartWorkConn
  replied,  \* the server has answered NewProxy
  asked,    \* work connections the server has asked for
  chan,     \* commands in the channel
  answer,   \* the oneshot of the command: "none", "stream" or "dropped"
  armed,    \* the channel's waker is registered
  woken,    \* ConnControlFuture is to be polled
  loop,     \* "up", or "dead" after the panic of ConnControlFuture
  unacked,  \* streams that are not acknowledged
  full      \* history: a command was dropped for a full backlog

conn == <<chan, answer, armed, woken, loop, unacked, full>>
vars == <<pc, runId, coder, handler, work, up, flushed, down, net, asked,
          replied, conn>>

Init ==
  /\ pc = "opening" /\ runId = FALSE /\ coder = FALSE /\ handler = "none"
  /\ work = [w \in Work |-> "none"]
  /\ up = <<>> /\ flushed = 0 /\ net = <<>> /\ down = <<>> /\ asked = 0
  /\ replied = FALSE
  /\ chan = 1 /\ answer = "none" /\ armed = FALSE /\ woken = TRUE /\ loop = "up"
  /\ unacked = 0 /\ full = FALSE

Opened == {w \in Work : work[w] # "none"}
Sent(m) == \E i \in 1 .. flushed : up[i][1] = m

-----------------------------------------------------------------------------
\* open_stream of ConnControl: the command goes into the channel.
OpenStream ==
  \/ /\ loop = "up"
     /\ chan' = chan + 1
     /\ woken' = (woken \/ armed)
     /\ armed' = FALSE
     /\ UNCHANGED <<answer, loop, unacked, full>>
  \/ /\ loop = "dead"
     /\ answer' = "dropped"
     /\ UNCHANGED <<chan, armed, woken, loop, unacked, full>>

\* The poll of the connection sends what the streams have written and hands out
\* what has arrived; a number of streams may be acknowledged.
PollInbound ==
  /\ flushed' = Len(up)
  /\ down' = down \o SelectSeq(net, LAMBDA m : m[1] # "StartWorkConn")
  /\ work' = [w \in Work |->
       CASE work[w] = "written" -> "flushed"
         [] work[w] = "flushed" /\ Contains(net, <<"StartWorkConn", w>>) -> "started"
         [] OTHER -> work[w]]
  /\ net' = <<>>

\* recv takes one command out of the channel.
Taken(n) == n - 1

\* ConnControlFuture::poll: one command, then the connection.  On a full backlog
\* the command is dropped and the connection is not polled.
Poll ==
  /\ loop = "up" /\ woken
  /\ woken' = FALSE
  /\ \/ /\ chan = 0
        /\ armed' = TRUE
        /\ PollInbound
        /\ \E n \in 0 .. unacked : unacked' = n
        /\ UNCHANGED <<chan, answer, full>>
     \/ /\ chan > 0 /\ unacked < Backlog
        /\ chan' = Taken(chan)
        /\ answer' = "stream"
        /\ PollInbound
        /\ \E n \in 1 .. unacked + 1 : unacked' = n
        /\ UNCHANGED <<armed, full>>
     \/ /\ chan > 0 /\ unacked = Backlog
        /\ chan' = Taken(chan)
        /\ answer' = "dropped"
        /\ full' = TRUE
        /\ UNCHANGED <<armed, unacked, flushed, down, work, net>>
  /\ UNCHANGED <<pc, runId, coder, handler, up, asked, replied, loop>>

\* The server closes the connection, or opens a stream: the future panics.
PollPanics ==
  /\ loop = "up"
  /\ loop' = "dead" /\ woken' = FALSE
  /\ chan' = 0
  /\ answer' = IF chan > 0 THEN "dropped" ELSE answer
  /\ UNCHANGED <<pc, runId, coder, handler, work, up, flushed, down, net, asked,
                 replied, armed, unacked, full>>

\* The server answers the login, sends its IV, answers NewProxy and asks for
\* work connections.  What it sends wakes the future.
ServerSends(m) ==
  /\ loop = "up"
  /\ net' = Append(net, m)
  /\ woken' = TRUE
  /\ UNCHANGED <<pc, runId, coder, handler, work, up, flushed, down, chan, answer, armed,
                 loop, unacked, full>>

Main(m) == <<m, 0>>
Said(m) == Contains(net \o down, Main(m))

ServerLogin ==
  /\ Sent("Login") /\ pc = "login" /\ net \o down = <<>>
  /\ \E m \in {"LoginOk", "LoginError", "LoginNoId"} : ServerSends(Main(m))
  /\ UNCHANGED <<asked, replied>>

ServerIv ==
  /\ ~ coder /\ ~ Said("IV")
  /\ Said("LoginOk") \/ runId
  /\ ServerSends(Main("IV"))
  /\ UNCHANGED <<asked, replied>>

ServerAsks ==
  /\ asked < MaxWork
  /\ coder \/ Said("IV")
  /\ ServerSends(Main("ReqWorkConn"))
  /\ asked' = asked + 1
  /\ UNCHANGED replied

ServerReplies ==
  /\ Sent("NewProxy") /\ ~ replied
  /\ ServerSends(Main("NewProxyResp"))
  /\ replied' = TRUE
  /\ UNCHANGED asked

ServerStarts(w) ==
  /\ work[w] = "flushed" /\ ~ Contains(net, <<"StartWorkConn", w>>)
  /\ ServerSends(<<"StartWorkConn", w>>)
  /\ UNCHANGED <<asked, replied>>

-----------------------------------------------------------------------------
\* FrpControl::new gets the main stream, or fails.
New ==
  /\ pc = "opening" /\ answer # "none"
  /\ pc' = IF answer = "stream" THEN "opened" ELSE "failed"
  /\ answer' = "none"
  /\ UNCHANGED <<runId, coder, handler, work, up, flushed, down, net, asked, replied,
                 chan, armed, woken, loop, unacked, full>>

\* is_encrypt, and what encode refuses without a cipher.
IsEncrypt(m) == m = "NewProxy"
Encodable(m) == m \in {"IV", "NewProxy"} => coder

\* main_sink.send: a write to the stream wakes the future.  The caller goes on
\* at "to", or fails.
Send(m, to) ==
  /\ \/ /\ loop = "up" /\ Encodable(m)
        /\ up' = Append(up, <<m, IsEncrypt(m)>>)
        /\ woken' = TRUE
        /\ pc' = to
     \/ /\ loop = "dead" \/ ~ Encodable(m)
        /\ pc' = "failed"
        /\ UNCHANGED <<up, woken>>
  /\ UNCHANGED <<handler, work, flushed, net, asked, replied, chan, answer, armed, loop,
                 unacked, full>>

\* login sends the request...
Login ==
  /\ pc = "opened"
  /\ Send("Login", "login")
  /\ UNCHANGED <<runId, coder, down>>

\* ...and takes the next message of the main stream: a login response that
\* carries no error and a run id...
LoginResponse ==
  /\ pc = "login"
  /\ \/ /\ down # <<>>
        /\ runId' = (Head(down) = Main("LoginOk"))
        /\ pc' = IF runId' THEN "iv" ELSE "failed"
        /\ down' = Tail(down)
     \/ /\ down = <<>> /\ loop = "dead"
        /\ pc' = "failed"
        /\ UNCHANGED <<runId, down>>
  /\ UNCHANGED <<coder, handler, work, up, flushed, net, asked, replied, conn>>

\* ...and the IV, from which the codec makes its cipher.  A stream that ends
\* here is not an error of login.
AwaitIv ==
  /\ pc = "iv"
  /\ \/ /\ down # <<>> /\ Head(down) = Main("IV")
        /\ coder' = TRUE
        /\ pc' = "keyed"
        /\ down' = Tail(down)
     \/ /\ down = <<>> /\ loop = "dead"
        /\ pc' = "logged"
        /\ UNCHANGED <<coder, down>>
  /\ UNCHANGED <<runId, handler, work, up, flushed, net, asked, replied, conn>>

SendIv ==
  /\ pc = "keyed"
  /\ Send("IV", "logged")
  /\ UNCHANGED <<runId, coder, down>>

\* A second after its start login gives up, wherever it is.
LoginTimeout ==
  /\ pc \in {"login", "iv", "keyed"}
  /\ pc' = "failed"
  /\ UNCHANGED <<runId, coder, handler, work, up, flushed, down, net, asked, replied, conn>>

\* run spawns handle_stream.
Run ==
  /\ pc = "logged"
  /\ pc' = IF runId THEN "running" ELSE "failed"
  /\ handler' = IF runId THEN "next" ELSE handler
  /\ UNCHANGED <<runId, coder, work, up, flushed, down, net, asked, replied, conn>>

\* The caller asks for its proxy.
NewProxy ==
  /\ pc = "running"
  /\ Send("NewProxy", "proxied")
  /\ UNCHANGED <<runId, coder, down>>

-----------------------------------------------------------------------------
\* handle_stream opens a stream for a ReqWorkConn and skips anything else; it
\* ends with the main stream.
HandleMessage ==
  /\ handler = "next"
  /\ \/ /\ down # <<>> /\ Head(down) = Main("ReqWorkConn")
        /\ handler' = "opening"
        /\ down' = Tail(down)
        /\ OpenStream
     \/ /\ down # <<>> /\ Head(down) # Main("ReqWorkConn")
        /\ down' = Tail(down)
        /\ UNCHANGED <<handler, conn>>
     \/ /\ down = <<>> /\ loop = "dead"
        /\ handler' = "down"
        /\ UNCHANGED <<down, conn>>
  /\ UNCHANGED <<pc, runId, coder, work, up, flushed, net, asked, replied>>

\* It spawns the work connection on the stream; without one it panics.
HandlerOpened ==
  /\ handler = "opening" /\ answer # "none"
  /\ answer' = "none"
  /\ \/ /\ answer = "stream"
        /\ handler' = "next"
        /\ work' = [work EXCEPT ![Cardinality(Opened) + 1] = "open"]
     \/ /\ answer = "dropped"
        /\ handler' = "down"
        /\ UNCHANGED work
  /\ UNCHANGED <<pc, runId, coder, up, flushed, down, net, asked, replied, chan, armed,
                 woken, loop, unacked, full>>

\* Mutant: a work connection waits for the server before it has written.
WorkWrites_Later(w) ==
  /\ work[w] = "open"
  /\ work' = [work EXCEPT ![w] = IF loop = "up" THEN "written" ELSE "done"]
  /\ UNCHANGED <<pc, runId, coder, handler, up, flushed, down, net, asked, replied, conn>>

\* hande_work_conn writes NewWorkConn to its stream...
WorkWrites(w) ==
  /\ work[w] = "open"
  /\ work' = [work EXCEPT ![w] = IF loop = "up" THEN "written" ELSE "done"]
  /\ woken' = (loop = "up")
  /\ UNCHANGED <<pc, runId, coder, handler, up, flushed, down, net, asked, replied, chan,
                 answer, armed, loop, unacked, full>>

\* ...and with the answer connects to the local service, which may fail...
WorkStarts(w) ==
  /\ work[w] = "started"
  /\ \E s \in {"proxying", "done"} : work' = [work EXCEPT ![w] = s]
  /\ UNCHANGED <<pc, runId, coder, handler, up, flushed, down, net, asked, replied, conn>>

\* ...until one side of the proxy ends, or its stream with the connection.
WorkEnds(w) ==
  /\ \/ work[w] = "proxying"
     \/ work[w] \in {"written", "flushed"} /\ loop = "dead"
  /\ work' = [work EXCEPT ![w] = "done"]
  /\ UNCHANGED <<pc, runId, coder, handler, up, flushed, down, net, asked, replied, conn>>

Client == New \/ Login \/ LoginResponse \/ AwaitIv \/ SendIv \/ Run \/ NewProxy
Handler == HandleMessage \/ HandlerOpened
Server ==
  \/ ServerLogin \/ ServerIv \/ ServerAsks \/ ServerReplies
  \/ \E w \in Work : ServerStarts(w)

Next ==
  \/ Poll \/ PollPanics \/ Server \/ Client \/ LoginTimeout \/ Handler
  \/ \E w \in Work : WorkWrites(w) \/ WorkStarts(w) \/ WorkEnds(w)

\* The tasks of the client run whenever they can; the server owes nothing.
Spec ==
  /\ Init /\ [][Next]_vars
  /\ WF_vars(Poll) /\ WF_vars(Client) /\ WF_vars(Handler)
  /\ \A w \in Work : WF_vars(WorkWrites(w))

-----------------------------------------------------------------------------
\* The variables have their types; a command is alone in the channel.
TypeOK ==
  /\ pc \in {"opening", "opened", "login", "iv", "keyed", "logged", "running", "proxied",
            "failed"}
  /\ handler \in {"none", "next", "opening", "down"}
  /\ work \in [Work -> {"none", "open", "written", "flushed", "started", "proxying", "done"}]
  /\ answer \in {"none", "stream", "dropped"}
  /\ chan \in 0 .. 1 /\ unacked \in 0 .. Backlog

\* The server can read every message of the main stream: what follows the IV is
\* encrypted, and nothing else is.
ServerUnderstands ==
  \A i \in DOMAIN up : up[i][2] <=> \E j \in 1 .. i - 1 : up[j][1] = "IV"

\* A work connection exists only in a session whose login was accepted and whose
\* IVs were exchanged, although login also succeeds without the IV.
WorkOnlyInSession ==
  Opened # {} => runId /\ coder /\ \E i \in DOMAIN up : up[i][1] = "IV"

\* Every work connection the server asks for is opened, although a command that
\* enters the channel right after another wakes nobody (conn_control.rs:34):
\* unless the login fails, the connection breaks, or its backlog of streams was
\* full.  It is opened in a session the server understands.
EveryRequestServed ==
  /\ [](TypeOK /\ ServerUnderstands /\ WorkOnlyInSession)
  /\ \A n \in Work :
       asked >= n ~> (Cardinality(Opened) >= n \/ pc = "failed" \/ loop = "dead" \/ full)
=============================================================================
