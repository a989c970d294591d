----------------------------- MODULE DerpCodec ------------------------------
(***************************************************************************)
(* DerpCodec: how the client of a DERP relay takes frames out of a byte    *)
(* stream that arrives in chunks of any size.  A frame is a command byte,  *)
(* a length of four bytes, most significant first, and that many bytes.    *)
(* Before the first frame comes the HTTP response to the upgrade request.  *)
(* Bytes are digits to the base Base, and a key is one byte.               *)
(***************************************************************************)
EXTENDS Naturals, Sequences, SequencesExt

CONSTANTS Base,         \* values of a byte
          MaxFrameLen,  \* the longest frame that is taken
          WsLen,        \* bytes of the HTTP response
          Frames,       \* the frames the server may send: <<command, body>>
          fast_connect, \* whether there is no HTTP response
          MaxSent       \* bound: frames the server sends

None == <<>>
Byte == 0 .. Base - 1

\* CmdType: the frames a server sends to a client.
FrameServerKey == 1
FrameServerInfo == 3
FrameRecvPacket == 5
FrameKeepAlive == 6
FramePeerGone == 8

\* What the constants have to satisfy.
Constants ==
  /\ Base \in Nat \ {0, 1} /\ MaxFrameLen \in Nat /\ MaxFrameLen < Base ^ 4
  /\ WsLen \in Nat \ {0} /\ fast_connect \in BOOLEAN /\ MaxSent \in Nat
  /\ \A f \in Frames : f[1] \in Nat /\ f[2] \in Seq(Byte) /\ Len(f[2]) < Base ^ 4

VARIABLES
  response,  \* the HTTP status the server answers with
  frames,    \* the frames the server has sent
  wire,      \* bytes on their way
  src,       \* bytes that have arrived and are not taken yet
  to_ws_response, header, salsa_box, \* the fields of DerpCodec
  items,     \* what decode has returned
  status     \* "open", "eof", or "error" after decode has failed

codec == <<to_ws_response, header, salsa_box>>
vars == <<response, frames, wire, src, codec, items, status>>

\* Mutant: the length is written least significant byte first.
BigEndian_Little(n) == [i \in 1 .. 4 |-> (n \div Base ^ (i - 1)) % Base]

\* put_u32 and from_be_bytes
BigEndian(n) == [i \in 1 .. 4 |-> (n \div Base ^ (4 - i)) % Base]
FromBigEndian(b) ==
  b[1] * Base ^ 3 + b[2] * Base ^ 2 + b[3] * Base + b[4]

\* write_frame
write_frame(f) == <<f[1]>> \o BigEndian(Len(f[2])) \o f[2]

Init ==
  /\ response \in {101, 500}
  /\ frames = <<>>
  /\ wire = IF fast_connect THEN <<>> ELSE [i \in 1 .. WsLen |-> response]
  /\ src = <<>>
  /\ to_ws_response = ~ fast_connect /\ header = None /\ salsa_box = None
  /\ items = <<>> /\ status = "open"

-----------------------------------------------------------------------------
\* The server sends a frame.  It sends its key before anything encrypted.
ServerSends(f) ==
  /\ Len(frames) < MaxSent /\ status = "open"
  /\ f[1] = FrameServerInfo =>
       \E i \in 1 .. Len(frames) : frames[i][1] = FrameServerKey
  /\ frames' = Append(frames, f)
  /\ wire' = wire \o write_frame(f)
  /\ UNCHANGED <<response, src, codec, items, status>>

\* The next n bytes arrive in one read.
Arrive(n) ==
  /\ status = "open" /\ n <= Len(wire)
  /\ src' = src \o SubSeq(wire, 1, n)
  /\ wire' = SubSeq(wire, n + 1, Len(wire))
  /\ UNCHANGED <<response, frames, codec, items, status>>

\* validate_server_response, once the response is complete: anything but 101
\* is an error.
DecodeWs ==
  /\ to_ws_response /\ status = "open" /\ Len(src) >= WsLen
  /\ \/ /\ src[1] = 101
        /\ src' = SubSeq(src, WsLen + 1, Len(src))
        /\ to_ws_response' = FALSE
        /\ UNCHANGED status
     \/ /\ src[1] # 101
        /\ status' = "error"
        /\ UNCHANGED <<src, to_ws_response>>
  /\ UNCHANGED <<response, frames, wire, header, salsa_box, items>>

\* decode_frame: the item for a frame; a frame of another command is "Test".
Item(cmd, data) ==
  CASE cmd = FrameServerKey -> <<"ServerKey", Tail(data)>>
    [] cmd = FrameServerInfo -> <<"ServerInfo", <<>>>>
    [] cmd = FrameKeepAlive -> <<"KeepAlive", <<>>>>
    [] cmd = FrameRecvPacket -> <<"RecvPacket", data>>
    [] cmd = FramePeerGone -> <<"PeerGone", data>>
    [] OTHER -> <<"Test", <<>>>>

\* decode_frame keeps the server's key; without it nothing can be decrypted.
decode_frame(cmd, data) ==
  /\ salsa_box' = IF cmd = FrameServerKey THEN Tail(data) ELSE salsa_box
  /\ IF cmd = FrameServerInfo /\ salsa_box = None
     THEN status' = "error" /\ UNCHANGED items
     ELSE items' = Append(items, Item(cmd, data)) /\ UNCHANGED status

\* Whether the body of a frame has arrived.
Complete(rest, h) == Len(rest) >= h.len

\* self.header = Some(header)
Keep(h) == h

\* decode, when it makes progress: the header is taken as soon as its five
\* bytes are there and is kept until the body is complete.
decode ==
  /\ ~ to_ws_response /\ status = "open"
  /\ header = None => Len(src) >= 5
  /\ LET h == IF header = None
              THEN [cmd |-> src[1], len |-> FromBigEndian(SubSeq(src, 2, 5))]
              ELSE header
         rest == IF header = None THEN SubSeq(src, 6, Len(src)) ELSE src
     IN  \/ /\ h.len > MaxFrameLen
            /\ status' = "error"
            /\ UNCHANGED <<src, header, salsa_box, items>>
         \/ /\ h.len <= MaxFrameLen /\ ~ Complete(rest, h) /\ header = None
            /\ header' = Keep(h) /\ src' = rest
            /\ UNCHANGED <<salsa_box, items, status>>
         \/ /\ h.len <= MaxFrameLen /\ Complete(rest, h)
            /\ header' = None
            /\ src' = SubSeq(rest, h.len + 1, Len(rest))
            /\ decode_frame(h.cmd, SubSeq(rest, 1, h.len))
  /\ UNCHANGED <<response, frames, wire, to_ws_response>>

\* The connection ends.
Eof ==
  /\ status = "open"
  /\ status' = "eof"
  /\ UNCHANGED <<response, frames, wire, src, codec, items>>

Next ==
  \/ \E f \in Frames : ServerSends(f)
  \/ \E n \in 1 .. Len(wire) : Arrive(n)
  \/ DecodeWs \/ decode \/ Eof

\* Bytes that were sent arrive, and Framed decodes until nothing is complete.
Spec ==
  /\ Init /\ [][Next]_vars
  /\ WF_vars(\E n \in 1 .. Len(wire) : Arrive(n))
  /\ WF_vars(DecodeWs) /\ WF_vars(decode)

-----------------------------------------------------------------------------
\* The variables have their types; a header is kept only while its body is
\* incomplete.
TypeOK ==
  /\ response \in {101, 500} /\ frames \in Seq(Frames)
  /\ to_ws_response \in BOOLEAN /\ status \in {"open", "eof", "error"}
  /\ header # None => header.len \in 1 .. MaxFrameLen
  /\ Len(items) <= Len(frames)

\* What was sent but has not been returned is still there, byte by byte: the
\* kept header, the bytes that arrived and the bytes on their way are together
\* what the server wrote behind the frames that were returned.
NothingLost ==
  status # "error" /\ ~ to_ws_response =>
    (IF header = None THEN <<>> ELSE <<header.cmd>> \o BigEndian(header.len))
      \o src \o wire
    = FoldLeft(LAMBDA b, f : b \o write_frame(f), <<>>,
               SubSeq(frames, Len(items) + 1, Len(frames)))

\* decode fails only on a response that is not 101 or on a frame that is too
\* long: the server's key is there when an encrypted frame comes.
FailsOnlyOnBadInput ==
  status = "error" =>
    \/ response # 101
    \/ /\ Len(items) < Len(frames)
       /\ Len(frames[Len(items) + 1][2]) > MaxFrameLen

\* The stream of messages the codec implements.
Stream == INSTANCE FifoStream WITH
  Messages <- {Item(f[1], f[2]) : f \in Frames},
  sent <- [i \in 1 .. Len(frames) |-> Item(frames[i][1], frames[i][2])],
  delivered <- items,
  cut <- status # "open"

\* Whatever the chunks are in which the bytes arrive (derp_codec.rs:188, :274),
\* the items are the frames that were sent, in order, and all of them come unless
\* the stream ends or fails; no byte is lost on the way, and decode fails only on
\* what the server should not have sent.
DeliversInOrder == [](TypeOK /\ NothingLost /\ FailsOnlyOnBadInput) /\ Stream!Spec
=============================================================================
