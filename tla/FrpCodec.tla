------------------------------ MODULE FrpCodec ------------------------------
(***************************************************************************)
(* FrpCodec: how the frp client takes the messages of the control stream   *)
(* out of bytes that arrive in chunks of any size.  A message is a type, a *)
(* length and a body.  After the login response come the bytes of the IV;  *)
(* everything behind them is encrypted with a stream cipher, so a byte can *)
(* be read only at the cipher position it was written at.  Bytes are       *)
(* digits to the base Base, with the position they are encrypted at, or 0. *)
(***************************************************************************)
EXTENDS Naturals, Sequences, SequencesExt

CONSTANTS Base,     \* values of a byte
          LenBytes, \* bytes of a length (8 in the code)
          IvLen,    \* bytes of the IV (16 in the code)
          MaxLen,   \* the longest body that is taken
          Bodies,   \* bodies the server may send
          MaxSent   \* bound: messages the server sends

HeaderLen == LenBytes + 1

\* MsgType, with numbers for the letters.
LoginResp == 1
ReqWorkConn == 2
NewProxyResp == 3
StartWorkConn == 4
Pong == 5
Known == {LoginResp, ReqWorkConn, NewProxyResp, StartWorkConn}
Types == Known \cup {Pong}

\* What the constants have to satisfy.
Constants ==
  /\ Base \in Nat \ {0, 1} /\ {LenBytes, IvLen} \subseteq Nat \ {0}
  /\ MaxLen < Base ^ LenBytes /\ MaxSent \in Nat
  /\ \A b \in Bodies : b \in Seq(0 .. Base - 1) /\ Len(b) < Base ^ LenBytes

VARIABLES
  sent,     \* the items the server has sent: messages and the IV
  written,  \* the cipher position of the server
  wire,     \* bytes on their way
  src,      \* bytes that have arrived and are not taken yet
  stage, header, \* fields of FrpCodec
  pos,      \* the position of frp_coder, 0 while there is none
  items,    \* what decode has returned
  status    \* "open", "eof", or "error" after decode has failed

vars == <<sent, written, wire, src, stage, header, pos, items, status>>

None == [type |-> 0, len |-> 0]
Iv == <<0, <<>>>>

Init ==
  /\ sent = <<>> /\ written = 0 /\ wire = <<>> /\ src = <<>>
  /\ stage = "Login" /\ header = None /\ pos = 0
  /\ items = <<>> /\ status = "open"

-----------------------------------------------------------------------------
Digits(n) == [i \in 1 .. LenBytes |-> (n \div Base ^ (LenBytes - i)) % Base]
Number(b) == FoldLeft(LAMBDA n, d : n * Base + d, 0, b)

\* The plain bytes of a message: msg_header_encode and the body.
Encode(type, body) == <<type>> \o Digits(Len(body)) \o body

\* encrypt_buf: from position p > 0 on, or in clear for 0.
Encrypt(bytes, p) ==
  [i \in 1 .. Len(bytes) |-> <<bytes[i], IF p = 0 THEN 0 ELSE p + i - 1>>]

\* decrypt_buf at position p: a byte of another position comes out wrong.
Decrypt(cells, p) ==
  [i \in 1 .. Len(cells) |->
     IF cells[i][2] = (IF p = 0 THEN 0 ELSE p + i - 1)
     THEN cells[i][1] ELSE (cells[i][1] + 1) % Base]

\* The server sends the login response, the IV, and then encrypted messages.
ServerSends(type, body) ==
  /\ status = "open" /\ Len(sent) < MaxSent
  /\ type = LoginResp <=> sent = <<>>
  /\ type # LoginResp => written > 0
  /\ sent' = Append(sent, <<type, body>>)
  /\ wire' = wire \o Encrypt(Encode(type, body), written)
  /\ written' = IF written = 0 THEN 0 ELSE written + HeaderLen + Len(body)
  /\ UNCHANGED <<src, stage, header, pos, items, status>>

ServerSendsIv ==
  /\ status = "open" /\ Len(sent) = 1 /\ written = 0
  /\ sent' = Append(sent, Iv)
  /\ wire' = wire \o [i \in 1 .. IvLen |-> <<0, 0>>]
  /\ written' = 1
  /\ UNCHANGED <<src, stage, header, pos, items, status>>

\* The next n bytes arrive in one read.
Arrive(n) ==
  /\ status = "open" /\ n <= Len(wire)
  /\ src' = src \o SubSeq(wire, 1, n)
  /\ wire' = SubSeq(wire, n + 1, Len(wire))
  /\ UNCHANGED <<sent, written, stage, header, pos, items, status>>

-----------------------------------------------------------------------------
\* decode while the IV is waited for: it makes the cipher.
DecodeIv ==
  /\ stage = "WaitIv" /\ status = "open" /\ Len(src) >= IvLen
  /\ src' = SubSeq(src, IvLen + 1, Len(src))
  /\ pos' = 1
  /\ stage' = "Work"
  /\ items' = Append(items, Iv)
  /\ UNCHANGED <<sent, written, wire, header, status>>

\* "The data must be decrypted, or the position is off": the cipher moves on by
\* every byte that is taken, whatever the type of the message is.
Advance(p, n, type) == IF p = 0 THEN 0 ELSE p + n

\* The lengths that are refused.
TooLong(len) == len > MaxLen

\* decode, first part: a complete header is decrypted and kept; a body that is
\* too long is an error.
TakeHeader ==
  /\ stage # "WaitIv" /\ status = "open" /\ header = None /\ Len(src) >= HeaderLen
  /\ LET h == Decrypt(SubSeq(src, 1, HeaderLen), pos)
         len == Number(SubSeq(h, 2, HeaderLen)) IN
       /\ \/ /\ TooLong(len)
             /\ status' = "error"
             /\ UNCHANGED header
          \/ /\ ~ TooLong(len)
             /\ header' = [type |-> h[1], len |-> len]
             /\ UNCHANGED status
       /\ src' = SubSeq(src, HeaderLen + 1, Len(src))
       /\ pos' = Advance(pos, HeaderLen, h[1])
  /\ UNCHANGED <<sent, written, wire, stage, items>>

\* Mutant: the codec goes on to work without waiting for the IV.
Follows_Work(type) == IF type = LoginResp THEN "Work" ELSE stage

\* The stage after a message: the IV follows the login response.
Follows(type) == IF type = LoginResp THEN "WaitIv" ELSE stage

\* decode, second part: a complete body is decrypted and returned.  A message
\* of a type that is not known is a panic.
TakeBody ==
  /\ stage # "WaitIv" /\ status = "open" /\ header # None /\ Len(src) >= header.len
  /\ LET body == Decrypt(SubSeq(src, 1, header.len), pos) IN
       \/ /\ header.type \in Known
          /\ items' = Append(items, <<header.type, body>>)
          /\ stage' = Follows(header.type)
          /\ UNCHANGED status
       \/ /\ header.type \notin Known
          /\ status' = "error"
          /\ UNCHANGED <<items, stage>>
  /\ src' = SubSeq(src, header.len + 1, Len(src))
  /\ pos' = Advance(pos, header.len, header.type)
  /\ header' = None
  /\ UNCHANGED <<sent, written, wire>>

\* The control stream ends.
Eof ==
  /\ status = "open"
  /\ status' = "eof"
  /\ UNCHANGED <<sent, written, wire, src, stage, header, pos, items>>

Next ==
  \/ \E t \in Types, b \in Bodies : ServerSends(t, b)
  \/ ServerSendsIv
  \/ \E n \in 1 .. Len(wire) : Arrive(n)
  \/ DecodeIv \/ TakeHeader \/ TakeBody \/ Eof

\* Bytes that were sent arrive, and Framed decodes until nothing is complete.
Spec ==
  /\ Init /\ [][Next]_vars
  /\ WF_vars(\E n \in 1 .. Len(wire) : Arrive(n))
  /\ WF_vars(DecodeIv) /\ WF_vars(TakeHeader) /\ WF_vars(TakeBody)

-----------------------------------------------------------------------------
\* The cipher is in step with the server's: the next byte to be taken is
\* encrypted at the cipher's position, in whatever chunks the bytes arrived and
\* even when the IV came in the same chunk as the login response.
InStep ==
  status = "open" /\ stage # "WaitIv" /\ src \o wire # <<>> =>
    Head(src \o wire)[2] = pos

\* decode fails only on the message that is next, and only when its body is too
\* long or its type is not known: never on a length or a type it has misread.
FailsOnlyOnBadInput ==
  status = "error" =>
    /\ Len(items) < Len(sent)
    /\ LET m == sent[Len(items) + 1] IN Len(m[2]) > MaxLen \/ m[1] \notin Known

\* The stream of messages the codec implements.
Stream == INSTANCE FifoStream WITH
  Messages <- (Types \X Bodies) \cup {Iv},
  delivered <- items,
  cut <- status # "open"

\* The items are what the server sent, in order, and all of them come unless the
\* stream ends or fails; the cipher stays in step (frp_codec.rs:114, :124), and
\* decode fails only on what the server should not have sent.
DeliversInOrder == [](InStep /\ FailsOnlyOnBadInput) /\ Stream!Spec
=============================================================================
