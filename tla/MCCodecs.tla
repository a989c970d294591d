------------------------------ MODULE MCCodecs ------------------------------
(***************************************************************************)
(* The codecs of the two relay clients on small instances, with binary     *)
(* digits for bytes.  The codecs share nothing: a behaviour runs the one   *)
(* that runs names and leaves the other at its start.                      *)
(***************************************************************************)
EXTENDS Naturals, Sequences

VARIABLES
  runs,
  response, frames, wire, src, to_ws_response, header, salsa_box, items, status,
  sent, written, fwire, fsrc, stage, fheader, pos, fitems, fstatus

derp == <<response, frames, wire, src, to_ws_response, header, salsa_box, items, status>>
frp == <<sent, written, fwire, fsrc, stage, fheader, pos, fitems, fstatus>>
vars == <<runs, derp, frp>>

\* Frames of lengths 0 to 3 and one that is too long; every command is there.
MCFrames == {<<1, <<0, 1>>>>, <<3, <<1>>>>, <<5, <<1, 0, 1>>>>, <<6, <<>>>>,
             <<8, <<1, 1>>>>, <<9, <<0>>>>, <<5, <<1, 0, 1, 1>>>>}
MCBodies == {<<>>, <<1>>, <<0, 1>>, <<1, 1, 0>>}

Derp == INSTANCE DerpCodec WITH
  Base <- 2, MaxFrameLen <- 3, WsLen <- 2, Frames <- MCFrames, fast_connect <- FALSE,
  MaxSent <- 3

Frp == INSTANCE FrpCodec WITH
  Base <- 2, LenBytes <- 2, IvLen <- 2, MaxLen <- 2, Bodies <- MCBodies, MaxSent <- 4,
  wire <- fwire, src <- fsrc, header <- fheader, items <- fitems, status <- fstatus

ASSUME CodecConstants == Derp!Constants /\ Frp!Constants

Init ==
  /\ runs \in {"derp", "frp"}
  /\ Derp!Init /\ Frp!Init
  /\ runs = "frp" => response = 101

DerpRuns(A) == runs = "derp" /\ A
FrpRuns(A) == runs = "frp" /\ A

Next ==
  \/ DerpRuns(Derp!Next) /\ UNCHANGED <<runs, frp>>
  \/ FrpRuns(Frp!Next) /\ UNCHANGED <<runs, derp>>

\* The codec that runs is fair as its module says.
Spec ==
  /\ Init /\ [][Next]_vars
  /\ WF_derp(DerpRuns(\E n \in 1 .. Len(wire) : Derp!Arrive(n)))
  /\ WF_derp(DerpRuns(Derp!DecodeWs)) /\ WF_derp(DerpRuns(Derp!decode))
  /\ WF_frp(FrpRuns(\E n \in 1 .. Len(fwire) : Frp!Arrive(n)))
  /\ WF_frp(FrpRuns(Frp!DecodeIv)) /\ WF_frp(FrpRuns(Frp!TakeHeader))
  /\ WF_frp(FrpRuns(Frp!TakeBody))

-----------------------------------------------------------------------------
\* The DERP codec returns the frames that were sent.
DerpDelivers == Derp!DeliversInOrder

\* The frp codec returns the messages that were sent.
FrpDelivers == Frp!DeliversInOrder
=============================================================================
