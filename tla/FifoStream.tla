----------------------------- MODULE FifoStream -----------------------------
(***************************************************************************)
(* What a framed stream promises: the reader gets the messages that were   *)
(* sent, each once and in order, until the stream is cut, and gets all of  *)
(* them if it is not.                                                      *)
(***************************************************************************)
EXTENDS Naturals, Sequences

CONSTANT Messages

VARIABLES sent,      \* the messages sent
          delivered, \* the messages the reader has got
          cut        \* whether the stream has ended

vars == <<sent, delivered, cut>>

Init == sent = <<>> /\ delivered = <<>> /\ cut = FALSE

Send(m) ==
  /\ ~ cut
  /\ sent' = Append(sent, m)
  /\ UNCHANGED <<delivered, cut>>

Deliver ==
  /\ ~ cut /\ Len(delivered) < Len(sent)
  /\ delivered' = Append(delivered, sent[Len(delivered) + 1])
  /\ UNCHANGED <<sent, cut>>

Cut == ~ cut /\ cut' = TRUE /\ UNCHANGED <<sent, delivered>>

Next == (\E m \in Messages : Send(m)) \/ Deliver \/ Cut

Spec == Init /\ [][Next]_vars /\ WF_vars(Deliver)
=============================================================================
