------------------------------ MODULE MCRelay -------------------------------
(***************************************************************************)
(* The connections of the two relay clients on small instances: three      *)
(* calls for one DERP server, and a session of frp with three work         *)
(* connections.  The clients share nothing: a behaviour runs the one that  *)
(* runs names and leaves the other at its start.                           *)
(***************************************************************************)
EXTENDS DerpClient

VARIABLES
  runs,
  pc, runId, coder, handler, work, up, flushed, down, net, replied, asked, chan, answer,
  armed, woken, loop, unacked, full

frp == <<pc, runId, coder, handler, work, up, flushed, down, net, replied, asked, chan,
         answer, armed, woken, loop, unacked, full>>
vars == <<runs, derpVars, frp>>

MCRequests == {"r", "s", "t"}
MCMaxWork == 3

Frp == INSTANCE FrpControl WITH MaxWork <- MCMaxWork, Backlog <- 2

ASSUME FrpConstants == Frp!Constants

Init == runs \in {"derp", "frp"} /\ DerpInit /\ Frp!Init

DerpRuns(A) == runs = "derp" /\ A
FrpRuns(A) == runs = "frp" /\ A

Next ==
  \/ DerpRuns(DerpNext) /\ UNCHANGED <<runs, frp>>
  \/ FrpRuns(Frp!Next) /\ UNCHANGED <<runs, derpVars>>

\* The client that runs is fair as its module says.
Spec ==
  /\ Init /\ [][Next]_vars
  /\ \A r \in Requests :
       /\ SF_derpVars(DerpRuns(Lock(r)))
       /\ WF_derpVars(DerpRuns(Dial(r) \/ DialFails(r)))
       /\ WF_derpVars(DerpRuns(Shakes(r)))
  /\ \A c \in Conns : WF_derpVars(DerpRuns(SinkSend(c))) /\ WF_derpVars(DerpRuns(Server(c)))
  /\ WF_frp(FrpRuns(Frp!Poll)) /\ WF_frp(FrpRuns(Frp!Client)) /\ WF_frp(FrpRuns(Frp!Handler))
  /\ \A w \in 1 .. MCMaxWork : WF_frp(FrpRuns(Frp!WorkWrites(w)))

-----------------------------------------------------------------------------
\* The work connections the frp server asks for are opened.
EveryRequestServed == Frp!EveryRequestServed
=============================================================================
