------------------------------ MODULE MCDaemon ------------------------------
(***************************************************************************)
(* How a node starts and joins, on small instances: the key pairs of one   *)
(* client and two servers; a daemon with two links while another peer      *)
(* comes and goes, and one that is left to join.  A behaviour runs the one *)
(* that scenario names and leaves the others at their start.               *)
(***************************************************************************)
EXTENDS Identity, Daemon

VARIABLE scenario

MCInit ==
  /\ scenario \in {"identity", "links", "join"}
  /\ Init /\ DaemonInit
  /\ scenario = "identity" => peer

MCNext ==
  \/ scenario = "identity" /\ Next /\ UNCHANGED <<scenario, daemonVars>>
  \/ scenario = "links" /\ DaemonNext /\ UNCHANGED <<scenario, vars>>
  \/ scenario = "join" /\ DaemonNext /\ turns' = turns /\ UNCHANGED <<scenario, vars>>

Joining(A) == scenario = "join" /\ A

\* The daemon that is left to join is fair as Daemon says.
MCSpec ==
  /\ MCInit /\ [][MCNext]_<<scenario, vars, daemonVars>>
  /\ WF_daemonVars(Joining(TakeLoop)) /\ WF_daemonVars(Joining(EndLoop))
  /\ WF_daemonVars(Joining(Deliver)) /\ WF_daemonVars(Joining(Reconnect))
  /\ SF_daemonVars(Joining(Connect)) /\ WF_daemonVars(Joining(ProcessTake))
  /\ WF_daemonVars(Joining(ProcessForward)) /\ WF_daemonVars(Joining(Manage))
  /\ \A i \in Links : WF_daemonVars(Joining(Server(i)))

-----------------------------------------------------------------------------
\* The daemon that is left to join gets into the registry.
EventuallyJoins == scenario = "join" => EventuallyJoined
=============================================================================
