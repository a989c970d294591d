------------------------------- MODULE MCNat --------------------------------
(***************************************************************************)
(* The NAT service and the extra transport that is fed by one, on small    *)
(* instances and for both protocols.  The modules are checked side by      *)
(* side: a behaviour runs the one that runs names and leaves the other at  *)
(* its start.                                                              *)
(***************************************************************************)
EXTENDS NatService, ExtraTransport

VARIABLE runs

MCPorts == {1, 2}

\* A NAT may show the socket at any port.
AnyPort(p) == MCPorts

MCInit == runs \in {"nat", "extra"} /\ NatInit /\ ExtraInit /\ kind = proto

NatRuns(A) == runs = "nat" /\ A
ExtraRuns(A) == runs = "extra" /\ A

MCNext ==
  \/ NatRuns(NatNext) /\ UNCHANGED <<runs, extraVars>>
  \/ ExtraRuns(ExtraNext) /\ UNCHANGED <<runs, natVars>>

\* The component that runs is fair as its module says.
MCSpec ==
  /\ MCInit /\ [][MCNext]_<<runs, natVars, extraVars>>
  /\ WF_natState(NatRuns(Bind)) /\ WF_natState(NatRuns(SendAddr))
  /\ WF_natState(NatRuns(set_external_port)) /\ WF_natState(NatRuns(MapTcp))
  /\ WF_natState(NatRuns(SendAgain)) /\ WF_natState(NatRuns(Renew))
  /\ WF_natState(NatRuns(RenewTimeout)) /\ WF_natState(NatRuns(RenewalEnds))
  /\ WF_natState(NatRuns(Take)) /\ WF_natState(NatRuns(Time))
  /\ WF_extraState(ExtraRuns(Spawn)) /\ WF_extraState(ExtraRuns(Replace))
  /\ WF_extraState(ExtraRuns(RecordFailure))
  /\ WF_extraState(ExtraRuns(HandleEvent)) /\ WF_extraState(ExtraRuns(HandlerEnds))
  /\ WF_extraState(ExtraRuns(SendUpdate)) /\ WF_extraState(ExtraRuns(ReadStatus))
  /\ WF_extraState(ExtraRuns(SendEnter)) /\ WF_extraState(ExtraRuns(Serve))
  /\ WF_extraState(ExtraRuns(Reconnect))
  /\ \A i \in Forwarders : WF_extraState(ExtraRuns(ForwarderEnds(i)))
=============================================================================
