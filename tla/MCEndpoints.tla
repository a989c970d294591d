----------------------------- MODULE MCEndpoints -----------------------------
(***************************************************************************)
(* Four setups of two nodes, one for each way in which they may come to    *)
(* reach each other: both dial TCP; one dials TCP and the other has no     *)
(* transport it supports; one dials TCP and the other UDP; both ask the    *)
(* relay.                                                                  *)
(***************************************************************************)
EXTENDS Endpoints

MCNodes == {"a", "b"}
PerNode(x, y) == [n \in MCNodes |-> IF n = "a" THEN x ELSE y]
NoFaults == PerNode({}, {})

Both == [first |-> PerNode("NatTcp", "NatTcp"), configured |-> {}, faults |-> NoFaults,
         streams |-> 2]
Single == [first |-> PerNode("NatTcp", "other"), configured |-> {}, faults |-> NoFaults,
           streams |-> 3]
Mixed == [first |-> PerNode("NatTcp", "NatUdp"), configured |-> {"b"}, faults |-> NoFaults,
          streams |-> 2]
Relayed == [first |-> PerNode("none", "none"), configured |-> {},
            faults |-> PerNode({"lag"}, {"break"}), streams |-> 0]
MCSetups == {Both, Single, Mixed, Relayed}

Runs(A) == setup # Both /\ A

\* The tasks of the last three setups are fair as Endpoints says.
MCSpec ==
  /\ EndpointsInit /\ [][EndpointsNext]_endpointVars
  /\ \A n \in MCNodes :
       /\ WF_endpointState(Runs(Selector(n))) /\ WF_endpointState(Runs(Inbound(n)))
       /\ WF_endpointState(Runs(Asked(n)))
       /\ \A i \in Streams : WF_endpointState(Runs(ReaderEnds(n, i)))
       /\ WF_endpointState(Runs(SendOutbound(n, "initiation")))
       /\ SF_endpointState(Runs(DialTcp(n)))
       /\ SF_endpointState(Runs(require_reply(n) /\ derp'[n] # "vacant"))

-----------------------------------------------------------------------------
\* Nodes that stay online come to have endpoints that work.  Where both dial, the
\* streams the bound leaves may be used up before they agree on one.
HealsOnceDialled == setup # Both => Heals
=============================================================================
