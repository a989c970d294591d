------------------------------ MODULE MCPeers -------------------------------
(***************************************************************************)
(* What a device keeps for its peers, on small instances: the anti-replay  *)
(* filter of a session, the timers of a peer's handshakes, and the table   *)
(* of the peers, with addresses of two bits and networks that overlap.     *)
(* The modules are checked side by side: a behaviour runs the one that     *)
(* runs names and leaves the others at their start.                        *)
(***************************************************************************)
EXTENDS NonceFilter, PeerMonitor, PeerTable

CONSTANT MaxConfig \* bound: peers of a configuration

VARIABLE runs

all == <<runs, vars, monitorVars, tableVars>>

MCKeys == {"a", "b"}
MCAllowed == {{<<1, 2>>}, {<<3, 1>>, <<1, 2>>}, {<<1, 1>>}}
MCConfigs == UNION {[1 .. n -> [key : MCKeys, allowed : MCAllowed]] : n \in 1 .. MaxConfig}

MCInit ==
  /\ runs \in {"filter", "monitor", "table"}
  /\ Init /\ MonitorInit /\ TableInit
  /\ runs # "monitor" => online

MCNext ==
  \/ runs = "filter" /\ Next /\ UNCHANGED <<runs, monitorVars, tableVars>>
  \/ runs = "monitor" /\ MonitorNext /\ UNCHANGED <<runs, vars, tableVars>>
  \/ runs = "table" /\ TableNext /\ UNCHANGED <<runs, vars, monitorVars>>

MCSpec == MCInit /\ [][MCNext]_all
=============================================================================
