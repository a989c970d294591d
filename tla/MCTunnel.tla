------------------------------ MODULE MCTunnel ------------------------------
(***************************************************************************)
(* Scenarios for the tunnels of three devices.  Each makes a different     *)
(* part of Tunnel go far and keeps the others short:                       *)
(*   glare    both ends initiate at once, and twice;                       *)
(*   rekey    one end initiates three times, and sending may fail;         *)
(*   session  data and keepalives go past the replay window;               *)
(*   restart  a daemon restarts while old datagrams are in flight;         *)
(*   star     two peers of a device share its table of sessions.           *)
(***************************************************************************)
EXTENDS Tunnel

CONSTANTS a, b, c

AllOnline == {<<a, b>>, <<b, a>>, <<a, c>>}

\* Who initiates, the indices of a and of the others, the packets of a session,
\* what is staged, the restarts, and whether sending may fail.
Scenario ==
  LET Bounds(who, i, j, n, t, r, f) ==
        [who |-> who, indices |-> [d \in Nodes |-> IF d = a THEN i ELSE j], packets |-> n,
         traffic |-> t, restarts |-> r, fails |-> f]
  IN [glare   |-> Bounds({<<a, b>>, <<b, a>>}, 2, 2, 1, {}, 0, FALSE),
      rekey   |-> Bounds({<<a, b>>}, 3, 3, 1, {}, 0, TRUE),
      session |-> Bounds({<<a, b>>}, 1, 1, 2, {"data", "empty"}, 0, FALSE),
      restart |-> Bounds({<<a, b>>}, 2, 2, 1, {"data"}, 1, FALSE),
      star    |-> Bounds({<<a, b>>, <<a, c>>}, 3, 1, 1, {}, 0, FALSE)]

VARIABLE scenario

MCInit == Init /\ scenario \in DOMAIN Scenario

\* Whether the step is one of the scenario.
Belongs(s) ==
  LET used == {n \in Nodes : \E l \in s.who : n \in {l[1], l[2]}} IN
  /\ \A l \in Peers : handshake'[l] # 0 => l \in s.who
  /\ \A n \in Nodes : nextIndex'[n] <= s.indices[n] + 1
  /\ \A x \in Nodes \X Indices : nonce'[x] <= s.packets
  /\ restarts' <= s.restarts
  /\ s.fails \/ \A l \in Peers : inTask'[l] # Dead
  /\ \A l \in Peers : outq'[l] # <<>> => l[1] \in used /\ l[2] \in used
  /\ \A l \in Peers, p \in Traffic \ s.traffic : ~ StageOutbound(l, p)
  /\ \A n \in Nodes \ used : ~ Restart(n)

MCNext == Next /\ UNCHANGED scenario /\ Belongs(Scenario[scenario])

MCSpec == MCInit /\ [][MCNext]_<<vars, scenario>>
=============================================================================
