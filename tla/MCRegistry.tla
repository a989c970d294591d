----------------------------- MODULE MCRegistry -----------------------------
(***************************************************************************)
(* Four scenarios of Registry, for two peers: three connections that       *)
(* enter; three that ask for their address; two that enter and leave more  *)
(* than once; two that send every other request, for peers the database    *)
(* may not have yet.                                                       *)
(***************************************************************************)
EXTENDS Registry, TLC

VARIABLE scenario

mcVars == <<scenario, vars>>

MCInit ==
  /\ scenario \in {"entering", "addressing", "leaving", "requesting"}
  /\ Init
  /\ registered = IF scenario = "requesting" THEN {} ELSE Keys

\* How many connections a scenario has, and how many requests each of them sends.
Connections == IF scenario \in {"entering", "addressing"} THEN 3 ELSE 2
Limit == CASE scenario = "leaving" -> 3
           [] scenario = "requesting" -> 2
           [] OTHER -> 1

\* The kinds of requests of a scenario that have a handler.
Asked == CASE scenario = "entering" -> {"enter"}
           [] scenario = "addressing" -> {"config"}
           [] scenario = "leaving" -> {"enter", "leave"}
           [] scenario = "requesting" -> {"enter", "forward", "config", "endpoint"}

\* The request that a handler serves.
Kind(j) == CASE j.at \in {"generate", "reply"} -> "config"
             [] j.at = "insert" -> "endpoint"
             [] OTHER -> j.say

\* The step is one of the scenario.
Belongs ==
  /\ Cardinality({c \in Conns : phase'[c] # "none"}) <= Connections
  /\ \A c \in Conns :
       /\ received'[c] <= Limit
       /\ phase[c] = "ready" /\ job[c] = Idle /\ job'[c] # Idle => Kind(job'[c]) \in Asked
  /\ scenario # "requesting" => UNCHANGED <<endpoints, connects>>

MCNext == Next /\ Belongs /\ UNCHANGED scenario

MCSpec == MCInit /\ [][MCNext]_mcVars

\* Neither the peers nor the connections are told apart.
Symmetry == Permutations(Keys) \cup Permutations(Conns)
=============================================================================
