----------------------------- MODULE PeerTable -----------------------------
(***************************************************************************)
(* The peers of a device: PeerList with its entries by public key, the     *)
(* table of allowed addresses by longest prefix and the index of sessions, *)
(* which the tasks of the peers share.  reset_peers clears the list while  *)
(* tasks of the old peers may still be running a handshake: a peer is an   *)
(* instance with a number, so that an old one is told from a new one of    *)
(* the same key.                                                           *)
(***************************************************************************)
EXTENDS Naturals, Sequences, Functions

CONSTANTS Keys,     \* public keys
          Width,    \* bits of an address (32 in the code)
          Allowed,  \* the sets of address and mask a peer may be given
          Configs,  \* the configurations a reset may be given, sequences of peers
          MaxPeers, \* bound: instances that are made
          MaxIndex  \* bound: session indices that are given out

PeerConfig == [key : Keys, allowed : Allowed]

ASSUME TableAssumption ==
  /\ {Width, MaxPeers, MaxIndex} \subseteq Nat
  /\ \A a \in Allowed : a \subseteq (0 .. 2 ^ Width - 1) \X (0 .. Width)
  /\ \A cfg \in Configs : cfg \in Seq(PeerConfig)

\* A fact of arithmetic: a power of two is positive.
ASSUME PowersArePositive == \A n \in 0 .. Width : 2 ^ n \in Nat \ {0}

VARIABLES
  made,    \* the instances so far: key, what it was given, and its networks
  peers,   \* the current instance of a key, a partial function
  ips,     \* the table of networks
  indexes, \* SessionIndex: the instance a session index belongs to
  keys,    \* SessionIndex: the indices of a key
  given,   \* indices that were given out
  tasks,   \* instances whose tasks run
  cleared, \* instances whose cancellation is spawned
  waited,  \* instances for which PeerHandle::cancel has returned
  pending, \* the peers that reset_peers has still to insert; it holds the lock
           \* of the list as long as there are any
  late     \* history: indices inserted by an instance that was cleared before

tableVars == <<made, peers, ips, indexes, keys, given, tasks, cleared, waited, pending,
               late>>

None == 0
Empty == [x \in {} |-> None]

\* A map after v was inserted under every key of X.
Put(map, X, v) == [x \in DOMAIN map \cup X |-> IF x \in X THEN v ELSE map[x]]

\* Cidr::new truncates the address to the mask.
Truncate(ip, mask) == ip - (ip % 2 ^ (Width - mask))

\* Mutant: the address is kept as it was given.
Cidr_Host(ip, mask) == <<ip, mask>>

Cidr(ip, mask) == <<Truncate(ip, mask), mask>>

\* longest_match of IpNetworkTable.
Covers(cidr, ip) == Truncate(ip, cidr[2]) = cidr[1]
Matches(networks, ip) == {c \in networks : Covers(c, ip)}
Longest(networks) == CHOOSE c \in networks : \A d \in networks : d[2] <= c[2]

get_by_ip(ip) ==
  LET m == Matches(DOMAIN ips, ip) IN IF m = {} THEN None ELSE ips[Longest(m)]

get_by_key(k) == IF k \in DOMAIN peers THEN peers[k] ELSE None

get_session_by_index(i) ==
  IF i \in DOMAIN indexes THEN <<indexes[i], get_by_key(made[indexes[i]].key)>>
  ELSE <<None, None>>

TableInit ==
  /\ made = <<>> /\ peers = Empty /\ ips = Empty
  /\ indexes = Empty /\ keys = Empty /\ given = 0
  /\ tasks = {} /\ cleared = {} /\ waited = {}
  /\ pending = <<>> /\ late = {}

-----------------------------------------------------------------------------
\* insert: a new entry, whose tasks are spawned, for an unknown key; an entry that
\* exists keeps its networks.  Either claims its networks in the table, whoever
\* had them.
Insert(k, allowed) ==
  LET new == k \notin DOMAIN peers
      p == IF new THEN Len(made) + 1 ELSE peers[k]
      cidrs == IF new THEN {Cidr(a[1], a[2]) : a \in allowed} ELSE made[p].cidrs
  IN /\ made' = IF new THEN Append(made, [key |-> k, allowed |-> allowed, cidrs |-> cidrs])
                ELSE made
     /\ peers' = Put(peers, {k}, p)
     /\ ips' = Put(ips, cidrs, p)
     /\ tasks' = IF new THEN tasks \cup {p} ELSE tasks
     /\ UNCHANGED <<indexes, keys, given, cleared, waited, late>>

\* insert_peer of DeviceInner takes the lock of the list.
InsertPeer(k, allowed) ==
  /\ pending = <<>>
  /\ k \in DOMAIN peers \/ Len(made) < MaxPeers
  /\ Insert(k, allowed)
  /\ UNCHANGED pending

\* Mutant: clear leaves a table as it was.
Cleared_Kept(table) == table

\* clear empties the networks, the sessions...
ClearedIps(table) == Empty
ClearedIndexes(table) == Empty

\* ...and the indices by key.
ClearedKeys(table) == Empty

\* reset_peers takes the lock of the list and clears it, which spawns the
\* cancellation of every handle.
ResetPeers(cfg) ==
  /\ pending = <<>>
  /\ Len(made) + Len(cfg) <= MaxPeers
  /\ pending' = cfg
  /\ peers' = Empty
  /\ ips' = ClearedIps(ips)
  /\ indexes' = ClearedIndexes(indexes)
  /\ keys' = ClearedKeys(keys)
  /\ cleared' = cleared \cup Range(peers)
  /\ UNCHANGED <<made, given, tasks, waited, late>>

\* reset_peers goes on with the next peer of the configuration.  The sessions have
\* locks of their own: the tasks of the peers run meanwhile.
ResetInsert ==
  /\ pending # <<>>
  /\ Insert(Head(pending).key, Head(pending).allowed)
  /\ pending' = Tail(pending)

-----------------------------------------------------------------------------
\* PeerHandle::cancel cancels the token and waits for the tasks it holds, and it
\* holds none.
Cancel(p) ==
  /\ p \in cleared \ waited
  /\ waited' = waited \cup {p}
  /\ UNCHANGED <<made, peers, ips, indexes, keys, given, tasks, cleared, pending, late>>

\* The tasks of a peer see the cancelled token and end.
TasksEnd(p) ==
  /\ p \in tasks \cap waited
  /\ tasks' = tasks \ {p}
  /\ UNCHANGED <<made, peers, ips, indexes, keys, given, cleared, waited, pending, late>>

\* A handshake of the peer takes the next index and activates a session.
Activate(p) ==
  /\ p \in tasks /\ given < MaxIndex
  /\ given' = given + 1
  /\ LET k == made[p].key IN
       keys' = Put(keys, {k}, (IF k \in DOMAIN keys THEN keys[k] ELSE {}) \cup {given'})
  /\ indexes' = Put(indexes, {given'}, p)
  /\ late' = IF p \in cleared THEN late \cup {given'} ELSE late
  /\ UNCHANGED <<made, peers, ips, tasks, cleared, waited, pending>>

\* A session of the peer is deactivated: remove takes its index out of both maps,
\* and takes it for granted that the key is there.
Deactivate(p, i) ==
  /\ p \in tasks /\ i \in DOMAIN indexes /\ indexes[i] = p
  /\ indexes' = [j \in DOMAIN indexes \ {i} |-> indexes[j]]
  /\ keys' = [keys EXCEPT ![made[p].key] = @ \ {i}]
  /\ UNCHANGED <<made, peers, ips, given, tasks, cleared, waited, pending, late>>

TableNext ==
  \/ \E k \in Keys, a \in Allowed : InsertPeer(k, a)
  \/ \E cfg \in Configs : ResetPeers(cfg)
  \/ ResetInsert
  \/ \E p \in DOMAIN made :
       \/ Cancel(p) \/ TasksEnd(p) \/ Activate(p)
       \/ \E i \in 1 .. given : Deactivate(p, i)

TableSpec == TableInit /\ [][TableNext]_tableVars

-----------------------------------------------------------------------------
\* Properties

Current == Range(peers)

\* The state is of its types: instances are numbered, the three tables are partial
\* functions to them, and a peer of the list has the key it is found by.
TableTypeOK ==
  /\ made \in Seq([key : Keys, allowed : Allowed, cidrs : SUBSET (Nat \X (0 .. Width))])
  /\ given \in Nat
  /\ tasks \cup cleared \subseteq DOMAIN made
  /\ pending \in Seq(PeerConfig)
  /\ DOMAIN peers \subseteq Keys
  /\ \A k \in DOMAIN peers : peers[k] \in DOMAIN made /\ made[peers[k]].key = k
  /\ \A c \in DOMAIN ips : c \in Nat \X (0 .. Width) /\ ips[c] \in DOMAIN made
  /\ DOMAIN indexes \cup late \subseteq 1 .. given
  /\ \A i \in DOMAIN indexes : indexes[i] \in DOMAIN made

\* The masks under which an address given to a peer agrees with ip.
Masks(p, ip) ==
  {x[2] : x \in {y \in made[p].allowed :
                   ip \div 2 ^ (Width - y[2]) = y[1] \div 2 ^ (Width - y[2])}}

\* A packet goes to a peer of the list that was given the longest mask under which
\* its address agrees with the packet's, and to nobody only if no peer of the list
\* was given one that agrees: whatever was inserted, inserted again or cleared.
RouteIsMostSpecific ==
  \A ip \in 0 .. 2 ^ Width - 1 :
    \/ /\ get_by_ip(ip) \in Current
       /\ \E m \in Masks(get_by_ip(ip), ip) : \A p \in Current : \A n \in Masks(p, ip) : n <= m
    \/ /\ get_by_ip(ip) = None
       /\ \A p \in Current : Masks(p, ip) = {}

\* The two maps of SessionIndex hold the same indices, each under the key of its
\* peer.
IndexAgrees ==
  /\ \A i \in DOMAIN indexes :
       made[indexes[i]].key \in DOMAIN keys /\ i \in keys[made[indexes[i]].key]
  /\ \A k \in DOMAIN keys : \A i \in keys[k] :
       i \in DOMAIN indexes /\ made[indexes[i]].key = k

\* A session index leads to the peer that made the session, unless the session
\* was made by a peer whose tasks outlived its removal from the list; and the two
\* maps of SessionIndex agree, so that remove never meets a key that is gone.
SessionIsOfItsPeer ==
  /\ TableTypeOK
  /\ IndexAgrees
  /\ \A i \in DOMAIN indexes \ late : get_session_by_index(i) = <<indexes[i], indexes[i]>>

-----------------------------------------------------------------------------
\* Why these hold

\* The table of networks holds those of the peers of the list and no others.
RoutesInv ==
  /\ \A p \in DOMAIN made :
       made[p].cidrs = {Cidr(a[1], a[2]) : a \in made[p].allowed}
  /\ \A c \in DOMAIN ips : ips[c] \in Current /\ c \in made[ips[c]].cidrs
  /\ \A p \in Current : made[p].cidrs \subseteq DOMAIN ips

\* A peer that was not cleared is in the list, and one that was is not; a session
\* made before its peer was cleared went with it.
SessionsInv ==
  /\ IndexAgrees
  /\ \A p \in DOMAIN made \ cleared :
       made[p].key \in DOMAIN peers /\ peers[made[p].key] = p
  /\ \A i \in DOMAIN indexes \ late : indexes[i] \notin cleared

TableInv == TableTypeOK /\ RoutesInv /\ SessionsInv
=============================================================================
