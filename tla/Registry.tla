------------------------------ MODULE Registry ------------------------------
(***************************************************************************)
(* The coordination server (headlink): the connections of the clients, the *)
(* registry of the peers of one network that the connections share, the    *)
(* addresses it hands out and what it tells the clients about each other.  *)
(*                                                                         *)
(* A connection is one task (main.rs).  It runs the handshake, then serves *)
(* one request after the other; a handler gives way at every await, so the *)
(* handlers of different connections interleave between the steps below.   *)
(* When the link of a connection ends, whatever its handler was doing is   *)
(* dropped where it stands and the clean-up of main.rs follows.            *)
(*                                                                         *)
(* The content of a request is chosen when it is handled.  Every PeerEnter *)
(* stores a new OnlineInfo, named here by its connection and the number of *)
(* the PeerEnter on it.                                                    *)
(***************************************************************************)
EXTENDS Naturals, FiniteSets, FiniteSetsExt

CONSTANTS Keys,       \* the public keys of peers
          Conns,      \* the connections accepted over time
          Requests,   \* the kinds of requests the clients send
          TokenLogin, \* whether clients present a token of the network
          Protos,     \* the protocols of extra endpoints
          Default,    \* the default protocol of the peers, or None
          Size,       \* the number of addresses of the network
          Queue,      \* places in the channel of received requests (128)
          MaxRequests,\* bound: requests received on a connection
          None

\* What the constants have to satisfy.
Constants ==
  /\ TokenLogin \in BOOLEAN
  /\ Size \in Nat /\ Queue \in Nat \ {0} /\ MaxRequests \in Nat
  /\ Requests \subseteq {"enter", "leave", "forward", "config", "endpoint",
                         "complete", "other"}
  /\ Protos \cap {"enter", "leave"} = {}
  /\ None \notin Keys \cup Conns /\ None \notin Protos /\ None \notin 0 .. Size
  /\ \A ks \in SUBSET Keys : ks # None

ASSUME RegistryAssumption == Constants

VARIABLES
  phase,      \* per connection: where its task is
  key,        \* per connection: the key of client_id, set once
  received,   \* per connection: requests received in all
  inbox,      \* per connection: received and not yet taken
  lagged,     \* per connection: whether the channel has overwritten a request
  job,        \* per connection: the handler that is running
  enters,     \* per connection: how many PeerEnter were served
  endpoints,  \* per connection: the extra endpoints of its latest OnlineInfo
  told,       \* per connection: what its client was last told of each key
  registered, \* the keys with a row in the database
  known,      \* the keys of the network in memory, or None before it is loaded
  online,     \* per key: the connection of its OnlineInfo, or None
  ip,         \* per key: the address of the model in memory, or None
  row,        \* per key: the address in the database, or None
  connects,   \* pairs of keys that reported a completed handshake
  raced, cut, \* history: overlapping allocations, and keys whose handler was
              \* dropped between the database and the memory
  left,       \* history: connections that sent PeerLeave
  again       \* history: connections that sent ReqConfig after PeerEnter

server == <<registered, known, online, ip, row, connects>>
history == <<raced, cut, left, again>>
vars == <<phase, key, received, inbox, lagged, job, enters, endpoints, told,
          server, history>>

Idle == [at |-> "idle", say |-> "none", who |-> {}, to |-> {}, nth |-> 0,
         addr |-> None, seen |-> None]

Phases == {"none", "hello", "identified", "welcome", "ready", "ended",
           "removed", "leaving", "gone"}
\* A connection whose event loop runs.
Live == {"hello", "identified", "welcome", "ready"}

Init ==
  /\ phase = [c \in Conns |-> "none"]
  /\ key = [c \in Conns |-> None]
  /\ received = [c \in Conns |-> 0]
  /\ inbox = [c \in Conns |-> 0]
  /\ lagged = [c \in Conns |-> FALSE]
  /\ job = [c \in Conns |-> Idle]
  /\ enters = [c \in Conns |-> 0]
  /\ endpoints = [c \in Conns |-> {}]
  /\ told = [c \in Conns |-> [k \in Keys |-> "unknown"]]
  /\ registered \in SUBSET Keys
  /\ known = None
  /\ online = [k \in Keys |-> None]
  /\ ip = [k \in Keys |-> None]
  /\ row = [k \in Keys |-> None]
  /\ connects = {}
  /\ raced = {} /\ cut = {} /\ left = {} /\ again = {}

-----------------------------------------------------------------------------
\* An administrator adds a peer to the database.
Register(k) ==
  /\ k \notin registered
  /\ registered' = registered \cup {k}
  /\ UNCHANGED <<phase, key, received, inbox, lagged, job, enters, endpoints,
                 told, known, online, ip, row, connects, history>>

\* main: accept a connection, insert_client, and send RespServerInfo
Accept(c) ==
  /\ phase[c] = "none"
  /\ phase' = [phase EXCEPT ![c] = "hello"]
  /\ UNCHANGED <<key, received, inbox, lagged, job, enters, endpoints, told,
                 server, history>>

\* get_network: the network is read from the database once
get_network == known' = IF known = None THEN registered ELSE known

\* handshake0 up to the online check: client_id is set before it.
Identify(c, k) ==
  /\ phase[c] = "hello"
  /\ TokenLogin \/ k \in registered
  /\ key' = [key EXCEPT ![c] = k]
  /\ phase' = [phase EXCEPT ![c] = "identified"]
  /\ get_network
  /\ UNCHANGED <<received, inbox, lagged, job, enters, endpoints, told,
                 registered, online, ip, row, connects, history>>

\* handshake0: no handshake, a wrong or disabled token, or no such peer
Reject(c) ==
  /\ phase[c] = "hello"
  /\ phase' = [phase EXCEPT ![c] = "ended"]
  /\ UNCHANGED <<key, received, inbox, lagged, job, enters, endpoints, told,
                 server, history>>

\* handshake0: the check, and RespHandshake with its outcome
CheckOnline(c) ==
  /\ phase[c] = "identified"
  /\ phase' = [phase EXCEPT ![c] = IF online[key[c]] # None THEN "ended"
                                                            ELSE "welcome"]
  /\ UNCHANGED <<key, received, inbox, lagged, job, enters, endpoints, told,
                 server, history>>

\* process_client subscribes: requests that came before are not seen.
Subscribe(c) ==
  /\ phase[c] = "welcome"
  /\ phase' = [phase EXCEPT ![c] = "ready"]
  /\ inbox' = [inbox EXCEPT ![c] = 0]
  /\ lagged' = [lagged EXCEPT ![c] = FALSE]
  /\ UNCHANGED <<key, received, job, enters, endpoints, told, server, history>>

\* recv_handler: into the broadcast channel, which overwrites when it is full
Receive(c) ==
  /\ phase[c] \in {"welcome", "ready"}
  /\ received[c] < MaxRequests
  /\ received' = [received EXCEPT ![c] = @ + 1]
  /\ IF inbox[c] < Queue
     THEN /\ inbox' = [inbox EXCEPT ![c] = @ + 1]
          /\ UNCHANGED lagged
     ELSE /\ lagged' = [lagged EXCEPT ![c] = TRUE]
          /\ UNCHANGED inbox
  /\ UNCHANGED <<phase, key, job, enters, endpoints, told, server, history>>

-----------------------------------------------------------------------------
\* Requests

\* process_client takes the next request of a kind.
Take(c, kind) ==
  /\ phase[c] = "ready" /\ job[c] = Idle
  /\ inbox[c] > 0 /\ ~ lagged[c]
  /\ kind \in Requests
  /\ inbox' = [inbox EXCEPT ![c] = @ - 1]
  /\ UNCHANGED <<phase, key, received, lagged>>

Found(c) == key[c] \in known

\* Mutant: the loop goes on after an overwritten request.
Lagged_GoesOn(c) ==
  /\ phase[c] = "ready" /\ job[c] = Idle
  /\ lagged[c]
  /\ lagged' = [lagged EXCEPT ![c] = FALSE]
  /\ UNCHANGED <<phase, key, received, inbox, job, enters, endpoints, told,
                 server, history>>

\* recv returns an error when requests were overwritten: the loop ends.
Lagged(c) ==
  /\ phase[c] = "ready" /\ job[c] = Idle
  /\ lagged[c]
  /\ phase' = [phase EXCEPT ![c] = "ended"]
  /\ UNCHANGED <<key, received, inbox, lagged, job, enters, endpoints, told,
                 server, history>>

\* A request without effect: an unknown type, a peer that is not in memory
\* (PeerNotFound) or a PeerEnter with another address (IpNotMatch).  The error
\* is sent back and the loop goes on.
Refuse(c) ==
  /\ \/ Take(c, "other")
     \/ (\E kind \in {"config", "endpoint"} : Take(c, kind)) /\ ~ Found(c)
     \/ Take(c, "enter")
  /\ UNCHANGED <<job, enters, endpoints, told, server, history>>

\* Mutant: the predicate of the broadcast is inverted.
PeerEnter_TellSelf(c) ==
  /\ Take(c, "enter")
  /\ Found(c)
  /\ enters' = [enters EXCEPT ![c] = @ + 1]
  /\ \E es \in SUBSET Protos : endpoints' = [endpoints EXCEPT ![c] = es]
  /\ online' = [online EXCEPT ![key[c]] = c]
  /\ job' = [job EXCEPT ![c] = [Idle EXCEPT !.at = "collect", !.say = "enter",
                                            !.who = {key[c]}]]
  /\ UNCHANGED <<told, registered, known, ip, row, connects, history>>

\* PeerEnter: with the address of the model
PeerEnter(c) ==
  /\ Take(c, "enter")
  /\ Found(c)
  /\ enters' = [enters EXCEPT ![c] = @ + 1]
  /\ \E es \in SUBSET Protos : endpoints' = [endpoints EXCEPT ![c] = es]
  /\ online' = [online EXCEPT ![key[c]] = c]
  /\ job' = [job EXCEPT ![c] = [Idle EXCEPT !.at = "collect", !.say = "enter",
                                            !.who = Keys \ {key[c]}]]
  /\ UNCHANGED <<told, registered, known, ip, row, connects, history>>

\* Mutant: the whole network goes offline.
GoOffline_All(c) ==
  /\ online' = [k \in Keys |-> None]
  /\ job' = [job EXCEPT ![c] = [Idle EXCEPT !.at = "collect", !.say = "leave",
                                            !.who = Keys \ {key[c]}]]

\* Mutant: the registry changes and nobody is told.
GoOffline_Silent(c) ==
  /\ online' = [online EXCEPT ![key[c]] = None]
  /\ job' = [job EXCEPT ![c] = [Idle EXCEPT !.at = "collect", !.say = "leave"]]

\* VlinkNetworkInner::offline, up to its broadcast
GoOffline(c) ==
  /\ online' = [online EXCEPT ![key[c]] = None]
  /\ job' = [job EXCEPT ![c] = [Idle EXCEPT !.at = "collect", !.say = "leave",
                                            !.who = Keys \ {key[c]}]]

PeerLeave(c) ==
  /\ Take(c, "leave")
  /\ GoOffline(c)
  /\ left' = left \cup {c}
  /\ UNCHANGED <<enters, endpoints, told, registered, known, ip, row, connects,
                 raced, cut, again>>

PeerForward(c) ==
  /\ Take(c, "forward")
  /\ \E k \in Keys :
       job' = [job EXCEPT ![c] = [Idle EXCEPT !.at = "collect",
                                              !.say = "forward", !.who = {k}]]
  /\ UNCHANGED <<enters, endpoints, told, server, history>>

DevHandshakeComplete(c) ==
  /\ Take(c, "complete")
  /\ \E k \in Keys : connects' = connects \cup {{key[c], k}}
  /\ UNCHANGED <<job, enters, endpoints, told, registered, known, online, ip,
                 row, history>>

\* broadcast_by: the connections of the receivers, read under the lock
Collect(c) ==
  /\ job[c].at = "collect"
  /\ job' = [job EXCEPT ![c].at = "send",
                        ![c].to = {online[k] : k \in job[c].who} \ {None}]
  /\ UNCHANGED <<phase, key, received, inbox, lagged, enters, endpoints, told,
                 server, history>>

Word == [enter |-> "entered", leave |-> "left"]

\* broadcast_by: one of the sends; to a connection that has ended it fails
SendOne(c, r) ==
  /\ job[c].at = "send" /\ r \in job[c].to
  /\ job' = [job EXCEPT ![c].to = @ \ {r}]
  /\ told' = IF phase[r] \in Live /\ job[c].say \in DOMAIN Word
             THEN [told EXCEPT ![r][key[c]] = Word[job[c].say]]
             ELSE told
  /\ UNCHANGED <<phase, key, received, inbox, lagged, enters, endpoints,
                 server, history>>

\* broadcast_by: all sends are done; the handler, or the clean-up, returns
Sent(c) ==
  /\ job[c].at = "send" /\ job[c].to = {}
  /\ job' = [job EXCEPT ![c] = Idle]
  /\ phase' = [phase EXCEPT ![c] = IF @ = "leaving" THEN "gone" ELSE @]
  /\ UNCHANGED <<key, received, inbox, lagged, enters, endpoints, told, server,
                 history>>

-----------------------------------------------------------------------------
\* ReqConfig

\* What the snapshot of the peers says of a key.
Listed(k) == IF k \notin known \/ ip[k] = None THEN "unknown"
             ELSE IF online[k] # None THEN "listed"
             ELSE "left"

\* The peer of the request and the list of the others are read.
ConfigRead(c) ==
  /\ Take(c, "config")
  /\ Found(c)
  /\ job' = [job EXCEPT ![c] =
       [Idle EXCEPT !.at = IF ip[key[c]] = None THEN "generate" ELSE "reply",
                    !.seen = [k \in Keys |-> Listed(k)]]]
  /\ again' = IF enters[c] > 0 THEN again \cup {c} ELSE again
  /\ UNCHANGED <<enters, endpoints, told, server, raced, cut, left>>

\* The connections of others that have chosen an address and not stored it.
Choosing == {c \in Conns : job[c].at \in {"update", "refresh"}}

\* generate_ip: the addresses not in use, without the first two
generate_ip == {a \in 2 .. Size - 1 : \A k \in known : ip[k] # a}

ConfigGenerate(c) ==
  /\ job[c].at = "generate"
  /\ IF generate_ip = {}
     THEN job' = [job EXCEPT ![c] = Idle]      \* the error is sent back
     ELSE job' = [job EXCEPT ![c].at = "update", ![c].addr = Min(generate_ip)]
  /\ raced' = raced \cup {{key[c], key[d]} : d \in Choosing}
  /\ UNCHANGED <<phase, key, received, inbox, lagged, enters, endpoints, told,
                 server, cut, left, again>>

\* PeerEntity::update
ConfigUpdate(c) ==
  /\ job[c].at = "update"
  /\ row' = [row EXCEPT ![key[c]] = job[c].addr]
  /\ job' = [job EXCEPT ![c].at = "refresh"]
  /\ UNCHANGED <<phase, key, received, inbox, lagged, enters, endpoints, told,
                 registered, known, online, ip, connects, history>>

\* Mutant: the address goes to the database only.
ConfigRefresh_RowOnly(c) ==
  /\ job[c].at = "refresh"
  /\ job' = [job EXCEPT ![c].at = "reply"]
  /\ UNCHANGED <<phase, key, received, inbox, lagged, enters, endpoints, told,
                 registered, known, online, ip, row, connects, history>>

\* Peers::refresh_model
ConfigRefresh(c) ==
  /\ job[c].at = "refresh"
  /\ ip' = [ip EXCEPT ![key[c]] = job[c].addr]
  /\ job' = [job EXCEPT ![c].at = "reply"]
  /\ UNCHANGED <<phase, key, received, inbox, lagged, enters, endpoints, told,
                 registered, known, online, row, connects, history>>

ConfigReply(c) ==
  /\ job[c].at = "reply"
  /\ told' = [told EXCEPT ![c] = [k \in Keys |->
                IF job[c].seen[k] = "unknown" THEN @[k] ELSE job[c].seen[k]]]
  /\ job' = [job EXCEPT ![c] = Idle]
  /\ UNCHANGED <<phase, key, received, inbox, lagged, enters, endpoints,
                 server, history>>

-----------------------------------------------------------------------------
\* ExtraEndpoint

\* The peer of the request is copied, with the OnlineInfo it has then.
EndpointRead(c, p) ==
  /\ Take(c, "endpoint")
  /\ Found(c)
  /\ LET o == online[key[c]]
     IN job' = [job EXCEPT ![c] =
          [Idle EXCEPT !.at = "insert", !.say = p, !.to = {o} \ {None},
                       !.nth = IF o = None THEN 0 ELSE enters[o]]]
  /\ UNCHANGED <<enters, endpoints, told, server, history>>

\* The online peers the sender has no completed handshake with.
Unconnected(k) == {j \in known \ {k} : online[j] # None /\ {j, k} \notin connects}

\* The endpoint is stored, then the receivers are chosen.
EndpointInsert(c) ==
  /\ job[c].at = "insert"
  /\ endpoints' = [d \in Conns |-> IF d \in job[c].to /\ enters[d] = job[c].nth
                                   THEN endpoints[d] \cup {job[c].say}
                                   ELSE endpoints[d]]
  /\ job' = [job EXCEPT ![c].at = "collect", ![c].to = {}, ![c].nth = 0,
               ![c].who = IF job[c].say = Default THEN Unconnected(key[c]) ELSE {}]
  /\ UNCHANGED <<phase, key, received, inbox, lagged, enters, told, server,
                 history>>

-----------------------------------------------------------------------------
\* The end of a connection

\* The link breaks, a message does not decode, or the handshake takes longer
\* than 10 seconds: the event loop returns and the handler is dropped.
End(c) ==
  /\ phase[c] \in Live
  /\ phase' = [phase EXCEPT ![c] = "ended"]
  /\ job' = [job EXCEPT ![c] = Idle]
  /\ cut' = IF job[c].at = "refresh" THEN cut \cup {key[c]} ELSE cut
  /\ UNCHANGED <<key, received, inbox, lagged, enters, endpoints, told, server,
                 raced, left, again>>

\* remove_client; a connection that never set client_id is done
RemoveClient(c) ==
  /\ phase[c] = "ended"
  /\ phase' = [phase EXCEPT ![c] = IF key[c] = None THEN "gone" ELSE "removed"]
  /\ UNCHANGED <<key, received, inbox, lagged, job, enters, endpoints, told,
                 server, history>>

\* Mutant: the clean-up only removes the client.
Offline_Skipped(c) ==
  /\ phase[c] = "removed"
  /\ phase' = [phase EXCEPT ![c] = "gone"]
  /\ UNCHANGED <<key, received, inbox, lagged, job, enters, endpoints, told,
                 server, history>>

\* network.offline of the key of the connection
Offline(c) ==
  /\ phase[c] = "removed"
  /\ phase' = [phase EXCEPT ![c] = "leaving"]
  /\ GoOffline(c)
  /\ UNCHANGED <<key, received, inbox, lagged, enters, endpoints, told,
                 registered, known, ip, row, connects, history>>

Next ==
  \/ \E k \in Keys : Register(k)
  \/ \E c \in Conns :
       \/ Accept(c) \/ Reject(c) \/ CheckOnline(c) \/ Subscribe(c) \/ Receive(c)
       \/ \E k \in Keys : Identify(c, k)
       \/ Lagged(c) \/ Refuse(c)
       \/ PeerEnter(c) \/ PeerLeave(c) \/ PeerForward(c) \/ DevHandshakeComplete(c)
       \/ Collect(c) \/ Sent(c) \/ \E r \in Conns : SendOne(c, r)
       \/ ConfigRead(c) \/ ConfigGenerate(c) \/ ConfigUpdate(c)
       \/ ConfigRefresh(c) \/ ConfigReply(c)
       \/ EndpointInsert(c) \/ \E p \in Protos : EndpointRead(c, p)
       \/ End(c) \/ RemoveClient(c) \/ Offline(c)

Spec == Init /\ [][Next]_vars

-----------------------------------------------------------------------------
\* Properties

\* The variables have the types of the code's state, and a connection without
\* client_id serves no request.
TypeOK ==
  /\ phase \in [Conns -> Phases]
  /\ key \in [Conns -> Keys \cup {None}]
  /\ inbox \in [Conns -> 0 .. Queue]
  /\ \A c \in Conns : phase[c] \in {"identified", "welcome", "ready"} => key[c] # None
  /\ online \in [Keys -> Conns \cup {None}]
  /\ ip \in [Keys -> (2 .. Size - 1) \cup {None}]
  /\ row \in [Keys -> (2 .. Size - 1) \cup {None}]

\* The connections of the registry are those of its peers, and alive.
AliveOnly ==
  \A k \in Keys : online[k] # None =>
    key[online[k]] = k /\ phase[online[k]] \in Live \cup {"ended", "removed"}

\* The registry never holds a connection that is past its clean-up (main.rs:59):
\* whatever a handler was doing when the link broke, the peer does not stay
\* online with a connection that is gone.
OnlineIsAlive == TypeOK /\ AliveOnly

Quiet == \A c \in Conns : job[c] = Idle /\ phase[c] \notin {"ended", "removed", "leaving"}

\* The connections of a key that got as far as client_id.
Used(k) == {c \in Conns : key[c] = k}

\* A peer that entered and did not leave is online as long as its link holds, if
\* no other connection ever used its key; another one, even one that is refused,
\* takes it offline when it ends (client.rs:242, main.rs:59).
SoleStaysOnline ==
  \A c \in Conns :
    (/\ phase[c] = "ready" /\ enters[c] > 0 /\ c \notin left
     /\ Used(key[c]) = {c})
    => online[key[c]] = c

\* Two peers that entered on the only connection each of them ever made, after
\* they had their configuration, are not both unaware of the other: PeerEnter
\* stores the connection before it reads who else is online (peer_enter.rs:33-44).
\* A configuration that is asked for later (vlinkd does not) is sent when its
\* list of the peers may be older than what a PeerEnter said in the meantime.
SomeoneKnows ==
  \A j, k \in Keys :
    (/\ Quiet /\ j # k
     /\ online[j] # None /\ online[k] # None
     /\ Used(j) = {online[j]} /\ Used(k) = {online[k]}
     /\ {online[j], online[k]} \cap again = {})
    => \/ told[online[j]][k] \in {"entered", "listed"}
       \/ told[online[k]][j] \in {"entered", "listed"}

\* When nothing is in progress, a client online on the only connection of its
\* key that never left, was told by a PeerEnter that a peer is online, and not
\* otherwise since, is right that the peer has a connection: the PeerLeave of
\* every clean-up reaches it after the PeerEnter.
NoGhost ==
  \A j, k \in Keys :
    (/\ Quiet /\ online[k] # None /\ Used(k) = {online[k]} /\ online[k] \notin left
     /\ told[online[k]][j] = "entered")
    => \E c \in Used(j) : phase[c] \in Live

\* Two peers have the same address in memory only if one of them chose it while
\* the other had chosen and not yet stored its own (req_config.rs:44-57); in the
\* database also when a handler was dropped between the update of its row and
\* refresh_model, or two connections of one peer chose together.  The address of
\* a peer in memory, which PeerEnter compares with, is the one of its row, except
\* while a handler is between the two, after one was dropped there, and after two
\* connections of the peer chose together.
AddressesAreOwn ==
  /\ \A j, k \in Keys : j # k =>
       /\ (ip[j] # None /\ ip[j] = ip[k]) => {j, k} \in raced
       /\ (row[j] # None /\ row[j] = row[k])
            => \/ {{j}, {k}, {j, k}} \cap raced # {}
               \/ {j, k} \cap cut # {}
  /\ \A k \in Keys :
       (/\ ip[k] # None
        /\ {k} \notin raced /\ k \notin cut
        /\ \A c \in Used(k) : job[c].at # "refresh")
       => row[k] = ip[k]

\* A step after which no request has been served on a connection with an
\* overwritten one.
KeepsLag ==
  \A c \in Conns : lagged[c] /\ phase[c] = "ready" => lagged'[c] /\ inbox'[c] = inbox[c]

\* A connection on which a request was overwritten serves no request after it:
\* a client never has a later request served and an earlier one dropped
\* (client.rs:166).
NoSilentLoss == [][KeepsLag]_vars
=============================================================================
