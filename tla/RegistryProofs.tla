--------------------------- MODULE RegistryProofs ---------------------------
(***************************************************************************)
(* Theorems about the coordination server, for any number of peers and     *)
(* connections: who is online, who has which address, and who is told of   *)
(* whom, whatever is sent and wherever handlers are dropped.               *)
(***************************************************************************)
EXTENDS Registry, WellFoundedInduction, TLAPS

\* A handler's record has the fields of Idle.
IsJob(j) ==
  /\ DOMAIN j = {"at", "say", "who", "to", "nth", "addr", "seen"}
  /\ j = [f \in DOMAIN j |-> j[f]]

JobType == job = [c \in Conns |-> job[c]] /\ \A c \in Conns : IsJob(job[c])

\* The types the argument needs; what is sent to whom is not among them.
TypeInv ==
  /\ phase \in [Conns -> Phases]
  /\ key \in [Conns -> Keys \cup {None}]
  /\ inbox \in [Conns -> 0 .. Queue]
  /\ enters \in [Conns -> Nat]
  /\ JobType
  /\ online \in [Keys -> Conns \cup {None}]
  /\ ip \in [Keys -> (2 .. Size - 1) \cup {None}]
  /\ row \in [Keys -> (2 .. Size - 1) \cup {None}]
  /\ registered \subseteq Keys
  /\ known = None \/ known \subseteq Keys

\* How far a connection is decides whether it has a key, a handler, and has
\* entered; the network is loaded before any connection has a key.
LinkInv ==
  \A c \in Conns :
    /\ phase[c] \in {"none", "hello"} => key[c] = None
    /\ phase[c] \in {"identified", "welcome", "ready", "removed", "leaving"} => key[c] # None
    /\ job[c].at # "idle" => phase[c] \in {"ready", "leaving"}
    /\ phase[c] = "leaving" => job[c].at \in {"collect", "send"}
    /\ enters[c] > 0 => phase[c] \in {"ready", "ended", "removed", "leaving", "gone"}
    /\ key[c] # None => known # None

\* Why two peers may have one address in the database.
Excused(j, k) ==
  \/ {j} \in raced \/ {k} \in raced \/ {j, k} \in raced
  \/ j \in cut \/ k \in cut

\* A connection that has chosen an address, and what can be said of that address.
ChosenInv ==
  /\ \A c \in Conns : job[c].at \in {"generate", "update", "refresh"} => key[c] \in known
  /\ \A c \in Choosing :
       /\ job[c].addr \in 2 .. Size - 1
       /\ \A d \in Choosing : c # d => {key[c], key[d]} \in raced
       /\ \A k \in Keys : (k # key[c] /\ ip[k] = job[c].addr) => {k, key[c]} \in raced
       /\ \A k \in Keys : (k # key[c] /\ row[k] = job[c].addr) => Excused(k, key[c])
       /\ job[c].at = "refresh" => {key[c]} \in raced \/ row[key[c]] = job[c].addr

\* Addresses are those of peers of the network, and memory and database differ
\* only for the reasons AddressesAreOwn names.
StoredInv ==
  /\ \A k \in Keys : (ip[k] # None \/ row[k] # None) => k \in known /\ known # None
  /\ \A k \in Keys : row[k] # ip[k] =>
       \/ {k} \in raced \/ k \in cut
       \/ \E c \in Conns : key[c] = k /\ job[c].at = "refresh"
  /\ \A j, k \in Keys : j # k =>
       /\ (ip[j] # None /\ ip[j] = ip[k]) => {j, k} \in raced
       /\ (row[j] # None /\ row[j] = row[k]) => Excused(j, k)

PeersInv == LinkInv /\ AliveOnly /\ SoleStaysOnline

IndInv == TypeInv /\ PeersInv /\ ChosenInv /\ StoredInv

-----------------------------------------------------------------------------
\* Initially nobody is connected and no peer has an address.
LEMMA InitInv ==
  ASSUME Constants, Init
  PROVE  IndInv
<1>1. JobType
  BY Zenon DEF Init, JobType, IsJob, Idle
<1>2. TypeInv
  BY <1>1 DEF Constants, Init, TypeInv, Phases
<1>3. LinkInv
  BY DEF Init, LinkInv, Idle
<1>4. AliveOnly /\ SoleStaysOnline
  BY Zenon DEF Init, AliveOnly, SoleStaysOnline
<1>5. ChosenInv
  BY Zenon DEF Init, ChosenInv, Choosing, Idle
<1>6. StoredInv
  BY Zenon DEF Init, StoredInv
<1>7. QED
  BY <1>2, <1>3, <1>4, <1>5, <1>6, Zenon DEF IndInv, PeersInv

\* Taking a request leaves the channel within its size.
LEMMA TakeType ==
  ASSUME Constants, TypeInv, NEW c \in Conns, NEW kind, Take(c, kind)
  PROVE  inbox' \in [Conns -> 0 .. Queue]
<1>1. inbox[c] \in 0 .. Queue /\ inbox[c] > 0 /\ Queue \in Nat
  BY Zenon DEF Constants, TypeInv, Take
<1>2. inbox[c] - 1 \in 0 .. Queue
  BY <1>1
<1>3. QED
  BY <1>2, Zenon DEF TypeInv, Take

\* A handler that is started, or goes on, is well-formed.
LEMMA JobNext ==
  ASSUME JobType, NEW c \in Conns, NEW j, IsJob(j), job' = [job EXCEPT ![c] = j]
  PROVE  JobType'
BY Zenon DEF JobType

\* Every step keeps the types.
LEMMA TypeNext ==
  ASSUME Constants, TypeInv, LinkInv, ChosenInv, [Next]_vars
  PROVE  TypeInv'
<1>1. CASE UNCHANGED vars
  BY <1>1, Zenon DEF vars, server, history, TypeInv, JobType, IsJob
<1>2. ASSUME NEW k \in Keys, Register(k) PROVE TypeInv'
  BY <1>2, Zenon DEF Register, history, TypeInv, JobType
<1>3. ASSUME NEW c \in Conns, Accept(c) PROVE TypeInv'
  BY <1>3, Zenon DEF Accept, server, history, TypeInv, JobType, Phases
<1>4. ASSUME NEW c \in Conns, Reject(c) PROVE TypeInv'
  BY <1>4, Zenon DEF Reject, server, history, TypeInv, JobType, Phases
<1>5. ASSUME NEW c \in Conns, CheckOnline(c) PROVE TypeInv'
  BY <1>5, Zenon DEF CheckOnline, server, history, TypeInv, JobType, Phases
<1>6. ASSUME NEW c \in Conns, Subscribe(c) PROVE TypeInv'
  BY <1>6 DEF Subscribe, server, history, Constants, TypeInv, JobType, IsJob, Idle, Phases
<1>7. ASSUME NEW c \in Conns, Receive(c) PROVE TypeInv'
  <2>1. inbox' \in [Conns -> 0 .. Queue]
    <3>1. inbox[c] \in 0 .. Queue /\ Queue \in Nat
      BY Zenon DEF Constants, TypeInv
    <3>2. inbox[c] < Queue => inbox[c] + 1 \in 0 .. Queue
      BY <3>1
    <3>3. QED
      BY <1>7, <3>2, Zenon DEF Receive, TypeInv
  <2>2. QED
    BY <1>7, <2>1, Zenon DEF Receive, TypeInv, JobType, server, history
<1>8. ASSUME NEW c \in Conns, NEW k \in Keys, Identify(c, k) PROVE TypeInv'
  BY <1>8, Zenon DEF Identify, get_network, history, TypeInv, JobType, Phases
<1>9. ASSUME NEW c \in Conns, Lagged(c) PROVE TypeInv'
  BY <1>9, Zenon DEF Lagged, server, history, TypeInv, JobType, Idle, Phases
<1>10. ASSUME NEW c \in Conns, Refuse(c) PROVE TypeInv'
  <2>1. inbox' \in [Conns -> 0 .. Queue]
    BY <1>10, TakeType, Zenon DEF Refuse
  <2>2. QED
    BY <1>10, <2>1, Zenon DEF Refuse, Take, TypeInv, JobType, server, history
<1>11. ASSUME NEW c \in Conns, PeerEnter(c) PROVE TypeInv'
  <2> DEFINE j == [Idle EXCEPT !.at = "collect", !.say = "enter",
                             !.who = Keys \ {key[c]}]
  <2>2. IsJob(j)
    BY Zenon DEF IsJob, Idle
  <2>3. job' = [job EXCEPT ![c] = j]
    BY <1>11, Zenon DEF PeerEnter
  <2> HIDE DEF j
  <2>4. JobType'
    BY <2>2, <2>3, JobNext, Zenon DEF TypeInv
  <2>5. inbox' \in [Conns -> 0 .. Queue]
    BY <1>11, TakeType, Zenon DEF PeerEnter
  <2>6. enters' \in [Conns -> Nat]
    BY <1>11 DEF PeerEnter, TypeInv
  <2>7. online' \in [Keys -> Conns \cup {None}]
    BY <1>11, Zenon DEF PeerEnter, TypeInv
  <2>8. QED
    BY <1>11, <2>4, <2>5, <2>6, <2>7, Zenon DEF PeerEnter, Take, TypeInv, server, history, Found
<1>12. ASSUME NEW c \in Conns, PeerLeave(c) PROVE TypeInv'
  <2> DEFINE j == [Idle EXCEPT !.at = "collect", !.say = "leave",
                             !.who = Keys \ {key[c]}]
  <2>2. IsJob(j)
    BY Zenon DEF IsJob, Idle
  <2>3. job' = [job EXCEPT ![c] = j]
    BY <1>12, Zenon DEF PeerLeave, GoOffline
  <2> HIDE DEF j
  <2>4. JobType'
    BY <2>2, <2>3, JobNext, Zenon DEF TypeInv
  <2>5. inbox' \in [Conns -> 0 .. Queue]
    BY <1>12, TakeType, Zenon DEF PeerLeave, GoOffline
  <2>6. QED
    BY <1>12, <2>4, <2>5, Zenon DEF PeerLeave, GoOffline, Take, TypeInv, server, history, LinkInv
<1>13. ASSUME NEW c \in Conns, PeerForward(c) PROVE TypeInv'
  <2>1. PICK k \in Keys : job' = [job EXCEPT ![c] =
                 [Idle EXCEPT !.at = "collect", !.say = "forward", !.who = {k}]]
    BY <1>13, Zenon DEF PeerForward
  <2> DEFINE j == [Idle EXCEPT !.at = "collect", !.say = "forward", !.who = {k}]
  <2>2. IsJob(j)
    BY Zenon DEF IsJob, Idle
  <2>3. job' = [job EXCEPT ![c] = j]
    BY <2>1, Zenon
  <2> HIDE DEF j
  <2>4. JobType'
    BY <2>2, <2>3, JobNext, Zenon DEF TypeInv
  <2>5. inbox' \in [Conns -> 0 .. Queue]
    BY <1>13, TakeType, Zenon DEF PeerForward
  <2>6. QED
    BY <1>13, <2>4, <2>5, Zenon DEF PeerForward, Take, TypeInv, server, history
<1>14. ASSUME NEW c \in Conns, DevHandshakeComplete(c) PROVE TypeInv'
  BY <1>14 DEF DevHandshakeComplete, Take, server, history, Constants, TypeInv, JobType,
     IsJob, Idle, Phases
<1>15. ASSUME NEW c \in Conns, Collect(c) PROVE TypeInv'
  <2> DEFINE j == [job[c] EXCEPT !.at = "send", !.to = {online[k] : k \in job[c].who} \ {None}]
  <2>1. IsJob(j)
    BY Zenon DEF IsJob, Idle, TypeInv, JobType
  <2>2. job' = [job EXCEPT ![c] = j]
    BY <1>15, Zenon DEF Collect, TypeInv, JobType
  <2> HIDE DEF j
  <2>3. JobType'
    BY <2>1, <2>2, JobNext, Zenon DEF TypeInv
  <2>4. QED
    BY <1>15, <2>3, Zenon DEF Collect, server, history, TypeInv
<1>16. ASSUME NEW c \in Conns, Sent(c) PROVE TypeInv'
  <2> DEFINE j == Idle
  <2>1. IsJob(j)
    BY Zenon DEF IsJob, Idle, TypeInv, JobType
  <2>2. job' = [job EXCEPT ![c] = j]
    BY <1>16, Zenon DEF Sent, TypeInv, JobType
  <2> HIDE DEF j
  <2>3. JobType'
    BY <2>1, <2>2, JobNext, Zenon DEF TypeInv
  <2>4. QED
    BY <1>16, <2>3, Zenon DEF Sent, server, history, TypeInv, Phases
<1>17. ASSUME NEW c \in Conns, NEW r \in Conns, SendOne(c, r) PROVE TypeInv'
  <2> DEFINE j == [job[c] EXCEPT !.to = job[c].to \ {r}]
  <2>1. IsJob(j)
    BY Zenon DEF IsJob, Idle, TypeInv, JobType
  <2>2. job' = [job EXCEPT ![c] = j]
    BY <1>17, Zenon DEF SendOne, TypeInv, JobType
  <2> HIDE DEF j
  <2>3. JobType'
    BY <2>1, <2>2, JobNext, Zenon DEF TypeInv
  <2>4. QED
    BY <1>17, <2>3, Zenon DEF SendOne, server, history, TypeInv
<1>18. ASSUME NEW c \in Conns, ConfigRead(c) PROVE TypeInv'
  <2> DEFINE j == [Idle EXCEPT !.at = IF ip[key[c]] = None THEN "generate" ELSE "reply",
                             !.seen = [k \in Keys |-> Listed(k)]]
  <2>2. IsJob(j)
    BY Zenon DEF IsJob, Idle
  <2>3. job' = [job EXCEPT ![c] = j]
    BY <1>18, Zenon DEF ConfigRead
  <2> HIDE DEF j
  <2>4. JobType'
    BY <2>2, <2>3, JobNext, Zenon DEF TypeInv
  <2>5. inbox' \in [Conns -> 0 .. Queue]
    BY <1>18, TakeType, Zenon DEF ConfigRead
  <2>6. QED
    BY <1>18, <2>4, <2>5, Zenon DEF ConfigRead, Take, TypeInv, server, history
<1>19. ASSUME NEW c \in Conns, ConfigGenerate(c) PROVE TypeInv'
  BY <1>19 DEF ConfigGenerate, server, TypeInv, JobType, IsJob, Idle
<1>20. ASSUME NEW c \in Conns, ConfigUpdate(c) PROVE TypeInv'
  <2>1. job[c].addr \in 2 .. Size - 1 /\ IsJob(job[c])
    BY <1>20, Zenon DEF ConfigUpdate, ChosenInv, Choosing, TypeInv, JobType
  <2>2. JobType'
    BY <1>20, <2>1, Zenon DEF ConfigUpdate, TypeInv, JobType, IsJob
  <2>3. row' \in [Keys -> (2 .. Size - 1) \cup {None}]
    BY <1>20, <2>1, Zenon DEF ConfigUpdate, TypeInv
  <2>4. QED
    BY <1>20, <2>2, <2>3, Zenon DEF ConfigUpdate, TypeInv, server, history
<1>21. ASSUME NEW c \in Conns, ConfigRefresh(c) PROVE TypeInv'
  <2>1. job[c].addr \in 2 .. Size - 1 /\ IsJob(job[c])
    BY <1>21, Zenon DEF ConfigRefresh, ChosenInv, Choosing, TypeInv, JobType
  <2>2. JobType'
    BY <1>21, <2>1, Zenon DEF ConfigRefresh, TypeInv, JobType, IsJob
  <2>3. ip' \in [Keys -> (2 .. Size - 1) \cup {None}]
    BY <1>21, <2>1, Zenon DEF ConfigRefresh, TypeInv
  <2>4. QED
    BY <1>21, <2>2, <2>3, Zenon DEF ConfigRefresh, TypeInv, server, history
<1>22. ASSUME NEW c \in Conns, ConfigReply(c) PROVE TypeInv'
  <2> DEFINE j == Idle
  <2>1. IsJob(j)
    BY Zenon DEF IsJob, Idle, TypeInv, JobType
  <2>2. job' = [job EXCEPT ![c] = j]
    BY <1>22, Zenon DEF ConfigReply, TypeInv, JobType
  <2> HIDE DEF j
  <2>3. JobType'
    BY <2>1, <2>2, JobNext, Zenon DEF TypeInv
  <2>4. QED
    BY <1>22, <2>3, Zenon DEF ConfigReply, server, history, TypeInv
<1>23. ASSUME NEW c \in Conns, EndpointInsert(c) PROVE TypeInv'
  BY <1>23 DEF EndpointInsert, server, history, TypeInv, JobType, IsJob
<1>24. ASSUME NEW c \in Conns, NEW p \in Protos, EndpointRead(c, p) PROVE TypeInv'
  <2> DEFINE j == [Idle EXCEPT !.at = "insert", !.say = p, !.to = {online[key[c]]} \ {None},
                             !.nth = IF online[key[c]] = None THEN 0 ELSE enters[online[key[c]]]]
  <2>2. IsJob(j)
    BY Zenon DEF IsJob, Idle
  <2>3. job' = [job EXCEPT ![c] = j]
    BY <1>24, Zenon DEF EndpointRead
  <2> HIDE DEF j
  <2>4. JobType'
    BY <2>2, <2>3, JobNext, Zenon DEF TypeInv
  <2>5. inbox' \in [Conns -> 0 .. Queue]
    BY <1>24, TakeType, Zenon DEF EndpointRead
  <2>6. QED
    BY <1>24, <2>4, <2>5, Zenon DEF EndpointRead, Take, TypeInv, server, history
<1>25. ASSUME NEW c \in Conns, End(c) PROVE TypeInv'
  BY <1>25, Zenon DEF End, server, TypeInv, JobType, IsJob, Idle, Phases
<1>26. ASSUME NEW c \in Conns, RemoveClient(c) PROVE TypeInv'
  BY <1>26, Zenon DEF RemoveClient, server, history, TypeInv, JobType, Phases
<1>27. ASSUME NEW c \in Conns, Offline(c) PROVE TypeInv'
  <2> DEFINE j == [Idle EXCEPT !.at = "collect", !.say = "leave",
                             !.who = Keys \ {key[c]}]
  <2>1. IsJob(j)
    BY Zenon DEF IsJob, Idle, TypeInv, JobType
  <2>2. job' = [job EXCEPT ![c] = j]
    BY <1>27, Zenon DEF Offline, GoOffline, TypeInv, JobType
  <2> HIDE DEF j
  <2>3. JobType'
    BY <2>1, <2>2, JobNext, Zenon DEF TypeInv
  <2>4. QED
    BY <1>27, <2>3, Zenon DEF Offline, GoOffline, server, history, TypeInv, Phases
<1>28. QED
  BY <1>1, <1>2, <1>3, <1>4, <1>5, <1>6, <1>7, <1>8, <1>9, <1>10, <1>11, <1>12, <1>13, <1>14,
     <1>15, <1>16, <1>17, <1>18, <1>19, <1>20, <1>21, <1>22, <1>23, <1>24, <1>25, <1>26, <1>27, Zenon
     DEF Next

\* Every step keeps the order in which a connection gets its key, enters and
\* ends.  Only the clean-up of a connection makes it gone, and it takes its key
\* offline first.  What takes a peer offline is its own PeerLeave or the end of a
\* connection that used its key.
LEMMA PeersNext ==
  ASSUME Constants, TypeInv, PeersInv, [Next]_vars
  PROVE  PeersInv'
<1>1. CASE UNCHANGED vars
  BY <1>1 DEF vars, server, history, TypeInv, JobType, IsJob, PeersInv, LinkInv,
     AliveOnly, SoleStaysOnline, Used
<1>2. ASSUME NEW k \in Keys, Register(k) PROVE PeersInv'
  BY <1>2 DEF Register, history, TypeInv, PeersInv, LinkInv, AliveOnly, SoleStaysOnline,
     Used
<1>3. ASSUME NEW c \in Conns, Accept(c) PROVE PeersInv'
  BY <1>3 DEF Accept, server, history, TypeInv, PeersInv, LinkInv, AliveOnly,
     SoleStaysOnline, Used, Live
<1>4. ASSUME NEW c \in Conns, Reject(c) PROVE PeersInv'
  BY <1>4 DEF Reject, server, history, TypeInv, PeersInv, LinkInv, AliveOnly,
     SoleStaysOnline, Used, Live
<1>5. ASSUME NEW c \in Conns, CheckOnline(c) PROVE PeersInv'
  BY <1>5 DEF CheckOnline, server, history, TypeInv, PeersInv, LinkInv, AliveOnly,
     SoleStaysOnline, Used, Live
<1>6. ASSUME NEW c \in Conns, Subscribe(c) PROVE PeersInv'
  BY <1>6 DEF Subscribe, server, history, TypeInv, PeersInv, LinkInv, AliveOnly,
     SoleStaysOnline, Used, Live
<1>7. ASSUME NEW c \in Conns, Receive(c) PROVE PeersInv'
  BY <1>7 DEF Receive, server, history, TypeInv, PeersInv, LinkInv, AliveOnly,
     SoleStaysOnline, Used
<1>8. ASSUME NEW c \in Conns, NEW k \in Keys, Identify(c, k) PROVE PeersInv'
  BY <1>8 DEF Identify, get_network, server, history, Constants, TypeInv, JobType, IsJob,
     PeersInv, LinkInv, AliveOnly, SoleStaysOnline, Used, Idle, Live
<1>9. ASSUME NEW c \in Conns, Lagged(c) PROVE PeersInv'
  BY <1>9 DEF Lagged, server, history, TypeInv, PeersInv, LinkInv, AliveOnly,
     SoleStaysOnline, Used, Idle, Live
<1>10. ASSUME NEW c \in Conns, Refuse(c) PROVE PeersInv'
  BY <1>10 DEF Refuse, Take, server, history, TypeInv, PeersInv, LinkInv, AliveOnly,
     SoleStaysOnline, Used, Idle
<1>11. ASSUME NEW c \in Conns, PeerEnter(c) PROVE PeersInv'
  BY <1>11 DEF PeerEnter, Take, history, TypeInv, JobType, IsJob, PeersInv, LinkInv,
     AliveOnly, SoleStaysOnline, Used, Idle, Live
<1>12. ASSUME NEW c \in Conns, PeerLeave(c) PROVE PeersInv'
  <2>1. LinkInv'
    BY <1>12, Zenon DEF PeerLeave, Take, GoOffline, PeersInv, LinkInv, TypeInv, JobType, Idle
  <2>2. AliveOnly'
    BY <1>12, Zenon DEF PeerLeave, Take, GoOffline, PeersInv, AliveOnly, TypeInv
  <2>3. SoleStaysOnline'
    BY <1>12 DEF PeerLeave, Take, GoOffline, PeersInv, LinkInv, SoleStaysOnline, Used, TypeInv
  <2>4. QED
    BY <2>1, <2>2, <2>3, Zenon DEF PeersInv
<1>13. ASSUME NEW c \in Conns, PeerForward(c) PROVE PeersInv'
  BY <1>13 DEF PeerForward, Take, server, history, TypeInv, JobType, IsJob, PeersInv, LinkInv,
     AliveOnly, SoleStaysOnline, Used, Idle
<1>14. ASSUME NEW c \in Conns, DevHandshakeComplete(c) PROVE PeersInv'
  BY <1>14, SMTT(30) DEF DevHandshakeComplete, Take, history, TypeInv, PeersInv, LinkInv, AliveOnly,
     SoleStaysOnline, Used, Idle
<1>15. ASSUME NEW c \in Conns, Collect(c) PROVE PeersInv'
  <2>1. \A d \in Conns : job'[d].at = IF d = c THEN "send" ELSE job[d].at
    BY <1>15, Zenon DEF Collect, TypeInv, JobType, IsJob
  <2>2. LinkInv'
    BY <1>15, <2>1 DEF Collect, server, PeersInv, LinkInv
  <2>3. QED
    BY <1>15, <2>2, Zenon DEF Collect, server, history, PeersInv, AliveOnly, SoleStaysOnline,
       Used
<1>16. ASSUME NEW c \in Conns, Sent(c) PROVE PeersInv'
  BY <1>16 DEF Sent, server, history, TypeInv, JobType, IsJob, PeersInv, LinkInv,
     AliveOnly, SoleStaysOnline, Used, Idle, Live
<1>17. ASSUME NEW c \in Conns, NEW r \in Conns, SendOne(c, r) PROVE PeersInv'
  BY <1>17 DEF SendOne, server, history, TypeInv, JobType, IsJob, PeersInv, LinkInv,
     AliveOnly, SoleStaysOnline, Used
<1>18. ASSUME NEW c \in Conns, ConfigRead(c) PROVE PeersInv'
  BY <1>18 DEF ConfigRead, Take, server, TypeInv, JobType, IsJob, PeersInv, LinkInv,
     AliveOnly, SoleStaysOnline, Used, Idle
<1>19. ASSUME NEW c \in Conns, ConfigGenerate(c) PROVE PeersInv'
  <2>1. LinkInv'
    BY <1>19 DEF ConfigGenerate, server, PeersInv, LinkInv, TypeInv, JobType, IsJob, Idle
  <2>2. QED
    BY <1>19, <2>1, Zenon DEF ConfigGenerate, server, PeersInv, AliveOnly, SoleStaysOnline, Used
<1>20. ASSUME NEW c \in Conns, ConfigUpdate(c) PROVE PeersInv'
  BY <1>20 DEF ConfigUpdate, history, TypeInv, JobType, IsJob, PeersInv, LinkInv,
     AliveOnly, SoleStaysOnline, Used
<1>21. ASSUME NEW c \in Conns, ConfigRefresh(c) PROVE PeersInv'
  BY <1>21 DEF ConfigRefresh, history, TypeInv, JobType, IsJob, PeersInv, LinkInv,
     AliveOnly, SoleStaysOnline, Used
<1>22. ASSUME NEW c \in Conns, ConfigReply(c) PROVE PeersInv'
  BY <1>22, SMTT(30) DEF ConfigReply, server, history, TypeInv, JobType, IsJob, PeersInv, LinkInv,
     AliveOnly, SoleStaysOnline, Used, Idle
<1>23. ASSUME NEW c \in Conns, EndpointInsert(c) PROVE PeersInv'
  BY <1>23 DEF EndpointInsert, server, history, TypeInv, JobType, IsJob, PeersInv, LinkInv,
     AliveOnly, SoleStaysOnline, Used
<1>24. ASSUME NEW c \in Conns, NEW p \in Protos, EndpointRead(c, p) PROVE PeersInv'
  BY <1>24 DEF EndpointRead, Take, server, history, TypeInv, JobType, IsJob, PeersInv,
     LinkInv, AliveOnly, SoleStaysOnline, Used, Idle
<1>25. ASSUME NEW c \in Conns, End(c) PROVE PeersInv'
  BY <1>25, SMTT(30) DEF End, server, TypeInv, JobType, IsJob, PeersInv, LinkInv, AliveOnly,
     SoleStaysOnline, Used, Idle, Live
<1>26. ASSUME NEW c \in Conns, RemoveClient(c) PROVE PeersInv'
  BY <1>26 DEF RemoveClient, server, history, Constants, TypeInv, JobType, IsJob, PeersInv,
     LinkInv, AliveOnly, SoleStaysOnline, Used, Idle, Live
<1>27. ASSUME NEW c \in Conns, Offline(c) PROVE PeersInv'
  BY <1>27 DEF Offline, GoOffline, history, TypeInv, JobType, IsJob, PeersInv, LinkInv,
     AliveOnly, SoleStaysOnline, Used, Idle, Live
<1>28. QED
  BY <1>1, <1>2, <1>3, <1>4, <1>5, <1>6, <1>7, <1>8, <1>9, <1>10, <1>11, <1>12, <1>13, <1>14,
     <1>15, <1>16, <1>17, <1>18, <1>19, <1>20, <1>21, <1>22, <1>23, <1>24, <1>25, <1>26, <1>27, Zenon
     DEF Next

\* A step that neither chooses nor stores an address.  A handler that is dropped
\* before it has refreshed the memory is recorded in cut.
Apart(d) ==
  \/ key'[d] = key[d] /\ job'[d].at = job[d].at /\ job'[d].addr = job[d].addr
  \/ key'[d] = key[d] /\ key[d] \in known /\ job'[d].at = "generate" /\ job[d].at # "refresh"
  \/ /\ job'[d].at \notin {"generate", "update", "refresh"}
     /\ job[d].at = "refresh" => key[d] \in cut'

\* Such a step keeps what is known of the addresses.
LEMMA AddressFrame ==
  ASSUME ChosenInv, StoredInv, UNCHANGED <<known, ip, row>>,
         raced \subseteq raced', cut \subseteq cut', \A d \in Conns : Apart(d)
  PROVE  ChosenInv' /\ StoredInv'
<1>1. Choosing' \subseteq Choosing
  BY Zenon DEF Choosing, Apart
<1>2. \A d \in Choosing' : key'[d] = key[d] /\ job'[d].at = job[d].at /\ job'[d].addr = job[d].addr
  BY Zenon DEF Choosing, Apart
<1>3. \A j, k : Excused(j, k) => Excused(j, k)'
  BY Zenon DEF Excused
<1>4. \A d \in Conns : job'[d].at \in {"generate", "update", "refresh"} => key'[d] \in known'
  BY Zenon DEF ChosenInv, Apart
<1>5. ASSUME NEW d \in Choosing'
      PROVE  /\ job'[d].addr \in 2 .. Size - 1
             /\ \A e \in Choosing' : d # e => {key'[d], key'[e]} \in raced'
             /\ \A k \in Keys : (k # key'[d] /\ ip'[k] = job'[d].addr) => {k, key'[d]} \in raced'
             /\ \A k \in Keys : (k # key'[d] /\ row'[k] = job'[d].addr) => Excused(k, key[d])'
             /\ job'[d].at = "refresh" => {key'[d]} \in raced' \/ row'[key'[d]] = job'[d].addr
  BY <1>1, <1>2, <1>3, Zenon DEF ChosenInv
<1>6. ChosenInv'
  BY <1>2, <1>4, <1>5, Zenon DEF ChosenInv, Excused
<1>7. ASSUME NEW k \in Keys, row'[k] # ip'[k]
      PROVE  \/ {k} \in raced' \/ k \in cut'
             \/ \E d \in Conns : key'[d] = k /\ job'[d].at = "refresh"
  BY <1>7 DEF StoredInv, Apart
<1>8. StoredInv'
  BY <1>3, <1>7, Zenon DEF StoredInv
<1>9. QED
  BY <1>6, <1>8, Zenon

\* The address that is handed out is a free one.
LEMMA MinIsMember ==
  ASSUME NEW S, S \subseteq Nat, S # {}
  PROVE  Min(S) \in S
<1>1. PICK x \in S : \A y \in S : ~ (<<y, x>> \in OpToRel(<, Nat))
  BY WFMin, NatLessThanWellFounded, Zenon
<1>2. ASSUME NEW y \in S PROVE x =< y
  <2>1. y < x => <<y, x>> \in OpToRel(<, Nat)
    BY Zenon, Zenon DEF OpToRel
  <2>2. ~ (y < x)
    BY Zenon, <1>1, <2>1, Zenon
  <2>3. x \in Nat /\ y \in Nat
    BY Zenon
  <2>4. QED
    BY <2>2, <2>3
<1>3. QED
  BY <1>2, Zenon DEF Min

\* The first handshake loads the network: before it no peer has an address.
LEMMA IdentifyAddresses ==
  ASSUME Constants, TypeInv, LinkInv, ChosenInv, StoredInv,
         NEW c \in Conns, NEW k \in Keys, Identify(c, k)
  PROVE  ChosenInv' /\ StoredInv'
<1>1. job[c].at = "idle"
  BY Zenon DEF Identify, LinkInv
<1>2. CASE known # None
  <2>1. \A d \in Conns : Apart(d)
    BY <1>1, Zenon DEF Identify, Apart, TypeInv
  <2>2. QED
    BY <1>2, <2>1, AddressFrame, Zenon DEF Identify, get_network, history
<1>3. CASE known = None
  <2>1. \A d \in Conns : job[d].at \notin {"generate", "update", "refresh"}
    BY <1>3, Zenon DEF LinkInv
  <2>2. \A j \in Keys : ip[j] = None /\ row[j] = None
    BY <1>3, Zenon DEF StoredInv
  <2>3. ChosenInv'
    BY <2>1, Zenon DEF Identify, ChosenInv, Choosing
  <2>4. StoredInv'
    BY <2>2, Zenon DEF Identify, StoredInv
  <2>5. QED
    BY <2>3, <2>4, Zenon
<1>4. QED
  BY <1>2, <1>3, Zenon

\* An address that is chosen is nobody's in memory; in the database it is only
\* that of a peer whose own allocation is under way, or was cut or raced.
LEMMA GenerateAddresses ==
  ASSUME Constants, TypeInv, LinkInv, ChosenInv, StoredInv,
         NEW c \in Conns, ConfigGenerate(c)
  PROVE  ChosenInv' /\ StoredInv'
<1>0. UNCHANGED <<key, known, ip, row, cut>> /\ raced \subseteq raced' /\ job[c].at = "generate"
  BY Zenon DEF ConfigGenerate, server
<1>1. CASE generate_ip = {}
  <2>1. \A d \in Conns : Apart(d)
    BY <1>0, <1>1 DEF ConfigGenerate, Apart, TypeInv, JobType, Idle
  <2>2. QED
    BY <1>0, <2>1, AddressFrame, Zenon
<1>2. CASE generate_ip # {}
  <2> DEFINE a == Min(generate_ip)
  <2>1. a \in generate_ip
    BY <1>2, MinIsMember DEF generate_ip, Constants
  <2> HIDE DEF a
  <2>2. a \in 2 .. Size - 1 /\ a # None /\ \A k \in Keys : ip[k] # a
    BY <2>1 DEF generate_ip, Constants, StoredInv
  <2>3. /\ job'[c].at = "update" /\ job'[c].addr = a
        /\ \A d \in Conns : d # c => job'[d] = job[d]
    <3>1. job' = [job EXCEPT ![c] = [job[c] EXCEPT !.at = "update", !.addr = a]]
      BY <1>2, Zenon DEF ConfigGenerate, TypeInv, JobType, a
    <3>2. QED
      BY <3>1, Zenon DEF TypeInv, JobType, IsJob
  <2>4. Choosing' = Choosing \cup {c} /\ c \notin Choosing
    BY <1>0, <2>3, Zenon DEF Choosing
  <2>5. \A d \in Choosing : {key[c], key[d]} \in raced'
    BY Zenon DEF ConfigGenerate
  <2>6. \A j, k : Excused(j, k) => Excused(j, k)'
    BY <1>0, Zenon DEF Excused
  <2>7. \A k \in Keys : (k # key[c] /\ row[k] = a) => Excused(k, key[c])'
    <3>1. SUFFICES ASSUME NEW k \in Keys, k # key[c], row[k] = a PROVE Excused(k, key[c])'
      BY Zenon
    <3>2. row[k] # ip[k]
      BY <2>2, <3>1, Zenon
    <3>3. CASE {k} \in raced \/ k \in cut
      BY <1>0, <3>3, Zenon DEF Excused
    <3>4. CASE \E d \in Conns : key[d] = k /\ job[d].at = "refresh"
      <4>1. PICK d \in Conns : key[d] = k /\ job[d].at = "refresh"
        BY <3>4, Zenon
      <4>2. {key[c], key[d]} \in raced'
        BY <2>5, <4>1, Zenon DEF Choosing
      <4>3. {k, key[c]} = {key[c], key[d]}
        BY <4>1, Zenon
      <4>4. QED
        BY <1>0, <4>2, <4>3, Zenon DEF Excused
    <3>5. QED
      BY <3>2, <3>3, <3>4, Zenon DEF StoredInv
  <2>8. \A d \in Conns : job'[d].at \in {"generate", "update", "refresh"} => key'[d] \in known'
    BY <1>0, <2>3, Zenon DEF ChosenInv
  <2>9. ASSUME NEW d \in Choosing'
        PROVE  /\ job'[d].addr \in 2 .. Size - 1
               /\ \A k \in Keys : (k # key'[d] /\ ip'[k] = job'[d].addr) => {k, key'[d]} \in raced'
               /\ \A k \in Keys : (k # key'[d] /\ row'[k] = job'[d].addr) => Excused(k, key[d])'
               /\ job'[d].at = "refresh" => {key'[d]} \in raced' \/ row'[key'[d]] = job'[d].addr
    <3>1. CASE d = c
      BY <1>0, <2>2, <2>3, <2>7, <3>1, Zenon
    <3>2. CASE d # c
      BY <1>0, <2>3, <2>4, <2>6, <3>2, ZenonT(30) DEF ChosenInv, Choosing
    <3>3. QED
      BY <3>1, <3>2, Zenon
  <2>10. ASSUME NEW d \in Choosing', NEW e \in Choosing', d # e
         PROVE  {key'[d], key'[e]} \in raced'
    <3>1. CASE d = c
      BY <1>0, <2>4, <2>5, <2>10, <3>1, Zenon
    <3>2. CASE e = c
      <4>1. {key[d], key[c]} = {key[c], key[d]}
        BY Zenon
      <4>2. QED
        BY <1>0, <2>4, <2>5, <2>10, <3>2, <4>1, Zenon
    <3>3. CASE d # c /\ e # c
      BY <1>0, <2>4, <2>10, <3>3, Zenon DEF ChosenInv
    <3>4. QED
      BY <3>1, <3>2, <3>3, Zenon
  <2>11. ChosenInv'
    BY <1>0, <2>8, <2>9, <2>10, Zenon DEF ChosenInv, Excused
  <2>12. ASSUME NEW k \in Keys, row'[k] # ip'[k]
         PROVE  \/ {k} \in raced' \/ k \in cut'
                \/ \E d \in Conns : key'[d] = k /\ job'[d].at = "refresh"
    BY <1>0, <2>3, <2>12, SMTT(30) DEF StoredInv
  <2>13. StoredInv'
    BY <1>0, <2>6, <2>12, Zenon DEF StoredInv
  <2>14. QED
    BY <2>11, <2>13, Zenon
<1>3. QED
  BY <1>1, <1>2, Zenon

\* The row of a peer gets the address its handler chose; if another peer has it
\* in the database as well, that was so when it was chosen.
LEMMA UpdateAddresses ==
  ASSUME Constants, TypeInv, LinkInv, ChosenInv, StoredInv,
         NEW c \in Conns, ConfigUpdate(c)
  PROVE  ChosenInv' /\ StoredInv'
<1> DEFINE K == key[c]
           a == job[c].addr
<1>1. /\ UNCHANGED <<key, known, ip, raced, cut>> /\ c \in Choosing
      /\ row' = [row EXCEPT ![K] = a]
  BY Zenon DEF ConfigUpdate, history, Choosing
<1>2. K \in Keys /\ K \in known /\ known # None /\ a \in 2 .. Size - 1
  BY Zenon DEF ConfigUpdate, LinkInv, TypeInv, ChosenInv, Choosing
<1>3. \A d \in Conns : /\ job'[d].at = IF d = c THEN "refresh" ELSE job[d].at
                       /\ job'[d].addr = job[d].addr
  BY Zenon DEF ConfigUpdate, TypeInv, JobType, IsJob
<1>4. Choosing' = Choosing
  BY <1>1, <1>3, Zenon DEF Choosing
<1> HIDE DEF K, a
<1>5. row'[K] = a /\ \A k \in Keys \ {K} : row'[k] = row[k]
  BY <1>1, <1>2, Zenon DEF TypeInv
<1>6. \A j, k : (Excused(j, k) => Excused(j, k)') /\ (Excused(j, k) <=> Excused(k, j))
  <2>1. \A j, k : {j, k} = {k, j}
    BY Zenon
  <2>2. QED
    BY <1>1, <2>1, Zenon DEF Excused
<1>7. \A d \in Choosing : d # c => {K, key[d]} \in raced
  BY <1>1, Zenon DEF ChosenInv, K
<1>8. ASSUME NEW d \in Choosing
      PROVE  /\ \A k \in Keys : (k # key[d] /\ row'[k] = job[d].addr) => Excused(k, key[d])
             /\ job'[d].at = "refresh" => {key[d]} \in raced \/ row'[key[d]] = job[d].addr
  <2>1. CASE d = c
    BY <1>1, <1>5, <2>1, Zenon DEF ChosenInv, K, a
  <2>2. CASE d # c /\ key[d] = K
    <3>1. {key[d]} \in raced
      BY <1>7, <2>2, Zenon
    <3>2. QED
      BY <3>1, Zenon DEF Excused
  <2>3. CASE d # c /\ key[d] # K
    <3>1. {K, key[d]} \in raced
      BY <1>7, <2>3, Zenon
    <3>2. key[d] \in Keys \ {K} /\ job'[d].at = job[d].at
      BY <1>3, <2>3, SMTT(30) DEF Choosing, LinkInv, TypeInv
    <3>3. QED
      BY <1>5, <3>1, <3>2, Zenon DEF ChosenInv, Excused
  <2>4. QED
    BY <2>1, <2>2, <2>3, Zenon
<1>9. ChosenInv'
  <2>1. \A d \in Conns : job'[d].at \in {"generate", "update", "refresh"} => key'[d] \in known'
    BY <1>1, <1>2, <1>3, Zenon DEF ChosenInv, K
  <2>2. QED
    BY <1>1, <1>3, <1>4, <1>6, <1>8, <2>1, Zenon DEF ChosenInv, Choosing, Excused
<1>10. \A k \in Keys : (ip'[k] # None \/ row'[k] # None) => k \in known' /\ known' # None
  BY <1>1, <1>2, <1>5, Zenon DEF StoredInv
<1>11. ASSUME NEW k \in Keys, row'[k] # ip'[k]
       PROVE  \/ {k} \in raced' \/ k \in cut'
              \/ \E d \in Conns : key'[d] = k /\ job'[d].at = "refresh"
  <2>1. CASE k = K
    BY <1>1, <1>3, <2>1, Zenon DEF K
  <2>2. CASE k # K
    BY <1>1, <1>3, <1>5, <1>11, <2>2 DEF StoredInv
  <2>3. QED
    BY <2>1, <2>2, Zenon
<1>12. ASSUME NEW j \in Keys, NEW k \in Keys, j # k, row'[j] # None, row'[j] = row'[k]
       PROVE  Excused(j, k)
  <2>1. \A i \in Keys : i # K /\ row[i] = a => Excused(i, K)
    BY <1>1, Zenon DEF ChosenInv, K, a
  <2>2. QED
    BY <1>5, <1>6, <1>12, <2>1, ZenonT(30) DEF StoredInv
<1>13. StoredInv'
  BY <1>1, <1>6, <1>10, <1>11, <1>12, Zenon DEF StoredInv
<1>14. QED
  BY <1>9, <1>13, Zenon

\* The memory gets the address that is in the row, unless two connections of the
\* peer chose together.
LEMMA RefreshAddresses ==
  ASSUME Constants, TypeInv, LinkInv, ChosenInv, StoredInv,
         NEW c \in Conns, ConfigRefresh(c)
  PROVE  ChosenInv' /\ StoredInv'
<1> DEFINE K == key[c]
           a == job[c].addr
<1>1. /\ UNCHANGED <<key, known, row, raced, cut>> /\ c \in Choosing
      /\ ip' = [ip EXCEPT ![K] = a]
  BY Zenon DEF ConfigRefresh, history, Choosing
<1>2. K \in Keys /\ K \in known /\ known # None /\ a \in 2 .. Size - 1
  BY Zenon DEF ConfigRefresh, LinkInv, TypeInv, ChosenInv, Choosing
<1>3. \A d \in Conns : /\ job'[d].at = IF d = c THEN "reply" ELSE job[d].at
                       /\ job'[d].addr = job[d].addr
  BY Zenon DEF ConfigRefresh, TypeInv, JobType, IsJob
<1>4. Choosing' = Choosing \ {c}
  BY <1>3, Zenon DEF Choosing
<1>5. {K} \in raced \/ row[K] = a
  BY <1>1, Zenon DEF ConfigRefresh, ChosenInv
<1> HIDE DEF K, a
<1>6. ip'[K] = a /\ \A k \in Keys \ {K} : ip'[k] = ip[k]
  BY <1>1, <1>2, Zenon DEF TypeInv
<1>7. \A j, k : (Excused(j, k) => Excused(j, k)') /\ {j, k} = {k, j}
  BY <1>1, Zenon DEF Excused
<1>8. ASSUME NEW d \in Choosing, d # c, NEW k \in Keys, k # key[d], ip'[k] = job[d].addr
      PROVE  {k, key[d]} \in raced
  <2>1. CASE k = K
    BY <1>1, <1>8, <2>1, Zenon DEF ChosenInv, K
  <2>2. CASE k # K
    BY <1>6, <1>8, <2>2, Zenon DEF ChosenInv
  <2>3. QED
    BY <2>1, <2>2, Zenon
<1>9. ChosenInv'
  <2>1. \A d \in Conns : job'[d].at \in {"generate", "update", "refresh"} => key'[d] \in known'
    BY <1>1, <1>3, Zenon DEF ChosenInv
  <2>2. \A d \in Choosing' : job'[d].at = job[d].at /\ job'[d].addr = job[d].addr
    BY <1>3, <1>4, Zenon DEF Choosing
  <2>3. QED
    BY <1>1, <1>4, <1>7, <1>8, <2>1, <2>2 DEF ChosenInv, Excused
<1>10. \A k \in Keys : (ip'[k] # None \/ row'[k] # None) => k \in known' /\ known' # None
  BY <1>1, <1>2, <1>6, Zenon DEF StoredInv
<1>11. ASSUME NEW k \in Keys, row'[k] # ip'[k]
       PROVE  \/ {k} \in raced' \/ k \in cut'
              \/ \E d \in Conns : key'[d] = k /\ job'[d].at = "refresh"
  <2>1. CASE k = K
    BY <1>1, <1>5, <1>6, <1>11, <2>1, Zenon
  <2>2. CASE k # K
    BY <1>1, <1>3, <1>6, <1>11, <2>2 DEF StoredInv, K
  <2>3. QED
    BY <2>1, <2>2, Zenon
<1>12. ASSUME NEW j \in Keys, NEW k \in Keys, j # k, ip'[j] # None, ip'[j] = ip'[k]
       PROVE  {j, k} \in raced
  <2>1. \A i \in Keys : i # K /\ ip[i] = a => {i, K} \in raced
    BY <1>1, Zenon DEF ChosenInv, K, a
  <2>2. QED
    BY <1>6, <1>7, <1>12, <2>1, Zenon DEF StoredInv
<1>13. StoredInv'
  BY <1>1, <1>7, <1>10, <1>11, <1>12, Zenon DEF StoredInv
<1>14. QED
  BY <1>9, <1>13, Zenon

\* Every step keeps what is known of the addresses.
LEMMA AddressNext ==
  ASSUME Constants, TypeInv, LinkInv, ChosenInv, StoredInv, [Next]_vars
  PROVE  ChosenInv' /\ StoredInv'
<1>1. CASE UNCHANGED vars
  BY <1>1, AddressFrame, Zenon DEF vars, server, history, Apart, TypeInv, JobType, IsJob, Found
<1>2. ASSUME NEW k \in Keys, Register(k) PROVE ChosenInv' /\ StoredInv'
  BY <1>2, AddressFrame, Zenon DEF Register, history, Apart, Found
<1>3. ASSUME NEW c \in Conns, Accept(c) PROVE ChosenInv' /\ StoredInv'
  BY <1>3, AddressFrame, Zenon DEF Accept, server, history, Apart, Found
<1>4. ASSUME NEW c \in Conns, Reject(c) PROVE ChosenInv' /\ StoredInv'
  BY <1>4, AddressFrame, Zenon DEF Reject, server, history, Apart, Found
<1>5. ASSUME NEW c \in Conns, CheckOnline(c) PROVE ChosenInv' /\ StoredInv'
  BY <1>5, AddressFrame, Zenon DEF CheckOnline, server, history, Apart, Found
<1>6. ASSUME NEW c \in Conns, Subscribe(c) PROVE ChosenInv' /\ StoredInv'
  BY <1>6, AddressFrame, Zenon DEF Subscribe, server, history, Apart, Found
<1>7. ASSUME NEW c \in Conns, Receive(c) PROVE ChosenInv' /\ StoredInv'
  BY <1>7, AddressFrame, Zenon DEF Receive, server, history, Apart, Found
<1>8. ASSUME NEW c \in Conns, NEW k \in Keys, Identify(c, k) PROVE ChosenInv' /\ StoredInv'
  BY <1>8, IdentifyAddresses, Zenon
<1>9. ASSUME NEW c \in Conns, Lagged(c) PROVE ChosenInv' /\ StoredInv'
  BY <1>9, AddressFrame, Zenon DEF Lagged, server, history, Apart, Idle, Found
<1>10. ASSUME NEW c \in Conns, Refuse(c) PROVE ChosenInv' /\ StoredInv'
  BY <1>10, AddressFrame, Zenon DEF Refuse, Take, server, history, Apart, Idle, Found
<1>11. ASSUME NEW c \in Conns, PeerEnter(c) PROVE ChosenInv' /\ StoredInv'
  BY <1>11, AddressFrame DEF PeerEnter, Take, history, Apart, TypeInv, JobType, IsJob, Idle,
     Found
<1>12. ASSUME NEW c \in Conns, PeerLeave(c) PROVE ChosenInv' /\ StoredInv'
  BY <1>12, AddressFrame DEF PeerLeave, Take, GoOffline, Apart, TypeInv, JobType, IsJob, Idle,
     Found
<1>13. ASSUME NEW c \in Conns, PeerForward(c) PROVE ChosenInv' /\ StoredInv'
  BY <1>13, AddressFrame DEF PeerForward, Take, server, history, Apart, TypeInv, JobType,
     IsJob, Idle, Found
<1>14. ASSUME NEW c \in Conns, DevHandshakeComplete(c) PROVE ChosenInv' /\ StoredInv'
  BY <1>14, AddressFrame, Zenon DEF DevHandshakeComplete, Take, history, Apart, Idle, Found
<1>15. ASSUME NEW c \in Conns, Collect(c) PROVE ChosenInv' /\ StoredInv'
  BY <1>15, AddressFrame DEF Collect, server, history, Apart, TypeInv, JobType, IsJob, Found
<1>16. ASSUME NEW c \in Conns, Sent(c) PROVE ChosenInv' /\ StoredInv'
  BY <1>16, AddressFrame, Zenon DEF Sent, server, history, Apart, TypeInv, JobType, IsJob, Idle,
     Found
<1>17. ASSUME NEW c \in Conns, NEW r \in Conns, SendOne(c, r) PROVE ChosenInv' /\ StoredInv'
  BY <1>17, AddressFrame, Zenon DEF SendOne, server, history, Apart, TypeInv, JobType, IsJob, Found
<1>18. ASSUME NEW c \in Conns, ConfigRead(c) PROVE ChosenInv' /\ StoredInv'
  BY <1>18, AddressFrame DEF ConfigRead, Take, server, Apart, TypeInv, JobType, IsJob, Idle,
     Found
<1>19. ASSUME NEW c \in Conns, ConfigGenerate(c) PROVE ChosenInv' /\ StoredInv'
  BY <1>19, GenerateAddresses, Zenon
<1>20. ASSUME NEW c \in Conns, ConfigUpdate(c) PROVE ChosenInv' /\ StoredInv'
  BY <1>20, UpdateAddresses, Zenon
<1>21. ASSUME NEW c \in Conns, ConfigRefresh(c) PROVE ChosenInv' /\ StoredInv'
  BY <1>21, RefreshAddresses, Zenon
<1>22. ASSUME NEW c \in Conns, ConfigReply(c) PROVE ChosenInv' /\ StoredInv'
  BY <1>22, AddressFrame, Zenon DEF ConfigReply, server, history, Apart, TypeInv, JobType, IsJob,
     Idle, Found
<1>23. ASSUME NEW c \in Conns, EndpointInsert(c) PROVE ChosenInv' /\ StoredInv'
  BY <1>23, AddressFrame DEF EndpointInsert, server, history, Apart, TypeInv, JobType, IsJob,
     Found
<1>24. ASSUME NEW c \in Conns, NEW p \in Protos, EndpointRead(c, p)
       PROVE ChosenInv' /\ StoredInv'
  BY <1>24, AddressFrame DEF EndpointRead, Take, server, history, Apart, TypeInv, JobType,
     IsJob, Idle, Found
<1>25. ASSUME NEW c \in Conns, End(c) PROVE ChosenInv' /\ StoredInv'
  BY <1>25, AddressFrame, Zenon DEF End, server, Apart, TypeInv, JobType, IsJob, Idle, Found
<1>26. ASSUME NEW c \in Conns, RemoveClient(c) PROVE ChosenInv' /\ StoredInv'
  BY <1>26, AddressFrame, Zenon DEF RemoveClient, server, history, Apart, Found
<1>27. ASSUME NEW c \in Conns, Offline(c) PROVE ChosenInv' /\ StoredInv'
  BY <1>27, AddressFrame, Zenon DEF Offline, GoOffline, server, history, Apart, TypeInv, JobType,
     IsJob, LinkInv, Idle, Found
<1>28. QED
  BY <1>1, <1>2, <1>3, <1>4, <1>5, <1>6, <1>7, <1>8, <1>9, <1>10, <1>11, <1>12, <1>13, <1>14,
     <1>15, <1>16, <1>17, <1>18, <1>19, <1>20, <1>21, <1>22, <1>23, <1>24, <1>25, <1>26, <1>27, Zenon
     DEF Next

\* The invariant of the server holds for any number of peers, connections and
\* addresses, and with any of the protocols and kinds of login.
THEOREM RegistryInvariant == Spec => []IndInv
<1> USE RegistryAssumption
<1>1. Init => IndInv
  BY InitInv, Zenon
<1>2. IndInv /\ [Next]_vars => IndInv'
  <2> SUFFICES ASSUME IndInv, [Next]_vars PROVE IndInv'
    BY Zenon
  <2>1. TypeInv'
    BY TypeNext, Zenon DEF IndInv, PeersInv
  <2>2. PeersInv'
    BY PeersNext, Zenon DEF IndInv
  <2>3. ChosenInv' /\ StoredInv'
    BY AddressNext, Zenon DEF IndInv, PeersInv
  <2>4. QED
    BY <2>1, <2>2, <2>3, Zenon DEF IndInv, PeersInv
<1>3. QED
  BY <1>1, <1>2, PTL DEF Spec

\* The registry never holds a connection that is past its clean-up, wherever the
\* handlers of the connections were dropped (main.rs:59).
THEOREM OnlinePeersAreAlive == Spec => []OnlineIsAlive
<1>1. IndInv => OnlineIsAlive
  BY Zenon DEF IndInv, PeersInv, TypeInv, LinkInv, TypeOK, OnlineIsAlive
<1>2. QED
  BY <1>1, RegistryInvariant, PTL

\* A peer that entered and did not leave stays online as long as its link holds,
\* if no other connection ever used its key (main.rs:59, client.rs:242).
THEOREM SolePeersStayOnline == Spec => []SoleStaysOnline
<1>1. IndInv => SoleStaysOnline
  BY Zenon DEF IndInv, PeersInv
<1>2. QED
  BY <1>1, RegistryInvariant, PTL

\* Two peers share an address, and a peer has another one in memory than in its
\* row, only where two allocations overlapped or one was cut (req_config.rs:44).
THEOREM PeersOwnTheirAddresses == Spec => []AddressesAreOwn
<1>1. IndInv => AddressesAreOwn
  BY Zenon DEF IndInv, StoredInv, AddressesAreOwn, Excused, Used
<1>2. QED
  BY <1>1, RegistryInvariant, PTL

-----------------------------------------------------------------------------
\* The channel of a connection is full once it has overwritten a request.
LagInv ==
  /\ inbox \in [Conns -> 0 .. Queue] /\ lagged \in [Conns -> BOOLEAN]
  /\ \A c \in Conns : lagged[c] => inbox[c] = Queue

\* What a step may do to the channels.
LEMMA ChannelStep ==
  ASSUME [Next]_vars
  PROVE  \/ UNCHANGED <<inbox, lagged>>
         \/ \E c \in Conns : Subscribe(c) \/ Receive(c) \/ \E kind : Take(c, kind)
<1>1. ASSUME NEW c \in Conns,
             \/ Refuse(c) \/ PeerEnter(c) \/ PeerLeave(c) \/ PeerForward(c)
             \/ DevHandshakeComplete(c) \/ ConfigRead(c) \/ \E p \in Protos : EndpointRead(c, p)
      PROVE  \E kind : Take(c, kind)
  BY <1>1, Zenon, Zenon DEF Refuse, PeerEnter, PeerLeave, PeerForward, DevHandshakeComplete,
     ConfigRead, EndpointRead
<1>2. ASSUME NEW c \in Conns,
             \/ Accept(c) \/ Reject(c) \/ CheckOnline(c) \/ Lagged(c)
             \/ \E k \in Keys : Identify(c, k)
             \/ Collect(c) \/ Sent(c) \/ \E r \in Conns : SendOne(c, r)
             \/ ConfigGenerate(c) \/ ConfigUpdate(c) \/ ConfigRefresh(c) \/ ConfigReply(c)
             \/ EndpointInsert(c) \/ End(c) \/ RemoveClient(c) \/ Offline(c)
      PROVE  UNCHANGED <<inbox, lagged>>
  BY <1>2, Zenon, Zenon DEF Accept, Reject, CheckOnline, Lagged, Identify, Collect, Sent, SendOne,
     ConfigGenerate, ConfigUpdate, ConfigRefresh, ConfigReply, EndpointInsert, End,
     RemoveClient, Offline
<1>3. QED
  BY <1>1, <1>2, Zenon DEF Next, Register, vars

\* A connection on which a request was overwritten serves no request after it,
\* for any size of the channel (client.rs:166).
THEOREM NoRequestIsSkipped == Spec => NoSilentLoss
<1> USE RegistryAssumption
<1>1. Init => LagInv
  BY DEF Init, LagInv, Constants
<1>2. ASSUME LagInv, [Next]_vars PROVE LagInv' /\ KeepsLag
  <2>1. CASE UNCHANGED <<inbox, lagged>>
    BY <1>2, <2>1, Zenon DEF LagInv, KeepsLag
  <2>2. ASSUME NEW c \in Conns, Subscribe(c) PROVE LagInv' /\ KeepsLag
    BY <1>2, <2>2 DEF Subscribe, LagInv, KeepsLag, Constants
  <2>3. ASSUME NEW c \in Conns, Receive(c) PROVE LagInv' /\ KeepsLag
    <3>1. CASE inbox[c] < Queue
      <4>1. ~ lagged[c] /\ inbox[c] + 1 \in 0 .. Queue
        BY <1>2, <3>1 DEF LagInv, Constants
      <4>2. QED
        BY <1>2, <2>3, <3>1, <4>1, Zenon DEF Receive, LagInv, KeepsLag
    <3>2. CASE ~ (inbox[c] < Queue)
      <4>1. inbox[c] = Queue
        BY <1>2, <3>2 DEF LagInv, Constants
      <4>2. QED
        BY <1>2, <2>3, <3>2, <4>1, Zenon DEF Receive, LagInv, KeepsLag
    <3>3. QED
      BY <3>1, <3>2, Zenon
  <2>4. ASSUME NEW c \in Conns, NEW kind, Take(c, kind) PROVE LagInv' /\ KeepsLag
    BY <1>2, <2>4, SMTT(30) DEF Take, LagInv, KeepsLag, Constants
  <2>5. QED
    BY <1>2, <2>1, <2>2, <2>3, <2>4, ChannelStep, Zenon
<1>3. QED
  BY <1>1, <1>2, PTL DEF Spec, NoSilentLoss

-----------------------------------------------------------------------------
\* What the clients are told

\* The handlers that answer ReqConfig.
Configuring == {"generate", "update", "refresh", "reply"}

\* What the handler of a connection says, and to whom.
TellJob(c) ==
  /\ job[c].at \in Configuring
       => /\ job[c].seen \in [Keys -> {"unknown", "listed", "left"}]
          /\ enters[c] > 0 => c \in again
  /\ job[c].at = "collect"
       => /\ job[c].who \subseteq Keys
          /\ job[c].say \in {"enter", "leave"} => job[c].who = Keys \ {key[c]}
  /\ job[c].at = "send" => \A r \in job[c].to : r \in Conns /\ enters[r] > 0
  /\ job[c].at = "insert" => job[c].say \in Protos
  /\ phase[c] = "leaving" => job[c].say = "leave"

\* Only who has entered is told that others do, and the handler of a connection
\* that is online is not taking its peer offline.
TellInv ==
  /\ told \in [Conns -> [Keys -> {"unknown", "entered", "listed", "left"}]]
  /\ \A c \in Conns : TellJob(c)
  /\ \A c \in Conns, k \in Keys : told[c][k] = "entered" => enters[c] > 0
  /\ \A k \in Keys : online[k] # None => enters[online[k]] > 0 /\ job[online[k]].say # "leave"

\* The handler of PeerEnter on c is yet to tell d.
Tells(c, d) ==
  /\ job[c].say = "enter"
  /\ job[c].at = "collect" \/ (job[c].at = "send" /\ d \in job[c].to)

\* Two peers SomeoneKnows is about.
Pair(j, k) ==
  /\ j # k /\ online[j] # None /\ online[k] # None
  /\ Used(j) = {online[j]} /\ Used(k) = {online[k]}
  /\ online[j] \notin again /\ online[k] \notin again

\* The client of k knows of j, is about to, or is ending.
Hears(j, k) ==
  \/ told[online[k]][j] \in {"entered", "listed"}
  \/ Tells(online[j], online[k])
  \/ phase[online[k]] \notin Live

KnowInv == \A j, k \in Keys : Pair(j, k) => Hears(j, k) \/ Hears(k, j)

\* A client NoGhost is about.
Believes(j, k) ==
  /\ j # k /\ online[k] # None /\ Used(k) = {online[k]} /\ online[k] \notin left
  /\ told[online[k]][j] = "entered" /\ phase[online[k]] \in Live

\* A connection whose end d has not been told of.
Untold(c, d) ==
  \/ phase[c] \in Live \cup {"ended", "removed"}
  \/ /\ phase[c] = "leaving"
     /\ job[c].at = "collect" \/ (job[c].at = "send" /\ d \in job[c].to)

GhostInv ==
  \A j, k \in Keys : Believes(j, k) => \E c \in Used(j) : Untold(c, online[k])

\* A step of one connection that keeps what TellInv says of it.
LEMMA TellFrame ==
  ASSUME TypeInv, TellInv, NEW c \in Conns,
         \A d \in Conns : d # c => UNCHANGED <<job[d], phase[d], key[d], enters[d]>>,
         enters' \in [Conns -> Nat], enters[c] > 0 => enters'[c] > 0, again \subseteq again',
         told' \in [Conns -> [Keys -> {"unknown", "entered", "listed", "left"}]],
         \A d \in Conns, k \in Keys : told'[d][k] = "entered" => told[d][k] = "entered" \/ enters[d] > 0,
         \A k \in Keys : online'[k] # None =>
           \/ online'[k] = online[k] /\ online[k] # c
           \/ online'[k] = c /\ enters'[c] > 0 /\ job'[c].say # "leave",
         TellJob(c)'
  PROVE  TellInv'
<1>a. enters \in [Conns -> Nat] /\ online \in [Keys -> Conns \cup {None}]
  BY Zenon DEF TypeInv
<1>1. \A d \in Conns : enters[d] > 0 => enters'[d] > 0
  BY Zenon
<1>2. ASSUME NEW d \in Conns, d # c PROVE TellJob(d)'
  <2>1. TellJob(d)
    BY Zenon DEF TellInv
  <2>2. UNCHANGED <<job[d], phase[d], key[d], enters[d]>>
    BY <1>2, Zenon
  <2>3. QED
    BY <2>1, <2>2, <1>1, Zenon DEF TellJob
<1>3. \A d \in Conns : TellJob(d)'
  BY <1>2, Zenon
<1>4. \A d \in Conns, k \in Keys : told'[d][k] = "entered" => enters'[d] > 0
  BY <1>1, Zenon DEF TellInv
<1>5. ASSUME NEW k \in Keys, online'[k] # None
      PROVE  enters'[online'[k]] > 0 /\ job'[online'[k]].say # "leave"
  <2>1. CASE online'[k] = c /\ enters'[c] > 0 /\ job'[c].say # "leave"
    BY <2>1, Zenon
  <2>2. CASE online'[k] = online[k] /\ online[k] # c
    <3>1. online[k] \in Conns /\ online[k] # c /\ online[k] # None
      BY <2>2, <1>5, <1>a, Zenon
    <3>2. enters[online[k]] > 0 /\ job[online[k]].say # "leave"
      BY <3>1, Zenon DEF TellInv
    <3>3. job'[online[k]] = job[online[k]] /\ enters'[online[k]] = enters[online[k]]
      BY <3>1, Zenon
    <3>4. QED
      BY <2>2, <3>2, <3>3, Zenon
  <2>3. QED
    BY <1>5, <2>1, <2>2, Zenon
<1>6. QED
  BY <1>3, <1>4, <1>5, Zenon DEF TellInv

\* A step that leaves what the connection's handler says as it is.
LEMMA SameJob ==
  ASSUME NEW c \in Conns, TypeInv, LinkInv, TellInv, UNCHANGED <<job, enters, again>>,
         phase'[c] # "leaving", key'[c] = key[c] \/ job[c].at = "idle"
  PROVE  TellJob(c)'
BY Zenon DEF TellInv, TellJob

\* Every step keeps what is said and to whom.
LEMMA TellNext ==
  ASSUME Constants, TypeInv, TypeInv', PeersInv, TellInv, [Next]_vars
  PROVE  TellInv'
<1> DEFINE Told == [Conns -> [Keys -> {"unknown", "entered", "listed", "left"}]]
<1>a. LinkInv /\ AliveOnly /\ enters' \in [Conns -> Nat] /\ enters \in [Conns -> Nat] /\ told \in Told
  BY Zenon DEF PeersInv, TypeInv, TellInv
<1>b. \A c \in Conns : job[c].at = "idle" => phase[c] # "leaving"
  BY <1>a, Zenon DEF LinkInv
<1>c. \A k \in Keys : online[k] # None => online[k] \in Conns /\ enters[online[k]] > 0
                                          /\ job[online[k]].say # "leave"
  BY Zenon DEF TellInv, TypeInv
<1>1. ASSUME UNCHANGED <<phase, key, job, enters, told, online, again>> PROVE TellInv'
  BY <1>1, Zenon DEF TellInv, TellJob
<1>2. ASSUME NEW c \in Conns, UNCHANGED <<job, enters, told, online, again>>, phase'[c] # "leaving",
             key'[c] = key[c] \/ job[c].at = "idle",
             \A d \in Conns : d # c => UNCHANGED <<phase[d], key[d]>>
      PROVE  TellInv'
  <2>1. TellJob(c)'
    BY <1>2, <1>a, SameJob, Zenon
  <2>2. \A k \in Keys : online'[k] # None =>
           \/ online'[k] = online[k] /\ online[k] # c
           \/ online'[k] = c /\ enters'[c] > 0 /\ job'[c].say # "leave"
    BY <1>2, <1>c, Zenon
  <2>3. QED
    BY <1>2, <1>a, <2>1, <2>2, TellFrame, Zenon
\* One connection's handler moves; nobody is told anything by it.
<1>3. ASSUME NEW c \in Conns, UNCHANGED <<key, enters, told, online>>, again \subseteq again',
             \A d \in Conns : d # c => UNCHANGED <<phase[d], job[d]>>,
             job'[c].say # "leave" \/ job'[c].say = job[c].say, TellJob(c)'
      PROVE  TellInv'
  <2>2. \A k \in Keys : online'[k] # None =>
           \/ online'[k] = online[k] /\ online[k] # c
           \/ online'[k] = c /\ enters'[c] > 0 /\ job'[c].say # "leave"
    BY <1>3, <1>c, Zenon
  <2>3. QED
    BY <1>3, <1>a, <2>2, TellFrame, Zenon
<1>4. ASSUME UNCHANGED vars PROVE TellInv'
  BY <1>4, <1>1, Zenon DEF vars, server, history
<1>5. ASSUME NEW k \in Keys, Register(k) PROVE TellInv'
  BY <1>5, <1>1, Zenon DEF Register, history
<1>6. ASSUME NEW c \in Conns, Accept(c) PROVE TellInv'
  <2>1. UNCHANGED <<key, job, enters, told, online, again>>
    BY <1>6, Zenon DEF Accept, server, history
  <2>2. phase'[c] # "leaving" /\ \A d \in Conns : d # c => phase'[d] = phase[d]
    BY <1>6, Zenon DEF Accept, TypeInv
  <2>3. QED
    BY <2>1, <2>2, <1>2, Zenon
<1>7. ASSUME NEW c \in Conns, Reject(c) PROVE TellInv'
  <2>1. UNCHANGED <<key, job, enters, told, online, again>>
    BY <1>7, Zenon DEF Reject, server, history
  <2>2. phase'[c] # "leaving" /\ \A d \in Conns : d # c => phase'[d] = phase[d]
    BY <1>7, Zenon DEF Reject, TypeInv
  <2>3. QED
    BY <2>1, <2>2, <1>2, Zenon
<1>8. ASSUME NEW c \in Conns, CheckOnline(c) PROVE TellInv'
  <2>1. UNCHANGED <<key, job, enters, told, online, again>>
    BY <1>8, Zenon DEF CheckOnline, server, history
  <2>2. phase'[c] # "leaving" /\ \A d \in Conns : d # c => phase'[d] = phase[d]
    BY <1>8, Zenon DEF CheckOnline, TypeInv
  <2>3. QED
    BY <2>1, <2>2, <1>2, Zenon
<1>9. ASSUME NEW c \in Conns, Subscribe(c) PROVE TellInv'
  <2>1. UNCHANGED <<key, job, enters, told, online, again>>
    BY <1>9, Zenon DEF Subscribe, server, history
  <2>2. phase'[c] # "leaving" /\ \A d \in Conns : d # c => phase'[d] = phase[d]
    BY <1>9, Zenon DEF Subscribe, TypeInv
  <2>3. QED
    BY <2>1, <2>2, <1>2, Zenon
<1>10. ASSUME NEW c \in Conns, Lagged(c) PROVE TellInv'
  <2>1. UNCHANGED <<key, job, enters, told, online, again>>
    BY <1>10, Zenon DEF Lagged, server, history
  <2>2. phase'[c] # "leaving" /\ \A d \in Conns : d # c => phase'[d] = phase[d]
    BY <1>10, Zenon DEF Lagged, TypeInv
  <2>3. QED
    BY <2>1, <2>2, <1>2, Zenon
<1>11. ASSUME NEW c \in Conns, RemoveClient(c) PROVE TellInv'
  <2>1. UNCHANGED <<key, job, enters, told, online, again>>
    BY <1>11, Zenon DEF RemoveClient, server, history
  <2>2. phase'[c] # "leaving" /\ \A d \in Conns : d # c => phase'[d] = phase[d]
    BY <1>11, Zenon DEF RemoveClient, TypeInv
  <2>3. QED
    BY <2>1, <2>2, <1>2, Zenon
<1>12. ASSUME NEW c \in Conns, NEW k \in Keys, Identify(c, k) PROVE TellInv'
  <2>1. UNCHANGED <<job, enters, told, online, again>>
    BY <1>12, Zenon DEF Identify, server, history
  <2>2. phase'[c] # "leaving" /\ \A d \in Conns : d # c => UNCHANGED <<phase[d], key[d]>>
    BY <1>12, Zenon DEF Identify, TypeInv
  <2>3. job[c].at = "idle"
    BY <1>12, <1>a, Zenon DEF Identify, LinkInv
  <2>4. QED
    BY <2>1, <2>2, <2>3, <1>2, Zenon
<1>13. ASSUME NEW c \in Conns, Receive(c) PROVE TellInv'
  BY <1>13, <1>1, Zenon DEF Receive, server, history
<1>14. ASSUME NEW c \in Conns, Refuse(c) PROVE TellInv'
  BY <1>14, <1>1, Zenon DEF Refuse, Take, server, history
<1>15. ASSUME NEW c \in Conns, DevHandshakeComplete(c) PROVE TellInv'
  BY <1>15, <1>1, Zenon DEF DevHandshakeComplete, Take, history
<1>16. ASSUME NEW c \in Conns, PeerForward(c) PROVE TellInv'
  <2>1. UNCHANGED <<key, enters, told, online>> /\ again \subseteq again'
    BY <1>16, Zenon DEF PeerForward, Take, server, history
  <2>2. \A d \in Conns : d # c => UNCHANGED <<phase[d], job[d]>>
    BY <1>16, Zenon DEF PeerForward, Take, server, history, TypeInv, JobType
  <2>4. /\ job'[c].at = "collect" /\ job'[c].say = "forward" /\ job'[c].who \subseteq Keys
        /\ phase'[c] # "leaving"
    <3>1. PICK k \in Keys :
            job' = [job EXCEPT ![c] = [Idle EXCEPT !.at = "collect", !.say = "forward", !.who = {k}]]
      BY <1>16, Zenon DEF PeerForward
    <3>2. job'[c] = [Idle EXCEPT !.at = "collect", !.say = "forward", !.who = {k}]
      BY <3>1, Zenon DEF TypeInv, JobType
    <3>3. job'[c].at = "collect" /\ job'[c].say = "forward" /\ job'[c].who = {k}
      BY <3>2, Zenon DEF Idle
    <3>4. phase'[c] = "ready"
      BY <1>16, Zenon DEF PeerForward, Take
    <3>5. QED
      BY <3>3, <3>4, Zenon
  <2>5. TellJob(c)'
    BY <1>16, <2>1, <2>4, <1>a, Zenon DEF TellJob, Configuring
  <2>6. QED
    BY <2>1, <2>2, <2>4, <2>5, <1>3, Zenon
<1>17. ASSUME NEW c \in Conns, Collect(c) PROVE TellInv'
  <2>1. UNCHANGED <<key, enters, told, online>> /\ again \subseteq again'
    BY <1>17, Zenon DEF Collect, server, history
  <2>2. \A d \in Conns : d # c => UNCHANGED <<phase[d], job[d]>>
    BY <1>17, Zenon DEF Collect, server, history, TypeInv, JobType
  <2>3. TellJob(c)
    BY Zenon DEF TellInv
  <2>4. /\ job[c].at = "collect" /\ job'[c].at = "send" /\ job'[c].say = job[c].say /\ phase'[c] = phase[c]
        /\ job'[c].to = {online[k] : k \in job[c].who} \ {None}
    <3>1. /\ job[c].at = "collect" /\ phase'[c] = phase[c] /\ IsJob(job[c])
          /\ job'[c] = [job[c] EXCEPT !.at = "send", !.to = {online[k] : k \in job[c].who} \ {None}]
      BY <1>17, Zenon DEF Collect, TypeInv, JobType
    <3>2. QED
      BY <3>1, Zenon DEF IsJob
  <2>5. TellJob(c)'
    BY <1>17, <2>1, <2>4, <1>a, <1>c, <2>3 DEF TellJob, Configuring
  <2>6. QED
    BY <2>1, <2>2, <2>4, <2>5, <1>3, Zenon
<1>18. ASSUME NEW c \in Conns, Sent(c) PROVE TellInv'
  <2>1. UNCHANGED <<key, enters, told, online>> /\ again \subseteq again'
    BY <1>18, Zenon DEF Sent, server, history
  <2>2. \A d \in Conns : d # c => UNCHANGED <<phase[d], job[d]>>
    BY <1>18, Zenon DEF Sent, server, history, TypeInv, JobType
  <2>4. job'[c].at = "idle" /\ job'[c].say = "none" /\ phase'[c] # "leaving"
    BY <1>18, Zenon DEF Sent, server, history, TypeInv, JobType, IsJob, Idle
  <2>5. TellJob(c)'
    BY <1>18, <2>1, <2>4, <1>a, Zenon DEF TellJob, Configuring
  <2>6. QED
    BY <2>1, <2>2, <2>4, <2>5, <1>3, Zenon
<1>19. ASSUME NEW c \in Conns, ConfigRead(c) PROVE TellInv'
  <2>1. UNCHANGED <<key, enters, told, online>> /\ again \subseteq again'
    BY <1>19, Zenon DEF ConfigRead, Take, server
  <2>2. \A d \in Conns : d # c => UNCHANGED <<phase[d], job[d]>>
    BY <1>19, Zenon DEF ConfigRead, Take, server, TypeInv, JobType
  <2>3. [k \in Keys |-> Listed(k)] \in [Keys -> {"unknown", "listed", "left"}]
    BY Zenon DEF Listed
  <2>4. /\ job'[c].at \in {"generate", "reply"} /\ job'[c].say = "none" /\ phase'[c] # "leaving"
        /\ job'[c].seen = [k \in Keys |-> Listed(k)] /\ (enters[c] > 0 => c \in again')
    BY <1>19, Zenon DEF ConfigRead, Take, server, TypeInv, JobType, IsJob, Idle
  <2>5. TellJob(c)'
    BY <1>19, <2>1, <2>4, <1>a, <2>3, Zenon DEF TellJob, Configuring
  <2>6. QED
    BY <2>1, <2>2, <2>4, <2>5, <1>3, Zenon
<1>20. ASSUME NEW c \in Conns, ConfigGenerate(c) PROVE TellInv'
  <2>1. UNCHANGED <<key, enters, told, online>> /\ again \subseteq again'
    BY <1>20, Zenon DEF ConfigGenerate, server
  <2>2. \A d \in Conns : d # c => UNCHANGED <<phase[d], job[d]>>
    BY <1>20, Zenon DEF ConfigGenerate, server, TypeInv, JobType
  <2>3. TellJob(c)
    BY Zenon DEF TellInv
  <2>4. /\ job[c].at \in Configuring /\ job'[c].at \in Configuring \cup {"idle"}
        /\ job'[c].at # "idle" => job'[c].seen = job[c].seen
        /\ job'[c].say = job[c].say \/ job'[c].say = "none"
        /\ phase'[c] = phase[c] /\ phase[c] # "leaving"
    BY <1>20, <1>a DEF ConfigGenerate, server, Configuring, LinkInv, TypeInv, JobType, IsJob, Idle
  <2>5. TellJob(c)'
    BY <1>20, <2>1, <2>4, <1>a, <2>3, Zenon DEF TellJob, Configuring
  <2>6. QED
    BY <2>1, <2>2, <2>4, <2>5, <1>3, Zenon
<1>21. ASSUME NEW c \in Conns, ConfigUpdate(c) PROVE TellInv'
  <2>1. UNCHANGED <<key, enters, told, online>> /\ again \subseteq again'
    BY <1>21, Zenon DEF ConfigUpdate, history
  <2>2. \A d \in Conns : d # c => UNCHANGED <<phase[d], job[d]>>
    BY <1>21, Zenon DEF ConfigUpdate, history, TypeInv, JobType
  <2>3. TellJob(c)
    BY Zenon DEF TellInv
  <2>4. /\ job[c].at \in Configuring /\ job'[c].at \in Configuring \cup {"idle"}
        /\ job'[c].at # "idle" => job'[c].seen = job[c].seen
        /\ job'[c].say = job[c].say \/ job'[c].say = "none"
        /\ phase'[c] = phase[c] /\ phase[c] # "leaving"
    <3>1. /\ job[c].at = "update" /\ phase'[c] = phase[c] /\ IsJob(job[c])
          /\ job'[c] = [job[c] EXCEPT !.at = "refresh"]
      BY <1>21, Zenon DEF ConfigUpdate, TypeInv, JobType
    <3>2. job'[c].at = "refresh" /\ job'[c].seen = job[c].seen /\ job'[c].say = job[c].say
      BY <3>1, Zenon DEF IsJob
    <3>3. phase[c] # "leaving"
      BY <3>1, <1>a, Zenon DEF LinkInv
    <3>4. QED
      BY <3>1, <3>2, <3>3, Zenon DEF Configuring
  <2>5. TellJob(c)'
    BY <1>21, <2>1, <2>4, <1>a, <2>3, Zenon DEF TellJob, Configuring
  <2>6. QED
    BY <2>1, <2>2, <2>4, <2>5, <1>3, Zenon
<1>22. ASSUME NEW c \in Conns, ConfigRefresh(c) PROVE TellInv'
  <2>1. UNCHANGED <<key, enters, told, online>> /\ again \subseteq again'
    BY <1>22, Zenon DEF ConfigRefresh, history
  <2>2. \A d \in Conns : d # c => UNCHANGED <<phase[d], job[d]>>
    BY <1>22, Zenon DEF ConfigRefresh, history, TypeInv, JobType
  <2>3. TellJob(c)
    BY Zenon DEF TellInv
  <2>4. /\ job[c].at \in Configuring /\ job'[c].at \in Configuring \cup {"idle"}
        /\ job'[c].at # "idle" => job'[c].seen = job[c].seen
        /\ job'[c].say = job[c].say \/ job'[c].say = "none"
        /\ phase'[c] = phase[c] /\ phase[c] # "leaving"
    <3>1. /\ job[c].at = "refresh" /\ phase'[c] = phase[c] /\ IsJob(job[c])
          /\ job'[c] = [job[c] EXCEPT !.at = "reply"]
      BY <1>22, Zenon DEF ConfigRefresh, TypeInv, JobType
    <3>2. job'[c].at = "reply" /\ job'[c].seen = job[c].seen /\ job'[c].say = job[c].say
      BY <3>1, Zenon DEF IsJob
    <3>3. phase[c] # "leaving"
      BY <3>1, <1>a, Zenon DEF LinkInv
    <3>4. QED
      BY <3>1, <3>2, <3>3, Zenon DEF Configuring
  <2>5. TellJob(c)'
    BY <1>22, <2>1, <2>4, <1>a, <2>3, Zenon DEF TellJob, Configuring
  <2>6. QED
    BY <2>1, <2>2, <2>4, <2>5, <1>3, Zenon
<1>23. ASSUME NEW c \in Conns, NEW p \in Protos, EndpointRead(c, p) PROVE TellInv'
  <2>1. UNCHANGED <<key, enters, told, online>> /\ again \subseteq again'
    BY <1>23, Zenon DEF EndpointRead, Take, server, history
  <2>2. \A d \in Conns : d # c => UNCHANGED <<phase[d], job[d]>>
    BY <1>23, Zenon DEF EndpointRead, Take, server, history, TypeInv, JobType
  <2>4. job'[c].at = "insert" /\ job'[c].say = p /\ p # "leave" /\ phase'[c] # "leaving"
    BY <1>23, Zenon DEF EndpointRead, Take, server, history, Constants, TypeInv, JobType, IsJob, Idle
  <2>5. TellJob(c)'
    BY <1>23, <2>1, <2>4, <1>a, Zenon DEF TellJob, Configuring
  <2>6. QED
    BY <2>1, <2>2, <2>4, <2>5, <1>3, Zenon
<1>24. ASSUME NEW c \in Conns, EndpointInsert(c) PROVE TellInv'
  <2>1. UNCHANGED <<key, enters, told, online>> /\ again \subseteq again'
    BY <1>24, Zenon DEF EndpointInsert, server, history
  <2>2. \A d \in Conns : d # c => UNCHANGED <<phase[d], job[d]>>
    BY <1>24, Zenon DEF EndpointInsert, server, history, TypeInv, JobType
  <2>0. Unconnected(key[c]) \subseteq Keys
    BY <1>24, <1>a, Zenon DEF EndpointInsert, Unconnected, TypeInv, LinkInv
  <2>3. TellJob(c)
    BY Zenon DEF TellInv
  <2>4. /\ job[c].at = "insert" /\ job'[c].at = "collect" /\ job'[c].say = job[c].say
        /\ job'[c].who \subseteq Keys /\ phase'[c] = phase[c] /\ phase[c] # "leaving"
    BY <1>24, <1>a, <2>0 DEF EndpointInsert, server, history, LinkInv, TypeInv, JobType, IsJob, Idle
  <2>5. TellJob(c)'
    BY <1>24, <2>1, <2>4, <1>a, <2>3, Zenon DEF TellJob, Configuring, Constants
  <2>6. QED
    BY <2>1, <2>2, <2>4, <2>5, <1>3, Zenon
<1>25. ASSUME NEW c \in Conns, End(c) PROVE TellInv'
  <2>1. UNCHANGED <<key, enters, told, online>> /\ again \subseteq again'
    BY <1>25, Zenon DEF End, server
  <2>2. \A d \in Conns : d # c => UNCHANGED <<phase[d], job[d]>>
    BY <1>25, Zenon DEF End, server, TypeInv, JobType
  <2>4. job'[c].at = "idle" /\ job'[c].say = "none" /\ phase'[c] # "leaving"
    BY <1>25, Zenon DEF End, server, TypeInv, JobType, IsJob, Idle
  <2>5. TellJob(c)'
    BY <1>25, <2>1, <2>4, <1>a, Zenon DEF TellJob, Configuring
  <2>6. QED
    BY <2>1, <2>2, <2>4, <2>5, <1>3, Zenon
<1>26. ASSUME NEW c \in Conns, PeerEnter(c) PROVE TellInv'
  <2>1. UNCHANGED <<key, told, again, phase>>
    BY <1>26, Zenon DEF PeerEnter, Take, history
  <2>2. \A d \in Conns : d # c => UNCHANGED <<enters[d], job[d]>>
    BY <1>26, Zenon DEF PeerEnter, TypeInv, JobType
  <2>3. enters'[c] > 0
    BY <1>26, <1>a DEF PeerEnter
  <2>4. /\ job'[c].at = "collect" /\ job'[c].say = "enter" /\ job'[c].who = Keys \ {key[c]}
        /\ phase[c] # "leaving"
    BY <1>26, Zenon DEF PeerEnter, Take, TypeInv, JobType, IsJob, Idle
  <2>5. TellJob(c)'
    BY <2>1, <2>4, Zenon DEF TellJob, Configuring
  <2>6. \A k \in Keys : online'[k] # None =>
           \/ online'[k] = online[k] /\ online[k] # c
           \/ online'[k] = c /\ enters'[c] > 0 /\ job'[c].say # "leave"
    BY <1>26, <2>3, <2>4, Zenon DEF PeerEnter, TypeInv
  <2>7. QED
    BY <2>1, <2>2, <2>3, <2>5, <2>6, <1>a, TellFrame, Zenon
<1>27. ASSUME NEW c \in Conns, PeerLeave(c) PROVE TellInv'
  <2>1. UNCHANGED <<key, told, again, enters>>
    BY <1>27, Zenon DEF PeerLeave, Take, GoOffline
  <2>2. \A d \in Conns : d # c => UNCHANGED <<phase[d], job[d]>>
    BY <1>27, Zenon DEF PeerLeave, Take, GoOffline, TypeInv, JobType
  <2>3. job'[c].at = "collect" /\ job'[c].say = "leave" /\ job'[c].who = Keys \ {key[c]}
    BY <1>27, Zenon DEF PeerLeave, Take, GoOffline, TypeInv, JobType, IsJob, Idle
  <2>4. TellJob(c)'
    BY <2>1, <2>3, Zenon DEF TellJob, Configuring
  <2>5. key[c] \in Keys /\ online' = [online EXCEPT ![key[c]] = None]
    BY <1>27, <1>a, Zenon DEF PeerLeave, Take, GoOffline, LinkInv, TypeInv
  <2>6. \A k \in Keys : online'[k] # None => online'[k] = online[k] /\ online[k] # c
    BY <2>5, <1>a, Zenon DEF AliveOnly, TypeInv
  <2>7. QED
    BY <2>1, <2>2, <2>4, <2>6, <1>a, TellFrame, Zenon
<1>28. ASSUME NEW c \in Conns, Offline(c) PROVE TellInv'
  <2>1. UNCHANGED <<key, told, again, enters>>
    BY <1>28, Zenon DEF Offline, GoOffline, history
  <2>2. \A d \in Conns : d # c => UNCHANGED <<phase[d], job[d]>>
    BY <1>28, Zenon DEF Offline, GoOffline, history, TypeInv, JobType
  <2>3. job'[c].at = "collect" /\ job'[c].say = "leave" /\ job'[c].who = Keys \ {key[c]}
    BY <1>28, Zenon DEF Offline, GoOffline, history, TypeInv, JobType, IsJob, Idle
  <2>4. TellJob(c)'
    BY <2>1, <2>3, Zenon DEF TellJob, Configuring
  <2>5. key[c] \in Keys /\ online' = [online EXCEPT ![key[c]] = None]
    BY <1>28, <1>a, Zenon DEF Offline, GoOffline, history, LinkInv, TypeInv
  <2>6. \A k \in Keys : online'[k] # None => online'[k] = online[k] /\ online[k] # c
    BY <2>5, <1>a, Zenon DEF AliveOnly, TypeInv
  <2>7. QED
    BY <2>1, <2>2, <2>4, <2>6, <1>a, TellFrame, Zenon
<1>29. ASSUME NEW c \in Conns, NEW r \in Conns, SendOne(c, r) PROVE TellInv'
  <2>1. UNCHANGED <<key, phase, again, enters, online>>
    BY <1>29, Zenon DEF SendOne, server, history
  <2>2. \A d \in Conns : d # c => UNCHANGED job[d]
    BY <1>29, Zenon DEF SendOne, TypeInv, JobType
  <2>3. /\ job[c].at = "send" /\ job'[c].at = "send" /\ job'[c].say = job[c].say
        /\ job'[c].to = job[c].to \ {r} /\ r \in job[c].to
    BY <1>29 DEF SendOne, TypeInv, JobType, IsJob
  <2>4. TellJob(c)
    BY Zenon DEF TellInv
  <2>5. TellJob(c)'
    BY <2>1, <2>3, <2>4, Zenon DEF TellJob, Configuring
  <2>6. enters[r] > 0
    BY <2>3, <2>4, Zenon DEF TellJob
  <2>7. key[c] \in Keys
    BY <2>3, <1>a, Zenon DEF LinkInv, TypeInv
  <2>8. \/ told' = told
        \/ \E w \in {"entered", "left"} : told' = [told EXCEPT ![r][key[c]] = w]
    <3>1. \A s \in DOMAIN Word : Word[s] \in {"entered", "left"}
      BY DEF Word
    <3>2. told' = told \/ (/\ job[c].say \in DOMAIN Word
                           /\ told' = [told EXCEPT ![r][key[c]] = Word[job[c].say]])
      BY <1>29, Zenon DEF SendOne
    <3>3. QED
      BY <3>1, <3>2, Zenon
  <2>9. told' \in Told /\ \A d \in Conns : d # r => told'[d] = told[d]
    BY <2>7, <2>8, <1>a
  <2>10. \A k \in Keys : online'[k] # None =>
           \/ online'[k] = online[k] /\ online[k] # c
           \/ online'[k] = c /\ enters'[c] > 0 /\ job'[c].say # "leave"
    BY <2>1, <2>3, <1>c, Zenon
  <2>11. QED
    BY <2>1, <2>2, <2>5, <2>6, <2>9, <2>10, <1>a, TellFrame, Zenon
<1>30. ASSUME NEW c \in Conns, ConfigReply(c) PROVE TellInv'
  <2>1. UNCHANGED <<key, phase, again, enters, online>>
    BY <1>30, Zenon DEF ConfigReply, server, history
  <2>2. \A d \in Conns : d # c => UNCHANGED job[d]
    BY <1>30, Zenon DEF ConfigReply, TypeInv, JobType
  <2>3. job[c].at = "reply" /\ job'[c].at = "idle" /\ job'[c].say = "none"
    BY <1>30, Zenon DEF ConfigReply, TypeInv, JobType, IsJob, Idle
  <2>4. phase[c] # "leaving" /\ TellJob(c)
    BY <2>3, <1>a, Zenon DEF LinkInv, TellInv
  <2>5. TellJob(c)'
    BY <2>1, <2>3, <2>4, Zenon DEF TellJob, Configuring
  <2>6. job[c].seen \in [Keys -> {"unknown", "listed", "left"}]
    BY <2>3, <2>4, Zenon DEF TellJob, Configuring
  <2>7. \A k \in Keys : told'[c][k] = IF job[c].seen[k] = "unknown" THEN told[c][k] ELSE job[c].seen[k]
    BY <1>30, <1>a, Zenon DEF ConfigReply
  <2>8. told' \in Told /\ \A d \in Conns : d # c => told'[d] = told[d]
    BY <1>30, <2>6, <1>a, Zenon DEF ConfigReply
  <2>9. \A d \in Conns, k \in Keys : told'[d][k] = "entered" => told[d][k] = "entered"
    BY <2>6, <2>7, <2>8, Zenon
  <2>10. \A k \in Keys : online'[k] # None =>
           \/ online'[k] = online[k] /\ online[k] # c
           \/ online'[k] = c /\ enters'[c] > 0 /\ job'[c].say # "leave"
    BY <2>1, <2>3, <1>c, Zenon
  <2>11. QED
    BY <2>1, <2>2, <2>5, <2>8, <2>9, <2>10, <1>a, TellFrame, Zenon
<1>31. QED
  BY <1>4, <1>5, <1>6, <1>7, <1>8, <1>9, <1>10, <1>11, <1>12, <1>13, <1>14, <1>15, <1>16,
     <1>17, <1>18, <1>19, <1>20, <1>21, <1>22, <1>23, <1>24, <1>25, <1>26, <1>27, <1>28, <1>29,
     <1>30, Zenon
     DEF Next

-----------------------------------------------------------------------------
\* Who knows of whom

\* The connections that are online for the other peers.
Others(c) == {online[k] : k \in Keys \ {key[c]}} \ {None}

\* A step in which c loses nothing it is to tell, and does not come to life again.
Keeps(c) ==
  /\ \A d \in Others(c) : Tells(c, d) => Tells(c, d)' \/ phase'[c] \notin Live
  /\ \A d \in Others(c) : key[c] # None /\ Untold(c, d) => Untold(c, d)'
  /\ phase[c] \in {"ended", "removed"} => phase'[c] \notin Live
  /\ phase'[c] \in Live => phase[c] \in Live \cup {"none"}

\* A connection that takes no part in a step keeps all of it.
LEMMA StillKeeps ==
  ASSUME NEW c \in Conns, UNCHANGED <<job[c], phase[c]>>
  PROVE  Keeps(c)
BY Zenon DEF Keeps, Tells, Untold, Live

\* A connection whose key is in use was in use with it before, when it is the
\* only one.
LEMMA SoleBefore ==
  ASSUME TypeInv, AliveOnly, \A c \in Conns : key[c] # None => key'[c] = key[c],
         NEW k \in Keys, online[k] # None, online'[k] = online[k], Used(k)' = {online'[k]},
         None \notin Keys
  PROVE  Used(k) = {online[k]}
<1>1. online[k] \in Conns /\ key[online[k]] = k
  BY Zenon DEF TypeInv, AliveOnly
<1>2. \A c \in Conns : key[c] = k => c = online[k]
  BY Zenon DEF Used
<1>3. QED
  BY <1>1, <1>2, Zenon DEF Used

\* A step that tells nobody anything.
LEMMA KnowFrame ==
  ASSUME Constants, TypeInv, AliveOnly, KnowInv, told' = told, again \subseteq again',
         \A c \in Conns : key[c] # None => key'[c] = key[c],
         \A k \in Keys : online'[k] # None => online'[k] = online[k],
         \A c \in Conns : Keeps(c)
  PROVE  KnowInv'
<1> SUFFICES ASSUME NEW j \in Keys, NEW k \in Keys, Pair(j, k)'
             PROVE  (Hears(j, k) \/ Hears(k, j))'
  BY Zenon DEF KnowInv
<1>1. online[j] = online'[j] /\ online[k] = online'[k] /\ online[j] # None /\ online[k] # None
  BY Zenon DEF Pair
<1>2. online[j] \in Conns /\ online[k] \in Conns
  BY <1>1, Zenon DEF TypeInv
<1>3. Used(j) = {online[j]} /\ Used(k) = {online[k]}
  BY <1>1, SoleBefore, Zenon DEF Pair, Constants
<1>4. Pair(j, k)
  BY <1>1, <1>3, Zenon DEF Pair
<1>5. Hears(j, k) \/ Hears(k, j)
  BY <1>4, Zenon DEF KnowInv
<1>6. phase[online[j]] \notin Live => phase'[online[j]] \notin Live
  BY <1>1, <1>2, Zenon DEF Keeps, AliveOnly, Live
<1>7. phase[online[k]] \notin Live => phase'[online[k]] \notin Live
  BY <1>1, <1>2, Zenon DEF Keeps, AliveOnly, Live
<1>8. /\ Keeps(online[j]) /\ Keeps(online[k])
      /\ online[k] \in Others(online[j]) /\ online[j] \in Others(online[k])
  BY <1>1, <1>2 DEF Others, AliveOnly, Pair
<1>9. Hears(j, k) => (Hears(j, k) \/ Hears(k, j))'
  BY <1>1, <1>2, <1>7, <1>8, Zenon DEF Hears, Keeps
<1>10. Hears(k, j) => (Hears(j, k) \/ Hears(k, j))'
  BY <1>1, <1>2, <1>6, <1>8, Zenon DEF Hears, Keeps
<1>11. QED
  BY <1>5, <1>9, <1>10, Zenon

\* The same for what NoGhost says: a client may be told less.
LEMMA GhostFrame ==
  ASSUME Constants, TypeInv, AliveOnly, GhostInv, left \subseteq left',
         \A c \in Conns, k \in Keys : told'[c][k] = "entered" => told[c][k] = "entered",
         \A c \in Conns : key[c] # None => key'[c] = key[c],
         \A k \in Keys : online'[k] # None => online'[k] = online[k],
         \A c \in Conns : Keeps(c)
  PROVE  GhostInv'
<1> SUFFICES ASSUME NEW j \in Keys, NEW k \in Keys, Believes(j, k)'
             PROVE  (\E c \in Used(j) : Untold(c, online[k]))'
  BY Zenon DEF GhostInv
<1>1. online[k] = online'[k] /\ online[k] # None /\ online[k] \in Conns
  BY Zenon DEF Believes, TypeInv
<1>2. Used(k) = {online[k]}
  BY <1>1, SoleBefore, Zenon DEF Believes, Constants
<1>3. phase[online[k]] \in Live
  BY <1>1, Zenon DEF Believes, Keeps, AliveOnly, Live
<1>4. Believes(j, k)
  BY <1>1, <1>2, <1>3 DEF Believes
<1>5. PICK c \in Used(j) : Untold(c, online[k])
  BY <1>4, Zenon DEF GhostInv
<1>6. c \in Conns /\ key[c] = j /\ key[c] # None
  BY <1>5, Zenon DEF Used, Constants
<1>7. Keeps(c) /\ online[k] \in Others(c)
  BY <1>1, <1>4, <1>6, Zenon DEF Others, Believes
<1>8. c \in Used(j)'
  BY <1>6, Zenon DEF Used
<1>9. Untold(c, online[k])'
  BY <1>1, <1>5, <1>6, <1>7, Zenon DEF Keeps
<1>10. QED
  BY <1>8, <1>9, Zenon

\* Every step but the ones that tell somebody something, and PeerEnter.
Quietly ==
  \/ UNCHANGED vars
  \/ \E k \in Keys : Register(k)
  \/ \E c \in Conns :
       \/ Accept(c) \/ Reject(c) \/ CheckOnline(c) \/ Subscribe(c) \/ Receive(c)
       \/ \E k \in Keys : Identify(c, k)
       \/ Lagged(c) \/ Refuse(c) \/ PeerLeave(c) \/ PeerForward(c) \/ DevHandshakeComplete(c)
       \/ Collect(c) \/ Sent(c) \/ ConfigRead(c) \/ ConfigGenerate(c) \/ ConfigUpdate(c) \/ ConfigRefresh(c) \/ EndpointInsert(c)
       \/ \E p \in Protos : EndpointRead(c, p)
       \/ End(c) \/ RemoveClient(c) \/ Offline(c)

\* Those steps keep keys, and every connection keeps what it is to tell.
LEMMA QuietStep ==
  ASSUME Constants, TypeInv, PeersInv, TellInv, Quietly
  PROVE  /\ told' = told /\ again \subseteq again' /\ left \subseteq left'
         /\ \A c \in Conns : key[c] # None => key'[c] = key[c]
         /\ \A k \in Keys : online'[k] # None => online'[k] = online[k]
         /\ \A c \in Conns : Keeps(c)
<1> DEFINE Rest == /\ told' = told /\ again \subseteq again' /\ left \subseteq left'
                   /\ \A c \in Conns : key[c] # None => key'[c] = key[c]
                   /\ \A k \in Keys : online'[k] # None => online'[k] = online[k]
<1> DEFINE Goal == Rest /\ \A c \in Conns : Keeps(c)
<1>a. LinkInv
  BY Zenon DEF PeersInv
<1>b. ASSUME NEW c \in Conns, \A d \in Conns : d # c => UNCHANGED <<job[d], phase[d]>>, Keeps(c)
      PROVE  \A d \in Conns : Keeps(d)
  BY <1>b, StillKeeps, Zenon
<1>c. ASSUME UNCHANGED <<told, again, left, key, online, job, phase>> PROVE Goal
  BY <1>c, StillKeeps, Zenon
<1>1. ASSUME UNCHANGED vars PROVE Goal
  BY <1>1, <1>c, Zenon DEF vars, server, history
<1>2. ASSUME NEW k \in Keys, Register(k) PROVE Goal
  BY <1>2, <1>c, Zenon DEF Register, history
<1>3. ASSUME NEW c \in Conns, Receive(c) PROVE Goal
  BY <1>3, <1>c, Zenon DEF Receive, server, history
<1>4. ASSUME NEW c \in Conns, Refuse(c) PROVE Goal
  BY <1>4, <1>c, Zenon DEF Refuse, Take, server, history
<1>5. ASSUME NEW c \in Conns, DevHandshakeComplete(c) PROVE Goal
  BY <1>5, <1>c, Zenon DEF DevHandshakeComplete, Take, history
<1>6. ASSUME NEW c \in Conns, Accept(c) PROVE Goal
  <2>1. Rest
    BY <1>6, Zenon DEF Accept, server, history
  <2>2. \A d \in Conns : d # c => UNCHANGED <<job[d], phase[d]>>
    BY <1>6, Zenon DEF Accept, server, history, TypeInv, JobType
  <2>3. job'[c] = job[c] /\ phase[c] = "none" /\ phase'[c] = "hello"
    BY <1>6, <1>a, Zenon DEF Accept, server, history, TypeInv, JobType, IsJob, Idle, LinkInv
  <2>4. Keeps(c)
    BY <2>3, Zenon DEF Keeps, Tells, Untold, Live
  <2>5. QED
    BY <2>1, <2>2, <2>4, <1>b, Zenon
<1>7. ASSUME NEW c \in Conns, Reject(c) PROVE Goal
  <2>1. Rest
    BY <1>7, Zenon DEF Reject, server, history
  <2>2. \A d \in Conns : d # c => UNCHANGED <<job[d], phase[d]>>
    BY <1>7, Zenon DEF Reject, server, history, TypeInv, JobType
  <2>3. job'[c] = job[c] /\ phase[c] \in Live /\ phase'[c] = "ended"
    BY <1>7, <1>a, Zenon DEF Reject, server, history, TypeInv, JobType, IsJob, Idle, LinkInv, Live
  <2>4. Keeps(c)
    BY <2>3, Zenon DEF Keeps, Tells, Untold, Live
  <2>5. QED
    BY <2>1, <2>2, <2>4, <1>b, Zenon
<1>8. ASSUME NEW c \in Conns, CheckOnline(c) PROVE Goal
  <2>1. Rest
    BY <1>8, Zenon DEF CheckOnline, server, history
  <2>2. \A d \in Conns : d # c => UNCHANGED <<job[d], phase[d]>>
    BY <1>8, Zenon DEF CheckOnline, server, history, TypeInv, JobType
  <2>3. job'[c] = job[c] /\ phase[c] \in Live /\ phase'[c] \in {"ended", "welcome"}
    BY <1>8, <1>a, Zenon DEF CheckOnline, server, history, TypeInv, JobType, IsJob, Idle, LinkInv, Live
  <2>4. Keeps(c)
    BY <2>3, Zenon DEF Keeps, Tells, Untold, Live
  <2>5. QED
    BY <2>1, <2>2, <2>4, <1>b, Zenon
<1>9. ASSUME NEW c \in Conns, Subscribe(c) PROVE Goal
  <2>1. Rest
    BY <1>9, Zenon DEF Subscribe, server, history
  <2>2. \A d \in Conns : d # c => UNCHANGED <<job[d], phase[d]>>
    BY <1>9, Zenon DEF Subscribe, server, history, TypeInv, JobType
  <2>3. job'[c] = job[c] /\ phase[c] \in Live /\ phase'[c] \in Live
    BY <1>9, <1>a, Zenon DEF Subscribe, server, history, TypeInv, JobType, IsJob, Idle, LinkInv, Live
  <2>4. Keeps(c)
    BY <2>3, Zenon DEF Keeps, Tells, Untold, Live
  <2>5. QED
    BY <2>1, <2>2, <2>4, <1>b, Zenon
<1>10. ASSUME NEW c \in Conns, NEW k \in Keys, Identify(c, k) PROVE Goal
  <2>1. Rest
    BY <1>10, <1>a, Zenon DEF Identify, server, history, TypeInv, LinkInv
  <2>2. \A d \in Conns : d # c => UNCHANGED <<job[d], phase[d]>>
    BY <1>10, Zenon DEF Identify, server, history, TypeInv, JobType
  <2>3. job'[c] = job[c] /\ phase[c] \in Live /\ phase'[c] \in Live
    BY <1>10, <1>a, Zenon DEF Identify, server, history, TypeInv, JobType, IsJob, Idle, LinkInv, Live
  <2>4. Keeps(c)
    BY <2>3, Zenon DEF Keeps, Tells, Untold, Live
  <2>5. QED
    BY <2>1, <2>2, <2>4, <1>b, Zenon
<1>11. ASSUME NEW c \in Conns, Lagged(c) PROVE Goal
  <2>1. Rest
    BY <1>11, Zenon DEF Lagged, server, history
  <2>2. \A d \in Conns : d # c => UNCHANGED <<job[d], phase[d]>>
    BY <1>11, Zenon DEF Lagged, server, history, TypeInv, JobType
  <2>3. job'[c] = job[c] /\ phase[c] \in Live /\ phase'[c] = "ended"
    BY <1>11, <1>a, Zenon DEF Lagged, server, history, TypeInv, JobType, IsJob, Idle, LinkInv, Live
  <2>4. Keeps(c)
    BY <2>3, Zenon DEF Keeps, Tells, Untold, Live
  <2>5. QED
    BY <2>1, <2>2, <2>4, <1>b, Zenon
<1>12. ASSUME NEW c \in Conns, RemoveClient(c) PROVE Goal
  <2>1. Rest
    BY <1>12, Zenon DEF RemoveClient, server, history
  <2>2. \A d \in Conns : d # c => UNCHANGED <<job[d], phase[d]>>
    BY <1>12, Zenon DEF RemoveClient, server, history, TypeInv, JobType
  <2>3. /\ job'[c] = job[c] /\ phase[c] = "ended" /\ phase'[c] \in {"gone", "removed"}
        /\ key[c] # None => phase'[c] = "removed"
    BY <1>12, <1>a, Zenon DEF RemoveClient, server, history, TypeInv, JobType, IsJob, Idle, LinkInv
  <2>4. Keeps(c)
    BY <2>3, Zenon DEF Keeps, Tells, Untold, Live
  <2>5. QED
    BY <2>1, <2>2, <2>4, <1>b, Zenon
<1>13. ASSUME NEW c \in Conns, PeerLeave(c) PROVE Goal
  <2>1. Rest
    BY <1>13, Zenon DEF PeerLeave, Take, GoOffline, TypeInv
  <2>2. \A d \in Conns : d # c => UNCHANGED <<job[d], phase[d]>>
    BY <1>13, Zenon DEF PeerLeave, Take, GoOffline, TypeInv, JobType
  <2>3. job[c].at = "idle" /\ phase'[c] = phase[c] /\ phase[c] \in Live
    BY <1>13, <1>a DEF PeerLeave, Take, GoOffline, TypeInv, JobType, IsJob, Idle, LinkInv, Live
  <2>4. Keeps(c)
    BY <2>3, Zenon DEF Keeps, Tells, Untold, Live
  <2>5. QED
    BY <2>1, <2>2, <2>4, <1>b, Zenon
<1>14. ASSUME NEW c \in Conns, PeerForward(c) PROVE Goal
  <2>1. Rest
    BY <1>14, Zenon DEF PeerForward, Take, server, history
  <2>2. \A d \in Conns : d # c => UNCHANGED <<job[d], phase[d]>>
    BY <1>14, Zenon DEF PeerForward, Take, server, history, TypeInv, JobType
  <2>3. job[c].at = "idle" /\ phase'[c] = phase[c] /\ phase[c] \in Live
    BY <1>14, <1>a DEF PeerForward, Take, server, history, TypeInv, JobType, IsJob, Idle, LinkInv, Live
  <2>4. Keeps(c)
    BY <2>3, Zenon DEF Keeps, Tells, Untold, Live
  <2>5. QED
    BY <2>1, <2>2, <2>4, <1>b, Zenon
<1>15. ASSUME NEW c \in Conns, ConfigRead(c) PROVE Goal
  <2>1. Rest
    BY <1>15, Zenon DEF ConfigRead, Take, server
  <2>2. \A d \in Conns : d # c => UNCHANGED <<job[d], phase[d]>>
    BY <1>15, Zenon DEF ConfigRead, Take, server, TypeInv, JobType
  <2>3. job[c].at = "idle" /\ phase'[c] = phase[c] /\ phase[c] \in Live
    BY <1>15, <1>a DEF ConfigRead, Take, server, TypeInv, JobType, IsJob, Idle, LinkInv, Live
  <2>4. Keeps(c)
    BY <2>3, Zenon DEF Keeps, Tells, Untold, Live
  <2>5. QED
    BY <2>1, <2>2, <2>4, <1>b, Zenon
<1>16. ASSUME NEW c \in Conns, NEW p \in Protos, EndpointRead(c, p) PROVE Goal
  <2>1. Rest
    BY <1>16, Zenon DEF EndpointRead, Take, server, history
  <2>2. \A d \in Conns : d # c => UNCHANGED <<job[d], phase[d]>>
    BY <1>16, Zenon DEF EndpointRead, Take, server, history, TypeInv, JobType
  <2>3. job[c].at = "idle" /\ phase'[c] = phase[c] /\ phase[c] \in Live
    BY <1>16, <1>a DEF EndpointRead, Take, server, history, TypeInv, JobType, IsJob, Idle, LinkInv, Live
  <2>4. Keeps(c)
    BY <2>3, Zenon DEF Keeps, Tells, Untold, Live
  <2>5. QED
    BY <2>1, <2>2, <2>4, <1>b, Zenon
<1>17. ASSUME NEW c \in Conns, ConfigGenerate(c) PROVE Goal
  <2>1. Rest
    BY <1>17, Zenon DEF ConfigGenerate, server
  <2>2. \A d \in Conns : d # c => UNCHANGED <<job[d], phase[d]>>
    BY <1>17, Zenon DEF ConfigGenerate, server, TypeInv, JobType
  <2>3. job[c].at \notin {"collect", "send"} /\ phase'[c] = phase[c] /\ phase[c] # "leaving"
    BY <1>17, <1>a, Zenon DEF ConfigGenerate, server, TypeInv, JobType, IsJob, Idle, LinkInv
  <2>4. Keeps(c)
    BY <2>3, Zenon DEF Keeps, Tells, Untold, Live
  <2>5. QED
    BY <2>1, <2>2, <2>4, <1>b, Zenon
<1>18. ASSUME NEW c \in Conns, ConfigUpdate(c) PROVE Goal
  <2>1. Rest
    BY <1>18, Zenon DEF ConfigUpdate, history
  <2>2. \A d \in Conns : d # c => UNCHANGED <<job[d], phase[d]>>
    BY <1>18, Zenon DEF ConfigUpdate, history, TypeInv, JobType
  <2>3. job[c].at \notin {"collect", "send"} /\ phase'[c] = phase[c] /\ phase[c] # "leaving"
    BY <1>18, <1>a, Zenon DEF ConfigUpdate, history, TypeInv, JobType, IsJob, Idle, LinkInv
  <2>4. Keeps(c)
    BY <2>3, Zenon DEF Keeps, Tells, Untold, Live
  <2>5. QED
    BY <2>1, <2>2, <2>4, <1>b, Zenon
<1>19. ASSUME NEW c \in Conns, ConfigRefresh(c) PROVE Goal
  <2>1. Rest
    BY <1>19, Zenon DEF ConfigRefresh, history
  <2>2. \A d \in Conns : d # c => UNCHANGED <<job[d], phase[d]>>
    BY <1>19, Zenon DEF ConfigRefresh, history, TypeInv, JobType
  <2>3. job[c].at \notin {"collect", "send"} /\ phase'[c] = phase[c] /\ phase[c] # "leaving"
    BY <1>19, <1>a, Zenon DEF ConfigRefresh, history, TypeInv, JobType, IsJob, Idle, LinkInv
  <2>4. Keeps(c)
    BY <2>3, Zenon DEF Keeps, Tells, Untold, Live
  <2>5. QED
    BY <2>1, <2>2, <2>4, <1>b, Zenon
<1>20. ASSUME NEW c \in Conns, EndpointInsert(c) PROVE Goal
  <2>1. Rest
    BY <1>20, Zenon DEF EndpointInsert, server, history
  <2>2. \A d \in Conns : d # c => UNCHANGED <<job[d], phase[d]>>
    BY <1>20, Zenon DEF EndpointInsert, server, history, TypeInv, JobType
  <2>3. job[c].at \notin {"collect", "send"} /\ phase'[c] = phase[c] /\ phase[c] # "leaving"
    BY <1>20, <1>a, Zenon DEF EndpointInsert, server, history, TypeInv, JobType, IsJob, Idle, LinkInv
  <2>4. Keeps(c)
    BY <2>3, Zenon DEF Keeps, Tells, Untold, Live
  <2>5. QED
    BY <2>1, <2>2, <2>4, <1>b, Zenon
<1>21. ASSUME NEW c \in Conns, End(c) PROVE Goal
  <2>1. Rest
    BY <1>21, Zenon DEF End, server
  <2>2. \A d \in Conns : d # c => UNCHANGED <<job[d], phase[d]>>
    BY <1>21, Zenon DEF End, server, TypeInv, JobType
  <2>3. phase[c] \in Live /\ phase'[c] = "ended"
    BY <1>21, <1>a, Zenon DEF End, server, TypeInv, JobType, IsJob, Idle, LinkInv
  <2>4. Keeps(c)
    BY <2>3, Zenon DEF Keeps, Tells, Untold, Live
  <2>5. QED
    BY <2>1, <2>2, <2>4, <1>b, Zenon
<1>22. ASSUME NEW c \in Conns, Offline(c) PROVE Goal
  <2>1. Rest
    BY <1>22, Zenon DEF Offline, GoOffline, history, TypeInv
  <2>2. \A d \in Conns : d # c => UNCHANGED <<job[d], phase[d]>>
    BY <1>22, Zenon DEF Offline, GoOffline, history, TypeInv, JobType
  <2>3. job[c].at = "idle" /\ job'[c].at = "collect" /\ phase[c] = "removed" /\ phase'[c] = "leaving"
    BY <1>22, <1>a, Zenon DEF Offline, GoOffline, history, TypeInv, JobType, IsJob, Idle, LinkInv
  <2>4. Keeps(c)
    BY <2>3, Zenon DEF Keeps, Tells, Untold, Live
  <2>5. QED
    BY <2>1, <2>2, <2>4, <1>b, Zenon
<1>23. ASSUME NEW c \in Conns, Sent(c) PROVE Goal
  <2>1. Rest
    BY <1>23, Zenon DEF Sent, server, history
  <2>2. \A d \in Conns : d # c => UNCHANGED <<job[d], phase[d]>>
    BY <1>23, Zenon DEF Sent, server, history, TypeInv, JobType
  <2>3. /\ job[c].at = "send" /\ job[c].to = {} /\ phase'[c] \in {"gone", phase[c]}
        /\ phase'[c] # phase[c] => phase[c] = "leaving"
    BY <1>23, <1>a, Zenon DEF Sent, server, history, TypeInv, JobType, IsJob, Idle, LinkInv
  <2>4. Keeps(c)
    BY <2>3, Zenon DEF Keeps, Tells, Untold, Live
  <2>5. QED
    BY <2>1, <2>2, <2>4, <1>b, Zenon
<1>24. ASSUME NEW c \in Conns, Collect(c) PROVE Goal
  <2>1. Rest
    BY <1>24, Zenon DEF Collect, server, history
  <2>2. \A d \in Conns : d # c => UNCHANGED <<job[d], phase[d]>>
    BY <1>24, Zenon DEF Collect, TypeInv, JobType
  <2>3. /\ job[c].at = "collect" /\ job'[c].at = "send" /\ job'[c].say = job[c].say
        /\ job'[c].to = {online[k] : k \in job[c].who} \ {None} /\ phase'[c] = phase[c]
    BY <1>24, Zenon DEF Collect, TypeInv, JobType, IsJob
  <2>4. /\ job[c].say \in {"enter", "leave"} => job[c].who = Keys \ {key[c]}
        /\ phase[c] = "leaving" => job[c].say = "leave"
    BY <2>3, Zenon DEF TellInv, TellJob
  <2>5. job[c].say \in {"enter", "leave"} => job'[c].to = Others(c)
    BY <2>3, <2>4, Zenon DEF Others
  <2>6. Keeps(c)
    BY <2>3, <2>4, <2>5, Zenon DEF Keeps, Tells, Untold, Live
  <2>7. QED
    BY <2>1, <2>2, <2>6, <1>b, Zenon
<1>25. Goal
  BY <1>1, <1>2, <1>3, <1>4, <1>5, <1>6, <1>7, <1>8, <1>9, <1>10, <1>11, <1>12, <1>13, <1>14,
     <1>15, <1>16, <1>17, <1>18, <1>19, <1>20, <1>21, <1>22, <1>23, <1>24, Zenon
     DEF Quietly
<1>26. QED
  BY <1>25, Zenon

\* PeerEnter of c: its handler is to tell everybody who is online.
LEMMA EnterTells ==
  ASSUME Constants, TypeInv, PeersInv, TellInv, KnowInv, GhostInv, NEW e \in Conns, PeerEnter(e)
  PROVE  KnowInv' /\ GhostInv'
<1>a. /\ LinkInv /\ AliveOnly /\ SoleStaysOnline
      /\ phase[e] = "ready" /\ key[e] \in Keys
      /\ UNCHANGED <<phase, key, told, again, left>>
  BY Zenon DEF PeersInv, LinkInv, PeerEnter, Take, history, TypeInv
<1>b. \A k \in Keys : online'[k] = IF k = key[e] THEN e ELSE online[k]
  BY <1>a, Zenon DEF PeerEnter, TypeInv
<1>c. job[e].at = "idle" /\ job'[e].at = "collect" /\ job'[e].say = "enter"
  <2>1. job[e] = Idle /\ job'[e] = [Idle EXCEPT !.at = "collect", !.say = "enter",
                                                !.who = Keys \ {key[e]}]
    BY Zenon DEF PeerEnter, Take, TypeInv, JobType
  <2>2. QED
    BY <2>1 DEF Idle
<1>d. \A d \in Conns : d # e => job'[d] = job[d]
  BY Zenon DEF PeerEnter, TypeInv, JobType
<1>e. None \notin Keys /\ None \notin Conns /\ online \in [Keys -> Conns \cup {None}]
  BY Zenon DEF Constants, TypeInv
<1>f. \A k \in Keys : Used(k)' = Used(k)
  BY <1>a, Zenon DEF Used
<1>g. \A k \in Keys : online[k] # None => online[k] \in Conns /\ key[online[k]] = k
  BY <1>a, <1>e, Zenon DEF AliveOnly
<1>1. ASSUME NEW j \in Keys, NEW k \in Keys, Pair(j, k)'
      PROVE  (Hears(j, k) \/ Hears(k, j))'
  <2>1. CASE j = key[e]
    BY <2>1, <1>b, <1>c, Zenon DEF Hears, Tells
  <2>2. CASE k = key[e]
    BY <2>2, <1>b, <1>c, Zenon DEF Hears, Tells
  <2>3. CASE j # key[e] /\ k # key[e]
    <3>1. online'[j] = online[j] /\ online'[k] = online[k]
      BY <2>3, <1>b, Zenon
    <3>2. Pair(j, k)
      BY <1>1, <3>1, <1>a, <1>f, Zenon DEF Pair
    <3>3. online[j] \in Conns /\ online[k] \in Conns /\ online[j] # e /\ online[k] # e
      BY <3>2, <2>3, <1>g, Zenon DEF Pair
    <3>4. job'[online[j]] = job[online[j]] /\ job'[online[k]] = job[online[k]]
      BY <3>3, <1>d, Zenon
    <3>5. Hears(j, k) \/ Hears(k, j)
      BY <3>2, Zenon DEF KnowInv
    <3>6. QED
      BY <3>1, <3>4, <3>5, <1>a, Zenon DEF Hears, Tells
  <2>4. QED
    BY <2>1, <2>2, <2>3, Zenon
<1>2. ASSUME NEW j \in Keys, NEW k \in Keys, Believes(j, k)'
      PROVE  (\E c \in Used(j) : Untold(c, online[k]))'
  <2>1. online'[k] \in Conns /\ Used(k) = {online'[k]} /\ online'[k] \notin left /\ j # k
    BY <1>2, <1>a, <1>b, <1>e, <1>f, Zenon DEF Believes
  <2>2. enters[online'[k]] > 0
    BY <1>2, <1>a, <2>1, Zenon DEF Believes, TellInv
  <2>3. online[k] = online'[k]
    <3>1. CASE k # key[e]
      BY <3>1, <1>b, Zenon
    <3>2. CASE k = key[e]
      BY <3>2, <2>1, <2>2, <1>a, <1>b, Zenon DEF SoleStaysOnline, Used
    <3>3. QED
      BY <3>1, <3>2, Zenon
  <2>4. Believes(j, k)
    BY <1>2, <1>a, <1>f, <2>1, <2>3, Zenon DEF Believes
  <2>5. PICK c \in Used(j) : Untold(c, online[k])
    BY <2>4, Zenon DEF GhostInv
  <2>6. Untold(c, online[k])'
    BY <2>3, <2>5, <1>a, <1>d, Zenon DEF Untold, Used, Live
  <2>7. QED
    BY <2>5, <2>6, <1>f, Zenon
<1>3. KnowInv'
  BY <1>1, Zenon DEF KnowInv
<1>4. GhostInv'
  BY <1>2, Zenon DEF GhostInv
<1>5. QED
  BY <1>3, <1>4, Zenon

\* One of the sends: what it makes a client believe is so, and it is taken from
\* what is left to tell.
LEMMA SendTells ==
  ASSUME Constants, TypeInv, PeersInv, TellInv, KnowInv, GhostInv,
         NEW e \in Conns, NEW r \in Conns, SendOne(e, r)
  PROVE  KnowInv' /\ GhostInv'
<1>a. /\ LinkInv /\ AliveOnly
      /\ UNCHANGED <<phase, key, online, again, left>>
  BY Zenon DEF PeersInv, SendOne, server, history
<1>b. /\ job[e].at = "send" /\ job'[e].at = "send" /\ job'[e].say = job[e].say
      /\ job'[e].to = job[e].to \ {r}
  BY Zenon DEF SendOne, TypeInv, JobType, IsJob
<1>c. \A d \in Conns : d # e => job'[d] = job[d]
  BY Zenon DEF SendOne, TypeInv, JobType
<1>d. key[e] \in Keys /\ phase[e] \in {"ready", "leaving"}
  BY <1>a, <1>b, Zenon DEF LinkInv, TypeInv
<1>e. \A d \in Conns, k \in Keys : d # r \/ k # key[e] => told'[d][k] = told[d][k]
  BY <1>d, Zenon DEF SendOne, TellInv
<1>f. phase[r] \in Live =>
        /\ job[e].say = "enter" => told'[r][key[e]] = "entered"
        /\ job[e].say = "leave" => told'[r][key[e]] = "left"
        /\ job[e].say \notin {"enter", "leave"} => told'[r][key[e]] = told[r][key[e]]
  BY <1>d DEF SendOne, TellInv, Word
<1>g. phase[r] \notin Live => told' = told
  BY Zenon DEF SendOne
<1>h. \A k \in Keys : Used(k)' = Used(k)
  BY <1>a, Zenon DEF Used
<1>i. \A k \in Keys : online[k] # None =>
        online[k] \in Conns /\ key[online[k]] = k /\ job[online[k]].say # "leave"
  BY <1>a, Zenon DEF AliveOnly, TypeInv, TellInv
<1>1. ASSUME NEW j \in Keys, NEW k \in Keys, Pair(j, k), Hears(j, k)
      PROVE  Hears(j, k)'
  <2>1. online[j] \in Conns /\ online[k] \in Conns /\ key[online[j]] = j
        /\ job[online[j]].say # "leave" /\ Used(j) = {online[j]}
    BY <1>1, <1>i, Zenon DEF Pair
  <2>2. CASE r = online[k] /\ key[e] = j
    <3>1. e = online[j]
      BY <2>1, <2>2, Zenon DEF Used
    <3>2. CASE phase[r] \notin Live
      BY <3>2, <2>2, <1>a, Zenon DEF Hears
    <3>3. CASE phase[r] \in Live /\ job[e].say = "enter"
      BY <3>3, <2>2, <1>a, <1>f, Zenon DEF Hears
    <3>4. CASE phase[r] \in Live /\ job[e].say # "enter"
      BY <3>1, <3>4, <2>1, <2>2, <1>1, <1>a, <1>f, Zenon DEF Hears, Tells
    <3>5. QED
      BY <3>2, <3>3, <3>4, Zenon
  <2>3. CASE r # online[k] \/ key[e] # j
    <3>1. told'[online[k]][j] = told[online[k]][j]
      BY <2>1, <2>3, <1>e, Zenon
    <3>2. Tells(online[j], online[k]) => Tells(online[j], online[k])'
      BY <2>1, <2>3, <1>a, <1>b, <1>c, Zenon DEF Tells
    <3>3. QED
      BY <3>1, <3>2, <1>1, <1>a, Zenon DEF Hears
  <2>4. QED
    BY <2>2, <2>3, Zenon
<1>2. KnowInv'
  <2> SUFFICES ASSUME NEW j \in Keys, NEW k \in Keys, Pair(j, k)'
               PROVE  (Hears(j, k) \/ Hears(k, j))'
    BY Zenon DEF KnowInv
  <2>1. Pair(j, k) /\ Pair(k, j)
    BY <1>a, <1>h, Zenon DEF Pair
  <2>2. Hears(j, k) \/ Hears(k, j)
    BY <2>1, Zenon DEF KnowInv
  <2>3. QED
    BY <2>1, <2>2, <1>1, Zenon
<1>3. ASSUME NEW j \in Keys, NEW k \in Keys, Believes(j, k)'
      PROVE  (\E c \in Used(j) : Untold(c, online[k]))'
  <2>1. online[k] \in Conns /\ phase[online[k]] \in Live /\ told'[online[k]][j] = "entered"
    BY <1>3, <1>a, <1>i, Zenon DEF Believes
  <2>2. CASE r = online[k] /\ key[e] = j /\ phase[e] = "ready"
    BY <2>2, <1>a, Zenon DEF Used, Untold, Live
  <2>3. CASE ~(r = online[k] /\ key[e] = j /\ phase[e] = "ready")
    <3>1. r # online[k] \/ key[e] # j
      BY <2>1, <2>3, <1>d, <1>f, Zenon DEF TellInv, TellJob
    <3>2. told[online[k]][j] = "entered"
      BY <2>1, <3>1, <1>e, Zenon
    <3>3. Believes(j, k)
      BY <1>3, <1>a, <1>h, <3>2, Zenon DEF Believes
    <3>4. PICK c \in Used(j) : Untold(c, online[k])
      BY <3>3, Zenon DEF GhostInv
    <3>5. Untold(c, online[k])'
      BY <3>1, <3>4, <1>a, <1>b, <1>c, Zenon DEF Untold, Used
    <3>6. QED
      BY <3>4, <3>5, <1>h, Zenon
  <2>4. QED
    BY <2>2, <2>3, Zenon
<1>4. GhostInv'
  BY <1>3, Zenon DEF GhostInv
<1>5. QED
  BY <1>2, <1>4, Zenon

\* The answer to ReqConfig: who had entered before it asked is in again, and it
\* never says that somebody entered.
LEMMA ReplyTells ==
  ASSUME Constants, TypeInv, PeersInv, TellInv, KnowInv, GhostInv, NEW e \in Conns, ConfigReply(e)
  PROVE  KnowInv' /\ GhostInv'
<1>a. /\ LinkInv /\ AliveOnly
      /\ UNCHANGED <<phase, key, online, again, left>>
  BY Zenon DEF PeersInv, ConfigReply, server, history
<1>b. job[e].at = "reply" /\ \A d \in Conns : d # e => job'[d] = job[d]
  BY Zenon DEF ConfigReply, TypeInv, JobType
<1>c. /\ job[e].seen \in [Keys -> {"unknown", "listed", "left"}]
      /\ enters[e] > 0 => e \in again
  BY <1>b, Zenon DEF TellInv, TellJob, Configuring
<1>d. \A d \in Conns : d # e => told'[d] = told[d]
  BY Zenon DEF ConfigReply, TellInv
<1>e. \A k \in Keys : told'[e][k] = IF job[e].seen[k] = "unknown" THEN told[e][k] ELSE job[e].seen[k]
  BY Zenon DEF ConfigReply, TellInv
<1>f. \A k \in Keys : Used(k)' = Used(k)
  BY <1>a, Zenon DEF Used
<1>g. \A k \in Keys : online[k] # None =>
        online[k] \in Conns /\ key[online[k]] = k /\ enters[online[k]] > 0
  BY <1>a, Zenon DEF AliveOnly, TypeInv, TellInv
<1>1. KnowInv'
  <2> SUFFICES ASSUME NEW j \in Keys, NEW k \in Keys, Pair(j, k)'
               PROVE  (Hears(j, k) \/ Hears(k, j))'
    BY Zenon DEF KnowInv
  <2>1. Pair(j, k)
    BY <1>a, <1>f, Zenon DEF Pair
  <2>2. /\ online[j] \in Conns /\ online[k] \in Conns
        /\ online[j] # e /\ online[k] # e
    BY <2>1, <1>c, <1>g, Zenon DEF Pair
  <2>3. /\ told'[online[j]] = told[online[j]] /\ told'[online[k]] = told[online[k]]
        /\ job'[online[j]] = job[online[j]] /\ job'[online[k]] = job[online[k]]
    BY <2>2, <1>b, <1>d, Zenon
  <2>4. Hears(j, k) \/ Hears(k, j)
    BY <2>1, Zenon DEF KnowInv
  <2>5. QED
    BY <2>3, <2>4, <1>a, Zenon DEF Hears, Tells
<1>2. \A d \in Conns, k \in Keys : told'[d][k] = "entered" => told[d][k] = "entered"
  BY <1>c, <1>d, <1>e, Zenon
<1>3. \A d \in Conns : Keeps(d)
  <2>1. phase[e] = "ready" /\ Keeps(e)
    BY <1>a, <1>b, Zenon DEF LinkInv, Keeps, Tells, Untold, Live
  <2>2. QED
    BY <2>1, <1>a, <1>b, StillKeeps, Zenon
<1>4. GhostInv'
  BY <1>a, <1>2, <1>3, GhostFrame, Zenon
<1>5. QED
  BY <1>1, <1>4, Zenon

\* What the server has told its clients, with what it is yet to tell them.
ToldInv == TellInv /\ KnowInv /\ GhostInv

\* Initially nobody is online and nobody has been told of anybody.
LEMMA ToldInit ==
  ASSUME Constants, Init
  PROVE  ToldInv
<1>1. \A k \in Keys : online[k] = None
  BY Zenon DEF Init
<1>2. TellInv
  BY Zenon DEF Init, TellInv, TellJob, Configuring, Idle
<1>3. KnowInv
  BY <1>1, Zenon DEF KnowInv, Pair
<1>4. GhostInv
  BY <1>1, Zenon DEF GhostInv, Believes
<1>5. QED
  BY <1>2, <1>3, <1>4, Zenon DEF ToldInv

LEMMA ToldNext ==
  ASSUME Constants, TypeInv, TypeInv', PeersInv, ToldInv, [Next]_vars
  PROVE  ToldInv'
<1>1. TellInv'
  BY TellNext, Zenon DEF ToldInv
<1>a. TellInv /\ KnowInv /\ GhostInv /\ AliveOnly
  BY Zenon DEF ToldInv, PeersInv
<1>2. CASE Quietly
  <2>1. KnowInv'
    BY <1>2, <1>a, QuietStep, KnowFrame, Zenon
  <2>2. GhostInv'
    BY <1>2, <1>a, QuietStep, GhostFrame, Zenon
  <2>3. QED
    BY <1>1, <2>1, <2>2, Zenon DEF ToldInv
<1>3. ASSUME NEW c \in Conns, PeerEnter(c) PROVE ToldInv'
  BY <1>1, <1>3, <1>a, EnterTells, Zenon DEF ToldInv
<1>4. ASSUME NEW c \in Conns, NEW r \in Conns, SendOne(c, r) PROVE ToldInv'
  BY <1>1, <1>4, <1>a, SendTells, Zenon DEF ToldInv
<1>5. ASSUME NEW c \in Conns, ConfigReply(c) PROVE ToldInv'
  BY <1>1, <1>5, <1>a, ReplyTells, Zenon DEF ToldInv
<1>6. Quietly \/ (\E c \in Conns : PeerEnter(c) \/ ConfigReply(c) \/ \E r \in Conns : SendOne(c, r))
  BY Zenon DEF Next, Quietly
<1>7. QED
  BY <1>2, <1>3, <1>4, <1>5, <1>6, Zenon

\* What the clients know follows from what they were told and what is on its way.
THEOREM RegistryTells == Spec => []ToldInv
<1>1. Init => ToldInv
  BY ToldInit, RegistryAssumption, Zenon
<1>2. IndInv /\ IndInv' /\ ToldInv /\ [Next]_vars => ToldInv'
  BY ToldNext, RegistryAssumption, Zenon DEF IndInv
<1>3. QED
  BY <1>1, <1>2, RegistryInvariant, PTL DEF Spec

\* Of two peers that are online, each with one connection and neither having asked
\* for its configuration again, one has been told of the other once every handler
\* is done: PeerEnter and ReqConfig do not miss each other.
THEOREM PeersMeet == Spec => []SomeoneKnows
<1>1. IndInv /\ ToldInv => SomeoneKnows
  <2> SUFFICES ASSUME IndInv, ToldInv, Quiet, NEW j \in Keys, NEW k \in Keys, Pair(j, k)
               PROVE  \/ told[online[j]][k] \in {"entered", "listed"}
                      \/ told[online[k]][j] \in {"entered", "listed"}
    BY Zenon DEF SomeoneKnows, Pair
  <2>1. AliveOnly /\ TypeInv /\ KnowInv
    BY Zenon DEF IndInv, PeersInv, ToldInv
  <2>2. Hears(j, k) \/ Hears(k, j)
    BY <2>1, Zenon DEF KnowInv
  <2>3. online[j] \in Conns /\ online[k] \in Conns
    BY <2>1, Zenon DEF Pair, TypeInv
  <2>4. phase[online[j]] \in Live /\ phase[online[k]] \in Live
    BY <2>1, <2>3, Zenon DEF Pair, AliveOnly, Quiet
  <2>5. job[online[j]].at = "idle" /\ job[online[k]].at = "idle"
    <3>1. job[online[j]] = Idle /\ job[online[k]] = Idle
      BY <2>3, Zenon DEF Quiet
    <3>2. Idle.at = "idle"
      BY Zenon DEF Idle
    <3>3. QED
      BY <3>1, <3>2, Zenon
  <2>6. QED
    BY <2>2, <2>4, <2>5, Zenon DEF Hears, Tells
<1>2. QED
  BY <1>1, RegistryInvariant, RegistryTells, PTL

\* A client that was told that a peer entered is told when its last connection
\* has gone.
THEOREM NoPeerIsAGhost == Spec => []NoGhost
<1>1. IndInv /\ ToldInv => NoGhost
  BY DEF IndInv, PeersInv, ToldInv, NoGhost, GhostInv, Believes, Untold, AliveOnly, Quiet, Live, Used
<1>2. QED
  BY <1>1, RegistryInvariant, RegistryTells, PTL
=============================================================================
