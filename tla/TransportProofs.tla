--------------------------- MODULE TransportProofs ---------------------------
(***************************************************************************)
(* Theorems about the transports of a device: the NAT service, the extra   *)
(* transport, the sockets and the way of a packet to its peer, for any     *)
(* ports, durations, capacities and bounds.  There is one lemma per group  *)
(* of actions that touch the same part of the state.                       *)
(***************************************************************************)
EXTENDS NatService, ExtraTransport, Device, FiniteSetTheorems, TLAPS

\* What a call of add_port may do to the gateway: with UDP, a call that succeeds
\* leaves the port mapped for the whole duration.
LEMMA AddPort ==
  ASSUME NatTypeOK, NEW p \in Ports, NEW r \in add_port(p)
  PROVE  /\ r.ok \in BOOLEAN /\ r.g \in [Slots -> Mapping]
         /\ faults + r.fault \in 0 .. MaxFaults
         /\ proto = "UDP" /\ r.ok
              => r.g[<<"UDP", p>>].owner = "ours" /\ r.g[<<"UDP", p>>].left = Duration
<1>a. /\ gateway \in [Slots -> Mapping] /\ proto \in {"UDP", "TCP"} /\ faults \in 0 .. MaxFaults
      /\ inner \in Ports \cup {0}
  BY NatAssumption, Zenon DEF NatTypeOK
<1>b. <<proto, p>> \in Slots /\ <<"TCP", p>> \in Slots
  BY <1>a, Zenon DEF Slots
<1>c. Ours \in Mapping /\ Free \in Mapping /\ Ours.owner = "ours" /\ Ours.left = Duration
  BY <1>a, NatAssumption DEF Ours, Free, Mapping
<1> DEFINE removed == [gateway EXCEPT ![<<"TCP", p>>] = Free]
<1>d. removed \in [Slots -> Mapping]
  BY <1>a, <1>c, Zenon
<1>1. ASSUME NEW g \in [Slots -> Mapping]
      PROVE  /\ Map(g, p) \in [Slots -> Mapping]
             /\ Map(g, p)[<<proto, p>>] = Ours
  BY <1>b, <1>c, Zenon DEF Map
<1> HIDE DEF removed
<1>e. /\ faults + r.fault <= MaxFaults
      /\ \/ r = [ok |-> FALSE, g |-> gateway, fault |-> 1]
         \/ r = [ok |-> TRUE, g |-> Map(gateway, p), fault |-> 0]
         \/ r = [ok |-> FALSE, g |-> Map(gateway, p), fault |-> 1]
         \/ r = [ok |-> TRUE, g |-> Map(removed, p), fault |-> 0] /\ proto = "TCP"
         \/ r = [ok |-> FALSE, g |-> removed, fault |-> 1]
         \/ r = [ok |-> FALSE, g |-> removed, fault |-> 0]
  <2> HIDE DEF Map
  <2>1. QED
    BY Zenon DEF add_port, removed
<1>2. /\ r.fault \in {0, 1} /\ faults + r.fault <= MaxFaults /\ r.ok \in BOOLEAN
      /\ r.g \in {gateway, Map(gateway, p), removed, Map(removed, p)}
      /\ proto = "UDP" /\ r.ok => r.g = Map(gateway, p)
  <2>1. r.fault \in {0, 1} /\ r.g \in {gateway, Map(gateway, p), removed, Map(removed, p)}
    BY <1>e
  <2>2. r.ok \in BOOLEAN
    <3>1. \A x, y : /\ [ok |-> TRUE, g |-> x, fault |-> y].ok = TRUE
                    /\ [ok |-> FALSE, g |-> x, fault |-> y].ok = FALSE
      BY Zenon
    <3>2. r.ok = TRUE \/ r.ok = FALSE
      BY <1>e, <3>1, Zenon, Zenon
    <3>3. QED
      BY <3>2, Zenon
  <2>3. r.ok => r.g = Map(gateway, p) \/ proto = "TCP"
    BY <1>e
  <2>4. QED
    BY <1>e, <2>1, <2>2, <2>3, Zenon
<1>3. r.g \in [Slots -> Mapping]
  BY <1>2, <1>a, <1>d, <1>1, Zenon
<1>4. proto = "UDP" /\ r.ok => r.g[<<"UDP", p>>] = Ours
  BY <1>2, <1>a, <1>1, Zenon
<1>5. faults + r.fault \in 0 .. MaxFaults
  BY <1>2, <1>a, NatAssumption
<1>6. QED
  BY <1>2, <1>3, <1>4, <1>5, <1>c, Zenon

\* A mapping outlasts the time to the next renewal from the moment it is made.
LEMMA LeaseOutlastsPeriod == Period \in Nat /\ Period < Duration
BY NatAssumption DEF Period

\* The steps that leave the gateway and the renewals alone.
LEMMA NatFrame ==
  ASSUME NatInv, NatTypeOK', UNCHANGED <<proto, external, renewal, due, gateway, held, missed>>,
         open' => open,
         stun' \in {"recv", "send", "map", "again"} => inner' # 0,
         stun' \in {"send", "map", "again"} => addr' # 0
  PROVE  NatInv'
BY Zenon DEF NatInv, MappedTo

\* The steps of the STUN task that call nobody, and those of the transport.
LEMMA StunStep ==
  ASSUME NatInv, UNCHANGED proto,
         \/ Bind \/ StunEnds \/ StunEof \/ Answer \/ SendAddr \/ SendAgain \/ Take \/ Drop
  PROVE  NatInv'
<1>a. NatTypeOK
  BY Zenon DEF NatInv
<1>b. /\ UNCHANGED <<proto, external, renewal, due, gateway, held, missed>> /\ (open' => open)
      /\ stun' \in {"recv", "send", "map", "again"} => inner' # 0
      /\ stun' \in {"send", "map", "again"} => addr' # 0
  <2>1. 0 \notin Ports
    BY NatAssumption, Zenon
  <2>2. CASE Bind
    BY <2>1, <2>2, NatAssumption, Zenon DEF Bind
  <2>3. CASE Answer
    BY <2>1, <2>3, <1>a, NatAssumption, Zenon DEF Answer, NatInv, NatTypeOK
  <2>4. CASE StunEnds \/ StunEof
    BY <2>4 DEF StunEnds, StunEof, NatInv
  <2>5. CASE SendAddr \/ SendAgain
    BY <2>5 DEF SendAddr, SendAgain, NatInv
  <2>6. CASE Take \/ Drop
    BY <2>6, Zenon DEF Take, Drop, NatInv
  <2>7. QED
    BY <2>2, <2>3, <2>4, <2>5, <2>6, Zenon
<1>1. chan' \in {<<>>} \cup {<<p>> : p \in Ports}
  <2>1. chan' = chan \/ chan' = <<>> \/ (chan' = <<addr>> /\ (SendAddr \/ SendAgain))
    BY Zenon DEF Bind, StunEnds, StunEof, Answer, SendAddr, SendAgain, Take, Drop
  <2>2. (SendAddr \/ SendAgain) => addr \in Ports
    BY <1>a, Zenon DEF SendAddr, SendAgain, NatInv, NatTypeOK
  <2>3. QED
    BY <2>1, <2>2, <1>a, Zenon DEF NatTypeOK
<1>2. /\ stun' \in {"start", "recv", "send", "map", "again", "spin", "ended"}
      /\ open' \in BOOLEAN /\ faults' = faults
  BY <1>a, Zenon DEF NatTypeOK, Bind, StunEnds, StunEof, Answer, SendAddr, SendAgain, Take, Drop
<1>3. addr' \in Ports \cup {0} /\ inner' \in InnerPorts \cup {0} /\ answers' \in 0 .. MaxAnswers
  <2>1. CASE Answer
    BY <2>1, <1>a, NatAssumption DEF Answer, NatInv, NatTypeOK
  <2>2. CASE Bind
    BY <2>2, <1>a, Zenon DEF Bind, NatTypeOK
  <2>3. CASE UNCHANGED <<addr, inner, answers>>
    BY <2>3, <1>a, Zenon DEF NatTypeOK
  <2>4. QED
    BY <2>1, <2>2, <2>3, Zenon DEF StunEnds, StunEof, SendAddr, SendAgain, Take, Drop
<1>4. taken' \in Ports \cup {0}
  <2>1. CASE Take
    BY <2>1, <1>a DEF Take, NatTypeOK
  <2>2. CASE taken' = taken
    BY <2>2, <1>a, Zenon DEF NatTypeOK
  <2>3. QED
    BY <2>1, <2>2, Zenon DEF Bind, StunEnds, StunEof, Answer, SendAddr, SendAgain, Drop
<1>5. NatTypeOK'
  BY <1>a, <1>b, <1>1, <1>2, <1>3, <1>4, Zenon DEF NatTypeOK
<1>6. QED
  BY <1>b, <1>5, NatFrame, Zenon

\* A port is mapped: it is the one recorded, for longer than the next renewal is away.
LEMMA MapStep ==
  ASSUME NatInv, NEW p \in Ports, NEW r \in add_port(p), Called(r, p),
         UNCHANGED <<proto, addr, answers, inner, chan, taken, open, renewal>>,
         external' = p \/ (proto = "TCP" /\ external' = external),
         due' \in {due, Period},
         stun' = stun \/ stun' \in {"recv", "ended"} \/ (stun' = "again" /\ addr # 0),
         stun' # stun => stun = "map"
  PROVE  NatInv'
<1>a. NatTypeOK
  BY Zenon DEF NatInv
<1>1. /\ r.ok \in BOOLEAN /\ r.g \in [Slots -> Mapping]
      /\ faults + r.fault \in 0 .. MaxFaults
      /\ proto = "UDP" /\ r.ok
           => r.g[<<"UDP", p>>].owner = "ours" /\ r.g[<<"UDP", p>>].left = Duration
  BY <1>a, AddPort, Zenon
<1>2. gateway' = r.g /\ faults' = faults + r.fault /\ held' = p /\ (missed' = ~ r.ok)
  BY Zenon DEF Called
<1>3. due' \in 0 .. Period /\ due' < Duration
  BY <1>a, LeaseOutlastsPeriod, NatAssumption DEF NatTypeOK
<1>4. missed' \in BOOLEAN
  BY <1>1, <1>2, Zenon
<1>5. external' \in Ports \cup {0} /\ stun' \in {"start", "recv", "send", "map", "again", "spin", "ended"}
  BY <1>a, Zenon DEF NatTypeOK
<1>6. NatTypeOK'
  BY <1>a, <1>1, <1>2, <1>3, <1>4, <1>5, Zenon DEF NatTypeOK
<1>7. /\ stun' \in {"recv", "send", "map", "again"} => inner' # 0
      /\ stun' \in {"send", "map", "again"} => addr' # 0
      /\ (open => renewal = "run")' /\ (proto = "UDP" => held = external)'
  BY <1>2, Zenon DEF NatInv
<1>8. ASSUME proto' = "UDP", ~ missed'
      PROVE  MappedTo(held)' /\ gateway'[<<proto', held'>>].left > due'
  <2>1. r.ok /\ proto = "UDP"
    BY <1>8, <1>1, <1>2, Zenon
  <2>2. gateway'[<<proto', held'>>].owner = "ours" /\ gateway'[<<proto', held'>>].left = Duration
    BY <2>1, <1>1, <1>2, Zenon
  <2>3. QED
    BY <2>2, <1>3, NatAssumption, LeaseOutlastsPeriod, Zenon DEF MappedTo
<1>9. QED
  BY <1>6, <1>7, <1>8, Zenon DEF NatInv

\* The calls of the STUN task and of the renewals.
LEMMA CallStep ==
  ASSUME NatInv, UNCHANGED proto, set_external_port \/ MapTcp \/ Renew \/ RenewTimeout \/ RenewalEnds
  PROVE  NatInv'
<1>a. NatTypeOK /\ 0 \notin Ports
  BY NatAssumption, Zenon DEF NatInv
<1>b. external # 0 => external \in Ports
  BY <1>a, Zenon DEF NatTypeOK
<1>c. stun = "map" => addr \in Ports /\ addr # 0
  BY <1>a, Zenon DEF NatInv, NatTypeOK
<1>1. CASE set_external_port
  <2>1. CASE external # addr
    <3>1. PICK r \in add_port(addr) : Called(r, addr)
      BY <1>1, <2>1, Zenon DEF set_external_port
    <3>2. QED
      BY <1>1, <1>c, <3>1, MapStep, Zenon DEF set_external_port
  <2>2. CASE external = addr
    <3>1. /\ UNCHANGED <<gateway, faults, held, missed, addr, answers, inner, chan, taken, open,
                         renewal, due>>
          /\ external' = external /\ stun' = "again" /\ stun = "map"
      BY <1>1, <2>2, Zenon DEF set_external_port
    <3>2. NatTypeOK'
      BY <3>1, <1>a DEF NatTypeOK
    <3>3. QED
      BY <3>1, <3>2, <1>c, NatFrame, Zenon DEF NatInv
  <2>3. QED
    BY <2>1, <2>2, Zenon
<1>2. CASE MapTcp
  <2>1. PICK r \in add_port(addr) :
          Called(r, addr) /\ stun' = IF r.ok THEN "recv" ELSE "ended"
    BY <1>2, Zenon DEF MapTcp
  <2>2. stun' \in {"recv", "ended"}
    BY <2>1, Zenon
  <2>3. QED
    BY <1>2, <1>c, <2>1, <2>2, MapStep, Zenon DEF MapTcp
<1>3. CASE Renew /\ external # 0
  <2>1. PICK r \in add_port(external) : Called(r, external)
    BY <1>3, Zenon DEF Renew
  <2>2. QED
    BY <1>3, <1>b, <2>1, MapStep, Zenon DEF Renew, stunTask
<1>4. CASE Renew /\ external = 0
  <2>1. /\ UNCHANGED <<stunTask, taken, open, renewal, gateway, faults, held, missed>>
        /\ due' = Period
    BY <1>4, Zenon DEF Renew
  <2>2. NatTypeOK'
    BY <2>1, <1>a, LeaseOutlastsPeriod DEF NatTypeOK, stunTask
  <2>3. QED
    BY <1>4, <2>1, <2>2, Zenon DEF NatInv, stunTask
<1>5. CASE RenewTimeout
  <2>1. /\ UNCHANGED <<stunTask, taken, open, renewal, gateway, faults, held>>
        /\ due' = Period /\ missed' = (missed \/ external # 0)
    BY <1>5, Zenon DEF RenewTimeout
  <2>2. missed' \in BOOLEAN
    BY <2>1, Zenon
  <2>3. NatTypeOK'
    BY <2>1, <2>2, <1>a, LeaseOutlastsPeriod DEF NatTypeOK, stunTask
  <2>4. ~ missed' => external = 0
    BY <2>1, Zenon
  <2>5. QED
    BY <2>1, <2>3, <2>4, Zenon DEF NatInv, stunTask
<1>6. CASE RenewalEnds
  <2>1. /\ UNCHANGED <<stunTask, taken, open, due, gateway, faults, held, missed>>
        /\ renewal' = "ended" /\ ~ open
    BY <1>6, Zenon DEF RenewalEnds
  <2>2. NatTypeOK'
    BY <2>1, <1>a DEF NatTypeOK, stunTask
  <2>3. QED
    BY <2>1, <2>2, Zenon DEF NatInv, stunTask
<1>7. QED
  BY <1>1, <1>2, <1>3, <1>4, <1>5, <1>6, Zenon

\* Another host maps or gives up a port, or time passes: the lease of the port
\* that is kept gets shorter only as the next renewal gets nearer.
LEMMA EnvironmentStep ==
  ASSUME NatInv, UNCHANGED proto, Time \/ (\E s \in Slots : OtherHost(s))
  PROVE  NatInv'
<1>a. NatTypeOK
  BY Zenon DEF NatInv
<1>b. /\ gateway \in [Slots -> Mapping] /\ due \in 0 .. Period /\ Period \in Nat /\ Duration \in Nat
      /\ held \in Ports \cup {0} /\ proto \in {"UDP", "TCP"}
  BY <1>a, LeaseOutlastsPeriod, NatAssumption, Zenon DEF NatTypeOK
<1>c. UNCHANGED <<stunTask, taken, open, renewal, faults, held, missed>>
  BY Zenon DEF Time, OtherHost
<1>d. Free \in Mapping /\ Foreign \in Mapping
  BY <1>b DEF Free, Foreign, Mapping
<1>e. held # 0 => <<proto, held>> \in Slots
  BY <1>b, Zenon DEF Slots
<1>1. CASE Time
  <2>1. gateway' = [s \in Slots |->
          IF gateway[s].owner # "ours" \/ gateway[s].left = 0 THEN gateway[s]
          ELSE IF gateway[s].left = 1 THEN Free
          ELSE [gateway[s] EXCEPT !.left = @ - 1]]
    BY <1>1, Zenon DEF Time
  <2>2. due' \in 0 .. Period /\ (renewal = "run" => due > 0 /\ due' = due - 1)
    BY <1>1, <1>b DEF Time
  <2>3. ASSUME NEW s \in Slots, gateway[s].left \notin {0, 1}
        PROVE  [gateway[s] EXCEPT !.left = @ - 1] \in Mapping
    BY <2>3, <1>b DEF Mapping
  <2>4. gateway' \in [Slots -> Mapping]
    BY <2>1, <2>3, <1>b, <1>d, Zenon
  <2>5. NatTypeOK'
    BY <1>a, <1>c, <2>2, <2>4 DEF NatTypeOK, stunTask
  <2>6. ASSUME proto' = "UDP", held' # 0, open', ~ missed'
        PROVE  MappedTo(held)' /\ gateway'[<<proto', held'>>].left > due'
    <3> DEFINE m == gateway[<<proto, held>>]
    <3>1. m.owner = "ours" /\ m.left > due /\ renewal = "run" /\ m \in Mapping
      <4>1. held # 0 /\ open /\ ~ missed /\ proto = "UDP"
        BY <2>6, <1>c, Zenon
      <4>2. MappedTo(held) /\ m.left > due /\ renewal = "run"
        BY <4>1, Zenon DEF NatInv
      <4>3. QED
        BY <4>1, <4>2, <1>b, <1>e, Zenon DEF MappedTo
    <3>2. due > 0 /\ due' = due - 1 /\ m.left \in 0 .. Duration
      BY <3>1, <2>2, Zenon DEF Mapping
    <3>3. m.left \notin {0, 1}
      BY <3>1, <3>2, <1>b
    <3>4. gateway'[<<proto, held>>] = [m EXCEPT !.left = @ - 1]
      BY <2>1, <2>6, <1>c, <1>e, <3>1, <3>3, Zenon
    <3> HIDE DEF m
    <3>5. [m EXCEPT !.left = @ - 1].owner = "ours" /\ [m EXCEPT !.left = @ - 1].left = m.left - 1
      BY <3>1, Zenon DEF Mapping
    <3>6. QED
      <4>1. gateway'[<<proto', held'>>] = [m EXCEPT !.left = @ - 1]
        BY <3>4, <1>c, Zenon
      <4>2. m.left - 1 > due'
        BY <3>1, <3>2, <1>b
      <4>3. QED
        BY <3>5, <4>1, <4>2, Zenon DEF MappedTo
  <2>7. QED
    BY <2>5, <2>6, <1>c, Zenon DEF NatInv, stunTask
<1>2. ASSUME NEW s \in Slots, OtherHost(s) PROVE NatInv'
  <2>1. /\ gateway[s].owner # "ours" /\ due' = due
        /\ gateway' = [gateway EXCEPT ![s] = IF @ = Free THEN Foreign ELSE Free]
    BY <1>2, Zenon DEF OtherHost
  <2>2. gateway' \in [Slots -> Mapping]
    BY <2>1, <1>b, <1>d, Zenon
  <2>3. NatTypeOK'
    BY <1>a, <1>c, <2>1, <2>2 DEF NatTypeOK, stunTask
  <2>4. held # 0 /\ MappedTo(held) => gateway'[<<proto, held>>] = gateway[<<proto, held>>]
    BY <2>1, <1>b, <1>e, Zenon DEF MappedTo
  <2>5. QED
    BY <2>1, <2>3, <2>4, <1>c, Zenon DEF NatInv, MappedTo, stunTask
<1>3. QED
  BY <1>1, <1>2, Zenon

\* The invariant holds for any duration, any answers of the STUN server and any
\* order of the tasks.
THEOREM NatInvariant == NatSpec => []NatInv
<1>1. ASSUME NatInit PROVE NatInv
  <2>1. Free \in Mapping
    BY NatAssumption DEF Free, Mapping
  <2>2. gateway \in [Slots -> Mapping]
    BY <1>1, <2>1, Zenon DEF NatInit
  <2>3. NatTypeOK
    <3>1. due \in 0 .. Period /\ answers \in 0 .. MaxAnswers /\ faults \in 0 .. MaxFaults
      BY <1>1, LeaseOutlastsPeriod, NatAssumption DEF NatInit
    <3>2. open \in BOOLEAN /\ missed \in BOOLEAN /\ chan \in {<<>>} \cup {<<p>> : p \in Ports}
      BY <1>1, Zenon DEF NatInit
    <3>3. QED
      BY <1>1, <2>2, <3>1, <3>2, Zenon DEF NatInit, NatTypeOK
  <2>4. QED
    BY <1>1, <2>3, Zenon DEF NatInit, NatInv
<1>2. ASSUME NatInv, [NatNext]_natVars PROVE NatInv'
  <2>1. CASE UNCHANGED natVars
    BY <1>2, <2>1 DEF natVars, natState, stunTask, NatInv, NatTypeOK, MappedTo
  <2>2. CASE NatNext
    BY <1>2, <2>2, StunStep, CallStep, EnvironmentStep, Zenon DEF NatNext, NatStep
  <2>3. QED
    BY <1>2, <2>1, <2>2, Zenon
<1>3. QED
  BY <1>1, <1>2, PTL DEF NatSpec

\* A UDP port that was mapped stays mapped from one renewal to the next (nat2/mod.rs:
\* the renewals come ten seconds before the lease ends).
THEOREM PortsAreKept == NatSpec => []Kept
<1>1. NatInv => Kept
  BY Zenon DEF NatInv, Kept
<1>2. QED
  BY <1>1, NatInvariant, PTL

-----------------------------------------------------------------------------
\* The extra transport

\* The forwarders started are counted by the number of the last.
LEMMA Count ==
  ASSUME NEW k \in Nat, Started = 1 .. k
  PROVE  Cardinality(Started) = k
BY FS_Interval

\* An address is found: there is room for its forwarder.
LEMMA FoundStep ==
  ASSUME ForwarderInv, NEW p \in Addrs, Found(p)
  PROVE  ForwarderInv'
<1>a. ForwarderTypes
  BY Zenon DEF ForwarderInv
<1>b. /\ found < MaxAddrs /\ addrs' = <<p>> /\ found' = found + 1
      /\ UNCHANGED <<transport, fport, task, fwd, holding>>
  BY Zenon DEF Found, fwds
<1>c. PICK k \in 0 .. found :
        /\ Started = 1 .. k
        /\ transport = "spawned" => Running \subseteq {fwd, k} /\ k # 0
  BY Zenon DEF ForwarderInv
<1>1. found \in Nat /\ MaxAddrs \in Nat
  BY <1>a, ExtraAssumption DEF ForwarderTypes
<1>2. found' \in 0 .. MaxAddrs /\ k \in 0 .. found' /\ k < found'
  BY <1>b, <1>c, <1>1
<1>3. Started' = Started /\ Running' = Running
  BY <1>b, Zenon DEF Started, Running
<1>4. ForwarderTypes'
  BY <1>a, <1>b, <1>2, Zenon DEF ForwarderTypes
<1>5. QED
  BY <1>b, <1>c, <1>2, <1>3, <1>4, Zenon DEF ForwarderInv

\* A forwarder is started next to the one that runs.
LEMMA SpawnStep ==
  ASSUME ForwarderInv, Spawn
  PROVE  ForwarderInv'
<1>a. ForwarderTypes
  BY Zenon DEF ForwarderInv
<1>b. PICK k \in 0 .. found : Started = 1 .. k /\ (addrs # <<>> => k < found)
  BY Zenon DEF ForwarderInv
<1>c. found \in 0 .. MaxAddrs /\ MaxAddrs \in Nat /\ k \in Nat
  BY <1>a, <1>b, ExtraAssumption DEF ForwarderTypes
<1>d. /\ transport = "run" /\ addrs # <<>>
      /\ fport' = [fport EXCEPT ![k + 1] = Head(addrs)]
      /\ task' = [task EXCEPT ![k + 1] = "running"]
      /\ addrs' = <<>> /\ transport' = "spawned"
      /\ UNCHANGED <<found, fwd, holding>>
  BY <1>b, <1>c, Count, Zenon DEF Spawn
<1>1. k + 1 \in Forwarders /\ k + 1 \in 0 .. found
  BY <1>b, <1>c, <1>d DEF Forwarders
<1>2. Head(addrs) \in Addrs /\ Head(addrs) # 0
  <2>1. PICK p \in Addrs : addrs = <<p>>
    BY <1>a, <1>d, Zenon DEF ForwarderTypes
  <2>2. QED
    BY <2>1, ExtraAssumption
<1>3. ForwarderTypes'
  <2>1. fport' \in [Forwarders -> Addrs \cup {0}]
    BY <1>a, <1>d, <1>2, Zenon DEF ForwarderTypes
  <2>2. task' \in [Forwarders -> {"none", "running", "cancelled", "ended", "failed"}]
    BY <1>a, <1>d, Zenon DEF ForwarderTypes
  <2>3. QED
    BY <1>a, <1>d, <2>1, <2>2, Zenon DEF ForwarderTypes
<1>4. Started' = 1 .. (k + 1)
  <2>1. Started' = Started \cup {k + 1}
    BY <1>a, <1>d, <1>1, <1>2, Zenon DEF Started, ForwarderTypes
  <2>2. QED
    BY <2>1, <1>b, <1>c
<1>5. Running' \subseteq {fwd', k + 1} /\ k + 1 # 0
  <2>1. Running \subseteq {fwd}
    BY <1>d, Zenon DEF ForwarderInv
  <2>2. Running' \subseteq Running \cup {k + 1}
    BY <1>a, <1>d, Zenon DEF Running, ForwarderTypes
  <2>3. QED
    BY <2>1, <2>2, <1>c, <1>d
<1>6. QED
  BY <1>1, <1>3, <1>4, <1>5, <1>d, Zenon DEF ForwarderInv

\* A forwarder that is dropped does not run on.
LEMMA DroppedTask ==
  ASSUME ForwarderTypes, task' = Dropped(fwd)
  PROVE  /\ task' \in [Forwarders -> {"none", "running", "cancelled", "ended", "failed"}]
         /\ Running' = Running \ {fwd}
<1>1. ASSUME fwd # 0, task[fwd] = "running"
      PROVE  /\ task' \in [Forwarders -> {"none", "running", "cancelled", "ended", "failed"}]
             /\ Running' = Running \ {fwd}
  BY <1>1, Zenon DEF Dropped, Running, ForwarderTypes
<1>2. ASSUME fwd = 0 \/ task[fwd] # "running" PROVE task' = task /\ fwd \notin Running
  <2>1. 0 \notin Forwarders
    BY DEF Forwarders
  <2>2. QED
    BY <1>2, <2>1, Zenon DEF Dropped, Running
<1>3. QED
  BY <1>1, <1>2 DEF Running, ForwarderTypes

\* The new forwarder takes the place of the old one, or none does.
LEMMA ReplaceStep ==
  ASSUME ForwarderInv, Replace \/ SpawnFails
  PROVE  ForwarderInv'
<1>a. ForwarderTypes
  BY Zenon DEF ForwarderInv
<1>b. PICK k \in 0 .. found :
        /\ Started = 1 .. k
        /\ addrs # <<>> => k < found
        /\ transport = "spawned" => Running \subseteq {fwd, k} /\ k # 0
  BY Zenon DEF ForwarderInv
<1>c. found \in 0 .. MaxAddrs /\ MaxAddrs \in Nat /\ k \in Nat
  BY <1>a, <1>b, ExtraAssumption DEF ForwarderTypes
<1>d. UNCHANGED <<found, fport, holding>> /\ task' = Dropped(fwd)
  BY Zenon DEF Replace, SpawnFails
<1>e. /\ task' \in [Forwarders -> {"none", "running", "cancelled", "ended", "failed"}]
      /\ Running' = Running \ {fwd} /\ Started' = Started
  BY <1>a, <1>d, DroppedTask, Zenon DEF Started
<1>1. CASE Replace
  <2>1. transport = "spawned" /\ transport' = "run" /\ fwd' = k /\ addrs' = addrs
    BY <1>1, <1>b, <1>c, Count, Zenon DEF Replace
  <2>2. k \in Forwarders
    BY <2>1, <1>b, <1>c DEF Forwarders
  <2>3. ForwarderTypes'
    BY <1>a, <1>d, <1>e, <2>1, <2>2, Zenon DEF ForwarderTypes
  <2>4. Running' \subseteq {fwd'}
    BY <1>b, <1>e, <2>1, Zenon
  <2>5. QED
    BY <1>b, <1>d, <1>e, <2>1, <2>3, <2>4, Zenon DEF ForwarderInv
<1>2. CASE SpawnFails
  <2>1. /\ transport = "run" /\ transport' \in {"failing", "panicked"}
        /\ fwd' = 0 /\ addrs' = <<>>
    BY <1>2, Zenon DEF SpawnFails
  <2>2. ForwarderTypes'
    BY <1>a, <1>d, <1>e, <2>1, Zenon DEF ForwarderTypes
  <2>3. Running' = {}
    BY <1>e, <2>1, Zenon DEF ForwarderInv
  <2>4. QED
    BY <1>b, <1>d, <1>e, <2>1, <2>2, <2>3, Zenon DEF ForwarderInv
<1>3. QED
  BY <1>1, <1>2, Zenon

\* The other steps of the forwarders end some and start none.
LEMMA EndStep ==
  ASSUME ForwarderInv,
         \/ RecordFailure
         \/ \E i \in Forwarders : ForwarderEnds(i) \/ SocketFails(i) \/ Hold(i) \/ Release(i)
         \/ UNCHANGED <<addrs, found, transport, fwds>>
  PROVE  ForwarderInv'
<1>a. ForwarderTypes
  BY Zenon DEF ForwarderInv
<1>1. UNCHANGED <<addrs, found, fport, fwd>> /\ (transport' = transport \/ RecordFailure)
  BY Zenon DEF RecordFailure, ForwarderEnds, SocketFails, Hold, Release, fwds
<1>2. RecordFailure => transport = "failing" /\ transport' = "failed"
  BY Zenon DEF RecordFailure
<1>3. /\ task' \in [Forwarders -> {"none", "running", "cancelled", "ended", "failed"}]
      /\ Running' \subseteq Running
  BY <1>a, Zenon DEF RecordFailure, ForwarderEnds, SocketFails, Hold, Release, fwds, ForwarderTypes, Running
<1>4. holding' \in SUBSET Forwarders
  BY <1>a, Zenon DEF RecordFailure, ForwarderEnds, SocketFails, Hold, Release, fwds, ForwarderTypes
<1>5. ForwarderTypes' /\ Started' = Started
  BY <1>a, <1>1, <1>2, <1>3, <1>4, Zenon DEF ForwarderTypes, Started
<1>6. QED
  BY <1>1, <1>2, <1>3, <1>5, Zenon DEF ForwarderInv

\* Sequences grow by members of their sets.
LEMMA AppendType ==
  ASSUME NEW S, NEW q \in Seq(S), NEW e \in S
  PROVE  Append(q, e) \in Seq(S) /\ <<>> \in Seq(S) /\ Len(<<>>) = 0
OBVIOUS

\* An event is published: the bus holds no more than it has places for.
LEMMA PublishTypes ==
  ASSUME EventTypes, NEW e \in Addrs \cup {Noise}, Publish(e)
  PROVE  bus' \in Seq(Addrs \cup {Noise}) /\ Len(bus') <= BusSize /\ lagged' \in BOOLEAN
<1>a. bus \in Seq(Addrs \cup {Noise}) /\ Len(bus) <= BusSize /\ BusSize \in Nat \ {0}
  BY ExtraAssumption, Zenon DEF EventTypes
<1>1. lagged' \in BOOLEAN
  BY Zenon DEF Publish
<1>2. CASE bus' = bus
  BY <1>a, <1>1, <1>2, Zenon
<1>3. CASE bus' = Append(bus, e) /\ Len(bus) # BusSize
  BY <1>a, <1>1, <1>3
<1>4. CASE bus' = Append(Tail(bus), e) /\ Len(bus) = BusSize
  <2>1. Tail(bus) \in Seq(Addrs \cup {Noise}) /\ Len(Tail(bus)) = BusSize - 1
    BY <1>a, <1>4
  <2>2. QED
    BY <1>a, <1>1, <1>4, <2>1
<1>5. QED
  BY <1>2, <1>3, <1>4, Zenon DEF Publish

\* The event bus and its handler keep their types.
LEMMA EventStep ==
  ASSUME ForwarderInv, EventTypes, ExtraStep
  PROVE  EventTypes'
<1>1. CASE Replace
  <2>1. PICK k \in 0 .. found : Started = 1 .. k /\ (transport = "spawned" => k # 0)
    BY Zenon DEF ForwarderInv
  <2>2. ForwarderTypes /\ k \in Nat
    BY <2>1, ExtraAssumption DEF ForwarderInv, ForwarderTypes
  <2>3. k \in Started
    BY <1>1, <2>1, <2>2 DEF Replace
  <2>4. fport[k] \in Addrs
    BY <2>2, <2>3, Zenon DEF Started, ForwarderTypes
  <2>5. Publish(fport[k]) /\ UNCHANGED <<noise, handler, alive, status, late>>
    BY <1>1, <2>1, <2>2, Count, Zenon DEF Replace
  <2>6. QED
    BY <2>4, <2>5, PublishTypes, Zenon DEF EventTypes
<1>2. CASE OtherEvent
  <2>1. /\ Publish(Noise) /\ noise < MaxNoise /\ noise' = noise + 1
        /\ UNCHANGED <<handler, alive, status, late>>
    BY <1>2, Zenon DEF OtherEvent
  <2>2. noise' \in 0 .. MaxNoise
    BY <2>1, ExtraAssumption DEF EventTypes
  <2>3. QED
    BY <2>1, <2>2, PublishTypes, Zenon DEF EventTypes
<1>3. CASE HandleEvent
  <2>1. /\ bus # <<>> /\ bus' = Tail(bus) /\ handler' = Head(bus)
        /\ status' = (IF Head(bus) = Noise THEN status ELSE Head(bus))
        /\ UNCHANGED <<lagged, noise, alive>>
    BY <1>3, Zenon DEF HandleEvent
  <2>2. late' \in BOOLEAN
    BY <1>3, Zenon DEF HandleEvent
  <2>3. Head(bus) \in Addrs \cup {0} /\ bus' \in Seq(Addrs \cup {Noise}) /\ Len(bus') <= BusSize
    <3>1. bus \in Seq(Addrs \cup {Noise}) /\ Len(bus) <= BusSize /\ BusSize \in Nat
      BY ExtraAssumption, Zenon DEF EventTypes
    <3>2. Head(bus) \in Addrs \cup {Noise} /\ Tail(bus) \in Seq(Addrs \cup {Noise})
          /\ Len(Tail(bus)) = Len(bus) - 1 /\ Len(bus) \in Nat
      BY <2>1, <3>1
    <3>3. QED
      BY <2>1, <3>1, <3>2 DEF Noise
  <2>4. QED
    BY <2>1, <2>2, <2>3, Zenon DEF EventTypes
<1>4. CASE HandlerEnds
  <2>1. /\ bus' = <<>> /\ alive' = FALSE /\ UNCHANGED <<lagged, noise, handler, status, late>>
    BY <1>4, Zenon DEF HandlerEnds
  <2>2. <<>> \in Seq(Addrs \cup {Noise}) /\ Len(<<>>) = 0
    OBVIOUS
  <2>3. bus' \in Seq(Addrs \cup {Noise}) /\ Len(bus') <= BusSize
    BY <2>1, <2>2, ExtraAssumption
  <2>4. QED
    BY <2>1, <2>3, Zenon DEF EventTypes
<1>5. CASE SendUpdate
  BY <1>5, Zenon DEF SendUpdate, EventTypes, fwds
<1>6. CASE RecordFailure
  BY <1>6, Zenon DEF RecordFailure, EventTypes, events
<1>7. CASE UNCHANGED <<events, status, late>>
  BY <1>7, Zenon DEF EventTypes, events
<1>8. QED
  BY <1>1, <1>2, <1>3, <1>4, <1>5, <1>6, <1>7, Zenon
     DEF ExtraStep, Found, Spawn, SpawnFails, ForwarderEnds, SocketFails, Hold, Release,
         ReadStatus, SendEnter, Serve, LinkBreaks, Reconnect

\* The link to the server and what it carries keep their types.
LEMMA LinkTypesStep ==
  ASSUME EventTypes, LinkTypes, ExtraStep
  PROVE  LinkTypes'
<1> DEFINE Messages == {"update", "enter"} \X (Addrs \cup {0})
<1>a. wire \in Seq(Messages) /\ handler \in Addrs \cup {0} /\ status \in Addrs \cup {0}
  BY Zenon DEF LinkTypes, EventTypes
<1>1. CASE SendUpdate
  <2>1. UNCHANGED <<links, up, turn, enter, entered, known>> /\ overtaken' \in BOOLEAN
    BY <1>1, Zenon DEF SendUpdate
  <2>2. <<"update", handler>> \in Messages
    BY <1>a, Zenon
  <2>3. wire' = wire \/ wire' = Append(wire, <<"update", handler>>)
    BY <1>1, Zenon DEF SendUpdate
  <2>4. wire' \in Seq(Messages)
    <3> HIDE DEF Messages
    <3>1. QED
      BY <1>a, <2>2, <2>3, AppendType, Zenon
  <2>5. QED
    BY <2>1, <2>4, Zenon DEF LinkTypes
<1>2. CASE ReadStatus
  BY <1>2, <1>a, Zenon DEF ReadStatus, LinkTypes
<1>3. CASE SendEnter
  <2>1. UNCHANGED <<links, up, enter, entered, known, overtaken>> /\ turn' \in {"idle", "ended"}
    BY <1>3, Zenon DEF SendEnter
  <2>2. <<"enter", enter>> \in Messages
    BY Zenon DEF LinkTypes
  <2>3. wire' = wire \/ wire' = Append(wire, <<"enter", enter>>)
    BY <1>3, Zenon DEF SendEnter
  <2>4. wire' \in Seq(Messages)
    <3> HIDE DEF Messages
    <3>1. QED
      BY <1>a, <2>2, <2>3, AppendType, Zenon
  <2>5. QED
    BY <2>1, <2>4, Zenon DEF LinkTypes
<1>4. CASE Serve
  <2>1. Head(wire) \in Messages /\ Tail(wire) \in Seq(Messages)
    <3>1. wire # <<>>
      BY <1>4, Zenon DEF Serve
    <3> HIDE DEF Messages
    <3>2. QED
      BY <1>a, <3>1
  <2>2. known' \in Addrs \cup {0} /\ entered' \in BOOLEAN
    <3>1. Head(wire)[2] \in Addrs \cup {0}
      BY <2>1, Zenon
    <3>2. known' = known \/ known' = Head(wire)[2]
      BY <1>4, Zenon DEF Serve
    <3>3. entered' \in BOOLEAN
      BY <1>4, Zenon DEF Serve
    <3>4. QED
      BY <3>1, <3>2, <3>3, Zenon DEF LinkTypes
  <2>3. UNCHANGED <<links, up, turn, enter, overtaken>> /\ wire' = Tail(wire)
    BY <1>4, Zenon DEF Serve
  <2>4. QED
    BY <2>1, <2>2, <2>3, Zenon DEF LinkTypes
<1>5. CASE LinkBreaks
  <2>1. <<>> \in Seq(Messages)
    OBVIOUS
  <2>2. QED
    BY <1>5, <2>1, Zenon DEF LinkBreaks, LinkTypes
<1>6. CASE Reconnect
  BY <1>6, ExtraAssumption DEF Reconnect, LinkTypes
<1>7. CASE HandleEvent
  <2>1. UNCHANGED server /\ overtaken' \in BOOLEAN
    BY <1>7, Zenon DEF HandleEvent
  <2>2. QED
    BY <2>1, Zenon DEF LinkTypes, server
<1>8. CASE UNCHANGED <<server, overtaken>>
  BY <1>8, Zenon DEF LinkTypes, server
<1>9. QED
  BY <1>1, <1>2, <1>3, <1>4, <1>5, <1>6, <1>7, <1>8, Zenon
     DEF ExtraStep, Found, Spawn, Replace, SpawnFails, RecordFailure, ForwarderEnds, SocketFails,
         Hold, Release, OtherEvent, HandlerEnds

\* Only a late event records an endpoint of a transport that has failed.
LEMMA FailureStep ==
  ASSUME EventTypes, FailureIsRecorded, ExtraStep
  PROVE  FailureIsRecorded'
<1>1. CASE RecordFailure
  BY <1>1, Zenon DEF RecordFailure, FailureIsRecorded
<1>2. CASE HandleEvent
  <2>1. /\ transport' = transport
        /\ Head(bus) = Noise => status' = status
        /\ late' = (late \/ (Head(bus) # Noise /\ transport \in {"failed", "panicked"}))
    BY <1>2, Zenon DEF HandleEvent
  <2>2. ASSUME transport = "failed", ~ late' PROVE Head(bus) = Noise /\ ~ late
    BY <2>1, <2>2, Zenon
  <2>3. QED
    BY <2>1, <2>2, Zenon DEF FailureIsRecorded
<1>3. CASE transport' \in {"run", "spawned", "failing", "panicked"}
  BY <1>3, Zenon DEF FailureIsRecorded
<1>4. CASE UNCHANGED <<transport, status, late>>
  BY <1>4, Zenon DEF FailureIsRecorded
<1>5. QED
  BY <1>1, <1>2, <1>3, <1>4, Zenon
     DEF ExtraStep, Found, Spawn, Replace, SpawnFails, ForwarderEnds, SocketFails, Hold, Release,
         OtherEvent, HandlerEnds, SendUpdate, ReadStatus, SendEnter, Serve, LinkBreaks, Reconnect

\* The invariant holds for any ports, any size of the bus and any order of the
\* tasks.
THEOREM ExtraInvariant == ExtraSpec => []ExtraInv
<1>1. ASSUME ExtraInit PROVE ExtraInv
  <2>1. Started = {} /\ Running = {}
    BY <1>1, Zenon DEF ExtraInit, Started, Running
  <2>2. ForwarderTypes
    BY <1>1, ExtraAssumption DEF ExtraInit, ForwarderTypes
  <2>3. ForwarderInv
    <3>1. Started = 1 .. 0 /\ 0 \in 0 .. found
      BY <1>1, <2>1 DEF ExtraInit
    <3>2. QED
      BY <1>1, <2>1, <2>2, <3>1, Zenon DEF ExtraInit, ForwarderInv
  <2>4. EventTypes
    <3>1. <<>> \in Seq(Addrs \cup {Noise}) /\ Len(<<>>) = 0
      OBVIOUS
    <3>2. bus \in Seq(Addrs \cup {Noise}) /\ Len(bus) <= BusSize
      BY <1>1, <3>1, ExtraAssumption DEF ExtraInit
    <3>3. noise \in 0 .. MaxNoise
      BY <1>1, ExtraAssumption DEF ExtraInit
    <3>4. QED
      BY <1>1, <3>2, <3>3, Zenon DEF ExtraInit, EventTypes
  <2>5. LinkTypes
    <3>1. wire \in Seq({"update", "enter"} \X (Addrs \cup {0}))
      BY <1>1 DEF ExtraInit
    <3>2. links \in 1 .. MaxLinks
      BY <1>1, ExtraAssumption DEF ExtraInit
    <3>3. QED
      BY <1>1, <3>1, <3>2, Zenon DEF ExtraInit, LinkTypes
  <2>6. QED
    BY <1>1, <2>3, <2>4, <2>5, Zenon DEF ExtraInit, ExtraInv, FailureIsRecorded
<1>2. ASSUME ExtraInv, [ExtraNext]_extraVars PROVE ExtraInv'
  <2>1. CASE UNCHANGED extraVars
    <3>1. /\ UNCHANGED <<addrs, found, transport, fwds>> /\ UNCHANGED <<events, status, late>>
          /\ UNCHANGED <<server, overtaken>>
      BY <2>1, Zenon DEF extraVars, extraState
    <3>2. ForwarderInv'
      BY <1>2, <3>1, EndStep, Zenon DEF ExtraInv
    <3>3. QED
      BY <1>2, <3>1, <3>2 DEF ExtraInv, EventTypes, LinkTypes, FailureIsRecorded, events, server
  <2>2. CASE ExtraStep
    <3>1. ForwarderInv'
      BY <1>2, <2>2, FoundStep, SpawnStep, ReplaceStep, EndStep, Zenon
         DEF ExtraInv, ExtraStep, OtherEvent, HandleEvent, HandlerEnds, SendUpdate, ReadStatus,
             SendEnter, Serve, LinkBreaks, Reconnect
    <3>2. QED
      BY <1>2, <2>2, <3>1, EventStep, LinkTypesStep, FailureStep, Zenon DEF ExtraInv
  <2>3. QED
    BY <1>2, <2>1, <2>2, Zenon DEF ExtraNext
<1>3. QED
  BY <1>1, <1>2, PTL DEF ExtraSpec

\* Two forwarders run only while one replaces the other, none runs without its
\* transport, and the endpoint of a transport that failed is not kept.
THEOREM TransportsLeaveNothing == ExtraSpec => []NothingLeftBehind
<1>1. ASSUME ExtraInv PROVE NothingLeftBehind
  <2>1. ASSUME NEW a, NEW b, Running \subseteq {a, b}
        PROVE  Cardinality(Running) <= 2
    <3>1. IsFiniteSet({a, b}) /\ Cardinality({a, b}) <= 2
      <4>1. IsFiniteSet({a}) /\ Cardinality({a}) = 1
        BY FS_Singleton, Zenon
      <4>2. /\ IsFiniteSet({a} \cup {b})
            /\ Cardinality({a} \cup {b}) = 1 \/ Cardinality({a} \cup {b}) = 2
        BY <4>1, FS_AddElement
      <4>3. {a} \cup {b} = {a, b}
        BY Zenon
      <4>4. QED
        BY <4>2, <4>3
    <3>2. QED
      BY <2>1, <3>1, FS_Subset, FS_CardinalityType
  <2>2. ASSUME NEW a, Running \subseteq {a} PROVE Cardinality(Running) <= 1
    <3>1. IsFiniteSet({a}) /\ Cardinality({a}) = 1
      BY FS_Singleton, Zenon
    <3>2. QED
      BY <2>2, <3>1, FS_Subset, FS_CardinalityType, Zenon
  <2>3. OneForwarder
    BY <1>1, <2>1, <2>2, Zenon DEF ExtraInv, ForwarderInv, OneForwarder
  <2>4. QED
    BY <1>1, <2>3, Zenon DEF ExtraInv, ForwarderInv, NothingLeftBehind, ExtraTypeOK
<1>2. QED
  BY <1>1, ExtraInvariant, PTL

-----------------------------------------------------------------------------
\* The sockets and the packets of a device

\* What a channel holds, with a packet more and with its first one taken.
LEMMA InChannel ==
  ASSUME NEW S, NEW s \in Seq(S), NEW d \in S
  PROVE  /\ Append(s, d) \in Seq(S) /\ Range(Append(s, d)) = Range(s) \cup {d}
         /\ Range(s) \subseteq S
<1>1. DOMAIN Append(s, d) = 1 .. Len(s) + 1 /\ DOMAIN s = 1 .. Len(s) /\ Len(s) \in Nat
  OBVIOUS
<1>2. \A i \in DOMAIN s : i \in DOMAIN Append(s, d) /\ Append(s, d)[i] = s[i]
  BY <1>1
<1>3. Len(s) + 1 \in DOMAIN Append(s, d) /\ Append(s, d)[Len(s) + 1] = d
  BY <1>1
<1>4. \A i \in DOMAIN Append(s, d) : i \in DOMAIN s \/ i = Len(s) + 1
  BY <1>1
<1>5. QED
  BY <1>2, <1>3, <1>4 DEF Range

LEMMA OutOfChannel ==
  ASSUME NEW S, NEW s \in Seq(S), s # <<>>
  PROVE  /\ Head(s) \in S /\ Head(s) \in Range(s) /\ Tail(s) \in Seq(S)
         /\ Range(s) = Range(Tail(s)) \cup {Head(s)}
<1>1. DOMAIN Tail(s) = 1 .. Len(s) - 1 /\ DOMAIN s = 1 .. Len(s) /\ Len(s) \in Nat \ {0}
  OBVIOUS
<1>2. 1 \in DOMAIN s /\ Head(s) = s[1] /\ Head(s) \in S /\ Tail(s) \in Seq(S)
  BY <1>1
<1>3. \A i \in DOMAIN Tail(s) : i + 1 \in DOMAIN s /\ Tail(s)[i] = s[i + 1]
  BY <1>1
<1>4. \A i \in DOMAIN s : i = 1 \/ (i - 1 \in DOMAIN Tail(s) /\ Tail(s)[i - 1] = s[i])
  <2> SUFFICES ASSUME NEW i \in DOMAIN s, i # 1
               PROVE  i - 1 \in DOMAIN Tail(s) /\ Tail(s)[i - 1] = s[i]
    BY Zenon
  <2>1. i - 1 \in DOMAIN Tail(s) /\ (i - 1) + 1 = i
    BY <1>1
  <2>2. QED
    BY <2>1, <1>3, Zenon
<1>5. Range(Tail(s)) \subseteq Range(s)
  BY <1>3, Zenon DEF Range
<1>6. Range(s) \subseteq Range(Tail(s)) \cup {Head(s)}
  <2> SUFFICES ASSUME NEW i \in DOMAIN s, s[i] # Head(s) PROVE s[i] \in Range(Tail(s))
    BY Zenon DEF Range
  <2>1. i - 1 \in DOMAIN Tail(s) /\ Tail(s)[i - 1] = s[i]
    BY <1>2, <1>4, Zenon
  <2>2. QED
    BY <2>1, Zenon DEF Range
<1>7. Head(s) \in Range(s)
  BY <1>2, Zenon DEF Range
<1>8. QED
  BY <1>2, <1>5, <1>6, <1>7, Zenon

LEMMA InPlace == Range(<<>>) = {} /\ \A d : Range(<<d>>) = {d} /\ Head(<<d>>) = d
BY DEF Range

\* Numbers of packets, and a channel to which nothing is added.
LEMMA LessThanNext == \A m, n \in Nat : 0 <= n /\ (m <= n => m <= n + 1)
OBVIOUS

LEMMA NothingMore ==
  ASSUME NEW S, NEW s \in Seq(S)
  PROVE  s \o <<>> = s
OBVIOUS

LEMMA OneMore ==
  ASSUME NEW S, NEW s \in Seq(S), NEW d \in S
  PROVE  s \o <<d>> = Append(s, d)
OBVIOUS

\* Fewer packets are in order too, and what is left of a packet that was cut to
\* no bytes is for nobody.
LEMMA AheadOfFewer ==
  ASSUME NEW S, NEW T, Ahead(S, T), NEW V, NEW W,
         V \subseteq S \cup {Empty}, W \subseteq T \cup {Empty}
  PROVE  Ahead(V, W)
<1>1. Empty.peer \notin Peers
  BY DeviceAssumption, Zenon DEF Empty
<1>2. QED
  BY <1>1, Zenon DEF Ahead

LEMMA AheadOfBoth ==
  ASSUME NEW S, NEW T, NEW V
  PROVE  /\ Ahead(S \cup T, V) <=> Ahead(S, V) /\ Ahead(T, V)
         /\ Ahead(V, S \cup T) <=> Ahead(V, S) /\ Ahead(V, T)
         /\ Ahead({}, V) /\ Ahead(V, {})
BY Zenon DEF Ahead

\* A channel in order stays so with its first packet taken, which is ahead of the
\* others, and with one more behind all of it.
LEMMA OrderedLess ==
  ASSUME NEW S, NEW s \in Seq(S), s # <<>>, Ordered(s)
  PROVE  Ordered(Tail(s)) /\ Ahead({Head(s)}, Range(Tail(s)))
<1>1. /\ DOMAIN Tail(s) = 1 .. Len(s) - 1 /\ DOMAIN s = 1 .. Len(s) /\ Len(s) \in Nat \ {0}
      /\ Head(s) = s[1] /\ 1 \in DOMAIN s
  OBVIOUS
<1>2. \A i \in DOMAIN Tail(s) : i \in Nat \ {0} /\ i + 1 \in DOMAIN s /\ Tail(s)[i] = s[i + 1]
  BY <1>1
<1>3. ASSUME NEW i \in DOMAIN Tail(s), NEW j \in DOMAIN Tail(s), i < j
      PROVE  Ahead({Tail(s)[i]}, {Tail(s)[j]})
  <2>1. i + 1 < j + 1
    BY <1>2, <1>3
  <2>2. Ahead({s[i + 1]}, {s[j + 1]})
    BY <2>1, <1>2, Zenon DEF Ordered
  <2>3. QED
    BY <2>2, <1>2, Zenon
<1>4. ASSUME NEW j \in DOMAIN Tail(s) PROVE Ahead({Head(s)}, {Tail(s)[j]})
  <2>1. 1 < j + 1
    BY <1>2
  <2>2. Ahead({s[1]}, {s[j + 1]})
    BY <2>1, <1>1, <1>2, Zenon DEF Ordered
  <2>3. QED
    BY <2>2, <1>1, <1>2, Zenon
<1>5. QED
  BY <1>3, <1>4, Zenon DEF Ordered, Ahead, Range

LEMMA OrderedMore ==
  ASSUME NEW S, NEW s \in Seq(S), NEW d \in S, Ordered(s), Ahead(Range(s), {d})
  PROVE  Ordered(Append(s, d))
<1>1. DOMAIN Append(s, d) = 1 .. Len(s) + 1 /\ DOMAIN s = 1 .. Len(s) /\ Len(s) \in Nat
  OBVIOUS
<1>2. \A i \in DOMAIN s : Append(s, d)[i] = s[i]
  BY <1>1
<1>3. Append(s, d)[Len(s) + 1] = d
  BY <1>1
<1>4. SUFFICES ASSUME NEW i \in DOMAIN Append(s, d), NEW j \in DOMAIN Append(s, d), i < j
               PROVE  Ahead({Append(s, d)[i]}, {Append(s, d)[j]})
  BY Zenon DEF Ordered
<1>5. i \in DOMAIN s /\ (j \in DOMAIN s \/ j = Len(s) + 1)
  BY <1>1, <1>4
<1>6. CASE j \in DOMAIN s
  <2>1. Ahead({s[i]}, {s[j]})
    BY <1>4, <1>5, <1>6, Zenon DEF Ordered
  <2>2. QED
    BY <2>1, <1>2, <1>5, <1>6, Zenon
<1>7. CASE j = Len(s) + 1
  <2>1. s[i] \in Range(s)
    BY <1>5, Zenon DEF Range
  <2>2. Ahead({s[i]}, {d})
    BY <2>1, Zenon DEF Ahead
  <2>3. QED
    BY <2>2, <1>2, <1>3, <1>5, <1>7, Zenon
<1>8. QED
  BY <1>5, <1>6, <1>7, Zenon

\* A packet that is sent now was sent after the others.
LEMMA AheadOfNewest ==
  ASSUME NEW S, NEW e \in Packet, NEW k \in Nat, e.n = k + 1,
         \A d \in S : d.n \in Nat /\ d.n <= k
  PROVE  Ahead(S, {e})
BY DEF Ahead

-----------------------------------------------------------------------------
\* Every step keeps the types.
LEMMA DeviceTypes ==
  ASSUME DeviceTypeOK, [DeviceNext]_deviceVars
  PROVE  DeviceTypeOK'
<1>a. \A k \in 1 .. MaxData, f \in Sources, p \in Targets :
        [from |-> f, peer |-> p, n |-> k] \in Packet
  BY DeviceAssumption DEF Packet
<1>b. Empty \in Packet
  BY DeviceAssumption DEF Empty, Packet, Sources, Targets
<1>c. sent < MaxData => sent + 1 \in 1 .. MaxData /\ sent + 1 \in 0 .. MaxData
  BY DeviceAssumption DEF DeviceTypeOK
<1>d. <<>> \in Seq(Packet) /\ \A d \in Packet : <<d>> \in Seq(Packet)
  OBVIOUS
<1> HIDE DEF Packet
<1>1. CASE UNCHANGED deviceVars
  BY <1>1, Zenon DEF DeviceTypeOK, deviceVars, binding
<1>2. CASE Bind4
  BY <1>2, Zenon DEF DeviceTypeOK, Bind4, Again, Rest
<1>3. CASE Bind6
  BY <1>3, Zenon DEF DeviceTypeOK, Bind6, Again, Rest
<1>4. ASSUME NEW f \in {"v4", "v6"}, NEW p \in Targets, Send(f, p) PROVE DeviceTypeOK'
  <2>1. f \in Sources /\ buffer[f] \in Seq(Packet) /\ sent' \in 1 .. MaxData
    BY <1>4, <1>c, Zenon DEF Sources, DeviceTypeOK, Send
  <2>2. [from |-> f, peer |-> p, n |-> sent'] \in Packet
    BY <2>1, <1>a, Zenon
  <2>3. Append(buffer[f], [from |-> f, peer |-> p, n |-> sent']) \in Seq(Packet)
    BY <2>1, <2>2, InChannel, Zenon
  <2>4. buffer' \in [{"v4", "v6"} -> Seq(Packet)]
    BY <1>4, <2>3, Zenon DEF DeviceTypeOK, Send
  <2>5. QED
    BY <1>4, <2>4, <1>c, Zenon DEF DeviceTypeOK, Send, binding
<1>5. ASSUME NEW p \in Targets, SendExtra(p) PROVE DeviceTypeOK'
  <2>1. "ext" \in Sources /\ inbound \in Seq(Packet) /\ sent' \in 1 .. MaxData
    BY <1>5, <1>c, Zenon DEF Sources, DeviceTypeOK, SendExtra
  <2>2. [from |-> "ext", peer |-> p, n |-> sent'] \in Packet
    BY <2>1, <1>a, Zenon
  <2>3. inbound' \in Seq(Packet)
    BY <1>5, <2>1, <2>2, InChannel, Zenon DEF SendExtra
  <2>4. QED
    BY <1>5, <2>3, <1>c, Zenon DEF DeviceTypeOK, SendExtra, binding
<1>6. ASSUME NEW f \in {"v4", "v6"}, RecvFrom(f) PROVE DeviceTypeOK'
  <2>1. buffer[f] \in Seq(Packet) /\ buffer[f] # <<>>
    BY <1>6, Zenon DEF DeviceTypeOK, RecvFrom
  <2>2. Head(buffer[f]) \in Packet /\ Tail(buffer[f]) \in Seq(Packet)
    BY <2>1, OutOfChannel, Zenon
  <2>3. Received(Head(buffer[f])) \in Packet
    BY <2>2, <1>b, Zenon DEF Received
  <2>4. buffer' \in [{"v4", "v6"} -> Seq(Packet)]
    BY <1>6, <2>2, Zenon DEF DeviceTypeOK, RecvFrom
  <2>5. QED
    BY <1>6, <2>3, <2>4, Zenon DEF DeviceTypeOK, RecvFrom, binding
<1>7. CASE Forward
  <2>1. inbound \in Seq(Packet) /\ datagram \in Seq(Packet)
    BY <1>d, Zenon DEF DeviceTypeOK
  <2>2. inbound \o datagram \in Seq(Packet)
    BY <2>1
  <2>3. QED
    BY <1>7, <2>2, Zenon DEF DeviceTypeOK, Forward, binding
<1>8. CASE RecvError
  BY <1>8, Zenon DEF DeviceTypeOK, RecvError, binding
<1>9. CASE TickInbound
  <2>1. Head(inbound) \in Packet /\ Tail(inbound) \in Seq(Packet)
    BY <1>9, OutOfChannel, Zenon DEF DeviceTypeOK, TickInbound
  <2>2. QED
    BY <1>9, <2>1, Zenon DEF DeviceTypeOK, TickInbound, binding
<1>10. CASE StageInbound
  <2>1. PICK d \in Packet : staging = <<d>>
    BY <1>10, Zenon DEF DeviceTypeOK, StageInbound
  <2>2. Head(staging) = d /\ Tail(staging) = <<>>
    BY <2>1
  <2>3. d.peer \in Peers /\ queue[d.peer] \in Seq(Packet)
    BY <1>10, <2>2, Zenon DEF DeviceTypeOK, StageInbound
  <2>4. Append(queue[d.peer], d) \in Seq(Packet)
    BY <2>3, InChannel, Zenon
  <2>5. queue' \in [Peers -> Seq(Packet)]
    BY <1>10, <2>2, <2>3, <2>4, Zenon DEF DeviceTypeOK, StageInbound
  <2>6. QED
    BY <1>10, <2>2, <2>5, Zenon DEF DeviceTypeOK, StageInbound, binding
<1>11. ASSUME NEW p \in Peers, HandleInbound(p) PROVE DeviceTypeOK'
  <2>1. queue[p] \in Seq(Packet) /\ handled[p] \in Seq(Packet) /\ queue[p] # <<>>
    BY <1>11, Zenon DEF DeviceTypeOK, HandleInbound
  <2>2. Head(queue[p]) \in Packet /\ Tail(queue[p]) \in Seq(Packet)
    BY <2>1, OutOfChannel, Zenon
  <2>3. Append(handled[p], Head(queue[p])) \in Seq(Packet)
    BY <2>1, <2>2, InChannel, Zenon
  <2>4. queue' \in [Peers -> Seq(Packet)] /\ handled' \in [Peers -> Seq(Packet)]
    BY <1>11, <2>2, <2>3, Zenon DEF DeviceTypeOK, HandleInbound
  <2>5. QED
    BY <1>11, <2>4, Zenon DEF DeviceTypeOK, HandleInbound, binding
<1>12. QED
  BY <1>1, <1>2, <1>3, <1>4, <1>5, <1>6, <1>7, <1>8, <1>9, <1>10, <1>11, Zenon DEF DeviceNext

\* What is on its way are packets.
LEMMA OnTheirWay ==
  ASSUME DeviceTypeOK
  PROVE  /\ \A d \in Packet : d.n \in Nat
         /\ Unstaged \subseteq Packet /\ sent \in Nat
         /\ \A f \in {"v4", "v6"} : buffer[f] \in Seq(Packet) /\ Range(buffer[f]) \subseteq Packet
         /\ \A p \in Peers : /\ queue[p] \in Seq(Packet) /\ Range(queue[p]) \subseteq Packet
                             /\ handled[p] \in Seq(Packet) /\ Range(handled[p]) \subseteq Packet
<1>1. \A d \in Packet : d.n \in Nat
  BY DeviceAssumption DEF Packet
<1>2. \A s \in Seq(Packet) : Range(s) \subseteq Packet
  BY DEF Range
<1>3. /\ datagram \in Seq(Packet) /\ staging \in Seq(Packet) /\ inbound \in Seq(Packet)
      /\ \A f \in {"v4", "v6"} : buffer[f] \in Seq(Packet)
      /\ \A p \in Peers : queue[p] \in Seq(Packet) /\ handled[p] \in Seq(Packet)
  <2>1. <<>> \in Seq(Packet) /\ \A d \in Packet : <<d>> \in Seq(Packet)
    OBVIOUS
  <2>2. datagram \in Seq(Packet) /\ staging \in Seq(Packet)
    BY <2>1, Zenon DEF DeviceTypeOK
  <2>3. QED
    BY <2>2, Zenon DEF DeviceTypeOK
<1>4. sent \in Nat
  BY DeviceAssumption DEF DeviceTypeOK
<1>5. Unstaged \subseteq Packet
  BY <1>2, <1>3, Zenon DEF Unstaged, Unticked, Unforwarded, InSockets
<1>6. QED
  BY <1>1, <1>2, <1>3, <1>4, <1>5, Zenon

\* A step that takes packets only from before a stage leaves what is behind it
\* in order.
LEMMA PeersStay ==
  ASSUME OrderInv, NEW p \in Peers, queue'[p] = queue[p], handled'[p] = handled[p], sent' = sent,
         Unstaged' \subseteq Unstaged \cup {Empty}
  PROVE  /\ Ordered(queue[p])' /\ Ahead(Range(queue[p]), Unstaged)'
         /\ Ordered(handled[p])' /\ Ahead(Range(handled[p]), Unhandled(p))'
         /\ \A d \in Range(queue'[p]) \cup Range(handled'[p]) : d.peer = p /\ d.n <= sent'
<1>1. /\ Ordered(queue[p]) /\ Ahead(Range(queue[p]), Unstaged)
      /\ Ordered(handled[p]) /\ Ahead(Range(handled[p]), Unhandled(p))
      /\ \A d \in Range(queue[p]) \cup Range(handled[p]) : d.peer = p /\ d.n <= sent
  BY Zenon DEF OrderInv
<1>2. Ahead(Range(queue'[p]), Unstaged')
  BY <1>1, AheadOfFewer, Zenon
<1>3. Unhandled(p)' \subseteq Unhandled(p) \cup {Empty}
  BY Zenon DEF Unhandled
<1>4. Ahead(Range(handled'[p]), Unhandled(p)')
  BY <1>1, <1>3, AheadOfFewer, Zenon
<1>5. Ordered(queue'[p]) /\ Ordered(handled'[p])
  BY <1>1, Zenon
<1>6. QED
  BY <1>1, <1>2, <1>4, <1>5, Zenon DEF Ordered, Ahead

\* A packet that is sent to a socket comes behind all others.
LEMMA SendStep ==
  ASSUME DeviceTypeOK, OrderInv, NEW f \in {"v4", "v6"}, NEW q \in Targets, Send(f, q)
  PROVE  OrderInv'
<1> DEFINE e == [from |-> f, peer |-> q, n |-> sent']
<1>1. /\ sent' = sent + 1 /\ sent \in Nat /\ e \in Packet /\ e.n = sent + 1 /\ e.from = f
      /\ \A d \in Packet : d.n \in Nat
  <2>1. sent \in Nat /\ sent' = sent + 1 /\ sent' \in 0 .. MaxData
    BY DeviceAssumption DEF DeviceTypeOK, Send
  <2>2. QED
    BY <2>1, OnTheirWay, Zenon DEF Packet, Sources
<1> HIDE DEF e
<1>2. /\ UNCHANGED <<datagram, inbound, staging, queue, handled>>
      /\ buffer'[f] = Append(buffer[f], e) /\ \A g \in {"v4", "v6"} : g # f => buffer'[g] = buffer[g]
  BY Zenon DEF Send, DeviceTypeOK, e
<1>3. Range(buffer'[f]) = Range(buffer[f]) \cup {e}
  BY <1>1, <1>2, OnTheirWay, InChannel
<1>4. /\ InSockets' = InSockets \cup {e} /\ Unforwarded' = Unforwarded \cup {e}
      /\ Unticked' = Unticked \cup {e} /\ Unstaged' = Unstaged \cup {e}
      /\ \A p \in Peers : Unhandled(p)' = Unhandled(p) \cup {e}
  BY <1>2, <1>3, Zenon DEF InSockets, Unforwarded, Unticked, Unstaged, Unhandled
<1>5. \A d \in Unstaged : d \in Packet /\ d.n <= sent
  BY OnTheirWay, Zenon DEF OrderInv
<1>6. \A p \in Peers : \A d \in Range(queue[p]) \cup Range(handled[p]) : d \in Packet /\ d.n <= sent
  BY OnTheirWay, Zenon DEF OrderInv
<1>7. /\ Range(buffer[f]) \subseteq Unstaged /\ Range(datagram) \subseteq Unstaged
      /\ Range(inbound) \subseteq Unstaged /\ Range(staging) \subseteq Unstaged
  BY Zenon DEF Unstaged, Unticked, Unforwarded, InSockets
<1>8. /\ Ahead(Range(buffer[f]), {e}) /\ Ahead(Range(datagram), {e})
      /\ Ahead(Range(inbound), {e}) /\ Ahead(Range(staging), {e})
  BY <1>1, <1>5, <1>7, AheadOfNewest, Zenon
<1>9. \A p \in Peers : Ahead(Range(queue[p]), {e}) /\ Ahead(Range(handled[p]), {e})
  BY <1>1, <1>6, AheadOfNewest, Zenon
<1>10. ASSUME NEW g \in {"v4", "v6"}
       PROVE  Ordered(buffer'[g]) /\ \A d \in Range(buffer'[g]) : d.from = g
  <2>1. Ordered(buffer[g]) /\ \A d \in Range(buffer[g]) : d.from = g
    BY Zenon DEF OrderInv
  <2>2. CASE g # f
    BY <2>1, <2>2, <1>2, Zenon
  <2>3. CASE g = f
    <3>1. Ordered(buffer'[f])
      BY <2>1, <2>3, <1>1, <1>2, <1>8, OnTheirWay, OrderedMore, Zenon
    <3>2. QED
      BY <3>1, <2>1, <2>3, <1>1, <1>3, Zenon
  <2>4. QED
    BY <2>2, <2>3, Zenon
<1>11. Ahead(Range(datagram), InSockets) /\ Ahead(Range(inbound), Unforwarded)
       /\ Ahead(Range(staging), Unticked) /\ Ordered(inbound)
  BY Zenon DEF OrderInv
<1>12. /\ Ahead(Range(datagram'), InSockets') /\ Ahead(Range(inbound'), Unforwarded')
       /\ Ahead(Range(staging'), Unticked') /\ Ordered(inbound')
  BY <1>2, <1>4, <1>8, <1>11, AheadOfBoth, Zenon
<1>13. ASSUME NEW p \in Peers
       PROVE  /\ Ordered(queue'[p]) /\ Ahead(Range(queue'[p]), Unstaged')
              /\ Ordered(handled'[p]) /\ Ahead(Range(handled'[p]), Unhandled(p)')
              /\ \A d \in Range(queue'[p]) \cup Range(handled'[p]) : d.peer = p /\ d.n <= sent'
  <2>1. /\ Ordered(queue[p]) /\ Ahead(Range(queue[p]), Unstaged)
        /\ Ordered(handled[p]) /\ Ahead(Range(handled[p]), Unhandled(p))
        /\ \A d \in Range(queue[p]) \cup Range(handled[p]) : d.peer = p
    BY Zenon DEF OrderInv
  <2>2. Ahead(Range(queue'[p]), Unstaged') /\ Ahead(Range(handled'[p]), Unhandled(p)')
    BY <2>1, <1>2, <1>4, <1>9, Zenon DEF Ahead
  <2>3. \A d \in Range(queue'[p]) \cup Range(handled'[p]) : d.n <= sent'
    BY <1>1, <1>2, <1>6, LessThanNext, Zenon
  <2>4. QED
    BY <2>1, <2>2, <2>3, <1>2, Zenon
<1>14. \A d \in Unstaged' : d.n <= sent'
  BY <1>1, <1>4, <1>5
<1>15. \A d \in Unforwarded' : d.from # "ext"
  BY <1>1, <1>4, Zenon DEF OrderInv
<1>16. QED
  BY <1>10, <1>12, <1>13, <1>14, <1>15, Zenon DEF OrderInv, Ordered, Ahead

\* A packet of an extra transport comes behind all others of its source.
LEMMA SendExtraStep ==
  ASSUME DeviceTypeOK, OrderInv, NEW q \in Targets, SendExtra(q)
  PROVE  OrderInv'
<1> DEFINE e == [from |-> "ext", peer |-> q, n |-> sent']
<1>1. /\ sent' = sent + 1 /\ sent \in Nat /\ e \in Packet /\ e.n = sent + 1 /\ e.from = "ext"
      /\ \A d \in Packet : d.n \in Nat
  <2>1. sent \in Nat /\ sent' = sent + 1 /\ sent' \in 0 .. MaxData
    BY DeviceAssumption DEF DeviceTypeOK, SendExtra
  <2>2. QED
    BY <2>1, OnTheirWay, Zenon DEF Packet, Sources
<1> HIDE DEF e
<1>2. UNCHANGED <<buffer, datagram, staging, queue, handled>> /\ inbound' = Append(inbound, e)
  BY Zenon DEF SendExtra, e
<1>3. Range(inbound') = Range(inbound) \cup {e}
  BY <1>1, <1>2, InChannel DEF DeviceTypeOK
<1>4. /\ InSockets' = InSockets /\ Unforwarded' = Unforwarded
      /\ Unticked' = Unticked \cup {e} /\ Unstaged' = Unstaged \cup {e}
      /\ \A p \in Peers : Unhandled(p)' = Unhandled(p) \cup {e}
  BY <1>2, <1>3, Zenon DEF InSockets, Unforwarded, Unticked, Unstaged, Unhandled
<1>5. \A d \in Unstaged : d \in Packet /\ d.n <= sent
  BY OnTheirWay, Zenon DEF OrderInv
<1>6. \A p \in Peers : \A d \in Range(queue[p]) \cup Range(handled[p]) : d \in Packet /\ d.n <= sent
  BY OnTheirWay, Zenon DEF OrderInv
<1>7. Range(inbound) \subseteq Unstaged /\ Range(staging) \subseteq Unstaged
  BY Zenon DEF Unstaged, Unticked
<1>8. Ahead(Range(inbound), {e}) /\ Ahead(Range(staging), {e})
  BY <1>1, <1>5, <1>7, AheadOfNewest, Zenon
<1>9. \A p \in Peers : Ahead(Range(queue[p]), {e}) /\ Ahead(Range(handled[p]), {e})
  BY <1>1, <1>6, AheadOfNewest, Zenon
<1>10. \A d \in Unforwarded : d.from # "ext"
  BY Zenon DEF OrderInv
<1>11. Ahead({e}, Unforwarded)
  BY <1>1, <1>10, Zenon DEF Ahead
<1>12. /\ Ahead(Range(datagram), InSockets) /\ Ahead(Range(inbound), Unforwarded)
       /\ Ahead(Range(staging), Unticked) /\ Ordered(inbound)
  BY Zenon DEF OrderInv
<1>13. Ordered(inbound')
  BY <1>1, <1>2, <1>8, <1>12, OrderedMore, Zenon DEF DeviceTypeOK
<1>14. /\ Ahead(Range(datagram'), InSockets') /\ Ahead(Range(inbound'), Unforwarded')
       /\ Ahead(Range(staging'), Unticked')
  BY <1>2, <1>3, <1>4, <1>8, <1>11, <1>12, AheadOfBoth
<1>15. ASSUME NEW p \in Peers
       PROVE  /\ Ordered(queue'[p]) /\ Ahead(Range(queue'[p]), Unstaged')
              /\ Ordered(handled'[p]) /\ Ahead(Range(handled'[p]), Unhandled(p)')
              /\ \A d \in Range(queue'[p]) \cup Range(handled'[p]) : d.peer = p /\ d.n <= sent'
  <2>1. /\ Ordered(queue[p]) /\ Ahead(Range(queue[p]), Unstaged)
        /\ Ordered(handled[p]) /\ Ahead(Range(handled[p]), Unhandled(p))
        /\ \A d \in Range(queue[p]) \cup Range(handled[p]) : d.peer = p
    BY Zenon DEF OrderInv
  <2>2. Ahead(Range(queue'[p]), Unstaged') /\ Ahead(Range(handled'[p]), Unhandled(p)')
    BY <2>1, <1>2, <1>4, <1>9, Zenon DEF Ahead
  <2>3. \A d \in Range(queue'[p]) \cup Range(handled'[p]) : d.n <= sent'
    BY <1>1, <1>2, <1>6, LessThanNext, Zenon
  <2>4. QED
    BY <2>1, <2>2, <2>3, <1>2, Zenon
<1>16. \A d \in Unstaged' : d.n <= sent'
  BY <1>1, <1>4, <1>5
<1>17. \A f \in {"v4", "v6"} : Ordered(buffer'[f]) /\ \A d \in Range(buffer'[f]) : d.from = f
  BY <1>2, Zenon DEF OrderInv
<1>18. QED
  BY <1>4, <1>10, <1>13, <1>14, <1>15, <1>16, <1>17, Zenon DEF OrderInv, Ordered, Ahead

\* The task of UdpTransport takes a datagram from a socket: what it holds is
\* ahead of what both sockets still have.
LEMMA RecvFromStep ==
  ASSUME DeviceTypeOK, OrderInv, NEW f \in {"v4", "v6"}, RecvFrom(f)
  PROVE  OrderInv'
<1> DEFINE h == Head(buffer[f])
<1>1. /\ UNCHANGED <<sent, inbound, staging, queue, handled>> /\ datagram' = <<Received(h)>>
      /\ buffer'[f] = Tail(buffer[f]) /\ \A g \in {"v4", "v6"} : g # f => buffer'[g] = buffer[g]
      /\ buffer[f] \in Seq(Packet) /\ buffer[f] # <<>>
  BY Zenon DEF RecvFrom, DeviceTypeOK
<1>2. /\ h \in Packet /\ h \in Range(buffer[f])
      /\ Range(buffer[f]) = Range(buffer'[f]) \cup {h}
  BY <1>1, OutOfChannel, Zenon
<1>3. h.from = f /\ Ordered(buffer[f]) /\ \A g \in {"v4", "v6"} : \A d \in Range(buffer[g]) : d.from = g
  BY <1>2, Zenon DEF OrderInv
<1>4. Ordered(buffer'[f]) /\ Ahead({h}, Range(buffer'[f]))
  BY <1>1, <1>3, OrderedLess, Zenon
<1> HIDE DEF h
<1>5. Range(datagram') = {Received(h)} /\ Received(h) \in {h, Empty}
  BY <1>1, InPlace, Zenon DEF Received
<1>6. InSockets' \subseteq InSockets /\ h \in InSockets
  BY <1>1, <1>2, Zenon DEF InSockets
<1>7. /\ Unforwarded' \subseteq Unforwarded \cup {Empty} /\ Unticked' \subseteq Unticked \cup {Empty}
      /\ Unstaged' \subseteq Unstaged \cup {Empty}
  BY <1>1, <1>5, <1>6, Zenon DEF Unforwarded, Unticked, Unstaged
<1>8. ASSUME NEW g \in {"v4", "v6"}
      PROVE  /\ Ordered(buffer'[g]) /\ (\A d \in Range(buffer'[g]) : d.from = g)
             /\ Ahead({h}, Range(buffer'[g]))
  <2>1. CASE g = f
    BY <2>1, <1>2, <1>3, <1>4, Zenon
  <2>2. CASE g # f
    <3>1. Ordered(buffer'[g]) /\ \A d \in Range(buffer'[g]) : d.from = g
      BY <2>2, <1>1, Zenon DEF OrderInv
    <3>2. Ahead({h}, Range(buffer'[g]))
      BY <3>1, <2>2, <1>3, Zenon DEF Ahead
    <3>3. QED
      BY <3>1, <3>2, Zenon
  <2>3. QED
    BY <2>1, <2>2, Zenon
<1>9. Ahead({h}, InSockets')
  BY <1>8, AheadOfBoth, Zenon DEF InSockets
<1>10. Ahead(Range(datagram'), InSockets')
  BY <1>5, <1>9, AheadOfFewer, Zenon
<1>11. Ordered(inbound') /\ Ahead(Range(inbound'), Unforwarded') /\ Ahead(Range(staging'), Unticked')
  <2>1. /\ Ordered(inbound) /\ Ahead(Range(inbound), Unforwarded)
        /\ Ahead(Range(staging), Unticked)
    BY Zenon DEF OrderInv
  <2>2. Ahead(Range(inbound), Unforwarded')
    BY <2>1, <1>7, AheadOfFewer, Zenon
  <2>3. Ahead(Range(staging), Unticked')
    BY <2>1, <1>7, AheadOfFewer, Zenon
  <2>4. QED
    BY <2>1, <2>2, <2>3, <1>1, Zenon
<1>12. Empty.n = 0 /\ Empty.from # "ext" /\ 0 <= sent
  BY OnTheirWay, LessThanNext, Zenon DEF Empty
<1>13. \A d \in Unstaged' : d.n <= sent'
  BY <1>1, <1>7, <1>12, Zenon DEF OrderInv
<1>14. \A d \in Unforwarded' : d.from # "ext"
  BY <1>7, <1>12, Zenon DEF OrderInv
<1>15. QED
  BY <1>1, <1>7, <1>8, <1>10, <1>11, <1>13, <1>14, PeersStay, Zenon DEF OrderInv

\* It writes the datagram to the inbound channel.
LEMMA ForwardStep ==
  ASSUME DeviceTypeOK, OrderInv, Forward
  PROVE  OrderInv'
<1>1. /\ UNCHANGED <<sent, buffer, staging, queue, handled>> /\ datagram' = <<>>
      /\ inbound' = inbound \o datagram /\ inbound \in Seq(Packet)
      /\ datagram \in {<<>>} \cup {<<d>> : d \in Packet}
  BY Zenon DEF Forward, DeviceTypeOK
<1>2. Ordered(inbound) /\ Ahead(Range(inbound), Unforwarded)
  BY Zenon DEF OrderInv
<1>3. Range(inbound') = Range(inbound) \cup Range(datagram) /\ Ordered(inbound')
  <2>1. CASE datagram = <<>>
    <3>1. inbound' = inbound
      BY <2>1, <1>1, NothingMore, Zenon
    <3>2. QED
      BY <3>1, <2>1, <1>2, InPlace, Zenon
  <2>2. CASE datagram # <<>>
    <3>1. PICK d \in Packet : datagram = <<d>>
      BY <2>2, <1>1, Zenon
    <3>2. inbound' = Append(inbound, d) /\ Range(datagram) = {d}
      <4>1. inbound \o <<d>> = Append(inbound, d)
        BY <1>1, OneMore, Zenon
      <4>2. Range(<<d>>) = {d}
        BY InPlace, Zenon
      <4>3. QED
        BY <3>1, <1>1, <4>1, <4>2, Zenon
    <3>3. Ahead(Range(inbound), {d})
      BY <3>2, <1>2, AheadOfBoth, Zenon DEF Unforwarded
    <3>4. Ordered(Append(inbound, d))
      BY <3>3, <1>1, <1>2, OrderedMore, Zenon
    <3>5. Range(Append(inbound, d)) = Range(inbound) \cup {d}
      BY <1>1, InChannel
    <3>6. QED
      BY <3>2, <3>4, <3>5, Zenon
  <2>3. QED
    BY <2>1, <2>2, Zenon
<1>4. InSockets' = InSockets /\ Unforwarded' = InSockets /\ Unticked' = Unticked /\ Unstaged' = Unstaged
  BY <1>1, <1>3, InPlace, Zenon DEF InSockets, Unforwarded, Unticked, Unstaged
<1>5. Ahead(Range(datagram'), InSockets') /\ Ahead(Range(staging'), Unticked')
  BY <1>1, <1>4, InPlace, AheadOfBoth, Zenon DEF OrderInv
<1>6. Ahead(Range(inbound), InSockets) /\ Ahead(Range(datagram), InSockets)
  BY <1>2, AheadOfBoth, Zenon DEF OrderInv, Unforwarded
<1>7. Ahead(Range(inbound'), Unforwarded')
  BY <1>3, <1>4, <1>6, AheadOfBoth
<1>8. /\ \A f \in {"v4", "v6"} : Ordered(buffer'[f]) /\ \A d \in Range(buffer'[f]) : d.from = f
      /\ \A d \in Unstaged' : d.n <= sent'
      /\ \A d \in Unforwarded' : d.from # "ext"
  BY <1>1, <1>4, Zenon DEF OrderInv, Unforwarded
<1>9. QED
  BY <1>1, <1>3, <1>4, <1>5, <1>7, <1>8, PeersStay, Zenon DEF OrderInv

\* The inbound loop takes the first packet of the channel, or drops it.
LEMMA TickStep ==
  ASSUME DeviceTypeOK, OrderInv, TickInbound
  PROVE  OrderInv'
<1> DEFINE h == Head(inbound)
<1>1. /\ UNCHANGED <<sent, buffer, datagram, queue, handled>> /\ inbound' = Tail(inbound)
      /\ inbound \in Seq(Packet) /\ inbound # <<>> /\ staging' \in {<<h>>, <<>>}
  BY Zenon DEF TickInbound, DeviceTypeOK
<1>2. h \in Range(inbound) /\ Range(inbound) = Range(inbound') \cup {h}
  BY <1>1, OutOfChannel, Zenon
<1>3. Ordered(inbound') /\ Ahead({h}, Range(inbound'))
  BY <1>1, OrderedLess, Zenon DEF OrderInv
<1> HIDE DEF h
<1>4. Range(staging') \subseteq {h}
  BY <1>1, InPlace, Zenon
<1>5. /\ InSockets' = InSockets /\ Unforwarded' = Unforwarded
      /\ Unticked' = Range(inbound') \cup Unforwarded /\ Unstaged' \subseteq Unstaged
  BY <1>1, <1>2, <1>4, Zenon DEF InSockets, Unforwarded, Unticked, Unstaged
<1>6. Ahead({h}, Unforwarded) /\ Ahead(Range(inbound'), Unforwarded)
  BY <1>2, AheadOfBoth DEF OrderInv
<1>7. Ahead({h}, Unticked')
  BY <1>3, <1>5, <1>6, AheadOfBoth, Zenon
<1>8. Ahead(Range(staging'), Unticked')
  BY <1>4, <1>7, AheadOfFewer, Zenon
<1>9. /\ \A f \in {"v4", "v6"} : Ordered(buffer'[f]) /\ \A d \in Range(buffer'[f]) : d.from = f
      /\ Ahead(Range(datagram'), InSockets')
      /\ \A d \in Unstaged' : d.n <= sent'
      /\ \A d \in Unforwarded' : d.from # "ext"
  BY <1>1, <1>5, Zenon DEF OrderInv
<1>10. QED
  BY <1>1, <1>3, <1>5, <1>6, <1>8, <1>9, PeersStay, Zenon DEF OrderInv

\* It stages the packet with the peer it is for.
LEMMA StageStep ==
  ASSUME DeviceTypeOK, OrderInv, StageInbound
  PROVE  OrderInv'
<1>1. PICK h \in Packet : staging = <<h>>
  BY Zenon DEF StageInbound, DeviceTypeOK
<1>2. Head(staging) = h /\ Tail(staging) = <<>> /\ Range(staging) = {h} /\ Range(<<>>) = {}
  BY <1>1, InPlace
<1>3. /\ UNCHANGED <<sent, buffer, datagram, inbound, handled>> /\ staging' = <<>>
      /\ h.peer \in Peers /\ queue'[h.peer] = Append(queue[h.peer], h)
      /\ \A p \in Peers : p # h.peer => queue'[p] = queue[p]
  BY <1>2, Zenon DEF StageInbound, DeviceTypeOK
<1>4. Unticked' = Unticked /\ Unforwarded' = Unforwarded /\ InSockets' = InSockets
      /\ Unstaged' = Unticked /\ Unstaged = Unticked \cup {h}
  BY <1>2, <1>3, Zenon DEF InSockets, Unforwarded, Unticked, Unstaged
<1>5. Ahead(Range(staging'), Unticked')
  BY <1>2, <1>3, AheadOfBoth, Zenon
<1>6. ASSUME NEW p \in Peers
      PROVE  /\ Ordered(queue'[p]) /\ Ahead(Range(queue'[p]), Unstaged')
             /\ Ordered(handled'[p]) /\ Ahead(Range(handled'[p]), Unhandled(p)')
             /\ \A d \in Range(queue'[p]) \cup Range(handled'[p]) : d.peer = p /\ d.n <= sent'
  <2>1. CASE p # h.peer
    BY <2>1, <1>3, <1>4, PeersStay, Zenon
  <2>2. CASE p = h.peer
    <3>1. /\ Ordered(queue[p]) /\ Ahead(Range(queue[p]), Unstaged)
          /\ Ordered(handled[p]) /\ Ahead(Range(handled[p]), Unhandled(p))
          /\ \A d \in Range(queue[p]) \cup Range(handled[p]) : d.peer = p /\ d.n <= sent
          /\ \A d \in Unstaged : d.n <= sent
          /\ Ahead({h}, Unticked)
      BY <1>2, Zenon DEF OrderInv
    <3>2. Ahead(Range(queue[p]), {h}) /\ Ahead(Range(queue[p]), Unticked)
      BY <3>1, <1>4, Zenon DEF Ahead
    <3>3. queue[p] \in Seq(Packet) /\ queue'[p] = Append(queue[p], h)
      BY <2>2, <1>3, OnTheirWay, Zenon
    <3>4. Ordered(queue'[p]) /\ Range(queue'[p]) = Range(queue[p]) \cup {h}
      BY <3>1, <3>2, <3>3, <1>1, InChannel, OrderedMore
    <3>5. Ahead(Range(queue'[p]), Unstaged')
      BY <3>1, <3>2, <3>4, <1>4, Zenon DEF Ahead
    <3>6. Unhandled(p)' = Unhandled(p)
      BY <3>4, <1>4, Zenon DEF Unhandled
    <3>7. h \in Unstaged
      BY <1>4, Zenon
    <3>8. QED
      BY <3>1, <3>4, <3>5, <3>6, <3>7, <2>2, <1>3, Zenon
  <2>3. QED
    BY <2>1, <2>2, Zenon
<1>7. /\ \A f \in {"v4", "v6"} : Ordered(buffer'[f]) /\ \A d \in Range(buffer'[f]) : d.from = f
      /\ Ahead(Range(datagram'), InSockets')
      /\ Ordered(inbound') /\ Ahead(Range(inbound'), Unforwarded')
      /\ \A d \in Unstaged' : d.n <= sent'
      /\ \A d \in Unforwarded' : d.from # "ext"
  BY <1>3, <1>4, Zenon DEF OrderInv
<1>8. QED
  BY <1>5, <1>6, <1>7, Zenon DEF OrderInv

\* The peer handles the first packet of its channel.
LEMMA HandleStep ==
  ASSUME DeviceTypeOK, OrderInv, NEW q \in Peers, HandleInbound(q)
  PROVE  OrderInv'
<1> DEFINE h == Head(queue[q])
<1>1. /\ UNCHANGED <<sent, buffer, datagram, inbound, staging>>
      /\ queue[q] \in Seq(Packet) /\ queue[q] # <<>> /\ handled[q] \in Seq(Packet)
      /\ queue'[q] = Tail(queue[q]) /\ handled'[q] = Append(handled[q], h)
      /\ \A p \in Peers : p # q => queue'[p] = queue[p] /\ handled'[p] = handled[p]
  BY Zenon DEF HandleInbound, DeviceTypeOK
<1>2. h \in Packet /\ h \in Range(queue[q]) /\ Range(queue[q]) = Range(queue'[q]) \cup {h}
  BY <1>1, OutOfChannel, Zenon
<1>3. /\ Ordered(queue[q]) /\ Ahead(Range(queue[q]), Unstaged)
      /\ Ordered(handled[q]) /\ Ahead(Range(handled[q]), Unhandled(q))
      /\ \A d \in Range(queue[q]) \cup Range(handled[q]) : d.peer = q /\ d.n <= sent
  BY Zenon DEF OrderInv
<1>4. Ordered(queue'[q]) /\ Ahead({h}, Range(queue'[q]))
  BY <1>1, <1>3, OrderedLess, Zenon
<1> HIDE DEF h
<1>5. /\ Unstaged' = Unstaged /\ Unticked' = Unticked /\ Unforwarded' = Unforwarded
      /\ InSockets' = InSockets
  BY <1>1, Zenon DEF InSockets, Unforwarded, Unticked, Unstaged
<1>6. Unhandled(q) = Unhandled(q)' \cup {h} /\ Unhandled(q)' = Range(queue'[q]) \cup Unstaged
  BY <1>2, <1>5, Zenon DEF Unhandled
<1>7. /\ Ahead({h}, Unstaged) /\ Ahead(Range(queue'[q]), Unstaged)
      /\ Ahead(Range(handled[q]), {h}) /\ Ahead(Range(handled[q]), Unhandled(q)')
  BY <1>2, <1>3, <1>6, Zenon DEF Ahead
<1>8. Ordered(handled'[q]) /\ Range(handled'[q]) = Range(handled[q]) \cup {h}
  <2>1. Ordered(Append(handled[q], h))
    BY <1>1, <1>2, <1>3, <1>7, OrderedMore, Zenon
  <2>2. Range(Append(handled[q], h)) = Range(handled[q]) \cup {h}
    <3>1. handled[q] \in Seq(Packet) /\ h \in Packet
      BY <1>1, <1>2, Zenon
    <3>2. QED
      BY ONLY <3>1, InChannel
  <2>3. QED
    BY <2>1, <2>2, <1>1, Zenon
<1>9. Ahead({h}, Unhandled(q)')
  BY <1>4, <1>6, <1>7, Zenon DEF Ahead
<1>10. Ahead(Range(handled'[q]), Unhandled(q)')
  BY <1>7, <1>8, <1>9, Zenon DEF Ahead
<1>11. ASSUME NEW p \in Peers
       PROVE  /\ Ordered(queue'[p]) /\ Ahead(Range(queue'[p]), Unstaged')
              /\ Ordered(handled'[p]) /\ Ahead(Range(handled'[p]), Unhandled(p)')
              /\ \A d \in Range(queue'[p]) \cup Range(handled'[p]) : d.peer = p /\ d.n <= sent'
  <2>1. CASE p # q
    BY <2>1, <1>1, <1>5, PeersStay, Zenon
  <2>2. CASE p = q
    BY <2>2, <1>1, <1>2, <1>3, <1>4, <1>5, <1>7, <1>8, <1>10, Zenon
  <2>3. QED
    BY <2>1, <2>2, Zenon
<1>12. /\ \A f \in {"v4", "v6"} : Ordered(buffer'[f]) /\ \A d \in Range(buffer'[f]) : d.from = f
       /\ Ahead(Range(datagram'), InSockets')
       /\ Ordered(inbound') /\ Ahead(Range(inbound'), Unforwarded')
       /\ Ahead(Range(staging'), Unticked')
       /\ \A d \in Unstaged' : d.n <= sent'
       /\ \A d \in Unforwarded' : d.from # "ext"
  BY <1>1, <1>5, Zenon DEF OrderInv
<1>13. QED
  BY <1>11, <1>12, Zenon DEF OrderInv

\* A step that leaves the packets alone.
LEMMA OrderStays ==
  ASSUME OrderInv, UNCHANGED <<sent, buffer, datagram, inbound, staging, queue, handled>>
  PROVE  OrderInv'
<1>1. /\ InSockets' = InSockets /\ Unforwarded' = Unforwarded /\ Unticked' = Unticked
      /\ Unstaged' = Unstaged
  BY Zenon DEF InSockets, Unforwarded, Unticked, Unstaged
<1>2. \A p \in Peers : Unhandled(p)' = Unhandled(p)
  BY <1>1, Zenon DEF Unhandled
<1>3. QED
  BY <1>1, <1>2, Zenon DEF OrderInv

\* The invariant holds in every state.
THEOREM DeviceInvariant == DeviceSpec => []DeviceInv
<1>1. DeviceInit => DeviceInv
  <2> SUFFICES ASSUME DeviceInit PROVE DeviceInv
    BY Zenon
  <2>1. DeviceTypeOK
    BY DeviceAssumption DEF DeviceInit, DeviceTypeOK
  <2>2. PortInv
    BY Zenon DEF DeviceInit, PortInv, OnePort
  <2>3. /\ InSockets = {} /\ Unforwarded = {} /\ Unticked = {} /\ Unstaged = {}
        /\ Range(datagram) = {} /\ Range(inbound) = {} /\ Range(staging) = {}
        /\ \A f \in {"v4", "v6"} : buffer[f] = <<>> /\ Range(buffer[f]) = {}
        /\ \A p \in Peers : /\ queue[p] = <<>> /\ handled[p] = <<>>
                            /\ Range(queue[p]) = {} /\ Range(handled[p]) = {}
    BY InPlace, Zenon DEF DeviceInit, InSockets, Unforwarded, Unticked, Unstaged
  <2>4. Ordered(<<>>) /\ inbound = <<>>
    BY DEF Ordered, DeviceInit
  <2>5. \A S : Ahead({}, S)
    BY Zenon DEF Ahead
  <2>6. OrderInv
    BY <2>3, <2>4, <2>5, Zenon DEF OrderInv
  <2>7. QED
    BY <2>1, <2>2, <2>6, Zenon DEF DeviceInv
<1>2. DeviceInv /\ [DeviceNext]_deviceVars => DeviceInv'
  <2> SUFFICES ASSUME DeviceInv, [DeviceNext]_deviceVars PROVE DeviceInv'
    BY Zenon
  <2>1. DeviceTypeOK /\ PortInv /\ OrderInv /\ DeviceTypeOK'
    BY DeviceTypes, Zenon DEF DeviceInv
  <2>2. PortInv'
    <3>1. CASE UNCHANGED binding
      BY <3>1, <2>1, Zenon DEF binding, PortInv, OnePort
    <3>2. CASE Bind4
      BY <3>2, <2>1, Zenon DEF Bind4, Again, PortInv, OnePort, DeviceTypeOK
    <3>3. CASE Bind6
      BY <3>3, <2>1, Zenon DEF Bind6, Again, Port6, PortInv, OnePort
    <3>4. QED
      BY <3>1, <3>2, <3>3, Zenon DEF DeviceNext, deviceVars, RecvFrom, Send, SendExtra, Forward,
         RecvError, TickInbound, StageInbound, HandleInbound
  <2>3. OrderInv'
    <3>1. CASE Bind4 \/ Bind6 \/ RecvError \/ UNCHANGED deviceVars
      BY <3>1, <2>1, OrderStays, Zenon DEF Bind4, Bind6, Rest, RecvError, deviceVars
    <3>2. QED
      BY <3>1, <2>1, SendStep, SendExtraStep, RecvFromStep, ForwardStep, TickStep, StageStep,
         HandleStep, Zenon DEF DeviceNext
  <2>4. QED
    BY <2>1, <2>2, <2>3, Zenon DEF DeviceInv
<1>3. QED
  BY <1>1, <1>2, PTL DEF DeviceSpec

\* A device that is up has both sockets on the port it was asked for, whatever
\* attempts of bind_socket failed, for any ports and any number of attempts.
THEOREM SocketsShareAPort == DeviceSpec => []OnePort
<1>1. DeviceInv => OnePort
  BY Zenon DEF DeviceInv, PortInv
<1>2. QED
  BY <1>1, DeviceInvariant, PTL

\* A peer handles the packets of a source in the order they were sent, each once,
\* for channels of any capacity: the sockets, the task that forwards, the inbound
\* channel, the inbound loop and the channel of the peer each keep the order.
THEOREM PacketsStayInOrder == DeviceSpec => []InOrder
<1>1. DeviceInv => InOrder
  <2> SUFFICES ASSUME DeviceInv, NEW p \in Peers, NEW i \in DOMAIN handled[p],
                      NEW j \in DOMAIN handled[p], i < j,
                      handled[p][i].from = handled[p][j].from
               PROVE  handled[p][i].n < handled[p][j].n
    BY Zenon DEF InOrder
  <2>1. Ahead({handled[p][i]}, {handled[p][j]})
    BY Zenon DEF DeviceInv, OrderInv, Ordered
  <2>2. handled[p][i].peer = p /\ handled[p][j].peer = p
    <3>1. handled[p][i] \in Range(handled[p]) /\ handled[p][j] \in Range(handled[p])
      BY Zenon DEF Range
    <3>2. QED
      BY <3>1, Zenon DEF DeviceInv, OrderInv
  <2>3. QED
    BY <2>1, <2>2, Zenon DEF Ahead
<1>2. QED
  BY <1>1, DeviceInvariant, PTL
=============================================================================
