----------------------------- MODULE NatService -----------------------------
(***************************************************************************)
(* How a NAT transport learns its public address and keeps a port mapped   *)
(* at the gateway.  The STUN task hands every address it is told of to the *)
(* transport and has the gateway map the port (UPnP); the renewal task     *)
(* maps the recorded external port again shortly before the lease ends.    *)
(* The gateway, the STUN server and the other hosts behind the gateway are *)
(* the environment.  Time passes in units of the ten seconds between a     *)
(* renewal and the end of the lease it renews.                             *)
(***************************************************************************)
EXTENDS Naturals, Sequences

CONSTANTS Ports,      \* port numbers
          InnerPorts, \* the ports the socket of the STUN task may be bound to
          Seen(_),    \* the external ports STUN may report for an inner port
          Duration,   \* how long a mapping lasts
          MaxAnswers, \* bound: addresses the STUN server reports
          MaxFaults   \* bound: calls that the gateway does not carry out well

ASSUME NatAssumption ==
  /\ Ports \subseteq Nat \ {0}
  /\ InnerPorts \subseteq Ports /\ \A p \in InnerPorts : Seen(p) \subseteq Ports
  /\ Duration \in Nat \ {0, 1} /\ MaxAnswers \in Nat /\ MaxFaults \in Nat

\* Mutant: the renewals are a whole lease apart, and a unit more.
Period_Late == Duration + 1

\* The interval of the renewals: it ends one unit before a lease does.
Period == Duration - 1

VARIABLES
  proto,     \* the protocol of the transport, chosen in NatInit
  stun,      \* where the STUN task is
  addr,      \* the port it is handling, or 0
  answers,   \* answers received
  inner,     \* inner_port
  external,  \* external_port, 0 for None
  chan,      \* the addresses on their way to the transport
  taken,     \* the last address the transport took, or 0
  open,      \* whether the transport still holds the service
  renewal,   \* the renewal task: "run" or "ended"
  due,       \* time to the next tick of the renewal task
  gateway,   \* the mappings of the gateway, per protocol and port
  faults,    \* calls that did not go well
  held,      \* history: the last port the STUN task had mapped
  missed     \* history: the last attempt to map that port failed

stunTask == <<stun, addr, answers, inner, external, chan>>
natState == <<stunTask, taken, open, renewal, due, gateway, faults, held, missed>>
natVars == <<proto, natState>>

Free == [owner |-> "none", target |-> 0, left |-> 0]
Foreign == [owner |-> "other", target |-> 0, left |-> 0]
Slots == {"UDP", "TCP"} \X Ports

NatInit ==
  /\ proto \in {"UDP", "TCP"}
  /\ stun = "start" /\ addr = 0 /\ answers = 0
  /\ inner = 0 /\ external = 0 /\ chan = <<>>
  /\ taken = 0 /\ open = TRUE
  /\ renewal = "run" /\ due = 0
  /\ gateway = [s \in Slots |-> Free] /\ faults = 0
  /\ held = 0 /\ missed = FALSE

-----------------------------------------------------------------------------
Ours == [owner |-> "ours", target |-> inner, left |-> Duration]
Map(g, p) == [g EXCEPT ![<<proto, p>>] = Ours]

\* What add_port may come to: its result, the mappings after it, and whether
\* the gateway was at fault.  A port in use is taken after its TCP mapping was
\* removed, whatever the protocol is.
add_port(p) ==
  LET inUse == gateway[<<proto, p>>].owner = "other"
      removed == [gateway EXCEPT ![<<"TCP", p>>] = Free]
      fails == {[ok |-> FALSE, g |-> gateway, fault |-> 1]}
      first == {[ok |-> TRUE, g |-> Map(gateway, p), fault |-> 0],
                [ok |-> FALSE, g |-> Map(gateway, p), fault |-> 1]}
      retry == IF proto = "TCP"
               THEN {[ok |-> TRUE, g |-> Map(removed, p), fault |-> 0],
                     [ok |-> FALSE, g |-> removed, fault |-> 1]}
               ELSE {[ok |-> FALSE, g |-> removed, fault |-> 0]}
  IN  {r \in fails \cup (IF inUse THEN retry ELSE first) :
         faults + r.fault <= MaxFaults}

\* The effect of one call of add_port with result r.
Called(r, p) ==
  /\ gateway' = r.g
  /\ faults' = faults + r.fault
  /\ held' = p
  /\ missed' = ~ r.ok

-----------------------------------------------------------------------------
\* The STUN task binds its socket, notes the port and sends its request.
Bind ==
  /\ stun = "start"
  /\ inner' \in InnerPorts
  /\ stun' = "recv"
  /\ UNCHANGED <<addr, answers, external, chan, taken, open, renewal, due, gateway,
                 faults, held, missed>>

\* The port cannot be bound or the server cannot be reached.  An IPv6 address,
\* or an error of the socket, ends the task as well.
StunEnds ==
  /\ stun \in {"start", "recv"}
  /\ stun' = "ended"
  /\ UNCHANGED <<addr, answers, inner, external, chan, taken, open, renewal, due,
                 gateway, faults, held, missed>>

\* The TCP server closed the stream: the task reads nothing over and over.
StunEof ==
  /\ stun = "recv" /\ proto = "TCP"
  /\ stun' = "spin"
  /\ UNCHANGED <<addr, answers, inner, external, chan, taken, open, renewal, due,
                 gateway, faults, held, missed>>

\* An answer of the STUN server; UDP may deliver it twice.
Answer ==
  /\ stun = "recv" /\ answers < MaxAnswers
  /\ addr' \in Seen(inner)
  /\ answers' = answers + 1
  /\ stun' = "send"
  /\ UNCHANGED <<inner, external, chan, taken, open, renewal, due, gateway, faults,
                 held, missed>>

\* tx.send: it waits for room, and fails when the transport is gone.
SendAddr ==
  /\ stun = "send" /\ (open => chan = <<>>)
  /\ chan' = IF open THEN <<addr>> ELSE chan
  /\ stun' = IF open THEN "map" ELSE "ended"
  /\ UNCHANGED <<addr, answers, inner, external, taken, open, renewal, due, gateway,
                 faults, held, missed>>

\* set_external_port, with UDP: the lock is held from "map" on; a failure is
\* only reported, the port is recorded all the same, and the address is sent
\* a second time.
set_external_port ==
  /\ stun = "map" /\ proto = "UDP"
  /\ \/ /\ external # addr
        /\ \E r \in add_port(addr) : Called(r, addr)
     \/ external = addr /\ UNCHANGED <<gateway, faults, held, missed>>
  /\ external' = addr
  /\ stun' = "again"
  /\ UNCHANGED <<addr, answers, inner, chan, taken, open, renewal, due>>

\* add_port, with TCP: a failure ends the task.
MapTcp ==
  /\ stun = "map" /\ proto = "TCP"
  /\ \E r \in add_port(addr) :
       /\ Called(r, addr)
       /\ stun' = IF r.ok THEN "recv" ELSE "ended"
  /\ UNCHANGED <<addr, answers, inner, external, chan, taken, open, renewal, due>>

SendAgain ==
  /\ stun = "again" /\ (open => chan = <<>>)
  /\ chan' = IF open THEN <<addr>> ELSE chan
  /\ stun' = "recv"
  /\ UNCHANGED <<addr, answers, inner, external, taken, open, renewal, due, gateway,
                 faults, held, missed>>

-----------------------------------------------------------------------------
\* Mutant: a port that could not be mapped is not tried again.
Renew_NoRetry ==
  /\ renewal = "run" /\ due = 0 /\ open
  /\ \/ /\ external # 0 /\ ~ missed
        /\ \E r \in add_port(external) : Called(r, external)
     \/ (external = 0 \/ missed) /\ UNCHANGED <<gateway, faults, held, missed>>
  /\ due' = Period
  /\ UNCHANGED <<stunTask, taken, open, renewal>>

\* A tick of the renewal task, with the lock free.
Renew ==
  /\ renewal = "run" /\ due = 0 /\ open
  /\ ~ (stun = "map" /\ proto = "UDP")
  /\ \/ external # 0 /\ \E r \in add_port(external) : Called(r, external)
     \/ external = 0 /\ UNCHANGED <<gateway, faults, held, missed>>
  /\ due' = Period
  /\ UNCHANGED <<stunTask, taken, open, renewal>>

\* The STUN task keeps the lock for two seconds: the tick is given up.
RenewTimeout ==
  /\ renewal = "run" /\ due = 0 /\ open
  /\ stun = "map" /\ proto = "UDP"
  /\ missed' = (missed \/ external # 0)
  /\ due' = Period
  /\ UNCHANGED <<stunTask, taken, open, renewal, gateway, faults, held>>

\* The token was cancelled: the renewal task sees it at its next tick.
RenewalEnds ==
  /\ renewal = "run" /\ due = 0 /\ ~ open
  /\ renewal' = "ended"
  /\ UNCHANGED <<stunTask, taken, open, due, gateway, faults, held, missed>>

-----------------------------------------------------------------------------
\* The transport takes an address.
Take ==
  /\ open /\ chan # <<>>
  /\ taken' = Head(chan)
  /\ chan' = <<>>
  /\ UNCHANGED <<stun, addr, answers, inner, external, open, renewal, due, gateway,
                 faults, held, missed>>

\* The transport ends: Drop of NatService cancels the token, the channel closes.
Drop ==
  /\ open
  /\ open' = FALSE
  /\ chan' = <<>>
  /\ UNCHANGED <<stun, addr, answers, inner, external, taken, renewal, due, gateway,
                 faults, held, missed>>

\* Another host maps a free port, or gives a port up.
OtherHost(s) ==
  /\ gateway[s].owner # "ours"
  /\ gateway' = [gateway EXCEPT ![s] = IF @ = Free THEN Foreign ELSE Free]
  /\ UNCHANGED <<stunTask, taken, open, renewal, due, faults, held, missed>>

\* A unit of time passes.  A tick that is due comes first.  A mapping made for
\* the duration 0 would stay.
Time ==
  /\ renewal = "run" => due > 0
  /\ due' = IF renewal = "run" THEN due - 1 ELSE due
  /\ gateway' = [s \in Slots |->
       IF gateway[s].owner # "ours" \/ gateway[s].left = 0 THEN gateway[s]
       ELSE IF gateway[s].left = 1 THEN Free
       ELSE [gateway[s] EXCEPT !.left = @ - 1]]
  /\ UNCHANGED <<stunTask, taken, open, renewal, faults, held, missed>>

NatStep ==
  \/ Bind \/ StunEnds \/ StunEof \/ Answer \/ SendAddr \/ set_external_port \/ MapTcp
  \/ SendAgain \/ Renew \/ RenewTimeout \/ RenewalEnds \/ Take \/ Drop \/ Time
  \/ \E s \in Slots : OtherHost(s)

NatNext == NatStep /\ UNCHANGED proto

\* Timers fire, the gateway answers or refuses every call, and the transport
\* takes what it is sent.  No answer, fault or other host is assumed.
NatSpec ==
  /\ NatInit /\ [][NatNext]_natVars
  /\ WF_natState(Bind) /\ WF_natState(SendAddr) /\ WF_natState(set_external_port)
  /\ WF_natState(MapTcp) /\ WF_natState(SendAgain)
  /\ WF_natState(Renew) /\ WF_natState(RenewTimeout) /\ WF_natState(RenewalEnds)
  /\ WF_natState(Take) /\ WF_natState(Time)

-----------------------------------------------------------------------------
MappedTo(p) == gateway[<<proto, p>>].owner = "ours"

\* The mappings the gateway may hold.
Mapping == [owner : {"none", "ours", "other"}, target : Ports \cup {0}, left : 0 .. Duration]

\* The variables have their types; the channel has one place.
NatTypeOK ==
  /\ proto \in {"UDP", "TCP"}
  /\ stun \in {"start", "recv", "send", "map", "again", "spin", "ended"}
  /\ addr \in Ports \cup {0} /\ inner \in InnerPorts \cup {0} /\ external \in Ports \cup {0}
  /\ taken \in Ports \cup {0} /\ held \in Ports \cup {0}
  /\ answers \in 0 .. MaxAnswers /\ faults \in 0 .. MaxFaults
  /\ chan \in {<<>>} \cup {<<p>> : p \in Ports}
  /\ open \in BOOLEAN /\ missed \in BOOLEAN
  /\ renewal \in {"run", "ended"} /\ due \in 0 .. Period
  /\ gateway \in [Slots -> Mapping]

\* While a UDP transport runs, the port it was mapped at stays mapped from one
\* renewal to the next, unless the last attempt to map it failed ("report ten
\* seconds before the end": the lease outlives the interval of the renewals).
\* The TCP task records no external port, so that nothing renews its mapping.
Kept ==
  /\ NatTypeOK
  /\ proto = "UDP" /\ held # 0 /\ open /\ ~ missed => MappedTo(held)

Recovers ==
  []<>(\/ external = 0 \/ ~ open
       \/ MappedTo(external) \/ gateway[<<proto, external>>].owner = "other")

Released == (~ open) ~> [](\A s \in Slots : gateway[s].owner # "ours")

\* The mapping follows the transport.  One that failed, or was given up because
\* the lock was held, is made up for by a later tick: a recorded external port
\* is mapped again and again, unless another host has it.  After the transport
\* has ended nothing stays mapped: the renewals stop and the last lease runs out.
MappingFollowsTransport == Recovers /\ Released

-----------------------------------------------------------------------------
\* What makes Kept inductive.  A port is handled only after the socket is bound;
\* the port that is kept is the one the renewals read; they go on as long as the
\* transport is there; and its lease outlasts the time to the next of them.
NatInv ==
  /\ NatTypeOK
  /\ stun \in {"recv", "send", "map", "again"} => inner # 0
  /\ stun \in {"send", "map", "again"} => addr # 0
  /\ open => renewal = "run"
  /\ proto = "UDP" => held = external
  /\ proto = "UDP" /\ held # 0 /\ open /\ ~ missed
       => MappedTo(held) /\ gateway[<<proto, held>>].left > due
=============================================================================
