----------------------------- MODULE PeersProofs -----------------------------
(***************************************************************************)
(* Proofs about what a device keeps for its peers: the anti-replay filter  *)
(* of a session, for every ring size and every limit on the counters that  *)
(* satisfy ConstantsAssumption; the timers of a peer's handshakes; and the *)
(* table of the peers.                                                     *)
(***************************************************************************)
EXTENDS NonceFilter, PeerMonitor, PeerTable, WellFoundedInduction, TLAPS

-----------------------------------------------------------------------------
\* The anti-replay filter: its ring

Filter == [next : Nat, bits : [Slots -> BOOLEAN], idx : Slots]

\* Stepping idx around the ring (advance) wraps from the last slot to slot 0.
LEMMA NextSlot ==
  ASSUME NEW i \in Slots
  PROVE  (i + 1) % MAX_REPLAY_SIZE = IF i + 1 = MAX_REPLAY_SIZE THEN 0 ELSE i + 1
BY ConstantsAssumption DEF Slots

\* A counter at most MAX_REPLAY_SIZE behind next has a slot (bitmap_index).
LEMMA IndexInRing ==
  ASSUME NEW f \in Filter, NEW c \in Nat, c < f.next, c + MAX_REPLAY_SIZE >= f.next
  PROVE  bitmap_index(f, c) \in Slots
BY ConstantsAssumption DEF Filter, Slots, bitmap_index

\* Two such counters never share a slot (bitmap_index).
LEMMA IndexInjective ==
  ASSUME NEW f \in Filter,
         NEW c \in Nat, c < f.next, c + MAX_REPLAY_SIZE >= f.next,
         NEW d \in Nat, d < f.next, d + MAX_REPLAY_SIZE >= f.next,
         c # d
  PROVE  bitmap_index(f, c) # bitmap_index(f, d)
BY ConstantsAssumption, SMTT(30) DEF Filter, Slots, bitmap_index

\* set changes the bit of its own counter and nothing else.
LEMMA SetEffect ==
  ASSUME NEW f \in Filter, NEW c \in Nat, c < f.next, c + MAX_REPLAY_SIZE >= f.next
  PROVE  /\ set(f, c) \in Filter
         /\ set(f, c).next = f.next
         /\ set(f, c).idx = f.idx
         /\ set(f, c).bits = [f.bits EXCEPT ![bitmap_index(f, c)] = TRUE]
BY IndexInRing, Zenon DEF Filter, set, PutBit

\* advance gives next the slot idx pointed at, cleared unless this is the first
\* lap, and leaves every counter that stays in reach in its slot.
LEMMA AdvanceEffect ==
  ASSUME NEW f \in Filter, f.next <= REJECT_AFTER_MESSAGES
  PROVE  /\ advance(f) \in Filter
         /\ advance(f).next = f.next + 1
         /\ advance(f).idx = IF f.idx + 1 = MAX_REPLAY_SIZE THEN 0 ELSE f.idx + 1
         /\ advance(f).bits = IF f.next > MAX_REPLAY_SIZE
                                THEN [f.bits EXCEPT ![f.idx] = FALSE]
                                ELSE f.bits
<1>1. f.next > MAX_REPLAY_SIZE => bitmap_index(f, f.next - MAX_REPLAY_SIZE) = f.idx
  BY ConstantsAssumption DEF Filter, Slots, bitmap_index
<1>2. Add64(f.next, 1) = f.next + 1
  BY ConstantsAssumption DEF Add64, Filter
<1>3. (f.idx + 1) % MAX_REPLAY_SIZE = IF f.idx + 1 = MAX_REPLAY_SIZE THEN 0 ELSE f.idx + 1
  BY NextSlot, Zenon DEF Filter
<1>4. (IF f.idx + 1 = MAX_REPLAY_SIZE THEN 0 ELSE f.idx + 1) \in Slots
  BY ConstantsAssumption DEF Filter, Slots
<1>5. CASE f.next > MAX_REPLAY_SIZE
  <2>1. unset(f, f.next - MAX_REPLAY_SIZE).bits = [f.bits EXCEPT ![f.idx] = FALSE]
    BY <1>1, <1>5, Zenon DEF unset, PutBit
  <2>2. advance(f) = [next |-> Add64(f.next, 1),
                      idx  |-> (f.idx + 1) % MAX_REPLAY_SIZE,
                      bits |-> [f.bits EXCEPT ![f.idx] = FALSE]]
    BY <1>5, <2>1, Zenon DEF advance
  <2>3. [f.bits EXCEPT ![f.idx] = FALSE] \in [Slots -> BOOLEAN]
    BY Zenon DEF Filter
  <2>4. QED
    BY <1>2, <1>3, <1>4, <1>5, <2>2, <2>3 DEF Filter
<1>6. CASE ~ (f.next > MAX_REPLAY_SIZE)
  BY <1>2, <1>3, <1>4, <1>6 DEF advance, Filter
<1>7. QED
  BY <1>5, <1>6, Zenon

\* The slots of the counters that stay in reach do not move in advance, and the
\* counter that enters the ring takes the slot idx pointed at.
LEMMA AdvanceSlots ==
  ASSUME NEW f \in Filter, f.next <= REJECT_AFTER_MESSAGES
  PROVE  /\ bitmap_index(advance(f), f.next) = f.idx
         /\ \A c \in Nat : c < f.next /\ c + MAX_REPLAY_SIZE >= f.next + 1 =>
              /\ bitmap_index(advance(f), c) = bitmap_index(f, c)
              /\ bitmap_index(f, c) # f.idx
<1>1. /\ advance(f).next = f.next + 1
      /\ advance(f).idx = IF f.idx + 1 = MAX_REPLAY_SIZE THEN 0 ELSE f.idx + 1
  BY AdvanceEffect, Zenon
<1>2. bitmap_index(advance(f), f.next) = f.idx
  BY <1>1, ConstantsAssumption DEF bitmap_index, Filter, Slots
<1>3. ASSUME NEW c \in Nat, c < f.next, c + MAX_REPLAY_SIZE >= f.next + 1
      PROVE  /\ bitmap_index(advance(f), c) = bitmap_index(f, c)
             /\ bitmap_index(f, c) # f.idx
  <2>1. bitmap_index(f, c) # f.idx
    BY <1>3, ConstantsAssumption DEF bitmap_index, Filter, Slots
  <2>2. f.next \in Nat /\ f.idx \in Nat /\ f.idx < MAX_REPLAY_SIZE
    BY ConstantsAssumption DEF Filter, Slots
  <2>3. CASE f.idx + 1 = MAX_REPLAY_SIZE
    <3>1. advance(f).idx = 0
      BY <1>1, <2>3, Zenon
    <3>2. QED
      BY <1>1, <1>3, <2>1, <2>2, <2>3, <3>1, ConstantsAssumption DEF bitmap_index
  <2>4. CASE f.idx + 1 # MAX_REPLAY_SIZE
    <3>1. advance(f).idx = f.idx + 1
      BY <1>1, <2>4, Zenon
    <3>2. QED
      BY <1>1, <1>3, <2>1, <2>2, <2>4, <3>1, ConstantsAssumption DEF bitmap_index
  <2>5. QED
    BY <2>3, <2>4, Zenon
<1>4. QED
  BY <1>2, <1>3, Zenon

-----------------------------------------------------------------------------
\* What the three updates of the ring do to the invariant

\* Setting the bit of a counter in reach records that counter as delivered.
LEMMA SetKeepsRing ==
  ASSUME NEW f \in Filter, NEW c \in Held(f), NEW D,
         SlotInv(f, D), FirstLapInv(f)
  PROVE  SlotInv(set(f, c), D \cup {c}) /\ FirstLapInv(set(f, c))
<1> DEFINE g == set(f, c)
<1>1. /\ c \in Nat
      /\ c < f.next
      /\ c + MAX_REPLAY_SIZE >= f.next
  BY ConstantsAssumption DEF Held
<1>2. /\ g \in Filter
      /\ g.next = f.next
      /\ g.idx = f.idx
      /\ g.bits = [f.bits EXCEPT ![bitmap_index(f, c)] = TRUE]
  BY <1>1, SetEffect, Zenon
<1>3. bitmap_index(f, c) \in Slots
  BY <1>1, IndexInRing, Zenon
<1>4. Held(g) = Held(f)
  BY <1>2, Zenon DEF Held
<1>5. \A d : bitmap_index(g, d) = bitmap_index(f, d)
  BY <1>2, Zenon DEF bitmap_index
<1>6. is_set(g, c)
  BY <1>2, <1>3, <1>5, Zenon DEF is_set, Filter
<1>7. ASSUME NEW d \in Held(f), d # c
      PROVE  is_set(g, d) <=> is_set(f, d)
  <2>1. /\ d \in Nat
        /\ d < f.next
        /\ d + MAX_REPLAY_SIZE >= f.next
    BY ConstantsAssumption DEF Held
  <2>2. bitmap_index(f, d) # bitmap_index(f, c)
    BY <1>1, <1>7, <2>1, IndexInjective, Zenon
  <2>3. bitmap_index(f, d) \in Slots
    BY <2>1, IndexInRing, Zenon
  <2>4. QED
    BY <1>2, <1>5, <2>2, <2>3, Zenon DEF is_set, Filter
<1>8. SlotInv(g, D \cup {c})
  <2>1. ASSUME NEW d \in Held(g), d \in D \cup {c}
        PROVE  is_set(g, d)
    BY <1>4, <1>6, <1>7, <2>1, Zenon DEF SlotInv
  <2>2. ASSUME NEW d \in Held(g), is_set(g, d)
        PROVE  d \in D \cup {c} \/ (d = MAX_REPLAY_SIZE /\ 0 \in D \cup {c})
    BY <1>4, <1>7, <2>2, Zenon DEF SlotInv
  <2>3. QED
    BY <2>1, <2>2, Zenon DEF SlotInv
<1>9. FirstLapInv(g)
  <2>1. SUFFICES ASSUME f.next <= MAX_REPLAY_SIZE
                 PROVE  /\ g.idx = IF g.next = MAX_REPLAY_SIZE THEN 0 ELSE g.next
                        /\ \A s \in Slots : s >= g.next => ~ g.bits[s]
    BY <1>2, Zenon DEF FirstLapInv
  <2>2. f.idx = IF f.next = MAX_REPLAY_SIZE THEN 0 ELSE f.next
    BY <2>1, Zenon DEF FirstLapInv
  <2>3. bitmap_index(f, c) = c
    BY <1>1, <2>1, <2>2, ConstantsAssumption DEF bitmap_index, Filter
  <2>4. ASSUME NEW s \in Slots, s >= g.next
        PROVE  ~ g.bits[s]
    <3>1. s # c
      BY <1>1, <1>2, <2>4 DEF Filter, Slots
    <3>2. g.bits[s] = f.bits[s]
      BY <1>2, <2>3, <3>1, Zenon DEF Filter
    <3>3. QED
      BY <1>2, <2>1, <2>4, <3>2, Zenon DEF FirstLapInv
  <2>5. QED
    BY <1>2, <2>2, <2>4, Zenon
<1>10. QED
  BY <1>8, <1>9, Zenon

\* advance takes in a counter that was not delivered.  Its slot is clear, except
\* that counter MAX_REPLAY_SIZE inherits the bit of counter 0.
LEMMA AdvanceKeepsRing ==
  ASSUME NEW f \in Filter, f.next <= REJECT_AFTER_MESSAGES, NEW D, f.next \notin D,
         SlotInv(f, D), FirstLapInv(f)
  PROVE  SlotInv(advance(f), D) /\ FirstLapInv(advance(f))
<1> DEFINE g == advance(f)
<1>1. /\ g \in Filter
      /\ g.next = f.next + 1
      /\ g.idx = IF f.idx + 1 = MAX_REPLAY_SIZE THEN 0 ELSE f.idx + 1
      /\ g.bits = IF f.next > MAX_REPLAY_SIZE
                    THEN [f.bits EXCEPT ![f.idx] = FALSE]
                    ELSE f.bits
  BY AdvanceEffect, Zenon
<1>2. f.next \in Nat /\ f.idx \in Slots /\ f.bits \in [Slots -> BOOLEAN]
  BY Zenon DEF Filter
<1>3. is_set(g, f.next) => f.next = MAX_REPLAY_SIZE /\ 0 \in D
  <2>1. bitmap_index(g, f.next) = f.idx
    BY AdvanceSlots, Zenon
  <2>2. CASE f.next > MAX_REPLAY_SIZE
    BY <1>1, <1>2, <2>1, <2>2, Zenon DEF is_set
  <2>3. CASE f.next < MAX_REPLAY_SIZE
    <3>1. f.idx = f.next /\ ~ f.bits[f.idx]
      BY <1>2, <2>3, ConstantsAssumption DEF FirstLapInv
    <3>2. QED
      BY <1>1, <1>2, <2>1, <2>3, <3>1, ConstantsAssumption, Zenon DEF is_set
  <2>4. CASE f.next = MAX_REPLAY_SIZE
    <3>1. f.idx = 0
      BY <1>2, <2>4 DEF FirstLapInv
    <3>2. 0 \in Held(f)
      BY <2>4, ConstantsAssumption DEF Held
    <3>3. bitmap_index(f, 0) = 0
      BY <1>2, <2>4, <3>1, ConstantsAssumption DEF bitmap_index
    <3>4. is_set(f, 0) => 0 \in D
      BY <3>2, ConstantsAssumption, Zenon DEF SlotInv
    <3>5. QED
      BY <1>1, <1>2, <2>1, <2>4, <3>1, <3>3, <3>4, Zenon DEF is_set
  <2>5. QED
    BY <1>2, <2>2, <2>3, <2>4, ConstantsAssumption
<1>4. ASSUME NEW d \in Held(g), d # f.next
      PROVE  d \in Held(f) /\ (is_set(g, d) <=> is_set(f, d))
  <2>1. d \in Nat /\ d < f.next /\ d + MAX_REPLAY_SIZE >= f.next + 1 /\ d \in 0 .. REJECT_AFTER_MESSAGES
    BY <1>1, <1>2, <1>4, ConstantsAssumption DEF Held
  <2>2. d \in Held(f)
    BY <1>2, <2>1, ConstantsAssumption DEF Held
  <2>3. bitmap_index(g, d) = bitmap_index(f, d) /\ bitmap_index(f, d) # f.idx
    BY <2>1, AdvanceSlots, Zenon
  <2>4. bitmap_index(f, d) \in Slots
    BY <1>2, <2>1, IndexInRing, ConstantsAssumption
  <2>5. g.bits[bitmap_index(f, d)] = f.bits[bitmap_index(f, d)]
    BY <1>1, <1>2, <2>3, <2>4, Zenon
  <2>6. QED
    BY <2>2, <2>3, <2>5, Zenon DEF is_set
<1>5. SlotInv(g, D)
  BY <1>3, <1>4, Zenon DEF SlotInv
<1>6. FirstLapInv(g)
  <2>1. SUFFICES ASSUME f.next < MAX_REPLAY_SIZE
                 PROVE  /\ g.idx = IF g.next = MAX_REPLAY_SIZE THEN 0 ELSE g.next
                        /\ \A s \in Slots : s >= g.next => ~ g.bits[s]
    BY <1>1, <1>2, ConstantsAssumption DEF FirstLapInv
  <2>2. f.idx = f.next /\ \A s \in Slots : s >= f.next => ~ f.bits[s]
    BY <1>2, <2>1, ConstantsAssumption DEF FirstLapInv
  <2>3. g.bits = f.bits
    BY <1>1, <1>2, <2>1, ConstantsAssumption
  <2>4. \A s \in Slots : s >= g.next => s >= f.next
    BY <1>1, <1>2 DEF Slots
  <2>5. QED
    BY <1>1, <2>2, <2>3, <2>4, Zenon
<1>7. QED
  BY <1>5, <1>6, Zenon

\* A jump empties the ring: the counters delivered before it are out of reach.
LEMMA JumpKeepsRing ==
  ASSUME NEW c \in 0 .. REJECT_AFTER_MESSAGES, c >= MAX_REPLAY_SIZE, NEW D,
         \A d \in D : d \in Nat /\ d + MAX_REPLAY_SIZE <= c
  PROVE  /\ JumpTo(c) \in Filter
         /\ JumpTo(c).next = c + 1
         /\ SlotInv(JumpTo(c), D \cup {c})
         /\ FirstLapInv(JumpTo(c))
<1> DEFINE e == [next |-> c + 1, idx |-> 0, bits |-> [s \in Slots |-> FALSE]]
<1>1. e \in Filter
  BY ConstantsAssumption DEF Filter, Slots
<1>2. JumpTo(c) = set(e, c)
  <2>1. Add64(c, 1) = c + 1
    BY ConstantsAssumption DEF Add64
  <2>2. QED
    BY <2>1, Zenon DEF JumpTo
<1>3. /\ c \in Held(e)
      /\ c \in Nat
      /\ c < e.next
      /\ c + MAX_REPLAY_SIZE >= e.next
  BY ConstantsAssumption DEF Held
<1>4. SlotInv(e, D)
  <2>1. ASSUME NEW d \in Held(e)
        PROVE  d \notin D /\ ~ is_set(e, d)
    <3>1. d \in Nat /\ d < e.next /\ d + MAX_REPLAY_SIZE >= c + 1
      BY ConstantsAssumption DEF Held
    <3>2. bitmap_index(e, d) \in Slots
      BY <1>1, <3>1, IndexInRing, Zenon
    <3>3. QED
      BY <3>1, <3>2, ConstantsAssumption DEF is_set
  <2>2. QED
    BY <2>1, Zenon DEF SlotInv
<1>5. FirstLapInv(e)
  BY ConstantsAssumption DEF FirstLapInv
<1>6. set(e, c) \in Filter /\ set(e, c).next = c + 1
  BY <1>1, <1>3, SetEffect, Zenon
<1>7. QED
  BY <1>1, <1>2, <1>3, <1>4, <1>5, <1>6, SetKeepsRing, Zenon

-----------------------------------------------------------------------------
\* The invariant of the specification

Inv == TypeOK /\ RingInv

\* A new filter satisfies the invariant.
LEMMA InitInv == Init => Inv
<1> SUFFICES ASSUME Init PROVE Inv
  BY Zenon
<1>1. TypeOK
  BY ConstantsAssumption DEF Init, NewFilter, TypeOK, Slots, Counters
<1>2. filter.next = 0 /\ filter.idx = 0 /\ \A s \in Slots : ~ filter.bits[s]
  BY Zenon DEF Init, NewFilter
<1>3. LoopInv
  BY <1>2, ConstantsAssumption DEF Init, LoopInv
<1>4. Held(filter) = {}
  BY <1>2 DEF Held
<1>5. FirstLapInv(filter)
  BY <1>2, ConstantsAssumption, Zenon DEF FirstLapInv
<1>6. QED
  BY <1>1, <1>3, <1>4, <1>5, Zenon DEF Inv, RingInv, SlotInv

\* A counter that can_accept lets through is ahead of next or in the window,
\* and is not one that was delivered.
LEMMA AcceptedIsFresh ==
  ASSUME Inv, pc = "idle", NEW c \in 0 .. REJECT_AFTER_MESSAGES, can_accept(filter, c)
  PROVE  InWindow(c) /\ c \notin delivered
<1>1. filter.next \in Nat
  BY Zenon DEF Inv, TypeOK
<1>2. Add64(c, MAX_REPLAY_SIZE) = c + MAX_REPLAY_SIZE
  BY ConstantsAssumption DEF Add64
<1>3. CASE c >= filter.next
  BY <1>3, Zenon DEF Inv, RingInv, LoopInv, InWindow
<1>4. CASE c < filter.next
  <2>1. c + MAX_REPLAY_SIZE > filter.next /\ ~ is_set(filter, c)
    BY <1>2, <1>4, Zenon DEF can_accept
  <2>2. c \in Held(filter)
    BY <1>1, <1>4, <2>1, ConstantsAssumption DEF Held
  <2>3. QED
    BY <2>1, <2>2, Zenon DEF Inv, RingInv, SlotInv, InWindow
<1>5. QED
  BY <1>1, <1>3, <1>4

\* HandleTransportData: each branch of accept keeps the invariant.
LEMMA HandleInv ==
  ASSUME Inv, NEW c \in Counters, HandleTransportData(c)
  PROVE  Inv'
<1>1. /\ pc = "idle"
      /\ c \in 0 .. REJECT_AFTER_MESSAGES
      /\ c \in Nat
      /\ can_accept(filter, c)
      /\ delivered' = delivered \cup {c}
      /\ counter' = c
  BY ConstantsAssumption DEF HandleTransportData, Deliverable, Counters
<1>2. /\ filter \in Filter
      /\ filter.next \in Nat
      /\ delivered \subseteq 0 .. REJECT_AFTER_MESSAGES
      /\ \A d \in delivered : d \in Nat /\ d < filter.next
  BY <1>1 DEF Inv, TypeOK, RingInv, LoopInv, Filter
<1>3. InWindow(c) /\ c \notin delivered
  BY <1>1, AcceptedIsFresh, Zenon
<1>4. SlotInv(filter, delivered) /\ FirstLapInv(filter) /\ filter.next <= REJECT_AFTER_MESSAGES + 1
  BY Zenon DEF Inv, RingInv, LoopInv
<1>5. counter' \in Counters /\ delivered' \subseteq 0 .. REJECT_AFTER_MESSAGES /\ written' \in Nat
  BY <1>1, <1>2 DEF HandleTransportData, Inv, TypeOK
<1>6. CASE c < filter.next /\ filter' = set(filter, c) /\ pc' = "idle"
  <2>1. c \in Held(filter) /\ c + MAX_REPLAY_SIZE >= filter.next
    BY <1>1, <1>2, <1>3, <1>6, ConstantsAssumption DEF Held, InWindow
  <2>2. filter' \in Filter /\ filter'.next = filter.next
    BY <1>1, <1>2, <1>6, <2>1, SetEffect, Zenon
  <2>3. SlotInv(filter', delivered') /\ FirstLapInv(filter')
    BY <1>1, <1>2, <1>4, <1>6, <2>1, SetKeepsRing, Zenon
  <2>4. LoopInv'
    BY <1>1, <1>2, <1>4, <1>6, <2>2 DEF LoopInv
  <2>5. TypeOK'
    BY <1>5, <1>6, <2>2, Zenon DEF TypeOK, Filter
  <2>6. QED
    BY <2>3, <2>4, <2>5, Zenon DEF Inv, RingInv
<1>7. CASE /\ c > filter.next
           /\ c - filter.next >= MAX_REPLAY_SIZE
           /\ filter' = JumpTo(c)
           /\ pc' = "idle"
  <2>1. c >= MAX_REPLAY_SIZE /\ \A d \in delivered : d \in Nat /\ d + MAX_REPLAY_SIZE <= c
    BY <1>1, <1>2, <1>7, ConstantsAssumption
  <2>2. /\ filter' \in Filter
        /\ filter'.next = c + 1
        /\ SlotInv(filter', delivered')
        /\ FirstLapInv(filter')
    BY <1>1, <1>7, <2>1, JumpKeepsRing, Zenon
  <2>3. LoopInv'
    BY <1>1, <1>2, <1>7, <2>2, ConstantsAssumption DEF LoopInv
  <2>4. TypeOK'
    BY <1>5, <1>7, <2>2, Zenon DEF TypeOK, Filter
  <2>5. QED
    BY <2>2, <2>3, <2>4, Zenon DEF Inv, RingInv
<1>8. CASE /\ c >= filter.next
           /\ c - filter.next < MAX_REPLAY_SIZE
           /\ filter' = filter
           /\ pc' = "advance"
  <2>1. \A d \in Held(filter) : d # c
    BY <1>1, <1>2, <1>8, ConstantsAssumption DEF Held
  <2>2. SlotInv(filter', delivered')
    BY <1>1, <1>4, <1>8, <2>1, Zenon DEF SlotInv
  <2>3. LoopInv'
    BY <1>1, <1>2, <1>4, <1>8, ConstantsAssumption DEF LoopInv
  <2>4. TypeOK'
    BY <1>2, <1>5, <1>8, Zenon DEF TypeOK, Filter
  <2>5. QED
    BY <1>4, <1>8, <2>2, <2>3, <2>4, Zenon DEF Inv, RingInv
<1>9. QED
  BY <1>6, <1>7, <1>8, Zenon DEF HandleTransportData

\* What the invariant says inside accept's loop.
LEMMA LoopFacts ==
  ASSUME Inv, pc = "advance"
  PROVE  /\ filter \in Filter
         /\ filter.next \in Nat
         /\ counter \in delivered
         /\ counter \in 0 .. REJECT_AFTER_MESSAGES
         /\ counter >= filter.next
         /\ counter < filter.next + MAX_REPLAY_SIZE
         /\ \A d \in delivered : d \in Nat /\ (d >= filter.next => d = counter)
<1>1. filter \in Filter /\ filter.next \in Nat
  BY Zenon DEF Inv, TypeOK, Filter
<1>2. /\ counter \in delivered
      /\ counter >= filter.next
      /\ counter < filter.next + MAX_REPLAY_SIZE
      /\ \A d \in delivered : d >= filter.next => d = counter
  BY Zenon DEF Inv, RingInv, LoopInv
<1>3. \A d \in delivered : d \in Nat /\ d \in 0 .. REJECT_AFTER_MESSAGES
  BY DEF Inv, TypeOK
<1>4. QED
  BY <1>1, <1>2, <1>3, Zenon

\* AdvanceLoop: the counters it passes over were not delivered.
LEMMA AdvanceInv ==
  ASSUME Inv, AdvanceLoop
  PROVE  Inv'
<1>1. /\ filter \in Filter
      /\ filter.next \in Nat
      /\ counter \in delivered
      /\ counter \in 0 .. REJECT_AFTER_MESSAGES
      /\ counter < filter.next + MAX_REPLAY_SIZE
      /\ filter.next < counter
      /\ \A d \in delivered : d \in Nat /\ (d >= filter.next => d = counter)
  BY LoopFacts, Zenon DEF AdvanceLoop
<1>2. filter.next <= REJECT_AFTER_MESSAGES /\ filter.next \notin delivered
  BY <1>1, ConstantsAssumption
<1>3. filter' \in Filter /\ filter'.next = filter.next + 1
  BY <1>1, <1>2, AdvanceEffect, Zenon DEF AdvanceLoop
<1>4. SlotInv(filter', delivered') /\ FirstLapInv(filter')
  BY <1>1, <1>2, AdvanceKeepsRing, Zenon DEF Inv, RingInv, AdvanceLoop
<1>5. LoopInv'
  <2>1. filter'.next <= REJECT_AFTER_MESSAGES + 1
    BY <1>1, <1>2, <1>3, ConstantsAssumption
  <2>2. counter' \in delivered' /\ counter' >= filter'.next
    BY <1>1, <1>3 DEF AdvanceLoop
  <2>3. counter' < filter'.next + MAX_REPLAY_SIZE
    BY <1>1, <1>3, ConstantsAssumption DEF AdvanceLoop
  <2>4. \A d \in delivered' : d >= filter'.next => d = counter'
    <3>1. delivered' = delivered /\ counter' = counter
      BY Zenon DEF AdvanceLoop
    <3>2. QED
      BY <1>1, <1>3, <3>1
  <2>5. QED
    BY <2>1, <2>2, <2>3, <2>4, Zenon DEF LoopInv, AdvanceLoop
<1>6. TypeOK'
  BY <1>3, Zenon DEF Inv, TypeOK, Filter, AdvanceLoop
<1>7. QED
  BY <1>4, <1>5, <1>6, Zenon DEF Inv, RingInv

\* FinishAccept: the counter enters the ring and its bit is set.
LEMMA FinishInv ==
  ASSUME Inv, FinishAccept
  PROVE  Inv'
<1> DEFINE D == delivered \ {counter}
<1>1. /\ filter \in Filter
      /\ filter.next \in Nat
      /\ counter \in delivered
      /\ counter \in 0 .. REJECT_AFTER_MESSAGES
      /\ filter.next = counter
      /\ \A d \in delivered : d \in Nat /\ (d >= filter.next => d = counter)
  BY LoopFacts DEF FinishAccept
<1>2. SlotInv(filter, D)
  <2>1. \A c \in Held(filter) : c \in Nat /\ c < counter
    BY <1>1 DEF Held
  <2>2. \A c \in Held(filter) : c # counter /\ 0 # counter
    BY <1>1, <2>1, ConstantsAssumption
  <2>3. QED
    BY <2>2, Zenon DEF Inv, RingInv, SlotInv
<1>3. filter.next <= REJECT_AFTER_MESSAGES /\ filter.next \notin D
  BY <1>1
<1>4. advance(filter) \in Filter /\ advance(filter).next = counter + 1
  BY <1>1, <1>3, AdvanceEffect, Zenon
<1>5. SlotInv(advance(filter), D) /\ FirstLapInv(advance(filter))
  BY <1>1, <1>2, <1>3, AdvanceKeepsRing, Zenon DEF Inv, RingInv
<1>6. counter \in Held(advance(filter))
  BY <1>1, <1>4, ConstantsAssumption DEF Held
<1>7. filter' \in Filter /\ filter'.next = counter + 1
  <2>1. counter \in Nat /\ counter < advance(filter).next
                        /\ counter + MAX_REPLAY_SIZE >= advance(filter).next
    BY <1>1, <1>4, ConstantsAssumption
  <2>2. QED
    BY <1>4, <2>1, SetEffect, Zenon DEF FinishAccept
<1>8. SlotInv(filter', D \cup {counter}) /\ FirstLapInv(filter')
  BY <1>4, <1>5, <1>6, SetKeepsRing, Zenon DEF FinishAccept
<1>9. D \cup {counter} = delivered'
  BY <1>1, Zenon DEF FinishAccept
<1>10. LoopInv'
  <2>1. filter'.next <= REJECT_AFTER_MESSAGES + 1
    BY <1>1, <1>7, ConstantsAssumption
  <2>2. \A d \in delivered' : ~ (d >= filter'.next)
    <3>1. delivered' = delivered
      BY Zenon DEF FinishAccept
    <3>2. QED
      BY <1>1, <1>7, <3>1
  <2>3. QED
    BY <2>1, <2>2, Zenon DEF LoopInv, FinishAccept
<1>11. TypeOK'
  BY <1>7, Zenon DEF Inv, TypeOK, Filter, FinishAccept
<1>12. QED
  BY <1>8, <1>9, <1>10, <1>11, Zenon DEF Inv, RingInv

\* Every step of the inbound task keeps it.
LEMMA NextInv == Inv /\ [Next]_vars => Inv'
<1> SUFFICES ASSUME Inv, [Next]_vars PROVE Inv'
  BY Zenon
<1>1. CASE \E c \in Counters : HandleTransportData(c)
  BY <1>1, HandleInv, Zenon
<1>2. CASE AdvanceLoop
  BY <1>2, AdvanceInv, Zenon
<1>3. CASE FinishAccept
  BY <1>3, FinishInv, Zenon
<1>4. CASE UNCHANGED vars
  BY <1>4, Zenon DEF vars, Inv, TypeOK, RingInv, LoopInv, SlotInv, Held, FirstLapInv,
              is_set, bitmap_index
<1>5. QED
  BY <1>1, <1>2, <1>3, <1>4, Zenon DEF Next

\* The inductive invariant: the ring records exactly the delivered counters.
THEOREM FilterInvariance == Spec => []Inv
BY InitInv, NextInv, PTL DEF Spec

-----------------------------------------------------------------------------
\* The theorems

\* The filter stays a well-formed ring: no index of bitmap_index leaves it and
\* next never wraps around u64.
THEOREM FilterTypes == Spec => []TypeOK
<1>1. Inv => TypeOK
  BY Zenon DEF Inv
<1>2. QED
  BY <1>1, FilterInvariance, PTL

\* A counter whose payload went to the TUN device is never accepted again.
THEOREM ReplaysRefused == Spec => []NoReplay
<1>1. Inv => NoReplay
  BY AcceptedIsFresh, Zenon DEF NoReplay, Inv, TypeOK
<1>2. QED
  BY <1>1, FilterInvariance, PTL

\* The only counter in the window the filter refuses without having delivered
\* it is MAX_REPLAY_SIZE, once counter 0 was delivered.
THEOREM RefusalsExact == Spec => []FalseRefusalOnlyAtFirstWrap
<1>1. Inv => FalseRefusalOnlyAtFirstWrap
  <2>1. SUFFICES ASSUME Inv, pc = "idle", NEW c \in 0 .. REJECT_AFTER_MESSAGES,
                        InWindow(c), c \notin delivered, ~ can_accept(filter, c)
                 PROVE  c = MAX_REPLAY_SIZE /\ 0 \in delivered
    BY Zenon DEF FalseRefusalOnlyAtFirstWrap
  <2>2. filter.next \in Nat /\ Add64(c, MAX_REPLAY_SIZE) = c + MAX_REPLAY_SIZE
    BY <2>1, ConstantsAssumption DEF Inv, TypeOK, Add64
  <2>3. c < filter.next /\ c + MAX_REPLAY_SIZE > filter.next /\ is_set(filter, c)
    BY <2>1, <2>2, ConstantsAssumption DEF can_accept, InWindow
  <2>4. c \in Held(filter)
    BY <2>2, <2>3, ConstantsAssumption DEF Held
  <2>5. QED
    BY <2>1, <2>3, <2>4, Zenon DEF Inv, RingInv, SlotInv
<1>2. QED
  BY <1>1, FilterInvariance, PTL

-----------------------------------------------------------------------------
\* Refinement

Top == IF pc = "advance" THEN counter + 1 ELSE filter.next

\* A packet handed to the TUN device is a delivery of the sliding window.
LEMMA HandleIsDeliver ==
  ASSUME Inv, NEW c \in Counters, HandleTransportData(c)
  PROVE  Abstract!Deliver(c)
<1>1. /\ pc = "idle"
      /\ c \in 0 .. REJECT_AFTER_MESSAGES
      /\ c \in Nat
      /\ can_accept(filter, c)
      /\ delivered' = delivered \cup {c}
      /\ written' = written + 1
      /\ counter' = c
  BY ConstantsAssumption DEF HandleTransportData, Deliverable, Counters
<1>2. InWindow(c) /\ c \notin delivered
  BY <1>1, AcceptedIsFresh, Zenon
<1>3. filter \in Filter /\ filter.next \in Nat
  BY Zenon DEF Inv, TypeOK, Filter
<1>4. Top = filter.next
  BY <1>1, Zenon DEF Top
<1>5. Top' = IF c >= filter.next THEN c + 1 ELSE filter.next
  <2>1. CASE c < filter.next /\ filter' = set(filter, c) /\ pc' = "idle"
    <3>1. c + MAX_REPLAY_SIZE >= filter.next
      BY <1>1, <1>2, <1>3, <2>1, ConstantsAssumption DEF InWindow
    <3>2. filter'.next = filter.next
      BY <1>1, <1>3, <2>1, <3>1, SetEffect, Zenon
    <3>3. QED
      BY <1>1, <1>3, <2>1, <3>2 DEF Top
  <2>2. CASE /\ c > filter.next
             /\ filter' = JumpTo(c)
             /\ pc' = "idle"
    <3>1. filter'.next = c + 1
      BY <1>1, <2>2, ConstantsAssumption DEF JumpTo, set, PutBit, Add64
    <3>2. QED
      BY <1>1, <1>3, <2>2, <3>1 DEF Top
  <2>3. CASE c >= filter.next /\ pc' = "advance"
    BY <1>1, <1>3, <2>3, Zenon DEF Top
  <2>4. QED
    BY <2>1, <2>2, <2>3, Zenon DEF HandleTransportData
<1>6. QED
  BY <1>1, <1>2, <1>4, <1>5, Zenon DEF Abstract!Deliver, Abstract!InWindow, InWindow, Top

\* The steps of accept's loop do not move the window the TUN device sees.
LEMMA LoopIsStutter ==
  ASSUME Inv, AdvanceLoop \/ FinishAccept
  PROVE  Top' = Top /\ delivered' = delivered /\ written' = written
<1>1. CASE AdvanceLoop
  BY <1>1, Zenon DEF AdvanceLoop, Top
<1>2. CASE FinishAccept
  <2>1. /\ filter \in Filter
        /\ filter.next = counter
        /\ counter \in Nat
        /\ filter.next <= REJECT_AFTER_MESSAGES
    BY <1>2, LoopFacts, ConstantsAssumption DEF FinishAccept
  <2>2. advance(filter) \in Filter /\ advance(filter).next = counter + 1
    BY <2>1, AdvanceEffect, Zenon
  <2>3. counter < advance(filter).next /\ counter + MAX_REPLAY_SIZE >= advance(filter).next
    BY <2>1, <2>2, ConstantsAssumption
  <2>4. filter'.next = counter + 1
    BY <1>2, <2>1, <2>2, <2>3, SetEffect, Zenon DEF FinishAccept
  <2>5. QED
    BY <1>2, <2>4, Zenon DEF FinishAccept, Top
<1>3. QED
  BY <1>1, <1>2, Zenon

\* The ring of bits implements the sliding window: every packet that reaches
\* the TUN device is a delivery ReplayWindow allows.
THEOREM FilterRefinement == Spec => ImplementsReplayWindow
<1>1. Init => Abstract!Init
  BY DEF Init, NewFilter, Abstract!Init
<1>2. Inv /\ [Next]_vars => [Abstract!Next]_<<delivered, written, Top>>
  <2> SUFFICES ASSUME Inv, [Next]_vars
               PROVE  Abstract!Next \/ UNCHANGED <<delivered, written, Top>>
    BY Zenon
  <2>1. CASE \E c \in Counters : HandleTransportData(c)
    BY <2>1, HandleIsDeliver, Zenon DEF Abstract!Next
  <2>2. CASE AdvanceLoop \/ FinishAccept
    BY <2>2, LoopIsStutter, Zenon
  <2>3. CASE UNCHANGED vars
    BY <2>3, Zenon DEF vars, Top
  <2>4. QED
    BY <2>1, <2>2, <2>3, Zenon DEF Next
<1>3. [Abstract!Next]_<<delivered, written, Top>>
        <=> [Abstract!Next]_<<delivered, written, IF pc = "advance" THEN counter + 1 ELSE filter.next>>
  BY Zenon DEF Top
<1>4. QED
  BY <1>1, <1>2, <1>3, FilterInvariance, PTL DEF Spec, ImplementsReplayWindow, Abstract!Spec

-----------------------------------------------------------------------------
\* The timers of the handshakes

\* The monitor of a new peer satisfies the invariant.
LEMMA MonitorInitial == MonitorInit => MonitorInv
<1> SUFFICES ASSUME MonitorInit PROVE MonitorInv
  BY Zenon
<1>1. MonitorTypeOK
  <2>1. now \in Nat /\ last_attempt_at \in Nat /\ last_complete_at \in Nat
    BY MonitorAssumption DEF MonitorInit, Start
  <2>2. attempt_before \in Nat /\ wake \in Nat /\ onlineSince \in Nat /\ initiatedAt \in Nat
    BY MonitorAssumption DEF MonitorInit, Start
  <2>3. QED
    BY <2>1, <2>2, Zenon DEF MonitorInit, MonitorTypeOK
<1>2. QED
  BY <1>1, MonitorAssumption
     DEF MonitorInit, MonitorInv, HandshakeKeepsGoing, AttemptWindowBounded, Overdue,
         elapsed, Start, Pending

\* The timers and the places of the tasks keep their types.
LEMMA MonitorTypes == MonitorTypeOK /\ [MonitorNext]_monitorVars => MonitorTypeOK'
<1> SUFFICES ASSUME MonitorTypeOK, [MonitorNext]_monitorVars
             PROVE  MonitorTypeOK'
  BY Zenon
<1> USE MonitorAssumption DEF MonitorTypeOK, timers
<1>1. CASE AwaitOnline
  BY <1>1, Zenon DEF AwaitOnline
<1>2. CASE Check
  BY <1>2, Zenon DEF Check, ActiveSession
<1>3. CASE ResetSet
  BY <1>3, Zenon DEF ResetSet
<1>4. CASE ResetAdd
  BY <1>4 DEF ResetAdd
<1>5. CASE Decide
  BY <1>5, Zenon DEF Decide, MayAttempt
<1>6. CASE Initiate
  BY <1>6, Zenon DEF Initiate
<1>7. CASE Initiated
  BY <1>7, Zenon DEF Initiated
<1>8. CASE Rest
  BY <1>8 DEF Rest, will_initiate_in, is_max_attempt, ActiveSession
<1>9. CASE WakeUp
  BY <1>9, Zenon DEF WakeUp
<1>10. CASE Responded
  BY <1>10, Zenon DEF Responded
<1>11. CASE Complete
  BY <1>11, Zenon DEF Complete
<1>12. CASE CompleteSet
  BY <1>12, Zenon DEF CompleteSet
<1>13. CASE CompleteAdd
  BY <1>13 DEF CompleteAdd
<1>14. ASSUME NEW v \in BOOLEAN, SetOnline(v) PROVE MonitorTypeOK'
  BY <1>14, Zenon DEF SetOnline
<1>15. CASE TooManyMessages
  BY <1>15, Zenon DEF TooManyMessages
<1>16. CASE Tick
  BY <1>16 DEF Tick, Waiting
<1>17. CASE UNCHANGED monitorVars
  BY <1>17, Zenon DEF monitorVars
<1>18. QED
  BY <1>1, <1>2, <1>3, <1>4, <1>5, <1>6, <1>7, <1>8, <1>9, <1>10, <1>11, <1>12,
     <1>13, <1>14, <1>15, <1>16, <1>17, Zenon DEF MonitorNext

\* Every step of the tasks, of the clock and of the peer keeps the invariant.
LEMMA MonitorStep == MonitorInv /\ [MonitorNext]_monitorVars => MonitorInv'
<1> SUFFICES ASSUME MonitorInv, [MonitorNext]_monitorVars
             PROVE  MonitorInv'
  BY Zenon
<1>0. MonitorTypeOK /\ MonitorTypeOK'
  BY MonitorTypes, Zenon DEF MonitorInv, HandshakeKeepsGoing
<1> USE <1>0, MonitorAssumption
    DEF MonitorInv, HandshakeKeepsGoing, AttemptWindowBounded, Overdue, elapsed, Pending,
        MonitorTypeOK, timers
<1>1. CASE AwaitOnline
  BY <1>1, Zenon DEF AwaitOnline
<1>2. CASE Check
  BY <1>2 DEF Check, ActiveSession
<1>3. CASE ResetSet
  BY <1>3 DEF ResetSet
<1>4. CASE ResetAdd
  BY <1>4 DEF ResetAdd
<1>5. CASE Decide
  BY <1>5, SMTT(30) DEF Decide, MayAttempt
<1>6. CASE Initiate
  BY <1>6, SMTT(30) DEF Initiate
<1>7. CASE Initiated
  BY <1>7, SMTT(30) DEF Initiated
<1>8. CASE Rest
  BY <1>8, SMTT(30) DEF Rest, will_initiate_in, is_max_attempt, ActiveSession
<1>9. CASE WakeUp
  BY <1>9, SMTT(30) DEF WakeUp
<1>10. CASE Responded
  BY <1>10, SMTT(30) DEF Responded
<1>11. CASE Complete
  BY <1>11, SMTT(30) DEF Complete
<1>12. CASE CompleteSet
  BY <1>12 DEF CompleteSet
<1>13. CASE CompleteAdd
  BY <1>13 DEF CompleteAdd
<1>14. ASSUME NEW v \in BOOLEAN, SetOnline(v) PROVE MonitorInv'
  BY <1>14, SMTT(30) DEF SetOnline
<1>15. CASE TooManyMessages
  BY <1>15, Zenon DEF TooManyMessages
<1>16. CASE Tick
  BY <1>16, SMTT(30) DEF Tick, Waiting
<1>17. CASE UNCHANGED monitorVars
  BY <1>17, Zenon DEF monitorVars
<1>18. QED
  BY <1>1, <1>2, <1>3, <1>4, <1>5, <1>6, <1>7, <1>8, <1>9, <1>10, <1>11, <1>12,
     <1>13, <1>14, <1>15, <1>16, <1>17, Zenon DEF MonitorNext

\* While a peer is online without a recent session the task attempts a handshake
\* again and again, and the window of attempts stays bounded, for all durations and
\* interleavings of the two tasks with the clock.
THEOREM HandshakesKeepGoing == MonitorSpec => []HandshakeKeepsGoing
<1>1. MonitorInv => HandshakeKeepsGoing
  BY Zenon DEF MonitorInv
<1>2. QED
  BY <1>1, MonitorInitial, MonitorStep, PTL DEF MonitorSpec

\* Two initiations of the task are REKEY_TIMEOUT apart.
THEOREM InitiationsAreSpaced == MonitorSpec => AttemptsSpaced
<1>1. MonitorInv /\ [MonitorNext]_monitorVars
        => [task # "send" /\ task' = "send" => elapsed(initiatedAt) >= REKEY_TIMEOUT]_monitorVars
  <2> SUFFICES ASSUME MonitorInv, [MonitorNext]_monitorVars, task # "send", task' = "send"
               PROVE  elapsed(initiatedAt) >= REKEY_TIMEOUT
    BY Zenon
  <2>1. task = "initiate"
    BY Zenon DEF MonitorNext, monitorVars, AwaitOnline, Check, ResetSet, ResetAdd, Decide, Initiate,
           Initiated, Rest, WakeUp, Responded, Complete, CompleteSet, CompleteAdd,
           SetOnline, TooManyMessages, Tick
  <2>2. QED
    BY <2>1, MonitorAssumption
       DEF MonitorInv, HandshakeKeepsGoing, MonitorTypeOK, elapsed
<1>2. QED
  BY <1>1, MonitorInitial, MonitorStep, PTL DEF MonitorSpec, AttemptsSpaced

-----------------------------------------------------------------------------
\* The table of the peers

Instance == [key : Keys, allowed : Allowed, cidrs : SUBSET (Nat \X (0 .. Width))]

\* A network is an address and a mask.
LEMMA CidrType ==
  ASSUME NEW a \in Allowed
  PROVE  {Cidr(x[1], x[2]) : x \in a} \in SUBSET (Nat \X (0 .. Width))
<1>1. SUFFICES ASSUME NEW x \in a
               PROVE  Cidr(x[1], x[2]) \in Nat \X (0 .. Width)
  BY Zenon
<1>2. x[1] \in 0 .. 2 ^ Width - 1 /\ x[2] \in 0 .. Width
  BY TableAssumption, Zenon
<1>3. x[1] \in Nat /\ Width - x[2] \in 0 .. Width
  BY <1>2, TableAssumption, PowersArePositive
<1>4. 2 ^ (Width - x[2]) \in Nat \ {0}
  BY <1>3, PowersArePositive, Zenon
<1>5. Truncate(x[1], x[2]) \in Nat
  BY <1>3, <1>4 DEF Truncate
<1>6. QED
  BY <1>2, <1>5, Zenon DEF Cidr

\* What insert does to an entry that exists: it takes back its networks.
LEMMA InsertOld ==
  ASSUME TableTypeOK, NEW k \in DOMAIN peers, NEW a \in Allowed, Insert(k, a)
  PROVE  /\ made' = made /\ tasks' = tasks
         /\ DOMAIN peers' = DOMAIN peers
         /\ \A j \in DOMAIN peers : peers'[j] = peers[j]
         /\ DOMAIN ips' = DOMAIN ips \cup made[peers[k]].cidrs
         /\ \A c \in made[peers[k]].cidrs : ips'[c] = peers[k]
         /\ \A c \in DOMAIN ips \ made[peers[k]].cidrs : ips'[c] = ips[c]
<1>1. /\ made' = made /\ tasks' = tasks
      /\ peers' = Put(peers, {k}, peers[k])
      /\ ips' = Put(ips, made[peers[k]].cidrs, peers[k])
  BY Zenon DEF Insert
<1>2. QED
  BY <1>1, Zenon DEF Put

\* What insert does for a new key: another instance, with the networks it was given.
LEMMA InsertNew ==
  ASSUME TableTypeOK, NEW k \in Keys, k \notin DOMAIN peers, NEW a \in Allowed, Insert(k, a),
         NEW p, p = Len(made) + 1
  PROVE  /\ made' \in Seq(Instance)
         /\ DOMAIN made' = DOMAIN made \cup {p} /\ p \notin DOMAIN made
         /\ \A q \in DOMAIN made : made'[q] = made[q]
         /\ made'[p].key = k /\ made'[p].allowed = a
         /\ made'[p].cidrs = {Cidr(x[1], x[2]) : x \in a}
         /\ tasks' = tasks \cup {p}
         /\ DOMAIN peers' = DOMAIN peers \cup {k} /\ peers'[k] = p
         /\ \A j \in DOMAIN peers : peers'[j] = peers[j]
         /\ DOMAIN ips' = DOMAIN ips \cup made'[p].cidrs
         /\ \A c \in made'[p].cidrs : ips'[c] = p
         /\ \A c \in DOMAIN ips \ made'[p].cidrs : ips'[c] = ips[c]
<1> DEFINE cidrs == {Cidr(x[1], x[2]) : x \in a}
           entry == [key |-> k, allowed |-> a, cidrs |-> cidrs]
<1>1. /\ made' = Append(made, entry) /\ tasks' = tasks \cup {p}
      /\ peers' = Put(peers, {k}, p)
      /\ ips' = Put(ips, cidrs, p)
  BY Zenon DEF Insert
<1>2. entry \in Instance
  BY CidrType, Zenon DEF Instance
<1>3. entry.key = k /\ entry.allowed = a /\ entry.cidrs = cidrs
  BY Zenon
<1> HIDE DEF entry, cidrs
<1>4. made \in Seq(Instance)
  BY Zenon DEF TableTypeOK, Instance
<1>5. /\ made' \in Seq(Instance)
      /\ DOMAIN made' = DOMAIN made \cup {p} /\ p \notin DOMAIN made
      /\ \A q \in DOMAIN made : made'[q] = made[q]
      /\ made'[p] = entry
  BY <1>1, <1>2, <1>4
<1>6. /\ DOMAIN peers' = DOMAIN peers \cup {k} /\ peers'[k] = p
      /\ \A j \in DOMAIN peers : peers'[j] = peers[j]
  BY <1>1, Zenon DEF Put
<1>7. /\ DOMAIN ips' = DOMAIN ips \cup cidrs
      /\ \A c \in cidrs : ips'[c] = p
      /\ \A c \in DOMAIN ips \ cidrs : ips'[c] = ips[c]
  BY <1>1, Zenon DEF Put
<1>8. QED
  BY <1>1, <1>3, <1>5, <1>6, <1>7, Zenon DEF cidrs

\* An insertion keeps the types, and the networks of the peers in the table.
LEMMA InsertKeeps ==
  ASSUME TableInv, NEW k \in Keys, NEW a \in Allowed, Insert(k, a),
         pending' \in Seq(PeerConfig)
  PROVE  TableInv'
<1> DEFINE p == Len(made) + 1
<1>0. TableTypeOK /\ RoutesInv /\ SessionsInv
  BY Zenon DEF TableInv
<1>1. UNCHANGED <<indexes, keys, given, cleared, waited, late>>
  BY Zenon DEF Insert
<1>2. CASE k \in DOMAIN peers
  <2>0. /\ made' = made /\ tasks' = tasks
        /\ DOMAIN peers' = DOMAIN peers
        /\ \A j \in DOMAIN peers : peers'[j] = peers[j]
        /\ DOMAIN ips' = DOMAIN ips \cup made[peers[k]].cidrs
        /\ \A c \in made[peers[k]].cidrs : ips'[c] = peers[k]
        /\ \A c \in DOMAIN ips \ made[peers[k]].cidrs : ips'[c] = ips[c]
    BY <1>0, <1>2, InsertOld, Zenon
  <2> USE <1>0, <1>1, <1>2, <2>0
  <2>1. TableTypeOK'
    <3>1. peers[k] \in DOMAIN made /\ made \in Seq(Instance)
      BY Zenon DEF TableTypeOK, Instance
    <3>2. made[peers[k]].cidrs \in SUBSET (Nat \X (0 .. Width))
      <4>1. made[peers[k]] \in Instance
        BY <3>1
      <4>2. QED
        BY <4>1, Zenon DEF Instance
    <3>3. \A c \in DOMAIN ips' : c \in Nat \X (0 .. Width) /\ ips'[c] \in DOMAIN made'
      BY <3>1, <3>2, Zenon DEF TableTypeOK
    <3>4. QED
      BY <3>3, Zenon DEF TableTypeOK
  <2>2. Current' = Current
    BY SMTT(30) DEF Current, Range
  <2>3. peers[k] \in Current
    BY Zenon DEF Current, Range
  <2>4. RoutesInv'
    BY <2>2, <2>3, Zenon DEF RoutesInv
  <2>5. SessionsInv'
    BY DEF SessionsInv, IndexAgrees
  <2>6. QED
    BY <2>1, <2>4, <2>5, Zenon DEF TableInv
<1>3. CASE k \notin DOMAIN peers
  <2>0. /\ made' \in Seq(Instance)
        /\ DOMAIN made' = DOMAIN made \cup {p} /\ p \notin DOMAIN made
        /\ \A q \in DOMAIN made : made'[q] = made[q]
        /\ made'[p].key = k /\ made'[p].allowed = a
        /\ made'[p].cidrs = {Cidr(x[1], x[2]) : x \in a}
        /\ tasks' = tasks \cup {p}
        /\ DOMAIN peers' = DOMAIN peers \cup {k} /\ peers'[k] = p
        /\ \A j \in DOMAIN peers : peers'[j] = peers[j]
        /\ DOMAIN ips' = DOMAIN ips \cup made'[p].cidrs
        /\ \A c \in made'[p].cidrs : ips'[c] = p
        /\ \A c \in DOMAIN ips \ made'[p].cidrs : ips'[c] = ips[c]
    BY <1>0, <1>3, InsertNew, Zenon
  <2> HIDE DEF p
  <2> USE <1>0, <1>1, <1>3, <2>0
  <2>1. TableTypeOK'
    <3>1. made'[p].cidrs \in SUBSET (Nat \X (0 .. Width))
      BY CidrType, Zenon
    <3>2. \A c \in DOMAIN ips' : c \in Nat \X (0 .. Width) /\ ips'[c] \in DOMAIN made'
      BY <3>1, Zenon DEF TableTypeOK
    <3>3. \A j \in DOMAIN peers' : peers'[j] \in DOMAIN made' /\ made'[peers'[j]].key = j
      BY SMTT(30) DEF TableTypeOK
    <3>4. \A i \in DOMAIN indexes' : indexes'[i] \in DOMAIN made'
      BY Zenon DEF TableTypeOK
    <3>5. tasks' \cup cleared' \subseteq DOMAIN made'
      BY Zenon DEF TableTypeOK
    <3>6. QED
      BY <3>2, <3>3, <3>4, <3>5, Zenon DEF TableTypeOK, Instance
  <2>2. Current' = Current \cup {p} /\ Current \subseteq DOMAIN made
    BY SMTT(30) DEF Current, Range, TableTypeOK
  <2>3. RoutesInv'
    <3>1. \A q \in DOMAIN made' :
            made'[q].cidrs = {Cidr(x[1], x[2]) : x \in made'[q].allowed}
      BY Zenon DEF RoutesInv
    <3>2. \A c \in DOMAIN ips' : ips'[c] \in Current' /\ c \in made'[ips'[c]].cidrs
      BY <2>2 DEF RoutesInv, TableTypeOK
    <3>3. \A q \in Current' : made'[q].cidrs \subseteq DOMAIN ips'
      BY <2>2, Zenon DEF RoutesInv
    <3>4. QED
      BY <3>1, <3>2, <3>3, Zenon DEF RoutesInv
  <2>4. SessionsInv'
    <3>1. IndexAgrees'
      <4>1. /\ UNCHANGED <<indexes, keys>> /\ IndexAgrees
            /\ \A i \in DOMAIN indexes : indexes[i] \in DOMAIN made
        BY Zenon DEF SessionsInv, TableTypeOK
      <4>2. \A q \in DOMAIN made : made'[q] = made[q]
        BY Zenon
      <4>3. \A i \in DOMAIN indexes : made'[indexes'[i]].key = made[indexes[i]].key
        BY <4>1, <4>2, Zenon
      <4>4. QED
        BY ONLY <4>1, <4>3 DEF IndexAgrees
    <3>2. ASSUME NEW q \in DOMAIN made' \ cleared'
          PROVE  made'[q].key \in DOMAIN peers' /\ peers'[made'[q].key] = q
      <4>1. CASE q = p
        BY <4>1, Zenon
      <4>2. CASE q # p
        <5>1. q \in DOMAIN made \ cleared /\ made'[q] = made[q]
          BY <4>2, Zenon
        <5>2. made[q].key \in DOMAIN peers /\ peers[made[q].key] = q
          BY <5>1, Zenon DEF SessionsInv
        <5>3. QED
          BY <5>1, <5>2, Zenon
      <4>3. QED
        BY <4>1, <4>2, Zenon
    <3>3. QED
      BY <3>1, <3>2, Zenon DEF SessionsInv
  <2>5. QED
    BY <2>1, <2>3, <2>4, Zenon DEF TableInv
<1>4. QED
  BY <1>2, <1>3, Zenon

\* A session that is activated is entered in both maps.
LEMMA ActivateKeeps ==
  ASSUME TableInv, NEW p \in DOMAIN made, Activate(p)
  PROVE  TableInv'
<1> DEFINE k == made[p].key
           i0 == given + 1
<1>0. TableTypeOK /\ RoutesInv /\ SessionsInv
  BY Zenon DEF TableInv
<1>1. UNCHANGED <<made, peers, ips, tasks, cleared, waited, pending>>
  BY Zenon DEF Activate
<1>2. /\ given' = i0 /\ given \in Nat
      /\ late' = IF p \in cleared THEN late \cup {i0} ELSE late
      /\ DOMAIN indexes' = DOMAIN indexes \cup {i0} /\ indexes'[i0] = p
      /\ \A i \in DOMAIN indexes \ {i0} : indexes'[i] = indexes[i]
      /\ DOMAIN keys' = DOMAIN keys \cup {k}
      /\ \A j \in DOMAIN keys \ {k} : keys'[j] = keys[j]
      /\ keys'[k] = (IF k \in DOMAIN keys THEN keys[k] ELSE {}) \cup {i0}
  BY <1>0, Zenon DEF Activate, Put, TableTypeOK
<1>3. DOMAIN indexes \cup late \subseteq 1 .. given /\ 1 .. i0 = (1 .. given) \cup {i0} /\ i0 \notin 1 .. given
  BY <1>0, <1>2, SMTT(30) DEF TableTypeOK
<1> HIDE DEF i0, k
<1>4. TableTypeOK'
  <2>1. DOMAIN indexes' \cup late' \subseteq 1 .. given'
    BY <1>2, <1>3, Zenon
  <2>2. \A i \in DOMAIN indexes' : indexes'[i] \in DOMAIN made'
    BY <1>0, <1>1, <1>2, Zenon DEF TableTypeOK
  <2>3. given' \in Nat
    BY <1>2, SMTT(30) DEF i0
  <2>4. QED
    BY <1>0, <1>1, <2>1, <2>2, <2>3, Zenon DEF TableTypeOK
<1>5. RoutesInv'
  BY <1>0, <1>1, Zenon DEF RoutesInv, Current
<1>6. IndexAgrees'
  <2> USE <1>0, <1>1, <1>2, <1>3 DEF SessionsInv, IndexAgrees
  <2>1. ASSUME NEW i \in DOMAIN indexes'
        PROVE  made'[indexes'[i]].key \in DOMAIN keys' /\ i \in keys'[made'[indexes'[i]].key]
    <3>1. CASE i = i0
      BY <3>1, Zenon DEF k
    <3>2. CASE i # i0
      <4>1. i \in DOMAIN indexes /\ made'[indexes'[i]].key = made[indexes[i]].key
        BY <3>2, Zenon
      <4>2. made[indexes[i]].key \in DOMAIN keys /\ i \in keys[made[indexes[i]].key]
        BY <4>1, Zenon
      <4>3. CASE made[indexes[i]].key = k
        BY <4>1, <4>2, <4>3, Zenon
      <4>4. CASE made[indexes[i]].key # k
        <5>1. keys'[made[indexes[i]].key] = keys[made[indexes[i]].key]
          BY <4>2, <4>4, Zenon
        <5>2. QED
          BY <4>1, <4>2, <5>1, Zenon
      <4>5. QED
        BY <4>3, <4>4, Zenon
    <3>3. QED
      BY <3>1, <3>2, Zenon
  <2>2. ASSUME NEW j \in DOMAIN keys', NEW i \in keys'[j]
        PROVE  i \in DOMAIN indexes' /\ made'[indexes'[i]].key = j
    <3>1. CASE i = i0
      <4>1. j = k
        BY <3>1, SMTT(30)
      <4>2. QED
        BY <3>1, <4>1, Zenon DEF k
    <3>2. CASE i # i0
      <4>1. j \in DOMAIN keys /\ i \in keys[j]
        BY <3>2, SMTT(30)
      <4>2. QED
        BY <3>2, <4>1, SMTT(30)
    <3>3. QED
      BY <3>1, <3>2, Zenon
  <2>3. QED
    BY <2>1, <2>2, Zenon
<1>7. SessionsInv'
  <2>1. \A i \in DOMAIN indexes' \ late' : indexes'[i] \notin cleared'
    BY <1>0, <1>1, <1>2, <1>3, Zenon DEF SessionsInv
  <2>2. QED
    BY <1>0, <1>1, <1>6, <2>1, Zenon DEF SessionsInv
<1>8. QED
  BY <1>4, <1>5, <1>7, Zenon DEF TableInv

\* A session that is deactivated is taken out of both maps.
LEMMA DeactivateKeeps ==
  ASSUME TableInv, NEW p \in DOMAIN made, NEW i0, Deactivate(p, i0)
  PROVE  TableInv'
<1> DEFINE k == made[p].key
<1>0. TableTypeOK /\ RoutesInv /\ SessionsInv
  BY Zenon DEF TableInv
<1>1. UNCHANGED <<made, peers, ips, given, tasks, cleared, waited, pending, late>>
  BY Zenon DEF Deactivate
<1>2. i0 \in DOMAIN indexes /\ indexes[i0] = p /\ k \in DOMAIN keys /\ i0 \in keys[k]
  BY <1>0, Zenon DEF Deactivate, SessionsInv, IndexAgrees
<1>3. /\ DOMAIN indexes' = DOMAIN indexes \ {i0}
      /\ \A i \in DOMAIN indexes' : indexes'[i] = indexes[i]
      /\ DOMAIN keys' = DOMAIN keys /\ keys'[k] = keys[k] \ {i0}
      /\ \A j \in DOMAIN keys \ {k} : keys'[j] = keys[j]
  BY <1>2, Zenon DEF Deactivate
<1>4. TableTypeOK'
  BY <1>0, <1>1, <1>3, Zenon DEF TableTypeOK
<1>5. RoutesInv'
  BY <1>0, <1>1, Zenon DEF RoutesInv, Current
<1>6. IndexAgrees'
  <2>1. IndexAgrees
    BY <1>0, Zenon DEF SessionsInv
  <2>2. ASSUME NEW i \in DOMAIN indexes'
        PROVE  made'[indexes'[i]].key \in DOMAIN keys' /\ i \in keys'[made'[indexes'[i]].key]
    <3>1. i \in DOMAIN indexes /\ i # i0 /\ made'[indexes'[i]].key = made[indexes[i]].key
      BY <1>1, <1>3, Zenon
    <3>2. made[indexes[i]].key \in DOMAIN keys /\ i \in keys[made[indexes[i]].key]
      BY <2>1, <3>1, Zenon DEF IndexAgrees
    <3>3. CASE made[indexes[i]].key = k
      BY <1>3, <3>1, <3>2, <3>3, Zenon
    <3>4. CASE made[indexes[i]].key # k
      <4>1. keys'[made[indexes[i]].key] = keys[made[indexes[i]].key]
        BY <1>3, <3>2, <3>4, Zenon
      <4>2. QED
        BY <1>3, <3>1, <3>2, <4>1, Zenon
    <3>5. QED
      BY <3>3, <3>4, Zenon
  <2>3. ASSUME NEW j \in DOMAIN keys', NEW i \in keys'[j]
        PROVE  i \in DOMAIN indexes' /\ made'[indexes'[i]].key = j
    <3>1. j \in DOMAIN keys /\ i \in keys[j] /\ (j = k => i # i0)
      BY <1>3, Zenon
    <3>2. i \in DOMAIN indexes /\ made[indexes[i]].key = j
      BY <2>1, <3>1, Zenon DEF IndexAgrees
    <3>3. i # i0
      BY <1>2, <3>1, <3>2, Zenon
    <3>4. QED
      BY <1>1, <1>3, <3>2, <3>3, Zenon
  <2>4. QED
    BY <2>2, <2>3, Zenon DEF IndexAgrees
<1>7. SessionsInv'
  BY <1>0, <1>1, <1>3, <1>6, Zenon DEF SessionsInv
<1>8. QED
  BY <1>4, <1>5, <1>7, Zenon DEF TableInv

\* The list that reset_peers clears holds nothing, and every peer it held counts as
\* cleared.
LEMMA ResetKeeps ==
  ASSUME TableInv, NEW cfg \in Configs, ResetPeers(cfg)
  PROVE  TableInv'
<1>0. TableTypeOK /\ RoutesInv /\ SessionsInv
  BY Zenon DEF TableInv
<1>1. UNCHANGED <<made, given, tasks, waited, late>> /\ pending' = cfg
  BY Zenon DEF ResetPeers
<1>2. DOMAIN peers' = {} /\ DOMAIN ips' = {} /\ DOMAIN indexes' = {} /\ DOMAIN keys' = {}
  BY Zenon DEF ResetPeers, Empty, ClearedIps, ClearedIndexes, ClearedKeys
<1>3. cleared' = cleared \cup Current /\ Current \subseteq DOMAIN made /\ Current' = {}
  BY <1>0, <1>2, Zenon DEF ResetPeers, Current, Range, TableTypeOK
<1>4. TableTypeOK'
  BY <1>0, <1>1, <1>2, <1>3, TableAssumption, Zenon DEF TableTypeOK
<1>5. RoutesInv'
  BY <1>0, <1>1, <1>2, <1>3, Zenon DEF RoutesInv
<1>6. SessionsInv'
  <2>1. DOMAIN made \subseteq cleared'
    BY <1>0, <1>3, Zenon DEF SessionsInv, Current, Range
  <2>2. QED
    BY <1>1, <1>2, <2>1, Zenon DEF SessionsInv, IndexAgrees
<1>7. QED
  BY <1>4, <1>5, <1>6, Zenon DEF TableInv

\* Every step keeps the invariant of the table.
LEMMA TableStep == TableInv /\ [TableNext]_tableVars => TableInv'
<1> SUFFICES ASSUME TableInv, [TableNext]_tableVars
             PROVE  TableInv'
  BY Zenon
<1>1. ASSUME NEW k \in Keys, NEW a \in Allowed, InsertPeer(k, a)
      PROVE  TableInv'
  BY <1>1, InsertKeeps, Zenon DEF InsertPeer, TableInv, TableTypeOK
<1>2. ASSUME NEW cfg \in Configs, ResetPeers(cfg)
      PROVE  TableInv'
  BY <1>2, ResetKeeps, Zenon
<1>3. CASE ResetInsert
  <2>1. pending \in Seq(PeerConfig) /\ pending # <<>>
    BY <1>3, Zenon DEF ResetInsert, TableInv, TableTypeOK
  <2>2. Head(pending) \in PeerConfig /\ Tail(pending) \in Seq(PeerConfig)
    BY <2>1
  <2>3. Head(pending).key \in Keys /\ Head(pending).allowed \in Allowed
    BY <2>2, Zenon DEF PeerConfig
  <2>4. QED
    BY <1>3, <2>2, <2>3, InsertKeeps, Zenon DEF ResetInsert
<1>4. ASSUME NEW p \in DOMAIN made, Cancel(p)
      PROVE  TableInv'
  BY <1>4, Zenon DEF Cancel, TableInv, TableTypeOK, RoutesInv, SessionsInv, IndexAgrees, Current
<1>5. ASSUME NEW p \in DOMAIN made, TasksEnd(p)
      PROVE  TableInv'
  BY <1>5, Zenon DEF TasksEnd, TableInv, TableTypeOK, RoutesInv, SessionsInv, IndexAgrees, Current
<1>6. ASSUME NEW p \in DOMAIN made, Activate(p)
      PROVE  TableInv'
  BY <1>6, ActivateKeeps, Zenon
<1>7. ASSUME NEW p \in DOMAIN made, NEW i \in 1 .. given, Deactivate(p, i)
      PROVE  TableInv'
  BY <1>7, DeactivateKeeps, Zenon
<1>8. CASE UNCHANGED tableVars
  BY <1>8, Zenon DEF tableVars, TableInv, TableTypeOK, RoutesInv, SessionsInv, IndexAgrees, Current
<1>9. QED
  BY <1>1, <1>2, <1>3, <1>4, <1>5, <1>6, <1>7, <1>8, Zenon DEF TableNext

\* An empty list satisfies the invariant.
LEMMA TableInitial == TableInit => TableInv
<1> SUFFICES ASSUME TableInit PROVE TableInv
  BY Zenon
<1>1. /\ DOMAIN made = {} /\ DOMAIN peers = {} /\ DOMAIN ips = {} /\ DOMAIN indexes = {}
      /\ DOMAIN keys = {} /\ Current = {}
  BY DEF TableInit, Empty, Current, Range
<1>2. TableTypeOK
  BY <1>1 DEF TableInit, TableTypeOK
<1>3. RoutesInv
  BY <1>1, Zenon DEF RoutesInv
<1>4. SessionsInv
  BY <1>1, Zenon DEF SessionsInv, IndexAgrees
<1>5. QED
  BY <1>2, <1>3, <1>4, Zenon DEF TableInv

LEMMA TableInvariant == TableSpec => []TableInv
BY TableInitial, TableStep, PTL DEF TableSpec

\* A session index leads to the peer that made the session, and the maps of
\* SessionIndex agree, for any keys, networks and configurations: reset_peers
\* running against the tasks of the old and the new peers included.
THEOREM SessionsAreOfTheirPeers == TableSpec => []SessionIsOfItsPeer
<1>1. TableInv => SessionIsOfItsPeer
  BY Zenon DEF TableInv, TableTypeOK, SessionsInv, SessionIsOfItsPeer, get_session_by_index, get_by_key
<1>2. QED
  BY <1>1, TableInvariant, PTL

-----------------------------------------------------------------------------
\* Longest-prefix routing

\* Two numbers agree after truncation to a multiple of d if their quotients do.
LEMMA Quotients ==
  ASSUME NEW d \in Nat \ {0}, NEW x \in Nat, NEW y \in Nat
  PROVE  x - (x % d) = y - (y % d) <=> x \div d = y \div d
<1>1. x = d * (x \div d) + (x % d) /\ y = d * (y \div d) + (y % d)
  OBVIOUS
<1>2. x \div d \in Nat /\ y \div d \in Nat /\ x % d \in Nat /\ y % d \in Nat
  OBVIOUS
<1>3. x - (x % d) = d * (x \div d) /\ y - (y % d) = d * (y \div d)
  BY <1>1, <1>2
<1>4. d * (x \div d) = d * (y \div d) => x \div d = y \div d
  BY <1>2
<1>5. QED
  BY <1>3, <1>4, Zenon

\* A network covers an address if and only if the address it was made from agrees
\* with it under the mask.
LEMMA CoversIsAgreement ==
  ASSUME NEW a \in Allowed, NEW x \in a, NEW ip \in 0 .. 2 ^ Width - 1
  PROVE  Covers(Cidr(x[1], x[2]), ip)
           <=> ip \div 2 ^ (Width - x[2]) = x[1] \div 2 ^ (Width - x[2])
<1>1. x[1] \in 0 .. 2 ^ Width - 1 /\ x[2] \in 0 .. Width
  BY TableAssumption, Zenon
<1>2. x[1] \in Nat /\ ip \in Nat /\ Width - x[2] \in 0 .. Width
  BY <1>1, TableAssumption, PowersArePositive
<1>3. 2 ^ (Width - x[2]) \in Nat \ {0}
  BY <1>2, PowersArePositive, Zenon
<1>4. Covers(Cidr(x[1], x[2]), ip) <=> Truncate(ip, x[2]) = Truncate(x[1], x[2])
  BY Zenon DEF Covers, Cidr
<1>5. QED
  BY <1>2, <1>3, <1>4, Quotients, Zenon DEF Truncate

\* longest_match finds a network with the longest mask of a set that is not empty.
LEMMA LongestIsLongest ==
  ASSUME NEW S \in SUBSET (Nat \X (0 .. Width)), S # {}
  PROVE  Longest(S) \in S /\ \A d \in S : d[2] <= Longest(S)[2]
<1> DEFINE T == {Width - c[2] : c \in S}
<1>1. Width \in Nat /\ \A c \in S : c[2] \in 0 .. Width /\ Width - c[2] \in Nat
  BY TableAssumption
<1>2. T \subseteq Nat /\ T # {}
  BY <1>1, Zenon
<1>3. PICK w \in T : \A v \in T : ~ (v < w)
  <2>1. IsWellFoundedOn(OpToRel(<, Nat), Nat)
    BY NatLessThanWellFounded, Zenon
  <2>2. PICK w \in T : \A v \in T : ~ (<<v, w>> \in OpToRel(<, Nat))
    BY <1>2, <2>1, WFMin, Zenon
  <2>3. ASSUME NEW v \in T, v < w PROVE FALSE
    <3>1. v \in Nat /\ w \in Nat
      BY <1>2, Zenon
    <3>2. <<v, w>> \in OpToRel(<, Nat)
      BY <2>3, <3>1, Zenon, Zenon DEF OpToRel
    <3>3. QED
      BY <2>2, <3>2, Zenon
  <2>4. QED
    BY <2>2, <2>3, Zenon
<1>4. PICK c \in S : w = Width - c[2]
  BY <1>3, Zenon
<1>5. \A d \in S : d[2] <= c[2]
  <2>1. ASSUME NEW d \in S PROVE d[2] <= c[2]
    <3>1. Width - d[2] \in T /\ ~ (Width - d[2] < Width - c[2])
      BY <1>3, <1>4, Zenon
    <3>2. QED
      BY <1>1, <3>1
  <2>2. QED
    BY <2>1, Zenon
<1>6. QED
  BY <1>5, Zenon, Zenon DEF Longest

\* A packet goes to the peer with the longest mask that matches, and to nobody only
\* if none matches, for every width of addresses and every sequence of insertions
\* and resets.
THEOREM RoutesAreMostSpecific == TableSpec => []RouteIsMostSpecific
<1>1. TableInv => RouteIsMostSpecific
  <2> SUFFICES ASSUME TableInv, NEW ip \in 0 .. 2 ^ Width - 1
               PROVE  \/ /\ get_by_ip(ip) \in Current
                         /\ \E m \in Masks(get_by_ip(ip), ip) :
                              \A p \in Current : \A n \in Masks(p, ip) : n <= m
                      \/ /\ get_by_ip(ip) = None
                         /\ \A p \in Current : Masks(p, ip) = {}
    BY Zenon DEF RouteIsMostSpecific
  <2> DEFINE S == Matches(DOMAIN ips, ip)
  <2>1. Current \subseteq DOMAIN made
    BY Zenon DEF TableInv, TableTypeOK, Current, Range
  <2>2. ASSUME NEW p \in Current PROVE made[p].allowed \in Allowed
    <3>1. made \in Seq(Instance)
      BY Zenon DEF TableInv, TableTypeOK, Instance
    <3>2. made[p] \in Instance
      BY <2>1, <3>1
    <3>3. QED
      BY <3>2, Zenon DEF Instance
  <2>3. ASSUME NEW p \in Current, NEW n \in Masks(p, ip)
        PROVE  \E c \in S : c[2] = n
    <3>1. PICK x \in made[p].allowed :
            n = x[2] /\ ip \div 2 ^ (Width - x[2]) = x[1] \div 2 ^ (Width - x[2])
      BY Zenon DEF Masks
    <3>2. Cidr(x[1], x[2]) \in made[p].cidrs
      BY <2>1, <3>1, Zenon DEF TableInv, RoutesInv
    <3>3. Cidr(x[1], x[2]) \in DOMAIN ips
      BY <3>2, Zenon DEF TableInv, RoutesInv
    <3>4. Covers(Cidr(x[1], x[2]), ip)
      BY <2>2, <3>1, CoversIsAgreement, Zenon
    <3>5. Cidr(x[1], x[2])[2] = n
      BY <3>1, Zenon DEF Cidr
    <3>6. QED
      BY <3>3, <3>4, <3>5, Zenon DEF Matches
  <2>4. ASSUME NEW c \in S
        PROVE  ips[c] \in Current /\ c[2] \in Masks(ips[c], ip)
    <3>1. c \in DOMAIN ips /\ Covers(c, ip)
      BY Zenon DEF Matches
    <3>2. ips[c] \in Current /\ c \in made[ips[c]].cidrs
      BY <3>1, Zenon DEF TableInv, RoutesInv
    <3>3. PICK x \in made[ips[c]].allowed : c = Cidr(x[1], x[2])
      BY <2>1, <3>2 DEF TableInv, RoutesInv
    <3>4. ip \div 2 ^ (Width - x[2]) = x[1] \div 2 ^ (Width - x[2])
      BY <2>2, <3>1, <3>2, <3>3, CoversIsAgreement, Zenon
    <3>5. c[2] = x[2]
      BY <3>3, Zenon DEF Cidr
    <3>6. QED
      BY <3>2, <3>4, <3>5, Zenon DEF Masks
  <2>5. CASE S = {}
    BY <2>3, <2>5, Zenon DEF get_by_ip
  <2>6. CASE S # {}
    <3>1. S \in SUBSET (Nat \X (0 .. Width))
      BY Zenon DEF Matches, TableInv, TableTypeOK
    <3>2. Longest(S) \in S /\ \A d \in S : d[2] <= Longest(S)[2]
      BY <2>6, <3>1, LongestIsLongest, Zenon
    <3>3. get_by_ip(ip) = ips[Longest(S)]
      BY <2>6, Zenon DEF get_by_ip
    <3>4. get_by_ip(ip) \in Current /\ Longest(S)[2] \in Masks(get_by_ip(ip), ip)
      BY <2>4, <3>2, <3>3, Zenon
    <3>5. \A p \in Current : \A n \in Masks(p, ip) : n <= Longest(S)[2]
      BY <2>3, <3>2, Zenon
    <3>6. QED
      BY <3>4, <3>5, Zenon
  <2>7. QED
    BY <2>5, <2>6, Zenon
<1>2. QED
  BY <1>1, TableInvariant, PTL
=============================================================================
