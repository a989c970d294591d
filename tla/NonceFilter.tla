----------------------------- MODULE NonceFilter -----------------------------
(***************************************************************************)
(* The anti-replay filter of a session (device/peer/session.rs) and its    *)
(* one client, the handler of transport data (device/peer/inbound.rs).     *)
(*                                                                         *)
(* The filter is a ring of MAX_REPLAY_SIZE bits: idx is the slot the next  *)
(* unseen counter will use, and the slots behind it belong to the counters *)
(* behind next.  The handler runs in the only inbound task of the peer, so *)
(* nothing happens to the filter between its check and its update; the     *)
(* while loop of accept is one step per iteration.                         *)
(***************************************************************************)
EXTENDS Naturals

CONSTANTS MAX_REPLAY_SIZE,        \* slots of the ring
          REJECT_AFTER_MESSAGES,  \* larger counters never reach the filter
          U64_MAX,                \* the largest u64
          Keepalives              \* counters the sender used for empty packets

ASSUME ConstantsAssumption ==
  /\ MAX_REPLAY_SIZE \in Nat \ {0}
  /\ REJECT_AFTER_MESSAGES \in Nat
  /\ U64_MAX \in Nat
  /\ REJECT_AFTER_MESSAGES + MAX_REPLAY_SIZE < U64_MAX

VARIABLES filter,     \* the NonceFilter: next, bits and idx
          pc,         \* where the inbound task is: "idle" or in accept's loop
          counter,    \* the counter accept was called with
          delivered,  \* history: the counters whose payload went to the TUN
          written     \* history: how many payloads went to the TUN

vars == <<filter, pc, counter, delivered, written>>

Slots == 0 .. MAX_REPLAY_SIZE - 1
Counters == 0 .. U64_MAX

\* u64 addition, wrapping as the release build does.
Add64(a, b) == IF a + b <= U64_MAX THEN a + b ELSE a + b - (U64_MAX + 1)

-----------------------------------------------------------------------------
\* NonceFilter

NewFilter == [next |-> 0, bits |-> [s \in Slots |-> FALSE], idx |-> 0]

bitmap_index(f, i) ==
  LET offset == f.next - i
  IN  IF f.idx >= offset THEN f.idx - offset ELSE MAX_REPLAY_SIZE + f.idx - offset

is_set(f, i) == f.bits[bitmap_index(f, i)]

PutBit(f, i, b) ==
  [next |-> f.next, idx |-> f.idx, bits |-> [f.bits EXCEPT ![bitmap_index(f, i)] = b]]
set(f, i)   == PutBit(f, i, TRUE)
unset(f, i) == PutBit(f, i, FALSE)

can_accept(f, c) ==
  c < f.next => Add64(c, MAX_REPLAY_SIZE) > f.next /\ ~ is_set(f, c)

advance(f) ==
  LET g == IF f.next > MAX_REPLAY_SIZE THEN unset(f, f.next - MAX_REPLAY_SIZE) ELSE f
  IN  [next |-> Add64(f.next, 1),
       idx  |-> (f.idx + 1) % MAX_REPLAY_SIZE,
       bits |-> g.bits]

\* Mutant: the ring is moved but keeps its old bits.
JumpTo_KeepBits(c) ==
  set([next |-> Add64(c, 1), idx |-> 0, bits |-> filter.bits], c)

\* accept's second branch: the counter is so far ahead that the ring is emptied.
JumpTo(c) ==
  set([next |-> Add64(c, 1), idx |-> 0, bits |-> [s \in Slots |-> FALSE]], c)

-----------------------------------------------------------------------------
\* The inbound task

Init ==
  /\ filter = NewFilter
  /\ pc = "idle"
  /\ counter = 0
  /\ delivered = {}
  /\ written = 0

\* The packet passed the counter limit of tick_inbound and the filter, and its
\* payload is not empty: it is sent to the TUN device, whether or not that
\* succeeds, and accept is entered.  An empty payload is dropped before accept.
Deliverable(c) ==
  /\ pc = "idle"
  /\ c <= REJECT_AFTER_MESSAGES
  /\ can_accept(filter, c)
  /\ c \notin Keepalives

HandleTransportData(c) ==
  /\ Deliverable(c)
  /\ delivered' = delivered \cup {c}
  /\ written' = written + 1
  /\ counter' = c
  /\ \/ /\ c < filter.next
        /\ filter' = set(filter, c)
        /\ pc' = "idle"
     \/ /\ c > filter.next
        /\ c - filter.next >= MAX_REPLAY_SIZE
        /\ filter' = JumpTo(c)
        /\ pc' = "idle"
     \/ /\ c >= filter.next
        /\ c - filter.next < MAX_REPLAY_SIZE
        /\ filter' = filter
        /\ pc' = "advance"

\* while next < counter
AdvanceLoop ==
  /\ pc = "advance"
  /\ filter.next < counter
  /\ filter' = advance(filter)
  /\ UNCHANGED <<pc, counter, delivered, written>>

\* Mutant: the bit of the counter is not set after the last advance.
FinishAccept_NoSet ==
  /\ pc = "advance"
  /\ filter.next >= counter
  /\ filter' = advance(filter)
  /\ pc' = "idle"
  /\ UNCHANGED <<counter, delivered, written>>

\* the last advance, then the bit of the counter
FinishAccept ==
  /\ pc = "advance"
  /\ filter.next >= counter
  /\ filter' = set(advance(filter), counter)
  /\ pc' = "idle"
  /\ UNCHANGED <<counter, delivered, written>>

Next ==
  \/ \E c \in Counters : HandleTransportData(c)
  \/ AdvanceLoop
  \/ FinishAccept

Spec == Init /\ [][Next]_vars

-----------------------------------------------------------------------------
\* Properties

\* The filter is a well-formed ring and the task is in one of its two places.
TypeOK ==
  /\ filter \in [next : Nat, bits : [Slots -> BOOLEAN], idx : Slots]
  /\ pc \in {"idle", "advance"}
  /\ counter \in Counters
  /\ delivered \subseteq 0 .. REJECT_AFTER_MESSAGES
  /\ written \in Nat

\* A counter whose payload went to the TUN device is refused from then on, over
\* any number of wraps of the ring and jumps of the window (can_accept/accept).
NoReplay == pc = "idle" => \A c \in delivered : ~ can_accept(filter, c)

\* The counter is ahead of the window or in it.
InWindow(c) == c >= filter.next \/ c + MAX_REPLAY_SIZE > filter.next

\* The filter wrongly refuses a counter that is in the window and was never
\* delivered in one case only: counter MAX_REPLAY_SIZE after counter 0, because
\* advance clears a slot only when next is strictly above MAX_REPLAY_SIZE.
FalseRefusalOnlyAtFirstWrap ==
  pc = "idle" =>
    \A c \in 0 .. REJECT_AFTER_MESSAGES :
      InWindow(c) /\ c \notin delivered /\ ~ can_accept(filter, c)
        => c = MAX_REPLAY_SIZE /\ 0 \in delivered

\* The argument behind the two properties above, inductive on its own: accept's
\* loop never runs past its counter, only that counter may lie ahead of the
\* ring, and each of the MAX_REPLAY_SIZE counters behind next owns one slot,
\* set exactly when the counter was delivered (or inherited at the first wrap).
LoopInv ==
  /\ filter.next <= REJECT_AFTER_MESSAGES + 1
  /\ pc = "advance" =>
       /\ counter \in delivered
       /\ counter >= filter.next
       /\ counter < filter.next + MAX_REPLAY_SIZE
  /\ \A c \in delivered : c >= filter.next => pc = "advance" /\ c = counter

Held(f) == {c \in 0 .. REJECT_AFTER_MESSAGES :
              c < f.next /\ c + MAX_REPLAY_SIZE >= f.next}

SlotInv(f, D) ==
  /\ \A c \in Held(f) : c \in D => is_set(f, c)
  /\ \A c \in Held(f) : is_set(f, c) => c \in D \/ (c = MAX_REPLAY_SIZE /\ 0 \in D)

FirstLapInv(f) ==
  f.next <= MAX_REPLAY_SIZE =>
    /\ f.idx = IF f.next = MAX_REPLAY_SIZE THEN 0 ELSE f.next
    /\ \A s \in Slots : s >= f.next => ~ f.bits[s]

RingInv == LoopInv /\ SlotInv(filter, delivered) /\ FirstLapInv(filter)

\* What the test of the filter asserts of every counter it has not seen yet
\* (session.rs:393): the filter accepts it.
FreshCounterAccepted ==
  pc = "idle" =>
    \A c \in 0 .. REJECT_AFTER_MESSAGES :
      InWindow(c) /\ c \notin delivered => can_accept(filter, c)

\* The ring implements the sliding window of ReplayWindow: every payload written
\* to the TUN device is a delivery the window allows, so none is written twice.
\* While accept is in its loop the window has already moved past the counter
\* being accepted.
Abstract == INSTANCE ReplayWindow
              WITH Window <- MAX_REPLAY_SIZE,
                   Counters <- Counters,
                   got <- delivered,
                   handed <- written,
                   top <- IF pc = "advance" THEN counter + 1 ELSE filter.next
ImplementsReplayWindow == Abstract!Spec
=============================================================================
