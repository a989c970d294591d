---------------------------- MODULE ReplayWindow ----------------------------
(***************************************************************************)
(* What the anti-replay filter of a session promises the TUN device: a     *)
(* transport packet is handed over at most once, and only while its        *)
(* counter is ahead of everything received or inside the sliding window.   *)
(***************************************************************************)
EXTENDS Naturals

CONSTANTS Window,    \* how far behind the newest counter a packet may still be
          Counters   \* the counters a packet may carry
VARIABLES got,     \* the counters handed to the TUN device so far
          handed,  \* how many packets were handed to it
          top      \* one more than the largest of them (0 when there is none)

InWindow(c) == c >= top \/ c + Window > top

Init == got = {} /\ handed = 0 /\ top = 0

Deliver(c) ==
  /\ c \notin got
  /\ InWindow(c)
  /\ got' = got \cup {c}
  /\ handed' = handed + 1
  /\ top' = IF c >= top THEN c + 1 ELSE top

Next == \E c \in Counters : Deliver(c)

Spec == Init /\ [][Next]_<<got, handed, top>>
=============================================================================
