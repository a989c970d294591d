-------------------------- MODULE AtMostOnceChannel --------------------------
(***************************************************************************)
(* What a tunnel promises the TUN devices it connects: a payload that      *)
(* comes out was put in before, and it comes out at most once.  Payloads   *)
(* may be lost and may overtake each other.                                *)
(***************************************************************************)
EXTENDS Naturals

VARIABLES sent,       \* the set of payloads put in
          received    \* how often each payload came out

Init == sent = {} /\ received = [d \in {} |-> 0]

Put ==
  \E d \in sent' \ sent :
    /\ sent' = sent \cup {d}
    /\ received' = received

Get ==
  \E d \in sent \ DOMAIN received :
    /\ received' = [e \in DOMAIN received \cup {d} |-> IF e = d THEN 1 ELSE received[e]]
    /\ sent' = sent

Next == Put \/ Get

Spec == Init /\ [][Next]_<<sent, received>>
=============================================================================
