---------------------------- MODULE ActiveSession ----------------------------
(***************************************************************************)
(* The four session slots a peer keeps and the table that finds a session  *)
(* by its local index (device/peer/session.rs).                            *)
(*                                                                         *)
(* Every operation runs under the lock of the peer's ActiveSession and is  *)
(* a function from the slots and the table before it to those after it.    *)
(* The table belongs to the device and is shared by all its peers: it is a *)
(* set of sessions with distinct local indices.                            *)
(***************************************************************************)

CONSTANT None      \* an empty slot

NewActiveSession == [uninit |-> None, previous |-> None, current |-> None, next |-> None]

\* The sessions in the slots.
Live(a) == {a.uninit, a.previous, a.current, a.next} \ {None}

-----------------------------------------------------------------------------
\* SessionIndex

remove(index, i) == {e \in index : e.local # i}
insert(index, session) == remove(index, session.local) \cup {session}

\* deactivate_uninit, deactivate_previous and deactivate_next: an empty slot is
\* not in the table.
deactivate(index, slot) == IF slot = None THEN index ELSE remove(index, slot.local)

-----------------------------------------------------------------------------
\* ActiveSession: a is the slots, x the table, s the session

\* Initiator: remember the session whose response has not come yet.
prepare_uninit(a, s) ==
  [uninit |-> s, previous |-> a.previous, current |-> a.current, next |-> a.next]
prepare_uninit_index(a, x, s) == insert(deactivate(x, a.uninit), s)

\* Mutant: the index of the session is not compared.
completes_uninit_AnyIndex(a, s) == a.uninit # None

\* Mutant: the previous session stays in the table.
complete_uninit_index_KeepPrevious(a, x, s) == insert(deactivate(x, a.uninit), s)

\* Initiator: the response of that very session has come.
completes_uninit(a, s) == a.uninit # None /\ a.uninit.local = s.local
complete_uninit(a, s) ==
  [uninit |-> None, previous |-> a.current, current |-> s, next |-> a.next]
complete_uninit_index(a, x, s) ==
  deactivate(insert(deactivate(x, a.uninit), s), a.previous)

\* Mutant: the responder uses the session before it is confirmed.
prepare_next_AsCurrent(a, s) ==
  [uninit |-> a.uninit, previous |-> a.current, current |-> s, next |-> a.next]

\* Responder: a session the initiator has not confirmed yet.  An earlier
\* unconfirmed one becomes the previous session.
prepare_next(a, s) ==
  [uninit |-> a.uninit, previous |-> IF a.next = None THEN a.previous ELSE a.next,
   current |-> a.current, next |-> s]
prepare_next_index(a, x, s) ==
  insert(IF a.next = None THEN x ELSE deactivate(x, a.previous), s)

\* Mutant: any session but the current one is taken for the next one.
completes_next_NotCurrent(a, s) == a.current = None \/ a.current.local # s.local

\* Responder: the first transport packet of that very session has come.
completes_next(a, s) == a.next # None /\ a.next.local = s.local
complete_next(a, s) ==
  [uninit |-> a.uninit, previous |-> a.current, current |-> s, next |-> None]
complete_next_index(a, x, s) ==
  insert(deactivate(deactivate(x, a.next), a.previous), s)
=============================================================================
