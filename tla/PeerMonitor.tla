----------------------------- MODULE PeerMonitor -----------------------------
(***************************************************************************)
(* When a peer's handshake task initiates: the timers of                   *)
(* device/peer/monitor.rs and the loop that reads them                     *)
(* (device/peer/handler.rs).                                               *)
(*                                                                         *)
(* Time is discrete and passes only when the task has nothing to do: it    *)
(* waits for the peer to be online, sleeps, or is blocked in sending.  The *)
(* inbound task writes the same timers without a lock, one store at a      *)
(* time.                                                                   *)
(***************************************************************************)
EXTENDS Naturals

CONSTANTS REKEY_AFTER_TIME,
          REJECT_AFTER_TIME,
          REKEY_ATTEMPT_TIME,
          REKEY_TIMEOUT,
          MaxTime             \* bound: how long the clock runs

ASSUME MonitorAssumption ==
  /\ REKEY_AFTER_TIME \in Nat
  /\ REJECT_AFTER_TIME \in Nat
  /\ REKEY_ATTEMPT_TIME \in Nat
  /\ REKEY_TIMEOUT \in Nat \ {0}
  /\ REKEY_TIMEOUT <= REKEY_AFTER_TIME
  /\ REKEY_AFTER_TIME <= REJECT_AFTER_TIME
  /\ MaxTime \in Nat

VARIABLES
  now,                \* the clock
  last_attempt_at, last_complete_at, attempt_before,   \* HandshakeMonitor
  many,               \* tx_messages has reached REKEY_AFTER_MESSAGES
  online,             \* the peer's online flag
  task,               \* where the handshake task is
  wake,               \* until when it sleeps
  inbound,            \* where the inbound task is in completed()
  onlineSince,        \* history: since when the peer has been online
  initiatedAt         \* history: when the task last initiated

timers == <<last_attempt_at, last_complete_at, attempt_before>>
monitorVars == <<now, timers, many, online, task, wake, inbound, onlineSince, initiatedAt>>

\* When the peer is made; instants before it are subtracted from it.
Start == REJECT_AFTER_TIME

elapsed(t) == now - t

\* HandshakeMonitor::new, with the clock at Start.
MonitorInit ==
  /\ now = Start
  /\ last_attempt_at = now - REKEY_TIMEOUT
  /\ last_complete_at = now - REJECT_AFTER_TIME
  /\ attempt_before = now + REKEY_ATTEMPT_TIME
  /\ many = FALSE
  /\ online \in BOOLEAN
  /\ task = "await"
  /\ wake = now
  /\ inbound = "idle"
  /\ onlineSince = now
  /\ initiatedAt = now - REKEY_TIMEOUT

-----------------------------------------------------------------------------
\* The handshake task

\* await_online
AwaitOnline ==
  /\ task = "await"
  /\ online
  /\ task' = "check"
  /\ UNCHANGED <<now, timers, many, online, wake, inbound, onlineSince, initiatedAt>>

ActiveSession == elapsed(last_complete_at) < REKEY_AFTER_TIME

\* can_handshake before its last line: where it goes on.
Check ==
  /\ task = "check"
  /\ task' = IF many THEN "initiate"
             ELSE IF ActiveSession THEN "rest"
             ELSE IF attempt_before < last_complete_at + REKEY_AFTER_TIME THEN "reset"
             ELSE "decide"
  /\ UNCHANGED <<now, timers, many, online, wake, inbound, onlineSince, initiatedAt>>

\* The two stores of reset_attempt.
ResetSet ==
  /\ task = "reset"
  /\ attempt_before' = now
  /\ task' = "reset_add"
  /\ UNCHANGED <<now, last_attempt_at, last_complete_at, many, online, wake, inbound,
                 onlineSince, initiatedAt>>

ResetAdd ==
  /\ task = "reset_add"
  /\ attempt_before' = attempt_before + REKEY_ATTEMPT_TIME
  /\ task' = "decide"
  /\ UNCHANGED <<now, last_attempt_at, last_complete_at, many, online, wake, inbound,
                 onlineSince, initiatedAt>>

\* Mutant: the task gives up when is_max_attempt.
MayAttempt_GivesUp ==
  elapsed(last_attempt_at) >= REKEY_TIMEOUT /\ attempt_before >= now

\* The last line of can_handshake.
MayAttempt == elapsed(last_attempt_at) >= REKEY_TIMEOUT

Decide ==
  /\ task = "decide"
  /\ task' = IF MayAttempt THEN "initiate" ELSE "rest"
  /\ UNCHANGED <<now, timers, many, online, wake, inbound, onlineSince, initiatedAt>>

\* The packet is built and handed to the endpoint, which may block.
Initiate ==
  /\ task = "initiate"
  /\ task' = "send"
  /\ initiatedAt' = now
  /\ UNCHANGED <<now, timers, many, online, wake, inbound, onlineSince>>

\* Sending returned: initiated().
Initiated ==
  /\ task = "send"
  /\ last_attempt_at' = now
  /\ task' = "rest"
  /\ UNCHANGED <<now, last_complete_at, attempt_before, many, online, wake, inbound,
                 onlineSince, initiatedAt>>

is_max_attempt == attempt_before < now

\* Mutant: the timeout is forgotten.
will_initiate_in_NoTimeout ==
  IF is_max_attempt \/ ActiveSession THEN now ELSE last_attempt_at

will_initiate_in ==
  IF is_max_attempt \/ ActiveSession THEN now + REKEY_TIMEOUT
  ELSE last_attempt_at + REKEY_TIMEOUT

Rest ==
  /\ task = "rest"
  /\ wake' = will_initiate_in
  /\ task' = "sleep"
  /\ UNCHANGED <<now, timers, many, online, inbound, onlineSince, initiatedAt>>

WakeUp ==
  /\ task = "sleep"
  /\ now >= wake
  /\ task' = "await"
  /\ UNCHANGED <<now, timers, many, online, wake, inbound, onlineSince, initiatedAt>>

-----------------------------------------------------------------------------
\* The inbound task

\* handle_handshake_initiation has answered the peer: initiated().
Responded ==
  /\ inbound = "idle"
  /\ last_attempt_at' = now
  /\ UNCHANGED <<now, last_complete_at, attempt_before, many, online, task, wake, inbound,
                 onlineSince, initiatedAt>>

\* completed(): a session is established, by a response or the first packet.
Complete ==
  /\ inbound = "idle"
  /\ last_complete_at' = now
  /\ inbound' = "reset"
  /\ UNCHANGED <<now, last_attempt_at, attempt_before, many, online, task, wake,
                 onlineSince, initiatedAt>>

CompleteSet ==
  /\ inbound = "reset"
  /\ attempt_before' = now
  /\ inbound' = "reset_add"
  /\ UNCHANGED <<now, last_attempt_at, last_complete_at, many, online, task, wake,
                 onlineSince, initiatedAt>>

CompleteAdd ==
  /\ inbound = "reset_add"
  /\ attempt_before' = attempt_before + REKEY_ATTEMPT_TIME
  /\ inbound' = "idle"
  /\ UNCHANGED <<now, last_attempt_at, last_complete_at, many, online, task, wake,
                 onlineSince, initiatedAt>>

-----------------------------------------------------------------------------
\* The rest of the device

\* set_online, called when the server reports the peer.
SetOnline(v) ==
  /\ online' = v
  /\ onlineSince' = IF v /\ ~ online THEN now ELSE onlineSince
  /\ UNCHANGED <<now, timers, many, task, wake, inbound, initiatedAt>>

\* tx_messages is never reset.
TooManyMessages ==
  /\ many' = TRUE
  /\ UNCHANGED <<now, timers, online, task, wake, inbound, onlineSince, initiatedAt>>

Waiting ==
  \/ task = "await" /\ ~ online
  \/ task = "sleep" /\ now < wake
  \/ task = "send"

Tick ==
  /\ Waiting
  /\ inbound = "idle"
  /\ now < MaxTime
  /\ now' = now + 1
  /\ UNCHANGED <<timers, many, online, task, wake, inbound, onlineSince, initiatedAt>>

MonitorNext ==
  \/ AwaitOnline \/ Check \/ ResetSet \/ ResetAdd \/ Decide
  \/ Initiate \/ Initiated \/ Rest \/ WakeUp
  \/ Responded \/ Complete \/ CompleteSet \/ CompleteAdd
  \/ \E v \in BOOLEAN : SetOnline(v)
  \/ TooManyMessages
  \/ Tick

MonitorSpec == MonitorInit /\ [][MonitorNext]_monitorVars

-----------------------------------------------------------------------------
\* Properties

\* The task is in one of its places and every instant is a time.
MonitorTypeOK ==
  /\ now \in Nat
  /\ last_attempt_at \in Nat
  /\ last_complete_at \in Nat
  /\ attempt_before \in Nat
  /\ many \in BOOLEAN
  /\ online \in BOOLEAN
  /\ task \in {"await", "check", "reset", "reset_add", "decide", "initiate", "send",
               "rest", "sleep"}
  /\ wake \in Nat
  /\ inbound \in {"idle", "reset", "reset_add"}
  /\ onlineSince \in Nat
  /\ initiatedAt \in Nat

\* The session is due for rekeying, and has been long enough for a task that
\* slept through the moment to wake up.
Overdue == elapsed(last_complete_at) >= REKEY_AFTER_TIME + REKEY_TIMEOUT

AttemptWindowBounded == attempt_before <= now + 2 * REKEY_ATTEMPT_TIME

\* While a peer is online and has no recent session the handshake never rests:
\* someone attempted it less than two REKEY_TIMEOUTs ago, or the attempt is
\* being sent.  (One REKEY_TIMEOUT is not enough: past is_max_attempt the task
\* sleeps from now, not from the last attempt.)  No number of failed attempts
\* makes the task stop (can_handshake, will_initiate_in), and the resets of the
\* attempt window by two tasks, a store and an addition each, add up only once.
HandshakeKeepsGoing ==
  /\ MonitorTypeOK
  /\ online /\ elapsed(onlineSince) >= REKEY_TIMEOUT /\ Overdue
       => task = "send" \/ elapsed(last_attempt_at) < 2 * REKEY_TIMEOUT
  /\ AttemptWindowBounded

\* The task leaves REKEY_TIMEOUT between two initiations, even once can_handshake
\* always says yes (REKEY_AFTER_MESSAGES) and however often the peer goes away.
AttemptsSpaced ==
  [][task # "send" /\ task' = "send" => elapsed(initiatedAt) >= REKEY_TIMEOUT]_monitorVars

-----------------------------------------------------------------------------
\* Why these hold

\* What a task that is at place `at` of reset_attempt has still to add.
Pending(at) == IF at = "reset_add" THEN REKEY_ATTEMPT_TIME ELSE 0

\* The inductive invariant: the task goes to rest only when an attempt or a session
\* is recent, and sleeps no longer than that stays so; the last attempt is never
\* older than the last initiation once that was sent; the window has room for the
\* additions to come.
MonitorInv ==
  /\ HandshakeKeepsGoing
  /\ last_attempt_at <= now /\ last_complete_at <= now
  /\ onlineSince <= now /\ initiatedAt <= now
  /\ attempt_before + Pending(task) + Pending(inbound) <= now + 2 * REKEY_ATTEMPT_TIME
  /\ task # "send" => initiatedAt <= last_attempt_at
  /\ task \notin {"send", "rest", "sleep"} => initiatedAt + REKEY_TIMEOUT <= now
  /\ task = "rest" => \/ now < last_attempt_at + REKEY_TIMEOUT
                      \/ now < last_complete_at + REKEY_AFTER_TIME
  /\ task = "sleep" =>
       /\ now <= wake
       /\ initiatedAt + REKEY_TIMEOUT <= wake
       /\ \/ wake < last_attempt_at + 2 * REKEY_TIMEOUT
          \/ wake < last_complete_at + REKEY_AFTER_TIME + REKEY_TIMEOUT
=============================================================================
