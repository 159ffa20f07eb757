--------------------------- MODULE BridgeSessions ---------------------------
(***************************************************************************)
(* The bounded table of HTTP bridge sessions: admission, eviction of an    *)
(* idle session at capacity, the session task and the end of its entry     *)
(* (src/proxy/mod.rs, admit_bridge_session, finish_bridge_session and      *)
(* the loop of run_responses_http_bridge).                                 *)
(*                                                                         *)
(* A client is one upgrade request and, once admitted, one session; its id *)
(* is never used again.  The table is locked for one step of an admission  *)
(* at a time.  Whether a session is idle is read there from an atomic that *)
(* the session's own task and its turn change without the lock.  Which of  *)
(* the idle sessions was used least recently is left open.                 *)
(*                                                                         *)
(* `changed` is a Notify: a future hears every notify_waiters call since   *)
(* it was created, so a client is in `listening` from the creation of its  *)
(* future to the next call.                                                *)
(***************************************************************************)
EXTENDS Naturals, FiniteSets

CONSTANTS
  Clients,
  MaxSessions,   \* proxy.max_bridge_sessions
  MaxCreates,    \* bound on the response.create frames of a client
  Disruptions    \* the environment's actions in this instance

ASSUME BridgeSessionsAssumption ==
  /\ IsFiniteSet(Clients)
  /\ MaxSessions \in Nat \ {0}
  /\ MaxCreates \in Nat
  /\ Disruptions \subseteq {"deadline", "drop", "upgrade", "leave", "idle", "shutdown"}

VARIABLES
  pc,         \* where each client's handler or session task is
  table,      \* bridge_sessions: the clients that have an entry
  closing,    \* entries whose evict signal was sent
  listening,  \* clients whose Notified future has heard nothing
  turn,       \* each session's turn task
  creates,    \* response.create frames each client has sent
  shutting    \* shutting_down

vars == <<pc, table, closing, listening, turn, creates, shutting>>

(***************************************************************************)
(* An admission creates its future ("subscribe"), waits for the lock       *)
(* ("lock") and, when the table is full, releases it ("unlocked") and      *)
(* polls its future ("wait").  It may have removed an entry without        *)
(* telling the others yet ("reclaimed").                                   *)
(* Admitted, its handler waits to spawn the session task.  That waits for  *)
(* the upgrade, selects ("open"), handles a response.create with a turn    *)
(* guard held ("create") or just dropped ("uncreate"), has left the loop   *)
(* ("stop", "evicted"), has returned ("finish") and has removed its entry  *)
(* ("told").  After an upgrade that failed ("failed") it never selected,   *)
(* and still owns the evict signal's receiver.                             *)
(***************************************************************************)
Admitting == {"subscribe", "lock", "unlocked", "wait", "reclaimed"}
Running == {"upgrade", "open", "create", "uncreate", "stop", "evicted",
            "failed"}
PC == {"new", "admitted", "finish", "told", "ended"} \cup Admitting \cup Running

\* A turn that has ended first lowers active_turns and then notifies.
Turn == {"none", "running", "dropping"}

Init ==
  /\ pc = [c \in Clients |-> "new"]
  /\ table = {}
  /\ closing = {}
  /\ listening = {}
  /\ turn = [c \in Clients |-> "none"]
  /\ creates = [c \in Clients |-> 0]
  /\ shutting = FALSE

Goto(c, place) == pc' = [pc EXCEPT ![c] = place]

\* active_turns counts the turn guards: of a create and of the turn task.
Active(c) == pc[c] = "create" \/ turn[c] = "running"

\* The evict signal's receiver lives with the handler, then with the task.
Receiving(c) == pc[c] \in {"admitted"} \cup Running

Full == Cardinality(table) >= MaxSessions

Evictable == {d \in table \ closing : ~Active(d)}

\* Mutant: a future hears only the calls made since it was first polled.
NotifyPolled == listening' = {c \in listening : pc[c] # "wait"}

NotifyWaiters == listening' = {}

-----------------------------------------------------------------------------
(* Admission.                                                              *)

Arrive(c) ==
  /\ pc[c] = "new"
  /\ Goto(c, "subscribe")
  /\ UNCHANGED <<table, closing, listening, turn, creates, shutting>>

Subscribe(c) ==
  /\ pc[c] = "subscribe"
  /\ Goto(c, "lock")
  /\ listening' = listening \cup {c}
  /\ UNCHANGED <<table, closing, turn, creates, shutting>>

Admit(c) ==
  /\ pc[c] = "lock"
  /\ ~Full
  /\ Goto(c, "admitted")
  /\ table' = table \cup {c}
  /\ listening' = listening \ {c}
  /\ UNCHANGED <<closing, turn, creates, shutting>>

\* The least recently used idle session is told to close.
Evict(c, d) ==
  /\ pc[c] = "lock"
  /\ Full
  /\ d \in Evictable
  /\ Receiving(d)
  /\ closing' = closing \cup {d}
  /\ Goto(c, "unlocked")
  /\ UNCHANGED <<table, listening, turn, creates, shutting>>

\* Mutant: the entry is removed without asking whether anybody listens.
ReclaimAnyone(c, d) ==
  /\ pc[c] = "lock"
  /\ Full
  /\ d \in Evictable
  /\ table' = table \ {d}
  /\ Goto(c, "reclaimed")
  /\ UNCHANGED <<closing, listening, turn, creates, shutting>>

\* Nobody receives the signal any more: the entry is removed at once.
Reclaim(c, d) ==
  /\ pc[c] = "lock"
  /\ Full
  /\ d \in Evictable
  /\ ~Receiving(d)
  /\ table' = table \ {d}
  /\ Goto(c, "reclaimed")
  /\ UNCHANGED <<closing, listening, turn, creates, shutting>>

NoneIdle(c) ==
  /\ pc[c] = "lock"
  /\ Full
  /\ Evictable = {}
  /\ Goto(c, "unlocked")
  /\ UNCHANGED <<table, closing, listening, turn, creates, shutting>>

Poll(c) ==
  /\ pc[c] = "unlocked"
  /\ Goto(c, "wait")
  /\ UNCHANGED <<table, closing, listening, turn, creates, shutting>>

TellReclaimed(c) ==
  /\ pc[c] = "reclaimed"
  /\ Goto(c, "subscribe")
  /\ NotifyWaiters
  /\ UNCHANGED <<table, closing, turn, creates, shutting>>

Wake(c) ==
  /\ pc[c] = "wait"
  /\ c \notin listening
  /\ Goto(c, "subscribe")
  /\ UNCHANGED <<table, closing, listening, turn, creates, shutting>>

\* bridge_admission_timeout_millis: the answer is a retryable 503.
Deadline(c) ==
  /\ "deadline" \in Disruptions
  /\ pc[c] = "wait"
  /\ c \in listening
  /\ Goto(c, "ended")
  /\ listening' = listening \ {c}
  /\ UNCHANGED <<table, closing, turn, creates, shutting>>

\* The client's connection ends, and with it the handler's future, at an
\* await: the table's lock, the wait, or the task set's lock.
HandlerDropped(c) ==
  /\ "drop" \in Disruptions
  /\ pc[c] \in {"lock", "wait", "admitted"}
  /\ Goto(c, "ended")
  /\ listening' = listening \ {c}
  /\ UNCHANGED <<table, closing, turn, creates, shutting>>

Spawn(c) ==
  /\ pc[c] = "admitted"
  /\ Goto(c, IF shutting THEN "finish" ELSE "upgrade")
  /\ UNCHANGED <<table, closing, listening, turn, creates, shutting>>

-----------------------------------------------------------------------------
(* The session task.                                                       *)

Upgraded(c) ==
  /\ pc[c] = "upgrade"
  /\ \/ Goto(c, "open")
     \/ "upgrade" \in Disruptions /\ Goto(c, "failed")
  /\ UNCHANGED <<table, closing, listening, turn, creates, shutting>>

\* response.create: the guard is taken and the previous turn is cancelled.
Create(c) ==
  /\ pc[c] = "open"
  /\ creates[c] < MaxCreates
  /\ Goto(c, "create")
  /\ creates' = [creates EXCEPT ![c] = @ + 1]
  /\ UNCHANGED <<table, closing, listening, turn, shutting>>

\* The previous turn is gone; the guard moves into the new turn's task.
StartTurn(c) ==
  /\ pc[c] = "create"
  /\ turn[c] = "none"
  /\ ~shutting
  /\ Goto(c, "open")
  /\ turn' = [turn EXCEPT ![c] = "running"]
  /\ UNCHANGED <<table, closing, listening, creates, shutting>>

\* A warmup, an unknown anchor or an invalid frame starts no turn.
NoTurn(c) ==
  /\ pc[c] = "create"
  /\ turn[c] = "none"
  /\ Goto(c, "uncreate")
  /\ UNCHANGED <<table, closing, listening, turn, creates, shutting>>

\* A task that cannot be spawned drops the guard, and the loop is left.
TurnRefused(c) ==
  /\ pc[c] = "create"
  /\ turn[c] = "none"
  /\ shutting
  /\ Goto(c, "stop")
  /\ NotifyWaiters
  /\ UNCHANGED <<table, closing, turn, creates, shutting>>

TellUncreated(c) ==
  /\ pc[c] = "uncreate"
  /\ Goto(c, "open")
  /\ NotifyWaiters
  /\ UNCHANGED <<table, closing, turn, creates, shutting>>

\* The turn completes, or is dropped at an await once it is cancelled.
TurnEnds(c) ==
  /\ turn[c] = "running"
  /\ turn' = [turn EXCEPT ![c] = "dropping"]
  /\ UNCHANGED <<pc, table, closing, listening, creates, shutting>>

\* Mutant: the guard's drop does not notify.
TurnUntold(c) ==
  /\ turn[c] = "dropping"
  /\ turn' = [turn EXCEPT ![c] = "none"]
  /\ UNCHANGED <<pc, table, closing, listening, creates, shutting>>

TurnTold(c) ==
  /\ turn[c] = "dropping"
  /\ turn' = [turn EXCEPT ![c] = "none"]
  /\ NotifyWaiters
  /\ UNCHANGED <<pc, table, closing, creates, shutting>>

Evicted(c) ==
  /\ pc[c] = "open"
  /\ c \in closing
  /\ Goto(c, "evicted")
  /\ UNCHANGED <<table, closing, listening, turn, creates, shutting>>

\* The client leaves, a frame cannot be read or written.
Leave(c) ==
  /\ "leave" \in Disruptions
  /\ pc[c] = "open"
  /\ Goto(c, "stop")
  /\ UNCHANGED <<table, closing, listening, turn, creates, shutting>>

IdleTimeout(c) ==
  /\ "idle" \in Disruptions
  /\ pc[c] = "open"
  /\ ~Active(c)
  /\ Goto(c, "stop")
  /\ UNCHANGED <<table, closing, listening, turn, creates, shutting>>

\* The turn is cancelled and the writer ends before the loop's task returns.
Stop(c) ==
  /\ pc[c] \in {"stop", "evicted"}
  /\ turn[c] = "none"
  /\ Goto(c, "finish")
  /\ UNCHANGED <<table, closing, listening, turn, creates, shutting>>

\* finish_bridge_session; another admission may have reclaimed the entry.
Finish(c) ==
  /\ pc[c] \in {"finish", "failed"}
  /\ Goto(c, IF c \in table THEN "told" ELSE "ended")
  /\ table' = table \ {c}
  /\ closing' = closing \ {c}
  /\ UNCHANGED <<listening, turn, creates, shutting>>

TellFinished(c) ==
  /\ pc[c] = "told"
  /\ Goto(c, "ended")
  /\ NotifyWaiters
  /\ UNCHANGED <<table, closing, turn, creates, shutting>>

-----------------------------------------------------------------------------
(* shutdown_connections: the flag, then abort_all of the tracked tasks.    *)
(* An aborted task never reaches finish_bridge_session.                    *)

Shutdown ==
  /\ "shutdown" \in Disruptions
  /\ ~shutting
  /\ shutting' = TRUE
  /\ UNCHANGED <<pc, table, closing, listening, turn, creates>>

Abort(c) ==
  /\ shutting
  /\ pc[c] \in {"lock", "wait", "admitted", "finish"} \cup (Running \ {"uncreate"})
  /\ Goto(c, "ended")
  /\ IF pc[c] = "create" THEN NotifyWaiters ELSE listening' = listening \ {c}
  /\ UNCHANGED <<table, closing, turn, creates, shutting>>

-----------------------------------------------------------------------------

\* What the runtime does by itself.
Work(c) ==
  \/ Subscribe(c) \/ Admit(c) \/ NoneIdle(c) \/ Poll(c) \/ TellReclaimed(c)
  \/ Wake(c)
  \/ \E d \in Clients : Evict(c, d) \/ Reclaim(c, d)
  \/ Spawn(c) \/ Upgraded(c) \/ StartTurn(c) \/ NoTurn(c) \/ TurnRefused(c)
  \/ TellUncreated(c) \/ Evicted(c) \/ Stop(c) \/ Finish(c) \/ TellFinished(c)

Turns(c) == TurnEnds(c) \/ TurnTold(c)

Environment(c) ==
  \/ Arrive(c) \/ Create(c) \/ Deadline(c) \/ HandlerDropped(c)
  \/ Leave(c) \/ IdleTimeout(c) \/ Abort(c)

Next ==
  \/ Shutdown
  \/ \E c \in Clients : Work(c) \/ Turns(c) \/ Environment(c)

Spec == Init /\ [][Next]_vars

\* Nothing here makes a client arrive or leave, and no deadline passes: what
\* is proved to end ends by the wakeups alone.
FairSpec ==
  Spec /\ \A c \in Clients : WF_vars(Work(c)) /\ WF_vars(Turns(c))

-----------------------------------------------------------------------------
(* Properties.                                                             *)

TypeOK ==
  /\ pc \in [Clients -> PC]
  /\ table \subseteq Clients
  /\ closing \subseteq table
  /\ listening \subseteq Clients
  /\ turn \in [Clients -> Turn]
  /\ creates \in [Clients -> 0..MaxCreates]
  /\ shutting \in BOOLEAN

(***************************************************************************)
(* proxy.max_bridge_sessions bounds the sessions that really run, although *)
(* an admission removes the entries whose task no longer listens: every    *)
(* session still holds the one entry it was admitted with.                 *)
(***************************************************************************)
RunningHoldsSlot ==
  /\ Cardinality(table) <= MaxSessions
  /\ {c \in Clients : Receiving(c)} \subseteq table

(***************************************************************************)
(* No admission sleeps through a change: while one waits unnotified, some  *)
(* notify_waiters call is still to come, or the table is full and either   *)
(* an entry is already closing or no session is idle.                      *)
(***************************************************************************)
NotifyOwed ==
  \E c \in Clients : \/ pc[c] \in {"reclaimed", "told", "uncreate"}
                     \/ turn[c] = "dropping"

NoLostWakeup ==
  \A c \in listening :
    pc[c] \in {"unlocked", "wait"} =>
      \/ NotifyOwed
      \/ Full /\ (closing # {} \/ \A d \in table : Active(d))

(***************************************************************************)
(* An entry that was told to close leaves the table, so that its place can *)
(* be given to the admission that asked for it.                            *)
(***************************************************************************)
ClosingSlotReturns ==
  \A c \in Clients : c \in closing ~> c \notin table

(***************************************************************************)
(* The same for an entry whose session task exists: whatever the task is   *)
(* doing when it is evicted, it comes to the end that removes its entry.   *)
(***************************************************************************)
EvictionEnds(c) ==
  c \in closing /\ pc[c] \in Running ~> c \notin table \/ shutting

EvictionCompletes == \A c \in Clients : EvictionEnds(c)

\* An entry that was told to close when its handler was about to be dropped.
Orphaned(c) == c \in closing /\ pc[c] = "ended"

(***************************************************************************)
(* An admission that waits is decided by the sessions' own progress, with  *)
(* no help from its deadline: turns end, idle sessions are evicted, and    *)
(* the wakeups reach it, as long as no entry has been orphaned.            *)
(***************************************************************************)
AdmissionEnds(c) ==
  pc[c] = "wait" ~> \/ pc[c] \in {"admitted", "ended"}
                   \/ \E d \in Clients : Orphaned(d)

AdmissionIsDecided == \A c \in Clients : AdmissionEnds(c)

(***************************************************************************)
(* A session is never evicted while it has an active turn: the eviction    *)
(* signal never makes the loop of such a session break and cancel it.      *)
(***************************************************************************)
ActiveNotEvicted == [][\A c \in Clients : Evicted(c) => ~Active(c)]_vars
=============================================================================
