---------------------------- MODULE BridgeRelay ----------------------------
(***************************************************************************)
(* What one turn of the HTTP bridge does between its create and its last   *)
(* frame (src/proxy/mod.rs, run_http_bridge_turn and                       *)
(* pump_http_response_to_websocket): it has the create dispatched, relays  *)
(* the events of the response, and may have it dispatched once more, out   *)
(* of the client's sight, when the account turns out to have no capacity   *)
(* or quota.  BridgeTurns has the session around it, Dispatch the two      *)
(* sends; here a dispatch is a choice among its outcomes.                  *)
(*                                                                         *)
(* Frames leave through the session's channel, one at a time.  The task    *)
(* may be cancelled at every await, and the writer may have stopped.       *)
(***************************************************************************)
EXTENDS Naturals, Sequences

CONSTANTS
  Accounts,
  NoAccount,
  MaxEvents,   \* bound on the events of one attempt before its terminal
  Nothing

VARIABLES
  stage,       \* where the task is
  dispatch,    \* BridgeDispatchState, and whether the retry is used
  account,     \* SelectedAccount of the response
  capture,     \* HttpBridgeCapture
  fallback,    \* the rejection kept for the client while the retry is made
  outbox,      \* frames about to be queued, and
  after,       \* where the task goes on when they are
  cause,       \* why the relay ended without a terminal
  shown,       \* the frames queued for the client
  cached,      \* the attempt whose continuation the session has; 0 is none
  accepted,    \* history: attempts that upstream has accepted
  open,        \* the writer takes frames
  over         \* how the turn ended

vars == <<stage, dispatch, account, capture, fallback, outbox, after, cause,
          shown, cached, accepted, open, over>>

-----------------------------------------------------------------------------
Attempt == 1..2

\* Frames of an attempt; 0 marks the proxy's own.  A `spared` terminal is a
\* capacity rejection that vouches for no output, `refused` a bare quota
\* error.  An `error` invites the client to try again.
Terminals == {"completed", "failed", "spared", "refused"}
Events == {"created", "progress", "output"} \cup Terminals
Own == {"error", "liveness", "close"}
Frames == [attempt : Attempt, kind : Events] \cup [attempt : {0}, kind : Own]

Captures == [buffer : {"open", "off"}, held : Seq(Frames), created : BOOLEAN,
             delivered : BOOLEAN, failed : BOOLEAN, events : 0..MaxEvents]
Fallbacks == [account : Accounts, events : Seq(Frames)]

Stages == {"context", "dispatch", "pump", "send", "settle", "reject", "fatal",
           "over"}

TypeOK ==
  /\ stage \in Stages
  /\ dispatch \in [attempts : 0..2, safe : BOOLEAN, retried : BOOLEAN,
                   accepted : BOOLEAN]
  /\ account \in Accounts \cup {NoAccount}
  /\ capture \in Captures
  /\ fallback = Nothing \/ fallback \in Fallbacks
  /\ outbox \in Seq(Frames)
  /\ after \in Stages
  /\ cause \in {"none", "liveness", "broken"}
  /\ shown \in Seq(Frames)
  /\ cached \in 0..2
  /\ accepted \subseteq Attempt
  /\ open \in BOOLEAN
  /\ over \in {"no", "answered", "fatal", "cancelled"}

RelayAssumption ==
  /\ MaxEvents \in Nat
  /\ NoAccount \notin Accounts
  /\ Nothing \notin Fallbacks

NewCapture(allowed) ==
  [buffer |-> IF allowed THEN "open" ELSE "off", held |-> <<>>,
   created |-> FALSE, delivered |-> FALSE, failed |-> FALSE, events |-> 0]

Init ==
  /\ stage = "context"
  /\ dispatch = [attempts |-> 0, safe |-> FALSE, retried |-> FALSE, accepted |-> FALSE]
  /\ account = NoAccount
  /\ capture = NewCapture(FALSE)
  /\ fallback = Nothing
  /\ outbox = <<>> /\ after = "over" /\ cause = "none"
  /\ shown = <<>> /\ cached = 0 /\ accepted = {}
  /\ open = TRUE /\ over = "no"

\* Which of its two relays the turn is in.
Now == IF dispatch.retried THEN 2 ELSE 1
Frame(kind) == [attempt |-> Now, kind |-> kind]
Tell(kind) == <<[attempt |-> 0, kind |-> kind]>>

\* The frames are queued, and the task goes on there.
Send(frames, then) ==
  /\ outbox' = frames /\ after' = then
  /\ stage' = IF frames = <<>> THEN then ELSE "send"

sending == <<stage, outbox, after>>
client == <<shown, cached, open, over>>

-----------------------------------------------------------------------------
(* Dispatching.                                                            *)

\* The context is read within the deadline, or not; what it says of the
\* create decides whether the turn may ever change accounts.
Context ==
  /\ stage = "context"
  /\ \/ /\ stage' = "dispatch"
        /\ \E safe \in BOOLEAN : dispatch' = [dispatch EXCEPT !.safe = safe]
        /\ UNCHANGED <<outbox, after>>
     \/ /\ \E kind \in {"error", "liveness"} : Send(Tell(kind), "over")
        /\ UNCHANGED dispatch
  /\ UNCHANGED <<account, capture, fallback, cause, accepted, client>>

\* A dispatch fails, is late, or finds no other account: the rejection that
\* was kept is shown after all.
DispatchFails ==
  /\ stage = "dispatch"
  /\ IF fallback # Nothing THEN Send(fallback.events, "over")
     ELSE \E kind \in {"error", "liveness"} : Send(Tell(kind), "over")
  /\ fallback' = Nothing
  /\ UNCHANGED <<dispatch, account, capture, cause, accepted, client>>

\* The attempts of both dispatches are counted together, and an owner or a
\* body that is found not to be portable forbids the retry.
Counted(attempts, safe) ==
  /\ attempts \in (dispatch.attempts + 1)..2
  /\ safe => dispatch.safe
  /\ dispatch' = [dispatch EXCEPT !.attempts = attempts, !.safe = safe]

Established(to) == fallback = Nothing \/ to # fallback.account

\* A stream or a body of the account `to`.
Answer(to) ==
  /\ stage = "dispatch"
  /\ \E attempts \in Attempt, safe \in BOOLEAN : Counted(attempts, safe)
  /\ IF Established(to)
       THEN /\ stage' = "pump"
            /\ account' = to
            /\ capture' = NewCapture(/\ ~dispatch.retried
                                     /\ dispatch'.attempts < 2
                                     /\ dispatch'.safe)
            /\ UNCHANGED <<outbox, after>>
       ELSE Send(fallback.events, "over") /\ UNCHANGED <<account, capture>>
  /\ fallback' = Nothing
  /\ UNCHANGED <<cause, accepted, client>>

\* An answer that is no success, of upstream or of the proxy; its body may be
\* late.  A rejection of the client's own credentials also ends the session,
\* whatever became of the body.
Reject ==
  /\ stage = "dispatch"
  /\ \E attempts \in Attempt, safe \in BOOLEAN : Counted(attempts, safe)
  /\ IF fallback # Nothing THEN Send(fallback.events, "over")
     ELSE \/ \E kind \in {"error", "liveness"} : Send(Tell(kind), "over")
          \/ \E frames \in {Tell("error"), <<>>} : Send(frames, "reject")
  /\ fallback' = Nothing
  /\ UNCHANGED <<account, capture, cause, accepted, client>>

Rejected ==
  /\ stage = "reject"
  /\ Send(Tell("close"), "fatal")
  /\ UNCHANGED <<dispatch, account, capture, fallback, cause, accepted, client>>

-----------------------------------------------------------------------------
(* Relaying.                                                               *)

\* Mutant: a buffer that was released still vouches for the attempt.
HiddenWhatever(kind) ==
  \/ kind = "spared" /\ capture.created
  \/ kind = "refused" /\ ~capture.created

\* permits_capacity_retry and permits_unaccepted_quota_retry: nothing of the
\* attempt has been shown but what the buffer still holds.
Hidden(kind) ==
  /\ capture.buffer = "open"
  /\ \/ kind = "spared" /\ capture.held # <<>>
     \/ kind = "refused" /\ capture.held = <<>>

\* send_protocol_events with a terminal that lets the turn go elsewhere.
Retry(kind) ==
  /\ stage = "pump"
  /\ Hidden(kind)
  /\ fallback' = [account |-> account,
                  events |-> Append(capture.held, Frame(kind))]
  /\ capture' = [capture EXCEPT !.buffer = "off", !.held = <<>>]
  /\ dispatch' = [dispatch EXCEPT !.retried = TRUE,
                                  !.accepted = @ \/ capture.created]
  /\ stage' = "dispatch"
  /\ UNCHANGED <<account, outbox, after, cause, accepted, client>>

\* LifecycleBuffer::retain: created first, then progress, both without output.
Retains(kind) ==
  /\ capture.buffer = "open"
  /\ \/ kind = "created" /\ capture.held = <<>>
     \/ kind = "progress" /\ capture.held # <<>>

Observed(kind) ==
  [capture EXCEPT !.created = @ \/ kind = "created", !.events = @ + 1]

\* An event that is no terminal; `output` is any other than the two.
Event(kind) ==
  /\ stage = "pump" /\ capture.events < MaxEvents
  /\ kind = "created" => ~capture.created
  /\ accepted' = IF kind = "created" THEN accepted \cup {Now} ELSE accepted
  /\ \/ /\ Retains(kind)
        /\ capture' = [Observed(kind) EXCEPT !.held = Append(@, Frame(kind))]
        /\ UNCHANGED sending
     \/ \* Not retained: also for its content or the buffer's bounds.
        /\ capture' = [Observed(kind) EXCEPT !.buffer = "off", !.held = <<>>]
        /\ Send(Append(capture.held, Frame(kind)), "pump")
  /\ UNCHANGED <<dispatch, account, fallback, cause, client>>

Terminal(kind) ==
  /\ stage = "pump"
  /\ ~Hidden(kind)
  /\ capture' = [capture EXCEPT !.buffer = "off", !.held = <<>>]
  /\ Send(Append(capture.held, Frame(kind)), "over")
  /\ UNCHANGED <<dispatch, account, fallback, cause, accepted, client>>

FlushDelay ==
  /\ stage = "pump" /\ capture.held # <<>>
  /\ capture' = [capture EXCEPT !.buffer = "off", !.held = <<>>]
  /\ Send(capture.held, "pump")
  /\ UNCHANGED <<dispatch, account, fallback, cause, accepted, client>>

\* A watchdog, or a stream that breaks off or cannot be parsed.  What the
\* buffer holds is released first.
PumpFails ==
  /\ stage = "pump"
  /\ cause' \in {"liveness", "broken"}
  /\ capture' = [capture EXCEPT !.buffer = "off", !.held = <<>>]
  /\ Send(capture.held, "settle")
  /\ UNCHANGED <<dispatch, account, fallback, accepted, client>>

\* Accepted work is never offered for another try.
Settled ==
  CASE cause = "liveness"   -> "liveness"
    [] capture.failed       -> "fatal"
    [] capture.delivered \/ capture.created \/ dispatch.accepted -> "close"
    [] OTHER                -> "error"

Settle ==
  /\ stage = "settle"
  /\ CASE Settled = "fatal" -> Send(<<>>, "fatal")
       [] Settled = "close" -> Send(Tell("close"), "fatal")
       [] OTHER             -> Send(Tell(Settled), "over")
  /\ UNCHANGED <<dispatch, account, capture, fallback, cause, accepted, client>>

-----------------------------------------------------------------------------
(* Queueing.                                                               *)

\* The continuation is published before its terminal is queued.
Publish ==
  /\ stage = "send" /\ Head(outbox).kind = "completed" /\ cached # Now
  /\ cached' = Now
  /\ UNCHANGED <<sending, dispatch, account, capture, fallback, cause, accepted,
                 shown, open, over>>

Queue ==
  /\ stage = "send" /\ open
  /\ Head(outbox).kind = "completed" => cached = Now
  /\ shown' = Append(shown, Head(outbox))
  /\ outbox' = Tail(outbox)
  /\ stage' = IF Len(outbox) = 1 THEN after ELSE "send"
  /\ capture' = [capture EXCEPT !.delivered = @ \/ Head(outbox).attempt = Now]
  /\ UNCHANGED <<after, dispatch, account, fallback, cause, accepted, cached,
                 open, over>>

\* An event that cannot be queued ends the session, unless a watchdog has
\* already ended the relay; a frame of the proxy's own, or of a rejection that
\* was kept, is only lost.
QueueFails ==
  /\ stage = "send" /\ ~open
  /\ outbox' = <<>>
  /\ stage' = IF Head(outbox).attempt = Now /\ after \in {"pump", "over"}
                THEN "fatal" ELSE after
  /\ capture' = [capture EXCEPT !.failed = @ \/ Head(outbox).attempt = Now]
  /\ UNCHANGED <<after, dispatch, account, fallback, cause, accepted, client>>

-----------------------------------------------------------------------------
(* Ends.                                                                   *)

End ==
  /\ stage \in {"over", "fatal"} /\ over = "no"
  /\ over' = IF stage = "fatal" THEN "fatal" ELSE "answered"
  /\ UNCHANGED <<sending, dispatch, account, capture, fallback, cause, accepted,
                 shown, cached, open>>

Cancel ==
  /\ over = "no"
  /\ over' = "cancelled" /\ stage' = "over"
  /\ UNCHANGED <<outbox, after, dispatch, account, capture, fallback, cause,
                 accepted, shown, cached, open>>

WriterStops ==
  /\ open /\ over = "no"
  /\ open' = FALSE
  /\ UNCHANGED <<sending, dispatch, account, capture, fallback, cause, accepted,
                 shown, cached, over>>

Next ==
  \/ Context \/ DispatchFails \/ Reject \/ Rejected
  \/ \E to \in Accounts : Answer(to)
  \/ \E kind \in {"spared", "refused"} : Retry(kind)
  \/ \E kind \in Events \ Terminals : Event(kind)
  \/ \E kind \in Terminals : Terminal(kind)
  \/ FlushDelay \/ PumpFails \/ Settle
  \/ Publish \/ Queue \/ QueueFails
  \/ End \/ Cancel \/ WriterStops

Spec == Init /\ [][Next]_vars

-----------------------------------------------------------------------------
Kinds == {shown[i].kind : i \in DOMAIN shown}
Ends(i) == shown[i].kind \in (Terminals \cup Own) \ {"close"}

\* Whatever is retried, buffered and kept, the client sees the events of one
\* attempt only and at most one end of its turn, after which nothing comes
\* but the session's Close; and a turn that is over without a cancellation
\* has been answered, or has ended the session.
OneAnswer ==
  /\ \A i, j \in DOMAIN shown :
       /\ {shown[i].attempt, shown[j].attempt} # Attempt
       /\ i < j /\ Ends(i) => shown[j].kind = "close"
  /\ over = "answered" /\ open => \E i \in DOMAIN shown : Ends(i)

\* An error that invites the client to try again is never sent for a turn that
\* upstream has accepted once, also if the client knows nothing of it.
AcceptedNotRetryable == accepted # {} => "error" \notin Kinds
=============================================================================
