---------------------------- MODULE DirectSocket ----------------------------
(***************************************************************************)
(* One client of the direct Responses lane: the loop that multiplexes its  *)
(* creates over one upstream socket, hides the failure of a create by      *)
(* replaying it, and replaces the socket (src/proxy/mod.rs,                *)
(* run_responses_direct and what it calls; the turn state of               *)
(* src/proxy/websocket_protocol.rs; the buffer of accepted_retry.rs).      *)
(*                                                                         *)
(* The loop handles one frame, deadline or signal at a time, so a handler  *)
(* is one action.  What other tasks decide meanwhile (whether a            *)
(* credential is refreshed, an account selected, a socket connected) is a  *)
(* choice among the outcomes.                                              *)
(***************************************************************************)
EXTENDS Naturals, Sequences, FiniteSets

CONSTANTS
  Accounts,
  Creates,     \* the client's create frames, see Create
  MaxTurns,    \* bound on the creates of the client
  MaxQueued,   \* MAX_QUEUED_DIRECT_CREATES
  MaxSends,    \* bound on the sends of one turn
  MaxSockets   \* bound on the upstream sockets of the session

VARIABLES
  place,       \* "open" while the loop runs; "chain" once it has handed the
               \* socket to a native control chain; "closed"
  account,     \* the account of the upstream socket
  socket,      \* which upstream socket of the session this is
  pinned,      \* requires_original_socket
  turns,       \* the session's creates, in the client's order
  queued,      \* queued_creates
  awaiting,    \* awaiting_response_created; 0 is none
  candidate,   \* native_candidate: the turn whose response may be controlled
  signal,      \* the session was asked to make room
  delivered,   \* per turn, the attempts of which the client has seen a frame
  ends         \* per turn, the final frames the client has received

vars == <<place, account, socket, pinned, turns, queued, awaiting, candidate,
          signal, delivered, ends>>

-----------------------------------------------------------------------------
(* State.                                                                  *)

Turn == 1..MaxTurns

(***************************************************************************)
(* A create carries an anchor (previous_response_id) or not, can be resent *)
(* without it (a verified full resend), refers to files, has state that    *)
(* only its issuer can read (sealed), and names an owner by other means    *)
(* than its anchor.                                                        *)
(***************************************************************************)
Create == {c \in [anchored : BOOLEAN, resend : BOOLEAN, file : BOOLEAN,
                  sealed : BOOLEAN, owned : BOOLEAN] :
             c.resend => c.anchored /\ ~c.file}

(***************************************************************************)
(* PendingTurn and DirectTurn.  `answer` is what upstream has said of the  *)
(* attempt on its way: nothing, response.created, or output as well.       *)
(* `visible` is what the client has seen: no frame, one without and one    *)
(* with a sequence number.  `buffer` is the lifecycle buffer: released or  *)
(* disabled, empty, or with frames in it.                                  *)
(***************************************************************************)
TurnState ==
  [stage    : {"queued", "pending", "settled"},
   create   : Create,
   answer   : {"none", "created", "output"},
   visible  : {"no", "plain", "numbered"},
   buffer   : {"off", "empty", "held"},
   replayed : BOOLEAN,     \* replay_count >= 1
   last     : BOOLEAN,     \* accepted_capacity_replayed
   refreshed : BOOLEAN,    \* auth_refresh_replay_count >= 1
   moved    : BOOLEAN,     \* auth_failover_replay_count >= 1
   sends    : 0..MaxSends]

NewTurn(c) ==
  [stage |-> "queued", create |-> c, answer |-> "none", visible |-> "no",
   buffer |-> "off", replayed |-> FALSE, last |-> FALSE, refreshed |-> FALSE,
   moved |-> FALSE, sends |-> 0]

Pending == {t \in DOMAIN turns : turns[t].stage = "pending"}

Init ==
  /\ place = "open"
  /\ account \in Accounts
  /\ socket = 1
  /\ pinned = FALSE
  /\ turns = <<>>
  /\ queued = <<>>
  /\ awaiting = 0
  /\ candidate = 0
  /\ signal = FALSE
  /\ delivered = [t \in Turn |-> {}]
  /\ ends = [t \in Turn |-> 0]

-----------------------------------------------------------------------------
(* Replay plans.                                                           *)

Failure == {"quota", "capacity", "auth", "login", "missing", "transient",
            "other"}

\* `id`: the failure names a response; `spared`: the buffer vouches that an
\* accepted response produced nothing.
Event == {e \in [kind : Failure, id : BOOLEAN, spared : BOOLEAN] :
            e.spared => e.id /\ e.kind = "capacity"}

\* An end of the upstream socket is recovered from like this failure.
SocketLost == [kind |-> "transient", id |-> FALSE, spared |-> FALSE]

\* Nothing of the attempt was accepted, but for what the buffer holds, and
\* the client has seen nothing of it.
Hidden(r, e) ==
  /\ r.visible = "no"
  /\ \/ r.answer = "none" /\ ~e.id
     \/ e.spared

\* Mutant: an interrupted socket may be replaced.
AloneUnpinned == Cardinality(Pending) = 1

\* A replay replaces the socket, which nothing else may own.
Alone == ~pinned /\ Cardinality(Pending) = 1

Replayable(t, e) ==
  /\ Alone
  /\ ~turns[t].last
  /\ Hidden(turns[t], e)
  /\ ~turns[t].create.file
  /\ e.kind # "other"

(***************************************************************************)
(* Where a replay of the turn in state r must go: to the same account with *)
(* a refreshed credential, to another account, or wherever the routing     *)
(* decides.                                                                *)
(***************************************************************************)
Target(r, e) ==
  CASE e.kind \in {"auth", "login"} /\ r.moved -> "refused"
    [] e.kind = "auth" /\ ~r.refreshed /\ ~r.moved -> "same"
    [] e.kind \in {"auth", "login"} /\ ~r.moved -> "other"
    [] e.kind \notin {"auth", "login"} /\ r.replayed -> "refused"
    [] e.spared /\ ~r.replayed -> "other"
    [] OTHER -> "any"

\* replay_plan after Replayable: the target, or "refused".
Planned(r, e) ==
  LET target == Target(r, e)
      same   == target = "same" \/ e.kind = "missing"
      kept   == \/ target = "same"
                \/ ~r.create.anchored /\ e.kind # "missing"
                \/ r.create.anchored /\ r.create.resend
  IN IF (r.create.sealed => same) /\ kept THEN target ELSE "refused"

\* The anchor is dropped unless the account stays and is asked again.
Fresh(r, target) == r.create.anchored /\ target # "same"

\* hard_owner and non_previous_hard_owner of the turn's route.
OtherwiseOwned(r) == r.create.owned \/ r.create.sealed
HardOwned(r) == OtherwiseOwned(r) \/ r.create.anchored

\* A rejected credential sends the turn to an alternate.
ToAlternate(e, target) == target = "other" /\ e.kind \in {"auth", "login"}

(***************************************************************************)
(* The turn after a replay was sent: prepare_replay_plan and the updates   *)
(* at the end of try_replay_direct_turn.                                   *)
(***************************************************************************)
Committed(r, e, target) ==
  [r EXCEPT !.replayed = TRUE,
            !.last = @ \/ e.spared,
            !.refreshed = @ \/ target = "same",
            !.moved = @ \/ ToAlternate(e, target),
            !.answer = "none",
            !.create = IF Fresh(r, target)
                       THEN [@ EXCEPT !.anchored = FALSE, !.resend = FALSE]
                       ELSE @]

\* The same with reset_auth_sequence_after_account_switch.
Resent(r, e, target, to) ==
  [Committed(r, e, target) EXCEPT
     !.refreshed = @ /\ to = account,
     !.moved     = @ /\ to = account,
     !.buffer    = "off",
     !.sends     = @ + 1]

\* What a replay comes to: sent to an account, not sent, or an error that
\* ends the session.
Sent(r, to)  == [result |-> "sent", turn |-> r, to |-> to]
NotSent(r)   == [result |-> "none", turn |-> r, to |-> account]
Broken(r)    == [result |-> "broken", turn |-> r, to |-> account]

(***************************************************************************)
(* From the connected replacement to its send.  Except for an accepted     *)
(* create the plan is committed first, and an error of the context, of the *)
(* bearer or of the session's route ends the session.                      *)
(***************************************************************************)
Sending(r, e, target, to) ==
  IF r.sends = MaxSends THEN {NotSent(r)}
  ELSE {Sent(Resent(r, e, target, to), to)}
         \cup IF e.spared THEN {NotSent(r), Broken(r)}
              ELSE {NotSent(Committed(r, e, target)), Broken(r)}

\* Anywhere but to the same account with a refreshed credential.
Elsewhere(r, e, target) ==
  LET stays == OtherwiseOwned(r) \/ e.kind = "missing"
      fixed == OtherwiseOwned(r) /\ target = "other"
      owned == ~stays /\ HardOwned(r) /\ ~Fresh(r, target)
      goals == IF stays THEN {account} ELSE Accounts \ {account}
  IN {NotSent(r)}
       \cup IF fixed \/ owned THEN {}
            ELSE UNION {Sending(r, e, target, to) : to \in goals}

(***************************************************************************)
(* Refreshed and reconnected; or the refresh stage is consumed and the     *)
(* plan made again.  If no refresh was to be had and the second plan is    *)
(* refused, the error ends the session; if the reconnect failed, it does   *)
(* not.                                                                    *)
(***************************************************************************)
SameAccount(r, e) ==
  LET skipped == [r EXCEPT !.refreshed = TRUE]
      again   == Planned(skipped, e)
  IN Sending(r, e, "same", account)
       \cup IF again = "refused" THEN {Broken(skipped), NotSent(skipped)}
            ELSE Elsewhere(skipped, e, again)

\* try_replay_direct_turn
Replays(t, e) ==
  LET r == turns[t]
      target == Planned(r, e)
  IN IF ~Replayable(t, e) \/ target = "refused" THEN {NotSent(r)}
     ELSE IF target = "same" THEN SameAccount(r, e)
     ELSE Elsewhere(r, e, target)

-----------------------------------------------------------------------------
(* Frames to the client.                                                   *)

Attempt(t) == turns[t].sends

(***************************************************************************)
(* flush_direct_lifecycle for the turns of S: what was held is delivered,  *)
(* and the buffer closed.                                                  *)
(***************************************************************************)
Flushed(S) ==
  [t \in DOMAIN turns |->
     IF t \notin S THEN turns[t]
     ELSE [turns[t] EXCEPT !.buffer = "off",
                           !.visible = IF turns[t].buffer = "held"
                                       THEN "numbered" ELSE @]]

Held(S) == {t \in S : turns[t].buffer = "held"}

\* The attempts the client has seen, when frames of the turns in S are sent.
Show(S) ==
  delivered' = [t \in Turn |->
                  IF t \in S THEN delivered[t] \cup {Attempt(t)} ELSE delivered[t]]

\* A final frame for each turn of S.
Finish(S) == ends' = [t \in Turn |-> ends[t] + IF t \in S THEN 1 ELSE 0]

Settle(f, S) ==
  [t \in DOMAIN f |-> IF t \in S THEN [f[t] EXCEPT !.stage = "settled"] ELSE f[t]]

Forget(S) == awaiting' = IF awaiting \in S THEN 0 ELSE awaiting

-----------------------------------------------------------------------------
(* The client.                                                             *)

\* The loop takes a queued create before it looks at either socket.
Listening == place = "open" /\ (queued = <<>> \/ awaiting # 0)

\* A create beyond the queue's bound is answered with an error at once, and
\* leaves no trace.
Receive(c) ==
  /\ Listening
  /\ Len(turns) < MaxTurns
  /\ awaiting # 0 => Len(queued) < MaxQueued
  /\ turns' = Append(turns, NewTurn(c))
  /\ queued' = Append(queued, Len(turns) + 1)
  /\ UNCHANGED <<place, account, socket, pinned, awaiting, candidate, signal,
                 delivered, ends>>

Handling(t) == place = "open" /\ awaiting = 0 /\ queued # <<>> /\ t = Head(queued)

\* The context, the route or the frame itself is refused, a replacement does
\* not connect, or turns or controls own a socket that would have to go.
Refuse(t) ==
  /\ Handling(t)
  /\ queued' = Tail(queued)
  /\ turns' = Settle(turns, {t})
  /\ Finish({t})
  /\ UNCHANGED <<place, account, socket, pinned, awaiting, candidate, signal,
                 delivered>>

(***************************************************************************)
(* The route leads to the account of the socket, or a replacement was      *)
(* connected (also when the socket's bearer was rejected meanwhile).       *)
(***************************************************************************)
Replace(t, to) ==
  \/ to = account /\ UNCHANGED <<account, socket, candidate>>
  \/ /\ Pending = {} /\ ~pinned
     /\ socket < MaxSockets
     /\ account' = to /\ socket' = socket + 1 /\ candidate' = 0

Buffered(c) == ~c.file /\ ~c.sealed /\ ~c.owned /\ (c.anchored => c.resend)

Dispatch(t, to) ==
  /\ Handling(t)
  /\ Replace(t, to)
  /\ queued' = Tail(queued)
  /\ turns' = [Flushed(Pending) EXCEPT
                 ![t].stage = "pending",
                 ![t].sends = 1,
                 ![t].buffer = IF Buffered(turns[t].create) THEN "empty" ELSE "off"]
  /\ Show(Held(Pending))
  /\ awaiting' = t
  /\ UNCHANGED <<place, pinned, signal, ends>>

Gone ==
  /\ place' = "closed"
  /\ UNCHANGED <<account, socket, pinned, turns, queued, awaiting, candidate,
                 signal, delivered, ends>>

\* The bearer, the context or the session's route fails just before the send,
\* or the send does: the error ends the session.
DispatchBreaks(t) == Handling(t) /\ Gone

\* response.interrupt of a response that the socket owns.
Interrupt ==
  /\ Listening
  /\ candidate # 0 \/ \E t \in Pending : turns[t].answer # "none"
  /\ turns' = Flushed(Pending)
  /\ Show(Held(Pending))
  /\ pinned' = TRUE
  /\ UNCHANGED <<place, account, socket, queued, awaiting, candidate, signal,
                 ends>>

\* A native control: the socket goes to its chain for good.
Control ==
  /\ Listening
  /\ queued = <<>> /\ awaiting = 0
  /\ candidate # 0 /\ Pending \subseteq {candidate}
  /\ turns' = Flushed(Pending)
  /\ Show(Held(Pending))
  /\ place' = "chain"
  /\ UNCHANGED <<account, socket, pinned, queued, awaiting, candidate, signal,
                 ends>>

\* The client closes, leaves, or a frame to or from it fails.
Leave == place = "open" /\ Gone

-----------------------------------------------------------------------------
(* Room for others.                                                        *)

\* session.set_idle at the top of the loop.  The code also keeps a session whose
\* last response may become a multi-agent one; here such a one may be asked too.
Idle == Pending = {} /\ queued = <<>> /\ ~pinned

AskedToLeave ==
  /\ place = "open" /\ Idle /\ ~signal
  /\ signal' = TRUE
  /\ UNCHANGED <<place, account, socket, pinned, turns, queued, awaiting,
                 candidate, delivered, ends>>

Reclaimed == place = "open" /\ signal /\ Idle /\ Gone

-----------------------------------------------------------------------------
(* Upstream.                                                               *)

\* An acknowledgement goes to the first turn that has none.
Acknowledges(t) ==
  /\ t \in Pending /\ turns[t].answer = "none"
  /\ \A u \in Pending : turns[u].answer = "none" => t <= u

\* response.created; it is retained when the buffer is open.
Acknowledged(t) ==
  /\ Listening /\ Acknowledges(t)
  /\ candidate' \in {0, t}
  /\ Forget({t})
  /\ IF turns[t].buffer = "empty"
     THEN /\ turns' = [turns EXCEPT ![t].answer = "created", ![t].buffer = "held"]
          /\ UNCHANGED delivered
     ELSE /\ turns' = [turns EXCEPT ![t].answer = "created",
                                    ![t].visible = "numbered"]
          /\ Show({t})
  /\ UNCHANGED <<place, account, socket, pinned, queued, signal, ends>>

\* Output, or lifecycle metadata that the buffer does not take.
Output(t) ==
  /\ Listening
  /\ t \in Pending /\ turns[t].answer # "none"
  /\ turns' = [Flushed({t}) EXCEPT ![t].answer = "output",
                                   ![t].visible = "numbered"]
  /\ Show({t})
  /\ UNCHANGED <<place, account, socket, pinned, queued, awaiting, candidate,
                 signal, ends>>

\* LIFECYCLE_FLUSH_DELAY
FlushDelay(t) ==
  /\ place = "open"
  /\ t \in Held(Pending)
  /\ turns' = Flushed({t})
  /\ Show({t})
  /\ UNCHANGED <<place, account, socket, pinned, queued, awaiting, candidate,
                 signal, ends>>

\* A frame that names no response belongs to the only turn, or to none.
Note ==
  /\ Listening
  /\ Pending # {}
  /\ LET only == IF Cardinality(Pending) = 1 THEN Pending ELSE {} IN
     /\ turns' = [t \in DOMAIN turns |->
                    IF t \in only /\ turns[t].visible = "no" /\ turns[t].buffer # "held"
                    THEN [Flushed(Pending)[t] EXCEPT !.visible = "plain"]
                    ELSE Flushed(Pending)[t]]
     /\ Show(Held(Pending) \cup only)
  /\ UNCHANGED <<place, account, socket, pinned, queued, awaiting, candidate,
                 signal, ends>>

Completed(t) ==
  /\ Listening
  /\ t \in Pending /\ turns[t].answer # "none"
  /\ turns' = Settle(Flushed({t}), {t})
  /\ Show({t}) /\ Finish({t})
  /\ Forget({t})
  /\ UNCHANGED <<place, account, socket, pinned, queued, candidate, signal>>

\* The turn was sent again on a new socket.
Took(t, outcome) ==
  /\ outcome.result = "sent"
  /\ socket < MaxSockets
  /\ turns' = [turns EXCEPT ![t] = outcome.turn]
  /\ account' = outcome.to
  /\ socket' = socket + 1
  /\ candidate' = 0
  /\ awaiting' = t
  /\ UNCHANGED <<place, pinned, queued, signal, delivered, ends>>

Breaks(outcome) == outcome.result = "broken" /\ Gone

Unaccepted == {t \in Pending : turns[t].answer = "none"}

\* A terminal names the response of t, perhaps before it was created: then of
\* the only turn that has none.
Named(t) == turns[t].answer # "none" \/ Unaccepted = {t}

\* A missing anchor can only be that of a create which was not yet accepted.
Missed(t) == {u \in Unaccepted : turns[u].create.anchored} = {t}

\* The turn a failure is about.
Subject(t, e) ==
  \/ e.id /\ Named(t)
  \/ ~e.id /\ e.kind = "missing" /\ Missed(t)
  \/ ~e.id /\ e.kind # "missing" /\ Pending = {t}

\* The failure is the end of its turn; a missing anchor is told as an error of
\* the proxy's own.
Delivered(t) ==
  /\ turns' = Settle([Flushed({t}) EXCEPT ![t].visible = "numbered"], {t})
  /\ Show({t}) /\ Finish({t})
  /\ Forget({t})
  /\ UNCHANGED <<place, account, socket, pinned, queued, candidate, signal>>

\* A failure whose turn is known is hidden, or delivered.
Failed(t, e, outcome) ==
  /\ Listening
  /\ t \in Pending /\ Subject(t, e)
  /\ e.spared => turns[t].buffer = "held"
  /\ outcome \in Replays(t, e)
  /\ \/ Took(t, outcome)
     \/ Breaks(outcome)
     \/ outcome.result = "none" /\ Delivered(t)

\* A failure that may be any turn's or none's, that names a response which is
\* none of theirs, or the anchor of a turn that was accepted: it is passed on
\* and settles none.
FailedUnattributed ==
  /\ Listening
  /\ \E e \in Event :
       IF e.id THEN Cardinality(Unaccepted) # 1
       ELSE \/ \A t \in Pending : ~Subject(t, e)
            \/ /\ e.kind = "missing"
               /\ \E t \in Pending \ Unaccepted : turns[t].create.anchored
  /\ turns' = Flushed(Pending)
  /\ Show(Held(Pending))
  /\ UNCHANGED <<place, account, socket, pinned, queued, awaiting, candidate,
                 signal, ends>>

(***************************************************************************)
(* A frame that is not JSON belongs to no attempt: it is passed on after   *)
(* what was held, and no turn counts as seen by it.                        *)
(***************************************************************************)
Opaque ==
  /\ Listening
  /\ turns' = Flushed(Pending)
  /\ Show(Held(Pending))
  /\ UNCHANGED <<place, account, socket, pinned, queued, awaiting, candidate,
                 signal, ends>>

-----------------------------------------------------------------------------
(* The end of the upstream socket, and the two watchdogs.                  *)

\* Mutant: the client's socket stays open whatever it has seen.
ClosesPinned(seen) == pinned

Closes(seen) == pinned \/ seen # {}

\* Of these the client has seen a frame with a number: no final frame of the
\* proxy's own may follow it.
Numbered(f) == {t \in Pending : f[t].visible = "numbered"}

(***************************************************************************)
(* recover_or_settle_direct_end after the replay was not possible: each    *)
(* turn gets a final frame of the proxy's own, except one of which the     *)
(* client has seen a numbered frame; then, or with a pinned socket, or if  *)
(* no new socket can be had, the client's socket is closed.                *)
(***************************************************************************)
SettleAll ==
  LET flushed == Flushed(Pending)
      seen    == Numbered(flushed) IN
  /\ turns' = Settle(flushed, Pending)
  /\ Show(Held(Pending)) /\ Finish(Pending \ seen)
  /\ awaiting' = 0
  /\ candidate' = 0
  /\ \/ place' = "closed" /\ UNCHANGED <<account, socket>>
     \/ /\ ~Closes(seen) /\ socket < MaxSockets
        /\ socket' = socket + 1
        /\ UNCHANGED <<place, account>>
  /\ UNCHANGED <<pinned, queued, signal>>

\* A clean close of a create that was not accepted is an answer and not
\* recovered from.
RecoverOrSettle(clean) ==
  \/ /\ clean \/ Cardinality(Pending) # 1
     /\ SettleAll
  \/ /\ ~clean
     /\ \E t \in Pending :
          /\ Pending = {t}
          /\ \E outcome \in IF turns[t].buffer = "held"
                            THEN {NotSent(turns[t])} ELSE Replays(t, SocketLost) :
               \/ Took(t, outcome)
               \/ Breaks(outcome)
               \/ outcome.result = "none" /\ SettleAll

\* Close, end of stream or a transport error.
SocketEnds(clean) == Listening /\ RecoverOrSettle(clean)

\* RESPONSES_MISSING_CREATED_TIMEOUT: armed with every send.
MissingCreated ==
  /\ place = "open" /\ awaiting # 0
  /\ SettleAll

\* RESPONSES_UPSTREAM_IDLE_TIMEOUT of a turn that was accepted.
UpstreamIdle ==
  /\ place = "open"
  /\ \E t \in Pending : turns[t].answer # "none"
  /\ SettleAll

-----------------------------------------------------------------------------

Client ==
  \/ \E c \in Creates : Receive(c)
  \/ Interrupt \/ Control \/ Leave

Handle ==
  \/ \E t \in Turn : Refuse(t) \/ DispatchBreaks(t)
  \/ \E t \in Turn, to \in Accounts : Dispatch(t, to)

Upstream ==
  \/ \E t \in Turn : Acknowledged(t) \/ Output(t) \/ Completed(t)
  \/ \E t \in DOMAIN turns, e \in Event :
       \E outcome \in Replays(t, e) : Failed(t, e, outcome)
  \/ Note \/ FailedUnattributed \/ Opaque
  \/ \E clean \in BOOLEAN : SocketEnds(clean)

Next ==
  \/ Client \/ Handle \/ Upstream
  \/ \E t \in Turn : FlushDelay(t)
  \/ MissingCreated \/ UpstreamIdle
  \/ AskedToLeave \/ Reclaimed

Spec == Init /\ [][Next]_vars

(***************************************************************************)
(* The loop runs and its deadlines pass.  Neither the client nor upstream  *)
(* owes anything.                                                          *)
(***************************************************************************)
FairSpec ==
  /\ Spec
  /\ WF_vars(Handle)
  /\ WF_vars(MissingCreated)

-----------------------------------------------------------------------------
(* Properties.                                                             *)

TypeOK ==
  /\ place \in {"open", "chain", "closed"}
  /\ account \in Accounts
  /\ socket \in 1..MaxSockets
  /\ pinned \in BOOLEAN
  /\ turns \in Seq(TurnState) /\ Len(turns) <= MaxTurns
  /\ queued \in Seq(Turn)
  /\ awaiting \in 0..MaxTurns
  /\ candidate \in 0..MaxTurns
  /\ signal \in BOOLEAN
  /\ delivered \in [Turn -> SUBSET (0..MaxSends)]
  /\ ends \in [Turn -> Nat]

(***************************************************************************)
(* Whatever is replayed, the client sees the frames of one attempt only:   *)
(* no response is retried after visible output.                            *)
(***************************************************************************)
OneAttemptShown == \A t \in Turn : Cardinality(delivered[t]) <= 1

(***************************************************************************)
(* A create that is settled has been answered exactly once, unless the     *)
(* client's socket was closed instead: replays, watchdogs and the end of   *)
(* the socket neither answer twice nor forget a turn.                      *)
(***************************************************************************)
AnsweredOnce ==
  \A t \in DOMAIN turns :
    /\ ends[t] <= 1
    /\ turns[t].stage = "settled" /\ place = "open" => ends[t] = 1
    /\ turns[t].stage # "settled" => ends[t] = 0

(***************************************************************************)
(* An acknowledgement can only belong to the create that is waited for:    *)
(* no other pending turn lacks one, so associating it with the first such  *)
(* turn is right.                                                          *)
(***************************************************************************)
OneUnacknowledged ==
  \A t \in Pending : turns[t].answer = "none" => t = awaiting

(***************************************************************************)
(* Once the client has interrupted a response, no later step replaces the  *)
(* upstream socket: an acknowledgement may still be on it.                 *)
(***************************************************************************)
OriginalSocket == [][pinned => socket' = socket /\ account' = account]_vars

\* A create in the queue of a running loop.
Waits(t) == place = "open" /\ \E i \in DOMAIN queued : queued[i] = t

(***************************************************************************)
(* A create that waits behind another is handled, or the session ends: the *)
(* create before it is acknowledged, fails, or is given up by the          *)
(* watchdog, also after replays.                                           *)
(***************************************************************************)
QueuedAreHandled == \A t \in Turn : Waits(t) ~> ~Waits(t)
=============================================================================
