---------------------------- MODULE BridgeTurns ----------------------------
(***************************************************************************)
(* One HTTP bridge session from the opened socket to its end: the loop     *)
(* that reads the client's frames, the turn tasks it starts and cancels,   *)
(* and the writer task that owns the sink (src/proxy/mod.rs,               *)
(* run_responses_http_bridge and, of run_http_bridge_turn, what it does to *)
(* the socket; what a turn retries before it answers is not modelled).     *)
(*                                                                         *)
(* A turn is named by its generation, the value active_generation took at  *)
(* its response.create; generation 0 marks the loop's own frames.  Every   *)
(* frame passes through one bounded channel to the writer, which takes the *)
(* delivery gate, drops a frame of a generation that is no longer active,  *)
(* and otherwise keeps the gate until the frame is written.                *)
(***************************************************************************)
EXTENDS Naturals, Sequences

CONSTANTS
  MaxCreates,   \* bound on the response.create and Close frames of the client
  MaxPings,     \* bound on the client's pings
  Room          \* the channel's capacity

ASSUME BridgeTurnsAssumption ==
  /\ MaxCreates \in Nat \ {0}
  /\ MaxPings \in Nat
  /\ Room \in Nat \ {0}

Generation == 1..MaxCreates

VARIABLES
  loop,        \* where the loop is
  generation,  \* active_generation
  asked,       \* what the create being handled asks for
  pings,       \* pings the client has sent
  turns,       \* the task of each generation's turn
  aborted,     \* generations whose task was aborted
  channel,     \* the frames on their way to the writer
  writer,      \* where the writer is
  frame,       \* the frame the writer took
  fatal,       \* a message is in the fatal channel
  cached,      \* the generation of the continuation's response; 0 is none
  bound,       \* generations whose response id has a durable owner
  unstored,    \* generations with a bind that the store refused
  received     \* the frames the client has received

loopVars == <<loop, generation, asked, pings>>
writerVars == <<writer, frame>>
turnVars == <<turns, aborted, cached, bound, unstored>>
vars == <<loop, generation, asked, pings, turns, aborted, channel, writer,
          frame, fatal, cached, bound, unstored, received>>

-----------------------------------------------------------------------------
(* State.                                                                  *)

(***************************************************************************)
(* The loop selects ("open"); awaits the end of the turn a create replaces *)
(* ("cancel") or the gate ("gate"); checks the frame ("prepare"); awaits   *)
(* room for a reply ("reply"), a pong ("pong") or the client's Close       *)
(* ("closing", after "closeCancel"); has left the loop ("stop"); and waits *)
(* for the writer ("drain").                                               *)
(***************************************************************************)
Loop == {"open", "cancel", "gate", "prepare", "reply", "pong", "closeCancel",
         "closing", "stop", "drain", "ended"}

(***************************************************************************)
(* A turn waits for upstream's answer, awaits room for response.created,   *)
(* binds the response id, waits for the rest, awaits room for the terminal *)
(* and binds again; or it awaits room for a frame that ends it without     *)
(* completion ("error"), or for the Close frame after a stream that broke  *)
(* off or a rejection of the client's own credentials ("broken").  `over`  *)
(* is a task that has ended.                                               *)
(***************************************************************************)
Live == {"dispatch", "created", "bindCreated", "stream", "completed",
         "bindCompleted", "error", "broken"}
Task == {"none", "over"} \cup Live

Kind == {"created", "completed", "error", "close", "other"}
Frame == [gen : 0..MaxCreates, kind : Kind]
NoFrame == [gen |-> 0, kind |-> "other"]

\* A create asks for a warmup, is malformed, or continues a response (0: none).
Ask == [kind : {"warmup", "invalid"}, anchor : {0}]
         \cup [kind : {"turn"}, anchor : 0..MaxCreates]
NoAsk == [kind |-> "invalid", anchor |-> 0]

\* The writer receives, awaits the gate, writes with the gate held, closes
\* the sink with the channel's receiver gone, or has ended.
Writer == {"receive", "gate", "write", "close", "ended"}

Init ==
  /\ loop = "open"
  /\ generation = 0
  /\ asked = NoAsk
  /\ pings = 0
  /\ turns = [g \in Generation |-> "none"]
  /\ aborted = {}
  /\ channel = <<>>
  /\ writer = "receive"
  /\ frame = NoFrame
  /\ fatal = FALSE
  /\ cached = 0
  /\ bound = {} /\ unstored = {}
  /\ received = {}

Completed(g) == [gen |-> g, kind |-> "completed"] \in received

\* The receiver is dropped with the writer's task, after the sink's close.
ChannelClosed == writer = "ended"

\* The loop holds the turn of the last create until it has cancelled it.
NoTurn == \A g \in Generation : turns[g] \notin Live

\* BridgeSender::send: awaits room, and fails once the receiver is gone.
Send(g, kind) ==
  /\ ~ChannelClosed
  /\ Len(channel) < Room
  /\ channel' = Append(channel, [gen |-> g, kind |-> kind])

\* TrackedTask::cancel aborts at once; its end is awaited separately.
CancelTurns == aborted' = {g \in Generation : turns[g] # "none"}

-----------------------------------------------------------------------------
(* The loop.                                                               *)

Create(ask) ==
  /\ loop = "open"
  /\ generation < MaxCreates
  /\ ask.anchor # 0 => Completed(ask.anchor)
  /\ asked' = ask
  /\ generation' = generation + 1
  /\ CancelTurns
  /\ loop' = "cancel"
  /\ UNCHANGED <<pings, turns, channel, writerVars, fatal, cached, bound,
                 unstored, received>>

Cancelled ==
  /\ loop = "cancel"
  /\ NoTurn
  /\ loop' = "gate"
  /\ UNCHANGED <<generation, asked, pings, turnVars, channel, writerVars,
                 fatal, received>>

\* Mutant: no gate.
PassNoGate ==
  /\ loop = "gate"
  /\ loop' = "prepare"
  /\ UNCHANGED <<generation, asked, pings, turnVars, channel, writerVars,
                 fatal, received>>

\* delivery_gate is free; it is taken and released at once.
PassGate ==
  /\ loop = "gate"
  /\ writer # "write"
  /\ loop' = "prepare"
  /\ UNCHANGED <<generation, asked, pings, turnVars, channel, writerVars,
                 fatal, received>>

\* The cached continuation answers only for its own response.
Answerable == asked.kind = "turn" /\ asked.anchor \in {0, cached}

StartTurn ==
  /\ loop = "prepare"
  /\ Answerable
  /\ turns' = [turns EXCEPT ![generation] = "dispatch"]
  /\ loop' = "open"
  /\ UNCHANGED <<generation, asked, pings, aborted, channel, writerVars, fatal,
                 cached, bound, unstored, received>>

\* The proxy is shutting down and spawns no task.
StartRefused ==
  /\ loop = "prepare"
  /\ Answerable
  /\ loop' = "stop"
  /\ UNCHANGED <<generation, asked, pings, turnVars, channel, writerVars,
                 fatal, received>>

NotStarted ==
  /\ loop = "prepare"
  /\ ~Answerable
  /\ loop' = "reply"
  /\ UNCHANGED <<generation, asked, pings, turnVars, channel, writerVars,
                 fatal, received>>

\* The warmup's frames stand for one here; a failed send is ignored.
Reply ==
  /\ loop = "reply"
  /\ \/ Send(generation, IF asked.kind = "warmup" THEN "other" ELSE "error")
     \/ ChannelClosed /\ UNCHANGED channel
  /\ loop' = "open"
  /\ UNCHANGED <<generation, asked, pings, turnVars, writerVars, fatal,
                 received>>

Ping ==
  /\ loop = "open"
  /\ pings < MaxPings
  /\ pings' = pings + 1
  /\ loop' = "pong"
  /\ UNCHANGED <<generation, asked, turnVars, channel, writerVars, fatal,
                 received>>

\* A pong, or an error about a frame that is no create: generation 0.  A
\* pong that cannot be sent ends the loop, a failed error is ignored.
Pong ==
  /\ loop = "pong"
  /\ \/ Send(0, "other") /\ loop' = "open"
     \/ ChannelClosed /\ loop' \in {"open", "stop"} /\ UNCHANGED channel
  /\ UNCHANGED <<generation, asked, pings, turnVars, writerVars, fatal,
                 received>>

ClientCloses ==
  /\ loop = "open"
  /\ generation < MaxCreates
  /\ generation' = generation + 1
  /\ CancelTurns
  /\ loop' = "closeCancel"
  /\ UNCHANGED <<asked, pings, turns, channel, writerVars, fatal, cached,
                 bound, unstored, received>>

CloseCancelled ==
  /\ loop = "closeCancel"
  /\ NoTurn
  /\ loop' = "closing"
  /\ UNCHANGED <<generation, asked, pings, turnVars, channel, writerVars,
                 fatal, received>>

SendClose ==
  /\ loop = "closing"
  /\ \/ Send(0, "close")
     \/ ChannelClosed /\ UNCHANGED channel
  /\ loop' = "stop"
  /\ UNCHANGED <<generation, asked, pings, turnVars, writerVars, fatal,
                 received>>

\* Evicted, idle for too long, or the socket's stream ended.
Leave ==
  /\ loop = "open"
  /\ loop' = "stop"
  /\ UNCHANGED <<generation, asked, pings, turnVars, channel, writerVars,
                 fatal, received>>

Fatal ==
  /\ loop = "open"
  /\ fatal
  /\ fatal' = FALSE
  /\ loop' = "stop"
  /\ UNCHANGED <<generation, asked, pings, turnVars, channel, writerVars,
                 received>>

\* After the loop: cancel the turn, then drop the senders.
StopCancels ==
  /\ loop = "stop"
  /\ \E g \in Generation : turns[g] \in Live /\ g \notin aborted
  /\ CancelTurns
  /\ UNCHANGED <<loopVars, turns, channel, writerVars, fatal, cached, bound,
                 unstored, received>>

DropSenders ==
  /\ loop = "stop"
  /\ NoTurn
  /\ loop' = "drain"
  /\ UNCHANGED <<generation, asked, pings, turnVars, channel, writerVars,
                 fatal, received>>

\* wait_timeout: the writer ends, or is aborted after six seconds.
Drained ==
  /\ loop = "drain"
  /\ writer' = "ended"
  /\ loop' = "ended"
  /\ UNCHANGED <<generation, asked, pings, turnVars, channel, frame, fatal,
                 received>>

-----------------------------------------------------------------------------
(* Turns.                                                                  *)

Turn(g, from, to) ==
  /\ turns[g] = from
  /\ turns' = [turns EXCEPT ![g] = to]

Respond(g) ==
  /\ \/ Turn(g, "dispatch", "created")
     \/ Turn(g, "dispatch", "error")
     \/ Turn(g, "stream", "error")
     \/ Turn(g, "stream", "broken")
  /\ UNCHANGED <<loopVars, aborted, channel, writerVars, fatal, cached, bound,
                 unstored, received>>

\* The continuation is published before its terminal is queued.
Complete(g) ==
  /\ Turn(g, "stream", "completed")
  /\ cached' = g
  /\ UNCHANGED <<loopVars, aborted, channel, writerVars, fatal, bound,
                 unstored, received>>

\* Mutant: the response id is bound after the terminal only.
DeliverUnbound(g) ==
  /\ \/ Turn(g, "created", "stream") /\ Send(g, "created")
     \/ Turn(g, "completed", "bindCompleted") /\ Send(g, "completed")
     \/ (Turn(g, "error", "over") \/ Turn(g, "error", "broken")) /\ Send(g, "error")
  /\ UNCHANGED <<loopVars, aborted, writerVars, fatal, cached, bound, unstored,
                 received>>

Deliver(g) ==
  /\ \/ Turn(g, "created", "bindCreated") /\ Send(g, "created")
     \/ Turn(g, "completed", "bindCompleted") /\ Send(g, "completed")
     \/ (Turn(g, "error", "over") \/ Turn(g, "error", "broken")) /\ Send(g, "error")
  /\ UNCHANGED <<loopVars, aborted, writerVars, fatal, cached, bound, unstored,
                 received>>

\* router.bind reports a failed store job, and nobody looks at the report: the
\* turn goes on.
Bind(g) ==
  /\ Turn(g, "bindCreated", "stream") \/ Turn(g, "bindCompleted", "over")
  /\ \/ bound' = bound \cup {g} /\ UNCHANGED unstored
     \/ unstored' = unstored \cup {g} /\ UNCHANGED bound
  /\ UNCHANGED <<loopVars, aborted, channel, writerVars, fatal, cached,
                 received>>

\* The receiver is gone: an event that cannot be delivered is fatal.
DeliveryFails(g) ==
  /\ ChannelClosed
  /\ \/ /\ Turn(g, "created", "over") \/ Turn(g, "completed", "over")
        /\ fatal' = TRUE
     \/ Turn(g, "error", "over") /\ UNCHANGED fatal
  /\ UNCHANGED <<loopVars, aborted, channel, writerVars, cached, bound,
                 unstored, received>>

\* A stream that broke off after acceptance closes the socket.
BreakOff(g) ==
  /\ Turn(g, "broken", "over")
  /\ Send(g, "close") \/ (ChannelClosed /\ UNCHANGED channel)
  /\ fatal' = TRUE
  /\ UNCHANGED <<loopVars, aborted, writerVars, cached, bound, unstored,
                 received>>

\* The runtime drops an aborted task at its next await.
Dropped(g) ==
  /\ g \in aborted
  /\ turns[g] \in Live
  /\ turns' = [turns EXCEPT ![g] = "over"]
  /\ UNCHANGED <<loopVars, aborted, channel, writerVars, fatal, cached, bound,
                 unstored, received>>

-----------------------------------------------------------------------------
(* The writer.                                                             *)

Receive ==
  /\ writer = "receive"
  /\ channel # <<>>
  /\ frame' = Head(channel)
  /\ channel' = Tail(channel)
  /\ writer' = "gate"
  /\ UNCHANGED <<loopVars, turnVars, fatal, received>>

\* With the gate held: a frame of a generation no longer active is skipped.
StartWrite ==
  /\ writer = "gate"
  /\ writer' = IF frame.gen \in {0, generation} THEN "write" ELSE "receive"
  /\ UNCHANGED <<loopVars, turnVars, channel, frame, fatal, received>>

Written ==
  /\ writer = "write"
  /\ received' = received \cup {frame}
  /\ writer' = "receive"
  /\ UNCHANGED <<loopVars, turnVars, channel, frame, fatal>>

\* Mutant: a write may stall for ever.
WriteStalls ==
  /\ writer = "write"
  /\ FALSE
  /\ UNCHANGED vars

\* The write fails, or stalls for BRIDGE_WRITE_STALL_TIMEOUT.
WriteFails ==
  /\ writer = "write"
  /\ fatal' = TRUE
  /\ writer' = "close"
  /\ UNCHANGED <<loopVars, turnVars, channel, frame, received>>

NoSenders ==
  /\ writer = "receive"
  /\ channel = <<>>
  /\ loop = "drain"
  /\ writer' = "close"
  /\ UNCHANGED <<loopVars, turnVars, channel, frame, fatal, received>>

SinkClosed ==
  /\ writer = "close"
  /\ writer' = "ended"
  /\ UNCHANGED <<loopVars, turnVars, channel, frame, fatal, received>>

-----------------------------------------------------------------------------

LoopWork ==
  \/ Cancelled \/ PassGate \/ StartTurn \/ StartRefused \/ NotStarted
  \/ Reply \/ Pong \/ CloseCancelled \/ SendClose \/ Fatal \/ StopCancels \/ DropSenders
  \/ Drained

Client == \/ \E ask \in Ask : Create(ask)
          \/ Ping \/ ClientCloses \/ Leave \/ Written

TurnWork(g) ==
  \/ Respond(g) \/ Complete(g) \/ Deliver(g) \/ Bind(g) \/ DeliveryFails(g)
  \/ BreakOff(g)

WriterWork ==
  Receive \/ StartWrite \/ WriteFails \/ NoSenders \/ SinkClosed

Next ==
  \/ LoopWork \/ Client \/ WriterWork
  \/ \E g \in Generation : TurnWork(g) \/ Dropped(g)

Spec == Init /\ [][Next]_vars

(***************************************************************************)
(* The tasks run, an aborted task is dropped, and a write that does not    *)
(* end stalls for the timeout.  Neither the client nor upstream owes       *)
(* anything: the client may never read, a turn may wait for upstream for   *)
(* as long as its watchdogs allow.                                         *)
(***************************************************************************)
FairSpec ==
  /\ Spec
  /\ WF_vars(LoopWork)
  /\ WF_vars(WriterWork)
  /\ \A g \in Generation : WF_vars(Dropped(g))

-----------------------------------------------------------------------------
(* Properties.                                                             *)

TypeOK ==
  /\ loop \in Loop
  /\ generation \in 0..MaxCreates
  /\ asked \in Ask
  /\ pings \in 0..MaxPings
  /\ turns \in [Generation -> Task]
  /\ aborted \subseteq Generation
  /\ channel \in Seq(Frame) /\ Len(channel) <= Room
  /\ writer \in Writer
  /\ frame \in Frame
  /\ fatal \in BOOLEAN
  /\ cached \in 0..MaxCreates
  /\ bound \subseteq Generation /\ unstored \subseteq Generation
  /\ received \subseteq Frame

(***************************************************************************)
(* A session has at most one turn, that of the active generation, except   *)
(* while the loop awaits the end of the one it replaces or cancels.        *)
(***************************************************************************)
OneTurn ==
  /\ \A g, h \in Generation : turns[g] \in Live /\ turns[h] \in Live => g = h
  /\ \A g \in Generation :
       turns[g] \in Live => g = generation \/ loop \in {"cancel", "closeCancel"}

(***************************************************************************)
(* Once a create is past the gate, no frame of an older turn is being      *)
(* written: the replacement starts only after the last old send has ended. *)
(***************************************************************************)
NoStaleWrite ==
  /\ writer = "write"
  /\ frame.gen \notin {0, generation}
  => loop \in {"cancel", "gate", "closeCancel", "closing", "stop", "drain"}

(***************************************************************************)
(* The client can continue the response whose completion it has received:  *)
(* its continuation was cached, unless a later response has completed      *)
(* since, and its id was given its durable owner before, although the turn *)
(* may have been cancelled right after the terminal was queued; only a     *)
(* store that refused a bind leaves the response without one.              *)
(***************************************************************************)
CompletedIsContinuable ==
  \A g \in Generation :
    Completed(g) => cached >= g /\ g \in bound \cup unstored

(***************************************************************************)
(* A session that has ended leaves neither a turn nor the writer behind.   *)
(***************************************************************************)
EndedLeavesNothing == loop = "ended" => NoTurn /\ writer = "ended"

(***************************************************************************)
(* Whatever the client does, and if it never reads again, the loop always  *)
(* comes back to its select or ends, and once it has left the select the   *)
(* session ends.                                                           *)
(***************************************************************************)
LoopReturns ==
  /\ []<>(loop \in {"open", "ended"})
  /\ loop = "stop" ~> loop = "ended"
=============================================================================
