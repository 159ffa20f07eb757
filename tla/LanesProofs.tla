----------------------------- MODULE LanesProofs -----------------------------
(***************************************************************************)
(* What holds of the lanes for all sets and bounds.  The theorems about a  *)
(* bridged session are BridgeTurns'; those about a control chain, a direct *)
(* session and the body of an answer are of all behaviours of MCLanes,     *)
(* where a step of the whole is a step of one lane and leaves the others   *)
(* alone.                                                                  *)
(***************************************************************************)
EXTENDS MCLanes, FiniteSetTheorems, TLAPS

-----------------------------------------------------------------------------
(* Types.                                                                  *)

\* Sending a frame keeps the channel's type and its bound.
LEMMA SendKeepsType ==
  ASSUME channel \in Seq(Frame), Len(channel) <= Room,
         NEW g \in 0..MaxCreates, NEW kind \in Kind, Send(g, kind)
  PROVE  channel' \in Seq(Frame) /\ Len(channel') <= Room
<1>1. [gen |-> g, kind |-> kind] \in Frame
  BY DEF Frame
<1> QED
  BY <1>1, BridgeTurnsAssumption DEF Send, BridgeTurnsAssumption

\* The loop's steps keep the type invariant.
LEMMA LoopKeepsType ==
  ASSUME TypeOK, LoopWork PROVE TypeOK'
<1>1. generation \in 0..MaxCreates /\ 0 \in 0..MaxCreates
  BY BridgeTurnsAssumption DEF TypeOK, BridgeTurnsAssumption
<1>2. CASE Reply
  BY <1>1, <1>2, SendKeepsType
     DEF Reply, TypeOK, Loop, Kind, turnVars, writerVars
<1>3. CASE Pong
  BY <1>1, <1>3, SendKeepsType
     DEF Pong, TypeOK, Loop, Kind, turnVars, writerVars
<1>4. CASE SendClose
  BY <1>1, <1>4, SendKeepsType
     DEF SendClose, TypeOK, Loop, Kind, turnVars, writerVars
<1>5. CASE StartTurn
  BY <1>5 DEF StartTurn, TypeOK, Loop, Task, Live, writerVars
<1>6. CASE StopCancels
  BY <1>6 DEF StopCancels, CancelTurns, TypeOK, loopVars, writerVars
<1>7. CASE Cancelled \/ PassGate \/ StartRefused \/ NotStarted \/ CloseCancelled
  BY <1>7 DEF Cancelled, PassGate, StartRefused, NotStarted, CloseCancelled,
              TypeOK, Loop, turnVars, writerVars
<1>8. CASE Fatal \/ DropSenders \/ Drained
  BY <1>8 DEF Fatal, DropSenders, Drained, TypeOK, Loop, Writer, turnVars,
              writerVars
<1> QED
  BY <1>2, <1>3, <1>4, <1>5, <1>6, <1>7, <1>8 DEF LoopWork

\* The client's steps keep the type invariant.
LEMMA ClientKeepsType ==
  ASSUME TypeOK, Client PROVE TypeOK'
<1>1. generation < MaxCreates => generation + 1 \in 0..MaxCreates
  BY BridgeTurnsAssumption DEF TypeOK, BridgeTurnsAssumption
<1>2. pings < MaxPings => pings + 1 \in 0..MaxPings
  BY BridgeTurnsAssumption DEF TypeOK, BridgeTurnsAssumption
<1>3. ASSUME NEW ask \in Ask, Create(ask) PROVE TypeOK'
  BY <1>1, <1>3 DEF Create, CancelTurns, TypeOK, Loop, writerVars
<1>4. CASE Ping
  BY <1>2, <1>4 DEF Ping, TypeOK, Loop, turnVars, writerVars
<1>5. CASE ClientCloses
  BY <1>1, <1>5 DEF ClientCloses, CancelTurns, TypeOK, Loop, writerVars
<1>6. CASE Leave
  BY <1>6 DEF Leave, TypeOK, Loop, turnVars, writerVars
<1>7. CASE Written
  BY <1>7 DEF Written, TypeOK, Writer, loopVars, turnVars
<1> QED
  BY <1>3, <1>4, <1>5, <1>6, <1>7 DEF Client

\* A turn's steps keep the type invariant.
LEMMA TurnKeepsType ==
  ASSUME TypeOK, NEW g \in Generation, TurnWork(g) \/ Dropped(g)
  PROVE  TypeOK'
<1>1. g \in 0..MaxCreates
  BY BridgeTurnsAssumption DEF Generation, BridgeTurnsAssumption
<1>2. ASSUME NEW from \in Task, NEW to \in Task, Turn(g, from, to)
      PROVE  turns' \in [Generation -> Task]
  BY <1>2 DEF Turn, TypeOK
<1>3. {"dispatch", "created", "bindCreated", "stream", "completed",
       "bindCompleted", "error", "broken", "over"} \subseteq Task
  BY DEF Task, Live
<1>4. CASE Respond(g) \/ Complete(g) \/ Bind(g)
  <2>1. turns' \in [Generation -> Task]
    BY <1>2, <1>3, <1>4 DEF Respond, Complete, Bind
  <2> QED
    BY <1>1, <1>4, <2>1
       DEF Respond, Complete, Bind, TypeOK, loopVars, writerVars
<1>5. CASE Deliver(g)
  <2>1. turns' \in [Generation -> Task]
    BY <1>2, <1>3, <1>5 DEF Deliver
  <2>2. channel' \in Seq(Frame) /\ Len(channel') <= Room
    BY <1>1, <1>5, SendKeepsType DEF Deliver, TypeOK, Kind
  <2> QED
    BY <1>5, <2>1, <2>2 DEF Deliver, TypeOK, loopVars, writerVars
<1>6. CASE DeliveryFails(g)
  <2>1. turns' \in [Generation -> Task]
    BY <1>2, <1>3, <1>6 DEF DeliveryFails
  <2> QED
    BY <1>6, <2>1 DEF DeliveryFails, TypeOK, loopVars, writerVars
<1>7. CASE BreakOff(g)
  <2>1. turns' \in [Generation -> Task]
    BY <1>2, <1>3, <1>7 DEF BreakOff
  <2>2. channel' \in Seq(Frame) /\ Len(channel') <= Room
    BY <1>1, <1>7, SendKeepsType DEF BreakOff, TypeOK, Kind
  <2> QED
    BY <1>7, <2>1, <2>2 DEF BreakOff, TypeOK, loopVars, writerVars
<1>8. CASE Dropped(g)
  BY <1>3, <1>8 DEF Dropped, TypeOK, loopVars, writerVars
<1> QED
  BY <1>4, <1>5, <1>6, <1>7, <1>8 DEF TurnWork

\* The writer's steps keep the type invariant.
LEMMA WriterKeepsType ==
  ASSUME TypeOK, WriterWork PROVE TypeOK'
<1>1. CASE Receive
  <2>1. /\ Head(channel) \in Frame
        /\ Tail(channel) \in Seq(Frame)
        /\ Len(Tail(channel)) <= Room
    BY <1>1, BridgeTurnsAssumption DEF Receive, TypeOK, BridgeTurnsAssumption
  <2> QED
    BY <1>1, <2>1 DEF Receive, TypeOK, Writer, loopVars, turnVars
<1>2. CASE StartWrite \/ WriteFails \/ NoSenders \/ SinkClosed
  BY <1>2 DEF StartWrite, WriteFails, NoSenders, SinkClosed, TypeOK, Writer,
              loopVars, turnVars
<1> QED
  BY <1>1, <1>2 DEF WriterWork

\* The initial state is well typed.
LEMMA StartsTyped == Init => TypeOK
<1> SUFFICES ASSUME Init PROVE TypeOK
  OBVIOUS
<1>1. /\ 0 \in 0..MaxCreates
      /\ 0 \in 0..MaxPings
      /\ Len(<<>>) <= Room
  BY BridgeTurnsAssumption DEF BridgeTurnsAssumption
<1>2. asked \in Ask
  BY DEF Init, NoAsk, Ask
<1>3. frame \in Frame
  BY <1>1 DEF Init, NoFrame, Frame, Kind
<1>4. /\ turns \in [Generation -> Task]
      /\ aborted \subseteq Generation
      /\ bound \subseteq Generation /\ unstored \subseteq Generation
      /\ received \subseteq Frame
      /\ channel \in Seq(Frame)
  BY DEF Init, Task
<1>5. loop \in Loop /\ writer \in Writer /\ fatal \in BOOLEAN
  BY DEF Init, Loop, Writer
<1> QED
  BY <1>1, <1>2, <1>3, <1>4, <1>5 DEF Init, TypeOK

\* Every step keeps the type invariant.
LEMMA StepsKeepType == TypeOK /\ [Next]_vars => TypeOK'
<1> SUFFICES ASSUME TypeOK, [Next]_vars PROVE TypeOK'
  OBVIOUS
<1>1. CASE UNCHANGED vars
  BY <1>1 DEF vars, TypeOK
<1> QED
  BY <1>1, LoopKeepsType, ClientKeepsType, TurnKeepsType, WriterKeepsType
     DEF Next

\* A session's state is always well typed; in particular its channel never
\* holds more frames than it has room for.
THEOREM TypeCorrect == Spec => []TypeOK
  BY StartsTyped, StepsKeepType, PTL DEF Spec

-----------------------------------------------------------------------------
(* The turns of a session.                                                 *)
(*                                                                         *)
(* OneTurn is inductive together with the places of the loop where no turn *)
(* can be alive.  NoStaleWrite is inductive by itself: a stale write makes *)
(* the loop wait at the gate.  CompletedIsContinuable speaks of what the   *)
(* client has; its strengthening follows a completed frame back through    *)
(* the writer and the channel to the turn that queues it.                  *)

Quiet ==
  /\ loop \in {"gate", "prepare", "reply", "closing", "drain", "ended"} => NoTurn
  /\ loop = "ended" => writer = "ended"
  /\ \A g \in Generation : turns[g] \in Live => g <= generation

\* Generations whose response id was to be bound, and was or could not be.
Attempted == bound \cup unstored

Kept(f) ==
  f.kind = "completed" /\ f.gen \in Generation =>
    cached >= f.gen /\ f.gen \in Attempted

Continuable ==
  /\ cached <= generation
  /\ \A g \in Generation : turns[g] \in Live => cached <= g
  /\ \A g \in Generation : turns[g] \in {"completed", "bindCompleted"} => cached >= g
  /\ \A g \in Generation :
       turns[g] \in {"stream", "completed", "bindCompleted"} => g \in Attempted
  /\ \A i \in 1..Len(channel) : Kept(channel[i])
  /\ Kept(frame)
  /\ \A f \in received : Kept(f)

TurnInv == OneTurn /\ Quiet
SessionInv == TypeOK /\ TurnInv /\ NoStaleWrite /\ Continuable

\* Only the loop starts a turn, and only once none is left: a session never
\* has two turns alive.
LEMMA StepsKeepTurns ==
  TypeOK /\ TurnInv /\ [Next]_vars => TurnInv'
<1> SUFFICES ASSUME TypeOK, TurnInv, [Next]_vars PROVE TurnInv'
  OBVIOUS
<1> USE DEF TurnInv, OneTurn, Quiet, NoTurn, turnVars, loopVars, writerVars
<1>1. CASE UNCHANGED vars
  BY <1>1 DEF vars
<1>2. CASE Cancelled \/ PassGate \/ CloseCancelled \/ DropSenders
  BY <1>2 DEF Cancelled, PassGate, CloseCancelled, DropSenders
<1>3. CASE Reply \/ Pong \/ SendClose \/ StopCancels \/ Drained
  BY <1>3 DEF Reply, Pong, SendClose, StopCancels, Drained
<1>4. CASE StartRefused \/ NotStarted \/ Fatal
  BY <1>4 DEF StartRefused, NotStarted, Fatal
<1>5. CASE StartTurn
  <2>1. \A g \in Generation : turns'[g] \in Live => g = generation
    BY <1>5 DEF StartTurn, TypeOK
  <2>2. generation <= generation
    BY BridgeTurnsAssumption DEF TypeOK, BridgeTurnsAssumption
  <2> QED
    BY <1>5, <2>1, <2>2 DEF StartTurn
<1>6. CASE Client
  <2>3. \A g \in Generation : g <= generation => g <= generation + 1
    BY BridgeTurnsAssumption
       DEF TypeOK, Generation, BridgeTurnsAssumption
  <2>1. CASE \E ask \in Ask : Create(ask)
    BY <2>1, <2>3 DEF Create
  <2>2. CASE Ping \/ ClientCloses \/ Leave \/ Written
    BY <2>2, <2>3 DEF Ping, ClientCloses, Leave, Written
  <2> QED
    BY <1>6, <2>1, <2>2 DEF Client
<1>7. ASSUME NEW g \in Generation, TurnWork(g) \/ Dropped(g)
      PROVE  TurnInv'
  <2>1. /\ turns[g] \in Live
        /\ \E goal \in Task : turns' = [turns EXCEPT ![g] = goal]
        /\ UNCHANGED <<loopVars, writerVars>>
    BY <1>7
       DEF TurnWork, Respond, Complete, Deliver, Bind, DeliveryFails,
           BreakOff, Dropped, Turn, Live, Task
  <2>2. \A h \in Generation : turns'[h] \in Live => turns[h] \in Live
    BY <2>1 DEF TypeOK
  <2> QED
    BY <2>1, <2>2
<1>8. CASE WriterWork
  BY <1>8 DEF WriterWork, Receive, StartWrite, WriteFails, NoSenders,
              SinkClosed
<1> QED
  BY <1>1, <1>2, <1>3, <1>4, <1>5, <1>6, <1>7, <1>8 DEF Next, LoopWork

\* A create or a Close makes the frame being written stale only by moving the
\* loop in front of the gate, which it passes when the write has ended.
LEMMA StepsKeepGate ==
  TypeOK /\ NoStaleWrite /\ [Next]_vars => NoStaleWrite'
<1> SUFFICES ASSUME TypeOK, NoStaleWrite, [Next]_vars PROVE NoStaleWrite'
  OBVIOUS
<1> USE DEF NoStaleWrite, turnVars, loopVars, writerVars
<1>1. CASE UNCHANGED vars
  BY <1>1 DEF vars
<1>2. CASE LoopWork
  <2>1. CASE \/ Cancelled \/ PassGate \/ StartTurn \/ StartRefused
             \/ NotStarted \/ CloseCancelled
    BY <2>1 DEF Cancelled, PassGate, StartTurn, StartRefused, NotStarted,
                CloseCancelled
  <2>2. CASE \/ Reply \/ Pong \/ SendClose \/ Fatal \/ StopCancels
             \/ DropSenders \/ Drained
    BY <2>2 DEF Reply, Pong, SendClose, Fatal, StopCancels, DropSenders,
                Drained
  <2> QED
    BY <1>2, <2>1, <2>2 DEF LoopWork
<1>3. CASE Client
  BY <1>3 DEF Client, Create, Ping, ClientCloses, Leave, Written
<1>4. ASSUME NEW g \in Generation, TurnWork(g) \/ Dropped(g)
      PROVE  NoStaleWrite'
  BY <1>4 DEF TurnWork, Respond, Complete, Deliver, Bind, DeliveryFails,
              BreakOff, Dropped
<1>5. CASE WriterWork
  BY <1>5 DEF WriterWork, Receive, StartWrite, WriteFails, NoSenders,
              SinkClosed
<1> QED
  BY <1>1, <1>2, <1>3, <1>4, <1>5 DEF Next

-----------------------------------------------------------------------------
(* What the client has been told is completed.                             *)

\* What was kept stays kept while the cache moves on to later responses.
LEMMA KeptLasts ==
  ASSUME TypeOK, TypeOK', NEW f \in Frame, Kept(f),
         cached' >= cached, Attempted \subseteq Attempted'
  PROVE  f.kind = "completed" /\ f.gen \in Generation =>
           cached' >= f.gen /\ f.gen \in Attempted'
  BY BridgeTurnsAssumption
     DEF Kept, TypeOK, Frame, Generation, BridgeTurnsAssumption

\* A step that sends nothing keeps what the channel promised.
LEMMA ChannelLasts ==
  ASSUME TypeOK, TypeOK', Continuable,
         cached' >= cached, Attempted \subseteq Attempted', UNCHANGED channel
  PROVE  \A i \in 1..Len(channel') :
           channel'[i].kind = "completed" /\ channel'[i].gen \in Generation =>
             cached' >= channel'[i].gen /\ channel'[i].gen \in Attempted'
<1> TAKE i \in 1..Len(channel')
<1>1. channel[i] \in Frame /\ Kept(channel[i])
  BY DEF TypeOK, Continuable
<1> QED
  BY <1>1, KeptLasts

\* A step that sends a frame queues a completion only once it can be kept.
LEMMA SendLasts ==
  ASSUME TypeOK, TypeOK', Continuable,
         cached' >= cached, Attempted \subseteq Attempted',
         NEW g \in 0..MaxCreates, NEW kind \in Kind, Send(g, kind),
         kind = "completed" => cached' >= g /\ g \in Attempted'
  PROVE  \A i \in 1..Len(channel') :
           channel'[i].kind = "completed" /\ channel'[i].gen \in Generation =>
             cached' >= channel'[i].gen /\ channel'[i].gen \in Attempted'
<1> TAKE i \in 1..Len(channel')
<1>1. /\ Len(channel') = Len(channel) + 1
      /\ channel \in Seq(Frame)
  BY DEF Send, TypeOK
<1>2. CASE i \in 1..Len(channel)
  <2>1. channel'[i] = channel[i]
    BY <1>2 DEF Send, TypeOK
  <2>2. channel[i] \in Frame /\ Kept(channel[i])
    BY <1>2 DEF TypeOK, Continuable
  <2> QED
    BY <2>1, <2>2, KeptLasts
<1>3. CASE i = Len(channel) + 1
  <2>1. channel'[i] = [gen |-> g, kind |-> kind]
    BY <1>3 DEF Send, TypeOK
  <2> QED
    BY <2>1
<1> QED
  BY <1>1, <1>2, <1>3

\* A step that leaves the turns' record and the frames alone, but for what it
\* sends, keeps everything that was promised.
LEMMA LoopKeepsPromises ==
  ASSUME TypeOK, TypeOK', TurnInv, Continuable, LoopWork
  PROVE  Continuable'
<1>1. /\ UNCHANGED <<generation, cached, Attempted, frame, received>>
      /\ \/ UNCHANGED channel
         \/ \E g \in 0..MaxCreates : \E kind \in Kind \ {"completed"} : Send(g, kind)
  BY BridgeTurnsAssumption
     DEF LoopWork, Cancelled, PassGate, StartTurn, StartRefused, NotStarted,
         Reply, Pong, CloseCancelled, SendClose, Fatal, StopCancels,
         DropSenders, Drained, loopVars, turnVars, writerVars, Kind, TypeOK,
         BridgeTurnsAssumption, Attempted
<1>2. /\ cached' >= cached
      /\ Attempted \subseteq Attempted'
  BY <1>1 DEF TypeOK
<1>3. \A i \in 1..Len(channel') : Kept(channel[i])'
  <2>1. CASE UNCHANGED channel
    BY <1>2, <2>1, ChannelLasts DEF Kept
  <2>2. ASSUME NEW g \in 0..MaxCreates, NEW kind \in Kind \ {"completed"},
               Send(g, kind)
        PROVE  \A i \in 1..Len(channel') : Kept(channel[i])'
    BY <1>2, <2>2, SendLasts DEF Kept
  <2> QED
    BY <1>1, <2>1, <2>2
<1>4. CASE UNCHANGED turns
  BY <1>1, <1>3, <1>4 DEF Continuable, Kept
<1>5. CASE StartTurn
  <2>1. \A g \in Generation :
          /\ turns'[g] \in Live => (turns[g] \in Live \/ g = generation)
          /\ turns'[g] \in {"stream", "completed", "bindCompleted"} =>
               turns'[g] = turns[g]
    BY <1>5 DEF StartTurn, TypeOK
  <2> QED
    BY <1>1, <1>3, <2>1 DEF Continuable, Kept
<1> QED
  BY <1>4, <1>5
     DEF LoopWork, Cancelled, PassGate, StartRefused, NotStarted,
         Reply, Pong, CloseCancelled, SendClose, Fatal, StopCancels,
         DropSenders, Drained, turnVars

\* The client's steps keep what was promised; a written frame was promised.
LEMMA ClientKeepsPromises ==
  ASSUME TypeOK, TypeOK', Continuable, Client
  PROVE  Continuable'
<1>1. /\ UNCHANGED <<turns, cached, Attempted, frame, channel>>
      /\ generation' >= generation
      /\ received' \subseteq received \cup {frame}
  BY BridgeTurnsAssumption
     DEF Client, Create, Ping, ClientCloses, Leave, Written, loopVars,
         turnVars, writerVars, TypeOK, BridgeTurnsAssumption, Attempted
<1>2. cached' <= generation'
  BY <1>1, BridgeTurnsAssumption
     DEF Continuable, TypeOK, BridgeTurnsAssumption
<1> QED
  BY <1>1, <1>2 DEF Continuable, Kept

\* A turn publishes its continuation and binds its id before it queues its
\* completion, and no later turn can have completed before it.
LEMMA TurnKeepsPromises ==
  ASSUME TypeOK, TypeOK', TurnInv, Continuable,
         NEW g \in Generation, TurnWork(g) \/ Dropped(g)
  PROVE  Continuable'
<1>1. /\ UNCHANGED <<generation, frame, received>>
      /\ turns[g] \in Live
      /\ \E goal \in Task : turns' = [turns EXCEPT ![g] = goal]
  BY DEF TurnWork, Respond, Complete, Deliver, Bind, DeliveryFails,
         BreakOff, Dropped, Turn, Live, Task, loopVars, writerVars
<1>2. /\ g \in 0..MaxCreates
      /\ cached \in Nat /\ g \in Nat
      /\ g <= generation
  BY <1>1, BridgeTurnsAssumption
     DEF Generation, TypeOK, TurnInv, Quiet, BridgeTurnsAssumption
<1>3. cached <= g /\ (cached' = cached \/ cached' = g)
  BY <1>1
     DEF Continuable, TurnWork, Respond, Complete, Deliver, Bind,
         DeliveryFails, BreakOff, Dropped
<1>4. Attempted' = Attempted \/ Attempted' = Attempted \cup {g}
  BY DEF TurnWork, Respond, Complete, Deliver, Bind, DeliveryFails, BreakOff,
         Dropped, Attempted
<1>5. cached' >= cached /\ Attempted \subseteq Attempted' /\ cached' <= g
  BY <1>2, <1>3, <1>4
<1>6. \A h \in Generation : h # g => turns'[h] = turns[h] /\ turns'[h] \notin Live
  BY <1>1 DEF TypeOK, TurnInv, OneTurn
<1>7. /\ turns'[g] \in {"completed", "bindCompleted"} => cached' >= g
      /\ turns'[g] \in {"stream", "completed", "bindCompleted"} => g \in Attempted'
  <2>1. CASE Complete(g)
    <3>1. UNCHANGED <<bound, unstored>>
      BY <2>1 DEF Complete
    <3>2. Attempted' = Attempted
      BY <3>1 DEF Attempted
    <3> QED
      BY <1>2, <2>1, <3>2 DEF Complete, Turn, TypeOK, Continuable
  <2>2. CASE Bind(g)
    BY <1>2, <2>2 DEF Bind, Turn, TypeOK, Attempted
  <2>3. CASE \/ Respond(g) \/ Deliver(g) \/ DeliveryFails(g) \/ BreakOff(g)
             \/ Dropped(g)
    <3>1. UNCHANGED <<bound, unstored>>
      BY <2>3 DEF Respond, Deliver, DeliveryFails, BreakOff, Dropped
    <3>2. Attempted' = Attempted
      BY <3>1 DEF Attempted
    <3> QED
      BY <1>2, <2>3, <3>2
         DEF Respond, Deliver, DeliveryFails, BreakOff, Dropped, Turn, TypeOK,
             Continuable
  <2> QED
    BY <2>1, <2>2, <2>3 DEF TurnWork
<1>8. \A i \in 1..Len(channel') : Kept(channel[i])'
  <2>1. CASE UNCHANGED channel
    BY <1>5, <2>1, ChannelLasts DEF Kept
  <2>2. CASE Send(g, "completed") /\ turns[g] = "completed"
    <3>1. cached' >= g /\ g \in Attempted'
      BY <1>2, <1>5, <2>2 DEF Continuable, TypeOK
    <3> QED
      BY <1>2, <1>5, <2>2, <3>1, SendLasts DEF Kept, Kind
  <2>3. ASSUME NEW kind \in Kind \ {"completed"}, Send(g, kind)
        PROVE  \A i \in 1..Len(channel') : Kept(channel[i])'
    BY <1>2, <1>5, <2>3, SendLasts DEF Kept
  <2>4. \/ UNCHANGED channel
        \/ Send(g, "completed") /\ turns[g] = "completed"
        \/ \E kind \in Kind \ {"completed"} : Send(g, kind)
    BY DEF TurnWork, Respond, Complete, Deliver, Bind, DeliveryFails,
           BreakOff, Dropped, Turn, Kind
  <2> QED
    BY <2>1, <2>2, <2>3, <2>4
<1>9. Kept(frame)' /\ \A f \in received' : Kept(f)'
  <2>1. \A f \in received \cup {frame} : f \in Frame /\ Kept(f)
    BY DEF Continuable, TypeOK
  <2> QED
    BY <1>1, <1>5, <2>1, KeptLasts DEF Kept
<1>10. cached' <= generation'
  BY <1>1, <1>2, <1>5 DEF TypeOK
<1>11. \A h \in Generation :
         turns'[h] \in {"stream", "completed", "bindCompleted"} => h = g
  BY <1>6 DEF Live
<1>12. \A h \in Generation : turns'[h] \in Live => cached' <= h
  BY <1>5, <1>6
<1> QED
  BY <1>7, <1>8, <1>9, <1>10, <1>11, <1>12 DEF Continuable

\* The writer takes frames out of the channel in order and adds none.
LEMMA WriterKeepsPromises ==
  ASSUME TypeOK, TypeOK', Continuable, WriterWork
  PROVE  Continuable'
<1>1. UNCHANGED <<generation, turns, cached, Attempted, received>>
  BY DEF WriterWork, Receive, StartWrite, WriteFails, NoSenders, SinkClosed,
         loopVars, turnVars, Attempted
<1>2. CASE Receive
  <2>1. /\ Len(channel) >= 1
        /\ frame' = channel[1]
        /\ Len(channel') = Len(channel) - 1
        /\ \A i \in 1..Len(channel') :
             i + 1 \in 1..Len(channel) /\ channel'[i] = channel[i + 1]
    BY <1>2 DEF Receive, TypeOK
  <2>2. Kept(frame)'
    BY <1>1, <2>1 DEF Continuable, Kept, TypeOK
  <2>3. \A i \in 1..Len(channel') : Kept(channel[i])'
    BY <1>1, <2>1 DEF Continuable, Kept
  <2> QED
    BY <1>1, <2>2, <2>3 DEF Continuable, Kept
<1>3. CASE StartWrite \/ WriteFails \/ NoSenders \/ SinkClosed
  BY <1>1, <1>3
     DEF StartWrite, WriteFails, NoSenders, SinkClosed, Continuable, Kept
<1> QED
  BY <1>2, <1>3 DEF WriterWork

\* Every step keeps what was promised.
LEMMA StepsKeepPromises ==
  TypeOK /\ TurnInv /\ Continuable /\ [Next]_vars => Continuable'
<1> SUFFICES ASSUME TypeOK, TurnInv, Continuable, [Next]_vars
             PROVE  Continuable'
  OBVIOUS
<1>1. TypeOK'
  BY StepsKeepType
<1>2. CASE UNCHANGED vars
  BY <1>2 DEF vars, Continuable, Kept, Attempted
<1> QED
  BY <1>1, <1>2, LoopKeepsPromises, ClientKeepsPromises, TurnKeepsPromises,
     WriterKeepsPromises DEF Next

-----------------------------------------------------------------------------
(* Theorems.                                                               *)

\* The invariant holds at first.
LEMMA SessionStarts == Init => SessionInv
<1> SUFFICES ASSUME Init PROVE SessionInv
  OBVIOUS
<1>1. TurnInv /\ NoStaleWrite
  BY DEF Init, TurnInv, OneTurn, Quiet, NoTurn, NoStaleWrite, Live
<1>2. Continuable
  BY BridgeTurnsAssumption
     DEF Init, Continuable, Kept, NoFrame, Live, BridgeTurnsAssumption
<1> QED
  BY <1>1, <1>2, StartsTyped DEF SessionInv

\* The invariant holds of every reachable state.
LEMMA SessionHolds == Spec => []SessionInv
<1>1. SessionInv /\ [Next]_vars => SessionInv'
  BY StepsKeepType, StepsKeepTurns, StepsKeepGate, StepsKeepPromises
     DEF SessionInv
<1> QED
  BY <1>1, SessionStarts, PTL DEF Spec

\* A session never runs two turns, and a turn outlives the create or Close
\* that replaces it only while the loop awaits its end.
THEOREM OneTurnAlways == Spec => []OneTurn
<1>1. SessionInv => OneTurn
  BY DEF SessionInv, TurnInv
<1> QED
  BY <1>1, SessionHolds, PTL

\* A replacement turn starts only after the last frame of the turn it
\* replaces has left the writer.
THEOREM NoStaleWriteAlways == Spec => []NoStaleWrite
<1>1. SessionInv => NoStaleWrite
  BY DEF SessionInv
<1> QED
  BY <1>1, SessionHolds, PTL

\* What the client has seen completed it can continue, unless the store refused
\* to bind it.
THEOREM ContinuableAlways == Spec => []CompletedIsContinuable
<1>1. SessionInv => CompletedIsContinuable
  BY DEF SessionInv, Continuable, Kept, CompletedIsContinuable, Completed,
         Attempted
<1> QED
  BY <1>1, SessionHolds, PTL

\* The end of a session's task is the end of its turn and of its writer.
THEOREM EndedAlways == Spec => []EndedLeavesNothing
<1>1. SessionInv => EndedLeavesNothing
  BY DEF SessionInv, TurnInv, Quiet, EndedLeavesNothing
<1> QED
  BY <1>1, SessionHolds, PTL

-----------------------------------------------------------------------------
(* The control chain.                                                      *)

\* A call that may still be answered has no result at upstream's side.
ChainInv ==
  /\ N!TypeOK
  /\ steers <= controls
  /\ submitted \subseteq offered
  /\ \A c \in Calls : holds[c] \in {0, 1} /\ holds[c] <= controls
  /\ \A c \in offered \ submitted : holds[c] = 0
  /\ N!ContinuationTimed

\* Every step of the chain keeps the invariant.
LEMMA ChainStep ==
  ASSUME ChainInv, N!Next
  PROVE  ChainInv'
<1> USE ChainAssumption DEF ChainInv
<1>1. ASSUME N!Charged PROVE controls' \in 0..MaxControls /\ controls' = controls + 1
  BY <1>1 DEF N!Charged, N!TypeOK
<1>2. ASSUME NEW calls \in SUBSET Calls, N!Charged, N!Submit(calls)
      PROVE  /\ submitted' \subseteq offered /\ submitted' \subseteq Calls
             /\ holds' \in [Calls -> 0..MaxControls]
             /\ \A c \in Calls : holds'[c] \in {0, 1} /\ holds'[c] <= controls'
             /\ \A c \in offered \ submitted' : holds'[c] = 0
  <2>1. controls' \in 0..MaxControls /\ controls' = controls + 1 /\ controls \in 0..MaxControls
    BY <1>1, <1>2 DEF N!TypeOK
  <2>2. calls \subseteq offered \ submitted /\ submitted' = submitted \cup calls
    BY <1>2 DEF N!Submit, N!Unsubmitted
  <2>3. \A c \in Calls : holds'[c] = holds[c] + IF c \in calls THEN 1 ELSE 0
    BY <1>2 DEF N!Submit
  <2>4. \A c \in Calls : holds'[c] \in {0, 1} /\ holds'[c] <= controls'
    BY <2>1, <2>2, <2>3
  <2>5. holds' \in [Calls -> 0..MaxControls]
    <3>1. \A c \in Calls : holds'[c] \in 0..MaxControls
      BY <2>1, <2>4
    <3> QED
      BY <1>2, <2>3, <3>1 DEF N!Submit
  <2> QED
    BY <2>2, <2>3, <2>4, <2>5 DEF N!TypeOK
<1>3. ASSUME NEW calls \in SUBSET Calls, N!Inject(calls) PROVE ChainInv'
  BY <1>1, <1>2, <1>3 DEF N!Inject, N!TypeOK, N!ContinuationTimed
<1>4. ASSUME NEW calls \in SUBSET Calls, N!Continue(calls) PROVE ChainInv'
  BY <1>1, <1>2, <1>4 DEF N!Continue, N!TypeOK, N!ContinuationTimed
<1>5. CASE N!Steer
  BY <1>1, <1>5 DEF N!Steer, N!TypeOK, N!ContinuationTimed
<1>6. CASE N!Relay
  BY <1>1, <1>6 DEF N!Relay, N!TypeOK, N!ContinuationTimed
<1>7. ASSUME NEW c \in Calls, N!Offer(c) PROVE ChainInv'
  BY <1>7 DEF N!Offer, N!TypeOK, N!ContinuationTimed
<1>8. ASSUME NEW failed \in BOOLEAN, N!InjectionAnswered(failed) PROVE ChainInv'
  <2>1. CASE failed
    <3>1. \A c \in Calls : holds'[c] = IF c \in injection THEN 0 ELSE holds[c]
      BY <1>8, <2>1 DEF N!InjectionAnswered
    <3>2. holds' \in [Calls -> 0..MaxControls]
      BY <1>8, <2>1 DEF N!InjectionAnswered, N!TypeOK
    <3> QED
      BY <1>8, <2>1, <3>1, <3>2 DEF N!InjectionAnswered, N!TypeOK, N!ContinuationTimed
  <2>2. CASE ~failed
    BY <1>8, <2>2 DEF N!InjectionAnswered, N!TypeOK, N!ContinuationTimed
  <2> QED
    BY <2>1, <2>2
<1>9. ASSUME NEW s \in Steers, N!SteerAccepted(s) PROVE ChainInv'
  BY <1>9 DEF N!SteerAccepted, N!TypeOK, N!ContinuationTimed
<1>10. ASSUME NEW s \in Steers, N!SteerFailed(s) PROVE ChainInv'
  BY <1>10 DEF N!SteerFailed, N!NoSuccessor, N!TypeOK, N!ContinuationTimed
<1>11. ASSUME NEW s \in Steers, N!SteerPending(s) PROVE ChainInv'
  BY <1>11 DEF N!SteerPending, N!TypeOK, N!ContinuationTimed
<1>12. CASE N!Created
  <2>1. responses' \in 1..MaxResponses
    BY <1>12 DEF N!Created, N!TypeOK
  <2> QED
    BY <1>12, <2>1 DEF N!Created, N!TypeOK, N!ContinuationTimed
<1>13. CASE N!End
  BY <1>13 DEF N!End, N!TypeOK, N!ContinuationTimed
<1> QED
  BY <1>3, <1>4, <1>5, <1>6, <1>7, <1>8, <1>9, <1>10, <1>11, <1>12, <1>13 DEF N!Next

\* A step of the lanes is the chain's own, or leaves it alone.
LEMMA ChainAlone == [LanesNext]_lanes => N!Next \/ UNCHANGED nativeVars
BY DEF LanesNext, lanes

(***************************************************************************)
(* ChainKept: upstream never holds two results of a tool call, whichever   *)
(* of injections, their retries and continuations carried them, and a      *)
(* continuation is never without its deadline (native_control.rs).         *)
(***************************************************************************)
THEOREM ChainKeptAlways == LanesSpec => []ChainKept
<1>1. LanesInit => ChainInv
  <2> SUFFICES ASSUME N!Init PROVE ChainInv
    BY DEF LanesInit
  <2>1. holds = [c \in Calls |-> 0] /\ controls = 0 /\ responses = 1 /\ steers = 0
    BY DEF N!Init
  <2>2. /\ holds \in [Calls -> 0..MaxControls]
        /\ \A c \in Calls : holds[c] \in {0, 1} /\ holds[c] <= controls
        /\ \A c \in Calls : holds[c] = 0
    BY <2>1, ChainAssumption
  <2>3. controls \in 0..MaxControls /\ responses \in 1..MaxResponses /\ steers \in 0..MaxControls
    BY <2>1, ChainAssumption
  <2>4. N!TypeOK
    BY <2>2, <2>3 DEF N!Init, N!TypeOK
  <2>5. steers <= controls
    BY <2>1
  <2>6. submitted \subseteq offered /\ N!ContinuationTimed
    BY DEF N!Init, N!ContinuationTimed
  <2>7. \A c \in offered \ submitted : holds[c] = 0
    BY <2>2, <2>4 DEF N!TypeOK
  <2> QED
    BY <2>2, <2>4, <2>5, <2>6, <2>7 DEF ChainInv
<1>2. ChainInv /\ [LanesNext]_lanes => ChainInv'
  <2> SUFFICES ASSUME ChainInv, [LanesNext]_lanes PROVE ChainInv'
    OBVIOUS
  <2>1. CASE UNCHANGED nativeVars
    BY <2>1 DEF nativeVars, ChainInv, N!TypeOK, N!ContinuationTimed
  <2> QED
    BY <2>1, ChainStep, ChainAlone
<1>3. ChainInv => ChainKept
  <2> SUFFICES ASSUME ChainInv PROVE ChainKept
    OBVIOUS
  <2>1. N!ResultOnce
    BY DEF ChainInv, N!ResultOnce
  <2> QED
    BY <2>1 DEF ChainInv, ChainKept
<1> QED
  BY <1>1, <1>2, <1>3, PTL DEF LanesSpec

-----------------------------------------------------------------------------
(* The direct session.                                                     *)

\* What a create has come to, for the client and for the session: of what is
\* not settled nothing final was sent, and nothing at all while it is hidden.
TurnGood(r, shown, finals, open) ==
  /\ r \in D!TurnState
  /\ r.stage = "queued" => r.visible = "no"
  /\ shown \subseteq {r.sends}
  /\ r.stage # "settled" /\ r.visible = "no" => shown = {}
  /\ finals \in {0, 1}
  /\ r.stage # "settled" => finals = 0
  /\ r.stage = "settled" /\ open => finals = 1

DirectInv ==
  /\ D!TypeOK
  /\ \A t \in DOMAIN directTurns :
       TurnGood(directTurns[t], delivered[t], ends[t], place = "open")
  /\ \A t \in D!Turn \ DOMAIN directTurns : delivered[t] = {} /\ ends[t] = 0
  /\ \A i \in DOMAIN queued :
       /\ queued[i] \in DOMAIN directTurns
       /\ directTurns[queued[i]].stage = "queued"
       /\ \A j \in DOMAIN queued : queued[i] = queued[j] => i = j
  /\ D!OneUnacknowledged

-----------------------------------------------------------------------------
(* Replays.                                                                *)

\* What any of a replay's ways keeps of a turn.
Same(q, r) ==
  /\ q \in D!TurnState
  /\ q.stage = r.stage /\ q.visible = r.visible

\* What a plan that is committed makes of its turn.
LEMMA CommittedTurn ==
  ASSUME NEW r \in D!TurnState, NEW e \in D!Event, NEW target
  PROVE  Same(D!Committed(r, e, target), r) /\ D!Committed(r, e, target).answer = "none"
         /\ D!Committed(r, e, target).sends = r.sends
<1> DEFINE c == IF D!Fresh(r, target) THEN [r.create EXCEPT !.anchored = FALSE, !.resend = FALSE]
                ELSE r.create
           q == [r EXCEPT !.replayed = TRUE,
                     !.last = r.last \/ e.spared,
                     !.refreshed = r.refreshed \/ target = "same",
                     !.moved = r.moved \/ D!ToAlternate(e, target),
                     !.answer = "none",
                     !.create = c]
<1>1. r.create \in D!Create
  BY DEF D!TurnState
<1>2. c \in D!Create
  BY <1>1 DEF D!Create
<1>3. D!Committed(r, e, target) = q
  BY Zenon DEF D!Committed
<1>4. (r.last \/ e.spared) \in BOOLEAN /\ (r.refreshed \/ target = "same") \in BOOLEAN
      /\ (r.moved \/ D!ToAlternate(e, target)) \in BOOLEAN
  BY DEF D!ToAlternate
<1> HIDE DEF c
<1>5. q \in D!TurnState
  BY <1>2, <1>4 DEF D!TurnState
<1> QED
  BY <1>3, <1>5 DEF Same, D!TurnState

\* And its send.
LEMMA ResentTurn ==
  ASSUME NEW r \in D!TurnState, NEW e \in D!Event, NEW target, NEW to, r.sends # MaxSends
  PROVE  Same(D!Resent(r, e, target, to), r) /\ D!Resent(r, e, target, to).answer = "none"
<1> DEFINE c == D!Committed(r, e, target)
           q == [c EXCEPT !.refreshed = c.refreshed /\ to = account,
                          !.moved = c.moved /\ to = account,
                          !.buffer = "off",
                          !.sends = c.sends + 1]
<1>1. Same(c, r) /\ c.answer = "none" /\ c.sends = r.sends
  BY CommittedTurn
<1>2. D!Resent(r, e, target, to) = q
  BY Zenon DEF D!Resent
<1> HIDE DEF c
<1>3. r.sends \in 0..MaxSends
  BY DEF D!TurnState
<1>4. c.sends + 1 \in 0..MaxSends
  BY <1>1, <1>3, DirectAssumption
<1>5. q \in D!TurnState /\ q.stage = c.stage /\ q.visible = c.visible /\ q.answer = c.answer
  BY <1>1, <1>4 DEF D!TurnState, Same
<1> QED
  BY <1>1, <1>2, <1>5 DEF Same

\* An outcome that was sent has the turn as it is to be waited for.
SentWell(outcome, r) ==
  outcome.result = "sent" =>
    Same(outcome.turn, r) /\ outcome.turn.answer = "none" /\ outcome.to \in Accounts

\* Whichever way a replacement that was connected is used.
LEMMA SendingWell ==
  ASSUME NEW r \in D!TurnState, NEW e \in D!Event, NEW target, NEW to \in Accounts,
         NEW outcome \in D!Sending(r, e, target, to)
  PROVE  SentWell(outcome, r)
<1>1. \A q : D!NotSent(q).result = "none" /\ D!Broken(q).result = "broken"
  BY DEF D!NotSent, D!Broken
<1>2. CASE outcome = D!Sent(D!Resent(r, e, target, to), to) /\ r.sends # MaxSends
  BY <1>2, ResentTurn DEF D!Sent, SentWell
<1>3. CASE \E q : outcome = D!NotSent(q) \/ outcome = D!Broken(q)
  BY <1>1, <1>3 DEF SentWell
<1> QED
  BY <1>2, <1>3, Zenon DEF D!Sending

\* The same for a replay to another account.
LEMMA ElsewhereWell ==
  ASSUME account \in Accounts,
         NEW r \in D!TurnState, NEW e \in D!Event, NEW target,
         NEW outcome \in D!Elsewhere(r, e, target)
  PROVE  SentWell(outcome, r)
<1>1. D!NotSent(r).result = "none"
  BY DEF D!NotSent
<1>2. CASE outcome = D!NotSent(r)
  BY <1>1, <1>2 DEF SentWell
<1>3. CASE \E to \in Accounts : outcome \in D!Sending(r, e, target, to)
  BY <1>3, SendingWell
<1> QED
  BY <1>2, <1>3 DEF D!Elsewhere

\* A replay is only sent for a turn that is alone and of which nothing was seen.
LEMMA ReplaysWell ==
  ASSUME account \in Accounts, NEW t, directTurns[t] \in D!TurnState, NEW e \in D!Event,
         NEW outcome \in D!Replays(t, e)
  PROVE  /\ SentWell(outcome, directTurns[t])
         /\ outcome.result = "sent" =>
              /\ ~pinned /\ D!Cardinality(D!Pending) = 1
              /\ directTurns[t].visible = "no"
<1> DEFINE r == directTurns[t]
           target == D!Planned(r, e)
           skipped == [r EXCEPT !.refreshed = TRUE]
<1>1. \A q : D!NotSent(q).result = "none" /\ D!Broken(q).result = "broken"
  BY DEF D!NotSent, D!Broken
<1>2. skipped \in D!TurnState /\ Same(skipped, r)
  BY DEF D!TurnState, Same
<1>3. CASE outcome = D!NotSent(r)
  BY <1>1, <1>3 DEF SentWell
<1>4. ASSUME D!Replayable(t, e), outcome \in D!SameAccount(r, e) \/ outcome \in D!Elsewhere(r, e, target)
      PROVE  SentWell(outcome, r)
  <2>1. CASE outcome \in D!Elsewhere(r, e, target)
    BY <2>1, ElsewhereWell
  <2>2. CASE outcome \in D!Sending(r, e, "same", account)
    BY <2>2, SendingWell
  <2>3. CASE outcome \in {D!Broken(skipped), D!NotSent(skipped)}
    BY <1>1, <2>3 DEF SentWell
  <2>4. CASE outcome \in D!Elsewhere(skipped, e, D!Planned(skipped, e))
    <3>1. SentWell(outcome, skipped)
      BY <1>2, <2>4, ElsewhereWell
    <3> QED
      BY <1>2, <3>1 DEF SentWell, Same
  <2> QED
    BY <1>4, <2>1, <2>2, <2>3, <2>4, Zenon DEF D!SameAccount
<1>5. outcome = D!NotSent(r) \/
      (D!Replayable(t, e) /\ (outcome \in D!SameAccount(r, e) \/ outcome \in D!Elsewhere(r, e, target)))
  BY Zenon DEF D!Replays
<1>6. D!Replayable(t, e) => ~pinned /\ D!Cardinality(D!Pending) = 1 /\ r.visible = "no"
  BY DEF D!Replayable, D!Alone, D!Hidden
<1> QED
  BY <1>1, <1>3, <1>4, <1>5, <1>6

-----------------------------------------------------------------------------
(* The turns.                                                              *)

\* DirectSocket's Cardinality is that of FiniteSets.
LEMMA SameSize == \A S : D!Cardinality(S) = Cardinality(S)
BY DEF D!Cardinality, Cardinality

\* A turn that is alone is the only one that is pending.
LEMMA SoleTurn ==
  ASSUME D!TypeOK, NEW t \in D!Pending, D!Cardinality(D!Pending) = 1
  PROVE  D!Pending = {t}
<1>1. D!Pending \subseteq 1..Len(directTurns) /\ Len(directTurns) \in Nat
  BY DEF D!Pending, D!TypeOK
<1>2. IsFiniteSet(D!Pending)
  <2>1. IsFiniteSet(1..Len(directTurns))
    BY <1>1, FS_Interval
  <2> QED
    BY <1>1, <2>1, FS_Subset
<1>3. \E x : D!Pending = {x}
  BY <1>2, SameSize, FS_Singleton
<1> QED
  BY <1>3

\* What holds only one value has at most one.
LEMMA OneShown ==
  ASSUME NEW S, NEW x, S \subseteq {x}
  PROVE  D!Cardinality(S) <= 1
<1>1. S = {} \/ S = {x}
  OBVIOUS
<1>2. Cardinality(S) = 0 \/ Cardinality(S) = 1
  BY <1>1, FS_EmptySet, FS_Singleton
<1>3. D!Cardinality(S) = Cardinality(S)
  BY SameSize
<1> QED
  BY <1>2, <1>3

\* A sequence of the same turns, each in a state of the type.
LEMMA TurnsTyped ==
  ASSUME D!TypeOK, NEW f, f = [t \in DOMAIN directTurns |-> f[t]],
         \A t \in DOMAIN directTurns : f[t] \in D!TurnState
  PROVE  f \in Seq(D!TurnState) /\ DOMAIN f = DOMAIN directTurns
         /\ Len(f) = Len(directTurns)
<1>1. DOMAIN directTurns = 1..Len(directTurns) /\ Len(directTurns) \in Nat
  BY DEF D!TypeOK
<1>2. f \in [1..Len(directTurns) -> D!TurnState]
  BY <1>1
<1> QED
  BY <1>1, <1>2

\* What flushing its buffer makes of a turn.
LEMMA FlushedTurn ==
  ASSUME D!TypeOK, NEW S, NEW t \in DOMAIN directTurns
  PROVE  LET q == D!Flushed(S)[t]
             r == directTurns[t]
         IN /\ q \in D!TurnState
            /\ q.stage = r.stage /\ q.answer = r.answer /\ q.sends = r.sends
            /\ q.create = r.create
            /\ q.visible = IF t \in D!Held(S) THEN "numbered" ELSE r.visible
            /\ q.buffer # "held" \/ t \notin S
<1> DEFINE r == directTurns[t]
           v == IF r.buffer = "held" THEN "numbered" ELSE r.visible
<1>1. r \in D!TurnState
  BY DEF D!TypeOK
<1>2. v \in {"no", "plain", "numbered"}
  BY <1>1 DEF D!TurnState
<1>3. D!Flushed(S)[t] = IF t \notin S THEN r ELSE [r EXCEPT !.buffer = "off", !.visible = v]
  BY DEF D!Flushed
<1>4. t \in D!Held(S) <=> t \in S /\ r.buffer = "held"
  BY DEF D!Held
<1>5. CASE t \notin S
  BY <1>1, <1>3, <1>4, <1>5
<1>6. CASE t \in S
  <2> DEFINE q == [r EXCEPT !.buffer = "off", !.visible = v]
  <2>1. q = D!Flushed(S)[t]
    BY <1>3, <1>6
  <2>2. q \in D!TurnState /\ q.stage = r.stage /\ q.answer = r.answer /\ q.sends = r.sends
        /\ q.create = r.create /\ q.visible = v /\ q.buffer = "off"
    BY <1>1, <1>2 DEF D!TurnState
  <2> QED
    BY <1>4, <1>6, <2>1, <2>2
<1> QED
  BY <1>5, <1>6

\* Flushing keeps the turns.
LEMMA FlushedDomain ==
  ASSUME NEW S
  PROVE  D!Flushed(S) = [t \in DOMAIN directTurns |-> D!Flushed(S)[t]]
BY DEF D!Flushed

\* What is shown of the turns of S.
LEMMA ShowEffect ==
  ASSUME D!TypeOK, NEW S \in SUBSET DOMAIN directTurns, D!Show(S)
  PROVE  /\ delivered' \in [D!Turn -> SUBSET (0..MaxSends)]
         /\ \A t \in D!Turn :
              delivered'[t] = IF t \in S THEN delivered[t] \cup {directTurns[t].sends}
                              ELSE delivered[t]
<1>1. \A t \in S : directTurns[t].sends \in 0..MaxSends
  <2>1. \A t \in S : directTurns[t] \in D!TurnState
    BY DEF D!TypeOK
  <2> QED
    BY <2>1 DEF D!TurnState
<1>2. \A t \in D!Turn :
        delivered'[t] = IF t \in S THEN delivered[t] \cup {directTurns[t].sends} ELSE delivered[t]
  BY DEF D!Show, D!Attempt
<1>3. \A t \in D!Turn : delivered'[t] \in SUBSET (0..MaxSends)
  BY <1>1, <1>2 DEF D!TypeOK
<1> QED
  BY <1>2, <1>3 DEF D!Show

\* Final frames for the turns of S, which have had none.
LEMMA FinishEffect ==
  ASSUME D!TypeOK, NEW S, D!Finish(S), \A t \in S : ends[t] = 0
  PROVE  /\ ends' \in [D!Turn -> Nat]
         /\ \A t \in D!Turn : ends'[t] = IF t \in S THEN 1 ELSE ends[t]
<1>1. \A t \in D!Turn : ends'[t] = IF t \in S THEN 1 ELSE ends[t]
  BY DEF D!Finish, D!TypeOK
<1>2. \A t \in D!Turn : ends'[t] \in Nat
  BY <1>1 DEF D!TypeOK
<1> QED
  BY <1>1, <1>2 DEF D!Finish

\* A step that leaves the create queue alone.
LEMMA TurnsChange ==
  ASSUME DirectInv,
         directTurns' = [t \in DOMAIN directTurns |-> directTurns'[t]],
         \A t \in DOMAIN directTurns :
           TurnGood(directTurns'[t], delivered'[t], ends'[t], place' = "open"),
         \A t \in DOMAIN directTurns :
           directTurns[t].stage = "queued" => directTurns'[t].stage = "queued",
         \A t \in D!Turn \ DOMAIN directTurns : delivered'[t] = delivered[t] /\ ends'[t] = ends[t],
         \A t \in DOMAIN directTurns :
           directTurns'[t].stage = "pending" /\ directTurns'[t].answer = "none" => t = awaiting',
         UNCHANGED queued,
         place' \in {"open", "chain", "closed"}, account' \in Accounts,
         socket' \in 1..MaxSockets, pinned' \in BOOLEAN, awaiting' \in 0..MaxTurns,
         candidate' \in 0..MaxTurns, signal' \in BOOLEAN,
         delivered' \in [D!Turn -> SUBSET (0..MaxSends)], ends' \in [D!Turn -> Nat]
  PROVE  DirectInv'
<1>1. /\ directTurns' \in Seq(D!TurnState) /\ DOMAIN directTurns' = DOMAIN directTurns
      /\ Len(directTurns') = Len(directTurns)
  BY TurnsTyped DEF TurnGood, DirectInv
<1>2. D!TypeOK'
  BY <1>1 DEF DirectInv, D!TypeOK
<1>3. D!OneUnacknowledged'
  BY <1>1 DEF D!OneUnacknowledged, D!Pending
<1>4. \A i \in DOMAIN queued' :
        /\ queued'[i] \in DOMAIN directTurns'
        /\ directTurns'[queued'[i]].stage = "queued"
        /\ \A j \in DOMAIN queued' : queued'[i] = queued'[j] => i = j
  BY <1>1 DEF DirectInv
<1> QED
  BY <1>1, <1>2, <1>3, <1>4 DEF DirectInv

-----------------------------------------------------------------------------
(* The steps.                                                              *)

\* What the steps use of the invariant.
LEMMA TurnFacts ==
  ASSUME DirectInv
  PROVE  /\ D!TypeOK /\ DOMAIN directTurns \subseteq D!Turn /\ D!Pending \subseteq DOMAIN directTurns
         /\ \A t \in DOMAIN directTurns :
              /\ directTurns[t] \in D!TurnState
              /\ TurnGood(directTurns[t], delivered[t], ends[t], place = "open")
         /\ \A t \in D!Pending : directTurns[t].stage = "pending" /\ ends[t] = 0
         /\ \A t \in D!Pending : directTurns[t].answer = "none" => t = awaiting
BY DirectAssumption DEF DirectInv, D!TypeOK, D!Turn, D!Pending, TurnGood, D!OneUnacknowledged

\* Of the pending turns in S more is seen; nothing else happens to a turn.
LEMMA ShownStep ==
  ASSUME DirectInv, NEW S \in SUBSET D!Pending, D!Show(S),
         directTurns' = [t \in DOMAIN directTurns |-> directTurns'[t]],
         \A t \in DOMAIN directTurns :
           /\ directTurns'[t] \in D!TurnState
           /\ directTurns'[t].stage = directTurns[t].stage
           /\ directTurns'[t].answer = directTurns[t].answer
           /\ directTurns'[t].sends = directTurns[t].sends
           /\ t \in S => directTurns'[t].visible # "no"
           /\ t \notin S => directTurns'[t].visible = directTurns[t].visible,
         place = "open", place' \in {"open", "chain", "closed"}, pinned' \in BOOLEAN,
         UNCHANGED <<account, socket, queued, awaiting, candidate, signal, ends>>
  PROVE  DirectInv'
<1>1. /\ DOMAIN directTurns \subseteq D!Turn /\ D!Pending \subseteq DOMAIN directTurns /\ D!TypeOK
      /\ \A t \in D!Pending : directTurns[t].stage = "pending"
  BY TurnFacts
<1>2. S \in SUBSET DOMAIN directTurns
  BY <1>1
<1>3. /\ delivered' \in [D!Turn -> SUBSET (0..MaxSends)]
      /\ \A t \in D!Turn : delivered'[t] = IF t \in S THEN delivered[t] \cup {directTurns[t].sends}
                                            ELSE delivered[t]
  BY <1>1, <1>2, ShowEffect
<1>5. ASSUME NEW t \in DOMAIN directTurns
      PROVE  TurnGood(directTurns'[t], delivered'[t], ends'[t], place' = "open")
  <2> DEFINE q == directTurns'[t]
             r == directTurns[t]
  <2>1. /\ q \in D!TurnState
        /\ q.stage = r.stage /\ q.sends = r.sends
        /\ t \in S => q.visible # "no"
        /\ t \notin S => q.visible = r.visible
    OBVIOUS
  <2>2. TurnGood(r, delivered[t], ends[t], TRUE)
    BY TurnFacts
  <2>3. t \in D!Turn /\ (t \in S => r.stage = "pending")
    BY <1>1
  <2> HIDE DEF q, r
  <2>4. TurnGood(q, delivered'[t], ends[t], place' = "open")
    BY <1>3, <2>1, <2>2, <2>3 DEF TurnGood, r
  <2> QED
    BY <2>4 DEF q
<1>6. \A t \in D!Turn \ DOMAIN directTurns : delivered'[t] = delivered[t]
  BY <1>2, <1>3
<1>7. \A t \in DOMAIN directTurns :
        directTurns'[t].stage = "pending" /\ directTurns'[t].answer = "none" => t = awaiting'
  BY TurnFacts DEF D!Pending
<1> QED
  BY <1>1, <1>3, <1>5, <1>6, <1>7, TurnsChange DEF D!TypeOK

\* What was held is passed on.
LEMMA FlushStep ==
  ASSUME DirectInv, NEW S \in SUBSET D!Pending, directTurns' = D!Flushed(S), D!Show(D!Held(S)),
         place = "open", place' \in {"open", "chain", "closed"}, pinned' \in BOOLEAN,
         UNCHANGED <<account, socket, queued, awaiting, candidate, signal, ends>>
  PROVE  DirectInv'
<1>1. D!TypeOK /\ D!Held(S) \in SUBSET D!Pending
  BY TurnFacts DEF D!Held
<1>2. directTurns' = [t \in DOMAIN directTurns |-> directTurns'[t]]
  BY FlushedDomain
<1>3. \A t \in DOMAIN directTurns :
           /\ directTurns'[t] \in D!TurnState
           /\ directTurns'[t].stage = directTurns[t].stage
           /\ directTurns'[t].answer = directTurns[t].answer
           /\ directTurns'[t].sends = directTurns[t].sends
           /\ t \in D!Held(S) => directTurns'[t].visible # "no"
           /\ t \notin D!Held(S) => directTurns'[t].visible = directTurns[t].visible
  BY <1>1, FlushedTurn
<1> QED
  BY <1>1, <1>2, <1>3, ShownStep

\* A step with one turn, of which more is seen.
LEMMA SeenStep ==
  ASSUME DirectInv, place = "open", NEW t \in D!Pending, NEW q \in D!TurnState,
         directTurns' = [directTurns EXCEPT ![t] = q],
         q.sends = directTurns[t].sends,
         \/ q.stage = "pending" /\ q.answer # "none" /\ UNCHANGED ends
         \/ q.stage = "settled" /\ D!Finish({t}),
         \/ D!Show({t}) /\ q.visible # "no"
         \/ D!Show({t}) /\ q.stage = "settled"
         \/ UNCHANGED delivered /\ q.visible = directTurns[t].visible,
         \/ awaiting' = (IF awaiting = t THEN 0 ELSE awaiting)
         \/ awaiting' = awaiting /\ directTurns[t].answer # "none",
         candidate' \in 0..MaxTurns,
         UNCHANGED <<place, account, socket, pinned, queued, signal>>
  PROVE  DirectInv'
<1>1. /\ DOMAIN directTurns \subseteq D!Turn /\ D!Pending \subseteq DOMAIN directTurns /\ D!TypeOK
      /\ \A u \in D!Pending : directTurns[u].stage = "pending" /\ ends[u] = 0
  BY TurnFacts
<1>2. /\ delivered' \in [D!Turn -> SUBSET (0..MaxSends)]
      /\ \A u \in D!Turn \ {t} : delivered'[u] = delivered[u]
      /\ \/ delivered'[t] = delivered[t] \cup {directTurns[t].sends}
           /\ (q.visible # "no" \/ q.stage = "settled")
         \/ delivered'[t] = delivered[t] /\ q.visible = directTurns[t].visible
  <2>1. CASE D!Show({t}) /\ (q.visible # "no" \/ q.stage = "settled")
    <3>1. {t} \in SUBSET DOMAIN directTurns
      BY <1>1
    <3>2. /\ delivered' \in [D!Turn -> SUBSET (0..MaxSends)]
          /\ \A u \in D!Turn : delivered'[u] = IF u \in {t} THEN delivered[u] \cup {directTurns[u].sends}
                                            ELSE delivered[u]
      BY <1>1, <2>1, <3>1, ShowEffect
    <3> QED
      BY <1>1, <2>1, <3>2
  <2>2. CASE UNCHANGED delivered /\ q.visible = directTurns[t].visible
    BY <1>1, <2>2 DEF D!TypeOK
  <2> QED
    BY <2>1, <2>2
<1>3. /\ ends' \in [D!Turn -> Nat]
      /\ \A u \in D!Turn \ {t} : ends'[u] = ends[u]
      /\ ends'[t] = IF q.stage = "settled" THEN 1 ELSE 0
  <2>1. CASE q.stage = "settled" /\ D!Finish({t})
    BY <1>1, <2>1, FinishEffect
  <2>2. CASE q.stage = "pending" /\ UNCHANGED ends
    BY <1>1, <2>2 DEF D!TypeOK
  <2> QED
    BY <2>1, <2>2
<1>4. /\ directTurns' = [u \in DOMAIN directTurns |-> directTurns'[u]]
      /\ directTurns'[t] = q
      /\ \A u \in DOMAIN directTurns \ {t} : directTurns'[u] = directTurns[u]
  BY <1>1
<1>5. TurnGood(q, delivered'[t], ends'[t], TRUE)
  <2>1. TurnGood(directTurns[t], delivered[t], ends[t], TRUE) /\ directTurns[t].stage = "pending"
    BY <1>1, TurnFacts
  <2> QED
    BY <1>2, <1>3, <2>1 DEF TurnGood
<1>6. \A u \in DOMAIN directTurns :
        TurnGood(directTurns'[u], delivered'[u], ends'[u], place' = "open")
  BY <1>1, <1>2, <1>3, <1>4, <1>5, TurnFacts
<1>7. \A u \in DOMAIN directTurns :
        directTurns[u].stage = "queued" => directTurns'[u].stage = "queued"
  BY <1>1, <1>4
<1>8. \A u \in D!Turn \ DOMAIN directTurns : delivered'[u] = delivered[u] /\ ends'[u] = ends[u]
  BY <1>1, <1>2, <1>3
<1>9. \A u \in DOMAIN directTurns :
        directTurns'[u].stage = "pending" /\ directTurns'[u].answer = "none" => u = awaiting'
  <2>1. q.stage = "pending" => q.answer # "none"
    BY <1>1
  <2>2. \A u \in D!Pending : directTurns[u].answer = "none" => u = awaiting
    BY TurnFacts
  <2>3. ASSUME NEW u \in DOMAIN directTurns \ {t}, directTurns[u].stage = "pending",
               directTurns[u].answer = "none"
        PROVE  u = awaiting'
    <3>1. u = awaiting
      BY <2>2, <2>3 DEF D!Pending
    <3> QED
      BY <2>3, <3>1
  <2> QED
    BY <1>4, <2>1, <2>3
<1>10. awaiting' \in 0..MaxTurns
  <2>1. awaiting \in 0..MaxTurns /\ 0 \in 0..MaxTurns
    BY <1>1, DirectAssumption DEF D!TypeOK
  <2> QED
    BY <2>1
<1> QED
  BY <1>1, <1>2, <1>3, <1>4, <1>6, <1>7, <1>8, <1>9, <1>10, TurnsChange DEF D!TypeOK

\* Every turn that is pending is settled, with a final frame unless the client
\* has seen of it and is therefore left.
LEMMA SettleAllStep ==
  ASSUME DirectInv, place = "open", D!SettleAll
  PROVE  DirectInv'
<1> DEFINE flushed == D!Flushed(D!Pending)
           seen == {t \in D!Pending : flushed[t].visible = "numbered"}
<1>1. /\ DOMAIN directTurns \subseteq D!Turn /\ D!Pending \subseteq DOMAIN directTurns /\ D!TypeOK
      /\ \A t \in D!Pending : directTurns[t].stage = "pending" /\ ends[t] = 0
  BY TurnFacts
<1>2. /\ directTurns' = D!Settle(flushed, D!Pending)
      /\ D!Show(D!Held(D!Pending)) /\ D!Finish(D!Pending \ seen)
      /\ awaiting' = 0 /\ candidate' = 0
      /\ \/ place' = "closed" /\ UNCHANGED <<account, socket>>
         \/ seen = {} /\ socket < MaxSockets /\ socket' = socket + 1 /\ UNCHANGED <<place, account>>
      /\ UNCHANGED <<pinned, queued, signal>>
  BY DEF D!SettleAll, D!Numbered, D!Closes
<1>3. D!Held(D!Pending) \in SUBSET DOMAIN directTurns /\ D!Held(D!Pending) \subseteq D!Pending
  BY <1>1 DEF D!Held
<1>4. /\ delivered' \in [D!Turn -> SUBSET (0..MaxSends)]
      /\ \A t \in D!Turn : delivered'[t] = IF t \in D!Held(D!Pending)
                                        THEN delivered[t] \cup {directTurns[t].sends} ELSE delivered[t]
  BY <1>1, <1>2, <1>3, ShowEffect
<1>5. /\ ends' \in [D!Turn -> Nat]
      /\ \A t \in D!Turn : ends'[t] = IF t \in D!Pending \ seen THEN 1 ELSE ends[t]
  BY <1>1, <1>2, FinishEffect
<1>6. DOMAIN flushed = DOMAIN directTurns
  BY DEF D!Flushed
<1>7. directTurns' = [t \in DOMAIN directTurns |-> directTurns'[t]]
      /\ \A t \in DOMAIN directTurns :
           directTurns'[t] = IF t \in D!Pending THEN [flushed[t] EXCEPT !.stage = "settled"] ELSE flushed[t]
  BY <1>2, <1>6 DEF D!Settle
<1>8. ASSUME NEW t \in DOMAIN directTurns
      PROVE  /\ TurnGood(directTurns'[t], delivered'[t], ends'[t], place' = "open")
             /\ directTurns'[t].stage = IF t \in D!Pending THEN "settled" ELSE directTurns[t].stage
  <2> DEFINE q == flushed[t]
             r == directTurns[t]
  <2>1. /\ q \in D!TurnState
        /\ q.stage = r.stage /\ q.sends = r.sends
        /\ q.visible = IF t \in D!Held(D!Pending) THEN "numbered" ELSE r.visible
    BY <1>1, FlushedTurn
  <2>2. TurnGood(r, delivered[t], ends[t], TRUE)
    BY TurnFacts
  <2>3. t \in D!Turn
    BY <1>1
  <2>4. CASE t \notin D!Pending
    <3>1. q = r
      BY <2>4 DEF D!Flushed
    <3>2. delivered'[t] = delivered[t] /\ ends'[t] = ends[t] /\ directTurns'[t] = r
      BY <1>3, <1>4, <1>5, <1>7, <2>3, <2>4, <3>1
    <3> QED
      BY <2>2, <2>4, <3>2 DEF TurnGood
  <2>5. CASE t \in D!Pending
    <3> DEFINE w == [q EXCEPT !.stage = "settled"]
    <3>1. w \in D!TurnState /\ w.stage = "settled" /\ w.sends = r.sends /\ w.visible = q.visible
      BY <2>1 DEF D!TurnState
    <3>2. directTurns'[t] = w
      BY <1>7, <2>5
    <3>3. delivered'[t] \subseteq {r.sends}
      BY <1>4, <2>2, <2>3 DEF TurnGood
    <3>4. ends'[t] = IF t \in seen THEN 0 ELSE 1
      BY <1>1, <1>5, <2>3, <2>5
    <3>5. t \in seen => place' = "closed"
      BY <1>2
    <3> HIDE DEF w, q, r, seen
    <3> QED
      BY <2>5, <3>1, <3>2, <3>3, <3>4, <3>5 DEF TurnGood
  <2> QED
    BY <2>4, <2>5
<1>9. \A t \in D!Turn \ DOMAIN directTurns : delivered'[t] = delivered[t] /\ ends'[t] = ends[t]
  BY <1>1, <1>3, <1>4, <1>5
<1>10. \A t \in DOMAIN directTurns : directTurns'[t].stage # "pending"
  BY <1>8 DEF D!Pending
<1>11. /\ place' \in {"open", "chain", "closed"} /\ account' \in Accounts
       /\ socket' \in 1..MaxSockets
  <2>1. socket \in 1..MaxSockets /\ MaxSockets \in Nat
    BY <1>1, DirectAssumption DEF D!TypeOK
  <2>2. socket < MaxSockets /\ socket' = socket + 1 => socket' \in 1..MaxSockets
    BY <2>1
  <2> QED
    BY <1>1, <1>2, <2>1, <2>2 DEF D!TypeOK
<1>12. \A t \in DOMAIN directTurns : directTurns[t].stage = "queued" => directTurns'[t].stage = "queued"
  BY <1>1, <1>8
<1>13. 0 \in 0..MaxTurns
  BY DirectAssumption
<1> QED
  BY <1>1, <1>2, <1>4, <1>5, <1>7, <1>8, <1>9, <1>10, <1>11, <1>12, <1>13, TurnsChange DEF D!TypeOK

\* A turn that was sent again.
LEMMA TookStep ==
  ASSUME DirectInv, NEW t \in D!Pending, NEW e \in D!Event,
         NEW outcome \in D!Replays(t, e), D!Took(t, outcome)
  PROVE  DirectInv'
<1> DEFINE q == outcome.turn
<1>1. /\ DOMAIN directTurns \subseteq D!Turn /\ D!Pending \subseteq DOMAIN directTurns /\ D!TypeOK
      /\ directTurns[t] \in D!TurnState /\ directTurns[t].stage = "pending" /\ ends[t] = 0
  BY TurnFacts
<1>2. /\ outcome.result = "sent" /\ socket < MaxSockets
      /\ directTurns' = [directTurns EXCEPT ![t] = q]
      /\ account' = outcome.to /\ socket' = socket + 1
      /\ candidate' = 0 /\ awaiting' = t
      /\ UNCHANGED <<place, pinned, queued, signal, delivered, ends>>
  BY DEF D!Took
<1>3. /\ Same(q, directTurns[t]) /\ q.answer = "none" /\ outcome.to \in Accounts
      /\ D!Cardinality(D!Pending) = 1 /\ directTurns[t].visible = "no"
  BY <1>1, <1>2, ReplaysWell DEF D!TypeOK, SentWell
<1>4. D!Pending = {t}
  BY <1>1, <1>3, SoleTurn
<1> HIDE DEF q
<1>5. /\ directTurns' = [u \in DOMAIN directTurns |-> directTurns'[u]]
      /\ directTurns'[t] = q
      /\ \A u \in DOMAIN directTurns \ {t} : directTurns'[u] = directTurns[u]
  BY <1>1, <1>2
<1>6. TurnGood(q, delivered[t], ends[t], place = "open")
  <2>1. delivered[t] = {}
    BY <1>1, <1>3, TurnFacts DEF TurnGood
  <2> QED
    BY <1>1, <1>3, <2>1 DEF TurnGood, Same
<1>7. \A u \in DOMAIN directTurns :
        TurnGood(directTurns'[u], delivered'[u], ends'[u], place' = "open")
  BY <1>2, <1>5, <1>6, TurnFacts
<1>8. \A u \in DOMAIN directTurns :
        directTurns[u].stage = "queued" => directTurns'[u].stage = "queued"
  BY <1>1, <1>5
<1>9. \A u \in DOMAIN directTurns :
        directTurns'[u].stage = "pending" /\ directTurns'[u].answer = "none" => u = awaiting'
  BY <1>2, <1>4, <1>5 DEF D!Pending
<1>10. socket' \in 1..MaxSockets /\ awaiting' \in 0..MaxTurns /\ candidate' \in 0..MaxTurns
  <2>1. socket \in 1..MaxSockets /\ t \in 1..MaxTurns
    BY <1>1 DEF D!TypeOK, D!Turn
  <2>2. socket' \in 1..MaxSockets
    BY <1>2, <2>1, DirectAssumption
  <2> QED
    BY <1>2, <2>1, <2>2, DirectAssumption
<1> QED
  BY <1>1, <1>2, <1>3, <1>5, <1>7, <1>8, <1>9, <1>10, TurnsChange DEF D!TypeOK

\* Every step of the direct lane keeps the invariant.
LEMMA DirectStep ==
  ASSUME DirectInv, D!Next
  PROVE  DirectInv'
<1>0. /\ DOMAIN directTurns \subseteq D!Turn /\ D!Pending \subseteq DOMAIN directTurns /\ D!TypeOK
      /\ directTurns \in Seq(D!TurnState) /\ queued \in Seq(D!Turn)
      /\ \A t \in DOMAIN directTurns : directTurns[t] \in D!TurnState
      /\ \A t \in D!Pending : directTurns[t].stage = "pending" /\ ends[t] = 0
  BY TurnFacts DEF D!TypeOK
<1>1. ASSUME NEW c \in Creates, D!Receive(c) PROVE DirectInv'
  <2> DEFINE n == Len(directTurns) + 1
  <2>1. /\ place = "open" /\ Len(directTurns) < MaxTurns
        /\ directTurns' = Append(directTurns, D!NewTurn(c)) /\ queued' = Append(queued, n)
        /\ UNCHANGED <<place, account, socket, pinned, awaiting, candidate, signal, delivered, ends>>
    BY <1>1 DEF D!Receive, D!Listening
  <2>2. D!NewTurn(c) \in D!TurnState /\ D!NewTurn(c).stage = "queued" /\ D!NewTurn(c).visible = "no"
    <3>1. c \in D!Create /\ 0 \in 0..MaxSends
      BY DirectAssumption
    <3> QED
      BY <3>1 DEF D!NewTurn, D!TurnState
  <2>3. /\ directTurns' \in Seq(D!TurnState) /\ Len(directTurns') = n /\ n <= MaxTurns
        /\ DOMAIN directTurns' = DOMAIN directTurns \cup {n} /\ n \notin DOMAIN directTurns
        /\ directTurns'[n] = D!NewTurn(c)
        /\ \A t \in DOMAIN directTurns : directTurns'[t] = directTurns[t]
    BY <1>0, <2>1, <2>2, DirectAssumption
  <2>4. n \in D!Turn \ DOMAIN directTurns
    BY <1>0, <2>3 DEF D!Turn
  <2>5. /\ queued' \in Seq(D!Turn) /\ DOMAIN queued' = DOMAIN queued \cup {Len(queued) + 1}
        /\ Len(queued) + 1 \notin DOMAIN queued
        /\ queued'[Len(queued) + 1] = n /\ \A i \in DOMAIN queued : queued'[i] = queued[i]
    BY <1>0, <2>1, <2>4
  <2>6. delivered[n] = {} /\ ends[n] = 0
    BY <2>4 DEF DirectInv
  <2>7. TurnGood(D!NewTurn(c), delivered[n], ends[n], place = "open")
    BY <2>2, <2>6 DEF TurnGood
  <2>8. \A t \in DOMAIN directTurns' :
          TurnGood(directTurns'[t], delivered'[t], ends'[t], place' = "open")
    BY <2>1, <2>3, <2>7, TurnFacts
  <2>9. \A i \in DOMAIN queued : queued[i] \in DOMAIN directTurns /\ directTurns[queued[i]].stage = "queued"
                                  /\ \A j \in DOMAIN queued : queued[i] = queued[j] => i = j
    BY DEF DirectInv
  <2>10. \A i \in DOMAIN queued' :
        /\ queued'[i] \in DOMAIN directTurns'
        /\ directTurns'[queued'[i]].stage = "queued"
        /\ \A j \in DOMAIN queued' : queued'[i] = queued'[j] => i = j
    BY <2>2, <2>3, <2>5, <2>9
  <2>11. D!OneUnacknowledged'
    <3>1. D!Pending' = D!Pending
      BY <2>2, <2>3 DEF D!Pending
    <3> QED
      BY <1>0, <2>1, <2>3, <3>1, TurnFacts DEF D!OneUnacknowledged
  <2>12. D!TypeOK'
    BY <1>0, <2>1, <2>3, <2>5 DEF D!TypeOK
  <2>13. \A t \in D!Turn \ DOMAIN directTurns' : delivered'[t] = {} /\ ends'[t] = 0
    BY <2>1, <2>3 DEF DirectInv
  <2> QED
    BY <2>8, <2>10, <2>11, <2>12, <2>13 DEF DirectInv
<1>h. ASSUME NEW t, D!Handling(t)
      PROVE  /\ t \in DOMAIN directTurns /\ directTurns[t].stage = "queued" /\ place = "open"
             /\ awaiting = 0 /\ t \notin D!Pending
             /\ Tail(queued) \in Seq(D!Turn)
             /\ \A i \in DOMAIN Tail(queued) :
                  /\ Tail(queued)[i] \in DOMAIN directTurns \ {t}
                  /\ directTurns[Tail(queued)[i]].stage = "queued"
                  /\ \A j \in DOMAIN Tail(queued) : Tail(queued)[i] = Tail(queued)[j] => i = j
  <2>1. queued # <<>> /\ t = queued[1] /\ place = "open" /\ awaiting = 0
    BY <1>0, <1>h DEF D!Handling
  <2>2. /\ 1 \in DOMAIN queued /\ Tail(queued) \in Seq(D!Turn)
        /\ \A i \in DOMAIN Tail(queued) : Tail(queued)[i] = queued[i + 1] /\ i + 1 \in DOMAIN queued /\ i + 1 # 1
                                          /\ i \in Int
    BY <1>0, <2>1
  <2>3. \A i \in DOMAIN queued : queued[i] \in DOMAIN directTurns /\ directTurns[queued[i]].stage = "queued"
                                  /\ \A j \in DOMAIN queued : queued[i] = queued[j] => i = j
    BY DEF DirectInv
  <2>4. t \in DOMAIN directTurns /\ directTurns[t].stage = "queued"
    BY <2>1, <2>2, <2>3
  <2>5. \A i \in DOMAIN Tail(queued) :
          /\ Tail(queued)[i] \in DOMAIN directTurns \ {t}
          /\ directTurns[Tail(queued)[i]].stage = "queued"
    BY <2>1, <2>2, <2>3
  <2>6. \A i, j \in DOMAIN Tail(queued) : Tail(queued)[i] = Tail(queued)[j] => i = j
    <3> SUFFICES ASSUME NEW i \in DOMAIN Tail(queued), NEW j \in DOMAIN Tail(queued),
                        Tail(queued)[i] = Tail(queued)[j]
                 PROVE  i = j
      OBVIOUS
    <3>1. i + 1 = j + 1
      BY <2>2, <2>3
    <3> QED
      BY <2>2, <3>1
  <2> QED
    BY <2>1, <2>2, <2>4, <2>5, <2>6 DEF D!Pending
<1>2. ASSUME NEW t \in D!Turn, D!Refuse(t) PROVE DirectInv'
  <2>1. /\ D!Handling(t) /\ queued' = Tail(queued) /\ directTurns' = D!Settle(directTurns, {t})
        /\ D!Finish({t})
        /\ UNCHANGED <<place, account, socket, pinned, awaiting, candidate, signal, delivered>>
    BY <1>2 DEF D!Refuse
  <2>2. t \in DOMAIN directTurns /\ directTurns[t].stage = "queued" /\ directTurns[t] \in D!TurnState
    BY <1>0, <1>h, <2>1
  <2>3. ends[t] = 0 /\ TurnGood(directTurns[t], delivered[t], ends[t], place = "open")
    BY <2>2, TurnFacts DEF TurnGood
  <2>4. ends' \in [D!Turn -> Nat] /\ \A u \in D!Turn : ends'[u] = IF u \in {t} THEN 1 ELSE ends[u]
    BY <1>0, <2>1, <2>3, FinishEffect
  <2> DEFINE q == [directTurns[t] EXCEPT !.stage = "settled"]
  <2>5. q \in D!TurnState /\ q.stage = "settled" /\ q.sends = directTurns[t].sends
    BY <2>2 DEF D!TurnState
  <2>6. directTurns' = [u \in DOMAIN directTurns |-> directTurns'[u]] /\ directTurns'[t] = q
        /\ \A u \in DOMAIN directTurns \ {t} : directTurns'[u] = directTurns[u]
    BY <2>1, <2>2 DEF D!Settle
  <2> HIDE DEF q
  <2>7. \A u \in DOMAIN directTurns : directTurns'[u] \in D!TurnState
    BY <1>0, <2>5, <2>6
  <2>8. directTurns' \in Seq(D!TurnState) /\ DOMAIN directTurns' = DOMAIN directTurns
        /\ Len(directTurns') = Len(directTurns)
    BY <1>0, <2>6, <2>7, TurnsTyped
  <2>9. TurnGood(q, delivered[t], ends'[t], place = "open")
    BY <1>0, <2>2, <2>3, <2>4, <2>5 DEF TurnGood
  <2>10. \A u \in DOMAIN directTurns' :
           TurnGood(directTurns'[u], delivered'[u], ends'[u], place' = "open")
    BY <1>0, <2>1, <2>4, <2>6, <2>8, <2>9, TurnFacts
  <2>11. D!OneUnacknowledged'
    <3>1. D!Pending' = D!Pending
      BY <2>2, <2>5, <2>6, <2>8 DEF D!Pending
    <3> QED
      BY <1>0, <1>h, <2>1, <2>6, <3>1, TurnFacts DEF D!OneUnacknowledged
  <2>12. D!TypeOK'
    BY <1>0, <1>h, <2>1, <2>4, <2>8 DEF D!TypeOK
  <2>13. \A i \in DOMAIN queued' :
        /\ queued'[i] \in DOMAIN directTurns'
        /\ directTurns'[queued'[i]].stage = "queued"
        /\ \A j \in DOMAIN queued' : queued'[i] = queued'[j] => i = j
    BY <1>h, <2>1, <2>6, <2>8
  <2>14. \A u \in D!Turn \ DOMAIN directTurns' : delivered'[u] = {} /\ ends'[u] = 0
    BY <2>1, <2>2, <2>4, <2>8 DEF DirectInv
  <2> QED
    BY <2>10, <2>11, <2>12, <2>13, <2>14 DEF DirectInv
<1>3. ASSUME NEW t \in D!Turn, NEW to \in Accounts, D!Dispatch(t, to) PROVE DirectInv'
  <2> DEFINE P == D!Pending
             f == D!Flushed(P)
             b == IF D!Buffered(directTurns[t].create) THEN "empty" ELSE "off"
             q == [f[t] EXCEPT !.stage = "pending", !.sends = 1, !.buffer = b]
  <2>1. /\ D!Handling(t) /\ D!Replace(t, to) /\ queued' = Tail(queued)
        /\ directTurns' = [f EXCEPT ![t] = q]
        /\ D!Show(D!Held(P)) /\ awaiting' = t
        /\ UNCHANGED <<place, pinned, signal, ends>>
    BY <1>3, Zenon DEF D!Dispatch
  <2>2. /\ t \in DOMAIN directTurns /\ directTurns[t].stage = "queued" /\ directTurns[t] \in D!TurnState
        /\ t \notin P /\ awaiting = 0
    BY <1>0, <1>h, <2>1
  <2>3. P \in SUBSET DOMAIN directTurns /\ D!Held(P) \in SUBSET DOMAIN directTurns /\ D!Held(P) \subseteq P
    BY <1>0 DEF D!Held
  <2>4. /\ delivered' \in [D!Turn -> SUBSET (0..MaxSends)]
        /\ \A u \in D!Turn : delivered'[u] = IF u \in D!Held(P) THEN delivered[u] \cup {directTurns[u].sends}
                                          ELSE delivered[u]
    BY <1>0, <2>1, <2>3, ShowEffect
  <2>5. TurnGood(directTurns[t], delivered[t], ends[t], TRUE) /\ delivered[t] = {} /\ ends[t] = 0
        /\ directTurns[t].visible = "no"
    BY <2>2, TurnFacts DEF TurnGood
  <2>6. delivered'[t] = {}
    BY <1>0, <2>2, <2>3, <2>4, <2>5
  <2>7. f[t] = directTurns[t]
    BY <2>2 DEF D!Flushed
  <2>8. 1 \in 0..MaxSends /\ b \in {"off", "empty", "held"}
    BY DirectAssumption
  <2>9. q \in D!TurnState /\ q.stage = "pending" /\ q.sends = 1 /\ q.visible = "no"
    BY <2>2, <2>5, <2>7, <2>8 DEF D!TurnState
  <2>10. /\ DOMAIN f = DOMAIN directTurns
         /\ directTurns' = [u \in DOMAIN directTurns |-> directTurns'[u]] /\ directTurns'[t] = q
         /\ \A u \in DOMAIN directTurns \ {t} : directTurns'[u] = f[u]
    <3>1. f = [u \in DOMAIN directTurns |-> f[u]]
      BY FlushedDomain
    <3> HIDE DEF q, f
    <3> QED
      BY <2>1, <2>2, <3>1
  <2> HIDE DEF q
  <2>11. ASSUME NEW u \in DOMAIN directTurns \ {t}
         PROVE  /\ TurnGood(directTurns'[u], delivered'[u], ends'[u], place' = "open")
                /\ directTurns'[u].stage = directTurns[u].stage
                /\ directTurns'[u].answer = directTurns[u].answer
    <3> DEFINE v == f[u]
               r == directTurns[u]
    <3>1. /\ v \in D!TurnState
          /\ v.stage = r.stage /\ v.answer = r.answer /\ v.sends = r.sends
          /\ v.visible = IF u \in D!Held(P) THEN "numbered" ELSE r.visible
      BY <1>0, FlushedTurn
    <3>2. TurnGood(r, delivered[u], ends[u], place = "open") /\ place' = place /\ ends' = ends
      BY <2>1, TurnFacts
    <3>3. u \in D!Turn /\ (u \in D!Held(P) => r.stage = "pending") /\ directTurns'[u] = v
      BY <1>0, <2>3, <2>10
    <3> HIDE DEF v, r
    <3>4. TurnGood(v, delivered'[u], ends[u], place = "open")
      BY <2>4, <3>1, <3>2, <3>3 DEF TurnGood, r
    <3> QED
      BY <3>1, <3>2, <3>3, <3>4 DEF r
  <2>12. TurnGood(q, delivered'[t], ends[t], place = "open")
    BY <2>5, <2>6, <2>9 DEF TurnGood
  <2>13. \A u \in DOMAIN directTurns : directTurns'[u] \in D!TurnState
    BY <2>9, <2>10, <2>11 DEF TurnGood
  <2>14. directTurns' \in Seq(D!TurnState) /\ DOMAIN directTurns' = DOMAIN directTurns
         /\ Len(directTurns') = Len(directTurns)
    BY <1>0, <2>10, <2>13, TurnsTyped
  <2>15. \A u \in DOMAIN directTurns' :
           TurnGood(directTurns'[u], delivered'[u], ends'[u], place' = "open")
    BY <2>1, <2>10, <2>11, <2>12, <2>14
  <2>16. D!OneUnacknowledged'
    <3>1. \A u \in P : directTurns[u].answer # "none"
      BY <1>0, <2>2, TurnFacts DEF D!Turn
    <3>2. \A u \in D!Pending' : u = t \/ u \in P
      BY <2>11, <2>14 DEF D!Pending
    <3> QED
      BY <2>1, <2>2, <2>11, <1>0, <3>1, <3>2 DEF D!OneUnacknowledged
  <2>17. account' \in Accounts /\ socket' \in 1..MaxSockets /\ candidate' \in 0..MaxTurns
    <3>1. socket \in 1..MaxSockets /\ MaxSockets \in Nat /\ 0 \in 0..MaxTurns
      BY <1>0, DirectAssumption DEF D!TypeOK
    <3>2. socket < MaxSockets /\ socket' = socket + 1 => socket' \in 1..MaxSockets
      BY <3>1
    <3> QED
      BY <1>0, <2>1, <3>1, <3>2 DEF D!Replace, D!TypeOK
  <2>18. awaiting' \in 0..MaxTurns
    BY <2>1, DirectAssumption DEF D!Turn
  <2>19. D!TypeOK'
    BY <1>0, <1>h, <2>1, <2>4, <2>14, <2>17, <2>18 DEF D!TypeOK
  <2>20. \A i \in DOMAIN queued' :
        /\ queued'[i] \in DOMAIN directTurns'
        /\ directTurns'[queued'[i]].stage = "queued"
        /\ \A j \in DOMAIN queued' : queued'[i] = queued'[j] => i = j
    BY <1>h, <2>1, <2>11, <2>14
  <2>21. \A u \in D!Turn \ DOMAIN directTurns' : delivered'[u] = {} /\ ends'[u] = 0
    BY <2>1, <2>3, <2>4, <2>14 DEF DirectInv
  <2> QED
    BY <2>15, <2>16, <2>19, <2>20, <2>21 DEF DirectInv
<1>4. CASE D!Gone /\ place = "open"
  <2>1. place' = "closed" /\ UNCHANGED <<account, socket, pinned, directTurns, queued, awaiting, candidate,
                 signal, delivered, ends>>
    BY <1>4 DEF D!Gone
  <2> QED
    BY <2>1 DEF DirectInv, D!TypeOK, TurnGood, D!OneUnacknowledged, D!Pending
<1>5. CASE D!AskedToLeave
  BY <1>5 DEF D!AskedToLeave, DirectInv, D!TypeOK, D!OneUnacknowledged, D!Pending
<1>6. CASE D!Interrupt
  BY <1>6, FlushStep DEF D!Interrupt, D!Listening
<1>7. CASE D!Control
  BY <1>0, <1>7, FlushStep DEF D!Control, D!Listening, D!TypeOK
<1>8. CASE D!FailedUnattributed \/ D!Opaque
  BY <1>0, <1>8, FlushStep DEF D!FailedUnattributed, D!Opaque, D!Listening, D!TypeOK
<1>9. ASSUME NEW t \in D!Turn, D!FlushDelay(t) PROVE DirectInv'
  <2>1. {t} \in SUBSET D!Pending /\ D!Held({t}) = {t}
    BY <1>9 DEF D!FlushDelay, D!Held
  <2> QED
    BY <1>0, <1>9, <2>1, FlushStep DEF D!FlushDelay, D!TypeOK
<1>10. ASSUME NEW t \in D!Turn, D!Acknowledged(t) PROVE DirectInv'
  <2>1. /\ place = "open" /\ t \in D!Pending /\ directTurns[t].answer = "none"
        /\ candidate' \in {0, t} /\ D!Forget({t})
        /\ UNCHANGED <<place, account, socket, pinned, queued, signal, ends>>
    BY <1>10 DEF D!Acknowledged, D!Acknowledges, D!Listening
  <2>2. awaiting' = (IF awaiting = t THEN 0 ELSE awaiting) /\ candidate' \in 0..MaxTurns
    BY <2>1, DirectAssumption DEF D!Forget, D!Turn
  <2>3. directTurns[t] \in D!TurnState /\ t \in DOMAIN directTurns /\ directTurns[t].stage = "pending"
    BY <1>0, <2>1
  <2>4. CASE /\ directTurns' = [directTurns EXCEPT ![t].answer = "created", ![t].buffer = "held"]
             /\ UNCHANGED delivered
    <3> DEFINE q == [directTurns[t] EXCEPT !.answer = "created", !.buffer = "held"]
    <3>1. directTurns' = [directTurns EXCEPT ![t] = q]
      BY <2>3, <2>4
    <3>2. /\ q \in D!TurnState /\ q.sends = directTurns[t].sends /\ q.stage = "pending"
          /\ q.answer # "none" /\ q.visible = directTurns[t].visible
      BY <2>3 DEF D!TurnState
    <3> HIDE DEF q
    <3>3. q.stage = "pending" /\ q.answer # "none" /\ ends' = ends
      BY <2>1, <3>2
    <3>4. delivered' = delivered /\ q.visible = directTurns[t].visible
      BY <2>4, <3>2
    <3>5. UNCHANGED <<place, account, socket, pinned, queued, signal>>
      BY <2>1
    <3> QED
      BY <2>1, <2>2, <3>1, <3>2, <3>3, <3>4, <3>5, SeenStep
  <2>5. CASE /\ directTurns' = [directTurns EXCEPT ![t].answer = "created", ![t].visible = "numbered"]
             /\ D!Show({t})
    <3> DEFINE q == [directTurns[t] EXCEPT !.answer = "created", !.visible = "numbered"]
    <3>1. directTurns' = [directTurns EXCEPT ![t] = q]
      BY <2>3, <2>5
    <3>2. /\ q \in D!TurnState /\ q.sends = directTurns[t].sends /\ q.stage = "pending"
          /\ q.answer # "none" /\ q.visible # "no"
      BY <2>3 DEF D!TurnState
    <3> HIDE DEF q
    <3> QED
      BY <2>1, <2>2, <2>5, <3>1, <3>2, SeenStep
  <2> QED
    BY <1>10, <2>4, <2>5 DEF D!Acknowledged
<1>f. ASSUME NEW t \in D!Pending
      PROVE  LET q == D!Flushed({t})[t] IN
             /\ q \in D!TurnState /\ q.stage = "pending" /\ q.sends = directTurns[t].sends
             /\ q.answer = directTurns[t].answer
             /\ \A w : [D!Flushed({t}) EXCEPT ![t] = w] = [directTurns EXCEPT ![t] = w]
             /\ D!Settle(D!Flushed({t}), {t}) = [directTurns EXCEPT ![t] = [q EXCEPT !.stage = "settled"]]
             /\ \A v : D!Settle([D!Flushed({t}) EXCEPT ![t] = v], {t})
                        = [directTurns EXCEPT ![t] = [v EXCEPT !.stage = "settled"]]
  <2>1. t \in DOMAIN directTurns /\ directTurns[t].stage = "pending"
    BY <1>0, <1>f
  <2>2. /\ D!Flushed({t})[t] \in D!TurnState /\ D!Flushed({t})[t].stage = "pending"
        /\ D!Flushed({t})[t].sends = directTurns[t].sends
        /\ D!Flushed({t})[t].answer = directTurns[t].answer
    BY <1>0, <2>1, FlushedTurn
  <2>3. /\ D!Flushed({t}) = [u \in DOMAIN directTurns |-> D!Flushed({t})[u]]
        /\ \A u \in DOMAIN directTurns \ {t} : D!Flushed({t})[u] = directTurns[u]
    BY FlushedDomain DEF D!Flushed
  <2>4. directTurns = [u \in DOMAIN directTurns |-> directTurns[u]]
    BY <1>0
  <2> DEFINE f == D!Flushed({t})
  <2>5. DOMAIN f = DOMAIN directTurns
    BY <2>3
  <2> HIDE DEF f
  <2>6. ASSUME NEW w PROVE [f EXCEPT ![t] = w] = [directTurns EXCEPT ![t] = w]
    BY <2>3, <2>4, <2>5 DEF f
  <2>7. ASSUME NEW g, g = [directTurns EXCEPT ![t] = g[t]]
        PROVE  D!Settle(g, {t}) = [directTurns EXCEPT ![t] = [g[t] EXCEPT !.stage = "settled"]]
    BY <2>1, <2>4, <2>7 DEF D!Settle
  <2>8. f = [directTurns EXCEPT ![t] = f[t]]
    BY <2>1, <2>3, <2>4, <2>5 DEF f
  <2>9. ASSUME NEW v
        PROVE  D!Settle([f EXCEPT ![t] = v], {t}) = [directTurns EXCEPT ![t] = [v EXCEPT !.stage = "settled"]]
    <3> DEFINE g == [directTurns EXCEPT ![t] = v]
    <3>1. [f EXCEPT ![t] = v] = g
      BY <2>6
    <3>2. g[t] = v /\ g = [directTurns EXCEPT ![t] = g[t]]
      BY <2>1
    <3> HIDE DEF g
    <3> QED
      BY <2>7, <3>1, <3>2
  <2> QED
    BY <2>2, <2>6, <2>7, <2>8, <2>9 DEF f
<1>11. ASSUME NEW t \in D!Turn, D!Output(t) PROVE DirectInv'
  <2>1. /\ place = "open" /\ t \in D!Pending /\ directTurns[t].answer # "none" /\ D!Show({t})
        /\ directTurns' = [D!Flushed({t}) EXCEPT ![t].answer = "output", ![t].visible = "numbered"]
        /\ UNCHANGED <<place, account, socket, pinned, queued, awaiting, candidate, signal, ends>>
    BY <1>11 DEF D!Output, D!Listening
  <2> DEFINE q == [D!Flushed({t})[t] EXCEPT !.answer = "output", !.visible = "numbered"]
  <2>2. directTurns' = [D!Flushed({t}) EXCEPT ![t] = q]
    BY <2>1, Zenon
  <2>3. /\ q \in D!TurnState /\ q.sends = directTurns[t].sends /\ q.stage = "pending"
        /\ q.answer # "none" /\ q.visible # "no"
    BY <1>f, <2>1 DEF D!TurnState
  <2> HIDE DEF q
  <2>4. directTurns' = [directTurns EXCEPT ![t] = q]
    BY <1>f, <2>1, <2>2
  <2> QED
    BY <1>0, <2>1, <2>3, <2>4, SeenStep DEF D!TypeOK
<1>12. ASSUME NEW t \in D!Turn, D!Completed(t) PROVE DirectInv'
  <2>1. /\ place = "open" /\ t \in D!Pending /\ D!Show({t}) /\ D!Finish({t}) /\ D!Forget({t})
        /\ directTurns' = D!Settle(D!Flushed({t}), {t})
        /\ UNCHANGED <<place, account, socket, pinned, queued, candidate, signal>>
    BY <1>12 DEF D!Completed, D!Listening
  <2> DEFINE q == [D!Flushed({t})[t] EXCEPT !.stage = "settled"]
  <2>2. q \in D!TurnState /\ q.sends = directTurns[t].sends /\ q.stage = "settled"
    BY <1>f, <2>1 DEF D!TurnState
  <2>3. directTurns' = [directTurns EXCEPT ![t] = q]
    BY <1>f, <2>1
  <2>4. awaiting' = (IF awaiting = t THEN 0 ELSE awaiting) /\ candidate' \in 0..MaxTurns
    BY <1>0, <2>1 DEF D!Forget, D!TypeOK
  <2> HIDE DEF q
  <2> QED
    BY <2>1, <2>2, <2>3, <2>4, SeenStep
<1>13. CASE D!Note
  <2> DEFINE only == IF D!Cardinality(D!Pending) = 1 THEN D!Pending ELSE {}
             f == D!Flushed(D!Pending)
             S == D!Held(D!Pending) \cup only
             Plain(t) == t \in only /\ directTurns[t].visible = "no" /\ directTurns[t].buffer # "held"
  <2>1. /\ place = "open" /\ D!Show(S)
        /\ directTurns' = [t \in DOMAIN directTurns |->
                            IF Plain(t) THEN [f[t] EXCEPT !.visible = "plain"] ELSE f[t]]
        /\ UNCHANGED <<place, account, socket, pinned, queued, awaiting, candidate, signal, ends>>
    BY <1>13 DEF D!Note, D!Listening
  <2>2. S \in SUBSET D!Pending /\ D!Held(D!Pending) \subseteq D!Pending
        /\ \A t \in D!Pending : t \in D!Held(D!Pending) <=> directTurns[t].buffer = "held"
    BY DEF D!Held
  <2>3. ASSUME NEW t \in DOMAIN directTurns
        PROVE  /\ directTurns'[t] \in D!TurnState
               /\ directTurns'[t].stage = directTurns[t].stage
               /\ directTurns'[t].answer = directTurns[t].answer
               /\ directTurns'[t].sends = directTurns[t].sends
               /\ t \in S => directTurns'[t].visible # "no"
               /\ t \notin S => directTurns'[t].visible = directTurns[t].visible
    <3>1. /\ f[t] \in D!TurnState
          /\ f[t].stage = directTurns[t].stage /\ f[t].answer = directTurns[t].answer
          /\ f[t].sends = directTurns[t].sends
          /\ f[t].visible = IF t \in D!Held(D!Pending) THEN "numbered" ELSE directTurns[t].visible
      BY <1>0, FlushedTurn
    <3> HIDE DEF f
    <3>2. CASE Plain(t)
      <4>1. directTurns'[t] = [f[t] EXCEPT !.visible = "plain"] /\ t \in S
        BY <2>1, <3>2
      <4> QED
        BY <3>1, <4>1 DEF D!TurnState
    <3>3. CASE ~Plain(t)
      <4>1. directTurns'[t] = f[t]
        BY <2>1, <3>3
      <4>2. t \in S => t \in D!Pending
        BY <2>2
      <4>3. t \in S /\ t \notin D!Held(D!Pending) => directTurns[t].visible # "no"
        BY <2>2, <3>3, <4>2
      <4> QED
        BY <3>1, <4>1, <4>3
    <3> QED
      BY <3>2, <3>3
  <2>4. directTurns' = [t \in DOMAIN directTurns |-> directTurns'[t]]
    BY <2>1
  <2> HIDE DEF S, f
  <2> QED
    BY <1>0, <2>1, <2>2, <2>3, <2>4, ShownStep DEF D!TypeOK
<1>14. ASSUME NEW t \in DOMAIN directTurns, NEW e \in D!Event, NEW outcome \in D!Replays(t, e),
              D!Failed(t, e, outcome)
       PROVE  DirectInv'
  <2>1. t \in D!Pending /\ place = "open"
    BY <1>14 DEF D!Failed, D!Listening
  <2>2. CASE D!Took(t, outcome)
    BY <1>14, <2>1, <2>2, TookStep
  <2>3. CASE D!Breaks(outcome)
    BY <1>4, <2>1, <2>3 DEF D!Breaks
  <2>4. CASE /\ directTurns' = D!Settle([D!Flushed({t}) EXCEPT ![t].visible = "numbered"], {t})
             /\ D!Show({t}) /\ D!Finish({t}) /\ D!Forget({t})
             /\ UNCHANGED <<place, account, socket, pinned, queued, candidate, signal>>
    <3> DEFINE v == [D!Flushed({t})[t] EXCEPT !.visible = "numbered"]
               q == [v EXCEPT !.stage = "settled"]
    <3>1. directTurns' = D!Settle([D!Flushed({t}) EXCEPT ![t] = v], {t})
      BY <2>4, Zenon
    <3>2. q \in D!TurnState /\ q.sends = directTurns[t].sends /\ q.stage = "settled"
      BY <1>f, <2>1 DEF D!TurnState
    <3>3. directTurns' = [directTurns EXCEPT ![t] = q]
      BY <1>f, <2>1, <3>1
    <3>4. awaiting' = (IF awaiting = t THEN 0 ELSE awaiting) /\ candidate' \in 0..MaxTurns
      BY <1>0, <2>4 DEF D!Forget, D!TypeOK
    <3> HIDE DEF q
    <3> QED
      BY <2>1, <2>4, <3>2, <3>3, <3>4, SeenStep
  <2> QED
    BY <1>14, <2>2, <2>3, <2>4 DEF D!Failed, D!Delivered
<1>15. ASSUME NEW clean \in BOOLEAN, D!SocketEnds(clean) PROVE DirectInv'
  <2>1. place = "open"
    BY <1>15 DEF D!SocketEnds, D!Listening
  <2>2. CASE D!SettleAll
    BY <2>1, <2>2, SettleAllStep
  <2>3. ASSUME NEW t \in D!Pending,
               NEW outcome \in IF directTurns[t].buffer = "held" THEN {D!NotSent(directTurns[t])}
                               ELSE D!Replays(t, D!SocketLost),
               D!Took(t, outcome) \/ D!Breaks(outcome)
        PROVE  DirectInv'
    <3>1. D!SocketLost \in D!Event
      BY DEF D!SocketLost, D!Event, D!Failure
    <3>2. CASE D!Took(t, outcome)
      <4>1. outcome \in D!Replays(t, D!SocketLost)
        BY <2>3, <3>2 DEF D!Took, D!NotSent
      <4> QED
        BY <3>1, <3>2, <4>1, TookStep
    <3>3. CASE D!Breaks(outcome)
      BY <1>4, <2>1, <3>3 DEF D!Breaks
    <3> QED
      BY <2>3, <3>2, <3>3
  <2> QED
    BY <1>15, <2>2, <2>3 DEF D!SocketEnds, D!RecoverOrSettle
<1>16. CASE D!MissingCreated \/ D!UpstreamIdle
  BY <1>16, SettleAllStep DEF D!MissingCreated, D!UpstreamIdle
<1>17. CASE D!Leave \/ D!Reclaimed \/ \E t \in D!Turn : D!DispatchBreaks(t)
  BY <1>4, <1>17 DEF D!Leave, D!Reclaimed, D!DispatchBreaks, D!Handling
<1> QED
  BY <1>1, <1>2, <1>3, <1>5, <1>6, <1>7, <1>8, <1>9, <1>10, <1>11, <1>12, <1>13, <1>14, <1>15, <1>16, <1>17
     DEF D!Next, D!Client, D!Handle, D!Upstream

\* A step of the lanes is the direct one's own, or leaves it alone.
LEMMA DirectAlone == [LanesNext]_lanes => D!Next \/ UNCHANGED directVars
BY DEF LanesNext, lanes

\* The invariant of the direct lane holds in every behaviour of the lanes.
LEMMA DirectAlways == LanesSpec => []DirectInv
<1>1. LanesInit => DirectInv
  <2> SUFFICES ASSUME D!Init PROVE DirectInv
    BY DEF LanesInit
  <2>1. directTurns = <<>> /\ queued = <<>> /\ DOMAIN directTurns = {} /\ DOMAIN queued = {}
    BY DEF D!Init
  <2>2. delivered = [t \in D!Turn |-> {}] /\ ends = [t \in D!Turn |-> 0]
    BY DEF D!Init
  <2>3. delivered \in [D!Turn -> SUBSET (0..MaxSends)] /\ ends \in [D!Turn -> Nat]
        /\ \A t \in D!Turn : delivered[t] = {} /\ ends[t] = 0
    BY <2>2
  <2>4. directTurns \in Seq(D!TurnState) /\ queued \in Seq(D!Turn) /\ Len(directTurns) <= MaxTurns
    BY <2>1, DirectAssumption
  <2>5. 0 \in 0..MaxTurns /\ 1 \in 1..MaxSockets
    BY DirectAssumption
  <2>6. D!TypeOK
    BY <2>3, <2>4, <2>5 DEF D!Init, D!TypeOK
  <2> QED
    BY <2>1, <2>3, <2>6 DEF DirectInv, D!OneUnacknowledged, D!Pending
<1>2. DirectInv /\ [LanesNext]_lanes => DirectInv'
  <2> SUFFICES ASSUME DirectInv, [LanesNext]_lanes PROVE DirectInv'
    OBVIOUS
  <2>1. CASE UNCHANGED directVars
    BY <2>1 DEF directVars, DirectInv, D!TypeOK, TurnGood, D!OneUnacknowledged, D!Pending
  <2> QED
    BY <2>1, DirectStep, DirectAlone
<1> QED
  BY <1>1, <1>2, PTL DEF LanesSpec

(***************************************************************************)
(* TurnsAnswered: whatever is replayed, buffered or given up, the client   *)
(* sees one attempt of a create, gets one final frame for it unless its    *)
(* socket is closed, and at most one create waits for its acknowledgement. *)
(***************************************************************************)
THEOREM TurnsAnsweredAlways == LanesSpec => []TurnsAnswered
<1>1. DirectInv => TurnsAnswered
  <2> SUFFICES ASSUME DirectInv PROVE TurnsAnswered
    OBVIOUS
  <2>1. ASSUME NEW t \in D!Turn PROVE D!Cardinality(delivered[t]) <= 1
    <3>1. \E x : delivered[t] \subseteq {x}
      BY <2>1 DEF DirectInv, TurnGood
    <3> QED
      BY <3>1, OneShown
  <2>2. D!AnsweredOnce
    BY DEF DirectInv, TurnGood, D!AnsweredOnce
  <2> QED
    BY <2>1, <2>2 DEF DirectInv, TurnsAnswered, D!OneAttemptShown
<1> QED
  BY <1>1, DirectAlways, PTL

(***************************************************************************)
(* OriginalSocket: after an interrupt no replay, no create and no end of a *)
(* socket gives the session another one (pinned is requires_original_      *)
(* socket).                                                                *)
(***************************************************************************)
THEOREM OriginalSocketAlways == LanesSpec => OriginalSocket
<1> DEFINE Fixed == pinned => socket' = socket /\ account' = account
<1>1. DirectInv /\ D!Next => Fixed
  <2> SUFFICES ASSUME DirectInv, D!Next, pinned PROVE socket' = socket /\ account' = account
    OBVIOUS
  <2>0. /\ account \in Accounts /\ D!Pending \subseteq DOMAIN directTurns
        /\ \A t \in DOMAIN directTurns : directTurns[t] \in D!TurnState
    BY TurnFacts DEF D!TypeOK
  <2> DEFINE Stays == socket' = socket /\ account' = account
  <2>1. D!Client \/ D!AskedToLeave \/ D!Reclaimed => Stays
    BY DEF D!Client, D!Receive, D!Interrupt, D!Control, D!Leave, D!Gone, D!AskedToLeave, D!Reclaimed
  <2>2. \A t \in D!Turn : D!Refuse(t) \/ D!DispatchBreaks(t) \/ D!FlushDelay(t) => Stays
    BY DEF D!Refuse, D!DispatchBreaks, D!Gone, D!FlushDelay
  <2>3. \A t \in D!Turn, to \in Accounts : D!Dispatch(t, to) => Stays
    BY DEF D!Dispatch, D!Replace
  <2>4. \A t \in D!Turn : D!Acknowledged(t) \/ D!Output(t) \/ D!Completed(t) => Stays
    BY DEF D!Acknowledged, D!Output, D!Completed
  <2>5. D!Note \/ D!FailedUnattributed \/ D!Opaque => Stays
    BY DEF D!Note, D!FailedUnattributed, D!Opaque
  <2>6. D!SettleAll => Stays
    BY DEF D!SettleAll, D!Numbered, D!Closes
  <2>7. ASSUME NEW t \in DOMAIN directTurns, NEW e \in D!Event, NEW outcome \in D!Replays(t, e)
        PROVE  ~D!Took(t, outcome)
    BY <2>0, <2>7, ReplaysWell DEF D!Took
  <2>8. \A outcome : D!Breaks(outcome) => Stays
    BY DEF D!Breaks, D!Gone
  <2>9. ASSUME NEW t \in DOMAIN directTurns, NEW e \in D!Event, NEW outcome \in D!Replays(t, e),
               D!Failed(t, e, outcome)
        PROVE  Stays
    BY <2>7, <2>8, <2>9 DEF D!Failed, D!Delivered
  <2>10. ASSUME NEW clean \in BOOLEAN, D!SocketEnds(clean) PROVE Stays
    <3>1. D!SocketLost \in D!Event
      BY DEF D!SocketLost, D!Event, D!Failure
    <3>2. ASSUME NEW t \in D!Pending,
               NEW outcome \in IF directTurns[t].buffer = "held" THEN {D!NotSent(directTurns[t])}
                               ELSE D!Replays(t, D!SocketLost)
          PROVE  ~D!Took(t, outcome)
      <4>1. outcome = D!NotSent(directTurns[t]) => outcome.result = "none"
        BY DEF D!NotSent
      <4>2. CASE outcome = D!NotSent(directTurns[t])
        BY <4>1, <4>2 DEF D!Took
      <4>3. CASE outcome \in D!Replays(t, D!SocketLost)
        BY <2>0, <2>7, <3>1, <4>3
      <4> QED
        BY <3>2, <4>2, <4>3
    <3> QED
      BY <2>6, <2>8, <2>10, <3>2 DEF D!SocketEnds, D!RecoverOrSettle
  <2>11. D!MissingCreated \/ D!UpstreamIdle => Stays
    BY <2>6 DEF D!MissingCreated, D!UpstreamIdle
  <2> QED
    BY <2>1, <2>2, <2>3, <2>4, <2>5, <2>9, <2>10, <2>11 DEF D!Next, D!Handle, D!Upstream
<1>2. DirectInv /\ [LanesNext]_lanes => [Fixed]_(D!vars)
  <2> SUFFICES ASSUME DirectInv, [LanesNext]_lanes PROVE [Fixed]_(D!vars)
    OBVIOUS
  <2>1. CASE D!Next
    BY <1>1, <2>1
  <2>2. CASE UNCHANGED directVars
    BY <2>2 DEF directVars, D!vars
  <2> QED
    BY <2>1, <2>2, DirectAlone
<1> QED
  BY <1>2, DirectAlways, PTL DEF LanesSpec, OriginalSocket, D!OriginalSocket

-----------------------------------------------------------------------------
(* The body of an answer.                                                  *)

\* The keys in some order are the keys.
LEMMA KeysInOrder ==
  /\ H!SetToSeq(Keys) \in Seq(Keys)
  /\ \A k \in Keys : \E i \in 1..Len(H!SetToSeq(Keys)) : H!SetToSeq(Keys)[i] = k
<1> DEFINE n == Cardinality(Keys)
           Orders == {g \in [1..n -> Keys] : H!IsInjective(g)}
<1>1. IsFiniteSet(Keys) /\ n \in Nat
  BY BodyAssumption, FS_CardinalityType
<1>2. H!SetToSeq(Keys) = CHOOSE g \in [1..n -> Keys] : H!IsInjective(g)
  <2>1. H!Cardinality(Keys) = Cardinality(Keys)
    BY Zenon DEF H!Cardinality, Cardinality, H!IsFiniteSet, IsFiniteSet
  <2>2. QED BY <2>1, Zenon DEF H!SetToSeq
<1>3. \E g \in [1..n -> Keys] : H!IsInjective(g)
  <2>1. PICK m \in Nat : ExistsBijection(1..m, Keys)
    BY <1>1, FS_NatBijection
  <2>2. n = m
    BY <2>1, FS_CountingElements
  <2>3. PICK g \in Bijection(1..n, Keys) : TRUE
    BY <2>1, <2>2 DEF ExistsBijection
  <2>4. g \in [1..n -> Keys] /\ H!IsInjective(g)
    BY <2>3 DEF Bijection, Injection, IsInjective, H!IsInjective
  <2>5. QED BY <2>4
<1>4. PICK f \in [1..n -> Keys] : f = H!SetToSeq(Keys) /\ H!IsInjective(f)
  BY <1>2, <1>3
<1>5. f \in Injection(1..n, Keys)
  BY <1>4 DEF Injection, IsInjective, H!IsInjective
<1>6. IsFiniteSet(1..n) /\ Cardinality(1..n) = n
  BY <1>1, FS_Interval
<1>7. f \in Surjection(1..n, Keys)
  BY <1>1, <1>5, <1>6, FS_Injection
<1>8. /\ f \in Seq(Keys) /\ Len(f) = n
      /\ \A k \in Keys : \E i \in 1..n : f[i] = k
  BY <1>1, <1>4, <1>7 DEF Surjection
<1>9. QED BY <1>4, <1>8, Zenon

Utterance == H!Event \cup {None}

\* What is said at position i: the rest comes after the last frame.
At(i) == IF i <= Len(body.frames) THEN body.frames[i] ELSE body.rest
IsOf(e, kinds) == e # None /\ e.kind \in kinds

BodyTypeOK ==
  /\ body.frames \in Seq(Utterance) /\ body.rest \in Utterance
  /\ body.kind = "json" => \A i \in 1..Len(body.frames) : body.frames[i] = None

Observed ==
  [ids : Seq(Ids), failure : H!Failures \cup {None}, terminal : BOOLEAN]

\* The observer o is what the first n utterances say.
Summary(o, n) ==
  /\ o \in Observed
  /\ o.terminal <=> \E i \in 1..n : IsOf(At(i), {"terminal"})
  /\ o.failure = None => \A i \in 1..n : ~IsOf(At(i), H!Failures)
  /\ o.failure # None =>
       \E i \in 1..n : /\ IsOf(At(i), {o.failure})
                       /\ \A j \in (i + 1)..n : ~IsOf(At(j), H!Failures)
  /\ o.failure = None =>
       \A x \in Ids : (\E k \in 1..Len(o.ids) : o.ids[k] = x)
                        <=> (x # None /\ \E i \in 1..n : At(i) # None /\ At(i).id = x)

LEMMA EventIs ==
  ASSUME NEW e \in H!Event
  PROVE  /\ e.kind \in {"progress", "terminal", "quota", "scoped", "capacity", "garbled"}
         /\ e.id \in Ids \cup {None}
         /\ e.kind \in H!Failures \cup {"garbled"} => e.id = None
BY DEF H!Event, H!Failures

LEMMA AtIs ==
  ASSUME BodyTypeOK, NEW i \in 1..Len(body.frames) + 1
  PROVE  At(i) \in Utterance
BY DEF BodyTypeOK, At

\* A failure drops the ids seen before it; one event more is noted.
LEMMA SeenIs ==
  ASSUME NEW o \in Observed, NEW e \in H!Event
  PROVE  /\ H!Seen(o, e) \in Observed
         /\ e = None => H!Seen(o, e) = o
         /\ e # None /\ e.kind = "garbled" => H!Seen(o, e) = o
         /\ e # None /\ e.kind \in H!Failures =>
              /\ H!Seen(o, e).failure = e.kind /\ H!Seen(o, e).terminal = o.terminal
         /\ e # None /\ e.kind \in {"progress", "terminal"} =>
              /\ H!Seen(o, e).failure = o.failure
              /\ H!Seen(o, e).terminal <=> o.terminal \/ e.kind = "terminal"
              /\ \A x \in Ids :
                   (\E k \in 1..Len(H!Seen(o, e).ids) : H!Seen(o, e).ids[k] = x)
                     <=> (\E k \in 1..Len(o.ids) : o.ids[k] = x)
                         \/ (x = e.id /\ e.id # None)
<1>1. /\ e.kind \in {"progress", "terminal", "quota", "scoped", "capacity", "garbled"}
      /\ e.id \in Ids \cup {None}
  BY EventIs
<1>2. CASE e = None \/ e.kind = "garbled"
  <2>1. H!Seen(o, e) = o
    BY <1>2, Zenon DEF H!Seen
  <2>2. QED BY <1>2, <2>1 DEF H!Failures
<1>3. CASE e # None /\ e.kind \in H!Failures
  <2>1. H!Seen(o, e) = [o EXCEPT !.failure = e.kind, !.ids = <<>>]
    BY <1>3 DEF H!Seen, H!Failures
  <2>2. <<>> \in Seq(Ids)
    OBVIOUS
  <2>3. /\ H!Seen(o, e) \in Observed /\ H!Seen(o, e).failure = e.kind
        /\ H!Seen(o, e).terminal = o.terminal
    BY <1>3, <2>1, <2>2 DEF Observed
  <2>4. e.kind \notin {"garbled", "progress", "terminal"}
    BY <1>3 DEF H!Failures
  <2>5. QED BY <1>3, <2>3, <2>4
<1>4. CASE e # None /\ e.kind \in {"progress", "terminal"}
  <2> DEFINE q == IF e.id = None \/ H!Contains(o.ids, e.id) THEN o.ids ELSE Append(o.ids, e.id)
  <2>1. PICK t \in BOOLEAN : t = (o.terminal \/ e.kind = "terminal")
    OBVIOUS
  <2>2. H!Seen(o, e) = [o EXCEPT !.ids = q, !.terminal = t]
    <3>1. ~(e = None \/ e.kind = "garbled") /\ e.kind \notin H!Failures
      BY <1>4 DEF H!Failures
    <3>2. QED BY <2>1, <3>1, Zenon DEF H!Seen
  <2>3. /\ q \in Seq(Ids)
        /\ \A x \in Ids : (\E k \in 1..Len(q) : q[k] = x)
                            <=> (\E k \in 1..Len(o.ids) : o.ids[k] = x)
                                \/ (x = e.id /\ e.id # None)
    <3>1. PICK d \in Seq(Ids) : d = o.ids
      BY DEF Observed
    <3>2. CASE e.id = None
      BY <3>1, <3>2
    <3>3. CASE e.id # None /\ \E k \in 1..Len(d) : d[k] = e.id
      <4>1. q = d
        BY <3>1, <3>3 DEF H!Contains
      <4> HIDE DEF q
      <4>2. QED BY <3>1, <3>3, <4>1
    <3>4. CASE e.id # None /\ ~\E k \in 1..Len(d) : d[k] = e.id
      <4>1. q = Append(d, e.id)
        BY <3>1, <3>4 DEF H!Contains
      <4> HIDE DEF q
      <4>2. e.id \in Ids
        BY <1>1, <3>4
      <4>3. /\ q \in Seq(Ids) /\ Len(q) = Len(d) + 1 /\ q[Len(d) + 1] = e.id
            /\ \A k \in 1..Len(d) : q[k] = d[k]
        BY <4>1, <4>2
      <4>4. \A x \in Ids : (\E k \in 1..Len(q) : q[k] = x)
                             <=> (\E k \in 1..Len(d) : d[k] = x) \/ x = e.id
        <5>1. Len(d) \in Nat
          OBVIOUS
        <5>2. QED BY <4>3, <5>1
      <4>5. QED BY <3>1, <3>4, <4>3, <4>4
    <3>5. QED BY <3>2, <3>3, <3>4
  <2> HIDE DEF q
  <2>4. /\ H!Seen(o, e) \in Observed /\ H!Seen(o, e).failure = o.failure
        /\ H!Seen(o, e).terminal = t /\ H!Seen(o, e).ids = q
    BY <2>2, <2>3 DEF Observed
  <2>5. e.kind \notin {"garbled"} \cup H!Failures
    BY <1>4 DEF H!Failures
  <2>6. QED BY <1>4, <2>1, <2>3, <2>4, <2>5
<1>5. QED BY <1>1, <1>2, <1>3, <1>4 DEF H!Failures

LEMMA SeenNothing ==
  ASSUME NEW o
  PROVE  H!Seen(o, None) = o
BY Zenon DEF H!Seen

LEMMA SummaryGrows ==
  ASSUME BodyTypeOK, NEW o, NEW n \in 0..Len(body.frames), Summary(o, n)
  PROVE  Summary(H!Seen(o, At(n + 1)), n + 1)
<1> DEFINE e == At(n + 1)
           r == H!Seen(o, e)
<1>1. /\ e \in Utterance /\ o \in Observed /\ n \in Nat /\ n + 1 \in Nat
      /\ \A i \in 1..(n + 1) : i \in 1..n \/ i = n + 1
      /\ 1..n \subseteq 1..(n + 1) /\ n + 1 \in 1..(n + 1)
  BY AtIs DEF Summary, BodyTypeOK
<1>2. CASE e = None
  <2>1. r = o
    BY <1>2, SeenNothing, Zenon
  <2> HIDE DEF r
  <2>2. \A kinds : ~IsOf(At(n + 1), kinds)
    BY <1>2 DEF IsOf
  <2>3. Summary(o, n + 1)
    <3>1. o.terminal <=> \E i \in 1..(n + 1) : IsOf(At(i), {"terminal"})
      BY <1>1, <2>2 DEF Summary
    <3>2. o.failure = None => \A i \in 1..(n + 1) : ~IsOf(At(i), H!Failures)
      BY <1>1, <2>2 DEF Summary
    <3>3. o.failure # None =>
            \E i \in 1..(n + 1) : /\ IsOf(At(i), {o.failure})
                                  /\ \A j \in (i + 1)..(n + 1) : ~IsOf(At(j), H!Failures)
      <4>1. SUFFICES ASSUME o.failure # None
                     PROVE  \E i \in 1..(n + 1) :
                              /\ IsOf(At(i), {o.failure})
                              /\ \A j \in (i + 1)..(n + 1) : ~IsOf(At(j), H!Failures)
        OBVIOUS
      <4>2. PICK i \in 1..n : /\ IsOf(At(i), {o.failure})
                              /\ \A j \in (i + 1)..n : ~IsOf(At(j), H!Failures)
        BY <4>1 DEF Summary
      <4>3. \A j \in (i + 1)..(n + 1) : j \in (i + 1)..n \/ j = n + 1
        BY <1>1
      <4>4. QED BY <1>1, <2>2, <4>2, <4>3
    <3>4. o.failure = None =>
            \A x \in Ids : (\E k \in 1..Len(o.ids) : o.ids[k] = x)
                             <=> (x # None /\ \E i \in 1..(n + 1) : At(i) # None /\ At(i).id = x)
      BY <1>1, <1>2 DEF Summary
    <3>5. QED BY <1>1, <3>1, <3>2, <3>3, <3>4 DEF Summary
  <2>4. QED BY <2>1, <2>3 DEF r
<1>3. CASE e # None
  <2>1. e \in H!Event
    BY <1>1, <1>3 DEF Utterance
  <2>2. /\ e.kind \in {"progress", "terminal", "quota", "scoped", "capacity", "garbled"}
        /\ e.id \in Ids \cup {None}
        /\ e.kind \in H!Failures \cup {"garbled"} => e.id = None
    BY <2>1, EventIs
  <2>3. /\ r \in Observed
        /\ e.kind = "garbled" => r = o
        /\ e.kind \in H!Failures => /\ r.failure = e.kind /\ r.terminal = o.terminal
        /\ e.kind \in {"progress", "terminal"} =>
             /\ r.failure = o.failure
             /\ r.terminal <=> o.terminal \/ e.kind = "terminal"
             /\ \A x \in Ids :
                  (\E k \in 1..Len(r.ids) : r.ids[k] = x)
                    <=> (\E k \in 1..Len(o.ids) : o.ids[k] = x)
                        \/ (x = e.id /\ e.id # None)
    BY <1>1, <1>3, <2>1, SeenIs
  <2>4. \A kinds : IsOf(At(n + 1), kinds) <=> e.kind \in kinds
    BY <1>3 DEF IsOf
  <2> HIDE DEF r
  <2>5. CASE e.kind \in H!Failures
    <3>1. r.failure = e.kind /\ r.terminal = o.terminal /\ e.kind # "terminal"
          /\ r.failure # None
      BY <2>3, <2>5, BodyAssumption DEF H!Failures
    <3>2. r.terminal <=> \E i \in 1..(n + 1) : IsOf(At(i), {"terminal"})
      BY <1>1, <2>4, <3>1 DEF Summary
    <3>3. \E i \in 1..(n + 1) : /\ IsOf(At(i), {r.failure})
                                /\ \A j \in (i + 1)..(n + 1) : ~IsOf(At(j), H!Failures)
      BY <1>1, <2>4, <3>1
    <3>4. Summary(r, n + 1)
      BY <2>3, <3>1, <3>2, <3>3 DEF Summary
    <3>5. QED BY <3>4 DEF r
  <2>6. CASE e.kind \notin H!Failures
    <3>1. /\ r.failure = o.failure
          /\ r.terminal <=> o.terminal \/ e.kind = "terminal"
          /\ \A x \in Ids :
               (\E k \in 1..Len(r.ids) : r.ids[k] = x)
                 <=> (\E k \in 1..Len(o.ids) : o.ids[k] = x)
                     \/ (x = e.id /\ e.id # None)
      <4>1. CASE e.kind = "garbled"
        BY <2>2, <2>3, <4>1
      <4>2. CASE e.kind \in {"progress", "terminal"}
        BY <2>3, <4>2
      <4>3. QED BY <2>2, <2>6, <4>1, <4>2 DEF H!Failures
    <3>2. r.terminal <=> \E i \in 1..(n + 1) : IsOf(At(i), {"terminal"})
      BY <1>1, <2>4, <3>1 DEF Summary
    <3>3. r.failure = None => \A i \in 1..(n + 1) : ~IsOf(At(i), H!Failures)
      BY <1>1, <2>4, <2>6, <3>1 DEF Summary
    <3>4. r.failure # None =>
            \E i \in 1..(n + 1) : /\ IsOf(At(i), {r.failure})
                                  /\ \A j \in (i + 1)..(n + 1) : ~IsOf(At(j), H!Failures)
      <4>1. SUFFICES ASSUME r.failure # None
                     PROVE  \E i \in 1..(n + 1) :
                              /\ IsOf(At(i), {r.failure})
                              /\ \A j \in (i + 1)..(n + 1) : ~IsOf(At(j), H!Failures)
        OBVIOUS
      <4>2. PICK i \in 1..n : /\ IsOf(At(i), {r.failure})
                              /\ \A j \in (i + 1)..n : ~IsOf(At(j), H!Failures)
        BY <3>1, <4>1 DEF Summary
      <4>3. \A j \in (i + 1)..(n + 1) : j \in (i + 1)..n \/ j = n + 1
        BY <1>1
      <4>4. QED BY <1>1, <2>4, <2>6, <4>2, <4>3
    <3>5. r.failure = None =>
            \A x \in Ids : (\E k \in 1..Len(r.ids) : r.ids[k] = x)
                             <=> (x # None /\ \E i \in 1..(n + 1) : At(i) # None /\ At(i).id = x)
      BY <1>1, <1>3, <3>1 DEF Summary
    <3>6. Summary(r, n + 1)
      BY <2>3, <3>2, <3>3, <3>4, <3>5 DEF Summary
    <3>7. QED BY <3>6 DEF r
  <2>7. QED BY <2>5, <2>6
<1>4. QED BY <1>2, <1>3

\* What is said as a whole, at the end.
LEMMA WholeIs ==
  ASSUME BodyTypeOK, NEW o, Summary(o, Len(body.frames) + 1)
  PROVE  /\ H!Failed <=> o.failure # None
         /\ o.failure # None => H!LastFailure = o.failure
         /\ ~H!Failed /\ ~o.terminal => H!Due = {}
         /\ ~H!Failed /\ o.terminal =>
              \A x : x \in H!Due
                <=> x \in Keys \/ \E k \in 1..Len(o.ids) : o.ids[k] = x
<1> DEFINE n == Len(body.frames) + 1
<1>1. /\ n \in Nat /\ DOMAIN H!Said = 1..n
      /\ \A i \in 1..n : H!Said[i] = At(i) /\ At(i) \in Utterance
  <2>1. PICK d \in Seq(Utterance) : d = body.frames
    BY DEF BodyTypeOK
  <2>2. /\ DOMAIN Append(d, body.rest) = 1..(Len(d) + 1) /\ Len(d) \in Nat
        /\ \A i \in 1..Len(d) : Append(d, body.rest)[i] = d[i]
        /\ Append(d, body.rest)[Len(d) + 1] = body.rest
    BY DEF BodyTypeOK
  <2>3. H!Said = Append(d, body.rest)
    BY <2>1 DEF H!Said
  <2>4. \A i \in 1..n : H!Said[i] = At(i)
    BY <2>1, <2>2, <2>3 DEF At
  <2>5. QED BY <2>1, <2>2, <2>3, <2>4, AtIs
<1>2. \A kinds, i : i \in H!Says(kinds)
        <=> i \in 1..n /\ At(i) # None /\ At(i).kind # "garbled" /\ At(i).kind \in kinds
  BY <1>1 DEF H!Says, H!Legible
<1>3. \A i \in 1..n : At(i) # None => At(i) \in H!Event
  BY <1>1 DEF Utterance
<1> HIDE DEF n
<1>4. H!Failed <=> o.failure # None
  <2>1. CASE o.failure = None
    <3>1. \A i \in 1..n : ~IsOf(At(i), H!Failures)
      BY <2>1 DEF Summary, n
    <3>2. H!Says(H!Failures) = {}
      BY <1>2, <3>1 DEF IsOf
    <3>3. QED BY <2>1, <3>2 DEF H!Failed
  <2>2. CASE o.failure # None
    <3>1. PICK i \in 1..n : IsOf(At(i), {o.failure})
      BY <2>2 DEF Summary, n
    <3>2. o.failure \in H!Failures /\ o.failure # "garbled"
      BY <2>2 DEF Summary, Observed, H!Failures
    <3>3. i \in H!Says(H!Failures)
      BY <1>2, <3>1, <3>2 DEF IsOf
    <3>4. QED BY <2>2, <3>3 DEF H!Failed
  <2>3. QED BY <2>1, <2>2
<1>5. ASSUME o.failure # None
      PROVE  H!LastFailure = o.failure
  <2>1. PICK i \in 1..n : /\ IsOf(At(i), {o.failure})
                          /\ \A j \in (i + 1)..n : ~IsOf(At(j), H!Failures)
    BY <1>5 DEF Summary, n
  <2>2. o.failure \in H!Failures /\ o.failure # "garbled"
    BY <1>5 DEF Summary, Observed, H!Failures
  <2>3. i \in H!Says(H!Failures)
    BY <1>2, <2>1, <2>2 DEF IsOf
  <2>4. \A j \in H!Says(H!Failures) : j \in 1..n /\ i >= j
    <3>1. TAKE j \in H!Says(H!Failures)
    <3>2. j \in 1..n /\ IsOf(At(j), H!Failures)
      BY <1>2 DEF IsOf
    <3>3. j \notin (i + 1)..n
      BY <2>1, <3>2
    <3>4. QED BY <1>1, <3>2, <3>3
  <2>5. H!Max(H!Says(H!Failures)) = i
    <3>1. \A x \in H!Says(H!Failures) :
            (\A y \in H!Says(H!Failures) : x >= y) => x = i
      BY <1>1, <2>3, <2>4
    <3>2. QED BY <2>3, <2>4, <3>1 DEF H!Max
  <2>6. QED BY <1>1, <2>1, <2>5 DEF H!LastFailure, IsOf
<1>6. ASSUME ~H!Failed, ~o.terminal
      PROVE  H!Due = {}
  <2>1. \A i \in 1..n : ~IsOf(At(i), {"terminal"})
    BY <1>6 DEF Summary, n
  <2>2. H!Says({"terminal"}) = {}
    BY <1>2, <2>1 DEF IsOf
  <2>3. QED BY <2>2 DEF H!Due
<1>7. ASSUME ~H!Failed, o.terminal
      PROVE  \A x : x \in H!Due
               <=> x \in Keys \/ \E k \in 1..Len(o.ids) : o.ids[k] = x
  <2>1. PICK i \in 1..n : IsOf(At(i), {"terminal"})
    BY <1>7 DEF Summary, n
  <2>2. i \in H!Says({"terminal"})
    BY <1>2, <2>1 DEF IsOf
  <2>3. H!Due = ({At(j).id : j \in H!Legible} \ {None}) \cup Keys
    <3>1. H!Due = ({H!Said[j].id : j \in H!Legible} \ {None}) \cup Keys
      BY <1>7, <2>2 DEF H!Due
    <3>2. \A j \in H!Legible : H!Said[j] = At(j)
      BY <1>1 DEF H!Legible
    <3>3. QED BY <3>1, <3>2
  <2>4. \A x : (x # None /\ \E j \in H!Legible : x = At(j).id)
               <=> (x # None /\ x \in Ids /\ \E j \in 1..n : At(j) # None /\ At(j).id = x)
    <3>1. \A j \in 1..n : At(j) # None =>
            /\ At(j).id \in Ids \cup {None}
            /\ At(j).kind = "garbled" => At(j).id = None
      BY <1>3, EventIs
    <3>2. \A j : j \in H!Legible <=> j \in 1..n /\ At(j) # None /\ At(j).kind # "garbled"
      BY <1>1 DEF H!Legible
    <3>3. QED BY <3>1, <3>2
  <2>5. \A x \in Ids : (\E k \in 1..Len(o.ids) : o.ids[k] = x)
                         <=> (x # None /\ \E j \in 1..n : At(j) # None /\ At(j).id = x)
    BY <1>4, <1>7 DEF Summary, n
  <2>6. \A k \in 1..Len(o.ids) : o.ids[k] \in Ids
    BY DEF Summary, Observed
  <2>7. \A x : (x # None /\ x \in Ids /\ \E j \in 1..n : At(j) # None /\ At(j).id = x)
               <=> \E k \in 1..Len(o.ids) : o.ids[k] = x
    BY <2>5, <2>6
  <2>8. QED BY <2>3, <2>4, <2>7
<1>8. QED BY <1>4, <1>5, <1>6, <1>7

\* What was to be bound, and was or could not be.
Tried == owned \cup unbound

\* What the last failure has come to; all that is due was tried.
Settled ==
  H!Failed =>
    IF health = <<>>
    THEN H!LastFailure = "scoped" \/ (H!LastFailure = "capacity" /\ known)
    ELSE health = <<H!LastFailure>> /\ H!LastFailure # "scoped"
AllBound == Tried = H!Due /\ Settled

BindStep == [step : {"bind"}, of : Ids \cup Keys]

\* With the steps b the binding gets there.
Leads(b) ==
  \/ /\ H!Failed /\ Tried = {} /\ health = <<>> /\ H!LastFailure # "scoped"
     /\ b = <<[step |-> "health", of |-> H!LastFailure]>>
  \/ b = <<>> /\ AllBound
  \/ /\ ~H!Failed /\ b \in Seq(BindStep)
     /\ \A x : x \in H!Due <=> x \in Tried \/ \E i \in 1..Len(b) : b[i].of = x

Observing ==
  /\ polled <= Len(body.frames) /\ Summary(observer, polled)
  /\ binding = None /\ Tried = {} /\ health = <<>> /\ client # "ended"

(***************************************************************************)
(* While the body is observed nothing is bound; while it is bound, what is *)
(* left to do is what is still due; and a client that reads on has it all. *)
(***************************************************************************)
BodyInv ==
  lane = "http" =>
    /\ BodyTypeOK /\ polled \in Nat
    /\ observer # None => Observing
    /\ binding # None => observer = None /\ client = "reading" /\ Leads(binding)
    /\ observer = None /\ binding = None /\ client \in {"reading", "ended"} => AllBound
    /\ Tried \subseteq H!Due

LEMMA StepsAre ==
  ASSUME BodyTypeOK, NEW o, Summary(o, Len(body.frames) + 1), Tried = {}, health = <<>>
  PROVE  H!Steps(o) # None /\ Leads(H!Steps(o))
<1>1. /\ H!Failed <=> o.failure # None
      /\ o.failure # None => H!LastFailure = o.failure
      /\ ~H!Failed /\ ~o.terminal => H!Due = {}
      /\ ~H!Failed /\ o.terminal =>
           \A x : x \in H!Due
             <=> x \in Keys \/ \E k \in 1..Len(o.ids) : o.ids[k] = x
  BY WholeIs
<1>2. o \in Observed
  BY DEF Summary
<1> DEFINE AnyStep == [step : {"health", "bind"}, of : H!Failures \cup Ids \cup Keys]
<1>3. None \notin Seq(AnyStep) /\ <<>> \in Seq(AnyStep)
  BY BodyAssumption
<1>4. CASE o.failure # None
  <2>1. H!Due = {} /\ H!Failed /\ o.failure \in H!Failures
    BY <1>1, <1>2, <1>4 DEF H!Due, Observed
  <2>2. CASE o.failure = "scoped" \/ (o.failure = "capacity" /\ known)
    <3>1. H!Steps(o) = <<>>
      BY <1>4, <2>2, Zenon DEF H!Steps
    <3>2. AllBound
      BY <1>1, <1>4, <2>1, <2>2 DEF AllBound, Settled
    <3>3. QED BY <1>3, <3>1, <3>2 DEF Leads
  <2>3. CASE ~(o.failure = "scoped" \/ (o.failure = "capacity" /\ known))
    <3> DEFINE t == [step |-> "health", of |-> o.failure]
    <3>1. H!Steps(o) = <<t>>
      BY <1>4, <2>3, Zenon DEF H!Steps
    <3>2. t \in AnyStep
      BY <2>1
    <3> HIDE DEF AnyStep
    <3>3. <<t>> \in Seq(AnyStep)
      BY <3>2
    <3>4. Leads(<<t>>)
      BY <1>1, <1>4, <2>1, <2>3 DEF Leads
    <3>5. QED BY <1>3, <3>1, <3>3, <3>4
  <2>4. QED BY <2>2, <2>3
<1>5. CASE o.failure = None /\ ~o.terminal
  <2>1. H!Steps(o) = <<>>
    BY <1>5, Zenon DEF H!Steps
  <2>2. AllBound
    BY <1>1, <1>5 DEF AllBound, Settled
  <2>3. QED BY <1>3, <2>1, <2>2 DEF Leads
<1>6. CASE o.failure = None /\ o.terminal
  <2>1. PICK d \in Seq(Ids) : d = o.ids
    BY <1>2 DEF Observed
  <2>2. PICK k \in Seq(Keys) : /\ k = H!SetToSeq(Keys)
                               /\ \A x \in Keys : \E i \in 1..Len(k) : k[i] = x
    BY KeysInOrder
  <2> DEFINE all == d \o k
             s == [i \in DOMAIN all |-> [step |-> "bind", of |-> all[i]]]
  <2>3. H!Steps(o) = s
    BY <1>6, <2>1, <2>2, Zenon DEF H!Steps
  <2>4. /\ DOMAIN all = 1..(Len(d) + Len(k)) /\ Len(d) \in Nat /\ Len(k) \in Nat
        /\ \A i \in 1..Len(d) : all[i] = d[i]
        /\ \A i \in 1..Len(k) : all[Len(d) + i] = k[i]
        /\ \A i \in 1..(Len(d) + Len(k)) : all[i] \in Ids \cup Keys
    OBVIOUS
  <2> HIDE DEF all
  <2>5. /\ DOMAIN s = 1..(Len(d) + Len(k))
        /\ \A i \in 1..(Len(d) + Len(k)) : s[i].of = all[i] /\ s[i] \in BindStep
                                           /\ s[i] \in AnyStep
    BY <2>4 DEF BindStep
  <2>6. s \in Seq(BindStep) /\ Len(s) = Len(d) + Len(k) /\ s \in Seq(AnyStep)
    <3> HIDE DEF AnyStep
    <3>1. s \in [1..(Len(d) + Len(k)) -> BindStep] /\ s \in [1..(Len(d) + Len(k)) -> AnyStep]
      BY <2>4, <2>5
    <3> HIDE DEF s
    <3>2. QED BY <2>4, <2>5, <3>1
  <2>7. \A x : (\E i \in 1..Len(s) : s[i].of = x)
               <=> (\E i \in 1..Len(d) : d[i] = x) \/ x \in Keys
    <3>1. ASSUME NEW x, NEW i \in 1..Len(s), s[i].of = x
          PROVE  (\E j \in 1..Len(d) : d[j] = x) \/ x \in Keys
      <4>1. all[i] = x /\ i \in 1..(Len(d) + Len(k))
        BY <2>5, <2>6, <3>1
      <4>2. CASE i <= Len(d)
        BY <2>4, <4>1, <4>2
      <4>3. CASE i > Len(d)
        <5>1. PICK j \in 1..Len(k) : i = Len(d) + j
          <6>1. i - Len(d) \in 1..Len(k) /\ i = Len(d) + (i - Len(d))
            BY <2>4, <4>1, <4>3
          <6>2. QED BY <6>1
        <5>2. k[j] = x /\ k[j] \in Keys
          BY <2>4, <4>1, <5>1
        <5>3. QED BY <5>2
      <4>4. QED BY <2>4, <4>1, <4>2, <4>3
    <3>2. ASSUME NEW x, NEW j \in 1..Len(d), d[j] = x
          PROVE  \E i \in 1..Len(s) : s[i].of = x
      <4>1. j \in 1..(Len(d) + Len(k)) /\ all[j] = x
        BY <2>4, <3>2
      <4>2. QED BY <2>5, <2>6, <4>1
    <3>3. ASSUME NEW x \in Keys
          PROVE  \E i \in 1..Len(s) : s[i].of = x
      <4>1. PICK j \in 1..Len(k) : k[j] = x
        BY <2>2
      <4>2. Len(d) + j \in 1..(Len(d) + Len(k)) /\ all[Len(d) + j] = x
        BY <2>4, <4>1
      <4>3. QED BY <2>5, <2>6, <4>2
    <3>4. QED BY <3>1, <3>2, <3>3
  <2> HIDE DEF s, AnyStep
  <2>8. \A x : x \in H!Due <=> x \in Tried \/ \E i \in 1..Len(s) : s[i].of = x
    BY <1>1, <1>6, <2>1, <2>7
  <2>9. Leads(s)
    BY <1>1, <1>6, <2>6, <2>8 DEF Leads
  <2>10. QED BY <1>3, <2>3, <2>6, <2>9
<1>7. QED BY <1>4, <1>5, <1>6

LEMMA BodyAlone ==
  ASSUME [LanesNext]_lanes, lane' = "http"
  PROVE  lane = "http" /\ (H!Next \/ UNCHANGED bodyVars)
BY DEF LanesNext, lanes

\* What is said and what it calls for does not change.
LEMMA SayingStays ==
  ASSUME body' = body
  PROVE  /\ H!Due' = H!Due /\ H!Failed' = H!Failed /\ H!LastFailure' = H!LastFailure
         /\ BodyTypeOK => BodyTypeOK'
BY DEF H!Due, H!Failed, H!LastFailure, H!Said, H!Legible, H!Says, BodyTypeOK

LEMMA BodyStart ==
  ASSUME H!Init
  PROVE  BodyTypeOK /\ polled = 0 /\ observer # None /\ Observing /\ binding = None
         /\ Tried \subseteq H!Due
<1>1. /\ body \in H!Bodies /\ polled = 0 /\ observer = H!Fresh /\ binding = None
      /\ client = "reading" /\ Tried = {} /\ health = <<>>
  BY DEF H!Init, Tried
<1>2. /\ body.frames \in Seq(Utterance) /\ body.rest \in Utterance
      /\ body.kind = "json" => \A i \in DOMAIN body.frames : body.frames[i] = None
  <2>1. /\ body.frames \in H!SeqOf(Utterance, MaxFrames) /\ body.rest \in Utterance
        /\ body.kind = "json" => \A i \in DOMAIN body.frames : body.frames[i] = None
    BY <1>1 DEF H!Bodies, H!Body, Utterance
  <2>2. PICK m \in 0..MaxFrames : body.frames \in [1..m -> Utterance]
    BY <2>1 DEF H!SeqOf
  <2>3. m \in Nat
    BY <2>2
  <2>4. body.frames \in Seq(Utterance)
    BY <2>2, <2>3
  <2>5. QED BY <2>1, <2>4
<1>3. DOMAIN body.frames = 1..Len(body.frames) /\ Len(body.frames) \in Nat
  BY <1>2
<1>4. BodyTypeOK
  BY <1>2, <1>3 DEF BodyTypeOK
<1>5. /\ H!Fresh \in Observed /\ H!Fresh.ids = <<>> /\ H!Fresh.failure = None
      /\ H!Fresh.terminal = FALSE
  BY DEF H!Fresh, Observed
<1>6. H!Fresh # None
  BY <1>5, BodyAssumption DEF Observed
<1>7. Summary(H!Fresh, 0)
  BY <1>5 DEF Summary
<1>8. QED BY <1>1, <1>3, <1>4, <1>6, <1>7 DEF Observing

\* Nothing that is bound or recorded has changed, and no binding has begun.
BodyKept ==
  /\ body' = body /\ polled' = polled /\ observer' = observer
  /\ Tried' = Tried /\ health' = health /\ known' = known

LEMMA KeptBound ==
  ASSUME BodyInv, lane = "http", lane' = "http", BodyKept,
         \/ binding' = binding /\ client' = client
         \/ binding' = None /\ client' \in {"error", "left"}
  PROVE  BodyInv'
<1>1. /\ H!Due' = H!Due /\ H!Failed' = H!Failed /\ H!LastFailure' = H!LastFailure
      /\ BodyTypeOK => BodyTypeOK'
  BY SayingStays DEF BodyKept
<1>2. BodyTypeOK' /\ polled' \in Nat /\ (Tried \subseteq H!Due)'
  BY <1>1 DEF BodyInv, BodyKept
<1>3. observer' # None => Observing'
  <2>1. SUFFICES ASSUME observer # None PROVE Observing'
    BY DEF BodyKept
  <2>2. Observing
    BY <2>1 DEF BodyInv
  <2>3. Summary(observer, polled)'
    BY <2>2, <1>1 DEF Observing, BodyKept, Summary, At
  <2>4. QED BY <2>2, <2>3 DEF Observing, BodyKept
<1>4. AllBound => AllBound'
  BY <1>1 DEF AllBound, Settled, BodyKept
<1>5. binding' # None => observer' = None /\ client' = "reading" /\ Leads(binding)'
  <2>1. SUFFICES ASSUME binding # None, binding' = binding /\ client' = client
                 PROVE  observer' = None /\ client' = "reading" /\ Leads(binding)'
    OBVIOUS
  <2>2. observer = None /\ client = "reading" /\ Leads(binding)
    BY <2>1 DEF BodyInv
  <2>3. QED BY <1>1, <1>4, <2>1, <2>2 DEF Leads, BodyKept
<1>6. observer' = None /\ binding' = None /\ client' \in {"reading", "ended"} => AllBound'
  BY <1>4 DEF BodyInv, BodyKept
<1>7. QED BY <1>2, <1>3, <1>5, <1>6 DEF BodyInv

\* The inner body's frames and end, as they are taken.
LEMMA FrameBound ==
  ASSUME BodyInv, lane = "http", lane' = "http", H!PollFrame
  PROVE  BodyInv'
<1> DEFINE n == polled + 1
           L == Len(body.frames)
<1>1. /\ client = "reading" /\ binding = None /\ n <= L /\ polled' = n
      /\ body' = body /\ Tried' = Tried /\ health' = health /\ known' = known
  BY DEF H!PollFrame, H!Polls, Tried
<1>2. BodyTypeOK /\ polled \in Nat /\ L \in Nat /\ Tried \subseteq H!Due
  BY DEF BodyInv, BodyTypeOK
<1>3. /\ H!Due' = H!Due /\ H!Failed' = H!Failed /\ H!LastFailure' = H!LastFailure
      /\ BodyTypeOK'
  BY <1>1, <1>2, SayingStays
<1>4. AllBound => AllBound'
  BY <1>1, <1>3 DEF AllBound, Settled
<1>5. CASE observer = None
  <2>1. observer' = None /\ binding' = binding
    BY <1>5 DEF H!PollFrame, H!Observe
  <2>2. AllBound
    BY <1>1, <1>5 DEF BodyInv
  <2>3. QED BY <1>1, <1>2, <1>3, <1>4, <2>1, <2>2 DEF BodyInv
<1>6. CASE observer # None
  <2> DEFINE o == H!Observe(observer, n)
  <2>1. Observing
    BY <1>6 DEF BodyInv
  <2>2. Summary(o, n)
    <3>1. o = H!Seen(observer, At(n))
      <4>1. At(n) = body.frames[n]
        BY <1>1 DEF At
      <4>2. CASE body.kind = "json"
        <5>1. body.frames[n] = None
          BY <1>1, <1>2, <4>2 DEF BodyTypeOK
        <5>2. o = observer
          BY <4>2, Zenon DEF H!Observe
        <5>3. H!Seen(observer, None) = observer
          BY SeenNothing
        <5>4. QED BY <4>1, <5>1, <5>2, <5>3, Zenon
      <4>3. CASE body.kind # "json"
        BY <1>6, <4>1, <4>3, Zenon DEF H!Observe
      <4>4. QED BY <4>2, <4>3
    <3>2. Summary(observer, polled) /\ polled \in 0..Len(body.frames)
      BY <2>1, <1>2 DEF Observing
    <3>3. QED BY <1>2, <3>1, <3>2, SummaryGrows, Zenon
  <2>3. o # None
    BY <2>2, BodyAssumption DEF Summary, Observed
  <2> HIDE DEF o
  <2>4. CASE H!Terminal(n)
    <3>1. observer' = None /\ binding' = H!Steps(H!Finished(o)) /\ client' = client
      BY <1>6, <2>4, Zenon DEF H!PollFrame, o
    <3>2. n = L
      BY <1>1, <1>2, <2>4 DEF H!Terminal, H!IsTrailers, H!InnerEnded
    <3>3. H!Finished(o) = H!Seen(o, At(L + 1))
      BY <1>2 DEF H!Finished, At
    <3>4. Summary(H!Finished(o), L + 1)
      BY <1>2, <2>2, <3>2, <3>3, SummaryGrows
    <3>5. H!Steps(H!Finished(o)) # None /\ Leads(H!Steps(H!Finished(o)))
      BY <1>2, <2>1, <3>4, StepsAre DEF Observing
    <3>6. Leads(binding)'
      BY <1>1, <1>3, <1>4, <3>1, <3>5 DEF Leads
    <3>7. QED BY <1>1, <1>2, <1>3, <3>1, <3>5, <3>6 DEF BodyInv
  <2>5. CASE ~H!Terminal(n)
    <3>1. observer' = o /\ binding' = binding /\ client' = H!AfterFrame(n, o)
      BY <2>5, Zenon DEF H!PollFrame, o
    <3>2. client' = "reading"
      BY <2>5, <3>1 DEF H!AfterFrame, H!Terminal, H!IsEndStream
    <3>3. Summary(observer, polled)'
      <4>1. body' = body /\ polled' = n /\ observer' = o
        BY <1>1, <3>1
      <4>2. QED BY <2>2, <4>1 DEF Summary, At
    <3>4. Observing'
      BY <1>1, <2>1, <3>1, <3>2, <3>3 DEF Observing
    <3>5. QED BY <1>1, <1>2, <1>3, <2>3, <3>1, <3>2, <3>4 DEF BodyInv
  <2>6. QED BY <2>4, <2>5
<1>7. QED BY <1>5, <1>6

LEMMA EndBound ==
  ASSUME BodyInv, lane = "http", lane' = "http", H!PollEnd
  PROVE  BodyInv'
<1> DEFINE L == Len(body.frames)
<1>1. /\ client = "reading" /\ binding = None /\ polled = L /\ polled' = polled + 1
      /\ body' = body /\ Tried' = Tried /\ health' = health /\ known' = known
  BY DEF H!PollEnd, H!Polls, Tried
<1>2. BodyTypeOK /\ polled \in Nat /\ L \in Nat /\ Tried \subseteq H!Due
  BY DEF BodyInv, BodyTypeOK
<1>3. /\ H!Due' = H!Due /\ H!Failed' = H!Failed /\ H!LastFailure' = H!LastFailure
      /\ BodyTypeOK'
  BY <1>1, <1>2, SayingStays
<1>4. AllBound => AllBound'
  BY <1>1, <1>3 DEF AllBound, Settled
<1>5. CASE observer = None
  <2>1. observer' = None /\ binding' = binding
    BY <1>5 DEF H!PollEnd
  <2>2. AllBound
    BY <1>1, <1>5 DEF BodyInv
  <2>3. QED BY <1>1, <1>2, <1>3, <1>4, <2>1, <2>2 DEF BodyInv
<1>6. CASE observer # None
  <2>1. Observing
    BY <1>6 DEF BodyInv
  <2>2. observer' = None /\ binding' = H!Steps(H!Finished(observer)) /\ client' = client
    BY <1>6, Zenon DEF H!PollEnd
  <2>3. H!Finished(observer) = H!Seen(observer, At(L + 1))
    BY <1>2 DEF H!Finished, At
  <2>4. Summary(H!Finished(observer), L + 1)
    <3>1. Summary(observer, L) /\ L \in 0..L
      BY <1>1, <1>2, <2>1 DEF Observing
    <3>2. QED BY <1>2, <2>3, <3>1, SummaryGrows
  <2>5. H!Steps(H!Finished(observer)) # None /\ Leads(H!Steps(H!Finished(observer)))
    BY <1>2, <2>1, <2>4, StepsAre DEF Observing
  <2>6. Leads(binding)'
    BY <1>1, <1>3, <1>4, <2>2, <2>5 DEF Leads
  <2>7. QED BY <1>1, <1>2, <1>3, <2>2, <2>5, <2>6 DEF BodyInv
<1>7. QED BY <1>5, <1>6

\* One step of the binding, or its end.
LEMMA BindingBound ==
  ASSUME BodyInv, lane = "http", lane' = "http", H!PollBinding
  PROVE  BodyInv'
<1>1. /\ client = "reading" /\ binding # None /\ body' = body /\ polled' = polled
      /\ observer' = observer
  BY DEF H!PollBinding
<1>2. BodyTypeOK /\ polled \in Nat /\ Tried \subseteq H!Due /\ observer = None
      /\ Leads(binding)
  BY <1>1 DEF BodyInv
<1>3. /\ H!Due' = H!Due /\ H!Failed' = H!Failed /\ H!LastFailure' = H!LastFailure
      /\ BodyTypeOK'
  BY <1>1, <1>2, SayingStays
<1>4. CASE binding = <<>>
  <2>1. /\ binding' = None /\ Tried' = Tried /\ health' = health /\ known' = known
    BY <1>4 DEF H!PollBinding, Tried
  <2>2. AllBound
    <3>1. CASE binding = <<[step |-> "health", of |-> H!LastFailure]>>
      BY <1>4, <3>1
    <3>2. CASE ~H!Failed /\ \A x : x \in H!Due <=> x \in Tried \/ \E i \in 1..Len(binding) : binding[i].of = x
      <4>1. \A x : x \in H!Due <=> x \in Tried
        BY <1>4, <3>2
      <4>2. H!Due = Tried
        BY <4>1
      <4>3. QED BY <3>2, <4>2 DEF AllBound, Settled
    <3>3. QED BY <1>2, <3>1, <3>2 DEF Leads
  <2>3. AllBound'
    BY <1>3, <2>1, <2>2 DEF AllBound, Settled
  <2>4. QED BY <1>1, <1>2, <1>3, <2>1, <2>3 DEF BodyInv
<1>5. CASE binding # <<>>
  <2>1. /\ binding' = Tail(binding) /\ client' = client
        /\ IF Head(binding).step = "bind"
           THEN Tried' = Tried \cup {Head(binding).of} /\ health' = health /\ known' = known
           ELSE /\ health' = Append(health, Head(binding).of) /\ Tried' = Tried
    BY <1>5 DEF H!PollBinding, Tried
  <2>2. CASE /\ H!Failed /\ Tried = {} /\ health = <<>> /\ H!LastFailure # "scoped"
             /\ binding = <<[step |-> "health", of |-> H!LastFailure]>>
    <3>1. Head(binding) = [step |-> "health", of |-> H!LastFailure] /\ Tail(binding) = <<>>
      BY <2>2
    <3>2. binding' = <<>> /\ Tried' = {} /\ health' = <<H!LastFailure>>
      BY <2>1, <2>2, <3>1
    <3>3. H!Due = {}
      BY <2>2 DEF H!Due
    <3>4. health' # <<>>
      BY <3>2
    <3>5. AllBound'
      BY <1>3, <2>2, <3>2, <3>3, <3>4 DEF AllBound, Settled
    <3>6. Leads(binding)'
      BY <3>2, <3>5 DEF Leads
    <3>7. QED BY <1>1, <1>2, <1>3, <2>1, <3>2, <3>5, <3>6 DEF BodyInv
  <2>3. CASE /\ ~H!Failed /\ binding \in Seq(BindStep)
             /\ \A x : x \in H!Due
                  <=> x \in Tried \/ \E i \in 1..Len(binding) : binding[i].of = x
    <3>1. PICK b \in Seq(BindStep) : b = binding /\ Len(b) > 0
      <4>1. Len(binding) > 0
        BY <1>5, <2>3
      <4>2. QED BY <2>3, <4>1
    <3>2. /\ Head(b) = b[1] /\ b[1] \in BindStep
          /\ Tail(b) \in Seq(BindStep) /\ Len(Tail(b)) = Len(b) - 1 /\ Len(b) \in Nat
          /\ \A i \in 1..Len(b) - 1 : Tail(b)[i] = b[i + 1]
      BY <3>1
    <3>3. Head(b).step = "bind"
      BY <3>2 DEF BindStep
    <3>4. Tried' = Tried \cup {b[1].of} /\ binding' = Tail(b)
      BY <2>1, <3>1, <3>2, <3>3
    <3>5. \A x : x \in H!Due
                   <=> x \in Tried' \/ \E i \in 1..Len(Tail(b)) : Tail(b)[i].of = x
      <4>1. \A x : (\E i \in 1..Len(b) : b[i].of = x)
                   <=> x = b[1].of \/ \E i \in 1..Len(Tail(b)) : Tail(b)[i].of = x
        <5>1. ASSUME NEW x, NEW i \in 1..Len(b), b[i].of = x, x # b[1].of
              PROVE  \E j \in 1..Len(Tail(b)) : Tail(b)[j].of = x
          <6>1. i - 1 \in 1..Len(b) - 1 /\ (i - 1) + 1 = i
            BY <3>2, <5>1
          <6>2. Tail(b)[i - 1] = b[i]
            BY <3>2, <6>1
          <6>3. QED BY <3>2, <5>1, <6>1, <6>2
        <5>2. ASSUME NEW x, NEW j \in 1..Len(Tail(b)), Tail(b)[j].of = x
              PROVE  \E i \in 1..Len(b) : b[i].of = x
          <6>1. j + 1 \in 1..Len(b) /\ Tail(b)[j] = b[j + 1]
            BY <3>2
          <6>2. QED BY <5>2, <6>1
        <5>3. 1 \in 1..Len(b)
          BY <3>1, <3>2
        <5>4. QED BY <5>1, <5>2, <5>3
      <4>2. QED BY <2>3, <3>1, <3>4, <4>1
    <3>6. Leads(binding)'
      BY <1>3, <2>3, <3>2, <3>4, <3>5 DEF Leads
    <3>7. (Tried \subseteq H!Due)'
      BY <1>3, <3>5
    <3>8. binding' # None
      <4> DEFINE AnyStep == [step : {"health", "bind"}, of : H!Failures \cup Ids \cup Keys]
      <4>1. \A t \in BindStep : t \in AnyStep
        BY DEF BindStep
      <4>2. None \notin Seq(AnyStep)
        BY BodyAssumption
      <4> HIDE DEF AnyStep
      <4>3. PICK t \in Seq(BindStep) : t = binding'
        BY <3>2, <3>4
      <4>4. Len(t) \in Nat /\ t \in [1..Len(t) -> AnyStep]
        BY <4>1
      <4>5. t \in Seq(AnyStep)
        BY <4>4
      <4>6. QED BY <4>2, <4>3, <4>5
    <3>9. QED BY <1>1, <1>2, <1>3, <2>1, <3>6, <3>7, <3>8 DEF BodyInv
  <2>4. QED BY <1>2, <1>5, <2>2, <2>3 DEF Leads
<1>6. QED BY <1>4, <1>5

LEMMA BodyStep ==
  ASSUME BodyInv, [LanesNext]_lanes
  PROVE  BodyInv'
<1>1. SUFFICES ASSUME lane' = "http" PROVE BodyInv'
  BY DEF BodyInv
<1>2. lane = "http" /\ (H!Next \/ UNCHANGED bodyVars)
  BY <1>1, BodyAlone
<1>3. CASE UNCHANGED bodyVars \/ H!Arrive \/ H!Break \/ H!Silence
  <2>1. BodyKept /\ binding' = binding /\ client' = client
    BY <1>3 DEF bodyVars, H!Arrive, H!Break, H!Silence, BodyKept, Tried
  <2>2. QED BY <1>1, <1>2, <2>1, KeptBound
<1>4. CASE H!Leave \/ H!PollIdle
  <2>1. BodyKept /\ binding' = None /\ client' \in {"error", "left"}
    BY <1>4 DEF H!Leave, H!PollIdle, BodyKept, Tried
  <2>2. QED BY <1>1, <1>2, <2>1, KeptBound
<1>5. CASE H!PollBroken
  <2>1. BodyKept /\ binding' = None /\ client' \in {"error", "left"}
    BY <1>5 DEF H!PollBroken, H!Polls, BodyKept, Tried
  <2>2. QED BY <1>1, <1>2, <2>1, KeptBound
<1>6. CASE H!PollBinding
  BY <1>1, <1>2, <1>6, BindingBound
<1>7. CASE H!PollFrame
  BY <1>1, <1>2, <1>7, FrameBound
<1>8. CASE H!PollEnd
  BY <1>1, <1>2, <1>8, EndBound
<1>9. QED BY <1>2, <1>3, <1>4, <1>5, <1>6, <1>7, <1>8, Zenon DEF H!Next

(***************************************************************************)
(* When a client has seen an answer to its end, every response of it was   *)
(* bound, or refused by the store, before; a failed answer, or one without *)
(* a terminal, binds nothing, and its last failure is recorded once        *)
(* (proxy/mod.rs, LeasedIncoming and HttpResponseObserver): for bodies of  *)
(* any length.                                                             *)
(***************************************************************************)
THEOREM BodyEndsBoundAlways == LanesSpec => []BodyEndsBound
<1>1. LanesInit => BodyInv
  <2>1. SUFFICES ASSUME H!Init PROVE BodyInv
    BY DEF LanesInit
  <2>2. QED BY <2>1, BodyStart DEF BodyInv
<1>2. BodyInv /\ [LanesNext]_lanes => BodyInv'
  BY BodyStep
<1>3. BodyInv => BodyEndsBound
  <2>1. SUFFICES ASSUME BodyInv, lane = "http"
                 PROVE  /\ Tried \subseteq H!Due
                        /\ client = "ended" => Tried = H!Due /\ Settled
    BY DEF BodyEndsBound, H!BodyEndsBound, Settled, Tried
  <2>2. client = "ended" => observer = None /\ binding = None
    BY <2>1 DEF BodyInv, Observing
  <2>3. QED BY <2>1, <2>2 DEF BodyInv, AllBound
<1>4. QED BY <1>1, <1>2, <1>3, PTL DEF LanesSpec
=============================================================================
