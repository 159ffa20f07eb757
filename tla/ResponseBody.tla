---------------------------- MODULE ResponseBody ----------------------------
(***************************************************************************)
(* The body of an HTTP answer on its way to the client (proxy/mod.rs,      *)
(* LeasedIncoming and HttpResponseObserver).  The body is observed while   *)
(* it streams; only when it is over is it known whether its response ids   *)
(* and the request's soft keys may be bound to the account, so the last    *)
(* frame, or the end, is held back until they are.  hyper, which polls the *)
(* body, ends the answer without another poll once the body says that it   *)
(* is over, and always after trailers.  A body that stands still too long  *)
(* is broken off; the client may leave at any time.                        *)
(*                                                                         *)
(* A frame brings at most one event; the last event of a body may be seen  *)
(* only when the decoder is told of the end, and the one event of a JSON   *)
(* body always is.  A body that is neither, or longer than a JSON body may *)
(* be, is a JSON body with no event in it.                                 *)
(***************************************************************************)
EXTENDS Naturals, Sequences, SequencesExt, FiniteSetsExt

CONSTANTS
  Ids,        \* response ids
  Keys,       \* soft keys of the request, bound with them
  None,
  MaxFrames   \* bound on the frames of a body

\* An event has the id of a response, or none; it may be the terminal of the
\* response, a failure ("scoped": a quota of one model only), or beyond the
\* decoder, which then skips it.
Event ==
  [id : Ids, kind : {"progress"}] \cup [id : Ids \cup {None}, kind : {"terminal"}]
    \cup [id : {None}, kind : {"quota", "scoped", "capacity", "garbled"}]

Body ==
  [kind : {"sse", "json"}, frames : SeqOf(Event \cup {None}, MaxFrames), rest : Event \cup {None},
   framing : {"length", "chunked", "trailers"}]

Bodies ==
  {b \in Body :
     /\ b.kind = "json" => \A i \in DOMAIN b.frames : b.frames[i] = None
     /\ b.framing = "trailers" => b.frames # <<>> /\ Last(b.frames) = None}

VARIABLES
  body,      \* what upstream sends
  arrived,   \* its frames that have arrived; one more when its end has
  broken,    \* the upstream connection broke
  polled,    \* frames (and end) taken from the inner body
  idle,      \* the timer of the body has run out
  observer,  \* what has been observed, None when it is finished
  binding,   \* the steps left of finish_binding, None when it is not under way
  held,      \* what waits for it: "frame", "end", None
  client,    \* "reading", "ended" (the whole body), "error", "left"
  known,     \* CapacityObservation: the capacity failure is counted already
  bound,     \* keys and ids bound to the account
  unbound,   \* keys and ids that the store refused to bind
  health     \* failures recorded of the account, in order

bodyVars == <<body, arrived, broken, polled, idle, observer, binding, held,
              client, known, bound, unbound, health>>

Failures == {"quota", "scoped", "capacity"}

Fresh == [ids |-> <<>>, failure |-> None, terminal |-> FALSE]

Init ==
  /\ body \in Bodies
  /\ arrived = 0 /\ broken = FALSE /\ polled = 0 /\ idle = FALSE
  /\ observer = Fresh /\ binding = None /\ held = None
  /\ client = "reading"
  \* A rejection's body was inspected before; it is the same body.
  /\ known \in BOOLEAN
  /\ known => \E e \in ToSet(Append(body.frames, body.rest)) \ {None} : e.kind = "capacity"
  /\ bound = {} /\ unbound = {} /\ health = <<>>

----------------------------------------------------------------------------
(* What is observed.                                                       *)

\* observe_events, one event: a failure drops the ids seen before it.
Seen(o, e) ==
  IF e = None \/ e.kind = "garbled" THEN o
  ELSE IF e.kind \in Failures
       THEN [o EXCEPT !.failure = e.kind, !.ids = <<>>]
  ELSE [o EXCEPT !.ids = IF e.id = None \/ Contains(@, e.id) THEN @ ELSE Append(@, e.id),
                 !.terminal = @ \/ e.kind = "terminal"]

\* observe: the bytes of a JSON body are only kept.
Observe(o, n) ==
  IF o = None \/ body.kind = "json" THEN o ELSE Seen(o, body.frames[n])

\* finish
Finished(o) == Seen(o, body.rest)

\* finish_binding: the steps it takes.  A failure binds nothing and, but for a
\* scoped one, is recorded; a body without a terminal binds nothing.
Steps(o) ==
  IF o.failure # None
  THEN IF o.failure = "scoped" \/ (o.failure = "capacity" /\ known) THEN <<>>
       ELSE <<[step |-> "health", of |-> o.failure]>>
  ELSE IF ~o.terminal THEN <<>>
  ELSE LET all == o.ids \o SetToSeq(Keys)
       IN  [i \in DOMAIN all |-> [step |-> "bind", of |-> all[i]]]

----------------------------------------------------------------------------
(* Upstream, the timer and the client.                                     *)

Over == arrived > Len(body.frames)

Arrive ==
  /\ ~broken /\ ~Over
  /\ arrived' = arrived + 1
  /\ UNCHANGED <<body, broken, polled, idle, observer, binding, held, client,
                 known, bound, unbound, health>>

Break ==
  /\ ~broken /\ ~Over
  /\ broken' = TRUE
  /\ UNCHANGED <<body, arrived, polled, idle, observer, binding, held, client,
                 known, bound, unbound, health>>

\* The timer runs from one frame taken to the next, whether or not somebody
\* polls, and while a binding is under way.
Silence ==
  /\ client = "reading" /\ ~idle
  /\ idle' = TRUE
  /\ UNCHANGED <<body, arrived, broken, polled, observer, binding, held, client,
                 known, bound, unbound, health>>

\* Dropping the body drops a binding that is under way.
Leave ==
  /\ client = "reading"
  /\ client' = "left" /\ binding' = None
  /\ UNCHANGED <<body, arrived, broken, polled, idle, observer, held, known,
                 bound, unbound, health>>

----------------------------------------------------------------------------
(* poll_frame, one turn of its loop per action.                            *)

\* The inner body says it is over: the length is reached, or the end was read.
InnerEnded(n) ==
  \/ body.framing = "length" /\ n = Len(body.frames)
  \/ n > Len(body.frames)

IsTrailers(n) == body.framing = "trailers" /\ n = Len(body.frames)

\* is_end_stream, when nothing is pending.
IsEndStream(n, o) == InnerEnded(n) /\ o = None

\* What hyper does after a frame.
AfterFrame(n, o) ==
  IF IsTrailers(n) \/ IsEndStream(n, o) THEN "ended" ELSE "reading"

\* Mutant: trailers are passed on like any frame.
TerminalByLength(n) == InnerEnded(n)

\* The frame with which the body is known to be over.
Terminal(n) == IsTrailers(n) \/ InnerEnded(n)

PollIdle ==
  /\ client = "reading" /\ idle
  /\ client' = "error" /\ binding' = None
  /\ UNCHANGED <<body, arrived, broken, polled, idle, observer, held, known,
                 bound, unbound, health>>

\* Whether router.bind could store the binding is its answer, which nobody
\* looks at.
PollBinding ==
  /\ client = "reading" /\ ~idle /\ binding # None
  /\ IF binding # <<>>
     THEN /\ binding' = Tail(binding)
          /\ IF Head(binding).step = "bind"
             THEN /\ \/ bound' = bound \cup {Head(binding).of} /\ UNCHANGED unbound
                     \/ unbound' = unbound \cup {Head(binding).of} /\ UNCHANGED bound
                  /\ UNCHANGED <<health, known>>
             ELSE /\ health' = Append(health, Head(binding).of)
                  /\ known' = (known \/ Head(binding).of = "capacity")
                  /\ UNCHANGED <<bound, unbound>>
          /\ UNCHANGED <<held, client>>
     ELSE /\ binding' = None /\ held' = None
          /\ client' = IF held = "end" THEN "ended" ELSE AfterFrame(polled, observer)
          /\ UNCHANGED <<bound, unbound, health, known>>
  /\ UNCHANGED <<body, arrived, broken, polled, idle, observer>>

Polls == client = "reading" /\ ~idle /\ binding = None

PollBroken ==
  /\ Polls /\ broken /\ polled = arrived
  /\ client' = "error"
  /\ UNCHANGED <<body, arrived, broken, polled, idle, observer, binding, held,
                 known, bound, unbound, health>>

PollFrame ==
  LET n == polled + 1
      o == Observe(observer, n)
  IN  /\ Polls /\ polled < arrived /\ n <= Len(body.frames)
      /\ polled' = n
      /\ idle' = FALSE
      /\ IF Terminal(n) /\ observer # None
         THEN /\ observer' = None
              /\ binding' = Steps(Finished(o))
              /\ held' = "frame"
              /\ UNCHANGED client
         ELSE /\ observer' = o
              /\ client' = AfterFrame(n, o)
              /\ UNCHANGED <<binding, held>>
      /\ UNCHANGED <<body, arrived, broken, known, bound, unbound, health>>

PollEnd ==
  /\ Polls /\ polled < arrived /\ polled = Len(body.frames)
  /\ polled' = polled + 1
  /\ IF observer # None
     THEN /\ observer' = None
          /\ binding' = Steps(Finished(observer))
          /\ held' = "end"
          /\ UNCHANGED client
     ELSE client' = "ended" /\ UNCHANGED <<observer, binding, held>>
  /\ UNCHANGED <<body, arrived, broken, idle, known, bound, unbound, health>>

Next == Arrive \/ Break \/ Silence \/ Leave \/ PollIdle \/ PollBinding
        \/ PollBroken \/ PollFrame \/ PollEnd

----------------------------------------------------------------------------
(* Properties.                                                             *)

\* What the body, as far as it can be decoded, says as a whole, and where.
Said == Append(body.frames, body.rest)
Legible == {i \in DOMAIN Said : IF Said[i] = None THEN FALSE ELSE Said[i].kind # "garbled"}
Says(kinds) == {i \in Legible : Said[i].kind \in kinds}
Failed == Says(Failures) # {}
Due ==
  IF Failed \/ Says({"terminal"}) = {} THEN {}
  ELSE ({Said[i].id : i \in Legible} \ {None}) \cup Keys
LastFailure == Said[Max(Says(Failures))].kind

\* When a client has seen an answer to its end, every response of it was bound
\* before, so that it can continue from any, but for those that the store
\* refused; and a failure found late in a body, or a body without a terminal,
\* never binds any, and is recorded once.
BodyEndsBound ==
  /\ bound \cup unbound \subseteq Due
  /\ client = "ended" => bound \cup unbound = Due
  /\ client = "ended" /\ Failed =>
       IF health = <<>>
       THEN LastFailure = "scoped" \/ (LastFailure = "capacity" /\ known)
       ELSE health = <<LastFailure>> /\ LastFailure # "scoped"
=============================================================================
