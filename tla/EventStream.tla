---------------------------- MODULE EventStream ----------------------------
(***************************************************************************)
(* The decoder of a Responses event stream (src/proxy/sse.rs,              *)
(* SseDecoder), fed with chunks that the network cuts where it likes.      *)
(*                                                                         *)
(* Bytes: "L" and "C" are line feed and carriage return, "D" and "T" stand *)
(* for a whole data field, of an ordinary and of a terminal event; a line  *)
(* with anything else in it is a comment.                                  *)
(***************************************************************************)
EXTENDS Naturals, Sequences, SequencesExt

CONSTANTS
  MaxEvent,       \* max_event_bytes
  MaxBytes,       \* bound: length of a stream
  MaxChunk        \* bound: length of a chunk

VARIABLES
  decoder,        \* buffer, previous_lf (0: none), terminal
  shown,          \* events returned so far
  error,          \* what a push or the finish failed with
  fed,            \* the stream so far
  ended           \* finish was called

vars == <<decoder, shown, error, fed, ended>>

Bytes == {"D", "T", "C", "L"}

Fresh == [buffer |-> <<>>, lf |-> 0, terminal |-> FALSE]

Init ==
  /\ decoder = Fresh
  /\ shown = <<>> /\ error = "" /\ fed = <<>> /\ ended = FALSE

-----------------------------------------------------------------------------
(* A block of lines (decode_block).                                        *)

Stripped(line) == IF line # <<>> /\ Last(line) = "C" THEN Front(line) ELSE line

DataOf(line) == IF Stripped(line) \in {<<"D">>, <<"T">>} THEN Stripped(line) ELSE <<>>

\* The data fields of the lines that have ended, joined, and the line that
\* has not.
NoLines == [data |-> <<>>, line |-> <<>>]

Extended(lines, b) ==
  IF b = "L" THEN [data |-> lines.data \o DataOf(lines.line), line |-> <<>>]
  ELSE [lines EXCEPT !.line = Append(@, b)]

Lines(block) ==
  LET upTo[n \in 0..Len(block)] ==
        IF n = 0 THEN NoLines ELSE Extended(upTo[n - 1], block[n])
  IN  upTo[Len(block)]

Data(block) == Lines(block).data \o DataOf(Lines(block).line)

\* More than one field in a block is no JSON.
Decoded(data) ==
  [events |-> IF Len(data) = 1 THEN data ELSE <<>>,
   error |-> IF Len(data) > 1 THEN "invalid" ELSE ""]

-----------------------------------------------------------------------------
(* push: a chunk's pieces, each up to a line feed or to its end.          *)

Between(d) == SubSeq(d.buffer, d.lf + 1, Len(d.buffer))

\* Mutant: the carriage return that an earlier chunk brought is not seen.
CompletesJoined(d, before) ==
  /\ d.lf > 0
  /\ \/ Between(d) = <<>> /\ before = <<>>
     \/ Between(d) = <<>> /\ before = <<"C">>

\* completes_boundary: a line feed, an optional carriage return that this
\* chunk or an earlier one brought, a line feed.
Completes(d, before) ==
  /\ d.lf > 0
  /\ \/ Between(d) = <<>> /\ before = <<>>
     \/ Between(d) = <<"C">> /\ before = <<>>
     \/ Between(d) = <<>> /\ before = <<"C">>

BlockEnd(d) == IF d.lf > 1 /\ d.buffer[d.lf - 1] = "C" THEN d.lf - 2 ELSE d.lf - 1

\* What a step of the push makes of the decoder, with the events so far.
Step(d, events, err) == [d |-> d, events |-> events, error |-> err]

\* extend_bounded: three bytes of a boundary may follow the largest event.
Extend(s, piece) ==
  IF Len(s.d.buffer) + Len(piece) > MaxEvent + 3 THEN [s EXCEPT !.error = "too large"]
  ELSE [s EXCEPT !.d.buffer = @ \o piece,
                 !.d.lf = IF Last(piece) = "L" THEN Len(s.d.buffer) + Len(piece) ELSE @]

Dispatch(s) ==
  IF BlockEnd(s.d) > MaxEvent THEN [s EXCEPT !.error = "too large"]
  ELSE LET e == Decoded(Data(SubSeq(s.d.buffer, 1, BlockEnd(s.d))))
       IN IF e.error # "" THEN [s EXCEPT !.error = e.error]
          ELSE Step([Fresh EXCEPT !.terminal = e.events = <<"T">>], s.events \o e.events, "")

Piece(s, piece) ==
  IF s.error # "" \/ s.d.terminal THEN s
  ELSE IF Last(piece) = "L" /\ Completes(s.d, Front(piece)) THEN Dispatch(s)
  ELSE Extend(s, piece)

\* What a push has come to, and the piece it has begun.
Begun(d) == [s |-> Step(d, <<>>, ""), piece |-> <<>>]

Feed(p, b) ==
  IF b = "L" THEN [s |-> Piece(p.s, Append(p.piece, b)), piece |-> <<>>]
  ELSE [p EXCEPT !.piece = Append(@, b)]

Pieces(d, chunk) ==
  LET upTo[n \in 0..Len(chunk)] ==
        IF n = 0 THEN Begun(d) ELSE Feed(upTo[n - 1], chunk[n])
  IN  upTo[Len(chunk)]

\* What remains of the chunk is a piece as well.
Flushed(p) == IF p.piece = <<>> THEN p.s ELSE Piece(p.s, p.piece)

\* An error loses the events that the same push had decoded.
Push(chunk) ==
  /\ ~ended /\ error = "" /\ ~decoder.terminal
  /\ Len(fed) + Len(chunk) <= MaxBytes
  /\ fed' = fed \o chunk
  /\ LET s == Flushed(Pieces(decoder, chunk))
     IN /\ decoder' = s.d
        /\ error' = s.error
        /\ shown' = IF s.error = "" THEN shown \o s.events ELSE shown
  /\ UNCHANGED ended

\* The rest is a block of its own; a stream without a terminal is premature.
Finish ==
  /\ ~ended /\ error = ""
  /\ ended' = TRUE
  /\ LET e == Decoded(Data(decoder.buffer))
         all == shown \o e.events
     IN IF decoder.terminal THEN UNCHANGED <<error, shown>>
        ELSE IF Len(decoder.buffer) > MaxEvent THEN error' = "too large" /\ UNCHANGED shown
        ELSE IF e.error # "" THEN error' = e.error /\ UNCHANGED shown
        ELSE IF e.events = <<"T">> THEN shown' = all /\ UNCHANGED error
        ELSE error' = "premature" /\ UNCHANGED shown
  /\ decoder' = [decoder EXCEPT !.buffer = <<>>, !.lf = 0]
  /\ UNCHANGED fed

Chunks == UNION {[1..n -> Bytes] : n \in 1..MaxChunk}

Next == Finish \/ \E chunk \in Chunks : Push(chunk)

Spec == Init /\ [][Next]_vars

-----------------------------------------------------------------------------
(* Properties.                                                             *)

(***************************************************************************)
(* The stream read one byte at a time, without buffer: a blank line        *)
(* dispatches the data of the lines before it.  `size` counts the bytes    *)
(* since the last dispatch, `line` is the current line, `last` the one     *)
(* before it, of which a dispatch forgives two carriage returns.           *)
(***************************************************************************)
Reader == [line |-> <<>>, last |-> <<>>, data |-> <<>>, size |-> 0, first |-> TRUE,
           end |-> 0, events |-> <<>>, error |-> ""]

Blank(r) == r.line \in {<<>>, <<"C">>}

Read(r, b) ==
  IF r.error # "" \/ (r.events # <<>> /\ Last(r.events) = "T") THEN r
  ELSE IF b = "L" /\ Blank(r) /\ ~r.first
  THEN LET e == Decoded(r.data \o DataOf(Stripped(r.last)))
       IN IF r.end > MaxEvent THEN [r EXCEPT !.error = "too large"]
          ELSE IF e.error # "" THEN [r EXCEPT !.error = e.error]
          ELSE [Reader EXCEPT !.events = r.events \o e.events]
  ELSE IF r.size = MaxEvent + 3 THEN [r EXCEPT !.error = "too large"]
  ELSE IF b = "L"
  THEN [r EXCEPT !.data = @ \o DataOf(r.last), !.last = r.line, !.line = <<>>,
                 !.size = @ + 1, !.first = FALSE,
                 !.end = r.size - Len(r.line) + Len(Stripped(r.line))]
  ELSE [r EXCEPT !.line = Append(@, b), !.size = @ + 1]

Reading(stream) ==
  LET upTo[n \in 0..Len(stream)] ==
        IF n = 0 THEN Reader ELSE Read(upTo[n - 1], stream[n])
  IN  upTo[Len(stream)]

Reference == Reading(fed)

(***************************************************************************)
(* How the network cuts the stream makes no difference: the events are     *)
(* those of the whole stream, and so is the error, except that an error    *)
(* may come before events of its own chunk.                                *)
(***************************************************************************)
ChunksDontMatter ==
  ~ended => /\ error = Reference.error
            /\ IF error = "" THEN shown = Reference.events
               ELSE IsPrefix(shown, Reference.events)
=============================================================================
