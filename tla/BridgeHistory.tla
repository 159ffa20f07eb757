--------------------------- MODULE BridgeHistory ---------------------------
(***************************************************************************)
(* How the HTTP bridge turns an incremental response.create, which names   *)
(* the response it continues, into one that upstream can answer without    *)
(* it: the cached input and output of that response come before the new    *)
(* items (src/proxy/mod.rs, materialize_http_bridge_continuation, with     *)
(* the linear search of has_suffix_prefix_overlap).                        *)
(*                                                                         *)
(* Some clients send all they have together with the anchor, or what they  *)
(* have kept of it.  Items are compared by value.                          *)
(***************************************************************************)
EXTENDS Naturals, Sequences, SequencesExt

CONSTANTS
  Items,      \* input and output items
  MaxItems,   \* HTTP_BRIDGE_MAX_MATERIALIZED_ITEMS
  MaxNew,     \* bound on the items of one response and on what a client adds
  Refused     \* no input: the create is answered with an error

VARIABLES
  history,    \* the input and the output of the cached continuation
  asked,      \* the items of the create that names it
  input       \* what they were materialized to

vars == <<history, asked, input>>

-----------------------------------------------------------------------------
(* The search: is there a nonempty suffix of the history that begins the   *)
(* incoming items?                                                         *)

\* Mutant: a mismatch starts over instead of at the next shorter match.
ShorterForgotten(failure, m) == 0

\* The next shorter match of a match of length m.
Shorter(failure, m) == failure[m]

\* The length of the match of `pattern` after reading x, given one of length
\* m before it; a match that is complete is shortened first.
Extended(pattern, failure, m, x) ==
  LET from[n \in 0..m] ==
        IF n < Len(pattern) /\ pattern[n + 1] = x THEN n + 1
        ELSE IF n = 0 THEN 0
        ELSE from[Shorter(failure, n)]
  IN from[m]

\* failure[n]: the longest proper prefix of the first n items that ends them.
Failure(pattern) ==
  LET table[i \in 1..Len(pattern)] ==
        IF i = 1 THEN <<0>>
        ELSE Append(table[i - 1],
                    Extended(pattern, table[i - 1], table[i - 1][i - 1], pattern[i]))
  IN table[Len(pattern)]

Overlaps(prefix, incoming) ==
  /\ prefix # <<>> /\ incoming # <<>>
  /\ LET failure == Failure(incoming)
         match[j \in 0..Len(prefix)] ==
           IF j = 0 THEN 0 ELSE Extended(incoming, failure, match[j - 1], prefix[j])
     IN match[Len(prefix)] > 0

-----------------------------------------------------------------------------
Long(items) == Len(items) > MaxItems

SharesStart(prefix, incoming) ==
  prefix # <<>> /\ incoming # <<>> /\ Head(prefix) = Head(incoming)

\* A create that has it all is taken as it is; one that may repeat a part of
\* the history is refused.
Materialized(prefix, incoming) ==
  IF Long(prefix) \/ Long(incoming) THEN Refused
  ELSE IF IsPrefix(prefix, incoming) THEN incoming
  ELSE IF \/ SharesStart(prefix, incoming) \/ Overlaps(prefix, incoming)
          \/ Long(prefix \o incoming)
       THEN Refused
  ELSE prefix \o incoming

New == BoundedSeq(Items, MaxNew)

\* A client sends what is new, or what is new after all that it has; whatever
\* else it could send is also something new.
Inputs == New \cup {history \o items : items \in New}

Init ==
  /\ history \in New
  /\ asked = <<>> /\ input = Materialized(history, <<>>)

Create(incoming) ==
  /\ asked' = incoming
  /\ input' = Materialized(history, incoming)
  /\ UNCHANGED history

\* The response completes, and its continuation takes the place of the last.
Complete(output) ==
  /\ input # Refused
  /\ history' = input \o output
  /\ asked' = <<>> /\ input' = Materialized(history', <<>>)

Next ==
  \/ \E incoming \in Inputs : Create(incoming)
  \/ \E output \in New : Complete(output)

Spec == Init /\ [][Next]_vars

TypeOK ==
  /\ history \in Seq(Items) /\ Len(history) <= MaxItems + MaxNew
  /\ asked \in Seq(Items)
  /\ input \in Seq(Items) \cup {Refused}

-----------------------------------------------------------------------------
\* A nonempty end of the history is where the incoming items begin, or both
\* begin with the same item.
Ambiguous ==
  \/ SharesStart(history, asked)
  \/ \E n \in 1..Len(history) :
       IsPrefix(SubSeq(history, n, Len(history)), asked)

\* Nothing of the conversation is repeated or dropped: the input is what was
\* sent, if that has the whole history, or the history and then what was sent,
\* if no part of that could be a repetition; and only what could be either, or
\* is too long, is refused.
NothingGuessed ==
  LET resend == IsPrefix(history, asked)
      all    == IF resend THEN asked ELSE history \o asked
      fits   == ~Long(history) /\ ~Long(all) /\ (resend \/ ~Ambiguous)
  IN input = IF fits THEN all ELSE Refused
=============================================================================
