------------------------------ MODULE Refusals ------------------------------
(***************************************************************************)
(* What a refusal says of the account it comes from: the inspection of a   *)
(* rejection's body before its status is interpreted (proxy/mod.rs,        *)
(* inspect_rejection_body, rejection_account_health) and the one           *)
(* classification of failures every lane uses (proxy/websocket_protocol.rs,*)
(* classify_failure, classify_terminal_event, classify_http_json_body).    *)
(* The inspection reads a prefix of bounded size, in a bounded number of   *)
(* frames and in bounded time; a body it did not see the end of is passed  *)
(* on and says nothing.                                                    *)
(*                                                                         *)
(* A text is what it stands for: every code of a quota is "quota", every   *)
(* message of one is too, and "" is an absent text.  A body is JSON; the   *)
(* events of a stream are classified by TerminalKind too, one by one.      *)
(***************************************************************************)
EXTENDS Naturals, FiniteSets

CONSTANTS
  Limit,      \* FILE_CREATE_RESPONSE_LIMIT, in bytes
  MaxFrames,  \* the frames of an inspection: 128 in the code
  MaxPieces,  \* bound on the pieces of evidence a body has
  Nothing

----------------------------------------------------------------------------
(* JSON values.                                                            *)

Empty ==
  [type |-> "", code |-> "", message |-> "", param |-> "", status |-> "",
   reason |-> "", error |-> Nothing, response |-> Nothing]

Codes == {"", "quota", "scoped", "capacity", "auth", "gone", "invalid", "transient"}
Messages == {"", "quota", "capacity", "not found", "invalid id"}
Numbers == {"", "429", "402", "401"}
Ends == {"failed", "incomplete", "completed", "cancelled"}

\* The ends that no failure of the account is read from.
Unfailed == {"completed", "cancelled"}

Fields == {"type", "code", "message", "param", "status", "reason"}
Weight(v) == Cardinality({f \in Fields : v[f] # ""})

Errors ==
  {x \in [type : Codes, code : Codes, message : Messages,
           param : {"", "previous_response_id"}, status : {""}, reason : {""},
           error : {Nothing}, response : {Nothing}] :
     Weight(x) <= MaxPieces}

Weighed(v) ==
  Weight(v) + (IF v.error = Nothing THEN 0 ELSE Weight(v.error))

\* incomplete_details has the reason of a response.
Responses ==
  {r \in [type : {""}, code : {""}, message : {""}, param : {""},
           status : Ends \cup {""}, reason : {"", "quota", "scoped", "capacity"},
           error : Errors \cup {Nothing}, response : {Nothing}] :
     Weighed(r) <= MaxPieces}

\* Values with these fields and no others.
With(type, code, status, error, response) ==
  [type : type, code : code, message : {""}, param : {""}, status : status,
   reason : {""}, error : error, response : response]

\* A response, one with an envelope around it, or an error with or without one.
Envelopes ==
  Responses
  \cup With({""}, {""}, Numbers, {Nothing}, Responses)
  \cup With({""}, {""}, Numbers, Errors, {Nothing})
  \cup With({"", "scoped", "error", "invalid"}, Codes, {""}, {Nothing}, {Nothing})

RefusalsAssumption ==
  /\ Limit \in Nat /\ MaxFrames \in Nat
  /\ Nothing \notin Errors \cup Responses
  /\ Nothing \notin With({"error"}, Codes, {""}, {Nothing}, Envelopes)
  /\ Nothing \notin {"quota", "scoped", "capacity", "transient"}

----------------------------------------------------------------------------
(* classify_failure and its carriers.                                      *)

\* The parts of an event that hold an error's code.
ErrorsOf(e) ==
  ({e, e.error} \cup (IF e.response = Nothing THEN {} ELSE {e.response.error})) \ {Nothing}

Scoped(e) ==
  \/ \E x \in ErrorsOf(e) : "scoped" \in {x.code, x.type}
  \/ e.response # Nothing /\ e.response.reason = "scoped"

ErrorOf(e) ==
  IF e.error # Nothing THEN e.error
  ELSE IF e.response # Nothing /\ e.response.error # Nothing THEN e.response.error
  ELSE IF e.type = "error" THEN e
  ELSE Nothing

CodeOf(x) == IF x.code # "" THEN x.code ELSE x.type

\* incomplete_failure_signal: what the details of a failed terminal show.
Signals(e) ==
  IF e.type \notin {"failed", "incomplete", "error"} \/ e.response = Nothing THEN {}
  ELSE {e.response.reason}
       \cup (IF e.response.error = Nothing THEN {}
             ELSE {e.response.error.message, CodeOf(e.response.error)})

\* envelope_numeric_status; "401" is 403 too, and every other number is "402",
\* which by itself says that something failed and not what.
Number(e, x) ==
  IF e.status \in Numbers \ {""} THEN e.status
  ELSE IF x.status \in Numbers THEN x.status ELSE ""

\* A code, a message that names the missing response, or the bare complaint.
NotFound(x) ==
  \/ CodeOf(x) = "gone"
  \/ x.param = "previous_response_id" /\ x.message = "not found"
  \/ CodeOf(x) = "invalid" /\ x.param = "" /\ x.message = "invalid id"

Kind(e) ==
  LET x == IF ErrorOf(e) = Nothing THEN Empty ELSE ErrorOf(e)
      number == Number(e, x)
      shown == {CodeOf(x), x.message} \cup Signals(e)
      evidence ==
        \/ ErrorOf(e) # Nothing \/ number # "" \/ Scoped(e)
        \/ Signals(e) \cap {"quota", "capacity"} # {}
  IN  CASE ~evidence -> "none"
        [] evidence /\ Scoped(e) -> "scoped"
        [] evidence /\ ~Scoped(e) ->
             IF NotFound(x) THEN "gone"
             ELSE IF "auth" \in {CodeOf(x), x.type} \/ number = "401" THEN "auth"
             ELSE IF "quota" \in shown THEN "quota"
             ELSE IF "capacity" \in shown THEN "capacity"
             ELSE IF number = "429" THEN "quota"
             ELSE IF CodeOf(x) = "transient" THEN "transient"
             ELSE "other"

\* classify_terminal_event: only a failed or incomplete terminal costs anything.
TerminalKind(e) ==
  IF Kind(e) \in {"quota", "scoped", "capacity"} /\ e.type \notin {"failed", "incomplete", "error"}
  THEN "other" ELSE Kind(e)

\* classify_http_json_body: the terminal that a response's status implies, or
\* the error of a body without one.
BodyKind(v) ==
  LET r == IF v.response # Nothing THEN v.response ELSE v
      terminal == [Empty EXCEPT !.type = r.status, !.status = v.status, !.response = r]
      refusal ==
        [Empty EXCEPT !.type = "error", !.code = v.code, !.status = v.status,
                      !.error = IF v.error # Nothing THEN v.error ELSE r.error,
                      !.response = r]
  IN  CASE v.type = "scoped" -> Kind(v)
        [] v.type \notin {"", "scoped"} -> TerminalKind(v)
        [] v.type = "" /\ r.status \in Ends -> TerminalKind(terminal)
        [] v.type = "" /\ r.status \notin Ends ->
             IF r.error # Nothing \/ v.error # Nothing \/ Scoped(v)
             THEN TerminalKind(refusal) ELSE "none"
----------------------------------------------------------------------------
(* The inspection, and what the dispatch makes of it.                      *)

VARIABLES
  status,     \* of the answer
  reading,    \* the inspection under way, Nothing before and after
  complete,   \* it saw the end of the body, or had no need to
  verdict     \* what was made of the body; Nothing before

refusalVars == <<status, reading, complete, verdict>>

Rejections == {"quota", "gateway", "client"}

\* A body of bytes, of which some have been inspected; the last frame of one that
\* has a length is known to be the last, the end of a chunked one comes by itself.
Readings ==
  [size : 0 .. (Limit + 1), framing : {"length", "chunked"},
   bytes : 0 .. Limit, frames : 0 .. MaxFrames]

\* Only a rejection is inspected, and of one in another encoding nothing.
Init ==
  /\ status \in Rejections \cup {"success", "unauthorized"}
  /\ reading \in {r \in Readings : r.bytes = 0 /\ r.frames = 0} \cup {Nothing}
  /\ status \notin Rejections => reading = Nothing
  /\ complete = (status \notin Rejections)
  /\ verdict = Nothing

Over(seen) ==
  /\ reading' = Nothing /\ complete' = seen
  /\ UNCHANGED <<status, verdict>>

Inspecting ==
  /\ reading # Nothing
  /\ reading.bytes <= Limit /\ reading.frames < MaxFrames

\* A frame of n bytes.
Frame(n) ==
  /\ Inspecting
  /\ n \in 0 .. (reading.size - reading.bytes)
  /\ LET bytes == reading.bytes + n IN
     IF bytes > Limit THEN Over(FALSE)
     ELSE IF reading.framing = "length" /\ bytes = reading.size THEN Over(TRUE)
     ELSE /\ reading' = [reading EXCEPT !.bytes = bytes, !.frames = @ + 1]
          /\ UNCHANGED <<status, complete, verdict>>

\* The end of a body of no bytes, or of a chunked one, with trailers or without.
End ==
  /\ Inspecting
  /\ reading.framing = "chunked" \/ reading.size = 0
  /\ reading.bytes = reading.size
  /\ Over(TRUE)

\* The read fails, the second is over, or there were too many frames.
Cut == reading # Nothing /\ Over(FALSE)

Permits(failure, seen) == seen /\ failure # "scoped"

\* rejection_account_health
Health(failure, seen) ==
  CASE failure = "capacity" \/ ~Permits(failure, seen) -> Nothing
    [] failure # "capacity" /\ Permits(failure, seen) ->
         CASE status = "quota" -> "quota"
           [] status = "gateway" -> "transient"
           [] OTHER -> Nothing

\* What is made of an answer whose whole body says v, of which an inspection
\* that was cut knows nothing.
Verdict(v) ==
  LET kind == IF complete /\ status \in Rejections THEN BodyKind(v) ELSE "none"
      failure == IF kind \in {"quota", "scoped", "capacity"} THEN kind ELSE Nothing
  IN  [body |-> v, failure |-> failure, health |-> Health(failure, complete)]

\* Every lane records the capacity failure and the health by this rule.
Judge ==
  /\ reading = Nothing /\ verdict = Nothing
  /\ \E v \in Envelopes : verdict' = Verdict(v)
  /\ UNCHANGED <<status, reading, complete>>

Requests == [responses : BOOLEAN, read : BOOLEAN, call : BOOLEAN]

\* Whether a request moves to another account: retryable_http_status is never
\* true of the creation of a call, and only of what may be sent twice.
Retried(request) ==
  /\ Permits(verdict.failure, complete)
  /\ status \in {"quota", "gateway"}
  /\ ~request.call /\ (request.responses \/ request.read)

Next ==
  \/ \E n \in 0 .. (Limit + 1) : Frame(n)
  \/ End \/ Cut \/ Judge

Spec == Init /\ [][Next]_refusalVars

----------------------------------------------------------------------------
(* Properties.                                                             *)

TypeOK ==
  /\ status \in Rejections \cup {"success", "unauthorized"}
  /\ reading \in Readings \cup {Nothing} /\ complete \in BOOLEAN
  /\ verdict # Nothing =>
       /\ reading = Nothing
       /\ verdict.failure \in {"quota", "scoped", "capacity", Nothing}
       /\ verdict.health \in {"quota", "transient", Nothing}

\* A bare code is taken for nothing beside a type that is neither a code of the
\* kind nor a terminal.
Overlooked(v) == v.type = "invalid"

\* An account is blocked or demoted only for a body that was seen to its end,
\* none of whose codes is a quota of something else than the account, unless the
\* body is a response that did not fail or its code is overlooked; and a rejected request
\* moves to another account only when this one was marked, as blocked, demoted or
\* at capacity, so that it is not chosen again at once.
BlamesTheAccount ==
  verdict # Nothing =>
    /\ verdict.health # Nothing =>
         /\ complete
         /\ LET parts == {verdict.body, verdict.body.response} \ {Nothing}
            IN  (~Overlooked(verdict.body) /\ \A e \in parts : e.status \notin Unfailed)
                  => \A e \in parts : ~Scoped(e)
    /\ \A request \in Requests :
         Retried(request) => verdict.health # Nothing \/ verdict.failure = "capacity"

\* A failed response is the same failure wherever it is met: bare in the body of
\* an answer, in an envelope, or in the terminal event of a stream; and the
\* response of a terminal that did not fail costs the account nothing.
CarriersAgree ==
  verdict # Nothing /\ verdict.body.status \in Ends =>
    LET r == verdict.body
        event == [Empty EXCEPT !.type = r.status, !.response = r]
    IN  /\ BodyKind(r) = TerminalKind(event)
        /\ BodyKind([Empty EXCEPT !.response = r]) = TerminalKind(event)
        /\ r.status \in Unfailed => verdict.failure = Nothing
=============================================================================
