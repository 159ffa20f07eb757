---------------------------- MODULE NativeChain ----------------------------
(***************************************************************************)
(* A native control chain: the socket that a client steers, injects tool   *)
(* results into or continues on while its responses run                    *)
(* (src/proxy/native_control.rs, OwnedChain and                            *)
(* run_native_control_socket).  One task handles the frames of both        *)
(* sockets one at a time; upstream answers as it likes, except that it     *)
(* offers a tool call once.                                                *)
(***************************************************************************)
EXTENDS Naturals, FiniteSets

CONSTANTS
  Calls,         \* the identities of tool calls
  Steers,        \* the identities upstream gives to steers
  MaxControls,   \* MAX_CONTROLS; the bytes have a bound of their own
  MaxResponses   \* MAX_RESPONSES

VARIABLES
  alive,         \* the chain's task runs
  multi,         \* the settings enable multi_agent
  responses,     \* how many responses the chain has had; the last is current
  offered,       \* candidate.calls: the calls of the current response
  submitted,     \* submitted_calls
  injection,     \* the calls of the unacknowledged injection; {} is none
  steers,        \* how many steers are unacknowledged
  accepted,      \* accepted_steers
  successor,     \* successor_deadline: none, the confirmation's, the chain's
  continuation,  \* continuation_pending
  controls,      \* frames charged to the chain's budget
  holds          \* upstream's side: how often it holds the result of a call

vars == <<alive, multi, responses, offered, submitted, injection, steers,
          accepted, successor, continuation, controls, holds>>

Init ==
  /\ alive = TRUE
  /\ multi \in BOOLEAN
  /\ responses = 1
  /\ offered \in SUBSET Calls
  /\ submitted = {} /\ injection = {} /\ steers = 0 /\ accepted = {}
  /\ successor = "none"
  /\ continuation = FALSE
  /\ controls = 0
  /\ holds = [c \in Calls |-> 0]

-----------------------------------------------------------------------------
(* The client's frames, OwnedChain::submit.  A frame that is not valid is  *)
(* answered with an error and changes nothing.                             *)

Charged == alive /\ controls < MaxControls /\ controls' = controls + 1

\* Mutant: only the results on their way are compared.
UnsubmittedInjection(calls) ==
  calls \subseteq offered /\ calls \cap injection = {}

\* Results of calls that the current response offers and nobody answered.
Unsubmitted(calls) == calls \subseteq offered /\ calls \cap submitted = {}

\* The frame is sent on, and with it the results of the calls.
Submit(calls) ==
  /\ Unsubmitted(calls)
  /\ submitted' = submitted \cup calls
  /\ holds' = [c \in Calls |-> holds[c] + IF c \in calls THEN 1 ELSE 0]

Inject(calls) ==
  /\ Charged
  /\ multi /\ injection = {} /\ calls # {}
  /\ Submit(calls)
  /\ injection' = calls
  /\ UNCHANGED <<alive, multi, responses, offered, steers, accepted, successor,
                 continuation>>

Steer ==
  /\ Charged
  /\ ~multi
  /\ steers' = steers + 1
  /\ UNCHANGED <<alive, multi, responses, offered, submitted, injection,
                 accepted, successor, continuation, holds>>

\* response.create: it names the current response and keeps its settings.
Continue(calls) ==
  /\ Charged
  /\ injection = {} /\ ~continuation
  /\ Submit(calls)
  /\ continuation' = TRUE
  /\ successor' = "confirm"
  /\ UNCHANGED <<alive, multi, responses, offered, injection, steers, accepted>>

\* response.interrupt and response.processed
Relay ==
  /\ Charged
  /\ UNCHANGED <<alive, multi, responses, offered, submitted, injection, steers,
                 accepted, successor, continuation, holds>>

-----------------------------------------------------------------------------
(* Upstream's frames, OwnedChain::observe.  An answer that matches nothing *)
(* ends the chain.                                                         *)

Offer(c) ==
  /\ alive /\ c \notin offered /\ holds[c] = 0
  /\ offered' = offered \cup {c}
  /\ UNCHANGED <<alive, multi, responses, submitted, injection, steers, accepted,
                 successor, continuation, controls, holds>>

\* The answer names the response that is current, which may have changed since the
\* injection; the code takes it all the same.  A failed injection was not
\* taken, and its results may be sent again.
InjectionAnswered(failed) ==
  /\ alive
  /\ injection # {}
  /\ injection' = {}
  /\ IF failed
     THEN /\ submitted' = submitted \ injection
          /\ holds' = [c \in Calls |-> IF c \in injection THEN 0 ELSE holds[c]]
     ELSE UNCHANGED <<submitted, holds>>
  /\ UNCHANGED <<alive, multi, responses, offered, steers, accepted, successor,
                 continuation, controls>>

SteerAccepted(s) ==
  /\ alive /\ steers > 0 /\ s \notin accepted
  /\ steers' = steers - 1
  /\ accepted' = accepted \cup {s}
  /\ successor' = IF successor = "none" THEN "confirm" ELSE successor
  /\ UNCHANGED <<alive, multi, responses, offered, submitted, injection,
                 continuation, controls, holds>>

\* No successor is expected any more.
NoSuccessor(rest) == rest = {} /\ ~continuation

\* Of an accepted steer, or of one that had no answer yet.
SteerFailed(s) ==
  /\ alive
  /\ \/ s \in accepted /\ UNCHANGED steers
     \/ s \notin accepted /\ steers > 0 /\ steers' = steers - 1
  /\ accepted' = accepted \ {s}
  /\ successor' = IF NoSuccessor(accepted \ {s}) THEN "none" ELSE successor
  /\ UNCHANGED <<alive, multi, responses, offered, submitted, injection,
                 continuation, controls, holds>>

SteerPending(s) ==
  /\ alive /\ s \in accepted
  /\ successor' = "chain"
  /\ UNCHANGED <<alive, multi, responses, offered, submitted, injection, steers,
                 accepted, continuation, controls, holds>>

\* The next response starts; it is bound to the account before it is relayed.
Created ==
  /\ alive
  /\ continuation \/ successor # "none"
  /\ responses < MaxResponses
  /\ responses' = responses + 1
  /\ offered' = {} /\ submitted' = {}
  /\ successor' = "none"
  /\ continuation' = FALSE
  /\ UNCHANGED <<alive, multi, injection, steers, accepted, controls, holds>>

(***************************************************************************)
(* A deadline, a lost socket, an answer that matches nothing, a terminal   *)
(* failure, a failed write, an unusable bearer, or a close: both sockets   *)
(* are given up, and nothing is sent again.                                *)
(***************************************************************************)
End ==
  /\ alive
  /\ alive' = FALSE
  /\ UNCHANGED <<multi, responses, offered, submitted, injection, steers,
                 accepted, successor, continuation, controls, holds>>

Next ==
  \/ \E calls \in SUBSET Calls : Inject(calls) \/ Continue(calls)
  \/ Steer \/ Relay
  \/ \E c \in Calls : Offer(c)
  \/ \E failed \in BOOLEAN : InjectionAnswered(failed)
  \/ \E s \in Steers : SteerAccepted(s) \/ SteerFailed(s) \/ SteerPending(s)
  \/ Created \/ End

Spec == Init /\ [][Next]_vars

-----------------------------------------------------------------------------
(* Properties.                                                             *)

TypeOK ==
  /\ alive \in BOOLEAN /\ multi \in BOOLEAN
  /\ responses \in 1..MaxResponses
  /\ offered \subseteq Calls /\ submitted \subseteq Calls
  /\ injection \subseteq Calls
  /\ steers \in 0..MaxControls
  /\ accepted \subseteq Steers
  /\ successor \in {"none", "confirm", "chain"}
  /\ continuation \in BOOLEAN
  /\ controls \in 0..MaxControls
  /\ holds \in [Calls -> 0..MaxControls]

(***************************************************************************)
(* Upstream never holds the result of a tool call twice, whichever of an   *)
(* injection, its retry after a failure, and a continuation carried it.    *)
(***************************************************************************)
ResultOnce == \A c \in Calls : holds[c] <= 1

(***************************************************************************)
(* A continuation that was sent is waited for with a deadline, whatever    *)
(* becomes of the steers that were sent before it.                         *)
(***************************************************************************)
ContinuationTimed == continuation => successor # "none"
=============================================================================
