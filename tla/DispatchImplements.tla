------------------------ MODULE DispatchImplements ------------------------
(***************************************************************************)
(* Dispatch implements Continuity: the abstract state is read off the      *)
(* requests' contents and the history of sends and answers.                *)
(***************************************************************************)
EXTENDS Dispatch, SequencesExt

CONSTANT Unasked

ASSUME UnaskedAssumption ==
  Unasked \notin [continues : SUBSET Requests, portable : BOOLEAN]

Asked(r) ==
  IF pc[r] = "new" THEN Unasked
  ELSE [continues |-> {t[2] : t \in input[r].anchors},
        portable  |-> input[r].portable]

Promise == INSTANCE Continuity WITH
  asked     <- [r \in Requests |-> Asked(r)],
  contacted <- [r \in Requests |-> ToSet(sends[r])],
  answered  <- [r \in Requests |-> {x[1] : x \in answered[r]}],
  issuer    <- served

\* Every behaviour of the dispatch loop, with its selections, retries,
\* failures and restarts, is one the promise to the client allows.
PromiseKept == Promise!Spec
=============================================================================
