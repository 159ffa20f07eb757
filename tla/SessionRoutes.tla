--------------------------- MODULE SessionRoutes ---------------------------
(***************************************************************************)
(* Where an operator puts a session (src/routing/affinity/sessions.rs)     *)
(* and how requests obey it (codex_session_route and its callers in        *)
(* src/proxy/mod.rs).  A request reads the records of its thread and       *)
(* of its session once and carries that snapshot through its dispatch,     *)
(* while the operator edits the records and other requests come and go.    *)
(* Each job of the database is atomic.                                     *)
(*                                                                         *)
(* Records and bindings expire after weeks without use; no request of the  *)
(* model lasts that long.                                                  *)
(***************************************************************************)
EXTENDS Naturals, Sequences, FiniteSets

CONSTANTS
  Accounts, Requests, NoAccount,
  MaxEdits     \* bound on the operator's edits

VARIABLES
  records,     \* the table session_routes
  placements,  \* bindings of the placement keys: record and revision
  requests,    \* the requests, with their snapshots
  chosenSince  \* history: accounts chosen for requests that were admitted
               \* after the record's last edit

vars == <<records, placements, requests, chosenSince>>

-----------------------------------------------------------------------------

\* A thread, and the session it shares with its siblings.
Record == {"thread", "session"}

\* What may call for a second attempt, see Retries.
Cause == {"refreshed", "stale", "rejected"}

\* From the most specific identity to the shared one.
Identities == {<<"thread", "session">>, <<"session">>}

\* "connection" is the handshake of the direct lane, "raw" a raw socket.
Lane == {"content", "connection", "raw"}

MaybeAccount == Accounts \cup {NoAccount}

Placement == Record \X (0..MaxEdits)

NewRecord == [revision |-> 0, account |-> NoAccount, previous |-> NoAccount,
              assigned |-> NoAccount, overridden |-> FALSE]

Idle == [stage |-> "idle"]

Init ==
  /\ records = [c \in Record |-> NewRecord]
  /\ placements = [p \in Placement |-> NoAccount]
  /\ requests = [r \in Requests |-> Idle]
  /\ chosenSince = [c \in Record |-> {}]

Range(s) == {s[i] : i \in DOMAIN s}

-----------------------------------------------------------------------------
(* A request.                                                              *)

\* The most specific of the identities that is in S, if there is one.
MostSpecific(ids, S) ==
  LET at == {i \in DOMAIN ids : ids[i] \in S}
  IN IF at = {} THEN <<>> ELSE <<ids[CHOOSE i \in at : \A j \in at : i <= j]>>

\* Every edit makes a new placement key.
PlacementOf(c) == <<c, records[c].revision>>

\* session_route; `owner` is the explicit owner of what the request refers to.
Admit(r, ids, lane, owner) ==
  /\ requests[r].stage = "idle"
  /\ LET directive == MostSpecific(ids, {c \in Record : records[c].overridden})
         known ==
           MostSpecific(ids, {c \in Record : records[c].previous # NoAccount})
     IN requests' = [requests EXCEPT ![r] =
          [stage     |-> "read",
           lane      |-> lane,
           owner     |-> owner,
           revision  |-> [c \in Range(ids) |-> records[c].revision],
           placement |-> IF directive = <<>> THEN <<>>
                         ELSE <<PlacementOf(Head(directive))>>,
           assigned  |-> IF directive = <<>> THEN NoAccount
                         ELSE records[Head(directive)].assigned,
           previous  |-> IF known = <<>> THEN NoAccount
                         ELSE records[Head(known)].previous]]
  /\ UNCHANGED <<records, placements, chosenSince>>

Overridden(q) == q.placement # <<>>

\* Mutant: the revision is not compared.
CurrentAnyway(q) == DOMAIN q.revision

\* The records that have not been edited since the request was admitted.
Current(q) == {c \in DOMAIN q.revision : records[c].revision = q.revision[c]}

(***************************************************************************)
(* codex_session_route: an edited session that was used before its         *)
(* accounts were recorded has been on the account of its soft alias, if    *)
(* that is bound; remember_previous.                                       *)
(***************************************************************************)
Recall(r, alias) ==
  LET q == requests[r]
      recalled == IF Overridden(q) /\ q.previous = NoAccount THEN alias
                  ELSE q.previous
  IN
  /\ q.stage = "read"
  /\ requests' = [requests EXCEPT ![r].stage = "routed", ![r].previous = recalled]
  /\ records' = [c \in Record |->
       IF recalled # q.previous /\ c \in Current(q) /\ records[c].previous = NoAccount
       THEN [records[c] EXCEPT !.previous = recalled] ELSE records[c]]
  /\ UNCHANGED <<placements, chosenSince>>

\* A raw socket cannot be looked into: content of another account stays away.
RawConflict(q) ==
  /\ q.lane = "raw" /\ Overridden(q) /\ q.owner = NoAccount
  /\ q.previous \notin {NoAccount, q.assigned}

OwnerConflict(q) ==
  q.assigned # NoAccount /\ q.owner # NoAccount /\ q.assigned # q.owner

\* A conflict, an unavailable account, or a client that left.
Refuse(r) ==
  /\ requests[r].stage = "routed"
  /\ requests' = [requests EXCEPT ![r] = Idle]
  /\ UNCHANGED <<records, placements, chosenSince>>

\* An owner that was found, or the operator's account, places nothing.
HardOwned(q) == q.owner # NoAccount \/ q.assigned # NoAccount

\* The choice counts where the request was admitted after the last edit.
Choose(q, to) ==
  chosenSince' = [c \in Record |->
    IF c \in Current(q) THEN chosenSince[c] \cup {to} ELSE chosenSince[c]]

\* The placement key, if there is one, has a new binding.
Place(key, to) ==
  placements' = [p \in Placement |-> IF key = <<p>> THEN to ELSE placements[p]]

(***************************************************************************)
(* What may cause a second attempt: refreshed credentials, on the same     *)
(* account, or, unless the account was decided, a selection that is stale  *)
(* before the send or a rejection after it, on another one.  A direct lane *)
(* can send the whole history instead of the response it goes on from.     *)
(***************************************************************************)
Retries(q, bound) ==
  {cause \in Cause :
     \/ cause = "refreshed"
     \/ /\ q.assigned = NoAccount
        /\ q.owner # NoAccount => cause = "rejected" /\ q.lane = "content"
        /\ bound => cause = "rejected"}

(***************************************************************************)
(* An assignment or an owner is followed exactly.  Otherwise the placement *)
(* key routes: its binding is followed, unless its account cannot serve,   *)
(* which is open here, and without one the selection itself binds it,      *)
(* before anything is sent.  If that cannot be written, nothing is         *)
(* selected (Refuse).  From here on the request needs its snapshot's       *)
(* revisions and where to bind.                                            *)
(***************************************************************************)
Select(r, to) ==
  LET q     == requests[r]
      key   == IF HardOwned(q) THEN <<>> ELSE q.placement
      bound == key # <<>> /\ placements[Head(key)] = to
  IN
  /\ q.stage = "routed"
  /\ ~RawConflict(q) /\ ~OwnerConflict(q)
  /\ q.assigned # NoAccount => to = q.assigned
  /\ q.owner # NoAccount => to = q.owner
  /\ requests' = [requests EXCEPT ![r] =
       [stage    |-> "selected",
        account  |-> to,
        revision |-> q.revision,
        lane     |-> q.lane,
        binds    |-> key,
        retries  |-> Retries(q, bound)]]
  /\ Place(key, to) /\ Choose(q, to)
  /\ UNCHANGED records

(***************************************************************************)
(* The second and last attempt, on the same account or on another: one     *)
(* that the whole pool offers if the content is known, one that the        *)
(* placement key is bound to again if a handshake is repeated.             *)
(***************************************************************************)
Retry(r, to, cause) ==
  LET q == requests[r] IN
  /\ q.stage = IF cause = "stale" THEN "selected" ELSE "sent"
  /\ cause \in q.retries
  /\ to = q.account <=> cause = "refreshed"
  /\ requests' = [requests EXCEPT
       ![r].stage = "selected", ![r].account = to, ![r].retries = {}]
  /\ Choose(q, to)
  /\ Place(IF cause = "refreshed" \/ q.lane = "content" THEN <<>> ELSE q.binds, to)
  /\ UNCHANGED records

\* SessionRoute::record, then the send.
Dispatch(r) ==
  LET q == requests[r] IN
  /\ q.stage = "selected"
  /\ records' = [c \in Record |->
       IF c \notin Current(q) THEN records[c]
       ELSE [records[c] EXCEPT
               !.account  = q.account,
               !.previous = IF q.lane = "connection" THEN @ ELSE q.account]]
  /\ requests' = [requests EXCEPT ![r].stage = "sent"]
  /\ UNCHANGED <<placements, chosenSince>>

\* An accepted answer to content binds the placement, unless an owner decided.
Answer(r) ==
  LET q == requests[r] IN
  /\ q.stage = "sent"
  /\ Place(IF q.lane = "content" THEN q.binds ELSE <<>>, q.account)
  /\ requests' = [requests EXCEPT ![r] = Idle]
  /\ UNCHANGED <<records, chosenSince>>

\* The send fails, or its answer is lost or refused.
Fail(r) ==
  /\ requests[r].stage \in {"selected", "sent"}
  /\ requests' = [requests EXCEPT ![r] = Idle]
  /\ UNCHANGED <<records, placements, chosenSince>>

-----------------------------------------------------------------------------
(* The operator.                                                           *)

\* edit_session: a move to an account, or a reset.
Edit(c, assigned) ==
  /\ records["thread"].revision + records["session"].revision < MaxEdits
  /\ records' = [records EXCEPT
       ![c].revision = @ + 1, ![c].account = NoAccount,
       ![c].assigned = assigned, ![c].overridden = TRUE]
  /\ chosenSince' = [chosenSince EXCEPT ![c] = {}]
  /\ UNCHANGED <<placements, requests>>

Next ==
  \/ \E r \in Requests, ids \in Identities, lane \in Lane, owner \in MaybeAccount :
       Admit(r, ids, lane, owner)
  \/ \E r \in Requests, alias \in MaybeAccount : Recall(r, alias)
  \/ \E r \in Requests : Refuse(r) \/ Dispatch(r) \/ Answer(r) \/ Fail(r)
  \/ \E r \in Requests, to \in Accounts : Select(r, to)
  \/ \E r \in Requests, to \in Accounts, cause \in Cause :
       Retry(r, to, cause)
  \/ \E c \in Record, to \in MaybeAccount : Edit(c, to)

Spec == Init /\ [][Next]_vars

-----------------------------------------------------------------------------
(* Properties.                                                             *)

TypeOK ==
  /\ records \in [Record -> [revision : 0..MaxEdits, account : MaybeAccount,
                             previous : MaybeAccount, assigned : MaybeAccount,
                             overridden : BOOLEAN]]
  /\ placements \in [Placement -> MaybeAccount]
  /\ \A r \in Requests :
       requests[r].stage \in {"idle", "read", "routed", "selected", "sent"}
  /\ chosenSince \in [Record -> SUBSET Accounts]

(***************************************************************************)
(* The last edit wins: what is shown of an edited session, and where its   *)
(* next request is placed, come only from requests that were admitted      *)
(* after the edit, whenever the older ones are selected, moved, dispatched *)
(* or answered.                                                            *)
(***************************************************************************)
LastEditWins ==
  \A c \in Record : records[c].overridden =>
    {records[c].account, placements[PlacementOf(c)]}
      \subseteq chosenSince[c] \cup {NoAccount}
=============================================================================
