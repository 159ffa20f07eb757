---------------------------- MODULE ContextStore ----------------------------
(***************************************************************************)
(* The notes and the history of one Codex session: which accounts took     *)
(* part in it (src/proxy/context_store.rs), and the context operations     *)
(* that ask them while inference goes on elsewhere and aliases are logged  *)
(* in to other users (src/proxy/context.rs).  Jobs of the database are     *)
(* atomic and durable.                                                     *)
(***************************************************************************)
EXTENDS Naturals, Sequences, FiniteSets

CONSTANTS
  Aliases, Identities,  \* account names, and who may be logged in to them
  MaxParticipants,      \* MAX_PARTICIPANTS
  MaxLogins             \* bound on the logins of a behaviour

VARIABLES
  login,        \* context_identity of each alias's credentials
  logins,
  participants, \* the session's rows, in order; the first is its owner
  inference,    \* an inference request of the session
  query,        \* a context operation
  sentTo,       \* history: whom qualifying inference was sent to
  noted         \* history: whom notes operations were sent to

vars == <<login, logins, participants, inference, query, sentTo, noted>>

-----------------------------------------------------------------------------

Account == [alias : Aliases, identity : Identities]

Idle == [stage |-> "idle"]

Init ==
  /\ login \in [Aliases -> Identities]
  /\ logins = 0
  /\ participants = <<>>
  /\ inference = Idle
  /\ query = Idle
  /\ sentTo = {}
  /\ noted = {}

Present(alias) == [alias |-> alias, identity |-> login[alias]]

Recorded == {participants[i] : i \in DOMAIN participants}

Known(account) == \E p \in Recorded : p.identity = account.identity

\* record_dispatch: a physical account takes one place, under one alias.
RecordDispatch(account) ==
  /\ Known(account) \/ Len(participants) < MaxParticipants
  /\ participants' = IF Known(account) THEN participants
                     ELSE Append(participants, account)

-----------------------------------------------------------------------------
(* Inference with reasoning over all turns.                                *)

Resolve(alias) ==
  /\ inference = Idle
  /\ inference' = [stage |-> "resolved", account |-> Present(alias)]
  /\ UNCHANGED <<login, logins, participants, query, sentTo, noted>>

\* record_context_dispatch; at the limit the request is refused.
RecordInference ==
  /\ inference.stage = "resolved"
  /\ RecordDispatch(inference.account)
  /\ inference' = [inference EXCEPT !.stage = "recorded"]
  /\ UNCHANGED <<login, logins, query, sentTo, noted>>

\* Mutant: the request may be sent first and recorded with its answer.
SendableAtOnce == inference.stage \in {"resolved", "recorded"}

\* A request goes out after its account was recorded.
Sendable == inference.stage = "recorded"

Send ==
  /\ Sendable
  /\ sentTo' = sentTo \cup {inference.account.identity}
  /\ inference' = Idle
  /\ UNCHANGED <<login, logins, participants, query, noted>>

GiveUp ==
  /\ inference # Idle
  /\ inference' = Idle
  /\ UNCHANGED <<login, logins, participants, query, sentTo, noted>>

-----------------------------------------------------------------------------
(* Context operations, relay_context.                                      *)

Begin(history) ==
  /\ query.stage \in {"idle", "answered"}
  /\ query' = [stage |-> "lookup", history |-> history, account |-> <<>>,
               ask |-> <<>>, retried |-> {}, answered |-> {}, owed |-> sentTo]
  /\ UNCHANGED <<login, logins, participants, inference, sentTo, noted>>

\* A new session: the preferred account, or the first that is available, gives
\* its credentials.
Choose(alias) ==
  /\ query.stage = "lookup" /\ participants = <<>>
  /\ query' = [query EXCEPT !.stage = "chosen", !.account = <<Present(alias)>>]
  /\ UNCHANGED <<login, logins, participants, inference, sentTo, noted>>

RecordChosen ==
  /\ query.stage = "chosen"
  /\ RecordDispatch(query.account[1])
  /\ query' = [query EXCEPT !.stage = "lookup"]
  /\ UNCHANGED <<login, logins, inference, sentTo, noted>>

\* The accounts to ask: every participant, or the owner as it was recorded.
Plan ==
  /\ query.stage = "lookup" /\ participants # <<>>
  /\ query' = [query EXCEPT !.stage = "ask",
                            !.ask = IF query.history THEN participants
                                    ELSE <<Head(participants)>>]
  /\ UNCHANGED <<login, logins, participants, inference, sentTo, noted>>

\* context_credentials: the alias is still logged in to the same user.
SameLogin(account) == login[account.alias] = account.identity

Targets == {query.ask[i] : i \in DOMAIN query.ask}

\* The request is sent to whoever the credentials belong to, and answered.
Answer(t) ==
  /\ query.stage = "ask"
  /\ t \in Targets /\ t.identity \notin query.answered
  /\ SameLogin(t)
  /\ query' = [query EXCEPT !.answered = @ \cup {t.identity}]
  /\ noted' = IF query.history THEN noted ELSE noted \cup {login[t.alias]}
  /\ UNCHANGED <<login, logins, participants, inference, sentTo>>

\* The same, but the bearer is rejected; refreshed credentials may try once.
Unauthorized(t) ==
  /\ query.stage = "ask"
  /\ t \in Targets /\ t \notin query.retried
  /\ SameLogin(t)
  /\ query' = [query EXCEPT !.retried = @ \cup {t}]
  /\ noted' = IF query.history THEN noted ELSE noted \cup {login[t.alias]}
  /\ UNCHANGED <<login, logins, participants, inference, sentTo>>

\* All of them answered.
Complete ==
  /\ query.stage = "ask"
  /\ query.answered = {t.identity : t \in Targets}
  /\ query' = [query EXCEPT !.stage = "answered"]
  /\ UNCHANGED <<login, logins, participants, inference, sentTo, noted>>

\* One of them did not, or the client left.
Fail ==
  /\ query.stage \in {"lookup", "chosen", "ask"}
  /\ query' = Idle
  /\ UNCHANGED <<login, logins, participants, inference, sentTo, noted>>

-----------------------------------------------------------------------------

Login(alias, identity) ==
  /\ logins < MaxLogins
  /\ login' = [login EXCEPT ![alias] = identity]
  /\ logins' = logins + 1
  /\ UNCHANGED <<participants, inference, query, sentTo, noted>>

Restart ==
  /\ inference' = Idle /\ query' = Idle
  /\ UNCHANGED <<login, logins, participants, sentTo, noted>>

Next ==
  \/ \E alias \in Aliases : Resolve(alias) \/ Choose(alias)
  \/ RecordInference \/ Send \/ GiveUp
  \/ \E history \in BOOLEAN : Begin(history)
  \/ RecordChosen \/ Plan \/ Complete \/ Fail
  \/ \E t \in Recorded : Answer(t) \/ Unauthorized(t)
  \/ \E alias \in Aliases, identity \in Identities : Login(alias, identity)
  \/ Restart

Spec == Init /\ [][Next]_vars

-----------------------------------------------------------------------------
(* Properties.                                                             *)

TypeOK ==
  /\ login \in [Aliases -> Identities]
  /\ logins \in 0..MaxLogins
  /\ participants \in Seq(Account) /\ Len(participants) <= MaxParticipants
  /\ inference.stage \in {"idle", "resolved", "recorded"}
  /\ query.stage \in {"idle", "lookup", "chosen", "ask", "answered"}
  /\ sentTo \subseteq Identities /\ noted \subseteq Identities

(***************************************************************************)
(* The notes of a session are with one user for good: operations that race *)
(* to be the first, later logins of the alias, refreshed credentials and   *)
(* restarts never send one elsewhere.                                      *)
(***************************************************************************)
NotesStay == Cardinality(noted) <= 1

(***************************************************************************)
(* A history that is answered is complete: it has the answer of every user *)
(* that qualifying inference was sent to before the operation began.       *)
(***************************************************************************)
HistoryComplete ==
  query.stage = "answered" /\ query.history => query.owed \subseteq query.answered
=============================================================================
