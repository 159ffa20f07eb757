--------------------------- MODULE ClaudeSession ---------------------------
(***************************************************************************)
(* One Claude Code session (src/proxy/claude.rs, handle_claude): which     *)
(* account its requests go to, how they move when quota runs out, and what *)
(* is bound when they are answered.                                        *)
(*                                                                         *)
(* The session's gate is held from the first look at a binding until the   *)
(* head of the response, so one request is handled at a time; the bodies   *)
(* of earlier responses go on beside it.  What the gate does not cover is  *)
(* a login that replaces an alias's credentials, quota, and the operator's *)
(* edits.                                                                  *)
(***************************************************************************)
EXTENDS Naturals, FiniteSets

CONSTANTS
  Aliases,        \* the members of the pool
  Inbound,        \* those that use the caller's own credential
  Identities, Conversations, None,
  Watched,        \* the conversation whose history is kept
  Requests,       \* what the session may ask for in this instance, see Request
  Fixed,          \* conversations of a client whose identity in the metadata
                  \* cannot be rewritten
  Routes,         \* what the operator may have decided, see Route
  MaxStreams, MaxLogins   \* bounds on what a behaviour has of them

VARIABLES
  login, logins,  \* the identity each managed alias is logged in to
  exhausted,      \* aliases whose included quota is used up
  route,          \* the session's route; SessionRoutes has its edits
  home,           \* binding of the session
  conv,           \* binding of each conversation
  creds,          \* bindings of the credential keys
  placed,         \* binding of the route's placement key
  streams,        \* session.active
  req,            \* the request that holds the gate
  level,          \* how portable the watched conversation is
  source,         \* history: the alias that answered it last
  spent,          \* history: whether its source ran out of quota since
  served,         \* history: the users that have answered the session
  mistaken        \* history: users it was recorded for though, after a 401,
                  \* another one answered

vars == <<login, logins, exhausted, route, home, conv, creds, placed,
          streams, req, level, source, spent, served, mistaken>>

-----------------------------------------------------------------------------
(* State.                                                                  *)

MaybeAlias == Aliases \cup {None}
MaybeIdentity == Identities \cup {None}

\* An alias and who was logged in to it.
Account == [alias : Aliases, identity : MaybeIdentity]

Portability == {"portable", "sticky", "account"}

Route == [overridden : BOOLEAN, assigned : MaybeAlias]

Idle == [stage |-> "idle"]

\* What a request brings.  `caller` is the identity in its metadata, which may
\* be empty.
Request == [conversation : Conversations, portability : Portability,
            caller : MaybeIdentity, message : BOOLEAN, pin : MaybeAlias]

Rewritable(q) == q.conversation \notin Fixed

Init ==
  /\ login \in [Aliases -> Identities]
  /\ logins = 0
  /\ exhausted = {}
  /\ route \in Routes
  /\ home = None
  /\ conv = [c \in Conversations |-> None]
  /\ creds = {}
  /\ placed = None
  /\ streams = 0
  /\ req = Idle
  /\ level = "new"
  /\ source = None
  /\ spent = FALSE
  /\ served = {} /\ mistaken = {}

bindingVars == <<home, conv, creds, placed>>
worldVars == <<login, logins, exhausted, route>>
historyVars == <<level, source, spent, served, mistaken>>

-----------------------------------------------------------------------------
(* Admission: the routing decision under the gate.                         *)

\* Who an alias would act as for a caller.
ActsAs(alias, caller) == IF alias \in Inbound THEN caller ELSE login[alias]

\* identity_owner; which of several is found depends on the pool's order.
Own(q) == {a \in Aliases : a \in Inbound \/ login[a] = q.caller}

Or(a, b) == IF a = None THEN b ELSE a

\* A conversation, or a session with a stream in flight, keeps its owner.
Hard(q) ==
  \/ q.portability = "account"
  \/ q.portability = "sticky" /\ ~route.overridden
  \/ streams > 0

Owners(q) ==
  IF ~Rewritable(q)
  THEN {a \in Own(q) : q.pin \in {None, a} /\ route.assigned \in {None, a}}
  ELSE IF ~Hard(q) THEN {None}
  ELSE LET bound == Or(conv[q.conversation], home)
       IN IF bound # None THEN {bound} ELSE IF Own(q) = {} THEN {None} ELSE Own(q)

Conflict(q, owner) ==
  \/ q.portability = "account" /\ owner = None
  \/ owner # None /\ q.pin \notin {None, owner}
  \/ route.assigned # None /\ Or(owner, q.pin) \notin {None, route.assigned}

Movable(q) ==
  /\ Rewritable(q) /\ q.portability # "account"
  /\ q.pin = None /\ route.assigned = None

(***************************************************************************)
(* A request that is neither refused nor passed on with the caller's own   *)
(* credential.  The history of a conversation only grows, and an answer    *)
(* may make it less portable.                                              *)
(***************************************************************************)
Admit(q) ==
  /\ req = Idle
  /\ q.conversation = Watched => level \in {"new", q.portability}
  /\ \E owner \in Owners(q) :
       /\ ~Conflict(q, owner)
       /\ req' = [stage     |-> "choose",
                  q         |-> q,
                  movable   |-> Movable(q),
                  exact     |-> Or(Or(route.assigned, owner), q.pin),
                  places    |-> route.overridden /\ ~Hard(q),
                  placement |-> IF route.overridden THEN placed ELSE home,
                  remaining |-> Aliases,
                  moved     |-> None,
                  attempted |-> {},
                  account   |-> None,
                  as        |-> None]
  /\ level' = IF q.conversation = Watched THEN q.portability ELSE level
  /\ UNCHANGED <<worldVars, bindingVars, streams, source, spent, served, mistaken>>

-----------------------------------------------------------------------------
(* One round of the loop.                                                  *)

\* Mutant: an owner that cannot serve for any reason lets go.
OutOfQuotaOrBusy(alias) == TRUE

OutOfQuota(alias) == alias \in exhausted

\* The owner lets go of a request that may move when it is exhausted.
LetsGo == req.movable /\ req.exact # None /\ OutOfQuota(req.exact)

(***************************************************************************)
(* The exact account, the one of the placement binding the first time, or  *)
(* any other; `from` is the account that the request moves away from.  An  *)
(* exhausted account cannot serve, nor one that is rejected when the       *)
(* selection is validated; which of the others can serve is open here.     *)
(***************************************************************************)
Chooses(alias, from) ==
  /\ req.stage = "choose"
  /\ alias \in req.remaining \ exhausted
  /\ IF req.exact # None /\ ~LetsGo
     THEN alias = req.exact /\ from = req.moved
     ELSE LET left == IF LetsGo THEN req.exact ELSE req.moved IN
          \/ alias = req.placement /\ from = left
          \/ /\ LetsGo => alias # req.exact
             /\ from = IF req.movable /\ req.placement # None /\ OutOfQuota(req.placement)
                       THEN req.placement ELSE left

\* What is left of the choice afterwards.
After(alias, from) ==
  [req EXCEPT !.moved = from,
              !.exact = IF LetsGo THEN None ELSE @,
              !.placement = None,
              !.remaining = @ \ {alias, IF LetsGo THEN req.exact ELSE alias}]

Resolved(alias) == [alias |-> alias, identity |-> ActsAs(alias, req.q.caller)]

\* Its credentials cannot be had, or another alias of its identity was tried.
Skip(alias, from) ==
  /\ Chooses(alias, from)
  /\ \/ After(alias, from).exact = None /\ alias \notin Inbound
     \/ Resolved(alias).identity \in req.attempted
  /\ req' = After(alias, from)
  /\ UNCHANGED <<worldVars, bindingVars, streams, historyVars>>

\* The credential key names the alias and its identity.
CredentialKey(account) == account

\* Account-owned context needs a credential that the session knows.
IdentityHolds(account) ==
  \/ req.q.portability # "account"
  \/ account.alias \in Inbound
  \/ home = None /\ account.identity = req.q.caller
  \/ CredentialKey(account) \in creds

\* The credentials are read, the selection is still valid, the request is sent.
Send(alias, from) ==
  LET account == Resolved(alias) IN
  /\ Chooses(alias, from)
  /\ account.identity \notin req.attempted
  /\ IdentityHolds(account)
  /\ req' = [After(alias, from) EXCEPT !.stage = "sent", !.account = account,
                                       !.as = account.identity,
                                       !.attempted = @ \cup {account.identity}]
  /\ UNCHANGED <<worldVars, bindingVars, streams, historyVars>>

\* A 401, and the credential file has another token, or gets one: once more,
\* as whoever is logged in by now.  The account stays that of the first send,
\* whose quota and whose credential key the answer is taken for.
Refreshed ==
  /\ req.stage = "sent" /\ req.account.alias \notin Inbound
  /\ req' = [req EXCEPT !.stage = "resent", !.as = login[req.account.alias]]
  /\ UNCHANGED <<worldVars, bindingVars, streams, historyVars>>

Done == req' = Idle

\* No account is left, the exact one cannot serve, the client left, or an error:
\* the request is refused, or passed on with the caller's own credential.
GiveUp ==
  /\ req # Idle
  /\ Done
  /\ UNCHANGED <<worldVars, bindingVars, streams, historyVars>>

Sent == req.stage \in {"sent", "resent"}

\* Whether the source has run out of quota now.
SpentIn(aliases) == spent \/ source \in aliases

\* A quota rejection with a reset: of an alias that is still the same user.
Exhausted ==
  /\ Sent
  /\ LET alias == req.account.alias
         same  == alias \in Inbound \/ login[alias] = req.account.identity
     IN
     /\ exhausted' = IF same THEN exhausted \cup {alias} ELSE exhausted
     /\ spent' = SpentIn({alias})
     /\ IF ~req.movable THEN Done
        ELSE req' = [req EXCEPT
               !.stage = "choose",
               !.exact = None,
               !.account = None,
               !.as = None,
               !.moved = IF req.exact # None \/ home = alias THEN alias ELSE @]
  /\ UNCHANGED <<login, logins, route, bindingVars, streams, level,
                 source, served, mistaken>>

\* Any other failure is forwarded.
Forward ==
  /\ Sent
  /\ Done
  /\ streams' \in {streams, streams + 1} /\ streams' <= MaxStreams
  /\ UNCHANGED <<worldVars, bindingVars, historyVars>>

\* The answer leads the session if it comes from home or from where home moved.
Leads ==
  \/ home = None
  \/ home \in {req.account.alias, req.moved}
  \/ home = conv[req.q.conversation]

\* What an answer may make of the history's portability.
Grown == CASE level = "portable" -> Portability
           [] level = "sticky"   -> {"sticky", "account"}
           [] OTHER              -> {"account"}

(***************************************************************************)
(* A message was answered.  Its bindings are written one after another; if *)
(* one cannot be, the client gets an error instead.                        *)
(***************************************************************************)
Answered(written) ==
  /\ Sent /\ req.q.message
  /\ streams < MaxStreams
  /\ LET alias == req.account.alias
         c     == req.q.conversation IN
     /\ creds' = IF written >= 1 THEN creds \cup {CredentialKey(req.account)} ELSE creds
     /\ conv' = IF written >= 2 THEN [conv EXCEPT ![c] = alias] ELSE conv
     /\ placed' = IF written >= 3 /\ req.places THEN alias ELSE placed
     /\ home' = IF written = 4 /\ Leads THEN alias ELSE home
     /\ served' = served \cup {req.as}
     /\ mistaken' = IF written >= 1 /\ req.as # req.account.identity
                    THEN mistaken \cup {req.account.identity} ELSE mistaken
     /\ streams' = IF written = 4 THEN streams + 1 ELSE streams
     /\ IF written = 4 /\ c = Watched
        THEN /\ source' = alias
             /\ spent' = (alias \in exhausted)
             /\ level' \in Grown
        ELSE UNCHANGED <<source, spent, level>>
  /\ Done
  /\ UNCHANGED worldVars

\* A token count, which binds nothing.
Counted ==
  /\ Sent /\ ~req.q.message
  /\ streams < MaxStreams
  /\ streams' = streams + 1
  /\ Done
  /\ UNCHANGED <<worldVars, bindingVars, historyVars>>

-----------------------------------------------------------------------------
(* Beside the gate.                                                        *)

StreamEnds ==
  /\ streams > 0
  /\ streams' = streams - 1
  /\ UNCHANGED <<worldVars, bindingVars, req, historyVars>>

\* A rejection or a poll elsewhere, or the end of a window.
QuotaChanges(alias) ==
  /\ exhausted' = IF alias \in exhausted THEN exhausted \ {alias}
                  ELSE exhausted \cup {alias}
  /\ spent' = SpentIn(exhausted')
  /\ UNCHANGED <<login, logins, route, bindingVars, streams, req, level,
                 source, served, mistaken>>

\* Another user's quota is another matter.
Login(alias, identity) ==
  /\ logins < MaxLogins
  /\ alias \notin Inbound /\ identity # login[alias]
  /\ login' = [login EXCEPT ![alias] = identity]
  /\ logins' = logins + 1
  /\ exhausted' = exhausted \ {alias}
  /\ UNCHANGED <<route, bindingVars, streams, req, historyVars>>

Next ==
  \/ \E q \in Requests : Admit(q)
  \/ \E alias \in Aliases, from \in MaybeAlias : Skip(alias, from) \/ Send(alias, from)
  \/ Refreshed \/ Exhausted \/ Forward \/ GiveUp
  \/ \E written \in 0..4 : Answered(written)
  \/ Counted \/ StreamEnds
  \/ \E alias \in Aliases : QuotaChanges(alias)
  \/ \E alias \in Aliases, identity \in Identities : Login(alias, identity)

Spec == Init /\ [][Next]_vars

-----------------------------------------------------------------------------
(* Properties.                                                             *)

TypeOK ==
  /\ login \in [Aliases -> Identities]
  /\ exhausted \subseteq Aliases
  /\ route \in Route
  /\ home \in MaybeAlias
  /\ conv \in [Conversations -> MaybeAlias]
  /\ creds \subseteq Account
  /\ placed \in MaybeAlias
  /\ streams \in 0..MaxStreams
  /\ req.stage \in {"idle", "choose", "sent", "resent"}
  /\ level \in {"new"} \cup Portability
  /\ source \in MaybeAlias
  /\ spent \in BOOLEAN /\ {served, mistaken} \subseteq SUBSET MaybeIdentity

\* The account that a step sends the request to.
SentTo == req'.account

Sends == req.stage = "choose" /\ req'.stage = "sent"

\* A second send after a 401, and who is logged in since the first.
Resends == req.stage = "sent" /\ req'.stage = "resent"
LoggedInSince == {req'.as} \ {SentTo.identity}

(***************************************************************************)
(* Thinking and compaction stay with the account that answered, unless its *)
(* quota ran out since or the operator moved the session: not for a login  *)
(* that failed, a helper's success, a stream in flight or a binding that   *)
(* could not be written.                                                   *)
(***************************************************************************)
StickyMovesForQuota ==
  [][Sends /\ Watched = req.q.conversation /\ Rewritable(req.q)
       /\ req.q.portability = "sticky" /\ ~route.overridden
       /\ source # None /\ ~spent
       => SentTo.alias = source]_vars

(***************************************************************************)
(* Account-owned context is sent only as a user that has answered the      *)
(* session, or as the caller's own: a login that replaces an alias's       *)
(* credentials does not take it along.  There are two exceptions, which    *)
(* the code has: a login between a send and its 401 is not looked at again *)
(* and gets the request, and if it answers, the user of the first send is  *)
(* recorded for it.                                                        *)
(***************************************************************************)
AccountContextKnown ==
  [][(Sends \/ Resends)
       /\ req.q.portability = "account" /\ SentTo.alias \notin Inbound
       => req'.as \in served \cup mistaken \cup {req.q.caller} \cup LoggedInSince]_vars
=============================================================================
