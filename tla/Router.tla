------------------------------- MODULE Router -------------------------------
(***************************************************************************)
(* Account health and placement: the part of src/routing/router.rs         *)
(* that decides which account of a pool may take a request.                *)
(*                                                                         *)
(* `runtime` is the map behind the `accounts` mutex; every operator below  *)
(* is evaluated, as in the code, in one critical section of that mutex.    *)
(* `preferred` and `preserved` are the pool's operator-chosen roles, each   *)
(* behind a mutex of its own.                                              *)
(*                                                                         *)
(* Instants are abstracted to what routing asks of them: whether the       *)
(* deadline is still in the future.  Their passing is an action of the     *)
(* environment (...Elapsed).  Usage is the largest reported percentage,    *)
(* on a coarse scale 0..FullUsage; 0 also stands for "never reported",     *)
(* which the code compares in the same way (`is_none_or`).  The placement  *)
(* rate, a floating-point score, is abstracted: any account the rest of    *)
(* the ranking leaves in may be the one with the best score.               *)
(***************************************************************************)
EXTENDS Naturals, FiniteSets

CONSTANTS
  Accounts,    \* every configured account
  Members,     \* the members of the pool under study
  Managed,     \* accounts whose credentials live in a home of the daemon
  NoAccount,   \* the absence of an account
  SwitchAt,    \* proxy.switch_at, in levels of usage
  RedeemAt,    \* AUTO_REDEEM_AT_PERCENT, in levels of usage
  FullUsage,   \* 100 percent, in levels of usage
  AutoRedeem,  \* proxy.auto_redeem_resets
  Orders       \* the pairs <<preferred, preserved>> a configuration may hold

ASSUME RouterAssumption ==
  /\ Members \subseteq Accounts
  /\ Managed \subseteq Accounts
  /\ NoAccount \notin Accounts
  /\ SwitchAt \in Nat \ {0}
  /\ RedeemAt \in Nat
  /\ FullUsage \in Nat
  /\ SwitchAt <= FullUsage
  /\ AutoRedeem \in BOOLEAN
  \* Config::validate lets no account have both roles of a file.
  /\ Orders \subseteq (Members \cup {NoAccount}) \X (Members \cup {NoAccount})
  /\ \A o \in Orders : o[1] = o[2] => o[1] = NoAccount

VARIABLES
  runtime,     \* [Accounts -> Runtime]
  preferred,   \* the account the operator prefers, or NoAccount
  preserved    \* the account the operator holds back, or NoAccount

routerVars == <<runtime, preferred, preserved>>

-----------------------------------------------------------------------------
(* State.                                                                  *)

AccountOrNone == Accounts \cup {NoAccount}

Runtime ==
  [needsLogin      : BOOLEAN,        \* rejected at request time, retry pending
   bearerUnusable  : BOOLEAN,        \* the managed credential file is unusable
   loginInProgress : BOOLEAN,
   quotaUntil      : BOOLEAN,        \* a quota cooldown has not elapsed
   usage           : 0..FullUsage,
   avoided         : BOOLEAN,        \* a transient cooldown has not elapsed
   capacity        : BOOLEAN,        \* in capacity backoff
   surplus         : BOOLEAN,        \* reserve_surplus > 0
   credit          : BOOLEAN]        \* holds a redeemable banked reset

FreshRuntime ==
  [needsLogin |-> FALSE, bearerUnusable |-> FALSE, loginInProgress |-> FALSE,
   quotaUntil |-> FALSE, usage |-> 0, avoided |-> FALSE, capacity |-> FALSE,
   surplus |-> FALSE, credit |-> FALSE]

RouterTypeOK ==
  /\ runtime \in [Accounts -> Runtime]
  /\ preferred \in Members \cup {NoAccount}
  /\ preserved \in Members \cup {NoAccount}

RouterInit ==
  /\ runtime = [a \in Accounts |-> FreshRuntime]
  /\ \E o \in Orders : preferred = o[1] /\ preserved = o[2]

-----------------------------------------------------------------------------
(* The predicates selectors and validators share.                          *)

AuthUnavailable(a) == runtime[a].needsLogin \/ runtime[a].bearerUnusable

QuotaBlocked(a) == runtime[a].quotaUntil \/ runtime[a].usage >= FullUsage

HardBlocked(a) ==
  \/ AuthUnavailable(a)
  \/ runtime[a].loginInProgress
  \/ QuotaBlocked(a)

\* A transient cooldown keeps fresh work away and leaves bound work in place.
DispatchBlocked(a, bound) ==
  HardBlocked(a) \/ (~bound /\ runtime[a].avoided)

BelowSwitchAt(a) == runtime[a].usage < SwitchAt

\* The selector's softer test: a redeemable reset refills the account.
TakesNewSessions(a) ==
  \/ BelowSwitchAt(a)
  \/ /\ AutoRedeem
     /\ a # preserved
     /\ runtime[a].usage < RedeemAt
     /\ runtime[a].credit

\* A preserved account with no surplus waits until nothing else is eligible.
Held(a) == a = preserved /\ ~runtime[a].surplus

-----------------------------------------------------------------------------
(* Selection.                                                              *)

Eligible(excluded) ==
  {a \in Members : a # excluded /\ ~DispatchBlocked(a, FALSE)}

\* Those members of S that are also good, when there are any; otherwise S.
Prefer(S, good) == IF S \cap good = {} THEN S ELSE S \cap good

NotHeld == {a \in Members : ~Held(a)}
Calm    == {a \in Members : ~runtime[a].capacity}
Roomy   == {a \in Members : TakesNewSessions(a)}

\* Eligible accounts after the two soft preferences, in the code's order.
Candidates(excluded) == Prefer(Prefer(Eligible(excluded), NotHeld), Calm)

\* The accounts a fresh selection may return.  `hint` is the caller's own
\* preference; the configured one comes first.
FreshChoices(excluded, hint) ==
  LET roomy == Candidates(excluded) \cap Roomy
  IN  IF preferred \in roomy THEN {preferred}
      ELSE IF hint \in roomy THEN {hint}
      ELSE Prefer(Candidates(excluded), Roomy)

\* A thread that fell back to the preserved account returns to the preferred
\* one as soon as that can take work.
PreferredReclaims(owner, excluded) ==
  /\ owner = preserved
  /\ preferred \in Members \ {owner, excluded}
  /\ ~DispatchBlocked(preferred, FALSE)
  /\ ~runtime[preferred].capacity
  /\ BelowSwitchAt(preferred)

\* Whether a thread bound to owner, in a binding whose generation is current
\* or not, keeps its account.
BoundEligible(owner, current, excluded) ==
  /\ ~PreferredReclaims(owner, excluded)
  /\ owner # excluded
  /\ owner \in Members
  /\ current
  /\ ~DispatchBlocked(owner, TRUE)

ExactEligible(a) == a \in Members /\ ~DispatchBlocked(a, TRUE)

-----------------------------------------------------------------------------
(* Validation after an await: what validate_selection asks of the router.  *)

RuntimeStale(a, bound) == a \notin Members \/ DispatchBlocked(a, bound)

\* Mutation of PreservedSuperseded: the account a retry excludes counts as an
\* alternative.
PreservedSupersededByExcluded(a, excluded) ==
  /\ a = preserved
  /\ Held(a)
  /\ \E b \in Members \ {a} : ~DispatchBlocked(b, FALSE)

PreservedSuperseded(a, excluded) ==
  /\ a = preserved
  /\ Held(a)
  /\ \E b \in Members \ {a, excluded} : ~DispatchBlocked(b, FALSE)

PreferredSuperseded(a, excluded) ==
  /\ preferred \in Members \ {a, excluded}
  /\ ~DispatchBlocked(preferred, FALSE)
  /\ ~runtime[preferred].capacity \/ runtime[a].capacity
  /\ BelowSwitchAt(preferred)

OrderStale(a, bound, excluded) ==
  /\ ~bound
  /\ PreservedSuperseded(a, excluded) \/ PreferredSuperseded(a, excluded)

-----------------------------------------------------------------------------
(* Steps.  Each is one critical section of the accounts mutex, or of the    *)
(* two role mutexes.                                                       *)

Set(a, field, value) ==
  /\ runtime' = [runtime EXCEPT ![a][field] = value]
  /\ UNCHANGED <<preferred, preserved>>

\* A caller's own credential was rejected (first half of auth_failure; the
\* second half invalidates the account's bindings, in another step).
AuthFailureMark(a) ==
  /\ a \notin Managed
  /\ runtime' = [runtime EXCEPT ![a].needsLogin = TRUE, ![a].avoided = TRUE]
  /\ UNCHANGED <<preferred, preserved>>

\* The 60 second retry window passed; the next reader clears the flag.
AuthRetryElapsed(a) == runtime[a].needsLogin /\ Set(a, "needsLogin", FALSE)

\* What ManagedAuthHealth reports of a home changed: upstream rejected its
\* bearer or refresh grant, or a refresh or login replaced the file.
BearerRejected(a) == a \in Managed /\ Set(a, "bearerUnusable", TRUE)
BearerReplaced(a) ==
  runtime[a].bearerUnusable /\ Set(a, "bearerUnusable", FALSE)

BeginLogin(a) ==
  /\ a \in Managed
  /\ ~runtime[a].loginInProgress
  /\ Set(a, "loginInProgress", TRUE)

FinishLogin(a, succeeded) ==
  /\ runtime[a].loginInProgress
  /\ IF succeeded
     THEN runtime' = [runtime EXCEPT ![a].loginInProgress = FALSE,
                                     ![a].needsLogin = FALSE,
                                     ![a].avoided = FALSE]
     ELSE runtime' = [runtime EXCEPT ![a].loginInProgress = FALSE]
  /\ UNCHANGED <<preferred, preserved>>

QuotaFailure(a) == Set(a, "quotaUntil", TRUE)

\* The cooldown deadline passed, or an observation or a confirmed reset
\* ended it early.
QuotaCleared(a) == runtime[a].quotaUntil /\ Set(a, "quotaUntil", FALSE)

\* Response headers or a usage poll reported usage, and with it the surplus
\* and the banked resets.
ObserveUsage(a, usage, surplus, credit) ==
  /\ runtime' = [runtime EXCEPT ![a].usage = usage, ![a].surplus = surplus,
                                ![a].credit = credit]
  /\ UNCHANGED <<preferred, preserved>>

SoftFailure(a) == Set(a, "avoided", TRUE)
AvoidElapsed(a) == runtime[a].avoided /\ Set(a, "avoided", FALSE)

\* Only the third rejection within two minutes starts a backoff.
CapacityFailure(a, trips) == Set(a, "capacity", runtime[a].capacity \/ trips)
CapacityElapsed(a) == runtime[a].capacity /\ Set(a, "capacity", FALSE)

\* The operator's edits.  A role that is set by itself was validated against
\* the file and is published by itself, whatever the other role is in here: a
\* file edited past the daemon leaves one account with both.
SetPreferred ==
  /\ \E o \in Orders : preferred' = o[1]
  /\ UNCHANGED <<runtime, preserved>>

SetPreserved ==
  /\ \E o \in Orders : preserved' = o[2]
  /\ UNCHANGED <<runtime, preferred>>

\* A change of an account's role publishes the saved pair.
SetAccountOrder ==
  /\ \E o \in Orders : preferred' = o[1] /\ preserved' = o[2]
  /\ UNCHANGED runtime

EditRoles == SetPreferred \/ SetPreserved \/ SetAccountOrder

RouterNext ==
  \/ \E a \in Accounts :
       \/ AuthFailureMark(a) \/ AuthRetryElapsed(a)
       \/ BearerRejected(a) \/ BearerReplaced(a)
       \/ BeginLogin(a) \/ FinishLogin(a, TRUE) \/ FinishLogin(a, FALSE)
       \/ QuotaFailure(a) \/ QuotaCleared(a)
       \/ \E u \in 0..FullUsage, s, c \in BOOLEAN : ObserveUsage(a, u, s, c)
       \/ SoftFailure(a) \/ AvoidElapsed(a)
       \/ \E trips \in BOOLEAN : CapacityFailure(a, trips)
       \/ CapacityElapsed(a)
  \/ EditRoles

RouterSpec == RouterInit /\ [][RouterNext]_routerVars

-----------------------------------------------------------------------------
(* Properties: what the selectors and the validators, written apart, owe   *)
(* each other.                                                             *)

\* An operator's file gives the account both roles, past this daemon, and the
\* account is to be held back: selection takes another, and the preferred one
\* supersedes that.
HeldAndPreferred ==
  preferred # NoAccount /\ preferred = preserved /\ Held(preferred)

\* Validation never rejects what selection just returned (the comment in
\* validate_selection).  Were it to, a request would burn its one re-selection
\* and fail with accounts to spare.  The router does it in one case, to the
\* accounts it picks in place of one that it holds back and prefers.
SelectedIsValid ==
  \A excluded, hint \in AccountOrNone : \A a \in FreshChoices(excluded, hint) :
    /\ ~RuntimeStale(a, FALSE)
    /\ OrderStale(a, FALSE, excluded) => HeldAndPreferred /\ a # preferred

\* The soft preferences (hold the preserved account back, avoid capacity
\* backoff, stay below the switch threshold, take the preferred account) never
\* turn a pool with an eligible account into an empty one.
PreferencesKeepPool ==
  \A excluded, hint \in AccountOrNone :
    Eligible(excluded) # {} => FreshChoices(excluded, hint) # {}

\* A thread taken back from the preserved account lands on the preferred one,
\* and stays there: the reclaim rule and the selection agree, so it cannot
\* bounce between the two.
ReclaimedThreadsReturn ==
  \A owner \in Accounts : \A excluded, hint \in AccountOrNone :
    PreferredReclaims(owner, excluded) =>
      /\ FreshChoices(excluded, hint) = {preferred}
      /\ BoundEligible(preferred, TRUE, excluded)
=============================================================================
