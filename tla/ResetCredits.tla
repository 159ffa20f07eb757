---------------------------- MODULE ResetCredits ----------------------------
(***************************************************************************)
(* Redeeming the banked resets of one account                              *)
(* (src/proxy/reset_credits.rs, use_reset_credit): the attempt that is     *)
(* kept under the account's usage lock, the POST whose answer may be late  *)
(* or lost, and the confirmation that lifts the account's quota block      *)
(* while rejections go on arriving (src/routing/router.rs,                 *)
(* reset_generation_for_owner and confirm_reset_for_owner).  The operator, *)
(* the app and the usage sweep all redeem through this operation.          *)
(***************************************************************************)
EXTENDS Naturals, FiniteSets

CONSTANTS
  Owners,       \* identities that may be logged in to the account
  Credits, Requests, Nothing,
  MaxCalls,     \* bound on the redemptions asked for
  MaxFailures   \* bound on the generation of quota failures

VARIABLES
  login,        \* the identity of the account's credential file
  health,       \* the account's quota state in the router
  attempt,      \* the account's ResetAttempt, under the usage lock
  call,         \* the redemption that holds the lock
  calls,        \* how many were asked for
  posts,        \* POSTs on their way to the provider
  redeemed,     \* provider: the request that spent a credit of an owner
  window,       \* provider: how many resets each owner's quota has had
  unspent       \* history: the attempt's credit was unspent when it was kept

vars == <<login, health, attempt, call, calls, posts, redeemed, window, unspent>>

-----------------------------------------------------------------------------

Window == 0..Cardinality(Credits)

\* `block` is the window of the newest rejection that blocks the account.
Health == [owner : Owners, generation : 0..MaxFailures,
           block : Window \cup {Nothing}]

Post == [call : 1..MaxCalls, owner : Owners, credit : Credits, request : Requests]

Code == {"reset", "nothing", "already"}

Attempt == [owner : Owners, credit : Credits, request : Requests,
            generation : 0..MaxFailures, result : Code \cup {Nothing}]

\* `generation` is request_generation; `reply` what the provider answered.
Call == [stage : {"list", "reserve", "post", "wait"}, owner : Owners,
         credit : Credits, request : Requests, retry : BOOLEAN,
         generation : 0..MaxFailures, reply : Code \cup {"refused", Nothing}]

Init ==
  /\ login \in Owners
  /\ health = [owner |-> login, generation |-> 0, block |-> Nothing]
  /\ attempt = Nothing
  /\ call = Nothing
  /\ calls = 0
  /\ posts = {}
  /\ redeemed = [o \in Owners |-> [c \in Credits |-> Nothing]]
  /\ window = [o \in Owners |-> 0]
  /\ unspent = FALSE

-----------------------------------------------------------------------------
(* The router.                                                             *)

\* reconcile_quota_owner_snapshot, for the identity that is logged in.
Reconciled ==
  IF health.owner = login THEN health
  ELSE [owner |-> login, generation |-> health.generation + 1, block |-> Nothing]

(***************************************************************************)
(* A quota rejection that the provider issued in window w to the identity  *)
(* that is logged in; one to another identity is not accepted.             *)
(***************************************************************************)
Rejected(w) ==
  /\ w <= window[login]
  /\ Reconciled.generation < MaxFailures
  /\ health' = [Reconciled EXCEPT
                  !.generation = @ + 1,
                  !.block = IF @ = Nothing \/ @ < w THEN w ELSE @]
  /\ UNCHANGED <<login, attempt, call, calls, posts, redeemed, window, unspent>>

\* confirm_reset_for_owner
Confirmed(owner, generation) ==
  IF owner = login /\ Reconciled.generation = generation
  THEN [Reconciled EXCEPT !.block = Nothing]
  ELSE IF owner = login THEN Reconciled ELSE health

-----------------------------------------------------------------------------
(* The redemption.                                                         *)

Enter(credit, request, stage, retry) ==
  /\ call' = [stage |-> stage, owner |-> login, credit |-> credit,
              request |-> request, retry |-> retry, generation |-> 0,
              reply |-> Nothing]
  /\ calls' = calls + 1
  /\ UNCHANGED <<login, health, attempt, posts, redeemed, window, unspent>>

\* The same request is asked for again: its outcome is still unknown.
Retries(credit, request) ==
  /\ attempt # Nothing /\ attempt.request = request
  /\ attempt.credit = credit /\ attempt.owner = login
  /\ attempt.result = Nothing

\* Another request may start: the last one has its outcome, or its owner left.
Unblocked(request) ==
  attempt # Nothing =>
    /\ attempt.request # request
    /\ attempt.result # Nothing \/ attempt.owner # login

\* use_reset_credit up to its first request; any other combination is an error
\* or answered with the result that was kept.
Redeem(credit, request) ==
  /\ call = Nothing /\ calls < MaxCalls
  /\ \/ Retries(credit, request) /\ Enter(credit, request, "reserve", TRUE)
     \/ Unblocked(request) /\ Enter(credit, request, "list", FALSE)

\* The listing shows the credit as redeemable.
List ==
  /\ call # Nothing /\ call.stage = "list"
  /\ redeemed[call.owner][call.credit] = Nothing
  /\ call' = [call EXCEPT !.stage = "reserve"]
  /\ UNCHANGED <<login, health, attempt, calls, posts, redeemed, window, unspent>>

\* The identity is read again, the generation with it, and the attempt kept.
Reserve ==
  /\ call # Nothing /\ call.stage = "reserve" /\ call.owner = login
  /\ health' = Reconciled
  /\ call' = [call EXCEPT !.stage = "post", !.generation = Reconciled.generation]
  /\ attempt' = IF call.retry THEN attempt
                ELSE [owner |-> call.owner, credit |-> call.credit,
                      request |-> call.request,
                      generation |-> Reconciled.generation, result |-> Nothing]
  /\ unspent' = IF call.retry THEN unspent
                ELSE redeemed[call.owner][call.credit] = Nothing
  /\ UNCHANGED <<login, calls, posts, redeemed, window>>

ThisPost == [call |-> calls, owner |-> call.owner, credit |-> call.credit,
             request |-> call.request]

Send ==
  /\ call # Nothing /\ call.stage = "post"
  /\ posts' = posts \cup {ThisPost}
  /\ call' = [call EXCEPT !.stage = "wait"]
  /\ UNCHANGED <<login, health, attempt, calls, redeemed, window, unspent>>

\* The call ends without the outcome of its POST, if it has sent one: an error,
\* a timeout, an answer that is not understood, or a client that left.
Leave ==
  /\ call # Nothing
  /\ call' = Nothing
  /\ UNCHANGED <<login, health, attempt, calls, posts, redeemed, window, unspent>>

\* A client error other than a timeout or a conflict.
Refused ==
  /\ call # Nothing /\ call.reply = "refused"
  /\ attempt' = Nothing
  /\ call' = Nothing
  /\ UNCHANGED <<login, health, calls, posts, redeemed, window, unspent>>

\* Mutant: a replay confirms as of now.
ConfirmedAsOfNow == call.generation

\* A fresh reset counts as of this request, a replay as of the first.
ConfirmedAsOf == IF call.reply = "reset" THEN call.generation ELSE attempt.generation

(***************************************************************************)
(* The outcome: the confirmation, then the result is kept.  The usage that *)
(* is read next does not matter here.                                      *)
(***************************************************************************)
Learn ==
  /\ call # Nothing /\ call.reply \in Code
  /\ health' = IF call.reply = "reset" \/ (call.retry /\ call.reply = "already")
               THEN Confirmed(call.owner, ConfirmedAsOf) ELSE health
  /\ attempt' = [attempt EXCEPT !.result = call.reply]
  /\ call' = Nothing
  /\ UNCHANGED <<login, calls, posts, redeemed, window, unspent>>

-----------------------------------------------------------------------------
(* The provider, the login and the process.                                *)

Reply(p, reply) ==
  call' = IF call # Nothing /\ call.stage = "wait" /\ p = ThisPost
          THEN [call EXCEPT !.reply = reply] ELSE call

\* A POST arrives, in time or not.  A credit is spent once; a reset may not be
\* due, which keeps the credit.
Arrive(p) ==
  /\ p \in posts
  /\ posts' = posts \ {p}
  /\ \/ /\ redeemed[p.owner][p.credit] = Nothing
        /\ redeemed' = [redeemed EXCEPT ![p.owner][p.credit] = p.request]
        /\ window' = [window EXCEPT ![p.owner] = @ + 1]
        /\ Reply(p, "reset")
     \/ /\ redeemed[p.owner][p.credit] = Nothing
        /\ Reply(p, "nothing")
        /\ UNCHANGED <<redeemed, window>>
     \/ /\ redeemed[p.owner][p.credit] # Nothing
        /\ Reply(p, "already")
        /\ UNCHANGED <<redeemed, window>>
  /\ UNCHANGED <<login, health, attempt, calls, unspent>>

\* A POST is refused, or lost.
Drop(p, reply) ==
  /\ p \in posts
  /\ posts' = posts \ {p}
  /\ Reply(p, reply)
  /\ UNCHANGED <<login, health, attempt, calls, redeemed, window, unspent>>

Login(o) ==
  /\ o # login
  /\ health.generation < MaxFailures
  /\ login' = o
  /\ UNCHANGED <<health, attempt, call, calls, posts, redeemed, window, unspent>>

\* The daemon restarts; attempts and quota state are only in memory.
Restart ==
  /\ attempt' = Nothing
  /\ call' = Nothing
  /\ health' = [owner |-> login, generation |-> 0, block |-> Nothing]
  /\ UNCHANGED <<login, calls, posts, redeemed, window, unspent>>

Next ==
  \/ \E credit \in Credits, request \in Requests : Redeem(credit, request)
  \/ List \/ Reserve \/ Send \/ Leave \/ Refused \/ Learn
  \/ \E p \in posts : Arrive(p)
  \/ \E p \in posts, reply \in {"refused", Nothing} : Drop(p, reply)
  \/ \E w \in Window : Rejected(w)
  \/ \E o \in Owners : Login(o)
  \/ Restart

Spec == Init /\ [][Next]_vars

-----------------------------------------------------------------------------
(* Properties.                                                             *)

TypeOK ==
  /\ login \in Owners
  /\ health \in Health
  /\ attempt \in Attempt \cup {Nothing}
  /\ call \in Call \cup {Nothing}
  /\ calls \in 0..MaxCalls
  /\ posts \subseteq Post
  /\ redeemed \in [Owners -> [Credits -> Requests \cup {Nothing}]]
  /\ window \in [Owners -> Window]
  /\ unspent \in BOOLEAN

(***************************************************************************)
(* A confirmation, however late, lifts no block that a rejection of the    *)
(* quota's current window put there: only what came before the reset goes. *)
(* A replay is told that the credit was redeemed before; that its own      *)
(* attempt did it is the code's guess, which is wrong when the POST of an  *)
(* attempt that was forgotten arrives between the listing and Reserve.     *)
(***************************************************************************)
NewerRejectionStays ==
  [][Learn /\ (call.reply = "already" => unspent)
       /\ health.block # Nothing /\ health.owner = login
       /\ health.block = window[login] => health'.block = health.block]_vars
=============================================================================
