----------------------------- MODULE AutoRedeem -----------------------------
(***************************************************************************)
(* Who spends the banked resets of one account: the usage sweep, which     *)
(* redeems one when its reading says that the quota is nearly used up      *)
(* (src/proxy/reset_credits.rs, auto_redeem_reset), and an operator.  Both *)
(* go through use_reset_credit, whose rules for one call ResetCredits      *)
(* models in detail; here it is the decision, taken on a reading that is   *)
(* not made again, and the attempt that is retried as it was sent.  What   *)
(* holds the sweep back is left open: the gain, the buffer before a window *)
(* that restarts by itself, and the marks of earlier attempts.             *)
(***************************************************************************)
EXTENDS Naturals

CONSTANTS
  Credits,      \* banked resets, in the order in which they expire
  Expiring,     \* those that expire within a day
  MaxRequests,  \* bound on the request ids
  MaxWindow,    \* bound on the windows that begin
  Nothing

VARIABLES
  window,       \* provider: the quota window that is running
  spent,        \* provider: the POST that each credit was spent for
  posts,        \* POSTs on their way to the provider
  known,        \* the credits that the router's snapshot shows, kept from the
                \* sweep's listing to its decision, since it lists them each time
  attempt,      \* the account's ResetAttempt, under the usage lock
  lock,         \* who holds the usage lock
  proc,         \* the sweep and the operator
  requests,     \* request ids so far
  excused       \* history: what may cost a second reset, see SpentOnce

vars == <<window, spent, posts, known, attempt, lock, proc, requests, excused>>
providerVars == <<window, spent, posts>>

-----------------------------------------------------------------------------
(* Usage is told in steps: none, some, and as much as                      *)
(* AUTO_REDEEM_AT_PERCENT asks for.                                        *)

Full == 2

Reading == [number : 0..MaxWindow, used : 0..Full]

Callers == {"sweep", "operator"}

\* A ResetOutcome; no credit goes missing here, so NoCredit is left out.
Code == {"reset", "nothing", "already"}

\* `on`: the window that the sweep decided on, Nothing for an operator.
Attempt == [credit : Credits, request : 1..MaxRequests,
            on : 0..MaxWindow \cup {Nothing}, result : Code \cup {Nothing}]

\* `caller` waits for the answer, if anyone still does.
Post == [credit : Credits, request : 1..MaxRequests,
         on : 0..MaxWindow \cup {Nothing}, caller : Callers \cup {Nothing}]

Idle == [stage |-> "idle", seen |-> Nothing, credit |-> Nothing,
         request |-> Nothing, retry |-> FALSE, pending |-> FALSE, reply |-> Nothing]

Init ==
  /\ window = [number |-> 0, used |-> 0]
  /\ spent = [c \in Credits |-> Nothing]
  /\ posts = {}
  /\ known = Nothing
  /\ attempt = Nothing
  /\ lock = Nothing
  /\ proc = [p \in Callers |-> Idle]
  /\ requests = 0
  /\ excused = FALSE

At(p, stage) == proc[p].stage = stage

Mine == proc["sweep"]

To(p, stage) == proc' = [proc EXCEPT ![p].stage = stage]
Rest(p) == proc' = [proc EXCEPT ![p] = Idle]

Unspent == {c \in Credits : spent[c] = Nothing}

\* What a refresh leaves in the router: the listing, or none if it failed.
Listed == known' \in {Unspent, Nothing}

-----------------------------------------------------------------------------
(* Reading the usage (fetch_managed_usage_account).                        *)

\* The lock, and the usage as it is when it is read.
ReadUsage ==
  /\ At("sweep", "idle") /\ lock = Nothing
  /\ lock' = "sweep"
  /\ proc' = [proc EXCEPT !["sweep"].stage = "credits", !["sweep"].seen = window]
  /\ UNCHANGED <<providerVars, known, attempt, requests, excused>>

\* refresh_reset_credits; the sweep goes on to other accounts before it decides.
ReadCredits ==
  /\ At("sweep", "credits")
  /\ Listed
  /\ lock' = Nothing
  /\ To("sweep", "decide")
  /\ UNCHANGED <<providerVars, attempt, requests, excused>>

\* A request fails or the time is up.
ReadFails ==
  /\ At("sweep", "credits")
  /\ lock' = Nothing
  /\ Rest("sweep")
  /\ UNCHANGED <<providerVars, known, attempt, requests, excused>>

\* A status request or an acknowledgement reads as well, before the decision.
ReadStatus ==
  /\ At("sweep", "decide") /\ lock = Nothing
  /\ Listed
  /\ UNCHANGED <<providerVars, attempt, lock, proc, requests, excused>>

-----------------------------------------------------------------------------
(* The decision of the sweep.                                              *)

Soonest(c) == known # Nothing /\ c \in known /\ \A d \in known : c <= d

\* Nearly used up, or the credit would expire unused; a window that has just
\* begun gains nothing (redemption_gain).
Due(reading, c) == reading.used = Full \/ (reading.used > 0 /\ c \in Expiring)

Redeems(c) == Soonest(c) /\ Due(Mine.seen, c)

\* auto_redeem_reset up to its call, with a request id of its own.
Decide ==
  /\ At("sweep", "decide")
  /\ \E c \in Credits :
       /\ Redeems(c)
       /\ requests < MaxRequests
       /\ requests' = requests + 1
       /\ proc' = [proc EXCEPT !["sweep"].stage = "redeem",
                     !["sweep"].credit = c, !["sweep"].request = requests + 1]
  /\ known' = Nothing
  /\ UNCHANGED <<providerVars, attempt, lock, excused>>

\* No credit, too little to gain, or an earlier attempt not long ago.
Refrain ==
  /\ At("sweep", "decide")
  /\ known' = Nothing
  /\ Rest("sweep")
  /\ UNCHANGED <<providerVars, attempt, lock, requests, excused>>

-----------------------------------------------------------------------------
(* The call.                                                               *)

\* An error: the sweep looks for an earlier attempt to settle, once.
Erred(p) ==
  proc' = IF p = "sweep" /\ ~proc[p].pending
          THEN [proc EXCEPT ![p].stage = "check", ![p].reply = Nothing]
          ELSE [proc EXCEPT ![p] = Idle]

\* An attempt without an outcome stands in the way of any other.
Uncertain(request) ==
  attempt # Nothing /\ attempt.result = Nothing /\ attempt.request # request

Kept(request) == attempt # Nothing /\ attempt.request = request

\* The lock is busy, or an earlier attempt is uncertain.
Refuse ==
  /\ At("sweep", "redeem")
  /\ lock # Nothing \/ Uncertain(Mine.request)
  /\ Erred("sweep")
  /\ UNCHANGED <<providerVars, known, attempt, lock, requests, excused>>

\* The outcome that was kept is answered again.
Replay ==
  /\ At("sweep", "redeem") /\ lock = Nothing
  /\ Kept(Mine.request) /\ attempt.result # Nothing
  /\ Rest("sweep")
  /\ UNCHANGED <<providerVars, known, attempt, lock, requests, excused>>

\* The first attempt of a request, or a retry with what it was sent with.
Enter(p, c, request) ==
  /\ lock = Nothing /\ ~Uncertain(request)
  /\ Kept(request) => attempt.credit = c /\ attempt.result = Nothing
  /\ lock' = p
  /\ proc' = [proc EXCEPT ![p].stage = "list", ![p].credit = c,
                          ![p].request = request, ![p].retry = Kept(request)]
  /\ UNCHANGED <<providerVars, known, attempt>>

Redeem ==
  /\ At("sweep", "redeem")
  /\ Enter("sweep", Mine.credit, Mine.request)
  /\ UNCHANGED <<requests, excused>>

\* An operator redeems any credit, with a new request or one used before; what
\* would be refused or answered from memory changes nothing.
Ask(c, request) ==
  /\ At("operator", "idle")
  /\ request <= requests + 1
  /\ requests' = IF request > requests THEN request ELSE requests
  /\ Enter("operator", c, request)
  /\ excused' = (excused \/ Mine.stage \in {"decide", "redeem", "check"})

On(p) == IF p = "sweep" THEN Mine.seen.number ELSE Nothing

Reserved(p) ==
  IF proc[p].retry THEN attempt
  ELSE [credit |-> proc[p].credit, request |-> proc[p].request, on |-> On(p),
        result |-> Nothing]

\* The listing has the credit, unless it is a retry; the attempt is kept, the
\* snapshot's listing dropped, and the POST sent.
Send(p) ==
  /\ At(p, "list")
  /\ proc[p].retry \/ proc[p].credit \in Unspent
  /\ attempt' = Reserved(p)
  /\ known' = Nothing
  /\ posts' = posts \cup {[credit |-> proc[p].credit, request |-> proc[p].request,
                           on |-> Reserved(p).on, caller |-> p]}
  /\ To(p, "wait")
  /\ UNCHANGED <<window, spent, lock, requests, excused>>

\* The caller hears no outcome: an error, a timeout, an answer that is not
\* understood, or a credit that is gone.  A POST it has sent may still arrive.
Fail(p) ==
  /\ \/ At(p, "list")
     \/ At(p, "wait") /\ proc[p].reply = Nothing
  /\ posts' = {IF q.caller = p THEN [q EXCEPT !.caller = Nothing] ELSE q : q \in posts}
  /\ lock' = Nothing
  /\ Erred(p)
  /\ UNCHANGED <<window, spent, known, attempt, requests, excused>>

UnderWay(request) == \E q \in posts : q.request = request

\* A client error other than a timeout or a conflict.
Refused(p) ==
  /\ At(p, "wait") /\ proc[p].reply = "refused"
  /\ attempt' = Nothing
  /\ excused' = (excused \/ UnderWay(proc[p].request))
  /\ lock' = Nothing
  /\ Erred(p)
  /\ UNCHANGED <<providerVars, known, requests>>

\* The outcome is kept, and the usage read again under the same lock.
Learn(p) ==
  /\ At(p, "wait") /\ proc[p].reply \in Code
  /\ attempt' = [attempt EXCEPT !.result = proc[p].reply]
  /\ IF At("sweep", "decide") THEN Listed \/ UNCHANGED known ELSE UNCHANGED known
  /\ lock' = Nothing
  /\ Rest(p)
  /\ excused' = (excused \/ (proc[p].reply = "nothing" /\ UnderWay(proc[p].request)))
  /\ UNCHANGED <<providerVars, requests>>

\* After an error the sweep retries an earlier attempt, as it was sent.
Pending ==
  /\ At("sweep", "check")
  /\ IF lock = Nothing /\ attempt # Nothing /\ attempt.result = Nothing
          /\ attempt.request # Mine.request
     THEN proc' = [proc EXCEPT !["sweep"].stage = "redeem", !["sweep"].pending = TRUE,
                     !["sweep"].credit = attempt.credit,
                     !["sweep"].request = attempt.request]
     ELSE Rest("sweep")
  /\ UNCHANGED <<providerVars, known, attempt, lock, requests, excused>>

-----------------------------------------------------------------------------
(* The provider, time and the process.                                     *)

Reply(q, reply) ==
  proc' = IF q.caller = Nothing THEN proc ELSE [proc EXCEPT ![q.caller].reply = reply]

\* A POST arrives, in time or not: it resets the window if its credit is not
\* spent, or finds that nothing is to be reset.
Arrive(q) ==
  /\ q \in posts
  /\ posts' = posts \ {q}
  /\ \/ /\ spent[q.credit] = Nothing /\ window.number < MaxWindow
        /\ spent' = [spent EXCEPT ![q.credit] = q]
        /\ window' = [number |-> window.number + 1, used |-> 0]
        /\ Reply(q, "reset")
     \/ /\ spent[q.credit] = Nothing
        /\ Reply(q, "nothing")
        /\ UNCHANGED <<spent, window>>
     \/ /\ spent[q.credit] # Nothing
        /\ Reply(q, "already")
        /\ UNCHANGED <<spent, window>>
  /\ UNCHANGED <<known, attempt, lock, requests, excused>>

\* A POST is refused, or lost.
Drop(q, reply) ==
  /\ q \in posts
  /\ posts' = posts \ {q}
  /\ Reply(q, reply)
  /\ UNCHANGED <<window, spent, known, attempt, lock, requests, excused>>

\* The quota is used, or its window begins anew.
Pass ==
  /\ \/ window.used < Full /\ window' = [window EXCEPT !.used = @ + 1]
     \/ /\ window.number < MaxWindow
        /\ window' = [number |-> window.number + 1, used |-> 0]
  /\ UNCHANGED <<spent, posts, known, attempt, lock, proc,
                 requests, excused>>

\* The daemon restarts: the attempt is only in memory.
Restart ==
  /\ known' = Nothing /\ attempt' = Nothing /\ lock' = Nothing
  /\ proc' = [p \in Callers |-> Idle]
  /\ posts' = {[q EXCEPT !.caller = Nothing] : q \in posts}
  /\ excused' = (excused \/ posts # {})
  /\ UNCHANGED <<window, spent, requests>>

Next ==
  \/ ReadUsage \/ ReadCredits \/ ReadFails \/ ReadStatus
  \/ Decide \/ Refrain \/ Refuse \/ Replay \/ Redeem \/ Pending
  \/ \E c \in Credits, request \in 1..MaxRequests : Ask(c, request)
  \/ \E p \in Callers : Send(p) \/ Fail(p) \/ Refused(p) \/ Learn(p)
  \/ \E q \in posts : Arrive(q)
  \/ \E q \in posts, reply \in {"refused", Nothing} : Drop(q, reply)
  \/ Pass \/ Restart

Spec == Init /\ [][Next]_vars

-----------------------------------------------------------------------------
(* Properties.                                                             *)

TypeOK ==
  /\ window \in Reading
  /\ spent \in [Credits -> Post \cup {Nothing}]
  /\ posts \subseteq Post
  /\ known \in (SUBSET Credits) \cup {Nothing}
  /\ attempt \in Attempt \cup {Nothing}
  /\ lock \in Callers \cup {Nothing}
  /\ requests \in 0..MaxRequests

(***************************************************************************)
(* One exhausted window costs one banked reset: whatever answers are late  *)
(* or lost, no two credits are spent on what the sweep read of the same    *)
(* window.  What can cost a second one is an attempt that was forgotten or *)
(* settled while a POST of it was under way (in a restart, after a refused *)
(* retry, or with nothing to reset), and an operator's redemption while    *)
(* the sweep decides on its reading.                                       *)
(***************************************************************************)
SpentOnce ==
  excused \/
  \A c, d \in Credits :
    /\ spent[c] # Nothing /\ spent[d] # Nothing
    /\ spent[c].on # Nothing /\ spent[c].on = spent[d].on
    => c = d
=============================================================================
