---------------------------- MODULE QuotaWindows ----------------------------
(***************************************************************************)
(* What the router believes of one account's quota, and when it tells a    *)
(* client to come back (routing/router.rs; proxy/mod.rs and usage.rs       *)
(* fetch and report).  The provider counts usage in windows that begin     *)
(* anew after a fixed period.  Its answers show windows, in part, with a   *)
(* reset that is a point in time or so many seconds away, and reach the    *)
(* router late and out of order: headers of any answer, a rejection, the   *)
(* answer to a poll.  A rejection blocks the account until a deadline and  *)
(* keeps as evidence the windows that caused it; an exhausted window       *)
(* blocks by itself.                                                       *)
(*                                                                         *)
(* Time is counted in half seconds, so that rounding to seconds shows: a   *)
(* second is two ticks.  The router has two clocks, the wall clock (now)   *)
(* and a monotonic one that stands still while the machine sleeps.  Every  *)
(* answer is taken to be of the identity the account has (AuthRefresh      *)
(* models the change of identities), and a window's length, which only     *)
(* placement uses, is left out.                                            *)
(***************************************************************************)
EXTENDS Integers, FiniteSetsExt

CONSTANTS
  Windows,
  Period,      \* ticks of each window's cycle
  Full,        \* usage that exhausts a window: 100 percent
  Tolerance,   \* ticks a reset must have advanced by: 60 seconds
  MaxDelay,    \* bound on the ticks an answer is under way
  Default, Longest,  \* seconds: the block of a rejection that shows no time,
                     \* and the longest block
  Avoid,       \* seconds of the pause after a transient failure
  RetryLimit,  \* the longest wait a client is told, in seconds
  Nap,         \* ticks of a sleep
  Answers,     \* the kinds of answers, and what of the windows they show
  FirstNow, MaxNow, MaxSent  \* bounds on time, and on answers, naps and failures

Unseen == -1   \* a field that is not there

Kinds == {"headers", "rejection", "poll"}

\* What an answer shows of some windows: their usage, their reset as a point in
\* time ("at") or as seconds to go, rounded up ("after"), or both; or, of an
\* older provider, one number for all.
Forms == {"used", "at", "used at", "used after", "legacy"}

\* An answer is read long before a reset could have moved by the tolerance
\* for its lateness alone; windows begin anew on whole seconds.
QuotaWindowsAssumption ==
  /\ {MaxDelay, Default, Longest, Avoid, RetryLimit, Nap, FirstNow} \subseteq Nat
  /\ {Full, Tolerance} \subseteq Int
  /\ MaxDelay < Tolerance
  /\ \A w \in Windows :
       Period[w] \in Nat /\ Period[w] > 2 * Tolerance /\ Period[w] % 2 = 0
  /\ Answers \subseteq
       [kind : Kinds, shown : SUBSET Windows, form : Forms, wait : Nat \cup {Unseen}]
  /\ \A a \in Answers :
       /\ a.kind = "poll" => a.shown # {} /\ a.form # "used after"
       /\ a.kind # "rejection" => a.wait = Unseen
       /\ a.form = "legacy" => a.kind = "headers"

VARIABLES
  now,      \* the wall clock
  slept,    \* ticks the monotonic clock has missed
  used,     \* the provider's count of each window
  answers,  \* under way to the router
  account,  \* what the router keeps of the account
  sent,     \* answers, naps and failures so far
  lifted    \* history: the last step lifted the block of a rejection upon an
            \* answer, though a window that had caused it was still the same

quotaVars == <<now, slept, used, answers, account, sent, lifted>>

Instant == now - slept
Seconds(t) == t \div 2
CeilSeconds(t) == (t + 1) \div 2
Cycle(w, t) == t \div Period[w]
ResetOf(w) == (Cycle(w, now) + 1) * Period[w]

Window == [used |-> Unseen, reset |-> Unseen]
NoEvidence == [w \in {} |-> Window]

\* The block of a rejection is over.
Lift(a) ==
  [a EXCEPT !.until = Unseen, !.resetAt = Unseen, !.evidence = NoEvidence]

Init ==
  /\ now = FirstNow /\ slept = 0
  /\ used = [w \in Windows |-> 0]
  /\ answers = {}
  /\ account = [until |-> Unseen, resetAt |-> Unseen, evidence |-> NoEvidence,
                windows |-> [w \in Windows |-> Window],
                legacy |-> Unseen, avoid |-> Unseen]
  /\ sent = 0
  /\ lifted = FALSE

----------------------------------------------------------------------------
(* What an answer says.                                                    *)

Told(shown, form) ==
  [w \in shown |->
     [used |-> IF form = "at" THEN Unseen ELSE used[w],
      cycle |-> Cycle(w, now),
      reset |-> CASE form = "used" -> Unseen
                  [] form = "used after" -> 2 * CeilSeconds(ResetOf(w) - now)
                  [] OTHER -> ResetOf(w)]]

\* quota_evidence: seconds to go count from when the answer is read.
Evidence(m) ==
  IF m.form = "used after"
  THEN [w \in DOMAIN m.told |-> [m.told[w] EXCEPT !.reset = now + @]]
  ELSE m.told

\* blocking_quota_evidence: the exhausted windows, or all that are shown.
Blocking(evidence) ==
  LET exhausted == {w \in DOMAIN evidence : evidence[w].used >= Full}
  IN  [w \in IF exhausted = {} THEN DOMAIN evidence ELSE exhausted |-> evidence[w]]

\* quota_delay_at, in seconds.
Delay(retryAfter, evidence) ==
  LET resets == {CeilSeconds(Max({evidence[w].reset - now, 0})) :
                   w \in {x \in DOMAIN evidence : evidence[x].reset # Unseen}}
      told == resets \cup ({retryAfter} \ {Unseen})
  IN  IF told = {} THEN Default ELSE Max({1, Min({Max(told), Longest})})

\* quota_reset_confirmed: every blocking window shows less usage and a reset
\* that has advanced by more than the tolerance.
Confirmed(blocked, observed) ==
  /\ DOMAIN blocked # {}
  /\ \A w \in DOMAIN blocked :
       /\ w \in DOMAIN observed
       /\ observed[w].used # Unseen
       /\ observed[w].used < IF blocked[w].used = Unseen THEN Full ELSE blocked[w].used
       /\ Unseen \notin {blocked[w].reset, observed[w].reset}
       /\ observed[w].reset - blocked[w].reset > Tolerance

----------------------------------------------------------------------------
(* What the router makes of it.                                            *)

\* usage_at: windows whose reset has passed do not count.
Live(a, t) == {w \in Windows : a.windows[w].reset = Unseen
                               \/ a.windows[w].reset > Seconds(t)}
UsageAt(a, t) == Max({a.legacy} \cup {a.windows[w].used : w \in Live(a, t)})

QuotaBlocked(a, t, i) == a.until > i \/ UsageAt(a, t) >= Full
Avoided(a, i) == a.avoid > i
Blocked(a, t, i) == QuotaBlocked(a, t, i) \/ Avoided(a, i)

\* reconcile_expired_quota: after a sleep the deadline may lie beyond the reset.
Reconciled(a, t, i) ==
  IF a.until > i /\ a.resetAt <= t
  THEN Lift(a)
  ELSE a

\* account_routing_status: when the account is due back, in seconds of the
\* wall clock, Unseen when that is not known.
RetryAt(a, t, i) ==
  LET deadline == IF QuotaBlocked(a, t, i) THEN a.until ELSE a.avoid
      due == IF deadline = Unseen THEN Unseen
             ELSE Seconds(t) + Seconds(Max({deadline - i, 0}))
      exhausted == {w \in Live(a, t) : a.windows[w].used >= Full}
      resets == {a.windows[w].reset : w \in exhausted}
  IN  IF UsageAt(a, t) < Full THEN due
      ELSE IF a.legacy >= Full \/ Unseen \in resets THEN Unseen
      ELSE Max(resets \cup {due})

\* Mutant: the rounded time of the status is told as it is.
WaitRounded(a, t, i) ==
  IF RetryAt(a, t, i) = Unseen THEN Unseen
  ELSE Max({RetryAt(a, t, i) - Seconds(t), 1})

\* soonest_retry, for a pool of this account: the seconds to wait.
Wait(a, t, i) ==
  LET ticks == Max({2 * Max({RetryAt(a, t, i) - Seconds(t), 1}),
                    a.until - i, a.avoid - i})
  IN  IF RetryAt(a, t, i) = Unseen THEN Unseen ELSE CeilSeconds(ticks)

\* no_eligible_response: what a client is told, when it is soon enough.
RetryAfter(a, t, i) == IF Wait(a, t, i) <= RetryLimit THEN Wait(a, t, i) ELSE Unseen

\* An observation lifts the block of a rejection that it confirms to be over.
Observed(a, observed) ==
  IF Confirmed(a.evidence, observed) THEN Lift(a) ELSE a

TooEarly(a, observed) ==
  /\ a.until # Unseen /\ Observed(a, observed).until = Unseen
  /\ \E w \in DOMAIN a.evidence : observed[w].cycle <= a.evidence[w].cycle

----------------------------------------------------------------------------
(* The provider and time.                                                  *)

Tick ==
  /\ now < MaxNow
  /\ \A m \in answers : now - m.sent < MaxDelay
  /\ now' = now + 1
  /\ used' = [w \in Windows |-> IF (now + 1) % Period[w] = 0 THEN 0 ELSE used[w]]
  /\ account' = Reconciled(account, now + 1, now + 1 - slept)
  /\ lifted' = FALSE
  /\ UNCHANGED <<slept, answers, sent>>

\* The machine sleeps: the connections that carry answers do not survive.
Sleep ==
  /\ now < MaxNow /\ sent < MaxSent /\ answers = {}
  /\ now' = now + Nap /\ slept' = slept + Nap
  /\ used' = [w \in Windows |-> IF Cycle(w, now + Nap) # Cycle(w, now) THEN 0 ELSE used[w]]
  /\ account' = Reconciled(account, now + Nap, Instant)
  /\ lifted' = FALSE
  /\ sent' = sent + 1
  /\ UNCHANGED answers

Exhaust(w) ==
  /\ used[w] < Full
  /\ used' = [used EXCEPT ![w] = Full]
  /\ lifted' = FALSE
  /\ UNCHANGED <<now, slept, answers, account, sent>>

\* An answer leaves the provider: one of a request, a rejection, a poll's.
\* fetch_managed_usage_account holds the account's lock, so one poll at a time.
\* An older provider tells one number for all windows (legacy).
Answer(a) ==
  /\ sent < MaxSent
  /\ a.kind = "poll" => \A m \in answers : m.kind # "poll"
  /\ sent' = sent + 1
  /\ answers' = answers \cup
       {[kind |-> a.kind, sent |-> now, form |-> a.form,
         told |-> IF a.form = "legacy" THEN NoEvidence ELSE Told(a.shown, a.form),
         wait |-> a.wait,
         legacy |-> IF a.form = "legacy" THEN Max({used[w] : w \in Windows}) ELSE Unseen]}
  /\ lifted' = FALSE
  /\ UNCHANGED <<now, slept, used, account>>

\* A poll times out, or its body does not parse; a connection breaks.  What is
\* lost does not count in the bound.
Lose(m) ==
  /\ m \in answers /\ m.kind # "refused"
  /\ answers' = answers \ {m}
  /\ sent' = sent - 1
  /\ lifted' = FALSE
  /\ UNCHANGED <<now, slept, used, account>>

----------------------------------------------------------------------------
(* The router's handlers.                                                  *)

\* A part of the windows, one by one.  Usage that is new does not go with a
\* reset that has passed.
Updated(seen) ==
  LET Kept(w) == IF /\ seen[w].used # Unseen
                    /\ account.windows[w].reset <= Seconds(now)
                 THEN Unseen ELSE account.windows[w].reset
  IN  [w \in Windows |->
         IF w \notin DOMAIN seen THEN account.windows[w]
         ELSE [used |-> IF seen[w].used = Unseen THEN account.windows[w].used
                                                 ELSE seen[w].used,
               reset |-> IF seen[w].reset = Unseen THEN Kept(w)
                                                   ELSE Seconds(seen[w].reset)]]

\* observe_headers_for_owner
ObserveHeaders(m) ==
  /\ m \in answers /\ m.kind \in {"headers", "rejection"}
  /\ account' = [Observed(account, Evidence(m)) EXCEPT
                   !.windows = Updated(Evidence(m)),
                   !.legacy = IF m.legacy = Unseen THEN @ ELSE m.legacy]
  /\ lifted' = TooEarly(account, Evidence(m))
  \* The headers of a rejection are observed before it is recorded.
  /\ answers' = (answers \ {m}) \cup
                  (IF m.kind = "rejection" THEN {[m EXCEPT !.kind = "refused"]} ELSE {})
  /\ UNCHANGED <<now, slept, used, sent>>

\* quota_failure_for_owner
QuotaFailed(a, m) ==
  LET blocking == Blocking(Evidence(m))
      delay == 2 * Delay(m.wait, blocking)
  IN  [a EXCEPT !.until = Instant + delay, !.resetAt = now + delay, !.evidence = blocking]

\* record_rejection_health
RecordRejection(m) ==
  /\ m \in answers /\ m.kind = "refused"
  /\ account' = QuotaFailed(account, m)
  /\ answers' = answers \ {m}
  /\ lifted' = FALSE
  /\ UNCHANGED <<now, slept, used, sent>>

\* A poll's windows, all there are.
Snapshot(seen) ==
  [w \in Windows |->
     IF w \notin DOMAIN seen THEN Window
     ELSE [used |-> seen[w].used,
           reset |-> IF seen[w].reset = Unseen THEN Unseen ELSE Seconds(seen[w].reset)]]

\* observe_usage_snapshot_for_owner
ObserveUsage(m) ==
  /\ m \in answers /\ m.kind = "poll"
  /\ account' = [Observed(account, Evidence(m)) EXCEPT
                   !.windows = Snapshot(Evidence(m)), !.legacy = Unseen]
  /\ lifted' = TooEarly(account, Evidence(m))
  /\ answers' = answers \ {m}
  /\ UNCHANGED <<now, slept, used, sent>>

\* soft_failure
SoftFailure ==
  /\ sent < MaxSent
  /\ account' = [account EXCEPT !.avoid = Instant + 2 * Avoid]
  /\ lifted' = FALSE
  /\ sent' = sent + 1
  /\ UNCHANGED <<now, slept, used, answers>>

Next ==
  \/ Tick
  \/ Sleep
  \/ \E w \in Windows : Exhaust(w)
  \/ \E a \in Answers : Answer(a)
  \/ \E m \in answers : Lose(m) \/ ObserveHeaders(m) \/ RecordRejection(m) \/ ObserveUsage(m)
  \/ SoftFailure

----------------------------------------------------------------------------
(* Properties.                                                             *)

\* Whoever waits as long as no_eligible_response told it finds the account
\* ready, unless something else was observed meanwhile: rounding never sends
\* a client back too early, and no window or deadline is forgotten.
RetryIsEnough ==
  LET a == Reconciled(account, now, Instant)
      wait == RetryAfter(a, now, Instant)
      later == 2 * wait
  IN  Blocked(a, now, Instant) /\ wait # Unseen =>
        ~Blocked(Reconciled(a, now + later, Instant + later), now + later, Instant + later)

\* A late answer never lifts the block of a rejection: only one of a cycle that
\* began after the rejection's, in every window that had caused it.
LiftedAfterReset == ~lifted
=============================================================================
