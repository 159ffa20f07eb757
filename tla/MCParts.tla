------------------------------ MODULE MCParts ------------------------------
(***************************************************************************)
(* Parts of the daemon that meet only in the router, side by side for TLC: *)
(* the operator's session routes (SessionRoutes), live calls (LiveCalls),  *)
(* reset credits (ResetCredits) and who spends them (AutoRedeem), the      *)
(* context store (ContextStore), the activation of quotas                  *)
(* (UsageActivation) and a Claude Code session (ClaudeSession).  A         *)
(* behaviour is that of one part; the others stay in an initial state.     *)
(***************************************************************************)
EXTENDS Naturals, FiniteSets, TLC

CONSTANTS
  Accounts, a1, a2, NoAccount, Nothing, u, v, k, l,
  Edits, MaxEdits,
  Calls, MaxEntries, TTL, MaxSeconds, MaxBinds,
  Credits, Redeemers, MaxCalls, MaxFailures,
  Banked, Ending, MaxIds, MaxWindows,
  MaxParticipants, MaxLogins,
  RetryAfter, MaxClock, MaxCycle,
  MaxStreams

ASSUME RoutesAssumption == MaxEdits \in Nat

ASSUME LiveAssumption ==
  /\ IsFiniteSet(Calls)
  /\ {MaxEntries, TTL, MaxSeconds, MaxBinds} \subseteq Nat

ASSUME ContextAssumption == {MaxParticipants, MaxLogins} \subseteq Nat

VARIABLES
  part,
  records, placements, edits, chosenSince,
  inner, snapshot, seconds, live,
  login, health, attempt, call, calls, posts, redeemed, window,
  unspent,
  quota, bought, orders, listed, standing, lock, proc, numbered,
  excused,
  aliases, logins, participants, inference, query, sentTo, noted,
  clock, cycle, ledger, file, worker, sent, witnessed,
  users, changes, exhausted, route, home, conv, creds, placed, streams, asked,
  level, source, spent, answerers, mistaken

routeVars == <<records, placements, edits, chosenSince>>
liveVars == <<inner, snapshot, seconds, live>>
resetVars == <<login, health, attempt, call, calls, posts, redeemed, window,
               unspent>>
sweepVars == <<quota, bought, orders, listed, standing, lock, proc, numbered,
               excused>>
contextVars == <<aliases, logins, participants, inference, query, sentTo, noted>>
usageVars == <<clock, cycle, ledger, file, worker, sent, witnessed>>
claudeVars == <<users, changes, exhausted, route, home, conv, creds, placed,
                streams, asked, level, source, spent, answerers,
                mistaken>>

Identities == {u, v}

\* What a Claude Code client asks for in two conversations: one whose history
\* grows, and one that is short or only counts tokens.
Ask(c, p, m) == [conversation |-> c, portability |-> p, caller |-> u,
                 message |-> m, pin |-> NoAccount]
Asks == {Ask(k, p, TRUE) : p \in {"portable", "sticky", "account"}}
          \cup {Ask(l, "sticky", TRUE), Ask(l, "portable", FALSE)}

\* The session was not moved, or was reset.
Untouched == {[overridden |-> FALSE, assigned |-> NoAccount]}

S == INSTANCE SessionRoutes WITH requests <- edits, Requests <- Edits
L == INSTANCE LiveCalls WITH clock <- seconds, answered <- live
R == INSTANCE ResetCredits WITH Requests <- Redeemers, Owners <- Identities
A == INSTANCE AutoRedeem WITH
       Credits <- Banked, Expiring <- Ending, MaxRequests <- MaxIds,
       MaxWindow <- MaxWindows, window <- quota, spent <- bought, posts <- orders,
       known <- listed, attempt <- standing, requests <- numbered
C == INSTANCE ContextStore WITH login <- aliases, Aliases <- Accounts
U == INSTANCE UsageActivation WITH Owners <- Identities, records <- ledger, Retry <- RetryAfter
K == INSTANCE ClaudeSession WITH
       Aliases <- Accounts, Inbound <- {}, Conversations <- {k, l},
       None <- NoAccount, Watched <- k, Requests <- Asks, Fixed <- {},
       Routes <- Untouched, login <- users, logins <- changes,
       req <- asked, served <- answerers

parts == <<part, routeVars, liveVars, resetVars, sweepVars, contextVars,
           usageVars, claudeVars>>

\* A part that does not run has one initial state.
PartsInit ==
  /\ part \in {"routes", "live", "resets", "sweep", "context", "usage", "claude"}
  /\ S!Init /\ L!Init /\ U!Init /\ A!Init
  /\ R!Init /\ login = u
  /\ C!Init
  /\ part # "context" => aliases = [a \in Accounts |-> u]
  /\ users = IF part = "claude" THEN a1 :> u @@ a2 :> v ELSE [a \in Accounts |-> u]
  /\ K!Init

PartsNext ==
  /\ UNCHANGED part
  /\ \/ /\ part = "routes" /\ S!Next
        /\ UNCHANGED <<liveVars, resetVars, sweepVars, contextVars, usageVars,
                       claudeVars>>
     \/ /\ part = "live" /\ L!Next
        /\ UNCHANGED <<routeVars, resetVars, sweepVars, contextVars, usageVars,
                       claudeVars>>
     \/ /\ part = "resets" /\ R!Next
        /\ UNCHANGED <<routeVars, liveVars, sweepVars, contextVars, usageVars,
                       claudeVars>>
     \/ /\ part = "sweep" /\ A!Next
        /\ UNCHANGED <<routeVars, liveVars, resetVars, contextVars, usageVars,
                       claudeVars>>
     \/ /\ part = "context" /\ C!Next
        /\ UNCHANGED <<routeVars, liveVars, resetVars, sweepVars, usageVars,
                       claudeVars>>
     \/ /\ part = "usage" /\ U!Next
        /\ UNCHANGED <<routeVars, liveVars, resetVars, sweepVars, contextVars,
                       claudeVars>>
     \/ /\ part = "claude" /\ K!Next
        /\ UNCHANGED <<routeVars, liveVars, resetVars, sweepVars, contextVars,
                       usageVars>>

PartsSpec == PartsInit /\ [][PartsNext]_parts

ASSUME ResetsAssumption ==
  /\ IsFiniteSet(Credits)
  /\ {MaxCalls, MaxFailures} \subseteq Nat
  /\ Nothing \notin Redeemers \cup R!Code \cup {"refused"}
  /\ Nothing \notin R!Attempt

ASSUME SweepAssumption ==
  /\ {MaxIds, MaxWindows} \subseteq Nat
  /\ Nothing \notin A!Callers \cup A!Code \cup {"refused"}
  /\ Nothing \notin 0..MaxWindows
  /\ Nothing \notin A!Attempt
  /\ Nothing \notin A!Post

ASSUME UsageAssumption ==
  {RetryAfter, MaxClock, MaxCycle} \subseteq Nat /\ Nothing \notin U!Record

ASSUME ClaudeAssumption == MaxStreams \in Nat /\ NoAccount \notin Accounts

Symmetry == Permutations(Accounts)

\* What is excused stays so; nothing is claimed of it.
Unexcused == ~excused

\* The parts' properties, with the type invariants they rest on.
LastEditWins == part = "routes" => S!TypeOK /\ S!LastEditWins
AnsweredCallsKeepTheirAccount ==
  part = "live" => L!TypeOK /\ L!AnsweredCallsKeepTheirAccount
ContextKept == part = "context" => C!TypeOK /\ C!NotesStay /\ C!HistoryComplete
ResetsKept ==
  /\ [](part = "resets" => R!TypeOK) /\ R!NewerRejectionStays
  /\ [](part = "sweep" => A!TypeOK /\ A!SpentOnce)
ActivatedOnce == [](part = "usage" => U!TypeOK) /\ U!ActivatedOnce
ClaudeContinuity ==
  [](part = "claude" => K!TypeOK) /\ K!StickyMovesForQuota /\ K!AccountContextKnown
=============================================================================
