----------------------------- MODULE ClaudeAuth -----------------------------
(***************************************************************************)
(* The credentials of one managed Claude home (src/claude/auth.rs) and     *)
(* those who use them: requests (proxy/claude.rs), the credential sweep    *)
(* and the usage fetch (proxy/claude/maintenance.rs).                      *)
(*                                                                         *)
(* A document holds a bearer and the grant that renews it.  The server     *)
(* answers a refresh with a new bearer and, usually, a new grant in place  *)
(* of the old one, so an answer that is thrown away costs a login.         *)
(* Resolutions therefore run in tasks of their own, which their callers    *)
(* may leave, one at a time under a mutex and the home's file lock; logins *)
(* take the file lock too.                                                 *)
(***************************************************************************)
EXTENDS Naturals

CONSTANTS
  Callers,        \* slots of the tasks that use the home
  Sweep,          \* the one that is the credential sweep
  MaxIssued,      \* bound: numbers the provider may give to grants and bearers
  MaxTrouble,     \* bound: timeouts, logins, bearers and grants that fail,
                  \* and restarts
  Nothing

VARIABLES
  file,           \* claude-auth.json
  issued,         \* numbers given out so far
  live,           \* grants the server would accept
  bad,            \* bearers that have expired or been revoked
  aged,           \* those of them whose expiry the document shows
  lost,           \* history: grants the provider withdrew, or whose
                  \* successor was lost on the way or could not be written
  failures,       \* Resolver.failures for this home
  lock,           \* owner of the mutex and the file lock
  task,           \* the resolution of each caller, which may outlive its wait
  caller,         \* where each caller is
  marked,         \* the router's needs_login without a retry time
  login,          \* the login in progress, if any
  trouble

vars == <<file, issued, live, bad, aged, lost, failures, lock, task, caller,
          marked, login, trouble>>

-----------------------------------------------------------------------------
(* State.                                                                  *)

Documents == [grant : Nat, bearer : Nat]
Document(g, b) == [grant |-> g, bearer |-> b]

Idle == [stage |-> "idle"]
At(s, k, a, d) == [stage |-> s, kind |-> k, attempt |-> a, doc |-> d]

Resolution(rejected) == [stage |-> "waiting", rejected |-> rejected]

\* What the server's answer, or the lack of one, leaves in a resolution.
Answers == [stage : {"answered"}, doc : Documents,
            how : {"renewed", "refused", "later", "broken"},
            renewed : Documents \cup {Nothing}]

Init ==
  /\ file \in {Nothing, Document(1, 1)}
  /\ issued = 1
  /\ live = {1}
  /\ bad = {} /\ aged = {} /\ lost = {}
  /\ failures = Nothing
  /\ lock = Nothing
  /\ task = [c \in Callers |-> Nothing]
  /\ caller = [c \in Callers |-> Idle]
  /\ marked = FALSE
  /\ login = "none"
  /\ trouble = 0

serverVars == <<issued, live, bad, aged, trouble>>
sharedVars == <<file, lost, failures, lock, login>>

\* A refusal of the grant in hand, or a pause the server asked for.
Failing(g) == failures # Nothing /\ failures.grant = g

\* Resolver.needs_login.
NeedsLogin ==
  \/ file = Nothing
  \/ file # Nothing /\ failures = [grant |-> file.grant, until |-> "login"]

-----------------------------------------------------------------------------
(* Callers.                                                                *)

(***************************************************************************)
(* A request is only routed here while the router offers the account.  The *)
(* sweep and the fetch first ask whether a login is needed, and then leave *)
(* an account alone that is being logged in to.                            *)
(***************************************************************************)
Begin(c, kind) ==
  /\ caller[c] = Idle /\ task[c] = Nothing
  /\ c = Sweep <=> kind = "sweep"
  /\ kind = "request" => ~marked /\ login \notin {"begun", "locked"}
  /\ IF kind # "request" /\ NeedsLogin
     THEN /\ caller' = [caller EXCEPT ![c] = At("condemn", kind, 1, Nothing)]
          /\ UNCHANGED task
     ELSE /\ kind # "request" => login \notin {"begun", "locked"}
          /\ caller' = [caller EXCEPT ![c] = At("resolve", kind, 1, Nothing)]
          /\ task' = [task EXCEPT ![c] = Resolution(Nothing)]
  /\ UNCHANGED <<sharedVars, serverVars, marked>>

\* What a caller does with an error: needs_login, then reauth_required.
AfterError(k) ==
  IF NeedsLogin THEN At("condemn", k, 1, Nothing) ELSE Idle

\* What may go wrong is bounded.
Troubled == trouble < MaxTrouble /\ trouble' = trouble + 1

\* Mutant: the refresh runs in its caller and is dropped with it.
CancelledWithCaller(c) ==
  /\ Troubled
  /\ caller[c].stage = "resolve"
  /\ caller' = [caller EXCEPT ![c] = AfterError(@.kind)]
  /\ task' = [task EXCEPT ![c] = Nothing]
  /\ lock' = IF lock = c THEN Nothing ELSE lock
  /\ UNCHANGED <<file, lost, failures, login, issued, live, bad, aged, marked>>

\* RESOLVE_TIMEOUT, or a client that leaves: the resolution goes on.
GiveUp(c) ==
  /\ Troubled
  /\ caller[c].stage = "resolve"
  /\ \E next \in {AfterError(caller[c].kind), Idle} :
       caller' = [caller EXCEPT ![c] = next]
  /\ UNCHANGED <<sharedVars, issued, live, bad, aged, task, marked>>

Condemn(c) ==
  /\ caller[c].stage = "condemn"
  /\ marked' = TRUE
  /\ caller' = [caller EXCEPT ![c] = Idle]
  /\ UNCHANGED <<sharedVars, serverVars, task>>

\* proactive_auth_ready.
SweepReady(c) ==
  /\ marked' = FALSE
  /\ caller' = [caller EXCEPT ![c] = Idle]

\* The sweep only wanted to see a bearer; the others send it.
Use(c) ==
  /\ caller[c].stage = "holding"
  /\ IF caller[c].kind = "sweep"
     THEN SweepReady(c)
     ELSE /\ caller' = [caller EXCEPT ![c].stage =
                          IF caller[c].doc.bearer \in bad THEN "denied" ELSE "served"]
          /\ UNCHANGED marked
  /\ UNCHANGED <<sharedVars, serverVars, task>>

\* Only the fetch lifts the mark.
Served(c) ==
  /\ caller[c].stage = "served"
  /\ marked' = (marked /\ caller[c].kind # "fetch")
  /\ caller' = [caller EXCEPT ![c] = Idle]
  /\ UNCHANGED <<sharedVars, serverVars, task>>

\* A first 401 asks for another bearer.
Unauthorized(c) ==
  /\ caller[c].stage = "denied" /\ caller[c].attempt = 1
  /\ caller' = [caller EXCEPT ![c] = At("resolve", @.kind, 2, Nothing)]
  /\ task' = [task EXCEPT ![c] = Resolution(caller[c].doc.bearer)]
  /\ UNCHANGED <<sharedVars, serverVars, marked>>

\* A second one condemns what the file holds by now (require_login).
RequireLogin(c) ==
  /\ caller[c].stage = "denied" /\ caller[c].attempt = 2
  /\ failures' = IF file = Nothing THEN failures
                 ELSE [grant |-> file.grant, until |-> "login"]
  /\ caller' = [caller EXCEPT ![c] = At("condemn", @.kind, 2, Nothing)]
  /\ UNCHANGED <<file, lost, lock, login, serverVars, task, marked>>

-----------------------------------------------------------------------------
(* Resolutions (resolve_inner).                                            *)

\* The task ends with a document or, if `d` is Nothing, with an error; its
\* caller goes on if it still waits.
Return(c, d) ==
  /\ task' = [task EXCEPT ![c] = Nothing]
  /\ caller' =
       IF caller[c].stage # "resolve" THEN caller
       ELSE [caller EXCEPT ![c] =
               IF d # Nothing THEN At("holding", @.kind, @.attempt, d)
               ELSE At("failed", @.kind, @.attempt, Nothing)]

Failed(c) ==
  /\ caller[c].stage = "failed"
  /\ caller' = [caller EXCEPT ![c] = AfterError(@.kind)]
  /\ UNCHANGED <<sharedVars, serverVars, task, marked>>

(***************************************************************************)
(* Under the locks the file is read again: a document that fails, one that *)
(* is still good, or one to refresh.                                       *)
(***************************************************************************)
Resolve(c) ==
  /\ task[c] # Nothing /\ task[c].stage = "waiting"
  /\ lock = Nothing
  /\ LET good == /\ file.bearer \notin aged
                 /\ file.bearer # task[c].rejected
     IN IF file = Nothing \/ (file # Nothing /\ Failing(file.grant))
        THEN Return(c, Nothing) /\ UNCHANGED lock
        ELSE IF good THEN Return(c, file) /\ UNCHANGED lock
        ELSE /\ lock' = c
             /\ task' = [task EXCEPT ![c] = [stage |-> "posted", doc |-> file]]
             /\ UNCHANGED caller
  /\ UNCHANGED <<file, lost, failures, login, serverVars, marked>>

Answer(c, how, d) ==
  task' = [task EXCEPT ![c] = [stage |-> "answered", doc |-> @.doc,
                               how |-> how, renewed |-> d]]

\* The server renews a grant it accepts, in its place or beside it.
Renew(c) ==
  /\ task[c] # Nothing /\ task[c].stage = "posted"
  /\ task[c].doc.grant \in live /\ issued < MaxIssued
  /\ issued' = issued + 1
  /\ \E g \in {issued + 1, task[c].doc.grant} :
       /\ live' = (live \ {task[c].doc.grant}) \cup {g}
       /\ \/ Answer(c, "renewed", Document(g, issued + 1)) /\ UNCHANGED lost
          \/ Answer(c, "broken", Nothing) /\ lost' = lost \cup {task[c].doc.grant}
  /\ UNCHANGED <<file, failures, lock, login, caller, marked, bad, aged, trouble>>

Refuse(c) ==
  /\ task[c] # Nothing /\ task[c].stage = "posted"
  /\ \E how \in {"refused", "later", "broken"} :
       /\ how = "refused" => task[c].doc.grant \notin live
       /\ Answer(c, how, Nothing)
  /\ UNCHANGED <<sharedVars, serverVars, caller, marked>>

\* A refusal and a pause are remembered; a broken transport or body is not.
RefreshFails(c) ==
  /\ task[c] # Nothing /\ task[c].stage = "answered"
  /\ task[c].how # "renewed"
  /\ failures' = IF task[c].how = "broken" THEN failures
                 ELSE [grant |-> task[c].doc.grant,
                       until |-> IF task[c].how = "refused" THEN "login" ELSE "later"]
  /\ lock' = Nothing
  /\ Return(c, Nothing)
  /\ UNCHANGED <<file, lost, login, serverVars, marked>>

\* The answer replaces the document, or cannot be written.
Persist(c) ==
  /\ task[c] # Nothing /\ task[c].stage = "answered"
  /\ task[c].how = "renewed"
  /\ lock' = Nothing
  /\ \/ /\ file' = task[c].renewed
        /\ failures' = Nothing
        /\ Return(c, task[c].renewed)
        /\ UNCHANGED lost
     \/ /\ lost' = lost \cup {task[c].doc.grant}
        /\ Return(c, Nothing)
        /\ UNCHANGED <<file, failures>>
  /\ UNCHANGED <<login, serverVars, marked>>

Cooled ==
  /\ failures # Nothing /\ failures.until = "later"
  /\ failures' = Nothing
  /\ UNCHANGED <<file, lost, lock, login, serverVars, task, caller, marked>>

-----------------------------------------------------------------------------
(* Logins, from the control page (begun) or the command line.              *)

BeginLogin ==
  /\ Troubled
  /\ login = "none"
  /\ login' = "begun"
  /\ UNCHANGED <<file, lost, failures, lock, issued, live, bad, aged, task, caller, marked>>

LockForLogin ==
  /\ lock = Nothing /\ lock' = "login"
  /\ \/ login = "begun" /\ login' = "locked" /\ UNCHANGED trouble
     \/ login = "none" /\ login' = "outside" /\ Troubled
  /\ UNCHANGED <<file, lost, failures, issued, live, bad, aged, task, caller, marked>>

\* The imported document, or a ceremony that fails.
Import ==
  /\ login \in {"locked", "outside"}
  /\ lock' = Nothing
  /\ login' = IF login = "outside" THEN "none" ELSE "finish"
  /\ \/ UNCHANGED <<file, issued, live>>
     \/ /\ issued < MaxIssued
        /\ issued' = issued + 1
        /\ live' = live \cup {issued + 1}
        /\ file' = Document(issued + 1, issued + 1)
  /\ UNCHANGED <<lost, failures, bad, aged, trouble, task, caller, marked>>

\* finish_login; that it succeeded means that a document can be read.
FinishLogin ==
  /\ login = "finish"
  /\ login' = "none"
  /\ marked' \in {marked} \cup (IF file = Nothing THEN {} ELSE {FALSE})
  /\ UNCHANGED <<file, lost, failures, lock, serverVars, task, caller>>

-----------------------------------------------------------------------------
(* The provider, time and the daemon's end.                                *)

BearerFails ==
  /\ Troubled
  /\ \E b \in (1..issued) \ bad :
       /\ bad' = bad \cup {b}
       /\ aged' \in {aged, aged \cup {b}}
  /\ UNCHANGED <<sharedVars, issued, live, task, caller, marked>>

Withdraw ==
  /\ Troubled
  /\ \E g \in live :
       /\ live' = live \ {g}
       /\ lost' = lost \cup {g}
  /\ UNCHANGED <<file, failures, lock, login, issued, bad, aged, task, caller, marked>>

Restart ==
  /\ Troubled
  /\ lost' = lost \cup {task[c].doc.grant : c \in {d \in Callers :
                          task[d] # Nothing /\ task[d].stage = "answered"}}
  /\ failures' = Nothing
  /\ lock' = IF login = "outside" THEN lock ELSE Nothing
  /\ login' = IF login = "outside" THEN login ELSE "none"
  /\ task' = [c \in Callers |-> Nothing]
  /\ caller' = [c \in Callers |-> Idle]
  /\ marked' = FALSE
  /\ UNCHANGED <<file, issued, live, bad, aged>>

-----------------------------------------------------------------------------
Kinds == {"request", "sweep", "fetch"}

Steps(c) ==
  \/ Condemn(c) \/ Use(c) \/ Served(c) \/ Unauthorized(c) \/ RequireLogin(c)
  \/ Failed(c) \/ Resolve(c) \/ RefreshFails(c) \/ Persist(c)

Next ==
  \/ \E c \in Callers :
       \/ \E kind \in Kinds : Begin(c, kind)
       \/ GiveUp(c) \/ Steps(c) \/ Renew(c) \/ Refuse(c)
  \/ Cooled \/ BeginLogin \/ LockForLogin \/ Import \/ FinishLogin
  \/ BearerFails \/ Withdraw \/ Restart

Spec == Init /\ [][Next]_vars

(***************************************************************************)
(* The sweep comes round again, tasks go on, calls of the server end, and  *)
(* so do logins; the locks are taken in the order they are waited for.     *)
(***************************************************************************)
Fairness ==
  /\ SF_vars(Begin(Sweep, "sweep"))
  /\ \A c \in Callers : /\ WF_vars(Steps(c)) /\ SF_vars(Resolve(c))
                       /\ WF_vars(Renew(c) \/ Refuse(c))
  /\ WF_vars(Cooled) /\ SF_vars(LockForLogin) /\ WF_vars(Import) /\ WF_vars(FinishLogin)

FairSpec == Spec /\ Fairness

-----------------------------------------------------------------------------
(* Properties.                                                             *)

(***************************************************************************)
(* The grant on file can be used, unless the provider withdrew it or its   *)
(* successor was lost in transit or could not be written: no timeout, no   *)
(* caller that leaves, no second refresh and no login beside it costs the  *)
(* account a login.                                                        *)
(***************************************************************************)
GrantKept ==
  file = Nothing \/ (file # Nothing =>
    \/ file.grant \in live \cup lost
    \/ \E c \in Callers : /\ task[c] # Nothing /\ task[c].stage = "answered"
                          /\ task[c].doc.grant = file.grant)

\* The document can be used as it is.
Works == file # Nothing => file.bearer \notin bad /\ ~Failing(file.grant)

(***************************************************************************)
(* An account whose credentials work is not kept out of the pool for good  *)
(* by a verdict about earlier ones.                                        *)
(***************************************************************************)
RepairedIsOffered == []<>(marked => file = Nothing \/ ~Works)
=============================================================================
