---------------------------- MODULE AuthRefresh ----------------------------
(***************************************************************************)
(* The credentials of one managed account: its auth.json, shared by every  *)
(* process that serves or logs in that account, the refreshes that spend   *)
(* its rotating grant and what each process remembers of failures          *)
(* (src/auth.rs, auth_lock.rs and the login task of control.rs).           *)
(*                                                                         *)
(* A bearer or a grant is the number under which the server issued it; 0   *)
(* stands for none.  Documents without a refresh token, which are never    *)
(* refreshed, and the account id are left out.  Homes do not share a lock  *)
(* or a memory, so one stands for all.                                     *)
(***************************************************************************)
EXTENDS Naturals, Sequences, Functions

CONSTANTS
  Processes,
  Requests,    \* users of a bearer: resolve, then recover from a 401
  Fetches,     \* of those, fetches of the account's usage
  Sweepers,    \* the background sweep of a process
  Logins,      \* codex login children and their wrappers
  Proc,        \* the process of each of them
  MaxRecent,   \* RECENT_REJECTED_BEARERS_PER_HOME
  MaxIssued,   \* bound on what the server issues
  MaxFaults    \* bound on timeouts, failures and stops

Tasks == Requests \cup Sweepers
Number == 0..MaxIssued

ASSUME AuthRefreshAssumption ==
  /\ Requests \cap Sweepers = {}
  /\ Fetches \subseteq Requests
  /\ Proc \in [Tasks \cup Logins -> Processes]
  /\ MaxRecent \in Nat \ {0}
  /\ MaxIssued \in Nat \ {0}
  /\ MaxFaults \in Nat

VARIABLES
  file,      \* the tokens of auth.json
  near,      \* its bearer expires within REFRESH_WINDOW_SECONDS
  issued,    \* numbers the server has used
  spent,     \* grants the server has exchanged for another
  lost,      \* of those, grants whose successor was told to nobody
  revoked,   \* grants the server withdrew
  strays,    \* grants posted by a task that is gone, not exchanged yet
  pc,        \* where each task is
  call,      \* which entry point it runs
  got,       \* the bearer a request uses, or used when it was rejected
  held,      \* the document a refresh has read
  answer,    \* the tokens the server answered it with
  login,     \* where each login is
  failures,  \* ManagedAuthHealth of each process
  faults

serverVars == <<issued, spent, lost, revoked, strays>>
taskVars == <<pc, call, got, held, answer>>
vars == <<file, near, serverVars, taskVars, login, failures, faults>>

Document == [bearer : Number, grant : Number]
NoDocument == [bearer |-> 0, grant |-> 0]

Failures == [grant : Number, bearer : Number, recent : Seq(Number)]
NoFailures == [grant |-> 0, bearer |-> 0, recent |-> <<>>]

(***************************************************************************)
(* A call waits for the process's mutex, with that for the home's lock     *)
(* ("home"), and with both it waits for the server ("posted", then         *)
(* "answered" or "refused").  A request that has a bearer is in "use"; one *)
(* whose recovery failed is about to "reject" that bearer again.  A sweep  *)
(* waits for its interval in the place where it waits for the mutex.       *)
(***************************************************************************)
Holding == {"posted", "answered", "refused"}
Inside == {"home"} \cup Holding
Waiting == {"mutex"} \cup Inside
PC == {"idle", "use", "reject", "ended"} \cup Waiting

\* A dispatch resolves again after it has forced a refresh.
Call == {"resolve", "force", "again", "sweep"}

(***************************************************************************)
(* The child of a login in "running" has a wrapper that keeps the home's   *)
(* lock; a child in "stray" has outlived its wrapper.                      *)
(***************************************************************************)
LoginPC == {"new", "running", "stray", "ended"}

Init ==
  /\ file = [bearer |-> 1, grant |-> 1]
  /\ near = FALSE
  /\ issued = 1
  /\ spent = {} /\ lost = {} /\ revoked = {} /\ strays = {}
  /\ pc = [t \in Tasks |-> IF t \in Sweepers THEN "mutex" ELSE "idle"]
  /\ call = [t \in Tasks |-> IF t \in Sweepers THEN "sweep" ELSE "resolve"]
  /\ got = [t \in Tasks |-> 0]
  /\ held = [t \in Tasks |-> NoDocument]
  /\ answer = [t \in Tasks |-> NoDocument]
  /\ login = [l \in Logins |-> "new"]
  /\ failures = [p \in Processes |-> NoFailures]
  /\ faults = 0

-----------------------------------------------------------------------------
(* What a call asks of the document and of the process's memory.           *)

Readable == file # NoDocument

Rejected(p, b) == b = failures[p].bearer \/ b \in Range(failures[p].recent)

GrantError(p, d) == failures[p].grant = d.grant

\* Mutant: only a bearer that upstream rejected is replaced.
WantsWhenRejected(t) ==
  IF call[t] = "force" THEN file.bearer = got[t]
  ELSE Rejected(Proc[t], file.bearer)

\* A login or a refresh by another task makes the rejected bearer an old one.
WantsRefresh(t) ==
  IF call[t] = "force" THEN file.bearer = got[t]
  ELSE near \/ Rejected(Proc[t], file.bearer)

Pushed(seq, b) ==
  IF b \in Range(seq) THEN seq
  ELSE IF Len(seq) = MaxRecent THEN Append(Tail(seq), b) ELSE Append(seq, b)

\* Mutant: any rejection takes the slot of the current bearer.
RememberLatest(p, b) ==
  failures' = [failures EXCEPT ![p].recent = Pushed(@, b), ![p].bearer = b]

\* reject_bearer: the slot is for the bearer the file holds now.
Remember(p, b) ==
  failures' = [failures EXCEPT
    ![p].recent = Pushed(@, b),
    ![p].bearer = IF Readable /\ file.bearer = b THEN b ELSE @]

Goto(t, place) == pc' = [pc EXCEPT ![t] = place]

Forget(t) ==
  /\ held' = [held EXCEPT ![t] = NoDocument]
  /\ answer' = [answer EXCEPT ![t] = NoDocument]

\* A sweep has no use for what a refresh returned, and goes on after one
\* that failed: to the next account, or to sleep until the next sweep.
NextAccount(t) == Goto(t, "mutex") /\ UNCHANGED <<call, got>>

\* The call returns a bearer.  A dispatch that forced a refresh resolves
\* again, unless its selection has become stale.
Serve(t, b) ==
  /\ Forget(t)
  /\ CASE t \in Sweepers -> NextAccount(t)
       [] call[t] = "force" /\ t \notin Fetches ->
            \/ /\ Goto(t, "idle")
               /\ call' = [call EXCEPT ![t] = "again"]
               /\ got' = [got EXCEPT ![t] = 0]
            \/ Goto(t, "reject") /\ UNCHANGED <<call, got>>
       [] OTHER ->
            /\ Goto(t, "use")
            /\ got' = [got EXCEPT ![t] = b]
            /\ UNCHANGED call

End(t) ==
  /\ Goto(t, "ended")
  /\ call' = [call EXCEPT ![t] = "resolve"]
  /\ got' = [got EXCEPT ![t] = 0]
  /\ Forget(t)

\* The entry point c returns an error; so does a request, sooner or later.
FailIn(t, c) ==
  CASE t \in Sweepers -> NextAccount(t) /\ Forget(t)
    [] c = "force" /\ t \notin Fetches ->
         Goto(t, "reject") /\ Forget(t) /\ UNCHANGED <<call, got>>
    [] OTHER -> End(t)

Fail(t) == FailIn(t, call[t])

Fault == faults < MaxFaults /\ faults' = faults + 1

-----------------------------------------------------------------------------
(* A request: resolve, one use, and after a 401 force_refresh and another  *)
(* use, for which a fetch takes the bearer that was returned and a         *)
(* dispatch resolves again.                                                *)

ReadUsable(r) ==
  /\ pc[r] = "idle"
  /\ Readable
  /\ ~near /\ ~Rejected(Proc[r], file.bearer)
  /\ Serve(r, file.bearer)
  /\ UNCHANGED <<file, near, serverVars, login, failures, faults>>

ReadUnusable(r) ==
  /\ pc[r] = "idle"
  /\ Readable
  /\ near \/ Rejected(Proc[r], file.bearer)
  /\ Goto(r, "mutex")
  /\ UNCHANGED <<file, near, serverVars, call, got, held, answer, login,
                 failures, faults>>

ReadFails(r) ==
  /\ pc[r] = "idle"
  /\ ~Readable
  /\ Fail(r)
  /\ UNCHANGED <<file, near, serverVars, login, failures, faults>>

\* Any answer but a 401 of a dispatch, or the first of a fetch.
Accepted(r) ==
  /\ pc[r] = "use"
  /\ End(r)
  /\ UNCHANGED <<file, near, serverVars, login, failures, faults>>

\* The bearer is remembered before force_refresh waits for any lock.
Unauthorized(r) ==
  /\ pc[r] = "use"
  /\ call[r] = "resolve"
  /\ Remember(Proc[r], got[r])
  /\ \/ /\ Readable
        /\ Goto(r, "mutex")
        /\ call' = [call EXCEPT ![r] = "force"]
        /\ UNCHANGED <<got, held, answer>>
     \/ /\ ~Readable
        /\ FailIn(r, "force")
  /\ UNCHANGED <<file, near, serverVars, login, faults>>

\* reject_account_bearer, after a second 401 or a recovery in vain.
RejectAgain(r) ==
  /\ pc[r] = "reject" \/ (pc[r] = "use" /\ call[r] = "again")
  /\ Remember(Proc[r], got[r])
  /\ End(r)
  /\ UNCHANGED <<file, near, serverVars, login, faults>>

-----------------------------------------------------------------------------
(* Under the locks.                                                        *)

EnterMutex(t) ==
  /\ pc[t] = "mutex"
  /\ \A u \in Tasks : Proc[u] = Proc[t] => pc[u] \notin Inside
  /\ Goto(t, "home")
  /\ UNCHANGED <<file, near, serverVars, call, got, held, answer, login,
                 failures, faults>>

HomeFree ==
  /\ \A u \in Tasks : pc[u] \notin Holding
  /\ \A l \in Logins : login[l] # "running"

\* HomeAuthLock::acquire_async; then auth.json is read again.
Locked(t) == pc[t] = "home" /\ HomeFree

Unreadable(t) ==
  /\ Locked(t)
  /\ ~Readable
  /\ Fail(t)
  /\ UNCHANGED <<file, near, serverVars, login, failures, faults>>

\* Another task or a login has replaced the bearer meanwhile.
Reuse(t) ==
  /\ Locked(t)
  /\ Readable
  /\ ~WantsRefresh(t)
  /\ IF Rejected(Proc[t], file.bearer) THEN Fail(t) ELSE Serve(t, file.bearer)
  /\ UNCHANGED <<file, near, serverVars, login, failures, faults>>

(***************************************************************************)
(* A device login is needed.  Until the bearer expires, resolve goes on    *)
(* with it; whether it has expired by now is left open.                    *)
(***************************************************************************)
FallBack(t, d) ==
  \/ /\ call[t] \in {"resolve", "again"}
     /\ ~Rejected(Proc[t], d.bearer)
     /\ Serve(t, d.bearer)
  \/ Fail(t)

KnownRefused(t) ==
  /\ Locked(t)
  /\ Readable
  /\ WantsRefresh(t)
  /\ GrantError(Proc[t], file)
  /\ FallBack(t, file)
  /\ UNCHANGED <<file, near, serverVars, login, failures, faults>>

Post(t) ==
  /\ Locked(t)
  /\ Readable
  /\ WantsRefresh(t)
  /\ ~GrantError(Proc[t], file)
  /\ Goto(t, "posted")
  /\ held' = [held EXCEPT ![t] = file]
  /\ UNCHANGED <<file, near, serverVars, call, got, answer, login, failures,
                 faults>>

\* A bearer that came once more keeps its expiry, or is given another.
Renewed(t) ==
  near' \in IF answer[t].bearer = held[t].bearer THEN BOOLEAN ELSE {FALSE}

\* Mutant: the new refresh token is not stored.
PersistBearerOnly(t) ==
  /\ pc[t] = "answered"
  /\ file' = [bearer |-> answer[t].bearer, grant |-> held[t].grant]
  /\ Renewed(t)
  /\ IF Rejected(Proc[t], answer[t].bearer) THEN Fail(t)
     ELSE Serve(t, answer[t].bearer)
  /\ UNCHANGED <<serverVars, login, failures, faults>>

\* atomic_write_auth, then the bearer is checked like any other.
Persist(t) ==
  /\ pc[t] = "answered"
  /\ file' = answer[t]
  /\ Renewed(t)
  /\ IF Rejected(Proc[t], answer[t].bearer) THEN Fail(t)
     ELSE Serve(t, answer[t].bearer)
  /\ UNCHANGED <<serverVars, login, failures, faults>>

\* The failure is recorded for the grant that was posted.
Refused(t) ==
  /\ pc[t] = "refused"
  /\ failures' = [failures EXCEPT ![Proc[t]].grant = held[t].grant]
  /\ FallBack(t, held[t])
  /\ UNCHANGED <<file, near, serverVars, login, faults>>

-----------------------------------------------------------------------------
(* What can cut a call short.                                              *)

\* The grants of tasks that go no further.
Dropped(T) ==
  /\ strays' = strays \cup {held[t].grant : t \in {u \in T : pc[u] = "posted"}}
  /\ lost' = lost \cup {held[t].grant :
       t \in {u \in T : pc[u] = "answered" /\ answer[u].grant # held[u].grant}}
  /\ UNCHANGED <<issued, spent, revoked>>

(***************************************************************************)
(* The 15 seconds of a call pass, or its answer breaks off: it is dropped  *)
(* at the await it is in, and a posted grant may still reach the server.   *)
(* Writing the answer may fail just as well.                               *)
(***************************************************************************)
CutShort(t) ==
  /\ pc[t] \in Waiting
  /\ Fault
  /\ Dropped({t})
  /\ Fail(t)
  /\ UNCHANGED <<file, near, login, failures>>

\* A status that says nothing about the grant, or no connection.
ServerFails(t) ==
  /\ pc[t] = "posted"
  /\ Fault
  /\ Fail(t)
  /\ UNCHANGED <<file, near, serverVars, login, failures>>

(***************************************************************************)
(* The process is stopped and started again.  Its locks are released, and  *)
(* the child of its login is killed with it or goes on alone.              *)
(***************************************************************************)
Restart(p) ==
  LET gone == {t \in Tasks :
                 Proc[t] = p /\ (pc[t] # "idle" \/ call[t] = "again")}
  IN  /\ Fault
      /\ Dropped(gone)
      /\ pc' = [t \in Tasks |->
           IF t \notin gone THEN pc[t]
           ELSE IF t \in Sweepers THEN "mutex" ELSE "ended"]
      /\ got' = [t \in Tasks |-> IF t \in gone THEN 0 ELSE got[t]]
      /\ held' = [t \in Tasks |-> IF t \in gone THEN NoDocument ELSE held[t]]
      /\ answer' =
           [t \in Tasks |-> IF t \in gone THEN NoDocument ELSE answer[t]]
      /\ \E left \in {"stray", "ended"} :
           login' = [l \in Logins |->
             IF Proc[l] = p /\ login[l] = "running" THEN left ELSE login[l]]
      /\ failures' = [failures EXCEPT ![p] = NoFailures]
      /\ UNCHANGED <<file, near, call>>

-----------------------------------------------------------------------------
(* The OAuth server.                                                       *)

Valid(g) == g \notin spent \cup lost \cup revoked

Fresh == [bearer |-> issued + 1, grant |-> issued + 1]

\* Whether the grant is replaced as well is the server's choice.
Exchange(t) ==
  /\ pc[t] = "posted"
  /\ Valid(held[t].grant)
  /\ issued < MaxIssued
  /\ issued' = issued + 1
  /\ \/ /\ answer' = [answer EXCEPT ![t] = Fresh]
        /\ spent' = spent \cup {held[t].grant}
     \/ /\ answer' = [answer EXCEPT ![t] = [Fresh EXCEPT !.grant = held[t].grant]]
        /\ UNCHANGED spent
  /\ Goto(t, "answered")
  /\ UNCHANGED <<file, near, lost, revoked, strays, call, got, held, login,
                 failures, faults>>

\* The bearer that is about to expire, or was rejected, once more.
Repeat(t) ==
  /\ pc[t] = "posted"
  /\ Valid(held[t].grant)
  /\ Fault
  /\ answer' = [answer EXCEPT ![t] = held[t]]
  /\ Goto(t, "answered")
  /\ UNCHANGED <<file, near, serverVars, call, got, held, login, failures>>

Refuse(t) ==
  /\ pc[t] = "posted"
  /\ ~Valid(held[t].grant)
  /\ Goto(t, "refused")
  /\ UNCHANGED <<file, near, serverVars, call, got, held, answer, login,
                 failures, faults>>

\* If the grant is replaced at all, its successor is answered to nobody.
ExchangeStray(g) ==
  /\ g \in strays
  /\ strays' = strays \ {g}
  /\ \/ Valid(g) /\ spent' = spent \cup {g} /\ lost' = lost \cup {g}
     \/ UNCHANGED <<spent, lost>>
  /\ UNCHANGED <<file, near, issued, revoked, taskVars, login, failures, faults>>

Revoke ==
  /\ Readable
  /\ Fault
  /\ revoked' = revoked \cup {file.grant}
  /\ UNCHANGED <<file, near, issued, spent, lost, strays, taskVars, login,
                 failures>>

Tick ==
  /\ Readable
  /\ issued < MaxIssued
  /\ ~near
  /\ near' = TRUE
  /\ UNCHANGED <<file, serverVars, taskVars, login, failures, faults>>

-----------------------------------------------------------------------------
(* Logins: the wrapper keeps the home's lock for as long as its child      *)
(* lives.  The child writes file credentials, or moves them to a keychain. *)

SetLogin(l, from, to) ==
  /\ login[l] = from
  /\ login' = [login EXCEPT ![l] = to]
  /\ UNCHANGED <<spent, lost, revoked, strays, taskVars, failures, faults>>

\* Mutant: the child is started without the home's lock.
LoginUnlocked(l) ==
  /\ SetLogin(l, "new", "running")
  /\ UNCHANGED <<file, near, issued>>

StartLogin(l) ==
  /\ HomeFree
  /\ SetLogin(l, "new", "running")
  /\ UNCHANGED <<file, near, issued>>

\* The child, as often as it likes.
WriteLogin(l) ==
  /\ SetLogin(l, "running", "running") \/ SetLogin(l, "stray", "stray")
  /\ \/ /\ issued < MaxIssued
        /\ issued' = issued + 1
        /\ file' = Fresh
     \/ /\ file' = NoDocument
        /\ UNCHANGED issued
  /\ near' = FALSE

EndLogin(l) ==
  /\ SetLogin(l, "running", "ended")
  /\ UNCHANGED <<file, near, issued>>

-----------------------------------------------------------------------------

Request(r) ==
  \/ ReadUsable(r) \/ ReadUnusable(r) \/ ReadFails(r)
  \/ Accepted(r) \/ Unauthorized(r) \/ RejectAgain(r)

Work(t) ==
  \/ EnterMutex(t) \/ Unreadable(t) \/ Reuse(t) \/ KnownRefused(t) \/ Post(t)
  \/ Persist(t) \/ Refused(t)

Server(t) == Exchange(t) \/ Refuse(t)

Disturb(t) == CutShort(t) \/ ServerFails(t) \/ Repeat(t)

Login(l) == StartLogin(l) \/ WriteLogin(l) \/ EndLogin(l)

Next ==
  \/ \E r \in Requests : Request(r)
  \/ \E t \in Tasks : Work(t) \/ Server(t) \/ Disturb(t)
  \/ \E p \in Processes : Restart(p)
  \/ \E g \in strays : ExchangeStray(g)
  \/ \E l \in Logins : Login(l)
  \/ Revoke
  \/ Tick

Spec == Init /\ [][Next]_vars

(***************************************************************************)
(* Tasks run, the interval of a sweep passes, the server answers what it   *)
(* was sent, and a login's child ends.  Nothing else has to happen.        *)
(***************************************************************************)
Fairness ==
  /\ \A t \in Tasks : WF_vars(Work(t)) /\ WF_vars(Server(t))
  /\ \A l \in Logins : WF_vars(EndLogin(l))

FairSpec == Spec /\ Fairness

-----------------------------------------------------------------------------
(* Properties.                                                             *)

\* Every variable has its type, and no memory outgrows its bound.
TypeOK ==
  /\ file \in Document
  /\ near \in BOOLEAN
  /\ issued \in Number
  /\ spent \subseteq Number /\ lost \subseteq Number /\ revoked \subseteq Number
  /\ strays \subseteq Number
  /\ pc \in [Tasks -> PC]
  /\ call \in [Tasks -> Call]
  /\ got \in [Tasks -> Number]
  /\ held \in [Tasks -> Document]
  /\ answer \in [Tasks -> Document]
  /\ login \in [Logins -> LoginPC]
  /\ failures \in [Processes -> Failures]
  /\ \A p \in Processes : Len(failures[p].recent) <= MaxRecent
  /\ faults \in 0..MaxFaults

(***************************************************************************)
(* Sharing an account never costs its owner a login.  A grant that some    *)
(* process takes for dead was withdrawn by the server, or its successor    *)
(* was lost on the way; it was never spent behind that process's back by   *)
(* another refresh (Resolver::refresh under both locks).                   *)
(***************************************************************************)
NoNeedlessLogin ==
  \A p \in Processes : failures[p].grant \in {0} \cup lost \cup revoked

\* A login's child may write without the home's lock.
ChildStrayed == \E l \in Logins : login[l] = "stray"

(***************************************************************************)
(* A refresh replaces the very document it read, so that no login that was *)
(* completed meanwhile is overwritten (the lock that the login's wrapper   *)
(* keeps for as long as its child lives).                                  *)
(***************************************************************************)
LoginKept ==
  [][\A t \in Tasks : pc[t] = "answered" /\ file' # file
                        => file = held[t] \/ ChildStrayed]_vars

(***************************************************************************)
(* The bearer in the file, once rejected, stays rejected for as long as it *)
(* is there and the process runs, however many rejections of older bearers *)
(* come late; and no call hands out a rejected bearer (the slot of the     *)
(* current bearer in reject_bearer, and the checks of every return).  Once *)
(* a child writes without the lock, a refresh that is answered with the    *)
(* bearer it had puts an old one back, which has no slot.                  *)
(***************************************************************************)
QuarantineHolds ==
  [][/\ ~ChildStrayed => \A p \in Processes :
          Readable /\ Rejected(p, file.bearer) /\ file' = file
            => Rejected(p, file.bearer)' \/ failures'[p] = NoFailures
     /\ \A r \in Requests :
          pc[r] # "use" /\ pc'[r] = "use" => ~Rejected(Proc[r], got'[r])]_vars

(***************************************************************************)
(* Without any request, a bearer near its expiry is replaced sooner or     *)
(* later, unless the account is known to need a login                      *)
(* (proactive_refresh_managed_at; faults are finitely many here).          *)
(***************************************************************************)
KeptFresh ==
  near
    ~> \/ ~near
       \/ \E s \in Sweepers : failures[Proc[s]].grant = file.grant
       \/ issued = MaxIssued
=============================================================================
