------------------------- MODULE AuthRefreshProofs -------------------------
(***************************************************************************)
(* What holds of a managed account for every number of processes, requests *)
(* and logins.                                                             *)
(***************************************************************************)
EXTENDS AuthRefresh, TLAPS

-----------------------------------------------------------------------------
(* Types.                                                                  *)

\* The types of what a call changes when it returns.
Returned ==
  /\ pc' \in [Tasks -> PC]
  /\ call' \in [Tasks -> Call]
  /\ got' \in [Tasks -> Number]
  /\ held' \in [Tasks -> Document]
  /\ answer' \in [Tasks -> Document]

\* A call that fails, or a request that ends, keeps the types.
LEMMA FailureKeepsType ==
  ASSUME TypeOK, NEW t \in Tasks, NEW c, FailIn(t, c) \/ End(t)
  PROVE  Returned
<1>1. NoDocument \in Document /\ 0 \in Number
  BY AuthRefreshAssumption
     DEF NoDocument, Document, Number, AuthRefreshAssumption
<1>2. Forget(t)
  BY DEF FailIn, NextAccount, End
<1>3. held' \in [Tasks -> Document] /\ answer' \in [Tasks -> Document]
  BY <1>1, <1>2 DEF Forget, TypeOK
<1>4. pc' \in [Tasks -> PC]
  BY DEF FailIn, NextAccount, End, Goto, TypeOK, PC, Waiting
<1>5. got' \in [Tasks -> Number] /\ call' \in [Tasks -> Call]
  BY <1>1 DEF FailIn, NextAccount, End, TypeOK, Call
<1> QED
  BY <1>3, <1>4, <1>5 DEF Returned

\* A call that returns keeps the types.
LEMMA ReturnKeepsType ==
  ASSUME TypeOK, NEW t \in Tasks, NEW b \in Number, Serve(t, b) \/ Fail(t)
  PROVE  Returned
<1>1. CASE Fail(t)
  BY <1>1, FailureKeepsType DEF Fail
<1>2. CASE Serve(t, b)
  <2>1. NoDocument \in Document /\ 0 \in Number
    BY AuthRefreshAssumption
       DEF NoDocument, Document, Number, AuthRefreshAssumption
  <2>2. held' \in [Tasks -> Document] /\ answer' \in [Tasks -> Document]
    BY <1>2, <2>1 DEF Serve, NextAccount, Forget, TypeOK
  <2>3. pc' \in [Tasks -> PC]
    BY <1>2 DEF Serve, NextAccount, Goto, TypeOK, PC, Waiting
  <2>4. got' \in [Tasks -> Number] /\ call' \in [Tasks -> Call]
    BY <1>2, <2>1 DEF Serve, NextAccount, TypeOK, Call
  <2> QED
    BY <2>2, <2>3, <2>4 DEF Returned
<1> QED
  BY <1>1, <1>2

\* Falling back on a bearer is a return.
LEMMA FallBackKeepsType ==
  ASSUME TypeOK, NEW t \in Tasks, NEW d \in Document, FallBack(t, d)
  PROVE  Returned
<1>1. d.bearer \in Number
  BY DEF Document
<1> QED
  BY <1>1, ReturnKeepsType DEF FallBack

\* Remembering a bearer keeps the types and the bound of the memory.
LEMMA RememberKeepsType ==
  ASSUME TypeOK, NEW p \in Processes, NEW b \in Number, Remember(p, b)
  PROVE  /\ failures' \in [Processes -> Failures]
         /\ \A q \in Processes : Len(failures'[q].recent) <= MaxRecent
<1> DEFINE old == failures[p]
           recent == Pushed(old.recent, b)
           slot == IF Readable /\ file.bearer = b THEN b ELSE old.bearer
<1>1. old \in Failures /\ Len(old.recent) <= MaxRecent
  BY DEF TypeOK
<1>2. old.recent \in Seq(Number) /\ old.bearer \in Number /\ old.grant \in Number
  BY <1>1 DEF Failures
<1>3. recent \in Seq(Number) /\ Len(recent) <= MaxRecent
  BY <1>1, <1>2, AuthRefreshAssumption DEF Pushed, AuthRefreshAssumption
<1>4. slot \in Number
  BY <1>2
<1> DEFINE mid == [failures EXCEPT ![p].recent = recent]
<1> HIDE DEF recent, slot
<1>5. [old EXCEPT !.recent = recent] \in Failures
  BY <1>1, <1>3 DEF Failures
<1>6. /\ mid \in [Processes -> Failures]
      /\ mid[p].recent = recent
      /\ \A q \in Processes \ {p} : mid[q] = failures[q]
  BY <1>1, <1>5 DEF Failures, TypeOK
<1>7. [mid[p] EXCEPT !.bearer = slot] \in Failures
  BY <1>4, <1>6 DEF Failures
<1>8. failures' = [mid EXCEPT ![p].bearer = slot]
  BY DEF Remember, recent, slot
<1> HIDE DEF mid
<1>9. /\ failures' \in [Processes -> Failures]
      /\ failures'[p].recent = recent
      /\ \A q \in Processes \ {p} : failures'[q] = failures[q]
  BY <1>6, <1>7, <1>8 DEF Failures
<1> QED
  BY <1>3, <1>9 DEF TypeOK

\* A request's own steps keep the type invariant.
LEMMA RequestKeepsType ==
  ASSUME TypeOK, NEW r \in Requests, Request(r) PROVE TypeOK'
<1>1. r \in Tasks /\ file.bearer \in Number /\ got[r] \in Number
      /\ Proc[r] \in Processes
  BY AuthRefreshAssumption DEF Tasks, TypeOK, Document, AuthRefreshAssumption
<1>2. CASE ReadUsable(r)
  <2>1. Returned
    BY <1>1, <1>2, ReturnKeepsType DEF ReadUsable
  <2> QED
    BY <1>2, <2>1 DEF ReadUsable, Returned, TypeOK, serverVars
<1>3. CASE ReadUnusable(r)
  BY <1>1, <1>3 DEF ReadUnusable, Goto, TypeOK, serverVars, PC, Waiting
<1>4. CASE ReadFails(r) \/ Accepted(r)
  <2>1. Returned
    BY <1>1, <1>4, ReturnKeepsType, FailureKeepsType DEF ReadFails, Accepted
  <2> QED
    BY <1>4, <2>1 DEF ReadFails, Accepted, Returned, TypeOK, serverVars
<1>5. CASE Unauthorized(r)
  <2>1. Returned
    <3>1. CASE FailIn(r, "force")
      BY <1>1, <3>1, FailureKeepsType
    <3>2. CASE Goto(r, "mutex") /\ call' = [call EXCEPT ![r] = "force"]
               /\ UNCHANGED <<got, held, answer>>
      BY <1>1, <3>2 DEF Goto, TypeOK, PC, Waiting, Call, Returned
    <3> QED
      BY <1>5, <3>1, <3>2 DEF Unauthorized
  <2>2. /\ failures' \in [Processes -> Failures]
        /\ \A q \in Processes : Len(failures'[q].recent) <= MaxRecent
    BY <1>1, <1>5, RememberKeepsType DEF Unauthorized
  <2> QED
    BY <1>5, <2>1, <2>2 DEF Unauthorized, Returned, TypeOK, serverVars
<1>6. CASE RejectAgain(r)
  <2>1. Returned
    BY <1>1, <1>6, FailureKeepsType DEF RejectAgain
  <2>2. /\ failures' \in [Processes -> Failures]
        /\ \A q \in Processes : Len(failures'[q].recent) <= MaxRecent
    BY <1>1, <1>6, RememberKeepsType DEF RejectAgain
  <2> QED
    BY <1>6, <2>1, <2>2 DEF RejectAgain, Returned, TypeOK, serverVars
<1> QED
  BY <1>2, <1>3, <1>4, <1>5, <1>6 DEF Request

\* The steps of a call under its locks keep the type invariant.
LEMMA WorkKeepsType ==
  ASSUME TypeOK, NEW t \in Tasks, Work(t) PROVE TypeOK'
<1>1. /\ file \in Document /\ held[t] \in Document /\ answer[t] \in Document
      /\ file.bearer \in Number /\ answer[t].bearer \in Number
      /\ held[t].grant \in Number
      /\ Proc[t] \in Processes
  BY AuthRefreshAssumption DEF TypeOK, Document, AuthRefreshAssumption
<1>2. CASE EnterMutex(t)
  BY <1>2 DEF EnterMutex, Goto, TypeOK, serverVars, PC, Waiting, Inside
<1>3. CASE Unreadable(t) \/ Reuse(t) \/ KnownRefused(t)
  <2>1. Returned
    BY <1>1, <1>3, ReturnKeepsType, FallBackKeepsType
       DEF Unreadable, Reuse, KnownRefused
  <2> QED
    BY <1>3, <2>1 DEF Unreadable, Reuse, KnownRefused, Returned, TypeOK,
                      serverVars
<1>4. CASE Post(t)
  BY <1>1, <1>4
     DEF Post, Goto, TypeOK, serverVars, PC, Waiting, Inside, Holding
<1>5. CASE Persist(t)
  <2>1. Returned
    BY <1>1, <1>5, ReturnKeepsType DEF Persist
  <2>2. near' \in BOOLEAN
    BY <1>5 DEF Persist, Renewed
  <2> QED
    BY <1>1, <1>5, <2>1, <2>2 DEF Persist, Returned, TypeOK, serverVars
<1>6. CASE Refused(t)
  <2>1. Returned
    BY <1>1, <1>6, FallBackKeepsType DEF Refused
  <2>2. [failures[Proc[t]] EXCEPT !.grant = held[t].grant] \in Failures
    BY <1>1 DEF TypeOK, Failures
  <2>3. /\ failures' \in [Processes -> Failures]
        /\ \A q \in Processes : failures'[q].recent = failures[q].recent
    BY <1>1, <1>6, <2>2 DEF Refused, TypeOK, Failures
  <2> QED
    BY <1>6, <2>1, <2>3 DEF Refused, Returned, TypeOK, serverVars
<1> QED
  BY <1>2, <1>3, <1>4, <1>5, <1>6 DEF Work

\* The server's answers keep the type invariant.
LEMMA ServerKeepsType ==
  ASSUME TypeOK, NEW t \in Tasks, Server(t) PROVE TypeOK'
<1>1. held[t] \in Document /\ held[t].grant \in Number
  BY DEF TypeOK, Document
<1>2. CASE Exchange(t)
  <2>1. issued + 1 \in Number
    BY <1>2, AuthRefreshAssumption
       DEF Exchange, TypeOK, Number, AuthRefreshAssumption
  <2>2. Fresh \in Document /\ [Fresh EXCEPT !.grant = held[t].grant] \in Document
    BY <1>1, <2>1 DEF Fresh, Document
  <2>3. answer' \in [Tasks -> Document]
    BY <1>2, <2>2 DEF Exchange, TypeOK
  <2>4. pc' \in [Tasks -> PC]
    BY <1>2 DEF Exchange, Goto, TypeOK, PC, Waiting, Inside, Holding
  <2> QED
    BY <1>1, <1>2, <2>1, <2>3, <2>4 DEF Exchange, TypeOK
<1>3. CASE Refuse(t)
  BY <1>3 DEF Refuse, Goto, TypeOK, serverVars, PC, Waiting, Inside, Holding
<1> QED
  BY <1>2, <1>3 DEF Server

\* A fault is counted within its bound.
LEMMA FaultKeepsType ==
  ASSUME TypeOK, Fault PROVE faults' \in 0..MaxFaults
BY AuthRefreshAssumption DEF Fault, TypeOK, AuthRefreshAssumption

\* What is dropped are numbers of grants.
LEMMA DroppedKeepsType ==
  ASSUME TypeOK, NEW T \in SUBSET Tasks, Dropped(T)
  PROVE  /\ strays' \subseteq Number /\ lost' \subseteq Number
         /\ issued' \in Number /\ spent' \subseteq Number
         /\ revoked' \subseteq Number
<1>1. \A t \in Tasks : held[t].grant \in Number
  BY DEF TypeOK, Document
<1> QED
  BY <1>1 DEF Dropped, TypeOK

\* What disturbs a call keeps the type invariant.
LEMMA DisturbKeepsType ==
  ASSUME TypeOK, NEW t \in Tasks, Disturb(t) PROVE TypeOK'
<1>1. faults' \in 0..MaxFaults
  BY FaultKeepsType DEF Disturb, CutShort, ServerFails, Repeat
<1>2. 0 \in Number
  BY AuthRefreshAssumption DEF Number, AuthRefreshAssumption
<1>3. CASE CutShort(t) \/ ServerFails(t)
  <2>1. Returned
    BY <1>2, <1>3, ReturnKeepsType DEF CutShort, ServerFails
  <2>2. /\ strays' \subseteq Number /\ lost' \subseteq Number
        /\ issued' \in Number /\ spent' \subseteq Number
        /\ revoked' \subseteq Number
    BY <1>3, DroppedKeepsType DEF CutShort, ServerFails, TypeOK, serverVars
  <2> QED
    BY <1>1, <1>3, <2>1, <2>2 DEF CutShort, ServerFails, Returned, TypeOK
<1>4. CASE Repeat(t)
  <2>1. held[t] \in Document
    BY DEF TypeOK
  <2>2. answer' \in [Tasks -> Document] /\ pc' \in [Tasks -> PC]
    BY <1>4, <2>1 DEF Repeat, Goto, TypeOK, PC, Waiting, Inside, Holding
  <2> QED
    BY <1>1, <1>4, <2>2 DEF Repeat, TypeOK, serverVars
<1> QED
  BY <1>3, <1>4 DEF Disturb

\* A restart keeps the type invariant.
LEMMA RestartKeepsType ==
  ASSUME TypeOK, NEW p \in Processes, Restart(p) PROVE TypeOK'
<1> DEFINE gone == {t \in Tasks :
                   Proc[t] = p /\ (pc[t] # "idle" \/ call[t] = "again")}
<1>1. 0 \in Number /\ NoDocument \in Document /\ NoFailures \in Failures
      /\ Len(NoFailures.recent) <= MaxRecent
  BY AuthRefreshAssumption
     DEF Number, NoDocument, Document, NoFailures, Failures,
         AuthRefreshAssumption
<1>2. gone \in SUBSET Tasks /\ Dropped(gone)
  BY DEF Restart
<1>3. /\ strays' \subseteq Number /\ lost' \subseteq Number
      /\ issued' \in Number /\ spent' \subseteq Number
      /\ revoked' \subseteq Number
  BY <1>2, DroppedKeepsType
<1>4. faults' \in 0..MaxFaults
  BY FaultKeepsType DEF Restart
<1>5. pc' \in [Tasks -> PC]
  BY DEF Restart, TypeOK, PC, Waiting
<1>6. /\ got' \in [Tasks -> Number]
      /\ held' \in [Tasks -> Document]
      /\ answer' \in [Tasks -> Document]
  BY <1>1 DEF Restart, TypeOK
<1>7. login' \in [Logins -> LoginPC]
  BY DEF Restart, TypeOK, LoginPC
<1>8. /\ failures' \in [Processes -> Failures]
      /\ \A q \in Processes : Len(failures'[q].recent) <= MaxRecent
  BY <1>1 DEF Restart, TypeOK
<1> QED
  BY <1>3, <1>4, <1>5, <1>6, <1>7, <1>8 DEF Restart, TypeOK

\* A login keeps the type invariant.
LEMMA LoginKeepsType ==
  ASSUME TypeOK, NEW l \in Logins, Login(l) PROVE TypeOK'
<1>1. \A from, to \in LoginPC : SetLogin(l, from, to)
                               => login' \in [Logins -> LoginPC]
  BY DEF SetLogin, TypeOK
<1>2. {"new", "running", "stray", "ended"} \subseteq LoginPC
  BY DEF LoginPC
<1>3. CASE StartLogin(l) \/ EndLogin(l)
  BY <1>1, <1>2, <1>3 DEF StartLogin, EndLogin, SetLogin, TypeOK, taskVars
<1>4. CASE WriteLogin(l)
  <2>1. NoDocument \in Document
    BY AuthRefreshAssumption
       DEF NoDocument, Document, Number, AuthRefreshAssumption
  <2>2. issued < MaxIssued => issued + 1 \in Number /\ Fresh \in Document
    BY AuthRefreshAssumption
       DEF TypeOK, Number, Fresh, Document, AuthRefreshAssumption
  <2>3. file' \in Document /\ issued' \in Number /\ near' \in BOOLEAN
    BY <1>4, <2>1, <2>2 DEF WriteLogin, TypeOK
  <2> QED
    BY <1>1, <1>2, <1>4, <2>3 DEF WriteLogin, SetLogin, TypeOK, taskVars
<1> QED
  BY <1>3, <1>4 DEF Login

\* Every step keeps the type invariant.
LEMMA StepsKeepType == TypeOK /\ [Next]_vars => TypeOK'
<1> SUFFICES ASSUME TypeOK, [Next]_vars PROVE TypeOK'
  OBVIOUS
<1>1. ASSUME NEW g \in strays, ExchangeStray(g) PROVE TypeOK'
  BY <1>1 DEF ExchangeStray, TypeOK, taskVars
<1>2. CASE Revoke
  BY <1>2, FaultKeepsType DEF Revoke, TypeOK, taskVars, Document
<1>3. CASE Tick
  BY <1>3 DEF Tick, TypeOK, taskVars, serverVars
<1>4. CASE UNCHANGED vars
  BY <1>4 DEF vars, TypeOK, taskVars, serverVars
<1> QED
  BY <1>1, <1>2, <1>3, <1>4, RequestKeepsType, WorkKeepsType, ServerKeepsType,
     DisturbKeepsType, RestartKeepsType, LoginKeepsType DEF Next

\* The initial state is well typed.
LEMMA StartsTyped == Init => TypeOK
<1> SUFFICES ASSUME Init PROVE TypeOK
  OBVIOUS
<1>1. 0 \in Number /\ 1 \in Number /\ 0 \in 0..MaxFaults
  BY AuthRefreshAssumption DEF Number, AuthRefreshAssumption
<1>2. NoDocument \in Document /\ file \in Document
  BY <1>1 DEF Init, NoDocument, Document
<1>3. NoFailures \in Failures /\ Len(NoFailures.recent) <= MaxRecent
  BY <1>1, AuthRefreshAssumption DEF NoFailures, Failures, AuthRefreshAssumption
<1>4. failures \in [Processes -> Failures]
      /\ \A p \in Processes : Len(failures[p].recent) <= MaxRecent
  BY <1>3 DEF Init
<1>5. pc \in [Tasks -> PC] /\ login \in [Logins -> LoginPC]
  BY DEF Init, PC, Waiting, LoginPC
<1>6. /\ call \in [Tasks -> Call]
      /\ got \in [Tasks -> Number]
      /\ held \in [Tasks -> Document]
      /\ answer \in [Tasks -> Document]
  BY <1>1, <1>2 DEF Init, Call
<1> QED
  BY <1>1, <1>2, <1>4, <1>5, <1>6 DEF Init, TypeOK

\* Every variable has its type, and no memory outgrows its bound.
THEOREM TypeCorrect == Spec => []TypeOK
BY StartsTyped, StepsKeepType, PTL DEF Spec

-----------------------------------------------------------------------------
(* The lock of the home, and what happens to grants.                       *)

Holds(t) == pc[t] \in Holding

(***************************************************************************)
(* One refresh at a time, over all processes, and none during a login; so  *)
(* the document it read is the one in the file, unless a child strayed.    *)
(***************************************************************************)
LockInv ==
  /\ \A t, u \in Tasks : Holds(t) /\ Holds(u) => t = u
  /\ \A t \in Tasks, l \in Logins : Holds(t) => login[l] # "running"
  /\ \A t \in Tasks : Holds(t) => held[t] = file \/ ChildStrayed

\* The server has issued every grant there is.
Known ==
  /\ file.grant <= issued
  /\ \A t \in Tasks : held[t].grant <= issued /\ answer[t].grant <= issued
  /\ \A g \in spent \cup strays : g <= issued

\* A grant that was not exchanged, or whose successor is lost.
Told(g) == g \in spent => g \in lost

(***************************************************************************)
(* A spent grant stays in the file only while the task that was told its   *)
(* successor is about to write it; that is why no refresh posts it.        *)
(***************************************************************************)
GrantInv ==
  /\ \/ ~Readable
     \/ Told(file.grant)
     \/ \E t \in Tasks : pc[t] = "answered" /\ held[t].grant = file.grant
  /\ \A t \in Tasks :
       /\ pc[t] = "posted" => Told(held[t].grant)
       /\ pc[t] = "answered" => Told(answer[t].grant)
       /\ pc[t] = "refused" => held[t].grant \in lost \cup revoked
  /\ NoNeedlessLogin

AccountInv == TypeOK /\ LockInv /\ Known /\ GrantInv

\* A task that returns holds nothing any more, and the others go on.
Returns(t) ==
  /\ ~Holds(t)'
  /\ held'[t] = NoDocument /\ answer'[t] = NoDocument
  /\ \A u \in Tasks \ {t} :
       pc'[u] = pc[u] /\ held'[u] = held[u] /\ answer'[u] = answer[u]

\* So does a call that fails, and a request that ends.
LEMMA FailureReturns ==
  ASSUME TypeOK, NEW t \in Tasks, NEW c, FailIn(t, c) \/ End(t)
  PROVE  Returns(t)
<1>1. Forget(t) /\ \E place \in {"mutex", "reject", "ended"} : Goto(t, place)
  BY DEF FailIn, NextAccount, End
<1> QED
  BY <1>1 DEF Goto, Forget, TypeOK, Returns, Holds, Holding

\* Every way to return is one.
LEMMA ReturnReturns ==
  ASSUME TypeOK, NEW t \in Tasks, NEW b,
         Serve(t, b) \/ Fail(t)
  PROVE  Returns(t)
<1>1. CASE Fail(t)
  BY <1>1, FailureReturns DEF Fail
<1>2. CASE Serve(t, b)
  <2>1. Forget(t) /\ \E place \in {"mutex", "idle", "reject", "use"} : Goto(t, place)
    BY <1>2 DEF Serve, NextAccount
  <2> QED
    BY <2>1 DEF Goto, Forget, TypeOK, Returns, Holds, Holding
<1> QED
  BY <1>1, <1>2

\* A fallback is a return.
LEMMA FallBackReturns ==
  ASSUME TypeOK, NEW t \in Tasks, NEW d, FallBack(t, d)
  PROVE  Returns(t)
BY ReturnReturns DEF FallBack

(***************************************************************************)
(* A step in which no grant moves keeps the invariants: no task takes the  *)
(* lock or changes what it knows, and an answer is not dropped.            *)
(***************************************************************************)
LEMMA IdleGrants ==
  ASSUME AccountInv,
         UNCHANGED <<file, issued, spent, lost, revoked, strays, login>>,
         \A u \in Tasks :
           \/ pc'[u] = pc[u] /\ held'[u] = held[u] /\ answer'[u] = answer[u]
           \/ /\ pc[u] # "answered"
              /\ ~Holds(u)'
              /\ held'[u] = NoDocument \/ held'[u] = held[u]
              /\ answer'[u] = NoDocument \/ answer'[u] = answer[u],
         NoNeedlessLogin'
  PROVE  LockInv' /\ Known' /\ GrantInv'
<1>1. LockInv'
  BY DEF AccountInv, LockInv, Holds, ChildStrayed
<1>2. issued >= 0
  BY DEF AccountInv, TypeOK, Number
<1>3. Known'
  BY <1>2 DEF AccountInv, Known, NoDocument
<1>4. GrantInv'
  BY DEF AccountInv, GrantInv, Holds, Holding, Told, Readable
<1> QED
  BY <1>1, <1>3, <1>4

\* A memory of no other grant keeps its promise.
LEMMA SameGrants ==
  ASSUME NoNeedlessLogin, UNCHANGED <<lost, revoked>>,
         \A p \in Processes : failures'[p].grant = failures[p].grant
  PROVE  NoNeedlessLogin'
BY DEF NoNeedlessLogin

\* Remembering a bearer touches no grant.
LEMMA RememberKeepsGrants ==
  ASSUME TypeOK, NEW p \in Processes, NEW b, Remember(p, b)
  PROVE  \A q \in Processes : failures'[q].grant = failures[q].grant
<1> DEFINE mid == [failures EXCEPT ![p].recent = Pushed(failures[p].recent, b)]
           slot == IF Readable /\ file.bearer = b THEN b ELSE failures[p].bearer
<1>1. /\ DOMAIN mid = Processes
      /\ DOMAIN mid[p] = {"grant", "bearer", "recent"}
      /\ \A q \in Processes : mid[q].grant = failures[q].grant
  BY DEF TypeOK, Failures
<1>2. failures' = [mid EXCEPT ![p].bearer = slot]
  BY DEF Remember
<1> HIDE DEF mid, slot
<1> QED
  BY <1>1, <1>2

\* A request's own steps keep the invariants.
LEMMA RequestKeepsAccount ==
  ASSUME AccountInv, NEW r \in Requests, Request(r)
  PROVE  LockInv' /\ Known' /\ GrantInv'
<1>1. r \in Tasks /\ Proc[r] \in Processes /\ TypeOK
  BY AuthRefreshAssumption DEF Tasks, AccountInv, AuthRefreshAssumption
<1>2. pc[r] \in {"idle", "use", "reject"}
      /\ UNCHANGED <<file, issued, spent, lost, revoked, strays, login>>
  BY DEF Request, ReadUsable, ReadUnusable, ReadFails, Accepted, Unauthorized,
         RejectAgain, serverVars
<1>3. \/ Returns(r)
      \/ Goto(r, "mutex") /\ UNCHANGED <<held, answer>>
  BY <1>1, ReturnReturns, FailureReturns
     DEF Request, ReadUsable, ReadUnusable, ReadFails, Accepted, Unauthorized,
         RejectAgain
<1>4. \A u \in Tasks :
        \/ pc'[u] = pc[u] /\ held'[u] = held[u] /\ answer'[u] = answer[u]
        \/ /\ pc[u] # "answered"
           /\ ~Holds(u)'
           /\ held'[u] = NoDocument \/ held'[u] = held[u]
           /\ answer'[u] = NoDocument \/ answer'[u] = answer[u]
  BY <1>1, <1>2, <1>3 DEF Returns, Goto, TypeOK, Holds, Holding
<1>5. \A q \in Processes : failures'[q].grant = failures[q].grant
  BY <1>1, RememberKeepsGrants
     DEF Request, ReadUsable, ReadUnusable, ReadFails, Accepted, Unauthorized,
         RejectAgain
<1>6. NoNeedlessLogin'
  BY <1>2, <1>5, SameGrants DEF AccountInv, GrantInv
<1> QED
  BY <1>2, <1>4, <1>6, IdleGrants

\* Entering the mutex, and returning with both locks, moves no grant.
LEMMA LockedKeepsAccount ==
  ASSUME AccountInv, NEW t \in Tasks,
         EnterMutex(t) \/ Unreadable(t) \/ Reuse(t) \/ KnownRefused(t)
  PROVE  LockInv' /\ Known' /\ GrantInv'
<1>1. TypeOK /\ pc[t] \in {"mutex", "home"}
      /\ UNCHANGED <<file, issued, spent, lost, revoked, strays, login, failures>>
  BY DEF AccountInv, EnterMutex, Unreadable, Reuse, KnownRefused, Locked,
         serverVars
<1>2. \/ Returns(t)
      \/ Goto(t, "home") /\ UNCHANGED <<held, answer>>
  BY <1>1, ReturnReturns, FallBackReturns
     DEF EnterMutex, Unreadable, Reuse, KnownRefused
<1>3. \A u \in Tasks :
        \/ pc'[u] = pc[u] /\ held'[u] = held[u] /\ answer'[u] = answer[u]
        \/ /\ pc[u] # "answered"
           /\ ~Holds(u)'
           /\ held'[u] = NoDocument \/ held'[u] = held[u]
           /\ answer'[u] = NoDocument \/ answer'[u] = answer[u]
  BY <1>1, <1>2 DEF Returns, Goto, TypeOK, Holds, Holding
<1>4. NoNeedlessLogin'
  BY <1>1, SameGrants DEF AccountInv, GrantInv
<1> QED
  BY <1>1, <1>3, <1>4, IdleGrants

\* What is posted is the grant in the file, and nobody else is told of it.
LEMMA PostKeepsAccount ==
  ASSUME AccountInv, NEW t \in Tasks, Post(t)
  PROVE  LockInv' /\ Known' /\ GrantInv'
<1>1. /\ TypeOK
      /\ \A u \in Tasks : ~Holds(u)
      /\ \A l \in Logins : login[l] # "running"
      /\ UNCHANGED <<file, issued, spent, lost, revoked, strays, login, failures,
                     answer>>
      /\ Readable
      /\ Goto(t, "posted") /\ held' = [held EXCEPT ![t] = file]
  BY DEF AccountInv, Post, Locked, HomeFree, Holds, serverVars
<1>2. /\ pc'[t] = "posted" /\ held'[t] = file
      /\ \A u \in Tasks \ {t} : ~Holds(u)' /\ pc'[u] = pc[u] /\ held'[u] = held[u]
  BY <1>1 DEF Goto, TypeOK, Holds
<1>3. LockInv'
  BY <1>1, <1>2 DEF LockInv
<1>4. Known'
  BY <1>1, <1>2 DEF AccountInv, Known
<1>5. Told(file.grant)
  BY <1>1 DEF AccountInv, GrantInv, Holds, Holding
<1>6. GrantInv'
  BY <1>1, <1>2, <1>5
     DEF AccountInv, GrantInv, Told, NoNeedlessLogin, Holds, Holding
<1> QED
  BY <1>3, <1>4, <1>6

\* The successor of the spent grant takes its place in the file.
LEMMA PersistKeepsAccount ==
  ASSUME AccountInv, NEW t \in Tasks, Persist(t)
  PROVE  LockInv' /\ Known' /\ GrantInv'
<1>1. /\ TypeOK /\ Holds(t) /\ pc[t] = "answered"
      /\ file' = answer[t]
      /\ UNCHANGED <<issued, spent, lost, revoked, strays, login, failures>>
  BY DEF AccountInv, Persist, Holds, Holding, serverVars
<1>2. Returns(t)
  BY <1>1, ReturnReturns DEF Persist
<1>3. \A u \in Tasks : ~Holds(u)'
  BY <1>1, <1>2 DEF AccountInv, LockInv, Returns, Holds
<1>4. LockInv'
  BY <1>3 DEF LockInv
<1>5. issued >= 0
  BY <1>1 DEF TypeOK, Number
<1>6. Known'
  BY <1>1, <1>2, <1>5 DEF AccountInv, Known, Returns, NoDocument
<1>7. Told(file.grant)'
  BY <1>1 DEF AccountInv, GrantInv, Told
<1>8. GrantInv'
  BY <1>1, <1>3, <1>7
     DEF AccountInv, GrantInv, NoNeedlessLogin, Holds, Holding
<1> QED
  BY <1>4, <1>6, <1>8

\* The grant that is recorded as refused is one a login is needed for.
LEMMA RefusedKeepsAccount ==
  ASSUME AccountInv, NEW t \in Tasks, Refused(t)
  PROVE  LockInv' /\ Known' /\ GrantInv'
<1>1. /\ TypeOK /\ pc[t] = "refused" /\ Returns(t)
      /\ UNCHANGED <<file, issued, spent, lost, revoked, strays, login>>
  BY FallBackReturns DEF AccountInv, Refused, serverVars
<1>2. \A u \in Tasks :
        \/ pc'[u] = pc[u] /\ held'[u] = held[u] /\ answer'[u] = answer[u]
        \/ /\ pc[u] # "answered"
           /\ ~Holds(u)'
           /\ held'[u] = NoDocument \/ held'[u] = held[u]
           /\ answer'[u] = NoDocument \/ answer'[u] = answer[u]
  BY <1>1 DEF Returns
<1>3. \A p \in Processes :
        failures'[p].grant \in {failures[p].grant, held[t].grant}
  BY <1>1 DEF Refused, TypeOK, Failures
<1>4. NoNeedlessLogin'
  BY <1>1, <1>3 DEF AccountInv, GrantInv, NoNeedlessLogin
<1> QED
  BY <1>1, <1>2, <1>4, IdleGrants

\* A grant is spent by the one task that has the lock, which is told.
LEMMA ExchangeKeepsAccount ==
  ASSUME AccountInv, NEW t \in Tasks, Exchange(t)
  PROVE  LockInv' /\ Known' /\ GrantInv'
<1> DEFINE g == held[t].grant
<1>1. /\ TypeOK /\ Holds(t) /\ pc[t] = "posted"
      /\ g \notin spent /\ g \notin lost
      /\ issued' = issued + 1
      /\ UNCHANGED <<file, lost, revoked, strays, held, login, failures>>
  BY DEF AccountInv, Exchange, Holds, Holding, Valid
<1>2. /\ pc'[t] = "answered"
      /\ \A u \in Tasks \ {t} : /\ pc'[u] = pc[u] /\ answer'[u] = answer[u]
                               /\ ~Holds(u) /\ ~Holds(u)'
  BY <1>1 DEF Exchange, Goto, TypeOK, AccountInv, LockInv, Holds
<1>3. \/ answer'[t].grant = issued + 1 /\ spent' = spent \cup {g}
      \/ answer'[t].grant = g /\ spent' = spent
  BY <1>1 DEF Exchange, Fresh, TypeOK
<1>4. issued \in Nat /\ g \in Nat /\ file.grant \in Nat
      /\ \A u \in Tasks : held[u].grant \in Nat /\ answer[u].grant \in Nat
      /\ spent \subseteq Nat /\ strays \subseteq Nat
  BY <1>1 DEF TypeOK, Number, Document
<1>5. LockInv'
  BY <1>1, <1>2 DEF AccountInv, LockInv, ChildStrayed, Holds
<1>6. Known'
  <2>1. g <= issued
    BY DEF AccountInv, Known
  <2> QED
    BY <1>1, <1>2, <1>3, <1>4, <2>1 DEF AccountInv, Known
<1>7. issued + 1 \notin spent /\ issued + 1 # g
  BY <1>4 DEF AccountInv, Known
<1>8. Told(answer[t].grant)'
  BY <1>1, <1>3, <1>7 DEF Told
<1>9. ~Readable' \/ Told(file.grant)' \/ held'[t].grant = file'.grant
  <2>1. ~Readable \/ Told(file.grant)
    BY <1>1, <1>2 DEF AccountInv, GrantInv, Holds, Holding
  <2> QED
    BY <1>1, <1>3, <2>1 DEF Told, Readable
<1>10. GrantInv'
  BY <1>1, <1>2, <1>8, <1>9
     DEF AccountInv, GrantInv, NoNeedlessLogin, Holds, Holding
<1> QED
  BY <1>5, <1>6, <1>10

\* The server answers with the same tokens, or refuses the grant.
LEMMA AnswerKeepsAccount ==
  ASSUME AccountInv, NEW t \in Tasks, Repeat(t) \/ Refuse(t)
  PROVE  LockInv' /\ Known' /\ GrantInv'
<1>1. /\ TypeOK /\ Holds(t) /\ pc[t] = "posted"
      /\ UNCHANGED <<file, issued, spent, lost, revoked, strays, held, login,
                     failures>>
  BY DEF AccountInv, Repeat, Refuse, Holds, Holding, serverVars
<1>2. \A u \in Tasks \ {t} : /\ pc'[u] = pc[u] /\ answer'[u] = answer[u]
                          /\ ~Holds(u) /\ ~Holds(u)'
  BY <1>1 DEF Repeat, Refuse, Goto, TypeOK, AccountInv, LockInv, Holds
<1>3. Told(held[t].grant)
  BY <1>1 DEF AccountInv, GrantInv
<1>4. \/ pc'[t] = "answered" /\ answer'[t] = held[t]
      \/ /\ pc'[t] = "refused" /\ answer'[t] = answer[t]
         /\ held[t].grant \in lost \cup revoked
  BY <1>1, <1>3 DEF Repeat, Refuse, Goto, TypeOK, Valid, Told
<1>5. LockInv'
  BY <1>1, <1>2 DEF AccountInv, LockInv, ChildStrayed, Holds
<1>6. Known'
  BY <1>1, <1>2, <1>4 DEF AccountInv, Known
<1>7. GrantInv'
  <2>1. ~Readable \/ Told(file.grant)
    BY <1>1, <1>2 DEF AccountInv, GrantInv, Holds, Holding
  <2> QED
    BY <1>1, <1>2, <1>3, <1>4, <2>1
       DEF AccountInv, GrantInv, Told, NoNeedlessLogin, Holds, Holding, Readable
<1> QED
  BY <1>5, <1>6, <1>7

(***************************************************************************)
(* Tasks that are dropped leave a grant that is posted and not exchanged,  *)
(* or one whose successor is known to be lost.                             *)
(***************************************************************************)
LEMMA DroppedKeepsAccount ==
  ASSUME AccountInv, NEW T \in SUBSET Tasks, Dropped(T), UNCHANGED file,
         \A l \in Logins : login'[l] = "running" => login[l] = "running",
         ChildStrayed => ChildStrayed',
         \A u \in T : /\ ~Holds(u)'
                      /\ held'[u] = NoDocument /\ answer'[u] = NoDocument,
         \A u \in Tasks \ T : /\ pc'[u] = pc[u]
                              /\ held'[u] = held[u] /\ answer'[u] = answer[u],
         \A p \in Processes : failures'[p].grant \in {0, failures[p].grant}
  PROVE  LockInv' /\ Known' /\ GrantInv'
<1>1. LockInv'
  BY DEF AccountInv, LockInv, Holds
<1>2. issued >= 0 /\ UNCHANGED <<issued, spent, revoked>>
  BY DEF AccountInv, TypeOK, Number, Dropped
<1>3. Known'
  <2>1. \A g \in strays' : g <= issued
    BY DEF AccountInv, Known, Dropped
  <2>2. \A u \in Tasks : held'[u].grant <= issued /\ answer'[u].grant <= issued
    BY <1>2 DEF AccountInv, Known, NoDocument
  <2> QED
    BY <1>2, <2>1, <2>2 DEF AccountInv, Known
<1>4. lost \subseteq lost'
  BY DEF Dropped
<1>5. \A g : Told(g) => Told(g)'
  BY <1>2, <1>4 DEF Told
<1>6. ASSUME NEW t \in T, pc[t] = "answered", held[t].grant = file.grant
      PROVE  Told(file.grant)'
  <2>1. CASE answer[t].grant = held[t].grant
    BY <1>5, <1>6, <2>1 DEF AccountInv, GrantInv
  <2>2. CASE answer[t].grant # held[t].grant
    <3>1. held[t].grant \in lost'
      BY <1>6, <2>2 DEF Dropped
    <3> QED
      BY <1>6, <3>1 DEF Told
  <2> QED
    BY <2>1, <2>2
<1>7. \/ ~Readable'
      \/ Told(file.grant)'
      \/ \E t \in Tasks : pc'[t] = "answered" /\ held'[t].grant = file'.grant
  BY <1>5, <1>6 DEF AccountInv, GrantInv, Readable
<1>8. \A t \in Tasks :
        /\ pc'[t] = "posted" => Told(held[t].grant)' /\ held'[t] = held[t]
        /\ pc'[t] = "answered" => Told(answer[t].grant)'
        /\ pc'[t] = "refused" => held'[t].grant \in lost' \cup revoked'
  <2>1. SUFFICES ASSUME NEW t \in Tasks \ T
                 PROVE  /\ pc[t] = "posted" => Told(held[t].grant)'
                        /\ pc[t] = "answered" => Told(answer[t].grant)'
                        /\ pc[t] = "refused" => held[t].grant \in lost' \cup revoked'
    BY DEF Holds, Holding
  <2>2. held'[t] = held[t] /\ answer'[t] = answer[t]
    OBVIOUS
  <2> QED
    BY <1>2, <1>4, <2>2 DEF AccountInv, GrantInv, Told
<1>9. NoNeedlessLogin'
  BY <1>2, <1>4 DEF AccountInv, GrantInv, NoNeedlessLogin
<1>10. GrantInv'
  BY <1>7, <1>8, <1>9 DEF GrantInv
<1> QED
  BY <1>1, <1>3, <1>10

\* A call that is cut short, and a server that fails, keep the invariants.
LEMMA CutShortKeepsAccount ==
  ASSUME AccountInv, NEW t \in Tasks, CutShort(t) \/ ServerFails(t)
  PROVE  LockInv' /\ Known' /\ GrantInv'
<1>1. TypeOK /\ Returns(t) /\ UNCHANGED <<file, login, failures>>
  BY ReturnReturns DEF AccountInv, CutShort, ServerFails
<1>2. CASE CutShort(t)
  BY <1>1, <1>2, DroppedKeepsAccount DEF CutShort, Returns, ChildStrayed
<1>3. CASE ServerFails(t)
  <2>1. /\ pc[t] = "posted"
        /\ UNCHANGED <<issued, spent, lost, revoked, strays>>
    BY <1>3 DEF ServerFails, serverVars
  <2>2. NoNeedlessLogin'
    BY <1>1, <2>1, SameGrants DEF AccountInv, GrantInv
  <2> QED
    BY <1>1, <2>1, <2>2, IdleGrants DEF Returns
<1> QED
  BY <1>2, <1>3

\* A restart drops the tasks of its process.
LEMMA RestartKeepsAccount ==
  ASSUME AccountInv, NEW p \in Processes, Restart(p)
  PROVE  LockInv' /\ Known' /\ GrantInv'
<1> DEFINE gone == {t \in Tasks :
                   Proc[t] = p /\ (pc[t] # "idle" \/ call[t] = "again")}
<1>1. TypeOK /\ gone \in SUBSET Tasks /\ Dropped(gone) /\ UNCHANGED file
  BY DEF AccountInv, Restart
<1>2. /\ \A u \in gone : /\ ~Holds(u)'
                         /\ held'[u] = NoDocument /\ answer'[u] = NoDocument
      /\ \A u \in Tasks \ gone : /\ pc'[u] = pc[u]
                                 /\ held'[u] = held[u] /\ answer'[u] = answer[u]
  BY DEF Restart, Holds, Holding
<1>3. /\ \A l \in Logins : login'[l] = "running" => login[l] = "running"
      /\ ChildStrayed => ChildStrayed'
  BY DEF Restart, ChildStrayed
<1>4. \A q \in Processes : failures'[q].grant \in {0, failures[q].grant}
  BY <1>1 DEF Restart, TypeOK, NoFailures
<1> HIDE DEF gone
<1> QED
  BY <1>1, <1>2, <1>3, <1>4, DroppedKeepsAccount

\* A login waits for the lock, and what its child writes is new.
LEMMA LoginKeepsAccount ==
  ASSUME AccountInv, NEW l \in Logins, Login(l)
  PROVE  LockInv' /\ Known' /\ GrantInv'
<1>1. /\ TypeOK
      /\ UNCHANGED <<spent, lost, revoked, strays, pc, held, answer, failures>>
  BY DEF AccountInv, Login, StartLogin, WriteLogin, EndLogin, SetLogin, taskVars
<1>2. issued \in Nat /\ file.grant \in Nat /\ spent \cup strays \subseteq Nat
      /\ \A u \in Tasks : held[u].grant \in Nat /\ answer[u].grant \in Nat
  BY <1>1 DEF TypeOK, Number, Document
<1>3. CASE StartLogin(l) \/ EndLogin(l)
  <2>1. /\ UNCHANGED <<file, issued>>
        /\ \A k \in Logins \ {l} : login'[k] = login[k]
        /\ login[l] # "stray"
        /\ login'[l] = "running" => \A t \in Tasks : ~Holds(t)
    BY <1>1, <1>3 DEF StartLogin, EndLogin, SetLogin, HomeFree, Holds, TypeOK
  <2>2. LockInv'
    BY <1>1, <2>1 DEF AccountInv, LockInv, ChildStrayed, Holds
  <2>3. Known' /\ GrantInv'
    BY <1>1, <2>1
       DEF AccountInv, Known, GrantInv, Told, NoNeedlessLogin, Readable
  <2> QED
    BY <2>2, <2>3
<1>4. CASE WriteLogin(l)
  <2>1. /\ UNCHANGED login
        /\ \/ login[l] = "running"
           \/ ChildStrayed
    BY <1>1, <1>4 DEF WriteLogin, SetLogin, TypeOK, ChildStrayed
  <2>2. \/ issued' = issued + 1 /\ file'.grant = issued + 1
        \/ issued' = issued /\ file'.grant = 0
    BY <1>4 DEF WriteLogin, Fresh, NoDocument
  <2>3. LockInv'
    BY <1>1, <2>1 DEF AccountInv, LockInv, ChildStrayed, Holds
  <2>4. Known'
    BY <1>1, <1>2, <2>2 DEF AccountInv, Known
  <2>5. GrantInv'
    <3>1. ~Readable' \/ Told(file.grant)'
      <4>1. issued + 1 \notin spent
        BY <1>2 DEF AccountInv, Known
      <4> QED
        BY <1>1, <1>4, <4>1 DEF WriteLogin, Fresh, Readable, Told
    <3> QED
      BY <1>1, <3>1 DEF AccountInv, GrantInv, Told, NoNeedlessLogin
  <2> QED
    BY <2>3, <2>4, <2>5
<1> QED
  BY <1>3, <1>4 DEF Login

\* Every step keeps the invariant.
LEMMA StepsKeepAccount == AccountInv /\ [Next]_vars => AccountInv'
<1> SUFFICES ASSUME AccountInv, [Next]_vars
             PROVE  LockInv' /\ Known' /\ GrantInv'
  BY StepsKeepType DEF AccountInv
<1>1. ASSUME NEW t \in Tasks, Work(t)
      PROVE  LockInv' /\ Known' /\ GrantInv'
  BY <1>1, LockedKeepsAccount, PostKeepsAccount, PersistKeepsAccount,
     RefusedKeepsAccount DEF Work
<1>2. ASSUME NEW t \in Tasks, Server(t) \/ Disturb(t)
      PROVE  LockInv' /\ Known' /\ GrantInv'
  BY <1>2, ExchangeKeepsAccount, AnswerKeepsAccount, CutShortKeepsAccount
     DEF Server, Disturb
<1>3. ASSUME NEW g \in strays, ExchangeStray(g)
      PROVE  LockInv' /\ Known' /\ GrantInv'
  <2>1. /\ UNCHANGED <<file, issued, revoked, pc, held, answer, login, failures>>
        /\ strays' \subseteq strays
        /\ lost \subseteq lost' /\ lost' \subseteq lost \cup {g}
        /\ \/ spent' = spent \cup {g} /\ g \in lost'
           \/ spent' = spent
    BY <1>3 DEF ExchangeStray, taskVars
  <2>2. \A x : Told(x) => Told(x)'
    BY <2>1 DEF Told
  <2>3. LockInv'
    BY <2>1 DEF AccountInv, LockInv, ChildStrayed, Holds
  <2>4. Known'
    BY <1>3, <2>1 DEF AccountInv, Known
  <2>5. GrantInv'
    BY <2>1, <2>2 DEF AccountInv, GrantInv, NoNeedlessLogin, Readable, Told
  <2> QED
    BY <2>3, <2>4, <2>5
<1>4. CASE Revoke \/ Tick \/ UNCHANGED vars
  <2>1. /\ UNCHANGED <<file, issued, spent, lost, strays, pc, held, answer, login,
                       failures>>
        /\ revoked \subseteq revoked'
    BY <1>4 DEF Revoke, Tick, vars, taskVars, serverVars
  <2>2. LockInv' /\ Known'
    BY <2>1 DEF AccountInv, LockInv, Known, ChildStrayed, Holds
  <2>3. GrantInv'
    BY <2>1 DEF AccountInv, GrantInv, NoNeedlessLogin, Readable, Told
  <2> QED
    BY <2>2, <2>3
<1> QED
  BY <1>1, <1>2, <1>3, <1>4, RequestKeepsAccount, RestartKeepsAccount,
     LoginKeepsAccount DEF Next

\* The invariant holds at first.
LEMMA AccountStarts == Init => AccountInv
<1> SUFFICES ASSUME Init PROVE AccountInv
  OBVIOUS
<1>1. \A t \in Tasks : ~Holds(t)
  BY DEF Init, Holds, Holding
<1>2. LockInv
  BY <1>1 DEF LockInv
<1>3. Known
  BY DEF Init, Known, NoDocument
<1>4. NoNeedlessLogin
  BY DEF Init, NoNeedlessLogin, NoFailures
<1>5. GrantInv
  BY <1>1, <1>4 DEF Init, GrantInv, Told, Holds, Holding
<1> QED
  BY <1>2, <1>3, <1>5, StartsTyped DEF AccountInv

\* The invariant holds of every reachable state.
LEMMA AccountHolds == Spec => []AccountInv
BY AccountStarts, StepsKeepAccount, PTL DEF Spec

-----------------------------------------------------------------------------
(* The slot of the current bearer.                                         *)

\* The server has issued every bearer that is used or remembered.
BearersIssued ==
  /\ file.bearer <= issued
  /\ \A t \in Tasks : /\ got[t] <= issued
                      /\ held[t].bearer <= issued /\ answer[t].bearer <= issued
  /\ \A p \in Processes, b \in Number : Rejected(p, b) => b <= issued

Unseen(b) ==
  /\ b # 0 /\ b # file.bearer
  /\ \A t \in Tasks : got[t] # b
  /\ \A p \in Processes : ~Rejected(p, b)

\* What a refresh brings is the bearer it had, or one nobody has seen.
AnswersAreNew ==
  \A t \in Tasks : pc[t] = "answered"
    => answer[t].bearer = held[t].bearer \/ Unseen(answer[t].bearer)

\* Unless a child strayed, a rejected bearer that is current has the slot.
SlotOfCurrent ==
  Readable /\ ~ChildStrayed =>
    \A p \in Processes :
      Rejected(p, file.bearer) => failures[p].bearer = file.bearer

SlotInv ==
  /\ BearersIssued
  /\ AnswersAreNew
  /\ \A t \in Tasks : Holds(t) => held[t] # NoDocument
  /\ SlotOfCurrent

\* What a process remembers after a rejection.
LEMMA RememberedBearers ==
  ASSUME TypeOK, NEW p \in Processes, NEW b \in Number, Remember(p, b)
  PROVE  \A q \in Processes :
           /\ failures'[q].bearer =
                IF q = p /\ Readable /\ file.bearer = b
                  THEN b ELSE failures[q].bearer
           /\ Range(failures'[q].recent) \subseteq Range(failures[q].recent) \cup {b}
<1> DEFINE old == failures[p].recent
           recent == Pushed(old, b)
           mid == [failures EXCEPT ![p].recent = recent]
           slot == IF Readable /\ file.bearer = b THEN b ELSE failures[p].bearer
<1>1. old \in Seq(Number)
  BY DEF TypeOK, Failures
<1>2. Range(recent) \subseteq Range(old) \cup {b}
  <2>1. CASE b \in Range(old)
    BY <2>1 DEF Pushed
  <2>2. CASE b \notin Range(old) /\ Len(old) # MaxRecent
    BY <1>1, <2>2 DEF Pushed, Range
  <2>3. CASE b \notin Range(old) /\ Len(old) = MaxRecent
    <3>1. old # <<>>
      BY <2>3, AuthRefreshAssumption DEF AuthRefreshAssumption
    <3>2. recent = Append(Tail(old), b)
      BY <2>3 DEF Pushed
    <3>3. Range(Tail(old)) \subseteq Range(old)
      BY <1>1, <3>1 DEF Range
    <3>4. Tail(old) \in Seq(Number)
      BY <1>1, <3>1
    <3>5. Range(Append(Tail(old), b)) \subseteq Range(Tail(old)) \cup {b}
      BY <3>4 DEF Range
    <3> QED
      BY <3>2, <3>3, <3>5
  <2> QED
    BY <2>1, <2>2, <2>3
<1> HIDE DEF recent, slot
<1>3. /\ DOMAIN mid = Processes
      /\ DOMAIN mid[p] = {"grant", "bearer", "recent"}
      /\ mid[p].recent = recent
      /\ \A q \in Processes : /\ mid[q].bearer = failures[q].bearer
                              /\ q # p => mid[q] = failures[q]
  BY DEF TypeOK, Failures
<1>4. failures' = [mid EXCEPT ![p].bearer = slot]
  BY DEF Remember, recent, slot
<1> HIDE DEF mid
<1>5. /\ failures'[p].bearer = slot /\ failures'[p].recent = recent
      /\ \A q \in Processes \ {p} : failures'[q] = failures[q]
  BY <1>3, <1>4
<1>6. slot = IF Readable /\ file.bearer = b THEN b ELSE failures[p].bearer
  BY DEF slot
<1> QED
  BY <1>2, <1>5, <1>6

(***************************************************************************)
(* What a step may do to the memory of rejected bearers while the file     *)
(* stays: add a bearer that is in use, and give the current one its slot.  *)
(***************************************************************************)
MemoryFollows ==
  /\ \A p \in Processes, b \in Number :
       Rejected(p, b)' => \/ Rejected(p, b)
                          \/ b = 0
                          \/ \E t \in Tasks : got[t] = b
  /\ SlotOfCurrent'

\* A rejection is such a step.
LEMMA RememberFollows ==
  ASSUME TypeOK, SlotInv, NEW t \in Tasks, Remember(Proc[t], got[t]),
         UNCHANGED <<file, login>>
  PROVE  MemoryFollows
<1>1. Proc[t] \in Processes /\ got[t] \in Number
  BY AuthRefreshAssumption DEF AuthRefreshAssumption, TypeOK
<1>2. \A q \in Processes :
        /\ failures'[q].bearer =
             IF q = Proc[t] /\ Readable /\ file.bearer = got[t]
               THEN got[t] ELSE failures[q].bearer
        /\ Range(failures'[q].recent) \subseteq
             Range(failures[q].recent) \cup {got[t]}
        /\ q # Proc[t] => failures'[q] = failures[q]
  <2>1. \A q \in Processes \ {Proc[t]} : failures'[q] = failures[q]
    BY <1>1 DEF Remember, TypeOK
  <2> QED
    BY <1>1, <2>1, RememberedBearers
<1>3. \A p \in Processes, b \in Number : Rejected(p, b)'
        => Rejected(p, b) \/ b = got[t]
  BY <1>2 DEF Rejected
<1>4. SlotOfCurrent'
  <2>1. SUFFICES ASSUME Readable, ~ChildStrayed, NEW p \in Processes,
                        Rejected(p, file.bearer)'
                 PROVE  failures'[p].bearer = file.bearer
    BY DEF SlotOfCurrent, Readable, ChildStrayed
  <2>2. CASE p = Proc[t] /\ file.bearer = got[t]
    BY <1>2, <2>1, <2>2
  <2>3. CASE ~(p = Proc[t] /\ file.bearer = got[t])
    <3>1. Rejected(p, file.bearer)
      BY <1>2, <2>1, <2>3 DEF Rejected
    <3>2. failures[p].bearer = file.bearer
      BY <2>1, <3>1 DEF SlotInv, SlotOfCurrent
    <3> QED
      BY <1>2, <2>3, <3>2
  <2> QED
    BY <2>2, <2>3
<1> QED
  BY <1>3, <1>4 DEF MemoryFollows

\* So is a step that rejects nothing.
LEMMA SameBearersFollow ==
  ASSUME SlotInv, UNCHANGED file, ChildStrayed => ChildStrayed',
         \A p \in Processes :
           \/ /\ failures'[p].bearer = failures[p].bearer
              /\ failures'[p].recent = failures[p].recent
           \/ failures'[p] = NoFailures
  PROVE  MemoryFollows
<1>1. NoFailures.bearer = 0 /\ Range(NoFailures.recent) = {}
  BY DEF NoFailures, Range
<1>2. \A p \in Processes, b \in Number :
        Rejected(p, b)' => Rejected(p, b) \/ b = 0
  BY <1>1 DEF Rejected
<1>3. SlotOfCurrent'
  <2>1. SUFFICES ASSUME Readable, ~ChildStrayed, NEW p \in Processes,
                        Rejected(p, file.bearer)'
                 PROVE  failures'[p].bearer = file.bearer
    BY DEF SlotOfCurrent, Readable
  <2>2. CASE failures'[p] = NoFailures
    BY <1>1, <2>1, <2>2 DEF Rejected
  <2>3. CASE /\ failures'[p].bearer = failures[p].bearer
             /\ failures'[p].recent = failures[p].recent
    BY <2>1, <2>3 DEF Rejected, SlotInv, SlotOfCurrent
  <2> QED
    BY <2>2, <2>3
<1> QED
  BY <1>2, <1>3 DEF MemoryFollows

(***************************************************************************)
(* A step in which no bearer is issued or written keeps the invariant: it  *)
(* takes a bearer from the file, or from what a task with the lock read.   *)
(***************************************************************************)
LEMMA IdleBearers ==
  ASSUME AccountInv, SlotInv, UNCHANGED <<file, issued>>, MemoryFollows,
         \A u \in Tasks :
           /\ pc'[u] = "answered" =>
                pc[u] = "answered" /\ answer'[u] = answer[u] /\ held'[u] = held[u]
           /\ Holds(u)' => held'[u] # NoDocument
           /\ held'[u] \in {held[u], NoDocument, file}
           /\ answer'[u] \in {answer[u], NoDocument}
           /\ \/ got'[u] \in {got[u], 0, file.bearer}
              \/ /\ \E t \in Tasks : got'[u] = held[t].bearer
                 /\ \A t \in Tasks : pc'[t] # "answered"
  PROVE  SlotInv'
<1>1. TypeOK /\ issued >= 0 /\ issued' = issued /\ file' = file
  BY DEF AccountInv, TypeOK, Number
<1>2. BearersIssued'
  <2>1. \A u \in Tasks : got'[u] <= issued
    BY <1>1 DEF SlotInv, BearersIssued
  <2>2. \A u \in Tasks :
          held'[u].bearer <= issued /\ answer'[u].bearer <= issued
    BY <1>1 DEF SlotInv, BearersIssued, NoDocument
  <2>3. \A p \in Processes, b \in Number : Rejected(p, b)' => b <= issued
    BY <1>1 DEF SlotInv, BearersIssued, MemoryFollows
  <2> QED
    BY <1>1, <2>1, <2>2, <2>3 DEF SlotInv, BearersIssued, Rejected
<1>3. ASSUME NEW t \in Tasks, pc'[t] = "answered"
      PROVE  answer'[t].bearer = held'[t].bearer \/ Unseen(answer[t].bearer)'
  <2>1. PICK b \in Number : b = answer[t].bearer
    BY <1>1 DEF TypeOK, Document
  <2>2. /\ pc[t] = "answered" /\ answer'[t].bearer = b
        /\ held'[t].bearer = held[t].bearer
    BY <1>3, <2>1
  <2>3. CASE b = held[t].bearer
    BY <2>2, <2>3
  <2>4. CASE Unseen(b)
    <3>1. \A u \in Tasks : got'[u] # b
      BY <1>3, <2>4 DEF Unseen
    <3>2. \A p \in Processes : ~Rejected(p, b)'
      BY <2>4 DEF Unseen, MemoryFollows
    <3>3. Unseen(b)'
      BY <1>1, <2>4, <3>1, <3>2 DEF Unseen
    <3> QED
      BY <2>2, <3>3 DEF Unseen, Rejected
  <2> QED
    BY <2>1, <2>2, <2>3, <2>4 DEF SlotInv, AnswersAreNew
<1>4. AnswersAreNew'
  BY <1>3 DEF AnswersAreNew
<1>5. \A t \in Tasks : Holds(t)' => held'[t] # NoDocument
  OBVIOUS
<1> QED
  BY <1>2, <1>4, <1>5 DEF SlotInv, MemoryFollows

\* A call that fails, or a request that ends, hands out no bearer.
LEMMA FailureServesNothing ==
  ASSUME TypeOK, NEW t \in Tasks, NEW c, FailIn(t, c) \/ End(t)
  PROVE  /\ \A u \in Tasks \ {t} : got'[u] = got[u]
         /\ got'[t] \in {got[t], 0}
         /\ pc'[t] # "use"
<1>1. \E place \in {"mutex", "reject", "ended"} : Goto(t, place)
  BY DEF FailIn, NextAccount, End
<1>2. UNCHANGED got \/ got' = [got EXCEPT ![t] = 0]
  BY DEF FailIn, NextAccount, End
<1> QED
  BY <1>1, <1>2 DEF Goto, TypeOK

\* A call that returns hands out the bearer it checked, if any.
LEMMA ReturnServes ==
  ASSUME TypeOK, NEW t \in Tasks, NEW b, Serve(t, b) \/ Fail(t)
  PROVE  /\ \A u \in Tasks \ {t} : got'[u] = got[u]
         /\ got'[t] \in {got[t], 0, b}
         /\ pc'[t] = "use" => Serve(t, b) /\ got'[t] = b
<1>1. CASE Fail(t)
  BY <1>1, FailureServesNothing DEF Fail
<1>2. CASE Serve(t, b)
  BY <1>2 DEF Serve, NextAccount, Goto, TypeOK
<1> QED
  BY <1>1, <1>2

\* A return keeps the invariant, with a bearer of the file or of the lock.
LEMMA ReturnKeepsSlot ==
  ASSUME AccountInv, SlotInv, NEW t \in Tasks, UNCHANGED <<file, issued>>,
         MemoryFollows, Returns(t),
         \A u \in Tasks \ {t} : got'[u] = got[u],
         \/ got'[t] \in {got[t], 0, file.bearer}
         \/ Holds(t) /\ got'[t] = held[t].bearer
  PROVE  SlotInv'
<1>1. \A u \in Tasks : pc'[u] = "answered" =>
        pc[u] = "answered" /\ answer'[u] = answer[u] /\ held'[u] = held[u]
  BY DEF Returns, Holds, Holding
<1>2. \A u \in Tasks : Holds(u)' => held'[u] # NoDocument
  BY DEF Returns, Holds, SlotInv
<1>3. Holds(t) => \A u \in Tasks : pc'[u] # "answered"
  BY DEF Returns, Holds, Holding, AccountInv, LockInv
<1> QED
  BY <1>1, <1>2, <1>3, IdleBearers DEF Returns

\* A call that fails, whatever became of its tokens, keeps the invariant.
LEMMA FailureKeepsSlot ==
  ASSUME AccountInv, SlotInv, NEW t \in Tasks, UNCHANGED <<file, issued>>,
         MemoryFollows, NEW c, FailIn(t, c) \/ End(t)
  PROVE  SlotInv'
<1>1. TypeOK
  BY DEF AccountInv
<1> QED
  BY <1>1, FailureReturns, FailureServesNothing, ReturnKeepsSlot

\* A request's own steps keep the invariant.
LEMMA RequestKeepsSlot ==
  ASSUME AccountInv, SlotInv, NEW r \in Requests, Request(r)
  PROVE  SlotInv'
<1>1. r \in Tasks /\ TypeOK
  BY AuthRefreshAssumption DEF Tasks, AccountInv
<1>2. UNCHANGED <<file, issued, login>>
  BY DEF Request, ReadUsable, ReadUnusable, ReadFails, Accepted, Unauthorized,
         RejectAgain, serverVars
<1>3. MemoryFollows
  <2>1. CASE UNCHANGED failures
    BY <1>2, <2>1, SameBearersFollow DEF ChildStrayed
  <2>2. CASE Remember(Proc[r], got[r])
    BY <1>1, <1>2, <2>2, RememberFollows
  <2> QED
    BY <2>1, <2>2
       DEF Request, ReadUsable, ReadUnusable, ReadFails, Accepted, Unauthorized,
           RejectAgain
<1>4. CASE ReadUsable(r)
  <2>1. Serve(r, file.bearer)
    BY <1>4 DEF ReadUsable
  <2> QED
    BY <1>1, <1>2, <1>3, <2>1, ReturnReturns, ReturnServes, ReturnKeepsSlot
<1>5. CASE Goto(r, "mutex") /\ UNCHANGED <<got, held, answer>>
  BY <1>1, <1>2, <1>3, <1>5, IdleBearers
     DEF Goto, TypeOK, Holds, Holding, SlotInv
<1>6. CASE End(r) \/ \E c \in Call : FailIn(r, c)
  BY <1>1, <1>2, <1>3, <1>6, FailureKeepsSlot
<1> QED
  <2>1. call[r] \in Call /\ "force" \in Call
    BY <1>1 DEF TypeOK, Call
  <2> QED
    BY <1>4, <1>5, <1>6, <2>1
       DEF Request, ReadUnusable, ReadFails, Fail, Accepted, Unauthorized,
           RejectAgain

\* So do the steps of a call under its locks, up to the answer.
LEMMA WorkKeepsSlot ==
  ASSUME AccountInv, SlotInv, NEW t \in Tasks, Work(t), ~Persist(t)
  PROVE  SlotInv'
<1>1. TypeOK /\ UNCHANGED <<file, issued, login>>
  BY DEF AccountInv, Work, EnterMutex, Unreadable, Reuse, KnownRefused, Post,
         Refused, serverVars
<1>2. MemoryFollows
  <2>1. \A p \in Processes : /\ failures'[p].bearer = failures[p].bearer
                             /\ failures'[p].recent = failures[p].recent
    <3>1. UNCHANGED failures \/ Refused(t)
      BY DEF Work, EnterMutex, Unreadable, Reuse, KnownRefused, Post
    <3>2. CASE Refused(t)
      BY <1>1, <3>2 DEF Refused, TypeOK, Failures
    <3> QED
      BY <3>1, <3>2
  <2> QED
    BY <1>1, <2>1, SameBearersFollow DEF ChildStrayed
<1>3. CASE EnterMutex(t)
  BY <1>1, <1>2, <1>3, IdleBearers
     DEF EnterMutex, Goto, TypeOK, Holds, Holding, SlotInv
<1>4. CASE Unreadable(t) \/ Reuse(t) \/ KnownRefused(t)
  <2>1. Serve(t, file.bearer) \/ Fail(t)
    BY <1>4 DEF Unreadable, Reuse, KnownRefused, FallBack
  <2> QED
    BY <1>1, <1>2, <2>1, ReturnReturns, ReturnServes, ReturnKeepsSlot
<1>5. CASE Post(t)
  <2>1. \A u \in Tasks : pc'[u] # "answered"
    BY <1>1, <1>5 DEF Post, Locked, HomeFree, Holding, Goto, TypeOK
  <2>2. \A u \in Tasks : Holds(u)' => held'[u] # NoDocument
    BY <1>1, <1>5
       DEF Post, Locked, HomeFree, Holds, Holding, Goto, TypeOK, Readable
  <2>3. \A u \in Tasks : held'[u] \in {held[u], file}
    BY <1>1, <1>5 DEF Post, TypeOK
  <2> QED
    BY <1>1, <1>2, <1>5, <2>1, <2>2, <2>3, IdleBearers DEF Post
<1>6. CASE Refused(t)
  <2>1. Serve(t, held[t].bearer) \/ Fail(t)
    BY <1>6 DEF Refused, FallBack
  <2>2. Holds(t)
    BY <1>6 DEF Refused, Holds, Holding
  <2> QED
    BY <1>1, <1>2, <2>1, <2>2, ReturnReturns, ReturnServes, ReturnKeepsSlot
<1> QED
  BY <1>3, <1>4, <1>5, <1>6 DEF Work

(***************************************************************************)
(* What is written is the bearer that was there, or one that no process    *)
(* can have rejected yet.                                                  *)
(***************************************************************************)
LEMMA PersistKeepsSlot ==
  ASSUME AccountInv, SlotInv, NEW t \in Tasks, Persist(t)
  PROVE  SlotInv'
<1> DEFINE b == answer[t].bearer
<1>1. /\ TypeOK /\ Holds(t) /\ pc[t] = "answered"
      /\ file' = answer[t]
      /\ UNCHANGED <<issued, login, failures>>
      /\ Serve(t, b) \/ Fail(t)
  BY DEF AccountInv, Persist, Holds, Holding, serverVars
<1>2. Returns(t)
  BY <1>1, ReturnReturns
<1>3. \A u \in Tasks : ~Holds(u)' /\ pc'[u] # "answered"
  BY <1>1, <1>2 DEF AccountInv, LockInv, Returns, Holds, Holding
<1>4. BearersIssued'
  <2>1. issued >= 0
    BY <1>1 DEF TypeOK, Number
  <2>2. \A u \in Tasks : got'[u] \in {got[u], 0, b}
    BY <1>1, ReturnServes
  <2>3. \A u \in Tasks : held'[u] \in {held[u], NoDocument}
                         /\ answer'[u] \in {answer[u], NoDocument}
    BY <1>2 DEF Returns
  <2> QED
    BY <1>1, <2>1, <2>2, <2>3 DEF SlotInv, BearersIssued, NoDocument, Rejected
<1>5. SlotOfCurrent'
  <2>1. SUFFICES ASSUME ~ChildStrayed, NEW p \in Processes, Rejected(p, b)
                 PROVE  failures[p].bearer = b
    BY <1>1 DEF SlotOfCurrent, ChildStrayed, Rejected
  <2>2. b = held[t].bearer
    BY <1>1, <2>1 DEF SlotInv, AnswersAreNew, Unseen
  <2>3. held[t] = file /\ Readable
    BY <1>1, <2>1 DEF AccountInv, LockInv, SlotInv, Readable
  <2> QED
    BY <2>1, <2>2, <2>3 DEF SlotInv, SlotOfCurrent
<1> QED
  BY <1>3, <1>4, <1>5 DEF SlotInv, AnswersAreNew

\* A bearer that the server issues is new to everybody.
LEMMA ServerKeepsSlot ==
  ASSUME AccountInv, SlotInv, NEW t \in Tasks, Server(t) \/ Repeat(t)
  PROVE  SlotInv'
<1>1. /\ TypeOK /\ Holds(t) /\ issued \in Nat
      /\ pc[t] = "posted"
      /\ UNCHANGED <<file, got, held, login, failures>>
  BY DEF AccountInv, Server, Exchange, Refuse, Repeat, Holds, Holding, TypeOK,
         Number
<1>2. \A u \in Tasks \ {t} : /\ pc'[u] = pc[u] /\ answer'[u] = answer[u]
                          /\ ~Holds(u) /\ ~Holds(u)' /\ pc'[u] # "answered"
  BY <1>1 DEF Server, Exchange, Refuse, Repeat, Goto, TypeOK, AccountInv, LockInv,
              Holds, Holding
<1>3. \A u \in Tasks : Holds(u)' => held'[u] # NoDocument
  BY <1>1, <1>2 DEF SlotInv
<1>4. SlotOfCurrent'
  BY <1>1 DEF SlotInv, SlotOfCurrent, Readable, ChildStrayed, Rejected
<1>5. CASE Exchange(t)
  <2>1. issued' = issued + 1 /\ answer'[t].bearer = issued + 1
    BY <1>1, <1>5 DEF Exchange, Fresh, TypeOK
  <2>2. \A x \in Number : x <= issued => x <= issued' /\ x # issued + 1
    BY <1>1, <2>1 DEF Number
  <2>3. file.bearer \in Number
        /\ \A u \in Tasks : /\ got[u] \in Number /\ held[u].bearer \in Number
                            /\ answer[u].bearer \in Number
    BY <1>1 DEF TypeOK, Document
  <2>4. BearersIssued'
    BY <1>1, <1>2, <2>1, <2>2, <2>3 DEF SlotInv, BearersIssued, Rejected
  <2>5. Unseen(issued + 1)
    <3>1. issued + 1 \in Number
      BY <1>1, <1>5, AuthRefreshAssumption
         DEF Exchange, Number, AuthRefreshAssumption
    <3>2. \A p \in Processes : ~Rejected(p, issued + 1)
      BY <1>1, <3>1 DEF SlotInv, BearersIssued
    <3> QED
      BY <1>1, <2>2, <2>3, <3>2 DEF SlotInv, BearersIssued, Unseen
  <2>6. AnswersAreNew'
    <3> DEFINE b == issued + 1
    <3> HIDE DEF b
    <3>1. Unseen(answer[t].bearer)'
      BY <1>1, <2>1, <2>5 DEF Unseen, Rejected
    <3> QED
      BY <1>2, <3>1 DEF AnswersAreNew
  <2> QED
    BY <1>3, <1>4, <2>4, <2>6 DEF SlotInv
<1>6. CASE Refuse(t) \/ Repeat(t)
  <2>1. /\ UNCHANGED issued
        /\ \/ pc'[t] = "answered" /\ answer'[t] = held[t]
           \/ pc'[t] = "refused" /\ answer'[t] = answer[t]
    BY <1>1, <1>6 DEF Refuse, Repeat, Goto, TypeOK, serverVars
  <2>2. BearersIssued'
    BY <1>1, <1>2, <2>1 DEF SlotInv, BearersIssued, Rejected
  <2>3. AnswersAreNew'
    BY <1>1, <1>2, <2>1 DEF AnswersAreNew
  <2> QED
    BY <1>3, <1>4, <2>2, <2>3 DEF SlotInv
<1> QED
  BY <1>5, <1>6 DEF Server

\* What a login's child writes is new, or nothing.
LEMMA LoginKeepsSlot ==
  ASSUME AccountInv, SlotInv, NEW l \in Logins, Login(l)
  PROVE  SlotInv'
<1>1. /\ TypeOK /\ issued \in Nat
      /\ UNCHANGED <<pc, got, held, answer, failures>>
      /\ ChildStrayed => ChildStrayed'
  BY DEF AccountInv, Login, StartLogin, WriteLogin, EndLogin, SetLogin, taskVars,
         TypeOK, Number, ChildStrayed
<1>2. CASE StartLogin(l) \/ EndLogin(l)
  <2>1. UNCHANGED <<file, issued>>
    BY <1>2 DEF StartLogin, EndLogin
  <2>2. MemoryFollows
    BY <1>1, <2>1, SameBearersFollow
  <2> QED
    BY <1>1, <2>1, <2>2, IdleBearers DEF Holds, SlotInv
<1>3. CASE WriteLogin(l)
  <2>1. \/ issued < MaxIssued /\ issued' = issued + 1 /\ file' = Fresh
        \/ issued' = issued /\ file' = NoDocument
    BY <1>3 DEF WriteLogin
  <2>2. \/ issued' = issued + 1 /\ file'.bearer = issued + 1
        \/ issued' = issued /\ file'.bearer = 0 /\ ~Readable'
    BY <2>1 DEF Fresh, NoDocument, Readable
  <2>3. \A u \in Tasks : /\ got[u] \in Number /\ held[u].bearer \in Number
                         /\ answer[u].bearer \in Number
    BY <1>1 DEF TypeOK, Document
  <2>4. \A x \in Number : x <= issued => x <= issued' /\ x # issued + 1
    BY <1>1, <2>2 DEF Number
  <2>5. BearersIssued'
    BY <1>1, <2>2, <2>3, <2>4 DEF SlotInv, BearersIssued, Rejected
  <2>6. AnswersAreNew'
    <3>1. ASSUME NEW t \in Tasks, Unseen(answer[t].bearer)
          PROVE  Unseen(answer[t].bearer)'
      BY <1>1, <2>2, <2>3, <2>4, <3>1 DEF SlotInv, BearersIssued, Unseen, Rejected
    <3> QED
      BY <1>1, <3>1 DEF SlotInv, AnswersAreNew
  <2>7. SlotOfCurrent'
    <3>1. SUFFICES ASSUME issued < MaxIssued, file'.bearer = issued + 1
                   PROVE  \A p \in Processes : ~Rejected(p, file.bearer)'
      BY <2>1, <2>2 DEF SlotOfCurrent, Readable, Fresh
    <3>2. issued + 1 \in Number
      BY <1>1, <3>1, AuthRefreshAssumption DEF Number, AuthRefreshAssumption
    <3>3. \A p \in Processes : ~Rejected(p, issued + 1)
      BY <1>1, <3>2 DEF SlotInv, BearersIssued
    <3> QED
      BY <1>1, <3>1, <3>3 DEF Rejected
  <2> QED
    BY <1>1, <2>5, <2>6, <2>7 DEF SlotInv, Holds
<1> QED
  BY <1>2, <1>3 DEF Login

\* Calls that are cut short, and restarts, keep the invariant.
LEMMA FaultsKeepSlot ==
  ASSUME AccountInv, SlotInv,
         \/ \E t \in Tasks : CutShort(t) \/ ServerFails(t)
         \/ \E p \in Processes : Restart(p)
  PROVE  SlotInv'
<1>1. TypeOK
  BY DEF AccountInv
<1>2. ASSUME NEW t \in Tasks, CutShort(t) \/ ServerFails(t) PROVE SlotInv'
  <2>1. UNCHANGED <<file, issued, login, failures>> /\ Fail(t)
    BY <1>2 DEF CutShort, ServerFails, Dropped, serverVars
  <2>2. MemoryFollows
    BY <2>1, SameBearersFollow DEF ChildStrayed
  <2> QED
    BY <2>1, <2>2, FailureKeepsSlot DEF Fail
<1>3. ASSUME NEW p \in Processes, Restart(p) PROVE SlotInv'
  <2>1. /\ UNCHANGED <<file, issued>>
        /\ ChildStrayed => ChildStrayed'
    BY <1>3 DEF Restart, Dropped, ChildStrayed
  <2>2. \A q \in Processes :
          failures'[q] = failures[q] \/ failures'[q] = NoFailures
    BY <1>1, <1>3 DEF Restart, TypeOK
  <2>3. MemoryFollows
    BY <2>1, <2>2, SameBearersFollow
  <2>4. \A u \in Tasks :
          \/ /\ pc'[u] = pc[u] /\ held'[u] = held[u]
             /\ answer'[u] = answer[u] /\ got'[u] = got[u]
          \/ /\ pc'[u] \in {"mutex", "ended"} /\ held'[u] = NoDocument
             /\ answer'[u] = NoDocument /\ got'[u] = 0
    BY <1>3 DEF Restart
  <2> QED
    BY <2>1, <2>3, <2>4, IdleBearers DEF SlotInv, Holds, Holding
<1> QED
  BY <1>2, <1>3

\* Every step keeps the invariant.
LEMMA StepsKeepSlot == AccountInv /\ SlotInv /\ [Next]_vars => SlotInv'
<1> SUFFICES ASSUME AccountInv, SlotInv, [Next]_vars PROVE SlotInv'
  OBVIOUS
<1>1. ASSUME \/ \E g \in strays : ExchangeStray(g)
             \/ Revoke \/ Tick \/ UNCHANGED vars
      PROVE  SlotInv'
  <2>1. UNCHANGED <<file, issued, pc, got, held, answer, login, failures>>
    BY <1>1 DEF ExchangeStray, Revoke, Tick, vars, taskVars, serverVars
  <2>2. MemoryFollows
    BY <2>1, SameBearersFollow DEF ChildStrayed
  <2> QED
    BY <2>1, <2>2, IdleBearers DEF SlotInv, Holds
<1> QED
  BY <1>1, RequestKeepsSlot, WorkKeepsSlot, PersistKeepsSlot, ServerKeepsSlot,
     LoginKeepsSlot, FaultsKeepSlot DEF Next, Disturb

\* Nothing is rejected at first, and no task holds the lock.
LEMMA SlotStarts == Init => SlotInv
<1> SUFFICES ASSUME Init PROVE SlotInv
  OBVIOUS
<1>1. \A p \in Processes : failures[p].bearer = 0 /\ Range(failures[p].recent) = {}
  BY DEF Init, NoFailures, Range
<1>2. \A t \in Tasks : ~Holds(t) /\ pc[t] # "answered"
  BY DEF Init, Holds, Holding
<1>3. BearersIssued
  BY <1>1 DEF Init, BearersIssued, NoDocument, Rejected
<1>4. SlotOfCurrent
  BY <1>1 DEF Init, SlotOfCurrent, Rejected
<1> QED
  BY <1>2, <1>3, <1>4 DEF SlotInv, AnswersAreNew

\* The invariant holds of every reachable state.
LEMMA SlotHolds == Spec => []SlotInv
BY AccountHolds, SlotStarts, StepsKeepSlot, PTL DEF Spec

\* The slot of a process changes to the current bearer, or with a restart.
LEMMA SlotMoves ==
  ASSUME TypeOK, [Next]_vars, NEW p \in Processes
  PROVE  \/ failures'[p].bearer \in {failures[p].bearer, file.bearer}
         \/ failures'[p] = NoFailures
<1>1. ASSUME NEW t \in Tasks, Remember(Proc[t], got[t])
      PROVE  failures'[p].bearer \in {failures[p].bearer, file.bearer}
  <2>1. Proc[t] \in Processes /\ got[t] \in Number
    BY AuthRefreshAssumption DEF AuthRefreshAssumption, TypeOK
  <2> QED
    BY <1>1, <2>1, RememberedBearers
<1>2. ASSUME NEW r \in Requests, Request(r)
      PROVE  UNCHANGED failures \/ Remember(Proc[r], got[r])
  BY <1>2 DEF Request, ReadUsable, ReadUnusable, ReadFails, Accepted,
              Unauthorized, RejectAgain
<1>3. ASSUME NEW t \in Tasks, Refused(t)
      PROVE  failures'[p].bearer = failures[p].bearer
  BY <1>3 DEF Refused, TypeOK, Failures
<1>4. ASSUME NEW t \in Tasks, Work(t), ~Refused(t) PROVE UNCHANGED failures
  BY <1>4 DEF Work, EnterMutex, Unreadable, Reuse, KnownRefused, Post, Persist
<1>5. ASSUME NEW t \in Tasks, Server(t) \/ Disturb(t) PROVE UNCHANGED failures
  BY <1>5 DEF Server, Exchange, Refuse, Disturb, CutShort, ServerFails, Repeat
<1>6. ASSUME NEW q \in Processes, Restart(q)
      PROVE  failures'[p] \in {failures[p], NoFailures}
  BY <1>6 DEF Restart, TypeOK
<1>7. ASSUME NEW l \in Logins, Login(l) PROVE UNCHANGED failures
  BY <1>7 DEF Login, StartLogin, WriteLogin, EndLogin, SetLogin
<1>8. ASSUME \/ \E g \in strays : ExchangeStray(g)
             \/ Revoke \/ Tick \/ UNCHANGED vars
      PROVE  UNCHANGED failures
  BY <1>8 DEF ExchangeStray, Revoke, Tick, vars
<1>9. \A r \in Requests : r \in Tasks
  BY DEF Tasks
<1> QED
  BY <1>1, <1>2, <1>3, <1>4, <1>5, <1>6, <1>7, <1>8, <1>9 DEF Next

\* A call hands out only a bearer that its process has not rejected.
LEMMA ServedIsUsable ==
  ASSUME TypeOK, [Next]_vars, NEW r \in Requests,
         pc[r] # "use", pc'[r] = "use"
  PROVE  ~Rejected(Proc[r], got'[r])
<1>1. r \in Tasks
  BY DEF Tasks
<1>2. CASE Request(r)
  <2>1. CASE ReadUsable(r)
    BY <1>1, <2>1, ReturnServes DEF ReadUsable
  <2>2. CASE Goto(r, "mutex") \/ End(r) \/ \E c \in Call : FailIn(r, c)
    BY <1>1, <2>2, FailureServesNothing DEF Goto, TypeOK
  <2>3. call[r] \in Call /\ "force" \in Call
    BY <1>1 DEF TypeOK, Call
  <2> QED
    BY <1>2, <2>1, <2>2, <2>3
       DEF Request, ReadUnusable, ReadFails, Fail, Accepted, Unauthorized,
           RejectAgain
<1>3. CASE Work(r)
  <2>1. CASE Reuse(r)
    BY <1>1, <2>1, ReturnServes DEF Reuse
  <2>2. ASSUME NEW d, FallBack(r, d) PROVE ~Rejected(Proc[r], got'[r])
    BY <1>1, <2>2, ReturnServes, FailureServesNothing DEF FallBack, Fail
  <2>3. CASE Persist(r)
    BY <1>1, <2>3, ReturnServes, FailureServesNothing DEF Persist, Fail
  <2>4. CASE Goto(r, "home") \/ Goto(r, "posted") \/ Fail(r)
    BY <1>1, <2>4, FailureServesNothing DEF Goto, TypeOK, Fail
  <2> QED
    BY <1>3, <2>1, <2>2, <2>3, <2>4
       DEF Work, EnterMutex, Unreadable, KnownRefused, Post, Refused
<1>4. CASE Server(r) \/ Disturb(r)
  <2>1. Goto(r, "answered") \/ Goto(r, "refused") \/ Fail(r)
    BY <1>4 DEF Server, Exchange, Refuse, Disturb, CutShort, ServerFails, Repeat
  <2> QED
    BY <1>1, <2>1, FailureServesNothing DEF Goto, TypeOK, Fail
<1>5. ASSUME NEW t \in Tasks, t # r, Request(t) \/ Work(t) \/ Server(t) \/ Disturb(t)
      PROVE  pc'[r] = pc[r]
  <2>1. CASE Returns(t)
    BY <1>1, <1>5, <2>1 DEF Returns
  <2>2. CASE \E place : Goto(t, place)
    BY <1>1, <1>5, <2>2 DEF Goto, TypeOK
  <2> QED
    BY <1>5, <2>1, <2>2, ReturnReturns, FallBackReturns, FailureReturns
       DEF Request, ReadUsable, ReadUnusable, ReadFails, Accepted, Unauthorized,
           RejectAgain, Work, EnterMutex, Unreadable, Reuse, KnownRefused, Post,
           Persist, Refused, Server, Exchange, Refuse, Disturb, CutShort,
           ServerFails, Repeat
<1>6. ASSUME NEW p \in Processes, Restart(p) PROVE FALSE
  BY <1>1, <1>6 DEF Restart
<1>7. ASSUME \/ \E g \in strays : ExchangeStray(g)
             \/ \E l \in Logins : Login(l)
             \/ Revoke \/ Tick \/ UNCHANGED vars
      PROVE  FALSE
  BY <1>7 DEF ExchangeStray, Login, StartLogin, WriteLogin, EndLogin, SetLogin,
              Revoke, Tick, vars, taskVars
<1> QED
  BY <1>2, <1>3, <1>4, <1>5, <1>6, <1>7 DEF Next, Tasks

-----------------------------------------------------------------------------
(* Theorems.                                                               *)

\* No process takes a grant for dead that another refresh has spent: what it
\* takes for dead was withdrawn, or its successor is lost.
THEOREM NoNeedlessLoginEver == Spec => []NoNeedlessLogin
<1>1. AccountInv => NoNeedlessLogin
  BY DEF AccountInv, GrantInv
<1> QED
  BY <1>1, AccountHolds, PTL

\* The document a task is about to replace is the one it read, unless a child
\* writes without the lock.
LEMMA WritesWhatWasRead ==
  ASSUME AccountInv, NEW t \in Tasks, pc[t] = "answered"
  PROVE  file = held[t] \/ ChildStrayed
BY DEF AccountInv, LockInv, Holds, Holding

\* A refresh never overwrites a login that was completed under the lock.
THEOREM LoginKeptAlways == Spec => LoginKept
<1>1. AccountInv /\ [Next]_vars =>
        [\A t \in Tasks : pc[t] = "answered" /\ file' # file
                            => file = held[t] \/ ChildStrayed]_vars
  BY WritesWhatWasRead
<1> QED
  BY <1>1, AccountHolds, PTL DEF Spec, LoginKept

\* A rejected bearer keeps its place for as long as it is current, and is handed
\* out to nobody.
THEOREM QuarantineHoldsAlways == Spec => QuarantineHolds
<1> DEFINE Kept ==
      /\ ~ChildStrayed => \A p \in Processes :
           Readable /\ Rejected(p, file.bearer) /\ file' = file
             => Rejected(p, file.bearer)' \/ failures'[p] = NoFailures
      /\ \A r \in Requests :
           pc[r] # "use" /\ pc'[r] = "use" => ~Rejected(Proc[r], got'[r])
<1>1. AccountInv /\ SlotInv /\ [Next]_vars => Kept
  <2>1. SUFFICES ASSUME AccountInv, SlotInv, [Next]_vars PROVE Kept
    OBVIOUS
  <2>2. ASSUME ~ChildStrayed, NEW p \in Processes, Readable,
               Rejected(p, file.bearer), file' = file
        PROVE  Rejected(p, file.bearer)' \/ failures'[p] = NoFailures
    <3>1. failures[p].bearer = file.bearer
      BY <2>1, <2>2 DEF SlotInv, SlotOfCurrent
    <3> QED
      BY <2>1, <2>2, <3>1, SlotMoves DEF AccountInv, Rejected
  <2> QED
    BY <2>1, <2>2, ServedIsUsable DEF AccountInv
<1>2. AccountInv /\ SlotInv /\ [Next]_vars => [Kept]_vars
  BY <1>1
<1> QED
  BY <1>2, AccountHolds, SlotHolds, PTL DEF Spec, QuarantineHolds
=============================================================================
