---------------------------- MODULE DispatchProofs ----------------------------
(***************************************************************************)
(* Proofs about Router and Dispatch, for every set of accounts, pool,      *)
(* threshold and account order, and for all requests, inputs, answers and  *)
(* disruptions, with a store that may or may not fail: the types first,    *)
(* then who owns what, then that Dispatch implements Continuity and that   *)
(* its retries keep their bounds.                                          *)
(*                                                                         *)
(* Who owns what, for every instance of Dispatch: hard continuity reaches  *)
(* only its issuer, what the client has seen stays bound, cohorts move     *)
(* only for their own requests, and what is on the wire was selected and   *)
(* checked in one epoch of its account.  Each property has an invariant of *)
(* its own, on top of the type invariant:                                  *)
(*                                                                         *)
(* AnchoredSends is not inductive.  Three facts carry it: the store never  *)
(* holds a wrong owner for a token (TokensOwned); from the moment every    *)
(* anchor has been looked up, a request's owner is the account that served *)
(* all its anchors; and a request with an owner never selects another      *)
(* account (both in Fits).                                                 *)
(*                                                                         *)
(* ExposedTurnsHaveOwners needs TokensOwned, and that an exposed turn      *)
(* loses its binding only by being forgotten (ExposedBound).               *)
(*                                                                         *)
(* CohortsStay needs that a handler's thread is its request's own key and  *)
(* only an unowned request has one, through every re-selection, and that a *)
(* soft key in the queue of bindings is one a non-hint request carries     *)
(* (CohortFit).                                                            *)
(*                                                                         *)
(* FencedDispatch needs to know what the handler's `generation` means at   *)
(* each place: the epoch the selection was made in and, once checked, the  *)
(* epoch it was checked in (Fenced).  Every way back into the loop (a      *)
(* stale selection, a retry after a 401, an alternate) re-establishes it.  *)
(***************************************************************************)
EXTENDS Dispatch, DispatchImplements, FiniteSetTheorems, TLAPS

-----------------------------------------------------------------------------
(* Router.  What a selection is good for is proved of the router alone, in  *)
(* ProxyProofs; the dispatch needs its types, and that a choice is one of   *)
(* the accounts.                                                            *)

\* Updating one field of one account keeps the type of the runtime.
LEMMA SetKeepsType ==
  ASSUME RouterTypeOK, NEW a \in Accounts,
         NEW field \in (DOMAIN FreshRuntime) \ {"usage"}, NEW value \in BOOLEAN,
         Set(a, field, value)
  PROVE  RouterTypeOK'
<1>1. [runtime[a] EXCEPT ![field] = value] \in Runtime
  BY DEF RouterTypeOK, Runtime, FreshRuntime
<1>2. runtime' = [runtime EXCEPT ![a] = [runtime[a] EXCEPT ![field] = value]]
  BY DEF Set, RouterTypeOK
<1> QED
  BY <1>1, <1>2 DEF RouterTypeOK, Set

\* Every operation of the router keeps the type invariant.
LEMMA RouterStepKeepsType ==
  ASSUME RouterTypeOK, RouterNext
  PROVE  RouterTypeOK'
<1> DEFINE Flag == (DOMAIN FreshRuntime) \ {"usage"}
<1>1. \A f \in {"needsLogin", "bearerUnusable", "loginInProgress", "quotaUntil",
                "avoided", "capacity", "surplus", "credit"} : f \in Flag
  BY DEF FreshRuntime
<1>2. ASSUME NEW a \in Accounts
      PROVE  /\ runtime[a] \in Runtime
             /\ \A f \in Flag : runtime[a][f] \in BOOLEAN
  BY DEF RouterTypeOK, Runtime, FreshRuntime
<1>3. ASSUME NEW a \in Accounts, AuthFailureMark(a)
      PROVE  RouterTypeOK'
  BY <1>3 DEF AuthFailureMark, RouterTypeOK, Runtime
<1>4. ASSUME NEW a \in Accounts, NEW ok \in BOOLEAN, FinishLogin(a, ok)
      PROVE  RouterTypeOK'
  <2>1. CASE ok
    <3>1. [runtime[a] EXCEPT !.loginInProgress = FALSE, !.needsLogin = FALSE,
                             !.avoided = FALSE] \in Runtime
      BY DEF RouterTypeOK, Runtime
    <3>2. runtime' =
            [runtime EXCEPT ![a] =
               [runtime[a] EXCEPT !.loginInProgress = FALSE,
                                  !.needsLogin = FALSE, !.avoided = FALSE]]
      BY <1>4, <2>1 DEF FinishLogin, RouterTypeOK
    <3> QED
      BY <1>4, <3>1, <3>2 DEF FinishLogin, RouterTypeOK
  <2>2. CASE ~ok
    BY <1>4, <2>2 DEF FinishLogin, RouterTypeOK, Runtime
  <2> QED
    BY <2>1, <2>2
<1>5. ASSUME NEW a \in Accounts, NEW u \in 0..FullUsage,
             NEW s \in BOOLEAN, NEW c \in BOOLEAN, ObserveUsage(a, u, s, c)
      PROVE  RouterTypeOK'
  <2>1. [runtime[a] EXCEPT !.usage = u, !.surplus = s, !.credit = c] \in Runtime
    BY DEF RouterTypeOK, Runtime
  <2>2. runtime' =
          [runtime EXCEPT ![a] =
             [runtime[a] EXCEPT !.usage = u, !.surplus = s, !.credit = c]]
    BY <1>5 DEF ObserveUsage, RouterTypeOK
  <2> QED
    BY <1>5, <2>1, <2>2 DEF ObserveUsage, RouterTypeOK
<1>6. ASSUME NEW a \in Accounts, NEW f \in Flag, NEW b \in BOOLEAN, Set(a, f, b)
      PROVE  RouterTypeOK'
  BY <1>6, SetKeepsType
<1>7. CASE SetAccountOrder
  <2>1. PICK o \in Orders : preferred' = o[1] /\ preserved' = o[2]
    BY <1>7 DEF SetAccountOrder
  <2>2. o[1] \in Members \cup {NoAccount} /\ o[2] \in Members \cup {NoAccount}
    BY RouterAssumption
  <2> QED
    BY <1>7, <2>1, <2>2 DEF SetAccountOrder, RouterTypeOK
<1>10. CASE SetPreferred
  <2>1. PICK o \in Orders : preferred' = o[1]
    BY <1>10 DEF SetPreferred
  <2>2. o[1] \in Members \cup {NoAccount}
    BY RouterAssumption
  <2> QED
    BY <1>10, <2>1, <2>2 DEF SetPreferred, RouterTypeOK
<1>11. CASE SetPreserved
  <2>1. PICK o \in Orders : preserved' = o[2]
    BY <1>11 DEF SetPreserved
  <2>2. o[2] \in Members \cup {NoAccount}
    BY RouterAssumption
  <2> QED
    BY <1>11, <2>1, <2>2 DEF SetPreserved, RouterTypeOK
<1>8. ASSUME NEW a \in Accounts, NEW trips \in BOOLEAN, CapacityFailure(a, trips)
      PROVE  RouterTypeOK'
  <2> DEFINE tripped == runtime[a].capacity \/ trips
  <2>1. tripped \in BOOLEAN
    OBVIOUS
  <2>2. Set(a, "capacity", tripped)
    BY <1>8 DEF CapacityFailure
  <2> HIDE DEF tripped
  <2> QED
    BY <2>1, <2>2, <1>1, <1>6
<1>9. ASSUME NEW a \in Accounts,
             \/ AuthRetryElapsed(a) \/ BearerRejected(a) \/ BearerReplaced(a)
             \/ BeginLogin(a) \/ QuotaFailure(a) \/ QuotaCleared(a)
             \/ SoftFailure(a) \/ AvoidElapsed(a) \/ CapacityElapsed(a)
      PROVE  RouterTypeOK'
  BY <1>1, <1>6, <1>9 DEF AuthRetryElapsed, BearerRejected, BearerReplaced,
     BeginLogin, QuotaFailure, QuotaCleared, SoftFailure, AvoidElapsed,
     CapacityElapsed
<1> QED
  BY <1>3, <1>4, <1>5, <1>7, <1>8, <1>9, <1>10, <1>11 DEF RouterNext, EditRoles

\* The router starts well typed.
LEMMA RouterStartsTyped == RouterInit => RouterTypeOK
<1>1. \A o \in Orders : o[1] \in Members \cup {NoAccount} /\ o[2] \in Members \cup {NoAccount}
  BY RouterAssumption
<1> QED
  BY <1>1, RouterAssumption DEF RouterInit, RouterTypeOK, FreshRuntime, Runtime

\* The router's state keeps its type under every operation: health has its
\* fields, and the roles, published one by one or as a pair, are of members.
THEOREM RouterTypeCorrect == RouterSpec => []RouterTypeOK
<1>1. RouterInit => RouterTypeOK
  BY RouterStartsTyped
<1>2. RouterTypeOK /\ [RouterNext]_routerVars => RouterTypeOK'
  <2>1. CASE RouterNext
    BY <2>1, RouterStepKeepsType
  <2>2. CASE UNCHANGED routerVars
    BY <2>2 DEF RouterTypeOK, routerVars
  <2> QED
    BY <2>1, <2>2
<1> QED
  BY <1>1, <1>2, PTL DEF RouterSpec

-----------------------------------------------------------------------------
(* Selection.                                                              *)

\* A soft preference narrows the choice and never empties it.
LEMMA PreferNarrows ==
  ASSUME NEW S, NEW good
  PROVE  /\ Prefer(S, good) \subseteq S
         /\ S # {} => Prefer(S, good) # {}
         /\ S \cap good \subseteq Prefer(S, good)
         /\ \A x \in Prefer(S, good) : x \notin good => S \cap good = {}
BY DEF Prefer

\* What is chosen was eligible.
LEMMA ChoicesAreEligible ==
  ASSUME NEW excluded, NEW hint
  PROVE  /\ FreshChoices(excluded, hint) \subseteq Candidates(excluded)
         /\ Candidates(excluded) \subseteq Eligible(excluded)
BY PreferNarrows DEF FreshChoices, Candidates

-----------------------------------------------------------------------------
(* Types.  What a place of the handler needs of the local variables is part *)
(* of the invariant: TypeOK alone is not inductive, since an account that   *)
(* is sent to or bound must be one.                                        *)

Holding ==
  {"stamp", "prebind", "resolve", "wire", "sent", "refresh"}
    \cup Validating \cup Recording

Shaped(place, local) ==
  /\ place \in Holding => local.account \in Members
  /\ place = "lookupEpoch" => local.found # NoBinding
  /\ place \in {"lookup", "prebind"} => local.thread # NoKey
  /\ place \in {"bindEpoch", "bindPut"} => local.queue # <<>>

ControlOK ==
  /\ pc \in [Requests -> PC]
  /\ req \in [Requests -> Local]
  /\ \A r \in Requests : Shaped(pc[r], req[r])

WorkOK ==
  /\ permits \subseteq Requests
  /\ lease \in [Requests -> AccountOrNone]
  /\ inflight \in [Accounts -> Nat]
  /\ ends \in [Accounts -> Nat]

HistoryOK ==
  /\ sends \in [Requests -> Seq(Members)]
  /\ served \in [Requests -> AccountOrNone]
  /\ answered \in [Requests -> SUBSET (Accounts \X Verdict)]
  /\ exposed \subseteq Tokens
  /\ forgotten \subseteq Keys
  /\ fence \in [Requests -> [selected : Nat, checked : Nat]]

TypeInv ==
  /\ RouterTypeOK
  /\ AffinityTypeOK
  /\ input \in [Requests -> Input]
  /\ invalidating \in [Accounts -> Nat]
  /\ ControlOK
  /\ WorkOK
  /\ HistoryOK

\* The invariant contains the type invariant of Dispatch.
LEMMA TypeInvImpliesTypeOK == TypeInv => TypeOK
BY DEF TypeInv, TypeOK, ControlOK, WorkOK, HistoryOK

\* Members are accounts; NoAccount is not one.
LEMMA AccountFacts ==
  /\ Members \subseteq Accounts
  /\ Members \subseteq AccountOrNone
  /\ NoAccount \in AccountOrNone
  /\ NoAccount \notin Members
BY RouterAssumption DEF AccountOrNone

\* Goto keeps the control part when it leaves well-shaped local variables.
LEMMA GotoKeepsControl ==
  ASSUME ControlOK, NEW r \in Requests, NEW place \in PC, NEW local \in Local,
         Shaped(place, local), Goto(r, place, local)
  PROVE  ControlOK'
BY DEF ControlOK, Goto

\* Release keeps the work part.
LEMMA ReleaseKeepsWork ==
  ASSUME WorkOK, NEW r \in Requests, Release(r)
  PROVE  WorkOK'
BY DEF WorkOK, Release, AccountOrNone

\* An ended request's local variables are local variables.
LEMMA BlankIsLocal == Blank \in Local /\ Shaped("ended", Blank)
BY RouterAssumption, DispatchAssumption
   DEF Blank, Local, Shaped, Holding, Validating, Recording, AccountOrNone,
       Generation, Retry

\* Finishing keeps the control and work parts.
LEMMA FinishKeeps ==
  ASSUME ControlOK, WorkOK, NEW r \in Requests, Finish(r)
  PROVE  ControlOK' /\ WorkOK'
BY BlankIsLocal, GotoKeepsControl, ReleaseKeepsWork DEF Finish, PC

\* What a typed request knows.
LEMMA LocalFacts ==
  ASSUME TypeInv, NEW r \in Requests
  PROVE  /\ req[r] \in Local
         /\ pc[r] \in PC
         /\ Shaped(pc[r], req[r])
         /\ input[r] \in Input
         /\ input[r].key \in SoftKeys \cup {NoKey}
         /\ input[r].anchors \subseteq Tokens
         /\ input[r].pin \in AccountOrNone
BY AccountFacts DEF TypeInv, ControlOK, Input, AccountOrNone

\* Store lookups return what the store may hold.
LEMMA StoreFacts ==
  ASSUME TypeInv
  PROVE  /\ \A k \in Keys : Lookup(k) \subseteq Binding \cup {NoBinding}
         /\ \A a \in Accounts : Epoch(a) \subseteq Generation
         /\ \A a \in Accounts : epochs[a] \in Nat
BY DEF TypeInv, AffinityTypeOK, Lookup, Epoch, Generation

\* Arriving and finding the hard owner keep the type invariant.
LEMMA ArrivalKeepsTypes ==
  ASSUME TypeInv, NEW r \in Requests,
         Arrive(r) \/ FindOwner(r) \/ OwnersFound(r)
  PROVE  TypeInv'
<1> USE LocalFacts
<1>1. CASE Arrive(r)
  <2>1. PICK i \in Inputs[r] :
          /\ input' = [input EXCEPT ![r] = i]
          /\ Goto(r, "owners", [Blank EXCEPT !.todo = i.anchors])
    BY <1>1 DEF Arrive
  <2>2. i \in Input
    BY DispatchAssumption
  <2>3. [Blank EXCEPT !.todo = i.anchors] \in Local
    BY <2>2, BlankIsLocal DEF Local, Input
  <2>4. ControlOK'
    BY <2>1, <2>3, GotoKeepsControl
       DEF TypeInv, Shaped, Holding, Validating, Recording, PC
  <2> QED
    BY <1>1, <2>1, <2>2, <2>4
       DEF Arrive, TypeInv, RouterTypeOK, AffinityTypeOK, WorkOK, HistoryOK,
           routerVars, storeVars, workVars, historyVars
<1>2. CASE FindOwner(r)
  <2>0. PICK t \in req[r].todo : \E found \in Lookup(t) :
          LET rest == [req[r] EXCEPT !.todo = @ \ {t}] IN
          \/ Goto(r, "owners", [rest EXCEPT !.missing = TRUE]) /\ UNCHANGED workVars
          \/ found # NoBinding
               /\ Goto(r, "owners", [rest EXCEPT !.owner = found.account])
               /\ UNCHANGED workVars
          \/ Finish(r)
    BY <1>2 DEF FindOwner
  <2>1. PICK found \in Lookup(t) :
          LET rest == [req[r] EXCEPT !.todo = @ \ {t}] IN
          \/ Goto(r, "owners", [rest EXCEPT !.missing = TRUE]) /\ UNCHANGED workVars
          \/ found # NoBinding
               /\ Goto(r, "owners", [rest EXCEPT !.owner = found.account])
               /\ UNCHANGED workVars
          \/ Finish(r)
    BY <2>0
  <2>2. found \in Binding \cup {NoBinding}
    BY StoreFacts DEF Local, Keys
  <2>3. [req[r] EXCEPT !.todo = @ \ {t}] \in Local
    BY DEF Local
  <2>4. ControlOK' /\ WorkOK'
    <3> DEFINE rest == [req[r] EXCEPT !.todo = @ \ {t}]
    <3>1. [rest EXCEPT !.missing = TRUE] \in Local
      BY <2>3 DEF Local
    <3>2. found # NoBinding => [rest EXCEPT !.owner = found.account] \in Local
      BY <2>2, <2>3 DEF Local, Binding, AccountOrNone
    <3>3. \A l \in Local : Shaped("owners", l)
      BY DEF Shaped, Holding, Validating, Recording
    <3>4. "owners" \in PC
      BY DEF PC
    <3>5. CASE Finish(r)
      BY <3>5, FinishKeeps DEF TypeInv
    <3>6. CASE ~Finish(r)
      BY <2>1, <3>1, <3>2, <3>3, <3>4, <3>6, GotoKeepsControl
         DEF TypeInv, WorkOK, workVars
    <3> QED
      BY <3>5, <3>6
  <2> QED
    BY <1>2, <2>4
       DEF FindOwner, TypeInv, RouterTypeOK, AffinityTypeOK, HistoryOK,
           routerVars, storeVars, historyVars
<1>3. CASE OwnersFound(r)
  <2>1. ControlOK' /\ WorkOK'
    <3>1. CASE Finish(r)
      BY <3>1, FinishKeeps DEF TypeInv
    <3>2. CASE ~Finish(r)
      <4> DEFINE owner == IF input[r].pin # NoAccount THEN input[r].pin
                          ELSE req[r].owner
                 fresh == [req[r] EXCEPT !.thread = input[r].key]
                 exact == [req[r] EXCEPT !.owner = owner]
                 place == IF input[r].key = NoKey THEN "pick" ELSE "lookup"
      <4>1. owner \in AccountOrNone
        BY DEF Local
      <4>2. exact \in Local /\ fresh \in Local
        BY <4>1 DEF Local
      <4>3. Shaped("exact", exact) /\ Shaped(place, fresh)
        BY DEF Shaped, Holding, Validating, Recording, Local
      <4>4. "exact" \in PC /\ place \in PC
        BY DEF PC, Selecting
      <4>5. Goto(r, "exact", exact) \/ Goto(r, place, fresh)
        BY <1>3, <3>2 DEF OwnersFound
      <4>6. UNCHANGED workVars
        BY <1>3, <3>2 DEF OwnersFound
      <4> HIDE DEF exact, fresh, place
      <4> QED
        BY <4>2, <4>3, <4>4, <4>5, <4>6, GotoKeepsControl
           DEF TypeInv, WorkOK, workVars
    <3> QED
      BY <3>1, <3>2
  <2> QED
    BY <1>3, <2>1
       DEF OwnersFound, TypeInv, RouterTypeOK, AffinityTypeOK, HistoryOK,
           routerVars, storeVars, historyVars
<1> QED
  BY <1>1, <1>2, <1>3

\* The three ways a step of a request ends keep the invariant's control and
\* work parts.
LEMMA MoveKeeps ==
  ASSUME TypeInv, NEW r \in Requests, NEW place \in PC, NEW local \in Local,
         Shaped(place, local), Goto(r, place, local), UNCHANGED workVars
  PROVE  ControlOK' /\ WorkOK'
BY GotoKeepsControl DEF TypeInv, WorkOK, workVars

\* Starting the dispatch loop over keeps them too.
LEMMA ContinueKeeps ==
  ASSUME TypeInv, NEW r \in Requests, NEW local \in Local,
         local.account \in Members, Continue(r, local)
  PROVE  ControlOK' /\ WorkOK'
<1>1. "resolve" \in PC /\ Shaped("resolve", local)
  BY DEF PC, Shaped
<1> QED
  BY <1>1, GotoKeepsControl, ReleaseKeepsWork DEF TypeInv, Continue

\* So does handing the answer's head to the client.
LEMMA ReturnKeeps ==
  ASSUME TypeInv, NEW r \in Requests, NEW place \in PC, NEW local \in Local,
         Shaped(place, local), Return(r, place, local)
  PROVE  ControlOK' /\ WorkOK'
<1>1. WorkOK'
  BY DEF TypeInv, WorkOK, Return
<1> QED
  BY <1>1, GotoKeepsControl DEF TypeInv, Return

\* What is left of a step that moves one request and keeps the parts it did
\* not mention.
LEMMA PartsMakeTypes ==
  ASSUME TypeInv, ControlOK', WorkOK', RouterTypeOK', AffinityTypeOK',
         HistoryOK', UNCHANGED <<input, invalidating>>
  PROVE  TypeInv'
BY DEF TypeInv

\* A fresh selection returns a member of the pool.
LEMMA ChoicesAreMembers ==
  ASSUME NEW excluded, NEW hint
  PROVE  FreshChoices(excluded, hint) \subseteq Members
BY ChoicesAreEligible DEF Eligible

\* Remembering a rejected bearer keeps the router's type.
LEMMA RejectBearerKeepsType ==
  ASSUME RouterTypeOK, NEW a, NEW states,
         states \subseteq [Accounts -> Runtime], RejectBearer(a, states)
  PROVE  RouterTypeOK'
<1>1. ASSUME NEW s \in states, a \in Managed
      PROVE  [s EXCEPT ![a].bearerUnusable = TRUE] \in [Accounts -> Runtime]
  <2>1. s[a] \in Runtime
    BY <1>1, RouterAssumption
  <2>2. [s[a] EXCEPT !.bearerUnusable = TRUE] \in Runtime
    BY <2>1 DEF Runtime
  <2> QED
    BY <2>2
<1> QED
  BY <1>1 DEF RejectBearer, BearerRecorded, RouterTypeOK

\* Every runtime that response headers may leave is one.
LEMMA HeadersKeepType ==
  ASSUME RouterTypeOK, NEW a \in Accounts
  PROVE  Headers(a) \subseteq [Accounts -> Runtime]
<1>1. \A u \in ReportedUsage : [runtime EXCEPT ![a].usage = u] \in [Accounts -> Runtime]
  BY DispatchAssumption DEF RouterTypeOK, Runtime
<1> QED
  BY <1>1 DEF Headers, RouterTypeOK

\* Selecting again keeps them: the account it excludes was selected.
LEMMA ReselectKeeps ==
  ASSUME TypeInv, NEW r \in Requests, pc[r] \in Holding,
         NEW why \in Retry, Reselect(r, why)
  PROVE  ControlOK' /\ WorkOK'
<1> DEFINE local == [req[r] EXCEPT !.thread = NoKey, !.found = NoBinding,
                        !.excluded = req[r].account, !.attempt = 1,
                        !.retry = why]
<1>0. req[r] \in Local /\ req[r].account \in AccountOrNone
  BY LocalFacts DEF Local
<1>1. local \in Local
  <2>1. /\ \A l \in Local : [l EXCEPT !.thread = NoKey, !.found = NoBinding] \in Local
        /\ \A l \in Local : \A a \in AccountOrNone : [l EXCEPT !.excluded = a] \in Local
        /\ \A l \in Local : [l EXCEPT !.attempt = 1] \in Local
        /\ \A l \in Local : [l EXCEPT !.retry = why] \in Local
    <3>1. \A l \in Local : [l EXCEPT !.thread = NoKey, !.found = NoBinding] \in Local
      BY DEF Local
    <3>2. \A l \in Local : \A a \in AccountOrNone : [l EXCEPT !.excluded = a] \in Local
      BY DEF Local
    <3>3. \A l \in Local : [l EXCEPT !.attempt = 1] \in Local
      BY DEF Local
    <3>4. \A l \in Local : [l EXCEPT !.retry = why] \in Local
      BY DEF Local
    <3> QED
      BY <3>1, <3>2, <3>3, <3>4
  <2>2. local = [[[[req[r] EXCEPT !.thread = NoKey, !.found = NoBinding]
                     EXCEPT !.excluded = req[r].account]
                       EXCEPT !.attempt = 1] EXCEPT !.retry = why]
    BY <1>0 DEF Local
  <2> HIDE DEF local
  <2> QED
    BY <1>0, <2>1, <2>2
<1>2. "pick" \in PC /\ Shaped("pick", local)
  BY DEF PC, Selecting, Shaped, Holding, Validating, Recording
<1>3. Goto(r, "pick", local) /\ UNCHANGED workVars
  BY DEF Reselect
<1> QED
  BY <1>1, <1>2, <1>3, MoveKeeps

\* A stale selection ends, is relayed, or is selected anew.
LEMMA StaleKeeps ==
  ASSUME TypeInv, NEW r \in Requests, pc[r] \in Validating, Stale(r)
  PROVE  ControlOK' /\ WorkOK' /\ RouterTypeOK'
<1>1. req[r].account \in Members /\ pc[r] \in Holding /\ req[r] \in Local
  BY LocalFacts DEF Shaped, Holding
<1>2. CASE Return(r, "relay", req[r]) /\ RejectBearer(req[r].account, {runtime})
  <2>1. "relay" \in PC /\ Shaped("relay", req[r])
    BY <1>1 DEF PC, Shaped, Holding
  <2>2. RouterTypeOK'
    BY <1>1, <1>2, AccountFacts, RejectBearerKeepsType DEF TypeInv, RouterTypeOK
  <2> QED
    BY <1>1, <1>2, <2>1, <2>2, ReturnKeeps
<1>3. CASE Finish(r) /\ UNCHANGED routerVars
  BY <1>3, FinishKeeps DEF TypeInv, RouterTypeOK, routerVars
<1>4. CASE \E why \in Retry : Reselect(r, why) /\ UNCHANGED routerVars
  BY <1>1, <1>4, ReselectKeeps DEF TypeInv, RouterTypeOK, routerVars
<1> QED
  BY <1>2, <1>3, <1>4 DEF Stale, Retry

\* A validated selection goes to the wire or starts over.
LEMMA ValidatedKeeps ==
  ASSUME TypeInv, NEW r \in Requests, pc[r] \in Validating, Validated(r)
  PROVE  ControlOK' /\ WorkOK'
<1>1. req[r].account \in Members /\ req[r] \in Local
  BY LocalFacts DEF Shaped, Holding
<1>2. [req[r] EXCEPT !.attempt = 1] \in Local
  BY <1>1 DEF Local
<1>3. CASE Continue(r, [req[r] EXCEPT !.attempt = 1])
  BY <1>1, <1>2, <1>3, ContinueKeeps DEF Local
<1>4. CASE Goto(r, "wire", req[r]) /\ UNCHANGED workVars
  BY <1>1, <1>4, MoveKeeps DEF PC, Shaped, Holding, Validating, Recording
<1> QED
  BY <1>3, <1>4 DEF Validated

\* A put that succeeds stores a binding.
LEMMA PutKeepsType ==
  ASSUME AffinityTypeOK, NEW k \in Keys, NEW a \in Accounts,
         NEW g \in Generation, NEW preserve \in BOOLEAN, PutCanSucceed(g),
         Put(k, a, g, preserve), UNCHANGED epochs
  PROVE  AffinityTypeOK'
<1>1. [account |-> a, generation |-> g] \in Binding
  BY DEF Binding, Generation, PutCanSucceed
<1> QED
  BY <1>1 DEF AffinityTypeOK, Put

-----------------------------------------------------------------------------
(* One lemma for each group of the handler's steps.                        *)

\* Selecting an account keeps the type invariant.
LEMMA SelectionKeepsTypes ==
  ASSUME TypeInv, NEW r \in Requests,
         \/ SelectExact(r) \/ LookupThread(r) \/ LookupEpoch(r) \/ Pick(r)
         \/ Stamp(r) \/ Prebind(r)
  PROVE  TypeInv'
<1>0. /\ req[r] \in Local
      /\ Shaped(pc[r], req[r])
      /\ req[r].found \in Binding \cup {NoBinding}
      /\ req[r].thread \in SoftKeys \cup {NoKey}
      /\ req[r].account \in AccountOrNone
      /\ req[r].generation \in Generation
  BY LocalFacts DEF Local
<1>1. CASE SelectExact(r)
  <2> DEFINE local == [req[r] EXCEPT !.account = req[r].owner, !.bound = TRUE]
  <2>1. CASE Finish(r)
    BY <1>1, <2>1, FinishKeeps
       DEF SelectExact, TypeInv, RouterTypeOK, AffinityTypeOK, HistoryOK,
           routerVars, storeVars, historyVars
  <2>2. CASE ~Finish(r)
    <3>1. ExactEligible(req[r].owner) /\ Goto(r, "stamp", local) /\ UNCHANGED workVars
      BY <1>1, <2>2 DEF SelectExact
    <3>2. local \in Local
      BY <1>0 DEF Local
    <3>3. "stamp" \in PC /\ Shaped("stamp", local)
      BY <1>0, <3>1 DEF PC, Selecting, Shaped, ExactEligible, Local
    <3>4. ControlOK' /\ WorkOK'
      BY <3>1, <3>2, <3>3, MoveKeeps
    <3> QED
      BY <1>1, <3>4
         DEF SelectExact, TypeInv, RouterTypeOK, AffinityTypeOK, HistoryOK,
             routerVars, storeVars, historyVars
  <2> QED
    BY <2>1, <2>2
<1>2. CASE LookupThread(r)
  <2>1. PICK found \in Lookup(req[r].thread) :
          Goto(r, IF found = NoBinding THEN "pick" ELSE "lookupEpoch",
               [req[r] EXCEPT !.found = found])
    BY <1>2 DEF LookupThread
  <2> DEFINE local == [req[r] EXCEPT !.found = found]
             place == IF found = NoBinding THEN "pick" ELSE "lookupEpoch"
  <2>2. req[r].thread \in SoftKeys
    BY <1>0, <1>2 DEF LookupThread, Shaped
  <2>3. found \in Binding \cup {NoBinding}
    BY <2>2, StoreFacts DEF Keys
  <2>4. local \in Local /\ local.found = found
    BY <1>0, <2>3 DEF Local
  <2>5. place \in PC /\ Shaped(place, local)
    BY <2>4 DEF PC, Selecting, Shaped, Holding, Validating, Recording
  <2>6. Goto(r, place, local) /\ UNCHANGED workVars
    BY <1>2, <2>1 DEF LookupThread
  <2> HIDE DEF local, place
  <2>7. ControlOK' /\ WorkOK'
    BY <2>4, <2>5, <2>6, MoveKeeps
  <2> QED
    BY <1>2, <2>7
       DEF LookupThread, TypeInv, RouterTypeOK, AffinityTypeOK, HistoryOK,
           routerVars, storeVars, historyVars
<1>3. CASE LookupEpoch(r)
  <2>1. PICK e \in Epoch(req[r].found.account) :
          Goto(r, "pick", [req[r] EXCEPT !.generation = e])
    BY <1>3 DEF LookupEpoch
  <2> DEFINE local == [req[r] EXCEPT !.generation = e]
  <2>2. req[r].found.account \in Accounts
    BY <1>0, <1>3 DEF LookupEpoch, Shaped, Binding
  <2>3. e \in Generation /\ epochs[req[r].found.account] \in Nat
    BY <2>2, StoreFacts
  <2>4. local \in Local
    BY <1>0, <2>3 DEF Local
  <2>5. "pick" \in PC /\ Shaped("pick", local)
    BY DEF PC, Selecting, Shaped, Holding, Validating, Recording
  <2>6. Goto(r, "pick", local) /\ UNCHANGED workVars
    BY <1>3, <2>1 DEF LookupEpoch
  <2>7. ControlOK' /\ WorkOK'
    BY <2>4, <2>5, <2>6, MoveKeeps
  <2>8. HistoryOK'
    BY <1>3, <2>3 DEF LookupEpoch, TypeInv, HistoryOK
  <2> QED
    BY <1>3, <2>7, <2>8
       DEF LookupEpoch, TypeInv, RouterTypeOK, AffinityTypeOK, routerVars,
           storeVars
<1>4. CASE Pick(r)
  <2>1. CASE /\ KeepsBinding(r)
             /\ Goto(r, "resolve", [req[r] EXCEPT !.account = req[r].found.account,
                                                  !.bound = TRUE])
             /\ UNCHANGED <<routerVars, workVars>>
    <3> DEFINE local == [req[r] EXCEPT !.account = req[r].found.account,
                                       !.bound = TRUE]
    <3>1. req[r].found.account \in Members
      BY <2>1 DEF KeepsBinding, BoundEligible
    <3>2. local \in Local /\ local.account \in Members
      BY <1>0, <3>1, AccountFacts DEF Local
    <3>3. "resolve" \in PC /\ Shaped("resolve", local)
      BY <3>2 DEF PC, Shaped
    <3>4. ControlOK' /\ WorkOK'
      BY <2>1, <3>2, <3>3, MoveKeeps
    <3> QED
      BY <1>4, <2>1, <3>4
         DEF Pick, TypeInv, RouterTypeOK, AffinityTypeOK, HistoryOK,
             routerVars, storeVars, historyVars
  <2>2. CASE /\ \E a \in FreshChoices(req[r].excluded, NoAccount) :
                  Goto(r, "stamp", [req[r] EXCEPT !.account = a, !.bound = FALSE])
             /\ UNCHANGED <<routerVars, workVars>>
    <3>1. PICK a \in FreshChoices(req[r].excluded, NoAccount) :
            Goto(r, "stamp", [req[r] EXCEPT !.account = a, !.bound = FALSE])
      BY <2>2
    <3> DEFINE local == [req[r] EXCEPT !.account = a, !.bound = FALSE]
    <3>2. a \in Members
      BY ChoicesAreMembers
    <3>3. local \in Local /\ local.account \in Members
      BY <1>0, <3>2, AccountFacts DEF Local
    <3>4. "stamp" \in PC /\ Shaped("stamp", local)
      BY <3>3 DEF PC, Selecting, Shaped
    <3>5. ControlOK' /\ WorkOK'
      BY <2>2, <3>1, <3>3, <3>4, MoveKeeps
    <3> QED
      BY <1>4, <2>2, <3>5
         DEF Pick, TypeInv, RouterTypeOK, AffinityTypeOK, HistoryOK,
             routerVars, storeVars, historyVars
  <2>3. CASE NoAlternate(r)
    <3>1. CASE Finish(r) /\ UNCHANGED routerVars
      BY <1>4, <3>1, FinishKeeps
         DEF Pick, TypeInv, RouterTypeOK, AffinityTypeOK, HistoryOK,
             routerVars, storeVars, historyVars
    <3>2. CASE /\ req[r].retry \in {"unauthorized", "rejected"}
               /\ Return(r, "relay", req[r])
      <4>1. RouterTypeOK'
        <5>1. CASE UNCHANGED routerVars
          BY <5>1 DEF TypeInv, RouterTypeOK, routerVars
        <5>2. CASE RejectBearer(req[r].excluded, {runtime})
          BY <5>2, RejectBearerKeepsType DEF TypeInv, RouterTypeOK
        <5> QED
          BY <2>3, <3>2, <5>1, <5>2 DEF NoAlternate
      <4>2. ControlOK' /\ WorkOK'
        BY <3>2, <1>0, ReturnKeeps
           DEF PC, Shaped, Holding, Validating, Recording
      <4> QED
        BY <1>4, <4>1, <4>2
           DEF Pick, TypeInv, AffinityTypeOK, HistoryOK, storeVars, historyVars
    <3> QED
      BY <2>3, <3>1, <3>2 DEF NoAlternate
  <2> QED
    BY <1>4, <2>1, <2>2, <2>3 DEF Pick
<1>5. CASE Stamp(r)
  <2>1. PICK e \in Epoch(req[r].account) :
          LET stamped == [req[r] EXCEPT !.generation = e] IN
          \/ /\ req[r].thread # NoKey
             /\ Goto(r, "prebind", stamped) /\ UNCHANGED workVars
          \/ Continue(r, stamped)
    BY <1>5 DEF Stamp
  <2> DEFINE stamped == [req[r] EXCEPT !.generation = e]
  <2>2. req[r].account \in Members
    BY <1>0, <1>5 DEF Stamp, Shaped, Holding
  <2>3. e \in Generation /\ epochs[req[r].account] \in Nat
    BY <2>2, AccountFacts, StoreFacts
  <2>4. /\ stamped \in Local
        /\ stamped.account = req[r].account
        /\ stamped.thread = req[r].thread
    BY <1>0, <2>3 DEF Local
  <2>5. "prebind" \in PC /\ (req[r].thread # NoKey => Shaped("prebind", stamped))
    BY <2>2, <2>4 DEF PC, Selecting, Shaped
  <2> HIDE DEF stamped
  <2>6. ControlOK' /\ WorkOK'
    <3>1. CASE Continue(r, stamped)
      BY <2>2, <2>4, <3>1, ContinueKeeps
    <3>2. CASE /\ req[r].thread # NoKey
               /\ Goto(r, "prebind", stamped) /\ UNCHANGED workVars
      BY <2>4, <2>5, <3>2, MoveKeeps
    <3> QED
      BY <2>1, <3>1, <3>2 DEF stamped
  <2>7. HistoryOK'
    BY <1>5, <2>3 DEF Stamp, TypeInv, HistoryOK
  <2> QED
    BY <1>5, <2>6, <2>7
       DEF Stamp, TypeInv, RouterTypeOK, AffinityTypeOK, routerVars, storeVars
<1>6. CASE Prebind(r)
  <2>1. /\ req[r].account \in Accounts
        /\ req[r].account \in Members
        /\ req[r].thread \in Keys
    BY <1>0, <1>6, AccountFacts DEF Prebind, Shaped, Holding, Keys
  <2>2. ControlOK' /\ WorkOK'
    <3>1. CASE Finish(r)
      BY <3>1, FinishKeeps DEF TypeInv
    <3>2. CASE Goto(r, "resolve", req[r]) /\ UNCHANGED workVars
      BY <1>0, <2>1, <3>2, MoveKeeps DEF PC, Shaped
    <3> QED
      BY <1>6, <3>1, <3>2 DEF Prebind
  <2>3. AffinityTypeOK'
    <3>1. CASE Put(req[r].thread, req[r].account, req[r].generation, FALSE)
               /\ PutCanSucceed(req[r].generation)
      BY <1>0, <1>6, <2>1, <3>1, PutKeepsType DEF Prebind, TypeInv
    <3>2. CASE UNCHANGED bindings
      BY <1>6, <3>2 DEF Prebind, TypeInv, AffinityTypeOK
    <3> QED
      BY <1>6, <3>1, <3>2 DEF Prebind
  <2> QED
    BY <1>6, <2>2, <2>3
       DEF Prebind, TypeInv, RouterTypeOK, HistoryOK, routerVars, historyVars
<1> QED
  BY <1>1, <1>2, <1>3, <1>4, <1>5, <1>6

\* Resolving the credentials and checking the selection again keep the type
\* invariant.
LEMMA FenceKeepsTypes ==
  ASSUME TypeInv, NEW r \in Requests,
         \/ Resolve(r) \/ Probe(r) \/ CheckEpoch(r) \/ CheckBinding(r)
         \/ CheckOrder(r) \/ Send(r)
  PROVE  TypeInv'
<1>0. /\ req[r] \in Local
      /\ Shaped(pc[r], req[r])
      /\ pc[r] \in Holding => req[r].account \in Members
  BY LocalFacts DEF Shaped
<1>a. ASSUME NEW place \in {"epoch", "order", "binding"},
             pc[r] \in Validating,
             Goto(r, place, req[r]), UNCHANGED workVars
      PROVE  ControlOK' /\ WorkOK'
  <2>1. place \in PC /\ Shaped(place, req[r])
    BY <1>0, <1>a DEF PC, Validating, Shaped, Holding
  <2> QED
    BY <1>0, <1>a, <2>1, MoveKeeps
<1>1. CASE Resolve(r)
  <2> DEFINE local == [req[r] EXCEPT !.refreshed = FALSE]
  <2>1. local \in Local /\ local.account = req[r].account
    BY <1>0 DEF Local
  <2>2. req[r].account \in Members /\ epochs[req[r].account] \in Nat
    BY <1>0, <1>1, AccountFacts, StoreFacts DEF Resolve, Holding
  <2>3. "probe" \in PC /\ Shaped("probe", local)
    BY <2>1, <2>2 DEF PC, Validating, Shaped
  <2>4. ControlOK' /\ WorkOK'
    <3>1. CASE Finish(r)
      BY <3>1, FinishKeeps DEF TypeInv
    <3>2. CASE Goto(r, "probe", local) /\ UNCHANGED workVars
      BY <2>1, <2>3, <3>2, MoveKeeps
    <3> QED
      BY <1>1, <3>1, <3>2 DEF Resolve
  <2>5. HistoryOK'
    BY <1>1, <2>2 DEF Resolve, TypeInv, HistoryOK
  <2> QED
    BY <1>1, <2>4, <2>5
       DEF Resolve, TypeInv, RouterTypeOK, AffinityTypeOK, routerVars, storeVars
<1>2. CASE Probe(r)
  <2>1. pc[r] \in Validating
    BY <1>2 DEF Probe, Validating
  <2>2. ControlOK' /\ WorkOK' /\ RouterTypeOK'
    BY <1>2, <1>a, <2>1, StaleKeeps DEF Probe, TypeInv, RouterTypeOK, routerVars
  <2> QED
    BY <1>2, <2>2
       DEF Probe, TypeInv, AffinityTypeOK, HistoryOK, storeVars, historyVars
<1>3. CASE CheckEpoch(r)
  <2>1. pc[r] \in Validating
    BY <1>3 DEF CheckEpoch, Validating
  <2>2. \/ Stale(r)
        \/ /\ \E place \in {"order", "binding"} : Goto(r, place, req[r])
           /\ UNCHANGED <<routerVars, workVars>>
        \/ Validated(r) /\ UNCHANGED routerVars
    BY <1>3 DEF CheckEpoch
  <2>3. ControlOK' /\ WorkOK' /\ RouterTypeOK'
    BY <1>a, <2>1, <2>2, StaleKeeps, ValidatedKeeps
       DEF TypeInv, RouterTypeOK, routerVars
  <2>4. epochs[req[r].account] \in Nat
    BY <1>0, <2>1, AccountFacts, StoreFacts DEF Holding
  <2>5. HistoryOK'
    BY <1>3, <2>4 DEF CheckEpoch, TypeInv, HistoryOK
  <2> QED
    BY <1>3, <2>3, <2>5 DEF CheckEpoch, TypeInv, AffinityTypeOK, storeVars
<1>4. CASE CheckBinding(r)
  <2>1. pc[r] \in Validating
    BY <1>4 DEF CheckBinding, Validating
  <2>2. Stale(r) \/ (Validated(r) /\ UNCHANGED routerVars)
    BY <1>4 DEF CheckBinding
  <2>3. ControlOK' /\ WorkOK' /\ RouterTypeOK'
    BY <2>1, <2>2, StaleKeeps, ValidatedKeeps DEF TypeInv, RouterTypeOK, routerVars
  <2> QED
    BY <1>4, <2>3
       DEF CheckBinding, TypeInv, AffinityTypeOK, HistoryOK, storeVars, historyVars
<1>5. CASE CheckOrder(r)
  <2>1. pc[r] \in Validating
    BY <1>5 DEF CheckOrder, Validating
  <2>2. Stale(r) \/ (Validated(r) /\ UNCHANGED routerVars)
    BY <1>5 DEF CheckOrder
  <2>3. ControlOK' /\ WorkOK' /\ RouterTypeOK'
    BY <2>1, <2>2, StaleKeeps, ValidatedKeeps DEF TypeInv, RouterTypeOK, routerVars
  <2> QED
    BY <1>5, <2>3
       DEF CheckOrder, TypeInv, AffinityTypeOK, HistoryOK, storeVars, historyVars
<1>6. CASE Send(r)
  <2>1. req[r].account \in Members
    BY <1>0, <1>6 DEF Send, Holding
  <2>2. CASE Finish(r) /\ UNCHANGED sends
    BY <1>6, <2>2, FinishKeeps
       DEF Send, TypeInv, RouterTypeOK, AffinityTypeOK, HistoryOK, routerVars,
           storeVars
  <2>3. CASE /\ Goto(r, "sent", req[r])
             /\ permits' = permits \cup {r}
             /\ lease' = [lease EXCEPT ![r] = req[r].account]
             /\ inflight' = [inflight EXCEPT ![req[r].account] = @ + 1]
             /\ sends' = [sends EXCEPT ![r] = Append(@, req[r].account)]
             /\ UNCHANGED ends
    <3>1. "sent" \in PC /\ Shaped("sent", req[r])
      BY <2>1 DEF PC, Shaped
    <3>2. ControlOK'
      BY <1>0, <2>3, <3>1, GotoKeepsControl DEF TypeInv
    <3>3. WorkOK'
      BY <2>1, <2>3, AccountFacts DEF TypeInv, WorkOK
    <3>4. Append(sends[r], req[r].account) \in Seq(Members)
      BY <2>1 DEF TypeInv, HistoryOK
    <3>5. HistoryOK'
      BY <1>6, <2>3, <3>4 DEF Send, TypeInv, HistoryOK
    <3> QED
      BY <1>6, <3>2, <3>3, <3>5
         DEF Send, TypeInv, RouterTypeOK, AffinityTypeOK, routerVars, storeVars
  <2> QED
    BY <1>6, <2>2, <2>3 DEF Send
<1> QED
  BY <1>1, <1>2, <1>3, <1>4, <1>5, <1>6

\* Recording an answer's verdict keeps the history part.
LEMMA HearsKeepsHistory ==
  ASSUME HistoryOK, NEW r \in Requests, req[r].account \in Accounts,
         NEW verdict \in Verdict, Hears(r, verdict),
         served' \in [Requests -> AccountOrNone],
         UNCHANGED <<sends, exposed, forgotten, fence>>
  PROVE  HistoryOK'
<1>1. answered[r] \cup {<<req[r].account, verdict>>} \in SUBSET (Accounts \X Verdict)
  BY DEF HistoryOK
<1> QED
  BY <1>1 DEF Hears, HistoryOK

\* Every runtime that a rejection for quota may leave is one.
LEMMA QuotaKeepsType ==
  ASSUME NEW a \in Accounts, NEW states, states \subseteq [Accounts -> Runtime]
  PROVE  QuotaRecorded(a, states) \subseteq [Accounts -> Runtime]
<1>1. ASSUME NEW s \in states
      PROVE  [s EXCEPT ![a].quotaUntil = TRUE] \in [Accounts -> Runtime]
  <2>1. s[a] \in Runtime
    BY <1>1
  <2>2. [s[a] EXCEPT !.quotaUntil = TRUE] \in Runtime
    BY <2>1 DEF Runtime
  <2> QED
    BY <1>1, <2>2
<1> QED
  BY <1>1 DEF QuotaRecorded

\* Handling upstream's answer keeps the type invariant.
LEMMA AnswersKeepTypes ==
  ASSUME TypeInv, NEW r \in Requests,
         \/ Succeed(r) \/ Unauthorized(r) \/ Refreshed(r) \/ RefreshFailed(r)
         \/ Reject(r) \/ PassThrough(r) \/ Unreachable(r) \/ Fail(r)
  PROVE  TypeInv'
<1>. pc[r] \in Holding
  BY DEF Holding, Succeed, Unauthorized, Refreshed, RefreshFailed, Reject,
         PassThrough, Unreachable, Fail
<1>0. /\ req[r] \in Local
      /\ req[r].account \in Members
      /\ req[r].account \in Accounts
      /\ pc[r] \in Holding
      /\ epochs[req[r].account] \in Nat
      /\ runtime \in [Accounts -> Runtime]
  BY LocalFacts, StoreFacts, AccountFacts
     DEF Shaped, TypeInv, RouterTypeOK
<1>a. Headers(req[r].account) \subseteq [Accounts -> Runtime]
  BY <1>0, HeadersKeepType DEF TypeInv
<1>b. ASSUME NEW place \in {"relay", "streaming"}, Return(r, place, req[r])
      PROVE  ControlOK' /\ WorkOK'
  <2>1. place \in PC /\ Shaped(place, req[r])
    BY <1>0, <1>b DEF PC, Recording, Shaped
  <2> QED
    BY <1>0, <1>b, <2>1, ReturnKeeps
<1>c. ASSUME NEW place \in {"turnEpoch", "refresh"}, Goto(r, place, req[r]),
             UNCHANGED workVars
      PROVE  ControlOK' /\ WorkOK'
  <2>1. place \in PC /\ Shaped(place, req[r])
    BY <1>0, <1>c DEF PC, Recording, Shaped
  <2> QED
    BY <1>0, <1>c, <2>1, MoveKeeps
<1>d. ASSUME runtime' \in [Accounts -> Runtime], UNCHANGED <<preferred, preserved>>
      PROVE  RouterTypeOK'
  BY <1>d DEF TypeInv, RouterTypeOK
<1>1. CASE Succeed(r)
  <2>1. ControlOK' /\ WorkOK'
    BY <1>1, <1>b, <1>c DEF Succeed
  <2>2. RouterTypeOK'
    BY <1>1, <1>a, <1>d DEF Succeed
  <2>3. served' \in [Requests -> AccountOrNone]
    BY <1>0, <1>1, AccountFacts DEF Succeed, TypeInv, HistoryOK, AccountOrNone
  <2>4. HistoryOK'
    BY <1>0, <1>1, <2>3, HearsKeepsHistory DEF Succeed, TypeInv, Verdict
  <2> QED
    BY <1>1, <2>1, <2>2, <2>4 DEF Succeed, TypeInv, AffinityTypeOK, storeVars
<1>2. CASE Unauthorized(r)
  <2>1. ControlOK' /\ WorkOK'
    BY <1>2, <1>b, <1>c DEF Unauthorized
  <2>2. RouterTypeOK'
    BY <1>2, <1>a, RejectBearerKeepsType DEF Unauthorized, TypeInv
  <2>3. HistoryOK'
    BY <1>0, <1>2, HearsKeepsHistory
       DEF Unauthorized, TypeInv, HistoryOK, Verdict
  <2> QED
    BY <1>2, <2>1, <2>2, <2>3
       DEF Unauthorized, TypeInv, AffinityTypeOK, storeVars
<1>3. CASE Refreshed(r)
  <2> DEFINE local == [req[r] EXCEPT !.refreshed = TRUE]
  <2>1. local \in Local /\ local.account = req[r].account
    BY <1>0 DEF Local
  <2>2. "probe" \in PC /\ Shaped("probe", local)
    BY <1>0, <2>1 DEF PC, Validating, Shaped
  <2>3. ControlOK' /\ WorkOK'
    BY <1>3, <2>1, <2>2, MoveKeeps DEF Refreshed
  <2>4. "bearerUnusable" \in (DOMAIN FreshRuntime) \ {"usage"}
    BY DEF FreshRuntime
  <2>5. RouterTypeOK'
    BY <1>0, <1>3, <2>4, SetKeepsType DEF Refreshed, TypeInv
  <2>6. HistoryOK'
    BY <1>0, <1>3 DEF Refreshed, TypeInv, HistoryOK
  <2> QED
    BY <1>3, <2>3, <2>5, <2>6 DEF Refreshed, TypeInv, AffinityTypeOK, storeVars
<1>4. CASE RefreshFailed(r)
  <2>1. RouterTypeOK'
    BY <1>0, <1>4, RejectBearerKeepsType DEF RefreshFailed, TypeInv
  <2> QED
    BY <1>4, <1>b, <2>1
       DEF RefreshFailed, TypeInv, AffinityTypeOK, HistoryOK, storeVars, historyVars
<1>5. CASE Reject(r)
  <2>1. ControlOK' /\ WorkOK'
    <3>1. CASE Reselect(r, "rejected")
      BY <1>0, <3>1, ReselectKeeps DEF Retry
    <3>2. CASE Return(r, "relay", req[r])
      BY <1>b, <3>2
    <3> QED
      BY <1>5, <3>1, <3>2 DEF Reject
  <2>2. RouterTypeOK'
    <3>1. \A s \in Headers(req[r].account) :
            /\ [s EXCEPT ![req[r].account].avoided = TRUE] \in [Accounts -> Runtime]
            /\ [s EXCEPT ![req[r].account].capacity = TRUE] \in [Accounts -> Runtime]
      <4>1. SUFFICES ASSUME NEW s \in [Accounts -> Runtime]
                     PROVE  /\ [s EXCEPT ![req[r].account].avoided = TRUE]
                                 \in [Accounts -> Runtime]
                            /\ [s EXCEPT ![req[r].account].capacity = TRUE]
                                 \in [Accounts -> Runtime]
        BY <1>a
      <4> QED
        BY <1>0 DEF Runtime
    <3>2. QuotaRecorded(req[r].account, Headers(req[r].account))
            \subseteq [Accounts -> Runtime]
      BY <1>0, <1>a, QuotaKeepsType
    <3> QED
      BY <1>5, <1>a, <1>d, <3>1, <3>2 DEF Reject
  <2>3. HistoryOK'
    BY <1>0, <1>5, HearsKeepsHistory DEF Reject, TypeInv, HistoryOK, Verdict
  <2> QED
    BY <1>5, <2>1, <2>2, <2>3 DEF Reject, TypeInv, AffinityTypeOK, storeVars
<1>6. CASE PassThrough(r)
  <2>1. RouterTypeOK'
    BY <1>6, <1>a, <1>d DEF PassThrough
  <2>2. HistoryOK'
    BY <1>0, <1>6, HearsKeepsHistory DEF PassThrough, TypeInv, HistoryOK, Verdict
  <2> QED
    BY <1>6, <1>b, <2>1, <2>2 DEF PassThrough, TypeInv, AffinityTypeOK, storeVars
<1>7. CASE Unreachable(r)
  <2>1. CASE SoftFailure(req[r].account) /\ Reselect(r, "unreachable")
    <3>1. ControlOK' /\ WorkOK'
      BY <1>0, <2>1, ReselectKeeps DEF Retry
    <3>2. "avoided" \in (DOMAIN FreshRuntime) \ {"usage"}
      BY DEF FreshRuntime
    <3>3. RouterTypeOK'
      BY <1>0, <2>1, <3>2, SetKeepsType DEF SoftFailure, TypeInv
    <3> QED
      BY <1>7, <3>1, <3>3
         DEF Unreachable, TypeInv, AffinityTypeOK, HistoryOK, storeVars, historyVars
  <2>2. CASE Finish(r) /\ UNCHANGED routerVars
    BY <1>7, <2>2, FinishKeeps
       DEF Unreachable, TypeInv, RouterTypeOK, AffinityTypeOK, HistoryOK,
           routerVars, storeVars, historyVars
  <2> QED
    BY <1>7, <2>1, <2>2 DEF Unreachable
<1>8. CASE Fail(r)
  BY <1>8, FinishKeeps
     DEF Fail, TypeInv, RouterTypeOK, AffinityTypeOK, HistoryOK, routerVars,
         storeVars, historyVars
<1> QED
  BY <1>1, <1>2, <1>3, <1>4, <1>5, <1>6, <1>7, <1>8

\* Binding what an answer established keeps the type invariant.
LEMMA BindingKeepsTypes ==
  ASSUME TypeInv, NEW r \in Requests,
         \/ TurnEpoch(r) \/ TurnPut(r) \/ Completed(r) \/ Uncompleted(r)
         \/ BindEpoch(r) \/ BindPut(r) \/ Relayed(r)
  PROVE  TypeInv'
<1>0. /\ req[r] \in Local
      /\ Shaped(pc[r], req[r])
      /\ req[r].stamp \in Generation
      /\ req[r].queue \in Seq(Keys)
      /\ pc[r] \in Recording => /\ req[r].account \in Members
                                /\ req[r].account \in Accounts
      /\ input[r].key \in SoftKeys \cup {NoKey}
      /\ runtime \in [Accounts -> Runtime]
  BY LocalFacts, AccountFacts DEF Local, Shaped, Holding, TypeInv, RouterTypeOK
<1>a. ASSUME NEW from \in Recording, pc[r] = from, NEW place \in Recording,
             NEW local \in Local, local.account = req[r].account,
             place \in {"bindEpoch", "bindPut"} => local.queue # <<>>,
             Goto(r, place, local), UNCHANGED workVars
      PROVE  ControlOK' /\ WorkOK'
  <2>1. place \in PC /\ Shaped(place, local)
    BY <1>0, <1>a DEF PC, Recording, Shaped
  <2> QED
    BY <1>a, <2>1, MoveKeeps
<1>b. ASSUME pc[r] \in {"turnEpoch", "bindEpoch"}, NEW place \in {"turnPut", "bindPut"},
             pc[r] = "turnEpoch" => place = "turnPut",
             NEW e \in Epoch(req[r].account),
             Goto(r, place, [req[r] EXCEPT !.stamp = e]), UNCHANGED workVars
      PROVE  ControlOK' /\ WorkOK'
  <2> DEFINE local == [req[r] EXCEPT !.stamp = e]
  <2>1. pc[r] \in Recording /\ place \in Recording
    BY <1>b DEF Recording
  <2>2. e \in Generation
    BY <1>0, <2>1, StoreFacts
  <2>3. /\ local \in Local
        /\ local.account = req[r].account
        /\ local.queue = req[r].queue
    BY <1>0, <2>2 DEF Local
  <2>4. place \in {"bindEpoch", "bindPut"} => req[r].queue # <<>>
    BY <1>0, <1>b DEF Shaped
  <2> QED
    BY <1>a, <1>b, <2>1, <2>3, <2>4
<1>1. CASE TurnEpoch(r)
  <2>1. ControlOK' /\ WorkOK'
    BY <1>1, <1>b DEF TurnEpoch
  <2> QED
    BY <1>1, <2>1
       DEF TurnEpoch, TypeInv, RouterTypeOK, AffinityTypeOK, HistoryOK,
           routerVars, storeVars, historyVars
<1>2. CASE TurnPut(r)
  <2>0. pc[r] \in Recording /\ <<"turn", r>> \in Tokens /\ <<"turn", r>> \in Keys
    BY <1>2 DEF TurnPut, Recording, Tokens, Keys
  <2>1. CASE /\ PutCanSucceed(req[r].stamp)
             /\ Put(<<"turn", r>>, req[r].account, req[r].stamp, FALSE)
             /\ Return(r, "streaming", req[r])
             /\ exposed' = exposed \cup {<<"turn", r>>}
    <3>1. AffinityTypeOK'
      BY <1>0, <1>2, <2>0, <2>1, PutKeepsType DEF TurnPut, TypeInv
    <3>2. ControlOK' /\ WorkOK'
      BY <1>0, <2>0, <2>1, ReturnKeeps DEF PC, Shaped, Recording
    <3>3. HistoryOK'
      BY <1>2, <2>0, <2>1 DEF TurnPut, TypeInv, HistoryOK
    <3> QED
      BY <1>2, <3>1, <3>2, <3>3 DEF TurnPut, TypeInv, RouterTypeOK, routerVars
  <2>2. CASE Finish(r) /\ UNCHANGED <<bindings, exposed>>
    BY <1>2, <2>2, FinishKeeps
       DEF TurnPut, TypeInv, RouterTypeOK, AffinityTypeOK, HistoryOK, routerVars
  <2> QED
    BY <1>2, <2>1, <2>2 DEF TurnPut
<1>3. CASE Completed(r)
  <2> DEFINE soft == IF input[r].key = NoKey \/ input[r].hint THEN <<>>
                     ELSE <<input[r].key>>
             queue == <<<<"response", r>>>> \o soft
             local == [req[r] EXCEPT !.queue = queue]
  <2>1. soft \in Seq(Keys) /\ <<<<"response", r>>>> \in Seq(Keys)
    <3>1. <<"response", r>> \in Keys
      BY DEF Tokens, Keys
    <3>2. input[r].key # NoKey => input[r].key \in Keys
      BY <1>0 DEF Keys
    <3> QED
      BY <3>1, <3>2
  <2> HIDE DEF soft
  <2>2. queue \in Seq(Keys) /\ queue # <<>>
    BY <2>1
  <2> HIDE DEF queue
  <2>3. /\ local \in Local
        /\ local.account = req[r].account
        /\ local.queue = queue
    BY <1>0, <2>2 DEF Local
  <2>4. Goto(r, "bindEpoch", local) /\ UNCHANGED workVars
    BY <1>3 DEF Completed, queue, soft
  <2> HIDE DEF local
  <2>5. ControlOK' /\ WorkOK'
    BY <1>3, <1>a, <2>2, <2>3, <2>4 DEF Completed, Recording
  <2> QED
    BY <1>3, <2>5
       DEF Completed, TypeInv, RouterTypeOK, AffinityTypeOK, HistoryOK,
           routerVars, storeVars, historyVars
<1>4. CASE Uncompleted(r)
  <2>1. req[r].account \in Accounts
    BY <1>0, <1>4 DEF Uncompleted, Recording
  <2>2. QuotaRecorded(req[r].account, {runtime}) \subseteq [Accounts -> Runtime]
    BY <1>0, <2>1, QuotaKeepsType
  <2>3. [runtime EXCEPT ![req[r].account].capacity = TRUE] \in [Accounts -> Runtime]
    BY <1>0, <2>1 DEF Runtime
  <2>4. RouterTypeOK'
    BY <1>4, <2>2, <2>3 DEF Uncompleted, TypeInv, RouterTypeOK
  <2> QED
    BY <1>4, <2>4, FinishKeeps
       DEF Uncompleted, TypeInv, AffinityTypeOK, HistoryOK, storeVars, historyVars
<1>5. CASE BindEpoch(r)
  <2>1. ControlOK' /\ WorkOK'
    BY <1>5, <1>b DEF BindEpoch
  <2> QED
    BY <1>5, <2>1
       DEF BindEpoch, TypeInv, RouterTypeOK, AffinityTypeOK, HistoryOK,
           routerVars, storeVars, historyVars
<1>6. CASE BindPut(r)
  <2> DEFINE next == Tail(req[r].queue)
             local == [req[r] EXCEPT !.queue = next]
  <2>1. req[r].queue # <<>> /\ pc[r] \in Recording
    BY <1>0, <1>6 DEF BindPut, Shaped, Recording
  <2>2. Head(req[r].queue) \in Keys /\ next \in Seq(Keys)
    BY <1>0, <2>1
  <2>3. local \in Local /\ local.account = req[r].account /\ local.queue = next
    BY <1>0, <2>2 DEF Local
  <2>4. ControlOK' /\ WorkOK'
    <3>1. CASE Finish(r)
      BY <3>1, FinishKeeps DEF TypeInv
    <3>2. CASE ~Finish(r)
      <4>1. next # <<>> /\ Goto(r, "bindEpoch", local) /\ UNCHANGED workVars
        BY <1>6, <3>2 DEF BindPut
      <4> HIDE DEF local, next
      <4> QED
        BY <1>a, <2>1, <2>3, <4>1 DEF Recording
    <3> QED
      BY <3>1, <3>2
  <2>5. AffinityTypeOK'
    <3>1. CASE UNCHANGED bindings
      BY <1>6, <3>1 DEF BindPut, TypeInv, AffinityTypeOK
    <3>2. CASE /\ PutCanSucceed(req[r].stamp)
               /\ Put(Head(req[r].queue), req[r].account, req[r].stamp, Hard(r))
      <4>1. Hard(r) \in BOOLEAN
        BY DEF Hard
      <4> QED
        BY <1>0, <1>6, <2>1, <2>2, <3>2, <4>1, PutKeepsType DEF BindPut, TypeInv
    <3> QED
      BY <1>6, <3>1, <3>2 DEF BindPut
  <2> QED
    BY <1>6, <2>4, <2>5
       DEF BindPut, TypeInv, RouterTypeOK, HistoryOK, routerVars, historyVars
<1>7. CASE Relayed(r)
  BY <1>7, FinishKeeps
     DEF Relayed, TypeInv, RouterTypeOK, AffinityTypeOK, HistoryOK, routerVars,
         storeVars, historyVars
<1> QED
  BY <1>1, <1>2, <1>3, <1>4, <1>5, <1>6, <1>7

\* A finished end, an invalidation, an expiry, a change of the router, a
\* client that leaves and a restart keep the type invariant.
LEMMA EnvironmentKeepsTypes ==
  ASSUME TypeInv,
         \/ \E r \in Requests : ClientGone(r)
         \/ \E a \in Accounts : End(a) \/ AuthFailure(a) \/ Invalidate(a)
         \/ \E k \in Keys : ExpireBinding(k)
         \/ RouterChange
         \/ Restart
  PROVE  TypeInv'
<1>1. ASSUME NEW r \in Requests, ClientGone(r)
      PROVE  TypeInv'
  BY <1>1, FinishKeeps
     DEF ClientGone, TypeInv, RouterTypeOK, AffinityTypeOK, HistoryOK,
         routerVars, storeVars, historyVars
<1>2. ASSUME NEW a \in Accounts, End(a)
      PROVE  TypeInv'
  <2>1. WorkOK'
    BY <1>2 DEF End, TypeInv, WorkOK
  <2> QED
    BY <1>2, <2>1
       DEF End, TypeInv, RouterTypeOK, AffinityTypeOK, ControlOK, HistoryOK,
           routerVars, storeVars, historyVars
<1>3. ASSUME NEW a \in Accounts, AuthFailure(a)
      PROVE  TypeInv'
  <2>1. RouterTypeOK'
    BY <1>3, RouterStepKeepsType DEF AuthFailure, TypeInv, RouterNext
  <2>2. invalidating' \in [Accounts -> Nat]
    BY <1>3 DEF AuthFailure, TypeInv
  <2> QED
    BY <1>3, <2>1, <2>2
       DEF AuthFailure, TypeInv, AffinityTypeOK, ControlOK, WorkOK, HistoryOK,
           storeVars, workVars, historyVars
<1>4. ASSUME NEW a \in Accounts, Invalidate(a)
      PROVE  TypeInv'
  <2>1. invalidating' \in [Accounts -> Nat]
    BY <1>4 DEF Invalidate, TypeInv
  <2>2. AffinityTypeOK' /\ forgotten' \subseteq Keys
    <3>1. CASE UNCHANGED <<storeVars, forgotten>>
      BY <3>1 DEF TypeInv, AffinityTypeOK, HistoryOK, storeVars
    <3>2. CASE /\ InvalidateAccount(a)
               /\ forgotten' = forgotten \cup
                    {k \in Keys : bindings[k] # NoBinding /\ bindings[k].account = a}
      BY <3>2 DEF InvalidateAccount, TypeInv, AffinityTypeOK, HistoryOK
    <3> QED
      BY <1>4, <3>1, <3>2 DEF Invalidate
  <2> QED
    BY <1>4, <2>1, <2>2
       DEF Invalidate, TypeInv, RouterTypeOK, ControlOK, WorkOK, HistoryOK,
           routerVars, workVars
<1>5. ASSUME NEW k \in Keys, ExpireBinding(k)
      PROVE  TypeInv'
  BY <1>5
     DEF ExpireBinding, Expire, TypeInv, RouterTypeOK, AffinityTypeOK, ControlOK,
         WorkOK, HistoryOK, routerVars, workVars
<1>6. CASE RouterChange
  <2>1. RouterNext
    BY <1>6 DEF RouterChange, RouterNext
  <2> QED
    BY <1>6, <2>1, RouterStepKeepsType
       DEF RouterChange, TypeInv, AffinityTypeOK, ControlOK, WorkOK, HistoryOK,
           storeVars, workVars, historyVars
<1>7. CASE Restart
  <2>1. RouterTypeOK'
    BY <1>7, RouterAssumption
       DEF Restart, TypeInv, RouterTypeOK, FreshRuntime, Runtime
  <2>2. Shaped("new", Blank)
    BY DEF Shaped, Holding, Validating, Recording
  <2>3. ControlOK'
    BY <1>7, <2>2, BlankIsLocal DEF Restart, ControlOK, PC
  <2>4. WorkOK'
    BY <1>7 DEF Restart, WorkOK, AccountOrNone
  <2> QED
    BY <1>7, <2>1, <2>3, <2>4
       DEF Restart, TypeInv, AffinityTypeOK, HistoryOK, storeVars, historyVars
<1> QED
  BY <1>1, <1>2, <1>3, <1>4, <1>5, <1>6, <1>7

\* The type invariant holds initially.
LEMMA TypesHoldInitially == Init => TypeInv
<1> SUFFICES ASSUME Init PROVE TypeInv
  OBVIOUS
<1>1. RouterTypeOK
  BY RouterStartsTyped DEF Init
<1>2. Shaped("new", Blank) /\ NoInput \in Input
  BY DispatchAssumption
     DEF Shaped, Holding, Validating, Recording, NoInput, Input
<1>3. ControlOK
  BY <1>2, BlankIsLocal DEF Init, ControlOK, PC
<1>4. WorkOK /\ HistoryOK
  BY DEF Init, WorkOK, HistoryOK, AccountOrNone
<1> QED
  BY <1>1, <1>2, <1>3, <1>4 DEF Init, TypeInv, AffinityInit, AffinityTypeOK

\* Every step keeps the type invariant.
LEMMA StepsKeepTypes == TypeInv /\ [Next]_vars => TypeInv'
<1> SUFFICES ASSUME TypeInv, [Next]_vars PROVE TypeInv'
  OBVIOUS
<1>1. CASE UNCHANGED vars
  BY <1>1
     DEF vars, TypeInv, RouterTypeOK, AffinityTypeOK, ControlOK, WorkOK,
         HistoryOK, routerVars, storeVars, workVars, historyVars
<1>2. ASSUME NEW r \in Requests, Arrive(r) \/ Handle(r)
      PROVE  TypeInv'
  BY <1>2, ArrivalKeepsTypes, SelectionKeepsTypes, FenceKeepsTypes,
     AnswersKeepTypes, BindingKeepsTypes DEF Handle
<1> QED
  BY <1>1, <1>2, EnvironmentKeepsTypes DEF Next

\* Every variable keeps its type, whatever the requests, the failures of the
\* store and the environment do: in particular no handler sends to, binds to
\* or charges an account outside the pool, and a recorded usage stays within
\* the scale the thresholds are on.
THEOREM TypeCorrect == Spec => []TypeOK
<1>1. Spec => []TypeInv
  BY TypesHoldInitially, StepsKeepTypes, PTL DEF Spec
<1> QED
  BY <1>1, TypeInvImpliesTypeOK, PTL

-----------------------------------------------------------------------------
(* The inductive invariant.                                                *)

Unowned == {"lookup", "lookupEpoch", "pick"}
Selected == Holding \cup {"relay"}

\* What the ownership argument knows of a request at a place of the handler.
Fits(r, place, local) ==
  /\ place = "new" => sends[r] = <<>>
  /\ served[r] # NoAccount => place \in Recording \cup {"ended"}
  /\ place = "owners" => \A t \in input[r].anchors \ local.todo :
       local.missing \/ (local.owner # NoAccount /\ served[t[2]] = local.owner)
  /\ place \notin {"new", "owners", "ended"} => \A t \in input[r].anchors :
       local.owner # NoAccount /\ served[t[2]] = local.owner
  /\ place \in Unowned => local.owner = NoAccount
  /\ place \in Selected /\ local.owner # NoAccount => local.account = local.owner
  /\ place \in Recording => served[r] = local.account
  /\ place \in {"bindEpoch", "bindPut"} => \A i \in DOMAIN local.queue :
       local.queue[i] \in Tokens => local.queue[i][2] = r

TokensOwned ==
  \A t \in Tokens : bindings[t] # NoBinding => bindings[t].account = served[t[2]]

OwnerInv ==
  /\ TokensOwned
  /\ \A r \in Requests : Fits(r, pc[r], req[r])
  /\ AnchoredSends

-----------------------------------------------------------------------------
(* How a step of one request keeps it.                                     *)

\* A request's Fits does not depend on anything its own step does not change.
LEMMA OwnerStep ==
  ASSUME TypeInv, OwnerInv, NEW r \in Requests, NEW place, NEW local,
         Goto(r, place, local), Fits(r, place, local), TokensOwned',
         UNCHANGED <<input, sends, served>>
  PROVE  OwnerInv'
<1>1. ASSUME NEW q \in Requests
      PROVE  Fits(q, pc[q], req[q])'
  <2>1. CASE q = r
    <3>1. pc'[q] = place /\ req'[q] = local
      BY <2>1 DEF Goto, TypeInv, ControlOK
    <3> QED
      BY <2>1, <3>1 DEF Fits
  <2>2. CASE q # r
    <3>1. pc'[q] = pc[q] /\ req'[q] = req[q]
      BY <2>2 DEF Goto, TypeInv, ControlOK
    <3>2. Fits(q, pc[q], req[q])
      BY DEF OwnerInv
    <3> QED
      BY <3>1, <3>2 DEF Fits
  <2> QED
    BY <2>1, <2>2
<1>2. AnchoredSends'
  BY DEF OwnerInv, AnchoredSends
<1> QED
  BY <1>1, <1>2 DEF OwnerInv

\* As long as nothing is stored and nothing is served, tokens stay owned.
LEMMA StoreUntouched ==
  ASSUME OwnerInv, UNCHANGED bindings, UNCHANGED served
  PROVE  TokensOwned'
BY DEF OwnerInv, TokensOwned

\* A request that ends asks for nothing.
LEMMA OwnerFinish ==
  ASSUME TypeInv, OwnerInv, NEW r \in Requests, Finish(r), TokensOwned',
         UNCHANGED <<input, sends, served>>
  PROVE  OwnerInv'
<1>1. Fits(r, "ended", Blank)
  BY DEF Fits, Unowned, Selected, Holding, Validating, Recording
<1>2. Goto(r, "ended", Blank)
  BY DEF Finish
<1> QED
  BY <1>1, <1>2, OwnerStep

\* Between selection and the answer a request keeps its owner and account.
LEMMA MoveFits ==
  ASSUME TypeInv, OwnerInv, NEW r \in Requests, pc[r] \in Selected,
         NEW place \in Selected, pc[r] \in Recording <=> place \in Recording,
         place \in {"bindEpoch", "bindPut"} => pc[r] \in {"bindEpoch", "bindPut"},
         NEW local, local.owner = req[r].owner,
         local.account = req[r].account, local.queue = req[r].queue
  PROVE  Fits(r, place, local)
BY DEF OwnerInv, Fits, Unowned, Selected, Holding, Validating, Recording

\* Only a request without an owner selects again.
LEMMA ReselectFits ==
  ASSUME TypeInv, OwnerInv, NEW r \in Requests,
         pc[r] \in Selected \ Recording, ~Hard(r), NEW why, Reselect(r, why),
         TokensOwned', UNCHANGED <<input, sends, served>>
  PROVE  OwnerInv'
<1> DEFINE local == [req[r] EXCEPT !.thread = NoKey, !.found = NoBinding,
                        !.excluded = req[r].account, !.attempt = 1,
                        !.retry = why]
<1>1. local.owner = req[r].owner
  BY LocalFacts DEF Local
<1>2. Fits(r, "pick", local)
  BY <1>1 DEF OwnerInv, Fits, Hard, Unowned, Selected, Holding, Validating,
              Recording
<1>3. Goto(r, "pick", local)
  BY DEF Reselect
<1> QED
  BY <1>2, <1>3, OwnerStep

\* A stale selection keeps the invariant.
LEMMA StaleOwner ==
  ASSUME TypeInv, OwnerInv, NEW r \in Requests, pc[r] \in Validating,
         Stale(r), TokensOwned', UNCHANGED <<input, sends, served>>
  PROVE  OwnerInv'
<1>1. pc[r] \in Selected \ Recording
  BY DEF Selected, Holding, Validating, Recording
<1>2. CASE Return(r, "relay", req[r])
  <2>1. Fits(r, "relay", req[r])
    BY <1>1, MoveFits DEF Selected, Recording
  <2> QED
    BY <1>2, <2>1, OwnerStep DEF Return
<1>3. CASE Finish(r)
  BY <1>3, OwnerFinish
<1>4. CASE ~Hard(r) /\ \E why \in Retry : Reselect(r, why)
  BY <1>1, <1>4, ReselectFits
<1> QED
  BY <1>2, <1>3, <1>4 DEF Stale, Retry

\* A validated selection keeps it.
LEMMA ValidatedOwner ==
  ASSUME TypeInv, OwnerInv, NEW r \in Requests, pc[r] \in Validating,
         Validated(r), TokensOwned', UNCHANGED <<input, sends, served>>
  PROVE  OwnerInv'
<1>1. pc[r] \in Selected \ Recording
  BY DEF Selected, Holding, Validating, Recording
<1>2. CASE Continue(r, [req[r] EXCEPT !.attempt = 1])
  <2> DEFINE local == [req[r] EXCEPT !.attempt = 1]
  <2>1. /\ local.owner = req[r].owner
        /\ local.account = req[r].account
        /\ local.queue = req[r].queue
    BY LocalFacts DEF Local
  <2>2. Fits(r, "resolve", local)
    BY <1>1, <2>1, MoveFits DEF Selected, Holding, Recording
  <2> QED
    BY <1>2, <2>2, OwnerStep DEF Continue
<1>3. CASE Goto(r, "wire", req[r])
  <2>1. Fits(r, "wire", req[r])
    BY <1>1, MoveFits DEF Selected, Holding, Recording
  <2> QED
    BY <1>3, <2>1, OwnerStep
<1> QED
  BY <1>2, <1>3 DEF Validated

-----------------------------------------------------------------------------
(* One lemma for each group of steps.                                      *)

\* Finding the hard owner: this is where it becomes known that every anchor
\* was served by it.
LEMMA ArrivalOwner ==
  ASSUME TypeInv, OwnerInv, NEW r \in Requests,
         Arrive(r) \/ FindOwner(r) \/ OwnersFound(r)
  PROVE  OwnerInv'
<1>0. /\ req[r] \in Local
      /\ TokensOwned'
      /\ Fits(r, pc[r], req[r])
  BY LocalFacts, StoreUntouched
     DEF OwnerInv, Arrive, FindOwner, OwnersFound, storeVars, historyVars
<1>1. CASE Arrive(r)
  <2>1. PICK i \in Inputs[r] :
          /\ input' = [input EXCEPT ![r] = i]
          /\ Goto(r, "owners", [Blank EXCEPT !.todo = i.anchors])
    BY <1>1 DEF Arrive
  <2> DEFINE local == [Blank EXCEPT !.todo = i.anchors]
  <2>2. UNCHANGED <<sends, served, answered>> /\ pc[r] = "new"
    BY <1>1 DEF Arrive, historyVars
  <2>3. /\ input'[r] = i
        /\ \A q \in Requests \ {r} : input'[q] = input[q]
    BY <2>1 DEF TypeInv
  <2>4. sends[r] = <<>> /\ served[r] = NoAccount
    BY <1>0, <2>2 DEF Fits, Recording
  <2>5. ASSUME NEW q \in Requests
        PROVE  Fits(q, pc[q], req[q])'
    <3>1. CASE q = r
      <4>1. /\ pc'[q] = "owners" /\ req'[q] = local
            /\ local.todo = i.anchors /\ local.owner = NoAccount
        BY <2>1, <3>1 DEF Goto, TypeInv, ControlOK, Blank
      <4> QED
        BY <2>2, <2>3, <2>4, <3>1, <4>1
           DEF Fits, Unowned, Selected, Holding, Validating, Recording
    <3>2. CASE q # r
      <4>1. pc'[q] = pc[q] /\ req'[q] = req[q] /\ input'[q] = input[q]
        BY <2>1, <2>3, <3>2 DEF Goto, TypeInv, ControlOK
      <4>2. Fits(q, pc[q], req[q])
        BY DEF OwnerInv
      <4> QED
        BY <2>2, <4>1, <4>2 DEF Fits
    <3> QED
      BY <3>1, <3>2
  <2>6. AnchoredSends'
    BY <2>2, <2>3, <2>4 DEF OwnerInv, AnchoredSends
  <2> QED
    BY <1>0, <2>5, <2>6 DEF OwnerInv
<1>2. CASE FindOwner(r)
  <2>1. UNCHANGED <<input, sends, served>> /\ pc[r] = "owners"
    BY <1>2 DEF FindOwner, historyVars
  <2>2. CASE Finish(r)
    BY <1>0, <2>1, <2>2, OwnerFinish
  <2>3. CASE ~Finish(r)
    <3>0. PICK t \in req[r].todo : \E found \in Lookup(t) :
            LET rest == [req[r] EXCEPT !.todo = @ \ {t}] IN
            IF found = NoBinding
            THEN Goto(r, "owners", [rest EXCEPT !.missing = TRUE])
            ELSE SameOwner(r, found)
                   /\ Goto(r, "owners", [rest EXCEPT !.owner = found.account])
      BY <1>2, <2>3 DEF FindOwner
    <3>1. PICK found \in Lookup(t) :
            LET rest == [req[r] EXCEPT !.todo = @ \ {t}] IN
            IF found = NoBinding
            THEN Goto(r, "owners", [rest EXCEPT !.missing = TRUE])
            ELSE SameOwner(r, found)
                   /\ Goto(r, "owners", [rest EXCEPT !.owner = found.account])
      BY <3>0
    <3> DEFINE rest == [req[r] EXCEPT !.todo = @ \ {t}]
    <3>2. t \in Tokens /\ t \in Keys
      BY <1>0 DEF Local, Keys
    <3>3. CASE found = NoBinding
      <4> DEFINE local == [rest EXCEPT !.missing = TRUE]
      <4>1. local.todo = req[r].todo \ {t} /\ local.missing
        BY <1>0 DEF Local
      <4>2. Fits(r, "owners", local)
        BY <1>0, <2>1, <4>1
           DEF Fits, Unowned, Selected, Holding, Validating, Recording
      <4> QED
        BY <1>0, <2>1, <3>1, <3>3, <4>2, OwnerStep
    <3>4. CASE found # NoBinding
      <4> DEFINE local == [rest EXCEPT !.owner = found.account]
      <4>1. /\ local.todo = req[r].todo \ {t}
            /\ local.owner = found.account
            /\ local.missing = req[r].missing
        BY <1>0 DEF Local
      <4>2. found = bindings[t] /\ found \in Binding
        BY <3>2, <3>4, StoreFacts DEF Lookup
      <4>3. found.account = served[t[2]] /\ found.account # NoAccount
        BY <3>2, <3>4, <4>2, RouterAssumption DEF OwnerInv, TokensOwned, Binding
      <4>4. req[r].owner \in {NoAccount, found.account}
        BY <3>1, <3>4 DEF SameOwner
      <4>5. Fits(r, "owners", local)
        BY <1>0, <2>1, <4>1, <4>3, <4>4
           DEF Fits, Unowned, Selected, Holding, Validating, Recording
      <4> QED
        BY <1>0, <2>1, <3>1, <3>4, <4>5, OwnerStep
    <3> QED
      BY <3>3, <3>4
  <2> QED
    BY <2>2, <2>3
<1>3. CASE OwnersFound(r)
  <2>1. UNCHANGED <<input, sends, served>> /\ pc[r] = "owners" /\ req[r].todo = {}
    BY <1>3 DEF OwnersFound, historyVars
  <2>2. CASE Finish(r)
    BY <1>0, <2>1, <2>2, OwnerFinish
  <2>3. CASE ~Finish(r)
    <3> DEFINE pin == input[r].pin
               owner == IF pin # NoAccount THEN pin ELSE req[r].owner
               exact == [req[r] EXCEPT !.owner = owner]
               fresh == [req[r] EXCEPT !.thread = input[r].key]
               place == IF input[r].key = NoKey THEN "pick" ELSE "lookup"
    <3>1. /\ ~Refused(r)
          /\ IF owner # NoAccount THEN Goto(r, "exact", exact)
             ELSE Goto(r, place, fresh)
      BY <1>3, <2>3 DEF OwnersFound
    <3>2. /\ exact.owner = owner
          /\ fresh.owner = req[r].owner
      BY <1>0 DEF Local
    <3>3. \A t \in input[r].anchors :
            req[r].owner # NoAccount /\ served[t[2]] = req[r].owner
      BY <1>0, <2>1, <3>1 DEF Fits, Refused
    <3>4. req[r].owner \in {NoAccount, owner}
      BY <3>1 DEF Refused
    <3>5. CASE owner # NoAccount
      <4>1. Fits(r, "exact", exact)
        BY <1>0, <2>1, <3>2, <3>3, <3>4
           DEF Fits, Unowned, Selected, Holding, Validating, Recording
      <4> QED
        BY <1>0, <2>1, <3>1, <3>5, <4>1, OwnerStep
    <3>6. CASE owner = NoAccount
      <4>1. Fits(r, place, fresh)
        BY <1>0, <2>1, <3>2, <3>3, <3>4, <3>6
           DEF Fits, Unowned, Selected, Holding, Validating, Recording
      <4> QED
        BY <1>0, <2>1, <3>1, <3>6, <4>1, OwnerStep
    <3> QED
      BY <3>5, <3>6
  <2> QED
    BY <2>2, <2>3
<1> QED
  BY <1>1, <1>2, <1>3

\* Selecting: a request with an owner takes it, one without may take any.
LEMMA SelectionOwner ==
  ASSUME TypeInv, OwnerInv, NEW r \in Requests,
         \/ SelectExact(r) \/ LookupThread(r) \/ LookupEpoch(r) \/ Pick(r)
         \/ Stamp(r) \/ Prebind(r)
  PROVE  OwnerInv'
<1>0. /\ req[r] \in Local
      /\ Fits(r, pc[r], req[r])
      /\ UNCHANGED <<input, sends, served>>
  BY LocalFacts
     DEF OwnerInv, SelectExact, LookupThread, LookupEpoch, Pick, Stamp, Prebind,
         historyVars
<1>1. TokensOwned'
  <2>1. CASE Prebind(r)
    <3>1. req[r].thread \in SoftKeys
      BY <2>1, LocalFacts DEF Prebind, Shaped, Local
    <3>2. \A t \in Tokens : bindings'[t] = bindings[t]
      BY <2>1, <3>1, DispatchAssumption
         DEF Prebind, Put, TypeInv, AffinityTypeOK, Keys
    <3> QED
      BY <1>0, <3>2 DEF OwnerInv, TokensOwned
  <2>2. CASE ~Prebind(r)
    BY <1>0, <2>2, StoreUntouched
       DEF SelectExact, LookupThread, LookupEpoch, Pick, Stamp, storeVars
  <2> QED
    BY <2>1, <2>2
<1>2. CASE Finish(r)
  BY <1>0, <1>1, <1>2, OwnerFinish
<1>3. ASSUME pc[r] \in Unowned, NEW place, NEW local,
             place \in Unowned \cup {"stamp", "resolve"},
             local.owner = req[r].owner, Goto(r, place, local)
      PROVE  OwnerInv'
  <2>1. Fits(r, place, local)
    BY <1>0, <1>3 DEF Fits, Unowned, Selected, Holding, Validating, Recording
  <2> QED
    BY <1>0, <1>1, <1>3, <2>1, OwnerStep
<1>4. CASE SelectExact(r) /\ ~Finish(r)
  <2> DEFINE local == [req[r] EXCEPT !.account = req[r].owner, !.bound = TRUE]
  <2>1. local.owner = req[r].owner /\ local.account = req[r].owner
    BY <1>0 DEF Local
  <2>2. pc[r] = "exact" /\ Goto(r, "stamp", local)
    BY <1>4 DEF SelectExact
  <2>3. Fits(r, "stamp", local)
    BY <1>0, <2>1, <2>2
       DEF Fits, Unowned, Selected, Holding, Validating, Recording
  <2> QED
    BY <1>0, <1>1, <2>2, <2>3, OwnerStep
<1>5. CASE LookupThread(r)
  <2>1. PICK found \in Lookup(req[r].thread) :
          Goto(r, IF found = NoBinding THEN "pick" ELSE "lookupEpoch",
               [req[r] EXCEPT !.found = found])
    BY <1>5 DEF LookupThread
  <2>2. [req[r] EXCEPT !.found = found].owner = req[r].owner
    BY <1>0 DEF Local
  <2> QED
    BY <1>3, <1>5, <2>1, <2>2 DEF LookupThread, Unowned
<1>6. CASE LookupEpoch(r)
  <2>1. PICK e \in Epoch(req[r].found.account) :
          Goto(r, "pick", [req[r] EXCEPT !.generation = e])
    BY <1>6 DEF LookupEpoch
  <2>2. [req[r] EXCEPT !.generation = e].owner = req[r].owner
    BY <1>0 DEF Local
  <2> QED
    BY <1>3, <1>6, <2>1, <2>2 DEF LookupEpoch, Unowned
<1>7. CASE Pick(r) /\ ~Finish(r)
  <2>0. pc[r] \in Unowned
    BY <1>7 DEF Pick, Unowned
  <2>1. CASE Goto(r, "resolve", [req[r] EXCEPT !.account = req[r].found.account,
                                               !.bound = TRUE])
    <3>1. [req[r] EXCEPT !.account = req[r].found.account, !.bound = TRUE].owner
            = req[r].owner
      BY <1>0 DEF Local
    <3> QED
      BY <1>3, <2>0, <2>1, <3>1
  <2>2. CASE \E a \in FreshChoices(req[r].excluded, NoAccount) :
               Goto(r, "stamp", [req[r] EXCEPT !.account = a, !.bound = FALSE])
    <3>1. PICK a \in FreshChoices(req[r].excluded, NoAccount) :
            Goto(r, "stamp", [req[r] EXCEPT !.account = a, !.bound = FALSE])
      BY <2>2
    <3>2. [req[r] EXCEPT !.account = a, !.bound = FALSE].owner = req[r].owner
      BY <1>0 DEF Local
    <3> QED
      BY <1>3, <2>0, <3>1, <3>2
  <2>3. CASE Return(r, "relay", req[r])
    <3>1. Fits(r, "relay", req[r])
      BY <1>0, <2>0 DEF Fits, Unowned, Selected, Holding, Validating, Recording
    <3> QED
      BY <1>0, <1>1, <2>3, <3>1, OwnerStep DEF Return
  <2> QED
    BY <1>7, <2>1, <2>2, <2>3 DEF Pick, NoAlternate
<1>8. CASE Stamp(r)
  <2>1. PICK e \in Epoch(req[r].account) :
          LET stamped == [req[r] EXCEPT !.generation = e] IN
          Goto(r, "prebind", stamped) \/ Goto(r, "resolve", stamped)
    BY <1>8 DEF Stamp, Continue
  <2> DEFINE stamped == [req[r] EXCEPT !.generation = e]
  <2>2. /\ stamped.owner = req[r].owner
        /\ stamped.account = req[r].account
        /\ stamped.queue = req[r].queue
    BY <1>0 DEF Local
  <2> HIDE DEF stamped
  <2>3. pc[r] \in Selected \ Recording
    BY <1>8 DEF Stamp, Selected, Holding, Recording
  <2>4. Fits(r, "prebind", stamped) /\ Fits(r, "resolve", stamped)
    BY <2>2, <2>3, MoveFits DEF Selected, Holding, Recording
  <2> QED
    BY <1>0, <1>1, <2>1, <2>4, OwnerStep DEF stamped
<1>9. CASE Prebind(r) /\ ~Finish(r)
  <2>1. Goto(r, "resolve", req[r]) /\ pc[r] \in Selected \ Recording
    BY <1>9 DEF Prebind, Selected, Holding, Recording
  <2>2. Fits(r, "resolve", req[r])
    BY <2>1, MoveFits DEF Selected, Holding, Recording
  <2> QED
    BY <1>0, <1>1, <2>1, <2>2, OwnerStep
<1> QED
  BY <1>2, <1>4, <1>5, <1>6, <1>7, <1>8, <1>9

\* The fence, and the send behind it: what is sent goes to the owner.
LEMMA FenceOwner ==
  ASSUME TypeInv, OwnerInv, NEW r \in Requests,
         \/ Resolve(r) \/ Probe(r) \/ CheckEpoch(r) \/ CheckBinding(r)
         \/ CheckOrder(r) \/ Send(r)
  PROVE  OwnerInv'
<1>0. /\ req[r] \in Local
      /\ pc[r] \in Selected \ Recording
      /\ TokensOwned'
      /\ UNCHANGED <<input, served>>
      /\ ~Send(r) => UNCHANGED sends
  BY LocalFacts, StoreUntouched
     DEF Resolve, Probe, CheckEpoch, CheckBinding, CheckOrder, Send, Selected,
         Holding, Validating, Recording, storeVars, historyVars
<1>1. CASE Resolve(r)
  <2> DEFINE local == [req[r] EXCEPT !.refreshed = FALSE]
  <2>1. /\ local.owner = req[r].owner
        /\ local.account = req[r].account
        /\ local.queue = req[r].queue
    BY <1>0 DEF Local
  <2>2. Fits(r, "probe", local)
    BY <1>0, <2>1, MoveFits DEF Selected, Holding, Validating, Recording
  <2>3. UNCHANGED sends
    BY <1>1 DEF Resolve
  <2> QED
    BY <1>0, <1>1, <2>2, <2>3, OwnerStep, OwnerFinish DEF Resolve
<1>2. CASE Probe(r) \/ CheckEpoch(r) \/ CheckBinding(r) \/ CheckOrder(r)
  <2>1. pc[r] \in Validating /\ UNCHANGED sends
    BY <1>2 DEF Probe, CheckEpoch, CheckBinding, CheckOrder, Validating, historyVars
  <2>2. \/ Stale(r)
        \/ Validated(r)
        \/ \E place \in {"epoch", "order", "binding"} : Goto(r, place, req[r])
    BY <1>2 DEF Probe, CheckEpoch, CheckBinding, CheckOrder
  <2>3. \A place \in {"epoch", "order", "binding"} : Fits(r, place, req[r])
    BY <1>0, MoveFits DEF Selected, Holding, Validating, Recording
  <2> QED
    BY <1>0, <2>1, <2>2, <2>3, StaleOwner, ValidatedOwner, OwnerStep
<1>3. CASE Send(r)
  <2>1. CASE Finish(r) /\ UNCHANGED sends
    BY <1>0, <2>1, OwnerFinish
  <2>2. CASE /\ Goto(r, "sent", req[r])
             /\ sends' = [sends EXCEPT ![r] = Append(@, req[r].account)]
    <3>0. pc[r] = "wire" /\ Fits(r, pc[r], req[r])
      BY <1>3 DEF Send, OwnerInv
    <3>1. \A t \in input[r].anchors : served[t[2]] = req[r].account
      BY <3>0 DEF Fits, Selected, Holding
    <3>2. /\ sends[r] \in Seq(Members)
          /\ sends'[r] = Append(sends[r], req[r].account)
          /\ \A q \in Requests \ {r} : sends'[q] = sends[q]
      BY <2>2 DEF TypeInv, HistoryOK
    <3>3. AnchoredSends'
      <4>1. ASSUME NEW t \in input[r].anchors, NEW i \in DOMAIN sends'[r]
            PROVE  sends'[r][i] = served[t[2]]
        <5>1. CASE i \in DOMAIN sends[r]
          BY <3>2, <5>1 DEF OwnerInv, AnchoredSends
        <5>2. CASE i = Len(sends[r]) + 1
          BY <3>1, <3>2, <5>2
        <5> QED
          BY <3>2, <5>1, <5>2
      <4> QED
        BY <1>0, <3>2, <4>1 DEF OwnerInv, AnchoredSends
    <3>4. ASSUME NEW q \in Requests
          PROVE  Fits(q, pc[q], req[q])'
      <4>1. CASE q = r
        <5>1. pc'[q] = "sent" /\ req'[q] = req[q]
          BY <2>2, <4>1 DEF Goto, TypeInv, ControlOK
        <5>2. Fits(r, "sent", req[r])
          BY <1>0, MoveFits DEF Selected, Holding, Recording
        <5> QED
          BY <1>0, <4>1, <5>1, <5>2
             DEF Fits, Selected, Holding, Validating, Recording
      <4>2. CASE q # r
        <5>1. pc'[q] = pc[q] /\ req'[q] = req[q] /\ sends'[q] = sends[q]
          BY <2>2, <3>2, <4>2 DEF Goto, TypeInv, ControlOK
        <5>2. Fits(q, pc[q], req[q])
          BY DEF OwnerInv
        <5> QED
          BY <1>0, <5>1, <5>2 DEF Fits
      <4> QED
        BY <4>1, <4>2
    <3> QED
      BY <1>0, <3>3, <3>4 DEF OwnerInv
  <2> QED
    BY <1>3, <2>1, <2>2 DEF Send
<1> QED
  BY <1>1, <1>2, <1>3

\* An answer: the account that gives the first success is the owner of what
\* the request will be given.
LEMMA AnswersOwner ==
  ASSUME TypeInv, OwnerInv, NEW r \in Requests,
         \/ Succeed(r) \/ Unauthorized(r) \/ Refreshed(r) \/ RefreshFailed(r)
         \/ Reject(r) \/ PassThrough(r) \/ Unreachable(r) \/ Fail(r)
  PROVE  OwnerInv'
<1>0. /\ req[r] \in Local
      /\ pc[r] \in Selected \ Recording
      /\ Fits(r, pc[r], req[r])
      /\ UNCHANGED <<input, sends, bindings>>
  BY LocalFacts
     DEF OwnerInv, Succeed, Unauthorized, Refreshed, RefreshFailed, Reject,
         PassThrough, Unreachable, Fail, Selected, Holding, Recording,
         storeVars, historyVars
<1>1. CASE Succeed(r)
  <2>1. served[r] = NoAccount
    BY <1>0 DEF Fits, Selected, Holding, Validating, Recording
  <2>2. /\ served'[r] = req[r].account
        /\ \A q \in Requests \ {r} : served'[q] = served[q]
    BY <1>1 DEF Succeed, TypeInv, HistoryOK
  <2>3. TokensOwned'
    <3>1. \A t \in Tokens : bindings[t] # NoBinding => t[2] # r
      BY <2>1, RouterAssumption
         DEF OwnerInv, TokensOwned, TypeInv, AffinityTypeOK, Binding, Keys
    <3>2. \A t \in Tokens : t[2] \in Requests
      BY DEF Tokens
    <3> QED
      BY <1>0, <2>2, <3>1, <3>2 DEF OwnerInv, TokensOwned
  <2>4. ASSUME NEW q \in Requests, NEW t \in input[q].anchors
        PROVE  t[2] \in Requests
    BY LocalFacts DEF Tokens
  <2>5. AnchoredSends'
    <3>1. ASSUME NEW q \in Requests, NEW t \in input[q].anchors,
                 NEW i \in DOMAIN sends[q]
          PROVE  served[t[2]] = sends[q][i] /\ sends[q][i] # NoAccount
      BY AccountFacts DEF OwnerInv, AnchoredSends, TypeInv, HistoryOK
    <3> QED
      BY <1>0, <2>1, <2>2, <2>4, <3>1 DEF AnchoredSends
  <2>6. ASSUME NEW q \in Requests
        PROVE  Fits(q, pc[q], req[q])'
    <3>1. CASE q = r
      <4>1. pc'[q] \in {"turnEpoch", "streaming"} /\ req'[q] = req[q]
        BY <1>1, <3>1 DEF Succeed, Goto, Return, TypeInv, ControlOK
      <4>2. \A t \in input[q].anchors : t[2] # r
        BY <1>0, <2>1, <3>1 DEF Fits, Selected, Holding, Validating, Recording
      <4> QED
        BY <1>0, <2>2, <2>4, <3>1, <4>1, <4>2
           DEF Fits, Unowned, Selected, Holding, Validating, Recording
    <3>2. CASE q # r
      <4>1. pc'[q] = pc[q] /\ req'[q] = req[q]
        BY <1>1, <3>2 DEF Succeed, Goto, Return, TypeInv, ControlOK
      <4>2. Fits(q, pc[q], req[q])
        BY DEF OwnerInv
      <4> QED
        BY <1>0, <2>1, <2>2, <2>4, <3>2, <4>1, <4>2 DEF Fits
    <3> QED
      BY <3>1, <3>2
  <2> QED
    BY <2>3, <2>5, <2>6 DEF OwnerInv
<1>2. CASE ~Succeed(r)
  <2>1. UNCHANGED served
    BY <1>2 DEF Unauthorized, Refreshed, RefreshFailed, Reject, PassThrough,
                Unreachable, Fail, historyVars
  <2>2. TokensOwned'
    BY <1>0, <2>1, StoreUntouched
  <2>3. CASE Refreshed(r)
    <3> DEFINE local == [req[r] EXCEPT !.refreshed = TRUE]
    <3>1. /\ local.owner = req[r].owner
          /\ local.account = req[r].account
          /\ local.queue = req[r].queue
      BY <1>0 DEF Local
    <3>2. Fits(r, "probe", local)
      BY <1>0, <3>1, MoveFits DEF Selected, Holding, Validating, Recording
    <3> QED
      BY <1>0, <2>1, <2>2, <2>3, <3>2, OwnerStep DEF Refreshed
  <2>4. CASE ~Refreshed(r)
    <3>1. \/ Finish(r)
          \/ \E place \in {"refresh", "relay"} : Goto(r, place, req[r])
          \/ ~Hard(r) /\ \E why \in Retry : Reselect(r, why)
      BY <1>2, <2>4
         DEF Unauthorized, RefreshFailed, Reject, PassThrough, Unreachable, Fail,
             Return, MayMove, Retry
    <3>2. \A place \in {"refresh", "relay"} : Fits(r, place, req[r])
      BY <1>0, MoveFits DEF Selected, Holding, Recording
    <3> QED
      BY <1>0, <2>1, <2>2, <3>1, <3>2, OwnerFinish, OwnerStep, ReselectFits
  <2> QED
    BY <2>3, <2>4
<1> QED
  BY <1>1, <1>2

\* Binding: a token of a request is bound to the account that served it.
LEMMA BindingOwner ==
  ASSUME TypeInv, OwnerInv, NEW r \in Requests,
         \/ TurnEpoch(r) \/ TurnPut(r) \/ Completed(r) \/ Uncompleted(r)
         \/ BindEpoch(r) \/ BindPut(r) \/ Relayed(r)
  PROVE  OwnerInv'
<1>0. /\ req[r] \in Local
      /\ Shaped(pc[r], req[r])
      /\ Fits(r, pc[r], req[r])
      /\ UNCHANGED <<input, sends, served>>
  BY LocalFacts
     DEF OwnerInv, TurnEpoch, TurnPut, Completed, Uncompleted, BindEpoch,
         BindPut, Relayed, historyVars
<1>a. ASSUME NEW k \in Keys, k \in Tokens => k[2] = r, pc[r] \in Recording,
             NEW g, NEW preserve \in BOOLEAN, Put(k, req[r].account, g, preserve)
      PROVE  TokensOwned'
  <2>1. served[r] = req[r].account
    BY <1>0, <1>a DEF Fits
  <2>2. \A t \in Tokens : \/ bindings'[t] = bindings[t]
                          \/ t = k /\ bindings'[t].account = req[r].account
    <3> DEFINE new == [account |-> req[r].account, generation |-> g]
    <3>1. bindings' = bindings \/ bindings' = [bindings EXCEPT ![k] = new]
      BY <1>a DEF Put
    <3>2. \A t \in Tokens : t \in DOMAIN bindings
      BY DEF TypeInv, AffinityTypeOK, Keys
    <3>3. new.account = req[r].account
      OBVIOUS
    <3> HIDE DEF new
    <3> SUFFICES ASSUME NEW t \in Tokens
                 PROVE  \/ bindings'[t] = bindings[t]
                        \/ t = k /\ bindings'[t].account = req[r].account
      OBVIOUS
    <3>4. t \in DOMAIN bindings
      BY <3>2
    <3>5. CASE t = k /\ bindings' = [bindings EXCEPT ![k] = new]
      <4>1. bindings'[t] = new
        BY <3>4, <3>5
      <4> QED
        BY <3>3, <3>5, <4>1
    <3>6. CASE t # k /\ bindings' = [bindings EXCEPT ![k] = new]
      BY <3>4, <3>6
    <3> QED
      BY <3>1, <3>5, <3>6
  <2> QED
    BY <1>0, <1>a, <2>1, <2>2 DEF OwnerInv, TokensOwned
<1>b. ASSUME NEW place \in Recording, NEW local, pc[r] \in Recording,
             local.owner = req[r].owner, local.account = req[r].account,
             place \in {"bindEpoch", "bindPut"} =>
               \A i \in DOMAIN local.queue :
                 local.queue[i] \in Tokens => local.queue[i][2] = r
      PROVE  Fits(r, place, local)
  BY <1>0, <1>b DEF Fits, Unowned, Selected, Holding, Validating, Recording
<1>1. CASE UNCHANGED bindings /\ Finish(r)
  BY <1>0, <1>1, StoreUntouched, OwnerFinish
<1>2. CASE TurnEpoch(r) \/ BindEpoch(r)
  <2>1. PICK e \in Epoch(req[r].account) :
          \/ pc[r] = "turnEpoch" /\ Goto(r, "turnPut", [req[r] EXCEPT !.stamp = e])
          \/ pc[r] = "bindEpoch" /\ Goto(r, "bindPut", [req[r] EXCEPT !.stamp = e])
    BY <1>2 DEF TurnEpoch, BindEpoch
  <2> DEFINE local == [req[r] EXCEPT !.stamp = e]
  <2>2. /\ local.owner = req[r].owner
        /\ local.account = req[r].account
        /\ local.queue = req[r].queue
    BY <1>0 DEF Local
  <2> HIDE DEF local
  <2>3. CASE pc[r] = "turnEpoch"
    <3>1. Fits(r, "turnPut", local)
      BY <1>b, <2>2, <2>3 DEF Recording
    <3>2. Goto(r, "turnPut", local)
      BY <2>1, <2>3 DEF local
    <3> QED
      BY <1>0, <1>2, <3>1, <3>2, StoreUntouched, OwnerStep
         DEF TurnEpoch, BindEpoch, storeVars
  <2>4. CASE pc[r] = "bindEpoch"
    <3>1. Fits(r, "bindPut", local)
      BY <1>0, <1>b, <2>2, <2>4 DEF Recording, Fits
    <3>2. Goto(r, "bindPut", local)
      BY <2>1, <2>4 DEF local
    <3> QED
      BY <1>0, <1>2, <3>1, <3>2, StoreUntouched, OwnerStep
         DEF TurnEpoch, BindEpoch, storeVars
  <2> QED
    BY <2>1, <2>3, <2>4
<1>3. CASE TurnPut(r) /\ ~(UNCHANGED bindings /\ Finish(r))
  <2>1. /\ pc[r] \in Recording
        /\ <<"turn", r>> \in Keys /\ <<"turn", r>>[2] = r
        /\ Put(<<"turn", r>>, req[r].account, req[r].stamp, FALSE)
        /\ Goto(r, "streaming", req[r])
    BY <1>3 DEF TurnPut, Return, Recording, Keys, Tokens
  <2>2. TokensOwned'
    BY <1>a, <2>1
  <2>3. Fits(r, "streaming", req[r])
    BY <1>b, <2>1 DEF Recording
  <2> QED
    BY <1>0, <2>1, <2>2, <2>3, OwnerStep
<1>4. CASE Completed(r)
  <2> DEFINE soft == IF input[r].key = NoKey \/ input[r].hint THEN <<>>
                     ELSE <<input[r].key>>
             queue == <<<<"response", r>>>> \o soft
             local == [req[r] EXCEPT !.queue = queue]
  <2>1. \A i \in DOMAIN queue : queue[i] \in Tokens => queue[i][2] = r
    <3>1. input[r].key # NoKey => input[r].key \notin Tokens
      BY LocalFacts, DispatchAssumption
    <3>2. <<"response", r>>[2] = r
      OBVIOUS
    <3>3. soft \in Seq(Keys) /\ Len(soft) \in 0..1
          /\ (Len(soft) = 1 => soft[1] = input[r].key /\ input[r].key # NoKey)
      <4>1. input[r].key # NoKey => input[r].key \in Keys
        BY LocalFacts DEF Keys
      <4> QED
        BY <4>1
    <3>4. <<<<"response", r>>>> \in Seq(Keys)
      BY DEF Keys, Tokens
    <3> HIDE DEF soft
    <3>5. \A i \in DOMAIN queue : queue[i] = IF i = 1 THEN <<"response", r>> ELSE soft[i - 1]
      BY <3>3, <3>4
    <3>6. \A i \in DOMAIN queue : i \in 1..(1 + Len(soft))
      BY <3>3, <3>4
    <3> HIDE DEF queue
    <3>7. ASSUME NEW i \in DOMAIN queue, i # 1
          PROVE  queue[i] = input[r].key /\ input[r].key # NoKey
      BY <3>3, <3>5, <3>6, <3>7
    <3> QED
      BY <3>1, <3>2, <3>5, <3>7
  <2> HIDE DEF queue
  <2>2. /\ local.owner = req[r].owner
        /\ local.account = req[r].account
        /\ local.queue = queue
    BY <1>0 DEF Local
  <2>3. pc[r] \in Recording /\ Goto(r, "bindEpoch", local)
    BY <1>4 DEF Completed, Recording, queue
  <2> HIDE DEF local
  <2>4. Fits(r, "bindEpoch", local)
    BY <1>b, <2>1, <2>2, <2>3 DEF Recording
  <2> QED
    BY <1>0, <1>4, <2>3, <2>4, StoreUntouched, OwnerStep DEF Completed, storeVars
<1>5. CASE BindPut(r)
  <2> DEFINE next == Tail(req[r].queue)
             local == [req[r] EXCEPT !.queue = next]
  <2>1. /\ pc[r] = "bindPut" /\ pc[r] \in Recording
        /\ req[r].queue # <<>> /\ req[r].queue \in Seq(Keys)
        /\ \A i \in DOMAIN req[r].queue :
             req[r].queue[i] \in Tokens => req[r].queue[i][2] = r
    BY <1>0, <1>5 DEF BindPut, Shaped, Recording, Local, Fits
  <2>2. TokensOwned'
    <3>1. CASE UNCHANGED bindings
      BY <1>0, <3>1, StoreUntouched
    <3>2. CASE Put(Head(req[r].queue), req[r].account, req[r].stamp, Hard(r))
      <4>1. /\ Head(req[r].queue) \in Keys
            /\ Head(req[r].queue) = req[r].queue[1] /\ 1 \in DOMAIN req[r].queue
        BY <2>1
      <4>2. Hard(r) \in BOOLEAN
        BY DEF Hard
      <4> QED
        BY <1>a, <2>1, <3>2, <4>1, <4>2
    <3> QED
      BY <1>5, <3>1, <3>2 DEF BindPut
  <2>3. CASE Finish(r)
    BY <1>0, <2>2, <2>3, OwnerFinish
  <2>4. CASE ~Finish(r)
    <3>1. Goto(r, "bindEpoch", local)
      BY <1>5, <2>4 DEF BindPut
    <3>2. \A i \in DOMAIN next : next[i] \in Tokens => next[i][2] = r
      <4>1. ASSUME NEW i \in DOMAIN next
            PROVE  next[i] = req[r].queue[i + 1] /\ i + 1 \in DOMAIN req[r].queue
        BY <2>1
      <4> QED
        BY <2>1, <4>1
    <3> HIDE DEF next
    <3>3. /\ local.owner = req[r].owner
          /\ local.account = req[r].account
          /\ local.queue = next
      BY <1>0 DEF Local
    <3> HIDE DEF local
    <3>4. Fits(r, "bindEpoch", local)
      BY <1>b, <2>1, <3>2, <3>3 DEF Recording
    <3> QED
      BY <1>0, <2>2, <3>1, <3>4, OwnerStep
  <2> QED
    BY <2>3, <2>4
<1> QED
  BY <1>1, <1>2, <1>3, <1>4, <1>5 DEF Uncompleted, Relayed, storeVars

\* Nothing outside a handler makes a wrong owner: bindings only disappear.
LEMMA EnvironmentOwner ==
  ASSUME TypeInv, OwnerInv,
         \/ \E r \in Requests : ClientGone(r)
         \/ \E a \in Accounts : End(a) \/ AuthFailure(a) \/ Invalidate(a)
         \/ \E k \in Keys : ExpireBinding(k)
         \/ RouterChange
         \/ Restart
  PROVE  OwnerInv'
<1>1. ASSUME NEW r \in Requests, ClientGone(r)
      PROVE  OwnerInv'
  BY <1>1, StoreUntouched, OwnerFinish DEF ClientGone, storeVars, historyVars
<1>2. ASSUME UNCHANGED <<pc, req, input, sends, served>>, TokensOwned'
      PROVE  OwnerInv'
  BY <1>2 DEF OwnerInv, Fits, AnchoredSends
<1>3. ASSUME UNCHANGED served, NEW gone,
             \A t \in Tokens :
               bindings'[t] = IF t \in gone THEN NoBinding ELSE bindings[t]
      PROVE  TokensOwned'
  BY <1>3 DEF OwnerInv, TokensOwned
<1>4. ASSUME NEW a \in Accounts, End(a) \/ AuthFailure(a) \/ Invalidate(a)
      PROVE  OwnerInv'
  <2>1. UNCHANGED <<pc, req, input, sends, served>>
    BY <1>4 DEF End, AuthFailure, Invalidate, historyVars
  <2>2. TokensOwned'
    <3>1. CASE UNCHANGED bindings
      BY <2>1, <3>1, StoreUntouched
    <3>2. CASE InvalidateAccount(a)
      BY <1>3, <2>1, <3>2 DEF InvalidateAccount, Keys, OwnerInv, TokensOwned
    <3> QED
      BY <1>4, <3>1, <3>2 DEF End, AuthFailure, Invalidate, storeVars
  <2> QED
    BY <1>2, <2>1, <2>2
<1>5. ASSUME NEW k \in Keys, ExpireBinding(k)
      PROVE  OwnerInv'
  <2>1. UNCHANGED <<pc, req, input, sends, served>>
    BY <1>5 DEF ExpireBinding
  <2>2. \A t \in Tokens :
          bindings'[t] = IF t \in {k} THEN NoBinding ELSE bindings[t]
    BY <1>5 DEF ExpireBinding, Expire, TypeInv, AffinityTypeOK, Keys
  <2> QED
    BY <1>2, <1>3, <2>1, <2>2
<1>6. CASE RouterChange
  BY <1>2, <1>6, StoreUntouched DEF RouterChange, storeVars, historyVars
<1>7. CASE Restart
  <2>1. UNCHANGED <<input, sends, served, bindings>>
    BY <1>7 DEF Restart, storeVars, historyVars
  <2>2. ASSUME NEW r \in Requests
        PROVE  Fits(r, pc[r], req[r])'
    <3>1. /\ pc'[r] = IF pc[r] = "new" THEN "new" ELSE "ended"
          /\ Fits(r, pc[r], req[r])
      BY <1>7 DEF Restart, OwnerInv
    <3> QED
      BY <2>1, <3>1
         DEF Fits, Unowned, Selected, Holding, Validating, Recording
  <2>3. AnchoredSends'
    BY <2>1 DEF OwnerInv, AnchoredSends
  <2> QED
    BY <2>1, <2>2, <2>3, StoreUntouched DEF OwnerInv
<1> QED
  BY <1>1, <1>4, <1>5, <1>6, <1>7

-----------------------------------------------------------------------------
(* The theorem.                                                            *)

\* Nothing is stored, served or asked for at the start.
LEMMA OwnerInvInitially == Init => OwnerInv
<1> SUFFICES ASSUME Init PROVE OwnerInv
  OBVIOUS
<1>1. TokensOwned
  BY DEF Init, AffinityInit, TokensOwned, Keys
<1>2. \A r \in Requests : Fits(r, pc[r], req[r])
  BY DEF Init, Fits, Unowned, Selected, Holding, Validating, Recording
<1>3. AnchoredSends
  BY DEF Init, AnchoredSends, NoInput
<1> QED
  BY <1>1, <1>2, <1>3 DEF OwnerInv

\* Every step keeps the inductive invariant.
LEMMA StepsKeepOwners == TypeInv /\ OwnerInv /\ [Next]_vars => OwnerInv'
<1> SUFFICES ASSUME TypeInv, OwnerInv, [Next]_vars PROVE OwnerInv'
  OBVIOUS
<1>1. CASE UNCHANGED vars
  BY <1>1 DEF vars, storeVars, historyVars, OwnerInv, TokensOwned, Fits, AnchoredSends
<1>2. ASSUME NEW r \in Requests, Arrive(r) \/ Handle(r)
      PROVE  OwnerInv'
  BY <1>2, ArrivalOwner, SelectionOwner, FenceOwner, AnswersOwner, BindingOwner
     DEF Handle
<1> QED
  BY <1>1, <1>2, EnvironmentOwner DEF Next

\* Hard continuity never crosses accounts: whatever the requests carry, the
\* store loses, upstream answers and the environment does, a request with a
\* turn state or a response id is sent only to the account that issued it.
THEOREM HardContinuity == Spec => []AnchoredSends
<1>1. Spec => []TypeInv
  BY TypesHoldInitially, StepsKeepTypes, PTL DEF Spec
<1>2. Spec => []OwnerInv
  BY <1>1, OwnerInvInitially, StepsKeepOwners, PTL DEF Spec
<1>3. OwnerInv => AnchoredSends
  BY DEF OwnerInv
<1> QED
  BY <1>2, <1>3, PTL

-----------------------------------------------------------------------------
(* What the client has seen stays bound.                                    *)

\* A turn state the client has seen keeps its binding until that is invalidated
\* or expires.
ExposedBound == \A t \in exposed : t \in forgotten \/ bindings[t] # NoBinding

\* A put leaves no other key's binding worse, and a replacing one binds its own.
LEMMA PutBinds ==
  ASSUME TypeInv, NEW k \in Keys, NEW a \in Accounts, NEW g \in Nat,
         NEW preserve \in BOOLEAN, Put(k, a, g, preserve)
  PROVE  /\ \A t \in Keys : bindings[t] # NoBinding => bindings'[t] # NoBinding
         /\ ~preserve => bindings'[k] # NoBinding
<1> DEFINE new == [account |-> a, generation |-> g]
<1>1. new # NoBinding
  BY DispatchAssumption
<1>2. bindings' = bindings \/ bindings' = [bindings EXCEPT ![k] = new]
  BY DEF Put
<1>3. ~preserve => bindings' = [bindings EXCEPT ![k] = new]
  BY DEF Put
<1>4. \A t \in Keys : t \in DOMAIN bindings
  BY DEF TypeInv, AffinityTypeOK
<1> HIDE DEF new
<1> QED
  BY <1>1, <1>2, <1>3, <1>4

\* What keeps it: nothing newly exposed, nothing remembered again, and a
\* binding gone only with its key forgotten.
LEMMA ExposedKept ==
  ASSUME ExposedBound, UNCHANGED exposed, forgotten \subseteq forgotten',
         \A t \in exposed : bindings[t] # NoBinding =>
           t \in forgotten' \/ bindings'[t] # NoBinding
  PROVE  ExposedBound'
BY DEF ExposedBound

\* Every step keeps the invariant.
LEMMA StepsKeepExposed == TypeInv /\ ExposedBound /\ [Next]_vars => ExposedBound'
<1> SUFFICES ASSUME TypeInv, ExposedBound, [Next]_vars PROVE ExposedBound'
  OBVIOUS
<1>0. exposed \subseteq Keys /\ exposed \subseteq Tokens
  BY DEF TypeInv, HistoryOK, Keys
<1>a. ASSUME UNCHANGED <<bindings, exposed, forgotten>>
      PROVE  ExposedBound'
  BY <1>a, ExposedKept
<1>1. CASE UNCHANGED vars
  BY <1>1, <1>a DEF vars, storeVars, historyVars
<1>2. ASSUME NEW r \in Requests, Arrive(r) \/ Handle(r) \/ ClientGone(r)
      PROVE  ExposedBound'
  <2>1. CASE TurnPut(r) /\ ~(UNCHANGED <<bindings, exposed>>)
    <3>1. /\ pc[r] = "turnPut" /\ req[r].stamp # Unreadable
          /\ Put(<<"turn", r>>, req[r].account, req[r].stamp, FALSE)
          /\ exposed' = exposed \cup {<<"turn", r>>}
          /\ UNCHANGED forgotten
      BY <2>1 DEF TurnPut, PutCanSucceed
    <3>2. /\ <<"turn", r>> \in Keys
          /\ req[r].account \in Accounts
          /\ req[r].stamp \in Nat
      BY <3>1, LocalFacts, AccountFacts
         DEF Keys, Tokens, Shaped, Holding, Recording, Local, Generation
    <3>3. /\ \A t \in Keys : bindings[t] # NoBinding => bindings'[t] # NoBinding
          /\ bindings'[<<"turn", r>>] # NoBinding
      BY <3>1, <3>2, PutBinds
    <3> QED
      BY <1>0, <3>1, <3>3 DEF ExposedBound
  <2>2. CASE Prebind(r) /\ ~UNCHANGED bindings
    <3>1. /\ pc[r] = "prebind" /\ req[r].generation # Unreadable
          /\ Put(req[r].thread, req[r].account, req[r].generation, FALSE)
          /\ UNCHANGED <<exposed, forgotten>>
      BY <2>2 DEF Prebind, PutCanSucceed, historyVars
    <3>2. /\ req[r].thread \in Keys
          /\ req[r].account \in Accounts
          /\ req[r].generation \in Nat
      BY <3>1, LocalFacts, AccountFacts
         DEF Keys, Shaped, Holding, Local, Generation
    <3>3. \A t \in Keys : bindings[t] # NoBinding => bindings'[t] # NoBinding
      BY <3>1, <3>2, PutBinds
    <3> QED
      BY <1>0, <3>1, <3>3, ExposedKept
  <2>3. CASE BindPut(r) /\ ~UNCHANGED bindings
    <3>1. /\ pc[r] = "bindPut" /\ req[r].stamp # Unreadable
          /\ Put(Head(req[r].queue), req[r].account, req[r].stamp, Hard(r))
          /\ UNCHANGED <<exposed, forgotten>>
      BY <2>3 DEF BindPut, PutCanSucceed, historyVars
    <3>2. /\ Head(req[r].queue) \in Keys
          /\ req[r].account \in Accounts
          /\ req[r].stamp \in Nat
          /\ Hard(r) \in BOOLEAN
      <4>1. req[r].queue \in Seq(Keys) /\ req[r].queue # <<>>
        BY <3>1, LocalFacts DEF Shaped, Local
      <4> QED
        BY <3>1, <4>1, LocalFacts, AccountFacts
           DEF Shaped, Holding, Recording, Local, Generation, Hard
    <3>3. \A t \in Keys : bindings[t] # NoBinding => bindings'[t] # NoBinding
      BY <3>1, <3>2, PutBinds
    <3> QED
      BY <1>0, <3>1, <3>3, ExposedKept
  <2>4. CASE UNCHANGED bindings /\ ~(TurnPut(r) /\ ~UNCHANGED <<bindings, exposed>>)
    <3>1. UNCHANGED <<exposed, forgotten>>
      BY <1>2, <2>4
         DEF Handle, Arrive, ClientGone, FindOwner, OwnersFound, SelectExact,
             LookupThread, LookupEpoch, Pick, Stamp, Prebind, Resolve, Probe,
             CheckEpoch, CheckBinding, CheckOrder, Send, Succeed, Unauthorized,
             Refreshed, RefreshFailed, Reject, PassThrough, Unreachable, Fail,
             TurnEpoch, TurnPut, Completed, Uncompleted, BindEpoch, BindPut,
             Relayed, historyVars
    <3> QED
      BY <1>a, <2>4, <3>1
  <2>5. CASE ~UNCHANGED bindings /\ ~Prebind(r) /\ ~BindPut(r) /\ ~TurnPut(r)
    BY <1>2, <2>5
       DEF Handle, Arrive, ClientGone, FindOwner, OwnersFound, SelectExact,
           LookupThread, LookupEpoch, Pick, Stamp, Resolve, Probe,
           CheckEpoch, CheckBinding, CheckOrder, Send, Succeed, Unauthorized,
           Refreshed, RefreshFailed, Reject, PassThrough, Unreachable, Fail,
           TurnEpoch, Completed, Uncompleted, BindEpoch, Relayed, storeVars
  <2> QED
    BY <2>1, <2>2, <2>3, <2>4, <2>5
<1>3. ASSUME NEW a \in Accounts, Invalidate(a)
      PROVE  ExposedBound'
  <2>1. UNCHANGED exposed /\ forgotten \subseteq forgotten'
    BY <1>3 DEF Invalidate
  <2>2. \A t \in Keys : bindings[t] # NoBinding => t \in forgotten' \/ bindings'[t] # NoBinding
    BY <1>3 DEF Invalidate, InvalidateAccount, storeVars
  <2> QED
    BY <1>0, <2>1, <2>2, ExposedKept
<1>4. ASSUME NEW k \in Keys, ExpireBinding(k)
      PROVE  ExposedBound'
  BY <1>0, <1>4, ExposedKept DEF ExpireBinding, Expire, TypeInv, AffinityTypeOK
<1>5. ASSUME \/ \E a \in Accounts : End(a) \/ AuthFailure(a)
             \/ RouterChange \/ Restart
      PROVE  ExposedBound'
  BY <1>5, <1>a DEF End, AuthFailure, RouterChange, Restart, storeVars, historyVars
<1> QED
  BY <1>1, <1>2, <1>3, <1>4, <1>5 DEF Next

\* A turn state the client has seen can be continued: its owner is on record
\* unless the record was invalidated or expired.
THEOREM SeenTurnsAreOwned == Spec => []ExposedTurnsHaveOwners
<1>1. Spec => []TypeInv
  BY TypesHoldInitially, StepsKeepTypes, PTL DEF Spec
<1>2. Spec => []OwnerInv
  BY <1>1, OwnerInvInitially, StepsKeepOwners, PTL DEF Spec
<1>3. Init => ExposedBound
  BY DEF Init, ExposedBound
<1>4. Spec => []ExposedBound
  BY <1>1, <1>3, StepsKeepExposed, PTL DEF Spec
<1>5. TypeInv /\ OwnerInv /\ ExposedBound => ExposedTurnsHaveOwners
  BY DEF TypeInv, HistoryOK, OwnerInv, TokensOwned, ExposedBound, ExposedTurnsHaveOwners
<1> QED
  BY <1>1, <1>2, <1>4, <1>5, PTL

-----------------------------------------------------------------------------
(* Cohorts.                                                                *)

\* What a request that carries i knows of its cohort at a place of the handler.
CohortFit(i, place, local) ==
  /\ local.thread # NoKey => local.thread = i.key /\ local.owner = NoAccount
  /\ place \in {"new", "owners"} => local.thread = NoKey
  /\ place = "prebind" => ~i.hint
  /\ place \in {"bindEpoch", "bindPut"} => \A k \in DOMAIN local.queue :
       local.queue[k] \in SoftKeys => local.queue[k] = i.key /\ ~i.hint

CohortInv == \A r \in Requests : CohortFit(input[r], pc[r], req[r])

\* A request's cohort does not matter to another request's.
LEMMA CohortStep ==
  ASSUME TypeInv, CohortInv, NEW r \in Requests, NEW place, NEW local,
         Goto(r, place, local), \A q \in Requests \ {r} : input'[q] = input[q],
         CohortFit(input'[r], place, local)
  PROVE  CohortInv'
<1> SUFFICES ASSUME NEW q \in Requests
             PROVE  CohortFit(input[q], pc[q], req[q])'
  BY DEF CohortInv
<1>1. CASE q = r
  <2>1. pc'[q] = place /\ req'[q] = local
    BY <1>1 DEF Goto, TypeInv, ControlOK
  <2> QED
    BY <1>1, <2>1
<1>2. CASE q # r
  <2>1. pc'[q] = pc[q] /\ req'[q] = req[q] /\ input'[q] = input[q]
    BY <1>2 DEF Goto, TypeInv, ControlOK
  <2> QED
    BY <2>1 DEF CohortInv
<1> QED
  BY <1>1, <1>2

Elsewhere == PC \ {"new", "owners", "prebind", "bindEpoch", "bindPut"}

\* Most steps keep the thread and the owner, or drop the thread.
LEMMA CohortMove ==
  ASSUME TypeInv, CohortInv, NEW r \in Requests, UNCHANGED input,
         \E place \in Elsewhere : \E local :
           /\ Goto(r, place, local)
           /\ local.thread # NoKey =>
                local.thread = req[r].thread /\ local.owner = req[r].owner
  PROVE  CohortInv'
<1>0. PICK place \in Elsewhere : \E local :
           /\ Goto(r, place, local)
           /\ local.thread # NoKey =>
                local.thread = req[r].thread /\ local.owner = req[r].owner
  OBVIOUS
<1>1. PICK local :
           /\ Goto(r, place, local)
           /\ local.thread # NoKey =>
                local.thread = req[r].thread /\ local.owner = req[r].owner
  BY <1>0
<1>2. CohortFit(input[r], place, local)
  BY <1>1 DEF CohortInv, CohortFit, Elsewhere
<1> QED
  BY <1>1, <1>2, CohortStep

\* The steps that are written with Finish, Return, Reselect and Continue.
LEMMA CohortEnds ==
  ASSUME TypeInv, CohortInv, NEW r \in Requests, UNCHANGED input,
         \/ Finish(r)
         \/ \E place \in Elsewhere : Goto(r, place, req[r])
         \/ \E why : Reselect(r, why)
         \/ Continue(r, [req[r] EXCEPT !.attempt = 1])
  PROVE  CohortInv'
<1>0. req[r] \in Local
  BY LocalFacts
<1>1. CASE Finish(r)
  <2>1. Goto(r, "ended", Blank) /\ Blank.thread = NoKey /\ "ended" \in Elsewhere
    BY <1>1 DEF Finish, Blank, Elsewhere, PC
  <2> QED
    BY <2>1, CohortMove
<1>2. CASE \E place \in Elsewhere : Goto(r, place, req[r])
  BY <1>2, CohortMove
<1>3. CASE \E why : Reselect(r, why)
  <2>1. PICK why : Reselect(r, why)
    BY <1>3
  <2> DEFINE local == [req[r] EXCEPT !.thread = NoKey, !.found = NoBinding,
                        !.excluded = req[r].account, !.attempt = 1,
                        !.retry = why]
  <2>2. local.thread = NoKey
    BY <1>0 DEF Local
  <2>3. Goto(r, "pick", local) /\ "pick" \in Elsewhere
    BY <2>1 DEF Reselect, Elsewhere, PC, Selecting
  <2> HIDE DEF local
  <2> QED
    BY <2>2, <2>3, CohortMove
<1>4. CASE Continue(r, [req[r] EXCEPT !.attempt = 1])
  <2> DEFINE local == [req[r] EXCEPT !.attempt = 1]
  <2>1. local.thread = req[r].thread /\ local.owner = req[r].owner
    BY <1>0 DEF Local
  <2>2. Goto(r, "resolve", local) /\ "resolve" \in Elsewhere
    BY <1>4 DEF Continue, Elsewhere, PC
  <2> HIDE DEF local
  <2> QED
    BY <2>1, <2>2, CohortMove
<1> QED
  BY <1>1, <1>2, <1>3, <1>4

\* Only an unowned request takes its cohort's key for a thread.
LEMMA ArrivalCohort ==
  ASSUME TypeInv, CohortInv, NEW r \in Requests,
         Arrive(r) \/ FindOwner(r) \/ OwnersFound(r)
  PROVE  CohortInv'
<1>0. req[r] \in Local /\ CohortFit(input[r], pc[r], req[r])
  BY LocalFacts DEF CohortInv
<1>1. CASE Arrive(r)
  <2>1. PICK i \in Inputs[r] :
          /\ input' = [input EXCEPT ![r] = i]
          /\ Goto(r, "owners", [Blank EXCEPT !.todo = i.anchors])
    BY <1>1 DEF Arrive
  <2> DEFINE local == [Blank EXCEPT !.todo = i.anchors]
  <2>2. local.thread = NoKey
    BY DEF Blank
  <2>3. CohortFit(i, "owners", local)
    BY <2>2 DEF CohortFit
  <2>4. input'[r] = i /\ \A q \in Requests \ {r} : input'[q] = input[q]
    BY <2>1 DEF TypeInv
  <2> QED
    BY <2>1, <2>3, <2>4, CohortStep
<1>2. CASE FindOwner(r) /\ ~Finish(r)
  <2>1. pc[r] = "owners" /\ UNCHANGED input /\ req[r].thread = NoKey
    BY <1>0, <1>2 DEF FindOwner, CohortFit
  <2>2. PICK t, found :
          LET rest == [req[r] EXCEPT !.todo = @ \ {t}] IN
          \/ Goto(r, "owners", [rest EXCEPT !.missing = TRUE])
          \/ Goto(r, "owners", [rest EXCEPT !.owner = found.account])
    BY <1>2 DEF FindOwner
  <2> DEFINE rest == [req[r] EXCEPT !.todo = @ \ {t}]
  <2>3. /\ [rest EXCEPT !.missing = TRUE].thread = NoKey
        /\ [rest EXCEPT !.owner = found.account].thread = NoKey
    BY <1>0, <2>1 DEF Local
  <2>4. \A local : local.thread = NoKey => CohortFit(input[r], "owners", local)
    BY DEF CohortFit
  <2> QED
    BY <2>1, <2>2, <2>3, <2>4, CohortStep
<1>3. CASE OwnersFound(r) /\ ~Finish(r)
  <2> DEFINE owner == IF input[r].pin # NoAccount THEN input[r].pin ELSE req[r].owner
             exact == [req[r] EXCEPT !.owner = owner]
             fresh == [req[r] EXCEPT !.thread = input[r].key]
             place == IF input[r].key = NoKey THEN "pick" ELSE "lookup"
  <2>1. /\ pc[r] = "owners" /\ UNCHANGED input /\ req[r].thread = NoKey
        /\ IF owner # NoAccount THEN Goto(r, "exact", exact)
           ELSE Goto(r, place, fresh)
    BY <1>0, <1>3 DEF OwnersFound, CohortFit
  <2>2. exact.thread = NoKey
    BY <1>0, <2>1 DEF Local
  <2>3. fresh.thread = input[r].key /\ fresh.owner = req[r].owner
    BY <1>0 DEF Local
  <2>4. CohortFit(input[r], "exact", exact)
    BY <2>2 DEF CohortFit
  <2>5. owner = NoAccount => CohortFit(input[r], place, fresh)
    BY <2>3 DEF CohortFit
  <2> HIDE DEF exact, fresh, place
  <2> QED
    BY <2>1, <2>4, <2>5, CohortStep
<1>4. CASE Finish(r) /\ UNCHANGED input
  BY <1>4, CohortEnds
<1> QED
  BY <1>1, <1>2, <1>3, <1>4 DEF FindOwner, OwnersFound

\* Selecting keeps the thread; only a request that is not a hint binds it.
LEMMA SelectionCohort ==
  ASSUME TypeInv, CohortInv, NEW r \in Requests,
         \/ SelectExact(r) \/ LookupThread(r) \/ LookupEpoch(r) \/ Pick(r)
         \/ Stamp(r) \/ Prebind(r) \/ Resolve(r)
  PROVE  CohortInv'
<1>0. /\ req[r] \in Local /\ UNCHANGED input
      /\ CohortFit(input[r], pc[r], req[r])
  BY LocalFacts
     DEF CohortInv, SelectExact, LookupThread, LookupEpoch, Pick, Stamp, Prebind,
         Resolve
<1>1. CASE Finish(r)
  BY <1>0, <1>1, CohortEnds
<1>2. CASE SelectExact(r) /\ ~Finish(r)
  <2> DEFINE local == [req[r] EXCEPT !.account = req[r].owner, !.bound = TRUE]
  <2>1. local.thread = req[r].thread /\ local.owner = req[r].owner
    BY <1>0 DEF Local
  <2>2. Goto(r, "stamp", local) /\ "stamp" \in Elsewhere
    BY <1>2 DEF SelectExact, Elsewhere, PC, Selecting
  <2> HIDE DEF local
  <2> QED
    BY <1>0, <2>1, <2>2, CohortMove
<1>3. CASE LookupThread(r)
  <2>1. PICK found \in Lookup(req[r].thread) :
          Goto(r, IF found = NoBinding THEN "pick" ELSE "lookupEpoch",
               [req[r] EXCEPT !.found = found])
    BY <1>3 DEF LookupThread
  <2> DEFINE local == [req[r] EXCEPT !.found = found]
             place == IF found = NoBinding THEN "pick" ELSE "lookupEpoch"
  <2>2. local.thread = req[r].thread /\ local.owner = req[r].owner
    BY <1>0 DEF Local
  <2>3. place \in Elsewhere
    BY DEF Elsewhere, PC, Selecting
  <2> QED
    BY <1>0, <2>1, <2>2, <2>3, CohortMove
<1>4. CASE LookupEpoch(r)
  <2>1. PICK e : Goto(r, "pick", [req[r] EXCEPT !.generation = e])
    BY <1>4 DEF LookupEpoch
  <2> DEFINE local == [req[r] EXCEPT !.generation = e]
  <2>2. local.thread = req[r].thread /\ local.owner = req[r].owner
    BY <1>0 DEF Local
  <2>3. "pick" \in Elsewhere
    BY DEF Elsewhere, PC, Selecting
  <2> QED
    BY <1>0, <2>1, <2>2, <2>3, CohortMove
<1>5. CASE Pick(r) /\ ~Finish(r)
  <2>0. "resolve" \in Elsewhere /\ "stamp" \in Elsewhere /\ "relay" \in Elsewhere
    BY DEF Elsewhere, PC, Selecting
  <2>1. CASE Goto(r, "resolve", [req[r] EXCEPT !.account = req[r].found.account,
                                               !.bound = TRUE])
    <3> DEFINE local == [req[r] EXCEPT !.account = req[r].found.account, !.bound = TRUE]
    <3>1. local.thread = req[r].thread /\ local.owner = req[r].owner
      BY <1>0 DEF Local
    <3> QED
      BY <1>0, <2>0, <2>1, <3>1, CohortMove
  <2>2. ASSUME NEW a, Goto(r, "stamp", [req[r] EXCEPT !.account = a, !.bound = FALSE])
        PROVE  CohortInv'
    <3> DEFINE local == [req[r] EXCEPT !.account = a, !.bound = FALSE]
    <3>1. local.thread = req[r].thread /\ local.owner = req[r].owner
      BY <1>0 DEF Local
    <3> QED
      BY <1>0, <2>0, <2>2, <3>1, CohortMove
  <2>3. CASE Return(r, "relay", req[r])
    BY <1>0, <2>0, <2>3, CohortEnds DEF Return
  <2> QED
    BY <1>5, <2>1, <2>2, <2>3 DEF Pick, NoAlternate
<1>6. CASE Stamp(r)
  <2>1. PICK e :
          LET stamped == [req[r] EXCEPT !.generation = e] IN
          \/ Goto(r, "prebind", stamped) /\ ~input[r].hint
          \/ Goto(r, "resolve", stamped)
    BY <1>6 DEF Stamp, Continue
  <2> DEFINE local == [req[r] EXCEPT !.generation = e]
  <2>2. local.thread = req[r].thread /\ local.owner = req[r].owner
    BY <1>0 DEF Local
  <2>3. CASE Goto(r, "prebind", local) /\ ~input[r].hint
    <3>1. CohortFit(input[r], "prebind", local)
      BY <1>0, <2>2, <2>3 DEF CohortFit
    <3> QED
      BY <1>0, <2>3, <3>1, CohortStep
  <2>4. CASE Goto(r, "resolve", local)
    <3>1. "resolve" \in Elsewhere
      BY DEF Elsewhere, PC
    <3> QED
      BY <1>0, <2>2, <2>4, <3>1, CohortMove
  <2> QED
    BY <2>1, <2>3, <2>4
<1>7. CASE Prebind(r) /\ ~Finish(r)
  <2>1. Goto(r, "resolve", req[r]) /\ "resolve" \in Elsewhere
    BY <1>7 DEF Prebind, Elsewhere, PC
  <2> QED
    BY <1>0, <2>1, CohortEnds
<1>8. CASE Resolve(r) /\ ~Finish(r)
  <2> DEFINE local == [req[r] EXCEPT !.refreshed = FALSE]
  <2>1. local.thread = req[r].thread /\ local.owner = req[r].owner
    BY <1>0 DEF Local
  <2>2. Goto(r, "probe", local) /\ "probe" \in Elsewhere
    BY <1>8 DEF Resolve, Elsewhere, PC, Validating
  <2> QED
    BY <1>0, <2>1, <2>2, CohortMove
<1> QED
  BY <1>1, <1>2, <1>3, <1>4, <1>5, <1>6, <1>7, <1>8

\* The fence, the send and the answers keep the thread or drop it.
LEMMA AnswersCohort ==
  ASSUME TypeInv, CohortInv, NEW r \in Requests,
         \/ Probe(r) \/ CheckEpoch(r) \/ CheckBinding(r)
         \/ CheckOrder(r) \/ Send(r)
         \/ Succeed(r) \/ Unauthorized(r) \/ Refreshed(r) \/ RefreshFailed(r)
         \/ Reject(r) \/ PassThrough(r) \/ Unreachable(r) \/ Fail(r)
  PROVE  CohortInv'
<1>0. req[r] \in Local /\ UNCHANGED input
  BY LocalFacts
     DEF Probe, CheckEpoch, CheckBinding, CheckOrder, Send, Succeed, Unauthorized,
         Refreshed, RefreshFailed, Reject, PassThrough, Unreachable, Fail
<1>1. {"epoch", "order", "binding", "wire", "sent", "relay", "refresh",
       "turnEpoch", "streaming", "probe"} \subseteq Elsewhere
  BY DEF Elsewhere, PC, Validating, Recording
<1>2. ASSUME Stale(r) \/ Validated(r)
      PROVE  CohortInv'
  BY <1>0, <1>1, <1>2, CohortEnds DEF Stale, Validated, Return
<1>3. CASE Probe(r) \/ CheckEpoch(r) \/ CheckBinding(r) \/ CheckOrder(r)
  BY <1>0, <1>1, <1>2, <1>3, CohortEnds
     DEF Probe, CheckEpoch, CheckBinding, CheckOrder
<1>4. CASE Refreshed(r)
  <2> DEFINE local == [req[r] EXCEPT !.refreshed = TRUE]
  <2>1. local.thread = req[r].thread /\ local.owner = req[r].owner
    BY <1>0 DEF Local
  <2>2. Goto(r, "probe", local) /\ "probe" \in Elsewhere
    BY <1>1, <1>4 DEF Refreshed
  <2> QED
    BY <1>0, <2>1, <2>2, CohortMove
<1>5. CASE Send(r) \/ Succeed(r) \/ Unauthorized(r) \/ RefreshFailed(r)
             \/ Reject(r) \/ PassThrough(r) \/ Unreachable(r) \/ Fail(r)
  <2>1. \/ Finish(r)
        \/ \E place \in Elsewhere : Goto(r, place, req[r])
        \/ \E why : Reselect(r, why)
    BY <1>1, <1>5
       DEF Send, Succeed, Unauthorized, RefreshFailed, Reject, PassThrough,
           Unreachable, Fail, Return
  <2> QED
    BY <1>0, <2>1, CohortEnds
<1> QED
  BY <1>3, <1>4, <1>5

\* The only soft key a request binds after its terminal is its own.
LEMMA BindingCohort ==
  ASSUME TypeInv, CohortInv, NEW r \in Requests,
         \/ TurnEpoch(r) \/ TurnPut(r) \/ Completed(r) \/ Uncompleted(r)
         \/ BindEpoch(r) \/ BindPut(r) \/ Relayed(r)
  PROVE  CohortInv'
<1>0. /\ req[r] \in Local /\ UNCHANGED input
      /\ Shaped(pc[r], req[r])
      /\ CohortFit(input[r], pc[r], req[r])
  BY LocalFacts
     DEF CohortInv, TurnEpoch, TurnPut, Completed, Uncompleted, BindEpoch, BindPut,
         Relayed
<1>1. CASE Finish(r)
  BY <1>0, <1>1, CohortEnds
<1>2. CASE TurnPut(r) /\ ~Finish(r)
  <2>1. Goto(r, "streaming", req[r]) /\ "streaming" \in Elsewhere
    BY <1>2 DEF TurnPut, Return, Elsewhere, PC, Recording
  <2> QED
    BY <1>0, <2>1, CohortEnds
<1>3. CASE TurnEpoch(r)
  <2>1. PICK e : Goto(r, "turnPut", [req[r] EXCEPT !.stamp = e])
    BY <1>3 DEF TurnEpoch
  <2> DEFINE local == [req[r] EXCEPT !.stamp = e]
  <2>2. local.thread = req[r].thread /\ local.owner = req[r].owner
    BY <1>0 DEF Local
  <2>3. "turnPut" \in Elsewhere
    BY DEF Elsewhere, PC, Recording
  <2> QED
    BY <1>0, <2>1, <2>2, <2>3, CohortMove
<1>4. CASE BindEpoch(r)
  <2>1. PICK e : Goto(r, "bindPut", [req[r] EXCEPT !.stamp = e])
    BY <1>4 DEF BindEpoch
  <2> DEFINE local == [req[r] EXCEPT !.stamp = e]
  <2>2. /\ local.thread = req[r].thread /\ local.owner = req[r].owner
        /\ local.queue = req[r].queue
    BY <1>0 DEF Local
  <2>3. CohortFit(input[r], "bindPut", local)
    BY <1>0, <1>4, <2>2 DEF CohortFit, BindEpoch
  <2> QED
    BY <1>0, <2>1, <2>3, CohortStep
<1>5. CASE Completed(r)
  <2> DEFINE soft == IF input[r].key = NoKey \/ input[r].hint THEN <<>>
                     ELSE <<input[r].key>>
             queue == <<<<"response", r>>>> \o soft
             local == [req[r] EXCEPT !.queue = queue]
  <2>1. <<"response", r>> \notin SoftKeys
    BY DispatchAssumption DEF Tokens
  <2>2. \A k \in DOMAIN queue :
          queue[k] \in SoftKeys => queue[k] = input[r].key /\ ~input[r].hint
    <3>1. input[r].key # NoKey => input[r].key \in Keys
      BY LocalFacts DEF Keys
    <3>2. soft \in Seq(Keys) /\ Len(soft) \in 0..1
          /\ (Len(soft) = 1 => soft[1] = input[r].key /\ ~input[r].hint)
      BY <3>1
    <3>3. <<<<"response", r>>>> \in Seq(Keys)
      BY DEF Keys, Tokens
    <3> HIDE DEF soft
    <3>4. \A k \in DOMAIN queue : queue[k] = IF k = 1 THEN <<"response", r>> ELSE soft[k - 1]
      BY <3>2, <3>3
    <3>5. \A k \in DOMAIN queue : k \in 1..(1 + Len(soft))
      BY <3>2, <3>3
    <3> HIDE DEF queue
    <3>6. ASSUME NEW k \in DOMAIN queue, k # 1
          PROVE  queue[k] = input[r].key /\ ~input[r].hint
      BY <3>2, <3>4, <3>5, <3>6
    <3> QED
      BY <2>1, <3>4, <3>6
  <2> HIDE DEF queue
  <2>3. /\ local.thread = req[r].thread /\ local.owner = req[r].owner
        /\ local.queue = queue
    BY <1>0 DEF Local
  <2>4. Goto(r, "bindEpoch", local)
    BY <1>5 DEF Completed, queue
  <2> HIDE DEF local
  <2>5. CohortFit(input[r], "bindEpoch", local)
    BY <1>0, <2>2, <2>3 DEF CohortFit
  <2> QED
    BY <1>0, <2>4, <2>5, CohortStep
<1>6. CASE BindPut(r) /\ ~Finish(r)
  <2> DEFINE next == Tail(req[r].queue)
             local == [req[r] EXCEPT !.queue = next]
  <2>1. pc[r] = "bindPut" /\ Goto(r, "bindEpoch", local)
    BY <1>6 DEF BindPut
  <2>2. req[r].queue \in Seq(Keys) /\ req[r].queue # <<>>
    BY <1>0, <2>1 DEF Shaped, Local
  <2>3. ASSUME NEW k \in DOMAIN next
        PROVE  next[k] = req[r].queue[k + 1] /\ k + 1 \in DOMAIN req[r].queue
    BY <2>2
  <2> HIDE DEF next
  <2>4. /\ local.thread = req[r].thread /\ local.owner = req[r].owner
        /\ local.queue = next
    BY <1>0 DEF Local
  <2> HIDE DEF local
  <2>5. CohortFit(input[r], "bindEpoch", local)
    BY <1>0, <2>1, <2>3, <2>4 DEF CohortFit
  <2> QED
    BY <1>0, <2>1, <2>5, CohortStep
<1> QED
  BY <1>1, <1>2, <1>3, <1>4, <1>5, <1>6 DEF TurnPut, Uncompleted, Relayed

\* Every step keeps the invariant.
LEMMA StepsKeepCohorts == TypeInv /\ CohortInv /\ [Next]_vars => CohortInv'
<1> SUFFICES ASSUME TypeInv, CohortInv, [Next]_vars PROVE CohortInv'
  OBVIOUS
<1>1. CASE UNCHANGED <<pc, req, input>>
  BY <1>1 DEF CohortInv
<1>2. ASSUME NEW r \in Requests, Arrive(r) \/ Handle(r)
      PROVE  CohortInv'
  BY <1>2, ArrivalCohort, SelectionCohort, AnswersCohort, BindingCohort DEF Handle
<1>3. ASSUME NEW r \in Requests, ClientGone(r)
      PROVE  CohortInv'
  BY <1>3, CohortEnds DEF ClientGone
<1>4. CASE Restart
  <2>1. \A r \in Requests : /\ req'[r] = Blank /\ input'[r] = input[r]
                            /\ pc'[r] \in {"new", "ended"}
    BY <1>4 DEF Restart
  <2> QED
    BY <2>1 DEF CohortInv, CohortFit, Blank
<1>5. CASE \/ \E a \in Accounts : End(a) \/ AuthFailure(a) \/ Invalidate(a)
           \/ \E k \in Keys : ExpireBinding(k)
           \/ RouterChange
           \/ UNCHANGED vars
  BY <1>1, <1>5 DEF End, AuthFailure, Invalidate, ExpireBinding, RouterChange, vars
<1> QED
  BY <1>2, <1>3, <1>4, <1>5 DEF Next

MovesCohort(k) ==
  /\ bindings[k] # NoBinding /\ bindings'[k] # NoBinding
  /\ bindings'[k].account # bindings[k].account

\* A put is the only step that moves a binding, and with preserve it does not.
LEMMA PutMoves ==
  ASSUME TypeInv, NEW k \in Keys, NEW a, NEW g, NEW preserve \in BOOLEAN,
         Put(k, a, g, preserve), NEW t \in Keys, MovesCohort(t)
  PROVE  t = k /\ ~preserve
<1> DEFINE new == [account |-> a, generation |-> g]
<1>1. bindings' = bindings \/ bindings' = [bindings EXCEPT ![k] = new]
  BY DEF Put
<1>2. t \in DOMAIN bindings /\ k \in DOMAIN bindings
  BY DEF TypeInv, AffinityTypeOK
<1>3. new.account = a
  OBVIOUS
<1>4. preserve /\ bindings[k] # NoBinding /\ bindings[k].account # a =>
        bindings' = bindings
  BY DEF Put
<1> HIDE DEF new
<1>5. t = k /\ bindings'[k] = new
  BY <1>1, <1>2 DEF MovesCohort
<1> QED
  BY <1>3, <1>4, <1>5 DEF MovesCohort

\* A request with a hard owner does not move a shared cohort that is bound to
\* another account: a cohort moves only when a request of that cohort, which is
\* no hint and has no hard owner, binds it.
THEOREM CohortsOnlyMoveThemselves == Spec => CohortsStay
<1>0. Spec => []TypeInv
  BY TypesHoldInitially, StepsKeepTypes, PTL DEF Spec
<1>1. Init => CohortInv
  BY DEF Init, CohortInv, CohortFit, Blank
<1>2. Spec => []CohortInv
  BY <1>0, <1>1, StepsKeepCohorts, PTL DEF Spec
<1> DEFINE Moves ==
      \A k \in SoftKeys :
       bindings[k] # NoBinding /\ bindings'[k] # NoBinding
         /\ bindings'[k].account # bindings[k].account
       => \E r \in Requests : input[r].key = k /\ ~input[r].hint
            /\ pc[r] \in {"prebind", "bindPut"} /\ ~Hard(r)
<1>3. ASSUME TypeInv, CohortInv, Next
      PROVE  Moves
  <2> SUFFICES ASSUME NEW k \in SoftKeys, MovesCohort(k)
               PROVE  \E r \in Requests : input[r].key = k /\ ~input[r].hint
                        /\ pc[r] \in {"prebind", "bindPut"} /\ ~Hard(r)
    BY DEF MovesCohort
  <2>0. k \in Keys /\ k \notin Tokens
    BY DispatchAssumption DEF Keys
  <2>1. ASSUME NEW r \in Requests, Handle(r)
        PROVE  /\ Prebind(r) \/ BindPut(r)
               /\ input[r].key = k /\ ~input[r].hint /\ ~Hard(r)
    <3>0. /\ req[r] \in Local /\ Shaped(pc[r], req[r])
          /\ CohortFit(input[r], pc[r], req[r])
      BY <1>3, LocalFacts DEF CohortInv
    <3>1. bindings' # bindings
      BY DEF MovesCohort
    <3>2. Prebind(r) \/ BindPut(r) \/ TurnPut(r)
      BY <2>1, <3>1
         DEF Handle, FindOwner, OwnersFound, SelectExact, LookupThread, LookupEpoch,
             Pick, Stamp, Resolve, Probe, CheckEpoch, CheckBinding, CheckOrder, Send,
             Succeed, Unauthorized, Refreshed, RefreshFailed, Reject, PassThrough,
             Unreachable, Fail, TurnEpoch, Completed, Uncompleted, BindEpoch,
             Relayed, storeVars
    <3>3. CASE TurnPut(r)
      <4>1. Put(<<"turn", r>>, req[r].account, req[r].stamp, FALSE)
        BY <3>1, <3>3 DEF TurnPut
      <4>2. <<"turn", r>> \in Tokens /\ <<"turn", r>> \in Keys
        BY DEF Tokens, Keys
      <4> QED
        BY <1>3, <2>0, <4>1, <4>2, PutMoves
    <3>4. CASE Prebind(r)
      <4>1. /\ pc[r] = "prebind"
            /\ Put(req[r].thread, req[r].account, req[r].generation, FALSE)
        BY <3>1, <3>4 DEF Prebind
      <4>2. req[r].thread \in Keys /\ req[r].thread # NoKey
        BY <3>0, <4>1 DEF Shaped, Local, Keys
      <4>3. k = req[r].thread
        BY <1>3, <2>0, <4>1, <4>2, PutMoves
      <4> QED
        BY <3>0, <3>4, <4>1, <4>2, <4>3 DEF CohortFit, Hard
    <3>5. CASE BindPut(r)
      <4> DEFINE head == Head(req[r].queue)
      <4>1. /\ pc[r] = "bindPut"
            /\ Put(head, req[r].account, req[r].stamp, Hard(r))
        BY <3>1, <3>5 DEF BindPut
      <4>2. req[r].queue \in Seq(Keys) /\ req[r].queue # <<>>
        BY <3>0, <4>1 DEF Shaped, Local
      <4>3. head \in Keys /\ 1 \in DOMAIN req[r].queue /\ head = req[r].queue[1]
        BY <4>2
      <4> HIDE DEF head
      <4>4. Hard(r) \in BOOLEAN
        BY DEF Hard
      <4>5. k = head /\ ~Hard(r)
        BY <1>3, <2>0, <4>1, <4>3, <4>4, PutMoves
      <4> QED
        BY <3>0, <3>5, <4>1, <4>3, <4>5 DEF CohortFit
    <3> QED
      BY <3>2, <3>3, <3>4, <3>5
  <2>2. CASE \E r \in Requests : Handle(r)
    <3>1. PICK r \in Requests : Handle(r)
      BY <2>2
    <3> QED
      BY <2>1, <3>1 DEF Prebind, BindPut
  <2>3. CASE \E r \in Requests : Arrive(r) \/ ClientGone(r)
    BY <2>3 DEF Arrive, ClientGone, storeVars, MovesCohort
  <2>4. CASE \/ \E a \in Accounts : End(a) \/ AuthFailure(a) \/ Invalidate(a)
             \/ RouterChange \/ Restart
    BY <2>0, <2>4
       DEF End, AuthFailure, Invalidate, InvalidateAccount, RouterChange, Restart,
           storeVars, MovesCohort
  <2>5. CASE \E t \in Keys : ExpireBinding(t)
    BY <1>3, <2>0, <2>5
       DEF ExpireBinding, Expire, TypeInv, AffinityTypeOK, MovesCohort
  <2> QED
    BY <1>3, <2>2, <2>3, <2>4, <2>5 DEF Next
<1>4. TypeInv /\ CohortInv /\ [Next]_vars => [Moves]_vars
  BY <1>3
<1>5. [][Moves]_vars => CohortsStay
  BY PTL DEF CohortsStay
<1> QED
  BY <1>0, <1>2, <1>4, <1>5, PTL DEF Spec

-----------------------------------------------------------------------------
(* The fence.                                                              *)

InLoop == {"prebind", "resolve", "wire", "sent", "refresh"} \cup Validating
Checked == {"binding", "order", "wire", "sent"}

Fenced(place, local, epoch) ==
  /\ place \in {"owners", "lookup"} => local.found = NoBinding
  /\ place = "pick" /\ local.found # NoBinding => local.generation = epoch.selected
  /\ place \in InLoop => local.generation = epoch.selected
  /\ place \in Checked => local.generation = epoch.checked

FenceInv == \A r \in Requests : Fenced(pc[r], req[r], fence[r])

\* What the invariant is for.
LEMMA FenceInvImpliesFenced == FenceInv => FencedDispatch
BY DEF FenceInv, Fenced, FencedDispatch, InLoop, Checked

-----------------------------------------------------------------------------
(* How a step of one request keeps it.                                     *)

\* A step changes the place, the local variables and the fence of one request.
LEMMA FenceStep ==
  ASSUME TypeInv, FenceInv, NEW r \in Requests, NEW place, NEW local,
         Goto(r, place, local), Fenced(place, local, fence'[r]),
         \A q \in Requests \ {r} : fence'[q] = fence[q]
  PROVE  FenceInv'
<1>1. ASSUME NEW q \in Requests
      PROVE  Fenced(pc'[q], req'[q], fence'[q])
  <2>1. CASE q = r
    BY <2>1 DEF Goto, TypeInv, ControlOK
  <2>2. CASE q # r
    BY <2>2 DEF Goto, TypeInv, ControlOK, FenceInv
  <2> QED
    BY <2>1, <2>2
<1> QED
  BY <1>1 DEF FenceInv, Fenced

\* A step that leaves the fence alone.
LEMMA FenceMove ==
  ASSUME TypeInv, FenceInv, NEW r \in Requests, NEW place, NEW local,
         Goto(r, place, local), Fenced(place, local, fence[r]), UNCHANGED fence
  PROVE  FenceInv'
BY FenceStep

\* A request that ended, or whose answer is passed on, is past the fence.
LEMMA FenceEnds ==
  ASSUME TypeInv, FenceInv, NEW r \in Requests, NEW place, NEW local,
         place \in {"new", "exact", "lookupEpoch", "stamp", "relay", "ended"}
           \cup Recording,
         Goto(r, place, local), UNCHANGED fence
  PROVE  FenceInv'
<1>1. Fenced(place, local, fence[r])
  BY DEF Fenced, InLoop, Checked, Validating, Recording
<1> QED
  BY <1>1, FenceMove

\* Selecting again forgets the binding, and with it the generation.
LEMMA FenceReselect ==
  ASSUME TypeInv, FenceInv, NEW r \in Requests, NEW why, Reselect(r, why),
         \A q \in Requests \ {r} : fence'[q] = fence[q]
  PROVE  FenceInv'
<1> DEFINE local == [req[r] EXCEPT !.thread = NoKey, !.found = NoBinding,
                        !.excluded = req[r].account, !.attempt = 1,
                        !.retry = why]
<1>1. local.found = NoBinding
  BY LocalFacts DEF Local
<1>2. Fenced("pick", local, fence'[r])
  BY <1>1 DEF Fenced, InLoop, Checked, Validating
<1>3. Goto(r, "pick", local)
  BY DEF Reselect
<1> QED
  BY <1>2, <1>3, FenceStep

\* A stale selection is not sent, whatever the last check saw.
LEMMA FenceStale ==
  ASSUME TypeInv, FenceInv, NEW r \in Requests, Stale(r),
         \A q \in Requests \ {r} : fence'[q] = fence[q]
  PROVE  FenceInv'
<1>1. CASE \E why \in Retry : Reselect(r, why)
  BY <1>1, FenceReselect
<1>2. CASE Goto(r, "relay", req[r])
  <2>1. Fenced("relay", req[r], fence'[r])
    BY DEF Fenced, InLoop, Checked, Validating
  <2> QED
    BY <1>2, <2>1, FenceStep
<1>3. CASE Goto(r, "ended", Blank)
  <2>1. Fenced("ended", Blank, fence'[r])
    BY DEF Fenced, InLoop, Checked, Validating
  <2> QED
    BY <1>3, <2>1, FenceStep
<1> QED
  BY <1>1, <1>2, <1>3 DEF Stale, Retry, Return, Finish

\* A validated selection goes to the wire if its epoch was just checked.
LEMMA FenceValidated ==
  ASSUME TypeInv, FenceInv, NEW r \in Requests, pc[r] \in Validating,
         Validated(r),
         fence'[r].selected = fence[r].selected,
         fence'[r].checked = req[r].generation,
         \A q \in Requests \ {r} : fence'[q] = fence[q]
  PROVE  FenceInv'
<1>0. req[r].generation = fence[r].selected
  BY DEF FenceInv, Fenced, InLoop
<1>1. CASE Goto(r, "resolve", [req[r] EXCEPT !.attempt = 1])
  <2> DEFINE local == [req[r] EXCEPT !.attempt = 1]
  <2>1. local.generation = req[r].generation
    BY LocalFacts DEF Local
  <2>2. Fenced("resolve", local, fence'[r])
    BY <1>0, <2>1 DEF Fenced, InLoop, Checked, Validating
  <2> QED
    BY <1>1, <2>2, FenceStep
<1>2. CASE Goto(r, "wire", req[r])
  <2>1. Fenced("wire", req[r], fence'[r])
    BY <1>0 DEF Fenced, InLoop, Checked, Validating
  <2> QED
    BY <1>2, <2>1, FenceStep
<1> QED
  BY <1>1, <1>2 DEF Validated, Continue

-----------------------------------------------------------------------------
(* One lemma for each group of steps.                                      *)

\* Before the loop: the generation is read together with the selection.
LEMMA SelectionFenced ==
  ASSUME StoreMayFail = FALSE, TypeInv, FenceInv, NEW r \in Requests,
         \/ Arrive(r) \/ FindOwner(r) \/ OwnersFound(r)
         \/ SelectExact(r) \/ LookupThread(r) \/ LookupEpoch(r) \/ Pick(r)
         \/ Stamp(r) \/ Prebind(r)
  PROVE  FenceInv'
<1>0. /\ req[r] \in Local
      /\ Fenced(pc[r], req[r], fence[r])
      /\ fence \in [Requests -> [selected : Nat, checked : Nat]]
  BY LocalFacts DEF FenceInv, TypeInv, HistoryOK
<1>a. ASSUME NEW place \in {"owners", "lookup", "pick"}, NEW local,
             Goto(r, place, local), local.found = NoBinding, UNCHANGED fence
      PROVE  FenceInv'
  <2>1. Fenced(place, local, fence[r])
    BY <1>a DEF Fenced, InLoop, Checked, Validating
  <2> QED
    BY <1>a, <2>1, FenceMove
<1>1. CASE Finish(r) /\ UNCHANGED fence
  BY <1>1, FenceEnds DEF Finish
<1>2. CASE Arrive(r)
  <2>1. PICK i \in Inputs[r] : Goto(r, "owners", [Blank EXCEPT !.todo = i.anchors])
    BY <1>2 DEF Arrive
  <2>2. [Blank EXCEPT !.todo = i.anchors].found = NoBinding
    BY DEF Blank
  <2> QED
    BY <1>2, <1>a, <2>1, <2>2 DEF Arrive, historyVars
<1>3. CASE FindOwner(r) /\ ~Finish(r)
  <2>1. PICK t \in req[r].todo : \E found \in Lookup(t) :
          LET rest == [req[r] EXCEPT !.todo = @ \ {t}] IN
          \/ Goto(r, "owners", [rest EXCEPT !.missing = TRUE])
          \/ Goto(r, "owners", [rest EXCEPT !.owner = found.account])
    BY <1>3 DEF FindOwner
  <2>2. \A found : LET rest == [req[r] EXCEPT !.todo = @ \ {t}] IN
          /\ [rest EXCEPT !.missing = TRUE].found = req[r].found
          /\ [rest EXCEPT !.owner = found.account].found = req[r].found
    BY <1>0 DEF Local
  <2>3. req[r].found = NoBinding
    BY <1>0, <1>3 DEF FindOwner, Fenced
  <2> QED
    BY <1>3, <1>a, <2>1, <2>2, <2>3 DEF FindOwner, historyVars
<1>4. CASE OwnersFound(r) /\ ~Finish(r)
  <2>1. /\ UNCHANGED fence
        /\ req[r].found = NoBinding
        /\ \/ \E owner \in AccountOrNone : Goto(r, "exact", [req[r] EXCEPT !.owner = owner])
           \/ \E place \in {"pick", "lookup"} :
                Goto(r, place, [req[r] EXCEPT !.thread = input[r].key])
    BY <1>0, <1>4, LocalFacts DEF OwnersFound, Fenced, historyVars, Local
  <2>2. [req[r] EXCEPT !.thread = input[r].key].found = req[r].found
    BY <1>0 DEF Local
  <2> QED
    BY <1>a, <2>1, <2>2, FenceEnds
<1>5. CASE SelectExact(r)
  BY <1>5, FenceEnds DEF SelectExact, Finish, historyVars
<1>6. CASE LookupThread(r)
  <2>1. PICK found \in Lookup(req[r].thread) :
          Goto(r, IF found = NoBinding THEN "pick" ELSE "lookupEpoch",
               [req[r] EXCEPT !.found = found])
    BY <1>6 DEF LookupThread
  <2>2. [req[r] EXCEPT !.found = found].found = found /\ UNCHANGED fence
    BY <1>0, <1>6 DEF Local, LookupThread, historyVars
  <2> QED
    BY <1>a, <2>1, <2>2, FenceEnds
<1>7. CASE LookupEpoch(r)
  <2> DEFINE e == epochs[req[r].found.account]
             local == [req[r] EXCEPT !.generation = e]
  <2>1. Goto(r, "pick", local) /\ fence' = [fence EXCEPT ![r].selected = e]
    BY <1>7 DEF LookupEpoch, Epoch
  <2>2. fence'[r].selected = e /\ \A q \in Requests \ {r} : fence'[q] = fence[q]
    BY <1>0, <2>1
  <2>3. local.generation = e
    BY <1>0 DEF Local
  <2>4. Fenced("pick", local, fence'[r])
    BY <2>2, <2>3 DEF Fenced, InLoop, Checked, Validating
  <2> QED
    BY <2>1, <2>2, <2>4, FenceStep
<1>8. CASE Pick(r)
  <2>0. UNCHANGED fence /\ pc[r] = "pick"
    BY <1>8 DEF Pick, historyVars
  <2>1. CASE /\ KeepsBinding(r)
             /\ Goto(r, "resolve", [req[r] EXCEPT !.account = req[r].found.account,
                                                  !.bound = TRUE])
    <3> DEFINE local == [req[r] EXCEPT !.account = req[r].found.account,
                                       !.bound = TRUE]
    <3>1. local.generation = req[r].generation
      BY <1>0 DEF Local
    <3>2. Fenced("resolve", local, fence[r])
      BY <1>0, <2>0, <2>1, <3>1
         DEF KeepsBinding, Fenced, InLoop, Checked, Validating
    <3> QED
      BY <2>0, <2>1, <3>2, FenceMove
  <2>2. CASE \E a \in FreshChoices(req[r].excluded, NoAccount) :
               Goto(r, "stamp", [req[r] EXCEPT !.account = a, !.bound = FALSE])
    BY <2>0, <2>2, FenceEnds
  <2>3. CASE NoAlternate(r)
    BY <2>0, <2>3, FenceEnds DEF NoAlternate, Return, Finish
  <2> QED
    BY <1>8, <2>1, <2>2, <2>3 DEF Pick
<1>9. CASE Stamp(r)
  <2> DEFINE e == epochs[req[r].account]
             local == [req[r] EXCEPT !.generation = e]
  <2>1. /\ Goto(r, "prebind", local) \/ Goto(r, "resolve", local)
        /\ fence' = [fence EXCEPT ![r].selected = e]
    BY <1>9 DEF Stamp, Epoch, Continue
  <2>2. fence'[r].selected = e /\ \A q \in Requests \ {r} : fence'[q] = fence[q]
    BY <1>0, <2>1
  <2>3. local.generation = e
    BY <1>0 DEF Local
  <2>4. Fenced("prebind", local, fence'[r]) /\ Fenced("resolve", local, fence'[r])
    BY <2>2, <2>3 DEF Fenced, InLoop, Checked, Validating
  <2> QED
    BY <2>1, <2>2, <2>4, FenceStep
<1>10. CASE Prebind(r) /\ ~Finish(r)
  <2>1. Goto(r, "resolve", req[r]) /\ UNCHANGED fence /\ pc[r] = "prebind"
    BY <1>10 DEF Prebind, historyVars
  <2>2. Fenced("resolve", req[r], fence[r])
    BY <1>0, <2>1 DEF Fenced, InLoop, Checked, Validating
  <2> QED
    BY <2>1, <2>2, FenceMove
<1> QED
  BY <1>1, <1>2, <1>3, <1>4, <1>5, <1>6, <1>7, <1>8, <1>9, <1>10
     DEF FindOwner, OwnersFound, Prebind, historyVars

\* The loop: nothing reaches the wire between the check of the epoch and the
\* send but checks of other things.
LEMMA LoopFenced ==
  ASSUME StoreMayFail = FALSE, TypeInv, FenceInv, NEW r \in Requests,
         \/ Resolve(r) \/ Probe(r) \/ CheckEpoch(r) \/ CheckBinding(r)
         \/ CheckOrder(r) \/ Send(r)
  PROVE  FenceInv'
<1>0. /\ req[r] \in Local
      /\ Fenced(pc[r], req[r], fence[r])
      /\ fence \in [Requests -> [selected : Nat, checked : Nat]]
  BY LocalFacts DEF FenceInv, TypeInv, HistoryOK
<1>1. CASE Resolve(r)
  <2> DEFINE local == [req[r] EXCEPT !.refreshed = FALSE]
             e == epochs[req[r].account]
  <2>1. CASE Finish(r) /\ UNCHANGED fence
    BY <2>1, FenceEnds DEF Finish
  <2>2. CASE Goto(r, "probe", local) /\ fence' = [fence EXCEPT ![r].checked = e]
    <3>1. /\ fence'[r].selected = fence[r].selected
          /\ \A q \in Requests \ {r} : fence'[q] = fence[q]
      BY <1>0, <2>2
    <3>2. local.generation = req[r].generation
      BY <1>0 DEF Local
    <3>3. Fenced("probe", local, fence'[r])
      BY <1>0, <1>1, <3>1, <3>2 DEF Resolve, Fenced, InLoop, Checked, Validating
    <3> QED
      BY <2>2, <3>1, <3>3, FenceStep
  <2> QED
    BY <1>1, <2>1, <2>2 DEF Resolve
<1>2. CASE Probe(r)
  <2>0. UNCHANGED fence /\ pc[r] = "probe"
    BY <1>2 DEF Probe, historyVars
  <2>1. CASE Stale(r)
    BY <2>0, <2>1, FenceStale
  <2>2. CASE Goto(r, "epoch", req[r])
    <3>1. Fenced("epoch", req[r], fence[r])
      BY <1>0, <2>0 DEF Fenced, InLoop, Checked, Validating
    <3> QED
      BY <2>0, <2>2, <3>1, FenceMove
  <2> QED
    BY <1>2, <2>1, <2>2 DEF Probe
<1>3. CASE CheckEpoch(r)
  <2> DEFINE e == epochs[req[r].account]
  <2>0. pc[r] = "epoch" /\ fence' = [fence EXCEPT ![r].checked = e]
    BY <1>3 DEF CheckEpoch
  <2>1. /\ fence'[r].selected = fence[r].selected
        /\ fence'[r].checked = e
        /\ \A q \in Requests \ {r} : fence'[q] = fence[q]
    BY <1>0, <2>0
  <2>2. CASE Stale(r)
    BY <2>1, <2>2, FenceStale
  <2>3. CASE ~Stale(r)
    <3>1. /\ e = req[r].generation
          /\ \/ \E place \in {"order", "binding"} : Goto(r, place, req[r])
             \/ Validated(r)
      BY <1>3, <2>3 DEF CheckEpoch, Epoch, EpochHolds
    <3>2. \A place \in {"order", "binding"} : Fenced(place, req[r], fence'[r])
      BY <1>0, <2>0, <2>1, <3>1 DEF Fenced, InLoop, Checked, Validating
    <3>3. pc[r] \in Validating
      BY <2>0 DEF Validating
    <3> QED
      BY <2>1, <3>1, <3>2, <3>3, FenceStep, FenceValidated
  <2> QED
    BY <2>2, <2>3
<1>4. CASE CheckBinding(r) \/ CheckOrder(r)
  <2>1. /\ UNCHANGED fence
        /\ pc[r] \in {"binding", "order"} /\ pc[r] \in Validating
        /\ Stale(r) \/ Validated(r)
    BY <1>4 DEF CheckBinding, CheckOrder, historyVars, Validating
  <2>2. fence[r].checked = req[r].generation
    BY <1>0, <2>1 DEF Fenced, Checked
  <2> QED
    BY <2>1, <2>2, FenceStale, FenceValidated
<1>5. CASE Send(r)
  <2>0. UNCHANGED fence /\ pc[r] = "wire"
    BY <1>5 DEF Send
  <2>1. CASE Goto(r, "sent", req[r])
    <3>1. Fenced("sent", req[r], fence[r])
      BY <1>0, <2>0 DEF Fenced, InLoop, Checked, Validating
    <3> QED
      BY <2>0, <2>1, <3>1, FenceMove
  <2>2. CASE Finish(r)
    BY <2>0, <2>2, FenceEnds DEF Finish
  <2> QED
    BY <1>5, <2>1, <2>2 DEF Send
<1> QED
  BY <1>1, <1>2, <1>3, <1>4, <1>5

\* After the answer: a refresh goes back through the fence, everything else
\* selects again or is past it.
LEMMA AnswersFenced ==
  ASSUME TypeInv, FenceInv, NEW r \in Requests,
         \/ Succeed(r) \/ Unauthorized(r) \/ Refreshed(r) \/ RefreshFailed(r)
         \/ Reject(r) \/ PassThrough(r) \/ Unreachable(r) \/ Fail(r)
         \/ TurnEpoch(r) \/ TurnPut(r) \/ Completed(r) \/ Uncompleted(r)
         \/ BindEpoch(r) \/ BindPut(r) \/ Relayed(r) \/ ClientGone(r)
  PROVE  FenceInv'
<1>0. /\ req[r] \in Local
      /\ Fenced(pc[r], req[r], fence[r])
      /\ fence \in [Requests -> [selected : Nat, checked : Nat]]
  BY LocalFacts DEF FenceInv, TypeInv, HistoryOK
<1>1. CASE Refreshed(r)
  <2> DEFINE local == [req[r] EXCEPT !.refreshed = TRUE]
             e == epochs[req[r].account]
  <2>1. Goto(r, "probe", local) /\ fence' = [fence EXCEPT ![r].checked = e]
    BY <1>1 DEF Refreshed
  <2>2. /\ fence'[r].selected = fence[r].selected
        /\ \A q \in Requests \ {r} : fence'[q] = fence[q]
    BY <1>0, <2>1
  <2>3. local.generation = req[r].generation
    BY <1>0 DEF Local
  <2>4. Fenced("probe", local, fence'[r])
    BY <1>0, <1>1, <2>2, <2>3 DEF Refreshed, Fenced, InLoop, Checked, Validating
  <2> QED
    BY <2>1, <2>2, <2>4, FenceStep
<1>2. CASE ~Refreshed(r)
  <2>1. UNCHANGED fence
    BY <1>2
       DEF Succeed, Unauthorized, RefreshFailed, Reject, PassThrough,
           Unreachable, Fail, TurnEpoch, TurnPut, Completed, Uncompleted,
           BindEpoch, BindPut, Relayed, ClientGone, historyVars
  <2>2. CASE Unauthorized(r) /\ Goto(r, "refresh", req[r])
    <3>1. Fenced("refresh", req[r], fence[r])
      BY <1>0, <2>2 DEF Unauthorized, Fenced, InLoop, Checked, Validating
    <3> QED
      BY <2>1, <2>2, <3>1, FenceMove
  <2>3. CASE \E why \in Retry : Reselect(r, why)
    BY <2>1, <2>3, FenceReselect
  <2>4. \/ Unauthorized(r) /\ Goto(r, "refresh", req[r])
        \/ \E why \in Retry : Reselect(r, why)
        \/ \E place \in {"relay", "ended"} \cup Recording : \E local :
             Goto(r, place, local)
    BY <1>2
       DEF Succeed, Unauthorized, RefreshFailed, Reject, PassThrough,
           Unreachable, Fail, TurnEpoch, TurnPut, Completed, Uncompleted,
           BindEpoch, BindPut, Relayed, ClientGone, Return, Finish, Retry,
           Recording
  <2> QED
    BY <2>1, <2>2, <2>3, <2>4, FenceEnds
<1> QED
  BY <1>1, <1>2

\* Every step keeps the invariant.
LEMMA StepsKeepFence ==
  ASSUME StoreMayFail = FALSE
  PROVE  TypeInv /\ FenceInv /\ [Next]_vars => FenceInv'
<1> SUFFICES ASSUME TypeInv, FenceInv, [Next]_vars PROVE FenceInv'
  OBVIOUS
<1>1. CASE UNCHANGED <<pc, req, fence>>
  BY <1>1 DEF FenceInv, Fenced
<1>2. ASSUME NEW r \in Requests, Arrive(r) \/ Handle(r) \/ ClientGone(r)
      PROVE  FenceInv'
  BY <1>2, SelectionFenced, LoopFenced, AnswersFenced DEF Handle
<1>3. ASSUME NEW a \in Accounts, End(a) \/ AuthFailure(a) \/ Invalidate(a)
      PROVE  FenceInv'
  BY <1>1, <1>3 DEF End, AuthFailure, Invalidate, historyVars
<1>4. CASE RouterChange \/ \E k \in Keys : ExpireBinding(k)
  BY <1>1, <1>4 DEF RouterChange, ExpireBinding, historyVars
<1>5. CASE Restart
  <2>1. \A r \in Requests : pc'[r] \in {"new", "ended"}
    BY <1>5 DEF Restart
  <2> QED
    BY <2>1 DEF FenceInv, Fenced, InLoop, Checked, Validating
<1>6. CASE UNCHANGED vars
  BY <1>1, <1>6 DEF vars, historyVars
<1> QED
  BY <1>2, <1>3, <1>4, <1>5, <1>6 DEF Next

\* A request is on the wire only in the epoch its account was selected in:
\* the fence of validate_selection holds for every request, through every
\* re-selection and refresh, as long as the epochs can be read.
THEOREM FenceHolds ==
  ASSUME StoreMayFail = FALSE
  PROVE  Spec => []FencedDispatch
<1>1. Spec => []TypeInv
  BY TypesHoldInitially, StepsKeepTypes, PTL DEF Spec
<1>2. Init => FenceInv
  BY DEF Init, FenceInv, Fenced, InLoop, Checked, Validating
<1>3. TypeInv /\ FenceInv /\ [Next]_vars => FenceInv'
  BY StepsKeepFence
<1> QED
  BY <1>1, <1>2, <1>3, FenceInvImpliesFenced, PTL DEF Spec

-----------------------------------------------------------------------------
(* Dispatch implements Continuity, for every instance of Dispatch, and its *)
(* retries keep their bounds.                                              *)
(*                                                                         *)
(* The loop retries in four places (a stale selection, a refresh after a   *)
(* 401, a rejection, an unreachable upstream), each with its own guard.    *)
(* What they may do together follows from one fact per place of the        *)
(* handler: how often the request was sent by then (SendsFit), where a     *)
(* body that cannot move was answered (AnswersFit), and where a lease may  *)
(* be held (LeaseFit).  The count of begun work follows from the last.     *)
(*                                                                         *)
(* With these and the above every step is a step of Continuity or          *)
(* changes nothing it speaks of: an arrival asks, a send contacts an       *)
(* account, a success issues, any other answer refuses.                    *)
-----------------------------------------------------------------------------
(* The inductive invariant.                                                *)

Unsent == {"new", "owners", "exact", "lookup", "lookupEpoch"}
Trying == {"pick", "stamp", "prebind", "resolve", "wire"}
Sent == {"sent", "refresh", "relay"} \cup Recording

\* What a request that carries i has sent, s, at a place of the handler.
SendsFit(i, s, place, local) ==
  /\ place \in Unsent => s = <<>>
  /\ place \in Trying => Len(s) <= local.attempt
  /\ place \in Validating =>
       IF local.refreshed THEN local.attempt = 0 /\ Len(s) <= 1
       ELSE Len(s) <= local.attempt
  /\ place \in Sent => Len(s) <= local.attempt + 1
  /\ place = "refresh" => local.attempt = 0
  /\ place = "sent" => \E k \in DOMAIN s : s[k] = local.account
  /\ place \notin {"new", "owners", "ended"} =>
       /\ i.anchors # {} \/ i.pin # NoAccount => local.owner # NoAccount
       /\ local.owner # NoAccount => \A k \in DOMAIN s : s[k] = local.owner

\* The answers x it has heard: a body that cannot move stays where it was heard.
AnswersFit(i, x, place, local) ==
  /\ place \in Unsent => x = {}
  /\ x # {} /\ ~i.portable =>
       \/ place = "ended"
       \/ /\ \A y \in x : y[1] = local.account
          /\ \/ place \in Sent \ {"sent"}
             \/ place \in Validating /\ local.refreshed
             \/ place \in Validating \cup {"resolve", "wire", "sent"} /\ local.attempt = 1

\* The lease l it holds: only while its answer is worked on, or on the way to
\* a selection that drops it.
LeaseFit(l, place, local) ==
  l # NoAccount =>
    \/ place \in Sent
    \/ place \in Validating /\ local.refreshed
    \/ place \in {"pick", "stamp"} /\ local.thread = NoKey /\ local.found = NoBinding

Track(i, s, x, l, place, local) ==
  SendsFit(i, s, place, local) /\ AnswersFit(i, x, place, local)
    /\ LeaseFit(l, place, local)

\* What holds of a request wherever it is.
Settled(i, s, x) ==
  /\ Len(s) <= 2
  /\ i.anchors # {} \/ i.pin # NoAccount => \A j, k \in DOMAIN s : s[j] = s[k]
  /\ ~i.portable => \A y, z \in x : y[1] = z[1]

RetryInv ==
  \A r \in Requests :
    /\ Track(input[r], sends[r], answered[r], lease[r], pc[r], req[r])
    /\ Settled(input[r], sends[r], answered[r])

Leased(a) == {r \in Requests : lease[r] = a}

Counted ==
  \A a \in Accounts :
    IsFiniteSet(Leased(a)) /\ inflight[a] = Cardinality(Leased(a)) + ends[a]

-----------------------------------------------------------------------------
(* How a step of one request keeps it.                                     *)

\* What one request has sent and heard does not matter to another.
LEMMA RetryStep ==
  ASSUME TypeInv, RetryInv, NEW r \in Requests, NEW place, NEW local,
         Goto(r, place, local),
         \A q \in Requests \ {r} :
           /\ input'[q] = input[q] /\ sends'[q] = sends[q]
           /\ answered'[q] = answered[q] /\ lease'[q] = lease[q],
         Track(input'[r], sends'[r], answered'[r], lease'[r], place, local),
         Settled(input'[r], sends'[r], answered'[r])
  PROVE  RetryInv'
<1> SUFFICES ASSUME NEW q \in Requests
             PROVE  /\ Track(input[q], sends[q], answered[q], lease[q], pc[q], req[q])'
                    /\ Settled(input[q], sends[q], answered[q])'
  BY DEF RetryInv
<1>1. CASE q = r
  <2>1. pc'[q] = place /\ req'[q] = local
    BY <1>1 DEF Goto, TypeInv, ControlOK
  <2> QED
    BY <1>1, <2>1
<1>2. CASE q # r
  <2>1. pc'[q] = pc[q] /\ req'[q] = req[q]
    BY <1>2 DEF Goto, TypeInv, ControlOK
  <2>2. /\ input'[q] = input[q] /\ sends'[q] = sends[q]
        /\ answered'[q] = answered[q] /\ lease'[q] = lease[q]
    BY <1>2
  <2>3. /\ Track(input[q], sends[q], answered[q], lease[q], pc[q], req[q])
        /\ Settled(input[q], sends[q], answered[q])
    BY DEF RetryInv
  <2> QED
    BY <2>1, <2>2, <2>3
<1> QED
  BY <1>1, <1>2

\* A step that sends nothing and hears nothing keeps its lease or drops it.
LEMMA RetryMove ==
  ASSUME TypeInv, RetryInv, NEW r \in Requests, NEW place, NEW local,
         Goto(r, place, local), UNCHANGED <<input, sends, answered>>,
         SendsFit(input[r], sends[r], place, local),
         AnswersFit(input[r], answered[r], place, local),
         \/ UNCHANGED lease /\ LeaseFit(lease[r], place, local)
         \/ Release(r)
  PROVE  RetryInv'
<1>1. /\ \A q \in Requests \ {r} : lease'[q] = lease[q]
      /\ LeaseFit(lease'[r], place, local)
  <2>1. CASE Release(r)
    BY <2>1 DEF Release, TypeInv, WorkOK, LeaseFit
  <2> QED
    BY <2>1
<1>2. Settled(input'[r], sends'[r], answered'[r])
  BY DEF RetryInv
<1>3. Track(input'[r], sends'[r], answered'[r], lease'[r], place, local)
  BY <1>1 DEF Track
<1> QED
  BY <1>1, <1>2, <1>3, RetryStep

\* What the invariant says of one request.
LEMMA RetryFacts ==
  ASSUME TypeInv, RetryInv, NEW r \in Requests
  PROVE  /\ SendsFit(input[r], sends[r], pc[r], req[r])
         /\ AnswersFit(input[r], answered[r], pc[r], req[r])
         /\ LeaseFit(lease[r], pc[r], req[r])
         /\ Settled(input[r], sends[r], answered[r])
         /\ Len(sends[r]) \in Nat /\ sends[r] \in Seq(Members)
BY DEF RetryInv, Track, TypeInv, HistoryOK

\* A request that ends may have sent and heard what it has.
LEMMA RetryFinish ==
  ASSUME TypeInv, RetryInv, NEW r \in Requests, Finish(r),
         UNCHANGED <<input, sends, answered>>
  PROVE  RetryInv'
<1>1. /\ SendsFit(input[r], sends[r], "ended", Blank)
      /\ AnswersFit(input[r], answered[r], "ended", Blank)
  BY DEF SendsFit, AnswersFit, Unsent, Trying, Validating, Sent, Recording
<1>2. Goto(r, "ended", Blank) /\ Release(r)
  BY DEF Finish
<1> QED
  BY <1>1, <1>2, RetryMove

\* A request selects again after at most one send, and only when it has no
\* owner and its body may move or nothing has been answered.
LEMMA RetryReselect ==
  ASSUME TypeInv, RetryInv, NEW r \in Requests,
         pc[r] \in Validating \cup {"sent"}, ~Hard(r), Len(sends[r]) <= 1,
         NEW why, Reselect(r, why), UNCHANGED <<input, sends>>,
         \A q \in Requests \ {r} : answered'[q] = answered[q],
         input[r].portable \/ answered'[r] = {}
  PROVE  RetryInv'
<1> DEFINE local == [req[r] EXCEPT !.thread = NoKey, !.found = NoBinding,
                        !.excluded = req[r].account, !.attempt = 1,
                        !.retry = why]
<1>1. /\ local.owner = req[r].owner /\ local.attempt = 1
      /\ local.thread = NoKey /\ local.found = NoBinding
  BY LocalFacts DEF Local
<1>2. Goto(r, "pick", local) /\ UNCHANGED lease
  BY DEF Reselect, workVars
<1> HIDE DEF local
<1>3. /\ SendsFit(input[r], sends[r], "pick", local)
      /\ LeaseFit(lease[r], "pick", local)
  BY <1>1, RetryFacts
     DEF SendsFit, LeaseFit, Unsent, Trying, Validating, Sent, Recording, Hard
<1>4. AnswersFit(input[r], answered'[r], "pick", local)
  BY DEF AnswersFit, Unsent
<1>5. Settled(input[r], sends[r], answered'[r])
  BY RetryFacts DEF Settled
<1>6. Track(input'[r], sends'[r], answered'[r], lease'[r], "pick", local)
  BY <1>2, <1>3, <1>4 DEF Track
<1> QED
  BY <1>2, <1>5, <1>6, RetryStep

\* A stale selection.
LEMMA StaleRetry ==
  ASSUME TypeInv, RetryInv, NEW r \in Requests, pc[r] \in Validating, Stale(r),
         UNCHANGED <<input, sends, answered>>
  PROVE  RetryInv'
<1>0. req[r] \in Local /\ Len(sends[r]) \in Nat
  BY LocalFacts, RetryFacts
<1>1. CASE Return(r, "relay", req[r]) /\ req[r].refreshed
  <2>1. /\ SendsFit(input[r], sends[r], "relay", req[r])
        /\ AnswersFit(input[r], answered[r], "relay", req[r])
        /\ LeaseFit(lease[r], "relay", req[r])
    BY <1>0, <1>1, RetryFacts
       DEF SendsFit, AnswersFit, LeaseFit, Unsent, Trying, Validating, Sent, Recording
  <2> QED
    BY <1>1, <2>1, RetryMove DEF Return
<1>2. CASE Finish(r)
  BY <1>2, RetryFinish
<1>3. CASE /\ ~Hard(r) /\ req[r].refreshed /\ input[r].portable
           /\ Reselect(r, "unauthorized")
  <2>1. Len(sends[r]) <= 1
    BY <1>3, RetryFacts DEF SendsFit
  <2> QED
    BY <1>3, <2>1, RetryReselect
<1>4. CASE /\ ~Hard(r) /\ ~req[r].refreshed /\ req[r].attempt = 0
           /\ Reselect(r, "stale")
  <2>1. Len(sends[r]) <= 1
    BY <1>0, <1>4, RetryFacts DEF SendsFit
  <2>2. input[r].portable \/ answered[r] = {}
    BY <1>4, RetryFacts DEF AnswersFit, Validating, Sent, Recording
  <2> QED
    BY <1>4, <2>1, <2>2, RetryReselect
<1> QED
  BY <1>1, <1>2, <1>3, <1>4 DEF Stale

\* A validated selection.
LEMMA ValidatedRetry ==
  ASSUME TypeInv, RetryInv, NEW r \in Requests, pc[r] \in Validating, Validated(r),
         UNCHANGED <<input, sends, answered>>
  PROVE  RetryInv'
<1>0. req[r] \in Local /\ Len(sends[r]) \in Nat
  BY LocalFacts, RetryFacts
<1>1. CASE req[r].refreshed
  <2> DEFINE local == [req[r] EXCEPT !.attempt = 1]
  <2>1. /\ local.owner = req[r].owner /\ local.account = req[r].account
        /\ local.attempt = 1
    BY <1>0 DEF Local
  <2>2. Goto(r, "resolve", local) /\ Release(r)
    BY <1>1 DEF Validated, Continue
  <2> HIDE DEF local
  <2>3. /\ SendsFit(input[r], sends[r], "resolve", local)
        /\ AnswersFit(input[r], answered[r], "resolve", local)
    BY <1>1, <2>1, RetryFacts
       DEF SendsFit, AnswersFit, Unsent, Trying, Validating, Sent, Recording
  <2> QED
    BY <2>2, <2>3, RetryMove
<1>2. CASE ~req[r].refreshed
  <2>1. Goto(r, "wire", req[r]) /\ UNCHANGED lease
    BY <1>2 DEF Validated, workVars
  <2>2. /\ SendsFit(input[r], sends[r], "wire", req[r])
        /\ AnswersFit(input[r], answered[r], "wire", req[r])
        /\ LeaseFit(lease[r], "wire", req[r])
    BY <1>2, RetryFacts
       DEF SendsFit, AnswersFit, LeaseFit, Unsent, Trying, Validating, Sent, Recording
  <2> QED
    BY <2>1, <2>2, RetryMove
<1> QED
  BY <1>1, <1>2

-----------------------------------------------------------------------------
(* One lemma for each group of steps.                                      *)

\* Arriving, and finding the hard owner: an anchored or pinned request has one.
LEMMA ArrivalRetry ==
  ASSUME TypeInv, OwnerInv, RetryInv, NEW r \in Requests,
         Arrive(r) \/ FindOwner(r) \/ OwnersFound(r)
  PROVE  RetryInv'
<1>0. /\ req[r] \in Local /\ UNCHANGED <<sends, answered>>
      /\ sends[r] = <<>> /\ answered[r] = {} /\ lease[r] = NoAccount
      /\ Fits(r, pc[r], req[r])
  BY LocalFacts, RetryFacts
     DEF OwnerInv, Arrive, FindOwner, OwnersFound, historyVars, SendsFit, AnswersFit,
         LeaseFit, Unsent, Sent, Validating, Recording
<1>a. \A i, local : LeaseFit(lease[r], "owners", local)
        /\ SendsFit(i, sends[r], "owners", local)
        /\ AnswersFit(i, answered[r], "owners", local)
  BY <1>0 DEF SendsFit, AnswersFit, LeaseFit, Trying, Validating, Sent, Recording
<1>1. CASE Arrive(r)
  <2>1. PICK i \in Inputs[r] :
          /\ input' = [input EXCEPT ![r] = i]
          /\ Goto(r, "owners", [Blank EXCEPT !.todo = i.anchors])
    BY <1>1 DEF Arrive
  <2>2. UNCHANGED lease
    BY <1>1 DEF Arrive, workVars
  <2>3. input'[r] = i /\ \A q \in Requests \ {r} : input'[q] = input[q]
    BY <2>1 DEF TypeInv
  <2>4. Settled(i, sends[r], answered[r])
    BY <1>0 DEF Settled
  <2> QED
    BY <1>0, <1>a, <2>1, <2>2, <2>3, <2>4, RetryStep DEF Track
<1>2. CASE FindOwner(r)
  <2>1. UNCHANGED input
    BY <1>2 DEF FindOwner
  <2>2. Finish(r) \/ \E local : Goto(r, "owners", local) /\ UNCHANGED lease
    BY <1>2 DEF FindOwner, workVars
  <2> QED
    BY <1>0, <1>a, <2>1, <2>2, RetryFinish, RetryMove
<1>3. CASE OwnersFound(r) /\ ~Finish(r)
  <2> DEFINE pin == input[r].pin
             owner == IF pin # NoAccount THEN pin ELSE req[r].owner
             exact == [req[r] EXCEPT !.owner = owner]
             fresh == [req[r] EXCEPT !.thread = input[r].key]
             place == IF input[r].key = NoKey THEN "pick" ELSE "lookup"
  <2>1. /\ ~Refused(r) /\ pc[r] = "owners" /\ req[r].todo = {}
        /\ UNCHANGED <<input, lease>>
        /\ IF owner # NoAccount THEN Goto(r, "exact", exact)
           ELSE Goto(r, place, fresh)
    BY <1>3 DEF OwnersFound, workVars
  <2>2. exact.owner = owner /\ fresh.owner = req[r].owner /\ fresh.attempt \in 0..1
    BY <1>0 DEF Local
  <2>3. input[r].anchors # {} => req[r].owner # NoAccount
    BY <1>0, <2>1 DEF Fits, Refused
  <2>4. CASE owner # NoAccount
    <3>1. /\ SendsFit(input[r], sends[r], "exact", exact)
          /\ AnswersFit(input[r], answered[r], "exact", exact)
          /\ LeaseFit(lease[r], "exact", exact)
      BY <1>0, <2>2, <2>4
         DEF SendsFit, AnswersFit, LeaseFit, Unsent, Trying, Validating, Sent, Recording
    <3> QED
      BY <1>0, <2>1, <2>4, <3>1, RetryMove
  <2>5. CASE owner = NoAccount
    <3>1. /\ SendsFit(input[r], sends[r], place, fresh)
          /\ AnswersFit(input[r], answered[r], place, fresh)
          /\ LeaseFit(lease[r], place, fresh)
      BY <1>0, <2>2, <2>3, <2>5
         DEF SendsFit, AnswersFit, LeaseFit, Unsent, Trying, Validating, Sent, Recording
    <3> QED
      BY <1>0, <2>1, <2>5, <3>1, RetryMove
  <2> QED
    BY <2>4, <2>5
<1>4. CASE OwnersFound(r) /\ Finish(r)
  BY <1>0, <1>4, RetryFinish DEF OwnersFound
<1> QED
  BY <1>1, <1>2, <1>3, <1>4

\* From a place before the wire to the next, the attempt and the owner stay.
LEMMA TryingFits ==
  ASSUME TypeInv, RetryInv, NEW r \in Requests, NEW place, NEW local,
         \/ pc[r] \in {"exact", "lookup", "lookupEpoch"}
         \/ pc[r] \in Trying \ {"resolve", "wire"},
         \/ place \in {"lookupEpoch", "pick", "stamp"}
              /\ pc[r] \in {"exact", "lookup", "lookupEpoch", "pick"}
         \/ place \in {"prebind", "resolve"}
              /\ (pc[r] = "stamp" => local.account = req[r].account),
         place = "lookupEpoch" => pc[r] = "lookup",
         local.owner = req[r].owner, local.attempt = req[r].attempt
  PROVE  /\ SendsFit(input[r], sends[r], place, local)
         /\ AnswersFit(input[r], answered[r], place, local)
<1>1. req[r].attempt \in 0..1
  BY LocalFacts DEF Local
<1>2. /\ SendsFit(input[r], sends[r], pc[r], req[r])
      /\ AnswersFit(input[r], answered[r], pc[r], req[r])
  BY RetryFacts
<1>3. SendsFit(input[r], sends[r], place, local)
  BY <1>1, <1>2 DEF SendsFit, Unsent, Trying, Validating, Sent, Recording
<1>4. AnswersFit(input[r], answered[r], place, local)
  BY <1>2 DEF AnswersFit, Unsent, Trying, Validating, Sent, Recording
<1> QED
  BY <1>3, <1>4

\* Selecting: nothing is sent, and only a selection without a thread has a
\* lease to drop.
LEMMA SelectionRetry ==
  ASSUME TypeInv, RetryInv, NEW r \in Requests,
         \/ SelectExact(r) \/ LookupThread(r) \/ LookupEpoch(r) \/ Pick(r)
         \/ Stamp(r) \/ Prebind(r)
  PROVE  RetryInv'
<1>0. /\ req[r] \in Local /\ LeaseFit(lease[r], pc[r], req[r])
      /\ UNCHANGED <<input, sends, answered>>
  BY LocalFacts, RetryFacts
     DEF SelectExact, LookupThread, LookupEpoch, Pick, Stamp, Prebind, historyVars
<1>1. CASE Finish(r)
  BY <1>0, <1>1, RetryFinish
<1>2. CASE SelectExact(r) /\ ~Finish(r)
  <2> DEFINE local == [req[r] EXCEPT !.account = req[r].owner, !.bound = TRUE]
  <2>1. local.owner = req[r].owner /\ local.attempt = req[r].attempt
    BY <1>0 DEF Local
  <2>2. pc[r] = "exact" /\ Goto(r, "stamp", local) /\ UNCHANGED lease
    BY <1>2 DEF SelectExact, workVars
  <2> HIDE DEF local
  <2>3. LeaseFit(lease[r], "stamp", local)
    BY <1>0, <2>2 DEF LeaseFit, Sent, Validating, Recording
  <2>4. /\ SendsFit(input[r], sends[r], "stamp", local)
        /\ AnswersFit(input[r], answered[r], "stamp", local)
    BY <2>1, <2>2, TryingFits
  <2> QED
    BY <1>0, <2>2, <2>3, <2>4, RetryMove
<1>3. CASE LookupThread(r)
  <2>1. PICK found \in Lookup(req[r].thread) :
          Goto(r, IF found = NoBinding THEN "pick" ELSE "lookupEpoch",
               [req[r] EXCEPT !.found = found])
    BY <1>3 DEF LookupThread
  <2> DEFINE local == [req[r] EXCEPT !.found = found]
             place == IF found = NoBinding THEN "pick" ELSE "lookupEpoch"
  <2>2. local.owner = req[r].owner /\ local.attempt = req[r].attempt
    BY <1>0 DEF Local
  <2>3. pc[r] = "lookup" /\ Goto(r, place, local) /\ UNCHANGED lease
    BY <1>3, <2>1 DEF LookupThread, workVars
  <2>4. place \in {"pick", "lookupEpoch"}
    OBVIOUS
  <2> HIDE DEF local, place
  <2>5. LeaseFit(lease[r], place, local)
    BY <1>0, <2>3 DEF LeaseFit, Sent, Validating, Recording
  <2>6. /\ SendsFit(input[r], sends[r], place, local)
        /\ AnswersFit(input[r], answered[r], place, local)
    BY <2>2, <2>3, <2>4, TryingFits
  <2> QED
    BY <1>0, <2>3, <2>5, <2>6, RetryMove
<1>4. CASE LookupEpoch(r)
  <2>1. PICK e \in Epoch(req[r].found.account) :
          Goto(r, "pick", [req[r] EXCEPT !.generation = e])
    BY <1>4 DEF LookupEpoch
  <2> DEFINE local == [req[r] EXCEPT !.generation = e]
  <2>2. local.owner = req[r].owner /\ local.attempt = req[r].attempt
    BY <1>0 DEF Local
  <2>3. pc[r] = "lookupEpoch" /\ Goto(r, "pick", local) /\ UNCHANGED lease
    BY <1>4, <2>1 DEF LookupEpoch, workVars
  <2> HIDE DEF local
  <2>4. LeaseFit(lease[r], "pick", local)
    BY <1>0, <2>3 DEF LeaseFit, Sent, Validating, Recording
  <2>5. /\ SendsFit(input[r], sends[r], "pick", local)
        /\ AnswersFit(input[r], answered[r], "pick", local)
    BY <2>2, <2>3, TryingFits
  <2> QED
    BY <1>0, <2>3, <2>4, <2>5, RetryMove
<1>5. CASE Pick(r) /\ ~Finish(r)
  <2>1. CASE /\ req[r].found # NoBinding /\ UNCHANGED workVars
             /\ Goto(r, "resolve", [req[r] EXCEPT !.account = req[r].found.account,
                                                  !.bound = TRUE])
    <3> DEFINE local == [req[r] EXCEPT !.account = req[r].found.account, !.bound = TRUE]
    <3>1. local.owner = req[r].owner /\ local.attempt = req[r].attempt
      BY <1>0 DEF Local
    <3>2. pc[r] = "pick" /\ Goto(r, "resolve", local) /\ UNCHANGED lease
      BY <1>5, <2>1 DEF Pick, workVars
    <3> HIDE DEF local
    <3>3. LeaseFit(lease[r], "resolve", local)
      BY <1>0, <2>1, <3>2 DEF LeaseFit, Sent, Validating, Recording
    <3>4. /\ SendsFit(input[r], sends[r], "resolve", local)
          /\ AnswersFit(input[r], answered[r], "resolve", local)
      BY <3>1, <3>2, TryingFits DEF Trying
    <3> QED
      BY <1>0, <3>2, <3>3, <3>4, RetryMove
  <2>2. ASSUME NEW a, UNCHANGED workVars,
               Goto(r, "stamp", [req[r] EXCEPT !.account = a, !.bound = FALSE])
        PROVE  RetryInv'
    <3> DEFINE local == [req[r] EXCEPT !.account = a, !.bound = FALSE]
    <3>1. /\ local.owner = req[r].owner /\ local.attempt = req[r].attempt
          /\ local.thread = req[r].thread /\ local.found = req[r].found
      BY <1>0 DEF Local
    <3>2. pc[r] = "pick" /\ Goto(r, "stamp", local) /\ UNCHANGED lease
      BY <1>5, <2>2 DEF Pick, workVars
    <3> HIDE DEF local
    <3>3. LeaseFit(lease[r], "stamp", local)
      BY <1>0, <3>1, <3>2 DEF LeaseFit, Sent, Validating, Recording
    <3>4. /\ SendsFit(input[r], sends[r], "stamp", local)
          /\ AnswersFit(input[r], answered[r], "stamp", local)
      BY <3>1, <3>2, TryingFits DEF Trying
    <3> QED
      BY <1>0, <3>2, <3>3, <3>4, RetryMove
  <2>3. CASE Return(r, "relay", req[r])
    <3>1. pc[r] = "pick" /\ req[r].attempt \in 0..1
      BY <1>0, <1>5 DEF Pick, Local
    <3>2. /\ SendsFit(input[r], sends[r], "relay", req[r])
          /\ AnswersFit(input[r], answered[r], "relay", req[r])
          /\ LeaseFit(lease[r], "relay", req[r])
      BY <3>1, RetryFacts
         DEF SendsFit, AnswersFit, LeaseFit, Unsent, Trying, Validating, Sent, Recording
    <3> QED
      BY <1>0, <2>3, <3>2, RetryMove DEF Return
  <2> QED
    BY <1>5, <2>1, <2>2, <2>3 DEF Pick, NoAlternate, KeepsBinding
<1>6. CASE Stamp(r)
  <2>1. PICK e \in Epoch(req[r].account) :
          LET stamped == [req[r] EXCEPT !.generation = e] IN
          \/ Goto(r, "prebind", stamped) /\ req[r].thread # NoKey /\ UNCHANGED workVars
          \/ Goto(r, "resolve", stamped) /\ Release(r)
    BY <1>6 DEF Stamp, Continue
  <2> DEFINE local == [req[r] EXCEPT !.generation = e]
  <2>2. /\ local.owner = req[r].owner /\ local.attempt = req[r].attempt
        /\ local.account = req[r].account
    BY <1>0 DEF Local
  <2>3. /\ pc[r] = "stamp"
        /\ \/ Goto(r, "prebind", local) /\ req[r].thread # NoKey /\ UNCHANGED lease
           \/ Goto(r, "resolve", local) /\ Release(r)
    BY <1>6, <2>1 DEF Stamp, workVars
  <2> HIDE DEF local
  <2>4. req[r].thread # NoKey => LeaseFit(lease[r], "prebind", local)
    BY <1>0, <2>3 DEF LeaseFit, Sent, Validating, Recording
  <2>5. \A place \in {"prebind", "resolve"} :
          /\ SendsFit(input[r], sends[r], place, local)
          /\ AnswersFit(input[r], answered[r], place, local)
    BY <2>2, <2>3, TryingFits DEF Trying
  <2> QED
    BY <1>0, <2>3, <2>4, <2>5, RetryMove
<1>7. CASE Prebind(r) /\ ~Finish(r)
  <2>1. pc[r] = "prebind" /\ Goto(r, "resolve", req[r]) /\ UNCHANGED lease
    BY <1>7 DEF Prebind, workVars
  <2>2. LeaseFit(lease[r], "resolve", req[r])
    BY <1>0, <2>1 DEF LeaseFit, Sent, Validating, Recording
  <2>3. /\ SendsFit(input[r], sends[r], "resolve", req[r])
        /\ AnswersFit(input[r], answered[r], "resolve", req[r])
    BY <2>1, TryingFits DEF Trying
  <2> QED
    BY <1>0, <2>1, <2>2, <2>3, RetryMove
<1> QED
  BY <1>1, <1>2, <1>3, <1>4, <1>5, <1>6, <1>7

\* The fence, and the send behind it.
LEMMA FenceRetry ==
  ASSUME TypeInv, OwnerInv, RetryInv, NEW r \in Requests,
         \/ Resolve(r) \/ Probe(r) \/ CheckEpoch(r) \/ CheckBinding(r)
         \/ CheckOrder(r) \/ Send(r)
  PROVE  RetryInv'
<1>0. /\ req[r] \in Local /\ Len(sends[r]) \in Nat /\ req[r].attempt \in 0..1
      /\ UNCHANGED <<input, answered>>
      /\ ~Send(r) => UNCHANGED sends
  BY LocalFacts, RetryFacts
     DEF Local, Resolve, Probe, CheckEpoch, CheckBinding, CheckOrder, Send, historyVars
<1>1. CASE Resolve(r) /\ ~Finish(r)
  <2> DEFINE local == [req[r] EXCEPT !.refreshed = FALSE]
  <2>1. /\ local.owner = req[r].owner /\ local.attempt = req[r].attempt
        /\ local.account = req[r].account /\ local.refreshed = FALSE
    BY <1>0 DEF Local
  <2>2. /\ pc[r] = "resolve" /\ Goto(r, "probe", local)
        /\ UNCHANGED <<lease, sends>>
    BY <1>1 DEF Resolve, workVars
  <2> HIDE DEF local
  <2>3. /\ SendsFit(input[r], sends[r], "probe", local)
        /\ AnswersFit(input[r], answered[r], "probe", local)
        /\ LeaseFit(lease[r], "probe", local)
    BY <2>1, <2>2, RetryFacts
       DEF SendsFit, AnswersFit, LeaseFit, Unsent, Trying, Validating, Sent, Recording
  <2> QED
    BY <1>0, <2>2, <2>3, RetryMove
<1>2. CASE Probe(r) \/ CheckEpoch(r) \/ CheckBinding(r) \/ CheckOrder(r)
  <2>1. pc[r] \in Validating /\ UNCHANGED sends
    BY <1>2 DEF Probe, CheckEpoch, CheckBinding, CheckOrder, Validating, historyVars
  <2>2. \/ Stale(r)
        \/ Validated(r)
        \/ \E place \in {"epoch", "order", "binding"} :
             Goto(r, place, req[r]) /\ UNCHANGED lease
    BY <1>2 DEF Probe, CheckEpoch, CheckBinding, CheckOrder, workVars
  <2>3. \A place \in {"epoch", "order", "binding"} :
          /\ SendsFit(input[r], sends[r], place, req[r])
          /\ AnswersFit(input[r], answered[r], place, req[r])
          /\ LeaseFit(lease[r], place, req[r])
    BY <2>1, RetryFacts
       DEF SendsFit, AnswersFit, LeaseFit, Unsent, Trying, Validating, Sent, Recording
  <2> QED
    BY <1>0, <2>1, <2>2, <2>3, StaleRetry, ValidatedRetry, RetryMove
<1>3. CASE Send(r) /\ ~Finish(r)
  <2> DEFINE a == req[r].account
  <2>1. /\ pc[r] = "wire" /\ Goto(r, "sent", req[r])
        /\ sends' = [sends EXCEPT ![r] = Append(@, a)]
        /\ lease' = [lease EXCEPT ![r] = a]
    BY <1>3 DEF Send
  <2>2. a \in Members
    BY <2>1, LocalFacts DEF Shaped, Holding
  <2>3. /\ sends'[r] = Append(sends[r], a) /\ sends[r] \in Seq(Members)
        /\ \A q \in Requests \ {r} : sends'[q] = sends[q] /\ lease'[q] = lease[q]
    BY <2>1 DEF TypeInv, HistoryOK, WorkOK
  <2> DEFINE s == sends'[r]
  <2>4. /\ Len(s) = Len(sends[r]) + 1 /\ DOMAIN s = 1..Len(s)
        /\ s[Len(s)] = a
        /\ \A k \in DOMAIN s : k = Len(s) \/ (k \in DOMAIN sends[r] /\ s[k] = sends[r][k])
    BY <2>2, <2>3
  <2>5. req[r].owner # NoAccount => a = req[r].owner
    BY <2>1 DEF OwnerInv, Fits, Selected, Holding
  <2> HIDE DEF s, a
  <2>6. SendsFit(input[r], sends[r], "wire", req[r])
    BY <2>1, RetryFacts
  <2>7. SendsFit(input[r], s, "sent", req[r])
    <3>1. Len(s) <= req[r].attempt + 1 /\ Len(s) \in DOMAIN s
      BY <1>0, <2>4, <2>6 DEF SendsFit, Trying
    <3>2. /\ input[r].anchors # {} \/ input[r].pin # NoAccount => req[r].owner # NoAccount
          /\ req[r].owner # NoAccount => \A k \in DOMAIN s : s[k] = req[r].owner
      BY <2>4, <2>5, <2>6 DEF SendsFit
    <3>3. \E k \in DOMAIN s : s[k] = req[r].account
      BY <2>4, <3>1 DEF a
    <3> QED
      BY <3>1, <3>2, <3>3 DEF SendsFit, Unsent, Trying, Validating, Sent, Recording
  <2>8. AnswersFit(input[r], answered[r], "sent", req[r])
    BY <2>1, RetryFacts DEF AnswersFit, Unsent, Sent, Validating, Recording
  <2>9. LeaseFit(lease'[r], "sent", req[r])
    BY DEF LeaseFit, Sent
  <2>10. Settled(input[r], s, answered[r])
    <3>1. Len(s) <= 2
      BY <1>0, <2>7 DEF SendsFit, Sent
    <3>2. input[r].anchors # {} \/ input[r].pin # NoAccount =>
            \A j, k \in DOMAIN s : s[j] = s[k]
      BY <2>7 DEF SendsFit
    <3> QED
      BY <3>1, <3>2, RetryFacts DEF Settled
  <2> QED
    BY <1>0, <2>1, <2>3, <2>7, <2>8, <2>9, <2>10, RetryStep DEF s, Track
<1>4. CASE (Resolve(r) \/ Send(r)) /\ Finish(r)
  <2>1. UNCHANGED sends
    <3>1. pc'[r] = "ended"
      BY <1>4 DEF Finish, Goto, TypeInv, ControlOK
    <3> QED
      BY <1>0, <1>4, <3>1 DEF Send, Goto, TypeInv, ControlOK
  <2> QED
    BY <1>0, <1>4, <2>1, RetryFinish
<1> QED
  BY <1>1, <1>2, <1>3, <1>4

\* Once an answer is worked on, what was sent and heard stays as it is.
LEMMA SentFits ==
  ASSUME TypeInv, RetryInv, NEW r \in Requests, NEW place, NEW local,
         pc[r] \in Sent, place \in Sent \ {"sent"},
         place = "refresh" => req[r].attempt = 0,
         local.owner = req[r].owner, local.attempt = req[r].attempt,
         local.account = req[r].account
  PROVE  /\ SendsFit(input[r], sends[r], place, local)
         /\ AnswersFit(input[r], answered[r], place, local)
         /\ \A verdict :
              AnswersFit(input[r], answered[r] \cup {<<req[r].account, verdict>>},
                         place, local)
         /\ LeaseFit(lease[r], place, local)
<1>1. /\ SendsFit(input[r], sends[r], pc[r], req[r])
      /\ AnswersFit(input[r], answered[r], pc[r], req[r])
  BY RetryFacts
<1>2. SendsFit(input[r], sends[r], place, local)
  BY <1>1 DEF SendsFit, Unsent, Trying, Validating, Sent, Recording
<1>3. ~input[r].portable => \A y \in answered[r] : y[1] = req[r].account
  BY <1>1 DEF AnswersFit, Sent, Recording
<1>4. AnswersFit(input[r], answered[r], place, local)
  BY <1>3 DEF AnswersFit, Unsent, Sent, Recording
<1>5. ASSUME NEW verdict
      PROVE  AnswersFit(input[r], answered[r] \cup {<<req[r].account, verdict>>},
                        place, local)
  BY <1>3 DEF AnswersFit, Unsent, Sent, Recording
<1>6. LeaseFit(lease[r], place, local)
  BY DEF LeaseFit
<1> QED
  BY <1>2, <1>4, <1>5, <1>6

\* An account's answer is heard.
LEMMA HearsRetry ==
  ASSUME TypeInv, RetryInv, NEW r \in Requests, pc[r] = "sent",
         NEW verdict \in Verdict, Hears(r, verdict)
  PROVE  /\ answered'[r] = answered[r] \cup {<<req[r].account, verdict>>}
         /\ \A q \in Requests \ {r} : answered'[q] = answered[q]
         /\ Settled(input[r], sends[r], answered'[r])
<1>1. answered'[r] = answered[r] \cup {<<req[r].account, verdict>>}
      /\ \A q \in Requests \ {r} : answered'[q] = answered[q]
  BY DEF Hears, TypeInv, HistoryOK
<1>2. ~input[r].portable => \A y \in answered[r] : y[1] = req[r].account
  BY RetryFacts DEF AnswersFit, Sent, Validating, Recording
<1>3. Settled(input[r], sends[r], answered'[r])
  BY <1>1, <1>2, RetryFacts DEF Settled
<1> QED
  BY <1>1, <1>3

\* An answer, and what is done about it.
LEMMA AnswersRetry ==
  ASSUME TypeInv, RetryInv, NEW r \in Requests,
         \/ Succeed(r) \/ Unauthorized(r) \/ Refreshed(r) \/ RefreshFailed(r)
         \/ Reject(r) \/ PassThrough(r) \/ Unreachable(r) \/ Fail(r)
  PROVE  RetryInv'
<1>0. /\ req[r] \in Local /\ Len(sends[r]) \in Nat /\ req[r].attempt \in 0..1
      /\ UNCHANGED <<input, sends>>
      /\ pc[r] \in Sent
  BY LocalFacts, RetryFacts
     DEF Local, Succeed, Unauthorized, Refreshed, RefreshFailed, Reject,
         PassThrough, Unreachable, Fail, Sent, historyVars
<1>1. CASE Succeed(r) \/ Unauthorized(r) \/ PassThrough(r)
  <2>1. PICK verdict \in Verdict : Hears(r, verdict)
    BY <1>1 DEF Succeed, Unauthorized, PassThrough, Verdict
  <2>2. pc[r] = "sent"
    BY <1>1 DEF Succeed, Unauthorized, PassThrough
  <2>3. PICK place \in Sent \ {"sent"} :
          /\ Goto(r, place, req[r]) /\ UNCHANGED lease
          /\ place = "refresh" => req[r].attempt = 0
    BY <1>1 DEF Succeed, Unauthorized, PassThrough, Return, workVars, Sent, Recording
  <2>a. /\ SendsFit(input[r], sends[r], place, req[r])
        /\ AnswersFit(input[r], answered[r] \cup {<<req[r].account, verdict>>},
                      place, req[r])
        /\ LeaseFit(lease[r], place, req[r])
    BY <1>0, <2>3, SentFits
  <2>b. answered'[r] = answered[r] \cup {<<req[r].account, verdict>>}
    BY <2>1, <2>2, HearsRetry
  <2>4. Track(input'[r], sends'[r], answered'[r], lease'[r], place, req[r])
    BY <1>0, <2>3, <2>a, <2>b DEF Track
  <2> QED
    BY <1>0, <2>1, <2>2, <2>3, <2>4, HearsRetry, RetryStep
<1>2. CASE Reject(r)
  <2>1. Hears(r, "other") /\ "other" \in Verdict /\ pc[r] = "sent"
    BY <1>2 DEF Reject, Verdict
  <2>2. CASE MayMove(r) /\ Reselect(r, "rejected")
    <3>1. Len(sends[r]) <= 1
      BY <1>0, <2>1, <2>2, RetryFacts DEF SendsFit, Sent, MayMove
    <3> QED
      BY <1>0, <2>1, <2>2, <3>1, HearsRetry, RetryReselect DEF MayMove
  <2>3. CASE Return(r, "relay", req[r])
    <3>1. /\ Goto(r, "relay", req[r]) /\ UNCHANGED lease
          /\ "relay" \in Sent \ {"sent"}
      BY <2>3 DEF Return, Sent
    <3>a. /\ SendsFit(input[r], sends[r], "relay", req[r])
          /\ AnswersFit(input[r], answered[r] \cup {<<req[r].account, "other">>},
                        "relay", req[r])
          /\ LeaseFit(lease[r], "relay", req[r])
      BY <1>0, <3>1, SentFits
    <3>b. answered'[r] = answered[r] \cup {<<req[r].account, "other">>}
      BY <2>1, HearsRetry
    <3>2. Track(input'[r], sends'[r], answered'[r], lease'[r], "relay", req[r])
      BY <1>0, <3>1, <3>a, <3>b DEF Track
    <3> QED
      BY <1>0, <2>1, <3>1, <3>2, HearsRetry, RetryStep
  <2> QED
    BY <1>2, <2>2, <2>3 DEF Reject
<1>3. CASE Refreshed(r)
  <2> DEFINE local == [req[r] EXCEPT !.refreshed = TRUE]
  <2>1. /\ local.owner = req[r].owner /\ local.attempt = req[r].attempt
        /\ local.account = req[r].account /\ local.refreshed = TRUE
    BY <1>0 DEF Local
  <2>2. pc[r] = "refresh" /\ Goto(r, "probe", local) /\ UNCHANGED <<lease, answered>>
    BY <1>3 DEF Refreshed, workVars
  <2> HIDE DEF local
  <2>3. /\ SendsFit(input[r], sends[r], "probe", local)
        /\ AnswersFit(input[r], answered[r], "probe", local)
        /\ LeaseFit(lease[r], "probe", local)
    BY <1>0, <2>1, <2>2, RetryFacts
       DEF SendsFit, AnswersFit, LeaseFit, Unsent, Trying, Validating, Sent, Recording
  <2> QED
    BY <1>0, <2>2, <2>3, RetryMove
<1>4. CASE RefreshFailed(r)
  <2>1. /\ Goto(r, "relay", req[r]) /\ UNCHANGED <<lease, answered>>
        /\ "relay" \in Sent \ {"sent"}
    BY <1>4 DEF RefreshFailed, Return, historyVars, Sent
  <2> QED
    BY <1>0, <2>1, SentFits, RetryMove
<1>5. CASE Unreachable(r) \/ Fail(r)
  <2>1. pc[r] = "sent" /\ UNCHANGED answered
    BY <1>5 DEF Unreachable, Fail, historyVars
  <2>2. CASE Finish(r)
    BY <1>0, <2>1, <2>2, RetryFinish
  <2>3. CASE req[r].attempt = 0 /\ ~Hard(r) /\ Reselect(r, "unreachable")
    <3>1. /\ Len(sends[r]) <= 1
          /\ input[r].portable \/ answered[r] = {}
      BY <1>0, <2>1, <2>3, RetryFacts
         DEF SendsFit, AnswersFit, Sent, Recording, Validating
    <3> QED
      BY <1>0, <2>1, <2>3, <3>1, RetryReselect
  <2> QED
    BY <1>5, <2>2, <2>3 DEF Unreachable, Fail
<1> QED
  BY <1>1, <1>2, <1>3, <1>4, <1>5

\* Binding what the answer established.
LEMMA BindingRetry ==
  ASSUME TypeInv, RetryInv, NEW r \in Requests,
         \/ TurnEpoch(r) \/ TurnPut(r) \/ Completed(r) \/ Uncompleted(r)
         \/ BindEpoch(r) \/ BindPut(r) \/ Relayed(r)
  PROVE  RetryInv'
<1>0. req[r] \in Local /\ UNCHANGED <<input, sends, answered>>
  BY LocalFacts
     DEF TurnEpoch, TurnPut, Completed, Uncompleted, BindEpoch, BindPut, Relayed,
         historyVars
<1>1. CASE Finish(r)
  BY <1>0, <1>1, RetryFinish
<1>2. ASSUME pc[r] \in Recording, NEW place \in Recording, NEW local,
             local.owner = req[r].owner, local.attempt = req[r].attempt,
             local.account = req[r].account, Goto(r, place, local), UNCHANGED lease
      PROVE  RetryInv'
  <2>1. pc[r] \in Sent /\ place \in Sent \ {"sent"} /\ place # "refresh"
    BY <1>2 DEF Sent, Recording
  <2>2. /\ SendsFit(input[r], sends[r], place, local)
        /\ AnswersFit(input[r], answered[r], place, local)
        /\ LeaseFit(lease[r], place, local)
    BY <1>2, <2>1, SentFits
  <2> QED
    BY <1>0, <1>2, <2>2, RetryMove
<1>3. CASE TurnEpoch(r) \/ BindEpoch(r)
  <2>1. PICK e \in Epoch(req[r].account), place \in {"turnPut", "bindPut"} :
          Goto(r, place, [req[r] EXCEPT !.stamp = e])
    BY <1>3 DEF TurnEpoch, BindEpoch
  <2>2. pc[r] \in Recording /\ place \in Recording /\ UNCHANGED lease
    BY <1>3, <2>1 DEF TurnEpoch, BindEpoch, Recording, workVars
  <2> DEFINE local == [req[r] EXCEPT !.stamp = e]
  <2>3. /\ local.owner = req[r].owner /\ local.attempt = req[r].attempt
        /\ local.account = req[r].account
    BY <1>0 DEF Local
  <2> QED
    BY <1>2, <2>1, <2>2, <2>3
<1>4. CASE TurnPut(r) /\ ~Finish(r)
  BY <1>2, <1>4 DEF TurnPut, Return, Recording
<1>5. CASE Completed(r) \/ (BindPut(r) /\ ~Finish(r))
  <2>1. PICK queue : Goto(r, "bindEpoch", [req[r] EXCEPT !.queue = queue])
    BY <1>5 DEF Completed, BindPut
  <2>2. pc[r] \in Recording /\ "bindEpoch" \in Recording /\ UNCHANGED lease
    BY <1>5 DEF Completed, BindPut, Recording, workVars
  <2> DEFINE local == [req[r] EXCEPT !.queue = queue]
  <2>3. /\ local.owner = req[r].owner /\ local.attempt = req[r].attempt
        /\ local.account = req[r].account
    BY <1>0 DEF Local
  <2> QED
    BY <1>2, <2>1, <2>2, <2>3
<1> QED
  BY <1>1, <1>3, <1>4, <1>5 DEF TurnPut, Uncompleted, Relayed

\* Nothing outside a handler sends, answers, or takes up work.
LEMMA EnvironmentRetry ==
  ASSUME TypeInv, RetryInv,
         \/ \E r \in Requests : ClientGone(r)
         \/ \E a \in Accounts : End(a) \/ AuthFailure(a) \/ Invalidate(a)
         \/ \E k \in Keys : ExpireBinding(k)
         \/ RouterChange
         \/ Restart
  PROVE  RetryInv'
<1>1. ASSUME NEW r \in Requests, ClientGone(r)
      PROVE  RetryInv'
  BY <1>1, RetryFinish DEF ClientGone, historyVars
<1>2. CASE UNCHANGED <<pc, req, input, sends, answered, lease>>
  BY <1>2 DEF RetryInv
<1>3. CASE Restart
  <2>1. /\ UNCHANGED <<input, sends, answered>>
        /\ \A r \in Requests :
             /\ lease'[r] = NoAccount /\ req'[r] = Blank
             /\ pc'[r] = IF pc[r] = "new" THEN "new" ELSE "ended"
    BY <1>3 DEF Restart, historyVars
  <2> SUFFICES ASSUME NEW r \in Requests
               PROVE  /\ Track(input[r], sends[r], answered[r], lease[r], pc[r], req[r])'
                      /\ Settled(input[r], sends[r], answered[r])'
    BY DEF RetryInv
  <2>2. LeaseFit(lease'[r], pc'[r], req'[r])
    BY <2>1 DEF LeaseFit
  <2>3. /\ SendsFit(input[r], sends[r], pc'[r], Blank)
        /\ AnswersFit(input[r], answered[r], pc'[r], Blank)
    <3>1. CASE pc[r] = "new"
      BY <2>1, <3>1, RetryFacts
         DEF SendsFit, AnswersFit, Unsent, Trying, Validating, Sent, Recording
    <3>2. CASE pc[r] # "new"
      BY <2>1, <3>2
         DEF SendsFit, AnswersFit, Unsent, Trying, Validating, Sent, Recording
    <3> QED
      BY <3>1, <3>2
  <2> QED
    BY <2>1, <2>2, <2>3, RetryFacts DEF Track
<1> QED
  BY <1>1, <1>2, <1>3
     DEF End, AuthFailure, Invalidate, ExpireBinding, RouterChange, workVars,
         historyVars

\* Nobody has sent anything at the start.
LEMMA RetryInvInitially == Init => RetryInv
<1> SUFFICES ASSUME Init, NEW r \in Requests
             PROVE  /\ Track(input[r], sends[r], answered[r], lease[r], pc[r], req[r])
                    /\ Settled(input[r], sends[r], answered[r])
  BY DEF RetryInv
<1>1. /\ pc[r] = "new" /\ sends[r] = <<>> /\ answered[r] = {}
      /\ lease[r] = NoAccount
  BY DEF Init
<1> QED
  BY <1>1 DEF Track, SendsFit, AnswersFit, LeaseFit, Settled, Unsent, Trying,
              Validating, Sent, Recording

\* Every step keeps the invariant.
LEMMA StepsKeepRetries ==
  TypeInv /\ OwnerInv /\ RetryInv /\ [Next]_vars => RetryInv'
<1> SUFFICES ASSUME TypeInv, OwnerInv, RetryInv, [Next]_vars PROVE RetryInv'
  OBVIOUS
<1>1. CASE UNCHANGED vars
  BY <1>1 DEF vars, workVars, historyVars, RetryInv
<1>2. ASSUME NEW r \in Requests, Arrive(r) \/ Handle(r)
      PROVE  RetryInv'
  BY <1>2, ArrivalRetry, SelectionRetry, FenceRetry, AnswersRetry, BindingRetry
     DEF Handle
<1> QED
  BY <1>1, <1>2, EnvironmentRetry DEF Next

-----------------------------------------------------------------------------
(* The router's count of begun work.                                       *)

\* What a step of a handler does with the work it has begun.
LEMMA WorkSteps ==
  ASSUME NEW r \in Requests, Arrive(r) \/ Handle(r) \/ ClientGone(r)
  PROVE  \/ UNCHANGED <<lease, inflight, ends>>
         \/ Release(r)
         \/ /\ pc[r] = "wire" /\ lease' = [lease EXCEPT ![r] = req[r].account]
            /\ inflight' = [inflight EXCEPT ![req[r].account] = @ + 1]
            /\ UNCHANGED ends
<1> DEFINE Idle == UNCHANGED <<lease, inflight, ends>>
<1>1. CASE Arrive(r) \/ ClientGone(r) \/ FindOwner(r) \/ OwnersFound(r)
             \/ SelectExact(r) \/ LookupThread(r) \/ LookupEpoch(r)
  BY <1>1 DEF Arrive, ClientGone, FindOwner, OwnersFound, SelectExact,
              LookupThread, LookupEpoch, Finish, workVars
<1>2. CASE Pick(r) \/ Stamp(r) \/ Prebind(r) \/ Resolve(r)
  BY <1>2 DEF Pick, NoAlternate, Stamp, Prebind, Resolve, Finish, Return, Continue,
              workVars
<1>3. CASE Probe(r) \/ CheckEpoch(r) \/ CheckBinding(r) \/ CheckOrder(r)
  <2>1. ASSUME Stale(r) \/ Validated(r)
        PROVE  Idle \/ Release(r)
    BY <2>1 DEF Stale, Validated, Reselect, Finish, Return, Continue, workVars
  <2> QED
    BY <1>3, <2>1 DEF Probe, CheckEpoch, CheckBinding, CheckOrder, workVars
<1>4. CASE Send(r)
  BY <1>4 DEF Send, Finish
<1>5. CASE Succeed(r) \/ Unauthorized(r) \/ Refreshed(r) \/ RefreshFailed(r)
             \/ Reject(r) \/ PassThrough(r) \/ Unreachable(r) \/ Fail(r)
  BY <1>5 DEF Succeed, Unauthorized, Refreshed, RefreshFailed, Reject, PassThrough,
              Unreachable, Fail, Reselect, Finish, Return, workVars
<1>6. CASE TurnEpoch(r) \/ TurnPut(r) \/ Completed(r) \/ Uncompleted(r)
             \/ BindEpoch(r) \/ BindPut(r) \/ Relayed(r)
  BY <1>6 DEF TurnEpoch, TurnPut, Completed, Uncompleted, BindEpoch, BindPut,
              Relayed, Finish, Return, workVars
<1> QED
  BY <1>1, <1>2, <1>3, <1>4, <1>5, <1>6 DEF Handle

\* A lease that is dropped moves from the leases to the releases to come.
LEMMA ReleaseCounted ==
  ASSUME TypeInv, Counted, NEW r \in Requests, Release(r)
  PROVE  Counted'
<1> SUFFICES ASSUME NEW a \in Accounts
             PROVE  /\ IsFiniteSet(Leased(a))'
                    /\ inflight'[a] = Cardinality(Leased(a)') + ends'[a]
  BY DEF Counted
<1>1. /\ lease' = [lease EXCEPT ![r] = NoAccount] /\ inflight' = inflight
      /\ lease \in [Requests -> AccountOrNone]
      /\ ends \in [Accounts -> Nat] /\ inflight \in [Accounts -> Nat]
  BY DEF Release, TypeInv, WorkOK
<1>2. /\ IsFiniteSet(Leased(a)) /\ inflight[a] = Cardinality(Leased(a)) + ends[a]
      /\ Cardinality(Leased(a)) \in Nat
  BY FS_CardinalityType DEF Counted
<1>3. NoAccount # a
  BY RouterAssumption
<1>4. CASE lease[r] = a
  <2>1. Leased(a)' = Leased(a) \ {r} /\ r \in Leased(a)
    BY <1>1, <1>3, <1>4 DEF Leased
  <2>2. ends'[a] = ends[a] + 1
    BY <1>1, <1>3, <1>4 DEF Release
  <2>3. /\ IsFiniteSet(Leased(a) \ {r})
        /\ Cardinality(Leased(a) \ {r}) = Cardinality(Leased(a)) - 1
    BY <1>2, <2>1, FS_RemoveElement
  <2>4. ends[a] \in Nat
    BY <1>1
  <2> QED
    BY <1>1, <1>2, <2>1, <2>2, <2>3, <2>4
<1>5. CASE lease[r] # a
  <2>1. Leased(a)' = Leased(a)
    BY <1>1, <1>3, <1>5 DEF Leased
  <2>2. ends'[a] = ends[a]
    BY <1>1, <1>5 DEF Release
  <2> QED
    BY <1>1, <1>2, <2>1, <2>2
<1> QED
  BY <1>4, <1>5

\* A request that is sent holds no lease already.
LEMMA SendCounted ==
  ASSUME TypeInv, RetryInv, Counted, NEW r \in Requests, pc[r] = "wire",
         lease' = [lease EXCEPT ![r] = req[r].account],
         inflight' = [inflight EXCEPT ![req[r].account] = @ + 1], UNCHANGED ends
  PROVE  Counted'
<1> SUFFICES ASSUME NEW a \in Accounts
             PROVE  /\ IsFiniteSet(Leased(a))'
                    /\ inflight'[a] = Cardinality(Leased(a)') + ends'[a]
  BY DEF Counted
<1>1. /\ lease \in [Requests -> AccountOrNone]
      /\ ends \in [Accounts -> Nat] /\ inflight \in [Accounts -> Nat]
  BY DEF TypeInv, WorkOK
<1>2. /\ IsFiniteSet(Leased(a)) /\ inflight[a] = Cardinality(Leased(a)) + ends[a]
      /\ Cardinality(Leased(a)) \in Nat
  BY FS_CardinalityType DEF Counted
<1>3. lease[r] = NoAccount /\ NoAccount # a
  BY RetryFacts, RouterAssumption DEF LeaseFit, Sent, Validating, Recording
<1>4. CASE req[r].account = a
  <2>1. Leased(a)' = Leased(a) \cup {r} /\ r \notin Leased(a)
    BY <1>1, <1>3, <1>4 DEF Leased
  <2>2. inflight'[a] = inflight[a] + 1
    BY <1>1, <1>4
  <2>3. /\ IsFiniteSet(Leased(a) \cup {r})
        /\ Cardinality(Leased(a) \cup {r}) = Cardinality(Leased(a)) + 1
    BY <1>2, <2>1, FS_AddElement
  <2>4. ends[a] \in Nat
    BY <1>1
  <2> QED
    BY <1>2, <2>1, <2>2, <2>3, <2>4
<1>5. CASE req[r].account # a
  <2>1. Leased(a)' = Leased(a)
    BY <1>1, <1>3, <1>5 DEF Leased
  <2>2. inflight'[a] = inflight[a]
    BY <1>1, <1>5
  <2> QED
    BY <1>2, <2>1, <2>2
<1> QED
  BY <1>4, <1>5

\* Every step keeps the count.
LEMMA StepsKeepCount == TypeInv /\ RetryInv /\ Counted /\ [Next]_vars => Counted'
<1> SUFFICES ASSUME TypeInv, RetryInv, Counted, [Next]_vars PROVE Counted'
  OBVIOUS
<1>0. ends \in [Accounts -> Nat] /\ inflight \in [Accounts -> Nat]
  BY DEF TypeInv, WorkOK
<1>1. CASE UNCHANGED <<lease, inflight, ends>>
  BY <1>1 DEF Counted, Leased
<1>2. ASSUME NEW r \in Requests, Arrive(r) \/ Handle(r) \/ ClientGone(r)
      PROVE  Counted'
  BY <1>1, <1>2, WorkSteps, ReleaseCounted, SendCounted
<1>3. ASSUME NEW b \in Accounts, End(b)
      PROVE  Counted'
  <2> SUFFICES ASSUME NEW a \in Accounts
               PROVE  /\ IsFiniteSet(Leased(a))'
                      /\ inflight'[a] = Cardinality(Leased(a)') + ends'[a]
    BY DEF Counted
  <2>1. /\ IsFiniteSet(Leased(a)) /\ inflight[a] = Cardinality(Leased(a)) + ends[a]
        /\ Cardinality(Leased(a)) \in Nat /\ Leased(a)' = Leased(a)
    BY <1>3, FS_CardinalityType DEF Counted, Leased, End
  <2>2. /\ ends[a] \in Nat /\ inflight[a] \in Nat
        /\ b = a => /\ ends[a] > 0 /\ ends'[a] = ends[a] - 1
                    /\ inflight'[a] = IF inflight[a] = 0 THEN 0 ELSE inflight[a] - 1
        /\ b # a => ends'[a] = ends[a] /\ inflight'[a] = inflight[a]
    BY <1>0, <1>3 DEF End
  <2> QED
    BY <2>1, <2>2
<1>4. CASE Restart
  <2>1. \A a \in Accounts : /\ Leased(a)' = {}
                            /\ inflight'[a] = 0 /\ ends'[a] = 0
    BY <1>4, RouterAssumption DEF Restart, Leased
  <2>2. IsFiniteSet({}) /\ Cardinality({}) = 0
    BY FS_EmptySet
  <2>3. ASSUME NEW a \in Accounts
        PROVE  /\ IsFiniteSet(Leased(a)')
               /\ inflight'[a] = Cardinality(Leased(a)') + ends'[a]
    BY <2>1, <2>2
  <2> QED
    BY <2>3 DEF Counted
<1>5. ASSUME NEW a \in Accounts, AuthFailure(a) \/ Invalidate(a)
      PROVE  Counted'
  BY <1>1, <1>5 DEF AuthFailure, Invalidate, workVars
<1>6. CASE RouterChange \/ (\E k \in Keys : ExpireBinding(k)) \/ UNCHANGED vars
  BY <1>1, <1>6 DEF RouterChange, ExpireBinding, vars, workVars
<1> QED
  BY <1>2, <1>3, <1>4, <1>5, <1>6 DEF Next

\* Nothing is counted at the start.
LEMMA CountedInitially == Init => Counted
<1> SUFFICES ASSUME Init, NEW a \in Accounts
             PROVE  IsFiniteSet(Leased(a)) /\ inflight[a] = Cardinality(Leased(a)) + ends[a]
  BY DEF Counted
<1>1. Leased(a) = {} /\ inflight[a] = 0 /\ ends[a] = 0
  BY RouterAssumption DEF Init, Leased
<1> QED
  BY <1>1, FS_EmptySet

\* The invariants together.
DispatchInv == TypeInv /\ OwnerInv /\ RetryInv /\ Counted

\* They hold together.
LEMMA DispatchInvHolds == Spec => []DispatchInv
<1>1. Init => DispatchInv
  BY TypesHoldInitially, OwnerInvInitially, RetryInvInitially, CountedInitially
     DEF DispatchInv
<1>2. DispatchInv /\ [Next]_vars => DispatchInv'
  BY StepsKeepTypes, StepsKeepOwners, StepsKeepRetries, StepsKeepCount
     DEF DispatchInv
<1> QED
  BY <1>1, <1>2, PTL DEF Spec

\* However a request is retried, refreshed, re-selected or dropped: it is sent
\* at most twice, and to two accounts only without an anchor or a pin; a body
\* that cannot move is answered by one account; and the router's count of begun
\* work is the leases that are held plus the releases that have not run.
THEOREM RetriesStayBounded == Spec => []RetriesKeepBounds
<1>1. ASSUME DispatchInv
      PROVE  RetriesKeepBounds
  <2>1. ASSUME NEW r \in Requests
        PROVE  /\ Len(sends[r]) <= 2
               /\ Len(sends[r]) = 2 /\ sends[r][1] # sends[r][2] =>
                    input[r].anchors = {} /\ input[r].pin = NoAccount
               /\ ~input[r].portable => \A x, y \in answered[r] : x[1] = y[1]
    <3>1. Settled(input[r], sends[r], answered[r]) /\ sends[r] \in Seq(Members)
      BY <1>1, RetryFacts DEF DispatchInv
    <3>2. Len(sends[r]) = 2 => 1 \in DOMAIN sends[r] /\ 2 \in DOMAIN sends[r]
      BY <3>1
    <3> QED
      BY <3>1, <3>2 DEF Settled
  <2>2. InflightIsLeases
    BY <1>1 DEF DispatchInv, Counted, Leased, InflightIsLeases
  <2> QED
    BY <2>1, <2>2 DEF RetriesKeepBounds, BoundedSends, NonportableStays
<1> QED
  BY <1>1, DispatchInvHolds, PTL

-----------------------------------------------------------------------------
(* The promise.                                                            *)

\* Continuity's Cardinality is that of FiniteSets.
LEMMA SameSize == \A x : Promise!Cardinality(x) = Cardinality(x)
BY DEF Promise!Cardinality, Cardinality

\* A request that was sent at most twice was sent to at most two accounts.
LEMMA FewContacts ==
  ASSUME NEW s \in Seq(Members), Len(s) <= 2
  PROVE  Cardinality(ToSet(s)) <= 2
<1>1. \A x : IsFiniteSet({x}) /\ Cardinality({x}) = 1
  BY FS_Singleton
<1>2. ASSUME NEW x, NEW y
      PROVE  Cardinality({x} \cup {y}) \in {1, 2}
  <2> DEFINE one == {x}
             two == one \cup {y}
  <2>1. IsFiniteSet(one) /\ Cardinality(one) = 1
    BY <1>1
  <2> HIDE DEF one
  <2>2. Cardinality(two) = IF y \in one THEN Cardinality(one) ELSE Cardinality(one) + 1
    BY <2>1, FS_AddElement
  <2> HIDE DEF two
  <2>3. Cardinality(two) \in {1, 2}
    BY <2>1, <2>2
  <2> QED
    BY <2>3 DEF one, two
<1>3. CASE Len(s) = 0
  <2>1. ToSet(s) = {}
    BY <1>3 DEF ToSet
  <2>2. Cardinality(ToSet(s)) = 0
    BY <2>1, FS_EmptySet
  <2> QED
    BY <2>2
<1>4. CASE Len(s) = 1
  <2>1. ToSet(s) = {s[1]} \cup {s[1]}
    BY <1>4 DEF ToSet
  <2>2. Cardinality(ToSet(s)) \in {1, 2}
    BY <1>2, <2>1
  <2> QED
    BY <2>2
<1>5. CASE Len(s) = 2
  <2>1. ToSet(s) = {s[1]} \cup {s[2]}
    BY <1>5 DEF ToSet
  <2>2. Cardinality(ToSet(s)) \in {1, 2}
    BY <1>2, <2>1
  <2> QED
    BY <2>2
<1>6. Len(s) \in Nat
  OBVIOUS
<1>7. \A n \in Nat : n <= 2 => n = 0 \/ n = 1 \/ n = 2
  OBVIOUS
<1> QED
  BY <1>3, <1>4, <1>5, <1>6, <1>7

\* A step of a handler moves a request that has arrived, and no other.
LEMMA HandlerMoves ==
  ASSUME NEW r \in Requests, Handle(r) \/ ClientGone(r)
  PROVE  /\ pc[r] # "new" /\ UNCHANGED input
         /\ \E place, local : place # "new" /\ Goto(r, place, local)
<1>1. CASE ClientGone(r) \/ FindOwner(r) \/ OwnersFound(r)
             \/ SelectExact(r) \/ LookupThread(r) \/ LookupEpoch(r)
  BY <1>1 DEF ClientGone, FindOwner, OwnersFound, SelectExact,
              LookupThread, LookupEpoch, Finish
<1>2. CASE Pick(r) \/ Stamp(r) \/ Prebind(r) \/ Resolve(r)
  BY <1>2 DEF Pick, NoAlternate, Stamp, Prebind, Resolve, Finish, Return, Continue
<1>3. CASE Probe(r) \/ CheckEpoch(r) \/ CheckBinding(r) \/ CheckOrder(r)
  <2>1. ASSUME Stale(r) \/ Validated(r)
        PROVE  \E place, local : place # "new" /\ Goto(r, place, local)
    BY <2>1 DEF Stale, Validated, Reselect, Finish, Return, Continue
  <2> QED
    BY <1>3, <2>1 DEF Probe, CheckEpoch, CheckBinding, CheckOrder
<1>4. CASE Send(r)
  BY <1>4 DEF Send, Finish
<1>5. CASE Succeed(r) \/ Unauthorized(r) \/ Refreshed(r) \/ RefreshFailed(r)
             \/ Reject(r) \/ PassThrough(r) \/ Unreachable(r) \/ Fail(r)
  BY <1>5 DEF Succeed, Unauthorized, Refreshed, RefreshFailed, Reject, PassThrough,
              Unreachable, Fail, Reselect, Finish, Return
<1>6. CASE TurnEpoch(r) \/ TurnPut(r) \/ Completed(r) \/ Uncompleted(r)
             \/ BindEpoch(r) \/ BindPut(r) \/ Relayed(r)
  BY <1>6 DEF TurnEpoch, TurnPut, Completed, Uncompleted, BindEpoch, BindPut,
              Relayed, Finish, Return
<1> QED
  BY <1>1, <1>2, <1>3, <1>4, <1>5, <1>6 DEF Handle

\* What a request asks is settled when it arrives.
LEMMA AskedStays ==
  ASSUME TypeInv, NEW r \in Requests, Handle(r) \/ ClientGone(r)
  PROVE  \A q \in Requests : Asked(q)' = Asked(q)
<1>1. PICK place, local : place # "new" /\ Goto(r, place, local)
  BY HandlerMoves
<1>2. \A q \in Requests : pc'[q] = "new" <=> pc[q] = "new"
  BY <1>1, HandlerMoves DEF Goto, TypeInv, ControlOK
<1> QED
  BY <1>2, HandlerMoves DEF Asked

\* A step that sends nothing and hears nothing is no step of the promise.
LEMMA Unpromised ==
  ASSUME UNCHANGED <<sends, answered, served>>,
         \A q \in Requests : Asked(q)' = Asked(q)
  PROVE  UNCHANGED Promise!vars
BY DEF Promise!vars

\* Arriving asks.
LEMMA ArriveAsks ==
  ASSUME TypeInv, NEW r \in Requests, Arrive(r)
  PROVE  Promise!Ask(r)
<1>1. PICK i \in Inputs[r] :
        /\ input' = [input EXCEPT ![r] = i]
        /\ Goto(r, "owners", [Blank EXCEPT !.todo = i.anchors])
  BY DEF Arrive
<1>2. pc[r] = "new" /\ UNCHANGED <<sends, answered, served>>
  BY DEF Arrive, historyVars
<1>3. i \in Input /\ i.anchors \subseteq Tokens /\ i.portable \in BOOLEAN
  <2>1. i \in Input
    BY DispatchAssumption
  <2> QED
    BY <2>1 DEF Input
<1> DEFINE q == [continues |-> {t[2] : t \in i.anchors}, portable |-> i.portable]
<1>4. q \in Promise!Question
  BY <1>3 DEF Promise!Question, Tokens
<1>5. Asked(r) = Unasked
  BY <1>2 DEF Asked
<1>6. Asked(r)' = q
  BY <1>1 DEF Asked, Goto, TypeInv, ControlOK
<1>7. \A p \in Requests \ {r} : Asked(p)' = Asked(p)
  BY <1>1 DEF Asked, Goto, TypeInv, ControlOK
<1> HIDE DEF q
<1>8. [p \in Requests |-> Asked(p)]' = [[p \in Requests |-> Asked(p)] EXCEPT ![r] = q]
  BY <1>6, <1>7
<1> QED
  BY <1>2, <1>4, <1>5, <1>8 DEF Promise!Ask

\* Sending contacts the selected account.
LEMMA SendContacts ==
  ASSUME DispatchInv, DispatchInv', NEW r \in Requests, Send(r), ~Finish(r)
  PROVE  \E a \in Accounts : Promise!Contact(r, a)
<1> DEFINE a == req[r].account
<1>1. /\ pc[r] = "wire"
      /\ sends' = [sends EXCEPT ![r] = Append(@, a)]
      /\ UNCHANGED <<input, served, answered>>
  BY DEF Send
<1>2. TypeInv /\ OwnerInv /\ RetryInv /\ TypeInv' /\ RetryInv'
  BY DEF DispatchInv
<1>3. a \in Members /\ a \in Accounts
  BY <1>1, <1>2, LocalFacts, AccountFacts DEF Shaped, Holding
<1>4. \A q \in Requests : Asked(q)' = Asked(q)
  BY <1>2, AskedStays DEF Handle
<1>5. /\ served[r] = NoAccount
      /\ \A t \in input[r].anchors : served[t[2]] = a
  BY <1>1, <1>2 DEF OwnerInv, Fits, Selected, Holding, Validating, Recording
<1>6. Asked(r) = [continues |-> {t[2] : t \in input[r].anchors},
                  portable |-> input[r].portable]
  BY <1>1 DEF Asked
<1>7. Asked(r) # Unasked
  <2>1. input[r].anchors \subseteq Tokens /\ input[r].portable \in BOOLEAN
    BY <1>2, LocalFacts DEF Input
  <2>2. {t[2] : t \in input[r].anchors} \subseteq Requests
    BY <2>1 DEF Tokens
  <2> QED
    BY <1>6, <2>1, <2>2, UnaskedAssumption
<1>8. \A s \in Asked(r).continues : served[s] = a
  BY <1>5, <1>6
<1>9. Asked(r).portable \/ {x[1] : x \in answered[r]} \subseteq {a}
  <2>1. input[r].portable \/ \A x \in answered[r] : x[1] = a
    BY <1>1, <1>2, RetryFacts DEF AnswersFit, Sent, Validating, Recording
  <2> QED
    BY <1>6, <2>1
<1>10. /\ sends[r] \in Seq(Members) /\ sends'[r] = Append(sends[r], a)
       /\ \A q \in Requests \ {r} : sends'[q] = sends[q]
       /\ sends'[r] \in Seq(Members) /\ Len(sends'[r]) <= 2
  <2>1. sends \in [Requests -> Seq(Members)]
    BY <1>2 DEF TypeInv, HistoryOK
  <2>2. Settled(input'[r], sends'[r], answered'[r])
    BY <1>2 DEF RetryInv
  <2>3. sends'[r] = Append(sends[r], a) /\ \A q \in Requests \ {r} : sends'[q] = sends[q]
    BY <1>1, <2>1
  <2> QED
    BY <1>3, <2>1, <2>2, <2>3 DEF Settled
<1>11. ToSet(sends'[r]) = ToSet(sends[r]) \cup {a}
  BY <1>3, <1>10 DEF ToSet
<1>12. Promise!Cardinality(ToSet(sends'[r])) <= 2
  BY <1>10, FewContacts, SameSize
<1> HIDE DEF a
<1>13. [q \in Requests |-> ToSet(sends[q])]'
         = [[q \in Requests |-> ToSet(sends[q])] EXCEPT ![r] = @ \cup {a}]
  BY <1>10, <1>11
<1>14. [q \in Requests |-> Asked(q)]' = [q \in Requests |-> Asked(q)]
  BY <1>4
<1>15. Promise!Contact(r, a)
  BY <1>1, <1>5, <1>7, <1>8, <1>9, <1>12, <1>13, <1>14 DEF Promise!Contact
<1> QED
  BY <1>3, <1>15

\* An answer comes from an account that was contacted; a success makes that
\* account the issuer.
LEMMA AnswersAreGiven ==
  ASSUME DispatchInv, NEW r \in Requests, Handle(r), pc[r] = "sent",
         UNCHANGED sends, NEW verdict \in Verdict, Hears(r, verdict),
         \/ UNCHANGED served
         \/ served' = [served EXCEPT ![r] = req[r].account]
  PROVE  \E a \in Accounts : Promise!Refuse(r, a) \/ Promise!Issue(r, a)
<1>1. TypeInv /\ OwnerInv /\ RetryInv
  BY DEF DispatchInv
<1>2. PICK a \in Accounts : a = req[r].account
  BY <1>1, LocalFacts, AccountFacts DEF Shaped, Holding
<1>3. a \in ToSet(sends[r])
  BY <1>1, <1>2, RetryFacts DEF SendsFit, ToSet
<1>4. served[r] = NoAccount
  BY <1>1 DEF OwnerInv, Fits, Recording
<1>5. [q \in Requests |-> Asked(q)]' = [q \in Requests |-> Asked(q)]
  BY <1>1, AskedStays
<1>6. /\ answered'[r] = answered[r] \cup {<<a, verdict>>}
      /\ \A q \in Requests \ {r} : answered'[q] = answered[q]
  BY <1>1, <1>2, HearsRetry
<1>7. {x[1] : x \in answered'[r]} = {x[1] : x \in answered[r]} \cup {a}
  <2>1. <<a, verdict>>[1] = a
    OBVIOUS
  <2>2. \A y : y \in {x[1] : x \in answered'[r]} <=>
                y \in {x[1] : x \in answered[r]} \/ y = a
    BY <1>6, <2>1
  <2> QED
    BY <2>2
<1>8. [q \in Requests |-> {x[1] : x \in answered[q]}]'
        = [[q \in Requests |-> {x[1] : x \in answered[q]}] EXCEPT ![r] = @ \cup {a}]
  BY <1>6, <1>7
<1>9. [q \in Requests |-> ToSet(sends[q])]' = [q \in Requests |-> ToSet(sends[q])]
  OBVIOUS
<1>10. UNCHANGED served => Promise!Refuse(r, a)
  BY <1>3, <1>4, <1>5, <1>8, <1>9 DEF Promise!Refuse
<1>11. served' = [served EXCEPT ![r] = a] => Promise!Issue(r, a)
  BY <1>3, <1>4, <1>5, <1>8, <1>9 DEF Promise!Issue
<1>12. served' = [served EXCEPT ![r] = a] \/ UNCHANGED served
  BY <1>2
<1> QED
  BY <1>10, <1>11, <1>12

\* Every step of dispatch is a step of the promise, or none.
LEMMA StepsKeepPromise ==
  DispatchInv /\ DispatchInv' /\ [Next]_vars => [Promise!Next]_(Promise!vars)
<1> SUFFICES ASSUME DispatchInv, DispatchInv', [Next]_vars
             PROVE  Promise!Next \/ UNCHANGED Promise!vars
  OBVIOUS
<1>0. TypeInv
  BY DEF DispatchInv
<1>1. ASSUME NEW r \in Requests, Arrive(r)
      PROVE  Promise!Next
  BY <1>0, <1>1, ArriveAsks DEF Promise!Next
<1>2. ASSUME NEW r \in Requests, Handle(r) \/ ClientGone(r)
      PROVE  Promise!Next \/ UNCHANGED Promise!vars
  <2>1. CASE UNCHANGED <<sends, answered, served>>
    BY <1>0, <1>2, <2>1, AskedStays, Unpromised
  <2>2. CASE Send(r) /\ ~Finish(r)
    BY <2>2, SendContacts DEF Promise!Next
  <2>3. CASE Succeed(r) \/ Unauthorized(r) \/ Reject(r) \/ PassThrough(r)
    <3>1. PICK verdict \in Verdict : Hears(r, verdict)
      BY <2>3 DEF Succeed, Unauthorized, Reject, PassThrough, Verdict
    <3>2. /\ pc[r] = "sent" /\ UNCHANGED sends
          /\ UNCHANGED served \/ served' = [served EXCEPT ![r] = req[r].account]
      BY <2>3 DEF Succeed, Unauthorized, Reject, PassThrough
    <3>3. Handle(r)
      BY <2>3 DEF Handle
    <3> QED
      BY <3>1, <3>2, <3>3, AnswersAreGiven DEF Promise!Next
  <2>4. CASE Send(r) /\ Finish(r)
    <3>1. pc'[r] = "ended"
      BY <1>0, <2>4 DEF Finish, Goto, TypeInv, ControlOK
    <3>2. UNCHANGED <<sends, answered, served>>
      BY <1>0, <2>4, <3>1 DEF Send, Goto, TypeInv, ControlOK
    <3> QED
      BY <2>1, <3>2
  <2>5. CASE ~(Send(r) \/ Succeed(r) \/ Unauthorized(r) \/ Reject(r) \/ PassThrough(r))
    <3>1. UNCHANGED <<sends, answered, served>>
      BY <1>2, <2>5
         DEF Handle, ClientGone, FindOwner, OwnersFound, SelectExact,
             LookupThread, LookupEpoch, Pick, Stamp, Prebind, Resolve, Probe,
             CheckEpoch, CheckBinding, CheckOrder, Refreshed, RefreshFailed,
             Unreachable, Fail, TurnEpoch, TurnPut, Completed, Uncompleted,
             BindEpoch, BindPut, Relayed, historyVars
    <3> QED
      BY <2>1, <3>1
  <2> QED
    BY <2>2, <2>3, <2>4, <2>5
<1>3. ASSUME UNCHANGED <<pc, input, sends, answered, served>>
      PROVE  UNCHANGED Promise!vars
  BY <1>3, Unpromised DEF Asked
<1>4. CASE Restart
  <2>1. \A q \in Requests : Asked(q)' = Asked(q)
    BY <1>4 DEF Restart, Asked
  <2> QED
    BY <1>4, <2>1, Unpromised DEF Restart, historyVars
<1>5. CASE UNCHANGED vars
  BY <1>3, <1>5 DEF vars, historyVars
<1>6. ASSUME \/ \E a \in Accounts : End(a) \/ AuthFailure(a) \/ Invalidate(a)
             \/ \E k \in Keys : ExpireBinding(k)
             \/ RouterChange
      PROVE  UNCHANGED Promise!vars
  BY <1>3, <1>6 DEF End, AuthFailure, Invalidate, ExpireBinding, RouterChange,
                    historyVars
<1> QED
  BY <1>1, <1>2, <1>4, <1>5, <1>6 DEF Next

\* Dispatch implements Continuity.
THEOREM DispatchKeepsPromise == Spec => PromiseKept
<1>1. Init => Promise!Init
  <2> SUFFICES ASSUME Init PROVE Promise!Init
    OBVIOUS
  <2>1. /\ \A r \in Requests : pc[r] = "new" /\ sends[r] = <<>> /\ answered[r] = {}
        /\ served = [r \in Requests |-> NoAccount]
    BY DEF Init
  <2>2. \A r \in Requests : ToSet(sends[r]) = {}
    BY <2>1 DEF ToSet
  <2> QED
    BY <2>1, <2>2 DEF Promise!Init, Asked
<1> QED
  BY <1>1, DispatchInvHolds, StepsKeepPromise, PTL DEF Spec, PromiseKept, Promise!Spec
=============================================================================
