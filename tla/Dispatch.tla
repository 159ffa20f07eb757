------------------------------ MODULE Dispatch ------------------------------
(***************************************************************************)
(* The HTTP dispatch of a native Responses request: find its hard owner,   *)
(* select an account, resolve the account's credentials, validate the      *)
(* selection again, send, and bind what the answer established             *)
(* (src/proxy/mod.rs, handle_http_replay_with_routing_anchor, with the     *)
(* selectors and validators of src/routing/router.rs).                     *)
(*                                                                         *)
(* Every await of the handler ends a step: a lock released, a database job *)
(* done, credentials resolved, upstream answered.  Between two steps of a  *)
(* request anything else may happen: other requests, credential failures,  *)
(* logins, quota changes, an operator's edit, a client that goes away, a   *)
(* restart of the daemon.                                                  *)
(*                                                                         *)
(* A request carries at most one soft key (a shared cohort key or, with    *)
(* `hint`, its parent's thread) and a set of anchors: hard continuity      *)
(* tokens earlier requests were given, a turn state before the response    *)
(* headers reached the client, a response id with the body's terminal.     *)
(* `pin` is an account a configured pin or an operator's move assigns.     *)
(***************************************************************************)
EXTENDS Router, Sequences

CONSTANTS
  Requests,       \* requests that may arrive, each handled once
  SoftKeys, NoKey,
  NoBinding, Unreadable, StoreMayFail,   \* see Affinity
  Inputs,         \* what each request may carry in this instance
  Answers,        \* what upstream may answer in this instance
  ReportedUsage,  \* the levels of usage a response may report
  Disruptions,    \* the environment's actions in this instance
  MaxSlots,       \* proxy.max_inflight_http: requests between send and headers
  MaxEpoch        \* bound on the invalidations of an account

Tokens == {"turn", "response"} \X Requests
Keys == SoftKeys \cup Tokens

Input ==
  [key : SoftKeys \cup {NoKey}, hint : BOOLEAN, anchors : SUBSET Tokens,
   pin : Members \cup {NoAccount}, portable : BOOLEAN]

ASSUME DispatchAssumption ==
  /\ NoKey \notin Keys
  /\ SoftKeys \cap Tokens = {}
  /\ NoBinding \notin [account : Accounts, generation : Nat]
  /\ Unreadable \notin Nat
  /\ StoreMayFail \in BOOLEAN
  /\ Inputs \in [Requests -> SUBSET Input]
  /\ ReportedUsage \subseteq 0..FullUsage
  /\ MaxSlots \in Nat \ {0}
  /\ MaxEpoch \in Nat

VARIABLES
  bindings, epochs,  \* the durable store, see Affinity
  pc,                \* where each request is
  input,             \* what it carries, once it has arrived
  req,               \* the handler's local variables
  permits,           \* requests that hold a permit of http_slots
  lease,             \* the account each request has begun work on
  inflight,          \* the router's count of begun work
  ends,              \* spawned router.end tasks that have not run
  invalidating,      \* auth_failure calls between their two halves
  (* history, for the properties *)
  sends,             \* the accounts each request was sent to, in order
  served,            \* the account that answered it with success
  answered,          \* the accounts that answered it, and how
  exposed,           \* turn states whose headers were returned
  forgotten,         \* keys whose binding was invalidated or expired
  fence              \* true epochs of the account each request selected

INSTANCE Affinity

storeVars == <<bindings, epochs>>
workVars == <<permits, lease, inflight, ends>>
historyVars ==
  <<sends, served, answered, exposed, forgotten, fence>>
vars == <<routerVars, storeVars, pc, input, req, workVars, invalidating,
          historyVars>>

-----------------------------------------------------------------------------
(* State.                                                                  *)

Selecting  == {"exact", "lookup", "lookupEpoch", "pick", "stamp", "prebind"}
Validating == {"probe", "epoch", "binding", "order"}
Recording  == {"turnEpoch", "turnPut", "streaming", "bindEpoch", "bindPut"}
PC == {"new", "owners", "resolve", "wire", "sent", "refresh", "relay", "ended"}
        \cup Selecting \cup Validating \cup Recording

\* Why a handler selects again: it does not, its selection went stale, the
\* account answered 401, it rejected the request, or it was unreachable.
Retry == {"none", "stale", "unauthorized", "rejected", "unreachable"}

\* How upstream answered: with a 401 or with anything else.
Verdict == {"unauthorized", "other"}

Local ==
  [todo       : SUBSET Tokens,                  \* anchors not looked up yet
   missing    : BOOLEAN,                        \* an anchor has no known owner
   owner      : AccountOrNone,                  \* the hard owner
   thread     : SoftKeys \cup {NoKey},          \* the key the selection uses
   found      : Binding \cup {NoBinding},       \* the thread's binding as read
   account    : AccountOrNone,                  \* the selection
   bound      : BOOLEAN,
   generation : Generation,
   excluded   : AccountOrNone,
   attempt    : 0..1,
   retry      : Retry,
   refreshed  : BOOLEAN,         \* validating after a refresh, not a resolve
   queue      : Seq(Keys),       \* keys to bind after the terminal
   stamp      : Generation]      \* the epoch read for the next bind

Blank ==
  [todo |-> {}, missing |-> FALSE, owner |-> NoAccount, thread |-> NoKey,
   found |-> NoBinding, account |-> NoAccount, bound |-> FALSE,
   generation |-> 0, excluded |-> NoAccount, attempt |-> 0, retry |-> "none",
   refreshed |-> FALSE, queue |-> <<>>, stamp |-> 0]

NoInput ==
  [key |-> NoKey, hint |-> FALSE, anchors |-> {}, pin |-> NoAccount,
   portable |-> TRUE]

TypeOK ==
  /\ RouterTypeOK
  /\ AffinityTypeOK
  /\ pc \in [Requests -> PC]
  /\ input \in [Requests -> Input]
  /\ req \in [Requests -> Local]
  /\ permits \subseteq Requests
  /\ lease \in [Requests -> AccountOrNone]
  /\ inflight \in [Accounts -> Nat]
  /\ ends \in [Accounts -> Nat]
  /\ invalidating \in [Accounts -> Nat]
  /\ sends \in [Requests -> Seq(Members)]
  /\ served \in [Requests -> AccountOrNone]
  /\ answered \in [Requests -> SUBSET (Accounts \X Verdict)]
  /\ exposed \subseteq Tokens
  /\ forgotten \subseteq Keys
  /\ fence \in [Requests -> [selected : Nat, checked : Nat]]

Init ==
  /\ RouterInit
  /\ AffinityInit
  /\ pc = [r \in Requests |-> "new"]
  /\ input = [r \in Requests |-> NoInput]
  /\ req = [r \in Requests |-> Blank]
  /\ permits = {}
  /\ lease = [r \in Requests |-> NoAccount]
  /\ inflight = [a \in Accounts |-> 0]
  /\ ends = [a \in Accounts |-> 0]
  /\ invalidating = [a \in Accounts |-> 0]
  /\ sends = [r \in Requests |-> <<>>]
  /\ served = [r \in Requests |-> NoAccount]
  /\ answered = [r \in Requests |-> {}]
  /\ exposed = {}
  /\ forgotten = {}
  /\ fence = [r \in Requests |-> [selected |-> 0, checked |-> 0]]

-----------------------------------------------------------------------------
(* Control.  Goto, Finish and Continue set pc, req and workVars together.  *)

Hard(r) == req[r].owner # NoAccount

Goto(r, place, local) ==
  /\ pc' = [pc EXCEPT ![r] = place]
  /\ req' = [req EXCEPT ![r] = local]

\* Dropping a lease spawns a task that will call router.end.
Release(r) ==
  /\ permits' = permits \ {r}
  /\ lease' = [lease EXCEPT ![r] = NoAccount]
  /\ ends' = IF lease[r] = NoAccount THEN ends
             ELSE [ends EXCEPT ![lease[r]] = @ + 1]
  /\ UNCHANGED inflight

\* The handler returned an error, or the response body was dropped.
Finish(r) == Goto(r, "ended", Blank) /\ Release(r)

\* The next iteration of the dispatch loop: this one's permit and lease go.
Continue(r, local) == Goto(r, "resolve", local) /\ Release(r)

\* The answer's head goes to the client; the lease moves to the body.
Return(r, place, local) ==
  /\ Goto(r, place, local)
  /\ permits' = permits \ {r}
  /\ UNCHANGED <<lease, inflight, ends>>

Hears(r, verdict) ==
  answered' = [answered EXCEPT ![r] = @ \cup {<<req[r].account, verdict>>}]

\* Mutation of Reselect: the attempt is not counted.
ReselectUnbounded(r, why) ==
  /\ Goto(r, "pick", [req[r] EXCEPT !.thread = NoKey, !.found = NoBinding,
                        !.excluded = req[r].account, !.retry = why])
  /\ UNCHANGED workVars

\* One bounded attempt on another account, without the thread.
Reselect(r, why) ==
  /\ Goto(r, "pick", [req[r] EXCEPT !.thread = NoKey, !.found = NoBinding,
                        !.excluded = req[r].account, !.attempt = 1,
                        !.retry = why])
  /\ UNCHANGED workVars

\* auth.reject_bearer: the bearer is remembered as rejected, which makes the
\* account unusable unless its file already holds another one.
BearerRecorded(a, states) ==
  states \cup (IF a \in Managed
               THEN {[s EXCEPT ![a].bearerUnusable = TRUE] : s \in states}
               ELSE {})

RejectBearer(a, states) ==
  runtime' \in BearerRecorded(a, states) /\ UNCHANGED <<preferred, preserved>>

\* The runtime after a response's usage headers were observed.
Headers(a) ==
  {runtime} \cup {[runtime EXCEPT ![a].usage = u] : u \in ReportedUsage}

-----------------------------------------------------------------------------
(* Arrival and ownership.                                                  *)

Arrive(r) ==
  /\ pc[r] = "new"
  /\ \E i \in Inputs[r] :
       /\ input' = [input EXCEPT ![r] = i]
       /\ Goto(r, "owners", [Blank EXCEPT !.todo = i.anchors])
  /\ UNCHANGED <<routerVars, storeVars, workVars, invalidating, historyVars>>

\* Mutation of SameOwner: the last anchor's owner wins.
AnyOwner(r, binding) == TRUE

\* Whether an anchor's owner agrees with those found so far.
SameOwner(r, binding) == req[r].owner \in {NoAccount, binding.account}

\* Mutation of Refused: an anchor without an owner is routed as new work.
RefusedPins(r) ==
  input[r].pin # NoAccount /\ req[r].owner \notin {NoAccount, input[r].pin}

\* An anchor has no known owner, or the pin is not the owner.
Refused(r) ==
  \/ req[r].missing
  \/ input[r].pin # NoAccount /\ req[r].owner \notin {NoAccount, input[r].pin}

\* Looks up one more anchor.  Two owners conflict; an anchor without an owner
\* is remembered until every anchor has been looked up.
FindOwner(r) ==
  /\ pc[r] = "owners"
  /\ \E t \in req[r].todo : \E found \in Lookup(t) :
       LET rest == [req[r] EXCEPT !.todo = @ \ {t}] IN
       IF found = NoBinding
       THEN Goto(r, "owners", [rest EXCEPT !.missing = TRUE])
              /\ UNCHANGED workVars
       ELSE IF SameOwner(r, found)
       THEN Goto(r, "owners", [rest EXCEPT !.owner = found.account])
              /\ UNCHANGED workVars
       ELSE Finish(r)
  /\ UNCHANGED <<routerVars, storeVars, input, invalidating, historyVars>>

\* Every anchor has been looked up.  A pin must agree with the owner; without
\* either the request is placed freely.  Reading the session's route may fail.
OwnersFound(r) ==
  LET pin   == input[r].pin
      owner == IF pin # NoAccount THEN pin ELSE req[r].owner
      fresh == [req[r] EXCEPT !.thread = input[r].key]
  IN
  /\ pc[r] = "owners"
  /\ req[r].todo = {}
  /\ \/ /\ Refused(r) \/ StoreMayFail
        /\ Finish(r)
     \/ /\ ~Refused(r)
        /\ IF owner # NoAccount
           THEN Goto(r, "exact", [req[r] EXCEPT !.owner = owner])
           ELSE Goto(r, IF input[r].key = NoKey THEN "pick" ELSE "lookup", fresh)
        /\ UNCHANGED workVars
  /\ UNCHANGED <<routerVars, storeVars, input, invalidating, historyVars>>

-----------------------------------------------------------------------------
(* Selection.                                                              *)

SelectExact(r) ==
  /\ pc[r] = "exact"
  /\ IF ExactEligible(req[r].owner)
     THEN /\ Goto(r, "stamp", [req[r] EXCEPT !.account = req[r].owner, !.bound = TRUE])
          /\ UNCHANGED workVars
     ELSE Finish(r)
  /\ UNCHANGED <<routerVars, storeVars, input, invalidating, historyVars>>

LookupThread(r) ==
  /\ pc[r] = "lookup"
  /\ \E found \in Lookup(req[r].thread) :
       Goto(r, IF found = NoBinding THEN "pick" ELSE "lookupEpoch",
            [req[r] EXCEPT !.found = found])
  /\ UNCHANGED <<routerVars, storeVars, input, workVars, invalidating,
                 historyVars>>

LookupEpoch(r) ==
  /\ pc[r] = "lookupEpoch"
  /\ \E e \in Epoch(req[r].found.account) :
       Goto(r, "pick", [req[r] EXCEPT !.generation = e])
  /\ fence' = [fence EXCEPT ![r].selected = epochs[req[r].found.account]]
  /\ UNCHANGED <<routerVars, storeVars, input, workVars, invalidating, sends,
                 served, answered, exposed, forgotten>>

KeepsBinding(r) ==
  LET found == req[r].found IN
  /\ found # NoBinding
  /\ BoundEligible(found.account, req[r].generation = found.generation,
                   req[r].excluded)

\* Mutation of NoAlternate: before any answer it waits for an account.
NoAlternateWaits(r) ==
  /\ req[r].retry \in {"unauthorized", "rejected"}
  /\ Return(r, "relay", req[r])
  /\ UNCHANGED routerVars

\* Nothing is eligible.  Before any answer that is an error; after a
\* rejection the original answer is returned, and a 401 is recorded.
NoAlternate(r) ==
  IF req[r].retry \in {"unauthorized", "rejected"}
  THEN /\ Return(r, "relay", req[r])
       /\ IF req[r].retry = "unauthorized" THEN RejectBearer(req[r].excluded, {runtime})
          ELSE UNCHANGED routerVars
  ELSE Finish(r) /\ UNCHANGED routerVars

Pick(r) ==
  LET choices == FreshChoices(req[r].excluded, NoAccount) IN
  /\ pc[r] = "pick"
  /\ \/ /\ KeepsBinding(r)
        /\ Goto(r, "resolve", [req[r] EXCEPT !.account = req[r].found.account,
                                             !.bound = TRUE])
        /\ UNCHANGED <<routerVars, workVars>>
     \/ /\ ~KeepsBinding(r)
        /\ \E a \in choices :
             Goto(r, "stamp", [req[r] EXCEPT !.account = a, !.bound = FALSE])
        /\ UNCHANGED <<routerVars, workVars>>
     \/ ~KeepsBinding(r) /\ choices = {} /\ NoAlternate(r)
  /\ UNCHANGED <<storeVars, input, invalidating, historyVars>>

\* Stamps the selection with the account's epoch.  A fresh selection for a
\* thread binds it before returning.
Stamp(r) ==
  /\ pc[r] = "stamp"
  /\ \E e \in Epoch(req[r].account) :
       LET stamped == [req[r] EXCEPT !.generation = e] IN
       IF req[r].thread # NoKey /\ ~input[r].hint
       THEN Goto(r, "prebind", stamped) /\ UNCHANGED workVars
       ELSE Continue(r, stamped)
  /\ fence' = [fence EXCEPT ![r].selected = epochs[req[r].account]]
  /\ UNCHANGED <<routerVars, storeVars, input, invalidating, sends, served,
                 answered, exposed, forgotten>>

Prebind(r) ==
  LET g == req[r].generation IN
  /\ pc[r] = "prebind"
  /\ \/ /\ PutCanSucceed(g)
        /\ Put(req[r].thread, req[r].account, g, FALSE)
        /\ Goto(r, "resolve", req[r])
        /\ UNCHANGED workVars
     \/ PutCanFail(g) /\ Finish(r) /\ UNCHANGED bindings
  /\ UNCHANGED <<routerVars, epochs, input, invalidating, historyVars>>

-----------------------------------------------------------------------------
(* Credentials, and the fence behind them.                                 *)

Resolve(r) ==
  /\ pc[r] = "resolve"
  /\ \/ /\ Goto(r, "probe", [req[r] EXCEPT !.refreshed = FALSE])
        /\ fence' = [fence EXCEPT ![r].checked = epochs[req[r].account]]
        /\ UNCHANGED workVars
     \/ "unresolved" \in Disruptions /\ Finish(r) /\ UNCHANGED fence
  /\ UNCHANGED <<routerVars, storeVars, input, invalidating, sends, served,
                 answered, exposed, forgotten>>

\* The selection must not be sent.  Bound work fails closed; fresh work may
\* move once, and never when a 401 has been seen with a nonportable body.
Stale(r) ==
  LET movable == ~Hard(r) /\ ~req[r].bound IN
  IF req[r].refreshed
  THEN IF movable /\ input[r].portable
       THEN Reselect(r, "unauthorized") /\ UNCHANGED routerVars
       ELSE Return(r, "relay", req[r]) /\ RejectBearer(req[r].account, {runtime})
  ELSE /\ IF movable /\ req[r].attempt = 0 THEN Reselect(r, "stale") ELSE Finish(r)
       /\ UNCHANGED routerVars

\* After a resolve the request is sent; after a refresh it starts over.
Validated(r) ==
  IF req[r].refreshed
  THEN Continue(r, [req[r] EXCEPT !.attempt = 1])
  ELSE Goto(r, "wire", req[r]) /\ UNCHANGED workVars

\* Mutation of EpochHolds: only bound work is fenced.
EpochHoldsBound(r, epoch) == ~req[r].bound \/ epoch = req[r].generation

EpochHolds(r, epoch) == epoch = req[r].generation

Probe(r) ==
  /\ pc[r] = "probe"
  /\ IF RuntimeStale(req[r].account, req[r].bound)
     THEN Stale(r)
     ELSE Goto(r, "epoch", req[r]) /\ UNCHANGED <<routerVars, workVars>>
  /\ UNCHANGED <<storeVars, input, invalidating, historyVars>>

CheckEpoch(r) ==
  /\ pc[r] = "epoch"
  /\ \E e \in Epoch(req[r].account) :
       IF ~EpochHolds(r, e) THEN Stale(r)
       ELSE IF ~req[r].bound
       THEN Goto(r, "order", req[r]) /\ UNCHANGED <<routerVars, workVars>>
       ELSE IF req[r].thread # NoKey
       THEN Goto(r, "binding", req[r]) /\ UNCHANGED <<routerVars, workVars>>
       ELSE Validated(r) /\ UNCHANGED routerVars
  /\ fence' = [fence EXCEPT ![r].checked = epochs[req[r].account]]
  /\ UNCHANGED <<storeVars, input, invalidating, sends, served, answered,
                 exposed, forgotten>>

CheckBinding(r) ==
  LET selected == [account |-> req[r].account, generation |-> req[r].generation]
  IN
  /\ pc[r] = "binding"
  /\ \E found \in Lookup(req[r].thread) :
       IF found = selected THEN Validated(r) /\ UNCHANGED routerVars ELSE Stale(r)
  /\ UNCHANGED <<storeVars, input, invalidating, historyVars>>

\* The reads behind this check take several locks in turn; nothing below
\* depends on what happens between them.
CheckOrder(r) ==
  /\ pc[r] = "order"
  /\ IF OrderStale(req[r].account, req[r].bound, req[r].excluded)
     THEN Stale(r) ELSE Validated(r) /\ UNCHANGED routerVars
  /\ UNCHANGED <<storeVars, input, invalidating, historyVars>>

\* The lane's limit is a refusal, not a queue.  Recording the session's
\* placement, before it, may fail.
Send(r) ==
  LET a == req[r].account IN
  /\ pc[r] = "wire"
  /\ \/ /\ Cardinality(permits) < MaxSlots
        /\ Goto(r, "sent", req[r])
        /\ permits' = permits \cup {r}
        /\ lease' = [lease EXCEPT ![r] = a]
        /\ inflight' = [inflight EXCEPT ![a] = @ + 1]
        /\ sends' = [sends EXCEPT ![r] = Append(@, a)]
        /\ UNCHANGED ends
     \/ /\ Cardinality(permits) >= MaxSlots \/ StoreMayFail
        /\ Finish(r)
        /\ UNCHANGED sends
  /\ UNCHANGED <<routerVars, storeVars, input, invalidating, served,
                 answered, exposed, forgotten, fence>>

-----------------------------------------------------------------------------
(* Answers.                                                                *)

\* quota_failure_for_owner drops a rejection of credentials that are no
\* longer the account's.
QuotaRecorded(a, states) ==
  (IF a \in Managed THEN states ELSE {})
    \cup {[s EXCEPT ![a].quotaUntil = TRUE] : s \in states}

Succeed(r) ==
  /\ pc[r] = "sent"
  /\ runtime' \in Headers(req[r].account)
  /\ served' = [served EXCEPT ![r] = req[r].account]
  /\ Hears(r, "other")
  /\ \/ /\ "turn" \in Answers
        /\ Goto(r, "turnEpoch", req[r])
        /\ UNCHANGED workVars
     \/ /\ "success" \in Answers
        /\ Return(r, "streaming", req[r])
  /\ UNCHANGED <<preferred, preserved, storeVars, input, invalidating, sends,
                 exposed, forgotten, fence>>

\* force_refresh first records the bearer as rejected.  An account without a
\* home has nothing to refresh.
Unauthorized(r) ==
  LET a == req[r].account IN
  /\ pc[r] = "sent"
  /\ "unauthorized" \in Answers
  /\ Hears(r, "unauthorized")
  /\ RejectBearer(a, Headers(a))
  /\ IF req[r].attempt = 0 /\ a \in Managed
     THEN Goto(r, "refresh", req[r]) /\ UNCHANGED workVars
     ELSE Return(r, "relay", req[r])
  /\ UNCHANGED <<storeVars, input, invalidating, sends, served, exposed,
                 forgotten, fence>>

Refreshed(r) ==
  /\ pc[r] = "refresh"
  /\ Goto(r, "probe", [req[r] EXCEPT !.refreshed = TRUE])
  /\ Set(req[r].account, "bearerUnusable", FALSE)
  /\ fence' = [fence EXCEPT ![r].checked = epochs[req[r].account]]
  /\ UNCHANGED <<storeVars, input, workVars, invalidating, sends, served,
                 answered, exposed, forgotten>>

RefreshFailed(r) ==
  /\ pc[r] = "refresh"
  /\ RejectBearer(req[r].account, {runtime})
  /\ Return(r, "relay", req[r])
  /\ UNCHANGED <<storeVars, input, invalidating, historyVars>>

MayMove(r) == req[r].attempt = 0 /\ ~Hard(r) /\ input[r].portable

\* A rejection that says something of the account's health.  A request that
\* may move tries one alternate.
Reject(r) ==
  LET a == req[r].account IN
  /\ pc[r] = "sent"
  /\ Hears(r, "other")
  /\ \/ "quota" \in Answers /\ runtime' \in QuotaRecorded(a, Headers(a))
     \/ "gateway" \in Answers
          /\ runtime' \in {[s EXCEPT ![a].avoided = TRUE] : s \in Headers(a)}
     \/ "capacity" \in Answers
          /\ runtime' \in Headers(a) \cup {[s EXCEPT ![a].capacity = TRUE] : s \in Headers(a)}
  /\ IF MayMove(r)
     THEN Reselect(r, "rejected") ELSE Return(r, "relay", req[r])
  /\ UNCHANGED <<preferred, preserved, storeVars, input, invalidating,
                 sends, served, exposed, forgotten, fence>>

\* A 403, a scoped refusal, an incomplete inspection: passed on untouched.
PassThrough(r) ==
  /\ pc[r] = "sent"
  /\ Hears(r, "other")
  /\ "other" \in Answers
  /\ Return(r, "relay", req[r])
  /\ runtime' \in Headers(req[r].account)
  /\ UNCHANGED <<preferred, preserved, storeVars, input, invalidating,
                 sends, served, exposed, forgotten, fence>>

\* No connection to the account's upstream was established.
Unreachable(r) ==
  /\ pc[r] = "sent"
  /\ "unreachable" \in Answers
  /\ IF req[r].attempt = 0 /\ ~Hard(r)
     THEN SoftFailure(req[r].account) /\ Reselect(r, "unreachable")
     ELSE UNCHANGED routerVars /\ Finish(r)
  /\ UNCHANGED <<storeVars, input, invalidating, historyVars>>

\* A network failure no account is to blame for, or a header timeout.
Fail(r) ==
  /\ pc[r] = "sent"
  /\ "failure" \in Answers
  /\ Finish(r)
  /\ UNCHANGED <<routerVars, storeVars, input, invalidating, historyVars>>

-----------------------------------------------------------------------------
(* Binding what the answer established.  router.bind reads the account's   *)
(* epoch in one job and puts the binding in another.                       *)

TurnEpoch(r) ==
  /\ pc[r] = "turnEpoch"
  /\ \E e \in Epoch(req[r].account) : Goto(r, "turnPut", [req[r] EXCEPT !.stamp = e])
  /\ UNCHANGED <<routerVars, storeVars, input, workVars, invalidating,
                 historyVars>>

\* The head is returned only with its turn state's owner on record.
TurnPut(r) ==
  LET turn == <<"turn", r>> IN
  /\ pc[r] = "turnPut"
  /\ \/ /\ PutCanSucceed(req[r].stamp)
        /\ Put(turn, req[r].account, req[r].stamp, FALSE)
        /\ Return(r, "streaming", req[r])
        /\ exposed' = exposed \cup {turn}
     \/ PutCanFail(req[r].stamp) /\ Finish(r) /\ UNCHANGED <<bindings, exposed>>
  /\ UNCHANGED <<routerVars, epochs, input, invalidating, sends, served,
                 answered, forgotten, fence>>

\* The body ended with a terminal that is not a failure.
Completed(r) ==
  LET soft == IF input[r].key = NoKey \/ input[r].hint THEN <<>> ELSE <<input[r].key>>
  IN
  /\ pc[r] = "streaming"
  /\ Goto(r, "bindEpoch", [req[r] EXCEPT !.queue = <<<<"response", r>>>> \o soft])
  /\ UNCHANGED <<routerVars, storeVars, input, workVars, invalidating,
                 historyVars>>

\* The body ended with a quota or capacity failure, or without a terminal:
\* nothing is bound.
Uncompleted(r) ==
  LET a == req[r].account IN
  /\ pc[r] = "streaming"
  /\ \/ UNCHANGED runtime
     \/ "quota" \in Answers /\ runtime' \in QuotaRecorded(a, {runtime})
     \/ "capacity" \in Answers /\ runtime' = [runtime EXCEPT ![a].capacity = TRUE]
  /\ Finish(r)
  /\ UNCHANGED <<preferred, preserved, storeVars, input, invalidating,
                 historyVars>>

BindEpoch(r) ==
  /\ pc[r] = "bindEpoch"
  /\ \E e \in Epoch(req[r].account) : Goto(r, "bindPut", [req[r] EXCEPT !.stamp = e])
  /\ UNCHANGED <<routerVars, storeVars, input, workVars, invalidating,
                 historyVars>>

\* The result of the put is ignored.  A request with a hard owner leaves a
\* cohort that lives elsewhere alone.
BindPut(r) ==
  LET next == Tail(req[r].queue) IN
  /\ pc[r] = "bindPut"
  /\ \/ /\ PutCanSucceed(req[r].stamp)
        /\ Put(Head(req[r].queue), req[r].account, req[r].stamp, Hard(r))
     \/ PutCanFail(req[r].stamp) /\ UNCHANGED bindings
  /\ IF next = <<>> THEN Finish(r)
     ELSE Goto(r, "bindEpoch", [req[r] EXCEPT !.queue = next]) /\ UNCHANGED workVars
  /\ UNCHANGED <<routerVars, epochs, input, invalidating, historyVars>>

\* The body of a rejection was passed on.
Relayed(r) ==
  /\ pc[r] = "relay"
  /\ Finish(r)
  /\ UNCHANGED <<routerVars, storeVars, input, invalidating, historyVars>>

\* A lease's spawned task runs.
End(a) ==
  /\ ends[a] > 0
  /\ ends' = [ends EXCEPT ![a] = @ - 1]
  /\ inflight' = [inflight EXCEPT ![a] = IF @ = 0 THEN 0 ELSE @ - 1]
  /\ UNCHANGED <<routerVars, storeVars, pc, input, req, permits, lease,
                 invalidating, historyVars>>

-----------------------------------------------------------------------------
(* The environment.                                                        *)

\* The client closes its connection; the handler or the body is dropped.
ClientGone(r) ==
  /\ "gone" \in Disruptions
  /\ pc[r] \notin {"new", "ended"}
  /\ Finish(r)
  /\ UNCHANGED <<routerVars, storeVars, input, invalidating, historyVars>>

\* auth_failure, reached from the WebSocket lanes: the account is marked,
\* the accounts lock released, and only then the bindings are invalidated.
AuthFailure(a) ==
  /\ "auth" \in Disruptions
  /\ epochs[a] + invalidating[a] < MaxEpoch
  /\ AuthFailureMark(a)
  /\ invalidating' = [invalidating EXCEPT ![a] = @ + 1]
  /\ UNCHANGED <<storeVars, pc, input, req, workVars, historyVars>>

Invalidate(a) ==
  /\ invalidating[a] > 0
  /\ invalidating' = [invalidating EXCEPT ![a] = @ - 1]
  /\ \/ /\ InvalidateAccount(a)
        /\ forgotten' = forgotten \cup
             {k \in Keys : bindings[k] # NoBinding /\ bindings[k].account = a}
     \/ StoreMayFail /\ UNCHANGED <<storeVars, forgotten>>
  /\ UNCHANGED <<routerVars, pc, input, req, workVars, sends, served,
                 answered, exposed, fence>>

ExpireBinding(k) ==
  /\ "expire" \in Disruptions
  /\ Expire(k)
  /\ forgotten' = forgotten \cup {k}
  /\ UNCHANGED <<routerVars, pc, input, req, workVars, invalidating, sends,
                 served, answered, exposed, fence>>

\* What other lanes, maintenance, clocks and operators do to the router.
RouterChange ==
  /\ \/ \E a \in Accounts :
          \/ "authRetry" \in Disruptions /\ AuthRetryElapsed(a)
          \/ "bearer" \in Disruptions /\ (BearerRejected(a) \/ BearerReplaced(a))
          \/ "login" \in Disruptions
               /\ (BeginLogin(a) \/ \E ok \in BOOLEAN : FinishLogin(a, ok))
          \/ "quota" \in Disruptions /\ (QuotaFailure(a) \/ QuotaCleared(a))
          \/ "usage" \in Disruptions /\ \E u \in 0..FullUsage, s, c \in BOOLEAN :
               ObserveUsage(a, u, s, c)
          \/ "avoid" \in Disruptions /\ (SoftFailure(a) \/ AvoidElapsed(a))
          \/ "capacity" \in Disruptions
               /\ (CapacityFailure(a, TRUE) \/ CapacityElapsed(a))
     \/ "order" \in Disruptions /\ EditRoles
  /\ UNCHANGED <<storeVars, pc, input, req, workVars, invalidating, historyVars>>

\* The process stops and starts again: the store remains, tasks do not.
Restart ==
  /\ "restart" \in Disruptions
  /\ runtime' = [a \in Accounts |-> FreshRuntime]
  /\ pc' = [r \in Requests |-> IF pc[r] = "new" THEN "new" ELSE "ended"]
  /\ req' = [r \in Requests |-> Blank]
  /\ permits' = {}
  /\ lease' = [r \in Requests |-> NoAccount]
  /\ inflight' = [a \in Accounts |-> 0]
  /\ ends' = [a \in Accounts |-> 0]
  /\ invalidating' = [a \in Accounts |-> 0]
  /\ UNCHANGED <<preferred, preserved, storeVars, input, historyVars>>

-----------------------------------------------------------------------------
Handle(r) ==
  \/ FindOwner(r) \/ OwnersFound(r)
  \/ SelectExact(r) \/ LookupThread(r) \/ LookupEpoch(r) \/ Pick(r)
  \/ Stamp(r) \/ Prebind(r)
  \/ Resolve(r) \/ Probe(r) \/ CheckEpoch(r) \/ CheckBinding(r)
  \/ CheckOrder(r) \/ Send(r)
  \/ Succeed(r) \/ Unauthorized(r) \/ Refreshed(r) \/ RefreshFailed(r)
  \/ Reject(r) \/ PassThrough(r) \/ Unreachable(r) \/ Fail(r)
  \/ TurnEpoch(r) \/ TurnPut(r) \/ Completed(r) \/ Uncompleted(r)
  \/ BindEpoch(r) \/ BindPut(r) \/ Relayed(r)

Next ==
  \/ \E r \in Requests : Arrive(r) \/ Handle(r) \/ ClientGone(r)
  \/ \E a \in Accounts : End(a) \/ AuthFailure(a) \/ Invalidate(a)
  \/ \E k \in Keys : ExpireBinding(k)
  \/ RouterChange
  \/ Restart

Spec == Init /\ [][Next]_vars

\* The runtime polls every task; upstream's answers are bounded by the
\* connect, header and body timeouts.
Fairness ==
  /\ \A r \in Requests : WF_vars(Handle(r))
  /\ \A a \in Accounts : WF_vars(End(a)) /\ WF_vars(Invalidate(a))

FairSpec == Spec /\ Fairness

-----------------------------------------------------------------------------
(* Properties.                                                             *)

\* Hard continuity never crosses accounts: a request that carries a turn
\* state or a response id is sent only to the account that issued it.
AnchoredSends ==
  \A r \in Requests : \A t \in input[r].anchors : \A i \in DOMAIN sends[r] :
    sends[r][i] = served[t[2]]

\* The fence at the dispatch boundary: a request is on the wire only if its
\* account's epoch did not change between the selection and the check that
\* follows the last await, through re-selections and the retry after a 401.
FencedDispatch ==
  \A r \in Requests : pc[r] = "sent" => fence[r].selected = fence[r].checked

\* A turn state the client has seen can be continued: its owner is on record
\* unless the record was invalidated or expired.
ExposedTurnsHaveOwners ==
  \A t \in exposed :
    \/ t \in forgotten
    \/ bindings[t] # NoBinding /\ bindings[t].account = served[t[2]]

\* At most two upstream sends for one request, and to two accounts only when
\* the request carries no anchor and no pin.
BoundedSends ==
  \A r \in Requests :
    /\ Len(sends[r]) <= 2
    /\ Len(sends[r]) = 2 /\ sends[r][1] # sends[r][2] =>
         input[r].anchors = {} /\ input[r].pin = NoAccount

\* A body that cannot move between accounts is answered by one account at
\* most, through every retry.
NonportableStays ==
  \A r \in Requests : ~input[r].portable =>
    \A x, y \in answered[r] : x[1] = y[1]

\* The router's count of begun work is the leases that are held plus the
\* releases that have not run yet: no lost and no double release.
InflightIsLeases ==
  \A a \in Accounts :
    inflight[a] = Cardinality({r \in Requests : lease[r] = a}) + ends[a]

\* What the retries of a request, written in four places, may together do.
RetriesKeepBounds == BoundedSends /\ NonportableStays /\ InflightIsLeases

\* A 401 never crosses accounts: once an account answered it, the request is
\* sent to no other account.
UnauthorizedNeverCrosses ==
  \A r \in Requests : \A a \in Accounts : <<a, "unauthorized">> \in answered[r] =>
    \A i, j \in DOMAIN sends[r] : i < j /\ sends[r][i] = a => sends[r][j] = a

\* A request with a hard owner does not move a shared cohort that is bound
\* to another account.
CohortsStay ==
  [][\A k \in SoftKeys :
       bindings[k] # NoBinding /\ bindings'[k] # NoBinding
         /\ bindings'[k].account # bindings[k].account
       => \E r \in Requests : input[r].key = k /\ ~input[r].hint
            /\ pc[r] \in {"prebind", "bindPut"} /\ ~Hard(r)]_vars

\* Every request that arrived comes to an end, whatever the store, the
\* upstream and the configuration do, and begun work is always released.
RequestsEnd ==
  /\ \A r \in Requests : pc[r] = "owners" ~> pc[r] = "ended"
  /\ \A a \in Accounts : inflight[a] > 0 ~> inflight[a] = 0
=============================================================================
