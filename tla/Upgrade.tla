------------------------------ MODULE Upgrade ------------------------------
(***************************************************************************)
(* WebSocket handshakes (src/proxy/mod.rs: handle_upgrade, and             *)
(* connect_direct_upstream for the sockets that a direct session opens     *)
(* later).                                                                 *)
(*                                                                         *)
(* A handshake holds one of the upgrade slots.  It selects an account,     *)
(* resolves its credentials, which may take long, validates the selection, *)
(* and sends; a stale selection, a 401 and a rejection share one second    *)
(* attempt.  The account's in-flight count is raised before the send and   *)
(* lowered on every way out.  What runs on the open socket is in           *)
(* DirectSocket; how accounts are ranked is in Router.                     *)
(***************************************************************************)
EXTENDS Integers, FiniteSets

CONSTANTS
  Upgrades,       \* client connections
  Accounts, NoAccount,
  Slots,          \* max_upgrades
  MaxTrouble,     \* bound: accounts invalidated, blocked or healed, dropped clients
  Nothing

VARIABLES
  epoch,          \* affinity.account_epoch
  blocked,        \* accounts the router would not dispatch to
  inflight,       \* requests begun and not ended, by account
  permits,        \* free upgrade slots
  thread,         \* binding of the soft key the connections share
  up,             \* the handshake or socket of each connection
  leaked,         \* history: counts that nobody will lower
  trouble

vars == <<epoch, blocked, inflight, permits, thread, up, leaked, trouble>>

-----------------------------------------------------------------------------
(* State.                                                                  *)

MaybeAccount == Accounts \cup {NoAccount}

\* "direct" sockets are parsed, "raw" ones relayed, "live" ones belong to a
\* voice call.
Modes == {"direct", "raw", "live"}

Stages == {"slot", "select", "resolve", "validate", "begun", "refresh",
           "rejected", "open", "evicted"}

Handshakes == [stage : Stages, mode : Modes, owner : MaybeAccount,
               attempt : 0..1, account : MaybeAccount, seen : Nat,
               bound : BOOLEAN, open : MaybeAccount]

UpgradeAssumption ==
  /\ IsFiniteSet(Upgrades)
  /\ Slots \in Nat
  /\ NoAccount \notin Accounts
  /\ Nothing \notin Handshakes

TypeOK ==
  /\ epoch \in [Accounts -> Nat]
  /\ blocked \subseteq Accounts
  /\ inflight \in [Accounts -> Int]
  /\ leaked \in [Accounts -> Nat]
  /\ permits \in Nat
  /\ thread \in MaybeAccount
  /\ up \in [Upgrades -> Handshakes \cup {Nothing}]
  /\ trouble \in Nat

Init ==
  /\ epoch = [a \in Accounts |-> 0]
  /\ blocked = {}
  /\ inflight = [a \in Accounts |-> 0]
  /\ permits = Slots
  /\ thread \in MaybeAccount
  /\ up = [u \in Upgrades |-> Nothing]
  /\ leaked = [a \in Accounts |-> 0]
  /\ trouble = 0

accountVars == <<epoch, blocked, trouble>>

Active(u) == up[u] # Nothing
At(u, s) == up[u] # Nothing /\ (up[u] # Nothing => up[u].stage = s)

Eligible == Accounts \ blocked

\* The socket a reconnecting session still has.
Kept(u) == up[u].open

\* The handshake ends with an answer or an error.  A session whose reconnect
\* failed keeps its socket; otherwise the slot is free again.
Ended(u) ==
  IF Kept(u) # NoAccount
  THEN up' = [up EXCEPT ![u].stage = "open"] /\ UNCHANGED permits
  ELSE up' = [up EXCEPT ![u] = Nothing] /\ permits' = permits + 1

-----------------------------------------------------------------------------
(* Admission and routing.                                                  *)

Handshake(m, owner, s) ==
  [stage |-> s, mode |-> m, owner |-> owner, attempt |-> 0,
   account |-> NoAccount, seen |-> 0, bound |-> FALSE, open |-> NoAccount]

\* A slot at once, or, for a direct connection, after an idle session.
Idle(v) == At(v, "open") /\ (At(v, "open") => up[v].mode = "direct")

(***************************************************************************)
(* Arrival.  `owner` is the account that the connection has to reach: of   *)
(* its voice call, of the turn state it carries, or the one its session is *)
(* assigned to; unknown and conflicting ones are refused, and so is a raw  *)
(* connection of a session that was moved.                                 *)
(***************************************************************************)
Arrive(u) ==
  /\ ~Active(u)
  /\ \E m \in Modes, owner \in MaybeAccount :
       /\ m = "live" => owner # NoAccount
       /\ \/ /\ permits > 0
             /\ permits' = permits - 1
             /\ up' = [up EXCEPT ![u] = Handshake(m, owner, "select")]
          \/ /\ permits = 0 /\ m = "direct"
             /\ \E v \in Upgrades :
                  /\ Idle(v)
                  /\ up' = [up EXCEPT ![u] = Handshake(m, owner, "slot"), ![v].stage = "evicted"]
             /\ UNCHANGED permits
  /\ UNCHANGED <<accountVars, inflight, thread, leaked>>

\* The slot comes within two seconds, or the client is told to retry.
GetSlot(u) ==
  /\ At(u, "slot")
  /\ \/ permits > 0 /\ permits' = permits - 1 /\ up' = [up EXCEPT ![u].stage = "select"]
     \/ up' = [up EXCEPT ![u] = Nothing] /\ UNCHANGED permits
  /\ UNCHANGED <<accountVars, inflight, thread, leaked>>

\* The selection of an account, which may be bound already, and its epoch.
Selection(u, a, owner, n, bound) ==
  [up[u] EXCEPT !.stage = "resolve", !.account = a, !.seen = epoch[a],
                !.attempt = n, !.owner = owner, !.bound = a \in bound]

\* select_exact for an owner; otherwise the key's account or another one,
\* which the key is then bound to.
Selected(u, excluded, n) ==
  \E a \in Eligible \ excluded :
    /\ up[u].owner \in {NoAccount, a}
    /\ up' = [up EXCEPT ![u] = Selection(u, a, up[u].owner, n, {up[u].owner, thread})]
    /\ thread' = IF up[u].owner = NoAccount THEN a ELSE thread

NoneEligible(u, excluded) ==
  /\ \/ up[u].owner = NoAccount /\ Eligible \subseteq excluded
     \/ up[u].owner # NoAccount /\ up[u].owner \notin Eligible \ excluded
  /\ Ended(u)
  /\ UNCHANGED thread

Select(u) ==
  /\ At(u, "select")
  /\ \/ Selected(u, {}, 0) /\ UNCHANGED permits
     \/ NoneEligible(u, {})
  /\ UNCHANGED <<accountVars, inflight, leaked>>

-----------------------------------------------------------------------------
(* Dispatch.                                                               *)

Resolve(u) ==
  /\ At(u, "resolve")
  /\ \/ up' = [up EXCEPT ![u].stage = "validate"] /\ UNCHANGED permits
     \/ Ended(u)
  /\ UNCHANGED <<accountVars, inflight, thread, leaked>>

\* validate_selection, and validate_account_wirable for a reconnect.
Holds(u) == up[u].account \in Eligible /\ epoch[up[u].account] = up[u].seen

FailsClosed(u) == up[u].owner # NoAccount \/ up[u].bound \/ Kept(u) # NoAccount

\* A fresh selection may also be superseded by the ranking.
Stale(u) ==
  /\ At(u, "validate")
  /\ ~Holds(u) \/ ~FailsClosed(u)
  /\ IF FailsClosed(u) \/ up[u].attempt = 1
     THEN Ended(u) /\ UNCHANGED thread
     ELSE \/ Selected(u, {up[u].account}, 1) /\ UNCHANGED permits
          \/ NoneEligible(u, {up[u].account})
  /\ UNCHANGED <<accountVars, inflight, leaked>>

Begin(u) ==
  /\ At(u, "validate") /\ Holds(u)
  /\ inflight' = [inflight EXCEPT ![up[u].account] = @ + 1]
  /\ up' = [up EXCEPT ![u].stage = "begun"]
  /\ UNCHANGED <<accountVars, permits, thread, leaked>>

EndOf(a) == inflight' = [inflight EXCEPT ![a] = @ - 1]

\* The bearer was rejected meanwhile, the connection or its protocol fails, or
\* the daemon accepts no more tasks.
Fails(u) ==
  /\ At(u, "begun")
  /\ EndOf(up[u].account)
  /\ Ended(u)
  /\ UNCHANGED <<accountVars, thread, leaked>>

\* 101: the keys are bound and the socket is open; a reconnect replaces the
\* lease of the socket it had.
Opened(u) ==
  /\ At(u, "begun")
  /\ up' = [up EXCEPT ![u].stage = "open", ![u].open = up[u].account]
  /\ IF Kept(u) = NoAccount
     THEN thread' = up[u].account /\ UNCHANGED inflight
     ELSE EndOf(Kept(u)) /\ UNCHANGED thread
  /\ UNCHANGED <<accountVars, permits, leaked>>

(***************************************************************************)
(* Any other answer.  A first 401 asks for a refresh.  After a rejection   *)
(* for quota, for which the account waits, or by a gateway another account *)
(* may be tried.  A reconnect lowers the count after the rejection's body, *)
(* which may take a second, and not before it.                             *)
(***************************************************************************)
Rejected(u, kind) ==
  /\ At(u, "begun")
  /\ EndOf(up[u].account)
  /\ CASE kind = "401" /\ up[u].attempt = 0 ->
            up' = [up EXCEPT ![u].stage = "refresh"] /\ UNCHANGED permits
       [] kind \in {"quota", "gateway"} ->
            up' = [up EXCEPT ![u].stage = "rejected"] /\ UNCHANGED permits
       [] OTHER -> Ended(u)
  /\ blocked' = IF kind = "quota" THEN blocked \cup {up[u].account} ELSE blocked
  /\ UNCHANGED <<epoch, trouble, thread, leaked>>

\* A refresh that succeeds for a selection that still holds earns the second
\* attempt.
Refreshed(u) ==
  /\ At(u, "refresh")
  /\ \/ /\ Holds(u)
        /\ up' = [up EXCEPT ![u] = [@ EXCEPT !.stage = "resolve", !.attempt = 1]]
        /\ UNCHANGED permits
     \/ Ended(u)
  /\ UNCHANGED <<accountVars, inflight, thread, leaked>>

\* Mutant: a connection with an owner may be tried elsewhere too.
RetryAnyone(u) == up[u].attempt = 0 /\ up[u].mode # "live" /\ Kept(u) = NoAccount

\* What may be tried elsewhere after a rejection.
Retry(u) ==
  /\ up[u].attempt = 0 /\ up[u].mode # "live" /\ up[u].owner = NoAccount
  /\ Kept(u) = NoAccount

\* The alternate is selected without the owner and bound before it answers.
TryAlternate(u) ==
  /\ At(u, "rejected")
  /\ IF Retry(u)
     THEN \/ \E a \in Eligible \ {up[u].account} :
               /\ up' = [up EXCEPT ![u] = Selection(u, a, up[u].owner, 1, {thread})]
               /\ thread' = a
               /\ UNCHANGED permits
          \/ /\ Eligible \subseteq {up[u].account}
             /\ Ended(u) /\ UNCHANGED thread
     ELSE Ended(u) /\ UNCHANGED thread
  /\ UNCHANGED <<accountVars, inflight, leaked>>

-----------------------------------------------------------------------------
(* Open sockets, clients and accounts.                                     *)

(***************************************************************************)
(* A frame of a direct session is routed elsewhere, or its socket has to   *)
(* be replaced: route_websocket_frame selects, exactly if the frame has an *)
(* owner.  A session that was asked to make room while its client sent a   *)
(* frame goes on too, and here may be asked again.                         *)
(***************************************************************************)
Reconnect(u) ==
  /\ At(u, "open") \/ At(u, "evicted")
  /\ up[u].mode = "direct"
  /\ \E a \in Eligible, owner \in MaybeAccount :
       /\ owner \in {NoAccount, a}
       /\ up' = [up EXCEPT ![u] = Selection(u, a, owner, 0, {a})]
  /\ UNCHANGED <<accountVars, inflight, permits, thread, leaked>>

Close(u) ==
  /\ At(u, "open") \/ At(u, "evicted")
  /\ EndOf(up[u].open)
  /\ permits' = permits + 1
  /\ up' = [up EXCEPT ![u] = Nothing]
  /\ UNCHANGED <<accountVars, thread, leaked>>

\* The client leaves during the handshake: the handler is dropped where it is,
\* and only the slot is given back.
Leave(u) ==
  /\ Active(u) /\ (Active(u) => Kept(u) = NoAccount)
  /\ trouble < MaxTrouble /\ trouble' = trouble + 1
  /\ leaked' = IF At(u, "begun") THEN [leaked EXCEPT ![up[u].account] = @ + 1] ELSE leaked
  /\ permits' = IF At(u, "slot") THEN permits ELSE permits + 1
  /\ up' = [up EXCEPT ![u] = Nothing]
  /\ UNCHANGED <<epoch, blocked, inflight, thread>>

\* The task of a session is aborted in the middle of a reconnect.
Aborted(u) ==
  /\ Active(u) /\ (Active(u) => Kept(u) # NoAccount /\ up[u].stage \notin {"open", "evicted"})
  /\ trouble < MaxTrouble /\ trouble' = trouble + 1
  /\ EndOf(Kept(u))
  /\ leaked' = IF At(u, "begun") THEN [leaked EXCEPT ![up[u].account] = @ + 1] ELSE leaked
  /\ permits' = permits + 1
  /\ up' = [up EXCEPT ![u] = Nothing]
  /\ UNCHANGED <<epoch, blocked, thread>>

Change(a) ==
  /\ trouble < MaxTrouble /\ trouble' = trouble + 1
  /\ \/ epoch' = [epoch EXCEPT ![a] = @ + 1] /\ UNCHANGED blocked
     \/ blocked' = blocked \cup {a} /\ UNCHANGED epoch
     \/ blocked' = blocked \ {a} /\ UNCHANGED epoch
  /\ UNCHANGED <<inflight, permits, thread, up, leaked>>

Next ==
  \/ \E u \in Upgrades :
       \/ Arrive(u) \/ GetSlot(u) \/ Select(u) \/ Resolve(u) \/ Stale(u) \/ Begin(u)
       \/ Fails(u) \/ Opened(u) \/ (\E k \in {"401", "quota", "gateway", "other"} : Rejected(u, k))
       \/ Refreshed(u) \/ TryAlternate(u) \/ Reconnect(u)
       \/ Close(u) \/ Leave(u) \/ Aborted(u)
  \/ \E a \in Accounts : Change(a)

Spec == Init /\ [][Next]_vars

-----------------------------------------------------------------------------
(* Properties.                                                             *)

(***************************************************************************)
(* A connection that has to reach one account, because of a voice call, a  *)
(* turn state or its session's assignment, is never sent to another one:   *)
(* not after a stale selection, a refresh or a rejection, and not when its *)
(* session opens further sockets.                                          *)
(***************************************************************************)
HandshakesStay ==
  \A u \in Upgrades : At(u, "begun") =>
    up[u].owner \in {NoAccount, up[u].account}

(***************************************************************************)
(* Every count is somebody's: of a handshake on the wire or of an open     *)
(* socket, also across a reconnect, which holds two.  The known ways to    *)
(* lose one are counted in `leaked`.                                       *)
(***************************************************************************)
CountsHaveOwners ==
  \A a \in Accounts :
    inflight[a] = leaked[a]
      + Cardinality({u \in Upgrades : At(u, "begun") /\ (At(u, "begun") => up[u].account = a)})
      + Cardinality({u \in Upgrades : Active(u) /\ (Active(u) => up[u].open = a)})

\* Every slot is free or held by one connection that no longer waits for it: on
\* no way out of a handshake or a session is it given back twice or kept.
SlotsHaveOwners ==
  permits + Cardinality({u \in Upgrades : Active(u) /\ ~At(u, "slot")}) = Slots
=============================================================================
