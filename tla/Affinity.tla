------------------------------ MODULE Affinity ------------------------------
(***************************************************************************)
(* The affinity store (src/routing/affinity.rs): a table of bindings,      *)
(* keyed by the hash of a continuity value, and a table of account epochs. *)
(* One worker thread owns the database connection and runs the jobs it is  *)
(* sent one after another, so each operator here is one atomic job; what a *)
(* caller does between two jobs is not.  Both tables survive a restart.    *)
(*                                                                         *)
(* A job may fail.  A failed lookup reads as "no binding"; a failed epoch  *)
(* lookup reads as u64::MAX, modelled by the value Unreadable, which the   *)
(* table cannot store (to_sql_u64 rejects it).                             *)
(***************************************************************************)
EXTENDS Naturals

CONSTANTS
  Accounts,
  Keys,          \* every continuity key a request may carry
  NoBinding,     \* what a lookup that finds nothing returns
  Unreadable,    \* what a failed epoch lookup returns
  StoreMayFail   \* whether jobs can fail

VARIABLES
  bindings,      \* [Keys -> Binding \cup {NoBinding}]
  epochs         \* [Accounts -> Nat]

Binding == [account : Accounts, generation : Nat]
Generation == Nat \cup {Unreadable}

AffinityTypeOK ==
  /\ bindings \in [Keys -> Binding \cup {NoBinding}]
  /\ epochs \in [Accounts -> Nat]

AffinityInit ==
  /\ bindings = [k \in Keys |-> NoBinding]
  /\ epochs = [a \in Accounts |-> 0]

\* What `get` may return.  (It also deletes a binding that has been idle too
\* long; that is Expire, which may run just before.)
Lookup(k) == {bindings[k]} \cup (IF StoreMayFail THEN {NoBinding} ELSE {})

\* What `account_epoch` may return.
Epoch(a) == {epochs[a]} \cup (IF StoreMayFail THEN {Unreadable} ELSE {})

\* Mutation of Put: the binding policy is ignored.
PutReplacing(k, a, generation, preserve) ==
  bindings' = [bindings EXCEPT ![k] = [account |-> a, generation |-> generation]]

\* `put` with the key's binding policy: with preserve, a binding to another
\* account stays as it is.
Put(k, a, generation, preserve) ==
  bindings' =
    IF preserve /\ bindings[k] # NoBinding /\ bindings[k].account # a
    THEN bindings
    ELSE [bindings EXCEPT ![k] = [account |-> a, generation |-> generation]]

\* Whether the job of a `put` can succeed, and whether it can fail.
PutCanSucceed(generation) == generation # Unreadable
PutCanFail(generation) == StoreMayFail \/ generation = Unreadable

\* Mutation of InvalidateAccount: the deletion forgets its condition.
InvalidateEverything(a) ==
  /\ bindings' = [k \in Keys |-> NoBinding]
  /\ epochs' = [epochs EXCEPT ![a] = @ + 1]

\* One transaction: the account's bindings go, and its epoch moves on.
InvalidateAccount(a) ==
  /\ bindings' = [k \in Keys |->
       IF bindings[k] # NoBinding /\ bindings[k].account = a
       THEN NoBinding ELSE bindings[k]]
  /\ epochs' = [epochs EXCEPT ![a] = @ + 1]

\* Idle expiry, on lookup, on startup, and periodically.
Expire(k) ==
  /\ bindings[k] # NoBinding
  /\ bindings' = [bindings EXCEPT ![k] = NoBinding]
  /\ UNCHANGED epochs
=============================================================================
