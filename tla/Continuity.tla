----------------------------- MODULE Continuity -----------------------------
(***************************************************************************)
(* What dispatch promises a client, without locks, stores, epochs, leases  *)
(* or retries (src/README.md, "Routing" and the retry rules under it).     *)
(*                                                                         *)
(* A request may continue earlier ones.  It reaches only the account that  *)
(* issued every one it continues.  At most two accounts see a request, and *)
(* once an account has answered a request whose body cannot move, no other *)
(* account sees it.  An answer comes from an account that was contacted,   *)
(* and the account that issued it never changes.                           *)
(***************************************************************************)
EXTENDS Naturals, FiniteSets

CONSTANTS Requests, Accounts, NoAccount, Unasked

VARIABLES
  asked,      \* what each request asks, or Unasked
  contacted,  \* the accounts it was sent to
  answered,   \* the accounts that answered it
  issuer      \* the account that answered it with success

vars == <<asked, contacted, answered, issuer>>

Question == [continues : SUBSET Requests, portable : BOOLEAN]

Init ==
  /\ asked = [r \in Requests |-> Unasked]
  /\ contacted = [r \in Requests |-> {}]
  /\ answered = [r \in Requests |-> {}]
  /\ issuer = [r \in Requests |-> NoAccount]

Ask(r) ==
  /\ asked[r] = Unasked
  /\ \E q \in Question : asked' = [asked EXCEPT ![r] = q]
  /\ UNCHANGED <<contacted, answered, issuer>>

Contact(r, a) ==
  /\ asked[r] # Unasked
  /\ issuer[r] = NoAccount
  /\ \A s \in asked[r].continues : issuer[s] = a
  /\ asked[r].portable \/ answered[r] \subseteq {a}
  /\ contacted' = [contacted EXCEPT ![r] = @ \cup {a}]
  /\ Cardinality(contacted'[r]) <= 2
  /\ UNCHANGED <<asked, answered, issuer>>

Refuse(r, a) ==
  /\ a \in contacted[r]
  /\ issuer[r] = NoAccount
  /\ answered' = [answered EXCEPT ![r] = @ \cup {a}]
  /\ UNCHANGED <<asked, contacted, issuer>>

Issue(r, a) ==
  /\ a \in contacted[r]
  /\ issuer[r] = NoAccount
  /\ answered' = [answered EXCEPT ![r] = @ \cup {a}]
  /\ issuer' = [issuer EXCEPT ![r] = a]
  /\ UNCHANGED <<asked, contacted>>

Next ==
  \E r \in Requests :
    \/ Ask(r)
    \/ \E a \in Accounts : Contact(r, a) \/ Refuse(r, a) \/ Issue(r, a)

Spec == Init /\ [][Next]_vars
=============================================================================
