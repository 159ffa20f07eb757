----------------------------- MODULE MCDispatch -----------------------------
(***************************************************************************)
(* Instances of Dispatch for TLC.  Each run has the request contents, the  *)
(* upstream answers and the disruptions its question needs; together they  *)
(* take every action of the specification.                                 *)
(***************************************************************************)
EXTENDS DispatchImplements, TLC

CONSTANTS
  a1, a2, r1, r2, r3, cohort,
  MaxTrouble   \* bound on the flags that are set at once in `runtime`

Plain == NoInput
Shared == [Plain EXCEPT !.key = cohort]

NoOrders == {<<NoAccount, NoAccount>>}
TwoOrders == NoOrders \cup {<<a1, a2>>}
AllOrders ==
  {o \in (Members \cup {NoAccount}) \X (Members \cup {NoAccount}) :
     o[1] = o[2] => o[1] = NoAccount}

\* A first request; one that continues it, or only shares its cohort, or is
\* unrelated and served elsewhere; and one that continues the first two.
ContinuityInputs ==
  (r1 :> {Shared}) @@
  (r2 :> {[Shared EXCEPT !.anchors = {<<"turn", r1>>}],
          [Shared EXCEPT !.hint = TRUE],
          [Plain EXCEPT !.portable = FALSE]}) @@
  (r3 :> {[Plain EXCEPT !.anchors = {<<"response", r1>>, <<"response", r2>>}]})

\* A constraint: one account fails, while the second request is of the first
\* one's cohort; the third request, and rejections, occur when it is not.
Scenario ==
  LET failed   == {a \in Accounts : epochs[a] + invalidating[a] > 0}
      rejected == {r \in Requests : answered[r] # {} /\ served[r] = NoAccount}
      arrived  == {r \in Requests : pc[r] # "new"}
  IN  /\ Cardinality(failed) <= 1
      /\ r3 \in arrived => r2 \in arrived
      /\ r3 \in arrived \/ rejected # {} => input[r2].key = NoKey
      /\ r2 \in arrived /\ input[r2].key = NoKey => failed = {}

\* A request, and one that carries all that the first was given.
AnchorInputs ==
  (r1 :> {Plain}) @@
  (r2 :> {[Plain EXCEPT !.anchors = {<<"turn", r1>>, <<"response", r1>>}]})

\* A request that may and one that may not move between accounts.
RetryInputs ==
  (r1 :> {[Plain EXCEPT !.pin = p, !.portable = b] :
            p \in {NoAccount, a1}, b \in BOOLEAN})

\* The flags that differ from a fresh account, and a pair of roles no file has.
Trouble ==
  LET flags == DOMAIN FreshRuntime
  IN  Cardinality({af \in Accounts \X flags :
                     runtime[af[1]][af[2]] # FreshRuntime[af[2]]})
      + (IF <<preferred, preserved>> \in Orders THEN 0 ELSE 1)

Bounded == Trouble <= MaxTrouble

Symmetry == Permutations({a1, a2})
=============================================================================
