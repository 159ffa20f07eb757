------------------------------ MODULE BodyProofs ------------------------------
(***************************************************************************)
(* What holds of a request's body, for all sets and bounds: how much the   *)
(* kept bodies take (ReplaySpool), what the scan of its metadata has seen  *)
(* (MetadataScan) and the history that a bridged create is materialized    *)
(* with (BridgeHistory).  As in ProxyProofs, the theorems are about all    *)
(* behaviours of MCProxy.                                                  *)
(***************************************************************************)
EXTENDS MCProxy, Sequences, SequenceTheorems, FiniteSetTheorems,
        WellFoundedInduction, TLAPS

-----------------------------------------------------------------------------
(* Induction over data.  The library's induction theorems are about an     *)
(* operator; what follows is about sets, and rests on a least element.     *)

LEMMA LeastNumber ==
  ASSUME NEW T, T \subseteq Nat, T # {}
  PROVE  \E m \in T : \A k \in T : m <= k
<1>1. IsWellFoundedOn(OpToRel(<, Nat), Nat)
  BY NatLessThanWellFounded, Zenon
<1>2. PICK m \in T : \A k \in T : ~(<<k, m>> \in OpToRel(<, Nat))
  BY <1>1, WFMin, Zenon
<1>3. \A k \in T : ~(k < m)
  BY <1>2, Zenon DEF OpToRel
<1>4. QED BY <1>3

\* Induction over the numbers.
LEMMA NumbersFollow ==
  ASSUME NEW Good, 0 \in Good,
         \A n \in Nat : n \in Good => n + 1 \in Good
  PROVE  Nat \subseteq Good
<1>1. SUFFICES ASSUME Nat \ Good # {} PROVE FALSE
  OBVIOUS
<1>2. PICK m \in Nat \ Good : \A k \in Nat \ Good : m <= k
  BY <1>1, LeastNumber, Zenon
<1>3. m - 1 \in Nat /\ m - 1 \in Good
  <2>1. m - 1 \in Nat
    BY <1>2
  <2>2. QED BY <2>1, <1>2
<1>4. QED BY <1>2, <1>3

\* What a sum takes of a set next.
Taken(s) == CHOOSE x \in s : TRUE
Rest(s) == s \ {Taken(s)}

LEMMA RestIsSmaller ==
  ASSUME NEW s, IsFiniteSet(s), s # {}
  PROVE  /\ Taken(s) \in s /\ Rest(s) \subseteq s
         /\ IsFiniteSet(Rest(s)) /\ Cardinality(Rest(s)) = Cardinality(s) - 1
<1>1. Taken(s) \in s
  BY Zenon DEF Taken
<1>2. QED BY <1>1, FS_RemoveElement DEF Rest

LEMMA RestOfSubset ==
  ASSUME NEW D, IsFiniteSet(D), NEW s \in SUBSET D, s # {}
  PROVE  Taken(s) \in D /\ Taken(s) \in s /\ Rest(s) \in SUBSET D
<1>1. IsFiniteSet(s)
  BY FS_Subset
<1>2. QED BY <1>1, RestIsSmaller

\* Induction over the subsets of a finite set.
LEMMA SubsetsFollow ==
  ASSUME NEW D, IsFiniteSet(D), NEW Good, {} \in Good,
         \A s \in SUBSET D : s # {} /\ Rest(s) \in Good => s \in Good
  PROVE  SUBSET D \subseteq Good
<1> DEFINE Sized == {n \in Nat : \A s \in SUBSET D : Cardinality(s) = n => s \in Good}
<1>1. \A s \in SUBSET D : IsFiniteSet(s) /\ Cardinality(s) \in Nat
  BY FS_Subset, FS_CardinalityType
<1>2. 0 \in Sized
  BY <1>1, FS_EmptySet
<1>3. ASSUME NEW n \in Nat, n \in Sized PROVE n + 1 \in Sized
  <2>1. SUFFICES ASSUME NEW s \in SUBSET D, Cardinality(s) = n + 1 PROVE s \in Good
    BY <1>3
  <2>2. s # {}
    <3>1. ASSUME s = {} PROVE Cardinality(s) = 0
      BY <3>1, FS_EmptySet, Zenon
    <3>2. QED BY <2>1, <3>1
  <2>3. Rest(s) \in SUBSET D /\ Cardinality(Rest(s)) = n
    BY <2>1, <2>2, <1>1, RestIsSmaller
  <2>4. Rest(s) \in Good
    BY <2>3, <1>3
  <2>5. QED BY <2>2, <2>4
<1> HIDE DEF Sized
<1>4. Nat \subseteq Sized
  BY <1>2, <1>3, NumbersFollow, Zenon
<1>5. QED
  BY <1>1, <1>4 DEF Sized

-----------------------------------------------------------------------------
(* Sums.                                                                   *)

\* The equation that the partial sums of f obey.
Sums(f, h) ==
  h = [s \in SUBSET DOMAIN f |-> IF s = {} THEN 0 ELSE f[Taken(s)] + h[Rest(s)]]

\* There are partial sums of f, over the sets of at most n elements first.
LEMMA SumsExist ==
  ASSUME NEW D, IsFiniteSet(D), NEW f \in [D -> Nat]
  PROVE  \E h : Sums(f, h)
<1> DEFINE Small(n) == {s \in SUBSET D : Cardinality(s) <= n}
           Partial(h, n) ==
             \A s \in Small(n) : h[s] = IF s = {} THEN 0 ELSE f[Taken(s)] + h[Rest(s)]
           Reached == {n \in Nat : \E h \in [SUBSET D -> Nat] : Partial(h, n)}
<1>1. \A s \in SUBSET D : IsFiniteSet(s) /\ Cardinality(s) \in Nat
  BY FS_Subset, FS_CardinalityType
<1>2. 0 \in Reached
  <2> DEFINE h == [s \in SUBSET D |-> 0]
  <2>1. h \in [SUBSET D -> Nat]
    OBVIOUS
  <2>2. \A s \in Small(0) : s = {}
    BY <1>1, FS_EmptySet
  <2>3. Partial(h, 0)
    BY <2>2
  <2>4. QED BY <2>1, <2>3
<1>3. ASSUME NEW n \in Nat, n \in Reached PROVE n + 1 \in Reached
  <2>1. PICK h \in [SUBSET D -> Nat] : Partial(h, n)
    BY <1>3
  <2> DEFINE g == [s \in SUBSET D |->
                     IF s \in Small(n) THEN h[s]
                     ELSE IF s = {} THEN 0 ELSE f[Taken(s)] + h[Rest(s)]]
  <2>2. ASSUME NEW s \in SUBSET D, s # {} PROVE Taken(s) \in D /\ Rest(s) \in SUBSET D
    BY <2>2, RestOfSubset, Zenon
  <2>3. g \in [SUBSET D -> Nat]
    BY <2>2
  <2>4. ASSUME NEW s \in Small(n + 1), s # {} PROVE Rest(s) \in Small(n)
    BY <2>4, <1>1, <2>2, RestIsSmaller
  <2>5. ASSUME NEW s \in Small(n + 1)
        PROVE  g[s] = IF s = {} THEN 0 ELSE f[Taken(s)] + g[Rest(s)]
    <3>1. CASE s = {}
      <4>1. {} \in Small(n)
        BY FS_EmptySet
      <4>2. QED BY <3>1, <4>1, <2>1
    <3>2. CASE s # {}
      <4>1. g[Rest(s)] = h[Rest(s)]
        BY <3>2, <2>4
      <4>2. CASE s \in Small(n)
        BY <3>2, <4>1, <4>2, <2>1
      <4>3. CASE s \notin Small(n)
        BY <3>2, <4>1, <4>3
      <4>4. QED BY <4>2, <4>3
    <3>3. QED BY <3>1, <3>2
  <2>6. Partial(g, n + 1)
    BY <2>5
  <2> HIDE DEF g, Partial
  <2>7. QED BY <2>3, <2>6
<1>4. Cardinality(D) \in Reached
  <2> HIDE DEF Reached
  <2>1. Nat \subseteq Reached
    BY <1>2, <1>3, NumbersFollow, Zenon
  <2>2. QED BY <2>1, FS_CardinalityType
<1>5. PICK h \in [SUBSET D -> Nat] : Partial(h, Cardinality(D))
  BY <1>4
<1>6. SUBSET D = Small(Cardinality(D))
  BY FS_Subset, FS_CardinalityType
<1>7. h = [s \in SUBSET D |-> IF s = {} THEN 0 ELSE f[Taken(s)] + h[Rest(s)]]
  BY <1>5, <1>6
<1>8. QED BY <1>7 DEF Sums

LEMMA TotalIsSum ==
  ASSUME NEW D, IsFiniteSet(D), NEW f \in [D -> Nat]
  PROVE  \E h : Sums(f, h) /\ S!Total(f) = h[D]
<1> DEFINE Choice == CHOOSE h : Sums(f, h)
<1>1. Sums(f, Choice)
  BY SumsExist, Zenon
<1>2. S!Total(f) = Choice[D]
  <2>1. S!Total(f) =
          (CHOOSE h : h = [s \in SUBSET DOMAIN f |->
                             IF s = {} THEN 0
                             ELSE f[CHOOSE x \in s : TRUE] + h[s \ {CHOOSE x \in s : TRUE}]])[DOMAIN f]
    BY Zenon DEF S!Total, S!FoldFunction, S!FoldFunctionOnSet, S!MapThenFoldSet
  <2>2. QED BY <2>1, Zenon DEF Sums, Taken, Rest
<1>3. QED BY <1>1, <1>2

\* The equation determines the sums, which are numbers.
LEMMA SumsAreNumbers ==
  ASSUME NEW D, IsFiniteSet(D), NEW f \in [D -> Nat], NEW h, Sums(f, h)
  PROVE  \A s \in SUBSET D : h[s] \in Nat
<1> DEFINE Good == {s \in SUBSET D : h[s] \in Nat}
<1>1. \A s \in SUBSET D : h[s] = IF s = {} THEN 0 ELSE f[Taken(s)] + h[Rest(s)]
  BY DEF Sums
<1>2. {} \in Good
  BY <1>1
<1>3. ASSUME NEW s \in SUBSET D, s # {}, Rest(s) \in Good PROVE s \in Good
  <2>1. Taken(s) \in D
    BY <1>3, RestOfSubset, Zenon
  <2>2. QED BY <2>1, <1>1, <1>3
<1>4. SUBSET D \subseteq Good
  <2> HIDE DEF Good
  <2>1. QED BY <1>2, <1>3, SubsetsFollow, Zenon
<1>5. QED BY <1>4

\* A sum of numbers is a number; that of zeros is zero.
LEMMA TotalIsNumber ==
  ASSUME NEW D, IsFiniteSet(D), NEW f \in [D -> Nat]
  PROVE  S!Total(f) \in Nat
<1>1. PICK h : Sums(f, h) /\ S!Total(f) = h[D]
  BY TotalIsSum, Zenon
<1>2. QED BY <1>1, SumsAreNumbers

\* Changing one number changes the sum by as much.
LEMMA TotalOfChange ==
  ASSUME NEW D, IsFiniteSet(D), NEW f \in [D -> Nat], NEW g \in [D -> Nat],
         NEW x \in D, \A y \in D \ {x} : g[y] = f[y]
  PROVE  S!Total(g) = S!Total(f) - f[x] + g[x]
<1>2. PICK h : Sums(f, h) /\ S!Total(f) = h[D]
  BY TotalIsSum, Zenon
<1>3. PICK k : Sums(g, k) /\ S!Total(g) = k[D]
  BY TotalIsSum, Zenon
<1>4. \A s \in SUBSET D : h[s] \in Nat /\ k[s] \in Nat
  BY <1>2, <1>3, SumsAreNumbers
<1>5. \A s \in SUBSET D :
        /\ h[s] = IF s = {} THEN 0 ELSE f[Taken(s)] + h[Rest(s)]
        /\ k[s] = IF s = {} THEN 0 ELSE g[Taken(s)] + k[Rest(s)]
  BY <1>2, <1>3 DEF Sums
<1> DEFINE Good == {s \in SUBSET D : k[s] = h[s] + (IF x \in s THEN g[x] - f[x] ELSE 0)}
<1>6. {} \in Good
  BY <1>5
<1>7. ASSUME NEW s \in SUBSET D, s # {}, Rest(s) \in Good PROVE s \in Good
  <2>1. Taken(s) \in s /\ Rest(s) \in SUBSET D
    BY <1>7, RestOfSubset, Zenon
  <2>2. h[s] = f[Taken(s)] + h[Rest(s)] /\ k[s] = g[Taken(s)] + k[Rest(s)]
    BY <1>7, <1>5
  <2>3. CASE Taken(s) = x
    <3>1. x \in s /\ x \notin Rest(s)
      BY <2>1, <2>3 DEF Rest
    <3>2. QED BY <3>1, <2>1, <2>2, <2>3, <1>4, <1>7
  <2>4. CASE Taken(s) # x
    <3>1. x \in s <=> x \in Rest(s)
      BY <2>4 DEF Rest
    <3>2. g[Taken(s)] = f[Taken(s)] /\ f[Taken(s)] \in Nat
      BY <2>1, <2>4
    <3>3. CASE x \in s
      BY <3>1, <3>2, <3>3, <2>1, <2>2, <1>4, <1>7
    <3>4. CASE x \notin s
      BY <3>1, <3>2, <3>4, <2>1, <2>2, <1>4, <1>7
    <3>5. QED BY <3>3, <3>4
  <2>5. QED BY <2>3, <2>4
<1>8. SUBSET D \subseteq Good
  <2> HIDE DEF Good
  <2>1. QED BY <1>6, <1>7, SubsetsFollow, Zenon
<1>9. k[D] = h[D] - f[x] + g[x]
  BY <1>8, <1>4
<1>10. QED BY <1>9, <1>2, <1>3

\* A sum of smaller numbers is not greater.
LEMMA TotalIsMonotonic ==
  ASSUME NEW D, IsFiniteSet(D), NEW f \in [D -> Nat], NEW g \in [D -> Nat],
         \A x \in D : f[x] <= g[x]
  PROVE  S!Total(f) <= S!Total(g)
<1>2. PICK h : Sums(f, h) /\ S!Total(f) = h[D]
  BY TotalIsSum, Zenon
<1>3. PICK k : Sums(g, k) /\ S!Total(g) = k[D]
  BY TotalIsSum, Zenon
<1>4. \A s \in SUBSET D : h[s] \in Nat /\ k[s] \in Nat
  BY <1>2, <1>3, SumsAreNumbers
<1>5. \A s \in SUBSET D :
        /\ h[s] = IF s = {} THEN 0 ELSE f[Taken(s)] + h[Rest(s)]
        /\ k[s] = IF s = {} THEN 0 ELSE g[Taken(s)] + k[Rest(s)]
  BY <1>2, <1>3 DEF Sums
<1> DEFINE Good == {s \in SUBSET D : h[s] <= k[s]}
<1>6. {} \in Good
  <2>1. h[{}] = 0 /\ k[{}] = 0
    BY <1>5
  <2>2. QED BY <2>1
<1>7. ASSUME NEW s \in SUBSET D, s # {}, Rest(s) \in Good PROVE s \in Good
  <2>1. Taken(s) \in D /\ Rest(s) \in SUBSET D
    BY <1>7, RestOfSubset, Zenon
  <2>2. h[s] = f[Taken(s)] + h[Rest(s)] /\ k[s] = g[Taken(s)] + k[Rest(s)]
    BY <1>7, <1>5
  <2>3. f[Taken(s)] <= g[Taken(s)] /\ f[Taken(s)] \in Nat /\ g[Taken(s)] \in Nat
    BY <2>1
  <2>4. QED BY <2>1, <2>2, <2>3, <1>4, <1>7
<1>8. SUBSET D \subseteq Good
  <2> HIDE DEF Good
  <2>1. QED BY <1>6, <1>7, SubsetsFollow, Zenon
<1>9. QED BY <1>8, <1>2, <1>3

\* A sum of zeros is zero.
LEMMA TotalOfZeros ==
  ASSUME NEW D, IsFiniteSet(D)
  PROVE  S!Total([x \in D |-> 0]) = 0
<1> DEFINE f == [x \in D |-> 0]
<1>1. f \in [D -> Nat] /\ \A x \in D : f[x] = 0
  OBVIOUS
<1> HIDE DEF f
<1>2. PICK h : Sums(f, h) /\ S!Total(f) = h[D]
  BY <1>1, TotalIsSum, Zenon
<1>3. \A s \in SUBSET D : h[s] = IF s = {} THEN 0 ELSE f[Taken(s)] + h[Rest(s)]
  BY <1>1, <1>2 DEF Sums
<1> DEFINE Good == {s \in SUBSET D : h[s] = 0}
<1>4. {} \in Good
  BY <1>3
<1>5. ASSUME NEW s \in SUBSET D, s # {}, Rest(s) \in Good PROVE s \in Good
  <2>1. Taken(s) \in D
    BY <1>5, RestOfSubset, Zenon
  <2>2. QED BY <2>1, <1>1, <1>3, <1>5
<1>6. SUBSET D \subseteq Good
  <2> HIDE DEF Good
  <2>1. QED BY <1>4, <1>5, SubsetsFollow, Zenon
<1>7. S!Total(f) = 0
  BY <1>6, <1>2
<1>8. QED BY <1>7, Zenon DEF f

-----------------------------------------------------------------------------
(* The limit of the spool.                                                 *)

\* What a request has in the counter, and what of it was found within the limit.
Counted == [r \in Bodies |-> body[r].size + body[r].adding]
Granted == [r \in Bodies |-> body[r].size + (IF body[r].over THEN 0 ELSE body[r].adding)]

SpoolRecord ==
  [stage : {"none", "reading", "adding", "wrapping", "failed", "memory", "files"},
   size : Nat, adding : Nat, over : BOOLEAN, files : SUBSET {0, 1}]

SpoolTypeOK ==
  /\ counter \in Int
  /\ body \in [Bodies -> SpoolRecord]
  /\ \A r \in Bodies :
       body[r].stage \notin {"adding", "wrapping"} => body[r].adding = 0

(***************************************************************************)
(* An addition is judged by the counter as it was with the addition in it; *)
(* so what has passed a judgement, whether or not its request has taken it *)
(* over already, is within the limit.                                      *)
(***************************************************************************)
SpoolInv ==
  part = "spool" =>
    SpoolTypeOK /\ counter = S!Total(Counted) /\ S!Total(Granted) <= GlobalLimit

LEMMA SpoolAlone ==
  ASSUME [ProxyNext]_proxy, part' = "spool"
  PROVE  part = "spool" /\ [S!Next]_(S!vars)
BY DEF ProxyNext, proxy, spoolVars, S!vars

LEMMA SpoolStart == ProxyInit => SpoolInv
<1> SUFFICES ASSUME S!Init PROVE SpoolInv
  BY DEF ProxyInit
<1>1. Counted = [r \in Bodies |-> 0] /\ Granted = [r \in Bodies |-> 0]
  BY DEF S!Init, S!None, Counted, Granted
<1>2. S!Total(Counted) = 0 /\ S!Total(Granted) = 0
  BY <1>1, TotalOfZeros, SpoolAssumption, Zenon
<1>3. SpoolTypeOK
  <2>1. S!None \in [stage : {"none"}, size : {0}, adding : {0}, over : {FALSE}, files : {{}}]
    BY DEF S!None, SpoolRecord
  <2>2. /\ S!None.stage = "none" /\ S!None.adding = 0
        /\ S!None \in
             SpoolRecord
    BY DEF S!None, SpoolRecord
  <2>3. QED BY <2>2 DEF S!Init, SpoolTypeOK
<1>4. QED BY <1>2, <1>3, SpoolAssumption DEF SpoolInv, S!Init

\* A request that goes from one state to another moves the sums with it.
LEMMA SpoolStep ==
  ASSUME SpoolTypeOK, counter = S!Total(Counted), S!Total(Granted) <= GlobalLimit,
         NEW r \in Bodies, NEW b, body' = [body EXCEPT ![r] = b],
         b \in SpoolRecord,
         b.stage \notin {"adding", "wrapping"} => b.adding = 0,
         counter' = counter + (b.size + b.adding) - (body[r].size + body[r].adding),
         \/ b.size + (IF b.over THEN 0 ELSE b.adding)
              <= body[r].size + (IF body[r].over THEN 0 ELSE body[r].adding)
         \/ counter' <= GlobalLimit
  PROVE  SpoolTypeOK' /\ counter' = S!Total(Counted') /\ S!Total(Granted') <= GlobalLimit
<1> DEFINE had == body[r].size + body[r].adding
           has == b.size + b.adding
           held == body[r].size + (IF body[r].over THEN 0 ELSE body[r].adding)
           holds == b.size + (IF b.over THEN 0 ELSE b.adding)
<1>1. IsFiniteSet(Bodies) /\ GlobalLimit \in Nat
  BY SpoolAssumption
<1>2. SpoolTypeOK'
  <2>1. counter' \in Int
    BY DEF SpoolTypeOK, SpoolRecord
  <2>2. \A p \in Bodies : body'[p] = IF p = r THEN b ELSE body[p]
    BY DEF SpoolTypeOK
  <2>3. body' \in [Bodies ->
          SpoolRecord]
    BY Zenon DEF SpoolTypeOK
  <2>4. \A p \in Bodies :
          body'[p].stage \notin {"adding", "wrapping"} => body'[p].adding = 0
    BY <2>2 DEF SpoolTypeOK
  <2>5. QED BY <2>1, <2>3, <2>4 DEF SpoolTypeOK
<1>3. Counted \in [Bodies -> Nat] /\ Granted \in [Bodies -> Nat]
  BY DEF SpoolTypeOK, SpoolRecord, Counted, Granted
<1>4. Counted' \in [Bodies -> Nat] /\ Granted' \in [Bodies -> Nat]
  BY <1>2 DEF SpoolTypeOK, SpoolRecord, Counted, Granted
<1>5. /\ had \in Nat /\ has \in Nat /\ held \in Nat /\ holds \in Nat
      /\ Counted[r] = had /\ Granted[r] = held
  BY DEF SpoolTypeOK, SpoolRecord, Counted, Granted
<1>6. Counted'[r] = has /\ Granted'[r] = holds
  BY DEF SpoolTypeOK, SpoolRecord, Counted, Granted
<1>7. \A p \in Bodies \ {r} : Counted'[p] = Counted[p]
  BY DEF SpoolTypeOK, SpoolRecord, Counted
<1>8. \A p \in Bodies \ {r} : Granted'[p] = Granted[p]
  BY DEF SpoolTypeOK, SpoolRecord, Granted
<1> HIDE DEF had, has, held, holds
<1>9. \A f, g \in [Bodies -> Nat] :
         (\A y \in Bodies \ {r} : g[y] = f[y]) => S!Total(g) = S!Total(f) - f[r] + g[r]
  BY <1>1, TotalOfChange
<1>10. S!Total(Counted') = S!Total(Counted) - had + has
  <2>1. S!Total(Counted') = S!Total(Counted) - Counted[r] + Counted'[r]
    BY <1>3, <1>4, <1>7, <1>9
  <2>2. QED BY <2>1, <1>5, <1>6
<1>11. S!Total(Granted') = S!Total(Granted) - held + holds
  <2>1. S!Total(Granted') = S!Total(Granted) - Granted[r] + Granted'[r]
    BY <1>3, <1>4, <1>8, <1>9
  <2>2. QED BY <2>1, <1>5, <1>6
<1>12. S!Total(Counted) \in Nat /\ S!Total(Granted) \in Nat /\ S!Total(Counted') \in Nat
      /\ S!Total(Granted') \in Nat
  BY <1>1, <1>3, <1>4, TotalIsNumber, Zenon
<1>13. counter' = S!Total(Counted')
  <2>1. counter' = counter + has - had
    BY DEF had, has
  <2>2. QED BY <2>1, <1>10, <1>12, <1>5
<1>14. S!Total(Granted') <= GlobalLimit
  <2>1. CASE holds <= held
    BY <2>1, <1>1, <1>5, <1>11, <1>12
  <2>2. CASE counter' <= GlobalLimit
    <3>1. \A x \in Bodies : Granted'[x] <= Counted'[x]
      BY <1>2 DEF SpoolTypeOK, SpoolRecord, Granted, Counted
    <3>2. S!Total(Granted') <= S!Total(Counted')
      BY <3>1, <1>1, <1>4, TotalIsMonotonic, Zenon
    <3>3. QED BY <3>2, <2>2, <1>1, <1>12, <1>13
  <2>3. QED BY <2>1, <2>2 DEF holds, held
<1>15. QED BY <1>2, <1>13, <1>14

\* Every step is that of one request.
LEMMA SpoolGoesOn ==
  ASSUME SpoolTypeOK, counter = S!Total(Counted), S!Total(Granted) <= GlobalLimit, S!Next
  PROVE  SpoolTypeOK' /\ counter' = S!Total(Counted') /\ S!Total(Granted') <= GlobalLimit
<1> DEFINE GoesWell ==
             SpoolTypeOK' /\ counter' = S!Total(Counted') /\ S!Total(Granted') <= GlobalLimit
           Goes(r, b) ==
             /\ body' = [body EXCEPT ![r] = b] /\ b \in SpoolRecord
             /\ b.stage \notin {"adding", "wrapping"} => b.adding = 0
             /\ counter' = counter + (b.size + b.adding) - (body[r].size + body[r].adding)
             /\ \/ b.size + (IF b.over THEN 0 ELSE b.adding)
                     <= body[r].size + (IF body[r].over THEN 0 ELSE body[r].adding)
                \/ counter' <= GlobalLimit
<1>1. ASSUME NEW r \in Bodies, NEW b, Goes(r, b) PROVE GoesWell
  BY <1>1, SpoolStep, Zenon
<1> SUFFICES GoesWell
  OBVIOUS
<1> HIDE DEF GoesWell
<1>2. PICK r \in Bodies :
        \/ S!Start(r) \/ S!Added(r) \/ S!Wrapped(r) \/ S!Refused(r) \/ S!Broken(r)
        \/ S!Failed(r) \/ S!Complete(r) \/ S!HandOut(r) \/ S!Dropped(r)
        \/ \E n \in 1..HardLimit : S!Frame(r, n) \/ S!Wrap(r, n)
        \/ \E n \in {0, 1} : S!Attempt(r, n)
  BY Zenon DEF S!Next
<1>3. /\ counter \in Int /\ GlobalLimit \in Nat /\ HardLimit \in Nat
      /\ body[r] \in SpoolRecord
      /\ body[r].stage \notin {"adding", "wrapping"} => body[r].adding = 0
  BY SpoolAssumption DEF SpoolTypeOK
<1>4. /\ body[r].stage \in
           {"none", "reading", "adding", "wrapping", "failed", "memory", "files"}
      /\ body[r].size \in Nat /\ body[r].adding \in Nat /\ body[r].over \in BOOLEAN
      /\ body[r].files \in SUBSET {0, 1}
  BY <1>3 DEF SpoolRecord
<1>5. CASE S!Start(r)
  <2> DEFINE b == [body[r] EXCEPT !.stage = "reading"]
  <2>1. Goes(r, b)
    BY <1>3, <1>4, <1>5 DEF SpoolRecord, S!Start, S!At
  <2> HIDE DEF Goes, b
  <2>2. QED BY <2>1, <1>1, Zenon
<1>6. CASE S!Added(r)
  <2> DEFINE b == S!KeptThen(r, "reading")
  <2>1. Goes(r, b)
    BY <1>3, <1>4, <1>6 DEF SpoolRecord, S!Added, S!At, S!KeptThen
  <2> HIDE DEF Goes, b
  <2>2. QED BY <2>1, <1>1, Zenon
<1>7. CASE S!Wrapped(r)
  <2> DEFINE b == S!KeptThen(r, "memory")
  <2>1. Goes(r, b)
    BY <1>3, <1>4, <1>7 DEF SpoolRecord, S!Wrapped, S!At, S!KeptThen
  <2> HIDE DEF Goes, b
  <2>2. QED BY <2>1, <1>1, Zenon
<1>8. CASE S!Refused(r)
  <2> DEFINE b == [body[r] EXCEPT !.stage = "failed", !.adding = 0]
  <2>3. body' = [body EXCEPT ![r] = b] /\ counter' = counter - body[r].adding
    BY <1>8, Zenon DEF S!Refused
  <2>4. /\ b \in SpoolRecord /\ b.stage = "failed" /\ b.size = body[r].size /\ b.adding = 0
        /\ b.over = body[r].over
    BY <1>3, <1>4 DEF SpoolRecord
  <2>5. body[r].over = TRUE
    BY <1>4, <1>8, Zenon DEF S!Refused
  <2>6. /\ counter' = counter + (b.size + b.adding) - (body[r].size + body[r].adding)
        /\ b.size + (IF b.over THEN 0 ELSE b.adding)
             <= body[r].size + (IF body[r].over THEN 0 ELSE body[r].adding)
    BY <1>3, <1>4, <2>3, <2>4, <2>5
  <2>1. Goes(r, b)
    BY <2>3, <2>4, <2>6
  <2> HIDE DEF Goes, b
  <2>2. QED BY <2>1, <1>1, Zenon
<1>9. CASE S!Broken(r)
  <2> DEFINE b == [body[r] EXCEPT !.stage = "failed"]
  <2>1. Goes(r, b)
    BY <1>3, <1>4, <1>9 DEF SpoolRecord, S!Broken, S!At
  <2> HIDE DEF Goes, b
  <2>2. QED BY <2>1, <1>1, Zenon
<1>10. CASE S!Failed(r) \/ S!HandOut(r) \/ S!Dropped(r)
  <2> DEFINE b == S!None
  <2>1. Goes(r, b)
    BY <1>3, <1>4, <1>10 DEF SpoolRecord, S!Failed, S!HandOut, S!Dropped, S!At, S!None
  <2> HIDE DEF Goes, b
  <2>2. QED BY <2>1, <1>1, Zenon
<1>11. CASE S!Complete(r)
  <2> DEFINE b == IF body[r].size <= MemoryLimit
                  THEN [body[r] EXCEPT !.stage = "memory"]
                  ELSE [body[r] EXCEPT !.stage = "files", !.files = {0, 1}]
  <2>3. body' = [body EXCEPT ![r] = b] /\ counter' = counter
    BY <1>11, Zenon DEF S!Complete
  <2>4. body[r].adding = 0
    BY <1>3, <1>11 DEF SpoolRecord, S!Complete, S!At
  <2>5. b \in SpoolRecord /\ b.size = body[r].size /\ b.adding = 0
        /\ b.stage \in {"memory", "files"}
    <3>1. CASE body[r].size <= MemoryLimit
      BY <1>3, <1>4, <2>4, <3>1 DEF SpoolRecord
    <3>2. CASE ~(body[r].size <= MemoryLimit)
      BY <1>3, <1>4, <2>4, <3>2 DEF SpoolRecord
    <3>3. QED BY <3>1, <3>2
  <2>6. /\ counter' = counter + (b.size + b.adding) - (body[r].size + body[r].adding)
        /\ b.size + (IF b.over THEN 0 ELSE b.adding)
             <= body[r].size + (IF body[r].over THEN 0 ELSE body[r].adding)
    BY <1>3, <1>4, <2>3, <2>4, <2>5
  <2>1. Goes(r, b)
    BY <2>3, <2>5, <2>6
  <2> HIDE DEF Goes, b
  <2>2. QED BY <2>1, <1>1, Zenon
<1>12. ASSUME NEW n \in 1..HardLimit, S!Frame(r, n) PROVE GoesWell
  <2>1. PICK o \in BOOLEAN : o = (counter + n > GlobalLimit)
    <3>1. (counter + n > GlobalLimit) \in BOOLEAN
      OBVIOUS
    <3>2. QED BY <3>1, Zenon
  <2> DEFINE b == [body[r] EXCEPT !.stage = "adding", !.adding = n, !.over = o]
  <2>3. body' = [body EXCEPT ![r] = b] /\ counter' = counter + n
    BY <1>12, <2>1, Zenon DEF S!Frame
  <2>4. /\ b \in SpoolRecord /\ b.stage = "adding" /\ b.size = body[r].size
        /\ b.adding = n /\ b.over = o
    <3>1. n \in Nat /\ body[r] \in SpoolRecord
      BY <1>3
    <3>2. b \in SpoolRecord
      BY <3>1 DEF SpoolRecord
    <3>3. QED BY <3>1 DEF SpoolRecord
  <2>5. body[r].adding = 0 /\ n \in Nat
    BY <1>3, <1>12 DEF SpoolRecord, S!Frame, S!At
  <2>6. counter' = counter + (b.size + b.adding) - (body[r].size + body[r].adding)
    BY <1>3, <1>4, <2>3, <2>4, <2>5
  <2>7. \/ b.size + (IF b.over THEN 0 ELSE b.adding)
             <= body[r].size + (IF body[r].over THEN 0 ELSE body[r].adding)
        \/ counter' <= GlobalLimit
    <3>1. CASE counter + n > GlobalLimit
      <4>1. b.over = TRUE
        BY <2>1, <2>4, <3>1, Zenon
      <4>2. b.size + (IF b.over THEN 0 ELSE b.adding) = body[r].size
        BY <4>1, <2>4, <1>4
      <4>3. body[r].size + (IF body[r].over THEN 0 ELSE body[r].adding) = body[r].size
        BY <2>5, <1>4
      <4>4. QED BY <4>2, <4>3, <1>4
    <3>2. CASE ~(counter + n > GlobalLimit)
      BY <3>2, <2>3, <2>5, <1>3
    <3>3. QED BY <3>1, <3>2
  <2>8. Goes(r, b)
    BY <2>3, <2>4, <2>6, <2>7, Zenon
  <2> HIDE DEF Goes, b
  <2>9. QED BY <2>8, <1>1, Zenon
<1>13. ASSUME NEW n \in 1..HardLimit, S!Wrap(r, n) PROVE GoesWell
  <2>1. PICK o \in BOOLEAN : o = (counter + n > GlobalLimit)
    <3>1. (counter + n > GlobalLimit) \in BOOLEAN
      OBVIOUS
    <3>2. QED BY <3>1, Zenon
  <2> DEFINE b == [body[r] EXCEPT !.stage = "wrapping", !.adding = n, !.over = o]
  <2>3. body' = [body EXCEPT ![r] = b] /\ counter' = counter + n
    BY <1>13, <2>1, Zenon DEF S!Wrap
  <2>4. /\ b \in SpoolRecord /\ b.stage = "wrapping" /\ b.size = body[r].size
        /\ b.adding = n /\ b.over = o
    <3>1. n \in Nat /\ body[r] \in SpoolRecord
      BY <1>3
    <3>2. b \in SpoolRecord
      BY <3>1 DEF SpoolRecord
    <3>3. QED BY <3>1 DEF SpoolRecord
  <2>5. body[r].adding = 0 /\ n \in Nat
    BY <1>3, <1>13 DEF SpoolRecord, S!Wrap, S!At
  <2>6. counter' = counter + (b.size + b.adding) - (body[r].size + body[r].adding)
    BY <1>3, <1>4, <2>3, <2>4, <2>5
  <2>7. \/ b.size + (IF b.over THEN 0 ELSE b.adding)
             <= body[r].size + (IF body[r].over THEN 0 ELSE body[r].adding)
        \/ counter' <= GlobalLimit
    <3>1. CASE counter + n > GlobalLimit
      <4>1. b.over = TRUE
        BY <2>1, <2>4, <3>1, Zenon
      <4>2. b.size + (IF b.over THEN 0 ELSE b.adding) = body[r].size
        BY <4>1, <2>4, <1>4
      <4>3. body[r].size + (IF body[r].over THEN 0 ELSE body[r].adding) = body[r].size
        BY <2>5, <1>4
      <4>4. QED BY <4>2, <4>3, <1>4
    <3>2. CASE ~(counter + n > GlobalLimit)
      BY <3>2, <2>3, <2>5, <1>3
    <3>3. QED BY <3>1, <3>2
  <2>8. Goes(r, b)
    BY <2>3, <2>4, <2>6, <2>7, Zenon
  <2> HIDE DEF Goes, b
  <2>9. QED BY <2>8, <1>1, Zenon
<1>14. ASSUME NEW n \in {0, 1}, S!Attempt(r, n) PROVE GoesWell
  <2> DEFINE b == [body[r] EXCEPT !.files = @ \ {n}]
  <2>1. Goes(r, b)
    BY <1>3, <1>4, <1>14 DEF SpoolRecord, S!Attempt, S!At
  <2> HIDE DEF Goes, b
  <2>2. QED BY <2>1, <1>1, Zenon
<1>15. QED
  BY <1>2, <1>5, <1>6, <1>7, <1>8, <1>9, <1>10, <1>11, <1>12, <1>13, <1>14, Zenon

(***************************************************************************)
(* For any number of requests and any limits: what the requests hold never *)
(* exceeds the limit together, and the counter is exactly what they hold   *)
(* and have just added.                                                    *)
(***************************************************************************)
THEOREM SpoolBoundedAlways == ProxySpec => []SpoolBounded
<1>1. ProxyInit => SpoolInv
  BY SpoolStart
<1>2. SpoolInv /\ [ProxyNext]_proxy => SpoolInv'
  <2>1. SUFFICES ASSUME SpoolInv, [ProxyNext]_proxy, part' = "spool"
                 PROVE  /\ SpoolTypeOK' /\ counter' = S!Total(Counted')
                        /\ S!Total(Granted') <= GlobalLimit
    BY DEF SpoolInv
  <2>2. part = "spool" /\ [S!Next]_(S!vars)
    BY <2>1, SpoolAlone
  <2>3. SpoolTypeOK /\ counter = S!Total(Counted) /\ S!Total(Granted) <= GlobalLimit
    BY <2>1, <2>2 DEF SpoolInv
  <2>4. CASE S!Next
    BY <2>3, <2>4, SpoolGoesOn
  <2>5. CASE UNCHANGED S!vars
    <3>1. Counted' = Counted /\ Granted' = Granted
      BY <2>5 DEF SpoolRecord, S!vars, Counted, Granted
    <3>2. QED BY <2>3, <2>5, <3>1 DEF SpoolRecord, S!vars, SpoolTypeOK
  <2>6. QED BY <2>2, <2>4, <2>5
<1>3. SpoolInv => SpoolBounded
  <2>1. SUFFICES ASSUME SpoolTypeOK, counter = S!Total(Counted), S!Total(Granted) <= GlobalLimit
                 PROVE  S!SpoolBounded /\ S!CounterExact
    BY DEF SpoolInv, SpoolBounded
  <2> DEFINE sizes == [r \in Bodies |-> body[r].size]
  <2>2. IsFiniteSet(Bodies) /\ GlobalLimit \in Nat
    BY SpoolAssumption
  <2>3. sizes \in [Bodies -> Nat] /\ Granted \in [Bodies -> Nat]
    BY <2>1 DEF SpoolTypeOK, SpoolRecord, Granted
  <2>4. \A r \in Bodies : sizes[r] <= Granted[r]
    BY <2>1 DEF SpoolTypeOK, SpoolRecord, Granted
  <2> HIDE DEF sizes
  <2>5. S!Total(sizes) <= S!Total(Granted)
    BY <2>2, <2>3, <2>4, TotalIsMonotonic, Zenon
  <2>6. S!Total(sizes) \in Nat /\ S!Total(Granted) \in Nat
    BY <2>2, <2>3, TotalIsNumber, Zenon
  <2>7. S!Total(sizes) <= GlobalLimit
    BY <2>1, <2>2, <2>5, <2>6
  <2>8. S!SpoolBounded
    BY <2>7, Zenon DEF S!SpoolBounded, sizes
  <2>9. S!CounterExact
    BY <2>1, Zenon DEF S!CounterExact, Counted
  <2>10. QED BY <2>8, <2>9
<1>4. QED
  BY <1>1, <1>2, <1>3, PTL DEF ProxySpec

-----------------------------------------------------------------------------
(* The scan of a request's metadata.                                       *)

Kinds ==
  {"model", "client_metadata", "previous_response_id", "input", "thread_id",
   "file_id", "type", "other"}

Found == Contents \cup {Nothing}

FrameRecord ==
  [object : BOOLEAN, key : Names \cup {Nothing}, type : Found, file : Found,
   of : Names \cup {Nothing}, item : BOOLEAN]

ContainerRecord ==
  [object : BOOLEAN, expect_key : BOOLEAN, file_id : Found,
   account_scoped_file : BOOLEAN, input_array : BOOLEAN, native_input_item : BOOLEAN]

Scanned ==
  [containers : Seq(ContainerRecord), client : Nat, key : Kinds \cup {Nothing},
   pending : Kinds \cup {Nothing}, off : BOOLEAN, model : Found, thread : Found,
   previous : Found, files : SUBSET Found, overflow : BOOLEAN, owned : BOOLEAN]

Parsed ==
  [model : Found, thread : Found, previous : Found, files : SUBSET Found,
   owned : BOOLEAN, escaped : BOOLEAN]

PathTypeOK ==
  /\ path \in Seq(FrameRecord) /\ parsed \in Parsed
  /\ \A i \in 1..Len(path) : ~path[i].object => path[i].key = Nothing
  /\ next \in {"value", "key", "colon", "comma", "end"}
  /\ next \in {"key", "colon"} => Len(path) > 0 /\ path[Len(path)].object
  /\ next = "comma" => Len(path) > 0

\* The container c of the scanner stands for the frame p of the parser, the i-th.
Related(p, c, i, ours, spelled) ==
  /\ c.object <=> p.object
  /\ ~ours =>
       /\ c.input_array <=> (i = 2 /\ ~p.object /\ p.of = "input")
       /\ c.native_input_item <=> (p.object /\ p.item)
       /\ p.type \notin M!OwnedTypes
       /\ ~spelled =>
            /\ p.type \in M!FileTypes => c.account_scoped_file
            /\ p.file # Nothing => c.file_id = p.file

\* The kind of a property is what its name, at its place, announces.
Announces(kind, p, i, metadata, ours) ==
  IF p.object
  THEN /\ kind = "model" <=> (i = 1 /\ p.key = "model")
       /\ ~ours =>
            /\ \A t \in {"client_metadata", "previous_response_id", "input"} :
                 kind = t <=> (i = 1 /\ p.key = t)
            /\ kind = "thread_id" <=> (metadata = i /\ p.key = "thread_id")
            /\ \A t \in {"file_id", "type"} : kind = t <=> p.key = t
  ELSE kind = Nothing

\* The depth of the root's client_metadata while it is open.
Metadata(q) ==
  IF Len(q) >= 2 /\ q[2].object /\ q[2].of = "client_metadata" THEN 2 ELSE 0

ContainersRelated ==
  /\ Len(scan.containers) = Len(path)
  /\ \A i \in 1..Len(path) :
       Related(path[i], scan.containers[i], i, scan.owned, parsed.escaped)

KindsAnnounced ==
  /\ next = "colon" =>
       Announces(scan.key, path[Len(path)], Len(path), scan.client, scan.owned)
  /\ next = "value" =>
       IF Len(path) = 0 THEN scan.pending = Nothing
       ELSE Announces(scan.pending, path[Len(path)], Len(path), scan.client, scan.owned)

AtModel ==
  Len(path) = 1 /\ next \in {"colon", "value"} /\ path[1].key = "model"

ModelKept == scan.model = IF AtModel THEN Nothing ELSE parsed.model

IdsKept ==
  ~scan.owned =>
    /\ scan.client = Metadata(path) /\ ~parsed.owned
    /\ ~parsed.escaped =>
         /\ parsed.previous \in {Nothing, scan.previous}
         /\ parsed.thread \in {Nothing, scan.thread}
         /\ parsed.files \subseteq scan.files

(***************************************************************************)
(* Container by container the scanner's few flags stand for what the       *)
(* parser knows, until it has given the request up as owned, or stopped.   *)
(***************************************************************************)
Together == ContainersRelated /\ KindsAnnounced /\ ModelKept /\ IdsKept

ScanInv ==
  part = "scan" =>
    /\ PathTypeOK /\ scan \in Scanned
    /\ scan.off => scan.owned \/ scan.overflow
    /\ ~scan.off => Together

LEMMA ScanAlone ==
  ASSUME [ProxyNext]_proxy, part' = "scan"
  PROVE  part = "scan" /\ [M!Next]_(M!vars)
BY DEF ProxyNext, proxy, scanVars, M!vars

\* What is set, added or dropped is the last; the others stay.
LEMMA LastSet ==
  ASSUME NEW T, NEW q \in Seq(T), Len(q) > 0, NEW e \in T
  PROVE  /\ M!SetLast(q, e) \in Seq(T) /\ Len(M!SetLast(q, e)) = Len(q)
         /\ M!SetLast(q, e)[Len(q)] = e
         /\ \A i \in 1..Len(q) : i # Len(q) => M!SetLast(q, e)[i] = q[i]
BY DEF M!SetLast

LEMMA LastAdded ==
  ASSUME NEW T, NEW q \in Seq(T), NEW e \in T
  PROVE  /\ Append(q, e) \in Seq(T) /\ Len(Append(q, e)) = Len(q) + 1
         /\ Append(q, e)[Len(q) + 1] = e
         /\ \A i \in 1..Len(q) : Append(q, e)[i] = q[i]
OBVIOUS

LEMMA LastDropped ==
  ASSUME NEW T, NEW q \in Seq(T), Len(q) > 0
  PROVE  /\ M!Front(q) \in Seq(T) /\ Len(M!Front(q)) = Len(q) - 1
         /\ \A i \in 1..Len(q) - 1 : M!Front(q)[i] = q[i]
<1>1. PICK n \in Nat : n = Len(q) - 1
  OBVIOUS
<1>5. 1 \in Int /\ n \in Int /\ \A i \in 1..n : q[i] \in T
  BY <1>1
<1>6. /\ SubSeq(q, 1, n) \in Seq(T)
      /\ Len(SubSeq(q, 1, n)) = IF 1 <= n THEN n - 1 + 1 ELSE 0
      /\ \A i \in 1..(n - 1 + 1) : SubSeq(q, 1, n)[i] = q[1 + i - 1]
  BY <1>5, SubSeqProperties, SMTT(30)
<1>2. /\ SubSeq(q, 1, n) \in Seq(T) /\ Len(SubSeq(q, 1, n)) = n
      /\ \A i \in 1..n : SubSeq(q, 1, n)[i] = q[i]
  BY <1>6
<1>3. M!Front(q) = SubSeq(q, 1, n)
  BY <1>1, Zenon DEF M!Front
<1>4. QED BY <1>1, <1>2, <1>3

LEMMA LastOf ==
  ASSUME NEW T, NEW q \in Seq(T), Len(q) > 0
  PROVE  M!Last(q) = q[Len(q)] /\ q[Len(q)] \in T
BY DEF M!Last

LEMMA RelatedStays ==
  ASSUME NEW p, NEW c, NEW i, NEW ours, NEW spelled, Related(p, c, i, ours, spelled),
         NEW ours2, NEW spelled2, ours => ours2, spelled => spelled2
  PROVE  Related(p, c, i, ours2, spelled2)
BY DEF Related

\* What a name announces.
LEMMA KindIs ==
  ASSUME NEW s
  PROVE  /\ M!Kind(s) \in Kinds
         /\ M!Kind(s) = "model" <=> (Len(scan.containers) = 1 /\ s.text = "model")
         /\ ~s.escaped =>
              /\ \A t \in {"client_metadata", "previous_response_id", "input"} :
                   M!Kind(s) = t <=> (Len(scan.containers) = 1 /\ s.text = t)
              /\ M!Kind(s) = "thread_id"
                   <=> (scan.client = Len(scan.containers) /\ s.text = "thread_id")
              /\ \A t \in {"file_id", "type"} : M!Kind(s) = t <=> s.text = t
BY Zenon DEF M!Kind, M!ScanDepth, Kinds

-----------------------------------------------------------------------------
(* What the parser makes of a value, a name, an opened or closed container. *)

LEMMA AssignedIs ==
  ASSUME NEW p \in FrameRecord, NEW x \in Found
  PROVE  /\ M!Assigned(p, x) \in FrameRecord
         /\ M!Assigned(p, x).object = p.object /\ M!Assigned(p, x).key = p.key
         /\ M!Assigned(p, x).of = p.of /\ M!Assigned(p, x).item = p.item
         /\ M!Assigned(p, x).type = IF p.object /\ p.key = "type" THEN x ELSE p.type
         /\ M!Assigned(p, x).file = IF p.object /\ p.key = "file_id" THEN x ELSE p.file
<1>1. CASE p.object = TRUE
  BY <1>1 DEF M!Assigned, FrameRecord
<1>2. CASE p.object = FALSE
  BY <1>2 DEF M!Assigned, FrameRecord
<1>3. QED BY <1>1, <1>2 DEF FrameRecord

\* The key of the innermost container.
KeyOfLast == IF Len(path) = 0 THEN Nothing ELSE path[Len(path)].key

LEMMA RootIs ==
  ASSUME PathTypeOK, NEW x \in Found
  PROVE  /\ M!AssignedRoot(x) \in Parsed
         /\ M!AssignedRoot(x).files = parsed.files
         /\ M!AssignedRoot(x).owned = parsed.owned
         /\ M!AssignedRoot(x).escaped = parsed.escaped
         /\ M!AssignedRoot(x).model =
              IF Len(path) = 1 /\ KeyOfLast = "model" THEN x ELSE parsed.model
         /\ M!AssignedRoot(x).previous =
              IF Len(path) = 1 /\ KeyOfLast = "previous_response_id" THEN x ELSE parsed.previous
         /\ M!AssignedRoot(x).thread =
              IF Len(path) = 2 /\ KeyOfLast = "thread_id"
                   /\ path[2].object /\ path[2].of = "client_metadata"
              THEN x
              ELSE IF Len(path) = 1 /\ KeyOfLast = "client_metadata" THEN Nothing
              ELSE parsed.thread
<1> DEFINE k == IF M!Depth = 0 THEN Nothing ELSE M!Last(path).key
           m == IF M!Depth = 1 /\ k = "model" THEN x ELSE parsed.model
           pr == IF M!Depth = 1 /\ k = "previous_response_id" THEN x ELSE parsed.previous
           th == IF M!Depth = 2 /\ k = "thread_id" /\ path[2].object
                      /\ path[2].of = "client_metadata"
                 THEN x
                 ELSE IF M!Depth = 1 /\ k = "client_metadata" THEN Nothing
                 ELSE parsed.thread
<1>1. k = KeyOfLast /\ M!Depth = Len(path)
  BY LastOf DEF M!Depth, KeyOfLast, M!Last
<1>2. M!AssignedRoot(x) = [parsed EXCEPT !.model = m, !.previous = pr, !.thread = th]
  BY Zenon DEF M!AssignedRoot
<1>3. parsed \in Parsed
  BY DEF PathTypeOK
<1>4. m \in Found /\ pr \in Found /\ th \in Found
  BY <1>3 DEF Parsed, Found
<1> HIDE DEF m, pr, th, k
<1>5. /\ M!AssignedRoot(x) \in Parsed
      /\ M!AssignedRoot(x).files = parsed.files
      /\ M!AssignedRoot(x).owned = parsed.owned
      /\ M!AssignedRoot(x).escaped = parsed.escaped
      /\ M!AssignedRoot(x).model = m /\ M!AssignedRoot(x).previous = pr
      /\ M!AssignedRoot(x).thread = th
  BY <1>2, <1>3, <1>4 DEF Parsed
<1>6. QED BY <1>1, <1>5, Zenon DEF m, pr, th

LEMMA OpenedFrameIs ==
  ASSUME PathTypeOK, NEW object \in BOOLEAN
  PROVE  /\ M!Frame(object) \in FrameRecord
         /\ M!Frame(object).object = object /\ M!Frame(object).key = Nothing
         /\ M!Frame(object).type = Nothing /\ M!Frame(object).file = Nothing
         /\ M!Frame(object).of = KeyOfLast
         /\ M!Frame(object).item
              <=> (Len(path) = 2 /\ ~path[2].object /\ path[2].of = "input")
<1> DEFINE k == IF M!Depth > 0 THEN M!Last(path).key ELSE Nothing
<1>1. k = KeyOfLast /\ M!Depth = Len(path) /\ k \in Names \cup {Nothing}
  <2>1. CASE Len(path) = 0
    BY <2>1 DEF KeyOfLast, M!Depth
  <2>2. CASE Len(path) > 0
    <3>1. path[Len(path)] \in FrameRecord
      BY <2>2 DEF PathTypeOK
    <3>2. path[Len(path)].key \in Names \cup {Nothing}
      BY <3>1 DEF FrameRecord
    <3>3. QED BY <2>2, <3>2 DEF KeyOfLast, M!Depth, M!Last
  <2>3. QED BY <2>1, <2>2 DEF PathTypeOK
<1>2. PICK item \in BOOLEAN :
        item = (M!Depth = 2 /\ ~path[2].object /\ path[2].of = "input")
  OBVIOUS
<1> HIDE DEF k
<1>3. M!Frame(object) = [object |-> object, key |-> Nothing, type |-> Nothing,
                         file |-> Nothing, of |-> k, item |-> item]
  BY <1>2, Zenon DEF M!Frame, k
<1>4. M!Frame(object) \in FrameRecord
  BY <1>1, <1>3 DEF FrameRecord, Found
<1>5. M!Frame(object).item = item
  BY <1>3
<1>6. M!Frame(object).item
        <=> (Len(path) = 2 /\ ~path[2].object /\ path[2].of = "input")
  <2>1. item <=> (Len(path) = 2 /\ ~path[2].object /\ path[2].of = "input")
    BY <1>2, Zenon DEF M!Depth
  <2>2. QED BY <2>1, <1>5, Zenon
<1>7. QED BY <1>1, <1>3, <1>4, <1>6

LEMMA NamedIs ==
  ASSUME PathTypeOK, NEW k
  PROVE  /\ M!Named(k) \in Parsed
         /\ M!Named(k).model = parsed.model /\ M!Named(k).thread = parsed.thread
         /\ M!Named(k).previous = parsed.previous /\ M!Named(k).files = parsed.files
         /\ M!Named(k).escaped = parsed.escaped
         /\ M!Named(k).owned <=>
              \/ parsed.owned \/ k \in M!OwnedKeys
              \/ M!Depth = 1 /\ k \in M!OwnedRootKeys
              \/ M!Last(path).item /\ k = "id"
<1>1. PICK o \in BOOLEAN :
        o = (\/ parsed.owned \/ k \in M!OwnedKeys
             \/ M!Depth = 1 /\ k \in M!OwnedRootKeys
             \/ M!Last(path).item /\ k = "id")
  OBVIOUS
<1>2. M!Named(k) = [parsed EXCEPT !.owned = o]
  BY <1>1, Zenon DEF M!Named
<1>3. QED BY <1>1, <1>2 DEF PathTypeOK, Parsed

LEMMA SpelledIs ==
  ASSUME NEW q \in Parsed, NEW s
  PROVE  /\ M!Spelled(q, s) \in Parsed
         /\ M!Spelled(q, s).model = q.model /\ M!Spelled(q, s).thread = q.thread
         /\ M!Spelled(q, s).previous = q.previous /\ M!Spelled(q, s).files = q.files
         /\ M!Spelled(q, s).owned = q.owned
         /\ M!Spelled(q, s).escaped <=> q.escaped \/ (s.escaped /\ M!Last(path).key \in M!Ids)
<1>1. PICK o \in BOOLEAN : o = (q.escaped \/ (s.escaped /\ M!Last(path).key \in M!Ids))
  OBVIOUS
<1>2. M!Spelled(q, s) = [q EXCEPT !.escaped = o]
  BY <1>1, Zenon DEF M!Spelled
<1>3. QED BY <1>1, <1>2 DEF Parsed

LEMMA ClosedIs ==
  ASSUME PathTypeOK, NEW p \in FrameRecord
  PROVE  /\ M!Closed(p) \in Parsed
         /\ M!Closed(p).model = parsed.model /\ M!Closed(p).thread = parsed.thread
         /\ M!Closed(p).previous = parsed.previous /\ M!Closed(p).escaped = parsed.escaped
         /\ M!Closed(p).files = IF p.type \in M!FileTypes /\ p.file # Nothing
                                THEN parsed.files \cup {p.file} ELSE parsed.files
         /\ M!Closed(p).owned <=> parsed.owned \/ p.type \in M!OwnedTypes
<1> DEFINE f == IF p.type \in M!FileTypes /\ p.file # Nothing
                THEN parsed.files \cup {p.file} ELSE parsed.files
<1>1. PICK o \in BOOLEAN : o = (parsed.owned \/ p.type \in M!OwnedTypes)
  OBVIOUS
<1>2. M!Closed(p) = [parsed EXCEPT !.files = f, !.owned = o]
  BY <1>1, Zenon DEF M!Closed
<1>3. f \in SUBSET Found
  BY DEF PathTypeOK, Parsed, FrameRecord
<1> HIDE DEF f
<1>4. M!Closed(p).files = f
  BY <1>2 DEF PathTypeOK, Parsed
<1>5. QED
  <2>1. M!Closed(p) \in Parsed
    BY <1>2, <1>3 DEF PathTypeOK, Parsed
  <2>2. QED BY <2>1, <1>1, <1>2, <1>4 DEF f, PathTypeOK, Parsed

-----------------------------------------------------------------------------
(* What the scanner makes of the same tokens.                              *)

\* All but a container's expect_key stays.
SameContainer(c, d) ==
  /\ c.object = d.object /\ c.file_id = d.file_id
  /\ c.account_scoped_file = d.account_scoped_file
  /\ c.input_array = d.input_array /\ c.native_input_item = d.native_input_item

\* The containers but the last stay, and the last is e.
LastIs(q, e) ==
  /\ Len(q) = Len(scan.containers) /\ q[Len(q)] = e
  /\ \A i \in 1..Len(q) : i # Len(q) => q[i] = scan.containers[i]

LEMMA InnerMostIs ==
  ASSUME scan \in Scanned, Len(scan.containers) > 0
  PROVE  /\ M!InnerMost = scan.containers[Len(scan.containers)]
         /\ M!InnerMost \in ContainerRecord
         /\ M!ScanDepth = Len(scan.containers) /\ Len(scan.containers) \in Nat
<1>1. scan.containers \in Seq(ContainerRecord)
  BY DEF Scanned
<1>2. QED BY <1>1, LastOf DEF M!InnerMost, M!ScanDepth

LEMMA InnerMostSet ==
  ASSUME scan \in Scanned, Len(scan.containers) > 0, NEW e \in ContainerRecord
  PROVE  /\ M!SetLast(scan.containers, e) \in Seq(ContainerRecord)
         /\ LastIs(M!SetLast(scan.containers, e), e)
<1>1. PICK d \in Seq(ContainerRecord) : d = scan.containers
  BY DEF Scanned
<1> DEFINE q == M!SetLast(scan.containers, e)
<1>6. /\ M!SetLast(d, e) \in Seq(ContainerRecord) /\ Len(M!SetLast(d, e)) = Len(d)
      /\ M!SetLast(d, e)[Len(d)] = e
      /\ \A i \in 1..Len(d) : i # Len(d) => M!SetLast(d, e)[i] = d[i]
  BY <1>1 DEF M!SetLast
<1>2. /\ q \in Seq(ContainerRecord) /\ Len(q) = Len(scan.containers)
      /\ q[Len(scan.containers)] = e
      /\ \A i \in 1..Len(scan.containers) : i # Len(scan.containers) => q[i] = scan.containers[i]
  BY <1>1, <1>6, Zenon
<1> HIDE DEF q
<1>3. LastIs(q, e)
  BY <1>2 DEF LastIs
<1>4. QED BY <1>2, <1>3 DEF q

LEMMA ScanKeyIs ==
  ASSUME scan \in Scanned, Len(scan.containers) > 0, NEW s
  PROVE  LET r == M!ScanKey(s)
             c == scan.containers[Len(scan.containers)]
         IN  /\ r \in Scanned /\ r.key = M!Kind(s)
             /\ r.client = scan.client /\ r.off = scan.off /\ r.thread = scan.thread
             /\ r.previous = scan.previous /\ r.files = scan.files
             /\ r.model = IF M!Kind(s) = "model" THEN Nothing ELSE scan.model
             /\ \E e \in ContainerRecord : SameContainer(e, c) /\ LastIs(r.containers, e)
             /\ r.owned <=>
                  \/ scan.owned \/ s.escaped \/ s.text \in M!OwnedKeys
                  \/ Len(scan.containers) = 1 /\ s.text \in M!OwnedRootKeys
                  \/ c.native_input_item /\ s.text = "id"
<1> DEFINE e == [M!InnerMost EXCEPT !.expect_key = FALSE]
           q == M!SetLast(scan.containers, e)
           m == IF M!Kind(s) = "model" THEN Nothing ELSE scan.model
           k == M!Kind(s)
<1>1. /\ M!InnerMost = scan.containers[Len(scan.containers)]
      /\ M!InnerMost \in ContainerRecord /\ M!ScanDepth = Len(scan.containers)
  BY InnerMostIs
<1>2. e \in ContainerRecord /\ SameContainer(e, M!InnerMost)
  BY <1>1 DEF ContainerRecord, SameContainer
<1>3. PICK o \in BOOLEAN :
        o = (\/ scan.owned \/ s.escaped \/ s.text \in M!OwnedKeys
             \/ M!ScanDepth = 1 /\ s.text \in M!OwnedRootKeys
             \/ M!InnerMost.native_input_item /\ s.text = "id")
  OBVIOUS
<1>4. M!ScanKey(s) = [scan EXCEPT !.key = k, !.containers = q, !.model = m, !.owned = o]
  BY <1>3, Zenon DEF M!ScanKey
<1>5. k \in Kinds /\ m \in Found
  BY KindIs DEF Scanned, Found
<1> HIDE DEF e, k, m
<1>6. q \in Seq(ContainerRecord) /\ LastIs(q, e)
  BY <1>2, InnerMostSet
<1> HIDE DEF q
<1>7. /\ M!ScanKey(s) \in Scanned /\ M!ScanKey(s).key = k
      /\ M!ScanKey(s).client = scan.client /\ M!ScanKey(s).off = scan.off
      /\ M!ScanKey(s).thread = scan.thread /\ M!ScanKey(s).previous = scan.previous
      /\ M!ScanKey(s).files = scan.files /\ M!ScanKey(s).model = m
      /\ M!ScanKey(s).containers = q /\ M!ScanKey(s).owned = o
  BY <1>4, <1>5, <1>6 DEF Scanned
<1>8. QED BY <1>1, <1>2, <1>3, <1>6, <1>7, Zenon DEF k, m

LEMMA ScanColonIs ==
  ASSUME scan \in Scanned
  PROVE  LET r == M!ScanColon
         IN  /\ r \in Scanned /\ r.pending = scan.key
             /\ r.client = scan.client /\ r.off = scan.off /\ r.model = scan.model
             /\ r.thread = scan.thread /\ r.previous = scan.previous /\ r.files = scan.files
             /\ r.containers = scan.containers /\ r.owned = scan.owned
BY DEF M!ScanColon, Scanned

LEMMA ScanScalarIs ==
  ASSUME scan \in Scanned
  PROVE  LET r == M!ScanScalar
         IN  /\ r \in Scanned /\ r.pending = Nothing
             /\ r.client = scan.client /\ r.off = scan.off /\ r.model = scan.model
             /\ r.thread = scan.thread /\ r.previous = scan.previous /\ r.files = scan.files
             /\ r.containers = scan.containers /\ r.owned = scan.owned
BY DEF M!ScanScalar, Scanned

LEMMA ScanCommaIs ==
  ASSUME scan \in Scanned, Len(scan.containers) > 0
  PROVE  LET r == M!ScanComma
             c == scan.containers[Len(scan.containers)]
         IN  /\ r \in Scanned /\ r.pending = Nothing
             /\ r.client = scan.client /\ r.off = scan.off /\ r.model = scan.model
             /\ r.thread = scan.thread /\ r.previous = scan.previous /\ r.files = scan.files
             /\ \E e \in ContainerRecord : SameContainer(e, c) /\ LastIs(r.containers, e)
             /\ r.owned = scan.owned
<1> DEFINE e == IF M!InnerMost.object THEN [M!InnerMost EXCEPT !.expect_key = TRUE]
                ELSE M!InnerMost
           q == IF M!ScanDepth > 0 /\ M!InnerMost.object
                THEN M!SetLast(scan.containers, [M!InnerMost EXCEPT !.expect_key = TRUE])
                ELSE scan.containers
<1>1. /\ M!InnerMost = scan.containers[Len(scan.containers)]
      /\ M!InnerMost \in ContainerRecord /\ M!ScanDepth = Len(scan.containers)
      /\ Len(scan.containers) \in Nat
  BY InnerMostIs
<1>2. e \in ContainerRecord /\ SameContainer(e, M!InnerMost)
  <2>1. CASE M!InnerMost.object
    BY <1>1, <2>1 DEF ContainerRecord, SameContainer
  <2>2. CASE ~M!InnerMost.object
    BY <1>1, <2>2 DEF ContainerRecord, SameContainer
  <2>3. QED BY <2>1, <2>2
<1>3. q \in Seq(ContainerRecord) /\ LastIs(q, e)
  <2>1. CASE M!InnerMost.object
    BY <1>1, <1>2, <2>1, InnerMostSet
  <2>2. CASE ~M!InnerMost.object
    BY <1>1, <2>2 DEF LastIs, Scanned
  <2>3. QED BY <2>1, <2>2
<1>4. M!ScanComma = [scan EXCEPT !.containers = q, !.pending = Nothing, !.key = Nothing]
  BY Zenon DEF M!ScanComma
<1> HIDE DEF e, q
<1>5. /\ M!ScanComma \in Scanned /\ M!ScanComma.pending = Nothing
      /\ M!ScanComma.client = scan.client /\ M!ScanComma.off = scan.off
      /\ M!ScanComma.model = scan.model /\ M!ScanComma.thread = scan.thread
      /\ M!ScanComma.previous = scan.previous /\ M!ScanComma.files = scan.files
      /\ M!ScanComma.containers = q /\ M!ScanComma.owned = scan.owned
  BY <1>3, <1>4 DEF Scanned
<1>6. QED BY <1>1, <1>2, <1>3, <1>5, Zenon
LEMMA TruthIs ==
  ASSUME NEW a, NEW T
  PROVE  \E o \in BOOLEAN : o = (a \in T)
<1>1. PICK o \in BOOLEAN : o = (a \in T /\ a \in T)
  OBVIOUS
<1>2. (a \in T /\ a \in T) = (a \in T)
  OBVIOUS
<1>3. QED BY <1>1, <1>2, Zenon

LEMMA ScanValueIs ==
  ASSUME scan \in Scanned, Len(scan.containers) > 0, NEW s, s.text \in Found
  PROVE  LET r == M!ScanValue(s)
             c == scan.containers[Len(scan.containers)]
         IN  /\ r \in Scanned /\ r.pending = Nothing
             /\ r.client = scan.client /\ r.off = scan.off /\ r.files = scan.files
             /\ r.model = IF scan.pending = "model" THEN s.text ELSE scan.model
             /\ r.thread = IF scan.pending = "thread_id" /\ ~s.escaped THEN s.text ELSE scan.thread
             /\ r.previous =
                  IF scan.pending = "previous_response_id" /\ ~s.escaped THEN s.text
                  ELSE scan.previous
             /\ r.owned <=>
                  scan.owned \/ (scan.pending = "type" /\ (s.escaped \/ s.text \in M!OwnedTypes))
             /\ \E e \in ContainerRecord :
                  /\ LastIs(r.containers, e)
                  /\ e.object = c.object /\ e.input_array = c.input_array
                  /\ e.native_input_item = c.native_input_item
                  /\ e.file_id = IF scan.pending = "file_id" /\ ~s.escaped THEN s.text
                                 ELSE c.file_id
                  /\ e.account_scoped_file <=>
                       IF scan.pending = "type" /\ ~s.escaped THEN s.text \in M!FileTypes
                       ELSE c.account_scoped_file
<1> DEFINE m == IF scan.pending = "model" THEN s.text ELSE scan.model
           th == IF scan.pending = "thread_id" /\ ~s.escaped THEN s.text ELSE scan.thread
           pr == IF scan.pending = "previous_response_id" /\ ~s.escaped THEN s.text
                 ELSE scan.previous
           c == scan.containers[Len(scan.containers)]
           q == IF scan.pending = "file_id" /\ ~s.escaped
                THEN M!SetLast(scan.containers, [M!InnerMost EXCEPT !.file_id = s.text])
                ELSE IF scan.pending = "type" /\ ~s.escaped
                THEN M!SetLast(scan.containers, [M!InnerMost EXCEPT !.account_scoped_file =
                                                   s.text \in M!FileTypes])
                ELSE scan.containers
           Becomes(e) ==
             /\ LastIs(q, e)
             /\ e.object = c.object /\ e.input_array = c.input_array
             /\ e.native_input_item = c.native_input_item
             /\ e.file_id = IF scan.pending = "file_id" /\ ~s.escaped THEN s.text ELSE c.file_id
             /\ e.account_scoped_file <=>
                  IF scan.pending = "type" /\ ~s.escaped THEN s.text \in M!FileTypes
                  ELSE c.account_scoped_file
<1>1. /\ M!InnerMost = c /\ c \in ContainerRecord /\ M!ScanDepth = Len(scan.containers)
      /\ Len(scan.containers) \in Nat
  BY InnerMostIs
<1>2. q \in Seq(ContainerRecord) /\ \E e \in ContainerRecord : Becomes(e)
  <2>1. CASE scan.pending = "file_id" /\ ~s.escaped
    <3> DEFINE e == [c EXCEPT !.file_id = s.text]
    <3>1. /\ e \in ContainerRecord
          /\ e.object = c.object /\ e.input_array = c.input_array
          /\ e.native_input_item = c.native_input_item /\ e.file_id = s.text
          /\ e.account_scoped_file = c.account_scoped_file
      BY <1>1 DEF ContainerRecord
    <3>2. q = M!SetLast(scan.containers, e)
      BY <2>1, <1>1, Zenon
    <3> HIDE DEF e
    <3>3. q \in Seq(ContainerRecord) /\ LastIs(q, e)
      BY <3>1, <3>2, InnerMostSet
    <3> HIDE DEF q
    <3>4. Becomes(e)
      BY <2>1, <3>1, <3>3
    <3>5. QED BY <3>1, <3>3, <3>4
  <2>2. CASE scan.pending = "type" /\ ~s.escaped
    <3>1. PICK o \in BOOLEAN : o = (s.text \in M!FileTypes)
      BY TruthIs, Zenon
    <3> DEFINE e == [c EXCEPT !.account_scoped_file = o]
    <3>2. /\ e \in ContainerRecord
          /\ e.object = c.object /\ e.input_array = c.input_array
          /\ e.native_input_item = c.native_input_item /\ e.file_id = c.file_id
          /\ e.account_scoped_file = o
      BY <1>1 DEF ContainerRecord
    <3>3. q = M!SetLast(scan.containers, e)
      BY <2>2, <1>1, <3>1, Zenon
    <3> HIDE DEF e
    <3>4. q \in Seq(ContainerRecord) /\ LastIs(q, e)
      BY <3>2, <3>3, InnerMostSet
    <3> HIDE DEF q
    <3>5. Becomes(e)
      <4>1. e.account_scoped_file <=> s.text \in M!FileTypes
        BY <3>1, <3>2, Zenon
      <4>2. QED BY <2>2, <3>2, <3>4, <4>1
    <3>6. QED BY <3>2, <3>4, <3>5
  <2>3. CASE scan.pending \notin {"file_id", "type"} \/ s.escaped
    <3>1. q = scan.containers
      BY <2>3
    <3>2. q \in Seq(ContainerRecord) /\ LastIs(q, c)
      BY <1>1, <3>1 DEF LastIs, Scanned
    <3> HIDE DEF q, c
    <3>3. Becomes(c)
      BY <2>3, <3>2
    <3>4. QED BY <1>1, <3>2, <3>3
  <2>4. QED BY <2>1, <2>2, <2>3
<1>3. PICK o \in BOOLEAN :
        o = (scan.owned \/ (scan.pending = "type" /\ (s.escaped \/ s.text \in M!OwnedTypes)))
  OBVIOUS
<1>4. M!ScanValue(s) = [scan EXCEPT !.pending = Nothing, !.model = m, !.thread = th,
                                    !.previous = pr, !.owned = o, !.containers = q]
  BY <1>3, Zenon DEF M!ScanValue
<1>5. m \in Found /\ th \in Found /\ pr \in Found
  BY DEF Scanned, Found
<1> HIDE DEF m, th, pr, q
<1>6. /\ M!ScanValue(s) \in Scanned /\ M!ScanValue(s).pending = Nothing
      /\ M!ScanValue(s).client = scan.client /\ M!ScanValue(s).off = scan.off
      /\ M!ScanValue(s).files = scan.files /\ M!ScanValue(s).model = m
      /\ M!ScanValue(s).thread = th /\ M!ScanValue(s).previous = pr
      /\ M!ScanValue(s).owned = o /\ M!ScanValue(s).containers = q
  <2>1. PICK x : x = M!ScanValue(s)
    OBVIOUS
  <2>2. x = [scan EXCEPT !.pending = Nothing, !.model = m, !.thread = th,
                         !.previous = pr, !.owned = o, !.containers = q]
    BY <1>4, <2>1, Zenon
  <2>3. x \in Scanned
    BY <1>2, <1>5, <2>2 DEF Scanned
  <2>4. /\ x.pending = Nothing /\ x.client = scan.client /\ x.off = scan.off
        /\ x.files = scan.files /\ x.model = m /\ x.thread = th /\ x.previous = pr
        /\ x.owned = o /\ x.containers = q
    BY <2>2 DEF Scanned
  <2>5. QED BY <2>1, <2>3, <2>4, Zenon
<1>7. QED BY <1>2, <1>3, <1>6, Zenon DEF m, th, pr

\* Beyond the depth it follows the scanner gives the request up.
LEMMA ScanOpenIs ==
  ASSUME scan \in Scanned, ~scan.off, NEW object \in BOOLEAN
  PROVE  LET r == M!ScanOpen(object)
             n == Len(scan.containers)
         IN  /\ r \in Scanned
             /\ r.off => r.owned
             /\ ~r.off =>
                  /\ r.pending = Nothing
                  /\ r.model = scan.model /\ r.thread = scan.thread
                  /\ r.previous = scan.previous /\ r.files = scan.files
                  /\ r.owned = scan.owned
                  /\ r.client = IF object /\ scan.pending = "client_metadata" THEN n + 1
                                ELSE scan.client
                  /\ \E e \in ContainerRecord :
                       /\ r.containers = Append(scan.containers, e)
                       /\ e.object = object
                       /\ e.input_array <=> (~object /\ n = 1 /\ scan.pending = "input")
                       /\ e.native_input_item <=>
                            (object /\ n > 0 /\ scan.containers[n].input_array)
<1> DEFINE r == M!ScanOpen(object)
           n == Len(scan.containers)
<1>1. n \in Nat /\ scan.containers \in Seq(ContainerRecord) /\ M!ScanDepth = n
      /\ M!InnerMost = scan.containers[n]
  BY DEF Scanned, M!ScanDepth, M!InnerMost, M!Last
<1>2. CASE M!ScanDepth >= MaxDepth
  <2>1. r = [scan EXCEPT !.owned = TRUE, !.off = TRUE]
    BY <1>2, Zenon DEF M!ScanOpen
  <2>2. r \in Scanned /\ r.off = TRUE /\ r.owned = TRUE
    BY <2>1 DEF Scanned
  <2>3. QED BY <2>2
<1>3. CASE ~(M!ScanDepth >= MaxDepth)
  <2>1. PICK a \in BOOLEAN : a = (~object /\ M!ScanDepth = 1 /\ scan.pending = "input")
    OBVIOUS
  <2>2. PICK b \in BOOLEAN :
          b = (object /\ (M!ScanDepth > 0 /\ (M!ScanDepth > 0 => M!InnerMost.input_array)))
    OBVIOUS
  <2> DEFINE e == [object |-> object, expect_key |-> object, file_id |-> Nothing,
                   account_scoped_file |-> FALSE, input_array |-> a, native_input_item |-> b]
             cl == IF object /\ scan.pending = "client_metadata" THEN M!ScanDepth + 1
                   ELSE scan.client
             q == Append(scan.containers, e)
  <2>3. r = [scan EXCEPT !.pending = Nothing, !.client = cl, !.containers = q]
    BY <1>3, <2>1, <2>2, Zenon DEF M!ScanOpen
  <2>4. e \in ContainerRecord /\ e.object = object /\ e.input_array = a
        /\ e.native_input_item = b
    BY DEF ContainerRecord, Found
  <2>5. cl \in Nat /\ cl = IF object /\ scan.pending = "client_metadata" THEN n + 1
                           ELSE scan.client
    BY <1>1 DEF Scanned
  <2> HIDE DEF e, cl
  <2>6. q \in Seq(ContainerRecord)
    BY <1>1, <2>4
  <2> HIDE DEF q
  <2>7. /\ r \in Scanned /\ r.pending = Nothing /\ r.model = scan.model
        /\ r.thread = scan.thread /\ r.previous = scan.previous /\ r.files = scan.files
        /\ r.owned = scan.owned /\ r.client = cl /\ r.containers = q /\ r.off = scan.off
    BY <2>3, <2>5, <2>6 DEF Scanned
  <2>8. e.input_array <=> (~object /\ n = 1 /\ scan.pending = "input")
    BY <1>1, <2>1, <2>4, Zenon
  <2>9. e.native_input_item <=> (object /\ n > 0 /\ scan.containers[n].input_array)
    BY <1>1, <2>2, <2>4, Zenon
  <2>10. QED BY <2>4, <2>5, <2>7, <2>8, <2>9, Zenon DEF q
<1>4. QED BY <1>2, <1>3

\* A full set of file ids stops it, too.
LEMMA ScanCloseIs ==
  ASSUME scan \in Scanned, ~scan.off, Len(scan.containers) > 0
  PROVE  LET r == M!ScanClose
             n == Len(scan.containers)
             c == scan.containers[n]
         IN  /\ r \in Scanned
             /\ r.off => r.overflow
             /\ ~r.off =>
                  /\ r.model = scan.model /\ r.thread = scan.thread
                  /\ r.previous = scan.previous /\ r.owned = scan.owned
                  /\ r.client = IF scan.client = n THEN 0 ELSE scan.client
                  /\ r.containers = M!Front(scan.containers)
                  /\ r.files = IF c.account_scoped_file /\ c.file_id # Nothing
                               THEN scan.files \cup {c.file_id} ELSE scan.files
<1> DEFINE c == M!InnerMost
           new == c.account_scoped_file /\ c.file_id # Nothing /\ c.file_id \notin scan.files
           full == new /\ M!Cardinality(scan.files) >= MaxFiles
           cl == IF scan.client = M!ScanDepth THEN 0 ELSE scan.client
           f == IF new /\ ~full THEN scan.files \cup {c.file_id} ELSE scan.files
           q == M!Front(scan.containers)
<1>1. /\ c = scan.containers[Len(scan.containers)] /\ c \in ContainerRecord
      /\ M!ScanDepth = Len(scan.containers)
  BY InnerMostIs
<1>2. PICK o \in BOOLEAN : o = (scan.overflow \/ full)
  OBVIOUS
<1>3. PICK b \in BOOLEAN : b = (scan.off \/ full)
  OBVIOUS
<1>4. M!ScanClose = [scan EXCEPT !.client = cl, !.containers = q, !.files = f,
                                 !.overflow = o, !.off = b,
                                 !.pending = Nothing, !.key = Nothing]
  <2>1. M!ScanClose = [scan EXCEPT !.client = cl, !.containers = q, !.files = f,
                                   !.overflow = scan.overflow \/ full,
                                   !.off = scan.off \/ full,
                                   !.pending = Nothing, !.key = Nothing]
    BY Zenon DEF M!ScanClose
  <2>2. QED BY <2>1, <1>2, <1>3, Zenon
<1>5. cl \in Nat /\ f \in SUBSET Found
  BY <1>1 DEF Scanned, ContainerRecord
<1>6. q \in Seq(ContainerRecord)
  <2>1. PICK d \in Seq(ContainerRecord) : d = scan.containers
    BY DEF Scanned
  <2>2. M!Front(d) \in Seq(ContainerRecord)
    BY <2>1, LastDropped
  <2>3. QED BY <2>1, <2>2, Zenon
<1>7. b => o
  BY <1>2, <1>3
<1>8. ~b => f = IF c.account_scoped_file /\ c.file_id # Nothing
                THEN scan.files \cup {c.file_id} ELSE scan.files
  BY <1>3
<1> HIDE DEF cl, f, q, c
<1>9. /\ M!ScanClose \in Scanned
      /\ M!ScanClose.client = cl /\ M!ScanClose.containers = q /\ M!ScanClose.files = f
      /\ M!ScanClose.overflow = o /\ M!ScanClose.off = b
      /\ M!ScanClose.model = scan.model /\ M!ScanClose.thread = scan.thread
      /\ M!ScanClose.previous = scan.previous /\ M!ScanClose.owned = scan.owned
  BY <1>4, <1>5, <1>6 DEF Scanned
<1>10. cl = IF scan.client = Len(scan.containers) THEN 0 ELSE scan.client
  BY <1>1, Zenon DEF cl
<1>11. QED BY <1>1, <1>7, <1>8, <1>9, <1>10, Zenon DEF q

-----------------------------------------------------------------------------
(* Step by step: first the parser's state alone.                           *)

LEMMA PathIs ==
  ASSUME PathTypeOK, Len(path) > 0
  PROVE  /\ M!Last(path) = path[Len(path)] /\ path[Len(path)] \in FrameRecord
         /\ M!Depth = Len(path) /\ Len(path) \in Nat
         /\ ~path[Len(path)].object => path[Len(path)].key = Nothing
<1>1. path \in Seq(FrameRecord)
  BY DEF PathTypeOK
<1>2. Len(path) \in Nat /\ Len(path) \in 1..Len(path) /\ path[Len(path)] \in FrameRecord
  BY <1>1
<1>3. QED BY <1>1, <1>2 DEF M!Last, M!Depth, PathTypeOK

LEMMA PathLastSet ==
  ASSUME PathTypeOK, Len(path) > 0, NEW p \in FrameRecord
  PROVE  /\ M!SetLast(path, p) \in Seq(FrameRecord)
         /\ Len(M!SetLast(path, p)) = Len(path)
         /\ M!SetLast(path, p)[Len(path)] = p
         /\ \A i \in 1..Len(path) : i # Len(path) => M!SetLast(path, p)[i] = path[i]
<1>1. PICK d \in Seq(FrameRecord) : d = path
  BY DEF PathTypeOK
<1>2. /\ M!SetLast(d, p) \in Seq(FrameRecord) /\ Len(M!SetLast(d, p)) = Len(d)
      /\ M!SetLast(d, p)[Len(d)] = p
      /\ \A i \in 1..Len(d) : i # Len(d) => M!SetLast(d, p)[i] = d[i]
  BY <1>1 DEF M!SetLast
<1>3. QED BY <1>1, <1>2, Zenon

LEMMA PathDropped ==
  ASSUME PathTypeOK, Len(path) > 0
  PROVE  /\ M!Front(path) \in Seq(FrameRecord) /\ Len(M!Front(path)) = Len(path) - 1
         /\ \A i \in 1..Len(path) - 1 : M!Front(path)[i] = path[i]
<1>1. PICK d \in Seq(FrameRecord) : d = path
  BY DEF PathTypeOK
<1>2. /\ M!Front(d) \in Seq(FrameRecord) /\ Len(M!Front(d)) = Len(d) - 1
      /\ \A i \in 1..Len(d) - 1 : M!Front(d)[i] = d[i]
  BY <1>1, LastDropped
<1>3. QED BY <1>1, <1>2, Zenon

\* The innermost container is in property k.
KeySet(p, k) == [p EXCEPT !.key = k]

LEMMA KeySetIs ==
  ASSUME NEW p \in FrameRecord, NEW k \in Names
  PROVE  /\ KeySet(p, k) \in FrameRecord /\ KeySet(p, k).key = k
         /\ KeySet(p, k).object = p.object /\ KeySet(p, k).type = p.type
         /\ KeySet(p, k).file = p.file /\ KeySet(p, k).of = p.of
         /\ KeySet(p, k).item = p.item
BY DEF KeySet, FrameRecord

\* What a key, a value, an opened and a closed container make of the path.
LEMMA KeyPath ==
  ASSUME PathTypeOK, M!Key
  PROVE  /\ Len(path) > 0 /\ path[Len(path)].object /\ next = "key" /\ next' = "colon"
         /\ \E s \in M!Strings :
              /\ s.text \in Names
              /\ path' = M!SetLast(path, KeySet(path[Len(path)], s.text))
              /\ parsed' = M!Named(s.text)
              /\ scan' = IF scan.off THEN scan ELSE M!ScanKey(s)
<1>1. next = "key" /\ next' = "colon" /\ Len(path) > 0 /\ path[Len(path)].object
  BY DEF M!Key, PathTypeOK
<1>2. PICK s \in M!Strings :
        /\ s.text \in Names
        /\ path' = M!SetLast(path, KeySet(M!Last(path), s.text))
        /\ parsed' = M!Named(s.text)
        /\ scan' = IF scan.off THEN scan ELSE M!ScanKey(s)
  BY Zenon DEF M!Key, M!Feed, KeySet
<1>3. M!Last(path) = path[Len(path)]
  BY <1>1, PathIs
<1>4. QED BY <1>1, <1>2, <1>3, Zenon

LEMMA StringPath ==
  ASSUME PathTypeOK, M!String
  PROVE  /\ Len(path) > 0 /\ next = "value" /\ next' = "comma"
         /\ \E s \in M!Strings :
              /\ s.text \in Contents
              /\ path' = M!SetLast(path, M!Assigned(path[Len(path)], s.text))
              /\ parsed' = M!Spelled(M!AssignedRoot(s.text), s)
              /\ scan' = IF scan.off THEN scan ELSE M!ScanValue(s)
<1>0. path \in Seq(FrameRecord)
  BY DEF PathTypeOK
<1>1. next = "value" /\ next' = "comma" /\ Len(path) > 0
  BY <1>0 DEF M!String, M!AfterValue, M!Depth
<1>2. PICK s \in M!Strings :
        /\ s.text \in Contents
        /\ path' = M!SetLast(path, M!Assigned(M!Last(path), s.text))
        /\ parsed' = M!Spelled(M!AssignedRoot(s.text), s)
        /\ scan' = IF scan.off THEN scan ELSE M!ScanValue(s)
  BY Zenon DEF M!String, M!Feed
<1>3. M!Last(path) = path[Len(path)]
  BY <1>1, PathIs
<1>4. QED BY <1>1, <1>2, <1>3, Zenon

LEMMA ScalarPath ==
  ASSUME PathTypeOK, M!Scalar
  PROVE  /\ Len(path) > 0 /\ next = "value" /\ next' = "comma"
         /\ path' = M!SetLast(path, M!Assigned(path[Len(path)], Nothing))
         /\ parsed' = M!AssignedRoot(Nothing)
         /\ scan' = IF scan.off THEN scan ELSE M!ScanScalar
<1>0. path \in Seq(FrameRecord)
  BY DEF PathTypeOK
<1>1. next = "value" /\ next' = "comma" /\ Len(path) > 0
  BY <1>0 DEF M!Scalar, M!AfterValue, M!Depth
<1>2. /\ path' = M!SetLast(path, M!Assigned(M!Last(path), Nothing))
      /\ parsed' = M!AssignedRoot(Nothing)
      /\ scan' = IF scan.off THEN scan ELSE M!ScanScalar
  BY Zenon DEF M!Scalar, M!Feed
<1>3. M!Last(path) = path[Len(path)]
  BY <1>1, PathIs
<1>4. QED BY <1>1, <1>2, <1>3, Zenon

LEMMA OpenPath ==
  ASSUME PathTypeOK, NEW object \in BOOLEAN, M!Open(object)
  PROVE  /\ next = "value" /\ next' = IF object THEN "key" ELSE "value"
         /\ path' \in Seq(FrameRecord) /\ Len(path') = Len(path) + 1
         /\ path'[Len(path) + 1] = M!Frame(object)
         /\ Len(path) > 0 =>
              path'[Len(path)] = M!Assigned(path[Len(path)], Nothing)
         /\ \A i \in 1..Len(path) : i # Len(path) => path'[i] = path[i]
         /\ parsed' = M!AssignedRoot(Nothing)
         /\ scan' = IF scan.off THEN scan ELSE M!ScanOpen(object)
<1>1. /\ next = "value" /\ next' = IF object THEN "key" ELSE "value"
      /\ parsed' = M!AssignedRoot(Nothing)
      /\ scan' = IF scan.off THEN scan ELSE M!ScanOpen(object)
      /\ path' = Append(IF M!Depth = 0 THEN path
                        ELSE M!SetLast(path, M!Assigned(M!Last(path), Nothing)),
                        M!Frame(object))
  BY Zenon DEF M!Open, M!Feed
<1> DEFINE d == IF M!Depth = 0 THEN path
                ELSE M!SetLast(path, M!Assigned(M!Last(path), Nothing))
<1>2. path \in Seq(FrameRecord) /\ Len(path) \in Nat /\ M!Depth = Len(path)
  BY DEF PathTypeOK, M!Depth
<1>3. /\ d \in Seq(FrameRecord) /\ Len(d) = Len(path)
      /\ Len(path) > 0 => d[Len(path)] = M!Assigned(path[Len(path)], Nothing)
      /\ \A i \in 1..Len(path) : i # Len(path) => d[i] = path[i]
  <2>1. CASE Len(path) = 0
    <3>1. d = path
      BY <1>2, <2>1, Zenon
    <3> HIDE DEF d
    <3>2. QED BY <1>2, <2>1, <3>1
  <2>2. CASE Len(path) > 0
    <3> DEFINE p == M!Assigned(path[Len(path)], Nothing)
    <3>1. p \in FrameRecord
      BY <2>2, PathIs, AssignedIs DEF Found
    <3>2. d = M!SetLast(path, p)
      <4>1. M!Last(path) = path[Len(path)] /\ M!Depth # 0
        BY <1>2, <2>2, PathIs
      <4>2. QED BY <4>1, Zenon
    <3> HIDE DEF d, p
    <3>3. /\ M!SetLast(path, p) \in Seq(FrameRecord)
          /\ Len(M!SetLast(path, p)) = Len(path)
          /\ M!SetLast(path, p)[Len(path)] = p
          /\ \A i \in 1..Len(path) : i # Len(path) => M!SetLast(path, p)[i] = path[i]
      BY <2>2, <3>1, PathLastSet, Zenon
    <3>4. QED BY <3>2, <3>3, Zenon DEF p
  <2>3. QED BY <1>2, <2>1, <2>2
<1>4. M!Frame(object) \in FrameRecord
  BY OpenedFrameIs
<1>5. path' = Append(d, M!Frame(object))
  BY <1>1, Zenon
<1> HIDE DEF d
<1>6. /\ path' \in Seq(FrameRecord) /\ Len(path') = Len(d) + 1
      /\ path'[Len(d) + 1] = M!Frame(object)
      /\ \A i \in 1..Len(d) : path'[i] = d[i]
  BY <1>3, <1>4, <1>5
<1>7. /\ path'[Len(path) + 1] = M!Frame(object) /\ Len(path') = Len(path) + 1
      /\ \A i \in 1..Len(path) : path'[i] = d[i]
  BY <1>3, <1>6
<1>8. Len(path) > 0 => Len(path) \in 1..Len(path)
  BY <1>2
<1>9. QED BY <1>1, <1>3, <1>6, <1>7, <1>8, Zenon

LEMMA ClosePath ==
  ASSUME PathTypeOK, M!Close
  PROVE  /\ Len(path) > 0 /\ next = "comma"
         /\ next' = IF Len(path) = 1 THEN "end" ELSE "comma"
         /\ path' = M!Front(path) /\ parsed' = M!Closed(path[Len(path)])
         /\ scan' = IF scan.off THEN scan ELSE M!ScanClose
<1>1. /\ next = "comma" /\ next' = IF M!Depth = 1 THEN "end" ELSE "comma"
      /\ path' = M!Front(path) /\ parsed' = M!Closed(M!Last(path))
      /\ scan' = IF scan.off THEN scan ELSE M!ScanClose
  BY Zenon DEF M!Close, M!Feed
<1>2. Len(path) > 0
  BY <1>1 DEF PathTypeOK
<1>3. M!Last(path) = path[Len(path)] /\ M!Depth = Len(path)
  BY <1>2, PathIs
<1>4. QED BY <1>1, <1>2, <1>3, Zenon

LEMMA SamePath ==
  ASSUME PathTypeOK, M!Colon \/ M!Comma
  PROVE  /\ Len(path) > 0 /\ path' = path /\ parsed' = parsed
         /\ M!Colon => /\ next = "colon" /\ next' = "value" /\ path[Len(path)].object
                       /\ scan' = IF scan.off THEN scan ELSE M!ScanColon
         /\ M!Comma => /\ next = "comma"
                       /\ next' = IF path[Len(path)].object THEN "key" ELSE "value"
                       /\ scan' = IF scan.off THEN scan ELSE M!ScanComma
<1>1. CASE M!Colon
  <2>1. /\ next = "colon" /\ next' = "value" /\ path' = path /\ parsed' = parsed
        /\ scan' = IF scan.off THEN scan ELSE M!ScanColon
    BY <1>1, Zenon DEF M!Colon, M!Feed
  <2>2. Len(path) > 0 /\ path[Len(path)].object
    BY <2>1 DEF PathTypeOK
  <2>3. ~M!Comma
    BY <2>1 DEF M!Comma
  <2>4. QED BY <2>1, <2>2, <2>3
<1>2. CASE M!Comma
  <2>1. /\ next = "comma" /\ path' = path /\ parsed' = parsed
        /\ next' = IF M!Last(path).object THEN "key" ELSE "value"
        /\ scan' = IF scan.off THEN scan ELSE M!ScanComma
    BY <1>2, Zenon DEF M!Comma, M!Feed
  <2>2. Len(path) > 0
    BY <2>1 DEF PathTypeOK
  <2>3. M!Last(path) = path[Len(path)]
    BY <2>2, PathIs
  <2>4. ~M!Colon
    BY <2>1 DEF M!Colon
  <2>5. QED BY <2>1, <2>2, <2>3, <2>4
<1>3. QED BY <1>1, <1>2

\* The innermost frame becomes p; no array has a key.
LEMMA LastBecomes ==
  ASSUME PathTypeOK, Len(path) > 0, NEW p \in FrameRecord,
         path' = M!SetLast(path, p), p.object = path[Len(path)].object,
         ~p.object => p.key = Nothing, parsed' \in Parsed,
         next' \in {"value", "key", "colon", "comma", "end"},
         next' \in {"key", "colon"} => p.object
  PROVE  /\ PathTypeOK' /\ Len(path') = Len(path) /\ path'[Len(path)] = p
         /\ \A i \in 1..Len(path) : i # Len(path) => path'[i] = path[i]
<1>1. /\ path' \in Seq(FrameRecord) /\ Len(path') = Len(path) /\ path'[Len(path)] = p
      /\ \A i \in 1..Len(path) : i # Len(path) => path'[i] = path[i]
  BY PathLastSet, Zenon
<1>2. \A i \in 1..Len(path') : ~path'[i].object => path'[i].key = Nothing
  BY <1>1 DEF PathTypeOK
<1>3. QED BY <1>1, <1>2 DEF PathTypeOK

LEMMA KeyBecomes ==
  ASSUME PathTypeOK, M!Key,
         NEW s, s.text \in Names,
         path' = M!SetLast(path, KeySet(path[Len(path)], s.text)),
         parsed' = M!Named(s.text)
  PROVE  /\ PathTypeOK' /\ Len(path') = Len(path)
         /\ path'[Len(path)] = KeySet(path[Len(path)], s.text)
         /\ \A i \in 1..Len(path) : i # Len(path) => path'[i] = path[i]
<1> DEFINE p == KeySet(path[Len(path)], s.text)
<1>1. Len(path) > 0 /\ path[Len(path)].object /\ next' = "colon"
  BY KeyPath
<1>2. path[Len(path)] \in FrameRecord
  BY <1>1, PathIs
<1>3. p \in FrameRecord /\ p.object = path[Len(path)].object
  BY <1>2, KeySetIs, Zenon
<1>4. parsed' \in Parsed
  BY NamedIs, Zenon
<1> HIDE DEF p
<1>5. path' = M!SetLast(path, p)
  BY Zenon DEF p
<1>6. p.object
  BY <1>1, <1>3
<1>7. /\ PathTypeOK' /\ Len(path') = Len(path) /\ path'[Len(path)] = p
      /\ \A i \in 1..Len(path) : i # Len(path) => path'[i] = path[i]
  BY <1>1, <1>3, <1>4, <1>5, <1>6, LastBecomes
<1>8. QED BY <1>7 DEF p

\* After a value, given as x to the innermost property.
LEMMA ValueBecomes ==
  ASSUME PathTypeOK, Len(path) > 0, next' = "comma", NEW x \in Found,
         path' = M!SetLast(path, M!Assigned(path[Len(path)], x)), parsed' \in Parsed
  PROVE  /\ PathTypeOK' /\ Len(path') = Len(path)
         /\ path'[Len(path)] = M!Assigned(path[Len(path)], x)
         /\ \A i \in 1..Len(path) : i # Len(path) => path'[i] = path[i]
<1> DEFINE p == M!Assigned(path[Len(path)], x)
<1>1. path[Len(path)] \in FrameRecord
      /\ (~path[Len(path)].object => path[Len(path)].key = Nothing)
  BY PathIs
<1>2. p \in FrameRecord /\ p.object = path[Len(path)].object /\ p.key = path[Len(path)].key
  BY <1>1, AssignedIs, Zenon
<1> HIDE DEF p
<1>3. path' = M!SetLast(path, p)
  BY Zenon DEF p
<1>4. ~p.object => p.key = Nothing
  BY <1>1, <1>2
<1>5. /\ PathTypeOK' /\ Len(path') = Len(path) /\ path'[Len(path)] = p
      /\ \A i \in 1..Len(path) : i # Len(path) => path'[i] = path[i]
  BY <1>2, <1>3, <1>4, LastBecomes
<1>6. QED BY <1>5 DEF p

LEMMA OpenTyped ==
  ASSUME PathTypeOK, NEW object \in BOOLEAN, M!Open(object)
  PROVE  PathTypeOK'
<1> DEFINE n == Len(path)
<1>1. /\ next' = IF object THEN "key" ELSE "value"
      /\ path' \in Seq(FrameRecord) /\ Len(path') = n + 1
      /\ path'[n + 1] = M!Frame(object)
      /\ n > 0 => path'[n] = M!Assigned(path[n], Nothing)
      /\ \A i \in 1..n : i # n => path'[i] = path[i]
      /\ parsed' = M!AssignedRoot(Nothing)
  BY OpenPath
<1>2. parsed' \in Parsed
  BY <1>1, RootIs DEF Found
<1>3. M!Frame(object).object = object /\ M!Frame(object).key = Nothing
  BY OpenedFrameIs
<1>4. n \in Nat
  BY DEF PathTypeOK
<1>5. n > 0 => (~path'[n].object => path'[n].key = Nothing)
  <2>1. SUFFICES ASSUME n > 0 PROVE ~path'[n].object => path'[n].key = Nothing
    OBVIOUS
  <2>2. path[n] \in FrameRecord /\ (~path[n].object => path[n].key = Nothing)
    BY <2>1, PathIs
  <2>3. /\ M!Assigned(path[n], Nothing).object = path[n].object
        /\ M!Assigned(path[n], Nothing).key = path[n].key
    BY <2>2, AssignedIs DEF Found
  <2>4. QED BY <1>1, <2>1, <2>2, <2>3
<1> HIDE DEF n
<1>6. \A i \in 1..Len(path') : ~path'[i].object => path'[i].key = Nothing
  BY <1>1, <1>3, <1>4, <1>5 DEF PathTypeOK, n
<1>7. QED BY <1>1, <1>2, <1>3, <1>4, <1>6 DEF PathTypeOK

LEMMA CloseTyped ==
  ASSUME PathTypeOK, M!Close
  PROVE  PathTypeOK'
<1>1. /\ Len(path) > 0 /\ next' = IF Len(path) = 1 THEN "end" ELSE "comma"
      /\ path' = M!Front(path) /\ parsed' = M!Closed(path[Len(path)])
  BY ClosePath
<1>2. /\ path' \in Seq(FrameRecord) /\ Len(path') = Len(path) - 1
      /\ \A i \in 1..Len(path) - 1 : path'[i] = path[i]
  BY <1>1, PathDropped, Zenon
<1>3. path[Len(path)] \in FrameRecord /\ Len(path) \in Nat
  BY <1>1, PathIs
<1>4. parsed' \in Parsed
  BY <1>1, <1>3, ClosedIs, Zenon
<1>5. \A i \in 1..Len(path') : ~path'[i].object => path'[i].key = Nothing
  BY <1>2, <1>3 DEF PathTypeOK
<1>6. QED BY <1>1, <1>2, <1>3, <1>4, <1>5 DEF PathTypeOK

LEMMA PathTyped ==
  ASSUME PathTypeOK, M!Next
  PROVE  PathTypeOK'
<1>1. CASE M!Key
  <2>1. PICK s \in M!Strings :
          /\ s.text \in Names
          /\ path' = M!SetLast(path, KeySet(path[Len(path)], s.text))
          /\ parsed' = M!Named(s.text)
    BY <1>1, KeyPath, Zenon
  <2>2. QED BY <1>1, <2>1, KeyBecomes, Zenon
<1>2. CASE M!Colon \/ M!Comma
  <2>1. Len(path) > 0 /\ path' = path /\ parsed' = parsed
    BY <1>2, SamePath, Zenon
  <2>2. next' \in {"value", "key"} /\ (next' = "key" => path[Len(path)].object)
    BY <1>2, SamePath
  <2>3. QED BY <2>1, <2>2 DEF PathTypeOK
<1>3. CASE M!String
  <2>1. PICK s \in M!Strings :
          /\ s.text \in Contents
          /\ path' = M!SetLast(path, M!Assigned(path[Len(path)], s.text))
          /\ parsed' = M!Spelled(M!AssignedRoot(s.text), s)
    BY <1>3, StringPath, Zenon
  <2>2. Len(path) > 0 /\ next' = "comma"
    BY <1>3, StringPath, Zenon
  <2>3. s.text \in Found
    BY <2>1 DEF Found
  <2>4. M!AssignedRoot(s.text) \in Parsed
    BY <2>3, RootIs, Zenon
  <2>5. parsed' \in Parsed
    BY <2>1, <2>4, SpelledIs, Zenon
  <2>6. QED BY <2>1, <2>2, <2>3, <2>5, ValueBecomes, Zenon
<1>4. CASE M!Scalar
  <2>1. /\ Len(path) > 0 /\ next' = "comma"
        /\ path' = M!SetLast(path, M!Assigned(path[Len(path)], Nothing))
        /\ parsed' = M!AssignedRoot(Nothing)
    BY <1>4, ScalarPath, Zenon
  <2>2. Nothing \in Found
    BY DEF Found
  <2>3. parsed' \in Parsed
    BY <2>1, <2>2, RootIs, Zenon
  <2>4. QED BY <2>1, <2>2, <2>3, ValueBecomes, Zenon
<1>5. CASE M!Close
  BY <1>5, CloseTyped
<1>6. CASE \E object \in BOOLEAN : M!Open(object)
  BY <1>6, OpenTyped
<1>7. QED BY <1>1, <1>2, <1>3, <1>4, <1>5, <1>6, Zenon DEF M!Next

-----------------------------------------------------------------------------
(* Then the two together.                                                  *)

LEMMA RelatedAll ==
  ASSUME ContainersRelated, PathTypeOK, Len(path) > 0, Len(path') = Len(path),
         \A i \in 1..Len(path) : i # Len(path) => path'[i] = path[i],
         NEW e, LastIs(scan'.containers, e),
         scan.owned => scan'.owned, parsed.escaped => parsed'.escaped,
         Related(path'[Len(path)], e, Len(path), scan'.owned, parsed'.escaped)
  PROVE  ContainersRelated'
<1> DEFINE n == Len(path)
           q == scan'.containers
<1>1. Len(q) = n /\ q[n] = e /\ n \in Nat
      /\ \A i \in 1..n : i # n => q[i] = scan.containers[i]
  BY DEF LastIs, ContainersRelated, PathTypeOK
<1>2. \A i \in 1..n : Related(path'[i], q[i], i, scan'.owned, parsed'.escaped)
  <2>1. TAKE i \in 1..n
  <2>2. CASE i = n
    BY <1>1, <2>2
  <2>3. CASE i # n
    <3>1. path'[i] = path[i] /\ q[i] = scan.containers[i]
      BY <1>1, <2>3
    <3>2. Related(path[i], scan.containers[i], i, scan.owned, parsed.escaped)
      BY DEF ContainersRelated
    <3>3. Related(path[i], scan.containers[i], i, scan'.owned, parsed'.escaped)
      BY <3>2, RelatedStays, Zenon
    <3>4. QED BY <3>1, <3>3, Zenon
  <2>4. QED BY <2>2, <2>3
<1>3. QED BY <1>1, <1>2, Zenon DEF ContainersRelated

LEMMA LastRelated ==
  ASSUME PathTypeOK, ContainersRelated, Len(path) > 0
  PROVE  /\ Len(scan.containers) = Len(path) /\ Len(path) \in Nat
         /\ Related(path[Len(path)], scan.containers[Len(path)], Len(path),
                    scan.owned, parsed.escaped)
BY DEF PathTypeOK, ContainersRelated

LEMMA MetadataStays ==
  ASSUME PathTypeOK, Len(path) > 0, Len(path') = Len(path),
         \A i \in 1..Len(path) : i # Len(path) => path'[i] = path[i],
         path'[Len(path)].object = path[Len(path)].object,
         path'[Len(path)].of = path[Len(path)].of
  PROVE  Metadata(path') = Metadata(path)
<1>1. Len(path) \in Nat
  BY DEF PathTypeOK
<1>2. Len(path) >= 2 => path'[2].object = path[2].object /\ path'[2].of = path[2].of
  <2>1. CASE Len(path) = 2
    BY <2>1
  <2>2. CASE Len(path) # 2
    BY <1>1, <2>2
  <2>3. QED BY <2>1, <2>2
<1>3. QED BY <1>1, <1>2 DEF Metadata

LEMMA KeyTogether ==
  ASSUME PathTypeOK, scan \in Scanned, ~scan.off, Together, M!Key
  PROVE  scan' \in Scanned /\ ~scan'.off /\ Together'
<1> DEFINE n == Len(path)
           p == path[n]
           c == scan.containers[n]
           k == path'[n]
<1>1. n > 0 /\ p.object /\ next = "key" /\ next' = "colon"
  BY KeyPath
<1>2. PICK s \in M!Strings :
        /\ s.text \in Names
        /\ path' = M!SetLast(path, KeySet(p, s.text))
        /\ parsed' = M!Named(s.text)
        /\ scan' = IF scan.off THEN scan ELSE M!ScanKey(s)
  BY KeyPath
<1>3. /\ PathTypeOK' /\ Len(path') = n /\ k = KeySet(p, s.text)
      /\ \A i \in 1..n : i # n => path'[i] = path[i]
  BY <1>2, KeyBecomes, Zenon
<1>4. p \in FrameRecord /\ n \in Nat /\ M!Last(path) = p /\ M!Depth = n
  BY <1>1, PathIs
<1>5. /\ k.key = s.text /\ k.object = p.object /\ k.type = p.type /\ k.file = p.file
      /\ k.of = p.of /\ k.item = p.item
  <2>1. \A x \in FrameRecord, t \in Names :
          /\ KeySet(x, t).key = t
          /\ KeySet(x, t).object = x.object /\ KeySet(x, t).type = x.type
          /\ KeySet(x, t).file = x.file /\ KeySet(x, t).of = x.of
          /\ KeySet(x, t).item = x.item
    BY KeySetIs, Zenon
  <2>2. s.text \in Names
    BY <1>2
  <2> HIDE DEF p, k
  <2>3. QED BY <1>3, <1>4, <2>1, <2>2, Zenon
<1>6. /\ ContainersRelated /\ ModelKept /\ IdsKept
      /\ Len(scan.containers) = n
      /\ Related(p, c, n, scan.owned, parsed.escaped)
  BY <1>1, LastRelated DEF Together
<1>7. /\ scan' \in Scanned /\ scan'.key = M!Kind(s)
      /\ scan'.client = scan.client /\ scan'.off = scan.off /\ scan'.thread = scan.thread
      /\ scan'.previous = scan.previous /\ scan'.files = scan.files
      /\ scan'.model = IF M!Kind(s) = "model" THEN Nothing ELSE scan.model
      /\ \E e \in ContainerRecord : SameContainer(e, c) /\ LastIs(scan'.containers, e)
      /\ scan'.owned <=>
           \/ scan.owned \/ s.escaped \/ s.text \in M!OwnedKeys
           \/ n = 1 /\ s.text \in M!OwnedRootKeys
           \/ c.native_input_item /\ s.text = "id"
  <2>1. scan' = M!ScanKey(s)
    BY <1>2, Zenon
  <2>2. LET r == M!ScanKey(s)
            d == scan.containers[Len(scan.containers)]
        IN  /\ r \in Scanned /\ r.key = M!Kind(s)
            /\ r.client = scan.client /\ r.off = scan.off /\ r.thread = scan.thread
            /\ r.previous = scan.previous /\ r.files = scan.files
            /\ r.model = IF M!Kind(s) = "model" THEN Nothing ELSE scan.model
            /\ \E e \in ContainerRecord : SameContainer(e, d) /\ LastIs(r.containers, e)
            /\ r.owned <=>
                 \/ scan.owned \/ s.escaped \/ s.text \in M!OwnedKeys
                 \/ Len(scan.containers) = 1 /\ s.text \in M!OwnedRootKeys
                 \/ d.native_input_item /\ s.text = "id"
    BY <1>1, <1>6, ScanKeyIs
  <2>3. QED BY <2>1, <2>2, <1>6, Zenon
<1>8. PICK e \in ContainerRecord : SameContainer(e, c) /\ LastIs(scan'.containers, e)
  BY <1>7
<1>9. /\ parsed'.model = parsed.model /\ parsed'.thread = parsed.thread
      /\ parsed'.previous = parsed.previous /\ parsed'.files = parsed.files
      /\ parsed'.escaped = parsed.escaped
      /\ parsed'.owned <=>
           \/ parsed.owned \/ s.text \in M!OwnedKeys
           \/ n = 1 /\ s.text \in M!OwnedRootKeys
           \/ p.item /\ s.text = "id"
  <2>1. /\ M!Named(s.text).model = parsed.model /\ M!Named(s.text).thread = parsed.thread
        /\ M!Named(s.text).previous = parsed.previous /\ M!Named(s.text).files = parsed.files
        /\ M!Named(s.text).escaped = parsed.escaped
        /\ M!Named(s.text).owned <=>
             \/ parsed.owned \/ s.text \in M!OwnedKeys
             \/ M!Depth = 1 /\ s.text \in M!OwnedRootKeys
             \/ M!Last(path).item /\ s.text = "id"
    BY NamedIs, Zenon
  <2>2. QED BY <2>1, <1>2, <1>4, Zenon
<1>10. /\ M!Kind(s) = "model" <=> (n = 1 /\ s.text = "model")
       /\ ~s.escaped =>
            /\ \A t \in {"client_metadata", "previous_response_id", "input"} :
                 M!Kind(s) = t <=> (n = 1 /\ s.text = t)
            /\ M!Kind(s) = "thread_id" <=> (scan.client = n /\ s.text = "thread_id")
            /\ \A t \in {"file_id", "type"} : M!Kind(s) = t <=> s.text = t
  BY <1>6, KindIs, Zenon
<1> HIDE DEF n, p, c, k
<1>11. ContainersRelated'
  <2>1. Related(k, e, n, scan'.owned, parsed'.escaped)
    BY <1>5, <1>6, <1>7, <1>8, <1>9 DEF Related, SameContainer
  <2>2. QED BY <1>1, <1>3, <1>6, <1>7, <1>8, <1>9, <2>1, RelatedAll DEF n, k
<1>12. KindsAnnounced'
  <2>1. Announces(scan'.key, k, n, scan'.client, scan'.owned)
    BY <1>1, <1>5, <1>7, <1>10 DEF Announces
  <2>2. QED BY <1>1, <1>3, <2>1 DEF KindsAnnounced, k
<1>13. ModelKept'
  <2>1. AtModel' <=> M!Kind(s) = "model"
    BY <1>1, <1>3, <1>5, <1>10 DEF AtModel, k
  <2>2. ~AtModel
    BY <1>1 DEF AtModel
  <2>3. QED BY <1>6, <1>7, <1>9, <2>1, <2>2 DEF ModelKept
<1>14. IdsKept'
  <2>1. Metadata(path') = Metadata(path)
    BY <1>1, <1>3, <1>5, MetadataStays DEF n, k, p
  <2>2. ~scan'.owned => ~parsed'.owned
    BY <1>6, <1>7, <1>9, <1>1 DEF Related, IdsKept
  <2>3. QED BY <1>6, <1>7, <1>9, <2>1, <2>2 DEF IdsKept
<1>15. QED BY <1>7, <1>11, <1>12, <1>13, <1>14 DEF Together

LEMMA ColonTogether ==
  ASSUME PathTypeOK, scan \in Scanned, ~scan.off, Together, M!Colon
  PROVE  scan' \in Scanned /\ ~scan'.off /\ Together'
<1>1. /\ Len(path) > 0 /\ path' = path /\ parsed' = parsed
      /\ next = "colon" /\ next' = "value"
      /\ scan' = IF scan.off THEN scan ELSE M!ScanColon
  BY SamePath
<1>2. /\ scan' \in Scanned /\ scan'.pending = scan.key
      /\ scan'.client = scan.client /\ scan'.off = scan.off /\ scan'.model = scan.model
      /\ scan'.thread = scan.thread /\ scan'.previous = scan.previous
      /\ scan'.files = scan.files
      /\ scan'.containers = scan.containers /\ scan'.owned = scan.owned
  <2>1. scan' = M!ScanColon
    BY <1>1
  <2>2. QED BY <2>1, ScanColonIs
<1>3. ContainersRelated'
  BY <1>1, <1>2 DEF Together, ContainersRelated
<1>4. KindsAnnounced'
  BY <1>1, <1>2 DEF Together, KindsAnnounced
<1>5. ModelKept'
  BY <1>1, <1>2 DEF Together, ModelKept, AtModel
<1>6. IdsKept'
  BY <1>1, <1>2 DEF Together, IdsKept
<1>7. QED BY <1>2, <1>3, <1>4, <1>5, <1>6 DEF Together

LEMMA CommaTogether ==
  ASSUME PathTypeOK, scan \in Scanned, ~scan.off, Together, M!Comma
  PROVE  scan' \in Scanned /\ ~scan'.off /\ Together'
<1> DEFINE n == Len(path)
           p == path[n]
           c == scan.containers[n]
<1>1. /\ n > 0 /\ path' = path /\ parsed' = parsed /\ next = "comma"
      /\ next' = IF p.object THEN "key" ELSE "value"
      /\ scan' = IF scan.off THEN scan ELSE M!ScanComma
  BY SamePath
<1>2. /\ p \in FrameRecord /\ n \in Nat
      /\ ~p.object => p.key = Nothing
  BY <1>1, PathIs
<1>3. /\ ContainersRelated /\ ModelKept /\ IdsKept /\ Len(scan.containers) = n
      /\ Related(p, c, n, scan.owned, parsed.escaped)
  BY <1>1, LastRelated DEF Together
<1>4. /\ scan' \in Scanned /\ scan'.pending = Nothing
      /\ scan'.client = scan.client /\ scan'.off = scan.off /\ scan'.model = scan.model
      /\ scan'.thread = scan.thread /\ scan'.previous = scan.previous
      /\ scan'.files = scan.files
      /\ \E e \in ContainerRecord : SameContainer(e, c) /\ LastIs(scan'.containers, e)
      /\ scan'.owned = scan.owned
  <2>1. scan' = M!ScanComma
    BY <1>1
  <2>2. LET r == M!ScanComma
            d == scan.containers[Len(scan.containers)]
        IN  /\ r \in Scanned /\ r.pending = Nothing
            /\ r.client = scan.client /\ r.off = scan.off /\ r.model = scan.model
            /\ r.thread = scan.thread /\ r.previous = scan.previous /\ r.files = scan.files
            /\ \E e \in ContainerRecord : SameContainer(e, d) /\ LastIs(r.containers, e)
            /\ r.owned = scan.owned
    BY <1>1, <1>3, ScanCommaIs
  <2>3. QED BY <2>1, <2>2, <1>3, Zenon
<1>5. PICK e \in ContainerRecord : SameContainer(e, c) /\ LastIs(scan'.containers, e)
  BY <1>4
<1> HIDE DEF n, p, c
<1>6. ContainersRelated'
  <2>1. Related(p, e, n, scan.owned, parsed.escaped)
    BY <1>3, <1>5 DEF Related, SameContainer
  <2>2. QED BY <1>1, <1>3, <1>4, <1>5, <2>1, RelatedAll DEF n, p
<1>7. KindsAnnounced'
  BY <1>1, <1>4 DEF KindsAnnounced, Announces, n, p
<1>8. ModelKept'
  <2>1. ~AtModel /\ ~AtModel'
    BY <1>1, <1>2, ScanAssumption DEF AtModel, n, p
  <2>2. QED BY <1>1, <1>3, <1>4, <2>1 DEF ModelKept
<1>9. IdsKept'
  BY <1>1, <1>3, <1>4 DEF IdsKept
<1>10. QED BY <1>4, <1>6, <1>7, <1>8, <1>9 DEF Together

\* What the pending property says, at the innermost container.
LEMMA PendingIs ==
  ASSUME PathTypeOK, Together, Len(path) > 0, next = "value"
  PROVE  LET n == Len(path)
             p == path[n]
         IN  /\ p.object \/ (scan.pending = Nothing /\ p.key = Nothing)
             /\ scan.pending = "model" <=> (n = 1 /\ p.key = "model")
             /\ AtModel <=> scan.pending = "model"
             /\ ~scan.owned =>
                  /\ \A t \in {"client_metadata", "previous_response_id", "input"} :
                       scan.pending = t <=> (n = 1 /\ p.key = t)
                  /\ scan.pending = "thread_id"
                       <=> (n = 2 /\ p.object /\ p.of = "client_metadata" /\ p.key = "thread_id")
                  /\ p.object =>
                       \A t \in {"file_id", "type"} : scan.pending = t <=> p.key = t
<1> DEFINE n == Len(path)
           p == path[n]
<1>1. n \in Nat /\ (~p.object => p.key = Nothing)
  BY PathIs
<1>2. Announces(scan.pending, p, n, scan.client, scan.owned)
  BY DEF Together, KindsAnnounced
<1>3. ~scan.owned => scan.client = Metadata(path)
  BY DEF Together, IdsKept
<1>4. Metadata(path) = n <=> (n = 2 /\ p.object /\ p.of = "client_metadata")
  BY <1>1 DEF Metadata
<1>5. AtModel <=> (n = 1 /\ p.key = "model")
  BY DEF AtModel
<1> HIDE DEF n, p
<1>6. CASE p.object
  <2>1. /\ scan.pending = "model" <=> (n = 1 /\ p.key = "model")
        /\ ~scan.owned =>
             /\ \A t \in {"client_metadata", "previous_response_id", "input"} :
                  scan.pending = t <=> (n = 1 /\ p.key = t)
             /\ scan.pending = "thread_id" <=> (scan.client = n /\ p.key = "thread_id")
             /\ \A t \in {"file_id", "type"} : scan.pending = t <=> p.key = t
    BY <1>2, <1>6 DEF Announces
  <2>2. ~scan.owned =>
          (scan.pending = "thread_id"
             <=> (n = 2 /\ p.object /\ p.of = "client_metadata" /\ p.key = "thread_id"))
    BY <2>1, <1>3, <1>4, Zenon
  <2>3. QED BY <1>5, <1>6, <2>1, <2>2, Zenon DEF n, p
<1>7. CASE ~p.object
  <2>1. scan.pending = Nothing /\ p.key = Nothing
    BY <1>1, <1>2, <1>7 DEF Announces
  <2>2. \A t \in {"model", "client_metadata", "previous_response_id", "input", "thread_id"} :
          scan.pending # t /\ p.key # t
    BY <2>1, ScanAssumption
  <2>3. QED BY <1>5, <1>7, <2>1, <2>2 DEF n, p
<1>8. QED BY <1>6, <1>7, Zenon

LEMMA NothingIsNone ==
  Nothing \in Found /\ Nothing \notin M!OwnedTypes /\ Nothing \notin M!FileTypes
BY ScanAssumption DEF Found

\* A frame whose property has got a value that is no string.
LEMMA NoStringRelated ==
  ASSUME NEW p \in FrameRecord, NEW c, NEW n, NEW ours, NEW spelled,
         Related(p, c, n, ours, spelled)
  PROVE  Related(M!Assigned(p, Nothing), c, n, ours, spelled)
<1> DEFINE k == M!Assigned(p, Nothing)
<1>1. /\ k.object = p.object /\ k.of = p.of /\ k.item = p.item
      /\ k.type = IF p.object /\ p.key = "type" THEN Nothing ELSE p.type
      /\ k.file = IF p.object /\ p.key = "file_id" THEN Nothing ELSE p.file
  BY NothingIsNone, AssignedIs, Zenon
<1> HIDE DEF k
<1>2. Related(k, c, n, ours, spelled)
  BY <1>1, NothingIsNone DEF Related
<1>3. QED BY <1>2 DEF k

LEMMA StringTogether ==
  ASSUME PathTypeOK, scan \in Scanned, ~scan.off, Together, M!String
  PROVE  scan' \in Scanned /\ ~scan'.off /\ Together'
<1> DEFINE n == Len(path)
           p == path[n]
           c == scan.containers[n]
<1>1. n > 0 /\ next = "value" /\ next' = "comma"
  BY StringPath
<1>2. PICK s \in M!Strings :
        /\ s.text \in Contents
        /\ path' = M!SetLast(path, M!Assigned(p, s.text))
        /\ parsed' = M!Spelled(M!AssignedRoot(s.text), s)
        /\ scan' = IF scan.off THEN scan ELSE M!ScanValue(s)
  BY StringPath
<1> DEFINE x == s.text
           k == M!Assigned(p, x)
<1>3. x \in Found /\ p \in FrameRecord /\ n \in Nat
      /\ M!Last(path) = p /\ M!Depth = n
  BY <1>1, <1>2, PathIs DEF Found
<1>4. /\ parsed'.files = parsed.files /\ parsed'.owned = parsed.owned
      /\ parsed'.escaped <=> parsed.escaped \/ (s.escaped /\ p.key \in M!Ids)
      /\ parsed'.model = IF n = 1 /\ p.key = "model" THEN x ELSE parsed.model
      /\ parsed'.previous = IF n = 1 /\ p.key = "previous_response_id" THEN x
                            ELSE parsed.previous
      /\ parsed'.thread =
           IF n = 2 /\ p.key = "thread_id" /\ path[2].object /\ path[2].of = "client_metadata"
           THEN x
           ELSE IF n = 1 /\ p.key = "client_metadata" THEN Nothing ELSE parsed.thread
      /\ parsed' \in Parsed
  <2>1. PICK q \in Parsed : q = M!AssignedRoot(x)
    BY <1>3, RootIs, Zenon
  <2>2. /\ q.files = parsed.files /\ q.owned = parsed.owned
        /\ q.escaped = parsed.escaped
        /\ q.model = IF Len(path) = 1 /\ KeyOfLast = "model" THEN x ELSE parsed.model
        /\ q.previous = IF Len(path) = 1 /\ KeyOfLast = "previous_response_id" THEN x
                        ELSE parsed.previous
        /\ q.thread =
             IF Len(path) = 2 /\ KeyOfLast = "thread_id"
                  /\ path[2].object /\ path[2].of = "client_metadata"
             THEN x
             ELSE IF Len(path) = 1 /\ KeyOfLast = "client_metadata" THEN Nothing
             ELSE parsed.thread
    BY <1>3, <2>1, RootIs, Zenon
  <2>3. KeyOfLast = p.key
    BY <1>1 DEF KeyOfLast
  <2>4. /\ M!Spelled(q, s) \in Parsed /\ M!Spelled(q, s).model = q.model
        /\ M!Spelled(q, s).thread = q.thread /\ M!Spelled(q, s).previous = q.previous
        /\ M!Spelled(q, s).files = q.files /\ M!Spelled(q, s).owned = q.owned
        /\ M!Spelled(q, s).escaped <=> q.escaped \/ (s.escaped /\ M!Last(path).key \in M!Ids)
    BY SpelledIs, Zenon
  <2>5. parsed' = M!Spelled(q, s)
    BY <1>2, <2>1, Zenon
  <2>6. QED BY <2>2, <2>3, <2>4, <2>5, <1>3, Zenon
<1>5. /\ PathTypeOK' /\ Len(path') = n /\ path'[n] = k
      /\ \A i \in 1..n : i # n => path'[i] = path[i]
  BY <1>1, <1>2, <1>3, <1>4, ValueBecomes, Zenon
<1>6. k.object = p.object /\ k.of = p.of
  BY <1>3, AssignedIs, Zenon
<1>7. /\ ContainersRelated /\ ModelKept /\ IdsKept /\ Len(scan.containers) = n
      /\ Related(p, c, n, scan.owned, parsed.escaped)
  BY <1>1, LastRelated DEF Together
<1>8. /\ p.object \/ (scan.pending = Nothing /\ p.key = Nothing)
      /\ scan.pending = "model" <=> (n = 1 /\ p.key = "model")
      /\ AtModel <=> scan.pending = "model"
      /\ ~scan.owned =>
           /\ \A t \in {"client_metadata", "previous_response_id", "input"} :
                scan.pending = t <=> (n = 1 /\ p.key = t)
           /\ scan.pending = "thread_id"
                <=> (n = 2 /\ p.object /\ p.of = "client_metadata" /\ p.key = "thread_id")
           /\ p.object =>
                \A t \in {"file_id", "type"} : scan.pending = t <=> p.key = t
  BY <1>1, PendingIs
<1>9. /\ scan' \in Scanned /\ scan'.pending = Nothing
      /\ scan'.client = scan.client /\ scan'.off = scan.off /\ scan'.files = scan.files
      /\ scan'.model = IF scan.pending = "model" THEN x ELSE scan.model
      /\ scan'.thread = IF scan.pending = "thread_id" /\ ~s.escaped THEN x ELSE scan.thread
      /\ scan'.previous = IF scan.pending = "previous_response_id" /\ ~s.escaped THEN x
                          ELSE scan.previous
      /\ scan'.owned <=>
           scan.owned \/ (scan.pending = "type" /\ (s.escaped \/ x \in M!OwnedTypes))
      /\ \E e \in ContainerRecord :
           /\ LastIs(scan'.containers, e)
           /\ e.object = c.object /\ e.input_array = c.input_array
           /\ e.native_input_item = c.native_input_item
           /\ e.file_id = IF scan.pending = "file_id" /\ ~s.escaped THEN x ELSE c.file_id
           /\ e.account_scoped_file <=>
                IF scan.pending = "type" /\ ~s.escaped THEN x \in M!FileTypes
                ELSE c.account_scoped_file
  <2>1. scan' = M!ScanValue(s)
    BY <1>2
  <2>2. LET r == M!ScanValue(s)
            d == scan.containers[Len(scan.containers)]
        IN  /\ r \in Scanned /\ r.pending = Nothing
            /\ r.client = scan.client /\ r.off = scan.off /\ r.files = scan.files
            /\ r.model = IF scan.pending = "model" THEN s.text ELSE scan.model
            /\ r.thread = IF scan.pending = "thread_id" /\ ~s.escaped THEN s.text ELSE scan.thread
            /\ r.previous =
                 IF scan.pending = "previous_response_id" /\ ~s.escaped THEN s.text
                 ELSE scan.previous
            /\ r.owned <=>
                 scan.owned \/ (scan.pending = "type" /\ (s.escaped \/ s.text \in M!OwnedTypes))
            /\ \E e \in ContainerRecord :
                 /\ LastIs(r.containers, e)
                 /\ e.object = d.object /\ e.input_array = d.input_array
                 /\ e.native_input_item = d.native_input_item
                 /\ e.file_id = IF scan.pending = "file_id" /\ ~s.escaped THEN s.text
                                ELSE d.file_id
                 /\ e.account_scoped_file <=>
                      IF scan.pending = "type" /\ ~s.escaped THEN s.text \in M!FileTypes
                      ELSE d.account_scoped_file
    BY <1>1, <1>3, <1>7, ScanValueIs
  <2>3. QED BY <2>1, <2>2, <1>7, Zenon
<1>10. PICK e \in ContainerRecord :
         /\ LastIs(scan'.containers, e)
         /\ e.object = c.object /\ e.input_array = c.input_array
         /\ e.native_input_item = c.native_input_item
         /\ e.file_id = IF scan.pending = "file_id" /\ ~s.escaped THEN x ELSE c.file_id
         /\ e.account_scoped_file <=>
              IF scan.pending = "type" /\ ~s.escaped THEN x \in M!FileTypes
              ELSE c.account_scoped_file
  BY <1>9
<1> HIDE DEF n, p, c, x, k
\* An id whose spelling does not matter is not one.
<1>11. ~scan'.owned => ~scan.owned
  BY <1>9
<1>12. ~parsed'.escaped =>
         /\ ~parsed.escaped
         /\ p.key \in {"previous_response_id", "thread_id", "file_id"} => ~s.escaped
  BY <1>4 DEF M!Ids
<1>13. ContainersRelated'
  <2>1. ~scan'.owned /\ p.object =>
          (scan.pending = "type" <=> p.key = "type")
          /\ (scan.pending = "file_id" <=> p.key = "file_id")
    BY <1>8, <1>11
  <2>2. ~scan'.owned /\ ~p.object => scan.pending # "type" /\ scan.pending # "file_id"
    BY <1>8, ScanAssumption
  <2>3. ~scan'.owned /\ p.object /\ p.key = "type" =>
          x \notin M!OwnedTypes /\ (x \in M!FileTypes => e.account_scoped_file)
    BY <1>9, <1>10, <2>1
  <2>4. ~scan'.owned /\ ~(p.object /\ p.key = "type") =>
          (c.account_scoped_file => e.account_scoped_file)
    BY <1>10, <2>1, <2>2
  <2>5. ~scan'.owned /\ ~parsed'.escaped /\ p.object /\ p.key = "file_id" => e.file_id = x
    BY <1>10, <1>12, <2>1
  <2>6. ~scan'.owned /\ ~(p.object /\ p.key = "file_id") => e.file_id = c.file_id
    BY <1>10, <2>1, <2>2
  <2>7. (scan.owned => scan'.owned) /\ (parsed.escaped => parsed'.escaped)
    BY <1>4, <1>9
  <2>8. Related(k, e, n, scan'.owned, parsed'.escaped)
    <3>1. /\ k.object = p.object /\ k.of = p.of /\ k.item = p.item
          /\ k.type = IF p.object /\ p.key = "type" THEN x ELSE p.type
          /\ k.file = IF p.object /\ p.key = "file_id" THEN x ELSE p.file
      BY <1>3, AssignedIs, Zenon DEF k
    <3>2. /\ k.object <=> e.object
          /\ ~scan'.owned =>
               /\ e.input_array <=> (n = 2 /\ ~k.object /\ k.of = "input")
               /\ e.native_input_item <=> (k.object /\ k.item)
      BY <1>7, <1>10, <1>11, <3>1 DEF Related
    <3>3. ~scan'.owned => k.type \notin M!OwnedTypes
      BY <1>7, <1>11, <2>3, <3>1 DEF Related
    <3>4. ~scan'.owned /\ ~parsed'.escaped =>
            (k.type \in M!FileTypes => e.account_scoped_file)
      BY <1>7, <1>11, <1>12, <2>3, <2>4, <3>1 DEF Related
    <3>5. ~scan'.owned /\ ~parsed'.escaped => (k.file # Nothing => e.file_id = k.file)
      BY <1>7, <1>11, <1>12, <2>5, <2>6, <3>1 DEF Related
    <3>6. QED BY <3>2, <3>3, <3>4, <3>5 DEF Related
  <2>9. QED BY <1>1, <1>5, <1>7, <1>10, <2>7, <2>8, RelatedAll DEF n
<1>14. KindsAnnounced'
  BY <1>1 DEF KindsAnnounced
<1>15. ModelKept'
  <2>1. ~AtModel'
    BY <1>1 DEF AtModel
  <2>2. QED BY <1>4, <1>7, <1>8, <1>9, <2>1 DEF ModelKept
<1>16. IdsKept'
  <2>1. Metadata(path') = Metadata(path)
    BY <1>1, <1>5, <1>6, MetadataStays DEF n, p
  <2>2. ASSUME ~scan'.owned
        PROVE  scan'.client = Metadata(path') /\ ~parsed'.owned
    BY <1>4, <1>7, <1>9, <1>11, <2>1, <2>2 DEF IdsKept
  <2>3. ASSUME ~scan'.owned, ~parsed'.escaped
        PROVE  /\ parsed'.previous \in {Nothing, scan'.previous}
               /\ parsed'.thread \in {Nothing, scan'.thread}
               /\ parsed'.files \subseteq scan'.files
    <3>1. ~scan.owned /\ ~parsed.escaped
      BY <1>11, <1>12, <2>3
    <3>2. /\ parsed.previous \in {Nothing, scan.previous}
          /\ parsed.thread \in {Nothing, scan.thread}
          /\ parsed.files \subseteq scan.files
      BY <1>7, <3>1 DEF IdsKept
    <3>3. parsed'.previous \in {Nothing, scan'.previous}
      BY <1>4, <1>8, <1>9, <1>12, <2>3, <3>1, <3>2
    <3>4. parsed'.thread \in {Nothing, scan'.thread}
      <4>1. n = 2 => path[2] = p
        BY DEF p
      <4>2. QED BY <1>4, <1>8, <1>9, <1>12, <2>3, <3>1, <3>2, <4>1
    <3>5. QED BY <1>4, <1>9, <3>2, <3>3, <3>4
  <2>4. QED BY <2>2, <2>3 DEF IdsKept
<1>17. QED BY <1>7, <1>9, <1>13, <1>14, <1>15, <1>16 DEF Together

LEMMA ScalarTogether ==
  ASSUME PathTypeOK, scan \in Scanned, ~scan.off, Together, M!Scalar
  PROVE  scan' \in Scanned /\ ~scan'.off /\ Together'
<1> DEFINE n == Len(path)
           p == path[n]
           c == scan.containers[n]
           k == M!Assigned(p, Nothing)
<1>1. /\ n > 0 /\ next = "value" /\ next' = "comma"
      /\ path' = M!SetLast(path, k) /\ parsed' = M!AssignedRoot(Nothing)
      /\ scan' = IF scan.off THEN scan ELSE M!ScanScalar
  BY ScalarPath
<1>2. p \in FrameRecord /\ n \in Nat
  BY <1>1, PathIs
<1>3. /\ parsed' \in Parsed /\ parsed'.files = parsed.files
      /\ parsed'.owned = parsed.owned /\ parsed'.escaped = parsed.escaped
      /\ parsed'.model = IF n = 1 /\ p.key = "model" THEN Nothing ELSE parsed.model
      /\ parsed'.previous \in {Nothing, parsed.previous}
      /\ parsed'.thread \in {Nothing, parsed.thread}
  <2>1. /\ M!AssignedRoot(Nothing) \in Parsed
        /\ M!AssignedRoot(Nothing).files = parsed.files
        /\ M!AssignedRoot(Nothing).owned = parsed.owned
        /\ M!AssignedRoot(Nothing).escaped = parsed.escaped
        /\ M!AssignedRoot(Nothing).model =
             IF Len(path) = 1 /\ KeyOfLast = "model" THEN Nothing ELSE parsed.model
        /\ M!AssignedRoot(Nothing).previous =
             IF Len(path) = 1 /\ KeyOfLast = "previous_response_id" THEN Nothing
             ELSE parsed.previous
        /\ M!AssignedRoot(Nothing).thread =
             IF Len(path) = 2 /\ KeyOfLast = "thread_id"
                  /\ path[2].object /\ path[2].of = "client_metadata"
             THEN Nothing
             ELSE IF Len(path) = 1 /\ KeyOfLast = "client_metadata" THEN Nothing
             ELSE parsed.thread
    BY RootIs, NothingIsNone, Zenon
  <2>2. KeyOfLast = p.key
    BY <1>1 DEF KeyOfLast
  <2>3. /\ parsed' \in Parsed /\ parsed'.files = parsed.files
        /\ parsed'.owned = parsed.owned /\ parsed'.escaped = parsed.escaped
        /\ parsed'.model = IF n = 1 /\ p.key = "model" THEN Nothing ELSE parsed.model
    BY <1>1, <2>1, <2>2, Zenon
  <2>4. parsed'.previous \in {Nothing, parsed.previous}
        /\ parsed'.thread \in {Nothing, parsed.thread}
    BY <1>1, <2>1
  <2>5. QED BY <2>3, <2>4
<1>4. /\ PathTypeOK' /\ Len(path') = n /\ path'[n] = k
      /\ \A i \in 1..n : i # n => path'[i] = path[i]
  BY <1>1, <1>3, NothingIsNone, ValueBecomes, Zenon
<1>5. k.object = p.object /\ k.of = p.of
  BY <1>2, NothingIsNone, AssignedIs, Zenon
<1>6. /\ ContainersRelated /\ ModelKept /\ IdsKept /\ Len(scan.containers) = n
      /\ Related(p, c, n, scan.owned, parsed.escaped)
  BY <1>1, LastRelated DEF Together
<1>7. /\ scan.pending = "model" <=> (n = 1 /\ p.key = "model")
      /\ AtModel <=> scan.pending = "model"
  BY <1>1, PendingIs
<1>8. /\ scan' \in Scanned /\ scan'.pending = Nothing
      /\ scan'.client = scan.client /\ scan'.off = scan.off /\ scan'.model = scan.model
      /\ scan'.thread = scan.thread /\ scan'.previous = scan.previous
      /\ scan'.files = scan.files
      /\ scan'.containers = scan.containers /\ scan'.owned = scan.owned
  <2>1. scan' = M!ScanScalar
    BY <1>1
  <2>2. QED BY <2>1, ScanScalarIs
<1> HIDE DEF n, p, c, k
<1>9. ContainersRelated'
  <2>1. Related(k, c, n, scan.owned, parsed.escaped)
    BY <1>2, <1>6, NoStringRelated DEF k
  <2>2. LastIs(scan'.containers, c)
    BY <1>6, <1>8 DEF LastIs, c
  <2>3. QED BY <1>1, <1>3, <1>4, <1>6, <1>8, <2>1, <2>2, RelatedAll DEF n
<1>10. KindsAnnounced'
  BY <1>1 DEF KindsAnnounced
<1>11. ModelKept'
  <2>1. ~AtModel'
    BY <1>1 DEF AtModel
  <2>2. QED BY <1>3, <1>6, <1>7, <1>8, <2>1 DEF ModelKept
<1>12. IdsKept'
  <2>1. Metadata(path') = Metadata(path)
    BY <1>1, <1>4, <1>5, MetadataStays DEF n, p
  <2>2. QED BY <1>3, <1>6, <1>8, <2>1 DEF IdsKept
<1>13. QED BY <1>6, <1>8, <1>9, <1>10, <1>11, <1>12 DEF Together

LEMMA CloseTogether ==
  ASSUME PathTypeOK, scan \in Scanned, ~scan.off, Together, M!Close
  PROVE  /\ scan' \in Scanned
         /\ scan'.off => scan'.overflow
         /\ ~scan'.off => Together'
<1> DEFINE n == Len(path)
           p == path[n]
           c == scan.containers[n]
<1>1. /\ n > 0 /\ next = "comma" /\ next' \in {"end", "comma"}
      /\ path' = M!Front(path) /\ parsed' = M!Closed(p)
      /\ scan' = IF scan.off THEN scan ELSE M!ScanClose
  <2>1. next' = IF Len(path) = 1 THEN "end" ELSE "comma"
    BY ClosePath
  <2>2. QED BY <2>1, ClosePath
<1>2. p \in FrameRecord /\ n \in Nat
  BY <1>1, PathIs
<1>3. /\ parsed'.model = parsed.model /\ parsed'.thread = parsed.thread
      /\ parsed'.previous = parsed.previous /\ parsed'.escaped = parsed.escaped
      /\ parsed'.files = IF p.type \in M!FileTypes /\ p.file # Nothing
                         THEN parsed.files \cup {p.file} ELSE parsed.files
      /\ parsed'.owned <=> parsed.owned \/ p.type \in M!OwnedTypes
  BY <1>1, <1>2, ClosedIs, Zenon
<1>4. /\ Len(path') = n - 1 /\ \A i \in 1..n - 1 : path'[i] = path[i]
  BY <1>1, PathDropped, Zenon
<1>5. /\ ContainersRelated /\ ModelKept /\ IdsKept /\ Len(scan.containers) = n
      /\ Related(p, c, n, scan.owned, parsed.escaped)
  BY <1>1, LastRelated DEF Together
<1>6. /\ scan' \in Scanned /\ (scan'.off => scan'.overflow)
      /\ ~scan'.off =>
           /\ scan'.model = scan.model /\ scan'.thread = scan.thread
           /\ scan'.previous = scan.previous /\ scan'.owned = scan.owned
           /\ scan'.client = IF scan.client = n THEN 0 ELSE scan.client
           /\ scan'.containers = M!Front(scan.containers)
           /\ scan'.files = IF c.account_scoped_file /\ c.file_id # Nothing
                            THEN scan.files \cup {c.file_id} ELSE scan.files
  <2>1. scan' = M!ScanClose
    BY <1>1
  <2>2. Len(scan.containers) > 0
    BY <1>1, <1>5
  <2>3. LET r == M!ScanClose
            m == Len(scan.containers)
            d == scan.containers[m]
        IN  /\ r \in Scanned
            /\ r.off => r.overflow
            /\ ~r.off =>
                 /\ r.model = scan.model /\ r.thread = scan.thread
                 /\ r.previous = scan.previous /\ r.owned = scan.owned
                 /\ r.client = IF scan.client = m THEN 0 ELSE scan.client
                 /\ r.containers = M!Front(scan.containers)
                 /\ r.files = IF d.account_scoped_file /\ d.file_id # Nothing
                              THEN scan.files \cup {d.file_id} ELSE scan.files
    BY <2>2, ScanCloseIs
  <2>4. QED BY <2>1, <2>3, <1>5, Zenon
<1>7. /\ Len(M!Front(scan.containers)) = n - 1
      /\ \A i \in 1..n - 1 : M!Front(scan.containers)[i] = scan.containers[i]
  <2>1. PICK d \in Seq(ContainerRecord) : d = scan.containers
    BY DEF Scanned
  <2>2. Len(d) > 0 /\ Len(d) = n
    BY <1>1, <1>5, <2>1
  <2>3. /\ Len(M!Front(d)) = Len(d) - 1
        /\ \A i \in 1..Len(d) - 1 : M!Front(d)[i] = d[i]
    BY <2>2, LastDropped
  <2>4. QED BY <2>1, <2>2, <2>3, Zenon
<1> HIDE DEF n, p, c
<1>8. ASSUME ~scan'.off
      PROVE  ContainersRelated'
  <2>1. \A i \in 1..n - 1 :
          Related(path[i], scan.containers[i], i, scan.owned, parsed.escaped)
    BY <1>2, <1>5 DEF ContainersRelated, n
  <2>2. /\ Len(scan'.containers) = n - 1 /\ scan'.owned = scan.owned
        /\ \A i \in 1..n - 1 : scan'.containers[i] = scan.containers[i]
    BY <1>6, <1>7, <1>8
  <2>3. \A i \in 1..n - 1 :
          Related(path'[i], scan'.containers[i], i, scan'.owned, parsed'.escaped)
    BY <1>3, <1>4, <2>1, <2>2
  <2>4. QED BY <1>4, <2>2, <2>3 DEF ContainersRelated
<1>9. KindsAnnounced'
  BY <1>1 DEF KindsAnnounced
<1>10. ASSUME ~scan'.off
       PROVE  ModelKept'
  <2>1. ~AtModel /\ ~AtModel'
    BY <1>1 DEF AtModel
  <2>2. QED BY <1>3, <1>5, <1>6, <1>10, <2>1 DEF ModelKept
<1>11. ASSUME ~scan'.off
       PROVE  IdsKept'
  <2>1. SUFFICES ASSUME ~scan'.owned PROVE IdsKept'
    BY DEF IdsKept
  <2>2. ~scan.owned /\ scan.client = Metadata(path) /\ ~parsed.owned
    BY <1>5, <1>6, <1>11, <2>1 DEF IdsKept
  <2>3. scan'.client = Metadata(path')
    <3>1. scan'.client = IF Metadata(path) = n THEN 0 ELSE Metadata(path)
      BY <1>6, <1>11, <2>2
    <3>2. CASE n >= 3
      <4>1. path'[2] = path[2]
        BY <1>2, <1>4, <3>2
      <4>2. Metadata(path') = Metadata(path) /\ Metadata(path) # n
        BY <1>2, <1>4, <3>2, <4>1 DEF Metadata, n
      <4>3. QED BY <3>1, <4>2
    <3>3. CASE n < 3
      <4>1. Metadata(path') = 0 /\ Metadata(path) \in {0, 2} /\ (n = 1 => Metadata(path) = 0)
        BY <1>2, <1>4, <3>3 DEF Metadata, n
      <4>2. n \in {1, 2}
        BY <1>1, <1>2, <3>3
      <4>3. QED BY <3>1, <4>1, <4>2
    <3>4. QED BY <1>2, <3>2, <3>3
  <2>4. ~parsed'.owned
    BY <1>3, <1>5, <2>2 DEF Related
  <2>5. ASSUME ~parsed'.escaped
        PROVE  /\ parsed'.previous \in {Nothing, scan'.previous}
               /\ parsed'.thread \in {Nothing, scan'.thread}
               /\ parsed'.files \subseteq scan'.files
    <3>1. /\ parsed.previous \in {Nothing, scan.previous}
          /\ parsed.thread \in {Nothing, scan.thread}
          /\ parsed.files \subseteq scan.files
      BY <1>3, <1>5, <2>2, <2>5 DEF IdsKept
    <3>2. /\ p.type \in M!FileTypes => c.account_scoped_file
          /\ p.file # Nothing => c.file_id = p.file
      BY <1>3, <1>5, <2>2, <2>5 DEF Related
    <3>3. parsed'.files \subseteq scan'.files
      <4>1. scan'.files = IF c.account_scoped_file /\ c.file_id # Nothing
                          THEN scan.files \cup {c.file_id} ELSE scan.files
        BY <1>6, <1>11
      <4>2. QED BY <1>3, <3>1, <3>2, <4>1
    <3>4. QED BY <1>3, <1>6, <1>11, <3>1, <3>3
  <2>6. QED BY <2>3, <2>4, <2>5 DEF IdsKept
<1>12. QED BY <1>6, <1>8, <1>9, <1>10, <1>11 DEF Together

LEMMA OpenTogether ==
  ASSUME PathTypeOK, scan \in Scanned, ~scan.off, Together,
         NEW object \in BOOLEAN, M!Open(object)
  PROVE  /\ scan' \in Scanned
         /\ scan'.off => scan'.owned
         /\ ~scan'.off => Together'
<1> DEFINE n == Len(path)
           p == path[n]
           c == scan.containers[n]
           f == M!Frame(object)
<1>1. /\ next = "value" /\ next' = IF object THEN "key" ELSE "value"
      /\ path' \in Seq(FrameRecord) /\ Len(path') = n + 1 /\ path'[n + 1] = f
      /\ n > 0 => path'[n] = M!Assigned(p, Nothing)
      /\ \A i \in 1..n : i # n => path'[i] = path[i]
      /\ parsed' = M!AssignedRoot(Nothing)
      /\ scan' = IF scan.off THEN scan ELSE M!ScanOpen(object)
  BY OpenPath, Zenon
<1>2. n \in Nat
  BY DEF PathTypeOK
<1>3. /\ f.object = object /\ f.key = Nothing /\ f.type = Nothing /\ f.file = Nothing
      /\ f.of = KeyOfLast
      /\ f.item <=> (n = 2 /\ ~path[2].object /\ path[2].of = "input")
  BY OpenedFrameIs, Zenon
<1>4. /\ parsed'.files = parsed.files
      /\ parsed'.owned = parsed.owned /\ parsed'.escaped = parsed.escaped
      /\ parsed'.model = IF n = 1 /\ KeyOfLast = "model" THEN Nothing ELSE parsed.model
      /\ parsed'.previous \in {Nothing, parsed.previous}
      /\ parsed'.thread \in {Nothing, parsed.thread}
  <2>1. /\ M!AssignedRoot(Nothing).files = parsed.files
        /\ M!AssignedRoot(Nothing).owned = parsed.owned
        /\ M!AssignedRoot(Nothing).escaped = parsed.escaped
        /\ M!AssignedRoot(Nothing).model =
             IF Len(path) = 1 /\ KeyOfLast = "model" THEN Nothing ELSE parsed.model
        /\ M!AssignedRoot(Nothing).previous =
             IF Len(path) = 1 /\ KeyOfLast = "previous_response_id" THEN Nothing
             ELSE parsed.previous
        /\ M!AssignedRoot(Nothing).thread =
             IF Len(path) = 2 /\ KeyOfLast = "thread_id"
                  /\ path[2].object /\ path[2].of = "client_metadata"
             THEN Nothing
             ELSE IF Len(path) = 1 /\ KeyOfLast = "client_metadata" THEN Nothing
             ELSE parsed.thread
    BY RootIs, NothingIsNone, Zenon
  <2>2. /\ parsed'.files = parsed.files
        /\ parsed'.owned = parsed.owned /\ parsed'.escaped = parsed.escaped
        /\ parsed'.model = IF n = 1 /\ KeyOfLast = "model" THEN Nothing ELSE parsed.model
    BY <1>1, <2>1, Zenon
  <2>3. parsed'.previous \in {Nothing, parsed.previous}
        /\ parsed'.thread \in {Nothing, parsed.thread}
    BY <1>1, <2>1
  <2>4. QED BY <2>2, <2>3
<1>5. ContainersRelated /\ ModelKept /\ IdsKept /\ Len(scan.containers) = n
  BY DEF Together, ContainersRelated
\* What the pending property says of the container that opens.
<1>6. /\ n > 0 => /\ p \in FrameRecord /\ Related(p, c, n, scan.owned, parsed.escaped)
                  /\ KeyOfLast = p.key
      /\ n = 0 => scan.pending = Nothing /\ KeyOfLast = Nothing
      /\ AtModel <=> (n = 1 /\ KeyOfLast = "model")
      /\ ~scan.owned =>
           \A t \in {"client_metadata", "input"} :
             scan.pending = t <=> (n = 1 /\ KeyOfLast = t)
  <2>1. CASE n = 0
    <3>1. scan.pending = Nothing /\ KeyOfLast = Nothing
      BY <1>1, <2>1 DEF Together, KindsAnnounced, KeyOfLast
    <3>2. ~AtModel
      BY <2>1 DEF AtModel
    <3>3. QED BY <2>1, <3>1, <3>2, ScanAssumption
  <2>2. CASE n > 0
    <3>1. p \in FrameRecord /\ KeyOfLast = p.key
      BY <2>2, PathIs DEF KeyOfLast
    <3>2. Related(p, c, n, scan.owned, parsed.escaped)
      BY <1>5, <2>2, LastRelated
    <3>3. /\ scan.pending = "model" <=> (n = 1 /\ p.key = "model")
          /\ AtModel <=> scan.pending = "model"
          /\ ~scan.owned =>
               \A t \in {"client_metadata", "previous_response_id", "input"} :
                 scan.pending = t <=> (n = 1 /\ p.key = t)
      BY <1>1, <2>2, PendingIs
    <3> HIDE DEF n, p
    <3>4. QED BY <2>2, <3>1, <3>2, <3>3
  <2>3. QED BY <1>2, <2>1, <2>2
<1>7. /\ scan' \in Scanned
      /\ scan'.off => scan'.owned
      /\ ~scan'.off =>
           /\ scan'.pending = Nothing
           /\ scan'.model = scan.model /\ scan'.thread = scan.thread
           /\ scan'.previous = scan.previous /\ scan'.files = scan.files
           /\ scan'.owned = scan.owned
           /\ scan'.client = IF object /\ scan.pending = "client_metadata" THEN n + 1
                             ELSE scan.client
           /\ \E e \in ContainerRecord :
                /\ scan'.containers = Append(scan.containers, e)
                /\ e.object = object
                /\ e.input_array <=> (~object /\ n = 1 /\ scan.pending = "input")
                /\ e.native_input_item <=> (object /\ n > 0 /\ c.input_array)
  <2>1. scan' = M!ScanOpen(object)
    BY <1>1
  <2>2. LET r == M!ScanOpen(object)
            m == Len(scan.containers)
        IN  /\ r \in Scanned
            /\ r.off => r.owned
            /\ ~r.off =>
                 /\ r.pending = Nothing
                 /\ r.model = scan.model /\ r.thread = scan.thread
                 /\ r.previous = scan.previous /\ r.files = scan.files
                 /\ r.owned = scan.owned
                 /\ r.client = IF object /\ scan.pending = "client_metadata" THEN m + 1
                               ELSE scan.client
                 /\ \E e \in ContainerRecord :
                      /\ r.containers = Append(scan.containers, e)
                      /\ e.object = object
                      /\ e.input_array <=> (~object /\ m = 1 /\ scan.pending = "input")
                      /\ e.native_input_item <=>
                           (object /\ m > 0 /\ scan.containers[m].input_array)
    BY ScanOpenIs
  <2>3. QED BY <2>1, <2>2, <1>5, Zenon
<1>8. SUFFICES ASSUME ~scan'.off PROVE Together'
  BY <1>7
<1>9. PICK e \in ContainerRecord :
        /\ scan'.containers = Append(scan.containers, e)
        /\ e.object = object
        /\ e.input_array <=> (~object /\ n = 1 /\ scan.pending = "input")
        /\ e.native_input_item <=> (object /\ n > 0 /\ c.input_array)
  BY <1>7, <1>8
<1>10. /\ Len(scan'.containers) = n + 1 /\ scan'.containers[n + 1] = e
       /\ \A i \in 1..n : scan'.containers[i] = scan.containers[i]
  <2>1. PICK d \in Seq(ContainerRecord) : d = scan.containers
    BY DEF Scanned
  <2>2. Len(d) = n
    BY <1>5, <2>1
  <2>3. /\ Len(Append(d, e)) = Len(d) + 1 /\ Append(d, e)[Len(d) + 1] = e
        /\ \A i \in 1..Len(d) : Append(d, e)[i] = d[i]
    OBVIOUS
  <2>4. scan'.containers = Append(d, e)
    BY <1>9, <2>1
  <2> HIDE DEF n
  <2>5. QED BY <2>1, <2>2, <2>3, <2>4, Zenon
<1> HIDE DEF n, p, c, f
<1>11. ContainersRelated'
  <2>1. n > 0 => Related(path'[n], scan'.containers[n], n, scan'.owned, parsed'.escaped)
    <3>1. SUFFICES ASSUME n > 0
                   PROVE  Related(path'[n], scan'.containers[n], n, scan'.owned, parsed'.escaped)
      OBVIOUS
    <3>2. Related(M!Assigned(p, Nothing), c, n, scan.owned, parsed.escaped)
      BY <1>6, <3>1, NoStringRelated
    <3>3. scan'.containers[n] = c
      BY <1>2, <1>10, <3>1 DEF c
    <3>4. /\ path'[n] = M!Assigned(p, Nothing)
          /\ scan'.owned = scan.owned /\ parsed'.escaped = parsed.escaped
      BY <1>1, <1>4, <1>7, <1>8, <3>1
    <3>5. QED BY <3>2, <3>3, <3>4, Zenon
  <2>2. Related(f, e, n + 1, scan'.owned, parsed'.escaped)
    <3>1. f.object <=> e.object
      BY <1>3, <1>9
    <3>2. ASSUME ~scan'.owned
          PROVE  /\ e.input_array <=> (n + 1 = 2 /\ ~f.object /\ f.of = "input")
                 /\ e.native_input_item <=> (f.object /\ f.item)
      <4>1. ~scan.owned
        BY <1>7, <1>8, <3>2
      <4>2. e.input_array <=> (n + 1 = 2 /\ ~f.object /\ f.of = "input")
        BY <1>2, <1>3, <1>6, <1>9, <4>1
      <4>3. n > 0 => (c.input_array <=> (n = 2 /\ ~p.object /\ p.of = "input"))
        BY <1>6, <4>1 DEF Related
      <4>4. n = 2 => p = path[2]
        BY DEF p
      <4>5. e.native_input_item <=> (f.object /\ f.item)
        BY <1>2, <1>3, <1>9, <4>3, <4>4
      <4>6. QED BY <4>2, <4>5
    <3>3. QED BY <1>3, <3>1, <3>2, NothingIsNone DEF Related
  <2>3. \A i \in 1..n + 1 :
          Related(path'[i], scan'.containers[i], i, scan'.owned, parsed'.escaped)
    <3>1. TAKE i \in 1..n + 1
    <3>2. CASE i = n + 1
      BY <1>1, <1>10, <2>2, <3>2, Zenon
    <3>3. CASE i = n
      <4>1. n > 0
        BY <1>2, <3>3
      <4>2. QED BY <2>1, <3>3, <4>1, Zenon
    <3>4. CASE i < n
      <4>1. i \in 1..n /\ i # n
        BY <1>2, <3>4
      <4>2. path'[i] = path[i] /\ scan'.containers[i] = scan.containers[i]
        BY <1>1, <1>10, <4>1
      <4>3. Related(path[i], scan.containers[i], i, scan.owned, parsed.escaped)
        BY <1>5, <4>1 DEF ContainersRelated, n
      <4>4. scan'.owned = scan.owned /\ parsed'.escaped = parsed.escaped
        BY <1>4, <1>7, <1>8
      <4>5. QED BY <4>2, <4>3, <4>4, Zenon
    <3>5. QED BY <1>2, <3>2, <3>3, <3>4
  <2>4. QED BY <1>1, <1>10, <2>3 DEF ContainersRelated
<1>12. KindsAnnounced'
  BY <1>1, <1>2, <1>3, <1>7, <1>8 DEF KindsAnnounced, Announces
<1>13. ModelKept'
  <2>1. ~AtModel'
    <3>1. n = 0 => path'[1].key # "model"
      BY <1>1, <1>3, ScanAssumption
    <3>2. QED BY <1>1, <1>2, <3>1 DEF AtModel
  <2>2. QED BY <1>4, <1>5, <1>6, <1>7, <1>8, <2>1 DEF ModelKept
<1>14. IdsKept'
  <2>1. SUFFICES ASSUME ~scan'.owned PROVE IdsKept'
    BY DEF IdsKept
  <2>2. ~scan.owned /\ scan.client = Metadata(path) /\ ~parsed.owned
    BY <1>5, <1>7, <1>8, <2>1 DEF IdsKept
  <2>3. scan'.client = IF object /\ n = 1 /\ KeyOfLast = "client_metadata" THEN n + 1
                       ELSE Metadata(path)
    BY <1>6, <1>7, <1>8, <2>2
  <2>4. scan'.client = Metadata(path')
    <3>1. CASE n = 0
      BY <1>1, <2>3, <3>1 DEF Metadata, n
    <3>2. CASE n = 1
      <4>1. path'[2] = f /\ Len(path') = 2 /\ Metadata(path) = 0
        BY <1>1, <3>2 DEF Metadata, n
      <4>2. QED BY <1>3, <2>3, <3>2, <4>1 DEF Metadata
    <3>3. CASE n = 2
      <4>1. path'[2] = M!Assigned(p, Nothing) /\ p = path[2]
        BY <1>1, <3>3 DEF p
      <4>2. M!Assigned(p, Nothing).object = p.object /\ M!Assigned(p, Nothing).of = p.of
        BY <1>6, <3>3, NothingIsNone, AssignedIs
      <4>3. Metadata(path') = Metadata(path)
        BY <1>1, <3>3, <4>1, <4>2 DEF Metadata, n
      <4>4. QED BY <2>3, <3>3, <4>3
    <3>4. CASE n > 2
      <4>1. path'[2] = path[2]
        BY <1>1, <1>2, <3>4
      <4>2. Metadata(path') = Metadata(path)
        BY <1>1, <1>2, <3>4, <4>1 DEF Metadata, n
      <4>3. QED BY <2>3, <3>4, <4>2
    <3>5. QED BY <1>2, <3>1, <3>2, <3>3, <3>4
  <2>5. ~parsed'.owned
    BY <1>4, <2>2
  <2>6. ~parsed'.escaped =>
          /\ parsed'.previous \in {Nothing, scan'.previous}
          /\ parsed'.thread \in {Nothing, scan'.thread}
          /\ parsed'.files \subseteq scan'.files
    BY <1>4, <1>5, <1>7, <1>8, <2>2 DEF IdsKept
  <2>7. QED BY <2>4, <2>5, <2>6 DEF IdsKept
<1>15. QED BY <1>11, <1>12, <1>13, <1>14 DEF Together

LEMMA ScanStart ==
  ASSUME M!Init
  PROVE  PathTypeOK /\ scan \in Scanned /\ ~scan.off /\ Together
<1>1. /\ path = <<>> /\ next = "value" /\ parsed = M!Found
      /\ scan = [containers |-> <<>>, client |-> 0, key |-> Nothing, pending |-> Nothing,
                 off |-> FALSE, model |-> Nothing, thread |-> Nothing, previous |-> Nothing,
                 files |-> {}, overflow |-> FALSE, owned |-> FALSE]
  BY DEF M!Init
<1>2. parsed = [model |-> Nothing, thread |-> Nothing, previous |-> Nothing,
                files |-> {}, owned |-> FALSE, escaped |-> FALSE]
  BY <1>1 DEF M!Found
<1>3. path \in Seq(FrameRecord) /\ Len(path) = 0
  BY <1>1
<1>4. PathTypeOK
  BY <1>1, <1>2, <1>3 DEF PathTypeOK, Parsed, Found
<1>5. scan \in Scanned /\ ~scan.off
  BY <1>1 DEF Scanned, Found
<1>6. Len(scan.containers) = 0 /\ scan.pending = Nothing /\ scan.client = 0
  BY <1>1
<1>7. Together
  BY <1>1, <1>2, <1>3, <1>6
     DEF Together, ContainersRelated, KindsAnnounced, ModelKept, AtModel, IdsKept, Metadata
<1>8. QED BY <1>4, <1>5, <1>7

LEMMA ScanGoesOn ==
  ASSUME PathTypeOK, scan \in Scanned, scan.off => scan.owned \/ scan.overflow,
         ~scan.off => Together, M!Next
  PROVE  /\ PathTypeOK' /\ scan' \in Scanned
         /\ scan'.off => scan'.owned \/ scan'.overflow
         /\ ~scan'.off => Together'
<1>1. PathTypeOK'
  BY PathTyped
<1>2. CASE scan.off
  <2>1. scan' = scan
    BY <1>2 DEF M!Next, M!Key, M!Colon, M!String, M!Scalar, M!Comma, M!Close, M!Open, M!Feed
  <2>2. QED BY <1>1, <1>2, <2>1
<1>3. CASE ~scan.off
  <2>1. CASE M!Key
    BY <1>1, <1>3, <2>1, KeyTogether
  <2>2. CASE M!Colon
    BY <1>1, <1>3, <2>2, ColonTogether
  <2>3. CASE M!String
    BY <1>1, <1>3, <2>3, StringTogether
  <2>4. CASE M!Scalar
    BY <1>1, <1>3, <2>4, ScalarTogether
  <2>5. CASE M!Comma
    BY <1>1, <1>3, <2>5, CommaTogether
  <2>6. CASE M!Close
    BY <1>1, <1>3, <2>6, CloseTogether
  <2>7. CASE \E object \in BOOLEAN : M!Open(object)
    BY <1>1, <1>3, <2>7, OpenTogether
  <2>8. QED BY <2>1, <2>2, <2>3, <2>4, <2>5, <2>6, <2>7, Zenon DEF M!Next
<1>4. QED BY <1>2, <1>3

LEMMA ScanStep ==
  ASSUME ScanInv, [ProxyNext]_proxy
  PROVE  ScanInv'
<1>1. SUFFICES ASSUME part' = "scan"
               PROVE  /\ PathTypeOK' /\ scan' \in Scanned
                      /\ scan'.off => scan'.owned \/ scan'.overflow
                      /\ ~scan'.off => Together'
  BY DEF ScanInv
<1>2. part = "scan" /\ [M!Next]_(M!vars)
  BY <1>1, ScanAlone
<1>3. /\ PathTypeOK /\ scan \in Scanned
      /\ scan.off => scan.owned \/ scan.overflow
      /\ ~scan.off => Together
  BY <1>2 DEF ScanInv
<1>4. CASE M!Next
  BY <1>3, <1>4, ScanGoesOn
<1>5. CASE UNCHANGED M!vars
  <2>1. path' = path /\ next' = next /\ parsed' = parsed /\ scan' = scan
    BY <1>5 DEF M!vars
  <2>2. PathTypeOK'
    BY <1>3, <2>1 DEF PathTypeOK
  <2>3. ~scan'.off => Together'
    BY <1>3, <2>1 DEF Together, ContainersRelated, KindsAnnounced, ModelKept, AtModel, IdsKept
  <2>4. QED BY <1>3, <2>1, <2>2, <2>3
<1>6. QED BY <1>2, <1>4, <1>5

(***************************************************************************)
(* What the parser upstream takes for account-owned, the scanner has seen, *)
(* or it has declared the request nonportable, whatever the document, its  *)
(* depth and the spelling of its names; and the model it routes by is the  *)
(* one that upstream reads, unless it stopped (replay_body.rs,             *)
(* MetadataScanner).                                                       *)
(***************************************************************************)
THEOREM OwnershipSeenAlways == ProxySpec => []OwnershipSeen
<1>1. ProxyInit => ScanInv
  BY ScanStart DEF ProxyInit, ScanInv
<1>2. ScanInv /\ [ProxyNext]_proxy => ScanInv'
  BY ScanStep
<1>3. ScanInv => OwnershipSeen
  <2>1. SUFFICES ASSUME ScanInv, part = "scan", next = "end"
                 PROVE  /\ \/ M!Finished.owned
                           \/ scan.overflow
                           \/ /\ ~parsed.owned
                              /\ \/ parsed.escaped
                                 \/ /\ parsed.previous \in {Nothing, scan.previous}
                                    /\ parsed.thread \in {Nothing, scan.thread}
                                    /\ parsed.files \subseteq scan.files
                        /\ ~scan.off => scan.model = parsed.model
    BY DEF OwnershipSeen, M!OwnershipSeen, M!ModelAgrees
  <2>2. scan.owned => M!Finished.owned
    BY <2>1 DEF ScanInv, Scanned, M!Finished
  <2>3. ~scan.off => IdsKept /\ scan.model = parsed.model
    BY <2>1 DEF ScanInv, Together, ModelKept, AtModel
  <2>4. scan.off => scan.owned \/ scan.overflow
    BY <2>1 DEF ScanInv
  <2>5. QED BY <2>2, <2>3, <2>4 DEF IdsKept
<1>4. QED BY <1>1, <1>2, <1>3, PTL DEF ProxySpec
-----------------------------------------------------------------------------
(* The search for an overlap.                                              *)

\* The first k items of p are the last of the first j items of t.
Ends(t, j, p, k) == k <= j /\ \A i \in 1..k : t[j - k + i] = p[i]

\* Of the numbers up to c, m is the greatest for which they are.
Greatest(m, t, j, p, c) ==
  /\ m \in 0..c /\ Ends(t, j, p, m)
  /\ \A k \in 0..c : Ends(t, j, p, k) => k <= m

\* The table is right about the first l items of p.
Falls(f, p, l) == \A n \in 1..l : Greatest(f[n], p, n, p, n - 1)

\* What the matches that Extended tries obey.
Tries(h, p, f, m, x) ==
  h = [n \in 0..m |-> IF n < Len(p) /\ p[n + 1] = x THEN n + 1
                      ELSE IF n = 0 THEN 0 ELSE h[f[n]]]

\* What they come to.
Tried(e, p, f, m, x) == \E h : Tries(h, p, f, m, x) /\ e = h[m]

LEMMA TriesExist ==
  ASSUME NEW m \in Nat, NEW f, NEW p, NEW x, \A n \in 1..m : f[n] \in 0..(n - 1)
  PROVE  \E h : Tries(h, p, f, m, x)
<1> DEFINE At(h, n) == h[n] = IF n < Len(p) /\ p[n + 1] = x THEN n + 1
                              ELSE IF n = 0 THEN 0 ELSE h[f[n]]
           Reached == {l \in Nat : \E h : \A n \in 0..l : n <= m => At(h, n)}
<1>1. 0 \in Reached
  <2> DEFINE h == [n \in {0} |-> IF n < Len(p) /\ p[n + 1] = x THEN n + 1 ELSE 0]
  <2>1. At(h, 0)
    OBVIOUS
  <2>2. \A n \in 0..0 : n = 0
    OBVIOUS
  <2> HIDE DEF At, h
  <2>3. QED BY <2>1, <2>2
<1>2. ASSUME NEW l \in Nat, l \in Reached PROVE l + 1 \in Reached
  <2>1. PICK h : \A n \in 0..l : n <= m => At(h, n)
    BY <1>2
  <2> DEFINE g == [n \in 0..(l + 1) |->
                     IF n <= l THEN h[n]
                     ELSE IF n < Len(p) /\ p[n + 1] = x THEN n + 1 ELSE h[f[n]]]
  <2>2. \A n \in 0..l : g[n] = h[n]
    OBVIOUS
  <2>3. ASSUME NEW n \in 0..(l + 1), n <= m PROVE At(g, n)
    <3>1. n # 0 => f[n] \in 0..(n - 1)
      BY <2>3
    <3>2. CASE n <= l
      <4>1. At(h, n) /\ g[n] = h[n]
        BY <2>1, <2>2, <2>3, <3>2
      <4>2. n # 0 => g[f[n]] = h[f[n]]
        <5>1. n # 0 => f[n] \in 0..l
          BY <3>1, <3>2
        <5> HIDE DEF g
        <5>2. QED BY <5>1, <2>2
      <4> HIDE DEF g
      <4>3. QED BY <4>1, <4>2
    <3>3. CASE n = l + 1
      <4>1. g[n] = IF n < Len(p) /\ p[n + 1] = x THEN n + 1 ELSE h[f[n]]
        BY <3>3
      <4>2. n # 0 /\ g[f[n]] = h[f[n]]
        <5>1. n # 0 /\ f[n] \in 0..l
          BY <3>1, <3>3
        <5> HIDE DEF g
        <5>2. QED BY <5>1, <2>2
      <4> HIDE DEF g
      <4>3. QED BY <4>1, <4>2
    <3>4. QED BY <3>2, <3>3
  <2> HIDE DEF At, g
  <2>4. QED BY <2>3
<1>3. m \in Reached
  <2> HIDE DEF Reached
  <2>1. QED BY <1>1, <1>2, NumbersFollow, Zenon
<1>4. PICK h : \A n \in 0..m : n <= m => At(h, n)
  BY <1>3
<1> DEFINE g == [n \in 0..m |-> h[n]]
<1>5. \A n \in 0..m : n # 0 => f[n] \in 0..m
  OBVIOUS
<1>6. \A n \in 0..m : At(g, n)
  BY <1>4, <1>5
<1>7. Tries(g, p, f, m, x)
  BY <1>6 DEF Tries
<1>8. QED BY <1>7

LEMMA ExtendedIs ==
  ASSUME NEW m \in Nat, NEW f, NEW p, NEW x, \A n \in 1..m : f[n] \in 0..(n - 1)
  PROVE  Tried(H!Extended(p, f, m, x), p, f, m, x)
<1> DEFINE choice == CHOOSE h : Tries(h, p, f, m, x)
<1>1. Tries(choice, p, f, m, x)
  BY TriesExist, Zenon
<1>2. H!Extended(p, f, m, x) = choice[m]
  BY Zenon DEF H!Extended, H!Shorter, Tries
<1>3. QED BY <1>1, <1>2 DEF Tried

\* From a longest match to the longest after one more item.
LEMMA ExtendedIsGreatest ==
  ASSUME NEW D, NEW p \in Seq(D), NEW t \in Seq(D), NEW j \in Nat, j < Len(t),
         NEW c \in Nat, NEW d \in Nat, d <= c + 1, d <= Len(p),
         d = c + 1 \/ d = Len(p),
         NEW m, Greatest(m, t, j, p, c), NEW f, Falls(f, p, m)
  PROVE  Greatest(H!Extended(p, f, m, t[j + 1]), t, j + 1, p, d)
<1> DEFINE x == t[j + 1]
           Matches(n) == n < Len(p) /\ p[n + 1] = x
           Left(n) == \A k \in 0..c : Ends(t, j, p, k) /\ Matches(k) => k <= n
<1>1. m \in Nat /\ m <= c /\ Len(p) \in Nat
  BY DEF Greatest
<1>2. \A n \in 1..m : f[n] \in 0..(n - 1)
  BY <1>1 DEF Falls, Greatest
<1> HIDE DEF x
<1>3. PICK h : Tries(h, p, f, m, x) /\ H!Extended(p, f, m, x) = h[m]
  <2>1. Tried(H!Extended(p, f, m, x), p, f, m, x)
    BY <1>1, <1>2, ExtendedIs
  <2>2. QED BY <2>1 DEF Tried
<1> USE DEF x
<1>4. \A n \in 0..m : h[n] = IF Matches(n) THEN n + 1 ELSE IF n = 0 THEN 0 ELSE h[f[n]]
  BY <1>3 DEF Tries
<1>5. ASSUME NEW k \in Nat, k >= 1, Ends(t, j + 1, p, k)
      PROVE  Ends(t, j, p, k - 1) /\ p[k] = x
  <2>1. k - 1 <= j /\ \A i \in 1..k : t[j + 1 - k + i] = p[i]
    BY <1>5 DEF Ends
  <2>2. t[j + 1 - k + k] = p[k]
    BY <2>1, <1>5
  <2>3. \A i \in 1..(k - 1) : t[j - (k - 1) + i] = p[i]
    <3>1. TAKE i \in 1..(k - 1)
    <3>2. j + 1 - k + i = j - (k - 1) + i
      OBVIOUS
    <3>3. QED BY <2>1, <3>2
  <2>4. QED BY <2>1, <2>2, <2>3 DEF Ends
<1>6. ASSUME NEW n \in 0..m, Left(n)
      PROVE  \A k \in 0..d : Ends(t, j + 1, p, k) => k <= n + 1
  <2>1. SUFFICES ASSUME NEW k \in 1..d, Ends(t, j + 1, p, k) PROVE k <= n + 1
    BY <1>1
  <2>2. Ends(t, j, p, k - 1) /\ p[k] = x
    BY <1>5, <2>1
  <2>3. k - 1 \in 0..c /\ k - 1 < Len(p) /\ p[k - 1 + 1] = x
    BY <1>1, <2>2
  <2>4. QED BY <1>6, <2>2, <2>3
<1>7. ASSUME NEW n \in 0..m, Left(n), Ends(t, j, p, n), Matches(n)
      PROVE  Greatest(n + 1, t, j + 1, p, d)
  <2>1. n + 1 \in 0..d
    BY <1>1, <1>7
  <2>2. n + 1 <= j + 1 /\ \A i \in 1..n : t[j - n + i] = p[i]
    BY <1>1, <1>7 DEF Ends
  <2>3. \A i \in 1..(n + 1) : t[j + 1 - (n + 1) + i] = p[i]
    <3>1. TAKE i \in 1..(n + 1)
    <3>2. CASE i = n + 1
      <4>1. j + 1 - (n + 1) + i = j + 1
        BY <3>2
      <4>2. QED BY <4>1, <3>2, <1>7
    <3>3. CASE i \in 1..n
      <4>1. j + 1 - (n + 1) + i = j - n + i
        BY <3>3
      <4>2. QED BY <4>1, <3>3, <2>2
    <3>4. QED BY <3>2, <3>3
  <2>4. Ends(t, j + 1, p, n + 1)
    BY <1>1, <2>2, <2>3 DEF Ends
  <2>5. QED BY <1>6, <1>7, <2>1, <2>4 DEF Greatest
<1>8. ASSUME Left(0), ~Matches(0)
      PROVE  Greatest(0, t, j + 1, p, d)
  <2>1. ASSUME NEW k \in 1..d, Ends(t, j + 1, p, k) PROVE FALSE
    <3>1. Ends(t, j, p, k - 1) /\ p[k] = x
      BY <1>5, <2>1
    <3>2. k - 1 \in 0..c /\ k - 1 < Len(p) /\ p[k - 1 + 1] = x
      BY <1>1, <3>1
    <3>3. k - 1 <= 0
      BY <1>8, <3>1, <3>2
    <3>4. k = 1
      BY <3>3
    <3>5. QED BY <3>2, <3>4, <1>8
  <2>2. QED BY <1>1, <2>1 DEF Greatest, Ends
<1>9. ASSUME NEW n \in 1..m, Left(n), Ends(t, j, p, n), ~Matches(n)
      PROVE  f[n] \in 0..(n - 1) /\ Left(f[n]) /\ Ends(t, j, p, f[n])
  <2>1. Greatest(f[n], p, n, p, n - 1)
    BY DEF Falls
  <2>2. f[n] \in 0..(n - 1)
    BY <2>1 DEF Greatest
  <2>3. n <= j /\ \A i \in 1..n : t[j - n + i] = p[i]
    BY <1>9 DEF Ends
  <2>4. Ends(t, j, p, f[n])
    <3>1. \A i \in 1..f[n] : p[n - f[n] + i] = p[i]
      BY <2>1 DEF Greatest, Ends
    <3>2. \A i \in 1..f[n] : t[j - f[n] + i] = p[i]
      <4>1. TAKE i \in 1..f[n]
      <4>2. n - f[n] + i \in 1..n /\ j - n + (n - f[n] + i) = j - f[n] + i
        BY <2>2
      <4>3. t[j - f[n] + i] = p[n - f[n] + i]
        BY <2>3, <4>2
      <4>4. QED BY <3>1, <4>3
    <3>3. f[n] <= j
      BY <2>2, <2>3
    <3>4. QED BY <3>2, <3>3 DEF Ends
  <2>5. ASSUME NEW k \in 0..c, Ends(t, j, p, k), Matches(k) PROVE k <= f[n]
    <3>1. k <= n /\ k # n
      BY <1>9, <2>5
    <3>2. k \in 0..(n - 1)
      BY <3>1
    <3>3. \A i \in 1..k : t[j - k + i] = p[i]
      BY <2>5 DEF Ends
    <3>4. \A i \in 1..k : p[n - k + i] = p[i]
      <4>1. TAKE i \in 1..k
      <4>2. n - k + i \in 1..n /\ j - n + (n - k + i) = j - k + i
        BY <3>2
      <4>3. t[j - k + i] = p[n - k + i]
        BY <2>3, <4>2
      <4>4. QED BY <3>3, <4>3
    <3>5. Ends(p, n, p, k)
      BY <3>1, <3>4 DEF Ends
    <3>6. QED BY <2>1, <3>2, <3>5 DEF Greatest
  <2>6. QED BY <2>2, <2>4, <2>5
<1> DEFINE Fine(n) == n \in 0..m /\ Left(n) /\ Ends(t, j, p, n)
                        => Greatest(h[n], t, j + 1, p, d)
           Good == {l \in Nat : \A n \in 0..l : Fine(n)}
<1>10. ASSUME NEW n \in Nat, \A k \in 0..(n - 1) : Fine(k) PROVE Fine(n)
  <2>1. SUFFICES ASSUME n \in 0..m, Left(n), Ends(t, j, p, n)
                 PROVE  Greatest(h[n], t, j + 1, p, d)
    OBVIOUS
  <2>2. h[n] = IF Matches(n) THEN n + 1 ELSE IF n = 0 THEN 0 ELSE h[f[n]]
    BY <1>4, <2>1
  <2>3. CASE Matches(n)
    BY <1>7, <2>1, <2>2, <2>3
  <2>4. CASE ~Matches(n) /\ n = 0
    <3>1. h[n] = 0
      BY <2>2, <2>4
    <3>2. Greatest(0, t, j + 1, p, d)
      BY <1>8, <2>1, <2>4
    <3>3. QED BY <3>1, <3>2
  <2>5. CASE ~Matches(n) /\ n # 0
    <3>1. f[n] \in 0..(n - 1) /\ Left(f[n]) /\ Ends(t, j, p, f[n])
      BY <1>9, <2>1, <2>5
    <3>2. f[n] \in 0..m /\ h[n] = h[f[n]]
      BY <1>1, <2>1, <2>2, <2>5, <3>1
    <3>3. QED BY <1>10, <3>1, <3>2
  <2>6. QED BY <2>3, <2>4, <2>5
<1> HIDE DEF Fine, Left, Matches
<1>11. 0 \in Good
  <2>1. Fine(0)
    BY <1>10
  <2>2. QED BY <2>1
<1>12. ASSUME NEW l \in Nat, l \in Good PROVE l + 1 \in Good
  <2>1. \A k \in 0..(l + 1 - 1) : Fine(k)
    BY <1>12
  <2>2. Fine(l + 1)
    BY <1>10, <2>1
  <2>3. QED BY <1>12, <2>2
<1>13. m \in Good
  <2> HIDE DEF Good
  <2>1. QED BY <1>1, <1>11, <1>12, NumbersFollow, Zenon
<1>14. Fine(m)
  BY <1>1, <1>13
<1>15. Left(m) /\ Ends(t, j, p, m)
  BY DEF Greatest, Left
<1>16. QED BY <1>1, <1>3, <1>14, <1>15 DEF Fine

\* What the rows of the table obey.
Rows(h, p, l) ==
  h = [i \in 1..l |->
         IF i = 1 THEN <<0>>
         ELSE Append(h[i - 1], H!Extended(p, h[i - 1], h[i - 1][i - 1], p[i]))]

LEMMA RowsExist ==
  ASSUME NEW p, NEW l \in Nat
  PROVE  \E h : Rows(h, p, l)
<1> DEFINE Reached == {n \in Nat : \E h : Rows(h, p, n)}
<1>1. 0 \in Reached
  <2> DEFINE h == [i \in 1..0 |-> 0]
  <2>1. Rows(h, p, 0)
    BY DEF Rows
  <2> HIDE DEF h
  <2>2. QED BY <2>1
<1>2. ASSUME NEW n \in Nat, n \in Reached PROVE n + 1 \in Reached
  <2>1. PICK h : Rows(h, p, n)
    BY <1>2
  <2> DEFINE Row(i) == Append(h[i - 1], H!Extended(p, h[i - 1], h[i - 1][i - 1], p[i]))
             g == [i \in 1..(n + 1) |->
                     IF i <= n THEN h[i] ELSE IF i = 1 THEN <<0>> ELSE Row(i)]
  <2>2. \A i \in 1..n : h[i] = IF i = 1 THEN <<0>> ELSE Row(i)
    BY <2>1 DEF Rows
  <2>3. \A i \in 1..n : g[i] = h[i]
    OBVIOUS
  <2>4. ASSUME NEW i \in 1..(n + 1)
        PROVE  g[i] = IF i = 1 THEN <<0>>
                      ELSE Append(g[i - 1], H!Extended(p, g[i - 1], g[i - 1][i - 1], p[i]))
    <3>1. i # 1 => g[i - 1] = h[i - 1]
      <4>1. i # 1 => i - 1 \in 1..n
        OBVIOUS
      <4> HIDE DEF g
      <4>2. QED BY <4>1, <2>3
    <3>2. g[i] = IF i = 1 THEN <<0>> ELSE Row(i)
      <4> HIDE DEF Row
      <4>1. CASE i <= n
        BY <4>1, <2>2, <2>3
      <4>2. CASE ~(i <= n)
        BY <4>2
      <4>3. QED BY <4>1, <4>2
    <3> HIDE DEF g
    <3>3. QED BY <3>1, <3>2
  <2>5. g = [i \in 1..(n + 1) |-> g[i]]
    OBVIOUS
  <2> HIDE DEF g
  <2>6. Rows(g, p, n + 1)
    BY <2>4, <2>5 DEF Rows
  <2>7. QED BY <2>6
<1>3. Nat \subseteq Reached
  <2> HIDE DEF Reached
  <2>1. QED BY <1>1, <1>2, NumbersFollow, Zenon
<1>4. QED BY <1>3

LEMMA FailureIs ==
  ASSUME NEW p, NEW l \in Nat, l = Len(p)
  PROVE  \E h : Rows(h, p, l) /\ H!Failure(p) = h[l]
<1> DEFINE choice == CHOOSE h : Rows(h, p, l)
<1>1. Rows(choice, p, l)
  BY RowsExist, Zenon
<1>2. H!Failure(p) = choice[l]
  BY Zenon DEF H!Failure, Rows
<1>3. QED BY <1>1, <1>2

\* The table is right about every part of the pattern.
LEMMA FailureIsRight ==
  ASSUME NEW D, NEW p \in Seq(D), p # <<>>
  PROVE  Falls(H!Failure(p), p, Len(p))
<1>1. Len(p) \in Nat /\ Len(p) >= 1
  OBVIOUS
<1>2. PICK h : Rows(h, p, Len(p)) /\ H!Failure(p) = h[Len(p)]
  <2>1. PICK l \in Nat : l = Len(p)
    BY <1>1
  <2>2. \E h : Rows(h, p, l) /\ H!Failure(p) = h[l]
    BY <2>1, FailureIs
  <2>3. QED BY <2>1, <2>2
<1> DEFINE Row(i, k) == Append(h[k], H!Extended(p, h[k], h[k][k], p[i]))
<1>3. \A i \in 1..Len(p) : h[i] = IF i = 1 THEN <<0>> ELSE Row(i, i - 1)
  BY <1>2 DEF Rows
<1> HIDE DEF Row
<1>4. \A i \in 2..Len(p) : h[i] = Row(i, i - 1)
  BY <1>3
<1> DEFINE Fine(i) == h[i] \in Seq(Nat) /\ Len(h[i]) = i /\ Falls(h[i], p, i)
           Good == {n \in Nat : n + 1 <= Len(p) => Fine(n + 1)}
<1>5. 0 \in Good
  <2>1. h[1] = <<0>>
    BY <1>1, <1>3
  <2>2. Greatest(0, p, 1, p, 0)
    BY DEF Greatest, Ends
  <2>3. Falls(<<0>>, p, 1)
    BY <2>2 DEF Falls
  <2>4. Fine(1)
    BY <2>1, <2>3
  <2> HIDE DEF Fine
  <2>5. QED BY <2>4
<1>6. ASSUME NEW n \in Nat, n \in Good PROVE n + 1 \in Good
  <2>1. SUFFICES ASSUME n + 2 <= Len(p) PROVE Fine(n + 2)
    OBVIOUS
  <2> DEFINE j == n + 1
             f == h[j]
             e == H!Extended(p, f, f[j], p[j + 1])
  <2>2. j \in Nat /\ j < Len(p) /\ j >= 1 /\ n + 2 = j + 1
    BY <1>1, <2>1
  <2>3. f \in Seq(Nat) /\ Len(f) = j /\ Falls(f, p, j)
    BY <1>1, <1>6, <2>1
  <2>4. h[j + 1] = Append(f, e)
    <3>1. j + 1 \in 2..Len(p) /\ j + 1 - 1 = j
      BY <1>1, <2>2
    <3> HIDE DEF j, f, e
    <3>2. h[j + 1] = Append(h[j], H!Extended(p, h[j], h[j][j], p[j + 1]))
      <4>1. h[j + 1] = Row(j + 1, j)
        BY <1>4, <2>2, <3>1
      <4>2. QED BY <4>1, Zenon DEF Row
    <3>3. QED BY <3>2 DEF e, f
  <2>5. Greatest(e, p, j + 1, p, j)
    <3>1. Greatest(f[j], p, j, p, j - 1)
      BY <2>2, <2>3 DEF Falls
    <3>2. f[j] \in 0..(j - 1)
      BY <3>1 DEF Greatest
    <3>3. Falls(f, p, f[j])
      BY <2>2, <2>3, <3>2 DEF Falls
    <3>4. j - 1 \in Nat /\ j <= (j - 1) + 1 /\ j <= Len(p) /\ j = (j - 1) + 1
      BY <1>1, <2>2
    <3> HIDE DEF j, f
    <3>5. QED BY <2>2, <3>1, <3>3, <3>4, ExtendedIsGreatest
  <2>6. e \in Nat
    BY <2>2, <2>5 DEF Greatest
  <2> HIDE DEF e, f
  <2>7. /\ Append(f, e) \in Seq(Nat) /\ Len(Append(f, e)) = j + 1
        /\ \A i \in 1..j : Append(f, e)[i] = f[i]
        /\ Append(f, e)[j + 1] = e
    BY <2>2, <2>3, <2>6
  <2>8. Falls(Append(f, e), p, j + 1)
    <3>1. ASSUME NEW i \in 1..(j + 1)
          PROVE  Greatest(Append(f, e)[i], p, i, p, i - 1)
      <4> HIDE DEF j
      <4>1. CASE i \in 1..j
        BY <2>3, <2>7, <4>1 DEF Falls
      <4>2. CASE i = j + 1
        <5>1. i - 1 = j
          BY <2>2, <4>2
        <5>2. QED BY <2>5, <2>7, <4>2, <5>1
      <4>3. i \in 1..j \/ i = j + 1
        BY <2>2
      <4>4. QED BY <4>1, <4>2, <4>3, Zenon
    <3>2. QED BY <3>1 DEF Falls
  <2>9. Fine(j + 1)
    BY <2>4, <2>7, <2>8
  <2>10. QED BY <2>2, <2>9
<1>7. Len(p) - 1 \in Good
  <2> HIDE DEF Good
  <2>1. Nat \subseteq Good
    BY <1>5, <1>6, NumbersFollow, Zenon
  <2>2. QED BY <1>1, <2>1
<1>8. Fine(Len(p))
  <2>1. Len(p) - 1 + 1 = Len(p)
    BY <1>1
  <2> HIDE DEF Fine
  <2>2. QED BY <1>1, <1>7, <2>1
<1>9. QED BY <1>2, <1>8

\* What the matches along t obey.
Along(h, t, p, f, l) ==
  h = [j \in 0..l |-> IF j = 0 THEN 0 ELSE H!Extended(p, f, h[j - 1], t[j])]

LEMMA AlongExists ==
  ASSUME NEW t, NEW p, NEW f, NEW l \in Nat
  PROVE  \E h : Along(h, t, p, f, l)
<1> DEFINE Reached == {n \in Nat : \E h : Along(h, t, p, f, n)}
<1>1. 0 \in Reached
  <2> DEFINE h == [j \in 0..0 |-> 0]
  <2>1. Along(h, t, p, f, 0)
    BY DEF Along
  <2> HIDE DEF h
  <2>2. QED BY <2>1
<1>2. ASSUME NEW n \in Nat, n \in Reached PROVE n + 1 \in Reached
  <2>1. PICK h : Along(h, t, p, f, n)
    BY <1>2
  <2> DEFINE Item(j) == H!Extended(p, f, h[j - 1], t[j])
             g == [j \in 0..(n + 1) |-> IF j <= n THEN h[j] ELSE Item(j)]
  <2>2. \A j \in 0..n : h[j] = IF j = 0 THEN 0 ELSE Item(j)
    BY <2>1 DEF Along
  <2>3. \A j \in 0..n : g[j] = h[j]
    OBVIOUS
  <2>4. ASSUME NEW j \in 0..(n + 1)
        PROVE  g[j] = IF j = 0 THEN 0 ELSE H!Extended(p, f, g[j - 1], t[j])
    <3>1. j # 0 => g[j - 1] = h[j - 1]
      <4>1. j # 0 => j - 1 \in 0..n
        OBVIOUS
      <4> HIDE DEF g
      <4>2. QED BY <4>1, <2>3
    <3>2. g[j] = IF j = 0 THEN 0 ELSE Item(j)
      <4> HIDE DEF Item
      <4>1. CASE j <= n
        BY <4>1, <2>2, <2>3
      <4>2. CASE ~(j <= n)
        BY <4>2
      <4>3. QED BY <4>1, <4>2
    <3> HIDE DEF g
    <3>3. QED BY <3>1, <3>2
  <2>5. g = [j \in 0..(n + 1) |-> g[j]]
    OBVIOUS
  <2> HIDE DEF g
  <2>6. Along(g, t, p, f, n + 1)
    BY <2>4, <2>5 DEF Along
  <2>7. QED BY <2>6
<1>3. Nat \subseteq Reached
  <2> HIDE DEF Reached
  <2>1. QED BY <1>1, <1>2, NumbersFollow, Zenon
<1>4. QED BY <1>3

\* The longest match at the end of t.
LEMMA AlongIsGreatest ==
  ASSUME NEW D, NEW p \in Seq(D), p # <<>>, NEW t \in Seq(D),
         NEW h, Along(h, t, p, H!Failure(p), Len(t))
  PROVE  Greatest(h[Len(t)], t, Len(t), p, Len(p))
<1> DEFINE Fine(j) == Greatest(h[j], t, j, p, Len(p))
           Good == {n \in Nat : n <= Len(t) => Fine(n)}
           Item(j, k) == H!Extended(p, H!Failure(p), h[k], t[j])
<1>1. Len(p) \in Nat /\ Len(p) >= 1 /\ Len(t) \in Nat
  OBVIOUS
<1>2. Falls(H!Failure(p), p, Len(p))
  BY FailureIsRight
<1>3. \A j \in 0..Len(t) : h[j] = IF j = 0 THEN 0 ELSE Item(j, j - 1)
  BY DEF Along
<1> HIDE DEF Item
<1>4. 0 \in Good
  <2>1. h[0] = 0
    BY <1>1, <1>3
  <2>2. Greatest(0, t, 0, p, Len(p))
    BY <1>1 DEF Greatest, Ends
  <2>3. QED BY <2>1, <2>2
<1>5. ASSUME NEW n \in Nat, n \in Good PROVE n + 1 \in Good
  <2>1. SUFFICES ASSUME n + 1 <= Len(t) PROVE Fine(n + 1)
    OBVIOUS
  <2>2. n < Len(t) /\ Fine(n)
    BY <1>1, <1>5, <2>1
  <2>3. h[n + 1] = Item(n + 1, n)
    BY <1>1, <1>3, <2>1
  <2>4. h[n] \in 0..Len(p)
    BY <2>2 DEF Greatest
  <2>5. Falls(H!Failure(p), p, h[n])
    BY <1>1, <1>2, <2>4 DEF Falls
  <2>6. Greatest(H!Extended(p, H!Failure(p), h[n], t[n + 1]), t, n + 1, p, Len(p))
    <3>1. Len(p) <= Len(p) + 1 /\ Len(p) <= Len(p) /\ Len(p) = Len(p)
      BY <1>1
    <3>2. QED BY <1>1, <2>2, <2>5, <3>1, ExtendedIsGreatest
  <2>7. QED BY <2>3, <2>6, Zenon DEF Item
<1>6. Len(t) \in Good
  <2> HIDE DEF Good
  <2>1. QED BY <1>1, <1>4, <1>5, NumbersFollow, Zenon
<1>7. QED BY <1>1, <1>6

\* A prefix, item by item.
LEMMA PrefixIs ==
  ASSUME NEW D, NEW s \in Seq(D), NEW t \in Seq(D)
  PROVE  H!IsPrefix(s, t) <=> Len(s) <= Len(t) /\ \A i \in 1..Len(s) : s[i] = t[i]
<1>1. Len(s) \in Nat /\ Len(t) \in Nat
  OBVIOUS
<1>2. \A i \in 1..Len(s) : s[i] \in D
  OBVIOUS
<1>3. SubSeq(s, 1, Len(s)) = s
  BY SubSeqFull
<1>4. ASSUME Len(s) <= Len(t)
      PROVE  /\ SubSeq(t, 1, Len(s)) \in Seq(D) /\ Len(SubSeq(t, 1, Len(s))) = Len(s)
             /\ \A i \in 1..Len(s) : SubSeq(t, 1, Len(s))[i] = t[i]
  <2>1. \A i \in 1..Len(s) : t[i] \in D
    BY <1>1, <1>4
  <2>2. QED BY <1>1, <2>1, SubSeqProperties
<1>5. ASSUME Len(s) <= Len(t), \A i \in 1..Len(s) : s[i] = t[i]
      PROVE  SubSeq(t, 1, Len(s)) = s
  BY <1>4, <1>5, SeqEqual
<1>6. QED BY <1>3, <1>4, <1>5 DEF H!IsPrefix

LEMMA EndIsPrefix ==
  ASSUME NEW D, NEW p \in Seq(D), NEW t \in Seq(D), NEW n \in 1..Len(t)
  PROVE  H!IsPrefix(SubSeq(t, n, Len(t)), p)
           <=> Len(t) - n + 1 <= Len(p) /\ Ends(t, Len(t), p, Len(t) - n + 1)
<1> DEFINE s == SubSeq(t, n, Len(t))
           k == Len(t) - n + 1
<1>1. Len(t) \in Nat /\ n \in Nat /\ k \in Nat /\ k <= Len(t)
  OBVIOUS
<1>2. s \in Seq(D) /\ Len(s) = k /\ \A i \in 1..k : s[i] = t[n + i - 1]
  <2>1. \A i \in n..Len(t) : t[i] \in D
    OBVIOUS
  <2>2. QED BY <1>1, <2>1, SubSeqProperties
<1>3. \A i \in 1..k : s[i] = t[Len(t) - k + i]
  <2>1. TAKE i \in 1..k
  <2>2. n + i - 1 = Len(t) - k + i
    BY <1>1
  <2>3. QED BY <1>2, <2>2
<1> HIDE DEF s
<1>4. H!IsPrefix(s, p) <=> Len(s) <= Len(p) /\ \A i \in 1..Len(s) : s[i] = p[i]
  BY <1>2, PrefixIs
<1>5. H!IsPrefix(s, p) <=> k <= Len(p) /\ \A i \in 1..k : t[Len(t) - k + i] = p[i]
  <2> HIDE DEF k
  <2>1. QED BY <1>2, <1>3, <1>4
<1>6. QED BY <1>1, <1>5 DEF Ends, s

\* The linear search finds an overlap if there is one.
LEMMA OverlapsIs ==
  ASSUME NEW D, NEW p \in Seq(D), NEW t \in Seq(D)
  PROVE  H!Overlaps(t, p) <=>
           p # <<>> /\ \E n \in 1..Len(t) : H!IsPrefix(SubSeq(t, n, Len(t)), p)
<1>1. Len(p) \in Nat /\ Len(t) \in Nat /\ (t = <<>> <=> Len(t) = 0)
  OBVIOUS
<1>2. CASE t = <<>> \/ p = <<>>
  BY <1>1, <1>2 DEF H!Overlaps
<1>3. CASE t # <<>> /\ p # <<>>
  <2> DEFINE choice == CHOOSE h : Along(h, t, p, H!Failure(p), Len(t))
  <2>1. Along(choice, t, p, H!Failure(p), Len(t))
    <3>1. \E h : Along(h, t, p, H!Failure(p), Len(t))
      <4>1. PICK l \in Nat : l = Len(t)
        BY <1>1
      <4>2. \A f : \E h : Along(h, t, p, f, l)
        BY AlongExists
      <4>3. QED BY <4>1, <4>2
    <3>2. QED BY <3>1
  <2>2. H!Overlaps(t, p) <=> choice[Len(t)] > 0
    BY <1>3, Zenon DEF H!Overlaps, Along
  <2> HIDE DEF choice
  <2>3. Greatest(choice[Len(t)], t, Len(t), p, Len(p))
    BY <1>3, <2>1, AlongIsGreatest
  <2>4. choice[Len(t)] > 0 <=> \E k \in 1..Len(p) : Ends(t, Len(t), p, k)
    BY <1>1, <2>3 DEF Greatest
  <2>5. ASSUME NEW k \in 1..Len(p), Ends(t, Len(t), p, k)
        PROVE  \E n \in 1..Len(t) : H!IsPrefix(SubSeq(t, n, Len(t)), p)
    <3>1. k <= Len(t)
      BY <2>5 DEF Ends
    <3>2. PICK n \in 1..Len(t) : n = Len(t) - k + 1
      <4>1. Len(t) - k + 1 \in 1..Len(t)
        BY <1>1, <2>5, <3>1
      <4>2. QED BY <4>1
    <3>3. Len(t) - n + 1 = k
      BY <1>1, <3>2
    <3>4. H!IsPrefix(SubSeq(t, n, Len(t)), p)
            <=> Len(t) - n + 1 <= Len(p) /\ Ends(t, Len(t), p, Len(t) - n + 1)
      BY EndIsPrefix
    <3>5. Len(t) - n + 1 <= Len(p) /\ Ends(t, Len(t), p, Len(t) - n + 1)
      BY <1>1, <2>5, <3>3
    <3>6. QED BY <3>4, <3>5
  <2>6. ASSUME NEW n \in 1..Len(t), H!IsPrefix(SubSeq(t, n, Len(t)), p)
        PROVE  \E k \in 1..Len(p) : Ends(t, Len(t), p, k)
    <3>1. Len(t) - n + 1 <= Len(p) /\ Ends(t, Len(t), p, Len(t) - n + 1)
      BY <2>6, EndIsPrefix
    <3>2. Len(t) - n + 1 \in 1..Len(p)
      BY <1>1, <3>1
    <3>3. QED BY <3>1, <3>2
  <2>7. QED BY <1>3, <2>2, <2>4, <2>5, <2>6
<1>4. QED BY <1>2, <1>3

-----------------------------------------------------------------------------
(* What a create is materialized to.                                       *)

\* NothingGuessed, of any history, items and input.
HistoryGuess(before, said, got) ==
  LET resend == H!IsPrefix(before, said)
      all    == IF resend THEN said ELSE before \o said
      fits   == /\ ~H!Long(before) /\ ~H!Long(all)
                /\ \/ resend
                   \/ ~ \/ H!SharesStart(before, said)
                        \/ \E n \in 1..Len(before) :
                             H!IsPrefix(SubSeq(before, n, Len(before)), said)
  IN got = IF fits THEN all ELSE Nothing

\* Materialized guesses nothing.
LEMMA MaterializedIs ==
  ASSUME NEW before \in Seq(Items), NEW said \in Seq(Items)
  PROVE  HistoryGuess(before, said, H!Materialized(before, said))
<1> DEFINE resend == H!IsPrefix(before, said)
           share == H!SharesStart(before, said)
           meet == H!Overlaps(before, said)
           ends == \E n \in 1..Len(before) : H!IsPrefix(SubSeq(before, n, Len(before)), said)
           long1 == H!Long(before)
           long2 == H!Long(said)
           long3 == H!Long(before \o said)
<1>1. MaxItems \in Nat
  BY HistoryAssumption
<1>2. long2 => long3
  <2>1. Len(before) \in Nat /\ Len(said) \in Nat /\ Len(before \o said) = Len(before) + Len(said)
    BY ConcatProperties
  <2>2. QED BY <1>1, <2>1 DEF H!Long
<1>3. meet <=> said # <<>> /\ ends
  BY OverlapsIs
<1>4. ends => said # <<>>
  <2>1. SUFFICES ASSUME NEW n \in 1..Len(before),
                        H!IsPrefix(SubSeq(before, n, Len(before)), said)
                 PROVE  said # <<>>
    OBVIOUS
  <2>2. Len(before) - n + 1 <= Len(said)
    BY <2>1, EndIsPrefix
  <2>3. QED BY <2>2
<1>5. H!Materialized(before, said) =
        IF long1 \/ long2 THEN Nothing
        ELSE IF resend THEN said
        ELSE IF share \/ meet \/ long3 THEN Nothing ELSE before \o said
  BY Zenon DEF H!Materialized
<1>6. HistoryGuess(before, said, H!Materialized(before, said)) <=>
        H!Materialized(before, said) =
          IF /\ ~long1 /\ ~H!Long(IF resend THEN said ELSE before \o said)
             /\ resend \/ ~(share \/ ends)
          THEN IF resend THEN said ELSE before \o said
          ELSE Nothing
  BY Zenon DEF HistoryGuess
<1> HIDE DEF share, meet, ends
<1>7. CASE resend
  <2> HIDE DEF resend
  <2>1. (IF resend THEN said ELSE before \o said) = said
    BY <1>7
  <2>2. QED BY <1>5, <1>6, <1>7, <2>1
<1>8. CASE ~resend
  <2> HIDE DEF resend
  <2>1. (IF resend THEN said ELSE before \o said) = before \o said
    BY <1>8
  <2> HIDE DEF long1, long2, long3
  <2>2. QED BY <1>2, <1>3, <1>4, <1>5, <1>6, <1>8, <2>1 DEF long3
<1>9. QED BY <1>7, <1>8

LEMMA GuessIs ==
  H!NothingGuessed <=> HistoryGuess(history, asked, input)
BY Zenon DEF H!NothingGuessed, H!Ambiguous, HistoryGuess

LEMMA BoundedSeqIs ==
  ASSUME NEW s \in H!New
  PROVE  s \in Seq(Items) /\ Len(s) <= MaxNew
<1>1. PICK n \in 0..MaxNew : s \in [1..n -> Items]
  BY DEF H!New, H!BoundedSeq, H!SeqOf
<1>2. n \in Nat /\ n <= MaxNew
  BY HistoryAssumption
<1>3. s \in Seq(Items) /\ Len(s) = n
  BY <1>1, <1>2
<1>4. QED BY <1>2, <1>3

LEMMA MaterializedTyped ==
  ASSUME NEW before \in Seq(Items), NEW said \in Seq(Items)
  PROVE  H!Materialized(before, said) \in Seq(Items) \cup {Nothing}
BY ConcatProperties DEF H!Materialized

\* What is taken is short enough to be taken.
LEMMA TakenIsShort ==
  ASSUME H!TypeOK, H!NothingGuessed, input # Nothing
  PROVE  input \in Seq(Items) /\ Len(input) <= MaxItems
<1>1. HistoryGuess(history, asked, input)
  BY GuessIs
<1>2. ~H!Long(input)
  BY <1>1, Zenon DEF HistoryGuess
<1>3. input \in Seq(Items)
  BY DEF H!TypeOK
<1>4. QED BY <1>2, <1>3, HistoryAssumption DEF H!Long

LEMMA HistoryStart ==
  ASSUME H!Init
  PROVE  H!TypeOK /\ H!NothingGuessed
<1>1. history \in Seq(Items) /\ Len(history) <= MaxNew
  BY BoundedSeqIs DEF H!Init
<1>2. <<>> \in Seq(Items) /\ asked = <<>> /\ input = H!Materialized(history, asked)
  BY DEF H!Init
<1>3. Len(history) <= MaxItems + MaxNew
  BY <1>1, HistoryAssumption
<1>4. HistoryGuess(history, asked, input)
  BY <1>1, <1>2, MaterializedIs
<1>5. input \in Seq(Items) \cup {Nothing}
  BY <1>1, <1>2, MaterializedTyped
<1>6. QED BY <1>1, <1>2, <1>3, <1>4, <1>5, GuessIs DEF H!TypeOK

LEMMA HistoryStep ==
  ASSUME H!TypeOK, H!NothingGuessed, H!Next
  PROVE  H!TypeOK' /\ H!NothingGuessed'
<1>1. history \in Seq(Items) /\ Len(history) <= MaxItems + MaxNew
  BY DEF H!TypeOK
<1> SUFFICES /\ history' \in Seq(Items) /\ Len(history') <= MaxItems + MaxNew
             /\ asked' \in Seq(Items) /\ input' = H!Materialized(history', asked')
  <2>1. HistoryGuess(history', asked', input')
    BY MaterializedIs
  <2>2. H!NothingGuessed' <=> HistoryGuess(history', asked', input')
    BY Zenon DEF H!NothingGuessed, H!Ambiguous, H!SharesStart, H!Long, HistoryGuess
  <2>3. input' \in Seq(Items) \cup {Nothing}
    BY MaterializedTyped
  <2>4. QED BY <2>1, <2>2, <2>3 DEF H!TypeOK
<1>2. ASSUME NEW incoming \in H!Inputs, H!Create(incoming)
      PROVE  /\ history' \in Seq(Items) /\ Len(history') <= MaxItems + MaxNew
             /\ asked' \in Seq(Items) /\ input' = H!Materialized(history', asked')
  <2>1. incoming \in Seq(Items)
    <3>1. CASE incoming \in H!New
      BY <3>1, BoundedSeqIs
    <3>2. CASE \E items \in H!New : incoming = history \o items
      BY <1>1, <3>2, BoundedSeqIs, ConcatProperties
    <3>3. QED BY <3>1, <3>2 DEF H!Inputs
  <2>2. QED BY <1>1, <1>2, <2>1 DEF H!Create
<1>3. ASSUME NEW output \in H!New, H!Complete(output)
      PROVE  /\ history' \in Seq(Items) /\ Len(history') <= MaxItems + MaxNew
             /\ asked' \in Seq(Items) /\ input' = H!Materialized(history', asked')
  <2>1. input \in Seq(Items) /\ Len(input) <= MaxItems
    BY <1>3, TakenIsShort DEF H!Complete
  <2>2. output \in Seq(Items) /\ Len(output) <= MaxNew
    BY BoundedSeqIs
  <2>3. input \o output \in Seq(Items) /\ Len(input \o output) = Len(input) + Len(output)
    BY <2>1, <2>2, ConcatProperties
  <2>4. Len(input \o output) <= MaxItems + MaxNew
    BY <2>1, <2>2, <2>3, HistoryAssumption
  <2>5. QED BY <1>3, <2>3, <2>4 DEF H!Complete
<1>4. QED BY <1>2, <1>3 DEF H!Next

\* Only the steps of the history change it.
LEMMA HistoryAlone ==
  [ProxyNext]_proxy => UNCHANGED part /\ (part = "history" => [H!Next]_(H!vars))
BY DEF ProxyNext, proxy, historyVars, H!vars

(***************************************************************************)
(* For any items and bounds: no conversation is repeated or dropped by     *)
(* materialize_http_bridge_continuation, and its linear search finds       *)
(* exactly the ends of the history that the incoming items begin with.     *)
(***************************************************************************)
THEOREM NothingGuessedAlways == ProxySpec => []NothingGuessed
<1>1. ProxyInit => NothingGuessed
  BY HistoryStart DEF ProxyInit, NothingGuessed
<1>2. NothingGuessed /\ [ProxyNext]_proxy => NothingGuessed'
  <2>1. SUFFICES ASSUME NothingGuessed, [ProxyNext]_proxy, part' = "history"
                 PROVE  H!TypeOK' /\ H!NothingGuessed'
    BY DEF NothingGuessed
  <2>2. part = "history" /\ [H!Next]_(H!vars)
    BY <2>1, HistoryAlone
  <2>3. H!TypeOK /\ H!NothingGuessed
    BY <2>1, <2>2 DEF NothingGuessed
  <2>4. CASE H!Next
    BY <2>3, <2>4, HistoryStep
  <2>5. CASE UNCHANGED H!vars
    <3>1. history' = history /\ asked' = asked /\ input' = input
      BY <2>5 DEF H!vars
    <3>2. H!NothingGuessed' <=> H!NothingGuessed
      BY <3>1, Zenon DEF H!NothingGuessed, H!Ambiguous, H!SharesStart, H!Long
    <3>3. QED BY <2>3, <3>1, <3>2 DEF H!TypeOK
  <2>6. QED BY <2>2, <2>4, <2>5
<1>3. QED BY <1>1, <1>2, PTL DEF ProxySpec
=============================================================================
