---------------------------- MODULE PartsProofs ----------------------------
(***************************************************************************)
(* What holds of the session routes, the live calls, the context store,    *)
(* the reset credits and who spends them, the activation of quotas and a   *)
(* Claude Code session, for all sets and bounds.  The theorems are about   *)
(* all behaviours of MCParts, where a step of the whole is a step of one   *)
(* part or leaves that part's variables alone.                             *)
(***************************************************************************)
EXTENDS MCParts, Sequences, FiniteSetTheorems, TLAPS

-----------------------------------------------------------------------------
(* Session routes.                                                         *)

RouteRecord ==
  [revision : 0..MaxEdits, account : S!MaybeAccount, previous : S!MaybeAccount,
   assigned : S!MaybeAccount, overridden : BOOLEAN]

\* Where an answer is bound, if anywhere.
Keys == {<<>>} \cup {<<p>> : p \in S!Placement}

\* The revisions of some of the records.
Snapshot == UNION {[known -> 0..MaxEdits] : known \in SUBSET S!Record}

\* What a request is before it is placed, and from then on.
Asking ==
  [stage : {"read", "routed"}, lane : S!Lane, owner : S!MaybeAccount,
   revision : Snapshot, placement : Keys, assigned : S!MaybeAccount,
   previous : S!MaybeAccount]
Placed ==
  [stage : {"selected", "sent"}, account : Accounts, revision : Snapshot,
   lane : S!Lane, binds : Keys, retries : SUBSET S!Cause]

Stages == {"idle", "read", "routed", "selected", "sent"}

IsEdit(q) == q = S!Idle \/ q \in Asking \/ q \in Placed

\* The key is one of the snapshot's.
OfSnapshot(key, revision) ==
  \A c \in S!Record, n \in 0..MaxEdits :
    key = <<<<c, n>>>> => c \in DOMAIN revision /\ n = revision[c]

\* A snapshot is of the past, and counts where it is current.
Past(revision, recs) ==
  \A c \in DOMAIN revision : revision[c] <= recs[c].revision
Counts(revision, to, recs, since) ==
  \A c \in DOMAIN revision : revision[c] = recs[c].revision => to \in since[c]

\* What the request knows of the records.
Fit(q, recs, since) ==
  /\ q \in Asking => OfSnapshot(q.placement, q.revision) /\ Past(q.revision, recs)
  /\ q \in Placed => /\ OfSnapshot(q.binds, q.revision) /\ Past(q.revision, recs)
                     /\ Counts(q.revision, q.account, recs, since)

Placements == placements \in [S!Placement -> S!MaybeAccount]
Chosen == chosenSince \in [S!Record -> SUBSET Accounts]

RoutesType ==
  /\ records \in [S!Record -> RouteRecord]
  /\ Placements /\ Chosen
  /\ DOMAIN edits = Edits
  /\ \A r \in Edits : IsEdit(edits[r])

Shown == \A c \in S!Record : records[c].account \in chosenSince[c] \cup {NoAccount}

PlacedSince ==
  \A c \in S!Record, n \in 0..MaxEdits :
    /\ n > records[c].revision => placements[<<c, n>>] = NoAccount
    /\ n = records[c].revision =>
         placements[<<c, n>>] \in chosenSince[c] \cup {NoAccount}

RoutesInv ==
  /\ RoutesType
  /\ \A r \in Edits : Fit(edits[r], records, chosenSince)
  /\ Shown /\ PlacedSince

-----------------------------------------------------------------------------
\* The stage tells them apart.
LEMMA StageTells ==
  ASSUME NEW q, IsEdit(q)
  PROVE  /\ q.stage \in Stages
         /\ q.stage \in {"read", "routed"} <=> q \in Asking
         /\ q.stage \in {"selected", "sent"} <=> q \in Placed
         /\ q.stage = "idle" <=> q = S!Idle
BY DEF IsEdit, Asking, Placed, S!Idle, Stages

\* A snapshot has revisions of records.
LEMMA SnapshotIs ==
  ASSUME NEW revision \in Snapshot
  PROVE  /\ DOMAIN revision \subseteq S!Record
         /\ \A c \in DOMAIN revision : revision[c] \in 0..MaxEdits
BY DEF Snapshot

\* The most specific identity is one of those it is chosen from.
LEMMA MostSpecificIs ==
  ASSUME NEW ids \in S!Identities, NEW set,
         S!MostSpecific(ids, set) # <<>>
  PROVE  \E c \in S!Record : /\ S!MostSpecific(ids, set) = <<c>>
                             /\ c \in S!Range(ids) /\ c \in set
<1> DEFINE at == {i \in DOMAIN ids : ids[i] \in set}
           first == CHOOSE i \in at : \A j \in at : i <= j
<1>1. at # {} /\ S!MostSpecific(ids, set) = <<ids[first]>>
  BY DEF S!MostSpecific
<1>2. DOMAIN ids \subseteq {1, 2}
  BY DEF S!Identities
<1>3. \E i \in at : \A j \in at : i <= j
  <2>1. CASE 1 \in at
    BY <1>2, <2>1
  <2>2. CASE 1 \notin at
    BY <1>1, <1>2, <2>2
  <2> QED
    BY <2>1, <2>2
<1>4. first \in at
  BY <1>3
<1>5. \A i \in DOMAIN ids : ids[i] \in S!Record
  BY DEF S!Identities, S!Record
<1> HIDE DEF first
<1> QED
  BY <1>1, <1>4, <1>5 DEF S!Range

\* The choices only grow.
Grows == \A c \in S!Record : chosenSince[c] \subseteq chosenSince'[c]

(***************************************************************************)
(* A request that changes keeps the invariant if it is right afterwards,   *)
(* if the choices only grow and the placements are theirs.                 *)
(***************************************************************************)
LEMMA ChoiceStep ==
  ASSUME RoutesInv, NEW r \in Edits, NEW q,
         \A s \in Edits : edits'[s] = IF s = r THEN q ELSE edits[s],
         DOMAIN edits' = Edits, IsEdit(q), UNCHANGED records,
         Chosen', Grows, Placements', PlacedSince', Fit(q, records, chosenSince')
  PROVE  RoutesInv'
<1>1. RoutesType'
  BY DEF RoutesInv, RoutesType
<1>2. ASSUME NEW s \in Edits PROVE Fit(edits[s], records, chosenSince)'
  <2>1. ASSUME s # r PROVE Fit(edits[s], records, chosenSince')
    <3>1. Fit(edits[s], records, chosenSince) /\ IsEdit(edits[s])
      BY DEF RoutesInv, RoutesType
    <3>2. edits[s] \in Placed => DOMAIN edits[s].revision \subseteq S!Record
      BY SnapshotIs DEF Placed
    <3> QED
      BY <3>1, <3>2 DEF Fit, Counts, Grows
  <2> QED
    BY <2>1
<1>3. Shown'
  BY DEF RoutesInv, RoutesType, Shown, Grows
<1> QED
  BY <1>1, <1>2, <1>3 DEF RoutesInv

\* In particular one that changes alone.
LEMMA RequestStep ==
  ASSUME RoutesInv, NEW r \in Edits, NEW q,
         \A s \in Edits : edits'[s] = IF s = r THEN q ELSE edits[s],
         DOMAIN edits' = Edits, IsEdit(q),
         UNCHANGED <<records, placements, chosenSince>>,
         Fit(q, records, chosenSince)
  PROVE  RoutesInv'
<1>1. Chosen' /\ Grows /\ Placements' /\ PlacedSince'
  BY DEF RoutesInv, RoutesType, Chosen, Grows, Placements, PlacedSince
<1> QED
  BY <1>1, ChoiceStep

\* A choice counts where its snapshot is current.
LEMMA ChoiceCounts ==
  ASSUME RoutesInv, NEW q, NEW to \in Accounts, q.revision \in Snapshot,
         S!Choose(q, to)
  PROVE  Chosen' /\ Grows /\ Counts(q.revision, to, records, chosenSince')
<1>1. \A c \in S!Record :
        chosenSince'[c] = IF c \in S!Current(q) THEN chosenSince[c] \cup {to}
                          ELSE chosenSince[c]
  BY DEF S!Choose
<1>2. chosenSince' = [c \in S!Record |-> chosenSince'[c]]
  BY DEF S!Choose
<1>3. Chosen'
  BY <1>1, <1>2 DEF RoutesInv, RoutesType, Chosen
<1>4. DOMAIN q.revision \subseteq S!Record
  BY SnapshotIs
<1> QED
  BY <1>1, <1>3, <1>4 DEF Grows, Counts, S!Current

\* A key of a snapshot is bound to an account chosen since, or is an old one.
LEMMA PlaceKeeps ==
  ASSUME RoutesInv, UNCHANGED records, Grows,
         NEW key \in Keys, NEW to \in Accounts, NEW revision \in Snapshot,
         OfSnapshot(key, revision), Past(revision, records),
         Counts(revision, to, records, chosenSince'), S!Place(key, to)
  PROVE  Placements' /\ PlacedSince'
<1>1. \A p \in S!Placement :
        placements'[p] = IF key = <<p>> THEN to ELSE placements[p]
  BY DEF S!Place
<1>2. placements' = [p \in S!Placement |-> placements'[p]]
  BY DEF S!Place
<1>3. Placements'
  BY <1>1, <1>2 DEF RoutesInv, RoutesType, Placements, S!MaybeAccount
<1>4. PlacedSince'
  <2> SUFFICES ASSUME NEW c \in S!Record, NEW n \in 0..MaxEdits
               PROVE  /\ n > records[c].revision => placements'[<<c, n>>] = NoAccount
                      /\ n = records[c].revision =>
                           placements'[<<c, n>>] \in chosenSince'[c] \cup {NoAccount}
    BY DEF PlacedSince
  <2>1. <<c, n>> \in S!Placement
    BY DEF S!Placement
  <2>2. records[c].revision \in 0..MaxEdits
    BY DEF RoutesInv, RoutesType, RouteRecord
  <2>3. CASE key = <<<<c, n>>>>
    <3>1. c \in DOMAIN revision /\ n = revision[c]
      BY <2>3 DEF OfSnapshot
    <3>2. /\ n <= records[c].revision
          /\ n = records[c].revision => to \in chosenSince'[c]
      BY <3>1 DEF Past, Counts
    <3> QED
      BY <1>1, <2>1, <2>2, <2>3, <3>2
  <2>4. CASE key # <<<<c, n>>>>
    <3>1. placements'[<<c, n>>] = placements[<<c, n>>]
      BY <1>1, <2>1, <2>4
    <3> QED
      BY <3>1 DEF RoutesInv, PlacedSince, Grows
  <2> QED
    BY <2>3, <2>4
<1> QED
  BY <1>3, <1>4

\* A request that is admitted takes a snapshot of the records.
LEMMA AdmitKeeps ==
  ASSUME RoutesInv, NEW r \in Edits, NEW ids \in S!Identities, NEW lane \in S!Lane,
         NEW owner \in S!MaybeAccount, S!Admit(r, ids, lane, owner)
  PROVE  RoutesInv'
<1> DEFINE directive == S!MostSpecific(ids, {c \in S!Record : records[c].overridden})
           known ==
             S!MostSpecific(ids, {c \in S!Record : records[c].previous # NoAccount})
           key == IF directive = <<>> THEN <<>> ELSE <<S!PlacementOf(Head(directive))>>
           given == IF directive = <<>> THEN NoAccount
                    ELSE records[Head(directive)].assigned
           last == IF known = <<>> THEN NoAccount
                   ELSE records[Head(known)].previous
           revisions == [c \in S!Range(ids) |-> records[c].revision]
           q == [stage |-> "read", lane |-> lane, owner |-> owner,
                 revision |-> revisions, placement |-> key, assigned |-> given,
                 previous |-> last]
<1>1. records \in [S!Record -> RouteRecord]
  BY DEF RoutesInv, RoutesType
<1>2. directive = <<>> \/ \E c \in S!Record : directive = <<c>> /\ c \in S!Range(ids)
  BY MostSpecificIs
<1>3. known = <<>> \/ \E c \in S!Record : known = <<c>>
  BY MostSpecificIs
<1>4. /\ \A s \in Edits : edits'[s] = IF s = r THEN q ELSE edits[s]
      /\ DOMAIN edits' = Edits
      /\ UNCHANGED <<records, placements, chosenSince>>
  BY DEF S!Admit, RoutesInv, RoutesType
<1> HIDE DEF directive, known
<1>5. revisions \in Snapshot
  <2>1. S!Range(ids) \in SUBSET S!Record
    BY DEF S!Identities, S!Record, S!Range
  <2>2. revisions \in [S!Range(ids) -> 0..MaxEdits]
    BY <1>1, <2>1 DEF RouteRecord
  <2> QED
    BY <2>1, <2>2 DEF Snapshot
<1>6. key \in Keys
  <2>1. CASE directive = <<>>
    BY <2>1 DEF Keys
  <2>2. ASSUME NEW c \in S!Record, directive = <<c>> PROVE key \in Keys
    <3>1. Head(directive) = c /\ directive # <<>>
      BY <2>2
    <3>2. S!PlacementOf(c) \in S!Placement
      BY <1>1 DEF S!PlacementOf, S!Placement, RouteRecord
    <3> QED
      BY <3>1, <3>2 DEF Keys
  <2> QED
    BY <1>2, <2>1, <2>2
<1>7. OfSnapshot(key, revisions)
  <2>1. CASE directive = <<>>
    BY <2>1 DEF OfSnapshot
  <2>2. ASSUME NEW c \in S!Record, directive = <<c>>, c \in S!Range(ids)
        PROVE  OfSnapshot(key, revisions)
    <3>1. key = <<<<c, records[c].revision>>>>
      BY <2>2 DEF S!PlacementOf
    <3>2. SUFFICES ASSUME NEW d \in S!Record, NEW n \in 0..MaxEdits, key = <<<<d, n>>>>
                   PROVE  d \in DOMAIN revisions /\ n = revisions[d]
      BY DEF OfSnapshot
    <3>3. <<c, records[c].revision>> = <<d, n>>
      <4> DEFINE x == <<c, records[c].revision>>
                 y == <<d, n>>
      <4>1. <<x>> = <<y>>
        BY <3>1, <3>2
      <4> HIDE DEF x, y
      <4>2. x = y
        BY <4>1
      <4> QED
        BY <4>2 DEF x, y
    <3>4. c = d /\ records[c].revision = n
      BY <3>3
    <3> QED
      BY <2>2, <3>4
  <2> QED
    BY <1>2, <2>1, <2>2
<1>8. given \in S!MaybeAccount /\ last \in S!MaybeAccount
  BY <1>1, <1>2, <1>3 DEF RouteRecord, S!MaybeAccount
<1>9. Past(revisions, records)
  <2>1. \A c \in S!Range(ids) : records[c].revision \in Nat
    BY <1>1 DEF RouteRecord, S!Identities, S!Record, S!Range
  <2> QED
    BY <2>1 DEF Past
<1> HIDE DEF key, given, last, revisions
<1>10. q \in Asking
  BY <1>5, <1>6, <1>8 DEF Asking
<1>11. IsEdit(q) /\ q \notin Placed
  BY <1>10 DEF IsEdit, Placed
<1>12. q.placement = key /\ q.revision = revisions
  OBVIOUS
<1> HIDE DEF q
<1>13. Fit(q, records, chosenSince)
  BY <1>7, <1>9, <1>11, <1>12 DEF Fit
<1> QED
  BY <1>4, <1>11, <1>13, RequestStep

\* Nothing is known of a request that is not there.
LEMMA IdleFits ==
  ASSUME NEW recs, NEW since PROVE Fit(S!Idle, recs, since) /\ IsEdit(S!Idle)
BY DEF Fit, S!Idle, IsEdit, Asking, Placed

\* A request that leaves is idle again.
LEMMA LeaveKeeps ==
  ASSUME RoutesInv, NEW r \in Edits, S!Refuse(r) \/ S!Fail(r)
  PROVE  RoutesInv'
<1>1. /\ \A s \in Edits : edits'[s] = IF s = r THEN S!Idle ELSE edits[s]
      /\ DOMAIN edits' = Edits
  BY DEF S!Refuse, S!Fail, RoutesInv, RoutesType
<1>2. UNCHANGED <<records, placements, chosenSince>>
  BY DEF S!Refuse, S!Fail
<1> QED
  BY <1>1, <1>2, IdleFits, RequestStep

\* What is remembered of the previous account changes nothing else.
LEMMA RecallKeeps ==
  ASSUME RoutesInv, NEW r \in Edits, NEW alias \in S!MaybeAccount, S!Recall(r, alias)
  PROVE  RoutesInv'
<1> DEFINE old == edits[r]
           recalled == IF S!Overridden(old) /\ old.previous = NoAccount THEN alias
                       ELSE old.previous
           new == [old EXCEPT !.stage = "routed", !.previous = recalled]
<1>1. IsEdit(old) /\ old.stage = "read" /\ Fit(old, records, chosenSince)
  BY DEF RoutesInv, RoutesType, S!Recall
<1>2. old \in Asking
  BY <1>1, StageTells
<1>3. recalled \in S!MaybeAccount
  BY <1>2 DEF Asking
<1>4. edits' = [edits EXCEPT ![r] = new] /\ UNCHANGED <<placements, chosenSince>>
  BY DEF S!Recall
<1>5. \A c \in S!Record :
        \/ records'[c] = records[c]
        \/ records'[c] = [records[c] EXCEPT !.previous = recalled]
  BY DEF S!Recall
<1>6. records' \in [S!Record -> RouteRecord]
  <2>1. \A c \in S!Record : [records[c] EXCEPT !.previous = recalled] \in RouteRecord
    BY <1>3 DEF RoutesInv, RoutesType, RouteRecord
  <2>2. records' = [c \in S!Record |-> records'[c]]
    BY DEF S!Recall
  <2> QED
    BY <1>5, <2>1, <2>2 DEF RoutesInv, RoutesType
<1>7. \A c \in S!Record : /\ records'[c].revision = records[c].revision
                          /\ records'[c].account = records[c].account
  <2> HIDE DEF recalled
  <2> TAKE c \in S!Record
  <2>1. records[c] \in RouteRecord
    BY DEF RoutesInv, RoutesType
  <2> QED
    BY <1>5, <2>1 DEF RouteRecord
<1> HIDE DEF recalled
<1>8. /\ new \in Asking /\ new.revision = old.revision
      /\ new.placement = old.placement
  BY <1>2, <1>3 DEF Asking
<1>9. IsEdit(new) /\ new \notin Placed
  BY <1>8 DEF IsEdit, Asking, Placed
<1>10. ASSUME NEW q, IsEdit(q), Fit(q, records, chosenSince)
       PROVE  Fit(q, records', chosenSince')
  <2>1. q \in Asking \cup Placed => DOMAIN q.revision \subseteq S!Record
    BY SnapshotIs DEF Asking, Placed
  <2> QED
    BY <1>4, <1>7, <1>10, <2>1 DEF Fit, Past, Counts
<1> HIDE DEF new
<1>15. Fit(new, records, chosenSince)
  BY <1>1, <1>2, <1>8, <1>9 DEF Fit
<1>11. \A s \in Edits : edits'[s] = IF s = r THEN new ELSE edits[s]
  BY <1>4 DEF RoutesInv, RoutesType
<1>12. \A s \in Edits : Fit(edits[s], records', chosenSince')
  BY <1>10 DEF RoutesInv, RoutesType
<1>13. \A s \in Edits : Fit(edits[s], records, chosenSince)'
  BY <1>9, <1>10, <1>11, <1>12, <1>15
<1>14. RoutesType'
  BY <1>4, <1>6, <1>9, <1>11 DEF RoutesInv, RoutesType, Placements, Chosen
<1> QED
  BY <1>4, <1>7, <1>13, <1>14 DEF RoutesInv, Shown, PlacedSince

\* A request that is given an account keeps its snapshot, and counts there.
LEMMA SelectKeeps ==
  ASSUME RoutesInv, NEW r \in Edits, NEW to \in Accounts, S!Select(r, to)
  PROVE  RoutesInv'
<1> DEFINE old == edits[r]
           key == IF S!HardOwned(old) THEN <<>> ELSE old.placement
           bound == key # <<>> /\ placements[Head(key)] = to
           new == [stage |-> "selected", account |-> to, revision |-> old.revision,
                   lane |-> old.lane, binds |-> key,
                   retries |-> S!Retries(old, bound)]
<1>1. IsEdit(old) /\ old.stage = "routed" /\ Fit(old, records, chosenSince)
  BY DEF RoutesInv, RoutesType, S!Select
<1>2. old \in Asking
  BY <1>1, StageTells
<1>3. /\ \A s \in Edits : edits'[s] = IF s = r THEN new ELSE edits[s]
      /\ DOMAIN edits' = Edits
      /\ UNCHANGED records
      /\ S!Place(key, to) /\ S!Choose(old, to)
  BY DEF S!Select, RoutesInv, RoutesType
<1>4. key \in Keys /\ OfSnapshot(key, old.revision) /\ Past(old.revision, records)
  BY <1>1, <1>2 DEF Keys, Asking, Fit, OfSnapshot
<1>5. S!Retries(old, bound) \in SUBSET S!Cause
  BY DEF S!Retries
<1> HIDE DEF key, bound
<1>6. old.revision \in Snapshot /\ old.lane \in S!Lane
  BY <1>2 DEF Asking
<1>7. /\ new \in Placed /\ new.binds = key /\ new.account = to
      /\ new.revision = old.revision
  BY <1>4, <1>5, <1>6 DEF Placed
<1>8. IsEdit(new) /\ new \notin Asking
  BY <1>7 DEF IsEdit, Asking, Placed
<1> HIDE DEF new
<1>9. Chosen' /\ Grows /\ Counts(old.revision, to, records, chosenSince')
  BY <1>3, <1>6, ChoiceCounts
<1>10. Placements' /\ PlacedSince'
  BY <1>3, <1>4, <1>6, <1>9, PlaceKeeps
<1>11. Fit(new, records, chosenSince')
  BY <1>4, <1>7, <1>8, <1>9 DEF Fit
<1> QED
  BY <1>3, <1>8, <1>9, <1>10, <1>11, ChoiceStep

\* So does one that is given another for its second attempt.
LEMMA RetryKeeps ==
  ASSUME RoutesInv, NEW r \in Edits, NEW to \in Accounts, NEW cause \in S!Cause,
         S!Retry(r, to, cause)
  PROVE  RoutesInv'
<1> DEFINE old == edits[r]
           new == [old EXCEPT !.stage = "selected", !.account = to, !.retries = {}]
<1>1. IsEdit(old) /\ old.stage \in {"selected", "sent"}
      /\ Fit(old, records, chosenSince)
  BY DEF RoutesInv, RoutesType, S!Retry
<1>2. old \in Placed
  BY <1>1, StageTells
<1>3. /\ \A s \in Edits : edits'[s] = IF s = r THEN new ELSE edits[s]
      /\ DOMAIN edits' = Edits
      /\ UNCHANGED records
      /\ \E key \in {<<>>, old.binds} : S!Place(key, to)
      /\ S!Choose(old, to)
  BY DEF S!Retry, RoutesInv, RoutesType
<1>4. PICK key \in {<<>>, old.binds} : S!Place(key, to)
  BY <1>3
<1>5. /\ key \in Keys /\ OfSnapshot(key, old.revision)
      /\ OfSnapshot(old.binds, old.revision) /\ Past(old.revision, records)
      /\ old.revision \in Snapshot
  BY <1>1, <1>2 DEF Keys, Placed, Fit, OfSnapshot
<1>6. /\ new \in Placed /\ new.binds = old.binds /\ new.account = to
      /\ new.revision = old.revision
  BY <1>2 DEF Placed
<1>7. IsEdit(new) /\ new \notin Asking
  BY <1>6 DEF IsEdit, Asking, Placed
<1> HIDE DEF new
<1>8. Chosen' /\ Grows /\ Counts(old.revision, to, records, chosenSince')
  BY <1>3, <1>5, ChoiceCounts
<1>9. Placements' /\ PlacedSince'
  BY <1>3, <1>4, <1>5, <1>8, PlaceKeeps
<1>10. Fit(new, records, chosenSince')
  BY <1>5, <1>6, <1>7, <1>8 DEF Fit
<1> QED
  BY <1>3, <1>7, <1>8, <1>9, <1>10, ChoiceStep

\* A request is shown where its snapshot is current, and it counts there.
LEMMA DispatchKeeps ==
  ASSUME RoutesInv, NEW r \in Edits, S!Dispatch(r)
  PROVE  RoutesInv'
<1> DEFINE old == edits[r]
           new == [old EXCEPT !.stage = "sent"]
<1>1. IsEdit(old) /\ old.stage = "selected" /\ Fit(old, records, chosenSince)
  BY DEF RoutesInv, RoutesType, S!Dispatch
<1>2. old \in Placed
  BY <1>1, StageTells
<1>3. /\ \A s \in Edits : edits'[s] = IF s = r THEN new ELSE edits[s]
      /\ DOMAIN edits' = Edits
      /\ UNCHANGED <<placements, chosenSince>>
  BY DEF S!Dispatch, RoutesInv, RoutesType
<1>4. old.account \in Accounts
  BY <1>2 DEF Placed
<1>5. \A c \in S!Record :
        \/ /\ c \in S!Current(old)
           /\ \E last \in S!MaybeAccount :
                records'[c] = [records[c] EXCEPT !.account = old.account,
                                                 !.previous = last]
        \/ records'[c] = records[c]
  <2> TAKE c \in S!Record
  <2>1. CASE c \notin S!Current(old)
    BY <2>1 DEF S!Dispatch
  <2>2. CASE c \in S!Current(old)
    <3> DEFINE last == IF old.lane = "connection" THEN records[c].previous
                       ELSE old.account
    <3>1. records'[c] = [records[c] EXCEPT !.account = old.account, !.previous = last]
      BY <2>2 DEF S!Dispatch
    <3>2. last \in S!MaybeAccount
      BY <1>4 DEF RoutesInv, RoutesType, RouteRecord, S!MaybeAccount
    <3> QED
      BY <2>2, <3>1, <3>2
  <2> QED
    BY <2>1, <2>2
<1>6. \A c \in S!Record :
        /\ records'[c] \in RouteRecord
        /\ records'[c].revision = records[c].revision
        /\ \/ records'[c].account = records[c].account
           \/ c \in S!Current(old) /\ records'[c].account = old.account
  <2> TAKE c \in S!Record
  <2>1. records[c] \in RouteRecord
    BY DEF RoutesInv, RoutesType
  <2>2. ASSUME NEW last \in S!MaybeAccount
        PROVE  LET n == [records[c] EXCEPT !.account = old.account,
                                           !.previous = last]
               IN n \in RouteRecord /\ n.revision = records[c].revision
                  /\ n.account = old.account
    BY <1>4, <2>1, <2>2 DEF RouteRecord, S!MaybeAccount
  <2> QED
    BY <1>5, <2>1, <2>2
<1>7. records' \in [S!Record -> RouteRecord]
  <2>1. records' = [c \in S!Record |-> records'[c]]
    BY DEF S!Dispatch
  <2> QED
    BY <1>6, <2>1
<1>8. /\ new \in Placed /\ new.binds = old.binds /\ new.account = old.account
      /\ new.revision = old.revision
  BY <1>2 DEF Placed
<1>9. IsEdit(new) /\ new \notin Asking
  BY <1>8 DEF IsEdit, Asking, Placed
<1> HIDE DEF new
<1>10. ASSUME NEW q, IsEdit(q), Fit(q, records, chosenSince)
       PROVE  Fit(q, records', chosenSince')
  <2>1. q \in Asking \cup Placed => DOMAIN q.revision \subseteq S!Record
    BY SnapshotIs DEF Asking, Placed
  <2> QED
    BY <1>3, <1>6, <1>10, <2>1 DEF Fit, Past, Counts
<1>11. Fit(new, records, chosenSince)
  BY <1>1, <1>2, <1>8, <1>9 DEF Fit
<1>12. \A s \in Edits : Fit(edits[s], records', chosenSince')
  BY <1>10 DEF RoutesInv, RoutesType
<1>13. \A s \in Edits : Fit(edits[s], records, chosenSince)'
  BY <1>3, <1>9, <1>10, <1>11, <1>12
<1>14. RoutesType'
  BY <1>3, <1>7, <1>9 DEF RoutesInv, RoutesType, Placements, Chosen
<1>15. Shown'
  <2>1. \A c \in S!Current(old) : old.account \in chosenSince[c]
    BY <1>1, <1>2 DEF Fit, Counts, S!Current
  <2> QED
    BY <1>3, <1>6, <2>1 DEF RoutesInv, Shown
<1>16. PlacedSince'
  BY <1>3, <1>6 DEF RoutesInv, PlacedSince
<1> QED
  BY <1>13, <1>14, <1>15, <1>16 DEF RoutesInv

\* An answer binds the key of its request's snapshot, or none.
LEMMA AnswerKeeps ==
  ASSUME RoutesInv, NEW r \in Edits, S!Answer(r)
  PROVE  RoutesInv'
<1> DEFINE old == edits[r]
<1>1. IsEdit(old) /\ old.stage = "sent" /\ Fit(old, records, chosenSince)
  BY DEF RoutesInv, RoutesType, S!Answer
<1>2. old \in Placed
  BY <1>1, StageTells
<1>3. /\ \A s \in Edits : edits'[s] = IF s = r THEN S!Idle ELSE edits[s]
      /\ DOMAIN edits' = Edits
      /\ UNCHANGED <<records, chosenSince>>
      /\ \E key \in {<<>>, old.binds} : S!Place(key, old.account)
  BY DEF S!Answer, RoutesInv, RoutesType
<1>4. PICK key \in {<<>>, old.binds} : S!Place(key, old.account)
  BY <1>3
<1>5. /\ key \in Keys /\ OfSnapshot(key, old.revision) /\ Past(old.revision, records)
      /\ Counts(old.revision, old.account, records, chosenSince)
      /\ old.revision \in Snapshot /\ old.account \in Accounts
  BY <1>1, <1>2 DEF Keys, Placed, Fit, OfSnapshot
<1>6. Chosen' /\ Grows
  BY <1>3 DEF RoutesInv, RoutesType, Chosen, Grows
<1>7. Counts(old.revision, old.account, records, chosenSince')
  BY <1>3, <1>5
<1>8. Placements' /\ PlacedSince'
  BY <1>3, <1>4, <1>5, <1>6, <1>7, PlaceKeeps
<1>9. Fit(S!Idle, records, chosenSince') /\ IsEdit(S!Idle)
  BY IdleFits
<1> QED
  BY <1>3, <1>6, <1>8, <1>9, ChoiceStep

\* An edit makes a revision that no request knows and no placement has.
LEMMA EditKeeps ==
  ASSUME RoutesInv, NEW c \in S!Record, NEW to \in S!MaybeAccount, S!Edit(c, to)
  PROVE  RoutesInv'
<1> DEFINE old == records[c]
           new == [old EXCEPT !.revision = old.revision + 1, !.account = NoAccount,
                              !.assigned = to, !.overridden = TRUE]
<1>1. old \in RouteRecord /\ records["thread"] \in RouteRecord
      /\ records["session"] \in RouteRecord
  BY DEF RoutesInv, RoutesType, S!Record
<1>2. old.revision + 1 \in 0..MaxEdits
  <2>1. /\ records["thread"].revision \in Nat /\ records["session"].revision \in Nat
        /\ records["thread"].revision + records["session"].revision < MaxEdits
    BY <1>1 DEF RouteRecord, S!Edit
  <2>2. c = "thread" \/ c = "session"
    BY DEF S!Record
  <2> QED
    BY <2>1, <2>2, RoutesAssumption DEF RoutesAssumption
<1>3. /\ records' = [records EXCEPT ![c] = new]
      /\ chosenSince' = [chosenSince EXCEPT ![c] = {}]
      /\ UNCHANGED <<placements, edits>>
  BY DEF S!Edit
<1>4. /\ new \in RouteRecord /\ new.revision = old.revision + 1
      /\ new.account = NoAccount
  BY <1>1, <1>2 DEF RouteRecord, S!MaybeAccount
<1> HIDE DEF new
<1>5. \A d \in S!Record :
        /\ records'[d] = IF d = c THEN new ELSE records[d]
        /\ chosenSince'[d] = IF d = c THEN {} ELSE chosenSince[d]
  BY <1>3 DEF RoutesInv, RoutesType, Chosen
<1>6. \A d \in S!Record : records[d].revision \in Nat
  BY DEF RoutesInv, RoutesType, RouteRecord
<1>7. RoutesType'
  BY <1>3, <1>4, <1>5 DEF RoutesInv, RoutesType, Placements, Chosen
<1>8. ASSUME NEW s \in Edits PROVE Fit(edits[s], records, chosenSince)'
  <2> DEFINE q == edits[s]
  <2>1. Fit(q, records, chosenSince) /\ IsEdit(q)
    BY DEF RoutesInv, RoutesType
  <2>2. q \in Asking \cup Placed =>
          \A d \in DOMAIN q.revision : d \in S!Record /\ q.revision[d] \in Nat
    BY SnapshotIs DEF Asking, Placed
  <2> HIDE DEF q
  <2>3. \A d \in S!Record : records[d].revision <= records'[d].revision
    BY <1>4, <1>5, <1>6
  <2>4. q \in Asking \cup Placed => Past(q.revision, records')
    BY <1>6, <2>1, <2>2, <2>3, <1>4, <1>5 DEF Fit, Past
  <2>5. q \in Placed => Counts(q.revision, q.account, records', chosenSince')
    BY <1>4, <1>5, <1>6, <2>1, <2>2 DEF Fit, Past, Counts
  <2>6. Fit(q, records', chosenSince')
    BY <2>1, <2>4, <2>5 DEF Fit
  <2> QED
    BY <1>3, <2>6 DEF q
<1>9. Shown'
  BY <1>4, <1>5 DEF RoutesInv, Shown
<1>10. PlacedSince'
  <2> SUFFICES ASSUME NEW d \in S!Record, NEW n \in 0..MaxEdits
               PROVE  /\ n > records'[d].revision => placements[<<d, n>>] = NoAccount
                      /\ n = records'[d].revision =>
                           placements[<<d, n>>] \in chosenSince'[d] \cup {NoAccount}
    BY <1>3 DEF PlacedSince
  <2>1. CASE d = c
    BY <1>4, <1>5, <1>6, <2>1 DEF RoutesInv, PlacedSince
  <2>2. CASE d # c
    BY <1>5, <2>2 DEF RoutesInv, PlacedSince
  <2> QED
    BY <2>1, <2>2
<1> QED
  BY <1>7, <1>8, <1>9, <1>10 DEF RoutesInv

\* The invariant of the routes holds after every step of theirs.
LEMMA RoutesStep == RoutesInv /\ [S!Next]_routeVars => RoutesInv'
<1> SUFFICES ASSUME RoutesInv, [S!Next]_routeVars PROVE RoutesInv'
  OBVIOUS
<1>1. CASE UNCHANGED routeVars
  BY <1>1 DEF routeVars, RoutesInv, RoutesType, Placements, Chosen, Shown,
              PlacedSince
<1>2. CASE S!Next
  BY <1>2, AdmitKeeps, RecallKeeps, LeaveKeeps, SelectKeeps, RetryKeeps,
     DispatchKeeps, AnswerKeeps, EditKeeps DEF S!Next
<1> QED
  BY <1>1, <1>2

\* The invariant of the routes holds at the start.
LEMMA RoutesStart == S!Init => RoutesInv
<1> SUFFICES ASSUME S!Init PROVE RoutesInv
  OBVIOUS
<1>1. 0 \in 0..MaxEdits
  BY RoutesAssumption DEF RoutesAssumption
<1>2. RoutesType /\ \A r \in Edits : edits[r] = S!Idle
  <2>1. S!NewRecord \in RouteRecord /\ S!NewRecord.revision = 0
    BY <1>1 DEF S!NewRecord, RouteRecord, S!MaybeAccount
  <2> QED
    BY <2>1, IdleFits DEF S!Init, RoutesType, S!MaybeAccount, Placements, Chosen
<1>3. Shown /\ PlacedSince
  BY DEF S!Init, Shown, PlacedSince, S!NewRecord, S!Placement
<1> QED
  BY <1>2, <1>3, IdleFits DEF RoutesInv

\* A step of the whole is one of the routes, or leaves their variables alone.
LEMMA RoutesAlone == [PartsNext]_parts => [S!Next]_routeVars
BY DEF PartsNext, parts, routeVars

(***************************************************************************)
(* The last edit of a session wins: what is shown of it, and where its     *)
(* next request is placed, comes only from requests that were admitted     *)
(* after the edit, for any number of requests, edits and accounts          *)
(* (routing/affinity/sessions.rs and its callers in proxy/mod.rs).  The    *)
(* invariant keeps, for every request in flight, the revisions of its      *)
(* snapshot at most those of the records, and its key within the snapshot. *)
(***************************************************************************)
THEOREM LastEditWinsAlways == PartsSpec => []LastEditWins
<1>1. PartsInit => RoutesInv
  BY RoutesStart DEF PartsInit
<1>2. RoutesInv /\ [PartsNext]_parts => RoutesInv'
  BY RoutesStep, RoutesAlone
<1>3. RoutesInv => LastEditWins
  <2> SUFFICES ASSUME RoutesInv PROVE S!TypeOK /\ S!LastEditWins
    BY DEF LastEditWins
  <2>1. S!TypeOK
    BY StageTells DEF RoutesInv, RoutesType, RouteRecord, Placements, Chosen,
                      S!TypeOK, Stages
  <2>2. S!LastEditWins
    BY DEF RoutesInv, RoutesType, RouteRecord, Shown, PlacedSince, S!LastEditWins,
           S!PlacementOf
  <2> QED
    BY <2>1, <2>2
<1> QED
  BY <1>1, <1>2, <1>3, PTL DEF PartsSpec

-----------------------------------------------------------------------------
(* Live calls.                                                             *)

\* A table, or a file of one, has answered calls with their last answer.
AsAnswered(f) ==
  \A c \in DOMAIN f : /\ c \in DOMAIN live
                      /\ f[c].account = live[c].account
                      /\ f[c].second = live[c].second

LiveInv ==
  /\ L!TypeOK
  /\ Cardinality(DOMAIN snapshot) <= MaxEntries
  /\ DOMAIN inner \subseteq DOMAIN snapshot
  /\ AsAnswered(inner) /\ AsAnswered(snapshot)
  /\ \A c \in DOMAIN live : live[c].second <= seconds
  /\ L!AnsweredCallsKeepTheirAccount

\* The calls count as the standard module does.
LEMMA LiveCardinality == \A set : L!Cardinality(set) = Cardinality(set)
BY DEF L!Cardinality, Cardinality, L!IsFiniteSet, IsFiniteSet

\* Sets of calls have a size.
LEMMA CallSets ==
  ASSUME NEW whole \in SUBSET Calls
  PROVE  /\ IsFiniteSet(whole)
         /\ Cardinality(whole) \in Nat
         /\ \A some \in SUBSET whole : Cardinality(some) <= Cardinality(whole)
         /\ \A x : /\ Cardinality(whole \cup {x}) <= Cardinality(whole) + 1
                   /\ Cardinality(whole \ {x}) >= Cardinality(whole) - 1
                   /\ x \in whole => Cardinality(whole \ {x}) = Cardinality(whole) - 1
<1>1. IsFiniteSet(whole)
  BY FS_Subset, LiveAssumption DEF LiveAssumption
<1>2. Cardinality(whole) \in Nat
  BY <1>1, FS_CardinalityType
<1>3. \A some \in SUBSET whole : Cardinality(some) <= Cardinality(whole)
  BY <1>1, FS_Subset
<1>4. ASSUME NEW x
      PROVE  /\ Cardinality(whole \cup {x}) <= Cardinality(whole) + 1
             /\ Cardinality(whole \ {x}) >= Cardinality(whole) - 1
             /\ x \in whole => Cardinality(whole \ {x}) = Cardinality(whole) - 1
  <2>1. x \in whole => whole \cup {x} = whole
    OBVIOUS
  <2>2. x \notin whole => whole \ {x} = whole
    OBVIOUS
  <2>3. Cardinality(whole \cup {x}) <= Cardinality(whole) + 1
    BY <1>1, <1>2, <2>1, FS_AddElement
  <2>4. x \in whole => Cardinality(whole \ {x}) = Cardinality(whole) - 1
    BY <1>1, FS_RemoveElement
  <2>5. Cardinality(whole \ {x}) >= Cardinality(whole) - 1
    BY <1>2, <2>2, <2>4
  <2> QED
    BY <2>3, <2>4, <2>5
<1> QED
  BY <1>1, <1>2, <1>3, <1>4

\* What eviction leaves: at most one binding goes, and only the oldest of too many.
LEMMA EvictedTable ==
  ASSUME NEW f, NEW table \in L!Evicted(f), DOMAIN f \subseteq Calls,
         Cardinality(DOMAIN f) <= MaxEntries + 1
  PROVE  /\ DOMAIN table \subseteq DOMAIN f
         /\ \A c \in DOMAIN table : table[c] = f[c]
         /\ Cardinality(DOMAIN table) <= MaxEntries
         /\ \A x \in DOMAIN f \ DOMAIN table :
              /\ DOMAIN table = DOMAIN f \ {x}
              /\ Cardinality(DOMAIN f) > MaxEntries
              /\ \A e \in DOMAIN f : L!Older(f[x], f[e])
<1>1. MaxEntries \in Nat /\ Cardinality(DOMAIN f) \in Nat
  BY CallSets, LiveAssumption DEF LiveAssumption
<1>2. CASE Cardinality(DOMAIN f) <= MaxEntries
  <2>1. table = f
    BY <1>2, LiveCardinality DEF L!Evicted
  <2> QED
    BY <1>2, <2>1
<1>3. CASE ~(Cardinality(DOMAIN f) <= MaxEntries)
  <2>1. PICK x \in DOMAIN f : /\ \A e \in DOMAIN f : L!Older(f[x], f[e])
                              /\ table = L!Keep(f, DOMAIN f \ {x})
    BY <1>3, LiveCardinality DEF L!Evicted
  <2>2. DOMAIN table = DOMAIN f \ {x} /\ \A c \in DOMAIN table : table[c] = f[c]
    BY <2>1 DEF L!Keep
  <2>3. Cardinality(DOMAIN f \ {x}) = Cardinality(DOMAIN f) - 1
    BY CallSets
  <2>4. \A y \in DOMAIN f \ DOMAIN table : y = x
    BY <2>2
  <2>5. Cardinality(DOMAIN table) <= MaxEntries
    BY <1>1, <2>2, <2>3
  <2>6. Cardinality(DOMAIN f) > MaxEntries
    BY <1>1, <1>3
  <2> QED
    BY <2>1, <2>2, <2>4, <2>5, <2>6
<1> QED
  BY <1>2, <1>3

\* What has not expired is a part of the table.
LEMMA UnexpiredTable ==
  ASSUME L!TypeOK
  PROVE  /\ DOMAIN L!Unexpired \subseteq DOMAIN inner
         /\ \A c \in DOMAIN L!Unexpired : L!Unexpired[c] = inner[c]
         /\ \A c \in DOMAIN inner : c \notin DOMAIN L!Unexpired => ~L!Fresh(inner[c])
BY DEF L!Unexpired, L!Keep

\* A table that only forgets what has expired, beside the same file.
LEMMA Forgetting ==
  ASSUME LiveInv, inner' = L!Unexpired, UNCHANGED <<snapshot, seconds, live>>
  PROVE  LiveInv'
<1>1. /\ DOMAIN inner' \subseteq DOMAIN inner
      /\ \A c \in DOMAIN inner' : inner'[c] = inner[c]
      /\ \A c \in DOMAIN inner : c \notin DOMAIN inner' => ~L!Fresh(inner[c])
  BY UnexpiredTable DEF LiveInv
<1>2. Cardinality(DOMAIN inner') <= MaxEntries
  <2>1. /\ DOMAIN inner \subseteq Calls /\ Cardinality(DOMAIN inner) <= MaxEntries
    BY LiveCardinality DEF LiveInv, L!TypeOK, L!IsTable
  <2>2. /\ Cardinality(DOMAIN inner) \in Nat /\ Cardinality(DOMAIN inner') \in Nat
        /\ Cardinality(DOMAIN inner') <= Cardinality(DOMAIN inner)
    BY <1>1, <2>1, CallSets
  <2> QED
    BY <2>1, <2>2, LiveAssumption DEF LiveAssumption
<1>3. L!TypeOK'
  BY <1>1, <1>2, LiveCardinality DEF LiveInv, L!TypeOK, L!IsTable
<1>4. AsAnswered(inner)' /\ AsAnswered(snapshot)' /\ DOMAIN inner' \subseteq DOMAIN snapshot'
  BY <1>1 DEF LiveInv, AsAnswered
<1>5. L!AnsweredCallsKeepTheirAccount'
  <2> SUFFICES ASSUME NEW c \in DOMAIN live, L!Fresh(live[c])
               PROVE  \/ c \in DOMAIN inner' /\ inner'[c].account = live[c].account
                      \/ L!Cardinality(L!Since(c)) >= MaxEntries - 1
    BY DEF L!AnsweredCallsKeepTheirAccount, L!Bound, L!Fresh, L!Since
  <2>1. CASE L!Cardinality(L!Since(c)) >= MaxEntries - 1
    BY <2>1
  <2>2. CASE L!Bound(c)
    <3>1. L!Fresh(inner[c])
      BY <2>2 DEF LiveInv, AsAnswered, L!Fresh, L!Bound
    <3> QED
      BY <1>1, <2>2, <3>1 DEF L!Bound
  <2> QED
    BY <2>1, <2>2 DEF LiveInv, L!AnsweredCallsKeepTheirAccount
<1> QED
  BY <1>3, <1>4, <1>5 DEF LiveInv

\* The file's calls are bound again, which only adds to the table.
LEMMA RestartKeepsLive ==
  ASSUME LiveInv, L!Restart
  PROVE  LiveInv'
<1> DEFINE kept == {d \in DOMAIN snapshot : L!Fresh(snapshot[d])}
<1>1. /\ DOMAIN inner' = kept
      /\ \A c \in kept : inner'[c] = [account |-> snapshot[c].account,
                                      second |-> snapshot[c].second, rank |-> 0]
      /\ UNCHANGED <<snapshot, seconds, live>>
  BY DEF L!Restart
<1>2. kept \subseteq DOMAIN snapshot
  OBVIOUS
<1>3. L!TypeOK'
  <2>1. /\ DOMAIN snapshot \subseteq Calls /\ Cardinality(DOMAIN snapshot) <= MaxEntries
        /\ \A c \in DOMAIN snapshot : snapshot[c] \in L!Persisted
    BY DEF LiveInv, L!TypeOK, L!IsTable
  <2>2. /\ Cardinality(DOMAIN snapshot) \in Nat /\ Cardinality(kept) \in Nat
        /\ Cardinality(kept) <= Cardinality(DOMAIN snapshot)
    BY <1>2, <2>1, CallSets
  <2>3. Cardinality(kept) <= MaxEntries
    BY <2>1, <2>2, LiveAssumption DEF LiveAssumption
  <2>4. 0 \in 0..MaxBinds
    BY LiveAssumption DEF LiveAssumption
  <2>5. \A c \in kept : inner'[c] \in L!Binding
    BY <1>1, <2>1, <2>4 DEF L!Binding, L!Persisted
  <2> HIDE DEF kept
  <2> QED
    BY <1>1, <1>2, <2>1, <2>3, <2>5, LiveCardinality DEF LiveInv, L!TypeOK, L!IsTable
<1>4. AsAnswered(inner)' /\ AsAnswered(snapshot)'
  BY <1>1, <1>2 DEF LiveInv, AsAnswered
<1>5. L!AnsweredCallsKeepTheirAccount'
  <2> SUFFICES ASSUME NEW c \in DOMAIN live, L!Fresh(live[c])
               PROVE  \/ c \in DOMAIN inner' /\ inner'[c].account = live[c].account
                      \/ L!Cardinality(L!Since(c)) >= MaxEntries - 1
    BY <1>1 DEF L!AnsweredCallsKeepTheirAccount, L!Bound, L!Fresh, L!Since
  <2>1. CASE L!Cardinality(L!Since(c)) >= MaxEntries - 1
    BY <2>1
  <2>2. CASE L!Bound(c)
    <3>1. c \in DOMAIN snapshot /\ snapshot[c].second = live[c].second
          /\ snapshot[c].account = live[c].account
      BY <2>2 DEF LiveInv, AsAnswered, L!Bound
    <3>2. c \in kept
      BY <3>1 DEF L!Fresh
    <3> HIDE DEF kept
    <3> QED
      BY <1>1, <3>1, <3>2
  <2> QED
    BY <2>1, <2>2 DEF LiveInv, L!AnsweredCallsKeepTheirAccount
<1> HIDE DEF kept
<1> QED
  BY <1>1, <1>2, <1>3, <1>4, <1>5 DEF LiveInv

\* Time only lets entries expire.
LEMMA TickKeepsLive ==
  ASSUME LiveInv, L!Tick
  PROVE  LiveInv'
<1>1. seconds \in Nat /\ seconds' = seconds + 1 /\ seconds' \in 0..MaxSeconds
      /\ UNCHANGED <<inner, snapshot, live>>
  BY LiveAssumption DEF LiveInv, L!TypeOK, L!Tick, LiveAssumption
<1>2. L!TypeOK' /\ AsAnswered(inner)' /\ AsAnswered(snapshot)'
  BY <1>1 DEF LiveInv, L!TypeOK, AsAnswered
<1>3. \A c \in DOMAIN live : L!Fresh(live[c])' => L!Fresh(live[c])
  <2> TAKE c \in DOMAIN live
  <2>1. live[c].second \in Nat /\ TTL \in Nat
    BY LiveAssumption DEF LiveInv, L!TypeOK, L!IsTable, L!Persisted, LiveAssumption
  <2> QED
    BY <1>1, <2>1 DEF L!Fresh
<1>4. L!AnsweredCallsKeepTheirAccount'
  BY <1>1, <1>3 DEF LiveInv, L!AnsweredCallsKeepTheirAccount, L!Bound, L!Since
<1>5. \A c \in DOMAIN live : live[c].second <= seconds'
  <2> TAKE c \in DOMAIN live
  <2>1. live[c].second \in Nat /\ live[c].second <= seconds
    BY DEF LiveInv, L!TypeOK, L!IsTable, L!Persisted
  <2> QED
    BY <1>1, <2>1
<1> QED
  BY <1>1, <1>2, <1>4, <1>5 DEF LiveInv

\* A call that was bound and is new to the table, and what it leaves behind.
LEMMA NewBinding ==
  ASSUME LiveInv, NEW c \in Calls, NEW a \in Accounts, NEW rank \in L!NextRank,
         c \notin DOMAIN L!Unexpired,
         NEW table \in L!Evicted(L!Set(L!Unexpired, c,
                         [account |-> a, second |-> seconds, rank |-> rank]))
  PROVE  /\ DOMAIN table \subseteq DOMAIN L!Unexpired \cup {c}
         /\ \A d \in DOMAIN table : table[d] \in L!Binding
         /\ Cardinality(DOMAIN table) <= MaxEntries
         /\ c \in DOMAIN table => /\ table[c].account = a
                                  /\ table[c].second = seconds
         /\ \A d \in DOMAIN table : d # c => table[d] = inner[d]
         /\ \A x \in DOMAIN inner \ DOMAIN table : x # c =>
              \/ ~L!Fresh(inner[x])
              \/ /\ Cardinality(DOMAIN table) >= MaxEntries
                 /\ \A e \in DOMAIN table : table[e].second >= inner[x].second
         /\ c \notin DOMAIN table =>
              /\ Cardinality(DOMAIN table) >= MaxEntries
              /\ \A e \in DOMAIN table : table[e].second >= seconds
<1> DEFINE new == [account |-> a, second |-> seconds, rank |-> rank]
           f == L!Set(L!Unexpired, c, new)
<1>1. /\ DOMAIN f = DOMAIN L!Unexpired \cup {c}
      /\ f[c] = new
      /\ \A d \in DOMAIN L!Unexpired : d # c => f[d] = L!Unexpired[d]
  BY DEF L!Set
<1>2. /\ DOMAIN L!Unexpired \subseteq DOMAIN inner
      /\ \A d \in DOMAIN L!Unexpired : L!Unexpired[d] = inner[d]
      /\ \A d \in DOMAIN inner : d \notin DOMAIN L!Unexpired => ~L!Fresh(inner[d])
  BY UnexpiredTable DEF LiveInv
<1>3. /\ DOMAIN inner \subseteq Calls /\ Cardinality(DOMAIN inner) <= MaxEntries
      /\ \A d \in DOMAIN inner : inner[d] \in L!Binding
      /\ seconds \in 0..MaxSeconds /\ MaxEntries \in Nat
  BY LiveCardinality, LiveAssumption DEF LiveInv, L!TypeOK, L!IsTable, LiveAssumption
<1>4. new \in L!Binding
  BY <1>3, LiveAssumption DEF L!Binding, L!NextRank, LiveAssumption
<1>5. Cardinality(DOMAIN f) <= MaxEntries + 1
  <2> DEFINE old == DOMAIN L!Unexpired
  <2>1. /\ Cardinality(old) \in Nat /\ Cardinality(DOMAIN inner) \in Nat
        /\ Cardinality(old) <= Cardinality(DOMAIN inner)
        /\ Cardinality(old \cup {c}) <= Cardinality(old) + 1
        /\ Cardinality(old \cup {c}) \in Nat
    BY <1>2, <1>3, CallSets
  <2> QED
    BY <1>1, <1>3, <2>1
<1>6. DOMAIN f \subseteq Calls
  BY <1>1, <1>2, <1>3
<1> HIDE DEF f, new
<1>7. table \in L!Evicted(f)
  BY DEF f, new
<1>8. /\ DOMAIN table \subseteq DOMAIN f
      /\ \A d \in DOMAIN table : table[d] = f[d]
      /\ Cardinality(DOMAIN table) <= MaxEntries
      /\ \A x \in DOMAIN f \ DOMAIN table :
           /\ DOMAIN table = DOMAIN f \ {x}
           /\ Cardinality(DOMAIN f) > MaxEntries
           /\ \A e \in DOMAIN f : L!Older(f[x], f[e])
  BY <1>5, <1>6, <1>7, EvictedTable
<1>9. \A d \in DOMAIN f : f[d] \in L!Binding
  BY <1>1, <1>2, <1>3, <1>4
<1>10. ASSUME NEW x \in DOMAIN f \ DOMAIN table
       PROVE  /\ Cardinality(DOMAIN table) >= MaxEntries
              /\ \A e \in DOMAIN table : table[e].second >= f[x].second
  <2>2. Cardinality(DOMAIN table) = Cardinality(DOMAIN f) - 1
    BY <1>6, <1>8, CallSets
  <2>3. Cardinality(DOMAIN f) \in Nat /\ Cardinality(DOMAIN f) > MaxEntries
    BY <1>6, <1>8, CallSets
  <2>4. \A e \in DOMAIN table : table[e].second >= f[x].second
    <3> TAKE e \in DOMAIN table
    <3>1. L!Older(f[x], f[e]) /\ f[e] \in L!Binding /\ f[x] \in L!Binding
          /\ table[e] = f[e]
      BY <1>8, <1>9
    <3>2. f[e].second \in Nat /\ f[x].second \in Nat
      BY <3>1 DEF L!Binding
    <3> QED
      BY <3>1, <3>2 DEF L!Older
  <2> QED
    BY <1>3, <2>2, <2>3, <2>4
<1>11. c \in DOMAIN table => table[c].account = a /\ table[c].second = seconds
  BY <1>1, <1>8 DEF new
<1>12. \A d \in DOMAIN table : d # c => table[d] = inner[d]
  BY <1>1, <1>2, <1>8
<1>13. ASSUME NEW x \in DOMAIN inner \ DOMAIN table, x # c, L!Fresh(inner[x])
       PROVE  /\ Cardinality(DOMAIN table) >= MaxEntries
              /\ \A e \in DOMAIN table : table[e].second >= inner[x].second
  <2>1. x \in DOMAIN f \ DOMAIN table /\ f[x] = inner[x]
    BY <1>1, <1>2, <1>13
  <2> QED
    BY <1>10, <2>1
<1>14. c \in DOMAIN f /\ f[c].second = seconds
  BY <1>1 DEF new
<1> QED
  BY <1>1, <1>8, <1>9, <1>10, <1>11, <1>12, <1>13, <1>14

\* Sizes of what is compared with the table's.
LEMMA SinceGrows ==
  ASSUME NEW some \in SUBSET Calls, NEW whole \in SUBSET Calls, some \subseteq whole,
         NEW n \in Int, Cardinality(some) >= n
  PROVE  Cardinality(whole) >= n
BY CallSets

\* A binding that is written, and answered.
LEMMA WrittenKeepsLive ==
  ASSUME LiveInv, NEW c \in Calls, NEW a \in Accounts, NEW rank \in L!NextRank,
         c \notin DOMAIN L!Unexpired,
         NEW table \in L!Evicted(L!Set(L!Unexpired, c,
                         [account |-> a, second |-> seconds, rank |-> rank])),
         inner' = table, L!Persist(table),
         live' = L!Set(live, c, [account |-> a, second |-> seconds]),
         UNCHANGED seconds
  PROVE  LiveInv'
<1>1. /\ DOMAIN table \subseteq DOMAIN L!Unexpired \cup {c}
      /\ \A d \in DOMAIN table : table[d] \in L!Binding
      /\ Cardinality(DOMAIN table) <= MaxEntries
      /\ c \in DOMAIN table => table[c].account = a /\ table[c].second = seconds
      /\ \A d \in DOMAIN table : d # c => table[d] = inner[d]
      /\ \A x \in DOMAIN inner \ DOMAIN table : x # c =>
           \/ ~L!Fresh(inner[x])
           \/ /\ Cardinality(DOMAIN table) >= MaxEntries
              /\ \A e \in DOMAIN table : table[e].second >= inner[x].second
      /\ c \notin DOMAIN table =>
           /\ Cardinality(DOMAIN table) >= MaxEntries
           /\ \A e \in DOMAIN table : table[e].second >= seconds
  BY NewBinding
<1>2. /\ DOMAIN live' = DOMAIN live \cup {c}
      /\ live'[c] = [account |-> a, second |-> seconds]
      /\ \A d \in DOMAIN live : d # c => live'[d] = live[d]
  BY DEF L!Set
<1>3. /\ DOMAIN snapshot' = DOMAIN table
      /\ \A d \in DOMAIN table :
           snapshot'[d] = [account |-> table[d].account, second |-> table[d].second]
  BY DEF L!Persist
<1>4. /\ DOMAIN L!Unexpired \subseteq DOMAIN inner /\ DOMAIN inner \subseteq Calls
      /\ seconds \in 0..MaxSeconds /\ MaxEntries \in Nat
      /\ DOMAIN live \subseteq Calls /\ \A d \in DOMAIN live : live[d] \in L!Persisted
  BY UnexpiredTable, LiveAssumption DEF LiveInv, L!TypeOK, L!IsTable, LiveAssumption
<1>5. \A d \in DOMAIN live' : live'[d] \in L!Persisted
  BY <1>2, <1>4 DEF L!Persisted
<1>6. \A d \in DOMAIN snapshot' : snapshot'[d] \in L!Persisted
  BY <1>1, <1>3 DEF L!Persisted, L!Binding
<1>7. L!TypeOK' /\ Cardinality(DOMAIN snapshot') <= MaxEntries
  BY <1>1, <1>2, <1>3, <1>4, <1>5, <1>6, LiveCardinality
     DEF LiveInv, L!TypeOK, L!IsTable
<1>8. AsAnswered(inner)' /\ AsAnswered(snapshot)'
  <2> SUFFICES ASSUME NEW d \in DOMAIN table
               PROVE  /\ d \in DOMAIN live'
                      /\ table[d].account = live'[d].account
                      /\ table[d].second = live'[d].second
    BY <1>3 DEF AsAnswered
  <2>1. CASE d = c
    BY <1>1, <1>2, <2>1
  <2>2. CASE d # c
    BY <1>1, <1>2, <1>4, <2>2 DEF LiveInv, AsAnswered
  <2> QED
    BY <2>1, <2>2
<1>9. L!AnsweredCallsKeepTheirAccount'
  <2> SUFFICES ASSUME NEW x \in DOMAIN live', L!Fresh(live'[x])
               PROVE  \/ x \in DOMAIN table /\ table[x].account = live'[x].account
                      \/ Cardinality(L!Since(x)') >= MaxEntries - 1
    BY LiveCardinality DEF L!AnsweredCallsKeepTheirAccount, L!Bound, L!Fresh, L!Since
  <2>1. L!Since(x)' = {d \in DOMAIN live' \ {x} : live'[d].second >= live'[x].second}
    BY DEF L!Since
  <2>2. L!Since(x)' \subseteq Calls
    BY <1>2, <1>4, <2>1
  <2>3. CASE x \in DOMAIN table
    BY <1>8, <2>3 DEF AsAnswered
  <2>4. ASSUME x \notin DOMAIN table,
               Cardinality(DOMAIN table) >= MaxEntries,
               \A e \in DOMAIN table : table[e].second >= live'[x].second
        PROVE  Cardinality(L!Since(x)') >= MaxEntries - 1
    <3>1. DOMAIN table \subseteq L!Since(x)'
      BY <1>8, <2>1, <2>4 DEF AsAnswered
    <3>2. DOMAIN table \subseteq Calls
      BY <1>1, <1>4
    <3>3. Cardinality(DOMAIN table) \in Nat
      BY <3>2, CallSets
    <3>4. Cardinality(DOMAIN table) >= MaxEntries - 1
      BY <1>4, <2>4, <3>3
    <3> QED
      BY <1>4, <2>2, <3>1, <3>2, <3>4, SinceGrows
  <2>5. CASE x # c /\ x \notin DOMAIN table
    <3>1. x \in DOMAIN live /\ live'[x] = live[x]
      BY <1>2, <2>5
    <3>2. L!Fresh(live[x])
      BY <3>1
    <3>3. CASE L!Bound(x)
      <4>1. x \in DOMAIN inner /\ inner[x].second = live[x].second
        BY <3>3 DEF L!Bound, LiveInv, AsAnswered
      <4>2. L!Fresh(inner[x])
        BY <3>2, <4>1 DEF L!Fresh
      <4> QED
        BY <1>1, <2>4, <2>5, <3>1, <4>1, <4>2
    <3>4. CASE Cardinality(L!Since(x)) >= MaxEntries - 1
      <4>1. L!Since(x) \subseteq L!Since(x)'
        <5> SUFFICES ASSUME NEW d \in L!Since(x) PROVE d \in L!Since(x)'
          OBVIOUS
        <5>1. d \in DOMAIN live \ {x} /\ live[d].second >= live[x].second
          BY DEF L!Since
        <5>2. live[x].second \in 0..MaxSeconds
          BY <1>4, <3>1 DEF L!Persisted
        <5>3. live'[d].second >= live[x].second
          <6>1. CASE d = c
            <7>1. live'[d].second = seconds /\ live[x].second <= seconds
              BY <1>2, <3>1, <6>1 DEF LiveInv
            <7> QED
              BY <1>4, <5>2, <7>1
          <6>2. CASE d # c
            BY <1>2, <5>1, <6>2
          <6> QED
            BY <6>1, <6>2
        <5> QED
          BY <1>2, <2>1, <3>1, <5>1, <5>3
      <4>2. L!Since(x) \subseteq Calls
        BY <1>4 DEF L!Since
      <4> QED
        BY <1>4, <2>2, <3>4, <4>1, <4>2, SinceGrows
    <3> QED
      BY <3>1, <3>2, <3>3, <3>4, LiveCardinality
         DEF LiveInv, L!AnsweredCallsKeepTheirAccount
  <2>6. CASE x = c /\ x \notin DOMAIN table
    BY <1>1, <1>2, <2>4, <2>6
  <2> QED
    BY <2>3, <2>5, <2>6
<1>10. \A d \in DOMAIN live' : live'[d].second <= seconds'
  BY <1>2, <1>4 DEF LiveInv
<1> QED
  BY <1>3, <1>7, <1>8, <1>9, <1>10 DEF LiveInv

\* A binding that could not be written, and was taken back.
LEMMA UnwrittenKeepsLive ==
  ASSUME LiveInv, NEW c \in Calls, NEW a \in Accounts, NEW rank \in L!NextRank,
         c \notin DOMAIN L!Unexpired,
         NEW table \in L!Evicted(L!Set(L!Unexpired, c,
                         [account |-> a, second |-> seconds, rank |-> rank])),
         inner' = L!Unsaved(table, c), UNCHANGED <<snapshot, seconds, live>>
  PROVE  LiveInv'
<1>1. /\ DOMAIN table \subseteq DOMAIN L!Unexpired \cup {c}
      /\ \A d \in DOMAIN table : table[d] \in L!Binding
      /\ Cardinality(DOMAIN table) <= MaxEntries
      /\ \A d \in DOMAIN table : d # c => table[d] = inner[d]
      /\ \A x \in DOMAIN inner \ DOMAIN table : x # c =>
           \/ ~L!Fresh(inner[x])
           \/ /\ Cardinality(DOMAIN table) >= MaxEntries
              /\ \A e \in DOMAIN table : table[e].second >= inner[x].second
  BY NewBinding
<1>2. /\ DOMAIN inner' = DOMAIN table \ {c}
      /\ \A d \in DOMAIN inner' : inner'[d] = inner[d]
  BY <1>1 DEF L!Unsaved, L!Keep
<1>3. /\ DOMAIN L!Unexpired \subseteq DOMAIN inner /\ DOMAIN inner \subseteq Calls
      /\ \A d \in DOMAIN inner : d \notin DOMAIN L!Unexpired => ~L!Fresh(inner[d])
      /\ MaxEntries \in Nat
      /\ DOMAIN live \subseteq Calls /\ \A d \in DOMAIN live : live[d] \in L!Persisted
  BY UnexpiredTable, LiveAssumption DEF LiveInv, L!TypeOK, L!IsTable, LiveAssumption
<1>4. DOMAIN table \subseteq Calls /\ DOMAIN inner' \subseteq DOMAIN inner
  BY <1>1, <1>2, <1>3
<1>5. /\ Cardinality(DOMAIN table) \in Nat /\ Cardinality(DOMAIN inner') \in Nat
      /\ Cardinality(DOMAIN inner') <= Cardinality(DOMAIN table)
      /\ Cardinality(DOMAIN inner') >= Cardinality(DOMAIN table) - 1
  BY <1>2, <1>4, CallSets
<1>6. Cardinality(DOMAIN inner') <= MaxEntries
  BY <1>1, <1>3, <1>5
<1>7. L!TypeOK' /\ AsAnswered(inner)' /\ AsAnswered(snapshot)'
  BY <1>2, <1>4, <1>6, LiveCardinality DEF LiveInv, L!TypeOK, L!IsTable, AsAnswered
<1>8. L!AnsweredCallsKeepTheirAccount'
  <2> SUFFICES ASSUME NEW x \in DOMAIN live, L!Fresh(live[x])
               PROVE  \/ x \in DOMAIN inner' /\ inner'[x].account = live[x].account
                      \/ L!Cardinality(L!Since(x)) >= MaxEntries - 1
    BY DEF L!AnsweredCallsKeepTheirAccount, L!Bound, L!Fresh, L!Since
  <2>1. CASE L!Cardinality(L!Since(x)) >= MaxEntries - 1
    BY <2>1
  <2>2. CASE L!Bound(x)
    <3>1. /\ x \in DOMAIN inner /\ inner[x].second = live[x].second
          /\ inner[x].account = live[x].account
      BY <2>2 DEF L!Bound, LiveInv, AsAnswered
    <3>2. L!Fresh(inner[x])
      BY <3>1 DEF L!Fresh
    <3>3. x # c
      BY <1>3, <3>1, <3>2
    <3>4. CASE x \in DOMAIN table
      BY <1>2, <3>1, <3>3, <3>4
    <3>5. CASE x \notin DOMAIN table
      <4>1. /\ Cardinality(DOMAIN table) >= MaxEntries
            /\ \A e \in DOMAIN table : table[e].second >= inner[x].second
        BY <1>1, <3>1, <3>2, <3>3, <3>5
      <4>2. DOMAIN inner' \subseteq L!Since(x)
        <5> SUFFICES ASSUME NEW e \in DOMAIN inner' PROVE e \in L!Since(x)
          OBVIOUS
        <5>1. /\ e \in DOMAIN live /\ inner[e].second = live[e].second
              /\ e \in DOMAIN table /\ e # x /\ table[e] = inner[e]
          BY <1>1, <1>2, <1>4, <3>5 DEF LiveInv, AsAnswered
        <5> QED
          BY <3>1, <4>1, <5>1 DEF L!Since
      <4>3. Cardinality(DOMAIN inner') >= MaxEntries - 1
        BY <1>3, <1>5, <4>1
      <4>4. L!Since(x) \subseteq Calls /\ DOMAIN inner' \subseteq Calls
        BY <1>3, <1>4 DEF L!Since
      <4> QED
        BY <1>3, <4>2, <4>3, <4>4, SinceGrows, LiveCardinality
    <3> QED
      BY <3>4, <3>5
  <2> QED
    BY <2>1, <2>2 DEF LiveInv, L!AnsweredCallsKeepTheirAccount
<1> QED
  BY <1>4, <1>7, <1>8 DEF LiveInv

\* The invariant of the calls holds after every step of theirs.
LEMMA LiveStep == LiveInv /\ [L!Next]_liveVars => LiveInv'
<1> SUFFICES ASSUME LiveInv, [L!Next]_liveVars PROVE LiveInv'
  OBVIOUS
<1>1. CASE UNCHANGED liveVars
  BY <1>1 DEF liveVars, LiveInv, L!TypeOK, AsAnswered, L!AnsweredCallsKeepTheirAccount,
              L!Bound, L!Since, L!Fresh
<1>2. ASSUME NEW c \in Calls, NEW a \in Accounts, NEW written \in BOOLEAN,
             L!Bind(c, a, written)
      PROVE  LiveInv'
  <2>1. CASE c \in DOMAIN L!Unexpired
    BY <1>2, <2>1, Forgetting DEF L!Bind
  <2>2. CASE c \notin DOMAIN L!Unexpired /\ written
    BY <1>2, <2>2, WrittenKeepsLive DEF L!Bind
  <2>3. CASE c \notin DOMAIN L!Unexpired /\ ~written
    BY <1>2, <2>3, UnwrittenKeepsLive DEF L!Bind
  <2> QED
    BY <2>1, <2>2, <2>3
<1>3. CASE L!Lookup
  BY <1>3, Forgetting DEF L!Lookup
<1> QED
  BY <1>1, <1>2, <1>3, RestartKeepsLive, TickKeepsLive DEF L!Next

\* The invariant of the calls holds at the start.
LEMMA LiveStart == L!Init => LiveInv
<1> SUFFICES ASSUME L!Init PROVE LiveInv
  OBVIOUS
<1>1. /\ DOMAIN inner = {} /\ DOMAIN snapshot = {} /\ DOMAIN live = {}
  BY DEF L!Init
<1>2. Cardinality({}) = 0
  BY FS_EmptySet
<1>3. seconds = 0 /\ 0 \in 0..MaxSeconds /\ 0 <= MaxEntries
  BY LiveAssumption DEF L!Init, LiveAssumption
<1> QED
  BY <1>1, <1>2, <1>3, LiveCardinality
     DEF LiveInv, L!TypeOK, L!IsTable, AsAnswered, L!AnsweredCallsKeepTheirAccount

\* A step of the whole is one of the calls, or leaves their variables alone.
LEMMA LiveAlone == [PartsNext]_parts => [L!Next]_liveVars
BY DEF PartsNext, parts, liveVars

(***************************************************************************)
(* A call that was answered is found on its account until it expires or    *)
(* the table is full of younger ones, after restarts and failed writes too *)
(* (routing/live.rs), for any number of calls and any size of the table.   *)
(* The invariant bounds the snapshot, has the table within it, and has the *)
(* entries of both as they were answered.                                  *)
(***************************************************************************)
THEOREM CallsKeepTheirAccountAlways == PartsSpec => []AnsweredCallsKeepTheirAccount
<1>1. PartsInit => LiveInv
  BY LiveStart DEF PartsInit
<1>2. LiveInv /\ [PartsNext]_parts => LiveInv'
  BY LiveStep, LiveAlone
<1>3. LiveInv => AnsweredCallsKeepTheirAccount
  BY DEF LiveInv, AnsweredCallsKeepTheirAccount
<1> QED
  BY <1>1, <1>2, <1>3, PTL DEF PartsSpec

-----------------------------------------------------------------------------
(* The context store.                                                      *)

\* A context operation that was begun.
Query ==
  [stage : {"lookup", "chosen", "ask", "answered"}, history : BOOLEAN,
   account : {<<>>} \cup {<<a>> : a \in C!Account}, ask : Seq(C!Account),
   retried : SUBSET C!Account, answered : SUBSET Identities,
   owed : SUBSET Identities]

Inference == [stage : {"resolved", "recorded"}, account : C!Account]

\* The users of a sequence of accounts.
UsersOf(accounts) == {accounts[i].identity : i \in DOMAIN accounts}

ContextType ==
  /\ C!TypeOK
  /\ inference = C!Idle \/ inference \in Inference
  /\ query = C!Idle \/ query \in Query

\* Inference goes only to users that are recorded by then.
SentAreRecorded ==
  /\ sentTo \subseteq UsersOf(participants)
  /\ inference \in Inference /\ inference.stage = "recorded" =>
       inference.account.identity \in UsersOf(participants)

\* Notes are with the owner.
NotesWithOwner ==
  \A i \in noted : participants # <<>> /\ i = participants[1].identity

\* Whom an operation asks, and what it owes.
AsksAll ==
  query \in Query =>
    /\ query.owed \subseteq sentTo
    /\ query.stage = "chosen" => query.account # <<>>
    /\ query.stage \in {"ask", "answered"} =>
         IF query.history THEN query.owed \subseteq UsersOf(query.ask)
         ELSE participants # <<>> /\ query.ask = <<participants[1]>>
    /\ query.stage = "answered" => query.answered = UsersOf(query.ask)

ContextInv == ContextType /\ SentAreRecorded /\ NotesWithOwner /\ AsksAll

-----------------------------------------------------------------------------

\* A query that does not run is none that runs.
LEMMA IdleContext == C!Idle \notin Query /\ C!Idle \notin Inference /\ C!Idle.stage = "idle"
BY DEF C!Idle, Query, Inference

\* Participants only join at the end, as themselves.
LEMMA RecordingKeeps ==
  ASSUME ContextType, NEW account \in C!Account, C!RecordDispatch(account)
  PROVE  /\ participants' \in Seq(C!Account) /\ Len(participants') <= MaxParticipants
         /\ UsersOf(participants) \subseteq UsersOf(participants')
         /\ account.identity \in UsersOf(participants')
         /\ participants # <<>> =>
              participants' # <<>> /\ participants'[1] = participants[1]
<1>1. participants \in Seq(C!Account) /\ Len(participants) <= MaxParticipants
  BY DEF ContextType, C!TypeOK
<1>2. CASE C!Known(account)
  BY <1>1, <1>2 DEF C!RecordDispatch, C!Known, C!Recorded, UsersOf
<1>3. CASE ~C!Known(account)
  <2>1. /\ participants' = Append(participants, account)
        /\ Len(participants) < MaxParticipants
    BY <1>3 DEF C!RecordDispatch
  <2>2. /\ participants' \in Seq(C!Account)
        /\ Len(participants') = Len(participants) + 1
        /\ participants'[Len(participants) + 1] = account
        /\ \A i \in DOMAIN participants : participants'[i] = participants[i]
        /\ DOMAIN participants' = 1..(Len(participants) + 1)
        /\ DOMAIN participants = 1..Len(participants)
        /\ Len(participants) \in Nat
    BY <1>1, <2>1
  <2>3. Len(participants') <= MaxParticipants
    BY <2>1, <2>2, ContextAssumption DEF ContextAssumption
  <2>4. UsersOf(participants) \subseteq UsersOf(participants')
    BY <2>2 DEF UsersOf
  <2>5. account.identity \in UsersOf(participants')
    BY <2>2 DEF UsersOf
  <2>6. participants # <<>> => participants' # <<>> /\ participants'[1] = participants[1]
    <3>1. participants # <<>> => 1 \in DOMAIN participants
      BY <1>1
    <3>2. participants' # <<>>
      BY <2>2
    <3> QED
      BY <2>2, <3>1, <3>2
  <2> QED
    BY <2>2, <2>3, <2>4, <2>5, <2>6
<1> QED
  BY <1>2, <1>3

\* What an operation does to itself, while the rest stays as it is.
LEMMA QueryStep ==
  ASSUME ContextInv, query' = C!Idle \/ query' \in Query, AsksAll',
         UNCHANGED <<aliases, logins, participants, inference, sentTo, noted>>
  PROVE  ContextInv'
<1>1. ContextType'
  BY IdleContext DEF ContextInv, ContextType, C!TypeOK, Query
<1> QED
  BY <1>1 DEF ContextInv, SentAreRecorded, NotesWithOwner

\* An inference keeps the invariant at every stage.
LEMMA InferenceKeeps ==
  ASSUME ContextInv,
         \/ \E alias \in Accounts : C!Resolve(alias)
         \/ C!RecordInference \/ C!Send \/ C!GiveUp
  PROVE  ContextInv'
<1>1. ASSUME NEW alias \in Accounts, C!Resolve(alias) PROVE ContextInv'
  <2>1. C!Present(alias) \in C!Account
    BY DEF ContextInv, ContextType, C!TypeOK, C!Present, C!Account
  <2>2. inference' \in Inference /\ inference'.stage = "resolved"
    BY <1>1, <2>1 DEF C!Resolve, Inference
  <2> QED
    BY <1>1, <2>2 DEF C!Resolve, ContextInv, ContextType, C!TypeOK, SentAreRecorded,
                      NotesWithOwner, AsksAll
<1>2. CASE C!RecordInference
  <2>1. inference \in Inference /\ inference.account \in C!Account
    BY <1>2, IdleContext DEF ContextInv, ContextType, C!RecordInference, Inference
  <2>2. /\ inference' \in Inference /\ inference'.account = inference.account
    BY <1>2, <2>1 DEF C!RecordInference, Inference
  <2>3. /\ participants' \in Seq(C!Account) /\ Len(participants') <= MaxParticipants
        /\ UsersOf(participants) \subseteq UsersOf(participants')
        /\ inference.account.identity \in UsersOf(participants')
        /\ participants # <<>> =>
             participants' # <<>> /\ participants'[1] = participants[1]
    BY <1>2, <2>1, RecordingKeeps DEF ContextInv, C!RecordInference
  <2>4. UNCHANGED <<aliases, logins, query, sentTo, noted>>
    BY <1>2 DEF C!RecordInference
  <2>5. ContextType'
    BY <2>2, <2>3, <2>4 DEF ContextInv, ContextType, C!TypeOK, Inference
  <2>6. SentAreRecorded' /\ NotesWithOwner'
    BY <2>2, <2>3, <2>4 DEF ContextInv, SentAreRecorded, NotesWithOwner
  <2>7. AsksAll'
    BY <2>3, <2>4 DEF ContextInv, AsksAll
  <2> QED
    BY <2>5, <2>6, <2>7 DEF ContextInv
<1>3. CASE C!Send
  <2>1. inference \in Inference /\ inference.account.identity \in Identities
    BY <1>3, IdleContext
       DEF ContextInv, ContextType, C!Send, C!Sendable, Inference, C!Account
  <2>2. inference.account.identity \in UsersOf(participants)
    BY <1>3, <2>1 DEF ContextInv, SentAreRecorded, C!Send, C!Sendable
  <2>3. /\ inference' = C!Idle
        /\ sentTo' = sentTo \cup {inference.account.identity}
        /\ UNCHANGED <<aliases, logins, participants, query, noted>>
    BY <1>3 DEF C!Send
  <2> QED
    BY <2>1, <2>2, <2>3, IdleContext
       DEF ContextInv, ContextType, C!TypeOK, SentAreRecorded, NotesWithOwner, AsksAll
<1>4. CASE C!GiveUp
  BY <1>4, IdleContext DEF C!GiveUp, ContextInv, ContextType, C!TypeOK,
     SentAreRecorded, NotesWithOwner, AsksAll
<1> QED
  BY <1>1, <1>2, <1>3, <1>4

\* A query keeps the invariant at every stage.
LEMMA QueryKeeps ==
  ASSUME ContextInv,
         \/ \E history \in BOOLEAN : C!Begin(history)
         \/ \E alias \in Accounts : C!Choose(alias)
         \/ C!Plan \/ C!Complete \/ C!Fail
  PROVE  ContextInv'
<1>1. ASSUME NEW history \in BOOLEAN, C!Begin(history) PROVE ContextInv'
  <2>1. query' \in Query /\ query'.stage = "lookup" /\ query'.owed = sentTo
    <3>1. <<>> \in Seq(C!Account) /\ sentTo \subseteq Identities
      BY DEF ContextInv, ContextType, C!TypeOK
    <3> QED
      BY <1>1, <3>1 DEF C!Begin, Query
  <2>2. UNCHANGED <<aliases, logins, participants, inference, sentTo, noted>>
    BY <1>1 DEF C!Begin
  <2>3. AsksAll'
    BY <2>1, <2>2 DEF AsksAll
  <2> QED
    BY <2>1, <2>2, <2>3, QueryStep
<1>2. ASSUME NEW alias \in Accounts, C!Choose(alias) PROVE ContextInv'
  <2>1. query \in Query
    BY <1>2, IdleContext DEF C!Choose, ContextInv, ContextType
  <2>2. C!Present(alias) \in C!Account
    BY DEF ContextInv, ContextType, C!TypeOK, C!Present, C!Account
  <2>3. /\ query' \in Query /\ query'.stage = "chosen" /\ query'.owed = query.owed
        /\ query'.account = <<C!Present(alias)>>
    BY <1>2, <2>1, <2>2 DEF C!Choose, Query
  <2>4. UNCHANGED <<aliases, logins, participants, inference, sentTo, noted>>
    BY <1>2 DEF C!Choose
  <2>5. AsksAll'
    BY <2>1, <2>3, <2>4 DEF ContextInv, AsksAll
  <2> QED
    BY <2>3, <2>4, <2>5, QueryStep
<1>3. CASE C!Plan
  <2>1. query \in Query /\ participants # <<>> /\ participants \in Seq(C!Account)
    BY <1>3, IdleContext DEF C!Plan, ContextInv, ContextType, C!TypeOK
  <2>2. Head(participants) = participants[1] /\ participants[1] \in C!Account
    BY <2>1
  <2> DEFINE asked1 == IF query.history THEN participants ELSE <<Head(participants)>>
  <2>3. asked1 \in Seq(C!Account)
    BY <2>1, <2>2
  <2>4. query' = [query EXCEPT !.stage = "ask", !.ask = asked1]
    BY <1>3 DEF C!Plan
  <2>5. asked1 = IF query.history THEN participants ELSE <<participants[1]>>
    BY <2>2
  <2> HIDE DEF asked1
  <2>6. /\ query' \in Query /\ query'.stage = "ask" /\ query'.owed = query.owed
        /\ query'.ask = asked1 /\ query'.history = query.history
    BY <2>1, <2>3, <2>4 DEF Query
  <2>7. UNCHANGED <<aliases, logins, participants, inference, sentTo, noted>>
    BY <1>3 DEF C!Plan
  <2>8. query.owed \subseteq UsersOf(participants)
    BY <2>1 DEF ContextInv, AsksAll, SentAreRecorded
  <2>9. query.owed \subseteq sentTo
    BY <2>1 DEF ContextInv, AsksAll
  <2>10. AsksAll'
    BY <2>1, <2>5, <2>6, <2>7, <2>8, <2>9 DEF AsksAll
  <2> QED
    BY <2>6, <2>7, <2>10, QueryStep
<1>4. CASE C!Complete
  <2>1. query \in Query
    BY <1>4, IdleContext DEF C!Complete, ContextInv, ContextType
  <2>2. query.answered = UsersOf(query.ask)
    BY <1>4 DEF C!Complete, C!Targets, UsersOf
  <2>3. /\ query' \in Query /\ query'.stage = "answered" /\ query'.owed = query.owed
        /\ query'.ask = query.ask /\ query'.history = query.history
        /\ query'.answered = query.answered
    BY <1>4, <2>1 DEF C!Complete, Query
  <2>4. UNCHANGED <<aliases, logins, participants, inference, sentTo, noted>>
        /\ query.stage = "ask"
    BY <1>4 DEF C!Complete
  <2>5. AsksAll'
    BY <2>1, <2>2, <2>3, <2>4 DEF ContextInv, AsksAll
  <2> QED
    BY <2>3, <2>4, <2>5, QueryStep
<1>5. CASE C!Fail
  <2>1. query' = C!Idle
        /\ UNCHANGED <<aliases, logins, participants, inference, sentTo, noted>>
    BY <1>5 DEF C!Fail
  <2> QED
    BY <2>1, IdleContext, QueryStep DEF AsksAll
<1> QED
  BY <1>1, <1>2, <1>3, <1>4, <1>5

\* The chosen account becomes a participant, or is the one it was.
LEMMA RecordChosenKeeps ==
  ASSUME ContextInv, C!RecordChosen PROVE ContextInv'
<1>1. query \in Query /\ query.account # <<>> /\ query.account[1] \in C!Account
  BY IdleContext DEF C!RecordChosen, ContextInv, ContextType, AsksAll, Query
<1>2. /\ participants' \in Seq(C!Account) /\ Len(participants') <= MaxParticipants
      /\ UsersOf(participants) \subseteq UsersOf(participants')
      /\ participants # <<>> =>
           participants' # <<>> /\ participants'[1] = participants[1]
  BY <1>1, RecordingKeeps DEF ContextInv, C!RecordChosen
<1>3. query' \in Query /\ query'.stage = "lookup" /\ query'.owed = query.owed
  BY <1>1 DEF C!RecordChosen, Query
<1>4. UNCHANGED <<aliases, logins, inference, sentTo, noted>>
  BY DEF C!RecordChosen
<1>5. ContextType'
  BY <1>2, <1>3, <1>4 DEF ContextInv, ContextType, C!TypeOK
<1>6. SentAreRecorded' /\ NotesWithOwner' /\ AsksAll'
  BY <1>1, <1>2, <1>3, <1>4 DEF ContextInv, SentAreRecorded, NotesWithOwner, AsksAll
<1> QED
  BY <1>5, <1>6 DEF ContextInv

\* A request of an operation goes to the users it was planned for.
LEMMA AskKeeps ==
  ASSUME ContextInv, NEW t \in C!Recorded, C!Answer(t) \/ C!Unauthorized(t)
  PROVE  ContextInv'
<1>1. query \in Query /\ query.stage = "ask"
  BY IdleContext DEF C!Answer, C!Unauthorized, ContextInv, ContextType
<1>2. /\ t \in C!Account /\ t \in C!Targets /\ aliases[t.alias] = t.identity
      /\ t.identity \in Identities
  <2>1. t \in C!Account
    BY DEF ContextInv, ContextType, C!TypeOK, C!Recorded
  <2> QED
    BY <2>1 DEF C!Answer, C!Unauthorized, C!SameLogin, C!Account
<1>3. /\ query' \in Query /\ query'.stage = "ask" /\ query'.owed = query.owed
      /\ query'.ask = query.ask /\ query'.history = query.history
  <2>1. CASE C!Answer(t)
    BY <1>1, <1>2, <2>1 DEF C!Answer, Query
  <2>2. CASE C!Unauthorized(t)
    BY <1>1, <1>2, <2>2 DEF C!Unauthorized, Query
  <2> QED
    BY <2>1, <2>2
<1>4. /\ UNCHANGED <<aliases, logins, participants, inference, sentTo>>
      /\ noted' = IF query.history THEN noted ELSE noted \cup {t.identity}
  BY <1>2 DEF C!Answer, C!Unauthorized
<1>5. ~query.history => participants # <<>> /\ t.identity = participants[1].identity
  BY <1>1, <1>2 DEF ContextInv, AsksAll, C!Targets
<1>6. ContextType' /\ SentAreRecorded'
  BY <1>2, <1>3, <1>4 DEF ContextInv, ContextType, C!TypeOK, SentAreRecorded, Query
<1>7. NotesWithOwner' /\ AsksAll'
  BY <1>1, <1>3, <1>4, <1>5 DEF ContextInv, NotesWithOwner, AsksAll
<1> QED
  BY <1>6, <1>7 DEF ContextInv

\* A login or a restart keeps the invariant.
LEMMA LoginsKeepContext ==
  ASSUME ContextInv,
         C!Restart \/ \E alias \in Accounts, identity \in Identities :
                        C!Login(alias, identity)
  PROVE  ContextInv'
<1>1. CASE C!Restart
  BY <1>1, IdleContext DEF C!Restart, ContextInv, ContextType, C!TypeOK,
     SentAreRecorded, NotesWithOwner, AsksAll
<1>2. ASSUME NEW alias \in Accounts, NEW identity \in Identities,
             C!Login(alias, identity)
      PROVE  ContextInv'
  <2>1. aliases' \in [Accounts -> Identities] /\ logins' \in 0..MaxLogins
    BY <1>2, ContextAssumption
       DEF C!Login, ContextInv, ContextType, C!TypeOK, ContextAssumption
  <2> QED
    BY <1>2, <2>1 DEF C!Login, ContextInv, ContextType, C!TypeOK, SentAreRecorded,
       NotesWithOwner, AsksAll
<1> QED
  BY <1>1, <1>2

\* The invariant of the context holds after every step of its part.
LEMMA ContextStep == ContextInv /\ [C!Next]_contextVars => ContextInv'
<1> SUFFICES ASSUME ContextInv, [C!Next]_contextVars PROVE ContextInv'
  OBVIOUS
<1>1. CASE UNCHANGED contextVars
  BY <1>1 DEF contextVars, ContextInv, ContextType, C!TypeOK, SentAreRecorded,
              NotesWithOwner, AsksAll
<1> QED
  BY <1>1, InferenceKeeps, QueryKeeps, RecordChosenKeeps, AskKeeps,
     LoginsKeepContext DEF C!Next

\* The invariant of the context holds at the start.
LEMMA ContextStart == C!Init => ContextInv
<1> SUFFICES ASSUME C!Init PROVE ContextInv
  OBVIOUS
<1>1. participants \in Seq(C!Account) /\ Len(participants) <= MaxParticipants
  BY ContextAssumption DEF C!Init, ContextAssumption
<1> QED
  BY <1>1, IdleContext, ContextAssumption
     DEF C!Init, ContextInv, ContextType, C!TypeOK, SentAreRecorded, NotesWithOwner,
         AsksAll, ContextAssumption

\* A step of the whole is one of the context, or leaves its variables alone.
LEMMA ContextAlone == [PartsNext]_parts => [C!Next]_contextVars
BY DEF PartsNext, parts, contextVars

\* The context counts as the standard module does.
LEMMA ContextCardinality == \A set : C!Cardinality(set) = Cardinality(set)
BY DEF C!Cardinality, Cardinality, C!IsFiniteSet, IsFiniteSet

(***************************************************************************)
(* The notes of a session stay with one user, and a history that is        *)
(* answered is complete, for any number of participants and logins         *)
(* (proxy/context.rs and context_store.rs).  The invariant ties what an    *)
(* inference or a query has resolved to the rows of the participants.      *)
(***************************************************************************)
THEOREM ContextKeptAlways == PartsSpec => []ContextKept
<1>1. PartsInit => ContextInv
  BY ContextStart DEF PartsInit
<1>2. ContextInv /\ [PartsNext]_parts => ContextInv'
  BY ContextStep, ContextAlone
<1>3. ContextInv => ContextKept
  <2> SUFFICES ASSUME ContextInv PROVE C!TypeOK /\ C!NotesStay /\ C!HistoryComplete
    BY DEF ContextKept
  <2>1. C!NotesStay
    <3>1. noted = {} \/ \E i : noted = {i}
      BY DEF ContextInv, NotesWithOwner
    <3> QED
      BY <3>1, FS_EmptySet, FS_Singleton, ContextCardinality DEF C!NotesStay
  <2>2. C!HistoryComplete
    BY IdleContext DEF ContextInv, ContextType, AsksAll, C!HistoryComplete
  <2> QED
    BY <2>1, <2>2 DEF ContextInv, ContextType
<1> QED
  BY <1>1, <1>2, <1>3, PTL DEF PartsSpec

-----------------------------------------------------------------------------
(* Reset credits.                                                          *)

SpentCredits(o) == {c \in Credits : redeemed[o][c] # Nothing}

\* The router blocks the owner, as of the generation.
BlockedAt(o, g) ==
  health.block # Nothing /\ health.owner = o /\ health.generation = g

\* The generation has room for one more identity.
RoomForLogin == health.owner # login => health.generation < MaxFailures

\* Windows are counted by the credits spent on them, and blocks are of windows
\* that have been.
WindowsCounted ==
  /\ \A o \in Identities : window[o] = Cardinality(SpentCredits(o))
  /\ health.block # Nothing => health.block <= window[health.owner]

\* What a call knows: its attempt, and what its answer says of the window.
CallKnows ==
  call # Nothing =>
    /\ calls # 0
    /\ call.reply \in R!Code \cup {"refused"} => call.stage = "wait"
    /\ call.stage \in {"post", "wait"} =>
         attempt # Nothing /\ call.generation <= health.generation
    /\ call.retry => /\ attempt # Nothing
                     /\ attempt.owner = call.owner /\ attempt.credit = call.credit
    /\ call.reply = "reset" /\ BlockedAt(call.owner, call.generation) =>
         health.block < window[call.owner]
    /\ call.reply = "already" => redeemed[call.owner][call.credit] # Nothing

\* A block that is as old as the attempt is older than what its credit brought.
AttemptKnows ==
  attempt # Nothing =>
    /\ attempt.generation <= health.generation
    /\ unspent /\ redeemed[attempt.owner][attempt.credit] # Nothing
         /\ BlockedAt(attempt.owner, attempt.generation) =>
         health.block < window[attempt.owner]

ResetsInv ==
  R!TypeOK /\ RoomForLogin /\ WindowsCounted /\ CallKnows /\ AttemptKnows

-----------------------------------------------------------------------------

\* The resets count as the standard module does.
LEMMA ResetsCardinality == \A set : R!Cardinality(set) = Cardinality(set)
BY DEF R!Cardinality, Cardinality, R!IsFiniteSet, IsFiniteSet

\* The identity that is logged in is taken over with a generation of its own.
LEMMA ReconciledIs ==
  ASSUME ResetsInv
  PROVE  /\ R!Reconciled \in R!Health
         /\ R!Reconciled.owner = login
         /\ R!Reconciled.generation >= health.generation
         /\ health.owner = login => R!Reconciled = health
         /\ health.owner # login => R!Reconciled.block = Nothing
<1>1. health \in R!Health /\ login \in Identities /\ MaxFailures \in Nat
  BY ResetsAssumption DEF ResetsInv, R!TypeOK, ResetsAssumption
<1>2. CASE health.owner = login
  BY <1>1, <1>2 DEF R!Reconciled, R!Health
<1>3. CASE health.owner # login
  <2>1. health.generation + 1 \in 0..MaxFailures
    BY <1>1, <1>3 DEF R!Health, ResetsInv, RoomForLogin
  <2> QED
    BY <1>1, <1>3, <2>1 DEF R!Reconciled, R!Health
<1> QED
  BY <1>2, <1>3

\* A call that changes by itself.
LEMMA CallStep ==
  ASSUME ResetsInv, calls' \in 0..MaxCalls, call' \in R!Call \cup {Nothing},
         R!TypeOK => posts' \subseteq R!Post,
         UNCHANGED <<login, health, attempt, redeemed, window, unspent>>, CallKnows'
  PROVE  ResetsInv'
<1>1. R!TypeOK'
  BY DEF ResetsInv, R!TypeOK
<1>2. RoomForLogin' /\ WindowsCounted' /\ AttemptKnows'
  BY DEF ResetsInv, RoomForLogin, WindowsCounted, AttemptKnows, BlockedAt, SpentCredits
<1> QED
  BY <1>1, <1>2 DEF ResetsInv

\* A redemption is asked for.
LEMMA RedeemKeeps ==
  ASSUME ResetsInv, NEW credit \in Credits, NEW request \in Redeemers,
         R!Redeem(credit, request)
  PROVE  ResetsInv'
<1>1. calls \in 0..MaxCalls /\ calls' = calls + 1 /\ calls' \in 0..MaxCalls
  BY ResetsAssumption DEF R!Redeem, R!Enter, ResetsInv, R!TypeOK, ResetsAssumption
<1>2. login \in Identities /\ 0 \in 0..MaxFailures
  BY ResetsAssumption DEF ResetsInv, R!TypeOK, ResetsAssumption
<1>3. PICK stage \in {"list", "reserve"}, retry \in BOOLEAN :
        /\ R!Enter(credit, request, stage, retry)
        /\ retry => R!Retries(credit, request)
  BY DEF R!Redeem
<1>4. /\ call' \in R!Call /\ call'.stage \in {"list", "reserve"}
      /\ call'.retry = retry /\ call'.owner = login /\ call'.credit = credit
      /\ call'.reply = Nothing
  BY <1>2, <1>3 DEF R!Enter, R!Call
<1>5. UNCHANGED <<login, health, attempt, posts, redeemed, window, unspent>>
  BY <1>3 DEF R!Enter
<1>6. Nothing \notin R!Code \cup {"refused"}
  BY ResetsAssumption DEF ResetsAssumption
<1>7. CallKnows'
  BY <1>1, <1>3, <1>4, <1>5, <1>6 DEF CallKnows, R!Retries, R!Code
<1> QED
  BY <1>1, <1>4, <1>5, <1>7, CallStep DEF R!TypeOK

\* The call goes on, is sent or is left by its client.
LEMMA CallMoves ==
  ASSUME ResetsInv, R!List \/ R!Send \/ R!Leave
  PROVE  ResetsInv'
<1>1. UNCHANGED <<login, health, attempt, calls, redeemed, window, unspent>>
  BY DEF R!List, R!Send, R!Leave
<1>2. call # Nothing /\ call \in R!Call /\ calls \in 0..MaxCalls
  BY DEF R!List, R!Send, R!Leave, ResetsInv, R!TypeOK
<1>3. CASE R!List
  <2>1. /\ call' \in R!Call /\ call'.stage = "reserve" /\ call'.owner = call.owner
        /\ call'.credit = call.credit /\ call'.retry = call.retry
        /\ call'.reply = call.reply /\ call'.generation = call.generation
        /\ UNCHANGED posts
    BY <1>2, <1>3 DEF R!List, R!Call
  <2>2. call.reply \notin R!Code \cup {"refused"}
    BY <1>2, <1>3 DEF R!List, ResetsInv, CallKnows
  <2>3. CallKnows'
    BY <1>1, <1>2, <2>1, <2>2 DEF ResetsInv, CallKnows, R!Code
  <2> QED
    BY <1>1, <1>2, <2>1, <2>3, CallStep DEF R!TypeOK
<1>4. CASE R!Send
  <2>1. /\ call' \in R!Call /\ call'.stage = "wait" /\ call'.owner = call.owner
        /\ call'.credit = call.credit /\ call'.retry = call.retry
        /\ call'.reply = call.reply /\ call'.generation = call.generation
        /\ call.stage = "post" /\ posts' = posts \cup {R!ThisPost}
    BY <1>2, <1>4 DEF R!Send, R!Call
  <2>2. CallKnows'
    BY <1>1, <1>2, <2>1 DEF ResetsInv, CallKnows, BlockedAt
  <2>3. R!ThisPost \in R!Post
    BY <1>2 DEF R!ThisPost, R!Post, R!Call, ResetsInv, CallKnows
  <2> QED
    BY <1>1, <1>2, <2>1, <2>2, <2>3, CallStep DEF R!TypeOK
<1>5. CASE R!Leave
  BY <1>1, <1>2, <1>5, CallStep DEF R!Leave, R!TypeOK, CallKnows
<1> QED
  BY <1>3, <1>4, <1>5

\* The generation is read, and a new attempt kept.
LEMMA ReserveKeeps ==
  ASSUME ResetsInv, R!Reserve
  PROVE  ResetsInv'
<1> DEFINE gen == R!Reconciled.generation
           kept == [owner |-> call.owner, credit |-> call.credit,
                    request |-> call.request, generation |-> gen, result |-> Nothing]
<1>1. /\ call # Nothing /\ call \in R!Call /\ call.stage = "reserve"
      /\ call.owner = login
      /\ UNCHANGED <<login, calls, posts, redeemed, window>>
      /\ health' = R!Reconciled
      /\ call' = [call EXCEPT !.stage = "post", !.generation = gen]
      /\ attempt' = IF call.retry THEN attempt ELSE kept
      /\ unspent' = IF call.retry THEN unspent
                    ELSE redeemed[call.owner][call.credit] = Nothing
  BY DEF R!Reserve, ResetsInv, R!TypeOK
<1>2. /\ R!Reconciled \in R!Health /\ R!Reconciled.owner = login
      /\ gen >= health.generation
      /\ health.owner = login => R!Reconciled = health
      /\ health.owner # login => R!Reconciled.block = Nothing
  BY ReconciledIs
<1>3. gen \in 0..MaxFailures
  BY <1>2 DEF R!Health
<1> HIDE DEF gen
<1>4. kept \in R!Attempt /\ kept.owner = call.owner /\ kept.credit = call.credit
      /\ kept.generation = gen
  BY <1>1, <1>3 DEF R!Attempt, R!Call
<1>5. kept # Nothing
  BY <1>4, ResetsAssumption DEF ResetsAssumption
<1> HIDE DEF kept
<1>6. /\ call' \in R!Call /\ call'.stage = "post" /\ call'.generation = gen
      /\ call'.owner = call.owner /\ call'.credit = call.credit
      /\ call'.retry = call.retry /\ call'.reply = call.reply
  BY <1>1, <1>3 DEF R!Call
<1>7. call.reply \notin R!Code \cup {"refused"} /\ calls # 0
  BY <1>1 DEF ResetsInv, CallKnows
<1>8. call.retry => /\ attempt # Nothing
                    /\ attempt.owner = call.owner /\ attempt.credit = call.credit
  BY <1>1 DEF ResetsInv, CallKnows
<1>9. health'.generation = gen
  BY <1>1 DEF gen
<1>10. R!TypeOK'
  BY <1>1, <1>2, <1>4, <1>6 DEF ResetsInv, R!TypeOK, R!Call
<1>11. RoomForLogin'
  BY <1>1, <1>2 DEF RoomForLogin
<1>12. WindowsCounted'
  BY <1>1, <1>2 DEF ResetsInv, WindowsCounted, SpentCredits
<1>13. CallKnows'
  BY <1>1, <1>3, <1>4, <1>5, <1>6, <1>7, <1>8, <1>9 DEF CallKnows, R!Code
<1>14. AttemptKnows'
  <2>1. CASE call.retry
    <3>1. /\ attempt' = attempt /\ unspent' = unspent /\ attempt # Nothing
          /\ attempt \in R!Attempt /\ health \in R!Health
      BY <1>1, <1>8, <2>1 DEF ResetsInv, R!TypeOK
    <3>2. attempt.generation <= health.generation
      BY <3>1 DEF ResetsInv, AttemptKnows
    <3>3. attempt.generation <= gen
      BY <1>2, <1>3, <3>1, <3>2 DEF gen, R!Attempt, R!Health
    <3>4. CASE health.owner = login
      BY <1>1, <1>2, <1>9, <3>1, <3>3, <3>4
         DEF ResetsInv, AttemptKnows, BlockedAt
    <3>5. CASE health.owner # login
      BY <1>1, <1>2, <1>9, <3>1, <3>3, <3>5 DEF AttemptKnows, BlockedAt
    <3> QED
      BY <3>4, <3>5
  <2>2. CASE ~call.retry
    <3>1. /\ attempt' = kept /\ redeemed' = redeemed
          /\ unspent' = (redeemed[call.owner][call.credit] = Nothing)
      BY <1>1, <2>2
    <3>2. ~unspent' \/ redeemed'[kept.owner][kept.credit] = Nothing
      BY <1>4, <3>1, Zenon
    <3>3. gen <= health'.generation
      BY <1>3, <1>9
    <3> QED
      BY <1>4, <3>1, <3>2, <3>3 DEF AttemptKnows
  <2> QED
    BY <2>1, <2>2
<1> QED
  BY <1>10, <1>11, <1>12, <1>13, <1>14 DEF ResetsInv

\* A refusal takes the attempt back.
LEMMA RefusedKeeps ==
  ASSUME ResetsInv, R!Refused
  PROVE  ResetsInv'
BY DEF R!Refused, ResetsInv, R!TypeOK, RoomForLogin, WindowsCounted, SpentCredits,
       CallKnows, AttemptKnows

\* Who can no longer be blocked at a generation.
LEMMA LearnKeeps ==
  ASSUME ResetsInv, R!Learn
  PROVE  ResetsInv'
<1> DEFINE asOf == R!ConfirmedAsOf
           kept == [attempt EXCEPT !.result = call.reply]
<1>1. /\ call # Nothing /\ call \in R!Call /\ call.reply \in R!Code
      /\ call' = Nothing /\ attempt' = kept
      /\ UNCHANGED <<login, calls, posts, redeemed, window, unspent>>
      /\ health' \in {health, R!Confirmed(call.owner, asOf)}
  BY DEF R!Learn, ResetsInv, R!TypeOK
<1>2. attempt # Nothing /\ attempt \in R!Attempt
  BY <1>1 DEF ResetsInv, CallKnows, R!TypeOK
<1>3. /\ kept \in R!Attempt /\ kept.owner = attempt.owner
      /\ kept.credit = attempt.credit /\ kept.generation = attempt.generation
  BY <1>1, <1>2 DEF R!Attempt
<1> HIDE DEF kept
<1>4. /\ R!Reconciled \in R!Health /\ R!Reconciled.owner = login
      /\ R!Reconciled.generation >= health.generation
      /\ health.owner = login => R!Reconciled = health
      /\ health.owner # login => R!Reconciled.block = Nothing
  BY ReconciledIs
<1>5. /\ health' \in R!Health
      /\ health'.generation >= health.generation
      /\ health' = health \/ health'.block = Nothing
      /\ health'.owner # login => health' = health
  <2>1. CASE health' = health
    BY <2>1 DEF ResetsInv, R!TypeOK, R!Health
  <2>2. CASE health' = [R!Reconciled EXCEPT !.block = Nothing]
    BY <1>4, <2>2 DEF R!Health
  <2>3. CASE health' = R!Reconciled
    BY <1>4, <2>3
  <2> QED
    BY <1>1, <2>1, <2>2, <2>3 DEF R!Confirmed
<1>6. R!TypeOK'
  BY <1>1, <1>3, <1>5 DEF ResetsInv, R!TypeOK
<1>7. RoomForLogin'
  BY <1>1, <1>5 DEF ResetsInv, RoomForLogin
<1>8. WindowsCounted'
  BY <1>1, <1>5 DEF ResetsInv, WindowsCounted, SpentCredits
<1>9. attempt.generation <= health'.generation
  <2>1. attempt.generation <= health.generation /\ health \in R!Health
    BY <1>2 DEF ResetsInv, AttemptKnows, R!TypeOK
  <2> QED
    BY <1>2, <1>5, <2>1 DEF R!Attempt, R!Health
<1>10. AttemptKnows'
  BY <1>1, <1>2, <1>3, <1>5, <1>9 DEF ResetsInv, AttemptKnows, BlockedAt
<1> QED
  BY <1>1, <1>6, <1>7, <1>8, <1>10 DEF ResetsInv, CallKnows

\* A rejection makes a generation that neither a call nor an attempt knows.
LEMMA RejectedKeeps ==
  ASSUME ResetsInv, NEW w \in R!Window, R!Rejected(w)
  PROVE  ResetsInv'
<1> DEFINE was == R!Reconciled
           blocked == IF was.block = Nothing \/ was.block < w THEN w ELSE was.block
<1>1. /\ was \in R!Health /\ was.owner = login
      /\ was.generation >= health.generation
      /\ health.owner = login => was = health
      /\ health.owner # login => was.block = Nothing
  BY ReconciledIs
<1>2. /\ was.generation < MaxFailures /\ w <= window[login]
      /\ UNCHANGED <<login, attempt, call, calls, posts, redeemed, window, unspent>>
  BY DEF R!Rejected
<1> HIDE DEF was
<1>3. health' = [was EXCEPT !.generation = was.generation + 1, !.block = blocked]
  BY DEF R!Rejected, was
<1>4. blocked \in R!Window \cup {Nothing}
  BY <1>1 DEF R!Health
<1>5. blocked # Nothing => blocked <= window[login]
  BY <1>1, <1>2 DEF ResetsInv, WindowsCounted
<1> HIDE DEF blocked
<1>6. was.generation + 1 \in 0..MaxFailures
  BY <1>1, <1>2, ResetsAssumption DEF ResetsAssumption, R!Health
<1>7. /\ health' \in R!Health /\ health'.owner = login
      /\ health'.generation = was.generation + 1 /\ health'.block = blocked
  BY <1>1, <1>3, <1>4, <1>6 DEF R!Health
<1>8. health \in R!Health
  BY DEF ResetsInv, R!TypeOK
<1>9. health'.generation > health.generation
  BY <1>1, <1>7, <1>8 DEF R!Health
<1>10. R!TypeOK' /\ RoomForLogin'
  BY <1>2, <1>7 DEF ResetsInv, R!TypeOK, RoomForLogin
<1>11. WindowsCounted'
  BY <1>2, <1>5, <1>7 DEF ResetsInv, WindowsCounted, SpentCredits
<1>12. CallKnows'
  <2>1. CASE call # Nothing
    <3>1. call \in R!Call
      BY <2>1 DEF ResetsInv, R!TypeOK
    <3>2. call.reply = "reset" => call.stage = "wait"
      BY <2>1 DEF ResetsInv, CallKnows, R!Code
    <3>3. call.stage \in {"post", "wait"} =>
            call.generation <= health'.generation /\ call.generation # health'.generation
      <4>1. call.stage \in {"post", "wait"} => call.generation <= health.generation
        BY <2>1 DEF ResetsInv, CallKnows
      <4> QED
        BY <1>7, <1>8, <1>9, <3>1, <4>1 DEF R!Call, R!Health
    <3> QED
      BY <1>2, <2>1, <3>2, <3>3 DEF ResetsInv, CallKnows, BlockedAt
  <2> QED
    BY <1>2, <2>1 DEF CallKnows
<1>13. AttemptKnows'
  <2>1. CASE attempt # Nothing
    <3>1. attempt \in R!Attempt /\ attempt.generation <= health.generation
      BY <2>1 DEF ResetsInv, R!TypeOK, AttemptKnows
    <3>2. attempt.generation <= health'.generation /\ attempt.generation # health'.generation
      BY <1>7, <1>8, <1>9, <3>1 DEF R!Attempt, R!Health
    <3> QED
      BY <1>2, <2>1, <3>2 DEF AttemptKnows, BlockedAt
  <2> QED
    BY <1>2, <2>1 DEF AttemptKnows
<1> QED
  BY <1>10, <1>11, <1>12, <1>13 DEF ResetsInv

\* What a reply does to the call that waits for it.
LEMMA ReplyEffect ==
  ASSUME ResetsInv, NEW p \in posts, NEW reply \in R!Code \cup {"refused", Nothing},
         R!Reply(p, reply)
  PROVE  /\ call' \in R!Call \cup {Nothing}
         /\ call' # Nothing => call # Nothing
         /\ call # Nothing =>
              /\ call'.stage = call.stage /\ call'.owner = call.owner
              /\ call'.credit = call.credit /\ call'.retry = call.retry
              /\ call'.generation = call.generation
              /\ \/ call' = call
                 \/ /\ call.stage = "wait" /\ call'.reply = reply
                    /\ p.owner = call.owner /\ p.credit = call.credit
<1>1. CASE call # Nothing /\ call.stage = "wait" /\ p = R!ThisPost
  <2>1. call \in R!Call /\ call' = [call EXCEPT !.reply = reply]
    BY <1>1 DEF ResetsInv, R!TypeOK, R!Reply
  <2>2. p.owner = call.owner /\ p.credit = call.credit
    BY <1>1 DEF R!ThisPost
  <2> QED
    BY <1>1, <2>1, <2>2 DEF R!Call
<1>2. CASE ~(call # Nothing /\ call.stage = "wait" /\ p = R!ThisPost)
  BY <1>2 DEF R!Reply, ResetsInv, R!TypeOK
<1> QED
  BY <1>1, <1>2

\* A request that is lost, or refused, redeems nothing.
LEMMA DropKeeps ==
  ASSUME ResetsInv, NEW p \in posts, NEW reply \in {"refused", Nothing},
         R!Drop(p, reply)
  PROVE  ResetsInv'
<1>1. /\ posts' = posts \ {p} /\ R!Reply(p, reply)
      /\ UNCHANGED <<login, health, attempt, calls, redeemed, window, unspent>>
  BY DEF R!Drop
<1>2. reply \notin R!Code /\ reply \in R!Code \cup {"refused", Nothing}
  BY ResetsAssumption DEF ResetsAssumption, R!Code
<1>3. /\ call' \in R!Call \cup {Nothing}
      /\ call' # Nothing => call # Nothing
      /\ call # Nothing =>
           /\ call'.stage = call.stage /\ call'.owner = call.owner
           /\ call'.credit = call.credit /\ call'.retry = call.retry
           /\ call'.generation = call.generation
           /\ call' = call \/ (call.stage = "wait" /\ call'.reply = reply)
  BY <1>1, <1>2, ReplyEffect
<1>4. CallKnows'
  BY <1>1, <1>2, <1>3 DEF ResetsInv, CallKnows, BlockedAt, R!Code
<1> QED
  BY <1>1, <1>3, <1>4, CallStep DEF ResetsInv, R!TypeOK

\* A POST that spends no credit.
LEMMA UnspentPostKeeps ==
  ASSUME ResetsInv, NEW p \in posts, NEW reply \in {"nothing", "already"},
         reply = "already" => redeemed[p.owner][p.credit] # Nothing,
         posts' = posts \ {p}, R!Reply(p, reply),
         UNCHANGED <<login, health, attempt, calls, redeemed, window, unspent>>
  PROVE  ResetsInv'
<1>1. reply # "reset" /\ reply # "refused" /\ reply \in R!Code \cup {"refused", Nothing}
  BY DEF R!Code
<1>2. /\ call' \in R!Call \cup {Nothing}
      /\ call' # Nothing => call # Nothing
      /\ call # Nothing =>
           /\ call'.stage = call.stage /\ call'.owner = call.owner
           /\ call'.credit = call.credit /\ call'.retry = call.retry
           /\ call'.generation = call.generation
           /\ \/ call' = call
              \/ /\ call.stage = "wait" /\ call'.reply = reply
                 /\ p.owner = call.owner /\ p.credit = call.credit
  BY <1>1, ReplyEffect
<1>3. CallKnows'
  BY <1>1, <1>2 DEF ResetsInv, CallKnows, BlockedAt, R!Code
<1> QED
  BY <1>2, <1>3, CallStep DEF ResetsInv, R!TypeOK

\* A POST that spends a credit, which makes a window.
LEMMA SpentPostKeeps ==
  ASSUME ResetsInv, NEW p \in posts, redeemed[p.owner][p.credit] = Nothing,
         redeemed' = [redeemed EXCEPT ![p.owner][p.credit] = p.request],
         window' = [window EXCEPT ![p.owner] = @ + 1],
         posts' = posts \ {p}, R!Reply(p, "reset"),
         UNCHANGED <<login, health, attempt, calls, unspent>>
  PROVE  ResetsInv'
<1>1. /\ p.owner \in Identities /\ p.credit \in Credits
      /\ p.request \in Redeemers /\ p.request # Nothing
  BY ResetsAssumption DEF ResetsInv, R!TypeOK, R!Post, ResetsAssumption
<1>2. /\ redeemed \in [Identities -> [Credits -> Redeemers \cup {Nothing}]]
      /\ window \in [Identities -> R!Window] /\ R!Window \subseteq Nat
  BY DEF ResetsInv, R!TypeOK, R!Window
<1>3. \A o \in Identities, c \in Credits :
        redeemed'[o][c] = IF o = p.owner /\ c = p.credit THEN p.request
                          ELSE redeemed[o][c]
  BY <1>1, <1>2
<1>4. redeemed' \in [Identities -> [Credits -> Redeemers \cup {Nothing}]]
  BY <1>1, <1>2
<1>5. \A o \in Identities :
        /\ window'[o] = IF o = p.owner THEN window[o] + 1 ELSE window[o]
        /\ window[o] \in Nat
  BY <1>1, <1>2
<1>6. \A o \in Identities : IsFiniteSet(SpentCredits(o))
  BY FS_Subset, ResetsAssumption DEF SpentCredits, ResetsAssumption
<1>7. \A o \in Identities : window'[o] = Cardinality(SpentCredits(o)')
  <2> TAKE o \in Identities
  <2>1. CASE o = p.owner
    <3>1. SpentCredits(o)' = SpentCredits(o) \cup {p.credit}
      BY <1>1, <1>3, <2>1 DEF SpentCredits
    <3>2. p.credit \notin SpentCredits(o)
      BY <2>1 DEF SpentCredits
    <3>3. Cardinality(SpentCredits(o) \cup {p.credit}) = Cardinality(SpentCredits(o)) + 1
      BY <1>6, <3>2, FS_AddElement
    <3> QED
      BY <1>5, <2>1, <3>1, <3>3 DEF ResetsInv, WindowsCounted
  <2>2. CASE o # p.owner
    <3>1. SpentCredits(o)' = SpentCredits(o)
      BY <1>3, <2>2 DEF SpentCredits
    <3> QED
      BY <1>5, <2>2, <3>1 DEF ResetsInv, WindowsCounted
  <2> QED
    BY <2>1, <2>2
<1>8. \A o \in Identities : window'[o] \in R!Window
  <2> TAKE o \in Identities
  <2>1. SpentCredits(o)' \subseteq Credits
    BY DEF SpentCredits
  <2>2. /\ Cardinality(SpentCredits(o)') <= Cardinality(Credits)
        /\ Cardinality(SpentCredits(o)') \in Nat
    BY <2>1, FS_Subset, FS_CardinalityType, ResetsAssumption DEF ResetsAssumption
  <2>3. Cardinality(Credits) \in Nat
    BY FS_CardinalityType, ResetsAssumption DEF ResetsAssumption
  <2> QED
    BY <1>7, <2>2, <2>3, ResetsCardinality DEF R!Window
<1>9. window' \in [Identities -> R!Window]
  BY <1>2, <1>8
<1>10. /\ call' \in R!Call \cup {Nothing}
       /\ call' # Nothing => call # Nothing
       /\ call # Nothing =>
            /\ call'.stage = call.stage /\ call'.owner = call.owner
            /\ call'.credit = call.credit /\ call'.retry = call.retry
            /\ call'.generation = call.generation
            /\ \/ call' = call
               \/ /\ call.stage = "wait" /\ call'.reply = "reset"
                  /\ p.owner = call.owner /\ p.credit = call.credit
  BY ReplyEffect DEF R!Code
<1>11. R!TypeOK'
  BY <1>4, <1>9, <1>10 DEF ResetsInv, R!TypeOK
<1>12. health \in R!Health /\ (health.block # Nothing => health.block \in Nat)
  BY <1>2 DEF ResetsInv, R!TypeOK, R!Health
<1>13. \A o \in Identities :
         /\ health.block # Nothing /\ health.owner = o => health.block <= window'[o]
         /\ health.block # Nothing /\ health.owner = o /\ o = p.owner =>
              health.block < window'[o]
         /\ \A n \in Nat : n < window[o] => n < window'[o]
  <2> TAKE o \in Identities
  <2>1. health.block # Nothing /\ health.owner = o => health.block <= window[o]
    BY DEF ResetsInv, WindowsCounted
  <2> QED
    BY <1>5, <1>12, <2>1
<1>14. WindowsCounted'
  BY <1>7, <1>12, <1>13 DEF WindowsCounted, R!Health
<1>15. CallKnows'
  <2>1. CASE call # Nothing
    <3>1. call \in R!Call
      BY <2>1 DEF ResetsInv, R!TypeOK
    <3>2. call.owner \in Identities /\ call.credit \in Credits
      BY <3>1 DEF R!Call
    <3>3. redeemed[call.owner][call.credit] # Nothing =>
            redeemed'[call.owner][call.credit] # Nothing
      BY <1>1, <1>3, <3>2
    <3>4. CASE call' = call
      BY <1>12, <1>13, <2>1, <3>2, <3>3, <3>4 DEF ResetsInv, CallKnows, BlockedAt
    <3>5. CASE call.stage = "wait" /\ call'.reply = "reset" /\ p.owner = call.owner
      BY <1>10, <1>13, <2>1, <3>2, <3>5 DEF ResetsInv, CallKnows, BlockedAt
    <3> QED
      BY <1>10, <2>1, <3>4, <3>5
  <2> QED
    BY <1>10, <2>1 DEF CallKnows
<1>16. AttemptKnows'
  <2>1. CASE attempt # Nothing
    <3>1. attempt \in R!Attempt
      BY <2>1 DEF ResetsInv, R!TypeOK
    <3>2. attempt.owner \in Identities /\ attempt.credit \in Credits
      BY <3>1 DEF R!Attempt
    <3>3. attempt.generation <= health.generation
      BY <2>1 DEF ResetsInv, AttemptKnows
    <3>4. CASE redeemed[attempt.owner][attempt.credit] # Nothing
      BY <1>12, <1>13, <2>1, <3>2, <3>3, <3>4 DEF ResetsInv, AttemptKnows, BlockedAt
    <3>5. CASE redeemed[attempt.owner][attempt.credit] = Nothing
      BY <1>3, <1>13, <2>1, <3>2, <3>3, <3>5 DEF AttemptKnows, BlockedAt
    <3> QED
      BY <3>4, <3>5
  <2> QED
    BY <2>1 DEF AttemptKnows
<1>17. RoomForLogin'
  BY DEF ResetsInv, RoomForLogin
<1> QED
  BY <1>11, <1>14, <1>15, <1>16, <1>17 DEF ResetsInv

\* A request that arrives redeems its credit once.
LEMMA ArriveKeeps ==
  ASSUME ResetsInv, NEW p \in posts, R!Arrive(p)
  PROVE  ResetsInv'
<1>1. CASE /\ redeemed[p.owner][p.credit] = Nothing
           /\ redeemed' = [redeemed EXCEPT ![p.owner][p.credit] = p.request]
           /\ window' = [window EXCEPT ![p.owner] = @ + 1]
           /\ R!Reply(p, "reset")
  BY <1>1, SpentPostKeeps DEF R!Arrive
<1>2. CASE R!Reply(p, "nothing") /\ UNCHANGED <<redeemed, window>>
  BY <1>2, UnspentPostKeeps DEF R!Arrive
<1>3. CASE /\ redeemed[p.owner][p.credit] # Nothing
           /\ R!Reply(p, "already") /\ UNCHANGED <<redeemed, window>>
  BY <1>3, UnspentPostKeeps DEF R!Arrive
<1> QED
  BY <1>1, <1>2, <1>3 DEF R!Arrive

\* A restart forgets the attempts, and a login changes the owner.
LEMMA IdentityKeeps ==
  ASSUME ResetsInv, R!Restart \/ \E o \in Identities : R!Login(o)
  PROVE  ResetsInv'
<1>1. CASE R!Restart
  <2>1. /\ health' = [owner |-> login, generation |-> 0, block |-> Nothing]
        /\ health' \in R!Health
    BY <1>1, ResetsAssumption DEF R!Restart, R!Health, ResetsInv, R!TypeOK,
       ResetsAssumption
  <2> QED
    BY <1>1, <2>1 DEF R!Restart, ResetsInv, R!TypeOK, RoomForLogin, WindowsCounted,
       SpentCredits, CallKnows, AttemptKnows
<1>2. ASSUME NEW o \in Identities, R!Login(o) PROVE ResetsInv'
  BY <1>2 DEF R!Login, ResetsInv, R!TypeOK, RoomForLogin, WindowsCounted, SpentCredits,
     CallKnows, AttemptKnows, BlockedAt
<1> QED
  BY <1>1, <1>2

\* The invariant of the resets holds after every step of theirs.
LEMMA ResetsStep == ResetsInv /\ [R!Next]_resetVars => ResetsInv'
<1> SUFFICES ASSUME ResetsInv, [R!Next]_resetVars PROVE ResetsInv'
  OBVIOUS
<1>1. CASE UNCHANGED resetVars
  BY <1>1 DEF resetVars, ResetsInv, R!TypeOK, RoomForLogin, WindowsCounted,
              SpentCredits, CallKnows, AttemptKnows, BlockedAt
<1> QED
  BY <1>1, RedeemKeeps, CallMoves, ReserveKeeps, RefusedKeeps, LearnKeeps,
     RejectedKeeps, DropKeeps, ArriveKeeps, IdentityKeeps DEF R!Next

\* The invariant of the resets holds at the start.
LEMMA ResetsStart == R!Init => ResetsInv
<1> SUFFICES ASSUME R!Init PROVE ResetsInv
  OBVIOUS
<1>1. /\ health = [owner |-> login, generation |-> 0, block |-> Nothing]
      /\ login \in Identities /\ attempt = Nothing /\ call = Nothing
      /\ calls = 0 /\ posts = {} /\ unspent = FALSE
      /\ redeemed = [o \in Identities |-> [c \in Credits |-> Nothing]]
      /\ window = [o \in Identities |-> 0]
  BY DEF R!Init
<1>2. 0 \in 0..MaxFailures /\ 0 \in 0..MaxCalls
  BY ResetsAssumption DEF ResetsAssumption
<1>3. 0 \in R!Window
  BY FS_CardinalityType, ResetsCardinality, ResetsAssumption
     DEF ResetsAssumption, R!Window
<1>4. R!TypeOK
  BY <1>1, <1>2, <1>3 DEF R!TypeOK, R!Health
<1>5. \A o \in Identities : SpentCredits(o) = {}
  BY <1>1 DEF SpentCredits
<1>6. WindowsCounted
  BY <1>1, <1>5, FS_EmptySet DEF WindowsCounted
<1> QED
  BY <1>1, <1>4, <1>6 DEF ResetsInv, RoomForLogin, CallKnows, AttemptKnows

\* A step of the whole is one of the resets, or leaves their variables alone.
LEMMA ResetsAlone == [PartsNext]_parts => [R!Next]_resetVars
BY DEF PartsNext, parts, resetVars

\* What a confirmation leaves.
LEMMA ConfirmationSpares ==
  ASSUME ResetsInv, R!Learn, call.reply = "already" => unspent,
         health.block # Nothing, health.owner = login, health.block = window[login]
  PROVE  health'.block = health.block
<1>1. /\ call # Nothing /\ call \in R!Call /\ call.reply \in R!Code
      /\ \/ health' = health
         \/ /\ health' = R!Confirmed(call.owner, R!ConfirmedAsOf)
            /\ call.reply = "reset" \/ (call.retry /\ call.reply = "already")
  BY DEF R!Learn, ResetsInv, R!TypeOK
<1>2. R!Reconciled = health
  BY DEF R!Reconciled
<1>3. health \in R!Health /\ window[login] \in Nat
  BY DEF ResetsInv, R!TypeOK, R!Window
<1>4. ~(health.block < window[login])
  BY <1>3
<1>5. ASSUME call.owner = login, health.generation = R!ConfirmedAsOf,
             call.reply = "reset" \/ (call.retry /\ call.reply = "already")
      PROVE  FALSE
  <2>1. CASE call.reply = "reset"
    BY <1>1, <1>4, <1>5, <2>1 DEF ResetsInv, CallKnows, BlockedAt, R!ConfirmedAsOf
  <2>2. CASE call.retry /\ call.reply = "already"
    <3>1. /\ attempt # Nothing
          /\ attempt.owner = call.owner /\ attempt.credit = call.credit
          /\ redeemed[call.owner][call.credit] # Nothing
      BY <1>1, <2>2 DEF ResetsInv, CallKnows
    <3>2. R!ConfirmedAsOf = attempt.generation
      BY <2>2 DEF R!ConfirmedAsOf
    <3> QED
      BY <1>4, <1>5, <2>2, <3>1, <3>2 DEF ResetsInv, AttemptKnows, BlockedAt
  <2> QED
    BY <1>5, <2>1, <2>2
<1> QED
  BY <1>1, <1>2, <1>5 DEF R!Confirmed

(***************************************************************************)
(* A confirmation lifts no block of the quota's current window, for any    *)
(* number of credits, calls and rejections, unless it confirms an attempt  *)
(* whose credit had been spent before the attempt was kept                 *)
(* (proxy/reset_credits.rs, use_reset_credit; confirm_reset_for_owner).    *)
(* The invariant follows the generation of a quota failure through the     *)
(* attempt that is kept, the call and the request that is on its way.      *)
(***************************************************************************)
THEOREM NewerRejectionStaysAlways ==
  PartsSpec => [](part = "resets" => R!TypeOK) /\ R!NewerRejectionStays
<1> DEFINE Spares ==
      R!Learn /\ (call.reply = "already" => unspent)
        /\ health.block # Nothing /\ health.owner = login
        /\ health.block = window[login] => health'.block = health.block
<1>1. PartsInit => ResetsInv
  BY ResetsStart DEF PartsInit
<1>2. ResetsInv /\ [PartsNext]_parts => ResetsInv'
  BY ResetsStep, ResetsAlone
<1>3. ResetsInv => (part = "resets" => R!TypeOK)
  BY DEF ResetsInv
<1>4. ResetsInv /\ [PartsNext]_parts => [Spares]_(R!vars)
  BY ConfirmationSpares
<1>5. PartsSpec => [](part = "resets" => R!TypeOK) /\ [][Spares]_(R!vars)
  BY <1>1, <1>2, <1>3, <1>4, PTL DEF PartsSpec
<1> QED
  BY <1>5 DEF R!NewerRejectionStays

-----------------------------------------------------------------------------
(* The sweep and the operator.                                             *)

Caller ==
  [stage : {"idle", "credits", "decide", "redeem", "check", "list", "wait"},
   seen : A!Reading \cup {Nothing}, credit : Banked \cup {Nothing},
   request : 1..MaxIds \cup {Nothing}, retry : BOOLEAN, pending : BOOLEAN,
   reply : A!Code \cup {"refused", Nothing}]

\* What a caller knows in the stage it is in.
Informed(x) ==
  /\ x.stage \in {"redeem", "list", "wait"} => x.credit \in Banked /\ x.request \in 1..MaxIds
  /\ x.stage # "wait" => x.reply = Nothing
  /\ x.stage \in {"idle", "credits", "decide"} => x.pending = FALSE

SweepType ==
  /\ A!TypeOK
  /\ proc \in [A!Callers -> Caller]
  /\ proc["operator"].stage \in {"idle", "list", "wait"}
  /\ proc["sweep"].stage # "idle" => proc["sweep"].seen \in A!Reading
  /\ \A p \in A!Callers : Informed(proc[p])

\* Who holds the usage lock.
Locks == \A p \in A!Callers : proc[p].stage \in {"credits", "list", "wait"} <=> lock = p

Unresolved == standing # Nothing /\ standing.result = Nothing

\* The attempt is what x was sent with.
Sends(x) == standing.credit = x.credit /\ standing.request = x.request

\* A caller that holds the lock retries the attempt, makes it, or waits for it.
Holds(x) ==
  /\ x.stage = "list" => IF x.retry THEN Unresolved /\ Sends(x) ELSE ~Unresolved
  /\ x.stage = "wait" =>
       /\ Unresolved /\ Sends(x)
       /\ x.reply \in {"reset", "already"} => bought[x.credit] # Nothing

\* An order on which somebody waits is one of the attempt.
Awaited(q) ==
  q.caller # Nothing =>
    /\ proc[q.caller].stage = "wait" /\ proc[q.caller].reply = Nothing
    /\ standing # Nothing /\ Sends(q) /\ standing.on = q.on

Bought(w) == \E c \in Banked : bought[c] # Nothing /\ bought[c].on = w

\* Numbers grow: those of the windows and those of the requests.
Ordered ==
  /\ standing # Nothing =>
       standing.request <= numbered /\ (standing.on # Nothing => standing.on <= quota.number)
  /\ \A q \in orders : q.on # Nothing => q.on <= quota.number
  /\ \A c \in Banked :
       bought[c] # Nothing /\ bought[c].on # Nothing => bought[c].on < quota.number
  /\ proc["sweep"].stage # "idle" => proc["sweep"].seen.number <= quota.number
  /\ \A p \in A!Callers :
       proc[p].stage \in {"redeem", "list", "wait"} => proc[p].request <= numbered

\* An order for a window that was read is the attempt's, or comes too late.
Late(q) ==
  q.on # Nothing =>
    bought[q.credit] # Nothing \/ (Unresolved /\ Sends(q) /\ standing.on = q.on)

\* What buys the window of an attempt that has no outcome is its own credit.
AttemptBuys ==
  Unresolved /\ standing.on # Nothing =>
    \A c \in Banked : bought[c] # Nothing /\ bought[c].on = standing.on => c = standing.credit

\* The sweep decides on a window that is not bought, unless the attempt that
\* bought it still stands in its way.
Decides(x) ==
  /\ x.stage = "redeem" /\ x.pending => Unresolved /\ Sends(x)
  /\ x.stage = "redeem" /\ ~x.pending => ~A!Kept(x.request)
  /\ \/ x.stage \in {"credits", "decide"}
     \/ x.stage = "redeem" /\ ~x.pending
     => (Bought(x.seen.number) => Unresolved)
  /\ x.stage = "list" /\ ~x.retry => ~Bought(x.seen.number)

Alone == proc["sweep"].stage # "idle" => proc["operator"].stage = "idle"

\* No two credits for one window.
OneEach ==
  \A c, d \in Banked :
    /\ bought[c] # Nothing /\ bought[d] # Nothing
    /\ bought[c].on # Nothing /\ bought[c].on = bought[d].on
    => c = d

Sparing ==
  /\ Alone /\ Ordered
  /\ \A q \in orders : Late(q)
  /\ AttemptBuys /\ Decides(proc["sweep"])
  /\ OneEach

SweepRules ==
  /\ Locks
  /\ \A p \in A!Callers : Holds(proc[p])
  /\ \A q \in orders : Awaited(q)

SweepInv == SweepType /\ SweepRules /\ (excused \/ Sparing)

-----------------------------------------------------------------------------

\* One more element is in the set with it.
LEMMA OneMore ==
  ASSUME NEW some, NEW n, NEW y, y \in some \/ y = n
  PROVE  y \in some \cup {n}
OBVIOUS

\* There are two callers.
LEMMA TwoCallers == A!Callers = {"sweep", "operator"}
BY DEF A!Callers

\* A caller that is idle holds nothing and knows nothing.
LEMMA IdleCaller ==
  /\ A!Idle \in Caller /\ A!Idle.stage = "idle" /\ A!Idle.reply = Nothing
  /\ Informed(A!Idle) /\ Holds(A!Idle)
BY DEF A!Idle, Caller, Informed, Holds

\* One caller moves, the other does not.
LEMMA CallerMoves ==
  ASSUME SweepType, NEW p \in A!Callers, NEW x \in Caller,
         proc' = [proc EXCEPT ![p] = x]
  PROVE  /\ proc' \in [A!Callers -> Caller]
         /\ proc'[p] = x
         /\ \A o \in A!Callers \ {p} : proc'[o] = proc[o]
BY DEF SweepType

\* The sweep goes on by itself: nothing is sent and no outcome is learnt.
LEMMA SweepMoves ==
  ASSUME SweepInv, NEW x \in Caller,
         proc' = [proc EXCEPT !["sweep"] = x],
         UNCHANGED <<bought, orders, standing, quota, excused>>,
         listed' \in (SUBSET Banked) \cup {Nothing},
         numbered' \in 0..MaxIds, numbered <= numbered',
         proc["sweep"].stage # "wait", x.stage # "wait", Informed(x), Holds(x),
         x.stage # "idle" => x.seen \in A!Reading,
         IF x.stage \in {"credits", "list"} THEN lock \in {Nothing, "sweep"} /\ lock' = "sweep"
         ELSE lock' = IF lock = "sweep" THEN Nothing ELSE lock,
         Sparing => /\ x.stage # "idle" => /\ proc["operator"].stage = "idle"
                                           /\ x.seen.number <= quota.number
                    /\ x.stage \in {"redeem", "list"} => x.request <= numbered'
                    /\ Decides(x)
  PROVE  SweepInv'
<1>1. /\ proc' \in [A!Callers -> Caller]
      /\ proc'["sweep"] = x /\ proc'["operator"] = proc["operator"]
  BY CallerMoves, TwoCallers DEF SweepInv
<1>2. lock' \in A!Callers \cup {Nothing}
  BY TwoCallers DEF SweepInv, SweepType, A!TypeOK
<1>3. SweepType'
  BY <1>1, <1>2, TwoCallers DEF SweepInv, SweepType, A!TypeOK, Informed
<1>4. Locks'
  <2>1. Nothing \notin {"sweep", "operator"}
    BY TwoCallers, SweepAssumption DEF SweepAssumption
  <2> QED
    BY <1>1, <2>1, TwoCallers DEF SweepInv, SweepRules, Locks
<1>5. \A p \in A!Callers : Holds(proc[p])'
  BY <1>1, TwoCallers DEF SweepInv, SweepRules, Holds, Unresolved, Sends
<1>6. \A q \in orders' : Awaited(q)'
  <2> SUFFICES ASSUME NEW q \in orders, q.caller # Nothing
               PROVE  Awaited(q)'
    BY DEF Awaited
  <2>1. Awaited(q) /\ q.caller \in A!Callers
    BY DEF SweepInv, SweepRules, SweepType, A!TypeOK, A!Post
  <2> QED
    BY <1>1, <2>1, TwoCallers DEF Awaited, Sends
<1>7. ASSUME Sparing PROVE Sparing'
  <2>1. Alone' /\ Ordered'
    <3>1. Alone'
      BY <1>1, <1>7 DEF Alone
    <3>2. standing # Nothing => standing.request <= numbered'
      BY <1>7 DEF SweepInv, SweepType, A!TypeOK, A!Attempt, Sparing, Ordered
    <3>3. \A p \in A!Callers :
            proc'[p].stage \in {"redeem", "list", "wait"} => proc'[p].request <= numbered'
      <4>1. ASSUME proc["operator"].stage \in {"redeem", "list", "wait"}
            PROVE  proc["operator"].request <= numbered'
        BY <1>7, <4>1, TwoCallers DEF SweepInv, SweepType, Informed, A!TypeOK, Sparing, Ordered
      <4> QED
        BY <1>1, <1>7, <4>1, TwoCallers
    <3> QED
      BY <1>1, <1>7, <3>1, <3>2, <3>3 DEF Sparing, Ordered
  <2>2. (\A q \in orders : Late(q))' /\ AttemptBuys' /\ OneEach'
    BY <1>7 DEF Sparing, Late, AttemptBuys, Unresolved, Sends, OneEach
  <2>3. Decides(proc["sweep"])'
    BY <1>1, <1>7 DEF Decides, Unresolved, Sends, Bought, A!Kept
  <2> QED
    BY <2>1, <2>2, <2>3 DEF Sparing
<1> QED
  BY <1>3, <1>4, <1>5, <1>6, <1>7 DEF SweepInv, SweepRules

\* What the invariant says of the sweep in the stage it is in.
LEMMA SweepIs ==
  ASSUME SweepInv
  PROVE  /\ proc["sweep"] \in Caller /\ Informed(proc["sweep"]) /\ Holds(proc["sweep"])
         /\ proc["sweep"].stage # "idle" => proc["sweep"].seen \in A!Reading
         /\ quota \in A!Reading /\ numbered \in 0..MaxIds /\ MaxIds \in Nat
         /\ standing # Nothing => standing \in A!Attempt
         /\ listed \in (SUBSET Banked) \cup {Nothing}
         /\ lock \in {"sweep", "operator", Nothing}
         /\ proc["sweep"].stage \in {"credits", "list", "wait"} <=> lock = "sweep"
         /\ proc["operator"].stage \in {"idle", "list", "wait"}
         /\ proc["operator"].stage \in {"list", "wait"} <=> lock = "operator"
BY TwoCallers, SweepAssumption
   DEF SweepInv, SweepType, SweepRules, Locks, A!TypeOK, SweepAssumption

\* The sweep comes to rest, or looks for an earlier attempt.
LEMMA SweepRests ==
  ASSUME SweepInv, NEW x \in {A!Idle, [proc["sweep"] EXCEPT !.stage = "check", !.reply = Nothing]},
         proc["sweep"].stage \notin {"idle", "wait"},
         proc' = [proc EXCEPT !["sweep"] = x],
         UNCHANGED <<bought, orders, standing, quota, numbered, excused>>,
         listed' \in (SUBSET Banked) \cup {Nothing},
         lock' = IF lock = "sweep" THEN Nothing ELSE lock
  PROVE  SweepInv'
<1> DEFINE checks == [proc["sweep"] EXCEPT !.stage = "check", !.reply = Nothing]
<1>1. /\ checks \in Caller /\ checks.stage = "check" /\ checks.reply = Nothing
      /\ checks.seen = proc["sweep"].seen
  BY SweepIs DEF Caller
<1> HIDE DEF checks
<1>2. /\ x \in Caller /\ x.stage \in {"idle", "check"} /\ x.reply = Nothing
      /\ x.stage # "idle" => x.seen = proc["sweep"].seen
      /\ x.stage = "idle" => x.pending = FALSE
  <2>1. A!Idle.pending = FALSE
    BY DEF A!Idle
  <2> QED
    BY <1>1, <2>1, IdleCaller DEF checks
<1>3. Informed(x) /\ Holds(x) /\ Decides(x)
  BY <1>2 DEF Informed, Holds, Decides
<1>4. x.stage # "idle" => x.seen \in A!Reading
  BY <1>2, SweepIs
<1>5. Sparing => (x.stage # "idle" =>
        proc["operator"].stage = "idle" /\ x.seen.number <= quota.number)
  BY <1>2 DEF Sparing, Alone, Ordered
<1>6. numbered' \in 0..MaxIds /\ numbered <= numbered'
  BY SweepIs
<1> QED
  BY <1>2, <1>3, <1>4, <1>5, <1>6, SweepMoves

\* Readings of the usage and of the credits keep the invariant.
LEMMA ReadingKeeps ==
  ASSUME SweepInv, A!ReadUsage \/ A!ReadCredits \/ A!ReadFails \/ A!ReadStatus
  PROVE  SweepInv'
<1> DEFINE m == proc["sweep"]
           reads == [m EXCEPT !.stage = "credits", !.seen = quota]
           lists == [m EXCEPT !.stage = "decide"]
<1>1. /\ reads \in Caller /\ reads.stage = "credits" /\ reads.seen = quota
      /\ reads.reply = m.reply
      /\ lists \in Caller /\ lists.stage = "decide" /\ lists.seen = m.seen
      /\ lists.reply = m.reply /\ reads.pending = m.pending /\ lists.pending = m.pending
  BY SweepIs DEF Caller
<1>2. proc \in [A!Callers -> Caller]
  BY DEF SweepInv, SweepType
<1>3. A!Listed => listed' \in (SUBSET Banked) \cup {Nothing}
  <2>1. A!Unspent \in SUBSET Banked
    BY DEF A!Unspent
  <2> HIDE DEF A!Unspent
  <2>2. A!Listed => listed' \in SUBSET Banked \/ listed' = Nothing
    BY <2>1 DEF A!Listed
  <2> QED
    BY <2>2, OneMore
<1>4. CASE A!ReadUsage
  <2>1. proc' = [proc EXCEPT !["sweep"] = reads]
    BY <1>2, <1>4, TwoCallers DEF A!ReadUsage
  <2>2. /\ m.stage = "idle" /\ lock = Nothing /\ lock' = "sweep"
        /\ UNCHANGED <<bought, orders, standing, quota, numbered, excused, listed>>
    BY <1>4 DEF A!ReadUsage, A!At, A!providerVars
  <2> HIDE DEF reads
  <2>3. Informed(reads) /\ Holds(reads)
    BY <1>1, <2>2, SweepIs DEF Informed, Holds
  <2>4. ASSUME Sparing PROVE Decides(reads) /\ proc["operator"].stage = "idle"
    <3>1. ~Bought(quota.number)
      BY <2>4, SweepIs, SweepAssumption
         DEF Sparing, Ordered, Bought, A!Reading, SweepAssumption
    <3>2. proc["operator"].stage = "idle"
      BY <2>2, SweepIs, SweepAssumption, TwoCallers DEF SweepAssumption
    <3> QED
      BY <1>1, <3>1, <3>2 DEF Decides
  <2>5. reads.seen.number <= quota.number /\ numbered <= numbered' /\ numbered' \in 0..MaxIds
    BY <1>1, <2>2, SweepIs DEF A!Reading
  <2> QED
    BY <1>1, <2>1, <2>2, <2>3, <2>4, <2>5, SweepIs, SweepMoves
<1>5. CASE A!ReadCredits
  <2>1. proc' = [proc EXCEPT !["sweep"] = lists]
    BY <1>2, <1>5, TwoCallers DEF A!ReadCredits, A!To
  <2>2. /\ m.stage = "credits" /\ lock = "sweep" /\ lock' = Nothing
        /\ listed' \in (SUBSET Banked) \cup {Nothing}
        /\ UNCHANGED <<bought, orders, standing, quota, numbered, excused>>
    BY <1>3, <1>5, SweepIs DEF A!ReadCredits, A!At, A!providerVars
  <2> HIDE DEF lists
  <2>3. Informed(lists) /\ Holds(lists)
    BY <1>1, <2>2, SweepIs DEF Informed, Holds
  <2>4. ASSUME Sparing
        PROVE  /\ Decides(lists) /\ proc["operator"].stage = "idle"
               /\ lists.seen.number <= quota.number
    BY <1>1, <2>2, <2>4 DEF Sparing, Alone, Ordered, Decides
  <2>5. numbered <= numbered' /\ numbered' \in 0..MaxIds
    BY <2>2, SweepIs
  <2> QED
    BY <1>1, <2>1, <2>2, <2>3, <2>4, <2>5, SweepIs, SweepMoves
<1>6. CASE A!ReadFails
  <2>1. /\ m.stage = "credits" /\ lock = "sweep" /\ lock' = Nothing
        /\ proc' = [proc EXCEPT !["sweep"] = A!Idle]
        /\ UNCHANGED <<bought, orders, standing, quota, numbered, excused, listed>>
    BY <1>6, SweepIs DEF A!ReadFails, A!Rest, A!At, A!providerVars
  <2> QED
    BY <2>1, SweepIs, SweepRests
<1>7. CASE A!ReadStatus
  <2>1. /\ m.stage = "decide" /\ lock = Nothing /\ UNCHANGED <<lock, proc>>
        /\ listed' \in (SUBSET Banked) \cup {Nothing}
        /\ UNCHANGED <<bought, orders, standing, quota, numbered, excused>>
    BY <1>3, <1>7 DEF A!ReadStatus, A!At, A!providerVars
  <2>2. proc' = [proc EXCEPT !["sweep"] = m]
    BY <1>2, <2>1
  <2>3. lock' = IF lock = "sweep" THEN Nothing ELSE lock
    BY <2>1
  <2>4. numbered <= numbered' /\ numbered' \in 0..MaxIds
    BY <2>1, SweepIs
  <2>5. Sparing => /\ Decides(m) /\ proc["operator"].stage = "idle"
                   /\ m.seen.number <= quota.number
    BY <2>1 DEF Sparing, Alone, Ordered
  <2> QED
    BY <2>1, <2>2, <2>3, <2>4, <2>5, SweepIs, SweepMoves
<1> QED
  BY <1>4, <1>5, <1>6, <1>7

\* The sweep decides on a window that is not bought, or is refused later.
LEMMA DecideKeeps ==
  ASSUME SweepInv, A!Decide
  PROVE  SweepInv'
<1> DEFINE m == proc["sweep"]
<1>1. PICK c \in Banked :
        /\ numbered < MaxIds
        /\ numbered' = numbered + 1
        /\ proc' = [proc EXCEPT !["sweep"].stage = "redeem",
                      !["sweep"].credit = c, !["sweep"].request = numbered + 1]
  BY DEF A!Decide
<1> DEFINE x == [m EXCEPT !.stage = "redeem", !.credit = c, !.request = numbered + 1]
<1>2. proc' = [proc EXCEPT !["sweep"] = x]
  BY <1>1, TwoCallers DEF SweepInv, SweepType
<1>3. /\ m.stage = "decide" /\ listed' = Nothing /\ lock \in {"operator", Nothing}
      /\ lock' = lock
      /\ UNCHANGED <<bought, orders, standing, quota, excused>>
  BY SweepIs DEF A!Decide, A!At, A!providerVars
<1>4. numbered + 1 \in 1..MaxIds /\ numbered' \in 0..MaxIds /\ numbered <= numbered'
  BY <1>1, SweepIs
<1>5. /\ x \in Caller /\ x.stage = "redeem" /\ x.seen = m.seen /\ x.credit = c
      /\ x.request = numbered + 1 /\ x.pending = m.pending /\ x.reply = m.reply
  BY <1>4, SweepIs DEF Caller
<1> HIDE DEF x
<1>6. Informed(x) /\ Holds(x)
  BY <1>3, <1>4, <1>5, SweepIs DEF Informed, Holds
<1>7. ASSUME Sparing
      PROVE  /\ proc["operator"].stage = "idle" /\ x.seen.number <= quota.number
             /\ x.request <= numbered'
  BY <1>1, <1>3, <1>4, <1>5, <1>7 DEF Sparing, Alone, Ordered
<1>8. ASSUME Sparing PROVE Decides(x)
  <2>1. ~A!Kept(x.request)
    <3> SUFFICES ASSUME standing # Nothing PROVE standing.request # numbered + 1
      BY <1>5 DEF A!Kept
    <3>1. standing.request <= numbered /\ standing.request \in 1..MaxIds /\ numbered \in Nat
      BY <1>8, SweepIs DEF Sparing, Ordered, A!Attempt
    <3> QED
      BY <3>1
  <2>2. m.pending = FALSE
    BY <1>3, SweepIs DEF Informed
  <2>3. Bought(m.seen.number) => Unresolved
    BY <1>3, <1>8 DEF Sparing, Decides
  <2> QED
    BY <1>5, <2>1, <2>2, <2>3 DEF Decides
<1>9. lock' = IF lock = "sweep" THEN Nothing ELSE lock
  BY <1>3
<1>10. listed' \in (SUBSET Banked) \cup {Nothing}
  BY <1>3, OneMore
<1>11. x.seen \in A!Reading
  BY <1>3, <1>5, SweepIs
<1>12. Sparing => /\ x.stage # "idle" => /\ proc["operator"].stage = "idle"
                                          /\ x.seen.number <= quota.number
                  /\ x.stage \in {"redeem", "list"} => x.request <= numbered'
                  /\ Decides(x)
  BY <1>7, <1>8
<1>13. IF x.stage \in {"credits", "list"} THEN lock \in {Nothing, "sweep"} /\ lock' = "sweep"
       ELSE lock' = IF lock = "sweep" THEN Nothing ELSE lock
  BY <1>5, <1>9
<1>14. /\ x.stage # "wait" /\ proc["sweep"].stage # "wait"
       /\ x.stage # "idle" => x.seen \in A!Reading
  BY <1>3, <1>5, <1>11
<1>15. UNCHANGED <<bought, orders, standing, quota, excused>>
  BY <1>3
<1>16. x \in Caller /\ Informed(x) /\ Holds(x)
  BY <1>5, <1>6
<1>17. numbered' \in 0..MaxIds /\ numbered <= numbered'
  BY <1>4
<1> HIDE DEF m
<1> QED
  BY <1>2, <1>17, <1>10, <1>12, <1>13, <1>14, <1>15, <1>16, SweepMoves
\* The sweep lets it be, is refused, or is answered from memory.
LEMMA RefrainKeeps ==
  ASSUME SweepInv, A!Refrain \/ A!Refuse \/ A!Replay
  PROVE  SweepInv'
<1> DEFINE m == proc["sweep"]
           checks == [m EXCEPT !.stage = "check", !.reply = Nothing]
<1>1. proc \in [A!Callers -> Caller] /\ lock \in {"sweep", "operator", Nothing}
  BY SweepIs DEF SweepInv, SweepType
<1>2. /\ m.stage \in {"decide", "redeem"} /\ lock # "sweep"
      /\ lock' = lock /\ listed' \in (SUBSET Banked) \cup {Nothing}
      /\ UNCHANGED <<bought, orders, standing, quota, numbered, excused>>
  <2>1. /\ m.stage \in {"decide", "redeem"} /\ lock' = lock
        /\ listed' = Nothing \/ listed' = listed
        /\ UNCHANGED <<bought, orders, standing, quota, numbered, excused>>
    BY DEF A!Refrain, A!Refuse, A!Replay, A!At, A!providerVars
  <2> QED
    BY <2>1, SweepIs, OneMore
<1>3. A!Refuse => \/ proc' = [proc EXCEPT !["sweep"] = A!Idle]
                  \/ proc' = [proc EXCEPT !["sweep"].stage = "check",
                                          !["sweep"].reply = Nothing]
  BY DEF A!Refuse, A!Erred
<1>4. \/ proc' = [proc EXCEPT !["sweep"] = A!Idle]
      \/ proc' = [proc EXCEPT !["sweep"] = checks]
  BY <1>1, <1>3, TwoCallers DEF A!Refrain, A!Replay, A!Rest
<1> QED
  BY <1>1, <1>2, <1>4, SweepRests

\* The sweep enters its call.
LEMMA SweepRedeemKeeps ==
  ASSUME SweepInv, A!Redeem
  PROVE  SweepInv'
<1> DEFINE m == proc["sweep"]
           x == [m EXCEPT !.stage = "list", !.credit = m.credit, !.request = m.request,
                          !.retry = A!Kept(m.request)]
<1>1. /\ m.stage = "redeem" /\ lock = Nothing /\ lock' = "sweep"
      /\ ~A!Uncertain(m.request)
      /\ A!Kept(m.request) => standing.credit = m.credit /\ standing.result = Nothing
      /\ UNCHANGED <<bought, orders, standing, quota, numbered, excused, listed>>
  BY DEF A!Redeem, A!Enter, A!At, A!providerVars, A!Mine
<1>2. proc' = [proc EXCEPT !["sweep"] = x]
  BY TwoCallers DEF SweepInv, SweepType, A!Redeem, A!Enter, A!Mine
<1>3. A!Kept(m.request) \in BOOLEAN
  BY DEF A!Kept
<1>4. /\ x \in Caller /\ x.stage = "list" /\ x.seen = m.seen /\ x.credit = m.credit
      /\ x.request = m.request /\ x.pending = m.pending /\ x.reply = m.reply
      /\ x.retry = A!Kept(m.request)
  BY <1>3, SweepIs DEF Caller
<1> HIDE DEF x
<1>5. A!Kept(m.request) => Unresolved /\ Sends(x)
  BY <1>1, <1>4 DEF A!Kept, Unresolved, Sends
<1>6. ~A!Kept(m.request) => ~Unresolved
  BY <1>1 DEF A!Kept, A!Uncertain, Unresolved
<1>7. Informed(x) /\ Holds(x)
  BY <1>1, <1>4, <1>5, <1>6, SweepIs DEF Informed, Holds
<1>8. ASSUME Sparing
      PROVE  /\ proc["operator"].stage = "idle" /\ x.seen.number <= quota.number
             /\ x.request <= numbered /\ Decides(x)
  <2>1. ASSUME ~A!Kept(m.request) PROVE ~Bought(m.seen.number)
    <3>1. ~(Unresolved /\ Sends(m))
      BY <2>1 DEF A!Kept, Unresolved, Sends
    <3> QED
      BY <1>1, <1>6, <1>8, <2>1, <3>1 DEF Sparing, Decides, Caller
  <2>2. Decides(x)
    BY <1>4, <2>1 DEF Decides
  <2> QED
    BY <1>1, <1>4, <1>8, <2>2, TwoCallers DEF Sparing, Alone, Ordered
<1>9. /\ x.stage # "idle" => x.seen \in A!Reading
      /\ numbered' \in 0..MaxIds /\ numbered <= numbered'
  BY <1>1, <1>4, SweepIs
<1> HIDE DEF m
<1> QED
  BY <1>1, <1>2, <1>4, <1>7, <1>8, <1>9, SweepIs, SweepMoves DEF m

\* The sweep takes up an earlier attempt.
LEMMA PendingKeeps ==
  ASSUME SweepInv, A!Pending
  PROVE  SweepInv'
<1> DEFINE m == proc["sweep"]
           x == [m EXCEPT !.stage = "redeem", !.pending = TRUE, !.credit = standing.credit,
                          !.request = standing.request]
<1>1. /\ m.stage = "check" /\ lock # "sweep" /\ lock' = lock
      /\ UNCHANGED <<bought, orders, standing, quota, numbered, excused, listed>>
  BY SweepIs DEF A!Pending, A!At, A!providerVars
<1>2. CASE proc' = [proc EXCEPT !["sweep"] = A!Idle]
  BY <1>1, <1>2, SweepIs, SweepRests
<1>3. CASE Unresolved /\ proc' = [proc EXCEPT !["sweep"] = x]
  <2>1. standing \in A!Attempt /\ standing.credit \in Banked /\ standing.request \in 1..MaxIds
    BY <1>3, SweepIs DEF Unresolved, A!Attempt
  <2>2. /\ x \in Caller /\ x.stage = "redeem" /\ x.seen = m.seen /\ x.credit = standing.credit
        /\ x.request = standing.request /\ x.pending = TRUE /\ x.reply = m.reply
    BY <2>1, SweepIs DEF Caller
  <2> HIDE DEF x
  <2>3. Informed(x) /\ Holds(x)
    BY <1>1, <2>1, <2>2, SweepIs DEF Informed, Holds
  <2>4. ASSUME Sparing
        PROVE  /\ proc["operator"].stage = "idle" /\ x.seen.number <= quota.number
               /\ x.request <= numbered /\ Decides(x)
    BY <1>1, <1>3, <2>2, <2>4 DEF Sparing, Alone, Ordered, Decides, Unresolved, Sends
  <2>5. /\ x.stage # "idle" => x.seen \in A!Reading
        /\ numbered' \in 0..MaxIds /\ numbered <= numbered'
    BY <1>1, <2>2, SweepIs
  <2> QED
    BY <1>1, <1>3, <2>2, <2>3, <2>4, <2>5, SweepIs, SweepMoves
<1>4. \/ proc' = [proc EXCEPT !["sweep"] = A!Idle]
      \/ Unresolved /\ proc' = [proc EXCEPT !["sweep"] = x]
  BY TwoCallers DEF A!Pending, A!Rest, Unresolved, SweepInv, SweepType
<1> QED
  BY <1>2, <1>3, <1>4

\* Quota that is used, or renewed, is none that is bought.
LEMMA PassKeeps ==
  ASSUME SweepInv, A!Pass
  PROVE  SweepInv'
<1>1. /\ quota' \in A!Reading /\ quota.number <= quota'.number
      /\ quota.number \in Nat /\ quota'.number \in Nat
  <2>1. quota \in [number : 0..MaxWindows, used : 0..2] /\ MaxWindows \in Nat
    BY SweepIs, SweepAssumption DEF A!Reading, A!Full, SweepAssumption
  <2>2. CASE quota.used < 2 /\ quota' = [quota EXCEPT !.used = @ + 1]
    BY <2>1, <2>2 DEF A!Reading, A!Full
  <2>3. CASE quota.number < MaxWindows /\ quota' = [number |-> quota.number + 1, used |-> 0]
    BY <2>1, <2>3 DEF A!Reading, A!Full
  <2> QED
    BY <2>2, <2>3 DEF A!Pass, A!Full
<1>2. UNCHANGED <<bought, orders, standing, listed, lock, proc, numbered, excused>>
  BY DEF A!Pass
<1>3. SweepType'
  BY <1>1, <1>2 DEF SweepInv, SweepType, A!TypeOK, Informed
<1>4. SweepRules'
  BY <1>2 DEF SweepInv, SweepRules, Locks, Holds, Awaited, Unresolved, Sends
<1>5. ASSUME Sparing PROVE Sparing'
  <2>1. Ordered'
    <3>1. \A n \in 0..MaxWindows : /\ n <= quota.number => n <= quota'.number
                                   /\ n < quota.number => n < quota'.number
      BY <1>1
    <3>2. standing # Nothing => standing.on \in 0..MaxWindows \cup {Nothing}
      BY SweepIs DEF A!Attempt
    <3>3. \A q \in orders : q.on \in 0..MaxWindows \cup {Nothing}
      BY DEF SweepInv, SweepType, A!TypeOK, A!Post
    <3>4. \A c \in Banked : bought[c] # Nothing => bought[c].on \in 0..MaxWindows \cup {Nothing}
      BY DEF SweepInv, SweepType, A!TypeOK, A!Post
    <3>5. proc["sweep"].stage # "idle" => proc["sweep"].seen.number \in 0..MaxWindows
      BY SweepIs DEF A!Reading
    <3> QED
      BY <1>2, <1>5, <3>1, <3>2, <3>3, <3>4, <3>5 DEF Sparing, Ordered
  <2> QED
    BY <1>2, <1>5, <2>1
       DEF Sparing, Alone, Late, AttemptBuys, Decides, Unresolved, Sends, Bought, A!Kept,
           OneEach
<1> QED
  BY <1>2, <1>3, <1>4, <1>5 DEF SweepInv

\* A caller in its call holds the lock, and is the only one that waits.
LEMMA CallerHolds ==
  ASSUME SweepInv, NEW p \in A!Callers, proc[p].stage \in {"list", "wait"}
  PROVE  /\ lock = p /\ p # Nothing
         /\ proc[p] \in Caller /\ Informed(proc[p]) /\ Holds(proc[p])
         /\ \A o \in A!Callers \ {p} : proc[o].stage \notin {"credits", "list", "wait"}
         /\ \A q \in orders : q.caller \in {p, Nothing}
         /\ Sparing => /\ p = "sweep" => proc["operator"].stage = "idle"
                       /\ p = "operator" => proc["sweep"].stage = "idle"
<1>1. lock = p /\ p # Nothing
  BY TwoCallers, SweepAssumption DEF SweepInv, SweepRules, Locks, SweepAssumption
<1>2. \A o \in A!Callers \ {p} : proc[o].stage \notin {"credits", "list", "wait"}
  BY <1>1 DEF SweepInv, SweepRules, Locks
<1>3. \A q \in orders : q.caller \in {p, Nothing}
  BY <1>2 DEF SweepInv, SweepRules, Awaited, SweepType, A!TypeOK, A!Post
<1>4. Sparing => /\ p = "sweep" => proc["operator"].stage = "idle"
                 /\ p = "operator" => proc["sweep"].stage = "idle"
  BY DEF Sparing, Alone
<1> QED
  BY <1>1, <1>2, <1>3, <1>4 DEF SweepInv, SweepRules, SweepType

\* The caller p moves to x within its call, or leaves it.
LEMMA CallerGoesOn ==
  ASSUME SweepInv, NEW p \in A!Callers, NEW x \in Caller,
         proc' = [proc EXCEPT ![p] = x], Informed(x), A!TypeOK',
         proc[p].stage \in {"list", "wait"}, x.stage \in {"idle", "check", "wait"},
         p = "operator" => x.stage # "check",
         x.stage # "idle" => x.seen = proc[p].seen,
         lock' = IF x.stage = "wait" THEN p ELSE Nothing,
         Holds(x)', \A q \in orders' : Awaited(q)'
  PROVE  SweepType' /\ SweepRules'
<1>1. /\ proc' \in [A!Callers -> Caller] /\ proc'[p] = x
      /\ \A o \in A!Callers \ {p} : proc'[o] = proc[o]
  BY CallerMoves DEF SweepInv
<1>2. SweepType'
  <2>1. p = "sweep" => proc[p].seen \in A!Reading
    BY SweepIs
  <2> QED
    BY <1>1, <2>1, TwoCallers DEF SweepInv, SweepType, Informed
<1>3. Locks'
  <2>1. \A o \in A!Callers : o # Nothing
    BY SweepAssumption DEF SweepAssumption
  <2>2. proc'[p].stage \in {"credits", "list", "wait"} <=> lock' = p
    BY <1>1, <2>1
  <2>3. ASSUME NEW o \in A!Callers \ {p}
        PROVE  proc'[o].stage \notin {"credits", "list", "wait"} /\ lock' # o
    BY <1>1, <2>1, CallerHolds
  <2> QED
    BY <2>2, <2>3 DEF Locks
<1>4. \A o \in A!Callers : Holds(proc[o])'
  BY <1>1, CallerHolds DEF Holds
<1> QED
  BY <1>2, <1>3, <1>4 DEF SweepRules

\* What is left of the rules when the caller p moves within its call or leaves it.
LEMMA CallSpares ==
  ASSUME SweepInv, NEW p \in A!Callers, NEW x \in Caller,
         proc' = [proc EXCEPT ![p] = x], Sparing,
         proc[p].stage \in {"list", "wait"}, x.stage \in {"idle", "check", "wait"},
         p = "operator" => x.stage # "check",
         x.stage # "idle" => x.seen = proc[p].seen /\ x.request = proc[p].request,
         UNCHANGED <<bought, quota, numbered>>,
         standing' # Nothing =>
           /\ standing'.request <= numbered
           /\ standing'.on # Nothing => standing'.on <= quota.number,
         \A q \in orders' : (q.on # Nothing => q.on <= quota.number) /\ Late(q)',
         AttemptBuys'
  PROVE  Sparing'
<1>1. /\ proc' \in [A!Callers -> Caller] /\ proc'[p] = x
      /\ \A o \in A!Callers \ {p} : proc'[o] = proc[o]
  BY CallerMoves DEF SweepInv
<1>2. Alone'
  BY <1>1, CallerHolds, TwoCallers DEF Alone
<1>3. Ordered'
  <2>1. \A o \in A!Callers :
          proc'[o].stage \in {"redeem", "list", "wait"} => proc'[o].request <= numbered
    BY <1>1 DEF Sparing, Ordered
  <2>2. proc'["sweep"].stage # "idle" => proc'["sweep"].seen.number <= quota.number
    BY <1>1, CallerHolds, TwoCallers DEF Sparing, Ordered
  <2> QED
    BY <2>1, <2>2 DEF Sparing, Ordered
<1>4. Decides(proc["sweep"])'
  BY <1>1, CallerHolds, TwoCallers DEF Decides
<1>5. OneEach'
  BY DEF Sparing, OneEach
<1> QED
  BY <1>2, <1>3, <1>4, <1>5 DEF Sparing

\* The operator enters its call, which may excuse a second reset.
LEMMA SweepAskKeeps ==
  ASSUME SweepInv, NEW c \in Banked, NEW request \in 1..MaxIds, A!Ask(c, request)
  PROVE  SweepInv'
<1> DEFINE o == proc["operator"]
           x == [o EXCEPT !.stage = "list", !.credit = c, !.request = request,
                          !.retry = A!Kept(request)]
<1>1. /\ o.stage = "idle" /\ lock = Nothing /\ lock' = "operator"
      /\ ~A!Uncertain(request)
      /\ A!Kept(request) => standing.credit = c /\ standing.result = Nothing
      /\ numbered' = IF request > numbered THEN request ELSE numbered
      /\ excused' = (excused \/ A!Mine.stage \in {"decide", "redeem", "check"})
      /\ UNCHANGED <<bought, orders, standing, quota, listed>>
  BY DEF A!Ask, A!Enter, A!At, A!providerVars
<1>2. proc' = [proc EXCEPT !["operator"] = x]
  BY TwoCallers DEF SweepInv, SweepType, A!Ask, A!Enter
<1>3. A!Kept(request) \in BOOLEAN /\ o \in Caller /\ Informed(o)
  BY TwoCallers DEF A!Kept, SweepInv, SweepType
<1>4. /\ x \in Caller /\ x.stage = "list" /\ x.credit = c
      /\ x.request = request /\ x.reply = o.reply /\ x.retry = A!Kept(request)
  BY <1>3 DEF Caller
<1> HIDE DEF x
<1>5. A!Kept(request) => Unresolved /\ Sends(x)
  BY <1>1, <1>4 DEF A!Kept, Unresolved, Sends
<1>6. ~A!Kept(request) => ~Unresolved
  BY <1>1 DEF A!Kept, A!Uncertain, Unresolved
<1>7. Informed(x) /\ Holds(x)
  BY <1>1, <1>3, <1>4, <1>5, <1>6 DEF Informed, Holds
<1>8. /\ proc' \in [A!Callers -> Caller]
      /\ proc'["operator"] = x /\ proc'["sweep"] = proc["sweep"]
  BY <1>2, <1>4, CallerMoves, TwoCallers DEF SweepInv
<1>9. numbered' \in 0..MaxIds /\ numbered <= numbered' /\ request <= numbered'
  BY <1>1, SweepIs
<1>10. SweepType'
  BY <1>1, <1>4, <1>7, <1>8, <1>9, TwoCallers DEF SweepInv, SweepType, A!TypeOK, Informed
<1>11. SweepRules'
  <2>1. Locks'
    BY <1>1, <1>4, <1>8, SweepIs, SweepAssumption, TwoCallers DEF Locks, SweepAssumption
  <2>2. \A p \in A!Callers : Holds(proc[p])'
    BY <1>1, <1>7, <1>8, TwoCallers DEF SweepInv, SweepRules, Holds, Unresolved, Sends
  <2>3. \A q \in orders' : Awaited(q)'
    <3> SUFFICES ASSUME NEW q \in orders, q.caller # Nothing
                 PROVE  Awaited(q)'
      BY <1>1 DEF Awaited
    <3>1. Awaited(q) /\ q.caller \in A!Callers
      BY DEF SweepInv, SweepRules, SweepType, A!TypeOK, A!Post
    <3> QED
      BY <1>1, <1>8, <3>1, TwoCallers DEF Awaited, Sends
  <2> QED
    BY <2>1, <2>2, <2>3 DEF SweepRules
<1>12. ASSUME ~excused' PROVE Sparing'
  <2>1. Sparing /\ proc["sweep"].stage = "idle"
    <3>1. ~excused /\ proc["sweep"].stage \notin {"decide", "redeem", "check"}
      BY <1>1, <1>12 DEF A!Mine
    <3>2. proc["sweep"].stage \notin {"credits", "list", "wait"}
      BY <1>1, SweepIs, SweepAssumption, TwoCallers DEF SweepAssumption
    <3> QED
      BY <3>1, <3>2, SweepIs DEF SweepInv, Caller
  <2>2. Alone' /\ Decides(proc["sweep"])'
    BY <1>8, <2>1 DEF Alone, Decides
  <2>3. Ordered'
    <3>1. standing # Nothing => standing.request \in 1..MaxIds /\ standing.request <= numbered
      BY <2>1, SweepIs DEF Sparing, Ordered, A!Attempt
    <3>2. standing # Nothing => standing.request <= numbered'
      BY <1>9, <3>1, SweepIs
    <3> QED
      BY <1>1, <1>4, <1>8, <1>9, <2>1, <3>2, TwoCallers DEF Sparing, Ordered
  <2> QED
    BY <1>1, <2>1, <2>2, <2>3
       DEF Sparing, Late, AttemptBuys, Unresolved, Sends, OneEach
<1> QED
  BY <1>10, <1>11, <1>12 DEF SweepInv

\* What is sent is the attempt that is kept.
LEMMA SweepSendKeeps ==
  ASSUME SweepInv, NEW p \in A!Callers, A!Send(p)
  PROVE  SweepInv'
<1> DEFINE m == proc[p]
<1>a. PICK x : x = [m EXCEPT !.stage = "wait"]
  OBVIOUS
<1>b. PICK q0 : q0 = [credit |-> m.credit, request |-> m.request,
                      on |-> A!Reserved(p).on, caller |-> p]
  OBVIOUS
<1>1. /\ m.stage = "list" /\ standing' = A!Reserved(p) /\ listed' = Nothing
      /\ orders' = orders \cup {q0}
      /\ UNCHANGED <<quota, bought, lock, numbered, excused>>
  BY <1>b DEF A!Send, A!At
<1>2. proc' = [proc EXCEPT ![p] = x]
  BY <1>a DEF SweepInv, SweepType, A!Send, A!To
<1>3. /\ lock = p /\ p # Nothing /\ m \in Caller /\ m.reply = Nothing
      /\ m.credit \in Banked /\ m.request \in 1..MaxIds
      /\ IF m.retry THEN Unresolved /\ Sends(m) ELSE ~Unresolved
  BY <1>1, CallerHolds DEF Informed, Holds
<1>4. /\ x \in Caller /\ x.stage = "wait" /\ x.seen = m.seen /\ x.credit = m.credit
      /\ x.request = m.request /\ x.reply = m.reply /\ x.pending = m.pending
  BY <1>3, <1>a DEF Caller
<1>5. /\ standing' \in A!Attempt /\ standing' # Nothing
      /\ standing'.credit = m.credit /\ standing'.request = m.request /\ standing'.result = Nothing
      /\ m.retry => standing' = standing
      /\ ~m.retry => standing'.on = A!On(p)
  <2>1. CASE m.retry
    BY <1>1, <1>3, <2>1, SweepIs, SweepAssumption
       DEF A!Reserved, Unresolved, Sends, SweepAssumption
  <2>2. CASE ~m.retry
    <3> DEFINE r == [credit |-> m.credit, request |-> m.request, on |-> A!On(p),
                     result |-> Nothing]
    <3>1. A!On(p) \in 0..MaxWindows \cup {Nothing}
      BY <1>1, SweepIs, TwoCallers DEF A!On, A!Mine, A!Reading
    <3>2. r \in A!Attempt
      BY <1>3, <3>1 DEF A!Attempt
    <3>3. standing' = r
      BY <1>1, <2>2 DEF A!Reserved
    <3> QED
      BY <2>2, <3>2, <3>3, SweepAssumption DEF SweepAssumption
  <2> QED
    BY <2>1, <2>2, <1>3 DEF Caller
<1>6. /\ q0 \in A!Post /\ q0.on = standing'.on /\ q0.credit = m.credit
      /\ q0.request = m.request /\ q0.caller = p
  BY <1>1, <1>3, <1>5, <1>b DEF A!Post, A!Attempt
<1>7. Unresolved' /\ Informed(x)
  BY <1>3, <1>4, <1>5 DEF Unresolved, Informed
<1>8. Holds(x)'
  <2>1. Nothing \notin {"reset", "already"}
    BY SweepAssumption DEF SweepAssumption, A!Code
  <2> QED
    BY <1>3, <1>4, <1>5, <1>7, <2>1 DEF Holds, Sends
<1>9. A!TypeOK'
  BY <1>1, <1>3, <1>5, <1>6, OneMore DEF SweepInv, SweepType, A!TypeOK
<1>10. \A q \in orders' : Awaited(q)'
  <2>1. proc'[p] = x
    BY <1>2, <1>4, CallerMoves DEF SweepInv
  <2>2. \A q \in orders : q.caller = Nothing
    <3> SUFFICES ASSUME NEW q \in orders, q.caller = p PROVE FALSE
      BY <1>1, CallerHolds
    <3> QED
      BY <1>1, <1>3 DEF SweepInv, SweepRules, Awaited
  <2> QED
    BY <1>1, <1>3, <1>4, <1>5, <1>6, <2>1, <2>2 DEF Awaited, Sends
<1>11. SweepType' /\ SweepRules'
  <2>1. lock' = IF x.stage = "wait" THEN p ELSE Nothing
    BY <1>1, <1>3, <1>4
  <2> QED
    BY <1>1, <1>2, <1>4, <1>7, <1>8, <1>9, <1>10, <2>1, CallerGoesOn
<1>12. ASSUME Sparing PROVE Sparing'
  <2>1. /\ A!On(p) # Nothing => p = "sweep" /\ A!On(p) = m.seen.number
        /\ m.request <= numbered
        /\ standing # Nothing /\ standing.on # Nothing => standing.on <= quota.number
        /\ p = "sweep" => m.seen.number <= quota.number
    BY <1>1, <1>12, TwoCallers DEF A!On, A!Mine, Sparing, Ordered
  <2>2. /\ standing'.request <= numbered /\ (standing'.on # Nothing => standing'.on <= quota.number)
    <3>1. CASE m.retry
      BY <1>3, <1>5, <2>1, <3>1 DEF Unresolved
    <3>2. CASE ~m.retry
      BY <1>5, <2>1, <3>2
    <3> QED
      BY <3>1, <3>2
  <2>3. \A q \in orders' : (q.on # Nothing => q.on <= quota.number) /\ Late(q)'
    <3>1. (q0.on # Nothing => q0.on <= quota.number) /\ Late(q0)'
      BY <1>5, <1>6, <1>7, <2>2 DEF Late, Sends
    <3>2. ASSUME NEW q \in orders
          PROVE  (q.on # Nothing => q.on <= quota.number) /\ Late(q)'
      BY <1>1, <1>3, <1>5, <1>7, <1>12 DEF Sparing, Ordered, Late, Sends, Caller
    <3> QED
      BY <1>1, <3>1, <3>2
  <2>4. AttemptBuys'
    <3>1. CASE m.retry
      BY <1>1, <1>3, <1>5, <1>12, <3>1 DEF Sparing, AttemptBuys
    <3>2. CASE ~m.retry
      BY <1>1, <1>3, <1>5, <1>12, <2>1, <3>2 DEF Sparing, AttemptBuys, Decides, Bought
    <3> QED
      BY <3>1, <3>2
  <2> QED
    BY <1>1, <1>2, <1>4, <1>12, <2>2, <2>3, <2>4, CallSpares
<1> QED
  BY <1>1, <1>11, <1>12 DEF SweepInv

\* The end of a call: p comes to rest, or the sweep looks for an earlier attempt.
LEMMA CallEnds ==
  ASSUME SweepInv, NEW p \in A!Callers, proc[p].stage \in {"list", "wait"},
         A!Erred(p) \/ A!Rest(p)
  PROVE  \E x \in Caller :
           /\ proc' = [proc EXCEPT ![p] = x]
           /\ Informed(x) /\ Holds(x)' /\ x.stage \in {"idle", "check"}
           /\ p = "operator" => x.stage # "check"
           /\ x.stage # "idle" => x.seen = proc[p].seen /\ x.request = proc[p].request
<1> DEFINE checks == [proc[p] EXCEPT !.stage = "check", !.reply = Nothing]
<1>1. CASE proc' = [proc EXCEPT ![p] = A!Idle]
  BY <1>1, IdleCaller DEF Holds
<1>2. CASE p = "sweep" /\ proc' = [proc EXCEPT ![p] = checks]
  <2>1. /\ checks \in Caller /\ checks.stage = "check" /\ checks.reply = Nothing
        /\ checks.seen = proc[p].seen /\ checks.request = proc[p].request
    BY CallerHolds DEF Caller
  <2> HIDE DEF checks
  <2> QED
    BY <1>2, <2>1 DEF Informed, Holds
<1>3. \/ proc' = [proc EXCEPT ![p] = A!Idle]
      \/ p = "sweep" /\ proc' = [proc EXCEPT ![p] = checks]
  BY DEF A!Erred, A!Rest, SweepInv, SweepType
<1> QED
  BY <1>1, <1>2, <1>3

\* Fail, Refused and Learn: the call ends and nothing is bought in the step.
LEMMA SweepEndKeeps ==
  ASSUME SweepInv, NEW p \in A!Callers, proc[p].stage \in {"list", "wait"},
         A!Erred(p) \/ A!Rest(p), lock' = Nothing,
         UNCHANGED <<bought, quota, numbered>>, orders' \subseteq A!Post,
         listed' \in (SUBSET Banked) \cup {Nothing}, standing' \in A!Attempt \cup {Nothing},
         standing' # Nothing => standing # Nothing /\ standing'.request = standing.request
                              /\ standing'.credit = standing.credit /\ standing'.on = standing.on,
         Unresolved' => Unresolved, ~excused' => ~excused,
         \A q \in orders' :
           /\ q.caller = Nothing
           /\ \E r \in orders : q.credit = r.credit /\ q.request = r.request /\ q.on = r.on,
         \A q \in orders' : ~excused' /\ q.on # Nothing /\ Unresolved /\ Sends(q)
             => bought[q.credit] # Nothing \/ Unresolved'
  PROVE  SweepInv'
<1>1. PICK x \in Caller :
        /\ proc' = [proc EXCEPT ![p] = x]
        /\ Informed(x) /\ Holds(x)' /\ x.stage \in {"idle", "check"}
        /\ p = "operator" => x.stage # "check"
        /\ x.stage # "idle" => x.seen = proc[p].seen /\ x.request = proc[p].request
  BY CallEnds
<1>2. A!TypeOK'
  BY DEF SweepInv, SweepType, A!TypeOK
<1>3. \A q \in orders' : Awaited(q)'
  BY DEF Awaited
<1>4. SweepType' /\ SweepRules'
  BY <1>1, <1>2, <1>3, CallerGoesOn
<1>5. ASSUME ~excused' PROVE Sparing'
  <2>1. Sparing
    BY <1>5 DEF SweepInv
  <2>2. standing' # Nothing =>
          standing'.request <= numbered /\ (standing'.on # Nothing => standing'.on <= quota.number)
    BY <2>1 DEF Sparing, Ordered
  <2>3. \A q \in orders' : (q.on # Nothing => q.on <= quota.number) /\ Late(q)'
    <3> SUFFICES ASSUME NEW q \in orders', q.on # Nothing
                 PROVE  q.on <= quota.number /\ Late(q)'
      BY DEF Late
    <3>1. PICK r \in orders : q.credit = r.credit /\ q.request = r.request /\ q.on = r.on
      OBVIOUS
    <3>2. q.on <= quota.number /\ (bought[q.credit] # Nothing
                                    \/ (Unresolved /\ Sends(q) /\ standing.on = q.on))
      BY <2>1, <3>1 DEF Sparing, Ordered, Late, Sends
    <3>3. Unresolved' => standing' # Nothing
      BY DEF Unresolved
    <3> QED
      BY <1>5, <3>2, <3>3 DEF Late, Sends
  <2>4. AttemptBuys'
    <3>1. Unresolved' => Unresolved /\ standing' # Nothing
      BY DEF Unresolved
    <3> QED
      BY <2>1, <3>1 DEF Sparing, AttemptBuys
  <2> QED
    BY <1>1, <2>1, <2>2, <2>3, <2>4, CallSpares
<1> QED
  BY <1>4, <1>5 DEF SweepInv

\* An order on which nobody waits any more is the order it was.
LEMMA LeftAlone ==
  ASSUME SweepInv, NEW q \in orders, NEW y, y = [q EXCEPT !.caller = Nothing]
  PROVE  /\ y \in A!Post /\ y.caller = Nothing
         /\ y.credit = q.credit /\ y.request = q.request /\ y.on = q.on
BY DEF SweepInv, SweepType, A!TypeOK, A!Post

\* A caller that hears no outcome leaves its attempt without one.
LEMMA FailKeeps ==
  ASSUME SweepInv, NEW p \in A!Callers, A!Fail(p)
  PROVE  SweepInv'
<1>1. /\ proc[p].stage \in {"list", "wait"} /\ A!Erred(p) /\ lock' = Nothing
      /\ UNCHANGED <<bought, quota, numbered, listed, standing, excused>>
  BY DEF A!Fail, A!At
<1>2. \A q \in orders' :
        /\ q \in A!Post /\ q.caller = Nothing
        /\ \E r \in orders : q.credit = r.credit /\ q.request = r.request /\ q.on = r.on
  <2> SUFFICES ASSUME NEW q \in orders'
               PROVE  /\ q \in A!Post /\ q.caller = Nothing
                      /\ \E r \in orders :
                           q.credit = r.credit /\ q.request = r.request /\ q.on = r.on
    OBVIOUS
  <2>1. PICK r \in orders : q = IF r.caller = p THEN [r EXCEPT !.caller = Nothing] ELSE r
    BY DEF A!Fail
  <2>2. CASE r.caller = p
    BY <2>1, <2>2, LeftAlone
  <2>3. CASE r.caller # p
    BY <1>1, <2>1, <2>3, CallerHolds DEF SweepInv, SweepType, A!TypeOK
  <2> QED
    BY <2>2, <2>3
<1>3. Unresolved' = Unresolved
  BY <1>1 DEF Unresolved
<1>4. listed' \in (SUBSET Banked) \cup {Nothing} /\ standing' \in A!Attempt \cup {Nothing}
  BY <1>1 DEF SweepInv, SweepType, A!TypeOK
<1>5. orders' \subseteq A!Post
  BY <1>2
<1> QED
  BY <1>1, <1>2, <1>3, <1>4, <1>5, SweepEndKeeps

\* Once the answer is there nobody waits for an order.
LEMMA Answered ==
  ASSUME SweepInv, NEW p \in A!Callers, proc[p].stage = "wait", proc[p].reply # Nothing
  PROVE  \A q \in orders : q.caller = Nothing
<1> SUFFICES ASSUME NEW q \in orders, q.caller = p PROVE FALSE
  BY CallerHolds
<1> QED
  BY CallerHolds DEF SweepInv, SweepRules, Awaited

\* A refusal forgets the attempt, which may excuse a second reset.
LEMMA SweepRefusedKeeps ==
  ASSUME SweepInv, NEW p \in A!Callers, A!Refused(p)
  PROVE  SweepInv'
<1>1. /\ proc[p].stage = "wait" /\ proc[p].reply = "refused" /\ A!Erred(p)
      /\ lock' = Nothing /\ standing' = Nothing
      /\ excused' = (excused \/ A!UnderWay(proc[p].request))
      /\ UNCHANGED <<bought, quota, numbered, listed, orders>>
  BY DEF A!Refused, A!At, A!providerVars
<1>2. \A q \in orders : q.caller = Nothing
  <2>1. Nothing # "refused"
    BY SweepAssumption DEF SweepAssumption
  <2> QED
    BY <1>1, <2>1, Answered
<1>3. ASSUME NEW q \in orders, ~excused', Unresolved, Sends(q) PROVE FALSE
  BY <1>1, <1>3, CallerHolds DEF A!UnderWay, Holds, Sends
<1>4. listed' \in (SUBSET Banked) \cup {Nothing} /\ orders' \subseteq A!Post
  BY <1>1 DEF SweepInv, SweepType, A!TypeOK
<1>5. ~Unresolved'
  BY <1>1 DEF Unresolved
<1> QED
  BY <1>1, <1>2, <1>3, <1>4, <1>5, SweepEndKeeps

\* An outcome settles the attempt, and may excuse a second reset.
LEMMA SweepLearnKeeps ==
  ASSUME SweepInv, NEW p \in A!Callers, A!Learn(p)
  PROVE  SweepInv'
<1> DEFINE reply == proc[p].reply
<1>1. /\ proc[p].stage = "wait" /\ reply \in A!Code /\ A!Rest(p)
      /\ lock' = Nothing /\ standing' = [standing EXCEPT !.result = reply]
      /\ excused' = (excused \/ (reply = "nothing" /\ A!UnderWay(proc[p].request)))
      /\ UNCHANGED <<bought, quota, numbered, orders>>
  BY DEF A!Learn, A!At, A!providerVars
<1>2. reply # Nothing
  BY <1>1, SweepAssumption DEF SweepAssumption
<1>3. \A q \in orders : q.caller = Nothing
  BY <1>1, <1>2, Answered
<1>4. /\ Unresolved /\ standing \in A!Attempt
      /\ standing.credit = proc[p].credit /\ standing.request = proc[p].request
  BY <1>1, CallerHolds, SweepIs DEF Holds, Unresolved, Sends
<1>5. /\ standing' \in A!Attempt /\ standing'.result = reply
      /\ standing'.request = standing.request
      /\ standing'.credit = standing.credit /\ standing'.on = standing.on
  BY <1>1, <1>4 DEF A!Attempt
<1>6. ASSUME NEW q \in orders, ~excused', Sends(q) PROVE bought[q.credit] # Nothing
  <2>1. CASE reply = "nothing"
    BY <1>1, <1>4, <1>6, <2>1 DEF A!UnderWay, Sends
  <2>2. CASE reply \in {"reset", "already"}
    BY <1>1, <1>4, <1>6, <2>2, CallerHolds DEF Holds, Sends
  <2> QED
    BY <1>1, <2>1, <2>2 DEF A!Code
<1>7. listed' \in (SUBSET Banked) \cup {Nothing}
  <2>1. A!Listed => listed' \in (SUBSET Banked) \cup {Nothing}
    <3>1. A!Unspent \in SUBSET Banked
      BY DEF A!Unspent
    <3>2. A!Listed => listed' \in SUBSET Banked \/ listed' = Nothing
      BY <3>1 DEF A!Listed
    <3> QED
      BY <3>2, OneMore
  <2> QED
    BY <2>1, SweepIs, OneMore DEF A!Learn
<1>8. ~Unresolved' /\ orders' \subseteq A!Post
  BY <1>1, <1>2, <1>5 DEF Unresolved, SweepInv, SweepType, A!TypeOK
<1>9. standing' # Nothing => standing # Nothing
  BY <1>4 DEF Unresolved
<1>10. ~excused' => ~excused
  BY <1>1
<1>11. \A q \in orders' :
         /\ q.caller = Nothing
         /\ \E r \in orders : q.credit = r.credit /\ q.request = r.request /\ q.on = r.on
  BY <1>1, <1>3
<1>12. standing' \in A!Attempt \cup {Nothing}
  BY <1>5
<1> HIDE DEF reply
<1> QED
  BY <1>1, <1>4, <1>5, <1>6, <1>7, <1>8, <1>9, <1>10, <1>11, <1>12, SweepEndKeeps DEF reply

\* The caller of an order hears of it.
LEMMA Hears ==
  ASSUME SweepInv, NEW q \in orders, NEW r \in A!Code \cup {"refused", Nothing},
         A!Reply(q, r)
  PROVE  /\ proc' \in [A!Callers -> Caller]
         /\ \A p \in A!Callers :
              /\ proc'[p].stage = proc[p].stage /\ proc'[p].seen = proc[p].seen
              /\ proc'[p].credit = proc[p].credit /\ proc'[p].request = proc[p].request
              /\ proc'[p].retry = proc[p].retry /\ proc'[p].pending = proc[p].pending
              /\ proc'[p].reply = IF q.caller = p THEN r ELSE proc[p].reply
         /\ q.caller # Nothing => q.caller \in A!Callers /\ proc[q.caller].stage = "wait"
<1>1. proc \in [A!Callers -> Caller] /\ q.caller \in A!Callers \cup {Nothing}
  BY DEF SweepInv, SweepType, A!TypeOK, A!Post
<1>2. CASE q.caller = Nothing
  BY <1>1, <1>2, SweepAssumption DEF A!Reply, SweepAssumption
<1>3. CASE q.caller # Nothing
  <2>1. PICK x : x = [proc[q.caller] EXCEPT !.reply = r]
    OBVIOUS
  <2>2. /\ x \in Caller /\ x.reply = r /\ x.stage = proc[q.caller].stage
        /\ x.seen = proc[q.caller].seen /\ x.credit = proc[q.caller].credit
        /\ x.request = proc[q.caller].request /\ x.retry = proc[q.caller].retry
        /\ x.pending = proc[q.caller].pending
    BY <1>1, <1>3, <2>1 DEF Caller
  <2>3. proc' = [proc EXCEPT ![q.caller] = x]
    BY <1>1, <1>3, <2>1 DEF A!Reply
  <2>4. proc[q.caller].stage = "wait"
    BY <1>3 DEF SweepInv, SweepRules, Awaited
  <2> QED
    BY <1>1, <1>3, <2>2, <2>3, <2>4
<1> QED
  BY <1>2, <1>3

\* An order is done with, whether or not it buys something.
LEMMA OrderDone ==
  ASSUME SweepInv, NEW q \in orders, NEW r \in A!Code \cup {"refused", Nothing},
         A!Reply(q, r), orders' = orders \ {q},
         UNCHANGED <<listed, standing, lock, numbered, excused>>,
         quota' \in A!Reading, bought' \in [Banked -> A!Post \cup {Nothing}],
         \A c \in Banked : bought[c] # Nothing => bought'[c] = bought[c],
         r \in {"reset", "already"} => bought'[q.credit] # Nothing
  PROVE  SweepType' /\ SweepRules'
<1>1. SweepType'
  <2>1. \A p \in A!Callers : Informed(proc[p])'
    <3> SUFFICES ASSUME NEW p \in A!Callers PROVE Informed(proc[p])'
      OBVIOUS
    <3>1. Informed(proc[p]) /\ p # Nothing
      BY SweepAssumption DEF SweepInv, SweepType, SweepAssumption
    <3>2. q.caller = p => proc[p].stage = "wait"
      BY <3>1, Hears
    <3> QED
      BY <3>1, <3>2, Hears DEF Informed
  <2> QED
    BY <2>1, Hears, TwoCallers DEF SweepInv, SweepType, A!TypeOK
<1>2. Locks'
  BY Hears DEF SweepInv, SweepRules, Locks
<1>3. \A p \in A!Callers : Holds(proc[p])'
  <2> SUFFICES ASSUME NEW p \in A!Callers PROVE Holds(proc[p])'
    OBVIOUS
  <2>1. Holds(proc[p]) /\ proc[p] \in Caller /\ Informed(proc[p]) /\ Awaited(q)
    BY DEF SweepInv, SweepRules, SweepType
  <2>2. ASSUME proc[p].stage = "wait", proc'[p].reply \in {"reset", "already"}
        PROVE  bought'[proc[p].credit] # Nothing
    <3>1. CASE q.caller = p
      <4>1. q.credit = proc[p].credit /\ proc'[p].reply = r
        BY <2>1, <2>2, <3>1, Hears, SweepAssumption
           DEF Awaited, Holds, Sends, SweepAssumption
      <4> QED
        BY <2>2, <4>1
    <3>2. CASE q.caller # p
      BY <2>1, <2>2, <3>2, Hears DEF Holds, Informed
    <3> QED
      BY <3>1, <3>2
  <2> QED
    BY <2>1, <2>2, Hears DEF Holds, Unresolved, Sends
<1>4. \A o \in orders' : Awaited(o)'
  <2> SUFFICES ASSUME NEW o \in orders, o # q, o.caller # Nothing
               PROVE  Awaited(o)'
    BY DEF Awaited
  <2>1. o \in A!Post /\ q \in A!Post /\ Awaited(o) /\ Awaited(q)
    BY DEF SweepInv, SweepRules, SweepType, A!TypeOK
  <2>2. q.caller # o.caller
    BY <2>1 DEF A!Post, Awaited, Sends
  <2>3. o.caller \in A!Callers
    BY <2>1 DEF A!Post
  <2> QED
    BY <2>1, <2>2, <2>3, Hears DEF Awaited, Sends
<1> QED
  BY <1>1, <1>2, <1>3, <1>4 DEF SweepRules

\* An order that buys nothing.
LEMMA NothingBought ==
  ASSUME SweepInv, NEW q \in orders, NEW r \in A!Code \cup {"refused", Nothing},
         A!Reply(q, r), orders' = orders \ {q},
         UNCHANGED <<listed, standing, lock, numbered, excused, quota, bought>>,
         r \in {"reset", "already"} => bought[q.credit] # Nothing
  PROVE  SweepInv'
<1>1. SweepType' /\ SweepRules'
  <2>1. quota \in A!Reading /\ bought \in [Banked -> A!Post \cup {Nothing}]
    BY DEF SweepInv, SweepType, A!TypeOK
  <2> QED
    BY <2>1, OrderDone
<1>2. ASSUME Sparing PROVE Sparing'
  <2>1. Alone' /\ Ordered'
    BY <1>2, Hears, TwoCallers DEF Sparing, Alone, Ordered
  <2>2. Decides(proc["sweep"])'
    BY <1>2, Hears, TwoCallers DEF Sparing, Decides, Unresolved, Sends, Bought, A!Kept
  <2> QED
    BY <1>2, <2>1, <2>2 DEF Sparing, Late, AttemptBuys, Unresolved, Sends, OneEach
<1> QED
  BY <1>1, <1>2 DEF SweepInv

\* An order that resets the window.
LEMMA WindowBought ==
  ASSUME SweepInv, NEW q \in orders, bought[q.credit] = Nothing,
         quota.number < MaxWindows, bought' = [bought EXCEPT ![q.credit] = q],
         quota' = [number |-> quota.number + 1, used |-> 0],
         A!Reply(q, "reset"), orders' = orders \ {q},
         UNCHANGED <<listed, standing, lock, numbered, excused>>
  PROVE  SweepInv'
<1>1. /\ q \in A!Post /\ q # Nothing /\ q.credit \in Banked
      /\ q.on \in 0..MaxWindows \cup {Nothing}
      /\ bought \in [Banked -> A!Post \cup {Nothing}]
  BY SweepAssumption DEF SweepInv, SweepType, A!TypeOK, A!Post, SweepAssumption
<1>2. /\ bought' \in [Banked -> A!Post \cup {Nothing}]
      /\ bought'[q.credit] = q
      /\ \A c \in Banked : c # q.credit => bought'[c] = bought[c]
  BY <1>1
<1>3. /\ quota' \in A!Reading /\ quota'.number = quota.number + 1
      /\ quota.number \in 0..MaxWindows /\ MaxWindows \in Nat
  <2>1. quota \in A!Reading /\ MaxWindows \in Nat
    BY SweepIs, SweepAssumption DEF SweepAssumption
  <2>2. quota.number \in 0..MaxWindows
    BY <2>1 DEF A!Reading
  <2>3. quota.number + 1 \in 0..MaxWindows
    BY <2>1, <2>2
  <2> QED
    BY <2>1, <2>2, <2>3 DEF A!Reading, A!Full
<1>4. SweepType' /\ SweepRules'
  <2>1. "reset" \in A!Code \cup {"refused", Nothing}
    BY DEF A!Code
  <2>2. \A c \in Banked : bought[c] # Nothing => bought'[c] = bought[c]
    BY <1>2
  <2>3. bought'[q.credit] # Nothing
    BY <1>1, <1>2
  <2> QED
    BY <1>2, <1>3, <2>1, <2>2, <2>3, OrderDone
<1> DEFINE Same(p) == /\ proc'[p].stage = proc[p].stage /\ proc'[p].seen = proc[p].seen
                      /\ proc'[p].request = proc[p].request
                      /\ proc'[p].credit = proc[p].credit
                      /\ proc'[p].retry = proc[p].retry
                      /\ proc'[p].pending = proc[p].pending
<1>5. Same("sweep") /\ Same("operator")
  BY Hears, TwoCallers DEF A!Code
<1>6. ASSUME Sparing PROVE Sparing'
  <2>1. Alone'
    BY <1>5, <1>6 DEF Sparing, Alone
  <2>2. Ordered'
    <3>1. \A n \in 0..MaxWindows : /\ n <= quota.number => n <= quota'.number
                                   /\ n <= quota.number => n < quota'.number
                                   /\ n < quota.number => n < quota'.number
      BY <1>3
    <3>2. /\ standing # Nothing => standing.on \in 0..MaxWindows \cup {Nothing}
          /\ \A o \in orders : o.on \in 0..MaxWindows \cup {Nothing}
          /\ \A c \in Banked :
               bought[c] # Nothing => bought[c].on \in 0..MaxWindows \cup {Nothing}
          /\ proc["sweep"].stage # "idle" => proc["sweep"].seen.number \in 0..MaxWindows
      BY SweepIs DEF A!Attempt, SweepInv, SweepType, A!TypeOK, A!Post, A!Reading
    <3>3. \A c \in Banked :
            bought'[c] # Nothing /\ bought'[c].on # Nothing => bought'[c].on < quota'.number
      BY <1>1, <1>2, <1>6, <3>1, <3>2 DEF Sparing, Ordered
    <3>4. \A p \in A!Callers :
            proc'[p].stage \in {"redeem", "list", "wait"} => proc'[p].request <= numbered
      BY <1>5, <1>6, TwoCallers DEF Sparing, Ordered
    <3> QED
      BY <1>5, <1>6, <3>1, <3>2, <3>3, <3>4 DEF Sparing, Ordered
  <2>3. q.on # Nothing => Unresolved /\ Sends(q) /\ standing.on = q.on
    BY <1>6 DEF Sparing, Late
  <2>4. \A o \in orders' : Late(o)'
    BY <1>1, <1>2, <1>6 DEF Sparing, Late, Unresolved, Sends
  <2>5. AttemptBuys'
    BY <1>1, <1>2, <1>6, <2>3 DEF Sparing, AttemptBuys, Unresolved, Sends
  <2>6. Decides(proc["sweep"])'
    <3>1. \A w : Bought(w)' => Bought(w) \/ (w = q.on)
      BY <1>2 DEF Bought
    <3>2. proc["sweep"].stage # "idle" => proc["sweep"].seen.number # Nothing
      BY SweepIs, SweepAssumption DEF A!Reading, SweepAssumption
    <3>3. Holds(proc["sweep"])
      BY SweepIs
    <3> QED
      BY <1>5, <1>6, <2>3, <3>1, <3>2, <3>3
         DEF Sparing, Decides, Holds, Unresolved, Sends, A!Kept
  <2>7. OneEach'
    <3> SUFFICES ASSUME NEW c \in Banked, NEW d \in Banked, c # d, d # q.credit,
                        bought'[c] # Nothing, bought'[d] # Nothing,
                        bought'[c].on # Nothing, bought'[c].on = bought'[d].on
                 PROVE  FALSE
      BY DEF OneEach
    <3>1. CASE c = q.credit
      BY <1>2, <1>6, <2>3, <3>1 DEF Sparing, AttemptBuys, Sends
    <3>2. CASE c # q.credit
      BY <1>2, <1>6, <3>2 DEF Sparing, OneEach
    <3> QED
      BY <3>1, <3>2
  <2> QED
    BY <2>1, <2>2, <2>4, <2>5, <2>6, <2>7 DEF Sparing
<1> QED
  BY <1>4, <1>6 DEF SweepInv

\* An order that arrives resets the window, or finds nothing to do.
LEMMA SweepArriveKeeps ==
  ASSUME SweepInv, NEW q \in orders, A!Arrive(q)
  PROVE  SweepInv'
<1>1. orders' = orders \ {q} /\ UNCHANGED <<listed, standing, lock, numbered, excused>>
  BY DEF A!Arrive
<1>2. {"reset", "nothing", "already"} \subseteq A!Code
  BY DEF A!Code
<1>3. CASE /\ bought[q.credit] = Nothing /\ quota.number < MaxWindows
           /\ bought' = [bought EXCEPT ![q.credit] = q]
           /\ quota' = [number |-> quota.number + 1, used |-> 0]
           /\ A!Reply(q, "reset")
  BY <1>1, <1>3, WindowBought
<1>4. CASE A!Reply(q, "nothing") /\ UNCHANGED <<bought, quota>>
  BY <1>1, <1>2, <1>4, NothingBought
<1>5. CASE bought[q.credit] # Nothing /\ A!Reply(q, "already") /\ UNCHANGED <<bought, quota>>
  BY <1>1, <1>2, <1>5, NothingBought
<1> QED
  BY <1>3, <1>4, <1>5 DEF A!Arrive

\* An order is refused or lost.
LEMMA SweepDropKeeps ==
  ASSUME SweepInv, NEW q \in orders, NEW reply \in {"refused", Nothing}, A!Drop(q, reply)
  PROVE  SweepInv'
<1>1. /\ orders' = orders \ {q} /\ A!Reply(q, reply)
      /\ UNCHANGED <<listed, standing, lock, numbered, excused, quota, bought>>
  BY DEF A!Drop
<1>2. Nothing \notin {"reset", "already"}
  BY SweepAssumption DEF SweepAssumption, A!Code
<1> QED
  BY <1>1, <1>2, NothingBought

\* A restart forgets the attempt, which may excuse a second reset.
LEMMA RestartKeeps ==
  ASSUME SweepInv, A!Restart
  PROVE  SweepInv'
<1>1. /\ listed' = Nothing /\ standing' = Nothing /\ lock' = Nothing
      /\ proc' = [p \in A!Callers |-> A!Idle]
      /\ orders' = {[q EXCEPT !.caller = Nothing] : q \in orders}
      /\ excused' = (excused \/ orders # {})
      /\ UNCHANGED <<quota, bought, numbered>>
  BY DEF A!Restart
<1>2. \A q \in orders' : q \in A!Post /\ q.caller = Nothing
  BY <1>1, LeftAlone
<1>3. proc' \in [A!Callers -> Caller] /\ \A p \in A!Callers : proc'[p] = A!Idle
  BY <1>1, IdleCaller
<1>4. SweepType'
  BY <1>1, <1>2, <1>3, IdleCaller, TwoCallers, OneMore
     DEF SweepInv, SweepType, A!TypeOK, Informed
<1>5. SweepRules'
  <2>1. \A p \in A!Callers : p # Nothing
    BY SweepAssumption DEF SweepAssumption
  <2> QED
    BY <1>1, <1>2, <1>3, <2>1, IdleCaller DEF SweepRules, Locks, Holds, Awaited
<1>6. ASSUME ~excused' PROVE Sparing'
  <2>1. Sparing /\ orders' = {}
    BY <1>1, <1>6 DEF SweepInv
  <2> QED
    BY <1>1, <1>3, <2>1, IdleCaller, TwoCallers
       DEF Sparing, Alone, Ordered, AttemptBuys, Unresolved, Decides, OneEach
<1> QED
  BY <1>4, <1>5, <1>6 DEF SweepInv

\* The invariant of the sweep holds at the start.
LEMMA SweepStarts ==
  ASSUME A!Init
  PROVE  SweepInv
<1>1. proc \in [A!Callers -> Caller] /\ \A p \in A!Callers : proc[p] = A!Idle
  BY IdleCaller DEF A!Init
<1>2. SweepType
  <2>1. quota \in A!Reading
    BY SweepAssumption DEF A!Init, A!Reading, A!Full, SweepAssumption
  <2>2. numbered \in 0..MaxIds
    BY SweepAssumption DEF A!Init, SweepAssumption
  <2> QED
    BY <1>1, <2>1, <2>2, IdleCaller, TwoCallers, OneMore
       DEF A!Init, SweepType, A!TypeOK, Informed
<1>3. SweepRules
  <2>1. \A p \in A!Callers : p # Nothing
    BY SweepAssumption DEF SweepAssumption
  <2> QED
    BY <1>1, <2>1, IdleCaller DEF A!Init, SweepRules, Locks, Holds, Awaited
<1>4. Sparing
  BY <1>1, IdleCaller, TwoCallers
     DEF A!Init, Sparing, Alone, Ordered, AttemptBuys, Unresolved, Decides, OneEach, Bought
<1> QED
  BY <1>2, <1>3, <1>4 DEF SweepInv

\* The invariant of the sweep holds after every step of its part.
LEMMA SweepStep ==
  ASSUME SweepInv, A!Next
  PROVE  SweepInv'
BY ReadingKeeps, DecideKeeps, RefrainKeeps, SweepRedeemKeeps, PendingKeeps,
   SweepAskKeeps, SweepSendKeeps, FailKeeps, SweepRefusedKeeps, SweepLearnKeeps,
   SweepArriveKeeps, SweepDropKeeps, PassKeeps, RestartKeeps
   DEF A!Next

\* A step of the whole is one of the sweep, or leaves its variables alone.
LEMMA SweepAlone ==
  ASSUME SweepInv, UNCHANGED sweepVars
  PROVE  SweepInv'
BY DEF sweepVars, SweepInv, SweepType, SweepRules, Sparing, A!TypeOK, Informed, Locks, Holds,
       Awaited, Unresolved, Sends, Alone, Ordered, Late, AttemptBuys, Decides, Bought, A!Kept,
       OneEach

(***************************************************************************)
(* Whatever the attempts, late answers and restarts, two credits are spent *)
(* on one window that the sweep read only if one of the excuses that       *)
(* SpentOnce names was given (proxy/reset_credits.rs, auto_redeem_reset    *)
(* and use_reset_credit).  The invariant says, for as long as none was,    *)
(* that each order for such a window is the one of the attempt that has no *)
(* outcome or comes too late, that only that attempt's credit can have     *)
(* been spent on the attempt's window, and that the sweep decides and asks *)
(* on a window for which nothing was spent, or finds that attempt in its   *)
(* way.                                                                    *)
(***************************************************************************)
THEOREM SpentOnceAlways == PartsSpec => [](part = "sweep" => A!TypeOK /\ A!SpentOnce)
<1>1. PartsInit => SweepInv
  BY SweepStarts DEF PartsInit
<1>2. SweepInv /\ [PartsNext]_parts => SweepInv'
  <2> SUFFICES ASSUME SweepInv, [PartsNext]_parts PROVE SweepInv'
    OBVIOUS
  <2>1. A!Next \/ UNCHANGED sweepVars
    BY DEF PartsNext, parts
  <2> QED
    BY <2>1, SweepStep, SweepAlone
<1>3. SweepInv => (part = "sweep" => A!TypeOK /\ A!SpentOnce)
  BY DEF SweepInv, SweepType, Sparing, OneEach, A!SpentOnce
<1> QED
  BY <1>1, <1>2, <1>3, PTL DEF PartsSpec

(***************************************************************************)
(* The banked resets are standing for what they are worth, for any number of   *)
(* credits, requests, callers and windows: a confirmation lifts no block   *)
(* of the current window, and the sweep spends one credit on one window    *)
(* (proxy/reset_credits.rs, use_reset_credit and auto_redeem_reset).       *)
(***************************************************************************)
THEOREM ResetsKeptAlways == PartsSpec => ResetsKept
BY NewerRejectionStaysAlways, SpentOnceAlways DEF ResetsKept

-----------------------------------------------------------------------------
(* The activation of quotas.                                               *)

\* The activation that runs.
Working ==
  [stage : {"polled", "reserved", "sent"}, owner : Identities, now : 0..MaxClock,
   reset : 0..MaxCycle]

UsageType == U!TypeOK /\ (worker = U!Idle \/ worker \in Working)

\* A ledger is as late as what was sent, and no later than the provider's cycle.
Remembers(f) ==
  \A o \in Identities :
    /\ sent[o] # Nothing => f[o] # Nothing /\ f[o].attempted >= sent[o]
    /\ f[o] # Nothing => f[o].reset <= cycle[o]

\* The ledger in memory knows the cycle an owner was last seen activated in, or
\* that a later one was tried.
Witnessed(f) ==
  \A o \in Identities : witnessed[o] # Nothing =>
    /\ f[o] # Nothing
    /\ IF f[o].completed THEN f[o].reset >= witnessed[o] ELSE f[o].reset > witnessed[o]

\* What the worker relies on in each stage.  The clock stands still until it sends.
WorkerKnows ==
  worker \in Working =>
    LET o == worker.owner IN
    /\ worker.reset <= cycle[o]
    /\ worker.stage \in {"polled", "reserved"} => worker.now = clock
    /\ worker.stage = "polled" /\ ledger[o] # Nothing => ledger[o].reset <= worker.reset
    /\ worker.stage \in {"reserved", "sent"} =>
         /\ ledger[o] # Nothing /\ ledger[o].attempted = worker.now
         /\ file[o] # Nothing /\ file[o].attempted = worker.now
    /\ worker.stage = "reserved" => U!Spaced(o) /\ U!NewToIt(o)

UsageInv ==
  UsageType /\ Remembers(ledger) /\ Remembers(file) /\ Witnessed(ledger)
    /\ WorkerKnows

-----------------------------------------------------------------------------

\* A worker that is idle is none that works.
LEMMA IdleWorker == U!Idle \notin Working /\ U!Idle.stage = "idle"
BY DEF U!Idle, Working

\* What the type invariant says, one fact a time.
LEMMA UsageFacts ==
  ASSUME UsageInv
  PROVE  /\ clock \in Nat /\ RetryAfter \in Nat
         /\ \A o \in Identities :
              /\ cycle[o] \in Nat
              /\ ledger[o] # Nothing => ledger[o] \in U!Record
              /\ file[o] # Nothing => file[o] \in U!Record
              /\ sent[o] # Nothing => sent[o] \in Nat
              /\ witnessed[o] # Nothing => witnessed[o] \in Nat
         /\ \A x \in U!Record : x.attempted \in Nat /\ x.reset \in Nat
         /\ \A x \in Working : x.now \in Nat /\ x.reset \in Nat /\ x.owner \in Identities
BY UsageAssumption DEF UsageInv, UsageType, U!TypeOK, U!Record, Working, UsageAssumption

\* A poll that starts a cycle starts one that is not reserved.
LEMMA PollKeeps ==
  ASSUME UsageInv, NEW o \in Identities, U!Poll(o)
  PROVE  UsageInv'
<1>1. /\ worker' = [stage |-> "polled", owner |-> o, now |-> clock, reset |-> cycle[o]]
      /\ UNCHANGED <<clock, cycle, ledger, file, sent, witnessed>>
  BY DEF U!Poll
<1>2. worker' \in Working
  BY <1>1 DEF Working, UsageInv, UsageType, U!TypeOK
<1>3. UsageType'
  BY <1>1, <1>2 DEF UsageInv, UsageType, U!TypeOK, Working
<1>4. cycle[o] <= cycle[o]
  BY UsageFacts
<1>5. WorkerKnows'
  BY <1>1, <1>4 DEF UsageInv, WorkerKnows, Remembers
<1> QED
  BY <1>1, <1>3, <1>5 DEF UsageInv, Remembers, Witnessed

\* The worker stops, and the ledgers stay.
LEMMA StopKeeps ==
  ASSUME UsageInv, worker' = U!Idle,
         UNCHANGED <<clock, cycle, ledger, file, sent, witnessed>>
  PROVE  UsageInv'
BY IdleWorker DEF UsageInv, UsageType, U!TypeOK, Remembers, Witnessed, WorkerKnows

\* A reservation that is on disk has not been sent.
LEMMA ReservedKeeps ==
  ASSUME UsageInv, U!Reserve(TRUE)
  PROVE  UsageInv'
<1> DEFINE o == worker.owner
           new == [attempted |-> worker.now, reset |-> worker.reset,
                   completed |-> FALSE]
<1>1. worker \in Working /\ worker.stage = "polled" /\ o \in Identities
  BY IdleWorker DEF U!Reserve, UsageInv, UsageType, Working
<1>2. /\ ledger' = [ledger EXCEPT ![o] = new] /\ file' = ledger'
      /\ worker' = [worker EXCEPT !.stage = "reserved"]
      /\ UNCHANGED <<clock, cycle, sent, witnessed>>
      /\ U!Due(ledger[o], worker.now, worker.reset)
  BY DEF U!Reserve, U!Reserved
<1>3. new \in U!Record /\ new.attempted = worker.now /\ new.reset = worker.reset
      /\ new.completed = FALSE /\ new # Nothing
  <2>1. new \in U!Record
    BY <1>1 DEF U!Record, Working
  <2> QED
    BY <2>1, UsageAssumption DEF UsageAssumption
<1> HIDE DEF new
<1>4. \A i \in Identities : ledger'[i] = IF i = o THEN new ELSE ledger[i]
  BY <1>1, <1>2 DEF UsageInv, UsageType, U!TypeOK
<1>5. /\ worker' \in Working /\ worker'.stage = "reserved" /\ worker'.owner = o
      /\ worker'.now = worker.now /\ worker'.reset = worker.reset
  BY <1>1, <1>2 DEF Working
<1>6. UsageType'
  BY <1>1, <1>2, <1>3, <1>5 DEF UsageInv, UsageType, U!TypeOK
<1>7. /\ worker.now = clock /\ worker.reset <= cycle[o]
      /\ ledger[o] # Nothing => ledger[o].reset <= worker.reset
  BY <1>1 DEF UsageInv, WorkerKnows
<1>8. ledger[o] # Nothing =>
        /\ worker.now >= ledger[o].attempted + RetryAfter
        /\ ledger[o].completed => worker.reset > ledger[o].reset
  BY <1>2 DEF U!Due
<1>9. sent[o] # Nothing => clock >= sent[o] + RetryAfter
  <2>1. sent[o] # Nothing => /\ ledger[o] # Nothing
                             /\ ledger[o].attempted >= sent[o]
    BY <1>1 DEF UsageInv, Remembers
  <2> QED
    BY <1>1, <1>7, <1>8, <2>1, UsageFacts
<1>10. witnessed[o] # Nothing => worker.reset > witnessed[o]
  <2>1. witnessed[o] # Nothing =>
          /\ ledger[o] # Nothing
          /\ IF ledger[o].completed THEN ledger[o].reset >= witnessed[o]
             ELSE ledger[o].reset > witnessed[o]
    BY <1>1 DEF UsageInv, Witnessed
  <2> QED
    BY <1>1, <1>7, <1>8, <2>1, UsageFacts
<1>11. Remembers(ledger)' /\ Remembers(file)'
  <2>1. sent[o] # Nothing => worker.now >= sent[o]
    BY <1>1, <1>7, <1>9, UsageFacts
  <2> QED
    BY <1>1, <1>2, <1>3, <1>4, <1>7, <2>1 DEF UsageInv, Remembers
<1>12. Witnessed(ledger)'
  BY <1>2, <1>3, <1>4, <1>10 DEF UsageInv, Witnessed
<1>13. WorkerKnows'
  BY <1>1, <1>2, <1>3, <1>4, <1>5, <1>7, <1>9, <1>10
     DEF WorkerKnows, U!Spaced, U!NewToIt
<1> QED
  BY <1>6, <1>11, <1>12, <1>13 DEF UsageInv

\* What is sent was reserved, and is sent once.
LEMMA SendKeeps ==
  ASSUME UsageInv, U!Send
  PROVE  UsageInv'
<1> DEFINE o == worker.owner
<1>1. worker \in Working /\ worker.stage = "reserved" /\ o \in Identities
  BY IdleWorker DEF U!Send, UsageInv, UsageType, Working
<1>2. /\ sent' = [sent EXCEPT ![o] = clock]
      /\ worker' = [worker EXCEPT !.stage = "sent"]
      /\ UNCHANGED <<clock, cycle, ledger, file, witnessed>>
  BY DEF U!Send
<1>3. \A i \in Identities : sent'[i] = IF i = o THEN clock ELSE sent[i]
  BY <1>1, <1>2 DEF UsageInv, UsageType, U!TypeOK
<1>4. /\ worker' \in Working /\ worker'.stage = "sent" /\ worker'.owner = o
      /\ worker'.now = worker.now /\ worker'.reset = worker.reset
  BY <1>1, <1>2 DEF Working
<1>5. UsageType'
  BY <1>1, <1>2, <1>4 DEF UsageInv, UsageType, U!TypeOK
<1>6. /\ worker.now = clock /\ ledger[o] # Nothing /\ ledger[o].attempted = clock
      /\ file[o] # Nothing /\ file[o].attempted = clock
  BY <1>1 DEF UsageInv, WorkerKnows
<1>7. clock >= clock
  BY UsageFacts
<1>8. Remembers(ledger)' /\ Remembers(file)'
  BY <1>2, <1>3, <1>6, <1>7 DEF UsageInv, Remembers
<1>9. Witnessed(ledger)' /\ WorkerKnows'
  BY <1>1, <1>2, <1>4 DEF UsageInv, Witnessed, WorkerKnows
<1> QED
  BY <1>5, <1>8, <1>9 DEF UsageInv

\* An answer closes the reservation, on disk or not.
LEMMA CompleteKeeps ==
  ASSUME UsageInv, NEW written \in BOOLEAN, U!Complete(written)
  PROVE  UsageInv'
<1> DEFINE o == worker.owner
           old == ledger[o]
           new == [old EXCEPT !.completed = TRUE, !.reset = worker.reset]
           book == [ledger EXCEPT ![o] = new]
<1>1. worker \in Working /\ worker.stage = "sent" /\ o \in Identities
  BY IdleWorker DEF U!Complete, UsageInv, UsageType, Working
<1>2. /\ old # Nothing /\ old \in U!Record /\ worker.reset <= cycle[o]
      /\ worker.reset \in 0..MaxCycle
  BY <1>1 DEF UsageInv, UsageType, U!TypeOK, WorkerKnows, Working
<1>3. book = [ledger EXCEPT ![o].completed = TRUE, ![o].reset = worker.reset]
  BY <1>1, <1>2 DEF UsageInv, UsageType, U!TypeOK
<1>4. /\ ledger' = book
      /\ file' = IF written THEN book ELSE file
      /\ worker' = U!Idle
      /\ witnessed' = [witnessed EXCEPT ![o] = worker.reset]
      /\ UNCHANGED <<clock, cycle, sent>>
  BY <1>3 DEF U!Complete, U!Remembered
<1>5. /\ new \in U!Record /\ new # Nothing /\ new.completed = TRUE
      /\ new.reset = worker.reset /\ new.attempted = old.attempted
  <2>1. new \in U!Record
    BY <1>2 DEF U!Record
  <2> QED
    BY <1>2, <2>1, UsageAssumption DEF UsageAssumption, U!Record
<1> HIDE DEF new
<1>6. \A i \in Identities : book[i] = IF i = o THEN new ELSE ledger[i]
  BY <1>1 DEF UsageInv, UsageType, U!TypeOK
<1>7. book \in [Identities -> U!Record \cup {Nothing}]
  BY <1>1, <1>5 DEF UsageInv, UsageType, U!TypeOK
<1> HIDE DEF book
<1>8. \A i \in Identities :
        witnessed'[i] = IF i = o THEN worker.reset ELSE witnessed[i]
  BY <1>1, <1>4 DEF UsageInv, UsageType, U!TypeOK
<1>9. UsageType'
  BY <1>1, <1>2, <1>4, <1>7, IdleWorker DEF UsageInv, UsageType, U!TypeOK
<1>10. Remembers(book)
  BY <1>1, <1>2, <1>4, <1>5, <1>6 DEF UsageInv, Remembers
<1>11. Remembers(ledger)' /\ Remembers(file)'
  <2>1. CASE written
    BY <1>4, <1>10, <2>1 DEF Remembers
  <2>2. CASE ~written
    BY <1>4, <1>10, <2>2 DEF UsageInv, Remembers
  <2> QED
    BY <2>1, <2>2
<1>12. worker.reset >= worker.reset
  BY <1>2
<1>13. Witnessed(ledger)'
  BY <1>4, <1>5, <1>6, <1>8, <1>12 DEF UsageInv, Witnessed
<1> QED
  BY <1>4, <1>9, <1>11, <1>13, IdleWorker DEF UsageInv, WorkerKnows

\* A restart reads the reservations of the file.
LEMMA UsageRestartKeeps ==
  ASSUME UsageInv, U!Restart
  PROVE  UsageInv'
<1>1. /\ worker' = U!Idle /\ ledger' = file
      /\ witnessed' = [o \in Identities |->
                         IF file[o] # Nothing /\ file[o].completed THEN file[o].reset
                         ELSE Nothing]
      /\ UNCHANGED <<clock, cycle, file, sent>>
  BY DEF U!Restart
<1>2. UsageType'
  BY <1>1, IdleWorker DEF UsageInv, UsageType, U!TypeOK, U!Record
<1>3. Witnessed(ledger)'
  BY <1>1, UsageFacts DEF Witnessed
<1> QED
  BY <1>1, <1>2, <1>3, IdleWorker DEF UsageInv, Remembers, WorkerKnows

\* Time and new cycles leave the reservations as they are.
LEMMA ClocksKeep ==
  ASSUME UsageInv, U!Tick \/ \E o \in Identities : U!NewCycle(o)
  PROVE  UsageInv'
<1>1. CASE U!Tick
  <2>1. /\ clock' \in 0..MaxClock /\ UNCHANGED <<cycle, ledger, file, worker, sent, witnessed>>
        /\ worker.stage \in {"idle", "sent"}
    BY <1>1, UsageAssumption DEF U!Tick, UsageInv, UsageType, U!TypeOK, UsageAssumption
  <2>2. UsageType' /\ WorkerKnows'
    BY <2>1 DEF UsageInv, UsageType, U!TypeOK, WorkerKnows
  <2> QED
    BY <2>1, <2>2 DEF UsageInv, Remembers, Witnessed
<1>2. ASSUME NEW o \in Identities, U!NewCycle(o) PROVE UsageInv'
  <2>1. /\ cycle' = [cycle EXCEPT ![o] = cycle[o] + 1]
        /\ cycle[o] < MaxCycle
        /\ UNCHANGED <<clock, ledger, file, worker, sent, witnessed>>
    BY <1>2 DEF U!NewCycle
  <2>2. cycle' \in [Identities -> 0..MaxCycle]
    BY <2>1, UsageAssumption DEF UsageInv, UsageType, U!TypeOK, UsageAssumption
  <2>3. \A i \in Identities : \A n \in Nat : n <= cycle[i] => n <= cycle'[i]
    <3>1. \A i \in Identities : /\ cycle[i] \in Nat
                                /\ cycle'[i] = IF i = o THEN cycle[i] + 1 ELSE cycle[i]
      BY <2>1 DEF UsageInv, UsageType, U!TypeOK
    <3> QED
      BY <3>1
  <2>4. UsageType'
    BY <2>1, <2>2 DEF UsageInv, UsageType, U!TypeOK
  <2>5. Remembers(ledger)' /\ Remembers(file)'
    BY <2>1, <2>3, UsageFacts DEF UsageInv, Remembers
  <2>6. WorkerKnows'
    BY <2>1, <2>3, UsageFacts DEF UsageInv, WorkerKnows, U!Spaced, U!NewToIt
  <2> QED
    BY <2>1, <2>4, <2>5, <2>6 DEF UsageInv, Witnessed
<1> QED
  BY <1>1, <1>2

\* The invariant of the activation holds after every step of its part.
LEMMA UsageStep == UsageInv /\ [U!Next]_usageVars => UsageInv'
<1> SUFFICES ASSUME UsageInv, [U!Next]_usageVars PROVE UsageInv'
  OBVIOUS
<1>1. CASE UNCHANGED usageVars
  BY <1>1 DEF usageVars, UsageInv, UsageType, U!TypeOK, Remembers, Witnessed,
              WorkerKnows, U!Spaced, U!NewToIt
<1>2. CASE U!Skip \/ U!Fail
  BY <1>2, StopKeeps DEF U!Skip, U!Fail
<1>3. ASSUME NEW written \in BOOLEAN, U!Reserve(written) PROVE UsageInv'
  <2>1. CASE written
    <3>1. U!Reserve(TRUE)
      BY <1>3, <2>1 DEF U!Reserve
    <3> QED
      BY <3>1, ReservedKeeps
  <2>2. CASE ~written
    BY <1>3, <2>2, StopKeeps DEF U!Reserve
  <2> QED
    BY <2>1, <2>2
<1> QED
  BY <1>1, <1>2, <1>3, PollKeeps, SendKeeps, CompleteKeeps, UsageRestartKeeps,
     ClocksKeep DEF U!Next

\* The invariant of the activation holds at the start.
LEMMA UsageStart == U!Init => UsageInv
BY IdleWorker, UsageAssumption
   DEF U!Init, UsageInv, UsageType, U!TypeOK, Remembers, Witnessed, WorkerKnows,
       UsageAssumption

\* A step of the whole is one of the activation, or leaves its variables alone.
LEMMA UsageAlone == [PartsNext]_parts => [U!Next]_usageVars
BY DEF PartsNext, parts, usageVars

(***************************************************************************)
(* No quota is activated twice within the cooldown, nor in a cycle that    *)
(* was seen activated, for any number of owners and any cooldown           *)
(* (usage_activation.rs and proxy/usage_activation.rs).  The invariant     *)
(* says that a record on disk remembers what was sent.                     *)
(***************************************************************************)
THEOREM ActivatedOnceAlways == PartsSpec => ActivatedOnce
<1> DEFINE Justified == U!Send => U!Spaced(worker.owner) /\ U!NewToIt(worker.owner)
<1>1. PartsInit => UsageInv
  BY UsageStart DEF PartsInit
<1>2. UsageInv /\ [PartsNext]_parts => UsageInv'
  BY UsageStep, UsageAlone
<1>3. UsageInv => (part = "usage" => U!TypeOK)
  BY DEF UsageInv, UsageType
<1>4. UsageInv => Justified
  BY IdleWorker DEF UsageInv, UsageType, WorkerKnows, U!Send
<1>5. PartsSpec => [](part = "usage" => U!TypeOK) /\ [][Justified]_(U!vars)
  <2>1. UsageInv /\ [PartsNext]_parts => [Justified]_(U!vars)
    BY <1>4
  <2> QED
    BY <1>1, <1>2, <1>3, <2>1, PTL DEF PartsSpec
<1> QED
  BY <1>5 DEF ActivatedOnce, U!ActivatedOnce

-----------------------------------------------------------------------------
(* A Claude Code session.                                                  *)

\* The request that holds the gate.
Asked ==
  [stage : {"choose", "sent", "resent"}, q : Asks, movable : BOOLEAN,
   exact : K!MaybeAlias, places : BOOLEAN, placement : K!MaybeAlias,
   remaining : SUBSET Accounts, moved : K!MaybeAlias,
   attempted : SUBSET K!MaybeIdentity, account : K!Account \cup {NoAccount},
   as : K!MaybeIdentity]

SessionType ==
  /\ K!TypeOK
  /\ asked = K!Idle \/ asked \in Asked
  /\ asked \in Asked /\ asked.stage # "choose" => asked.account \in K!Account
  /\ route \in Untouched

\* Credentials are known by an answer, or were mistaken for those that are.
KnownByAnswer == \A account \in creds : account.identity \in answerers \cup mistaken

\* What a request with account-owned context was first sent as.
SentAsKnown ==
  asked \in Asked /\ asked.stage = "sent" /\ asked.q.portability = "account" =>
    asked.account.identity \in answerers \cup mistaken \cup {asked.q.caller}

\* What is kept of the watched conversation is of its request and its source.
HistoryKnown ==
  /\ level = "new" => source = NoAccount
  /\ source # NoAccount /\ source \in exhausted => spent
  /\ asked \in Asked /\ asked.q.conversation = k => level = asked.q.portability

\* The request goes to the source, or went there.
AtSource(x) ==
  IF x.stage = "choose" THEN x.exact = source
  ELSE x.account.alias = source

\* Unless its quota runs out, a conversation that is not portable stays.
StaysAtSource ==
  level \in {"sticky", "account"} /\ source # NoAccount /\ ~spent =>
    /\ conv[k] = source
    /\ asked \in Asked /\ asked.q.conversation = k => AtSource(asked)

SessionInv ==
  SessionType /\ KnownByAnswer /\ SentAsKnown /\ HistoryKnown /\ StaysAtSource

-----------------------------------------------------------------------------

\* The gate that is free is held by no request.
LEMMA IdleAsked == K!Idle \notin Asked /\ K!Idle.stage = "idle"
BY DEF K!Idle, Asked

\* What a client asks for.
LEMMA AsksAre ==
  ASSUME NEW q \in Asks
  PROVE  /\ q.conversation \in {k, l} /\ q.portability \in K!Portability
         /\ q.caller \in Identities /\ q.pin = NoAccount /\ q.message \in BOOLEAN
<1>1. \E c \in {k, l}, p \in K!Portability, m \in BOOLEAN : q = Ask(c, p, m)
  BY DEF Asks, K!Portability
<1> QED
  BY <1>1 DEF Ask, Identities

\* What the type invariant says of the route, the source and the accounts.
LEMMA SessionTypes ==
  ASSUME SessionInv
  PROVE  /\ route.overridden = FALSE /\ route.assigned = NoAccount
         /\ source # NoAccount => source \in Accounts
         /\ \A a \in K!Account : a.alias \in Accounts /\ a.identity \in K!MaybeIdentity
         /\ \A x \in Asked :
              /\ x.q \in Asks /\ x.stage \in {"choose", "sent", "resent"}
              /\ x.remaining \subseteq Accounts
BY DEF SessionInv, SessionType, Untouched, K!TypeOK, K!Account, K!MaybeAlias, Asked

\* A conversation that is not portable is bound to its owner.
LEMMA AdmitKeepsSession ==
  ASSUME SessionInv, NEW q \in Asks, K!Admit(q)
  PROVE  SessionInv'
<1>1. PICK owner \in K!Owners(q) :
        asked' = [stage     |-> "choose",
                  q         |-> q,
                  movable   |-> K!Movable(q),
                  exact     |-> K!Or(K!Or(route.assigned, owner), q.pin),
                  places    |-> route.overridden /\ ~K!Hard(q),
                  placement |-> IF route.overridden THEN placed ELSE home,
                  remaining |-> Accounts,
                  moved     |-> NoAccount,
                  attempted |-> {},
                  account   |-> NoAccount,
                  as        |-> NoAccount]
  BY DEF K!Admit
<1>2. /\ q.conversation = k => level \in {"new", q.portability}
      /\ level' = IF q.conversation = k THEN q.portability ELSE level
      /\ UNCHANGED <<K!worldVars, K!bindingVars, streams, source, spent, answerers, mistaken>>
  BY DEF K!Admit
<1>3. UNCHANGED <<users, changes, exhausted, route, home, conv, creds, placed, streams,
                  source, spent, answerers, mistaken>>
  BY <1>2 DEF K!worldVars, K!bindingVars
<1>4. /\ q.conversation \in {k, l} /\ q.portability \in K!Portability
      /\ q.pin = NoAccount /\ q.caller \in Identities
  BY AsksAre
<1>5. /\ home \in K!MaybeAlias /\ placed \in K!MaybeAlias
      /\ conv \in [{k, l} -> K!MaybeAlias]
  BY DEF SessionInv, SessionType, K!TypeOK
<1>6. owner \in K!MaybeAlias
  BY <1>4, <1>5 DEF K!Owners, K!Own, K!Or, K!MaybeAlias, K!Rewritable
<1>7. K!Or(K!Or(route.assigned, owner), q.pin) = owner
  BY <1>4, SessionTypes DEF K!Or
<1>8. /\ asked'.stage = "choose" /\ asked'.q = q /\ asked'.exact = owner
      /\ asked' \in Asked
  <2>1. K!Movable(q) \in BOOLEAN /\ (route.overridden /\ ~K!Hard(q)) \in BOOLEAN
    BY DEF K!Movable
  <2> QED
    BY <1>1, <1>5, <1>6, <1>7, <2>1 DEF Asked, K!MaybeAlias, K!MaybeIdentity
<1>9. SessionType'
  BY <1>2, <1>3, <1>4, <1>8, IdleAsked
     DEF SessionInv, SessionType, K!TypeOK, K!Portability, Asked
<1>10. KnownByAnswer' /\ SentAsKnown' /\ HistoryKnown'
  BY <1>2, <1>3, <1>4, <1>8
     DEF SessionInv, KnownByAnswer, SentAsKnown, HistoryKnown, K!Portability
<1>11. StaysAtSource'
  <2> SUFFICES ASSUME level' \in {"sticky", "account"}, source # NoAccount, ~spent
               PROVE  /\ conv[k] = source
                      /\ q.conversation = k => owner = source
    BY <1>3, <1>8 DEF StaysAtSource, AtSource
  <2>1. level' = level
    BY <1>2 DEF SessionInv, HistoryKnown
  <2>2. conv[k] = source
    BY <2>1 DEF SessionInv, StaysAtSource
  <2>3. ASSUME q.conversation = k PROVE owner = source
    <3>1. q.portability \in {"sticky", "account"}
      BY <1>2, <2>3
    <3>2. K!Hard(q)
      BY <3>1, SessionTypes DEF K!Hard
    <3>3. K!Or(conv[q.conversation], home) = source /\ source # NoAccount
      BY <2>2, <2>3, SessionTypes, ClaudeAssumption DEF K!Or, ClaudeAssumption
    <3> QED
      BY <3>2, <3>3 DEF K!Owners, K!Rewritable
  <2> QED
    BY <2>2, <2>3
<1> QED
  BY <1>9, <1>10, <1>11 DEF SessionInv

\* What a round leaves of the request: the exact account, unless it is used up.
LEMMA AfterKeeps ==
  ASSUME SessionInv, NEW alias \in Accounts, NEW from \in K!MaybeAlias,
         K!Chooses(alias, from)
  PROVE  /\ asked \in Asked /\ asked.stage = "choose"
         /\ K!After(alias, from) \in Asked
         /\ K!After(alias, from).stage = "choose"
         /\ K!After(alias, from).q = asked.q
         /\ K!After(alias, from).attempted = asked.attempted
         /\ \/ K!LetsGo
            \/ asked.exact = NoAccount
            \/ K!After(alias, from).exact = asked.exact /\ alias = asked.exact
<1> DEFINE kept == IF K!LetsGo THEN NoAccount ELSE asked.exact
           left == asked.remaining \ {alias, IF K!LetsGo THEN asked.exact ELSE alias}
           after == [asked EXCEPT !.moved = from, !.exact = kept,
                                  !.placement = NoAccount, !.remaining = left]
<1>1. asked \in Asked /\ asked.stage = "choose"
  BY IdleAsked DEF K!Chooses, SessionInv, SessionType
<1>2. K!After(alias, from) = after
  BY DEF K!After
<1>3. kept \in K!MaybeAlias /\ left \subseteq Accounts
  BY <1>1 DEF Asked, K!MaybeAlias
<1>4. \/ K!LetsGo \/ asked.exact = NoAccount
      \/ kept = asked.exact /\ alias = asked.exact
  BY DEF K!Chooses
<1> HIDE DEF kept, left
<1>5. /\ after \in Asked /\ after.stage = "choose" /\ after.q = asked.q
      /\ after.attempted = asked.attempted /\ after.exact = kept
  BY <1>1, <1>3 DEF Asked, K!MaybeAlias
<1> HIDE DEF after
<1> QED
  BY <1>1, <1>2, <1>4, <1>5

\* A step of the request alone, on the conversation it has.
LEMMA RequestMoves ==
  ASSUME SessionInv, asked \in Asked, asked' \in Asked, asked'.q = asked.q,
         asked'.stage # "choose" => asked'.account \in K!Account,
         level \in {"sticky", "account"} /\ source # NoAccount /\ ~spent
           /\ asked.q.conversation = k => AtSource(asked)',
         asked'.stage = "sent" /\ asked.q.portability = "account" =>
           asked'.account.identity \in answerers \cup mistaken \cup {asked.q.caller},
         UNCHANGED <<users, changes, exhausted, route, home, conv, creds, placed,
                     streams, level, source, spent, answerers, mistaken>>
  PROVE  SessionInv'
<1>1. SessionType'
  BY IdleAsked DEF SessionInv, SessionType, K!TypeOK, Asked
<1>2. KnownByAnswer' /\ SentAsKnown' /\ HistoryKnown' /\ StaysAtSource'
  BY DEF SessionInv, KnownByAnswer, SentAsKnown, HistoryKnown, StaysAtSource
<1> QED
  BY <1>1, <1>2 DEF SessionInv

\* An exact source that lets go has run out of quota.
LEMMA SourceLetsGo ==
  ASSUME SessionInv, asked \in Asked, asked.stage = "choose", asked.q.conversation = k,
         level \in {"sticky", "account"}, source # NoAccount, ~spent
  PROVE  ~K!LetsGo /\ asked.exact = source /\ asked.exact # NoAccount
BY SessionTypes, ClaudeAssumption
   DEF SessionInv, StaysAtSource, AtSource, HistoryKnown, K!LetsGo, K!OutOfQuota,
       ClaudeAssumption

\* Account-owned context is sent as a user that the session knows.
LEMMA SentIsKnown ==
  ASSUME SessionInv, NEW alias \in Accounts, NEW from \in K!MaybeAlias,
         K!Send(alias, from), asked.q.portability = "account"
  PROVE  K!Resolved(alias).identity \in answerers \cup mistaken \cup {asked.q.caller}
<1>1. K!IdentityHolds(K!Resolved(alias))
  BY DEF K!Send
<1> QED
  BY <1>1 DEF K!IdentityHolds, K!CredentialKey, SessionInv, KnownByAnswer

\* A round of the loop keeps an exact source that does not let go.
LEMMA RoundKeeps ==
  ASSUME SessionInv, NEW alias \in Accounts, NEW from \in K!MaybeAlias,
         K!Skip(alias, from) \/ K!Send(alias, from)
  PROVE  SessionInv'
<1> DEFINE after == K!After(alias, from)
           account == K!Resolved(alias)
<1>1. K!Chooses(alias, from)
  BY DEF K!Skip, K!Send
<1>2. /\ asked \in Asked /\ asked.stage = "choose"
      /\ after \in Asked /\ after.stage = "choose" /\ after.q = asked.q
      /\ after.attempted = asked.attempted
      /\ K!LetsGo \/ asked.exact = NoAccount
           \/ (after.exact = asked.exact /\ alias = asked.exact)
  BY <1>1, AfterKeeps
<1>3. UNCHANGED <<users, changes, exhausted, route, home, conv, creds, placed,
                  streams, level, source, spent, answerers, mistaken>>
  BY DEF K!Skip, K!Send, K!worldVars, K!bindingVars, K!historyVars
<1>4. account \in K!Account /\ account.alias = alias
  BY <1>2, AsksAre DEF K!Resolved, K!ActsAs, K!Account, K!MaybeIdentity,
     SessionInv, SessionType, K!TypeOK, Asked
<1> HIDE DEF after, account
<1>5. CASE K!Skip(alias, from)
  <2>1. asked' = after
    BY <1>5 DEF K!Skip, after
  <2> QED
    BY <1>2, <1>3, <2>1, SourceLetsGo, RequestMoves DEF AtSource
<1>6. CASE K!Send(alias, from)
  <2> DEFINE tried == after.attempted \cup {account.identity}
  <2>1. asked' = [after EXCEPT !.stage = "sent", !.account = account,
                               !.as = account.identity, !.attempted = tried]
    BY <1>6 DEF K!Send, after, account
  <2>2. tried \subseteq K!MaybeIdentity
    BY <1>2, <1>4 DEF Asked, K!Account
  <2> HIDE DEF tried
  <2>3. /\ asked' \in Asked /\ asked'.stage = "sent" /\ asked'.account = account
        /\ asked'.q = asked.q
    BY <1>2, <1>4, <2>1, <2>2 DEF Asked, K!Account
  <2>4. asked.q.portability = "account" =>
          account.identity \in answerers \cup mistaken \cup {asked.q.caller}
    BY <1>6, SentIsKnown DEF account
  <2> QED
    BY <1>2, <1>3, <1>4, <2>3, <2>4, SourceLetsGo, RequestMoves DEF AtSource
<1> QED
  BY <1>5, <1>6

\* The second attempt goes where the first went.
LEMMA RefreshedKeeps ==
  ASSUME SessionInv, K!Refreshed
  PROVE  SessionInv'
<1>1. asked \in Asked /\ asked.stage = "sent"
  BY IdleAsked DEF K!Refreshed, SessionInv, SessionType
<1>4. asked.account \in K!Account
  BY <1>1 DEF SessionInv, SessionType
<1>2. /\ asked' \in Asked /\ asked'.q = asked.q /\ asked'.stage = "resent"
      /\ asked'.account = asked.account
  <2>1. users[asked.account.alias] \in K!MaybeIdentity
    BY <1>4 DEF SessionInv, SessionType, K!TypeOK, K!Account, K!MaybeIdentity
  <2> QED
    BY <1>1, <2>1 DEF K!Refreshed, Asked
<1>3. UNCHANGED <<users, changes, exhausted, route, home, conv, creds, placed,
                  streams, level, source, spent, answerers, mistaken>>
  BY DEF K!Refreshed, K!worldVars, K!bindingVars, K!historyVars
<1>5. level \in {"sticky", "account"} /\ source # NoAccount /\ ~spent
        /\ asked.q.conversation = k => AtSource(asked)'
  BY <1>1, <1>2, <1>3 DEF SessionInv, StaysAtSource, AtSource
<1> QED
  BY <1>1, <1>2, <1>3, <1>4, <1>5, RequestMoves

\* The request ends, or another failure begins a stream, and nothing is learnt.
LEMMA EndKeeps ==
  ASSUME SessionInv, asked' \in {asked, K!Idle}, streams' \in 0..MaxStreams,
         UNCHANGED <<users, changes, exhausted, route, home, conv, creds, placed,
                     level, source, spent, answerers, mistaken>>
  PROVE  SessionInv'
<1>1. SessionType'
  BY IdleAsked DEF SessionInv, SessionType, K!TypeOK
<1>2. KnownByAnswer' /\ SentAsKnown' /\ HistoryKnown' /\ StaysAtSource'
  BY IdleAsked DEF SessionInv, KnownByAnswer, SentAsKnown, HistoryKnown,
                   StaysAtSource, AtSource
<1> QED
  BY <1>1, <1>2 DEF SessionInv

\* A request that ends without an answer of its own teaches nothing.
LEMMA LeavingKeeps ==
  ASSUME SessionInv, K!GiveUp \/ K!Forward \/ K!Counted \/ K!StreamEnds
  PROVE  SessionInv'
<1>1. UNCHANGED <<users, changes, exhausted, route, home, conv, creds, placed,
                  level, source, spent, answerers, mistaken>>
  BY DEF K!GiveUp, K!Forward, K!Counted, K!StreamEnds, K!worldVars, K!bindingVars,
         K!historyVars
<1>2. asked' \in {asked, K!Idle}
  BY DEF K!GiveUp, K!Forward, K!Counted, K!StreamEnds, K!Done
<1>3. streams \in 0..MaxStreams /\ MaxStreams \in Nat
  BY ClaudeAssumption DEF SessionInv, SessionType, K!TypeOK, ClaudeAssumption
<1>4. streams' \in 0..MaxStreams
  <2>1. CASE K!GiveUp
    BY <1>3, <2>1 DEF K!GiveUp
  <2>2. CASE K!Forward
    BY <1>3, <2>2 DEF K!Forward
  <2>3. CASE K!Counted \/ K!StreamEnds
    BY <1>3, <2>3 DEF K!Counted, K!StreamEnds
  <2> QED
    BY <2>1, <2>2, <2>3
<1> QED
  BY <1>1, <1>2, <1>4, EndKeeps

\* An account whose quota runs out lets the source go only if it is the source.
LEMMA ExhaustedKeeps ==
  ASSUME SessionInv, K!Exhausted
  PROVE  SessionInv'
<1> DEFINE alias == asked.account.alias
           gone == IF asked.exact # NoAccount \/ home = alias THEN alias ELSE asked.moved
           again == [asked EXCEPT !.stage = "choose", !.exact = NoAccount,
                                  !.account = NoAccount, !.as = NoAccount, !.moved = gone]
<1>1. /\ asked \in Asked /\ asked.stage # "choose" /\ asked.account \in K!Account
      /\ alias \in Accounts
  BY IdleAsked DEF K!Exhausted, K!Sent, SessionInv, SessionType, K!Account
<1>2. /\ exhausted' \in {exhausted, exhausted \cup {alias}}
      /\ spent' = K!SpentIn({alias})
      /\ asked' \in {K!Idle, again}
      /\ UNCHANGED <<users, changes, route, home, conv, creds, placed, streams, level,
                     source, answerers, mistaken>>
  BY DEF K!Exhausted, K!bindingVars, K!Done
<1>3. /\ spent' \in BOOLEAN
      /\ spent => spent'
      /\ source # NoAccount /\ source = alias => spent'
  <2>1. spent' = (spent \/ source \in {alias})
    BY <1>2 DEF K!SpentIn
  <2> QED
    BY <2>1
<1>4. gone \in K!MaybeAlias
  BY <1>1 DEF Asked, K!MaybeAlias
<1> HIDE DEF gone
<1>5. again \in Asked /\ again.stage = "choose" /\ again.q = asked.q
  BY <1>1, <1>4 DEF Asked, K!MaybeAlias, K!MaybeIdentity
<1> HIDE DEF again
<1>6. SessionType'
  BY <1>1, <1>2, <1>3, <1>5, IdleAsked DEF SessionInv, SessionType, K!TypeOK
<1>7. KnownByAnswer' /\ SentAsKnown' /\ HistoryKnown'
  BY <1>1, <1>2, <1>3, <1>5, IdleAsked
     DEF SessionInv, KnownByAnswer, SentAsKnown, HistoryKnown
<1>8. StaysAtSource'
  <2> SUFFICES ASSUME level \in {"sticky", "account"}, source # NoAccount, ~spent'
               PROVE  /\ conv[k] = source
                      /\ asked' \in Asked => asked'.q.conversation # k
    BY <1>2 DEF StaysAtSource
  <2>1. ~spent /\ source # alias
    BY <1>3
  <2> QED
    BY <1>1, <1>2, <1>5, <2>1, IdleAsked DEF SessionInv, StaysAtSource, AtSource
<1> QED
  BY <1>6, <1>7, <1>8 DEF SessionInv

\* A history that grows is portable to some extent.
LEMMA GrownIsPortable == K!Grown \subseteq K!Portability
<1>1. CASE level = "portable"
  BY <1>1 DEF K!Grown, K!Portability
<1>2. CASE level = "sticky"
  BY <1>2 DEF K!Grown, K!Portability
<1>3. CASE level # "portable" /\ level # "sticky"
  BY <1>3 DEF K!Grown, K!Portability
<1> QED
  BY <1>1, <1>2, <1>3

\* An answer binds its conversation before it becomes the source.
LEMMA AnsweredKeeps ==
  ASSUME SessionInv, NEW written \in 0..4, K!Answered(written)
  PROVE  SessionInv'
<1> DEFINE alias == asked.account.alias
           c == asked.q.conversation
<1>1. /\ asked \in Asked /\ asked.stage # "choose" /\ asked.account \in K!Account
      /\ alias \in Accounts /\ asked.account.identity \in K!MaybeIdentity
      /\ asked.as \in K!MaybeIdentity
  BY IdleAsked DEF K!Answered, K!Sent, SessionInv, SessionType, K!Account, Asked
<1>2. c \in {k, l} /\ asked.q.portability \in K!Portability
  BY <1>1, AsksAre DEF Asked
<1>3. /\ creds' \in {creds, creds \cup {asked.account}}
      /\ conv' \in {conv, [conv EXCEPT ![c] = alias]}
      /\ written = 4 => conv' = [conv EXCEPT ![c] = alias]
      /\ placed' \in {placed, alias}
      /\ home' \in {home, alias}
      /\ answerers' = answerers \cup {asked.as}
      /\ mistaken' \in {mistaken, mistaken \cup {asked.account.identity}}
      /\ creds' # creds => asked.account.identity \in answerers' \cup mistaken'
      /\ asked' = K!Idle
      /\ UNCHANGED <<users, changes, exhausted, route>>
  BY DEF K!Answered, K!CredentialKey, K!Done, K!worldVars
<1>4. streams' \in 0..MaxStreams
  BY ClaudeAssumption DEF K!Answered, SessionInv, SessionType, K!TypeOK, ClaudeAssumption
<1>5. \/ UNCHANGED <<source, spent, level>>
      \/ /\ written = 4 /\ c = k
         /\ source' = alias
         /\ spent' = (alias \in exhausted)
         /\ level' \in K!Grown
  BY DEF K!Answered
<1>6. level' \in K!Portability \cup {level}
  BY <1>5, GrownIsPortable
<1>7. spent' \in BOOLEAN /\ source' \in K!MaybeAlias
  <2>1. CASE UNCHANGED <<source, spent, level>>
    BY <2>1 DEF SessionInv, SessionType, K!TypeOK
  <2>2. CASE source' = alias /\ spent' = (alias \in exhausted)
    BY <1>1, <2>2 DEF K!MaybeAlias
  <2> QED
    BY <1>5, <2>1, <2>2
<1>8. SessionType'
  BY <1>1, <1>2, <1>3, <1>4, <1>6, <1>7, IdleAsked
     DEF SessionInv, SessionType, K!TypeOK, K!MaybeAlias, K!MaybeIdentity
<1>9. KnownByAnswer' /\ SentAsKnown'
  BY <1>3, IdleAsked DEF SessionInv, KnownByAnswer, SentAsKnown
<1>10. HistoryKnown'
  <2>1. level' = "new" => source' = NoAccount
    BY <1>5, GrownIsPortable DEF SessionInv, HistoryKnown, K!Portability
  <2>2. source' # NoAccount /\ source' \in exhausted => spent'
    BY <1>1, <1>5 DEF SessionInv, HistoryKnown
  <2> QED
    BY <1>3, <2>1, <2>2, IdleAsked DEF HistoryKnown
<1>11. StaysAtSource'
  <2> SUFFICES ASSUME level' \in {"sticky", "account"}, source' # NoAccount, ~spent'
               PROVE  conv'[k] = source'
    BY <1>3, IdleAsked DEF StaysAtSource
  <2>1. conv \in [{k, l} -> K!MaybeAlias]
    BY DEF SessionInv, SessionType, K!TypeOK
  <2>2. CASE c = k /\ source' = alias /\ written = 4
    BY <1>3, <2>1, <2>2
  <2>3. CASE UNCHANGED <<source, spent, level>>
    BY <1>1, <1>2, <1>3, <2>1, <2>3 DEF SessionInv, StaysAtSource, AtSource
  <2> QED
    BY <1>5, <2>2, <2>3
<1> QED
  BY <1>8, <1>9, <1>10, <1>11 DEF SessionInv

\* A source whose quota runs out elsewhere is spent.
LEMMA QuotaKeepsSession ==
  ASSUME SessionInv, NEW alias \in Accounts, K!QuotaChanges(alias)
  PROVE  SessionInv'
<1>1. /\ exhausted' \subseteq exhausted \cup {alias}
      /\ UNCHANGED <<users, changes, route, home, conv, creds, placed, streams, asked,
                     level, source, answerers, mistaken>>
  BY DEF K!QuotaChanges, K!bindingVars
<1>2. /\ spent' \in BOOLEAN
      /\ spent => spent'
      /\ source # NoAccount /\ source \in exhausted' => spent'
  BY DEF K!QuotaChanges, K!SpentIn, SessionInv, SessionType, K!TypeOK
<1>3. SessionType'
  BY <1>1, <1>2 DEF SessionInv, SessionType, K!TypeOK
<1>4. KnownByAnswer' /\ SentAsKnown' /\ HistoryKnown' /\ StaysAtSource'
  BY <1>1, <1>2
     DEF SessionInv, KnownByAnswer, SentAsKnown, HistoryKnown, StaysAtSource, AtSource
<1> QED
  BY <1>3, <1>4 DEF SessionInv

\* A login does not change whose credentials are known.
LEMMA LoginKeepsSession ==
  ASSUME SessionInv, NEW alias \in Accounts, NEW identity \in Identities,
         K!Login(alias, identity)
  PROVE  SessionInv'
<1>1. /\ exhausted' \subseteq exhausted
      /\ users' = [users EXCEPT ![alias] = identity]
      /\ UNCHANGED <<route, home, conv, creds, placed, streams, asked,
                     level, source, spent, answerers, mistaken>>
  BY DEF K!Login, K!bindingVars, K!historyVars
<1>2. SessionType'
  BY <1>1 DEF SessionInv, SessionType, K!TypeOK
<1>3. KnownByAnswer' /\ SentAsKnown' /\ HistoryKnown' /\ StaysAtSource'
  BY <1>1 DEF SessionInv, KnownByAnswer, SentAsKnown, HistoryKnown, StaysAtSource,
              AtSource
<1> QED
  BY <1>2, <1>3 DEF SessionInv

-----------------------------------------------------------------------------

\* The invariant of the session holds after every step of its own.
LEMMA SessionStep ==
  ASSUME SessionInv, K!Next
  PROVE  SessionInv'
<1>1. ASSUME NEW q \in Asks, K!Admit(q) PROVE SessionInv'
  BY <1>1, AdmitKeepsSession
<1>2. ASSUME NEW alias \in Accounts, NEW from \in K!MaybeAlias,
             K!Skip(alias, from) \/ K!Send(alias, from)
      PROVE  SessionInv'
  BY <1>2, RoundKeeps
<1>3. ASSUME NEW written \in 0..4, K!Answered(written) PROVE SessionInv'
  BY <1>3, AnsweredKeeps
<1>4. ASSUME NEW alias \in Accounts, K!QuotaChanges(alias) PROVE SessionInv'
  BY <1>4, QuotaKeepsSession
<1>5. ASSUME NEW alias \in Accounts, NEW identity \in Identities, K!Login(alias, identity)
      PROVE  SessionInv'
  BY <1>5, LoginKeepsSession
<1> QED
  BY <1>1, <1>2, <1>3, <1>4, <1>5, RefreshedKeeps, ExhaustedKeeps, LeavingKeeps DEF K!Next

\* The invariant of the session holds at the start.
LEMMA SessionStart ==
  ASSUME PartsInit
  PROVE  SessionInv
<1>1. K!Init /\ asked = K!Idle /\ route \in Untouched
  BY DEF PartsInit, K!Init
<1>2. SessionType
  <2>1. conv \in [{k, l} -> K!MaybeAlias] /\ home \in K!MaybeAlias /\ placed \in K!MaybeAlias
        /\ source \in K!MaybeAlias
    BY <1>1 DEF K!Init, K!MaybeAlias
  <2>2. streams \in 0..MaxStreams
    BY <1>1, ClaudeAssumption DEF K!Init, ClaudeAssumption
  <2>3. route \in K!Route
    <3>1. [overridden |-> FALSE, assigned |-> NoAccount] \in K!Route
      BY DEF K!Route, K!MaybeAlias
    <3> QED
      BY <1>1, <3>1 DEF Untouched
  <2>4. asked.stage = "idle"
    BY <1>1 DEF K!Idle
  <2> QED
    BY <1>1, <2>1, <2>2, <2>3, <2>4, IdleAsked DEF SessionType, K!TypeOK, K!Init
<1>3. KnownByAnswer /\ SentAsKnown /\ HistoryKnown /\ StaysAtSource
  BY <1>1, IdleAsked DEF KnownByAnswer, SentAsKnown, HistoryKnown, StaysAtSource, K!Init
<1> QED
  BY <1>2, <1>3 DEF SessionInv

\* A step of the whole is one of the session, or leaves its variables alone.
LEMMA SessionAlone ==
  ASSUME [PartsNext]_parts
  PROVE  [K!Next]_(K!vars)
BY DEF PartsNext, parts, claudeVars, K!vars

\* The invariant of the session holds after every step of the whole.
LEMMA SessionStays ==
  ASSUME SessionInv, [PartsNext]_parts
  PROVE  SessionInv'
<1>1. CASE K!Next
  BY <1>1, SessionStep
<1>2. CASE UNCHANGED K!vars
  <2>1. UNCHANGED <<users, changes, exhausted, route, home, conv, creds, placed,
                    streams, level, source, spent, answerers, mistaken>> /\ asked' = asked
    BY <1>2 DEF K!vars
  <2>2. streams' \in 0..MaxStreams
    BY <2>1 DEF SessionInv, SessionType, K!TypeOK
  <2> QED
    BY <2>1, <2>2, EndKeeps
<1> QED
  BY <1>1, <1>2, SessionAlone

\* What is sent was chosen.
LEMMA SendIsChosen ==
  ASSUME SessionInv, K!Next, K!Sends
  PROVE  \E alias \in Accounts, from \in K!MaybeAlias : K!Send(alias, from)
<1>1. asked.stage = "choose" /\ asked'.stage = "sent"
  BY DEF K!Sends
<1>2. asked \in Asked
  BY <1>1, IdleAsked DEF SessionInv, SessionType
<1>3. asked # K!Idle /\ ~K!Sent
  BY <1>1, IdleAsked DEF K!Sent
<1>4. ASSUME NEW alias \in Accounts, NEW from \in K!MaybeAlias, K!Skip(alias, from)
      PROVE  FALSE
  <2>1. asked' = K!After(alias, from) /\ K!Chooses(alias, from)
    BY <1>4 DEF K!Skip
  <2> QED
    BY <1>1, <2>1, AfterKeeps
<1>5. asked' # asked /\ asked' # K!Idle
  BY <1>1, IdleAsked
<1> QED
  BY <1>1, <1>3, <1>4, <1>5
     DEF K!Next, K!Admit, K!Refreshed, K!Exhausted, K!Forward, K!GiveUp, K!Answered,
         K!Counted, K!StreamEnds, K!QuotaChanges, K!Login, K!Done

\* The account of a request that is sent is the one chosen, and the exact one
\* unless that is let go.
LEMMA SentToChosen ==
  ASSUME SessionInv, NEW alias \in Accounts, NEW from \in K!MaybeAlias,
         K!Send(alias, from)
  PROVE  /\ asked \in Asked /\ asked.stage = "choose"
         /\ K!SentTo = K!Resolved(alias) /\ asked'.as = K!Resolved(alias).identity
         /\ asked'.stage = "sent"
         /\ K!LetsGo \/ asked.exact \in {NoAccount, alias}
<1> DEFINE after == K!After(alias, from)
           account == K!Resolved(alias)
           tried == after.attempted \cup {account.identity}
<1>1. K!Chooses(alias, from)
  BY DEF K!Send
<1>2. /\ asked \in Asked /\ asked.stage = "choose" /\ after \in Asked
      /\ K!LetsGo \/ asked.exact \in {NoAccount, alias}
  BY <1>1, AfterKeeps
<1>3. asked' = [after EXCEPT !.stage = "sent", !.account = account,
                             !.as = account.identity, !.attempted = tried]
  BY DEF K!Send
<1> HIDE DEF after, account, tried
<1>4. asked'.account = account /\ asked'.as = account.identity /\ asked'.stage = "sent"
  BY <1>2, <1>3 DEF Asked
<1> QED
  BY <1>2, <1>4 DEF K!SentTo, account

\* A second send is as the user of the first, or as one logged in since.
LEMMA ResendIsKnown ==
  ASSUME SessionInv, K!Next, K!Resends, asked.q.portability = "account"
  PROVE  asked'.as \in answerers \cup mistaken \cup {asked.q.caller} \cup K!LoggedInSince
<1>1. asked.stage = "sent" /\ asked'.stage = "resent"
  BY DEF K!Resends
<1>2. asked \in Asked
  BY <1>1, IdleAsked DEF SessionInv, SessionType
<1>3. asked # K!Idle /\ asked' # asked /\ asked' # K!Idle
  BY <1>1, IdleAsked
<1>4. ASSUME NEW alias \in Accounts, NEW from \in K!MaybeAlias,
             K!Skip(alias, from) \/ K!Send(alias, from)
      PROVE  FALSE
  BY <1>1, <1>4 DEF K!Skip, K!Send, K!Chooses
<1>5. ~K!Exhausted
  <2> DEFINE alias == asked.account.alias
             gone == IF asked.exact # NoAccount \/ home = alias THEN alias ELSE asked.moved
             again == [asked EXCEPT !.stage = "choose", !.exact = NoAccount,
                                    !.account = NoAccount, !.as = NoAccount,
                                    !.moved = gone]
  <2>1. K!Exhausted => asked' \in {K!Idle, again}
    BY DEF K!Exhausted, K!Done
  <2> HIDE DEF gone
  <2>2. again.stage = "choose"
    BY <1>2 DEF Asked
  <2> HIDE DEF again
  <2> QED
    BY <1>1, <1>3, <2>1, <2>2
<1>6. K!Refreshed
  <2>1. ~K!Forward /\ ~K!GiveUp /\ ~K!Counted /\ ~K!StreamEnds
    BY <1>3 DEF K!Forward, K!GiveUp, K!Counted, K!StreamEnds, K!Done
  <2>2. \A q \in Asks : ~K!Admit(q)
    BY <1>3 DEF K!Admit
  <2>3. \A written \in 0..4 : ~K!Answered(written)
    BY <1>3 DEF K!Answered, K!Done
  <2>4. \A alias \in Accounts :
          ~K!QuotaChanges(alias) /\ \A identity \in Identities : ~K!Login(alias, identity)
    BY <1>3 DEF K!QuotaChanges, K!Login
  <2> QED
    BY <1>4, <1>5, <2>1, <2>2, <2>3, <2>4 DEF K!Next
<1>7. asked'.account = asked.account
  BY <1>1, <1>2, <1>6 DEF K!Refreshed, Asked
<1>8. asked.account.identity \in answerers \cup mistaken \cup {asked.q.caller}
  BY <1>1, <1>2 DEF SessionInv, SentAsKnown
<1> QED
  BY <1>7, <1>8 DEF K!LoggedInSince, K!SentTo

(***************************************************************************)
(* Of a Claude Code session: the type invariant; a conversation that is    *)
(* sticky goes on with the account that answered it until that account's   *)
(* quota runs out; and context that belongs to an account is sent, the     *)
(* first time and after a 401, only as a user that has answered the        *)
(* session or was recorded for an answer, as the caller's own, or as one   *)
(* logged in since the first send (src/proxy/claude.rs, handle_claude).    *)
(* The invariant follows the source of the watched conversation into its   *)
(* binding and into the request that holds the gate, and the known         *)
(* credentials back to answers.                                            *)
(***************************************************************************)
THEOREM ClaudeContinuityAlways == PartsSpec => ClaudeContinuity
<1> DEFINE Typed == part = "claude" => K!TypeOK
           Stays == K!Sends /\ k = asked.q.conversation /\ K!Rewritable(asked.q)
                      /\ asked.q.portability = "sticky" /\ ~route.overridden
                      /\ source # NoAccount /\ ~spent
                      => K!SentTo.alias = source
           Known == (K!Sends \/ K!Resends)
                      /\ asked.q.portability = "account" /\ K!SentTo.alias \notin {}
                      => asked'.as \in answerers \cup mistaken \cup {asked.q.caller}
                                         \cup K!LoggedInSince
<1>1. PartsInit => SessionInv
  BY SessionStart
<1>2. SessionInv /\ [PartsNext]_parts => SessionInv'
  BY SessionStays
<1>3. SessionInv => Typed
  BY DEF SessionInv, SessionType
<1>4. ASSUME SessionInv, NEW alias \in Accounts, NEW from \in K!MaybeAlias,
             K!Send(alias, from)
      PROVE  Stays /\ Known
  <2>1. /\ asked \in Asked /\ asked.stage = "choose"
        /\ K!SentTo = K!Resolved(alias) /\ asked'.as = K!Resolved(alias).identity
        /\ K!LetsGo \/ asked.exact \in {NoAccount, alias}
    BY <1>4, SentToChosen
  <2>2. K!Resolved(alias).alias = alias
    BY DEF K!Resolved
  <2>3. Stays
    <3> SUFFICES ASSUME k = asked.q.conversation, asked.q.portability = "sticky",
                        source # NoAccount, ~spent
                 PROVE  alias = source
      BY <2>1, <2>2
    <3>1. level = "sticky"
      BY <1>4, <2>1 DEF SessionInv, HistoryKnown
    <3> QED
      BY <1>4, <2>1, <3>1, SourceLetsGo
  <2>4. Known
    BY <1>4, <2>1, SentIsKnown
  <2> QED
    BY <2>3, <2>4
<1>5. SessionInv /\ [PartsNext]_parts => [Stays]_(K!vars) /\ [Known]_(K!vars)
  <2> SUFFICES ASSUME SessionInv, K!Next
               PROVE  Stays /\ Known
    BY SessionAlone
  <2>1. CASE K!Sends
    BY <1>4, <2>1, SendIsChosen
  <2>2. CASE K!Resends
    <3>1. ~K!Sends
      BY <2>2 DEF K!Sends, K!Resends
    <3> QED
      BY <2>2, <3>1, ResendIsKnown
  <2>3. CASE ~K!Sends /\ ~K!Resends
    BY <2>3
  <2> QED
    BY <2>1, <2>2, <2>3
<1> HIDE DEF Typed, Stays, Known
<1>6. PartsSpec => []Typed /\ [][Stays]_(K!vars) /\ [][Known]_(K!vars)
  BY <1>1, <1>2, <1>3, <1>5, PTL DEF PartsSpec
<1> QED
  BY <1>6 DEF ClaudeContinuity, K!StickyMovesForQuota, K!AccountContextKnown, Typed, Stays, Known
=============================================================================
