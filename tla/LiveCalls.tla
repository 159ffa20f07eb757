----------------------------- MODULE LiveCalls -----------------------------
(***************************************************************************)
(* The accounts of live voice calls (src/routing/live.rs): a bounded       *)
(* table that expires, and its snapshot on disk.  A call that was created  *)
(* upstream is bound before the answer goes to the client, and the         *)
(* sockets that join the call later look its account up, also after a      *)
(* restart.  The table's lock is held across the write, so an operation    *)
(* is one step.                                                            *)
(***************************************************************************)
EXTENDS Naturals, FiniteSets

CONSTANTS
  Calls, Accounts,
  MaxEntries,   \* max_entries
  TTL,          \* ttl, in seconds
  MaxSeconds,   \* bound on the clock
  MaxBinds      \* bound on the order of the bindings of one run of the daemon

VARIABLES
  inner,        \* the table: account, second, and age rank of each binding
  snapshot,     \* the file: the same without the rank
  clock,        \* unix_now, in seconds
  answered      \* history: the calls whose creation was answered, and when

vars == <<inner, snapshot, clock, answered>>

-----------------------------------------------------------------------------

(***************************************************************************)
(* `created` is finer than the second that the file keeps.  `rank` orders  *)
(* the bindings of one second; what was read from the file is older than   *)
(* any binding made since, and has no order among itself.                  *)
(***************************************************************************)
Binding == [account : Accounts, second : 0..MaxSeconds, rank : 0..MaxBinds]

Persisted == [account : Accounts, second : 0..MaxSeconds]

IsTable(f, S) == DOMAIN f \subseteq Calls /\ \A c \in DOMAIN f : f[c] \in S

Init ==
  /\ inner = <<>>
  /\ snapshot = <<>>
  /\ clock = 0
  /\ answered = <<>>

Keep(f, D) == [c \in D |-> f[c]]

Fresh(b) == clock - b.second <= TTL

\* expire
Unexpired == Keep(inner, {c \in DOMAIN inner : Fresh(inner[c])})

Older(x, y) ==
  \/ x.second < y.second
  \/ x.second = y.second /\ x.rank <= y.rank

\* The tables that eviction may leave: the oldest binding goes.
Evicted(f) ==
  IF Cardinality(DOMAIN f) <= MaxEntries THEN {f}
  ELSE {Keep(f, DOMAIN f \ {c}) :
          c \in {d \in DOMAIN f : \A e \in DOMAIN f : Older(f[d], f[e])}}

Set(f, c, x) == [d \in DOMAIN f \cup {c} |-> IF d = c THEN x ELSE f[d]]

\* The rank after the last one.
NextRank ==
  {n \in 1..MaxBinds :
     /\ \A c \in DOMAIN inner : inner[c].rank < n
     /\ n = 1 \/ \E c \in DOMAIN inner : inner[c].rank = n - 1}

\* persist
Persist(f) ==
  snapshot' = [c \in DOMAIN f |-> [account |-> f[c].account, second |-> f[c].second]]

\* Mutant: a binding that was not written stays in the table.
UnsavedKept(f, c) == f

\* A binding that was not written is taken back; what it evicted stays away.
Unsaved(f, c) == Keep(f, DOMAIN f \ {c})

(***************************************************************************)
(* bind, for a call that `a` created.  The creation is answered if the     *)
(* call is bound to that account, and with an error otherwise.             *)
(***************************************************************************)
Bind(c, a, written) ==
  IF c \in DOMAIN Unexpired
  THEN /\ inner' = Unexpired
       /\ UNCHANGED <<snapshot, clock, answered>>
  ELSE /\ \E rank \in NextRank :
          \E table \in Evicted(Set(Unexpired, c,
               [account |-> a, second |-> clock, rank |-> rank])) :
            IF written
            THEN /\ inner' = table
                 /\ Persist(table)
                 /\ answered' = Set(answered, c, [account |-> a, second |-> clock])
            ELSE /\ inner' = Unsaved(table, c)
                 /\ UNCHANGED <<snapshot, answered>>
       /\ UNCHANGED clock

\* account: a lookup forgets what has expired.
Lookup ==
  /\ inner' = Unexpired
  /\ UNCHANGED <<snapshot, clock, answered>>

\* The daemon stops and loads the snapshot: what has not expired, at most
\* max_entries, and no finer order than the second.
Restart ==
  /\ inner' = [c \in {d \in DOMAIN snapshot : Fresh(snapshot[d])} |->
                 [account |-> snapshot[c].account, second |-> snapshot[c].second,
                  rank |-> 0]]
  /\ UNCHANGED <<snapshot, clock, answered>>

Tick ==
  /\ clock < MaxSeconds
  /\ clock' = clock + 1
  /\ UNCHANGED <<inner, snapshot, answered>>

Next ==
  \/ \E c \in Calls, a \in Accounts, written \in BOOLEAN : Bind(c, a, written)
  \/ Lookup \/ Restart \/ Tick

Spec == Init /\ [][Next]_vars

-----------------------------------------------------------------------------
(* Properties.                                                             *)

TypeOK ==
  /\ IsTable(inner, Binding)
  /\ Cardinality(DOMAIN inner) <= MaxEntries
  /\ IsTable(snapshot, Persisted)
  /\ clock \in 0..MaxSeconds
  /\ IsTable(answered, Persisted)

Bound(c) ==
  /\ c \in DOMAIN inner
  /\ inner[c].account = answered[c].account

\* Calls whose creation was answered since that of c.
Since(c) == {d \in DOMAIN answered \ {c} : answered[d].second >= answered[c].second}

(***************************************************************************)
(* A call that was answered is found on its account until it expires or    *)
(* the table is full of younger ones: a snapshot that cannot be written    *)
(* costs at most one place, however often it fails and whenever the daemon *)
(* restarts.                                                               *)
(***************************************************************************)
AnsweredCallsKeepTheirAccount ==
  \A c \in DOMAIN answered :
    \/ ~Fresh(answered[c])
    \/ Bound(c)
    \/ Cardinality(Since(c)) >= MaxEntries - 1
=============================================================================
