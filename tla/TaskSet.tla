------------------------------ MODULE TaskSet -------------------------------
(***************************************************************************)
(* The tasks of the proxy that outlive a call (proxy/mod.rs, spawn_tracked *)
(* and its kin): connections that a listener accepts, and what they start  *)
(* in their turn, bridge sessions, their writers, raw upgrades.  They are  *)
(* kept in one set behind an asynchronous lock, so that the daemon can end *)
(* them all before it goes on (main.rs calls shutdown_connections after it *)
(* has ended the listeners).  A handler of an HTTP/2 stream is a task of   *)
(* hyper's own: it is not in the set, may outlive its connection, and may  *)
(* start tasks at any time.                                                *)
(*                                                                         *)
(* An aborted task ends at its next await.  A task waiting for the lock of *)
(* the set is at an await.                                                 *)
(***************************************************************************)
EXTENDS Naturals, FiniteSets

CONSTANTS
  Tasks,
  Streams,       \* handlers that are not in the set
  Listener,
  MaxConnections

VARIABLES
  phase,     \* of each task: "none", "wanted" (its spawner waits for the lock),
             \* "running", "aborted", "ended", "refused"
  spawner,   \* who started it, or wants to
  handle,    \* its spawner keeps a TrackedTask of it
  listening, \* the listener has not been ended
  down,      \* shutting_down
  stopping   \* shutdown_connections: "no", "flagged", "joining" (it holds the
             \* lock), "done"

taskVars == <<phase, spawner, handle, listening, down, stopping>>

Spawners == Tasks \cup Streams \cup {Listener}

Init ==
  /\ phase = [t \in Tasks |-> "none"]
  /\ spawner = [t \in Tasks |-> Listener]
  /\ handle = [t \in Tasks |-> FALSE]
  /\ listening = TRUE
  /\ down = FALSE
  /\ stopping = "no"

Alive(s) ==
  s \in Streams \cup {t \in Tasks : phase[t] = "running"}
         \cup (IF listening THEN {Listener} ELSE {})

\* A permit goes with a connection from before it is spawned until it is gone.
Permits == {t \in Tasks : spawner[t] = Listener
                          /\ phase[t] \in {"wanted", "running", "aborted"}}

\* serve_tcp drops a connection it has no permit for.  A spawner waits for one
\* task at a time.
MaySpawn(s) ==
  /\ Alive(s)
  /\ \A t \in Tasks : ~(spawner[t] = s /\ phase[t] = "wanted")
  /\ s = Listener => Cardinality(Permits) < MaxConnections

\* spawn_tracked, or spawn_tracked_task, which returns a handle, up to the lock.
Want(t, s, h) ==
  /\ phase[t] = "none" /\ t # s /\ MaySpawn(s)
  /\ h => s \in Tasks
  /\ handle' = [handle EXCEPT ![t] = h]
  /\ spawner' = [spawner EXCEPT ![t] = s]
  /\ phase' = [phase EXCEPT ![t] = IF down THEN "refused" ELSE "wanted"]
  /\ UNCHANGED <<listening, down, stopping>>

\* Mutant: the flag is not looked at again under the lock.
AcceptsUnchecked == TRUE

\* The flag is looked at again under the lock.
Accepts == ~down

\* The rest of it, once the lock is free.
Spawn(t) ==
  /\ phase[t] = "wanted" /\ Alive(spawner[t])
  /\ stopping # "joining"
  /\ phase' = [phase EXCEPT ![t] = IF Accepts THEN "running" ELSE "refused"]
  /\ UNCHANGED <<spawner, handle, listening, down, stopping>>

\* A task is over: with it goes what it was about to start, and the tasks it
\* keeps a handle of are aborted (TrackedTask's drop).
Ends(t) ==
  [x \in Tasks |->
     IF x = t THEN "ended"
     ELSE IF spawner[x] # t THEN phase[x]
     ELSE CASE phase[x] = "wanted" -> "refused"
            [] phase[x] = "running" /\ handle[x] -> "aborted"
            [] OTHER -> phase[x]]

End(t) ==
  /\ phase[t] \in {"running", "aborted"}
  /\ phase' = Ends(t)
  /\ UNCHANGED <<spawner, handle, listening, down, stopping>>

\* TrackedTask's cancel, and wait_timeout when the time is over.
Cancel(t) ==
  /\ phase[t] = "running" /\ handle[t] /\ Alive(spawner[t])
  /\ phase' = [phase EXCEPT ![t] = "aborted"]
  /\ UNCHANGED <<spawner, handle, listening, down, stopping>>

\* main ends the listeners first.
StopListener ==
  /\ listening
  /\ listening' = FALSE
  /\ phase' = [t \in Tasks |-> IF spawner[t] = Listener /\ phase[t] = "wanted"
                               THEN "refused" ELSE phase[t]]
  /\ UNCHANGED <<spawner, handle, down, stopping>>

\* shutdown_connections
Flag ==
  /\ ~listening /\ stopping = "no"
  /\ down' = TRUE /\ stopping' = "flagged"
  /\ UNCHANGED <<phase, spawner, handle, listening>>

AbortAll ==
  /\ stopping = "flagged"
  /\ stopping' = "joining"
  /\ phase' = [t \in Tasks |-> IF phase[t] = "running" THEN "aborted" ELSE phase[t]]
  /\ UNCHANGED <<spawner, handle, listening, down>>

Joined ==
  /\ stopping = "joining"
  /\ \A t \in Tasks : phase[t] \notin {"running", "aborted"}
  /\ stopping' = "done"
  /\ UNCHANGED <<phase, spawner, handle, listening, down>>

Next ==
  \/ \E t \in Tasks :
       \/ \E s \in Spawners, h \in BOOLEAN : Want(t, s, h)
       \/ Spawn(t)
       \/ End(t)
       \/ Cancel(t)
  \/ StopListener
  \/ Flag
  \/ AbortAll
  \/ Joined

\* When shutdown_connections has returned no task of the proxy runs, and none
\* begins: the daemon goes on to write its statistics, or to start anew in the
\* same process, with the leases cleared and nobody left who holds one.
\* Connections never exceed their permits.
NothingAfterShutdown ==
  /\ stopping = "done" => \A t \in Tasks : phase[t] \notin {"running", "aborted"}
  /\ Cardinality(Permits) <= MaxConnections
=============================================================================
