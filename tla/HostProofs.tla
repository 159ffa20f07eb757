----------------------------- MODULE HostProofs -----------------------------
(***************************************************************************)
(* What holds of the bridge's table, the daemon, its tasks, its agent and  *)
(* the credentials of a Claude home, for all sets and bounds.  The table's *)
(* theorems are about BridgeSessions, the others about all behaviours of   *)
(* MCHost, where a step of the whole is a step of the part or leaves the   *)
(* part's variables alone.                                                 *)
(***************************************************************************)
EXTENDS MCHost, FiniteSetTheorems, TLAPS

\* The invariant of the table: each conjunct is inductive given TypeOK.
TableInv == TypeOK /\ RunningHoldsSlot /\ NoLostWakeup

-----------------------------------------------------------------------------
(* Types.                                                                  *)

\* What the runtime does by itself keeps the type invariant.
LEMMA WorkKeepsType ==
  ASSUME TypeOK, NEW c \in Clients, Work(c) PROVE TypeOK'
<1>1. \A place \in PC : Goto(c, place) => pc' \in [Clients -> PC]
  BY DEF Goto, TypeOK
<1>2. {"subscribe", "lock", "unlocked", "wait", "reclaimed", "admitted",
       "upgrade", "open", "create", "uncreate", "stop", "evicted", "failed", "finish",
       "told", "ended"} \subseteq PC
  BY DEF PC, Admitting, Running
<1>3. CASE Subscribe(c) \/ NoneIdle(c) \/ Poll(c) \/ TellReclaimed(c) \/ Wake(c)
  BY <1>1, <1>2, <1>3
     DEF Subscribe, NoneIdle, Poll, TellReclaimed, Wake, NotifyWaiters, TypeOK
<1>4. CASE Admit(c)
  BY <1>1, <1>2, <1>4 DEF Admit, TypeOK
<1>5. CASE \E d \in Clients : Evict(c, d) \/ Reclaim(c, d)
  BY <1>1, <1>2, <1>5 DEF Evict, Reclaim, Evictable, TypeOK
<1>6. CASE Spawn(c) \/ Upgraded(c) \/ NoTurn(c) \/ TurnRefused(c)
           \/ TellUncreated(c)
  BY <1>1, <1>2, <1>6
     DEF Spawn, Upgraded, NoTurn, TurnRefused, TellUncreated, NotifyWaiters,
         TypeOK
<1>7. CASE StartTurn(c)
  BY <1>1, <1>2, <1>7 DEF StartTurn, Turn, TypeOK
<1>8. CASE Evicted(c) \/ Stop(c) \/ TellFinished(c)
  BY <1>1, <1>2, <1>8 DEF Evicted, Stop, TellFinished, NotifyWaiters, TypeOK
<1>9. CASE Finish(c)
  BY <1>1, <1>2, <1>9 DEF Finish, TypeOK
<1> QED
  BY <1>3, <1>4, <1>5, <1>6, <1>7, <1>8, <1>9 DEF Work

\* A turn's end and the environment keep the type invariant.
LEMMA OthersKeepType ==
  ASSUME TypeOK, NEW c \in Clients, Turns(c) \/ Environment(c) PROVE TypeOK'
<1>1. \A place \in PC : Goto(c, place) => pc' \in [Clients -> PC]
  BY DEF Goto, TypeOK
<1>2. {"subscribe", "create", "stop", "ended"} \subseteq PC
  BY DEF PC, Admitting, Running
<1>3. CASE Turns(c)
  BY <1>3 DEF Turns, TurnEnds, TurnTold, Turn, NotifyWaiters, TypeOK
<1>4. CASE Create(c)
  <2>1. creates[c] + 1 \in 0..MaxCreates
    BY <1>4, BridgeSessionsAssumption
       DEF Create, TypeOK, BridgeSessionsAssumption
  <2> QED
    BY <1>1, <1>2, <1>4, <2>1 DEF Create, TypeOK
<1>5. CASE Arrive(c) \/ Deadline(c) \/ HandlerDropped(c) \/ Leave(c)
           \/ IdleTimeout(c)
  BY <1>1, <1>2, <1>5
     DEF Arrive, Deadline, HandlerDropped, Leave, IdleTimeout, TypeOK
<1>6. CASE Abort(c)
  BY <1>1, <1>2, <1>6 DEF Abort, NotifyWaiters, TypeOK
<1> QED
  BY <1>3, <1>4, <1>5, <1>6 DEF Environment

\* Every step keeps the type invariant.
LEMMA StepsKeepType == TypeOK /\ [Next]_vars => TypeOK'
<1> SUFFICES ASSUME TypeOK, [Next]_vars PROVE TypeOK'
  OBVIOUS
<1>1. CASE UNCHANGED vars
  BY <1>1 DEF vars, TypeOK
<1>2. CASE Shutdown
  BY <1>2 DEF Shutdown, TypeOK
<1> QED
  BY <1>1, <1>2, WorkKeepsType, OthersKeepType DEF Next

-----------------------------------------------------------------------------
(* The bound.                                                              *)

\* A set within the clients has a size, and no subset of it has a larger one.
LEMMA Sizes ==
  ASSUME NEW whole \in SUBSET Clients
  PROVE  /\ IsFiniteSet(whole)
         /\ Cardinality(whole) \in Nat
         /\ \A some \in SUBSET whole : Cardinality(some) <= Cardinality(whole)
<1>1. IsFiniteSet(whole)
  BY FS_Subset, BridgeSessionsAssumption DEF BridgeSessionsAssumption
<1> QED
  BY <1>1, FS_Subset, FS_CardinalityType

\* Only an admission makes the table grow, and only below its capacity.
LEMMA TableStaysBounded ==
  ASSUME TypeOK, [Next]_vars, Cardinality(table) <= MaxSessions
  PROVE  Cardinality(table') <= MaxSessions
<1>1. MaxSessions \in Nat
  BY BridgeSessionsAssumption DEF BridgeSessionsAssumption
<1>2. ASSUME table' \subseteq table PROVE Cardinality(table') <= MaxSessions
  BY <1>1, <1>2, Sizes, StepsKeepType DEF TypeOK
<1>3. ASSUME NEW c \in Clients, Admit(c)
      PROVE  Cardinality(table') <= MaxSessions
  <2>1. /\ ~(Cardinality(table) >= MaxSessions)
        /\ table' = table \cup {c}
    BY <1>3 DEF Admit, Full
  <2>2. Cardinality(table \cup {c}) <= Cardinality(table) + 1
    BY Sizes, FS_AddElement DEF TypeOK
  <2>3. Cardinality(table) \in Nat /\ Cardinality(table \cup {c}) \in Nat
    BY Sizes DEF TypeOK
  <2> QED
    BY <1>1, <2>1, <2>2, <2>3
<1>4. table' \subseteq table \/ \E c \in Clients : Admit(c)
  BY DEF Next, vars, Shutdown, Work, Turns, Environment, Subscribe, NoneIdle,
         Poll, TellReclaimed, Wake, Evict, Reclaim, Spawn, Upgraded, StartTurn,
         NoTurn, TurnRefused, TellUncreated, Evicted, Stop, Finish,
         TellFinished, TurnEnds, TurnTold, Arrive, Create, Deadline,
         HandlerDropped, Leave, IdleTimeout, Abort
<1> QED
  BY <1>2, <1>3, <1>4

\* A session that can still be told to close has its entry: entries are removed
\* by the session's own end, or when nobody receives their signal.
LEMMA RunningStaysInTable ==
  ASSUME TypeOK, [Next]_vars, RunningHoldsSlot
  PROVE  {c \in Clients : Receiving(c)}' \subseteq table'
<1> DEFINE Slot(d) == Receiving(d) => d \in table
<1>1. \A d \in Clients : Slot(d)
  BY DEF RunningHoldsSlot
<1>2. ASSUME NEW c \in Clients, NEW place \in PC \ {"admitted"}, Goto(c, place),
             place \in Running => Receiving(c), table \subseteq table'
      PROVE  \A d \in Clients : Slot(d)'
  BY <1>1, <1>2 DEF Goto, Receiving, TypeOK
<1>3. CASE UNCHANGED <<pc, table>>
  BY <1>1, <1>3 DEF Receiving
<1>4. ASSUME NEW c \in Clients, Admit(c)
      PROVE  \A d \in Clients : Slot(d)'
  BY <1>1, <1>4 DEF Admit, Goto, Receiving, TypeOK, Running
<1>5. ASSUME NEW c \in Clients, NEW d \in Clients, Reclaim(c, d)
      PROVE  \A e \in Clients : Slot(e)'
  BY <1>1, <1>5 DEF Reclaim, Goto, Receiving, TypeOK, Running
<1>6. ASSUME NEW c \in Clients, Finish(c)
      PROVE  \A d \in Clients : Slot(d)'
  BY <1>1, <1>6 DEF Finish, Goto, Receiving, TypeOK, Running
<1>7. \/ UNCHANGED <<pc, table>>
      \/ \E c \in Clients : Admit(c) \/ Finish(c) \/ \E d \in Clients : Reclaim(c, d)
      \/ \E c \in Clients, place \in PC \ {"admitted"} :
           /\ Goto(c, place)
           /\ place \in Running => Receiving(c)
           /\ UNCHANGED table
  <2> DEFINE Moves(c, place) ==
        /\ Goto(c, place)
        /\ place \in Running => Receiving(c)
        /\ UNCHANGED table
  <2>1. {"subscribe", "lock", "unlocked", "wait", "reclaimed", "upgrade", "open",
         "create", "uncreate", "stop", "evicted", "failed", "finish", "told",
         "ended"}
          \subseteq PC \ {"admitted"}
    BY DEF PC, Admitting, Running
  <2>2. CASE UNCHANGED vars \/ Shutdown
    BY <2>2 DEF vars, Shutdown
  <2>3. ASSUME NEW c \in Clients, Turns(c) PROVE UNCHANGED <<pc, table>>
    BY <2>3 DEF Turns, TurnEnds, TurnTold
  <2>4. ASSUME NEW c \in Clients, Environment(c)
        PROVE  \E place \in PC \ {"admitted"} : Moves(c, place)
    BY <2>1, <2>4 DEF Environment, Arrive, Create, Deadline, HandlerDropped,
                      Leave, IdleTimeout, Abort, Running, Receiving
  <2>5. ASSUME NEW c \in Clients, Work(c)
        PROVE  \/ Admit(c) \/ Finish(c) \/ \E d \in Clients : Reclaim(c, d)
               \/ \E place \in PC \ {"admitted"} : Moves(c, place)
    <3>1. CASE Spawn(c) \/ Upgraded(c) \/ StartTurn(c) \/ NoTurn(c)
               \/ TurnRefused(c) \/ TellUncreated(c) \/ Evicted(c) \/ Stop(c)
               \/ TellFinished(c)
      BY <2>1, <3>1 DEF Spawn, Upgraded, StartTurn, NoTurn, TurnRefused,
                        TellUncreated, Evicted, Stop, TellFinished, Running,
                        Receiving
    <3>2. CASE Subscribe(c) \/ NoneIdle(c) \/ Poll(c) \/ TellReclaimed(c)
               \/ Wake(c) \/ \E d \in Clients : Evict(c, d)
      BY <2>1, <3>2 DEF Subscribe, NoneIdle, Poll, TellReclaimed, Wake, Evict,
                        Running, Receiving
    <3> QED
      BY <2>5, <3>1, <3>2 DEF Work
  <2> QED
    BY <2>2, <2>3, <2>4, <2>5 DEF Next
<1>8. \A d \in Clients : Slot(d)'
  BY <1>2, <1>3, <1>4, <1>5, <1>6, <1>7
<1> QED
  BY <1>8

-----------------------------------------------------------------------------
(* The wakeups.                                                            *)

\* An admission goes to sleep only after it looked at a full table, marked one
\* of the idle sessions and found none left unmarked.
LEMMA AdmissionsSleepJustly ==
  ASSUME TypeOK, NoLostWakeup, NEW c \in Clients,
         \/ Subscribe(c) \/ Admit(c) \/ NoneIdle(c) \/ Poll(c)
         \/ TellReclaimed(c) \/ Wake(c)
         \/ \E d \in Clients : Evict(c, d) \/ Reclaim(c, d)
  PROVE  NoLostWakeup'
<1>1. CASE Subscribe(c) \/ Poll(c) \/ Wake(c)
  <2>1. NotifyOwed => NotifyOwed'
    BY <1>1 DEF Subscribe, Poll, Wake, Goto, NotifyOwed, TypeOK
  <2>2. \A d \in Clients : Active(d) => Active(d)'
    BY <1>1 DEF Subscribe, Poll, Wake, Goto, Active, TypeOK
  <2>3. UNCHANGED <<table, closing>>
    BY <1>1 DEF Subscribe, Poll, Wake
  <2>4. \A d \in listening' :
          pc'[d] \in {"unlocked", "wait"} =>
            d \in listening /\ pc[d] \in {"unlocked", "wait"}
    BY <1>1 DEF Subscribe, Poll, Wake, Goto, TypeOK
  <2> QED
    BY <2>1, <2>2, <2>3, <2>4 DEF NoLostWakeup, Full, TypeOK
<1>2. CASE Admit(c)
  <2>1. ~Full
    BY <1>2 DEF Admit
  <2>2. NotifyOwed => NotifyOwed'
    BY <1>2 DEF Admit, Goto, NotifyOwed, TypeOK
  <2>3. \A d \in listening' :
          pc'[d] \in {"unlocked", "wait"} =>
            d \in listening /\ pc[d] \in {"unlocked", "wait"}
    BY <1>2 DEF Admit, Goto, TypeOK
  <2> QED
    BY <2>1, <2>2, <2>3 DEF NoLostWakeup
<1>3. CASE NoneIdle(c)
  <2>1. UNCHANGED <<table, closing>> /\ Full /\ Evictable = {}
    BY <1>3 DEF NoneIdle
  <2>2. \A d \in Clients : Active(d) => Active(d)'
    BY <1>3 DEF NoneIdle, Goto, Active, TypeOK
  <2>3. Full' /\ (closing' # {} \/ \A d \in table' : Active(d)')
    BY <2>1, <2>2 DEF Full, Evictable, TypeOK
  <2> QED
    BY <2>3 DEF NoLostWakeup
<1>4. ASSUME NEW d \in Clients, Evict(c, d) PROVE NoLostWakeup'
  <2>1. Full' /\ closing' # {}
    BY <1>4 DEF Evict, Full
  <2> QED
    BY <2>1 DEF NoLostWakeup
<1>5. ASSUME NEW d \in Clients, Reclaim(c, d) PROVE NoLostWakeup'
  <2>1. NotifyOwed'
    BY <1>5 DEF Reclaim, Goto, NotifyOwed, TypeOK
  <2> QED
    BY <2>1 DEF NoLostWakeup
<1>6. CASE TellReclaimed(c)
  BY <1>6 DEF TellReclaimed, NotifyWaiters, NoLostWakeup
<1> QED
  BY <1>1, <1>2, <1>3, <1>4, <1>5, <1>6

\* Whatever makes a session idle or takes its entry away owes a notification.
LEMMA SessionsOweWakeups ==
  ASSUME TypeOK, NoLostWakeup, NEW c \in Clients,
         \/ Spawn(c) \/ Upgraded(c) \/ StartTurn(c) \/ NoTurn(c)
         \/ TurnRefused(c) \/ TellUncreated(c) \/ Evicted(c) \/ Stop(c)
         \/ Finish(c) \/ TellFinished(c) \/ Turns(c) \/ Environment(c)
  PROVE  NoLostWakeup'
<1>1. CASE TurnRefused(c) \/ TellUncreated(c) \/ TellFinished(c) \/ TurnTold(c)
  BY <1>1 DEF TurnRefused, TellUncreated, TellFinished, TurnTold, NotifyWaiters,
              NoLostWakeup
<1>2. CASE NoTurn(c) \/ TurnEnds(c)
  <2>1. NotifyOwed'
    BY <1>2 DEF NoTurn, TurnEnds, Goto, NotifyOwed, TypeOK
  <2> QED
    BY <2>1 DEF NoLostWakeup
<1>3. ASSUME UNCHANGED <<table, closing>>,
             NotifyOwed => NotifyOwed',
             \A d \in Clients : Active(d) => Active(d)',
             \A d \in listening' :
               pc'[d] \in {"unlocked", "wait"} =>
                 d \in listening /\ pc[d] \in {"unlocked", "wait"}
      PROVE  NoLostWakeup'
  BY <1>3 DEF NoLostWakeup, Full, TypeOK
<1>4. CASE Spawn(c) \/ Upgraded(c) \/ Evicted(c) \/ Stop(c)
  BY <1>3, <1>4 DEF Spawn, Upgraded, Evicted, Stop, Goto, NotifyOwed, Active,
                    TypeOK
<1>5. CASE StartTurn(c)
  BY <1>3, <1>5 DEF StartTurn, Goto, NotifyOwed, Active, TypeOK
<1>6. CASE Arrive(c) \/ Create(c) \/ Leave(c) \/ IdleTimeout(c)
  BY <1>3, <1>6 DEF Arrive, Create, Leave, IdleTimeout, Goto, NotifyOwed,
                    Active, TypeOK
<1>7. CASE Deadline(c) \/ HandlerDropped(c)
  BY <1>3, <1>7 DEF Deadline, HandlerDropped, Goto, NotifyOwed, Active, TypeOK
<1>8. CASE Abort(c)
  <2>1. CASE pc[c] = "create"
    BY <1>8, <2>1 DEF Abort, NotifyWaiters, NoLostWakeup
  <2>2. CASE pc[c] # "create"
    BY <1>3, <1>8, <2>2 DEF Abort, Goto, NotifyOwed, Active, Running, TypeOK
  <2> QED
    BY <2>1, <2>2
<1>9. CASE Finish(c)
  <2>1. CASE c \in table
    <3>1. NotifyOwed'
      BY <1>9, <2>1 DEF Finish, Goto, NotifyOwed, TypeOK
    <3> QED
      BY <3>1 DEF NoLostWakeup
  <2>2. CASE c \notin table
    <3>1. UNCHANGED <<table, closing, listening, turn>>
      BY <1>9, <2>2 DEF Finish, TypeOK
    <3> QED
      BY <1>3, <1>9, <2>2, <3>1 DEF Finish, Goto, NotifyOwed, Active, TypeOK
  <2> QED
    BY <2>1, <2>2
<1> QED
  BY <1>1, <1>2, <1>4, <1>5, <1>6, <1>7, <1>8, <1>9 DEF Turns, Environment

\* Every step keeps each admission's sleep justified.
LEMMA StepsKeepWakeups == TypeOK /\ NoLostWakeup /\ [Next]_vars => NoLostWakeup'
<1> SUFFICES ASSUME TypeOK, NoLostWakeup, [Next]_vars PROVE NoLostWakeup'
  OBVIOUS
<1>1. CASE UNCHANGED vars \/ Shutdown
  BY <1>1 DEF vars, Shutdown, NoLostWakeup, NotifyOwed, Full, Active
<1>2. ASSUME NEW c \in Clients, Work(c) PROVE NoLostWakeup'
  BY <1>2, AdmissionsSleepJustly, SessionsOweWakeups DEF Work
<1> QED
  BY <1>1, <1>2, SessionsOweWakeups DEF Next

-----------------------------------------------------------------------------
(* Theorems.                                                               *)

\* The table's invariant holds of every reachable state.
LEMMA TableHolds == Spec => []TableInv
<1>1. Init => TableInv
  <2> SUFFICES ASSUME Init PROVE TableInv
    OBVIOUS
  <2>1. TypeOK /\ NoLostWakeup
    <3>1. pc \in [Clients -> PC] /\ turn \in [Clients -> Turn]
      BY DEF Init, PC, Turn
    <3>2. creates \in [Clients -> 0..MaxCreates]
      BY BridgeSessionsAssumption DEF Init, BridgeSessionsAssumption
    <3>3. /\ table \subseteq Clients
          /\ closing \subseteq table
          /\ listening \subseteq Clients
          /\ shutting \in BOOLEAN
          /\ NoLostWakeup
      BY DEF Init, NoLostWakeup
    <3> QED
      BY <3>1, <3>2, <3>3 DEF TypeOK
  <2>2. RunningHoldsSlot
    BY FS_EmptySet, BridgeSessionsAssumption
       DEF Init, RunningHoldsSlot, Receiving, Running, BridgeSessionsAssumption
  <2> QED
    BY <2>1, <2>2 DEF TableInv
<1>2. TableInv /\ [Next]_vars => TableInv'
  BY StepsKeepType, TableStaysBounded, RunningStaysInTable, StepsKeepWakeups
     DEF TableInv, RunningHoldsSlot
<1> QED
  BY <1>1, <1>2, PTL DEF Spec

\* proxy.max_bridge_sessions bounds the sessions that run, whatever is evicted,
\* reclaimed, dropped or aborted.
THEOREM SessionsBounded == Spec => []RunningHoldsSlot
<1>1. TableInv => RunningHoldsSlot
  BY DEF TableInv
<1> QED
  BY <1>1, TableHolds, PTL

\* No admission sleeps while a session it could have replaced is idle and
\* unmarked, and nobody is about to wake it.
THEOREM WakeupsNeverLost == Spec => []NoLostWakeup
<1>1. TableInv => NoLostWakeup
  BY DEF TableInv
<1> QED
  BY <1>1, TableHolds, PTL

-----------------------------------------------------------------------------
(* The agent of launchd.                                                   *)

\* What a stage of a command relies on: whose plist and which job it has left.
AgentInv ==
  /\ S!TypeOK
  /\ S!Loaded /\ plist # Nothing => job.agent = plist
  /\ command # Nothing =>
       /\ command.stage \in {"persist", "undo", "undo unload", "undo write",
                            "undo start", "undo wait"} => command.op = "install"
       /\ command.stage \in {"stop", "unload"} =>
            command.op \in {"install", "uninstall", "maintain"}
       /\ command.stage = "action" => command.op = "maintain"
       /\ command.op = "install" => command.agent \in S!Agents
       /\ command.op = "install" /\ command.loaded => command.previous # Nothing
       /\ command.op = "maintain" => plist = command.previous
       /\ command.stage \in {"stop", "unload", "persist", "undo start", "undo wait"} =>
            plist = command.previous
       /\ command.stage \in {"persist", "undo write"} => ~S!Loaded
       /\ command.stage = "action" /\ command.previous # Nothing => ~S!Loaded
       /\ command.stage \in {"bootstrap", "undo start"} => plist # Nothing
       /\ command.stage = "undo wait" => S!Loaded /\ ~job.leaving


\* Going to another stage keeps the rest of the command.
LEMMA GotoEffect ==
  ASSUME command \in S!Commands, NEW s \in S!Stages, S!Goto(s)
  PROVE  /\ command' \in S!Commands
         /\ command'.stage = s
         /\ command'.op = command.op /\ command'.agent = command.agent
         /\ command'.previous = command.previous /\ command'.loaded = command.loaded
BY DEF S!Goto, S!Commands

\* A command knows what it has found.
LEMMA CommandEffect ==
  ASSUME plist \in S!Agents \cup {Nothing},
         NEW op \in S!Ops, NEW s \in S!Stages, NEW a \in S!Agents \cup {Nothing},
         command' = S!Command(op, s, a)
  PROVE  /\ command' \in S!Commands
         /\ command'.op = op /\ command'.stage = s /\ command'.agent = a
         /\ command'.previous = plist /\ command'.loaded = S!Loaded
<1>1. S!Loaded \in BOOLEAN
  BY DEF S!Loaded
<1> QED
  BY <1>1 DEF S!Command, S!Commands

\* The job of a plist is the plist's.
LEMMA NewJobEffect ==
  ASSUME NEW a \in S!Agents
  PROVE  S!NewJob(a) \in S!Jobs /\ S!NewJob(a).agent = a /\ ~S!NewJob(a).leaving
BY DEF S!NewJob, S!Jobs

\* launchd, and the calls that change a job, keep its definition.
LEMMA JobKept ==
  ASSUME S!TypeOK,
         \/ S!Spawn \/ S!Listen \/ (\E failed \in BOOLEAN : S!Exit(failed)) \/ S!KeepAlive
         \/ S!Bootout
         \/ S!Kickstart /\ job' # job
         \/ S!UndoStop /\ job' # job
  PROVE  /\ job \in S!Jobs /\ job' \in S!Jobs /\ job'.agent = job.agent
         /\ ~S!Bootout /\ ~S!UndoStop => job'.leaving = job.leaving
<1>1. job # Nothing
  BY DEF S!Spawn, S!Listen, S!Exit, S!KeepAlive, S!Bootout, S!Kickstart, S!UndoStop, S!Loaded
<1>2. job \in S!Jobs
  BY <1>1 DEF S!TypeOK
<1> DEFINE Same == job' \in S!Jobs /\ job'.agent = job.agent /\ job'.leaving = job.leaving
<1>3. \/ job' = [job EXCEPT !.state = "running", !.old = FALSE]
      \/ job' = [job EXCEPT !.ready = TRUE]
      \/ \E f \in BOOLEAN : job' = [job EXCEPT !.state = "stopped", !.ready = FALSE,
                                             !.old = FALSE, !.failed = f]
      \/ job' = [job EXCEPT !.state = "starting"]
      \/ job' = [job EXCEPT !.leaving = TRUE] /\ (S!Bootout \/ S!UndoStop)
      \/ job' = [job EXCEPT !.old = TRUE]
  BY Zenon DEF S!Spawn, S!Listen, S!Exit, S!KeepAlive, S!Bootout, S!Kickstart, S!UndoStop
<1>4. CASE job' = [job EXCEPT !.state = "running", !.old = FALSE]
  <2>1. Same
    BY <1>2, <1>4, Zenon DEF S!Jobs
  <2> QED
    BY <1>2, <2>1
<1>5. CASE job' = [job EXCEPT !.ready = TRUE]
  <2>1. Same
    BY <1>2, <1>5, Zenon DEF S!Jobs
  <2> QED
    BY <1>2, <2>1
<1>6. ASSUME NEW f \in BOOLEAN,
             job' = [job EXCEPT !.state = "stopped", !.ready = FALSE, !.old = FALSE,
                                !.failed = f]
      PROVE  Same
  BY <1>2, <1>6, Zenon DEF S!Jobs
<1>7. CASE job' = [job EXCEPT !.state = "starting"]
  <2>1. Same
    BY <1>2, <1>7, Zenon DEF S!Jobs
  <2> QED
    BY <1>2, <2>1
<1>8. CASE job' = [job EXCEPT !.leaving = TRUE] /\ (S!Bootout \/ S!UndoStop)
  <2>1. job' \in S!Jobs /\ job'.agent = job.agent
    BY <1>2, <1>8, Zenon DEF S!Jobs
  <2> QED
    BY <1>2, <1>8, <2>1
<1>9. CASE job' = [job EXCEPT !.old = TRUE]
  <2>1. Same
    BY <1>2, <1>9, Zenon DEF S!Jobs
  <2> QED
    BY <1>2, <2>1
<1> QED
  BY <1>2, <1>3, <1>4, <1>5, <1>6, <1>7, <1>8, <1>9

\* What a stage says of the rest.
LEMMA StartsAtStage ==
  ASSUME NEW op
  PROVE  /\ ~S!Loaded => S!StartsAt(op) = "bootstrap"
         /\ S!Loaded => S!StartsAt(op) \in {"kickstart", "wait"}
<1>1. CASE ~S!Loaded
  BY <1>1 DEF S!StartsAt
<1>2. CASE S!Loaded /\ (op = "restart" \/ job.state = "stopped")
  BY <1>2 DEF S!StartsAt
<1>3. CASE S!Loaded /\ ~(op = "restart" \/ job.state = "stopped")
  BY <1>3 DEF S!StartsAt
<1> QED
  BY <1>1, <1>2, <1>3

\* Every step of a command, of launchd and of the process keeps the invariant.
LEMMA AgentStep ==
  ASSUME AgentInv, S!Next
  PROVE  AgentInv'
<1>1. command # Nothing => command \in S!Commands
  BY DEF AgentInv, S!TypeOK
<1>2. plist \in S!Agents \cup {Nothing} /\ job \in S!Jobs \cup {Nothing}
      /\ nonces \in 0..MaxNonce
  BY DEF AgentInv, S!TypeOK
<1> USE DEF AgentInv, S!Loaded, S!Running, S!End
<1>3. CASE S!Spawn
  BY <1>1, <1>2, <1>3, JobKept, AgentAssumption DEF S!Spawn, S!TypeOK, S!Bootout, S!UndoStop
<1>4. CASE S!Listen
  BY <1>1, <1>2, <1>4, JobKept, AgentAssumption DEF S!Listen, S!TypeOK, S!Bootout, S!UndoStop
<1>5. ASSUME NEW failed \in BOOLEAN, S!Exit(failed) PROVE AgentInv'
  BY <1>1, <1>2, <1>5, JobKept, AgentAssumption DEF S!Exit, S!TypeOK, S!Bootout, S!UndoStop
<1>6. CASE S!KeepAlive
  BY <1>1, <1>2, <1>6, JobKept, AgentAssumption DEF S!KeepAlive, S!TypeOK, S!Bootout, S!UndoStop
<1>7. CASE S!Unload
  BY <1>1, <1>2, <1>7 DEF S!Unload, S!TypeOK
<1>8. ASSUME NEW body \in Bodies, S!Install(body) PROVE AgentInv'
  <2>1. CASE plist # Nothing /\ command' = S!Command("start", S!StartsAt("start"), plist)
             /\ UNCHANGED nonces
    <3> DEFINE s == S!StartsAt("start")
    <3>1. s \in {"bootstrap", "kickstart", "wait"}
      BY StartsAtStage, Zenon
    <3>2. "start" \in S!Ops /\ s \in S!Stages
      BY <3>1 DEF S!Ops, S!Stages
    <3>3. command' = S!Command("start", s, plist)
      BY <2>1
    <3> HIDE DEF s
    <3>4. /\ command' \in S!Commands /\ command'.op = "start" /\ command'.stage = s
          /\ command'.agent = plist /\ command'.previous = plist
      BY <1>2, <3>2, <3>3, CommandEffect
    <3>5. UNCHANGED <<plist, job>>
      BY <1>8 DEF S!Install
    <3> QED
      BY <1>2, <2>1, <3>1, <3>4, <3>5 DEF S!TypeOK
  <2>2. ASSUME S!Loaded => plist # Nothing, nonces < MaxNonce, nonces' = nonces + 1,
               command' = S!Command("install", IF S!Loaded THEN "stop" ELSE "persist",
                                    [body |-> body, nonce |-> nonces + 1])
        PROVE  AgentInv'
    <3> DEFINE s == IF S!Loaded THEN "stop" ELSE "persist"
               a == [body |-> body, nonce |-> nonces + 1]
    <3>1. s \in {"stop", "persist"} /\ (s = "persist" => job = Nothing)
      OBVIOUS
    <3>2. "install" \in S!Ops /\ s \in S!Stages
      BY DEF S!Ops, S!Stages
    <3>8. MaxNonce \in Nat
      BY AgentAssumption
    <3>9. nonces \in 0..MaxNonce /\ nonces < MaxNonce /\ nonces' = nonces + 1
      BY <1>2, <2>2
    <3>3. nonces + 1 \in 1..MaxNonce /\ nonces' \in 0..MaxNonce
      <4> HIDE DEF s, a, AgentInv
      <4> QED
        BY <3>8, <3>9
    <3>4. a \in S!Agents
      BY <3>3 DEF S!Agents
    <3>5. command' = S!Command("install", s, a)
      BY <2>2
    <3> HIDE DEF s, a
    <3>6. /\ command' \in S!Commands /\ command'.op = "install" /\ command'.stage = s
          /\ command'.agent = a /\ command'.previous = plist
          /\ command'.loaded = S!Loaded
      BY <1>2, <3>2, <3>4, <3>5, CommandEffect
    <3>7. UNCHANGED <<plist, job>>
      BY <1>8 DEF S!Install
    <3> QED
      BY <1>2, <2>2, <3>1, <3>3, <3>4, <3>6, <3>7 DEF S!TypeOK
  <2> QED
    BY <1>8, <2>1, <2>2 DEF S!Install
<1>9. ASSUME NEW op \in {"start", "restart"}, S!Start(op) PROVE AgentInv'
  <2> DEFINE s == S!StartsAt(op)
  <2>1. /\ command' = S!Command(op, s, plist) /\ UNCHANGED <<plist, job, nonces>>
        /\ plist # Nothing
    BY <1>9 DEF S!Start
  <2>2. s \in {"bootstrap", "kickstart", "wait"}
    BY StartsAtStage, Zenon
  <2>3. op \in S!Ops /\ s \in S!Stages
    BY <2>2 DEF S!Ops, S!Stages
  <2> HIDE DEF s
  <2>4. /\ command' \in S!Commands /\ command'.op = op /\ command'.stage = s
        /\ command'.agent = plist /\ command'.previous = plist
    BY <1>2, <2>1, <2>3, CommandEffect
  <2> QED
    BY <1>2, <2>1, <2>2, <2>4 DEF S!TypeOK
<1>10. CASE S!Uninstall
  <2> DEFINE s == IF S!Loaded THEN "stop" ELSE "remove"
  <2>1. command' = S!Command("uninstall", s, Nothing) /\ UNCHANGED <<plist, job, nonces>>
    BY <1>10 DEF S!Uninstall
  <2>2. "uninstall" \in S!Ops /\ s \in S!Stages
    BY DEF S!Ops, S!Stages
  <2>3. s \in {"stop", "remove"}
    OBVIOUS
  <2> HIDE DEF s
  <2>4. /\ command' \in S!Commands /\ command'.op = "uninstall" /\ command'.stage = s
        /\ command'.agent = Nothing /\ command'.previous = plist
    BY <1>2, <2>1, <2>2, CommandEffect
  <2> QED
    BY <1>2, <2>1, <2>3, <2>4 DEF S!TypeOK
<1>11. CASE S!Maintain
  <2> DEFINE s == IF plist # Nothing /\ S!Loaded THEN "stop" ELSE "action"
  <2>1. command' = S!Command("maintain", s, plist) /\ UNCHANGED <<plist, job, nonces>>
    BY <1>11 DEF S!Maintain
  <2>2. "maintain" \in S!Ops /\ s \in S!Stages
    BY DEF S!Ops, S!Stages
  <2>3. s \in {"stop", "action"} /\ (s = "action" => plist = Nothing \/ job = Nothing)
    OBVIOUS
  <2> HIDE DEF s
  <2>4. /\ command' \in S!Commands /\ command'.op = "maintain" /\ command'.stage = s
        /\ command'.agent = plist /\ command'.previous = plist
    BY <1>2, <2>1, <2>2, CommandEffect
  <2> QED
    BY <1>2, <2>1, <2>3, <2>4 DEF S!TypeOK
<1>12. CASE S!Bootout
  BY <1>1, <1>2, <1>12, JobKept, GotoEffect DEF S!Bootout, S!Stages, S!TypeOK
<1>13. CASE S!Unloaded
  BY <1>1, <1>2, <1>13, GotoEffect DEF S!Unloaded, S!Stages, S!AfterUnload, S!TypeOK
<1>14. CASE S!StopFails
  BY <1>1, <1>2, <1>14 DEF S!StopFails, S!TypeOK
<1>15. CASE S!Persist
  <2>1. /\ command # Nothing
        /\ command \in S!Commands /\ command.stage = "persist" /\ command.op = "install"
        /\ job = Nothing /\ plist = command.previous /\ command.agent \in S!Agents
        /\ UNCHANGED <<job, nonces>>
    BY <1>1, <1>15 DEF S!Persist
  <2>2. CASE plist' = command.agent /\ S!Goto("bootstrap")
    <3>1. plist' \in S!Agents /\ plist' # Nothing
      BY <2>1, <2>2, AgentAssumption
    <3>2. /\ command' \in S!Commands /\ command'.stage = "bootstrap"
          /\ command'.op = "install" /\ command'.agent = command.agent
          /\ command'.previous = command.previous /\ command'.loaded = command.loaded
      BY <2>1, <2>2, GotoEffect DEF S!Stages
    <3> QED
      BY <1>1, <1>2, <2>1, <3>1, <3>2 DEF S!TypeOK
  <2>3. CASE UNCHANGED plist /\ command.loaded /\ S!Goto("undo start")
    <3>1. /\ command' \in S!Commands /\ command'.stage = "undo start"
          /\ command'.op = "install" /\ command'.agent = command.agent
          /\ command'.previous = command.previous /\ command'.loaded = command.loaded
      BY <2>1, <2>3, GotoEffect DEF S!Stages
    <3>2. plist # Nothing
      BY <2>1, <2>3
    <3> QED
      BY <1>1, <1>2, <2>1, <2>3, <3>1, <3>2 DEF S!TypeOK
  <2>4. CASE UNCHANGED plist /\ S!End
    BY <1>1, <1>2, <2>1, <2>4 DEF S!TypeOK
  <2> QED
    BY <1>15, <2>2, <2>3, <2>4 DEF S!Persist
<1>16. CASE S!Bootstrap
  BY <1>1, <1>2, <1>16, NewJobEffect, AgentAssumption, GotoEffect DEF S!Bootstrap, S!Stages, S!TypeOK
<1>17. CASE S!Kickstart
  BY <1>1, <1>2, <1>17, JobKept, GotoEffect DEF S!Kickstart, S!Stages, S!TypeOK
<1>18. CASE S!Wait
  BY <1>1, <1>2, <1>18, GotoEffect DEF S!Wait, S!Stages, S!TypeOK
<1>19. CASE S!Act
  BY <1>1, <1>2, <1>19, GotoEffect DEF S!Act, S!Stages, S!TypeOK
<1>20. CASE S!Remove
  BY <1>1, <1>2, <1>20 DEF S!Remove, S!TypeOK
<1>21. CASE S!UndoStop
  BY <1>1, <1>2, <1>21, JobKept, GotoEffect DEF S!UndoStop, S!Stages, S!TypeOK
<1>22. CASE S!UndoUnloaded
  BY <1>1, <1>2, <1>22, GotoEffect DEF S!UndoUnloaded, S!Stages, S!TypeOK
<1>23. CASE S!UndoWrite
  <2>1. /\ command \in S!Commands /\ command.stage = "undo write" /\ command.op = "install"
        /\ job = Nothing /\ UNCHANGED <<job, nonces>>
        /\ command.loaded => command.previous # Nothing
        /\ command.previous \in S!Agents \cup {Nothing}
        /\ command.agent \in S!Agents
    BY <1>1, <1>23 DEF S!UndoWrite, S!Commands
  <2>2. CASE plist' = command.previous /\ command.loaded /\ S!Goto("undo start")
    BY <1>1, <1>2, <2>1, <2>2, GotoEffect DEF S!Stages, S!TypeOK
  <2>3. CASE plist' = command.previous /\ S!End
    BY <1>1, <1>2, <2>1, <2>3 DEF S!TypeOK
  <2>4. CASE UNCHANGED plist /\ S!End
    BY <1>1, <1>2, <2>1, <2>4 DEF S!TypeOK
  <2> QED
    BY <1>23, <2>2, <2>3, <2>4 DEF S!UndoWrite
<1>24. CASE S!UndoStart
  BY <1>1, <1>2, <1>24, NewJobEffect, AgentAssumption, GotoEffect DEF S!UndoStart, S!Stages, S!TypeOK
<1>25. CASE S!UndoWait
  BY <1>1, <1>2, <1>25 DEF S!UndoWait, S!TypeOK
<1>26. CASE S!Kill
  BY <1>1, <1>2, <1>26 DEF S!Kill, S!TypeOK
<1>27. CASE S!Delete
  BY <1>1, <1>2, <1>27 DEF S!Delete, S!TypeOK
<1> QED
  BY <1>3, <1>4, <1>5, <1>6, <1>7, <1>8, <1>9, <1>10, <1>11, <1>12, <1>13, <1>14, <1>15, <1>16, <1>17, <1>18, <1>19, <1>20, <1>21, <1>22, <1>23, <1>24, <1>25, <1>26, <1>27 DEF S!Next

\* A step of the host is the agent's own, or leaves it alone.
LEMMA AgentAlone == [HostNext]_host => S!Next \/ UNCHANGED agentVars
BY DEF HostNext, host

(***************************************************************************)
(* InstalledRuns: whatever fails, is late or is killed, the loaded job is  *)
(* that of the plist on disk, a replacement that failed has put the old    *)
(* one back, and the files are only maintained while the agent that was    *)
(* found is not loaded (service.rs).                                       *)
(***************************************************************************)
THEOREM InstalledRunsAlways == HostSpec => []InstalledRuns
<1>1. HostInit => AgentInv
  BY AgentAssumption DEF HostInit, S!Init, AgentInv, S!TypeOK, S!Loaded
<1>2. AgentInv /\ [HostNext]_host => AgentInv'
  <2> SUFFICES ASSUME AgentInv, [HostNext]_host PROVE AgentInv'
    OBVIOUS
  <2>1. CASE S!Next
    BY <2>1, AgentStep
  <2>2. CASE UNCHANGED agentVars
    BY <2>2 DEF agentVars, AgentInv, S!TypeOK, S!Loaded
  <2> QED
    BY <2>1, <2>2, AgentAlone
<1>3. AgentInv => InstalledRuns
  BY DEF AgentInv, InstalledRuns, S!InstalledRuns, S!MaintenanceAlone, S!Running
<1> QED
  BY <1>1, <1>2, <1>3, PTL DEF HostSpec

-----------------------------------------------------------------------------
(* The tasks of the daemon.                                                *)

\* TaskSet's Cardinality is that of FiniteSets.
LEMMA SameCardinality == \A set : T!Cardinality(set) = Cardinality(set)
BY DEF T!Cardinality, Cardinality

Phases == {"none", "wanted", "running", "aborted", "ended", "refused"}

\* What a task that begins relies on, with the permits' count.
TaskInv ==
  /\ phase \in [Tasks -> Phases]
  /\ spawner \in [Tasks -> T!Spawners]
  /\ handle \in [Tasks -> BOOLEAN]
  /\ down \in BOOLEAN
  /\ stopping \in {"no", "flagged", "joining", "done"}
  /\ stopping # "no" => down
  /\ T!NothingAfterShutdown

\* No step but a new connection's adds to the permits.
LEMMA PermitsBounded ==
  ASSUME TaskInv, T!Permits' \subseteq T!Permits
  PROVE  Cardinality(T!Permits') <= MaxConnections
<1>1. IsFiniteSet(T!Permits)
  BY TaskAssumption, FS_Subset DEF T!Permits
<1>2. IsFiniteSet(T!Permits') /\ Cardinality(T!Permits') <= Cardinality(T!Permits)
  BY <1>1, FS_Subset
<1>3. Cardinality(T!Permits) \in Nat /\ Cardinality(T!Permits') \in Nat
  BY <1>1, <1>2, FS_CardinalityType
<1>4. Cardinality(T!Permits) <= MaxConnections /\ MaxConnections \in Nat
  BY TaskAssumption, SameCardinality DEF TaskInv, T!NothingAfterShutdown
<1> QED
  BY <1>2, <1>3, <1>4

\* Every step of a task, of its parent and of the shutdown keeps the invariant.
LEMMA TaskStep ==
  ASSUME TaskInv, T!Next
  PROVE  TaskInv'
<1> USE DEF TaskInv, Phases
<1>1. ASSUME NEW t \in Tasks, NEW s \in T!Spawners, NEW h \in BOOLEAN, T!Want(t, s, h)
      PROVE  TaskInv'
  <2>1. /\ phase' \in [Tasks -> Phases] /\ spawner' \in [Tasks -> T!Spawners]
        /\ handle' \in [Tasks -> BOOLEAN] /\ UNCHANGED <<down, stopping>>
    BY <1>1 DEF T!Want
  <2>2. stopping = "done" => \A x \in Tasks : phase'[x] \notin {"running", "aborted"}
    BY <1>1 DEF T!Want, T!NothingAfterShutdown
  <2>3. Cardinality(T!Permits') <= MaxConnections
    <3>1. CASE s # Listener
      <4>1. T!Permits' \subseteq T!Permits
        BY <1>1, <3>1 DEF T!Want, T!Permits
      <4> QED
        BY <4>1, PermitsBounded
    <3>2. CASE s = Listener
      <4>1. T!Permits' \subseteq T!Permits \cup {t}
        BY <1>1 DEF T!Want, T!Permits
      <4>2. Cardinality(T!Permits) < MaxConnections
        BY <1>1, <3>2, SameCardinality DEF T!Want, T!MaySpawn
      <4>3. IsFiniteSet(T!Permits) /\ t \notin T!Permits
        BY <1>1, TaskAssumption, FS_Subset DEF T!Permits, T!Want
      <4>4. /\ IsFiniteSet(T!Permits \cup {t})
            /\ Cardinality(T!Permits \cup {t}) = Cardinality(T!Permits) + 1
        BY <4>3, FS_AddElement
      <4>5. Cardinality(T!Permits') <= Cardinality(T!Permits \cup {t})
        BY <4>1, <4>4, FS_Subset
      <4>6. Cardinality(T!Permits) \in Nat /\ Cardinality(T!Permits') \in Nat
        BY <4>1, <4>3, <4>4, FS_CardinalityType, FS_Subset
      <4>7. MaxConnections \in Nat
        BY TaskAssumption
      <4> QED
        BY <4>2, <4>4, <4>5, <4>6, <4>7
    <3> QED
      BY <3>1, <3>2
  <2> QED
    BY <2>1, <2>2, <2>3, SameCardinality DEF T!NothingAfterShutdown
<1>2. ASSUME NEW t \in Tasks, T!Spawn(t) PROVE TaskInv'
  <2>1. T!Permits' \subseteq T!Permits
    BY <1>2 DEF T!Spawn, T!Permits
  <2> QED
    BY <1>2, <2>1, PermitsBounded, SameCardinality DEF T!Spawn, T!Accepts, T!NothingAfterShutdown
<1>3. ASSUME NEW t \in Tasks, T!End(t) PROVE TaskInv'
  <2>1. /\ phase' = [x \in Tasks |-> phase'[x]]
        /\ \A x \in Tasks :
             \/ phase'[x] \in {phase[x], "ended", "refused"}
             \/ phase[x] = "running" /\ phase'[x] = "aborted"
    BY <1>3, Zenon DEF T!End, T!Ends
  <2>2. T!Permits' \subseteq T!Permits
    BY <1>3, <2>1 DEF T!End, T!Permits
  <2>3. phase' \in [Tasks -> Phases]
    BY <2>1
  <2> QED
    BY <1>3, <2>1, <2>2, <2>3, PermitsBounded, SameCardinality DEF T!End, T!NothingAfterShutdown
<1>4. ASSUME NEW t \in Tasks, T!Cancel(t) PROVE TaskInv'
  <2>1. T!Permits' \subseteq T!Permits
    BY <1>4 DEF T!Cancel, T!Permits
  <2> QED
    BY <1>4, <2>1, PermitsBounded, SameCardinality DEF T!Cancel, T!NothingAfterShutdown
<1>5. CASE T!StopListener
  <2>1. T!Permits' \subseteq T!Permits
    BY <1>5 DEF T!StopListener, T!Permits
  <2> QED
    BY <1>5, <2>1, PermitsBounded, SameCardinality DEF T!StopListener, T!NothingAfterShutdown
<1>6. CASE T!Flag
  <2>1. T!Permits' \subseteq T!Permits
    BY <1>6 DEF T!Flag, T!Permits
  <2> QED
    BY <1>6, <2>1, PermitsBounded, SameCardinality DEF T!Flag, T!NothingAfterShutdown
<1>7. CASE T!AbortAll
  <2>1. T!Permits' \subseteq T!Permits
    BY <1>7 DEF T!AbortAll, T!Permits
  <2> QED
    BY <1>7, <2>1, PermitsBounded, SameCardinality DEF T!AbortAll, T!NothingAfterShutdown
<1>8. CASE T!Joined
  <2>1. T!Permits' \subseteq T!Permits
    BY <1>8 DEF T!Joined, T!Permits
  <2> QED
    BY <1>8, <2>1, PermitsBounded, SameCardinality DEF T!Joined, T!NothingAfterShutdown
<1> QED
  BY <1>1, <1>2, <1>3, <1>4, <1>5, <1>6, <1>7, <1>8 DEF T!Next

\* A step of the host is the tasks' own, or leaves them alone.
LEMMA TasksAlone == [HostNext]_host => T!Next \/ UNCHANGED taskVars
BY DEF HostNext, host

(***************************************************************************)
(* NothingAfterShutdown: when shutdown_connections has returned no task of *)
(* the proxy runs, and at all times the connections that are open are no   *)
(* more than their permits (proxy/mod.rs).                                 *)
(***************************************************************************)
THEOREM NothingAfterShutdownAlways == HostSpec => []NothingAfterShutdown
<1>1. HostInit => TaskInv
  <2> SUFFICES ASSUME HostInit PROVE TaskInv
    OBVIOUS
  <2>1. T!Init
    BY DEF HostInit
  <2>2. T!Permits = {}
    BY <2>1 DEF T!Init, T!Permits
  <2>3. Cardinality(T!Permits) <= MaxConnections
    BY <2>2, FS_EmptySet, TaskAssumption
  <2> QED
    BY <2>1, <2>3, SameCardinality DEF T!Init, TaskInv, Phases, T!Spawners, T!NothingAfterShutdown
<1>2. TaskInv /\ [HostNext]_host => TaskInv'
  <2> SUFFICES ASSUME TaskInv, [HostNext]_host PROVE TaskInv'
    OBVIOUS
  <2>1. CASE T!Next
    BY <2>1, TaskStep
  <2>2. CASE UNCHANGED taskVars
    BY <2>2 DEF taskVars, TaskInv, T!NothingAfterShutdown, T!Permits
  <2> QED
    BY <2>1, <2>2, TasksAlone
<1>3. TaskInv => NothingAfterShutdown
  BY DEF TaskInv, NothingAfterShutdown
<1> QED
  BY <1>1, <1>2, <1>3, PTL DEF HostSpec

-----------------------------------------------------------------------------
(* The daemon's configuration.                                             *)

\* The file, the roles in memory and what each handler has still to publish.
DaemonInv ==
  /\ D!TypeOK
  /\ daemon # "running" => \A h \in Handlers : handlers[h] = Nothing
  /\ \A h \in Handlers : D!At(h, "publish") => editLock = h
  /\ D!Up /\ ~outside =>
       /\ editLock = Nothing => roles = config.roles
       /\ D!Valid(roles)
       /\ \A h \in Handlers : D!At(h, "publish") =>
            /\ D!Req(h).kind = "prefer" =>
                 config.roles = [roles EXCEPT !.preferred = D!Req(h).account]
            /\ D!Req(h).kind = "preserve" =>
                 config.roles = [roles EXCEPT !.preserved = D!Req(h).account]
            /\ D!Req(h).kind = "role" => config.roles = handlers[h].order
            /\ D!Req(h).kind # "connect"
       /\ \A a \in config.connected \ loaded.connected : D!Reloads(a)

\* What an allowed edit makes of a file: a valid one, with the role asked for.
LEMMA EditedFile ==
  ASSUME NEW f \in D!Files, NEW r \in D!Requests, D!Allowed(f, r)
  PROVE  /\ D!Edited(f, r) \in D!Files
         /\ r.kind = "connect" => /\ D!Edited(f, r).roles = f.roles
                                  /\ D!Edited(f, r).connected = f.connected \cup {r.account}
         /\ r.kind # "connect" => D!Edited(f, r).connected = f.connected
         /\ r.kind = "prefer" =>
              D!Edited(f, r).roles = [f.roles EXCEPT !.preferred = r.account]
         /\ r.kind = "preserve" =>
              D!Edited(f, r).roles = [f.roles EXCEPT !.preserved = r.account]
<1> DEFINE q == f.roles
<1>1. f.roles \in D!Roles /\ D!Valid(f.roles) /\ f.connected \in SUBSET Accounts
  BY DEF D!Files
<1>2. f.roles.preferred \in D!Slots /\ f.roles.preserved \in D!Slots
      /\ f.roles = [preferred |-> f.roles.preferred, preserved |-> f.roles.preserved]
  BY <1>1 DEF D!Roles
<1>3. \A n : n \in D!Roles /\ D!Valid(n) =>
        /\ [f EXCEPT !.roles = n] \in D!Files
        /\ [f EXCEPT !.roles = n].roles = n
        /\ [f EXCEPT !.roles = n].connected = f.connected
  BY DEF D!Files
<1>4. CASE r.kind = "connect"
  <2>1. r.account \in Accounts
    BY <1>4 DEF D!Requests
  <2>2. D!Edited(f, r) = [f EXCEPT !.connected = f.connected \cup {r.account}]
    BY <1>4 DEF D!Edited
  <2>3. [f EXCEPT !.connected = f.connected \cup {r.account}] \in D!Files
    BY <1>1, <2>1 DEF D!Files
  <2> QED
    BY <1>4, <2>2, <2>3 DEF D!Files
<1>5. CASE r.kind = "prefer"
  <2> DEFINE n == [f.roles EXCEPT !.preferred = r.account]
  <2>1. D!NewRoles(f.roles, r) = n
    BY <1>5, Zenon DEF D!NewRoles
  <2>2. r.account \in D!Slots
    BY <1>5 DEF D!Requests, D!Slots
  <2>3. n \in D!Roles /\ n.preferred = r.account /\ n.preserved = f.roles.preserved
    BY <1>1, <2>2 DEF D!Roles
  <2>4. r.account # NoAccount => f.roles.preserved # r.account
    BY <1>5, Zenon DEF D!Allowed, D!MayHave, D!Opposite
  <2>5. D!Valid(n)
    BY <2>3, <2>4 DEF D!Valid
  <2>6. D!Edited(f, r) = [f EXCEPT !.roles = n]
    BY <1>5, <2>1 DEF D!Edited
  <2> QED
    BY <1>3, <1>5, <2>3, <2>5, <2>6
<1>6. CASE r.kind = "preserve"
  <2> DEFINE n == [f.roles EXCEPT !.preserved = r.account]
  <2>1. D!NewRoles(f.roles, r) = n
    BY <1>6, Zenon DEF D!NewRoles
  <2>2. r.account \in D!Slots
    BY <1>6 DEF D!Requests, D!Slots
  <2>3. n \in D!Roles /\ n.preserved = r.account /\ n.preferred = f.roles.preferred
    BY <1>1, <2>2 DEF D!Roles
  <2>4. r.account # NoAccount => f.roles.preferred # r.account
    BY <1>6, Zenon DEF D!Allowed, D!MayHave, D!Opposite
  <2>5. D!Valid(n)
    BY <2>3, <2>4 DEF D!Valid
  <2>6. D!Edited(f, r) = [f EXCEPT !.roles = n]
    BY <1>6, <2>1 DEF D!Edited
  <2> QED
    BY <1>3, <1>6, <2>3, <2>5, <2>6
<1>7. CASE r.kind = "role"
  <2> DEFINE w == D!Without(f.roles, r.account)
  <2>1. r.account \in Accounts /\ r.role \in {"preferred", "normal", "preserved"}
    BY <1>7 DEF D!Requests
  <2>2. w = [preferred |-> IF f.roles.preferred = r.account THEN NoAccount
                           ELSE f.roles.preferred,
             preserved |-> IF f.roles.preserved = r.account THEN NoAccount
                           ELSE f.roles.preserved]
    BY <1>2 DEF D!Without
  <2>3. w \in D!Roles /\ D!Valid(w)
    BY <1>1, <1>2, <2>2 DEF D!Roles, D!Slots, D!Valid
  <2>4. CASE r.role = "normal"
    <3>1. D!NewRoles(f.roles, r) = w
      BY <1>7, <2>4, Zenon DEF D!NewRoles
    <3> QED
      BY <1>3, <1>7, <2>3, <3>1 DEF D!Edited
  <2>5. CASE r.role \in {"preferred", "preserved"}
    <3> DEFINE n == [w EXCEPT ![r.role] = r.account]
    <3>1. D!NewRoles(f.roles, r) = n
      BY <1>7, <2>5, Zenon DEF D!NewRoles
    <3>2. n \in D!Roles /\ D!Valid(n)
      BY <1>2, <2>1, <2>2, <2>5 DEF D!Roles, D!Slots, D!Valid
    <3> QED
      BY <1>3, <1>7, <3>1, <3>2 DEF D!Edited
  <2> QED
    BY <2>1, <2>4, <2>5
<1> QED
  BY <1>4, <1>5, <1>6, <1>7 DEF D!Requests

\* Every step of the daemon and of those who edit the file keeps the invariant.
LEMMA DaemonStep ==
  ASSUME DaemonInv, D!Next
  PROVE  DaemonInv'
<1> USE DEF DaemonInv, D!Up
<1>0. /\ config \in D!Files /\ loaded \in D!Files /\ roles \in D!Roles
      /\ handlers \in [Handlers -> D!Working \cup {Nothing}]
      /\ edits \in 0..MaxEdits /\ MaxEdits \in Nat
  BY DaemonAssumption DEF D!TypeOK
<1>f. \A f \in D!Files : f.roles \in D!Roles /\ D!Valid(f.roles)
  BY DEF D!Files
<1>e. edits < MaxEdits /\ edits' = edits + 1 => edits' \in 0..MaxEdits
  BY <1>0
<1>1. CASE D!Load
  BY <1>0, <1>f, <1>1 DEF D!Load, D!TypeOK, D!At
<1>2. CASE D!Bind
  BY <1>0, <1>2 DEF D!Bind, D!TypeOK, D!At, D!Reloads, D!Req
<1>3. CASE D!Leave
  BY <1>0, <1>3 DEF D!Leave, D!DropHandlers, D!TypeOK, D!At
<1>4. CASE D!Finish
  BY <1>0, <1>4 DEF D!Finish, D!TypeOK, D!At
<1>5. CASE D!Kill
  BY <1>0, <1>5 DEF D!Kill, D!DropHandlers, D!TypeOK, D!At
<1>6. ASSUME NEW h \in Handlers, NEW r \in D!Requests, D!Accept(h, r)
      PROVE  DaemonInv'
  <2>1. [request |-> r, stage |-> "edit", order |-> config.roles] \in D!Working
    BY <1>0, <1>f DEF D!Working
  <2>2. handlers' \in [Handlers -> D!Working \cup {Nothing}]
    BY <1>0, <1>6, <2>1 DEF D!Accept
  <2>3. /\ \A i \in Handlers : D!At(i, "publish")' => D!At(i, "publish") /\ handlers'[i] = handlers[i]
        /\ \A i \in Handlers : D!At(i, "respond") => D!At(i, "respond")' /\ handlers'[i] = handlers[i]
    BY <1>0, <1>6 DEF D!Accept, D!At
  <2>4. edits' \in 0..MaxEdits
    BY <1>0, <1>6 DEF D!Accept
  <2> QED
    BY <1>0, <1>6, <2>2, <2>3, <2>4 DEF D!Accept, D!TypeOK, D!Reloads, D!Req
<1>7. ASSUME NEW h \in Handlers, D!Edit(h) PROVE DaemonInv'
  <2>1. /\ D!At(h, "edit") /\ editLock = Nothing /\ handlers[h] # Nothing
        /\ UNCHANGED <<daemon, loaded, roles, reload, cli, outside, edits>>
        /\ daemon = "running"
    BY <1>7 DEF D!Edit, D!At
  <2>2. CASE handlers' = [handlers EXCEPT ![h] = Nothing] /\ UNCHANGED <<config, editLock>>
    <3>1. handlers' \in [Handlers -> D!Working \cup {Nothing}]
      BY <1>0, <2>2
    <3>2. /\ \A i \in Handlers : D!At(i, "publish")' => D!At(i, "publish") /\ handlers'[i] = handlers[i]
          /\ \A i \in Handlers : D!At(i, "respond") => D!At(i, "respond")' /\ handlers'[i] = handlers[i]
      BY <1>0, <2>1, <2>2 DEF D!At
    <3> QED
      BY <1>0, <2>1, <2>2, <3>1, <3>2 DEF D!TypeOK, D!Reloads, D!Req
  <2>3. ASSUME D!Allowed(config, D!Req(h)), config' = D!Edited(config, D!Req(h)),
               editLock' = IF D!Req(h).kind = "connect" THEN Nothing ELSE h,
               handlers' = [handlers EXCEPT
                          ![h].stage = IF D!Req(h).kind = "connect" THEN "respond"
                                                                    ELSE "publish",
                          ![h].order = D!Edited(config, D!Req(h)).roles]
        PROVE  DaemonInv'
    <3> DEFINE r == D!Req(h)
               s == IF r.kind = "connect" THEN "respond" ELSE "publish"
               w == [handlers[h] EXCEPT !.stage = s, !.order = config'.roles]
    <3>1. handlers[h] \in D!Working /\ r \in D!Requests
      BY <1>0, <2>1 DEF D!Req, D!Working
    <3>2. config' \in D!Files /\ config'.roles \in D!Roles
      BY <1>0, <1>f, <2>3, <3>1, EditedFile
    <3>3. w \in D!Working /\ w.stage = s /\ w.order = config'.roles /\ w.request = r
      BY <3>1, <3>2 DEF D!Working, D!Req
    <3>4. handlers' = [handlers EXCEPT ![h] = w]
      BY <1>0, <2>3, Zenon
    <3>5. handlers' \in [Handlers -> D!Working \cup {Nothing}] /\ handlers'[h] = w
          /\ \A i \in Handlers \ {h} : handlers'[i] = handlers[i]
      BY <1>0, <3>3, <3>4
    <3>6. /\ r.kind = "connect" => config'.roles = config.roles
                                    /\ config'.connected = config.connected \cup {r.account}
          /\ r.kind # "connect" => config'.connected = config.connected
          /\ r.kind = "prefer" => config'.roles = [config.roles EXCEPT !.preferred = r.account]
          /\ r.kind = "preserve" => config'.roles = [config.roles EXCEPT !.preserved = r.account]
      BY <1>0, <2>3, <3>1, EditedFile
    <3>7. editLock' \in Handlers \cup {Nothing} /\ (r.kind # "connect" => editLock' = h /\ h # Nothing)
          /\ (r.kind = "connect" => editLock' = Nothing)
      BY <2>3, DaemonAssumption
    <3>8. D!TypeOK'
      BY <2>1, <3>2, <3>5, <3>7 DEF D!TypeOK
    <3>9. w # Nothing \/ w = Nothing
      OBVIOUS
    <3>10. \A i \in Handlers \ {h} : ~D!At(i, "publish")'
      BY <1>7, <2>1, <3>5, DaemonAssumption DEF D!At
    <3>11. D!At(h, "publish")' => r.kind # "connect"
      BY <3>3, <3>5 DEF D!At
    <3>12. D!Req(h)' = r
      BY <3>3, <3>5 DEF D!Req
    <3>13. \A a : D!Reloads(a) => D!Reloads(a)'
      BY <2>1, <3>5 DEF D!Reloads, D!At, D!Req
    <3>14. r.kind = "connect" => D!Reloads(r.account)'
      BY <3>3, <3>5, <3>12, DaemonAssumption DEF D!Reloads, D!At
    <3> HIDE DEF w, s
    <3> QED
      BY <2>1, <3>3, <3>5, <3>6, <3>7, <3>8, <3>10, <3>11, <3>12, <3>13, <3>14
  <2> QED
    BY <1>7, <2>2, <2>3 DEF D!Edit
<1>8. ASSUME NEW h \in Handlers, D!Publish(h) PROVE DaemonInv'
  <2> DEFINE r == D!Req(h)
             w == [handlers[h] EXCEPT !.stage = "respond"]
  <2>1. /\ handlers[h] \in D!Working /\ D!At(h, "publish") /\ editLock = h
        /\ daemon = "running"
        /\ UNCHANGED <<config, daemon, loaded, reload, cli, outside, edits>>
        /\ editLock' = Nothing
    BY <1>0, <1>8 DEF D!Publish, D!At
  <2>2. w \in D!Working /\ w.stage = "respond" /\ w.request = r
    BY <2>1 DEF D!Working, D!Req
  <2>3. handlers' = [handlers EXCEPT ![h] = w]
    BY <1>0, <1>8, Zenon DEF D!Publish
  <2>4. handlers' \in [Handlers -> D!Working \cup {Nothing}] /\ handlers'[h] = w
        /\ \A i \in Handlers \ {h} : handlers'[i] = handlers[i]
    BY <1>0, <2>2, <2>3
  <2>5. r \in D!Requests /\ handlers[h].order \in D!Roles
    BY <2>1 DEF D!Req, D!Working
  <2>6. /\ r.kind = "prefer" => roles' = [roles EXCEPT !.preferred = r.account]
        /\ r.kind = "preserve" => roles' = [roles EXCEPT !.preserved = r.account]
        /\ r.kind \notin {"prefer", "preserve"} => roles' = handlers[h].order
    BY <1>8, Zenon DEF D!Publish
  <2>7. roles' \in D!Roles
    <3>1. r.kind \in {"prefer", "preserve"} => r.account \in D!Slots
      BY <2>5 DEF D!Requests, D!Slots
    <3> QED
      BY <1>0, <2>5, <2>6, <3>1 DEF D!Roles
  <2>8. D!TypeOK'
    BY <2>1, <2>4, <2>7 DEF D!TypeOK
  <2>9. r.kind \in {"prefer", "preserve", "role", "connect"}
    BY <2>5 DEF D!Requests
  <2>10. ~outside => roles' = config.roles
    BY <2>1, <2>6, <2>9
  <2>11. \A i \in Handlers : ~D!At(i, "publish")'
    BY <1>0, <2>1, <2>2, <2>4 DEF D!At
  <2>12. \A a : D!Reloads(a) => D!Reloads(a)'
    BY <2>1, <2>4 DEF D!Reloads, D!At, D!Req
  <2>13. ~outside => D!Valid(roles')
    BY <1>0, <1>f, <2>10
  <2>14. D!Valid(roles)' <=> D!Valid(roles')
    BY DEF D!Valid
  <2> HIDE DEF r, w
  <2> QED
    BY <2>1, <2>8, <2>10, <2>11, <2>12, <2>13, <2>14
<1>9. ASSUME NEW h \in Handlers, D!Respond(h) PROVE DaemonInv'
  <2>1. handlers' = [handlers EXCEPT ![h] = Nothing]
        /\ reload' = (reload \/ D!Req(h).kind = "connect")
        /\ UNCHANGED <<config, daemon, loaded, roles, editLock, cli, outside, edits>>
    BY <1>9 DEF D!Respond
  <2>2. handlers' \in [Handlers -> D!Working \cup {Nothing}] /\ reload' \in BOOLEAN
    BY <1>0, <2>1 DEF D!TypeOK
  <2>3. \A i \in Handlers : D!At(i, "publish")' => D!At(i, "publish") /\ handlers'[i] = handlers[i]
    BY <1>0, <1>9, <2>1 DEF D!At, D!Respond
  <2>4. \A a : D!Reloads(a) => D!Reloads(a)'
    BY <1>0, <2>1 DEF D!Reloads, D!At, D!Req
  <2> QED
    BY <2>1, <2>2, <2>3, <2>4 DEF D!TypeOK, D!Req
<1>10. ASSUME NEW r \in D!Requests, D!EditWithoutSocket(r) PROVE DaemonInv'
  <2>1. config' \in D!Files /\ edits' \in 0..MaxEdits
    BY <1>0, <1>e, <1>10, EditedFile DEF D!EditWithoutSocket
  <2> QED
    BY <1>0, <1>10, <2>1 DEF D!EditWithoutSocket, D!TypeOK, D!At
<1>11. CASE D!EditByHand
  <2>1. edits' \in 0..MaxEdits
    BY <1>0, <1>11 DEF D!EditByHand
  <2> QED
    BY <1>0, <1>11, <2>1 DEF D!EditByHand, D!TypeOK, D!At
<1>12. ASSUME NEW a \in Accounts, D!ConnectReads(a) PROVE DaemonInv'
  <2>1. [kind |-> "connect", account |-> a] \in D!Requests
    BY DEF D!Requests
  <2>2. cli' \in D!Files /\ edits' \in 0..MaxEdits
    BY <1>0, <1>e, <1>12, <2>1, EditedFile DEF D!ConnectReads
  <2> QED
    BY <1>0, <1>12, <2>2 DEF D!ConnectReads, D!TypeOK, D!At, D!Reloads, D!Req
<1>13. CASE D!ConnectWrites
  BY <1>0, <1>13 DEF D!ConnectWrites, D!TypeOK, D!At
<1> QED
  BY <1>1, <1>2, <1>3, <1>4, <1>5, <1>6, <1>7, <1>8, <1>9, <1>10, <1>11, <1>12, <1>13
     DEF D!Next, D!Serve, D!Handle

\* A step of the host is the daemon's own, or leaves it alone.
LEMMA DaemonAlone == [HostNext]_host => D!Next \/ UNCHANGED daemonVars
BY DEF HostNext, host

(***************************************************************************)
(* SavedIsUsed: what the daemon was told to save is what it uses, as long  *)
(* as the file is only edited through it: the router has the roles of the  *)
(* file, no account has both even while an edit is on its way, and an      *)
(* account the file has and the router has not is on its way to be loaded  *)
(* (control.rs, main.rs).                                                  *)
(***************************************************************************)
THEOREM SavedIsUsedAlways == HostSpec => []SavedIsUsed
<1>1. HostInit => DaemonInv
  <2> SUFFICES ASSUME D!Init PROVE DaemonInv
    BY DEF HostInit
  <2>1. config \in D!Files /\ config.roles \in D!Roles /\ D!Valid(config.roles)
    BY DEF D!Init, D!Files, D!Roles, D!Slots, D!Valid
  <2>2. handlers = [h \in Handlers |-> Nothing] /\ editLock = Nothing /\ reload = FALSE
        /\ loaded = config /\ roles = config.roles /\ edits = 0 /\ cli = Nothing
    BY Zenon DEF D!Init
  <2>3. handlers \in [Handlers -> D!Working \cup {Nothing}]
        /\ \A h \in Handlers : handlers[h] = Nothing
    BY <2>2
  <2>4. \A h \in Handlers : ~D!At(h, "publish")
    BY <2>3 DEF D!At
  <2>5. edits \in 0..MaxEdits
    BY <2>2, DaemonAssumption
  <2>6. D!TypeOK
    BY <2>1, <2>2, <2>3, <2>5 DEF D!Init, D!TypeOK
  <2>7. D!Valid(roles)
    BY <2>1, <2>2 DEF D!Valid
  <2> QED
    BY <2>2, <2>3, <2>4, <2>6, <2>7 DEF DaemonInv
<1>2. DaemonInv /\ [HostNext]_host => DaemonInv'
  <2> SUFFICES ASSUME DaemonInv, [HostNext]_host PROVE DaemonInv'
    OBVIOUS
  <2>1. CASE D!Next
    BY <2>1, DaemonStep
  <2>2. CASE UNCHANGED daemonVars
    BY <2>2 DEF daemonVars, DaemonInv, D!TypeOK, D!Up, D!At, D!Req, D!Reloads
  <2> QED
    BY <2>1, <2>2, DaemonAlone
<1>3. DaemonInv => SavedIsUsed
  BY DEF DaemonInv, SavedIsUsed, D!SavedIsUsed, D!Up
<1> QED
  BY <1>1, <1>2, <1>3, PTL DEF HostSpec

-----------------------------------------------------------------------------
(* The credentials of a Claude home.                                       *)

AtServer(c) == task[c] # Nothing /\ task[c].stage = "posted"
Answered(c) == task[c] # Nothing /\ task[c].stage = "answered"

ClaudeInv ==
  /\ auth \in C!Documents \cup {Nothing}
  /\ issued \in Nat
  /\ task = [c \in Callers |-> task[c]]
  /\ \A c \in Callers : AtServer(c) \/ Answered(c) =>
       lock = c /\ auth # Nothing /\ task[c].doc = auth
  /\ \A c \in Callers : Answered(c) =>
       /\ task[c] \in C!Answers
       /\ task[c].how = "renewed" =>
            task[c].renewed \in C!Documents /\ task[c].renewed.grant \in live \cup lost
       /\ task[c].how # "renewed" => auth.grant \in live \cup lost
  /\ login \in {"locked", "outside"} => lock = "login"
  /\ GrantKept

\* A caller that has its answer has no resolution going on.
Left ==
  /\ task = [c \in Callers |-> task[c]]
  /\ caller = [c \in Callers |-> caller[c]]
  /\ \A c \in Callers :
       caller[c].stage \in {"holding", "served", "denied"} => task[c] = Nothing

\* Every step of the home keeps that.
LEMMA LeftStep ==
  ASSUME Left, C!Next
  PROVE  Left'
<1> USE DEF Left
<1>s. \A s, k, a, d : C!At(s, k, a, d).stage = s
  BY DEF C!At
<1>i. C!Idle.stage = "idle"
  BY DEF C!Idle
<1>e. \A k : C!AfterError(k).stage \in {"condemn", "idle"}
  BY <1>s, <1>i DEF C!AfterError
<1> DEFINE Moves(c, n) == caller' = [caller EXCEPT ![c] = n]
           Holds(n) == n.stage \in {"holding", "served", "denied"}
<1>1. ASSUME NEW c \in Callers, NEW n, Moves(c, n), task' = task, Holds(n) => task[c] = Nothing
      PROVE  Left'
  BY <1>1
<1>2. caller' = caller /\ task' = task => Left'
  OBVIOUS
<1>3. ASSUME NEW c \in Callers, NEW n, NEW u, task' = [task EXCEPT ![c] = u],
             \/ caller' = caller /\ (~Holds(caller[c]) \/ u = Nothing)
             \/ Moves(c, n) /\ (~Holds(n) \/ u = Nothing)
      PROVE  Left'
  <2>1. task' = [e \in Callers |-> task'[e]] /\ task'[c] = u
        /\ \A e \in Callers \ {c} : task'[e] = task[e]
    BY <1>3
  <2>2. caller' = [e \in Callers |-> caller'[e]]
        /\ \A e \in Callers \ {c} : caller'[e] = caller[e]
    BY <1>3
  <2>3. CASE caller' = caller /\ (~Holds(caller[c]) \/ u = Nothing)
    BY <1>3, <2>1, <2>3
  <2>4. CASE Moves(c, n) /\ (~Holds(n) \/ u = Nothing)
    BY <1>3, <2>1, <2>2, <2>4
  <2> QED
    BY <1>3, <2>3, <2>4
<1>4. ASSUME NEW c \in Callers, NEW k \in C!Kinds, C!Begin(c, k) PROVE Left'
  <2>1. CASE Moves(c, C!At("condemn", k, 1, Nothing)) /\ task' = task
    BY <1>1, <1>s, <2>1
  <2>2. CASE Moves(c, C!At("resolve", k, 1, Nothing))
             /\ task' = [task EXCEPT ![c] = C!Resolution(Nothing)]
    <3>1. ~Holds(C!At("resolve", k, 1, Nothing))
      BY <1>s
    <3> QED
      BY <1>3, <2>2, <3>1
  <2> QED
    BY <1>4, <2>1, <2>2 DEF C!Begin
<1>5. ASSUME NEW c \in Callers, C!GiveUp(c) PROVE Left'
  <2>1. PICK n \in {C!AfterError(caller[c].kind), C!Idle} : Moves(c, n)
    BY <1>5 DEF C!GiveUp
  <2> QED
    BY <1>1, <1>5, <1>e, <1>i, <2>1 DEF C!GiveUp
<1>6. ASSUME NEW c \in Callers, C!Condemn(c) \/ C!Served(c) PROVE Left'
  <2>1. Moves(c, C!Idle) /\ task' = task
    BY <1>6 DEF C!Condemn, C!Served
  <2> QED
    BY <1>1, <1>i, <2>1
<1>7. ASSUME NEW c \in Callers, C!Use(c) PROVE Left'
  <2>1. caller[c].stage = "holding" /\ task' = task
    BY <1>7 DEF C!Use
  <2>2. \E n : Moves(c, n)
    BY <1>7, Zenon DEF C!Use, C!SweepReady
  <2> QED
    BY <1>1, <2>1, <2>2
<1>8. ASSUME NEW c \in Callers, C!Unauthorized(c) PROVE Left'
  <2>1. Moves(c, C!At("resolve", caller[c].kind, 2, Nothing))
        /\ task' = [task EXCEPT ![c] = C!Resolution(caller[c].doc.bearer)]
    BY <1>8, Zenon DEF C!Unauthorized
  <2>2. ~Holds(C!At("resolve", caller[c].kind, 2, Nothing))
    BY <1>s
  <2> QED
    BY <1>3, <2>1, <2>2
<1>9. ASSUME NEW c \in Callers, C!RequireLogin(c) \/ C!Failed(c) PROVE Left'
  <2>1. task' = task /\ \E n : Moves(c, n) /\ ~Holds(n)
    <3>1. C!RequireLogin(c) => Moves(c, C!At("condemn", caller[c].kind, 2, Nothing)) /\ task' = task
      BY Zenon DEF C!RequireLogin
    <3>2. C!Failed(c) => Moves(c, C!AfterError(caller[c].kind)) /\ task' = task
      BY Zenon DEF C!Failed
    <3> QED
      BY <1>9, <1>s, <1>e, <3>1, <3>2
  <2> QED
    BY <1>1, <2>1
<1>10. ASSUME NEW c \in Callers, NEW d, C!Return(c, d) PROVE Left'
  <2>1. task' = [task EXCEPT ![c] = Nothing] /\ (caller' = caller \/ \E n : Moves(c, n))
    BY <1>10, Zenon DEF C!Return
  <2> QED
    BY <1>3, <2>1
<1>11. ASSUME NEW c \in Callers, NEW u, task[c] # Nothing, task' = [task EXCEPT ![c] = u],
              caller' = caller
       PROVE  Left'
  BY <1>3, <1>11
<1>12. ASSUME NEW c \in Callers, C!Resolve(c) \/ C!RefreshFails(c) \/ C!Persist(c) PROVE Left'
  <2>1. C!Resolve(c) => (\E d : C!Return(c, d))
           \/ (task[c] # Nothing /\ caller' = caller /\ \E u : task' = [task EXCEPT ![c] = u])
    BY Zenon DEF C!Resolve
  <2>2. C!RefreshFails(c) \/ C!Persist(c) => \E d : C!Return(c, d)
    BY Zenon DEF C!RefreshFails, C!Persist
  <2> QED
    BY <1>10, <1>11, <1>12, <2>1, <2>2
<1>13. ASSUME NEW c \in Callers, C!Renew(c) \/ C!Refuse(c) PROVE Left'
  <2>1. task[c] # Nothing /\ caller' = caller
    BY <1>13 DEF C!Renew, C!Refuse
  <2>2. \E u : task' = [task EXCEPT ![c] = u]
    BY <1>13, Zenon DEF C!Renew, C!Refuse, C!Answer
  <2> QED
    BY <1>11, <2>1, <2>2
<1>14. C!Cooled \/ C!BeginLogin \/ C!LockForLogin \/ C!Import \/ C!FinishLogin
       \/ C!BearerFails \/ C!Withdraw => caller' = caller /\ task' = task
  BY DEF C!Cooled, C!BeginLogin, C!LockForLogin, C!Import, C!FinishLogin, C!BearerFails, C!Withdraw
<1>15. CASE C!Restart
  BY <1>15, <1>i DEF C!Restart
<1> QED
  BY <1>2, <1>4, <1>5, <1>6, <1>7, <1>8, <1>9, <1>12, <1>13, <1>14, <1>15 DEF C!Next, C!Steps

\* Every step of the home keeps the grant where it can be found.
LEMMA ClaudeStep ==
  ASSUME ClaudeInv, Left, C!Next
  PROVE  ClaudeInv'
<1> USE DEF ClaudeInv, AtServer, Answered, GrantKept, C!GrantKept
<1> DEFINE Kept == auth' = auth /\ issued' = issued /\ live' = live /\ lost' = lost
           Same == task' = task /\ lock' = lock /\ login' = login
<1>q. Kept /\ Same => ClaudeInv'
  OBVIOUS
<1>1. ASSUME NEW c \in Callers, NEW k \in C!Kinds, C!Begin(c, k) PROVE ClaudeInv'
  <2>1. /\ task[c] = Nothing /\ UNCHANGED <<auth, issued, live, lost, lock, login>>
        /\ task' = task \/ task' = [task EXCEPT ![c] = [stage |-> "waiting", rejected |-> Nothing]]
    BY <1>1 DEF C!Begin, C!Resolution, C!sharedVars, C!serverVars
  <2> QED
    BY <2>1
<1>2. ASSUME NEW c \in Callers, C!GiveUp(c) PROVE ClaudeInv'
  BY <1>2, <1>q DEF C!GiveUp, C!sharedVars
<1>3. ASSUME NEW c \in Callers, C!Condemn(c) PROVE ClaudeInv'
  BY <1>3, <1>q DEF C!Condemn, C!sharedVars, C!serverVars
<1>4. ASSUME NEW c \in Callers, C!Use(c) PROVE ClaudeInv'
  BY <1>4, <1>q DEF C!Use, C!sharedVars, C!serverVars
<1>5. ASSUME NEW c \in Callers, C!Served(c) PROVE ClaudeInv'
  BY <1>5, <1>q DEF C!Served, C!sharedVars, C!serverVars
<1>6. ASSUME NEW c \in Callers, C!Unauthorized(c) PROVE ClaudeInv'
  BY <1>6 DEF C!Unauthorized, C!Resolution, C!sharedVars, C!serverVars, Left
<1>7. ASSUME NEW c \in Callers, C!RequireLogin(c) PROVE ClaudeInv'
  BY <1>7, <1>q DEF C!RequireLogin, C!serverVars
<1>8. ASSUME NEW c \in Callers, C!Failed(c) PROVE ClaudeInv'
  BY <1>8, <1>q DEF C!Failed, C!sharedVars, C!serverVars
<1>9. ASSUME NEW c \in Callers, C!Resolve(c) PROVE ClaudeInv'
  <2>1. /\ Kept /\ login' = login /\ lock = Nothing
        /\ task[c] # Nothing /\ task[c].stage = "waiting"
        /\ \/ task' = [task EXCEPT ![c] = Nothing] /\ lock' = lock
           \/ /\ auth # Nothing /\ lock' = c
              /\ task' = [task EXCEPT ![c] = [stage |-> "posted", doc |-> auth]]
    BY <1>9 DEF C!Resolve, C!Return, C!serverVars
  <2>2. \A d \in Callers : ~AtServer(d) /\ ~Answered(d)
    BY <2>1, ClaudeAssumption
  <2>3. login \notin {"locked", "outside"}
    BY <2>1, ClaudeAssumption
  <2>4. \A d \in Callers \ {c} : task'[d] = task[d]
    BY <2>1
  <2>5. CASE task' = [task EXCEPT ![c] = Nothing] /\ lock' = lock
    BY <2>1, <2>2, <2>3, <2>5
  <2>6. CASE /\ auth # Nothing /\ lock' = c
             /\ task' = [task EXCEPT ![c] = [stage |-> "posted", doc |-> auth]]
    <3>1. task' = [d \in Callers |-> task'[d]] /\ task'[c] = [stage |-> "posted", doc |-> auth]
      BY <2>6
    <3> QED
      BY <2>1, <2>2, <2>3, <2>4, <2>6, <3>1
  <2> QED
    BY <2>1, <2>5, <2>6
<1> DEFINE w(c, how, d) == [stage |-> "answered", doc |-> task[c].doc, how |-> how, renewed |-> d]
<1>a. ASSUME NEW c \in Callers, NEW how \in {"renewed", "refused", "later", "broken"}, 
             NEW d \in C!Documents \cup {Nothing}, AtServer(c), C!Answer(c, how, d)
      PROVE  /\ task' = [e \in Callers |-> task'[e]]
             /\ \A e \in Callers \ {c} : task'[e] = task[e]
             /\ Answered(c)' /\ ~AtServer(c)' /\ task'[c] \in C!Answers
             /\ task'[c].how = how /\ task'[c].renewed = d /\ task'[c].doc = auth
  <2>1. task' = [task EXCEPT ![c] = w(c, how, d)]
    BY <1>a, Zenon DEF C!Answer
  <2>2. w(c, how, d) \in C!Answers
    BY <1>a DEF C!Answers
  <2>3. w(c, how, d).stage = "answered" /\ w(c, how, d).doc = auth
    BY <1>a
  <2> QED
    BY <2>1, <2>2, <2>3, ClaudeAssumption
<1>10. ASSUME NEW c \in Callers, C!Renew(c) PROVE ClaudeInv'
  <2>1. /\ AtServer(c) /\ auth' = auth /\ lock' = lock /\ login' = login
        /\ issued' = issued + 1
    BY <1>10 DEF C!Renew
  <2>2. PICK g \in {issued + 1, task[c].doc.grant} :
          /\ live' = (live \ {task[c].doc.grant}) \cup {g}
          /\ \/ C!Answer(c, "renewed", C!Document(g, issued + 1)) /\ UNCHANGED lost
             \/ C!Answer(c, "broken", Nothing) /\ lost' = lost \cup {task[c].doc.grant}
    BY <1>10 DEF C!Renew
  <2>3. task[c].doc = auth /\ lock = c /\ auth \in C!Documents /\ g \in Nat
    BY <2>1 DEF C!Documents
  <2>4. C!Document(g, issued + 1) \in C!Documents /\ C!Document(g, issued + 1).grant = g
    BY <2>3 DEF C!Document, C!Documents
  <2>5. \A e \in Callers \ {c} : ~AtServer(e) /\ ~Answered(e)
    BY <2>3
  <2>6. CASE C!Answer(c, "renewed", C!Document(g, issued + 1)) /\ UNCHANGED lost
    BY <1>a, <2>1, <2>2, <2>3, <2>4, <2>5, <2>6
  <2>7. CASE C!Answer(c, "broken", Nothing) /\ lost' = lost \cup {task[c].doc.grant}
    BY <1>a, <2>1, <2>2, <2>3, <2>5, <2>7
  <2> QED
    BY <2>2, <2>6, <2>7
<1>11. ASSUME NEW c \in Callers, C!Refuse(c) PROVE ClaudeInv'
  <2>1. AtServer(c) /\ Kept /\ lock' = lock /\ login' = login
    BY <1>11 DEF C!Refuse, C!sharedVars, C!serverVars
  <2>2. PICK how \in {"refused", "later", "broken"} : C!Answer(c, how, Nothing)
    BY <1>11 DEF C!Refuse
  <2>3. lock = c /\ auth # Nothing /\ \A e \in Callers \ {c} : ~AtServer(e) /\ ~Answered(e)
    BY <2>1
  <2>4. auth.grant \in live \cup lost
    BY <2>1, <2>3
  <2> QED
    BY <1>a, <2>1, <2>2, <2>3, <2>4
<1>12. ASSUME NEW c \in Callers, C!RefreshFails(c) PROVE ClaudeInv'
  <2>1. /\ Kept /\ Answered(c) /\ login' = login /\ lock' = Nothing
        /\ task[c].how # "renewed" /\ task' = [task EXCEPT ![c] = Nothing]
    BY <1>12 DEF C!RefreshFails, C!Return, C!serverVars
  <2>2. \A e \in Callers \ {c} : ~AtServer(e) /\ ~Answered(e)
    BY <2>1
  <2> QED
    BY <2>1, <2>2, ClaudeAssumption
<1>13. ASSUME NEW c \in Callers, C!Persist(c) PROVE ClaudeInv'
  <2>1. /\ Answered(c) /\ login' = login /\ lock' = Nothing /\ live' = live /\ issued' = issued
        /\ task[c].how = "renewed" /\ task' = [task EXCEPT ![c] = Nothing]
        /\ \/ auth' = task[c].renewed /\ lost' = lost
           \/ auth' = auth /\ lost' = lost \cup {task[c].doc.grant}
    BY <1>13 DEF C!Persist, C!Return, C!serverVars
  <2>2. \A e \in Callers \ {c} : ~AtServer(e) /\ ~Answered(e)
    BY <2>1
  <2> QED
    BY <2>1, <2>2, ClaudeAssumption
<1>14. CASE C!Cooled
  BY <1>14, <1>q DEF C!Cooled, C!serverVars
<1>15. CASE C!BeginLogin
  BY <1>15 DEF C!BeginLogin
<1>16. CASE C!LockForLogin
  BY <1>16, ClaudeAssumption DEF C!LockForLogin
<1>17. CASE C!Import
  <2>1. /\ lock = "login" /\ lock' = Nothing /\ login' \in {"none", "finish"}
        /\ task' = task /\ lost' = lost
        /\ \/ UNCHANGED <<auth, issued, live>>
           \/ /\ issued' = issued + 1 /\ live' = live \cup {issued + 1}
              /\ auth' = C!Document(issued + 1, issued + 1)
    BY <1>17 DEF C!Import
  <2>2. \A e \in Callers : ~AtServer(e) /\ ~Answered(e)
    BY <2>1, ClaudeAssumption
  <2>3. C!Document(issued + 1, issued + 1) \in C!Documents
        /\ C!Document(issued + 1, issued + 1).grant = issued + 1 /\ issued + 1 \in Nat
    BY DEF C!Document, C!Documents
  <2> QED
    BY <2>1, <2>2, <2>3
<1>18. CASE C!FinishLogin
  BY <1>18 DEF C!FinishLogin, C!serverVars
<1>19. CASE C!BearerFails
  BY <1>19, <1>q DEF C!BearerFails, C!sharedVars
<1>20. CASE C!Withdraw
  BY <1>20 DEF C!Withdraw
<1>21. CASE C!Restart
  BY <1>21, ClaudeAssumption DEF C!Restart
<1> QED
  BY <1>1, <1>2, <1>3, <1>4, <1>5, <1>6, <1>7, <1>8, <1>9, <1>10, <1>11, <1>12, <1>13,
     <1>14, <1>15, <1>16, <1>17, <1>18, <1>19, <1>20, <1>21 DEF C!Next, C!Steps

\* A step of the host is the home's own, or leaves it alone.
LEMMA ClaudeAlone == [HostNext]_host => C!Next \/ UNCHANGED authVars
BY DEF HostNext, host

(***************************************************************************)
(* GrantKept: however callers time out, leave, refresh at once or log in   *)
(* meanwhile, the grant on file is usable, unless the provider withdrew it *)
(* or its successor was lost in transit or on the way to the disk          *)
(* (claude/auth.rs).                                                       *)
(***************************************************************************)
THEOREM GrantKeptAlways == HostSpec => []GrantKept
<1> DEFINE Inv == ClaudeInv /\ Left
<1>1. HostInit => Inv
  <2> SUFFICES ASSUME C!Init PROVE Inv
    BY DEF HostInit
  <2>1. Left
    BY DEF C!Init, Left, C!Idle
  <2>2. ClaudeInv
    BY DEF C!Init, C!Document, ClaudeInv, AtServer, Answered, GrantKept, C!GrantKept, C!Documents
  <2> QED
    BY <2>1, <2>2
<1>2. Inv /\ [HostNext]_host => Inv'
  <2> SUFFICES ASSUME Inv, [HostNext]_host PROVE Inv'
    OBVIOUS
  <2>1. CASE UNCHANGED authVars
    BY <2>1 DEF authVars, ClaudeInv, AtServer, Answered, GrantKept, C!GrantKept, Left
  <2>2. CASE C!Next
    BY <2>2, ClaudeStep, LeftStep
  <2> QED
    BY <2>1, <2>2, ClaudeAlone
<1>3. Inv => GrantKept
  BY DEF ClaudeInv
<1> QED
  BY <1>1, <1>2, <1>3, PTL DEF HostSpec
=============================================================================
