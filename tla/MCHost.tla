------------------------------- MODULE MCHost -------------------------------
(***************************************************************************)
(* Three clients that compete for one bridge session (BridgeSessions), and *)
(* what happens around the proxy: the daemon that is configured and        *)
(* restarted (Daemon), the tasks it ends then (TaskSet), the agent of      *)
(* launchd that runs it (ServiceAgent), and the credentials of a Claude    *)
(* home (ClaudeAuth).  A behaviour is that of one part; the others stay in *)
(* their initial states.                                                   *)
(***************************************************************************)
EXTENDS BridgeSessions

CONSTANTS
  Accounts, NoAccount, Handlers, MaxEdits, Nothing,
  Callers, Sweep, MaxIssued, MaxTrouble,
  Bodies, MaxNonce,
  Tasks, Streams, Listener, MaxConnections,
  Client   \* the one that the liveness properties are about

VARIABLES
  part,
  config, daemon, loaded, roles, editLock, handlers, reload, cli, outside, edits,
  auth, issued, live, bad, aged, lost, failures, lock, task, caller, marked,
  login, trouble,
  plist, job, command, nonces,
  phase, spawner, handle, accepting, down, stopping

daemonVars == <<config, daemon, loaded, roles, editLock, handlers, reload, cli,
                outside, edits>>
authVars == <<auth, issued, live, bad, aged, lost, failures, lock, task, caller,
              marked, login, trouble>>
agentVars == <<plist, job, command, nonces>>
taskVars == <<phase, spawner, handle, accepting, down, stopping>>

D == INSTANCE Daemon WITH file <- config, lock <- editLock
C == INSTANCE ClaudeAuth WITH file <- auth
S == INSTANCE ServiceAgent
T == INSTANCE TaskSet WITH listening <- accepting

\* What the proofs need of the constants.
ASSUME AgentAssumption == MaxNonce \in Nat /\ Nothing \notin S!Agents \cup S!Jobs
ASSUME TaskAssumption == IsFiniteSet(Tasks) /\ MaxConnections \in Nat
ASSUME DaemonAssumption == Nothing \notin Handlers \cup D!Working /\ MaxEdits \in Nat
ASSUME ClaudeAssumption ==
  "login" \notin Callers /\ Nothing \notin Callers \cup C!Answers \cup {"login"}

host == <<part, vars, daemonVars, authVars, agentVars, taskVars>>

HostInit ==
  /\ part \in {"bridge", "daemon", "claude", "agent", "tasks"}
  /\ Init /\ D!Init /\ C!Init /\ S!Init /\ T!Init
  /\ part # "claude" => auth = Nothing

HostNext ==
  /\ UNCHANGED part
  /\ \/ part = "bridge" /\ Next /\ UNCHANGED <<daemonVars, authVars, agentVars, taskVars>>
     \/ part = "daemon" /\ D!Next /\ UNCHANGED <<vars, authVars, agentVars, taskVars>>
     \/ part = "claude" /\ C!Next /\ UNCHANGED <<vars, daemonVars, agentVars, taskVars>>
     \/ part = "agent" /\ S!Next /\ UNCHANGED <<vars, daemonVars, authVars, taskVars>>
     \/ part = "tasks" /\ T!Next /\ UNCHANGED <<vars, daemonVars, authVars, agentVars>>

\* The fairness of each module.
HostSpec ==
  /\ HostInit /\ [][HostNext]_host
  /\ \A c \in Clients : /\ WF_vars(part = "bridge" /\ Work(c))
                        /\ WF_vars(part = "bridge" /\ Turns(c))
  /\ SF_authVars(part = "claude" /\ C!Begin(Sweep, "sweep"))
  /\ \A c \in Callers :
       /\ WF_authVars(part = "claude" /\ C!Steps(c))
       /\ SF_authVars(part = "claude" /\ C!Resolve(c))
       /\ WF_authVars(part = "claude" /\ (C!Renew(c) \/ C!Refuse(c)))
  /\ WF_authVars(part = "claude" /\ C!Cooled)
  /\ SF_authVars(part = "claude" /\ C!LockForLogin)
  /\ WF_authVars(part = "claude" /\ C!Import)
  /\ WF_authVars(part = "claude" /\ C!FinishLogin)

\* RunningHoldsSlot and NoLostWakeup are those of BridgeSessions.
SavedIsUsed == D!TypeOK /\ D!SavedIsUsed
GrantKept == C!GrantKept
InstalledRuns == S!TypeOK /\ S!InstalledRuns /\ S!MaintenanceAlone
NothingAfterShutdown == T!NothingAfterShutdown

\* The slots of the bridge go round: clients are alike, and what holds of one
\* holds of all.  A Claude home that was repaired is offered again.
HostGoesOn == /\ EvictionEnds(Client) /\ AdmissionEnds(Client)
              /\ C!RepairedIsOffered
=============================================================================
