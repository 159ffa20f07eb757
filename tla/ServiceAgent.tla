---------------------------- MODULE ServiceAgent ----------------------------
(***************************************************************************)
(* The daemon as a LaunchAgent (service.rs): its plist on disk, the job    *)
(* launchd has loaded, and the commands that install, replace, start,      *)
(* restart and uninstall it or stop it while an account is maintained.     *)
(*                                                                         *)
(* launchd runs beside a command: it spawns the job, keeps it alive, and   *)
(* acknowledges a bootout before the job is gone.  Every call of launchctl *)
(* and every write may fail, every wait may reach its deadline, and a      *)
(* command may be killed between any two of its steps.  One command runs   *)
(* at a time.                                                              *)
(***************************************************************************)
EXTENDS Naturals

CONSTANTS
  Bodies,     \* what a plist says besides its nonce: executable, configuration
  MaxNonce,   \* bound on the definitions ever rendered
  Nothing

VARIABLES
  plist,      \* the LaunchAgent's definition on disk
  job,        \* the job launchd has loaded
  command,    \* the command that runs
  nonces      \* readiness identities handed out

vars == <<plist, job, command, nonces>>

\* A definition has the nonce its process answers health requests with.
Agents == [body : Bodies, nonce : 1..MaxNonce]

\* The process of a job: `ready` when its listeners answer, `old` when it is
\* the one a kickstart is about to replace.  A `leaving` job was booted out.
Jobs == [agent : Agents, state : {"starting", "running", "stopped"},
         ready : BOOLEAN, old : BOOLEAN, failed : BOOLEAN, leaving : BOOLEAN]

Ops == {"install", "start", "restart", "uninstall", "maintain"}
Stages == {"stop", "unload", "persist", "bootstrap", "kickstart", "wait",
           "undo", "undo unload", "undo write", "undo start", "undo wait",
           "action", "remove"}

\* `loaded` and `previous` are what the command found.
Commands == [op : Ops, stage : Stages, agent : Agents \cup {Nothing},
             previous : Agents \cup {Nothing}, loaded : BOOLEAN]

TypeOK ==
  /\ plist \in Agents \cup {Nothing}
  /\ job \in Jobs \cup {Nothing}
  /\ command \in Commands \cup {Nothing}
  /\ nonces \in 0..MaxNonce

Init == plist = Nothing /\ job = Nothing /\ command = Nothing /\ nonces = 0

-----------------------------------------------------------------------------
(* launchd.                                                                *)

Loaded == job # Nothing
NewJob(agent) == [agent |-> agent, state |-> "starting", ready |-> FALSE,
                  old |-> FALSE, failed |-> FALSE, leaving |-> FALSE]

Spawn ==
  /\ Loaded /\ job.state = "starting"
  /\ job' = [job EXCEPT !.state = "running", !.old = FALSE]
  /\ UNCHANGED <<plist, command, nonces>>

\* The daemon has bound its listeners.
Listen ==
  /\ Loaded /\ job.state = "running" /\ ~job.ready
  /\ job' = [job EXCEPT !.ready = TRUE]
  /\ UNCHANGED <<plist, command, nonces>>

\* It exits, with a failure or without, or is killed for a kickstart.
Exit(failed) ==
  /\ Loaded /\ job.state \in {"starting", "running"}
  /\ job' = [job EXCEPT !.state = "stopped", !.ready = FALSE, !.old = FALSE,
                        !.failed = failed]
  /\ UNCHANGED <<plist, command, nonces>>

\* KeepAlive, after launchd's throttle.
KeepAlive ==
  /\ Loaded /\ job.state = "stopped" /\ ~job.leaving
  /\ job' = [job EXCEPT !.state = "starting"]
  /\ UNCHANGED <<plist, command, nonces>>

\* The job of an acknowledged bootout is gone.
Unload ==
  /\ Loaded /\ job.leaving
  /\ job' = Nothing
  /\ UNCHANGED <<plist, command, nonces>>

-----------------------------------------------------------------------------
(* A command's reads.                                                      *)

Command(op, stage, agent) ==
  [op |-> op, stage |-> stage, agent |-> agent, previous |-> plist,
   loaded |-> Loaded]

\* An unloaded job is bootstrapped, a stopped one kickstarted, and a start
\* leaves one alone that starts or runs; a restart kickstarts any.
StartsAt(op) ==
  CASE ~Loaded -> "bootstrap"
    [] Loaded /\ (op = "restart" \/ job.state = "stopped") -> "kickstart"
    [] OTHER -> "wait"

\* install: the same definition is only started.  Another gets a nonce of its
\* own, so that the old listener cannot answer for it.  A job without a plist
\* could not be restored and is refused.
Install(body) ==
  /\ command = Nothing
  /\ \/ /\ plist # Nothing /\ plist.body = body
        /\ command' = Command("start", StartsAt("start"), plist)
        /\ UNCHANGED nonces
     \/ /\ plist # Nothing => plist.body # body
        /\ Loaded => plist # Nothing
        /\ nonces < MaxNonce
        /\ nonces' = nonces + 1
        /\ command' = Command("install", IF Loaded THEN "stop" ELSE "persist",
                              [body |-> body, nonce |-> nonces + 1])
  /\ UNCHANGED <<plist, job>>

Start(op) ==
  /\ command = Nothing /\ plist # Nothing
  /\ command' = Command(op, StartsAt(op), plist)
  /\ UNCHANGED <<plist, job, nonces>>

Uninstall ==
  /\ command = Nothing
  /\ Loaded \/ plist # Nothing
  /\ command' = Command("uninstall", IF Loaded THEN "stop" ELSE "remove", Nothing)
  /\ UNCHANGED <<plist, job, nonces>>

\* while_daemon_stopped: a login of the CLI, which writes credentials.
Maintain ==
  /\ command = Nothing
  /\ command' = Command("maintain",
                        IF plist # Nothing /\ Loaded THEN "stop" ELSE "action",
                        plist)
  /\ UNCHANGED <<plist, job, nonces>>

-----------------------------------------------------------------------------
(* A command's steps.                                                      *)

Running(stage) == command # Nothing /\ command.stage = stage
Goto(stage) == command' = [command EXCEPT !.stage = stage]
End == command' = Nothing

AfterUnload ==
  CASE command.op = "install" -> "persist"
    [] command.op = "uninstall" -> "remove"
    [] command.op = "maintain" -> "action"

\* stop: the bootout is acknowledged, and then awaited.  A failure of either
\* ends the command.
Bootout ==
  /\ Running("stop") /\ Loaded
  /\ job' = [job EXCEPT !.leaving = TRUE]
  /\ Goto("unload")
  /\ UNCHANGED <<plist, nonces>>

\* Mutant: an acknowledged bootout is taken for a job that is gone.
UnloadedSoon ==
  /\ \/ Running("unload")
     \/ Running("stop") /\ ~Loaded /\ command.op # "maintain"
  /\ Goto(AfterUnload)
  /\ UNCHANGED <<plist, job, nonces>>

Unloaded ==
  /\ \/ Running("unload") /\ ~Loaded
     \/ Running("stop") /\ ~Loaded /\ command.op # "maintain"
  /\ Goto(AfterUnload)
  /\ UNCHANGED <<plist, job, nonces>>

StopFails ==
  /\ Running("stop") \/ (Running("unload") /\ Loaded)
  /\ End
  /\ UNCHANGED <<plist, job, nonces>>

\* The new definition takes the place of the old one.  When that fails, the
\* old one, which is still there, is started again.
Persist ==
  /\ Running("persist")
  /\ \/ plist' = command.agent /\ Goto("bootstrap")
     \/ /\ UNCHANGED plist
        /\ IF command.loaded THEN Goto("undo start") ELSE End
  /\ UNCHANGED <<job, nonces>>

\* bootstrap: launchd refuses a label that is still registered.
Bootstrap ==
  /\ Running("bootstrap")
  /\ \/ ~Loaded /\ job' = NewJob(plist) /\ Goto("wait")
     \/ /\ UNCHANGED job
        /\ IF command.op = "install" THEN Goto("undo") ELSE End
  /\ UNCHANGED <<plist, nonces>>

\* kickstart -k: a process that runs is about to be killed.
Kickstart ==
  /\ Running("kickstart")
  /\ \/ /\ Loaded
        /\ job' = IF job.state = "running"
                    THEN [job EXCEPT !.old = TRUE]
                    ELSE [job EXCEPT !.state = "starting"]
        /\ Goto("wait")
     \/ UNCHANGED job /\ End
  /\ UNCHANGED <<plist, nonces>>

\* Only the process of this definition answers to its nonce.
Ready(agent) ==
  /\ Loaded
  /\ job.state = "running" /\ job.ready /\ ~job.old
  /\ job.agent.nonce = agent.nonce

\* At its deadline a wait has failed when the job is gone or did not survive
\* its start; anything else is only late, and may still come up.
StartFailed == Loaded => job.state = "stopped" /\ job.failed

Wait ==
  /\ Running("wait")
  /\ \/ Ready(command.agent) /\ End
     \/ ~StartFailed /\ End
     \/ /\ StartFailed
        /\ IF command.op = "install" THEN Goto("undo") ELSE End
  /\ UNCHANGED <<plist, job, nonces>>

\* The maintenance itself, with whatever outcome: the service comes back.
Act ==
  /\ Running("action")
  /\ IF command.loaded /\ command.previous # Nothing THEN Goto("bootstrap")
                                                     ELSE End
  /\ UNCHANGED <<plist, job, nonces>>

Remove ==
  /\ Running("remove")
  /\ plist' \in {plist, Nothing}
  /\ End
  /\ UNCHANGED <<job, nonces>>

-----------------------------------------------------------------------------
(* The rollback of a replacement that failed.                              *)

UndoStop ==
  /\ Running("undo")
  /\ \/ /\ Loaded
        /\ job' = [job EXCEPT !.leaving = TRUE]
        /\ Goto("undo unload")
     \/ ~Loaded /\ UNCHANGED job /\ Goto("undo write")
     \/ UNCHANGED job /\ End
  /\ UNCHANGED <<plist, nonces>>

UndoUnloaded ==
  /\ Running("undo unload")
  /\ IF Loaded THEN End ELSE Goto("undo write")
  /\ UNCHANGED <<plist, job, nonces>>

UndoWrite ==
  /\ Running("undo write")
  /\ \/ /\ plist' = command.previous
        /\ IF command.loaded THEN Goto("undo start") ELSE End
     \/ UNCHANGED plist /\ End
  /\ UNCHANGED <<job, nonces>>

UndoStart ==
  /\ Running("undo start")
  /\ \/ ~Loaded /\ job' = NewJob(plist) /\ Goto("undo wait")
     \/ UNCHANGED job /\ End
  /\ UNCHANGED <<plist, nonces>>

\* The old service need only run.
UndoWait ==
  /\ Running("undo wait")
  /\ End
  /\ UNCHANGED <<plist, job, nonces>>

\* The command is killed.
Kill ==
  /\ command # Nothing
  /\ End
  /\ UNCHANGED <<plist, job, nonces>>

\* Somebody deletes the plist.
Delete ==
  /\ command = Nothing /\ plist # Nothing
  /\ plist' = Nothing
  /\ UNCHANGED <<job, command, nonces>>

Next ==
  \/ Spawn \/ Listen \/ (\E failed \in BOOLEAN : Exit(failed))
  \/ KeepAlive \/ Unload
  \/ (\E body \in Bodies : Install(body))
  \/ (\E op \in {"start", "restart"} : Start(op))
  \/ Uninstall \/ Maintain
  \/ Bootout \/ Unloaded \/ StopFails \/ Persist \/ Bootstrap \/ Kickstart
  \/ Wait \/ Act \/ Remove
  \/ UndoStop \/ UndoUnloaded \/ UndoWrite \/ UndoStart \/ UndoWait
  \/ Kill \/ Delete

Spec == Init /\ [][Next]_vars

-----------------------------------------------------------------------------
\* Whatever fails, is late or is killed, the job that is loaded is the one of
\* the plist on disk, so that the next login of the user starts what runs now;
\* and a replacement that failed has put the old plist and its job back.
InstalledRuns ==
  /\ Loaded /\ plist # Nothing => job.agent = plist
  /\ Running("undo wait") => Loaded /\ plist = command.previous

\* While the CLI maintains an account, the installed daemon is gone, not only
\* told to go: nothing refreshes the credentials that the login writes.
MaintenanceAlone ==
  Running("action") /\ command.previous # Nothing => ~Loaded
=============================================================================
