------------------------------ MODULE Installs ------------------------------
(***************************************************************************)
(* `comradex install` and `comradex uninstall` (install.rs): the daemon's  *)
(* URL takes the place of the user's own value in a client's configuration *)
(* and a record keeps that value.  Three clients do it in three ways:      *)
(*                                                                         *)
(*   claude   settings.json; the record is written before the value;       *)
(*   desktop  launchd's environment; the record first as well;             *)
(*   codex    config.toml; the value first, rolled back when the record    *)
(*            cannot be written; either shape of the URL counts as ours.   *)
(*                                                                         *)
(* A command may be killed between any two of its writes.  Between the     *)
(* commands the user edits the configuration, by hand also to our URL, and *)
(* the listener of the daemon's configuration.                             *)
(***************************************************************************)
CONSTANTS
  Places,    \* files or environments an installation may go to
  Theirs,    \* the user's own values; the absence of a value is one of them
  Bases,     \* listener address and installation secret
  Nothing

VARIABLES
  client,    \* the client the commands are for
  value,     \* what the configuration of each place holds
  record,    \* the install record on disk
  command,   \* the command that runs
  mine,      \* history: the value the user gave each place last
  lost       \* history: places whose value a killed installation lost

vars == <<client, value, record, command, mine, lost>>

Clients == {"claude", "desktop", "codex"}
Shapes == {"v1", "codex"}
Ours == [base : Bases, shape : Shapes]
Values == Ours \cup Theirs

Records == [place : Places, url : Ours, previous : Values]
Stages == {"record", "value", "rollback", "restore", "remove"}
Commands == [place : Places, stage : Stages, url : Ours, previous : Values,
             before : Values, fresh : BOOLEAN]

InstallsAssumption ==
  /\ Nothing \notin Records \cup Commands
  /\ Theirs \cap Ours = {}

\* Only Codex has two shapes of URL; either counts as the recorded one.
IsOwned(current, url) ==
  /\ current \in Ours
  /\ current.base = url.base
  /\ client = "codex" \/ current.shape = url.shape

TypeOK ==
  /\ client \in Clients
  /\ value \in [Places -> Values]
  /\ record \in Records \cup {Nothing}
  /\ command \in Commands \cup {Nothing}
  /\ mine \in [Places -> Values]
  /\ lost \subseteq Places

Init ==
  /\ client \in Clients
  /\ value \in [Places -> Theirs]
  /\ mine = value
  /\ record = Nothing
  /\ command = Nothing
  /\ lost = {}

-----------------------------------------------------------------------------
(* What a record allows.                                                   *)

\* Installing again: Codex accepts its own URL in either shape and may change
\* it; the others keep the recorded URL and accept the original value as well.
Reinstalls(p, url) ==
  /\ record.place = p
  /\ \/ client = "codex" /\ IsOwned(value[p], record.url)
     \/ /\ client # "codex"
        /\ record.url = url
        /\ value[p] \in {url, record.previous}

\* Mutant: a reinstallation records the value it finds.
PreviousFound(p) == value[p]

Previous(p) == IF record = Nothing THEN value[p] ELSE record.previous

\* A value found where the original would be is put back, or is it already.
MayUninstall ==
  \/ value[record.place] = record.previous
  \/ IsOwned(value[record.place], record.url)

-----------------------------------------------------------------------------
(* The commands.                                                           *)

\* install: everything is read and checked before anything is written.  The
\* shape of Codex's URL follows a feature flag of its configuration.
Install(p, url) ==
  /\ command = Nothing
  /\ client # "codex" => url.shape = "v1"
  /\ record # Nothing => Reinstalls(p, url)
  /\ command' = [place |-> p, url |-> url, previous |-> Previous(p),
                 before |-> value[p], fresh |-> record = Nothing,
                 stage |-> IF client = "codex" THEN "value" ELSE "record"]
  /\ UNCHANGED <<client, value, record, mine, lost>>

Running(stage) == command # Nothing /\ command.stage = stage

\* The value is replaced; for Codex the record follows.
WriteValue ==
  /\ Running("value")
  /\ value' = [value EXCEPT ![command.place] = command.url]
  /\ command' = IF client = "codex" THEN [command EXCEPT !.stage = "record"]
                                    ELSE Nothing
  /\ UNCHANGED <<client, record, mine, lost>>

WriteRecord ==
  /\ Running("record")
  /\ record' = [place |-> command.place, url |-> command.url,
                previous |-> command.previous]
  /\ command' = IF client = "codex" THEN Nothing
                                    ELSE [command EXCEPT !.stage = "value"]
  /\ UNCHANGED <<client, value, mine, lost>>

\* Codex's configuration is rolled back when its record cannot be written.
RecordFails ==
  /\ Running("record") /\ client = "codex"
  /\ command' = [command EXCEPT !.stage = "rollback"]
  /\ UNCHANGED <<client, value, record, mine, lost>>

RollBack ==
  /\ Running("rollback")
  /\ value' = [value EXCEPT ![command.place] = command.before]
  /\ command' = Nothing
  /\ UNCHANGED <<client, record, mine, lost>>

\* uninstall: restore the original unless it is there, then forget it.
Uninstall ==
  /\ command = Nothing /\ record # Nothing
  /\ MayUninstall
  /\ command' = [place |-> record.place, url |-> record.url,
                 previous |-> record.previous, before |-> value[record.place],
                 fresh |-> FALSE,
                 stage |-> IF value[record.place] = record.previous
                             THEN "remove" ELSE "restore"]
  /\ UNCHANGED <<client, value, record, mine, lost>>

Restore ==
  /\ Running("restore")
  /\ value' = [value EXCEPT ![command.place] = command.previous]
  /\ command' = [command EXCEPT !.stage = "remove"]
  /\ UNCHANGED <<client, record, mine, lost>>

Remove ==
  /\ Running("remove")
  /\ record' = Nothing
  /\ command' = Nothing
  /\ UNCHANGED <<client, value, mine, lost>>

\* Killed, or a write that failed and was not rolled back.  Codex's value has
\* been replaced by then, and a first installation has no record of it.
Stop ==
  /\ command # Nothing
  /\ command' = Nothing
  /\ lost' = IF command.fresh /\ client = "codex"
                  /\ command.stage \in {"record", "rollback"}
               THEN lost \cup {command.place} ELSE lost
  /\ UNCHANGED <<client, value, record, mine>>

\* The user edits a value.  Typing our own URL where it is installed says
\* that the installation stands, not that the URL is the user's value.
Edit(p, x) ==
  /\ command = Nothing
  /\ x # value[p]
  /\ value' = [value EXCEPT ![p] = x]
  /\ IF record # Nothing /\ record.place = p /\ IsOwned(x, record.url)
       THEN mine' = [mine EXCEPT ![p] = record.previous] /\ UNCHANGED lost
       ELSE mine' = [mine EXCEPT ![p] = x] /\ lost' = lost \ {p}
  /\ UNCHANGED <<client, record, command>>

Next ==
  \/ \E p \in Places, url \in Ours : Install(p, url)
  \/ WriteValue \/ WriteRecord \/ RecordFails \/ RollBack
  \/ Uninstall \/ Restore \/ Remove
  \/ Stop
  \/ \E p \in Places, x \in Values : Edit(p, x)

Spec == Init /\ [][Next]_vars

-----------------------------------------------------------------------------
Holds(x, p) == x # Nothing /\ x.place = p /\ x.previous = mine[p]

\* Whatever is installed, reinstalled, switched by hand, uninstalled and
\* killed in between, the user's own value is in the configuration or can be
\* restored from the record (or from the command about to write it).  Only a
\* first installation for Codex that is killed between its two writes loses
\* it.
OriginalKept ==
  \A p \in Places \ lost :
    value[p] = mine[p] \/ Holds(record, p) \/ Holds(command, p)
=============================================================================
