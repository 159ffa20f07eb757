------------------------------- MODULE Daemon -------------------------------
(***************************************************************************)
(* The daemon, its configuration file and those who edit it: the loop of   *)
(* serve and serve_once (main.rs), the control server with its edit lock   *)
(* and its reload (control.rs), the edits of the file (accounts.rs,        *)
(* config.rs), and the command line, which edits the file itself when the  *)
(* daemon has no socket, or always does.                                   *)
(*                                                                         *)
(* One pool stands for all.  An edit of a handler, from reading the file   *)
(* to replacing it, does not yield; it is one step.  A handler of a daemon *)
(* that stops is dropped at its next await.                                *)
(***************************************************************************)
EXTENDS Naturals

CONSTANTS
  Accounts,   \* the members of the pool
  NoAccount,
  Handlers,   \* control requests at a time
  MaxEdits,   \* bound on the requests and the edits from outside
  Nothing

VARIABLES
  file,       \* comradex.toml
  daemon,     \* where serve is
  loaded,     \* the configuration the daemon has loaded
  roles,      \* the roles its router uses
  lock,       \* the handler that holds edit_lock
  handlers,   \* control requests in progress
  reload,     \* the permit of the reload Notify
  cli,        \* the text an `account connect` of the command line will write
  outside,    \* the file was edited past the running daemon since its load
  edits

vars == <<file, daemon, loaded, roles, lock, handlers, reload, cli, outside, edits>>

Slots == Accounts \cup {NoAccount}
Roles == [preferred : Slots, preserved : Slots]

\* Config::validate: no account has both roles.
Valid(r) == r.preferred = r.preserved => r.preferred = NoAccount
Files == [roles : {r \in Roles : Valid(r)}, connected : SUBSET Accounts]

Requests ==
  [kind : {"prefer", "preserve"}, account : Slots]
    \cup [kind : {"role"}, account : Accounts, role : {"preferred", "normal", "preserved"}]
    \cup [kind : {"connect"}, account : Accounts]

Working == [request : Requests, stage : {"edit", "publish", "respond"},
            order : Roles]

TypeOK ==
  /\ file \in Files
  /\ daemon \in {"stopped", "restarting", "loading", "running", "reloading", "stopping"}
  /\ loaded \in Files
  /\ roles \in Roles
  /\ lock \in Handlers \cup {Nothing}
  /\ handlers \in [Handlers -> Working \cup {Nothing}]
  /\ reload \in BOOLEAN
  /\ cli \in Files \cup {Nothing}
  /\ outside \in BOOLEAN
  /\ edits \in 0..MaxEdits

Init ==
  /\ file = [roles |-> [preferred |-> NoAccount, preserved |-> NoAccount],
             connected |-> {}]
  /\ daemon = "stopped"
  /\ loaded = file /\ roles = file.roles
  /\ lock = Nothing /\ handlers = [h \in Handlers |-> Nothing]
  /\ reload = FALSE /\ cli = Nothing /\ outside = FALSE /\ edits = 0

-----------------------------------------------------------------------------
(* Edits of the file.                                                      *)

Opposite(field) == IF field = "preferred" THEN "preserved" ELSE "preferred"

\* set_account_order refuses an account that has the other role.
MayHave(r, field, a) == a # NoAccount => r[Opposite(field)] # a

Without(r, a) == [field \in DOMAIN r |-> IF r[field] = a THEN NoAccount ELSE r[field]]

\* update_account_role clears the account's roles in the saved file first.
NewRoles(r, request) ==
  CASE request.kind = "prefer"   -> [r EXCEPT !.preferred = request.account]
    [] request.kind = "preserve" -> [r EXCEPT !.preserved = request.account]
    [] request.kind = "role" /\ request.role = "normal" ->
         Without(r, request.account)
    [] OTHER -> [Without(r, request.account) EXCEPT ![request.role] = request.account]

Allowed(f, request) ==
  CASE request.kind = "prefer"   -> MayHave(f.roles, "preferred", request.account)
    [] request.kind = "preserve" -> MayHave(f.roles, "preserved", request.account)
    [] request.kind = "connect"  -> request.account \notin f.connected
    [] OTHER -> TRUE

Edited(f, request) ==
  IF request.kind = "connect"
    THEN [f EXCEPT !.connected = @ \cup {request.account}]
    ELSE [f EXCEPT !.roles = NewRoles(@, request)]

-----------------------------------------------------------------------------
(* serve.                                                                  *)

Up == daemon \in {"loading", "running"}

\* serve_once loads the file and builds the router from it; the socket that
\* the command line looks for is bound later.
Load ==
  /\ daemon \in {"stopped", "restarting"}
  /\ daemon' = "loading"
  /\ loaded' = file /\ roles' = file.roles
  /\ reload' = FALSE /\ outside' = FALSE
  /\ UNCHANGED <<file, lock, handlers, cli, edits>>

Bind ==
  /\ daemon = "loading"
  /\ daemon' = "running"
  /\ UNCHANGED <<file, loaded, roles, lock, handlers, reload, cli, outside, edits>>

DropHandlers ==
  /\ handlers' = [h \in Handlers |-> Nothing]
  /\ lock' = Nothing

\* The loop's select: a reload, or a signal or a listener that failed.
Leave ==
  /\ daemon = "running"
  /\ \/ reload /\ daemon' = "reloading"
     \/ daemon' = "stopping"
  /\ DropHandlers
  /\ UNCHANGED <<file, loaded, roles, reload, cli, outside, edits>>

\* Connections are closed, statistics written; serve goes on after a reload.
Finish ==
  /\ \/ daemon = "reloading" /\ daemon' = "restarting"
     \/ daemon = "stopping" /\ daemon' = "stopped"
  /\ UNCHANGED <<file, loaded, roles, lock, handlers, reload, cli, outside, edits>>

Kill ==
  /\ daemon # "stopped"
  /\ daemon' = "stopped"
  /\ DropHandlers
  /\ UNCHANGED <<file, loaded, roles, reload, cli, outside, edits>>

-----------------------------------------------------------------------------
(* The control server.                                                     *)

Accept(h, request) ==
  /\ daemon = "running" /\ handlers[h] = Nothing
  /\ edits < MaxEdits /\ edits' = edits + 1
  /\ handlers' = [handlers EXCEPT ![h] =
                    [request |-> request, stage |-> "edit", order |-> file.roles]]
  /\ UNCHANGED <<file, daemon, loaded, roles, lock, reload, cli, outside>>

At(h, stage) == handlers[h] # Nothing /\ handlers[h].stage = stage
Req(h) == handlers[h].request

\* Mutant: the lock is released with the file, before the router.
EditUnlocked(h) ==
  /\ At(h, "edit") /\ lock = Nothing
  /\ Allowed(file, Req(h))
  /\ file' = Edited(file, Req(h))
  /\ handlers' = [handlers EXCEPT
                    ![h].stage = IF Req(h).kind = "connect" THEN "respond"
                                                            ELSE "publish",
                    ![h].order = Edited(file, Req(h)).roles]
  /\ UNCHANGED <<daemon, loaded, roles, lock, reload, cli, outside, edits>>

\* Under the edit lock the file is read, checked and replaced.  The lock is
\* held until the router has the roles; a connect has nothing to publish.
Edit(h) ==
  /\ At(h, "edit") /\ lock = Nothing
  /\ \/ /\ Allowed(file, Req(h))
        /\ file' = Edited(file, Req(h))
        /\ lock' = IF Req(h).kind = "connect" THEN Nothing ELSE h
        /\ handlers' = [handlers EXCEPT
                          ![h].stage = IF Req(h).kind = "connect" THEN "respond"
                                                                  ELSE "publish",
                          ![h].order = Edited(file, Req(h)).roles]
     \/ \* Refused, or the candidate cannot be written.
        /\ handlers' = [handlers EXCEPT ![h] = Nothing]
        /\ UNCHANGED <<file, lock>>
  /\ UNCHANGED <<daemon, loaded, roles, reload, cli, outside, edits>>

\* A single role is published alone, a change of one account's role as the
\* pair that was saved.
Publish(h) ==
  /\ At(h, "publish")
  /\ roles' = CASE Req(h).kind = "prefer" -> [roles EXCEPT !.preferred = Req(h).account]
                [] Req(h).kind = "preserve" -> [roles EXCEPT !.preserved = Req(h).account]
                [] OTHER -> handlers[h].order
  /\ lock' = IF lock = h THEN Nothing ELSE lock
  /\ handlers' = [handlers EXCEPT ![h].stage = "respond"]
  /\ UNCHANGED <<file, daemon, loaded, reload, cli, outside, edits>>

\* The response is sent, or its client has left; a connect asks for a reload
\* in either case, and only then.
Respond(h) ==
  /\ At(h, "respond")
  /\ reload' = (reload \/ Req(h).kind = "connect")
  /\ handlers' = [handlers EXCEPT ![h] = Nothing]
  /\ UNCHANGED <<file, daemon, loaded, roles, lock, cli, outside, edits>>

-----------------------------------------------------------------------------
(* The command line and the user, who edit the file themselves.            *)

\* account prefer and preserve, when there is no socket.
EditWithoutSocket(request) ==
  /\ daemon # "running"
  /\ request.kind \in {"prefer", "preserve"}
  /\ edits < MaxEdits /\ edits' = edits + 1
  /\ Allowed(file, request)
  /\ file' = Edited(file, request)
  /\ outside' = (outside \/ Up)
  /\ UNCHANGED <<daemon, loaded, roles, lock, handlers, reload, cli>>

\* account add or remove, init, or an editor: any valid file.
EditByHand ==
  /\ edits < MaxEdits /\ edits' = edits + 1
  /\ file' \in Files \ {file}
  /\ outside' = (outside \/ Up)
  /\ UNCHANGED <<daemon, loaded, roles, lock, handlers, reload, cli>>

\* account connect reads the file, then has the service stopped, and writes
\* what it has read.
ConnectReads(a) ==
  /\ cli = Nothing
  /\ edits < MaxEdits /\ edits' = edits + 1
  /\ Allowed(file, [kind |-> "connect", account |-> a])
  /\ cli' = Edited(file, [kind |-> "connect", account |-> a])
  /\ UNCHANGED <<file, daemon, loaded, roles, lock, handlers, reload, outside>>

ConnectWrites ==
  /\ cli # Nothing
  /\ file' = cli
  /\ cli' = Nothing
  /\ outside' = (outside \/ Up)
  /\ UNCHANGED <<daemon, loaded, roles, lock, handlers, reload, edits>>

Serve == Load \/ Bind \/ Leave \/ Finish \/ Kill
Handle(h) == Edit(h) \/ Publish(h) \/ Respond(h)

Next ==
  \/ Serve
  \/ (\E h \in Handlers : (\E r \in Requests : Accept(h, r)) \/ Handle(h))
  \/ (\E r \in Requests : EditWithoutSocket(r))
  \/ EditByHand
  \/ (\E a \in Accounts : ConnectReads(a))
  \/ ConnectWrites

Spec == Init /\ [][Next]_vars

-----------------------------------------------------------------------------
\* The account will be loaded: a reload is due, or its handler is about to ask.
Reloads(a) ==
  \/ reload
  \/ \E h \in Handlers : /\ At(h, "respond") /\ Req(h).kind = "connect"
                         /\ Req(h).account = a

(***************************************************************************)
(* However the edits of several clients interleave, and whether or not     *)
(* they wait for their answers: the roles the router uses are the saved    *)
(* ones whenever no edit is between the two, and even between them no      *)
(* account has both (what Router's selection and validation agree on); a   *)
(* connected account that is not loaded will be, by a reload that is due   *)
(* or that its handler is about to ask for; unless the file was edited     *)
(* past the daemon.                                                        *)
(***************************************************************************)
SavedIsUsed ==
  daemon = "running" /\ ~outside =>
    /\ lock = Nothing => roles = file.roles
    /\ Valid(roles)
    /\ \A a \in file.connected \ loaded.connected : Reloads(a)
=============================================================================
