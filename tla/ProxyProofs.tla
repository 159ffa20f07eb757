---------------------------- MODULE ProxyProofs ----------------------------
(***************************************************************************)
(* What holds of the installed clients' settings, the handshakes of an     *)
(* upgrade, a bridged turn, the router's selections, what an answer says   *)
(* of a quota and what a refusal says, for all sets and bounds.  The       *)
(* theorems are about all behaviours of MCProxy, where a step of the whole *)
(* is a step of one part or leaves that part's variables alone.            *)
(***************************************************************************)
EXTENDS MCProxy, Sequences, FiniteSetTheorems, TLAPS

-----------------------------------------------------------------------------
(* The clients' settings.                                                  *)

\* What the user typed over an installation is the installation.
OwnedIsInstalled ==
  record # Nothing /\ record.place \notin lost
    /\ I!IsOwned(value[record.place], record.url)
    => record.previous = mine[record.place]

\* A record or a rollback of the command's place has the user's value.
Covered(p) ==
  \/ I!Holds(record, p)
  \/ record = Nothing /\ command.before = mine[p]

(***************************************************************************)
(* What a command knows and has done.  What it keeps as the previous value *)
(* is the user's; what it has not written yet is as it found it.           *)
(***************************************************************************)
CommandKnows ==
  command # Nothing =>
    LET p == command.place
    IN  /\ record # Nothing => record.place = p
        /\ command.stage = "value" /\ client # "codex" =>
             record = [place |-> p, url |-> command.url, previous |-> command.previous]
        /\ command.stage = "rollback" => client = "codex"
        /\ command.stage \in {"restore", "remove"} =>
             record # Nothing /\ record.previous = command.previous /\ ~command.fresh
        /\ command.stage = "remove" => value[p] = command.previous
        /\ client = "codex" /\ command.stage \notin {"restore", "remove"} =>
             command.fresh <=> record = Nothing
        /\ p \notin lost => command.previous = mine[p]
        /\ p \notin lost /\ client # "codex" /\ command.stage = "record" =>
             value[p] = mine[p] \/ I!Holds(record, p)
        /\ p \notin lost /\ client = "codex"
             /\ command.stage \in {"value", "record", "rollback"} => Covered(p)
        /\ client = "codex" /\ command.stage = "value" => value[p] = command.before

InstallInv ==
  part = "installs" =>
    I!TypeOK /\ I!OriginalKept /\ OwnedIsInstalled /\ CommandKnows

\* A settings file is touched by no step of another part.
LEMMA InstallsAlone ==
  ASSUME [ProxyNext]_proxy, part' = "installs"
  PROVE  part = "installs" /\ [I!Next]_(I!vars)
BY DEF ProxyNext, proxy, installVars, I!vars

\* The user's value, the record and the command go on together.
LEMMA InstallsStart == ProxyInit => InstallInv
BY InstallsAssumption
   DEF ProxyInit, I!Init, InstallInv, I!TypeOK, I!OriginalKept, OwnedIsInstalled,
       CommandKnows, I!Values, I!InstallsAssumption

\* The parts of a command and of a record.
LEMMA InstallParts ==
  ASSUME I!TypeOK
  PROVE  /\ record # Nothing => /\ record \in I!Records
                                /\ record.place \in Places /\ record.url \in I!Ours
                                /\ record.previous \in I!Values
         /\ command # Nothing => /\ command \in I!Commands
                                 /\ command.place \in Places /\ command.url \in I!Ours
                                 /\ command.previous \in I!Values
                                 /\ command.before \in I!Values
                                 /\ command.stage \in I!Stages
                                 /\ command.fresh \in BOOLEAN
BY DEF I!TypeOK, I!Records, I!Commands

\* Nothing is neither a record nor a command.
LEMMA NothingIsNoPart == Nothing \notin I!Records /\ Nothing \notin I!Commands
BY InstallsAssumption DEF I!InstallsAssumption

\* A command begins with what it has read.
LEMMA InstallBegins ==
  ASSUME part = "installs", InstallInv, UNCHANGED part,
         \/ \E p \in Places, url \in I!Ours : I!Install(p, url)
         \/ I!Uninstall
  PROVE  InstallInv'
<1>1. I!TypeOK /\ I!OriginalKept /\ OwnedIsInstalled /\ command = Nothing
      /\ UNCHANGED <<client, value, record, mine, lost>>
  BY DEF InstallInv, I!Install, I!Uninstall
<1>2. CASE I!Uninstall
  <2> DEFINE p == record.place
  <2>1. /\ record # Nothing /\ p \in Places /\ value[p] \in I!Values
        /\ record.url \in I!Ours /\ record.previous \in I!Values
        /\ command' = [place |-> p, url |-> record.url,
                 previous |-> record.previous, before |-> value[p],
                 fresh |-> FALSE,
                 stage |-> IF value[p] = record.previous
                             THEN "remove" ELSE "restore"]
    BY <1>1, <1>2, InstallParts DEF I!Uninstall, I!TypeOK
  <2>2. command' \in I!Commands /\ command' # Nothing
    <3>1. (IF value[p] = record.previous THEN "remove" ELSE "restore") \in I!Stages
      BY DEF I!Stages
    <3>2. command' \in I!Commands
      BY <2>1, <3>1 DEF I!Commands
    <3> QED
      BY <3>2, NothingIsNoPart
  <2>3. p \notin lost => record.previous = mine[p]
    BY <1>1, <1>2, <2>1
       DEF I!Uninstall, I!MayUninstall, I!OriginalKept, OwnedIsInstalled, I!Holds
  <2>4. CommandKnows'
    BY <1>1, <1>2, <2>1, <2>2, <2>3 DEF CommandKnows, I!Uninstall
  <2>5. I!OriginalKept'
    BY <1>1, <2>2 DEF I!OriginalKept, I!Holds
  <2> QED
    BY <1>1, <2>2, <2>4, <2>5 DEF InstallInv, I!TypeOK, OwnedIsInstalled, I!IsOwned
<1>3. ASSUME NEW p \in Places, NEW url \in I!Ours, I!Install(p, url)
      PROVE  InstallInv'
  <2>1. /\ value[p] \in I!Values /\ I!Previous(p) \in I!Values
        /\ command' = [place |-> p, url |-> url, previous |-> I!Previous(p),
                 before |-> value[p], fresh |-> record = Nothing,
                 stage |-> IF client = "codex" THEN "value" ELSE "record"]
    BY <1>1, <1>3, InstallParts DEF I!Install, I!TypeOK, I!Previous
  <2>2. command' \in I!Commands /\ command' # Nothing
    <3>1. (record = Nothing) \in BOOLEAN
      OBVIOUS
    <3>2. (IF client = "codex" THEN "value" ELSE "record") \in I!Stages
      BY DEF I!Stages
    <3>3. command' \in I!Commands
      BY <2>1, <3>1, <3>2 DEF I!Commands
    <3> QED
      BY <3>3, NothingIsNoPart
  <2>3. /\ command'.place = p /\ command'.previous = I!Previous(p)
        /\ command'.before = value[p]
        /\ command'.fresh = (record = Nothing)
        /\ command'.stage = IF client = "codex" THEN "value" ELSE "record"
    BY <2>1
  <2>4. record # Nothing => I!Reinstalls(p, url) /\ record.place = p
    BY <1>3 DEF I!Install, I!Reinstalls
  <2>5. p \notin lost => /\ I!Previous(p) = mine[p]
                         /\ value[p] = mine[p] \/ I!Holds(record, p)
                         /\ record = Nothing => value[p] = mine[p]
                         /\ record # Nothing => I!Holds(record, p)
    <3>1. SUFFICES ASSUME p \notin lost PROVE
               /\ record = Nothing => value[p] = mine[p]
               /\ record # Nothing => I!Holds(record, p)
      BY DEF I!Previous, I!Holds
    <3>2. value[p] = mine[p] \/ I!Holds(record, p)
      BY <1>1, <3>1 DEF I!OriginalKept, I!Holds
    <3>3. record # Nothing => I!Holds(record, p)
      BY <1>1, <2>4, <3>1, <3>2 DEF I!Reinstalls, OwnedIsInstalled, I!Holds, I!IsOwned
    <3> QED
      BY <3>2, <3>3 DEF I!Holds
  <2>6. CommandKnows'
    BY <1>1, <2>2, <2>3, <2>4, <2>5 DEF CommandKnows, Covered, I!Holds
  <2>7. I!OriginalKept'
    BY <1>1, <2>2 DEF I!OriginalKept, I!Holds
  <2> QED
    BY <1>1, <2>2, <2>6, <2>7 DEF InstallInv, I!TypeOK, OwnedIsInstalled, I!IsOwned
<1> QED
  BY <1>2, <1>3

\* What a step of a command that runs leaves of its parts.
LEMMA NextStage ==
  ASSUME command \in I!Commands, NEW s \in I!Stages
  PROVE  LET c == [command EXCEPT !.stage = s]
         IN  /\ c \in I!Commands /\ c # Nothing
             /\ c.stage = s
             /\ c.place = command.place /\ c.url = command.url
             /\ c.previous = command.previous /\ c.before = command.before
             /\ c.fresh = command.fresh
BY InstallsAssumption DEF I!Commands, I!InstallsAssumption

\* Each write of a command keeps what is said of it.
LEMMA InstallWrites ==
  ASSUME part = "installs", InstallInv, UNCHANGED part,
         \/ I!WriteValue \/ I!WriteRecord \/ I!RecordFails \/ I!RollBack
         \/ I!Restore \/ I!Remove \/ I!Stop
  PROVE  InstallInv'
<1> DEFINE p == command.place
           On(s) == [command EXCEPT !.stage = s]
<1>1. /\ I!TypeOK /\ I!OriginalKept /\ OwnedIsInstalled /\ CommandKnows
      /\ command # Nothing /\ UNCHANGED <<client, mine>>
  BY DEF InstallInv, I!WriteValue, I!WriteRecord, I!RecordFails, I!RollBack,
         I!Restore, I!Remove, I!Stop, I!Running
<1>2. /\ p \in Places /\ command \in I!Commands
      /\ command.url \in I!Ours /\ command.url \in I!Values
      /\ command.previous \in I!Values /\ command.before \in I!Values
      /\ command.stage \in I!Stages /\ command.fresh \in BOOLEAN
  BY <1>1, InstallParts DEF I!Values
<1>3. /\ \A s \in I!Stages :
           /\ On(s) \in I!Commands /\ On(s) # Nothing
           /\ On(s).stage = s
           /\ On(s).place = p /\ On(s).url = command.url
           /\ On(s).previous = command.previous /\ On(s).before = command.before
           /\ On(s).fresh = command.fresh
      /\ {"record", "value", "rollback", "restore", "remove"} = I!Stages
  BY <1>2, NextStage DEF I!Stages
<1> HIDE DEF On
<1>4. \A q \in Places \ lost :
        q # p => value[q] = mine[q] \/ I!Holds(record, q)
  BY <1>1 DEF I!OriginalKept, I!Holds
<1>5. CASE I!WriteValue
  <2>1. /\ value' = [value EXCEPT ![p] = command.url]
        /\ command.stage = "value"
        /\ UNCHANGED <<record, lost>>
        /\ command' = IF client = "codex" THEN On("record") ELSE Nothing
    BY <1>5 DEF I!WriteValue, I!Running, On
  <2>2. /\ value' \in [Places -> I!Values]
        /\ value'[p] = command.url
        /\ \A q \in Places \ {p} : value'[q] = value[q]
    BY <1>1, <1>2, <2>1 DEF I!TypeOK
  <2>3. command' \in I!Commands \cup {Nothing}
    BY <1>3, <2>1
  <2>4. p \notin lost => command.previous = mine[p]
    BY <1>1 DEF CommandKnows
  <2>5. CASE client = "codex"
    <3>1. /\ command' # Nothing /\ command'.stage = "record"
          /\ command'.place = p /\ command'.previous = command.previous
          /\ command'.before = command.before /\ command'.fresh = command.fresh
      BY <1>3, <2>1, <2>5
    <3>2. /\ command.fresh <=> record = Nothing
          /\ p \notin lost => Covered(p)
      BY <1>1, <2>1, <2>5 DEF CommandKnows
    <3>3. CommandKnows'
      BY <1>1, <2>1, <2>4, <2>5, <3>1, <3>2 DEF CommandKnows, Covered, I!Holds
    <3>4. I!OriginalKept'
      BY <1>1, <1>4, <2>1, <2>2, <2>4, <3>1 DEF I!OriginalKept, I!Holds
    <3>5. OwnedIsInstalled'
      <4>1. SUFFICES ASSUME record # Nothing, record.place \notin lost,
                            I!IsOwned(value'[record.place], record.url)
                     PROVE  record.previous = mine[record.place]
        BY <1>1, <2>1 DEF OwnedIsInstalled, I!IsOwned
      <4>2. CASE record.place = p
        BY <3>2, <4>1, <4>2 DEF Covered, I!Holds
      <4>3. CASE record.place # p
        BY <1>1, <2>2, <4>1, <4>3, InstallParts DEF OwnedIsInstalled
      <4> QED
        BY <4>2, <4>3
    <3> QED
      BY <1>1, <2>1, <2>2, <2>3, <3>3, <3>4, <3>5 DEF InstallInv, I!TypeOK
  <2>6. CASE client # "codex"
    <3>1. /\ command' = Nothing
          /\ record = [place |-> p, url |-> command.url,
                       previous |-> command.previous]
      BY <1>1, <2>1, <2>6 DEF CommandKnows
    <3>2. record.place = p /\ record.previous = command.previous
      BY <3>1
    <3>3. record # Nothing
      BY <1>2, <3>1, InstallsAssumption DEF I!InstallsAssumption, I!Records
    <3>4. I!OriginalKept' /\ OwnedIsInstalled'
      BY <1>1, <1>4, <2>1, <2>2, <2>4, <3>2, <3>3
         DEF I!OriginalKept, OwnedIsInstalled, I!Holds
    <3> QED
      BY <1>1, <2>1, <2>2, <2>3, <3>1, <3>4 DEF InstallInv, I!TypeOK, CommandKnows
  <2> QED
    BY <2>5, <2>6
<1>6. CASE I!WriteRecord
  <2>1. /\ record' = [place |-> p, url |-> command.url,
                      previous |-> command.previous]
        /\ command.stage = "record"
        /\ UNCHANGED <<value, lost>>
        /\ command' = IF client = "codex" THEN Nothing ELSE On("value")
    BY <1>6 DEF I!WriteRecord, I!Running, On
  <2>2. /\ record' \in I!Records /\ record' # Nothing
        /\ record'.place = p /\ record'.previous = command.previous
    BY <1>2, <2>1, InstallsAssumption DEF I!Records, I!InstallsAssumption
  <2>3. p \notin lost => command.previous = mine[p]
    BY <1>1 DEF CommandKnows
  <2>4. I!TypeOK'
    BY <1>1, <1>3, <2>1, <2>2 DEF I!TypeOK
  <2>5. \A q \in Places \ lost : q # p => value[q] = mine[q]
    BY <1>1, <1>4 DEF CommandKnows, I!Holds
  <2>6. I!OriginalKept' /\ OwnedIsInstalled'
    BY <1>1, <2>1, <2>2, <2>3, <2>5 DEF I!OriginalKept, OwnedIsInstalled, I!Holds
  <2>7. CommandKnows'
    BY <1>1, <1>3, <2>1, <2>2, <2>3 DEF CommandKnows
  <2> QED
    BY <1>1, <2>4, <2>6, <2>7 DEF InstallInv
<1>7. CASE I!RecordFails
  <2>1. /\ UNCHANGED <<value, record, lost>> /\ client = "codex"
        /\ command' = On("rollback") /\ command.stage = "record"
    BY <1>7 DEF I!RecordFails, I!Running, On
  <2>2. I!TypeOK'
    BY <1>1, <1>3, <2>1 DEF I!TypeOK
  <2>3. I!OriginalKept'
    BY <1>1, <1>3, <2>1 DEF I!OriginalKept, I!Holds
  <2>4. OwnedIsInstalled'
    BY <1>1, <2>1 DEF OwnedIsInstalled, I!IsOwned
  <2>5. CommandKnows'
    BY <1>1, <1>3, <2>1 DEF CommandKnows, Covered, I!Holds
  <2> QED
    BY <1>1, <2>2, <2>3, <2>4, <2>5 DEF InstallInv
<1>8. CASE I!RollBack
  <2>1. /\ value' = [value EXCEPT ![p] = command.before]
        /\ UNCHANGED <<record, lost>>
        /\ command' = Nothing /\ command.stage = "rollback"
    BY <1>8 DEF I!RollBack, I!Running
  <2>2. /\ value' \in [Places -> I!Values]
        /\ value'[p] = command.before
        /\ \A q \in Places \ {p} : value'[q] = value[q]
    BY <1>1, <1>2, <2>1 DEF I!TypeOK
  <2>3. p \notin lost => Covered(p)
    BY <1>1, <2>1 DEF CommandKnows
  <2>4. I!OriginalKept' /\ OwnedIsInstalled'
    BY <1>1, <1>4, <2>1, <2>2, <2>3
       DEF I!OriginalKept, OwnedIsInstalled, Covered, I!Holds, CommandKnows
  <2> QED
    BY <1>1, <2>1, <2>2, <2>4 DEF InstallInv, I!TypeOK, CommandKnows
<1>9. CASE I!Restore
  <2>1. /\ value' = [value EXCEPT ![p] = command.previous]
        /\ UNCHANGED <<record, lost>>
        /\ command' = On("remove") /\ command.stage = "restore"
    BY <1>9 DEF I!Restore, I!Running, On
  <2>2. /\ value' \in [Places -> I!Values]
        /\ value'[p] = command.previous
        /\ \A q \in Places \ {p} : value'[q] = value[q]
    BY <1>1, <1>2, <2>1 DEF I!TypeOK
  <2>3. /\ record # Nothing /\ record.place = p
        /\ record.previous = command.previous /\ ~command.fresh
        /\ p \notin lost => command.previous = mine[p]
    BY <1>1, <2>1 DEF CommandKnows
  <2>4. I!TypeOK'
    BY <1>1, <1>3, <2>1, <2>2 DEF I!TypeOK
  <2>5. I!OriginalKept' /\ OwnedIsInstalled'
    BY <1>1, <1>4, <2>1, <2>2, <2>3 DEF I!OriginalKept, OwnedIsInstalled, I!Holds
  <2>6. CommandKnows'
    BY <1>1, <1>3, <2>1, <2>2, <2>3 DEF CommandKnows
  <2> QED
    BY <1>1, <2>4, <2>5, <2>6 DEF InstallInv
<1>10. CASE I!Remove
  <2>1. /\ UNCHANGED <<value, lost>> /\ record' = Nothing /\ command' = Nothing
        /\ command.stage = "remove"
    BY <1>10 DEF I!Remove, I!Running
  <2>2. /\ record # Nothing /\ record.place = p /\ value[p] = command.previous
        /\ p \notin lost => command.previous = mine[p]
    BY <1>1, <2>1 DEF CommandKnows
  <2>3. I!OriginalKept'
    BY <1>1, <1>4, <2>1, <2>2 DEF I!OriginalKept, I!Holds
  <2> QED
    BY <1>1, <2>1, <2>3 DEF InstallInv, I!TypeOK, OwnedIsInstalled, CommandKnows
<1>11. CASE I!Stop
  <2>1. /\ UNCHANGED <<value, record>> /\ command' = Nothing
        /\ lost \subseteq lost' /\ lost' \subseteq lost \cup {p}
        /\ command.fresh /\ client = "codex"
             /\ command.stage \in {"record", "rollback"} => p \in lost'
    BY <1>11 DEF I!Stop
  <2>2. p \notin lost' => value[p] = mine[p] \/ I!Holds(record, p)
    <3> SUFFICES ASSUME p \notin lost' PROVE value[p] = mine[p] \/ I!Holds(record, p)
      OBVIOUS
    <3>1. CASE command.stage \in {"restore", "remove"}
      BY <1>1, <2>1, <3>1 DEF CommandKnows, I!Holds
    <3>2. CASE client = "codex" /\ command.stage \in {"value", "record", "rollback"}
      BY <1>1, <2>1, <3>2 DEF CommandKnows, Covered, I!Holds
    <3>3. CASE client # "codex" /\ command.stage = "record"
      BY <1>1, <2>1, <3>3 DEF CommandKnows
    <3>4. CASE client # "codex" /\ command.stage = "value"
      <4>1. record = [place |-> p, url |-> command.url, previous |-> command.previous]
        BY <1>1, <3>4 DEF CommandKnows
      <4>2. record # Nothing
        BY <1>2, <4>1, NothingIsNoPart DEF I!Records
      <4>3. record.place = p /\ record.previous = command.previous
        BY <4>1
      <4> QED
        BY <1>1, <2>1, <4>2, <4>3 DEF CommandKnows, I!Holds
    <3> QED
      BY <1>1, <1>2, <1>3, <3>1, <3>2, <3>3, <3>4 DEF CommandKnows
  <2>3. I!OriginalKept'
    BY <1>1, <1>4, <2>1, <2>2 DEF I!OriginalKept, I!Holds
  <2>4. OwnedIsInstalled'
    BY <1>1, <2>1 DEF OwnedIsInstalled, I!IsOwned
  <2> QED
    BY <1>1, <1>2, <2>1, <2>3, <2>4 DEF InstallInv, I!TypeOK, CommandKnows
<1> QED
  BY <1>5, <1>6, <1>7, <1>8, <1>9, <1>10, <1>11

\* An edit by hand, also to our URL, keeps what is said of every place.
LEMMA InstallEdits ==
  ASSUME part = "installs", InstallInv, UNCHANGED part,
         NEW p \in Places, NEW x \in I!Values, I!Edit(p, x)
  PROVE  InstallInv'
<1>1. /\ I!TypeOK /\ I!OriginalKept /\ OwnedIsInstalled
      /\ command = Nothing /\ command' = Nothing
      /\ UNCHANGED <<client, record>>
      /\ value' = [value EXCEPT ![p] = x]
  BY DEF InstallInv, I!Edit
<1>2. /\ value' \in [Places -> I!Values]
      /\ value'[p] = x /\ \A q \in Places \ {p} : value'[q] = value[q]
  BY <1>1 DEF I!TypeOK
<1>3. CASE record # Nothing /\ record.place = p /\ I!IsOwned(x, record.url)
  <2>1. /\ mine' = [mine EXCEPT ![p] = record.previous] /\ UNCHANGED lost
        /\ record.previous \in I!Values
    BY <1>1, <1>3, InstallParts DEF I!Edit
  <2>2. /\ mine' \in [Places -> I!Values]
        /\ mine'[p] = record.previous
        /\ \A q \in Places \ {p} : mine'[q] = mine[q]
    BY <1>1, <2>1 DEF I!TypeOK
  <2>3. I!OriginalKept' /\ OwnedIsInstalled'
    BY <1>1, <1>2, <1>3, <2>1, <2>2 DEF I!OriginalKept, OwnedIsInstalled, I!Holds
  <2> QED
    BY <1>1, <1>2, <2>1, <2>2, <2>3 DEF InstallInv, I!TypeOK, CommandKnows
<1>4. CASE ~(record # Nothing /\ record.place = p /\ I!IsOwned(x, record.url))
  <2>1. mine' = [mine EXCEPT ![p] = x] /\ lost' = lost \ {p}
    BY <1>4 DEF I!Edit
  <2>2. /\ mine' \in [Places -> I!Values]
        /\ mine'[p] = x /\ \A q \in Places \ {p} : mine'[q] = mine[q]
    BY <1>1, <2>1 DEF I!TypeOK
  <2>3. I!OriginalKept'
    BY <1>1, <1>2, <2>1, <2>2 DEF I!OriginalKept, I!Holds
  <2>4. OwnedIsInstalled'
    <3>1. SUFFICES ASSUME record # Nothing, record.place \notin lost',
                          I!IsOwned(value'[record.place], record.url)
                   PROVE  record.previous = mine'[record.place]
      BY <1>1 DEF OwnedIsInstalled, I!IsOwned
    <3>2. record.place \in Places \ {p}
      BY <1>1, <1>2, <1>4, <3>1, InstallParts DEF I!IsOwned
    <3> QED
      BY <1>1, <1>2, <2>1, <2>2, <3>1, <3>2 DEF OwnedIsInstalled
  <2> QED
    BY <1>1, <1>2, <2>1, <2>2, <2>3, <2>4 DEF InstallInv, I!TypeOK, CommandKnows
<1> QED
  BY <1>3, <1>4

\* Every step keeps the invariant.
LEMMA InstallsStay == InstallInv /\ [ProxyNext]_proxy => InstallInv'
<1> SUFFICES ASSUME InstallInv, [ProxyNext]_proxy, part' = "installs"
             PROVE  InstallInv'
  BY DEF InstallInv
<1>1. part = "installs" /\ [I!Next]_(I!vars)
  BY InstallsAlone
<1>2. CASE UNCHANGED I!vars
  BY <1>1, <1>2
     DEF InstallInv, I!vars, I!TypeOK, I!OriginalKept, OwnedIsInstalled,
         CommandKnows, Covered, I!Holds, I!IsOwned
<1> QED
  BY <1>1, <1>2, InstallBegins, InstallWrites, InstallEdits DEF I!Next

\* Whatever is installed, switched by hand, uninstalled and killed in between,
\* the user's own value is in the configuration or can be restored, unless a
\* first installation for Codex was killed between its two writes.
THEOREM OriginalKeptAlways == ProxySpec => []OriginalKept
<1>1. InstallInv => OriginalKept
  BY DEF InstallInv, OriginalKept
<1> QED
  BY <1>1, InstallsStart, InstallsStay, PTL DEF ProxySpec
-----------------------------------------------------------------------------
(* The handshakes.                                                         *)

\* What a connection counts for.
BegunAs(r, a) == IF r # Nothing /\ r.stage = "begun" /\ r.account = a THEN 1 ELSE 0
OpenAs(r, a) == IF r # Nothing /\ r.open = a THEN 1 ELSE 0
SlotAs(r) == IF r # Nothing /\ r.stage # "slot" THEN 1 ELSE 0

\* A handshake has the account its owner wants, and a session its socket.
Known(r) ==
  r # Nothing =>
    /\ r.stage \in {"resolve", "validate", "begun", "refresh"} =>
         r.owner \in {NoAccount, r.account}
    /\ r.stage \in {"resolve", "validate", "begun", "refresh", "rejected"} =>
         r.account \in Pool
    /\ r.stage \in {"open", "evicted"} => r.open \in Pool
    /\ r.stage = "slot" => r.open = NoAccount

UpgradeInv ==
  part = "upgrade" =>
    /\ U!TypeOK /\ U!CountsHaveOwners /\ U!SlotsHaveOwners
    /\ \A c \in Places : Known(up[c])

\* What every step of the connection c does to the counts.
Balanced(c) ==
  /\ up' \in [Places -> U!Handshakes \cup {Nothing}]
  /\ \A d \in Places \ {c} :
       \/ up'[d] = up[d]
       \/ up[d] # Nothing /\ up[d].stage = "open" /\ up'[d] = [up[d] EXCEPT !.stage = "evicted"]
  /\ Known(up'[c])
  /\ inflight' \in [Pool -> Int] /\ leaked' \in [Pool -> Nat] /\ permits' \in Nat
  /\ thread' \in U!MaybeAccount /\ blocked' \subseteq Pool /\ epoch' \in [Pool -> Nat]
  /\ trouble' \in Nat
  /\ \A a \in Pool :
       inflight'[a] - leaked'[a] - BegunAs(up'[c], a) - OpenAs(up'[c], a)
         = inflight[a] - leaked[a] - BegunAs(up[c], a) - OpenAs(up[c], a)
  /\ permits' + SlotAs(up'[c]) = permits + SlotAs(up[c])

LEMMA SameCardinality == \A X : U!Cardinality(X) = Cardinality(X)
BY DEF U!Cardinality, Cardinality

LEMMA SameFinite == \A X : U!IsFiniteSet(X) = IsFiniteSet(X)
BY DEF U!IsFiniteSet, IsFiniteSet

\* Two sets that differ in one element at most.
LEMMA OneElement ==
  ASSUME NEW X, NEW Y, NEW x, IsFiniteSet(X), IsFiniteSet(Y), X \ {x} = Y \ {x}
  PROVE  /\ Cardinality(X) \in Nat /\ Cardinality(Y) \in Nat
         /\ Cardinality(Y) - (IF x \in Y THEN 1 ELSE 0)
              = Cardinality(X) - (IF x \in X THEN 1 ELSE 0)
<1>1. Cardinality(X) \in Nat /\ Cardinality(Y) \in Nat
  BY FS_CardinalityType
<1>2. /\ Cardinality(X \ {x}) = IF x \in X THEN Cardinality(X) - 1 ELSE Cardinality(X)
      /\ Cardinality(Y \ {x}) = IF x \in Y THEN Cardinality(Y) - 1 ELSE Cardinality(Y)
  BY FS_RemoveElement
<1> QED
  BY <1>1, <1>2

\* The connections that hold counts and slots.
Begun(a) == {c \in Places : U!At(c, "begun") /\ (U!At(c, "begun") => up[c].account = a)}
Opens(a) == {c \in Places : U!Active(c) /\ (U!Active(c) => up[c].open = a)}
Held == {c \in Places : U!Active(c) /\ ~U!At(c, "slot")}

\* A connection of another stage, with the same account and socket.
LEMMA StageSet ==
  ASSUME NEW r \in U!Handshakes, NEW s \in U!Stages
  PROVE  LET q == [r EXCEPT !.stage = s]
         IN  /\ q \in U!Handshakes /\ q # Nothing /\ q.stage = s
             /\ q.account = r.account /\ q.open = r.open /\ q.owner = r.owner
             /\ q.mode = r.mode /\ q.attempt = r.attempt
BY UpgradeAssumption DEF U!Handshakes, U!UpgradeAssumption

\* Balanced steps keep the invariant.
LEMMA BalancedStays ==
  ASSUME part = "upgrade", UpgradeInv, NEW c \in Places, Balanced(c)
  PROVE  UpgradeInv'
<1>1. /\ U!TypeOK /\ U!CountsHaveOwners /\ U!SlotsHaveOwners
      /\ \A d \in Places : Known(up[d])
  BY DEF UpgradeInv
<1>2. U!TypeOK'
  BY DEF Balanced, U!TypeOK
<1>3. ASSUME NEW d \in Places \ {c}, up'[d] # up[d]
      PROVE  /\ up[d] # Nothing /\ up'[d] # Nothing
             /\ up[d].stage = "open" /\ up'[d].stage = "evicted"
             /\ up'[d].open = up[d].open
  <2>1. up[d] \in U!Handshakes /\ up'[d] = [up[d] EXCEPT !.stage = "evicted"]
    BY <1>1, <1>3 DEF Balanced, U!TypeOK
  <2>2. up[d] # Nothing /\ up[d].stage = "open"
    BY <1>3 DEF Balanced
  <2>3. LET q == [up[d] EXCEPT !.stage = "evicted"]
        IN  q # Nothing /\ q.stage = "evicted" /\ q.open = up[d].open
    BY <2>1, StageSet DEF U!Stages
  <2> QED
    BY <2>1, <2>2, <2>3
<1>4. \A d \in Places : Known(up'[d])
  <2> SUFFICES ASSUME NEW d \in Places \ {c} PROVE Known(up'[d])
    BY DEF Balanced
  <2>1. CASE up'[d] = up[d]
    BY <1>1, <2>1
  <2>2. CASE up'[d] # up[d]
    BY <1>1, <1>3, <2>2 DEF Known
  <2> QED
    BY <2>1, <2>2
<1>5. IsFiniteSet(Places)
  BY UpgradeAssumption, SameFinite DEF U!UpgradeAssumption
<1>6. U!CountsHaveOwners'
  <2> SUFFICES ASSUME NEW a \in Pool
               PROVE  inflight'[a] = leaked'[a] + Cardinality(Begun(a)') + Cardinality(Opens(a)')
    BY SameCardinality DEF U!CountsHaveOwners, Begun, Opens, U!At, U!Active
  <2> DEFINE i == inflight[a]  l == leaked[a]
             x == Cardinality(Begun(a))   z == Cardinality(Opens(a))
             x1 == Cardinality(Begun(a)')  z1 == Cardinality(Opens(a)')
             b == BegunAs(up[c], a)  o == OpenAs(up[c], a)
             b1 == BegunAs(up'[c], a)  o1 == OpenAs(up'[c], a)
             i1 == inflight'[a]  l1 == leaked'[a]
  <2>1. i = l + x + z
    BY <1>1, SameCardinality DEF U!CountsHaveOwners, Begun, Opens, U!At, U!Active
  <2>2. /\ IsFiniteSet(Begun(a)) /\ IsFiniteSet(Begun(a)')
        /\ IsFiniteSet(Opens(a)) /\ IsFiniteSet(Opens(a)')
    BY <1>5, FS_Subset DEF Begun, Opens
  <2>3. /\ Begun(a) \ {c} = Begun(a)' \ {c}
        /\ Opens(a) \ {c} = Opens(a)' \ {c}
    BY <1>3 DEF Begun, Opens, U!At, U!Active
  <2>4. /\ b = IF c \in Begun(a) THEN 1 ELSE 0
        /\ b1 = IF c \in Begun(a)' THEN 1 ELSE 0
        /\ o = IF c \in Opens(a) THEN 1 ELSE 0
        /\ o1 = IF c \in Opens(a)' THEN 1 ELSE 0
    BY DEF Begun, Opens, BegunAs, OpenAs, U!At, U!Active
  <2>5. x \in Nat /\ x1 \in Nat /\ x1 - b1 = x - b
    BY <2>2, <2>3, <2>4, OneElement
  <2>6. z \in Nat /\ z1 \in Nat /\ z1 - o1 = z - o
    BY <2>2, <2>3, <2>4, OneElement
  <2>7. /\ i \in Int /\ i1 \in Int /\ l \in Int /\ l1 \in Int
        /\ b \in Int /\ b1 \in Int /\ o \in Int /\ o1 \in Int
    BY <1>1, <1>2 DEF U!TypeOK, BegunAs, OpenAs
  <2>8. i1 - l1 - b1 - o1 = i - l - b - o
    BY DEF Balanced
  <2> HIDE DEF i, l, x, z, x1, z1, b, o, b1, o1, i1, l1
  <2>9. i1 = l1 + x1 + z1
    BY <2>1, <2>5, <2>6, <2>7, <2>8
  <2> QED
    BY <2>9 DEF i1, l1, x1, z1
<1>7. U!SlotsHaveOwners'
  <2> SUFFICES permits' + Cardinality(Held') = Slots
    BY SameCardinality DEF U!SlotsHaveOwners, Held, U!At, U!Active
  <2>1. permits + Cardinality(Held) = Slots
    BY <1>1, SameCardinality DEF U!SlotsHaveOwners, Held, U!At, U!Active
  <2>2. IsFiniteSet(Held) /\ IsFiniteSet(Held')
    BY <1>5, FS_Subset DEF Held
  <2>3. Held \ {c} = Held' \ {c}
    BY <1>3 DEF Held, U!At, U!Active
  <2>4. /\ (IF c \in Held THEN 1 ELSE 0) = SlotAs(up[c])
        /\ (IF c \in Held' THEN 1 ELSE 0) = SlotAs(up'[c])
    BY DEF Held, SlotAs, U!At, U!Active
  <2>5. /\ Cardinality(Held) \in Nat /\ Cardinality(Held') \in Nat
        /\ Cardinality(Held') - SlotAs(up'[c]) = Cardinality(Held) - SlotAs(up[c])
    BY <2>2, <2>3, <2>4, OneElement
  <2>6. /\ permits \in Nat /\ permits' \in Nat
        /\ permits' + SlotAs(up'[c]) = permits + SlotAs(up[c])
        /\ SlotAs(up[c]) \in 0..1 /\ SlotAs(up'[c]) \in 0..1
    BY <1>1, <1>2 DEF U!TypeOK, SlotAs, Balanced
  <2> QED
    BY <2>1, <2>5, <2>6
<1> QED
  BY <1>2, <1>4, <1>6, <1>7 DEF UpgradeInv
-----------------------------------------------------------------------------
(* The steps of a handshake.                                               *)

\* The connection c has r now, and the others what they had.
LEMMA Replaced ==
  ASSUME U!TypeOK, NEW c \in Places, NEW r \in U!Handshakes \cup {Nothing},
         up' = [up EXCEPT ![c] = r]
  PROVE  /\ up' \in [Places -> U!Handshakes \cup {Nothing}]
         /\ up'[c] = r
         /\ \A d \in Places \ {c} : up'[d] = up[d]
BY DEF U!TypeOK

\* A handshake that goes on, with the slot it has.
GoesOn(c) ==
  /\ up' \in [Places -> U!Handshakes \cup {Nothing}]
  /\ \A d \in Places \ {c} : up'[d] = up[d]
  /\ Known(up'[c])
  /\ permits' \in Nat /\ permits' + SlotAs(up'[c]) = permits + SlotAs(up[c])
  /\ thread' \in U!MaybeAccount
  /\ \A a \in Pool : BegunAs(up'[c], a) = 0 /\ OpenAs(up'[c], a) = OpenAs(up[c], a)

\* A connection has a handshake with its slot.
LEMMA HandshakeOf ==
  ASSUME U!TypeOK, NEW c \in Places, up[c] # Nothing
  PROVE  /\ up[c] \in U!Handshakes /\ up[c].stage \in U!Stages
         /\ up[c].account \in U!MaybeAccount /\ up[c].owner \in U!MaybeAccount
         /\ up[c].open \in U!MaybeAccount
         /\ permits \in Nat /\ thread \in U!MaybeAccount
         /\ up[c].stage # "slot" => SlotAs(up[c]) = 1
         /\ \A a \in Pool : up[c].stage # "begun" => BegunAs(up[c], a) = 0
BY DEF U!TypeOK, U!Handshakes, SlotAs, BegunAs

\* A handshake that ends gives its slot back, or has its socket.
LEMMA EndsRight ==
  ASSUME U!TypeOK, NEW c \in Places, up[c] # Nothing, up[c].stage # "slot",
         U!Ended(c), UNCHANGED thread
  PROVE  GoesOn(c)
<1>1. up[c] \in U!Handshakes /\ SlotAs(up[c]) = 1 /\ up[c].open \in U!MaybeAccount
      /\ permits \in Nat /\ thread \in U!MaybeAccount
  BY HandshakeOf
<1>2. CASE up[c].open # NoAccount
  <2> DEFINE r == [up[c] EXCEPT !.stage = "open"]
  <2>1. r \in U!Handshakes /\ r # Nothing /\ r.stage = "open" /\ r.open = up[c].open
    BY <1>1, StageSet DEF U!Stages
  <2>2. up' = [up EXCEPT ![c] = r] /\ UNCHANGED permits
    BY <1>2 DEF U!Ended, U!Kept
  <2> HIDE DEF r
  <2>3. /\ up' \in [Places -> U!Handshakes \cup {Nothing}] /\ up'[c] = r
        /\ \A d \in Places \ {c} : up'[d] = up[d]
    BY <2>1, <2>2, Replaced
  <2>4. SlotAs(r) = 1 /\ Known(r)
    BY <1>1, <1>2, <2>1 DEF SlotAs, Known, U!MaybeAccount
  <2>5. \A a \in Pool : BegunAs(r, a) = 0 /\ OpenAs(r, a) = OpenAs(up[c], a)
    BY <2>1 DEF BegunAs, OpenAs
  <2> QED
    BY <1>1, <2>2, <2>3, <2>4, <2>5 DEF GoesOn
<1>3. CASE up[c].open = NoAccount
  <2>1. up' = [up EXCEPT ![c] = Nothing] /\ permits' = permits + 1
    BY <1>3 DEF U!Ended, U!Kept
  <2>2. /\ up' \in [Places -> U!Handshakes \cup {Nothing}] /\ up'[c] = Nothing
        /\ \A d \in Places \ {c} : up'[d] = up[d]
    BY <2>1, Replaced
  <2>3. \A a \in Pool : BegunAs(Nothing, a) = 0 /\ OpenAs(Nothing, a) = OpenAs(up[c], a)
    BY <1>3, UpgradeAssumption DEF BegunAs, OpenAs, U!UpgradeAssumption
  <2> QED
    BY <1>1, <2>1, <2>2, <2>3 DEF GoesOn, SlotAs, Known
<1> QED
  BY <1>2, <1>3

\* What is selected is a handshake of the account.
LEMMA SelectionIs ==
  ASSUME U!TypeOK, NEW c \in Places, up[c] # Nothing, NEW a \in Pool,
         NEW o \in U!MaybeAccount, NEW n \in 0..1, NEW K
  PROVE  LET r == U!Selection(c, a, o, n, K)
         IN  /\ r \in U!Handshakes /\ r.stage = "resolve"
             /\ r.account = a /\ r.owner = o /\ r.open = up[c].open
<1>1. up[c] \in U!Handshakes
  BY HandshakeOf
<1>2. epoch[a] \in Nat /\ a \in U!MaybeAccount /\ "resolve" \in U!Stages
  BY DEF U!TypeOK, U!MaybeAccount, U!Stages
<1>3. PICK b \in BOOLEAN : b <=> a \in K
  OBVIOUS
<1>4. U!Selection(c, a, o, n, K) =
        [up[c] EXCEPT !.stage = "resolve", !.account = a, !.seen = epoch[a],
                      !.attempt = n, !.owner = o, !.bound = b]
  BY <1>3, Zenon DEF U!Selection
<1> QED
  BY <1>1, <1>2, <1>4 DEF U!Handshakes

\* One that has got an account goes on with it.
LEMMA SelectsRight ==
  ASSUME U!TypeOK, NEW c \in Places, up[c] # Nothing, up[c].stage # "slot",
         NEW r \in U!Handshakes, r.stage = "resolve", r.account \in Pool,
         r.owner \in {NoAccount, r.account}, r.open = up[c].open,
         up' = [up EXCEPT ![c] = r],
         UNCHANGED permits, thread' \in U!MaybeAccount
  PROVE  GoesOn(c)
<1>1. up[c] \in U!Handshakes /\ SlotAs(up[c]) = 1 /\ permits \in Nat
  BY HandshakeOf
<1>2. r # Nothing
  BY UpgradeAssumption DEF U!UpgradeAssumption
<1>3. /\ up' \in [Places -> U!Handshakes \cup {Nothing}] /\ up'[c] = r
      /\ \A d \in Places \ {c} : up'[d] = up[d]
  BY Replaced
<1>4. SlotAs(r) = 1 /\ Known(r)
  BY <1>2 DEF SlotAs, Known
<1>5. \A x \in Pool : BegunAs(r, x) = 0 /\ OpenAs(r, x) = OpenAs(up[c], x)
  BY <1>2 DEF BegunAs, OpenAs
<1> QED
  BY <1>1, <1>3, <1>4, <1>5 DEF GoesOn

\* A handshake that goes on leaves the counts as they are.
LEMMA CountsStay ==
  ASSUME U!TypeOK, NEW c \in Places, up[c] # Nothing,
         up[c].stage \notin {"slot", "begun"}, GoesOn(c),
         UNCHANGED <<epoch, blocked, inflight, leaked, trouble>>
  PROVE  Balanced(c)
<1>1. \A a \in Pool : /\ BegunAs(up[c], a) = 0
                      /\ BegunAs(up'[c], a) = 0 /\ OpenAs(up'[c], a) = OpenAs(up[c], a)
  BY HandshakeOf DEF GoesOn
<1>2. /\ inflight \in [Pool -> Int] /\ leaked \in [Pool -> Nat]
      /\ blocked \subseteq Pool /\ epoch \in [Pool -> Nat] /\ trouble \in Nat
  BY DEF U!TypeOK
<1>3. \A a \in Pool :
        inflight'[a] - leaked'[a] - BegunAs(up'[c], a) - OpenAs(up'[c], a)
          = inflight[a] - leaked[a] - BegunAs(up[c], a) - OpenAs(up[c], a)
  BY <1>1
<1> QED
  BY <1>2, <1>3 DEF GoesOn, Balanced

\* A first selection, or another one.
LEMMA Selecting ==
  ASSUME U!TypeOK, NEW c \in Places, up[c] # Nothing, up[c].stage # "slot",
         NEW X, NEW n \in 0..1,
         \/ U!Selected(c, X, n) /\ UNCHANGED permits
         \/ U!NoneEligible(c, X)
  PROVE  GoesOn(c)
<1>1. CASE U!Selected(c, X, n) /\ UNCHANGED permits
  <2>1. PICK a \in U!Eligible \ X :
          /\ up[c].owner \in {NoAccount, a}
          /\ up' = [up EXCEPT ![c] =
                       U!Selection(c, a, up[c].owner, n, {up[c].owner, thread})]
          /\ thread' = IF up[c].owner = NoAccount THEN a ELSE thread
    BY <1>1 DEF U!Selected
  <2>2. /\ a \in Pool /\ up[c].owner \in U!MaybeAccount
        /\ thread' \in U!MaybeAccount
    BY <2>1, HandshakeOf DEF U!Eligible, U!MaybeAccount
  <2> DEFINE r == U!Selection(c, a, up[c].owner, n, {up[c].owner, thread})
  <2>3. /\ r \in U!Handshakes /\ r.stage = "resolve"
        /\ r.account = a /\ r.owner = up[c].owner /\ r.open = up[c].open
    BY <2>2, SelectionIs
  <2>4. up' = [up EXCEPT ![c] = r]
    BY <2>1
  <2> HIDE DEF r
  <2> QED
    BY <1>1, <2>1, <2>2, <2>3, <2>4, SelectsRight
<1>2. CASE U!NoneEligible(c, X)
  BY <1>2, EndsRight DEF U!NoneEligible
<1> QED
  BY <1>1, <1>2

\* The next stage of a handshake that neither begins nor ends a request.
LEMMA GoesToStage ==
  ASSUME U!TypeOK, NEW c \in Places, up[c] # Nothing, up[c].stage # "slot",
         NEW s \in U!Stages, s \notin {"slot", "begun"},
         up' = [up EXCEPT ![c].stage = s], UNCHANGED <<permits, thread>>,
         Known([up[c] EXCEPT !.stage = s])
  PROVE  GoesOn(c)
<1> DEFINE r == [up[c] EXCEPT !.stage = s]
<1>1. up[c] \in U!Handshakes /\ SlotAs(up[c]) = 1 /\ permits \in Nat
      /\ thread \in U!MaybeAccount
  BY HandshakeOf
<1>2. r \in U!Handshakes /\ r # Nothing /\ r.stage = s /\ r.open = up[c].open
  BY <1>1, StageSet
<1>3. up' = [up EXCEPT ![c] = r] /\ Known(r)
  OBVIOUS
<1> HIDE DEF r
<1>4. /\ up' \in [Places -> U!Handshakes \cup {Nothing}] /\ up'[c] = r
      /\ \A d \in Places \ {c} : up'[d] = up[d]
  BY <1>2, <1>3, Replaced
<1>5. SlotAs(r) = 1
  BY <1>2 DEF SlotAs
<1>6. \A a \in Pool : BegunAs(r, a) = 0 /\ OpenAs(r, a) = OpenAs(up[c], a)
  BY <1>2 DEF BegunAs, OpenAs
<1> QED
  BY <1>1, <1>3, <1>4, <1>5, <1>6 DEF GoesOn

\* Up to the send, between two attempts and again on an open socket.
LEMMA HandshakeGoesOn ==
  ASSUME part = "upgrade", UpgradeInv, NEW c \in Places,
         \/ U!Select(c) \/ U!Resolve(c) \/ U!Stale(c) \/ U!Refreshed(c)
         \/ U!TryAlternate(c) \/ U!Reconnect(c)
  PROVE  Balanced(c)
<1>1. /\ U!TypeOK /\ Known(up[c]) /\ up[c] # Nothing
      /\ up[c].stage \in {"select", "resolve", "validate", "refresh", "rejected", "open", "evicted"}
      /\ UNCHANGED <<epoch, blocked, inflight, leaked, trouble>>
  <2>1. U!TypeOK /\ Known(up[c])
    BY DEF UpgradeInv
  <2>2. CASE U!Select(c)
    BY <2>1, <2>2 DEF U!Select, U!At, U!accountVars
  <2>3. CASE U!Resolve(c)
    BY <2>1, <2>3 DEF U!Resolve, U!At, U!accountVars
  <2>4. CASE U!Stale(c)
    BY <2>1, <2>4 DEF U!Stale, U!At, U!accountVars
  <2>5. CASE U!Refreshed(c)
    BY <2>1, <2>5 DEF U!Refreshed, U!At, U!accountVars
  <2>6. CASE U!TryAlternate(c)
    BY <2>1, <2>6 DEF U!TryAlternate, U!At, U!accountVars
  <2>7. CASE U!Reconnect(c)
    BY <2>1, <2>7 DEF U!Reconnect, U!At, U!accountVars
  <2> QED
    BY <2>2, <2>3, <2>4, <2>5, <2>6, <2>7
<1>2. /\ up[c] \in U!Handshakes /\ up[c].account \in U!MaybeAccount
      /\ up[c].owner \in U!MaybeAccount /\ thread \in U!MaybeAccount
      /\ up[c].attempt \in 0..1 /\ up[c].seen \in Nat /\ up[c].bound \in BOOLEAN
  BY <1>1, HandshakeOf DEF U!Handshakes
<1> SUFFICES GoesOn(c)
  BY <1>1, CountsStay
<1>3. CASE U!Select(c)
  BY <1>1, <1>3, Selecting DEF U!Select
<1>4. CASE U!Resolve(c)
  <2>1. Known([up[c] EXCEPT !.stage = "validate"])
    BY <1>1, <1>2, <1>4, StageSet DEF Known, U!Resolve, U!At, U!Stages
  <2> QED
    BY <1>1, <1>4, <2>1, GoesToStage, EndsRight DEF U!Resolve, U!Stages
<1>5. CASE U!Stale(c)
  BY <1>1, <1>5, Selecting, EndsRight DEF U!Stale
<1>6. CASE U!Refreshed(c)
  <2>1. CASE U!Ended(c)
    BY <1>1, <1>6, <2>1, EndsRight DEF U!Refreshed
  <2>2. CASE ~U!Ended(c)
    <3>1. up' = [up EXCEPT ![c] = [@ EXCEPT !.stage = "resolve", !.attempt = 1]]
          /\ UNCHANGED <<permits, thread>> /\ up[c].stage = "refresh"
          /\ epoch[up[c].account] = up[c].seen
      BY <1>6, <2>2 DEF U!Refreshed, U!Holds, U!At
    <3> DEFINE r == [up[c] EXCEPT !.stage = "resolve", !.attempt = 1]
    <3>2. up[c].account \in Pool /\ up[c].owner \in {NoAccount, up[c].account}
      BY <1>1, <3>1 DEF Known
    <3>3. /\ r \in U!Handshakes /\ r.stage = "resolve" /\ r.account = up[c].account
          /\ r.owner = up[c].owner /\ r.open = up[c].open
      <4>1. up[c] \in U!Handshakes /\ "resolve" \in U!Stages /\ 1 \in 0..1
        BY <1>2 DEF U!Stages
      <4> QED
        BY <4>1 DEF U!Handshakes
    <3>4. up' = [up EXCEPT ![c] = r]
      BY <3>1
    <3> HIDE DEF r
    <3> QED
      BY <1>1, <1>2, <3>1, <3>2, <3>3, <3>4, SelectsRight
  <2> QED
    BY <2>1, <2>2
<1>7. CASE U!TryAlternate(c)
  <2>1. CASE U!Ended(c) /\ UNCHANGED thread
    BY <1>1, <2>1, EndsRight
  <2>2. CASE ~(U!Ended(c) /\ UNCHANGED thread)
    <3>1. /\ U!Retry(c)
          /\ \E a \in U!Eligible \ {up[c].account} :
               /\ up' = [up EXCEPT ![c] = U!Selection(c, a, up[c].owner, 1, {thread})]
               /\ thread' = a /\ UNCHANGED permits
      BY <1>7, <2>2 DEF U!TryAlternate
    <3>2. PICK a \in U!Eligible \ {up[c].account} :
            /\ up' = [up EXCEPT ![c] = U!Selection(c, a, up[c].owner, 1, {thread})]
            /\ thread' = a /\ UNCHANGED permits
      BY <3>1
    <3>3. up[c].owner = NoAccount
      BY <3>1 DEF U!Retry
    <3>4. a \in Pool /\ a \in U!MaybeAccount /\ NoAccount \in U!MaybeAccount
      BY DEF U!Eligible, U!MaybeAccount
    <3> DEFINE r == U!Selection(c, a, up[c].owner, 1, {thread})
    <3>5. /\ r \in U!Handshakes /\ r.stage = "resolve"
          /\ r.account = a /\ r.owner = NoAccount /\ r.open = up[c].open
      BY <1>1, <3>3, <3>4, SelectionIs
    <3>6. up' = [up EXCEPT ![c] = r]
      BY <3>2
    <3> HIDE DEF r
    <3> QED
      BY <1>1, <3>2, <3>4, <3>5, <3>6, SelectsRight
  <2> QED
    BY <2>1, <2>2
<1>8. CASE U!Reconnect(c)
  <2>1. PICK a \in U!Eligible, o \in U!MaybeAccount :
          /\ o \in {NoAccount, a}
          /\ up' = [up EXCEPT ![c] = U!Selection(c, a, o, 0, {a})]
    BY <1>8 DEF U!Reconnect
  <2>2. UNCHANGED <<permits, thread>> /\ a \in Pool
    BY <1>8 DEF U!Reconnect, U!Eligible
  <2> DEFINE r == U!Selection(c, a, o, 0, {a})
  <2>3. /\ r \in U!Handshakes /\ r.stage = "resolve"
        /\ r.account = a /\ r.owner = o /\ r.open = up[c].open
    BY <1>1, <2>2, SelectionIs
  <2>4. up' = [up EXCEPT ![c] = r]
    BY <2>1
  <2> HIDE DEF r
  <2> QED
    BY <1>1, <1>2, <2>1, <2>2, <2>3, <2>4, SelectsRight
<1> QED
  BY <1>3, <1>4, <1>5, <1>6, <1>7, <1>8

\* A connection arrives, with a slot or behind an idle session's.
LEMMA Arrives ==
  ASSUME part = "upgrade", UpgradeInv, NEW c \in Places, U!Arrive(c) \/ U!GetSlot(c)
  PROVE  Balanced(c)
<1>1. /\ U!TypeOK /\ UNCHANGED <<epoch, blocked, trouble, inflight, thread, leaked>>
      /\ permits \in Nat /\ Known(up[c])
  BY DEF UpgradeInv, U!Arrive, U!GetSlot, U!accountVars, U!TypeOK
<1>2. \A a \in Pool : inflight[a] \in Int /\ leaked[a] \in Nat /\ a # NoAccount
  BY <1>1, UpgradeAssumption DEF U!TypeOK, U!UpgradeAssumption
<1>3. SUFFICES
        /\ up' \in [Places -> U!Handshakes \cup {Nothing}]
        /\ \A d \in Places \ {c} :
             \/ up'[d] = up[d]
             \/ up[d] # Nothing /\ up[d].stage = "open" /\ up'[d] = [up[d] EXCEPT !.stage = "evicted"]
        /\ Known(up'[c])
        /\ permits' \in Nat /\ permits' + SlotAs(up'[c]) = permits + SlotAs(up[c])
        /\ \A a \in Pool : /\ BegunAs(up[c], a) = 0 /\ OpenAs(up[c], a) = 0
                           /\ BegunAs(up'[c], a) = 0 /\ OpenAs(up'[c], a) = 0
  <2> SUFFICES ASSUME \A a \in Pool : /\ BegunAs(up[c], a) = 0 /\ OpenAs(up[c], a) = 0
                                      /\ BegunAs(up'[c], a) = 0 /\ OpenAs(up'[c], a) = 0
               PROVE  \A a \in Pool :
                        inflight'[a] - leaked'[a] - BegunAs(up'[c], a) - OpenAs(up'[c], a)
                          = inflight[a] - leaked[a] - BegunAs(up[c], a) - OpenAs(up[c], a)
    BY <1>1 DEF Balanced, U!TypeOK
  <2> QED
    BY <1>1
<1>4. CASE U!Arrive(c)
  <2>1. up[c] = Nothing
    BY <1>4 DEF U!Arrive, U!Active
  <2>2. PICK m \in U!Modes, o \in U!MaybeAccount :
          \/ /\ permits > 0 /\ permits' = permits - 1
             /\ up' = [up EXCEPT ![c] = U!Handshake(m, o, "select")]
          \/ /\ \E v1 \in Places :
                  /\ U!Idle(v1)
                  /\ up' = [up EXCEPT ![c] = U!Handshake(m, o, "slot"), ![v1].stage = "evicted"]
             /\ UNCHANGED permits
    BY <1>4 DEF U!Arrive
  <2>3. \A s \in {"select", "slot"} :
          LET r == U!Handshake(m, o, s)
          IN  /\ r \in U!Handshakes /\ r.stage = s /\ r.open = NoAccount
    BY DEF U!Handshake, U!Handshakes, U!Stages, U!MaybeAccount
  <2>4. \A a \in Pool : BegunAs(up[c], a) = 0 /\ OpenAs(up[c], a) = 0
    BY <2>1 DEF BegunAs, OpenAs
  <2>5. SlotAs(up[c]) = 0
    BY <2>1 DEF SlotAs
  <2>6. ASSUME NEW s \in {"select", "slot"}, NEW r, r = U!Handshake(m, o, s)
        PROVE  /\ r \in U!Handshakes /\ Known(r)
               /\ SlotAs(r) = IF s = "slot" THEN 0 ELSE 1
               /\ \A a \in Pool : BegunAs(r, a) = 0 /\ OpenAs(r, a) = 0
    <3>1. r \in U!Handshakes /\ r.stage = s /\ r.open = NoAccount
      BY <2>3, <2>6
    <3>2. r # Nothing
      BY <3>1, UpgradeAssumption DEF U!UpgradeAssumption
    <3> QED
      BY <1>2, <3>1, <3>2 DEF Known, SlotAs, BegunAs, OpenAs
  <2>7. CASE /\ permits > 0 /\ permits' = permits - 1
             /\ up' = [up EXCEPT ![c] = U!Handshake(m, o, "select")]
    <3> DEFINE r == U!Handshake(m, o, "select")
    <3>1. /\ r \in U!Handshakes /\ Known(r) /\ SlotAs(r) = 1
          /\ \A a \in Pool : BegunAs(r, a) = 0 /\ OpenAs(r, a) = 0
      BY <2>6
    <3>2. up' = [up EXCEPT ![c] = r]
      BY <2>7
    <3> HIDE DEF r
    <3>3. /\ up' \in [Places -> U!Handshakes \cup {Nothing}] /\ up'[c] = r
          /\ \A d \in Places \ {c} : up'[d] = up[d]
      BY <1>1, <3>1, <3>2, Replaced
    <3> QED
      BY <1>1, <2>4, <2>5, <2>7, <3>1, <3>3
  <2>8. ASSUME NEW v1 \in Places, U!Idle(v1), UNCHANGED permits,
               up' = [up EXCEPT ![c] = U!Handshake(m, o, "slot"), ![v1].stage = "evicted"]
        PROVE  /\ up' \in [Places -> U!Handshakes \cup {Nothing}]
               /\ up'[c] = U!Handshake(m, o, "slot")
               /\ \A d \in Places \ {c} :
                    \/ up'[d] = up[d]
                    \/ up[d] # Nothing /\ up[d].stage = "open" /\ up'[d] = [up[d] EXCEPT !.stage = "evicted"]
    <3>1. v1 # c /\ up[v1] # Nothing /\ up[v1].stage = "open" /\ up[v1] \in U!Handshakes
      BY <1>1, <2>1, <2>8 DEF U!Idle, U!At, U!TypeOK
    <3> DEFINE r == U!Handshake(m, o, "slot")  q == [up[v1] EXCEPT !.stage = "evicted"]
    <3>2. r \in U!Handshakes /\ q \in U!Handshakes
      BY <2>3, <3>1, StageSet DEF U!Stages
    <3>3. up' = [[up EXCEPT ![c] = r] EXCEPT ![v1] = q]
      BY <1>1, <2>8, <3>1 DEF U!TypeOK
    <3>4. q = [up[v1] EXCEPT !.stage = "evicted"]
      OBVIOUS
    <3>5. SUFFICES /\ up' \in [Places -> U!Handshakes \cup {Nothing}]
                   /\ up'[c] = r /\ up'[v1] = q
                   /\ \A d \in Places \ {c, v1} : up'[d] = up[d]
      BY <3>1
    <3> HIDE DEF r, q
    <3> QED
      BY <1>1, <3>1, <3>2, <3>3 DEF U!TypeOK
  <2>9. CASE /\ \E v1 \in Places :
                  /\ U!Idle(v1)
                  /\ up' = [up EXCEPT ![c] = U!Handshake(m, o, "slot"), ![v1].stage = "evicted"]
             /\ UNCHANGED permits
    <3> DEFINE r == U!Handshake(m, o, "slot")
    <3>1. /\ r \in U!Handshakes /\ Known(r) /\ SlotAs(r) = 0
          /\ \A a \in Pool : BegunAs(r, a) = 0 /\ OpenAs(r, a) = 0
      BY <2>6
    <3>2. up'[c] = r
      BY <2>8, <2>9
    <3>3. /\ up' \in [Places -> U!Handshakes \cup {Nothing}]
          /\ \A d \in Places \ {c} :
               \/ up'[d] = up[d]
               \/ up[d] # Nothing /\ up[d].stage = "open" /\ up'[d] = [up[d] EXCEPT !.stage = "evicted"]
      BY <2>8, <2>9
    <3> HIDE DEF r
    <3> QED
      BY <1>1, <2>4, <2>5, <2>9, <3>1, <3>2, <3>3
  <2> QED
    BY <2>2, <2>7, <2>9
<1>5. CASE U!GetSlot(c)
  <2>1. up[c] # Nothing /\ up[c].stage = "slot" /\ up[c] \in U!Handshakes
    BY <1>1, <1>5 DEF U!GetSlot, U!At, U!TypeOK
  <2>2. /\ up[c].open = NoAccount /\ SlotAs(up[c]) = 0
        /\ \A a \in Pool : BegunAs(up[c], a) = 0 /\ OpenAs(up[c], a) = 0
    BY <1>1, <1>2, <2>1 DEF Known, SlotAs, BegunAs, OpenAs
  <2>3. CASE permits > 0 /\ permits' = permits - 1 /\ up' = [up EXCEPT ![c].stage = "select"]
    <3> DEFINE r == [up[c] EXCEPT !.stage = "select"]
    <3>1. r \in U!Handshakes /\ r # Nothing /\ r.stage = "select" /\ r.open = NoAccount
      BY <2>1, <2>2, StageSet DEF U!Stages
    <3>2. up' = [up EXCEPT ![c] = r]
      BY <2>3
    <3> HIDE DEF r
    <3>3. /\ up' \in [Places -> U!Handshakes \cup {Nothing}] /\ up'[c] = r
          /\ \A d \in Places \ {c} : up'[d] = up[d]
      BY <1>1, <3>1, <3>2, Replaced
    <3>4. /\ Known(r) /\ SlotAs(r) = 1
          /\ \A a \in Pool : BegunAs(r, a) = 0 /\ OpenAs(r, a) = 0
      BY <1>2, <3>1 DEF Known, SlotAs, BegunAs, OpenAs
    <3> QED
      BY <1>1, <2>2, <2>3, <3>3, <3>4
  <2>4. CASE up' = [up EXCEPT ![c] = Nothing] /\ UNCHANGED permits
    <3>1. /\ up' \in [Places -> U!Handshakes \cup {Nothing}] /\ up'[c] = Nothing
          /\ \A d \in Places \ {c} : up'[d] = up[d]
      BY <1>1, <2>4, Replaced
    <3> QED
      BY <1>1, <2>2, <2>4, <3>1 DEF Known, SlotAs, BegunAs, OpenAs
  <2> QED
    BY <1>5, <2>3, <2>4 DEF U!GetSlot
<1> QED
  BY <1>4, <1>5

\* One count fewer.
LEMMA EndOfIs ==
  ASSUME U!TypeOK, NEW x \in Pool, U!EndOf(x)
  PROVE  /\ inflight' \in [Pool -> Int]
         /\ \A a \in Pool : inflight'[a] = inflight[a] - (IF a = x THEN 1 ELSE 0)
BY DEF U!TypeOK, U!EndOf

\* One count that nobody will lower, if the request has begun.
LEMMA LeakedIs ==
  ASSUME U!TypeOK, NEW c \in Places, up[c] # Nothing, Known(up[c]),
         leaked' = IF U!At(c, "begun") THEN [leaked EXCEPT ![up[c].account] = @ + 1] ELSE leaked
  PROVE  /\ leaked' \in [Pool -> Nat]
         /\ \A a \in Pool : leaked'[a] = leaked[a] + BegunAs(up[c], a)
<1>1. CASE up[c].stage = "begun"
  BY <1>1 DEF U!TypeOK, U!At, Known, BegunAs
<1>2. CASE up[c].stage # "begun"
  BY <1>2 DEF U!TypeOK, U!At, BegunAs
<1> QED
  BY <1>1, <1>2

\* The answer ends the request that has begun.
LEMMA EndsOne ==
  ASSUME U!TypeOK, NEW c \in Places, up[c] # Nothing, Known(up[c]),
         up[c].stage = "begun", GoesOn(c), U!EndOf(up[c].account),
         UNCHANGED <<epoch, leaked, trouble>>, blocked' \subseteq Pool
  PROVE  Balanced(c)
<1>1. up[c].account \in Pool
  BY DEF Known
<1>2. /\ inflight' \in [Pool -> Int]
      /\ \A a \in Pool : inflight'[a] = inflight[a] - (IF a = up[c].account THEN 1 ELSE 0)
  BY <1>1, EndOfIs
<1>3. \A a \in Pool : /\ BegunAs(up[c], a) = IF a = up[c].account THEN 1 ELSE 0
                      /\ BegunAs(up'[c], a) = 0 /\ OpenAs(up'[c], a) = OpenAs(up[c], a)
                      /\ OpenAs(up[c], a) \in 0..1
                      /\ inflight[a] \in Int /\ leaked[a] \in Nat /\ leaked'[a] = leaked[a]
  BY DEF BegunAs, OpenAs, GoesOn, U!TypeOK
<1>4. ASSUME NEW a \in Pool
      PROVE  inflight'[a] - leaked'[a] - BegunAs(up'[c], a) - OpenAs(up'[c], a)
               = inflight[a] - leaked[a] - BegunAs(up[c], a) - OpenAs(up[c], a)
  BY <1>2, <1>3
<1> QED
  BY <1>2, <1>4 DEF Balanced, GoesOn, U!TypeOK

\* A request ends without an open socket.
LEMMA RequestEnds ==
  ASSUME part = "upgrade", UpgradeInv, NEW c \in Places,
         U!Fails(c) \/ \E k \in {"401", "quota", "gateway", "other"} : U!Rejected(c, k)
  PROVE  Balanced(c)
<1>1. /\ U!TypeOK /\ Known(up[c]) /\ up[c] # Nothing /\ up[c].stage = "begun"
      /\ U!EndOf(up[c].account)
      /\ UNCHANGED <<epoch, leaked, trouble, thread>>
  <2>1. U!TypeOK /\ Known(up[c])
    BY DEF UpgradeInv
  <2>2. CASE U!Fails(c)
    BY <2>1, <2>2 DEF U!Fails, U!At, U!accountVars
  <2>3. ASSUME NEW k, U!Rejected(c, k)
        PROVE  /\ up[c] # Nothing /\ up[c].stage = "begun"
               /\ U!EndOf(up[c].account)
               /\ UNCHANGED <<epoch, leaked, trouble, thread>>
    BY <2>3 DEF U!Rejected, U!At
  <2> QED
    BY <2>1, <2>2, <2>3
<1>2. up[c] \in U!Handshakes /\ up[c].account \in Pool
  BY <1>1, HandshakeOf DEF Known
<1>3. CASE U!Fails(c)
  <2>1. GoesOn(c)
    BY <1>1, <1>3, EndsRight DEF U!Fails
  <2>2. blocked' \subseteq Pool
    BY <1>1, <1>3 DEF U!Fails, U!accountVars, U!TypeOK
  <2> QED
    BY <1>1, <2>1, <2>2, EndsOne
<1>4. ASSUME NEW k \in {"401", "quota", "gateway", "other"}, U!Rejected(c, k)
      PROVE  Balanced(c)
  <2>1. blocked' \subseteq Pool
    BY <1>1, <1>2, <1>4 DEF U!Rejected, U!TypeOK
  <2>2. \/ \E s \in {"refresh", "rejected"} :
             up' = [up EXCEPT ![c].stage = s] /\ UNCHANGED permits
        \/ U!Ended(c)
    BY <1>4 DEF U!Rejected
  <2>3. ASSUME NEW s \in {"refresh", "rejected"},
               up' = [up EXCEPT ![c].stage = s], UNCHANGED permits
        PROVE  GoesOn(c)
    <3>1. Known([up[c] EXCEPT !.stage = s])
      BY <1>1, <1>2, StageSet DEF Known, U!Stages
    <3> QED
      BY <1>1, <2>3, <3>1, GoesToStage DEF U!Stages
  <2>4. GoesOn(c)
    BY <1>1, <2>2, <2>3, EndsRight
  <2> QED
    BY <1>1, <2>1, <2>4, EndsOne
<1> QED
  BY <1>3, <1>4

\* A request begins, or its socket opens, in the place of the one it had.
LEMMA RequestBegins ==
  ASSUME part = "upgrade", UpgradeInv, NEW c \in Places, U!Begin(c) \/ U!Opened(c)
  PROVE  Balanced(c)
<1>1. /\ U!TypeOK /\ Known(up[c]) /\ up[c] # Nothing
      /\ up[c].stage \in {"validate", "begun"}
      /\ UNCHANGED <<epoch, blocked, leaked, trouble, permits>>
  BY DEF UpgradeInv, U!Begin, U!Opened, U!At, U!accountVars
<1> DEFINE x == up[c].account
<1>2. /\ up[c] \in U!Handshakes /\ x \in Pool /\ x \in U!MaybeAccount
      /\ up[c].owner \in {NoAccount, x} /\ up[c].open \in U!MaybeAccount
      /\ SlotAs(up[c]) = 1 /\ permits \in Nat /\ thread \in U!MaybeAccount
  BY <1>1, HandshakeOf DEF Known
<1>3. /\ \A a \in Pool : inflight[a] \in Int /\ leaked[a] \in Nat
      /\ inflight \in [Pool -> Int] /\ leaked \in [Pool -> Nat] /\ blocked \subseteq Pool
      /\ epoch \in [Pool -> Nat] /\ trouble \in Nat
      /\ NoAccount \notin Pool
  BY <1>1, UpgradeAssumption DEF U!TypeOK, U!UpgradeAssumption
<1>4. CASE U!Begin(c)
  <2> DEFINE r == [up[c] EXCEPT !.stage = "begun"]
  <2>1. /\ r \in U!Handshakes /\ r # Nothing /\ r.stage = "begun" /\ r.account = x
        /\ r.open = up[c].open /\ r.owner = up[c].owner
    BY <1>2, StageSet DEF U!Stages
  <2>2. /\ up' = [up EXCEPT ![c] = r] /\ UNCHANGED thread
        /\ inflight' = [inflight EXCEPT ![x] = @ + 1] /\ up[c].stage = "validate"
    BY <1>4 DEF U!Begin, U!At
  <2> HIDE DEF r
  <2>3. /\ up' \in [Places -> U!Handshakes \cup {Nothing}] /\ up'[c] = r
        /\ \A d \in Places \ {c} : up'[d] = up[d]
    BY <1>1, <2>1, <2>2, Replaced
  <2>4. /\ inflight' \in [Pool -> Int]
        /\ \A a \in Pool : inflight'[a] = inflight[a] + (IF a = x THEN 1 ELSE 0)
    BY <1>2, <1>3, <2>2
  <2>5. /\ Known(r) /\ SlotAs(r) = 1
        /\ \A a \in Pool : /\ BegunAs(r, a) = IF a = x THEN 1 ELSE 0
                           /\ BegunAs(up[c], a) = 0
                           /\ OpenAs(r, a) = OpenAs(up[c], a) /\ OpenAs(r, a) \in 0..1
    BY <1>1, <1>2, <2>1, <2>2 DEF Known, SlotAs, BegunAs, OpenAs
  <2>6. ASSUME NEW a \in Pool
        PROVE  inflight'[a] - leaked'[a] - BegunAs(r, a) - OpenAs(r, a)
                 = inflight[a] - leaked[a] - BegunAs(up[c], a) - OpenAs(up[c], a)
    BY <1>1, <1>3, <2>4, <2>5
  <2> QED
    BY <1>1, <1>2, <1>3, <2>2, <2>3, <2>4, <2>5, <2>6 DEF Balanced
<1>5. CASE U!Opened(c)
  <2> DEFINE r == [up[c] EXCEPT !.stage = "open", !.open = x]
             k == up[c].open
  <2>1. /\ r \in U!Handshakes /\ r.stage = "open" /\ r.open = x
    BY <1>2 DEF U!Handshakes, U!Stages
  <2>2. r # Nothing
    BY <2>1, UpgradeAssumption DEF U!UpgradeAssumption
  <2>3. /\ up' = [up EXCEPT ![c] = r] /\ up[c].stage = "begun"
        /\ IF k = NoAccount THEN thread' = x /\ UNCHANGED inflight
                            ELSE U!EndOf(k) /\ UNCHANGED thread
    BY <1>1, <1>2, <1>5 DEF U!Opened, U!At, U!Kept, U!TypeOK
  <2> HIDE DEF r
  <2>4. /\ up' \in [Places -> U!Handshakes \cup {Nothing}] /\ up'[c] = r
        /\ \A d \in Places \ {c} : up'[d] = up[d]
    BY <1>1, <2>1, <2>3, Replaced
  <2>5. /\ inflight' \in [Pool -> Int] /\ thread' \in U!MaybeAccount
        /\ \A a \in Pool : inflight'[a] = inflight[a] - (IF a = k THEN 1 ELSE 0)
    <3>1. CASE k = NoAccount
      BY <1>2, <1>3, <2>3, <3>1
    <3>2. CASE k # NoAccount
      <4>1. k \in Pool /\ U!EndOf(k) /\ UNCHANGED thread
        BY <1>2, <2>3, <3>2 DEF U!MaybeAccount
      <4> QED
        BY <1>1, <1>2, <4>1, EndOfIs
    <3> QED
      BY <3>1, <3>2
  <2>6. /\ Known(r) /\ SlotAs(r) = 1
        /\ \A a \in Pool : /\ BegunAs(r, a) = 0
                           /\ BegunAs(up[c], a) = IF a = x THEN 1 ELSE 0
                           /\ OpenAs(r, a) = IF a = x THEN 1 ELSE 0
                           /\ OpenAs(up[c], a) = IF a = k THEN 1 ELSE 0
    BY <1>1, <1>2, <2>1, <2>2, <2>3 DEF Known, SlotAs, BegunAs, OpenAs
  <2>7. ASSUME NEW a \in Pool
        PROVE  inflight'[a] - leaked'[a] - BegunAs(r, a) - OpenAs(r, a)
                 = inflight[a] - leaked[a] - BegunAs(up[c], a) - OpenAs(up[c], a)
    BY <1>1, <1>3, <2>5, <2>6
  <2> QED
    BY <1>1, <1>2, <1>3, <2>4, <2>5, <2>6, <2>7 DEF Balanced
<1> QED
  BY <1>4, <1>5

\* A connection that is gone has given back its slot and, if it could, its counts.
LEMMA Leaves ==
  ASSUME part = "upgrade", UpgradeInv, NEW c \in Places,
         U!Close(c) \/ U!Leave(c) \/ U!Aborted(c)
  PROVE  Balanced(c)
<1>1. /\ U!TypeOK /\ Known(up[c]) /\ up[c] # Nothing
      /\ up' = [up EXCEPT ![c] = Nothing]
      /\ UNCHANGED <<epoch, blocked, thread>> /\ trouble' \in Nat
  BY DEF UpgradeInv, U!Close, U!Leave, U!Aborted, U!At, U!Active, U!accountVars, U!TypeOK
<1>2. /\ up[c] \in U!Handshakes /\ up[c].open \in U!MaybeAccount /\ permits \in Nat
      /\ up[c].stage \in U!Stages
  BY <1>1, HandshakeOf
<1>3. /\ up' \in [Places -> U!Handshakes \cup {Nothing}] /\ up'[c] = Nothing
      /\ \A d \in Places \ {c} : up'[d] = up[d]
  BY <1>1, Replaced
<1>4. /\ \A a \in Pool : inflight[a] \in Int /\ leaked[a] \in Nat
      /\ inflight \in [Pool -> Int] /\ leaked \in [Pool -> Nat]
      /\ NoAccount \notin Pool
      /\ thread' \in U!MaybeAccount /\ blocked' \subseteq Pool /\ epoch' \in [Pool -> Nat]
  BY <1>1, UpgradeAssumption DEF U!TypeOK, U!UpgradeAssumption
<1>5. /\ Known(Nothing) /\ SlotAs(Nothing) = 0
      /\ \A a \in Pool : BegunAs(Nothing, a) = 0 /\ OpenAs(Nothing, a) = 0
  BY DEF Known, SlotAs, BegunAs, OpenAs
<1>6. /\ permits' \in Nat /\ permits' = permits + SlotAs(up[c])
  <2>1. CASE U!Close(c)
    BY <1>2, <2>1 DEF U!Close, U!At, SlotAs
  <2>2. CASE U!Leave(c)
    BY <1>1, <1>2, <2>2 DEF U!Leave, U!At, SlotAs
  <2>3. CASE U!Aborted(c)
    BY <1>1, <1>2, <2>3 DEF U!Aborted, U!Kept, U!Active, Known, SlotAs
  <2> QED
    BY <2>1, <2>2, <2>3
<1>7. /\ inflight' \in [Pool -> Int]
      /\ \A a \in Pool : inflight'[a] = inflight[a] - OpenAs(up[c], a)
  <2>1. CASE U!Leave(c)
    <3>1. UNCHANGED inflight /\ up[c].open = NoAccount
      BY <2>1 DEF U!Leave, U!Kept, U!Active
    <3> QED
      BY <1>4, <3>1 DEF OpenAs
  <2>2. CASE U!Close(c) \/ U!Aborted(c)
    <3>1. up[c].open \in Pool /\ U!EndOf(up[c].open)
      BY <1>1, <1>2, <2>2 DEF U!Close, U!Aborted, U!Kept, U!Active, U!At, Known,
                              U!MaybeAccount
    <3> QED
      BY <1>1, <3>1, EndOfIs DEF OpenAs
  <2> QED
    BY <2>1, <2>2
<1>8. /\ leaked' \in [Pool -> Nat]
      /\ \A a \in Pool : leaked'[a] = leaked[a] + BegunAs(up[c], a)
  <2>1. CASE U!Close(c)
    BY <1>1, <1>4, <2>1 DEF U!Close, U!At, BegunAs
  <2>2. CASE U!Leave(c) \/ U!Aborted(c)
    <3>1. leaked' = IF U!At(c, "begun") THEN [leaked EXCEPT ![up[c].account] = @ + 1] ELSE leaked
      BY <2>2 DEF U!Leave, U!Aborted
    <3> QED
      BY <1>1, <3>1, LeakedIs
  <2> QED
    BY <2>1, <2>2
<1>9. ASSUME NEW a \in Pool
      PROVE  inflight'[a] - leaked'[a] - BegunAs(Nothing, a) - OpenAs(Nothing, a)
               = inflight[a] - leaked[a] - BegunAs(up[c], a) - OpenAs(up[c], a)
  <2>1. BegunAs(up[c], a) \in 0..1 /\ OpenAs(up[c], a) \in 0..1
    BY DEF BegunAs, OpenAs
  <2> QED
    BY <1>4, <1>5, <1>7, <1>8, <2>1
<1>10. SlotAs(up[c]) \in 0..1
  BY DEF SlotAs
<1> QED
  BY <1>1, <1>2, <1>3, <1>4, <1>5, <1>6, <1>7, <1>8, <1>9, <1>10 DEF Balanced

\* A step of another part, and the beginning.
LEMMA UpgradesStart == ProxyInit => UpgradeInv
<1> SUFFICES ASSUME ProxyInit PROVE UpgradeInv
  OBVIOUS
<1>1. U!Init /\ IsFiniteSet(Places) /\ Slots \in Nat
  BY UpgradeAssumption, SameFinite DEF ProxyInit, U!UpgradeAssumption
<1>2. \A c \in Places : up[c] = Nothing
  BY <1>1 DEF U!Init
<1>3. /\ \A a \in Pool : Begun(a) = {} /\ Opens(a) = {}
      /\ Held = {}
  BY <1>2 DEF Begun, Opens, Held, U!At, U!Active
<1>4. Cardinality({}) = 0
  BY FS_EmptySet
<1>5. U!TypeOK
  BY <1>1 DEF U!Init, U!TypeOK
<1>6. \A a \in Pool : /\ inflight[a] = 0 /\ leaked[a] = 0
                      /\ Cardinality(Begun(a)) = 0 /\ Cardinality(Opens(a)) = 0
  BY <1>1, <1>3, <1>4 DEF U!Init
<1>7. U!CountsHaveOwners
  <2>1. \A a \in Pool : inflight[a] = leaked[a] + Cardinality(Begun(a)) + Cardinality(Opens(a))
    BY <1>6
  <2> QED
    BY <2>1, SameCardinality DEF U!CountsHaveOwners, Begun, Opens, U!At, U!Active
<1>8. permits + Cardinality(Held) = Slots
  BY <1>1, <1>3, <1>4 DEF U!Init
<1>9. U!SlotsHaveOwners
  BY <1>8, SameCardinality DEF U!SlotsHaveOwners, Held, U!At, U!Active
<1> QED
  BY <1>2, <1>5, <1>7, <1>9 DEF UpgradeInv, Known

LEMMA UpgradesAlone ==
  ASSUME [ProxyNext]_proxy, part' = "upgrade"
  PROVE  part = "upgrade" /\ (U!Next \/ UNCHANGED upgradeVars)
BY DEF ProxyNext, proxy

\* Every step keeps the invariant.
LEMMA UpgradesStay == UpgradeInv /\ [ProxyNext]_proxy => UpgradeInv'
<1> SUFFICES ASSUME UpgradeInv, [ProxyNext]_proxy, part' = "upgrade"
             PROVE  UpgradeInv'
  BY DEF UpgradeInv
<1>1. part = "upgrade" /\ (U!Next \/ UNCHANGED upgradeVars)
  BY UpgradesAlone
<1>2. CASE UNCHANGED upgradeVars
  BY <1>1, <1>2
     DEF UpgradeInv, upgradeVars, U!TypeOK, U!CountsHaveOwners, U!SlotsHaveOwners,
         U!At, U!Active, Known
<1>3. ASSUME NEW a \in Pool, U!Change(a) PROVE UpgradeInv'
  <2>1. /\ UNCHANGED <<inflight, permits, thread, up, leaked>>
        /\ U!TypeOK /\ U!CountsHaveOwners /\ U!SlotsHaveOwners
        /\ \A c \in Places : Known(up[c])
    BY <1>1, <1>3 DEF UpgradeInv, U!Change
  <2>2. U!TypeOK'
    BY <1>3, <2>1 DEF U!TypeOK, U!Change
  <2> QED
    BY <2>1, <2>2 DEF UpgradeInv, U!CountsHaveOwners, U!SlotsHaveOwners, U!At, U!Active
<1>4. ASSUME NEW c \in Places, Balanced(c) PROVE UpgradeInv'
  BY <1>1, <1>4, BalancedStays
<1>5. CASE U!Next
  BY <1>1, <1>3, <1>4, <1>5, HandshakeGoesOn, Arrives, RequestEnds, RequestBegins, Leaves
     DEF U!Next
<1> QED
  BY <1>1, <1>2, <1>5

\* However handshakes are selected again, retried, dropped and reconnected, a
\* connection that has to reach an account is sent to no other one, and every
\* count and every slot has one owner.
THEOREM HandshakesStayAlways == ProxySpec => []HandshakesStay
<1>1. UpgradeInv => HandshakesStay
  BY DEF UpgradeInv, HandshakesStay, U!HandshakesStay, U!At, Known
<1> QED
  BY <1>1, UpgradesStart, UpgradesStay, PTL DEF ProxySpec
-----------------------------------------------------------------------------
(* The bridged turn.                                                       *)

\* Frames that end nothing, of some attempts, and those that end a turn at last.
QuietKinds == {"created", "progress", "output"}
Quiet(s) == \A i \in DOMAIN s : s[i].kind \in QuietKinds
Of(s, attempts) == \A i \in DOMAIN s : s[i].attempt \in attempts
NoError(s) == \A i \in DOMAIN s : s[i].kind # "error"
EndKinds == B!Terminals \cup {"error", "liveness"}
Closing(s) ==
  /\ Len(s) > 0
  /\ \A i \in DOMAIN s : i < Len(s) => s[i].kind \in QuietKinds
  /\ s[Len(s)].kind \in EndKinds

\* Where the task goes on, and the frames it queues before.
Going == IF stage = "send" THEN after ELSE stage
Pending == IF stage = "send" THEN outbox ELSE <<>>

\* What the buffer holds is of the first attempt, and nothing came before.
BufferHides ==
  /\ capture.buffer = "off" => capture.held = <<>>
  /\ Quiet(capture.held) /\ Of(capture.held, {1})
  /\ capture.buffer = "open" => stage \in {"pump", "over"}
  /\ stage = "pump" /\ capture.buffer = "open" => relayed = <<>> /\ ~dispatch.retried

\* Before an answer nothing was sent; a rejection that is kept can be shown.
KeepsRejection ==
  /\ stage = "context" =>
       ~dispatch.retried /\ fallback = Nothing /\ accepted = {} /\ relayed = <<>>
  /\ stage = "dispatch" =>
       /\ relayed = <<>>
       /\ dispatch.retried <=> fallback # Nothing
       /\ ~dispatch.retried => accepted = {}
  /\ fallback # Nothing =>
       /\ Closing(fallback.events)
       /\ Of(fallback.events, {1}) /\ NoError(fallback.events)

\* What has been queued and what will be: no end before the last frame, and the
\* frames of one attempt.
RelayGoesOn ==
  /\ stage = "send" =>
       Len(outbox) > 0 /\ after \in {"pump", "settle", "over", "reject", "fatal"}
  /\ Going \in {"pump", "settle"} =>
       /\ Quiet(relayed) /\ Quiet(Pending)
       /\ Of(relayed, {B!Now}) /\ Of(Pending, {B!Now})
       /\ account \in Pool
  /\ stage = "send" /\ after = "over" => Quiet(relayed) /\ Closing(outbox)
  /\ stage = "send" /\ after = "reject" => Quiet(relayed) /\ Len(outbox) = 1
  /\ stage = "send" /\ after = "fatal" => Len(outbox) = 1 /\ outbox[1].kind = "close"
  /\ \E n \in B!Attempt : Of(relayed, {0, n}) /\ Of(Pending, {0, n})

\* A turn that was accepted is known to be, until it has its end.
AcceptanceKnown ==
  /\ accepted # {} => capture.created \/ dispatch.accepted
  /\ stage = "dispatch" /\ accepted # {} => dispatch.accepted
  /\ Going = "reject" => accepted = {}
  /\ accepted # {} => NoError(relayed) /\ NoError(Pending)

\* What the client has got.
AnswerEnds ==
  /\ over = "answered" => stage = "over"
  /\ stage = "over" /\ over # "cancelled" /\ open =>
       \E i \in DOMAIN relayed : relayed[i].kind \in EndKinds
  /\ \A i, j \in DOMAIN relayed :
       i < j /\ relayed[i].kind \in EndKinds => relayed[j].kind = "close"

RelayInv ==
  part = "relay" =>
    /\ B!TypeOK /\ BufferHides /\ KeepsRejection /\ RelayGoesOn
    /\ AcceptanceKnown /\ AnswerEnds

\* A frame more.
LEMMA Appended ==
  ASSUME NEW s \in Seq(B!Frames), NEW f \in B!Frames
  PROVE  /\ Append(s, f) \in Seq(B!Frames)
         /\ Len(Append(s, f)) > 0
         /\ Quiet(s) /\ f.kind \in QuietKinds => Quiet(Append(s, f))
         /\ Quiet(s) /\ f.kind \in EndKinds => Closing(Append(s, f))
         /\ \A x : Of(s, x) /\ f.attempt \in x => Of(Append(s, f), x)
         /\ NoError(s) /\ f.kind # "error" => NoError(Append(s, f))
<1>1. /\ Append(s, f) \in Seq(B!Frames) /\ Len(Append(s, f)) = Len(s) + 1
      /\ DOMAIN s = 1..Len(s) /\ DOMAIN Append(s, f) = 1..(Len(s) + 1) /\ Len(s) \in Nat
      /\ \A i \in 1..Len(s) : Append(s, f)[i] = s[i]
      /\ Append(s, f)[Len(s) + 1] = f
  OBVIOUS
<1>2. \A i \in DOMAIN Append(s, f) : i \in DOMAIN s \/ i = Len(s) + 1
  BY <1>1
<1> QED
  BY <1>1, <1>2 DEF Quiet, Closing, Of, NoError

\* A frame less.
LEMMA Shortened ==
  ASSUME NEW s \in Seq(B!Frames), Len(s) > 0
  PROVE  /\ Head(s) \in B!Frames /\ Tail(s) \in Seq(B!Frames)
         /\ Head(s) = s[1] /\ Len(Tail(s)) = Len(s) - 1
         /\ Len(s) # 1 => Len(Tail(s)) > 0
         /\ Quiet(s) => Quiet(Tail(s)) /\ Head(s).kind \in QuietKinds
         /\ Closing(s) /\ Len(s) # 1 => Closing(Tail(s)) /\ Head(s).kind \in QuietKinds
         /\ Closing(s) /\ Len(s) = 1 => Head(s).kind \in EndKinds
         /\ \A x : Of(s, x) => Of(Tail(s), x) /\ Head(s).attempt \in x
         /\ NoError(s) => NoError(Tail(s)) /\ Head(s).kind # "error"
<1>1. /\ Head(s) \in B!Frames /\ Tail(s) \in Seq(B!Frames)
      /\ Head(s) = s[1] /\ Len(Tail(s)) = Len(s) - 1 /\ Len(s) \in Nat
      /\ DOMAIN s = 1..Len(s) /\ DOMAIN Tail(s) = 1..(Len(s) - 1)
      /\ \A i \in 1..(Len(s) - 1) : Tail(s)[i] = s[i + 1]
  OBVIOUS
<1>2. 1 \in DOMAIN s /\ \A i \in DOMAIN Tail(s) : i + 1 \in DOMAIN s /\ Tail(s)[i] = s[i + 1]
  BY <1>1
<1>3. Quiet(s) => Quiet(Tail(s)) /\ Head(s).kind \in QuietKinds
  BY <1>1, <1>2 DEF Quiet
<1>4. ASSUME Closing(s), Len(s) # 1
      PROVE  Closing(Tail(s)) /\ Head(s).kind \in QuietKinds
  <2>1. Len(Tail(s)) > 0 /\ Tail(s)[Len(Tail(s))] = s[Len(s)]
    BY <1>1, <1>4
  <2>2. ASSUME NEW i \in DOMAIN Tail(s), i < Len(Tail(s))
        PROVE  Tail(s)[i].kind \in QuietKinds
    <3>1. i + 1 \in DOMAIN s /\ i + 1 < Len(s) /\ Tail(s)[i] = s[i + 1]
      BY <1>1, <1>2, <2>2
    <3> QED
      BY <1>4, <3>1 DEF Closing
  <2>3. Head(s).kind \in QuietKinds
    BY <1>1, <1>2, <1>4 DEF Closing
  <2> QED
    BY <1>4, <2>1, <2>2, <2>3 DEF Closing
<1>5. Closing(s) /\ Len(s) = 1 => Head(s).kind \in EndKinds
  BY <1>1 DEF Closing
<1>6. ASSUME NEW x, Of(s, x) PROVE Of(Tail(s), x) /\ Head(s).attempt \in x
  BY <1>1, <1>2, <1>6 DEF Of
<1>7. NoError(s) => NoError(Tail(s)) /\ Head(s).kind # "error"
  BY <1>1, <1>2 DEF NoError
<1> QED
  BY <1>1, <1>3, <1>4, <1>5, <1>6, <1>7

\* One frame of the proxy's own, and none.
LEMMA Told ==
  ASSUME NEW kind \in B!Own
  PROVE  /\ B!Tell(kind) \in Seq(B!Frames) /\ Len(B!Tell(kind)) = 1
         /\ B!Tell(kind)[1].kind = kind
         /\ \A x : 0 \in x => Of(B!Tell(kind), x)
         /\ kind \in {"error", "liveness"} => Closing(B!Tell(kind))
         /\ kind # "error" => NoError(B!Tell(kind))
<1> DEFINE f == [attempt |-> 0, kind |-> kind]
<1>1. f \in B!Frames /\ f.kind = kind /\ f.attempt = 0 /\ B!Tell(kind) = <<f>>
  BY DEF B!Frames, B!Tell
<1> HIDE DEF f
<1>2. /\ <<f>> \in Seq(B!Frames) /\ Len(<<f>>) = 1 /\ <<f>>[1] = f
      /\ \A i \in DOMAIN <<f>> : i = 1
  BY <1>1
<1> QED
  BY <1>1, <1>2 DEF Of, Closing, NoError, EndKinds

LEMMA NoFrames ==
  /\ <<>> \in Seq(B!Frames) /\ Len(<<>>) = 0
  /\ Quiet(<<>>) /\ NoError(<<>>) /\ \A x : Of(<<>>, x)
<1>1. <<>> \in Seq(B!Frames) /\ Len(<<>>) = 0 /\ DOMAIN <<>> = {}
  OBVIOUS
<1> QED
  BY <1>1 DEF Quiet, NoError, Of

\* A frame of the attempt.
LEMMA FrameIs ==
  ASSUME B!TypeOK, NEW kind \in B!Events
  PROVE  /\ B!Frame(kind) \in B!Frames /\ B!Now \in B!Attempt
         /\ B!Frame(kind).kind = kind /\ B!Frame(kind).attempt = B!Now
BY DEF B!Frame, B!Frames, B!Now, B!Attempt

LEMMA OfFewer ==
  ASSUME NEW s, NEW x, NEW y, x \subseteq y, Of(s, x)
  PROVE  Of(s, y)
BY DEF Of

LEMMA QuietIsNoError == \A s : Quiet(s) => NoError(s)
BY DEF Quiet, NoError, QuietKinds

\* Frames are queued, from any place but the last two.
LEMMA Sends ==
  ASSUME B!TypeOK, AnswerEnds, stage \notin {"over", "fatal"},
         UNCHANGED <<relayed, cached, open, over>>,
         NEW frames \in Seq(B!Frames),
         NEW then \in {"pump", "settle", "over", "reject", "fatal"},
         B!Send(frames, then), then = "over" => Len(frames) > 0
  PROVE  /\ outbox' \in Seq(B!Frames) /\ after' \in B!Stages /\ stage' \in B!Stages
         /\ outbox' = frames /\ after' = then
         /\ stage' = (IF frames = <<>> THEN then ELSE "send")
         /\ stage' = "send" => Len(outbox') > 0
         /\ Going' = then /\ Pending' = frames
         /\ stage' \notin {"context", "dispatch"}
         /\ AnswerEnds'
<1>1. /\ outbox' = frames /\ after' = then
      /\ stage' = (IF frames = <<>> THEN then ELSE "send")
  BY DEF B!Send
<1>2. frames # <<>> => Len(frames) > 0
  OBVIOUS
<1>3. frames = <<>> => Len(frames) = 0
  OBVIOUS
<1>4. Going' = then /\ Pending' = frames
  BY <1>1 DEF Going, Pending
<1>5. AnswerEnds'
  BY <1>1, <1>3 DEF AnswerEnds
<1> QED
  BY <1>1, <1>2, <1>4, <1>5 DEF B!Stages

\* The buffer is given up.
LEMMA ReleasedIs ==
  ASSUME NEW c \in B!Captures,
         NEW d, d = [c EXCEPT !.buffer = "off", !.held = <<>>]
  PROVE  /\ d \in B!Captures /\ d.buffer = "off" /\ d.held = <<>>
         /\ d.created = c.created
BY NoFrames DEF B!Captures

LEMMA NewCaptureIs ==
  ASSUME NEW b \in BOOLEAN
  PROVE  /\ B!NewCapture(b) \in B!Captures
         /\ B!NewCapture(b).held = <<>>
         /\ B!NewCapture(b).buffer = IF b THEN "open" ELSE "off"
BY NoFrames, RelayAssumption DEF B!Captures, B!NewCapture, B!RelayAssumption

\* The parts of the state.
LEMMA RelayParts ==
  ASSUME B!TypeOK
  PROVE  /\ capture \in B!Captures /\ capture.buffer \in {"open", "off"}
         /\ capture.held \in Seq(B!Frames) /\ capture.created \in BOOLEAN
         /\ capture.delivered \in BOOLEAN /\ capture.failed \in BOOLEAN
         /\ capture.events \in 0..MaxEvents
         /\ dispatch.attempts \in 0..2 /\ dispatch.safe \in BOOLEAN
         /\ dispatch.retried \in BOOLEAN /\ dispatch.accepted \in BOOLEAN
         /\ dispatch \in [attempts : 0..2, safe : BOOLEAN, retried : BOOLEAN,
                          accepted : BOOLEAN]
         /\ fallback # Nothing => /\ fallback \in B!Fallbacks
                                  /\ fallback.events \in Seq(B!Frames)
                                  /\ fallback.account \in Pool
         /\ B!Now \in B!Attempt /\ B!Now = (IF dispatch.retried THEN 2 ELSE 1)
         /\ relayed \in Seq(B!Frames) /\ outbox \in Seq(B!Frames)
BY DEF B!TypeOK, B!Captures, B!Fallbacks, B!Now, B!Attempt

\* A turn that has shown nothing yet queues the frames it ends with.
LEMMA EndsAtOnce ==
  ASSUME B!TypeOK, BufferHides, KeepsRejection, AcceptanceKnown, AnswerEnds,
         stage \in {"context", "dispatch"},
         UNCHANGED <<relayed, cached, open, over, accepted, account, capture, cause>>,
         fallback' \in {Nothing, fallback},
         dispatch' \in [attempts : 0..2, safe : BOOLEAN, retried : BOOLEAN,
                        accepted : BOOLEAN],
         dispatch'.accepted = dispatch.accepted,
         NEW frames \in Seq(B!Frames), B!Send(frames, "over"), Closing(frames),
         NEW n \in B!Attempt, Of(frames, {0, n}),
         accepted # {} => NoError(frames)
  PROVE  /\ B!TypeOK' /\ BufferHides' /\ KeepsRejection' /\ RelayGoesOn'
         /\ AcceptanceKnown' /\ AnswerEnds'
<1>1. relayed = <<>> /\ Len(frames) > 0
  BY DEF KeepsRejection, Closing
<1>2. /\ outbox' \in Seq(B!Frames) /\ after' \in B!Stages /\ stage' \in B!Stages
      /\ stage' = "send" /\ after' = "over" /\ outbox' = frames
      /\ Len(outbox') > 0 /\ Going' = "over" /\ Pending' = frames
      /\ AnswerEnds'
  BY <1>1, Sends
<1>3. B!TypeOK'
  BY <1>2 DEF B!TypeOK
<1>4. BufferHides' /\ KeepsRejection'
  BY <1>2 DEF BufferHides, KeepsRejection
<1>5. Quiet(relayed) /\ Of(relayed, {0, n}) /\ NoError(relayed)
  BY <1>1, NoFrames
<1>6. RelayGoesOn'
  <2>1. \E m \in B!Attempt : Of(relayed', {0, m}) /\ Of(Pending', {0, m})
    BY <1>2, <1>5
  <2> QED
    BY <1>2, <1>5, <2>1 DEF RelayGoesOn
<1>7. AcceptanceKnown'
  BY <1>2, <1>5 DEF AcceptanceKnown
<1> QED
  BY <1>2, <1>3, <1>4, <1>6, <1>7

\* A rejection that is kept, or an error of the proxy's own.
LEMMA EndsBeforeAnswer ==
  ASSUME part = "relay", RelayInv, UNCHANGED part, B!Context \/ B!DispatchFails
  PROVE  RelayInv'
<1>1. /\ B!TypeOK /\ BufferHides /\ KeepsRejection /\ RelayGoesOn
      /\ AcceptanceKnown /\ AnswerEnds
  BY DEF RelayInv
<1>2. UNCHANGED <<account, capture, cause, accepted, relayed, cached, open, over>>
  BY DEF B!Context, B!DispatchFails, B!client
<1>3. dispatch' \in [attempts : 0..2, safe : BOOLEAN, retried : BOOLEAN, accepted : BOOLEAN]
      /\ dispatch'.accepted = dispatch.accepted /\ dispatch'.retried = dispatch.retried
  BY <1>1, RelayParts DEF B!Context, B!DispatchFails
<1>4. ASSUME NEW kind \in {"error", "liveness"}, B!Send(B!Tell(kind), "over"),
             stage \in {"context", "dispatch"}, fallback' \in {Nothing, fallback},
             accepted = {}
      PROVE  RelayInv'
  <2>1. /\ B!Tell(kind) \in Seq(B!Frames) /\ Closing(B!Tell(kind)) /\ 1 \in B!Attempt
        /\ Of(B!Tell(kind), {0, 1})
    BY <1>4, Told DEF B!Own, B!Attempt
  <2> QED
    BY <1>1, <1>2, <1>3, <1>4, <2>1, EndsAtOnce DEF RelayInv
<1>5. CASE B!Context
  <2>1. stage = "context" /\ accepted = {} /\ UNCHANGED fallback
    BY <1>1, <1>5 DEF B!Context, KeepsRejection
  <2>2. CASE stage' = "dispatch" /\ UNCHANGED <<outbox, after>>
    <3>1. /\ Going = "context" /\ Going' = "dispatch" /\ Pending = <<>> /\ Pending' = <<>>
          /\ ~dispatch.retried /\ relayed = <<>> /\ fallback = Nothing
      BY <1>1, <2>1, <2>2 DEF Going, Pending, KeepsRejection
    <3>2. B!TypeOK'
      BY <1>1, <1>2, <1>3, <2>1, <2>2 DEF B!TypeOK, B!Stages
    <3>3. BufferHides' /\ KeepsRejection'
      BY <1>1, <1>2, <1>3, <2>1, <2>2, <3>1 DEF BufferHides, KeepsRejection
    <3>4. RelayGoesOn'
      BY <1>1, <1>2, <2>2, <3>1 DEF RelayGoesOn
    <3>5. AcceptanceKnown' /\ AnswerEnds'
      BY <1>1, <1>2, <2>1, <2>2, <3>1 DEF AcceptanceKnown, AnswerEnds
    <3> QED
      BY <3>2, <3>3, <3>4, <3>5 DEF RelayInv
  <2> QED
    BY <1>4, <1>5, <2>1, <2>2 DEF B!Context
<1>6. CASE B!DispatchFails
  <2>1. stage = "dispatch" /\ fallback' = Nothing
    BY <1>6 DEF B!DispatchFails
  <2>2. CASE fallback = Nothing
    BY <1>1, <1>4, <1>6, <2>1, <2>2, RelayParts DEF B!DispatchFails, KeepsRejection
  <2>3. CASE fallback # Nothing
    <3>1. /\ fallback.events \in Seq(B!Frames) /\ Closing(fallback.events)
          /\ Of(fallback.events, {0, 1}) /\ NoError(fallback.events) /\ 1 \in B!Attempt
          /\ B!Send(fallback.events, "over")
      BY <1>1, <1>6, <2>3, RelayParts, OfFewer
         DEF KeepsRejection, B!Attempt, B!DispatchFails
    <3>2. PICK frames \in Seq(B!Frames) : frames = fallback.events
      BY <3>1
    <3> QED
      BY <1>1, <1>2, <1>3, <2>1, <3>1, <3>2, EndsAtOnce DEF RelayInv
  <2> QED
    BY <2>2, <2>3
<1> QED
  BY <1>5, <1>6

\* What is counted for a dispatch.
LEMMA CountedIs ==
  ASSUME B!TypeOK, NEW n \in B!Attempt, NEW b \in BOOLEAN, B!Counted(n, b)
  PROVE  /\ dispatch' \in [attempts : 0..2, safe : BOOLEAN, retried : BOOLEAN,
                           accepted : BOOLEAN]
         /\ dispatch'.accepted = dispatch.accepted
         /\ dispatch'.retried = dispatch.retried
<1>1. dispatch' = [dispatch EXCEPT !.attempts = n, !.safe = b] /\ n \in 0..2
  BY DEF B!Counted, B!Attempt
<1>2. dispatch \in [attempts : 0..2, safe : BOOLEAN, retried : BOOLEAN, accepted : BOOLEAN]
  BY RelayParts
<1> QED
  BY <1>1, <1>2

\* An answer is relayed, or is none of another account.
LEMMA AnswerIsOne ==
  ASSUME part = "relay", RelayInv, UNCHANGED part, NEW to \in Pool, B!Answer(to)
  PROVE  RelayInv'
<1>1. /\ B!TypeOK /\ BufferHides /\ KeepsRejection /\ RelayGoesOn
      /\ AcceptanceKnown /\ AnswerEnds
  BY DEF RelayInv
<1>2. /\ UNCHANGED <<cause, accepted, relayed, cached, open, over>>
      /\ stage = "dispatch" /\ fallback' = Nothing
  BY DEF B!Answer, B!client
<1>3. dispatch' \in [attempts : 0..2, safe : BOOLEAN, retried : BOOLEAN, accepted : BOOLEAN]
      /\ dispatch'.accepted = dispatch.accepted /\ dispatch'.retried = dispatch.retried
  BY <1>1, CountedIs DEF B!Answer
<1>4. /\ relayed = <<>> /\ Going = "dispatch" /\ Pending = <<>>
      /\ dispatch.retried <=> fallback # Nothing
      /\ accepted # {} => dispatch.accepted
  BY <1>1, <1>2 DEF KeepsRejection, Going, Pending, AcceptanceKnown
<1>5. CASE B!Established(to)
  <2>1. PICK b \in BOOLEAN :
          b <=> ~dispatch.retried /\ dispatch'.attempts < 2 /\ dispatch'.safe
    OBVIOUS
  <2>2. /\ stage' = "pump" /\ account' = to /\ UNCHANGED <<outbox, after>>
        /\ capture' = B!NewCapture(b)
    BY <1>5, <2>1 DEF B!Answer, B!NewCapture
  <2>3. /\ capture' \in B!Captures /\ capture'.held = <<>>
        /\ capture'.buffer = "open" => ~dispatch.retried
    BY <2>1, <2>2, NewCaptureIs
  <2>4. Going' = "pump" /\ Pending' = <<>>
    BY <2>2 DEF Going, Pending
  <2>5. B!TypeOK'
    BY <1>1, <1>2, <1>3, <2>2, <2>3 DEF B!TypeOK, B!Stages
  <2>6. BufferHides' /\ KeepsRejection'
    BY <1>2, <1>3, <1>4, <2>2, <2>3, NoFrames DEF BufferHides, KeepsRejection
  <2>7. RelayGoesOn'
    <3>1. 1 \in B!Attempt
      BY DEF B!Attempt
    <3>2. /\ Quiet(relayed) /\ Quiet(Pending')
          /\ \A x : Of(relayed, x) /\ Of(Pending', x)
      BY <1>4, <2>4, NoFrames
    <3>3. \E m \in B!Attempt : Of(relayed', {0, m}) /\ Of(Pending', {0, m})
      BY <1>2, <3>1, <3>2
    <3> QED
      BY <1>2, <2>2, <2>4, <3>2, <3>3 DEF RelayGoesOn
  <2>8. AcceptanceKnown' /\ AnswerEnds'
    BY <1>1, <1>2, <1>3, <1>4, <2>2, <2>4, NoFrames DEF AcceptanceKnown, AnswerEnds
  <2> QED
    BY <2>5, <2>6, <2>7, <2>8 DEF RelayInv
<1>6. CASE ~B!Established(to)
  <2>1. /\ fallback # Nothing /\ UNCHANGED <<account, capture>>
        /\ B!Send(fallback.events, "over")
    BY <1>6 DEF B!Answer, B!Established
  <2>2. /\ fallback.events \in Seq(B!Frames) /\ Closing(fallback.events)
        /\ Of(fallback.events, {0, 1}) /\ NoError(fallback.events) /\ 1 \in B!Attempt
    BY <1>1, <2>1, RelayParts, OfFewer DEF KeepsRejection, B!Attempt
  <2>3. PICK frames \in Seq(B!Frames) : frames = fallback.events
    BY <2>2
  <2> QED
    BY <1>1, <1>2, <1>3, <2>1, <2>2, <2>3, EndsAtOnce DEF RelayInv
<1> QED
  BY <1>5, <1>6

\* An answer that is no success.
LEMMA RejectionIsOne ==
  ASSUME part = "relay", RelayInv, UNCHANGED part, B!Reject
  PROVE  RelayInv'
<1>1. /\ B!TypeOK /\ BufferHides /\ KeepsRejection /\ RelayGoesOn
      /\ AcceptanceKnown /\ AnswerEnds
  BY DEF RelayInv
<1>2. /\ UNCHANGED <<account, capture, cause, accepted, relayed, cached, open, over>>
      /\ stage = "dispatch" /\ fallback' = Nothing
  BY DEF B!Reject, B!client
<1>3. dispatch' \in [attempts : 0..2, safe : BOOLEAN, retried : BOOLEAN, accepted : BOOLEAN]
      /\ dispatch'.accepted = dispatch.accepted /\ dispatch'.retried = dispatch.retried
  BY <1>1, CountedIs DEF B!Reject
<1>4. relayed = <<>> /\ (fallback = Nothing => accepted = {})
  BY <1>1, <1>2 DEF KeepsRejection
<1>5. CASE fallback # Nothing
  <2>1. B!Send(fallback.events, "over")
    BY <1>5 DEF B!Reject
  <2>2. /\ fallback.events \in Seq(B!Frames) /\ Closing(fallback.events)
        /\ Of(fallback.events, {0, 1}) /\ NoError(fallback.events) /\ 1 \in B!Attempt
    BY <1>1, <1>5, RelayParts, OfFewer DEF KeepsRejection, B!Attempt
  <2>3. PICK frames \in Seq(B!Frames) : frames = fallback.events
    BY <2>2
  <2> QED
    BY <1>1, <1>2, <1>3, <2>1, <2>2, <2>3, EndsAtOnce DEF RelayInv
<1>6. ASSUME fallback = Nothing, NEW kind \in {"error", "liveness"},
             B!Send(B!Tell(kind), "over")
      PROVE  RelayInv'
  <2>1. /\ B!Tell(kind) \in Seq(B!Frames) /\ Closing(B!Tell(kind)) /\ 1 \in B!Attempt
        /\ Of(B!Tell(kind), {0, 1})
    BY <1>6, Told DEF B!Own, B!Attempt
  <2> QED
    BY <1>1, <1>2, <1>3, <1>4, <1>6, <2>1, EndsAtOnce DEF RelayInv
<1>7. ASSUME fallback = Nothing, NEW frames \in {B!Tell("error"), <<>>},
             B!Send(frames, "reject")
      PROVE  RelayInv'
  <2>1. /\ frames \in Seq(B!Frames) /\ Len(frames) \in 0..1
        /\ \A x : 0 \in x => Of(frames, x)
    <3>1. CASE frames = <<>>
      BY <3>1, NoFrames
    <3>2. CASE frames = B!Tell("error")
      BY <3>2, Told DEF B!Own
    <3> QED
      BY <3>1, <3>2
  <2>2. /\ outbox' \in Seq(B!Frames) /\ after' \in B!Stages /\ stage' \in B!Stages
        /\ outbox' = frames /\ after' = "reject"
        /\ stage' = (IF frames = <<>> THEN "reject" ELSE "send")
        /\ stage' = "send" => Len(outbox') > 0
        /\ Going' = "reject" /\ Pending' = frames
        /\ AnswerEnds'
    BY <1>1, <1>2, <1>7, <2>1, Sends
  <2>3. B!TypeOK'
    BY <1>1, <1>2, <1>3, <2>2 DEF B!TypeOK
  <2>4. BufferHides' /\ KeepsRejection'
    BY <1>1, <1>2, <1>3, <2>2 DEF BufferHides, KeepsRejection
  <2>5. RelayGoesOn'
    <3>1. Quiet(relayed) /\ Of(relayed, {0, 1}) /\ Of(frames, {0, 1}) /\ 1 \in B!Attempt
      BY <1>4, <2>1, NoFrames DEF B!Attempt
    <3>2. \E m \in B!Attempt : Of(relayed', {0, m}) /\ Of(Pending', {0, m})
      BY <1>2, <2>2, <3>1
    <3>3. stage' = "send" => Len(outbox') = 1
      BY <2>1, <2>2
    <3> QED
      BY <1>2, <2>2, <3>1, <3>2, <3>3 DEF RelayGoesOn
  <2>6. AcceptanceKnown'
    BY <1>2, <1>4, <1>7, <2>2 DEF AcceptanceKnown
  <2> QED
    BY <2>2, <2>3, <2>4, <2>5, <2>6 DEF RelayInv
<1> QED
  BY <1>5, <1>6, <1>7 DEF B!Reject

\* The session is closed after a rejection.
LEMMA RejectedIsOne ==
  ASSUME part = "relay", RelayInv, UNCHANGED part, B!Rejected
  PROVE  RelayInv'
<1>1. /\ B!TypeOK /\ BufferHides /\ KeepsRejection /\ RelayGoesOn
      /\ AcceptanceKnown /\ AnswerEnds
  BY DEF RelayInv
<1>2. /\ UNCHANGED <<dispatch, account, capture, fallback, cause, accepted,
                     relayed, cached, open, over>>
      /\ stage = "reject" /\ B!Send(B!Tell("close"), "fatal")
      /\ accepted = {}
  BY <1>1 DEF B!Rejected, B!client, AcceptanceKnown, Going
<1>3. PICK frames \in Seq(B!Frames) : frames = B!Tell("close")
  BY Told DEF B!Own
<1>4. /\ Len(frames) = 1 /\ frames[1].kind = "close" /\ \A x : 0 \in x => Of(frames, x)
  BY <1>3, Told DEF B!Own
<1>5. /\ outbox' \in Seq(B!Frames) /\ after' \in B!Stages /\ stage' \in B!Stages
      /\ stage' = "send" /\ after' = "fatal" /\ outbox' = frames
      /\ Going' = "fatal" /\ Pending' = frames
      /\ AnswerEnds'
  <2>1. Len(frames) = 1
    BY <1>4
  <2>2. frames # <<>>
    BY <2>1
  <2> QED
    BY <1>1, <1>2, <1>3, <2>2, Sends
<1>6. B!TypeOK'
  BY <1>1, <1>2, <1>5 DEF B!TypeOK
<1>7. BufferHides' /\ KeepsRejection'
  BY <1>1, <1>2, <1>5 DEF BufferHides, KeepsRejection
<1>8. RelayGoesOn'
  <2>1. PICK m \in B!Attempt : Of(relayed, {0, m})
    BY <1>1 DEF RelayGoesOn
  <2>2. \E x \in B!Attempt : Of(relayed', {0, x}) /\ Of(Pending', {0, x})
    BY <1>2, <1>4, <1>5, <2>1
  <2>3. Len(outbox') = 1 /\ outbox'[1].kind = "close"
    BY <1>4, <1>5
  <2>4. /\ stage' = "send" /\ after' = "fatal" /\ Going' = "fatal" /\ Len(outbox') > 0
    BY <1>5, <2>3
  <2> QED
    BY <2>2, <2>3, <2>4 DEF RelayGoesOn
<1>9. AcceptanceKnown'
  BY <1>2, <1>5 DEF AcceptanceKnown
<1> QED
  BY <1>5, <1>6, <1>7, <1>8, <1>9 DEF RelayInv

\* A rejection that is hidden from the client is kept while the turn goes on.
LEMMA RetryIsHidden ==
  ASSUME part = "relay", RelayInv, UNCHANGED part,
         NEW kind \in {"spared", "refused"}, B!Retry(kind)
  PROVE  RelayInv'
<1>1. /\ B!TypeOK /\ BufferHides /\ KeepsRejection /\ RelayGoesOn
      /\ AcceptanceKnown /\ AnswerEnds
  BY DEF RelayInv
<1>2. /\ UNCHANGED <<account, outbox, after, cause, accepted, relayed, cached, open, over>>
      /\ stage = "pump" /\ stage' = "dispatch" /\ capture.buffer = "open"
      /\ capture' = [capture EXCEPT !.buffer = "off", !.held = <<>>]
  BY DEF B!Retry, B!client, B!Hidden
<1>3. capture' \in B!Captures /\ capture'.held = <<>> /\ capture'.buffer = "off"
      /\ capture'.created = capture.created
  <2>1. PICK d : d = [capture EXCEPT !.buffer = "off", !.held = <<>>]
    OBVIOUS
  <2>2. /\ d \in B!Captures /\ d.buffer = "off" /\ d.held = <<>>
        /\ d.created = capture.created
    BY <1>1, <2>1, RelayParts, ReleasedIs, Zenon
  <2> QED
    BY <1>2, <2>1, <2>2
<1>4. /\ relayed = <<>> /\ ~dispatch.retried /\ account \in Pool
      /\ Quiet(capture.held) /\ Of(capture.held, {1}) /\ NoError(capture.held)
  BY <1>1, <1>2, QuietIsNoError DEF BufferHides, RelayGoesOn, Going
<1>5. PICK f \in B!Frames : f = B!Frame(kind) /\ f.kind = kind /\ f.attempt = 1
  BY <1>1, <1>4, FrameIs DEF B!Events, B!Terminals, B!Now
<1>6. PICK s \in Seq(B!Frames) :
        /\ s = Append(capture.held, f)
        /\ Closing(s) /\ Of(s, {1}) /\ NoError(s)
  BY <1>1, <1>4, <1>5, RelayParts, Appended DEF EndKinds, B!Terminals
<1>7. /\ fallback' \in B!Fallbacks /\ fallback' # Nothing
      /\ fallback'.events = s
  <2>1. fallback' = [account |-> account, events |-> s]
    BY <1>5, <1>6 DEF B!Retry
  <2> QED
    BY <1>4, <2>1, RelayAssumption DEF B!Fallbacks, B!RelayAssumption
<1>8. PICK b \in BOOLEAN : b <=> (dispatch.accepted \/ capture.created)
  OBVIOUS
<1>9. dispatch' = [dispatch EXCEPT !.retried = TRUE, !.accepted = b]
  BY <1>8, Zenon DEF B!Retry
<1>10. /\ dispatch' \in [attempts : 0..2, safe : BOOLEAN, retried : BOOLEAN,
                         accepted : BOOLEAN]
       /\ dispatch'.retried /\ (dispatch'.accepted <=> b)
  BY <1>1, <1>9, RelayParts
<1>11. B!TypeOK'
  BY <1>1, <1>2, <1>3, <1>7, <1>10 DEF B!TypeOK, B!Stages
<1>12. BufferHides' /\ KeepsRejection'
  BY <1>2, <1>3, <1>4, <1>6, <1>7, <1>10, NoFrames DEF BufferHides, KeepsRejection
<1>13. Going' = "dispatch" /\ Pending' = <<>>
  BY <1>2 DEF Going, Pending
<1>14. RelayGoesOn'
  <2>1. 1 \in B!Attempt /\ Of(relayed', {0, 1}) /\ Of(Pending', {0, 1})
    BY <1>2, <1>4, <1>13, NoFrames DEF B!Attempt
  <2> QED
    BY <1>2, <1>13, <2>1 DEF RelayGoesOn
<1>15. AcceptanceKnown' /\ AnswerEnds'
  BY <1>1, <1>2, <1>3, <1>4, <1>8, <1>10, <1>13, NoFrames DEF AcceptanceKnown, AnswerEnds
<1> QED
  BY <1>11, <1>12, <1>14, <1>15 DEF RelayInv

\* The relay releases what it holds, and perhaps one frame more.
LEMMA Releases ==
  ASSUME part = "relay", RelayInv, UNCHANGED part, stage = "pump",
         UNCHANGED <<dispatch, account, fallback, relayed, cached, open, over>>,
         NEW c \in B!Captures, c.created \in BOOLEAN,
         capture' = [c EXCEPT !.buffer = "off", !.held = <<>>],
         cause' \in {"none", "liveness", "broken"}, accepted' \subseteq B!Attempt,
         capture.created => c.created,
         accepted' # {} => accepted # {} \/ c.created,
         NEW frames \in Seq(B!Frames),
         NEW then \in {"pump", "settle", "over"}, B!Send(frames, then),
         Of(frames, {B!Now}),
         then = "over" => Closing(frames),
         then # "over" => Quiet(frames),
         NoError(frames)
  PROVE  RelayInv'
<1>1. /\ B!TypeOK /\ BufferHides /\ KeepsRejection /\ RelayGoesOn
      /\ AcceptanceKnown /\ AnswerEnds
  BY DEF RelayInv
<1>2. /\ capture' \in B!Captures /\ capture'.buffer = "off" /\ capture'.held = <<>>
      /\ capture'.created = c.created
  <2>1. PICK d : d = [c EXCEPT !.buffer = "off", !.held = <<>>]
    OBVIOUS
  <2>2. d \in B!Captures /\ d.buffer = "off" /\ d.held = <<>> /\ d.created = c.created
    BY <2>1, ReleasedIs, Zenon
  <2> QED
    BY <2>1, <2>2
<1>3. /\ outbox' \in Seq(B!Frames) /\ after' \in B!Stages /\ stage' \in B!Stages
      /\ outbox' = frames /\ after' = then
      /\ stage' = (IF frames = <<>> THEN then ELSE "send")
      /\ stage' = "send" => Len(outbox') > 0
      /\ Going' = then /\ Pending' = frames
      /\ stage' \notin {"context", "dispatch"}
      /\ AnswerEnds'
  BY <1>1, Sends DEF Closing
<1>4. /\ Quiet(relayed) /\ Of(relayed, {B!Now}) /\ account \in Pool /\ NoError(relayed)
      /\ B!Now \in B!Attempt
  BY <1>1, RelayParts, QuietIsNoError DEF RelayGoesOn, Going
<1>5. B!Now' = B!Now
  BY DEF B!Now
<1>6. B!TypeOK'
  BY <1>1, <1>2, <1>3 DEF B!TypeOK
<1>7. BufferHides' /\ KeepsRejection'
  BY <1>1, <1>2, <1>3, NoFrames DEF BufferHides, KeepsRejection
<1>8. RelayGoesOn'
  <2>1. Of(relayed, {0, B!Now}) /\ Of(frames, {0, B!Now})
    BY <1>4, OfFewer
  <2>2. \E x \in B!Attempt : Of(relayed', {0, x}) /\ Of(Pending', {0, x})
    BY <1>3, <1>4, <2>1
  <2>3. stage' = "send" /\ after' = "over" => Closing(outbox')
    BY <1>3
  <2>4. Going' \in {"pump", "settle"} =>
          /\ Quiet(relayed') /\ Quiet(Pending')
          /\ Of(relayed', {B!Now'}) /\ Of(Pending', {B!Now'})
          /\ account' \in Pool
    BY <1>3, <1>4, <1>5
  <2> QED
    BY <1>3, <1>4, <2>2, <2>3, <2>4 DEF RelayGoesOn
<1>9. AcceptanceKnown'
  BY <1>1, <1>2, <1>3, <1>4 DEF AcceptanceKnown
<1> QED
  BY <1>3, <1>6, <1>7, <1>8, <1>9 DEF RelayInv

\* What a relay holds is of its attempt.
LEMMA HeldIs ==
  ASSUME B!TypeOK, BufferHides, stage = "pump"
  PROVE  /\ capture.held \in Seq(B!Frames)
         /\ Quiet(capture.held) /\ NoError(capture.held)
         /\ Of(capture.held, {B!Now})
         /\ capture.buffer = "open" => B!Now = 1 /\ relayed = <<>> /\ ~dispatch.retried
<1>1. /\ capture.held \in Seq(B!Frames) /\ Quiet(capture.held) /\ NoError(capture.held)
      /\ capture.buffer \in {"open", "off"}
  BY RelayParts, QuietIsNoError DEF BufferHides
<1>2. capture.buffer = "open" => B!Now = 1 /\ relayed = <<>> /\ ~dispatch.retried
  BY DEF BufferHides, B!Now
<1>3. Of(capture.held, {B!Now})
  <2>1. CASE capture.buffer = "open"
    BY <1>2, <2>1 DEF BufferHides
  <2>2. CASE capture.buffer = "off"
    BY <2>2, NoFrames DEF BufferHides
  <2> QED
    BY <1>1, <2>1, <2>2
<1> QED
  BY <1>1, <1>2, <1>3

LEMMA ObservedIs ==
  ASSUME B!TypeOK, NEW kind, capture.events < MaxEvents
  PROVE  /\ B!Observed(kind) \in B!Captures
         /\ B!Observed(kind).created \in BOOLEAN
         /\ B!Observed(kind).created <=> capture.created \/ kind = "created"
         /\ B!Observed(kind).held = capture.held
         /\ B!Observed(kind).buffer = capture.buffer
<1>1. PICK b \in BOOLEAN : b <=> (capture.created \/ kind = "created")
  OBVIOUS
<1>2. B!Observed(kind) = [capture EXCEPT !.created = b, !.events = @ + 1]
  BY <1>1, Zenon DEF B!Observed
<1>3. capture \in B!Captures /\ capture.events + 1 \in 0..MaxEvents
  BY RelayParts, RelayAssumption DEF B!RelayAssumption
<1>4. PICK n \in 0..MaxEvents : n = capture.events + 1
  BY <1>3
<1>5. B!Observed(kind) = [capture EXCEPT !.created = b, !.events = n]
  BY <1>2, <1>4
<1> QED
  BY <1>1, <1>3, <1>5 DEF B!Captures

\* An event is held, or shown with what was held.
LEMMA EventIsOne ==
  ASSUME part = "relay", RelayInv, UNCHANGED part,
         NEW kind \in B!Events \ B!Terminals, B!Event(kind)
  PROVE  RelayInv'
<1>1. /\ B!TypeOK /\ BufferHides /\ KeepsRejection /\ RelayGoesOn
      /\ AcceptanceKnown /\ AnswerEnds
  BY DEF RelayInv
<1>2. /\ UNCHANGED <<dispatch, account, fallback, cause, relayed, cached, open, over>>
      /\ stage = "pump" /\ capture.events < MaxEvents
      /\ accepted' = IF kind = "created" THEN accepted \cup {B!Now} ELSE accepted
  BY DEF B!Event, B!client
<1>3. PICK c \in B!Captures :
        /\ c = B!Observed(kind) /\ c.created \in BOOLEAN
        /\ c.created <=> capture.created \/ kind = "created"
        /\ c.held = capture.held /\ c.buffer = capture.buffer
  BY <1>1, <1>2, ObservedIs
<1>4. /\ kind \in QuietKinds /\ kind # "error"
      /\ kind \in B!Events
  BY DEF B!Events, B!Terminals, QuietKinds
<1>5. PICK f \in B!Frames : f = B!Frame(kind) /\ f.kind = kind /\ f.attempt = B!Now
  BY <1>1, <1>4, FrameIs
<1>6. PICK s \in Seq(B!Frames) :
        /\ s = Append(capture.held, f)
        /\ Quiet(s) /\ Of(s, {B!Now}) /\ NoError(s) /\ Len(s) > 0
  <2>1. /\ capture.held \in Seq(B!Frames) /\ Quiet(capture.held)
        /\ NoError(capture.held) /\ Of(capture.held, {B!Now})
    BY <1>1, <1>2, HeldIs
  <2>2. f.attempt \in {B!Now} /\ f.kind \in QuietKinds /\ f.kind # "error"
    BY <1>4, <1>5
  <2> QED
    BY <2>1, <2>2, Appended
<1>7. /\ accepted' \subseteq B!Attempt
      /\ accepted' # {} => accepted # {} \/ c.created
      /\ capture.created => c.created
  BY <1>1, <1>2, <1>3, RelayParts DEF B!TypeOK
<1>8. CASE /\ capture' = [c EXCEPT !.buffer = "off", !.held = <<>>]
           /\ B!Send(s, "pump")
  <2>1. cause' \in {"none", "liveness", "broken"}
    BY <1>1, <1>2 DEF B!TypeOK
  <2> QED
    BY <1>2, <1>3, <1>6, <1>7, <1>8, <2>1, Releases, Zenon
<1>9. CASE /\ B!Retains(kind) /\ capture' = [c EXCEPT !.held = Append(@, f)]
           /\ UNCHANGED B!sending
  <2>1. /\ capture' \in B!Captures /\ capture'.held = s
        /\ capture'.created = c.created /\ capture'.buffer = c.buffer
        /\ capture.buffer = "open"
    <3>1. capture' = [c EXCEPT !.held = s] /\ capture.buffer = "open"
      BY <1>3, <1>6, <1>9 DEF B!Retains, B!Captures
    <3> QED
      BY <3>1 DEF B!Captures
  <2>2. UNCHANGED <<stage, outbox, after>> /\ UNCHANGED B!Now
    BY <1>2, <1>9 DEF B!sending, B!Now
  <2>3. UNCHANGED <<Going, Pending>> /\ Going = "pump" /\ Pending = <<>>
    BY <1>2, <2>2 DEF Going, Pending
  <2>4. B!Now = 1 /\ relayed = <<>> /\ ~dispatch.retried
    BY <1>1, <1>2, <2>1, HeldIs
  <2>5. B!TypeOK'
    BY <1>1, <1>2, <1>7, <2>1, <2>2 DEF B!TypeOK
  <2>6. BufferHides' /\ KeepsRejection'
    BY <1>1, <1>2, <1>3, <1>6, <2>1, <2>2, <2>4 DEF BufferHides, KeepsRejection
  <2>7. RelayGoesOn'
    BY <1>1, <1>2, <2>2, <2>3 DEF RelayGoesOn
  <2>8. AcceptanceKnown'
    BY <1>1, <1>2, <1>3, <1>7, <2>1, <2>2, <2>3, <2>4, NoFrames DEF AcceptanceKnown
  <2>9. AnswerEnds'
    BY <1>1, <1>2, <2>2 DEF AnswerEnds
  <2> QED
    BY <2>5, <2>6, <2>7, <2>8, <2>9 DEF RelayInv
<1> QED
  BY <1>3, <1>5, <1>6, <1>8, <1>9 DEF B!Event

\* A terminal, a delay or a failure releases what is held.
LEMMA RelayReleases ==
  ASSUME part = "relay", RelayInv, UNCHANGED part,
         \/ \E kind \in B!Terminals : B!Terminal(kind)
         \/ B!FlushDelay \/ B!PumpFails
  PROVE  RelayInv'
<1>1. B!TypeOK /\ BufferHides
  BY DEF RelayInv
<1>2. /\ UNCHANGED <<dispatch, account, fallback, accepted, relayed, cached, open, over>>
      /\ stage = "pump" /\ cause' \in {"none", "liveness", "broken"}
      /\ capture' = [capture EXCEPT !.buffer = "off", !.held = <<>>]
  BY <1>1 DEF B!Terminal, B!FlushDelay, B!PumpFails, B!client, B!TypeOK
<1>3. /\ capture \in B!Captures /\ capture.created \in BOOLEAN
      /\ accepted' \subseteq B!Attempt /\ capture.held \in Seq(B!Frames)
      /\ Quiet(capture.held) /\ NoError(capture.held) /\ Of(capture.held, {B!Now})
  BY <1>1, <1>2, RelayParts, HeldIs DEF B!TypeOK
<1>4. CASE \E kind \in B!Terminals : B!Terminal(kind)
  <2>1. PICK kind \in B!Terminals : B!Terminal(kind)
    BY <1>4
  <2>2. kind \in B!Events /\ kind \in EndKinds /\ kind # "error"
    BY DEF B!Events, B!Terminals, EndKinds
  <2>3. PICK f \in B!Frames : f = B!Frame(kind) /\ f.kind = kind /\ f.attempt = B!Now
    BY <1>1, <2>2, FrameIs
  <2>4. PICK s \in Seq(B!Frames) :
          /\ s = Append(capture.held, f)
          /\ Closing(s) /\ Of(s, {B!Now}) /\ NoError(s)
    BY <1>3, <2>2, <2>3, Appended
  <2>5. B!Send(s, "over")
    BY <2>1, <2>3, <2>4 DEF B!Terminal
  <2> QED
    BY <1>2, <1>3, <2>4, <2>5, Releases, Zenon
<1>5. CASE B!FlushDelay
  <2>1. B!Send(capture.held, "pump")
    BY <1>5 DEF B!FlushDelay
  <2> QED
    BY <1>2, <1>3, <2>1, Releases, Zenon
<1>6. CASE B!PumpFails
  <2>1. B!Send(capture.held, "settle")
    BY <1>6 DEF B!PumpFails
  <2> QED
    BY <1>2, <1>3, <2>1, Releases, Zenon
<1> QED
  BY <1>4, <1>5, <1>6

\* The end of a relay without a terminal.
LEMMA SettlesOnce ==
  ASSUME part = "relay", RelayInv, UNCHANGED part, B!Settle
  PROVE  RelayInv'
<1>1. /\ B!TypeOK /\ BufferHides /\ KeepsRejection /\ RelayGoesOn
      /\ AcceptanceKnown /\ AnswerEnds
  BY DEF RelayInv
<1>2. /\ UNCHANGED <<dispatch, account, capture, fallback, cause, accepted,
                     relayed, cached, open, over>>
      /\ stage = "settle"
  BY DEF B!Settle, B!client
<1>3. /\ Quiet(relayed) /\ Of(relayed, {B!Now}) /\ NoError(relayed)
      /\ B!Now \in B!Attempt /\ Of(relayed, {0, B!Now})
  BY <1>1, <1>2, RelayParts, QuietIsNoError, OfFewer DEF RelayGoesOn, Going
<1>4. \/ B!Send(<<>>, "fatal")
      \/ B!Send(B!Tell("close"), "fatal")
      \/ B!Send(B!Tell("liveness"), "over")
      \/ /\ B!Send(B!Tell("error"), "over")
         /\ ~capture.created /\ ~dispatch.accepted
  BY DEF B!Settle, B!Settled
<1>5. ASSUME NEW frames \in Seq(B!Frames), NEW then \in {"over", "fatal"},
             B!Send(frames, then), Of(frames, {0, B!Now}),
             then = "over" => Closing(frames),
             then = "fatal" => \/ frames = <<>>
                               \/ Len(frames) = 1 /\ frames[1].kind = "close",
             accepted # {} => NoError(frames)
      PROVE  RelayInv'
  <2>1. /\ outbox' \in Seq(B!Frames) /\ after' \in B!Stages /\ stage' \in B!Stages
        /\ outbox' = frames /\ after' = then
        /\ stage' = (IF frames = <<>> THEN then ELSE "send")
        /\ stage' = "send" => Len(outbox') > 0
        /\ Going' = then /\ Pending' = frames
        /\ AnswerEnds'
    BY <1>1, <1>2, <1>5, Sends DEF Closing
  <2>2. B!TypeOK'
    BY <1>1, <1>2, <2>1 DEF B!TypeOK
  <2>3. BufferHides' /\ KeepsRejection'
    BY <1>1, <1>2, <1>5, <2>1 DEF BufferHides, KeepsRejection
  <2>4. RelayGoesOn'
    <3>1. \E x \in B!Attempt : Of(relayed', {0, x}) /\ Of(Pending', {0, x})
      BY <1>2, <1>3, <1>5, <2>1
    <3>2. stage' = "send" /\ after' = "over" => Quiet(relayed') /\ Closing(outbox')
      BY <1>2, <1>3, <1>5, <2>1
    <3>3. stage' = "send" /\ after' = "fatal" => Len(outbox') = 1 /\ outbox'[1].kind = "close"
      BY <1>5, <2>1
    <3>4. Going' \in {"over", "fatal"} /\ after' \in {"over", "fatal"}
      BY <2>1
    <3> QED
      BY <2>1, <3>1, <3>2, <3>3, <3>4 DEF RelayGoesOn
  <2>5. AcceptanceKnown'
    BY <1>1, <1>2, <1>3, <1>5, <2>1 DEF AcceptanceKnown
  <2> QED
    BY <2>1, <2>2, <2>3, <2>4, <2>5 DEF RelayInv
<1>6. CASE B!Send(<<>>, "fatal")
  BY <1>5, <1>6, NoFrames
<1>7. ASSUME NEW kind \in B!Own, NEW then \in {"over", "fatal"},
             B!Send(B!Tell(kind), then),
             then = "over" => kind \in {"error", "liveness"},
             then = "fatal" => kind = "close",
             accepted # {} => kind # "error"
      PROVE  RelayInv'
  BY <1>5, <1>7, Told
<1>8. accepted # {} => capture.created \/ dispatch.accepted
  BY <1>1 DEF AcceptanceKnown
<1> QED
  BY <1>4, <1>6, <1>7, <1>8 DEF B!Own

\* The continuation is published.
LEMMA Publishes ==
  ASSUME part = "relay", RelayInv, UNCHANGED part, B!Publish
  PROVE  RelayInv'
<1>1. /\ B!TypeOK /\ BufferHides /\ KeepsRejection /\ RelayGoesOn
      /\ AcceptanceKnown /\ AnswerEnds
  BY DEF RelayInv
<1>2. /\ UNCHANGED <<stage, outbox, after, dispatch, account, capture, fallback,
                     cause, accepted, relayed, open, over>>
      /\ cached' = B!Now
  BY DEF B!Publish, B!sending
<1>3. UNCHANGED <<Going, Pending, B!Now>>
  BY <1>2 DEF Going, Pending, B!Now
<1>4. B!TypeOK'
  BY <1>1, <1>2 DEF B!TypeOK, B!Now
<1>5. BufferHides' /\ KeepsRejection'
  BY <1>1, <1>2 DEF BufferHides, KeepsRejection
<1>6. RelayGoesOn' /\ AcceptanceKnown' /\ AnswerEnds'
  BY <1>1, <1>2, <1>3 DEF RelayGoesOn, AcceptanceKnown, AnswerEnds
<1> QED
  BY <1>4, <1>5, <1>6 DEF RelayInv

\* A capture with one flag more.
LEMMA DeliveredIs ==
  ASSUME B!TypeOK, NEW b \in BOOLEAN, NEW d,
         \/ d = [capture EXCEPT !.delivered = b]
         \/ d = [capture EXCEPT !.failed = b]
  PROVE  /\ d \in B!Captures /\ d.buffer = capture.buffer /\ d.held = capture.held
         /\ d.created = capture.created
<1>1. capture \in B!Captures
  BY RelayParts
<1> QED
  BY <1>1 DEF B!Captures

\* A frame is queued.
LEMMA QueuesOne ==
  ASSUME part = "relay", RelayInv, UNCHANGED part, B!Queue
  PROVE  RelayInv'
<1>1. /\ B!TypeOK /\ BufferHides /\ KeepsRejection /\ RelayGoesOn
      /\ AcceptanceKnown /\ AnswerEnds
  BY DEF RelayInv
<1>2. /\ UNCHANGED <<after, dispatch, account, fallback, cause, accepted, cached,
                     open, over>>
      /\ stage = "send"
      /\ relayed' = Append(relayed, Head(outbox))
      /\ outbox' = Tail(outbox)
      /\ stage' = IF Len(outbox) = 1 THEN after ELSE "send"
  BY DEF B!Queue
<1>3. /\ Len(outbox) > 0 /\ after \in {"pump", "settle", "over", "reject", "fatal"}
      /\ after \in B!Stages
      /\ outbox \in Seq(B!Frames) /\ relayed \in Seq(B!Frames)
      /\ Going = after /\ Pending = outbox
  BY <1>1, <1>2, RelayParts DEF RelayGoesOn, Going, Pending, B!Stages
<1>4. PICK b \in BOOLEAN : b <=> (capture.delivered \/ Head(outbox).attempt = B!Now)
  OBVIOUS
<1>5. capture' = [capture EXCEPT !.delivered = b]
  BY <1>4, Zenon DEF B!Queue
<1>6. /\ capture' \in B!Captures /\ capture'.buffer = capture.buffer
      /\ capture'.held = capture.held /\ capture'.created = capture.created
  BY <1>1, <1>5, DeliveredIs, Zenon
<1>7. PICK f \in B!Frames, t \in Seq(B!Frames) :
        /\ f = Head(outbox) /\ t = Tail(outbox) /\ f = outbox[1]
        /\ Len(outbox) # 1 => Len(t) > 0
        /\ Quiet(outbox) => Quiet(t) /\ f.kind \in QuietKinds
        /\ Closing(outbox) /\ Len(outbox) # 1 => Closing(t) /\ f.kind \in QuietKinds
        /\ Closing(outbox) /\ Len(outbox) = 1 => f.kind \in EndKinds
        /\ \A x : Of(outbox, x) => Of(t, x) /\ f.attempt \in x
        /\ NoError(outbox) => NoError(t) /\ f.kind # "error"
  BY <1>3, Shortened
<1>8. PICK s \in Seq(B!Frames) :
        /\ s = Append(relayed, f)
        /\ Quiet(relayed) /\ f.kind \in QuietKinds => Quiet(s)
        /\ \A x : Of(relayed, x) /\ f.attempt \in x => Of(s, x)
        /\ NoError(relayed) /\ f.kind # "error" => NoError(s)
  BY <1>3, Appended
<1>9. relayed' = s /\ outbox' = t
  BY <1>2, <1>7, <1>8
<1>10. /\ Going' = after
       /\ Pending' = IF Len(outbox) = 1 THEN <<>> ELSE t
  BY <1>2, <1>3, <1>9 DEF Going, Pending
<1>11. B!TypeOK'
  BY <1>1, <1>2, <1>3, <1>6, <1>9 DEF B!TypeOK, B!Stages
<1>12. stage' \notin {"context", "dispatch"}
  BY <1>2, <1>3
<1>13. BufferHides' /\ KeepsRejection'
  <2>1. capture.buffer = "off"
    BY <1>1, <1>2, RelayParts DEF BufferHides
  <2> QED
    BY <1>1, <1>2, <1>6, <1>12, <2>1 DEF BufferHides, KeepsRejection
<1>14. B!Now' = B!Now
  BY <1>2 DEF B!Now
<1>15. RelayGoesOn'
  <2>1. PICK n \in B!Attempt : Of(relayed, {0, n}) /\ Of(outbox, {0, n})
    BY <1>1, <1>3 DEF RelayGoesOn
  <2>2. Of(s, {0, n}) /\ Of(Pending', {0, n})
    BY <1>7, <1>8, <1>10, <2>1, NoFrames
  <2>3. \E x \in B!Attempt : Of(relayed', {0, x}) /\ Of(Pending', {0, x})
    BY <1>9, <2>2
  <2>4. ASSUME after \in {"pump", "settle"}
        PROVE  /\ Quiet(s) /\ Quiet(Pending') /\ Of(s, {B!Now}) /\ Of(Pending', {B!Now})
               /\ account \in Pool
    <3>1. /\ Quiet(relayed) /\ Quiet(outbox)
          /\ Of(relayed, {B!Now}) /\ Of(outbox, {B!Now}) /\ account \in Pool
      BY <1>1, <1>3, <2>4 DEF RelayGoesOn
    <3>2. Quiet(s) /\ Quiet(Pending')
      BY <1>7, <1>8, <1>10, <3>1, NoFrames
    <3>3. Of(s, {B!Now}) /\ Of(Pending', {B!Now})
      BY <1>7, <1>8, <1>10, <3>1, NoFrames
    <3> QED
      BY <3>1, <3>2, <3>3
  <2>5. Len(outbox) # 1 =>
          /\ after = "over" => Quiet(s) /\ Closing(t)
          /\ after \notin {"reject", "fatal"}
          /\ Len(t) > 0
    BY <1>1, <1>2, <1>7, <1>8 DEF RelayGoesOn
  <2>6. stage' = "send" => Len(outbox) # 1
    BY <1>2, <1>3
  <2>7. /\ stage' = "send" =>
             Len(outbox') > 0 /\ after' \in {"pump", "settle", "over", "reject", "fatal"}
        /\ Going' \in {"pump", "settle"} =>
             /\ Quiet(relayed') /\ Quiet(Pending')
             /\ Of(relayed', {B!Now'}) /\ Of(Pending', {B!Now'})
             /\ account' \in Pool
    BY <1>2, <1>3, <1>9, <1>10, <1>14, <2>4, <2>5, <2>6
  <2>8. /\ stage' = "send" /\ after' = "over" => Quiet(relayed') /\ Closing(outbox')
        /\ stage' = "send" => after' \notin {"reject", "fatal"}
    BY <1>2, <1>9, <2>5, <2>6
  <2> QED
    BY <2>3, <2>7, <2>8 DEF RelayGoesOn
<1>16. AcceptanceKnown'
  <2>1. accepted # {} => NoError(s) /\ NoError(Pending')
    BY <1>1, <1>3, <1>7, <1>8, <1>10, NoFrames DEF AcceptanceKnown
  <2> QED
    BY <1>1, <1>2, <1>3, <1>6, <1>9, <1>10, <1>12, <2>1 DEF AcceptanceKnown
<1>17. AnswerEnds'
  <2>1. /\ s \in Seq(B!Frames) /\ DOMAIN s = 1..(Len(relayed) + 1)
        /\ \A i \in DOMAIN relayed : s[i] = relayed[i] /\ i \in DOMAIN s
        /\ s[Len(relayed) + 1] = f /\ Len(relayed) + 1 \in DOMAIN s
        /\ DOMAIN relayed = 1..Len(relayed) /\ Len(relayed) \in Nat
    BY <1>3, <1>8
  <2>2. Quiet(relayed) \/ f.kind = "close"
    BY <1>1, <1>2, <1>3, <1>7 DEF RelayGoesOn
  <2>3. ASSUME NEW i \in DOMAIN s, NEW j \in DOMAIN s, i < j, s[i].kind \in EndKinds
        PROVE  s[j].kind = "close"
    <3>1. i \in DOMAIN relayed /\ s[i] = relayed[i]
      BY <2>1, <2>3
    <3>2. CASE j \in DOMAIN relayed
      BY <1>1, <2>1, <2>3, <3>1, <3>2 DEF AnswerEnds
    <3>3. CASE j \notin DOMAIN relayed
      <4>1. j = Len(relayed) + 1 /\ s[j] = f
        BY <2>1, <3>3
      <4>2. ~Quiet(relayed)
        BY <2>3, <3>1 DEF Quiet, QuietKinds, EndKinds, B!Terminals
      <4> QED
        BY <2>2, <4>1, <4>2
    <3> QED
      BY <3>2, <3>3
  <2>4. stage' = "over" => \E i \in DOMAIN s : s[i].kind \in EndKinds
    <3>1. SUFFICES ASSUME stage' = "over" PROVE f.kind \in EndKinds
      BY <2>1
    <3>2. Len(outbox) = 1 /\ after = "over"
      BY <1>2, <3>1
    <3> QED
      BY <1>1, <1>2, <1>7, <3>2 DEF RelayGoesOn
  <2>5. over # "answered"
    BY <1>1, <1>2 DEF AnswerEnds
  <2> QED
    BY <1>2, <1>9, <2>3, <2>4, <2>5 DEF AnswerEnds
<1> QED
  BY <1>11, <1>13, <1>15, <1>16, <1>17 DEF RelayInv

\* A frame that cannot be queued is lost, with those behind it.
LEMMA QueuesNone ==
  ASSUME part = "relay", RelayInv, UNCHANGED part, B!QueueFails
  PROVE  RelayInv'
<1>1. /\ B!TypeOK /\ BufferHides /\ KeepsRejection /\ RelayGoesOn
      /\ AcceptanceKnown /\ AnswerEnds
  BY DEF RelayInv
<1>2. /\ UNCHANGED <<after, dispatch, account, fallback, cause, accepted,
                     relayed, cached, open, over>>
      /\ stage = "send" /\ ~open /\ outbox' = <<>>
      /\ stage' \in {"fatal", after}
  BY DEF B!QueueFails, B!client
<1>3. /\ after \in {"pump", "settle", "over", "reject", "fatal"}
      /\ Going = after /\ Pending = outbox /\ <<>> \in Seq(B!Frames)
  BY <1>1, <1>2, NoFrames DEF RelayGoesOn, Going, Pending
<1>4. PICK b \in BOOLEAN : b <=> (capture.failed \/ Head(outbox).attempt = B!Now)
  OBVIOUS
<1>5. capture' = [capture EXCEPT !.failed = b]
  BY <1>4, Zenon DEF B!QueueFails
<1>6. /\ capture' \in B!Captures /\ capture'.buffer = capture.buffer
      /\ capture'.held = capture.held /\ capture'.created = capture.created
  BY <1>1, <1>5, DeliveredIs, Zenon
<1>7. /\ stage' \in {"pump", "settle", "over", "reject", "fatal"}
      /\ Going' \in {after, "fatal"} /\ Pending' = <<>>
  BY <1>2, <1>3 DEF Going, Pending
<1>8. B!TypeOK'
  BY <1>1, <1>2, <1>3, <1>6, <1>7 DEF B!TypeOK, B!Stages
<1>9. BufferHides' /\ KeepsRejection'
  <2>1. capture.buffer = "off"
    BY <1>1, <1>2, RelayParts DEF BufferHides
  <2> QED
    BY <1>1, <1>2, <1>6, <1>7, <2>1 DEF BufferHides, KeepsRejection
<1>10. B!Now' = B!Now
  BY <1>2 DEF B!Now
<1>11. RelayGoesOn'
  <2>1. \E x \in B!Attempt : Of(relayed', {0, x}) /\ Of(Pending', {0, x})
    BY <1>1, <1>2, <1>7, NoFrames DEF RelayGoesOn
  <2>2. Going' \in {"pump", "settle"} =>
          /\ Quiet(relayed') /\ Quiet(Pending')
          /\ Of(relayed', {B!Now'}) /\ Of(Pending', {B!Now'})
          /\ account' \in Pool
    BY <1>1, <1>2, <1>3, <1>7, <1>10, NoFrames DEF RelayGoesOn
  <2> QED
    BY <1>7, <2>1, <2>2 DEF RelayGoesOn
<1>12. AcceptanceKnown'
  BY <1>1, <1>2, <1>3, <1>6, <1>7, NoFrames DEF AcceptanceKnown
<1>13. AnswerEnds'
  BY <1>1, <1>2 DEF AnswerEnds
<1> QED
  BY <1>8, <1>9, <1>11, <1>12, <1>13 DEF RelayInv

\* The turn is over, cancelled, or nobody writes for it any more.
LEMMA TurnEnds ==
  ASSUME part = "relay", RelayInv, UNCHANGED part, B!End \/ B!Cancel \/ B!WriterStops
  PROVE  RelayInv'
<1>1. /\ B!TypeOK /\ BufferHides /\ KeepsRejection /\ RelayGoesOn
      /\ AcceptanceKnown /\ AnswerEnds
  BY DEF RelayInv
<1>2. /\ UNCHANGED <<outbox, after, dispatch, account, capture, fallback, cause,
                     accepted, relayed, cached>>
      /\ \/ UNCHANGED stage
         \/ stage' = "over" /\ over' = "cancelled"
  BY DEF B!End, B!Cancel, B!WriterStops, B!sending
<1>3. B!Now' = B!Now
  BY <1>2 DEF B!Now
<1>4. B!TypeOK' /\ AnswerEnds'
  <2>1. CASE B!End
    BY <1>1, <1>2, <2>1 DEF B!TypeOK, AnswerEnds, B!End, B!sending
  <2>2. CASE B!Cancel
    BY <1>1, <1>2, <2>2 DEF B!TypeOK, B!Stages, AnswerEnds, B!Cancel
  <2>3. CASE B!WriterStops
    BY <1>1, <1>2, <2>3 DEF B!TypeOK, AnswerEnds, B!WriterStops, B!sending
  <2> QED
    BY <2>1, <2>2, <2>3
<1>5. BufferHides' /\ KeepsRejection'
  BY <1>1, <1>2 DEF BufferHides, KeepsRejection
<1>6. CASE UNCHANGED stage
  <2>1. UNCHANGED <<Going, Pending>>
    BY <1>2, <1>6 DEF Going, Pending
  <2>2. RelayGoesOn' /\ AcceptanceKnown'
    BY <1>1, <1>2, <1>3, <1>6, <2>1 DEF RelayGoesOn, AcceptanceKnown
  <2> QED
    BY <1>4, <1>5, <2>2 DEF RelayInv
<1>7. CASE stage' = "over"
  <2>1. Going' = "over" /\ Pending' = <<>>
    BY <1>7 DEF Going, Pending
  <2>2. \E x \in B!Attempt : Of(relayed', {0, x}) /\ Of(Pending', {0, x})
    BY <1>1, <1>2, <2>1, NoFrames DEF RelayGoesOn
  <2>3. RelayGoesOn' /\ AcceptanceKnown'
    BY <1>1, <1>2, <1>7, <2>1, <2>2, NoFrames DEF RelayGoesOn, AcceptanceKnown
  <2> QED
    BY <1>4, <1>5, <2>3 DEF RelayInv
<1> QED
  BY <1>2, <1>6, <1>7

LEMMA RelaysStart == ProxyInit => RelayInv
<1> SUFFICES ASSUME ProxyInit PROVE RelayInv
  OBVIOUS
<1>1. B!Init
  BY DEF ProxyInit
<1>2. B!NewCapture(FALSE) \in B!Captures /\ B!NewCapture(FALSE).held = <<>>
      /\ B!NewCapture(FALSE).buffer = "off"
  BY NewCaptureIs
<1>3. B!TypeOK
  <2>1. /\ dispatch \in [attempts : 0..2, safe : BOOLEAN, retried : BOOLEAN,
                        accepted : BOOLEAN]
        /\ stage \in B!Stages /\ after \in B!Stages /\ capture \in B!Captures
    <3>1. /\ dispatch = [attempts |-> 0, safe |-> FALSE, retried |-> FALSE, accepted |-> FALSE]
          /\ stage = "context" /\ after = "over" /\ capture = B!NewCapture(FALSE)
      BY <1>1 DEF B!Init
    <3>2. dispatch \in [attempts : 0..2, safe : BOOLEAN, retried : BOOLEAN, accepted : BOOLEAN]
      BY <3>1
    <3> QED
      BY <1>2, <3>1, <3>2 DEF B!Stages
  <2>2. /\ account \in Pool \cup {NoAccount} /\ fallback = Nothing
        /\ outbox \in Seq(B!Frames) /\ relayed \in Seq(B!Frames)
    BY <1>1, NoFrames DEF B!Init
  <2>3. /\ cause \in {"none", "liveness", "broken"} /\ cached \in 0..2
        /\ accepted \subseteq B!Attempt /\ open \in BOOLEAN
        /\ over \in {"no", "answered", "fatal", "cancelled"}
    BY <1>1 DEF B!Init
  <2> QED
    BY <2>1, <2>2, <2>3 DEF B!TypeOK
<1>4. Going = "context" /\ Pending = <<>> /\ 1 \in B!Attempt
  BY <1>1 DEF B!Init, Going, Pending, B!Attempt
<1>5. BufferHides /\ KeepsRejection
  BY <1>1, <1>2, NoFrames DEF B!Init, BufferHides, KeepsRejection
<1>6. RelayGoesOn
  BY <1>1, <1>4, NoFrames DEF B!Init, RelayGoesOn
<1>7. AcceptanceKnown /\ AnswerEnds
  BY <1>1, <1>4 DEF B!Init, AcceptanceKnown, AnswerEnds
<1> QED
  BY <1>3, <1>5, <1>6, <1>7 DEF RelayInv

LEMMA RelaysAlone ==
  ASSUME [ProxyNext]_proxy, part' = "relay"
  PROVE  part = "relay" /\ UNCHANGED part /\ (B!Next \/ UNCHANGED relayVars)
BY DEF ProxyNext, proxy

\* Every step keeps the invariant.
LEMMA RelaysStay == RelayInv /\ [ProxyNext]_proxy => RelayInv'
<1> SUFFICES ASSUME RelayInv, [ProxyNext]_proxy, part' = "relay"
             PROVE  RelayInv'
  BY DEF RelayInv
<1>1. part = "relay" /\ UNCHANGED part /\ (B!Next \/ UNCHANGED relayVars)
  BY RelaysAlone
<1>2. CASE UNCHANGED relayVars
  <2>1. /\ UNCHANGED <<stage, dispatch, account, capture, fallback, outbox, after,
                       cause, relayed, cached, accepted, open, over>>
    BY <1>2 DEF relayVars
  <2>2. UNCHANGED <<Going, Pending, B!Now>>
    BY <2>1 DEF Going, Pending, B!Now
  <2> QED
    BY <1>1, <2>1, <2>2
       DEF RelayInv, B!TypeOK, BufferHides, KeepsRejection, RelayGoesOn,
           AcceptanceKnown, AnswerEnds
<1>3. CASE B!Next
  BY <1>1, <1>3, EndsBeforeAnswer, AnswerIsOne, RejectionIsOne, RejectedIsOne,
     RetryIsHidden, EventIsOne, RelayReleases, SettlesOnce, Publishes, QueuesOne,
     QueuesNone, TurnEnds
     DEF B!Next
<1> QED
  BY <1>1, <1>2, <1>3

\* The client of a bridged turn sees the events of one attempt and one end, and
\* no invitation to try again once the turn was accepted, for any number of
\* events, in whatever order frames are held, retried, lost and cancelled.
THEOREM OneAnswerAlways == ProxySpec => []OneAnswer
<1>1. RelayInv => OneAnswer
  <2> SUFFICES ASSUME part = "relay", RelayInv
               PROVE  B!TypeOK /\ B!OneAnswer /\ B!AcceptedNotRetryable
    BY DEF OneAnswer
  <2>1. B!TypeOK /\ RelayGoesOn /\ AcceptanceKnown /\ AnswerEnds
    BY DEF RelayInv
  <2>2. \A i \in DOMAIN relayed : B!Ends(i) <=> relayed[i].kind \in EndKinds
    BY DEF B!Ends, B!Own, EndKinds, B!Terminals
  <2>3. ASSUME NEW i \in DOMAIN relayed, NEW j \in DOMAIN relayed
        PROVE  {relayed[i].attempt, relayed[j].attempt} # B!Attempt
    <3>1. PICK n \in B!Attempt : Of(relayed, {0, n})
      BY <2>1 DEF RelayGoesOn
    <3>2. relayed[i].attempt \in {0, n} /\ relayed[j].attempt \in {0, n}
      BY <3>1 DEF Of
    <3>3. 1 \in B!Attempt /\ 2 \in B!Attempt /\ n \in {1, 2}
      BY DEF B!Attempt
    <3> QED
      BY <3>2, <3>3
  <2>4. B!OneAnswer
    BY <2>1, <2>2, <2>3 DEF B!OneAnswer, AnswerEnds
  <2>5. B!AcceptedNotRetryable
    BY <2>1 DEF B!AcceptedNotRetryable, B!Kinds, AcceptanceKnown, NoError
  <2> QED
    BY <2>1, <2>4, <2>5
<1> QED
  BY <1>1, RelaysStart, RelaysStay, PTL DEF ProxySpec

-----------------------------------------------------------------------------
(* The router alone, for every set of accounts, pool, threshold and account *)
(* order.  The one invariant its proofs need is the type invariant; that one *)
(* account has both roles is a case of its own.                             *)

\* Updating one field of one account keeps the type of the runtime.
LEMMA SetKeepsType ==
  ASSUME R!RouterTypeOK, NEW a \in Accounts,
         NEW field \in (DOMAIN R!FreshRuntime) \ {"usage"}, NEW b \in BOOLEAN,
         R!Set(a, field, b)
  PROVE  R!RouterTypeOK'
<1>1. [runtime[a] EXCEPT ![field] = b] \in R!Runtime
  BY DEF R!RouterTypeOK, R!Runtime, R!FreshRuntime
<1>2. runtime' = [runtime EXCEPT ![a] = [runtime[a] EXCEPT ![field] = b]]
  BY DEF R!Set, R!RouterTypeOK
<1> QED
  BY <1>1, <1>2 DEF R!RouterTypeOK, R!Set

\* Every operation of the router keeps the type invariant.
LEMMA RouterStepKeepsType ==
  ASSUME R!RouterTypeOK, R!RouterNext
  PROVE  R!RouterTypeOK'
<1> DEFINE Flag == (DOMAIN R!FreshRuntime) \ {"usage"}
<1>1. \A f \in {"needsLogin", "bearerUnusable", "loginInProgress", "quotaUntil",
                "avoided", "capacity", "surplus", "credit"} : f \in Flag
  BY DEF R!FreshRuntime
<1>2. ASSUME NEW a \in Accounts
      PROVE  /\ runtime[a] \in R!Runtime
             /\ \A f \in Flag : runtime[a][f] \in BOOLEAN
  BY DEF R!RouterTypeOK, R!Runtime, R!FreshRuntime
<1>3. ASSUME NEW a \in Accounts, R!AuthFailureMark(a)
      PROVE  R!RouterTypeOK'
  BY <1>3 DEF R!AuthFailureMark, R!RouterTypeOK, R!Runtime
<1>4. ASSUME NEW a \in Accounts, NEW ok \in BOOLEAN, R!FinishLogin(a, ok)
      PROVE  R!RouterTypeOK'
  <2>1. CASE ok
    <3>1. [runtime[a] EXCEPT !.loginInProgress = FALSE, !.needsLogin = FALSE,
                             !.avoided = FALSE] \in R!Runtime
      BY DEF R!RouterTypeOK, R!Runtime
    <3>2. runtime' =
            [runtime EXCEPT ![a] =
               [runtime[a] EXCEPT !.loginInProgress = FALSE,
                                  !.needsLogin = FALSE, !.avoided = FALSE]]
      BY <1>4, <2>1 DEF R!FinishLogin, R!RouterTypeOK
    <3> QED
      BY <1>4, <3>1, <3>2 DEF R!FinishLogin, R!RouterTypeOK
  <2>2. CASE ~ok
    BY <1>4, <2>2 DEF R!FinishLogin, R!RouterTypeOK, R!Runtime
  <2> QED
    BY <2>1, <2>2
<1>5. ASSUME NEW a \in Accounts, NEW n \in 0..FullUsage,
             NEW s \in BOOLEAN, NEW c \in BOOLEAN, R!ObserveUsage(a, n, s, c)
      PROVE  R!RouterTypeOK'
  <2>1. [runtime[a] EXCEPT !.usage = n, !.surplus = s, !.credit = c] \in R!Runtime
    BY DEF R!RouterTypeOK, R!Runtime
  <2>2. runtime' =
          [runtime EXCEPT ![a] =
             [runtime[a] EXCEPT !.usage = n, !.surplus = s, !.credit = c]]
    BY <1>5 DEF R!ObserveUsage, R!RouterTypeOK
  <2> QED
    BY <1>5, <2>1, <2>2 DEF R!ObserveUsage, R!RouterTypeOK
<1>6. ASSUME NEW a \in Accounts, NEW f \in Flag, NEW b \in BOOLEAN, R!Set(a, f, b)
      PROVE  R!RouterTypeOK'
  BY <1>6, SetKeepsType
<1>7. CASE R!SetAccountOrder
  <2>1. PICK o \in Orders : preferred' = o[1] /\ preserved' = o[2]
    BY <1>7 DEF R!SetAccountOrder
  <2>2. o[1] \in Members \cup {NoAccount} /\ o[2] \in Members \cup {NoAccount}
    BY SelectionAssumption
  <2> QED
    BY <1>7, <2>1, <2>2 DEF R!SetAccountOrder, R!RouterTypeOK
<1>10. CASE R!SetPreferred
  <2>1. PICK o \in Orders : preferred' = o[1]
    BY <1>10 DEF R!SetPreferred
  <2>2. o[1] \in Members \cup {NoAccount}
    BY SelectionAssumption
  <2> QED
    BY <1>10, <2>1, <2>2 DEF R!SetPreferred, R!RouterTypeOK
<1>11. CASE R!SetPreserved
  <2>1. PICK o \in Orders : preserved' = o[2]
    BY <1>11 DEF R!SetPreserved
  <2>2. o[2] \in Members \cup {NoAccount}
    BY SelectionAssumption
  <2> QED
    BY <1>11, <2>1, <2>2 DEF R!SetPreserved, R!RouterTypeOK
<1>8. ASSUME NEW a \in Accounts, NEW trips \in BOOLEAN, R!CapacityFailure(a, trips)
      PROVE  R!RouterTypeOK'
  <2> DEFINE tripped == runtime[a].capacity \/ trips
  <2>1. tripped \in BOOLEAN
    OBVIOUS
  <2>2. R!Set(a, "capacity", tripped)
    BY <1>8 DEF R!CapacityFailure
  <2> HIDE DEF tripped
  <2> QED
    BY <2>1, <2>2, <1>1, <1>6
<1>9. ASSUME NEW a \in Accounts,
             \/ R!AuthRetryElapsed(a) \/ R!BearerRejected(a) \/ R!BearerReplaced(a)
             \/ R!BeginLogin(a) \/ R!QuotaFailure(a) \/ R!QuotaCleared(a)
             \/ R!SoftFailure(a) \/ R!AvoidElapsed(a) \/ R!CapacityElapsed(a)
      PROVE  R!RouterTypeOK'
  BY <1>1, <1>6, <1>9 DEF R!AuthRetryElapsed, R!BearerRejected, R!BearerReplaced,
     R!BeginLogin, R!QuotaFailure, R!QuotaCleared, R!SoftFailure, R!AvoidElapsed,
     R!CapacityElapsed
<1> QED
  BY <1>3, <1>4, <1>5, <1>7, <1>8, <1>9, <1>10, <1>11 DEF R!RouterNext, R!EditRoles

\* The router starts well typed.
LEMMA RouterStartsTyped == R!RouterInit => R!RouterTypeOK
<1>1. \A o \in Orders : o[1] \in Members \cup {NoAccount} /\ o[2] \in Members \cup {NoAccount}
  BY SelectionAssumption
<1> QED
  BY <1>1, SelectionAssumption DEF R!RouterInit, R!RouterTypeOK, R!FreshRuntime, R!Runtime

-----------------------------------------------------------------------------

\* A soft preference narrows the choice and never empties it.
LEMMA PreferNarrows ==
  ASSUME NEW X, NEW good
  PROVE  /\ R!Prefer(X, good) \subseteq X
         /\ X # {} => R!Prefer(X, good) # {}
         /\ X \cap good \subseteq R!Prefer(X, good)
         /\ \A x \in R!Prefer(X, good) : x \notin good => X \cap good = {}
BY DEF R!Prefer

\* What is chosen was eligible.
LEMMA ChoicesAreEligible ==
  ASSUME NEW excluded, NEW hint
  PROVE  /\ R!FreshChoices(excluded, hint) \subseteq R!Candidates(excluded)
         /\ R!Candidates(excluded) \subseteq R!Eligible(excluded)
BY PreferNarrows DEF R!FreshChoices, R!Candidates

\* The preferred account survives the soft preferences unless it is held back
\* itself, or in capacity backoff when another candidate is not.
LEMMA PreferredIsCandidate ==
  ASSUME R!RouterTypeOK, NEW excluded, preferred \in R!Eligible(excluded),
         ~R!Held(preferred),
         NEW a \in R!Candidates(excluded),
         ~runtime[preferred].capacity \/ runtime[a].capacity
  PROVE  preferred \in R!Candidates(excluded)
<1> DEFINE unheld == R!Prefer(R!Eligible(excluded), R!NotHeld)
<1>1. preferred \in unheld
  <2>1. preferred \in R!NotHeld
    BY DEF R!Eligible, R!NotHeld
  <2> QED
    BY <2>1, PreferNarrows
<1>2. a \in unheld
  BY PreferNarrows DEF R!Candidates
<1>3. unheld \subseteq Members
  BY PreferNarrows DEF R!Eligible
<1>4. CASE ~runtime[preferred].capacity
  BY <1>1, <1>3, <1>4, PreferNarrows DEF R!Candidates, R!Calm
<1>5. CASE runtime[preferred].capacity
  <2>1. unheld \cap R!Calm = {}
    BY <1>5, PreferNarrows DEF R!Candidates, R!Calm
  <2> QED
    BY <1>1, <2>1 DEF R!Candidates, R!Prefer
<1> QED
  BY <1>4, <1>5

\* When the preferred account is a candidate and below the switch threshold,
\* nothing else is chosen.
LEMMA PreferredIsChosen ==
  ASSUME NEW excluded, NEW hint, preferred \in R!Candidates(excluded),
         preferred \in Members, R!BelowSwitchAt(preferred)
  PROVE  R!FreshChoices(excluded, hint) = {preferred}
BY DEF R!FreshChoices, R!Roomy, R!TakesNewSessions

\* Validation accepts whatever selection returns, unless the account that the
\* selection holds back is the preferred one.
LEMMA SelectionIsValidated ==
  ASSUME R!RouterTypeOK
  PROVE  R!SelectedIsValid
<1> SUFFICES ASSUME NEW excluded \in R!AccountOrNone, NEW hint \in R!AccountOrNone,
                    NEW a \in R!FreshChoices(excluded, hint)
             PROVE  /\ ~R!RuntimeStale(a, FALSE)
                    /\ ~R!PreservedSuperseded(a, excluded)
                    /\ R!PreferredSuperseded(a, excluded) =>
                         R!HeldAndPreferred /\ a # preferred
  BY DEF R!SelectedIsValid, R!OrderStale
<1>1. a \in R!Candidates(excluded) /\ a \in R!Eligible(excluded)
  BY ChoicesAreEligible
<1>2. ~R!RuntimeStale(a, FALSE)
  BY <1>1 DEF R!Eligible, R!RuntimeStale
<1>3. ~R!PreservedSuperseded(a, excluded)
  <2>1. SUFFICES ASSUME a = preserved, R!Held(a), NEW b \in Members \ {a, excluded},
                        ~R!DispatchBlocked(b, FALSE)
                 PROVE  FALSE
    BY DEF R!PreservedSuperseded
  <2>2. b \in R!Eligible(excluded) \cap R!NotHeld
    BY <2>1 DEF R!Eligible, R!NotHeld, R!Held
  <2>3. a \notin R!NotHeld
    BY <2>1 DEF R!NotHeld
  <2>4. a \in R!Prefer(R!Eligible(excluded), R!NotHeld)
    BY <1>1, PreferNarrows DEF R!Candidates
  <2> QED
    BY <2>2, <2>3, <2>4 DEF R!Prefer
<1>4. R!PreferredSuperseded(a, excluded) => R!HeldAndPreferred /\ a # preferred
  <2>0. preferred \in Members => preferred # NoAccount
    BY SelectionAssumption
  <2>1. SUFFICES ASSUME preferred \in Members \ {a, excluded},
                        ~R!Held(preferred),
                        ~R!DispatchBlocked(preferred, FALSE),
                        ~runtime[preferred].capacity \/ runtime[a].capacity,
                        R!BelowSwitchAt(preferred)
                 PROVE  FALSE
    BY <2>0 DEF R!PreferredSuperseded, R!HeldAndPreferred, R!Held
  <2>2. preferred \in R!Eligible(excluded)
    BY <2>1 DEF R!Eligible
  <2>3. preferred \in R!Candidates(excluded)
    BY <1>1, <2>1, <2>2, PreferredIsCandidate
  <2> QED
    BY <2>1, <2>3, PreferredIsChosen
<1> QED
  BY <1>2, <1>3, <1>4

\* A step of another part leaves the router alone.
LEMMA RouterAlone ==
  ASSUME [ProxyNext]_proxy, part' = "router"
  PROVE  part = "router" /\ [R!RouterNext]_(R!routerVars)
BY DEF ProxyNext, proxy, routerVars, R!routerVars

\* The state of the router has its type.
LEMMA RouterTyped == ProxySpec => [](part = "router" => R!RouterTypeOK)
<1> DEFINE Inv == part = "router" => R!RouterTypeOK
<1>1. ProxyInit => Inv
  BY RouterStartsTyped DEF ProxyInit
<1>2. Inv /\ [ProxyNext]_proxy => Inv'
  <2> SUFFICES ASSUME Inv, [ProxyNext]_proxy, part' = "router"
               PROVE  R!RouterTypeOK'
    OBVIOUS
  <2>1. R!RouterTypeOK /\ [R!RouterNext]_(R!routerVars)
    BY RouterAlone
  <2>2. CASE R!RouterNext
    BY <2>1, <2>2, RouterStepKeepsType
  <2>3. CASE UNCHANGED R!routerVars
    BY <2>1, <2>3 DEF R!RouterTypeOK, R!routerVars
  <2> QED
    BY <2>1, <2>2, <2>3
<1> QED
  BY <1>1, <1>2, PTL DEF ProxySpec

\* Selection and validation agree in every state of the router, for every
\* excluded account and every hint, whatever roles were published and in
\* whatever order; but for the account that has both roles and is held back.
THEOREM SelectedIsValidAlways == ProxySpec => []SelectedIsValid
<1>1. (part = "router" => R!RouterTypeOK) => SelectedIsValid
  BY SelectionIsValidated DEF SelectedIsValid
<1> QED
  BY <1>1, RouterTyped, PTL

\* A pool with an eligible account always has a choice.
THEOREM PoolNeverEmptied ==
  ProxySpec => [](part = "router" => R!PreferencesKeepPool)
<1>1. R!PreferencesKeepPool
  <2> SUFFICES ASSUME NEW excluded \in R!AccountOrNone, NEW hint \in R!AccountOrNone,
                      R!Eligible(excluded) # {}
               PROVE  R!FreshChoices(excluded, hint) # {}
    BY DEF R!PreferencesKeepPool
  <2>1. R!Candidates(excluded) # {}
    BY PreferNarrows DEF R!Candidates
  <2> QED
    BY <2>1, PreferNarrows DEF R!FreshChoices
<1> QED
  BY <1>1, PTL

\* A thread reclaimed from the preserved account settles on the preferred one.
THEOREM ReclaimSettles ==
  ProxySpec => [](part = "router" => R!ReclaimedThreadsReturn)
<1>1. R!RouterTypeOK => R!ReclaimedThreadsReturn
  <2> SUFFICES ASSUME R!RouterTypeOK, NEW owner \in Accounts,
                      NEW excluded \in R!AccountOrNone, NEW hint \in R!AccountOrNone,
                      R!PreferredReclaims(owner, excluded)
               PROVE  /\ R!FreshChoices(excluded, hint) = {preferred}
                      /\ R!BoundEligible(preferred, TRUE, excluded)
    BY DEF R!ReclaimedThreadsReturn
  <2>1. preferred \in R!Eligible(excluded) /\ preferred \in Members
    BY DEF R!PreferredReclaims, R!Eligible
  <2>2. preferred # preserved
    BY DEF R!PreferredReclaims
  <2>3. preferred \in R!Candidates(excluded)
    <3>1. PICK a \in R!Candidates(excluded) : TRUE
      BY <2>1, PreferNarrows DEF R!Candidates
    <3> QED
      BY <2>1, <2>2, <3>1, PreferredIsCandidate DEF R!PreferredReclaims, R!Held
  <2>4. R!FreshChoices(excluded, hint) = {preferred}
    BY <2>1, <2>3, PreferredIsChosen DEF R!PreferredReclaims
  <2>5. R!BoundEligible(preferred, TRUE, excluded)
    BY <2>1, <2>2 DEF R!BoundEligible, R!PreferredReclaims, R!DispatchBlocked, R!Eligible
  <2> QED
    BY <2>4, <2>5
<1> QED
  BY <1>1, RouterTyped, PTL

-----------------------------------------------------------------------------
(* What the router believes of a quota.                                    *)

Shown == [used : Int, cycle : Int, reset : Int]
Shows == UNION {[X -> Shown] : X \in SUBSET Windows}
Kept == [used : Int, reset : Int]
Quotas ==
  [until : Int, resetAt : Int, evidence : Shows, windows : [Windows -> Kept],
   legacy : Int, avoid : Int]
Messages ==
  [kind : Q!Kinds \cup {"refused"}, sent : Int, form : Q!Forms, told : Shows,
   wait : Int, legacy : Int]

\* When the cycle that a piece of evidence is of ends.
EndOf(z, p) == (p.cycle + 1) * Period[z]

\* The evidence shows the end of its cycle, or a little more for the time it
\* was under way.
Timely(z, p) ==
  \/ p.reset = Q!Unseen
  \/ EndOf(z, p) <= p.reset /\ p.reset <= EndOf(z, p) + MaxDelay + 1

\* What an answer says was so when it left.
Truthful(m) ==
  /\ m.sent <= now /\ now <= m.sent + MaxDelay
  /\ \A z \in DOMAIN m.told :
       LET p == m.told[z]
       IN  CASE m.form = "used" -> p.reset = Q!Unseen
             [] m.form = "used after" ->
                  p.reset = 2 * Q!CeilSeconds(EndOf(z, p) - m.sent)
             [] OTHER -> p.reset = EndOf(z, p)

QuotaTyped ==
  /\ now \in Nat /\ slept \in Nat /\ slept <= now
  /\ used \in [Windows -> Int]
  /\ answers \subseteq Messages
  /\ quota \in Quotas

QuotaTimely ==
  /\ QuotaTyped
  /\ \A m \in answers : Truthful(m)
  /\ \A z \in DOMAIN quota.evidence : Timely(z, quota.evidence[z])
  /\ Q!LiftedAfterReset

QuotaInv == part = "quota" => QuotaTimely

\* The constants of this part.
LEMMA QuotaConstants ==
  /\ MaxDelay \in Nat /\ Default \in Nat /\ Longest \in Nat /\ Avoid \in Nat
  /\ RetryLimit \in Nat /\ Nap \in Nat /\ FirstNow \in Nat /\ Tolerance \in Int
  /\ MaxDelay < Tolerance
  /\ Period \in [Windows -> Nat]
  /\ Answers \subseteq [kind : Q!Kinds, shown : SUBSET Windows, form : Q!Forms,
                        wait : Nat \cup {Q!Unseen}]
<1>1. \A z \in Windows : Period[z] \in Nat
  BY QuotaAssumption DEF Q!QuotaWindowsAssumption
<1>2. Period = [x \in Windows |-> Period[x]]
  BY DEF Period
<1>3. Period \in [Windows -> Nat]
  BY <1>1, <1>2
<1> QED
  BY <1>3, QuotaAssumption DEF Q!QuotaWindowsAssumption

\* The greatest of some numbers that are three at most.
LEMMA Greatest ==
  ASSUME NEW x \in Int, NEW y \in Int, NEW z \in Int, NEW X \in SUBSET {x, y, z},
         X # {}
  PROVE  Q!Max(X) \in X /\ \A n \in X : Q!Max(X) >= n
<1>1. \E m \in X : \A n \in X : m >= n
  <2> SUFFICES ASSUME \A m \in X : \E n \in X : ~(m >= n)
               PROVE  FALSE
    OBVIOUS
  <2>1. PICK k \in X : TRUE
    OBVIOUS
  <2>2. PICK l \in X : ~(k >= l)
    OBVIOUS
  <2>3. PICK m \in X : ~(l >= m)
    OBVIOUS
  <2>4. PICK n \in X : ~(m >= n)
    OBVIOUS
  <2>5. k < l /\ l < m /\ m < n
    BY <2>2, <2>3, <2>4
  <2> QED
    BY <2>5
<1> QED
  BY <1>1 DEF Q!Max

LEMMA Greater ==
  ASSUME NEW x \in Int, NEW y \in Int
  PROVE  Q!Max({x, y}) \in {x, y} /\ Q!Max({x, y}) >= x /\ Q!Max({x, y}) >= y
<1> DEFINE X == {x, y}
<1>1. X \in SUBSET {x, y, y} /\ X # {}
  OBVIOUS
<1>2. Q!Max(X) \in X /\ \A n \in X : Q!Max(X) >= n
  <2> HIDE DEF X
  <2> QED
    BY <1>1, Greatest
<1> QED
  BY <1>2

LEMMA Least ==
  ASSUME NEW x \in Int, NEW y \in Int
  PROVE  Q!Min({x, y}) \in {x, y} /\ Q!Min({x, y}) <= x /\ Q!Min({x, y}) <= y
<1>1. \E m \in {x, y} : \A n \in {x, y} : m <= n
  OBVIOUS
<1>2. Q!Min({x, y}) = CHOOSE m \in {x, y} : \A n \in {x, y} : m <= n
  BY DEF Q!Min
<1> QED
  BY <1>1, <1>2

\* A second is two ticks.
LEMMA HalfSeconds ==
  ASSUME NEW n \in Int
  PROVE  /\ Q!Seconds(n) \in Int /\ Q!CeilSeconds(n) \in Int
         /\ 2 * Q!Seconds(n) \in {n, n - 1}
         /\ 2 * Q!CeilSeconds(n) \in {n, n + 1}
         /\ n >= 0 => Q!Seconds(n) >= 0
         /\ \A k \in Nat : /\ Q!Seconds(n + 2 * k) = Q!Seconds(n) + k
                           /\ Q!Seconds(n) <= Q!Seconds(n + k)
BY DEF Q!Seconds, Q!CeilSeconds

-----------------------------------------------------------------------------
(* How long a client is told to wait.                                      *)

\* What the usage of the windows that count says of the account.
LEMMA UsageIs ==
  ASSUME NEW a \in Quotas, NEW t \in Int
  PROVE  /\ Q!Live(a, t) \subseteq Windows /\ Q!UsageAt(a, t) \in Int
         /\ Q!UsageAt(a, t) >= 1
              <=> \/ a.legacy >= 1
                  \/ \E z \in Q!Live(a, t) : a.windows[z].used >= 1
<1> DEFINE numbers == {a.legacy} \cup {a.windows[z].used : z \in Q!Live(a, t)}
<1>1. Q!Live(a, t) \subseteq Windows
  BY DEF Q!Live
<1>2. /\ a.legacy \in Int /\ a.windows[ShortWindow].used \in Int
      /\ a.windows[LongWindow].used \in Int
  BY DEF Quotas, Kept, Windows
<1>3. /\ numbers \subseteq {a.legacy, a.windows[ShortWindow].used, a.windows[LongWindow].used}
      /\ numbers # {}
  BY <1>1 DEF Windows
<1>4. Q!UsageAt(a, t) = Q!Max(numbers)
  BY DEF Q!UsageAt
<1>5. Q!Max(numbers) \in numbers /\ \A n \in numbers : Q!Max(numbers) >= n
  BY <1>2, <1>3, Greatest
<1>6. \A n \in numbers : n \in Int
  BY <1>2, <1>3
<1>7. Q!Max(numbers) >= 1 <=> \E n \in numbers : n >= 1
  <2> HIDE DEF numbers
  <2> QED
    BY <1>5, <1>6
<1>8. (\E n \in numbers : n >= 1)
         <=> \/ a.legacy >= 1
             \/ \E z \in Q!Live(a, t) : a.windows[z].used >= 1
  OBVIOUS
<1> QED
  BY <1>1, <1>4, <1>5, <1>6, <1>7, <1>8, Zenon
\* What reconciling an expired block leaves of the account.
LEMMA ReconciledIs ==
  ASSUME NEW a \in Quotas, NEW t \in Int, NEW i \in Int, i >= 0
  PROVE  LET b == Q!Reconciled(a, t, i)
         IN  /\ b \in Quotas
             /\ b.windows = a.windows /\ b.legacy = a.legacy /\ b.avoid = a.avoid
             /\ b.until \in {a.until, Q!Unseen}
             /\ b.evidence \in {a.evidence, Q!NoEvidence}
<1>1. Q!NoEvidence \in Shows
  <2>1. Q!NoEvidence \in [{} -> Shown]
    BY DEF Q!NoEvidence
  <2> QED
    BY <2>1 DEF Shows
<1> DEFINE b == [a EXCEPT !.until = Q!Unseen, !.resetAt = Q!Unseen,
                          !.evidence = Q!NoEvidence]
<1>2. Q!Unseen \in Int
  BY DEF Q!Unseen
<1>3. b \in Quotas
  BY <1>1, <1>2 DEF Quotas
<1>4. /\ b.windows = a.windows /\ b.legacy = a.legacy /\ b.avoid = a.avoid
      /\ b.until = Q!Unseen /\ b.evidence = Q!NoEvidence
  BY DEF Quotas
<1>5. Q!Reconciled(a, t, i) \in {a, b}
  BY DEF Q!Reconciled, Q!Lift
<1> QED
  BY <1>3, <1>4, <1>5

\* When an account whose usage is known is due back, its exhausted windows have
\* begun anew.
LEMMA DueIs ==
  ASSUME NEW a \in Quotas, NEW t \in Nat, NEW i \in Nat
  PROVE  /\ Q!RetryAt(a, t, i) \in Int
         /\ Q!UsageAt(a, t) >= 1 /\ Q!RetryAt(a, t, i) # Q!Unseen =>
              /\ ~(a.legacy >= 1)
              /\ \A z \in Q!Live(a, t) : a.windows[z].used >= 1 =>
                   /\ a.windows[z].reset # Q!Unseen
                   /\ a.windows[z].reset <= Q!RetryAt(a, t, i)
<1> DEFINE deadline == IF Q!QuotaBlocked(a, t, i) THEN a.until ELSE a.avoid
           due == IF deadline = Q!Unseen THEN Q!Unseen
                  ELSE Q!Seconds(t) + Q!Seconds(Q!Max({deadline - i, 0}))
           exhausted == {z \in Q!Live(a, t) : a.windows[z].used >= 1}
           resets == {a.windows[z].reset : z \in exhausted}
<1>1. /\ deadline \in Int /\ a.legacy \in Int
      /\ a.windows[ShortWindow] \in Kept /\ a.windows[LongWindow] \in Kept
  BY DEF Quotas, Windows
<1> HIDE DEF deadline
<1>2. due \in Int
  <2>1. deadline - i \in Int /\ 0 \in Int
    BY <1>1
  <2>2. Q!Max({deadline - i, 0}) \in {deadline - i, 0}
    BY <2>1, Greater, Zenon
  <2>3. Q!Seconds(Q!Max({deadline - i, 0})) \in Int /\ Q!Seconds(t) \in Int
    <3>1. Q!Max({deadline - i, 0}) \in Int
      BY <2>1, <2>2
    <3> QED
      BY <3>1, HalfSeconds
  <2> QED
    BY <2>3 DEF Q!Unseen
<1>3. CASE ~(Q!UsageAt(a, t) >= 1)
  <2>1. Q!UsageAt(a, t) < 1
    BY <1>3, UsageIs
  <2>2. Q!RetryAt(a, t, i) = due
    BY <2>1, Zenon DEF Q!RetryAt, deadline
  <2> QED
    BY <1>2, <1>3, <2>2
<1>4. CASE Q!UsageAt(a, t) >= 1 /\ Q!RetryAt(a, t, i) = Q!Unseen
  BY <1>4 DEF Q!Unseen
<1>5. CASE Q!UsageAt(a, t) >= 1 /\ Q!RetryAt(a, t, i) # Q!Unseen
  <2>1. ~(a.legacy >= 1) /\ Q!Unseen \notin resets
        /\ Q!RetryAt(a, t, i) = Q!Max(resets \cup {due})
    <3>1. ~(Q!UsageAt(a, t) < 1)
      BY <1>5, UsageIs
    <3> QED
      BY <1>5, <3>1, Zenon DEF Q!RetryAt, deadline
  <2>2. resets \subseteq {a.windows[ShortWindow].reset, a.windows[LongWindow].reset}
    <3>1. Q!Live(a, t) \subseteq {ShortWindow, LongWindow}
      BY UsageIs DEF Windows
    <3> QED
      BY <3>1
  <2>3. /\ a.windows[ShortWindow].reset \in Int /\ a.windows[LongWindow].reset \in Int
    BY <1>1 DEF Kept
  <2> HIDE DEF due
  <2> DEFINE dates == resets \cup {due}
  <2>4. /\ dates \in SUBSET {a.windows[ShortWindow].reset, a.windows[LongWindow].reset, due}
        /\ dates # {}
    BY <2>2
  <2>5. Q!Max(dates) \in dates /\ \A n \in dates : Q!Max(dates) >= n
    <3> HIDE DEF dates
    <3> QED
      BY <1>2, <2>3, <2>4, Greatest
  <2>6. Q!RetryAt(a, t, i) \in Int
    BY <1>2, <2>1, <2>3, <2>4, <2>5
  <2>7. ASSUME NEW z \in Q!Live(a, t), a.windows[z].used >= 1
         PROVE  /\ a.windows[z].reset # Q!Unseen
                /\ a.windows[z].reset <= Q!RetryAt(a, t, i)
    <3>1. a.windows[z].reset \in resets /\ a.windows[z].reset \in dates
      BY <2>7
    <3>2. Q!Max(dates) >= a.windows[z].reset
      BY <2>5, <3>1
    <3>3. a.windows[z].reset \in Int
      BY <2>3, UsageIs DEF Windows
    <3> QED
      BY <2>1, <2>6, <3>1, <3>2, <3>3
  <2> QED
    BY <2>1, <2>6, <2>7
<1> QED
  BY <1>3, <1>4, <1>5

\* The wait that is told covers what keeps the account from being used.
LEMMA WaitIs ==
  ASSUME NEW a \in Quotas, NEW t \in Nat, NEW i \in Nat,
         Q!RetryAfter(a, t, i) # Q!Unseen
  PROVE  LET k == Q!RetryAfter(a, t, i)
         IN  /\ k \in Nat /\ Q!RetryAt(a, t, i) # Q!Unseen
             /\ a.until <= i + 2 * k /\ a.avoid <= i + 2 * k
             /\ Q!RetryAt(a, t, i) \in Int =>
                  Q!RetryAt(a, t, i) <= Q!Seconds(t) + k
<1> DEFINE r == Q!RetryAt(a, t, i)
           gap == r - Q!Seconds(t)
           rest == Q!Max({gap, 1})
           ticks == Q!Max({2 * rest, a.until - i, a.avoid - i})
<1>1. r # Q!Unseen /\ Q!RetryAfter(a, t, i) = Q!CeilSeconds(ticks)
  BY Zenon DEF Q!RetryAfter, Q!Wait
<1>2. a.until \in Int /\ a.avoid \in Int
  BY DEF Quotas
<1>3. r \in Int
  BY DueIs
<1>4. gap \in Int /\ 1 \in Int
  BY <1>3, HalfSeconds
<1> HIDE DEF r
<1>5. rest \in Nat /\ rest >= gap /\ rest >= 1
  <2>1. rest \in {gap, 1} /\ rest >= gap /\ rest >= 1
    BY <1>4, Greater, Zenon
  <2> QED
    BY <1>4, <2>1
<1> HIDE DEF rest
<1> DEFINE X == {2 * rest, a.until - i, a.avoid - i}
<1>6. ticks \in Int /\ ticks >= 2 * rest /\ ticks >= a.until - i /\ ticks >= a.avoid - i
  <2>1. 2 * rest \in Int /\ a.until - i \in Int /\ a.avoid - i \in Int
    BY <1>2, <1>5
  <2>2. X \in SUBSET {2 * rest, a.until - i, a.avoid - i} /\ X # {}
    OBVIOUS
  <2>3. Q!Max(X) \in X /\ \A n \in X : Q!Max(X) >= n
    <3> HIDE DEF X
    <3> QED
      BY <2>1, <2>2, Greatest
  <2> QED
    BY <2>1, <2>3
<1> HIDE DEF ticks
<1>7. PICK k \in Int : k = Q!RetryAfter(a, t, i) /\ 2 * k \in {ticks, ticks + 1}
  BY <1>1, <1>6, HalfSeconds
<1>8. k \in Nat /\ a.until <= i + 2 * k /\ a.avoid <= i + 2 * k
  BY <1>2, <1>5, <1>6, <1>7
<1>9. k >= gap /\ (Q!Seconds(t) \in Int)
  <2>1. k >= gap
    <3> HIDE DEF gap
    <3> QED
      BY <1>4, <1>5, <1>6, <1>7
  <2> QED
    BY <2>1, HalfSeconds
<1>10. r <= Q!Seconds(t) + k
  BY <1>3, <1>7, <1>9
<1> QED
  BY <1>1, <1>7, <1>8, <1>10 DEF r

\* A client that waits as long as it is told finds the account ready.
LEMMA WaitsEnough ==
  ASSUME QuotaTyped
  PROVE  Q!RetryIsEnough
<1> DEFINE i == Q!Instant
           a == Q!Reconciled(quota, now, i)
           k == Q!RetryAfter(a, now, i)
           t2 == now + 2 * k
           i2 == i + 2 * k
           b == Q!Reconciled(a, t2, i2)
<1> SUFFICES ASSUME k # Q!Unseen
             PROVE  ~Q!Blocked(b, t2, i2)
  BY Zenon DEF Q!RetryIsEnough
<1>1. i \in Nat /\ now \in Nat
  BY DEF QuotaTyped, Q!Instant
<1> HIDE DEF i
<1>2. a \in Quotas
  BY <1>1, ReconciledIs DEF QuotaTyped
<1> HIDE DEF a
<1>3. /\ k \in Nat /\ Q!RetryAt(a, now, i) # Q!Unseen
      /\ a.until <= i2 /\ a.avoid <= i2
      /\ Q!RetryAt(a, now, i) \in Int
      /\ Q!RetryAt(a, now, i) <= Q!Seconds(now) + k
  BY <1>1, <1>2, WaitIs, DueIs
<1> HIDE DEF k
<1>4. t2 \in Nat /\ i2 \in Nat /\ t2 >= now
  BY <1>1, <1>3
<1>5. Q!Seconds(t2) = Q!Seconds(now) + k /\ Q!Seconds(now) \in Int
  BY <1>1, <1>3, HalfSeconds
<1> HIDE DEF t2, i2
<1>6. /\ b \in Quotas /\ b.windows = a.windows /\ b.legacy = a.legacy
      /\ b.avoid = a.avoid /\ b.until \in {a.until, Q!Unseen}
  BY <1>2, <1>4, ReconciledIs
<1> HIDE DEF b
<1>7. ~(b.until > i2) /\ ~(b.avoid > i2)
  <2>1. b.until \in Int /\ b.avoid \in Int
    BY <1>6 DEF Quotas
  <2> QED
    BY <1>3, <1>4, <1>6, <2>1 DEF Q!Unseen
<1>8. ~(Q!UsageAt(b, t2) >= 1)
  <2>1. ASSUME b.legacy >= 1
        PROVE  FALSE
    <3>1. Q!UsageAt(a, now) >= 1
      BY <1>1, <1>2, <1>6, <2>1, UsageIs
    <3> QED
      BY <1>1, <1>2, <1>3, <1>6, <2>1, <3>1, DueIs
  <2>2. ASSUME NEW z \in Q!Live(b, t2), b.windows[z].used >= 1
        PROVE  FALSE
    <3>1. z \in Windows /\ a.windows[z].reset \in Int
      BY <1>2, <1>4, <1>6, <2>2, UsageIs DEF Quotas, Kept
    <3>2. /\ a.windows[z].reset # Q!Unseen => a.windows[z].reset > Q!Seconds(t2)
          /\ z \in Q!Live(a, now)
      BY <1>3, <1>5, <1>6, <2>2, <3>1 DEF Q!Live
    <3>3. Q!UsageAt(a, now) >= 1
      BY <1>1, <1>2, <1>6, <2>2, <3>2, UsageIs
    <3>4. a.windows[z].reset # Q!Unseen /\ a.windows[z].reset <= Q!RetryAt(a, now, i)
      BY <1>1, <1>2, <1>3, <1>6, <2>2, <3>2, <3>3, DueIs
    <3> QED
      BY <1>3, <1>5, <3>1, <3>2, <3>4
  <2> QED
    BY <1>4, <1>6, <2>1, <2>2, UsageIs
<1> QED
  BY <1>7, <1>8 DEF Q!Blocked, Q!QuotaBlocked, Q!Avoided

-----------------------------------------------------------------------------
(* What an answer shows, and what the router makes of it.                  *)

\* The number of the cycle, and when it ends.
LEMMA CycleIs ==
  ASSUME NEW z \in Windows, NEW t \in Nat
  PROVE  Q!Cycle(z, t) \in Int /\ Period[z] \in Nat
<1>1. Period[z] \in Nat /\ Period[z] > 0
  <2>1. Period[z] \in Nat /\ Period[z] > 2 * Tolerance
    BY QuotaAssumption DEF Q!QuotaWindowsAssumption
  <2> QED
    BY <2>1, QuotaConstants
<1>2. \A n \in Nat, k \in Nat \ {0} : n \div k \in Int
  OBVIOUS
<1> QED
  BY <1>1, <1>2 DEF Q!Cycle

LEMMA NoEvidenceShows == Q!NoEvidence \in Shows /\ DOMAIN Q!NoEvidence = {}
<1>1. Q!NoEvidence \in [{} -> Shown] /\ DOMAIN Q!NoEvidence = {}
  BY DEF Q!NoEvidence
<1> QED
  BY <1>1 DEF Shows

LEMMA ShowsAre ==
  ASSUME NEW e \in Shows
  PROVE  /\ DOMAIN e \subseteq Windows
         /\ \A z \in DOMAIN e : e[z] \in Shown
         /\ e = [z \in DOMAIN e |-> e[z]]
BY DEF Shows

\* What the evidence of an answer shows: the end of the cycle it left in.
LEMMA EvidenceIs ==
  ASSUME QuotaTyped, NEW m \in answers, Truthful(m)
  PROVE  LET e == Q!Evidence(m)
         IN  e \in Shows /\ \A z \in DOMAIN e : Timely(z, e[z])
<1> DEFINE e == Q!Evidence(m)
<1>1. m \in Messages /\ now \in Nat /\ m.told \in Shows /\ m.sent \in Int
  BY DEF QuotaTyped, Messages
<1>2. ASSUME NEW z \in DOMAIN m.told
      PROVE  z \in Windows /\ m.told[z] \in Shown /\ EndOf(z, m.told[z]) \in Int
  <2>1. z \in Windows /\ m.told[z] \in Shown
    BY <1>1, ShowsAre
  <2>2. m.told[z].cycle \in Int /\ Period[z] \in Int
    BY <2>1, QuotaConstants DEF Shown
  <2>3. \A x, y \in Int : (x + 1) * y \in Int
    OBVIOUS
  <2> QED
    BY <2>1, <2>2, <2>3 DEF EndOf
<1>3. CASE m.form = "used after"
  <2> DEFINE later(z) == [m.told[z] EXCEPT !.reset = now + @]
  <2>1. e = [z \in DOMAIN m.told |-> later(z)]
    BY <1>3 DEF Q!Evidence
  <2>2. ASSUME NEW z \in DOMAIN m.told
        PROVE  later(z) \in Shown /\ Timely(z, later(z))
    <3> DEFINE p == m.told[z]
    <3>1. p.reset = 2 * Q!CeilSeconds(EndOf(z, p) - m.sent)
          /\ m.sent <= now /\ now <= m.sent + MaxDelay
      BY <1>3, <2>2 DEF Truthful
    <3>2. p \in Shown /\ EndOf(z, p) \in Int
      BY <1>2, <2>2
    <3>3. p.reset \in {EndOf(z, p) - m.sent, EndOf(z, p) - m.sent + 1}
      <4>1. EndOf(z, p) - m.sent \in Int
        BY <1>1, <3>2
      <4> HIDE DEF p
      <4> QED
        BY <3>1, <4>1, HalfSeconds
    <3>4. later(z) \in Shown /\ later(z).cycle = p.cycle /\ later(z).reset = now + p.reset
      BY <1>1, <3>2 DEF Shown
    <3>5. EndOf(z, later(z)) = EndOf(z, p)
      BY <3>4 DEF EndOf
    <3> HIDE DEF later, p
    <3> QED
      BY <1>1, <3>1, <3>2, <3>3, <3>4, <3>5, QuotaConstants DEF Timely
  <2>3. e \in [DOMAIN m.told -> Shown] /\ DOMAIN m.told \in SUBSET Windows
    BY <1>1, <2>1, <2>2, ShowsAre
  <2> QED
    BY <2>1, <2>2, <2>3 DEF Shows
<1>4. CASE m.form # "used after"
  <2>1. e = m.told
    BY <1>4 DEF Q!Evidence
  <2>2. ASSUME NEW z \in DOMAIN m.told
        PROVE  Timely(z, m.told[z])
    <3>1. m.told[z].reset \in {Q!Unseen, EndOf(z, m.told[z])}
      BY <1>4, <2>2 DEF Truthful
    <3> QED
      BY <1>2, <2>2, <3>1, QuotaConstants DEF Timely
  <2> QED
    BY <1>1, <2>1, <2>2
<1> QED
  BY <1>3, <1>4

\* An observation keeps the account or lifts its block, never one that has to
\* stay: a late answer of the same cycle has not advanced enough.
LEMMA ObservationIs ==
  ASSUME QuotaTyped, NEW e \in Shows,
         \A z \in DOMAIN e : Timely(z, e[z]),
         \A z \in DOMAIN quota.evidence : Timely(z, quota.evidence[z])
  PROVE  /\ Q!Observed(quota, e) \in Quotas
         /\ Q!Observed(quota, e).evidence \in {quota.evidence, Q!NoEvidence}
         /\ ~Q!TooEarly(quota, e)
<1>1. quota \in Quotas /\ quota.evidence \in Shows
  BY DEF QuotaTyped, Quotas
<1>2. /\ Q!Lift(quota) \in Quotas
      /\ Q!Lift(quota).evidence = Q!NoEvidence
  <2>1. Q!Unseen \in Int
    BY DEF Q!Unseen
  <2> QED
    BY <1>1, <2>1, NoEvidenceShows DEF Q!Lift, Quotas
<1>3. ASSUME Q!Confirmed(quota.evidence, e),
             NEW z \in DOMAIN quota.evidence, e[z].cycle <= quota.evidence[z].cycle
      PROVE  FALSE
  <2> DEFINE p == quota.evidence[z]
             q == e[z]
  <2>1. /\ z \in DOMAIN e /\ p.reset # Q!Unseen /\ q.reset # Q!Unseen
        /\ q.reset - p.reset > Tolerance
    BY <1>3 DEF Q!Confirmed
  <2>2. p \in Shown /\ q \in Shown /\ z \in Windows
    BY <1>1, <1>3, <2>1, ShowsAre
  <2>3. /\ EndOf(z, p) <= p.reset /\ q.reset <= EndOf(z, q) + MaxDelay + 1
    BY <1>3, <2>1 DEF Timely
  <2>4. /\ q.cycle \in Int /\ p.cycle \in Int /\ q.cycle <= p.cycle
        /\ q.reset \in Int /\ p.reset \in Int /\ Period[z] \in Nat
    BY <1>3, <2>2, QuotaConstants DEF Shown
  <2>5. \A x, y \in Int, k \in Nat : x <= y => (x + 1) * k <= (y + 1) * k
    OBVIOUS
  <2>6. \A x \in Int, k \in Nat : (x + 1) * k \in Int
    OBVIOUS
  <2>7. EndOf(z, q) <= EndOf(z, p) /\ EndOf(z, q) \in Int /\ EndOf(z, p) \in Int
    BY <2>4, <2>5, <2>6 DEF EndOf
  <2> HIDE DEF p, q
  <2> QED
    BY <2>1, <2>3, <2>4, <2>7, QuotaConstants
<1> QED
  BY <1>1, <1>2, <1>3 DEF Q!Observed, Q!TooEarly

LEMMA BlockingIs ==
  ASSUME NEW e \in Shows
  PROVE  /\ Q!Blocking(e) \in Shows
         /\ \A z \in DOMAIN Q!Blocking(e) : z \in DOMAIN e /\ Q!Blocking(e)[z] = e[z]
<1> DEFINE exhausted == {z \in DOMAIN e : e[z].used >= 1}
           D == IF exhausted = {} THEN DOMAIN e ELSE exhausted
<1>1. Q!Blocking(e) = [z \in D |-> e[z]]
  BY DEF Q!Blocking
<1>2. D \subseteq DOMAIN e
  OBVIOUS
<1> HIDE DEF D
<1>3. Q!Blocking(e) \in [D -> Shown] /\ D \in SUBSET Windows
  BY <1>1, <1>2, ShowsAre
<1> QED
  BY <1>1, <1>2, <1>3 DEF Shows

LEMMA DelayIs ==
  ASSUME QuotaTyped, NEW e \in Shows, NEW n \in Int
  PROVE  Q!Delay(n, e) \in Int
<1> DEFINE remaining(z) == Q!CeilSeconds(Q!Max({e[z].reset - now, 0}))
           resets == {remaining(z) : z \in {x \in DOMAIN e : e[x].reset # Q!Unseen}}
           told == resets \cup ({n} \ {Q!Unseen})
<1>1. ASSUME NEW z \in DOMAIN e
      PROVE  remaining(z) \in Int
  <2>1. e[z].reset - now \in Int /\ 0 \in Int
    BY ShowsAre DEF Shown, QuotaTyped
  <2>2. Q!Max({e[z].reset - now, 0}) \in {e[z].reset - now, 0}
    BY <2>1, Greater, Zenon
  <2>3. Q!Max({e[z].reset - now, 0}) \in Int
    BY <2>1, <2>2
  <2> QED
    BY <2>3, HalfSeconds
<1>2. Q!Delay(n, e) = IF told = {} THEN Default
                      ELSE Q!Max({1, Q!Min({Q!Max(told), Longest})})
  BY Zenon DEF Q!Delay
<1>3. ASSUME told # {}
      PROVE  Q!Max(told) \in Int
  <2> DEFINE x == IF ShortWindow \in DOMAIN e THEN remaining(ShortWindow) ELSE 0
             y == IF LongWindow \in DOMAIN e THEN remaining(LongWindow) ELSE 0
  <2>1. x \in Int /\ y \in Int
    BY <1>1
  <2>2. told \in SUBSET {x, y, n}
    <3>1. DOMAIN e \subseteq {ShortWindow, LongWindow}
      BY ShowsAre DEF Windows
    <3> HIDE DEF remaining
    <3> QED
      BY <3>1
  <2>3. told # {}
    BY <1>3
  <2> HIDE DEF x, y, told
  <2>4. Q!Max(told) \in told
    BY <2>1, <2>2, <2>3, Greatest
  <2> QED
    BY <2>1, <2>2, <2>4
<1> HIDE DEF told
<1>4. ASSUME told # {}
      PROVE  Q!Max({1, Q!Min({Q!Max(told), Longest})}) \in Int
  <2> DEFINE most == Q!Max(told)
             least == Q!Min({most, Longest})
  <2>1. most \in Int /\ Longest \in Int /\ 1 \in Int
    BY <1>3, <1>4, QuotaConstants
  <2> HIDE DEF most
  <2>2. least \in {most, Longest}
    BY <2>1, Least, Zenon
  <2>3. least \in Int
    BY <2>1, <2>2
  <2> HIDE DEF least
  <2>4. Q!Max({1, least}) \in {1, least}
    BY <2>1, <2>3, Greater, Zenon
  <2>5. Q!Max({1, least}) \in Int
    BY <2>1, <2>3, <2>4
  <2> QED
    BY <2>5 DEF least, most
<1> QED
  BY <1>2, <1>4, QuotaConstants

LEMMA WindowsAre ==
  ASSUME QuotaTyped, NEW e \in Shows
  PROVE  Q!Updated(e) \in [Windows -> Kept] /\ Q!Snapshot(e) \in [Windows -> Kept]
<1>1. \A z \in Windows : quota.windows[z] \in Kept
  BY DEF QuotaTyped, Quotas
<1>2. Q!Unseen \in Int
  BY DEF Q!Unseen
<1>3. ASSUME NEW z \in DOMAIN e
      PROVE  e[z].used \in Int /\ Q!Seconds(e[z].reset) \in Int
  <2>1. e[z] \in Shown
    BY ShowsAre
  <2> QED
    BY <2>1, HalfSeconds DEF Shown
<1>4. Q!Updated(e) \in [Windows -> Kept]
  BY <1>1, <1>2, <1>3 DEF Q!Updated, Kept
<1>5. Q!Snapshot(e) \in [Windows -> Kept]
  BY <1>2, <1>3 DEF Q!Snapshot, Q!Window, Kept
<1> QED
  BY <1>4, <1>5

\* Time passes, and an expired block is lifted.
LEMMA TimePasses ==
  ASSUME QuotaTimely, NEW k \in Nat, NEW i \in Nat,
         \A m \in answers : now + k - m.sent <= MaxDelay,
         now' = now + k, slept' \in {slept, slept + k},
         used' \in [Windows -> Int],
         quota' = Q!Reconciled(quota, now + k, i),
         lifted' = FALSE, UNCHANGED answers
  PROVE  QuotaTimely'
<1>1. now \in Nat /\ slept \in Nat /\ slept <= now /\ quota \in Quotas
  BY DEF QuotaTimely, QuotaTyped
<1>2. now + k \in Int
  BY <1>1
<1>3. quota' \in Quotas /\ quota'.evidence \in {quota.evidence, Q!NoEvidence}
  BY <1>1, <1>2, ReconciledIs
<1>4. QuotaTyped'
  BY <1>1, <1>3 DEF QuotaTyped, QuotaTimely
<1>5. \A z \in DOMAIN quota'.evidence : Timely(z, quota'.evidence[z])
  BY <1>3, NoEvidenceShows DEF QuotaTimely
<1>6. ASSUME NEW m \in answers
      PROVE  Truthful(m)'
  <2>1. m.sent \in Int /\ m.sent <= now
    BY <1>6 DEF QuotaTimely, QuotaTyped, Messages, Truthful
  <2>2. m.sent <= now' /\ now' <= m.sent + MaxDelay
    BY <1>1, <1>6, <2>1, QuotaConstants
  <2> QED
    BY <1>6, <2>2 DEF QuotaTimely, Truthful, EndOf
<1> QED
  BY <1>4, <1>5, <1>6 DEF QuotaTimely, Timely, EndOf, Q!LiftedAfterReset

LEMMA QuotaTicks ==
  ASSUME QuotaTimely, Q!Tick \/ Q!Sleep
  PROVE  QuotaTimely'
<1>1. /\ now \in Nat /\ slept \in Nat /\ slept <= now /\ used \in [Windows -> Int]
      /\ Nap \in Nat
  BY QuotaConstants DEF QuotaTimely, QuotaTyped
<1>2. CASE Q!Tick
  <2>1. /\ now' = now + 1 /\ slept' \in {slept, slept + 1} /\ UNCHANGED answers
        /\ lifted' = FALSE /\ used' \in [Windows -> Int]
        /\ quota' = Q!Reconciled(quota, now + 1, now + 1 - slept)
    BY <1>1, <1>2 DEF Q!Tick
  <2>2. \A m \in answers : now + 1 - m.sent <= MaxDelay
    <3> SUFFICES ASSUME NEW m \in answers
                 PROVE  now + 1 - m.sent <= MaxDelay
      OBVIOUS
    <3>1. now - m.sent < MaxDelay
      BY <1>2 DEF Q!Tick
    <3>2. m.sent \in Int
      BY DEF QuotaTimely, QuotaTyped, Messages
    <3> QED
      BY <1>1, <3>1, <3>2, QuotaConstants
  <2>3. now + 1 - slept \in Nat /\ 1 \in Nat
    BY <1>1
  <2> QED
    BY <2>1, <2>2, <2>3, TimePasses
<1>3. CASE Q!Sleep
  <2>1. /\ now' = now + Nap /\ slept' \in {slept, slept + Nap} /\ UNCHANGED answers
        /\ lifted' = FALSE /\ used' \in [Windows -> Int] /\ answers = {}
        /\ quota' = Q!Reconciled(quota, now + Nap, now - slept)
    BY <1>1, <1>3 DEF Q!Sleep, Q!Instant
  <2>2. now - slept \in Nat
    BY <1>1
  <2> QED
    BY <1>1, <2>1, <2>2, TimePasses
<1> QED
  BY <1>2, <1>3

\* What leaves the provider says what is so.
LEMMA AnswerLeaves ==
  ASSUME QuotaTimely, NEW a \in Answers, Q!Answer(a)
  PROVE  QuotaTimely'
<1>1. /\ now \in Nat /\ used \in [Windows -> Int] /\ Q!Unseen \in Int
      /\ a \in [kind : Q!Kinds, shown : SUBSET Windows, form : Q!Forms,
                wait : Nat \cup {Q!Unseen}]
  BY QuotaConstants DEF QuotaTimely, QuotaTyped, Q!Unseen
<1> DEFINE told == IF a.form = "legacy" THEN Q!NoEvidence ELSE Q!Told(a.shown, a.form)
           numbers == {used[z] : z \in Windows}
           legacy == IF a.form = "legacy" THEN Q!Max(numbers) ELSE Q!Unseen
           m == [kind |-> a.kind, sent |-> now, form |-> a.form, told |-> told,
                 wait |-> a.wait, legacy |-> legacy]
<1>2. /\ answers' = answers \cup {m} /\ lifted' = FALSE
      /\ UNCHANGED <<now, slept, used, quota>>
  BY Zenon DEF Q!Answer
<1>3. legacy \in Int
  <2>1. /\ numbers \in SUBSET {used[ShortWindow], used[LongWindow], used[LongWindow]}
        /\ numbers # {} /\ used[ShortWindow] \in Int /\ used[LongWindow] \in Int
    BY <1>1 DEF Windows
  <2> HIDE DEF numbers
  <2>2. Q!Max(numbers) \in numbers
    BY <2>1, Greatest
  <2> QED
    BY <1>1, <2>1, <2>2
<1> HIDE DEF legacy
<1>4. ASSUME NEW z \in Windows
      PROVE  /\ Q!ResetOf(z) = (Q!Cycle(z, now) + 1) * Period[z]
             /\ Q!Cycle(z, now) \in Int /\ Q!ResetOf(z) \in Int
  <2>1. \A x \in Int, y \in Nat : (x + 1) * y \in Int
    OBVIOUS
  <2> QED
    BY <1>1, <2>1, CycleIs DEF Q!ResetOf
<1>5. ASSUME a.form # "legacy"
      PROVE  /\ told \in Shows
             /\ \A z \in DOMAIN told :
                  LET p == told[z]
                  IN  /\ EndOf(z, p) = Q!ResetOf(z)
                      /\ CASE a.form = "used" -> p.reset = Q!Unseen
                           [] a.form = "used after" ->
                                p.reset = 2 * Q!CeilSeconds(Q!ResetOf(z) - now)
                           [] OTHER -> p.reset = Q!ResetOf(z)
  <2> DEFINE reset(z) ==
               CASE a.form = "used" -> Q!Unseen
                 [] a.form = "used after" -> 2 * Q!CeilSeconds(Q!ResetOf(z) - now)
                 [] OTHER -> Q!ResetOf(z)
             count(z) == IF a.form = "at" THEN Q!Unseen ELSE used[z]
             piece(z) == [used |-> count(z), cycle |-> Q!Cycle(z, now), reset |-> reset(z)]
  <2>1. told = [z \in a.shown |-> piece(z)]
    BY <1>5, Zenon DEF Q!Told
  <2>2. ASSUME NEW z \in a.shown
        PROVE  reset(z) \in Int /\ count(z) \in Int
    <3>1. z \in Windows /\ Q!ResetOf(z) - now \in Int /\ Q!ResetOf(z) \in Int
      BY <1>1, <1>4, <2>2
    <3>2. 2 * Q!CeilSeconds(Q!ResetOf(z) - now) \in Int
      BY <3>1, HalfSeconds
    <3> QED
      BY <1>1, <3>1, <3>2
  <2> HIDE DEF count
  <2>3. \A z \in a.shown : piece(z) \in Shown
    <3> HIDE DEF reset
    <3> QED
      BY <1>1, <1>4, <2>2 DEF Shown
  <2>4. told \in Shows
    <3> HIDE DEF piece, told
    <3> QED
      BY <1>1, <2>1, <2>3 DEF Shows
  <2>5. ASSUME NEW z \in a.shown
        PROVE  /\ told[z].reset = reset(z)
               /\ EndOf(z, told[z]) = Q!ResetOf(z)
    <3>1. told[z] = piece(z)
      <4> HIDE DEF piece, told
      <4> QED
        BY <2>1
    <3>2. z \in Windows
      BY <1>1
    <3> HIDE DEF reset, told
    <3> QED
      BY <1>4, <3>1, <3>2 DEF EndOf
  <2>6. DOMAIN told = a.shown
    <3> HIDE DEF told, piece
    <3> QED
      BY <2>1
  <2> HIDE DEF told
  <2> QED
    BY <2>4, <2>5, <2>6
<1>6. told \in Shows
  BY <1>5, NoEvidenceShows
<1>7. m \in Messages
  <2> HIDE DEF told
  <2> QED
    BY <1>1, <1>3, <1>6 DEF Messages
<1>8. Truthful(m)
  <2>1. m.sent = now /\ m.told = told /\ m.form = a.form
    OBVIOUS
  <2>2. m.sent <= now /\ now <= m.sent + MaxDelay
    BY <1>1, QuotaConstants
  <2> HIDE DEF m
  <2>3. CASE a.form = "legacy"
    BY <2>1, <2>2, <2>3, NoEvidenceShows DEF Truthful
  <2>4. CASE a.form # "legacy"
    <3> HIDE DEF told
    <3> QED
      BY <1>5, <2>1, <2>2, <2>4 DEF Truthful
  <2> QED
    BY <2>3, <2>4
<1> HIDE DEF m
<1>9. QuotaTyped'
  BY <1>2, <1>7 DEF QuotaTimely, QuotaTyped
<1>10. \A n \in answers' : Truthful(n)'
  BY <1>2, <1>8 DEF QuotaTimely, Truthful, EndOf
<1> QED
  BY <1>2, <1>9, <1>10 DEF QuotaTimely, Timely, EndOf, Q!LiftedAfterReset

\* An answer is gone, or is the same but for its kind; and the account has what
\* its evidence says.
LEMMA AnswerRead ==
  ASSUME QuotaTimely, NEW m \in answers,
         answers' \subseteq answers \cup {[m EXCEPT !.kind = "refused"]},
         quota' \in Quotas,
         \A z \in DOMAIN quota'.evidence : Timely(z, quota'.evidence[z]),
         lifted' = FALSE, UNCHANGED <<now, slept, used>>
  PROVE  QuotaTimely'
<1> DEFINE n == [m EXCEPT !.kind = "refused"]
<1>1. m \in Messages /\ Truthful(m)
  BY DEF QuotaTimely, QuotaTyped
<1>2. /\ n \in Messages /\ n.sent = m.sent /\ n.form = m.form /\ n.told = m.told
  BY <1>1 DEF Messages
<1>3. Truthful(n)
  BY <1>1, <1>2 DEF Truthful
<1> HIDE DEF n
<1>4. QuotaTyped'
  BY <1>2 DEF QuotaTimely, QuotaTyped, n
<1>5. \A x \in answers' : Truthful(x)'
  <2>1. \A x \in answers' : Truthful(x)
    BY <1>3 DEF QuotaTimely, n
  <2> QED
    BY <2>1 DEF Truthful, EndOf
<1> QED
  BY <1>4, <1>5 DEF QuotaTimely, Timely, EndOf, Q!LiftedAfterReset

LEMMA AnswerArrives ==
  ASSUME QuotaTimely, NEW m \in answers,
         Q!ObserveHeaders(m) \/ Q!ObserveUsage(m) \/ Q!RecordRejection(m) \/ Q!Lose(m)
  PROVE  QuotaTimely'
<1> DEFINE e == Q!Evidence(m)
           o == Q!Observed(quota, e)
<1>1. /\ QuotaTyped /\ m \in Messages /\ quota \in Quotas /\ Truthful(m)
      /\ \A z \in DOMAIN quota.evidence : Timely(z, quota.evidence[z])
  BY DEF QuotaTimely, QuotaTyped
<1>2. e \in Shows /\ \A z \in DOMAIN e : Timely(z, e[z])
  BY <1>1, EvidenceIs
<1> HIDE DEF e
<1>3. o \in Quotas /\ o.evidence \in {quota.evidence, Q!NoEvidence} /\ ~Q!TooEarly(quota, e)
  BY <1>1, <1>2, ObservationIs
<1> HIDE DEF o
<1>4. \A z \in DOMAIN o.evidence : Timely(z, o.evidence[z])
  BY <1>1, <1>3, NoEvidenceShows
<1>5. Q!Updated(e) \in [Windows -> Kept] /\ Q!Snapshot(e) \in [Windows -> Kept]
      /\ Q!Unseen \in Int /\ m.legacy \in Int /\ m.wait \in Int
  BY <1>1, <1>2, WindowsAre DEF Q!Unseen, Messages
<1>6. CASE Q!ObserveHeaders(m)
  <2>1. PICK l \in Int : quota' = [o EXCEPT !.windows = Q!Updated(e), !.legacy = l]
    <3>1. CASE m.legacy = Q!Unseen
      <4>1. quota' = [o EXCEPT !.windows = Q!Updated(e), !.legacy = o.legacy]
        BY <1>3, <1>6, <3>1 DEF Q!ObserveHeaders, o, e, Quotas
      <4>2. o.legacy \in Int
        BY <1>3 DEF Quotas
      <4> QED
        BY <4>1, <4>2
    <3>2. CASE m.legacy # Q!Unseen
      <4>1. quota' = [o EXCEPT !.windows = Q!Updated(e), !.legacy = m.legacy]
        BY <1>3, <1>6, <3>2 DEF Q!ObserveHeaders, o, e, Quotas
      <4> QED
        BY <1>5, <4>1
    <3> QED
      BY <3>1, <3>2
  <2>2. quota' \in Quotas /\ quota'.evidence = o.evidence
    BY <1>3, <1>5, <2>1 DEF Quotas
  <2>3. /\ lifted' = Q!TooEarly(quota, e) /\ UNCHANGED <<now, slept, used>>
        /\ answers' \subseteq answers \cup {[m EXCEPT !.kind = "refused"]}
    BY <1>6, Zenon DEF Q!ObserveHeaders, e
  <2>4. lifted' = FALSE
    BY <1>3, <2>3, Zenon DEF Q!TooEarly
  <2> QED
    BY <1>4, <2>2, <2>3, <2>4, AnswerRead
<1>7. CASE Q!ObserveUsage(m)
  <2>1. quota' = [o EXCEPT !.windows = Q!Snapshot(e), !.legacy = Q!Unseen]
    BY <1>7, Zenon DEF Q!ObserveUsage, o, e
  <2>2. quota' \in Quotas /\ quota'.evidence = o.evidence
    BY <1>3, <1>5, <2>1 DEF Quotas
  <2>3. /\ lifted' = Q!TooEarly(quota, e) /\ UNCHANGED <<now, slept, used>>
        /\ answers' \subseteq answers \cup {[m EXCEPT !.kind = "refused"]}
    BY <1>7, Zenon DEF Q!ObserveUsage, e
  <2>4. lifted' = FALSE
    BY <1>3, <2>3, Zenon DEF Q!TooEarly
  <2> QED
    BY <1>4, <2>2, <2>3, <2>4, AnswerRead
<1>8. CASE Q!RecordRejection(m)
  <2> DEFINE blocking == Q!Blocking(e)
             delay == 2 * Q!Delay(m.wait, blocking)
  <2>1. blocking \in Shows /\ \A z \in DOMAIN blocking : Timely(z, blocking[z])
    BY <1>2, BlockingIs
  <2> HIDE DEF blocking
  <2>2. delay \in Int
    BY <1>1, <1>5, <2>1, DelayIs
  <2>3. quota' = [quota EXCEPT !.until = Q!Instant + delay, !.resetAt = now + delay,
                               !.evidence = blocking]
    BY <1>8, Zenon DEF Q!RecordRejection, Q!QuotaFailed, blocking, e
  <2> HIDE DEF delay
  <2>4. Q!Instant + delay \in Int /\ now + delay \in Int
    BY <1>1, <2>2 DEF Q!Instant, QuotaTyped
  <2>5. quota' \in Quotas /\ quota'.evidence = blocking
    BY <1>1, <2>1, <2>3, <2>4 DEF Quotas
  <2>6. /\ lifted' = FALSE /\ UNCHANGED <<now, slept, used>>
        /\ answers' \subseteq answers \cup {[m EXCEPT !.kind = "refused"]}
    BY <1>8, Zenon DEF Q!RecordRejection
  <2> QED
    BY <2>1, <2>5, <2>6, AnswerRead
<1>9. CASE Q!Lose(m)
  <2>1. /\ lifted' = FALSE /\ UNCHANGED <<now, slept, used, quota>>
        /\ answers' \subseteq answers \cup {[m EXCEPT !.kind = "refused"]}
    BY <1>9, Zenon DEF Q!Lose
  <2> QED
    BY <1>1, <2>1, AnswerRead
<1> QED
  BY <1>6, <1>7, <1>8, <1>9

\* Every step of this part keeps its invariant.
LEMMA QuotaSteps ==
  ASSUME QuotaTimely, Q!Next
  PROVE  QuotaTimely'
<1>1. ASSUME NEW z \in Windows, Q!Exhaust(z)
      PROVE  QuotaTimely'
  <2>1. used' \in [Windows -> Int]
    BY <1>1 DEF QuotaTimely, QuotaTyped, Q!Exhaust
  <2> QED
    BY <1>1, <2>1 DEF Q!Exhaust, QuotaTimely, QuotaTyped, Truthful, Timely, EndOf,
       Q!LiftedAfterReset
<1>2. CASE Q!SoftFailure
  <2>1. Q!Instant + 2 * Avoid \in Int
    BY QuotaConstants DEF QuotaTimely, QuotaTyped, Q!Instant
  <2>2. quota' \in Quotas /\ quota'.evidence = quota.evidence
    BY <1>2, <2>1 DEF QuotaTimely, QuotaTyped, Q!SoftFailure, Quotas
  <2> QED
    BY <1>2, <2>2 DEF Q!SoftFailure, QuotaTimely, QuotaTyped, Truthful, Timely, EndOf,
       Q!LiftedAfterReset
<1> QED
  BY <1>1, <1>2, QuotaTicks, AnswerLeaves, AnswerArrives DEF Q!Next

LEMMA QuotaStarts ==
  ASSUME Q!Init
  PROVE  QuotaTimely
<1>1. Q!Unseen \in Int /\ FirstNow \in Nat
  BY QuotaConstants DEF Q!Unseen
<1>2. quota \in Quotas /\ quota.evidence = Q!NoEvidence
  BY <1>1, NoEvidenceShows DEF Q!Init, Q!Window, Quotas, Kept
<1>3. QuotaTyped
  BY <1>1, <1>2 DEF Q!Init, QuotaTyped
<1> QED
  BY <1>2, <1>3, NoEvidenceShows DEF Q!Init, QuotaTimely, Q!LiftedAfterReset

\* A step of another part leaves the quota alone.
LEMMA QuotaAlone ==
  ASSUME [ProxyNext]_proxy, part' = "quota"
  PROVE  part = "quota" /\ [Q!Next]_(Q!quotaVars)
BY DEF ProxyNext, proxy, quotaVars, Q!quotaVars

-----------------------------------------------------------------------------
(* What a refusal says.                                                    *)

\* A verdict is that of a body, under the status and the inspection there was.
RefusalInv ==
  part = "refusal" =>
    /\ F!TypeOK
    /\ verdict # Nothing => \E b \in F!Envelopes : verdict = F!Verdict(b)

\* An error object, with no other in it.
LEMMA ErrorIs ==
  ASSUME NEW x \in F!Errors
  PROVE  /\ x # Nothing /\ x.error = Nothing /\ x.response = Nothing
         /\ x.status = "" /\ x.reason = ""
<1>1. x # Nothing
  BY RefusalAssumption DEF F!RefusalsAssumption
<1> QED
  BY <1>1 DEF F!Errors

\* A response, with at most an error in it.
LEMMA ResponseIs ==
  ASSUME NEW r \in F!Responses
  PROVE  /\ r # Nothing /\ r.response = Nothing
         /\ r.type = "" /\ r.code = "" /\ r.status \in F!Ends \cup {""}
         /\ r.error \in F!Errors \cup {Nothing}
<1>1. r # Nothing
  BY RefusalAssumption DEF F!RefusalsAssumption
<1> QED
  BY <1>1 DEF F!Responses

\* The forms of a body.
LEMMA EnvelopeIs ==
  ASSUME NEW b \in F!Envelopes
  PROVE  \/ b \in F!Responses
         \/ /\ b.response \in F!Responses /\ b.error = Nothing
            /\ b.type = "" /\ b.code = "" /\ b.status \in F!Numbers
         \/ /\ b.error \in F!Errors /\ b.response = Nothing
            /\ b.type = "" /\ b.code = "" /\ b.status \in F!Numbers
         \/ /\ b.error = Nothing /\ b.response = Nothing /\ b.status = ""
            /\ b.type \in {"", "scoped", "error", "invalid"} /\ b.code \in F!Codes
BY DEF F!Envelopes, F!With

\* A quota of something else than the account is told from every other failure.
LEMMA ScopedIsScoped ==
  ASSUME NEW e, F!Scoped(e)
  PROVE  /\ F!Kind(e) = "scoped"
         /\ e.type \in {"failed", "incomplete", "error"} => F!TerminalKind(e) = "scoped"
<1>1. F!Kind(e) = "scoped"
  BY Zenon DEF F!Kind
<1> QED
  BY <1>1 DEF F!TerminalKind

\* In the parts of a body, it is told too, unless the body is a response that did
\* not fail or its type is none that is known.
LEMMA ScopedIsSeen ==
  ASSUME NEW b \in F!Envelopes, ~F!Overlooked(b),
         \A p \in {b, b.response} \ {Nothing} : p.status \notin F!Unfailed,
         NEW e \in {b, b.response} \ {Nothing}, F!Scoped(e)
  PROVE  F!BodyKind(b) = "scoped"
<1> DEFINE r == IF b.response # Nothing THEN b.response ELSE b
           terminal == [F!Empty EXCEPT !.type = r.status, !.status = b.status, !.response = r]
           refusal ==
             [F!Empty EXCEPT !.type = "error", !.code = b.code, !.status = b.status,
                             !.error = IF b.error # Nothing THEN b.error ELSE r.error,
                             !.response = r]
<1>1. /\ terminal.type = r.status /\ terminal.response = r
      /\ refusal.type = "error" /\ refusal.code = b.code /\ refusal.response = r
      /\ refusal.error = IF b.error # Nothing THEN b.error ELSE r.error
  BY DEF F!Empty
<1>2. F!BodyKind(b) =
        CASE b.type = "scoped" -> F!Kind(b)
          [] b.type \notin {"", "scoped"} -> F!TerminalKind(b)
          [] b.type = "" /\ r.status \in F!Ends -> F!TerminalKind(terminal)
          [] b.type = "" /\ r.status \notin F!Ends ->
               IF r.error # Nothing \/ b.error # Nothing \/ F!Scoped(b)
               THEN F!TerminalKind(refusal) ELSE "none"
  BY Zenon DEF F!BodyKind
<1>3. \A t, y : /\ t.response = r /\ r # Nothing /\ y # Nothing
               /\ y \in {t, t.error, r.error} /\ "scoped" \in {y.code, y.type}
               => F!Scoped(t)
  BY Zenon DEF F!Scoped, F!ErrorsOf
<1>4. \A t : t.response = r /\ r # Nothing /\ r.reason = "scoped" => F!Scoped(t)
  BY Zenon DEF F!Scoped
<1> HIDE DEF r, terminal, refusal
<1>5. /\ b.type = "" /\ r.status \in F!Ends /\ r.status \notin F!Unfailed
      /\ F!Scoped(terminal)
      => F!BodyKind(b) = "scoped"
  <2> SUFFICES ASSUME b.type = "", r.status \in F!Ends, r.status \notin F!Unfailed,
                      F!Scoped(terminal)
               PROVE  F!BodyKind(b) = "scoped"
    OBVIOUS
  <2>1. terminal.type \in {"failed", "incomplete", "error"}
    BY <1>1 DEF F!Ends, F!Unfailed
  <2>2. F!TerminalKind(terminal) = "scoped"
    BY <2>1, ScopedIsScoped, Zenon
  <2> QED
    BY <1>2, <2>2
<1>6. /\ b.type = "" /\ r.status \notin F!Ends
      /\ r.error # Nothing \/ b.error # Nothing \/ F!Scoped(b)
      /\ F!Scoped(refusal)
      => F!BodyKind(b) = "scoped"
  <2> SUFFICES ASSUME b.type = "", r.status \notin F!Ends,
                      r.error # Nothing \/ b.error # Nothing \/ F!Scoped(b),
                      F!Scoped(refusal)
               PROVE  F!BodyKind(b) = "scoped"
    OBVIOUS
  <2>1. F!TerminalKind(refusal) = "scoped"
    BY <1>1, ScopedIsScoped, Zenon
  <2> QED
    BY <1>2, <2>1
<1>7. CASE b \in F!Responses
  <2>1. /\ r = b /\ e = b /\ r # Nothing /\ b.response = Nothing /\ b.type = ""
        /\ b.code = "" /\ b.status \in F!Ends \cup {""} /\ b.status \notin F!Unfailed
    BY <1>7, ResponseIs DEF r
  <2>2. b.error # Nothing /\ "scoped" \in {b.error.code, b.error.type}
    BY <2>1 DEF F!Scoped, F!ErrorsOf
  <2>3. F!Scoped(terminal)
    BY <1>1, <1>3, <2>1, <2>2, Zenon
  <2>4. F!Scoped(refusal)
    BY <1>1, <1>3, <2>1, <2>2, Zenon
  <2> QED
    BY <1>5, <1>6, <2>1, <2>2, <2>3, <2>4
<1>8. CASE b.response \in F!Responses /\ b.error = Nothing
           /\ b.type = "" /\ b.code = "" /\ b.status \in F!Numbers
  <2>1. /\ b.response # Nothing /\ b.response.response = Nothing
        /\ b.response.type = "" /\ b.response.code = ""
        /\ b.response.status \in F!Ends \cup {""}
    BY <1>8, ResponseIs
  <2>2. r = b.response /\ b.response.status \notin F!Unfailed
    BY <2>1 DEF r
  <2>3. \/ r.error # Nothing /\ "scoped" \in {r.error.code, r.error.type}
        \/ e = b /\ r.reason = "scoped"
    BY <1>8, <2>1, <2>2 DEF F!Scoped, F!ErrorsOf
  <2>4. F!Scoped(terminal)
    BY <1>1, <1>3, <1>4, <2>1, <2>2, <2>3, Zenon
  <2>5. F!Scoped(refusal)
    BY <1>1, <1>3, <1>4, <2>1, <2>2, <2>3, Zenon
  <2> QED
    BY <1>5, <1>6, <1>8, <2>1, <2>2, <2>3, <2>4, <2>5
<1>9. CASE b.error \in F!Errors /\ b.response = Nothing
           /\ b.type = "" /\ b.code = "" /\ b.status \in F!Numbers
  <2>1. e = b /\ b.error # Nothing
    BY <1>9, ErrorIs
  <2>2. "scoped" \in {b.error.code, b.error.type}
    BY <1>9, <2>1 DEF F!Scoped, F!ErrorsOf
  <2>3. r = b /\ r # Nothing /\ r.status \notin F!Ends
    BY <1>9 DEF r, F!Numbers, F!Ends
  <2>4. F!Scoped(refusal)
    BY <1>1, <1>3, <2>1, <2>2, <2>3, Zenon
  <2> QED
    BY <1>6, <1>9, <2>1, <2>3, <2>4
<1>10. CASE b.error = Nothing /\ b.response = Nothing /\ b.status = ""
            /\ b.type \in {"", "scoped", "error", "invalid"} /\ b.code \in F!Codes
  <2>1. e = b /\ r = b /\ b # Nothing /\ r.status \notin F!Ends
    BY <1>10 DEF r, F!Ends
  <2>2. "scoped" \in {b.code, b.type}
    BY <1>10, <2>1 DEF F!Scoped, F!ErrorsOf
  <2>3. F!Kind(b) = "scoped" /\ (b.type = "error" => F!TerminalKind(b) = "scoped")
    BY <2>1, ScopedIsScoped, Zenon
  <2>4. CASE b.type = "" /\ b.code = "scoped"
    <3>1. refusal # Nothing
      <4>1. refusal \in F!With({"error"}, F!Codes, {""}, {Nothing}, F!Envelopes)
        BY <1>10, <2>1 DEF refusal, F!Empty, F!With
      <4> QED
        BY <4>1, RefusalAssumption DEF F!RefusalsAssumption
    <3>2. F!Scoped(refusal)
      BY <1>1, <1>3, <2>1, <2>4, <3>1, Zenon
    <3> QED
      BY <1>6, <2>1, <2>4, <3>2
  <2> QED
    BY <1>2, <1>10, <2>2, <2>3, <2>4 DEF F!Overlooked
<1> QED
  BY <1>7, <1>8, <1>9, <1>10, EnvelopeIs

\* What the terminal of a response says is said by its type and its response: a
\* status that is no number adds nothing.
LEMMA TerminalsAgree ==
  ASSUME NEW d, NEW e, d.type = e.type, d.type \in F!Ends,
         d.response = e.response, d.response # Nothing,
         d.error = Nothing, e.error = Nothing, d.code = "", e.code = "",
         d.status \notin F!Numbers \ {""}, e.status \notin F!Numbers \ {""}
  PROVE  F!TerminalKind(d) = F!TerminalKind(e)
<1>1. d.type \notin {"error", "scoped"}
  BY DEF F!Ends
<1>2. F!ErrorOf(d) = F!ErrorOf(e)
  BY <1>1 DEF F!ErrorOf
<1>3. F!Signals(d) = F!Signals(e)
  BY DEF F!Signals
<1>4. F!Scoped(d) = F!Scoped(e)
  <2>1. \A z : F!Scoped(z) <=>
          \/ \E x \in F!ErrorsOf(z) : "scoped" \in {x.code, x.type}
          \/ z.response # Nothing /\ z.response.reason = "scoped"
    BY Zenon DEF F!Scoped
  <2>2. F!ErrorsOf(d) \ {d} = {d.response.error} \ {Nothing, d}
    BY DEF F!ErrorsOf
  <2>3. F!ErrorsOf(e) \ {e} = {e.response.error} \ {Nothing, e}
    BY DEF F!ErrorsOf
  <2>4. "scoped" \notin {d.code, d.type} /\ "scoped" \notin {e.code, e.type}
    BY <1>1
  <2>5. \A x : /\ x \in F!ErrorsOf(d) /\ "scoped" \in {x.code, x.type}
               => x \in F!ErrorsOf(e)
    BY <2>2, <2>4 DEF F!ErrorsOf
  <2>6. \A x : /\ x \in F!ErrorsOf(e) /\ "scoped" \in {x.code, x.type}
               => x \in F!ErrorsOf(d)
    BY <2>3, <2>4 DEF F!ErrorsOf
  <2> QED
    BY <2>1, <2>5, <2>6, Zenon
<1>5. \A x : F!Number(d, x) = F!Number(e, x)
  BY DEF F!Number
<1> DEFINE X == IF F!ErrorOf(e) = Nothing THEN F!Empty ELSE F!ErrorOf(e)
           n == F!Number(e, X)
           shown == {F!CodeOf(X), X.message} \cup F!Signals(e)
           evidence ==
             \/ F!ErrorOf(e) # Nothing \/ n # "" \/ F!Scoped(e)
             \/ F!Signals(e) \cap {"quota", "capacity"} # {}
           kind ==
             CASE ~evidence -> "none"
               [] evidence /\ F!Scoped(e) -> "scoped"
               [] evidence /\ ~F!Scoped(e) ->
                    IF F!NotFound(X) THEN "gone"
                    ELSE IF "auth" \in {F!CodeOf(X), X.type} \/ n = "401" THEN "auth"
                    ELSE IF "quota" \in shown THEN "quota"
                    ELSE IF "capacity" \in shown THEN "capacity"
                    ELSE IF n = "429" THEN "quota"
                    ELSE IF F!CodeOf(X) = "transient" THEN "transient"
                    ELSE "other"
<1>6. F!Kind(d) = F!Kind(e)
  <2>1. F!Kind(e) = kind
    BY Zenon DEF F!Kind
  <2>2. F!Number(d, X) = F!Number(e, X)
    <3> HIDE DEF X
    <3> QED
      BY <1>5
  <2>3. F!Kind(d) = kind
    BY <1>2, <1>3, <1>4, <2>2, Zenon DEF F!Kind
  <2> QED
    BY <2>1, <2>3
<1> QED
  BY <1>6 DEF F!TerminalKind

\* A response in the body of an answer, bare or in an envelope, fails as its
\* terminal event does.
LEMMA ResponsesAgree ==
  ASSUME NEW b \in F!Envelopes, b.status \in F!Ends
  PROVE  LET event == [F!Empty EXCEPT !.type = b.status, !.response = b]
         IN  /\ F!BodyKind(b) = F!TerminalKind(event)
             /\ F!BodyKind([F!Empty EXCEPT !.response = b]) = F!TerminalKind(event)
             /\ b.status \in F!Unfailed =>
                  F!BodyKind(b) \notin {"quota", "scoped", "capacity"}
<1> DEFINE event == [F!Empty EXCEPT !.type = b.status, !.response = b]
           envelope == [F!Empty EXCEPT !.response = b]
           terminal == [F!Empty EXCEPT !.type = b.status, !.status = b.status,
                                       !.response = b]
           unwrapped == [F!Empty EXCEPT !.type = b.status, !.status = envelope.status,
                                        !.response = b]
<1>1. /\ b # Nothing /\ b.response = Nothing /\ b.type = ""
      /\ b.status \notin F!Numbers \ {""}
  <2>1. b \in F!Responses
    BY EnvelopeIs DEF F!Numbers, F!Ends
  <2> QED
    BY <2>1, ResponseIs DEF F!Numbers, F!Ends
<1>2. /\ event.type = b.status /\ event.response = b /\ event.status = ""
      /\ event.error = Nothing /\ event.code = ""
      /\ terminal.type = b.status /\ terminal.response = b /\ terminal.status = b.status
      /\ terminal.error = Nothing /\ terminal.code = ""
      /\ unwrapped.type = b.status /\ unwrapped.response = b
      /\ unwrapped.status = "" /\ unwrapped.error = Nothing /\ unwrapped.code = ""
      /\ envelope.type = "" /\ envelope.response = b
  BY DEF F!Empty
<1>3. F!BodyKind(b) = F!TerminalKind(terminal)
  BY <1>1, Zenon DEF F!BodyKind
<1>4. F!BodyKind(envelope) = F!TerminalKind(unwrapped)
  BY <1>1, <1>2, Zenon DEF F!BodyKind
<1> HIDE DEF event, terminal, envelope, unwrapped
<1>5. F!TerminalKind(terminal) = F!TerminalKind(event)
  BY <1>1, <1>2, TerminalsAgree, Zenon
<1>6. F!TerminalKind(unwrapped) = F!TerminalKind(event)
  <2>1. "" \notin F!Numbers \ {""}
    OBVIOUS
  <2> QED
    BY <1>1, <1>2, <2>1, TerminalsAgree, Zenon
<1>7. b.status \in F!Unfailed =>
        F!TerminalKind(event) \notin {"quota", "scoped", "capacity"}
  BY <1>2 DEF F!TerminalKind, F!Unfailed
<1> QED
  BY <1>3, <1>4, <1>5, <1>6, <1>7 DEF event, envelope

\* While an inspection goes on there is no verdict, and the verdict is the last
\* step of all.
LEMMA RefusalSteps ==
  ASSUME part = "refusal", RefusalInv, F!Next, part' = part
  PROVE  RefusalInv'
<1> USE DEF RefusalInv
<1>1. reading # Nothing => verdict = Nothing
  BY DEF F!TypeOK
<1>2. ASSUME NEW n \in 0 .. (Limit + 1), F!Frame(n)
      PROVE  RefusalInv'
  <2>1. verdict' = Nothing /\ status' = status
    BY <1>1, <1>2 DEF F!Frame, F!Inspecting, F!Over
  <2>2. reading \in F!Readings /\ reading # Nothing /\ F!TypeOK
    BY <1>2 DEF F!Frame, F!Inspecting, F!TypeOK
  <2>3. /\ Limit \in Nat /\ MaxFrames \in Nat /\ n \in Nat
        /\ reading.bytes \in Nat /\ reading.frames \in Nat
    <3>1. Limit \in Nat /\ MaxFrames \in Nat
      BY RefusalAssumption DEF F!RefusalsAssumption
    <3>2. reading.bytes \in 0 .. Limit /\ reading.frames \in 0 .. MaxFrames
      BY <2>2 DEF F!Readings
    <3> QED
      BY <3>1, <3>2
  <2>4. CASE reading' = Nothing /\ complete' \in BOOLEAN
    BY <2>1, <2>2, <2>4 DEF F!TypeOK
  <2>5. CASE /\ reading.bytes + n <= Limit /\ complete' = complete
             /\ reading' = [reading EXCEPT !.bytes = reading.bytes + n,
                                           !.frames = reading.frames + 1]
    <3>1. reading.frames < MaxFrames
      BY <1>2 DEF F!Frame, F!Inspecting
    <3>2. reading.bytes + n \in 0 .. Limit /\ reading.frames + 1 \in 0 .. MaxFrames
      BY <2>5, <2>3, <3>1
    <3>3. reading' \in F!Readings
      BY <2>2, <2>5, <3>2 DEF F!Readings
    <3> QED
      BY <2>1, <2>2, <2>5, <3>3 DEF F!TypeOK
  <2>6. \/ reading' = Nothing /\ complete' \in BOOLEAN
        \/ /\ reading.bytes + n <= Limit /\ complete' = complete
           /\ reading' = [reading EXCEPT !.bytes = reading.bytes + n,
                                         !.frames = reading.frames + 1]
    <3>1. CASE reading.bytes + n > Limit
      BY <1>2, <3>1 DEF F!Frame, F!Over
    <3>2. CASE ~(reading.bytes + n > Limit)
      <4>1. reading.bytes + n <= Limit
        BY <2>3, <3>2
      <4>2. \/ F!Over(TRUE)
            \/ /\ complete' = complete
               /\ reading' = [reading EXCEPT !.bytes = reading.bytes + n,
                                             !.frames = @ + 1]
        BY <1>2, <3>2, Zenon DEF F!Frame
      <4> QED
        BY <4>1, <4>2 DEF F!Over
    <3> QED
      BY <3>1, <3>2
  <2> QED
    BY <2>1, <2>4, <2>5, <2>6
<1>3. ASSUME F!End \/ F!Cut
      PROVE  RefusalInv'
  <2>1. verdict' = Nothing /\ status' = status /\ reading' = Nothing
        /\ complete' \in BOOLEAN
    BY <1>1, <1>3 DEF F!End, F!Cut, F!Inspecting, F!Over
  <2> QED
    BY <2>1 DEF F!TypeOK
<1>4. ASSUME F!Judge
      PROVE  RefusalInv'
  <2>1. PICK b \in F!Envelopes : verdict' = F!Verdict(b)
    BY <1>4 DEF F!Judge
  <2>2. /\ reading' = Nothing /\ status' = status /\ complete' = complete
    BY <1>4 DEF F!Judge
  <2>3. F!Verdict(b)' = F!Verdict(b)
    BY <2>2 DEF F!Verdict, F!Health, F!Permits
  <2>4. /\ F!Verdict(b).failure \in {"quota", "scoped", "capacity", Nothing}
        /\ F!Verdict(b).health \in {"quota", "transient", Nothing}
    BY DEF F!Verdict, F!Health
  <2> QED
    BY <2>1, <2>2, <2>3, <2>4 DEF F!TypeOK
<1> QED
  BY <1>2, <1>3, <1>4 DEF F!Next

LEMMA RefusalStarts ==
  ASSUME F!Init
  PROVE  RefusalInv
BY RefusalAssumption DEF RefusalInv, F!Init, F!TypeOK, F!Readings, F!RefusalsAssumption

\* The verdicts that the invariant admits blame the account for its own quota only.
LEMMA VerdictsBlame ==
  ASSUME part = "refusal", RefusalInv
  PROVE  F!BlamesTheAccount
<1> SUFFICES ASSUME verdict # Nothing
             PROVE  F!BlamesTheAccount
  BY DEF F!BlamesTheAccount
<1>1. F!TypeOK
  BY DEF RefusalInv
<1>2. PICK b \in F!Envelopes : verdict = F!Verdict(b)
  BY DEF RefusalInv
<1> DEFINE kind == IF complete /\ status \in F!Rejections THEN F!BodyKind(b) ELSE "none"
           failure == IF kind \in {"quota", "scoped", "capacity"} THEN kind ELSE Nothing
<1>3. verdict.body = b /\ verdict.failure = failure
      /\ verdict.health = F!Health(failure, complete)
  BY <1>2 DEF F!Verdict
<1>4. ASSUME verdict.health # Nothing
      PROVE  complete /\ status \in F!Rejections /\ failure # "scoped"
  BY <1>3, <1>4 DEF F!Health, F!Permits, F!Rejections
<1>5. ASSUME verdict.health # Nothing, ~F!Overlooked(b),
             \A e \in {b, b.response} \ {Nothing} : e.status \notin F!Unfailed,
             NEW e \in {b, b.response} \ {Nothing}
      PROVE  ~F!Scoped(e)
  <2>1. SUFFICES ASSUME F!Scoped(e)
                 PROVE  FALSE
    OBVIOUS
  <2>2. F!BodyKind(b) = "scoped"
    BY <1>5, <2>1, ScopedIsSeen, Zenon
  <2> QED
    BY <1>4, <1>5, <2>2
<1>6. ASSUME NEW request \in F!Requests, F!Retried(request)
      PROVE  verdict.health # Nothing \/ verdict.failure = "capacity"
  BY <1>3, <1>6, RefusalAssumption
     DEF F!Retried, F!Health, F!Permits, F!RefusalsAssumption
<1> HIDE DEF failure
<1> QED
  BY <1>3, <1>4, <1>5, <1>6 DEF F!BlamesTheAccount

LEMMA VerdictsAgree ==
  ASSUME part = "refusal", RefusalInv
  PROVE  F!CarriersAgree
<1> SUFFICES ASSUME verdict # Nothing, verdict.body.status \in F!Ends
             PROVE  LET r == verdict.body
                        event == [F!Empty EXCEPT !.type = r.status, !.response = r]
                    IN  /\ F!BodyKind(r) = F!TerminalKind(event)
                        /\ F!BodyKind([F!Empty EXCEPT !.response = r]) = F!TerminalKind(event)
                        /\ r.status \in F!Unfailed => verdict.failure = Nothing
  BY DEF F!CarriersAgree
<1>1. PICK b \in F!Envelopes : verdict = F!Verdict(b)
  BY DEF RefusalInv
<1>2. verdict.body = b
  BY <1>1 DEF F!Verdict
<1>3. F!BodyKind(b) \notin {"quota", "scoped", "capacity"} => verdict.failure = Nothing
  BY <1>1 DEF F!Verdict
<1> QED
  BY <1>2, <1>3, ResponsesAgree

\* A step of another part leaves the refusal alone.
LEMMA RefusalAlone ==
  ASSUME [ProxyNext]_proxy, part' = "refusal"
  PROVE  part = "refusal" /\ UNCHANGED part /\ [F!Next]_(F!refusalVars)
BY DEF ProxyNext, proxy, refusalVars, F!refusalVars

-----------------------------------------------------------------------------
(* What an answer says of its account's quota.                             *)

\* A client that is told when to come back finds the account open again then,
\* and a late answer never lifts the block of a rejection, for any periods,
\* delays below the tolerance and forms of answers; a verdict blocks or demotes
\* the account only for a body seen to its end that names no quota of something
\* else, and a failed response is one failure in every carrier.
THEOREM QuotaHoldsAlways == ProxySpec => []QuotaHolds
<1>1. ProxyInit => QuotaInv /\ RefusalInv
  BY QuotaStarts, RefusalStarts DEF ProxyInit, QuotaInv
<1>2. QuotaInv /\ [ProxyNext]_proxy => QuotaInv'
  <2> SUFFICES ASSUME QuotaInv, [ProxyNext]_proxy, part' = "quota"
               PROVE  QuotaTimely'
    BY DEF QuotaInv
  <2>1. QuotaTimely /\ [Q!Next]_(Q!quotaVars)
    BY QuotaAlone DEF QuotaInv
  <2>2. CASE UNCHANGED Q!quotaVars
    BY <2>1, <2>2
       DEF Q!quotaVars, QuotaTimely, QuotaTyped, Truthful, Timely, EndOf, Q!LiftedAfterReset
  <2> QED
    BY <2>1, <2>2, QuotaSteps
<1>3. RefusalInv /\ [ProxyNext]_proxy => RefusalInv'
  <2> SUFFICES ASSUME RefusalInv, [ProxyNext]_proxy, part' = "refusal"
               PROVE  RefusalInv'
    BY DEF RefusalInv
  <2>1. part = "refusal" /\ UNCHANGED part /\ [F!Next]_(F!refusalVars)
    BY RefusalAlone
  <2>2. CASE UNCHANGED F!refusalVars
    <3>1. /\ UNCHANGED <<status, reading, complete, verdict>>
          /\ \A b : F!Verdict(b)' = F!Verdict(b)
      BY <2>2 DEF F!refusalVars, F!Verdict, F!Health, F!Permits
    <3> QED
      BY <2>1, <3>1 DEF RefusalInv, F!TypeOK
  <2> QED
    BY <2>1, <2>2, RefusalSteps
<1>4. QuotaInv /\ RefusalInv => QuotaHolds
  <2>1. QuotaInv /\ part = "quota" => Q!RetryIsEnough /\ Q!LiftedAfterReset
    BY WaitsEnough DEF QuotaInv, QuotaTimely
  <2>2. RefusalInv /\ part = "refusal" => F!TypeOK /\ F!BlamesTheAccount /\ F!CarriersAgree
    BY VerdictsBlame, VerdictsAgree DEF RefusalInv
  <2> QED
    BY <2>1, <2>2 DEF QuotaHolds
<1> QED
  BY <1>1, <1>2, <1>3, <1>4, PTL DEF ProxySpec
=============================================================================
