-------------------------- MODULE UsageActivation --------------------------
(***************************************************************************)
(* Starting an unused weekly quota window with a request of the daemon's   *)
(* own (src/proxy/usage_activation.rs), and the ledger that keeps it       *)
(* from being repeated (src/usage_activation.rs).  One activation runs     *)
(* at a time, under the ledger's lock; a record belongs to the quota's     *)
(* owner, whichever account is logged in to it.                            *)
(*                                                                         *)
(* A reset of the provider is the number of its cycle: deadlines that      *)
(* differ by less than RESET_TOLERANCE_SECONDS are one number.  The clock  *)
(* counts parts of the retry cooldown, in hours, and stands still during   *)
(* the minute an activation may take until it is sent.                     *)
(***************************************************************************)
EXTENDS Naturals

CONSTANTS
  Owners, Nothing,
  Retry,       \* RETRY_SECONDS
  MaxClock, MaxCycle

VARIABLES
  clock,
  cycle,       \* the provider's cycle of each owner's weekly window
  records,     \* the ledger in memory
  file,        \* the ledger on disk
  worker,      \* the activation that runs
  sent,        \* history: when each owner's last activation was sent
  witnessed    \* history: the cycle each owner was last seen activated in, by
               \* this daemon or by its file

vars == <<clock, cycle, records, file, worker, sent, witnessed>>

-----------------------------------------------------------------------------

\* ActivationRecord
Record == [attempted : 0..MaxClock, reset : 0..MaxCycle, completed : BOOLEAN]

Idle == [stage |-> "idle"]

Init ==
  /\ clock = 0
  /\ cycle = [o \in Owners |-> 0]
  /\ records = [o \in Owners |-> Nothing]
  /\ file = records
  /\ worker = Idle
  /\ sent = [o \in Owners |-> Nothing]
  /\ witnessed = [o \in Owners |-> Nothing]

\* activate_weekly_usage up to its own poll of the usage, which must show an
\* unused weekly window of the owner that the sweep saw, on an available account.
Poll(o) ==
  /\ worker = Idle
  /\ worker' = [stage |-> "polled", owner |-> o, now |-> clock, reset |-> cycle[o]]
  /\ UNCHANGED <<clock, cycle, records, file, sent, witnessed>>

\* reservation_skip_reason is none
Due(record, now, reset) ==
  record # Nothing =>
    /\ now >= record.attempted + Retry
    /\ record.completed => reset > record.reset

Skip ==
  /\ worker.stage = "polled"
  /\ worker' = Idle
  /\ UNCHANGED <<clock, cycle, records, file, sent, witnessed>>

\* Mutant: the reservation is only kept in memory.
ReservedInMemory(ledger) == UNCHANGED file

Reserved(ledger) == file' = ledger

\* reserve; when the file cannot be written nothing is sent.
Reserve(written) ==
  /\ worker.stage = "polled"
  /\ Due(records[worker.owner], worker.now, worker.reset)
  /\ IF written
     THEN /\ records' = [records EXCEPT ![worker.owner] =
                           [attempted |-> worker.now, reset |-> worker.reset,
                            completed |-> FALSE]]
          /\ Reserved(records')
          /\ worker' = [worker EXCEPT !.stage = "reserved"]
     ELSE /\ worker' = Idle
          /\ UNCHANGED <<records, file>>
  /\ UNCHANGED <<clock, cycle, sent, witnessed>>

Send ==
  /\ worker.stage = "reserved"
  /\ sent' = [sent EXCEPT ![worker.owner] = clock]
  /\ worker' = [worker EXCEPT !.stage = "sent"]
  /\ UNCHANGED <<clock, cycle, records, file, witnessed>>

\* The request fails, its answer is not complete, or the minute is over.
Fail ==
  /\ worker.stage \in {"reserved", "sent"}
  /\ worker' = Idle
  /\ UNCHANGED <<clock, cycle, records, file, sent, witnessed>>

Remembered(ledger, written) == ledger

\* complete
Complete(written) ==
  /\ worker.stage = "sent"
  /\ LET ledger == [records EXCEPT ![worker.owner].completed = TRUE,
                                   ![worker.owner].reset = worker.reset] IN
     /\ records' = Remembered(ledger, written)
     /\ file' = IF written THEN ledger ELSE file
  /\ worker' = Idle
  /\ witnessed' = [witnessed EXCEPT ![worker.owner] = worker.reset]
  /\ UNCHANGED <<clock, cycle, sent>>

\* The daemon stops anywhere and starts again.
Restart ==
  /\ worker' = Idle
  /\ records' = file
  /\ witnessed' = [o \in Owners |->
                     IF file[o] # Nothing /\ file[o].completed THEN file[o].reset
                     ELSE Nothing]
  /\ UNCHANGED <<clock, cycle, file, sent>>

Tick ==
  /\ worker.stage \in {"idle", "sent"}
  /\ clock < MaxClock
  /\ clock' = clock + 1
  /\ UNCHANGED <<cycle, records, file, worker, sent, witnessed>>

\* A new window, when the last one is over or because the provider moves it.
NewCycle(o) ==
  /\ cycle[o] < MaxCycle
  /\ cycle' = [cycle EXCEPT ![o] = @ + 1]
  /\ UNCHANGED <<clock, records, file, worker, sent, witnessed>>

Next ==
  \/ \E o \in Owners : Poll(o) \/ NewCycle(o)
  \/ Skip \/ Send \/ Fail
  \/ \E written \in BOOLEAN : Reserve(written) \/ Complete(written)
  \/ Restart \/ Tick

Spec == Init /\ [][Next]_vars

-----------------------------------------------------------------------------
(* Properties.                                                             *)

TypeOK ==
  /\ clock \in 0..MaxClock
  /\ cycle \in [Owners -> 0..MaxCycle]
  /\ records \in [Owners -> Record \cup {Nothing}]
  /\ file \in [Owners -> Record \cup {Nothing}]
  /\ worker.stage \in {"idle", "polled", "reserved", "sent"}
  /\ sent \in [Owners -> 0..MaxClock \cup {Nothing}]
  /\ witnessed \in [Owners -> 0..MaxCycle \cup {Nothing}]

\* What a request about to be sent may follow.
Spaced(o) == sent[o] # Nothing => clock >= sent[o] + Retry
NewToIt(o) == witnessed[o] # Nothing => worker.reset > witnessed[o]

(***************************************************************************)
(* No owner's quota is spent twice within the cooldown, nor in a cycle the *)
(* daemon has seen activated: crashes, requests whose outcome is unknown   *)
(* and ledgers that cannot be written included.                            *)
(***************************************************************************)
ActivatedOnce ==
  [][Send => Spaced(worker.owner) /\ NewToIt(worker.owner)]_vars
=============================================================================
