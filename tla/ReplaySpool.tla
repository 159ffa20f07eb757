---------------------------- MODULE ReplaySpool ----------------------------
(***************************************************************************)
(* Request bodies kept for a second attempt, and the one counter that      *)
(* bounds them all (src/proxy/replay_body.rs: Reservation, ReplayBody).    *)
(*                                                                         *)
(* A body that is being read reserves what it has read; the finished body  *)
(* takes the reservation over, and translation hands the bytes out and     *)
(* may wrap what it makes of them again.  The counter is an atomic that    *)
(* every request adds to before it looks, so it may be over the limit for  *)
(* a moment.                                                               *)
(***************************************************************************)
EXTENDS Integers, Functions

CONSTANTS
  Requests,
  MemoryLimit,    \* replay_memory_bytes
  HardLimit,      \* max_request_bytes
  GlobalLimit     \* max_spool_bytes

VARIABLES
  counter,        \* stats.active_spool_bytes
  body            \* the body of each request

vars == <<counter, body>>

-----------------------------------------------------------------------------
(* State.                                                                  *)

(***************************************************************************)
(* `size` is what the request accounts for: its reservation's bytes, or    *)
(* its body's len.  `adding` was added to the counter and not yet judged;  *)
(* `files` are the spool files that an attempt may still take.             *)
(***************************************************************************)
None == [stage |-> "none", size |-> 0, adding |-> 0, over |-> FALSE, files |-> {}]

Init ==
  /\ counter = 0
  /\ body = [r \in Requests |-> None]

At(r, s) == body[r].stage = s

-----------------------------------------------------------------------------
(* Reading (read) and wrapping (from_bytes).                               *)

Start(r) ==
  /\ At(r, "none")
  /\ body' = [body EXCEPT ![r].stage = "reading"]
  /\ UNCHANGED counter

\* Mutant: the limit is compared with what was read before this frame.
FrameJudgedBefore(r, n) ==
  /\ At(r, "reading") /\ body[r].size + n <= HardLimit
  /\ counter' = counter + n
  /\ body' = [body EXCEPT ![r] = [@ EXCEPT !.stage = "adding", !.adding = n,
                                    !.over = counter > GlobalLimit]]

\* The next frame: counted first.  Over the request's own limit it is not.
Frame(r, n) ==
  /\ At(r, "reading") /\ body[r].size + n <= HardLimit
  /\ counter' = counter + n
  /\ body' = [body EXCEPT ![r] = [@ EXCEPT !.stage = "adding", !.adding = n,
                                    !.over = counter + n > GlobalLimit]]

Wrap(r, n) ==
  /\ At(r, "none") /\ n <= HardLimit
  /\ counter' = counter + n
  /\ body' = [body EXCEPT ![r] = [@ EXCEPT !.stage = "wrapping", !.adding = n,
                                    !.over = counter + n > GlobalLimit]]

KeptThen(r, s) == [stage |-> s, size |-> body[r].size + body[r].adding, adding |-> 0,
                   over |-> FALSE, files |-> {}]

\* Within the limit the reservation grows.
Added(r) ==
  /\ At(r, "adding") /\ ~body[r].over
  /\ body' = [body EXCEPT ![r] = KeptThen(r, "reading")]
  /\ UNCHANGED counter

Wrapped(r) ==
  /\ At(r, "wrapping") /\ ~body[r].over
  /\ body' = [body EXCEPT ![r] = KeptThen(r, "memory")]
  /\ UNCHANGED counter

\* Beyond it the addition is taken back and the request fails.
Refused(r) ==
  /\ At(r, "adding") \/ At(r, "wrapping")
  /\ body[r].over
  /\ counter' = counter - body[r].adding
  /\ body' = [body EXCEPT ![r] = [@ EXCEPT !.stage = "failed", !.adding = 0]]

\* A frame too many, a timeout, an error of the client or of the spool file,
\* or a client that leaves.
Broken(r) ==
  /\ At(r, "reading")
  /\ body' = [body EXCEPT ![r].stage = "failed"]
  /\ UNCHANGED counter

\* Drop of the reservation.
Failed(r) ==
  /\ At(r, "failed")
  /\ counter' = counter - body[r].size
  /\ body' = [body EXCEPT ![r] = None]

\* The end: reservation.bytes = 0, and the body's len takes its place.
Complete(r) ==
  /\ At(r, "reading")
  /\ body' = [body EXCEPT ![r] =
                IF body[r].size <= MemoryLimit
                THEN [@ EXCEPT !.stage = "memory"]
                ELSE [@ EXCEPT !.stage = "files", !.files = {0, 1}]]
  /\ UNCHANGED counter

-----------------------------------------------------------------------------
(* Use.                                                                    *)

\* A body in memory is copied for every attempt; of the spool's two handles
\* each attempt takes its own.
Attempt(r, n) ==
  /\ At(r, "files") /\ n \in body[r].files
  /\ body' = [body EXCEPT ![r].files = @ \ {n}]
  /\ UNCHANGED counter

\* into_bytes: handed out, or the spool cannot be read, which drops the body.
HandOut(r) ==
  /\ At(r, "memory") \/ (At(r, "files") /\ 0 \in body[r].files)
  /\ counter' = counter - body[r].size
  /\ body' = [body EXCEPT ![r] = None]

Dropped(r) ==
  /\ At(r, "memory") \/ At(r, "files")
  /\ counter' = counter - body[r].size
  /\ body' = [body EXCEPT ![r] = None]

Next ==
  \E r \in Requests :
    \/ Start(r) \/ Added(r) \/ Wrapped(r) \/ Refused(r) \/ Broken(r) \/ Failed(r)
    \/ Complete(r) \/ HandOut(r) \/ Dropped(r)
    \/ \E n \in 1..HardLimit : Frame(r, n) \/ Wrap(r, n)
    \/ \E n \in {0, 1} : Attempt(r, n)

Spec == Init /\ [][Next]_vars

-----------------------------------------------------------------------------
(* Properties.                                                             *)

Total(f) == FoldFunction(+, 0, f)

(***************************************************************************)
(* What requests hold together never exceeds the limit, however their      *)
(* additions interleave, and the counter is exactly what they hold and add:*)
(* no way out of a request leaves bytes behind or gives some back twice.   *)
(***************************************************************************)
SpoolBounded ==
  Total([r \in Requests |-> body[r].size]) <= GlobalLimit

CounterExact ==
  counter = Total([r \in Requests |-> body[r].size + body[r].adding])
=============================================================================
