------------------------------ MODULE MCLanes ------------------------------
(***************************************************************************)
(* The ways a client is served, side by side for TLC: a bridged session    *)
(* (BridgeTurns), a direct one (DirectSocket), the control chain a direct  *)
(* one may become (NativeChain), and the body of the answer to an HTTP     *)
(* request (ResponseBody).  A behaviour is that of one lane; the others    *)
(* stay in their initial states.                                           *)
(***************************************************************************)
EXTENDS BridgeTurns, FiniteSets

CONSTANTS
  Accounts, Creates, MaxTurns, MaxQueued, MaxSends, MaxSockets,
  Calls, Steers, MaxControls, MaxResponses,
  Ids, Keys, None, MaxFrames

VARIABLES
  lane,
  place, account, socket, pinned, directTurns, queued, awaiting, candidate,
  signal, delivered, ends,
  alive, multi, responses, offered, submitted, injection, steers, accepted,
  successor, continuation, controls, holds,
  body, arrived, broken, polled, idle, observer, binding, held, client, known,
  owned, unbound, health

directVars == <<place, account, socket, pinned, directTurns, queued, awaiting,
                candidate, signal, delivered, ends>>
nativeVars == <<alive, multi, responses, offered, submitted, injection, steers,
                accepted, successor, continuation, controls, holds>>

bodyVars == <<body, arrived, broken, polled, idle, observer, binding, held,
              client, known, owned, unbound, health>>

D == INSTANCE DirectSocket WITH turns <- directTurns
N == INSTANCE NativeChain
H == INSTANCE ResponseBody WITH bound <- owned

\* What the proofs need of the constants.
ASSUME ChainAssumption == MaxControls \in Nat /\ MaxResponses \in Nat \ {0}
ASSUME DirectAssumption ==
  /\ MaxTurns \in Nat /\ MaxSends \in Nat \ {0} /\ MaxSockets \in Nat \ {0}
  /\ Accounts # {} /\ Creates \subseteq D!Create
\* The request's keys are finitely many; nothing is neither a sequence, nor an
\* observation, nor a failure.
ASSUME BodyAssumption ==
  /\ IsFiniteSet(Keys) /\ None \notin H!Failures
  /\ None \notin Seq([step : {"health", "bind"}, of : H!Failures \cup Ids \cup Keys])
  /\ None \notin [ids : Seq(Ids), failure : H!Failures \cup {None}, terminal : BOOLEAN]

MakeCreate(resend, sealed) ==
  [anchored |-> TRUE, resend |-> resend, file |-> FALSE, sealed |-> sealed,
   owned |-> FALSE]

\* Two continuations: one that can be resent without its anchor (and is then
\* like a create that has none), one whose state only its issuer can read.
SomeCreates == {MakeCreate(TRUE, FALSE), MakeCreate(FALSE, TRUE)}

lanes == <<lane, vars, directVars, nativeVars, bodyVars>>

\* The accounts are alike, and a chain that is not the lane's has one state.
LanesInit ==
  /\ lane \in {"bridge", "direct", "native", "http"}
  /\ Init
  /\ D!Init /\ account = CHOOSE a \in Accounts : TRUE
  /\ N!Init /\ (lane # "native" => offered = {} /\ ~multi)
  /\ body \in IF lane = "http" THEN H!Bodies ELSE {CHOOSE b \in H!Bodies : TRUE}
  /\ known \in IF lane = "http" THEN BOOLEAN ELSE {FALSE}
  /\ H!Init

LanesNext ==
  /\ UNCHANGED lane
  /\ \/ lane = "bridge" /\ Next /\ UNCHANGED <<directVars, nativeVars, bodyVars>>
     \/ lane = "direct" /\ D!Next /\ UNCHANGED <<vars, nativeVars, bodyVars>>
     \/ lane = "native" /\ N!Next /\ UNCHANGED <<vars, directVars, bodyVars>>
     \/ lane = "http" /\ H!Next /\ UNCHANGED <<vars, directVars, nativeVars>>

\* The fairness of each module.
LanesSpec ==
  /\ LanesInit /\ [][LanesNext]_lanes
  /\ WF_vars(lane = "bridge" /\ LoopWork)
  /\ WF_vars(lane = "bridge" /\ WriterWork)
  /\ \A g \in Generation : WF_vars(lane = "bridge" /\ Dropped(g))
  /\ WF_directVars(lane = "direct" /\ D!Handle)
  /\ WF_directVars(lane = "direct" /\ D!MissingCreated)

\* The lanes' invariants, with the type invariants they rest on.  NoStaleWrite
\* and CompletedIsContinuable are those of BridgeTurns.
TurnsAnswered ==
  D!TypeOK /\ D!OneAttemptShown /\ D!OneUnacknowledged /\ D!AnsweredOnce
ChainKept == N!TypeOK /\ N!ResultOnce /\ N!ContinuationTimed
OriginalSocket == D!OriginalSocket
BodyEndsBound == lane = "http" => H!BodyEndsBound

\* Neither loop stops, and no create waits for ever behind another.
LanesGoOn == LoopReturns /\ D!QueuedAreHandled
=============================================================================
