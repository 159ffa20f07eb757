------------------------------ MODULE MCProxy ------------------------------
(***************************************************************************)
(* What one request meets on its way, side by side for TLC: the router     *)
(* (Router) with three accounts, so that a selection can have an excluded  *)
(* account, a preferred or preserved one, and a third; the limits its body *)
(* counts against and the scan of its metadata (ReplaySpool,               *)
(* MetadataScan); the handshake of an upgrade (Upgrade); a bridged turn    *)
(* and the history it materializes (BridgeRelay, BridgeHistory); the       *)
(* decoder of the answer (EventStream), what a refusal says of the account *)
(* (Refusals) and what the headers say of its quota (QuotaWindows).  The   *)
(* installed clients' settings (Installs), which bring the requests, are   *)
(* here too.  A behaviour is that of one part; the others stay in their    *)
(* initial states.                                                         *)
(***************************************************************************)
EXTENDS Integers, FiniteSets, TLC

CONSTANTS
  Accounts, Members, Managed, NoAccount, SwitchAt, RedeemAt, FullUsage,
  AutoRedeem, Orders, a1, a2, a3, u, v, w,
  MaxTrouble,   \* bound on the fields that differ from a fresh account
  Pool, Slots, Few, MaxEvents, Nothing,
  Items, MaxItems, MaxNew,
  Names, Contents, MaxDepth, MaxFiles, MaxTokens,
  Bodies, MemoryLimit, HardLimit, GlobalLimit,
  MaxEvent, MaxBytes, MaxChunk,
  Places, Theirs, Bases,
  ShortWindow, LongWindow, ShortPeriod, LongPeriod,  \* the windows of a quota
  Answers,  \* the kinds of answers, and what of the windows they show
  Tolerance, MaxDelay, Default, Longest, Avoid, RetryLimit, Nap, FirstNow, MaxNow, MaxSent,
  Limit, MaxFrames, MaxPieces

VARIABLES
  part,
  runtime, preferred, preserved,
  stage, dispatch, account, capture, fallback, outbox, after, cause, relayed,
  cached, accepted, open, over,
  history, asked, input,
  epoch, blocked, inflight, permits, thread, up, leaked, trouble,
  path, next, parsed, scan, tokens,
  counter, body,
  decoder, decoded, error, fed, ended,
  client, value, record, command, mine, lost,
  now, slept, used, answers, quota, sent, lifted,
  status, reading, complete, verdict

routerVars == <<runtime, preferred, preserved>>
relayVars == <<stage, dispatch, account, capture, fallback, outbox, after,
               cause, relayed, cached, accepted, open, over>>
historyVars == <<history, asked, input>>
upgradeVars == <<epoch, blocked, inflight, permits, thread, up, leaked, trouble>>
scanVars == <<path, next, parsed, scan, tokens>>
spoolVars == <<counter, body>>
streamVars == <<decoder, decoded, error, fed, ended>>
installVars == <<client, value, record, command, mine, lost>>
quotaVars == <<now, slept, used, answers, quota, sent, lifted>>
refusalVars == <<status, reading, complete, verdict>>

\* The two windows that an answer may show.
Windows == {ShortWindow, LongWindow}
Period == [x \in Windows |-> IF x = ShortWindow THEN ShortPeriod ELSE LongPeriod]

R == INSTANCE Router
B == INSTANCE BridgeRelay WITH Accounts <- Pool, shown <- relayed
H == INSTANCE BridgeHistory WITH Refused <- Nothing
U == INSTANCE Upgrade WITH Accounts <- Pool, Upgrades <- Places, MaxTrouble <- Few
M == INSTANCE MetadataScan WITH fed <- tokens, None <- Nothing
S == INSTANCE ReplaySpool WITH Requests <- Bodies
E == INSTANCE EventStream WITH shown <- decoded
I == INSTANCE Installs
F == INSTANCE Refusals
Q == INSTANCE QuotaWindows WITH account <- quota, Full <- 1

\* Of Router's assumption, what a selection and its validation need.
ASSUME SelectionAssumption ==
  /\ Members \subseteq Accounts /\ NoAccount \notin Accounts
  /\ FullUsage \in Nat
  /\ Orders \subseteq (Members \cup {NoAccount}) \X (Members \cup {NoAccount})
ASSUME InstallsAssumption == I!InstallsAssumption
ASSUME RelayAssumption == B!RelayAssumption
ASSUME UpgradeAssumption == U!UpgradeAssumption
ASSUME QuotaAssumption == Q!QuotaWindowsAssumption
ASSUME RefusalAssumption == F!RefusalsAssumption
\* At any time there are finitely many requests.
ASSUME SpoolAssumption ==
  IsFiniteSet(Bodies) /\ HardLimit \in Nat /\ GlobalLimit \in Nat
\* No value at all is none of the names and values that the scanner knows.
ASSUME ScanAssumption ==
  Nothing \notin M!OwnedTypes \cup M!FileTypes \cup
     {"model", "client_metadata", "previous_response_id", "input", "thread_id",
      "file_id", "type"}
ASSUME HistoryAssumption == MaxItems \in Nat /\ MaxNew \in Nat
ASSUME StreamAssumption == MaxEvent \in Nat /\ MaxChunk \in Nat

proxy == <<part, routerVars, relayVars, historyVars, upgradeVars, scanVars,
           spoolVars, streamVars, installVars, quotaVars, refusalVars>>

ProxyInit ==
  /\ part \in {"router", "relay", "history", "upgrade", "scan", "spool",
               "stream", "installs", "quota", "refusal"}
  /\ R!RouterInit /\ B!Init /\ H!Init /\ U!Init /\ M!Init /\ S!Init /\ E!Init
  /\ I!Init /\ Q!Init /\ F!Init
  /\ part # "router" => preferred = NoAccount /\ preserved = NoAccount
  /\ part # "upgrade" => thread = NoAccount
  /\ part # "history" => history = <<>>
  /\ part # "refusal" => status = "success"
  /\ part # "installs" =>
       /\ client = "codex"
       /\ value = [p \in Places |-> CHOOSE t \in Theirs : TRUE]

ProxyNext ==
  /\ UNCHANGED part
  /\ \/ /\ part = "router" /\ R!RouterNext
        /\ UNCHANGED <<relayVars, historyVars, upgradeVars, scanVars,
                       spoolVars, streamVars, installVars, quotaVars, refusalVars>>
     \/ /\ part = "relay" /\ B!Next
        /\ UNCHANGED <<routerVars, historyVars, upgradeVars, scanVars,
                       spoolVars, streamVars, installVars, quotaVars, refusalVars>>
     \/ /\ part = "history" /\ H!Next
        /\ UNCHANGED <<routerVars, relayVars, upgradeVars, scanVars,
                       spoolVars, streamVars, installVars, quotaVars, refusalVars>>
     \/ /\ part = "upgrade" /\ U!Next
        /\ UNCHANGED <<routerVars, relayVars, historyVars, scanVars,
                       spoolVars, streamVars, installVars, quotaVars, refusalVars>>
     \/ /\ part = "scan" /\ M!Next
        /\ UNCHANGED <<routerVars, relayVars, historyVars, upgradeVars,
                       spoolVars, streamVars, installVars, quotaVars, refusalVars>>
     \/ /\ part = "spool" /\ S!Next
        /\ UNCHANGED <<routerVars, relayVars, historyVars, upgradeVars,
                       scanVars, streamVars, installVars, quotaVars, refusalVars>>
     \/ /\ part = "stream" /\ E!Next
        /\ UNCHANGED <<routerVars, relayVars, historyVars, upgradeVars,
                       scanVars, spoolVars, installVars, quotaVars, refusalVars>>
     \/ /\ part = "installs" /\ I!Next
        /\ UNCHANGED <<routerVars, relayVars, historyVars, upgradeVars,
                       scanVars, spoolVars, streamVars, quotaVars, refusalVars>>
     \/ /\ part = "quota" /\ Q!Next
        /\ UNCHANGED <<routerVars, relayVars, historyVars, upgradeVars,
                       scanVars, spoolVars, streamVars, installVars, refusalVars>>
     \/ /\ part = "refusal" /\ F!Next
        /\ UNCHANGED <<routerVars, relayVars, historyVars, upgradeVars,
                       scanVars, spoolVars, streamVars, installVars, quotaVars>>

ProxySpec == ProxyInit /\ [][ProxyNext]_proxy

Trouble ==
  Cardinality({af \in Accounts \X DOMAIN R!FreshRuntime :
                 runtime[af[1]][af[2]] # R!FreshRuntime[af[2]]})

Bounded == Trouble <= MaxTrouble

AllOrders ==
  {o \in (Members \cup {NoAccount}) \X (Members \cup {NoAccount}) :
     o[1] = o[2] => o[1] = NoAccount}

\* Answers that show the short window, the long one or both, in every form.
AnswerForms ==
  LET A(kind, said, wait) ==
        {[kind |-> kind, shown |-> x[1], form |-> x[2], wait |-> wait] : x \in said}
      both == {<<{ShortWindow}, "used">>, <<{ShortWindow}, "used at">>, <<Windows, "used at">>}
      own == {<<Windows, "used after">>}
      long == {<<{LongWindow}, "used at">>}
  IN  A("headers", both \cup own \cup long \cup {<<{ShortWindow}, "at">>, <<{}, "legacy">>}, -1)
      \cup A("rejection", both \cup own \cup {<<{}, "used">>}, -1)
      \cup A("rejection", {<<{ShortWindow}, "used at">>}, 1)
      \cup A("poll", both \cup long, -1)

Symmetry == Permutations({a1, a2}) \cup Permutations({u, v})

\* The invariant of each part, with the type invariant it rests on.
SelectedIsValid == part = "router" => R!RouterTypeOK /\ R!SelectedIsValid
OneAnswer == part = "relay" => B!TypeOK /\ B!OneAnswer /\ B!AcceptedNotRetryable
NothingGuessed == part = "history" => H!TypeOK /\ H!NothingGuessed
HandshakesStay ==
  part = "upgrade" =>
    U!TypeOK /\ U!HandshakesStay /\ U!CountsHaveOwners /\ U!SlotsHaveOwners
OwnershipSeen == part = "scan" => M!OwnershipSeen /\ M!ModelAgrees
SpoolBounded == part = "spool" => S!SpoolBounded /\ S!CounterExact
ChunksDontMatter == part = "stream" => E!ChunksDontMatter
OriginalKept == part = "installs" => I!TypeOK /\ I!OriginalKept
QuotaHolds ==
  /\ part = "quota" => Q!RetryIsEnough /\ Q!LiftedAfterReset
  /\ part = "refusal" => F!TypeOK /\ F!BlamesTheAccount /\ F!CarriersAgree
=============================================================================
