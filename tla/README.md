# A TLA+ model of comradex

comradex is a local proxy in front of several ChatGPT/Codex and Claude
accounts.  Every request of a client is placed on one account of a pool; a
conversation that upstream ties to an account must stay on it; an account that
is out of quota, rejected or logging in must not be used; a failure is retried
elsewhere only when that is safe.  These modules model the parts of the Rust
daemon (`src/src`) in which that is decided, TLC checks them on small
instances, and TLAPS proves what matters most for every instance.

Paths below are relative to the repository; `proxy/…`, `routing/…` and the like
are under `src/src/`, and `mod.rs` is `src/src/proxy/mod.rs`.

## The system and its parts

| part | state it keeps | operations | how it interacts | what makes it correct |
|---|---|---|---|---|
| router (`routing/router.rs`) | health, usage windows and backoff of each account; the preferred and preserved roles | select, validate, begin/end, failures, observations, login | called by every lane; reads bindings and epochs from the affinity store between two locks of its own | selectors and validators agree, while each role is published on its own; soft preferences stay soft; a block holds as long as the quota it stands for |
| affinity store (`routing/affinity.rs`) | bindings of continuity keys, an epoch per account, durable | get, put, account_epoch, invalidate_account, expiry | one worker thread, one job at a time; jobs can fail | a token's owner is never another account |
| HTTP dispatch (`mod.rs`, `handle_http_replay_with_routing_anchor`) | the handler's local variables, permits, leases; the body on its way back | look up owners, select, resolve, validate, send, retry, observe, bind | router, store, credentials, upstream, client | hard continuity, the fence, bounded retries, no leaked lease, a completion bound before it is seen |
| managed credentials (`auth.rs`, `auth_lock.rs`) | a credential file per home, health by fingerprint | resolve, refresh, reject, login | file locks between processes, an OAuth server | a grant is not spent twice, a newer login is not overwritten |
| WebSocket bridge (`mod.rs`) | table of sessions; active turn, generation, cached history | admit, evict, idle out, replace a turn, write, dispatch again | shares the HTTP dispatch per turn | bounded sessions, no frame of an old turn, one attempt shown, no guessed history |
| direct and raw WebSocket lanes (`mod.rs`, `proxy/websocket_protocol.rs`, `proxy/accepted_retry.rs`, `proxy/native_control.rs`) | a socket's account, turn states, pending controls | connect, replay, queue, steer, inject, continue | router, store | one answer per create, no socket swapped under an interrupted response, no tool result twice |
| session routes (`routing/affinity/sessions.rs`) | an account per session, revisions | move, reset, observe | store, dispatch (pins) | a late response does not undo a move |
| live calls (`routing/live.rs`) | owners of calls in a bounded table, with a snapshot | bind, look up, expire | the control socket | an answered call stays with its account |
| reset credits (`proxy/reset_credits.rs`) | the attempt in flight per account | redeem, retry, confirm; sweep | router, upstream | one credit per window, a late confirmation lifts nothing newer |
| usage (`proxy/usage_activation.rs`, `usage.rs`) | observations, the activation ledger | poll, activate | router | a window is not activated twice |
| control server and configuration (`control.rs`, `config.rs`, `accounts.rs`, `main.rs`) | the configuration file, the login slot | edit, reload, start, stop | router, file system, command line | a saved edit is used |
| context store (`proxy/context*.rs`) | participants of a session, notes | note, history | accounts | notes of one user, complete history |
| replay bodies (`proxy/replay_body.rs`), events (`proxy/sse.rs`) | spools behind one counter, scanner and decoder states | reserve, scan, parse | dispatch | the bound holds, the owner is seen, cuts do not matter |
| Claude lane (`claude/*`, `proxy/claude*`) | a ladder of owners per session, credentials of a home | choose, move, bind, refresh, repair | router, OAuth server | a signed conversation stays readable, a grant survives |
| startup, shutdown, service, installation (`main.rs`, `service.rs`, `install.rs`) | tracked tasks; launchd's job; clients' settings | spawn, abort, bootstrap, bootout, install, uninstall | launchd, the user's files | nothing outlives the shutdown, the service comes back, originals survive |
| browser, processes, desktop pages, transport, headers, apps | — | platform integration | — | — |

The hard behaviours are these.  Every `await` of a handler is a point where
anything else may happen: an account's credential fails and its bindings are
invalidated, a login starts, quota runs out, an operator changes a role, the
client leaves, the daemon restarts.  Retries are written in several places and
share counters.  The store can fail at any job.  Releases of in-flight work are
tasks of their own.  Answers come late, twice or not at all.  `PROJECT.json`
lists each hazard at its line with the properties about it.

## The modules

Each module is one component; `MC…` modules compose those that run side by side
for TLC.

| module | models | state and steps |
|---|---|---|
| `Router` | the `accounts` mutex of the router and the two role mutexes | predicates, selection (`FreshChoices`, `BoundEligible`), validation (`RuntimeStale`, `OrderStale`), one action per operation that changes an account |
| `QuotaWindows` | the same state of one account with its instants | two clocks, answers that show windows absolutely or relatively, late and out of order; blocks, their evidence and `no_eligible_response` |
| `Affinity` | the jobs of the database worker | operators `Lookup`, `Epoch`, `Put`, `InvalidateAccount`, `Expire` |
| `Dispatch` | the HTTP handler composed with `Router` and `Affinity` | `pc[r]` is the await a request stands at, `req[r]` its local variables |
| `Continuity`, `DispatchImplements` | what dispatch promises of continuity, without router, store or failures; the refinement mapping | |
| `ResponseBody` | `LeasedIncoming` and the observer: a body frame by frame, its idle timer, hyper's polling, its binding | `polled`, `held`, `binding` |
| `Refusals` | the inspection of a rejection's body and the one classification of failures all lanes share | `reading`, `verdict`; `Kind`, `TerminalKind`, `BodyKind` |
| `AuthRefresh` | the credential file of one managed account, shared by processes | `pc[t]` is the await of a call |
| `BridgeSessions` | the bounded table of HTTP bridge sessions | `pc[c]` is where the handler of an upgrade, and later its session task, stands |
| `BridgeTurns` | one bridge session: its loop, the turn task of each generation, channel and writer | `loop`, `turns[g]`, `writer` |
| `BridgeRelay` | one turn between its create and its last frame: two dispatches, lifecycle buffer, relay | `stage`, `fallback`, `outbox` |
| `BridgeHistory` | how an incremental create is materialized from the cached history | `history`, `asked`, `input` |
| `DirectSocket` | the loop of a direct session: creates over one socket, replays, queue, buffer, watchdogs | one action per frame, deadline or signal |
| `NativeChain` | the control chain a direct socket may become: steers, injections, continuations | `holds`, `pending`, `continuation` |
| `Upgrade` | the handshake of any WebSocket and the sockets opened later | `thread`, `permits`, `inflight` |
| `SessionRoutes`, `LiveCalls`, `ContextStore`, `UsageActivation` | the parts of those names | one action per operation and per job |
| `ResetCredits`, `AutoRedeem` | one redemption with its retries and its confirmation; who redeems, the sweep or an operator | attempts, posts on their way, what the provider did |
| `ClaudeSession`, `ClaudeAuth` | `handle_claude` for one session; the credentials of a Claude home | one action per step under the gate; per task and lock |
| `Daemon` | the configuration file, its editors, the daemon that loads it | file, daemon's copy, router's copy, handlers, commands |
| `TaskSet` | tracked tasks and connections and the shutdown that ends them | the set, its lock, the flag |
| `ServiceAgent`, `Installs` | the launchd agent and its commands; the clients' settings and the record of their originals | one action per step of a command |
| `ReplaySpool`, `MetadataScan`, `EventStream` | the counter that bounds kept bodies; the scan of a body beside a parser; the decoder of event streams | one action per frame, token, chunk |
| `MCDispatch`, `MCAuthRefresh`, `MCBridgeSessions` | instances for TLC | |
| `MCProxy`, `MCHost`, `MCLanes`, `MCParts` | several parts side by side: a behaviour is that of one part, the others stay in an initial state | `part`, `lane` |
| `DispatchProofs` (with the router), `ProxyProofs`, `BodyProofs`, `StreamProofs`, `HostProofs`, `LanesProofs`, `PartsProofs`, `AuthRefreshProofs` | theorems | |

`MCProxy` has the router with its roles, `Upgrade`, `BridgeRelay`,
`BridgeHistory`, `MetadataScan`, `ReplaySpool`, `EventStream`, `Refusals`,
`QuotaWindows` and `Installs`; `MCHost` has `BridgeSessions`, `Daemon`,
`TaskSet`, `ServiceAgent` and `ClaudeAuth`; `MCLanes` has `BridgeTurns`,
`DirectSocket`, `NativeChain` and `ResponseBody`; `MCParts` has the rest.  The
parts of one MC module share no state in the model; in the code they meet in
the router, whose state each takes as a choice among what it may be.

### HTTP dispatch

A step is what the handler does between two awaits that matter: a critical
section of the router, a job of the store, the resolution of credentials, an
answer.

| place `pc[r]` | the handler is about to |
|---|---|
| `owners` | look up the owner of one more anchor (mod.rs 1745), then compare with the pin |
| `exact`, `lookup`, `lookupEpoch`, `pick`, `stamp`, `prebind` | run `select_exact` or `select_with_preference`, one store job or router section at a time |
| `resolve` | resolve the account's credentials (top of the dispatch loop) |
| `probe`, `epoch`, `binding`, `order` | run `validate_selection`, one part at a time |
| `wire` | take a permit, begin the work, send |
| `sent` | receive upstream's answer |
| `refresh` | wait for the forced refresh after a 401 |
| `turnEpoch`, `turnPut` | bind the turn state before returning the head |
| `streaming`, `bindEpoch`, `bindPut` | pass the body on and bind what its terminal established |
| `relay` | pass an error answer's body on |

`Release` is the drop of a lease: it spawns a task, `ends`, which calls
`router.end` later (`End`).  `AuthFailure` and `Invalidate` are the two halves
of `auth_failure`, which other lanes call.  `RouterChange` is everything else
that changes the router: logins, cooldowns, observations, role edits.
`Restart` ends every task and keeps the store.

In `Router` and `Dispatch` instants are flags that say whether a deadline is in
the future, and their passing is an action; usage has `FullUsage + 1` levels;
the surplus of a preserved account and the redeemable credits are one bit each,
which an observation may set as it likes; the placement rate is a free choice
among the accounts the rest of the ranking leaves; session routes and
configured pins are the request's `pin`; a body is portable or not.
`QuotaWindows` has the instants: time in half seconds, so that rounding to
seconds shows; a wall clock and a monotonic one; answers at most `MaxDelay`
late, less than the tolerance by which the code tells one cycle's reset from
another's.  One account stands for all there, since accounts share no window.

`ResponseBody` has the body that `Dispatch` calls `streaming` frame by frame.
A body of a slow reader runs into the same idle timer as a silent upstream:
the timer runs from one frame taken to the next.  `Refusals` has the choice of
an account's mark: the body outranks the status line, and a body that was not
read to its end says nothing.  A text there is what it stands for (a code of a
quota, a message of one, …).

### Bridge

In `BridgeSessions` the table's mutex makes one admission's look at it atomic;
what a session or its turn does to its activity is not under that mutex.

| place `pc[c]` | code |
|---|---|
| `subscribe`, `lock`, `unlocked`, `wait`, `reclaimed` | `admit_bridge_session`: create the `Notified` future; look at the table; have released it; poll the future; have removed an entry and not yet told the others |
| `admitted` | `handle_responses_http_bridge` awaits the task set's lock in `spawn_tracked` |
| `upgrade`, `failed` | the session task awaits the upgrade; it failed |
| `open`, `create`, `uncreate` | the session's loop selects; handles a `response.create` with the turn guard held; has just dropped it |
| `stop`, `evicted`, `finish`, `told` | the loop is left; `finish_bridge_session` before and after it removed the entry |

`listening` models `tokio::sync::Notify`: `notify_waiters` reaches every future
created before the call, polled or not.  `turn[c]` is the turn task; while it
is `dropping` its guard has lowered `active_turns` and not yet notified.

In `BridgeTurns` a turn is named by its generation.  `loop` is the await of
`run_responses_http_bridge`, `turns[g]` that of the turn's task, `writer` that
of the writer task.  The frames that matter are `created`, `completed`,
`error` and `close`.  It relies on upstream's protocol in one point:
`response.created` comes before `response.completed`.  What a turn retries
before its answer is in `BridgeRelay`.  `BridgeHistory` compares items by
value; a delta that begins with the whole cached history is read as a full
resend, as the code reads it.

### Direct lane

The loop of `run_responses_direct` handles one frame, deadline or signal at a
time, so a handler is one action of `DirectSocket`; what other tasks decide
meanwhile (a refresh, a selection, a connection) is a choice among the
outcomes.  `Planned`, `Replays` and `Closes` are the replay ladder, `Alone` the
conditions under which a socket may be replaced.  The pins a frame's route
finds, the health a failure records and the bindings of a turn are what
`Dispatch` has for HTTP and are not repeated.  `Opaque` is a frame that is no
JSON: it is passed on and belongs to no turn.  In `NativeChain` upstream answers
as it likes, except that it offers a tool call once.

### Credentials

In `AuthRefresh` a bearer or a grant is the number under which the OAuth server
issued it.  `call[t]` is the entry point a task runs: `resolve`, `force`
(force_refresh after a 401), `again` (the resolve of a dispatch after a
refresh) or `sweep` (proactive_refresh_at).  The members of `Fetches` are
`fetch_managed_usage_account_locked`, which uses the bearer that force_refresh
returned; the other requests are HTTP dispatches, which resolve again and
remember a bearer that fails twice.

| place `pc[t]` | code |
|---|---|
| `idle` | about to resolve, without any lock |
| `mutex` | waits for the home's mutex of its process (a sweep also: for its interval) |
| `home` | waits for the file lock (`HomeAuthLock::acquire_async`), with the mutex |
| `posted` | the grant is on its way to the server, with both locks |
| `answered`, `refused` | the server has answered; the handler has not yet read it |
| `use` | a request has a bearer |
| `reject` | a dispatch's recovery was in vain: `reject_account_bearer` |

`failures[p]` is `ManagedAuthHealth` of one process: it dies with it.  `spent`,
`lost`, `revoked` and `strays` are the server's side, `lost` the grants whose
successor nobody was told.  The server replaces the grant or keeps it, and may
repeat a bearer.  A login's child writes credentials, or moves them away from
the file, as often as it likes; when its process is stopped it is killed or
goes on without the lock (`stray`), which `LoginKept` and `QuarantineHolds`
exempt.

`ClaudeAuth` has the same hazard in another design: resolutions run in tasks of
their own, which their callers may leave, so that an answer of the server is
written even when nobody waits for it; a failed home is marked until another
program repairs it.

### The other parts

* `SessionRoutes`: a request reads the records of its thread and session once
  and carries that snapshot through its dispatch; every job of the database is
  a step, and the operator's edits fall between any two.  The placement key of
  that snapshot is where the selection binds, before anything is sent (`Select`),
  where a handshake's second selection binds again (`Retry`), and where an
  answer binds (`Answer`); an owner or an assignment places nothing.
  `chosenSince` is history: the accounts chosen for requests admitted after a
  record's last edit.
* `LiveCalls`: the table's lock is held across the write of the snapshot, so an
  operation is one step; a restart loads what was written.
* `ResetCredits` and `AutoRedeem`: `use_reset_credit` twice, for two questions.
  The first has the attempt, its POSTs, whose answers may be late or lost, and
  the confirmation that lifts a block while rejections go on arriving;
  `unspent` is history: the attempts whose credit no request had spent when
  they were kept, which is what the property needs (see the findings).  The
  second has the decision: the sweep reads, waits for other accounts, settles an
  attempt it finds and redeems on its reading, an operator beside it.  A
  reading is in three steps, of which the highest is
  `AUTO_REDEEM_AT_PERCENT`; what else holds the sweep back (gain, buffer, marks
  of earlier attempts) may always do so; identities are fixed; an answer that
  there is no credit is left out.
* `UsageActivation`: a reset is the number of its cycle, the clock counts parts
  of the cooldown.  A record belongs to a quota's owner.
* `ContextStore` and `ClaudeSession` have logins that replace an alias's user.
  After a 401 the Claude lane sends once more as whoever is logged in by then,
  without looking at the identity again; `as` is the user of the send under way,
  while the answer is recorded for the user of the first one (`mistaken`, see
  the findings).
* `Daemon`: an edit of a handler, from reading the file to replacing it, does not
  yield and is one step; a handler in such a part while the daemon stops is
  taken to finish it first.  Commands that edit without the daemon do it in the
  steps they have.
* `TaskSet`: an aborted task ends at its next await; a stream of HTTP/2 is a task
  of hyper's own and not in the set.
* `ServiceAgent`: launchd acknowledges a bootout before the job is gone; a
  command may fail or be killed between any two steps, one command at a time.
* `Installs`: three clients with three orders of writing value and record.
* `ReplaySpool`: the counter is added to before it is looked at, so it may be
  over the limit for a moment, by what the requests at that point have added.
* `MetadataScan`: a document is fed one token at a time to the scanner and to a
  parser, which finds what the socket lanes look for in a parsed frame.  Of a
  file reference only `file_id` is there: `image_url: sediment://…`, which the
  socket lanes look for (`proxy/websocket_protocol.rs` 1518), the scan does not.
* `EventStream`: bytes are classes; the last line of a block may end in two
  carriage returns when a chunk was cut between them.
* `Upgrade`: `leaked` counts the in-flight counts of handlers that were dropped
  between `begin` and the lease (see the findings).  A session that was told to
  make room may still replace its socket before it reads the signal.

## What the runs check

| run | question | instance and bounds |
|---|---|---|
| `proxy` | does each part that a request meets keep its promise? selectors agree with validators, but for an account with both roles that is held back (`SelectedIsValid`), one attempt of a bridged turn is shown (`OneAnswer`), of a history that may or may not be repeated nothing is doubled, dropped or guessed (`NothingGuessed`), handshakes keep selection, counts and slots (`HandshakesStay`), the scan sees what ties a body to its account (`OwnershipSeen`), spools keep their bound (`SpoolBounded`), cuts of a stream do not matter (`ChunksDontMatter`), originals survive (`OriginalKept`), a block holds as long as its quota and a refusal blames an account only for what was read to the end (`QuotaHolds`) | 3 accounts and all role orders, published one by one or in pairs, at most `MaxTrouble` flags away from fresh; 2 accounts and 1 slot for handshakes; documents of 11 tokens, 3 deep; streams of 7 bytes in chunks of 3; 3 bodies against 1/3/4 units; clock to 8 half seconds; bodies with 2 pieces of evidence |
| `continuity` | is a stale selection ever sent (`FencedDispatch`); does a request with an owner drag a shared cohort along (`CohortsStay`); does `Dispatch` implement `Continuity` (`PromiseKept`)? | 2 accounts, 3 requests of which the third continues the first two, 1 invalidation; `Scenario` keeps the invalidation and the third request apart |
| `failing_store` | does hard continuity survive failing jobs, expiry, invalidation and restart (`AnchoredSends`, `ExposedTurnsHaveOwners`); does every request end and is every lease released (`RequestsEnd`)? | 2 accounts, 2 requests, the second carries two tokens of the first; `FairSpec` |
| `retries` | do four kinds of retry together stay within the budget, keep a body that cannot move, and release every lease exactly once (`RetriesKeepBounds`)? | 1 request without an anchor, pinned or not, movable or not, all answers and disruptions; the theorem has the anchored ones too |
| `host` | do running sessions stay within the bound and is no admission forgotten (`RunningHoldsSlot`, `NoLostWakeup`); is a saved edit used (`SavedIsUsed`); does a Claude grant survive (`GrantKept`); does the loaded job match the plist (`InstalledRuns`); does nothing outlive the shutdown; do admissions, evictions and repairs go on (`HostGoesOn`)? | 3 clients, 1 slot; 2 accounts, 2 handlers, 2 edits; 2 callers, 3 credentials, 2 troubles; 3 tasks, 2 connections |
| `lanes` | can a replaced turn write after its replacement (`NoStaleWrite`); can a client continue what it has seen complete, unless the store refused its owner (`CompletedIsContinuable`, `BodyEndsBound`); is every create answered once (`TurnsAnswered`), no tool result submitted twice (`ChainKept`), no socket swapped under an interrupted response (`OriginalSocket`); do the loops go on (`LanesGoOn`)? | bridge: 2 creates or closes, 1 ping, a channel of 1 frame; direct: 2 creates, 1 queued, 3 sends, 3 sockets; chain: 2 calls, 2 steers, 5 controls; bodies of 2 frames |
| `parts` | do the parts that meet only in the router keep their promises? | 2 accounts; 2 edits; 4 calls in a table of 2; 2 credits, 2 operators, 2 windows; 1 login; a clock of 4, 1 cycle, 1 stream |
| `auth_refresh` | does sharing an account ever cost a login (`NoNeedlessLogin`); is a login overwritten (`LoginKept`); does a rejected bearer stay rejected (`QuarantineHolds`); is an idle account kept fresh (`KeptFresh`)? | a dispatch and a fetch in one process, a sweep and a login in another; 3 bearers, 1 fault, a memory of 1 bearer; `FairSpec` |
| `fence_unreadable` | (violation) does the fence hold when epoch reads fail? | 1 request, `StoreMayFail` |
| `unauthorized_crosses` | (violation) does a 401 never cross accounts? | 1 request |
| `bridge_orphan` | (violation) does an entry that was told to close leave the table? | 3 clients, 1 slot, handlers may be dropped |
| `bridge_evict_active` | (violation) is a session with an active turn never evicted? | 3 clients, 1 slot, no disruption |

Why these bounds are enough.  Two accounts suffice to send to the wrong one;
the ranking looks at the preferred account, the preserved one and one other,
hence three where it is checked.  A request makes at most two sends and four
passes of the loop; the second request of a run is what makes a binding or an
epoch change under the first.  `MaxEpoch` bounds invalidations: one between any
two steps is what the fence is about, more repeat it.  With one slot and three
clients, two admissions wait for one session.  Two generations are a replaced
turn and its replacement, and a channel of one frame (eight in the code) is
full whenever it is not empty, which is when senders wait.  Three sends of a
direct create are the first, the one after a refresh and the one on another
account.  Three bearers are the first, its successor and a login's; a memory of
one rejected bearer (sixteen in the code) is full after the first, which is
when a late rejection could displace one; a call cut short, a withdrawn grant
or a restart is one fault (`MaxFaults`), one trouble (`MaxTrouble`) in the
Claude home.  A table of two calls with four calls has evictions of answered
and unanswered ones.  Two windows of a quota are the one a redemption was made
in and the next.  Constraints: `Bounded` (proxy, retries) limits how many of the router's flags
differ from a fresh account at once, and in `retries` counts a pair of roles
that no file has as one more; `Scenario` (continuity) see above; `Unexcused`
(parts) stops the exploration behind a state in which `SpentOnce` claims
nothing any more.

Fairness: the runtime polls every task, so a handler whose step is enabled
takes one (`WF_vars(Handle(r))`); upstream's silence is bounded by the connect,
header and body timeouts of the code, so an answer is one of the handler's
steps; spawned tasks run (`End`, `Invalidate`).  In the bridge modules
`FairSpec` says that tasks are polled, that an aborted task is dropped at its
next await, and that a write ends, at the latest by
`BRIDGE_WRITE_STALL_TIMEOUT`; in the direct lane that the loop handles what has
arrived and that the watchdog of an unacknowledged create fires.  No client
ever has to send, read or leave, upstream never has to answer, and no admission
deadline has to pass.  In `AuthRefresh` tasks are polled and a sweep's interval
passes (`WF_vars(Work(t))`), the server answers what it was sent
(`REQUEST_AUTH_TIMEOUT` and the sweep's bound end the call otherwise, as a
fault) and a login's child ends.  In `ClaudeAuth` a lock that is free again and
again is got at last (`SF_`): tokio's mutexes and the home's lock queue their
waiters.  Faults are finitely many: `KeptFresh` and `HostGoesOn` say that the
system recovers from them, not that it does without the server.  `HostGoesOn`
states the admissions' liveness for one client: the clients are interchangeable
in `BridgeSessions`.

Runs set `CHECK_DEADLOCK FALSE` where requests are handled once and the system
then rests.

## What the runs found

Shown by a run that expects a violation:

* **A 401 can cross accounts** (`unauthorized_crosses`).  `src/README.md:527`
  says a 401 never does.  After a 401 the handler refreshes the account's
  credentials and validates the selection again; if it has become stale
  meanwhile and the request is fresh and portable, it selects another account
  (mod.rs 2163) and sends the request there.
* **The fence is blind to two failed reads** (`fence_unreadable`).
  `account_epoch` reports a failed job as `u64::MAX`; a selection stamped by a
  failed read and validated by another one looks current whatever happened in
  between (`routing/affinity.rs` 278).
* **A bridge slot can be lost** (`bridge_orphan`).  After its admission a session
  is only its handler's future until the task set's lock is free.  If another
  admission marks it closing in between, and the future is then dropped with its
  connection, nobody removes the entry (mod.rs 2459).  `HostGoesOn` shows that
  this is the only way: an entry whose task was spawned always leaves.
* **An active turn can be evicted** (`bridge_evict_active`).  The eviction reads
  `active_turns` under the table's lock, but a `response.create` that the
  session handles before it sees the signal starts a turn, which the loop then
  cancels (mod.rs 2630); `src/README.md:629` says otherwise.

Met while modelling; the module has what the code does, and the property that
would be violated exempts exactly that:

* a completion's owner is bound without a look at the result: when the store
  fails, the client has a response that nobody can continue (`mod.rs` 6402, 6058;
  `unstored`, `unbound`), while a turn state is not shown before it is bound;
* the two roles are published one by one, so that after an edit past the daemon
  one account may have both; while it is held back, validation refuses what a
  fresh selection picks instead (`control.rs` 1077; `HeldAndPreferred`);
* direct lane: a frame that is no JSON is relayed without making its turn
  visible, which may be replayed afterwards (mod.rs 3819; `Opaque`);
* direct lane: a replay on another account zeroes both counters of the
  authentication ladder (mod.rs 4414); a failed refresh ends the whole session
  through `?` when the turn may not move (mod.rs 4218);
* handshakes: a handler dropped between `begin` and its lease leaks an in-flight
  count (mod.rs 4873; `leaked`);
* Claude: account-owned context is accepted for any credential the session has
  known (`proxy/claude.rs` 395), and for any at all in the second send after a
  401 (446; `LoggedInSince`); `require_login` marks the grant of a login that
  came in between (`claude/auth.rs` 160);
* installation: Codex's file is written before its record (`install.rs` 341);
* configuration: `account connect` writes what it read before it stopped the
  daemon (`main.rs` 1245); a role edited while the daemon starts is not applied
  (`main.rs` 1287);
* the scan drops over-long or escaped values of routing tokens without marking
  the body (`proxy/replay_body.rs` 324);
* reset credits: the sweep decides on a reading it does not make again
  (`proxy/reset_credits.rs` 320), a refused retry forgets an attempt that may
  still succeed (563), and the replay of a forgotten attempt's credit is
  confirmed as if it were new (578);
* a bare error body with a scoped code beside an unknown `type` is taken for the
  account's own failure (`proxy/websocket_protocol.rs` 1353; `Overlooked`).

## What is proved

All theorems hold for every value of the constants that the named assumptions
allow: `RouterAssumption` (a file's roles are members or none and not the same member, thresholds in order; of the router's roles nothing is assumed),
`DispatchAssumption` (requests' contents and answers from their sets) and the
assumptions of `MCProxy`, `MCHost`, `MCLanes` and `MCParts` on the constants of
their parts (bounds are natural numbers, names of nothing are not names of
something, answers are not under way longer than the tolerance; the tasks of
`TaskSet`, the connections of `Upgrade`, the requests whose bodies are kept and
the keys of one request are finitely many).  Otherwise any number of accounts,
requests, clients, calls and steps is allowed.

A specification that composes parts is proved part by part: a step of it is a
step of one part or leaves that part's variables alone, so the inductive
invariant of a part is one of the composition.

* `DispatchProofs`, of the router: `RouterTypeCorrect` (whatever
  roles are published, one by one or as a pair); of the dispatch: `TypeCorrect`.  `TypeOK` is not
  inductive: an account that is sent to must be one, so `TypeInv` adds what each
  place needs of the local variables (`Shaped`).  Then `HardContinuity`
  (`AnchoredSends`).  The invariant
  `OwnerInv` says that the store holds no wrong owner of a token, that after the
  lookups a request's owner served all its anchors, and that a request with an
  owner selects only it (`Fits`).  It needs no assumption on the store: lookups
  may fail at will.  `SeenTurnsAreOwned` (`ExposedBound`: a turn state is bound
  before it is shown, or its account was invalidated or the binding expired
  since), `CohortsOnlyMoveThemselves` (`CohortInv`: what a binding of a soft key
  needs of the request that writes it), and `FenceHolds` (`FenceInv`), for a
  store whose reads succeed; the run `fence_unreadable` shows that this
  assumption is needed.  Also `RetriesStayBounded`, from `RetryInv` (what is left of the
  budget at each place) and `Counted` (the in-flight counts are the leases and
  the releases on their way); and `DispatchKeepsPromise`: `Dispatch` implements
  `Continuity`.  Every action is a step of the abstract specification or a
  stutter under the mapping of `DispatchImplements`, given `DispatchInv`, the
  conjunction of the invariants above.
* `ProxyProofs`: `OriginalKeptAlways` (`InstallInv`, with `CommandKnows`: what a
  command keeps as the previous value is the user's, and what it has not
  written yet is as it found it); `HandshakesStayAlways` (`UpgradeInv`: at
  each stage an account is known and is the owner if there is one; `Balanced`
  says of a step of one connection that the counts and slots move exactly as
  that connection does, and the cardinalities of the properties follow);
  `OneAnswerAlways` (`RelayInv`: while frames are held nothing of the attempt was
  shown, what a rejected attempt keeps is its own rejection, where a relay that
  has begun must still be at, when an acceptance is known, and that a turn that
  is over left an end behind); `SelectedIsValidAlways`, `PoolNeverEmptied` and
  `ReclaimSettles`, of the router alone, in every state of the right type, so also
  when one account has both roles: with the lemmas about `Prefer`, the preferred
  account is what selection picks whenever validation asks for it, unless it is
  also preserved and held back, which is the one case of `HeldAndPreferred`; `QuotaHoldsAlways`.  Its
  `QuotaTimely` says that an answer under way tells what was so when it left, and
  that every piece of evidence the router keeps shows the end of its own cycle, or
  at most `MaxDelay + 1` half seconds more, for a reset that was given relative to
  an arrival; as the tolerance is larger than the delay, evidence that shows a
  later reset is of a later cycle.  `WaitsEnough` is arithmetic on any state of
  the right type: rounding to seconds up, never down.  `RefusalInv` says that a
  verdict is the one of a body under the status and the inspection there was;
  `ScopedIsSeen` and `TerminalsAgree` are about the classification alone.
* `BodyProofs`, of a request's body: `SpoolBoundedAlways`, `OwnershipSeenAlways`
  and `NothingGuessedAlways`.  The library's induction theorems are about an
  operator, which no installed prover can instantiate; the inductions here are
  about sets and rest on a least element (`LeastNumber`, `NumbersFollow`).
  `SpoolInv`: the counter is the sum of what the bodies have taken, and the sum
  of what was granted is within the limit, as each addition was judged by a
  counter with itself in it; that a sum changes as its one summand does
  (`TotalOfChange`) is an induction over the finite set of requests.  `ScanInv`:
  container by container the scanner's few flags stand for what the parser
  knows (`ContainersRelated`), kinds are announced before they matter, and the
  ids and the model that were found agree, until the scanner gives the request
  up as owned or stops.  For `NothingGuessed` the search for an overlap is
  proved right: its table has, for every start of the incoming items, the
  longest proper border of it (`Falls`), so that what the search ends with is
  the longest end of the history with which those items begin (`Greatest`),
  and it is empty just when no repetition is possible.
* `StreamProofs`: `ChunksDontMatterAlways`.  `ChunksDontMatter` compares the
  decoder, which cuts a chunk into pieces, joins them in its buffer and looks for
  blank lines, with a reader of single bytes that has no buffer.  Both are
  followed byte by byte through a chunk, and at every byte they are alike in one
  of four ways: the block goes on, and the buffer with the piece that was begun
  is what the reader has read since its last dispatch (`SameBlock`); a terminal
  has been decoded; both have failed; or the reader has failed and the push will
  where its piece ends (`Doomed`), which is why an error may come before events
  of its own chunk.  `EndsAlike` and `BlankCompletes` say that what completes a
  boundary for the decoder is a blank line for the reader, `DataBefore` that the
  block it cuts out has the data the reader has gathered, `EndIs` that both give
  it the same size.  Between two pushes nothing is begun (`Kept`).  `Lines`,
  `Pieces` and `Reading` are recursive functions; that each goes on byte by byte
  (`LinesGrow`, `PiecesGrow`, `ReadingGrows`) and the induction along a chunk
  rest on `NumbersFollow`.
* `HostProofs`: `SessionsBounded` and `WakeupsNeverLost` from `TableInv` (the two
  properties and the type are inductive together); `InstalledRunsAlways`
  (`AgentInv`: what each step of a command knows of file and job);
  `NothingAfterShutdownAlways` (`TaskInv`: who may still spawn);
  `SavedIsUsedAlways` (`DaemonInv`: between file, daemon and router there is
  always a handler or a reload about to close the gap, and what the handlers
  publish one by one is no pair of one account unless the file was edited past the
  daemon); `GrantKeptAlways`
  (`ClaudeInv` and `Left`: a grant that left the file is on its way back to it
  or lost).
* `LanesProofs`: `TypeCorrect`, `OneTurnAlways`, `NoStaleWriteAlways`,
  `ContinuableAlways`, `EndedAlways` for the bridge (that a completion is
  continuable needs an invariant about frames on their way and about what a turn
  has done before it could queue them: the bind was made, and its account is on
  record or the store refused it); `ChainKeptAlways` (`ChainInv`: where each
  submitted result and each deadline is); `TurnsAnsweredAlways` and
  `OriginalSocketAlways` (`DirectInv`, of which `TurnGood` relates a turn's stage
  to what was sent, buffered and shown of it); `BodyEndsBoundAlways` (`BodyInv`:
  the observer's `Summary` of the frames polled so far tells which ids, which
  failure and which end they showed, and of a body that is being bound the steps
  that are left try what is still due, `Leads`; what the store refuses is in
  `unbound`, and nothing else is).
* `PartsProofs`: `LastEditWinsAlways` (`RoutesInv`: a request whose snapshot is of
  a record's last edit was admitted after it, so what it chose is in
  `chosenSince`, and a request with an older one has no hold on the record or on
  its present placement key), `CallsKeepTheirAccountAlways`
  (`LiveInv`: the youngest calls are in the table and on the disk),
  `ContextKeptAlways` (`ContextInv`), `ResetsKeptAlways` (`ResetsInv`: how old what
  each attempt may confirm is; `SweepInv`, with `Sparing`: of one window one
  credit is spent, and whoever could spend another is excused),
  `ActivatedOnceAlways` (`UsageInv`: the ledger knows of every request that was
  sent, or its write failed and the request was not), `ClaudeContinuityAlways`
  (`SessionInv`: a conversation stays at the source of its owner, and a user is
  known only by an answer, or by one of a second send that was another user's:
  what a login between a send and its 401 does is exempt, and nothing else).
* `AuthRefreshProofs`, for every number of processes, tasks and logins:
  `TypeCorrect`, `NoNeedlessLoginEver`, `LoginKeptAlways` and
  `QuarantineHoldsAlways`.  `AccountInv` says
  that one task at most holds the home's lock, none during a login, and that
  what it holds is what the file holds (`LockInv`); that the server has issued
  every grant there is (`Known`); and that a spent grant stays in the file only
  while the task that was told its successor is about to write it
  (`GrantInv`), which is why no refresh posts a spent one.  `SlotInv` says that a
  bearer a refresh was answered with is the one it had or one nobody has seen
  (`AnswersAreNew`), so that a rejected bearer that is current always got there
  before it was rejected and has the slot (`SlotOfCurrent`).  Without the
  exemption of stray children this is false, and so was `QuarantineHolds` as
  first stated, though the run's single fault did not show it: while a child
  that outlived its wrapper writes a new bearer, the old one is rejected into
  the bounded memory only; a refresh that began before is answered with the old
  bearer once more and puts it back; sixteen further rejections push it out.

Only model-checked:

* liveness (`RequestsEnd`, `HostGoesOn`, `LanesGoOn`, `KeptFresh`): beyond the
  prover, as is ENABLED.

Every safety invariant and action property of the passing runs is a theorem.

## Plan

More of the system, in this order: the expiry of session records against that
of bindings; the session table of logins (`control.rs`); the raw lane's relay.

Each run asks several questions of one instance, so that the whole stays
checkable in minutes.

## Not modelled

* Browser, processes and desktop pages, TLS, header rewriting, statistics, the
  menu bar and phone apps: platform integration and pure I/O.
* The control protocol and its pages, the output of logins; the codec of the
  context store, which transforms data; the passthrough of requests with the
  caller's own credential and the raw lane, which relay what they do not read.
* Expiry of session records and bindings after weeks.  A record that expires
  before its placement's binding would let the next edit find that binding.
* Two commands of the service at once, and what a killed command or a bootout
  that timed out leaves: the service stopped (`src/README.md:445`).
* Schema migration, hashing of keys, and the floating-point placement rate.
