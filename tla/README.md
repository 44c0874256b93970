# acpsub in TLA+

`acpsub` runs ACP agents as long-lived subagents. A daemon keeps one ACP session
per subagent; callers (`send`, `wait`, `cancel`, `permit`, `close`, ... over MCP or
the CLI) and the agent (answers, `session/update`, permission requests, its death)
drive it concurrently from tokio tasks on several threads. This directory models
the part of that program that is hard to test: what happens between the steps.

## Inventory

| Component | State | Operations | Interacts through |
|---|---|---|---|
| Session turn machine (`state.rs`) | `Inner`: status, `current`, `turns`, `queue`, steer lists, `recording`; `closing`; `prompt_send` (the *wire*) | `begin_turn`, `finish_turn` (`settle_turn`, `fail_turn`, `park_turn`, `record_turn_end`), `steer_turn`, `steer_resolved`, `spawn_chained`, `on_disconnect`, `close_sub` | the `inner` and `prompt_send` mutexes, `notify`, the registry |
| Tools (`tools.rs`, `permission.rs`) | none of their own | `send` (try, queued, steer), `cancel`, `permit`, `close`, `forget`, `adopt`, `spawn` | the session, `live`, `reserved`, the registry |
| Waits (`tools.rs`, `host.rs`) | the turn a call is bound to, its budget | `wait`, `wait_any`, a library host's `prompt` | the session under `inner`, `notify`, the watchdog's waiter count |
| Agent updates (`handler.rs`) | a turn's reply, tool calls | `session_update`, `request_permission` | `inner` |
| Rate limits (`ratelimit.rs`) | a gate per quota scope, the registry's `rate_limited` record | `note_limit`, `repark_prompt`, `record_park`, the scheduler: `parked_due`, `resume_live`, `resume_loaded` | every session of the scope |
| Launch (`state.rs`) | `live`, `reserved`, registry entries | `launch`, `go_live`, `release_reservation`, `end_target` | close and forget while launching |
| Daemon generations (`daemon.rs`, `state.rs`) | the succession lock and the socket's claim; `superseded`, `foreign`, `previous`, `shipped`, `resuming` | `run`, `lead`, takeover, `handover_watch`, handoff, release, relay, `reclaim`, `route`, `dispatch` | RPC between daemons that may die, `registry.json`, `progressed` |
| Watchdog (`watchdog.rs`) | one grace clock per session | closes the session of a turn nobody waits on | waiters attaching, `notify`, `progressed`, `end_session` |
| Registry, pruning (`registry.rs`, `prune.rs`) | `registry.json`, transcripts | `update_registry`, `prune` | every component |
| Transcripts, configuration, CLI, client, library API, prose, errors, processes, terminals | files and processes | formatting, parsing, forwarding | called by the above |

What is hard: a status read under one lock and used after an await; slots reserved
in one critical section and filled in another; answers, updates, deaths, closes,
cancels and limits in any order; a schedule in the registry that must follow the
session in memory; a session shipped while calls are still in it. `hazards` in
`PROJECT.json` lists each at its line with the properties that watch it.

What makes each part correct: prompts accepted are run in order or dropped on the
record; turns are numbered without gap and their ends recorded before they are
reported; a turn ends by its own answer; a cancel reaches the turn it was aimed at
and no other; a dead agent stays `exited`; a closed session does not come back; a
parked one does; a shipped one runs in one place; a wait answers for the turn it
was bound to; a session has one owner among the daemons.

## Modules

- `Session.tla` models one session in one daemon. Its variables are grouped as in
  the code: `turnVars`, `steerVars` and `pending` are `Inner`; `rtVars` is the rest of
  `SubRuntime` with the daemon's view (`live`, `superseded`, the scope's `gate`, the
  registry `entry`); `pc` says where the task that carries each prompt is; `sched`,
  `canceller`, `closer` and `watcher` are the one-at-a-time tasks; `agentVars` is the agent
  process with the prompts it has not answered (`out`) and the cancels that reached
  it (`toCancel`); `histVars` only records history for the properties.
  An action is one critical section: what runs between two points where a task
  awaits or lets go of the `inner` lock it decided under. `wire = p` means prompt p's
  task holds `prompt_send`; an action with `wire = None` in its guard waits for it.
- `MCSession.tla` instantiates it for TLC (a symmetry set only; the constants are in
  the `.cfg` files).
- `Lifecycle.tla` models one session id in one daemon, across lives of the session and
  of the daemon: `daemonVars` are the `live` and `reserved` maps at the id and how far the
  daemon's start is; `regVars` the registry entry in memory and on disk with the
  `registry_write` lock; `pc`, `kind`, `victim` and `drops` the task of each launch and each
  `close` or `forget`; `subVars` the `Subagent` each launch may establish. `Preflight` to
  `Start` are `launch` and `launch_inner` step by step; `EndTarget`, `Unschedule`, `Kill` and
  `Unregister` are the ends (the watchdog's end is a `close`); a registry write is two
  steps, the change in memory and `Persist`; `Crash` drops everything but the file.
- `MCLifecycle.tla` has its symmetry set and a view that leaves out variables no later
  step or property reads (the kind of a call that returned).
- `Handover.tla` models one session across daemon processes. `procVars` are the processes with
  the two locks between them; `regVars` are `registry.json` and each daemon's copy; `sessVars`
  what each daemon has of the session (reserved, settled, in a turn, marked `HandingOff`);
  `handVars` its `Handover` state; `watch`, `owned` and `woken` its `handover_watch`; `wireVars` the
  takeover reports and the handoff and release calls, each with the path of daemons that relay
  it; `client` one call in `dispatch`. `LoadRegistry` to `ResumeMarked` are `AppState::new`, `run`,
  `lead`, `open_claim`, the takeover tool with `partition`, `supersede` and `resume_marked`; `Scan` to
  `Watch` are one pass of `handover_watch` with `handoff_one` and `released_one`; `Relay` to `Answer` are
  the handoff and release tools and `peer_call`; `Reclaim` and `Merge` the daemon that leads again;
  `Route`, `Dispatch`, `Connect` and `Forwarded` the routing of a client's call; `Gone` is what the end
  of a process takes with it, the calls it served or waited for included.
- `Ownership.tla` is what `Handover` promises: the session is with one daemon, on its way, at
  rest in the registry or gone. `Handover` maps its state to it (`Promise`), and the run `chain`
  checks that every step of the generations is a step of `Ownership` or changes nothing in it.
- `MCHandover.tla` has the symmetry set of the daemons.
- `Waits.tla` extends `Session`: `SessionStep` is a step of `Session` with the tasks it wakes
  (`Notifies` lists the code's `notify_waiters`), and beside it run `wait` (`Wait`, `Attach`,
  `WaitForTurn`, `TimesOut`, `AnswerWait`), a library host's `prompt` (`HostBind` and the same loop) and
  `watchdog::run` (`WatchdogPass`, `GracePasses`, `WatchdogCloses`). `AwaitedTurn` and `Awaited` are
  `awaited_turn` and `awaited_elapsed`, `View` is `wait_snapshot` with what `wait_view` or `turn_outcome`
  makes of it. A wait's task sleeps only in `asleep`; a pass of its loop that finds nothing to do is
  not a step.
- `MCWaits.tla` instantiates it; every constant is in the `.cfg` files.
- `SessionLemmas.tla`, `SessionProofs.tla` and `SessionSlot.tla` hold the proofs about `Session`,
  `WaitsProofs.tla` those about `Waits`, `LifecycleProofs.tla` those about `Lifecycle`,
  `HandoverOwner.tla`, `HandoverChain.tla` and `HandoverProofs.tla` those about `Handover` (below).

Abstractions. A prompt's text is its name; a stop reason is one of ok, cancelled,
limit, error; times are reduced to whether the scope's gate is up (`gate`) and
whether a parked record is due (`Due`). Transcript writes appear only where their
failure changes state (`LogFails`). A steer's target number is in `Waits`; its entry in the
target's `steers` list is left out, as is the queue copy inside the registry's
parked record. Registry writes do not fail. `end_target` and the `closing` store of `close_session` are one
step, and so are `on_disconnect`'s look at `closing` and its lock, `permit`'s two
critical sections, and `close_sub` after its kill (the kill itself may come
earlier: `AgentDies`). Exited and departed sessions are left to `resume_loaded`,
which is `Lifecycle`'s; a session whose registry entry is missing is not reached.

In `Lifecycle` the turns are reduced to parks (`Park`) and to whether the first prompt is
refused (`Start`); the resume of a parked session whose agent lives, and the queue a
resume carries over, are `Session`'s. File writes do not fail, modes and options are
accepted or fail the handshake, `foreign`, `shipped` and `resuming` are empty (one
daemon; the others are `Handover`'s). `live` and the registry are reduced to one id because ids share nothing else
than `registry_write`.

In `Handover` a session is what another generation can tell of it; a launch in it is one step to
`launching` and one to `idle`, its details being `Lifecycle`'s, and turns start and end without
prompts. `close` and `forget` are two steps, since a takeover or a scan may meet what lies between.
The queue inside a handed entry, file writes that fail and a takeover whose `partition` fails after
`superseded` is set are left out, as are calls that address several sessions.

In `Waits` times are left out: a budget may run out whenever the code still waits (`TimesOut`), the
grace once it has started. Progress reports and `wait_any`, the same loop over several sessions, are
left out.

The prompts a session has `lost` are the ones the code drops with only a log line;
`dropped` are the ones it drops by rule (cancel, failure, close, disconnect).

## Runs

The `Session` runs bound the number of `send` calls (`Calls`), continuations the scheduler may
send (`Resumes`) and permission requests (`Perms`); each identifier is used once, so
the state space is finite without further bounds. Three prompts are enough for a
turn, a prompt chained behind it and one more that races either; one permission
request is enough for its races with cancels, closes and ships (that several never
interfere is proved, below). `Offset` is nonzero where
numbering matters. The `Lifecycle` runs bound launches and ends: three launches are one
that is established or fails, one that meets it and one that profits from what they
leave behind, before or after a crash; two ends meet each other.

The `Handover` runs bound the daemons, each started once, and how many are killed (`Crashes`). Two
daemons with two crashes cover every crash of either side of one takeover, the daemon that leads
again and the death of that one; three daemons without a crash are the smallest chain in which
a report is relayed, and the one in the middle exits in either order. `Attempts` is the code's 8. The
`Waits` runs have two calls, one `wait` or one host, and at most one resume: the turn waited for, and the one
that follows it and must not be taken for it.

`Events` switches on what the environment does; each run has the events its question needs, and
each module lists them. Deadlock is not checked: a session or a chain of daemons whose calls have all
returned has nothing left to do.

| Run | Question |
|---|---|
| `queue` | queue order, no lost prompt, recorded starts, parks and closes keep the schedule right, cancels reach their turn |
| `steer` | numbering and recorded ends with steers, materialized turns, limits, cancels, failing transcripts |
| `crash` | an agent that settles steers as folded, answers them late, and dies: whose answer ends which turn, does `exited` stick, is the queue stranded |
| `handover` | a shipped prompt runs in one place; permission requests against cancels, closes and ships |
| `live` | queues drain and turns finish, also while sends hold the wire through a ship |
| `lifecycle` | three launches and two ends of one id with crashes: one owner, no leaked claim, no orphaned process, what was closed or forgotten stays so |
| `generations` | two daemons, crashes of either, failing launches, cut answers: one owner, a session that was started stays in `registry.json`, a superseded daemon retires, a moving session arrives |
| `chain` | three generations and relays through a daemon superseded in its turn: the refinement of `Ownership`, the middle one retires, a forgotten session leaves the file for good |
| `dispatch` | a client's call is not refused while the session moves along three daemons, and runs on the newest daemon only where nobody else has or ships the session |
| `waits` | the types of the session and its waits; a `wait` reports its own turn, its end on record, through parks, steers and chained turns, and never an internal error |
| `watchdog` | no running turn stays unwatched, nobody sleeps through the end of what they wait for |
| `watchdog_leaves` | expects a violation, below |

`Retires` is stated for daemons that are left alone: a superseded daemon keeps what it has as long as
callers keep giving it more. `KeepsPromise` is a safety property: `Ownership` states no fairness,
since nothing makes anybody adopt a session at rest.

### The run that expects a violation

`watchdog_leaves`: `watchdog::run` returns as soon as it sees a closing mark, and `HandingOff` is one. A ship that
fails puts the session back; if the watchdog was woken while the mark was set it is gone, and the
session's next turn runs unwatched for good. `findings` in `PROJECT.json` quotes the lines.

### What else the models show, without a run

Where an item names a property, TLC finds it violated with the event or constant named, and the passing
runs leave exactly that out or do not list the property; the others follow from the definitions named,
or were met while those were written.

Turns (`Session`):

- A cancel in the gap between two queued turns, before the next prompt is on the wire, is sent
  too early and ignored by the agent (`CancelReachesReserved`).
- A late steer's update in the chained gap takes the reserved slot and the popped prompt is lost
  (`NoLostPrompt` with the policies `steer` and `queued` together).
- The handover watcher ships a session that started a turn, or was closed, since its scan
  (`ShipsSettled` with `handover`).
- A cancel of a turn materialized for a late steer is deferred to a `begin_turn` that
  never comes (`CancelReaches` with steers and `cancel`; `queue` has no steers).
- A steer can take the wire between the pop of a kicked prompt and its send, ahead of
  the turn it steers into (`KickWire`, `SteerEnqueue`).
- A chained turn whose prompt cannot be logged strands the rest of the queue
  (`NoStrandedQueue` with `log`).
- `repark_prompt` overwrites the `exited` of an agent that died in the chained gap
  (`ExitedSticks` with `limit` and `die`).
- On a `Folded` agent, a folded steer's turn that materialized in the chained gap ends after the re-park
  and chains the re-parked prompt: the session stays parked for a queue that is empty, and
  `reserve_resume_turn` panics on it (`ParkedQueueHasPrompt` with `limit` and the policy `steer`).
- A park recorded while a ship is in progress is not flagged, and stays unflagged when the ship fails
  (`ParkedHasSchedule` with `limit` and `handover`).
- A session that was closed while a failing ship was in progress takes prompts again, and the next one's
  turn is ended by the task of the one cut off (`OwnAnswer` with `close` and `handover`).
- A ship that began beside a close overwrites its `Ending`; when it fails the mark is gone, and a limit answered
  late arms the closed session's schedule again (`NoResurrection` with `limit`, `close` and `handover`).
- A re-park may land behind the copy of the queue that was shipped (`ShippedOnce` with `limit`, `handover`
  and the policy `steer`).
- `cancel_turn` decides under `inner`, awaits its `queue_dropped` record and then sends
  `session/cancel`, which may end a turn that started meanwhile (`CancelTurn`, `CancelSend`).
- A permission request handled after its turn ended leaves `running` without a turn
  (`RunningHasStart` with `Perms` nonempty).
- `on_disconnect` returns early under any closing mark, `HandingOff` included, so an agent
  that dies while its session is being shipped is missed when the ship fails
  (`ExitedSticks` with `die` and `handover`).

Launches and ends (`Lifecycle`):

- A launch that was closed while launching drops the claim of the next one, which panics in
  `release_reservation` (`ReservationHeld` with `overlap`).
- A launch whose first prompt is refused leaves its agent process running (`NoOrphan` with `busy`).
- The scheduler relaunches a session whose close returned while `resume_loaded` read the
  config (`NoReturn`).
- A spawn is in the registry before it is live and has no claim, so an adopt that is
  quick enough loads the session beside it until `go_live` refuses one of them
  (`OneAgent` with `early`).
- A daemon that dies after a launch re-created the entry of a session forgotten
  meanwhile, and before it removed it again, leaves it registered (`Crash`).
- A `close` or `forget` that found the id free and waits for the registry lock still
  clears or removes the entry of a session adopted meanwhile (`since` tells them apart).

Generations (`Handover`):

- With three daemons and one crash, `OneOwner` fails: the successor dies right after its takeover, a
  third daemon finds the claim free before the first has reclaimed, reads a plain entry from
  `registry.json` and adopts the session the first daemon still runs.
- With `overlap`, `OneOwner` fails: a takeover between an accepted handoff and the launch that resumes it
  finds the session neither live nor reserved, keeps nothing and forwards nothing.
- With `stale`, `Registered` and `ForgetSticks` fail: a starting daemon reads `registry.json` before it has the
  succession lock, and its copy misses what its predecessor wrote until the takeover.
- With `cross`, `OneOwner` and `ForgetSticks` fail: a `close` or `forget` that overlaps a watcher's pass is
  released with the entry read before it, and an adopt that crosses the release loads the session on
  both sides. For the same reason a release is skipped when the session ends between the watcher's
  scan and its done check.
- With `cut` and three daemons, `OneOwner` fails: the daemon in the middle exits before the answer it relays
  is on the wire; the first keeps a session the third has resumed.
- `NoGap` fails with `cross`, `overlap`, `cut` and `old`, and with a crash: each of them lets the
  newest daemon run a call for a session that another has, or whose handoff is still on the wire.
- With `others`, `NoRefusal` fails: eight wakes of `progressed` by other sessions use up the
  attempts of a call held while its session resumes.
- With `old`, `OneOwner` and `Retires` fail: a connection made before the takeover adopts on the superseded daemon
  what its successor adopts too, and a forward to a daemon of which no report comes any more keeps the one
  that holds it from retiring until a call runs into it.
- `reclaim` never calls `resume_marked`: sessions marked by a successor that died wait for an adopt.
- With four daemons a clean exit can be taken for a death, without a crash, and `OneOwner` fails: a
  release relayed past the second to the third is answered while a fourth takes over; the third is done and
  exits, and the second, idle by now, finds its successor gone, reclaims and adopts for a call it has
  although the fourth leads. Three daemons cannot (`NoneLeadsAgainHolds`).
- With a crash a session may be with a daemon and on its way to it at once: a report outlives the
  process that sent it, and is accepted after its successor adopted the session from the registry.
  Two daemons keep `OneOwner` even so, since `resume_handed` finds the session there.

Waits (`Waits`):

- A host's `prompt` binds to whatever is in flight when `start_turn` has returned. A turn that ended at
  once leaves it an internal error or another caller's turn; and as `turn_outcome` looks for a
  park first, against its comment, it can report `rate_limited` for a turn that ended with a stop
  reason of its own.
- A failed turn has no stop reason, so a `wait` for it reports the status of a later turn (`Tells` with
  `error`; with `die` too, before the disconnect is noticed). A wait bound to a turn that could not be logged
  is told that it ended, and the next turn takes its number: when that one meets a limit, the wait reports the resumed
  session as `running` (`Tells` with `limit` and `log`).
- A limit answered after the close parks the closed session, and a waiter that binds to it waits
  for a resume that never comes (`Woken` with `close` and `limit`).
- A session closed while parked with steers pending, and a late permission request, leave a state in which
  a `wait` finds no recorded start (`NoInternal` with `limit` and `close` and steers, or with `Perms`).
- The watchdog decides to close and then takes the session: a host that attached in between
  loses its turn (against `host.rs:272`). A waiter that attaches and detaches between two passes
  does not restart the grace.
- A wait released by `needs_permission` may report `running`, when the request was answered before it looked again.

Pruning is not modelled, but the retention pass (`prune.rs:174`) has the same shape: for each candidate it asks
once more who is protected before it removes the transcript, then awaits that removal and those of the
later candidates, and removes the entries at the end without looking again. An adopt in between
loses the entry of a live session.

### Fairness

`Session!FairSpec` (`live`): the runtime polls every task that is
ready (weak fairness of the steps that wait for nothing); tokio's mutex is FIFO, so a
task waiting for `prompt_send` gets it although others take it in between (strong
fairness of the steps that wait for it, and of the scheduler, which wakes at least
every `SCHEDULER_POLL`); the agent answers what it was sent, a handoff report
returns, time passes. Callers, the agent's death, closes, cancels and other
sessions' limits owe nothing.

`WaitFairSpec` (`watchdog`, `watchdog_leaves`): the same, except that an agent owes no answer while it
lives, which is what the watchdog is for; the prompts of a dead one fail. The waiting tasks and the
watchdog are polled, its timer runs out. No caller need ever wait, or stop waiting.

`Handover!FairSpec` (`generations`, `chain`): a started daemon's tasks run, the operating system grants a free lock and
delivers what is written or breaks the connection, and an agent ends its turns (or the watchdog does).
Nothing makes anybody start a daemon, call one, or kill one.

## Proofs

All theorems hold for every value of the constants that their hypotheses allow: any numbers of prompts,
permission requests, launches, ends, waits and daemons. The only assumptions are the named ones of the modules
(`None` is no prompt, no launch and no daemon, calls and continuations are distinct, a library host's call is one of
the calls, daemons are finitely many, the offset and the number of crashes are natural numbers, attempts are positive,
the policies and events are those the modules list). A hypothesis switches off a
policy or events; where one is there, TLC finds the property violated with what it excludes, and
the reason is given with it. So a hypothesis is a limit of the code, not of the proof, but for three of
`TellsHolds`, named there.

### The session's records (`SessionProofs`)

All policies and events, unless stated:

- `TypeCorrect`: the type invariant.
- `NumberingHolds`, `EndsRecordedHolds`, `StartRecordedHolds`: turn numbers are
  consecutive, every settled turn is counted in the registry once its `recording` mark
  is gone, and a turn the agent works on has its start there.
- `PermissionBackedHolds`: `needs_permission` has a request or an answer behind it.
- `NoResurrectionHolds`, under the assumption that no handover happens: a closed
  session's schedule stays cleared. With a handover it is false: `handoff_one`
  overwrites `Ending` and a failed ship then clears the mark.

They rest on `Inductive`, whose invariant `IndInv` adds to the properties: who holds
the wire (`WireOwned`, `ReparkOwned`: a task in the middle of `begin_turn`, `finish_turn`,
`steer_send` or `spawn_chained` is the holder, so at most one is), that a queued prompt
is in the queue once and nowhere else (`QueueOwned`), that the agent's unanswered
prompts are those of turn tasks and steers (`OutOwned`), that steer lists and the owner
of a materialized turn hold steers that have not resolved (`SteersOwned`), that a
recorded end counts every turn before its mark clears (`ClearingRecorded`), and that a
turn past its log has its start recorded while no other task can clear it
(`StartOwned`). Without the first, two turn ends could be in progress at once and
neither count would be stable; without `SteersOwned` a late answer could be taken for
a prompt's second turn.

`SessionLemmas` proves what `RemoveFirst` does to a sequence without repetition, and of the types and of
who owns what it has one lemma per conjunct, with one step per action or group of actions that treat it alike.

### The prompt slot and the queue (`SessionSlot`)

On top of `IndInv` come `EndShape` (what close, handover and the agent's death have made of `closing`, `live`
and the status), `SteersAbsent` (without the steer policy no prompt is at a steer's stage) and
`Slot`: at most one prompt has the slot (`Alone`), and while it does the status says so (`Blocks`).

- `CancelReachesHolds`, without steers: the current turn is the one begun by the prompt in it
  (`CurrentOwned`, `BeginsOwn`), and a cancel aimed at it is noted on the turn, about to be sent or with the
  agent (`CancelTold`). With steers a materialized turn's cancel waits for a `begin_turn` that never comes.
- `OwnAnswerHolds`, without steers, and not with both closes and handovers: two turns never overlap, as
  one prompt has the slot. With steers an owner's answer ends another prompt's turn; a failed hand-off
  clears a close's mark, and a session whose turn was cut off takes the next prompt before that turn's task has ended.
- `ParkedQueueHasPromptHolds`, without steers: nothing takes the prompts of a parked session but the
  resume that ends the park. On a `Folded` agent with steers, the end of a materialized turn does.
- `NoLostPromptHolds`, without steers and permission requests: whoever takes a prompt off the queue has the slot
  alone until its turn is stamped, and the session is ready for it, closed or dead (`Handoff`). With steers an
  agent update takes the reserved slot; a late request sets `needs_permission`, which `Gate::Chained` refuses.
- `QueueOrderHolds`, under the same hypotheses: the queue is sorted by acceptance, and what was
  accepted before a queued prompt is in front of it, has begun or is dropped (`Order`); a popped prompt is
  the earliest of all that wait, so it may go back in front. Without them the lost prompt breaks it.
- `NoStrandedQueueHolds`, and transcript writes succeed besides: each step that frees the slot has emptied the
  queue, or starts it (`NoneWaits`). A chained turn that cannot be logged leaves the rest of the queue behind.
- `ParkedHasScheduleHolds`, without steers, permission requests and handovers: a park is flagged in the
  registry or being recorded, nobody else is at work meanwhile, the scheduler's entries are flagged
  sessions, and its resume clears the flag only once it has the slot (`Scheduled`). With a handover a
  re-park is not recorded because the session is being shipped, and the ship fails; with steers a
  resume that lost its slot to a materialized turn clears the flag of that turn's park; a late permission
  request makes an `exited` session look like one that can park.
- `ExitedSticksHolds`, without limits, permission requests and handovers, steers allowed. A re-park, a request
  and a ship in progress replace or miss the `exited` of a dead agent.
- `ShippedOnceHolds`, without limits, steers and permission requests allowed: from the copy on, the shipped
  prompts wait or are dropped, and nobody is accepted behind them (`Ships`). A limit with steers
  re-parks a popped prompt into a queue that has been shipped.
- `RunningHasStartHolds`, without permission requests: `running` has a turn or a stamped start. No run
  checks it; it is what `wait` relies on.

### Waits (`WaitsProofs`)

- `WaitsImplementSession`: `WaitSpec => Spec`. Waits, hosts and the watchdog act on the session only through
  its own steps, so every theorem above holds beside them.
- `WaitTypeCorrect`, all policies and events: the types of the session and of what waits and watches; in
  particular every wait is bound to a numbered turn.
- `EndOnRecordHolds`, all policies and events: the turn whose end is being recorded is the last that settled, and
  those before it are in the registry (`RecordingLast`); `awaited_elapsed` holds a wait on the recorded turn back.
- `NoInternalHolds`, without steers and permission requests: the start every look asks for is there
  by `RunningHasStart`. With a steer a wait may be bound to a turn that a close has made impossible, and a late
  permission request leaves `running` without a turn.
- `TellsHolds`, under `Reportable`: without steers and permission requests, where the agent neither fails a prompt
  nor dies by itself, and not with both closes and handovers or both limits and failing transcript writes. Each
  settled turn keeps the answer it was settled by (`Judged`), and one that failed was the last, since only a
  session that is being ended fails a prompt then (`Causes`, `LastFailed`). A turn that met a limit has no
  stop reason either: a wait is told `ended` of it only if it was given up with its agent before it
  settled, and then nothing follows it (`Excused`), as the turn a wait is bound to has settled, is in
  flight or next, or its agent is gone (`BoundWaits`). The six ways a step can treat the turns are in
  `TurnMoves`. TLC finds `Tells` violated with `error`, with `die`, and with `limit` and `log`. The other three
  hypotheses are the argument's (one prompt has the slot, `running` is the slot's), and not known to be needed for
  the property: the run `waits` checks it with steers, and no counterexample was found with a permission
  request or with closes and handovers.

### Launches and ends (`LifecycleProofs`)

The invariant has three tiers. `Shape` holds always: what each task is and where, and that a claim belongs to a
launch that will drop it. `Exclusive` and `Told` hold as long as no launch claims the id while an earlier
one is on its way out (`overlap`): one launch at a time, it holds its claim until the release, and an end that hits it
told it so. `Alone` needs, besides, that nobody uses a spawn's id before it is live (`early`): who is live
or launching is the only one, a close that was called leaves no schedule and nobody who could park, a forget
that was called leaves no entry but one that a launch is about to remove.

- `LifecycleTypeCorrect`, `NoLeakedClaimHolds`: all events.
- `ReservationHeldHolds`, `EndNotOvertakenHolds`: without `overlap`.
- `ClosedStaysClosedHolds`, `ForgottenGoneHolds`: without `overlap` and `early`.
- `NoOrphanHolds`, `OneAgentHolds`: without `overlap`, `early` and `busy` (another caller's turn makes a launch
  fail after it went live, which leaves its agent running).

Failing launches, dying agents, limits and crashes are allowed in all of them. TLC finds each property
violated as soon as one of the events it excludes is added.

### Generations (`HandoverOwner`, `HandoverChain`, `HandoverProofs`)

The first module has the types, the registry and who keeps the session, the second the chain of daemons and the
answers to calls, the third the refinement, what is forgotten and the daemons that are killed.

For every number of daemons, crashes and attempts, and all events:

- `HandoverTypeCorrect`: the type invariant.
- `RegisteredHolds`: a session that was started and not forgotten is in `registry.json`, through takeovers,
  relays, crashes and reclaims. `Leaders` says which daemons may serve (one leads, one has the claim or is about to,
  every other is superseded), `OnFile` that the daemon writing the file has the entry in its copy. A spawn must
  not meet `old` or `stale`: on a superseded daemon it stays in that daemon's memory, and a copy read too early
  misses it.

While nobody is killed (`Orderly`: `Crashes = 0` and no `old`, `cross`, `overlap`, `cut`) and no
superseded daemon leads again, for any number of daemons:

- `OneOwnerHolds`: at most one daemon has the session.
- `NotTwiceHolds`: and none has it while it is on its way to another.
- `NoGapHolds`: where the newest daemon would run a call, nobody else has the session, and nobody has a handoff of it
  on the wire. It complements `NoRefusal`, which takes a registered session for found, live or not, and
  follows from where the session is (`Placed`, below).
- `NoRefusalHolds`: a call is refused only for a forgotten session. Four attempts suffice, and TLC
  finds three too few; the code has eight. `others` is left out, since wakes that have nothing to do with the session use up attempts.
- `KeepsPromiseHolds`: the refinement of `Ownership`, from the initial states and step by step. `stale` is allowed
  only where launches may `fail`: a takeover that read the registry too early lets a session lapse, as a failed
  launch does.
- `ForgetFinal`: once the session is forgotten and no daemon keeps it, `registry.json` has no entry of it for good,
  the safe half of `ForgetSticks`. Without `stale` and `fail`: both leave an entry a later daemon brings back.

`NoneLeadsAgainHolds` discharges the hypothesis on leading again for up to three daemons; `ChainOneOwner`,
`ChainNoGap`, `ChainNoRefusal`, `ChainKeepsPromise` and `ChainForgetFinal` are the five without it, and state what the runs
`chain` and `dispatch` check. With four daemons the hypothesis is needed (above).

With crashes, and leading again allowed, without `old`, `cross` and `overlap`:

- `AliveOneOwner`: of any number of daemons at most one has the session until one of them exits or is killed.
- `PairOneOwner`, `PairKeepsPromise`: two daemons keep `OneOwner` however often they are killed, and the
  refinement of `Ownership` as well (where `Crashes > 0` or launches may fail; the rest is `ChainKeepsPromise`).
  They state what the run `generations` checks. With three daemons and one crash `OneOwner` is false.

For each event that is left out TLC finds the property violated with it (above).

The argument. No daemon's state says by itself who may have the session: the daemon that has it, the one
it is on its way to and the marks of both are related by calls on the wire, which in turn depend on the
chain of successors. So the invariant is in layers, each a conjunction of named parts with one lemma per
part and one step per action:

- `Typed`: the types of the records on the wire included.
- `Placed`: who has the session. It is kept by one daemon at most (reserved, live, or marked as shipped until its
  call is answered), the newest daemon forwards to the keeper, and each call comes from a daemon that
  waits for it and has the entry it says. `OneOwner` follows.
- `Linked`: the chain. Successors form a line from the first daemon to the newest (`Chain`), a call's path goes along it
  (`Relayed`), what is behind a daemon that retired is settled (`Settled`, `Back`, `Behind`). This is what bars the
  reading of a clean exit as a death, and it is where three daemons differ from four.
- `Answered`: where a client's call stands while the session moves. Daemons are ranked along the chain
  (`Ordered`), so a call that goes from one to the next never returns to one it left; a superseded daemon that forwards
  has nothing of its own (`Apart`), and it forwards to whoever keeps the session until the answer that ends
  this passes through it (`Trail`). `Guided` counts the looks that are left to the call, four at most.
- `Kempt`: that the abstract state moves only as `Ownership` allows. A claimed handoff has its call (`Claimed`),
  and, where launches succeed and reads are fresh (`Sure`), a marked entry has a daemon the session is on its way to
  (`Marked`), an end that is under way has the session to itself (`Ends`), and a forgotten one is in no copy that a
  later daemon could bring back (`Forgotten`).
- `Living`: under crashes. `Placed` holds until the first exit (`Alive`), and a process that does not run has no
  session (`Cleared`): of two daemons one is left then. A second survivor would know nothing of what died with the
  first, which is where three daemons fail.

### What is only model-checked

- Liveness (`QueueDrains`, `TurnsFinish`, `Abandoned`, `Woken`, `Retires`, `Arrives`, and that a forgotten session's
  entry does leave the file, in `ForgetSticks`): the prover has no fairness.
- `NoInternal` and `Tells` with steers, which want each steer's target to be settled, current or next.
- The steer halves of the properties above, where the runs with steers hold on small instances only.
- That no superseded daemon leads again is proved of three daemons, and false of four.
- Nothing is claimed of three daemons with crashes or `cut`, where TLC finds `OneOwner` violated.

## Not modelled

- Retention and pruning: file work over many sessions; the one race of interest is above.
- `wait_any` and calls that address several sessions; several quota scopes with times. One session sees
  of the others only the gate, `progressed` and the writes of the registry, which are in the models.
- Failing file writes, other than a failing transcript append in `begin_turn`.
- More than three generations at once.
- Transcripts, configuration, CLI, client and library API, prose, errors, transport, processes,
  terminals and services: formatting, parsing, forwarding and operating-system calls without a state of the
  program's own. That an agent dies or a connection breaks is an event of the models.

## Plan

1. `Session` and its proofs (done); the steer's part of `NoLostPrompt` and `OwnAnswer` is left to the runs.
2. `Lifecycle` and its proofs (done).
3. `Handover` with `Ownership` and their proofs (done). Left: what holds of four daemons or more without the
   hypothesis that none leads again.
4. `Waits` and its proofs (done, but for steers).
5. `RateLimit`: several sessions of two scopes with times; a gate only moves later, no
   prompt burns against a known limit, every parked session resumes.
6. An abstract FIFO of turns that `Session` without the events of the findings implements.
