# A TLA+ development of opencrabs

opencrabs is an agent that runs language-model turns for *sessions*. A session
is reached from a chat channel (Telegram, WhatsApp, Discord, Slack), from the
terminal or desktop interface, or from another agent (A2A, ACP). What is hard
in it is not one algorithm but the traffic around a turn: inbound messages,
finished background commands, sub-agent reports, notifications, replays after
a restart, all aimed at a session that may be busy, unclaimed or about to die
with its process. This project models that traffic.

Paths below are relative to the repository's `src/` directory.

## 1. The system

| Part | State | Operations | Talks to | What makes it correct |
|---|---|---|---|---|
| Telegram turn slot (`channels/telegram/state.rs`, `resume.rs`, `handler.rs`, `agent.rs`, `guest.rs`) | `active_turns`, `pending_reactions`, chat bindings, one task per running handler | `try_begin_turn`, `mark_turn_active`, `enqueue_reaction`, `enqueue_detached_result`, `drain_reaction`, `flush_queued_after_turn`, `stop_session_target`, guard drop | tool loop (drains the queue between rounds), push delivery (wake callback) | one turn per session; nothing that arrives is lost or answered twice; the slot comes free; queued items are answered |
| Push delivery and restart recovery (`brain/agent/service/session_routes.rs`, `restart_recovery.rs`, `notify_queue.rs`, `background_tasks.rs`, `brain/tools/subagent/notify.rs`) | route map, parked pushes, awaiting marks, durable rows in two tables, spawned INSERTs and clears | `deliver_to_session`, `register_session_route`, `claim_session`, `expect_channel_route`, `flush_parked`, `persist`, `clear_on_delivery`, `recover` | channels (claim sessions), terminal (local route), database | a push is heard once while the process lives; what is parked survives a crash; only the owner of a chat is woken; a lost command is reported |
| Provider request pacing (`brain/provider/rate_limiter.rs`) | one atomic per limiter | `wait` | every provider call | calls are `min_interval` apart; nobody waits longer than that |
| Tool loop (`brain/agent/service/tool_loop.rs`, `messaging.rs`) | message history, round counter, cancel token | model call, tool calls, injection of queued messages, compaction | providers, tools, turn slot | drains the queue between rounds; returns on cancellation |
| Sub-agents and teams (`brain/tools/subagent`) | state, waiters, cancel token and input channel per child; its status file | spawn, wait, send input, close, remove, complete, fail, resume, boot pass | push delivery (a result nobody waits for) | a result is delivered once: to the waiter or as a push; a closed child stays closed and its task ends; a killed run is reported |
| WhatsApp, Discord, Slack, Trello (`channels/*`) | turn slots, follow-up queues with durable rows, tokens | as Telegram's, with one queue and no origin | tool loop, push delivery | as Telegram's |
| Telegram flood governor (`channels/telegram/governor.rs`) | token buckets, 429 pauses, latest-wins queue of final edits, a drainer | admit, queue, drain, retry, abandon | every outgoing call | a queued final edit is landed or given up, and not overtaken by an older one |
| A2A server (`a2a/handler`) | task store, cancel tokens, rows, context bindings | send, stream, cancel, process, restore | tool loop | a cancel reaches the agent; a stream ends as the store says; one session per context; a task ends |
| ACP server (`acp`) | one client's sessions | prompt, cancel | tool loop | answers belong to their request |
| Cron (`cron`) | job rows with last and next run | tick, trigger, run | tool loop | a due job runs once |
| Goals and mission control (`brain/goal`, `brain/mission_control`) | goal rows, inbox rows | set, judge, continue, stop | tool loop | a goal stops at its turn limit |
| Self-improvement and update (`brain/rsi*.rs`, `brain/self_update.rs`, `brain/tools/evolve`) | proposals, binaries | propose, apply, replace | file system | the old binary is kept until the new one starts |
| Providers (`brain/provider`) | credentials, cooldowns | stream, fall back | network | a failing provider is left alone for its cooldown |
| Tools (`brain/tools`) | path locks, read state, registry | one call each | file system, processes | two writers of one file are serialised |
| Database, services, memory, configuration | SQLite files, TOML files | statements, file locks, migrations | everything | a migration runs once |
| Terminal, desktop, command line, logging, usage, evaluation | screens | rendering, input | all of the above | not stated here |

Behaviours that are hard, and where they come from:

* *Interleaving.* Handlers are tokio tasks on many threads. The code's
  critical sections are short: each reads or writes one map under one lock,
  and what was read is used after the lock is gone.
* *Ordering.* Routes return at once and do their work in spawned tasks;
  database writes are spawned as well, so an INSERT and the DELETE meant for
  it can run in either order.
* *Crashes.* A kill empties every in-memory map. Two tables survive.
* *Timeouts.* One flush, a grace period after boot, races the channels that
  come up and claim their sessions.
* *Liveness.* What was queued behind a turn depends on the end of that turn.

`PROJECT.json` lists the places, each with the properties about it.

## 2. The modules

| Module | What it is |
|---|---|
| `TelegramTurns`, `MCTurns`, `TelegramTurnsProofs`, `TelegramPlacesProofs` | the turn slot and the mid-turn queue of the Telegram surface |
| `FollowupTurns`, `MCFollowups`, `FollowupTurnsProofs` | the turn slot and the follow-up queue of WhatsApp and Discord, with the durable rows behind them |
| `SessionMailbox` | what both surfaces promise: the abstract specification |
| `PushDelivery`, `MCPush`, `PushDeliveryProofs` | delivery, parking, durable rows, recovery, crashes |
| `SubAgents`, `MCSubAgents`, `SubAgentsProofs` | the life of a sub-agent, the calls of its parent, its status file, a restart |
| `A2ATasks`, `MCA2ATasks`, `A2ATasksProofs` | the tasks of the A2A gateway |
| `FinalEdits`, `MCFinals`, `FinalEditsProofs` | the final edits of one Telegram chat under the flood governor |
| `RateLimiter`, `MCLimiter`, `RateLimiterProofs` | `RateLimiter::wait` |

A module `MC...` holds the model values and definitions its `.cfg` files give to
the constants; a module `...Proofs` holds the theorems. An operator introduced by
a comment with the word *Mutant* is a plausible bug and part of no
specification: `PROJECT.json` says which definition it replaces and which
property then fails.

### TelegramTurns

An *item* is anything inbound; a *task* is a handler running for it. `active`
is `active_turns`; `queue` is `pending_reactions`, kept per origin
(`Reaction`, `DetachedWork`); `bound` is the set of sessions a chat resolves
to. `phase`, `kind`, `home`, `carry` and `retry` are the local variables of
the tasks: where it is, which path it runs, its session, the items it holds
and the fresh session of a retry.

| Action | Code |
|---|---|
| `Arrive` | an update, a finished command or a boot replay reaches its handler |
| `ClaimSlot`, `DropBusy`, `LoseClaim` | `try_begin_turn`, and what each caller does with a refusal |
| `Enqueue` | `enqueue_reaction`, `enqueue_detached_result`: a second lock |
| `Drain` | `drain_reaction` between two rounds of the tool loop |
| `LoopExit`, `Release` | the loop returns; the guard drops after the last bubble |
| `RebindFresh`, `MarkFresh`, `RetryExit` | `handle_message` retries under a fresh session |
| `Flush`, `FlushSpawning`, `Reclaim`, `LoseReclaim`, `Requeue` | `flush_queued_after_turn` and its two arms |
| `WakeRefused` | the gates at the top of the wake callback |
| `StopTarget` | `stop_session_target` |

The eight kinds of handler differ in three sets: `QueuesAs` and
`DropsWhenBusy` (what a lost claim does), `Loops` (whether anything drains the
queue while the turn runs) and `MayFlush`/`AlwaysFlushes` (whether the turn
ends in a flush). Five variables are history, kept for the properties only; `missed` notes what is queued or left behind through one of the gaps that `WaitingHasATaker` names.

`SessionMailbox` is the promise in one page: an item is submitted to a
session, waits, and is either taken into an open turn of that session, once,
or dropped. `RefinesMailbox` maps `active` to the open turns and derives an
item's status from where it is. It is the mailbox of every session no retry is
moved to: a retry opens a turn where one is open, so what is sent to a fresh
session counts as never submitted.

### FollowupTurns

The same slot on two other surfaces, without origins and with two additions: a
`token` per session, which `/stop` cancels, and the rows of `notify_queue` that
stand behind the queue (`writes` are spawned INSERTs, `clears` the loops that
still look for a row). A queued message is a *batch*, the set of the items it
says: a drain joins what it takes, and a flush that loses the slot puts it
back as one message.

| Action | WhatsApp | Discord |
|---|---|---|
| `Claim`, `LoseClaim`, `Enqueue` | `try_begin_turn`, `enqueue_turn_message` | `claim_interaction_turn`, `enqueue_followup` |
| `Launch` | token stored, agent called | the same, and `run_tracked_resume_turn` |
| `Drain`, `LoopExit` | `followup_queue_callback` between rounds | the same; menus, forms and reactions have no rounds |
| `Release`, `FlushNothing`, `SpawnFlush`, `FlushDrain`, `NoChat` | guard dropped, then `flush_after_turn` drains, claims, runs | the tail of a message's or tracked turn: drain, then claim |
| `WakeRefused` | the gates of `build_enqueue_callback` | the same |
| `Stop` | `cancel_session` | `cancel_session` |
| `Insert`, `Retire`, `EndClear` | `persist`, `clear_on_delivery` | the same |

Two kinds of turn run without the slot (`Slotless`), as the code does: a
WhatsApp background completion, and the plain boot replay of
`cli/resume_delivery.rs`, which serves every WhatsApp session and the Discord
sessions that a live agent owns. A boot replay runs on the terminal's
agent, whose queue callback reads the terminal's queue, so it drains none of
these queues; the replay of `TelegramTurns` alike. `RefinesMailbox` maps the open turns to the
sessions whose agent runs, not to `active`.

### PushDelivery

A *letter* is a push addressed to a session. Every container of the code is a
pile, a function from letters to numbers: `sending`, `deciding` and `parking`
are the points inside `deliver_to_session` and `deliver_or_park` where no lock
is held; `parked` is `PARKED`; `woken` and `local` are handed to a channel's
route and to the local surface; `midturn` is the channel's queue behind a
turn; `rows` and `tasks` are the two tables; `inserts` and `windows` are the
spawned INSERTs and clear loops; `spawned` is a command whose task has not
written its row. `stage`, `offers` and `reports` are `recover()`'s progress.
`route`, `awaiting`, `occupant` and `busy` are what channels tell the service.

`Deliver` is `deliver_to_session` up to its read of the route map: `Chase` is the
owner gate's walk from occupant to occupant, `DeliverAs` what happens at its end
(idle gate, route). `Fallback` is the rest (awaiting mark, local route), `Park`
the push onto `PARKED`. `Claim` is `register_session_route` with
`claim_session`, `FlushParked` the grace-period flush. `ReportInterrupted`,
`ClearReported`, `ReadRows`, `OfferRow` and `FinishRecovery` are `recover()`
in order. `Insert` and `ClearPass` are the spawned database work. `Crash`
empties everything but the tables and the chats' occupants. The surface's side
(`WakeRuns`, `WakeQueues`, `WakeGivesUp`, `TurnStarts`, `TurnEnds`, `Drain`, `StopTarget`, `LocalTakes`)
is `TelegramTurns` in outline. `LocalRoute` says what the process gave
`register_local_route`: the terminal, the parking route of a headless process,
or nothing; each process picks one of `LocalRoutes`.

### SubAgents

A child works in *runs*: the first is spawned, later ones are resumes. `state`,
`waiters`, `inputTx` and `output` are the entry in `SubAgentManager`; `task`,
`run`, `cancelled` and `inbox` are the child's task, token and channel;
`waitStep` and the variables after it are the `wait_agent` calls, which poll between
two critical sections; `file` and `row` survive a crash. Every action is one
critical section with what its caller does up to the next one.

| Actions | Code |
|---|---|
| `Spawn`, `Insert`, `BeginRun` | `spawn_agent`, `team_create`: status file, task, entry |
| `RoundGated`, `MarkAwaiting`, `Wake`, `MarkRunningAgain`, `StopWaiting` | a round that pauses, and the input that wakes it |
| `RoundCompletes`, `RoundFails`, `StoreOutput`, `RecordEnd`, `RecordFailure`, `Complete` | the end of a run: file, entry, push |
| `PrepareResume`, `StartResumed`, `BuildFails` | `resume_agent` |
| `Close`, `Remove`, `SendInput` | `close_agent`, `send_input` |
| `Resolve`, `EnterWait`, `Look`, `Report`, `ReportEnd`, `Deadline`, `Preview`, `GiveUp`, `Abandon` | `wait_agent`, its deadline with the preview it answers, and a parent's turn that is dropped |
| `Crash`, `Boot`, `Revived` | a kill, `mark_orphans_interrupted`, the revived session |

`outcome` records how the end of each run was reported: pushed, held back for a
wait, silent, or dead with its process.

### A2ATasks

`mem` and `tokens` are the two in-memory stores, `row` and `bound` the two tables.
The processor of a task is a program counter: look up the session of the
context, else create and save one, arm the token, run the agent, disarm, settle;
a streamed task then sends its last event. `tasks/cancel` is two steps:
the token (`CancelLook`), then the state (`CancelWrite`). The future of a request can be
dropped at its awaits (`DropRequest`, `CancelDropped`); `Archive`, `Crash` and `Boot` are
what happens around it. A write of a table may fail wherever the code
only logs the failure. `CancelReachesTheAgent` is about a task whose agent runs:
if it reads as canceled, its token has fired, unless the cancel looked for the
token while the processor had not registered it yet (`early`, set only when
`Unarmed`). A cancel that looks after the token is taken back finds the agent
gone, and is none of the property's business.

### FinalEdits

A render is its number, the n-th of its message. `finals` and `attempts` are the
queue of `Peer`, `draining` its flag, `tokens` and `paused` the edit bucket.
`Render` draws up a final and `LetOut` and `PutInQueue` are the gate (`Admit`,
`Queue`); `EnsureDrain` follows under a lock of its
own. A drainer sleeps, looks (`FindNothing`, `FindNoBudget`, `TakeDueFinal`), looks
again under another lock (`LookAgain`), and lands, puts back or gives up a
render (`Delivered`, `Retried`, `Abandoned`; `note_429_pause` is merged with what
follows it, since any pause can also come from the other traffic). `EditLands` and `EditFails`
are the caller's own edit: the flow block's or the plan card's. `FallBack` is the
rich edit that goes on as a classic one, rendered anew and through the gate once more;
`WaitOut` and `Resend` are the classic edit that waits a 429 out and is sent
once more with fresh content, unless its block was closed or replaced meanwhile
(`BlockIsGone`). Bucket
arithmetic is whole tokens; a pause ends with anything up to a full bucket,
which covers both readers of an expired pause.

### RateLimiter

`Enter` reads the clock, `Load` loads `last_granted`, `GrantNow` and
`GrantLater` are the successful compare-exchange of `wait`, `Retry` the failed
one, `WakeUp` the end of the sleep. Time is a counter. `Start` is what the
first reading of the clock returns: `PROCESS_START` is set by that very
reading, so on a clock coarser than the initialisation it is 0.

### Composition

Nothing composes `PushDelivery` with the surfaces in one state space: the
product is out of reach. They meet in what both model. `PushDelivery` has the surface in
outline (`WakeRuns`, `WakeQueues`, `WakeGivesUp`, `TurnStarts`, `TurnEnds`,
`Drain`); `TelegramTurns` and `FollowupTurns` have the push as an item that
arrives; `FollowupTurns` holds the rows of its own queue.

## 3. What the runs check

| Run | Instance | Shows |
|---|---|---|
| `turns_safety` | 2 sessions, one of them fresh; all 8 handlers, 3 items, 3 tasks | one holder per slot outside retries, where the mailbox is implemented; every item in exactly one place; nothing is stranded but through the named gaps |
| `turns_live` | 1 session; messages, pushes, replays; 3 items, 3 tasks, fair | slots come free; what a replayed or resumed turn holds up leaves the queue |
| `push_live` | 1 session, 1 push, 2 processes, terminal or no local surface, fair | what is parked with a row keeps it; the flush empties what is parked; a surviving row reaches a surface |
| `push_restart` | 2 sessions taking over each other's chat, 1 detached command, 2 processes, terminal or headless, hop cap 3 | types; nothing lost or twice before the crash; only owners are woken; boot discards no row it has not offered; a task row goes only when its session has something coming |
| `limiter_shared` | 3 callers, interval 3, 7 instants | bounded sleep; spacing of calls that do not overlap |
| `subagents` | 1 child through 2 runs, 2 waits, 1 pending input, 1 restart, fair | waiter count; one run at a time; told once; killed runs reported; closed children stay closed and end; waits return |
| `a2a` | 2 tasks of 1 context, one streamed; 1 cancel, 1 restart, fair | cancels reach the agent; one session per context; streams end as stored; tasks end |
| `followups` | 1 WhatsApp and 1 Discord session, every handler, 3 items, 3 tasks | one turn per slot; the right token; every item in one place; rows behind the queue; nothing is stranded but through the named gaps; the mailbox is implemented |
| `finals` | 2 messages, 2 callers, 2 drainers, burst 1, 2 attempts, 3 renders, each with its retries, 1 act of other traffic, fair | no queued render without a drainer; the newest render is shown but for the named gaps; the queue drains; drainers retire |

*Bounds.* Three items and three tasks give the flush everything it can meet: a
turn that holds the slot, a handler that lost the claim, and a spawned turn
that competes with the flush's own second claim. The slot and the queue are maps by session, so a
second session matters only where something crosses over: the retry, the
surface of a session, and the redirects.
Two sessions are enough for an occupant cycle, and a hop cap of 3 for following
it past its length. A command and its result with two processes let a letter be in
every pile, and let a row be written, found at boot, offered, re-parked and
reaped. Two waits are what it takes to count wrongly, two runs to resume; the
ends, closes and files of children are independent of each other. Two tasks are a fork of one
context. Three renders of two messages are a queued one, a newer one and a
bystander; two drainers are the old one that has cleared its flag and the new
one. One act of other traffic is enough, as a caller's own admission takes a token
and its 429 pauses the chat. In the limiter's run seven instants hold three grants and an overlap of
all callers. `MaxBoots`, `Horizon`, `MaxRuns`, `MaxInputs`, `MaxRender` and
`MaxOther` are the only bounds in guards; everything else is bounded by the
sets. Deadlock is not checked: arrivals, pushes, renders and instants are finite,
and the system may be at rest.

*Fairness.* `TelegramTurns!FairSpec` gives every task weak fairness on its own
steps: tokio runs a spawned task, and a tool loop returns because it answers,
fails or is cancelled. Arrivals, `/stop`, the retry and the rounds that drain the
queue get none: a turn may end without another round.
`PushDelivery!FairSpec` gives weak fairness to recovery, the flush timer and
each spawned piece of work; channels need not claim, users need not stop, senders
need not send, and a clear loop need not run. `SubAgents!FairSpec` and
`A2ATasks!FairSpec` are weak fairness of the tasks and calls that run: a round
ends, an agent returns, a poll is made; parents, clients and crashes owe
nothing. `FinalEdits!FairSpec` adds that a bucket refills and a pause ends; the
other traffic is bounded, so a token that is there is found by the next look of
a drainer.

### What the code does not do

Three runs state what a comment of the source says and find a behaviour that
contradicts it. Each is a `findings` entry with the line and the quotation.

| Run | Behaviour |
|---|---|
| `push_f_twin_headless` | headless: the row of a parked push is cleared as if delivered |
| `subagents_f_late_wait` | a wait that has timed out and taken its preview when the child ends suppresses the push and answers "still running": nobody is told |
| `finals_f_latest` | the retry of a failed render is put back over a newer render queued meanwhile |

The other behaviours a reader of the code may not expect are in the models, and
the properties name them as their exceptions:

* *Telegram turns.* A turn may end and flush between another handler's lost
  claim and its enqueue; turns opened by a push, a tap or a flush end without
  one; a retried loop leaves its fresh session without one (`missed`). A retry marks
  its fresh session without a claim, so two turns can run there
  (`OneTurnOutsideRetries`). A resumed turn that finds the slot taken drops the
  results it carries (`lost`). `/stop` leaves the rows of the queue it drops.
* *WhatsApp and Discord.* A WhatsApp background completion, and a plain boot replay,
  runs beside the turn that holds the slot (`Slotless`). Discord's taps, menus and reactions and
  WhatsApp's flushed turn end without a flush; a message can be queued after the
  flush of the turn it lost to (`missed`). WhatsApp's flushed turn stores no token, so
  `/stop` does not reach it (`StoresToken`). The row of a message that a flush put back can
  be taken by the clear of its first row (`putBack`).
* *Push delivery.* A report of `recover()` is parked without a row; a row can
  be cleared while its push waits behind a turn; a claim between the read of the
  route map and what follows it leaves a push parked, or shown by the local
  surface; what is parked after the only flush waits for a claim; a crash between the clear of a
  command's row and the delivery of its result leaves nothing of the command.
* *Sub-agents.* The failure of a resumed child or a team member is not pushed;
  a child killed between the last write of its file and its report is never
  reported (`inGap`); an entry inserted after its task has ended reads as Running for ever.
* *A2A.* A cancel before the token exists marks the task and lets the agent run
  (`early`); Completed or Failed is written over Canceled; two lookups, or a
  lookup that fails although the binding is there, may fork a context (`forked`); boot restores Working tasks that nobody processes.
* *Final edits.* A direct edit can be overtaken by a queued or an earlier one;
  the last render of a turn is tried again on the classic path (after a 429) and by the
  rich path's fallback, but not after a 429 on the rich path, nor when the
  second attempt fails (`excused`); an expired pause cleared by `paused_until` hands the
  frozen time back as tokens.
* *Pacing.* Overlapping calls are granted closer together than the interval:
  bounded sleep and the interval cannot both hold when three calls arrive at
  once, and the code keeps the first. A first grant at reading 0 counts as none.

## 4. What is proved

Everything below holds for every value of the constants that satisfies the
named assumptions.

* `TelegramTurnsProofs!TypeCorrect`: `Spec => []TypeOK`. The types alone are not
  inductive: `Enqueue` and `Requeue` take the head of `carry`, and `Release`
  needs a session to release. The invariant `Turns` adds `HomeKnown` (a task past
  `idle` has a session), `RetryKnown` (a rebinding or retrying task has a fresh
  one) and `HandsFull` (a task about to queue carries something).
* `OneTurnOutsideRetriesCorrect`: a session outside `FreshSession` has at
  most one turn and is marked exactly while that turn holds it. The step lemma
  divides the actions by what they do to the holders of a session: `Kept`,
  `Taken` by a task that found the slot free, or `Freed` by its only holder.
  `OneTurnIsOneHolder` restates the property in these terms.
* `OneTurnCorrect`: with `FreshSession = {}` the same for every session;
  with fresh sessions it is false: a retry marks without a claim.
* `TelegramTurnsProofs!NobodyIsStranded`: while an item waits and is not in
  `missed`, a task holds its session's slot or is on its way to flush it.
  `PushAdds` and `EmptyTakes` say what an enqueue and a drain do to what is queued.
* `TelegramPlacesProofs!NothingIsLostOrDoubled`: `Spec => []ExactlyOnePlace`. The
  invariant `Whereabouts` says where each item is (`Placed`), that no queue and no
  task names an item twice (`NoRepeats`), and what a task carries (`Hands`: a
  handler that lost its claim carries exactly one item, so queueing the head of
  what it carries forgets nothing). Each action is an instance of one of six
  moves of an item. The counts of the property follow in `CarriersCount` and
  `QueueSlotsCount`.
* `TelegramPlacesProofs!SurfaceIsAMailbox`: `Spec => RefinesMailbox`, without an
  assumption on the retries. Where an item is decides its status (`HeldWaits`,
  `QueuedWaits`), so a step settles a batch that waits for one session, opens or closes
  that session's turn, or leaves the mailbox of the steady sessions alone, and what
  a retry does is of the last kind.
* `RateLimiterProofs!LimiterTypes`, `SleepIsBounded`: from `Sane`: a call's reading
  of the clock is not in the future, so what it adds is at most an interval.
* `SequentialCallsArePaced`: for `Start > 0`, calls that never overlap are
  granted an interval apart. The invariant `Paced` says that, while no overlap
  has occurred, at most one call is under way, the stored grant bounds every
  earlier one, and it is past when the next call reads the clock.
  `AppendApart` is the step about the sequence of grants. For `Start = 0` the
  theorem is false: the first grant is then taken for none.
* `SubAgentsProofs`: types, `CountsAreExact` (the waiter count is the size of the
  set of registered waits, for any finite set of waits), `OneRunCorrect`,
  `PhantomsWereSilent`, and two action properties, `NobodyIsToldTwice` and
  `ClosedStaysClosed`. The step to see is that a resume is accepted only from an end
  state, and an end state is written by the last act of a run. Two more,
  `TheKilledAreReported` and `NoReportIsContradicted`, are about restarts: `FilesInv`
  says that a status file is unfinished as long as the first run works, that it
  stays so only after a kill or a failed write, and that a killed run stays an
  orphan until a boot reports it.
* `A2ATasksProofs`: types, `CancelsArrive` (`ArmedAgents`: an agent runs with its
  token registered, so a cancel that finds none while the agent is still ahead
  looked before `Arm`), `StreamsTellTheTruth` (a task whose
  last event is out is settled, and a settled task is not canceled),
  `OneSessionPerContext` (a context that has not forked has one session, which all its
  tasks that have one share, and at most one processor between its lookup and
  its binding).
* `FollowupTurnsProofs`: seven invariants and the refinement.
  `Inv` adds `Whereabouts` (which phases hold a batch, and that no two places
  share an item), `NoEmptyMessages` and `Rows` (what stands behind a queued or
  a delivered message). With it `SurfacesAreMailboxes` shows that each action
  is a step of `SessionMailbox` or leaves the mailbox alone.
* `PushDeliveryProofs`, for any number of restarts: types (`BootAlone` says that
  nothing else of a process runs while `recover()` does), and three action
  properties, `TaskRowsAccounted`, `OwnersAlone` and `RowsOutliveTheirOffer`, the last
  from `OffersCover`: what boot has read is still in the table.
  `ParkedPushesHaveRows` needs `IInv`: a push that has not been routed yet is
  in one place and has no row (`Alone`), a parked one has no turn and no clear
  of its row under way (`Still`), and a row or an insert is counted against the copies it
  stands behind. It assumes `TextsDiffer` (rows are matched by text) and that no
  process is headless: `push_f_twin_headless` is the counterexample otherwise.
  `NothingLostNothingTwice` needs `Tracked`: until the first restart the tables have
  nothing for boot to offer (`FirstBootIsEmpty`), all piles together hold a push at most
  once and none that is settled (`CopiesAreOne`), and what was sent is held or settled
  (`SentArePlaced`). Its steps are sorted by what they do to the copies: make one,
  move one, settle some, or take one back.
* `FinalEditsProofs`: `NoFinalIsStranded` needs `FlagHolds`: a set flag has an
  awake drainer, and over an empty queue one that will still see it empty.
  `NewestEndsOnScreen` needs `Fresh`: the newest render of a message without
  excuse is in the queue, else in whatever is on the wire, else on the screen.

Only model-checked: liveness, which is beyond the prover.

## 5. What is left out of the models

* Failing database calls in `PushDelivery`: they are logged and the code goes on.
* `clear_dead_sessions`, and equal texts: rows are matched by session and text,
  and in the runs every push says something of its own.
* The order in which items of the two origins are joined in one queue, and the
  order of the items inside a joined message.
* Poisoned locks: the code recovers the guard and goes on.
* The registry of limiters by model name.
* Refill arithmetic, the spacing floor and the other gates of the governor.
* What a round of a sub-agent or a turn computes: it is a language model's answer.
* Wording, rendering, media, network and file formats, everywhere.

## 6. Not modelled

Most of the repository is outside these models, and most of that has no state
that two actors share:

* *The tool loop, goals, mission control, self-improvement.* Sequential
  programs whose branches are a model's answers; what they share with the rest, the
  queue and the slot, is modelled.
* *Providers, tools, memory, configuration, services, repositories.* Calls with
  network, file or SQLite I/O; the tables that matter to a protocol are
  variables here.
* *Terminal, desktop, command line, logging, usage, evaluation.* Rendering and
  formatting, which is where most lines are.
* *Slack, Trello, voice, ACP.* Slack follows Discord's turns; Trello polls; ACP
  serves one client over stdio.
* *Cron, `path_lock`, `single_flight`, the migration lock.* One lock or two
  adjacent statements each. Their known gaps (a job marked as run before it is
  spawned, a writer that goes on when its wait for the lock times out) are listed as
  hazards without a property: a model would restate them.
