# TLA+ models of Mahjong Ops Agent

Specifications of the stateful core of the repository, model-checked with TLC and, where it
pays, proved with TLAPS. Paths are relative to the repository's root; `R/` stands for
`src/mahjong_agent_runtime/`.

The system receives messages of customers, lets one language-model agent plan what to do, and
executes what it plans through transactional stores. What the model says is data: in every
module here it is a nondeterministic choice. What is modelled is the part that must be right
whatever the model says: rows, leases, versions, seats, commitments, and the threads and
processes that race for them.

## 1. Inventory

All durable state is in one SQLite database, shared by any number of processes. A store method
runs in one of two ways, and the difference decides what an action is:

* `with self._write_transaction(...)` (`R/stores/sqlite/accessors.py`) issues `BEGIN IMMEDIATE`
  before it reads: the whole method is one action;
* `with self._lock, self._connection` opens the transaction at the first write: within the
  process the lock serialises, but another process may commit between the reads and the first
  write. Such a method is two actions.

| Component | State | Operations | Interacts with | What is hard |
|---|---|---|---|---|
| Durable scheduler (`R/scheduled_tasks.py`, `R/stores/sqlite/scheduling.py`) | `runtime_scheduled_agent_tasks`: status, due time, attempts, lease | register, replace, revoke, reschedule; scan, claim, complete, fail, defer; run one by hand | every domain registers work; handlers re-enter the agent | leases that run out under a live worker, rows replaced while they are processed, process deaths, clocks read before the lock |
| Participation deadlines (`R/stores/sqlite/participation_deadlines.py`) | a task row per seat | save, clear, execute | scheduler, games | a deadline firing after its seat changed |
| Input aggregation (`R/input_aggregation.py`, `R/stores/sqlite/input_aggregation.py`, `dispatch_pending_input_batch`) | `runtime_pending_input_batches`: fragments, version, status, decision | upsert, due, record decision, queue, claim, finish | HTTP handlers, scheduler threads, gate model, agent runs and their recovery | fragments arriving during a run, two dispatchers of one version, lost background work, a recovered run that settles without a claim |
| Games and commitments (`R/stores/sqlite/game_mutations.py`, `R/domains/game_commitments.py`) | games, participants | create, edit, update status, expire | invitations, rooms, board, recruitment task | two games filling with the same players, operator edits, lost updates |
| Invitations (`R/stores/sqlite/drafts.py`) | invite drafts | create, deliver, reply, supersede | games | an answer that fills, reopens or loses a table |
| Conversations and runs (`R/runtime.py`, `R/stores/sqlite/conversation.py`, `agent_runs.py`) | conversation versions, receipts, runs with leases, task contexts | accept, claim, checkpoint, complete, recover, supersede, deliver | agent loop, input aggregation, scheduler | duplicated messages, a newer message during a run, recovery of a dead run |
| Idempotency and tool gateway (`R/stores/sqlite/idempotency.py`, `R/domains/tools/gateway.py`) | claimed keys, remembered results | claim, take over, remember | every tool | takeover of a call still running |
| Group board (`R/stores/sqlite/group_chat.py`, `R/group_chat/board_engine.py`, `board_trigger.py`, `claim_handler.py`) | publish tasks, snapshots with numbers, the bridge's delivery ledger | ask for a refresh, publish, review, guard, send, save, answer by number | scheduler, games, the hook behind a tool call, channel | a stale board sent late, a change nobody publishes, a number of an old board |
| Rooms (`R/stores/sqlite/rooms.py`) | reservations | reserve, release | games | overlap, game closed meanwhile |
| Waiting demand and reverse match (`R/stores/sqlite/waiting.py`, `R/matching.py`) | demands | register, cancel, scan, claim, notify, release, expire | games, the hook behind a tool call, the agent runs of other conversations | two matches of one demand, a run inside another run's lock or asking for its own, a dispatch that fails late |
| Follow-ups (`R/follow_up.py`, `R/domains/tools/follow_up_tools.py`) | task rows with budgets | save, cancel, review | scheduler, runs | budget read outside the saving transaction |
| Agent loop (`R/services/`) | the state of one run | step, tools, visible action | gateway, runs | step and stagnation limits |
| Channel bridge (`integrations/wechaty/`) | delivery queue of a Node process | deliver, replay | HTTP application | redelivery, replay order |

Match scores, context building, summaries, prompts, review of texts, tracing and evaluation keep
no shared state of their own: they are functions of a snapshot or calls of a model.

What makes the components correct, in a line each:

* scheduler: a worker that lost its claim settles nothing; a settled task stays settled; one live
  responsibility per goal and per seat; one publication per room; attempts account for claims;
* input aggregation: no fragment settled unread, no two runs within a lease, waiting input is
  settled, a dead run is taken up again, results are kept;
* games and invitations: no overbooked table, a filled game is full, one commitment per time
  window, no invitation outlives its seat, no double invitation, closed games stay closed;
* conversations and runs: a result once remembered stays and is what its callers see, a superseded
  run sends nothing, a run has one owner, a dead run is resumed or given up;
* idempotency: an effect happens once per key, and later callers see its result;
* board: the last board sent shows the last state, a number means the game it was printed for;
* rooms: no double booking, and what callers were told is what the rooms hold;
* waiting demand: one notice per match, no claim left behind, an ended demand stays ended, runs that
  wake each other's customers wait neither for each other nor for themselves;
* follow-ups: a bounded number of reviews per goal.

The hazards, each at its line of code, are in `PROJECT.json`, with the properties that cover them
or the reason why none does yet.

## 2. Modules

| Module | Contents |
|---|---|
| `ScheduledTasks` | the task table and its workers |
| `LeasedWork` | abstract specification of the scheduler's promise, with no clock, lease or credential |
| `MCScheduledTasks` | four pairs of rows: boards of a room, recruitment, follow-ups of a goal, deadlines of a seat |
| `ScheduledTasks_proofs` | its theorems |
| `LeasedWork_proofs` | `ScheduledTasks` implements `LeasedWork` |
| `PendingInput` | one customer's input batches and the threads that dispatch them |
| `PendingInput_proofs` | its theorems |
| `Games`, `MCGames` | games, seats, invitations, commitments |
| `Commitments` | abstract specification of what a table that filled promises its players |
| `Games_proofs` | its theorems, `Games` implements `Commitments` included |
| `ConversationRuns`, `MCConversationRuns` | receipts, agent runs, recovery and delivery of one conversation |
| `ConversationRuns_proofs` | its theorems |
| `WaitingMatch`, `MCWaitingMatch` | waiting demands and the runs that a match starts in other conversations |
| `WaitingMatch_proofs` | its theorems |
| `ToolLedger` | the idempotency ledger and the gateway in front of it; it has no handlers of its own |
| `RoomCalls`, `MCRoomCalls` | `ToolLedger` composed with the room store and a tool whose failures are retried |
| `RoomCalls_proofs` | theorems of `ToolLedger` and `RoomCalls` |
| `BoardPublish`, `MCBoardPublish` | the board of a managed room: refreshes, publications, delivery, numbered answers |
| `BoardPublish_proofs` | its theorems; its publish tasks implement `LeasedWork` |

### ScheduledTasks

`status`, `dueAt`, `attempts` and `leaseUntil` are the columns of a row; a row that was never
written is `"absent"`, a null `lease_until` is `NoLease`. `queue[w]` is what is left of the list
`run_due_once` iterates over, `held[w]` the credentials `_run_tasks` captured before it called the
handler. `claims` and `refunds` are history variables.

Identifiers are fixed in advance and used in order, as `new_id` never repeats one. One action per
store method and per outcome: `ClaimScheduledTask` or `SkipScheduledTask`; `CompleteScheduledTask`,
`RetryScheduledTask`, `ExhaustScheduledTask`, `DeferScheduledTask`, or `IgnoreSettlement` when the
credentials no longer match. The handler itself is opaque: between a claim and its settlement
anything may happen, other workers taking the task over included. A write may use a clock up to
`MaxStall` old, since `now()` is read before the write lock is obtained (`Stamps`). A lease that
must move forward does so by a microsecond in the code, by one tick here. The scan keeps the
order of `due_at`; rows due together come in any order, as their identifiers are random. The
`LIMIT` of the scan is left out: a shorter list is a prefix followed by a death of the worker.

What a handler does to the table (rescheduling its own task, registering others) is covered by
`Business` steps while the worker holds its claim.

The refinement mapping: `Phase` forgets which way a row was settled, `Owner` is the worker with the
latest claim of a row that is processing, and a worker's job is the task it holds a claim of. A lease
that runs out changes nothing in `LeasedWork`; the takeover it allows is `Take` of held work.

### PendingInput

`row` is the one row a customer has; `job[d]` is the dispatch a thread is in: `"gate"` while the
gate model is asked, `"decided"` between the recorded decision and the claim or the hand-over,
`"running"` during the agent run. The thread keeps the batch, version and fragments it read.
Time is relative: `quiet` counts down to `quiet_deadline`, `idle` counts up from `updated_at`, both
saturate, so the state space is finite without a last tick. `result` and `settled` hold the
fragments that the stored result answers and that the finishing dispatch aggregated.

`runs` are the unfinished agent runs of the batch's current version, each with the batch and version in its
`input_window`; only business input begins one. A fragment drops those of older versions, which recovery
would compare with the row and leave alone, as it does one it finishes without a batch. `RecoverRun` is `deliver_recovered_agent_result` up to
its comparison with the row, `FinishRecoveredBatch` what follows the send: it settles by version alone, as
completed, with the decision read before the send. A run may be taken for recovery at any time, also under
a dispatcher that lives on, as run leases run out too. `Recoverers` is empty for a customer of the page,
whose replies are not delivered by recovery. The execution of the recovered run is `ConversationRuns`'.

A message may be upserted again once its batch is settled: the row only remembers the fragments of
the current batch. A death of a thread stands for the death of its process; what other threads of
the process do is covered by them dying as well, or not.

### Games

`game[g].seats[c]` is the number of seats held by customer `c` in an active participation; declined,
negotiating, silent and superseded participants hold 0. `drafts[g][c]` are his invitations, oldest
first. `window` carries the planned start and end, when private outreach opens and when the game
expires; `root` is the option group of alternatives of one need.

`Reply` is the reply transaction as a whole: it sets the seats and all the drafts of the customer,
then, if that fills a waiting game, `Resolve` either removes the players already committed to an
overlapping ready game or makes this one ready and takes its players out of the others; if it leaves
a ready game with a free seat, `Reopened` puts the game back. A withdrawal that an organizer
reports is `Unconfirm` under stricter guards. `create_invite_drafts` expires stale games in a
transaction just before its own, so `Invite` does both.

`UpdateGameStatus` and `ExpireStaleGames` are the reads of the two methods that do not reserve the
write lock; `SaveGames` is their first write, which saves each game whole as it was read.
`forced` is a history field: a `ready` written by `update_game_status` rather than reached by
filling. The two kinds are told apart because the code gives no guarantee for the first; what
follows from that is the run `GameCommitments`.

`Claimed` is the sum of the seats of the active participants, written as the number of pairs of a customer
and one of his seats (`Taken`), so that the sum can be reasoned about.

`Commitments` forgets seats, invitations, clocks and late saves: `committed` is the set of tables that
filled, each with its players and its window. `Ready` maps the games that are ready by filling to it. A reply
that fills a table is `Commit`, which asks that nobody of the party is committed elsewhere at that time;
a reply that reopens one, an edit, an update, expiry or a late save is `Dissolve`. What a refinement
says beyond the invariants: a committed table never exchanges a player, and never moves, while it stays
committed.

The organizer is always a joined participant, as `known_player_schema` gives the agent no other
way to name him.

### ConversationRuns

One conversation. `version` is the conversation's version, `receipt[m]` the version a message was
received with, `result[m]` its remembered result; a reply is identified by the run that worded it.
`run[r]` is a row of `runtime_agent_runs`, `rows[r]` the delivery states of the assistant turns of the
run's trace, `ledger` the keys the bridge has sent a reply under. `thread[t]` is the copy of the run
that a thread saves whole with each checkpoint, so that `attempt` and `step` may lag behind the row.

The receipt lock is short, and receiving falls between any two actions of a run; the conversation
lock is `lock`. The actions follow `handle_user_message` and `resume_recoverable_runs`: `Shell`
(reuse a result, skip a stale message, supersede older runs), `StartRun`, `Loop` (a step that goes on,
the step that ends, its checkpoint), `Finish` (result first, then the run), `Recover`, `Deliver` (the
API's claim and mark, the bridge's send). `RunFails` is an exception at any point of the loop, a
checkpoint whose lease was lost included; `Crash` takes all threads of a process; `LeaseRunsOut` and
`LockRunsOut` are timeouts under a thread that lives on.

System triggers get neither receipt nor version: they belong to the version they find.

### WaitingMatch

`demand[d]` is a row of `waiting_demands`; `host[g]` is the organizer of a game, `seat[g]` its participants:
`"confirmed"` and `"registered"` (by the organizer) take a seat, `"withdrawn"` and `"declined"` leave a
participant without one. `result[d][g]` is the remembered result of the trigger keyed by demand and game,
`notices[d][g]` the drafts written for the match.

A run (`EnterConversation` to `LeaveConversation`) holds its conversation's lock. `ChangeGame` is a call of one
of the four tools that `MatchTrigger.__call__` looks at; the hook then sweeps, scans, claims and dispatches in
the same thread, whatever the call changed. In particular `RecordCandidateReply` is open to a customer who is
no participant of the game, as `participation_access.py` line 17 is, and then adds none, while
`waiting_demand_mismatch_reason` passes over participants only: a run may find a demand of its own customer.
`EnterTrigger` takes the second conversation's lock and `EndTrigger` releases it; a message of that
customer in between (`ReceiveUserMessage`) makes the result a superseded one, which releases the claim
and is remembered all the same.

`LockWaits` tells the two coordination managers between processes apart: Redis gives up after `blocking_timeout`
(`GiveUpLock`), the lock of a file waits for ever, also for the thread that holds it, as each call opens
the file anew. The in-process manager of a store without a file, whose `RLock` nests, is for tests and not modelled.

A run started by a trigger may itself call tools and so start scans one level down; those are left out,
as a trigger asks its customer first and only a later message joins a game. Whether a demand suits a
game is the constant relation `Suits`; a participant who declined still counts, as in the code.

### ToolLedger and RoomCalls

`entry[k]` is what the ledger says of an idempotency key: nothing, a claim, a claim older than the
lease, or a result. `call[t]` is where a thread is in `execute`; `keyLock` is the lock of the key
within a process. `effects`, `lost` and `told` are history: effects of the handler, claims taken over,
results given to callers. `Handle` is the generic outcome of a handler. `RoomCalls` conjoins it
with what the handler does to the rooms: `ReserveRoom` is the whole write transaction of `reserve_room`.
`SetParticipationDeadline` is the tool with `retry_no_effect_failures`: its "failed" may or may not have
had an effect, its "no_effect" has none.

An interval is stored as ISO text at the offset its caller wrote it with, and the texts are compared:
`Start` and `End` are wall clocks. `NoRoomBookedTwice` is about reservations of one offset; with two
the code does book a room twice.

### BoardPublish

One room. `free[g]` is what a board can show of a game, its remaining seats, or 0 when it is neither
forming nor inviting; `task[p]` is a publish task, with `holder` and `leased` for its claim (how a claim is
fenced is `ScheduledTasks`' matter, proved there); `job[w]` is the handler in `BoardEngine.publish`: games
read, review, the bridge's `/send`, the snapshot, the settlement. `room` and `ledger` belong to the bridge,
another process: what was said, and the ids it will not say again. `owed` are tool results on their
way to `GroupBoardTrigger`, which runs after the tool's transaction and in no transaction with it.

A version of a board is named by its publication, its text and the games behind its numbers, so that
a retry finds its own message or snapshot (`SnapshotId`). `Number` and `Board` number the listed games in
their schedule's order. `ResolveItemNo` reads the snapshot behind a quoted message, or the latest.

`Publishing` maps the publish tasks to `LeasedWork`, the scheduler's promise: `ScheduledTasks` shows that the
table keeps it for a claim's credentials and clocks, this module that the publisher's side does with a
holder and a flag. The owner of a publication is the worker that claimed it last, as long as it is at it.

Faults, each one action: `FailPublication` (review, bridge or store refuse), `TimeOut` with `SayLate` (the
bridge says the board after its sender gave up), `DeferPublication` (policy or switch off), `Crash`,
`LeaseRunsOut` under a live worker, `LoseResult` (a death before the hook). `silent`, `late` and `reused`
are history; what they stand for is said under `BoardSettles` below.

## 3. Runs

| Run | Shows | Bounds |
|---|---|---|
| `ScheduledTable` | one publication of a room at a time, one live responsibility, fencing, exact attempts, settled stays settled, refinement of `LeasedWork` | one of four pairs of rows is created; 2 workers, lease 2, stall 1, clock 3 (recruitment 2), 4 claims of the room's pair, 2 of other rows |
| `PendingInput` | settled means complete, recovered runs included, one run per lease, no second settlement; waiting input is settled (fair) | 2 messages, 2 handlers, 1 scheduler, 1 recovery thread, 2 batches of 2 versions, lease 1, 1 death |
| `PendingInputReclaim` | **violated**: an abandoned batch is reclaimed | 1 handler, 1 scheduler, 1 death, fair |
| `PendingInputResult` | **violated**: a stored result is kept | 1 handler, 1 scheduler, no death |
| `Games` | seats, filled games, exclusive commitments, winners, invitations, refinement of `Commitments` | 2 games, 2 customers, 2 overlapping schedules and one apart, 2 invitations, 1 unprotected process |
| `GameCommitments` | **violated**: one commitment per window | as `Games`, no invitations |
| `GameClosing` | **violated**: closed games stay closed | 1 game, 2 processes |
| `ConversationRuns` | current replies, remembered results, one writer per run; every run ends (fair) | an API message, a WeChaty message and a trigger; 2 request threads in 2 processes, 1 recovery thread; 2 runs, 1 step, 2 attempts, 1 fault |
| `WaitingMatch` | one notice a match, no forgotten claim, one thread a conversation, ended stays ended; every run ends where locks time out (fair) | 3 customers, one of whom has a game and may be seated in others; 2 demands that suit one game each, 2 games of 2 seats, 2 threads, 2 calls of the four tools, 1 death, 1 demand may expire |
| `WaitingLocks` | **violated**: every run ends | 2 customers, 2 demands, 2 games, file locks, no death |
| `BoardPublish` | a number is the game the quoted or the last board showed; no change is forgotten, and in the end the room has seen the games as they are (fair); refinement of `LeasedWork` | 2 games with 2 and 1 seats, 3 changes, 5 publications (as many as 3 changes can ask for), 2 workers, 2 attempts, 1 fault |
| `RoomCalls` | effects per claim, agreeing answers that are what the rooms hold, stable results, no double booking | 3 reservations of 2 games at 2 offsets, 2 deadline calls (one retryable, one forbidden); 3 threads in 2 processes, 3 calls, 2 lapses, 1 death |

Why the bounds are enough. Scheduler: every hazard is about two claims of one row or two rows of one
aggregate, so two workers and two rows reach it; three claims of a row allow a failure, a deferral and a
takeover, and a clock of 3 with a lease of 2 lets a lease run out and the next one be live. `OnePair`
keeps the pairs apart: no action reads rows of two aggregates. Input: an overtaken dispatch needs a second
thread and a second version, a reopened batch a second batch. A lease of one tick is over at the next one, so that
a live run can be overtaken; the theorems cover every lease.
Games: `SeatsTotal` is 2 instead of 4, so that a table fills with one double or two single seats, is
overbooked by a repeated confirmation, and shares one or both of its players with another; two
schedules overlap at different starts, a third touches the first without overlapping. A third game
would only repeat one of the roles winner, loser and blocker, which the theorems confirm for any number
of games. `InvitedOrProcessed` lets invitations or late saves happen in a behaviour, not both: a late
save writes games only, invitations are read by no late save.

Conversations: every hazard needs a run that is overtaken, a message that overtakes it and a third
party that takes it over, after one fault. With one fault and two attempts no run fails for good: that
`UnfinishedRunEnds` counts a failed run as ended is not exercised, and what a failed run may no longer do
rests on the theorems. More steps or attempts repeat the phases of one.
Waiting: a lost claim needs two threads and one demand, a crossing of locks two of each; a third
customer organizes a game and waits for none, and is the player an organizer seats and takes out again.
Board: a stale board needs a change
after the games were read and one publication behind another; a third change returns to what an earlier
version showed, and one seat in each game makes two boards read the same. More changes repeat that,
more faults combine it with itself. Rooms: a double booking needs two
calls, a lost claim a third, and a takeover of a takeover two lapses.

What no run repeats because a theorem states it for every value of the constants: the types of `ScheduledTasks`,
`PendingInput`, `ConversationRuns`, `WaitingMatch` and `RoomCalls`, and `CommitmentsAreExclusive`, which `ImplementsCommitments` contains:
whatever is committed was apart from all others when it was, and `committed` otherwise only shrinks.

`CHECK_DEADLOCK FALSE` stands where the bounds let the system stop: the clock and budgets of the
scheduler, messages and runs of a conversation, tool calls, changes of games; and where nobody writes
any more (input).

Symmetry is over workers, over customers and games, and over threads of one process. Task numbers and
rooms are ordered and not symmetric. The runs of liveness properties have none.

### Fairness

`PendingInput` and `PendingInputReclaim` assume `PendingInput!Fairness`: time passes;
`PendingInputScheduler._run` polls for ever; a dispatch that has begun goes on, as model calls have
timeouts and an exception ends in `finish_pending_input_batch` with `failed`. Nothing is assumed of
customers or of recovery. No strong fairness is needed: a scheduler that loses a claim is idle again and finds
the batch due again.

`ConversationRuns!Fairness` is strong fairness of each thread's work and weak fairness of leases
that run out. Strong, because a thread that waits for the conversation lock is disabled whenever somebody
else holds it: `flock` and the Redis lock hand it on in the end. The recovery scheduler polls for ever
and is a thread like the others. Nothing is assumed of messages, faults or locks that run out.

`WaitingMatch!Fairness`, assumed by `WaitingMatch` and `WaitingLocks`, is strong fairness of a thread's progress: it leaves a run, goes on with a
scan or a dispatch. New runs, tool calls, cancellations and deaths are free. With `LockWaits` the
waiting for a lock ends by itself; without it strong fairness still promises a lock that becomes
free again and again, and `WaitingLocks` shows that it need not become free.

`BoardPublish!Fairness` is one weak fairness condition on the disjunction of the hooks, the work of the
publishers and the leases of those that are gone: the scheduler polls for ever, handlers have timeouts,
hooks are called by the thread that ran the tool. None of the three goes on for ever by itself, so
that fairness of their disjunction gives what fairness of each would. Games need not change and
customers need not answer. `BoardSettles` claims nothing when

* nothing is left to list: the engine publishes no empty board, the last one stays;
* `silent`: no refresh was asked for. `_expire_stale_games` (`R/stores/sqlite/game_mutations.py` line 112)
  asks for none, and a process that dies between a tool's commit and the hook loses the request, as the
  repeated call is `deduplicated` (`R/group_chat/board_trigger.py` line 57);
* `late`: a lease ran out after the guard (`scripts/agent_runtime_app.py` line 2885) and before the
  snapshot, or the bridge said a board its sender had given up: an older board may be the last one;
* `reused`: the retry of a publication found its games back at a version it had sent before an
  intermediate one, and took the older message for its own;
* a publication failed for good.

### What the violations mean

* `PendingInputReclaim`: a batch whose run died is found by every scan once its lease is over.
  The dispatch then records its gate decision, which sets `updated_at`, and claims, which requires
  `updated_at` to be older than the lease. The claim is refused each time, and the batch stays
  `processing` until its customer writes again. `README.md` line 524 says that the scheduler goes on
  claiming after a restart. In a private WeChaty chat recovery of the agent run may settle the batch
  instead; nothing does on the page, or where the process died before its run was recorded.
* `PendingInputResult`: `record_pending_input_decision` compares the version but not the status. A
  dispatcher whose gate answers late overwrites the decision of a batch that was finished
  meanwhile, and with it the `agent_result` the page polls (`README.md` line 525).
* `GameCommitments`: `README.md` line 384 promises that a time window belongs to one ready game.
  `update_game_status` admits `ready` by the transition table alone.
* `GameClosing`: `docs/runtime_loop_design.md` line 661 says illegal transitions are refused.
  The check and the save of `update_game_status` are separated by another process's commit: the
  method does not begin its transaction with the reservation line 713 describes.
* `WaitingLocks`: `docs/project_architecture_full.md` line 632 says that one conversation is served in
  sequence and different ones in parallel. A run holds its
  conversation's lock while the hook behind a tool call starts a run in the conversation of the
  customer it matched. Two runs that match each other's waiting customer wait for each other; with
  file locks for ever, and with them every later message of both. One run is enough where it matches its own
  customer: he was invited to a game, or found it, and waits for one like it, and declines it. He has become no
  participant, so that the scan behind his own call finds his demand, claims it, and the trigger asks for
  the lock of the conversation the run is in. Redis gives up, the claim is released and the run goes on,
  which the run `WaitingMatch` includes.

## 4. Proofs

Assumptions are those named in the modules: finite naturals for the delays, a positive lease, tasks and
publications numbered by naturals, sentinels outside the sets they mark, nonempty sets of games, customers
and schedules, at least one seat, finitely many customers, games of a board, messages of a conversation and threads of the gateway.
Nothing is assumed about how many there are of anything.

### ScheduledTasks_proofs

| Theorem | For every value of the constants |
|---|---|
| `TypeCorrect` | `[]TypeOK` |
| `Fenced` | `[]FencedClaims` |
| `AttemptsAccounted` | `[]AttemptsAccountForClaims` |
| `BoardsSerialised` | `[]OneLiveBoardLease` |
| `SettledStays` | `SettledWorkStaysSettled` |
| `ResponsibilitiesUnique` | `[]OneLiveResponsibility` |

`FencedClaims` is not inductive: it speaks of holders whose credentials match now and says
nothing of those that do not match yet. The invariant is `IInv == TypeOK /\ ClaimOrder`. `Behind(w)`
puts the `attempts` every holder remembers at or below its row's, and strictly below once the row
is processing under a later claim. A deferral lowers the row's `attempts`, but only the latest
claim can defer, the row is pending afterwards, and the next claim raises the count above every
older holder again: the invariant shows that `attempts` alone fences a claim, with `lease_until` as a
second guard. `Apart` says that two holders of one task hold different claims of it.

`BoardsSerialised` needs no strengthening but types: a claim is refused while another task of the
room is leased beyond the stamp of the claim, and `now` is not before the stamp. The remaining
theorems go by cases on `Next`, with one lemma (`BusinessStep`) for all writers of the table.

### LeasedWork_proofs

`LeasedWorkImplemented` is `Spec => ImplementsLeasedWork`. Initial states map to initial states
(`RefinedInit`); every step maps to a step or a stutter (`RefinedStep`): clocks, scans and skipped
identifiers to nothing, writers of the table to `Administer`, a claim to `Take`, a settlement to `Settle`,
a death to `Abandon`. Two facts about owners carry it. By `Apart` a row has one owner at most, so
`Owner` names it. By `Fencing` a settlement that changes a row comes from the owner. The converse needs
the strengthening `WInv == IInv /\ \A w : Matches(w)`: the latest claim of a row that is processing has
the row's `attempts` and lease, for otherwise the owner's settlement would be ignored with nobody to
take its place. `BusinessStep` provides it, as no writer touches the lease of a row it leaves processing.

### Games_proofs

| Theorem | For every value of the constants |
|---|---|
| `TypeCorrect` | `[]TypeOK` |
| `NeverOverbooked` | `[]TableIsNotOverbooked` |
| `FilledStaysFull` | `[]FilledGameIsFull` |
| `CommittedOnce` | `[]CommitmentsAreExclusive` |
| `WinnerTakes` | `WinnerTakesItsPlayers` |
| `AskedOnce` | `[]OneUndecidedInvitation` |
| `SeatLostClosesInvitations` | `SeatAndInvitationGoTogether` |
| `CommitmentsImplemented` | `ImplementsCommitments` |

The invariant is `Committed == TypeOK /\ LateSaves /\ FilledGameIsFull /\ CommitmentsAreExclusive`.
`LateSaves` says that a save that is still to come carries no game that is ready by filling: it is
why a lost update can take a commitment away but never duplicate one. `ReplyShape` states once what
the reply transaction does to all games (which players leave, who becomes ready, that the window of
no game changes), and every theorem cites it instead of expanding `Resolve`. `WinnerTakes` uses
`CommittedOnce`: a game that fills while its players are free leaves them in no waiting game by
`Losers` and in no ready one by `Blocked`.

`NeverOverbooked` is about a sum. `TakenSplit` splits it: the seats of a table are those of one customer and
those of the others. A reply asks for at most what the others leave (`Available`), so that the new sum
is within the table, whatever he held before; a release only takes pairs away (`TakenMonotonic`).
The property by itself is not inductive, as expiry and status updates write games they read earlier:
`Seated` says it of the games that are waiting to be saved as well.

`CommitmentsImplemented` shows that a reply to a table that filled is one of two things. By
`FilledTableKeepsPlayers` a table that is still full has exactly the players it had: with no seat free,
whoever holds k seats can only confirm k. Otherwise it is reopened and leaves the committed tables. A reply
that fills a table adds its commitment, which `Unshared` of `ReplyShape` keeps apart from all others. Every
other step keeps a filled table as it is or dissolves it (`OtherStep`).

`AskedOnce` and `SeatLostClosesInvitations` are about invitations. `AnswerShape` and `ReplyStepAnswers` state what every kind of reply
does to a customer's drafts: they all get the same answer, and drafts of other games are only superseded.
`AskedOnce` then needs the invariant `Asked` (two undecided invitations are one), `SeatLostClosesInvitations`
the invariant `Absent`: nobody sits in a game that does not exist, so that whoever loses a seat was
replied for, released or withdrawn by name.

### PendingInput_proofs

`TypeCorrect`, `CompleteCorrect` (`[]SettledBatchIsComplete`), `LeaseCorrect` (`[]OneRunPerLease`) and
`SettledCorrect` (`SettledBatchStaysSettled`). The invariant is
`BatchInv == TypeOK /\ JobInv /\ SettledBatchIsComplete /\ OneRunPerLease`. `JobInv` relates what a
dispatcher read to the row: `ReadFromRow` (an older batch or version, or exactly the fragments of the
row), `HasRow` (a run of the current version has the row, and the row was not idle for longer than the
run is old). So a claim that finds the lease over finds every run of that version older than the lease.
`RunInv` says of unfinished runs and of those being delivered what `ReadFromRow` says of dispatchers: a
recovered run of the current version answers exactly the fragments of the row it settles.

### RoomCalls_proofs

`EffectsCorrect`, `AnswersCorrect` and `ResultStays` are about the ledger, `TypeCorrect`, `BookingCorrect` and
`AnswersHoldRoomsCorrect` (`[]AnswersHoldRooms`) about the rooms. The ledger's go over `LedgerStep`, what any
handler may do to it, so that they hold of every tool that keeps to it (`StepOfLedger`). The invariant is
`LedgerInv == LedgerTyped /\ Budget /\ Turns /\ Told`: effects and the calls that may still have one are paid for
by the first claim and the takeovers (`Budget`); short of a takeover one call of a key is under way (`Turns`)
and what callers heard is what the ledger says (`Told`).

For the rooms, `RoomInv` is types, `NoRoomBookedTwice`, `Accounts` (a row for each effect) and `Kept` (only
closing its game releases a row). `AnswersHoldRooms` spans ledger and rooms. That a success has a row is
`Told` with `Accounts`; that it is still held, `Kept`; that there is one row at most, `Budget`. That a
call which failed has none needs the invariant `Refused`: short of a takeover a failure that was told,
remembered or is about to be is one of a call that had no effect.

### WaitingMatch_proofs

`TypeCorrect`, `NoticesCorrect`, `ClaimsCorrect`, `EndedCorrect` and `OneThreadInside`
(`[]OneThreadPerConversation`). The invariant of the
claims is `ClaimInv == Typed /\ Exclusive /\ Fresh /\ OneNoticePerMatch /\ ClaimIsNotForgotten`: a demand is dispatched by one
thread, for the game it was claimed for (`Exclusive`), and no notice exists yet of a match that is being worked out
(`Fresh`). `StepOfClaims` reduces the steps of the module to four things that can happen to a claim.

The invariant of the locks is `Typed /\ LockInv`. A thread holds the lock of every conversation it works in
(`Locked`), and a trigger it runs is in another conversation than its own (`Own`). `Own` does not follow from what the
scan finds, which may be a demand of the run's own customer, but from the lock: it must be free when the trigger
enters, and the thread holds its own. Without `Own` the end of a trigger could release the lock of the run around
it. Locks here end with their thread; the ones that run out under a thread that lives on are those of `ConversationRuns`.

### ConversationRuns_proofs

`TypeCorrect`, `CompletedCorrect`, `PendingCorrect`, `ShownCorrect`, `ClaimCorrect`, `ResultCorrect`, and
`FinishedCorrect`: a completed, superseded or failed run is never touched again, which no run of TLC
repeats. The invariant is `Inv == Typed /\ Kept /\ Holds`. `Kept` holds whatever fails: a thread's run,
message and reply belong together, a completed run's message has a result, a pending reply has the
current version. `Holds` is the mutual exclusion, which is true only until a lock runs out under a live
thread (`expiries = 0`): who is inside holds the lock and made the last claim of its run. `ShownReplyIsTheResult`
and `LatestClaimWrites` depend on it and say so; the others do not. `TypeCorrect` needs `Counted`: the
version is the number of messages received.

### BoardPublish_proofs

| Theorem | For every value of the constants |
|---|---|
| `TypeCorrect` | `[]TypeOK` |
| `QuotesCorrect` | `[]QuotedNumberMeansItsGame` |
| `UnquotedCorrect` | `[]UnquotedNumberMeansLastBoard` |
| `NothingForgotten` | `[]NoChangeIsForgotten` |
| `PublicationsAreLeasedWork` | `ImplementsLeasedWork` |

The numbers of a board. `NumberInjective` says that two listed games have different numbers, as one is among
the games the other is numbered after; `NumberRange` that numbers are at most as many as the games;
`NumbersFill`, by counting, that they are 1 to n. So a board is a sequence (`BoardType`) and only
an empty list of games makes it empty (`EmptyBoard`).

`BoardInv == Typed /\ Named` says that a version names its board wherever it is kept: in the room, among
the snapshots, in the bridge. `QuotesCorrect` follows. `TableTyped` types the tasks and history; it needs
that an attempt given back was counted before.

`UnquotedCorrect` needs `PubInv`. One task of the room is leased at most (`Exclusive`); short of a lease that ran
out late, who is past the guard is leased (`Timely`), so that one worker is between the guard and the
snapshot at most; what it saves was delivered (`Delivered`) and is the last board of the room (`SavesLast`).

`NothingForgotten` is the safety behind `BoardSettles`, and says where the next publication comes from. The
strengthening is `OldIsOwed`: a leased worker with a board that is not the board of the moment has a
refresh owed behind it. Each change owes one (`ChangeOwes`), a hook pays what is owed with a task (`HookOwes`),
a task is pursued once claimed (`RefreshClaim`), and a worker that ends with an old board leaves what
`OldIsOwed` promises (`RefreshSend`, `RefreshSave`, `RefreshEnd`). The proof found that excuses must include
boards taken for older messages (`reused`), and that a worker in review whose lease ran out still pursues
its publication, as the guard will refuse it. What is left to liveness is that what is owed is paid.

`PublicationsAreLeasedWork` follows `LeasedWork_proofs` in outline with another argument: a worker has one job, so
the holder of a task with a job on it is its owner (`OwnerHolds`), and the owner depends on the task and its
holder's job only (`SameOwner`).

### Only model-checked

* liveness (`WaitingInputIsSettled`, `UnfinishedRunEnds`, `EveryRunEnds`, `BoardSettles`) and its
  refutations, which the prover does not handle.

Every other property of a run that passes is a theorem as well.

## 5. Plan

In order of weight for the system's correctness; 1 to 6 are done.

1. `ScheduledTasks`, `LeasedWork`: modelled, checked, proved, the refinement included.
2. `PendingInput`: modelled, checked, safety proved.
3. `Games`, `Commitments`: modelled, checked, proved, the refinement included.
4. `ConversationRuns`: modelled, checked, safety proved. To come: task contexts, and the composition with
   `PendingInput` as the source of messages.
5. `ToolLedger` with `RoomCalls`, `WaitingMatch`: modelled, checked, safety proved. To come: the waves of a
   step, read-parallel and write-serial.
6. `BoardPublish`: modelled, checked, safety and the refinement of `LeasedWork` proved. To come: rooms with different policies.
7. `FollowUps`: the review budget of a goal, counted over the history of its rows, composed with the
   scheduler; bounded reviews.
8. Progress of the scheduler: due work is eventually settled, with relative timers as in `PendingInput`, so
   that no last tick cuts a behaviour off, and the scheduler thread's end by a store exception.

## 6. Not modelled

* Text: prompts, parsing, wording, review, matching scores, context retrieval and summaries. They are
  functions of a snapshot, or calls of a model, whose results are nondeterministic here.
* Tools called by a run that a trigger started, and the waves in which one step's tools run.
* The board's wording, policies of rooms, posts imported from a room; more than one room.
* Follow-up budgets, task contexts of a conversation, operator recalls of a message that created a game.
* In-memory stores: test twins within one process. HTTP, console, tracing: I/O. The channel bridge is
  another process in another language: its delivery ledger, redelivery and late requests are modelled
  from how the application uses it. A bridge that dies between saying a board and recording it would say
  it again; that is left out, as nothing in the bridge claims otherwise.
* Evaluation and test scripts, LLM clients and the console: about two thirds of the repository's
  lines, without state shared between actors. The map covers the transactional stores, the runtime's run
  handling, the gateway, the schedulers and the publication path, which is a small share of all lines.

`PROJECT.json` gives the status of each component.
