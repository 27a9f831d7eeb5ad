# A TLA+ model of the assistant

The repository is a personal Telegram assistant in Python: one asyncio process with a control bot
(aiogram), a userbot (Telethon), a SQLite database, language-model agents that call tools, and a
dozen background loops. Nearly all of its hard behaviour comes from one fact: everything runs in one
event loop, so a handler is atomic between two `await`s and interleaved with everything else at them.
Locks are `asyncio.Lock`s, cancellation can strike at any `await`, the process restarts at any time,
and what survives is the database and one JSON snapshot.

These modules model the parts whose correctness depends on such interleavings. Paths below are
relative to `src/` of the repository's Python package, line numbers are those of `PROJECT.json`
("map"), which names for every definition the code it stands for.

## Inventory

| Part | State | Operations | Hard behaviour | What makes it correct |
|---|---|---|---|---|
| **Tool circuit breaker** `core/actions/circuit_breaker.py`, driven by `tool_middleware.py` | a circuit per tool: state, failure count, time of opening, probe flag | `check`, `record_success`, `record_failure`, `reset`, `cleanup_stale`, `capture_state`, `restore_state` | concurrent calls of one tool report late; a call is cancelled between check and report; snapshot and restart | trips exactly at the threshold; HALF_OPEN has a probe and is resolved; a healthy tool comes back |
| **Snapshot engine** `core/state/snapshot_engine.py` | `data/snapshot.json` | periodic save, restore | a snapshot in the middle of a probe, stale stamps | what is restored is a consistent circuit |
| **Circuit telemetry** `core/observability/circuit_telemetry.py`, **event bus** `core/events/event_bus.py` | cache of reported states, handler tasks under way | emit, deliver, periodic refresh | events overtaken by copies, lost with a cancelled emitter | the report converges to the circuits |
| **Tool confirmation** `bot/handlers/free_text/_confirm.py`, `core/security/approval.py`, `db/repos/commitment_repo.py` | rows, memory entries, locks per user | store, confirm, cancel, expire, clean up | two presses at once, timeout inside the lock, crash after commit, expiry under way | runs at most once, never after it was cancelled |
| **Send confirmation** `bot/handlers/send.py` | rows, locks, the edit dialogue | ask, confirm, cancel, edit, expire | sends that hang, fail or succeed without a reply; edit without the lock | sent once, cancelled is final, unsent can be retried |
| **Notification queue** `core/scheduling/notification_queue.py` | rows sent or not, a loop | enqueue, flush, cleanup, start, stop | failing sends and commits, full batches, long downtime | everything arrives, once, and nothing unsent is deleted |
| **Notifier** `core/infra/notifier.py`, `_retry.py` | bot, buffer, flush task | notify, attach, cleanup | used before the bot exists and after it is gone | what is buffered is sent |
| **Fact batch buffer** `core/memory/auto_save_batch.py` | buffered messages, a flag, one task that is a timer or a flush | add, timeout, flush, flush at shutdown | flushes overlap, are cancelled before they ran or while they run, fail | a message is extracted from once, and never left without a timer or a flush |
| **Memory queue** `core/memory/_queue_core.py`, `memory_queue.py` | bounded queue, dead-letter list, journal, overflow buffer | enqueue, work, retry, start, stop | every stage full, journal failing, a worker that enqueues into its own queue | a job is processed, journaled, or dropped at a named place; the worker never waits for itself |
| **Timers** `core/actions/mcp_timer.py` | alarm tasks, rows, ids cancelled early | set, persist, cancel, fire, restore | cancel races firing and persisting; errors of the database; restarts | a cancelled timer does not fire, none fires twice, a stored one is watched |
| **Cron scheduler** `core/scheduling/cron/`, `db/repos/cron_repo.py` | jobs with a run count, a limit and a next time | tick, re-check, dispatch, advance, edit | edits and disabling during a dispatch, timeouts and crashes after it | at most the limit of counted runs, an edit is not lost to a dispatch, what is due runs although a tick reads a limited number |
| **Key rotation** `core/crypto/key_rotation.py` | data keys in memory and in rows | rotate, re-encrypt, persist, load, evict | re-encryption or persisting fails half way, the cache is full, a restart in between | whatever is encrypted has a key in memory or in a row |
| **Scheduled messages** `core/scheduling/message_scheduler.py` | rows pending, sent, failed | tick | one commit for a whole tick of sends | a message is sent once, a sent one not reported failed |
| **Decision repair, duplicate pruner** `tool_middleware.py` | failures per signature, hints | bump, stash, pop | concurrent calls of one signature | a hint after N failures, to its own user |
| **Task manager** `core/infra/task_manager.py` | a wrapper task, status and failure count per loop | start, restart, give up, stop | a loop that fails while it is stopped; cancellation in a delay; two timeouts around one stop | a failed loop comes back or is given up and reported; shutdown ends; the reported status is true |
| **Provider keys** `llm/provider_manager.py`, `llm/router.py`, `db/repos/key_repo.py` | a breaker per key, a cooldown per row, a cached provider | check, succeed, fail, build, restore, clean up | calls share a key; breaker, row and cache keep it out for different times and are written in different steps | a key is probed only after its cooldown, and no key stays out for ever |
| **Provider slots** `llm/provider_manager.py` | semaphores per purpose | acquire, fall back, release | slot timeouts | slots are returned |
| **Reminders and other loops** `core/scheduling/*` | marks in rows | tick | mark committed before the notification | a reminder is not lost |

How they interact: the middleware wraps each tool call in the breaker's hooks and awaits the
breaker's events on the bus, where the telemetry listens. `main.py` restores the snapshot, subscribes
the telemetry, starts the loops (one of which cleans the breaker up and refreshes the telemetry every
five minutes), and saves the snapshot. The bot's callbacks confirm tool calls and messages. Loops
and callbacks enqueue notifications, whose loop hands them to the notifier, which needs the bot.

Language-model agents, providers, retrieval, skills, the userbot's event handlers, the single bot
commands, text filters, schema and migrations are listed in `PROJECT.json` with the reason why they
are not modelled: their behaviour is data, text or another system's.

## Modules

| Module | Models |
|---|---|
| `ToolCircuitBreaker` | the breaker, the calls around it, snapshot and restart |
| `CircuitTelemetry` | extends it with the event bus, the refresh and the report |
| `ConfirmLock` | the table of per-user locks both confirmations use, with the replacement after a timeout |
| `ToolConfirmation` | tool confirmation on its two routes |
| `Approval` | what a confirmation promises; `ToolConfirmation` implements it |
| `SendConfirmation` | the life of a message waiting for its confirmation |
| `Notifier` | the notifier: bot, buffer, delivery |
| `NotificationQueue` | extends it with rows, the flush loop and the callers |
| `Mailbox` | what the queue promises its callers; `NotificationQueue` implements it |
| `FactBatchBuffer` | the buffer of messages to extract facts from, its timer and its flushes |
| `MemoryQueue` | the job queue, its dead-letter list, journal and overflow buffer, the worker and the retry loop |
| `Timers` | one-shot timers: task, row, cancellation, restoring |
| `CronScheduler` | repeated jobs: the scheduler's loop against the owner's edits |
| `KeyRotation` | data keys in memory and in the table, re-encryption and its failures |
| `TaskManager` | the wrappers around background loops, and shutdown |
| `ProviderKeys` | the keys of one language-model provider: breakers, cooldowns, cache, calls |
| `MCBackground` | an instance of the seven above, side by side |
| `MC...` | instances of the others for TLC |
| `...Proofs` | theorems; `ToolCircuitBreakerProofs` is also about `CircuitTelemetry`, `MemoryProofs` about `FactBatchBuffer` and `MemoryQueue`, `SchedulingProofs` about `Timers`, `CronScheduler` and `TaskManager`, `KeysProofs` about `KeyRotation` and `ProviderKeys`, `BackgroundProofs` about `MCBackground` |

### ToolCircuitBreaker and CircuitTelemetry

Each classmethod runs its critical section under one lock without an `await` in it, so it is one
step. A tool call is two: `Begin` (the pre-hook) and `Succeed`/`Fail` (the post-hook), or `Cancel`,
which leaves `wrap()` without a post-hook because `CancelledError` is no `Exception`. `opened_at` is
kept as the time since, saturated at the cooldown; a negative difference (a stamp of an earlier boot)
is expired in the code and in `Restored`. The counter is compared with the threshold only and stops
there. `SaveSnapshot` copies the circuits, `Restart` starts from the snapshot, with any age, or from
nothing.

In `CircuitTelemetry` an event is a task that the event loop starts in order, so `bus` is a queue;
an emitter awaits its event, so it has at most one there. The refresh copies all circuits first and
emits the copies one by one (`toPush`): between them the circuits move on. A cancelled emitter takes its
event with it (`Unsend`). The module follows one life of the process, from any circuits a restart can
leave (`Restorable`); that these are all it can leave is proved (`RestartLeavesRestorable`).

### ConfirmLock, ToolConfirmation, Approval, SendConfirmation

A press of a button is a task: it fetches the user's lock object, enters it, and takes one step per
`await`. On the memory route a press is one step. `Timeout` is `asyncio.timeout(300)`: it strikes inside the
lock and puts a new lock object into the table while others wait for the old one; a commit under way
may still take effect. `DbError` is a raising session, `Restart` a new process, which keeps the rows
and loses entries, presses and dialogues. Eviction of free locks is left out: see the comment of
`ConfirmLock`. A button is taken to carry the signature issued for its action; keys and hashes are
data.

`Approval` has four sets and four actions: an action is asked about, claimed once while open, run
once for its claim, or withdrawn. The refinement maps `open` to the stored actions that are not
expired, or were verified before they expired (`Open`), and `claimed` to those a press holds between
its commit and the run.

In `SendConfirmation` the order is the opposite, as in the code: the message is sent first and the
row deleted after, so that a failure can be retried. `Deliver` is the moment it reaches Telegram;
`KeepRow` is a lost reply or a failed deletion.

### Notifier and NotificationQueue

A notification is an integer, ids growing with time; a message is a set of them. `flush` is
`Reserve` (the rows are read and grouped), then `Send` and `Mark` for each message; the order of the
topics is left open. `FlushFails` is any database error, `Clean` and `Sleep` the end of the round.
Time is counted in rounds: rows age by one per round and by anything while the process is down.
`Attempt` is one call of `send_with_retry`, which sends up to three times. Where sends fail, the message
may have arrived never, once or more often by then (`Copies`), since a send whose answer was lost is
repeated like one that never left; `handed` counts the calls, `delivered` what arrived. `notify` swallows
the error of the last try. Which faults happen in a behaviour is chosen in its initial state (`faults`). `Detach` is the bot going away before the queue is stopped.

`Mailbox` is what a caller may expect of the two: a notification is posted once, waits, and arrives; it may
arrive in the step that posts it, several may arrive together. Only where a send, the database or the
process may fail (`mayFail`) may one be lost (`Lose`, or a `Post` that leaves nothing), arrive twice at once
(`Arrived`) or again (`Repeated`). The refinement maps `waiting` to what has been made, has not arrived, and
is an unsent row or in the notifier's buffer (`Waiting`). `NeverTwice` says more for failing sends alone: of
the queue's own steps none repeats anything, so what arrives twice was repeated inside one call of
`send_with_retry`.

### FactBatchBuffer

The buffer's lock is never held across an `await`, so what is done under it is one step: `Add` in its
three cases (a flush is running, the buffer is full, it is not), `TimeoutFlush`, and the `finally` of a
flush. A flush is known by its batch. `_flush_task` holds either a timer or the flush of a full buffer;
a flush started by a timer is kept nowhere. `add()` cancels whatever is in `_flush_task`, also a flush
that has not run yet or is inside its request. `FlushNow`, `FlushNowTimesOut` and `StopTasks` are the
shutdown. The request to the model ends well or raises; prompts and parsing are left out.

### MemoryQueue

A job moves from `enqueue` (`Put`, or `PutTimesOut` when the queue stays full) to the dead-letter list,
from there to the journal when the list is full, and to the overflow buffer when the journal fails;
the retry loop moves jobs back. The worker (`Get`, `Finish`) is a caller of `enqueue` itself when a job
extracts facts (`EnqueueFound`). The journal is written in another thread: `JournalAnswers` is its
result, `again` and `aside` are what a pass of the retry loop holds across its own `await`s.

### Timers

One timer has up to three tasks at work: the setting (`Start`, `Persist`, `Commit`), the alarm (`Fire`,
`FireDeletes`, `Notify`) and a cancellation (`Cancel`, `CancelDeletes`). A write transaction keeps other
writers waiting (`CanWrite`). `Load` is the first tool call after a start, which restores rows that are
not yet due and drops the others. `due` is what the clock has reached; it reaches any timer at any time.

### CronScheduler

`Tick` reads the due jobs, at most `MaxDue` of them and the most overdue first; then for each of them
`Recheck` (its row again and the next time), `Deliver` (outside of any transaction) and `Advance` (one
`UPDATE` that counts the run, unless the job was switched off). Between any two the owner may edit the schedule, timezone or limit, toggle or delete the job.
A schedule is the set of hours of a day at which it fires. `basis` and `excused` are history: the
schedule a stored time was computed from, and the jobs of which a dispatch went uncounted. A time that has
come is 0 hours away whenever it came, so `earlier` remembers the order: which of them came before which,
with `NoneRuns` standing for the time in `plan`. Times of the same hour are read in either order, and so are
the jobs one tick has read. A job in `Hopeless` is cut off by the timeout of its delivery every time, and
this is not counted in `MaxTroubles`.

### KeyRotation

A data key is the number of its generation. `BeginRotation` makes a key and evicts one from memory,
`ReEncrypt...` goes through the rows of a table and skips those it cannot read, `PersistRotation` commits
rows and key together, `ReEncryptFails` and `RotationFails` are the error paths. `OwnerWrites` puts a row
back under the key of the configuration. `RotationRestart` empties the memory; `LoadKeys` fills it from
the table, newest first. A row is known by the key that encrypts it, not by its value.

### TaskManager

`at` is where a wrapper is: before its first step, in the loop, in a delay, telling the owner that the
loop is given up, or ended. `cancelled` is a cancellation requested and not delivered yet. A cancelled
loop ends (`LoopStops`) or raises something else (`LoopFailsToStop`): the wrapper cannot tell that from
any failure and goes into its delay. `asyncio.wait_for` cancels what it waits for when it times out and
waits for that to end, so `MainTimesOut` (main's 15 seconds) and `StopTimesOut` (30 seconds) are
further cancellations, each after the one before it has been seen.

### ProviderKeys

A call takes a provider from the cache (`UseCached`) or builds one (`ReadSlots`, `RestoreCooldowns`),
then goes through its keys: `Look` is the check under the lock, which turns an OPEN breaker whose time
has come HALF_OPEN; `Succeeds` and `Fails` change the breaker, `MarkUsed` and `MarkFailed` the row in a
later step that may fail. `GivesUp` is any way out that records nothing. Times are counted in base
cooldowns; `age` is the time since the last failure, up to where nothing depends on it any more.

### MCBackground

The seven background components share no state, so their product says nothing that they do not say
one by one. `MCBackground` therefore extends all seven modules and gives work to one of them per
behaviour, chosen by `subject` in the initial state; `ProviderKeys` has two instances, two calls on one
key and one call on two keys, and so has `CronScheduler`, two jobs that the owner edits and three jobs
of which one is hopeless. `MCCircuitTelemetry` chooses in the same way between the breaker alone and
the breaker under its telemetry.

## Runs

Bounds are small because the components are symmetric in calls, presses, rows and jobs, and each hazard
needs few of them; the point of each bound is named.

| Run | Shows | Bounds |
|---|---|---|
| `breaker` (calls) | `TypeOK`, `TrippedIffThreshold`, `HalfOpenHasProbe`, `HalfOpenResolves`, `Recovers` with cancellation, reset, cleanup, snapshot and restart; the set of faults that happen is chosen in the initial state, and the last three speak of the behaviours without cancellation and restart | one tool (circuits are independent), 3 calls: an old one, a probe and one more; threshold and cooldown 2, so that both have a middle; the telemetry hears of every change at once |
| `breaker` (reports) | `ReportsSound`, and `TrackedReportConverges` although cancellation loses events | 2 tools, so that copies wait behind each other; 1 call, operator, refresher; the same threshold and cooldown |
| `breaker_cancelled_probe` | **violated** `ProbeResolves`: a cancelled probe blocks the tool for ever | 1 tool, 2 calls |
| `confirm_promise` | `TypeOK`, `AtMostOnce`, `KeepsPromise` (refinement of `Approval`) with restarts and database errors | 2 users, 3 presses; one user's row and an entry whose key looks like a row's id, the other's ordinary entry |
| `confirm_timeouts` | `OnlyDigitsSurvive`, `PressEnds` with timeouts, restarts and errors | 2 presses, 3 locks: one for each replacement that can be in use; a row and an entry whose key looks like a row's id |
| `confirm_digits` | **violated** `CancelRevokes`: the cancel button of such an entry says that it is cancelled, and it can still be claimed | the same with one user, 2 locks and no faults |
| `send` | `TypeOK`, `DeliveredOnce`, `Retryable`, `CancelIsFinal`, `PressEnds`; either the owner edits, or sends hang, replies are lost and the process restarts | 3 presses, 4 locks, 2 actions (one replaces the other; one is enough where things fail) |
| `send_old_text` | **violated** `SupersededNotSent`: an edit overtakes a confirm that has read the old text | 2 presses |
| `notify` | `TypeOK`, `UnsentKept`, `KeepsMail` (refinement of `Mailbox`), `EveryNoteArrives`; either nothing fails, or sends, the database and the process do, as chosen in the initial state | without faults 5 notifications, 1 urgent, so that buckets overflow; with them 2 rows of one bucket and a buffer of 2; batches of 1, window 1, TTL 3, cleanup every 2 rounds |
| `notify_lost` | **violated** `FlushedWasSent`: a failed send marks its rows as sent | 2 rows |
| `restarts_short` | **violated** `AbandonedAfterRestarts`: a loop is given up one restart early | 2 loops, 2 failures |
| `background` | `BackgroundTypeOK` and the properties of the seven components, listed below | below |
| `batch_stranded` | **violated** `NothingStranded`: a message added while a full buffer is flushed gets no timer | 3 messages, batches of 2, no faults |

What `background` checks of each component:

| Component | Properties | Bounds |
|---|---|---|
| `FactBatchBuffer` | `InOneBatch`, `Attended` | 4 messages, batches of 2: two full flushes, or one and a timer, overlap |
| `MemoryQueue` | `JobsConserved`, `WorkerGoesOn`, `JobsSettle` | queue, dead-letter list and overflow buffer of one each, so 4 jobs and one that enqueues another fill all of them |
| `Timers` | `RevokedIsGone`, `FiresOnce`, `RowsWatched`, `ActiveFires` | 2 timers (they meet in the database's lock), 2 restarts |
| `CronScheduler` | `LimitKept`, `EditTakesEffect`, `DueRuns` | 2 jobs, one limited to 1 run, with two edits, two troubles or one of each; or 3 jobs of which one is hopeless and due before the others, with one trouble; a tick reads 2, so that the others take turns; a day of 2 hours, schedules with one hour or none (also those an edit makes) |
| `KeyRotation` | `RowsReadable` | a row of each table, 3 keys in memory of 5: the fourth rotation evicts the first key |
| `TaskManager` | `HealthIsTrue`, `Supervised`, `ShutdownEnds` | 2 loops, 3 failures, 2 failing cleanups each |
| `ProviderKeys` | `ProbeAfterCooldown`, `KeysComeBack` | 2 calls on one key; 1 call on 2 keys, so that the cache holds a provider without the other; threshold 2, cooldown 1 and 2 |

`MaxDeliveries` bounds how often a message is sent, `MaxBuffer` the notifier's buffer (at least the
number of urgent notifications and messages, so it blocks nobody where liveness is checked);
`delivered` tells apart never, once and more in the notifier. `MaxRestarts` bounds the restarts of
`Timers`, `MaxEdits` and `MaxTroubles` what happens to `CronScheduler`, `MaxLimit` its counters, `MaxDeks`
the generations of keys, `MaxBadCleanups` how often a loop fails to stop, `MaxTripped` the growth of a
cooldown. `runs`, `Actions`, `Notes`, `Texts` and jobs are bounded by the instance. `CircuitTelemetry`'s
queue is bounded by the number of emitters. Deadlock is not checked in `background`,
`batch_stranded` and `restarts_short`: components without work stop there.

The six violated properties quote the code's own comments and are described under "findings" in
`PROJECT.json`.

## Observations

While modelling, TLC or a reading of the code also found the following, which have no run of their own.

Breaker, confirmations:

* a snapshot taken during a probe restores the probe flag without the probe (`snapshot_engine.py:228`):
  the same dead end as a cancelled probe;
* a late result of an older call clears the probe flag, so a second probe can start
  (`circuit_breaker.py:170`), and a late success closes an open circuit before its cooldown (`:131`);
* a stale copy of the refresh, or a reset that overtakes it, leaves a report that later refreshes
  skip because the circuit has no entry any more (`circuit_breaker.py:313`); so does a cleanup right
  before the refresh (`:399`);
* after a timeout has replaced the lock, one press works under the old lock and one under the new,
  and both run the tool (`_confirm.py:425`) or send the message (`send.py:607`);
* a failed deletion after a send leaves a button that sends again (`send.py:586`).

Fact batch, memory queue:

* `add()` may cancel a flush that overlaps another one, after the `finally` of the other has reset
  `_is_flushing`; its messages are dropped (`auto_save_batch.py:253`);
* nothing reads the journal back, and what it stores of a job lacks the text of the facts
  (`_write_to_dlq_journal`, `_queue_core.py:176`);
* a job that raises is acknowledged like one that is done (`memory_queue.py:50`);
* the eviction by lowest retry count in `_retry_dlq` (`_queue_core.py:114-121`) is never reached:
  `enqueue` and the drain both stop at the limit, and a retry puts back only the job it took. What a full
  system drops is the first job of the overflow buffer (`_overflow_buffer_append`), without regard to
  how often a job was tried.

Timers, cron, keys:

* a timer that fires before it is persisted answers the owner as "cancelled" (`mcp_timer.py:344`); rows
  that became due while the process was down are dropped at the load; a crash after the row is deleted
  loses the notification (`:500`); nothing is restored before the timer tool is first used;
* `_execute_job` reads the row again but does not look at `next_run_at` (`scheduler.py:203`); an edit of
  the timezone alone keeps the old `next_run_at` until the next run (`mcp_cron.py:799`); a failed
  delivery counts as a run, and a dispatch that times out does not, so it is repeated in the next tick; a job
  disabled while it is delivered is not counted either; no tool sets `max_run_date`;
* a job that is cut off every time keeps its old time and is among the first fifty rows of every tick
  (`scheduler.py:87`, `cron_repo.py:161`). `DueRuns` therefore speaks of fewer such jobs than `MaxDue`; with
  as many of them and without that premise (`Hopeless = {j1}`, `MaxDue = 1`) TLC finds the other jobs starved, against "sends every
  due job" (`scheduler.py:5`);
* re-encryption tolerates one key less than the cache holds, since the new key takes a place before the
  rows are read (`key_rotation.py:115`); the rotation can write an owner's old key back (`rotation_task.py:92`).

Task manager, provider keys, others:

* a loop that fails in answer to its cancellation is started again during the shutdown. There are three
  cancellations (`stop_all`, main's timeout, `stop_all`'s), so a third such failure makes `main()` wait
  for ever: with `MaxFailures = 4` and `MaxBadCleanups = 3` TLC finds `ShutdownEnds` violated;
* failures of a loop are never forgotten, so `max_restarts` is its number for the whole life of the process;
  a stray `CancelledError` from inside a loop ends it for good as "stopped" (`task_manager.py:159`);
* `_restore_cooldowns` "restores the circuit breakers of keys in cooldown after a restart"
  (`provider_manager.py:622`), but its only caller passes the keys `get_active_keys` found *out of* cooldown
  (`:1054`), so it restores one only when another call writes the row in between. With the property
  "at the end of `RestoreCooldowns` every cooling key has a breaker" TLC finds a counterexample of 9
  states; nothing breaks, as the row itself keeps the key out;
* a row cools down from the first failure on, the breaker opens at the third; cooldowns between 2880 and
  3600 seconds restore to a breaker that is ready early, because the restored count ignores the cap;
* `_trim_circuit_breakers_if_needed` removes the most recently used closed breaker first, where its comment
  says the oldest;
* reminders commit their mark first and enqueue one by one: a failing enqueue loses the rest of the batch
  for a day (`reminders.py:86`); the bot is detached before the queue is stopped, so what is flushed in
  between goes to a buffer nobody sends (`app.py:474`); `send_with_retry` repeats a send whose reply was
  lost (`_retry.py:33`).

## Fairness

* Breaker: `WF` on the clock and on the end of each call (handlers have timeouts), `SF` on the
  start of a call: an agent that is refused a tool will ask again, and the tool is available again and
  again, not continuously.
* Telemetry: `WF` on delivery, on the next copy and on the refresh: the event loop runs its tasks and
  the cleanup loop comes round. Nothing is assumed of the calls.
* Confirmations: `SF` on a press's steps that take the lock, because `asyncio.Lock` wakes its waiters
  in the order they came and the lock is free again and again. In `SendConfirmation` nothing is
  assumed of a send, which may hang: only of the timeout (`WF`), which is why `PressEnds` there is a
  statement about the timeout.
* Notifications: `WF` on the loop as a whole, on the buffer's task, and on attaching the bot, which
  `main()` does once. Nothing is assumed of the callers.
* Memory queue: `WF` on the worker (a job ends or raises), on the retry loop, which runs every 30
  seconds, and on each caller, whose wait has a timeout.
* Timers: `WF` on the passing of time, on a timer's task, and on its being persisted and committed
  (the database answers). Nothing is assumed of the owner.
* Cron: `WF` on time, on the tick and on the loop's next step, which may be the timeout of a dispatch. In
  `MCBackground` these are assumed where the scheduler has work, as those of the breaker and of the telemetry are
  in `MCCircuitTelemetry`.
* Task manager: `WF` on each wrapper and on `stop_all`'s timeouts and its end. Nothing is assumed of the
  loops, which may run for ever, fail, or return.
* Provider keys: `WF` on time and on the expiry of the cached provider (300 seconds). Nothing is assumed
  of the calls or the cleanup, so `KeysComeBack` does not rest on `cleanup_circuit_breakers`.
* Fact batch and key rotation: none.

## Proofs

TLAPS checks the following for every value of the constants allowed by the modules' assumptions.

| Theorem | Statement | Argument |
|---|---|---|
| `ToolCircuitBreakerProofs!TypeCorrect` | `Spec => []TypeOK` | with the next |
| `!TrippedAtThreshold` | `Spec => []TrippedIffThreshold` | `IInv`: every circuit *and every saved circuit* is sound; one lemma per method shows that it maps sound circuits to sound circuits. The snapshot must be in the invariant because a restart brings it back |
| `!HalfOpenIsProbed` | `Spec => []HalfOpenHasProbe` | a result that takes the probe's flag away also takes the circuit out of HALF_OPEN, and while it is HALF_OPEN and flagged no call is admitted |
| `!RestartLeavesRestorable` | `Spec => [](states \in [Tools -> Restorable])` | a probe flag stands on HALF_OPEN circuits only, and those have passed their cooldown; again the snapshot must keep it too |
| `!TelemetryTripped` | `TelemetrySpec => []TrippedIffThreshold` | every step of the telemetry is a step of the breaker or leaves it alone (`TelemetrySteps`), so `IInv` is an invariant from any restorable circuits on |
| `!TelemetryTyped`, `!ReportsAreSound` | `TelemetryTypeOK`, `ReportsSound` | `TelemetryInv`: what is on the bus, to be pushed or in the cache is truthful about some sound circuit; one event per emitter, because each step that emits waits for the event before, and taking one off, wherever it is in the queue, keeps the rest apart (`WithoutKeeps`) |
| `ToolConfirmationProofs!TypeCorrect` | `Spec => []TypeOK` | by actions |
| `!RunsAtMostOnce`, `!Implements` | `AtMostOnce` and `KeepsPromise` if nothing times out | `IInv`: whoever is past the read holds the lock of his user, which is still the user's lock (`LockInv`); so the row he found is still there (`RowInv`); and an action is stored, or claimed by one press, or run, and only one of these (`ClaimInv`). The lock part is false once a timeout replaces a lock, hence the assumption |
| `!CancelIsFinal` | `OnlyDigitsSurvive`, whatever times out, fails or restarts | told actions are asked and, unless their key is a memory entry's and all digits, not stored; and nothing is stored twice |
| `SendConfirmationProofs!TypeCorrect` | `Spec => []TypeOK` | by actions |
| `!NothingIsLost` | `Spec => []Retryable`, whatever fails | a press between send and deletion has delivered what it will delete |
| `!CancelHolds` | `CancelIsFinal` if nothing times out | exclusion: no press is between its check and its send while a cancel holds the lock, so a told action has no row and nobody holds it |
| `!SentAtMostOnce` | `DeliveredOnce` under edits only | a delivered action has no row, or its press is about to delete it |
| `NotificationQueueProofs!TypeCorrect` | `Spec => []TypeOK` | `FlushInv`: the messages of a flush are disjoint sets of unsent rows |
| `!UnsentStays` | `Spec => UnsentKept`, with every fault and any downtime | `OldInv`: while a flush runs, every row older than the window is in one of its messages, so after it only recent rows are unsent, and `Window < TTL` |
| `!HandedOverOnce` | `[](faults \subseteq {"sendError"} => NeverTwice)`: while the database and the process stay up | `OnceInv`: the buffered messages are disjoint, and a notification that does not exist yet has left no trace |
| `!QueueIsMailbox` | `Spec => KeepsMail`, with every fault | `MailInv`: the above and `HandedOver`, that what was sent and not marked has arrived or is buffered. One lemma per action: it is a step of the mailbox or a stutter. Marking takes nothing out of `Waiting` because of `HandedOver`, deleting because of `OldInv`, and where nothing fails the flush repeats nothing because of `OnceInv` |
| `!MarkedWasSent` | `[](faults \subseteq {"dbError"} => FlushedWasSent)`: if no send fails and the process lives | `HandedOver` also for the marked rows: what `notify_lost` refutes is due to swallowed send errors, not to the flush |
| `MemoryProofs!BatchTyped`, `!MessagesInOneBatch`, `!BufferAttended` | `BatchTypeOK`, `InOneBatch`, `Attended`, shutdown included | `BatchInv`: the batches under way are disjoint, not empty and apart from the buffer, and `_flush_task` is a timer, or one of the flushes, or one that has just ended |
| `MemoryProofs!QueueTyped`, `!NoJobVanishes` | `MemoryTypeOK`, `JobsConserved` | `QueueInv`: the places where a job can be divide the jobs, and no sequence holds one twice; `MoveDivides`, that moving jobs from one place to another keeps a division, is used by every action |
| `SchedulingProofs!TimersTyped`, `!CancelledIsGone`, `!FiredAtMostOnce`, `!RowsAreWatched` | `TimersTypeOK`, `RevokedIsGone`, `FiresOnce`, `RowsWatched` | `TimerInv(t)`: what the three tasks of a timer leave each other, above all that a timer between its `INSERT` and its `COMMIT` is still active or being cancelled |
| `SchedulingProofs!CronTyped`, `!RunsWithinLimit` | `CronTypeOK`, `LimitKept` | `CountsAgree`: unless a dispatch went uncounted, `run_count` and the dispatches differ by the one under way |
| `SchedulingProofs!TasksTyped`, `!HealthReportsTrue`, `!RestartsWithinLimit` | `TasksTypeOK`, `HealthIsTrue`, `RestartsBounded` | `TasksInv`: a wrapper has failures left wherever it may run its loop and none where it gives up; nothing is cancelled before shutdown |
| `KeysProofs!RotationTyped`, `!RowsStayReadable` | `RotationTypeOK`, `RowsReadable`, for any cache limit of at least two | `RotationInv`: ids are handed out in order and never reused, because the key in use is never behind the table (`KeysNumbered`, `NewestActive`, `InUse`); every row is under the KEK or a key of the table (`RowsKept`); and a key of the table that is not in memory has `MaxCached - 1` newer ones, unless the table has not been read since the start (`EvictedLast`). `EvictKeeps` shows that the set the code keeps exists for every cache, by counting, so that the `CHOOSE` in `Evict` is one |
| `KeysProofs!KeysTyped` | `KeysTypeOK` | counters stop at their limits and cooldowns are at least the base one. That a power of two is positive would need induction; `PowerOfTwo` gets it from the number of subsets of a set |
| `KeysProofs!ProbedAfterCooldown` | `ProbeAfterCooldown` | `KeysInv`: breakers are well-formed and no failure leaves one HALF_OPEN. A restored breaker is well-formed because some number of trips fits every cooldown: the least-number principle (`Least`), from the library's theorem that every set has a minimal element under a well-founded relation |
| `BackgroundProofs!ComponentsSideBySide`, `!BackgroundTyped` | `MCSpec` implies the seven specifications; `BackgroundTypeOK` | a step of the subject is a step of one component and a stutter of the others, so each theorem about a component holds of the instance that is model-checked |

The assumptions are those of the modules (thresholds, limits and intervals positive, the names of the
faults, `Window < TTL`, a cache of at least two keys) and the ones the table names. Every invariant that
a passing run checks is proved, and both refinements. `NeverTwice`, `TelemetryTypeOK`
and the type invariants of the single background components are proved without a run of their own: what
`NeverTwice` means to the owner where nothing fails is part of `KeepsMail`, and `BackgroundTypeOK` is the conjunction of the last.

Only model-checked: liveness (`HalfOpenResolves`, `Recovers`, `TrackedReportConverges`, `PressEnds`,
`EveryNoteArrives`, `WorkerGoesOn`, `JobsSettle`, `ActiveFires`, `EditTakesEffect`, `DueRuns`, `Supervised`,
`ShutdownEnds`, `KeysComeBack`), which rests on fairness and `ENABLED` and is out of the prover's reach.
No module uses recursion.

## Not modelled, and what is left

Of the modelled parts: the telemetry's ring buffer and statistics, the wording of messages,
signatures, the dialogue that picks a recipient, the other hooks of the middleware chain, the dispatch of
a cron job on demand (`cron_exec.py:43`), jobs created while the scheduler's loop runs, the values of
encrypted rows, the fallback from one provider to the next, the size limit of the table of breakers, and
the semaphores per purpose, which every call takes first and gives back in a `finally`.

Of the rest: nothing in the code calls `create_scheduled`, so the scheduled messages have no rows; the
decision repair only phrases hints for the language model; agents, providers, retrieval, skills, the
userbot and the bot's commands are driven by models, texts and services, and schema and migrations are
declarations.

What would come next:

1. `Reminders`: marks and notifications of a batch, against one specification of delivery at most once.
2. What a shutdown may lose between `Detach` and the end of the process, across the notifier, the
   memory queue and the fact batch.
3. The semaphores per purpose with their fallback, together with `ProviderKeys`.
4. Runs for the observations above, and a property of the report of circuits without an entry.
5. Proofs: abstract specifications of the memory queue (a job ends in one of three places) and of a timer
   (it fires once or is cancelled), and that the modules implement them.
