# Verification of mikobot (nanobot)

TLA+ models of the parts of the agent runtime in `nanobot/` whose correctness
depends on the order of things: who may touch a session and when, what survives
a stop, a reset or a restart, and who answers whom. TLC checks the models on
small instances; TLAPS proves the safety of all seven detailed models for all
sizes, liveness and a part of two properties excepted.

## The system

`nanobot` is an asyncio program. One process (the *gateway*) runs the message
bus, the agent loop, the cron service, the local trigger queue, the channels
and the WebUI backend on one event loop; SQLite work and other blocking calls
run on threads. Between two `await`s nothing else runs on the loop, so a model
step is the code between two awaits.

| component | state it keeps | operations | hard behaviour | what makes it correct |
|---|---|---|---|---|
| session owner, scheduler (`session/state.py` `_submit`, `_execute`, `aclose`) | admitted counter, newest task per key, newest barrier, pending set, two thread queues | admit a keyed operation, barrier or query; run it; drain | failed and cancelled predecessors, close during work, two-leg operations on shared threads | per-key order, exact slot count, drained close, no circular wait |
| session owner, drafts (`session/state.py`, `session/recovery.py`) | committed row, published snapshot, retired keys | prepare input, checkpoint, finish turn, deliver, queue and acknowledge follow-ups, summarise, reset, delete | a turn commits a draft that is minutes old | nothing lost or doubled, generations never mix, cache equals row |
| agent loop, dispatch (`agent/loop.py`, `agent/automation_turns.py`, `command/builtin.py`) | inbox and worker of a session, deferred automations, waiters, active tasks, session lock | take an input, start a worker, drain into a running turn, submit an automation, cancel | inputs, automations and cancellations interleave at every await | one worker, one order, nothing in an inbox nobody reads, every waiter answered |
| session store (`session/sqlite_store.py`) | SQLite tables | one transaction per operation | none above SQLite | atomic commits (assumed here) |
| recovery coordinator (`webui/recovery.py`) | recovery state in session metadata, tasks that resume a turn | scan after a restart, offer, continue, supersede, dismiss an interrupted turn | a new input, two clicks, a stop and a restart race a continuation | an interruption is continued at most once, its checkpoint is not lost, nobody waits for ever |
| runtime admission (`runtime_admission.py`) | paused flag, activity count, pending checks | enter work, pause if idle | idle check against detached work | no work runs inside a maintenance window |
| local triggers (`triggers/local_store.py`, `local_runner.py`) | files in inbox, processing, failed | enqueue, claim, complete, retry, recover | crash between submit and complete | each delivery is attempted, bounded retries, none forgotten |
| cron (`cron/service.py`, `bound_runner.py`) | jobs in memory and on disk, action log, timer | add, update, enable, rebind, remove, run, merge of the log | several processes write one store, saves fail, edits during a run | a one-shot job runs once, an answered edit is not undone, a due job runs |
| subagents (`agent/subagent*.py`) | child tasks, notices, slots | spawn, send, cancel, report | notice against cancellation | one notice per result, slots returned |
| outbound channels (`channels/manager.py`, `outbox.py`, `bus/queue.py`) | bus queue, chains of send tasks, send slots, persisted outbox | record, queue, claim, send, retry, recover, stop a channel, shut down | an attempt whose outcome is unknown, crash in a send, the gate closing with a message in hand | per-chat order, a scheduled result accepted at most once, every one gets a final status |
| memory, idle compaction (`agent/memory.py`, `autocompact.py`) | archive boundary, memory files | summarise, commit | history changes under the summary | the summary replaces exactly what it read |
| exec sessions (`agent/tools/exec_session.py`) | processes, launches | start, poll, kill, close | kill during start | no process outlives its owner |
| goals and continuations (`session/goal_state.py`, `turn_continuation.py`) | goal state, round counter | continue, complete, block | stale continuation in the inbox | bounded rounds |
| update (`update_*.py`) | job files, phases | plan, hand over, install, recover | crash in every phase, several processes | old or new installation, never neither |
| bus, runner, providers, channel adapters, tools, configuration, security, extensions, collaboration, pairing, WebUI, front ends | | | mostly translation, I/O and formatting | |

How they interact: channels publish inputs to the bus; the agent loop consumes
them one at a time, journals follow-ups through the session owner and puts them
on the inbox of the session's worker. Cron and local triggers submit automations
from their own tasks and await the answer. A worker runs a turn on a draft
obtained from the session owner, checkpoints it, and commits it when the turn
ends; summaries and deliveries commit to the same row. Replies go to the
outbound queue, where the channel manager sends them. The gateway starts and
stops all of them and holds the admission gate during an update.

`PROJECT.json` lists every component with its status, the hazards with the
lines where they bite, the runs, the mutants, and which lines each definition
stands for.

## The modules

```
SessionQueues      one line per session key (the promise)
   ^ refinement, proved and checked
SessionOps         the scheduler of the session owner
   |
   | one operation of the owner is one step of
   +--- SessionDraft    one session's data
   +--- TurnRecovery    one session's interruptions
                            | its consumer and worker are the ones of
        AgentDispatch   one session's inbox and worker
                            ^ submits automations
AtLeastOnce        the life of a message (the promise)
   ^ refinement, proved and checked
LocalTriggers      the queue of delivery files, its runner, the gate

CronService        jobs, action log, timer, edits
                            | results of its runs are published to
ResultMailbox      the life of a scheduled result (the promise)
   ^ refinement, proved and checked
DeliveryOutbox     outbound queue, dispatcher, send tasks, outbox, the gate
```

For each detailed module `M` there is `MCM`, which gives it its instances for
TLC, and `M_proofs`, which extends it with theorems and their proofs: SessionOps,
SessionDraft, AgentDispatch, LocalTriggers, CronService, TurnRecovery and
DeliveryOutbox. SessionDraft has a second one, `SessionHistory_proofs`, which
extends the first.

The detailed modules meet at these places.

* SessionDraft and TurnRecovery take one operation of the owner as one step.
  SessionOps is the reason they may: conflicting operations never overlap
  (`AdmissionOrder`).
* SessionDraft lets one turn or one compaction hold the session at a time and
  lets follow-ups arrive during it. AgentDispatch shows who holds the lock and
  how inputs reach a running turn.
* TurnRecovery has the bus consumer and the worker of AgentDispatch without its
  automations and drains, and adds what recovery admission does in them. Its
  commits are the three-way merge of SessionDraft on the fields recovery uses.
* The runner of LocalTriggers submits a message as an automation of
  AgentDispatch and awaits its answer. LocalTriggers takes the answer as given
  (`TurnEnds`), and `WaiterHasRunner` of AgentDispatch is the obligation behind
  that. The same holds for the callback of a CronService run.
* What a scheduled run answers is published with a row of the outbox, where
  DeliveryOutbox begins (`Publish` with kind "result").

### SessionOps, SessionQueues

Operations are numbered in the order of admission. `phase[o]` follows the task
of `_submit`: `waiting` for its predecessors, `queued` on the reader pool or the
writer thread, `running`, `ran`, and `settled` after the `finally` clause that
gives back the slot and pops the tails. `preds[o]` is what `_submit` gathered
from `_key_tails`, `_global_tail` and `_pending`. A read that finds the session
missing from the cache takes a second leg (`SecondLeg`, `_get.get`). A caller
may be cancelled at any time (`Cancel`); `shield_and_drain` keeps its task
alive. `Close`, `CloseGather`, `CloseShutdown` are `aclose`: it refuses new
work, gathers the pending tasks when its own task runs, and shuts the executors
down.

SessionQueues is the promise: each operation stands in the line of every key it
concerns (a barrier in all of them) and begins only when it is first in each.
The mapping makes a line of the unfinished operations of a key.

### SessionDraft

One session. `row` is the committed row, `snap` the published snapshot, `draft[c]`
the copy turn `c` works on together with the baseline it was copied from. A
message is abstracted to what it is, whose it is and the generation it was
written for; the summary marker to the boundary it covers. Every action is one
operation of the owner or one step of the turn code around it:

| actions | code |
|---|---|
| `Open`, `Prepare`, `Restore` | `get`, `prepare_input`, `restore_runtime_checkpoint` at the start of a turn |
| `Checkpoint`, `CheckpointRefused`, `Finish`, `Release` | `save_checkpoint`, `finish_turn` with `_apply_turn`, end of the lock |
| `StopRead`, `Cancel`, `Reopen`, `Salvage`, `StopAck` | `_cancel_active_tasks` around a turn that is unwound and saved |
| `QueueFollowup`, `Inject` | `queue_followup` and the drain into a running turn |
| `RecordDelivery`, `ForeignDelivery` | messages recorded from outside the turn, in this process or another |
| `CompactStart`, `CompactCommit`, `CompactFail` | archiving and `commit_summary` |
| `SetTitle`, `Reset`, `ForeignReset`, `Delete`, `Evict`, `Restart` | metadata commands, `/new`, deletion, cache eviction, process exit |

### AgentDispatch

One session of the agent loop. A worker and its inbox share a number. `route` is
the entry of `_pending_queues`, `deferred` that of `_deferred_automation_turns`.
`bus` is the program counter of the bus consumer, which is one task and awaits
what it dispatches; a cancellation is a stage of it (`read`, `wait`, `sweep`,
`tail`). Automations are submitted by tasks of their own at any time.

`LoopHead` is the part of `_run_session_queue` between two awaits, used wherever
a worker gets back to it. `Drain` and `DrainDone` bracket the awaits of
`_drain_pending`; any prefix up to the first message that may not be injected
can be absorbed, because another authority may end it earlier. `CutOff` marks
the tasks, `Unwind` is the worker resuming with `CancelledError`, `Sweep` is one
stretch of `_cancel_pending_messages` up to its next await. `Stillborn` is a
task cancelled before its first step. `FailEarly` is an exception of recovery
admission, before the `try` block that would report it.

### LocalTriggers, AtLeastOnce

Two processes share a directory and a file lock. A command line writes a
delivery into `inbox/` (`Enqueue`) and then reports it, fails and takes the file
back, or dies (`EnqueueSaved`, `EnqueueFails`, `EnqueueKilled`). In the gateway
the runner recovers what its predecessor left (`RecoverBegin`, `RecoverWrite`,
`RecoverUnlink`, `RecoverEnd`), claims a batch (`ClaimBegin`, `ClaimNext`,
`ClaimEnd`) and takes its deliveries one after the other through `Check`,
`Submit`, `TurnEnds`, `Record` and `Finish`, or through `Error` or `Cancel` to
`RetryWrite` and `RetryUnlink`. Threads of the gateway switch and delete triggers
(`Switch`, `Delete`, `SweepFiles`, `SweepFails`). Maintenance closes the gate on
an idle runner (`Pause`, `Release`, `WaitAtGate`); a gateway may start with the
gate closed (`Restart`). `Crash` is the end of the gateway process at any step.

A step changes one file or one variable of the runner, because a crash may come
between any two. Three functions stand for the directories: they give the number
of attempts in a delivery's file, or `NoFile`. The lock is no variable: `Locked`
says who is inside it. `told` is what the command line has reported, which is
what the promises refer to; `runs` and `ended` record what happened and steer
nothing.

AtLeastOnce is the promise: a message is put once, runs only while it is in the
queue and at most `MaxRuns` times, and never runs once it has left. The mapping
makes the queue of what is in `inbox/`, in `processing/` or in the batch.

### CronService

`live` is `_store`, the jobs in memory of the gateway; `disk` is `jobs.json`,
`log` is `action.jsonl`, `dirty` is `_store_dirty`. A public method of the
service runs without an await, so it is one action; a run of a job begins in one
action and ends in another, because its callback awaits. Since a method loads,
saves and may fail in each, it is written as a composition of three operators
over a record of the store: `Reloaded` (`_load_jobs`, `_merge_action`), `Loaded`
(`_load_store`, which keeps memory while it is dirty or a job runs) and `Saved`
(`_save_store`, whose failure may come before or after the file was replaced).
Each gives the set of outcomes.

| actions | code |
|---|---|
| `Start`, `Crash`, `Tick` | `start` with `_recompute_next_runs`, the end of the process, time |
| `TimerFires`, `TimerRunEnds` | `_on_timer`, `_run_timer`, `_execute_job`: one due job after the other, then the save and the next timer |
| `ManualStarts`, `ManualEnds` | `run_job` |
| `AddJob`, `UpdateJob`, `EnableJob`, `RemoveJob`, `ChangeBinding`, `ListJobs` | the methods of the same names |
| `CliAdd`, `CliRemove` | the cron tool in a process whose service is not started: it appends to the log |

`moved` are the runners whose job got another schedule while its callback ran,
which the completion must respect. `asked`, `deleted` and `fired` record what
users were answered and what the timer started; they steer nothing.

### TurnRecovery

`row` is the session: the recovery state, the pending-input mark, the runtime
checkpoint and the history, one element for the messages saved together. Four
parties read it, decide on a draft and commit the draft later against what is
there by then (`Read`, `Clash`, `Merged`):

| party | actions | code |
|---|---|---|
| user | `Send`, `SendStop`, `Click` | messages and actions from the WebUI |
| bus consumer | `Take`, `Stopped`, `AdmitResume`, `AdmitInput`, `CancelRecovery`, `Supersede`, `PutInput` | `_dispatch_inbound` with `admit` for a session that has a worker |
| worker | `WorkerHead`, `AdmitContinuation`, `AdmitMessage`, `Open`, `Restore`, `Prepare`, `Checkpoint`, `Finish`, `Complete`, `Completed` | `_run_session_queue`, `_dispatch_one`, the turn, `turn_completed` |
| cancelled worker | `Unwind`, `SalvageRead`, `Salvage` | the handlers of `CancelledError` and the sweep |
| click handlers | `Dismiss`, `Continue`, `QueueContinuation` | `handle_action`, `_queue_continuation` |
| next process | `Crash`, `Restart` | `_recover_session` before any input is taken |

Init is a new session, or one that was interrupted before its first tool call
and restarted, so that clicks and a superseding message meet within the bounds.
`offers` (interruptions whose continuation has not begun) and `latest` (the
checkpoint saved last) are history variables.

### DeliveryOutbox, ResultMailbox

Messages are numbered in the order of publication, which is the order of rowids.
A *result* (of cron or an automation) has a row in the table of
`channels/outbox.py` from the moment it is published; a *plain* message lives in
memory only. `row[m]` is its status: pending, sending, sent, failed or unknown.
A method of the outbox is one transaction that first settles interrupted sends
once per process (`Opened`) and expires old rows (`Pruned`).

| part | actions |
|---|---|
| dispatcher (`_dispatch_outbound`) | `Recover`, `RecoverNext`, `RecoverEnd` every 30 seconds; `Take`, `Route`, `Queue` for the bus; `pc` says where it waits: in the loop, at the gate with a message in hand (`held`), for a slot |
| send task (`_queue_outbound`, `_send_scheduled`, `_send_with_retry`) | `Start`, `StartPlain`, `Accept`, `Return`, `ReturnPlain`, `RetryPlain`, `Cancelled` |
| publishers | `Publish` (`publish_outbound` with `record`) |
| operator and clock | `StopChannel`, `ChannelStopped`, `Pause`, `Release`, `ShutDown`, `Restart`, `Crash`, `ReplaceSession`, `RetryTime`, `MaxAge`, `RecoveryTime` |

`previous` and `tails` are the chain of tasks of a chat. An adapter may accept a
message and then fail, so `Accept` and the return are two steps, and a crash,
a cancellation or a storage error may come between them; `got` counts what the
service accepted. What the adapter may raise is the contract of `BaseChannel.send`.

ResultMailbox is the promise: a stored result is delivered at most once, only
while it is open, and never after a later one for the same chat. The mapping
takes the open rows and what the service accepted.

## What the runs check

Every run takes between seconds and about two minutes with two workers.
All bounds are constants named in the modules; deadlock checking is off because
every system here may be idle after its bounded inputs (a chat session that
received all its inputs stops, and that is no error). That nobody waits for
ever is checked as liveness instead.

| run | asks | instance |
|---|---|---|
| `ops_queue` | does anything overtake a conflicting operation, are slots counted, is a closed owner drained, is every operation answered, does close end, is it a FIFO line per key | 3 operations (two legs on one key, one on both keys, a barrier, a query), 2 keys, capacity 2, 2 readers, one failing body or cancelled caller, aclose |
| `draft_merge` | does a turn that was overtaken lose, double or mix anything; journal or row; no stale checkpoint; an ended session stays ended; does replay begin at the last summary | 2 turns, a follow-up, a delivery, 2 events (commands, restarts, stops, resets, foreign writes, compactions) |
| `dispatch_cancel` | one worker, no orphaned waiter, automations last, everybody answered | 2 inputs, 2 automations, 2 cancellations other than `/stop` |
| `dispatch_stop` | one order, nothing put where nobody reads, a late input survives | 3 inputs, a command, an automation, an early failure, 2 cancellations of both kinds |
| `dispatch_stranded` | expected violation, see below | 1 input, 1 command, 1 automation, 1 cancellation |
| `triggers_queue` | is a queued message ever forgotten or doubled, what do failures cost, is maintenance undisturbed, is every message concluded and a deleted trigger drained, and the promise | 1 trigger, 2 deliveries in batches of 2, 2 attempts, 3 crashes, errors or cancellations, and 2 pauses or switches |
| `cron_edits` | is a one-shot run repeated, is an answered edit undone, is a due job run | a one-shot job and one deleted after its run, clock 2, 3 edits or manual runs from the gateway and the CLI agent, 1 poll, 2 failed saves, failed truncations or crashes |
| `cron_deleted` | expected violation, see below | one job, clock 3, 2 edits, 1 poll, 1 failed save |
| `recovery_races` | is a checkpoint lost, does a newer message wait in a continuation, is an interruption continued twice, does anybody wait for ever | a new or an interrupted session, 2 messages, 2 clicks decided at once, 1 batch of tool calls per turn, one stop, failed model call, exception or crash, scans that fail |
| `recovery_doubled` | expected violation, see below | the same without faults and with one click at a time |
| `outbox_queue` | is the status table true, is maintenance undisturbed, the order of ordinary messages, does every result settle, and the promise | 1 chat, 2 messages of either kind, 2 slots, 1 send at a time, 2 attempts, 1 store error, one of crash, shutdown, stopped channel, pause, replaced session |
| `outbox_stalled` | expected violation, see below | one result, 1 store error, one stopped channel |

Why the bounds are enough. Two keys and three operations give every shape of
wait: a chain through a tail, through a barrier, and one operation that follows
two others; the proofs cover any number. Two turns are needed because a
checkpoint of the first may be restored by the second; a third repeats the
second. A delivery, a reset and a restart are each used in every order against
the steps of a turn. Four workers are as many as two cancellations and their
races can start in the cancel runs; three inputs are needed for a drain that
absorbs one, puts one back and finds a later one. Two deliveries are the
smallest batch with a member that is claimed but not in hand; two attempts are
one requeue and one that gives up (the code has ten); three failures are a
crash inside the recovery from a crash inside a requeue, and two pauses are a gate
that closes again before those it woke have run. They are counted apart, because
a pause or a switched trigger is no failure and must repeat nothing. Two jobs are one in
hand of the timer and one in its list or in a manual run, and a clock of two
separates the time a job was scheduled for from the time it is edited to; two
faults are a failed save and a crash before the next one. In a recovery, two
messages are one that runs and one that is newer, two clicks are the double
click, and starting from an interrupted session leaves the one fault for what
happens during its continuation. Two messages are the shortest chain of send
tasks, with two slots the dispatcher waits for one, with one send at a time the
second task waits for the first; the proof covers any number and any number of
chats. Each property is broken by a mutant of the code listed in
`PROJECT.json` within these bounds, so the bounds reach the case it is about.

Every mutant is an operator defined just above the definition it replaces, named
for the mistake it stands for.

### Fairness

* `SessionOps`: weak fairness of each operation's own steps, of the threads that
  take jobs, and of `aclose`: the event loop runs every ready task, the pools run
  every queued job, a body is a bounded SQLite call. Submitting, cancelling and
  closing are not fair: nobody is forced to do them.
* `AgentDispatch`: weak fairness of the bus consumer after it started something
  and of each worker, strong fairness of the end of a turn. A turn alternates
  between running and draining, so its end is enabled again and again; the
  runner limits the iterations of a turn and providers and tools have timeouts.
* `LocalTriggers`: weak fairness of the runner's steps, including the end of a
  turn, of a sweep and of the report of a command line: processes that are alive
  go on, and whoever waits for the lock polls it. Weak fairness of `Restart` and
  `Release`: the service manager starts a stopped gateway and an update ends.
  That a turn ends is an assumption about AgentDispatch, which keeps it except
  in its findings. Failures, pauses and switches are never fair and bounded: a
  gateway that exits for ever concludes nothing, whatever the code does.
* `CronService`: weak fairness of the timer (it sleeps at most `max_sleep_ms`) and
  of the end of a run (a callback returns). A crash is not followed by a start
  unless somebody starts the gateway: `DueJobsRun` asks nothing while it is down.
* `TurnRecovery`: weak fairness of the consumer, of the worker and of each
  handler (the event loop runs every ready task; a turn ends) and of `Restart`.
  Messages, clicks, stops, failures and crashes are never forced.
* `DeliveryOutbox`: weak fairness of the dispatcher, of the clock (recovery
  interval, age limit), of the start and of the return of each send task
  (semaphores are fair, an adapter returns, and so does its cancellation), and of
  releases, restarts and stops that are under way. Nothing is assumed of what an
  adapter answers, and not that a retry comes before the age limit.

## Disagreements found

Each is a run that TLC is expected to refute, and a finding in `PROJECT.json`.

* `dispatch_stranded`: `_cancel_pending_messages` (`agent/loop.py:2332`) moves the
  deferred automations to the inbox once and then awaits the completion of each
  queued `/compact`. An automation that fires during that await is deferred,
  because the inbox is still registered, to a worker that is about to end. Its
  waiter hangs until another message for the session starts a worker. Local
  triggers are delivered one at a time, so one such waiter holds up all of them.
* `cron_deleted`: when the save inside `_merge_action` (`cron/service.py:344`)
  fails, the merged jobs stay in memory and the log keeps its entries. The next
  method works on that memory without merging, saves it and clears the dirty
  flag, with the entries still in the log: a job that was deleted then, and
  answered "removed", is added again by the next load, enabled and due.
* `recovery_doubled`: `handle_action` (`webui/recovery.py:218`) compares the
  recovery id and not the status before it dismisses, and a resolved recovery
  keeps its id. A second Dismiss while the next turn runs restores that turn's
  checkpoint into the history; the turn saves the same tool calls again later.
* `outbox_stalled`: the dispatcher loop (`channels/manager.py:1393`) closes a result
  for a disabled channel with a database call that nothing guards. One storage
  error there ends the dispatcher task, which nobody restarts: no message of any
  kind is sent any more and the result is never retried or expired.

### Known limits

These were met while modelling. The models contain the behaviour, and the
properties are stated or the instances chosen so that they hold beside it.

* A delivery committed during a turn shifts the turn's records but not the
  archive boundary of a summary made among them (`session/state.py:554`): a record
  already summarised is replayed. `SummaryInPlace` leaves this case out.
* Recovery admission runs before the `try` block of `_dispatch_one`
  (`agent/loop.py:2368`). When it raises, the message is logged and dropped and
  the waiter of an automation is not answered; `dispatch_cancel` has no such
  failure.
* `cmd_stop` (`command/builtin.py:222`) removes whatever inbox is registered after
  it has stopped subagents and exec sessions, which may be the inbox of a worker
  an automation started meanwhile; a second worker follows. `SoleWorker` and
  `WaiterHasRunner` are therefore checked and proved for the other cancellations.
  If the worker that lost its route has another automation in a drain by then,
  that one is lost when the turn fails; `NothingLost` is proved for the sessions
  where automations are not joined, or where `/stop` is not used.
* `recover_processing_deliveries` (`triggers/local_store.py:364`) counts an attempt
  for each file in `processing/`, also for the members of a batch the runner never
  came to: ten exits during the first delivery give up the others untried. So
  `EveryMessageConcluded` says concluded, not tried.
* Deliveries run one after the other (`triggers/local_runner.py:46`): a turn that is
  never answered blocks the triggers of all sessions. `TurnEnds` is fair by
  assumption.
* Each checkpoint of a turn overwrites the one before (`agent/loop.py:3415`): a stop
  or a crash restores the last batch of tool calls and no earlier one.
  `LatestKept` is about the latest.
* After a `/stop` of a continuation its state stays "resuming" until the next
  message or dismissal. A continuation that is dismissed while it runs goes on,
  and newer messages join it; `NewerInputWins` excepts what was dismissed.

## What is proved

Every detailed module is proved about. The theorems hold for all values of the
constants that satisfy the named assumptions of the module, which TLC evaluates
in every run. Each proof module states an inductive invariant (`IInv`, and `HInv`
on top of it in `SessionHistory_proofs`), a conjunction of named parts that TLC
checked, all but a few small ones, before they were proved. It shows that the
invariant holds at the start and that every action keeps every part, and draws the
theorems from it; `NoStall`, `PlainInOrder` and `SendsGoOn` take further parts of
their own. The listed theorems use no other hypothesis, except four about
AgentDispatch.

### The scheduler

`SessionOps_proofs` proves for every set of keys, set of shapes, capacity, number
of readers and bound, from the named assumptions of `SessionOps` (there is a key,
capacity and readers are positive, bounds are naturals, shapes are well formed):

| theorem | states |
|---|---|
| `TypeCorrect` | `Spec => []TypeOK` |
| `Ordered` | `Spec => []AdmissionOrder` |
| `SlotsCounted` | `Spec => []SlotAccounting` |
| `TailsNewest` | `Spec => []TailsExact` |
| `DrainedWhenClosed` | `Spec => []ClosedIsDrained` |
| `NoCircularWait` | `Spec => []NoStall` |
| `RefinesQueues` | `Spec => Queues!Spec`, the safety part of the refinement |

All follow from `Invariance` (`Spec => []IInv`). `AdmissionOrder` is not
inductive: that a later operation waits does not say what for. `WaitChain`
strengthens it: whenever `j` conflicts with an earlier unfinished `i`, one of the
tasks `j` awaits is unfinished and is `i` itself, or lies between the two and
conflicts with `i` (so it waits in turn). When a task settles, whoever awaited it
either awaits another such task or had no conflict left. A keyed operation reads
only the newest tail of each key; that this suffices is `TailsExact`, and that a
tail never names a finished operation follows from the pops in `Settle`. The
other conjuncts are what those steps rest on: admitted operations are numbered
without gaps (`Numbered`), unfinished tasks are in `_pending` (`PendingCovers`),
a queue holds a job once and only queued jobs (`PoolsQueued`), the gathered set
covers the unfinished tasks (`DrainCovers`). There is a lemma per action; `IInv`
itself was first checked by TLC.

`NoStall` is what `EveryOpReturns` rests on besides fairness: while an operation is
unfinished, somebody's next step is open. The oldest unfinished operation waits
for nothing, since predecessors are always older (`WaitsForOlder`); if it is queued,
it is on a queue (`QueuedIsInPool`), where it is taken or a body runs. The tails
must be read before they are written: an operation that awaited itself would
break it.

### The local trigger queue

`LocalTriggers_proofs` proves for every set of triggers and deliveries, batch
size, attempt limit, number of failures and of changes, from the named assumptions of
`LocalTriggers` (deliveries are naturals, their order being that of the file
names; the limits are positive; `NoTrigger` is not a trigger):

| theorem | states |
|---|---|
| `TypeCorrect` | `Spec => []TypeOK` |
| `NeverForgotten` | `Spec => []NothingForgotten` |
| `PairsAreRequeues` | `Spec => []OneCopy` |
| `RunsBounded` | `Spec => []BoundedRuns` |
| `RefusedStaysOut` | `Spec => []RefusedNeverRuns` |
| `GateHolds` | `Spec => []MaintenanceIsQuiet` |
| `RepeatsPaid` | `Spec => []OneRepeatPerFailure` |
| `KeepsPromise` | `Spec => ImplementsPromise` |

All follow from `Invariant` (`Spec => []IInv`), with a lemma per group of
actions. That a message does not run too often is not visible in `runs` alone: a
file must count at least the runs it stands for. `FilesCount` says a file in
`inbox/` counts all of them and one in `processing/` all but the one in hand;
`BatchAgrees` says the same of what the runner remembers of a claimed delivery,
whose file a deletion may have removed under it. A requeue keeps the
count because the runner requeues the number it claimed (`InHand`), and the
recovery after a crash in the middle of a requeue writes the same number again,
because a pair of files is one attempt apart (`OneCopy`). Nothing is forgotten
because the second half of a requeue comes after the first (`InHand`,
`Requeued`), and nobody else holds the lock in between (`OneHolder`). An enqueue
that fails has its file in `inbox/` and nowhere else (`Fresh`), since the runner
claims under the lock.

`RepeatsPaid` counts. When a failure interrupts a batch nothing has been repeated
yet, so the bound must include the debt: `Due` is the set of repeats so far and of
those to come, the latter being messages that ran, are not in their turn any more
and still have a file or a place in the batch (`Again`). `Paid` says that `Due` is
finite and no larger than the number of failures (`disturbances`). A submission turns a repeat
to come into one that happened, a failure adds at most the message in hand,
and every other step can only shrink the set.

### The delivery queue

`DeliveryOutbox_proofs` proves for every set of chats and channels, number of
messages, slots, sends, attempts, errors and disturbances, from the named
assumptions of `DeliveryOutbox` (a chat has a channel, limits are positive):

| theorem | states |
|---|---|
| `TypeCorrect` | `Spec => []TypeOK` |
| `StatusIsTrue` | `Spec => []StatusTruthful` |
| `MaintenanceIsQuiet` | `Spec => []QuietInMaintenance` |
| `PlainStaysInOrder` | `Spec => PlainInOrder` |
| `NoSendCircle` | `Spec => []SendsGoOn` |
| `KeepsMailbox` | `Spec => ImplementsMailbox` |

All follow from `Invariant` (`Spec => []IInv`), a conjunction of the type, of
`Data` about rows and the service, and of `Control` about the dispatcher, tasks
and the gate. That a failed row was not delivered needs more than the row: a
result in an adapter's hands has a claimed row and was accepted at most once
(`Claimed`), a claimed row in nobody's hands is a storage error or an earlier
process (`Stuck`), which `Opened` settles as unknown. That no later result
overtakes is `Foremost`: whatever is claimed or delivered has no open row before
it in its chat, which `Claimable` establishes and which nothing but a new row
could break, and new rows have the largest number (`Numbered`). A quiet gate
needs `Parked`: a closed gate finds no task, and the dispatcher is not in a
recovery nor waiting for a slot, since it would be carrying a message then
(`Carried`). Every transaction prunes, so each lemma about a row has to admit
that another one lapses (`Lapse`). In the refinement a store, an acceptance and a
settlement of any number of rows are the three steps of ResultMailbox; all
others stutter.

`PlainInOrder` needs more, `Ordered`. The queue, the message in the dispatcher's
hands and what got further stand in the order of publication (`Line`). The tasks
of a chat wait for one another in that order; but `previous` and `tails` are
pointers, and that a pointer leads back to every earlier task is a statement about
a path. `Chained` says it without one: there is a rank for each task such that
ranks of a chat differ, grow with publication, are highest at the tail, and a task
that does not have the lowest points to a task of the next lower rank. A new task
gets a rank above the tail's; only the lowest may end, and then nobody's pointer
skips it. A cancelled task may end in any order, and takes its place in the chain
with it. The code is safe because a cancellation takes the whole channel
(`CalledOff`: the tasks of a channel are all cancelled or none is, and none is
created before the cancelled ones have ended). So ranks are asked of tasks that
were not cancelled. `Passed` is then what the theorem needs: when a message is at
the adapter, no earlier one of its chat has a task.

`SendsGoOn` says that send tasks never wait in a circle, so the slots come back.
Here cancelled tasks count too, and one number for each task is enough: whoever
waits has a larger one than the task it waits for, and a new task gets the
largest (`Acyclic`). The task with the least waits for nobody, and a send is
free unless a task is in an adapter.

### The data of a session

`SessionDraft_proofs` and `SessionHistory_proofs` prove for every set of turns, follow-ups and deliveries and
any number of events, from the named assumptions of `SessionDraft` (`Nobody` and
`Compactor` are nobody's names; a follow-up is not a turn, a delivery nor a
number, since the author of a record must tell them apart):

| theorem | states |
|---|---|
| `TypeCorrect` | `Spec => []TypeOK` |
| `RecordsOfOneLife` | `Spec => []GenerationPure` |
| `SnapshotIsRow` | `Spec => []CacheCoherent` |
| `CheckpointDropped` | `Spec => []NoStaleCheckpoint` |
| `FollowupAccounted` | `Spec => []JournalOrRow` |
| `NoReturn` | `Spec => EndedStaysEnded` |
| `NothingTakenBack` | `Spec => RecordsStay` |
| `HistoryInvariance` | `Spec => []HInv` |
| `NothingDoubled` | `Spec => HistoryKept` |
| `SummaryReplaces` | `Spec => []SummaryInPlace` |

`RecordsStay` is the first half of `HistoryKept`: while a generation lives there is
an order-preserving embedding of the committed records in the next ones, and no
title is undone. The first invariant, `IInv`, describes what may be
committed: the row, the snapshot, the draft of every turn and the source of every
compaction are versions whose records belong to their generation, which was
issued, and whose archive boundary lies inside them (`Sound`). Between two steps a
turn's draft is the baseline it was given and, beside it, the records of its
running loop (`Copy`), so the merge of `_apply_turn` adds something and removes
nothing. A snapshot of the row's generation is not ahead of it, and level with it
is the row (`Cached`): revisions alone do not suffice, because a reset begins
again. A checkpoint is in the row only while its turn is on its way to drop it,
and that turn knows of it (`CheckpointKnown`): a turn that read its baseline
before would keep another's. `Accounted` is the journal property; it needs that
whatever carries a follow-up, inbox, loop, journal or row, got it after it was
journaled (`RowFollowups`, `TurnFollowups`).

`IInv` does not say that a merge adds no record twice, nor where a summary's marker
lands. That takes a second invariant, `HInv`, on top of it, about who may write
what while a draft is in somebody's hands:

* One turn or compaction works at a time (`Exclusive`), and while it does the others
  only deliver: the row begins with the baseline of the draft, what follows is
  deliveries, and the header fields are the baseline's (`Basis`). So the merge puts
  the draft's own records behind foreign ones that it cannot contain.
* Every committed record tells of something that happened and that no turn still
  has before it (`Records`): a turn's input is committed only when it is prepared,
  its answer when it is finished, a partial answer only when the row's checkpoint
  is another's, a follow-up when it has left the journal and no running loop
  holds it, a delivery when it was delivered. A running loop holds each follow-up once
  (`Loops`). What a draft adds to its baseline is therefore new to the row, and
  records are distinct.
* A marker stands behind all it summarises, and the last marker names the archive
  boundary (`Marks`). When the summary is committed where its draft had it, replay
  begins at its marker; a delivery that overtakes a turn moves both, which is the
  case `SummaryInPlace` leaves out.

`HistoryKept` says of the committed records before and after a step that the new
ones are distinct, contain the old ones and keep their order (`OnceInOrder`). Each
step is the merge of one proposal, so there is a lemma for each proposal the code
makes (a restored checkpoint, a prepared input, a finished turn, a stop, a
summary, a delivery) about what it adds, and one for the merge (`MergeAdds`).

### Inputs, workers and automations

`AgentDispatch_proofs` proves for every set of inputs, commands and automations
and every number of inboxes, cancellations and failures, from the named
assumptions of `AgentDispatch` (the kinds of messages are disjoint):

| theorem | assumes besides | states |
|---|---|---|
| `TypeCorrect` | | `Spec => []TypeOK` |
| `LateInputs` | | `Spec => LateInputKept` |
| `HandledInOrder` | | `Spec => []InOrder` |
| `OneWorker` | no `/stop` | `Spec => []SoleWorker` |
| `NoMessageLost` | no `/stop`, or automations are not joined | `Spec => []NothingLost` |
| `YieldsToInput` | the same, and no queued command | `Spec => AutomationYields` |
| `WaiterServed` | no `/stop`, no queued command, no early failure | `Spec => []WaiterHasRunner` |

The hypotheses are the known limits of the code and no more: `/stop` takes the
route from a live worker, so a second one follows; a queued command makes the
sweep of a cancellation wait with the deferred automations in the inbox of an
ending worker (that is the run `dispatch_stranded`); an early failure does not
answer the waiter. The kind of cancellation and the other bounds stay free.

The invariant has a skeleton: what a cancellation holds at each of its stages, who
is doomed or unwinding, and that a registered inbox has a live worker or a
canceller that will reclaim it. Around it are four arguments. An inbox that
nobody will look at is empty (`Empty`), because a worker that lost the route holds
nothing (`Bare`), because one that was started while a cancellation runs holds one
message at most (`Thin`): `Accounted` and `Empty` give `NothingLost`. What the
routed worker has handled, has in its drain and has in its inbox, in this order,
is in the order of acceptance (`Order`); only inputs are ordered and a worker
without the route has none (`Stray`). While a cancellation runs, only inputs from
before it are in the hands of those it cancels (`Late`). For `WaiterServed`
everybody who waits has his automation in a worker's hands, in an inbox or
drain, or deferred (`WaitersPlaced`), deferred ones are behind a registered inbox
(`DeferredRouted`), and a turn that ended has answered (`TurnAnswered`).

### The interruptions of a session

`TurnRecovery_proofs` proves for every number of messages, clicks, batches and
faults, from the named assumption of `TurnRecovery` (clickers are numbers):

| theorem | states |
|---|---|
| `TypeCorrect` | `Spec => []Types` |
| `LatestCheckpointKept` | `Spec => []LatestKept` |
| `NewerInputSupersedes` | `Spec => []NewerInputWins` |
| `ResumedOnce` | `Spec => OneRunPerOffer` |

A permit to continue an interruption is a confirmed click, a message on its way or
the one that the worker decides. `Single` says there is one permit for each
interruption in all of these places together, `Offered` that its interruption is
open and that one which awaits the user has no permit under way: two clicks that
were decided on the same row meet in the merge, and one loses. A newer message
must find the continuation either not begun, and then its permit is no longer
current (`Overtaken`), or running, and then it is cancelled, or the user has
dismissed it (`Fresh`). `LatestKept` needs that the running turn knows the
checkpoint in the row (`TurnCheckpoint`), since a draft that was read before would
overwrite it, and that nothing outlives the process but the row (`Down`).

### The jobs of the scheduler

`CronService_proofs` proves for every set of jobs, every mix of kinds, number of
edits and polls, clock and faults, from the named assumptions of `CronService`
(every job has a kind, `Nobody` is no job and `NoJob` no record, the clock is
bounded by a natural):

| theorem | states |
|---|---|
| `TypeCorrect` | `Spec => []Types` |
| `StartedOnce` | `Spec => []OneShotOnce` |
| `EditsStand` | `Spec => []EditsHold` |

`OneShotOnce` is kept because no copy of a job that a load may bring back is
*spent*: a one-shot job that is still enabled at a time it started for. In memory
only the job in hand of the timer is, until its schedule is changed (`LiveGood`);
in the file none is when a load would read it, that is when memory is saved and
no job runs (`DiskGood`); and what the log adds has never started (`Unmerged`, by
`Known`, as ids are never used twice). `EditsHold` needs a second invariant,
`Settled`, over memory, file and log together (`Firm`): the last action of the log
on a job says what was answered (`Heard`); of a job the log does not name, memory
and file say it (`Agrees`); the next run of a one-shot job agrees with its
schedule in all three (`Punctual`, `LogPunctual`); and a job that the log still adds
has not been bound to another chat, or the merge would undo it (`Mergeable`). Each
method is a composition of `Reloaded`, `Loaded` and `Saved`, so there is a lemma for
each of these about both invariants, and one line per method.

The proof found a mistake in the model: the outcomes of a completed run were a
`CASE` whose guards overlap, where TLA+ lets any matching arm be chosen and TLC
takes the first. `AfterRun` now states them as the code's chain of tests does.

### What is only model-checked

Every invariant and every action property that a passing run checks is a theorem,
in the cases of AgentDispatch under the hypotheses named there. What stays with TLC:

* Liveness (`EveryOpReturns`, `CloseCompletes`, `EveryWaiterAnswered`,
  `EveryMessageEnds`, `EveryMessageConcluded`, `DeletedIsDrained`, `DueJobsRun`,
  `EveryResultSettles`, `EveryInputEnds`) and the fairness part of the refinement
  of SessionQueues, which are beyond the prover.
* `DeletedStaysDeleted`, `CheckpointOnce`, `PendingIsRetried` and, without the
  hypotheses above, `WaiterHasRunner`, which the code violates.

The prover cannot instantiate the library's induction theorems, which take an
operator as a parameter. Where a proof needs induction over naturals, as for the
first of several positions in a sequence, it takes the least element of a set of
naturals, which follows from the well-foundedness of their order (`LeastExists`).

`TypeOK` of the modules, `TailsExact`, `NoStall`, `BoundedRuns`, `RefusedNeverRuns`,
`SendsGoOn` and `RecordsStay` are proved and therefore in no run. For CronService and TurnRecovery
the theorem is about `Types` of the proof module: the `TypeOK` that documents
CronService also bounds times and bindings by the bounds of an instance, and that
of TurnRecovery needs the types of drafts and checkpoints, which only the proofs
name.

## What is not modelled, and why

Most of the repository's lines are channel adapters, HTTP handlers, provider
clients, tools, the command line and settings. They translate between formats
and services and keep no state that several parties change, so a model of them
would restate them; that is why the map covers a small share of all lines and
most of the lines that order sessions, queues and recoveries.

* Message contents, timestamps, formatting, logging and token counts. No property
  depends on them; a message is its kind, owner and generation.
* SQLite below a transaction: commits are atomic. `create_child`, `fork`,
  `import`, transient sessions, provider state and the display history of the
  session owner.
* In the dispatcher: goal continuations (they queue like commands), the optional
  concurrency gate, the close of the whole loop. Whether a session key is
  accepted by a collaboration scope is decided before admission. The consumer's
  journal step is taken for every follow-up of an active session; for channels
  that do not journal it does not suspend, which is one of the behaviours of the
  model. `/compact` is taken to suspend when its completion is published, which
  it does for WebUI sessions.
* In the trigger queue: creating and renaming triggers, run records, the status
  and history shown to the user, and files that cannot be parsed, which the code
  sets aside. Maintenance is modelled for the runner as the only client of the
  gate, and in DeliveryOutbox for the dispatcher as the only one. A gateway runs
  one runner, and one gateway runs at a time. A deletion that is under way when
  the gateway dies leaves its remaining files behind.
* In cron: system jobs, the removal of jobs whose session is gone, store files
  that cannot be read, cron expressions and time zones, the run history, and what
  a run does.
* In recovery: follow-ups that are queued again after a restart, checkpoints that
  are malformed or of an unknown kind, provider state, unified sessions, and
  messages injected into a running turn (SessionDraft has those).
* In outbound delivery: coalescing of stream deltas, suppression of duplicates,
  filters for progress and reasoning, retention of settled rows, starting and
  configuring channels. Backoff between attempts is a choice of when to go on.
* The components with status `not_modelled` in `PROJECT.json`, each with its
  reason there.

## Plan

What is left, most important first:

1. `Subagents` (slots, one notice per result, cancellation against report), exec
   sessions (kill during start) and goals (stale continuations, bounded rounds).
2. The update state machine: a crash in every phase, several processes.
3. Compositions: SessionDraft's journal with AgentDispatch's inbox (a journaled
   follow-up is in exactly one of inbox, drain, turn and row); LocalTriggers and
   CronService with AgentDispatch, so that the end of a turn is shown and not
   assumed; the gate with all its clients.
