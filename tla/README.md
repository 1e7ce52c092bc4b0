# NovaMind in TLA+

NovaMind is a desktop-automation kernel in Python: a request becomes intents,
an intent becomes an effect on the machine, and a set of journals, state
machines and supervisors is meant to guarantee that what the kernel says about
an effect is true, also after a crash. This directory holds TLA+ models of that
kernel, the TLC configurations that check them on small instances, and proofs
that TLAPS checks for every value of the constants.

- [1. Inventory of the system](#1-inventory-of-the-system)
- [2. Plan](#2-plan)
- [3. The execution core as modelled](#3-the-execution-core-as-modelled)
- [4. The task scheduler as modelled](#4-the-task-scheduler-as-modelled)
- [5. The coordination layer as modelled](#5-the-coordination-layer-as-modelled)
- [6. Runs](#6-runs)
- [7. Disagreements between code and documentation](#7-disagreements-between-code-and-documentation)
- [8. Proofs](#8-proofs)
- [9. What is not modelled, and why](#9-what-is-not-modelled-and-why)

## 1. Inventory of the system

Paths are relative to `src/`. "Hard" names the behaviour that is hard to test;
every such place has a line of its own under "hazards" in `PROJECT.json`.

### Execution core

| Component | State | Operations | Talks to | Hard | Correct when |
|---|---|---|---|---|---|
| Intent life cycle `core/execution/intent_execution_state.py` | one machine per intent | `transition` over `LEGAL_TRANSITIONS` | used by dispatcher and recovery | one id seen by a call, a scan and a restarted kernel | every history is a path of the table; terminal states are last |
| Recovery journal `core/execution/recovery_journal.py` | an append-only file, a file object with its buffer | `log_transition` (write, flush, fsync) | dispatcher, recovery | fsync fails after the line landed; torn last line | a record that was acknowledged is there after a crash |
| Lineage analysis `core/replay/replay_coordinator.py` | none | `analyze_lineage` | recovery | one bad line rejects the file | divergence is reported exactly when a history is illegal |
| Intent dispatcher `core/execution/intent_dispatcher.py` | per call: machine, correlation slot; shared: current worker | `dispatch_sync` = `prepare`, `ensure_worker`, `execute_in_worker` or `execute_in_process`, `verify_and_complete`, `mark_failed`, `mark_orphaned` | journal, event bus, worker, disk | concurrent calls, deadlines, failures of journal and bus at each step | RUNNING is durable before an effect; COMPLETED only with evidence; every call ends |
| Intent recovery `core/execution/intent_recovery.py` | none of its own | `scan_orphaned`, `reconcile` | journal, bus, disk | runs after a crash, is itself interrupted | every open intent is settled, and truthfully |
| Worker supervisor `core/runtime/worker_runtime.py`, worker `workers/*.py`, adapter `core/adapters/filesystem_adapter.py` | worker state, process, two pipes, files | `start`, `stop`, `send_frame`, IO and watchdog threads; handle a request | dispatcher | a pipe that nobody reads; a terminating worker still writes; answers cross timeouts; death between write and answer | an answer is what the disk held; a dead worker is replaced |
| Capability broker `core/runtime/capability_broker.py`, registry, `syscall_gate.py` | table of leases | request, validate, revoke, terminalize, expire | dispatcher copies a lease into the request | copy is stale at the worker | no effect under a lease that is not current |

### Coordination

| Component | State | Operations | Hard | Correct when |
|---|---|---|---|---|
| Snapshot barrier `core/sync/synchronization.py`, snapshots `core/state/state_snapshot.py` | freeze flag, mutation count, epoch | mutation and snapshot windows, `trigger_snapshot` | overlap, cancellation while draining | no mutation is open while a snapshot is taken |
| Causal scheduler `core/orchestration/causal_scheduler.py` | pending, completed, logical clocks | `submit`, `run_cycle`, `run_until_empty` | failing events, missing parents | an event runs after its parents; nothing runnable is dropped |
| Parallel engine `core/orchestration/parallel_engine.py` | nodes, running tasks | `execute_dag` with retries and time-outs | failure deep in the graph, reports that raise, two calls at once | every node ends; no node runs before its dependencies completed |
| Task scheduler `core/orchestration/scheduler.py` | heap, statuses, three worker slots | `submit`, `cancel`, tick, run | cancel against run, recurrence | no thread waits on itself; cancelled tasks do not run |
| Task manager `core/orchestration/task_manager.py` | queue, current task | submit, cancel, worker loop | cancellation of the running task | the queue keeps being served |
| Execution scheduler `core/execution/execution_scheduler.py`, futures `verification_semantics.py`, `window_lifecycle.py` | a queue per window and a generic one | submit, select, purge, verify | starvation, stale handles, `stop()` | every future is resolved |
| Event bus `core/orchestration/event_bus.py`, journal `core/replay/event_recorder.py`, replay `core/replay/replay_engine.py` | subscribers, hash chain, segments, manifest | `emit_sync`, `commit_sync`, rotation, recovery boot in three modes | failing and torn writes, rotation, opening again | a replay yields what was acknowledged, in order and without gaps |
| Model router `core/orchestration/llm_router.py` | status, count, cooldown per provider, index of the rotation | `get_next_provider`, `send_message`, `send_vision_request` | concurrent callers, a list that is sorted anew with every choice | limits are kept; no provider is neglected |
| Transactions `core/transaction/*` | effect log with hash chain, transaction states, panic levels | begin .. commit, rollback, reconcile | crash between an effect and its record | no effect that may have happened is declared safe to replay |
| Bootstrap and life-cycle authority `core/runtime/lifecycle_authority.py`, `core/bootstrap/*`, `core/execution/runtime_kernel.py` | runtime state, boot stages | boot, degrade, panic, shut down | failure of one stage of several | only legal state changes; a panic is final |
| Brain `core/runtime/brain.py` | requests with a status, agent threads, `GUI_LOCK` | `process_request`, run, retry, cancel, hand-over to the parallel engine | cancel against run, agents that outlive their timeout, exceptions that nothing catches | dependencies come first; every request ends, with a final status (not kept: section 7) |
| Bridge `core/ipc/bridge_server.py`, `core/runtime/runtime_event_stream.py` | connection, expected number, queue of early messages, msg_ids seen; queue of the egress | receive, queue, drain, dispatch; emit, subscribe | numbers missing, late or twice, reconnection, a full queue, failing dispatch | nothing is passed over or done twice; a gap closes |
| Binary IPC `core/ipc/frame_*.py`, `binary_transport.py` | byte buffers | frame codec, reader, writer, transports | partial reads and writes | frames come out as they went in |

### Around the kernel

Resource governor, auditor, telemetry and diagnostics observe; registries are
static; adapters and agents are sequential wrappers of operating-system calls;
memory, security and vision are
data; `ui/`, `tools/`, `integrations/`, `legacy_game/` are presentation,
scripts, clients and a game. None of them has a protocol of its own to check.

### How the parts of the execution core interact

```
 caller thread: dispatch_sync(intent)          recovery: scan_orphaned(), reconcile()
      |   |  \                                        |        |        |
      |   |   `-- EventBus.emit_sync (may raise)      |        |        |
      |   `-- RecoveryJournal.log_transition ---------'        |        |
      |            (file; may raise before or after            |        |
      |             the line reached it)                       |        |
      v                                                        |        v
 WorkerSupervisor --stdin--> worker process --writes--> files <--- observe_file()
      ^                          |                               (digest compared)
      `------ stdout <-----------'
```

A caller announces an intent in the journal, hands it to a worker, waits with
a deadline for an answer or for the worker's death, observes the file itself,
publishes the evidence and journals the result. Whatever a crash interrupts,
recovery takes from the journal.

## 2. Plan

The order is by what matters most: first what the kernel says about effects,
then what may keep it from saying anything.

1. Execution core (done): `IntentLifecycle`, `RecoveryJournal`, `WorkerLane`,
   `IntentDispatch`, `IntentRuntime`, the abstract `IntentPromise`, and the
   proofs of type correctness and WAL-before-effect.
2. `TaskScheduler` (done, with the proof that no task is lost).
3. `SnapshotBarrier` and `TaskManager`, composed in `StateRuntime` (done).
4. `CausalScheduler` (done).
5. `EventJournal` (done): the chained journal, its crashes, and the recovery boot.
6. `RequestPipeline` (done): brain and parallel engine.
7. `LaneScheduler` (done): execution scheduler, windows, gateway and futures.
8. `ModelRouter` (done).
9. `BridgeServer` and `EffectLog` (done).
10. Further proofs (done): in the core `CompletedWasProved`, `WithdrawnNeverActs`,
    `AnswerIsHonest`, `DisownedOpenly`, `SettledIsFinal` and the refinement of
    `IntentPromise`; of the coordination layer `CausalOrder`, and what the runs check
    of the state runtime, the scheduler's lanes, the requests, the router, the
    bridge, the effect log and the event journal. Every safety property is proved;
    what is left to TLC is liveness (section 8).
11. Left for models of their own, should the program come to use these parts:
    the transaction manager, leases that are revoked, and the binary transport.

Each module declares its parameters as CONSTANTS with named assumptions, has
one action per step of the code, states invariants as conjunctions of named
parts and uses no RECURSIVE operator. Proofs go to modules of their own, and
there is an `MC` module when it needs definitions for TLC.

## 3. The execution core as modelled

`IntentRuntime` EXTENDS `IntentDispatch`, which EXTENDS `RecoveryJournal` and
`WorkerLane`; these share `IntentLifecycle`.

**IntentLifecycle** holds `LEGAL_TRANSITIONS` as a function from a state to a
set of states, the terminal states, the guard `CanGo`, and the two readings of
a history ("lineage"): its last state and its legality.

**RecoveryJournal** keeps the file as one lineage per intent (`wal`), because
its only reader folds it per intent. `log_transition()` either returns
(`LogReturns`) or raises (`LogRaises`). When it raises the line is in one of
three places: in the file, because only `fsync` failed; in the file object's
`buffer`, from which the next flush will write it in front of its own line; or
there with a prefix of it already on disk (`tail = "partial"`). A crash of the
process drops the buffer and turns such a prefix into a torn line; the next
record is glued to it and both are unreadable (`garbled`). `NoDivergence` is
`analyze_lineage()`: every line parses and every step between two lines of an
intent is legal.

**WorkerLane** has one record per worker process: the supervisor's state, whether
the process lives, its request pipe (`inbox`), the step of the request in hand
(`written`), its answer pipe (`outbox`) and whether the supervisor still reads.
A file is the sequence of chunks written to it, so that replacing and
appending differ and "holds exactly the intended bytes" can be said. `landed`
and `performed` are history variables: which contents a file has held, and
whose write took place. A worker may be TERMINATING, and still writing, while
its replacement runs, as in `stop()`'s two seconds of grace. The supervisor's lock is
held by a call that writes its frame (`Sending`) and by a `stop()`; a handshake and a
`stop()` wait for it.

**IntentDispatch** is `dispatch_sync()`. `pc[i]` names the next step of the
call for intent `i`; a step ends wherever another thread, a failing journal or
a failing bus may come in between: at each journal record, each event and each
contact with worker and disk. `Transition` is the code's `_transition()` in the
code's order: legality, durable record, in-memory state. Each use names where
the call goes when the journal raises, which is how the `except` clauses of
`dispatch_sync()` are rendered: before RUNNING an exception leaves the call,
later it leads to `mark_failed()`, a `WorkerDiedError` to `mark_orphaned()`,
and what those raise leaves the call.

| Steps of a call (`pc`) | Code |
|---|---|
| `idle` -> `Refuse`, `EncodeFails`, `Submit` | validation, capability and lane; `_expected_digest()`; QUEUED |
| `dispatch`, `announce`, `run` | DISPATCHED, ExecutionEvent, RUNNING |
| `execute`, `boot` | `ensure_worker()` and the wait for READY |
| `lock`, `send` | `send_frame()`: the supervisor's lock, and the write into the pipe; neither has a deadline |
| `wait` | the wait for answer, death or deadline |
| `execute`, `adapter` | `execute_in_process()` |
| `verify`, `mutated`, `observe`, `attest`, `complete` | `verify_and_complete()` up to COMPLETED |
| `deny`, `diverged` | the same, when the bytes are not the intended ones |
| `fail`, `report` | `mark_failed()` |
| `orphan`, `invalidate` | `mark_orphaned()` |
| `rejected`, `completed`, `failed`, `orphaned` | the answers; `raised`: an exception left the call; `gone`: the kernel died |

**IntentRuntime** adds `IntentRecovery` and the kernel process. A recovery is a
little program of its own (`rec`): the scan takes its analysis once and then
journals intent by intent; `reconcile()` journals RECOVERING, observes the
file, publishes the verdict and journals it. A failing record or event ends it
where it stands. `Crash` takes calls, recovery, machines, buffers and, with the
kernel's Job Objects, the workers. The constant `RecoveryAlone` says whether
callers keep recovery and dispatch apart; the code itself does not.

**IntentPromise** is the abstract specification: about each intent the kernel
durably declares at most one fate, withdrawn (no effect, ever), exposed, then
kept or disowned; it exposes an intent before any effect of it, and calls it
kept only if what the intent claims has been the case. `IntentRuntime` is
shown to implement it under the mapping `Fate` of journaled states to fates.

## 4. The task scheduler as modelled

**TaskScheduler** is `core/orchestration/scheduler.py`: clients in `submit()`
and `cancel()`, the dispatcher thread, and a thread for each run of a task. One
critical section of `_lock` is one step; `lock` names a thread that stays in
its critical section over several steps, which only `cancel()` does, because it
notifies the observers before it leaves.

| Step | Code |
|---|---|
| `Submit`, `Cancel` | the critical sections of `submit()` and `cancel()`; what is refused changes nothing and has no action |
| `TakeSnapshot`, `Deliver` | `_notify_all()`: `get_all_tasks()` under the lock, then the callbacks outside of it |
| `BecomesDue` | the clock passes a task's `run_at` |
| `Tick` | one `_tick()`: every due task leaves the heap, and gets a thread unless it is cancelled or running |
| `GetSlot`, `Finish` | `_run_task()`: the semaphore and `runs_done`; the end of the brain's task (success, failure, or the five minutes are over) and what it makes of the status |
| `Start`, `Stop` | `start()`; `stop()` once the dispatcher is joined |

Time is only whether a queued task is due. What a snapshot holds is left out,
and so is the priority: it orders the threads of one tick, and the semaphore
they wait for is handed on without regard to it.

## 5. The coordination layer as modelled

Except for the router and the brain, whose callers are threads, these parts are
coroutines: a step of the model is what the event loop runs between two
suspensions, and a waiter goes on when its predicate holds.

**SnapshotBarrier** is the barrier with its epochs and its users: agents inside
`mutation_window()` (`mut`), calls of `trigger_snapshot()` and direct users of
`snapshot_window()` (`seal`). Everybody may be cancelled at any suspension.
`trigger_snapshot()` does not suspend once the barrier is drained, so that its
body, with its three endings, and its `__aexit__` are one step (`Seal`).
**TaskManager** is the asyncio task manager: the worker loop (`worker`), the
asyncio tasks it makes (`body`) and what `cancel()` does to both, which is to
raise in the coroutine when it is resumed next, and in what awaits it.
**StateRuntime** composes the two: the coroutines of tasks mutate inside
windows, so that a cancelled task unwinds through the barrier and a task that
waits at the gate holds up the queue. In the program only tests open mutation
windows; the composition is the use the barrier's documentation asks for.

| Step | Code |
|---|---|
| `Enter`, `Admit`, `Exit` | `mutation_window()`: open gate, waiting at a frozen one, `__aexit__` or cancellation |
| `Trigger`, `Drained` | `trigger_snapshot()` up to its suspension, and after it |
| `OpenWindow`, `WindowDrained`, `CloseWindow`, `CancelDraining` | `snapshot_window()` |
| `Submit`, `CancelTask`, `Start`, `Stop` | the methods of the same names |
| `Take`, `Resume` | the worker loop before and behind its `await` |
| `Execute`, `Finish`, `Unwind` | `Task.execute()` |

**CausalScheduler** is `submit()`, `run_cycle()` and `run_until_empty()`. A
cycle suspends at each dispatch, and another runner or a `submit()` may come in
between (`StartCycle`, `DispatchEvent`); the batch it hands out is in the order of the
heap (`InOrder`); the deadlock resolution is a step of its own
(`DropAll`), because it waits for the lock.

**EventJournal** is the hash-chained journal of a session. Its segments are read
one after the other, so they are kept as one sequence of `lines` and the positions
(`ends`) where the files end. A line is its event and the one it is chained to; a
torn line is a `Fragment`, and what is written behind it becomes `Garbage` with it.

| Step | Code |
|---|---|
| `Commit` | `commit_sync()` that returns: it may open the next segment before the line, and behind one that closes a checkpoint |
| `CommitFails` | `commit_sync()` that raises: nothing was written (`lost`); the line is in the file (`landed`) or a prefix of it is (`torn`); a segment was opened that did not get into the manifest, before the line (`unlisted`) or behind it (`unrotated`) |
| `Die` | the process dies, between two commits or inside one: at the line, or within the rotation before or behind it |
| `Boot` | `RuntimeStore` opens the journal, which resets the manifest, and `ReplayEngine` reads in one of its three modes and dispatches to a bus with a `publish()`, where some events may fail. (The program's own bus has none: there the boot raises at `replay_engine.py:185`, `main.py:511` logs it, and no success is reported.) |

**RequestPipeline** has one thread per request (`pc`, `step`), the agent calls of
its steps and how they ended (`calls`) and, for a request whose steps have
dependencies, `execute_dag()` (`engine`, the status of its nodes in `outcome`, the
sets `completed` and `failed` by which it counts). `_transition()` is two steps,
`Check` and `Assign`, and so is `cancel_task()`. An agent that is timed out goes on in
its thread, but the pipeline has done with it.

What may raise is part of the steps. In the engine it is every report to its bus or
its state manager: one behind `completed.add()` sends a node that has succeeded
back for a retry, or to the failed ones (`Miss`); any other ends `execute_dag()` with
its nodes as they are (`Break`), and the request FAILED. In a sequential request it
is the verifier, or an answer that is no dictionary: the thread dies with the
status it had (`Die`). As `main.py` wires the program each of these does happen: the
engine emits a name and a dictionary where `emit()` takes one event
(`parallel_engine.py:85`, `event_bus.py:100`), so that no DAG gets beyond its first
report, and so does the verifier (`verifier_agent.py:126`, `event_bus.py:49`). The
model lets reports and verifiers raise or not, so that it also speaks of the engine
with a bus that accepts what it emits. `GUI_LOCK` is left out, because nobody takes it
(section 7).

| Step | Code |
|---|---|
| `Submit`, `CancelCheck`, `CancelAssign` | `process_request()`, `cancel_task()` |
| `Acquire`, `NextStep`, `End` | `_run_task_execution()` |
| `Attempt`, `Retry`, `Resume`, `Return` | `_execute_step_with_verify()`, `_handle_retry_wait()`, `_call_agent()` |
| `Die` | an exception leaves `_execute_step_with_verify()`, and with it the thread |
| `Start`, `Launch`, `Collect`, `ReturnDag` | `execute_dag()`; the first three, and the last, may `Break` or fail at a report |
| `GiveUp` | `_run_coro()` runs into its timeout; the engine goes on |

**LaneScheduler** is the execution scheduler. `queued` is what all its queues
hold, `older[i]` what of it has an earlier timestamp than `i`, and `prio` its
present urgency, from which the head of each lane follows (`IsHead`); `lanes` are
the keys of the dictionary of window lanes and `before[w]` those its loop meets
before `w`. `Select` is the whole critical section: it skips busy windows, deletes
empty lanes, purges those of dead windows and fails their futures, takes a head
and ages what stays. `Dispatch` and `Finish` are the gateway call, outside the
lock. Two threads exist because `stop()` gives up its join after two seconds. All
timestamps are taken to differ: `time.monotonic()` may tie where it ticks seldom, and
a heap keeps no order between equal keys.

**ModelRouter** is the choice of a provider under the lock (`Reset`,
`ChooseProvider`), the call, and the bookkeeping behind it without the lock
(`Succeed`, `Fail`). `waiting` are the rate-limited providers whose cooldown or
backoff has not passed. `provider_order` is computed anew with each choice, as
in the code: the providers that are listed, ranked by `Before`, which is the key
of the stable sort and then the place in the dictionary; `At(k)` is the one at
place `k`, and `index` is such a place. `TryVision` is one round of
`send_vision_request()`, which consults neither limit nor cooldown.

**BridgeServer** is the ingress of the bridge: one client, which is the
environment (`given`: which message went out under which number of this
connection; `wire`: what the handler has still to read), and the handler, for
which one message is one step, because nothing it awaits lets another coroutine
touch its state. `link = "closing"` is a connection that is closed while the
handler reads what had arrived. `dispatched` and `acted` are history variables.

| Step | Code |
|---|---|
| `Connect`, `CleanUp`, `Break` | `_handle_client()`, `_reset_incoming_sequence()` |
| `Send`, `SendAgain`, `SendOldAgain`, `SendInvalid` | the client, with the sequences of numbers that `tools/simulators/chaos_injector.py` tries (its messages themselves name a protocol version the server refuses) |
| `Refuse`, `Discard` | `_receive()`: not valid; msg_id known |
| `Take` with `IsRun`, `Fail` | the expected number: `_drain_ooo_queue()`, then the message itself; a dispatch that raises ends the handler |
| `Skip`, `Queue`, `GiveUp` | `_handle_sequence()`: too late; early; early in validation mode or with the queue full |

**EffectLog** is the write-ahead log of effects. A record carries its number
and names its predecessor's; the file object buffers, so that what a failed
`flush()` left behind is written by the next. `AppendFails`, `Crash` and
`CrashInAppend` leave any part of the pending records in the file; `Open` is
`_recover()`, which refuses a log with a torn record or a broken chain.
`RunEffect` is the worker, whose effect falls between two records. `Verdict` is
`EffectReconciler.analyze()`. Only tests use these classes; the order in which
they log the states of a transaction is taken from them.

## 6. Runs

| Run | Checks | Shows |
|---|---|---|
| `crash_recovery` | `TypeOK`, `WithdrawnNeverActs`, `CompletedWasProved`, `SettledIsFinal`, `KeepsPromise` | two worker intents, one of them appending, a worker death and a crash: what the journal declares stays true, although each verifies a file the other writes, including late writes of a terminating worker and answers that cross a timeout; refinement of `IntentPromise` |
| `journal_faults` | `EffectWasAnnounced`, `AnswerIsHonest`, `CompletedWasProved`, `DisownedOpenly` | a worker intent and an in-process one that write the same, a file that exists or not, one failing `log_transition()` at any point (landed, buffered, torn), a failing event and a crash: the journal is ahead of effects, no answer lies, COMPLETED was proved, a success is disowned in the open only |
| `calls_end` | `CallsEnd`, `OrphansSettle` | one intent, one fault of every kind and two crashes: the call ends unless a pipe that nobody reads holds it, and what it left open is settled |
| `tasks_kept` | `TypeOK`, `NothingIsLost`, `RunsAreCounted`, `EveryTaskEnds` | three tasks that compete for two slots, one delayed and recurring, one that may be cancelled, with starts and stops at any time |
| `snapshots_seal` | `TypeOK`, `SnapshotsAreQuiet`, `TagIsCurrent`, `WaitersPass`, `TasksServed` | two managed tasks and an agent beside them mutate while two triggers and a direct user take snapshots, with cancellations, a stop and a restart |
| `causal_order` | `CausalOrder`, `RunReturns` | a join, an event that waits for itself, clocks that contradict the order of submission, two runners, a failing dispatch |
| `replay_reads` | `SalvageHasNoGaps`, `StrictIsComplete`, `BootIsHonest` | segments of two events, two failures of any of five kinds, crashes inside and between commits, two boots in any mode |
| `requests_end` | `DependenciesFirst`, `NothingRunnableIsLeft`, `DoneIsFinal`, `RequestsEnd` | a DAG of four nodes and a request of two steps with one place between them, retries, timeouts, cancellations, reports and verifiers that raise |
| `lanes_serve` | `OneHolder`, `NoOvertaking`, `FuturesResolve` | two intents of a window that may die or be replaced, an endless stream of urgent intents beside a modest one, a stop and a restart |
| `requests_routed` | `LimitKept`, `NoneNeglected` | two callers and two providers of equal priority with limits 1 and 2, vision requests, failures of every kind, one midnight |
| `bridge_orders` | `NoGap`, `ActedOnce`, `GapsClose` | two connections with four and two numbers, in any order, messages sent twice or again over the next connection, a queue of two that overflows, invalid messages, breaks, failing dispatches |
| `effects_kept` | `AcknowledgedIsKept`, `RefusedForCause`, `SeenEffectIsEscalated` | a reversible and an irreversible transaction, two failing appends that leave any part of a record, crashes anywhere, two restarts |

Every module has a type invariant; where a run does not list it, it holds under
that run's configuration all the same and is left to be added by who changes
the module.

### Execution core

The runs use `MCIntent`: one file, and intents `a` and `b` that write
different contents to it, the same content, or append; `calls_end` has one
intent, for its properties speak of each call and its own records. Two intents
suffice for what can go wrong between calls (a shared worker, a shared file, a buffered line of one
in front of a line of the other); more of them add only more of the same pairs.
Bounds: `MaxDeaths` (a worker dies, is stopped, or cannot be started), so that
there are `MaxDeaths + 1` workers; `MaxWalFaults`; `MaxEmitFaults`;
`MaxCrashes`. One fault of a kind at every possible point is what the
properties distinguish; where two are needed, the run says so. Deadlock is not
checked because each intent is dispatched once and then the system rests.

- `EffectWasAnnounced`: no effect without a RUNNING record before it.
- `WithdrawnNeverActs`: ABORTED or REJECTED means no effect and no request on
  its way.
- `CompletedWasProved`: COMPLETED means the intent's own write happened, left
  exactly the intended bytes and was attested.
- `AnswerIsHonest`: the caller hears success only with COMPLETED durable, and
  "rejected" only without an effect, also when the journal fails.
- `DisownedOpenly`: when the COMPLETED record of a published success raises, the
  call is journaled FAILED. Then the COMPLETED stands in the file in front of it, be it
  written at once or from the buffer: whoever reads the lineage meets a divergence,
  and not an ordinary failure. That the success is disowned at all is in section 7.
- `SettledIsFinal`: once a fate is journaled nothing is added to it, by a call
  or by any recovery.
- `CallsEnd`, `OrphansSettle`: liveness. `CallsEnd` excepts a call that writes into a
  pipe nobody reads (`Blocked`), and one that waits for the lock of such a
  supervisor (`LockedOut`); both are real (section 7). `OrphansSettle` excepts what a
  failing journal record interrupted, and a reconciliation that was cut short
  (section 7).
- `KeepsPromise`: the refinement; every step maps to a step of `IntentPromise`
  or leaves its variables alone.

**Fairness.** `FairSpec` assumes that the threads of calls and of a running
recovery keep running (weak fairness of each), that a dead kernel is restarted,
and that its owner scans when it may and reconciles the intents the scan
reports, which the code leaves to the caller (strong fairness for each intent,
because reconciling one holds up the other). Nothing is assumed of workers,
pipes or the journal: each wait of a call for its worker has a deadline
(`execute_in_worker()`), which is why `CallsEnd` holds, but the write of the request
has none: a call in `send` goes on for certain only when the process is gone, so that
its fairness is conditional on that. (Two intents without faults and with one
worker death pass too; `calls_end` keeps to one, with every kind of fault.)

### Task scheduler

The run uses `MCTaskScheduler`: a delayed task that recurs and two
that run once. Three tasks and two slots make runs wait for a slot while others
end and recur; each task has at most two runs, enough for one run to notify
while the dispatcher starts the next. More slots and runs are the proof's.

- `NothingIsLost`: a waiting task is in the heap, a running one in the hands of
  exactly one thread, so none is dropped or started twice.
- `RunsAreCounted`: a waiting task has runs left, and its threads are numbered by
  its runs.
- `EveryTaskEnds`: liveness, unless a `cancel()` hangs with the lock.

The scheduler's `FairSpec` assumes that its threads keep running, that the
brain's tasks end (`_execute_via_brain()` gives up after five minutes), that
time passes, and that it is started and not stopped for good. The order in
which the semaphore and the lock are handed on is left open.

### Coordination layer

`snapshots_seal`: `MaxWindows` = 2 lets two windows overlap or follow each other,
which is all their properties distinguish; two tasks make one wait behind the
other; one stop, with a restart.

- `SnapshotsAreQuiet`: no snapshot is saved while a mutation is in flight, and
  nobody mutates beside an open window unless two windows have overlapped.
- `TagIsCurrent`: a snapshot carries the epoch it seals, although the epoch is
  read before the barrier is drained. (With the same exception.)
- `WaitersPass`, `TasksServed`: who waits at the gate or in the queue is served,
  with the exceptions section 7 is about. Assumed: the event loop runs what is
  ready, windows are left again, and an agent makes finitely many of them (strong
  fairness of `End`).

`causal_order`: the events are submitted in every order, between and within
cycles; one failure, for the resolution of a "deadlock" needs no more.

- `CausalOrder`: an event is handed out behind all its parents.
- `RunReturns`: `run_until_empty()` returns, circular dependencies or not. The
  lock of asyncio is first come, first served, hence strong fairness of each runner.

`replay_reads`: four events and segments of two put a rotation between any two
lines. Events are interchangeable (symmetry; no liveness is checked).

- `SalvageHasNoGaps`: nothing is read twice, and before an acknowledged event
  SALVAGE yields all that was acknowledged before it.
- `StrictIsComplete`: what STRICT accepts, with all segments listed, holds every
  acknowledged event, in the same sense without a gap.
- `BootIsHonest`: what a STRICT boot that reports success applied has no gap either.

These speak of what was acknowledged; a line whose commit raised and that landed
all the same may be read too, and the properties look past it.

`requests_end`: the DAG has a join and a chain behind it; one node may be retried;
`MAX_RETRIES` is 2. One place in the semaphore for two requests, so that what a thread
keeps when it ends shows in the other request; with two places the run passes too.

- `DependenciesFirst`: a node is called only behind a success of each node it depends
  on, also when a success was taken back.
- `NothingRunnableIsLeft`: a loop that comes to its end leaves out no node that could
  run, unless a counted node was taken back (section 7).
- `DoneIsFinal`: a thread that is through leaves a final status, whatever a
  concurrent cancellation overwrote; one that died leaves RUNNING or CANCELLED.
- `RequestsEnd`: every accepted request gets its turn and comes to its end or dies,
  although no agent has to end: each wait has a timeout (`STEP_TIMEOUT`,
  `node.timeout`, `_run_coro()`), and a thread that dies leaves the semaphore. Strong
  fairness of `Acquire` stands for the semaphore. Not every request gets a final
  status: `RequestsSettle`, section 7.

`lanes_serve`: priorities 0 and 1 are one step of ageing; the stream resubmits
without end, which the properties need and more intents would not change.

- `OneHolder`: what is queued or in a thread's hands is pending, in one place, and
  until `stop()` is called whatever is pending is in such a place.
- `NoOvertaking`: nothing older and at least as urgent is left behind in a lane.
- `FuturesResolve`: every future is resolved, unless `stop()` was called.
  Assumed: the scheduler is started and its thread runs, a gateway call ends, a
  verifier has its timeout, time passes. That a gateway call ends is an assumption:
  the handler of a non-deterministic capability is called without its timeout
  (`kernel_facade.py:58-59`).

`requests_routed`:

- `LimitKept`: text requests overrun a limit by at most the calls under way.
- `NoneNeglected`: while requests keep coming, a provider that is available is
  called or ceases to be available. Assumed: calls end, times pass, callers send.

`bridge_orders`: with four numbers on the first connection and a queue of two, two
messages wait together, come in the wrong order, are drained as a run or in part, and
a third one overflows the queue; the second connection, of two numbers, lets messages
come back (`LastSeq`). At most two messages are on the wire, for the order of sending
is free. Tried as well: three numbers on the second connection; five numbers and a
queue of three.

- `NoGap`: what was dispatched on a connection are the numbers before the expected
  one, each once: nothing is passed over, whatever came early, late or twice.
- `ActedOnce`: no message is acted upon twice, also over two connections.
- `GapsClose`: liveness. What waits in the queue is dispatched or the connection
  ends. Assumed: the handler reads on (weak fairness of `Handle`) and the client
  sends each number in the end (strong fairness of `Send`, which a full wire
  disables). Excepted are numbers that went to messages of the connection before
  (section 7).

`effects_kept`: two failures and two stops, because what a failure leaves in the
buffer shows in the next append, and what that leaves in the file, at the next
start but one.

- `AcknowledgedIsKept`: a record whose `append()` returned stays in the file,
  and in the index of every log that opens.
- `RefusedForCause`: a log is refused only behind a failed append or a crash
  within one.
- `SeenEffectIsEscalated`: what the operating system may have seen and nobody
  verified is never declared safe to replay, and is escalated when it cannot be
  undone.

### Mutants

Each property has a mutant in `PROJECT.json`: a definition changed the way a
plausible slip would change the code (the definitions commented "Mutant" in the
modules), under which the run must find the property violated.

## 7. Disagreements between code and documentation

These are definitions in the modules. Adding the property to the configuration
named, as INVARIANT or (P) as PROPERTY, yields the counterexample.

| Property | Configuration | What the code does, and what it says |
|---|---|---|
| `TerminalIsLast` | `journal_faults` | the COMPLETED record reaches the file, its fsync fails, and `mark_failed()` adds FAILED (`intent_dispatcher.py:175`, `:243`), after which the analysis reports a divergence for the whole journal; `intent_execution_state.py:83`: "Terminal - no forward transitions" |
| `CommittedIsDurable` | `journal_faults` | behind a line torn by a crash the first record of the next kernel is glued to it and lost, although `log_transition()` returned (`recovery_journal.py:44`); `intent_dispatcher.py:166-167`: "a committed transition always has a durable record" |
| `WithdrawnNeverActs` | `crash_recovery` with `RecoveryAlone = FALSE` | a scan beside a running call journals ABORTED for an intent that then reaches the worker (`intent_recovery.py:94`); `intent_recovery.py:57-58`: "they never reached the worker" |
| `RecoveryResumes` (P) | `calls_end` | an intent whose `reconcile()` was cut short, by a crash or by an event that could not be published, stays RECOVERING for good, for `reconcile()` accepts only ORPHANED and the scan passes over RECOVERING (`intent_recovery.py:131`, `:71-108`); `docs/runtime/RUNTIME_SEMANTIC_LAWS.md:20`: "No orphans shall leak." |
| `AttestedNeverFails` | `journal_faults` | the success is published, its COMPLETED record raises, and `mark_failed()` journals FAILED (`intent_dispatcher.py:600-612`, `:243`); `:599`: "Terminal: event evidence first, then the durable COMPLETED record." |
| `DeadlinesHold` (P) | `calls_end` | `send_frame()` writes and flushes under the supervisor's lock; a worker that no longer reads (its stderr is a pipe that is never drained, `worker_runtime.py:96`) holds the call, the calls behind it and the `stop()` of the watchdog, without a deadline (`:240-258`, `:141`); `intent_dispatcher.py:82`: "The execution lane did not answer within the intent's timeout." |
| `RefusalIsJournaled` | `journal_faults` | content its encoding cannot express is answered as rejected without a record (`intent_dispatcher.py:341`); `:204`: "prepare already journaled REJECTED" |
| `CancelReturns` (P) | `tasks_kept` | `cancel()` of a waiting task notifies under the lock that the notification takes again, never returns, and everybody else waits too (`scheduler.py:203`); `:196`: "Cancel a queued or waiting task" |
| `DeadlockIsReal` (P) | `causal_order` | a cycle all of whose dispatches raised counts as no progress, and what it has just released is dropped (`causal_scheduler.py:295`); `:296`: "dependency cycle detected" |
| `FaultlessJournalReplays` | `replay_reads` | a journal opened again starts a second chain in segment 0 and lists only that segment, so that STRICT rejects what nothing has damaged, or overlooks the rest (`event_recorder.py:45`, `:51`); `:5`: "preserve topological determinism across crashes" |
| `CancelSticks` (P) | `requests_end` | the status a thread has checked is assigned over a CANCELLED that `cancel_task()` confirmed in between (`brain.py:305-311`); `:303`: "Returns False if transition is invalid (already terminal)" |
| `OneAtTheScreen` (in `MCRequests`) | `requests_end` | the lock is taken by agents named "application", "system" or "vision" (`brain.py:106`, `:600`, `parallel_engine.py:259`), but they are planned and registered as "application_agent", "system_agent", "vision_agent" (`task_parser.py:122-155`, `main.py:532-543`, `:298`), so that two of them act at once; `brain.py:105`: "Agents that touch the physical screen - must serialise via GUI_LOCK", `:153`: "_GUI_AGENTS steps acquire GUI_LOCK before execution." |
| `RunsOnce` | `requests_end` | a report that raises behind `completed.add()` sends a node that has succeeded back to PENDING, and it is called again (`parallel_engine.py:138-156`); `:69`: "Execute a DAG of tasks with full parallel dispatch." |
| `LoopRunsAll` | `requests_end` | such a node may then be counted in both sets, and the loop, which goes by their sizes, ends with nodes left that could run (`parallel_engine.py:90`, `:175`); `:50`: "Receives a DAG of TaskNodes; runs all nodes with satisfied dependencies" |
| `RequestsSettle` (P) | `requests_end` | a verifier that raises ends the thread of its request with the status RUNNING (`brain.py:475`, `:506`); `brain.py:150`: "Every step result passes through VerifierAgent before being accepted." |
| `DownComesBack` (P) | `requests_routed` | a provider that failed for any other reason than limit or key is DOWN and leaves the list until the next day (`llm_router.py:185-193`, `:394`); `:390`: "down -- cooldown 30s", `:63`: "Exponential backoff for failed providers" |
| `DispatchedInOrder` | `bridge_orders` | the queue is drained, and what follows dispatched, before the message that was missing is dispatched itself: messages that arrive as 1, 0 are dispatched as 1, 0 (`bridge_server.py:130`); `shared/protocol/events.py:6`: "transport-layer monotonic counter per connection (ordering, replay chronology)" |
| `AcknowledgedIsReadable` | `effects_kept` | an append that fails behind `write()` leaves `last_hash` as it was although its record reaches the file; the next record names the same predecessor, and the next start refuses the log (`effect_wal.py:124`, `:85`); `:29-30`: "Durable Write-Ahead Log for side effects. Uses fsync barriers and cryptographic hash chaining for integrity." |

Met while modelling, and not stated as a property:

- The dispatcher takes no lock on the file that two intents write
  (`docs/runtime/RUNTIME_SEMANTIC_LAWS.md:15-17` wants one; the lock manager is not used
  by it). A CRITICAL task waits for a slot like any other (`scheduler.py:21` says it
  skips the queue). The snapshots of two notifications may reach the observers
  in the wrong order.
- `epoch_id` orders nothing in the causal scheduler (`causal_scheduler.py:60-63`).
- Task objects of the task manager have no `status` or `id`, which the snapshot
  asks for (`state_snapshot.py:86-98`). Cancelling the running task ends the
  worker loop, and `start()` then does nothing (`task_manager.py:59-63`,
  `:105-109`). A drain that is cancelled leaves the barrier frozen
  (`synchronization.py:231`).
- Two DAGs at once share the engine's table of running tasks and cross each
  other (`parallel_engine.py:126`). A cancelled request still runs its attempt,
  and a DAG does not notice a cancellation at all. One successful step makes a
  request a success, and the engine takes whatever an agent returns for one. Calls
  whose nodes nobody collects, because `execute_dag()` has ended, go on by themselves.
- Window lanes are served in the order of a dictionary and before the generic
  one (`execution_scheduler.py:188`): a window that is never idle starves the
  rest. A window handle that is used again is taken for the old window
  (`window_lifecycle.py:84-113`). `stop()` leaves the queued futures pending, and
  a second thread on the same window loses one (`execution_scheduler.py:171`).
- The bridge recognises a message that is sent again over a new connection by its
  msg_id before it looks at its number (`bridge_server.py:116`), so that the
  number stays missing: what follows waits in the queue until the queue is full.
  `GapsClose` without its last disjunct shows it.
- `main.py`'s `initialize()` does not come to its end as written: it hands a
  string to `subscribe()` of the topology coordinator, which asks for a class.
  `BinaryTransport` cannot start: its `_transition()` asks a string for `.value`.
- The IO thread may set a stopped worker READY, when it holds a HANDSHAKE_ACK while
  `stop()` holds the lock (`worker_runtime.py:217`). It does no harm: the
  dispatcher asks the process too.
- Vision requests consult neither limit nor cooldown (`llm_router.py:601-617`).

## 8. Proofs

There are eight modules of proofs. `IntentProofs` is about the execution core as a
whole; `TaskSchedulerProofs`, `StateRuntimeProofs`, `LaneSchedulerProofs`,
`RequestPipelineProofs` and `ModelRouterProofs` are about the module they are named
after. Two modules each take two components that share no state: `OrderProofs` those
that put things in order, `BridgeServer` and `CausalScheduler` (whose specification
is therefore named `CausalSpec`), and `LogProofs` the hash chains on disk, `EffectLog`
(`LogSpec`) and `EventJournal`.
All theorems are about `Spec` (or `LogSpec`, `CausalSpec`) for every value of the constants that
satisfies the named assumptions of its module: any intents, paths, contents,
tasks, events, requests, windows or messages, any number of workers, threads or
callers, and any bounds on the faults. What a theorem assumes beyond them is in
its `ASSUME`, and in the last column.

| Theorem | Statement | Assumes |
|---|---|---|
| `TypeCorrect` | `Spec => []TypeOK` | |
| `JournalIsAhead` | `Spec => []AnnouncedBeforeEffect` | |
| `WalBeforeEffect` | `Spec => []EffectWasAnnounced` | |
| `CompletedIsProved` | `Spec => []CompletedWasProved` | |
| `WithdrawnIsInert` | `Spec => []WithdrawnNeverActs` | `RecoveryAlone` |
| `AnswersAreHonest` | `Spec => []AnswerIsHonest` | `RecoveryAlone` |
| `DisownedInTheOpen` | `Spec => []DisownedOpenly` | `RecoveryAlone` |
| `FateIsFinal` | `Spec => SettledIsFinal` | `RecoveryAlone`, `MaxWalFaults = 0` |
| `KeepsItsPromise` | `Spec => KeepsPromise` (refinement) | `RecoveryAlone`, `MaxWalFaults = 0` |
| `TypesKept` | `Spec => []TypeOK` (task scheduler) | |
| `NoTaskIsLost` | `Spec => []NothingIsLost` (task scheduler) | |
| `RunsCounted` | `Spec => []RunsAreCounted` (task scheduler) | |
| `ParentsFirst` | `CausalSpec => []CausalOrder` (causal scheduler) | |
| `QuietSnapshots` | `Spec => []SnapshotsAreQuiet` (state runtime) | |
| `CurrentTags` | `Spec => []TagIsCurrent` (state runtime) | |
| `StateTypes` | `Spec => []TypeOK` (state runtime) | |
| `NoneIsLostOrTwice` | `Spec => []OneHolder` (lane scheduler) | |
| `NoneOvertaken` | `Spec => NoOvertaking` (lane scheduler, action property) | |
| `DependenciesComeFirst` | `Spec => []DependenciesFirst` (requests) | |
| `EngineFinishes` | `Spec => []NothingRunnableIsLeft` (requests) | |
| `DoneStaysFinal` | `Spec => []DoneIsFinal` (requests) | |
| `LimitsHold` | `Spec => []LimitKept` (model router) | |
| `NothingPassedOver` | `Spec => []NoGap` (bridge) | |
| `NothingDoneTwice` | `Spec => []ActedOnce` (bridge) | |
| `AcknowledgedStays` | `LogSpec => []AcknowledgedIsKept` (effect log) | |
| `RefusalHasCause` | `LogSpec => []RefusedForCause` (effect log) | |
| `SeenIsEscalated` | `LogSpec => []SeenEffectIsEscalated` (effect log) | |
| `SalvageNeverSkips` | `Spec => []SalvageHasNoGaps` (event journal) | |
| `StrictMissesNothing` | `Spec => []StrictIsComplete` (event journal) | |
| `BootNeverPretends` | `Spec => []BootIsHonest` (event journal) | |

`RecoveryAlone` and `MaxWalFaults = 0` are needed, and the program shows why. Without `RecoveryAlone` a
scan takes a call that is still running for an orphan (section 7). With a journal
that may fail, a COMPLETED record that reaches the file before its fsync raises
is followed by FAILED (`TerminalIsLast`, section 7), so that a settled fate does not
stand. The events, the workers and the kernel may
fail in all of these theorems.

`EffectWasAnnounced` is not inductive: the write is done by a worker from a
request that was queued by a call that passed `Run` some steps ago.
`AnnouncedBeforeEffect` strengthens it with every link of that chain: each call
past `Run` has its RUNNING record, and so has each request in any worker's
pipe. What could break the first link is the journal itself: a record that
`log_transition()` acknowledged is swallowed if it is written behind a torn
line. The last conjunct says why this never hurts RUNNING: a torn line appears
only in a crash, which ends every call, so the first record behind it is that
of a call that has yet to pass QUEUED and DISPATCHED, or of a recovery. The step
proofs use lemmas about the journal ("records are never removed", "a record
written with a whole tail is there") and about the lane ("an operation adds to a
pipe only the request it sends", "only the head of a pipe is performed").

`NothingIsLost` needs `RunsAreCounted`: `Tick` may start a task only if the task
has a run left, which every waiting task has, and two threads of one task are
kept apart by the number of their run. With `TypeOK` the two are inductive
(`Kept`); the assumptions are `SchedulerAssumption`, that is any finite set of
tasks, any numbers of runs, any slots.

`CompletedWasProved` follows the evidence backwards through the call
(`Evidence`): an answer in a worker's pipe is one of a write that took place; an
answer the dispatcher holds is one whose bytes have landed; each step behind it
has what the steps before it collected; so a COMPLETED record, or one in the
buffer of the file object, was proved. Bytes never leave `landed`, so a crash, a
recovery or a late write takes none of it away.

`WithdrawnNeverActs` and `AnswerIsHonest` look forward: an intent that is withdrawn
must not act *later*. Their invariant (`Outcome`) has these parts.
Recovery and calls do not overlap (`Alone`); the steps before `Run` have no RUNNING
record behind them (`EarlyCalls`); behind RUNNING the file cannot end in a state
before it, not even with lines that a failed flush left in the buffer
(`RunningIsBehind`); so a recovery that finds such an end finds an intent that was
never sent (`RecoveryTargets`), and one that was withdrawn is over and in no pipe
(`WithdrawnAreInert`). The one case a test would hardly reach is there too: the
pipe of a worker that outlives the call.

`DisownedOpenly` needs no journal that works, but an account of what a failing one
leaves (`Verdicts`). A lineage is taken together with what waits for it in the buffer
(`Line`), because a COMPLETED that was not written is in there and comes out before
any FAILED can. When a call publishes its success the buffer is empty, for the
VERIFYING record in front of it was flushed (`AtVerdict`), and no FAILED is in the
lineage (`BeforeVerdict`); behind that only the call itself, on its way to
`mark_failed()`, writes FAILED, with COMPLETED in `Line` (`SuccessShows`). A recovery
could add a FAILED of its own: it does not, because a success leaves the lineage in
one of the states that neither the scan nor `reconcile()` takes up (`Late`), torn
lines or not, and a recovery that has published one itself goes on to RECONCILED
(`RecoveryJudges`).

The promises about the journal's last word need to know where it stands. While
it does not fail, file and state machine agree at each step of a call
(`CallsStand`) and of a recovery (`RecoveryStands`): together `Faithful`. The refinement then goes action by action.
A step of a worker, or of an adapter, is `Act` of `IntentPromise` or a stutter;
a record is a declaration the promise allows, because `Faithful` says which
records can come next and `Evidence` what is behind a COMPLETED; everything else
stutters.

`CausalOrder` is inductive only together with "every event of a batch had its
parents completed when the batch was taken" (`BatchesAreReady`), which lasts
because `completed` only grows while other cycles run. `SnapshotsAreQuiet` and
`TagIsCurrent` rest on `OneAtATime`: unless windows have overlapped, at most one
opener is past its first step, the barrier is frozen for it, and the epoch it
read is the current one (`Sealed`).

The types of the state runtime (`Typed`) are more than types: that the epoch
stays within the bound on windows is the one part that is not local to a
variable. Only a window that is open can advance it, so the epoch together with
the windows that are open never exceeds the number of windows opened
(`EpochInv`); and that the queue of the task manager holds no task twice needs
that only a task without a state enters it (`QueueInv`).

`OneHolder` of the lane scheduler holds for two threads, but that nothing is lost
before a `stop()` needs that until then one thread runs the loop, and that the
window it has marked stays marked (`OneThread`): a second thread is what makes
`remove()` raise and leaves a future unresolved. `NoOvertaking` is about one
step, but ageing changes priorities long before it. `UrgencyKept` says that of two
intents of a lane the older one stays at least as urgent if it was submitted so;
this is inductive because ages are reached in the order of the timestamps
(`AgesInOrder`), so that ageing never favours the younger of the two.

`DoneIsFinal` of the request pipeline needs to know, for each point of a thread, which
status it has checked and has yet to assign (`Outstanding`) and which it finds behind
the assignment, its own or the cancellation's (`Assigned`): `StatusFollows`. What the
engine promises is about its two sets, since a report that raises takes the status
of a node away from them. `SetsTell` says what they still tell: a COMPLETED node is in
`completed`, where one that was taken back stays; `failed` holds the FAILED ones; what
is in `completed` had a success, and what was called has all it depends on there. The
first part is what `NothingRunnableIsLeft` is conditional on, and the last two give
`DependenciesFirst`. A loop that ends by its count then has every node in one of two
disjoint sets, and one that ends idle has none that is ready. All of it is inductive
once it is known that nobody else touches the nodes of a DAG (`EngineAlone`).

The router's limit is not kept by its counter, which moves only when a call ends:
`UnderWayCounts` adds the callers that have the provider in use. A provider is
given away only below its limit, so the sum passes the limit by no more than the
other callers; a success moves one caller from the second term to the first, and
midnight resets the first only. Vision providers are left out, since their
requests ask for no limit.

The bridge's promises follow from an order: what is queued is sorted and early
(`QueueIsEarly`), every number of a connection stands for one message and every
message for one number of its connection (`GivenIds`), and what is queued was seen
and not yet dispatched (`QueuedIsNew`), so that the msg_id check refuses every
second copy. A failed dispatch loses the connection, and with it the numbers.

The effect log acknowledges what it has flushed, so its invariant (`LogInv`) is
about what a failed append leaves: while none has failed, nothing waits in the
buffer and the chain of the file is whole and ends in the hash the log goes on
with (`UnbrokenChain`). This is why a refusal has a cause. What the index of an
open log says is in the file (`IndexIsOnFile`), and an effect has its DISPATCH in
both (`SeenWasDispatched`), so that no verdict overlooks it.

The event journal is written at its end only until it is opened again: then a new
chain starts in segment 0, in front of the lines of the older segments, and is
later continued into them. So lines go into the middle of what a reader sees, and
no invariant about the file as a whole survives. What survives is about the part
that is intact, that is readable and chained from the first line on (`JournalInv`).
Before an intact line there is all that was acknowledged before its event
(`IntactHasNoGap`), and the intact line the writer would chain the next one to is
behind everything that was acknowledged (`ChainIsBehind`). One step writes one
line, for an event nobody tried before (`TriedBefore`); no line behind it can name
it as its predecessor, so whatever is intact afterwards ends in front of the new
line, where nothing has changed, or in the new line. In the latter case the line
before it is the one the writer's hash names, and `ChainIsBehind` says that nothing
acknowledged is missing. A first line has no line before it, but then nothing has
been acknowledged (`StartsEmpty`). For STRICT, which reads to the end, an
acknowledged event can be missing only where a line is broken (`MissingIsBroken`):
lines are never removed, they only become garbage behind a fragment. The lemmas
about writes say what is in the files after any of them (`Inserted`, `Spoiled`), so
that each kind of failure needs only its own place. That SALVAGE stops behind an
intact line needs a greatest number of intact lines (`MaxOfBounded`), from the
well-foundedness of the natural numbers and not from an induction over the file.
`JournalInv` is checked by no run; it was tried with TLC on `replay_reads` before it
was proved.

Only model-checked is liveness under fairness, that is the properties `CallsEnd`,
`OrphansSettle`, `EveryTaskEnds`, `WaitersPass`, `TasksServed`, `RunReturns`,
`RequestsEnd`, `FuturesResolve`, `NoneNeglected` and `GapsClose`. What DIAGNOSTIC
yields is the filter of a sequence, recursive in the library: no theorem speaks of it.

## 9. What is not modelled, and why

Within the execution core:

- Leases are accepted or refused nondeterministically at the worker; their
  revocation is called by tests only.
- Heartbeats are a bounded nondeterministic timeout; the frames themselves, and
  the worker states DEGRADED and TAINTED with panics and quarantine, are left
  out.
- The adapter's temporary file, and its read, delete and mkdir. The sandbox
  around the worker is the Job Object that ends it with the kernel.
- An event is published or its publication raises; an event journaled by a
  publication that then raised is not represented.
- A crash in VERIFYING: recovery declares that window deferred, so the intent
  stays open, and `OrphansSettle` leaves it out.
- Dispatching an id twice, and replay, which does so: `docs/authority_manifest.md`
  declares it unsupported.
- A write is one step. The journal's device is trusted once fsync returned.

Within the task scheduler: `on_done` callbacks, the read-only getters, and the
text of requests and results. What a stopped scheduler owes to runs that already
wait for a slot is not said anywhere; they go on, as in the code.

Within the coordination layer:

- What a snapshot holds; the other primitives of `synchronization.py`.
- Two DAGs at once (see section 7), confirmations by the user, the parsing of
  requests, and what agents do beyond ending well, badly or never. `GUI_LOCK`, which
  no agent takes.
- `max_cycles` of the causal scheduler is not reached; an event id is submitted
  once.
- The manifest is written atomically in the model of the journal; events are
  committed once, and hashes do not collide.
- Window lanes that never run dry (`LanesAssumption`); windows change hands at
  any time, but process and owner checks other than the handle are not asked
  for by the scheduler.
- The usage file of the router, the choice of a model and the wire formats.
- The bridge's egress: whether events flow from the emitting threads through an
  asyncio queue they fill from outside depends on what else wakes the loop
  (`runtime_event_stream.py:57`), which neither the code nor its documentation
  settles. A second client, which is turned away, and the forgetting of old
  msg_ids.
- A bridge client that gives one early number to two new messages: both are queued,
  the first is dispatched in its turn, and the second stays at the head of the
  queue, which it blocks until the connection ends (`bridge_server.py:153-161`). The
  protocol calls the number a monotonic counter of the connection
  (`shared/protocol/events.py:6`).
- Who logs effects: the log is modelled with the order its tests use. A record that
  cannot be serialised (`effect_wal.py:116`), which uses up a number and writes nothing.
- The byte ceiling of a journal segment (`event_recorder.py:137`), which rotates like
  the ceiling of events, only earlier. Equal timestamps in the lanes (section 5).
- Routing in the event bus. Its guards (depth, cycles, storm) act only when a
  handler emits, which none of the program's does.

Whole components:

- The transaction manager, revocation and terminalization of leases, the lock
  manager and the ordering coordinator are called by tests only. A model would
  have to invent their callers.
- Panic manager, life-cycle authority and bootstrap are tables and guards that
  one thread walks through. IPC framing is a sequential function of the bytes, and
  the transport that would add threads to it cannot start.
- Agents, adapters, vision, memory, user interface, tools and the game are
  the bulk of the source. They drive applications, files and networks, step by
  step, and share no protocol that a model checker could say more about than a
  test: this is why the models stand for a small share of all lines, and for
  most of those that coordinate.

The remaining components, each with its reason, are in `PROJECT.json`.
