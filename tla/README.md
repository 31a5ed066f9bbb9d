# TLA+ models of the GraphLab API

This directory models the concurrent core of the GraphLab C++ API under
`src/src/graphlab`: its schedulers, the simulated engine, the queued
reader/writer lock, the RPC layer's blocking queue, its
function-call dispatch and the send_to/recv_from rendezvous, and the DHT-based
LDA sampler of `src/demoapps/lda`. Each module models a component's state and its
operations. Two abstract modules state what a component promises (the reader/writer
lock's contract and the colored schedule), and the detailed modules are shown to
implement them by a refinement mapping. TLC checks them with the configurations (`*.cfg`) listed below.
`PROJECT.json` records the details in machine-readable form: components, runs,
mutants, the source lines behind every definition, findings and hazards.

## 1. The system and how its parts interact

| part | source | what it does |
|---|---|---|
| deferred_rw_lock | `parallel/deferred_rwlock.hpp` | A reader/writer lock with a FIFO request queue whose callers never park. An operation either grants a request or queues it. An unlock returns the chain of requests it granted. |
| colored_scheduler | `schedulers/colored_scheduler.hpp` | Sweeps the graph one color at a time. Each worker takes a stride of the current color's block. The workers synchronise on the shared atomics `color` and `waiting`. Because the color is a valid graph coloring, no two adjacent vertices are updated at the same time. |
| sampling_scheduler | `schedulers/sampling_scheduler.hpp` | Keeps per-vertex prioritised task sets and a multinomial over the vertices, weighted by top priority. A task-count terminator reports COMPLETE when no job is left. |
| sim_thread_engine | `engine/sim_thread_engine.hpp` | A single thread simulating `ncpus` workers. It draws a random cpuid and runs `run_next_task(cpuid)`, which applies the timeout, the termination functions and the task budget, and runs the update function. The update function can post new tasks through the scheduler. |
| blocking_queue | `util/blocking_queue.hpp` | A mutex-protected list with an `m_alive` flag and two condition variables. It serves as the RPC layer's `fcallqueue`. |
| distributed_control | `rpc/dc.cpp` | Owns one receiver and one sender per machine, the `fcallqueue` and `numhandlerthreads` handler threads. Receivers enqueue CALL frames. Handler threads dequeue them, run them and report `function_call_completed` to the receiver, which is what lifts a barrier sent by `comm_barrier`. The destructor tears all of this down. |
| ischeduler | `schedulers/ischeduler.hpp` | The interface every scheduler implements for the engine: `add_task` at any time, `get_next_task` returning NEWTASK with a task (or EMPTY), `completed_task` after the task ran. |
| dht_lda | `demoapps/lda/dht_lda.cpp` | One MPI process per machine runs a collapsed Gibbs sampler over its local tokens. The word-topic counts `n_wt` and topic counts `n_t` are `delta_dht` tables (spec 4.7, not in the sources): writes become pending deltas that are flushed to each key's owner by RPC; `full_barrier` ends the run. |
| dc_dist_object | `rpc/dc_dist_object.hpp` | Per-object RPC. `send_to`/`recv_from` is a matched rendezvous: the send is an ordinary CALL (`obj_block_and_wait_for_recv`) that stores the blob in the receiver's `recv_froms[source]` slot; `recv_from` waits for the slot, clears it and replies, which releases the sender blocked in `rt.wait()`. |

How the parts interact:
- The engine drives a scheduler: `get_next_task`, `add_task` (through the update callback) and `completed_task`.
- The RPC receivers feed the blocking queue, and the handler threads drain it.
- Section 4.5 of the spec describes the threaded engine. Its worker loop drives the colored scheduler in the `ColoredScheduler` module.

## 2. Modules and their correspondence to the code

| module | models | state | actions |
|---|---|---|---|
| `DeferredRWLock` | deferred_rwlock.hpp | The request queue, `reader_count` (wrapping at 2^16), `writer`, and each requester's view of its request. The history `ahead` supports the overtaking property. | `Writelock`, `Readlock`, `Wrunlock`, `Rdunlock`, each one atomic step under the lock's mutex. They use `InsertQueue`, `CompleteRdlock` and `CompleteWrlock` like the code does. |
| `ColoredScheduler` | colored_scheduler.hpp plus the worker loop of spec 4.5 | `color`, `waiting` and the per-cpu `cpu_index`, `cpu_color` and `cpu_waiting`. `pc` is each worker's place; `runs` is a history of updates per sweep. | `GetNextTask` is the thread-local part, up to `waiting.inc()`. The overrun path is split at each shared-atomic access into `IncWaiting`, `ResetWaiting` and `AdvanceColor`. `RunTask` and `WorkerEmpty` are the engine worker's steps. |
| `SamplingScheduler` | sampling_scheduler.hpp | `tasks` (vertex_task_set), `weights` (fast_multinomial), `jobs` (task_count_termination). These three helper classes are not in the sources and follow spec 4.4. | Operators used inside the engine's steps: `AddTask`, `PopTask`, `CompletedTask`, `TerminatorFinish`. |
| `SimThreadEngine` | sim_thread_engine.hpp with the sampling scheduler | `epc` (where start/run_next_task is), `cur`, `taskcount`, `task_counts`, both abort flags, the clock, `status`, and the history `executed`. | `PickCpu`, `Expire` (environment), `CheckAborts` (loop top), `GetNextTask`/`Sample`, `UpdatePosts` (callback), `UpdateReturns` (the rest of NEWTASK, including the `x = x++` choice), `Finish` (status), `Stopped`. Between runs: `AddTasksBetweenRuns` (add_task, add_tasks or add_task_to_all through the scheduler), the setters `SetTimeout`, `SetTaskBudget`, `AddTerminator`, `ClearTerminators`, `SetSharedDataManager`, and `Restart` (start() called again on the same engine, which resets only the two abort flags). The setters' values are variables (`taskbudget`, `timeout`, `term_functions`, `data_manager`). |
| `SimEngineColored` | sim_thread_engine.hpp with the colored scheduler | The engine state over `ColoredScheduler`. | `PickCpu`, `Expire`, `LoopTop`, `SchedulerStep` (one colored-scheduler step for `cur`), `EmptyStatus`, `NewTaskStatus`, `Stopped`. |
| `BlockingQueue` | blocking_queue.hpp | `m_queue`, `m_alive`, and wait sets for both condition variables. `bqpc` records whether a thread is inside `dequeue` or `wait_until_empty`. Also the result each thread's dequeue returned, and put/got histories. | One pass of each method under `m_mutex` is one step: `Enqueue`, `Dequeue`, `TryDequeue`, `WaitUntilEmpty`, `StopBlocking`, `Signal`, `SignalBlockingEmpty`. `signal()` removes one waiter from the wait set and `broadcast()` removes all. A woken thread runs its `while` test again. |
| `DistObject` | dc_dist_object.hpp over `RpcDispatch` | Per source: the slot (`hasdata`, `slotdata`), the replies sent, Main's position in its recv_from plan, and the history `received`. `SendTos` marks which calls are send_to calls. | `ExecCall` (exec_function_call; for a send_to, the store into the slot), `RecvFromTake` (lines 192-212), `RecvFromReply` (213-225). `SenderFree(s)` gates the receive steps: a sender's later frames arrive only after its send_to was answered. |
| `RWLockContract` | spec 4.1 (the lock's contract) | `held` (each requester's mode or none) and `waiting`, the ungranted requests in arrival order. | `Acquire(r, m)` and `Release(r)`; after each, the recursive `Admit` grants the longest compatible run at the head of the line. `DeferredRWLock` maps `req` to `held` and its queue to `waiting` (`Contract`). |
| `ColoredSweep` | spec 4.4 (the colored schedule's promise) | `turn` (the current color's turn), `active` (each worker's vertex or none) and `done` (the vertices of the turn already updated). | `Begin(w, v)` (a vertex of the current color that nobody has updated or is updating), `End(w)`, `NextTurn` (only when the block is swept and no update runs; at most `MaxIterations` passes). `ColoredScheduler` maps `color` to `turn`, `task` to `active` and the runs beyond the earlier passes to `done` (`Sweep`). |
| `DhtLda` | dht_lda.cpp over a spec-modelled delta_dht | Per process: `pc`, `iter`, `idx`, the topic assignments and `n_dt`. For the tables: the owner's value `val` of each counter, the pending deltas `pend`, and the flushed batches in flight `chan`. | `InitCounts` (line 222), `Gibbs` (one token of `run_gibbs`, the draw being any topic), `EndIteration`, `Flush`, `Deliver` (an owner's handler merges any batch of a channel), `FullBarrier`, `LeaveBarrier`. |
| `RpcDispatch` | dc.cpp (dispatch, handler loop, barrier, destructor) over `BlockingQueue` | The per-source inbox of frames, `pending_calls` and `barrier` (from spec 4.6), each handler's place and call, histories `executed`/`completed`, and the destructor's progress `dpc`/`deleted`. | `ReceiveCall` (deferred_function_call → enqueue), `ReceiveBarrier`, `HandlerDequeue`, `ExecFunctionCall`, `FunctionCallCompleted`. The destructor: `CommClose`, `DeleteReceivers`, `StopQueue`, `JoinHandlers`, `Destroyed`. |

The `MC*` modules fix small constant values for TLC: model values for threads,
and a concrete graph, coloring and frame stream.

## 3. Runs

| run | expect | what it shows |
|---|---|---|
| DeferredRWLock | pass | See below. |
| ColoredScheduler | pass | See below. |
| SimThreadEngine | pass | See below. |
| BlockingQueue | pass | See below. |
| RpcDispatch | pass | See below (the spec is `DOSpec` of `DistObject`). |
| SimEngineColored | violation | `TimeoutEndsRun`: after the timeout, start() never returns. See below. |
| SimEngineUpdateCount | violation | `UpdateCountExact`: `task_counts[cpuid] = task_counts[cpuid]++` can keep the old value; separately, start() never resets `task_counts`, so after a second start() `last_update_count()` counts every run, not the last one (iengine.hpp:155-163). |
| SimEngineTimeoutStatus | violation | `MaxTasksMeansOverBudget`: the extra `taskcount.inc()` in start() reports a timeout after exactly `budget` tasks as `EXEC_MAX_TASKS_EXCEEDED`. |
| BlockingQueueEmptyWait | violation | `EmptyHasNoSleepers`: two threads wait in `wait_until_empty`; the pop that empties the list signals once, and the other thread sleeps on an empty queue. |
| DhtLda | violation | `CountsMatchTopics`: a process that runs `n_t[t] = 0` after another has flushed its first deltas cancels them, so after `full_barrier` `n_t` no longer counts the topic assignments. |
| RpcFifo | violation | `PerSourceFifo`: two handler threads run two calls of one source in the opposite order (spec invariant 6 says FIFO). |
| RpcShutdown | violation | `NoUseAfterDelete`: the destructor deletes the receivers before it stops the queue and joins the handlers, so a handler calls `function_call_completed` on a deleted receiver. |

What the passing runs show:

- **DeferredRWLock** (3 requesters):
  - mutual exclusion;
  - no request stays queued while the lock is free;
  - no request is granted before one queued ahead of it;
  - every queued request is eventually granted;
  - the lock implements `RWLockContract` (`ImplementsContract`).
- **ColoredScheduler** (4 workers, as in spec scenario C, a 3-colored 5-cycle, 2 sweeps):
  - adjacent vertices are never updated concurrently;
  - each sweep updates every vertex exactly once;
  - every worker returns;
  - the scheduler implements `ColoredSweep` (`ImplementsSweep`), its liveness included: every pass ends.
- **SimThreadEngine** (2 cpus, 2 vertices, 2 functions, priorities up to 2, budget 2, timeout, termination functions):
  - the job count equals the pending tasks plus the running one;
  - every start() returns, including a second start() on the same engine, whose timer and taskcount carry over;
  - `EXEC_COMPLETED` is returned only with no task pending or after a termination function fired (`CompletedMeansDrained`). The second case is the code's behaviour at sim_thread_engine.hpp:308, which spec 4.5 would report as a status of its own.
- **BlockingQueue** (3 threads, 2 enqueues):
  - no lost wake-up;
  - dequeue fails only on a stopped queue;
  - stop_blocking releases every blocked thread.
- **RpcDispatch** (2 sources with the streams C1 C2 B C3 and C1 B C2, 2 handler threads; s1's call 2 and both calls of s2 are send_to calls; Main receives from s2, s1, s2):
  - a barrier separates calls: no call after a barrier starts before every call before it has completed;
  - no send_to blob is stored over one recv_from has not read;
  - every call completes, and every rendezvous returns with the blobs in the order sent.

**Refinement.** `ImplementsContract == Contract!Spec` and `ImplementsSweep == Sweep!Spec` are checked as PROPERTYs of the
DeferredRWLock and ColoredScheduler runs. `Contract` and `Sweep` are
`INSTANCE ... WITH` the abstract module, each abstract variable replaced by an
expression of the detailed state. Every detailed step must be a step of the
abstract specification or leave the mapped state unchanged. For the lock, this
says every fast path, every queued grant and every unlock hands out exactly the
compatible run at the head of the line. That covers spec scenario E: a writer's
unlock releases the queued readers behind it together. The contract's weak
fairness on `Release` must also follow from the holders' fairness. For the colored scheduler, it says that the slices, the
`waiting` counter and the last waiter's `color.inc()` together give a schedule
in which a color's turn ends only once its block is swept and idle, and that
under the workers' weak fairness each pass completes. The
mutant that only these properties catch: a `wrunlock` that grants only the
first queued reader. The ischeduler interface has no abstract module: the only
scheduler the engine is checked with is the sampling scheduler, and a contract
mapped from its own task sets would restate its `add_task`.

RpcFifo and RpcShutdown use the same MC module with `MCDispatchSpec`/`MCShutdownSpec`: the dispatch and shutdown steps alone, no recv_from running.

In the SimEngineColored run, cpu 1 spins on `EMPTY` once its colored-scheduler
worker is done. Only cpu 0 checks the timeout, and `EMPTY` matches no branch of
`run_next_task`'s loop.

Every property of a passing run has a mutant in `PROJECT.json`: a plausible bug
in the mapped code that TLC finds violating it. Examples:
- a reader that ignores a held write lock;
- `waiting.inc()` counted before the stride check;
- an `if` for the `while` in `dequeue`;
- an `enqueue` that does not signal;
- a receiver that dispatches past a barrier.

## 4. Bounds, and why they are enough

- **Threads.** Three threads (two for the RPC handlers) are the least that show:
  - two contenders plus a third that overtakes or is stranded;
  - two workers of one color plus one of the next;
  - a producer racing two consumers.
- **ColoredScheduler.** The 5-cycle needs three colors. With the 4 workers of spec scenario C, every color block (sizes 2, 2 and 1) is smaller than the number of cpus, so two or three workers overrun an empty slice at once (line 139) and race to be the last waiter. Two sweeps exercise the reset of `waiting` and the color wrap.
- **SimThreadEngine.**
  - `MaxAdds = 2` lets an update function post both a new task and a promotion of a pending one.
  - Budget 2 with priority 2 reaches the budget boundary, where `MaxTasksMeansOverBudget` and the status choice are decided.
  - `Timeout = 1` means "a timeout is set". The clock is the nondeterministic `Expire`.
- **RpcDispatch.**
  - Source s1 has two calls before its barrier, so two handlers can race inside one epoch.
  - Source s2 has one call on each side of its barrier.
  - This is enough for every ordering of completion against barrier.
  - Two send_to calls from s2 exercise the slot's reuse, the case an early release of the sender would break; s1's send_to sits before its barrier, so a rendezvous call is also held up by the barrier protocol.
- **DhtLda.** Two processes, one token each, of the same word, two topics and
  two iterations (`niters` defaults to 2). Each token then moves between topics
  at least once, so a process issues both increments and decrements. Each
  process owns one topic counter, so flushes go both to the process itself and
  to the other process. One token per process is enough for the race at line
  222: a process needs only its first pass flushed before the other process
  initialises.
- **16-bit counter.** The `reader_count` wrap at 2^16 is in the model, but 65536 readers are out of TLC's reach. The counter's width is a parameter of the increment: the mutant `Width2` (a one-bit counter, which wraps at the second reader) shows that `Exclusion` catches a wrap; at 16 bits it needs 65536 concurrent readers.
- **Restarts.** `MaxStarts = 2` in the SimThreadEngine and SimEngineUpdateCount runs: one restart is enough for state left over from the first run (taskcount, task_counts, the expired timer, the scheduler) to meet the second. The timeout-status run keeps one start.
- **Setters.** The SimThreadEngine run takes `Budgets = {2}` and `Timeouts = {1}`: the first run has a budget and a timeout, and `SetTaskBudget`/`SetTimeout` between runs re-set them. Which value is set matters less than the counter behind it: `taskcount` is never reset. The update-count run takes `Timeouts = {0}` and `Budgets = {0}`. The initial state has a data manager and, in the SimThreadEngine run, a termination function; `ClearTerminators` and `SetSharedDataManager` turn them off for the second run. Larger value sets (budgets {0, 2}, timeouts {0, 1}) take the run past several minutes; a run with no budget and no timeout is the update-count run's case.

## 5. Fairness

OS threads are scheduled by the kernel, so a thread that can step eventually does:
- **Threads that can step.** Every worker, handler and receiver step gets weak fairness, and so does the single engine thread.
- **Blocked threads.** A thread in a condition-variable wait set has no enabled step until it is signalled.
- **The environment.** The clock (`Expire`), the termination functions' verdict, the choice of which queue method an idle thread calls, and whether the program posts a task or calls start() again after a run get no fairness.
- **BlockingQueue.** Only the continuation of a `dequeue` or `wait_until_empty` already in progress is fair.
- **Destructor.** The destructor's steps get weak fairness in the shutdown spec only.
- **Contracts.** `RWLockContract` gives weak fairness to `Release`, that is, to holders letting go. This follows from the lock's fairness on `Wrunlock`/`Rdunlock`, because the mapped unlock is enabled exactly when the abstract `Release` is. `ColoredSweep` gives weak fairness to some idle worker beginning a pending vertex, to each `End` and to `NextTurn`: the colored scheduler's per-worker fairness must imply them, which `ImplementsSweep` checks.
- **DhtLda.** Its run checks safety only, and the module has no fairness.

## 6. Not modelled, and observations

**Not modelled:**
- **dc_dist_object counters.** `calls_sent`/`calls_received` (no property reads them), the generated `remote_call`/`remote_request` interfaces and the control-packet variants.
- **`init()` details.** The sockets, the options and the senders are left out.
- **Missing helpers.** The scope manager and the monitors are not in the sources. The delta DHT is not in the sources either; `DhtLda` models it from spec 4.7 (these definitions are marked `spec_modelled` in the map).
- **The colored scheduler's setup calls.** `add_task`, `add_tasks`, `add_task_to_all` and `set_options` only store the one update function and `max_iterations` before `start()`; the model takes them as the constants of a run. A second `start()` of the colored scheduler would reset the per-cpu vectors and `waiting` but not `color` or the `controlled_termination` terminator, whose code is not in the sources, so what a restarted sweep does cannot be translated.
- **iengine.hpp.** A pure interface with no code. Its comments (start, last_update_count, set_timeout, set_task_budget) are what `UpdateCountExact`, `MaxTasksMeansOverBudget` and `CompletedMeansDrained` state.
- **No state to model.** The MEX bindings, the option parsers, random and fs_util have no concurrent state.
- **The rest of the demo applications and tests.**
  - `pmf.cpp` is option handling and algorithm selection around numeric update functions, with no concurrency of its own.
  - `gl3_logistic_sgd_test.cpp` is double arithmetic. Its gradient step at line 122 assigns `weights[x[i]] = ...` where the gradient should be added. With a repeated feature index, only the gradient of the last occurrence is kept.
  - The sampler's conditional (`dht_lda.cpp` 139-152) is real arithmetic, out of TLC's reach. It is abstracted to "any topic".

**Observations that are not runs:**
- **A restarted engine's budget.** `taskcount` counts the updates of every budgeted run, and `start()` never resets it (sim_thread_engine.hpp:223, 255-277). So after a first run of 2 updates under a budget of 2, a second `start()` stops after one update and reports `EXEC_MAX_TASKS_EXCEEDED`. A TLC run of `MCSimThreadEngine` with the SimEngineTimeoutStatus constants, but `Timeouts = {0}` and `MaxStarts = 2`, finds `MaxTasksMeansOverBudget` violated this way, in a trace of 25 states. The SimEngineTimeoutStatus run keeps one start, to show the timeout path.
- **Task budget.** With a budget of N, N+1 updates run before the engine stops: `taskcount.inc() > taskbudget` is tested after the task has run (sim_thread_engine.hpp:223). The comment of `set_task_budget` (line 127) and iengine.hpp:191-195 call the budget the maximum number of tasks. In the SimThreadEngine model `executed <= taskbudget` is violated by exactly this trace; it is not a run of its own, and no passing property restates the `+ 1` the code allows.
- **Termination-function status.** A run stopped by a termination function with tasks pending returns `EXEC_COMPLETED` (sim_thread_engine.hpp:308). Spec 4.5 lists a separate status, which the sources have no value for; `CompletedMeansDrained` states this as the only way to a completed status with tasks pending.
- **Distributed objects used before every process constructed them.** `dht_lda.cpp` writes `n_t[t] = 0` right after constructing the tables (lines 219-222), with no barrier; `dc_dist_object.hpp` lines 15-19 require one. Object registration and dispatch by object id are not in the sources, so `DhtLda` starts with the tables constructed everywhere.
- **Scheduler restarted.** ischeduler.hpp:82-85 says `start()` is called once in the scheduler's lifetime; sim_thread_engine calls it on every engine `start()`. sampling_scheduler.hpp defines no `start()` at all (it is pure virtual in ischeduler), so the model's `Restart` leaves the scheduler's state as it is.
- **Negative counts in DhtLda.** The owner's handler threads may merge two batches of one process in reverse order. `val[k]` can then go transiently negative, and the sampler reads it (`dht_lda.cpp`:141). This is listed as a hazard; no run checks it.
- **`try_dequeue` after `stop_blocking`.** It returns `false` even when the list still has entries, while `dequeue` drains them. The method has no caller in the sources.
- **Capability test at dc.cpp:162.** `comm->capabilities() && dc_impl::COMM_STREAM` is a logical `&&` where a bit test was meant. It is a constant expression with no state to explore.

## 7. Plan for later sittings

The project is at 12 runs, so new work must share runs. One way is to compose a
new module into an existing MC module. Another is to replace a violation run
once its finding is recorded.

1. **Threaded engine with the sampling scheduler.** Run several workers concurrently. Cover the stale-sample hazard at sampling_scheduler.hpp:89, and a `JobsMatchTasks` that holds under interleaving.
2. **dc_dist_object counters and the sending side.** The `calls_sent`/`calls_received` counters, and two machines that both send and receive.
3. **DhtLda with a fixed initialisation.** A barrier after line 222 would make `CountsMatchTopics` pass and leave the reordered-flush hazard as the question. That needs a run of its own.
