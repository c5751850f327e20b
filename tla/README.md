# TLA+ models of svr_framework

This directory holds TLA+ models of the request lifecycle engine in `src/`, the
TLC configurations that check them, and `PROJECT.json`. `PROJECT.json` lists:

- every component and whether it is modelled;
- every run and mutant;
- the source lines each definition translates;
- the findings;
- the hazards the code is exposed to.

Run a check from this directory with `tlc -workers 2 -config <cfg> <MC module>`.

## 1. The system

The engine is **one thread**. A host program calls these entry points in a loop:

- `ServerCore::SvrTick`, which also updates the `Clock`;
- `ServerCore::SvrProc`;
- `SvrNtfQuit`, `SvrStopReady` and `SvrFinish` at shutdown.

The only code that runs on other threads is the lock-free queue used by producers
outside the engine. Everything else interleaves cooperatively: handler bodies,
reply callbacks, coroutines resumed by timers, and timer tasks that run inside a
drain.

| Part | Source | State | Operations | Interacts with |
|---|---|---|---|---|
| Server loop | `core/server_core.*` | `stop_`, flow-control options (`max_deal_pkg_num`), statistics | `SvrProc`: phase 0 drains the pending-call wheel and (if not stopping) the timed-event wheel; phase 1 `OnProc` and modules; phase 2 the scheduler and the channel (skipped when stopping without a scheduler); then `AdjustParam`. `SvrNtfQuit`, `SvrStopReady`, `CheckOption` | all parts |
| Timer wheel | `common/timeout_queue.*` | `std::set<Timer>` ordered by (expire, id), id→expire index, `base_id_` | `Add`, `Cancel`, `TimeOut(now)` (pop head, re-arm a periodic timer, run its task), `Exist`, `Clear` | pending-call table, timed events |
| Pending-call table | `core/context_controller.*`, `core/context.h`, `core/context_mgr.*` | `context_cache_` seq→ClientContext, a timer wheel, the current ServerContext | `Pending` (row + timer + callback-mode or coroutine suspension), `Awake`, `ProcTimeOut` | dispatcher, coroutine backend |
| RPC dispatcher | `pb/pb_service.*` | transports, method table, crash fingerprint in shm | `OnRecv`, `DealRequest`, `DealMethod`, `MethodFinish`, `Rpc`, `SendMessage`, `DealResponse`, `DealReqPkg`, six interceptor chains | channel, pending table, scheduler |
| Coroutine backend | `core/coro_mgr.h`, `core/interface/coroutine_interface.h` | injected | `Spawn`, `ThisCoro`, `Yield`, `Resume` | dispatcher, pending table |
| Timed events | `core/timeout_decorator.*` | own wheel, `timeout_event_` seq→callback | `AddEvent`, `DelEvent`, `DealEvent`, `EventFinish` | scheduler, loop phase 0 |
| Module registry | `core/system_mgr.*` | ≤ 50 slots, priority index | `AddSystem`, `RemoveSystem`, `SystemInit/Tick/Proc/Finish` | loop phase 1 |
| Containers | `containers/*` | shared-memory regions with header, slots and links | fixed pool `alloc`/`free`, hash pool, set/map, LRU `insert`/`active`/`disuse`, list, fixed and variable ring buffers, MPSC lock-free queue | back the engine's tables; used by the host |
| Interfaces | `core/interface/*`, `core/transport.*` | none here | channel `Loop`/`Send`, codec, routing, scheduler, service mesh | I/O |
| Support | `core/server_statistics.h`, `core/logger.h`, `common/utils.*`, `patterns/*`, `core/wait_group.h` | counters, logs | — | — |

### The hard behaviours

- **A reply racing its own timeout.** Duplicated replies and late replies also
  reach `Awake`, and only one of them may run the continuation.
- **Callback mode.** A handler that does not finish before it returns relies on
  three pieces of state:
  - the current-ServerContext pointer, which a new `ClientContext` captures;
  - `to_be_continue`;
  - `IsFinish`.
  A wrong combination Runs (replies to and deletes) a context that a pending call
  still points to.
- **Coroutine mode.** `Pending` yields, and the row's recycle closure resumes
  the coroutine. A coroutine must be resumed exactly once, by its row.
- **Timer tasks run inside the drain.** A task may cancel or add timers, itself
  included. Periodic timers catch up one period at a time.
- **Stopping.** Without a scheduler a stopped engine no longer reads its
  channel, so only timeouts retire pending calls.
- **Producers racing on the lock-free queue's tail**, and the consumer
  between them.
- **Shared-memory containers at their capacity**, with double free,
  wrap-around, regions of the wrong size and slots never written.
- **A crash between persisting a frame's fingerprint and clearing it**, and
  the redelivery after the restart.
- **Concurrent `WaitGroup::Done` calls** deciding who runs the callback.

## 2. Modules

| Module | Models (source) | Abstract spec it refines |
|---|---|---|
| `TimeoutQueue` | the timer wheel (`common/timeout_queue.*`): pure operators on a queue value plus its own spec | — |
| `RpcEngine` | pending-call table + dispatcher + the loop's phase order and stop, in both modes; uses `TimeoutQueue` through `INSTANCE` | — |
| `FlowControl` | `CheckOption`, `SvrProc`'s `remain_ms` and scheduler drain bound, `AdjustParam` | — |
| `TimeoutDecorator` | timed events (`core/timeout_decorator.*`) on the `TimeoutQueue` operators, with a scheduler FIFO | — |
| `CrashFingerprint` | `OnRecv`'s poisoned-frame guard (`pb/pb_service.cpp`) with crashes and restarts | — |
| `FreeLockQueue` | the lock-free MPSC queue (`containers/queue_lock_free.h`), one action per atomic access | `FifoQueue` |
| `FixedMemPool` | `containers/fixed_mem_pool.h` | `HandlePool` |
| `ProtectedMemPool` | `containers/protected_mem_pool.h`: the fenced pool over a file that outlives the process, its fresh start and its re-attach, composed with `FixedMemPool` | — |
| `HashMemPool` | `containers/hash_mem_pool.h`, composed with `FixedMemPool` | `KeyTable` |
| `MemSet` | `containers/inner/base_mem_set.h` (set and map) | `KeyTable` |
| `MemLRUSet` | `containers/inner/base_mem_lru_set.h`, composed with `MemSet` | `RecencyList` |
| `MemList` | `containers/inner/base_mem_list.h` | `HandleDeque` |
| `UnfixedRingBuf` | `containers/unfixed_ring_buf.h` | `RecordQueue` |
| `FixedRingBuf` | `containers/fixed_ring_buf.h` over `inner/ring_buf_data.h` | `OverwriteFifo` |
| `FixedVector` | `containers/fixed_vector.h` | `BoundedVector` |
| `CostBucket` | the latency histograms of `core/server_statistics.h` | — |
| `WaitGroup` | `core/wait_group.h`, threads calling `Done` concurrently | — |
| `SystemMgr` | the module registry (`core/system_mgr.*`, `core/generate_type_id.h`): registration, removal and the four lifecycle passes, hooks calling back into the registry | — |
| `MC_Core` | composite instance of `TimeoutDecorator` (three modes), `FlowControl`, `CrashFingerprint` and `WaitGroup` | — |
| `MC_Containers` | composite instance of the eight containers other than `MemLRUSet`, with their refinements, and of `SystemMgr` | — |
| `MC_RpcModes` | `RpcEngine` in callback mode and in coroutine mode | — |
| other `MC_*` | single-module instances: model values and small constant sets, for one run or for reproduction configurations | — |

Each container module has an abstract module beside it, which states what the
container promises (a set of handles, a key table, a FIFO, a deque, a bounded
sequence). The detailed module instantiates it with a refinement mapping
(`Abstract == INSTANCE ... WITH ...`), and the run checks `Abstract!Spec` as a
`PROPERTY`. The abstract modules are written from the headers' documented
behaviour and the spec; the detailed ones are translated line by line, with
one action per public call.

### TimeoutQueue

A queue value is a record `[queue, index, base]` mirroring the three members
of `TimeoutQueue`. Its operators translate the code:

| Operator | Code |
|---|---|
| `Added` | `Add` |
| `Cancel` / `Cancelled` / `CancelOk` | `Cancel` |
| `NewId` | `GenerateID` |
| `Before` | `Timer::operator<=>` |
| `Head` / `Due` / `Popped` | one iteration of the `TimeOut` loop, minus the task |

The module's own specification has a clock and a loop position (`phase`). It
keeps three history variables: `added`, `cancelled` and `fireCount`.

- `AddTimer` and `CancelTimer` are calls from outside a drain.
- `FireNext` pops the head, re-arms it and runs a task. The task does nothing,
  cancels any live timer, or adds a one-shot or periodic timer that may
  already be due.
- `BeginTimeOut` and `EndTimeOut` delimit `TimeOut(now)`.

### RpcEngine

`exec` says whose code runs on the engine thread: the loop, a handler body, or
a callback-mode user callback. Handler and callback bodies are user code, so
they are nondeterministic. A body may:

- set `ret_code` (`SetError`);
- call `Rpc` (`IssueRpc`);
- return (`HandlerReturn`, `CallbackReturn`).

The other variables:

| Variable | Code |
|---|---|
| `srv` | each request's ServerContext: alive or freed, `ret_code`, `to_be_continue`, number of replies |
| `calls` | each call's ClientContext: parent pointer, coroutine, heap or stack, timer id, how often it was Run, freed |
| `pend` | the keys of `context_cache_` |
| `wheel` | the pending table's `TimeoutQueue` |
| `cur` | `ContextMgr`'s current ServerContext |
| `co` | each request's coroutine state |
| `sent`, `wire` | requests the peer holds, and reply frames in flight |
| `stop` | `stop_` |

Each action translates a whole handler:

- `RecvRequest` is `DealRequest` + `DealMethod` up to the handler body,
  including the early-return drops and a failed `Spawn`.
- `Pending` and `Suspend` are `ContextController::Pending`.
- `IssueRpc` is `PBService::Rpc`: a call interceptor that consumes the call,
  or a send failure, returns before `Pending`, and `HeapClientContext`
  chooses between a heap and a stack context. `SendMessage` is the successful
  send: the frame goes to the peer, or a send interceptor consumes it. In
  that case `Rpc` still registers the pending call, and only its timer
  retires it. These states are the same as those of a call whose reply is
  lost (`LoseReply`), so the run's state count does not change.
- `HandlerReturn` is the tail of `DealMethod`: `IsFinish`, then Run, which is
  `MethodFinish` + delete (`Finished`).
- `CallbackReturn` is the rest of the callback-mode continuation plus the
  client recycle.
- `AwakeAndRun` is `Awake` followed by `Context::Run` of the client context.
- `DeliverReply` and `DeliverStaleReply` are `DealResponse` with the row found
  or missing.
- `FireNext` is one iteration of `ProcTimeOut` with the task from `Pending`.
- `Tick`, `BeginTimeOut`, `EndTimeOut` and `ChannelLoops` give the `SvrProc`
  phase order: after a clock update, timers drain before channel I/O.
- `NtfQuit` and `SvrStopReady` model shutdown.

The peer is the environment:

- `PeerReply` answers a held request with one of `PeerRetCodes`, and may never
  answer at all;
- `LoseReply` drops a frame;
- `DeliverReply` may leave the frame on the wire, so it is delivered again.

Undefined behaviour is not simulated past the point where it happens. When a
ClientContext has a null parent, the invariant `PendingOwnerAlive` is already
violated in the state that introduces it.

### FlowControl

`opt` is `option_`. After `SvrInit` only `max_deal_pkg_num` changes. `Init`
is any option that `CheckOption` accepts.

One `SvrProc` step combines three things:

- the time phase 0 took (`e0`), which gives `RemainMs`;
- what `LoopOnce(max_deal_pkg_num)` processed (`LoopOnceCounts`, where 0
  means "all cached");
- the time phase 2 took (`used`), from which `AdjustParam` computes the new
  limit.

The `uint32_t` fields keep their wrapping arithmetic (`U32`), narrowed to 4
bits. History counters `overRun` and `idleRun` count the consecutive procs
that were judged overloaded or idle.

### TimeoutDecorator

`wheel` is the decorator's own `TimeoutQueue` value, used through the wheel's
operators. `events` is `timeout_event_` (seq id → task), `queue` the
`EventInfo`s the scheduler holds, `seq` the `IDGenerator`. `runs` and
`cancelled` are history. `AddEvent` and `DelEvent` are user calls between
drains. `ProcTimeOutBegin`, `FireNext` and `ProcTimeOutEnd` are
`ProcTimeOut(now)`; `FireNext` runs the firing closure: a new seq id, the task
stored, then `OnRequest` (which may refuse, `SchedRejects`) or, without a
scheduler, an inline `DealEvent`. `LoopOnce` is the scheduler dealing its
oldest event. `DealEvent` is an operator returning the states it may leave,
with its three early returns; a task may cancel any live timer. The constants
`UseScheduler`, `UseCoroutine` and `SpawnFails` select the configuration.

### CrashFingerprint

The memory-mapped record `(gid, seq_id, cmd)` survives a crash; the channel
redelivers the frame whose handling crashed; the scheduler's queue is lost.
`Poison` frames crash the handler. Actions are `OnRecv`'s paths (decode
failure, drop, scheduler, direct), `DealReqPkg`, `Crash` and `Restart`.

Every start maps the record with `utils::GetMmapMem` (`common/utils.cpp`).
The constant `MapOutcomes` lists what that call may find:

- `"kept"`: the file is there, so `exist` is true and the record is left as
  it is.
- `"fresh"`: the file is gone, for example after `/dev/shm` was emptied.
  `EnsureDir` adds `O_CREAT`, the new file is empty, and `RegisterPkgMem`
  value-initialises the record.
- `"failed"`: `open`, `fstat`, `mmap` or `msync` failed. `shm_pkg_head_`
  stays null and only an error is logged.

The variable `mapped` holds `shm_pkg_head_ != nullptr`. While it is false,
`CheckPkgMem` lets every frame through, and `CheckPkgMem`'s write and
`ClearPkgMem` do nothing (`Recorded`, `Persist`, `ClearPkgMem`). The core run
restarts with `"kept"` only. `CrashFingerprintNoMap.cfg` allows all three
outcomes.

### FreeLockQueue

Every atomic access of `Push` and `Pop` is its own step: the tail load,
`IsFull`'s two loads, a weak CAS that may fail spuriously, the payload write,
the flag publish; on the consumer side `IsEmpty`, the flag load, the copy, the
flag clear and the head store. Memory is sequentially consistent.

### Memory pools, sets, lists and rings

Each region is a function from slot index to node, with its header fields as
variables. A slot the code never wrote holds arbitrary bytes (`Init`
enumerates them) wherever the code reads before writing. Each call is one
action, and its early returns and asserts are guards or fault disjuncts:

- `FixedMemPool`: the reclaim stack, the `raw_used` bump, the circular active
  list, and every early return of `free`, including `ptr_2_int`'s bounds and
  alignment checks.
- `ProtectedMemPool`: the pool's file outlives the process, and each start
  sets the per-node fences again with the pool's own `alloc` and `free`.
  `Init` is the fresh start: every node is allocated and fenced, then
  `clear()` (`Filled` is the link array this leaves). `Crash` ends a process
  that is serving (`Serve`, any pool call), between two whole calls: a crash
  inside one `alloc` or `free` is not modelled (section 6); `Restart`, `FillStep`, `Fence`
  and `DrainStep` are the re-attach: `temp_dels` takes every free node, the
  walk over the active list fences every node, and the temporaries are freed
  again. With `StartFaults`, an `mprotect` may fail (`init` returns false)
  and the process may die at any step of a start (`CrashStarting`); a fresh
  start can then leave the file with some nodes in use. The containers run
  has `StartFaults` on.
- `HashMemPool`: bucket chains over `FixedMemPool` nodes, with `init` over a
  region of any size.
- `MemSet` / `MemLRUSet`: slot chains per bucket, the free stack, the recency
  chain, and `disuse` with a callback that may refuse.
- `MemList`: node 0 is the ring's sentinel; `Erase` takes iterators into the
  list.
- `UnfixedRingBuf`: byte records with a length header and padding at the wrap.
- `FixedRingBuf`: `init` over a region of any size; a `% max_num` with
  `max_num = 0` sets `fault` and the process takes no further step.
- `FixedVector`: `data_` starts as arbitrary values; `std::copy` is
  `CopyDown`, and `erase_at_end`'s `memset` writes `Zero`.

### CostBucket and WaitGroup

`CostBucket` translates `std::lower_bound` as a `RECURSIVE` binary search and
`GetCostBucket` on top of it. The repository's unit tests pin the bucket of
every edge, so no run checks it; `CostBucketSpec.cfg` checks it against the
spec's rule (see "Further disagreements"). `SetCoroRunTime`, `SetQueueCost` and
`ClearStatistics` act on one command's two histograms; `calls` records the
durations.

`WaitGroup` splits `Done` into three steps per thread: `FetchSub`, the atomic
`fetch_sub` (wrapping modulo `Modulus`); `Check`, the test of the value it
returned; and `Callback`. Threads interleave at every step.

### SystemMgr

The engine is single-threaded, but the registry is re-entered: a hook
(`OnInit`, `OnTick`, `OnProc`, `OnFinish`) is user code that may call
`AddSystem` or `RemoveSystem` on the `ServerCore` it runs in. The module keeps
the registry's memory as the code has it:

- `present` is the set of ids whose `systems_` slot is set; `tid` and
  `base_id` are `GetID`'s function-local statics and counter, so an id is
  allocated on the first call naming the type, whether or not the call
  succeeds.
- `buf[p]`, `size[p]` and `gen[p]` are the heap buffer, size and number of
  reallocations of `sys_index_vec_[p]`. `PushBack` writes in place while there
  is room and otherwise copies into a buffer of twice the capacity;
  `EraseAll` is `std::erase` over all three vectors, which compacts the kept
  ids and leaves the old values in the cells past the new end.
- A pass (`BeginPass`, then `Iterate` and `NextVector`) is the reverse walk
  of the four lifecycle functions. Each range-for caches its begin, end and
  buffer when it starts (`walk`). `Iterate` reads the cell the iterator points
  at, even past the current size, and passes over an empty slot; reading
  through an iterator into a freed buffer sets `fault`. `HookAdd`,
  `HookRemove` and `InitFails` are hooks that call the registry or make
  `SystemInit` return false.
- `SetupAdd` and `SetupRemove` are registry calls made outside any pass:
  before `SvrInit`, or from `ServerCore`'s own `OnTick`, `OnProc` and
  `OnFinish`, which run before the pass over the systems starts
  (`OwnerPhases`).
- `start`, `visited` and `touched` are history: the index at the start of the
  pass, the hooks run, and the ids a hook added or removed.

`SystemTick` and `SystemProc` walk alike and are one pass kind (`"loop"`);
`SystemProc`'s per-system time share goes to user code and changes no
registry state, so it is not modelled.

## 3. Runs

### Composite instances

Three of the six passing runs check several components at once. `MC_Core`,
`MC_Containers` and `MC_RpcModes` give each component (or mode) its own
prefixed variables through `INSTANCE ... WITH`, and a variable chosen in
`Init` (`sel`, or `mode` for the RPC engine) picks the component a behaviour
exercises. Every other component stays in one of its initial states, so the
state space is the sum of the components' spaces, not their product. The
components share no state in the code, so nothing is lost by not
interleaving them.

- A property of one component holds trivially in the others' behaviours
  (its variables never move there), or is guarded by `sel = ...` where it is
  stated for one mode only, such as `NoOrphanEvent` with a scheduler that
  accepts every event.
- Fairness conditions are the components' own, each restricted to steps
  taken in its own part (`In(p) == sel = p /\ sel' = p`) and to steps that
  leave the other components unchanged.
- The two `TimeoutDecorator` modes with a scheduler and the inline mode, and
  the two `RpcEngine` modes, are instances of one module with different
  constants driving the same variables.
- A refinement of a container is restated in `MC_Containers` with
  `UNCHANGED <the container's variables>` as the first disjunct of the
  abstract next-state relation. A step that leaves the container alone leaves
  its abstract variables alone, so the formula is equivalent to
  `Abstract!Spec`, and TLC skips the abstract relation on other containers'
  steps.

| Run | Module, cfg | Expect | What it shows |
|---|---|---|---|
| `timer_wheel` | `TimeoutQueue`, `TimeoutQueue.cfg` | pass | The index and the set agree (`IndexMatchesQueue`), a cancelled id never fires again (`CancelledNeverFires`), and right after every drain each timer never cancelled has fired exactly as often as its schedule says, missed periods included, and a cancelled one at most that often (`DrainFiresExactlyDue`, spec §8). Every added timer fires (`EveryTimerFires`). |
| `rpc_engine` | `MC_RpcModes`, `RpcModes.cfg` | pass | In callback mode and in coroutine mode without callbacks, with handlers that keep at most one call outstanding per body and set no error while a call is pending: rows and timers are paired one to one (`PendingTimerPaired`, spec §3); in callback mode every pending call's parent is alive (`PendingOwnerAlive`); in coroutine mode a suspended coroutine is waited on by exactly one row (`CoroutineWaitsOnRow`) and every client context is freed (`ClientContextFreed`); no continuation or context is Run twice (`RunAtMostOnce`, spec §8); every request is replied to and freed (`RequestCompletes`), and a stop completes (`StopReadyEventually`). |
| `core` | `MC_Core`, `Core.cfg` | pass | Timed events: with an accepting scheduler each stored task is owed exactly one queued `EventInfo` (`NoOrphanEvent`); in all three modes a task `DelEvent` cancelled never runs again, even from an `EventInfo` already queued (`CancelledNeverRuns`); with a scheduler or inline every timer not cancelled runs (`EveryTimerRuns`). Flow control: `max_deal_pkg_num` stays in `[min_num, max_num]` (`DealWithinRange`) and lands on the floor or ceiling after enough consecutive overloaded or idle procs (`SustainedLoadConverges`). Crash fingerprint: no frame crashes the engine twice (`NoRepeatCrash`), a frame is dropped only for the crash it caused (`DropOnlyCrashed`), every healthy frame is handled unless the scheduler refused or lost it (`EveryHealthyHandled`). WaitGroup: the callback runs at most once and only after `count` Done calls (`CallbackOnce`), and always once they are made (`CallbackRuns`). |
| `containers` | `MC_Containers`, `Containers.cfg` | pass | Fixed pool: the pool is a set of handles under any `free` argument (`PoolRefinement`). Fenced pool: a start that returns true keeps in use every handle the process that died serving held, and `size()` is back to `saved_size`, whatever earlier starts failed or were cut short (`ReattachKeepsHandles`). Hash pool: the bucket chains hold exactly the allocated nodes (`ChainsMatchPool`) and the pool is a key table whose full pool refuses first (`HashRefinement`). Set: every used slot is on one chain or the free stack (`WellFormed`), a walk interleaved with inserts and `erase(it++)` sees every staying key once (`WalkVisitsAll`), and the set is a key table (`SetRefinement`). List: chain and free stack partition the slots (`ListWellFormed`), and the list is a bounded deque (`ListRefinement`). Fixed vector: a bounded sequence under every erase (`VectorRefinement`). Variable ring: no assert fails and nothing is read or written out of the buffer (`NoFault`), and it is a record FIFO (`RecordRingRefinement`). Fixed ring: a bounded FIFO whose over_write push drops the oldest value (`OverwriteRingRefinement`). Registry: while hooks add and remove systems of other priorities, every lifecycle pass runs each system no hook touched exactly once, in the order of the index at its start, and never reads through a freed buffer (`HooksFollowIndex`, spec §4.7). |
| `lockfree_queue` | `FreeLockQueue`, `FreeLockQueue.cfg` | pass | Two producers and the consumer interleaving at every atomic access of a 3-slot queue never share a slot (`NoSlotRace`), the queue implements a bounded FIFO (`FifoRefinement`), and every successfully pushed value is eventually popped (`PushedArePopped`). |
| `mem_lru_set` | `MC_MemLRUSet`, `MemLRUSet.cfg` | pass | Forced and unforced inserts, `active`, `erase` and `disuse` with refusing callbacks keep every live slot on the recency chain exactly once (`ChainExact`) and behave as the LRU list (`LRURefinement`). It has its own run because its symmetry over the keys does not hold in the containers' instance. |
| `rpc_parallel_calls` | `MC_RpcEngine`, `RpcEngineParallel.cfg` | violation | A second `Rpc` in the same callback-mode body captures a null parent (finding 1). |
| `rpc_error_with_pending_call` | `MC_RpcEngine`, `RpcEngineErrorPending.cfg` | violation | `IsFinish` is true when `ret_code` is set, so a context with a pending call is Run and deleted (finding 2). |
| `rpc_timeout_code_reply` | `MC_RpcEngine`, `RpcEngineTimeoutReply.cfg` | violation | A reply frame with ret `RPC_TIME_OUT` leaves its timer armed (finding 3). |
| `lockfree_queue_spurious_full` | `FreeLockQueue`, `FreeLockQueueSpuriousFull.cfg` | violation | Push can return `QueueFull` while the queue never held more than one value (finding 4). |
| `hash_pool_short_region` | `MC_HashMemPool`, `HashMemPoolShortRegion.cfg` | violation | `init` accepts a region one node shorter than `calc_mem_size`, and the second node lies past its end (finding 5). |
| `timed_events_rejected` | `TimeoutDecorator`, `TimeoutDecoratorRejected.cfg` | violation | A firing whose `OnRequest` is refused leaves its task in `timeout_event_` with no `EventInfo` that could erase it (finding 6). |

Every property of a passing run has a mutant in `PROJECT.json`. A mutant is a
plausible bug in a mapped definition, and TLC finds the property violated when
the mutant is in place:

- ordering timers by id only;
- `<` for `<=` in the drain condition;
- a re-arm that leaves the index stale;
- a cancel that only erases the index;
- `Awake` not cancelling the timer, or not erasing the row;
- `IsFinish` with `&&`;
- a suspension that does not mark `to_be_continue` or does not yield;
- a dropped timer task;
- the heap-allocation condition of a `ClientContext` negated;
- `AdjustParam` shrinking without the `min_num + dec_delta` check, or without
  the clamping branches;
- in the containers: a re-attach that frees all its temporaries but one, an
  unaligned pointer accepted by `PtrToInt`, an erase that does not unlink, a
  chain search that looks at the head only, an insert that does not pop the
  free stack, a walk that stays in its bucket, a full check made before the
  lookup, a `pop_front` that does not fix the new head's prev link, a search
  from the wrong end, an erase whose copy is one element short, a write or a
  pop that does not skip the padding at the end of the buffer, an overwrite
  push that does not drop the oldest value;
- in the lock-free queue: a publish of the new index, a missing flag, a
  full test without the wrap;
- in the LRU set: an erase that does not unlink, a disuse that ignores the
  callback;
- a restart that clears the fingerprint, a `ClearPkgMem` or persist that
  does nothing;
- `DealEvent` without its existence check, without the erase, or treating
  every timer as live;
- a lifecycle pass whose walk of the next priority keeps the previous
  vector's end;
- `WaitGroup::Done` testing a fresh load of the count, or the old value
  against 0.

### Findings

The violation runs show these disagreements between the code and its spec,
comments or interface contracts.

1. **Null parent on a second call** (`context_controller.cpp:146`,
   `context.h:90`). In callback mode, `Pending` clears the current
   ServerContext. The next `ClientContext` in the same body therefore gets a
   null `server_ctx`, and line 145 writes through it. The spec says the parent
   is captured at RPC issue.
2. **`IsFinish` uses `ret_code`** (`context.h:72`). A body that sets `ret_code`
   while a call is pending gets its context replied to and deleted. The later
   reply or timeout then uses the freed context. The spec (§4.4 step 9) defines
   `IsFinish` as "did not suspend".
3. **A reply frame's ret code decides whether `Awake` cancels the timer**
   (`context_controller.cpp:44`). A peer forwarding its own timeout replies with
   -3 (`RPC_TIME_OUT`). `Awake` then takes the timeout branch: it counts
   `rpc_time_out_num` for a call that got a reply and leaves the timer armed.
   When that timer fires, its `Awake` finds no row, logs a warning and returns
   (`context_controller.cpp:33-37`). So a stray firing happens, which the spec
   (§4.2) rules out: no timer can fire after `awake` returned non-null. TLC's
   trace ends at the reply, with the row gone and its timer still in the wheel.
4. **Spurious `QueueFull`** (`queue_lock_free.h:40`). `IsFull` loads the tail
   and the head separately. A tail from before another producer's push,
   compared with a head from after the consumer's pop, looks full although
   the queue held one value. Spec §8 (scenario 6) forbids it.
5. **Hash pool `init`'s size test is reversed** (`hash_mem_pool.h:74`). A
   region too small is accepted, and nodes are laid out past its end.
6. **Refused timed events leak** (`timeout_decorator.cpp:50`). The firing
   closure ignores `OnRequest`'s result, so a refused event's task stays in
   `timeout_event_` forever, and a one-shot timer is lost with no drop
   counted.

### Further disagreements

These are reproduced by configurations kept beside the runs. Each checks one
property, and TLC finds it violated. `PROJECT.json` lists each of them as a
hazard whose note names its configuration.

| cfg (module) | Property | Disagreement |
|---|---|---|
| `RpcEngineCoroCallback.cfg` (`MC_RpcEngine`) | `ClientContextFreed` | In coroutine mode an `Rpc` with a callback allocates a heap `PBClientContext`, and `Pending`'s yield branch replaces its recycle closure by `Resume`: the context leaks (`context_controller.cpp:123`; spec §4.5 step 9 frees it). |
| `FlowControlSchedulerZero.cfg` (`FlowControl`) | `SchedulerWithinBudget` | `CheckOption` admits `min_num = 0`, `AdjustParam` shrinks to it under overload, and `SvrProc` then calls `LoopOnce(0)`, which the scheduler interface defines as "no limit" (`server_core.cpp:193`; spec §4.3 drains up to `max_deal_pkg_num`). |
| `FlowControlDeltaWrap.cfg` (`FlowControl`) | `DealWithinRange` | `CheckOption` does not bound the deltas; `min_num + dec_delta` or `max_deal_pkg_num + inc_delta` wraps in 32 bits and the limit leaves `[min_num, max_num]` (`server_core.cpp:241`). |
| `CrashFingerprintZero.cfg` (`MC_CrashFingerprint`) | `DropOnlyCrashed` | The cleared record is `{0, 0, 0}` and `CheckPkgMem` does not check that the record is set, so a one-way frame with gid 0 and cmd 0 is dropped without a crash (`pb_service.cpp:66`; spec §6). |
| `CrashFingerprintNoMap.cfg` (`MC_CrashFingerprint`) | `NoRepeatCrash` | When `GetMmapMem` fails, `RegisterPkgMem` only logs an error and the guard is off for the whole process. A restart that finds no file starts from a cleared record. Either way the frame whose handling crashed the engine is handled again and crashes it a second time (`pb_service.cpp:48`, `utils.cpp:97-148`). Spec §6 describes the guard without this degraded mode. |
| `MemLRUSetInsertRecency.cfg` (`MC_MemLRUSet`) | `MostRecentAfterInsert` | Inserting a key already held leaves it where it is in the recency chain; spec §8 says it is the most recent after `insert` (`base_mem_lru_set.h:66`). |
| `FixedRingBufHeaderOnly.cfg` (`FixedRingBuf`) | `NoDivByZero` | `init` accepts a region with room for no element (`max_num = 0`); `empty()` is then false and `pop()` evaluates `(start + 1) % 0` (`ring_buf_data.h:151`). |
| `SystemMgrSamePrio.cfg` (`SystemMgr`) | `HooksFollowIndex` | A hook that calls `RemoveSystem` for a system of its own priority shifts the vector under the range-for: the next system's hook is skipped and the last one's runs twice from the stale cell past the end. One that calls `AddSystem` at its own priority can make `push_back` reallocate the buffer the iterator points into, and the next read is a use after free (`system_mgr.cpp:26`, `system_mgr.h:50,71`). Spec §4.7 promises registration order and says nothing of re-entry. |
| `ProtectedMemPoolStartFaults.cfg` (`ProtectedMemPool`) | `NoPhantomHandles` | A start that fails (an `mprotect` returning an error) or dies part-way leaves the nodes it allocated in use in the file. The next start over the file re-attaches them as live handles that no one holds, up to a pool with no free node (`protected_mem_pool.h:40,56`). The code has no way to tell them from the application's handles. |
| `CostBucketSpec.cfg` (`CostBucket`) | `BucketPerSpec` | `GetCostBucket` steps back from `lower_bound`, so a duration on an edge (50 ms) counts under the edge below (0). The tests expect this; the spec's design notes say the largest edge ≤ d (`server_statistics.h:128`). |

## 4. Bounds

Each passing run finishes in under three minutes on two workers.

| Run | Distinct states | Time |
|---|---|---|
| `timer_wheel` | about 300 000 | 58 s |
| `rpc_engine` | 82 468 | 34 s |
| `core` | 48 618 | 75 s |
| `containers` | 800 447 | 86 s |
| `lockfree_queue` | — | 46 s |
| `mem_lru_set` | — | 147 s |

- **`TimeoutQueue.cfg`**: 3 adds, a clock of 0..3, intervals {0, 2}.
  - A periodic timer added at 0 fires at 0 and 2, so catch-up over two periods
    happens within one drain.
  - Tasks can cancel themselves or another timer, and can add an already-due
    timer that fires in the same drain.
- **`MC_RpcModes`** (and `MC_RpcEngine`, for the violation configurations):
  2 requests, 2 calls, a 2 ms timeout, a clock of 0..3, replies with success
  or an application error (or success and -3 for finding 3).
  - A reply can race its timeout in the same millisecond.
  - A callback or a resumed coroutine can chain a second call.
  - Two requests can each hold a pending call.
  - One body can issue two calls, which is all that findings 1 and 2 need.
  - **Guard on `IssueRpc`**: calls are only issued while `now + timeout` is
    within the clock horizon, so every issued call's timer can fire. This is
    the named bound `MaxTime`.

`MC_Core` gives these bounds to its parts:

- **Flow control**: `uint32_t` narrowed to 4 bits, limits 1..3, deltas
  {1, 2}, judge range {0, 1} ms, frame limits {1, 3} ms, phase durations 0..4 ms,
  a scheduler backlog of 3, and run counters capped at 3.
  - A phase duration above `max_proc_ms` exercises the `min_on_proc_ms`
    floor.
  - Both adjustment branches and the neutral band are reached.
  - A run of 3 covers the largest distance `max_num - min_num` = 2 with a
    delta of 1.
  - The reproduction configurations of `FlowControl` add `min_num = 0`
    (limits 0..2), or deltas {1, 15}, where 15 is 2^4 − 1, the narrowed
    counterpart of `0xFFFFFFFF`.
- **Timed events**: a clock of 0..3, intervals {0, 2}, 2 adds, in three
  parts: an accepting scheduler, no scheduler (inline), and a scheduler that
  may refuse an event while a spawn may fail.
  - A periodic timer re-arms within the horizon.
  - A one-shot and a periodic timer can both sit in the scheduler while
    `DelEvent` runs.
  - `TimeoutDecoratorRejected.cfg` keeps the refusing scheduler alone for finding 6.
- **Crash fingerprint**: 6 frames of every kind (request, one-way,
  poisoned, response, undecodable), a scheduler of capacity 1, and 2 crashes.
- **Statistics**: durations are every edge, each edge ± 1, 0 and
  2^31 − 1 (past the last edge; TLC's integers stop at 2^31 − 1), with 2
  records between clears.
- **WaitGroup**: 3 threads and counts 0..3, so exact countdowns, a Done
  past zero and a count no Done reaches all occur. `Modulus` is 8 in place of
  2^32: only the wrap of 0 matters.

The other runs:

- **`FreeLockQueue.cfg`**: 2 producers with 2 pushes each, a 3-slot queue
  (2 usable), 2 tries. Both producers can contend for one slot while the
  consumer frees another, which is all that finding 4 and `NoSlotRace` need.
- **`MC_Containers`**: 2 or 3 slots, 2 or 3 buckets, 2 to 4 keys with hashes
  that collide. These are the smallest sizes at which a chain has a middle, a
  full container can still receive a held key, and a ring wraps.
  - `UnfixedRingBuf` uses a 7-byte buffer with 2-byte headers and record
    lengths {0, 1, 2, 5, 6}, so padding at the wrap and a record that fills
    the buffer both occur.
  - `FixedVector` has 3 slots with `INIT_SIZE = 1`.
  - `ProtectedMemPool` has 2 slots of 2 bytes and 3 starts over the file.
    The process can die holding handles, with a reclaim stack, or after a
    `clear()`. A start can fail or be cut short, and the next start
    re-attaches what it left. With 2 slots the fill loop can take one node
    from the reclaim stack and one from the `raw_used` bump. The reproduction
    configuration has the same bounds.
  - `FixedRingBuf` has 4-byte elements and regions of 32 (the header
    only), 40 and 44 bytes. After the header-only region's fault the
    behaviour only stutters, and the refinement is checked up to it;
    `FixedRingBufHeaderOnly.cfg` checks `NoDivByZero` there.
  - The hash pool's short region is in `HashMemPoolShortRegion.cfg`
    (finding 5).
- **Registry** (in `MC_Containers`): four system types and
  `kMaxSystemsNum = 3`, so the fourth type to be named gets an id past the
  array and is refused, and one priority can hold three ids, enough for a
  vector to be reallocated while a walk is on it. There are four registry
  calls in all, at set-up, between passes or from hooks, and one `SystemTick`/`SystemProc`
  pass between `SystemInit` and `SystemFinish`. Three ids are the fewest for
  which a removal at the walked priority is not hidden: with two, the stale
  cell past the end happens to hold the skipped id.
- **`MC_MemLRUSet`**: 3 slots in one bucket and 4 keys, so a full set evicts
  or refuses; symmetry over the keys.

## 5. Fairness

The host loop calls `SvrTick`/`SvrProc` forever, and real time advances, so:

- `Tick` is strongly fair. It is enabled only between `SvrProc` phases, so it
  is enabled infinitely often but not continuously.
- The drain steps are weakly fair.

Handler and callback bodies are assumed to return (weak fairness on
`HandlerReturn` and `CallbackReturn`), because the engine cannot complete a
request whose user code never returns.

Peers, the network and request arrival get no fairness at all. Liveness holds
because timers retire every call.


Other modules:

- `TimeoutDecorator`: the clock (`AdvanceClock`) and the scheduler's
  `LoopOnce` are strongly fair. Both are disabled while a drain runs, and
  `SvrProc` runs both phases on every tick. The drain steps are weakly fair.
- `FreeLockQueue`: every producer step and the consumer are weakly fair. A
  weak CAS's spurious failure gets no fairness, its success does.
- `CrashFingerprint`: the loop is weakly fair, and a supervisor restarts a
  crashed engine.
- `WaitGroup`: each thread that called `Done` runs it to the end (weak
  fairness per thread).
- In `MC_Core`, `MC_Containers` and `MC_RpcModes` each component's fairness
  conditions are restricted to steps in its own part (`In(p)`), and a
  liveness property of one part is stated as `sel = p => ...`: the other
  parts' behaviours stay in their initial state and are not required to make
  progress.
- The containers, `SystemMgr`, `FixedRingBuf` and `CostBucket` are
  sequential and have no liveness property: `SystemMgr`'s passes are driven
  by the server loop, and the model bounds them with `MaxPasses`. `FixedRingBuf` does not check deadlock,
  because a fault ends the process.

## 6. Not modelled, and why

These are left out for good:

- **The 64-bit timer-id and sequence-id wraps, and the 32-bit truncation of
  `ClientContext::timer_id`.** They need about 2^32 adds. They are listed as
  hazards.
- **`Pending`'s `blocking_fun` branch.** It is user code, and its semantics are
  not defined by the repository.
- **The user callback in coroutine mode.** It is taken as doing nothing beyond
  the reply interceptor.
- **Interceptor chains.** These are user predicates. A request interceptor
  makes the handler body empty, which the model already covers.
- **Codec, routing, channel and the service mesh.** They are interfaces; their
  effect is the frames in `sent` and `wire`.
- **The counters of `ServerStatisticsSt`** and the size maxima. Each is one
  `+=` or `max` with nothing to interleave.
- **The logger** (`core/logger.h`). It formats into a `thread_local` buffer
  and calls two injected `std::function`s. Each call is one step with no
  state kept between calls, so there is nothing to interleave or restart.
- **The object factories** (`patterns/obj_factory.h`) and `Singleton`.
  - A factory is a container of creators that is filled at start-up and then
    only read.
  - The engine uses only the map kind, for its codec factories. It refuses a
    duplicate key and returns null for an unknown one.
  - The array kind is used only by the tests, and it behaves differently: it
    overwrites a duplicate key. `Get` never returns null, so `Create` of an
    unregistered id below the largest one calls an empty `std::function`,
    and one above it fails an assert. This follows from reading the code;
    there is no sequence of calls that would need a model checker to find it.
- **`utils`' string, path and time helpers, and `GetFileFd`**, which has no
  caller in the engine. `EnsureDir` and `GetMmapMem` are modelled as the
  outcomes `RegisterPkgMem` sees (`CrashFingerprint`).
- **Iterators of the containers.** They are read-only walks, except
  `MemSet`'s, which the walk property covers.
- **The page protection itself** (`mprotect`) is an OS effect. The model keeps
  only whether it succeeds.
- **A crash inside one `alloc` or `free` of a pool** (between
  `++raw_used_num` and the relinking) needs a torn header. Only a crash
  between calls, or between the steps of a start, is modelled.
- **A crash inside a ring buffer's push or pop** (between two stores to the
  shared header) is listed as a hazard without a property.

## 7. Further work

What a later extension of this project would take up:

1. **Crash points inside shared-memory containers.** A restart with
   `init(check = true)` on a header torn between two stores.
2. **The interceptor chains and `DealResponse`'s cmd-mismatch branch** in
   `RpcEngine`.
3. **Larger bounds** for `RpcEngine` (3 requests) and `FreeLockQueue`
   (3 producers). With 3 producers and the liveness property, the
   `lockfree_queue` run did not finish within seven minutes; it would need
   a safety-only configuration of its own.
