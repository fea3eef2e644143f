# A TLA+ model of the simulator core, its memory system and CPU, and the tracers

The repository holds three programs that feed each other: `gem5-ml-sim`, a fork
of the gem5 architecture simulator with a micro-op tracer; `perfvec`, which
turns traces into training data and learns from them, with an LLVM-based
basic-block tracer; and `llmulator_1010`, training scripts for language models
that predict hardware cost. The concurrent and stateful part, on which every
result of the others rests, is gem5: its event core (event queue, parallel
simulation loop, draining, checkpoints), and the models that run on it and
produce the traces. This project models the event core, the path of a memory
request through crossbar, bridge and memory, the MESI_Two_Level coherence
protocol, the rename and commit stages of the out-of-order CPU, and the two
tracers that run in several threads.

Paths below are relative to `src/gem5-ml-sim/src/` unless they start with
`src/`.

## Inventory

| Component | State | Operations | Interacts with | What is hard |
|---|---|---|---|---|
| `base/uncontended_mutex.hh` | atomic `flag`, mutex `m`, `cv` | `lock`, `unlock` | service lock and async queue of every event queue | two acquire and two release paths, lost wake-up |
| `base/barrier.hh` | `numLeft`, `generation`, `cv` | `wait` | global events, simulator threads | reuse while slow threads are still inside, wrap-around |
| `sim/eventq.{hh,cc}` | `head`, `nextBin`/`nextInBin`, flags, `_curTick`, `async_queue` | `schedule`, `deschedule`, `reschedule`, `squash`, `serviceOne`, `serviceEvents`, `handleAsyncInsertions` | every simulated object | pointer surgery on a two-level list, handlers that change the queue, deletion of managed events |
| `Event::serialize`/`unserialize` | `_when`, `_flags` in a checkpoint | `SERIALIZE_EVENT`, `UNSERIALIZE_EVENT` | event queue | an event pending across a restart |
| `sim/simulate.cc`, `sim/global_event.*`, `sim/sim_events.cc` | one thread per queue, barriers, `globalQMutex`, limit and quantum events | `simulate`, `doSimLoop`, `exitSimLoop*`, `schedStatEvent`, `BarrierEvent::process` | event queue, barrier, Python | total order of global events, skew between queues, restarts of the loop |
| `sim/drain.*`, `python/m5/simulate.py` | manager state and counter, state per object | `drain`, `tryDrain`, `signalDrainDone`, `resume`, `preCheckpointRestore` | simulation loop, every object | work handed to drained objects, objects created meanwhile |
| `cpu/uop_tracer.*` | counters, buffer, stream | `getInstRecord`, `writeRecord`, `append`, `flush`, exit callback | CPUs on several threads | counters ahead of the buffer, flush at the limit |
| `src/perfvec/block_trace/tracer/runtime` | sequence counter, file, mutex | the `__bbtrace_*` hooks, `log`, `flush_and_close` | threads of the traced program | lines of two writes, close during tracing |
| `mem/packet_queue.*`, `mem/xbar.cc`, `mem/noncoherent_xbar.cc`, `mem/bridge.cc`, `mem/simple_mem.cc` | transmit lists, layer state, retry lists, reservations | timing requests, responses, retries, send and release events | caches, CPUs | lost retries, full queues on both sides, order of responses |
| `mem/ruby/protocol/MESI_Two_Level-*.sm` | state, block, sharers and pending acks of a line in each controller | one handler per input port | sequencer, message buffers, memory | any message may overtake any other; replacements race with everything |
| `cpu/o3` rename, commit, reorder buffer | rename map, history, free list, skid buffer, entries | one tick per cycle | fetch, decode, IEW | signals that are cycles old, squashes that overtake each other |
| classic caches, snoop filter (`mem/cache`) | MSHRs, write buffers, directories | coherence transactions | ports | races of requests, snoops and write-backs |
| DRAM and NVM controllers, other CPUs, GPU, devices, ISAs | pipelines and timing | one step per cycle | ports, event queue | large state, arithmetic on 64-bit ticks |
| system calls, processes, futexes (`sim/`) | tables per process | emulated calls | CPUs | futex wait and wake |
| SystemC and SST bridges | second scheduler | kernel phases | event queue | only in special builds |
| `src/perfvec/DP`, `ML`, `CFG`, `DA` | files, tensors | dataset building, training | traces | sequential data processing |
| `src/llmulator_1010` | files, models | training, evaluation | external libraries | sequential scripts |

`PROJECT.json` lists them all with the reason for what is not modelled, and the
hazards at the line where each bites.

## Modules

| Module | Models | Lines of the code |
|---|---|---|
| `UncontendedMutex` | the lock, one action per atomic operation | `base/uncontended_mutex.hh` 49-118 |
| `Barrier` | the barrier, one action per critical section | `base/barrier.hh` 46-80 |
| `EventConstants` | events, their priorities and their order, shared by the next two | `sim/eventq.hh` 519-575 |
| `EventAgenda` | what an event queue promises: an ordered agenda (abstract specification) | `sim/eventq.hh` 756-884; `sim/eventq.cc` 90-262 |
| `EventQueue` | the two-level linked list, pointer by pointer | the same lines |
| `EventRestore` | checkpoint and restore of the events of one queue (extends `EventQueue`) | `sim/eventq.cc` 264-313 |
| `ParallelSim` | threads, queues, global events, quantum, `simulate()` | `sim/simulate.cc`, `sim/global_event.cc`, `sim/sim_events.cc` |
| `DrainManager` | the drain protocol and the Python loop that drives it | `sim/drain.*`, `python/m5/simulate.py` |
| `UopTracer` | the shared buffer of the micro-op tracer | `cpu/uop_tracer.cc` |
| `TraceLogger` | the runtime of the basic-block tracer | `trace_logger.cpp` |
| `PacketQueue` | a queue of timed packets with its send event | `mem/packet_queue.cc` |
| `XBarLayer` | a layer of a crossbar: one packet at a time, waiting lists | `mem/xbar.cc` 146-331 |
| `Bridge` | both queues of a bridge and its reservations | `mem/bridge.cc` 56-339 |
| `SimpleMemory` | a memory with fixed latency | `mem/simple_mem.cc` 53-249 |
| `MemPath` | the composition of the four under `NoncoherentXBar` | `mem/noncoherent_xbar.cc` 56-244 |
| `MesiMessages` | messages, and what a transition does | `MESI_Two_Level-msg.sm`, `mem/slicc/symbols/StateMachine.py` |
| `MesiL1`, `MesiL2`, `MesiDir` | the transition tables of the controllers, as functions of entry and message | `MESI_Two_Level-{L1cache,L2cache,dir}.sm` |
| `MesiTwoLevel` | the protocol: input ports, network, stalls and wake-ups, memory, DMA controller | the same and `MESI_Two_Level-dma.sm`, `mem/ruby/network/MessageBuffer.cc` |
| `O3Rename`, `O3Commit` | the stages, as functions of their state and the signals they read | `cpu/o3/rename.cc`; `cpu/o3/commit.cc`, `cpu/o3/rob.cc` |
| `O3Pipeline` | the composition: one step is `CPU::tick()` | `cpu/o3/cpu.cc`, and what `iew.cc`, `decode.cc`, `fetch.cc` tell the two |
| `SyncProofs` | theorems about `Barrier` and `UncontendedMutex` | |
| `EventAgendaProofs`, `UopTracerProofs`, `TraceLoggerProofs`, `DrainManagerProofs` | theorems about the module of that name | |
| `MesiEvents`, `MesiPermissions` | the abstract specification of the MESI protocol: its events, seen in the permissions only, and the protocol they make up with its invariant | |
| `MesiPermissionsProofs` | every event keeps that invariant | |
| `MesiOutcomes`, `MesiTwoLevelProofs` | what each transition results in; `MesiTwoLevel` implements `MesiPermissions` | |
| `MCEventQueue`, `MCEventRestore`, `MCParallelSim`, `MCMemPath`, `MCMesiTwoLevel`, `MCO3` | constants for TLC | |

How they fit together. `EventQueue` implements `EventAgenda` (`RefinesAgenda`,
with `agenda <- Walk(list)`: the events in the order in which `debugVerify()`
walks the list). `ParallelSim` therefore keeps each queue as an ordered agenda.
It takes each barrier as what `Barrier` guarantees: all threads arrive, one of
them is told TRUE, all leave. Its asynchronous queue is changed in single steps,
which is what the lock of `UncontendedMutex` guarantees. `MemPath`,
`MesiTwoLevel` and `O3Pipeline` run inside one event queue: an event is a step,
and what is scheduled for the same time may happen in any order.

### State and actions against the code

* **`UncontendedMutex`**: `flag` is the atomic, `m` the holder of the internal
  mutex. A thread's `at` names the statement it is about to run.
  `std::condition_variable::wait` is external: it releases `m`, may wake up
  without cause, and takes `m` again before it returns.
* **`Barrier`**: `numLeft` and `generation` are the members; `generation` is
  counted modulo `GenModulus`. `entered`, `left` and `serials` are history
  variables for the properties. `wait()` is one action up to the point where it
  sleeps, since it holds the mutex.
* **`EventAgenda`, `EventQueue`**: `Event` objects have a tick `when`, a fixed
  `Priority`, and the flags `Scheduled`, `Squashed`, `Managed` and
  `IsExitEvent`. `ServiceOne` is `serviceOne()` up to the call of `process()`;
  then `running` is set and the handler may call every operation;
  `ServiceReturn` is the rest of `serviceOne()`. `list` holds `head`, `nextBin`
  and `nextInBin`, with stale pointers left as the code leaves them. A managed
  event is of one of two kinds. Those in `Counted` count references as `PyEvent`
  does, and `refs` is what the queue holds of them; the others have the default
  `releaseImpl()`, which deletes an event that is not scheduled. A handler may
  call any operation on any event, on its own one too.
* **`EventRestore`**: `Checkpoint` saves ticks and flags and starts a new
  process with the same events; `UnserializeEvent` is the macro
  `UNSERIALIZE_EVENT`, in any order of the events.
* **`ParallelSim`**: `pc` says where the thread of each queue is (listed in the
  module). `schedule()` is two steps per target, `CallInsert` and `CallFlag`,
  because the flag is set after the hand-over. A global event is one local event
  per queue with the same name; `bar1`, `process`, `bar2` and `leave` are the
  parts of `BarrierEvent::process()`. `simulate` runs up to
  `runUntilLocalExit()`; `simulateReturn` is the end of it with
  `DescheduleDeleter`. Handlers schedule local events on their own queue, or on
  another one at least a quantum ahead, as `sim/eventq.hh` 64-69 requires.
* **`DrainManager`**: objects hold `work` that simulation completes or hands to
  another object. `signalDrainDone` is two steps, the object's state and the
  manager's counter. `py` is the position of the Python script.
* **`MemPath`**: two requestors reach a near memory directly and a far one over
  the bridge. An action is an event handler with everything it calls: the
  release of a layer, for instance, goes on through the retry, the resent
  packet, the answer of the peer and the new state of the layer. A requestor
  keeps a refused packet; called back, it sends that packet or, if it has been
  squashed meanwhile, none. Layer, memory and bridge delays are "some time
  later"; only the response queues keep ticks, because they are ordered by them.
* **`MesiTwoLevel`**: one line, whose block is reduced to whether it holds the
  last value written (`fresh`) and its dirty bit. Other lines are present as the
  cause of replacements. Messages are a set: the buffers that
  `configs/ruby/MESI_Two_Level.py` builds are not ordered. A message that is
  stalled carries a mark until the controller wakes it. A wake-up takes the marks
  off the messages that wait at the `in_port`s of lower rank than the one at work,
  as `wakeUpBuffers` does (`Rank`). An atomic read-modify-write is two accesses;
  between them `blocked` closes the two network ports of the L1 (`block_on` of
  the `in_port`s), and the processor makes no other access. An event without a
  transition sets `panic`, as the generated `doTransition` does. `setup` chooses
  what processors and devices ask for and which lines L2 replaces.
* **`O3Pipeline`**: a program is a sequence of instructions with a destination
  register and the kind `plain`, `before` (serialize before), `after`
  (serialize after) or `squashAfter`; an instruction is its sequence number.
  Fetch and decode may hand over any number of instructions that the signals
  allow, from the new path no earlier than the stages between need; IEW may
  end any instructions it holds, report one misprediction or memory-order
  violation of an instruction whose execution has started, and find faults. The
  end of `tick()` decides whether there is a next one: with no active stage and
  no write to a time buffer for `LongestLatency` cycles the CPU sleeps, and then
  a step needs something that calls `wakeCPU()`: instructions for a fetch that
  waited, the end of an execution or of the last write-back (`Awake`,
  `StageActive`, `quiet`). Time buffers are the variables `decoded`, `renamed`,
  `toCommit` and the records of signals: one cycle each, two from rename to IEW,
  the defaults of `BaseO3CPU.py`.
* **`UopTracer`, `TraceLogger`**: a record or an event is a number; the JSON
  text is left out.

## Runs

Each run is `tlc -config <cfg> <module>`; each finishes within three minutes.

Runs that pass:

| Run | Bounds | Distinct states | What it shows |
|---|---|---|---|
| `uncontended_mutex` | 3 threads, 4 spurious wake-ups | 2222 | `MutualExclusion`, `NoLostWakeup`; under fairness `Progress` |
| `barrier` | 4 threads, 4 rounds, generation modulo 2 | 797 | nobody leaves early, TRUE once per round, no sleeper left behind, every round completes |
| `event_queue` | 4 events (three of one priority, one before them; all managed, two that count references, one exit event), ticks 0..1, symmetry | 238460 | list and flags agree and the code never panics, references are taken and given back in pairs and no deleted event is in a list (`QueueHoldsItsEvents`), `RefinesAgenda` |
| `parallel_sim` | 2 queues, quantum 2, 3 local and 2 exit events, 2 calls of `simulate(4)` | 142676 | assertions, total order of global events, skew within a quantum, global events processed with all queues at one tick, `simulate()` returns |
| `drain_manager` | 4 objects, 6 units of work, 3 drains | 14715 | assertions and exact count, drained means empty, nobody left behind, a drain completes |
| `trace_logger` | 3 threads, 2 events each | 268011 | every event once and in a whole line, a thread's trace is a prefix of what it did |
| `uop_tracer` | 2 threads, 3 records each, buffer of 2 | 7428 | nothing lost and the exit message is true, program order |
| `mem_path` | one packet to the near memory, two to one address and a posted one over the bridge; bridge queues of 1 | 133440 | assertions, nobody waits for a retry that is not coming, no packet lost or duplicated, answers to one address in order; every blocked packet gets through and every accepted one is answered |
| `mesi_two_level` | 2 processors, 4 mixes of accesses, DMA and replacements, one of them atomic read-modify-writes on both sides | 91715 | no message without a transition, one writer, readable copies are current and nobody takes the line between the halves of a read-modify-write, DMA reads the current block, accesses complete |
| `o3_pipeline` | 3 programs of up to 5 instructions with up to 2 squashes from execution, 1 of 7 instructions without; 3 physical registers, reorder buffer of 4, sleep after 3 quiet cycles | 327822 | assertions, the capacities of reorder and skid buffer among them, every physical register in one place, history leads back to the committed map, serializing instructions run alone, commit without gaps, the pipeline drains although the CPU may go to sleep |

Runs that are violated, each a disagreement of the code with its own comment or
assertion:

| Run | Property | What happens |
|---|---|---|
| `event_restore` | `PendingEventsRestored` | `unserialize()` clears the flag that `checkpointReschedule()` tests |
| `mesi_llsc` | `OwnerAcksUnchanged` | load-linked gives a dirty block to an L1 in E; when L2 replaces the line, that L1 only acknowledges, L2 writes back its own old copy, and the store is lost |

`PROJECT.json` quotes the line each contradicts. `mesi_llsc` in full: c1 stores;
c2 takes the dirty block by load-linked, which L1 holds in `LLSC_E` and, after
the timeout, in `E`; L2 replaces the line; `transition(E, Inv, I)` ("don't send
data") sends an acknowledgement; L2 in `MT_I` takes it for "L1 never changed
Dirty data" and writes back what it had before the store.

More disagreements can be reproduced with other constants.

* `MCParallelSim`, specification `Spec`, `Global = {stat}`, `Exiting = {}`,
  `NumCycles <- MCCycles`, `MaxSims = 1`: `TotalOrder` is violated. A statistics
  event (priority 90) overtakes the quantum event (95) on one queue only.
* The same with `Global = {}`: `FlagMeansPending` is violated. The target
  services an event before its sender sets `Scheduled`.
* `MCParallelSim` with `NumCycles = {2}`: `TotalOrder` is violated. An exit event
  left from one `simulate()` and the limit event of the next fall on one tick,
  in different orders on the two queues.
* `MCParallelSim` with `Offset` 0 for an exit event, as `exitSimLoopNow()`
  schedules it: `AssertsHold` is violated. The tick is in the past of a queue
  that is ahead.
* `MCMesiTwoLevel` with `Setups <- DmaSetups`: `NoInvalidTransition` is violated.
  The acknowledgement of a clean line that L2 replaced reaches the directory in
  `M_DRD`, which has no transition for it; the generated code panics.
* `MCEventQueue` with the invariant `NoUseAfterFree`: violated. The handler of a
  managed event without reference counts schedules its own event and
  deschedules it again; `release()` deletes the event, and `serviceOne()` goes
  on with it when the handler returns.

### Why the bounds are enough

* Three threads contend for the mutex: one owner, one thread in the slow path,
  one newcomer on the fast path. Spurious wake-ups are bounded only to keep the
  state finite for liveness.
* Generation modulo 2 is the smallest counter that differs from its successor,
  so wrap-around happens every other round. The proof covers every modulus.
* Four events at two ticks, three of one priority: bins of three events, bins
  before and behind them, removal from the top, the middle and the bottom of a
  bin and of a bin in the middle of the list. The two events in the symmetry set
  have the same priority and flags. The proof of the agenda covers any number
  of events.
* With a quantum of 2 and delays of 0 and 1, events fall before, on and behind
  the quantum boundary. Two calls of `simulate()` cover a restart with events
  left in the asynchronous queues. The limit of `parallel_sim` is kept further
  from the restart than quantum and delay together, and no statistics event is
  created there; the constants listed above show what happens otherwise.
  `MaxCalls` bounds the schedule calls of all handlers together.
* `MaxWork` 2 lets an object be disturbed while it still has work of its own;
  three drains cover draining again after a resume.
* The memory path needs two requestors on one layer, a bridge that is full in
  both directions, and two packets to one address. Four packets and queues of
  one give all of it. An instance with five packets (3.5 million states) was
  checked once for the safety properties, without error.
* Two L1 caches are enough for an owner and a requestor and for a sharer that is
  invalidated. The setups keep DMA apart from the replacement of clean lines
  and load-linked apart from replacement in L2, because of the two disagreements
  above. Larger instances were checked once for safety without error: loads,
  stores and instruction fetches on both sides with all replacements (217013
  states); loads and stores on both sides with DMA and dirty replacements
  (1450214); load-linked on both sides without replacement in L2 (81211);
  and with three L1 caches, where a store waits for two acks, loads and stores
  without L2 replacements (2694331) and one cache that stores, two that load,
  with replacements (317853).
* The programs of `o3_pipeline` fill the reorder buffer, run out of physical
  registers, and use each kind of serializing instruction. The longest of them
  renames until the registers are used up while decode goes on for the cycles a
  block signal needs, which fills the skid buffer to its last place. With
  a squash width of 1 a squash lasts several cycles, and an older one can arrive
  meanwhile.
  `LongestLatency` is 3 where `BaseO3CPU.py` and `cpu.cc` give 10, so that the
  CPU sleeps earlier and more often than the real one; it is above the longest
  way of a signal, two cycles. `MaxBad` bounds the squashes for each
  program; with one squash in the longest program (520233 states) TLC finds no
  error either.

### Fairness

* Threads: weak fairness of the steps of a thread that is inside an operation.
  The operating system keeps running a thread that is not blocked. Starting an
  operation, spurious wake-ups, scheduling requests of handlers and calls from
  Python are never fair.
* `Barrier`: also the calls of `wait()`, since simulator threads come back to
  the barrier.
* `ParallelSim`: a handler returns and a barrier opens when everybody has
  arrived.
* `DrainManager`: an object completes its work while simulation runs, which
  `sim/drain.hh` demands of an object that answers `Draining`.
* `MemPath`: an event that is scheduled happens, and a requestor that refused a
  response asks for it again. New requests are not fair.
* `MesiTwoLevel`: every input port with a message is served, memory answers and
  the timer runs out (weak fairness). The request ports need strong fairness,
  because a request may be stalled and woken again and again; `MessageBuffer.cc`
  414-419 promises that stalled messages come before younger ones. DMA requests
  get no fairness: the directory recycles them, which promises no order.
  A processor that has read for a read-modify-write also writes (weak fairness).
* `O3Pipeline`: weak fairness of the cycles in which everything that IEW holds
  ends, traps and stores are done and decode hands over what it may. Such a
  cycle stands for execution that ends and fetch that delivers. It is stated by
  a bit that those cycles flip (`beat`) and the condition under which one is
  possible (`SmoothEnabled`), which TLC checks faster than `WF_vars`. A sleeping
  CPU that nothing wakes owes no cycle: that the pipeline drains is not assumed.

Deadlock checking is off where the bounds, or a script that has nothing left to
do, really end the behaviour. In `parallel_sim` a deadlock of threads on
different barriers would violate `TotalOrder` and `SimulateReturns`.

## Proofs

Checked by TLAPS, for every value of the constants that satisfies the named
assumptions.

* **`SyncProofs`**, the lock (any set of threads): `Exclusion` and
  `WakeupNotLost`. `MutualExclusion` is not inductive: the invariant adds that
  `flag` is positive while a thread owns the lock (`FlagShowsOwner`), that the
  program points under `m` belong to its holder (`OwnerOfM`), and that a thread
  about to sleep has left its mark in `flag` (`AboutToWait`).
* **`SyncProofs`**, the barrier (any finite non-empty set of threads, any generation
  modulus of at least 2, any number of rounds): `TypeCorrect`, `BarrierSafe`,
  `SerialThreadUnique`, `EverybodyNotified`. The invariant says that `numLeft`
  is the number of threads that have not entered the current round, that every
  thread is in the current round or one behind, and that comparing generations
  tells which. Two generations therefore never have to be told apart that are
  further apart than one, and wrap-around is harmless.
* **`EventAgendaProofs`** (any set of events, priorities and bound on ticks):
  `NeverInThePast`, `OnlyOnce`, `ServiceOrder`, `TimeMonotone`. The invariant is
  that the agenda is ordered and without repetition, that its first and hence
  every event is not in the past, and that no deleted event is scheduled.
  `TimeMonotone` excepts a `serviceEvents(w)` for a tick in the past, which the
  code does not refuse: its caller passes instruction counts. The lemmas on
  `PutAt` and `DropAt` say what insertion and removal do to a sequence;
  `PutAtOrdered` carries the order.

* **`UopTracerProofs`** (any finite set of threads, any buffer limit and number
  of records): `RecordsKept` (`NothingLost`) and `OrderKept` (`ProgramOrder`).
  The counters run ahead of the buffer by the threads that are inside
  `writeRecord()` (`Counted`), the buffer is below its limit whenever its mutex
  is free (`Bounded`), and what a thread has put out is older than the record it
  works on (`Older`): without the last, `ProgramOrder` says nothing about the
  next append.
* **`TraceLoggerProofs`** (any set of threads, any number of events): `EventsWrittenOnce`
  (`EachEventOnce`) and `PrefixKept` (`ThreadTraceIsPrefix`). The mutex is held
  between the two `write()` calls by one thread (`Locked`), the file ends inside
  a line only then (`Lines`), threads in `log()` hold different numbers
  (`Distinct`), and the event in hand is the last its thread made (`Made`).
* **`DrainManagerProofs`** (any finite set of objects, those created during
  simulation and during `resume()` included): `AssertionsNeverFire`
  (`AssertsHold`), `DrainedIsEmpty` (`DrainedMeansEmpty`) and `AllResumed`
  (`NobodyLeftBehind`). The core is `Counting`: while the simulation that
  `drain()` started runs, `_count` is the number of objects that still have to
  signal plus those between the two halves of `signalDrainDone()`, and the exit
  event is pending once exactly when it is zero. The other conjuncts tie the
  states of the objects and the work they hold to the manager's state.
* **`MesiTwoLevelProofs`** (any finite set of L1 caches, any accesses, DMA
  requests and victims): `FollowsPermissions`, the refinement of
  `MesiPermissions`; `Invariance`; and from it `WriterIsAlone` (`SingleWriter`).
* **`MesiPermissionsProofs`** (any set of caches that can be counted):
  `PermissionsKept` and `PermissionsExclusive`. See below.

### The MESI protocol and its abstract specification

`SingleWriter` speaks of the states of the L1 caches only, and says nothing of
the messages on which the next state depends. What the protocol promises is
stated one level up. `MesiPermissions` is a specification of its own over four
variables: the state of each L1 (`st`), the acknowledgements its TBE counts
(`due`), the part of the L2 line that tracks copies (`bank`), and the headers of
the messages between L1s and the L2 (`wire`). Blocks, stalls and wake-ups, the
directory, memory and DMA are not in it. A step is one event of `MesiEvents`, of
one L1 or of the L2, which takes at most one message and sends some. The
conjuncts of its invariant, `Safe`:

* who owns the line is on record at the L2, about to be recorded, or being asked
  to give it up (`Owned`, `Unblocks`); who shares it is on record, being
  invalidated or about to be recorded (`Shared`, `Directory`);
* a cache has one request or answer under way, in one place, that fits the state
  it waits in (`OneAnswer`, `Asking`, `WellFormed`);
* the L2 gives one cache at a time the turn to own the line, and is blocked
  meanwhile (`OneTurn`);
* the counts of acknowledgements, of a writer and of an eviction, are the number
  of caches that owe one (`Counts`, `L2Counts`, `Invalidations`), although the
  reply that carries the number may arrive after them;
* the three exchanges that race with requests: an owner serving a reader
  (`HandOver`), the eviction of an owned line (`OneRecall`), and a write back that
  another request overtakes (`WritingBack`).

The proof has three layers:

* `MesiPermissionsProofs` proves, event by event, that each keeps the invariant,
  and that what it sends was not under way already, which is why a set of
  messages loses nothing.
* `MesiOutcomes` proves that every transition function of `MesiL1`, `MesiL2` and
  `MesiDir` has one of a few results, for every entry and message of their types.
* `MesiTwoLevelProofs` reads the four variables off the controllers' state
  (`states`, `dues`, `bank`, `wire`) and proves of every action that it shows one
  event or none (`Shows`), given the few facts in `Known`: types, messages told
  apart by their headers, an owner and a writer on record. `Known` follows from
  the invariant `Inv`, which is `Safe` under this mapping together with the types,
  so `Inv` is inductive (`Invariance`) and every step of `MesiTwoLevel` maps to a
  step of `MesiPermissions` or a stutter (`FollowsPermissions`).

Finiteness of the caches enters once, in the initial state: `Countable` states
what the proofs use of `Cardinality`.

Before it was proved, TLC checked the invariant, together with the types, on
three instances without read-modify-writes: two caches with every other access
and no DMA (196047 states), two caches with every other access, DMA and every
victim (3261014), and three caches that load, fetch and store (4642171).

### Assumptions on constants

They are named in the modules that declare the constants, and TLC evaluates them
in the runs: threads and objects are finite sets (`ThreadAssumption`,
`ObjectAssumption`; the barrier needs at least one thread), bounds and limits are
natural numbers (`SizeAssumption`, `BoundAssumption`), the L1 caches are finitely
many and none has the name of another machine (`L1Assumption`), and a setup names
accesses, DMA requests and victims that exist (`SetupAssumption`).

### Only model-checked

The properties of `EventAgenda` are proved and have no run of their own; the run
`event_queue` connects them to the code through `RefinesAgenda`. That refinement
is only model-checked: what a walk over the pointers of `EventQueue` finds is
defined by recursion, and needs induction over data that the prover does not
offer. The other parts without a theorem, and why:

* `FlagsMatchLists` and `QueueHoldsItsEvents` of `EventQueue` speak of the same walk.
* `ParallelSim` and `O3Pipeline` are built from filters and folds over sequences,
  which are recursive too: `AssertsHold`, `WithinQuantum` and `ProcessedTogether`
  of the one, `AssertsHold`, `RegistersConserved`, `HistoryRestoresCommitted` and
  `SerializedAlone` of the other. `TotalOrder` moreover holds for the quantum and the
  calls of `MCParallelSim`, not for every value of the constants.
* `MemPath` chains the queues of four components in one step; its operators
  choose and remove elements of sequences of sequences.
* `NoInvalidTransition` and `CopiesAreCurrent` of `MesiTwoLevel` hold for the
  setups of the run and not for all of them: with load-linked accesses and L2
  replacements at once a block is lost (`mesi_llsc`), and with DMA and the
  replacement of clean lines the directory meets a message it has no transition
  for (`DmaSetups`). `WriterIsAlone` does cover these setups; a behaviour that
  panics ends there, as the simulator does.
* All liveness properties: fairness is out of the prover's reach.

## Not modelled

* Inside the modelled files: `ScopedMigration` and `ScopedRelease`, termination
  of the simulator threads, repeating exit events and periodic statistics,
  `async_exception`, destruction of drainable objects, `memWriteback`, deletion
  of `AutoDelete` global events, `write()` calls that fail, files that cannot be
  opened, the text of records.
* References that others than the queue hold of a `PyEvent`.
* Squashing an event that is not scheduled is left out: the callers test
  `scheduled()` first.
* Hazards that no property reaches, besides those `PROJECT.json` lists: the
  thread of queue 0 deletes an `AutoDelete` global event that others may still be
  leaving (`global_event.cc` 120; only `DebugBreakEvent` is one);
  `terminateThreads()` while threads are on their way to the barrier; an
  exception that makes `doSimLoop` of the main thread return while the others go
  on (`simulate.cc` 329); `drainResume()` creating objects while `resume()`
  iterates over the vector they are appended to (`drain.cc` 122): the model takes
  them to be behind the end of the running pass.
* Memory path: functional and atomic accesses, snoops and `CoherentXBar`,
  `drain()` of queues, layers and memory, a random memory latency, address
  ranges. A requestor that answers a retry with a packet for another port is left
  out; retries may then go back and forth without progress.
* MESI: prefetch states, writes of part of a line by DMA, the network and its
  virtual channels, the sequencer's tables, progress of DMA. Data that reaches
  the directory in a waiting state would stall the wrong port in the code; the
  model counts it as an invalid transition, and it does not happen.
* O3: other threads, limits of the issue and load/store queues, interrupts,
  squashes from the thread context, instructions that execute only at the head
  of the reorder buffer, several destinations, pinned registers, the scoreboard.
  `resumeUnblocking` of rename is never set in the code and is left out. Three
  things the code relies on without saying so were met on the way. `getInsts` of
  commit may drop instructions while the reorder buffer squashes only because
  IEW blocks rename meanwhile and the new path takes cycles to arrive. A
  serialize-after instruction that redirects fetch loses the mark for its
  successor; `SerializedAlone` is stated accordingly. A squash does not reset `serializeOnNextInst`, which only costs time.
* Everything marked `not_modelled` in `PROJECT.json`.

## Plan

In this order:

1. The rest of the loop: sequences of `simulate(n)` and `simulate()`, deletion
   of global events, thread termination, `async_exception`, repeating exit
   and statistics events, `ScopedMigration`; `ThreadBridge` between two queues of
   `ParallelSim`.
2. Classic caches: MSHR queue, write buffer and snoop filter over the ports of
   `MemPath`.
3. Small components with their own races: `FutexMap`, power domains, the reuse
   distance of `src/perfvec/DP` as a function against a reference definition.
4. Proofs: the freshness of copies in `MesiTwoLevel` for setups without
   load-linked accesses, on top of the invariant of `MesiPermissions`; then the
   skew bound of `ParallelSim`.
