# Schnauzer in TLA+

Schnauzer finds data races in C and C++ programs. An LLVM pass instruments the
program; a runtime library linked into it decides with a scheduler (SCS) which
thread may go on and logs what the threads do; an offline detector reads the
log and reports unordered conflicting accesses; scripts drive the runs and sum
up the reports. This directory models the whole way of a program (its
instrumentation, the scheduler, the hooks and their logs, fork and exit, the loader,
the detector and its report), checks it with TLC on small instances,
and proves every safety property that holds of them for all instances with TLAPS.

    tlc -config MCScs_all.cfg MCScs       # and the other runs below
    tlapm ScsProofs.tla
    tlapm LoggerProofs.tla
    tlapm ThreadLifeProofs.tla
    tlapm RaceAnalyzeProofs.tla
    tlapm SyncHooksProofs.tla
    tlapm CallCtxProofs.tla
    tlapm ForkLogProofs.tla
    tlapm SupportProofs.tla

Paths below are relative to `src/`.

## 1. Inventory

| Component | State | Operations | What makes it correct |
|---|---|---|---|
| SCS scheduler (`runtime/sched/ScsImpl.cpp`, `MoneyMngr.cpp`, `Supervisor.cpp`) | money of each thread, initial money, epoch, `__mutex`, `__cond`, `__running` | hooks before and after a sync operation and a function call, blocking, a supervisor thread that starts epochs, cleanup | no lost wakeup, money is updated under the mutex, nobody passes without paying, a blocked thread is released when the program is quiet, exit comes back |
| Hooks (`runtime/scs/ScScheduler.cpp`) | none of its own | one before and one after hook for every pthread and libc operation | calls the scheduler in balanced pairs, logs releases before and acquisitions after the operation |
| Event log (`runtime/core/Logger.cpp`) | `__events`, `__log_sz`, per-thread batch, options | log one event, a pair, a batch; save; reinit in a forked child; log of allocations | every slot below the size is written by its owner, timestamps follow program order, a saved trace has no holes |
| Global control (`runtime/core/Control.cpp`) | tick, started, finished, recursive lock | set and read | instrumentation only between start and finish |
| Race detector (`analyze/depgraph/RaceAnalyze.cpp`, `VarMetaData.cpp`, `VectorClock.cpp`) | vector clock per thread and sync variable, last reads and writes per variable, pairs found | one handler per class of events | reports real races only, misses no racy variable |
| Thread registry and life cycle (`runtime/core/Tid.cpp`, `Interface.cpp:126-202`) | thread ids, table pthread_t to id, alive table | create handshake, start stub, join, exit | an id belongs to one live thread; the creator learns the id of its child |
| Instrumentation interface (`runtime/core/Interface.cpp`) | started/finished gate | wrappers that call the hooks around libc and pthread functions | hooks are balanced or skipped together |
| Call context (`runtime/core/CallCtx.cpp`) | per-thread stack of call sites | push, pop, copy into an allocation record | pushes and pops match, a record tells the chain of its allocation |
| Trace loader, dependence graph (`analyze/depgraph/LoadTrace.cpp`, `BuildGraph.cpp`) | events in order and by thread, shared and sync addresses | load, expand array accesses, filter | the filter removes no racing access |
| Detection pass (`analyze/detect/`) | table of instruction pairs, thread summaries | collect, count, dump | every reported pair of events appears once, under its pair of instructions; what one thread counts as before another counts as after |
| Configuration (`common/Config.cpp`) | the parsed file, a singleton | load, check, get, choose the name of a trace | one configuration, published once; no trace overwrites another |
| Source database (`common/SrcInfoDB.cpp`, `DB.cpp`) | modules and instructions in a sqlite file | insert, update, find, in transactions | an id leads to the line of its instruction, with compilers in parallel |
| LLVM pass (`llvm/instrument/`) | module id, ids of instructions | collect, insert hooks, replace calls | ids are unique and known to the database |
| Scripts (`scripts/`) | trace, race and summary files; the money vectors | start the compiler; detect, sum up, clean; run all vectors | a summary tells the truth about its files; each program runs with its vector (not modelled but for the compiler's start) |
| Utilities, other passes, vendored code | | | see `PROJECT.json` |

How they interact: an instrumented instruction or a wrapped call enters
`Interface.cpp`, which increases the global tick, tests `need_instrument()`
(started, not finished, not the supervisor) and calls a hook of `ScScheduler`.
The hook calls `ScsImpl` (which may put the thread to sleep) and `Logger` (which
never blocks). The supervisor thread shares the money table, the epoch, the
mutex and the tick with the application's threads. At exit the flag `finished`
is set, the supervisor is joined and the log is saved by the exiting thread
while the others may still run. The detector meets the runtime in the trace file
only: events in slot order. The pass meets the runtime in the hooks it inserts and
the report in the ids it hands to them; the scripts meet the programs in files, in the
configuration and in a signal.

What is hard here is concurrency (three different disciplines: a mutex with a
condition variable, a lock-free log, and plain flags), order (a wakeup, a slot
taken long before it is written, a clock passed on before it is increased) and
the end of the program, which catches the other threads anywhere. Around the runtime
it is processes that share files: forked children, compilers at one database,
programs of one second. The `hazards` of `PROJECT.json` list
the places and the properties about them.

## 2. Modules

| Module | Models |
|---|---|
| `Scs.tla` | the scheduler, its hooks, the supervisor, the end of the program |
| `MCScs.tla` | instances for TLC |
| `ScsProofs.tla` | theorems about `Scs` |
| `EventLog.tla` | what the log promises: an append-only sequence of slots, each taken by one thread and written once (specification only) |
| `Logger.tla` | the log as it is coded; contains the refinement mapping to `EventLog` |
| `MCLogger.tla` | instances for TLC |
| `LoggerProofs.tla` | theorems about `Logger`, and that it implements `EventLog` |
| `ThreadLife.tla` | the registry of thread ids, the wrappers of pthread_create, pthread_join and pthread_exit, and the thread events they log |
| `MCThreadLife.tla` | instances for TLC |
| `ThreadLifeProofs.tla` | theorems about `ThreadLife` |
| `VectorClock.tla` | the clock operations |
| `HappensBefore.tla` | the happens-before relation of a trace, defined without clocks (the reference for the detector) |
| `RaceAnalyze.tla` | the detector, one action per class of events |
| `MCRaceAnalyze.tla` | instance for TLC of the detector and `DetectPass` together |
| `RaceAnalyzeProofs.tla` | theorems about `RaceAnalyze`, `DetectPass` and `LoadTrace` |
| `SyncHooks.tla` | the wrappers of mutexes, condition variables and rwlocks: the real operations and what is logged around them |
| `SyncHooksProofs.tla` | theorems about `SyncHooks` |
| `LibcHooks.tla` | the hooks of string and memory functions: the ranges they log and the bytes the functions touch |
| `CallCtx.tla` | the stack of call sites, the allocation wrappers and their log |
| `CallCtxProofs.tla` | theorems about `CallCtx` |
| `ForkLog.tla` | the log across fork, and the trace files of several processes |
| `ForkLogProofs.tla` | theorems about `ForkLog` |
| `LoadTrace.tla` | loader, filter, graph and main; extends `RaceAnalyze` and hands it the events that are left |
| `DetectPass.tla` | the table of instruction pairs and the thread summaries; extends `RaceAnalyze` and goes on where it ends |
| `SrcInfo.tla` | the pass, its module and instruction ids, the database, parallel compilers |
| `Config.tla` | the double-checked configuration |
| `SupportProofs.tla` | theorems about `Config`, `LibcHooks` and `SrcInfo` |
| `MCSyncHooks.tla` ... `MCConfig.tla` | instances for TLC, one module for each of these |

### Scs

`pc[t]` says where a thread is; `hook[t]` which hook it is in. A hook is the
action `CallHook` (the wrapper up to the hook), `Acquire`
(`pthread_mutex_lock(&__mutex)`), then `Block`, `BlockAgain` and `Acquire` as
long as it has no money (`blockCurrThread`), and `Pay` (the rest of the critical
section). `LeaveSync` is the critical section of `afterSyncOperation`. The
pthread operation itself is the place `"op"`, which a thread leaves with
`ReturnFromOp` or never. `Poll` is one turn of the supervisor's loop,
`SupAcquire` and `StartNewEpoch` are `supervise()` and `startNewEpoch()`, whose
writes all happen under the mutex and are one step. `SetFinished`,
`StopSupervisor` and `JoinSupervisor` are `_before_exit` and `Supervisor::stop`.

Two unbounded counters are kept as what the code does with them, compare for
equality: `moved` (the tick differs from the supervisor's `last_tick`; `CountTick` is the wrapper's
increment, which `pthread_mutex_destroy_wrapper` leaves out) and
`sameEpoch` (the threads whose `last_epoch` is still the epoch). Money is an
unsigned integer modulo `Modulus`. The hook after `pthread_mutex_unlock`
calls `beforeSyncOperation` as the code does (`ScScheduler.cpp:188`).

The variables `ration`, `spent` and `clean` are history: they record what a
thread was given, what it paid, and whether its marks are balanced; no action
reads them.

### Logger

`slots[t]` are the slots the present log call has taken, `batch[t]` the three
batch variables, `events` the array, `logSz` its counter. `Fetch` is
`fetchAddLogSize`, `FetchPair` its use for condition variables; an event is
copied in two steps (`BeginWrite`, `EndWrite`) because the array is plain
memory that the saving thread reads without a lock. A hook is `EnterHook`,
`StartBatch` where it opens a batch, then `Fetch`/`BeginWrite`/`EndWrite` for
each event and `EndBatch`; a `pthread_create` stays in `"creating"` with its
batch open until `AfterCreate`. `Exit` is `_before_exit`, `Segfault` the signal
handler; `FlushSlot` is one turn of the loop of `flush`, with both of its assertions: that
the slot's timestamp is its number, and `storeEvent`'s that it has the type of an event. Memory that
nobody has written reads as zero, so slot 0 passes the first unwritten and ends in the second. A failed assertion
sets `abort`, after which the process is gone. Accesses to the stack are not
logged: `LibcSizes` are the numbers of heap addresses a libc call may have.

### ThreadLife

`pc[t]` follows a thread from `"new"` to `"dead"`. `Register` is `getNewTid`
(one step, it holds the global lock throughout), `StorePack` the rest of the
start stub up to the routine. The creator goes through `BeginCreate` (up to the
hook, which opens a batch of one slot), `Spawn` or `SpawnFails`
(`pthread_create`, which returns or not a handle that nobody has any more) and
`AfterCreate` (out of the loop, and the slot filled). A join is `FindTid` and
`ReadTid` (`lookupTid` reads its table entry after it has released the lock),
`JoinReturns` and `AfterJoin`. `Return` unregisters, `Die` from `"run"` is
`pthread_exit_wrapper`, which does not. `Access` stands for every other event.

A handle is given again once its last owner is dead and joined, or dead and
detached; the registry keeps its entry. The application may join a thread as soon as
it has the handle: when `pthread_create_wrapper` has returned, or when the thread
itself runs and passes its handle on. Until they are created threads differ in nothing, so they
come in one order (`NextThread`). The application joins each thread at most once, joins no detached
thread (anything else is an error of the application), and
does not join the main thread; threads are detached at their creation only.
The test of `need_instrument` and the log call that follows are one
step: the flag `finished` is read by such tests only, so an exit between the two is an
exit after the log call. An id past the alive table is written out of bounds; the
model stops there (`abort = "range"`).

### RaceAnalyze

The events come from an arbitrary trace: `Next` appends any event a running
thread may log and handles it as the detector does. A thread runs from its
CREATE to its JOIN and ids are not reused (`Config.cpp:76-82` refuses
`REUSE_TID` while logging); `TraceTellsLives` of `ThreadLife` shows that the
runtime logs that order. Nothing else is assumed, not even that locks
exclude each other, so every trace the runtime can write is included. Clocks are functions
from threads to naturals; `threadVC` and `syncVC` are the tables of `VarMeta`,
`rset`, `wset` and `syncRel` the sets of recent operations. `past` and `clk`
are history.

### SyncHooks

A wrapper is `Enter` (the call), `Before` (the hook before it, with `BeforeEvents`),
the operation itself (`Lock`, `TrylockFails`, `Destroy`, `Unlock`, `WakeUp`,
`Signal`), `Gate` (`need_instrument` is asked again) and `After` (with
`AfterEvents`). `owner` is the state of the locks as pthread keeps it; `log` the
trace. `know`, `left` and `real` are history: what a thread comes after because
mutexes and condition variables ordered it, whatever was logged (the order
that only rwlocks make is not counted: nothing logs them). The
order of the log is `Precedes` of `HappensBefore`, which `RaceAnalyze` is shown to
compute: together the two say what the detector's races mean for the program.

### LibcHooks

One call at a time: `Hook` (ranges by `Logged`, which asks for the lengths of
`Measured`), `StoreByte` of another thread at any time, `Libc` (touches the bytes of
`Contract`, the C standard's text of each function) and `Return`. Strings are bytes
that are 0 or not. Accesses to the caller's stack are not logged, hence a heap and a
stack object. `HookReadsArguments` allows `strncmp` and `strncpy`, where the code
does read too far: a hazard that is stated, not repaired.

### CallCtx

`frames` is the thread's real stack of calls, `callStack` what the hooks keep.
`Call` and `Return` are the call hooks, `EnterWrapper`, `TakeSlot` and
`WriteRecord` an allocation wrapper (push, slot, record, pop), `Unwind` a longjmp
or an exception, which passes over the hooks behind the calls it leaves (`unwound` is history). `FlushSlot` is one turn of the flush, which nothing stops the other threads
from racing with. The static flag of a wrapper is set at its first call, before `Start` or after.

### ForkLog

Each process has its memory: `mem` (whose event a slot holds), `size`, `finished`.
`Fork` copies it, with one thread; `AfterFork` is `reinit`. `ChoosePath` is
`tracePath` (names are seconds), `Open` truncates the file, `Flush` is `flush` with its
check of the timestamps. `raced` marks processes that chose one name before
either had opened its file. TMPFS is off.

### LoadTrace and DetectPass

`LoadTrace` reads any file a run may leave (`ReadSync`, `ReadAccess`, `ReadThreadOp`;
a length of 0 ends in the assertion, `ReadEmptyAccess`), filters (`Filter`), builds
the lists (`Build`), counts the threads and hands `tot` event by event to the
actions of `RaceAnalyze`, which it extends (`Detect`, `Handle`); `stage` says how far the program is or how it
ended. `File` is the same detector read over the file instead of what is left of it. `DetectPass` extends `RaceAnalyze`: when the detector has
walked a trace (of at most `MaxReport` events) `AnalyzeDone` gives the events their instruction ids,
and races, sync pairs and events are handled in any order within each loop: the code's sets order
them by address.

### SrcInfo

One compiler for each file. `shared`, `reserved` and
`exclusive` are sqlite's file locks. A statement outside a transaction takes them one after the other
(`TakeShared`, `TakeReserved`, then EXCLUSIVE in the action of the statement) and gives them back in an action
of its own (`Open`, `FindModule`, `Written`), so that two compilers can stand in each other's way at the
creation of the tables (`CreateTable`) and at the insertion of a module (`InsertModule`). A connection learns
which tables there are when it is opened (`schema`); a `CREATE TABLE IF NOT EXISTS` of one that has come since
is prepared again. The rows of a file are one transaction: `Exists` takes SHARED, `InsertRow` RESERVED, `Commit` EXCLUSIVE.

A statement that finds a lock in its way ends
the compiler: `DB::exec` prints and calls exit (`Fail`), and the locks are held until the process is gone
(`Exit`), PENDING included when EXCLUSIVE was refused (`FailToWrite`). Meanwhile others may fail on them. Of compilers that start
together it can be that nobody gets through: one has written its rows, a second holds SHARED and is refused RESERVED, and before
the second is gone the first is refused EXCLUSIVE because of that SHARED. The build then stops, and is started again (`Start`).
What the properties say is that the database keeps whole texts (`RowsAreOfOneText`) and that an object that was
made has its lines there.

`HooksOf` says which hooks a kind of instruction gets.
Files are edited and compiled again; two files may have one module name.
`ShortTexts` says that every text has fewer instructions than there are ids below a module id.

### Config

`getConfig` line by line: `Call` (the first load), `Lock`, `Again` (the second), `Load`,
`Store`, `Ask` (the nested calls of `checkConfig`), `Check`, `Unlock`. A mutex that
its own thread asks for again would hang: `EverybodyReturns`.

## 3. Runs

| Run | Bounds | States (about) | Shows |
|---|---|---|---|
| `scs` | 2 threads, 2 operations each, money 1 and 2, random money 2 every 2nd epoch, fairness | 320 000 | mutual exclusion, the wakeup protocol (`WakeInv`: no lost wakeup, blocked threads are poor, released ones are not), the ration is kept; blocked threads are released, exit comes back |
| `logger_log` | 2 threads, 6 slots, 2 hooks each, libc calls with 1 or 3 heap addresses, logger on or off | 950 000 | ownership of holes, program order, exact batches, a quiet exit saves all, refinement of `EventLog` |
| `logger_exit` | the same | violation | the assertion in `flush` can fail |
| `life` | main and 3 threads, 3 handles, a table of 3 ids, accesses up to a log of 2 events, creations may fail, fairness | 840 000 | types, distinct ids, right lookups, the order of CREATE, events and JOIN; the creator comes back |
| `race_detect` | main and two threads, 1 sync variable, 1 variable, 6 events; reports of traces of 4 events with 2 instructions | 1 million | no false race, no racy variable missed, ticks lead, pairs of sync events; the report tells all races, summaries balance |
| `load` | 3 threads, 2 addresses, one of them also a mutex, lengths 0 to 2, clocks of 3 entries, 5 events | 2.5 million | the filter loses no race; a file without empty accesses, shared mutex addresses and too many threads comes to its report |
| `hooks` | 2 threads with short programs, a mutex, a condition variable, an rwlock, trylock, destroy, exit | 1.5 million | sections in the log are disjoint, its order is real, real order is logged |
| `libc_bytes` | 2 objects of 3 bytes, all functions, n up to 3 | 550 000 | exactly what the log misses and adds |
| `callctx_allocs` | 2 threads, a call site and an allocator's, depth 2, 3 allocations | 5 million | records tell chains, the flush tells all, pops match unless calls are unwound |
| `fork_traces` | 2 processes of 2 threads, 3 slots, 2 seconds | 400 000 | traces are own and kept |
| `src_builds` | 3 files, two of one name, 2 or 3 texts each | 715 000 | ids have their lines, operations are of a text of the file, the database holds whole texts, whoever is ended by a lock |
| `config_get` | 4 threads, all values of the options | 5 500 | one configuration, nobody hangs |

The type invariants of `Scs`, `Logger`, `RaceAnalyze`, `SyncHooks`, `CallCtx`, `ForkLog` and `Config`
are proved and are not checked in the runs again; `ThreadLife`'s is both.

Why the bounds are enough. *Scs*: threads interact through the mutex, the epoch
and their own slot of the money table only; with two of them one can sleep
while the other holds the mutex, ticks, exits or sleeps as well, and two
operations each exhaust a ration of one or two, so that threads block both at
their first and after a later hook; an epoch that resets a thread inside an
operation wraps its money around. *Logger*: six slots hold a batch of three and
a pair with a slot of the other thread between, and can be exhausted
(`abort = "full"`). The safety properties of both are also proved for any bounds, and so are those of all
the modules below, `SrcInfo`'s for texts that the ids have room for. *ThreadLife*: with
three created threads one can create, one join and one take over a handle at the
same time; the table has one entry less than there are threads, so that both
`"range"` and the reuse of an id happen. Two logged events suffice for an access of either
created thread before its CREATE. *RaceAnalyze*: six
events suffice for a CREATE, a release, an acquisition and a JOIN between two
accesses by different threads, and for a write that hides an earlier access. The operations the
detector tests only by class (`isSyncAcqEvent`, `isSyncRelEvent`) are
represented by one each; the two created threads are interchangeable and declared symmetric
(only invariants are checked in this run). *LoadTrace*: two addresses
are what an array that is partly shared, partly a mutex and partly read-only needs; five events
hold a CREATE, a release, an acquisition and two accesses; a third thread and
`MaxThread` 3 reach the limit of the clocks. *DetectPass*: four events hold a CREATE and two
races with the instructions in either order, or a pair of sync events. *SyncHooks*: the programs of the two threads meet at the mutex with every wrapper inside and
outside its section, and a further access or section follows after a wait. *LibcHooks*: three bytes
hold a string, its end and a byte behind it; one object
of a kind suffices because a call has two arguments. *CallCtx* and *ForkLog*: two threads take
slots in either order and are caught by the other's exit or fork; two seconds are the same second and
another one; an unwinding that hits a call with hooks happens once, after which nothing more is
claimed but `PopsMatch`. *SrcInfo*: three compilers are a holder of a lock, one that fails on it, and one that fails
on the locks of the failed; the first of them meet on a file without tables.
*Config*: four threads are the loader and three at each place before and after.

Deadlock is checked for `Scs`, which always has a step (the supervisor polls,
or the process has ended), and for `LibcHooks`, `CallCtx`, `ForkLog` and `SrcInfo`, which
step on or stutter once they are done. The others may stop: in `Logger`, `ThreadLife` and `RaceAnalyze` the
process is gone after an assertion, all threads are dead or wait in a join, or the trace is at
its bound; `LoadTrace` and `DetectPass` end with the detector; in `SyncHooks` the programs end, or a thread waits for a signal that nobody sends; in
`Config` a failed check aborts.

*Fairness* (`FairSpec` of `Scs`): a thread inside the scheduler keeps running; a
mutex that is free again and again is eventually granted (strong fairness of
`Acquire` and `SupAcquire`; the critical sections are short and the supervisor
sleeps between its rounds); the supervisor keeps polling. Nothing is assumed of the
application: operations may never return, threads may tick for ever or never
exit, and spurious wakeups are not promised. `BlockedReleased` therefore has
the premise that the ticks stop, which is the scheduler's own condition.
`FairSpec` of `ThreadLife` assumes only that threads in `getNewTid`, in the start stub and
at the end of the creator's loop keep running (weak fairness of `Register`,
`StorePack` and `AfterCreate`): none of them waits for the application, and the
global lock is held for bounded times.
`Fairness` of `Config` is weak fairness of each thread inside `getConfig`: the mutex is
free once its holder has gone on, and each thread asks once.

## 4. Proofs

The constants are constrained by the named assumptions of the modules, which TLC
evaluates in every run: the supervisor is no application thread; initial money
is positive and leaves room for the mark (`MoneyAssumption`; `setInitThreadMoney` replaces zero,
`randMoney` never returns it); the main thread is a thread.

`ScsProofs` (any number of threads, any amounts, any number of epochs):

- `TypeCorrect`: the type invariant is inductive, because `Wrap` and `Dec` stay
  below the modulus.
- `MutualExclusion`: `Exclusive` is inductive with the types.
- `WakeupProtocol`: `WakeInv` is inductive with those; and its three parts `NoWakeupLost`, `BlockedIsPoor`,
  `WokenIsRich`: the three hold only together. A sleeping thread has the
  present epoch; what has the present epoch and waits has no money; what waits
  with an older epoch was refilled. The last two need `Exclusive` at the steps
  that write money.
- `RationIsKept`: `spent <= ration` is not inductive. The invariant used
  (`RationAccount`) says for a thread with balanced marks that money plus what it spent is at most
  the ration, plus one mark exactly while it is inside an operation;
  `HookCorrect` says which hook a thread can be in at each place.

`LoggerProofs` (any number of threads, slots and hooks; assumed is that the two
marks of a slot without event, `Empty` and `Torn`, are no events):

- `TypeCorrect` and `BatchesAreUsedUp` rest on `CallInv`: for each place of a
  thread, the position in its open batch plus the events it has still to log
  make up the size of the batch (`Stage`), which lies below `__log_sz`
  (`BatchOK`). Only this shows that `endBatch` finds its batch used up.
- `StepEffect` then reduces every step to one of two effects on the log:
  `Takes` (a thread is given the next slots, perhaps none) and `Fills` (a thread
  fills the smallest slot it has). That the slots in a thread's hands are in
  order and come before the rest of its batch (`Ordered`) is what makes it the
  smallest, and what keeps a filled slot from being handed out again.
- `SlotsAreOwned` and `LogKeepsProgramOrder` follow from two invariants that
  either effect keeps: `OwnInv` (the slots in hand are disjoint, empty, and
  together with the filled ones everything below `__log_sz`) and `NumInv`
  (events bear used numbers and precede all slots their thread still has).
- `ImplementsLog`: `Takes` is `Reserve` of the abstract log or a stutter, `Fills`
  is `Fill`.
- `QuietExitIsComplete`: an exit that catches nobody leaves the logger `Quiet` for
  good, so nothing is in anybody's hands, every slot is full by `OwnInv`, and the
  file grows as a prefix of the log.

`ThreadLifeProofs` (any number of threads, handles and ids, logs of any length;
assumed are the named constants' types and `Config::checkConfig`: a logging program reuses no id).
The inductive invariant is `Inv`, in four parts that need each other:

- `NameInv`: who has an id. A running thread's entry in the alive table is set, which is
  what keeps its id from being handed out again; without reuse no id is handed
  out twice at all. `DistinctIds` follows.
- `TableInv`: a thread that is not gone has its handle to itself, and if it is named
  the table has its id at that handle. A thread whose handle the application knows is
  named, because it ran itself or its creator waited for it; so is then a thread that is joined. It cannot be
  gone before the join returns, as each is joined once. `LookupsAreRight` follows, and
  `TypeCorrect` needs it to know that a join has a target.
- `LogInv`: an open batch is an empty slot of its owner (`Batches`); what the log says of a
  thread comes after the batch its creator has open for it (`Births`); a JOIN is
  about a dead thread that nobody joins any more (`Joins`). `LivesInOrder` follows
  with the distinct ids of `NameInv`. The steps are of three kinds: those that
  leave the log alone (`LogKept`), append to it (`LogAppended`) or fill a slot.

`RaceAnalyzeProofs` (any number of threads and variables, traces of any length):

- `TypeCorrect`, `ClocksLead`.
- `NoFalseRace`: the invariant `ClockInv` says that clocks know only
  what happened (`KnownClocks`), that the clocks of two events are ordered
  whenever the events are (`ClockCondition`), that the remembered
  operations carry the clock and the place of their event (`Remembered`), and
  that a reported pair has concurrent clocks. The lemma `ClockNext` says that no
  clock ever shrinks.
- `ClocksAreExact`: the converse as well, a clock is below another only if its event
  comes before. It needs `TicksTell`: whoever (a thread, a sync variable, an
  event) knows a tick of another thread comes after all that thread did at that tick.
  The lemma `NextTells` says that a clock grows only by what the handled event tells, and
  `OwnTickLeads` that nobody else knows the tick at which it is handled.
- `NoRacyVarMissed`: a write makes the detector forget, so the invariant (`Covered`) is
  that a forgotten access comes before the remembered write, or a race on its
  variable has been reported already. An access that is unordered with a forgotten
  one is then unordered with the write (`PastIsTransitive`), and by `TicksTell` their clocks tell.
- `PairsAreNearest`: the releases remembered for a variable are exactly those after its
  last acquisition (`PendingReleases`).
- `PassImplementsDetector`: the detection pass, while it walks the trace and afterwards,
  takes no step on the detector's variables but the detector's own. All of the above hold
  in `DetectPass` by it.
- `AllRacesReported`: `TableInv` says that after each turn of the first loop the table holds
  the races handled so far, each under its pair of instructions in order (`KeyInOrder`), and
  that its operations are those of a race in it.
- `SummariesAddUp` (finitely many threads): every race and pair adds as much to the
  counters "before" of one thread as to the counters "after" of the other (`PairBalances`), so
  that the sums over all threads stay equal (`BalanceInv`),
  and no pair is counted twice (`CountsInv`: the counters are cardinalities of what the
  loops have been through). The sums over threads are folds; `SumsExist` shows what
  they compute for every finite set.
- `LoaderImplementsDetector`: the loader, whatever file it has read, takes no step on the
  detector's variables but the detector's own, so that what is proved of the detector holds behind the filter as well.
- `HistoryIsOrder`: the history `past` by which `RaceAnalyze` states its properties is the order
  that `HappensBefore` defines on the trace. A smallest position where the two differ would differ in an
  earlier one; `past` satisfies the equation of the closure, which has one solution.
- `FilterKeepsRaces`: two conflicting accesses of the file that nothing orders are still there after the
  filter, and the detector names their variable. `LoadInv` says what the notes of the
  loader tell of the file (`NotesTell`: an address is shared exactly if two threads access it,
  whoever came first), that what is left is the file without the accesses to other addresses
  (`FilterTells`), and that the detector has walked a prefix of it (`TraceTells`). The order of two
  events that are left is the order they had, because an access never stands between two others in it
  (`AccessIsNoRelay`, `PastsAgree`). The rest is `NoRacyVarMissed` and `HistoryIsOrder`.
- `CleanTracesPassHolds`: a file that is stopped on its way to the report has an empty access, `MAX_THREAD` threads
  or an address that is both of sync operations and shared data (`OnlyUncleanStop`).
  `MixedIsShared` says that an access to a mutex variable survives the filter exactly if two
  threads access the address and one writes; `ThreadsTell` that a thread with a list is one of the file.

`SyncHooksProofs` (any number of threads, mutexes and calls, any legal program):

- `SectionsDisjoint`. A thread whose section is open in the log need not own the mutex once the
  program has finished, because the wrapper then skips its hook. The invariant therefore says two
  things: as long as nobody has called exit, an open section belongs to the owner of its mutex
  (`OpenIsOwned`, a theorem of its own), for which `ClosedEarly` says that whoever is on
  the way out of a section has logged that; and a thread that
  passed the gate before and has yet to log its acquisition finds no section of another
  open (`AloneAfter`). `CallsOK`,
  `Places` and `Owned` say which operation a thread is in and what it holds there.
- `TypeCorrect`.
- `OrderIsReal`: who holds a mutex knows every release of it in the log, and if nobody does the
  next holder will (`ReleasesAreKnown`). So each direct step of the order that the log shows
  for mutexes is real (`DirectIsReal`), and so is its closure, because knowledge is closed (`KnowledgeIsClosed`). Only mutexes
  appear in it: a trylock that failed and a destroyed mutex are excluded by `MutexPrecedes`.
- `OrderIsLogged`: the converse for accesses. What a thread knows of, the log shows it to
  come after, or will once the thread has logged the acquisition that is due after its call
  (`ThreadsAreShown`); what the next holder of a mutex will know is
  before a logged release of it (`LeftIsShown`); and what a thread passes on it has logged a
  release for before (`ReleasesAreShown`). The last two end with the exit, after which hooks
  are skipped.
- Both speak of the transitive closure `Pasts`, a recursive function: `ClosureExists` and
  `ClosureUnique` show that it is the one function that satisfies its equation, on any log.

`CallCtxProofs` (any finite number of threads, sites and frames, stacks of any depth):

- `TypeCorrect`; its invariant `SlotsSuffice` says that the allocations that were counted
  and those on their way to it fit into the log. The bound is the model's: the code does not
  compare (`Logger.cpp:322`), which remains a hazard without a property.
- `PopsAreMatched`: as long as no call is unwound, a thread's stack is the chain of its
  calls with hooks, and in a wrapper the site of the allocation once more (`StackIsChain`). Hence
  every pop finds its own site.
- `RecordsTell`, `FlushTells`: a thread about to write has the chain of its allocation on its
  stack (`WritersKnow`), every slot counted is written or its writer is on the way
  (`SlotsAreTaken`, `SlotsAreWritten`), and a flushed line is the record or an empty one (`LinesAreRecords`).
- The chain is computed by a recursive function `Callers`: `CallersCollect` shows that it
  satisfies its equation, `CallersOfCall` and `CallersOfFront` what a call and a return do to it.

`ForkLogProofs` (any number of processes, threads, slots and seconds):

- `TypeCorrect`: what a process saves has no empty slot, also where it is written over
  another process's trace; this needs that whoever writes has an open file.
- `SavesItsOwn` rests on two invariants. `ForksAreAlone`: a forked process has one thread until
  its hook after fork is over, so nobody can call exit before `reinit`. `SlotsAreOwn`: from
  then on every slot in use has an event of the process, or a thread of it about to write
  one; a child of a process that had exited keeps its parent's slots, and saves nothing.
- `TracesStay`: a process that has a name shares it with one that is about to write only if
  both chose it before either had opened its file (`FilesInv`), because `tracePath` passes over a file that is there.

`SupportProofs` is about the three modules that stand alone.

`Config` (any number of threads and questions, any values of the options): the
inductive invariant `ConfigInv` says that whoever is in the critical section holds the mutex
(`Exclusive`) and what is known of the singleton at each place (`KnownInside`): that there is
none while one is made, that it is the thread's own from the store on. `CheckNeverBlocks`,
`OneConfigHolds` follows, and `ConfigTypeCorrect`.

`LibcHooks` (any objects, of any size, with any bytes): `HookCompares` takes the functions one by one and
says, of the memory a hook measures, how each range that the function must touch follows from a
logged one and which logged range is a write that the function need not make. What `strlen` returns is the least zero
(`StrLenTells`). The memory a call meets is the one its hook saw only if nobody has stored a byte in between, so
the invariant `LibcInv` keeps what the hook saw (`Hooked`) and what the function did of it (`Done`).
`MissedAreTerminatorsHolds`, `FalseWritesAreBoundsHolds` and `HookReadsArgumentsHolds` follow.

`SrcInfo` (any number of files, names, texts and editions):

- `HooksHaveLinesHolds` and `OpsAreOfOneTextHolds`: the ids in an object have in the
  database the line of their instruction. `RowsInv` follows a compiler through its transaction: it
  writes rows of its own module only (`OwnRows`), has written those of the instructions it has been
  through (`CollectedLines`), and after the commit all of them are in the table and stay there
  (`StoredLines`, for a file that shares its module name with no other). This needs that ids of different modules or instructions differ
  (`PackedIdsDiffer`), which is so only for instruction ids below the module's shift. Both theorems
  therefore assume `ShortTexts`, as does the next. The code does not see to that: it allows 45 bits
  for an instruction and shifts a module by 44 (`CollectSrcInfo.cpp:11-13`). TLC shows
  `HooksHaveLines` violated in the instance of `src_builds` once `Span` is 1, below the length of its texts.
- `RowsAreOfOneTextHolds`: a commit is the one step that changes the rows that others see, and it writes those of the whole
  text (`WholeText`); a compiler that is ended before leaves nothing. A later text of the same file writes over all
  rows it has ids in common with, and is whole itself.

The prover has no induction over data. Where a definition is recursive (`Pasts`, `Callers`, the
folds over threads and files) the proofs take the least number, or the smallest set, at which a claim
fails (`LeastNatural`, from the well-foundedness of the naturals) and show that it does not.

Only model-checked: liveness (`BlockedReleased`, `ExitCompletes`, `CreateReturns`,
`EverybodyReturns`), which is outside the prover's reach. Every other property of a passing
run is a theorem.

## 5. Findings

- `logger_exit`: `flush` asserts that slot `i` holds the event with timestamp
  `i` (`Logger.cpp:356`). A slot is taken before it is written and exit waits for nobody, so a
  thread preempted in between, or one inside `pthread_create` with its batch
  open, makes the program abort at exit with a truncated trace. TLC's trace stops at slot 1: slot 0
  would be caught by the assertion in `storeEvent` (`Event.cpp:6`) only, which is the second way to abort there.
  `QuietExitSavesAll` shows that nothing else can: if no other thread is inside
  a hook or a `pthread_create`, the trace is complete.

The following facts are no runs of their own. They are kept in the models, and the
passing properties are worded so that they say where the fact bites and that nothing else does.

- `CreateReturns`: `pthread_create_wrapper` waits for the new thread before it has
  looked at the result of `pthread_create` (`Interface.cpp:173-178`); when that failed, it waits
  for ever (`SpawnFails`).
- `Logger.cpp:147`: `if (!__logger_enable) return` is followed by
  `assert(!__sample)` without a semicolon between them, which makes the assertion the operand
  of the return: batches are opened while sampling, and a logger that is off aborts (`StartBatch`).
- `CleanTracesPass`: accesses to mutex variables are filtered from the lists that nobody
  reads (`BuildGraph.cpp:27`), not from the events that the detector reads, which stops at one (`RaceAnalyze.cpp:64`)
  if the address is shared data as well. Hooks log
  accesses of length 0 (an empty string, n = 0), and an assertion in `getLength`
  (`Event.h:134`) stops the detector at those. The property says of the other files that they are not stopped;
  it does not say that these must be.
- Of compilers that run in parallel it can happen that all are ended by each other's locks (`DB.cpp:105-109`, section 2).
- `PopsMatch`: a longjmp or an exception leaves sites on the call stack, and
  the next hook after an outer call aborts the program (`CallCtx.cpp:25`).
- `SavedEventsAreOwn`: `reinit` does not reset the timestamps in the slots
  (`Logger.cpp:113-116`), so a slot the child has taken and not written passes for the parent's event.
- `LoggedOrderIsReal`: a TRYLOCK that failed and a destroyed mutex are logged as acquisitions and
  order what is not ordered.
- `HookReadsArguments`: the hooks of `strncmp` and `strncpy` read arguments beyond n.
- Module ids of 20 bits, shifted by 44, reach the sign bit (`CollectSrcInfo.cpp:11`).
- Instruction ids may have a bit more than there is room for below the module id (`CollectSrcInfo.cpp:13`): a text
  of more than 2^44 instructions would write over the lines of another. `HooksHaveLines` is proved for shorter ones.
- Two facts about the scheduler are kept in the model and shape `RationKept`:
  the after hook of unlock adds a mark instead of taking one away, and an epoch
  that starts inside an operation erases its mark, so the subtraction wraps.
  After either, the thread is no longer limited by its money.

## 6. Not modelled

- Text: the formats of traces, reports and YAML, messages, stack traces, the
  building of IR. Where a text is a key or a name (module names, trace names) it is modelled by what it tells apart.
- Code that is not compiled or has no caller: `USE_REAL_CLOCK`, `COMPACT_EVENT`,
  `needResetMoney`, `HeatAnalyze`, `MtVector`, the edges of the dependence graph (hence
  `VerifyPass`), the rows of the database's function table.
- What sqlite does by itself: it gives up EXCLUSIVE in several steps, and a transaction whose pages do not fit into its cache
  takes EXCLUSIVE before its end. A compiler that is killed from outside: while it writes the file nothing could undo that, as the
  journal is in memory (`DB.cpp:43`).
- TMPFS in `ForkLog`, which assumes it off. With it the trace is opened under another directory
  than the one `tracePath` has looked in, and a name that is taken is never found.
- Undefined behaviour after which nothing can be said: a write past the alive
  table or the allocation table, exit called by two threads at once.
- `free_wrapper`, which does nothing in a program that logs, and `_before_main`,
  which runs before there are threads.
- The scheduler and the log in one state space. A hook calls `ScsImpl` and
  `Logger` one after the other; they share the flag `finished` and nothing else,
  `Scs` lets a thread be delayed anywhere and `Logger`, `SyncHooks` and `ForkLog` let it too,
  so that their behaviours together are among those of each alone.
- A forked child's scheduler: it has no supervisor, and nothing in the code
  handles that.
- The scripts: `LetsGO` and `Race.py` call the detector and sum up its files one after the other,
  `control.py` runs the program with sampled vectors, the others print. They are not part of the
  concurrent core; that an interrupted detector leaves a cut race file which counts as done
  (`Race.py:57`), and that the sampled list of moneys is one too short for the largest controlled
  thread (`control.py:242`), was seen in reading them.

## 7. What is left

A run of `SyncHooks` with three threads is beyond the time of a run; all its properties are proved for
any number. The liveness properties have no proof, and the parts of section 6 no model.
