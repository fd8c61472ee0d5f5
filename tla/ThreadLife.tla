----------------------------- MODULE ThreadLife -----------------------------
(***************************************************************************)
(* The life of the application's threads: the wrappers of pthread_create,  *)
(* pthread_join and pthread_exit (runtime/core/Interface.cpp), the         *)
(* registry of thread ids (runtime/core/Tid.cpp) and the thread events     *)
(* their hooks log.                                                        *)
(*                                                                         *)
(* A new thread names itself and tells its creator, which waits for it in  *)
(* a loop.  The system may use the handle (pthread_t) of a thread again    *)
(* when the thread is joined, or has ended and is detached, while the      *)
(* registry never forgets one.                                             *)
(***************************************************************************)
EXTENDS Integers, Sequences

CONSTANTS
  Threads,    \* the threads of the application, each lives once
  Main,       \* the thread that enters main
  NoThread,
  Handles,    \* the values of pthread_t
  MainHandle,
  NoTid,      \* UNDEFINED_TID
  MaxThread,  \* MAX_NR_THREAD, the size of __alive_thread_table
  Configs,    \* the values of REUSE_TID and of the logger's ENABLE
  MayFail,    \* whether pthread_create may fail
  MaxLog      \* bound: length of the log up to which accesses are made

ASSUME ThreadLifeAssumption ==
  /\ Main \in Threads /\ NoThread \notin Threads
  /\ MainHandle \in Handles
  /\ NoTid \notin Nat
  /\ MaxThread \in Nat \ {0}
  /\ Configs \subseteq [reuse : BOOLEAN, log : BOOLEAN]
  /\ \A c \in Configs : c.log => ~c.reuse  \* Config::checkConfig
  /\ MayFail \in BOOLEAN
  /\ MaxLog \in Nat

VARIABLES
  config,
  pc,         \* where a thread is, see Places
  handle,     \* the thread's pthread_self()
  detached,   \* created detached
  reaped,     \* threads that pthread_join has returned for
  shared,     \* threads whose handle the application may pass around
  joined,     \* threads the application has called pthread_join for
  myTid,      \* __my_tid
  tidCounter, \* __tid_counter
  idTable,    \* __pthread_id_table
  alive,      \* __alive_thread_table
  target,     \* the thread that a thread is creating or joining
  remote,     \* remote_tid of pthread_join_wrapper
  pack,       \* tid_ of the pack that a new thread was given
  started,    \* Control's __is_started
  finished,   \* Control's __is_finished
  log,        \* the slots of the event log, in order
  batch,      \* the slot of the thread's open batch, 0 if there is none
  abort       \* what stopped the program, or "no"

systemVars   == <<handle, detached, reaped, shared, joined>>
registryVars == <<myTid, tidCounter, idTable, alive>>
callVars     == <<target, remote, pack>>
logVars      == <<log, batch>>
controlVars  == <<started, finished>>
vars == <<config, pc, systemVars, registryVars, callVars, logVars,
          controlVars, abort>>

(***************************************************************************)
(* Places: not created ("new"); created and about to name itself ("born"), *)
(* named and about to tell the creator ("named"); in application code      *)
(* ("run"); about to call pthread_create ("spawn"), waiting for the new    *)
(* thread ("spin"); in pthread_join_wrapper with the handle found          *)
(* ("found"), with its id read ("joining"), after pthread_join ("joined"); *)
(* unregistered ("leaving") and gone ("dead").                             *)
(***************************************************************************)
Places == {"new", "born", "named", "run", "spawn", "spin",
           "found", "joining", "joined", "leaving", "dead"}

\* need_instrument(); the application's threads are no meta threads.
Instrumented == started /\ ~finished

ThreadEvent(op, t, obj) == [op |-> op, tid |-> myTid[t], obj |-> obj]

\* What an instrumented and logging thread appends to the log.
LogNext(on, e) == log' = IF on /\ config.log THEN Append(log, e) ELSE log

---------------------------------------------------------------------------
(* The registry.                                                           *)

Abandoned == {i \in 0..(tidCounter - 1) : i < MaxThread /\ ~alive[i]}

\* getNewTid takes the smallest id nobody has, if ids are reused, or a fresh
\* one.
Chosen(i) ==
  IF config.reuse /\ Abandoned # {}
  THEN i \in Abandoned /\ \A j \in Abandoned : i <= j
  ELSE i = tidCounter

\* Thread t takes id i.
TakeTid(t, i) ==
  /\ Chosen(i)
  /\ pc' = [pc EXCEPT ![t] = "named"]
  /\ myTid' = [myTid EXCEPT ![t] = i]
  /\ tidCounter' = IF i = tidCounter THEN tidCounter + 1 ELSE tidCounter
  /\ idTable' = [idTable EXCEPT ![handle[t]] = i]
  /\ UNCHANGED <<config, systemVars, callVars, logVars, controlVars>>

\* Mutant: the id is not marked as taken.
Register_NotAlive(t) ==
  /\ pc[t] = "born"
  /\ \E i \in 0..tidCounter :
       /\ TakeTid(t, i)
       /\ abort' = IF i < MaxThread THEN abort ELSE "range"
  /\ UNCHANGED alive

\* Mutant: nothing checks the id against the size of the table.
Register_NoLimit(t) ==
  /\ pc[t] = "born"
  /\ \E i \in 0..tidCounter :
       /\ TakeTid(t, i)
       /\ alive' = [alive EXCEPT ![i] = TRUE]
  /\ UNCHANGED abort

\* getNewTid, all of it under the global lock.  The id that exceeds the table
\* is written past its end and fails the assertion of getCurrTid.
Register(t) ==
  /\ pc[t] = "born"
  /\ \E i \in 0..tidCounter :
       /\ TakeTid(t, i)
       /\ IF i < MaxThread
            THEN alive' = [alive EXCEPT ![i] = TRUE] /\ UNCHANGED abort
            ELSE abort' = "range" /\ UNCHANGED alive

\* Mutant: the creator is not told.
StorePack_NoStore(t) ==
  /\ pc[t] = "named"
  /\ pc' = [pc EXCEPT ![t] = "run"]
  /\ shared' = shared \union {t}
  /\ UNCHANGED <<config, handle, detached, reaped, joined, registryVars,
                 callVars, logVars, controlVars, abort>>

\* new_thread_start_stub up to the routine, which may pass the handle on.
StorePack(t) ==
  /\ pc[t] = "named"
  /\ pc' = [pc EXCEPT ![t] = "run"]
  /\ pack' = [pack EXCEPT ![t] = myTid[t]]
  /\ shared' = shared \union {t}
  /\ UNCHANGED <<config, handle, detached, reaped, joined, registryVars,
                 target, remote, logVars, controlVars, abort>>

---------------------------------------------------------------------------
(* pthread_create.                                                         *)

\* The first creation starts the instrumentation.  beforePthreadCreate opens
\* a batch of one slot.
BeginCreate(t) ==
  /\ pc[t] = "run"
  /\ pc' = [pc EXCEPT ![t] = "spawn"]
  /\ started' = TRUE
  /\ LogNext(~finished, ThreadEvent("CREATE", t, NoTid))
  /\ batch' = [batch EXCEPT ![t] = IF log' # log THEN Len(log') ELSE @]
  /\ UNCHANGED <<config, systemVars, registryVars, callVars, finished, abort>>

Gone(t) == pc[t] = "dead" /\ (detached[t] \/ t \in reaped)
\* The system gives no two threads the same handle until one is gone.
Free(h) == \A t \in Threads : handle[t] = h => pc[t] = "new" \/ Gone(t)

\* The thread the next pthread_create brings to life.  The threads differ in
\* nothing before that, so they come in one order.
NextThread == CHOOSE c \in Threads : pc[c] = "new"

\* pthread_create succeeds: thread c exists, with handle h.
Spawn(t, c, h) ==
  /\ pc[t] = "spawn" /\ pc[c] = "new" /\ Free(h)
  /\ c = NextThread
  /\ pc' = [pc EXCEPT ![t] = "spin", ![c] = "born"]
  /\ handle' = [handle EXCEPT ![c] = h]
  /\ \E d \in BOOLEAN : detached' = [detached EXCEPT ![c] = d]
  /\ target' = [target EXCEPT ![t] = c]
  /\ UNCHANGED <<config, reaped, shared, joined, registryVars, remote, pack,
                 logVars, controlVars, abort>>

\* pthread_create fails; its result is not looked at before the loop.
SpawnFails(t) ==
  /\ MayFail
  /\ pc[t] = "spawn"
  /\ pc' = [pc EXCEPT ![t] = "spin"]
  /\ target' = [target EXCEPT ![t] = NoThread]
  /\ UNCHANGED <<config, systemVars, registryVars, remote, pack, logVars,
                 controlVars, abort>>

\* Mutant: the creator does not wait for the new thread.
AfterCreate_NoSpin(t) ==
  /\ pc[t] = "spin"
  /\ target[t] # NoThread
  /\ pc' = [pc EXCEPT ![t] = "run"]
  /\ shared' = shared \union {target[t]}
  /\ IF Instrumented /\ batch[t] # 0
       THEN /\ log' = [log EXCEPT ![batch[t]].obj = pack[target[t]]]
            /\ batch' = [batch EXCEPT ![t] = 0]
       ELSE UNCHANGED logVars
  /\ UNCHANGED <<config, handle, detached, reaped, joined, registryVars,
                 callVars, controlVars, abort>>

\* Mutant: the event takes a slot of its own and not the one of the batch.
AfterCreate_LateSlot(t) ==
  /\ pc[t] = "spin"
  /\ target[t] # NoThread /\ pack[target[t]] # NoTid
  /\ pc' = [pc EXCEPT ![t] = "run"]
  /\ shared' = shared \union {target[t]}
  /\ LogNext(Instrumented, ThreadEvent("CREATE", t, pack[target[t]]))
  /\ batch' = [batch EXCEPT ![t] = 0]
  /\ UNCHANGED <<config, handle, detached, reaped, joined, registryVars,
                 callVars, controlVars, abort>>

\* The creator leaves the loop.  afterPthreadCreate fills the slot, unless
\* the program has finished in the meantime.
AfterCreate(t) ==
  /\ pc[t] = "spin"
  /\ target[t] # NoThread /\ pack[target[t]] # NoTid
  /\ pc' = [pc EXCEPT ![t] = "run"]
  /\ shared' = shared \union {target[t]}
  /\ IF Instrumented /\ batch[t] # 0
       THEN /\ log' = [log EXCEPT ![batch[t]].obj = pack[target[t]]]
            /\ batch' = [batch EXCEPT ![t] = 0]
       ELSE UNCHANGED logVars
  /\ UNCHANGED <<config, handle, detached, reaped, joined, registryVars,
                 callVars, controlVars, abort>>

---------------------------------------------------------------------------
(* pthread_join.  The application joins a thread once, and only a thread   *)
(* whose handle it was given.                                              *)

\* lookupTid finds the entry of the handle under the lock ...
FindTid(t, c) ==
  /\ pc[t] = "run"
  /\ c \in shared \ (joined \union {t, Main}) /\ ~detached[c]
  /\ pc' = [pc EXCEPT ![t] = "found"]
  /\ target' = [target EXCEPT ![t] = c]
  /\ joined' = joined \union {c}
  /\ abort' = IF idTable[handle[c]] = NoTid THEN "lookup" ELSE abort
  /\ UNCHANGED <<config, handle, detached, reaped, shared, registryVars,
                 remote, pack, logVars, controlVars>>

\* ... and reads it when it has released the lock.
ReadTid(t) ==
  /\ pc[t] = "found"
  /\ pc' = [pc EXCEPT ![t] = "joining"]
  /\ remote' = [remote EXCEPT ![t] = idTable[handle[target[t]]]]
  /\ UNCHANGED <<config, systemVars, registryVars, target, pack, logVars,
                 controlVars, abort>>

\* pthread_join returns when the thread is gone.
JoinReturns(t) ==
  /\ pc[t] = "joining"
  /\ pc[target[t]] = "dead"
  /\ pc' = [pc EXCEPT ![t] = "joined"]
  /\ reaped' = reaped \union {target[t]}
  /\ UNCHANGED <<config, handle, detached, shared, joined, registryVars,
                 callVars, logVars, controlVars, abort>>

\* afterPthreadJoin.
AfterJoin(t) ==
  /\ pc[t] = "joined"
  /\ pc' = [pc EXCEPT ![t] = "run"]
  /\ LogNext(Instrumented, ThreadEvent("JOIN", t, remote[t]))
  /\ UNCHANGED <<config, systemVars, registryVars, callVars, batch,
                 controlVars, abort>>

---------------------------------------------------------------------------
(* The rest of a thread's life.                                            *)

\* Any other event a thread logs.
Access(t) ==
  /\ pc[t] = "run"
  /\ Instrumented /\ config.log /\ Len(log) < MaxLog
  /\ LogNext(TRUE, ThreadEvent("ACCESS", t, NoTid))
  /\ UNCHANGED <<config, pc, systemVars, registryVars, callVars, batch,
                 controlVars, abort>>

\* The routine returns to new_thread_start_stub, which unregisters the
\* thread.
Return(t) ==
  /\ pc[t] = "run" /\ t # Main
  /\ pc' = [pc EXCEPT ![t] = "leaving"]
  /\ alive' = [alive EXCEPT ![myTid[t]] = FALSE]
  /\ UNCHANGED <<config, systemVars, myTid, tidCounter, idTable, callVars,
                 logVars, controlVars, abort>>

\* The thread is gone, after the stub or by pthread_exit_wrapper, which does
\* not unregister it.
Die(t) ==
  /\ pc[t] \in {"leaving", "run"}
  /\ pc' = [pc EXCEPT ![t] = "dead"]
  /\ UNCHANGED <<config, systemVars, registryVars, callVars, logVars,
                 controlVars, abort>>

\* _before_exit sets the flag while the other threads go on.
Exit(t) ==
  /\ pc[t] = "run" /\ ~finished
  /\ finished' = TRUE
  /\ UNCHANGED <<config, pc, systemVars, registryVars, callVars, logVars,
                 started, abort>>

---------------------------------------------------------------------------
\* The state after _before_main: the main thread has registered itself.
Init ==
  /\ config \in Configs
  /\ pc = [t \in Threads |-> IF t = Main THEN "run" ELSE "new"]
  /\ handle = [t \in Threads |-> MainHandle]
  /\ detached = [t \in Threads |-> FALSE]
  /\ reaped = {} /\ shared = {Main} /\ joined = {}
  /\ myTid = [t \in Threads |-> IF t = Main THEN 0 ELSE NoTid]
  /\ tidCounter = 1
  /\ idTable = [h \in Handles |-> IF h = MainHandle THEN 0 ELSE NoTid]
  /\ alive = [i \in 0..(MaxThread - 1) |-> i = 0]
  /\ target = [t \in Threads |-> NoThread]
  /\ remote = [t \in Threads |-> NoTid]
  /\ pack = [t \in Threads |-> NoTid]
  /\ started = FALSE /\ finished = FALSE
  /\ log = <<>>
  /\ batch = [t \in Threads |-> 0]
  /\ abort = "no"

ThreadStep(t) ==
  \/ Register(t)
  \/ StorePack(t)
  \/ BeginCreate(t)
  \/ \E c \in Threads, h \in Handles : Spawn(t, c, h)
  \/ SpawnFails(t)
  \/ AfterCreate(t)
  \/ \E c \in Threads : FindTid(t, c)
  \/ ReadTid(t)
  \/ JoinReturns(t)
  \/ AfterJoin(t)
  \/ Access(t)
  \/ Return(t)
  \/ Die(t)
  \/ Exit(t)

Next == abort = "no" /\ \E t \in Threads : ThreadStep(t)

Spec == Init /\ [][Next]_vars

\* Threads inside the wrappers and the registry keep running; nothing is
\* assumed of the application.
FairSpec ==
  /\ Spec
  /\ \A t \in Threads :
       /\ WF_vars(abort = "no" /\ Register(t))
       /\ WF_vars(abort = "no" /\ StorePack(t))
       /\ WF_vars(abort = "no" /\ AfterCreate(t))

---------------------------------------------------------------------------
(* Properties.                                                             *)

Tids == 0..MaxThread
LogEvent == [op : {"CREATE", "JOIN", "ACCESS"}, tid : Tids,
             obj : Tids \union {NoTid}]

\* Every variable stays in its type, and the program does not go on with an
\* id that is out of range.
TypeOK ==
  /\ config \in Configs
  /\ pc \in [Threads -> Places]
  /\ handle \in [Threads -> Handles]
  /\ detached \in [Threads -> BOOLEAN]
  /\ reaped \subseteq Threads /\ shared \subseteq Threads
  /\ joined \subseteq Threads
  /\ myTid \in [Threads -> Tids \union {NoTid}]
  /\ tidCounter \in 1..(MaxThread + 1)
  /\ idTable \in [Handles -> Tids \union {NoTid}]
  /\ alive \in [0..(MaxThread - 1) -> BOOLEAN]
  /\ target \in [Threads -> Threads \union {NoThread}]
  /\ remote \in [Threads -> Tids \union {NoTid}]
  /\ pack \in [Threads -> Tids \union {NoTid}]
  /\ started \in BOOLEAN /\ finished \in BOOLEAN
  /\ log \in Seq(LogEvent)
  /\ batch \in [Threads -> Nat]
  /\ abort \in {"no", "range", "lookup"}
  /\ \A t \in Threads :
       abort = "no" /\ myTid[t] # NoTid => myTid[t] < MaxThread

Running(t) == pc[t] \notin {"new", "born", "leaving", "dead"}

\* No two running threads have the same id, although ids may be taken over
\* from threads that are still on their way out.
IdsAreDistinct ==
  \A t, u \in Threads : t # u /\ Running(t) /\ Running(u) => myTid[t] # myTid[u]

\* lookupTid never fails, and gives the id of the thread it is asked for even
\* when the handle has belonged to another thread before: the registry is
\* overwritten in time because the creator waits for the new thread.
LookupIsRight ==
  /\ abort # "lookup"
  /\ \A t \in Threads :
       pc[t] \in {"joining", "joined"} => remote[t] = myTid[target[t]]

\* The slots of the log tell the life of each thread as the race detector
\* reads it: one CREATE before everything the thread logs, one JOIN after.
TraceTellsLives ==
  \A i, j \in 1..Len(log) :
    /\ log[i].op = "CREATE" /\ log[i].obj # NoTid =>
         /\ log[j].tid = log[i].obj => i < j
         /\ log[j].op = "CREATE" /\ log[j].obj = log[i].obj => i = j
         /\ log[j].op = "JOIN" /\ log[j].obj = log[i].obj => i < j
    /\ log[i].op = "JOIN" =>
         /\ log[j].tid = log[i].obj => j < i
         /\ log[j].op = "JOIN" /\ log[j].obj = log[i].obj => i = j

\* "Spawn thread will register itself and write pack->tid_": the creator does
\* not wait for ever for a thread it has created (Interface.cpp:175-178).
\* When pthread_create has failed it does, and so do those that wait for it.
CreateReturns ==
  \A t \in Threads :
    pc[t] = "spin" /\ target[t] # NoThread ~> pc[t] # "spin" \/ abort # "no"

============================================================================
