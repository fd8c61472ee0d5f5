-------------------------------- MODULE Scs --------------------------------
(***************************************************************************)
(* The SCS scheduler of the runtime library: runtime/sched/ScsImpl.cpp,    *)
(* MoneyMngr.cpp and Supervisor.cpp, driven by the hooks of                *)
(* runtime/scs/ScScheduler.cpp and by the global tick of Control.cpp.      *)
(*                                                                         *)
(* Every thread owns some money.  A hook (before or after a pthread        *)
(* operation, or around a function call) costs one unit; a thread without  *)
(* money sleeps on a condition variable until the supervisor thread, which *)
(* polls the global tick, finds it unchanged and starts a new epoch that   *)
(* gives every thread its money back.  An operation in progress is marked  *)
(* by MaxMoney units added to the owner's money.                           *)
(*                                                                         *)
(* Two counters of the code are only ever compared for equality and are    *)
(* kept as the outcome of that comparison, which makes the model finite    *)
(* without bounding them:                                                  *)
(*   moved      = the tick differs from the supervisor's last_tick;        *)
(*   sameEpoch  = the threads whose last_epoch equals __epoch.             *)
(***************************************************************************)
EXTENDS Integers

CONSTANTS
  Threads,        \* the application threads (slots of the money table)
  Supervisor,     \* the supervisor thread
  NoOne,          \* the owner of __mutex when it is free
  MaxMoney,       \* MAX_MONEY, the mark of an operation in progress
  Modulus,        \* 2^64 in the code: money is an unsigned integer
  InitMoney,      \* the initial values of __init_thread_money
  RandMoney,      \* the values randMoney() may return
  RandomMoney,    \* RANDOM_MONEY of the configuration
  ResetInterval,  \* RESET_INTERVAL (0 in the file is read as INT_MAX)
  SyncOnly,       \* SYNC_ONLY: function calls are free
  MaxOps          \* bound: hooked operations a thread starts

ASSUME ThreadsAssumption ==
  /\ Supervisor \notin Threads
  /\ NoOne \notin Threads
  /\ NoOne # Supervisor

\* setInitThreadMoney replaces every 0 and randMoney draws from a positive
\* range, so nobody is ever given 0; and the mark fits on top of what is
\* given (10^7 and at most a few hundred units against 2^64).
ASSUME MoneyAssumption ==
  /\ Modulus \in Nat
  /\ MaxMoney \in Nat \ {0}
  /\ MaxMoney < Modulus
  /\ InitMoney \subseteq [Threads -> 1..(Modulus - 1 - MaxMoney)]
  /\ RandMoney \subseteq 1..(Modulus - 1 - MaxMoney)

ASSUME ParamAssumption ==
  /\ RandomMoney \in BOOLEAN
  /\ SyncOnly \in BOOLEAN
  /\ ResetInterval \in Nat \ {0}
  /\ MaxOps \in Nat

VARIABLES
  pc,         \* where a thread is, see Places
  hook,       \* the scheduler hook a thread is in, or came from
  ops,        \* operations started (bounded by MaxOps)
  mutex,      \* owner of ScsImpl's __mutex
  money,      \* __thread_money
  initMoney,  \* __init_thread_money
  sameEpoch,  \* threads whose last_epoch equals __epoch
  moved,      \* the global tick differs from last_tick
  supPc,      \* where the supervisor is
  round,      \* supervise()'s static counter modulo ResetInterval
  running,    \* Supervisor's __running
  finished,   \* Control's __is_finished
  ration,     \* history: the money a thread got at the last reset
  spent,      \* history: hooks a thread paid since the last reset
  clean       \* history: threads whose marks are balanced, see RationKept

schedVars == <<pc, hook, ops, mutex, money, initMoney, sameEpoch>>
supVars   == <<moved, supPc, round>>
endVars   == <<running, finished>>
history   == <<ration, spent, clean>>
vars      == <<schedVars, supVars, endVars, history>>

(***************************************************************************)
(* A thread is in application code ("run"), at pthread_mutex_lock          *)
(* ("lock"), in the critical section before its money is tested ("check"), *)
(* asleep in pthread_cond_wait ("wait"), woken and reacquiring the mutex   *)
(* ("woken"), back from pthread_cond_wait ("recheck"), in the critical     *)
(* section of afterSyncOperation ("leave"), inside the pthread operation   *)
(* itself ("op"), or on its way through _before_exit ("exiting",           *)
(* "joining", "exited").                                                   *)
(***************************************************************************)
Places == {"run", "lock", "check", "wait", "woken", "recheck", "leave", "op",
           "exiting", "joining", "exited"}

Hooks    == {"none", "beforeSync", "afterSync", "beforeUnlock", "afterUnlock",
             "func"}
\* Hooks that run beforeSyncOperation.  The hook after an unlock does, too:
\* ScScheduler::afterPthreadMutexUnlock calls it instead of
\* afterSyncOperation.
Entering == {"beforeSync", "beforeUnlock", "afterUnlock"}
\* Hooks that are followed by the pthread operation itself.
Opening  == {"beforeSync", "beforeUnlock"}
Critical == {"check", "recheck", "leave"}

\* uint64_t arithmetic: one addition or subtraction of less than Modulus.
Wrap(m) == IF m >= Modulus THEN m - Modulus
           ELSE IF m < 0 THEN m + Modulus
           ELSE m

Dec(m) == IF m <= 1 THEN 0 ELSE m - 1

Release == mutex' = NoOne

---------------------------------------------------------------------------
(* The hooks a thread enters.                                              *)

\* A pthread wrapper counts a tick, but for that of pthread_mutex_destroy, which
\* has the hooks of a lock; a call of a function does not.
CountTick(h) ==
  \/ h # "func" /\ moved' = TRUE
  \/ h \in {"func", "beforeSync"} /\ UNCHANGED moved

\* All enter the scheduler only while need_instrument() holds.
CallHook(t, h) ==
  /\ pc[t] = "run"
  /\ ~finished
  /\ h \in Opening \union {"func"}
  /\ h = "func" => ~SyncOnly
  /\ ops[t] < MaxOps
  /\ ops' = [ops EXCEPT ![t] = @ + 1]
  /\ hook' = [hook EXCEPT ![t] = h]
  /\ pc' = [pc EXCEPT ![t] = "lock"]
  /\ CountTick(h)
  /\ UNCHANGED <<mutex, money, initMoney, sameEpoch, supPc, round, endVars,
                 history>>

\* The pthread operation returned: the after hook runs unless the program
\* has finished in the meantime.
ReturnFromOp(t) ==
  /\ pc[t] = "op"
  /\ \/ /\ ~finished
        /\ hook' = [hook EXCEPT ![t] = IF @ = "beforeSync" THEN "afterSync"
                                       ELSE "afterUnlock"]
        /\ pc' = [pc EXCEPT ![t] = "lock"]
        /\ UNCHANGED clean
     \/ /\ finished
        /\ hook' = [hook EXCEPT ![t] = "none"]
        /\ pc' = [pc EXCEPT ![t] = "run"]
        /\ clean' = clean \ {t}
  /\ UNCHANGED <<ops, mutex, money, initMoney, sameEpoch, supVars, endVars,
                 ration, spent>>

\* Mutant: the critical sections are entered without waiting for the mutex.
Acquire_NoWait(t) ==
  /\ pc[t] \in {"lock", "woken"}
  /\ mutex' = t
  /\ pc' = [pc EXCEPT ![t] = IF @ = "woken" THEN "recheck"
                             ELSE IF hook[t] = "afterSync" THEN "leave"
                             ELSE "check"]
  /\ UNCHANGED <<hook, ops, money, initMoney, sameEpoch, supVars, endVars,
                 history>>

Acquire(t) ==
  /\ pc[t] \in {"lock", "woken"}
  /\ mutex = NoOne
  /\ mutex' = t
  /\ pc' = [pc EXCEPT ![t] = IF @ = "woken" THEN "recheck"
                             ELSE IF hook[t] = "afterSync" THEN "leave"
                             ELSE "check"]
  /\ UNCHANGED <<hook, ops, money, initMoney, sameEpoch, supVars, endVars,
                 history>>

\* blockCurrThread up to pthread_cond_wait, which releases the mutex.
Block(t) ==
  /\ pc[t] = "check"
  /\ money[t] = 0
  /\ sameEpoch' = sameEpoch \union {t}
  /\ pc' = [pc EXCEPT ![t] = "wait"]
  /\ Release
  /\ UNCHANGED <<hook, ops, money, initMoney, supVars, endVars, history>>

\* pthread_cond_wait returned but the epoch is the one the thread saw.
BlockAgain(t) ==
  /\ pc[t] = "recheck"
  /\ t \in sameEpoch
  /\ pc' = [pc EXCEPT ![t] = "wait"]
  /\ Release
  /\ UNCHANGED <<hook, ops, money, initMoney, sameEpoch, supVars, endVars,
                 history>>

\* The rest of the critical section: decCurrThreadMoney, currThreadEnterSync
\* where the hook runs beforeSyncOperation, and the unlock.
Pay(t) ==
  /\ \/ pc[t] = "check" /\ money[t] # 0
     \/ pc[t] = "recheck" /\ t \notin sameEpoch
  /\ money' = [money EXCEPT ![t] = IF hook[t] \in Entering
                                   THEN Wrap(Dec(@) + MaxMoney)
                                   ELSE Dec(@)]
  /\ pc' = [pc EXCEPT ![t] = IF hook[t] \in Opening THEN "op" ELSE "run"]
  /\ hook' = [hook EXCEPT ![t] = IF @ \in Opening THEN @ ELSE "none"]
  /\ Release
  /\ spent' = [spent EXCEPT ![t] = @ + 1]
  /\ clean' = IF hook[t] = "afterUnlock" THEN clean \ {t} ELSE clean
  /\ UNCHANGED <<ops, initMoney, sameEpoch, supVars, endVars, ration>>

\* Mutant: currThreadLeaveSync is forgotten, the mark stays.
LeaveSync_KeepsMark(t) ==
  /\ pc[t] = "leave"
  /\ pc' = [pc EXCEPT ![t] = "run"]
  /\ hook' = [hook EXCEPT ![t] = "none"]
  /\ Release
  /\ UNCHANGED <<ops, money, initMoney, sameEpoch, supVars, endVars, history>>

\* afterSyncOperation: currThreadLeaveSync and the unlock.
LeaveSync(t) ==
  /\ pc[t] = "leave"
  /\ money' = [money EXCEPT ![t] = Wrap(@ - MaxMoney)]
  /\ pc' = [pc EXCEPT ![t] = "run"]
  /\ hook' = [hook EXCEPT ![t] = "none"]
  /\ Release
  /\ UNCHANGED <<ops, initMoney, sameEpoch, supVars, endVars, history>>

\* POSIX lets pthread_cond_wait return without a broadcast.
SpuriousWakeup(t) ==
  /\ pc[t] = "wait"
  /\ pc' = [pc EXCEPT ![t] = "woken"]
  /\ UNCHANGED <<hook, ops, mutex, money, initMoney, sameEpoch, supVars,
                 endVars, history>>

\* An instrumented load or store: it counts a tick and costs nothing.
Tick(t) ==
  /\ pc[t] = "run"
  /\ moved' = TRUE
  /\ UNCHANGED <<schedVars, supPc, round, endVars, history>>

---------------------------------------------------------------------------
(* The end of the program: _before_exit, programExit, Supervisor::stop.    *)

SetFinished(t) ==
  /\ pc[t] = "run"
  /\ ~finished
  /\ finished' = TRUE
  /\ pc' = [pc EXCEPT ![t] = "exiting"]
  /\ UNCHANGED <<hook, ops, mutex, money, initMoney, sameEpoch, supVars,
                 running, history>>

\* Mutant: the supervisor is joined without having been told to stop.
StopSupervisor_NoFlag(t) ==
  /\ pc[t] = "exiting"
  /\ pc' = [pc EXCEPT ![t] = "joining"]
  /\ UNCHANGED <<hook, ops, mutex, money, initMoney, sameEpoch, supVars,
                 running, finished, history>>

StopSupervisor(t) ==
  /\ pc[t] = "exiting"
  /\ running' = FALSE
  /\ pc' = [pc EXCEPT ![t] = "joining"]
  /\ UNCHANGED <<hook, ops, mutex, money, initMoney, sameEpoch, supVars,
                 finished, history>>

JoinSupervisor(t) ==
  /\ pc[t] = "joining"
  /\ supPc = "done"
  /\ pc' = [pc EXCEPT ![t] = "exited"]
  /\ UNCHANGED <<hook, ops, mutex, money, initMoney, sameEpoch, supVars,
                 endVars, history>>

---------------------------------------------------------------------------
(* The supervisor thread.                                                  *)

\* One turn of superviseLoop: read the tick, compare it, remember it.
Poll ==
  /\ supPc = "loop"
  /\ running
  /\ supPc' = IF moved THEN "loop" ELSE "lock"
  /\ moved' = FALSE
  /\ UNCHANGED <<schedVars, round, endVars, history>>

LeaveLoop ==
  /\ supPc = "loop"
  /\ ~running
  /\ supPc' = "done"
  /\ UNCHANGED <<schedVars, moved, round, endVars, history>>

SupAcquire ==
  /\ supPc = "lock"
  /\ mutex = NoOne
  /\ mutex' = Supervisor
  /\ supPc' = "reset"
  /\ UNCHANGED <<pc, hook, ops, money, initMoney, sameEpoch, moved, round,
                 endVars, history>>

\* A thread is inside an operation from its payment to its after hook.
InOp(t) == pc[t] = "op" \/ hook[t] \in {"afterSync", "afterUnlock"}

\* The rest of supervise(): the counter of rounds, the initial money for the
\* epochs to come, the unlock; and the history variables.
EpochBookkeeping ==
  /\ round' = (round + 1) % ResetInterval
  /\ IF RandomMoney /\ round' = 0
       THEN initMoney' \in [Threads -> RandMoney]
       ELSE UNCHANGED initMoney
  /\ Release
  /\ supPc' = "loop"
  /\ ration' = initMoney
  /\ spent' = [t \in Threads |-> 0]
  /\ clean' = {t \in Threads : ~InOp(t)}
  /\ UNCHANGED <<hook, ops, moved, endVars>>

\* Mutants: the broadcast, the new epoch number, the new money is missing.
StartNewEpoch_NoBroadcast ==
  /\ supPc = "reset"
  /\ money' = initMoney
  /\ sameEpoch' = {}
  /\ EpochBookkeeping
  /\ UNCHANGED pc

StartNewEpoch_NoBump ==
  /\ supPc = "reset"
  /\ money' = initMoney
  /\ pc' = [t \in Threads |-> IF pc[t] = "wait" THEN "woken" ELSE pc[t]]
  /\ EpochBookkeeping
  /\ UNCHANGED sameEpoch

\* supervise(): a new epoch with the old initial money, a broadcast, and
\* every ResetInterval rounds new initial money for the epochs to come.
StartNewEpoch ==
  /\ supPc = "reset"
  /\ money' = initMoney
  /\ sameEpoch' = {}
  /\ pc' = [t \in Threads |-> IF pc[t] = "wait" THEN "woken" ELSE pc[t]]
  /\ EpochBookkeeping

---------------------------------------------------------------------------
Init ==
  /\ pc = [t \in Threads |-> "run"]
  /\ hook = [t \in Threads |-> "none"]
  /\ ops = [t \in Threads |-> 0]
  /\ mutex = NoOne
  /\ initMoney \in InitMoney
  /\ money = initMoney
  /\ sameEpoch = {}
  /\ moved = FALSE
  /\ supPc = "loop"
  /\ round = 1 % ResetInterval
  /\ running = TRUE
  /\ finished = FALSE
  /\ ration = initMoney
  /\ spent = [t \in Threads |-> 0]
  /\ clean = Threads

\* After _before_exit the process ends; nothing is expected of it any more.
ProcessEnded ==
  /\ \E t \in Threads : pc[t] = "exited"
  /\ UNCHANGED vars

ThreadStep(t) ==
  \/ \E h \in Hooks : CallHook(t, h)
  \/ ReturnFromOp(t)
  \/ Acquire(t)
  \/ Block(t)
  \/ BlockAgain(t)
  \/ Pay(t)
  \/ LeaveSync(t)
  \/ SpuriousWakeup(t)
  \/ Tick(t)
  \/ SetFinished(t)
  \/ StopSupervisor(t)
  \/ JoinSupervisor(t)

SupervisorStep == Poll \/ LeaveLoop \/ SupAcquire \/ StartNewEpoch

Next ==
  \/ \E t \in Threads : ThreadStep(t)
  \/ SupervisorStep
  \/ ProcessEnded

Spec == Init /\ [][Next]_vars

(***************************************************************************)
(* What the operating system owes the threads.  A thread in the scheduler  *)
(* keeps running; a mutex that is free again and again is eventually       *)
(* granted (the supervisor sleeps between its rounds, and no thread holds  *)
(* the mutex while it sleeps).  Nothing is assumed of the application: a   *)
(* pthread operation may never return, a thread may never exit, and        *)
(* spurious wakeups are not promised.                                      *)
(***************************************************************************)
Fairness ==
  /\ \A t \in Threads :
       /\ SF_vars(Acquire(t))
       /\ WF_vars(Block(t) \/ BlockAgain(t) \/ Pay(t) \/ LeaveSync(t))
       /\ WF_vars(StopSupervisor(t) \/ JoinSupervisor(t))
  /\ SF_vars(SupAcquire)
  /\ WF_vars(Poll \/ LeaveLoop)
  /\ WF_vars(StartNewEpoch)

FairSpec == Spec /\ Fairness

---------------------------------------------------------------------------
(* Properties.                                                             *)

\* Every variable stays in its type (the money table holds uint64_t).
TypeOK ==
  /\ pc \in [Threads -> Places]
  /\ hook \in [Threads -> Hooks]
  /\ ops \in [Threads -> Nat]
  /\ mutex \in Threads \union {Supervisor, NoOne}
  /\ money \in [Threads -> 0..(Modulus - 1)]
  /\ initMoney \in [Threads -> 1..(Modulus - 1 - MaxMoney)]
  /\ sameEpoch \subseteq Threads
  /\ moved \in BOOLEAN
  /\ supPc \in {"loop", "lock", "reset", "done"}
  /\ round \in 0..(ResetInterval - 1)
  /\ running \in BOOLEAN
  /\ finished \in BOOLEAN
  /\ ration \in [Threads -> 1..(Modulus - 1 - MaxMoney)]
  /\ spent \in [Threads -> Nat]
  /\ clean \subseteq Threads

\* Whoever is inside a critical section of ScsImpl owns __mutex, so the
\* read-modify-write of a money slot is never interrupted by a reset
\* (ScsImpl.cpp, every pthread_mutex_lock(&__mutex)).
Exclusive ==
  /\ \A t \in Threads : pc[t] \in Critical <=> mutex = t
  /\ supPc = "reset" <=> mutex = Supervisor

\* No lost wakeup: a thread asleep on the condition variable has not slept
\* through the start of an epoch, although it read the epoch, released the
\* mutex and fell asleep in blockCurrThread while the supervisor may have
\* been waiting to bump it.
NoLostWakeup ==
  \A t \in Threads : pc[t] = "wait" => t \in sameEpoch

\* "Blocked thread has no money" (the assertion of blockCurrThread, there
\* tested once before the first wait) holds as long as the thread is
\* blocked: asleep, woken, or awake again in an unchanged epoch.
Blocked(t) == pc[t] \in {"wait", "woken", "recheck"} /\ t \in sameEpoch
BlockedHasNoMoney ==
  \A t \in Threads : Blocked(t) => money[t] = 0

\* A thread that was let through after a wait has money to pay with:
\* blockCurrThread looks at the epoch only and never tests the money again,
\* so decCurrThreadMoney relies on every new epoch having refilled the slot.
WokenHasMoney ==
  \A t \in Threads :
    pc[t] \in {"wait", "woken", "recheck"} /\ t \notin sameEpoch => money[t] > 0

\* The protocol of blocking and waking.  Its three parts hold only together.
WakeInv == NoLostWakeup /\ BlockedHasNoMoney /\ WokenHasMoney

\* What the money is for: between two resets a thread passes no more hooks
\* than it was given money.  It holds only for a thread whose marks are
\* balanced: since the last reset it finished no unlock (the hook after an
\* unlock adds a second mark instead of taking the first away) and the last
\* reset did not fall into one of its operations (afterSyncOperation then
\* takes away a mark the reset had erased and the money wraps around).
RationKept ==
  \A t \in clean : spent[t] <= ration[t]

\* A thread that waits for money goes on once the ticks stop: the
\* supervisor finds two equal ticks, starts an epoch and wakes it.  While
\* some thread keeps ticking (a loop over instrumented loads) the
\* supervisor never starts an epoch and nothing is promised.
BlockedReleased ==
  <>[](~moved) =>
    \A t \in Threads :
      pc[t] = "wait" ~> (pc[t] \in {"run", "op"} \/ finished)

\* exit() comes back from Supervisor::stop, whatever the other threads do
\* and whoever holds __mutex at that moment ("__mutex may be locked by other
\* threads", ScsImpl.cpp:62).
ExitCompletes ==
  \A t \in Threads : pc[t] = "exiting" ~> pc[t] = "exited"

============================================================================
