----------------------------- MODULE SyncHooks -----------------------------
(***************************************************************************)
(* What the trace tells of the order in which mutexes and condition        *)
(* variables made the threads of the program run: the wrappers of          *)
(* Interface.cpp around the pthread calls, with the hooks of               *)
(* ScScheduler.cpp before and after each.                                  *)
(*                                                                         *)
(* A hook is a gate (need_instrument), a scheduler call that may take any  *)
(* time, and the log calls; the program may exit anywhere.  Events stand   *)
(* in the log in the order of their slots, which is what a complete save   *)
(* writes (see Logger).  The calls are those of a correct program: nobody  *)
(* locks a mutex twice, or unlocks or waits with one held by another.      *)
(***************************************************************************)
EXTENDS HappensBefore

CONSTANTS
  Threads,
  Mutexes, RwLocks,  \* rwlocks have wrappers, but their hooks are empty
  Conds, Vars,
  Program,           \* for each thread the sets its successive calls are from
  None

ASSUME HooksAssumption ==
  /\ None \notin Threads /\ DOMAIN Program = Threads
  /\ Mutexes \intersect (RwLocks \union Conds) = {}

VARIABLES
  log,       \* the events in the order of their slots
  owner,     \* the holder of each mutex and rwlock
  pc, cur,   \* where each thread is in a wrapper, and the call it makes
  calls,     \* the number of calls it has begun
  finished,  \* Control::isFinished
  know,      \* history: the logged events each thread really comes after
  left,      \* history: what the next holder of a mutex will come after
  real       \* history: what the thread of each event came after

realVars == <<know, left, real>>
vars == <<log, owner, pc, cur, calls, finished, realVars>>

Locks == Mutexes \union RwLocks
Call(op, obj, m) == [op |-> op, obj |-> obj, m |-> m]
NoCall == Call("none", None, None)

\* The calls a correct program can make.
Legal(t) ==
  {Call("access", x, None) : x \in Vars}
    \union {Call(op, m, m) : op \in {"lock", "trylock", "destroy"},
                             m \in {n \in Locks : owner[n] # t}}
    \union {Call("unlock", m, m) : m \in {n \in Locks : owner[n] = t}}
    \union {Call("wait", c, m) : c \in Conds, m \in {n \in Mutexes : owner[n] = t}}
    \union {Call(op, c, None) : op \in {"signal", "broadcast"}, c \in Conds}

\* An event of thread t.  ok says whether an acquisition took place, which
\* the log does not tell.
Event(op, t, obj) == [op |-> op, tid |-> t, obj |-> obj, ok |-> op # "TRYLOCK" \/ owner[obj] = t]

\* Mutant: the release is logged after the operation, with the acquisition.
BeforeEvents_NoUnlock(t) ==
  LET c == cur[t]
  IN  CASE c.op = "access" -> <<Event("ST", t, c.obj)>>
        [] c.op = "wait" -> <<Event("UNLOCK", t, c.m), Event("WAIT", t, c.obj)>>
        [] c.op = "signal" -> <<Event("SIGNAL", t, c.obj)>>
        [] c.op = "broadcast" -> <<Event("BROADCAST", t, c.obj)>>
        [] OTHER -> <<>>

\* What the hook before the call logs.
BeforeEvents(t) ==
  LET c == cur[t]
  IN  CASE c.op = "access" -> <<Event("ST", t, c.obj)>>
        [] c.op = "unlock" /\ c.m \in Mutexes -> <<Event("UNLOCK", t, c.m)>>
        [] c.op = "wait" -> <<Event("UNLOCK", t, c.m), Event("WAIT", t, c.obj)>>
        [] c.op = "signal" -> <<Event("SIGNAL", t, c.obj)>>
        [] c.op = "broadcast" -> <<Event("BROADCAST", t, c.obj)>>
        [] OTHER -> <<>>

\* Mutant: the hook after an unlock does what the one before did.
AfterEvents_UnlockToo(t) ==
  LET c == cur[t]
  IN  CASE c.op = "lock" /\ c.m \in Mutexes -> <<Event("LOCK", t, c.m)>>
        [] c.op = "trylock" /\ c.m \in Mutexes -> <<Event("TRYLOCK", t, c.m)>>
        [] c.op = "unlock" /\ c.m \in Mutexes -> <<Event("UNLOCK", t, c.m)>>
        [] c.op = "wait" -> <<Event("LOCK", t, c.m), Event("AWAKE", t, c.obj)>>
        [] OTHER -> <<>>

\* What the hook after it logs: a destroy is logged as a lock, a trylock
\* whether it got the mutex or not, a wait whether it was signalled or not.
AfterEvents(t) ==
  LET c == cur[t]
  IN  CASE c.op = "lock" /\ c.m \in Mutexes -> <<Event("LOCK", t, c.m)>>
        [] c.op = "trylock" /\ c.m \in Mutexes -> <<Event("TRYLOCK", t, c.m)>>
        [] c.op = "destroy" /\ c.m \in Mutexes ->
             <<[Event("LOCK", t, c.m) EXCEPT !.ok = FALSE]>>
        [] c.op = "wait" -> <<Event("LOCK", t, c.m), Event("AWAKE", t, c.obj)>>
        [] OTHER -> <<>>

Write(t, es) ==
  LET new(n) == (Len(log) + 1)..(Len(log) + n)
  IN  /\ log' = log \o es
      /\ real' = real \o [i \in 1..Len(es) |-> know[t] \union new(i - 1)]
      /\ know' = [know EXCEPT ![t] = @ \union new(Len(es))]

---------------------------------------------------------------------------
\* The wrapper is entered and tests the gate.
Enter(t) ==
  /\ pc[t] = "idle" /\ calls[t] < Len(Program[t])
  /\ calls' = [calls EXCEPT ![t] = @ + 1]
  /\ \E c \in Legal(t) :
       /\ c.op \in Program[t][calls[t] + 1]
       /\ cur' = [cur EXCEPT ![t] = c]
  /\ pc' = [pc EXCEPT ![t] = IF finished THEN "call" ELSE "before"]
  /\ UNCHANGED <<log, owner, finished, realVars>>

Before(t) ==
  /\ pc[t] = "before"
  /\ Write(t, BeforeEvents(t))
  /\ pc' = [pc EXCEPT ![t] = "call"]
  /\ UNCHANGED <<owner, cur, calls, finished, left>>

\* The hook after an access is empty.
Access(t) ==
  /\ pc[t] = "call" /\ cur[t].op = "access"
  /\ pc' = [pc EXCEPT ![t] = "idle"]
  /\ cur' = [cur EXCEPT ![t] = NoCall]
  /\ UNCHANGED <<log, owner, calls, finished, realVars>>

\* The order that an rwlock makes is not counted: the log has lost it.
Take(t) ==
  /\ owner[cur[t].m] = None
  /\ owner' = [owner EXCEPT ![cur[t].m] = t]
  /\ know' = [know EXCEPT ![t] = IF cur[t].m \in Mutexes THEN @ \union left[cur[t].m] ELSE @]
  /\ UNCHANGED left

Give(t) ==
  /\ owner' = [owner EXCEPT ![cur[t].m] = None]
  /\ left' = [left EXCEPT ![cur[t].m] = know[t]]
  /\ UNCHANGED know

Lock(t) ==
  /\ \/ pc[t] = "call" /\ cur[t].op \in {"lock", "trylock"}
     \/ pc[t] = "woken"
  /\ Take(t)
  /\ pc' = [pc EXCEPT ![t] = "gate"]
  /\ UNCHANGED <<log, cur, calls, finished, real>>

\* pthread_mutex_trylock returns EBUSY; nobody looks at it but the caller.
TrylockFails(t) ==
  /\ pc[t] = "call" /\ cur[t].op = "trylock"
  /\ owner[cur[t].m] # None
  /\ pc' = [pc EXCEPT ![t] = "gate"]
  /\ UNCHANGED <<log, owner, cur, calls, finished, realVars>>

Destroy(t) ==
  /\ pc[t] = "call" /\ cur[t].op = "destroy"
  /\ owner[cur[t].m] = None
  /\ pc' = [pc EXCEPT ![t] = "gate"]
  /\ UNCHANGED <<log, owner, cur, calls, finished, realVars>>

Unlock(t) ==
  /\ pc[t] = "call" /\ cur[t].op \in {"unlock", "wait"}
  /\ Give(t)
  /\ pc' = [pc EXCEPT ![t] = IF cur[t].op = "wait" THEN "asleep" ELSE "gate"]
  /\ UNCHANGED <<log, cur, calls, finished, real>>

\* A time-out or a spurious wakeup.
WakeUp(t) ==
  /\ pc[t] = "asleep"
  /\ pc' = [pc EXCEPT ![t] = "woken"]
  /\ UNCHANGED <<log, owner, cur, calls, finished, realVars>>

\* One waiter, if there is one, or all of them.
Signal(t) ==
  LET waiting == {u \in Threads : pc[u] = "asleep" /\ cur[u].obj = cur[t].obj}
  IN  /\ pc[t] = "call" /\ cur[t].op \in {"signal", "broadcast"}
      /\ \E woken \in SUBSET waiting :
           /\ IF cur[t].op = "signal" /\ waiting # {}
              THEN \E u \in waiting : woken = {u}
              ELSE woken = waiting
           /\ pc' = [u \in Threads |-> IF u \in woken THEN "woken"
                                       ELSE IF u = t THEN "gate" ELSE pc[u]]
           /\ know' = [u \in Threads |-> IF u \in woken THEN know[u] \union know[t]
                                         ELSE know[u]]
      /\ UNCHANGED <<log, owner, cur, calls, finished, left, real>>

\* Mutant: the gate after the call is open to calls that passed the first.
Gate_NoTest(t) ==
  /\ pc[t] = "gate"
  /\ pc' = [pc EXCEPT ![t] = "after"]
  /\ UNCHANGED <<log, owner, cur, calls, finished, realVars>>

\* The second test of need_instrument.
Gate(t) ==
  /\ pc[t] = "gate"
  /\ pc' = [pc EXCEPT ![t] = IF finished THEN "idle" ELSE "after"]
  /\ cur' = IF finished THEN [cur EXCEPT ![t] = NoCall] ELSE cur
  /\ UNCHANGED <<log, owner, calls, finished, realVars>>

After(t) ==
  /\ pc[t] = "after"
  /\ Write(t, AfterEvents(t))
  /\ pc' = [pc EXCEPT ![t] = "idle"]
  /\ cur' = [cur EXCEPT ![t] = NoCall]
  /\ UNCHANGED <<owner, calls, finished, left>>

\* Some thread calls exit.
Exit ==
  /\ ~finished
  /\ finished' = TRUE
  /\ UNCHANGED <<log, owner, pc, cur, calls, realVars>>

---------------------------------------------------------------------------
Init ==
  /\ log = <<>> /\ real = <<>>
  /\ owner = [m \in Locks |-> None]
  /\ pc = [t \in Threads |-> "idle"]
  /\ cur = [t \in Threads |-> NoCall]
  /\ calls = [t \in Threads |-> 0]
  /\ finished = FALSE
  /\ know = [t \in Threads |-> {}]
  /\ left = [m \in Locks |-> {}]

Step(t) ==
  \/ Enter(t) \/ Before(t)
  \/ Access(t) \/ Lock(t) \/ TrylockFails(t) \/ Destroy(t) \/ Unlock(t)
  \/ WakeUp(t) \/ Signal(t)
  \/ Gate(t) \/ After(t)

Next == Exit \/ \E t \in Threads : Step(t)

Spec == Init /\ [][Next]_vars

---------------------------------------------------------------------------
(* Properties.                                                             *)

EventType == [op : AccessOps \union SyncAcqOps \union SyncRelOps \union {"WAIT"},
              tid : Threads, obj : Vars \union Mutexes \union Conds, ok : BOOLEAN]
CallType == [op : {"none", "access", "lock", "trylock", "destroy", "unlock", "wait",
                   "signal", "broadcast"},
             obj : Vars \union Locks \union Conds \union {None},
             m : Locks \union {None}]

\* The log, the locks and the wrappers stay in their types.
TypeOK ==
  /\ log \in Seq(EventType)
  /\ owner \in [Locks -> Threads \union {None}]
  /\ pc \in [Threads -> {"idle", "before", "call", "asleep", "woken", "gate", "after"}]
  /\ cur \in [Threads -> CallType]
  /\ calls \in [Threads -> Nat] /\ finished \in BOOLEAN
  /\ know \in [Threads -> SUBSET Nat] /\ left \in [Locks -> SUBSET Nat]
  /\ real \in Seq(SUBSET Nat)

Acquires(e, t, m) == e.op \in SyncAcqOps /\ e.ok /\ e.tid = t /\ e.obj = m
Releases(e, t, m) == e.op \in SyncRelOps /\ e.tid = t /\ e.obj = m

\* According to the log, thread t is in a critical section of m.
Open(t, m) ==
  \E i \in 1..Len(log) :
    /\ Acquires(log[i], t, m)
    /\ \A j \in (i + 1)..Len(log) : ~Releases(log[j], t, m)

\* The critical sections in the log do not overlap, although they are logged
\* late and closed early, a wait leaves and enters one, and an exit may cut
\* them off anywhere.
SectionsAreDisjoint ==
  \A m \in Mutexes : \A t, u \in Threads : Open(t, m) /\ Open(u, m) => t = u

\* No false race: an access that a mutex or a condition variable made come
\* after another comes after it in the order the detector computes.  (What
\* only an rwlock ordered is reported.)
RealOrderIsLogged ==
  LET past == Pasts(log, Precedes)
  IN  \A j \in 1..Len(log) : log[j].op \in AccessOps =>
        \A i \in real[j] : log[i].op \in AccessOps => i \in past[j]

\* The order of the log without condition variables and without what is
\* logged as an acquisition and was none.
MutexPrecedes(d, e) ==
  \/ d.tid = e.tid
  \/ d.op = "UNLOCK" /\ e.op \in {"LOCK", "TRYLOCK"} /\ e.ok /\ d.obj = e.obj

\* No race is hidden by the order of mutexes, but for failed trylocks and
\* destroyed mutexes: what the log orders by mutexes was really so.
LoggedOrderIsReal ==
  LET past == Pasts(log, MutexPrecedes)
  IN  \A j \in 1..Len(log) : past[j] \subseteq real[j]

============================================================================
