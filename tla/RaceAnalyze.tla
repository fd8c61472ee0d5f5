---------------------------- MODULE RaceAnalyze ----------------------------
(***************************************************************************)
(* The offline race detector: RaceAnalyze.cpp, which walks the events of a *)
(* trace, and VarMetaData.cpp, which keeps a vector clock for every thread *)
(* and sync variable and the recent accesses to every shared variable.     *)
(*                                                                         *)
(* Each step appends the next event of an arbitrary trace of a run of the  *)
(* program and does what the detector does for it.  Nothing is assumed of  *)
(* the order of the events but that a thread runs after its CREATE and     *)
(* before its JOIN, and has one of each (thread ids are not reused).       *)
(***************************************************************************)
EXTENDS VectorClock, HappensBefore

CONSTANTS
  Main,       \* the thread the program starts with
  SyncVars,   \* addresses of mutexes and condition variables
  Vars,       \* addresses of other shared variables
  SyncOps,    \* the operations on sync variables that occur
  MaxEvents   \* bound: length of the trace

ASSUME RaceAssumption ==
  /\ Main \in Threads
  /\ MaxEvents \in Nat
  /\ SyncOps \subseteq SyncAcqOps \union SyncRelOps \union {"WAIT"}

VARIABLES
  trace,     \* the events handled so far; an event is known by its position
  threadVC,  \* thread_vc_
  vcInit,    \* is_thread_vc_init_
  syncVC,    \* sync_var_vc_table_
  rset,      \* var_rset_table_
  wset,      \* var_wset_table_
  syncRel,   \* sync_rel_table_
  races,     \* race_evt_pairs_
  syncHb,    \* sync_hb_evt_pairs_
  past,      \* history: for each event the events that happen before it
  clk        \* history: for each event its thread's clock

clockVars == <<threadVC, vcInit, syncVC>>
historyVars == <<trace, past, clk>>
vars == <<historyVars, clockVars, rset, wset, syncRel, races, syncHb>>

Created(t) == \E i \in 1..Len(trace) : trace[i].op = "CREATE" /\ trace[i].obj = t
Joined(t)  == \E i \in 1..Len(trace) : trace[i].op = "JOIN" /\ trace[i].obj = t
Running(t) == (t = Main \/ Created(t)) /\ ~Joined(t)

Event(op, t, x) == [op |-> op, tid |-> t, obj |-> x]

\* getThreadVC: a thread's own tick is one when its clock is first used.
ThreadClock(t) ==
  IF vcInit[t] THEN threadVC[t] ELSE IncTick(threadVC[t], t)

\* Event e is handled while its thread's clock is c.
Record(e, c) ==
  /\ Len(trace) < MaxEvents
  /\ Running(e.tid)
  /\ trace' = Append(trace, e)
  /\ past' = Append(past, PastOf(trace, past, e))
  /\ clk' = Append(clk, c)

\* An Operation on the next event.
Op(c) == [evt |-> Len(trace) + 1, vc |-> c]

\* getRaceEvents: the accesses in set ops that race with the next one.
Racing(ops, c) ==
  {<<o.evt, Len(trace) + 1>> : o \in {p \in ops : ConcurrentWith(p.vc, c)}}

---------------------------------------------------------------------------
Load(t, x) ==
  LET c == ThreadClock(t)
  IN  /\ Record(Event("LD", t, x), c)
      /\ races' = races \union Racing(wset[x], c)
      /\ rset' = [rset EXCEPT ![x] = @ \union {Op(c)}]
      /\ threadVC' = [threadVC EXCEPT ![t] = c]
      /\ vcInit' = [vcInit EXCEPT ![t] = TRUE]
      /\ UNCHANGED <<syncVC, wset, syncRel, syncHb>>

\* Mutant: the accesses are cleared before they are compared.
Store_ClearsFirst(t, x) ==
  LET c == ThreadClock(t)
  IN  /\ Record(Event("ST", t, x), c)
      /\ races' = races \union Racing(wset[x], c)
      /\ rset' = [rset EXCEPT ![x] = {}]
      /\ wset' = [wset EXCEPT ![x] = {Op(c)}]
      /\ threadVC' = [threadVC EXCEPT ![t] = c]
      /\ vcInit' = [vcInit EXCEPT ![t] = TRUE]
      /\ UNCHANGED <<syncVC, syncRel, syncHb>>

\* A write forgets all earlier accesses ("Not SOUND here").
Store(t, x) ==
  LET c == ThreadClock(t)
  IN  /\ Record(Event("ST", t, x), c)
      /\ races' = races \union Racing(rset[x] \union wset[x], c)
      /\ rset' = [rset EXCEPT ![x] = {}]
      /\ wset' = [wset EXCEPT ![x] = {Op(c)}]
      /\ threadVC' = [threadVC EXCEPT ![t] = c]
      /\ vcInit' = [vcInit EXCEPT ![t] = TRUE]
      /\ UNCHANGED <<syncVC, syncRel, syncHb>>

\* Mutant: the releases an acquisition was paired with are kept.
Acquire_KeepsRel(t, m, op) ==
  LET c == Merge(ThreadClock(t), syncVC[m])
  IN  /\ op \in SyncAcqOps
      /\ Record(Event(op, t, m), c)
      /\ syncHb' = syncHb \union {<<o.evt, Len(trace) + 1>> : o \in syncRel[m]}
      /\ syncRel' = syncRel
      /\ threadVC' = [threadVC EXCEPT ![t] = c]
      /\ vcInit' = [vcInit EXCEPT ![t] = TRUE]
      /\ UNCHANGED <<syncVC, rset, wset, races>>

\* LOCK, TRYLOCK and AWAKE.  The pairs are collected and the remembered
\* releases cleared before the clocks are updated.
Acquire(t, m, op) ==
  LET c == Merge(ThreadClock(t), syncVC[m])
  IN  /\ op \in SyncAcqOps
      /\ Record(Event(op, t, m), c)
      /\ syncHb' = syncHb \union {<<o.evt, Len(trace) + 1>> : o \in syncRel[m]}
      /\ syncRel' = [syncRel EXCEPT ![m] = {}]
      /\ threadVC' = [threadVC EXCEPT ![t] = c]
      /\ vcInit' = [vcInit EXCEPT ![t] = TRUE]
      /\ UNCHANGED <<syncVC, rset, wset, races>>

\* Mutant: the thread's tick is not increased after a release.
Release_NoTick(t, m, op) ==
  LET c == ThreadClock(t)
  IN  /\ op \in SyncRelOps
      /\ Record(Event(op, t, m), c)
      /\ syncRel' = [syncRel EXCEPT ![m] = @ \union {Op(c)}]
      /\ syncVC' = [syncVC EXCEPT ![m] = Merge(@, c)]
      /\ threadVC' = [threadVC EXCEPT ![t] = c]
      /\ vcInit' = [vcInit EXCEPT ![t] = TRUE]
      /\ UNCHANGED <<rset, wset, races, syncHb>>

\* UNLOCK, SIGNAL and BROADCAST.
Release(t, m, op) ==
  LET c == ThreadClock(t)
  IN  /\ op \in SyncRelOps
      /\ Record(Event(op, t, m), c)
      /\ syncRel' = [syncRel EXCEPT ![m] = @ \union {Op(c)}]
      /\ syncVC' = [syncVC EXCEPT ![m] = Merge(@, c)]
      /\ threadVC' = [threadVC EXCEPT ![t] = IncTick(c, t)]
      /\ vcInit' = [vcInit EXCEPT ![t] = TRUE]
      /\ UNCHANGED <<rset, wset, races, syncHb>>

\* WAIT changes nothing but creates the clock.
Wait(t, m) ==
  LET c == ThreadClock(t)
  IN  /\ Record(Event("WAIT", t, m), c)
      /\ threadVC' = [threadVC EXCEPT ![t] = c]
      /\ vcInit' = [vcInit EXCEPT ![t] = TRUE]
      /\ UNCHANGED <<syncVC, rset, wset, syncRel, races, syncHb>>

Create(t, u) ==
  LET c == ThreadClock(t)
  IN  /\ u # Main /\ ~Created(u)
      /\ Record(Event("CREATE", t, u), c)
      /\ threadVC' = [threadVC EXCEPT ![u] = Merge(ThreadClock(u), c),
                                      ![t] = IncTick(c, t)]
      /\ vcInit' = [vcInit EXCEPT ![t] = TRUE, ![u] = TRUE]
      /\ UNCHANGED <<syncVC, rset, wset, syncRel, races, syncHb>>

\* Mutant: the joining thread does not learn what the joined one did.
Join_NoMerge(t, u) ==
  LET c == ThreadClock(t)
  IN  /\ t # u /\ u # Main /\ Running(u)
      /\ Record(Event("JOIN", t, u), c)
      /\ threadVC' = [threadVC EXCEPT ![t] = c,
                                      ![u] = IncTick(ThreadClock(u), u)]
      /\ vcInit' = [vcInit EXCEPT ![t] = TRUE, ![u] = TRUE]
      /\ UNCHANGED <<syncVC, rset, wset, syncRel, races, syncHb>>

Join(t, u) ==
  LET c == Merge(ThreadClock(t), ThreadClock(u))
  IN  /\ t # u /\ u # Main /\ Running(u)
      /\ Record(Event("JOIN", t, u), c)
      /\ threadVC' = [threadVC EXCEPT ![t] = c,
                                      ![u] = IncTick(ThreadClock(u), u)]
      /\ vcInit' = [vcInit EXCEPT ![t] = TRUE, ![u] = TRUE]
      /\ UNCHANGED <<syncVC, rset, wset, syncRel, races, syncHb>>

---------------------------------------------------------------------------
Init ==
  /\ trace = <<>> /\ past = <<>> /\ clk = <<>>
  /\ threadVC = [t \in Threads |-> Zero]
  /\ vcInit = [t \in Threads |-> FALSE]
  /\ syncVC = [m \in SyncVars |-> Zero]
  /\ rset = [x \in Vars |-> {}]
  /\ wset = [x \in Vars |-> {}]
  /\ syncRel = [m \in SyncVars |-> {}]
  /\ races = {}
  /\ syncHb = {}

VarAccess(t) == \E x \in Vars : Load(t, x) \/ Store(t, x)

SyncOp(t) ==
  \E m \in SyncVars :
    \/ \E op \in SyncOps : Acquire(t, m, op) \/ Release(t, m, op)
    \/ "WAIT" \in SyncOps /\ Wait(t, m)

ThreadOp(t) == \E u \in Threads : Create(t, u) \/ Join(t, u)

Next == \E t \in Threads : VarAccess(t) \/ SyncOp(t) \/ ThreadOp(t)

Spec == Init /\ [][Next]_vars

---------------------------------------------------------------------------
(* Properties.                                                             *)

Positions == 1..Len(trace)
EventType ==
  [op : AccessOps, tid : Threads, obj : Vars]
    \union [op : SyncAcqOps \union SyncRelOps \union {"WAIT"},
            tid : Threads, obj : SyncVars]
    \union [op : {"CREATE", "JOIN"}, tid : Threads, obj : Threads]
Operation == [evt : Positions, vc : Clock]

\* Every variable stays in its type: clocks never lose a thread, and the
\* sets of operations and pairs refer to events that have been handled.
TypeOK ==
  /\ trace \in Seq(EventType)
  /\ past \in Seq(SUBSET Positions) /\ Len(past) = Len(trace)
  /\ clk \in Seq(Clock) /\ Len(clk) = Len(trace)
  /\ threadVC \in [Threads -> Clock]
  /\ vcInit \in [Threads -> BOOLEAN]
  /\ syncVC \in [SyncVars -> Clock]
  /\ rset \in [Vars -> SUBSET Operation]
  /\ wset \in [Vars -> SUBSET Operation]
  /\ syncRel \in [SyncVars -> SUBSET Operation]
  /\ races \subseteq Positions \X Positions
  /\ syncHb \subseteq Positions \X Positions

Unordered(i, j) == i \notin past[j] /\ j \notin past[i]

\* The detector reports no false race: the two events of every reported pair
\* conflict, and neither happens before the other.
RacesAreReal ==
  \A r \in races : Conflict(trace[r[1]], trace[r[2]]) /\ Unordered(r[1], r[2])

\* Although a write makes the detector forget every earlier access to the
\* variable, no racy variable goes unnoticed: a variable with a conflicting
\* unordered pair of accesses has a reported one.
RacyVarsReported ==
  \A i, j \in Positions :
    Conflict(trace[i], trace[j]) /\ Unordered(i, j) /\ i # j
    => \E r \in races : trace[r[1]].obj = trace[i].obj

\* The clocks stay ahead: nobody knows a thread's present tick but the thread
\* itself, so no access can be taken for an earlier one of another thread.
OwnTickLeads ==
  \A t \in Threads :
    /\ \A u \in Threads \ {t} : IF vcInit[t] THEN threadVC[u][t] < threadVC[t][t]
                                ELSE threadVC[u][t] = 0
    /\ \A m \in SyncVars : IF vcInit[t] THEN syncVC[m][t] < threadVC[t][t]
                           ELSE syncVC[m][t] = 0

\* The pairs of sync events that the thread summaries count: a release is
\* paired with the first later acquisition of its variable and no other,
\* although it happens before all of them.
SyncPairsAreNearest ==
  \A i, j \in Positions :
    <<i, j>> \in syncHb <=>
      /\ i < j
      /\ trace[i].op \in SyncRelOps /\ trace[j].op \in SyncAcqOps
      /\ trace[i].obj = trace[j].obj
      /\ \A k \in (i + 1)..(j - 1) :
           ~(trace[k].op \in SyncAcqOps /\ trace[k].obj = trace[i].obj)

============================================================================
