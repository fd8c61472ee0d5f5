------------------------- MODULE RaceAnalyzeProofs -------------------------
(***************************************************************************)
(* Proofs about the race detector, its report and the loader before it,    *)
(* for traces and files of any length and any number of threads, sync      *)
(* variables and variables:                                                *)
(*                                                                         *)
(*   - the clocks stay ahead (OwnTickLeads);                               *)
(*   - no reported race is false (RacesAreReal).  This rests on the clock  *)
(*     condition: an event that happens before another has a clock that is *)
(*     <=.  It is inductive together with what the clocks of threads and   *)
(*     sync variables know (KnownClocks);                                  *)
(*   - sync events are paired with the next acquisition only               *)
(*     (SyncPairsAreNearest);                                              *)
(*   - no racy variable is missed (RacyVarsReported).  This rests on the   *)
(*     converse of the clock condition (TicksTell) and on what a           *)
(*     remembered access says of the forgotten ones (Covered);             *)
(*   - the report tells every race once (ReportTellsAllRaces);             *)
(*   - the summaries of the threads add up (SummariesBalance);             *)
(*   - the order of events is the closure of Precedes (HistoryTells);      *)
(*   - what the loader leaves of a file is a trace for the detector        *)
(*     (LoadSpec => Spec), which reports the races of the whole file       *)
(*     (FilterLosesNoRace), and only an unclean file is stopped on its way  *)
(*     (CleanTracesPass).  These rest on what is noted of a file as it is   *)
(*     read (LoadInv).                                                     *)
(***************************************************************************)
EXTENDS DetectPass, LoadTrace, FiniteSetTheorems, WellFoundedInduction, TLAPS

---------------------------------------------------------------------------
(* Vector clocks.                                                          *)

\* The operations on clocks yield clocks.
LEMMA ClockType ==
  /\ Zero \in Clock
  /\ \A c \in Clock, t \in Threads : IncTick(c, t) \in Clock
  /\ \A c, d \in Clock : Merge(c, d) \in Clock
BY DEF Clock, Zero, IncTick, Merge

\* <= is a partial order that ticks and merges go up in.
LEMMA LeqReflexive == \A c \in Clock : Leq(c, c)
BY DEF Clock, Leq

LEMMA LeqTransitive ==
  \A c, d, e \in Clock : Leq(c, d) /\ Leq(d, e) => Leq(c, e)
<1> SUFFICES ASSUME NEW c \in Clock, NEW d \in Clock, NEW e \in Clock,
                    Leq(c, d), Leq(d, e), NEW t \in Threads
             PROVE  c[t] <= e[t]
  BY DEF Leq
<1>1. c[t] \in Nat /\ d[t] \in Nat /\ e[t] \in Nat
  BY DEF Clock
<1>2. c[t] <= d[t] /\ d[t] <= e[t]
  BY DEF Leq
<1> QED BY <1>1, <1>2

LEMMA IncTickGoesUp == \A c \in Clock, t \in Threads : Leq(c, IncTick(c, t))
BY DEF Clock, Leq, IncTick

LEMMA MergeIsUpperBound ==
  \A c, d \in Clock : Leq(c, Merge(c, d)) /\ Leq(d, Merge(c, d))
BY DEF Clock, Leq, Merge

\* getThreadVC returns a clock that knows all the stored one did.
LEMMA ThreadClockType ==
  ASSUME TypeOK, NEW t \in Threads
  PROVE  ThreadClock(t) \in Clock /\ Leq(threadVC[t], ThreadClock(t))
<1>1. threadVC[t] \in Clock
  BY DEF TypeOK
<1> QED BY <1>1, ClockType, LeqReflexive, IncTickGoesUp DEF ThreadClock

---------------------------------------------------------------------------
(* What every step does to the history.                                    *)

\* The next event is appended and its past consists of earlier events.
LEMMA RecordAppends ==
  ASSUME TypeOK, NEW e \in EventType, NEW c \in Clock, Record(e, c)
  PROVE  LET n == Len(trace) + 1
         IN  /\ Len(trace) \in Nat
             /\ Positions' = Positions \union {n}
             /\ trace' \in Seq(EventType) /\ Len(trace') = n
             /\ past' \in Seq(SUBSET Positions') /\ Len(past') = n
             /\ clk' \in Seq(Clock) /\ Len(clk') = n
             /\ \A i \in Positions : /\ trace'[i] = trace[i]
                                     /\ past'[i] = past[i]
                                     /\ clk'[i] = clk[i]
             /\ trace'[n] = e /\ clk'[n] = c
             /\ past'[n] = PastOf(trace, past, e)
             /\ past'[n] \subseteq Positions
<1> DEFINE n == Len(trace) + 1
<1>1. trace \in Seq(EventType) /\ past \in Seq(SUBSET Positions)
      /\ clk \in Seq(Clock) /\ Len(past) = Len(trace) /\ Len(clk) = Len(trace)
  BY DEF TypeOK
<1>2. trace' = Append(trace, e) /\ clk' = Append(clk, c)
      /\ past' = Append(past, PastOf(trace, past, e))
  BY DEF Record
<1>3. Len(trace) \in Nat
  BY <1>1
<1>4. trace' \in Seq(EventType) /\ Len(trace') = n /\ trace'[n] = e
      /\ \A i \in Positions : trace'[i] = trace[i]
  BY <1>1, <1>2 DEF Positions
<1>5. Positions' = Positions \union {n}
  BY <1>3, <1>4 DEF Positions
<1>6. clk' \in Seq(Clock) /\ Len(clk') = n /\ clk'[n] = c
      /\ \A i \in Positions : clk'[i] = clk[i]
  BY <1>1, <1>2 DEF Positions
<1>7. \A i \in Positions : past[i] \subseteq Positions
  BY <1>1 DEF Positions
<1>8. PastOf(trace, past, e) \subseteq Positions
  BY <1>7 DEF PastOf, Positions
<1>9. past \in Seq(SUBSET Positions')
  <2>1. \A i \in 1..Len(past) : past[i] \in SUBSET Positions'
    BY <1>1, <1>5, <1>7 DEF Positions
  <2> QED BY <1>1, <2>1
<1>10. past' \in Seq(SUBSET Positions') /\ Len(past') = n
       /\ past'[n] = PastOf(trace, past, e)
       /\ \A i \in Positions : past'[i] = past[i]
  BY <1>1, <1>2, <1>5, <1>8, <1>9 DEF Positions
<1> QED BY <1>3, <1>4, <1>5, <1>6, <1>8, <1>10

\* The pairs of Racing and the operation on the next event are typed.
LEMMA NextOperation ==
  ASSUME TypeOK, NEW e \in EventType, NEW c \in Clock, Record(e, c)
  PROVE  /\ Op(c) \in Operation'
         /\ Operation \subseteq Operation'
         /\ \A ops \in SUBSET Operation :
              Racing(ops, c) \subseteq Positions' \X Positions'
         /\ races \subseteq Positions' \X Positions'
         /\ syncHb \subseteq Positions' \X Positions'
<1>1. Positions' = Positions \union {Len(trace) + 1}
  BY RecordAppends
<1>2. Op(c) \in Operation'
  BY <1>1 DEF Op, Operation
<1>3. Operation \subseteq Operation'
  BY <1>1 DEF Operation
<1>4. \A ops \in SUBSET Operation :
        Racing(ops, c) \subseteq Positions' \X Positions'
  BY <1>1 DEF Racing, Operation
<1>5. races \subseteq Positions' \X Positions'
      /\ syncHb \subseteq Positions' \X Positions'
  BY <1>1 DEF TypeOK
<1> QED BY <1>2, <1>3, <1>4, <1>5

---------------------------------------------------------------------------
(* Types.                                                                  *)

LEMMA TypeInit == Init => TypeOK
<1> SUFFICES ASSUME Init PROVE TypeOK
  OBVIOUS
<1> USE DEF Init
<1>1. Positions = {}
  BY DEF Positions
<1>2. trace \in Seq(EventType) /\ clk \in Seq(Clock)
      /\ past \in Seq(SUBSET Positions)
      /\ Len(past) = Len(trace) /\ Len(clk) = Len(trace)
  OBVIOUS
<1>3. Zero \in Clock
  BY ClockType
<1> QED BY <1>2, <1>3 DEF TypeOK

\* An event of a thread, on an address of the right sort, is an event.
LEMMA EventIsTyped ==
  ASSUME NEW t \in Threads
  PROVE  /\ \A x \in Vars : Event("LD", t, x) \in EventType
                           /\ Event("ST", t, x) \in EventType
         /\ \A m \in SyncVars, op \in SyncAcqOps \union SyncRelOps \union {"WAIT"} :
               Event(op, t, m) \in EventType
         /\ \A u \in Threads : Event("CREATE", t, u) \in EventType
                              /\ Event("JOIN", t, u) \in EventType
BY DEF Event, EventType, AccessOps

\* Typing of the variables that an action may leave alone or replace: what
\* remains to be shown of an action that records event e with clock c.
LEMMA TypeStep ==
  ASSUME TypeOK, NEW e \in EventType, NEW c \in Clock, Record(e, c),
         threadVC' \in [Threads -> Clock], vcInit' \in [Threads -> BOOLEAN],
         syncVC' \in [SyncVars -> Clock],
         rset' \in [Vars -> SUBSET Operation'],
         wset' \in [Vars -> SUBSET Operation'],
         syncRel' \in [SyncVars -> SUBSET Operation'],
         races' \subseteq Positions' \X Positions',
         syncHb' \subseteq Positions' \X Positions'
  PROVE  TypeOK'
<1>1. trace' \in Seq(EventType) /\ past' \in Seq(SUBSET Positions')
      /\ Len(past') = Len(trace') /\ clk' \in Seq(Clock)
      /\ Len(clk') = Len(trace')
  BY RecordAppends
<1> QED BY <1>1 DEF TypeOK

LEMMA TypeNext == TypeOK /\ [Next]_vars => TypeOK'
<1> SUFFICES ASSUME TypeOK, [Next]_vars PROVE TypeOK'
  OBVIOUS
<1> DEFINE Typed ==
      /\ threadVC \in [Threads -> Clock] /\ vcInit \in [Threads -> BOOLEAN]
      /\ syncVC \in [SyncVars -> Clock]
      /\ rset \in [Vars -> SUBSET Operation] /\ wset \in [Vars -> SUBSET Operation]
      /\ syncRel \in [SyncVars -> SUBSET Operation]
<1>0. Typed
  BY DEF TypeOK
<1>1. ASSUME NEW t \in Threads, NEW x \in Vars, Load(t, x) PROVE TypeOK'
  <2> DEFINE e == Event("LD", t, x)  c == ThreadClock(t)
  <2>1. e \in EventType /\ c \in Clock /\ Record(e, c)
    BY <1>1, EventIsTyped, ThreadClockType DEF Load
  <2>2. /\ Op(c) \in Operation' /\ Operation \subseteq Operation'
        /\ Racing(wset[x], c) \subseteq Positions' \X Positions'
        /\ races \subseteq Positions' \X Positions'
        /\ syncHb \subseteq Positions' \X Positions'
    <3> HIDE DEF e, c
    <3> QED BY <2>1, <1>0, NextOperation
  <2>3. /\ threadVC' \in [Threads -> Clock] /\ vcInit' \in [Threads -> BOOLEAN]
        /\ syncVC' \in [SyncVars -> Clock]
    BY <1>0, <1>1, <2>1 DEF Load
  <2>4. /\ rset' \in [Vars -> SUBSET Operation']
        /\ wset' \in [Vars -> SUBSET Operation']
        /\ syncRel' \in [SyncVars -> SUBSET Operation']
    BY <1>0, <1>1, <2>2 DEF Load
  <2>5. /\ races' \subseteq Positions' \X Positions'
        /\ syncHb' \subseteq Positions' \X Positions'
    BY <1>1, <2>2 DEF Load
  <2> HIDE DEF e, c
  <2> QED BY <2>1, <2>3, <2>4, <2>5, TypeStep
<1>2. ASSUME NEW t \in Threads, NEW x \in Vars, Store(t, x) PROVE TypeOK'
  <2> DEFINE e == Event("ST", t, x)  c == ThreadClock(t)
  <2>1. e \in EventType /\ c \in Clock /\ Record(e, c)
    BY <1>2, EventIsTyped, ThreadClockType DEF Store
  <2>2. /\ Op(c) \in Operation' /\ Operation \subseteq Operation'
        /\ Racing(rset[x] \union wset[x], c) \subseteq Positions' \X Positions'
        /\ races \subseteq Positions' \X Positions'
        /\ syncHb \subseteq Positions' \X Positions'
    <3> HIDE DEF e, c
    <3>1. rset[x] \union wset[x] \in SUBSET Operation
      BY <1>0
    <3> QED BY <2>1, <3>1, NextOperation
  <2>3. /\ threadVC' \in [Threads -> Clock] /\ vcInit' \in [Threads -> BOOLEAN]
        /\ syncVC' \in [SyncVars -> Clock]
    BY <1>0, <1>2, <2>1 DEF Store
  <2>4. /\ rset' \in [Vars -> SUBSET Operation']
        /\ wset' \in [Vars -> SUBSET Operation']
        /\ syncRel' \in [SyncVars -> SUBSET Operation']
    BY <1>0, <1>2, <2>2 DEF Store
  <2>5. /\ races' \subseteq Positions' \X Positions'
        /\ syncHb' \subseteq Positions' \X Positions'
    BY <1>2, <2>2 DEF Store
  <2> HIDE DEF e, c
  <2> QED BY <2>1, <2>3, <2>4, <2>5, TypeStep
<1>3. ASSUME NEW t \in Threads, NEW m \in SyncVars, NEW op, Acquire(t, m, op)
      PROVE TypeOK'
  <2> DEFINE e == Event(op, t, m)  c == Merge(ThreadClock(t), syncVC[m])
  <2>1. e \in EventType /\ c \in Clock /\ Record(e, c)
    BY <1>0, <1>3, EventIsTyped, ThreadClockType, ClockType DEF Acquire
  <2>2. /\ Operation \subseteq Operation' /\ Positions' = Positions \union {Len(trace) + 1}
        /\ races \subseteq Positions' \X Positions'
        /\ syncHb \subseteq Positions' \X Positions'
    <3> HIDE DEF e, c
    <3> QED BY <2>1, NextOperation, RecordAppends
  <2>3. /\ threadVC' \in [Threads -> Clock] /\ vcInit' \in [Threads -> BOOLEAN]
        /\ syncVC' \in [SyncVars -> Clock]
    BY <1>0, <1>3, <2>1 DEF Acquire
  <2>4. /\ rset' \in [Vars -> SUBSET Operation']
        /\ wset' \in [Vars -> SUBSET Operation']
        /\ syncRel' \in [SyncVars -> SUBSET Operation']
    BY <1>0, <1>3, <2>2 DEF Acquire
  <2>5. /\ races' \subseteq Positions' \X Positions'
        /\ syncHb' \subseteq Positions' \X Positions'
    <3>1. \A o \in syncRel[m] : o.evt \in Positions
      BY <1>0 DEF Operation
    <3> QED BY <1>3, <2>2, <3>1 DEF Acquire
  <2> HIDE DEF e, c
  <2> QED BY <2>1, <2>3, <2>4, <2>5, TypeStep
<1>4. ASSUME NEW t \in Threads, NEW m \in SyncVars, NEW op, Release(t, m, op)
      PROVE TypeOK'
  <2> DEFINE e == Event(op, t, m)  c == ThreadClock(t)
  <2>1. e \in EventType /\ c \in Clock /\ Record(e, c)
    BY <1>4, EventIsTyped, ThreadClockType DEF Release
  <2>2. /\ Op(c) \in Operation' /\ Operation \subseteq Operation'
        /\ races \subseteq Positions' \X Positions'
        /\ syncHb \subseteq Positions' \X Positions'
    <3> HIDE DEF e, c
    <3> QED BY <2>1, NextOperation
  <2>3. /\ threadVC' \in [Threads -> Clock] /\ vcInit' \in [Threads -> BOOLEAN]
        /\ syncVC' \in [SyncVars -> Clock]
    <3>1. IncTick(c, t) \in Clock /\ Merge(syncVC[m], c) \in Clock
      BY <1>0, <2>1, ClockType
    <3> QED BY <1>0, <1>4, <3>1 DEF Release
  <2>4. /\ rset' \in [Vars -> SUBSET Operation']
        /\ wset' \in [Vars -> SUBSET Operation']
        /\ syncRel' \in [SyncVars -> SUBSET Operation']
    BY <1>0, <1>4, <2>2 DEF Release
  <2>5. /\ races' \subseteq Positions' \X Positions'
        /\ syncHb' \subseteq Positions' \X Positions'
    BY <1>4, <2>2 DEF Release
  <2> HIDE DEF e, c
  <2> QED BY <2>1, <2>3, <2>4, <2>5, TypeStep
<1>5. ASSUME NEW t \in Threads, NEW m \in SyncVars, Wait(t, m) PROVE TypeOK'
  <2> DEFINE e == Event("WAIT", t, m)  c == ThreadClock(t)
  <2>1. e \in EventType /\ c \in Clock /\ Record(e, c)
    BY <1>5, EventIsTyped, ThreadClockType DEF Wait
  <2>2. /\ Operation \subseteq Operation'
        /\ races \subseteq Positions' \X Positions'
        /\ syncHb \subseteq Positions' \X Positions'
    <3> HIDE DEF e, c
    <3> QED BY <2>1, NextOperation
  <2>3. /\ threadVC' \in [Threads -> Clock] /\ vcInit' \in [Threads -> BOOLEAN]
        /\ syncVC' \in [SyncVars -> Clock]
    BY <1>0, <1>5, <2>1 DEF Wait
  <2>4. /\ rset' \in [Vars -> SUBSET Operation']
        /\ wset' \in [Vars -> SUBSET Operation']
        /\ syncRel' \in [SyncVars -> SUBSET Operation']
        /\ races' \subseteq Positions' \X Positions'
        /\ syncHb' \subseteq Positions' \X Positions'
    BY <1>0, <1>5, <2>2 DEF Wait
  <2> HIDE DEF e, c
  <2> QED BY <2>1, <2>3, <2>4, TypeStep
<1>6. ASSUME NEW t \in Threads, NEW u \in Threads, Create(t, u) PROVE TypeOK'
  <2> DEFINE e == Event("CREATE", t, u)  c == ThreadClock(t)
  <2>1. e \in EventType /\ c \in Clock /\ Record(e, c)
    BY <1>6, EventIsTyped, ThreadClockType DEF Create
  <2>2. /\ Operation \subseteq Operation'
        /\ races \subseteq Positions' \X Positions'
        /\ syncHb \subseteq Positions' \X Positions'
    <3> HIDE DEF e, c
    <3> QED BY <2>1, NextOperation
  <2>3. /\ threadVC' \in [Threads -> Clock] /\ vcInit' \in [Threads -> BOOLEAN]
        /\ syncVC' \in [SyncVars -> Clock]
    <3>1. IncTick(c, t) \in Clock /\ Merge(ThreadClock(u), c) \in Clock
      BY <2>1, ThreadClockType, ClockType
    <3> QED BY <1>0, <1>6, <3>1 DEF Create
  <2>4. /\ rset' \in [Vars -> SUBSET Operation']
        /\ wset' \in [Vars -> SUBSET Operation']
        /\ syncRel' \in [SyncVars -> SUBSET Operation']
        /\ races' \subseteq Positions' \X Positions'
        /\ syncHb' \subseteq Positions' \X Positions'
    BY <1>0, <1>6, <2>2 DEF Create
  <2> HIDE DEF e, c
  <2> QED BY <2>1, <2>3, <2>4, TypeStep
<1>7. ASSUME NEW t \in Threads, NEW u \in Threads, Join(t, u) PROVE TypeOK'
  <2> DEFINE e == Event("JOIN", t, u)  c == Merge(ThreadClock(t), ThreadClock(u))
  <2>1. e \in EventType /\ c \in Clock /\ Record(e, c)
    BY <1>7, EventIsTyped, ThreadClockType, ClockType DEF Join
  <2>2. /\ Operation \subseteq Operation'
        /\ races \subseteq Positions' \X Positions'
        /\ syncHb \subseteq Positions' \X Positions'
    <3> HIDE DEF e, c
    <3> QED BY <2>1, NextOperation
  <2>3. /\ threadVC' \in [Threads -> Clock] /\ vcInit' \in [Threads -> BOOLEAN]
        /\ syncVC' \in [SyncVars -> Clock]
    <3>1. IncTick(ThreadClock(u), u) \in Clock
      BY ThreadClockType, ClockType
    <3> QED BY <1>0, <1>7, <2>1, <3>1 DEF Join
  <2>4. /\ rset' \in [Vars -> SUBSET Operation']
        /\ wset' \in [Vars -> SUBSET Operation']
        /\ syncRel' \in [SyncVars -> SUBSET Operation']
        /\ races' \subseteq Positions' \X Positions'
        /\ syncHb' \subseteq Positions' \X Positions'
    BY <1>0, <1>7, <2>2 DEF Join
  <2> HIDE DEF e, c
  <2> QED BY <2>1, <2>3, <2>4, TypeStep
<1>8. CASE UNCHANGED vars
  BY <1>8 DEF TypeOK, vars, historyVars, clockVars, Positions, Operation
<1> QED BY <1>1, <1>2, <1>3, <1>4, <1>5, <1>6, <1>7, <1>8
        DEF Next, VarAccess, SyncOp, ThreadOp

\* Type correctness of the detector: every clock keeps a tick for every
\* thread and every remembered operation is on an event already handled.
THEOREM TypeCorrect == Spec => []TypeOK
<1>1. Init => TypeOK
  BY TypeInit
<1>2. TypeOK /\ [Next]_vars => TypeOK'
  BY TypeNext
<1> QED BY <1>1, <1>2, PTL DEF Spec

---------------------------------------------------------------------------
(* The clocks stay ahead.                                                  *)

\* What OwnTickLeads says of thread w, of the clocks a step works with.
Leads(w, init, threads, syncs) ==
  /\ \A u \in Threads \ {w} : IF init[w] THEN threads[u][w] < threads[w][w]
                              ELSE threads[u][w] = 0
  /\ \A m \in SyncVars : IF init[w] THEN syncs[m][w] < threads[w][w]
                         ELSE syncs[m][w] = 0

\* Creating the clock of a thread keeps every clock ahead.
LEMMA TouchLeads ==
  ASSUME TypeOK, OwnTickLeads, NEW t \in Threads
  PROVE  \A w \in Threads :
           Leads(w, [vcInit EXCEPT ![t] = TRUE],
                 [threadVC EXCEPT ![t] = ThreadClock(t)], syncVC)
<1>1. /\ threadVC \in [Threads -> Clock] /\ vcInit \in [Threads -> BOOLEAN]
      /\ syncVC \in [SyncVars -> Clock]
  BY DEF TypeOK
<1>2. \A u, w \in Threads : threadVC[u][w] \in Nat
  BY <1>1 DEF Clock
<1>3. \A m \in SyncVars, w \in Threads : syncVC[m][w] \in Nat
  BY <1>1 DEF Clock
<1> SUFFICES ASSUME NEW w \in Threads
             PROVE  Leads(w, [vcInit EXCEPT ![t] = TRUE],
                          [threadVC EXCEPT ![t] = ThreadClock(t)], syncVC)
  OBVIOUS
<1>4. CASE vcInit[t]
  BY <1>1, <1>4 DEF OwnTickLeads, Leads, ThreadClock
<1>5. CASE ~vcInit[t]
  BY <1>1, <1>2, <1>3, <1>5 DEF OwnTickLeads, Leads, ThreadClock, IncTick, Clock
<1> QED BY <1>4, <1>5

\* Thread a tells thread b all it knows and then starts a new tick, both
\* having a clock: the clocks stay ahead.
LEMMA BothLead ==
  ASSUME TypeOK,
         NEW w \in Threads, NEW a \in Threads, NEW b \in Threads, a # b,
         Leads(w, [vcInit EXCEPT ![a] = TRUE],
               [threadVC EXCEPT ![a] = ThreadClock(a)], syncVC),
         Leads(w, [vcInit EXCEPT ![b] = TRUE],
               [threadVC EXCEPT ![b] = ThreadClock(b)], syncVC),
         threadVC'[a][w] = IF w = a THEN ThreadClock(a)[w] + 1 ELSE ThreadClock(a)[w],
         threadVC'[b][w] = IF ThreadClock(b)[w] >= ThreadClock(a)[w]
                           THEN ThreadClock(b)[w] ELSE ThreadClock(a)[w],
         \A v \in Threads \ {a, b} : threadVC'[v][w] = threadVC[v][w],
         \A v \in Threads : vcInit'[v] = (vcInit[v] \/ v \in {a, b}),
         syncVC' = syncVC
  PROVE  Leads(w, vcInit', threadVC', syncVC')
<1>1. /\ \A v \in Threads : threadVC[v][w] \in Nat /\ vcInit[v] \in BOOLEAN
      /\ \A m \in SyncVars : syncVC[m][w] \in Nat
      /\ ThreadClock(a)[w] \in Nat /\ ThreadClock(b)[w] \in Nat
      /\ threadVC \in [Threads -> Clock] /\ vcInit \in [Threads -> BOOLEAN]
  BY ThreadClockType DEF TypeOK, Clock
<1> DEFINE A == ThreadClock(a)[w]  B == ThreadClock(b)[w]
<1>2. CASE w = a
  <2>1. \A v \in Threads \ {a} : threadVC[v][w] < A
    BY <1>1, <1>2 DEF Leads
  <2>2. \A m \in SyncVars : syncVC[m][w] < A
    BY <1>1, <1>2 DEF Leads
  <2>3. B <= A
    BY <1>1, <1>2, <2>1 DEF ThreadClock, IncTick, Clock
  <2>4. threadVC'[w][w] = A + 1 /\ vcInit'[w]
    BY <1>1, <1>2
  <2>5. \A v \in Threads \ {w} : threadVC'[v][w] <= A
    BY <1>1, <1>2, <2>1, <2>3
  <2>6. \A v \in Threads \ {w} : threadVC'[v][w] \in Nat
    BY <1>1, <1>2
  <2> QED BY <1>1, <1>2, <2>2, <2>4, <2>5, <2>6 DEF Leads
<1>3. CASE w = b
  <2>1. \A v \in Threads \ {b} : threadVC[v][w] < B
    BY <1>1, <1>3 DEF Leads
  <2>2. \A m \in SyncVars : syncVC[m][w] < B
    BY <1>1, <1>3 DEF Leads
  <2>3. A < B
    BY <1>1, <1>3, <2>1 DEF ThreadClock, IncTick, Clock
  <2> QED BY <1>1, <1>3, <2>1, <2>2, <2>3 DEF Leads
<1>4. CASE w # a /\ w # b
  <2>1. A = threadVC[a][w] /\ B = threadVC[b][w]
    BY <1>1, <1>4 DEF ThreadClock, IncTick, Clock
  <2>2. \A v \in Threads \ {w} : IF vcInit[w] THEN threadVC[v][w] < threadVC[w][w]
                                ELSE threadVC[v][w] = 0
    BY <1>1, <1>4, <2>1 DEF Leads
  <2>3. \A m \in SyncVars : IF vcInit[w] THEN syncVC[m][w] < threadVC[w][w]
                           ELSE syncVC[m][w] = 0
    BY <1>1, <1>4 DEF Leads
  <2> QED BY <1>1, <1>4, <2>1, <2>2, <2>3 DEF Leads
<1> QED BY <1>2, <1>3, <1>4

LEMMA LeadsInit == Init => OwnTickLeads
<1> SUFFICES ASSUME Init PROVE OwnTickLeads
  OBVIOUS
<1>1. \A t \in Threads : ~vcInit[t] /\ threadVC[t] = Zero
  BY DEF Init
<1>2. \A m \in SyncVars : syncVC[m] = Zero
  BY DEF Init
<1>3. \A t \in Threads : Zero[t] = 0
  BY DEF Zero
<1> QED BY <1>1, <1>2, <1>3 DEF OwnTickLeads

LEMMA LeadsNext == TypeOK /\ OwnTickLeads /\ [Next]_vars => OwnTickLeads'
<1> SUFFICES ASSUME TypeOK, OwnTickLeads, [Next]_vars,
                    NEW w \in Threads
             PROVE  Leads(w, vcInit', threadVC', syncVC')
  BY DEF OwnTickLeads, Leads
<1> DEFINE init(t) == [vcInit EXCEPT ![t] = TRUE]
           threads(t) == [threadVC EXCEPT ![t] = ThreadClock(t)]
<1>0. /\ threadVC \in [Threads -> Clock] /\ vcInit \in [Threads -> BOOLEAN]
      /\ syncVC \in [SyncVars -> Clock]
      /\ \A t \in Threads : ThreadClock(t) \in Clock
  BY ThreadClockType DEF TypeOK
<1>1. ASSUME NEW t \in Threads,
             vcInit' = init(t), threadVC' = threads(t), UNCHANGED syncVC
      PROVE  Leads(w, vcInit', threadVC', syncVC')
  BY <1>1, TouchLeads
<1>2. ASSUME NEW t \in Threads, NEW x \in Vars, Load(t, x) \/ Store(t, x)
      PROVE  Leads(w, vcInit', threadVC', syncVC')
  BY <1>1, <1>2 DEF Load, Store
<1>3. ASSUME NEW t \in Threads, NEW m \in SyncVars, NEW op, Acquire(t, m, op)
      PROVE  Leads(w, vcInit', threadVC', syncVC')
  <2>1. Leads(w, init(t), threads(t), syncVC)
    BY TouchLeads
  <2>2. /\ threadVC' = [threadVC EXCEPT ![t] = Merge(ThreadClock(t), syncVC[m])]
        /\ vcInit' = init(t) /\ syncVC' = syncVC
    BY <1>3 DEF Acquire
  <2> QED BY <1>0, <2>1, <2>2 DEF Leads, Merge, Clock
<1>4. ASSUME NEW t \in Threads, NEW m \in SyncVars, NEW op, Release(t, m, op)
      PROVE  Leads(w, vcInit', threadVC', syncVC')
  <2>1. Leads(w, init(t), threads(t), syncVC)
    BY TouchLeads
  <2>2. /\ threadVC' = [threadVC EXCEPT ![t] = IncTick(ThreadClock(t), t)]
        /\ syncVC' = [syncVC EXCEPT ![m] = Merge(syncVC[m], ThreadClock(t))]
        /\ vcInit' = init(t)
    BY <1>4 DEF Release
  <2> QED BY <1>0, <2>1, <2>2 DEF Leads, Merge, IncTick, Clock
<1>5. ASSUME NEW t \in Threads, NEW m \in SyncVars, Wait(t, m)
      PROVE  Leads(w, vcInit', threadVC', syncVC')
  BY <1>1, <1>5 DEF Wait
<1>6. ASSUME NEW t \in Threads, NEW u \in Threads, Create(t, u)
      PROVE  Leads(w, vcInit', threadVC', syncVC')
  <2>1. Leads(w, init(t), threads(t), syncVC)
    BY TouchLeads
  <2>2. t # u
    BY <1>6 DEF Create, Record, Running, Event
  <2>3. /\ threadVC' = [threadVC EXCEPT ![u] = Merge(ThreadClock(u), ThreadClock(t)),
                                        ![t] = IncTick(ThreadClock(t), t)]
        /\ vcInit' = [vcInit EXCEPT ![t] = TRUE, ![u] = TRUE]
        /\ syncVC' = syncVC
    BY <1>6 DEF Create
  <2>4. Leads(w, init(u), threads(u), syncVC)
    BY TouchLeads
  <2>5. /\ threadVC'[t][w] = IF w = t THEN ThreadClock(t)[w] + 1 ELSE ThreadClock(t)[w]
        /\ threadVC'[u][w] = IF ThreadClock(u)[w] >= ThreadClock(t)[w]
                             THEN ThreadClock(u)[w] ELSE ThreadClock(t)[w]
        /\ \A v \in Threads \ {t, u} : threadVC'[v][w] = threadVC[v][w]
    BY <1>0, <2>2, <2>3 DEF Merge, IncTick, Clock
  <2>6. \A v \in Threads : vcInit'[v] = (vcInit[v] \/ v \in {t, u})
    BY <1>0, <2>3
  <2> QED BY <2>1, <2>2, <2>3, <2>4, <2>5, <2>6, BothLead
<1>7. ASSUME NEW t \in Threads, NEW u \in Threads, Join(t, u)
      PROVE  Leads(w, vcInit', threadVC', syncVC')
  <2>1. Leads(w, init(t), threads(t), syncVC)
    BY TouchLeads
  <2>2. Leads(w, init(u), threads(u), syncVC)
    BY TouchLeads
  <2>3. /\ t # u
        /\ threadVC' = [threadVC EXCEPT ![t] = Merge(ThreadClock(t), ThreadClock(u)),
                                        ![u] = IncTick(ThreadClock(u), u)]
        /\ vcInit' = [vcInit EXCEPT ![t] = TRUE, ![u] = TRUE]
        /\ syncVC' = syncVC
    BY <1>7 DEF Join
  <2>4. \A v \in Threads : vcInit'[v] = (vcInit[v] \/ v \in {t, u})
    BY <1>0, <2>3
  <2>5. /\ threadVC'[u][w] = IF w = u THEN ThreadClock(u)[w] + 1 ELSE ThreadClock(u)[w]
        /\ threadVC'[t][w] = IF ThreadClock(t)[w] >= ThreadClock(u)[w]
                             THEN ThreadClock(t)[w] ELSE ThreadClock(u)[w]
        /\ \A v \in Threads \ {t, u} : threadVC'[v][w] = threadVC[v][w]
    BY <1>0, <2>3 DEF Merge, IncTick, Clock
  <2> QED BY <1>0, <2>1, <2>2, <2>3, <2>4, <2>5, BothLead
<1>8. CASE UNCHANGED vars
  BY <1>8 DEF OwnTickLeads, Leads, vars, clockVars
<1> QED BY <1>2, <1>3, <1>4, <1>5, <1>6, <1>7, <1>8
        DEF Next, VarAccess, SyncOp, ThreadOp

\* Whatever the trace, no other thread and no sync variable knows a thread's
\* present tick.
THEOREM ClocksLead == Spec => []OwnTickLeads
<1>1. Init => TypeOK /\ OwnTickLeads
  BY TypeInit, LeadsInit
<1>2. TypeOK /\ OwnTickLeads /\ [Next]_vars => (TypeOK /\ OwnTickLeads)'
  BY TypeNext, LeadsNext
<1> QED BY <1>1, <1>2, PTL DEF Spec

---------------------------------------------------------------------------
(* No reported race is false.                                              *)

\* What a thread or a sync variable was told it still knows.
KnownClocks ==
  \A i \in Positions :
    /\ Leq(clk[i], threadVC[trace[i].tid])
    /\ trace[i].op = "CREATE" => Leq(clk[i], threadVC[trace[i].obj])
    /\ trace[i].op \in SyncRelOps => Leq(clk[i], syncVC[trace[i].obj])

\* The clock condition.
ClockCondition ==
  \A j \in Positions : \A i \in past[j] : i < j /\ Leq(clk[i], clk[j])

\* The remembered accesses are accesses of the trace with their clocks.
Remembered ==
  \A x \in Vars :
    /\ \A o \in rset[x] : /\ clk[o.evt] = o.vc
                          /\ trace[o.evt].op = "LD" /\ trace[o.evt].obj = x
    /\ \A o \in wset[x] : /\ clk[o.evt] = o.vc
                          /\ trace[o.evt].op = "ST" /\ trace[o.evt].obj = x

\* What the detector tests of the pairs it reports.
RacesConcurrent ==
  \A r \in races : /\ r[1] < r[2]
                   /\ Conflict(trace[r[1]], trace[r[2]])
                   /\ ConcurrentWith(clk[r[1]], clk[r[2]])

ClockInv == KnownClocks /\ ClockCondition /\ Remembered /\ RacesConcurrent

\* A step that records event e with clock c lets clocks only grow, and hands
\* c on to whoever learns of e.
Handles(e, c) ==
  /\ e \in EventType /\ c \in Clock /\ Record(e, c)
  /\ \A u \in Threads : Leq(threadVC[u], threadVC'[u])
  /\ \A m \in SyncVars : Leq(syncVC[m], syncVC'[m])
  /\ Leq(threadVC[e.tid], c) /\ Leq(c, threadVC'[e.tid])
  /\ e.op = "CREATE" => Leq(c, threadVC'[e.obj])
  /\ e.op = "JOIN" => Leq(threadVC[e.obj], c)
  /\ e.op \in SyncRelOps => Leq(c, syncVC'[e.obj])
  /\ e.op \in SyncAcqOps => Leq(syncVC[e.obj], c)

\* The addresses of an event by its operation.
LEMMA EventSorts ==
  \A e \in EventType :
    /\ e.tid \in Threads
    /\ e.op \in {"CREATE", "JOIN"} => e.obj \in Threads
    /\ e.op \in SyncAcqOps \union SyncRelOps => e.obj \in SyncVars
BY DEF EventType, AccessOps, SyncAcqOps, SyncRelOps

LEMMA OldEvents ==
  ASSUME TypeOK, NEW i \in Positions
  PROVE  trace[i] \in EventType /\ clk[i] \in Clock /\ past[i] \subseteq Positions
BY DEF TypeOK, Positions

\* Every action handles its event so, with its thread's clock as it is or
\* merged with what the event lets it know.
LEMMA ActionHandles ==
  ASSUME TypeOK, NEW t \in Threads
  PROVE  /\ \A x \in Vars : Load(t, x) => Handles(Event("LD", t, x), ThreadClock(t))
         /\ \A x \in Vars : Store(t, x) => Handles(Event("ST", t, x), ThreadClock(t))
         /\ \A m \in SyncVars : \A op :
              /\ Acquire(t, m, op)
                   => Handles(Event(op, t, m), Merge(ThreadClock(t), syncVC[m]))
              /\ Release(t, m, op) => Handles(Event(op, t, m), ThreadClock(t))
         /\ \A m \in SyncVars : Wait(t, m) => Handles(Event("WAIT", t, m), ThreadClock(t))
         /\ \A u \in Threads :
              /\ Create(t, u) => Handles(Event("CREATE", t, u), ThreadClock(t))
              /\ Join(t, u) => Handles(Event("JOIN", t, u), Merge(ThreadClock(t), ThreadClock(u)))
<1>0. /\ threadVC \in [Threads -> Clock] /\ syncVC \in [SyncVars -> Clock]
      /\ \A w \in Threads : threadVC[w] \in Clock /\ ThreadClock(w) \in Clock
                           /\ Leq(threadVC[w], ThreadClock(w))
                           /\ Leq(threadVC[w], threadVC[w])
      /\ \A m \in SyncVars : syncVC[m] \in Clock /\ Leq(syncVC[m], syncVC[m])
  BY ThreadClockType, LeqReflexive DEF TypeOK
<1>1. ASSUME NEW x \in Vars, Load(t, x)
      PROVE  Handles(Event("LD", t, x), ThreadClock(t))
  BY <1>0, <1>1, EventIsTyped, LeqReflexive
     DEF Load, Handles, Event, SyncAcqOps, SyncRelOps
<1>2. ASSUME NEW x \in Vars, Store(t, x)
      PROVE  Handles(Event("ST", t, x), ThreadClock(t))
  BY <1>0, <1>2, EventIsTyped, LeqReflexive
     DEF Store, Handles, Event, SyncAcqOps, SyncRelOps
<1>3. ASSUME NEW m \in SyncVars, NEW op, Acquire(t, m, op)
      PROVE  Handles(Event(op, t, m), Merge(ThreadClock(t), syncVC[m]))
  <2> DEFINE c == Merge(ThreadClock(t), syncVC[m])
  <2>1. c \in Clock /\ Leq(threadVC[t], c) /\ Leq(syncVC[m], c) /\ Leq(c, c)
    BY <1>0, ClockType, MergeIsUpperBound, LeqTransitive, LeqReflexive
  <2> QED BY <1>0, <1>3, <2>1, EventIsTyped
          DEF Acquire, Handles, Event, SyncAcqOps, SyncRelOps
<1>4. ASSUME NEW m \in SyncVars, NEW op, Release(t, m, op)
      PROVE  Handles(Event(op, t, m), ThreadClock(t))
  <2> DEFINE c == ThreadClock(t)
  <2>1. /\ Leq(c, IncTick(c, t)) /\ Leq(threadVC[t], IncTick(c, t))
        /\ Leq(syncVC[m], Merge(syncVC[m], c)) /\ Leq(c, Merge(syncVC[m], c))
    BY <1>0, ClockType, IncTickGoesUp, MergeIsUpperBound, LeqTransitive
  <2> QED BY <1>0, <1>4, <2>1, EventIsTyped
          DEF Release, Handles, Event, SyncAcqOps, SyncRelOps
<1>5. ASSUME NEW m \in SyncVars, Wait(t, m)
      PROVE  Handles(Event("WAIT", t, m), ThreadClock(t))
  BY <1>0, <1>5, EventIsTyped, LeqReflexive
     DEF Wait, Handles, Event, SyncAcqOps, SyncRelOps
<1>6. ASSUME NEW u \in Threads, Create(t, u)
      PROVE  Handles(Event("CREATE", t, u), ThreadClock(t))
  <2> DEFINE e == Event("CREATE", t, u)  c == ThreadClock(t)
  <2>1. t # u
    BY <1>6 DEF Create, Record, Running, Event
  <2>2. /\ Leq(c, IncTick(c, t)) /\ Leq(threadVC[t], IncTick(c, t))
        /\ Leq(c, Merge(ThreadClock(u), c))
        /\ Leq(threadVC[u], Merge(ThreadClock(u), c))
    BY <1>0, ClockType, IncTickGoesUp, MergeIsUpperBound, LeqTransitive
  <2>3. /\ threadVC'[t] = IncTick(c, t)
        /\ threadVC'[u] = Merge(ThreadClock(u), c)
        /\ \A v \in Threads \ {t, u} : threadVC'[v] = threadVC[v]
        /\ Record(e, c) /\ UNCHANGED syncVC
    BY <1>0, <1>6, <2>1 DEF Create
  <2>4. e \in EventType /\ e.tid = t /\ e.obj = u /\ e.op = "CREATE"
    BY EventIsTyped DEF Event
  <2> HIDE DEF e, c
  <2> QED BY <1>0, <2>2, <2>3, <2>4 DEF Handles, SyncAcqOps, SyncRelOps, e, c
<1>7. ASSUME NEW u \in Threads, Join(t, u)
      PROVE  Handles(Event("JOIN", t, u), Merge(ThreadClock(t), ThreadClock(u)))
  <2> DEFINE e == Event("JOIN", t, u)  c == Merge(ThreadClock(t), ThreadClock(u))
  <2>1. /\ c \in Clock /\ Leq(c, c) /\ Leq(threadVC[t], c) /\ Leq(threadVC[u], c)
        /\ Leq(threadVC[u], IncTick(ThreadClock(u), u))
    BY <1>0, ClockType, IncTickGoesUp, MergeIsUpperBound, LeqTransitive, LeqReflexive
  <2>2. /\ threadVC'[t] = c /\ threadVC'[u] = IncTick(ThreadClock(u), u)
        /\ \A v \in Threads \ {t, u} : threadVC'[v] = threadVC[v]
        /\ Record(e, c) /\ UNCHANGED syncVC
    BY <1>0, <1>7 DEF Join
  <2>3. e \in EventType /\ e.tid = t /\ e.obj = u /\ e.op = "JOIN"
    BY EventIsTyped DEF Event
  <2> HIDE DEF e, c
  <2>4. Handles(e, c)
    BY <1>0, <2>1, <2>2, <2>3 DEF Handles, SyncAcqOps, SyncRelOps
  <2> QED BY <2>4 DEF e, c
<1> QED BY <1>1, <1>2, <1>3, <1>4, <1>5, <1>6, <1>7

\* All that happens before the next event has a smaller clock.
LEMMA PastIsBelow ==
  ASSUME TypeOK, KnownClocks, ClockCondition, NEW e, NEW c, Handles(e, c)
  PROVE  \A i \in PastOf(trace, past, e) : i \in Positions /\ Leq(clk[i], c)
<1>1. e \in EventType /\ c \in Clock
  BY DEF Handles
<1>2. ASSUME NEW i \in Positions, Precedes(trace[i], e) PROVE Leq(clk[i], c)
  <2>1. trace[i] \in EventType /\ clk[i] \in Clock
    BY OldEvents
  <2>2. \A u \in Threads : threadVC[u] \in Clock
    BY DEF TypeOK
  <2>3. \A m \in SyncVars : syncVC[m] \in Clock
    BY DEF TypeOK
  <2>4. CASE trace[i].tid = e.tid
    <3>1. e.tid \in Threads /\ Leq(clk[i], threadVC[e.tid]) /\ Leq(threadVC[e.tid], c)
      BY <1>1, <2>4, EventSorts DEF KnownClocks, Handles
    <3> QED BY <1>1, <2>1, <2>2, <3>1, LeqTransitive
  <2>5. CASE trace[i].op = "CREATE" /\ trace[i].obj = e.tid
    <3>1. e.tid \in Threads /\ Leq(clk[i], threadVC[e.tid]) /\ Leq(threadVC[e.tid], c)
      BY <1>1, <2>5, EventSorts DEF KnownClocks, Handles
    <3> QED BY <1>1, <2>1, <2>2, <3>1, LeqTransitive
  <2>6. CASE e.op = "JOIN" /\ e.obj = trace[i].tid
    <3>1. e.obj \in Threads /\ Leq(clk[i], threadVC[e.obj]) /\ Leq(threadVC[e.obj], c)
      BY <1>1, <2>6, EventSorts DEF KnownClocks, Handles
    <3> QED BY <1>1, <2>1, <2>2, <3>1, LeqTransitive
  <2>7. CASE trace[i].op = "CREATE" /\ e.op = "JOIN" /\ trace[i].obj = e.obj
    <3>1. e.obj \in Threads /\ Leq(clk[i], threadVC[e.obj]) /\ Leq(threadVC[e.obj], c)
      BY <1>1, <2>7, EventSorts DEF KnownClocks, Handles
    <3> QED BY <1>1, <2>1, <2>2, <3>1, LeqTransitive
  <2>8. CASE /\ trace[i].op \in SyncRelOps /\ e.op \in SyncAcqOps
             /\ trace[i].obj = e.obj
    <3>1. e.obj \in SyncVars /\ Leq(clk[i], syncVC[e.obj]) /\ Leq(syncVC[e.obj], c)
      BY <1>1, <2>8, EventSorts DEF KnownClocks, Handles
    <3> QED BY <1>1, <2>1, <2>3, <3>1, LeqTransitive
  <2> QED BY <1>2, <2>4, <2>5, <2>6, <2>7, <2>8 DEF Precedes
<1>3. ASSUME NEW d \in Positions, Precedes(trace[d], e), NEW i \in past[d]
      PROVE  i \in Positions /\ Leq(clk[i], c)
  <2>1. i \in Positions /\ clk[i] \in Clock /\ clk[d] \in Clock
    BY OldEvents
  <2>2. Leq(clk[i], clk[d])
    BY DEF ClockCondition
  <2>3. Leq(clk[d], c)
    BY <1>2, <1>3
  <2> QED BY <1>1, <2>1, <2>2, <2>3, LeqTransitive
<1> QED BY <1>2, <1>3 DEF PastOf, Positions

LEMMA HandlesKeepsClocks ==
  ASSUME TypeOK, TypeOK', KnownClocks, ClockCondition,
         NEW e, NEW c, Handles(e, c)
  PROVE  KnownClocks' /\ ClockCondition'
<1> DEFINE n == Len(trace) + 1
<1>1. e \in EventType /\ c \in Clock /\ Record(e, c)
  BY DEF Handles
<1>2. /\ Len(trace) \in Nat /\ Positions' = Positions \union {n}
      /\ \A i \in Positions : trace'[i] = trace[i] /\ past'[i] = past[i] /\ clk'[i] = clk[i]
      /\ trace'[n] = e /\ clk'[n] = c /\ past'[n] = PastOf(trace, past, e)
  BY <1>1, RecordAppends
<1>3. \A i \in Positions : i < n
  BY <1>2 DEF Positions
<1>4. \A u \in Threads : threadVC[u] \in Clock /\ threadVC'[u] \in Clock
  BY DEF TypeOK
<1>5. \A m \in SyncVars : syncVC[m] \in Clock /\ syncVC'[m] \in Clock
  BY DEF TypeOK
<1>6. ASSUME NEW i \in Positions
      PROVE  /\ Leq(clk[i], threadVC'[trace[i].tid])
             /\ trace[i].op = "CREATE" => Leq(clk[i], threadVC'[trace[i].obj])
             /\ trace[i].op \in SyncRelOps => Leq(clk[i], syncVC'[trace[i].obj])
  <2>1. trace[i] \in EventType /\ clk[i] \in Clock
    BY OldEvents
  <2>2. /\ Leq(clk[i], threadVC[trace[i].tid])
        /\ trace[i].op = "CREATE" => Leq(clk[i], threadVC[trace[i].obj])
        /\ trace[i].op \in SyncRelOps => Leq(clk[i], syncVC[trace[i].obj])
    BY DEF KnownClocks
  <2>3. /\ \A u \in Threads : Leq(threadVC[u], threadVC'[u])
        /\ \A m \in SyncVars : Leq(syncVC[m], syncVC'[m])
    BY DEF Handles
  <2> QED BY <1>4, <1>5, <2>1, <2>2, <2>3, LeqTransitive, EventSorts
<1>7. KnownClocks'
  <2>1. /\ Leq(c, threadVC'[e.tid])
        /\ e.op = "CREATE" => Leq(c, threadVC'[e.obj])
        /\ e.op \in SyncRelOps => Leq(c, syncVC'[e.obj])
    BY DEF Handles
  <2> QED BY <1>2, <1>6, <2>1 DEF KnownClocks
<1>8. ClockCondition'
  <2>1. \A i \in past'[n] : i \in Positions /\ Leq(clk[i], c)
    BY <1>2, PastIsBelow
  <2>2. \A j \in Positions : \A i \in past[j] :
          i \in Positions /\ i < j /\ Leq(clk[i], clk[j])
    BY OldEvents DEF ClockCondition
  <2> QED BY <1>2, <1>3, <2>1, <2>2 DEF ClockCondition
<1> QED BY <1>7, <1>8

\* Remembered accesses and reported pairs stay what they were.
LEMMA HandlesKeepsRaces ==
  ASSUME TypeOK, Remembered, RacesConcurrent, NEW e, NEW c, Handles(e, c)
  PROVE  /\ \A x \in Vars : \A o \in rset[x] :
              /\ o.evt \in Positions /\ clk'[o.evt] = o.vc
              /\ trace'[o.evt].op = "LD" /\ trace'[o.evt].obj = x
         /\ \A x \in Vars : \A o \in wset[x] :
              /\ o.evt \in Positions /\ clk'[o.evt] = o.vc
              /\ trace'[o.evt].op = "ST" /\ trace'[o.evt].obj = x
         /\ \A r \in races : /\ r[1] < r[2]
                            /\ Conflict(trace'[r[1]], trace'[r[2]])
                            /\ ConcurrentWith(clk'[r[1]], clk'[r[2]])
<1>1. \A i \in Positions : trace'[i] = trace[i] /\ clk'[i] = clk[i]
  BY RecordAppends DEF Handles
<1>2. \A x \in Vars : \A o \in rset[x] \union wset[x] : o.evt \in Positions
  BY DEF TypeOK, Operation
<1>3. \A r \in races : r[1] \in Positions /\ r[2] \in Positions
  BY DEF TypeOK
<1> QED BY <1>1, <1>2, <1>3 DEF Remembered, RacesConcurrent

\* The pairs a step adds are concurrent with the next event.
LEMMA NewRaces ==
  ASSUME TypeOK, Remembered, RacesConcurrent, NEW e, NEW c, Handles(e, c),
         NEW x \in Vars, NEW ops \in SUBSET (rset[x] \union wset[x]),
         e.op \in AccessOps, e.obj = x,
         e.op = "ST" \/ ops \subseteq wset[x],
         races' = races \union Racing(ops, c)
  PROVE  RacesConcurrent'
<1> DEFINE n == Len(trace) + 1
<1>1. /\ Len(trace) \in Nat /\ trace'[n] = e /\ clk'[n] = c
  BY RecordAppends DEF Handles
<1>2. ASSUME NEW o \in ops, ConcurrentWith(o.vc, c)
      PROVE  /\ o.evt < n
             /\ Conflict(trace'[o.evt], trace'[n])
             /\ ConcurrentWith(clk'[o.evt], clk'[n])
  <2>1. /\ o.evt \in Positions /\ clk'[o.evt] = o.vc /\ trace'[o.evt].obj = x
        /\ trace'[o.evt].op \in AccessOps
        /\ o \in wset[x] => trace'[o.evt].op = "ST"
    BY HandlesKeepsRaces DEF AccessOps
  <2>2. o.evt < n
    BY <1>1, <2>1 DEF Positions
  <2> QED BY <1>1, <1>2, <2>1, <2>2 DEF Conflict
<1>3. ASSUME NEW r \in Racing(ops, c)
      PROVE  /\ r[1] < r[2]
             /\ Conflict(trace'[r[1]], trace'[r[2]])
             /\ ConcurrentWith(clk'[r[1]], clk'[r[2]])
  <2>1. PICK o \in ops : ConcurrentWith(o.vc, c) /\ r = <<o.evt, n>>
    BY DEF Racing
  <2> QED BY <1>2, <2>1
<1> QED BY <1>3, HandlesKeepsRaces DEF RacesConcurrent

\* An action that handles no variable access.
LEMMA SyncStep ==
  ASSUME TypeOK, TypeOK', ClockInv, NEW e, NEW c, Handles(e, c),
         UNCHANGED <<rset, wset, races>>
  PROVE  ClockInv'
BY HandlesKeepsClocks, HandlesKeepsRaces
   DEF ClockInv, Remembered, RacesConcurrent

LEMMA ClockInit == Init => ClockInv
BY DEF Init, ClockInv, KnownClocks, ClockCondition, Remembered,
       RacesConcurrent, Positions

LEMMA ClockNext == TypeOK /\ TypeOK' /\ ClockInv /\ [Next]_vars => ClockInv'
<1> SUFFICES ASSUME TypeOK, TypeOK', ClockInv, [Next]_vars PROVE ClockInv'
  OBVIOUS
<1>0. rset \in [Vars -> SUBSET Operation] /\ wset \in [Vars -> SUBSET Operation]
  BY DEF TypeOK
<1>1. ASSUME NEW t \in Threads, NEW x \in Vars, Load(t, x) PROVE ClockInv'
  <2> DEFINE e == Event("LD", t, x)  c == ThreadClock(t)
  <2>1. Handles(e, c) /\ e.op = "LD" /\ e.obj = x
    BY <1>1, ActionHandles DEF Event
  <2>2. RacesConcurrent'
    <3>1. races' = races \union Racing(wset[x], c)
      BY <1>1 DEF Load
    <3> QED BY <2>1, <3>1, NewRaces DEF ClockInv, AccessOps
  <2>3. Remembered'
    <3>1. /\ rset' = [rset EXCEPT ![x] = @ \union {Op(c)}] /\ wset' = wset
          /\ clk'[Len(trace) + 1] = c /\ trace'[Len(trace) + 1] = e
      BY <1>1, <2>1, RecordAppends DEF Load, Handles
    <3>2. Op(c).evt = Len(trace) + 1 /\ Op(c).vc = c
      BY DEF Op
    <3> HIDE DEF e, c
    <3> QED BY <1>0, <2>1, <3>1, <3>2, HandlesKeepsRaces DEF Remembered, ClockInv
  <2> QED BY <2>1, <2>2, <2>3, HandlesKeepsClocks DEF ClockInv
<1>2. ASSUME NEW t \in Threads, NEW x \in Vars, Store(t, x) PROVE ClockInv'
  <2> DEFINE e == Event("ST", t, x)  c == ThreadClock(t)
  <2>1. Handles(e, c) /\ e.op = "ST" /\ e.obj = x
    BY <1>2, ActionHandles DEF Event
  <2>2. RacesConcurrent'
    <3>1. races' = races \union Racing(rset[x] \union wset[x], c)
      BY <1>2 DEF Store
    <3> QED BY <2>1, <3>1, NewRaces DEF ClockInv, AccessOps
  <2>3. Remembered'
    <3>1. /\ rset' = [rset EXCEPT ![x] = {}] /\ wset' = [wset EXCEPT ![x] = {Op(c)}]
          /\ clk'[Len(trace) + 1] = c /\ trace'[Len(trace) + 1] = e
      BY <1>2, <2>1, RecordAppends DEF Store, Handles
    <3>2. Op(c).evt = Len(trace) + 1 /\ Op(c).vc = c
      BY DEF Op
    <3> HIDE DEF e, c
    <3> QED BY <1>0, <2>1, <3>1, <3>2, HandlesKeepsRaces DEF Remembered, ClockInv
  <2> QED BY <2>1, <2>2, <2>3, HandlesKeepsClocks DEF ClockInv
<1>3. ASSUME NEW t \in Threads, NEW m \in SyncVars, NEW op, Acquire(t, m, op)
      PROVE  ClockInv'
  <2>1. UNCHANGED <<rset, wset, races>>
    BY <1>3 DEF Acquire
  <2> QED BY <1>3, <2>1, ActionHandles, SyncStep
<1>4. ASSUME NEW t \in Threads, NEW m \in SyncVars, NEW op, Release(t, m, op)
      PROVE  ClockInv'
  <2>1. UNCHANGED <<rset, wset, races>>
    BY <1>4 DEF Release
  <2> QED BY <1>4, <2>1, ActionHandles, SyncStep
<1>5. ASSUME NEW t \in Threads, NEW m \in SyncVars, Wait(t, m) PROVE ClockInv'
  <2>1. UNCHANGED <<rset, wset, races>>
    BY <1>5 DEF Wait
  <2> QED BY <1>5, <2>1, ActionHandles, SyncStep
<1>6. ASSUME NEW t \in Threads, NEW u \in Threads, Create(t, u) PROVE ClockInv'
  <2>1. UNCHANGED <<rset, wset, races>>
    BY <1>6 DEF Create
  <2> QED BY <1>6, <2>1, ActionHandles, SyncStep
<1>7. ASSUME NEW t \in Threads, NEW u \in Threads, Join(t, u) PROVE ClockInv'
  <2>1. UNCHANGED <<rset, wset, races>>
    BY <1>7 DEF Join
  <2> QED BY <1>7, <2>1, ActionHandles, SyncStep
<1>8. CASE UNCHANGED vars
  BY <1>8 DEF ClockInv, KnownClocks, ClockCondition, Remembered,
              RacesConcurrent, Positions, vars, historyVars, clockVars
<1> QED BY <1>1, <1>2, <1>3, <1>4, <1>5, <1>6, <1>7, <1>8
        DEF Next, VarAccess, SyncOp, ThreadOp

\* Concurrent clocks mean unordered events.
LEMMA ConcurrentIsUnordered == TypeOK /\ ClockInv => RacesAreReal
<1> SUFFICES ASSUME TypeOK, ClockInv, NEW r \in races
             PROVE  Conflict(trace[r[1]], trace[r[2]]) /\ Unordered(r[1], r[2])
  BY DEF RacesAreReal
<1>1. r[1] \in Positions /\ r[2] \in Positions
  BY DEF TypeOK
<1> QED BY <1>1 DEF ClockInv, ClockCondition, RacesConcurrent, Unordered, ConcurrentWith

\* The detector reports no false race, whatever the trace.
THEOREM NoFalseRace == Spec => []RacesAreReal
<1>1. Init => TypeOK /\ ClockInv
  BY TypeInit, ClockInit
<1>2. TypeOK /\ ClockInv /\ [Next]_vars => (TypeOK /\ ClockInv)'
  BY TypeNext, ClockNext
<1>3. TypeOK /\ ClockInv => RacesAreReal
  BY ConcurrentIsUnordered
<1> QED BY <1>1, <1>2, <1>3, PTL DEF Spec

---------------------------------------------------------------------------
(* The pairs of sync events.                                               *)

Acquired(m, i) ==
  \E k \in Positions : i < k /\ trace[k].op \in SyncAcqOps /\ trace[k].obj = m

\* The releases remembered of a sync variable are those that no acquisition
\* has been paired with yet.
PendingReleases ==
  \A m \in SyncVars, i \in Positions :
    (\E o \in syncRel[m] : o.evt = i)
      <=> trace[i].op \in SyncRelOps /\ trace[i].obj = m /\ ~Acquired(m, i)

PairsInv == PendingReleases /\ SyncPairsAreNearest

\* What the handler of event e does with the pairs.
Pairs(e, c) ==
  /\ e \in EventType /\ c \in Clock /\ Record(e, c)
  /\ e.op \in SyncAcqOps =>
       /\ syncHb' = syncHb \union {<<o.evt, Len(trace) + 1>> : o \in syncRel[e.obj]}
       /\ syncRel' = [syncRel EXCEPT ![e.obj] = {}]
  /\ e.op \in SyncRelOps =>
       /\ syncHb' = syncHb
       /\ syncRel' = [syncRel EXCEPT ![e.obj] = @ \union {Op(c)}]
  /\ e.op \notin SyncAcqOps \union SyncRelOps => UNCHANGED <<syncHb, syncRel>>

\* Every action handles its event so.
LEMMA NextPairs ==
  ASSUME TypeOK, Next
  PROVE  \E e, c : Pairs(e, c)
<1>0. /\ \A t \in Threads : threadVC[t] \in Clock /\ ThreadClock(t) \in Clock
      /\ \A m \in SyncVars : syncVC[m] \in Clock
      /\ \A k, d \in Clock : Merge(k, d) \in Clock
  BY ThreadClockType, ClockType DEF TypeOK
<1>1. ASSUME NEW t \in Threads, NEW x \in Vars, Load(t, x)
      PROVE  Pairs(Event("LD", t, x), ThreadClock(t))
  BY <1>0, <1>1, EventIsTyped DEF Load, Pairs, Event, SyncAcqOps, SyncRelOps
<1>2. ASSUME NEW t \in Threads, NEW x \in Vars, Store(t, x)
      PROVE  Pairs(Event("ST", t, x), ThreadClock(t))
  BY <1>0, <1>2, EventIsTyped DEF Store, Pairs, Event, SyncAcqOps, SyncRelOps
<1>3. ASSUME NEW t \in Threads, NEW m \in SyncVars, NEW op, Acquire(t, m, op)
      PROVE  Pairs(Event(op, t, m), Merge(ThreadClock(t), syncVC[m]))
  BY <1>0, <1>3, EventIsTyped DEF Acquire, Pairs, Event, SyncAcqOps, SyncRelOps
<1>4. ASSUME NEW t \in Threads, NEW m \in SyncVars, NEW op, Release(t, m, op)
      PROVE  Pairs(Event(op, t, m), ThreadClock(t))
  BY <1>0, <1>4, EventIsTyped DEF Release, Pairs, Event, SyncAcqOps, SyncRelOps
<1>5. ASSUME NEW t \in Threads, NEW m \in SyncVars, Wait(t, m)
      PROVE  Pairs(Event("WAIT", t, m), ThreadClock(t))
  BY <1>0, <1>5, EventIsTyped DEF Wait, Pairs, Event, SyncAcqOps, SyncRelOps
<1>6. ASSUME NEW t \in Threads, NEW u \in Threads, Create(t, u)
      PROVE  Pairs(Event("CREATE", t, u), ThreadClock(t))
  BY <1>0, <1>6, EventIsTyped DEF Create, Pairs, Event, SyncAcqOps, SyncRelOps
<1>7. ASSUME NEW t \in Threads, NEW u \in Threads, Join(t, u)
      PROVE  Pairs(Event("JOIN", t, u), Merge(ThreadClock(t), ThreadClock(u)))
  BY <1>0, <1>7, EventIsTyped DEF Join, Pairs, Event, SyncAcqOps, SyncRelOps
<1> QED BY <1>1, <1>2, <1>3, <1>4, <1>5, <1>6, <1>7
        DEF Next, VarAccess, SyncOp, ThreadOp

\* The next event is the last: it follows every position, and it is what a
\* release is acquired by if nothing was before.
LEMMA AcquiredNext ==
  ASSUME TypeOK, NEW e, NEW c, Pairs(e, c), NEW m
  PROVE  \A i \in Positions' :
           Acquired(m, i)' <=> /\ i \in Positions
                               /\ \/ Acquired(m, i)
                                  \/ e.op \in SyncAcqOps /\ e.obj = m
<1>0. PICK n : n = Len(trace) + 1
  OBVIOUS
<1>1. /\ Len(trace) \in Nat /\ Positions' = Positions \union {n}
      /\ \A i \in Positions : trace'[i] = trace[i]
      /\ trace'[n] = e
  BY <1>0, RecordAppends DEF Pairs
<1>2. \A i \in Positions : i \in Int /\ i < n /\ n \in Int
  BY <1>0, <1>1 DEF Positions
<1> QED BY <1>0, <1>1, <1>2 DEF Acquired

LEMMA PendingNext ==
  ASSUME TypeOK, PendingReleases, NEW e, NEW c, Pairs(e, c)
  PROVE  PendingReleases'
<1>0. PICK n : n = Len(trace) + 1
  OBVIOUS
<1>1. /\ Len(trace) \in Nat /\ Positions' = Positions \union {n} /\ n \notin Positions
      /\ \A i \in Positions : trace'[i] = trace[i]
      /\ trace'[n] = e
  BY <1>0, RecordAppends DEF Pairs, Positions
<1>2. \A m \in SyncVars : \A o \in syncRel[m] : o.evt \in Positions
  BY DEF TypeOK, Operation
<1>3. Op(c).evt = n
  BY <1>0 DEF Op
<1>4. syncRel \in [SyncVars -> SUBSET Operation] /\ e \in EventType
  BY DEF TypeOK, Pairs
<1> SUFFICES ASSUME NEW m \in SyncVars, NEW i \in Positions'
             PROVE  (\E o \in syncRel'[m] : o.evt = i)
                      <=> /\ trace'[i].op \in SyncRelOps /\ trace'[i].obj = m
                          /\ ~Acquired(m, i)'
  BY DEF PendingReleases
<1>5. SyncAcqOps \intersect SyncRelOps = {}
  BY DEF SyncAcqOps, SyncRelOps
<1>6. CASE i \in Positions
  <2>1. (\E o \in syncRel[m] : o.evt = i)
          <=> trace[i].op \in SyncRelOps /\ trace[i].obj = m /\ ~Acquired(m, i)
    BY <1>6 DEF PendingReleases
  <2>2. Acquired(m, i)' <=> Acquired(m, i) \/ (e.op \in SyncAcqOps /\ e.obj = m)
    BY <1>1, <1>6, AcquiredNext
  <2>3. CASE e.op \in SyncAcqOps
    <3>1. syncRel' = [syncRel EXCEPT ![e.obj] = {}]
      BY <2>3 DEF Pairs
    <3> QED BY <1>1, <1>4, <1>6, <2>1, <2>2, <2>3, <3>1
  <2>4. CASE e.op \in SyncRelOps
    <3>1. syncRel' = [syncRel EXCEPT ![e.obj] = @ \union {Op(c)}]
      BY <2>4 DEF Pairs
    <3> QED BY <1>1, <1>3, <1>4, <1>5, <1>6, <2>1, <2>2, <2>4, <3>1
  <2>5. CASE e.op \notin SyncAcqOps \union SyncRelOps
    BY <1>1, <1>6, <2>1, <2>2, <2>5 DEF Pairs
  <2> QED BY <2>3, <2>4, <2>5
<1>7. CASE i = n
  <2>1. ~Acquired(m, i)'
    BY <1>1, <1>7, AcquiredNext
  <2>2. ~\E o \in syncRel[m] : o.evt = n
    BY <1>1, <1>2
  <2>3. CASE e.op \in SyncAcqOps
    <3>1. syncRel' = [syncRel EXCEPT ![e.obj] = {}]
      BY <2>3 DEF Pairs
    <3> QED BY <1>1, <1>4, <1>5, <1>7, <2>2, <2>3, <3>1
  <2>4. CASE e.op \in SyncRelOps
    <3>1. syncRel' = [syncRel EXCEPT ![e.obj] = @ \union {Op(c)}] /\ e.obj \in SyncVars
      BY <1>4, <2>4, EventSorts DEF Pairs
    <3> QED BY <1>1, <1>3, <1>4, <1>7, <2>1, <2>2, <2>4, <3>1
  <2>5. CASE e.op \notin SyncAcqOps \union SyncRelOps
    BY <1>1, <1>7, <2>2, <2>5 DEF Pairs
  <2> QED BY <2>3, <2>4, <2>5
<1> QED BY <1>1, <1>6, <1>7

\* No acquisition of the variable stands between two positions.
Between(i, j) ==
  \E k \in (i + 1)..(j - 1) : trace[k].op \in SyncAcqOps /\ trace[k].obj = trace[i].obj

LEMMA NearestNext ==
  ASSUME TypeOK, PairsInv, NEW e, NEW c, Pairs(e, c)
  PROVE  SyncPairsAreNearest'
<1>0. PICK n : n = Len(trace) + 1
  OBVIOUS
<1> DEFINE Nearest(i, j) == /\ i < j
                            /\ trace[i].op \in SyncRelOps /\ trace[j].op \in SyncAcqOps
                            /\ trace[i].obj = trace[j].obj
                            /\ ~Between(i, j)
<1>1. /\ Len(trace) \in Nat /\ Positions' = Positions \union {n} /\ n \notin Positions
      /\ \A i \in Positions : trace'[i] = trace[i]
      /\ trace'[n] = e
  BY <1>0, RecordAppends DEF Pairs, Positions
<1>2. e \in EventType /\ syncHb \subseteq Positions \X Positions
      /\ \A m \in SyncVars : \A o \in syncRel[m] : o.evt \in Positions
  BY DEF TypeOK, Operation, Pairs
<1> SUFFICES ASSUME NEW i \in Positions', NEW j \in Positions'
             PROVE  <<i, j>> \in syncHb' <=> Nearest(i, j)'
  BY DEF SyncPairsAreNearest, Between
<1>3. Positions = 1..(n - 1) /\ n \in Nat
  BY <1>0, <1>1 DEF Positions
<1>4. CASE j \in Positions
  <2>1. <<i, j>> \in syncHb' <=> <<i, j>> \in syncHb
    BY <1>0, <1>1, <1>2, <1>4, EventSorts DEF Pairs
  <2>2. CASE i \in Positions
    <3>1. (i + 1)..(j - 1) \subseteq Positions
      BY <1>3, <1>4, <2>2
    <3>2. Nearest(i, j)' <=> Nearest(i, j)
      BY <1>1, <1>4, <2>2, <3>1 DEF Between
    <3> QED BY <1>4, <2>1, <2>2, <3>2 DEF PairsInv, SyncPairsAreNearest, Between
  <2>3. CASE i = n
    BY <1>1, <1>2, <1>3, <1>4, <2>1, <2>3
  <2> QED BY <1>1, <2>2, <2>3
<1>5. CASE j = n
  <2>1. <<i, n>> \notin syncHb
    BY <1>1, <1>2
  <2>2. CASE e.op \in SyncAcqOps /\ i \in Positions
    <3>1. /\ syncHb' = syncHb \union {<<o.evt, n>> : o \in syncRel[e.obj]}
          /\ e.obj \in SyncVars
      BY <1>0, <1>2, <2>2, EventSorts DEF Pairs
    <3>2. <<i, n>> \in syncHb' <=> \E o \in syncRel[e.obj] : o.evt = i
      BY <2>1, <3>1
    <3>3. (\E o \in syncRel[e.obj] : o.evt = i)
            <=> trace[i].op \in SyncRelOps /\ trace[i].obj = e.obj /\ ~Acquired(e.obj, i)
      BY <2>2, <3>1 DEF PairsInv, PendingReleases
    <3>4. trace[i].obj = e.obj => (Acquired(e.obj, i) <=> Between(i, j)')
      <4>1. \A k : k \in Positions /\ i < k <=> k \in (i + 1)..(j - 1)
        BY <1>3, <1>5, <2>2
      <4>2. \A k \in (i + 1)..(j - 1) : trace'[k] = trace[k]
        BY <1>1, <4>1
      <4> QED BY <1>1, <2>2, <4>1, <4>2 DEF Acquired, Between
    <3> QED BY <1>1, <1>3, <1>5, <2>2, <3>2, <3>3, <3>4
  <2>3. CASE e.op \notin SyncAcqOps
    <3>1. syncHb' = syncHb
      BY <2>3 DEF Pairs
    <3> QED BY <1>1, <1>5, <2>1, <2>3, <3>1
  <2>4. CASE i = n
    <3>1. <<n, n>> \notin syncHb'
      <4>1. CASE e.op \in SyncAcqOps
        <5>1. /\ syncHb' = syncHb \union {<<o.evt, n>> : o \in syncRel[e.obj]}
              /\ e.obj \in SyncVars
          BY <1>0, <1>2, <4>1, EventSorts DEF Pairs
        <5> QED BY <1>1, <1>2, <5>1
      <4>2. CASE e.op \notin SyncAcqOps
        BY <1>1, <1>2, <4>2 DEF Pairs
      <4> QED BY <4>1, <4>2
    <3> QED BY <1>3, <1>5, <2>4, <3>1
  <2> QED BY <1>1, <2>2, <2>3, <2>4
<1> QED BY <1>1, <1>4, <1>5

\* A release is paired with the first later acquisition of its variable and
\* with no other, in traces of any length: the thread summaries count no pair
\* of sync events that the next acquisition separates.
THEOREM PairsAreNearest == Spec => []SyncPairsAreNearest
<1>1. Init => TypeOK /\ PairsInv
  <2> SUFFICES ASSUME Init PROVE PairsInv
    BY TypeInit
  <2>1. Positions = {}
    BY DEF Init, Positions
  <2> QED BY <2>1 DEF PairsInv, PendingReleases, SyncPairsAreNearest
<1>2. TypeOK /\ PairsInv /\ [Next]_vars => (TypeOK /\ PairsInv)'
  <2> SUFFICES ASSUME TypeOK, PairsInv, [Next]_vars PROVE PairsInv'
    BY TypeNext
  <2>1. CASE Next
    BY <2>1, NextPairs, PendingNext, NearestNext DEF PairsInv
  <2>2. CASE UNCHANGED vars
    BY <2>2 DEF PairsInv, PendingReleases, Acquired, SyncPairsAreNearest, Positions,
                vars, historyVars
  <2> QED BY <2>1, <2>2
<1>3. PairsInv => SyncPairsAreNearest
  BY DEF PairsInv
<1> QED BY <1>1, <1>2, <1>3, PTL DEF Spec

---------------------------------------------------------------------------
(* No racy variable goes unnoticed.                                        *)
(*                                                                         *)
(* The converse of the clock condition: whoever knows the tick at which a  *)
(* thread did something comes after it.  With it a pair the detector finds *)
(* concurrent is one that is unordered, and a remembered access stands for *)
(* the forgotten ones: they happen before it, unless a race on their       *)
(* variable has been reported.                                             *)

\* The events in S and all that happens before them.
AndBefore(S) == S \union UNION {past[i] : i \in S}

\* What happens before whatever thread u, or an acquisition of m, does next.
ThreadPast(u) ==
  AndBefore({i \in Positions : \/ trace[i].tid = u
                               \/ trace[i].op = "CREATE" /\ trace[i].obj = u})
SyncPast(m) ==
  AndBefore({i \in Positions : trace[i].op \in SyncRelOps /\ trace[i].obj = m})

\* Clock c knows the tick at which event i was handled.
Knows(c, i) == clk[i][trace[i].tid] <= c[trace[i].tid]

ThreadsCameAfter == \A i \in Positions, u \in Threads : Knows(threadVC[u], i) => i \in ThreadPast(u)
SyncsCameAfter == \A i \in Positions, m \in SyncVars : Knows(syncVC[m], i) => i \in SyncPast(m)
EventsCameAfter == \A i, j \in Positions : i < j /\ Knows(clk[j], i) => i \in past[j]

\* Whoever knows a tick of another thread comes after what it did then.
TicksTell == ThreadsCameAfter /\ SyncsCameAfter /\ EventsCameAfter

PastIsTransitive == \A j \in Positions : \A i \in past[j] : past[i] \subseteq past[j]

\* A step that handles event e with clock c adds to a clock only what is told
\* by e, by the clock c, to those who come after e.
Tells(e, c) ==
  /\ Handles(e, c)
  /\ \A u \in Threads :
       \/ \A w \in Threads \ {u} : threadVC'[u][w] <= threadVC[u][w]
       \/ /\ u = e.tid \/ (e.op = "CREATE" /\ u = e.obj)
          /\ \A w \in Threads \ {u} : threadVC'[u][w] <= threadVC[u][w] \/ threadVC'[u][w] <= c[w]
  /\ \A m \in SyncVars :
       \/ syncVC'[m] = syncVC[m]
       \/ /\ e.op \in SyncRelOps /\ m = e.obj
          /\ \A w \in Threads : syncVC'[m][w] <= syncVC[m][w] \/ syncVC'[m][w] <= c[w]
  /\ \A w \in Threads \ {e.tid} :
       \/ c[w] <= threadVC[e.tid][w]
       \/ e.op = "JOIN" /\ (c[w] <= threadVC[e.obj][w] \/ w = e.obj)
       \/ e.op \in SyncAcqOps /\ c[w] <= syncVC[e.obj][w]
  /\ \A u \in Threads \ {e.tid} : threadVC[u][e.tid] < c[e.tid]
  /\ \A m \in SyncVars : syncVC[m][e.tid] < c[e.tid]

\* What the handler of e does with the accesses.
Accesses(e, c) ==
  /\ e.op = "LD" => /\ races' = races \union Racing(wset[e.obj], c)
                    /\ rset' = [rset EXCEPT ![e.obj] = @ \union {Op(c)}]
                    /\ wset' = wset
  /\ e.op = "ST" => /\ races' = races \union Racing(rset[e.obj] \union wset[e.obj], c)
                    /\ rset' = [rset EXCEPT ![e.obj] = {}]
                    /\ wset' = [wset EXCEPT ![e.obj] = {Op(c)}]
  /\ e.op \notin AccessOps => UNCHANGED <<rset, wset, races>>

\* A thread's clock differs from the stored one in its own tick at most, and
\* that one nobody else knows.
LEMMA OwnTickOnly ==
  ASSUME TypeOK, OwnTickLeads, NEW t \in Threads
  PROVE  /\ \A w \in Threads \ {t} : ThreadClock(t)[w] = threadVC[t][w]
         /\ \A u \in Threads \ {t} : threadVC[u][t] < ThreadClock(t)[t]
         /\ \A m \in SyncVars : syncVC[m][t] < ThreadClock(t)[t]
<1>1. /\ threadVC \in [Threads -> Clock] /\ vcInit \in [Threads -> BOOLEAN]
      /\ \A u, w \in Threads : threadVC[u][w] \in Nat
  BY DEF TypeOK, Clock
<1>2. CASE vcInit[t]
  BY <1>1, <1>2 DEF ThreadClock, OwnTickLeads
<1>3. CASE ~vcInit[t]
  <2>1. /\ threadVC[t] \in [Threads -> Nat]
        /\ ThreadClock(t) = [threadVC[t] EXCEPT ![t] = @ + 1]
    BY <1>1, <1>3 DEF ThreadClock, IncTick, Clock
  <2>2. ThreadClock(t)[t] = threadVC[t][t] + 1
    BY <2>1
  <2>3. /\ \A u \in Threads \ {t} : threadVC[u][t] = 0
        /\ \A m \in SyncVars : syncVC[m][t] = 0
    BY <1>3 DEF OwnTickLeads
  <2> QED BY <1>1, <2>1, <2>2, <2>3
<1> QED BY <1>2, <1>3

LEMMA MergeIsOneOf ==
  ASSUME NEW c \in Clock, NEW d \in Clock, NEW w \in Threads
  PROVE  /\ Merge(c, d)[w] = c[w] \/ Merge(c, d)[w] = d[w]
         /\ Merge(c, d)[w] >= c[w] /\ Merge(c, d)[w] >= d[w]
         /\ c[w] \in Nat /\ d[w] \in Nat
<1>1. c[w] \in Nat /\ d[w] \in Nat
  BY DEF Clock
<1>2. Merge(c, d)[w] = IF c[w] >= d[w] THEN c[w] ELSE d[w]
  BY DEF Merge
<1> QED BY <1>1, <1>2

LEMMA NextTells ==
  ASSUME TypeOK, OwnTickLeads, Next
  PROVE  \E e, c : Tells(e, c) /\ Accesses(e, c)
<1>0. /\ \A t \in Threads : threadVC[t] \in Clock /\ ThreadClock(t) \in Clock
      /\ \A m \in SyncVars : syncVC[m] \in Clock
      /\ threadVC \in [Threads -> Clock] /\ syncVC \in [SyncVars -> Clock]
      /\ \A u, w \in Threads : threadVC[u][w] \in Nat /\ ThreadClock(u)[w] \in Nat
  BY ThreadClockType DEF TypeOK, Clock
<1>9. \A u \in Threads : \A w \in Threads \ {u} : ThreadClock(u)[w] = threadVC[u][w]
  BY OwnTickOnly
<1>1. ASSUME NEW t \in Threads, NEW e, e.tid = t, e.op \notin SyncRelOps,
             Handles(e, ThreadClock(t)),
             threadVC' = [threadVC EXCEPT ![t] = ThreadClock(t)], syncVC' = syncVC
      PROVE  Tells(e, ThreadClock(t))
  <2>1. \A u \in Threads : \A w \in Threads \ {u} : threadVC'[u][w] <= threadVC[u][w]
    <3>1. \A u \in Threads \ {t} : threadVC'[u] = threadVC[u]
      BY <1>0, <1>1
    <3>2. \A w \in Threads \ {t} : threadVC'[t][w] = threadVC[t][w]
      BY <1>0, <1>1, OwnTickOnly
    <3> QED BY <1>0, <3>1, <3>2
  <2>2. \A w \in Threads \ {t} : ThreadClock(t)[w] <= threadVC[t][w]
    BY <1>0, OwnTickOnly
  <2> QED BY <1>1, <2>1, <2>2, OwnTickOnly DEF Tells
<1>2. ASSUME NEW t \in Threads, NEW x \in Vars, Load(t, x)
      PROVE  \E e, c : Tells(e, c) /\ Accesses(e, c)
  <2> DEFINE e == Event("LD", t, x)
  <2>1. e.tid = t /\ e.op \notin SyncRelOps /\ e.op = "LD" /\ e.obj = x
    BY DEF Event, SyncRelOps
  <2>2. Tells(e, ThreadClock(t))
    <3>1. Handles(e, ThreadClock(t))
      BY <1>2, ActionHandles
    <3>2. threadVC' = [threadVC EXCEPT ![t] = ThreadClock(t)] /\ syncVC' = syncVC
      BY <1>2 DEF Load
    <3> HIDE DEF e
    <3> QED BY <1>1, <2>1, <3>1, <3>2
  <2>3. Accesses(e, ThreadClock(t))
    BY <1>2, <2>1 DEF Accesses, Load, AccessOps
  <2> QED BY <2>2, <2>3
<1>3. ASSUME NEW t \in Threads, NEW x \in Vars, Store(t, x)
      PROVE  \E e, c : Tells(e, c) /\ Accesses(e, c)
  <2> DEFINE e == Event("ST", t, x)
  <2>1. e.tid = t /\ e.op \notin SyncRelOps /\ e.op = "ST" /\ e.obj = x
    BY DEF Event, SyncRelOps
  <2>2. Tells(e, ThreadClock(t))
    <3>1. Handles(e, ThreadClock(t))
      BY <1>3, ActionHandles
    <3>2. threadVC' = [threadVC EXCEPT ![t] = ThreadClock(t)] /\ syncVC' = syncVC
      BY <1>3 DEF Store
    <3> HIDE DEF e
    <3> QED BY <1>1, <2>1, <3>1, <3>2
  <2>3. Accesses(e, ThreadClock(t))
    BY <1>3, <2>1 DEF Accesses, Store, AccessOps
  <2> QED BY <2>2, <2>3
<1>4. ASSUME NEW t \in Threads, NEW m \in SyncVars, NEW op, Acquire(t, m, op)
      PROVE  \E e, c : Tells(e, c) /\ Accesses(e, c)
  <2> DEFINE e == Event(op, t, m)  c == Merge(ThreadClock(t), syncVC[m])
  <2>1. /\ e.tid = t /\ e.op \in SyncAcqOps /\ e.obj = m
        /\ e.op \notin SyncRelOps /\ e.op \notin AccessOps /\ e.op # "CREATE"
    BY <1>4 DEF Event, Acquire, SyncAcqOps, SyncRelOps, AccessOps
  <2>2. Handles(e, c)
    BY <1>4, ActionHandles
  <2>3. threadVC' = [threadVC EXCEPT ![t] = c] /\ syncVC' = syncVC
        /\ UNCHANGED <<rset, wset, races>>
    BY <1>4 DEF Acquire
  <2>4. \A w \in Threads : /\ c[w] = ThreadClock(t)[w] \/ c[w] = syncVC[m][w]
                          /\ c[w] >= ThreadClock(t)[w]
                          /\ c[w] \in Nat /\ ThreadClock(t)[w] \in Nat /\ syncVC[m][w] \in Nat
    BY <1>0, MergeIsOneOf
  <2> HIDE DEF e, c
  <2>5. /\ \A u \in Threads \ {t} : threadVC'[u] = threadVC[u]
        /\ threadVC'[t] = c
    BY <1>0, <2>3
  <2>6. /\ \A u \in Threads \ {t} : threadVC[u][t] < c[t]
        /\ \A n \in SyncVars : syncVC[n][t] < c[t]
    <3>1. \A n \in SyncVars : syncVC[n][t] \in Nat
      BY <1>0 DEF Clock
    <3> QED BY <1>0, <2>4, <3>1, OwnTickOnly
  <2>7. \A w \in Threads \ {t} : c[w] <= threadVC[t][w] \/ c[w] <= syncVC[m][w]
    <3> SUFFICES ASSUME NEW w \in Threads \ {t}
                 PROVE  c[w] <= threadVC[t][w] \/ c[w] <= syncVC[m][w]
      OBVIOUS
    <3>1. ThreadClock(t)[w] = threadVC[t][w]
      BY <1>9
    <3> QED BY <1>0, <2>4, <3>1
  <2>8. Tells(e, c)
    BY <1>0, <2>1, <2>2, <2>3, <2>4, <2>5, <2>6, <2>7 DEF Tells
  <2> QED BY <2>1, <2>3, <2>8 DEF Accesses, AccessOps
<1>5. ASSUME NEW t \in Threads, NEW m \in SyncVars, NEW op, Release(t, m, op)
      PROVE  \E e, c : Tells(e, c) /\ Accesses(e, c)
  <2> DEFINE e == Event(op, t, m)  c == ThreadClock(t)
  <2>1. /\ e.tid = t /\ e.op \in SyncRelOps /\ e.obj = m
        /\ e.op \notin AccessOps /\ e.op # "CREATE" /\ e.op # "JOIN"
    BY <1>5 DEF Event, Release, SyncAcqOps, SyncRelOps, AccessOps
  <2>2. Handles(e, c)
    BY <1>5, ActionHandles
  <2>3. /\ threadVC' = [threadVC EXCEPT ![t] = IncTick(c, t)]
        /\ syncVC' = [syncVC EXCEPT ![m] = Merge(syncVC[m], c)]
        /\ UNCHANGED <<rset, wset, races>>
    BY <1>5 DEF Release
  <2>4. /\ c \in Clock
        /\ \A w \in Threads \ {t} : c[w] = threadVC[t][w]
        /\ \A u \in Threads \ {t} : threadVC[u][t] < c[t]
        /\ \A n \in SyncVars : syncVC[n][t] < c[t]
    BY <1>0, OwnTickOnly
  <2> HIDE DEF e, c
  <2>5. /\ \A u \in Threads \ {t} : threadVC'[u] = threadVC[u]
        /\ \A w \in Threads \ {t} : threadVC'[t][w] = threadVC[t][w]
    BY <1>0, <2>3, <2>4 DEF IncTick, Clock
  <2>6. \A u \in Threads : \A w \in Threads \ {u} : threadVC'[u][w] <= threadVC[u][w]
    BY <1>0, <2>5
  <2>7. /\ \A n \in SyncVars \ {m} : syncVC'[n] = syncVC[n]
        /\ \A w \in Threads : syncVC'[m][w] <= syncVC[m][w] \/ syncVC'[m][w] <= c[w]
    <3>1. /\ \A n \in SyncVars \ {m} : syncVC'[n] = syncVC[n]
          /\ syncVC'[m] = Merge(syncVC[m], c)
      BY <1>0, <2>3
    <3> QED BY <1>0, <2>4, <3>1, MergeIsOneOf
  <2>8. Tells(e, c)
    BY <1>0, <2>1, <2>2, <2>4, <2>6, <2>7 DEF Tells
  <2> QED BY <2>1, <2>3, <2>8 DEF Accesses, AccessOps
<1>6. ASSUME NEW t \in Threads, NEW m \in SyncVars, Wait(t, m)
      PROVE  \E e, c : Tells(e, c) /\ Accesses(e, c)
  <2> DEFINE e == Event("WAIT", t, m)
  <2>1. e.tid = t /\ e.op \notin SyncRelOps /\ e.op \notin AccessOps
    BY DEF Event, SyncRelOps, AccessOps
  <2>2. Tells(e, ThreadClock(t))
    <3>1. Handles(e, ThreadClock(t))
      BY <1>6, ActionHandles
    <3>2. threadVC' = [threadVC EXCEPT ![t] = ThreadClock(t)] /\ syncVC' = syncVC
      BY <1>6 DEF Wait
    <3> HIDE DEF e
    <3> QED BY <1>1, <2>1, <3>1, <3>2
  <2>3. Accesses(e, ThreadClock(t))
    BY <1>6, <2>1 DEF Accesses, Wait, AccessOps
  <2> QED BY <2>2, <2>3
<1>7. ASSUME NEW t \in Threads, NEW u \in Threads, Create(t, u)
      PROVE  \E e, c : Tells(e, c) /\ Accesses(e, c)
  <2> DEFINE e == Event("CREATE", t, u)  c == ThreadClock(t)
  <2>1. /\ e.tid = t /\ e.op = "CREATE" /\ e.obj = u
        /\ e.op \notin AccessOps
    BY DEF Event, AccessOps
  <2>2. Handles(e, c)
    BY <1>7, ActionHandles
  <2>3. t # u
    BY <1>7 DEF Create, Record, Running, Event
  <2>4. /\ threadVC' = [threadVC EXCEPT ![u] = Merge(ThreadClock(u), c), ![t] = IncTick(c, t)]
        /\ syncVC' = syncVC /\ UNCHANGED <<rset, wset, races>>
    BY <1>7 DEF Create
  <2>5. /\ c \in Clock
        /\ \A w \in Threads \ {t} : c[w] = threadVC[t][w]
        /\ \A v \in Threads \ {t} : threadVC[v][t] < c[t]
        /\ \A n \in SyncVars : syncVC[n][t] < c[t]
    BY <1>0, OwnTickOnly
  <2> HIDE DEF e, c
  <2>6. /\ \A v \in Threads \ {t, u} : threadVC'[v] = threadVC[v]
        /\ threadVC'[u] = Merge(ThreadClock(u), c)
        /\ \A w \in Threads \ {t} : threadVC'[t][w] = threadVC[t][w]
    BY <1>0, <2>3, <2>4, <2>5 DEF IncTick, Clock
  <2>7. \A w \in Threads \ {u} : threadVC'[u][w] <= threadVC[u][w] \/ threadVC'[u][w] <= c[w]
    <3> SUFFICES ASSUME NEW w \in Threads \ {u}
                 PROVE  threadVC'[u][w] <= threadVC[u][w] \/ threadVC'[u][w] <= c[w]
      OBVIOUS
    <3>1. ThreadClock(u)[w] = threadVC[u][w] /\ ThreadClock(u) \in Clock
      BY <1>0, <1>9
    <3>2. Merge(ThreadClock(u), c)[w] = ThreadClock(u)[w] \/ Merge(ThreadClock(u), c)[w] = c[w]
      BY <2>5, <3>1, MergeIsOneOf
    <3>3. c[w] \in Nat /\ threadVC[u][w] \in Nat
      BY <1>0, <2>5 DEF Clock
    <3> QED BY <2>6, <3>1, <3>2, <3>3
  <2>8. \A v \in Threads \ {u} : \A w \in Threads \ {v} : threadVC'[v][w] <= threadVC[v][w]
    BY <1>0, <2>6
  <2>9. Tells(e, c)
    BY <1>0, <2>1, <2>2, <2>4, <2>5, <2>7, <2>8 DEF Tells
  <2> QED BY <2>1, <2>4, <2>9 DEF Accesses, AccessOps
<1>8. ASSUME NEW t \in Threads, NEW u \in Threads, Join(t, u)
      PROVE  \E e, c : Tells(e, c) /\ Accesses(e, c)
  <2> DEFINE e == Event("JOIN", t, u)  c == Merge(ThreadClock(t), ThreadClock(u))
  <2>1. /\ e.tid = t /\ e.op = "JOIN" /\ e.obj = u
        /\ e.op \notin AccessOps
    BY DEF Event, AccessOps
  <2>2. Handles(e, c)
    BY <1>8, ActionHandles
  <2>3. /\ t # u
        /\ threadVC' = [threadVC EXCEPT ![t] = c, ![u] = IncTick(ThreadClock(u), u)]
        /\ syncVC' = syncVC /\ UNCHANGED <<rset, wset, races>>
    BY <1>8 DEF Join
  <2>4. \A w \in Threads : /\ c[w] = ThreadClock(t)[w] \/ c[w] = ThreadClock(u)[w]
                          /\ c[w] >= ThreadClock(t)[w]
                          /\ c[w] \in Nat
    BY <1>0, MergeIsOneOf
  <2> HIDE DEF e, c
  <2>5. /\ \A v \in Threads \ {t, u} : threadVC'[v] = threadVC[v]
        /\ threadVC'[t] = c
        /\ \A w \in Threads \ {u} : threadVC'[u][w] = threadVC[u][w]
    BY <1>0, <2>3, OwnTickOnly DEF IncTick, Clock
  <2>6. /\ \A v \in Threads \ {t} : threadVC[v][t] < c[t]
        /\ \A n \in SyncVars : syncVC[n][t] < c[t]
    <3>1. \A n \in SyncVars : syncVC[n][t] \in Nat
      BY <1>0 DEF Clock
    <3> QED BY <1>0, <2>4, <3>1, OwnTickOnly
  <2>7. \A w \in Threads \ {t} : c[w] <= threadVC[t][w] \/ c[w] <= threadVC[u][w] \/ w = u
    <3> SUFFICES ASSUME NEW w \in Threads \ {t}
                 PROVE  c[w] <= threadVC[t][w] \/ c[w] <= threadVC[u][w] \/ w = u
      OBVIOUS
    <3>1. ThreadClock(t)[w] = threadVC[t][w] /\ (w # u => ThreadClock(u)[w] = threadVC[u][w])
      BY <1>9
    <3> QED BY <1>0, <2>4, <3>1
  <2>8. \A v \in Threads \ {t} : \A w \in Threads \ {v} : threadVC'[v][w] <= threadVC[v][w]
    BY <1>0, <2>5
  <2>9. Tells(e, c)
    BY <1>0, <2>1, <2>2, <2>3, <2>4, <2>5, <2>6, <2>7, <2>8 DEF Tells
  <2> QED BY <2>1, <2>3, <2>9 DEF Accesses, AccessOps
<1> QED BY <1>2, <1>3, <1>4, <1>5, <1>6, <1>7, <1>8
        DEF Next, VarAccess, SyncOp, ThreadOp

\* What the next event comes after: all that its thread comes after, the
\* joined thread, and the sync variable it acquires.
LEMMA PastIsTold ==
  ASSUME TypeOK, NEW e \in EventType
  PROVE  /\ ThreadPast(e.tid) \subseteq PastOf(trace, past, e)
         /\ e.op = "JOIN" => ThreadPast(e.obj) \subseteq PastOf(trace, past, e)
         /\ e.op \in SyncAcqOps => SyncPast(e.obj) \subseteq PastOf(trace, past, e)
<1>1. ASSUME NEW S \in SUBSET Positions, \A i \in S : Precedes(trace[i], e)
      PROVE  AndBefore(S) \subseteq PastOf(trace, past, e)
  BY <1>1 DEF AndBefore, PastOf, Positions
<1>2. ThreadPast(e.tid) \subseteq PastOf(trace, past, e)
  <2> DEFINE S == {i \in Positions : \/ trace[i].tid = e.tid
                                     \/ trace[i].op = "CREATE" /\ trace[i].obj = e.tid}
  <2>1. S \in SUBSET Positions /\ \A i \in S : Precedes(trace[i], e)
    BY DEF Precedes
  <2> HIDE DEF S
  <2>2. AndBefore(S) \subseteq PastOf(trace, past, e)
    BY <1>1, <2>1
  <2> QED BY <2>2 DEF ThreadPast, S
<1>3. ASSUME e.op = "JOIN" PROVE ThreadPast(e.obj) \subseteq PastOf(trace, past, e)
  <2> DEFINE S == {i \in Positions : \/ trace[i].tid = e.obj
                                     \/ trace[i].op = "CREATE" /\ trace[i].obj = e.obj}
  <2>1. S \in SUBSET Positions /\ \A i \in S : Precedes(trace[i], e)
    BY <1>3 DEF Precedes
  <2> HIDE DEF S
  <2>2. AndBefore(S) \subseteq PastOf(trace, past, e)
    BY <1>1, <2>1
  <2> QED BY <2>2 DEF ThreadPast, S
<1>4. ASSUME e.op \in SyncAcqOps PROVE SyncPast(e.obj) \subseteq PastOf(trace, past, e)
  <2> DEFINE S == {i \in Positions : trace[i].op \in SyncRelOps /\ trace[i].obj = e.obj}
  <2>1. S \in SUBSET Positions /\ \A i \in S : Precedes(trace[i], e)
    BY <1>4 DEF Precedes
  <2> HIDE DEF S
  <2>2. AndBefore(S) \subseteq PastOf(trace, past, e)
    BY <1>1, <2>1
  <2> QED BY <2>2 DEF SyncPast, S
<1> QED BY <1>2, <1>3, <1>4

\* Nothing is taken from what comes after, and the next event is added, with
\* all before it, to its thread, the thread it creates and the sync variable
\* it releases.
LEMMA PastGrows ==
  ASSUME TypeOK, NEW e \in EventType, NEW c \in Clock, Record(e, c),
         NEW i \in Positions'
  PROVE  /\ \A u \in Threads : i \in ThreadPast(u) => i \in ThreadPast(u)'
         /\ \A m \in SyncVars : i \in SyncPast(m) => i \in SyncPast(m)'
         /\ i = Len(trace) + 1 \/ i \in PastOf(trace, past, e) =>
              /\ i \in ThreadPast(e.tid)'
              /\ e.op = "CREATE" => i \in ThreadPast(e.obj)'
              /\ e.op \in SyncRelOps => i \in SyncPast(e.obj)'
<1>0. PICK n : n = Len(trace) + 1
  OBVIOUS
<1>1. /\ Len(trace) \in Nat /\ Positions' = Positions \union {n}
      /\ \A k \in Positions : trace'[k] = trace[k] /\ past'[k] = past[k]
      /\ trace'[n] = e /\ past'[n] = PastOf(trace, past, e)
  BY <1>0, RecordAppends
<1>2. \A u \in Threads : i \in ThreadPast(u) => i \in ThreadPast(u)'
  BY <1>1 DEF ThreadPast, AndBefore
<1>3. \A m \in SyncVars : i \in SyncPast(m) => i \in SyncPast(m)'
  BY <1>1 DEF SyncPast, AndBefore
<1>4. ASSUME i = n \/ i \in PastOf(trace, past, e)
      PROVE  /\ i \in ThreadPast(e.tid)'
             /\ e.op = "CREATE" => i \in ThreadPast(e.obj)'
             /\ e.op \in SyncRelOps => i \in SyncPast(e.obj)'
  <2>1. n \in Positions' /\ (i = n \/ i \in past'[n])
    BY <1>1, <1>4
  <2>2. i \in ThreadPast(e.tid)'
    BY <1>1, <2>1 DEF ThreadPast, AndBefore
  <2>3. e.op = "CREATE" => i \in ThreadPast(e.obj)'
    BY <1>1, <2>1 DEF ThreadPast, AndBefore
  <2>4. e.op \in SyncRelOps => i \in SyncPast(e.obj)'
    BY <1>1, <2>1 DEF SyncPast, AndBefore
  <2> QED BY <2>2, <2>3, <2>4
<1> QED BY <1>0, <1>2, <1>3, <1>4

\* Whoever's tick the clock of the next event knows is in its past.
LEMMA KnownIsPast ==
  ASSUME TypeOK, TicksTell, NEW e, NEW c, Tells(e, c),
         NEW i \in Positions, Knows(c, i)
  PROVE  i \in PastOf(trace, past, e)
<1> DEFINE w == trace[i].tid
<1>1. /\ e \in EventType /\ c \in Clock /\ w \in Threads
      /\ clk[i][w] \in Nat /\ c[w] \in Nat
  BY OldEvents, EventSorts DEF Tells, Handles, Clock
<1>2. CASE w = e.tid
  BY <1>1, <1>2, PastIsTold DEF ThreadPast, AndBefore
<1>3. CASE w # e.tid
  <2>1. CASE c[w] <= threadVC[e.tid][w]
    <3>1. e.tid \in Threads /\ threadVC[e.tid][w] \in Nat
      BY <1>1, EventSorts DEF TypeOK, Clock
    <3>2. Knows(threadVC[e.tid], i)
      BY <1>1, <2>1, <3>1 DEF Knows
    <3>3. i \in ThreadPast(e.tid)
      BY <3>1, <3>2 DEF TicksTell, ThreadsCameAfter
    <3> QED BY <1>1, <3>3, PastIsTold
  <2>2. CASE e.op = "JOIN" /\ c[w] <= threadVC[e.obj][w]
    <3>1. e.obj \in Threads /\ threadVC[e.obj][w] \in Nat
      BY <1>1, <2>2, EventSorts DEF TypeOK, Clock
    <3>2. Knows(threadVC[e.obj], i)
      BY <1>1, <2>2, <3>1 DEF Knows
    <3>3. i \in ThreadPast(e.obj)
      BY <3>1, <3>2 DEF TicksTell, ThreadsCameAfter
    <3> QED BY <1>1, <2>2, <3>3, PastIsTold
  <2>3. CASE e.op = "JOIN" /\ w = e.obj
    BY <1>1, <2>3, PastIsTold DEF ThreadPast, AndBefore
  <2>4. CASE e.op \in SyncAcqOps /\ c[w] <= syncVC[e.obj][w]
    <3>1. e.obj \in SyncVars /\ syncVC[e.obj][w] \in Nat
      BY <1>1, <2>4, EventSorts DEF TypeOK, Clock
    <3>2. Knows(syncVC[e.obj], i)
      BY <1>1, <2>4, <3>1 DEF Knows
    <3>3. i \in SyncPast(e.obj)
      BY <3>1, <3>2 DEF TicksTell, SyncsCameAfter
    <3> QED BY <1>1, <2>4, <3>3, PastIsTold
  <2> QED BY <1>1, <1>3, <2>1, <2>2, <2>3, <2>4 DEF Tells
<1> QED BY <1>2, <1>3

LEMMA TicksTellNext ==
  ASSUME TypeOK, TypeOK', TicksTell, NEW e, NEW c, Tells(e, c)
  PROVE  TicksTell'
<1>0. PICK n : n = Len(trace) + 1
  OBVIOUS
<1>1. /\ e \in EventType /\ c \in Clock /\ Record(e, c)
      /\ e.tid \in Threads /\ c[e.tid] \in Nat
  BY EventSorts DEF Tells, Handles, Clock
<1>2. /\ Len(trace) \in Nat /\ Positions' = Positions \union {n}
      /\ \A k \in Positions : /\ trace'[k] = trace[k] /\ past'[k] = past[k]
                              /\ clk'[k] = clk[k]
      /\ trace'[n] = e /\ clk'[n] = c /\ past'[n] = PastOf(trace, past, e)
  BY <1>0, <1>1, RecordAppends
<1>8. n \in Nat /\ \A k \in Positions : k < n /\ k \in Nat
  BY <1>0, <1>2 DEF Positions
<1>3. /\ \A u, w \in Threads : threadVC[u][w] \in Nat /\ threadVC'[u][w] \in Nat
      /\ \A m \in SyncVars, w \in Threads : syncVC[m][w] \in Nat /\ syncVC'[m][w] \in Nat
      /\ \A w \in Threads : c[w] \in Nat
  BY <1>1 DEF TypeOK, Clock
<1>4. \A i \in Positions : /\ trace[i].tid \in Threads
                           /\ clk[i][trace[i].tid] \in Nat
  BY OldEvents, EventSorts DEF Clock
<1>5. ThreadsCameAfter'
  <2> SUFFICES ASSUME NEW i \in Positions', NEW u \in Threads, Knows(threadVC[u], i)'
               PROVE  i \in ThreadPast(u)'
    BY DEF ThreadsCameAfter
  <2>1. CASE i \in Positions
    <3> DEFINE w == trace[i].tid
    <3>1. w \in Threads /\ clk[i][w] \in Nat /\ clk[i][w] <= threadVC'[u][w]
      BY <1>2, <1>4, <2>1 DEF Knows
    <3> HIDE DEF w
    <3>2. CASE w = u
      BY <1>2, <2>1, <3>2 DEF ThreadPast, AndBefore, w
    <3>3. CASE w # u /\ threadVC'[u][w] <= threadVC[u][w]
      <4>1. clk[i][w] <= threadVC[u][w]
        BY <1>3, <3>1, <3>3
      <4>2. i \in ThreadPast(u)
        BY <2>1, <4>1 DEF TicksTell, ThreadsCameAfter, Knows, w
      <4> QED BY <1>1, <4>2, PastGrows
    <3>4. CASE /\ w # u /\ threadVC'[u][w] <= c[w]
               /\ u = e.tid \/ (e.op = "CREATE" /\ u = e.obj)
      <4>1. clk[i][w] <= c[w]
        BY <1>3, <3>1, <3>4
      <4>2. i \in PastOf(trace, past, e)
        BY <2>1, <4>1, KnownIsPast DEF Knows, w
      <4> QED BY <1>1, <3>4, <4>2, PastGrows
    <3> QED BY <3>1, <3>2, <3>3, <3>4 DEF Tells
  <2>2. CASE i = n
    <3>1. c[e.tid] <= threadVC'[u][e.tid]
      BY <1>2, <2>2 DEF Knows
    <3>2. CASE u = e.tid
      BY <1>0, <1>1, <2>2, <3>2, PastGrows
    <3>3. CASE u # e.tid
      <4>1. threadVC[u][e.tid] < c[e.tid]
        BY <3>3 DEF Tells
      <4>2. ~(threadVC'[u][e.tid] <= threadVC[u][e.tid])
        BY <1>1, <1>3, <3>1, <4>1
      <4>3. e.op = "CREATE" /\ u = e.obj
        BY <1>1, <3>3, <4>2 DEF Tells
      <4> QED BY <1>0, <1>1, <2>2, <4>3, PastGrows
    <3> QED BY <3>2, <3>3
  <2> QED BY <1>2, <2>1, <2>2
<1>6. SyncsCameAfter'
  <2> SUFFICES ASSUME NEW i \in Positions', NEW m \in SyncVars, Knows(syncVC[m], i)'
               PROVE  i \in SyncPast(m)'
    BY DEF SyncsCameAfter
  <2>1. CASE i \in Positions
    <3> DEFINE w == trace[i].tid
    <3>1. w \in Threads /\ clk[i][w] \in Nat /\ clk[i][w] <= syncVC'[m][w]
      BY <1>2, <1>4, <2>1 DEF Knows
    <3> HIDE DEF w
    <3>2. CASE syncVC'[m][w] <= syncVC[m][w]
      <4>1. clk[i][w] <= syncVC[m][w]
        BY <1>3, <3>1, <3>2
      <4>2. i \in SyncPast(m)
        BY <2>1, <4>1 DEF TicksTell, SyncsCameAfter, Knows, w
      <4> QED BY <1>1, <4>2, PastGrows
    <3>3. CASE syncVC'[m][w] <= c[w] /\ e.op \in SyncRelOps /\ m = e.obj
      <4>1. clk[i][w] <= c[w]
        BY <1>3, <3>1, <3>3
      <4>2. i \in PastOf(trace, past, e)
        BY <2>1, <4>1, KnownIsPast DEF Knows, w
      <4> QED BY <1>1, <3>3, <4>2, PastGrows
    <3>4. syncVC'[m] = syncVC[m] => syncVC'[m][w] <= syncVC[m][w]
      BY <1>3, <3>1
    <3> QED BY <3>1, <3>2, <3>3, <3>4 DEF Tells
  <2>2. CASE i = n
    <3>1. c[e.tid] <= syncVC'[m][e.tid]
      BY <1>2, <2>2 DEF Knows
    <3>2. syncVC[m][e.tid] < c[e.tid]
      BY DEF Tells
    <3>3. syncVC'[m] # syncVC[m]
      BY <1>1, <1>3, <3>1, <3>2
    <3>4. e.op \in SyncRelOps /\ m = e.obj
      BY <3>3 DEF Tells
    <3> QED BY <1>0, <1>1, <2>2, <3>4, PastGrows
  <2> QED BY <1>2, <2>1, <2>2
<1>7. EventsCameAfter'
  <2> SUFFICES ASSUME NEW i \in Positions', NEW j \in Positions', i < j, Knows(clk[j], i)'
               PROVE  i \in past'[j]
    BY DEF EventsCameAfter
  <2>1. CASE j \in Positions
    <3>1. i \in Positions
      BY <1>0, <1>2, <1>8, <2>1
    <3> QED BY <1>2, <2>1, <3>1 DEF TicksTell, EventsCameAfter, Knows
  <2>2. CASE j = n
    <3>1. i \in Positions
      BY <1>0, <1>2, <1>8, <2>2
    <3>2. Knows(c, i)
      BY <1>2, <2>2, <3>1 DEF Knows
    <3> QED BY <1>2, <2>2, <3>1, <3>2, KnownIsPast
  <2> QED BY <1>2, <2>1, <2>2
<1> QED BY <1>5, <1>6, <1>7 DEF TicksTell

LEMMA PastTransitiveNext ==
  ASSUME TypeOK, PastIsTransitive, NEW e \in EventType, NEW c \in Clock, Record(e, c)
  PROVE  PastIsTransitive'
<1>0. PICK n : n = Len(trace) + 1
  OBVIOUS
<1>1. /\ Positions' = Positions \union {n}
      /\ \A k \in Positions : past'[k] = past[k]
      /\ past'[n] = PastOf(trace, past, e) /\ past'[n] \subseteq Positions
  BY <1>0, RecordAppends
<1>2. \A k \in Positions : past[k] \subseteq Positions
  BY OldEvents
<1>3. \A i \in past'[n] : past[i] \subseteq past'[n]
  BY <1>1, <1>2 DEF PastOf, Positions, PastIsTransitive
<1> QED BY <1>1, <1>2, <1>3 DEF PastIsTransitive

\* A race on x has been reported.
RaceOn(x) == \E r \in races : trace[r[1]].obj = x

\* An access that is not remembered happens before the remembered write, or
\* its variable has a reported race.
Covered ==
  \A i \in Positions : trace[i].op \in AccessOps =>
    \/ RaceOn(trace[i].obj)
    \/ \E o \in rset[trace[i].obj] \union wset[trace[i].obj] : o.evt = i
    \/ \E o \in wset[trace[i].obj] : i \in past[o.evt]

ReportInv == TicksTell /\ PastIsTransitive /\ Covered /\ RacyVarsReported

\* A remembered access that is not in the past of the next event has a clock
\* that is concurrent with its.
LEMMA UnorderedIsConcurrent ==
  ASSUME TypeOK, ClockInv, TicksTell, NEW e, NEW c, Tells(e, c),
         NEW i \in Positions, i \notin PastOf(trace, past, e)
  PROVE  ConcurrentWith(clk[i], c)
<1> DEFINE w == trace[i].tid
<1>1. /\ e \in EventType /\ c \in Clock /\ clk[i] \in Clock
      /\ w \in Threads /\ e.tid \in Threads
  BY OldEvents, EventSorts DEF Tells, Handles
<1>2. ~Leq(clk[i], c)
  BY <1>1, KnownIsPast DEF Leq, Knows
<1>3. w # e.tid
  BY PastIsTold, <1>1 DEF ThreadPast, AndBefore
<1>4. ~Leq(c, clk[i])
  <2>1. clk[i][e.tid] <= threadVC[w][e.tid]
    BY <1>1 DEF ClockInv, KnownClocks, Leq
  <2>2. threadVC[w][e.tid] < c[e.tid]
    BY <1>1, <1>3 DEF Tells
  <2>3. /\ clk[i][e.tid] \in Nat /\ threadVC[w][e.tid] \in Nat /\ c[e.tid] \in Nat
    BY <1>1 DEF TypeOK, Clock
  <2> QED BY <1>1, <2>1, <2>2, <2>3 DEF Leq
<1> QED BY <1>2, <1>4 DEF ConcurrentWith

\* A remembered access o that is unordered with the next event is reported
\* with it.
LEMMA RaceIsReported ==
  ASSUME TypeOK, TypeOK', ClockInv, TicksTell, NEW e, NEW c, Tells(e, c), Accesses(e, c),
         NEW x \in Vars, e.op \in AccessOps, e.obj = x,
         NEW o, \/ o \in wset[x]
                \/ e.op = "ST" /\ o \in rset[x],
         o.evt \notin PastOf(trace, past, e)
  PROVE  RaceOn(x)'
<1>0. PICK n : n = Len(trace) + 1
  OBVIOUS
<1>1. \A k \in Positions : trace'[k] = trace[k]
  BY RecordAppends DEF Tells, Handles
<1>2. o \in Operation /\ o.evt \in Positions
  BY DEF TypeOK, Operation
<1>3. clk[o.evt] = o.vc /\ trace[o.evt].obj = x
  BY DEF ClockInv, Remembered
<1>4. ConcurrentWith(o.vc, c)
  BY <1>2, <1>3, UnorderedIsConcurrent
<1>5. <<o.evt, n>> \in races'
  <2>1. CASE e.op = "LD"
    <3>1. o \in wset[x] /\ races' = races \union Racing(wset[x], c)
      BY <2>1 DEF Accesses
    <3> QED BY <1>0, <1>4, <3>1 DEF Racing
  <2>2. CASE e.op = "ST"
    <3>1. o \in rset[x] \union wset[x] /\ races' = races \union Racing(rset[x] \union wset[x], c)
      BY <2>2 DEF Accesses
    <3> QED BY <1>0, <1>4, <3>1 DEF Racing
  <2> QED BY <2>1, <2>2 DEF AccessOps
<1> QED BY <1>1, <1>2, <1>3, <1>5 DEF RaceOn

\* A reported race stays reported.
LEMMA RaceStays ==
  ASSUME TypeOK, NEW e, NEW c, Tells(e, c), Accesses(e, c), NEW x, RaceOn(x)
  PROVE  RaceOn(x)'
<1>1. \A k \in Positions : trace'[k] = trace[k]
  BY RecordAppends DEF Tells, Handles
<1>2. \A r \in races : r[1] \in Positions
  BY DEF TypeOK
<1>3. races \subseteq races'
  BY DEF Accesses, AccessOps
<1> QED BY <1>1, <1>2, <1>3 DEF RaceOn

LEMMA CoveredNext ==
  ASSUME TypeOK, TypeOK', ClockInv, TicksTell, PastIsTransitive, Covered,
         NEW e, NEW c, Tells(e, c), Accesses(e, c)
  PROVE  Covered'
<1>0. PICK n : n = Len(trace) + 1
  OBVIOUS
<1>1. e \in EventType /\ c \in Clock /\ Record(e, c)
  BY DEF Tells, Handles
<1>2. /\ Positions' = Positions \union {n}
      /\ \A k \in Positions : trace'[k] = trace[k] /\ past'[k] = past[k]
      /\ trace'[n] = e /\ past'[n] = PastOf(trace, past, e)
  BY <1>0, <1>1, RecordAppends
<1>3. /\ rset \in [Vars -> SUBSET Operation] /\ wset \in [Vars -> SUBSET Operation]
      /\ \A y \in Vars : \A o \in rset[y] \union wset[y] : o.evt \in Positions
  BY DEF TypeOK, Operation
<1>4. Op(c).evt = n
  BY <1>0 DEF Op
<1>5. \A d \in EventType : d.op \in AccessOps => d.obj \in Vars
  BY DEF EventType, AccessOps, SyncAcqOps, SyncRelOps
<1> SUFFICES ASSUME NEW i \in Positions', trace'[i].op \in AccessOps,
                    NEW x, x = trace'[i].obj
             PROVE  \/ RaceOn(x)'
                    \/ \E o \in rset'[x] \union wset'[x] : o.evt = i
                    \/ \E o \in wset'[x] : i \in past'[o.evt]
  BY DEF Covered, RaceOn
<1>6. CASE i = n
  <2>1. x \in Vars /\ e.obj = x /\ e.op \in AccessOps
    BY <1>1, <1>2, <1>5, <1>6
  <2>2. Op(c) \in rset'[x] \union wset'[x]
    BY <1>3, <2>1 DEF Accesses, AccessOps
  <2> QED BY <1>4, <1>6, <2>2
<1>7. CASE i \in Positions
  <2>1. x \in Vars /\ x = trace[i].obj /\ trace[i].op \in AccessOps
    BY <1>2, <1>5, <1>7, OldEvents
  <2>2. \/ RaceOn(x)
        \/ \E o \in rset[x] \union wset[x] : o.evt = i
        \/ \E o \in wset[x] : i \in past[o.evt]
    BY <1>7, <2>1 DEF Covered
  <2>3. CASE RaceOn(x)
    BY <2>3, RaceStays
  <2>4. CASE ~(e.op = "ST" /\ e.obj = x) /\ ~RaceOn(x)
    <3>1. rset[x] \subseteq rset'[x] /\ wset[x] \subseteq wset'[x]
      BY <1>3, <1>1, <1>5, <2>1, <2>4 DEF Accesses, AccessOps
    <3>2. \A o \in wset[x] : past'[o.evt] = past[o.evt]
      BY <1>2, <1>3, <2>1
    <3> QED BY <2>2, <2>4, <3>1, <3>2
  <2>5. CASE e.op = "ST" /\ e.obj = x /\ ~RaceOn(x)
    <3>1. wset'[x] = {Op(c)} /\ e.op \in AccessOps
      BY <1>3, <2>1, <2>5 DEF Accesses, AccessOps
    <3>2. CASE \E o \in rset[x] \union wset[x] : o.evt = i
      <4>1. PICK o \in rset[x] \union wset[x] : o.evt = i
        BY <3>2
      <4>2. CASE i \in PastOf(trace, past, e)
        BY <1>2, <1>4, <3>1, <4>2
      <4>3. CASE i \notin PastOf(trace, past, e)
        BY <2>1, <2>5, <3>1, <4>1, <4>3, RaceIsReported
      <4> QED BY <4>2, <4>3
    <3>3. CASE \E o \in wset[x] : i \in past[o.evt]
      <4>1. PICK o \in wset[x] : i \in past[o.evt]
        BY <3>3
      <4>2. CASE o.evt \in PastOf(trace, past, e)
        <5>1. past'[o.evt] \subseteq past'[n]
          BY <1>1, <1>2, <4>2, PastTransitiveNext DEF PastIsTransitive
        <5>2. i \in past'[n]
          BY <1>2, <1>3, <2>1, <4>1, <5>1
        <5> QED BY <1>4, <3>1, <5>2
      <4>3. CASE o.evt \notin PastOf(trace, past, e)
        BY <2>1, <2>5, <3>1, <4>3, RaceIsReported
      <4> QED BY <4>2, <4>3
    <3> QED BY <2>2, <2>5, <3>2, <3>3
  <2> QED BY <2>3, <2>4, <2>5
<1> QED BY <1>2, <1>6, <1>7

LEMMA RacyNext ==
  ASSUME TypeOK, TypeOK', ClockInv, TicksTell, PastIsTransitive, Covered, RacyVarsReported,
         NEW e, NEW c, Tells(e, c), Accesses(e, c)
  PROVE  RacyVarsReported'
<1>0. PICK n : n = Len(trace) + 1
  OBVIOUS
<1>1. e \in EventType /\ c \in Clock /\ Record(e, c)
  BY DEF Tells, Handles
<1>2. /\ Positions' = Positions \union {n}
      /\ \A k \in Positions : trace'[k] = trace[k] /\ past'[k] = past[k]
      /\ trace'[n] = e /\ past'[n] = PastOf(trace, past, e)
  BY <1>0, <1>1, RecordAppends
<1>3. \A d \in EventType : d.op \in AccessOps => d.obj \in Vars
  BY DEF EventType, AccessOps, SyncAcqOps, SyncRelOps
\* The next event races with an earlier one.
<1>4. ASSUME NEW i \in Positions, Conflict(trace[i], e), i \notin PastOf(trace, past, e)
      PROVE  RaceOn(trace[i].obj)'
  <2>0. PICK x : x = trace[i].obj
    OBVIOUS
  <2>1. /\ x \in Vars /\ e.obj = x /\ e.op \in AccessOps /\ trace[i].op \in AccessOps
        /\ trace[i].op = "ST" \/ e.op = "ST"
    BY <1>3, <1>4, <2>0, OldEvents DEF Conflict
  <2>2. \/ RaceOn(x)
        \/ \E o \in rset[x] \union wset[x] : o.evt = i
        \/ \E o \in wset[x] : i \in past[o.evt]
    BY <2>0, <2>1 DEF Covered
  <2>3. CASE RaceOn(x)
    <3>1. RaceOn(x)'
      BY <2>3, RaceStays
    <3> QED BY <1>2, <2>0, <3>1 DEF RaceOn
  <2>4. CASE \E o \in rset[x] \union wset[x] : o.evt = i
    <3>1. PICK o \in rset[x] \union wset[x] : o.evt = i
      BY <2>4
    <3>2. o \in rset[x] => e.op = "ST"
      BY <2>1, <3>1 DEF ClockInv, Remembered
    <3>3. RaceOn(x)'
      BY <1>4, <2>1, <3>1, <3>2, RaceIsReported
    <3> QED BY <1>2, <2>0, <3>3 DEF RaceOn
  <2>5. CASE \E o \in wset[x] : i \in past[o.evt]
    <3>1. PICK o \in wset[x] : i \in past[o.evt]
      BY <2>5
    <3>2. o.evt \in Positions
      BY <2>1 DEF TypeOK, Operation
    <3>3. o.evt \notin PastOf(trace, past, e)
      <4> SUFFICES ASSUME o.evt \in PastOf(trace, past, e) PROVE FALSE
        OBVIOUS
      <4>1. past'[o.evt] \subseteq past'[n]
        BY <1>1, <1>2, PastTransitiveNext DEF PastIsTransitive
      <4> QED BY <1>2, <1>4, <3>1, <3>2, <4>1
    <3>4. RaceOn(x)'
      BY <2>1, <3>1, <3>3, RaceIsReported
    <3> QED BY <1>2, <2>0, <3>4 DEF RaceOn
  <2> QED BY <2>2, <2>3, <2>4, <2>5
<1> SUFFICES ASSUME NEW i \in Positions', NEW j \in Positions',
                    Conflict(trace'[i], trace'[j]), i # j,
                    i \notin past'[j], j \notin past'[i]
             PROVE  RaceOn(trace[i].obj)'
  BY DEF RacyVarsReported, RaceOn, Unordered
<1>5. CASE i \in Positions /\ j \in Positions
  <2>1. RaceOn(trace[i].obj)
    BY <1>2, <1>5 DEF RacyVarsReported, Unordered, RaceOn
  <2> QED BY <1>2, <1>5, <2>1, RaceStays DEF RaceOn
<1>6. CASE i \in Positions /\ j = n
  BY <1>2, <1>4, <1>6 DEF RaceOn
<1>7. CASE i = n /\ j \in Positions
  <2>1. Conflict(trace[j], e) /\ trace[j].obj = e.obj
    BY <1>2, <1>7 DEF Conflict
  <2> QED BY <1>2, <1>4, <1>7, <2>1 DEF RaceOn
<1> QED BY <1>2, <1>5, <1>6, <1>7

DetectInv == TypeOK /\ OwnTickLeads /\ ClockInv /\ ReportInv

LEMMA DetectInit == Init => DetectInv
<1> SUFFICES ASSUME Init PROVE DetectInv
  OBVIOUS
<1>1. Positions = {}
  BY DEF Init, Positions
<1>2. ReportInv
  BY <1>1 DEF ReportInv, TicksTell, ThreadsCameAfter, SyncsCameAfter, EventsCameAfter,
              PastIsTransitive, Covered, RacyVarsReported
<1> QED BY <1>2, TypeInit, LeadsInit, ClockInit DEF DetectInv

LEMMA DetectNext == DetectInv /\ [Next]_vars => DetectInv'
<1> SUFFICES ASSUME DetectInv, [Next]_vars PROVE DetectInv'
  OBVIOUS
<1>1. TypeOK' /\ OwnTickLeads' /\ ClockInv'
  BY TypeNext, LeadsNext, ClockNext DEF DetectInv
<1>2. CASE Next
  <2>1. PICK e, c : Tells(e, c) /\ Accesses(e, c)
    BY <1>2, NextTells DEF DetectInv
  <2>2. e \in EventType /\ c \in Clock /\ Record(e, c)
    BY <2>1 DEF Tells, Handles
  <2>3. TicksTell' /\ PastIsTransitive'
    BY <1>1, <2>1, <2>2, TicksTellNext, PastTransitiveNext DEF DetectInv, ReportInv
  <2>4. Covered' /\ RacyVarsReported'
    BY <1>1, <2>1, CoveredNext, RacyNext DEF DetectInv, ReportInv
  <2> QED BY <1>1, <2>3, <2>4 DEF DetectInv, ReportInv
<1>3. CASE UNCHANGED vars
  <2>1. Positions' = Positions
    BY <1>3 DEF vars, historyVars, Positions
  <2>2. TicksTell' /\ PastIsTransitive'
    BY <1>3, <2>1 DEF DetectInv, ReportInv, TicksTell, ThreadsCameAfter, SyncsCameAfter,
       EventsCameAfter, PastIsTransitive, ThreadPast, SyncPast, AndBefore, Knows,
       vars, historyVars, clockVars
  <2>3. Covered' /\ RacyVarsReported'
    BY <1>3, <2>1 DEF DetectInv, ReportInv, Covered, RaceOn, RacyVarsReported, Unordered,
       vars, historyVars
  <2> QED BY <1>1, <2>2, <2>3 DEF DetectInv, ReportInv
<1> QED BY <1>2, <1>3

\* No racy variable goes unnoticed, in traces of any length: a variable with
\* a conflicting unordered pair of accesses has a reported one, although a
\* write makes the detector forget all earlier accesses.
THEOREM NoRacyVarMissed == Spec => []RacyVarsReported
<1>1. DetectInv => RacyVarsReported
  BY DEF DetectInv, ReportInv
<1> QED BY <1>1, DetectInit, DetectNext, PTL DEF Spec

\* The clock of an event is below that of a later one exactly if it happens
\* before it.
ClocksTellOrder ==
  \A i, j \in Positions : i < j => (i \in past[j] <=> Leq(clk[i], clk[j]))

\* The clocks say neither more nor less than the order of the trace: what the
\* detector takes for concurrent is unordered, and the other way round.
THEOREM ClocksAreExact == Spec => []ClocksTellOrder
<1>1. DetectInv => ClocksTellOrder
  <2> SUFFICES ASSUME DetectInv, NEW i \in Positions, NEW j \in Positions, i < j,
                      Leq(clk[i], clk[j])
               PROVE  i \in past[j]
    BY DEF ClocksTellOrder, DetectInv, ClockInv, ClockCondition
  <2>1. trace[i].tid \in Threads
    BY OldEvents, EventSorts DEF DetectInv
  <2> QED BY <2>1 DEF DetectInv, ReportInv, TicksTell, EventsCameAfter, Knows, Leq
<1> QED BY <1>1, DetectInit, DetectNext, PTL DEF Spec

---------------------------------------------------------------------------
(* The report.                                                             *)

\* The races that the first loop of analyze has put into the table.
Reported == CASE phase = "detect" -> {}
              [] phase = "races" -> done
              [] OTHER -> races

TableType ==
  /\ table \in [DOMAIN table -> [ops : AccessOps \X AccessOps,
                                 list : SUBSET (Positions \X Positions)]]
  /\ DOMAIN table \subseteq Nat \X Nat

\* The table holds the reported races, each in the entry of its key, and an
\* entry has the operations of a race in it.
TableTells ==
  /\ \A r \in Reported : \E k \in DOMAIN table : r \in table[k].list
  /\ \A k \in DOMAIN table :
       /\ k[1] <= k[2] /\ table[k].list \subseteq races
       /\ \A r \in table[k].list : Key(r).ids = k
       /\ \E r \in table[k].list : Key(r).ops = table[k].ops

TableInv ==
  /\ phase = "detect" => done = {} /\ DOMAIN table = {}
  /\ phase = "races" => done \subseteq races
  /\ phase # "detect" => inst \in [Positions -> Insts \union {0}]
  /\ TableType /\ TableTells

\* The key of a race: its two instructions in order, with their operations.
LEMMA KeyInOrder ==
  ASSUME TypeOK, RacesConcurrent, inst \in [Positions -> Insts \union {0}], NEW r \in races
  PROVE  LET k == Key(r)
         IN  /\ k.ids \in Nat \X Nat /\ k.ids[1] <= k.ids[2]
             /\ k.ops \in AccessOps \X AccessOps
             /\ {inst[r[1]], inst[r[2]]} = {k.ids[1], k.ids[2]}
             /\ \E a, b \in {r[1], r[2]} :
                  /\ {a, b} = {r[1], r[2]}
                  /\ <<inst[a], inst[b]>> = k.ids
                  /\ <<trace[a].op, trace[b].op>> = k.ops
<1>1. r[1] \in Positions /\ r[2] \in Positions
  BY DEF TypeOK
<1>2. inst[r[1]] \in Nat /\ inst[r[2]] \in Nat
  <2>1. Insts \union {0} \subseteq Nat
    BY InstAssumption DEF InstAssumption
  <2>2. \A i \in Positions : inst[i] \in Insts \union {0}
    OBVIOUS
  <2>3. \A i \in Positions : inst[i] \in Nat
    BY <2>1, <2>2
  <2> QED BY <1>1, <2>3
<1>3. trace[r[1]].op \in AccessOps /\ trace[r[2]].op \in AccessOps
  BY DEF RacesConcurrent, Conflict
<1>4. CASE inst[r[1]] > inst[r[2]]
  <2>1. Key(r) = [ids |-> <<inst[r[2]], inst[r[1]]>>,
                  ops |-> <<trace[r[2]].op, trace[r[1]].op>>]
    BY <1>4 DEF Key
  <2>2. /\ Key(r).ids = <<inst[r[2]], inst[r[1]]>>
        /\ Key(r).ops = <<trace[r[2]].op, trace[r[1]].op>>
    BY <2>1
  <2>3. \E a, b \in {r[1], r[2]} : /\ {a, b} = {r[1], r[2]}
                                  /\ <<inst[a], inst[b]>> = Key(r).ids
                                  /\ <<trace[a].op, trace[b].op>> = Key(r).ops
    <3> WITNESS r[2] \in {r[1], r[2]}, r[1] \in {r[1], r[2]}
    <3> QED BY <2>2
  <2> QED BY <1>2, <1>3, <1>4, <2>2, <2>3
<1>5. CASE ~(inst[r[1]] > inst[r[2]])
  <2>1. Key(r) = [ids |-> <<inst[r[1]], inst[r[2]]>>,
                  ops |-> <<trace[r[1]].op, trace[r[2]].op>>]
    BY <1>5 DEF Key
  <2>2. /\ Key(r).ids = <<inst[r[1]], inst[r[2]]>>
        /\ Key(r).ops = <<trace[r[1]].op, trace[r[2]].op>>
    BY <2>1
  <2>3. \E a, b \in {r[1], r[2]} : /\ {a, b} = {r[1], r[2]}
                                  /\ <<inst[a], inst[b]>> = Key(r).ids
                                  /\ <<trace[a].op, trace[b].op>> = Key(r).ops
    <3> WITNESS r[1] \in {r[1], r[2]}, r[2] \in {r[1], r[2]}
    <3> QED BY <2>2
  <2> QED BY <1>2, <1>3, <1>5, <2>2, <2>3
<1> QED BY <1>4, <1>5

\* addRace puts the race into the entry of its key, which it creates with the
\* race's operations or leaves with those it has, and touches no other entry.
LEMMA AddRaceAdds ==
  ASSUME TypeOK, RacesConcurrent, inst \in [Positions -> Insts \union {0}],
         TableType, NEW r \in races
  PROVE  LET k == Key(r) t == AddRace(r)
         IN  /\ DOMAIN t = DOMAIN table \union {k.ids}
             /\ t \in [DOMAIN t -> [ops : AccessOps \X AccessOps,
                                    list : SUBSET (Positions \X Positions)]]
             /\ \A x \in DOMAIN table \ {k.ids} : t[x] = table[x]
             /\ k.ids \in DOMAIN table =>
                  t[k.ids].ops = table[k.ids].ops /\ t[k.ids].list = table[k.ids].list \union {r}
             /\ k.ids \notin DOMAIN table => t[k.ids].ops = k.ops /\ t[k.ids].list = {r}
<1>0. PICK k : k = Key(r)
  OBVIOUS
<1>1. k.ids \in Nat \X Nat /\ k.ops \in AccessOps \X AccessOps /\ r \in Positions \X Positions
  BY <1>0, KeyInOrder DEF TypeOK
<1>2. CASE k.ids \in DOMAIN table
  <2>1. AddRace(r) = [table EXCEPT ![k.ids].list = @ \union {r}]
    BY <1>0, <1>2 DEF AddRace
  <2>2. table[k.ids] \in [ops : AccessOps \X AccessOps, list : SUBSET (Positions \X Positions)]
    BY <1>2 DEF TableType
  <2>3. [table[k.ids] EXCEPT !.list = @ \union {r}]
          = [ops |-> table[k.ids].ops, list |-> table[k.ids].list \union {r}]
    BY <2>2
  <2>4. AddRace(r) = [x \in DOMAIN table |->
                        IF x = k.ids THEN [ops |-> table[k.ids].ops,
                                           list |-> table[k.ids].list \union {r}]
                        ELSE table[x]]
    BY <2>1, <2>3 DEF TableType
  <2>5. /\ [ops |-> table[k.ids].ops, list |-> table[k.ids].list \union {r}]
              \in [ops : AccessOps \X AccessOps, list : SUBSET (Positions \X Positions)]
        /\ \A x \in DOMAIN table :
             table[x] \in [ops : AccessOps \X AccessOps, list : SUBSET (Positions \X Positions)]
    BY <1>1, <2>2 DEF TableType
  <2>6. PICK t : t = AddRace(r)
    OBVIOUS
  <2>7. /\ DOMAIN t = DOMAIN table
        /\ \A x \in DOMAIN table \ {k.ids} : t[x] = table[x]
        /\ t[k.ids] = [ops |-> table[k.ids].ops, list |-> table[k.ids].list \union {r}]
    BY <1>2, <2>4, <2>6
  <2>8. t \in [DOMAIN table -> [ops : AccessOps \X AccessOps,
                               list : SUBSET (Positions \X Positions)]]
    BY <2>4, <2>5, <2>6
  <2>9. DOMAIN t = DOMAIN table \union {k.ids}
    BY <1>2, <2>7
  <2>10. t[k.ids].ops = table[k.ids].ops /\ t[k.ids].list = table[k.ids].list \union {r}
    BY <2>7
  <2> HIDE <2>7
  <2> QED BY <1>0, <1>2, <2>6, <2>7, <2>8, <2>9, <2>10
<1>3. CASE k.ids \notin DOMAIN table
  <2>1. AddRace(r) = [x \in DOMAIN table \union {k.ids} |->
                        IF x = k.ids THEN [ops |-> k.ops, list |-> {r}] ELSE table[x]]
    BY <1>0, <1>3 DEF AddRace
  <2> QED BY <1>0, <1>1, <1>3, <2>1 DEF TableType
<1> QED BY <1>2, <1>3

LEMMA HandleRaceTells ==
  ASSUME TypeOK, RacesConcurrent, TableInv, HandleRace
  PROVE  TableInv'
<1>1. /\ phase = "races" /\ done \subseteq races
      /\ inst \in [Positions -> Insts \union {0}] /\ TableType
      /\ UNCHANGED <<vars, inst, phase>>
  BY DEF HandleRace, TableInv
<1>2. PICK r \in races \ done : table' = AddRace(r) /\ done' = done \union {r}
  BY DEF HandleRace
<1>3. Positions' = Positions /\ races' = races /\ inst' = inst
      /\ \A q : Key(q)' = Key(q)
  BY <1>1 DEF vars, historyVars, Positions, Key
<1>4. PICK k : k = Key(r)
  OBVIOUS
<1>5. /\ DOMAIN table' = DOMAIN table \union {k.ids}
      /\ table' \in [DOMAIN table' -> [ops : AccessOps \X AccessOps,
                                       list : SUBSET (Positions \X Positions)]]
      /\ \A x \in DOMAIN table \ {k.ids} : table'[x] = table[x]
      /\ k.ids \in DOMAIN table =>
           table'[k.ids].ops = table[k.ids].ops /\ table'[k.ids].list = table[k.ids].list \union {r}
      /\ k.ids \notin DOMAIN table => table'[k.ids].ops = k.ops /\ table'[k.ids].list = {r}
  BY <1>1, <1>2, <1>4, AddRaceAdds
<1>6. k.ids \in Nat \X Nat /\ k.ids[1] <= k.ids[2]
  BY <1>1, <1>4, KeyInOrder
<1>7. TableType'
  BY <1>1, <1>3, <1>5, <1>6 DEF TableType
<1>8. ASSUME NEW q \in Reported' PROVE \E x \in DOMAIN table' : q \in table'[x].list
  <2>1. q \in done \union {r}
    BY <1>1, <1>2 DEF Reported
  <2>2. CASE q = r
    BY <1>5, <2>2
  <2>3. CASE q \in done
    <3>1. PICK x \in DOMAIN table : q \in table[x].list
      BY <1>1, <2>3 DEF TableInv, TableTells, Reported
    <3>2. q \in table'[x].list
      BY <1>5, <3>1
    <3> QED BY <1>5, <3>1, <3>2
  <2> QED BY <2>1, <2>2, <2>3
<1>9. ASSUME NEW x \in DOMAIN table'
      PROVE  /\ x[1] <= x[2] /\ table'[x].list \subseteq races
             /\ \A q \in table'[x].list : Key(q) = Key(q)' /\ Key(q).ids = x
             /\ \E q \in table'[x].list : Key(q).ops = table'[x].ops
  <2>1. x \in DOMAIN table =>
          /\ x[1] <= x[2] /\ table[x].list \subseteq races
          /\ \A q \in table[x].list : Key(q).ids = x
          /\ \E q \in table[x].list : Key(q).ops = table[x].ops
    BY DEF TableInv, TableTells
  <2>2. CASE x # k.ids
    BY <1>3, <1>5, <2>1, <2>2
  <2>3. CASE x = k.ids /\ x \in DOMAIN table
    BY <1>3, <1>4, <1>5, <1>6, <2>1, <2>3
  <2>4. CASE x = k.ids /\ x \notin DOMAIN table
    BY <1>3, <1>4, <1>5, <1>6, <2>4
  <2> QED BY <2>2, <2>3, <2>4
<1>10. TableTells'
  <2>1. \A x \in DOMAIN table' : \A q \in table'[x].list : Key(q)'.ids = x
    BY <1>9
  <2>2. \A x \in DOMAIN table' : \E q \in table'[x].list : Key(q)'.ops = table'[x].ops
    BY <1>9
  <2> QED BY <1>3, <1>8, <1>9, <2>1, <2>2 DEF TableTells
<1> QED BY <1>1, <1>2, <1>3, <1>7, <1>10 DEF TableInv

\* A step that leaves the trace, the ids and the table alone.
LEMMA TableStays ==
  ASSUME TableInv, UNCHANGED <<trace, races, inst, table>>,
         Reported' = Reported,
         phase' # "detect" /\ phase # "detect" /\ (phase' = "races" => done' \subseteq races)
  PROVE  TableInv'
<1>1. Positions' = Positions /\ \A r : Key(r)' = Key(r)
  BY DEF Positions, Key
<1>2. TableTells'
  BY <1>1 DEF TableInv, TableTells
<1> QED BY <1>1, <1>2 DEF TableInv, TableType

LEMMA TableNext ==
  ASSUME TypeOK, TypeOK', RacesConcurrent, TableInv, [ReportNext]_passVars
  PROVE  TableInv'
<1>1. CASE Analyze
  <2>1. /\ phase = "detect" /\ phase' = "detect" /\ done' = {} /\ table' = table
        /\ DOMAIN table = {} /\ Reported' = {}
    BY <1>1 DEF Analyze, TableInv, Reported
  <2>2. TableType'
    BY <2>1 DEF TableInv, TableType
  <2> QED BY <2>1, <2>2 DEF TableInv, TableTells
<1>2. CASE AnalyzeDone
  <2>1. /\ phase = "detect" /\ phase' = "races" /\ done' = {} /\ table' = table
        /\ DOMAIN table = {} /\ Reported' = {}
        /\ inst' \in [Positions -> Insts \union {0}] /\ Positions' = Positions
    BY <1>2 DEF AnalyzeDone, TableInv, Reported, Positions, vars, historyVars
  <2>2. TableType'
    BY <2>1 DEF TableInv, TableType
  <2> QED BY <2>1, <2>2 DEF TableInv, TableTells
<1>3. CASE HandleRace
  BY <1>3, HandleRaceTells
<1>4. CASE HandleSync
  BY <1>4, TableStays DEF HandleSync, Reported, vars, historyVars
<1>5. CASE CountEvent
  BY <1>5, TableStays DEF CountEvent, Reported, vars, historyVars
<1>6. CASE EndLoop
  BY <1>6, TableStays DEF EndLoop, Later, Reported, vars, historyVars
<1>7. CASE UNCHANGED passVars
  <2>1. Positions' = Positions /\ (\A r : Key(r)' = Key(r)) /\ Reported' = Reported
    BY <1>7 DEF passVars, vars, historyVars, Positions, Key, Reported
  <2>2. TableTells'
    BY <1>7, <2>1 DEF TableInv, TableTells, passVars, vars
  <2> QED BY <1>7, <2>1, <2>2 DEF TableInv, TableType, passVars, vars
<1> QED BY <1>1, <1>2, <1>3, <1>4, <1>5, <1>6, <1>7 DEF ReportNext

LEMMA TableTellsAll ==
  ASSUME TypeOK, RacesConcurrent, TableInv
  PROVE  ReportTellsAllRaces
<1> SUFFICES ASSUME phase \in {"syncs", "events", "save"}
             PROVE  /\ \A r \in races : \E k \in DOMAIN table : r \in table[k].list
                    /\ \A k, l \in DOMAIN table :
                         \/ table[k].list \intersect table[l].list # {}
                         \/ {k[1], k[2]} = {l[1], l[2]}
                         => k = l
                    /\ \A k \in DOMAIN table :
                         /\ \A r \in table[k].list : {inst[r[1]], inst[r[2]]} = {k[1], k[2]}
                         /\ \E r \in table[k].list : \E a, b \in {r[1], r[2]} :
                              /\ {a, b} = {r[1], r[2]}
                              /\ <<inst[a], inst[b]>> = k
                              /\ <<trace[a].op, trace[b].op>> = table[k].ops
  BY DEF ReportTellsAllRaces
<1>1. inst \in [Positions -> Insts \union {0}] /\ TableType /\ TableTells /\ Reported = races
  BY DEF TableInv, Reported
<1>2. \A r \in races : \E k \in DOMAIN table : r \in table[k].list
  BY <1>1 DEF TableTells
<1>3. ASSUME NEW k \in DOMAIN table
      PROVE  k \in Nat \X Nat /\ k[1] <= k[2] /\ table[k].list \subseteq races
  BY <1>1 DEF TableType, TableTells
<1>4. ASSUME NEW k \in DOMAIN table, NEW r \in table[k].list
      PROVE  /\ Key(r).ids = k
             /\ {inst[r[1]], inst[r[2]]} = {k[1], k[2]}
             /\ \E a, b \in {r[1], r[2]} :
                  /\ {a, b} = {r[1], r[2]}
                  /\ <<inst[a], inst[b]>> = k
                  /\ <<trace[a].op, trace[b].op>> = Key(r).ops
  <2>1. r \in races /\ Key(r).ids = k
    BY <1>1, <1>3 DEF TableTells
  <2> QED BY <1>1, <2>1, KeyInOrder
<1>5. \A k, l \in DOMAIN table :
        (table[k].list \intersect table[l].list # {}) \/ ({k[1], k[2]} = {l[1], l[2]}) => k = l
  <2> SUFFICES ASSUME NEW k \in DOMAIN table, NEW l \in DOMAIN table,
                      \/ table[k].list \intersect table[l].list # {}
                      \/ {k[1], k[2]} = {l[1], l[2]}
               PROVE  k = l
    OBVIOUS
  <2>1. CASE table[k].list \intersect table[l].list # {}
    BY <1>4, <2>1
  <2>2. CASE {k[1], k[2]} = {l[1], l[2]}
    <3>1. /\ k[1] \in Nat /\ k[2] \in Nat /\ k[1] <= k[2] /\ k = <<k[1], k[2]>>
          /\ l[1] \in Nat /\ l[2] \in Nat /\ l[1] <= l[2] /\ l = <<l[1], l[2]>>
      BY <1>3
    <3>2. k[1] = l[1] /\ k[2] = l[2]
      BY <2>2, <3>1
    <3> QED BY <3>1, <3>2
  <2> QED BY <2>1, <2>2
<1>6. ASSUME NEW k \in DOMAIN table
      PROVE  \E r \in table[k].list : \E a, b \in {r[1], r[2]} :
               /\ {a, b} = {r[1], r[2]}
               /\ <<inst[a], inst[b]>> = k
               /\ <<trace[a].op, trace[b].op>> = table[k].ops
  <2>1. PICK r \in table[k].list : Key(r).ops = table[k].ops
    BY <1>1 DEF TableTells
  <2>2. \E a, b \in {r[1], r[2]} : /\ {a, b} = {r[1], r[2]}
                                  /\ <<inst[a], inst[b]>> = k
                                  /\ <<trace[a].op, trace[b].op>> = Key(r).ops
    BY <1>4
  <2>3. \E a, b \in {r[1], r[2]} : /\ {a, b} = {r[1], r[2]}
                                  /\ <<inst[a], inst[b]>> = k
                                  /\ <<trace[a].op, trace[b].op>> = table[k].ops
    BY <2>1, <2>2, Zenon
  <2> QED BY <2>3
<1> QED BY <1>2, <1>4, <1>5, <1>6

\* The pass runs the detector and then leaves its state alone.
LEMMA PassRunsDetector ==
  /\ ReportInit => Init
  /\ [ReportNext]_passVars => [Next]_vars
<1>1. ReportInit => Init
  BY DEF ReportInit
<1>2. [ReportNext]_passVars => [Next]_vars
  BY DEF ReportNext, Analyze, AnalyzeDone, HandleRace, HandleSync, CountEvent, EndLoop,
         Later, passVars
<1> QED BY <1>1, <1>2

\* All that is proved of the detector holds of the pass.
THEOREM PassImplementsDetector == ReportSpec => Spec
<1> QED BY PassRunsDetector, PTL DEF ReportSpec, Spec

LEMMA PassInvariant == ReportSpec => [](DetectInv /\ TableInv)
<1> DEFINE PassInv == DetectInv /\ TableInv
<1>1. ReportInit => PassInv
  <2> SUFFICES ASSUME ReportInit PROVE TableInv
    BY PassRunsDetector, DetectInit
  <2>1. phase = "detect" /\ done = {} /\ DOMAIN table = {}
    BY DEF ReportInit
  <2>2. Reported = {} /\ TableType
    <3>1. table = <<>>
      BY DEF ReportInit
    <3> QED BY <2>1, <3>1 DEF Reported, TableType
  <2> QED BY <2>1, <2>2 DEF TableInv, TableTells
<1>2. PassInv /\ [ReportNext]_passVars => PassInv'
  <2> SUFFICES ASSUME PassInv, [ReportNext]_passVars PROVE PassInv'
    OBVIOUS
  <2>1. DetectInv'
    BY PassRunsDetector, DetectNext
  <2>2. TableInv'
    BY <2>1, TableNext DEF DetectInv, ClockInv
  <2> QED BY <2>1, <2>2
<1> QED BY <1>1, <1>2, PTL DEF ReportSpec

\* The report tells every race that was found once, under its two
\* instructions, and the operations of an entry are those of one of its races,
\* for any number of races handled in any order.
THEOREM AllRacesReported == ReportSpec => []ReportTellsAllRaces
<1>1. DetectInv /\ TableInv => ReportTellsAllRaces
  BY TableTellsAll DEF DetectInv, ClockInv
<1> QED BY <1>1, PassInvariant, PTL

---------------------------------------------------------------------------
(* The summaries.                                                          *)

SummaryType == [Threads -> [Items -> Nat]]

\* The pairs and the events that have been counted so far.
SyncsCounted == CASE phase \in {"detect", "races"} -> {}
                  [] phase = "syncs" -> done
                  [] OTHER -> syncHb

EventsCounted == CASE phase = "events" -> Cardinality(done)
                   [] phase = "save" -> Len(trace)
                   [] OTHER -> 0

\* The loop over the events has been through the first ones.
Counting ==
  phase = "events" =>
    /\ IsFiniteSet(done) /\ Cardinality(done) <= Len(trace)
    /\ \A i \in Nat : <<i, i>> \in done => i <= Cardinality(done)

\* Each pair was counted once for its earlier and once for its later thread,
\* and each event once.
CountsInv ==
  /\ summary \in SummaryType
  /\ phase = "syncs" => done \subseteq syncHb
  /\ Counting
  /\ \A t \in Threads :
       /\ summary[t][<<"race", "after", "nr">>]
            = Cardinality({r \in Reported : trace[r[2]].tid = t})
       /\ summary[t][<<"sync", "before", "nr">>]
            = Cardinality({r \in SyncsCounted : trace[r[1]].tid = t})
       /\ summary[t][<<"event">>] = Cardinality({i \in 1..EventsCounted : trace[i].tid = t})

\* What is counted for earlier threads is counted for later ones as well.
BalanceInv ==
  \A k \in {"race", "sync"}, n \in {"nr", "distance"} :
    SumOver(<<k, "before", n>>) = SumOver(<<k, "after", n>>)

---------------------------------------------------------------------------
(* Sums over the threads.                                                  *)

\* Every nonempty set of naturals has a least element.
LEMMA LeastNatural ==
  ASSUME NEW T \in SUBSET Nat, T # {}
  PROVE  \E x \in T : \A y \in T : x <= y
<1> DEFINE R == {ss \in Nat \X Nat : ss[1] < ss[2]}
<1>1. IsWellFoundedOn(R, Nat)
  BY NatLessThanWellFounded DEF OpToRel
<1>2. PICK x \in T : \A y \in T : ~ (<<y, x>> \in R)
  <2> HIDE DEF R
  <2> QED BY <1>1, WFMin
<1>3. \A y \in T : ~ (y < x)
  <2> SUFFICES ASSUME NEW y \in T, y < x PROVE FALSE
    OBVIOUS
  <2>1. <<y, x>> \in Nat \X Nat /\ <<y, x>>[1] = y /\ <<y, x>>[2] = x
    OBVIOUS
  <2> QED BY <1>2, <2>1
<1>4. x \in Nat /\ \A y \in T : y \in Nat
  OBVIOUS
<1> QED BY <1>3, <1>4

\* The thread that is taken out of a set, and what is left.
FirstOf(s) == CHOOSE t \in s : TRUE
Others(s) == s \ {FirstOf(s)}

\* sum gives the sums of the column x of the table sm over the sets of at most
\* n threads.
Sums(sum, sm, x, n) ==
  \A s \in SUBSET Threads : Cardinality(s) <= n =>
    sum[s] = IF s = {} THEN 0 ELSE sum[Others(s)] + sm[FirstOf(s)][x]

LEMMA OthersAreFewer ==
  ASSUME NEW s \in SUBSET Threads
  PROVE  /\ IsFiniteSet(s) /\ Cardinality(s) \in Nat
         /\ Cardinality(s) = 0 <=> s = {}
         /\ Cardinality(s) <= Cardinality(Threads)
         /\ s # {} => /\ FirstOf(s) \in s /\ Others(s) \in SUBSET Threads
                      /\ Cardinality(Others(s)) = Cardinality(s) - 1
<1>1. IsFiniteSet(s) /\ Cardinality(s) <= Cardinality(Threads)
  BY ThreadsAssumption, FS_Subset DEF ThreadsAssumption
<1>2. Cardinality(s) \in Nat /\ (Cardinality(s) = 0 <=> s = {})
  BY <1>1, FS_CardinalityType, FS_EmptySet
<1>3. s # {} => FirstOf(s) \in s
  BY DEF FirstOf
<1>4. s # {} => Cardinality(Others(s)) = Cardinality(s) - 1
  BY <1>1, <1>3, FS_RemoveElement DEF Others
<1> QED BY <1>1, <1>2, <1>3, <1>4 DEF Others

\* There are such sums.
LEMMA SumsExist ==
  ASSUME NEW sm, NEW x, NEW N \in Nat
  PROVE  \E sum : Sums(sum, sm, x, N)
<1> DEFINE Has(n) == \E sum : Sums(sum, sm, x, n)
           T == {n \in 0..N : ~Has(n)}
<1> SUFFICES ASSUME T # {} PROVE FALSE
  OBVIOUS
<1>1. PICK n \in T : \A k \in T : n <= k
  <2>1. T \in SUBSET Nat
    OBVIOUS
  <2> HIDE DEF T
  <2> QED BY <2>1, LeastNatural
<1>2. n \in 0..N /\ ~Has(n) /\ n \in Nat
  OBVIOUS
<1>3. \E c : \A s \in SUBSET Threads : Cardinality(s) < n =>
        c[s] = IF s = {} THEN 0 ELSE c[Others(s)] + sm[FirstOf(s)][x]
  <2>1. CASE n = 0
    <3>1. \A s \in SUBSET Threads : ~(Cardinality(s) < n)
      BY <2>1, OthersAreFewer
    <3> QED BY <3>1
  <2>2. CASE n # 0
    <3>1. n - 1 \in 0..N /\ n - 1 < n
      BY <1>2, <2>2
    <3>2. Has(n - 1)
      BY <1>1, <3>1
    <3>3. \A s \in SUBSET Threads : Cardinality(s) < n => Cardinality(s) <= n - 1
      BY <1>2, OthersAreFewer
    <3> QED BY <3>2, <3>3 DEF Sums
  <2> QED BY <2>1, <2>2
<1>4. PICK c : \A s \in SUBSET Threads : Cardinality(s) < n =>
        c[s] = IF s = {} THEN 0 ELSE c[Others(s)] + sm[FirstOf(s)][x]
  BY <1>3
<1> DEFINE d == [s \in SUBSET Threads |->
                   IF Cardinality(s) < n THEN c[s]
                   ELSE IF s = {} THEN 0 ELSE c[Others(s)] + sm[FirstOf(s)][x]]
<1>5. \A s \in SUBSET Threads :
        d[s] = IF Cardinality(s) < n THEN c[s]
               ELSE IF s = {} THEN 0 ELSE c[Others(s)] + sm[FirstOf(s)][x]
  OBVIOUS
<1> HIDE DEF d
<1>6. ASSUME NEW s \in SUBSET Threads, Cardinality(s) <= n
      PROVE  d[s] = IF s = {} THEN 0 ELSE d[Others(s)] + sm[FirstOf(s)][x]
  <2>1. CASE s = {}
    BY <1>4, <1>5, <2>1
  <2>2. CASE s # {}
    <3>1. Others(s) \in SUBSET Threads /\ Cardinality(Others(s)) < n
      BY <1>2, <1>6, <2>2, OthersAreFewer
    <3>2. d[Others(s)] = c[Others(s)]
      BY <1>5, <3>1
    <3> QED BY <1>4, <1>5, <2>2, <3>2
  <2> QED BY <2>1, <2>2
<1>7. Has(n)
  BY <1>6 DEF Sums
<1> QED BY <1>2, <1>7

\* SumOver is such a sum.
LEMMA SumOverSums ==
  \A x : \E sum : /\ Sums(sum, summary, x, Cardinality(Threads))
                  /\ SumOver(x) = sum[Threads]
<1> SUFFICES ASSUME NEW x
             PROVE  \E sum : /\ Sums(sum, summary, x, Cardinality(Threads))
                             /\ SumOver(x) = sum[Threads]
  OBVIOUS
<1>1. Threads \in SUBSET Threads /\ Cardinality(Threads) \in Nat
  BY OthersAreFewer
<1>2. PICK c0 : Sums(c0, summary, x, Cardinality(Threads))
  BY <1>1, SumsExist
<1> DEFINE c == [s \in SUBSET Threads |-> c0[s]]
<1>3. \A s \in SUBSET Threads :
        c[s] = IF s = {} THEN 0 ELSE c[s \ {CHOOSE t \in s : TRUE}] + summary[CHOOSE t \in s : TRUE][x]
  <2> SUFFICES ASSUME NEW s \in SUBSET Threads
               PROVE  c[s] = IF s = {} THEN 0 ELSE c[Others(s)] + summary[FirstOf(s)][x]
    BY DEF Others, FirstOf
  <2>1. c[s] = c0[s] /\ (s # {} => c[Others(s)] = c0[Others(s)])
    BY OthersAreFewer
  <2> QED BY <1>2, <2>1, OthersAreFewer DEF Sums
<1>4. c = [s \in SUBSET Threads |->
             IF s = {} THEN 0 ELSE c[s \ {CHOOSE t \in s : TRUE}] + summary[CHOOSE t \in s : TRUE][x]]
  BY <1>3
<1> HIDE DEF c
<1> DEFINE it == CHOOSE it : it = [s \in SUBSET Threads |->
             IF s = {} THEN 0 ELSE it[s \ {CHOOSE t \in s : TRUE}] + summary[CHOOSE t \in s : TRUE][x]]
<1>5. it = [s \in SUBSET Threads |->
             IF s = {} THEN 0 ELSE it[s \ {CHOOSE t \in s : TRUE}] + summary[CHOOSE t \in s : TRUE][x]]
  BY <1>4
<1>6. SumOver(x) = it[Threads]
  BY DEF SumOver, FoldSet, MapThenFoldSet
<1> HIDE DEF it
<1>7. Sums(it, summary, x, Cardinality(Threads))
  BY <1>5 DEF Sums, Others, FirstOf
<1> QED BY <1>6, <1>7

\* One more for one thread is one more for all.
LEMMA SumGrows ==
  ASSUME NEW f \in SummaryType, NEW g \in SummaryType, NEW x \in Items,
         NEW t \in Threads, NEW d \in Nat,
         g[t][x] = f[t][x] + d, \A u \in Threads \ {t} : g[u][x] = f[u][x],
         NEW sf, NEW sg,
         Sums(sf, f, x, Cardinality(Threads)), Sums(sg, g, x, Cardinality(Threads))
  PROVE  sf[Threads] \in Nat /\ sg[Threads] = sf[Threads] + d
<1> DEFINE Right(s) == /\ sf[s] \in Nat /\ sg[s] \in Nat
                       /\ sg[s] = sf[s] + (IF t \in s THEN d ELSE 0)
           T == {Cardinality(s) : s \in {q \in SUBSET Threads : ~Right(q)}}
<1>1. \A s \in SUBSET Threads : Right(s)
  <2> SUFFICES ASSUME NEW s0 \in SUBSET Threads, ~Right(s0) PROVE FALSE
    OBVIOUS
  <2>1. T \in SUBSET Nat /\ T # {}
    BY OthersAreFewer
  <2>2. PICK n \in T : \A k \in T : n <= k
    <3> HIDE DEF T
    <3> QED BY <2>1, LeastNatural
  <2>3. PICK s \in SUBSET Threads : ~Right(s) /\ Cardinality(s) = n
    OBVIOUS
  <2>4. /\ sf[s] = IF s = {} THEN 0 ELSE sf[Others(s)] + f[FirstOf(s)][x]
        /\ sg[s] = IF s = {} THEN 0 ELSE sg[Others(s)] + g[FirstOf(s)][x]
    BY OthersAreFewer DEF Sums
  <2>5. s # {}
    BY <2>3, <2>4
  <2>6. /\ FirstOf(s) \in s /\ FirstOf(s) \in Threads
        /\ Others(s) \in SUBSET Threads /\ Cardinality(Others(s)) = Cardinality(s) - 1
        /\ Cardinality(s) \in Nat
    BY <2>5, OthersAreFewer
  <2>7. Right(Others(s))
    <3> SUFFICES ASSUME ~Right(Others(s)) PROVE FALSE
      OBVIOUS
    <3>1. Cardinality(Others(s)) \in T
      BY <2>6
    <3>2. n <= Cardinality(Others(s))
      BY <2>2, <3>1
    <3> QED BY <2>3, <2>6, <3>2
  <2>8. \A u \in Threads : f[u][x] \in Nat /\ g[u][x] \in Nat
    BY DEF SummaryType
  <2>9. CASE t = FirstOf(s)
    <3>1. t \in s /\ t \notin Others(s)
      BY <2>6, <2>9 DEF Others
    <3> QED BY <2>3, <2>4, <2>5, <2>7, <2>8, <2>9, <3>1
  <2>10. CASE t # FirstOf(s)
    <3>1. t \in s <=> t \in Others(s)
      BY <2>10 DEF Others
    <3>2. g[FirstOf(s)][x] = f[FirstOf(s)][x]
      BY <2>6, <2>10
    <3>3. sg[s] = sg[Others(s)] + f[FirstOf(s)][x] /\ sf[s] = sf[Others(s)] + f[FirstOf(s)][x]
      BY <2>4, <2>5, <3>2
    <3>4. f[FirstOf(s)][x] \in Nat
      BY <2>6, <2>8
    <3>5. sf[Others(s)] \in Nat /\ sg[Others(s)] = sf[Others(s)] + (IF t \in s THEN d ELSE 0)
      BY <2>7, <3>1
    <3>6. Right(s)
      <4>1. CASE t \in s
        BY <3>3, <3>4, <3>5, <4>1
      <4>2. CASE t \notin s
        BY <3>3, <3>4, <3>5, <4>2
      <4> QED BY <4>1, <4>2
    <3> QED BY <2>3, <3>6
  <2> QED BY <2>9, <2>10
<1> QED BY <1>1

---------------------------------------------------------------------------
(* Counting.                                                               *)

Addend(u, x, t, kind, side, d) ==
  IF u # t THEN 0
  ELSE IF x = <<kind, side, "nr">> THEN 1
  ELSE IF x = <<kind, side, "distance">> THEN d
  ELSE 0

LEMMA ItemFacts ==
  /\ <<"event">> \in Items
  /\ \A kind \in {"race", "sync"}, side \in {"before", "after"}, n \in {"nr", "distance"} :
       <<kind, side, n>> \in Items
BY DEF Items

\* n more in one item of one thread.
Grown(s, t, a, n) == [s EXCEPT ![t][a] = @ + n]

LEMMA RowGrows ==
  \A s \in SummaryType, t \in Threads, a \in Items, n \in Nat :
    /\ Grown(s, t, a, n) \in SummaryType
    /\ \A u \in Threads, x \in Items :
         Grown(s, t, a, n)[u][x] = s[u][x] + (IF u = t /\ x = a THEN n ELSE 0)
<1> SUFFICES ASSUME NEW s \in SummaryType, NEW t \in Threads, NEW a \in Items, NEW n \in Nat
             PROVE  /\ Grown(s, t, a, n) \in SummaryType
                    /\ \A u \in Threads, x \in Items :
                         Grown(s, t, a, n)[u][x] = s[u][x] + (IF u = t /\ x = a THEN n ELSE 0)
  OBVIOUS
<1>1. s[t] \in [Items -> Nat] /\ \A u \in Threads, x \in Items : s[u][x] \in Nat
  BY DEF SummaryType
<1>2. PICK row : row = [s[t] EXCEPT ![a] = @ + n]
  OBVIOUS
<1>3. row \in [Items -> Nat] /\ \A x \in Items : row[x] = s[t][x] + (IF x = a THEN n ELSE 0)
  BY <1>1, <1>2
<1>4. PICK r : r = Grown(s, t, a, n)
  OBVIOUS
<1>5. r = [s EXCEPT ![t] = row]
  BY <1>2, <1>4 DEF Grown
<1>6. r \in [Threads -> [Items -> Nat]]
  BY <1>3, <1>5 DEF SummaryType
<1>7. r[t] = row /\ \A u \in Threads : u # t => r[u] = s[u]
  BY <1>5 DEF SummaryType
<1>8. \A u \in Threads, x \in Items : r[u][x] = s[u][x] + (IF u = t /\ x = a THEN n ELSE 0)
  BY <1>1, <1>3, <1>7
<1> QED BY <1>4, <1>6, <1>8 DEF SummaryType

Kinds == {"race", "sync"}
Sides == {"before", "after"}

LEMMA AddAdds ==
  ASSUME NEW s \in SummaryType, NEW t \in Threads, NEW d \in Nat,
         NEW kind \in Kinds, NEW side \in Sides
  PROVE  /\ Add(s, t, kind, side, d) \in SummaryType
         /\ \A u \in Threads, x \in Items :
              Add(s, t, kind, side, d)[u][x] = s[u][x] + Addend(u, x, t, kind, side, d)
<1>1. PICK a \in Items, b \in Items : a = <<kind, side, "nr">> /\ b = <<kind, side, "distance">>
  BY ItemFacts DEF Kinds, Sides
<1>2. a # b
  BY <1>1
<1>3. PICK s1 \in SummaryType :
        /\ s1 = Grown(s, t, a, 1)
        /\ \A u \in Threads, x \in Items : s1[u][x] = s[u][x] + (IF u = t /\ x = a THEN 1 ELSE 0)
  BY RowGrows
<1>4. PICK s2 \in SummaryType :
        /\ s2 = Grown(s1, t, b, d)
        /\ \A u \in Threads, x \in Items : s2[u][x] = s1[u][x] + (IF u = t /\ x = b THEN d ELSE 0)
  BY RowGrows
<1>5. Add(s, t, kind, side, d) = s2
  BY <1>1, <1>3, <1>4 DEF Add, Grown
<1>6. \A u \in Threads, x \in Items : Addend(u, x, t, kind, side, d)
        = IF u = t /\ x = a THEN 1 ELSE IF u = t /\ x = b THEN d ELSE 0
  BY <1>1 DEF Addend
<1>7. \A u \in Threads, x \in Items : s[u][x] \in Nat
  BY DEF SummaryType
<1>8. \A u \in Threads, x \in Items : s2[u][x] = s[u][x] + Addend(u, x, t, kind, side, d)
  BY <1>2, <1>3, <1>4, <1>6, <1>7
<1> QED BY <1>5, <1>8

LEMMA AddAddsAll ==
  \A s \in SummaryType, t \in Threads, d \in Nat,
     kind \in Kinds, side \in Sides :
    /\ Add(s, t, kind, side, d) \in SummaryType
    /\ \A u \in Threads, x \in Items :
         Add(s, t, kind, side, d)[u][x] = s[u][x] + Addend(u, x, t, kind, side, d)
BY AddAdds

\* A pair counts for its earlier and for its later thread.
LEMMA CountedCounts ==
  ASSUME TypeOK, summary \in SummaryType, NEW kind \in {"race", "sync"},
         NEW i \in Positions, NEW j \in Positions, i < j, NEW r, r = <<i, j>>
  PROVE  LET s == Counted(kind, r)
             ti == trace[i].tid tj == trace[j].tid d == j - i
         IN  /\ ti \in Threads /\ tj \in Threads /\ d \in Nat
             /\ s \in SummaryType
             /\ \A u \in Threads, x \in Items :
                  s[u][x] = summary[u][x] + Addend(u, x, ti, kind, "before", d)
                                          + Addend(u, x, tj, kind, "after", d)
<1>1. PICK ti \in Threads, tj \in Threads : ti = trace[i].tid /\ tj = trace[j].tid
  BY OldEvents, EventSorts
<1>2. PICK d \in Nat : d = j - i
  BY DEF Positions
<1>3. Counted(kind, r) = Add(Add(summary, ti, kind, "before", d), tj, kind, "after", d)
  BY <1>1, <1>2 DEF Counted
<1>9. kind \in Kinds /\ "before" \in Sides /\ "after" \in Sides
  BY DEF Kinds, Sides
<1>4. PICK s1 \in SummaryType :
        /\ s1 = Add(summary, ti, kind, "before", d)
        /\ \A u \in Threads, x \in Items :
             s1[u][x] = summary[u][x] + Addend(u, x, ti, kind, "before", d)
  BY <1>9, AddAddsAll
<1>5. /\ Add(s1, tj, kind, "after", d) \in SummaryType
      /\ \A u \in Threads, x \in Items :
           Add(s1, tj, kind, "after", d)[u][x] = s1[u][x] + Addend(u, x, tj, kind, "after", d)
  BY <1>9, AddAddsAll
<1>6. Counted(kind, r) \in SummaryType
  BY <1>3, <1>4, <1>5
<1>7. \A u \in Threads, x \in Items :
        Counted(kind, r)[u][x] = summary[u][x] + Addend(u, x, ti, kind, "before", d)
                                               + Addend(u, x, tj, kind, "after", d)
  BY <1>3, <1>4, <1>5
<1> QED BY <1>1, <1>2, <1>6, <1>7

\* The sums after a step, and how they have grown.
LEMMA SumOverSumsNext ==
  (\A x : \E sum : /\ Sums(sum, summary, x, Cardinality(Threads))
                   /\ SumOver(x) = sum[Threads])'
BY SumOverSums, PTL

LEMMA SumOverGrows ==
  ASSUME summary \in SummaryType, summary' \in SummaryType, NEW x \in Items,
         NEW t \in Threads, NEW d \in Nat,
         summary'[t][x] = summary[t][x] + d,
         \A u \in Threads \ {t} : summary'[u][x] = summary[u][x]
  PROVE  SumOver(x)' = SumOver(x) + d
<1>1. PICK sf : Sums(sf, summary, x, Cardinality(Threads)) /\ SumOver(x) = sf[Threads]
  BY SumOverSums
<1>2. \E sg : Sums(sg, summary', x, Cardinality(Threads)) /\ SumOver(x)' = sg[Threads]
  BY SumOverSumsNext
<1>3. PICK sg : Sums(sg, summary', x, Cardinality(Threads)) /\ SumOver(x)' = sg[Threads]
  BY <1>2
<1>4. PICK f, g : f = summary /\ g = summary'
  OBVIOUS
<1>5. sg[Threads] = sf[Threads] + d
  BY <1>1, <1>3, <1>4, SumGrows
<1> QED BY <1>1, <1>3, <1>5

\* What a pair adds to an item: one to the numbers and its distance to the
\* distances of its kind, for one thread.
Share(k, n, kind, d) == IF k # kind THEN 0 ELSE IF n = "nr" THEN 1 ELSE d

LEMMA PairShares ==
  ASSUME TypeOK, summary \in SummaryType, NEW kind \in {"race", "sync"},
         NEW i \in Positions, NEW j \in Positions, i < j, NEW r, r = <<i, j>>,
         summary' = Counted(kind, r)
  PROVE  /\ summary' \in SummaryType
         /\ trace[i].tid \in Threads /\ trace[j].tid \in Threads /\ j - i \in Nat
         /\ \A u \in Threads, k \in {"race", "sync"}, n \in {"nr", "distance"} :
              /\ summary'[u][<<k, "before", n>>] = summary[u][<<k, "before", n>>]
                   + (IF u = trace[i].tid THEN Share(k, n, kind, j - i) ELSE 0)
              /\ summary'[u][<<k, "after", n>>] = summary[u][<<k, "after", n>>]
                   + (IF u = trace[j].tid THEN Share(k, n, kind, j - i) ELSE 0)
         /\ \A u \in Threads : summary'[u][<<"event">>] = summary[u][<<"event">>]
<1>1. PICK ti \in Threads, tj \in Threads : ti = trace[i].tid /\ tj = trace[j].tid
  BY OldEvents, EventSorts
<1>2. PICK d \in Nat : d = j - i
  BY DEF Positions
<1>3. /\ summary' \in SummaryType
      /\ \A u \in Threads, x \in Items :
           summary'[u][x] = summary[u][x] + Addend(u, x, ti, kind, "before", d)
                                          + Addend(u, x, tj, kind, "after", d)
  BY <1>1, <1>2, CountedCounts
<1>4. \A u \in Threads, x \in Items : summary[u][x] \in Nat
  BY DEF SummaryType
<1>5. ASSUME NEW u \in Threads, NEW k \in {"race", "sync"}, NEW n \in {"nr", "distance"}
      PROVE  /\ Addend(u, <<k, "before", n>>, ti, kind, "before", d)
                  = IF u = ti THEN Share(k, n, kind, d) ELSE 0
             /\ Addend(u, <<k, "before", n>>, tj, kind, "after", d) = 0
             /\ Addend(u, <<k, "after", n>>, ti, kind, "before", d) = 0
             /\ Addend(u, <<k, "after", n>>, tj, kind, "after", d)
                  = IF u = tj THEN Share(k, n, kind, d) ELSE 0
             /\ Share(k, n, kind, d) \in Nat
  BY DEF Addend, Share
<1>6. ASSUME NEW u \in Threads
      PROVE  /\ Addend(u, <<"event">>, ti, kind, "before", d) = 0
             /\ Addend(u, <<"event">>, tj, kind, "after", d) = 0
  BY DEF Addend
<1>7. ASSUME NEW u \in Threads, NEW k \in {"race", "sync"}, NEW n \in {"nr", "distance"}
      PROVE  /\ summary'[u][<<k, "before", n>>] = summary[u][<<k, "before", n>>]
                   + (IF u = ti THEN Share(k, n, kind, d) ELSE 0)
             /\ summary'[u][<<k, "after", n>>] = summary[u][<<k, "after", n>>]
                   + (IF u = tj THEN Share(k, n, kind, d) ELSE 0)
  <2>1. PICK x \in Items, y \in Items : x = <<k, "before", n>> /\ y = <<k, "after", n>>
    BY ItemFacts
  <2>2. /\ summary'[u][x] = summary[u][x] + Addend(u, x, ti, kind, "before", d)
                                         + Addend(u, x, tj, kind, "after", d)
        /\ summary'[u][y] = summary[u][y] + Addend(u, y, ti, kind, "before", d)
                                         + Addend(u, y, tj, kind, "after", d)
        /\ summary[u][x] \in Nat /\ summary[u][y] \in Nat
    BY <1>3, <1>4
  <2> QED BY <1>5, <2>1, <2>2
<1>8. ASSUME NEW u \in Threads
      PROVE  summary'[u][<<"event">>] = summary[u][<<"event">>]
  BY <1>3, <1>4, <1>6, ItemFacts
<1> QED BY <1>1, <1>2, <1>3, <1>7, <1>8

LEMMA PairBalances ==
  ASSUME TypeOK, summary \in SummaryType, BalanceInv, NEW kind \in {"race", "sync"},
         NEW i \in Positions, NEW j \in Positions, i < j, NEW r, r = <<i, j>>,
         summary' = Counted(kind, r)
  PROVE  BalanceInv'
<1>1. PICK ti \in Threads, tj \in Threads, d \in Nat :
        ti = trace[i].tid /\ tj = trace[j].tid /\ d = j - i
  BY PairShares
<1>2. summary' \in SummaryType
  BY PairShares
<1> SUFFICES ASSUME NEW k \in {"race", "sync"}, NEW n \in {"nr", "distance"}
             PROVE  SumOver(<<k, "before", n>>)' = SumOver(<<k, "after", n>>)'
  BY DEF BalanceInv
<1>3. PICK x \in Items, y \in Items : x = <<k, "before", n>> /\ y = <<k, "after", n>>
  BY ItemFacts
<1>4. PICK a \in Nat : a = Share(k, n, kind, d)
  BY DEF Share
<1>5. \A u \in Threads : /\ summary'[u][x] = summary[u][x] + (IF u = ti THEN a ELSE 0)
                         /\ summary'[u][y] = summary[u][y] + (IF u = tj THEN a ELSE 0)
                         /\ summary[u][x] \in Nat /\ summary[u][y] \in Nat
  <2>1. \A u \in Threads : summary[u][x] \in Nat /\ summary[u][y] \in Nat
    BY DEF SummaryType
  <2> QED BY <1>1, <1>3, <1>4, <2>1, PairShares
<1>6. SumOver(x)' = SumOver(x) + a
  BY <1>2, <1>5, SumOverGrows
<1>7. SumOver(y)' = SumOver(y) + a
  BY <1>2, <1>5, SumOverGrows
<1>8. SumOver(x) = SumOver(y)
  BY <1>3 DEF BalanceInv
<1> QED BY <1>3, <1>6, <1>7, <1>8

\* The sums of items that are left alone.
LEMMA BalanceStays ==
  ASSUME summary \in SummaryType, summary' \in SummaryType, BalanceInv,
         \A u \in Threads, x \in Items \ {<<"event">>} : summary'[u][x] = summary[u][x]
  PROVE  BalanceInv'
<1> SUFFICES ASSUME NEW k \in {"race", "sync"}, NEW n \in {"nr", "distance"}
             PROVE  SumOver(<<k, "before", n>>)' = SumOver(<<k, "after", n>>)'
  BY DEF BalanceInv
<1>1. PICK x \in Items, y \in Items : x = <<k, "before", n>> /\ y = <<k, "after", n>>
  BY ItemFacts
<1>2. x # <<"event">> /\ y # <<"event">>
  BY <1>1
<1>3. \A u \in Threads : /\ summary'[u][x] = summary[u][x] + 0 /\ summary'[u][y] = summary[u][y] + 0
                         /\ summary'[u][x] = summary[u][x] /\ summary'[u][y] = summary[u][y]
  <2>1. \A u \in Threads : summary[u][x] \in Nat /\ summary[u][y] \in Nat
    BY DEF SummaryType
  <2> QED BY <1>2, <2>1
<1>4. Main \in Threads
  BY RaceAssumption DEF RaceAssumption
<1>5. SumOver(x)' = SumOver(x) + 0
  BY <1>3, <1>4, SumOverGrows
<1>6. SumOver(y)' = SumOver(y) + 0
  BY <1>3, <1>4, SumOverGrows
<1>7. SumOver(x) = SumOver(y)
  BY <1>1 DEF BalanceInv
<1> QED BY <1>1, <1>5, <1>6, <1>7

\* One more pair, or event, is one more of its thread's.
LEMMA OneMore ==
  ASSUME NEW S, IsFiniteSet(S), NEW r, r \notin S, NEW A, A \subseteq S,
         NEW B, B = A \/ B = A \union {r}
  PROVE  /\ Cardinality(A) \in Nat
         /\ B = A => Cardinality(B) = Cardinality(A)
         /\ B = A \union {r} => Cardinality(B) = Cardinality(A) + 1
<1>1. IsFiniteSet(A) /\ r \notin A
  BY FS_Subset
<1> QED BY <1>1, FS_CardinalityType, FS_AddElement

LEMMA FinitelyMany ==
  ASSUME TypeOK
  PROVE  IsFiniteSet(races) /\ IsFiniteSet(syncHb)
<1>1. Len(trace) \in Nat
  BY DEF TypeOK
<1>2. IsFiniteSet(Positions)
  BY <1>1, FS_Interval DEF Positions
<1>3. IsFiniteSet(Positions \X Positions)
  BY <1>2, FS_Product
<1> QED BY <1>3, FS_Subset DEF TypeOK

\* A step in which nothing is counted.
LEMMA CountsStay ==
  ASSUME CountsInv, UNCHANGED summary,
         UNCHANGED trace \/ (Reported = {} /\ SyncsCounted = {} /\ EventsCounted = 0),
         Reported' = Reported, SyncsCounted' = SyncsCounted, EventsCounted' = EventsCounted,
         phase' = "syncs" => done' \subseteq syncHb', Counting'
  PROVE  CountsInv'
<1>1. \A t \in Threads :
        /\ {r \in Reported : trace'[r[2]].tid = t} = {r \in Reported : trace[r[2]].tid = t}
        /\ {r \in SyncsCounted : trace'[r[1]].tid = t} = {r \in SyncsCounted : trace[r[1]].tid = t}
        /\ {i \in 1..EventsCounted : trace'[i].tid = t} = {i \in 1..EventsCounted : trace[i].tid = t}
  OBVIOUS
<1>2. \A t \in Threads :
        /\ summary'[t][<<"race", "after", "nr">>]
             = Cardinality({r \in Reported' : trace'[r[2]].tid = t})
        /\ summary'[t][<<"sync", "before", "nr">>]
             = Cardinality({r \in SyncsCounted' : trace'[r[1]].tid = t})
        /\ summary'[t][<<"event">>] = Cardinality({i \in 1..EventsCounted' : trace'[i].tid = t})
  BY <1>1 DEF CountsInv
<1> QED BY <1>2 DEF CountsInv

LEMMA HandleRaceCounts ==
  ASSUME TypeOK, RacesConcurrent, TableInv, CountsInv, BalanceInv, HandleRace
  PROVE  CountsInv' /\ BalanceInv'
<1>1. /\ phase = "races" /\ phase' = "races" /\ done \subseteq races
      /\ UNCHANGED <<vars, inst, phase>>
  BY DEF HandleRace, TableInv
<1>2. PICK r \in races \ done : summary' = Counted("race", r) /\ done' = done \union {r}
  BY DEF HandleRace
<1>3. PICK i \in Positions, j \in Positions : r = <<i, j>> /\ i = r[1] /\ j = r[2]
  BY <1>2 DEF TypeOK
<1>4. i < j
  BY <1>2, <1>3 DEF RacesConcurrent
<1>5. /\ summary' \in SummaryType /\ trace[j].tid \in Threads /\ j - i \in Nat
      /\ \A u \in Threads :
           /\ summary'[u][<<"race", "after", "nr">>] = summary[u][<<"race", "after", "nr">>]
                + (IF u = trace[j].tid THEN Share("race", "nr", "race", j - i) ELSE 0)
           /\ summary'[u][<<"sync", "before", "nr">>] = summary[u][<<"sync", "before", "nr">>]
                + (IF u = trace[i].tid THEN Share("sync", "nr", "race", j - i) ELSE 0)
           /\ summary'[u][<<"event">>] = summary[u][<<"event">>]
  BY <1>2, <1>3, <1>4, PairShares DEF CountsInv
<1>6. Share("race", "nr", "race", j - i) = 1 /\ Share("sync", "nr", "race", j - i) = 0
  BY DEF Share
<1>7. BalanceInv'
  BY <1>2, <1>3, <1>4, PairBalances DEF CountsInv
<1>8. /\ Reported = done /\ Reported' = done \union {r} /\ r \notin done
      /\ SyncsCounted = {} /\ SyncsCounted' = {} /\ EventsCounted = 0 /\ EventsCounted' = 0
      /\ trace' = trace
  BY <1>1, <1>2 DEF Reported, SyncsCounted, EventsCounted, vars, historyVars
<1>9. IsFiniteSet(done)
  BY <1>1, FinitelyMany, FS_Subset
<1>10. ASSUME NEW t \in Threads
       PROVE  /\ summary'[t][<<"race", "after", "nr">>]
                   = Cardinality({q \in done \union {r} : trace[q[2]].tid = t})
              /\ summary'[t][<<"sync", "before", "nr">>]
                   = Cardinality({q \in {} : trace[q[1]].tid = t})
              /\ summary'[t][<<"event">>] = Cardinality({k \in 1..0 : trace[k].tid = t})
  <2> DEFINE A == {q \in done : trace[q[2]].tid = t}
             B == {q \in done \union {r} : trace[q[2]].tid = t}
  <2>1. /\ summary[t][<<"race", "after", "nr">>] = Cardinality(A)
        /\ summary[t][<<"sync", "before", "nr">>] = Cardinality({q \in {} : trace[q[1]].tid = t})
        /\ summary[t][<<"event">>] = Cardinality({k \in 1..0 : trace[k].tid = t})
    BY <1>8 DEF CountsInv
  <2>2. \A u \in Threads, x \in Items : summary[u][x] \in Nat
    BY DEF CountsInv, SummaryType
  <2>3. /\ A \subseteq done
        /\ t = trace[j].tid => B = A \union {r}
        /\ t # trace[j].tid => B = A
    BY <1>3, <1>8
  <2> HIDE DEF A, B
  <2>4. /\ Cardinality(A) \in Nat
        /\ t = trace[j].tid => Cardinality(B) = Cardinality(A) + 1
        /\ t # trace[j].tid => Cardinality(B) = Cardinality(A)
    BY <1>8, <1>9, <2>3, OneMore
  <2>5. summary[t][<<"sync", "before", "nr">>] \in Nat
    BY <2>2, ItemFacts
  <2>6. summary'[t][<<"sync", "before", "nr">>] = summary[t][<<"sync", "before", "nr">>]
    BY <1>5, <1>6, <2>5
  <2>7. summary'[t][<<"race", "after", "nr">>] = Cardinality(B)
    BY <1>5, <1>6, <2>1, <2>4
  <2> QED BY <1>5, <2>1, <2>6, <2>7 DEF B
<1>11. CountsInv'
  BY <1>1, <1>5, <1>8, <1>10 DEF CountsInv, Counting
<1> QED BY <1>7, <1>11

LEMMA HandleSyncCounts ==
  ASSUME TypeOK, SyncPairsAreNearest, CountsInv, BalanceInv, HandleSync
  PROVE  CountsInv' /\ BalanceInv'
<1>1. /\ phase = "syncs" /\ phase' = "syncs" /\ done \subseteq syncHb
      /\ UNCHANGED <<vars, inst, phase>>
  BY DEF HandleSync, CountsInv
<1>2. PICK r \in syncHb \ done : summary' = Counted("sync", r) /\ done' = done \union {r}
  BY DEF HandleSync
<1>3. PICK i \in Positions, j \in Positions : r = <<i, j>> /\ i = r[1] /\ j = r[2]
  BY <1>2 DEF TypeOK
<1>4. i < j
  BY <1>2, <1>3 DEF SyncPairsAreNearest
<1>5. /\ summary' \in SummaryType /\ trace[i].tid \in Threads /\ j - i \in Nat
      /\ \A u \in Threads :
           /\ summary'[u][<<"race", "after", "nr">>] = summary[u][<<"race", "after", "nr">>]
                + (IF u = trace[j].tid THEN Share("race", "nr", "sync", j - i) ELSE 0)
           /\ summary'[u][<<"sync", "before", "nr">>] = summary[u][<<"sync", "before", "nr">>]
                + (IF u = trace[i].tid THEN Share("sync", "nr", "sync", j - i) ELSE 0)
           /\ summary'[u][<<"event">>] = summary[u][<<"event">>]
  BY <1>2, <1>3, <1>4, PairShares DEF CountsInv
<1>6. Share("race", "nr", "sync", j - i) = 0 /\ Share("sync", "nr", "sync", j - i) = 1
  BY DEF Share
<1>7. BalanceInv'
  BY <1>2, <1>3, <1>4, PairBalances DEF CountsInv
<1>8. /\ SyncsCounted = done /\ SyncsCounted' = done \union {r} /\ r \notin done
      /\ Reported' = Reported /\ EventsCounted = 0 /\ EventsCounted' = 0
      /\ trace' = trace /\ syncHb' = syncHb
  BY <1>1, <1>2 DEF Reported, SyncsCounted, EventsCounted, vars, historyVars
<1>9. IsFiniteSet(done)
  BY <1>1, FinitelyMany, FS_Subset
<1>10. ASSUME NEW t \in Threads
       PROVE  /\ summary'[t][<<"race", "after", "nr">>]
                   = Cardinality({q \in Reported : trace[q[2]].tid = t})
              /\ summary'[t][<<"sync", "before", "nr">>]
                   = Cardinality({q \in done \union {r} : trace[q[1]].tid = t})
              /\ summary'[t][<<"event">>] = Cardinality({k \in 1..0 : trace[k].tid = t})
  <2> DEFINE A == {q \in done : trace[q[1]].tid = t}
             B == {q \in done \union {r} : trace[q[1]].tid = t}
  <2>1. /\ summary[t][<<"sync", "before", "nr">>] = Cardinality(A)
        /\ summary[t][<<"race", "after", "nr">>] = Cardinality({q \in Reported : trace[q[2]].tid = t})
        /\ summary[t][<<"event">>] = Cardinality({k \in 1..0 : trace[k].tid = t})
    BY <1>8 DEF CountsInv
  <2>2. \A u \in Threads, x \in Items : summary[u][x] \in Nat
    BY DEF CountsInv, SummaryType
  <2>3. /\ A \subseteq done
        /\ t = trace[i].tid => B = A \union {r}
        /\ t # trace[i].tid => B = A
    BY <1>3, <1>8
  <2> HIDE DEF A, B
  <2>4. /\ Cardinality(A) \in Nat
        /\ t = trace[i].tid => Cardinality(B) = Cardinality(A) + 1
        /\ t # trace[i].tid => Cardinality(B) = Cardinality(A)
    BY <1>8, <1>9, <2>3, OneMore
  <2>5. summary[t][<<"race", "after", "nr">>] \in Nat
    BY <2>2, ItemFacts
  <2>6. summary'[t][<<"race", "after", "nr">>] = summary[t][<<"race", "after", "nr">>]
    BY <1>5, <1>6, <2>5
  <2>7. summary'[t][<<"sync", "before", "nr">>] = Cardinality(B)
    BY <1>5, <1>6, <2>1, <2>4
  <2> QED BY <1>5, <2>1, <2>6, <2>7 DEF B
<1>11. CountsInv'
  <2>1. Counting' /\ done' \subseteq syncHb'
    BY <1>1, <1>2, <1>8 DEF Counting
  <2>2. \A t \in Threads :
          /\ summary'[t][<<"race", "after", "nr">>]
               = Cardinality({q \in Reported' : trace'[q[2]].tid = t})
          /\ summary'[t][<<"sync", "before", "nr">>]
               = Cardinality({q \in SyncsCounted' : trace'[q[1]].tid = t})
          /\ summary'[t][<<"event">>] = Cardinality({k \in 1..EventsCounted' : trace'[k].tid = t})
    BY <1>8, <1>10
  <2> QED BY <1>5, <2>1, <2>2 DEF CountsInv
<1> QED BY <1>7, <1>11

LEMMA CountEventCounts ==
  ASSUME TypeOK, CountsInv, BalanceInv, CountEvent
  PROVE  CountsInv' /\ BalanceInv'
<1>1. PICK c : c = Cardinality(done)
  OBVIOUS
<1>2. /\ phase = "events" /\ IsFiniteSet(done) /\ c \in Nat /\ c + 1 <= Len(trace)
      /\ UNCHANGED <<vars, inst, phase, table>>
      /\ summary' = [summary EXCEPT ![trace[c + 1].tid][<<"event">>] = @ + 1]
      /\ done' = done \union {<<c + 1, c + 1>>}
      /\ \A i \in Nat : <<i, i>> \in done => i <= c
  <2>1. phase = "events" /\ IsFiniteSet(done)
    BY DEF CountEvent, CountsInv, Counting
  <2>2. c \in Nat
    BY <1>1, <2>1, FS_CardinalityType
  <2> QED BY <1>1, <2>1, <2>2 DEF CountEvent, CountsInv, Counting
<1>3. c + 1 \in Positions /\ trace[c + 1].tid \in Threads
  <2>1. Len(trace) \in Nat
    BY DEF TypeOK
  <2>2. c + 1 \in Positions
    BY <1>2, <2>1 DEF Positions
  <2> QED BY <2>2, OldEvents, EventSorts
<1>4. <<c + 1, c + 1>> \notin done
  BY <1>2
<1>5. IsFiniteSet(done') /\ Cardinality(done') = c + 1
  BY <1>1, <1>2, <1>4, FS_AddElement
<1>6. Counting'
  <2>1. \A i \in Nat : <<i, i>> \in done' => i <= c + 1
    BY <1>2
  <2> QED BY <1>2, <1>5, <2>1 DEF Counting, vars, historyVars
<1>7. PICK e \in Items : e = <<"event">>
  BY ItemFacts
<1>8. /\ summary' \in SummaryType
      /\ \A u \in Threads, x \in Items :
           summary'[u][x] = summary[u][x] + (IF u = trace[c + 1].tid /\ x = e THEN 1 ELSE 0)
  <2>1. summary' = Grown(summary, trace[c + 1].tid, e, 1)
    BY <1>2, <1>7 DEF Grown
  <2>2. PICK s \in SummaryType, t \in Threads : s = summary /\ t = trace[c + 1].tid
    BY <1>3 DEF CountsInv
  <2>3. /\ Grown(s, t, e, 1) \in SummaryType
        /\ \A u \in Threads, x \in Items :
             Grown(s, t, e, 1)[u][x] = s[u][x] + (IF u = t /\ x = e THEN 1 ELSE 0)
    BY RowGrows
  <2> QED BY <2>1, <2>2, <2>3
<1>9. \A u \in Threads, x \in Items : summary[u][x] \in Nat
  BY DEF CountsInv, SummaryType
<1>10. \A u \in Threads, x \in Items \ {e} : summary'[u][x] = summary[u][x]
  BY <1>8, <1>9
<1>11. BalanceInv'
  BY <1>7, <1>8, <1>10, BalanceStays DEF CountsInv
<1>12. /\ Reported' = Reported /\ SyncsCounted' = SyncsCounted
       /\ EventsCounted = c /\ EventsCounted' = c + 1 /\ trace' = trace
  BY <1>1, <1>2, <1>5 DEF Reported, SyncsCounted, EventsCounted, vars, historyVars
<1>13. ASSUME NEW t \in Threads
       PROVE  /\ summary'[t][<<"race", "after", "nr">>] = summary[t][<<"race", "after", "nr">>]
              /\ summary'[t][<<"sync", "before", "nr">>] = summary[t][<<"sync", "before", "nr">>]
              /\ summary'[t][<<"event">>] = Cardinality({i \in 1..(c + 1) : trace[i].tid = t})
  <2> DEFINE A == {i \in 1..c : trace[i].tid = t}
             B == {i \in 1..(c + 1) : trace[i].tid = t}
  <2>1. summary[t][<<"event">>] = Cardinality(A)
    BY <1>12 DEF CountsInv
  <2>2. IsFiniteSet(1..c) /\ c + 1 \notin 1..c /\ 1..(c + 1) = (1..c) \union {c + 1}
    <3>1. c \in Nat /\ c \in Int /\ 1 \in Int
      BY <1>2
    <3>2. IsFiniteSet(1..c)
      BY <3>1, FS_Interval
    <3>3. c + 1 \notin 1..c /\ 1..(c + 1) = (1..c) \union {c + 1}
      BY <3>1
    <3> QED BY <3>2, <3>3
  <2>3. /\ A \subseteq 1..c
        /\ t = trace[c + 1].tid => B = A \union {c + 1}
        /\ t # trace[c + 1].tid => B = A
    BY <2>2
  <2> HIDE DEF A, B
  <2>4. /\ Cardinality(A) \in Nat
        /\ t = trace[c + 1].tid => Cardinality(B) = Cardinality(A) + 1
        /\ t # trace[c + 1].tid => Cardinality(B) = Cardinality(A)
    <3>1. PICK S, r : /\ S = 1..c /\ r = c + 1 /\ IsFiniteSet(S) /\ r \notin S /\ A \subseteq S
                      /\ t = trace[r].tid => B = A \union {r}
                      /\ t # trace[r].tid => B = A
      BY <2>2, <2>3
    <3>2. /\ Cardinality(A) \in Nat
          /\ B = A => Cardinality(B) = Cardinality(A)
          /\ B = A \union {r} => Cardinality(B) = Cardinality(A) + 1
      <4>1. B = A \/ B = A \union {r}
        BY <3>1
      <4>2. IsFiniteSet(S) /\ r \notin S /\ A \subseteq S
        BY <3>1
      <4> QED BY <4>1, <4>2, OneMore
    <3> QED BY <3>1, <3>2
  <2>5. summary'[t][e] = summary[t][e] + (IF t = trace[c + 1].tid THEN 1 ELSE 0)
    BY <1>8
  <2>6. summary'[t][<<"event">>] = Cardinality(B)
    BY <1>7, <2>1, <2>4, <2>5
  <2>7. PICK x \in Items, y \in Items : x = <<"race", "after", "nr">> /\ y = <<"sync", "before", "nr">>
    BY ItemFacts
  <2>8. x # e /\ y # e
    BY <1>7, <2>7
  <2>9. summary'[t][x] = summary[t][x] /\ summary'[t][y] = summary[t][y]
    BY <1>10, <2>8
  <2> QED BY <2>6, <2>7, <2>9 DEF B
<1>14. CountsInv'
  <2>1. phase' # "syncs"
    BY <1>2
  <2>2. \A t \in Threads :
          /\ summary'[t][<<"race", "after", "nr">>]
               = Cardinality({r \in Reported' : trace'[r[2]].tid = t})
          /\ summary'[t][<<"sync", "before", "nr">>]
               = Cardinality({r \in SyncsCounted' : trace'[r[1]].tid = t})
          /\ summary'[t][<<"event">>] = Cardinality({i \in 1..EventsCounted' : trace'[i].tid = t})
    <3> SUFFICES ASSUME NEW t \in Threads
                 PROVE  /\ summary'[t][<<"race", "after", "nr">>]
                             = Cardinality({r \in Reported : trace[r[2]].tid = t})
                        /\ summary'[t][<<"sync", "before", "nr">>]
                             = Cardinality({r \in SyncsCounted : trace[r[1]].tid = t})
                        /\ summary'[t][<<"event">>] = Cardinality({k \in 1..(c + 1) : trace[k].tid = t})
      BY <1>12
    <3>1. /\ summary[t][<<"race", "after", "nr">>]
               = Cardinality({r \in Reported : trace[r[2]].tid = t})
          /\ summary[t][<<"sync", "before", "nr">>]
               = Cardinality({r \in SyncsCounted : trace[r[1]].tid = t})
      BY DEF CountsInv
    <3> QED BY <1>13, <3>1
  <2> QED BY <1>6, <1>8, <2>1, <2>2 DEF CountsInv
<1> QED BY <1>11, <1>14

\* The end of a loop counts nothing.
LEMMA EndLoopCounts ==
  ASSUME TypeOK, CountsInv, EndLoop
  PROVE  CountsInv'
<1>0. UNCHANGED <<summary, trace, races, syncHb>> /\ done' = {}
  BY DEF EndLoop, Later, vars, historyVars
<1>1. IsFiniteSet({}) /\ Cardinality({}) = 0
  BY FS_EmptySet
<1>2. Len(trace) \in Nat
  BY DEF TypeOK
<1>3. CASE phase = "races" /\ done = races /\ phase' = "syncs"
  <2>1. Reported' = Reported /\ SyncsCounted' = SyncsCounted /\ EventsCounted' = EventsCounted
    BY <1>0, <1>3 DEF Reported, SyncsCounted, EventsCounted
  <2> QED BY <1>0, <1>3, <2>1, CountsStay DEF Counting
<1>4. CASE phase = "syncs" /\ done = syncHb /\ phase' = "events"
  <2>1. Reported' = Reported /\ SyncsCounted' = SyncsCounted /\ EventsCounted' = EventsCounted
    BY <1>0, <1>1, <1>4 DEF Reported, SyncsCounted, EventsCounted
  <2>2. Counting'
    BY <1>0, <1>1, <1>2 DEF Counting
  <2> QED BY <1>0, <1>4, <2>1, <2>2, CountsStay
<1>5. CASE phase = "events" /\ Cardinality(done) = Len(trace) /\ phase' = "save"
  <2>1. Reported' = Reported /\ SyncsCounted' = SyncsCounted /\ EventsCounted' = EventsCounted
    BY <1>0, <1>5 DEF Reported, SyncsCounted, EventsCounted
  <2> QED BY <1>0, <1>5, <2>1, CountsStay DEF Counting
<1> QED BY <1>3, <1>4, <1>5 DEF EndLoop, Later

LEMMA CountsNext ==
  ASSUME TypeOK, RacesConcurrent, SyncPairsAreNearest, TableInv, CountsInv, BalanceInv,
         [ReportNext]_passVars
  PROVE  CountsInv' /\ BalanceInv'
<1>1. CASE Analyze \/ AnalyzeDone
  <2>1. /\ phase = "detect" /\ phase' \in {"detect", "races"} /\ summary' = summary
        /\ done = {} /\ done' = {}
    BY <1>1 DEF Analyze, AnalyzeDone, TableInv
  <2>2. /\ Reported = {} /\ SyncsCounted = {} /\ EventsCounted = 0
        /\ Reported' = {} /\ SyncsCounted' = {} /\ EventsCounted' = 0
    BY <2>1 DEF Reported, SyncsCounted, EventsCounted
  <2>3. Counting'
    BY <2>1 DEF Counting
  <2>4. CountsInv'
    BY <2>1, <2>2, <2>3, CountsStay
  <2> QED BY <2>1, <2>4, BalanceStays DEF CountsInv
<1>2. CASE HandleRace
  BY <1>2, HandleRaceCounts
<1>3. CASE HandleSync
  BY <1>3, HandleSyncCounts
<1>4. CASE CountEvent
  BY <1>4, CountEventCounts
<1>5. CASE EndLoop
  <2>1. summary' = summary
    BY <1>5 DEF EndLoop, Later
  <2> QED BY <1>5, <2>1, EndLoopCounts, BalanceStays DEF CountsInv
<1>6. CASE UNCHANGED passVars
  <2>1. UNCHANGED <<summary, trace, races, syncHb, done, phase>>
    BY <1>6 DEF passVars, vars, historyVars
  <2>2. Reported' = Reported /\ SyncsCounted' = SyncsCounted /\ EventsCounted' = EventsCounted
    BY <2>1 DEF Reported, SyncsCounted, EventsCounted
  <2>3. Counting' /\ (phase' = "syncs" => done' \subseteq syncHb')
    BY <2>1 DEF CountsInv, Counting
  <2>4. CountsInv'
    BY <2>1, <2>2, <2>3, CountsStay
  <2> QED BY <2>1, <2>4, BalanceStays DEF CountsInv
<1> QED BY <1>1, <1>2, <1>3, <1>4, <1>5, <1>6 DEF ReportNext

LEMMA CountsTell ==
  ASSUME CountsInv, BalanceInv
  PROVE  SummariesBalance
<1> SUFFICES ASSUME phase = "save", NEW t \in Threads
             PROVE  /\ summary[t][<<"race", "after", "nr">>]
                         = Cardinality({r \in races : trace[r[2]].tid = t})
                    /\ summary[t][<<"sync", "before", "nr">>]
                         = Cardinality({r \in syncHb : trace[r[1]].tid = t})
                    /\ summary[t][<<"event">>]
                         = Cardinality({i \in 1..Len(trace) : trace[i].tid = t})
  BY DEF SummariesBalance, BalanceInv
<1>1. Reported = races /\ SyncsCounted = syncHb /\ EventsCounted = Len(trace)
  BY DEF Reported, SyncsCounted, EventsCounted
<1> QED BY <1>1 DEF CountsInv

LEMMA CountsInit ==
  ASSUME ReportInit
  PROVE  CountsInv /\ BalanceInv
<1>1. /\ phase = "detect" /\ done = {} /\ trace = <<>>
      /\ summary = [t \in Threads |-> [x \in Items |-> 0]]
  BY DEF ReportInit, Init
<1>2. summary \in SummaryType
  BY <1>1 DEF SummaryType
<1>3. Reported = {} /\ SyncsCounted = {} /\ EventsCounted = 0 /\ Counting
  BY <1>1 DEF Reported, SyncsCounted, EventsCounted, Counting
<1>4. ASSUME NEW t \in Threads
      PROVE  /\ {r \in Reported : trace[r[2]].tid = t} = {}
             /\ {r \in SyncsCounted : trace[r[1]].tid = t} = {}
             /\ {i \in 1..EventsCounted : trace[i].tid = t} = {}
  BY <1>3
<1>5. Cardinality({}) = 0
  BY FS_EmptySet
<1>6. \A t \in Threads, x \in Items : summary[t][x] = 0
  BY <1>1
<1>7. CountsInv
  <2>1. \A t \in Threads :
          /\ summary[t][<<"race", "after", "nr">>] = 0
          /\ summary[t][<<"sync", "before", "nr">>] = 0
          /\ summary[t][<<"event">>] = 0
    BY <1>6, ItemFacts
  <2> QED BY <1>1, <1>2, <1>3, <1>4, <1>5, <2>1 DEF CountsInv
<1>8. ASSUME NEW x \in Items, NEW y \in Items PROVE SumOver(x) = SumOver(y)
  <2>1. PICK sx : Sums(sx, summary, x, Cardinality(Threads)) /\ SumOver(x) = sx[Threads]
    BY SumOverSums
  <2>2. PICK sy : Sums(sy, summary, y, Cardinality(Threads)) /\ SumOver(y) = sy[Threads]
    BY SumOverSums
  <2>3. PICK f \in SummaryType : f = summary /\ \A t \in Threads : f[t][x] = 0 /\ f[t][y] = 0
    BY <1>2, <1>6
  <2>4. Sums(sx, f, y, Cardinality(Threads))
    <3>1. \A s \in SUBSET Threads : s # {} => FirstOf(s) \in Threads
      BY OthersAreFewer
    <3> QED BY <2>1, <2>3, <3>1 DEF Sums
  <2>5. Main \in Threads
    BY RaceAssumption DEF RaceAssumption
  <2>6. \A u \in Threads : f[u][y] = f[u][y] + 0
    BY <2>3
  <2>7. sy[Threads] \in Nat /\ sx[Threads] = sy[Threads] + 0
    BY <2>2, <2>3, <2>4, <2>5, <2>6, SumGrows
  <2> QED BY <2>1, <2>2, <2>7
<1>9. BalanceInv
  BY <1>8, ItemFacts DEF BalanceInv
<1> QED BY <1>7, <1>9

\* What the threads' summaries say of each other adds up at every moment, and
\* at the end they count the races, the sync pairs and the events of the trace,
\* each once, for any number of threads and in whichever order pairs are handled.
THEOREM SummariesAddUp == ReportSpec => []SummariesBalance
<1> DEFINE PassInv == DetectInv /\ TableInv
           SumInv == CountsInv /\ BalanceInv
<1>1. ReportSpec => []PassInv
  BY PassInvariant
<1>2. ReportSpec => []SyncPairsAreNearest
  BY PassImplementsDetector, PairsAreNearest, PTL
<1>3. ReportInit => SumInv
  BY CountsInit
<1>4. PassInv /\ SyncPairsAreNearest /\ SumInv /\ [ReportNext]_passVars => SumInv'
  BY CountsNext DEF DetectInv, ClockInv
<1>5. SumInv => SummariesBalance
  BY CountsTell
<1> QED BY <1>1, <1>2, <1>3, <1>4, <1>5, PTL DEF ReportSpec

---------------------------------------------------------------------------
(* FlattenSeq, by induction on the number of sequences.                    *)

\* f does what the recursive function in FlattenSeq does, n times.
Flattens(f, ss, n) ==
  \A i \in 1..n : f[i] = IF i = 1 THEN ss[i] ELSE f[i - 1] \o ss[i]

\* c gives the first sequences of ss in a row, for up to n of them.
Joins(c, ss, n) == c[0] = <<>> /\ \A i \in 1..n : c[i] = c[i - 1] \o ss[i]

\* The recursive function in FlattenSeq exists.
LEMMA FlattenerExists ==
  ASSUME NEW ss, NEW N \in Nat
  PROVE  \E f : f = [i \in 1..N |-> IF i = 1 THEN ss[i] ELSE f[i - 1] \o ss[i]]
<1> DEFINE U == {n \in 0..N : ~ \E f : Flattens(f, ss, n)}
<1>1. U = {}
  <2> SUFFICES ASSUME U # {} PROVE FALSE
    OBVIOUS
  <2>1. PICK n \in U : \A k \in U : n <= k
    <3>1. U \in SUBSET Nat
      OBVIOUS
    <3> HIDE DEF U
    <3> QED BY <3>1, LeastNatural
  <2>2. n \in 0..N /\ ~ \E f : Flattens(f, ss, n)
    OBVIOUS
  <2>3. n # 0
    <3>1. Flattens(<<>>, ss, 0)
      BY DEF Flattens
    <3> QED BY <2>2, <3>1
  <2>4. n - 1 \in 0..N /\ n - 1 < n /\ n \in 1..N
    BY <2>2, <2>3
  <2>5. PICK f : Flattens(f, ss, n - 1)
    <3>1. n - 1 \notin U
      BY <2>1, <2>4
    <3> QED BY <2>4, <3>1
  <2>6. PICK last : last = IF n = 1 THEN ss[n] ELSE f[n - 1] \o ss[n]
    OBVIOUS
  <2>7. PICK g : g = [i \in 1..n |-> IF i = n THEN last ELSE f[i]]
    OBVIOUS
  <2>8. g[n] = last /\ \A i \in 1..(n - 1) : g[i] = f[i]
    BY <2>4, <2>7
  <2>9. ASSUME NEW i \in 1..n PROVE g[i] = IF i = 1 THEN ss[i] ELSE g[i - 1] \o ss[i]
    <3>1. i # 1 => i - 1 \in 1..(n - 1)
      BY <2>4
    <3>2. i # 1 => g[i - 1] = f[i - 1]
      BY <2>8, <3>1
    <3>3. CASE i = n
      BY <2>6, <2>8, <3>2, <3>3
    <3>4. CASE i # n
      <4>1. i \in 1..(n - 1)
        BY <2>4, <3>4
      <4>2. f[i] = IF i = 1 THEN ss[i] ELSE f[i - 1] \o ss[i]
        BY <2>5, <4>1 DEF Flattens
      <4> QED BY <2>8, <3>2, <4>1, <4>2
    <3> QED BY <3>3, <3>4
  <2>10. Flattens(g, ss, n)
    BY <2>9 DEF Flattens
  <2> QED BY <2>2, <2>10
<1>2. PICK f0 : Flattens(f0, ss, N)
  <2>1. N \in 0..N /\ N \notin U
    BY <1>1
  <2> QED BY <2>1
<1>3. PICK f : f = [i \in 1..N |-> f0[i]]
  OBVIOUS
<1>4. ASSUME NEW i \in 1..N PROVE f[i] = IF i = 1 THEN ss[i] ELSE f[i - 1] \o ss[i]
  <2>1. i # 1 => i - 1 \in 1..N
    OBVIOUS
  <2>2. f[i] = f0[i] /\ (i # 1 => f[i - 1] = f0[i - 1])
    BY <1>3, <2>1
  <2>3. f0[i] = IF i = 1 THEN ss[i] ELSE f0[i - 1] \o ss[i]
    BY <1>2 DEF Flattens
  <2> QED BY <2>2, <2>3
<1>5. f = [i \in 1..N |-> f[i]]
  BY <1>3
<1>6. f = [i \in 1..N |-> IF i = 1 THEN ss[i] ELSE f[i - 1] \o ss[i]]
  BY <1>4, <1>5
<1> QED BY <1>6

\* FlattenSeq puts its sequences in a row.
LEMMA FlattenJoins ==
  ASSUME NEW T, NEW ss \in Seq(Seq(T)), NEW n \in Nat, n = Len(ss)
  PROVE  \E c : Joins(c, ss, n) /\ FlattenSeq(ss) = c[n]
<1>1. CASE n = 0
  <2>1. FlattenSeq(ss) = <<>>
    <3>1. FlattenSeq(ss) = ss
      BY <1>1 DEF FlattenSeq
    <3>2. \A A : \A q \in Seq(A) : Len(q) = 0 => q = <<>>
      OBVIOUS
    <3> QED BY <1>1, <3>1, <3>2
  <2>2. PICK c : c = [i \in {0} |-> <<>>]
    OBVIOUS
  <2>3. c[0] = <<>>
    BY <2>2
  <2>4. Joins(c, ss, 0)
    BY <2>3 DEF Joins
  <2> QED BY <1>1, <2>1, <2>3, <2>4
<1>2. CASE n # 0
  <2> DEFINE Is(f) == f = [i \in 1..n |-> IF i = 1 THEN ss[i] ELSE f[i - 1] \o ss[i]]
  <2>1. \E f : Is(f)
    BY FlattenerExists
  <2>2. PICK d : d = CHOOSE f : Is(f)
    OBVIOUS
  <2>3. Is(d)
    <3> HIDE DEF Is
    <3> QED BY <2>1, <2>2
  <2>4. FlattenSeq(ss) = d[n]
    BY <1>2, <2>2 DEF FlattenSeq
  <2>5. ASSUME NEW i \in 1..n PROVE d[i] = IF i = 1 THEN ss[i] ELSE d[i - 1] \o ss[i]
    BY <2>3
  <2>6. PICK c : c = [i \in 0..n |-> IF i = 0 THEN <<>> ELSE d[i]]
    OBVIOUS
  <2>7. c[0] = <<>> /\ \A i \in 1..n : c[i] = d[i]
    BY <2>6
  <2>8. ASSUME NEW i \in 1..n PROVE c[i] = c[i - 1] \o ss[i]
    <3>1. ss[i] \in Seq(T)
      OBVIOUS
    <3>2. <<>> \o ss[i] = ss[i]
      BY <3>1
    <3>3. CASE i = 1
      <4>1. c[i] = ss[i]
        BY <2>5, <2>7, <3>3
      <4>2. i - 1 = 0
        BY <3>3
      <4> QED BY <2>7, <3>2, <4>1, <4>2
    <3>4. CASE i # 1
      <4>1. i - 1 \in 1..n
        BY <3>4
      <4> QED BY <2>5, <2>7, <3>4, <4>1
    <3> QED BY <3>3, <3>4
  <2>9. n \in 1..n
    BY <1>2
  <2> QED BY <2>4, <2>7, <2>8, <2>9 DEF Joins
<1> QED BY <1>1, <1>2

\* Rows of the same sequences are the same, and rows of elements.
LEMMA JoinsAgree ==
  ASSUME NEW T, NEW n \in Nat, NEW ss, NEW rr, NEW c, NEW d,
         Joins(c, ss, n), Joins(d, rr, n),
         \A i \in 1..n : ss[i] = rr[i] /\ ss[i] \in Seq(T)
  PROVE  c[n] = d[n] /\ c[n] \in Seq(T)
<1> DEFINE Agree(i) == c[i] = d[i] /\ c[i] \in Seq(T)
           U == {i \in 0..n : ~Agree(i)}
<1>1. U = {}
  <2> SUFFICES ASSUME U # {} PROVE FALSE
    OBVIOUS
  <2>1. PICK i \in U : \A k \in U : i <= k
    <3>1. U \in SUBSET Nat
      OBVIOUS
    <3> HIDE DEF U
    <3> QED BY <3>1, LeastNatural
  <2>2. i \in 0..n /\ ~Agree(i)
    OBVIOUS
  <2>3. Agree(0)
    <3>1. <<>> \in Seq(T)
      OBVIOUS
    <3> QED BY <3>1 DEF Joins
  <2> HIDE DEF Agree
  <2>4. i \in 1..n /\ i - 1 \in 0..n /\ i - 1 < i
    BY <2>2, <2>3
  <2>5. Agree(i - 1)
    <3>1. i - 1 \notin U
      BY <2>1, <2>4
    <3> QED BY <2>4, <3>1
  <2>6. c[i] = c[i - 1] \o ss[i] /\ d[i] = d[i - 1] \o rr[i]
    BY <2>4 DEF Joins
  <2>7. ss[i] = rr[i] /\ ss[i] \in Seq(T)
    BY <2>4
  <2>8. \A p, q \in Seq(T) : p \o q \in Seq(T)
    OBVIOUS
  <2>9. Agree(i)
    BY <2>5, <2>6, <2>7, <2>8 DEF Agree
  <2> QED BY <2>2, <2>9
<1>2. n \in 0..n /\ n \notin U
  BY <1>1
<1> QED BY <1>2

\* One more sequence comes at the end.
LEMMA FlattenAppend ==
  ASSUME NEW T, NEW ss \in Seq(Seq(T)), NEW s \in Seq(T)
  PROVE  /\ FlattenSeq(ss) \in Seq(T)
         /\ FlattenSeq(Append(ss, s)) = FlattenSeq(ss) \o s
<1>0. PICK n \in Nat : n = Len(ss)
  OBVIOUS
<1>1. PICK rr \in Seq(Seq(T)) : rr = Append(ss, s)
  <2>1. \A A : \A q \in Seq(A), x \in A : Append(q, x) \in Seq(A)
    OBVIOUS
  <2> QED BY <2>1
<1>2. Len(rr) = n + 1 /\ rr[n + 1] = s /\ \A i \in 1..n : ss[i] = rr[i] /\ ss[i] \in Seq(T)
  BY <1>0, <1>1
<1>3. PICK c : Joins(c, ss, n) /\ FlattenSeq(ss) = c[n]
  BY <1>0, FlattenJoins
<1>4. PICK d : Joins(d, rr, n + 1) /\ FlattenSeq(rr) = d[n + 1]
  BY <1>0, <1>2, FlattenJoins
<1>6. n + 1 \in 1..(n + 1) /\ (n + 1) - 1 = n /\ \A i \in 1..n : i \in 1..(n + 1)
  OBVIOUS
<1>5. Joins(d, rr, n)
  BY <1>4, <1>6 DEF Joins
<1>7. c[n] = d[n] /\ c[n] \in Seq(T)
  BY <1>2, <1>3, <1>5, JoinsAgree
<1>8. d[n + 1] = d[n] \o s
  BY <1>2, <1>4, <1>6 DEF Joins
<1> QED BY <1>1, <1>3, <1>4, <1>7, <1>8

---------------------------------------------------------------------------
(* Part, which keeps some positions of a sequence in their order.          *)

\* f gives for each position of r the one of s it stems from, which are the
\* positions S.
Embeds(f, r, s, S) ==
  /\ f \in [1..Len(r) -> S]
  /\ \A i, j \in 1..Len(r) : i < j => f[i] < f[j]
  /\ \A i \in 1..Len(r) : r[i] = s[f[i]]
  /\ \A k \in S : \E i \in 1..Len(r) : f[i] = k

LEMMA EmbedsOneMore ==
  ASSUME NEW T, NEW s, NEW n \in Nat, NEW S \in SUBSET (1..n), NEW r \in Seq(T), NEW f,
         s[n + 1] \in T, Embeds(f, r, s, S)
  PROVE  \E g : Embeds(g, r \o <<s[n + 1]>>, s, S \union {n + 1})
<1>1. PICK m \in Nat : m = Len(r)
  OBVIOUS
<1>2. PICK q \in Seq(T) : q = r \o <<s[n + 1]>>
  <2>1. r \o <<s[n + 1]>> \in Seq(T)
    OBVIOUS
  <2> QED BY <2>1
<1>3. Len(q) = m + 1 /\ q[m + 1] = s[n + 1] /\ \A i \in 1..m : q[i] = r[i]
  BY <1>1, <1>2
<1>4. PICK g : g = [i \in 1..(m + 1) |-> IF i = m + 1 THEN n + 1 ELSE f[i]]
  OBVIOUS
<1>5. \A i \in 1..(m + 1) : i = m + 1 \/ i \in 1..m
  OBVIOUS
<1>6. g[m + 1] = n + 1 /\ \A i \in 1..m : g[i] = f[i]
  BY <1>4
<1>7. \A i \in 1..m : f[i] \in S /\ f[i] \in Int /\ f[i] < n + 1
  <2>1. \A k \in S : k \in Int /\ k < n + 1
    OBVIOUS
  <2>2. \A i \in 1..m : f[i] \in S
    BY <1>1 DEF Embeds
  <2> QED BY <2>1, <2>2
<1>8. g \in [1..(m + 1) -> S \union {n + 1}]
  BY <1>4, <1>7
<1>9. ASSUME NEW i \in 1..(m + 1), NEW j \in 1..(m + 1), i < j PROVE g[i] < g[j]
  <2>1. i \in 1..m
    BY <1>9
  <2>2. CASE j = m + 1
    BY <1>6, <1>7, <2>1, <2>2
  <2>3. CASE j \in 1..m
    BY <1>1, <1>6, <1>9, <2>1, <2>3 DEF Embeds
  <2> QED BY <1>5, <2>2, <2>3
<1>10. ASSUME NEW i \in 1..(m + 1) PROVE q[i] = s[g[i]]
  BY <1>1, <1>3, <1>5, <1>6 DEF Embeds
<1>11. ASSUME NEW k \in S \union {n + 1} PROVE \E i \in 1..(m + 1) : g[i] = k
  <2>1. m + 1 \in 1..(m + 1) /\ \A i \in 1..m : i \in 1..(m + 1)
    OBVIOUS
  <2>2. CASE k = n + 1
    BY <1>6, <2>1, <2>2
  <2>3. CASE k \in S
    BY <1>1, <1>6, <2>1, <2>3 DEF Embeds
  <2> QED BY <2>2, <2>3
<1>12. Embeds(g, q, s, S \union {n + 1})
  BY <1>3, <1>8, <1>9, <1>10, <1>11 DEF Embeds
<1> QED BY <1>2, <1>12

LEMMA PartEmbeds ==
  ASSUME NEW T, NEW s \in Seq(T), NEW S \in SUBSET (DOMAIN s)
  PROVE  /\ Part(s, S) \in Seq(T)
         /\ \E f : Embeds(f, Part(s, S), s, S)
<1>0. PICK n \in Nat : n = Len(s)
  OBVIOUS
<1>1. PICK ss : ss = [i \in DOMAIN s |-> IF i \in S THEN <<s[i]>> ELSE <<>>]
  OBVIOUS
<1>2. DOMAIN s = 1..n /\ \A i \in 1..n : s[i] \in T
  BY <1>0
<1>3. \A i \in 1..n : ss[i] \in Seq(T)
  <2>1. \A x \in T : <<x>> \in Seq(T)
    OBVIOUS
  <2>2. <<>> \in Seq(T)
    OBVIOUS
  <2> QED BY <1>1, <1>2, <2>1, <2>2
<1>4. ss \in Seq(Seq(T)) /\ Len(ss) = n
  BY <1>1, <1>2, <1>3
<1>5. PICK c : Joins(c, ss, n) /\ Part(s, S) = c[n]
  BY <1>1, <1>4, FlattenJoins DEF Part
<1> DEFINE Good(i) == c[i] \in Seq(T) /\ \E f : Embeds(f, c[i], s, S \intersect (1..i))
           U == {i \in 0..n : ~Good(i)}
<1>6. U = {}
  <2> SUFFICES ASSUME U # {} PROVE FALSE
    OBVIOUS
  <2>1. PICK i \in U : \A k \in U : i <= k
    <3>1. U \in SUBSET Nat
      OBVIOUS
    <3> HIDE DEF U
    <3> QED BY <3>1, LeastNatural
  <2>2. i \in 0..n /\ ~Good(i)
    OBVIOUS
  <2>3. Good(0)
    <3>1. c[0] = <<>>
      BY <1>5 DEF Joins
    <3>2. S \intersect (1..0) = {}
      OBVIOUS
    <3>3. Embeds(<<>>, <<>>, s, {})
      BY DEF Embeds
    <3> QED BY <3>1, <3>2, <3>3
  <2>4. PICK m \in Nat : i = m + 1 /\ m \in 0..n /\ m + 1 \in 1..n /\ (m + 1) - 1 = m
    <3> HIDE DEF Good
    <3>1. i # 0
      BY <2>2, <2>3
    <3>2. i - 1 \in Nat /\ i = (i - 1) + 1 /\ i - 1 \in 0..n /\ (i - 1) + 1 \in 1..n
      BY <2>2, <3>1
    <3> QED BY <3>2
  <2>5. Good(m)
    <3> HIDE DEF Good
    <3>1. m \notin U
      BY <2>1, <2>4
    <3> QED BY <2>4, <3>1
  <2>6. c[m + 1] = c[m] \o ss[m + 1]
    BY <1>5, <2>4 DEF Joins
  <2>7. PICK f : Embeds(f, c[m], s, S \intersect (1..m))
    BY <2>5
  <2>8. c[m] \in Seq(T)
    BY <2>5
  <2>9. CASE m + 1 \in S
    <3>1. c[m + 1] = c[m] \o <<s[m + 1]>>
      BY <1>1, <1>2, <2>4, <2>6, <2>9
    <3>2. S \intersect (1..(m + 1)) = (S \intersect (1..m)) \union {m + 1}
      BY <2>9
    <3>3. s[m + 1] \in T
      BY <1>2, <2>4
    <3>4. c[m] \o <<s[m + 1]>> \in Seq(T)
      BY <2>8, <3>3
    <3>5. S \intersect (1..m) \in SUBSET (1..m)
      OBVIOUS
    <3>6. \E g : Embeds(g, c[m] \o <<s[m + 1]>>, s, (S \intersect (1..m)) \union {m + 1})
      BY <2>7, <2>8, <3>3, <3>5, EmbedsOneMore
    <3> QED BY <2>2, <2>4, <3>1, <3>2, <3>4, <3>6
  <2>10. CASE m + 1 \notin S
    <3>1. ss[m + 1] = <<>>
      BY <1>1, <1>2, <2>4, <2>10
    <3>2. c[m + 1] = c[m]
      BY <2>6, <2>8, <3>1
    <3>3. S \intersect (1..(m + 1)) = S \intersect (1..m)
      BY <2>10
    <3> QED BY <2>2, <2>4, <2>7, <2>8, <3>2, <3>3
  <2> QED BY <2>9, <2>10
<1>7. Good(n)
  <2> HIDE DEF Good
  <2>1. n \in 0..n /\ n \notin U
    BY <1>6
  <2> QED BY <2>1
<1>8. S \intersect (1..n) = S
  BY <1>2
<1> QED BY <1>5, <1>7, <1>8

---------------------------------------------------------------------------
(* What Pasts computes.  It chooses a function that satisfies an equation; *)
(* that there is one, and only one, needs an induction on the positions.   *)

\* p gives for each of n positions those in the transitive closure of dir.
Closes(p, dir, n) == \A j \in 1..n : p[j] = dir[j] \union UNION {p[i] : i \in dir[j]}
Backward(dir, n) == \A j \in 1..n : dir[j] \subseteq 1..(j - 1)

\* Two functions that both close dir agree.
LEMMA ClosureUnique ==
  ASSUME NEW n \in Nat, NEW dir, Backward(dir, n), NEW p, NEW q,
         Closes(p, dir, n), Closes(q, dir, n)
  PROVE  \A j \in 1..n : p[j] = q[j]
<1> DEFINE T == {j \in 1..n : p[j] # q[j]}
<1> SUFFICES ASSUME T # {} PROVE FALSE
  OBVIOUS
<1>1. PICK j \in T : \A k \in T : j <= k
  <2>1. T \in SUBSET Nat
    OBVIOUS
  <2> HIDE DEF T
  <2> QED
    BY <2>1, LeastNatural
<1>2. j \in 1..n /\ p[j] # q[j]
  OBVIOUS
<1>3. \A i \in dir[j] : i \in 1..n /\ i < j
  BY <1>2 DEF Backward
<1>4. \A i \in dir[j] : p[i] = q[i]
  BY <1>1, <1>2, <1>3
<1>5. {p[i] : i \in dir[j]} = {q[i] : i \in dir[j]}
  BY <1>4
<1> QED
  BY <1>2, <1>5 DEF Closes

\* There is a function that closes dir.
LEMMA ClosureExists ==
  ASSUME NEW N \in Nat, NEW dir, Backward(dir, N)
  PROVE  \E p : p = [j \in 1..N |-> dir[j] \union UNION {p[i] : i \in dir[j]}]
<1> DEFINE Has(n) == \E p : DOMAIN p = 1..n /\ Closes(p, dir, n)
           T == {n \in 0..N : ~Has(n)}
<1>1. T = {}
  <2> SUFFICES ASSUME T # {} PROVE FALSE
    OBVIOUS
  <2>1. PICK n \in T : \A k \in T : n <= k
    <3>1. T \in SUBSET Nat
      OBVIOUS
    <3> HIDE DEF T
    <3> QED
      BY <3>1, LeastNatural
  <2>2. n \in 0..N /\ ~Has(n)
    OBVIOUS
  <2>3. n # 0
    <3> SUFFICES ASSUME n = 0 PROVE Has(n)
      BY <2>2
    <3>1. DOMAIN [j \in 1..0 |-> {}] = 1..0 /\ Closes([j \in 1..0 |-> {}], dir, 0)
      BY DEF Closes
    <3> QED
      BY <3>1
  <2>4. n - 1 \in 0..N /\ n - 1 < n /\ n \in 1..N
    BY <2>2, <2>3
  <2>5. Has(n - 1)
    <3>1. n - 1 \notin T
      BY <2>1, <2>4
    <3> QED
      BY <2>4, <3>1
  <2>6. PICK p : DOMAIN p = 1..(n - 1) /\ Closes(p, dir, n - 1)
    BY <2>5
  <2> DEFINE last == dir[n] \union UNION {p[i] : i \in dir[n]}
             q == [j \in 1..n |-> IF j = n THEN last ELSE p[j]]
  <2>7. \A j \in 1..n : \A i \in dir[j] : q[i] = p[i]
    <3> SUFFICES ASSUME NEW j \in 1..n, NEW i \in dir[j] PROVE q[i] = p[i]
      OBVIOUS
    <3>1. i \in 1..(j - 1)
      BY <2>4 DEF Backward
    <3>2. i \in 1..n /\ i # n
      BY <2>4, <3>1
    <3> QED
      BY <3>2
  <2>8. \A j \in 1..n : q[j] = dir[j] \union UNION {q[i] : i \in dir[j]}
    <3> SUFFICES ASSUME NEW j \in 1..n
                 PROVE  q[j] = dir[j] \union UNION {q[i] : i \in dir[j]}
      OBVIOUS
    <3>1. {q[i] : i \in dir[j]} = {p[i] : i \in dir[j]}
      <4> HIDE DEF q
      <4> QED
        BY <2>7
    <3>2. q[j] = dir[j] \union UNION {p[i] : i \in dir[j]}
      <4>1. CASE j = n
        BY <4>1
      <4>2. CASE j # n
        <5>1. j \in 1..(n - 1)
          BY <2>4, <4>2
        <5>2. q[j] = p[j]
          BY <4>2
        <5> HIDE DEF q
        <5> QED
          BY <2>6, <5>1, <5>2 DEF Closes
      <4> QED
        BY <4>1, <4>2
    <3> HIDE DEF q
    <3> QED
      BY <3>1, <3>2
  <2>9. DOMAIN q = 1..n
    OBVIOUS
  <2> HIDE DEF q
  <2>10. Has(n)
    BY <2>8, <2>9 DEF Closes
  <2> QED
    BY <2>2, <2>10
<1>2. Has(N)
  BY <1>1
<1>3. PICK p0 : DOMAIN p0 = 1..N /\ Closes(p0, dir, N)
  BY <1>2
<1> DEFINE p == [j \in 1..N |-> p0[j]]
<1>4. \A j \in 1..N : p[j] = dir[j] \union UNION {p[i] : i \in dir[j]}
  <2> SUFFICES ASSUME NEW j \in 1..N
               PROVE  p[j] = dir[j] \union UNION {p[i] : i \in dir[j]}
    OBVIOUS
  <2>1. \A i \in dir[j] : i \in 1..N
    BY DEF Backward
  <2>2. {p[i] : i \in dir[j]} = {p0[i] : i \in dir[j]}
    BY <2>1
  <2> QED
    BY <1>3, <2>2 DEF Closes
<1>5. p = [j \in 1..N |-> p[j]]
  OBVIOUS
<1> HIDE DEF p
<1>6. p = [j \in 1..N |-> dir[j] \union UNION {p[i] : i \in dir[j]}]
  BY <1>4, <1>5
<1> QED
  BY <1>6

\* The direct steps before each position of a trace.
DirectOf(tr) == [j \in 1..Len(tr) |-> {i \in 1..(j - 1) : Precedes(tr[i], tr[j])}]

\* Pasts is the closure of the direct steps before each position.
LEMMA PastsClose ==
  ASSUME NEW tr, Len(tr) \in Nat
  PROVE  /\ Backward(DirectOf(tr), Len(tr))
         /\ Closes(Pasts(tr, Precedes), DirectOf(tr), Len(tr))
<1> DEFINE n == Len(tr)
           IsPasts(p) == p = [j \in 1..n |->
                               LET direct == {i \in 1..(j - 1) : Precedes(tr[i], tr[j])}
                               IN  direct \union UNION {p[i] : i \in direct}]
<1>1. Backward(DirectOf(tr), n)
  BY DEF Backward, DirectOf
<1>2. \E p : p = [j \in 1..n |-> DirectOf(tr)[j] \union UNION {p[i] : i \in DirectOf(tr)[j]}]
  BY <1>1, ClosureExists
<1>3. \E p : IsPasts(p)
  BY <1>2 DEF DirectOf
<1>4. Pasts(tr, Precedes) = CHOOSE p : IsPasts(p)
  BY DEF Pasts
<1>5. IsPasts(Pasts(tr, Precedes))
  <2> HIDE DEF IsPasts
  <2> QED
    BY <1>3, <1>4
<1> DEFINE P == Pasts(tr, Precedes)
<1>6. IsPasts(P)
  BY <1>5
<1> HIDE DEF P
<1>7. Closes(P, DirectOf(tr), n)
  BY <1>6 DEF Closes, DirectOf
<1> QED
  BY <1>1, <1>7 DEF P


\* What is before a position is at smaller positions.
LEMMA ClosureBelow ==
  ASSUME NEW n \in Nat, NEW dir, Backward(dir, n), NEW p, Closes(p, dir, n)
  PROVE  \A j \in 1..n : p[j] \subseteq 1..(j - 1)
<1> DEFINE T == {j \in 1..n : ~(p[j] \subseteq 1..(j - 1))}
<1> SUFFICES ASSUME T # {} PROVE FALSE
  OBVIOUS
<1>1. PICK j \in T : \A k \in T : j <= k
  <2>1. T \in SUBSET Nat
    OBVIOUS
  <2> HIDE DEF T
  <2> QED BY <2>1, LeastNatural
<1>2. j \in 1..n /\ ~(p[j] \subseteq 1..(j - 1))
  OBVIOUS
<1>3. \A i \in dir[j] : i \in 1..n /\ i < j
  BY <1>2 DEF Backward
<1>4. ASSUME NEW i \in dir[j] PROVE p[i] \subseteq 1..(j - 1)
  <2>1. i \notin T
    BY <1>1, <1>2, <1>3
  <2>2. p[i] \subseteq 1..(i - 1)
    BY <1>3, <2>1
  <2> QED BY <1>2, <1>3, <2>2
<1>5. p[j] = dir[j] \union UNION {p[i] : i \in dir[j]}
  BY <1>2 DEF Closes
<1>6. dir[j] \subseteq 1..(j - 1)
  BY <1>2 DEF Backward
<1> QED BY <1>2, <1>4, <1>5, <1>6

---------------------------------------------------------------------------
(* Events of a trace left out.                                             *)

\* Two steps over an access are one: it only stands between what its thread
\* did, or who created and who joins that thread.
LEMMA AccessIsNoRelay ==
  ASSUME NEW a, NEW d, NEW b, IsAccess(d), Precedes(a, d), Precedes(d, b)
  PROVE  Precedes(a, b)
BY DEF IsAccess, Precedes, AccessOps, SyncAcqOps, SyncRelOps

\* r is trace w without some of its accesses.
Thins(f, r, w, S) ==
  /\ Embeds(f, r, w, S)
  /\ S \subseteq 1..Len(w)
  /\ \A k \in (1..Len(w)) \ S : IsAccess(w[k])

\* The order of a trace that lacks some accesses of another is that of the other.
LEMMA PastsAgree ==
  ASSUME NEW w, Len(w) \in Nat, NEW r, Len(r) \in Nat, NEW S, NEW f, Thins(f, r, w, S),
         NEW p, Closes(p, DirectOf(w), Len(w)), NEW q, Closes(q, DirectOf(r), Len(r))
  PROVE  \A i, j \in 1..Len(r) : i \in q[j] <=> f[i] \in p[f[j]]
<1> DEFINE n == Len(w)
           m == Len(r)
<1>0. /\ n \in Nat /\ m \in Nat
      /\ S \in SUBSET (1..n) /\ \A k \in (1..n) \ S : IsAccess(w[k])
      /\ Closes(p, DirectOf(w), n) /\ Closes(q, DirectOf(r), m)
  BY DEF Thins
<1>1. /\ \A i \in 1..m : f[i] \in S /\ f[i] \in 1..n /\ r[i] = w[f[i]]
      /\ \A k \in S : \E i \in 1..m : f[i] = k
  BY <1>0 DEF Thins, Embeds
<1>2. \A i, j \in 1..m : i < j <=> f[i] < f[j]
  <2>1. \A i, j \in 1..m : i < j => f[i] < f[j]
    BY DEF Thins, Embeds
  <2>2. \A i, j \in 1..m : i = j \/ i < j \/ j < i
    OBVIOUS
  <2>3. \A i, j \in 1..n : ~(i < j /\ j < i) /\ ~(i < i)
    OBVIOUS
  <2> QED BY <1>1, <2>1, <2>2, <2>3
<1>3. /\ Backward(DirectOf(w), n) /\ Backward(DirectOf(r), m)
      /\ \A j \in 1..n : p[j] \subseteq 1..(j - 1)
      /\ \A j \in 1..m : q[j] \subseteq 1..(j - 1)
  <2>1. Backward(DirectOf(w), n) /\ Backward(DirectOf(r), m)
    BY <1>0, PastsClose
  <2> QED BY <1>0, <2>1, ClosureBelow
<1> USE <1>0
<1> HIDE DEF n, m
<1>4. \A i, j \in 1..n : i < j /\ Precedes(w[i], w[j]) <=> i \in DirectOf(w)[j]
  BY DEF DirectOf, n
<1>5. \A i, j \in 1..m : i < j /\ Precedes(r[i], r[j]) <=> i \in DirectOf(r)[j]
  BY DEF DirectOf, m
<1>6. \A j \in 1..n : p[j] = DirectOf(w)[j] \union UNION {p[i] : i \in DirectOf(w)[j]}
  BY DEF Closes
<1>7. \A j \in 1..m : q[j] = DirectOf(r)[j] \union UNION {q[i] : i \in DirectOf(r)[j]}
  BY DEF Closes
<1>8. \A i, j \in 1..m : i \in DirectOf(r)[j] <=> f[i] \in DirectOf(w)[f[j]]
  <2> SUFFICES ASSUME NEW i \in 1..m, NEW j \in 1..m
               PROVE  i \in DirectOf(r)[j] <=> f[i] \in DirectOf(w)[f[j]]
    OBVIOUS
  <2>1. r[i] = w[f[i]] /\ r[j] = w[f[j]] /\ f[i] \in 1..n /\ f[j] \in 1..n
    BY <1>1
  <2>2. Precedes(r[i], r[j]) <=> Precedes(w[f[i]], w[f[j]])
    BY <2>1
  <2>3. i < j /\ Precedes(r[i], r[j]) <=> i \in DirectOf(r)[j]
    BY <1>5
  <2>4. f[i] < f[j] /\ Precedes(w[f[i]], w[f[j]]) <=> f[i] \in DirectOf(w)[f[j]]
    BY <1>4, <2>1
  <2> QED BY <1>2, <2>2, <2>3, <2>4
\* Forwards: by the least position where it fails.
<1>9. \A j \in 1..m : \A i \in q[j] : f[i] \in p[f[j]]
  <2> DEFINE Fwd(j) == \A i \in q[j] : f[i] \in p[f[j]]
             U == {j \in 1..m : ~Fwd(j)}
  <2> SUFFICES ASSUME U # {} PROVE FALSE
    OBVIOUS
  <2>1. PICK j \in U : \A k \in U : j <= k
    <3>1. U \in SUBSET Nat
      OBVIOUS
    <3> HIDE DEF U
    <3> QED BY <3>1, LeastNatural
  <2>2. j \in 1..m /\ ~Fwd(j)
    OBVIOUS
  <2>3. PICK i \in q[j] : f[i] \notin p[f[j]]
    BY <2>2
  <2>4. i \in 1..m
    BY <1>3, <2>2, <2>3
  <2>5. CASE i \in DirectOf(r)[j]
    BY <1>1, <1>6, <1>8, <2>2, <2>3, <2>4, <2>5
  <2>6. CASE \E k \in DirectOf(r)[j] : i \in q[k]
    <3>1. PICK k \in DirectOf(r)[j] : i \in q[k]
      BY <2>6
    <3>2. k \in 1..m /\ k < j
      BY <1>3, <2>2 DEF Backward
    <3>3. Fwd(k)
      <4> HIDE DEF Fwd
      <4>1. k \notin U
        BY <2>1, <2>2, <3>2
      <4> QED BY <3>2, <4>1
    <3>4. f[i] \in p[f[k]] /\ f[k] \in DirectOf(w)[f[j]]
      BY <1>8, <2>2, <3>1, <3>2, <3>3
    <3>5. f[i] \in p[f[j]]
      BY <1>1, <1>6, <2>2, <3>4
    <3> QED BY <2>3, <3>5
  <2> QED BY <1>7, <2>2, <2>3, <2>5, <2>6
\* Backwards, for every position b of w: what is kept and before b is directly
\* before it, or before something kept that is.
<1>10. ASSUME NEW i \in 1..m
       PROVE  \A b \in 1..n : f[i] \in p[b] =>
                \/ f[i] \in DirectOf(w)[b]
                \/ \E c \in 1..m : f[c] \in DirectOf(w)[b] /\ i \in q[c]
  <2> DEFINE Via(b) == \/ f[i] \in DirectOf(w)[b]
                       \/ \E c \in 1..m : f[c] \in DirectOf(w)[b] /\ i \in q[c]
             U == {b \in 1..n : f[i] \in p[b] /\ ~Via(b)}
  <2> SUFFICES ASSUME U # {} PROVE FALSE
    OBVIOUS
  <2>1. PICK b \in U : \A k \in U : b <= k
    <3>1. U \in SUBSET Nat
      OBVIOUS
    <3> HIDE DEF U
    <3> QED BY <3>1, LeastNatural
  <2>2. b \in 1..n /\ f[i] \in p[b] /\ ~Via(b)
    OBVIOUS
  <2>3. PICK d \in DirectOf(w)[b] : f[i] \in p[d]
    BY <1>6, <2>2
  <2>4. d \in 1..n /\ d < b /\ Precedes(w[d], w[b])
    <3>1. d \in 1..n
      BY <1>3, <2>2 DEF Backward
    <3> QED BY <1>4, <2>2, <3>1
  <2>5. Via(d)
    <3> HIDE DEF Via
    <3>1. d \notin U
      BY <2>1, <2>2, <2>4
    <3> QED BY <2>3, <2>4, <3>1
  <2>6. \A k \in 1..n : k \in DirectOf(w)[d] /\ d \notin S => k \in DirectOf(w)[b]
    <3> SUFFICES ASSUME NEW k \in 1..n, k \in DirectOf(w)[d], d \notin S
                 PROVE  k \in DirectOf(w)[b]
      OBVIOUS
    <3>1. k < d /\ Precedes(w[k], w[d])
      BY <1>4, <2>4
    <3>2. IsAccess(w[d])
      BY <2>4
    <3>3. Precedes(w[k], w[b])
      BY <2>4, <3>1, <3>2, AccessIsNoRelay
    <3>4. k < b
      BY <2>2, <2>4, <3>1
    <3> QED BY <1>4, <2>2, <3>3, <3>4
  <2>7. CASE d \notin S
    BY <1>1, <2>2, <2>5, <2>6, <2>7
  <2>8. CASE d \in S
    <3>1. PICK c \in 1..m : f[c] = d
      BY <1>1, <2>8
    <3>2. i \in q[c]
      <4>1. CASE f[i] \in DirectOf(w)[d]
        BY <1>7, <1>8, <3>1, <4>1
      <4>2. CASE \E a \in 1..m : f[a] \in DirectOf(w)[d] /\ i \in q[a]
        BY <1>7, <1>8, <3>1, <4>2
      <4> QED BY <2>5, <4>1, <4>2
    <3> QED BY <2>2, <3>1, <3>2
  <2> QED BY <2>7, <2>8
<1>11. ASSUME NEW i \in 1..m, NEW j \in 1..m, f[i] \in p[f[j]] PROVE i \in q[j]
  <2>1. CASE f[i] \in DirectOf(w)[f[j]]
    BY <1>7, <1>8, <2>1
  <2>2. CASE \E c \in 1..m : f[c] \in DirectOf(w)[f[j]] /\ i \in q[c]
    BY <1>7, <1>8, <2>2
  <2> QED BY <1>1, <1>10, <1>11, <2>1, <2>2
<1>12. \A i, j \in 1..m : i \in q[j] <=> f[i] \in p[f[j]]
  BY <1>9, <1>11
<1> QED BY <1>12 DEF m

\* So are its racy variables, if what is kept includes the conflicts between
\* threads.
LEMMA RacyVarsAgree ==
  ASSUME NEW w, NEW n \in Nat, n = Len(w), NEW r, NEW m \in Nat, m = Len(r),
         NEW S, NEW f, Thins(f, r, w, S),
         \A i, k \in 1..n : Conflict(w[i], w[k]) /\ w[i].tid # w[k].tid => i \in S /\ k \in S
  PROVE  RacyVars(r) = RacyVars(w)
<1>1. PICK p : p = Pasts(w, Precedes) /\ Closes(p, DirectOf(w), n)
  BY PastsClose
<1>2. PICK q : q = Pasts(r, Precedes) /\ Closes(q, DirectOf(r), m)
  BY PastsClose
<1>3. \A i, j \in 1..m : i \in q[j] <=> f[i] \in p[f[j]]
  BY <1>1, <1>2, PastsAgree
<1>4. \A x : x \in RacyVars(w) <=>
        \E k \in 1..n : x = w[k].obj /\ \E i \in 1..(k - 1) : i \notin p[k] /\ Conflict(w[i], w[k])
  BY <1>1 DEF RacyVars
<1>5. \A x : x \in RacyVars(r) <=>
        \E k \in 1..m : x = r[k].obj /\ \E i \in 1..(k - 1) : i \notin q[k] /\ Conflict(r[i], r[k])
  BY <1>2 DEF RacyVars
<1>6. /\ \A i \in 1..m : f[i] \in S /\ f[i] \in 1..n /\ r[i] = w[f[i]]
      /\ \A k \in S : \E i \in 1..m : f[i] = k
      /\ \A i, j \in 1..m : i < j => f[i] < f[j]
  BY DEF Thins, Embeds
<1>7. ASSUME NEW x \in RacyVars(r) PROVE x \in RacyVars(w)
  <2>1. PICK k \in 1..m : x = r[k].obj /\ \E i \in 1..(k - 1) : i \notin q[k] /\ Conflict(r[i], r[k])
    BY <1>5
  <2>2. PICK i \in 1..(k - 1) : i \notin q[k] /\ Conflict(r[i], r[k])
    BY <2>1
  <2>3. i \in 1..m /\ i < k
    BY <2>1
  <2>4. f[i] \in 1..(f[k] - 1)
    BY <1>6, <2>1, <2>3
  <2>5. f[i] \notin p[f[k]] /\ Conflict(w[f[i]], w[f[k]]) /\ x = w[f[k]].obj /\ f[k] \in 1..n
    BY <1>3, <1>6, <2>1, <2>2, <2>3
  <2> QED BY <1>4, <2>4, <2>5
<1>8. ASSUME NEW x \in RacyVars(w) PROVE x \in RacyVars(r)
  <2>1. PICK k \in 1..n : x = w[k].obj /\ \E i \in 1..(k - 1) : i \notin p[k] /\ Conflict(w[i], w[k])
    BY <1>4
  <2>2. PICK i \in 1..(k - 1) : i \notin p[k] /\ Conflict(w[i], w[k])
    BY <2>1
  <2>3. i \in 1..n /\ i < k
    BY <2>1
  <2>4. i \notin DirectOf(w)[k]
    BY <1>1, <2>1, <2>2 DEF Closes
  <2>5. w[i].tid # w[k].tid
    BY <2>1, <2>2, <2>4 DEF DirectOf, Precedes
  <2>6. i \in S /\ k \in S
    BY <2>2, <2>3, <2>5
  <2>7. PICK a \in 1..m, b \in 1..m : f[a] = i /\ f[b] = k
    BY <1>6, <2>6
  <2>8. a \in 1..(b - 1)
    <3>1. a # b /\ ~(b < a)
      <4>1. b < a => k < i
        BY <1>6, <2>7
      <4> QED BY <2>1, <2>3, <2>7, <4>1
    <3> QED BY <3>1
  <2>9. a \notin q[b] /\ Conflict(r[a], r[b]) /\ x = r[b].obj
    BY <1>3, <1>6, <2>1, <2>2, <2>7
  <2> QED BY <1>5, <2>8, <2>9
<1> QED BY <1>7, <1>8

---------------------------------------------------------------------------
(* The file and what is noted of it.                                       *)

\* The events of a file; arrays are of known variables.
FileEvent ==
  {e \in [op : AccessOps, tid : Threads, obj : Vars, len : Nat] : Cells(e.obj, e.len) \subseteq Vars}
    \union [op : SyncOps, tid : Threads, obj : SyncVars, len : {1}]
    \union [op : {"CREATE", "JOIN"}, tid : Threads, obj : Threads, len : {0}]

\* The events of tot_events_.
LoadedEvent ==
  [op : AccessOps, tid : Threads, obj : Vars]
    \union [op : SyncOps, tid : Threads, obj : SyncVars]
    \union [op : {"CREATE", "JOIN"}, tid : Threads, obj : Threads]

Stages == {"load", "assert length", "loaded", "built", "assert threads",
           "detect", "assert event", "done"}

LoadTypeOK ==
  /\ file \in Seq(FileEvent)
  /\ tot \in Seq(LoadedEvent)
  /\ syncVars \subseteq SyncVars /\ shared \subseteq Vars /\ hasWritten \subseteq Vars
  /\ lastAccessor \in [Vars -> Threads \union {None}]
  /\ lists \in [Threads -> Seq(LoadedEvent)]
  /\ stage \in Stages

\* Event e is in the file.
Occurs(e) == \E i \in 1..Len(WholeFile) : WholeFile[i] = e
AccessedBy(t, x) == \E op \in AccessOps : Occurs(Event(op, t, x))
Written(x) == \E t \in Threads : Occurs(Event("ST", t, x))
Contended(x) == \E t, u \in Threads : t # u /\ AccessedBy(t, x) /\ AccessedBy(u, x)

\* What the notes say of the file while it is read, ...
NotesTell ==
  \A x \in Vars :
    /\ x \in hasWritten <=> Written(x)
    /\ lastAccessor[x] = None => \A t \in Threads : ~AccessedBy(t, x)
    /\ lastAccessor[x] # None => AccessedBy(lastAccessor[x], x)
    /\ x \in shared <=> Contended(x)

\* ... and afterwards.
Reading == stage \in {"load", "assert length"}
Kept == {i \in 1..Len(WholeFile) : IsAccess(WholeFile[i]) => WholeFile[i].obj \in shared}

FilterTells ==
  /\ Reading => NotesTell /\ tot = WholeFile
  /\ ~Reading => /\ \A x \in Vars : x \in shared <=> Contended(x) /\ Written(x)
                 /\ tot = Part(WholeFile, Kept)

\* Every thread of a list is a thread of the file.
HasEvents(t) == \E i \in 1..Len(file) : file[i].tid = t
ThreadsTell ==
  /\ \A i \in 1..Len(WholeFile) : HasEvents(WholeFile[i].tid)
  /\ \A t \in Threads : lists[t] # <<>> => HasEvents(t)
  /\ stage = "assert threads" => ~(NrThread < MaxThread)

\* No empty access is passed over.
LengthsTell ==
  /\ stage # "assert length" => \A i \in 1..Len(file) : IsAccess(file[i]) => file[i].len > 0
  /\ stage = "assert length" => \E i \in 1..Len(file) : IsAccess(file[i]) /\ file[i].len = 0

\* The detector follows tot_events_, and no mixed address.
TraceTells ==
  /\ stage \notin {"detect", "assert event", "done"} => trace = <<>>
  /\ Len(trace) <= Len(tot)
  /\ \A i \in 1..Len(trace) : trace[i] = tot[i] /\ ~(IsAccess(trace[i]) /\ trace[i].obj \in syncVars)
  /\ stage = "done" => Len(trace) = Len(tot)
  /\ stage = "assert event" =>
       \E i \in 1..Len(tot) : IsAccess(tot[i]) /\ tot[i].obj \in syncVars

LoadInv == LoadTypeOK /\ FilterTells /\ ThreadsTell /\ LengthsTell /\ TraceTells

LEMMA FileEventSorts ==
  ASSUME LoadAssumption, NEW e \in FileEvent
  PROVE  /\ e.tid \in Threads /\ e.len \in Nat
         /\ IsAccess(e) => /\ e.op \in AccessOps /\ e.obj \in Vars /\ e.obj \in Nat
                           /\ Cells(e.obj, e.len) \subseteq Vars
         /\ ~IsAccess(e) => Event(e.op, e.tid, e.obj) \in LoadedEvent
<1>1. CASE e \in [op : AccessOps, tid : Threads, obj : Vars, len : Nat]
                /\ Cells(e.obj, e.len) \subseteq Vars
  BY <1>1 DEF LoadAssumption, IsAccess
<1>2. CASE e \in [op : SyncOps, tid : Threads, obj : SyncVars, len : {1}]
  BY <1>2, RaceAssumption DEF IsAccess, AccessOps, SyncAcqOps, SyncRelOps, Event, LoadedEvent
<1>3. CASE e \in [op : {"CREATE", "JOIN"}, tid : Threads, obj : Threads, len : {0}]
  BY <1>3 DEF IsAccess, AccessOps, Event, LoadedEvent
<1> QED BY <1>1, <1>2, <1>3 DEF FileEvent

\* What becomes of an event of the file.
LEMMA ExpandTells ==
  ASSUME LoadAssumption, NEW e \in FileEvent
  PROVE  /\ Expand(e) \in Seq(LoadedEvent)
         /\ \A l \in 1..Len(Expand(e)) : Expand(e)[l].tid = e.tid
         /\ IsAccess(e) =>
              \A d : (\E l \in 1..Len(Expand(e)) : Expand(e)[l] = d)
                       <=> \E x \in Cells(e.obj, e.len) : d = Event(e.op, e.tid, x)
         /\ ~IsAccess(e) => Expand(e) = <<Event(e.op, e.tid, e.obj)>>
<1>1. CASE IsAccess(e)
  <2>1. PICK n \in Nat, a \in Nat, op \in AccessOps, t \in Threads :
           n = e.len /\ a = e.obj /\ op = e.op /\ t = e.tid /\ Cells(a, n) \subseteq Vars
    BY <1>1, FileEventSorts
  <2>2. Expand(e) = [l \in 1..n |-> Event(op, t, a + l - 1)]
    BY <1>1, <2>1 DEF Expand
  <2>3. \A l \in 1..n : a + l - 1 \in Cells(a, n)
    BY DEF Cells
  <2>4. \A x \in Cells(a, n) : x \in Int /\ x - a + 1 \in 1..n /\ a + (x - a + 1) - 1 = x
    BY DEF Cells
  <2>5. \A x \in Vars : Event(op, t, x) \in LoadedEvent
    BY DEF Event, LoadedEvent
  <2>6. Expand(e) \in Seq(LoadedEvent) /\ Len(Expand(e)) = n
    <3>1. \A l \in 1..n : Event(op, t, a + l - 1) \in LoadedEvent
      BY <2>1, <2>3, <2>5
    <3> QED BY <2>2, <3>1
  <2>7. \A l \in 1..n : Expand(e)[l] = Event(op, t, a + l - 1)
    BY <2>2
  <2>8. \A l \in 1..n : Expand(e)[l].tid = t
    <3>1. \A y : Event(op, t, y).tid = t
      BY DEF Event
    <3> QED BY <2>7, <3>1
  <2>9. ASSUME NEW d
        PROVE  (\E l \in 1..n : Expand(e)[l] = d) <=> \E x \in Cells(a, n) : d = Event(op, t, x)
    <3>1. ASSUME NEW l \in 1..n, Expand(e)[l] = d PROVE \E x \in Cells(a, n) : d = Event(op, t, x)
      BY <2>3, <2>7, <3>1
    <3>2. ASSUME NEW x \in Cells(a, n), d = Event(op, t, x) PROVE \E l \in 1..n : Expand(e)[l] = d
      <4>1. Expand(e)[x - a + 1] = Event(op, t, a + (x - a + 1) - 1)
        BY <2>4, <2>7
      <4> QED BY <2>4, <3>2, <4>1
    <3> QED BY <3>1, <3>2
  <2> QED BY <1>1, <2>1, <2>6, <2>8, <2>9
<1>2. CASE ~IsAccess(e)
  <2>1. Expand(e) = <<Event(e.op, e.tid, e.obj)>>
    BY <1>2 DEF Expand
  <2>2. Event(e.op, e.tid, e.obj) \in LoadedEvent /\ Event(e.op, e.tid, e.obj).tid = e.tid
    BY <1>2, FileEventSorts DEF Event
  <2>3. PICK d \in LoadedEvent : d = Event(e.op, e.tid, e.obj) /\ d.tid = e.tid
    BY <2>2
  <2>4. Expand(e) = <<d>>
    BY <2>1, <2>3
  <2>5. <<d>> \in Seq(LoadedEvent) /\ Len(<<d>>) = 1 /\ <<d>>[1] = d
    OBVIOUS
  <2> QED BY <1>2, <2>1, <2>3, <2>4, <2>5
<1> QED BY <1>1, <1>2

LEMMA WholeType ==
  ASSUME LoadAssumption, file \in Seq(FileEvent)
  PROVE  WholeFile \in Seq(LoadedEvent)
<1>1. PICK ss : ss = [i \in 1..Len(file) |-> Expand(file[i])]
  OBVIOUS
<1>2. \A i \in 1..Len(file) : Expand(file[i]) \in Seq(LoadedEvent)
  BY ExpandTells
<1>3. ss \in Seq(Seq(LoadedEvent))
  BY <1>1, <1>2
<1>4. <<>> \in Seq(LoadedEvent)
  OBVIOUS
<1> QED BY <1>1, <1>3, <1>4, FlattenAppend DEF WholeFile

LEMMA FunctionIsRow ==
  ASSUME NEW A, NEW k \in Nat, NEW q, q = [i \in 1..k |-> q[i]], \A i \in 1..k : q[i] \in A
  PROVE  q \in Seq(A) /\ Len(q) = k
<1>1. [i \in 1..k |-> q[i]] \in Seq(A) /\ Len([i \in 1..k |-> q[i]]) = k
  OBVIOUS
<1> QED BY <1>1

LEMMA WholeGrows ==
  ASSUME LoadAssumption, file \in Seq(FileEvent), NEW e \in FileEvent, file' = Append(file, e)
  PROVE  /\ file' \in Seq(FileEvent)
         /\ WholeFile' = WholeFile \o Expand(e)
<1>1. PICK ss : ss = [i \in 1..Len(file) |-> Expand(file[i])]
  OBVIOUS
<1>2. \A i \in 1..Len(file) : Expand(file[i]) \in Seq(LoadedEvent)
  BY ExpandTells
<1>3. ss \in Seq(Seq(LoadedEvent)) /\ Len(ss) = Len(file) /\ Expand(e) \in Seq(LoadedEvent)
  BY <1>1, <1>2, ExpandTells
<1>4. PICK n \in Nat : n = Len(file)
  OBVIOUS
<1>5. file' \in Seq(FileEvent) /\ Len(file') = n + 1 /\ file'[n + 1] = e
        /\ \A i \in 1..n : file'[i] = file[i]
  BY <1>4
<1>6. [i \in 1..Len(file') |-> Expand(file'[i])] = Append(ss, Expand(e))
  <2>1. PICK rr : rr = [i \in 1..(n + 1) |-> Expand(file'[i])]
    OBVIOUS
  <2>2. \A i \in 1..n : rr[i] = ss[i]
    BY <1>1, <1>4, <1>5, <2>1
  <2>3. rr[n + 1] = Expand(e)
    BY <1>5, <2>1
  <2>4. \A i \in 1..(n + 1) : rr[i] \in Seq(LoadedEvent)
    <3>1. \A i \in 1..(n + 1) : i = n + 1 \/ i \in 1..n
      OBVIOUS
    <3> QED BY <1>1, <1>2, <1>3, <1>4, <2>2, <2>3, <3>1
  <2>5. rr \in Seq(Seq(LoadedEvent)) /\ Len(rr) = n + 1
    <3>1. PICK k \in Nat : k = n + 1
      OBVIOUS
    <3>2. rr = [i \in 1..k |-> rr[i]]
      BY <2>1, <3>1
    <3>3. \A i \in 1..k : rr[i] \in Seq(LoadedEvent)
      BY <2>4, <3>1
    <3>4. rr \in Seq(Seq(LoadedEvent)) /\ Len(rr) = k
      BY ONLY <3>2, <3>3, FunctionIsRow, k \in Nat
    <3> QED BY <3>1, <3>4
  <2>6. rr = Append(ss, Expand(e))
    BY <1>3, <1>4, <2>2, <2>3, <2>5
  <2> QED BY <1>5, <2>1, <2>6
<1>7. FlattenSeq(Append(ss, Expand(e))) = FlattenSeq(ss) \o Expand(e)
  BY <1>3, FlattenAppend
<1> QED BY <1>1, <1>5, <1>6, <1>7 DEF WholeFile

\* What another event of the file changes in the notes' subjects.
LEMMA OccursGrows ==
  ASSUME LoadAssumption, file \in Seq(FileEvent), NEW e \in FileEvent, file' = Append(file, e)
  PROVE  \A d : Occurs(d)' <=> Occurs(d) \/ \E l \in 1..Len(Expand(e)) : Expand(e)[l] = d
<1>1. PICK w \in Seq(LoadedEvent) : w = WholeFile
  BY WholeType
<1>2. PICK r \in Seq(LoadedEvent) : r = Expand(e)
  BY ExpandTells
<1>3. WholeFile' = w \o r
  BY <1>1, <1>2, WholeGrows
<1>4. PICK n \in Nat, m \in Nat : n = Len(w) /\ m = Len(r)
  OBVIOUS
<1>5. PICK v : v = w \o r
  OBVIOUS
<1>6. /\ Len(v) = n + m
      /\ \A i \in 1..n : v[i] = w[i]
      /\ \A i \in 1..m : v[n + i] = r[i]
  BY <1>4, <1>5
<1>7. \A i \in 1..(n + m) : (i \in 1..n) \/ (\E l \in 1..m : i = n + l)
  <2>1. \A i \in 1..(n + m) : (i \in 1..n) \/ (i - n \in 1..m /\ i = n + (i - n))
    OBVIOUS
  <2> QED BY <2>1
<1>8. (\A i \in 1..n : i \in 1..(n + m)) /\ \A l \in 1..m : n + l \in 1..(n + m)
  OBVIOUS
<1>9. ASSUME NEW d
      PROVE  (\E i \in 1..(n + m) : v[i] = d)
               <=> (\E i \in 1..n : w[i] = d) \/ (\E l \in 1..m : r[l] = d)
  BY <1>6, <1>7, <1>8
<1>10. \A d : Occurs(d) <=> \E i \in 1..n : w[i] = d
  BY <1>1, <1>4 DEF Occurs
<1>11. \A d : Occurs(d)' <=> \E i \in 1..(n + m) : v[i] = d
  BY <1>3, <1>5, <1>6 DEF Occurs
<1> QED BY <1>2, <1>4, <1>9, <1>10, <1>11

LEMMA AccessGrows ==
  ASSUME LoadAssumption, file \in Seq(FileEvent), NEW e \in FileEvent, file' = Append(file, e),
         NEW x \in Vars, IsAccess(e)
  PROVE  /\ \A u \in Threads : AccessedBy(u, x)' <=>
              AccessedBy(u, x) \/ (u = e.tid /\ x \in Cells(e.obj, e.len))
         /\ Written(x)' <=> Written(x) \/ (e.op = "ST" /\ x \in Cells(e.obj, e.len))
<1>1. \A d : Occurs(d)' <=> Occurs(d) \/ \E y \in Cells(e.obj, e.len) : d = Event(e.op, e.tid, y)
  <2>1. \A d : Occurs(d)' <=> Occurs(d) \/ \E l \in 1..Len(Expand(e)) : Expand(e)[l] = d
    BY OccursGrows
  <2>2. \A d : (\E l \in 1..Len(Expand(e)) : Expand(e)[l] = d)
                       <=> \E y \in Cells(e.obj, e.len) : d = Event(e.op, e.tid, y)
    BY ExpandTells
  <2> QED BY <2>1, <2>2
<1>2. \A op, u : Occurs(Event(op, u, x))' <=>
        Occurs(Event(op, u, x)) \/ (op = e.op /\ u = e.tid /\ x \in Cells(e.obj, e.len))
  <2>1. \A op, u, y : Event(op, u, x) = Event(e.op, e.tid, y) <=> op = e.op /\ u = e.tid /\ x = y
    BY DEF Event
  <2> QED BY <1>1, <2>1
<1>3. e.op \in AccessOps /\ e.tid \in Threads
  BY FileEventSorts
<1>4. \A u \in Threads : AccessedBy(u, x)' <=>
              AccessedBy(u, x) \/ (u = e.tid /\ x \in Cells(e.obj, e.len))
  BY <1>2, <1>3 DEF AccessedBy
<1>5. Written(x)' <=> Written(x) \/ (e.op = "ST" /\ x \in Cells(e.obj, e.len))
  BY <1>2, <1>3 DEF Written
<1> QED BY <1>4, <1>5

LEMMA AccessStays ==
  ASSUME LoadAssumption, file \in Seq(FileEvent), NEW e \in FileEvent, file' = Append(file, e),
         NEW x \in Vars, ~IsAccess(e)
  PROVE  /\ \A u \in Threads : AccessedBy(u, x)' <=> AccessedBy(u, x)
         /\ Written(x)' <=> Written(x)
<1>1. Expand(e) = <<Event(e.op, e.tid, e.obj)>>
  BY ExpandTells
<1>2. \A l \in 1..Len(Expand(e)) : Expand(e)[l] = Event(e.op, e.tid, e.obj)
  BY <1>1
<1>3. \A op \in AccessOps : \A u : Event(op, u, x) # Event(e.op, e.tid, e.obj)
  BY DEF Event, IsAccess
<1>4. \A op \in AccessOps : \A u : Occurs(Event(op, u, x))' <=> Occurs(Event(op, u, x))
  BY <1>2, <1>3, OccursGrows
<1> QED BY <1>4 DEF AccessedBy, Written, AccessOps

---------------------------------------------------------------------------
(* The invariant of the loader.                                            *)

LEMMA WholeOfNone == file = <<>> => WholeFile = <<>>
<1> SUFFICES ASSUME file = <<>> PROVE WholeFile = <<>>
  OBVIOUS
<1>1. PICK ss : ss = [i \in 1..Len(file) |-> Expand(file[i])]
  OBVIOUS
<1>2. ss = <<>>
  BY <1>1
<1>3. FlattenSeq(ss) = ss
  BY <1>2 DEF FlattenSeq
<1> QED BY <1>1, <1>2, <1>3 DEF WholeFile

\* Nothing is said of the file but by its events.
LEMMA FileStays ==
  ASSUME file' = file
  PROVE  /\ WholeFile' = WholeFile
         /\ \A t : HasEvents(t)' <=> HasEvents(t)
         /\ \A x : (Contended(x)' <=> Contended(x)) /\ (Written(x)' <=> Written(x))
         /\ \A t, x : AccessedBy(t, x)' <=> AccessedBy(t, x)
<1>1. WholeFile' = WholeFile
  BY DEF WholeFile
<1>2. \A d : Occurs(d)' <=> Occurs(d)
  BY <1>1 DEF Occurs
<1>3. \A t, x : AccessedBy(t, x)' <=> AccessedBy(t, x)
  BY <1>2 DEF AccessedBy
<1>4. \A x : (Contended(x)' <=> Contended(x)) /\ (Written(x)' <=> Written(x))
  BY <1>2, <1>3 DEF Contended, Written
<1> QED BY <1>1, <1>3, <1>4 DEF HasEvents

LEMMA LoadInvInit == LoadAssumption /\ LoadInit => LoadInv
<1> SUFFICES ASSUME LoadAssumption, LoadInit PROVE LoadInv
  OBVIOUS
<1>1. WholeFile = <<>> /\ trace = <<>> /\ file = <<>> /\ tot = <<>>
  BY WholeOfNone DEF LoadInit, Init
<1>2. LoadTypeOK
  BY DEF LoadTypeOK, LoadInit, Stages
<1>3. FilterTells
  <2>1. \A d : ~Occurs(d)
    BY <1>1 DEF Occurs
  <2>2. NotesTell
    BY <2>1 DEF NotesTell, LoadInit, Written, Contended, AccessedBy
  <2> QED BY <1>1, <2>2 DEF FilterTells, Reading, LoadInit
<1>4. ThreadsTell
  BY <1>1 DEF ThreadsTell, LoadInit
<1>5. LengthsTell
  BY <1>1 DEF LengthsTell, LoadInit
<1>6. TraceTells
  BY <1>1 DEF TraceTells, LoadInit
<1> QED BY <1>2, <1>3, <1>4, <1>5, <1>6 DEF LoadInv

\* What every kind of event has in common.
StageAfter(e, s) ==
  \/ s = "assert length" /\ e.op \in AccessOps /\ e.len = 0
  \/ s = "load" /\ (e.op \in AccessOps => e.len # 0)
LEMMA ReadKeeps ==
  ASSUME LoadAssumption, LoadInv, stage = "load",
         NEW e \in FileEvent, file' = Append(file, e),
         tot' = tot \o Expand(e), lists' = lists, trace' = trace,
         StageAfter(e, stage'),
         syncVars' \subseteq SyncVars, shared' \subseteq Vars, hasWritten' \subseteq Vars,
         lastAccessor' \in [Vars -> Threads \union {None}],
         NotesTell'
  PROVE  LoadInv'
<1>1. /\ file \in Seq(FileEvent) /\ file' \in Seq(FileEvent)
      /\ WholeFile \in Seq(LoadedEvent) /\ WholeFile' = WholeFile \o Expand(e)
      /\ Expand(e) \in Seq(LoadedEvent)
  BY WholeType, WholeGrows, ExpandTells DEF LoadInv, LoadTypeOK
<1>2. tot = WholeFile /\ trace = <<>>
  BY DEF LoadInv, FilterTells, TraceTells, Reading
<1>3. stage' \in {"load", "assert length"} /\ trace' = <<>> /\ lists' = lists
  BY <1>2 DEF StageAfter
<1>4. WholeFile' \in Seq(LoadedEvent) /\ tot' = WholeFile'
  BY <1>1, <1>2
<1>5. LoadTypeOK'
  BY <1>1, <1>3, <1>4 DEF LoadTypeOK, LoadInv, Stages
<1>6. FilterTells'
  BY <1>3, <1>4 DEF FilterTells, Reading
<1>7. ThreadsTell'
  <2>1. PICK n \in Nat : n = Len(file)
    BY <1>1
  <2>2. Len(file') = n + 1 /\ file'[n + 1] = e /\ \A i \in 1..n : file'[i] = file[i]
    BY <1>1, <2>1
  <2>3. n + 1 \in 1..(n + 1) /\ \A i \in 1..n : i \in 1..(n + 1)
    OBVIOUS
  <2>4. HasEvents(e.tid)' /\ \A t : HasEvents(t) => HasEvents(t)'
    BY <2>1, <2>2, <2>3 DEF HasEvents
  <2>5. ASSUME NEW i \in 1..Len(WholeFile') PROVE HasEvents(WholeFile[i].tid)'
    <3>1. PICK d : d = WholeFile'[i] /\ Occurs(d)'
      BY DEF Occurs
    <3>2. CASE Occurs(d)
      <4>1. HasEvents(d.tid)
        BY <3>2 DEF Occurs, LoadInv, ThreadsTell
      <4> QED BY <2>4, <3>1, <4>1
    <3>3. CASE \E l \in 1..Len(Expand(e)) : Expand(e)[l] = d
      <4>1. d.tid = e.tid
        BY <3>3, ExpandTells
      <4> QED BY <2>4, <3>1, <4>1
    <3>4. Occurs(d) \/ \E l \in 1..Len(Expand(e)) : Expand(e)[l] = d
      BY <1>1, <3>1, OccursGrows
    <3> QED BY <3>2, <3>3, <3>4
  <2>6. \A t \in Threads : lists'[t] # <<>> => HasEvents(t)'
    BY <1>3, <2>4 DEF LoadInv, ThreadsTell
  <2> QED BY <1>3, <2>5, <2>6 DEF ThreadsTell
<1>8. LengthsTell'
  <2>1. PICK n \in Nat : n = Len(file)
    BY <1>1
  <2>2. Len(file') = n + 1 /\ file'[n + 1] = e /\ \A i \in 1..n : file'[i] = file[i]
    BY <1>1, <2>1
  <2>3. \A i \in 1..n : file[i].op \in AccessOps => file[i].len > 0
    <3>1. LengthsTell
      BY DEF LoadInv
    <3>2. stage # "assert length" => \A i \in 1..Len(file) : file[i].op \in AccessOps => file[i].len > 0
      BY <3>1 DEF LengthsTell, IsAccess
    <3> QED BY <2>1, <3>2
  <2>4. e.len \in Nat
    BY FileEventSorts
  <2>5. stage' # "assert length" => (e.op \in AccessOps => e.len > 0)
    <3>1. PICK l \in Nat : l = e.len
      BY <2>4
    <3>2. l # 0 => l > 0
      OBVIOUS
    <3> QED BY <3>1, <3>2 DEF StageAfter
  <2>6. stage' = "assert length" => e.op \in AccessOps /\ e.len = 0
    BY DEF StageAfter
  <2>7. \A i \in 1..(n + 1) : i = n + 1 \/ i \in 1..n
    OBVIOUS
  <2>8. stage' # "assert length" =>
          \A i \in 1..(n + 1) : file'[i].op \in AccessOps => file'[i].len > 0
    BY <2>2, <2>3, <2>5, <2>7
  <2>9. stage' # "assert length" =>
          \A i \in 1..Len(file') : file'[i].op \in AccessOps => file'[i].len > 0
    BY <2>2, <2>8
  <2>10. stage' = "assert length" =>
           \E i \in 1..Len(file') : file'[i].op \in AccessOps /\ file'[i].len = 0
    <3>1. n + 1 \in 1..(n + 1)
      OBVIOUS
    <3> QED BY <2>2, <2>6, <3>1
  <2> QED BY ONLY <2>9, <2>10 DEF LengthsTell, IsAccess
<1>9. TraceTells'
  <2>1. Len(tot') \in Nat
    BY <1>4
  <2>2. PICK q : q = trace' /\ q = <<>>
    BY <1>3
  <2>3. Len(q) = 0 /\ Len(q) <= Len(tot') /\ \A i \in 1..Len(q) : FALSE
    BY ONLY <2>1, <2>2
  <2>4. stage' \notin {"done", "assert event"}
    BY <1>3
  <2> QED BY ONLY <1>3, <2>1, <2>2, <2>3, <2>4 DEF TraceTells
<1> QED BY <1>5, <1>6, <1>7, <1>8, <1>9 DEF LoadInv

LEMMA ReadAccessKeeps ==
  ASSUME LoadAssumption, LoadInv, stage = "load",
         NEW t \in Threads, NEW op \in AccessOps, NEW a \in Vars, NEW n \in Lens,
         ReadAccess(t, op, a, n)
  PROVE  LoadInv'
<1>1. PICK e \in FileEvent : e = [op |-> op, tid |-> t, obj |-> a, len |-> n]
  BY DEF ReadAccess, FileEvent, LoadAssumption
<1>2. IsAccess(e) /\ e.op = op /\ e.tid = t /\ e.obj = a /\ e.len = n /\ n # 0 /\ n \in Nat
  BY <1>1 DEF IsAccess, ReadAccess, LoadAssumption
<1>3. /\ file' = Append(file, e) /\ tot' = tot \o Expand(e)
      /\ UNCHANGED <<lists, trace, syncVars, stage>>
  BY <1>1 DEF ReadAccess, Read, vars, historyVars, clockVars
<1>4. PICK C \in SUBSET Vars : C = Cells(a, n)
  BY DEF ReadAccess
<1>5. /\ hasWritten' = IF op = "ST" THEN hasWritten \union C ELSE hasWritten
      /\ shared' = shared \union {x \in C : lastAccessor[x] \notin {None, t}}
      /\ lastAccessor' = [x \in Vars |-> IF x \in C /\ lastAccessor[x] = None THEN t ELSE lastAccessor[x]]
  BY <1>4 DEF ReadAccess
<1>6. /\ file \in Seq(FileEvent) /\ NotesTell
      /\ syncVars \subseteq SyncVars /\ shared \subseteq Vars /\ hasWritten \subseteq Vars
      /\ lastAccessor \in [Vars -> Threads \union {None}]
  BY DEF LoadInv, LoadTypeOK, FilterTells, Reading
<1>7. /\ syncVars' \subseteq SyncVars /\ shared' \subseteq Vars /\ hasWritten' \subseteq Vars
      /\ lastAccessor' \in [Vars -> Threads \union {None}]
  BY <1>3, <1>5, <1>6
<1>8. NotesTell'
  <2> SUFFICES ASSUME NEW x \in Vars
               PROVE  /\ x \in hasWritten' <=> Written(x)'
                      /\ lastAccessor'[x] = None => \A u \in Threads : ~AccessedBy(u, x)'
                      /\ lastAccessor'[x] # None => AccessedBy(lastAccessor[x], x)'
                      /\ x \in shared' <=> Contended(x)'
    BY DEF NotesTell
  <2>1. /\ \A u \in Threads : AccessedBy(u, x)' <=> AccessedBy(u, x) \/ (u = t /\ x \in C)
        /\ Written(x)' <=> Written(x) \/ (op = "ST" /\ x \in C)
    BY <1>2, <1>3, <1>4, <1>6, AccessGrows
  <2>2. /\ x \in hasWritten <=> Written(x)
        /\ lastAccessor[x] = None => \A u \in Threads : ~AccessedBy(u, x)
        /\ lastAccessor[x] # None => AccessedBy(lastAccessor[x], x)
        /\ x \in shared <=> Contended(x)
    BY <1>6 DEF NotesTell
  <2>3. lastAccessor[x] \in Threads \union {None} /\ t # None
    BY <1>6 DEF LoadAssumption
  <2>4. x \in hasWritten' <=> Written(x)'
    BY <1>5, <2>1, <2>2
  <2>5. lastAccessor'[x] = IF x \in C /\ lastAccessor[x] = None THEN t ELSE lastAccessor[x]
    BY <1>5
  <2>6. lastAccessor'[x] = None => \A u \in Threads : ~AccessedBy(u, x)'
    BY <2>1, <2>2, <2>3, <2>5
  <2>7. lastAccessor'[x] # None => AccessedBy(lastAccessor[x], x)'
    BY <2>1, <2>2, <2>3, <2>5
  <2>8. x \in shared' <=> Contended(x)'
    <3>1. Contended(x)' <=> \E u, v \in Threads : u # v /\ AccessedBy(u, x)' /\ AccessedBy(v, x)'
      BY DEF Contended
    <3>2. Contended(x) <=> \E u, v \in Threads : u # v /\ AccessedBy(u, x) /\ AccessedBy(v, x)
      BY DEF Contended
    <3>3. x \in shared' <=> x \in shared \/ (x \in C /\ lastAccessor[x] # None /\ lastAccessor[x] # t)
      BY <1>5
    <3> QED BY <2>1, <2>2, <2>3, <3>1, <3>2, <3>3
  <2> QED BY <2>4, <2>6, <2>7, <2>8
<1>9. StageAfter(e, stage')
  BY <1>2, <1>3 DEF StageAfter
<1> QED BY <1>2, <1>3, <1>7, <1>8, <1>9, ReadKeeps

\* Notes about variables are left alone by the other events.
LEMMA NotesStay ==
  ASSUME NotesTell, UNCHANGED <<hasWritten, lastAccessor, shared>>,
         \A x \in Vars : /\ \A u \in Threads : AccessedBy(u, x)' <=> AccessedBy(u, x)
                         /\ Written(x)' <=> Written(x),
         lastAccessor \in [Vars -> Threads \union {None}]
  PROVE  NotesTell'
<1> SUFFICES ASSUME NEW x \in Vars
             PROVE  /\ x \in hasWritten' <=> Written(x)'
                    /\ lastAccessor'[x] = None => \A u \in Threads : ~AccessedBy(u, x)'
                    /\ lastAccessor'[x] # None => AccessedBy(lastAccessor[x], x)'
                    /\ x \in shared' <=> Contended(x)'
  BY DEF NotesTell
<1>1. lastAccessor[x] \in Threads \union {None}
  OBVIOUS
<1>2. Contended(x)' <=> Contended(x)
  BY DEF Contended
<1> QED BY <1>1, <1>2 DEF NotesTell

LEMMA ReadOtherKeeps ==
  ASSUME LoadAssumption, LoadInv, stage = "load", NEW e \in FileEvent, ~IsAccess(e),
         file' = Append(file, e), tot' = Append(tot, Event(e.op, e.tid, e.obj)),
         UNCHANGED <<lists, trace, shared, hasWritten, lastAccessor, stage>>,
         syncVars' \subseteq SyncVars
  PROVE  LoadInv'
<1>1. /\ file \in Seq(FileEvent) /\ NotesTell /\ tot \in Seq(LoadedEvent)
      /\ shared \subseteq Vars /\ hasWritten \subseteq Vars
      /\ lastAccessor \in [Vars -> Threads \union {None}]
  BY DEF LoadInv, LoadTypeOK, FilterTells, Reading
<1>2. PICK d \in LoadedEvent : d = Event(e.op, e.tid, e.obj)
  BY FileEventSorts
<1>3. tot' = tot \o Expand(e)
  <2>1. Expand(e) = <<d>>
    BY <1>2, ExpandTells
  <2>2. Append(tot, d) = tot \o <<d>>
    BY <1>1
  <2> QED BY <1>2, <2>1, <2>2
<1>4. NotesTell'
  BY <1>1, AccessStays, NotesStay
<1>5. StageAfter(e, stage')
  BY DEF StageAfter, IsAccess
<1> QED BY <1>1, <1>3, <1>4, <1>5, ReadKeeps

LEMMA ReadEmptyKeeps ==
  ASSUME LoadAssumption, LoadInv, stage = "load",
         NEW t \in Threads, NEW op \in AccessOps, NEW a \in Vars, ReadEmptyAccess(t, op, a)
  PROVE  LoadInv'
<1>1. Cells(a, 0) = {}
  BY DEF Cells, LoadAssumption
<1>2. PICK e \in FileEvent : e = [op |-> op, tid |-> t, obj |-> a, len |-> 0]
  BY <1>1 DEF FileEvent
<1>3. IsAccess(e) /\ e.obj = a /\ e.len = 0
  BY <1>2 DEF IsAccess
<1>4. /\ file' = Append(file, e) /\ tot' = tot /\ stage' = "assert length"
      /\ UNCHANGED <<lists, trace, syncVars, shared, hasWritten, lastAccessor>>
  BY <1>2 DEF ReadEmptyAccess, Read, noteVars, vars, historyVars, clockVars
<1>5. /\ file \in Seq(FileEvent) /\ NotesTell /\ tot \in Seq(LoadedEvent)
      /\ syncVars \subseteq SyncVars /\ shared \subseteq Vars /\ hasWritten \subseteq Vars
      /\ lastAccessor \in [Vars -> Threads \union {None}]
  BY DEF LoadInv, LoadTypeOK, FilterTells, Reading
<1>6. tot' = tot \o Expand(e)
  <2>1. Expand(e) = [l \in 1..0 |-> Event(e.op, e.tid, e.obj + l - 1)]
    BY <1>3 DEF Expand
  <2>2. Expand(e) = <<>>
    BY <2>1
  <2>3. tot \o <<>> = tot
    BY <1>5
  <2> QED BY <1>4, <2>2, <2>3
<1>7. NotesTell'
  <2>1. ASSUME NEW x \in Vars
        PROVE  /\ \A u \in Threads : AccessedBy(u, x)' <=> AccessedBy(u, x)
               /\ Written(x)' <=> Written(x)
    BY <1>1, <1>3, <1>4, <1>5, AccessGrows
  <2> QED BY <1>4, <1>5, <2>1, NotesStay
<1>8. StageAfter(e, stage')
  BY <1>3, <1>4 DEF StageAfter, IsAccess
<1> QED BY <1>3, <1>4, <1>5, <1>6, <1>7, <1>8, ReadKeeps

\* The steps after the file has been read leave it alone.
LEMMA FilterKeeps == LoadAssumption /\ LoadInv /\ Filter => LoadInv'
<1> SUFFICES ASSUME LoadAssumption, LoadInv, Filter PROVE LoadInv'
  OBVIOUS
<1>1. PICK W \in Seq(LoadedEvent) : W = WholeFile /\ tot = W
  BY WholeType DEF LoadInv, LoadTypeOK, FilterTells, Reading, Filter
<1>2. /\ stage = "load" /\ stage' = "loaded"
      /\ UNCHANGED <<file, syncVars, hasWritten, lists, trace>>
      /\ lastAccessor' = lastAccessor
      /\ shared' = shared \intersect hasWritten
  BY DEF Filter, vars, historyVars, clockVars
<1>3. /\ WholeFile' = W
      /\ \A t : HasEvents(t)' <=> HasEvents(t)
      /\ \A x : (Contended(x)' <=> Contended(x)) /\ (Written(x)' <=> Written(x))
  BY <1>1, <1>2, FileStays
<1>4. Kept' \in SUBSET (DOMAIN W) /\ tot' = Part(W, Kept')
  <2>1. Kept' = {i \in DOMAIN W : IsAccess(W[i]) => W[i].obj \in shared \intersect hasWritten}
    BY <1>2, <1>3 DEF Kept
  <2>2. tot' = Part(W, {i \in DOMAIN W : IsAccess(W[i]) => W[i].obj \in shared \intersect hasWritten})
    BY <1>1 DEF Filter
  <2> QED BY <2>1, <2>2
<1>5. tot' \in Seq(LoadedEvent)
  BY <1>4, PartEmbeds
<1>6. trace' = <<>>
  BY <1>2 DEF LoadInv, TraceTells
<1>7. LoadTypeOK'
  BY <1>2, <1>5 DEF LoadTypeOK, LoadInv, Stages
<1>8. FilterTells'
  <2>1. NotesTell
    BY <1>2 DEF LoadInv, FilterTells, Reading
  <2>2. \A x \in Vars : x \in shared' <=> Contended(x)' /\ Written(x)'
    BY <1>2, <1>3, <2>1 DEF NotesTell
  <2>3. ~Reading'
    BY <1>2 DEF Reading
  <2> QED BY <1>3, <1>4, <2>2, <2>3 DEF FilterTells
<1>9. ThreadsTell'
  <2>1. \A i \in 1..Len(W) : HasEvents(W[i].tid)'
    BY <1>1, <1>3 DEF LoadInv, ThreadsTell
  <2>2. \A t \in Threads : lists'[t] # <<>> => HasEvents(t)'
    BY <1>2, <1>3 DEF LoadInv, ThreadsTell
  <2> QED BY <1>2, <1>3, <2>1, <2>2 DEF ThreadsTell
<1>10. LengthsTell'
  <2>1. LengthsTell
    BY DEF LoadInv
  <2> QED BY ONLY <1>2, <2>1 DEF LengthsTell, IsAccess
<1>11. TraceTells'
  <2>1. Len(tot') \in Nat
    BY <1>5
  <2>2. PICK q : q = trace' /\ q = <<>>
    BY <1>6
  <2>3. Len(q) = 0 /\ Len(q) <= Len(tot') /\ \A i \in 1..Len(q) : FALSE
    BY ONLY <2>1, <2>2
  <2> QED BY ONLY <1>2, <2>1, <2>2, <2>3 DEF TraceTells
<1> QED BY <1>7, <1>8, <1>9, <1>10, <1>11 DEF LoadInv

\* What the later steps have in common.
LEMMA LaterKeeps ==
  ASSUME LoadInv, ~Reading, ~Reading', UNCHANGED <<file, tot, syncVars, shared>>,
         hasWritten' = hasWritten, lastAccessor' = lastAccessor,
         stage' \in Stages, lists' \in [Threads -> Seq(LoadedEvent)],
         \A t \in Threads : lists'[t] # <<>> => HasEvents(t),
         stage' = "assert threads" => ~(NrThread < MaxThread)',
         TraceTells'
  PROVE  LoadInv'
<1>1. /\ WholeFile' = WholeFile
      /\ \A t : HasEvents(t)' <=> HasEvents(t)
      /\ \A x : (Contended(x)' <=> Contended(x)) /\ (Written(x)' <=> Written(x))
  BY FileStays
<1>2. LoadTypeOK'
  BY DEF LoadTypeOK, LoadInv
<1>3. FilterTells'
  <2>1. Kept' = Kept
    BY <1>1 DEF Kept
  <2> QED BY <1>1, <2>1 DEF FilterTells, LoadInv
<1>4. ThreadsTell'
  <2>1. \A i \in 1..Len(WholeFile) : HasEvents(WholeFile[i].tid)'
    BY <1>1 DEF LoadInv, ThreadsTell
  <2>2. \A t \in Threads : lists'[t] # <<>> => HasEvents(t)'
    BY <1>1
  <2> QED BY <1>1, <2>1, <2>2 DEF ThreadsTell
<1>5. LengthsTell'
  <2>1. LengthsTell
    BY DEF LoadInv
  <2>2. stage # "assert length" /\ stage' # "assert length" /\ file' = file
    BY DEF Reading
  <2> QED BY ONLY <2>1, <2>2 DEF LengthsTell, IsAccess
<1> QED BY <1>2, <1>3, <1>4, <1>5 DEF LoadInv

\* What is left of the file.
LEMMA LeftOver ==
  ASSUME LoadAssumption, LoadInv, ~Reading
  PROVE  /\ WholeFile \in Seq(LoadedEvent) /\ tot \in Seq(LoadedEvent)
         /\ tot = Part(WholeFile, Kept) /\ Kept \in SUBSET (DOMAIN WholeFile)
         /\ \E f : Embeds(f, tot, WholeFile, Kept)
<1>1. PICK W \in Seq(LoadedEvent) : W = WholeFile
  BY WholeType DEF LoadInv, LoadTypeOK
<1>2. Kept \in SUBSET (DOMAIN W) /\ tot = Part(W, Kept)
  BY <1>1 DEF Kept, LoadInv, FilterTells
<1> QED BY <1>1, <1>2, PartEmbeds

LEMMA BuildKeeps == LoadAssumption /\ LoadInv /\ Build => LoadInv'
<1> SUFFICES ASSUME LoadAssumption, LoadInv, Build PROVE LoadInv'
  OBVIOUS
<1> DEFINE Own(t) == {i \in DOMAIN tot :
                        tot[i].tid = t /\ ~(IsAccess(tot[i]) /\ tot[i].obj \in syncVars)}
<1>1. /\ stage = "loaded" /\ stage' = "built" /\ UNCHANGED <<file, tot, syncVars, shared, trace>>
      /\ hasWritten' = hasWritten /\ lastAccessor' = lastAccessor
  BY DEF Build, noteVars, vars, historyVars, clockVars
<1>2. lists' = [t \in Threads |-> Part(tot, Own(t))]
  BY DEF Build
<1>3. ~Reading /\ ~Reading' /\ stage' \in Stages
  BY <1>1 DEF Reading, Stages
<1>4. PICK f : Embeds(f, tot, WholeFile, Kept) /\ tot \in Seq(LoadedEvent)
  BY <1>3, LeftOver
<1>5. \A t \in Threads : Own(t) \in SUBSET (DOMAIN tot)
  OBVIOUS
<1>6. \A t \in Threads : Part(tot, Own(t)) \in Seq(LoadedEvent)
                         /\ \E g : Embeds(g, Part(tot, Own(t)), tot, Own(t))
  <2> HIDE DEF Own
  <2> QED BY <1>4, <1>5, PartEmbeds
<1>7. lists' \in [Threads -> Seq(LoadedEvent)]
  <2> HIDE DEF Own
  <2> QED BY <1>2, <1>6
<1>8. ASSUME NEW t \in Threads, lists'[t] # <<>> PROVE HasEvents(t)
  <2>1. PICK r \in Seq(LoadedEvent) : r = lists'[t] /\ r # <<>> /\ r = Part(tot, Own(t))
    <3> HIDE DEF Own
    <3> QED BY <1>2, <1>6, <1>8
  <2>2. PICK g : Embeds(g, r, tot, Own(t))
    BY <1>6, <2>1
  <2>3. 1 \in 1..Len(r)
    BY <2>1
  <2>4. PICK k \in 1..Len(tot) : tot[k].tid = t
    <3>1. g[1] \in Own(t)
      BY <2>2, <2>3 DEF Embeds
    <3>2. g[1] \in 1..Len(tot)
      BY <1>4, <3>1
    <3> QED BY <3>1, <3>2
  <2>5. f[k] \in 1..Len(WholeFile) /\ tot[k] = WholeFile[f[k]]
    BY <1>4 DEF Embeds, Kept
  <2> QED BY <2>4, <2>5 DEF LoadInv, ThreadsTell
<1>9. TraceTells'
  BY <1>1 DEF LoadInv, TraceTells
<1> QED BY <1>1, <1>3, <1>7, <1>8, <1>9, LaterKeeps

LEMMA CountKeeps == LoadInv /\ CountThreads => LoadInv'
<1> SUFFICES ASSUME LoadInv, CountThreads PROVE LoadInv'
  OBVIOUS
<1>1. /\ stage = "built" /\ stage' \in {"detect", "assert threads"}
      /\ stage' = "assert threads" => ~(NrThread < MaxThread)
      /\ UNCHANGED <<file, tot, syncVars, shared, trace, lists>>
      /\ hasWritten' = hasWritten /\ lastAccessor' = lastAccessor
  BY DEF CountThreads, noteVars, vars, historyVars, clockVars
<1>2. ~Reading /\ ~Reading' /\ stage' \in Stages
  BY <1>1 DEF Reading, Stages
<1>3. NrThread' = NrThread
  BY <1>1 DEF NrThread
<1>4. TraceTells'
  BY <1>1 DEF LoadInv, TraceTells
<1>5. lists' \in [Threads -> Seq(LoadedEvent)] /\ \A t \in Threads : lists'[t] # <<>> => HasEvents(t)
  BY <1>1 DEF LoadInv, LoadTypeOK, ThreadsTell
<1> QED BY <1>1, <1>2, <1>3, <1>4, <1>5, LaterKeeps

\* The detector takes the event as it is, as one of those it is made for.
LEMMA HandleTakes ==
  ASSUME NEW e \in LoadedEvent, Handle(e)
  PROVE  /\ Next
         /\ trace' = Append(trace, e)
         /\ ~(IsAccess(e) /\ e.obj \in syncVars)
<1>1. CASE e \in [op : AccessOps, tid : Threads, obj : Vars]
  <2>1. e = Event(e.op, e.tid, e.obj) /\ e.tid \in Threads /\ e.obj \in Vars /\ e.op \in {"LD", "ST"}
    BY <1>1 DEF Event, AccessOps
  <2>2. \/ e.op = "LD" /\ e.obj \notin syncVars /\ Load(e.tid, e.obj)
        \/ e.op = "ST" /\ e.obj \notin syncVars /\ Store(e.tid, e.obj)
    BY <2>1 DEF Handle, SyncAcqOps, SyncRelOps
  <2>3. trace' = Append(trace, Event(e.op, e.tid, e.obj))
    BY <2>2 DEF Load, Store, Record
  <2>4. Next
    BY <2>1, <2>2 DEF Next, VarAccess
  <2> QED BY <2>1, <2>2, <2>3, <2>4
<1>2. CASE e \in [op : SyncOps, tid : Threads, obj : SyncVars]
  <2>1. /\ e = Event(e.op, e.tid, e.obj) /\ e.tid \in Threads /\ e.obj \in SyncVars
        /\ e.op \in SyncOps /\ e.op \in SyncAcqOps \union SyncRelOps \union {"WAIT"}
    BY <1>2, RaceAssumption DEF Event
  <2>2. \/ e.op \in SyncAcqOps /\ Acquire(e.tid, e.obj, e.op)
        \/ e.op \in SyncRelOps /\ Release(e.tid, e.obj, e.op)
        \/ e.op = "WAIT" /\ Wait(e.tid, e.obj)
    BY <2>1 DEF Handle, SyncAcqOps, SyncRelOps
  <2>3. trace' = Append(trace, Event(e.op, e.tid, e.obj))
    BY <2>2 DEF Acquire, Release, Wait, Record
  <2>4. SyncOp(e.tid)
    BY <2>1, <2>2 DEF SyncOp
  <2>5. ~IsAccess(e)
    BY <2>1 DEF IsAccess, AccessOps, SyncAcqOps, SyncRelOps
  <2> QED BY <2>1, <2>3, <2>4, <2>5 DEF Next
<1>3. CASE e \in [op : {"CREATE", "JOIN"}, tid : Threads, obj : Threads]
  <2>1. /\ e = Event(e.op, e.tid, e.obj) /\ e.tid \in Threads /\ e.obj \in Threads
        /\ e.op \in {"CREATE", "JOIN"}
    BY <1>3 DEF Event
  <2>2. \/ e.op = "CREATE" /\ Create(e.tid, e.obj)
        \/ e.op = "JOIN" /\ Join(e.tid, e.obj)
    BY <2>1 DEF Handle, SyncAcqOps, SyncRelOps
  <2>3. trace' = Append(trace, Event(e.op, e.tid, e.obj))
    BY <2>2 DEF Create, Join, Record
  <2>4. ThreadOp(e.tid)
    BY <2>1, <2>2 DEF ThreadOp
  <2>5. ~IsAccess(e)
    BY <2>1 DEF IsAccess, AccessOps
  <2> QED BY <2>1, <2>3, <2>4, <2>5 DEF Next
<1> QED BY <1>1, <1>2, <1>3 DEF LoadedEvent

LEMMA DetectKeeps ==
  ASSUME LoadAssumption, LoadInv, TypeOK, Detect
  PROVE  LoadInv' /\ Next
<1>1. /\ stage = "detect" /\ Len(trace) < Len(tot) /\ Handle(tot[Len(trace) + 1])
      /\ UNCHANGED <<file, tot, syncVars, shared, lists, stage>>
      /\ hasWritten' = hasWritten /\ lastAccessor' = lastAccessor
  BY DEF Detect, noteVars
<1>2. ~Reading /\ ~Reading' /\ stage' \in Stages /\ stage' # "assert threads"
  BY <1>1 DEF Reading, Stages
<1>3. PICK n \in Nat : n = Len(trace)
  BY DEF TypeOK
<1>4. tot \in Seq(LoadedEvent) /\ n < Len(tot) /\ n + 1 \in 1..Len(tot)
  BY <1>1, <1>3 DEF LoadInv, LoadTypeOK
<1>5. PICK e \in LoadedEvent : e = tot[n + 1] /\ Handle(e)
  BY <1>1, <1>3, <1>4
<1>6. Next /\ trace' = Append(trace, e) /\ ~(IsAccess(e) /\ e.obj \in syncVars)
  BY <1>5, HandleTakes
<1>7. Len(trace') = n + 1 /\ trace'[n + 1] = e /\ \A i \in 1..n : trace'[i] = trace[i]
  BY <1>3, <1>6 DEF TypeOK
<1>8. TraceTells'
  <2>1. \A i \in 1..n : trace[i] = tot[i] /\ ~(IsAccess(trace[i]) /\ trace[i].obj \in syncVars)
    BY <1>3 DEF LoadInv, TraceTells
  <2>2. \A i \in 1..(n + 1) : i = n + 1 \/ i \in 1..n
    OBVIOUS
  <2>3. \A i \in 1..(n + 1) : trace'[i] = tot[i] /\ ~(IsAccess(trace'[i]) /\ trace'[i].obj \in syncVars)
    BY <1>5, <1>6, <1>7, <2>1, <2>2
  <2>4. n + 1 <= Len(tot)
    BY <1>4
  <2> QED BY <1>1, <1>7, <2>3, <2>4 DEF TraceTells
<1>9. lists' \in [Threads -> Seq(LoadedEvent)] /\ \A t \in Threads : lists'[t] # <<>> => HasEvents(t)
  BY <1>1 DEF LoadInv, LoadTypeOK, ThreadsTell
<1> QED BY <1>1, <1>2, <1>6, <1>8, <1>9, LaterKeeps

LEMMA DetectEndKeeps ==
  ASSUME LoadInv, TypeOK, DetectFails \/ DetectDone
  PROVE  LoadInv'
<1>1. /\ stage = "detect" /\ stage' \in {"assert event", "done"}
      /\ UNCHANGED <<file, tot, syncVars, shared, lists, trace>>
      /\ hasWritten' = hasWritten /\ lastAccessor' = lastAccessor
  BY DEF DetectFails, DetectDone, noteVars, vars, historyVars, clockVars
<1>2. ~Reading /\ ~Reading' /\ stage' \in Stages /\ stage' # "assert threads"
  BY <1>1 DEF Reading, Stages
<1>3. stage' = "done" => Len(trace) = Len(tot)
  BY DEF DetectFails, DetectDone
<1>4. stage' = "assert event" => \E i \in 1..Len(tot) : IsAccess(tot[i]) /\ tot[i].obj \in syncVars
  <2> SUFFICES ASSUME stage' = "assert event"
               PROVE  \E i \in 1..Len(tot) : IsAccess(tot[i]) /\ tot[i].obj \in syncVars
    OBVIOUS
  <2>1. /\ Len(trace) < Len(tot) /\ IsAccess(tot[Len(trace) + 1])
        /\ tot[Len(trace) + 1].obj \in syncVars
    <3>1. CASE DetectFails
      BY ONLY <3>1 DEF DetectFails, IsAccess
    <3>2. CASE DetectDone
      <4>1. stage' = "done"
        BY ONLY <3>2 DEF DetectDone
      <4> QED BY <4>1
    <3> QED BY <3>1, <3>2
  <2>2. Len(trace) \in Nat /\ Len(tot) \in Nat
    <3>1. Len(trace) \in Nat
      BY ONLY TypeOK DEF TypeOK
    <3>2. Len(tot) \in Nat
      BY ONLY LoadInv DEF LoadInv, LoadTypeOK
    <3> QED BY <3>1, <3>2
  <2>3. Len(trace) + 1 \in 1..Len(tot)
    BY ONLY <2>1, <2>2
  <2> QED BY <2>1, <2>3
<1>5. TraceTells'
  BY <1>1, <1>3, <1>4 DEF LoadInv, TraceTells
<1>6. lists' \in [Threads -> Seq(LoadedEvent)] /\ \A t \in Threads : lists'[t] # <<>> => HasEvents(t)
  BY <1>1 DEF LoadInv, LoadTypeOK, ThreadsTell
<1> QED BY <1>1, <1>2, <1>5, <1>6, LaterKeeps

LEMMA LoadStep ==
  ASSUME LoadAssumption, LoadInv, TypeOK, [LoadNext]_loadVars
  PROVE  LoadInv' /\ [Next]_vars
<1>1. CASE ReadNext
  <2>1. stage = "load" /\ vars' = vars
    BY <1>1 DEF ReadNext, ReadAccess, ReadEmptyAccess, ReadSync, ReadThreadOp, Read
  <2>2. ASSUME NEW t \in Threads, NEW m \in SyncVars, NEW op \in SyncOps, ReadSync(t, op, m)
        PROVE  LoadInv'
    <3>1. PICK e \in FileEvent : e = [op |-> op, tid |-> t, obj |-> m, len |-> 1]
      BY DEF FileEvent
    <3>2. ~IsAccess(e) /\ e.op = op /\ e.tid = t /\ e.obj = m
      BY <3>1, RaceAssumption DEF IsAccess, AccessOps, SyncAcqOps, SyncRelOps
    <3>3. /\ file' = Append(file, e) /\ tot' = Append(tot, Event(e.op, e.tid, e.obj))
          /\ UNCHANGED <<lists, trace, shared, hasWritten, lastAccessor, stage>>
      BY <2>2, <3>1, <3>2 DEF ReadSync, Read, vars, historyVars, clockVars
    <3>4. syncVars' \subseteq SyncVars
      BY <2>2 DEF ReadSync, LoadInv, LoadTypeOK
    <3> QED BY <2>1, <3>2, <3>3, <3>4, ReadOtherKeeps
  <2>3. ASSUME NEW t \in Threads, NEW u \in Threads, NEW op \in {"CREATE", "JOIN"},
               ReadThreadOp(t, op, u)
        PROVE  LoadInv'
    <3>1. PICK e \in FileEvent : e = [op |-> op, tid |-> t, obj |-> u, len |-> 0]
      BY DEF FileEvent
    <3>2. ~IsAccess(e) /\ e.op = op /\ e.tid = t /\ e.obj = u
      BY <3>1 DEF IsAccess, AccessOps
    <3>3. /\ file' = Append(file, e) /\ tot' = Append(tot, Event(e.op, e.tid, e.obj))
          /\ UNCHANGED <<lists, trace, shared, hasWritten, lastAccessor, stage>>
      BY <2>3, <3>1, <3>2 DEF ReadThreadOp, Read, noteVars, vars, historyVars, clockVars
    <3>4. syncVars' \subseteq SyncVars
      BY <2>3 DEF ReadThreadOp, noteVars, LoadInv, LoadTypeOK
    <3> QED BY <2>1, <3>2, <3>3, <3>4, ReadOtherKeeps
  <2>4. LoadInv'
    BY <1>1, <2>1, <2>2, <2>3, ReadAccessKeeps, ReadEmptyKeeps DEF ReadNext
  <2> QED BY <2>1, <2>4
<1>2. CASE Filter
  BY <1>2, FilterKeeps DEF Filter
<1>3. CASE Build
  BY <1>3, BuildKeeps DEF Build
<1>4. CASE CountThreads
  BY <1>4, CountKeeps DEF CountThreads
<1>5. CASE Detect
  BY <1>5, DetectKeeps
<1>6. CASE DetectFails \/ DetectDone
  BY <1>6, DetectEndKeeps DEF DetectFails, DetectDone
<1>7. CASE UNCHANGED loadVars
  <2>1. /\ UNCHANGED <<file, tot, syncVars, shared, lists, stage, trace>>
        /\ hasWritten' = hasWritten /\ lastAccessor' = lastAccessor /\ vars' = vars
    BY <1>7 DEF loadVars, noteVars, vars, historyVars, clockVars
  <2>2. /\ WholeFile' = WholeFile
        /\ \A t : HasEvents(t)' <=> HasEvents(t)
        /\ \A x : (Contended(x)' <=> Contended(x)) /\ (Written(x)' <=> Written(x))
        /\ \A t, x : AccessedBy(t, x)' <=> AccessedBy(t, x)
    BY <2>1, FileStays
  <2>3. LoadTypeOK'
    BY <2>1 DEF LoadTypeOK, LoadInv
  <2>4. FilterTells'
    <3>1. Kept' = Kept
      BY <2>1, <2>2 DEF Kept
    <3>2. NotesTell => NotesTell'
      BY <2>1, <2>2, NotesStay DEF LoadInv, LoadTypeOK
    <3>3. Reading' = Reading
      BY <2>1 DEF Reading
    <3> QED BY <2>1, <2>2, <3>1, <3>2, <3>3 DEF FilterTells, LoadInv
  <2>5. ThreadsTell'
    <3>1. NrThread' = NrThread
      BY <2>1 DEF NrThread
    <3>2. \A i \in 1..Len(WholeFile) : HasEvents(WholeFile[i].tid)'
      BY <2>2 DEF LoadInv, ThreadsTell
    <3> QED BY <2>1, <2>2, <3>1, <3>2 DEF ThreadsTell, LoadInv
  <2>6. LengthsTell' /\ TraceTells'
    <3>1. LengthsTell /\ TraceTells
      BY DEF LoadInv
    <3> QED BY ONLY <2>1, <3>1 DEF LengthsTell, TraceTells, IsAccess
  <2> QED BY <2>1, <2>3, <2>4, <2>5, <2>6 DEF LoadInv
<1> QED BY <1>1, <1>2, <1>3, <1>4, <1>5, <1>6, <1>7 DEF LoadNext

\* Whatever the file and whatever is thrown away, what is left of it is a trace
\* as the detector is made for: every step of DepGraph::loadTrace, buildGraph
\* and the loop of RaceAnalyze::analyze is one of the detector, or none.
THEOREM LoaderImplementsDetector == LoadSpec => Spec
<1>1. LoadInit => LoadInv /\ TypeOK /\ Init
  BY LoadAssumption, LoadInvInit, TypeInit DEF LoadInit
<1>2. LoadInv /\ TypeOK /\ [LoadNext]_loadVars => (LoadInv /\ TypeOK)' /\ [Next]_vars
  BY LoadAssumption, LoadStep, TypeNext
<1> QED BY <1>1, <1>2, PTL DEF LoadSpec, Spec

\* A set has more than one element if it has two.
LEMMA MoreThanOne ==
  ASSUME NEW S, IsFiniteSet(S)
  PROVE  Cardinality(S) > 1 <=> \E a, b \in S : a # b
<1>1. Cardinality(S) \in Nat
  BY FS_CardinalityType
<1>2. ASSUME NEW a \in S, NEW b \in S, a # b PROVE Cardinality(S) > 1
  <2>1. Cardinality({a} \union {b}) = 2
    <3>1. IsFiniteSet({a}) /\ Cardinality({a}) = 1 /\ b \notin {a}
      BY <1>2, FS_Singleton
    <3> QED BY <3>1, FS_AddElement
  <2>2. Cardinality({a} \union {b}) <= Cardinality(S)
    <3>1. {a} \union {b} \in SUBSET S
      OBVIOUS
    <3> QED BY <3>1, FS_Subset
  <2> QED BY <1>1, <2>1, <2>2
<1>3. ASSUME Cardinality(S) > 1 PROVE \E a, b \in S : a # b
  <2>1. S # {}
    BY <1>3, FS_EmptySet
  <2>2. \A x : S # {x}
    BY <1>3, FS_Singleton
  <2>3. PICK a : a \in S
    BY <2>1
  <2>4. S # {a}
    BY <2>2
  <2>5. PICK b \in S : b # a
    BY <2>3, <2>4
  <2> QED BY <2>3, <2>5
<1> QED BY <1>2, <1>3

\* The threads at some positions are finitely many.
TidsAt(s, P) == {s[i].tid : i \in P}
LEMMA TidsFinite ==
  ASSUME NEW n \in Nat, NEW P \in SUBSET (1..n), NEW s
  PROVE  IsFiniteSet(TidsAt(s, P))
<1>1. n \in Int /\ 1 \in Int
  OBVIOUS
<1>2. IsFiniteSet(1..n)
  BY ONLY <1>1, FS_Interval
<1>3. IsFiniteSet(P)
  BY <1>2, FS_Subset
<1>4. PICK h : h = [i \in P |-> s[i].tid]
  OBVIOUS
<1>5. h \in Surjection(P, TidsAt(s, P))
  BY <1>4 DEF Surjection, TidsAt
<1>6. IsFiniteSet(TidsAt(s, P))
  BY ONLY <1>3, <1>5, FS_Surjection
<1> QED BY <1>6

\* How the properties' sets of positions are what the notes are about.
LEMMA EventsAreNoted ==
  ASSUME LoadAssumption, WholeFile \in Seq(LoadedEvent)
  PROVE  /\ \A i \in 1..Len(WholeFile) : IsAccess(WholeFile[i]) =>
              /\ WholeFile[i].tid \in Threads /\ WholeFile[i].obj \in Vars
              /\ AccessedBy(WholeFile[i].tid, WholeFile[i].obj)
              /\ WholeFile[i].op = "ST" => Written(WholeFile[i].obj)
         /\ \A t, x : AccessedBy(t, x) => \E i \in 1..Len(WholeFile) :
              IsAccess(WholeFile[i]) /\ WholeFile[i].tid = t /\ WholeFile[i].obj = x
         /\ \A x : Written(x) => \E i \in 1..Len(WholeFile) :
              IsAccess(WholeFile[i]) /\ WholeFile[i].op = "ST" /\ WholeFile[i].obj = x
<1>1. ASSUME NEW i \in 1..Len(WholeFile), IsAccess(WholeFile[i])
      PROVE  /\ WholeFile[i].tid \in Threads /\ WholeFile[i].obj \in Vars
             /\ AccessedBy(WholeFile[i].tid, WholeFile[i].obj)
             /\ WholeFile[i].op = "ST" => Written(WholeFile[i].obj)
  <2>1. PICK e \in LoadedEvent : e = WholeFile[i]
    OBVIOUS
  <2>2. e.op \in AccessOps
    BY <1>1, <2>1 DEF IsAccess
  <2>3. e \in [op : AccessOps, tid : Threads, obj : Vars]
    BY <2>2, RaceAssumption DEF LoadedEvent, AccessOps, SyncAcqOps, SyncRelOps
  <2>4. e = Event(e.op, e.tid, e.obj) /\ e.tid \in Threads /\ e.obj \in Vars
    BY <2>3 DEF Event
  <2>5. Occurs(Event(e.op, e.tid, e.obj))
    BY <2>1, <2>4 DEF Occurs
  <2> QED BY <2>1, <2>2, <2>4, <2>5 DEF AccessedBy, Written
<1>2. ASSUME NEW t, NEW x, AccessedBy(t, x)
      PROVE  \E i \in 1..Len(WholeFile) :
               IsAccess(WholeFile[i]) /\ WholeFile[i].tid = t /\ WholeFile[i].obj = x
  <2>1. PICK op \in AccessOps : Occurs(Event(op, t, x))
    BY <1>2 DEF AccessedBy
  <2>2. PICK i \in 1..Len(WholeFile) : WholeFile[i] = Event(op, t, x)
    BY <2>1 DEF Occurs
  <2> QED BY <2>2 DEF Event, IsAccess
<1>3. ASSUME NEW x, Written(x)
      PROVE  \E i \in 1..Len(WholeFile) :
               IsAccess(WholeFile[i]) /\ WholeFile[i].op = "ST" /\ WholeFile[i].obj = x
  <2>1. PICK t \in Threads : Occurs(Event("ST", t, x))
    BY <1>3 DEF Written
  <2>2. PICK i \in 1..Len(WholeFile) : WholeFile[i] = Event("ST", t, x)
    BY <2>1 DEF Occurs
  <2> QED BY <2>2 DEF Event, IsAccess, AccessOps
<1> QED BY <1>1, <1>2, <1>3

\* An address of sync_vars_ is mixed if it stays shared.
LEMMA MixedIsShared ==
  ASSUME LoadAssumption, WholeFile \in Seq(LoadedEvent)
  PROVE  MixedAddress <=> \E m \in syncVars : m \in Vars /\ Contended(m) /\ Written(m)
<1>1. PICK W \in Seq(LoadedEvent) : W = WholeFile
  OBVIOUS
<1>2. PICK n \in Nat : n = Len(W)
  OBVIOUS
<1> DEFINE At(m) == {i \in 1..n : W[i].obj = m /\ IsAccess(W[i])}
<1>4. MixedAddress <=> \E m \in syncVars :
        /\ Cardinality({W[i].tid : i \in At(m)}) > 1
        /\ \E i \in At(m) : W[i].op = "ST"
  BY <1>1, <1>2 DEF MixedAddress
<1>5. /\ \A i \in 1..n : IsAccess(W[i]) =>
           /\ W[i].tid \in Threads /\ W[i].obj \in Vars
           /\ AccessedBy(W[i].tid, W[i].obj)
           /\ W[i].op = "ST" => Written(W[i].obj)
      /\ \A t, x : AccessedBy(t, x) => \E i \in At(x) : W[i].tid = t
      /\ \A x : Written(x) => \E i \in At(x) : W[i].op = "ST"
  BY <1>1, <1>2, EventsAreNoted
<1>6. ASSUME NEW m
      PROVE  Cardinality({W[i].tid : i \in At(m)}) > 1
               <=> \E i, j \in At(m) : W[i].tid # W[j].tid
  <2>1. PICK P \in SUBSET (1..n) : P = At(m)
    OBVIOUS
  <2>2. IsFiniteSet(TidsAt(W, P))
    BY TidsFinite
  <2>3. Cardinality(TidsAt(W, P)) > 1 <=> \E a, b \in TidsAt(W, P) : a # b
    BY ONLY <2>2, MoreThanOne
  <2>4. TidsAt(W, P) = {W[i].tid : i \in At(m)}
    BY <2>1 DEF TidsAt
  <2> HIDE DEF At
  <2>5. (\E a, b \in TidsAt(W, P) : a # b) <=> \E i, j \in At(m) : W[i].tid # W[j].tid
    BY <2>4
  <2> QED BY <2>3, <2>4, <2>5
<1>7. ASSUME NEW m
      PROVE  (\E i, j \in At(m) : W[i].tid # W[j].tid) /\ (\E i \in At(m) : W[i].op = "ST")
               <=> m \in Vars /\ Contended(m) /\ Written(m)
  <2>1. ASSUME NEW i \in At(m), NEW j \in At(m), W[i].tid # W[j].tid
        PROVE  m \in Vars /\ Contended(m)
    <3>1. \A k \in At(m) : W[k].tid \in Threads /\ m \in Vars /\ AccessedBy(W[k].tid, m)
      BY <1>5
    <3> HIDE DEF At
    <3> QED BY <2>1, <3>1 DEF Contended
  <2>2. ASSUME Contended(m) PROVE \E i, j \in At(m) : W[i].tid # W[j].tid
    <3>1. PICK t \in Threads, u \in Threads : t # u /\ AccessedBy(t, m) /\ AccessedBy(u, m)
      BY <2>2 DEF Contended
    <3>2. PICK i \in At(m), j \in At(m) : W[i].tid = t /\ W[j].tid = u
      <4>1. \A v : AccessedBy(v, m) => \E i \in At(m) : W[i].tid = v
        BY <1>5
      <4> HIDE DEF At
      <4> QED BY <3>1, <4>1
    <3> QED BY <3>1, <3>2
  <2>3. (\E i \in At(m) : W[i].op = "ST") => Written(m)
    BY <1>5
  <2>4. Written(m) => \E i \in At(m) : W[i].op = "ST"
    BY <1>5
  <2> QED BY <2>1, <2>2, <2>3, <2>4
<1> QED BY <1>4, <1>6, <1>7

LEMMA OnlyUncleanStop == LoadAssumption /\ LoadInv => CleanTracesPass
<1> SUFFICES ASSUME LoadAssumption, LoadInv PROVE CleanTracesPass
  OBVIOUS
<1>1. WholeFile \in Seq(LoadedEvent)
  BY WholeType DEF LoadInv, LoadTypeOK
<1>4. stage = "assert event" => MixedAddress
  <2> SUFFICES ASSUME stage = "assert event" PROVE MixedAddress
    OBVIOUS
  <2>1. ~Reading
    BY DEF Reading
  <2>2. PICK f : Embeds(f, tot, WholeFile, Kept)
    BY <2>1, LeftOver
  <2>3. PICK i \in 1..Len(tot) : IsAccess(tot[i]) /\ tot[i].obj \in syncVars
    BY DEF LoadInv, TraceTells
  <2>4. f[i] \in Kept /\ tot[i] = WholeFile[f[i]]
    BY <2>2 DEF Embeds
  <2>5. \E m \in syncVars : m \in shared
    BY <2>3, <2>4 DEF Kept
  <2>6. shared \subseteq Vars /\ \A x \in Vars : x \in shared <=> Contended(x) /\ Written(x)
    BY <2>1 DEF LoadInv, FilterTells, LoadTypeOK
  <2> QED BY <1>1, <2>5, <2>6, MixedIsShared
<1>5. stage = "assert length" => \E i \in 1..Len(file) : IsAccess(file[i]) /\ ~(file[i].len > 0)
  <2>1. LengthsTell
    BY ONLY LoadInv DEF LoadInv
  <2>2. \A x : x = 0 => ~(x > 0)
    OBVIOUS
  <2> SUFFICES ASSUME stage = "assert length"
               PROVE  \E i \in 1..Len(file) : IsAccess(file[i]) /\ ~(file[i].len > 0)
    OBVIOUS
  <2>3. PICK i \in 1..Len(file) : IsAccess(file[i]) /\ file[i].len = 0
    BY ONLY <2>1, stage = "assert length" DEF LengthsTell
  <2> QED BY ONLY <2>2, <2>3
<1>6. stage = "assert threads" => Cardinality({file[i].tid : i \in 1..Len(file)}) >= MaxThread
  <2> SUFFICES ASSUME stage = "assert threads"
               PROVE  Cardinality({file[i].tid : i \in 1..Len(file)}) >= MaxThread
    OBVIOUS
  <2>1. file \in Seq(FileEvent)
    BY ONLY LoadInv DEF LoadInv, LoadTypeOK
  <2>2. PICK n \in Nat : n = Len(file)
    BY ONLY <2>1
  <2>3. PICK S : S = TidsAt(file, 1..n)
    OBVIOUS
  <2>4. IsFiniteSet(S)
    <3>1. 1..n \in SUBSET (1..n)
      OBVIOUS
    <3>2. IsFiniteSet(TidsAt(file, 1..n))
      BY <3>1, TidsFinite
    <3> QED BY <2>3, <3>2
  <2>5. ThreadsTell
    BY ONLY LoadInv DEF LoadInv
  <2>6. PICK L \in SUBSET S : L = {t \in Threads : lists[t] # <<>>}
    BY ONLY <2>2, <2>3, <2>5 DEF ThreadsTell, HasEvents, TidsAt
  <2>7. NrThread <= Cardinality(S) /\ NrThread \in Nat /\ Cardinality(S) \in Nat
    <3>1. IsFiniteSet(L) /\ Cardinality(L) <= Cardinality(S)
      BY ONLY <2>4, L \in SUBSET S, FS_Subset
    <3> QED BY ONLY <2>4, <2>6, <3>1, FS_CardinalityType DEF NrThread
  <2>8. ~(NrThread < MaxThread)
    BY ONLY <2>5, stage = "assert threads" DEF ThreadsTell
  <2>9. S = {file[i].tid : i \in 1..Len(file)}
    BY ONLY <2>2, <2>3 DEF TidsAt
  <2> QED BY ONLY <2>7, <2>8, <2>9, LoadAssumption DEF LoadAssumption
<1>7. CASE Clean
  <2>1. file \in Seq(FileEvent)
    BY ONLY LoadInv DEF LoadInv, LoadTypeOK
  <2>2. PICK c \in Nat : c = Cardinality({file[i].tid : i \in 1..Len(file)})
    <3>1. PICK n \in Nat : n = Len(file)
      BY ONLY <2>1
    <3>2. IsFiniteSet(TidsAt(file, 1..n))
      <4>1. 1..n \in SUBSET (1..n)
        OBVIOUS
      <4> QED BY <4>1, TidsFinite
    <3>3. Cardinality(TidsAt(file, 1..n)) \in Nat
      BY ONLY <3>2, FS_CardinalityType
    <3> QED BY ONLY <3>1, <3>3 DEF TidsAt
  <2>3. stage # "assert threads"
    <3>1. c < MaxThread
      BY ONLY <1>7, <2>2 DEF Clean
    <3>2. stage = "assert threads" => c >= MaxThread
      BY ONLY <1>6, <2>2
    <3>3. MaxThread \in Nat
      BY LoadAssumption DEF LoadAssumption
    <3>4. ~(c < MaxThread /\ c >= MaxThread)
      BY ONLY <3>3, c \in Nat
    <3> QED BY ONLY <3>1, <3>2, <3>4
  <2> QED BY <1>4, <1>5, <1>7, <2>3 DEF Clean, CleanTracesPass
<1> QED BY <1>7 DEF CleanTracesPass

\* Of files of any length, with any threads and addresses, the program refuses
\* those only that have an empty access, an address that two threads use and one
\* writes and that is one of sync operations too, or MAX_THREAD threads.
THEOREM CleanTracesPassHolds == LoadSpec => []CleanTracesPass
<1>1. LoadInit => LoadInv /\ TypeOK
  BY LoadAssumption, LoadInvInit, TypeInit DEF LoadInit
<1>2. LoadInv /\ TypeOK /\ [LoadNext]_loadVars => (LoadInv /\ TypeOK)'
  BY LoadAssumption, LoadStep, TypeNext
<1>3. LoadInv => CleanTracesPass
  BY LoadAssumption, OnlyUncleanStop
<1> QED BY <1>1, <1>2, <1>3, PTL DEF LoadSpec

---------------------------------------------------------------------------
(* The order of a trace.                                                   *)

HistoryCloses == Closes(past, DirectOf(trace), Len(trace))

LEMMA HistoryNext ==
  ASSUME TypeOK, OwnTickLeads, HistoryCloses, [Next]_vars
  PROVE  HistoryCloses'
<1>1. CASE UNCHANGED vars
  <2>1. trace' = trace /\ past' = past
    BY <1>1 DEF vars, historyVars
  <2> QED BY ONLY <2>1, HistoryCloses DEF HistoryCloses, Closes, DirectOf
<1>2. CASE Next
  <2>1. PICK e, c : Tells(e, c)
    BY <1>2, NextTells
  <2>2. e \in EventType /\ c \in Clock /\ Record(e, c)
    BY <2>1 DEF Tells, Handles
  <2>3. PICK n \in Nat : n = Len(trace)
    BY <2>2, RecordAppends
  <2>4. /\ Len(trace') = n + 1
        /\ \A i \in 1..n : trace'[i] = trace[i] /\ past'[i] = past[i]
        /\ trace'[n + 1] = e /\ past'[n + 1] = PastOf(trace, past, e)
    BY <2>2, <2>3, RecordAppends DEF Positions
  <2>5. PICK d : d = DirectOf(trace')
    OBVIOUS
  <2>6. \A j \in 1..(n + 1) : d[j] = {i \in 1..(j - 1) : Precedes(trace'[i], trace'[j])}
    BY <2>4, <2>5 DEF DirectOf
  <2>7. ASSUME NEW j \in 1..n PROVE past'[j] = d[j] \union UNION {past'[i] : i \in d[j]}
    <3>1. d[j] = DirectOf(trace)[j]
      BY <2>3, <2>4, <2>6 DEF DirectOf
    <3>2. past[j] = d[j] \union UNION {past[i] : i \in d[j]}
      BY <2>3, <3>1 DEF HistoryCloses, Closes
    <3>3. d[j] \subseteq 1..n
      BY <2>6
    <3>4. {past'[i] : i \in d[j]} = {past[i] : i \in d[j]}
      BY <2>4, <3>3
    <3> QED BY <2>4, <3>2, <3>4
  <2>8. past'[n + 1] = d[n + 1] \union UNION {past'[i] : i \in d[n + 1]}
    <3>1. d[n + 1] = {i \in 1..n : Precedes(trace[i], e)}
      BY <2>4, <2>6
    <3>2. {past'[i] : i \in d[n + 1]} = {past[i] : i \in d[n + 1]}
      BY <2>4, <3>1
    <3>3. past'[n + 1] = d[n + 1] \union UNION {past[i] : i \in d[n + 1]}
      BY <2>3, <2>4, <3>1 DEF PastOf
    <3> QED BY <3>2, <3>3
  <2>9. \A j \in 1..(n + 1) : past'[j] = d[j] \union UNION {past'[i] : i \in d[j]}
    <3>1. \A j \in 1..(n + 1) : j \in 1..n \/ j = n + 1
      OBVIOUS
    <3> QED BY <2>7, <2>8, <3>1
  <2> QED BY <2>4, <2>5, <2>9 DEF HistoryCloses, Closes
<1> QED BY <1>1, <1>2

LEMMA HistoryInit == Init => HistoryCloses
BY DEF Init, HistoryCloses, Closes

\* What the order of a trace is, whether step by step or all at once.
HistoryTells == \A j \in Positions : past[j] = Pasts(trace, Precedes)[j]

LEMMA HistoryAgrees == TypeOK /\ HistoryCloses => HistoryTells
<1> SUFFICES ASSUME TypeOK, HistoryCloses PROVE HistoryTells
  OBVIOUS
<1>1. PICK n \in Nat : n = Len(trace)
  BY DEF TypeOK
<1>2. Backward(DirectOf(trace), n) /\ Closes(Pasts(trace, Precedes), DirectOf(trace), n)
  BY <1>1, PastsClose
<1>3. Closes(past, DirectOf(trace), n)
  BY <1>1 DEF HistoryCloses
<1>4. \A j \in 1..n : past[j] = Pasts(trace, Precedes)[j]
  BY <1>2, <1>3, ClosureUnique
<1> QED BY <1>1, <1>4 DEF HistoryTells, Positions

\* The history the detector is measured against is the happens-before order of
\* the trace as HappensBefore defines it for a whole trace, without clocks:
\* what is shown of races by their past holds for the closure of Precedes.
THEOREM HistoryIsOrder == Spec => []HistoryTells
<1>1. Init => TypeOK /\ OwnTickLeads /\ HistoryCloses
  BY TypeInit, LeadsInit, HistoryInit
<1>2. TypeOK /\ OwnTickLeads /\ HistoryCloses /\ [Next]_vars
        => (TypeOK /\ OwnTickLeads /\ HistoryCloses)'
  BY TypeNext, LeadsNext, HistoryNext
<1>3. TypeOK /\ HistoryCloses => HistoryTells
  BY HistoryAgrees
<1> QED BY <1>1, <1>2, <1>3, PTL DEF Spec

---------------------------------------------------------------------------
(* No race is thrown away.                                                 *)

\* What the detector reports on is what is racy in its trace.
LEMMA RacesOfTrace ==
  ASSUME TypeOK, ClockInv, RacyVarsReported, HistoryTells
  PROVE  {trace[r[1]].obj : r \in races} = RacyVars(trace)
<1>1. PICK n \in Nat : n = Len(trace)
  BY DEF TypeOK
<1>2. Positions = 1..n
  BY <1>1 DEF Positions
<1>3. PICK p : p = Pasts(trace, Precedes) /\ \A k \in 1..n : past[k] = p[k]
  BY <1>2 DEF HistoryTells
<1>4. \A x : x \in RacyVars(trace) <=>
        \E k \in 1..n : x = trace[k].obj
          /\ \E i \in 1..(k - 1) : i \notin p[k] /\ Conflict(trace[i], trace[k])
  BY <1>1, <1>3 DEF RacyVars
<1>5. ASSUME NEW r \in races PROVE trace[r[1]].obj \in RacyVars(trace)
  <2>1. PICK i \in 1..n, k \in 1..n : i = r[1] /\ k = r[2]
    BY <1>2 DEF TypeOK
  <2>2. i < k /\ Conflict(trace[i], trace[k])
    BY <2>1 DEF ClockInv, RacesConcurrent
  <2>3. i \notin past[k]
    BY <2>1, ConcurrentIsUnordered DEF RacesAreReal, Unordered
  <2>4. i \in 1..(k - 1) /\ i \notin p[k] /\ trace[i].obj = trace[k].obj
    BY <1>3, <2>2, <2>3 DEF Conflict
  <2> QED BY <1>4, <2>1, <2>2, <2>4
<1>6. ASSUME NEW x \in RacyVars(trace) PROVE \E r \in races : x = trace[r[1]].obj
  <2>1. PICK k \in 1..n : x = trace[k].obj
          /\ \E i \in 1..(k - 1) : i \notin p[k] /\ Conflict(trace[i], trace[k])
    BY <1>4
  <2>2. PICK i \in 1..(k - 1) : i \notin p[k] /\ Conflict(trace[i], trace[k])
    BY <2>1
  <2>3. i \in 1..n /\ i < k /\ i # k
    BY <2>1
  <2>4. i \notin past[k]
    BY <1>3, <2>2
  <2>5. k \notin past[i]
    <3>1. \A a \in past[i] : a < i
      BY <1>2, <2>3 DEF ClockInv, ClockCondition
    <3> QED BY <2>3, <3>1
  <2>6. Unordered(i, k)
    BY <2>4, <2>5 DEF Unordered
  <2>7. PICK r \in races : trace[r[1]].obj = trace[i].obj
    BY <1>2, <2>2, <2>3, <2>6 DEF RacyVarsReported
  <2>8. trace[i].obj = trace[k].obj
    BY <2>2 DEF Conflict
  <2> QED BY <2>1, <2>7, <2>8
<1> QED BY <1>5, <1>6

\* What conflicts between threads is kept.
LEMMA ConflictsAreKept ==
  ASSUME LoadAssumption, LoadInv, ~Reading, WholeFile \in Seq(LoadedEvent),
         NEW i \in 1..Len(WholeFile), NEW k \in 1..Len(WholeFile),
         Conflict(WholeFile[i], WholeFile[k]), WholeFile[i].tid # WholeFile[k].tid
  PROVE  i \in Kept /\ k \in Kept
<1>1. PICK x : x = WholeFile[i].obj /\ x = WholeFile[k].obj
  BY DEF Conflict
<1>2. IsAccess(WholeFile[i]) /\ IsAccess(WholeFile[k])
  BY DEF Conflict, IsAccess
<1>3. WholeFile[i].op = "ST" \/ WholeFile[k].op = "ST"
  BY DEF Conflict
<1>4. \A j \in 1..Len(WholeFile) : IsAccess(WholeFile[j]) =>
        WholeFile[j].tid \in Threads /\ AccessedBy(WholeFile[j].tid, WholeFile[j].obj)
  BY EventsAreNoted
<1>5. /\ WholeFile[i].tid \in Threads /\ AccessedBy(WholeFile[i].tid, x)
      /\ WholeFile[k].tid \in Threads /\ AccessedBy(WholeFile[k].tid, x)
  BY <1>1, <1>2, <1>4
<1>6. Contended(x)
  BY ONLY <1>5, WholeFile[i].tid # WholeFile[k].tid DEF Contended
<1>7. x \in Vars /\ Written(x)
  BY <1>1, <1>2, <1>3, EventsAreNoted
<1>8. x \in shared
  BY <1>6, <1>7 DEF LoadInv, FilterTells
<1> QED BY <1>1, <1>8 DEF Kept

LEMMA NothingIsLost ==
  ASSUME LoadAssumption, LoadInv, TypeOK, ClockInv, RacyVarsReported, HistoryTells
  PROVE  FilterLosesNoRace
<1> SUFFICES ASSUME stage = "done"
             PROVE  {trace[r[1]].obj : r \in races} = RacyVars(WholeFile)
  BY DEF FilterLosesNoRace
<1>1. ~Reading
  BY DEF Reading
<1>2. PICK W \in Seq(LoadedEvent) : W = WholeFile
  BY <1>1, LeftOver
<1>3. PICK n \in Nat : n = Len(W)
  OBVIOUS
<1>4. PICK m \in Nat : m = Len(trace)
  BY DEF TypeOK
<1>5. PICK S \in SUBSET (1..n) : S = Kept
  BY <1>2, <1>3 DEF Kept
<1>6. PICK f : Embeds(f, tot, W, S)
  BY <1>1, <1>2, <1>5, LeftOver
<1>7. TraceTells
  BY DEF LoadInv
<1>8. Len(tot) = m /\ \A i \in 1..m : trace[i] = tot[i]
  BY <1>4, <1>7 DEF TraceTells
<1>9. Embeds(f, trace, W, S)
  BY ONLY <1>4, <1>6, <1>8 DEF Embeds
<1>10. \A k \in (1..n) \ S : IsAccess(W[k])
  BY <1>2, <1>3, <1>5 DEF Kept
<1>11. Thins(f, trace, W, S)
  BY <1>3, <1>9, <1>10 DEF Thins
<1>12. \A i, k \in 1..n : Conflict(W[i], W[k]) /\ W[i].tid # W[k].tid => i \in S /\ k \in S
  BY <1>1, <1>2, <1>3, <1>5, ConflictsAreKept
<1>13. RacyVars(trace) = RacyVars(W)
  BY <1>3, <1>4, <1>11, <1>12, RacyVarsAgree
<1> QED BY <1>2, <1>13, RacesOfTrace

\* For files of any length: throwing accesses away while loading changes no
\* result.  When the program gets through, it reports races on exactly the
\* variables that are racy in the whole file, arrays element by element.
THEOREM FilterKeepsRaces == LoadSpec => []FilterLosesNoRace
<1>1. LoadInit => LoadInv /\ DetectInv /\ HistoryCloses
  BY LoadAssumption, LoadInvInit, DetectInit, HistoryInit DEF LoadInit
<1>2. LoadInv /\ DetectInv /\ HistoryCloses /\ [LoadNext]_loadVars
        => (LoadInv /\ DetectInv /\ HistoryCloses)'
  BY LoadAssumption, LoadStep, DetectNext, HistoryNext DEF DetectInv
<1>3. LoadInv /\ DetectInv /\ HistoryCloses => FilterLosesNoRace
  BY LoadAssumption, HistoryAgrees, NothingIsLost DEF DetectInv, ReportInv
<1> QED BY <1>1, <1>2, <1>3, PTL DEF LoadSpec

============================================================================
