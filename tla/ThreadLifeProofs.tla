-------------------------- MODULE ThreadLifeProofs --------------------------
(***************************************************************************)
(* Proofs about ThreadLife: ids, lookups and the order of the thread       *)
(* events in the log, for any number of threads.                           *)
(***************************************************************************)
EXTENDS ThreadLife, TLAPS

Named(t) == pc[t] \notin {"new", "born"}

\* Who has which id.  Without reuse an id is never given twice.
NameInv ==
  /\ \A t \in Threads : myTid[t] # NoTid <=> Named(t)
  /\ \A t \in Threads : Named(t) => myTid[t] < tidCounter
  /\ abort = "no" => tidCounter <= MaxThread
  /\ \A t \in Threads : abort = "no" /\ Running(t) => alive[myTid[t]]
  /\ IdsAreDistinct
  /\ ~config.reuse =>
       \A t, u \in Threads : t # u /\ Named(t) /\ Named(u) => myTid[t] # myTid[u]

Joining(t) == pc[t] \in {"found", "joining", "joined"}
\* The thread's handle is its own.
Holds(t) == pc[t] # "new" /\ ~Gone(t)

\* The table is right for every handle in use.
TableInv ==
  /\ \A t, u \in Threads : t # u /\ Holds(t) /\ Holds(u) => handle[t] # handle[u]
  /\ \A t \in Threads : Named(t) /\ ~Gone(t) => idTable[handle[t]] = myTid[t]
  /\ \A t \in Threads : pack[t] # NoTid =>
       pack[t] = myTid[t] /\ pc[t] \notin {"new", "born", "named"}
  /\ \A t \in shared : Named(t)
  /\ joined \subseteq shared /\ reaped \subseteq joined
  /\ \A t \in Threads : Joining(t) =>
       /\ target[t] \in joined /\ ~detached[target[t]]
       /\ pc[t] # "joined" => target[t] \notin reaped
       /\ pc[t] = "joined" => pc[target[t]] = "dead"
       /\ \A u \in Threads \ {t} : Joining(u) => target[u] # target[t]
  /\ LookupIsRight

\* t is waiting for its new thread c.
Creating(t, c) == pc[t] = "spin" /\ target[t] = c

\* Nothing is logged while ids are reused, so an id in the log has been given
\* to one thread only.
LogIds ==
  /\ log # <<>> => ~config.reuse
  /\ \A i \in 1..Len(log) :
       /\ log[i].tid < tidCounter
       /\ log[i].op = "CREATE" /\ log[i].obj # NoTid => log[i].obj < tidCounter

\* A new thread has one creator.
Creators ==
  /\ \A t, u, c \in Threads : Creating(t, c) /\ Creating(u, c) => t = u
  /\ \A t, c \in Threads : Creating(t, c) => pc[c] # "new"

\* An open batch is an empty slot of the thread's own.
Batches ==
  \A t \in Threads : batch[t] # 0 =>
    /\ batch[t] \in 1..Len(log) /\ started
    /\ log[batch[t]].op = "CREATE" /\ log[batch[t]].obj = NoTid
    /\ log[batch[t]].tid = myTid[t]
    /\ pc[t] \in {"spawn", "spin"} \/ finished

\* Whatever the log says of a thread comes after the batch its creator has
\* open for it.
Births ==
  \A t, c \in Threads : Creating(t, c) /\ Named(c) =>
    \A i \in 1..Len(log) :
      /\ log[i].tid = myTid[c] \/ (log[i].op = "JOIN" /\ log[i].obj = myTid[c])
           => batch[t] < i
      /\ ~(log[i].op = "CREATE" /\ log[i].obj = myTid[c])

\* A JOIN is about a thread that is dead and that nobody is joining any more.
Joins ==
  \A i \in 1..Len(log) : log[i].op = "JOIN" =>
    \E c \in joined : /\ log[i].obj = myTid[c] /\ pc[c] = "dead"
                      /\ \A t \in Threads : Joining(t) => target[t] # c

\* What the log says of the threads that are being created and joined.
LogInv ==
  /\ LogIds
  /\ Creators
  /\ Batches
  /\ Births
  /\ Joins
  /\ TraceTellsLives

\* The type invariant, step by step.
LEMMA TypeStep == TypeOK /\ NameInv /\ TableInv /\ [Next]_vars => TypeOK'
<1> SUFFICES ASSUME TypeOK, NameInv, TableInv, [Next]_vars
             PROVE  TypeOK'
  OBVIOUS
<1>0. \A e \in LogEvent : Append(log, e) \in Seq(LogEvent)
  BY DEF TypeOK
<1>1. ASSUME NEW t \in Threads, Register(t), abort = "no"
      PROVE  TypeOK'
  <2>1. PICK i \in 0..tidCounter :
          /\ TakeTid(t, i)
          /\ IF i < MaxThread
               THEN alive' = [alive EXCEPT ![i] = TRUE] /\ UNCHANGED abort
               ELSE abort' = "range" /\ UNCHANGED alive
    BY <1>1 DEF Register
  <2>2. i \in Tids /\ tidCounter + 1 \in 1..(MaxThread + 1)
    BY <1>1, ThreadLifeAssumption DEF TypeOK, NameInv, ThreadLifeAssumption, Tids
  <2>3. \A u \in Threads : abort' = "no" /\ myTid'[u] # NoTid => myTid'[u] < MaxThread
    BY <1>1, <2>1 DEF TypeOK, TakeTid
  <2> QED
    BY <1>1, <2>1, <2>2, <2>3 DEF TakeTid, TypeOK, Places, systemVars, callVars, logVars, controlVars
<1>2. ASSUME NEW t \in Threads, StorePack(t), abort = "no"
      PROVE  TypeOK'
  BY <1>2 DEF StorePack, TypeOK, Places, registryVars, logVars, controlVars
<1>3. ASSUME NEW t \in Threads, BeginCreate(t), abort = "no"
      PROVE  TypeOK'
  <2>1. ThreadEvent("CREATE", t, NoTid) \in LogEvent
    BY <1>3 DEF BeginCreate, ThreadEvent, NameInv, Named, TypeOK, LogEvent
  <2>2. log' \in Seq(LogEvent)
    <3>1. log' = log \/ log' = Append(log, ThreadEvent("CREATE", t, NoTid))
      BY <1>3 DEF BeginCreate, LogNext
    <3>2. log \in Seq(LogEvent)
      BY DEF TypeOK
    <3> QED
      BY <1>0, <2>1, <3>1, <3>2
  <2> QED
    BY <1>3, <2>2 DEF BeginCreate, TypeOK, Places, systemVars, registryVars, callVars
<1>4. ASSUME NEW t \in Threads, NEW c \in Threads, NEW h \in Handles, Spawn(t, c, h), abort = "no"
      PROVE  TypeOK'
  BY <1>4 DEF Spawn, TypeOK, Places, registryVars, logVars, controlVars
<1>5. ASSUME NEW t \in Threads, SpawnFails(t), abort = "no"
      PROVE  TypeOK'
  BY <1>5 DEF SpawnFails, TypeOK, Places, systemVars, registryVars, logVars, controlVars
<1>6. ASSUME NEW t \in Threads, AfterCreate(t), abort = "no"
      PROVE  TypeOK'
  <2>1. pack[target[t]] \in Tids \union {NoTid}
    BY <1>6 DEF AfterCreate, TypeOK
  <2>2. ASSUME NEW k \in Nat, NEW o \in Tids \union {NoTid}
        PROVE  [log EXCEPT ![k].obj = o] \in Seq(LogEvent)
    <3>1. log \in Seq(LogEvent)
      BY DEF TypeOK
    <3>2. \A e \in LogEvent : [e EXCEPT !.obj = o] \in LogEvent
      BY DEF LogEvent
    <3>3. Len(log) \in Nat /\ log \in [1..Len(log) -> LogEvent]
      BY <3>1
    <3> DEFINE l == [log EXCEPT ![k].obj = o]
    <3>4. l \in [1..Len(log) -> LogEvent]
      BY <3>2, <3>3
    <3> HIDE DEF l
    <3>5. l \in Seq(LogEvent)
      BY <3>3, <3>4
    <3> QED
      BY <3>5 DEF l
  <2>3. log' \in Seq(LogEvent)
    <3>1. \/ log' = log
          \/ log' = [log EXCEPT ![batch[t]].obj = pack[target[t]]]
      BY <1>6 DEF AfterCreate, logVars
    <3>2. batch[t] \in Nat /\ log \in Seq(LogEvent)
      BY DEF TypeOK
    <3> QED
      BY <2>1, <2>2, <3>1, <3>2
  <2>4. /\ UNCHANGED <<config, handle, detached, reaped, joined, myTid, tidCounter,
                       idTable, alive, target, remote, pack, started, finished,
                       abort>>
        /\ pc' \in [Threads -> Places] /\ shared' \subseteq Threads
    BY <1>6 DEF AfterCreate, registryVars, callVars, controlVars, TypeOK, Places
  <2>5. batch' \in [Threads -> Nat]
    <3>1. batch' = batch \/ batch' = [batch EXCEPT ![t] = 0]
      BY <1>6 DEF AfterCreate, logVars
    <3> QED
      BY <3>1 DEF TypeOK
  <2> QED
    BY <2>3, <2>4, <2>5 DEF TypeOK
<1>7. ASSUME NEW t \in Threads, NEW c \in Threads, FindTid(t, c), abort = "no"
      PROVE  TypeOK'
  BY <1>7 DEF FindTid, TypeOK, Places, registryVars, logVars, controlVars
<1>8. ASSUME NEW t \in Threads, ReadTid(t), abort = "no"
      PROVE  TypeOK'
  <2>1. target[t] \in Threads
    BY <1>8 DEF ReadTid, TableInv, Joining, TypeOK
  <2> QED
    BY <1>8, <2>1 DEF ReadTid, TypeOK, Places, systemVars, registryVars, logVars, controlVars
<1>9. ASSUME NEW t \in Threads, JoinReturns(t), abort = "no"
      PROVE  TypeOK'
  <2>1. target[t] \in Threads
    BY <1>9 DEF JoinReturns, TableInv, Joining, TypeOK
  <2> QED
    BY <1>9, <2>1 DEF JoinReturns, TypeOK, Places, registryVars, callVars, logVars, controlVars
<1>10. ASSUME NEW t \in Threads, AfterJoin(t), abort = "no"
      PROVE  TypeOK'
  <2>1. ThreadEvent("JOIN", t, remote[t]) \in LogEvent
    BY <1>10 DEF AfterJoin, ThreadEvent, NameInv, Named, TypeOK, LogEvent
  <2>2. log' \in Seq(LogEvent)
    <3>1. log' = log \/ log' = Append(log, ThreadEvent("JOIN", t, remote[t]))
      BY <1>10 DEF AfterJoin, LogNext
    <3>2. log \in Seq(LogEvent)
      BY DEF TypeOK
    <3> QED
      BY <1>0, <2>1, <3>1, <3>2
  <2> QED
    BY <1>10, <2>2 DEF AfterJoin, TypeOK, Places, systemVars, registryVars, callVars, controlVars
<1>11. ASSUME NEW t \in Threads, Access(t), abort = "no"
      PROVE  TypeOK'
  <2>1. ThreadEvent("ACCESS", t, NoTid) \in LogEvent
    BY <1>11 DEF Access, ThreadEvent, NameInv, Named, TypeOK, LogEvent
  <2>2. log' \in Seq(LogEvent)
    <3>1. log' = log \/ log' = Append(log, ThreadEvent("ACCESS", t, NoTid))
      BY <1>11 DEF Access, LogNext
    <3>2. log \in Seq(LogEvent)
      BY DEF TypeOK
    <3> QED
      BY <1>0, <2>1, <3>1, <3>2
  <2> QED
    BY <1>11, <2>2 DEF Access, TypeOK, Places, systemVars, registryVars, callVars, controlVars
<1>12. ASSUME NEW t \in Threads, Return(t), abort = "no"
      PROVE  TypeOK'
  BY <1>12 DEF Return, TypeOK, Places, systemVars, callVars, logVars, controlVars
<1>13. ASSUME NEW t \in Threads, Die(t), abort = "no"
      PROVE  TypeOK'
  BY <1>13 DEF Die, TypeOK, Places, systemVars, registryVars, callVars, logVars, controlVars
<1>14. ASSUME NEW t \in Threads, Exit(t), abort = "no"
      PROVE  TypeOK'
  BY <1>14 DEF Exit, TypeOK, Places, systemVars, registryVars, callVars, logVars
<1>15. CASE UNCHANGED vars
  BY <1>15 DEF vars, systemVars, registryVars, callVars, logVars, controlVars, TypeOK
<1> QED
  BY <1>1, <1>2, <1>3, <1>4, <1>5, <1>6, <1>7,
     <1>8, <1>9, <1>10, <1>11, <1>12, <1>13, <1>14, <1>15
  DEF Next, ThreadStep

\* Whoever changes neither the registry nor who is named keeps the names.
LEMMA NamesKept ==
  ASSUME NameInv, abort = "no", UNCHANGED <<config, myTid, tidCounter, alive>>,
         \A u \in Threads : Named(u)' = Named(u) /\ (Running(u)' => Running(u))
  PROVE  NameInv'
BY DEF NameInv, IdsAreDistinct

LEMMA NameStep == TypeOK /\ NameInv /\ [Next]_vars => NameInv'
<1> SUFFICES ASSUME TypeOK, NameInv, [Next]_vars
             PROVE  NameInv'
  OBVIOUS
<1>1. ASSUME NEW t \in Threads, Register(t), abort = "no"
      PROVE  NameInv'
  <2>1. PICK i \in 0..tidCounter :
          /\ TakeTid(t, i)
          /\ IF i < MaxThread
               THEN alive' = [alive EXCEPT ![i] = TRUE] /\ UNCHANGED abort
               ELSE abort' = "range" /\ UNCHANGED alive
    BY <1>1 DEF Register
  <2>2. /\ pc[t] = "born" /\ pc' = [pc EXCEPT ![t] = "named"]
        /\ myTid' = [myTid EXCEPT ![t] = i]
        /\ tidCounter' = IF i = tidCounter THEN tidCounter + 1 ELSE tidCounter
        /\ config' = config /\ Chosen(i)
    BY <1>1, <2>1 DEF Register, TakeTid
  <2>3. /\ i \in Nat /\ tidCounter \in Nat /\ tidCounter <= MaxThread
        /\ MaxThread \in Nat /\ i <= tidCounter /\ i # NoTid
    BY <1>1, ThreadLifeAssumption DEF NameInv, TypeOK, ThreadLifeAssumption
  <2>4. /\ pc'[t] = "named" /\ myTid'[t] = i
        /\ \A u \in Threads \ {t} : pc'[u] = pc[u] /\ myTid'[u] = myTid[u]
    BY <2>2 DEF TypeOK
  <2>5. \/ i = tidCounter
        \/ config.reuse /\ i < MaxThread /\ ~alive[i] /\ i < tidCounter
    BY <2>2, <2>3 DEF Chosen, Abandoned
  <2>6. \A u \in Threads \ {t} : Named(u) =>
          /\ myTid[u] \in Nat /\ myTid[u] < tidCounter
          /\ ~config.reuse => myTid[u] # i
    <3>1. \A u \in Threads : Named(u) => myTid[u] \in Nat /\ myTid[u] < tidCounter
      BY ThreadLifeAssumption DEF NameInv, TypeOK, ThreadLifeAssumption, Tids
    <3> QED
      BY <2>5, <3>1
  <2>7. \A u \in Threads \ {t} : Running(u) => alive[myTid[u]] /\ Named(u)
    BY <1>1 DEF NameInv, Running, Named
  <2>8. \A u \in Threads \ {t} : Running(u) => myTid[u] # i
    BY <2>3, <2>5, <2>6, <2>7
  <2>9. \A u \in Threads : /\ myTid'[u] # NoTid <=> Named(u)'
                           /\ Named(u)' => myTid'[u] < tidCounter'
    BY <2>2, <2>3, <2>4, <2>5, <2>6 DEF NameInv, Named
  <2>10. abort' = "no" => tidCounter' <= MaxThread
    BY <1>1, <2>1, <2>2, <2>3
  <2>11. \A u \in Threads : abort' = "no" /\ Running(u)' => alive'[myTid'[u]]
    <3>1. ASSUME abort' = "no"
          PROVE  i < MaxThread /\ alive' = [alive EXCEPT ![i] = TRUE]
      BY <2>1, <3>1
    <3>2. \A u \in Threads \ {t} : Running(u)' => Running(u)
      BY <2>4 DEF Running
    <3>3. DOMAIN alive = 0..(MaxThread - 1)
      BY DEF TypeOK
    <3>4. ASSUME NEW u \in Threads, abort' = "no", Running(u)'
          PROVE  alive'[myTid'[u]]
      <4>1. CASE u = t
        <5>1. i \in DOMAIN alive
          BY <2>3, <3>1, <3>3, <3>4
        <5>2. alive' = [alive EXCEPT ![i] = TRUE]
          BY <3>1, <3>4
        <5>3. alive'[i]
          BY <5>1, <5>2
        <5>4. myTid'[u] = i
          BY <2>4, <4>1
        <5> QED
          BY <5>3, <5>4
      <4>2. CASE u # t
        <5>1. /\ Running(u) /\ alive[myTid[u]] /\ myTid[u] # i
              /\ myTid'[u] = myTid[u]
          BY <2>4, <2>7, <2>8, <3>2, <3>4, <4>2
        <5>2. alive' = [alive EXCEPT ![i] = TRUE]
          BY <3>1, <3>4
        <5>3. myTid[u] \in 0..(MaxThread - 1)
          BY <1>1, <2>6, <2>7, <4>2, <5>1, ThreadLifeAssumption
          DEF TypeOK, ThreadLifeAssumption, NameInv, Named
        <5>4. alive'[myTid[u]] = alive[myTid[u]]
          BY <3>3, <5>1, <5>2, <5>3
        <5> QED
          BY <5>1, <5>4
      <4> QED
        BY <4>1, <4>2
    <3> QED
      BY <3>4
  <2>12. IdsAreDistinct'
    BY <2>4, <2>8 DEF NameInv, IdsAreDistinct, Running
  <2>13. ~config'.reuse => \A u, v \in Threads :
           u # v /\ Named(u)' /\ Named(v)' => myTid'[u] # myTid'[v]
    <3>1. \A u \in Threads \ {t} : Named(u)' => Named(u)
      BY <2>4 DEF Named
    <3> QED
      BY <2>2, <2>4, <2>6, <3>1 DEF NameInv
  <2> QED
    BY <2>9, <2>10, <2>11, <2>12, <2>13 DEF NameInv
<1>2. ASSUME NEW t \in Threads, abort = "no",
             \/ StorePack(t) \/ BeginCreate(t) \/ SpawnFails(t) \/ AfterCreate(t)
             \/ \E c \in Threads : FindTid(t, c)
             \/ ReadTid(t) \/ JoinReturns(t) \/ AfterJoin(t) \/ Access(t) \/ Exit(t)
      PROVE  NameInv'
  <2>1. UNCHANGED <<config, myTid, tidCounter, alive>>
    BY <1>2 DEF StorePack, BeginCreate, SpawnFails, AfterCreate, FindTid, ReadTid,
                JoinReturns, AfterJoin, Access, Exit, registryVars
  <2>2. \E q \in Places \ {"new", "born", "leaving", "dead"} :
          pc' = [pc EXCEPT ![t] = q] /\ Running(t)
    BY <1>2 DEF StorePack, BeginCreate, SpawnFails, AfterCreate, FindTid, ReadTid,
                JoinReturns, AfterJoin, Access, Exit, Places, Running, TypeOK
  <2>3. \A u \in Threads : Named(u)' = Named(u) /\ (Running(u)' => Running(u))
    BY <2>2 DEF Named, Running, TypeOK
  <2> QED
    BY <1>2, <2>1, <2>3, NamesKept
<1>3. ASSUME NEW t \in Threads, abort = "no",
             Die(t) \/ \E c \in Threads, h \in Handles : Spawn(t, c, h)
      PROVE  NameInv'
  <2>1. UNCHANGED <<config, myTid, tidCounter, alive>>
    BY <1>3 DEF Die, Spawn, registryVars
  <2>2. \A u \in Threads : Named(u)' = Named(u) /\ (Running(u)' => Running(u))
    BY <1>3 DEF Die, Spawn, Named, Running, TypeOK
  <2> QED
    BY <1>3, <2>1, <2>2, NamesKept
<1>4. ASSUME NEW t \in Threads, Return(t), abort = "no"
      PROVE  NameInv'
  <2>1. /\ UNCHANGED <<config, myTid, tidCounter, abort>>
        /\ pc[t] = "run" /\ pc' = [pc EXCEPT ![t] = "leaving"]
        /\ alive' = [alive EXCEPT ![myTid[t]] = FALSE]
    BY <1>4 DEF Return
  <2>2. \A u \in Threads : Named(u)' = Named(u) /\ (Running(u)' => Running(u) /\ u # t)
    BY <2>1 DEF Named, Running, TypeOK
  <2>3. \A u \in Threads : Running(u)' => myTid[u] # myTid[t]
    BY <2>1, <2>2 DEF NameInv, IdsAreDistinct, Running
  <2>4. \A u \in Threads : Running(u)' => alive'[myTid[u]] = alive[myTid[u]]
    <3>1. \A u \in Threads : Running(u)' => myTid[u] \in 0..(MaxThread - 1)
      BY <1>4, <2>2, ThreadLifeAssumption
      DEF NameInv, Running, Named, TypeOK, ThreadLifeAssumption, Tids
    <3>2. DOMAIN alive = 0..(MaxThread - 1)
      BY DEF TypeOK
    <3> QED
      BY <2>1, <2>3, <3>1, <3>2
  <2> QED
    BY <1>4, <2>1, <2>2, <2>4 DEF NameInv, IdsAreDistinct
<1>5. CASE UNCHANGED vars
  BY <1>5 DEF vars, registryVars, NameInv, IdsAreDistinct, Named, Running
<1> QED
  BY <1>1, <1>2, <1>3, <1>4, <1>5 DEF Next, ThreadStep

\* Steps that leave the table and the joins alone.
LEMMA TableKept ==
  ASSUME TypeOK, TableInv,
         UNCHANGED <<handle, detached, reaped, joined, myTid, idTable, remote,
                     pack, abort>>,
         shared \subseteq shared', \A u \in shared' : Named(u)',
         \A u \in Threads :
           /\ Named(u)' = Named(u) /\ (pc'[u] = "new" <=> pc[u] = "new")
           /\ pc[u] = "dead" => pc'[u] = "dead"
           /\ pc'[u] = "named" => pc[u] = "named"
           /\ Joining(u)' => pc'[u] = pc[u] /\ target'[u] = target[u]
  PROVE  TableInv'
<1>1. \A u \in Threads : Gone(u) => Gone(u)'
  BY DEF Gone
<1>2. \A u \in Threads : Holds(u)' => Holds(u)
  BY <1>1 DEF Holds
<1>3. \A u \in Threads : Joining(u)' => Joining(u)
  BY DEF Joining
<1>4. joined \subseteq Threads
  BY DEF TypeOK
<1>5. ASSUME NEW u \in Threads, Joining(u)'
      PROVE  /\ target'[u] \in joined' /\ ~detached'[target'[u]]
             /\ pc'[u] # "joined" => target'[u] \notin reaped'
             /\ pc'[u] = "joined" => pc'[target'[u]] = "dead"
             /\ \A v \in Threads \ {u} : Joining(v)' => target'[v] # target'[u]
  <2>1. Joining(u) /\ pc'[u] = pc[u] /\ target'[u] = target[u]
    BY <1>3, <1>5
  <2>2. \A v \in Threads : Joining(v)' => target'[v] = target[v] /\ Joining(v)
    BY <1>3
  <2> QED
    BY <1>4, <2>1, <2>2 DEF TableInv
<1>6. LookupIsRight'
  <2>1. ASSUME NEW u \in Threads, pc'[u] \in {"joining", "joined"}
        PROVE  remote'[u] = myTid'[target'[u]]
    BY <2>1 DEF TableInv, LookupIsRight, Joining
  <2> QED
    BY <2>1 DEF TableInv, LookupIsRight
<1>7. \A u \in Threads : pack'[u] # NoTid =>
        pack'[u] = myTid'[u] /\ pc'[u] \notin {"new", "born", "named"}
  BY DEF TableInv, Named
<1>8. \A u, v \in Threads : u # v /\ Holds(u)' /\ Holds(v)' => handle'[u] # handle'[v]
  BY <1>2 DEF TableInv
<1>9. \A u \in Threads : Named(u)' /\ ~Gone(u)' => idTable'[handle'[u]] = myTid'[u]
  BY <1>1 DEF TableInv
<1>10. joined' \subseteq shared' /\ reaped' \subseteq joined'
  BY DEF TableInv
<1> QED
  BY <1>5, <1>6, <1>7, <1>8, <1>9, <1>10 DEF TableInv

LEMMA TableStep == TypeOK /\ NameInv /\ TableInv /\ [Next]_vars => TableInv'
<1> SUFFICES ASSUME TypeOK, NameInv, TableInv, [Next]_vars
             PROVE  TableInv'
  OBVIOUS
<1>0. joined \subseteq shared /\ shared \subseteq Threads /\ reaped \subseteq joined
  BY DEF TypeOK, TableInv
<1>1. ASSUME NEW t \in Threads, Register(t), abort = "no"
      PROVE  TableInv'
  <2>1. PICK i \in 0..tidCounter :
          /\ TakeTid(t, i)
          /\ IF i < MaxThread
               THEN alive' = [alive EXCEPT ![i] = TRUE] /\ UNCHANGED abort
               ELSE abort' = "range" /\ UNCHANGED alive
    BY <1>1 DEF Register
  <2>2. /\ pc[t] = "born" /\ pc' = [pc EXCEPT ![t] = "named"]
        /\ myTid' = [myTid EXCEPT ![t] = i]
        /\ idTable' = [idTable EXCEPT ![handle[t]] = i]
        /\ UNCHANGED <<handle, detached, reaped, shared, joined, target, remote, pack>>
        /\ abort' # "lookup"
    BY <1>1, <2>1 DEF Register, TakeTid, systemVars, callVars
  <2>3. /\ pc'[t] = "named" /\ myTid'[t] = i
        /\ \A u \in Threads \ {t} : pc'[u] = pc[u] /\ myTid'[u] = myTid[u]
    BY <2>2 DEF TypeOK
  <2>4. \A u \in Threads : Gone(u)' = Gone(u) /\ Joining(u)' = Joining(u)
                           /\ Holds(u)' = Holds(u)
    BY <2>2, <2>3 DEF Gone, Joining, Holds
  <2>5. Holds(t) /\ ~Named(t)
    BY <2>2 DEF Holds, Gone, Named
  <2>6. \A u \in Threads \ {t} : Named(u)' = Named(u)
    BY <2>3 DEF Named
  <2>7. \A u \in Threads : Named(u)' /\ ~Gone(u)' => idTable'[handle'[u]] = myTid'[u]
    <3>1. handle[t] \in DOMAIN idTable /\ \A u \in Threads : handle[u] \in DOMAIN idTable
      BY DEF TypeOK
    <3>2. idTable'[handle[t]] = i
      BY <2>2, <3>1
    <3>3. ASSUME NEW u \in Threads \ {t}, Named(u), ~Gone(u)
          PROVE  idTable'[handle[u]] = myTid[u]
      <4>1. handle[u] # handle[t]
        BY <2>5, <3>3 DEF TableInv, Holds, Named
      <4> QED
        BY <2>2, <3>1, <3>3, <4>1 DEF TableInv
    <3> QED
      BY <2>2, <2>3, <2>4, <2>6, <3>2, <3>3
  <2>8. t \notin shared
    BY <2>5 DEF TableInv
  <2>9. LookupIsRight'
    <3>1. ASSUME NEW u \in Threads, pc'[u] \in {"joining", "joined"}
          PROVE  remote'[u] = myTid'[target'[u]]
      <4>1. pc[u] = pc'[u] /\ Joining(u)
        BY <2>3, <3>1 DEF Joining
      <4>2. target[u] \in Threads \ {t}
        BY <1>0, <2>8, <4>1 DEF TableInv
      <4> QED
        BY <2>2, <2>3, <3>1, <4>1, <4>2 DEF TableInv, LookupIsRight
    <3> QED
      BY <2>2, <3>1 DEF LookupIsRight
  <2>10. ASSUME NEW u \in Threads, Joining(u)'
         PROVE  /\ target'[u] \in joined' /\ ~detached'[target'[u]]
                /\ pc'[u] # "joined" => target'[u] \notin reaped'
                /\ pc'[u] = "joined" => pc'[target'[u]] = "dead"
                /\ \A v \in Threads \ {u} : Joining(v)' => target'[v] # target'[u]
    <3>1. Joining(u) /\ u # t /\ pc'[u] = pc[u]
      BY <2>3, <2>4, <2>10 DEF Joining
    <3>2. target[u] \in Threads \ {t}
      BY <1>0, <2>8, <3>1 DEF TableInv
    <3> QED
      BY <2>2, <2>3, <2>4, <3>1, <3>2 DEF TableInv
  <2>11. \A u \in Threads : pack'[u] # NoTid =>
           pack'[u] = myTid'[u] /\ pc'[u] \notin {"new", "born", "named"}
    BY <2>2, <2>3 DEF TableInv
  <2>12. \A u \in shared' : Named(u)'
    BY <1>0, <2>2, <2>3, <2>6 DEF TableInv, Named
  <2> QED
    BY <2>2, <2>4, <2>7, <2>9, <2>10, <2>11, <2>12 DEF TableInv
<1>2. ASSUME NEW t \in Threads, abort = "no",
             \/ BeginCreate(t) \/ SpawnFails(t) \/ AfterJoin(t) \/ Access(t)
             \/ Return(t) \/ Die(t) \/ Exit(t)
      PROVE  TableInv'
  <2>1. UNCHANGED <<handle, detached, reaped, joined, shared, myTid, idTable, remote,
                    pack, abort>>
    BY <1>2 DEF BeginCreate, SpawnFails, AfterJoin, Access, Return, Die, Exit,
                systemVars, registryVars, callVars
  <2>2. \A u \in Threads \ {t} : pc'[u] = pc[u] /\ target'[u] = target[u]
    BY <1>2 DEF BeginCreate, SpawnFails, AfterJoin, Access, Return, Die, Exit,
                callVars, TypeOK
  <2>3. /\ pc[t] \in {"run", "spawn", "joined", "leaving"}
        /\ pc'[t] \in {"run", "spawn", "spin", "leaving", "dead"}
    BY <1>2 DEF BeginCreate, SpawnFails, AfterJoin, Access, Return, Die, Exit, TypeOK
  <2>4. \A u \in Threads :
          /\ Named(u)' = Named(u) /\ (pc'[u] = "new" <=> pc[u] = "new")
          /\ pc[u] = "dead" => pc'[u] = "dead"
          /\ pc'[u] = "named" => pc[u] = "named"
          /\ Joining(u)' => pc'[u] = pc[u] /\ target'[u] = target[u]
    BY <2>2, <2>3 DEF Named, Joining
  <2>5. \A u \in shared' : Named(u)'
    BY <1>0, <2>1, <2>4 DEF TableInv
  <2> QED
    BY <2>1, <2>4, <2>5, TableKept
<1>3. ASSUME NEW t \in Threads, AfterCreate(t), abort = "no"
      PROVE  TableInv'
  <2>1. /\ UNCHANGED <<handle, detached, reaped, joined, myTid, idTable, target, remote,
                       pack, abort>>
        /\ pc[t] = "spin" /\ pc' = [pc EXCEPT ![t] = "run"]
        /\ shared' = shared \union {target[t]}
        /\ target[t] # NoThread /\ pack[target[t]] # NoTid
    BY <1>3 DEF AfterCreate, registryVars, callVars
  <2>2. target[t] \in Threads /\ Named(target[t])
    BY <2>1 DEF TypeOK, TableInv, Named
  <2>3. \A u \in Threads :
          /\ Named(u)' = Named(u) /\ (pc'[u] = "new" <=> pc[u] = "new")
          /\ pc[u] = "dead" => pc'[u] = "dead"
          /\ pc'[u] = "named" => pc[u] = "named"
          /\ Joining(u)' => pc'[u] = pc[u] /\ target'[u] = target[u]
    BY <2>1 DEF Named, Joining, TypeOK
  <2>4. \A u \in shared' : Named(u)'
    BY <1>0, <2>1, <2>2, <2>3 DEF TableInv
  <2> QED
    BY <2>1, <2>3, <2>4, TableKept
<1>4. ASSUME NEW t \in Threads, StorePack(t), abort = "no"
      PROVE  TableInv'
  <2>1. /\ UNCHANGED <<handle, detached, reaped, joined, myTid, idTable, target, remote,
                       abort>>
        /\ pc[t] = "named" /\ pc' = [pc EXCEPT ![t] = "run"]
        /\ pack' = [pack EXCEPT ![t] = myTid[t]]
        /\ shared' = shared \union {t}
    BY <1>4 DEF StorePack, registryVars
  <2>2. /\ pc'[t] = "run" /\ pack'[t] = myTid[t]
        /\ \A u \in Threads \ {t} : pc'[u] = pc[u] /\ pack'[u] = pack[u]
    BY <2>1 DEF TypeOK
  <2>3. \A u \in Threads :
          /\ Named(u)' = Named(u) /\ Joining(u)' = Joining(u)
          /\ Gone(u)' = Gone(u) /\ Holds(u)' = Holds(u)
          /\ Joining(u) => pc'[u] = pc[u]
          /\ pc[u] = "dead" => pc'[u] = "dead"
    BY <2>1, <2>2 DEF Named, Joining, Gone, Holds
  <2>4. \A u \in shared' : Named(u)'
    BY <1>0, <2>1, <2>3 DEF TableInv, Named
  <2>5. \A u \in Threads : pack'[u] # NoTid =>
          pack'[u] = myTid'[u] /\ pc'[u] \notin {"new", "born", "named"}
    BY <2>1, <2>2 DEF TableInv
  <2>6. LookupIsRight'
    BY <2>1, <2>2 DEF TableInv, LookupIsRight
  <2>7. ASSUME NEW u \in Threads, Joining(u)'
        PROVE  /\ target'[u] \in joined' /\ ~detached'[target'[u]]
               /\ pc'[u] # "joined" => target'[u] \notin reaped'
               /\ pc'[u] = "joined" => pc'[target'[u]] = "dead"
               /\ \A v \in Threads \ {u} : Joining(v)' => target'[v] # target'[u]
    BY <1>0, <2>1, <2>3, <2>7 DEF TableInv
  <2> QED
    BY <2>1, <2>3, <2>4, <2>5, <2>6, <2>7 DEF TableInv
<1>5. ASSUME NEW t \in Threads, NEW c \in Threads, NEW h \in Handles, Spawn(t, c, h),
             abort = "no"
      PROVE  TableInv'
  <2>1. /\ UNCHANGED <<reaped, shared, joined, myTid, idTable, remote, pack, abort>>
        /\ pc[t] = "spawn" /\ pc[c] = "new" /\ Free(h) /\ t # c
        /\ pc' = [pc EXCEPT ![t] = "spin", ![c] = "born"]
        /\ handle' = [handle EXCEPT ![c] = h]
        /\ target' = [target EXCEPT ![t] = c]
    BY <1>5 DEF Spawn, registryVars
  <2>2. /\ pc'[t] = "spin" /\ pc'[c] = "born" /\ handle'[c] = h
        /\ \A u \in Threads \ {t, c} : pc'[u] = pc[u]
        /\ \A u \in Threads \ {t} : target'[u] = target[u]
        /\ \A u \in Threads \ {c} : handle'[u] = handle[u] /\ detached'[u] = detached[u]
    BY <1>5, <2>1 DEF Spawn, TypeOK
  <2>3. \A u \in Threads :
          /\ Named(u)' = Named(u) /\ Joining(u)' = Joining(u)
          /\ Joining(u) => u # t /\ u # c /\ pc'[u] = pc[u] /\ target'[u] = target[u]
          /\ Named(u) => u # c
          /\ pc[u] = "dead" => pc'[u] = "dead"
          /\ u # c => (Gone(u)' <=> Gone(u)) /\ (Holds(u)' <=> Holds(u))
    <3>1. \A u \in Threads \ {t, c} : /\ pc'[u] = pc[u] /\ target'[u] = target[u]
                                      /\ detached'[u] = detached[u]
      BY <2>2
    <3>2. \A u \in Threads \ {t, c} : (Gone(u)' <=> Gone(u)) /\ (Holds(u)' <=> Holds(u))
      BY <2>1, <3>1 DEF Gone, Holds
    <3>3. (Gone(t)' <=> Gone(t)) /\ (Holds(t)' <=> Holds(t))
      BY <2>1, <2>2 DEF Gone, Holds
    <3>4. \A u \in Threads \ {t, c} : Named(u)' = Named(u) /\ Joining(u)' = Joining(u)
      BY <3>1 DEF Named, Joining
    <3>5. \A u \in {t, c} : /\ Named(u)' = Named(u) /\ Joining(u)' = Joining(u)
                            /\ ~Joining(u) /\ pc[u] # "dead"
      BY <2>1, <2>2 DEF Named, Joining
    <3>6. ~Named(c)
      BY <2>1 DEF Named
    <3> QED
      BY <3>1, <3>2, <3>3, <3>4, <3>5, <3>6
  <2>4. \A u \in Threads \ {c} : Holds(u) => handle[u] # h
    BY <2>1 DEF Free, Holds
  <2>5. \A u, v \in Threads : u # v /\ Holds(u)' /\ Holds(v)' => handle'[u] # handle'[v]
    BY <2>2, <2>3, <2>4 DEF TableInv
  <2>6. \A u \in Threads : Named(u)' /\ ~Gone(u)' => idTable'[handle'[u]] = myTid'[u]
    BY <2>1, <2>2, <2>3 DEF TableInv
  <2>7. \A u \in Threads : pack'[u] # NoTid =>
          pack'[u] = myTid'[u] /\ pc'[u] \notin {"new", "born", "named"}
    BY <2>1, <2>2 DEF TableInv
  <2>8. \A u \in shared' : Named(u)'
    BY <1>0, <2>1, <2>3 DEF TableInv
  <2>9. LookupIsRight'
    <3>1. ASSUME NEW u \in Threads, pc'[u] \in {"joining", "joined"}
          PROVE  remote'[u] = myTid'[target'[u]]
      <4>1. pc'[u] = pc[u] /\ u # t
        BY <2>2, <3>1
      <4> QED
        BY <2>1, <2>2, <3>1, <4>1 DEF TableInv, LookupIsRight
    <3> QED
      BY <2>1, <3>1 DEF TableInv, LookupIsRight
  <2>10. ASSUME NEW u \in Threads, Joining(u)'
         PROVE  /\ target'[u] \in joined' /\ ~detached'[target'[u]]
                /\ pc'[u] # "joined" => target'[u] \notin reaped'
                /\ pc'[u] = "joined" => pc'[target'[u]] = "dead"
                /\ \A v \in Threads \ {u} : Joining(v)' => target'[v] # target'[u]
    <3>1. Joining(u) /\ target'[u] = target[u] /\ pc'[u] = pc[u]
      BY <2>3, <2>10
    <3>2. target[u] \in joined /\ target[u] \in Threads /\ target[u] # c
      BY <1>0, <2>3, <3>1 DEF TableInv
    <3>3. \A v \in Threads \ {u} : Joining(v)' => target'[v] # target'[u]
      BY <2>3, <3>1 DEF TableInv
    <3>4. /\ ~detached[target[u]]
          /\ pc[u] # "joined" => target[u] \notin reaped
          /\ pc[u] = "joined" => pc[target[u]] = "dead"
      BY <3>1 DEF TableInv
    <3>5. /\ ~detached'[target[u]]
          /\ pc[u] = "joined" => pc'[target[u]] = "dead"
      BY <2>2, <2>3, <3>2, <3>4
    <3> QED
      BY <2>1, <3>1, <3>2, <3>3, <3>4, <3>5
  <2>11. joined' \subseteq shared' /\ reaped' \subseteq joined'
    BY <1>0, <2>1
  <2> QED
    BY <2>5, <2>6, <2>7, <2>8, <2>9, <2>10, <2>11 DEF TableInv
<1>6. ASSUME NEW t \in Threads, NEW c \in Threads, FindTid(t, c), abort = "no"
      PROVE  TableInv'
  <2>1. /\ UNCHANGED <<handle, detached, reaped, shared, myTid, idTable, remote, pack>>
        /\ pc[t] = "run" /\ pc' = [pc EXCEPT ![t] = "found"]
        /\ target' = [target EXCEPT ![t] = c] /\ joined' = joined \union {c}
        /\ c \in shared /\ c \notin joined /\ ~detached[c]
        /\ abort' = IF idTable[handle[c]] = NoTid THEN "lookup" ELSE abort
    BY <1>6 DEF FindTid, registryVars
  <2>2. /\ pc'[t] = "found" /\ target'[t] = c
        /\ \A u \in Threads \ {t} : pc'[u] = pc[u] /\ target'[u] = target[u]
    BY <2>1 DEF TypeOK
  <2>3. \A u \in Threads :
          /\ Named(u)' = Named(u) /\ Gone(u)' = Gone(u) /\ Holds(u)' = Holds(u)
          /\ Joining(u)' => u = t \/ (Joining(u) /\ pc'[u] = pc[u] /\ u # t)
          /\ pc[u] = "dead" => pc'[u] = "dead"
    BY <2>1, <2>2 DEF Named, Joining, Gone, Holds
  <2>4. Named(c) /\ ~Gone(c)
    BY <1>0, <2>1 DEF TableInv, Gone
  <2>5. abort' # "lookup"
    BY <1>6, <2>1, <2>4 DEF TableInv, NameInv
  <2>6. LookupIsRight'
    BY <2>1, <2>2, <2>5 DEF TableInv, LookupIsRight
  <2>7. \A u \in Threads \ {t} : Joining(u) => target[u] # c
    BY <2>1 DEF TableInv
  <2>8. ASSUME NEW u \in Threads, Joining(u)'
        PROVE  /\ target'[u] \in joined' /\ ~detached'[target'[u]]
               /\ pc'[u] # "joined" => target'[u] \notin reaped'
               /\ pc'[u] = "joined" => pc'[target'[u]] = "dead"
               /\ \A v \in Threads \ {u} : Joining(v)' => target'[v] # target'[u]
    <3>1. \A v \in Threads \ {t} : Joining(v)' => target'[v] = target[v] /\ Joining(v)
      BY <2>2, <2>3
    <3>2. CASE u = t
      BY <1>0, <2>1, <2>2, <2>7, <3>1, <3>2
    <3>3. CASE u # t
      <4>1. target[u] \in joined /\ target[u] \in Threads
        BY <1>0, <2>8, <3>1, <3>3 DEF TableInv
      <4> QED
        BY <2>1, <2>2, <2>3, <2>7, <2>8, <3>1, <3>3, <4>1 DEF TableInv
    <3> QED
      BY <3>2, <3>3
  <2>9. \A u \in Threads : pack'[u] # NoTid =>
          pack'[u] = myTid'[u] /\ pc'[u] \notin {"new", "born", "named"}
    BY <2>1, <2>2 DEF TableInv
  <2>10. joined' \subseteq shared' /\ reaped' \subseteq joined'
    BY <1>0, <2>1
  <2>11. \A u \in shared' : Named(u)'
    BY <1>0, <2>1, <2>3 DEF TableInv
  <2> QED
    BY <2>1, <2>3, <2>6, <2>8, <2>9, <2>10, <2>11 DEF TableInv
<1>7. ASSUME NEW t \in Threads, ReadTid(t), abort = "no"
      PROVE  TableInv'
  <2>1. /\ UNCHANGED <<handle, detached, reaped, shared, joined, myTid, idTable, target,
                       pack, abort>>
        /\ pc[t] = "found" /\ pc' = [pc EXCEPT ![t] = "joining"]
        /\ remote' = [remote EXCEPT ![t] = idTable[handle[target[t]]]]
    BY <1>7 DEF ReadTid, systemVars, registryVars
  <2>2. /\ pc'[t] = "joining" /\ remote'[t] = idTable[handle[target[t]]]
        /\ \A u \in Threads \ {t} : pc'[u] = pc[u] /\ remote'[u] = remote[u]
    BY <2>1 DEF TypeOK
  <2>3. \A u \in Threads :
          /\ Named(u)' = Named(u) /\ Gone(u)' = Gone(u) /\ Holds(u)' = Holds(u)
          /\ Joining(u)' = Joining(u) /\ (pc'[u] = "joined" <=> pc[u] = "joined")
          /\ pc[u] = "dead" => pc'[u] = "dead"
    BY <2>1, <2>2 DEF Named, Joining, Gone, Holds
  <2>4. target[t] \in Threads /\ Named(target[t]) /\ ~Gone(target[t])
    BY <1>0, <2>1 DEF TableInv, Joining, Gone
  <2>5. LookupIsRight'
    <3>1. remote'[t] = myTid'[target'[t]]
      BY <2>1, <2>2, <2>4 DEF TableInv
    <3> QED
      BY <2>1, <2>2, <3>1 DEF TableInv, LookupIsRight
  <2>6. ASSUME NEW u \in Threads, Joining(u)'
        PROVE  /\ target'[u] \in joined' /\ ~detached'[target'[u]]
               /\ pc'[u] # "joined" => target'[u] \notin reaped'
               /\ pc'[u] = "joined" => pc'[target'[u]] = "dead"
               /\ \A v \in Threads \ {u} : Joining(v)' => target'[v] # target'[u]
    BY <1>0, <2>1, <2>3, <2>6 DEF TableInv
  <2>7. \A u \in Threads : pack'[u] # NoTid =>
          pack'[u] = myTid'[u] /\ pc'[u] \notin {"new", "born", "named"}
    BY <2>1, <2>2 DEF TableInv
  <2>8. \A u \in shared' : Named(u)'
    BY <1>0, <2>1, <2>3 DEF TableInv
  <2> QED
    BY <2>1, <2>3, <2>5, <2>6, <2>7, <2>8 DEF TableInv
<1>8. ASSUME NEW t \in Threads, JoinReturns(t), abort = "no"
      PROVE  TableInv'
  <2>1. /\ UNCHANGED <<handle, detached, shared, joined, myTid, idTable, target, remote,
                       pack, abort>>
        /\ pc[t] = "joining" /\ pc[target[t]] = "dead"
        /\ pc' = [pc EXCEPT ![t] = "joined"]
        /\ reaped' = reaped \union {target[t]}
    BY <1>8 DEF JoinReturns, registryVars, callVars
  <2>2. pc'[t] = "joined" /\ \A u \in Threads \ {t} : pc'[u] = pc[u]
    BY <2>1 DEF TypeOK
  <2>3. \A u \in Threads :
          /\ Named(u)' = Named(u) /\ Joining(u)' = Joining(u)
          /\ Gone(u) => Gone(u)' /\ (Holds(u)' => Holds(u))
          /\ u # t /\ pc'[u] = "joined" => pc[u] = "joined"
          /\ pc[u] = "dead" => pc'[u] = "dead"
    BY <2>1, <2>2 DEF Named, Joining, Gone, Holds
  <2>4. Joining(t) /\ target[t] \in joined /\ target[t] \in Threads
    BY <1>0, <2>1 DEF TableInv, Joining
  <2>5. LookupIsRight'
    BY <2>1, <2>2 DEF TableInv, LookupIsRight
  <2>6. ASSUME NEW u \in Threads, Joining(u)'
        PROVE  /\ target'[u] \in joined' /\ ~detached'[target'[u]]
               /\ pc'[u] # "joined" => target'[u] \notin reaped'
               /\ pc'[u] = "joined" => pc'[target'[u]] = "dead"
               /\ \A v \in Threads \ {u} : Joining(v)' => target'[v] # target'[u]
    <3>1. Joining(u) /\ target[u] \in joined /\ target[u] \in Threads
      BY <1>0, <2>3, <2>6 DEF TableInv
    <3>2. \A v \in Threads \ {u} : Joining(v)' => target'[v] # target'[u]
      BY <2>1, <2>3, <3>1 DEF TableInv
    <3>3. pc'[u] = "joined" => pc'[target'[u]] = "dead"
      BY <2>1, <2>3, <2>4, <3>1 DEF TableInv
    <3>4. pc'[u] # "joined" => target'[u] \notin reaped'
      BY <2>1, <2>2, <2>4, <3>1 DEF TableInv
    <3> QED
      BY <2>1, <3>1, <3>2, <3>3, <3>4 DEF TableInv
  <2>7. \A u \in Threads : pack'[u] # NoTid =>
          pack'[u] = myTid'[u] /\ pc'[u] \notin {"new", "born", "named"}
    BY <2>1, <2>2 DEF TableInv
  <2>8. \A u \in shared' : Named(u)'
    BY <1>0, <2>1, <2>3 DEF TableInv
  <2>9. \A u, v \in Threads : u # v /\ Holds(u)' /\ Holds(v)' => handle'[u] # handle'[v]
    <3>1. \A u \in Threads : Holds(u)' => Holds(u)
      BY <2>1, <2>2 DEF Holds, Gone
    <3> QED
      BY <2>1, <3>1 DEF TableInv
  <2>10. \A u \in Threads : Named(u)' /\ ~Gone(u)' => idTable'[handle'[u]] = myTid'[u]
    BY <2>1, <2>3 DEF TableInv
  <2>11. joined' \subseteq shared' /\ reaped' \subseteq joined'
    BY <1>0, <2>1, <2>4
  <2> QED
    BY <2>5, <2>6, <2>7, <2>8, <2>9, <2>10, <2>11 DEF TableInv
<1>9. CASE UNCHANGED vars
  <2>1. /\ UNCHANGED <<pc, handle, detached, reaped, joined, shared, myTid, idTable,
                       target, remote, pack, abort>>
    BY <1>9 DEF vars, systemVars, registryVars, callVars
  <2>2. \A u \in shared' : Named(u)'
    BY <2>1 DEF TableInv, Named
  <2>3. \A u \in Threads : Named(u)' = Named(u)
    BY <2>1 DEF Named
  <2> QED
    BY <2>1, <2>2, <2>3, TableKept
<1> QED
  BY <1>1, <1>2, <1>3, <1>4, <1>5, <1>6, <1>7, <1>8, <1>9 DEF Next, ThreadStep

\* What holds of every slot of the log.
LEMMA SlotFacts ==
  ASSUME TypeOK
  PROVE  /\ Len(log) \in Nat
         /\ \A i \in 1..Len(log) : log[i].tid \in Nat /\ log[i].tid # NoTid
<1>1. log \in Seq(LogEvent)
  BY DEF TypeOK
<1>2. \A e \in LogEvent : e.tid \in Nat /\ e.tid # NoTid
  BY ThreadLifeAssumption DEF LogEvent, Tids, ThreadLifeAssumption
<1>3. \A i \in 1..Len(log) : log[i] \in LogEvent
  BY <1>1
<1> QED
  BY <1>1, <1>2, <1>3

\* While something is logged, two threads never have the same id.
LEMMA NoTwoIds ==
  ASSUME NameInv, ~config.reuse, NEW t \in Threads, NEW u \in Threads,
         Named(t), Named(u), myTid[t] = myTid[u]
  PROVE  t = u
BY DEF NameInv

\* Steps that leave the log and the ids alone.
LEMMA LogKept ==
  ASSUME TypeOK, LogInv, UNCHANGED <<config, log, batch, myTid, tidCounter>>,
         Creators', joined \subseteq joined',
         started => started', finished => finished',
         \A u \in Threads :
           /\ Named(u)' = Named(u)
           /\ pc[u] = "dead" => pc'[u] = "dead"
           /\ batch[u] # 0 /\ pc[u] \in {"spawn", "spin"} => pc'[u] \in {"spawn", "spin"}
           /\ Joining(u)' => \/ Joining(u) /\ target'[u] = target[u]
                             \/ target'[u] \notin joined,
         \A u, c \in Threads : Creating(u, c)' /\ Named(c)' => Creating(u, c)
  PROVE  LogInv'
<1>1. LogIds'
  BY DEF LogInv, LogIds
<1>2. Batches'
  BY DEF LogInv, Batches
<1>3. Births'
  BY DEF LogInv, Births
<1>4. Joins'
  <2>1. ASSUME NEW i \in 1..Len(log), log[i].op = "JOIN"
        PROVE  \E c \in joined' : /\ log[i].obj = myTid[c] /\ pc'[c] = "dead"
                                  /\ \A u \in Threads : Joining(u)' => target'[u] # c
    <3>1. PICK c \in joined : /\ log[i].obj = myTid[c] /\ pc[c] = "dead"
                              /\ \A u \in Threads : Joining(u) => target[u] # c
      BY <2>1 DEF LogInv, Joins
    <3>2. c \in Threads
      BY DEF TypeOK
    <3> QED
      BY <3>1, <3>2
  <2> QED
    BY <2>1 DEF Joins
<1>5. TraceTellsLives'
  BY DEF LogInv, TraceTellsLives
<1> QED
  BY <1>1, <1>2, <1>3, <1>4, <1>5 DEF LogInv

\* A running thread t appends an event of its own: one about no other thread,
\* or the JOIN of the thread that it has joined.
LEMMA LogAppended ==
  ASSUME TypeOK, NameInv, TableInv, LogInv, NEW t \in Threads, NEW e,
         log' = Append(log, e), e.tid = myTid[t], Running(t),
         config.log, UNCHANGED <<config, joined, myTid, tidCounter>>,
         Creators', Batches',
         \/ e.op \in {"CREATE", "ACCESS"} /\ e.obj = NoTid
         \/ /\ e.op = "JOIN" /\ pc[t] = "joined" /\ e.obj = myTid[target[t]]
            /\ ~Joining(t)',
         \A u \in Threads :
           /\ Named(u)' = Named(u)
           /\ pc[u] = "dead" => pc'[u] = "dead"
           /\ Joining(u)' => Joining(u) /\ target'[u] = target[u],
         \A u, c \in Threads :
           Creating(u, c)' => Creating(u, c) /\ batch'[u] = batch[u]
  PROVE  LogInv'
<1> DEFINE n == Len(log) + 1
<1>1. /\ Len(log') = n /\ log'[n] = e
      /\ \A i \in 1..Len(log) : log'[i] = log[i]
  <2>1. log \in Seq(LogEvent)
    BY DEF TypeOK
  <2> QED
    BY <2>1
<1>2. Len(log) \in Nat /\ n \in Nat /\ \A i \in 1..n : i \in 1..Len(log) \/ i = n
  BY SlotFacts
<1>3. ~config.reuse /\ Named(t)
  BY ThreadLifeAssumption DEF ThreadLifeAssumption, TypeOK, Running, Named
<1>4. /\ myTid[t] < tidCounter /\ pc[t] # "dead"
      /\ \A c \in Threads : Named(c) => myTid[c] # NoTid
  BY <1>3 DEF NameInv, Running
<1>5. \A c \in Threads : pc[c] = "dead" => myTid[c] # myTid[t]
  BY <1>3, <1>4, NoTwoIds DEF Named
<1>6. e.op = "JOIN" =>
        /\ target[t] \in joined /\ target[t] \in Threads /\ pc[target[t]] = "dead"
        /\ Joining(t)
  BY DEF TableInv, Joining, TypeOK
<1> HIDE DEF n
<1>7. LogIds'
  <2>1. \A i \in 1..n :
          /\ log'[i].tid < tidCounter
          /\ log'[i].op = "CREATE" /\ log'[i].obj # NoTid => log'[i].obj < tidCounter
    BY <1>1, <1>2, <1>4 DEF LogInv, LogIds
  <2> QED
    BY <1>1, <1>3, <2>1 DEF LogIds
<1>8. Births'
  <2>1. ASSUME NEW u \in Threads, NEW c \in Threads, Creating(u, c)', Named(c)',
               NEW i \in 1..n
        PROVE  /\ log'[i].tid = myTid[c] \/ (log'[i].op = "JOIN" /\ log'[i].obj = myTid[c])
                    => batch'[u] < i
               /\ ~(log'[i].op = "CREATE" /\ log'[i].obj = myTid[c])
    <3>1. Creating(u, c) /\ Named(c) /\ batch'[u] = batch[u]
      BY <2>1
    <3>2. CASE i \in 1..Len(log)
      BY <1>1, <3>1, <3>2 DEF LogInv, Births
    <3>3. CASE i = n
      <4>1. batch[u] = 0 \/ batch[u] \in 1..Len(log)
        BY DEF LogInv, Batches
      <4>2. batch[u] < n
        BY <1>2, <4>1 DEF n
      <4>3. ~(e.op = "CREATE" /\ e.obj = myTid[c])
        BY <1>4, <3>1
      <4> QED
        BY <1>1, <3>1, <3>3, <4>2, <4>3
    <3> QED
      BY <1>2, <3>2, <3>3
  <2> QED
    BY <1>1, <2>1 DEF Births
<1>9. Joins'
  <2>1. ASSUME NEW i \in 1..n, log'[i].op = "JOIN"
        PROVE  \E c \in joined : /\ log'[i].obj = myTid[c] /\ pc'[c] = "dead"
                                 /\ \A u \in Threads : Joining(u)' => target'[u] # c
    <3>1. CASE i \in 1..Len(log)
      <4>1. PICK c \in joined : /\ log[i].obj = myTid[c] /\ pc[c] = "dead"
                                /\ \A u \in Threads : Joining(u) => target[u] # c
        BY <1>1, <2>1, <3>1 DEF LogInv, Joins
      <4>2. c \in Threads
        BY DEF TypeOK
      <4> QED
        BY <1>1, <3>1, <4>1, <4>2
    <3>2. CASE i = n
      <4>1. log'[i] = e /\ e.op = "JOIN" /\ e.obj = myTid[target[t]] /\ ~Joining(t)'
        BY <1>1, <2>1, <3>2
      <4>2. \A u \in Threads \ {t} : Joining(u) => target[u] # target[t]
        BY <1>6, <4>1 DEF TableInv
      <4>3. \A u \in Threads : Joining(u)' => target'[u] # target[t]
        BY <4>1, <4>2
      <4> QED
        BY <1>6, <4>1, <4>3
    <3> QED
      BY <1>2, <3>1, <3>2
  <2> QED
    BY <1>1, <2>1 DEF Joins
<1>10. TraceTellsLives'
  <2>1. ASSUME NEW i \in 1..n, NEW j \in 1..n,
               log'[i].op = "CREATE", log'[i].obj # NoTid
        PROVE  /\ log'[j].tid = log'[i].obj => i < j
               /\ log'[j].op = "CREATE" /\ log'[j].obj = log'[i].obj => i = j
               /\ log'[j].op = "JOIN" /\ log'[j].obj = log'[i].obj => i < j
    <3>1. i \in 1..Len(log) /\ i < n
      BY <1>1, <1>2, <2>1 DEF n
    <3>2. CASE j \in 1..Len(log)
      BY <1>1, <2>1, <3>1, <3>2 DEF LogInv, TraceTellsLives
    <3>3. CASE j = n
      BY <1>1, <2>1, <3>1, <3>3
    <3> QED
      BY <1>2, <3>2, <3>3
  <2>2. ASSUME NEW i \in 1..n, NEW j \in 1..n, log'[i].op = "JOIN"
        PROVE  /\ log'[j].tid = log'[i].obj => j < i
               /\ log'[j].op = "JOIN" /\ log'[j].obj = log'[i].obj => i = j
    <3>1. CASE i \in 1..Len(log) /\ j \in 1..Len(log)
      BY <1>1, <2>2, <3>1 DEF LogInv, TraceTellsLives
    <3>2. CASE i \in 1..Len(log) /\ j = n
      <4>1. PICK c \in joined : /\ log[i].obj = myTid[c] /\ pc[c] = "dead"
                                /\ \A u \in Threads : Joining(u) => target[u] # c
        BY <1>1, <2>2, <3>2 DEF LogInv, Joins
      <4>2. c \in Threads
        BY DEF TypeOK
      <4>3. log'[j] = e /\ log'[i] = log[i]
        BY <1>1, <3>2
      <4>4. e.tid # log[i].obj
        BY <1>5, <4>1, <4>2
      <4>5. ASSUME e.op = "JOIN"
            PROVE  e.obj # log[i].obj
        <5>1. /\ e.obj = myTid[target[t]] /\ target[t] # c
              /\ target[t] \in Threads /\ Named(target[t]) /\ Named(c)
          BY <1>6, <4>1, <4>5 DEF Named
        <5> QED
          BY <1>3, <4>1, <4>2, <5>1, NoTwoIds
      <4> QED
        BY <4>3, <4>4, <4>5
    <3>3. CASE i = n /\ j \in 1..Len(log)
      <4>1. log'[i] = e /\ log'[j] = log[j] /\ e.op = "JOIN" /\ e.obj = myTid[target[t]]
        BY <1>1, <2>2, <3>3
      <4>2. j < i
        BY <1>2, <3>3 DEF n
      <4>3. ASSUME log[j].op = "JOIN"
            PROVE  log[j].obj # e.obj
        <5>1. PICK c \in joined : /\ log[j].obj = myTid[c] /\ pc[c] = "dead"
                                  /\ \A u \in Threads : Joining(u) => target[u] # c
          BY <3>3, <4>3 DEF LogInv, Joins
        <5>2. c \in Threads
          BY DEF TypeOK
        <5>3. /\ target[t] # c /\ target[t] \in Threads
              /\ Named(target[t]) /\ Named(c)
          BY <1>6, <4>1, <5>1 DEF Named
        <5> QED
          BY <1>3, <4>1, <5>1, <5>2, <5>3, NoTwoIds
      <4> QED
        BY <4>1, <4>2, <4>3
    <3>4. CASE i = n /\ j = n
      <4>1. e.op = "JOIN" /\ e.obj = myTid[target[t]]
        BY <1>1, <2>2, <3>4
      <4>2. e.tid # e.obj
        BY <1>5, <1>6, <4>1
      <4> QED
        BY <1>1, <3>4, <4>2
    <3> QED
      BY <1>2, <3>1, <3>2, <3>3, <3>4
  <2> QED
    BY <1>1, <2>1, <2>2 DEF TraceTellsLives
<1> QED
  BY <1>7, <1>8, <1>9, <1>10 DEF LogInv

LEMMA LogStep == TypeOK /\ NameInv /\ TableInv /\ LogInv /\ [Next]_vars => LogInv'
<1> SUFFICES ASSUME TypeOK, NameInv, TableInv, LogInv, [Next]_vars
             PROVE  LogInv'
  OBVIOUS
<1>0. joined \subseteq Threads /\ NoThread \notin Threads
  BY ThreadLifeAssumption DEF TypeOK, ThreadLifeAssumption
<1>1. ASSUME NEW t \in Threads, Register(t), abort = "no"
      PROVE  LogInv'
  <2>1. PICK i \in 0..tidCounter : TakeTid(t, i)
    BY <1>1 DEF Register
  <2>2. /\ pc[t] = "born" /\ pc' = [pc EXCEPT ![t] = "named"]
        /\ myTid' = [myTid EXCEPT ![t] = i]
        /\ tidCounter' = IF i = tidCounter THEN tidCounter + 1 ELSE tidCounter
        /\ UNCHANGED <<config, joined, target, log, batch, started, finished>>
        /\ Chosen(i)
    BY <1>1, <2>1 DEF Register, TakeTid, systemVars, callVars, logVars, controlVars
  <2>3. /\ pc'[t] = "named" /\ myTid'[t] = i /\ myTid[t] = NoTid
        /\ \A u \in Threads \ {t} : pc'[u] = pc[u] /\ myTid'[u] = myTid[u]
    BY <2>2 DEF TypeOK, NameInv, Named
  <2>4. /\ Len(log) \in Nat /\ tidCounter \in Nat
        /\ \A k \in 1..Len(log) : log[k].tid \in Nat /\ log[k].tid # NoTid
    BY SlotFacts DEF TypeOK
  <2>5. log # <<>> => i = tidCounter
    BY <2>2 DEF LogInv, LogIds, Chosen
  <2>6. \A k \in 1..Len(log) : log # <<>>
    BY <2>4
  <2>7. LogIds'
    <3>1. \A k \in 1..Len(log) :
            /\ log[k].tid < tidCounter + 1
            /\ log[k].op = "CREATE" /\ log[k].obj # NoTid => log[k].obj < tidCounter + 1
      <4>1. \A k \in 1..Len(log) : log[k].obj # NoTid => log[k].obj \in Nat
        <5>1. log \in Seq(LogEvent)
          BY DEF TypeOK
        <5>2. \A e \in LogEvent : e.obj # NoTid => e.obj \in Nat
          BY ThreadLifeAssumption DEF LogEvent, Tids, ThreadLifeAssumption
        <5>3. \A k \in 1..Len(log) : log[k] \in LogEvent
          BY <5>1
        <5> QED
          BY <5>2, <5>3
      <4> QED
        BY <2>4, <4>1 DEF LogInv, LogIds
    <3> QED
      BY <2>2, <2>5, <2>6, <3>1 DEF LogInv, LogIds
  <2>8. \A u, c \in Threads : Creating(u, c)' <=> Creating(u, c)
    BY <2>2, <2>3 DEF Creating
  <2>9. Creators'
    BY <2>3, <2>8 DEF LogInv, Creators
  <2>10. Batches'
    <3>1. ASSUME NEW u \in Threads, batch[u] # 0
          PROVE  u # t
      BY <2>3, <2>4, <3>1 DEF LogInv, Batches
    <3> QED
      BY <2>2, <2>3, <3>1 DEF LogInv, Batches
  <2>11. Joins'
    <3>1. ASSUME NEW k \in 1..Len(log), log[k].op = "JOIN"
          PROVE  \E c \in joined : /\ log[k].obj = myTid'[c] /\ pc'[c] = "dead"
                                   /\ \A u \in Threads : Joining(u)' => target[u] # c
      <4>1. PICK c \in joined : /\ log[k].obj = myTid[c] /\ pc[c] = "dead"
                                /\ \A u \in Threads : Joining(u) => target[u] # c
        BY <3>1 DEF LogInv, Joins
      <4>2. c \in Threads /\ c # t
        BY <1>0, <2>2, <4>1
      <4>3. \A u \in Threads : Joining(u)' => Joining(u)
        BY <2>3 DEF Joining
      <4> QED
        BY <2>3, <4>1, <4>2, <4>3
    <3> QED
      BY <2>2, <3>1 DEF Joins
  <2>12. Births'
    <3>1. ASSUME NEW u \in Threads, NEW c \in Threads, Creating(u, c), Named(c)',
                 NEW k \in 1..Len(log)
          PROVE  /\ log[k].tid = myTid'[c] \/ (log[k].op = "JOIN" /\ log[k].obj = myTid'[c])
                      => batch[u] < k
                 /\ ~(log[k].op = "CREATE" /\ log[k].obj = myTid'[c])
      <4>1. CASE c # t
        BY <2>3, <3>1, <4>1 DEF LogInv, Births, Named
      <4>2. CASE c = t
        <5>1. myTid'[c] = tidCounter /\ tidCounter # NoTid
          BY <2>3, <2>4, <2>5, <2>6, <3>1, <4>2, ThreadLifeAssumption DEF ThreadLifeAssumption
        <5>2. log[k].tid # tidCounter
          BY <2>4 DEF LogInv, LogIds
        <5>3. ~(log[k].op = "CREATE" /\ log[k].obj = tidCounter)
          BY <2>4, <5>1 DEF LogInv, LogIds
        <5>4. ~(log[k].op = "JOIN" /\ log[k].obj = tidCounter)
          <6>1. ASSUME log[k].op = "JOIN"
                PROVE  log[k].obj # tidCounter
            <7>1. PICK d \in joined : log[k].obj = myTid[d] /\ pc[d] = "dead"
              BY <6>1 DEF LogInv, Joins
            <7>2. d \in Threads /\ Named(d)
              BY <1>0, <7>1 DEF Named
            <7>3. myTid[d] < tidCounter /\ myTid[d] \in Nat
              BY <7>2, ThreadLifeAssumption DEF NameInv, TypeOK, Tids, ThreadLifeAssumption
            <7> QED
              BY <2>4, <7>1, <7>3
          <6> QED
            BY <6>1
        <5> QED
          BY <5>1, <5>2, <5>3, <5>4
      <4> QED
        BY <4>1, <4>2
    <3> QED
      BY <2>2, <2>8, <3>1 DEF Births
  <2>13. TraceTellsLives'
    BY <2>2 DEF LogInv, TraceTellsLives
  <2> QED
    BY <2>7, <2>9, <2>10, <2>11, <2>12, <2>13 DEF LogInv
<1>2. ASSUME NEW t \in Threads, abort = "no",
             \/ StorePack(t) \/ SpawnFails(t) \/ \E c \in Threads : FindTid(t, c)
             \/ ReadTid(t) \/ JoinReturns(t) \/ Return(t) \/ Die(t) \/ Exit(t)
      PROVE  LogInv'
  <2>1. /\ UNCHANGED <<config, log, batch, myTid, tidCounter>>
        /\ joined \subseteq joined' /\ (started => started') /\ (finished => finished')
    BY <1>2 DEF StorePack, SpawnFails, FindTid, ReadTid, JoinReturns, Return, Die,
                Exit, systemVars, registryVars, logVars, controlVars
  <2>2. /\ \A u \in Threads \ {t} : pc'[u] = pc[u] /\ target'[u] = target[u]
        /\ pc'[t] = "spin" => target'[t] = NoThread
        /\ pc[t] = "spawn" => pc'[t] = "spin"
        /\ Joining(t)' => \/ Joining(t) /\ target'[t] = target[t]
                          \/ target'[t] \notin joined
    BY <1>2 DEF StorePack, SpawnFails, FindTid, ReadTid, JoinReturns, Return, Die,
                Exit, callVars, TypeOK, Joining
  <2>3. /\ pc[t] \notin {"new", "born", "spin", "dead"}
        /\ pc'[t] \notin {"new", "born", "spawn"}
    BY <1>2 DEF StorePack, SpawnFails, FindTid, ReadTid, JoinReturns, Return, Die,
                Exit, TypeOK
  <2>4. \A u, c \in Threads : Creating(u, c)' => Creating(u, c)
    BY <1>0, <2>2 DEF Creating
  <2>5. Creators'
    BY <2>2, <2>3, <2>4 DEF LogInv, Creators
  <2>6. \A u \in Threads :
          /\ Named(u)' = Named(u)
          /\ pc[u] = "dead" => pc'[u] = "dead"
          /\ batch[u] # 0 /\ pc[u] \in {"spawn", "spin"} => pc'[u] \in {"spawn", "spin"}
    BY <2>2, <2>3 DEF Named
  <2>7. \A u \in Threads : Joining(u)' => \/ Joining(u) /\ target'[u] = target[u]
                                          \/ target'[u] \notin joined
    BY <2>2 DEF Joining
  <2> QED
    BY <2>1, <2>4, <2>5, <2>6, <2>7, LogKept
<1>3. ASSUME NEW t \in Threads, NEW c \in Threads, NEW h \in Handles, Spawn(t, c, h),
             abort = "no"
      PROVE  LogInv'
  <2>1. /\ UNCHANGED <<config, log, batch, myTid, tidCounter, joined, started, finished>>
        /\ pc[t] = "spawn" /\ pc[c] = "new" /\ t # c
        /\ pc' = [pc EXCEPT ![t] = "spin", ![c] = "born"]
        /\ target' = [target EXCEPT ![t] = c]
    BY <1>3 DEF Spawn, registryVars, logVars, controlVars
  <2>2. /\ pc'[t] = "spin" /\ pc'[c] = "born" /\ target'[t] = c
        /\ \A u \in Threads \ {t, c} : pc'[u] = pc[u]
        /\ \A u \in Threads \ {t} : target'[u] = target[u]
    BY <2>1 DEF TypeOK
  <2>3. \A u, d \in Threads : Creating(u, d)' => Creating(u, d) \/ (u = t /\ d = c)
    BY <2>2 DEF Creating
  <2>4. \A u \in Threads : ~Creating(u, c)
    BY <2>1 DEF LogInv, Creators
  <2>5. Creators'
    BY <2>2, <2>3, <2>4 DEF LogInv, Creators
  <2>6. ~Named(c)' /\ ~Named(c)
    BY <2>1, <2>2 DEF Named
  <2>7. \A u \in Threads :
          /\ Named(u)' = Named(u)
          /\ pc[u] = "dead" => pc'[u] = "dead"
          /\ batch[u] # 0 /\ pc[u] \in {"spawn", "spin"} => pc'[u] \in {"spawn", "spin"}
          /\ Joining(u)' => Joining(u) /\ target'[u] = target[u]
    BY <2>1, <2>2 DEF Named, Joining
  <2>8. \A u, d \in Threads : Creating(u, d)' /\ Named(d)' => Creating(u, d)
    BY <2>3, <2>6
  <2> QED
    BY <2>1, <2>5, <2>7, <2>8, LogKept
<1>4. ASSUME NEW t \in Threads, AfterCreate(t), abort = "no"
      PROVE  LogInv'
  <2> DEFINE c == target[t]
  <2>1. /\ UNCHANGED <<config, joined, myTid, tidCounter, target, pack, started, finished>>
        /\ pc[t] = "spin" /\ pc' = [pc EXCEPT ![t] = "run"]
        /\ c # NoThread /\ pack[c] # NoTid
    BY <1>4 DEF AfterCreate, registryVars, callVars, controlVars
  <2>2. pc'[t] = "run" /\ \A u \in Threads \ {t} : pc'[u] = pc[u]
    BY <2>1 DEF TypeOK
  <2>3. c \in Threads /\ Named(c) /\ pack[c] = myTid[c] /\ Creating(t, c)
    BY <2>1 DEF TypeOK, TableInv, Named, Creating
  <2> HIDE DEF c
  <2>4. \A u, d \in Threads : Creating(u, d)' => u # t /\ Creating(u, d)
    BY <2>1, <2>2 DEF Creating
  <2>5. Creators'
    BY <2>2, <2>4 DEF LogInv, Creators
  <2>6. \A u \in Threads :
          /\ Named(u)' = Named(u) /\ Joining(u)' = Joining(u)
          /\ pc[u] = "dead" => pc'[u] = "dead"
          /\ Joining(u)' => Joining(u) /\ target'[u] = target[u]
    BY <2>1, <2>2 DEF Named, Joining
  <2>7. CASE ~(Instrumented /\ batch[t] # 0)
    <3>1. log' = log /\ batch' = batch
      BY <1>4, <2>7 DEF AfterCreate, logVars
    <3>2. batch[t] # 0 => finished
      BY <2>7 DEF LogInv, Batches, Instrumented
    <3>3. Batches'
      BY <2>1, <2>2, <3>1, <3>2 DEF LogInv, Batches
    <3>4. LogIds' /\ TraceTellsLives'
      BY <2>1, <3>1 DEF LogInv, LogIds, TraceTellsLives
    <3>5. Births'
      BY <2>1, <2>4, <2>6, <3>1 DEF LogInv, Births
    <3>6. Joins'
      <4>1. ASSUME NEW i \in 1..Len(log), log[i].op = "JOIN"
            PROVE  \E d \in joined : /\ log[i].obj = myTid[d] /\ pc'[d] = "dead"
                                     /\ \A u \in Threads : Joining(u)' => target'[u] # d
        BY <1>0, <2>6, <4>1 DEF LogInv, Joins
      <4> QED
        BY <2>1, <3>1, <4>1 DEF Joins
    <3> QED
      BY <2>5, <3>3, <3>4, <3>5, <3>6 DEF LogInv
  <2>8. CASE Instrumented /\ batch[t] # 0
    <3> DEFINE b == batch[t]
    <3>1. /\ log' = [log EXCEPT ![b].obj = myTid[c]]
          /\ batch' = [batch EXCEPT ![t] = 0]
      BY <1>4, <2>3, <2>8 DEF AfterCreate, c
    <3>2. /\ b \in 1..Len(log) /\ log[b].op = "CREATE" /\ log[b].obj = NoTid
          /\ log[b].tid = myTid[t]
      BY <2>8 DEF LogInv, Batches
    <3>3. /\ Len(log) \in Nat /\ log \in Seq(LogEvent)
          /\ \A i \in 1..Len(log) : log[i].tid \in Nat /\ log[i].tid # NoTid
      BY SlotFacts DEF TypeOK
    <3> HIDE DEF b
    <3>4. /\ Len(log') = Len(log)
          /\ \A i \in 1..Len(log) : i # b => log'[i] = log[i]
      BY <3>1, <3>2, <3>3
    <3>5. log'[b].op = "CREATE" /\ log'[b].tid = myTid[t] /\ log'[b].obj = myTid[c]
      <4>1. log[b] \in LogEvent /\ log'[b] = [log[b] EXCEPT !.obj = myTid[c]]
        BY <3>1, <3>2, <3>3
      <4> QED
        BY <3>2, <4>1 DEF LogEvent
    <3>6. \A i \in 1..Len(log) : log'[i].tid = log[i].tid /\ log'[i].op = log[i].op
      BY <3>2, <3>4, <3>5
    <3>7. ~config.reuse
      <4>1. log # <<>>
        BY <3>2, <3>3
      <4> QED
        BY <4>1 DEF LogInv, LogIds
    <3>8. myTid[c] < tidCounter /\ myTid[c] # NoTid
      BY <2>3 DEF NameInv
    <3>9. \A d \in Threads : Named(d) /\ myTid[d] = myTid[c] => d = c
      BY <2>3, <3>7, NoTwoIds
    <3>10. \A i \in 1..Len(log) :
             /\ log[i].tid = myTid[c] \/ (log[i].op = "JOIN" /\ log[i].obj = myTid[c])
                  => b < i
             /\ ~(log[i].op = "CREATE" /\ log[i].obj = myTid[c])
      BY <2>3 DEF LogInv, Births, b
    <3>11. LogIds'
      <4>1. \A i \in 1..Len(log) :
              /\ log'[i].tid < tidCounter
              /\ log'[i].op = "CREATE" /\ log'[i].obj # NoTid => log'[i].obj < tidCounter
        BY <3>4, <3>5, <3>6, <3>8 DEF LogInv, LogIds
      <4> QED
        BY <2>1, <3>4, <3>7, <4>1 DEF LogIds
    <3>12. Batches'
      <4>1. ASSUME NEW u \in Threads, batch'[u] # 0
            PROVE  u # t /\ batch'[u] = batch[u] /\ batch[u] # b
        <5>1. u # t /\ batch'[u] = batch[u]
          BY <3>1, <4>1 DEF TypeOK
        <5>2. log[batch[u]].tid = myTid[u] /\ batch[u] \in 1..Len(log)
          BY <4>1, <5>1 DEF LogInv, Batches
        <5>3. Named(u) /\ Named(t)
          BY <2>1, <3>3, <5>2 DEF NameInv, Named
        <5>4. myTid[u] # myTid[t]
          BY <3>7, <5>1, <5>3, NoTwoIds
        <5> QED
          BY <3>2, <5>1, <5>2, <5>4
      <4>2. ASSUME NEW u \in Threads, batch'[u] # 0
            PROVE  /\ batch'[u] \in 1..Len(log') /\ started'
                   /\ log'[batch'[u]].op = "CREATE" /\ log'[batch'[u]].obj = NoTid
                   /\ log'[batch'[u]].tid = myTid'[u]
                   /\ pc'[u] \in {"spawn", "spin"} \/ finished'
        <5>1. u # t /\ batch'[u] = batch[u] /\ batch[u] # b /\ batch[u] # 0
          BY <4>1, <4>2
        <5>2. /\ batch[u] \in 1..Len(log) /\ started
              /\ log[batch[u]].op = "CREATE" /\ log[batch[u]].obj = NoTid
              /\ log[batch[u]].tid = myTid[u]
              /\ pc[u] \in {"spawn", "spin"} \/ finished
          BY <5>1 DEF LogInv, Batches
        <5> QED
          BY <2>1, <2>2, <3>4, <5>1, <5>2
      <4> QED
        BY <4>2 DEF Batches
    <3>13. Births'
      <4>1. ASSUME NEW u \in Threads, NEW d \in Threads, Creating(u, d)', Named(d)',
                   NEW i \in 1..Len(log)
            PROVE  /\ log'[i].tid = myTid[d] \/ (log'[i].op = "JOIN" /\ log'[i].obj = myTid[d])
                        => batch'[u] < i
                   /\ ~(log'[i].op = "CREATE" /\ log'[i].obj = myTid[d])
        <5>1. u # t /\ Creating(u, d) /\ Named(d)
          BY <2>4, <2>6, <4>1
        <5>2. batch'[u] = batch[u] /\ d # c
          BY <2>3, <3>1, <5>1 DEF TypeOK, LogInv, Creators
        <5>3. myTid[d] # myTid[c]
          BY <3>9, <5>1, <5>2
        <5>4. /\ log[i].tid = myTid[d] \/ (log[i].op = "JOIN" /\ log[i].obj = myTid[d])
                   => batch[u] < i
              /\ ~(log[i].op = "CREATE" /\ log[i].obj = myTid[d])
          BY <5>1 DEF LogInv, Births
        <5>5. CASE i = b
          BY <3>2, <3>5, <5>2, <5>3, <5>4, <5>5
        <5>6. CASE i # b
          BY <3>4, <5>2, <5>4, <5>6
        <5> QED
          BY <5>5, <5>6
      <4> QED
        BY <2>1, <3>4, <4>1 DEF Births
    <3>14. Joins'
      <4>1. ASSUME NEW i \in 1..Len(log), log'[i].op = "JOIN"
            PROVE  \E d \in joined : /\ log'[i].obj = myTid[d] /\ pc'[d] = "dead"
                                     /\ \A u \in Threads : Joining(u)' => target'[u] # d
        <5>1. i # b /\ log'[i] = log[i]
          BY <3>4, <3>5, <4>1
        <5>2. PICK d \in joined : /\ log[i].obj = myTid[d] /\ pc[d] = "dead"
                                  /\ \A u \in Threads : Joining(u) => target[u] # d
          BY <4>1, <5>1 DEF LogInv, Joins
        <5> QED
          BY <1>0, <2>6, <5>1, <5>2
      <4> QED
        BY <2>1, <3>4, <4>1 DEF Joins
    <3>15. TraceTellsLives'
      <4>1. ASSUME NEW i \in 1..Len(log), NEW j \in 1..Len(log),
                   log'[i].op = "CREATE", log'[i].obj # NoTid
            PROVE  /\ log'[j].tid = log'[i].obj => i < j
                   /\ log'[j].op = "CREATE" /\ log'[j].obj = log'[i].obj => i = j
                   /\ log'[j].op = "JOIN" /\ log'[j].obj = log'[i].obj => i < j
        <5>1. CASE i = b
          <6>1. log'[i].obj = myTid[c]
            BY <3>5, <5>1
          <6>2. j # b => log'[j] = log[j]
            BY <3>4
          <6>3. /\ log'[j].tid = myTid[c] => b < j
                /\ log'[j].op = "JOIN" /\ log'[j].obj = myTid[c] => b < j
            BY <3>5, <3>6, <3>10, <6>2
          <6> QED
            BY <3>10, <5>1, <6>1, <6>2, <6>3
        <5>2. CASE i # b /\ j = b
          <6>1. log'[i] = log[i] /\ log'[i].obj # myTid[c]
            BY <3>4, <3>10, <4>1, <5>2
          <6>2. log[j].tid = log[i].obj => i < j
            BY <4>1, <6>1 DEF LogInv, TraceTellsLives
          <6> QED
            BY <3>5, <3>6, <5>2, <6>1, <6>2
        <5>3. CASE i # b /\ j # b
          BY <3>4, <4>1, <5>3 DEF LogInv, TraceTellsLives
        <5> QED
          BY <5>1, <5>2, <5>3
      <4>2. ASSUME NEW i \in 1..Len(log), NEW j \in 1..Len(log), log'[i].op = "JOIN"
            PROVE  /\ log'[j].tid = log'[i].obj => j < i
                   /\ log'[j].op = "JOIN" /\ log'[j].obj = log'[i].obj => i = j
        <5>1. i # b /\ log'[i] = log[i]
          BY <3>4, <3>5, <4>2
        <5>2. /\ log[j].tid = log[i].obj => j < i
              /\ log[j].op = "JOIN" /\ log[j].obj = log[i].obj => i = j
          BY <4>2, <5>1 DEF LogInv, TraceTellsLives
        <5> QED
          BY <3>4, <3>5, <3>6, <5>1, <5>2
      <4> QED
        BY <3>4, <4>1, <4>2 DEF TraceTellsLives
    <3> QED
      BY <2>5, <3>11, <3>12, <3>13, <3>14, <3>15 DEF LogInv
  <2> QED
    BY <2>7, <2>8
<1>5. ASSUME NEW t \in Threads, BeginCreate(t), abort = "no"
      PROVE  LogInv'
  <2> DEFINE e == ThreadEvent("CREATE", t, NoTid)
  <2>1. /\ UNCHANGED <<config, joined, myTid, tidCounter, target, finished>>
        /\ pc[t] = "run" /\ pc' = [pc EXCEPT ![t] = "spawn"] /\ started'
        /\ log' = IF ~finished /\ config.log THEN Append(log, e) ELSE log
        /\ batch' = [batch EXCEPT ![t] = IF log' # log THEN Len(log') ELSE @]
    BY <1>5 DEF BeginCreate, LogNext, systemVars, registryVars, callVars
  <2>2. pc'[t] = "spawn" /\ \A u \in Threads \ {t} : pc'[u] = pc[u]
    BY <2>1 DEF TypeOK
  <2>3. \A u \in Threads :
          /\ Named(u)' = Named(u)
          /\ pc[u] = "dead" => pc'[u] = "dead"
          /\ batch[u] # 0 /\ pc[u] \in {"spawn", "spin"} => pc'[u] \in {"spawn", "spin"}
          /\ Joining(u)' => Joining(u) /\ target'[u] = target[u]
    BY <2>1, <2>2 DEF Named, Joining
  <2>4. \A u, d \in Threads : Creating(u, d)' => Creating(u, d) /\ u # t
    BY <2>1, <2>2 DEF Creating
  <2>5. Creators'
    BY <2>2, <2>4 DEF LogInv, Creators
  <2>6. CASE ~(~finished /\ config.log)
    <3>1. log' = log /\ batch' = batch
      BY <2>1, <2>6 DEF TypeOK
    <3> QED
      BY <2>1, <2>3, <2>4, <2>5, <3>1, LogKept
  <2>7. CASE ~finished /\ config.log
    <3>1. e.op = "CREATE" /\ e.obj = NoTid /\ e.tid = myTid[t]
      BY DEF ThreadEvent
    <3> HIDE DEF e
    <3>2. log' = Append(log, e) /\ log \in Seq(LogEvent)
      BY <2>1, <2>7 DEF TypeOK
    <3>3. /\ Len(log') = Len(log) + 1 /\ Len(log) \in Nat /\ log'[Len(log) + 1] = e
          /\ \A i \in 1..Len(log) : log'[i] = log[i]
      BY <3>2
    <3>4. batch'[t] = Len(log) + 1 /\ \A u \in Threads \ {t} : batch'[u] = batch[u]
      <4>1. log' # log
        BY <3>3
      <4> QED
        BY <2>1, <3>3, <4>1 DEF TypeOK
    <3>5. Batches'
      BY <2>1, <2>2, <3>1, <3>3, <3>4 DEF LogInv, Batches
    <3>6. Running(t)
      BY <2>1 DEF Running
    <3> QED
      BY <2>1, <2>3, <2>4, <2>5, <2>7, <3>1, <3>2, <3>4, <3>5, <3>6, LogAppended
  <2> QED
    BY <2>6, <2>7
<1>6. ASSUME NEW t \in Threads, AfterJoin(t) \/ Access(t), abort = "no"
      PROVE  LogInv'
  <2>1. PICK e \in {ThreadEvent("JOIN", t, remote[t]), ThreadEvent("ACCESS", t, NoTid)} :
          /\ log' = log \/ (config.log /\ log' = Append(log, e))
          /\ \/ e = ThreadEvent("ACCESS", t, NoTid)
             \/ e = ThreadEvent("JOIN", t, remote[t]) /\ pc[t] = "joined" /\ pc'[t] = "run"
    BY <1>6 DEF AfterJoin, Access, LogNext, TypeOK
  <2>2. /\ UNCHANGED <<config, joined, myTid, tidCounter, target, started, finished, batch>>
        /\ pc[t] \in {"joined", "run"} /\ pc'[t] = "run"
        /\ \A u \in Threads \ {t} : pc'[u] = pc[u]
    BY <1>6 DEF AfterJoin, Access, systemVars, registryVars, callVars, controlVars, TypeOK
  <2>3. \A u \in Threads :
          /\ Named(u)' = Named(u)
          /\ pc[u] = "dead" => pc'[u] = "dead"
          /\ batch[u] # 0 /\ pc[u] \in {"spawn", "spin"} => pc'[u] \in {"spawn", "spin"}
          /\ Joining(u)' => Joining(u) /\ target'[u] = target[u]
    BY <2>2 DEF Named, Joining
  <2>4. \A u, d \in Threads : Creating(u, d)' => Creating(u, d)
    BY <2>2 DEF Creating
  <2>5. Creators'
    BY <2>2, <2>4 DEF LogInv, Creators
  <2>6. CASE log' = log
    BY <2>2, <2>3, <2>4, <2>5, <2>6, LogKept
  <2>7. CASE config.log /\ log' = Append(log, e)
    <3>1. /\ e.tid = myTid[t]
          /\ \/ e.op \in {"CREATE", "ACCESS"} /\ e.obj = NoTid
             \/ /\ e.op = "JOIN" /\ pc[t] = "joined" /\ e.obj = myTid[target[t]]
                /\ ~Joining(t)'
      <4>1. pc[t] = "joined" => remote[t] = myTid[target[t]]
        BY DEF TableInv, LookupIsRight
      <4>2. ~Joining(t)'
        BY <2>2 DEF Joining
      <4> QED
        BY <2>1, <4>1, <4>2 DEF ThreadEvent
    <3>2. /\ Len(log) \in Nat /\ Len(log') = Len(log) + 1
          /\ \A i \in 1..Len(log) : log'[i] = log[i]
      <4>1. log \in Seq(LogEvent)
        BY DEF TypeOK
      <4> QED
        BY <2>7, <4>1
    <3>3. Batches'
      BY <2>2, <3>2 DEF LogInv, Batches
    <3>4. Running(t)
      BY <2>2 DEF Running
    <3> QED
      BY <2>2, <2>3, <2>4, <2>5, <2>7, <3>1, <3>3, <3>4, LogAppended
  <2> QED
    BY <2>1, <2>6, <2>7
<1>7. CASE UNCHANGED vars
  <2>1. UNCHANGED <<config, pc, joined, myTid, tidCounter, target, started, finished,
                    log, batch>>
    BY <1>7 DEF vars, systemVars, registryVars, callVars, logVars, controlVars
  <2>2. Creators'
    BY <2>1 DEF LogInv, Creators, Creating
  <2> QED
    BY <2>1, <2>2, LogKept DEF Named, Joining, Creating
<1> QED
  BY <1>1, <1>2, <1>3, <1>4, <1>5, <1>6, <1>7 DEF Next, ThreadStep

---------------------------------------------------------------------------
\* The four parts together are an inductive invariant.
Inv == TypeOK /\ NameInv /\ TableInv /\ LogInv

LEMMA InitInv == Init => Inv
<1> SUFFICES ASSUME Init
             PROVE  Inv
  OBVIOUS
<1>1. /\ Main \in Threads /\ MainHandle \in Handles /\ NoTid \notin Nat
      /\ MaxThread \in Nat /\ MaxThread > 0
  BY ThreadLifeAssumption DEF ThreadLifeAssumption
<1>2. /\ \A t \in Threads : pc[t] = (IF t = Main THEN "run" ELSE "new")
      /\ \A t \in Threads : myTid[t] = (IF t = Main THEN 0 ELSE NoTid)
      /\ pc[Main] = "run" /\ myTid[Main] = 0 /\ handle[Main] = MainHandle
      /\ idTable[MainHandle] = 0
  BY <1>1 DEF Init
<1>7. alive[0]
  <2>1. 0 \in 0..(MaxThread - 1) /\ alive = [i \in 0..(MaxThread - 1) |-> i = 0]
    BY <1>1 DEF Init
  <2> QED
    BY <2>1
<1>3. TypeOK
  <2>1. log \in Seq(LogEvent)
    BY DEF Init
  <2>2. alive \in [0..(MaxThread - 1) -> BOOLEAN]
    BY DEF Init
  <2>3. detached \in [Threads -> BOOLEAN]
    BY DEF Init
  <2>4. tidCounter \in 1..(MaxThread + 1)
    BY <1>1 DEF Init
  <2>5. /\ myTid \in [Threads -> Tids \union {NoTid}]
        /\ remote \in [Threads -> Tids \union {NoTid}]
        /\ pack \in [Threads -> Tids \union {NoTid}]
        /\ idTable \in [Handles -> Tids \union {NoTid}]
    <3>1. 0 \in Tids
      BY <1>1 DEF Tids
    <3> QED
      BY <3>1 DEF Init
  <2>6. \A t \in Threads : abort = "no" /\ myTid[t] # NoTid => myTid[t] < MaxThread
    BY <1>1, <1>2
  <2>7. /\ pc \in [Threads -> Places] /\ handle \in [Threads -> Handles]
        /\ target \in [Threads -> Threads \union {NoThread}]
        /\ batch \in [Threads -> Nat]
    BY <1>1 DEF Init, Places
  <2>8. /\ config \in Configs /\ reaped \subseteq Threads /\ shared \subseteq Threads
        /\ joined \subseteq Threads /\ started \in BOOLEAN /\ finished \in BOOLEAN
        /\ abort \in {"no", "range", "lookup"}
    BY <1>1 DEF Init
  <2> QED
    BY <2>1, <2>2, <2>3, <2>4, <2>5, <2>6, <2>7, <2>8 DEF TypeOK
<1>4. NameInv
  <2>1. \A t \in Threads : (Named(t) <=> t = Main) /\ (Running(t) <=> t = Main)
    BY <1>2 DEF Named, Running
  <2>2. tidCounter = 1 /\ NoTid # 0
    BY <1>1 DEF Init
  <2> QED
    BY <1>1, <1>2, <1>7, <2>1, <2>2 DEF NameInv, IdsAreDistinct
<1>5. TableInv
  <2>1. \A t \in Threads : /\ (Named(t) <=> t = Main) /\ ~Joining(t)
                           /\ (Holds(t) <=> t = Main)
    BY <1>2 DEF Named, Joining, Holds, Gone
  <2>2. LookupIsRight
    BY <1>2 DEF Init, LookupIsRight
  <2> QED
    BY <1>1, <1>2, <2>1, <2>2 DEF Init, TableInv
<1>6. LogInv
  <2>1. log = <<>> /\ Len(log) = 0 /\ \A i \in 1..Len(log) : FALSE
    BY DEF Init
  <2>2. \A t \in Threads : batch[t] = 0 /\ pc[t] # "spin"
    BY <1>2 DEF Init
  <2> QED
    BY <2>1, <2>2 DEF LogInv, LogIds, Creators, Creating, Batches, Births, Joins,
                      TraceTellsLives
<1> QED
  BY <1>3, <1>4, <1>5, <1>6 DEF Inv

LEMMA InvStep == Inv /\ [Next]_vars => Inv'
BY TypeStep, NameStep, TableStep, LogStep DEF Inv

LEMMA Invariance == Spec => []Inv
<1>1. Init => Inv
  BY InitInv
<1>2. Inv /\ [Next]_vars => Inv'
  BY InvStep
<1> QED
  BY <1>1, <1>2, PTL DEF Spec

\* Every variable stays in its type: the registry and the wrappers never use
\* an id past the end of the alive table, or the id of a thread that has none.
THEOREM TypeCorrect == Spec => []TypeOK
<1>1. Inv => TypeOK
  BY DEF Inv
<1> QED
  BY <1>1, Invariance, PTL

\* No two running threads have the same id, for any number of threads and with
\* ids reused or not.
THEOREM DistinctIds == Spec => []IdsAreDistinct
<1>1. Inv => IdsAreDistinct
  BY DEF Inv, NameInv
<1> QED
  BY <1>1, Invariance, PTL

\* pthread_join_wrapper always finds the thread it joins, by the right id.
THEOREM LookupsAreRight == Spec => []LookupIsRight
<1>1. Inv => LookupIsRight
  BY DEF Inv, TableInv
<1> QED
  BY <1>1, Invariance, PTL

\* The log tells the life of each thread: CREATE, its events, JOIN.
THEOREM LivesInOrder == Spec => []TraceTellsLives
<1>1. Inv => TraceTellsLives
  BY DEF Inv, LogInv
<1> QED
  BY <1>1, Invariance, PTL

=============================================================================
