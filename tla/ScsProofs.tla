----------------------------- MODULE ScsProofs -----------------------------
(***************************************************************************)
(* Proofs about Scs: types, mutual exclusion, the wakeup protocol.         *)
(***************************************************************************)
EXTENDS Scs, TLAPS

\* Every variable keeps its type, for any set of threads and any amounts of
\* money: in particular the uint64_t money slots of MoneyMngr.cpp never hold
\* anything outside 0..Modulus-1, wrapped around or not.
THEOREM TypeCorrect == Spec => []TypeOK
<1> USE ThreadsAssumption, MoneyAssumption, ParamAssumption
<1> USE DEF ThreadsAssumption, MoneyAssumption, ParamAssumption
<1>1. ASSUME Init
      PROVE  TypeOK
  <2>1. 1 % ResetInterval \in 0..(ResetInterval - 1)
    OBVIOUS
  <2>2. /\ initMoney \in [Threads -> 1..(Modulus - 1 - MaxMoney)]
        /\ money \in [Threads -> 0..(Modulus - 1)]
    BY <1>1 DEF Init
  <2> QED
    BY <1>1, <2>1, <2>2 DEF Init, TypeOK, Places, Hooks
<1>2. TypeOK /\ [Next]_vars => TypeOK'
  <2> SUFFICES ASSUME TypeOK, [Next]_vars
               PROVE  TypeOK'
    OBVIOUS
  <2> USE DEF TypeOK, schedVars, supVars, endVars, history
  <2>1. ASSUME NEW t \in Threads, NEW h \in Hooks, CallHook(t, h)
        PROVE  TypeOK'
    <3>1. moved' \in BOOLEAN
      BY <2>1 DEF CallHook, CountTick
    <3> QED
      BY <2>1, <3>1 DEF CallHook, Places, Hooks
  <2>2. ASSUME NEW t \in Threads, ReturnFromOp(t)
        PROVE  TypeOK'
    BY <2>2 DEF ReturnFromOp, Places, Hooks
  <2>3. ASSUME NEW t \in Threads, Acquire(t)
        PROVE  TypeOK'
    BY <2>3 DEF Acquire, Places
  <2>4. ASSUME NEW t \in Threads, Block(t)
        PROVE  TypeOK'
    BY <2>4 DEF Block, Places, Release
  <2>5. ASSUME NEW t \in Threads, BlockAgain(t)
        PROVE  TypeOK'
    BY <2>5 DEF BlockAgain, Places, Release
  <2>6. ASSUME NEW t \in Threads, Pay(t)
        PROVE  TypeOK'
    <3>1. Dec(money[t]) \in 0..(Modulus - 1)
      BY DEF Dec
    <3>2. Wrap(Dec(money[t]) + MaxMoney) \in 0..(Modulus - 1)
      BY <3>1 DEF Wrap
    <3>3. money' \in [Threads -> 0..(Modulus - 1)]
      BY <2>6, <3>1, <3>2 DEF Pay
    <3> QED
      BY <2>6, <3>3 DEF Pay, Places, Hooks, Release
  <2>7. ASSUME NEW t \in Threads, LeaveSync(t)
        PROVE  TypeOK'
    <3>1. Wrap(money[t] - MaxMoney) \in 0..(Modulus - 1)
      BY DEF Wrap
    <3> QED
      BY <2>7, <3>1 DEF LeaveSync, Places, Hooks, Release
  <2>8. ASSUME NEW t \in Threads, SpuriousWakeup(t)
        PROVE  TypeOK'
    BY <2>8 DEF SpuriousWakeup, Places
  <2>9. ASSUME NEW t \in Threads, Tick(t)
        PROVE  TypeOK'
    BY <2>9 DEF Tick
  <2>10. ASSUME NEW t \in Threads, SetFinished(t)
         PROVE  TypeOK'
    BY <2>10 DEF SetFinished, Places
  <2>11. ASSUME NEW t \in Threads, StopSupervisor(t)
         PROVE  TypeOK'
    BY <2>11 DEF StopSupervisor, Places
  <2>12. ASSUME NEW t \in Threads, JoinSupervisor(t)
         PROVE  TypeOK'
    BY <2>12 DEF JoinSupervisor, Places
  <2>13. CASE Poll
    BY <2>13 DEF Poll
  <2>14. CASE LeaveLoop
    BY <2>14 DEF LeaveLoop
  <2>15. CASE SupAcquire
    BY <2>15 DEF SupAcquire
  <2>16. CASE StartNewEpoch
    <3>1. round' \in 0..(ResetInterval - 1)
      BY <2>16 DEF StartNewEpoch, EpochBookkeeping
    <3>2. initMoney' \in [Threads -> 1..(Modulus - 1 - MaxMoney)]
      BY <2>16 DEF StartNewEpoch, EpochBookkeeping
    <3>3. pc' \in [Threads -> Places]
      BY <2>16 DEF StartNewEpoch, EpochBookkeeping, Places
    <3> QED
      BY <2>16, <3>1, <3>2, <3>3 DEF StartNewEpoch, EpochBookkeeping, Release
  <2>17. CASE ProcessEnded
    BY <2>17 DEF ProcessEnded, vars
  <2>18. CASE UNCHANGED vars
    BY <2>18 DEF vars
  <2> QED
    BY <2>1, <2>2, <2>3, <2>4, <2>5, <2>6, <2>7, <2>8, <2>9, <2>10, <2>11,
       <2>12, <2>13, <2>14, <2>15, <2>16, <2>17, <2>18
    DEF Next, ThreadStep, SupervisorStep
<1> QED
  BY <1>1, <1>2, PTL DEF Spec

\* Whoever is in a critical section owns __mutex and nobody else does: no
\* money slot is read by one thread and written by another in between.
THEOREM MutualExclusion == Spec => []Exclusive
<1> USE ThreadsAssumption DEF ThreadsAssumption
<1>1. Init => Exclusive
  BY DEF Init, Exclusive, Critical
<1>2. TypeOK /\ Exclusive /\ [Next]_vars => Exclusive'
  <2> SUFFICES ASSUME TypeOK, Exclusive, [Next]_vars
               PROVE  Exclusive'
    OBVIOUS
  <2> USE DEF Exclusive, TypeOK, Critical, Release, schedVars, supVars, endVars, history
  <2>1. ASSUME NEW t \in Threads, NEW h \in Hooks, CallHook(t, h)
        PROVE  Exclusive'
    BY <2>1 DEF CallHook
  <2>2. ASSUME NEW t \in Threads, ReturnFromOp(t)
        PROVE  Exclusive'
    BY <2>2 DEF ReturnFromOp
  <2>3. ASSUME NEW t \in Threads, Acquire(t)
        PROVE  Exclusive'
    BY <2>3 DEF Acquire
  <2>4. ASSUME NEW t \in Threads, Block(t)
        PROVE  Exclusive'
    BY <2>4 DEF Block
  <2>5. ASSUME NEW t \in Threads, BlockAgain(t)
        PROVE  Exclusive'
    BY <2>5 DEF BlockAgain
  <2>6. ASSUME NEW t \in Threads, Pay(t)
        PROVE  Exclusive'
    BY <2>6 DEF Pay
  <2>7. ASSUME NEW t \in Threads, LeaveSync(t)
        PROVE  Exclusive'
    BY <2>7 DEF LeaveSync
  <2>8. ASSUME NEW t \in Threads, SpuriousWakeup(t)
        PROVE  Exclusive'
    BY <2>8 DEF SpuriousWakeup
  <2>9. ASSUME NEW t \in Threads, Tick(t)
        PROVE  Exclusive'
    BY <2>9 DEF Tick
  <2>10. ASSUME NEW t \in Threads, SetFinished(t)
        PROVE  Exclusive'
    BY <2>10 DEF SetFinished
  <2>11. ASSUME NEW t \in Threads, StopSupervisor(t)
        PROVE  Exclusive'
    BY <2>11 DEF StopSupervisor
  <2>12. ASSUME NEW t \in Threads, JoinSupervisor(t)
        PROVE  Exclusive'
    BY <2>12 DEF JoinSupervisor
  <2>13. CASE Poll
    BY <2>13 DEF Poll
  <2>14. CASE LeaveLoop
    BY <2>14 DEF LeaveLoop
  <2>15. CASE SupAcquire
    BY <2>15 DEF SupAcquire
  <2>16. CASE StartNewEpoch
    BY <2>16 DEF StartNewEpoch, EpochBookkeeping
  <2>17. CASE ProcessEnded
    BY <2>17 DEF ProcessEnded, vars
  <2>18. CASE UNCHANGED vars
    BY <2>18 DEF vars
  <2> QED
    BY <2>1, <2>2, <2>3, <2>4, <2>5, <2>6, <2>7, <2>8, <2>9,
       <2>10, <2>11, <2>12, <2>13, <2>14, <2>15, <2>16, <2>17, <2>18
    DEF Next, ThreadStep, SupervisorStep
<1> QED
  BY <1>1, <1>2, TypeCorrect, PTL DEF Spec

\* No thread sleeps through an epoch, sleeps with money, or is let through
\* without money, for any number of threads and any amounts given.
THEOREM WakeupProtocol == Spec => []WakeInv
<1> USE ThreadsAssumption, MoneyAssumption
<1> USE DEF ThreadsAssumption, MoneyAssumption
<1>1. Init => WakeInv
  BY DEF Init, WakeInv, NoLostWakeup, BlockedHasNoMoney, WokenHasMoney, Blocked
<1>2. TypeOK /\ Exclusive /\ WakeInv /\ [Next]_vars => WakeInv'
  <2> SUFFICES ASSUME TypeOK, Exclusive, WakeInv, [Next]_vars
               PROVE  WakeInv'
    OBVIOUS
  <2> USE DEF WakeInv, NoLostWakeup, BlockedHasNoMoney, WokenHasMoney, Blocked,
             TypeOK, Exclusive, Critical, Release,
             schedVars, supVars, endVars, history
  <2>1. ASSUME NEW t \in Threads, NEW h \in Hooks, CallHook(t, h)
        PROVE  WakeInv'
    BY <2>1 DEF CallHook
  <2>2. ASSUME NEW t \in Threads, ReturnFromOp(t)
        PROVE  WakeInv'
    BY <2>2 DEF ReturnFromOp
  <2>3. ASSUME NEW t \in Threads, Acquire(t)
        PROVE  WakeInv'
    BY <2>3 DEF Acquire
  <2>4. ASSUME NEW t \in Threads, Block(t)
        PROVE  WakeInv'
    BY <2>4 DEF Block
  <2>5. ASSUME NEW t \in Threads, BlockAgain(t)
        PROVE  WakeInv'
    BY <2>5 DEF BlockAgain
  <2>6. ASSUME NEW t \in Threads, Pay(t)
        PROVE  WakeInv'
    BY <2>6 DEF Pay
  <2>7. ASSUME NEW t \in Threads, LeaveSync(t)
        PROVE  WakeInv'
    BY <2>7 DEF LeaveSync
  <2>8. ASSUME NEW t \in Threads, SpuriousWakeup(t)
        PROVE  WakeInv'
    BY <2>8 DEF SpuriousWakeup
  <2>9. ASSUME NEW t \in Threads, Tick(t)
        PROVE  WakeInv'
    BY <2>9 DEF Tick
  <2>10. ASSUME NEW t \in Threads, SetFinished(t)
        PROVE  WakeInv'
    BY <2>10 DEF SetFinished
  <2>11. ASSUME NEW t \in Threads, StopSupervisor(t)
        PROVE  WakeInv'
    BY <2>11 DEF StopSupervisor
  <2>12. ASSUME NEW t \in Threads, JoinSupervisor(t)
        PROVE  WakeInv'
    BY <2>12 DEF JoinSupervisor
  <2>13. CASE Poll
    BY <2>13 DEF Poll
  <2>14. CASE LeaveLoop
    BY <2>14 DEF LeaveLoop
  <2>15. CASE SupAcquire
    BY <2>15 DEF SupAcquire
  <2>16. CASE StartNewEpoch
    BY <2>16 DEF StartNewEpoch, EpochBookkeeping
  <2>17. CASE ProcessEnded
    BY <2>17 DEF ProcessEnded, vars
  <2>18. CASE UNCHANGED vars
    BY <2>18 DEF vars
  <2> QED
    BY <2>1, <2>2, <2>3, <2>4, <2>5, <2>6, <2>7, <2>8, <2>9,
       <2>10, <2>11, <2>12, <2>13, <2>14, <2>15, <2>16, <2>17, <2>18
    DEF Next, ThreadStep, SupervisorStep
<1> QED
  BY <1>1, <1>2, TypeCorrect, MutualExclusion, PTL DEF Spec

\* A thread asleep on the condition variable has not slept through the start
\* of an epoch.
THEOREM NoWakeupLost == Spec => []NoLostWakeup
<1>1. WakeInv => NoLostWakeup
  BY DEF WakeInv
<1> QED
  BY <1>1, WakeupProtocol, PTL

\* The assertion of blockCurrThread holds for as long as the thread is blocked.
THEOREM BlockedIsPoor == Spec => []BlockedHasNoMoney
<1>1. WakeInv => BlockedHasNoMoney
  BY DEF WakeInv
<1> QED
  BY <1>1, WakeupProtocol, PTL

\* A thread that a new epoch lets through has money to pay with.
THEOREM WokenIsRich == Spec => []WokenHasMoney
<1>1. WakeInv => WokenHasMoney
  BY DEF WakeInv
<1> QED
  BY <1>1, WakeupProtocol, PTL

\* Which hook a thread can be in at each place.
HookInv ==
  \A t \in Threads :
    /\ pc[t] \in {"run", "exiting", "joining", "exited"} => hook[t] = "none"
    /\ pc[t] = "op" => hook[t] \in Opening
    /\ pc[t] = "leave" => hook[t] = "afterSync"
    /\ pc[t] \in {"check", "wait", "woken", "recheck"}
         => hook[t] \in Entering \union {"func"}
    /\ pc[t] = "lock" => hook[t] # "none"

\* A thread is at a place its hook allows.
LEMMA HookCorrect == Spec => []HookInv
<1>1. Init => HookInv
  BY DEF Init, HookInv
<1>2. TypeOK /\ HookInv /\ [Next]_vars => HookInv'
  <2> SUFFICES ASSUME TypeOK, HookInv, [Next]_vars
               PROVE  HookInv'
    OBVIOUS
  <2> USE DEF HookInv, TypeOK, Hooks, Opening, Entering, schedVars, supVars, endVars,
             history
  <2>1. ASSUME NEW t \in Threads, NEW h \in Hooks, CallHook(t, h)
        PROVE  HookInv'
    BY <2>1 DEF CallHook
  <2>2. ASSUME NEW t \in Threads, ReturnFromOp(t)
        PROVE  HookInv'
    BY <2>2 DEF ReturnFromOp
  <2>3. ASSUME NEW t \in Threads, Acquire(t)
        PROVE  HookInv'
    BY <2>3 DEF Acquire
  <2>4. ASSUME NEW t \in Threads, Block(t)
        PROVE  HookInv'
    BY <2>4 DEF Block
  <2>5. ASSUME NEW t \in Threads, BlockAgain(t)
        PROVE  HookInv'
    BY <2>5 DEF BlockAgain
  <2>6. ASSUME NEW t \in Threads, Pay(t)
        PROVE  HookInv'
    BY <2>6 DEF Pay
  <2>7. ASSUME NEW t \in Threads, LeaveSync(t)
        PROVE  HookInv'
    BY <2>7 DEF LeaveSync
  <2>8. ASSUME NEW t \in Threads, SpuriousWakeup(t)
        PROVE  HookInv'
    BY <2>8 DEF SpuriousWakeup
  <2>9. ASSUME NEW t \in Threads, Tick(t)
        PROVE  HookInv'
    BY <2>9 DEF Tick
  <2>10. ASSUME NEW t \in Threads, SetFinished(t)
        PROVE  HookInv'
    BY <2>10 DEF SetFinished
  <2>11. ASSUME NEW t \in Threads, StopSupervisor(t)
        PROVE  HookInv'
    BY <2>11 DEF StopSupervisor
  <2>12. ASSUME NEW t \in Threads, JoinSupervisor(t)
        PROVE  HookInv'
    BY <2>12 DEF JoinSupervisor
  <2>13. CASE Poll
    BY <2>13 DEF Poll
  <2>14. CASE LeaveLoop
    BY <2>14 DEF LeaveLoop
  <2>15. CASE SupAcquire
    BY <2>15 DEF SupAcquire
  <2>16. CASE StartNewEpoch
    BY <2>16 DEF StartNewEpoch, EpochBookkeeping
  <2>17. CASE ProcessEnded
    BY <2>17 DEF ProcessEnded, vars
  <2>18. CASE UNCHANGED vars
    BY <2>18 DEF vars
  <2> QED
    BY <2>1, <2>2, <2>3, <2>4, <2>5, <2>6, <2>7, <2>8, <2>9,
       <2>10, <2>11, <2>12, <2>13, <2>14, <2>15, <2>16, <2>17, <2>18
    DEF Next, ThreadStep, SupervisorStep
<1> QED
  BY <1>1, <1>2, TypeCorrect, PTL DEF Spec

\* The account of a thread whose marks are balanced: what it was given is
\* what it has, less the mark of an operation in progress, and what it paid.
Mark(t) == IF InOp(t) THEN MaxMoney ELSE 0
RationInv ==
  \A t \in clean : /\ money[t] + spent[t] = ration[t] + Mark(t)
                   /\ money[t] >= Mark(t)

\* The account of every thread with balanced marks adds up.
LEMMA RationAccount == Spec => []RationInv
<1> USE ThreadsAssumption, MoneyAssumption
<1> USE DEF ThreadsAssumption, MoneyAssumption
<1>1. ASSUME Init
      PROVE  RationInv
  <2>1. initMoney \in [Threads -> 1..(Modulus - 1 - MaxMoney)]
    BY <1>1 DEF Init
  <2>2. /\ money = initMoney
        /\ ration = initMoney
        /\ spent = [t \in Threads |-> 0]
        /\ clean = Threads
    BY <1>1 DEF Init
  <2>3. \A t \in Threads : Mark(t) = 0
    BY <1>1 DEF Init, Mark, InOp
  <2>4. ASSUME NEW t \in clean
        PROVE  money[t] + spent[t] = ration[t] + Mark(t) /\ money[t] >= Mark(t)
    BY <2>1, <2>2, <2>3, <2>4
  <2> QED
    BY <2>4 DEF RationInv
<1>2. TypeOK /\ HookInv /\ WakeInv /\ RationInv /\ [Next]_vars => RationInv'
  <2> SUFFICES ASSUME TypeOK, HookInv, WakeInv, RationInv, [Next]_vars
               PROVE  RationInv'
    OBVIOUS
  <2> USE DEF RationInv, Mark, InOp, TypeOK, schedVars, supVars, endVars, history
  <2>1. ASSUME NEW t \in Threads, NEW h \in Hooks, CallHook(t, h)
        PROVE  RationInv'
    BY <2>1 DEF CallHook, HookInv, Opening
  <2>2. ASSUME NEW t \in Threads, ReturnFromOp(t)
        PROVE  RationInv'
    BY <2>2 DEF ReturnFromOp
  <2>3. ASSUME NEW t \in Threads, Acquire(t)
        PROVE  RationInv'
    BY <2>3 DEF Acquire
  <2>4. ASSUME NEW t \in Threads, Block(t)
        PROVE  RationInv'
    BY <2>4 DEF Block
  <2>5. ASSUME NEW t \in Threads, BlockAgain(t)
        PROVE  RationInv'
    BY <2>5 DEF BlockAgain
  <2>6. ASSUME NEW t \in Threads, Pay(t)
        PROVE  RationInv'
    <3>1. money[t] \in Nat /\ money[t] > 0
      BY <2>6 DEF Pay, WakeInv, WokenHasMoney
    <3>2. CASE hook[t] \in Opening /\ t \in clean
      <4>1. money[t] + spent[t] = ration[t]
        BY <2>6, <3>2 DEF Pay, Opening
      <4>2. money[t] <= ration[t]
        BY <4>1, <3>2
      <4>3. Wrap(Dec(money[t]) + MaxMoney) = money[t] - 1 + MaxMoney
        BY <3>1, <3>2, <4>2 DEF Wrap, Dec
      <4>4. money' = [money EXCEPT ![t] = money[t] - 1 + MaxMoney]
        BY <2>6, <3>2, <4>3 DEF Pay, Opening, Entering
      <4>5. pc'[t] = "op" /\ clean' = clean
        BY <2>6, <3>2 DEF Pay, Opening
      <4> QED
        BY <2>6, <3>1, <3>2, <4>1, <4>4, <4>5 DEF Pay
    <3>3. CASE hook[t] = "func" /\ t \in clean
      <4>1. Dec(money[t]) = money[t] - 1
        BY <3>1 DEF Dec
      <4>2. money' = [money EXCEPT ![t] = money[t] - 1]
        BY <2>6, <3>3, <4>1 DEF Pay, Entering
      <4>3. pc'[t] = "run" /\ hook'[t] = "none" /\ clean' = clean
        BY <2>6, <3>3 DEF Pay, Opening
      <4> QED
        BY <2>6, <3>1, <3>3, <4>2, <4>3 DEF Pay
    <3>4. CASE t \notin clean'
      BY <2>6, <3>4 DEF Pay
    <3>5. hook[t] \in Opening \/ hook[t] = "func" \/ hook[t] = "afterUnlock"
      BY <2>6 DEF Pay, HookInv, Opening, Entering
    <3> QED
      BY <2>6, <3>2, <3>3, <3>4, <3>5 DEF Pay
  <2>7. ASSUME NEW t \in Threads, LeaveSync(t)
        PROVE  RationInv'
    <3>1. hook[t] = "afterSync"
      BY <2>7 DEF LeaveSync, HookInv
    <3>2. CASE t \in clean
      <4>1. Wrap(money[t] - MaxMoney) = money[t] - MaxMoney
        BY <3>1, <3>2 DEF Wrap
      <4>2. money' = [money EXCEPT ![t] = money[t] - MaxMoney]
        BY <2>7, <4>1 DEF LeaveSync
      <4> QED
        BY <2>7, <3>1, <3>2, <4>2 DEF LeaveSync
    <3>3. CASE t \notin clean
      BY <2>7, <3>3 DEF LeaveSync
    <3> QED
      BY <3>2, <3>3
  <2>8. ASSUME NEW t \in Threads, SpuriousWakeup(t)
        PROVE  RationInv'
    BY <2>8 DEF SpuriousWakeup
  <2>9. ASSUME NEW t \in Threads, Tick(t)
        PROVE  RationInv'
    BY <2>9 DEF Tick
  <2>10. ASSUME NEW t \in Threads, SetFinished(t)
        PROVE  RationInv'
    BY <2>10 DEF SetFinished
  <2>11. ASSUME NEW t \in Threads, StopSupervisor(t)
        PROVE  RationInv'
    BY <2>11 DEF StopSupervisor
  <2>12. ASSUME NEW t \in Threads, JoinSupervisor(t)
        PROVE  RationInv'
    BY <2>12 DEF JoinSupervisor
  <2>13. CASE Poll
    BY <2>13 DEF Poll
  <2>14. CASE LeaveLoop
    BY <2>14 DEF LeaveLoop
  <2>15. CASE SupAcquire
    BY <2>15 DEF SupAcquire
  <2>16. CASE StartNewEpoch
    BY <2>16 DEF StartNewEpoch, EpochBookkeeping
  <2>17. CASE ProcessEnded
    BY <2>17 DEF ProcessEnded, vars
  <2>18. CASE UNCHANGED vars
    BY <2>18 DEF vars
  <2> QED
    BY <2>1, <2>2, <2>3, <2>4, <2>5, <2>6, <2>7, <2>8, <2>9,
       <2>10, <2>11, <2>12, <2>13, <2>14, <2>15, <2>16, <2>17, <2>18
    DEF Next, ThreadStep, SupervisorStep
<1> QED
  BY <1>1, <1>2, TypeCorrect, HookCorrect, WakeupProtocol, PTL DEF Spec

\* A thread with balanced marks passes no more hooks in an epoch than it was
\* given units of money.
THEOREM RationIsKept == Spec => []RationKept
<1>1. TypeOK /\ RationInv => RationKept
  BY MoneyAssumption DEF MoneyAssumption, TypeOK, RationInv, RationKept, Mark
<1> QED
  BY <1>1, TypeCorrect, RationAccount, PTL

============================================================================
