---------------------------- MODULE LoggerProofs ----------------------------
(***************************************************************************)
(* Proofs about Logger: types, batches, ownership of slots, and that it    *)
(* implements EventLog, for any number of threads and slots.               *)
(***************************************************************************)
EXTENDS Logger, TLAPS

\* What the variables of thread t say about each other at each place.  Where
\* t logs the events of a batch, the slots it has still to ask for are as
\* many as the events it has still to log.
Stage(t) ==
  /\ pc[t] \notin {"write", "copy"} => slots[t] = <<>>
  /\ InBatch(t) => config.enabled
  /\ \/ pc[t] = "out" /\ ~finished
     \/ pc[t] \in {"start", "fetch2", "saving", "saved", "dumping", "dumped"}
     \/ pc[t] \in {"fetch", "write", "copy"} /\ kind[t] \in {"single", "pair"}
     => ~InBatch(t)
  /\ pc[t] = "start" => /\ todo[t] \in 1..3
                        /\ kind[t] \in {"libc", "create"}
                        /\ kind[t] = "create" => todo[t] = 1
                        /\ kind[t] = "libc" => config.enabled
  /\ pc[t] = "creating" => /\ kind[t] = "create" /\ todo[t] = 1
                           /\ InBatch(t) => batch[t].pos = 0 /\ batch[t].sz = 1
  /\ pc[t] = "fetch" => /\ todo[t] >= 1
                        /\ kind[t] # "pair"
                        /\ kind[t] = "single" => todo[t] = 1
                        /\ InBatch(t) => batch[t].pos + todo[t] = batch[t].sz
  /\ pc[t] = "fetch2" => kind[t] = "pair" /\ todo[t] = 2
  /\ pc[t] \in {"write", "copy"} =>
       /\ todo[t] >= 1
       /\ kind[t] = "single" => todo[t] = 1
       /\ kind[t] = "pair" => Len(slots[t]) = todo[t]
       /\ kind[t] # "pair" => Len(slots[t]) = 1
       /\ InBatch(t) => batch[t].pos + todo[t] = batch[t].sz + 1
  /\ pc[t] = "end" /\ InBatch(t) => batch[t].pos = batch[t].sz

BatchOK(t) ==
  IF InBatch(t)
  THEN /\ batch[t].id \in Nat /\ batch[t].pos \in Nat /\ batch[t].sz \in Nat
       /\ batch[t].pos <= batch[t].sz
       /\ batch[t].id + batch[t].sz <= logSz
  ELSE batch[t] = NoBatch

CallInv == \A t \in Threads : Stage(t) /\ BatchOK(t)

\* The part of the type invariant that the threads' calls depend on.
CallTypes ==
  /\ pc \in [Threads -> Places]
  /\ kind \in [Threads -> Kinds]
  /\ todo \in [Threads -> Nat]
  /\ batch \in [Threads -> BatchType]
  /\ slots \in [Threads -> Seq(Nat)]
  /\ logSz \in Nat

\* A step of a thread keeps what is said of the others.
LEMMA OthersKeep ==
  ASSUME NEW u \in Threads, Stage(u), BatchOK(u),
         logSz \in Nat, logSz' \in Nat, logSz <= logSz',
         finished => finished',
         config' = config, pc'[u] = pc[u], kind'[u] = kind[u],
         todo'[u] = todo[u], batch'[u] = batch[u], slots'[u] = slots[u]
  PROVE  Stage(u)' /\ BatchOK(u)'
<1>1. InBatch(u)' = InBatch(u)
  BY DEF InBatch
<1>2. Stage(u)'
  BY <1>1 DEF Stage
<1>3. BatchOK(u)'
  <2>1. CASE InBatch(u)
    BY <2>1, <1>1 DEF BatchOK
  <2>2. CASE ~InBatch(u)
    BY <2>2, <1>1 DEF BatchOK, NoBatch
  <2> QED
    BY <2>1, <2>2
<1> QED
  BY <1>2, <1>3

LEMMA EmptySeq == \A s \in Seq(Nat) : Len(s) = 0 <=> s = <<>>
  OBVIOUS

LEMMA CallStep ==
  CallTypes /\ CallInv /\ [Next]_vars => CallInv'
<1> USE LoggerAssumption
<1> USE DEF LoggerAssumption, BatchType
<1> SUFFICES ASSUME CallTypes, CallInv, [Next]_vars
             PROVE  CallInv'
  OBVIOUS
<1>1. ASSUME NEW t \in Threads, NEW k \in Kinds, NEW n \in LibcSizes \union {1, 2}, EnterHook(t, k, n)
       PROVE  CallInv'
  <2>1. \A u \in Threads \ {t} : Stage(u)' /\ BatchOK(u)'
    BY <1>1, OthersKeep DEF EnterHook, CallTypes, CallInv, callVars, logVars, endVars
  <2>2. Stage(t)'
    BY <1>1 DEF EnterHook, CallTypes, CallInv, Stage, BatchOK, InBatch, NoBatch, callVars, logVars, endVars, Places, Kinds
  <2>3. BatchOK(t)'
    BY <1>1 DEF EnterHook, CallTypes, CallInv, Stage, BatchOK, InBatch, NoBatch, callVars, logVars, endVars
  <2> QED
    BY <2>1, <2>2, <2>3 DEF CallInv
<1>2. ASSUME NEW t \in Threads, StartBatch(t)
       PROVE  CallInv'
  <2>1. \A u \in Threads \ {t} : Stage(u)' /\ BatchOK(u)'
    BY <1>2, OthersKeep DEF StartBatch, CallTypes, CallInv, callVars, endVars
  <2>2. /\ slots[t] = <<>> /\ ~InBatch(t) /\ pc[t] = "start"
        /\ todo[t] \in 1..3 /\ kind[t] \in {"libc", "create"}
        /\ kind[t] = "create" => todo[t] = 1
        /\ kind[t] = "libc" => config.enabled
        /\ todo' = todo /\ kind' = kind /\ slots' = slots /\ config' = config
    BY <1>2 DEF StartBatch, CallInv, Stage, endVars
  <2>3. pc'[t] = IF kind[t] = "create" THEN "creating" ELSE "fetch"
    BY <1>2 DEF StartBatch, CallTypes
  <2>4. CASE config.enabled /\ (kind[t] = "create" \/ todo[t] > 1)
    <3>1. batch'[t] = [id |-> logSz, pos |-> 0, sz |-> todo[t]]
          /\ logSz' = logSz + todo[t]
      BY <1>2, <2>2, <2>4 DEF StartBatch, CallTypes
    <3>2. batch'[t].pos = 0 /\ batch'[t].sz = todo[t] /\ batch'[t].id = logSz
      BY <3>1
    <3>3. Stage(t)'
      BY <2>2, <2>3, <2>4, <3>2 DEF Stage
    <3>4. BatchOK(t)'
      BY <2>2, <3>1, <3>2 DEF BatchOK, InBatch, CallTypes
    <3> QED
      BY <2>1, <3>3, <3>4 DEF CallInv
  <2>5. CASE ~(config.enabled /\ (kind[t] = "create" \/ todo[t] > 1))
    <3>1. batch' = batch /\ logSz' = logSz
      BY <1>2, <2>2, <2>5 DEF StartBatch
    <3>2. ~InBatch(t)' /\ BatchOK(t)'
      BY <2>2, <3>1 DEF CallInv, BatchOK, InBatch, NoBatch
    <3>3. Stage(t)'
      BY <2>2, <2>3, <3>2 DEF Stage
    <3> QED
      BY <2>1, <3>2, <3>3 DEF CallInv
  <2> QED
    BY <2>4, <2>5
<1>3. ASSUME NEW t \in Threads, AfterCreate(t)
       PROVE  CallInv'
  <2>1. \A u \in Threads \ {t} : Stage(u)' /\ BatchOK(u)'
    BY <1>3, OthersKeep DEF AfterCreate, CallTypes, CallInv, callVars, logVars,
                            endVars
  <2>2. /\ slots[t] = <<>> /\ pc[t] = "creating"
        /\ todo[t] = 1 /\ kind[t] = "create"
        /\ InBatch(t) => /\ config.enabled
                         /\ batch[t].pos = 0 /\ batch[t].sz = 1
        /\ UNCHANGED <<todo, kind, slots, batch, logSz, config, finished>>
    BY <1>3 DEF AfterCreate, CallInv, Stage, callVars, logVars, endVars
  <2>3. InBatch(t)' = InBatch(t) /\ BatchOK(t)'
    BY <2>2 DEF CallInv, BatchOK, InBatch, NoBatch
  <2>4. pc'[t] = IF finished THEN "out"
                 ELSE IF config.enabled THEN "fetch" ELSE "end"
    BY <1>3 DEF AfterCreate, CallTypes
  <2>5. Stage(t)'
    BY <2>2, <2>3, <2>4 DEF Stage
  <2> QED
    BY <2>1, <2>3, <2>5 DEF CallInv
<1>4. ASSUME NEW t \in Threads, Fetch(t)
       PROVE  CallInv'
  <2>1. /\ slots[t] = <<>> /\ pc[t] = "fetch"
        /\ todo[t] \in Nat /\ todo[t] >= 1 /\ kind[t] # "pair"
        /\ kind[t] = "single" => todo[t] = 1 /\ ~InBatch(t)
        /\ InBatch(t) => /\ config.enabled
                         /\ batch[t].pos + todo[t] = batch[t].sz
    BY <1>4 DEF Fetch, CallInv, CallTypes, Stage
  <2>2. /\ UNCHANGED <<todo, kind, config, finished>>
        /\ pc' = [pc EXCEPT ![t] = "write"]
    BY <1>4 DEF Fetch, endVars
  <2>3. pc'[t] = "write"
    BY <2>2 DEF CallTypes
  <2>4. CASE InBatch(t)
    <3>1. /\ slots' = [slots EXCEPT ![t] = <<batch[t].id + batch[t].pos>>]
          /\ batch' = [batch EXCEPT ![t].pos = @ + 1]
          /\ logSz' = logSz
      BY <1>4, <2>4 DEF Fetch
    <3>2. \A u \in Threads \ {t} : Stage(u)' /\ BatchOK(u)'
      BY <2>2, <3>1, OthersKeep DEF CallTypes, CallInv
    <3>3. /\ Len(slots'[t]) = 1 /\ batch'[t].id = batch[t].id
          /\ batch'[t].pos = batch[t].pos + 1 /\ batch'[t].sz = batch[t].sz
      BY <3>1 DEF CallTypes
    <3>4. InBatch(t)' /\ BatchOK(t)'
      BY <2>1, <2>4, <3>1, <3>3 DEF CallInv, BatchOK, InBatch
    <3>5. batch[t].pos \in Nat /\ batch[t].sz \in Nat
      BY <2>4 DEF CallInv, BatchOK
    <3>6. Stage(t)'
      BY <2>1, <2>2, <2>3, <2>4, <3>3, <3>4, <3>5 DEF Stage
    <3> QED
      BY <3>2, <3>4, <3>6 DEF CallInv
  <2>5. CASE ~InBatch(t)
    <3>1. /\ slots' = [slots EXCEPT ![t] = <<logSz>>]
          /\ batch' = batch
          /\ logSz' = logSz + 1
      BY <1>4, <2>5 DEF Fetch
    <3>2. \A u \in Threads \ {t} : Stage(u)' /\ BatchOK(u)'
      BY <2>2, <3>1, OthersKeep DEF CallTypes, CallInv
    <3>3. Len(slots'[t]) = 1
      BY <3>1 DEF CallTypes
    <3>4. ~InBatch(t)' /\ BatchOK(t)'
      BY <2>5, <3>1 DEF CallInv, BatchOK, InBatch, NoBatch
    <3>5. Stage(t)'
      BY <2>1, <2>2, <2>3, <3>3, <3>4 DEF Stage
    <3> QED
      BY <3>2, <3>4, <3>5 DEF CallInv
  <2> QED
    BY <2>4, <2>5
<1>5. ASSUME NEW t \in Threads, FetchPair(t)
       PROVE  CallInv'
  <2>1. \A u \in Threads \ {t} : Stage(u)' /\ BatchOK(u)'
    BY <1>5, OthersKeep DEF FetchPair, CallTypes, CallInv, callVars, logVars, endVars
  <2>2. Stage(t)'
    BY <1>5 DEF FetchPair, CallTypes, CallInv, Stage, BatchOK, InBatch, NoBatch, callVars, logVars, endVars, Places, Kinds
  <2>3. BatchOK(t)'
    BY <1>5 DEF FetchPair, CallTypes, CallInv, Stage, BatchOK, InBatch, NoBatch, callVars, logVars, endVars
  <2> QED
    BY <2>1, <2>2, <2>3 DEF CallInv
<1>6. ASSUME NEW t \in Threads, BeginWrite(t)
       PROVE  CallInv'
  <2>1. \A u \in Threads \ {t} : Stage(u)' /\ BatchOK(u)'
    BY <1>6, OthersKeep DEF BeginWrite, CallTypes, CallInv, callVars, logVars, endVars
  <2>2. Stage(t)'
    BY <1>6 DEF BeginWrite, CallTypes, CallInv, Stage, BatchOK, InBatch, NoBatch, callVars, logVars, endVars, Places, Kinds
  <2>3. BatchOK(t)'
    BY <1>6 DEF BeginWrite, CallTypes, CallInv, Stage, BatchOK, InBatch, NoBatch, callVars, logVars, endVars
  <2> QED
    BY <2>1, <2>2, <2>3 DEF CallInv
<1>7. ASSUME NEW t \in Threads, EndWrite(t)
       PROVE  CallInv'
  <2>1. \A u \in Threads \ {t} : Stage(u)' /\ BatchOK(u)'
    BY <1>7, OthersKeep DEF EndWrite, CallTypes, CallInv, endVars
  <2>2. /\ pc[t] = "copy" /\ todo[t] \in Nat /\ todo[t] >= 1
        /\ kind[t] \in Kinds
        /\ kind[t] = "single" => todo[t] = 1
        /\ kind[t] \in {"single", "pair"} => ~InBatch(t)
        /\ kind[t] = "pair" => Len(slots[t]) = todo[t]
        /\ kind[t] # "pair" => Len(slots[t]) = 1
        /\ InBatch(t) => /\ config.enabled
                         /\ batch[t].pos + todo[t] = batch[t].sz + 1
    BY <1>7 DEF EndWrite, CallInv, CallTypes, Stage
  <2>3. UNCHANGED <<kind, batch, logSz, config, finished>>
    BY <1>7 DEF EndWrite, endVars
  <2>4. /\ slots'[t] = Tail(slots[t]) /\ todo'[t] = todo[t] - 1
        /\ pc'[t] = IF todo[t] = 1
                    THEN IF kind[t] \in {"libc", "create"} THEN "end" ELSE "out"
                    ELSE IF kind[t] = "pair" THEN "write" ELSE "fetch"
    BY <1>7 DEF EndWrite, CallTypes
  <2>5. slots[t] \in Seq(Nat) /\ slots[t] # <<>>
    <3>1. slots[t] \in Seq(Nat)
      BY DEF CallTypes
    <3>2. Len(slots[t]) # 0
      BY <2>2
    <3> QED
      BY <3>1, <3>2, EmptySeq
  <2>6. Len(slots'[t]) = Len(slots[t]) - 1 /\ slots'[t] \in Seq(Nat)
    BY <2>4, <2>5
  <2>7. Len(slots[t]) = 1 => slots'[t] = <<>>
    BY <2>5, <2>6, EmptySeq
  <2>8. InBatch(t)' = InBatch(t) /\ BatchOK(t)'
    BY <2>3 DEF CallInv, BatchOK, InBatch, NoBatch
  <2>9. InBatch(t) => batch[t].pos \in Nat /\ batch[t].sz \in Nat
    BY DEF CallInv, BatchOK
  <2>10. Stage(t)'
    <3>1. CASE todo[t] = 1
      BY <2>2, <2>3, <2>4, <2>7, <2>8, <2>9, <3>1 DEF Stage, Kinds
    <3>2. CASE todo[t] # 1 /\ kind[t] = "pair"
      BY <2>2, <2>3, <2>4, <2>6, <2>8, <2>9, <3>2 DEF Stage, Kinds
    <3>3. CASE todo[t] # 1 /\ kind[t] # "pair"
      <4>1. /\ slots'[t] = <<>> /\ pc'[t] = "fetch" /\ kind'[t] \in {"libc", "create"}
            /\ todo'[t] >= 1
        BY <2>2, <2>3, <2>4, <2>7, <3>3 DEF Kinds
      <4>2. InBatch(t)' => /\ config'.enabled
                           /\ batch'[t].pos + todo'[t] = batch'[t].sz
        BY <2>2, <2>3, <2>4, <2>8, <2>9, <3>3
      <4> QED
        BY <4>1, <4>2 DEF Stage
    <3> QED
      BY <3>1, <3>2, <3>3
  <2> QED
    BY <2>1, <2>8, <2>10 DEF CallInv
<1>8. ASSUME NEW t \in Threads, EndBatch(t)
       PROVE  CallInv'
  <2>1. \A u \in Threads \ {t} : Stage(u)' /\ BatchOK(u)'
    BY <1>8, OthersKeep DEF EndBatch, CallTypes, CallInv, callVars, logVars, endVars
  <2>2. Stage(t)'
    BY <1>8 DEF EndBatch, CallTypes, CallInv, Stage, BatchOK, InBatch, NoBatch, callVars, logVars, endVars, Places, Kinds
  <2>3. BatchOK(t)'
    BY <1>8 DEF EndBatch, CallTypes, CallInv, Stage, BatchOK, InBatch, NoBatch, callVars, logVars, endVars
  <2> QED
    BY <2>1, <2>2, <2>3 DEF CallInv
<1>9. ASSUME NEW t \in Threads, Exit(t)
       PROVE  CallInv'
  <2>1. \A u \in Threads \ {t} : Stage(u)' /\ BatchOK(u)'
    BY <1>9, OthersKeep DEF Exit, CallTypes, CallInv, callVars, logVars, endVars
  <2>2. Stage(t)'
    BY <1>9 DEF Exit, CallTypes, CallInv, Stage, BatchOK, InBatch, NoBatch, callVars, logVars, endVars, Places, Kinds
  <2>3. BatchOK(t)'
    BY <1>9 DEF Exit, CallTypes, CallInv, Stage, BatchOK, InBatch, NoBatch, callVars, logVars, endVars
  <2> QED
    BY <2>1, <2>2, <2>3 DEF CallInv
<1>10. ASSUME NEW t \in Threads, Segfault(t)
       PROVE  CallInv'
  <2>1. \A u \in Threads \ {t} : Stage(u)' /\ BatchOK(u)'
    BY <1>10, OthersKeep DEF Segfault, CallTypes, CallInv, callVars, logVars, endVars
  <2>2. Stage(t)'
    BY <1>10 DEF Segfault, CallTypes, CallInv, Stage, BatchOK, InBatch, NoBatch, callVars, logVars, endVars, Places, Kinds
  <2>3. BatchOK(t)'
    BY <1>10 DEF Segfault, CallTypes, CallInv, Stage, BatchOK, InBatch, NoBatch, callVars, logVars, endVars
  <2> QED
    BY <2>1, <2>2, <2>3 DEF CallInv
<1>11. ASSUME NEW t \in Threads, FlushSlot(t)
       PROVE  CallInv'
  <2>1. \A u \in Threads \ {t} : Stage(u)' /\ BatchOK(u)'
    <3>1. UNCHANGED <<config, pc, callVars, logVars, finished>>
      BY <1>11 DEF FlushSlot
    <3> QED
      BY <3>1, OthersKeep DEF CallTypes, CallInv, callVars, logVars
  <2>2. Stage(t)'
    BY <1>11 DEF FlushSlot, CallTypes, CallInv, Stage, BatchOK, InBatch, NoBatch, callVars, logVars, endVars, Places, Kinds
  <2>3. BatchOK(t)'
    BY <1>11 DEF FlushSlot, CallTypes, CallInv, Stage, BatchOK, InBatch, NoBatch, callVars, logVars, endVars
  <2> QED
    BY <2>1, <2>2, <2>3 DEF CallInv
<1>12. ASSUME NEW t \in Threads, FlushDone(t)
       PROVE  CallInv'
  <2>1. \A u \in Threads \ {t} : Stage(u)' /\ BatchOK(u)'
    BY <1>12, OthersKeep DEF FlushDone, CallTypes, CallInv, callVars, logVars, endVars
  <2>2. Stage(t)'
    BY <1>12 DEF FlushDone, CallTypes, CallInv, Stage, BatchOK, InBatch, NoBatch, callVars, logVars, endVars, Places, Kinds
  <2>3. BatchOK(t)'
    BY <1>12 DEF FlushDone, CallTypes, CallInv, Stage, BatchOK, InBatch, NoBatch, callVars, logVars, endVars
  <2> QED
    BY <2>1, <2>2, <2>3 DEF CallInv
<1>13. CASE UNCHANGED vars
  BY <1>13, OthersKeep DEF vars, CallInv, CallTypes, callVars, logVars, endVars
<1> QED
  BY <1>1, <1>2, <1>3, <1>4, <1>5, <1>6, <1>7,
     <1>8, <1>9, <1>10, <1>11, <1>12, <1>13
  DEF Next, ThreadStep

\* The types of all variables are kept; the batch variables of a thread that
\* asks for a slot of its batch are numbers.
LEMMA TypeStep ==
  TypeOK /\ CallInv /\ [Next]_vars => TypeOK'
<1> USE LoggerAssumption
<1> USE DEF LoggerAssumption
<1> SUFFICES ASSUME TypeOK, CallInv, [Next]_vars
             PROVE  TypeOK'
  OBVIOUS
<1>1. ASSUME NEW t \in Threads, NEW k \in Kinds, NEW n \in LibcSizes \union {1, 2}, EnterHook(t, k, n)
       PROVE  TypeOK'
  <2>1. n \in Nat
    OBVIOUS
  <2>2. /\ pc' \in [Threads -> Places]
        /\ kind' \in [Threads -> Kinds]
        /\ todo' \in [Threads -> Nat]
        /\ hooks' \in [Threads -> Nat]
    BY <1>1, <2>1 DEF EnterHook, TypeOK, Places, Kinds
  <2> QED
    BY <1>1, <2>2 DEF EnterHook, TypeOK, logVars, endVars
<1>2. ASSUME NEW t \in Threads, StartBatch(t)
       PROVE  TypeOK'
  <2>1. pc' \in [Threads -> Places]
    BY <1>2 DEF StartBatch, TypeOK, Places
  <2>2. /\ logSz' \in Nat
        /\ batch' \in [Threads -> BatchType]
    <3>1. [id |-> logSz, pos |-> 0, sz |-> todo[t]] \in BatchType
      BY DEF TypeOK, BatchType
    <3>2. \/ batch' = batch /\ logSz' = logSz
          \/ /\ batch' = [batch EXCEPT ![t] = [id |-> logSz, pos |-> 0,
                                               sz |-> todo[t]]]
             /\ logSz' = logSz + todo[t]
      BY <1>2 DEF StartBatch
    <3>3. logSz \in Nat /\ todo[t] \in Nat /\ batch \in [Threads -> BatchType]
      BY DEF TypeOK
    <3> QED
      BY <3>1, <3>2, <3>3
  <2>3. abort' \in {"no", "batch", "full", "sample", "hole", "dumpHole", "type", "dumpType"}
    BY <1>2 DEF StartBatch, TypeOK
  <2> QED
    BY <1>2, <2>1, <2>2, <2>3 DEF StartBatch, TypeOK, endVars
<1>3. ASSUME NEW t \in Threads, AfterCreate(t)
       PROVE  TypeOK'
  BY <1>3 DEF AfterCreate, TypeOK, NoBatch, Places, Kinds, callVars, logVars, endVars
<1>4. ASSUME NEW t \in Threads, Fetch(t)
       PROVE  TypeOK'
  <2>1. pc' \in [Threads -> Places]
    BY <1>4 DEF Fetch, TypeOK, Places
  <2>2. abort' \in {"no", "batch", "full", "sample", "hole", "dumpHole", "type", "dumpType"}
    BY <1>4 DEF Fetch, TypeOK
  <2>3. /\ logSz' \in Nat
        /\ slots' \in [Threads -> Seq(Nat)]
        /\ batch' \in [Threads -> BatchType]
    <3>1. CASE InBatch(t)
      <4>1. batch[t].id \in Nat /\ batch[t].pos \in Nat
        BY <3>1 DEF CallInv, BatchOK
      <4>2. <<batch[t].id + batch[t].pos>> \in Seq(Nat)
        BY <4>1
      <4>3. [batch[t] EXCEPT !.pos = batch[t].pos + 1] \in BatchType
        <5>1. batch[t] \in BatchType
          BY DEF TypeOK
        <5> QED
          BY <4>1, <5>1 DEF BatchType
      <4>4. /\ slots' = [slots EXCEPT ![t] = <<batch[t].id + batch[t].pos>>]
            /\ batch' = [batch EXCEPT ![t].pos = @ + 1]
            /\ logSz' = logSz
        BY <1>4, <3>1 DEF Fetch
      <4>5. /\ logSz \in Nat /\ slots \in [Threads -> Seq(Nat)]
            /\ batch \in [Threads -> BatchType]
        BY DEF TypeOK
      <4> QED
        BY <4>2, <4>3, <4>4, <4>5
    <3>2. CASE ~InBatch(t)
      <4>1. /\ slots' = [slots EXCEPT ![t] = <<logSz>>]
            /\ batch' = batch
            /\ logSz' = logSz + 1
        BY <1>4, <3>2 DEF Fetch
      <4>2. /\ logSz \in Nat /\ slots \in [Threads -> Seq(Nat)]
            /\ batch \in [Threads -> BatchType]
        BY DEF TypeOK
      <4>3. <<logSz>> \in Seq(Nat)
        BY <4>2
      <4> QED
        BY <4>1, <4>2, <4>3
    <3> QED
      BY <3>1, <3>2
  <2> QED
    BY <1>4, <2>1, <2>2, <2>3 DEF Fetch, TypeOK, endVars
<1>5. ASSUME NEW t \in Threads, FetchPair(t)
       PROVE  TypeOK'
  <2>1. pc' \in [Threads -> Places]
    BY <1>5 DEF FetchPair, TypeOK, Places
  <2>2. <<logSz, logSz + 1>> \in Seq(Nat)
    BY DEF TypeOK
  <2>3. slots' \in [Threads -> Seq(Nat)] /\ logSz' \in Nat
    BY <1>5, <2>2 DEF FetchPair, TypeOK
  <2> QED
    BY <1>5, <2>1, <2>3 DEF FetchPair, TypeOK, endVars
<1>6. ASSUME NEW t \in Threads, BeginWrite(t)
       PROVE  TypeOK'
  BY <1>6 DEF BeginWrite, TypeOK, NoBatch, Places, Kinds, callVars, logVars, endVars
<1>7. ASSUME NEW t \in Threads, EndWrite(t)
       PROVE  TypeOK'
  <2>1. /\ slots[t] \in Seq(Nat) /\ Len(slots[t]) # 0
        /\ todo[t] \in Nat /\ todo[t] >= 1
    BY <1>7 DEF EndWrite, CallInv, Stage, TypeOK
  <2>2. slots[t] # <<>>
    BY <2>1, EmptySeq
  <2>3. Head(slots[t]) \in Nat /\ Tail(slots[t]) \in Seq(Nat)
    BY <2>1, <2>2
  <2>4. EventOf(t, Head(slots[t]), seq[t]) \in EventType
    BY <2>3 DEF EventOf, EventType, TypeOK
  <2>5. events' \in [0..(Slots - 1) -> {Empty, Torn} \union EventType]
    BY <1>7, <2>4 DEF EndWrite, TypeOK
  <2>6. /\ slots' \in [Threads -> Seq(Nat)]
        /\ todo' \in [Threads -> Nat]
        /\ seq' \in [Threads -> Nat]
    BY <1>7, <2>1, <2>3 DEF EndWrite, TypeOK
  <2>7. pc' \in [Threads -> Places]
    BY <1>7 DEF EndWrite, TypeOK, Places
  <2> QED
    BY <1>7, <2>5, <2>6, <2>7 DEF EndWrite, TypeOK, endVars
<1>8. ASSUME NEW t \in Threads, EndBatch(t)
       PROVE  TypeOK'
  BY <1>8 DEF EndBatch, TypeOK, BatchType, NoBatch, Places, Kinds, callVars, logVars, endVars
<1>9. ASSUME NEW t \in Threads, Exit(t)
       PROVE  TypeOK'
  <2>1. pc' \in [Threads -> Places]
    BY <1>9 DEF Exit, TypeOK, Places
  <2>2. file' \in [Threads -> Seq({Torn} \union EventType)]
    BY <1>9 DEF Exit, TypeOK
  <2> QED
    BY <1>9, <2>1, <2>2 DEF Exit, TypeOK, callVars, logVars
<1>10. ASSUME NEW t \in Threads, Segfault(t)
       PROVE  TypeOK'
  <2>1. pc' \in [Threads -> Places]
    BY <1>10 DEF Segfault, TypeOK, Places
  <2>2. file' \in [Threads -> Seq({Torn} \union EventType)]
    BY <1>10 DEF Segfault, TypeOK
  <2> QED
    BY <1>10, <2>1, <2>2 DEF Segfault, TypeOK, callVars, logVars
<1>11. ASSUME NEW t \in Threads, FlushSlot(t)
       PROVE  TypeOK'
  <2> DEFINE Contents == {Torn} \union EventType
             i == Len(file[t])
             e == IF i < Slots THEN events[i] ELSE Empty
  <2>1. file[t] \in Seq(Contents) /\ i \in Nat
    BY DEF TypeOK
  <2>2. e \in {Empty} \union Contents
    BY <2>1 DEF TypeOK
  <2>3. CASE file' = file
    BY <1>11, <2>3 DEF FlushSlot, TypeOK, callVars, logVars
  <2>4. CASE /\ IsEvent(e) \/ e = Torn
             /\ file' = [file EXCEPT ![t] = Append(@, e)]
    <3>1. e \in Contents
      BY <2>2, <2>4 DEF IsEvent
    <3> HIDE DEF e
    <3>2. Append(file[t], e) \in Seq(Contents)
      BY <2>1, <3>1
    <3>3. file' \in [Threads -> Seq(Contents)]
      BY <2>4, <3>2 DEF TypeOK
    <3> QED
      BY <1>11, <3>3 DEF FlushSlot, TypeOK, callVars, logVars
  <2> QED
    BY <1>11, <2>3, <2>4 DEF FlushSlot
<1>12. ASSUME NEW t \in Threads, FlushDone(t)
       PROVE  TypeOK'
  BY <1>12 DEF FlushDone, TypeOK, NoBatch, Places, Kinds, callVars, logVars, endVars
<1>13. CASE UNCHANGED vars
  BY <1>13 DEF vars, TypeOK, callVars, logVars, endVars
<1> QED
  BY <1>1, <1>2, <1>3, <1>4, <1>5, <1>6, <1>7,
     <1>8, <1>9, <1>10, <1>11, <1>12, <1>13
  DEF Next, ThreadStep

LEMMA CallInit == Init => TypeOK /\ CallInv
<1> SUFFICES ASSUME Init
             PROVE  TypeOK /\ CallInv
  OBVIOUS
<1> USE LoggerAssumption
<1>1. \A t \in Threads : ~InBatch(t) /\ batch[t] = NoBatch
  BY DEF Init, InBatch, NoBatch
<1>2. NoBatch \in BatchType
  BY DEF NoBatch, BatchType
<1>3. TypeOK
  <2>1. batch \in [Threads -> BatchType]
    BY <1>2 DEF Init
  <2>2. /\ slots \in [Threads -> Seq(Nat)]
        /\ file \in [Threads -> Seq({Torn} \union EventType)]
    BY DEF Init
  <2> QED
    BY <2>1, <2>2 DEF Init, TypeOK, Places, Kinds
<1>4. CallInv
  BY <1>1 DEF Init, CallInv, Stage, BatchOK
<1> QED
  BY <1>3, <1>4

LEMMA CallsAreTyped == TypeOK => CallTypes
  BY DEF TypeOK, CallTypes

\* Types and calls, the invariant the others rest on.
LEMMA CallsCorrect == Spec => [](TypeOK /\ CallInv)
<1>1. TypeOK /\ CallInv /\ [Next]_vars => (TypeOK /\ CallInv)'
  BY TypeStep, CallStep, CallsAreTyped
<1> QED
  BY <1>1, CallInit, PTL DEF Spec

\* Every variable keeps its type, for any number of threads and slots.
THEOREM TypeCorrect == Spec => []TypeOK
  BY CallsCorrect, PTL

\* Every batch is used up exactly: the assertions about the batch variables
\* in startBatch, startBatchFor, fetchAddLogSize and endBatch never fail.
THEOREM BatchesAreUsedUp == Spec => []BatchesFit
<1>1. Init => BatchesFit
  BY DEF Init, BatchesFit
<1>2. TypeOK /\ CallInv /\ BatchesFit /\ [Next]_vars => BatchesFit'
  <2> SUFFICES ASSUME TypeOK, CallInv, BatchesFit, [Next]_vars
               PROVE  BatchesFit'
    OBVIOUS
  <2>1. ASSUME NEW t \in Threads, StartBatch(t)
        PROVE  BatchesFit'
    BY <2>1 DEF StartBatch, BatchesFit, CallInv, Stage
  <2>2. ASSUME NEW t \in Threads, Fetch(t)
        PROVE  BatchesFit'
    <3>1. InBatch(t) => /\ batch[t].pos \in Nat /\ batch[t].sz \in Nat
                        /\ batch[t].pos + todo[t] = batch[t].sz
                        /\ todo[t] \in Nat /\ todo[t] >= 1
      BY <2>2 DEF Fetch, CallInv, Stage, BatchOK, TypeOK
    <3> QED
      BY <2>2, <3>1 DEF Fetch, BatchesFit
  <2>3. ASSUME NEW t \in Threads, EndBatch(t)
        PROVE  BatchesFit'
    <3>1. batch[t].pos = batch[t].sz
      BY <2>3 DEF EndBatch, CallInv, Stage, BatchOK, NoBatch
    <3> QED
      BY <2>3, <3>1 DEF EndBatch, BatchesFit
  <2>4. ASSUME NEW t \in Threads,
               \/ \E k \in Kinds, n \in LibcSizes \union {1, 2} : EnterHook(t, k, n)
               \/ AfterCreate(t) \/ FetchPair(t) \/ BeginWrite(t) \/ EndWrite(t)
               \/ Exit(t) \/ Segfault(t) \/ FlushSlot(t) \/ FlushDone(t)
        PROVE  BatchesFit'
    BY <2>4 DEF BatchesFit, EnterHook, AfterCreate, FetchPair, BeginWrite,
                EndWrite, Exit, Segfault, FlushSlot, FlushDone
  <2>5. CASE UNCHANGED vars
    BY <2>5 DEF vars, BatchesFit
  <2> QED
    BY <2>1, <2>2, <2>3, <2>4, <2>5 DEF Next, ThreadStep
<1> QED
  BY <1>1, <1>2, CallsCorrect, PTL DEF Spec

---------------------------------------------------------------------------
(* Who owns which slot.                                                    *)

\* The log of EventLog, see Journal.
Log == [i \in 0..(Slots - 1) |-> IF events[i] = Torn THEN Empty ELSE events[i]]

\* The slots a thread is about to fill come before those its batch has left
\* and are filled in order.
Ordered(t) ==
  /\ \A k \in 1..Len(slots[t]) :
       /\ slots[t][k] < logSz
       /\ abort = "no" => slots[t][k] < Slots
       /\ InBatch(t) => slots[t][k] < batch[t].id + batch[t].pos
  /\ \A k, l \in 1..Len(slots[t]) : k < l => slots[t][k] < slots[t][l]

\* Every slot below __log_sz is in one thread's hands or holds its event,
\* and there is nothing above.
OwnInv ==
  /\ \A t \in Threads : Pending(t) \subseteq 0..(logSz - 1)
  /\ \A t, u \in Threads : t # u => Pending(t) \intersect Pending(u) = {}
  /\ \A t \in Threads : \A i \in Pending(t) : i < Slots => Log[i] = Empty
  /\ \A i \in 0..(logSz - 1) :
       (i < Slots => Log[i] = Empty) => \E t \in Threads : i \in Pending(t)
  /\ \A i \in 0..(Slots - 1) : i >= logSz => Log[i] = Empty

\* What a step may do to the log: hand out the next n slots, perhaps none ...
Takes(t, n) ==
  /\ logSz' = logSz + n
  /\ Pending(t)' = Pending(t) \union (logSz .. (logSz + n - 1))
  /\ \A u \in Threads \ {t} : Pending(u)' = Pending(u)
  /\ Log' = Log
  /\ seq' = seq

\* ... or fill slot i, the first the thread has.
Fills(t, i) ==
  /\ i \in Pending(t) /\ i < Slots
  /\ \A p \in Pending(t) : i <= p
  /\ logSz' = logSz
  /\ Pending(t)' = Pending(t) \ {i}
  /\ \A u \in Threads \ {t} : Pending(u)' = Pending(u)
  /\ Log' = [Log EXCEPT ![i] = EventOf(t, i, seq[t])]
  /\ seq' = [seq EXCEPT ![t] = @ + 1]

LEMMA SamePending ==
  ASSUME NEW u, batch'[u] = batch[u], slots'[u] = slots[u]
  PROVE  Pending(u)' = Pending(u)
BY DEF Pending, BatchRest, InBatch

\* Handing out slots keeps the ownership.
LEMMA TakesKeepsOwnership ==
  ASSUME NEW t \in Threads, NEW n \in Nat, logSz \in Nat, OwnInv, Takes(t, n)
  PROVE  OwnInv'
<1> USE LoggerAssumption
<1> USE DEF LoggerAssumption, OwnInv, Takes
<1>1. \A u \in Threads : Pending(u) \subseteq 0..(logSz - 1)
  OBVIOUS
<1>2. \A u \in Threads : Pending(u)' \subseteq 0..(logSz' - 1)
  OBVIOUS
<1>3. \A u, v \in Threads : u # v => Pending(u)' \intersect Pending(v)' = {}
  OBVIOUS
<1>4. \A u \in Threads : \A i \in Pending(u)' : i < Slots => Log'[i] = Empty
  OBVIOUS
<1>5. \A i \in 0..(logSz' - 1) :
        (i < Slots => Log'[i] = Empty) => \E u \in Threads : i \in Pending(u)'
  OBVIOUS
<1>6. \A i \in 0..(Slots - 1) : i >= logSz' => Log'[i] = Empty
  OBVIOUS
<1> QED
  BY <1>2, <1>3, <1>4, <1>5, <1>6

LEMMA EventsAreFull ==
  ASSUME TypeOK, NEW t \in Threads, NEW i \in Nat
  PROVE  EventOf(t, i, seq[t]) \in EventType /\ EventOf(t, i, seq[t]) # Empty
         /\ EventOf(t, i, seq[t]) # Torn
<1>1. EventOf(t, i, seq[t]) \in EventType
  BY DEF EventOf, EventType, TypeOK
<1> QED
  BY <1>1, LoggerAssumption DEF LoggerAssumption

\* So does filling one.
LEMMA FillsKeepsOwnership ==
  ASSUME NEW t \in Threads, NEW i \in Nat, TypeOK, OwnInv, Fills(t, i)
  PROVE  OwnInv'
<1> USE LoggerAssumption
<1> USE DEF LoggerAssumption, Fills
<1>1. EventOf(t, i, seq[t]) # Empty /\ logSz \in Nat
  BY EventsAreFull DEF TypeOK
<1>2. /\ \A j \in 0..(Slots - 1) : j # i => Log'[j] = Log[j]
      /\ Log'[i] # Empty
      /\ i \in 0..(Slots - 1)
  <2>1. i \in 0..(Slots - 1)
    OBVIOUS
  <2>2. DOMAIN Log = 0..(Slots - 1)
    BY DEF Log
  <2> HIDE DEF Fills
  <2>3. Log' = [Log EXCEPT ![i] = EventOf(t, i, seq[t])]
    BY DEF Fills
  <2> QED
    BY <2>1, <2>2, <2>3, <1>1
<1>3. i \in 0..(logSz - 1)
  BY DEF OwnInv
<1>4. \A u \in Threads : Pending(u)' \subseteq Pending(u)
  OBVIOUS
<1>5. \A u \in Threads : Pending(u)' \subseteq 0..(logSz' - 1)
  BY <1>4 DEF OwnInv
<1>6. \A u, v \in Threads : u # v => Pending(u)' \intersect Pending(v)' = {}
  BY <1>4 DEF OwnInv
<1>7. \A u \in Threads : i \notin Pending(u)'
  BY DEF OwnInv
<1>8. \A u \in Threads : \A j \in Pending(u)' : j < Slots => Log'[j] = Empty
  <2>1. SUFFICES ASSUME NEW u \in Threads, NEW j \in Pending(u)', j < Slots
                 PROVE  Log'[j] = Empty
    OBVIOUS
  <2>2. j \in Pending(u) /\ j # i /\ j \in 0..(Slots - 1)
    BY <2>1, <1>1, <1>4, <1>5, <1>7
  <2> QED
    BY <2>1, <2>2, <1>2 DEF OwnInv
<1>9. \A j \in 0..(logSz' - 1) :
        (j < Slots => Log'[j] = Empty) => \E u \in Threads : j \in Pending(u)'
  <2>1. SUFFICES ASSUME NEW j \in 0..(logSz - 1), j < Slots => Log'[j] = Empty
                 PROVE  \E u \in Threads : j \in Pending(u)'
    OBVIOUS
  <2>2. j # i
    BY <2>1, <1>2
  <2>3. j < Slots => Log[j] = Empty
    BY <2>1, <2>2, <1>2, <1>3
  <2>4. PICK u \in Threads : j \in Pending(u)
    BY <2>3 DEF OwnInv
  <2> QED
    BY <2>2, <2>4
<1>10. \A j \in 0..(Slots - 1) : j >= logSz' => Log'[j] = Empty
  <2>1. SUFFICES ASSUME NEW j \in 0..(Slots - 1), j >= logSz
                 PROVE  Log'[j] = Empty
    OBVIOUS
  <2>2. j # i
    BY <2>1, <1>1, <1>3
  <2> QED
    BY <2>1, <2>2, <1>2 DEF OwnInv
<1> QED
  BY <1>5, <1>6, <1>8, <1>9, <1>10 DEF OwnInv

\* A step that touches neither the batches nor the slots of the threads.
LEMMA QuietStep ==
  ASSUME NEW t \in Threads, TypeOK,
         UNCHANGED <<batch, slots, logSz, seq>>, Log' = Log
  PROVE  Takes(t, 0)
<1>1. \A u \in Threads : Pending(u)' = Pending(u)
  BY SamePending
<1>2. logSz .. (logSz + 0 - 1) = {} /\ logSz' = logSz + 0
  BY DEF TypeOK
<1> QED
  BY <1>1, <1>2 DEF Takes

\* Each step of a thread hands out slots or fills one.
LEMMA StepEffect ==
  ASSUME TypeOK, CallInv, OwnInv, abort = "no",
         NEW t \in Threads, Ordered(t), ThreadStep(t)
  PROVE  \/ \E n \in 0..3 : Takes(t, n)
         \/ \E i \in 0..(Slots - 1) : Fills(t, i)
<1> USE LoggerAssumption
<1> DEFINE Goal == \/ \E n \in 0..3 : Takes(t, n)
                   \/ \E i \in 0..(Slots - 1) : Fills(t, i)
<1>1. ASSUME \/ \E k \in Kinds, n \in LibcSizes \union {1, 2} : EnterHook(t, k, n)
             \/ AfterCreate(t) \/ Exit(t) \/ Segfault(t)
             \/ FlushSlot(t) \/ FlushDone(t)
      PROVE  Goal
  <2>1. UNCHANGED <<batch, slots, logSz, seq, events>>
    BY <1>1 DEF EnterHook, AfterCreate, Exit, Segfault, FlushSlot, FlushDone,
                callVars, logVars, endVars
  <2>2. Takes(t, 0)
    BY <2>1, QuietStep DEF Log
  <2> QED
    BY <2>2
<1>2. ASSUME StartBatch(t)
      PROVE  Goal
  <2>1. slots[t] = <<>> /\ ~InBatch(t) /\ todo[t] \in 1..3 /\ logSz \in Nat
    BY <1>2 DEF StartBatch, CallInv, Stage, TypeOK
  <2>2. slots' = slots /\ events' = events /\ seq' = seq
    BY <1>2 DEF StartBatch
  <2>3. Log' = Log
    BY <2>2 DEF Log
  <2>4. CASE batch' = batch /\ logSz' = logSz
    BY <2>2, <2>3, <2>4, QuietStep
  <2>5. CASE /\ batch' = [batch EXCEPT ![t] = [id |-> logSz, pos |-> 0,
                                              sz |-> todo[t]]]
             /\ logSz' = logSz + todo[t]
    <3>1. \A u \in Threads \ {t} : Pending(u)' = Pending(u)
      BY <2>2, <2>5, SamePending DEF TypeOK
    <3>2. batch'[t] = [id |-> logSz, pos |-> 0, sz |-> todo[t]]
      BY <2>5 DEF TypeOK
    <3>3. InBatch(t)'
      BY <2>1, <3>2 DEF InBatch, LoggerAssumption
    <3>4. Pending(t) = {}
      BY <2>1 DEF Pending, BatchRest
    <3>5. BatchRest(t)' = logSz .. (logSz + todo[t] - 1)
      BY <2>1, <3>2, <3>3 DEF BatchRest
    <3>6. Pending(t)' = logSz .. (logSz + todo[t] - 1)
      BY <2>1, <2>2, <3>5 DEF Pending
    <3>7. Takes(t, todo[t])
      BY <2>2, <2>3, <2>5, <3>1, <3>4, <3>6 DEF Takes
    <3> QED
      BY <2>1, <3>7
  <2> QED
    BY <1>2, <2>4, <2>5 DEF StartBatch
<1>3. ASSUME Fetch(t)
      PROVE  Goal
  <2>1. slots[t] = <<>> /\ logSz \in Nat /\ events' = events /\ seq' = seq
    BY <1>3 DEF Fetch, CallInv, Stage, TypeOK
  <2>2. Log' = Log
    BY <2>1 DEF Log
  <2>3. CASE InBatch(t)
    <3> DEFINE b == batch[t]
    <3>1. /\ b.id \in Nat /\ b.pos \in Nat /\ b.sz \in Nat
          /\ b.pos + todo[t] = b.sz /\ todo[t] \in Nat /\ todo[t] >= 1
      BY <1>3, <2>3 DEF Fetch, CallInv, Stage, BatchOK, TypeOK
    <3>2. /\ slots' = [slots EXCEPT ![t] = <<b.id + b.pos>>]
          /\ batch' = [batch EXCEPT ![t].pos = @ + 1]
          /\ logSz' = logSz
      BY <1>3, <2>3 DEF Fetch
    <3>3. \A u \in Threads \ {t} : Pending(u)' = Pending(u)
      BY <3>2, SamePending DEF TypeOK
    <3>4. /\ slots'[t] = <<b.id + b.pos>>
          /\ batch'[t].id = b.id /\ batch'[t].sz = b.sz
          /\ batch'[t].pos = b.pos + 1
      BY <3>2 DEF TypeOK, BatchType
    <3>5. Pending(t) = (b.id + b.pos) .. (b.id + b.sz - 1)
      BY <2>1, <2>3 DEF Pending, BatchRest
    <3>6. InBatch(t)'
      BY <2>3, <3>4 DEF InBatch
    <3>7. Pending(t)' = ((b.id + b.pos + 1) .. (b.id + b.sz - 1))
                          \union {b.id + b.pos}
      BY <3>1, <3>4, <3>6 DEF Pending, BatchRest
    <3>8. Pending(t)' = Pending(t) \union (logSz .. (logSz + 0 - 1))
      <4>1. logSz .. (logSz + 0 - 1) = {}
        BY <2>1
      <4>2. b.id + b.pos \in (b.id + b.pos) .. (b.id + b.sz - 1)
        BY <3>1
      <4>3. \A i \in Int : i \in (b.id + b.pos) .. (b.id + b.sz - 1) <=>
              i \in ((b.id + b.pos + 1) .. (b.id + b.sz - 1))
                     \union {b.id + b.pos}
        BY <3>1
      <4> QED
        BY <3>1, <3>5, <3>7, <4>1, <4>2, <4>3
    <3>9. Takes(t, 0)
      BY <2>1, <2>2, <3>2, <3>3, <3>8 DEF Takes
    <3> QED
      BY <3>9
  <2>4. CASE ~InBatch(t)
    <3>1. /\ slots' = [slots EXCEPT ![t] = <<logSz>>]
          /\ batch' = batch /\ logSz' = logSz + 1
      BY <1>3, <2>4 DEF Fetch
    <3>2. \A u \in Threads \ {t} : Pending(u)' = Pending(u)
      BY <3>1, SamePending DEF TypeOK
    <3>3. slots'[t] = <<logSz>> /\ ~InBatch(t)'
      BY <2>4, <3>1 DEF TypeOK, InBatch
    <3>4. Pending(t) = {} /\ Pending(t)' = {logSz}
      BY <2>1, <2>4, <3>3 DEF Pending, BatchRest
    <3>5. Takes(t, 1)
      BY <2>1, <2>2, <3>1, <3>2, <3>4 DEF Takes
    <3> QED
      BY <3>5
  <2> QED
    BY <2>3, <2>4
<1>4. ASSUME FetchPair(t)
      PROVE  Goal
  <2>1. /\ slots[t] = <<>> /\ ~InBatch(t) /\ logSz \in Nat
        /\ events' = events /\ batch' = batch /\ seq' = seq
        /\ logSz' = logSz + 2
        /\ slots' = [slots EXCEPT ![t] = <<logSz, logSz + 1>>]
    BY <1>4 DEF FetchPair, CallInv, Stage, TypeOK
  <2>2. Log' = Log
    BY <2>1 DEF Log
  <2>3. \A u \in Threads \ {t} : Pending(u)' = Pending(u)
    BY <2>1, SamePending DEF TypeOK
  <2>4. slots'[t] = <<logSz, logSz + 1>> /\ ~InBatch(t)'
    BY <2>1 DEF TypeOK, InBatch
  <2>5. Pending(t) = {} /\ Pending(t)' = {logSz, logSz + 1}
    BY <2>1, <2>4 DEF Pending, BatchRest
  <2>6. Takes(t, 2)
    BY <2>1, <2>2, <2>3, <2>5 DEF Takes
  <2> QED
    BY <2>6
<1>5. ASSUME pc[t] \in {"write", "copy"}
      PROVE  /\ slots[t] \in Seq(Nat) /\ slots[t] # <<>>
             /\ Head(slots[t]) = slots[t][1] /\ 1 \in 1..Len(slots[t])
             /\ Head(slots[t]) \in Pending(t)
             /\ Head(slots[t]) \in 0..(Slots - 1)
  <2>1. slots[t] \in Seq(Nat) /\ Len(slots[t]) # 0
    <3>1. slots[t] \in Seq(Nat)
      BY DEF TypeOK
    <3>2. /\ todo[t] >= 1
          /\ IF kind[t] = "pair" THEN Len(slots[t]) = todo[t]
                                ELSE Len(slots[t]) = 1
      BY <1>5 DEF CallInv, Stage
    <3>3. todo[t] \in Nat
      BY DEF TypeOK
    <3>4. Len(slots[t]) # 0
      BY <3>2, <3>3
    <3> QED
      BY <3>1, <3>4
  <2>2. slots[t] # <<>> /\ Head(slots[t]) = slots[t][1] /\ 1 \in 1..Len(slots[t])
    BY <2>1, EmptySeq
  <2>3. slots[t][1] \in Pending(t) /\ slots[t][1] < Slots /\ slots[t][1] \in Nat
    BY <2>1, <2>2 DEF Pending, Ordered
  <2> QED
    BY <2>1, <2>2, <2>3 DEF LoggerAssumption
<1>6. ASSUME BeginWrite(t)
      PROVE  Goal
  <2>1. Log[Head(slots[t])] = Empty
    BY <1>5, <1>6 DEF BeginWrite, OwnInv
  <2>2. events' = [events EXCEPT ![Head(slots[t])] = Torn]
    BY <1>6 DEF BeginWrite
  <2>3. Log' = Log
    BY <1>5, <1>6, <2>1, <2>2 DEF BeginWrite, Log, TypeOK
  <2>4. UNCHANGED <<batch, slots, logSz, seq>>
    BY <1>6 DEF BeginWrite, callVars
  <2>5. Takes(t, 0)
    BY <2>3, <2>4, QuietStep
  <2> QED
    BY <2>5
<1>7. ASSUME EndWrite(t)
      PROVE  Goal
  <2> DEFINE h == Head(slots[t])
  <2>1. /\ slots[t] \in Seq(Nat) /\ slots[t] # <<>> /\ h = slots[t][1]
        /\ h \in Pending(t) /\ h \in 0..(Slots - 1)
    BY <1>5, <1>7 DEF EndWrite
  <2>2. /\ slots' = [slots EXCEPT ![t] = Tail(@)]
        /\ events' = [events EXCEPT ![h] = EventOf(t, h, seq[t])]
        /\ batch' = batch /\ logSz' = logSz
        /\ seq' = [seq EXCEPT ![t] = @ + 1]
    BY <1>7 DEF EndWrite
  <2>3. \A u \in Threads \ {t} : Pending(u)' = Pending(u)
    BY <2>2, SamePending DEF TypeOK
  <2>4. /\ slots'[t] = Tail(slots[t])
        /\ Len(slots'[t]) = Len(slots[t]) - 1
        /\ \A k \in 1..Len(slots'[t]) : slots'[t][k] = slots[t][k + 1]
    BY <2>1, <2>2 DEF TypeOK
  <2>5. InBatch(t)' = InBatch(t) /\ BatchRest(t)' = BatchRest(t)
    BY <2>2 DEF InBatch, BatchRest
  <2>6. \A p \in BatchRest(t) : h < p
    <3>1. CASE InBatch(t)
      <4>1. h < batch[t].id + batch[t].pos
        BY <1>5, <1>7, <3>1 DEF EndWrite, Ordered
      <4>2. batch[t].id \in Nat /\ batch[t].pos \in Nat /\ batch[t].sz \in Nat
        BY <3>1 DEF CallInv, BatchOK
      <4>3. BatchRest(t) = batch[t].id + batch[t].pos..batch[t].id + batch[t].sz - 1
        BY <3>1 DEF BatchRest
      <4>4. h \in Nat
        BY <2>1
      <4> HIDE DEF h
      <4> QED
        BY <4>1, <4>2, <4>3, <4>4
    <3>2. CASE ~InBatch(t)
      BY <3>2 DEF BatchRest
    <3> QED
      BY <3>1, <3>2
  <2>7. \A k \in 2..Len(slots[t]) : h < slots[t][k]
    <3>1. Len(slots[t]) \in Nat /\ Len(slots[t]) >= 1
      BY <2>1, EmptySeq
    <3>2. \A k \in 1..Len(slots[t]) : slots[t][k] \in Nat
      BY <2>1
    <3>3. \A k \in 2..Len(slots[t]) : slots[t][1] < slots[t][k]
      BY <3>1 DEF Ordered
    <3> QED
      BY <2>1, <3>1, <3>2, <3>3
  <2>8. {slots'[t][k] : k \in 1..Len(slots'[t])}
          = {slots[t][k] : k \in 1..Len(slots[t])} \ {h}
    <3>1. Len(slots[t]) \in Nat /\ Len(slots[t]) >= 1
      BY <2>1, EmptySeq
    <3>2. ASSUME NEW x
          PROVE  (\E k \in 1..Len(slots'[t]) : x = slots'[t][k])
                   <=> (\E k \in 1..Len(slots[t]) : x = slots[t][k]) /\ x # h
      <4>1. ASSUME NEW k \in 1..Len(slots'[t]), x = slots'[t][k]
            PROVE  (\E l \in 1..Len(slots[t]) : x = slots[t][l]) /\ x # h
        <5>1. k + 1 \in 2..Len(slots[t]) /\ x = slots[t][k + 1]
          BY <2>4, <3>1, <4>1
        <5> QED
          BY <2>1, <2>7, <3>1, <5>1
      <4>2. ASSUME NEW k \in 1..Len(slots[t]), x = slots[t][k], x # h
            PROVE  \E l \in 1..Len(slots'[t]) : x = slots'[t][l]
        <5>1. k # 1
          BY <2>1, <4>2
        <5>2. k - 1 \in 1..Len(slots'[t]) /\ (k - 1) + 1 = k
          BY <2>4, <3>1, <4>2, <5>1
        <5> QED
          BY <2>4, <4>2, <5>2
      <4> QED
        BY <4>1, <4>2
    <3> QED
      BY <3>2
  <2>9. Pending(t)' = Pending(t) \ {h} /\ \A p \in Pending(t) : h <= p
    <3>1. h \notin BatchRest(t)
      BY <2>1, <2>6
    <3>2. Pending(t)' = Pending(t) \ {h}
      BY <2>5, <2>8, <3>1 DEF Pending
    <3>3. \A k \in 1..Len(slots[t]) : h <= slots[t][k]
      <4>1. Len(slots[t]) \in Nat
        BY <2>1
      <4> QED
        BY <2>1, <2>7, <4>1
    <3>4. \A p \in BatchRest(t) : h <= p
      BY <2>1, <2>6 DEF BatchRest
    <3> QED
      BY <3>2, <3>3, <3>4 DEF Pending
  <2>10. Log' = [Log EXCEPT ![h] = EventOf(t, h, seq[t])]
    <3>1. EventOf(t, h, seq[t]) # Torn
      BY <2>1, EventsAreFull
    <3> QED
      BY <2>1, <2>2, <3>1 DEF Log, TypeOK
  <2>11. h < Slots
    BY <2>1 DEF LoggerAssumption
  <2>12. Fills(t, h)
    BY <2>1, <2>2, <2>3, <2>9, <2>10, <2>11 DEF Fills
  <2> QED
    BY <2>1, <2>12
<1>8. ASSUME EndBatch(t)
      PROVE  Goal
  <2>1. /\ slots' = slots /\ logSz' = logSz /\ events' = events /\ seq' = seq
        /\ batch' = IF config.enabled THEN [batch EXCEPT ![t] = NoBatch]
                    ELSE batch
        /\ slots[t] = <<>> /\ logSz \in Nat
    BY <1>8 DEF EndBatch, CallInv, Stage, TypeOK, logVars
  <2>2. Log' = Log
    BY <2>1 DEF Log
  <2>3. CASE batch' = batch
    BY <2>1, <2>2, <2>3, QuietStep
  <2>4. CASE batch' = [batch EXCEPT ![t] = NoBatch]
    <3>1. \A u \in Threads \ {t} : Pending(u)' = Pending(u)
      BY <2>1, <2>4, SamePending DEF TypeOK
    <3>2. Pending(t) = {}
      <4>1. CASE InBatch(t)
        <5>1. /\ batch[t].pos = batch[t].sz
              /\ batch[t].id \in Nat /\ batch[t].sz \in Nat
          BY <1>8, <4>1 DEF EndBatch, CallInv, Stage, BatchOK
        <5> QED
          BY <2>1, <4>1, <5>1 DEF Pending, BatchRest
      <4>2. CASE ~InBatch(t)
        BY <2>1, <4>2 DEF Pending, BatchRest
      <4> QED
        BY <4>1, <4>2
    <3>3. ~InBatch(t)'
      BY <2>4 DEF TypeOK, InBatch, NoBatch
    <3>4. Pending(t)' = {}
      BY <2>1, <3>3 DEF Pending, BatchRest
    <3>5. logSz .. (logSz + 0 - 1) = {} /\ logSz' = logSz + 0
      BY <2>1
    <3>6. Takes(t, 0)
      BY <2>1, <2>2, <3>1, <3>2, <3>4, <3>5 DEF Takes
    <3> QED
      BY <3>6
  <2> QED
    BY <2>1, <2>3, <2>4
<1> QED
  BY <1>1, <1>2, <1>3, <1>4, <1>6, <1>7, <1>8 DEF ThreadStep

\* The other threads' slots stay in order while this thread runs.
LEMMA OthersStayOrdered ==
  ASSUME NEW u, Ordered(u), abort = "no", slots[u] \in Seq(Nat),
         logSz \in Nat, logSz' \in Nat, logSz <= logSz',
         batch'[u] = batch[u], slots'[u] = slots[u]
  PROVE  Ordered(u)'
<1>1. InBatch(u)' = InBatch(u)
  BY DEF InBatch
<1>2. /\ Len(slots[u]) \in Nat
      /\ \A k \in 1..Len(slots[u]) : slots[u][k] \in Nat
  OBVIOUS
<1> QED
  BY <1>1, <1>2 DEF Ordered

\* The slots a thread is about to fill stay in order.
LEMMA OrderedStep ==
  ASSUME TypeOK, TypeOK', CallInv, \A u \in Threads : Ordered(u), abort = "no",
         NEW t \in Threads, ThreadStep(t)
  PROVE  \A u \in Threads : Ordered(u)'
<1> USE LoggerAssumption
<1> DEFINE Goal == \A u \in Threads : Ordered(u)'
<1>1. /\ logSz \in Nat /\ logSz' \in Nat
      /\ slots \in [Threads -> Seq(Nat)] /\ slots' \in [Threads -> Seq(Nat)]
      /\ batch \in [Threads -> BatchType]
  BY DEF TypeOK
<1>2. ASSUME slots' = [slots EXCEPT ![t] = slots'[t]],
             batch' = [batch EXCEPT ![t] = batch'[t]],
             logSz <= logSz', Ordered(t)'
      PROVE  Goal
  <2>1. \A u \in Threads \ {t} : slots'[u] = slots[u] /\ batch'[u] = batch[u]
    BY <1>1, <1>2
  <2>2. \A u \in Threads \ {t} : Ordered(u)'
    BY <1>1, <1>2, <2>1, OthersStayOrdered
  <2> QED
    BY <1>2, <2>2
<1>3. ASSUME slots'[t] = <<>>
      PROVE  Ordered(t)'
  BY <1>3 DEF Ordered
<1>4. ASSUME \/ \E k \in Kinds, n \in LibcSizes \union {1, 2} : EnterHook(t, k, n)
             \/ AfterCreate(t) \/ BeginWrite(t) \/ Exit(t) \/ Segfault(t)
             \/ FlushSlot(t) \/ FlushDone(t)
      PROVE  Goal
  <2>1. UNCHANGED <<batch, slots, logSz>>
    BY <1>4 DEF EnterHook, AfterCreate, BeginWrite, Exit, Segfault, FlushSlot,
                FlushDone, callVars, logVars, endVars
  <2> QED
    BY <1>1, <2>1, OthersStayOrdered
<1>5. ASSUME StartBatch(t)
      PROVE  Goal
  <2>1. slots[t] = <<>> /\ slots' = slots
    BY <1>5 DEF StartBatch, CallInv, Stage
  <2>2. logSz <= logSz'
    BY <1>1, <1>5 DEF StartBatch, TypeOK
  <2>3. batch' = [batch EXCEPT ![t] = batch'[t]]
    BY <1>1, <1>5 DEF StartBatch
  <2> QED
    BY <1>1, <1>2, <1>3, <2>1, <2>2, <2>3
<1>6. ASSUME Fetch(t)
      PROVE  Goal
  <2>1. CASE InBatch(t)
    <3> DEFINE b == batch[t]
    <3>1. /\ b.id \in Nat /\ b.pos \in Nat /\ b.sz \in Nat
          /\ b.pos + todo[t] = b.sz /\ todo[t] \in Nat /\ todo[t] >= 1
          /\ b.id + b.sz <= logSz
      BY <1>6, <2>1 DEF Fetch, CallInv, Stage, BatchOK, TypeOK
    <3>2. /\ slots' = [slots EXCEPT ![t] = <<b.id + b.pos>>]
          /\ batch' = [batch EXCEPT ![t].pos = @ + 1]
          /\ logSz' = logSz
      BY <1>6, <2>1 DEF Fetch
    <3>3. /\ slots'[t] = <<b.id + b.pos>>
          /\ batch'[t].id = b.id /\ batch'[t].pos = b.pos + 1
          /\ batch' = [batch EXCEPT ![t] = batch'[t]]
      BY <1>1, <3>2 DEF BatchType
    <3>4. Len(slots'[t]) = 1 /\ slots'[t][1] = b.id + b.pos
      BY <3>3
    <3>5. Ordered(t)'
      <4>1. abort' = "no" => ~(slots'[t][1] >= Slots)
        BY <1>6, <2>1 DEF Fetch
      <4> HIDE DEF b
      <4>2. /\ slots'[t][1] < logSz'
            /\ slots'[t][1] < batch'[t].id + batch'[t].pos
            /\ abort' = "no" => slots'[t][1] < Slots
        BY <1>1, <3>1, <3>2, <3>3, <3>4, <4>1 DEF LoggerAssumption
      <4>3. \A k \in 1..1 : k = 1
        OBVIOUS
      <4> QED
        BY <3>4, <4>2, <4>3 DEF Ordered
    <3>6. slots' = [slots EXCEPT ![t] = slots'[t]] /\ logSz <= logSz'
      BY <1>1, <3>2
    <3> QED
      BY <1>2, <3>3, <3>5, <3>6
  <2>2. CASE ~InBatch(t)
    <3>1. /\ slots' = [slots EXCEPT ![t] = <<logSz>>]
          /\ batch' = batch /\ logSz' = logSz + 1
          /\ abort' = "no" => logSz < Slots
      BY <1>1, <1>6, <2>2 DEF Fetch
    <3>2. slots'[t] = <<logSz>> /\ ~InBatch(t)'
      BY <1>1, <2>2, <3>1 DEF InBatch
    <3>3. Len(slots'[t]) = 1 /\ slots'[t][1] = logSz
      BY <3>2
    <3>4. Ordered(t)'
      BY <1>1, <3>1, <3>2, <3>3 DEF Ordered
    <3> QED
      BY <1>1, <1>2, <3>1, <3>4
  <2> QED
    BY <2>1, <2>2
<1>7. ASSUME FetchPair(t)
      PROVE  Goal
  <2>1. /\ ~InBatch(t) /\ batch' = batch /\ logSz' = logSz + 2
        /\ slots' = [slots EXCEPT ![t] = <<logSz, logSz + 1>>]
        /\ abort' = "no" => logSz + 1 < Slots
    BY <1>1, <1>7 DEF FetchPair, CallInv, Stage
  <2>2. slots'[t] = <<logSz, logSz + 1>> /\ ~InBatch(t)'
    BY <1>1, <2>1 DEF InBatch
  <2>3. /\ Len(slots'[t]) = 2 /\ slots'[t][1] = logSz
        /\ slots'[t][2] = logSz + 1
    BY <2>2
  <2>4. \A k \in 1..2 : k = 1 \/ k = 2
    OBVIOUS
  <2>5. Ordered(t)'
    <3>1. /\ \A k \in 1..2 : slots'[t][k] < logSz'
          /\ abort' = "no" => \A k \in 1..2 : slots'[t][k] < Slots
      BY <1>1, <2>1, <2>3, <2>4 DEF LoggerAssumption
    <3>2. \A k, l \in 1..2 : k < l => slots'[t][k] < slots'[t][l]
      BY <1>1, <2>3, <2>4
    <3> QED
      BY <2>2, <2>3, <3>1, <3>2 DEF Ordered
  <2> QED
    BY <1>1, <1>2, <2>1, <2>5
<1>8. ASSUME EndWrite(t)
      PROVE  Goal
  <2>1. /\ slots' = [slots EXCEPT ![t] = Tail(@)]
        /\ batch' = batch /\ logSz' = logSz /\ abort' = abort
    BY <1>8 DEF EndWrite
  <2>2. Len(slots[t]) # 0
    <3>1. /\ todo[t] >= 1
          /\ IF kind[t] = "pair" THEN Len(slots[t]) = todo[t]
                                 ELSE Len(slots[t]) = 1
      BY <1>8 DEF EndWrite, CallInv, Stage
    <3>2. todo[t] \in Nat
      BY DEF TypeOK
    <3> QED
      BY <3>1, <3>2
  <2>3. /\ Len(slots[t]) \in Nat
        /\ Len(slots'[t]) = Len(slots[t]) - 1
        /\ \A k \in 1..Len(slots'[t]) :
             k + 1 \in 1..Len(slots[t]) /\ slots'[t][k] = slots[t][k + 1]
    BY <1>1, <2>1, <2>2
  <2>4. InBatch(t)' = InBatch(t) /\ batch'[t] = batch[t]
    BY <2>1 DEF InBatch
  <2>5. Ordered(t)
    OBVIOUS
  <2>6. Ordered(t)'
    BY <2>1, <2>3, <2>4, <2>5 DEF Ordered
  <2> QED
    BY <1>1, <1>2, <2>1, <2>6
<1>9. ASSUME EndBatch(t)
      PROVE  Goal
  <2>1. slots[t] = <<>> /\ slots' = slots /\ logSz' = logSz
    BY <1>9 DEF EndBatch, CallInv, Stage, logVars
  <2>2. batch' = [batch EXCEPT ![t] = batch'[t]]
    BY <1>1, <1>9 DEF EndBatch
  <2> QED
    BY <1>1, <1>2, <1>3, <2>1, <2>2
<1> QED
  BY <1>4, <1>5, <1>6, <1>7, <1>8, <1>9 DEF ThreadStep

\* The events in the log bear numbers their thread has used, in the order of
\* their slots, and come before every slot the thread is still to fill.
NumInv ==
  /\ \A i \in 0..(Slots - 1) : Log[i] # Empty =>
       /\ Log[i].nr < seq[Log[i].tid]
       /\ \A p \in Pending(Log[i].tid) : i < p
  /\ \A i, j \in 0..(Slots - 1) :
       i < j /\ Log[i] # Empty /\ Log[j] # Empty /\ Log[i].tid = Log[j].tid
         => Log[i].nr < Log[j].nr

LogInv == OwnInv /\ NumInv /\ \A t \in Threads : Ordered(t)

LEMMA LogTypes ==
  TypeOK => \A i \in 0..(Slots - 1) :
              /\ Log[i] # Empty => Log[i] \in EventType
              /\ IsEvent(events[i]) <=> Log[i] # Empty
              /\ IsEvent(events[i]) => events[i] = Log[i]
BY LoggerAssumption DEF TypeOK, Log, IsEvent, LoggerAssumption

LEMMA TakesKeepsNumbers ==
  ASSUME TypeOK, OwnInv, NumInv, NEW t \in Threads, NEW n \in Nat, Takes(t, n)
  PROVE  NumInv'
<1>1. Log' = Log /\ seq' = seq
  BY DEF Takes
<1>2. ASSUME NEW i \in 0..(Slots - 1), Log[i] # Empty,
             NEW p \in Pending(Log[i].tid)'
      PROVE  i < p
  <2>1. Log[i].tid \in Threads
    BY <1>2, LogTypes DEF EventType
  <2>2. logSz \in Nat /\ i < logSz
    BY <1>2, LoggerAssumption DEF OwnInv, TypeOK, LoggerAssumption
  <2>3. p \in Pending(Log[i].tid) \/ p \in logSz .. (logSz + n - 1)
    BY <2>1, <1>2 DEF Takes
  <2> QED
    BY <1>2, <2>2, <2>3 DEF NumInv
<1> QED
  BY <1>1, <1>2 DEF NumInv

LEMMA FillsKeepsNumbers ==
  ASSUME TypeOK, OwnInv, NumInv,
         NEW t \in Threads, NEW h \in 0..(Slots - 1), Fills(t, h)
  PROVE  NumInv'
<1> DEFINE e == EventOf(t, h, seq[t])
<1>1. e.nr = seq[t] /\ e.tid = t /\ e # Empty /\ seq[t] \in Nat
  BY EventsAreFull, LoggerAssumption DEF EventOf, TypeOK, LoggerAssumption
<1>2. /\ Log'[h] = e
      /\ \A i \in 0..(Slots - 1) : i # h => Log'[i] = Log[i]
      /\ seq'[t] = seq[t] + 1
      /\ \A u \in Threads \ {t} : seq'[u] = seq[u]
  BY DEF Fills, Log, TypeOK
<1>3. h \in Pending(t) /\ \A p \in Pending(t) : h <= p
  BY DEF Fills
<1>4. \A u \in Threads : Pending(u)' \subseteq Pending(u) /\ h \notin Pending(t)'
  BY DEF Fills
<1>5. Pending(t) \subseteq Int
  BY DEF OwnInv, TypeOK
<1> HIDE DEF e
<1>6. ASSUME NEW i \in 0..(Slots - 1), Log[i] # Empty
      PROVE  /\ Log[i].tid \in Threads /\ Log[i].nr \in Nat
             /\ Log[i].nr < seq[Log[i].tid]
             /\ seq[Log[i].tid] \in Nat
             /\ \A p \in Pending(Log[i].tid) : i < p
  <2>1. Log[i].tid \in Threads /\ Log[i].nr \in Nat
    BY <1>6, LogTypes DEF EventType
  <2> QED
    BY <1>6, <2>1 DEF NumInv, TypeOK
<1>7. ASSUME NEW i \in 0..(Slots - 1), Log'[i] # Empty,
             NEW u \in Threads, u = Log'[i].tid
      PROVE  Log'[i].nr < seq'[u] /\ \A p \in Pending(u)' : i < p
  <2>1. CASE i = h
    <3>1. u = t /\ Log'[i].nr < seq'[t]
      BY <1>1, <1>2, <1>7, <2>1
    <3>2. \A p \in Pending(t)' : h < p
      BY <1>3, <1>4, <1>5
    <3> QED
      BY <2>1, <3>1, <3>2
  <2>2. CASE i # h
    <3>1. Log'[i] = Log[i] /\ Log[i] # Empty /\ Log[i].tid = u
      BY <1>2, <1>7, <2>2
    <3>2. seq[u] <= seq'[u] /\ seq[u] \in Nat /\ seq'[u] \in Nat
      BY <1>1, <1>2, <1>6, <3>1
    <3>3. Log[i].nr < seq'[u]
      BY <1>6, <3>1, <3>2
    <3>4. \A p \in Pending(u)' : i < p
      BY <1>4, <1>6, <3>1
    <3> QED
      BY <3>1, <3>3, <3>4
  <2> QED
    BY <2>1, <2>2
<1>8. ASSUME NEW i \in 0..(Slots - 1), NEW j \in 0..(Slots - 1), i < j,
             Log'[i] # Empty, Log'[j] # Empty, Log'[i].tid = Log'[j].tid
      PROVE  Log'[i].nr < Log'[j].nr
  <2>1. CASE j = h
    <3>1. Log'[i] = Log[i] /\ Log[i] # Empty /\ Log[i].tid = t
      BY <1>1, <1>2, <1>8, <2>1
    <3>2. Log[i].nr < seq[t]
      BY <1>6, <3>1
    <3> QED
      BY <1>1, <1>2, <2>1, <3>1, <3>2
  <2>2. CASE i = h
    <3>1. Log[j] # Empty /\ Log[j].tid = t
      BY <1>1, <1>2, <1>8, <2>2
    <3>2. j < h
      BY <1>3, <1>6, <3>1
    <3> QED
      BY <1>8, <2>2, <3>2
  <2>3. CASE i # h /\ j # h
    BY <1>2, <1>8, <2>3 DEF NumInv
  <2> QED
    BY <2>1, <2>2, <2>3
<1>9. \A i \in 0..(Slots - 1) : Log'[i] # Empty => Log'[i].tid \in Threads
  BY <1>1, <1>2, <1>6
<1>10. ASSUME NEW i \in 0..(Slots - 1), Log'[i] # Empty
       PROVE  (/\ Log[i].nr < seq[Log[i].tid]
               /\ \A p \in Pending(Log[i].tid) : i < p)'
  BY <1>7, <1>9, <1>10
<1> QED
  BY <1>8, <1>10 DEF NumInv

LEMMA NothingPending ==
  ASSUME NEW t, slots[t] = <<>>, ~InBatch(t)
  PROVE  Pending(t) = {}
<1>1. 1..Len(slots[t]) = {}
  OBVIOUS
<1>2. {slots[t][k] : k \in 1..Len(slots[t])} = {}
  BY <1>1
<1> QED
  BY <1>2 DEF Pending, BatchRest

LEMMA LogInit == Init => LogInv
<1> SUFFICES ASSUME Init
             PROVE  LogInv
  OBVIOUS
<1>1. \A i \in 0..(Slots - 1) : Log[i] = Empty
  BY LoggerAssumption DEF Init, Log, LoggerAssumption
<1>2. \A t \in Threads : slots[t] = <<>> /\ ~InBatch(t)
  BY DEF Init, InBatch, NoBatch
<1>3. ASSUME NEW t \in Threads
      PROVE  Pending(t) = {}
  <2>1. slots[t] = <<>> /\ ~InBatch(t)
    BY <1>2
  <2> QED
    BY <2>1, NothingPending
<1>4. OwnInv
  BY <1>1, <1>3 DEF OwnInv, Init
<1>5. ASSUME NEW t \in Threads
      PROVE  Ordered(t)
  <2>1. slots[t] = <<>>
    BY <1>2
  <2>2. 1..Len(slots[t]) = {}
    BY <2>1
  <2> QED
    BY <2>2 DEF Ordered
<1>6. NumInv
  BY <1>1 DEF NumInv
<1> QED
  BY <1>4, <1>5, <1>6 DEF LogInv

LEMMA LogStep ==
  ASSUME TypeOK, TypeOK', CallInv, LogInv, [Next]_vars
  PROVE  LogInv'
<1>1. CASE UNCHANGED vars
  <2>1. UNCHANGED <<batch, slots, events, logSz, seq, abort>>
    BY <1>1 DEF vars, callVars, logVars
  <2>2. \A t \in Threads : /\ Pending(t)' = Pending(t)
                           /\ InBatch(t)' = InBatch(t)
    BY <2>1 DEF Pending, BatchRest, InBatch
  <2>3. Log' = Log
    BY <2>1 DEF Log
  <2>4. OwnInv'
    BY <2>1, <2>2, <2>3 DEF LogInv, OwnInv
  <2>5. NumInv'
    <3>1. \A i \in 0..(Slots - 1) : Log[i] # Empty => Log[i].tid \in Threads
      BY LogTypes DEF EventType
    <3> QED
      BY <2>1, <2>2, <2>3, <3>1 DEF LogInv, NumInv
  <2>6. \A t \in Threads : Ordered(t)'
    BY <2>1, <2>2 DEF LogInv, Ordered
  <2> QED
    BY <2>4, <2>5, <2>6 DEF LogInv
<1>2. ASSUME abort = "no", NEW t \in Threads, ThreadStep(t)
      PROVE  LogInv'
  <2>1. \A u \in Threads : Ordered(u)'
    BY <1>2, OrderedStep DEF LogInv
  <2>2. \/ \E n \in 0..3 : Takes(t, n)
        \/ \E i \in 0..(Slots - 1) : Fills(t, i)
    BY <1>2, StepEffect DEF LogInv
  <2>3. logSz \in Nat
    BY DEF TypeOK
  <2>4. OwnInv' /\ NumInv'
    BY <2>2, <2>3, TakesKeepsOwnership, FillsKeepsOwnership,
       TakesKeepsNumbers, FillsKeepsNumbers DEF LogInv
  <2> QED
    BY <2>1, <2>4 DEF LogInv
<1> QED
  BY <1>1, <1>2 DEF Next

\* The invariant of the log: types, calls, ownership and numbering.
LEMMA LogCorrect == Spec => [](TypeOK /\ CallInv /\ LogInv)
<1>1. TypeOK /\ CallInv /\ [Next]_vars => (TypeOK /\ CallInv)'
  BY TypeStep, CallStep, CallsAreTyped
<1>2. TypeOK /\ CallInv /\ LogInv /\ [Next]_vars
        => (TypeOK /\ CallInv /\ LogInv)'
  BY <1>1, LogStep
<1> QED
  BY <1>2, CallInit, LogInit, PTL DEF Spec

\* No slot belongs to two threads, and whatever is missing from the log below
\* __log_sz is in the hands of a thread that has yet to write it, for any
\* number of threads that take slots without a lock.
THEOREM SlotsAreOwned == Spec => []HolesAreOwned
<1>1. TypeOK /\ CallInv /\ LogInv => HolesAreOwned
  <2> SUFFICES ASSUME TypeOK, LogInv
               PROVE  HolesAreOwned
    OBVIOUS
  <2>1. ASSUME NEW i \in 0..(Slots - 1), i < logSz, ~IsEvent(events[i])
        PROVE  \E t \in Threads : i \in Pending(t)
    <3>1. Log[i] = Empty
      BY <2>1, LogTypes
    <3>2. i \in 0..(logSz - 1)
      BY <2>1 DEF TypeOK
    <3> QED
      BY <3>1, <3>2 DEF LogInv, OwnInv
  <2> QED
    BY <2>1 DEF HolesAreOwned, LogInv, OwnInv
<1> QED
  BY <1>1, LogCorrect, PTL

\* In the log the events of a thread stand in the order in which the thread
\* made its calls, batches and pairs included.
THEOREM LogKeepsProgramOrder == Spec => []ProgramOrder
<1>1. TypeOK /\ CallInv /\ LogInv => ProgramOrder
  BY LogTypes DEF ProgramOrder, LogInv, NumInv
<1> QED
  BY <1>1, LogCorrect, PTL

---------------------------------------------------------------------------
(* Saving the trace.                                                       *)

\* Nobody is inside the logger.
Quiet == \A u \in Threads :
  pc[u] \in {"out", "saving", "saved", "dumping", "dumped"} /\ ~InBatch(u)

\* The exit that caught nobody inside the logger finds it quiet until the end,
\* and what is in the file is what is in the log.
QuietInv ==
  /\ \A t \in Threads : pc[t] \in {"saving", "saved"} => finished
  /\ finished /\ caught = {} => Quiet
  /\ caught = {} => abort \notin {"hole", "type"}
  /\ \A t \in Threads :
       caught = {} /\ config.enabled /\ pc[t] \in {"saving", "saved"} =>
         /\ Len(file[t]) <= logSz
         /\ \A k \in 1..Len(file[t]) : file[t][k] = events[k - 1]
         /\ pc[t] = "saved" => Len(file[t]) = logSz

\* In a quiet logger every slot handed out holds its event.
LEMMA QuietIsFull ==
  ASSUME TypeOK, CallInv, OwnInv, Quiet
  PROVE  \A i \in 0..(logSz - 1) : i < Slots /\ IsEvent(events[i])
<1>1. ASSUME NEW t \in Threads
      PROVE  Pending(t) = {}
  <2>1. slots[t] = <<>> /\ ~InBatch(t)
    BY DEF Quiet, CallInv, Stage
  <2> QED
    BY <2>1, NothingPending
<1>2. ASSUME NEW i \in 0..(logSz - 1)
      PROVE  i < Slots /\ IsEvent(events[i])
  <2>1. i < Slots /\ Log[i] # Empty
    BY <1>1 DEF OwnInv
  <2>2. i \in 0..(Slots - 1)
    BY <2>1, LoggerAssumption DEF LoggerAssumption, TypeOK
  <2> QED
    BY <2>1, <2>2, LogTypes
<1> QED
  BY <1>2

LEMMA QuietStepKept ==
  ASSUME TypeOK, CallInv, OwnInv, QuietInv, [Next]_vars
  PROVE  QuietInv'
<1> DEFINE Ends == {"saving", "saved"}
<1>1. CASE UNCHANGED vars
  <2>1. UNCHANGED <<config, pc, batch, events, logSz, finished, file, caught, abort>>
    BY <1>1 DEF vars, callVars, logVars, endVars
  <2>2. Quiet => Quiet'
    BY <2>1 DEF Quiet, InBatch
  <2> QED
    BY <2>1, <2>2 DEF QuietInv
<1>2. ASSUME abort = "no", NEW t \in Threads, ThreadStep(t), ~finished, ~Exit(t)
      PROVE  QuietInv'
  <2>1. \A u \in Threads : pc[u] \notin Ends
    BY <1>2 DEF QuietInv
  <2>2. pc \in [Threads -> Places]
    BY DEF TypeOK
  <2>3. ASSUME \/ \E k \in Kinds, n \in LibcSizes \union {1, 2} : EnterHook(t, k, n)
               \/ AfterCreate(t) \/ BeginWrite(t) \/ EndWrite(t) \/ Segfault(t)
        PROVE  /\ \A u \in Threads : pc'[u] \notin Ends
               /\ ~finished' /\ abort' \notin {"hole", "type"}
    BY <1>2, <2>1, <2>2, <2>3 DEF EnterHook, AfterCreate, BeginWrite, EndWrite,
       Segfault, endVars
  <2>4. ASSUME StartBatch(t) \/ Fetch(t) \/ FetchPair(t) \/ EndBatch(t)
        PROVE  /\ \A u \in Threads : pc'[u] \notin Ends
               /\ ~finished' /\ abort' \notin {"hole", "type"}
    BY <1>2, <2>1, <2>2, <2>4 DEF StartBatch, Fetch, FetchPair, EndBatch, endVars
  <2>5. ASSUME FlushSlot(t) \/ FlushDone(t)
        PROVE  /\ \A u \in Threads : pc'[u] \notin Ends
               /\ ~finished' /\ abort' \notin {"hole", "type"}
    BY <1>2, <2>1, <2>2, <2>5 DEF FlushSlot, FlushDone, endVars
  <2>6. /\ \A u \in Threads : pc'[u] \notin Ends
        /\ ~finished' /\ abort' \notin {"hole", "type"}
    BY <1>2, <2>3, <2>4, <2>5 DEF ThreadStep
  <2> QED
    BY <2>6 DEF QuietInv
<1>3. ASSUME abort = "no", NEW t \in Threads, Exit(t)
      PROVE  QuietInv'
  <2>1. /\ pc[t] \in {"out", "dumped"} /\ ~finished /\ finished'
        /\ caught' = {u \in Threads \ {t} : Inside(u)}
        /\ file' = [file EXCEPT ![t] = <<>>]
        /\ pc' = [pc EXCEPT ![t] = IF config.enabled THEN "saving" ELSE "saved"]
        /\ UNCHANGED <<config, batch, events, logSz, abort>>
    BY <1>3 DEF Exit, callVars, logVars
  <2>2. /\ pc'[t] = IF config.enabled THEN "saving" ELSE "saved"
        /\ file'[t] = <<>>
        /\ \A u \in Threads \ {t} : pc'[u] = pc[u] /\ pc[u] \notin Ends
    BY <2>1 DEF TypeOK, QuietInv
  <2>3. ASSUME caught' = {}
        PROVE  Quiet'
    <3>1. \A u \in Threads \ {t} : ~Inside(u)
      BY <2>1, <2>3
    <3>2. \A u \in Threads \ {t} : pc[u] \in {"out", "dumping", "dumped"} /\ ~InBatch(u)
      BY <3>1 DEF Inside
    <3>3. ~InBatch(t)
      BY <2>1 DEF CallInv, Stage
    <3> QED
      BY <2>1, <2>2, <3>2, <3>3 DEF Quiet, InBatch
  <2>4. ASSUME NEW u \in Threads, config'.enabled, pc'[u] \in Ends
        PROVE  /\ Len(file'[u]) <= logSz'
               /\ \A k \in 1..Len(file'[u]) : file'[u][k] = events'[k - 1]
               /\ pc'[u] = "saved" => Len(file'[u]) = logSz'
    <3>1. u = t /\ pc'[u] = "saving"
      BY <2>1, <2>2, <2>4
    <3>2. Len(file'[u]) = 0 /\ 0 <= logSz'
      BY <2>1, <2>2, <3>1 DEF TypeOK
    <3> QED
      BY <3>1, <3>2
  <2> QED
    BY <1>3, <2>1, <2>3, <2>4 DEF QuietInv
<1>4. ASSUME abort = "no", NEW t \in Threads, ThreadStep(t), finished, caught # {}
      PROVE  QuietInv'
  <2>1. finished' /\ caught' = caught
    BY <1>4 DEF ThreadStep, EnterHook, StartBatch, AfterCreate, Fetch, FetchPair,
                BeginWrite, EndWrite, EndBatch, Exit, Segfault, FlushSlot,
                FlushDone, endVars
  <2> QED
    BY <1>4, <2>1 DEF QuietInv
<1>5. ASSUME abort = "no", NEW t \in Threads, ThreadStep(t), finished, caught = {}
      PROVE  QuietInv'
  <2>1. Quiet
    BY <1>5 DEF QuietInv
  <2>2. \A i \in 0..(logSz - 1) : i < Slots /\ IsEvent(events[i])
    BY <2>1, QuietIsFull
  <2>3. FlushSlot(t) \/ FlushDone(t)
    BY <1>5, <2>1 DEF Quiet, ThreadStep, EnterHook, StartBatch, AfterCreate, Fetch,
       FetchPair, BeginWrite, EndWrite, EndBatch, Exit, Segfault
  <2>4. /\ UNCHANGED <<config, batch, events, logSz, finished, caught>>
        /\ pc[t] \in {"saving", "dumping"}
    BY <2>3 DEF FlushSlot, FlushDone, callVars, logVars, endVars
  <2>5. logSz \in Nat /\ file \in [Threads -> Seq({Torn} \union EventType)]
    BY DEF TypeOK
  <2>6. CASE FlushSlot(t)
    <3> DEFINE i == Len(file[t])
    <3>1. /\ i \in 0..(logSz - 1) /\ i < Slots /\ IsEvent(events[i])
          /\ pc' = pc
      BY <2>2, <2>5, <2>6 DEF FlushSlot
    <3>2. abort' = abort /\ file' = [file EXCEPT ![t] = Append(@, events[i])]
      BY <2>6, <3>1 DEF FlushSlot
    <3>3. Quiet'
      BY <2>1, <2>4, <3>1 DEF Quiet, InBatch
    <3>4. ASSUME NEW u \in Threads, config.enabled, pc[u] \in Ends
          PROVE  /\ Len(file'[u]) <= logSz
                 /\ \A k \in 1..Len(file'[u]) : file'[u][k] = events[k - 1]
                 /\ pc[u] = "saved" => Len(file'[u]) = logSz
      <4>1. /\ Len(file[u]) <= logSz
            /\ \A k \in 1..Len(file[u]) : file[u][k] = events[k - 1]
            /\ pc[u] = "saved" => Len(file[u]) = logSz
        BY <1>5, <3>4 DEF QuietInv
      <4>2. CASE u # t
        BY <2>5, <3>2, <4>1, <4>2
      <4>3. CASE u = t
        <5>1. /\ file'[u] = Append(file[t], events[i])
              /\ file[t] \in Seq({Torn} \union EventType)
          BY <2>5, <3>2, <4>3
        <5>2. /\ Len(file'[u]) = i + 1 /\ file'[u][i + 1] = events[i]
              /\ \A k \in 1..i : file'[u][k] = file[t][k]
          BY <5>1
        <5>3. pc[u] # "saved" /\ i + 1 <= logSz /\ i \in Nat
          BY <2>4, <2>5, <3>1, <4>3
        <5>4. \A k \in 1..(i + 1) : k \in 1..i \/ (k = i + 1 /\ k - 1 = i)
          BY <5>3
        <5>5. \A k \in 1..i : file[t][k] = events[k - 1]
          BY <4>1, <4>3
        <5> HIDE DEF i
        <5>6. \A k \in 1..(i + 1) : file'[u][k] = events[k - 1]
          BY <5>2, <5>4, <5>5
        <5> QED
          BY <5>2, <5>3, <5>6
      <4> QED
        BY <4>2, <4>3
    <3> QED
      BY <1>5, <2>4, <3>1, <3>2, <3>3, <3>4 DEF QuietInv
  <2>7. CASE FlushDone(t)
    <3>1. /\ Len(file[t]) >= logSz /\ file' = file /\ abort' = abort
          /\ pc' = [pc EXCEPT ![t] = IF pc[t] = "saving" THEN "saved" ELSE "dumped"]
      BY <2>7 DEF FlushDone, endVars
    <3>2. /\ pc'[t] = IF pc[t] = "saving" THEN "saved" ELSE "dumped"
          /\ \A u \in Threads \ {t} : pc'[u] = pc[u]
      BY <3>1 DEF TypeOK
    <3>3. Quiet'
      BY <2>1, <2>4, <3>2 DEF Quiet, InBatch
    <3>4. ASSUME NEW u \in Threads, config.enabled, pc'[u] \in Ends
          PROVE  /\ Len(file[u]) <= logSz
                 /\ \A k \in 1..Len(file[u]) : file[u][k] = events[k - 1]
                 /\ pc'[u] = "saved" => Len(file[u]) = logSz
      <4>1. pc[u] \in Ends /\ (u # t => pc'[u] = pc[u])
        BY <2>4, <3>2, <3>4
      <4>2. /\ Len(file[u]) <= logSz
            /\ \A k \in 1..Len(file[u]) : file[u][k] = events[k - 1]
            /\ pc[u] = "saved" => Len(file[u]) = logSz
        BY <1>5, <3>4, <4>1 DEF QuietInv
      <4>3. Len(file[u]) \in Nat
        BY <2>5
      <4> QED
        BY <2>5, <3>1, <4>1, <4>2, <4>3
    <3> QED
      BY <1>5, <2>4, <3>1, <3>3, <3>4 DEF QuietInv
  <2> QED
    BY <2>3, <2>6, <2>7
<1> QED
  BY <1>1, <1>2, <1>3, <1>4, <1>5 DEF Next

\* An exit that catches nobody inside the logger saves the whole log: the
\* assertion in flush holds and the file is the log, slot by slot.
THEOREM QuietExitIsComplete == Spec => []QuietExitSavesAll
<1>1. Init => QuietInv
  BY DEF Init, QuietInv
<1>2. TypeOK /\ CallInv /\ LogInv /\ QuietInv /\ [Next]_vars => QuietInv'
  BY QuietStepKept DEF LogInv
<1>3. TypeOK /\ CallInv /\ LogInv /\ QuietInv => QuietExitSavesAll
  <2> SUFFICES ASSUME TypeOK, CallInv, LogInv, QuietInv, caught = {},
                      NEW t \in Threads, pc[t] = "saved", config.enabled
               PROVE  /\ file[t] = [k \in 1..logSz |-> events[k - 1]]
                      /\ \A k \in 1..logSz : IsEvent(events[k - 1])
    BY DEF QuietExitSavesAll, QuietInv
  <2>1. /\ Len(file[t]) = logSz
        /\ \A k \in 1..Len(file[t]) : file[t][k] = events[k - 1]
    BY DEF QuietInv
  <2>2. file[t] \in Seq({Torn} \union EventType)
    BY DEF TypeOK
  <2>3. file[t] = [k \in 1..logSz |-> events[k - 1]]
    BY <2>1, <2>2
  <2>4. Quiet
    BY DEF QuietInv
  <2>5. \A i \in 0..(logSz - 1) : IsEvent(events[i])
    BY <2>4, QuietIsFull DEF LogInv
  <2>6. \A k \in 1..logSz : k - 1 \in 0..(logSz - 1)
    BY DEF TypeOK
  <2> QED
    BY <2>3, <2>5, <2>6
<1> QED
  BY <1>1, <1>2, <1>3, LogCorrect, PTL DEF Spec

---------------------------------------------------------------------------
(* The abstract log.                                                       *)

LEMMA JournalStep ==
  ASSUME TypeOK, CallInv, LogInv, [Next]_vars
  PROVE  [Journal!Next]_(Journal!vars)
<1>1. CASE UNCHANGED vars
  <2>1. UNCHANGED <<batch, slots, events, logSz>>
    BY <1>1 DEF vars, callVars, logVars
  <2> QED
    BY <2>1 DEF Journal!vars, Pending, BatchRest, InBatch
<1>2. ASSUME abort = "no", NEW t \in Threads, ThreadStep(t)
      PROVE  [Journal!Next]_(Journal!vars)
  <2> DEFINE claims == [u \in Threads |-> Pending(u)]
  <2>1. logSz \in Nat
    BY DEF TypeOK
  <2>2. ASSUME NEW n \in 0..3, Takes(t, n)
        PROVE  [Journal!Next]_(Journal!vars)
    <3>1. claims' = [claims EXCEPT ![t] = @ \union (logSz .. (logSz + n - 1))]
      BY <2>2 DEF Takes
    <3>2. CASE n = 0
      <4>1. logSz .. (logSz + n - 1) = {} /\ logSz' = logSz /\ Log' = Log
        BY <2>1, <2>2, <3>2 DEF Takes
      <4>2. claims' = claims
        BY <3>1, <4>1
      <4> QED
        BY <4>1, <4>2 DEF Journal!vars, Log
    <3>3. CASE n # 0
      <4>1. Journal!Reserve(t, n)
        BY <2>2, <3>1 DEF Journal!Reserve, Takes, Log
      <4> QED
        BY <3>3, <4>1 DEF Journal!Next
    <3> QED
      BY <3>2, <3>3
  <2>3. ASSUME NEW i \in 0..(Slots - 1), Fills(t, i)
        PROVE  [Journal!Next]_(Journal!vars)
    <3>1. claims' = [claims EXCEPT ![t] = @ \ {i}]
      BY <2>3 DEF Fills
    <3>2. EventOf(t, i, seq[t]) \in EventType
      BY EventsAreFull
    <3>3. /\ Log' = [Log EXCEPT ![i] = EventOf(t, i, seq[t])]
          /\ Log'[i] = EventOf(t, i, seq[t])
      BY <2>3 DEF Fills, Log
    <3>4. /\ Log'[i] \in EventType /\ Log'[i].ts = i /\ Log'[i].tid = t
          /\ Log' = [Log EXCEPT ![i] = Log'[i]]
      <4>1. EventOf(t, i, seq[t]).ts = i /\ EventOf(t, i, seq[t]).tid = t
        BY DEF EventOf
      <4> HIDE DEF Log
      <4> QED
        BY <3>2, <3>3, <4>1
    <3>5. i \in claims[t] /\ i < Slots /\ logSz' = logSz
      BY <2>3 DEF Fills
    <3>6. Journal!Fill(t, i)
      BY <3>1, <3>4, <3>5 DEF Journal!Fill, Log
    <3> QED
      BY <3>6 DEF Journal!Next
  <2> QED
    BY <1>2, <2>2, <2>3, StepEffect DEF LogInv
<1> QED
  BY <1>1, <1>2 DEF Next

\* The Logger implements the abstract log: slots are handed out in order and
\* filled once, each by the thread that took it, under its own number.
THEOREM ImplementsLog == Spec => ImplementsEventLog
<1>1. Init => Journal!Init
  <2> SUFFICES ASSUME Init
               PROVE  Journal!Init
    OBVIOUS
  <2>1. \A t \in Threads : slots[t] = <<>> /\ ~InBatch(t)
    BY DEF Init, InBatch, NoBatch
  <2>2. ASSUME NEW t \in Threads
        PROVE  Pending(t) = {}
    <3>1. slots[t] = <<>> /\ ~InBatch(t)
      BY <2>1
    <3> QED
      BY <3>1, NothingPending
  <2>3. Log = [i \in 0..(Slots - 1) |-> Empty]
    BY LoggerAssumption DEF Init, Log, LoggerAssumption
  <2> QED
    BY <2>2, <2>3 DEF Journal!Init, Init, Log
<1>2. TypeOK /\ CallInv /\ LogInv /\ [Next]_vars
        => [Journal!Next]_(Journal!vars)
  BY JournalStep
<1> QED
  BY <1>1, <1>2, LogCorrect, PTL DEF Spec, ImplementsEventLog, Journal!Spec

=============================================================================
