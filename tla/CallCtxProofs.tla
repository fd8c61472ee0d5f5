--------------------------- MODULE CallCtxProofs ---------------------------
(***************************************************************************)
(* Proofs about CallCtx: the call stack of a thread is the chain of its    *)
(* calls until one is unwound, and the log of allocations and its flush    *)
(* tell those chains.                                                      *)
(*                                                                         *)
(* What Callers does (it collects from a sequence) is shown by the least   *)
(* length at which it would not.  The invariant IInv adds to the           *)
(* properties which slots are taken, which are written, and what a thread  *)
(* inside the logger is about to write.                                    *)
(***************************************************************************)
EXTENDS CallCtx, FiniteSetTheorems, WellFoundedInduction, TLAPS

---------------------------------------------------------------------------
(* The invariant.                                                          *)

FrameType == [inst : Calls, hooks : BOOLEAN]
PCs == {"idle", "enter", "log", "write"}
Slots == 0..(MaxAllocs - 1)

\* The stacks, the wrappers and the allocation log stay in their types; a
\* record that nobody has written is the empty sequence.
TypeOK ==
  /\ stage \in {"init", "run", "flush", "end", "abort"}
  /\ frames \in [Threads -> Seq(FrameType)]
  /\ callStack \in [Threads -> Seq(Calls)]
  /\ pc \in [Threads -> PCs]
  /\ flag \in [{Wrapper[a] : a \in Allocs} -> {"unset", "on", "off"}]
  /\ pos \in Nat /\ slot \in [Threads -> Nat]
  /\ table \in [Slots -> Seq(Calls)] /\ file \in Seq(Seq(Calls))
  /\ made \in Seq(Seq(Calls))
  /\ mismatch \in BOOLEAN /\ unwound \in BOOLEAN

\* A thread is in a wrapper inside a call of an allocator with hooks.
InAllocator ==
  \A t \in Threads : pc[t] # "idle" =>
    /\ frames[t] # <<>> /\ Last(frames[t]).hooks
    /\ Last(frames[t]).inst \in Allocs

\* Every allocation that was counted has a slot of the log, and there is one
\* for each that is about to be.
Coming == {t \in Threads : pc[t] \in {"enter", "log"}}
SlotsSuffice ==
  /\ pos = Len(made)
  /\ pos + Cardinality(Coming) <= MaxAllocs
  /\ \A t \in Threads : pc[t] = "write" => slot[t] < pos
  /\ Len(file) <= pos
  /\ stage = "end" /\ LogMemAlloc => Len(file) = pos
  /\ stage = "flush" => LogMemAlloc

\* Until a call is unwound, a thread's stack is the chain of its calls, and
\* in the wrapper the call of the allocator once more.
StackIsChain ==
  ~unwound => \A t \in Threads :
    callStack[t] = IF pc[t] \in {"log", "write"} THEN Append(Chain(t), Site(t)) ELSE Chain(t)

\* So is what a thread is going to write, and what was written and flushed.
WritersKnow ==
  ~unwound => \A t \in Threads : pc[t] = "write" => callStack[t] = made[slot[t] + 1]
SlotsAreTaken ==
  ~unwound => \A i \in Slots : table[i] # NoRecord => i < pos
SlotsAreWritten ==
  ~unwound => \A i \in Slots : i < pos /\ table[i] = NoRecord =>
    \E t \in Threads : pc[t] = "write" /\ slot[t] = i
LinesAreRecords ==
  ~unwound => \A i \in 1..Len(file) : file[i] \in {NoRecord, made[i]}

IInv ==
  /\ TypeOK /\ InAllocator /\ SlotsSuffice
  /\ PopsMatch /\ StackIsChain /\ WritersKnow
  /\ SlotsAreTaken /\ SlotsAreWritten /\ RecordsTellChains /\ LinesAreRecords

---------------------------------------------------------------------------
(* What Callers computes, by induction on the number of frames: the least  *)
(* number where a claim fails is not the least.                            *)

\* Every nonempty set of naturals has a least element.
LEMMA LeastNatural ==
  ASSUME NEW T \in SUBSET Nat, T # {}
  PROVE  \E x \in T : \A y \in T : x <= y
<1> DEFINE R == {ss \in Nat \X Nat : ss[1] < ss[2]}
<1>1. IsWellFoundedOn(R, Nat)
  BY NatLessThanWellFounded DEF OpToRel
<1>2. PICK x \in T : \A y \in T : ~ (<<y, x>> \in R)
  <2> HIDE DEF R
  <2> QED
    BY <1>1, WFMin
<1>3. \A y \in T : ~ (y < x)
  <2> SUFFICES ASSUME NEW y \in T, y < x PROVE FALSE
    OBVIOUS
  <2>1. <<y, x>> \in Nat \X Nat /\ <<y, x>>[1] = y /\ <<y, x>>[2] = x
    OBVIOUS
  <2> QED
    BY <1>2, <2>1
<1>4. x \in Nat /\ \A y \in T : y \in Nat
  OBVIOUS
<1> QED
  BY <1>3, <1>4

\* c gives the callers among the first frames, for up to n of them.
Collects(c, fs, n) ==
  /\ c[0] = <<>>
  /\ \A i \in 1..n : c[i] = IF fs[i].hooks THEN Append(c[i - 1], fs[i].inst) ELSE c[i - 1]

\* There is such a function.
LEMMA CollectorExists ==
  ASSUME NEW fs, NEW N \in Nat
  PROVE  \E c : c = [i \in 0..N |-> IF i = 0 THEN <<>>
                                    ELSE IF fs[i].hooks THEN Append(c[i - 1], fs[i].inst)
                                    ELSE c[i - 1]]
<1> DEFINE Has(n) == \E c : Collects(c, fs, n)
           T == {n \in 0..N : ~Has(n)}
<1>1. T = {}
  <2> SUFFICES ASSUME T # {} PROVE FALSE
    OBVIOUS
  <2>1. PICK n \in T : \A k \in T : n <= k
    <3>1. T \in SUBSET Nat
      OBVIOUS
    <3> HIDE DEF T
    <3> QED
      BY <3>1, LeastNatural
  <2>2. n \in 0..N /\ ~Has(n)
    OBVIOUS
  <2>3. n # 0
    <3>1. Collects([i \in {0} |-> <<>>], fs, 0)
      BY DEF Collects
    <3> QED
      BY <2>2, <3>1
  <2>4. n - 1 \in 0..N /\ n - 1 < n /\ n \in 1..N
    BY <2>2, <2>3
  <2>5. Has(n - 1)
    <3>1. n - 1 \notin T
      BY <2>1, <2>4
    <3> QED
      BY <2>4, <3>1
  <2>6. PICK c : Collects(c, fs, n - 1)
    BY <2>5
  <2> DEFINE last == IF fs[n].hooks THEN Append(c[n - 1], fs[n].inst) ELSE c[n - 1]
             d == [i \in 0..n |-> IF i = n THEN last ELSE c[i]]
  <2>7. /\ \A i \in 0..(n - 1) : d[i] = c[i]
        /\ d[n] = last
    BY <2>4
  <2> HIDE DEF d
  <2>8. ASSUME NEW i \in 1..n
        PROVE  d[i] = IF fs[i].hooks THEN Append(d[i - 1], fs[i].inst) ELSE d[i - 1]
    <3>1. d[i - 1] = c[i - 1]
      <4>1. i - 1 \in 0..(n - 1)
        BY <2>4
      <4> QED
        BY <2>7, <4>1
    <3>2. CASE i = n
      BY <2>7, <3>1, <3>2
    <3>3. CASE i # n
      <4>1. i \in 1..(n - 1) /\ i \in 0..(n - 1)
        BY <2>4, <3>3
      <4> QED
        BY <2>6, <2>7, <3>1, <4>1 DEF Collects
    <3> QED
      BY <3>2, <3>3
  <2>9. d[0] = <<>>
    <3>1. 0 \in 0..(n - 1)
      BY <2>4
    <3> QED
      BY <2>6, <2>7, <3>1 DEF Collects
  <2>10. Has(n)
    BY <2>8, <2>9 DEF Collects
  <2> QED
    BY <2>2, <2>10
<1>2. Has(N)
  BY <1>1
<1>3. PICK c0 : Collects(c0, fs, N)
  BY <1>2
<1> DEFINE c == [i \in 0..N |-> c0[i]]
<1>4. \A i \in 0..N : c[i] = IF i = 0 THEN <<>>
                             ELSE IF fs[i].hooks THEN Append(c[i - 1], fs[i].inst)
                             ELSE c[i - 1]
  <2> SUFFICES ASSUME NEW i \in 0..N
               PROVE  c[i] = IF i = 0 THEN <<>>
                             ELSE IF fs[i].hooks THEN Append(c[i - 1], fs[i].inst)
                             ELSE c[i - 1]
    OBVIOUS
  <2>1. CASE i = 0
    BY <1>3, <2>1 DEF Collects
  <2>2. CASE i # 0
    <3>1. i \in 1..N /\ i - 1 \in 0..N
      BY <2>2
    <3>2. c[i] = c0[i] /\ c[i - 1] = c0[i - 1]
      BY <3>1
    <3> HIDE DEF c
    <3> QED
      BY <1>3, <2>2, <3>1, <3>2 DEF Collects
  <2> QED
    BY <2>1, <2>2
<1>5. c = [i \in 0..N |-> c[i]]
  OBVIOUS
<1> HIDE DEF c
<1>6. c = [i \in 0..N |-> IF i = 0 THEN <<>>
                          ELSE IF fs[i].hooks THEN Append(c[i - 1], fs[i].inst)
                          ELSE c[i - 1]]
  BY <1>4, <1>5
<1> QED
  BY <1>6

\* Callers is the last value of such a function ...
LEMMA CallersCollect ==
  ASSUME NEW fs, Len(fs) \in Nat
  PROVE  \E c : Collects(c, fs, Len(fs)) /\ Callers(fs) = c[Len(fs)]
<1> DEFINE n == Len(fs)
           Is(c) == c = [i \in 0..n |-> IF i = 0 THEN <<>>
                                        ELSE IF fs[i].hooks THEN Append(c[i - 1], fs[i].inst)
                                        ELSE c[i - 1]]
<1>1. \E c : Is(c)
  BY CollectorExists
<1>2. PICK d : d = CHOOSE c : Is(c)
  OBVIOUS
<1>3. Is(d)
  <2> HIDE DEF Is
  <2> QED
    BY <1>1, <1>2
<1>4. Callers(fs) = d[n]
  BY <1>2 DEF Callers
<1>5. d[0] = <<>>
  BY <1>3
<1>6. \A i \in 1..n : d[i] = IF fs[i].hooks THEN Append(d[i - 1], fs[i].inst) ELSE d[i - 1]
  <2> SUFFICES ASSUME NEW i \in 1..n
               PROVE  d[i] = IF fs[i].hooks THEN Append(d[i - 1], fs[i].inst) ELSE d[i - 1]
    OBVIOUS
  <2>1. i \in 0..n /\ i # 0
    OBVIOUS
  <2> QED
    BY <1>3, <2>1
<1> QED
  BY <1>4, <1>5, <1>6 DEF Collects

\* ... and such functions agree where the frames do.
LEMMA CollectorsAgree ==
  ASSUME NEW n \in Nat, NEW fs, NEW gs, NEW c, NEW d,
         Collects(c, fs, n), Collects(d, gs, n), \A i \in 1..n : fs[i] = gs[i]
  PROVE  c[n] = d[n]
<1> DEFINE T == {i \in 0..n : c[i] # d[i]}
<1>1. T = {}
  <2> SUFFICES ASSUME T # {} PROVE FALSE
    OBVIOUS
  <2>1. PICK i \in T : \A k \in T : i <= k
    <3>1. T \in SUBSET Nat
      OBVIOUS
    <3> HIDE DEF T
    <3> QED
      BY <3>1, LeastNatural
  <2>2. i \in 0..n /\ c[i] # d[i]
    OBVIOUS
  <2>3. i # 0
    BY <2>2 DEF Collects
  <2>4. i \in 1..n /\ i - 1 \in 0..n /\ i - 1 < i
    BY <2>2, <2>3
  <2>5. c[i - 1] = d[i - 1]
    <3>1. i - 1 \notin T
      BY <2>1, <2>4
    <3> QED
      BY <2>4, <3>1
  <2> QED
    BY <2>2, <2>4, <2>5 DEF Collects
<1> QED
  BY <1>1

LEMMA CallersOfNone == Callers(<<>>) = <<>>
<1>1. PICK c : Collects(c, <<>>, 0) /\ Callers(<<>>) = c[0]
  BY CallersCollect
<1> QED
  BY <1>1 DEF Collects

\* A call with hooks is put at the end; another one is not seen.
LEMMA CallersOfCall ==
  ASSUME NEW fs \in Seq(FrameType), NEW f \in FrameType
  PROVE  Callers(Append(fs, f)) = IF f.hooks THEN Append(Callers(fs), f.inst) ELSE Callers(fs)
<1>0. PICK n \in Nat : n = Len(fs)
  OBVIOUS
<1>1. PICK gs : gs = Append(fs, f)
  OBVIOUS
<1>2. Len(gs) = n + 1 /\ gs[n + 1] = f /\ \A i \in 1..n : gs[i] = fs[i]
  BY <1>0, <1>1
<1>3. PICK c : Collects(c, fs, n) /\ Callers(fs) = c[n]
  BY <1>0, CallersCollect
<1>4. PICK d : Collects(d, gs, n + 1) /\ Callers(gs) = d[n + 1]
  BY <1>2, CallersCollect
<1>5. Collects(d, gs, n)
  BY <1>4 DEF Collects
<1>6. c[n] = d[n]
  BY <1>2, <1>3, <1>5, CollectorsAgree
<1>7. n + 1 \in 1..(n + 1) /\ (n + 1) - 1 = n
  OBVIOUS
<1>8. d[n + 1] = IF f.hooks THEN Append(d[n], f.inst) ELSE d[n]
  BY <1>2, <1>4, <1>7 DEF Collects
<1> QED
  BY <1>1, <1>3, <1>4, <1>6, <1>8

\* The last call is the last caller, if it has hooks.
LEMMA CallersOfFront ==
  ASSUME NEW fs \in Seq(FrameType), fs # <<>>
  PROVE  /\ Front(fs) \in Seq(FrameType) /\ Last(fs) \in FrameType
         /\ Callers(fs) = IF Last(fs).hooks THEN Append(Callers(Front(fs)), Last(fs).inst)
                                            ELSE Callers(Front(fs))
<1>1. Front(fs) \in Seq(FrameType) /\ Last(fs) \in FrameType
  BY DEF Front, Last
<1>2. fs = Append(Front(fs), Last(fs))
  BY DEF Front, Last
<1>3. PICK gs \in Seq(FrameType), f \in FrameType : gs = Front(fs) /\ f = Last(fs)
  BY <1>1
<1>4. Callers(Append(gs, f)) = IF f.hooks THEN Append(Callers(gs), f.inst) ELSE Callers(gs)
  BY CallersOfCall
<1>5. fs = Append(gs, f)
  BY <1>2, <1>3
<1> QED
  BY <1>1, <1>3, <1>4, <1>5

\* Callers are calls.
LEMMA CallersType ==
  ASSUME NEW fs \in Seq(FrameType)
  PROVE  Callers(fs) \in Seq(Calls)
<1>0. PICK n \in Nat : n = Len(fs)
  OBVIOUS
<1>1. PICK c : Collects(c, fs, n) /\ Callers(fs) = c[n]
  BY <1>0, CallersCollect
<1> DEFINE T == {i \in 0..n : c[i] \notin Seq(Calls)}
<1>2. T = {}
  <2> SUFFICES ASSUME T # {} PROVE FALSE
    OBVIOUS
  <2>1. PICK i \in T : \A k \in T : i <= k
    <3>1. T \in SUBSET Nat
      OBVIOUS
    <3> HIDE DEF T
    <3> QED
      BY <3>1, LeastNatural
  <2>2. i \in 0..n /\ c[i] \notin Seq(Calls)
    OBVIOUS
  <2>3. i # 0
    <3>1. <<>> \in Seq(Calls)
      OBVIOUS
    <3>2. c[0] \in Seq(Calls)
      BY <1>1, <3>1 DEF Collects
    <3> QED
      BY <2>2, <3>2
  <2>4. i \in 1..n /\ i - 1 \in 0..n /\ i - 1 < i
    BY <2>2, <2>3
  <2>5. c[i - 1] \in Seq(Calls)
    <3>1. i - 1 \notin T
      BY <2>1, <2>4
    <3> QED
      BY <2>4, <3>1
  <2>6. fs[i] \in FrameType
    BY <1>0, <2>4
  <2>7. fs[i].inst \in Calls
    BY <2>6 DEF FrameType
  <2>8. c[i] = IF fs[i].hooks THEN Append(c[i - 1], fs[i].inst) ELSE c[i - 1]
    BY <1>1, <2>4 DEF Collects
  <2>9. \A q \in Seq(Calls), x \in Calls : Append(q, x) \in Seq(Calls)
    OBVIOUS
  <2>10. c[i] \in Seq(Calls)
    BY <2>5, <2>7, <2>8, <2>9
  <2> QED
    BY <2>2, <2>10
<1> QED
  BY <1>1, <1>2

\* Frames without hooks can be left without a trace.
LEMMA CallersOfPrefix ==
  ASSUME NEW fs \in Seq(FrameType), NEW depth \in 0..Len(fs),
         \A i \in (depth + 1)..Len(fs) : ~fs[i].hooks
  PROVE  Callers(SubSeq(fs, 1, depth)) = Callers(fs)
<1>0. PICK n \in Nat : n = Len(fs)
  OBVIOUS
<1>1. PICK gs : gs = SubSeq(fs, 1, depth)
  OBVIOUS
<1>2. depth \in Nat /\ depth <= n
  BY <1>0
<1>3. Len(gs) = depth /\ \A i \in 1..depth : gs[i] = fs[i]
  BY <1>0, <1>1, <1>2
<1>4. PICK c : Collects(c, fs, n) /\ Callers(fs) = c[n]
  BY <1>0, CallersCollect
<1>5. PICK d : Collects(d, gs, depth) /\ Callers(gs) = d[depth]
  BY <1>2, <1>3, CallersCollect
<1>6. Collects(c, fs, depth)
  BY <1>2, <1>4 DEF Collects
<1>7. c[depth] = d[depth]
  BY <1>2, <1>3, <1>5, <1>6, CollectorsAgree
<1> DEFINE T == {i \in depth..n : c[i] # c[depth]}
<1>8. T = {}
  <2> SUFFICES ASSUME T # {} PROVE FALSE
    OBVIOUS
  <2>1. PICK i \in T : \A k \in T : i <= k
    <3>1. T \in SUBSET Nat
      BY <1>2
    <3> HIDE DEF T
    <3> QED
      BY <3>1, LeastNatural
  <2>2. i \in depth..n /\ c[i] # c[depth]
    OBVIOUS
  <2>3. i \in (depth + 1)..n /\ i \in 1..n /\ i - 1 \in depth..n /\ i - 1 < i
    BY <1>2, <2>2
  <2>4. c[i - 1] = c[depth]
    <3>1. i - 1 \notin T
      BY <1>2, <2>1, <2>3
    <3> QED
      BY <2>3, <3>1
  <2>5. ~fs[i].hooks
    BY <1>0, <2>3
  <2> QED
    BY <1>4, <2>2, <2>3, <2>4, <2>5 DEF Collects
<1>9. c[n] = c[depth]
  <2>1. n \in depth..n
    BY <1>2
  <2> QED
    BY <1>8, <2>1
<1> QED
  BY <1>1, <1>4, <1>5, <1>7, <1>9

---------------------------------------------------------------------------
(* Types.                                                                  *)

LEMMA ConstantTypes ==
  /\ Allocs \subseteq Calls /\ Main \in Threads /\ IsFiniteSet(Threads) /\ MaxAllocs \in Nat
  /\ NoRecord \in Seq(Calls)
BY CallCtxAssumption DEF NoRecord

\* popCaller gives up or takes off the last caller.
LEMMA PopType ==
  ASSUME TypeOK, NEW t \in Threads, NEW inst, PopCaller(t, inst)
  PROVE  /\ callStack' \in [Threads -> Seq(Calls)]
         /\ mismatch' \in BOOLEAN
         /\ stage' \in {stage, "abort"}
<1>1. callStack[t] \in Seq(Calls)
  BY DEF TypeOK
<1>2. callStack[t] # <<>> => Front(callStack[t]) \in Seq(Calls)
  BY <1>1 DEF Front
<1> QED
  BY <1>2 DEF PopCaller, TypeOK

LEMMA PushType ==
  ASSUME TypeOK, NEW t \in Threads, NEW inst \in Calls, PushCaller(t, inst)
  PROVE  callStack' \in [Threads -> Seq(Calls)]
<1>1. callStack[t] \in Seq(Calls)
  BY DEF TypeOK
<1>2. Append(callStack[t], inst) \in Seq(Calls)
  BY <1>1
<1> QED
  BY <1>2 DEF PushCaller, TypeOK

\* The places of a thread in a wrapper.
LEMMA SiteFacts ==
  ASSUME TypeOK, InAllocator, NEW t \in Threads, pc[t] # "idle"
  PROVE  Site(t) \in Allocs /\ Site(t) \in Calls
BY ConstantTypes DEF InAllocator, Site

LEMMA InitInv == Init => IInv
<1> SUFFICES ASSUME Init PROVE IInv
  OBVIOUS
<1>1. <<>> \in Seq(Calls) /\ <<>> \in Seq(FrameType) /\ <<>> \in Seq(Seq(Calls)) /\ Len(<<>>) = 0
  OBVIOUS
<1>2. /\ stage = "init" /\ pos = 0 /\ file = <<>> /\ made = <<>> /\ mismatch = FALSE /\ unwound = FALSE
      /\ frames = [t \in Threads |-> <<>>] /\ callStack = [t \in Threads |-> <<>>]
      /\ pc = [t \in Threads |-> "idle"] /\ slot = [t \in Threads |-> 0]
      /\ flag = [w \in {Wrapper[a] : a \in Allocs} |-> "unset"]
      /\ table = [i \in Slots |-> NoRecord]
  BY DEF Init, Slots
<1>3. table \in [Slots -> Seq(Calls)]
  BY <1>2, ConstantTypes
<1>4. TypeOK
  BY <1>1, <1>2, <1>3 DEF TypeOK, PCs
<1>5. InAllocator
  BY <1>2 DEF InAllocator
<1>6. SlotsSuffice
  <2>1. Coming = {}
    BY <1>2 DEF Coming
  <2>2. Cardinality(Coming) = 0
    BY <2>1, FS_EmptySet
  <2> QED
    BY <1>1, <1>2, <2>2, ConstantTypes DEF SlotsSuffice
<1>7. StackIsChain
  BY <1>2, CallersOfNone DEF StackIsChain, Chain
<1>8. PopsMatch /\ WritersKnow /\ SlotsAreTaken /\ SlotsAreWritten /\ RecordsTellChains /\ LinesAreRecords
  BY <1>1, <1>2 DEF PopsMatch, WritersKnow, SlotsAreTaken, SlotsAreWritten, RecordsTellChains,
       LinesAreRecords, Slots
<1> QED
  BY <1>4, <1>5, <1>6, <1>7, <1>8 DEF IInv

---------------------------------------------------------------------------
(* Steps.                                                                  *)

\* How many allocations are coming when the thread of one enters, or leaves.
LEMMA ComingEnters ==
  ASSUME NEW S \in SUBSET Threads, NEW T \in SUBSET Threads, NEW t \in Threads, T \subseteq S \union {t}
  PROVE  Cardinality(S) \in Nat /\ Cardinality(T) \in Nat /\ Cardinality(T) <= Cardinality(S) + 1
<1>1. IsFiniteSet(S) /\ IsFiniteSet(S \union {t}) /\ IsFiniteSet(T)
  <2>1. S \union {t} \in SUBSET Threads
    OBVIOUS
  <2> QED
    BY <2>1, ConstantTypes, FS_Subset
<1>2. Cardinality(T) <= Cardinality(S \union {t})
  BY <1>1, FS_Subset
<1>3. Cardinality(S \union {t}) = Cardinality(S) \/ Cardinality(S \union {t}) = Cardinality(S) + 1
  BY <1>1, FS_AddElement
<1>4. Cardinality(S) \in Nat /\ Cardinality(T) \in Nat
  BY <1>1, FS_CardinalityType
<1> QED
  BY <1>2, <1>3, <1>4

LEMMA ComingLess ==
  ASSUME NEW S \in SUBSET Threads, NEW T \in SUBSET S
  PROVE  Cardinality(S) \in Nat /\ Cardinality(T) \in Nat /\ Cardinality(T) <= Cardinality(S)
<1>1. IsFiniteSet(S) /\ IsFiniteSet(T)
  BY ConstantTypes, FS_Subset
<1> QED
  BY <1>1, FS_Subset, FS_CardinalityType

LEMMA ComingLeaves ==
  ASSUME NEW S \in SUBSET Threads, NEW t \in S
  PROVE  Cardinality(S) \in Nat /\ Cardinality(S) >= 1 /\ Cardinality(S \ {t}) = Cardinality(S) - 1
<1>1. IsFiniteSet(S)
  BY ConstantTypes, FS_Subset
<1>2. Cardinality(S) \in Nat /\ Cardinality(S \ {t}) \in Nat
  <2>1. IsFiniteSet(S \ {t})
    BY <1>1, FS_Subset
  <2> QED
    BY <1>1, <2>1, FS_CardinalityType
<1>3. Cardinality(S \ {t}) = Cardinality(S) - 1
  BY <1>1, FS_RemoveElement
<1> QED
  BY <1>2, <1>3

\* A step outside of the logger: nothing it has is disturbed as long as there
\* are slots for the allocations that are coming.
LEMMA LogStays ==
  ASSUME IInv, UNCHANGED <<logVars, made>>, stage' \in {stage, "abort"},
         ~unwound' => ~unwound,
         \A u \in Threads : pc'[u] = "write" <=> pc[u] = "write",
         ~unwound' => \A u \in Threads : pc[u] = "write" => callStack'[u] = callStack[u],
         pos + Cardinality(Coming') <= MaxAllocs
  PROVE  /\ SlotsSuffice' /\ WritersKnow' /\ SlotsAreTaken' /\ SlotsAreWritten'
         /\ RecordsTellChains' /\ LinesAreRecords'
<1> USE DEF logVars
<1>1. SlotsSuffice'
  BY DEF IInv, SlotsSuffice
<1>2. WritersKnow'
  BY DEF IInv, WritersKnow
<1>3. SlotsAreTaken' /\ SlotsAreWritten'
  BY DEF IInv, SlotsAreTaken, SlotsAreWritten
<1>4. RecordsTellChains' /\ LinesAreRecords'
  BY DEF IInv, RecordsTellChains, LinesAreRecords
<1> QED
  BY <1>1, <1>2, <1>3, <1>4

LEMMA CallInv ==
  ASSUME IInv, NEW t \in Threads, NEW inst \in Calls, NEW hooks \in BOOLEAN, Call(t, inst, hooks)
  PROVE  IInv'
<1> DEFINE f == [inst |-> inst, hooks |-> hooks]
<1>0. TypeOK
  BY DEF IInv
<1>1. /\ pc[t] = "idle" /\ UNCHANGED <<stage, flag, logVars, made, mismatch, unwound>>
      /\ inst \in Allocs => Len(made) + Cardinality({u \in Threads : pc[u] # "idle"}) < MaxAllocs
      /\ frames' = [frames EXCEPT ![t] = Append(@, f)]
      /\ hooks => PushCaller(t, inst)
      /\ ~hooks => UNCHANGED callStack
      /\ pc' = [pc EXCEPT ![t] = IF hooks /\ inst \in Allocs THEN "enter" ELSE "idle"]
  BY DEF Call, Active
<1>2. f \in FrameType /\ f.inst = inst /\ f.hooks = hooks
  BY DEF FrameType
<1>3. frames[t] \in Seq(FrameType) /\ callStack[t] \in Seq(Calls)
  BY <1>0 DEF TypeOK
<1> HIDE DEF f
<1>4. /\ frames'[t] = Append(frames[t], f) /\ \A u \in Threads : u # t => frames'[u] = frames[u]
      /\ pc'[t] = (IF hooks /\ inst \in Allocs THEN "enter" ELSE "idle")
      /\ \A u \in Threads : u # t => pc'[u] = pc[u]
      /\ callStack'[t] = (IF hooks THEN Append(callStack[t], inst) ELSE callStack[t])
      /\ \A u \in Threads : u # t => callStack'[u] = callStack[u]
  <2>1. frames \in [Threads -> Seq(FrameType)] /\ pc \in [Threads -> PCs] /\ callStack \in [Threads -> Seq(Calls)]
    BY <1>0 DEF TypeOK
  <2> QED
    BY <1>1, <2>1 DEF PushCaller
<1>5. TypeOK'
  <2>1. frames' \in [Threads -> Seq(FrameType)]
    <3>1. Append(frames[t], f) \in Seq(FrameType)
      BY <1>2, <1>3
    <3> QED
      BY <1>0, <1>1, <3>1 DEF TypeOK
  <2>2. callStack' \in [Threads -> Seq(Calls)]
    BY <1>0, <1>1, PushType DEF TypeOK
  <2>3. pc' \in [Threads -> PCs]
    BY <1>0, <1>1 DEF TypeOK, PCs
  <2> QED
    BY <1>0, <1>1, <2>1, <2>2, <2>3 DEF TypeOK, logVars
<1>6. InAllocator'
  <2> SUFFICES ASSUME NEW u \in Threads, pc'[u] # "idle"
               PROVE  frames'[u] # <<>> /\ Last(frames'[u]).hooks /\ Last(frames'[u]).inst \in Allocs
    BY DEF InAllocator
  <2>1. CASE u = t
    <3>1. hooks /\ inst \in Allocs
      BY <1>4, <2>1
    <3>2. frames'[t] # <<>> /\ Last(frames'[t]) = f
      BY <1>2, <1>3, <1>4 DEF Last
    <3> QED
      BY <1>2, <2>1, <3>1, <3>2
  <2>2. CASE u # t
    BY <1>4, <2>2 DEF IInv, InAllocator
  <2> QED
    BY <2>1, <2>2
<1>7. pos + Cardinality(Coming') <= MaxAllocs
  <2>1. pos \in Nat /\ pos = Len(made) /\ pos + Cardinality(Coming) <= MaxAllocs /\ MaxAllocs \in Nat
    BY <1>0, ConstantTypes DEF IInv, SlotsSuffice, TypeOK
  <2>2. CASE pc'[t] = "enter"
    <3> DEFINE B == {u \in Threads : pc[u] # "idle"}
    <3>1. pos + Cardinality(B) < MaxAllocs
      BY <1>1, <1>4, <2>1, <2>2
    <3>2. Coming' \subseteq B \union {t} /\ Coming' \in SUBSET Threads /\ B \in SUBSET Threads
      BY <1>4 DEF Coming
    <3>3. Cardinality(B) \in Nat /\ Cardinality(Coming') \in Nat /\ Cardinality(Coming') <= Cardinality(B) + 1
      <4> HIDE DEF B
      <4> QED
        BY <3>2, ComingEnters
    <3> HIDE DEF B
    <3> QED
      BY <2>1, <3>1, <3>3
  <2>3. CASE pc'[t] = "idle"
    <3>1. Coming' = Coming
      BY <1>1, <1>4, <2>3 DEF Coming
    <3> QED
      BY <2>1, <3>1
  <2> QED
    BY <1>4, <2>2, <2>3
<1>8. /\ SlotsSuffice' /\ WritersKnow' /\ SlotsAreTaken' /\ SlotsAreWritten'
      /\ RecordsTellChains' /\ LinesAreRecords'
  BY <1>1, <1>4, <1>7, LogStays
<1>9. StackIsChain'
  <2> SUFFICES ASSUME ~unwound, NEW u \in Threads
               PROVE  callStack'[u] = IF pc'[u] \in {"log", "write"} THEN Append(Callers(frames'[u]), Last(frames'[u]).inst)
                                                                     ELSE Callers(frames'[u])
    BY <1>1 DEF StackIsChain, Chain, Site
  <2>1. callStack[u] = IF pc[u] \in {"log", "write"} THEN Append(Callers(frames[u]), Last(frames[u]).inst)
                                                     ELSE Callers(frames[u])
    BY DEF IInv, StackIsChain, Chain, Site
  <2>2. CASE u = t
    <3>1. Callers(frames'[t]) = IF hooks THEN Append(Callers(frames[t]), inst) ELSE Callers(frames[t])
      BY <1>2, <1>3, <1>4, CallersOfCall
    <3> QED
      BY <1>1, <1>4, <2>1, <2>2, <3>1
  <2>3. CASE u # t
    BY <1>4, <2>1, <2>3
  <2> QED
    BY <2>2, <2>3
<1>10. PopsMatch'
  BY <1>1 DEF IInv, PopsMatch
<1> QED
  BY <1>5, <1>6, <1>8, <1>9, <1>10 DEF IInv

LEMMA ReturnInv ==
  ASSUME IInv, NEW t \in Threads, Return(t)
  PROVE  IInv'
<1> DEFINE f == Last(frames[t])
<1>0. TypeOK
  BY DEF IInv
<1>1. /\ pc[t] = "idle" /\ frames[t] # <<>> /\ UNCHANGED <<pc, flag, logVars, made, unwound>>
      /\ frames' = [frames EXCEPT ![t] = Front(@)]
      /\ f.hooks => PopCaller(t, f.inst)
      /\ ~f.hooks => UNCHANGED <<callStack, stage, mismatch>>
  BY DEF Return, Active
<1>2. frames[t] \in Seq(FrameType) /\ callStack[t] \in Seq(Calls)
      /\ frames \in [Threads -> Seq(FrameType)] /\ callStack \in [Threads -> Seq(Calls)]
  BY <1>0 DEF TypeOK
<1>3. /\ Front(frames[t]) \in Seq(FrameType) /\ f \in FrameType
      /\ Callers(frames[t]) = IF f.hooks THEN Append(Callers(Front(frames[t])), f.inst)
                                         ELSE Callers(Front(frames[t]))
  BY <1>1, <1>2, CallersOfFront
<1>4. f.hooks \in BOOLEAN /\ f.inst \in Calls
  BY <1>3 DEF FrameType
<1> HIDE DEF f
<1>5. frames'[t] = Front(frames[t]) /\ \A u \in Threads : u # t => frames'[u] = frames[u]
  BY <1>1, <1>2
<1>6. \A u \in Threads : u # t => callStack'[u] = callStack[u]
  BY <1>1, <1>2, <1>4 DEF PopCaller
<1>7. TypeOK'
  <2>1. frames' \in [Threads -> Seq(FrameType)]
    BY <1>1, <1>2, <1>3
  <2>2. /\ callStack' \in [Threads -> Seq(Calls)] /\ mismatch' \in BOOLEAN
        /\ stage' \in {stage, "abort"}
    BY <1>0, <1>1, <1>4, PopType DEF TypeOK
  <2> QED
    BY <1>0, <1>1, <2>1, <2>2 DEF TypeOK, logVars
<1>8. stage' \in {stage, "abort"}
  BY <1>1, <1>4 DEF PopCaller
<1>9. InAllocator'
  BY <1>1, <1>5 DEF IInv, InAllocator
<1>10. pos + Cardinality(Coming') <= MaxAllocs
  <2>1. Coming' = Coming
    BY <1>1 DEF Coming
  <2> QED
    BY <2>1 DEF IInv, SlotsSuffice
<1>11. /\ SlotsSuffice' /\ WritersKnow' /\ SlotsAreTaken' /\ SlotsAreWritten'
       /\ RecordsTellChains' /\ LinesAreRecords'
  <2>1. \A u \in Threads : pc[u] = "write" => callStack'[u] = callStack[u]
    BY <1>1, <1>6
  <2> QED
    BY <1>1, <1>8, <1>10, <2>1, LogStays
<1>12. ~unwound => callStack[t] = Callers(frames[t])
  BY <1>1 DEF IInv, StackIsChain, Chain
<1>13. ~unwound => callStack'[t] = Callers(frames'[t]) /\ mismatch' = mismatch
  <2> SUFFICES ASSUME ~unwound PROVE callStack'[t] = Callers(frames'[t]) /\ mismatch' = mismatch
    OBVIOUS
  <2>1. CASE ~f.hooks
    BY <1>1, <1>3, <1>5, <1>12, <2>1
  <2>2. CASE f.hooks
    <3>1. PICK s \in Seq(Calls) : s = Callers(Front(frames[t]))
      BY <1>3, CallersType
    <3>2. callStack[t] = Append(s, f.inst)
      BY <1>3, <1>12, <2>2, <3>1
    <3>3. Append(s, f.inst) # <<>> /\ Last(Append(s, f.inst)) = f.inst /\ Front(Append(s, f.inst)) = s
      BY <1>4 DEF Last, Front
    <3>4. callStack' = [callStack EXCEPT ![t] = Front(@)] /\ mismatch' = mismatch
      BY <1>1, <2>2, <3>2, <3>3 DEF PopCaller
    <3> QED
      BY <1>2, <1>5, <3>1, <3>2, <3>3, <3>4
  <2> QED
    BY <1>4, <2>1, <2>2
<1>14. StackIsChain'
  <2> SUFFICES ASSUME ~unwound, NEW u \in Threads
               PROVE  callStack'[u] = IF pc[u] \in {"log", "write"} THEN Append(Callers(frames'[u]), Last(frames'[u]).inst)
                                                                    ELSE Callers(frames'[u])
    BY <1>1 DEF StackIsChain, Chain, Site
  <2>1. CASE u = t
    BY <1>1, <1>13, <2>1
  <2>2. CASE u # t
    BY <1>5, <1>6, <2>2 DEF IInv, StackIsChain, Chain, Site
  <2> QED
    BY <2>1, <2>2
<1>15. PopsMatch'
  BY <1>1, <1>13 DEF IInv, PopsMatch
<1> QED
  BY <1>7, <1>9, <1>11, <1>14, <1>15 DEF IInv

LEMMA UnwindInv ==
  ASSUME IInv, NEW t \in Threads, Unwind(t)
  PROVE  IInv'
<1>0. TypeOK
  BY DEF IInv
<1>1. pc[t] = "idle" /\ UNCHANGED <<stage, callStack, pc, flag, logVars, made, mismatch>> /\ ~unwound
  BY DEF Unwind, Active
<1>2. PICK depth \in 0..(Len(frames[t]) - 1) :
        /\ frames' = [frames EXCEPT ![t] = SubSeq(@, 1, depth)]
        /\ unwound' = (unwound \/ \E i \in (depth + 1)..Len(frames[t]) : frames[t][i].hooks)
  BY DEF Unwind
<1>3. frames[t] \in Seq(FrameType) /\ frames \in [Threads -> Seq(FrameType)]
  BY <1>0 DEF TypeOK
<1>4. depth \in 0..Len(frames[t])
  BY <1>3
<1>5. SubSeq(frames[t], 1, depth) \in Seq(FrameType)
  BY <1>3, <1>4
<1>6. frames'[t] = SubSeq(frames[t], 1, depth) /\ \A u \in Threads : u # t => frames'[u] = frames[u]
  BY <1>2, <1>3
<1>7. TypeOK'
  <2>1. frames' \in [Threads -> Seq(FrameType)]
    BY <1>2, <1>3, <1>5
  <2>2. unwound' \in BOOLEAN
    BY <1>2
  <2> QED
    BY <1>0, <1>1, <2>1, <2>2 DEF TypeOK, logVars
<1>8. InAllocator'
  BY <1>1, <1>6 DEF IInv, InAllocator
<1>9. pos + Cardinality(Coming') <= MaxAllocs
  <2>1. Coming' = Coming
    BY <1>1 DEF Coming
  <2> QED
    BY <2>1 DEF IInv, SlotsSuffice
<1>10. /\ SlotsSuffice' /\ WritersKnow' /\ SlotsAreTaken' /\ SlotsAreWritten'
       /\ RecordsTellChains' /\ LinesAreRecords'
  BY <1>1, <1>9, LogStays
<1>11. ~unwound' => Callers(frames'[t]) = Callers(frames[t])
  <2> SUFFICES ASSUME ~unwound' PROVE Callers(frames'[t]) = Callers(frames[t])
    OBVIOUS
  <2>1. \A i \in (depth + 1)..Len(frames[t]) : ~frames[t][i].hooks
    BY <1>2
  <2>2. Callers(SubSeq(frames[t], 1, depth)) = Callers(frames[t])
    BY <1>3, <1>4, <2>1, CallersOfPrefix
  <2> QED
    BY <1>6, <2>2
<1>12. StackIsChain'
  <2> SUFFICES ASSUME ~unwound', NEW u \in Threads
               PROVE  callStack[u] = IF pc[u] \in {"log", "write"} THEN Append(Callers(frames'[u]), Last(frames'[u]).inst)
                                                                   ELSE Callers(frames'[u])
    BY <1>1 DEF StackIsChain, Chain, Site
  <2>1. callStack[u] = IF pc[u] \in {"log", "write"} THEN Append(Callers(frames[u]), Last(frames[u]).inst)
                                                     ELSE Callers(frames[u])
    BY <1>1 DEF IInv, StackIsChain, Chain, Site
  <2>2. CASE u = t
    BY <1>1, <1>11, <2>1, <2>2
  <2>3. CASE u # t
    BY <1>6, <2>1, <2>3
  <2> QED
    BY <2>2, <2>3
<1>13. PopsMatch'
  BY <1>1, <1>2 DEF IInv, PopsMatch
<1> QED
  BY <1>7, <1>8, <1>10, <1>12, <1>13 DEF IInv

LEMMA EnterWrapperInv ==
  ASSUME IInv, NEW t \in Threads, EnterWrapper(t)
  PROVE  IInv'
<1>0. TypeOK /\ InAllocator
  BY DEF IInv
<1>1. PICK on : on = IF flag[Wrapper[Site(t)]] = "unset" THEN LoggingOn ELSE flag[Wrapper[Site(t)]] = "on"
  OBVIOUS
<1>2. /\ pc[t] = "enter" /\ UNCHANGED <<stage, frames, logVars, made, mismatch, unwound>>
      /\ flag' = [flag EXCEPT ![Wrapper[Site(t)]] = IF on THEN "on" ELSE "off"]
      /\ pc' = [pc EXCEPT ![t] = IF on THEN "log" ELSE "idle"]
      /\ on => PushCaller(t, Site(t))
      /\ ~on => UNCHANGED callStack
  BY <1>1 DEF EnterWrapper
<1>3. Site(t) \in Calls
  BY <1>0, <1>2, SiteFacts
<1>4. /\ pc \in [Threads -> PCs] /\ callStack \in [Threads -> Seq(Calls)]
      /\ flag \in [{Wrapper[a] : a \in Allocs} -> {"unset", "on", "off"}]
  BY <1>0 DEF TypeOK
<1>5. /\ pc'[t] = IF on THEN "log" ELSE "idle"
      /\ \A u \in Threads : u # t => pc'[u] = pc[u]
      /\ callStack'[t] = IF on THEN Append(callStack[t], Site(t)) ELSE callStack[t]
      /\ \A u \in Threads : u # t => callStack'[u] = callStack[u]
  BY <1>2, <1>4 DEF PushCaller
<1>6. TypeOK'
  <2>1. callStack' \in [Threads -> Seq(Calls)]
    BY <1>0, <1>2, <1>3, <1>4, PushType
  <2>2. pc' \in [Threads -> PCs]
    BY <1>2, <1>4 DEF PCs
  <2>3. flag' \in [{Wrapper[a] : a \in Allocs} -> {"unset", "on", "off"}]
    BY <1>2, <1>4
  <2> QED
    BY <1>0, <1>2, <2>1, <2>2, <2>3 DEF TypeOK, logVars
<1>7. InAllocator'
  BY <1>0, <1>2, <1>5 DEF InAllocator
<1>8. pos + Cardinality(Coming') <= MaxAllocs
  <2>1. pos \in Nat /\ pos + Cardinality(Coming) <= MaxAllocs /\ MaxAllocs \in Nat
    BY <1>0, ConstantTypes DEF IInv, SlotsSuffice, TypeOK
  <2>2. Coming \in SUBSET Threads /\ Coming' \in SUBSET Coming
    BY <1>2, <1>5 DEF Coming
  <2>3. Cardinality(Coming) \in Nat /\ Cardinality(Coming') \in Nat /\ Cardinality(Coming') <= Cardinality(Coming)
    BY <2>2, ComingLess
  <2> QED
    BY <2>1, <2>3
<1>9. /\ SlotsSuffice' /\ WritersKnow' /\ SlotsAreTaken' /\ SlotsAreWritten'
      /\ RecordsTellChains' /\ LinesAreRecords'
  <2>1. \A u \in Threads : pc'[u] = "write" <=> pc[u] = "write"
    BY <1>2, <1>5
  <2>2. \A u \in Threads : pc[u] = "write" => callStack'[u] = callStack[u]
    BY <1>2, <1>5
  <2> QED
    BY <1>2, <1>8, <2>1, <2>2, LogStays
<1>10. StackIsChain'
  <2> SUFFICES ASSUME ~unwound, NEW u \in Threads
               PROVE  callStack'[u] = IF pc'[u] \in {"log", "write"} THEN Append(Chain(u), Site(u)) ELSE Chain(u)
    BY <1>2 DEF StackIsChain, Chain, Site
  <2>1. callStack[u] = IF pc[u] \in {"log", "write"} THEN Append(Chain(u), Site(u)) ELSE Chain(u)
    BY DEF IInv, StackIsChain
  <2> QED
    BY <1>2, <1>5, <2>1
<1>11. PopsMatch'
  BY <1>2 DEF IInv, PopsMatch
<1> QED
  BY <1>6, <1>7, <1>9, <1>10, <1>11 DEF IInv

LEMMA TakeSlotInv ==
  ASSUME IInv, NEW t \in Threads, TakeSlot(t)
  PROVE  IInv'
<1> DEFINE chain == Append(Chain(t), Site(t))
<1>0. TypeOK /\ InAllocator
  BY DEF IInv
<1>1. /\ pc[t] = "log" /\ stage \in {"init", "run", "flush"}
      /\ UNCHANGED <<stage, frames, callStack, flag, table, file, mismatch, unwound>>
      /\ slot' = [slot EXCEPT ![t] = pos] /\ pos' = pos + 1
      /\ made' = Append(made, chain) /\ pc' = [pc EXCEPT ![t] = "write"]
  BY DEF TakeSlot, Running
<1>2. /\ pc \in [Threads -> PCs] /\ slot \in [Threads -> Nat] /\ pos \in Nat
      /\ made \in Seq(Seq(Calls)) /\ file \in Seq(Seq(Calls)) /\ frames[t] \in Seq(FrameType)
  BY <1>0 DEF TypeOK
<1>3. chain \in Seq(Calls)
  <2>1. Chain(t) \in Seq(Calls)
    BY <1>2, CallersType DEF Chain
  <2>2. Site(t) \in Calls
    BY <1>0, <1>1, SiteFacts
  <2> QED
    BY <2>1, <2>2
<1>4. ~unwound => callStack[t] = chain
  BY <1>1 DEF IInv, StackIsChain
<1> HIDE DEF chain
<1>5. /\ pc'[t] = "write" /\ \A u \in Threads : u # t => pc'[u] = pc[u]
      /\ slot'[t] = pos /\ \A u \in Threads : u # t => slot'[u] = slot[u]
  BY <1>1, <1>2
<1>6. /\ made' \in Seq(Seq(Calls)) /\ Len(made') = Len(made) + 1 /\ made'[Len(made) + 1] = chain
      /\ \A i \in 1..Len(made) : made'[i] = made[i]
  BY <1>1, <1>2, <1>3
<1>7. TypeOK'
  <2>1. pc' \in [Threads -> PCs] /\ slot' \in [Threads -> Nat] /\ pos' \in Nat
    BY <1>1, <1>2 DEF PCs
  <2> QED
    BY <1>0, <1>1, <1>6, <2>1 DEF TypeOK
<1>8. InAllocator'
  <2>1. \A u \in Threads : pc'[u] # "idle" => pc[u] # "idle"
    BY <1>1, <1>5
  <2> QED
    BY <1>0, <1>1, <2>1 DEF InAllocator
<1>9. /\ pos = Len(made) /\ pos + Cardinality(Coming) <= MaxAllocs /\ Len(file) <= pos
      /\ \A u \in Threads : pc[u] = "write" => slot[u] < pos
      /\ MaxAllocs \in Nat
      /\ stage = "flush" => LogMemAlloc
  BY ConstantTypes DEF IInv, SlotsSuffice
<1>10. /\ Cardinality(Coming) \in Nat /\ Cardinality(Coming) >= 1
       /\ Cardinality(Coming') = Cardinality(Coming) - 1
  <2>1. Coming \in SUBSET Threads /\ t \in Coming
    BY <1>1 DEF Coming
  <2>2. Coming' = Coming \ {t}
    BY <1>1, <1>5 DEF Coming
  <2> QED
    BY <2>1, <2>2, ComingLeaves
<1>11. pos < MaxAllocs /\ pos \in Slots
  BY <1>2, <1>9, <1>10 DEF Slots
<1>12. SlotsSuffice'
  <2>1. pos' = Len(made') /\ pos' + Cardinality(Coming') <= MaxAllocs
    BY <1>1, <1>2, <1>6, <1>9, <1>10
  <2>2. \A u \in Threads : pc'[u] = "write" => slot'[u] < pos'
    BY <1>1, <1>2, <1>5, <1>9
  <2>3. Len(file) <= pos'
    BY <1>1, <1>2, <1>9
  <2> QED
    BY <1>1, <1>9, <2>1, <2>2, <2>3 DEF SlotsSuffice
<1>13. StackIsChain'
  <2> SUFFICES ASSUME ~unwound, NEW u \in Threads
               PROVE  callStack[u] = IF pc'[u] \in {"log", "write"} THEN Append(Chain(u), Site(u)) ELSE Chain(u)
    BY <1>1 DEF StackIsChain, Chain, Site
  <2> QED
    BY <1>1, <1>5 DEF IInv, StackIsChain
<1>14. WritersKnow'
  <2> SUFFICES ASSUME ~unwound, NEW u \in Threads, pc'[u] = "write"
               PROVE  callStack[u] = made'[slot'[u] + 1]
    BY <1>1 DEF WritersKnow
  <2>1. CASE u = t
    BY <1>4, <1>5, <1>6, <1>9, <2>1
  <2>2. CASE u # t
    <3>1. pc[u] = "write" /\ slot'[u] = slot[u] /\ slot[u] < pos /\ slot[u] \in Nat
      BY <1>2, <1>5, <1>9, <2>2
    <3>2. slot[u] + 1 \in 1..Len(made)
      BY <1>2, <1>9, <3>1
    <3>3. callStack[u] = made[slot[u] + 1]
      BY <3>1 DEF IInv, WritersKnow
    <3> QED
      BY <1>6, <3>1, <3>2, <3>3
  <2> QED
    BY <2>1, <2>2
<1>15. ~unwound => \A i \in Slots : table[i] # NoRecord => i < pos
  BY DEF IInv, SlotsAreTaken
<1>16. SlotsAreTaken'
  <2>1. \A i \in Slots : i < pos => i < pos + 1
    BY <1>2, <1>9 DEF Slots
  <2> QED
    BY <1>1, <1>15, <2>1 DEF SlotsAreTaken
<1>17. SlotsAreWritten'
  <2> SUFFICES ASSUME ~unwound, NEW i \in Slots, i < pos + 1, table[i] = NoRecord
               PROVE  \E u \in Threads : pc'[u] = "write" /\ slot'[u] = i
    BY <1>1 DEF SlotsAreWritten
  <2>1. i = pos \/ i < pos
    BY <1>2, <1>9 DEF Slots
  <2>2. CASE i = pos
    BY <1>5, <2>2
  <2>3. CASE i < pos
    <3>1. PICK u \in Threads : pc[u] = "write" /\ slot[u] = i
      BY <2>3 DEF IInv, SlotsAreWritten
    <3> QED
      BY <1>1, <1>5, <3>1
  <2> QED
    BY <2>1, <2>2, <2>3
<1>18. RecordsTellChains'
  <2> SUFFICES ASSUME ~unwound, NEW i \in Slots, table[i] # NoRecord
               PROVE  table[i] = made'[i + 1]
    BY <1>1 DEF RecordsTellChains, Slots
  <2>1. i < pos /\ table[i] = made[i + 1]
    BY <1>15 DEF IInv, RecordsTellChains, Slots
  <2>2. i + 1 \in 1..Len(made)
    BY <1>2, <1>9, <2>1 DEF Slots
  <2> QED
    BY <1>6, <2>1, <2>2
<1>19. LinesAreRecords'
  <2>1. \A i \in 1..Len(file) : i \in 1..Len(made)
    BY <1>2, <1>9
  <2> QED
    BY <1>1, <1>6, <2>1 DEF IInv, LinesAreRecords
<1>20. PopsMatch'
  BY <1>1 DEF IInv, PopsMatch
<1> QED
  BY <1>7, <1>8, <1>12, <1>13, <1>14, <1>16, <1>17, <1>18, <1>19, <1>20 DEF IInv

LEMMA WriteRecordInv ==
  ASSUME IInv, NEW t \in Threads, WriteRecord(t)
  PROVE  IInv'
<1>0. TypeOK /\ InAllocator
  BY DEF IInv
<1>1. /\ pc[t] = "write" /\ stage \in {"init", "run", "flush"}
      /\ UNCHANGED <<frames, flag, pos, slot, file, made, unwound>>
      /\ table' = [table EXCEPT ![slot[t]] = callStack[t]]
      /\ PopCaller(t, Site(t)) /\ pc' = [pc EXCEPT ![t] = "idle"]
  BY DEF WriteRecord, Running
<1>2. /\ pc \in [Threads -> PCs] /\ slot \in [Threads -> Nat] /\ pos \in Nat
      /\ made \in Seq(Seq(Calls)) /\ frames[t] \in Seq(FrameType)
      /\ callStack \in [Threads -> Seq(Calls)] /\ callStack[t] \in Seq(Calls)
      /\ table \in [Slots -> Seq(Calls)]
  BY <1>0 DEF TypeOK
<1>3. /\ pos = Len(made) /\ slot[t] < pos /\ slot[t] \in Nat /\ MaxAllocs \in Nat
      /\ pos + Cardinality(Coming) <= MaxAllocs
  BY <1>1, <1>2, ConstantTypes DEF IInv, SlotsSuffice
<1>4. Coming' = Coming /\ Cardinality(Coming) \in Nat
  <2>1. Coming \in SUBSET Threads
    BY DEF Coming
  <2>2. Cardinality(Coming) \in Nat
    BY <2>1, ComingLess
  <2>3. Coming' = Coming
    BY <1>1, <1>2 DEF Coming
  <2> QED
    BY <2>2, <2>3
<1>5. slot[t] \in Slots
  BY <1>2, <1>3, <1>4 DEF Slots
<1>6. /\ pc'[t] = "idle" /\ \A u \in Threads : u # t => pc'[u] = pc[u]
      /\ table'[slot[t]] = callStack[t]
      /\ \A i \in Slots : i # slot[t] => table'[i] = table[i]
  BY <1>1, <1>2, <1>5
<1>7. /\ callStack' \in [Threads -> Seq(Calls)] /\ mismatch' \in BOOLEAN /\ stage' \in {stage, "abort"}
      /\ \A u \in Threads : u # t => callStack'[u] = callStack[u]
  <2>1. Site(t) \in Calls
    BY <1>0, <1>1, SiteFacts
  <2>2. callStack' \in [Threads -> Seq(Calls)] /\ mismatch' \in BOOLEAN /\ stage' \in {stage, "abort"}
    BY <1>0, <1>1, PopType
  <2>3. \A u \in Threads : u # t => callStack'[u] = callStack[u]
    BY <1>1, <1>2 DEF PopCaller
  <2> QED
    BY <2>2, <2>3
<1>8. TypeOK'
  <2>1. pc' \in [Threads -> PCs] /\ table' \in [Slots -> Seq(Calls)]
    BY <1>1, <1>2 DEF PCs
  <2> QED
    BY <1>0, <1>1, <1>7, <2>1 DEF TypeOK
<1>9. InAllocator'
  BY <1>0, <1>1, <1>6 DEF InAllocator
<1>10. SlotsSuffice'
  <2>1. \A u \in Threads : pc'[u] = "write" => pc[u] = "write"
    BY <1>6
  <2> QED
    BY <1>1, <1>4, <1>7, <2>1 DEF IInv, SlotsSuffice
\* What is written is the chain of the allocation, and popCaller takes the
\* allocator's call off again.
<1>11. ~unwound => callStack[t] = Append(Chain(t), Site(t)) /\ callStack[t] = made[slot[t] + 1]
  BY <1>1 DEF IInv, StackIsChain, WritersKnow
<1>12. ~unwound => callStack[t] # NoRecord /\ callStack'[t] = Chain(t) /\ mismatch' = mismatch
  <2> SUFFICES ASSUME ~unwound
               PROVE  callStack[t] # NoRecord /\ callStack'[t] = Chain(t) /\ mismatch' = mismatch
    OBVIOUS
  <2>1. PICK s \in Seq(Calls) : s = Chain(t)
    BY <1>2, CallersType DEF Chain
  <2>2. PICK c \in Calls : c = Site(t)
    BY <1>0, <1>1, SiteFacts
  <2>3. callStack[t] = Append(s, c)
    BY <1>11, <2>1, <2>2
  <2>4. Append(s, c) # <<>> /\ Last(Append(s, c)) = c /\ Front(Append(s, c)) = s
    BY DEF Last, Front
  <2>5. callStack' = [callStack EXCEPT ![t] = Front(@)] /\ mismatch' = mismatch
    BY <1>1, <2>2, <2>3, <2>4 DEF PopCaller
  <2> QED
    BY <1>2, <2>1, <2>3, <2>4, <2>5 DEF NoRecord
<1>13. StackIsChain'
  <2> SUFFICES ASSUME ~unwound, NEW u \in Threads
               PROVE  callStack'[u] = IF pc'[u] \in {"log", "write"} THEN Append(Chain(u), Site(u)) ELSE Chain(u)
    BY <1>1 DEF StackIsChain, Chain, Site
  <2>1. CASE u = t
    BY <1>6, <1>12, <2>1
  <2>2. CASE u # t
    BY <1>6, <1>7, <2>2 DEF IInv, StackIsChain
  <2> QED
    BY <2>1, <2>2
<1>14. WritersKnow'
  <2> SUFFICES ASSUME ~unwound, NEW u \in Threads, pc'[u] = "write"
               PROVE  callStack'[u] = made[slot[u] + 1]
    BY <1>1 DEF WritersKnow
  <2>1. u # t
    BY <1>6
  <2> QED
    BY <1>6, <1>7, <2>1 DEF IInv, WritersKnow
<1>15. SlotsAreTaken'
  <2> SUFFICES ASSUME ~unwound, NEW i \in Slots, table'[i] # NoRecord
               PROVE  i < pos
    BY <1>1 DEF SlotsAreTaken
  <2> QED
    BY <1>3, <1>6 DEF IInv, SlotsAreTaken
<1>16. SlotsAreWritten'
  <2> SUFFICES ASSUME ~unwound, NEW i \in Slots, i < pos, table'[i] = NoRecord
               PROVE  \E u \in Threads : pc'[u] = "write" /\ slot[u] = i
    BY <1>1 DEF SlotsAreWritten
  <2>1. i # slot[t]
    BY <1>6, <1>12
  <2>2. PICK u \in Threads : pc[u] = "write" /\ slot[u] = i
    BY <1>6, <2>1 DEF IInv, SlotsAreWritten
  <2> QED
    BY <1>6, <2>1, <2>2
<1>17. RecordsTellChains'
  <2> SUFFICES ASSUME ~unwound, NEW i \in Slots, table'[i] # NoRecord
               PROVE  table'[i] = made[i + 1]
    BY <1>1 DEF RecordsTellChains, Slots
  <2>1. CASE i = slot[t]
    BY <1>6, <1>11, <2>1
  <2>2. CASE i # slot[t]
    BY <1>6, <2>2 DEF IInv, RecordsTellChains, Slots
  <2> QED
    BY <2>1, <2>2
<1>18. LinesAreRecords'
  BY <1>1 DEF IInv, LinesAreRecords
<1>19. PopsMatch'
  BY <1>1, <1>12 DEF IInv, PopsMatch
<1> QED
  BY <1>8, <1>9, <1>10, <1>13, <1>14, <1>15, <1>16, <1>17, <1>18, <1>19 DEF IInv

\* main begins, or a thread calls exit: only the stage moves.
LEMMA StageInv ==
  ASSUME IInv, Start \/ Exit
  PROVE  IInv'
<1>1. /\ UNCHANGED <<frames, callStack, pc, flag, logVars, made, mismatch, unwound>>
      /\ stage' \in {"run", "flush", "end"}
      /\ stage' = "end" => ~LogMemAlloc
      /\ stage' = "flush" => LogMemAlloc
  BY DEF Start, Exit
<1> USE DEF logVars
<1>2. Coming' = Coming
  BY <1>1 DEF Coming
<1>3. TypeOK'
  BY <1>1 DEF IInv, TypeOK
<1>4. InAllocator' /\ StackIsChain' /\ PopsMatch'
  BY <1>1 DEF IInv, InAllocator, StackIsChain, PopsMatch, Chain, Site
<1>5. SlotsSuffice'
  BY <1>1, <1>2 DEF IInv, SlotsSuffice
<1>6. WritersKnow' /\ SlotsAreTaken' /\ SlotsAreWritten' /\ RecordsTellChains' /\ LinesAreRecords'
  BY <1>1 DEF IInv, WritersKnow, SlotsAreTaken, SlotsAreWritten, RecordsTellChains, LinesAreRecords
<1> QED
  BY <1>3, <1>4, <1>5, <1>6 DEF IInv

LEMMA FlushSlotInv ==
  ASSUME IInv, FlushSlot
  PROVE  IInv'
<1>0. TypeOK
  BY DEF IInv
<1>1. /\ stage = "flush"
      /\ UNCHANGED <<frames, callStack, pc, flag, pos, slot, table, made, mismatch, unwound>>
      /\ \/ Len(file) < pos /\ file' = Append(file, table[Len(file)]) /\ stage' = stage
         \/ ~(Len(file) < pos) /\ stage' = "end" /\ file' = file
  BY DEF FlushSlot
<1>2. file \in Seq(Seq(Calls)) /\ pos \in Nat /\ table \in [Slots -> Seq(Calls)]
  BY <1>0 DEF TypeOK
<1>3. Coming' = Coming
  BY <1>1 DEF Coming
<1>4. /\ pos = Len(made) /\ pos + Cardinality(Coming) <= MaxAllocs /\ Len(file) <= pos
      /\ LogMemAlloc /\ MaxAllocs \in Nat
  BY <1>1, ConstantTypes DEF IInv, SlotsSuffice
<1>5. InAllocator' /\ StackIsChain' /\ PopsMatch'
  BY <1>1 DEF IInv, InAllocator, StackIsChain, PopsMatch, Chain, Site
<1>6. WritersKnow' /\ SlotsAreTaken' /\ SlotsAreWritten' /\ RecordsTellChains'
  BY <1>1 DEF IInv, WritersKnow, SlotsAreTaken, SlotsAreWritten, RecordsTellChains
<1>7. TypeOK' /\ SlotsSuffice' /\ LinesAreRecords'
  <2>1. CASE Len(file) < pos /\ file' = Append(file, table[Len(file)]) /\ stage' = stage
    <3>1. Cardinality(Coming) \in Nat
      <4>1. Coming \in SUBSET Threads
        BY DEF Coming
      <4> QED
        BY <4>1, ComingLess
    <3>2. Len(file) \in Nat /\ Len(file) \in Slots
      BY <1>2, <1>4, <2>1, <3>1 DEF Slots
    <3>3. PICK r \in Seq(Calls) : r = table[Len(file)]
      BY <1>2, <3>2
    <3>4. file' \in Seq(Seq(Calls)) /\ Len(file') = Len(file) + 1 /\ file'[Len(file) + 1] = r
          /\ \A i \in 1..Len(file) : file'[i] = file[i]
      BY <1>2, <2>1, <3>3
    <3>5. TypeOK'
      BY <1>0, <1>1, <2>1, <3>4 DEF TypeOK
    <3>6. Len(file') <= pos
      BY <1>2, <2>1, <3>2, <3>4
    <3>7. SlotsSuffice'
      BY <1>1, <1>3, <1>4, <2>1, <3>6 DEF IInv, SlotsSuffice
    <3>8. LinesAreRecords'
      <4> SUFFICES ASSUME ~unwound, NEW i \in 1..Len(file') PROVE file'[i] \in {NoRecord, made[i]}
        BY <1>1 DEF LinesAreRecords
      <4>1. i = Len(file) + 1 \/ i \in 1..Len(file)
        BY <3>2, <3>4
      <4>2. r # NoRecord => r = made[Len(file) + 1]
        BY <3>2, <3>3 DEF IInv, RecordsTellChains, Slots
      <4> QED
        BY <3>4, <4>1, <4>2 DEF IInv, LinesAreRecords
    <3> QED
      BY <3>5, <3>7, <3>8
  <2>2. CASE ~(Len(file) < pos) /\ stage' = "end" /\ file' = file
    <3>1. Len(file) = pos
      BY <1>2, <1>4, <2>2
    <3>2. TypeOK'
      BY <1>0, <1>1, <2>2 DEF TypeOK
    <3>3. SlotsSuffice'
      BY <1>1, <1>3, <1>4, <2>2, <3>1 DEF IInv, SlotsSuffice
    <3>4. LinesAreRecords'
      BY <1>1, <2>2 DEF IInv, LinesAreRecords
    <3> QED
      BY <3>2, <3>3, <3>4
  <2> QED
    BY <1>1, <2>1, <2>2
<1> QED
  BY <1>5, <1>6, <1>7 DEF IInv

LEMMA StutterInv ==
  ASSUME IInv, UNCHANGED vars
  PROVE  IInv'
<1> USE DEF vars, logVars
<1>1. Coming' = Coming
  BY DEF Coming
<1>2. TypeOK' /\ PopsMatch'
  BY DEF IInv, TypeOK, PopsMatch
<1>3. InAllocator' /\ StackIsChain'
  BY DEF IInv, InAllocator, StackIsChain, Chain, Site
<1>4. SlotsSuffice'
  BY <1>1 DEF IInv, SlotsSuffice
<1>5. WritersKnow' /\ SlotsAreTaken' /\ SlotsAreWritten' /\ RecordsTellChains' /\ LinesAreRecords'
  BY DEF IInv, WritersKnow, SlotsAreTaken, SlotsAreWritten, RecordsTellChains, LinesAreRecords
<1> QED
  BY <1>2, <1>3, <1>4, <1>5 DEF IInv

LEMMA NextInv ==
  ASSUME IInv, [Next]_vars
  PROVE  IInv'
<1>1. ASSUME NEW t \in Threads, Step(t) PROVE IInv'
  <2>1. ASSUME NEW inst \in Calls, NEW hooks \in BOOLEAN, Call(t, inst, hooks) PROVE IInv'
    BY <2>1, CallInv
  <2>2. CASE Return(t)
    BY <2>2, ReturnInv
  <2>3. CASE Unwind(t)
    BY <2>3, UnwindInv
  <2>4. CASE EnterWrapper(t)
    BY <2>4, EnterWrapperInv
  <2>5. CASE TakeSlot(t)
    BY <2>5, TakeSlotInv
  <2>6. CASE WriteRecord(t)
    BY <2>6, WriteRecordInv
  <2> QED
    BY <1>1, <2>1, <2>2, <2>3, <2>4, <2>5, <2>6 DEF Step
<1>2. CASE Start \/ Exit
  BY <1>2, StageInv
<1>3. CASE FlushSlot
  BY <1>3, FlushSlotInv
<1>4. CASE Terminating \/ UNCHANGED vars
  BY <1>4, StutterInv DEF Terminating
<1> QED
  BY <1>1, <1>2, <1>3, <1>4 DEF Next

\* Once the flush is over each line has its record, or a thread that is inside
\* the logger.
LEMMA LinesTell ==
  ASSUME IInv
  PROVE  FlushTellsAll
<1> SUFFICES ASSUME stage = "end", LogMemAlloc, ~unwound
             PROVE  /\ Len(file) = Len(made)
                    /\ \A i \in 1..Len(file) :
                         \/ file[i] = made[i]
                         \/ /\ file[i] = NoRecord
                            /\ \/ table[i - 1] = made[i]
                               \/ \E t \in Threads : pc[t] = "write" /\ slot[t] = i - 1
  BY DEF FlushTellsAll
<1>1. Len(file) = pos /\ pos = Len(made) /\ pos + Cardinality(Coming) <= MaxAllocs /\ MaxAllocs \in Nat
  BY ConstantTypes DEF IInv, SlotsSuffice
<1>2. pos \in Nat /\ Cardinality(Coming) \in Nat
  <2>1. Coming \in SUBSET Threads
    BY DEF Coming
  <2>2. Cardinality(Coming) \in Nat
    BY <2>1, ComingLess
  <2> QED
    BY <2>2 DEF IInv, TypeOK
<1>3. ASSUME NEW i \in 1..Len(file), file[i] # made[i]
      PROVE  /\ file[i] = NoRecord
             /\ \/ table[i - 1] = made[i]
                \/ \E t \in Threads : pc[t] = "write" /\ slot[t] = i - 1
  <2>1. file[i] = NoRecord
    BY <1>3 DEF IInv, LinesAreRecords
  <2>2. i - 1 \in Slots /\ i - 1 < pos /\ (i - 1) + 1 = i
    BY <1>1, <1>2 DEF Slots
  <2>3. CASE table[i - 1] = NoRecord
    <3>1. \E t \in Threads : pc[t] = "write" /\ slot[t] = i - 1
      BY <2>2, <2>3 DEF IInv, SlotsAreWritten
    <3> QED
      BY <2>1, <3>1
  <2>4. CASE table[i - 1] # NoRecord
    <3>1. table[i - 1] = made[i]
      BY <2>2, <2>4 DEF IInv, RecordsTellChains, Slots
    <3> QED
      BY <2>1, <3>1
  <2> QED
    BY <2>3, <2>4
<1> QED
  BY <1>1, <1>3

LEMMA SpecInv == Spec => []IInv
<1>1. Init => IInv
  BY InitInv
<1>2. IInv /\ [Next]_vars => IInv'
  BY NextInv
<1> QED
  BY <1>1, <1>2, PTL DEF Spec

---------------------------------------------------------------------------
(* Theorems.                                                               *)

\* The type invariant: the stacks, the wrappers and the log of allocations of
\* CallCtx.cpp and Logger.cpp, for any threads, calls and bounds.
THEOREM TypeCorrect == Spec => []TypeOK
<1>1. IInv => TypeOK
  BY DEF IInv
<1> QED
  BY <1>1, SpecInv, PTL

\* Until a call is unwound, a record that logMemAllocEvent has written tells
\* the chain of calls that led to its allocation.
THEOREM RecordsTell == Spec => []RecordsTellChains
<1>1. IInv => RecordsTellChains
  BY DEF IInv
<1> QED
  BY <1>1, SpecInv, PTL

\* A flush (flushMemAllocEvents) that came to its end has written a line for
\* every slot that was taken, its allocation's record; or what was there
\* before the record was.
THEOREM FlushTells == Spec => []FlushTellsAll
<1>1. IInv => FlushTellsAll
  BY LinesTell
<1> QED
  BY <1>1, SpecInv, PTL

\* The assertion of popCaller can only fail after a call was unwound.
THEOREM PopsAreMatched == Spec => []PopsMatch
<1>1. IInv => PopsMatch
  BY DEF IInv
<1> QED
  BY <1>1, SpecInv, PTL

============================================================================
