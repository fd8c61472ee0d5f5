---------------------------- MODULE ForkLogProofs ----------------------------
(***************************************************************************)
(* Proofs about ForkLog: whose events a process saves, and that its trace  *)
(* is kept, for any number of processes, threads and seconds.              *)
(***************************************************************************)
EXTENDS ForkLog, SequenceTheorems, TLAPS

\* What a process saves: its slots, as flush reads them.
Held(p) == [i \in 1..size[p] |-> mem[p][i - 1]]

\* A process that was forked has one thread until its hook after fork is over,
\* and a thread that is inside the logger exists.
ForkInv ==
  \A p \in Procs, t \in Threads :
    /\ pc[p][t] = "forked" => stage[p] = "run" /\ alive[p] = {t}
    /\ pc[p][t] = "write" => t \in alive[p]

\* Every slot in use has an event of p, or a thread of p about to write it.
OwnSlots(p) ==
  \A i \in Slots : i < size[p] =>
    \/ mem[p][i] = p
    \/ \E t \in alive[p] : pc[p][t] = "write" /\ slot[p][t] = i

JustForked(p) == \E t \in Threads : pc[p][t] = "forked"

\* The slots are a process's own once it is through the hook after fork, unless
\* its parent had exited: then it saves nothing.
SlotsOf(p) ==
  /\ stage[p] # "done" => saved[p] = <<>>
  /\ stage[p] = "run" /\ ~finished[p] /\ ~JustForked(p) => OwnSlots(p)
  /\ stage[p] \in {"exit", "chosen", "open"} => OwnSlots(p)
  /\ stage[p] = "done" => saved[p] = <<>> \/ (OwnSlots(p) /\ Len(saved[p]) = size[p])

SlotsInv == \A p \in Procs : SlotsOf(p)

\* p has a name, q has one and is about to write a file.
Saved(p) == stage[p] = "done" /\ saved[p] # <<>>
Named(p) == stage[p] \in {"chosen", "open"} \/ Saved(p)
Saving(q) == stage[q] \in {"chosen", "open"}

\* A file that was opened is there, and belongs to whoever has its name; only
\* those that chose it together share it.
FilesInv ==
  /\ \A p \in Procs : stage[p] = "open" \/ Saved(p) => disk[path[p]] \in Events
  /\ \A p, q \in Procs :
       p # q /\ Named(p) /\ Saving(q) /\ path[p] = path[q] => raced[p]
  /\ \A p \in Procs : stage[p] = "open" /\ ~raced[p] => disk[path[p]] = <<>>
  /\ TracesAreKept

---------------------------------------------------------------------------
\* What a process finds in its slots is a trace if no slot is empty.
LEMMA HeldIsATrace ==
  ASSUME TypeOK, NEW p \in Procs, ~\E i \in DOMAIN Held(p) : Held(p)[i] = NoOne
  PROVE  Held(p) \in Events /\ Len(Held(p)) = size[p]
<1>1. \A i \in 1..size[p] : Held(p)[i] \in Procs
  BY ForkAssumption DEF TypeOK, Held, Slots, ForkAssumption
<1>2. size[p] \in Nat /\ Held(p) \in [1..size[p] -> Procs]
  BY <1>1, ForkAssumption DEF TypeOK, Held, ForkAssumption
<1> QED
  BY <1>2, IsASeq DEF Events

\* Written over a file, a trace is a trace; over an empty one, it is itself.
LEMMA OverwriteIsATrace ==
  ASSUME NEW s \in Events, NEW old \in Events
  PROVE  /\ s \o SubSeq(old, Len(s) + 1, Len(old)) \in Events
         /\ old = <<>> => s \o SubSeq(old, Len(s) + 1, Len(old)) = s
<1> DEFINE rest == SubSeq(old, Len(s) + 1, Len(old))
<1>1. Len(s) \in Nat /\ Len(old) \in Nat
  BY LenProperties DEF Events
<1>2. \A i \in (Len(s) + 1)..Len(old) : old[i] \in Procs
  BY <1>1, ElementOfSeq DEF Events
<1>3. rest \in Events
  BY <1>1, <1>2, SubSeqProperties DEF Events
<1>4. s \o rest \in Events
  BY <1>3, ConcatProperties DEF Events
<1>5. ASSUME old = <<>> PROVE s \o rest = s
  <2>1. rest = <<>>
    BY <1>1, <1>5, SubSeqEmpty, EmptySeq
  <2> QED
    BY <2>1, ConcatEmptySeq DEF Events
<1> QED
  BY <1>4, <1>5

LEMMA NoFileIsNoTrace == NoFile \notin Events
<1> SUFFICES ASSUME NoFile \in Events PROVE FALSE
  OBVIOUS
<1>1. NoFile[1] = NoOne /\ Len(NoFile) = 1
  BY DEF NoFile
<1>2. NoFile[1] \in Procs
  BY <1>1, ElementOfSeq DEF Events
<1> QED
  BY <1>1, <1>2, ForkAssumption DEF ForkAssumption

---------------------------------------------------------------------------
\* Nobody goes on writing a file that is not there.
TypeInv == TypeOK /\ \A p \in Procs : stage[p] = "open" => disk[path[p]] \in Events

\* The type invariant of the processes' memories and of the directory: what
\* flush writes, also over what another process has written, is a trace.
THEOREM TypeCorrect == Spec => []TypeInv
<1> USE ForkAssumption DEF ForkAssumption
<1>1. Init => TypeInv
  <2>1. <<>> \in Events
    BY EmptySeq DEF Events
  <2> QED
    BY <2>1 DEF Init, TypeInv, TypeOK, Slots
<1>2. TypeInv /\ [Next]_vars => TypeInv'
  <2> SUFFICES ASSUME TypeInv, [Next]_vars PROVE TypeInv'
    OBVIOUS
  <2> USE DEF TypeInv, TypeOK
  <2>1. ASSUME NEW p \in Procs, NEW t \in Threads, TakeSlot(p, t) PROVE TypeInv'
    BY <2>1 DEF TakeSlot, diskVars, Slots
  <2>2. ASSUME NEW p \in Procs, NEW t \in Threads, WriteEvent(p, t) PROVE TypeInv'
    BY <2>2 DEF WriteEvent, diskVars, Slots
  <2>3. ASSUME NEW p \in Procs, NEW t \in Threads, Spawn(p, t) PROVE TypeInv'
    BY <2>3 DEF Spawn, diskVars
  <2>4. ASSUME NEW p \in Procs, NEW t \in Threads, NEW c \in Procs, Fork(p, t, c)
        PROVE  TypeInv'
    BY <2>4 DEF Fork, diskVars
  <2>5. ASSUME NEW p \in Procs, NEW t \in Threads, AfterFork(p, t) PROVE TypeInv'
    BY <2>5 DEF AfterFork, diskVars
  <2>6. ASSUME NEW p \in Procs, NEW t \in Threads, Exit(p, t) PROVE TypeInv'
    BY <2>6 DEF Exit, diskVars
  <2>7. ASSUME NEW p \in Procs, ChoosePath(p) PROVE TypeInv'
    BY <2>7 DEF ChoosePath
  <2>8. ASSUME NEW p \in Procs, Open(p) PROVE TypeInv'
    <3>1. <<>> \in Events
      BY EmptySeq DEF Events
    <3> QED
      BY <2>8, <3>1 DEF Open
  <2>9. ASSUME NEW p \in Procs, Flush(p) PROVE TypeInv'
    <3>1. CASE \E i \in DOMAIN Held(p) : Held(p)[i] = NoOne
      BY <2>9, <3>1 DEF Flush, Held
    <3>2. CASE ~\E i \in DOMAIN Held(p) : Held(p)[i] = NoOne
      <4> DEFINE over == Held(p) \o SubSeq(disk[path[p]], Len(Held(p)) + 1, Len(disk[path[p]]))
      <4>1. Held(p) \in Events /\ disk[path[p]] \in Events
        BY <2>9, <3>2, HeldIsATrace DEF Flush
      <4>2. over \in Events
        BY <4>1, OverwriteIsATrace
      <4>3. /\ stage' = [stage EXCEPT ![p] = "done"]
            /\ saved' = [saved EXCEPT ![p] = Held(p)]
            /\ disk' = [disk EXCEPT ![path[p]] = over]
            /\ UNCHANGED <<alive, pc, slot, size, mem, finished, path, clock, raced>>
        BY <2>9, <3>2 DEF Flush, Held
      <4> HIDE DEF over
      <4>4. disk' \in [0..MaxTime -> Events \union {NoFile}]
        BY <4>2, <4>3
      <4>5. \A q \in Procs : disk[path[q]] \in Events => disk'[path'[q]] \in Events
        BY <4>2, <4>3
      <4>6. saved' \in [Procs -> Events]
        BY <4>1, <4>3
      <4> QED
        BY <4>3, <4>4, <4>5, <4>6
    <3> QED
      BY <3>1, <3>2
  <2>10. CASE Second
    BY <2>10 DEF Second, procVars
  <2>11. CASE Terminating \/ UNCHANGED vars
    BY <2>11 DEF Terminating, vars, procVars, diskVars
  <2> QED
    BY <2>1, <2>2, <2>3, <2>4, <2>5, <2>6, <2>7, <2>8, <2>9, <2>10, <2>11
    DEF Next, Step
<1> QED
  BY <1>1, <1>2, PTL DEF Spec

---------------------------------------------------------------------------
\* A forked process is alone with its thread until the hook after fork is over,
\* and only threads of a process are inside its logger.
THEOREM ForksAreAlone == Spec => []ForkInv
<1> USE ForkAssumption DEF ForkAssumption
<1>1. Init => ForkInv
  BY DEF Init, ForkInv
<1>2. TypeInv /\ ForkInv /\ [Next]_vars => ForkInv'
  <2> SUFFICES ASSUME TypeInv, ForkInv, [Next]_vars PROVE ForkInv'
    OBVIOUS
  <2> USE DEF TypeInv, TypeOK, ForkInv
  <2>1. ASSUME NEW p \in Procs, NEW t \in Threads, TakeSlot(p, t) PROVE ForkInv'
    BY <2>1 DEF TakeSlot
  <2>2. ASSUME NEW p \in Procs, NEW t \in Threads, WriteEvent(p, t) PROVE ForkInv'
    BY <2>2 DEF WriteEvent
  <2>3. ASSUME NEW p \in Procs, NEW t \in Threads, Spawn(p, t) PROVE ForkInv'
    BY <2>3 DEF Spawn
  <2>4. ASSUME NEW p \in Procs, NEW t \in Threads, NEW c \in Procs, Fork(p, t, c)
        PROVE  ForkInv'
    BY <2>4 DEF Fork
  <2>5. ASSUME NEW p \in Procs, NEW t \in Threads, AfterFork(p, t) PROVE ForkInv'
    BY <2>5 DEF AfterFork
  <2>6. ASSUME NEW p \in Procs, NEW t \in Threads, Exit(p, t) PROVE ForkInv'
    BY <2>6 DEF Exit
  <2>7. ASSUME NEW p \in Procs, ChoosePath(p) \/ Open(p) PROVE ForkInv'
    BY <2>7 DEF ChoosePath, Open
  <2>8. ASSUME NEW p \in Procs, Flush(p) PROVE ForkInv'
    BY <2>8 DEF Flush
  <2>9. CASE Second \/ Terminating \/ UNCHANGED vars
    BY <2>9 DEF Second, Terminating, vars, procVars
  <2> QED
    BY <2>1, <2>2, <2>3, <2>4, <2>5, <2>6, <2>7, <2>8, <2>9 DEF Next, Step
<1> QED
  BY <1>1, <1>2, TypeCorrect, PTL DEF Spec

\* What another process does leaves the slots of q alone.
LEMMA OthersSlots ==
  ASSUME NEW q \in Procs, SlotsOf(q),
         stage'[q] = stage[q], finished'[q] = finished[q], pc'[q] = pc[q],
         alive'[q] = alive[q], slot'[q] = slot[q], size'[q] = size[q],
         mem'[q] = mem[q], saved'[q] = saved[q]
  PROVE  SlotsOf(q)'
BY DEF SlotsOf, OwnSlots, JustForked

\* reinit after a fork, and the gate in front of it: the slots that a process
\* will save are its own.
THEOREM SlotsAreOwn == Spec => []SlotsInv
<1> USE ForkAssumption DEF ForkAssumption
<1>1. Init => SlotsInv
  BY DEF Init, SlotsInv, SlotsOf, OwnSlots, Slots
<1>2. TypeInv /\ ForkInv /\ SlotsInv /\ [Next]_vars => SlotsInv'
  <2> SUFFICES ASSUME TypeInv, ForkInv, SlotsInv, [Next]_vars, NEW q \in Procs
               PROVE  SlotsOf(q)'
    BY DEF SlotsInv
  <2>0. SlotsOf(q)
    BY DEF SlotsInv
  <2> USE DEF TypeInv, TypeOK
  <2>1. ASSUME NEW p \in Procs, NEW t \in Threads, TakeSlot(p, t) PROVE SlotsOf(q)'
    <3>1. CASE q # p
      BY <2>0, <2>1, <3>1, OthersSlots DEF TakeSlot, diskVars
    <3>2. CASE q = p
      <4>1. stage[p] = "run" /\ stage' = stage /\ ~finished[p] /\ ~JustForked(p)
        BY <2>1 DEF TakeSlot, ForkInv, JustForked
      <4>2. OwnSlots(p)
        BY <2>0, <3>2, <4>1 DEF SlotsOf
      <4>3. OwnSlots(p)'
        <5> SUFFICES ASSUME NEW i \in Slots, i < size'[p]
                     PROVE  \/ mem[p][i] = p
                            \/ \E u \in alive[p] : pc'[p][u] = "write" /\ slot'[p][u] = i
          BY <2>1 DEF TakeSlot, OwnSlots
        <5>1. CASE i = size[p]
          BY <2>1, <5>1 DEF TakeSlot
        <5>2. CASE i < size[p]
          <6>1. CASE mem[p][i] = p
            BY <6>1
          <6>2. CASE mem[p][i] # p
            <7>1. PICK u \in alive[p] : pc[p][u] = "write" /\ slot[p][u] = i
              BY <4>2, <5>2, <6>2 DEF OwnSlots
            <7>2. u \in Threads /\ u # t
              BY <2>1, <7>1 DEF TakeSlot
            <7> QED
              BY <2>1, <7>1, <7>2 DEF TakeSlot
          <6> QED
            BY <6>1, <6>2
        <5>3. i = size[p] \/ i < size[p]
          BY <2>1 DEF TakeSlot, Slots
        <5> QED
          BY <5>1, <5>2, <5>3
      <4> QED
        BY <2>0, <2>1, <3>2, <4>1, <4>3 DEF SlotsOf, TakeSlot, diskVars
    <3> QED
      BY <3>1, <3>2
  <2>2. ASSUME NEW p \in Procs, NEW t \in Threads, WriteEvent(p, t) PROVE SlotsOf(q)'
    <3>1. CASE q # p
      BY <2>0, <2>2, <3>1, OthersSlots DEF WriteEvent, diskVars
    <3>2. CASE q = p
      <4>1. ASSUME OwnSlots(p) PROVE OwnSlots(p)'
        <5> SUFFICES ASSUME NEW i \in Slots, i < size[p]
                     PROVE  \/ mem'[p][i] = p
                            \/ \E u \in alive[p] : pc'[p][u] = "write" /\ slot[p][u] = i
          BY <2>2 DEF WriteEvent, OwnSlots
        <5>1. CASE mem[p][i] = p
          BY <2>2, <5>1 DEF WriteEvent
        <5>2. CASE slot[p][t] = i
          BY <2>2, <5>2 DEF WriteEvent
        <5>3. CASE mem[p][i] # p /\ slot[p][t] # i
          <6>1. PICK u \in alive[p] : pc[p][u] = "write" /\ slot[p][u] = i
            BY <4>1, <5>3 DEF OwnSlots
          <6>2. u \in Threads /\ u # t
            BY <5>3, <6>1
          <6> QED
            BY <2>2, <6>1, <6>2 DEF WriteEvent
        <5> QED
          BY <5>1, <5>2, <5>3
      <4>2. JustForked(p) => JustForked(p)'
        BY <2>2 DEF WriteEvent, JustForked
      <4> QED
        BY <2>0, <2>2, <3>2, <4>1, <4>2 DEF SlotsOf, WriteEvent, diskVars
    <3> QED
      BY <3>1, <3>2
  <2>3. ASSUME NEW p \in Procs, NEW t \in Threads, Spawn(p, t) PROVE SlotsOf(q)'
    <3>1. CASE q # p
      BY <2>0, <2>3, <3>1, OthersSlots DEF Spawn, diskVars
    <3>2. CASE q = p
      <4>1. OwnSlots(p) => OwnSlots(p)'
        BY <2>3 DEF Spawn, OwnSlots
      <4> QED
        BY <2>0, <2>3, <3>2, <4>1 DEF SlotsOf, Spawn, JustForked, diskVars
    <3> QED
      BY <3>1, <3>2
  <2>4. ASSUME NEW p \in Procs, NEW t \in Threads, NEW c \in Procs, Fork(p, t, c)
        PROVE  SlotsOf(q)'
    <3>1. CASE q # c
      BY <2>0, <2>4, <3>1, OthersSlots DEF Fork, diskVars
    <3>2. CASE q = c
      BY <2>0, <2>4, <3>2 DEF Fork, SlotsOf, JustForked, diskVars
    <3> QED
      BY <3>1, <3>2
  <2>5. ASSUME NEW p \in Procs, NEW t \in Threads, AfterFork(p, t) PROVE SlotsOf(q)'
    <3>1. CASE q # p
      BY <2>0, <2>5, <3>1, OthersSlots DEF AfterFork, diskVars
    <3>2. CASE q = p
      <4>1. stage[p] = "run" /\ stage' = stage /\ finished' = finished /\ saved' = saved
        BY <2>5 DEF AfterFork, diskVars
      <4>2. ~finished[p] => size'[p] = 0
        BY <2>5 DEF AfterFork
      <4>3. ~finished[p] => OwnSlots(p)'
        BY <4>2 DEF OwnSlots, Slots
      <4> QED
        BY <2>0, <3>2, <4>1, <4>3 DEF SlotsOf
    <3> QED
      BY <3>1, <3>2
  <2>6. ASSUME NEW p \in Procs, NEW t \in Threads, Exit(p, t) PROVE SlotsOf(q)'
    <3>1. CASE q # p
      BY <2>0, <2>6, <3>1, OthersSlots DEF Exit, diskVars
    <3>2. CASE q = p /\ ~finished[p]
      <4>1. ~JustForked(p) /\ stage[p] = "run" /\ stage'[p] = "exit" /\ saved' = saved
        BY <2>6, <3>2 DEF Exit, ForkInv, JustForked, diskVars
      <4>2. OwnSlots(p) /\ OwnSlots(p)'
        BY <2>0, <2>6, <3>2, <4>1 DEF SlotsOf, OwnSlots, Exit
      <4> QED
        BY <2>0, <3>2, <4>1, <4>2 DEF SlotsOf
    <3>3. CASE q = p /\ finished[p]
      <4>1. stage[p] = "run" /\ stage'[p] = "done" /\ saved' = saved
        BY <2>6, <3>3 DEF Exit, diskVars
      <4> QED
        BY <2>0, <3>3, <4>1 DEF SlotsOf
    <3> QED
      BY <3>1, <3>2, <3>3
  <2>7. ASSUME NEW p \in Procs, ChoosePath(p) \/ Open(p) PROVE SlotsOf(q)'
    <3>1. OwnSlots(q) => OwnSlots(q)'
      BY <2>7 DEF ChoosePath, Open, OwnSlots
    <3> QED
      BY <2>0, <2>7, <3>1 DEF ChoosePath, Open, SlotsOf, JustForked
  <2>8. ASSUME NEW p \in Procs, Flush(p) PROVE SlotsOf(q)'
    <3>1. OwnSlots(q) => OwnSlots(q)'
      BY <2>8 DEF Flush, OwnSlots
    <3>2. stage'[p] = "done" => saved'[p] = Held(p) /\ Len(Held(p)) = size[p]
      BY <2>8, HeldIsATrace DEF Flush, Held
    <3>3. CASE q # p
      BY <2>0, <2>8, <3>3, OthersSlots DEF Flush
    <3>4. CASE q = p
      <4>1. /\ stage[p] = "open" /\ stage'[p] \in {"done", "abort"} /\ size' = size
            /\ stage'[p] = "abort" => saved' = saved
        BY <2>8 DEF Flush
      <4> QED
        BY <2>0, <3>1, <3>2, <3>4, <4>1 DEF SlotsOf
    <3> QED
      BY <3>3, <3>4
  <2>9. CASE Second \/ Terminating \/ UNCHANGED vars
    BY <2>0, <2>9, OthersSlots DEF Second, Terminating, vars, procVars, diskVars
  <2> QED
    BY <2>1, <2>2, <2>3, <2>4, <2>5, <2>6, <2>7, <2>8, <2>9 DEF Next, Step
<1> QED
  BY <1>1, <1>2, TypeCorrect, ForksAreAlone, PTL DEF Spec

\* A process saves its own events and no other's, whatever it was forked from
\* and in whatever state.
THEOREM SavesItsOwn == Spec => []SavedEventsAreOwn
<1>1. TypeInv /\ SlotsInv => SavedEventsAreOwn
  <2> SUFFICES ASSUME TypeInv, SlotsInv, NEW p \in Procs, stage[p] = "done",
                      NEW i \in 1..Len(saved[p])
               PROVE  \/ mem[p][i - 1] = p
                      \/ \E t \in alive[p] : pc[p][t] = "write" /\ slot[p][t] = i - 1
    BY DEF SavedEventsAreOwn
  <2>1. Len(saved[p]) \in Nat
    BY LenProperties DEF TypeInv, TypeOK, Events
  <2>2. saved[p] # <<>>
    BY EmptySeq, <2>1
  <2>3. OwnSlots(p) /\ Len(saved[p]) = size[p]
    BY <2>2 DEF SlotsInv, SlotsOf
  <2>4. i - 1 \in Slots /\ i - 1 < size[p]
    BY <2>1, <2>3, ForkAssumption DEF TypeInv, TypeOK, Slots, ForkAssumption
  <2> QED
    BY <2>3, <2>4 DEF OwnSlots
<1> QED
  BY <1>1, TypeCorrect, SlotsAreOwn, PTL DEF Spec

---------------------------------------------------------------------------
\* tracePath, and the files that are opened and written some time after it: a
\* trace stays as its process saved it, unless that process and another chose
\* their name before either had opened its file.
THEOREM TracesStay == Spec => []TracesAreKept
<1> USE ForkAssumption DEF ForkAssumption
<1>1. Init => FilesInv
  BY DEF Init, FilesInv, Saved, Named, Saving, TracesAreKept
<1>2. TypeInv /\ SlotsInv /\ FilesInv /\ [Next]_vars => FilesInv'
  <2> SUFFICES ASSUME TypeInv, SlotsInv, FilesInv, [Next]_vars PROVE FilesInv'
    OBVIOUS
  <2> USE DEF TypeInv, TypeOK
  <2>1. ASSUME NEW p \in Procs, NEW t \in Threads,
               \/ TakeSlot(p, t) \/ WriteEvent(p, t) \/ Spawn(p, t) \/ AfterFork(p, t)
        PROVE  FilesInv'
    BY <2>1 DEF TakeSlot, WriteEvent, Spawn, AfterFork, diskVars,
                FilesInv, Saved, Named, Saving, TracesAreKept
  <2>2. ASSUME NEW p \in Procs, NEW t \in Threads, NEW c \in Procs, Fork(p, t, c)
        PROVE  FilesInv'
    BY <2>2 DEF Fork, diskVars, FilesInv, Saved, Named, Saving, TracesAreKept
  <2>3. ASSUME NEW p \in Procs, NEW t \in Threads, Exit(p, t) PROVE FilesInv'
    <3>1. saved[p] = <<>>
      BY <2>3 DEF Exit, SlotsInv, SlotsOf
    <3> QED
      BY <2>3, <3>1 DEF Exit, diskVars, FilesInv, Saved, Named, Saving, TracesAreKept
  <2>4. ASSUME NEW p \in Procs, ChoosePath(p) PROVE FilesInv'
    BY <2>4, NoFileIsNoTrace
    DEF ChoosePath, FilesInv, Saved, Named, Saving, TracesAreKept
  <2>5. ASSUME NEW p \in Procs, Open(p) PROVE FilesInv'
    <3>1. <<>> \in Events
      BY EmptySeq DEF Events
    <3> QED
      BY <2>5, <3>1 DEF Open, FilesInv, Saved, Named, Saving, TracesAreKept
  <2>6. ASSUME NEW p \in Procs, Flush(p) PROVE FilesInv'
    <3>1. CASE \E i \in DOMAIN Held(p) : Held(p)[i] = NoOne
      <4>1. /\ stage' = [stage EXCEPT ![p] = "abort"]
            /\ UNCHANGED <<disk, saved, path, raced>>
        BY <2>6, <3>1 DEF Flush, Held
      <4> QED
        BY <4>1 DEF FilesInv, Saved, Named, Saving, TracesAreKept
    <3>2. CASE ~\E i \in DOMAIN Held(p) : Held(p)[i] = NoOne
      <4> DEFINE over == Held(p) \o SubSeq(disk[path[p]], Len(Held(p)) + 1, Len(disk[path[p]]))
      <4>1. Held(p) \in Events /\ disk[path[p]] \in Events
        BY <2>6, <3>2, HeldIsATrace DEF Flush
      <4>2. over \in Events /\ (disk[path[p]] = <<>> => over = Held(p))
        BY <4>1, OverwriteIsATrace
      <4>3. /\ stage[p] = "open"
            /\ stage' = [stage EXCEPT ![p] = "done"]
            /\ saved' = [saved EXCEPT ![p] = Held(p)]
            /\ disk' = [disk EXCEPT ![path[p]] = over]
            /\ UNCHANGED <<path, raced>>
        BY <2>6, <3>2 DEF Flush, Held
      <4> HIDE DEF over
      <4>4. \A q \in Procs : stage'[q] = "open" \/ Saved(q)' => disk'[path'[q]] \in Events
        BY <4>2, <4>3 DEF FilesInv, Saved
      <4>5. \A q, r \in Procs : q # r /\ Named(q)' /\ Saving(r)' /\ path'[q] = path'[r]
              => raced'[q]
        BY <4>3 DEF FilesInv, Saved, Named, Saving
      <4>6. \A q \in Procs : stage'[q] = "open" /\ ~raced'[q] => disk'[path'[q]] = <<>>
        BY <4>3 DEF FilesInv, Named, Saving
      <4>7. TracesAreKept'
        BY <4>2, <4>3 DEF FilesInv, Saved, Named, Saving, TracesAreKept
      <4> QED
        BY <4>4, <4>5, <4>6, <4>7 DEF FilesInv
    <3> QED
      BY <3>1, <3>2
  <2>7. CASE Second \/ Terminating \/ UNCHANGED vars
    BY <2>7 DEF Second, Terminating, vars, procVars, diskVars,
                FilesInv, Saved, Named, Saving, TracesAreKept
  <2> QED
    BY <2>1, <2>2, <2>3, <2>4, <2>5, <2>6, <2>7 DEF Next, Step
<1>3. FilesInv => TracesAreKept
  BY DEF FilesInv
<1> QED
  BY <1>1, <1>2, <1>3, TypeCorrect, SlotsAreOwn, PTL DEF Spec

============================================================================
