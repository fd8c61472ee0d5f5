------------------------------ MODULE ForkLog ------------------------------
(***************************************************************************)
(* Processes that fork while they log: the hook after fork (ScScheduler,   *)
(* Logger::reinit), the log of each process in its own copy of the memory, *)
(* and the trace files they save into one directory (Config::tracePath,    *)
(* Logger::save, flush).                                                   *)
(*                                                                         *)
(* A fork copies the memory and the one thread that called it.  An event   *)
(* is told apart by the process that logged it; its timestamp is the index *)
(* of its slot.  The scheduler only delays the hooks.  The child has no    *)
(* supervisor; its join at the end returns, since glibc forgets the other  *)
(* threads of the parent.  Traces are saved to the directory itself: with  *)
(* TMPFS, off in LN.yaml, they go to /dev/shm, where tracePath never looks.*)
(***************************************************************************)
EXTENDS Naturals, Sequences, FiniteSets

CONSTANTS
  Threads, Main,
  Procs, First,     \* the processes; the one that is started by the user
  MaxSlots,         \* bound: events in one memory
  MaxTime,          \* bound: seconds
  NoOne

ASSUME ForkAssumption ==
  /\ Main \in Threads /\ First \in Procs /\ NoOne \notin Procs
  /\ MaxSlots \in Nat \ {0} /\ MaxTime \in Nat

VARIABLES
  stage,     \* each process: "none", "run", "exit", "chosen", "open", "done", "abort"
  alive,     \* its threads
  pc, slot,  \* where each thread is: "idle", "forked", "write" (into slot)
  size,      \* __log_sz
  mem,       \* __events: who logged the event in each slot
  finished,  \* Control::isFinished
  path,      \* the second its trace is named after
  clock,
  disk,      \* the traces: for each second who logged the events, or no file
  saved,     \* history: what each process wrote
  raced      \* history: it chose its name while another was about to open one

procVars == <<stage, alive, pc, slot, size, mem, finished>>
diskVars == <<path, clock, disk, saved, raced>>
vars == <<procVars, diskVars>>

NoFile == <<NoOne>>
Slots == 0..(MaxSlots - 1)

---------------------------------------------------------------------------
\* A hook logs an event: the gate, the slot, and later the event.
TakeSlot(p, t) ==
  /\ stage[p] = "run" /\ ~finished[p] /\ t \in alive[p] /\ pc[p][t] = "idle"
  /\ size[p] < MaxSlots
  /\ slot' = [slot EXCEPT ![p][t] = size[p]]
  /\ size' = [size EXCEPT ![p] = @ + 1]
  /\ pc' = [pc EXCEPT ![p][t] = "write"]
  /\ UNCHANGED <<stage, alive, mem, finished, diskVars>>

\* The other threads go on after an exit, as far as the process lasts.
WriteEvent(p, t) ==
  /\ stage[p] \notin {"none", "done", "abort"} /\ t \in alive[p] /\ pc[p][t] = "write"
  /\ mem' = [mem EXCEPT ![p][slot[p][t]] = p]
  /\ pc' = [pc EXCEPT ![p][t] = "idle"]
  /\ UNCHANGED <<stage, alive, slot, size, finished, diskVars>>

\* pthread_create.
Spawn(p, t) ==
  /\ stage[p] = "run" /\ t \in alive[p] /\ pc[p][t] = "idle"
  /\ \E u \in Threads \ alive[p] : alive' = [alive EXCEPT ![p] = @ \union {u}]
  /\ UNCHANGED <<stage, pc, slot, size, mem, finished, diskVars>>

\* fork: the child has the memory of its parent, also when another thread of
\* it has called exit or is inside the logger.
Fork(p, t, c) ==
  /\ stage[p] \in {"run", "exit", "chosen", "open"}
  /\ t \in alive[p] /\ pc[p][t] = "idle"
  /\ stage[c] = "none"
  /\ stage' = [stage EXCEPT ![c] = "run"]
  /\ alive' = [alive EXCEPT ![c] = {t}]
  /\ pc' = [pc EXCEPT ![c] = [u \in Threads |-> IF u = t THEN "forked" ELSE "idle"]]
  /\ slot' = [slot EXCEPT ![c] = slot[p]]
  /\ size' = [size EXCEPT ![c] = size[p]]
  /\ mem' = [mem EXCEPT ![c] = mem[p]]
  /\ finished' = [finished EXCEPT ![c] = finished[p]]
  /\ UNCHANGED diskVars

\* Mutant: the child's log is not reset.
AfterFork_NoReset(p, t) ==
  /\ stage[p] = "run" /\ pc[p][t] = "forked"
  /\ pc' = [pc EXCEPT ![p][t] = "idle"]
  /\ UNCHANGED <<stage, alive, slot, size, mem, finished, diskVars>>

\* _after_fork in the child: the gate, then reinit.  The slots stay as they are.
AfterFork(p, t) ==
  /\ stage[p] = "run" /\ pc[p][t] = "forked"
  /\ pc' = [pc EXCEPT ![p][t] = "idle"]
  /\ size' = [size EXCEPT ![p] = IF finished[p] THEN @ ELSE 0]
  /\ UNCHANGED <<stage, alive, slot, mem, finished, diskVars>>

---------------------------------------------------------------------------
\* exit: _before_exit does its work once in the life of a memory, so that a
\* child forked from a process that was exiting saves nothing.
Exit(p, t) ==
  /\ stage[p] = "run" /\ t \in alive[p] /\ pc[p][t] = "idle"
  /\ finished' = [finished EXCEPT ![p] = TRUE]
  /\ stage' = [stage EXCEPT ![p] = IF finished[p] THEN "done" ELSE "exit"]
  /\ UNCHANGED <<alive, pc, slot, size, mem, diskVars>>

\* Mutant: a name is taken without a look at the directory.
ChoosePath_NoTest(p) ==
  /\ stage[p] = "exit"
  /\ path' = [path EXCEPT ![p] = clock]
  /\ raced' = [q \in Procs |->
       raced[q] \/ /\ \E r \in Procs \ {p} : stage[r] = "chosen" /\ path[r] = clock
                   /\ q = p \/ (stage[q] = "chosen" /\ path[q] = clock)]
  /\ stage' = [stage EXCEPT ![p] = "chosen"]
  /\ UNCHANGED <<alive, pc, slot, size, mem, finished, clock, disk, saved>>

\* tracePath goes round until no file has the name of the current second.
ChoosePath(p) ==
  /\ stage[p] = "exit"
  /\ disk[clock] = NoFile
  /\ path' = [path EXCEPT ![p] = clock]
  /\ raced' = [q \in Procs |->
       raced[q] \/ /\ \E r \in Procs \ {p} : stage[r] = "chosen" /\ path[r] = clock
                   /\ q = p \/ (stage[q] = "chosen" /\ path[q] = clock)]
  /\ stage' = [stage EXCEPT ![p] = "chosen"]
  /\ UNCHANGED <<alive, pc, slot, size, mem, finished, clock, disk, saved>>

\* Opening for writing cuts a file that is there.
Open(p) ==
  /\ stage[p] = "chosen"
  /\ disk' = [disk EXCEPT ![path[p]] = <<>>]
  /\ stage' = [stage EXCEPT ![p] = "open"]
  /\ UNCHANGED <<alive, pc, slot, size, mem, finished, path, clock, saved, raced>>

\* flush asserts of every slot that its event has the slot's timestamp, which
\* an event that a forked child has from its parent has as well; an empty slot 0
\* has it too and is stopped by storeEvent's assertion.  Two processes that opened
\* one file write over each other.
Flush(p) ==
  LET events == [i \in 1..size[p] |-> mem[p][i - 1]]
      old == disk[path[p]]
  IN  /\ stage[p] = "open"
      /\ IF \E i \in DOMAIN events : events[i] = NoOne
         THEN /\ stage' = [stage EXCEPT ![p] = "abort"]
              /\ UNCHANGED <<disk, saved>>
         ELSE /\ stage' = [stage EXCEPT ![p] = "done"]
              /\ saved' = [saved EXCEPT ![p] = events]
              /\ disk' = [disk EXCEPT ![path[p]] =
                            events \o SubSeq(old, Len(events) + 1, Len(old))]
      /\ UNCHANGED <<alive, pc, slot, size, mem, finished, path, clock, raced>>

Second ==
  /\ clock < MaxTime
  /\ clock' = clock + 1
  /\ UNCHANGED <<procVars, path, disk, saved, raced>>

\* All have ended, or the seconds of this model are used up.
Terminating ==
  /\ \A p \in Procs : \/ stage[p] \in {"none", "done", "abort"}
                      \/ stage[p] = "exit" /\ clock = MaxTime
  /\ UNCHANGED vars

Init ==
  /\ stage = [p \in Procs |-> IF p = First THEN "run" ELSE "none"]
  /\ alive = [p \in Procs |-> IF p = First THEN {Main} ELSE {}]
  /\ pc = [p \in Procs |-> [t \in Threads |-> "idle"]]
  /\ slot = [p \in Procs |-> [t \in Threads |-> 0]]
  /\ size = [p \in Procs |-> 0]
  /\ mem = [p \in Procs |-> [i \in Slots |-> NoOne]]
  /\ finished = [p \in Procs |-> FALSE]
  /\ path = [p \in Procs |-> 0] /\ clock = 0
  /\ disk = [s \in 0..MaxTime |-> NoFile]
  /\ saved = [p \in Procs |-> <<>>] /\ raced = [p \in Procs |-> FALSE]

Step(p, t) ==
  \/ TakeSlot(p, t) \/ WriteEvent(p, t)
  \/ Spawn(p, t) \/ AfterFork(p, t) \/ Exit(p, t)
  \/ \E c \in Procs : Fork(p, t, c)

Next ==
  \/ \E p \in Procs : \/ \E t \in Threads : Step(p, t)
                      \/ ChoosePath(p) \/ Open(p) \/ Flush(p)
  \/ Second \/ Terminating

Spec == Init /\ [][Next]_vars

---------------------------------------------------------------------------
(* Properties.                                                             *)

Events == Seq(Procs)

\* The memories and the files stay in their types: what a process saves has no
\* event without a writer, also where it is written over another trace.
TypeOK ==
  /\ stage \in [Procs -> {"none", "run", "exit", "chosen", "open", "done", "abort"}]
  /\ alive \in [Procs -> SUBSET Threads]
  /\ pc \in [Procs -> [Threads -> {"idle", "forked", "write"}]]
  /\ slot \in [Procs -> [Threads -> Slots]]
  /\ size \in [Procs -> 0..MaxSlots]
  /\ mem \in [Procs -> [Slots -> Procs \union {NoOne}]]
  /\ finished \in [Procs -> BOOLEAN] /\ raced \in [Procs -> BOOLEAN]
  /\ path \in [Procs -> 0..MaxTime] /\ clock \in 0..MaxTime
  /\ disk \in [0..MaxTime -> Events \union {NoFile}]
  /\ saved \in [Procs -> Events]

\* The trace of a process tells its own events only: a forked
\* child starts anew, whatever its parent had logged and whatever its other
\* threads were doing; but for a thread of the process itself that was inside
\* the logger as it exited.
SavedEventsAreOwn ==
  \A p \in Procs : stage[p] = "done" =>
    \A i \in 1..Len(saved[p]) :
      saved[p][i] # p =>
        \/ mem[p][i - 1] = p
        \/ \E t \in alive[p] : pc[p][t] = "write" /\ slot[p][t] = i - 1

\* A trace is kept as it was saved by one process, whatever others save later,
\* unless two of them chose the same name before either had opened its file.
TracesAreKept ==
  \A p \in Procs :
    stage[p] = "done" /\ saved[p] # <<>> /\ ~raced[p] => disk[path[p]] = saved[p]

============================================================================
