------------------------------ MODULE CallCtx ------------------------------
(***************************************************************************)
(* The call context of a thread (CallCtx.cpp), kept by the hooks around    *)
(* calls, and the log of memory allocations (Logger.cpp) that copies it:   *)
(* the wrappers of Interface.cpp, the flush at exit, and what MemTrace.py  *)
(* then shows of an allocation.                                            *)
(*                                                                         *)
(* A call instruction that the instrumentation does not see (an indirect   *)
(* call, an invoke) makes a frame without hooks.  Neither the two hooks    *)
(* nor the wrappers stop at the end of the program: only the scheduler's   *)
(* part of them is behind need_instrument, and it has no say here.         *)
(***************************************************************************)
EXTENDS Naturals, Sequences, SequencesExt

CONSTANTS
  Threads, Main,
  Calls,      \* the call instructions with hooks around them
  Allocs,     \* those of them that call an allocator
  Wrapper,    \* the wrapper each of those was given
  LogMemAlloc,\* Logger: ENABLE and LOG_MEM_ALLOC
  MaxDepth, MaxAllocs \* bounds: frames of a thread, allocations of all

ASSUME CallCtxAssumption ==
  /\ Main \in Threads /\ Allocs \subseteq Calls /\ Allocs \subseteq DOMAIN Wrapper
  /\ LogMemAlloc \in BOOLEAN
  /\ IsFiniteSet(Threads) /\ MaxAllocs \in Nat

VARIABLES
  stage,     \* "init" before main, "run", "flush" once exit is called, "end", "abort"
  frames,    \* the calls each thread is in, [inst, hooks]
  callStack, \* __call_stack
  pc,        \* where each thread is in an allocation wrapper
  flag,      \* log_mem_alloc of each wrapper, "unset" before its first call
  pos,       \* __mem_alloc_events_pos
  slot,      \* the slot a thread has taken
  table,     \* __mem_alloc_events
  file,      \* what flushMemAllocEvents has written
  made,      \* history: the chain of each allocation that was to be logged
  mismatch,  \* popCaller has met another caller than its own
  unwound    \* history: a call with hooks was left without the one after it

logVars == <<pos, slot, table, file>>
vars == <<stage, frames, callStack, pc, flag, logVars, made, mismatch, unwound>>

Running == stage \in {"init", "run", "flush"}
NoRecord == <<>> \* no record has an empty call stack

\* Before main there is one thread.
Active(t) == Running /\ (stage = "init" => t = Main) /\ pc[t] = "idle"

\* The calls with hooks among frames: what a thread is in, as far as the
\* instrumentation sees it.
Callers(fs) ==
  LET c[i \in 0..Len(fs)] == IF i = 0 THEN <<>>
                             ELSE IF fs[i].hooks THEN Append(c[i - 1], fs[i].inst)
                             ELSE c[i - 1]
  IN  c[Len(fs)]
Chain(t) == Callers(frames[t])

\* pushCaller and popCaller.
PushCaller(t, inst) == callStack' = [callStack EXCEPT ![t] = Append(@, inst)]

PopCaller(t, inst) ==
  IF callStack[t] # <<>> /\ Last(callStack[t]) = inst
  THEN /\ callStack' = [callStack EXCEPT ![t] = Front(@)]
       /\ UNCHANGED <<mismatch, stage>>
  ELSE /\ mismatch' = TRUE /\ stage' = "abort"
       /\ UNCHANGED callStack

---------------------------------------------------------------------------
\* _before_func_call, or nothing, and the call.
Call(t, inst, hooks) ==
  /\ Active(t) /\ Len(frames[t]) < MaxDepth
  /\ inst \in Allocs => Len(made) + Cardinality({u \in Threads : pc[u] # "idle"}) < MaxAllocs
  /\ frames' = [frames EXCEPT ![t] = Append(@, [inst |-> inst, hooks |-> hooks])]
  /\ IF hooks THEN PushCaller(t, inst) ELSE UNCHANGED callStack
  /\ pc' = [pc EXCEPT ![t] = IF hooks /\ inst \in Allocs THEN "enter" ELSE "idle"]
  /\ UNCHANGED <<stage, flag, logVars, made, mismatch, unwound>>

\* The call returns; _after_func_call if it has hooks.
Return(t) ==
  /\ Active(t) /\ frames[t] # <<>>
  /\ frames' = [frames EXCEPT ![t] = Front(@)]
  /\ IF Last(frames[t]).hooks THEN PopCaller(t, Last(frames[t]).inst)
                              ELSE UNCHANGED <<callStack, stage, mismatch>>
  /\ UNCHANGED <<pc, flag, logVars, made, unwound>>

\* An exception that is caught further up, or longjmp: no hook is called.
\* (Bound: nothing is unwound after it has hit a call with hooks once.)
Unwind(t) ==
  /\ Active(t) /\ ~unwound
  /\ \E depth \in 0..(Len(frames[t]) - 1) :
       /\ frames' = [frames EXCEPT ![t] = SubSeq(@, 1, depth)]
       /\ unwound' = (unwound \/ \E i \in (depth + 1)..Len(frames[t]) : frames[t][i].hooks)
  /\ UNCHANGED <<stage, callStack, pc, flag, logVars, made, mismatch>>

---------------------------------------------------------------------------
(* malloc_wrapper, calloc_wrapper, realloc_wrapper.                        *)

Site(t) == Last(frames[t]).inst

\* Logger::init has run, and the log is wanted.
LoggingOn == stage # "init" /\ LogMemAlloc

\* The wrapper's static flag is set on its first call.
EnterWrapper(t) ==
  /\ Running /\ pc[t] = "enter"
  /\ LET w == Wrapper[Site(t)]
         on == IF flag[w] = "unset" THEN LoggingOn ELSE flag[w] = "on"
     IN  /\ flag' = [flag EXCEPT ![w] = IF on THEN "on" ELSE "off"]
         /\ pc' = [pc EXCEPT ![t] = IF on THEN "log" ELSE "idle"]
         /\ IF on THEN PushCaller(t, Site(t)) ELSE UNCHANGED callStack
  /\ UNCHANGED <<stage, frames, logVars, made, mismatch, unwound>>

\* logMemAllocEvent: the position, with no look at MAX_NR_MEM_EVENTS ...
TakeSlot(t) ==
  /\ Running /\ pc[t] = "log"
  /\ slot' = [slot EXCEPT ![t] = pos]
  /\ pos' = pos + 1
  /\ made' = Append(made, Append(Chain(t), Site(t)))
  /\ pc' = [pc EXCEPT ![t] = "write"]
  /\ UNCHANGED <<stage, frames, callStack, flag, table, file, mismatch, unwound>>

\* Mutant: the write reads the position again.
WriteRecord_ReadsPos(t) ==
  /\ Running /\ pc[t] = "write"
  /\ table' = [table EXCEPT ![pos - 1] = callStack[t]]
  /\ PopCaller(t, Site(t))
  /\ pc' = [pc EXCEPT ![t] = "idle"]
  /\ UNCHANGED <<frames, flag, pos, slot, file, made, unwound>>

\* Mutant: the caller that was put on for the record stays on the stack.
WriteRecord_NoPop(t) ==
  /\ Running /\ pc[t] = "write"
  /\ table' = [table EXCEPT ![slot[t]] = callStack[t]]
  /\ pc' = [pc EXCEPT ![t] = "idle"]
  /\ UNCHANGED <<stage, frames, callStack, flag, pos, slot, file, made, mismatch, unwound>>

\* ... and the record with its copy of the call stack; then popCaller.
WriteRecord(t) ==
  /\ Running /\ pc[t] = "write"
  /\ table' = [table EXCEPT ![slot[t]] = callStack[t]]
  /\ PopCaller(t, Site(t))
  /\ pc' = [pc EXCEPT ![t] = "idle"]
  /\ UNCHANGED <<frames, flag, pos, slot, file, made, unwound>>

---------------------------------------------------------------------------
\* main begins: Logger::init.
Start ==
  /\ stage = "init" /\ frames[Main] = <<>>
  /\ stage' = "run"
  /\ UNCHANGED <<frames, callStack, pc, flag, logVars, made, mismatch, unwound>>

\* A thread calls exit; the others go on.
Exit ==
  /\ stage = "run"
  /\ stage' = IF LogMemAlloc THEN "flush" ELSE "end"
  /\ UNCHANGED <<frames, callStack, pc, flag, logVars, made, mismatch, unwound>>

\* Mutant: the first record is left out.
FlushSlot_FromOne ==
  /\ stage = "flush"
  /\ IF Len(file) + 1 < pos
     THEN file' = Append(file, table[Len(file) + 1]) /\ UNCHANGED stage
     ELSE stage' = "end" /\ UNCHANGED file
  /\ UNCHANGED <<frames, callStack, pc, flag, pos, slot, table, made, mismatch, unwound>>

\* flushMemAllocEvents reads the position anew before each record, and reads
\* what is there, a record or the memory nobody wrote.
FlushSlot ==
  /\ stage = "flush"
  /\ IF Len(file) < pos
     THEN file' = Append(file, table[Len(file)]) /\ UNCHANGED stage
     ELSE stage' = "end" /\ UNCHANGED file
  /\ UNCHANGED <<frames, callStack, pc, flag, pos, slot, table, made, mismatch, unwound>>

Terminating == stage \in {"end", "abort"} /\ UNCHANGED vars

Init ==
  /\ stage = "init"
  /\ frames = [t \in Threads |-> <<>>] /\ callStack = [t \in Threads |-> <<>>]
  /\ pc = [t \in Threads |-> "idle"]
  /\ flag = [w \in {Wrapper[a] : a \in Allocs} |-> "unset"]
  /\ pos = 0 /\ slot = [t \in Threads |-> 0]
  /\ table = [i \in 0..(MaxAllocs - 1) |-> NoRecord]
  /\ file = <<>> /\ made = <<>>
  /\ mismatch = FALSE /\ unwound = FALSE

Step(t) ==
  \/ \E inst \in Calls, hooks \in BOOLEAN : Call(t, inst, hooks)
  \/ Return(t) \/ Unwind(t)
  \/ EnterWrapper(t) \/ TakeSlot(t) \/ WriteRecord(t)

Next ==
  \/ \E t \in Threads : Step(t)
  \/ Start \/ Exit \/ FlushSlot \/ Terminating

Spec == Init /\ [][Next]_vars

---------------------------------------------------------------------------
(* Properties.                                                             *)

\* A record that was written tells the chain of calls that led to its
\* allocation, each once and the allocator's own call twice, whatever
\* allocations of other threads were under way; until a call is unwound, and
\* its caller stays on the stack.
RecordsTellChains ==
  ~unwound =>
    \A i \in 0..(MaxAllocs - 1) : table[i] # NoRecord => table[i] = made[i + 1]

\* The file of a flush that came to its end has a line for every slot that was
\* taken, in the order of the slots, and each tells its allocation; but for the
\* line of a thread that was inside the logger while it was flushed, which is
\* read from memory that nobody had written.
FlushTellsAll ==
  stage = "end" /\ LogMemAlloc /\ ~unwound =>
    /\ Len(file) = Len(made)
    /\ \A i \in 1..Len(file) :
         \/ file[i] = made[i]
         \/ /\ file[i] = NoRecord
            /\ \/ table[i - 1] = made[i]
               \/ \E t \in Threads : pc[t] = "write" /\ slot[t] = i - 1

\* The assertion of popCaller: it takes off the caller that its own call had
\* put on.  It can only fail after longjmp or an exception has left a call.
PopsMatch == mismatch => unwound

============================================================================
