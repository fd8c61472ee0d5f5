------------------------------ MODULE Logger -------------------------------
(***************************************************************************)
(* The event log of the runtime library, runtime/core/Logger.cpp, as the   *)
(* hooks of runtime/scs/ScScheduler.cpp use it.                            *)
(*                                                                         *)
(* Threads take slots with one atomic fetch_add on __log_sz and fill them  *)
(* later without any lock.  A hook logs one event, a pair of events        *)
(* (pthread_cond_wait), or a batch for which it took the slots in advance  *)
(* (libc memory functions, pthread_create, whose batch stays open while    *)
(* the new thread starts).  When the program exits, or after a SIGSEGV,    *)
(* one thread writes the slots to the trace file while the others may      *)
(* still be running.                                                       *)
(***************************************************************************)
EXTENDS Integers, Sequences

CONSTANTS
  Threads,
  Slots,      \* MAX_NR_EVENTS, the capacity of __events
  MaxNumber,  \* MAX_NUMBER, the value of an unused batch variable: it is
              \* only compared for equality, any value but a slot will do
  Empty,      \* the content of a slot nobody has written
  Torn,       \* the content of a slot while its event is being copied in
  Configs,    \* the values of ENABLE and SAMPLE init() may read
  LibcSizes,  \* heap addresses a libc call may touch (the others are stack)
  MaxHooks    \* bound: hooks a thread enters

EventType == [ts : Nat, tid : Threads, nr : Nat]

ASSUME LoggerAssumption ==
  /\ Slots \in Nat
  /\ MaxHooks \in Nat
  /\ LibcSizes \subseteq 1..3
  /\ MaxNumber \notin Nat
  /\ Empty # Torn
  /\ Empty \notin EventType /\ Torn \notin EventType
  /\ Configs \subseteq [enabled : BOOLEAN, sample : BOOLEAN]

VARIABLES
  config,    \* __logger_enable and __sample
  pc,        \* where a thread is, see Places
  kind,      \* what the hook the thread is in logs
  todo,      \* log calls the hook still has to make
  hooks,     \* hooks entered (bounded by MaxHooks)
  seq,       \* history: events the thread has logged, in program order
  batch,     \* __batch_id, __batch_pos, __batch_sz of the thread
  slots,     \* slots taken by the current log call and not yet written
  events,    \* __events
  logSz,     \* __log_sz
  finished,  \* Control's __is_finished
  file,      \* the trace file a thread is writing
  abort,     \* the assertion that stopped the program, or "no"
  caught     \* history: threads inside the logger when finished was set

logVars  == <<events, logSz>>
callVars == <<kind, todo, hooks, seq, batch, slots>>
endVars  == <<finished, file, caught>>
vars     == <<config, pc, callVars, logVars, endVars, abort>>

(***************************************************************************)
(* Places: application code ("out"); past need_instrument() and about to   *)
(* start a batch ("start"), to take one slot ("fetch") or two ("fetch2");  *)
(* holding slots to fill ("write"), in the middle of copying an event      *)
(* ("copy"); about to end the batch ("end"); inside pthread_create with    *)
(* the batch open ("creating"); writing the trace at exit ("saving") or    *)
(* after SIGSEGV ("dumping"), and done with it ("saved", "dumped").        *)
(***************************************************************************)
Places == {"out", "start", "fetch", "fetch2", "write", "copy", "end",
           "creating", "saving", "dumping", "saved", "dumped"}
Kinds  == {"single", "pair", "libc", "create"}

NoBatch == [id |-> MaxNumber, pos |-> MaxNumber, sz |-> MaxNumber]
InBatch(t) == batch[t].id # MaxNumber

\* The reserved slots of the batch nobody has asked for yet.
BatchRest(t) ==
  IF InBatch(t)
  THEN (batch[t].id + batch[t].pos) .. (batch[t].id + batch[t].sz - 1)
  ELSE {}
\* All slots that thread t has taken and not filled.
Pending(t) == BatchRest(t) \union {slots[t][k] : k \in 1..Len(slots[t])}

\* An event of thread t in slot i, the n-th the thread logs.
EventOf(t, i, n) == [ts |-> i, tid |-> t, nr |-> n]
IsEvent(e) == e \notin {Empty, Torn}

---------------------------------------------------------------------------
(* Hooks.                                                                  *)

\* Mutant: the hooks keep logging after the program has finished.
EnterHook_NoGate(t, k, n) ==
  /\ pc[t] = "out"
  /\ hooks[t] < MaxHooks
  /\ config.enabled \/ k = "create"
  /\ \/ k \in {"single", "create"} /\ n = 1
     \/ k = "pair" /\ n = 2
     \/ k = "libc" /\ n \in LibcSizes
  /\ pc' = [pc EXCEPT ![t] = CASE k = "single" -> "fetch"
                               [] k = "pair"   -> "fetch2"
                               [] OTHER        -> "start"]
  /\ kind' = [kind EXCEPT ![t] = k]
  /\ todo' = [todo EXCEPT ![t] = n]
  /\ hooks' = [hooks EXCEPT ![t] = @ + 1]
  /\ UNCHANGED <<config, seq, batch, slots, logVars, endVars, abort>>

\* DO_INSTRUMENT: the flag is read here and not again inside the hook.
\* Nothing reaches the log of a disabled logger except a thread creation,
\* which goes through startBatch and endBatch.
EnterHook(t, k, n) ==
  /\ pc[t] = "out"
  /\ ~finished
  /\ hooks[t] < MaxHooks
  /\ config.enabled \/ k = "create"
  /\ \/ k \in {"single", "create"} /\ n = 1
     \/ k = "pair" /\ n = 2
     \/ k = "libc" /\ n \in LibcSizes
  /\ pc' = [pc EXCEPT ![t] = CASE k = "single" -> "fetch"
                               [] k = "pair"   -> "fetch2"
                               [] OTHER        -> "start"]
  /\ kind' = [kind EXCEPT ![t] = k]
  /\ todo' = [todo EXCEPT ![t] = n]
  /\ hooks' = [hooks EXCEPT ![t] = @ + 1]
  /\ UNCHANGED <<config, seq, batch, slots, logVars, endVars, abort>>

\* Mutant: one slot more is taken than the batch uses.
StartBatch_OneMore(t) ==
  /\ pc[t] = "start"
  /\ pc' = [pc EXCEPT ![t] = IF kind[t] = "create" THEN "creating" ELSE "fetch"]
  /\ abort' = IF ~config.enabled THEN IF config.sample THEN "sample" ELSE abort
              ELSE IF InBatch(t) THEN "batch" ELSE abort
  /\ IF config.enabled /\ ~InBatch(t) /\ (kind[t] = "create" \/ todo[t] > 1)
       THEN /\ batch' = [batch EXCEPT ![t] = [id |-> logSz, pos |-> 0,
                                              sz |-> todo[t]]]
            /\ logSz' = logSz + todo[t] + 1
       ELSE UNCHANGED <<batch, logSz>>
  /\ UNCHANGED <<config, kind, todo, hooks, seq, slots, events, endVars>>

\* startBatch and startBatchFor, which opens a batch for two or more heap
\* addresses only.  The missing semicolon after "return" makes the test of
\* __sample part of the disabled branch.
StartBatch(t) ==
  /\ pc[t] = "start"
  /\ pc' = [pc EXCEPT ![t] = IF kind[t] = "create" THEN "creating" ELSE "fetch"]
  /\ abort' = IF ~config.enabled THEN IF config.sample THEN "sample" ELSE abort
              ELSE IF InBatch(t) THEN "batch" ELSE abort
  /\ IF config.enabled /\ ~InBatch(t) /\ (kind[t] = "create" \/ todo[t] > 1)
       THEN /\ batch' = [batch EXCEPT ![t] = [id |-> logSz, pos |-> 0,
                                              sz |-> todo[t]]]
            /\ logSz' = logSz + todo[t]
       ELSE UNCHANGED <<batch, logSz>>
  /\ UNCHANGED <<config, kind, todo, hooks, seq, slots, events, endVars>>

\* pthread_create returned and the new thread has its id: the after hook
\* logs the creation, unless the program has finished in the meantime and
\* the batch stays open for good.
AfterCreate(t) ==
  /\ pc[t] = "creating"
  /\ pc' = [pc EXCEPT ![t] = IF finished THEN "out"
                             ELSE IF config.enabled THEN "fetch" ELSE "end"]
  /\ UNCHANGED <<config, callVars, logVars, endVars, abort>>

\* Mutant: the counter is read and not advanced.
Fetch_NoAdd(t) ==
  /\ pc[t] = "fetch"
  /\ pc' = [pc EXCEPT ![t] = "write"]
  /\ \/ /\ InBatch(t)
        /\ slots' = [slots EXCEPT ![t] = <<batch[t].id + batch[t].pos>>]
        /\ batch' = [batch EXCEPT ![t].pos = @ + 1]
        /\ UNCHANGED logSz
        /\ abort' = IF batch[t].pos >= batch[t].sz THEN "batch"
                    ELSE IF slots'[t][1] >= Slots THEN "full" ELSE abort
     \/ /\ ~InBatch(t)
        /\ slots' = [slots EXCEPT ![t] = <<logSz>>]
        /\ UNCHANGED <<batch, logSz>>
        /\ abort' = IF logSz >= Slots THEN "full" ELSE abort
  /\ UNCHANGED <<config, kind, todo, hooks, seq, events, endVars>>

\* fetchAddLogSize: the next slot of the open batch, or a new one.
Fetch(t) ==
  /\ pc[t] = "fetch"
  /\ pc' = [pc EXCEPT ![t] = "write"]
  /\ \/ /\ InBatch(t)
        /\ slots' = [slots EXCEPT ![t] = <<batch[t].id + batch[t].pos>>]
        /\ batch' = [batch EXCEPT ![t].pos = @ + 1]
        /\ UNCHANGED logSz
        /\ abort' = IF batch[t].pos >= batch[t].sz THEN "batch"
                    ELSE IF slots'[t][1] >= Slots THEN "full" ELSE abort
     \/ /\ ~InBatch(t)
        /\ slots' = [slots EXCEPT ![t] = <<logSz>>]
        /\ logSz' = logSz + 1
        /\ UNCHANGED batch
        /\ abort' = IF logSz >= Slots THEN "full" ELSE abort
  /\ UNCHANGED <<config, kind, todo, hooks, seq, events, endVars>>

\* Mutant: the second event of a pair is written to the first slot.
FetchPair_Swapped(t) ==
  /\ pc[t] = "fetch2"
  /\ pc' = [pc EXCEPT ![t] = "write"]
  /\ slots' = [slots EXCEPT ![t] = <<logSz + 1, logSz>>]
  /\ logSz' = logSz + 2
  /\ abort' = IF logSz + 1 >= Slots THEN "full" ELSE abort
  /\ UNCHANGED <<config, kind, todo, hooks, seq, batch, events, endVars>>

\* logCondWaitEvent and logCondAwakeEvent take both slots at once.
FetchPair(t) ==
  /\ pc[t] = "fetch2"
  /\ pc' = [pc EXCEPT ![t] = "write"]
  /\ slots' = [slots EXCEPT ![t] = <<logSz, logSz + 1>>]
  /\ logSz' = logSz + 2
  /\ abort' = IF logSz + 1 >= Slots THEN "full" ELSE abort
  /\ UNCHANGED <<config, kind, todo, hooks, seq, batch, events, endVars>>

\* The event is copied into its slot field by field ...
BeginWrite(t) ==
  /\ pc[t] = "write"
  /\ pc' = [pc EXCEPT ![t] = "copy"]
  /\ events' = [events EXCEPT ![Head(slots[t])] = Torn]
  /\ UNCHANGED <<config, callVars, logSz, endVars, abort>>

\* ... and is complete; the hook goes on with its next event.
EndWrite(t) ==
  /\ pc[t] = "copy"
  /\ events' = [events EXCEPT ![Head(slots[t])]
                                = EventOf(t, Head(slots[t]), seq[t])]
  /\ seq' = [seq EXCEPT ![t] = @ + 1]
  /\ slots' = [slots EXCEPT ![t] = Tail(@)]
  /\ todo' = [todo EXCEPT ![t] = @ - 1]
  /\ pc' = [pc EXCEPT ![t] = IF todo[t] = 1
                             THEN IF kind[t] \in {"libc", "create"} THEN "end"
                                  ELSE "out"
                             ELSE IF kind[t] = "pair" THEN "write" ELSE "fetch"]
  /\ UNCHANGED <<config, kind, hooks, batch, logSz, endVars, abort>>

\* Mutant: the batch variables are not reset.
EndBatch_KeepsBatch(t) ==
  /\ pc[t] = "end"
  /\ pc' = [pc EXCEPT ![t] = "out"]
  /\ abort' = IF ~config.enabled THEN IF config.sample THEN "sample" ELSE abort
              ELSE IF batch[t].pos # batch[t].sz THEN "batch" ELSE abort
  /\ UNCHANGED <<config, kind, todo, hooks, seq, batch, slots, logVars, endVars>>

\* endBatch.
EndBatch(t) ==
  /\ pc[t] = "end"
  /\ pc' = [pc EXCEPT ![t] = "out"]
  /\ abort' = IF ~config.enabled THEN IF config.sample THEN "sample" ELSE abort
              ELSE IF batch[t].pos # batch[t].sz THEN "batch" ELSE abort
  /\ batch' = IF config.enabled THEN [batch EXCEPT ![t] = NoBatch] ELSE batch
  /\ UNCHANGED <<config, kind, todo, hooks, seq, slots, logVars, endVars>>

---------------------------------------------------------------------------
(* Saving the trace.                                                       *)

\* Inside the logger: past the gate, or with a batch open.
Inside(t) == pc[t] \notin {"out", "dumping", "dumped"} \/ InBatch(t)

\* _before_exit: the flag first, then programExit saves the trace.  Only the
\* first exit does (has_clean_up).
Exit(t) ==
  /\ pc[t] \in {"out", "dumped"}
  /\ ~finished
  /\ finished' = TRUE
  /\ caught' = {u \in Threads \ {t} : Inside(u)}
  /\ file' = [file EXCEPT ![t] = <<>>]
  /\ pc' = [pc EXCEPT ![t] = IF config.enabled THEN "saving" ELSE "saved"]
  /\ UNCHANGED <<config, callVars, logVars, abort>>

\* segfault_handler saves to a second file without stopping the others, then
\* calls exit.
Segfault(t) ==
  /\ pc[t] = "out"
  /\ ~finished
  /\ file' = [file EXCEPT ![t] = <<>>]
  /\ pc' = [pc EXCEPT ![t] = IF config.enabled THEN "dumping" ELSE "dumped"]
  /\ UNCHANGED <<config, callVars, logVars, finished, caught, abort>>

\* One turn of the loop in flush, which asserts that the slot has its timestamp,
\* and then storeEvent, which asserts that it has the type of an event.  Of an
\* event that is being copied either may be there already; and the fresh memory
\* of the log reads as zero, which is a timestamp for slot 0 and is no type.
FlushSlot(t) ==
  /\ pc[t] \in {"saving", "dumping"}
  /\ Len(file[t]) < logSz
  /\ LET i == Len(file[t])
         e == IF i < Slots THEN events[i] ELSE Empty
     IN \/ /\ IsEvent(e) \/ e = Torn
           /\ file' = [file EXCEPT ![t] = Append(@, e)]
           /\ UNCHANGED abort
        \/ /\ ~IsEvent(e) /\ i # 0
           /\ abort' = IF pc[t] = "saving" THEN "hole" ELSE "dumpHole"
           /\ UNCHANGED file
        \/ /\ ~IsEvent(e) /\ (i = 0 \/ e = Torn)
           /\ abort' = IF pc[t] = "saving" THEN "type" ELSE "dumpType"
           /\ UNCHANGED file
  /\ UNCHANGED <<config, pc, callVars, logVars, finished, caught>>

\* The loop reads __log_sz again in every turn and ends when it is reached.
FlushDone(t) ==
  /\ pc[t] \in {"saving", "dumping"}
  /\ Len(file[t]) >= logSz
  /\ pc' = [pc EXCEPT ![t] = IF @ = "saving" THEN "saved" ELSE "dumped"]
  /\ UNCHANGED <<config, callVars, logVars, endVars, abort>>

---------------------------------------------------------------------------
Init ==
  /\ config \in Configs
  /\ pc = [t \in Threads |-> "out"]
  /\ kind = [t \in Threads |-> "single"]
  /\ todo = [t \in Threads |-> 0]
  /\ hooks = [t \in Threads |-> 0]
  /\ seq = [t \in Threads |-> 0]
  /\ batch = [t \in Threads |-> NoBatch]
  /\ slots = [t \in Threads |-> <<>>]
  /\ events = [i \in 0..(Slots - 1) |-> Empty]
  /\ logSz = 0
  /\ finished = FALSE
  /\ file = [t \in Threads |-> <<>>]
  /\ abort = "no"
  /\ caught = {}

ThreadStep(t) ==
  \/ \E k \in Kinds, n \in LibcSizes \union {1, 2} : EnterHook(t, k, n)
  \/ StartBatch(t)
  \/ AfterCreate(t)
  \/ Fetch(t)
  \/ FetchPair(t)
  \/ BeginWrite(t)
  \/ EndWrite(t)
  \/ EndBatch(t)
  \/ Exit(t)
  \/ Segfault(t)
  \/ FlushSlot(t)
  \/ FlushDone(t)

\* The process is gone after a failed assertion and when the trace is saved;
\* the application may also block for good.
Next == abort = "no" /\ \E t \in Threads : ThreadStep(t)

Spec == Init /\ [][Next]_vars

---------------------------------------------------------------------------
(* Properties.                                                             *)

BatchType == [id  : Nat \union {MaxNumber},
              pos : Nat \union {MaxNumber},
              sz  : Nat \union {MaxNumber}]

\* Every variable stays in its type.
TypeOK ==
  /\ config \in Configs
  /\ pc \in [Threads -> Places]
  /\ kind \in [Threads -> Kinds]
  /\ todo \in [Threads -> Nat]
  /\ hooks \in [Threads -> Nat]
  /\ seq \in [Threads -> Nat]
  /\ batch \in [Threads -> BatchType]
  /\ slots \in [Threads -> Seq(Nat)]
  /\ events \in [0..(Slots - 1) -> {Empty, Torn} \union EventType]
  /\ logSz \in Nat
  /\ finished \in BOOLEAN
  /\ file \in [Threads -> Seq({Torn} \union EventType)]
  /\ abort \in {"no", "batch", "full", "sample", "hole", "dumpHole", "type", "dumpType"}
  /\ caught \subseteq Threads

\* The log as its users see it: an event that is still being copied is not
\* there yet.  Slots are handed out in order, to one thread each, and each
\* is filled once and by its owner, with its number as timestamp.
Journal == INSTANCE EventLog
  WITH log      <- [i \in 0..(Slots - 1) |-> IF events[i] = Torn THEN Empty
                                             ELSE events[i]],
       reserved <- logSz,
       claims   <- [t \in Threads |-> Pending(t)],
       Events   <- EventType,
       MaxTake  <- 3
ImplementsEventLog == Journal!Spec

\* Nobody owns a slot twice, and every slot below __log_sz that holds no
\* event is in some thread's hands: a hole in the trace can only be an event
\* that a thread is still about to write.
HolesAreOwned ==
  /\ \A t, u \in Threads : t # u => Pending(t) \intersect Pending(u) = {}
  /\ \A i \in 0..(Slots - 1) :
       i < logSz /\ ~IsEvent(events[i]) => \E t \in Threads : i \in Pending(t)

\* The trace keeps program order: of two events of one thread the one logged
\* first has the smaller timestamp, although slots of a batch, a pair and a
\* pthread_create are taken long before they are written.
ProgramOrder ==
  \A i, j \in 0..(Slots - 1) :
    /\ i < j
    /\ IsEvent(events[i]) /\ IsEvent(events[j])
    /\ events[i].tid = events[j].tid
    => events[i].nr < events[j].nr

\* Every batch is used up exactly: the four assertions about __batch_id,
\* __batch_pos and __batch_sz (Logger.cpp:155-157, 173-175, 203, 221) hold,
\* whichever arguments of a libc call are on the stack.
BatchesFit == abort # "batch"

\* An exit that catches no other thread inside a hook or between the two
\* hooks of a pthread_create saves the whole log: every slot, in order, no
\* event half copied, and the assertions in flush and storeEvent hold.
QuietExitSavesAll ==
  caught = {} =>
    /\ abort \notin {"hole", "type"}
    /\ \A t \in Threads :
         pc[t] = "saved" /\ config.enabled =>
           file[t] = [k \in 1..logSz |-> events[k - 1]]
                     /\ \A k \in 1..logSz : IsEvent(events[k - 1])

\* flush asserts that slot i has the timestamp i (Logger.cpp:356-359).  (An
\* unwritten slot 0 has it, and is stopped by storeEvent.)
FlushFindsEveryEvent == abort # "hole"

============================================================================
