----------------------------- MODULE LoadTrace -----------------------------
(***************************************************************************)
(* The way of a trace file to its races: DepGraph::loadTrace reads the     *)
(* events and throws away accesses that cannot race, buildGraphImpl builds *)
(* the list of each thread, main checks the number of threads, and         *)
(* RaceAnalyze walks what is left.                                         *)
(*                                                                         *)
(* The file is any trace of a run; its timestamps are its positions, which *)
(* the Logger guarantees.  An address is a number: arrays cover several,   *)
(* and the same address may hold data and a mutex.                         *)
(***************************************************************************)
EXTENDS RaceAnalyze, FiniteSets, SequencesExt

CONSTANTS
  Lens,       \* lengths of accesses in the file
  MaxThread,  \* VectorClock::MAX_THREAD
  MaxFile,    \* bound: length of the file
  None

\* Vars are the addresses of the accesses, which are numbers; among them may
\* be addresses of mutexes or the like, SyncVars.
ASSUME LoadAssumption ==
  /\ None \notin Threads
  /\ Vars \subseteq Nat /\ Lens \subseteq Nat
  /\ MaxThread \in Nat /\ MaxFile \in Nat

VARIABLES
  file,          \* the events read so far
  tot,           \* tot_events_
  syncVars,      \* sync_vars_
  shared,        \* shared_vars_
  hasWritten,    \* has_written
  lastAccessor,  \* last_accessor
  lists,         \* graph_: the events of each thread
  stage          \* what the program is doing, or how it ended

noteVars == <<syncVars, shared, hasWritten, lastAccessor>>
loadVars == <<file, tot, noteVars, lists, stage, vars>>

\* The words of the detector about the file.
File == INSTANCE RaceAnalyze WITH trace <- file

---------------------------------------------------------------------------
(* loadTrace.                                                              *)

Read(op, t, obj, len) ==
  /\ File!Running(t)
  /\ file' = Append(file, [op |-> op, tid |-> t, obj |-> obj, len |-> len])
  /\ UNCHANGED <<lists, vars>>

ReadSync(t, op, m) ==
  /\ Read(op, t, m, 1)
  /\ tot' = Append(tot, Event(op, t, m))
  /\ syncVars' = syncVars \union {m}
  /\ UNCHANGED <<shared, hasWritten, lastAccessor, stage>>

ReadThreadOp(t, op, u) ==
  /\ \/ op = "CREATE" /\ u # Main /\ ~File!Created(u)
     \/ op = "JOIN" /\ u \notin {t, Main} /\ File!Running(u)
  /\ Read(op, t, u, 0)
  /\ tot' = Append(tot, Event(op, t, u))
  /\ UNCHANGED <<noteVars, stage>>

Cells(a, n) == a..(a + n - 1)

\* expandArrayAccessEvent for every position of the array.
Expand(e) ==
  IF IsAccess(e)
  THEN [l \in 1..e.len |-> Event(e.op, e.tid, e.obj + l - 1)]
  ELSE <<Event(e.op, e.tid, e.obj)>>

\* Mutant: nothing more is noted of a variable known to be shared.
ReadAccess_SharedFirst(t, op, a, n) ==
  /\ n > 0 /\ Cells(a, n) \subseteq Vars
  /\ Read(op, t, a, n)
  /\ tot' = tot \o Expand([op |-> op, tid |-> t, obj |-> a, len |-> n])
  /\ hasWritten' = IF op = "ST" THEN hasWritten \union (Cells(a, n) \ shared)
                   ELSE hasWritten
  /\ shared' = shared \union {x \in Cells(a, n) : lastAccessor[x] \notin {None, t}}
  /\ lastAccessor' = [x \in Vars |->
       IF x \in Cells(a, n) /\ lastAccessor[x] = None THEN t ELSE lastAccessor[x]]
  /\ UNCHANGED <<syncVars, stage>>

\* An address is shared once a thread other than its first accessor, which
\* is never replaced, accesses it.
ReadAccess(t, op, a, n) ==
  /\ n > 0 /\ Cells(a, n) \subseteq Vars
  /\ Read(op, t, a, n)
  /\ tot' = tot \o Expand([op |-> op, tid |-> t, obj |-> a, len |-> n])
  /\ hasWritten' = IF op = "ST" THEN hasWritten \union Cells(a, n) ELSE hasWritten
  /\ shared' = shared \union {x \in Cells(a, n) : lastAccessor[x] \notin {None, t}}
  /\ lastAccessor' = [x \in Vars |->
       IF x \in Cells(a, n) /\ lastAccessor[x] = None THEN t ELSE lastAccessor[x]]
  /\ UNCHANGED <<syncVars, stage>>

\* getLength asserts a positive length.
ReadEmptyAccess(t, op, a) ==
  /\ 0 \in Lens
  /\ Read(op, t, a, 0)
  /\ stage' = "assert length"
  /\ UNCHANGED <<tot, noteVars>>

\* The elements of sequence s at positions S.
Part(s, S) == FlattenSeq([i \in DOMAIN s |-> IF i \in S THEN <<s[i]>> ELSE <<>>])

\* Mutant: what nobody writes is kept.
Filter_KeepsReadOnly ==
  /\ stage = "load"
  /\ tot' = Part(tot, {i \in DOMAIN tot : IsAccess(tot[i]) => tot[i].obj \in shared})
  /\ stage' = "loaded"
  /\ UNCHANGED <<file, noteVars, lists, vars>>

\* The end of the file: what nobody writes is not shared, and accesses to
\* what is not shared go.
Filter ==
  LET keep == shared \intersect hasWritten
  IN  /\ stage = "load"
      /\ shared' = keep
      /\ tot' = Part(tot, {i \in DOMAIN tot : IsAccess(tot[i]) => tot[i].obj \in keep})
      /\ stage' = "loaded"
      /\ UNCHANGED <<file, syncVars, hasWritten, lastAccessor, lists, vars>>

---------------------------------------------------------------------------
(* buildGraph and main.                                                    *)

\* Accesses to sync variables are left out of the lists, not of tot_events_.
\* VerifyPass then checks the edges between events, of which there are none.
Build ==
  /\ stage = "loaded"
  /\ lists' = [t \in Threads |->
       Part(tot, {i \in DOMAIN tot :
                    tot[i].tid = t /\ ~(IsAccess(tot[i]) /\ tot[i].obj \in syncVars)})]
  /\ stage' = "built"
  /\ UNCHANGED <<file, tot, noteVars, vars>>

NrThread == Cardinality({t \in Threads : lists[t] # <<>>})

CountThreads ==
  /\ stage = "built"
  /\ stage' = IF NrThread < MaxThread THEN "detect" ELSE "assert threads"
  /\ UNCHANGED <<file, tot, noteVars, lists, vars>>

\* RaceAnalyze::analyze handles the next event.
Handle(e) ==
  \/ e.op = "LD" /\ e.obj \notin syncVars /\ Load(e.tid, e.obj)
  \/ e.op = "ST" /\ e.obj \notin syncVars /\ Store(e.tid, e.obj)
  \/ e.op \in SyncAcqOps /\ Acquire(e.tid, e.obj, e.op)
  \/ e.op \in SyncRelOps /\ Release(e.tid, e.obj, e.op)
  \/ e.op = "WAIT" /\ Wait(e.tid, e.obj)
  \/ e.op = "CREATE" /\ Create(e.tid, e.obj)
  \/ e.op = "JOIN" /\ Join(e.tid, e.obj)

Detect ==
  /\ stage = "detect" /\ Len(trace) < Len(tot)
  /\ Handle(tot[Len(trace) + 1])
  /\ UNCHANGED <<file, tot, noteVars, lists, stage>>

\* ... or assert(0).
DetectFails ==
  /\ stage = "detect" /\ Len(trace) < Len(tot)
  /\ IsAccess(tot[Len(trace) + 1]) /\ tot[Len(trace) + 1].obj \in syncVars
  /\ stage' = "assert event"
  /\ UNCHANGED <<file, tot, noteVars, lists, vars>>

DetectDone ==
  /\ stage = "detect" /\ Len(trace) = Len(tot)
  /\ stage' = "done"
  /\ UNCHANGED <<file, tot, noteVars, lists, vars>>

---------------------------------------------------------------------------
LoadInit ==
  /\ file = <<>> /\ tot = <<>>
  /\ syncVars = {} /\ shared = {} /\ hasWritten = {}
  /\ lastAccessor = [x \in Vars |-> None]
  /\ lists = [t \in Threads |-> <<>>]
  /\ stage = "load"
  /\ Init

ReadNext ==
  /\ stage = "load" /\ Len(file) < MaxFile
  /\ \E t \in Threads :
       \/ \E a \in Vars, op \in AccessOps :
            \/ \E n \in Lens : ReadAccess(t, op, a, n)
            \/ ReadEmptyAccess(t, op, a)
       \/ \E m \in SyncVars, op \in SyncOps : ReadSync(t, op, m)
       \/ \E u \in Threads, op \in {"CREATE", "JOIN"} : ReadThreadOp(t, op, u)

LoadNext ==
  \/ ReadNext
  \/ Filter \/ Build \/ CountThreads
  \/ Detect \/ DetectFails \/ DetectDone

LoadSpec == LoadInit /\ [][LoadNext]_loadVars

---------------------------------------------------------------------------
(* Properties.                                                             *)

\* The whole file, arrays expanded and nothing thrown away.
WholeFile == FlattenSeq([i \in 1..Len(file) |-> Expand(file[i])])

RacyVars(tr) ==
  LET p == Pasts(tr, Precedes)
  IN  {tr[j].obj : j \in {k \in 1..Len(tr) :
         \E i \in 1..(k - 1) : i \notin p[k] /\ Conflict(tr[i], tr[k])}}

\* Throwing away accesses changes no result: when the program gets through,
\* the variables it reports races on are the racy variables of the whole
\* file, element by element of the arrays.
FilterLosesNoRace ==
  stage = "done" => {trace[r[1]].obj : r \in races} = RacyVars(WholeFile)

\* An address that holds both a mutex and data two threads use, one writing.
MixedAddress ==
  LET whole == WholeFile
      at(m) == {i \in 1..Len(whole) : whole[i].obj = m /\ IsAccess(whole[i])}
  IN  \E m \in syncVars :
        /\ Cardinality({whole[i].tid : i \in at(m)}) > 1
        /\ \E i \in at(m) : whole[i].op = "ST"

\* What a trace must not have, or getLength, main or the detector asserts.
Clean ==
  /\ \A i \in 1..Len(file) : IsAccess(file[i]) => file[i].len > 0
  /\ Cardinality({file[i].tid : i \in 1..Len(file)}) < MaxThread
  /\ ~MixedAddress

\* No other trace is stopped on its way to the report: an address of a mutex
\* that one thread alone uses as data, or that nobody writes, is no obstacle,
\* wherever its operation on the mutex is in the file.
CleanTracesPass ==
  Clean => stage \notin {"assert length", "assert threads", "assert event"}

============================================================================
