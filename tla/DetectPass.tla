----------------------------- MODULE DetectPass -----------------------------
(***************************************************************************)
(* DetectPass::analyze: what becomes of the pairs of events that the race  *)
(* detector found.  Races are sorted by the pair of instructions that made *)
(* them and written to the .race file; the pairs of every thread are       *)
(* counted, with their distances, in its summary.                          *)
(*                                                                         *)
(* The pairs are kept in sets of pointers, so they come in any order.      *)
(* Nothing is filtered from the trace here: positions are timestamps.  The *)
(* detector runs as the first pass, with all its state.                    *)
(***************************************************************************)
EXTENDS RaceAnalyze, FiniteSetsExt

CONSTANTS
  Insts,     \* instruction ids, numbers
  MaxReport  \* bound: length of the traces that are reported on

ASSUME InstAssumption == Insts \subseteq Nat \ {0} /\ MaxReport \in Nat
ASSUME ThreadsAssumption == IsFiniteSet(Threads)

VARIABLES
  inst,      \* the instruction id of each event, 0 for those that are no access
  phase,     \* the loop of analyze that is running
  done,      \* the pairs, or events, this loop has handled
  table,     \* race_table_: for a pair of ids the ops of the key and the races
  summary    \* __thread_summary_table

passVars == <<vars, inst, phase, done, table, summary>>

Items == {<<"event">>} \union ({"race", "sync"} \X {"before", "after"} \X {"nr", "distance"})

---------------------------------------------------------------------------
\* RaceAnalyze as a pass.
Analyze ==
  /\ phase = "detect"
  /\ Next
  /\ UNCHANGED <<inst, phase, done, table, summary>>

\* Its end.  An access bears the id of its instruction, which may both read and
\* write (a libc call); no id is looked at before.
AnalyzeDone ==
  /\ phase = "detect" /\ Len(trace) <= MaxReport
  /\ inst' \in [1..Len(trace) -> Insts \union {0}]
  /\ \A i \in 1..Len(trace) : inst'[i] = 0 <=> ~IsAccess(trace[i])
  /\ phase' = "races"
  /\ UNCHANGED <<vars, done, table, summary>>

Later(p) ==
  /\ done' = {}
  /\ phase' = p
  /\ UNCHANGED <<vars, inst, table, summary>>

\* Mutant: the ids are put in order, the operations are not.
Key_OpsUnswapped(r) ==
  LET i == inst[r[1]] j == inst[r[2]]
      ops == <<trace[r[1]].op, trace[r[2]].op>>
  IN  IF i > j THEN [ids |-> <<j, i>>, ops |-> ops]
      ELSE [ids |-> <<i, j>>, ops |-> ops]

\* InstRacePair: the smaller id first.
Key(r) ==
  LET i == inst[r[1]] j == inst[r[2]]
      ops == <<trace[r[1]].op, trace[r[2]].op>>
  IN  IF i > j THEN [ids |-> <<j, i>>, ops |-> <<ops[2], ops[1]>>]
      ELSE [ids |-> <<i, j>>, ops |-> ops]

\* addRace: keys are compared by their ids only, so an entry keeps the
\* operations of the first race put into it.
AddRace(r) ==
  LET k == Key(r)
  IN  IF k.ids \in DOMAIN table
      THEN [table EXCEPT ![k.ids].list = @ \union {r}]
      ELSE [x \in DOMAIN table \union {k.ids} |->
              IF x = k.ids THEN [ops |-> k.ops, list |-> {r}] ELSE table[x]]

Add(s, t, kind, side, d) ==
  [s EXCEPT ![t][<<kind, side, "nr">>] = @ + 1,
            ![t][<<kind, side, "distance">>] = @ + d]

\* Mutant: the thread of the earlier event is counted twice.
Counted_SameThread(kind, r) ==
  LET first == IF r[1] < r[2] THEN r[1] ELSE r[2]
      last  == IF r[1] < r[2] THEN r[2] ELSE r[1]
  IN  Add(Add(summary, trace[first].tid, kind, "before", last - first),
          trace[first].tid, kind, "after", last - first)

\* The summaries of the two threads of a pair, by the order of timestamps.
Counted(kind, r) ==
  LET first == IF r[1] < r[2] THEN r[1] ELSE r[2]
      last  == IF r[1] < r[2] THEN r[2] ELSE r[1]
  IN  Add(Add(summary, trace[first].tid, kind, "before", last - first),
          trace[last].tid, kind, "after", last - first)

HandleRace ==
  /\ phase = "races"
  /\ \E r \in races \ done :
       /\ table' = AddRace(r)
       /\ summary' = Counted("race", r)
       /\ done' = done \union {r}
  /\ UNCHANGED <<vars, inst, phase>>

HandleSync ==
  /\ phase = "syncs"
  /\ \E r \in syncHb \ done :
       /\ summary' = Counted("sync", r)
       /\ done' = done \union {r}
  /\ UNCHANGED <<vars, inst, phase, table>>

CountEvent ==
  LET i == Cardinality(done) + 1
  IN  /\ phase = "events" /\ i <= Len(trace)
      /\ summary' = [summary EXCEPT ![trace[i].tid][<<"event">>] = @ + 1]
      /\ done' = done \union {<<i, i>>}
      /\ UNCHANGED <<vars, inst, phase, table>>

EndLoop ==
  \/ phase = "races" /\ done = races /\ Later("syncs")
  \/ phase = "syncs" /\ done = syncHb /\ Later("events")
  \/ phase = "events" /\ Cardinality(done) = Len(trace) /\ Later("save")

ReportInit ==
  /\ Init
  /\ inst = <<>> /\ phase = "detect" /\ done = {}
  /\ table = <<>>
  /\ summary = [t \in Threads |-> [x \in Items |-> 0]]

ReportNext == Analyze \/ AnalyzeDone \/ HandleRace \/ HandleSync \/ CountEvent \/ EndLoop

ReportSpec == ReportInit /\ [][ReportNext]_passVars

---------------------------------------------------------------------------
(* Properties.                                                             *)

SumOver(x) == FoldSet(LAMBDA t, n : n + summary[t][x], 0, Threads)

\* What the threads' summaries say of each other adds up: every pair has one
\* earlier and one later thread at the same distance, whichever order the
\* pairs are handled in, and nobody is credited with a pair of strangers.
SummariesBalance ==
  /\ \A k \in {"race", "sync"}, n \in {"nr", "distance"} :
       SumOver(<<k, "before", n>>) = SumOver(<<k, "after", n>>)
  /\ phase = "save" =>
       \A t \in Threads :
         /\ summary[t][<<"race", "after", "nr">>]
              = Cardinality({r \in races : trace[r[2]].tid = t})
         /\ summary[t][<<"sync", "before", "nr">>]
              = Cardinality({r \in syncHb : trace[r[1]].tid = t})
         /\ summary[t][<<"event">>] = Cardinality({i \in 1..Len(trace) : trace[i].tid = t})

\* The report tells every race once, under its two instructions, and what a
\* key says of their operations is true of one of its races.
ReportTellsAllRaces ==
  phase \in {"syncs", "events", "save"} =>
    /\ \A r \in races : \E k \in DOMAIN table : r \in table[k].list
    /\ \A k, l \in DOMAIN table :
         table[k].list \intersect table[l].list # {} \/ {k[1], k[2]} = {l[1], l[2]} => k = l
    /\ \A k \in DOMAIN table :
         /\ \A r \in table[k].list : {inst[r[1]], inst[r[2]]} = {k[1], k[2]}
         /\ \E r \in table[k].list : \E a, b \in {r[1], r[2]} :
              /\ {a, b} = {r[1], r[2]}
              /\ <<inst[a], inst[b]>> = k
              /\ <<trace[a].op, trace[b].op>> = table[k].ops

============================================================================
