--------------------------- MODULE HappensBefore ---------------------------
(***************************************************************************)
(* The happens-before relation of a trace, the reference the race detector *)
(* is checked against.  It does not mention clocks.                        *)
(*                                                                         *)
(* An event is a record [op, tid, obj]: the operation, the thread, and the *)
(* variable it is on, or the other thread for CREATE and JOIN.             *)
(***************************************************************************)
EXTENDS Integers, Sequences

\* Event::isSyncAcqEvent and Event::isSyncRelEvent.
SyncAcqOps == {"LOCK", "TRYLOCK", "AWAKE"}
SyncRelOps == {"UNLOCK", "SIGNAL", "BROADCAST"}
AccessOps  == {"LD", "ST"}

\* isAccessEvent.
IsAccess(e) == e.op \in AccessOps

\* Event d, earlier in the trace, directly precedes event e: the order of a
\* thread, the start and the end of a thread (which may have no events in
\* between), and every release of a sync variable before every later
\* acquisition of it.
Precedes(d, e) ==
  \/ d.tid = e.tid
  \/ d.op = "CREATE" /\ d.obj = e.tid
  \/ e.op = "JOIN" /\ e.obj = d.tid
  \/ d.op = "CREATE" /\ e.op = "JOIN" /\ d.obj = e.obj
  \/ d.op \in SyncRelOps /\ e.op \in SyncAcqOps /\ d.obj = e.obj

\* The positions in trace tr of the events that happen before a next event
\* e, given for each position i the positions past[i] of its own past.
PastOf(tr, past, e) ==
  LET direct == {i \in 1..Len(tr) : Precedes(tr[i], e)}
  IN  direct \union UNION {past[i] : i \in direct}

\* The same for a whole trace and any relation R between its events: the
\* positions before each position in the transitive closure of R.
Pasts(tr, R(_, _)) ==
  LET p[j \in 1..Len(tr)] ==
        LET direct == {i \in 1..(j - 1) : R(tr[i], tr[j])}
        IN  direct \union UNION {p[i] : i \in direct}
  IN  p

\* Two accesses to one variable, one of them a write.
Conflict(d, e) ==
  /\ d.op \in AccessOps /\ e.op \in AccessOps
  /\ d.obj = e.obj
  /\ "ST" \in {d.op, e.op}

============================================================================
