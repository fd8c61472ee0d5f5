---------------------------- MODULE VectorClock ----------------------------
(***************************************************************************)
(* analyze/depgraph/VectorClock.cpp: one tick per thread.                  *)
(***************************************************************************)
EXTENDS Integers

CONSTANT Threads

Clock == [Threads -> Nat]

\* A default-constructed clock.
Zero == [t \in Threads |-> 0]

IncTick(c, t) == [c EXCEPT ![t] = @ + 1]

Merge(c, d) == [t \in Threads |-> IF c[t] >= d[t] THEN c[t] ELSE d[t]]

\* operator<=, which is not "< or ==": the code's < asks for every tick.
Leq(c, d) == \A t \in Threads : c[t] <= d[t]

ConcurrentWith(c, d) == ~(Leq(c, d) \/ Leq(d, c))

============================================================================
