----------------------------- MODULE EventLog ------------------------------
(***************************************************************************)
(* What the runtime's Logger promises its callers, without saying how: a   *)
(* log whose slots are handed out in order, each to one thread, and filled *)
(* once, by that thread, with an event that carries the slot's number as   *)
(* its timestamp.  Logger.tla implements it.                               *)
(***************************************************************************)
EXTENDS Integers

CONSTANTS
  Threads,
  Slots,    \* capacity of the log
  MaxTake,  \* the most slots a thread is given at once
  Events,   \* the events: records with at least ts and tid
  Empty     \* a slot nobody has filled

VARIABLES
  log,      \* the slots
  reserved, \* how many slots have been handed out
  claims    \* the slots each thread was given and has not filled

vars == <<log, reserved, claims>>

Init ==
  /\ log = [i \in 0..(Slots - 1) |-> Empty]
  /\ reserved = 0
  /\ claims = [t \in Threads |-> {}]

\* Thread t is given the next n slots, in one indivisible step.
Reserve(t, n) ==
  /\ reserved' = reserved + n
  /\ claims' = [claims EXCEPT ![t] = @ \union (reserved .. (reserved + n - 1))]
  /\ UNCHANGED log

\* Thread t fills one of its slots and gives it up.
Fill(t, i) ==
  /\ i \in claims[t]
  /\ i < Slots
  /\ log'[i] \in Events
  /\ log'[i].ts = i
  /\ log'[i].tid = t
  /\ log' = [log EXCEPT ![i] = log'[i]]
  /\ claims' = [claims EXCEPT ![t] = @ \ {i}]
  /\ UNCHANGED reserved

Next ==
  \E t \in Threads :
    \/ \E n \in 1..MaxTake : Reserve(t, n)
    \/ \E i \in 0..(Slots - 1) : Fill(t, i)

Spec == Init /\ [][Next]_vars

============================================================================
