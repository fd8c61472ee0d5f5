------------------------------- MODULE MCScs -------------------------------
(***************************************************************************)
(* Small instances of Scs for TLC.                                         *)
(***************************************************************************)
EXTENDS Scs

CONSTANTS t1, t2

\* t1 has one unit, the others two: INIT_MONEY lists different amounts.
MCInitMoney == {[t \in Threads |-> IF t = t1 THEN 1 ELSE 2]}
MCRandMoney == {2}
=============================================================================
