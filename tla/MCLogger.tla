------------------------------ MODULE MCLogger -----------------------------
(***************************************************************************)
(* Small instances of Logger for TLC.                                      *)
(***************************************************************************)
EXTENDS Logger

CONSTANTS t1, t2

\* A timestamp outside the slots.
MCMaxNumber == -1
\* A logger that is switched on, and one that is switched off, sampling or not.
MCConfigs == {[enabled |-> TRUE,  sample |-> FALSE],
              [enabled |-> FALSE, sample |-> FALSE],
              [enabled |-> FALSE, sample |-> TRUE]}

=============================================================================
