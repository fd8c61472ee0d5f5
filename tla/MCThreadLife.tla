---------------------------- MODULE MCThreadLife ----------------------------
(***************************************************************************)
(* Small instances of ThreadLife for TLC.                                  *)
(***************************************************************************)
EXTENDS ThreadLife

CONSTANTS main, a, b, c, h0, h1, h2

MCNoTid == -1

\* A logging program, and one that reuses ids.
MCConfigs == {[reuse |-> FALSE, log |-> TRUE], [reuse |-> TRUE, log |-> FALSE]}

=============================================================================
