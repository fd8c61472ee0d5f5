----------------------------- MODULE MCConfig ------------------------------
(* Four threads ask for the configuration at once.                         *)
EXTENDS Config

CONSTANTS t1, t2, t3, t4

============================================================================
