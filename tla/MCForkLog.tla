----------------------------- MODULE MCForkLog -----------------------------
(* A process and its forked child, with up to two threads each.            *)
EXTENDS ForkLog

CONSTANTS t1, t2, parent, child

============================================================================
