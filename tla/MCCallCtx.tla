----------------------------- MODULE MCCallCtx -----------------------------
(* The call context and the allocation log, with two threads.              *)
EXTENDS CallCtx

CONSTANTS t1, t2, f, m

Wrappers == (m :> "malloc")

============================================================================
