---------------------------- MODULE MCLibcHooks ----------------------------
(* One object on the heap, one on the stack.                               *)
EXTENDS LibcHooks, TLC
============================================================================
