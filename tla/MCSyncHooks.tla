---------------------------- MODULE MCSyncHooks ----------------------------
(* Two threads with short programs.                                        *)
EXTENDS SyncHooks, TLC

CONSTANTS t1, t2

\* One enters a critical section and waits in it, or not; the other one takes
\* the mutex, or tries to, and signals.
CallProgram ==
  [t \in {t1, t2} |->
    IF t = t1
    THEN <<{"lock"}, {"wait", "access"}, {"unlock", "access"}, {"access", "lock"}>>
    ELSE <<{"access", "lock", "trylock"}, {"signal", "unlock", "destroy", "access"},
           {"unlock", "broadcast"}, {"access", "lock"}>>]
============================================================================
