------------------------------- MODULE Config ------------------------------
(***************************************************************************)
(* Config::getConfig: the configuration is loaded once, under a lock that  *)
(* is tested twice, and published before it is checked.  The check itself  *)
(* asks getConfig for what it checks, while its thread holds the lock,     *)
(* which is not recursive.                                                 *)
(***************************************************************************)
EXTENDS Naturals

CONSTANTS
  Threads,
  NoOne

ASSUME ConfigAssumption == NoOne \notin Threads

VARIABLES
  at,        \* where each thread is in getConfig
  tmp,       \* the configuration it holds, named after who loaded it
  instance,  \* instance_
  mutex,     \* the holder of mutex_
  asked,     \* how many values the check has asked for
  enable, reuseTid, freeMem \* the file: LOGGER ENABLE, REUSE_TID, FREE_MEM

configVars == <<at, tmp, instance, mutex, asked, enable, reuseTid, freeMem>>

Goto(t, l) == at' = [at EXCEPT ![t] = l]
Hold(t, c) == tmp' = [tmp EXCEPT ![t] = c]

\* The values checkConfig asks for, each with a call of getConfig.
Questions == IF ~enable THEN 1 ELSE IF reuseTid THEN 2 ELSE 3
Passes == enable => ~reuseTid /\ ~freeMem

---------------------------------------------------------------------------
\* instance_.load() outside the lock.
Call(t) ==
  /\ at[t] = "call"
  /\ Hold(t, instance)
  /\ Goto(t, IF instance = NoOne THEN "lock" ELSE "return")
  /\ UNCHANGED <<instance, mutex, asked, enable, reuseTid, freeMem>>

Lock(t) ==
  /\ at[t] = "lock"
  /\ mutex = NoOne
  /\ mutex' = t
  /\ Goto(t, "again")
  /\ UNCHANGED <<tmp, instance, asked, enable, reuseTid, freeMem>>

\* Mutant: the test is not repeated under the lock.
Again_NoTest(t) ==
  /\ at[t] = "again"
  /\ Hold(t, instance)
  /\ Goto(t, "load")
  /\ UNCHANGED <<instance, mutex, asked, enable, reuseTid, freeMem>>

\* instance_.load() under the lock.
Again(t) ==
  /\ at[t] = "again"
  /\ Hold(t, instance)
  /\ Goto(t, IF instance = NoOne THEN "load" ELSE "unlock")
  /\ UNCHANGED <<instance, mutex, asked, enable, reuseTid, freeMem>>

\* loadConfig.
Load(t) ==
  /\ at[t] = "load"
  /\ Hold(t, t)
  /\ Goto(t, "store")
  /\ UNCHANGED <<instance, mutex, asked, enable, reuseTid, freeMem>>

\* Mutant: the configuration is published when it has passed the check.
Store_Later(t) ==
  /\ at[t] = "store"
  /\ Goto(t, "check")
  /\ UNCHANGED <<tmp, instance, mutex, asked, enable, reuseTid, freeMem>>

Store(t) ==
  /\ at[t] = "store"
  /\ instance' = tmp[t]
  /\ Goto(t, "check")
  /\ UNCHANGED <<tmp, mutex, asked, enable, reuseTid, freeMem>>

\* checkConfig asks getConfig, which looks for the instance outside the lock
\* and, if there is none, waits for the lock.
Ask(t) ==
  /\ at[t] = "check" /\ asked < Questions
  /\ instance # NoOne \/ mutex = NoOne
  /\ asked' = asked + 1
  /\ UNCHANGED <<at, tmp, instance, mutex, enable, reuseTid, freeMem>>

\* The assertion over checkConfig.
Check(t) ==
  /\ at[t] = "check" /\ asked = Questions
  /\ at' = IF Passes THEN [at EXCEPT ![t] = "unlock"] ELSE [u \in Threads |-> "abort"]
  /\ UNCHANGED <<tmp, instance, mutex, asked, enable, reuseTid, freeMem>>

Unlock(t) ==
  /\ at[t] = "unlock"
  /\ mutex' = NoOne
  /\ Goto(t, "return")
  /\ UNCHANGED <<tmp, instance, asked, enable, reuseTid, freeMem>>

ConfigInit ==
  /\ at = [t \in Threads |-> "call"] /\ tmp = [t \in Threads |-> NoOne]
  /\ instance = NoOne /\ mutex = NoOne /\ asked = 0
  /\ enable \in BOOLEAN /\ reuseTid \in BOOLEAN /\ freeMem \in BOOLEAN

GetConfig(t) ==
  \/ Call(t) \/ Lock(t) \/ Again(t) \/ Load(t) \/ Store(t)
  \/ Ask(t) \/ Check(t) \/ Unlock(t)

ConfigNext == \E t \in Threads : GetConfig(t)

\* A thread that can go on does.
Fairness == \A t \in Threads : WF_configVars(GetConfig(t))

ConfigSpec == ConfigInit /\ [][ConfigNext]_configVars /\ Fairness

---------------------------------------------------------------------------
(* Properties.                                                             *)

Labels == {"call", "lock", "again", "load", "store", "check", "unlock", "return", "abort"}

\* The threads, the configurations and the lock stay in their types.
ConfigTypeOK ==
  /\ at \in [Threads -> Labels]
  /\ tmp \in [Threads -> Threads \union {NoOne}]
  /\ instance \in Threads \union {NoOne} /\ mutex \in Threads \union {NoOne}
  /\ asked \in 0..3 /\ asked <= Questions
  /\ enable \in BOOLEAN /\ reuseTid \in BOOLEAN /\ freeMem \in BOOLEAN

\* Whoever comes back from getConfig has the one configuration that was ever
\* published.
OneConfig ==
  \A t \in Threads : at[t] = "return" => instance # NoOne /\ tmp[t] = instance

\* Everybody gets a configuration, or the process ends: the check does not
\* wait for the lock that its own thread holds.
EverybodyReturns == <>(\A t \in Threads : at[t] \in {"return", "abort"})

============================================================================
