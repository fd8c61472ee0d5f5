--------------------------- MODULE SyncHooksProofs ---------------------------
(***************************************************************************)
(* Proofs about SyncHooks, for any number of threads, mutexes, rwlocks and *)
(* condition variables and any program, wherever it exits: the critical    *)
(* sections in the log do not overlap (SectionsDisjoint), what mutexes     *)
(* order in the log was so (OrderIsReal), and what mutexes and condition   *)
(* variables ordered is in the order of the log (OrderIsLogged).           *)
(*                                                                         *)
(* A section is logged late and closed early, so as long as the program    *)
(* has not exited an open section is that of the owner (OpenIsOwned).      *)
(* After the exit releases are no longer logged, and what saves the order  *)
(* is that whoever still logs an acquisition passed the gate before the    *)
(* exit, when nobody else had a section open (AloneAfter).                 *)
(*                                                                         *)
(* OrderIsReal: a release is logged before the mutex is given up, so the   *)
(* owner knows of it, and after it the next one to take the mutex          *)
(* (ReleasesAreKnown).  OrderIsLogged: whatever a thread has learnt of and *)
(* its log does not show yet is in the past of a release that the hook     *)
(* after its call will log an acquisition for (ThreadsAreShown); after the *)
(* exit that hook may be skipped, but then so is every later one.          *)
(***************************************************************************)
EXTENDS SyncHooks, WellFoundedInduction, TLAPS

---------------------------------------------------------------------------
(* The invariant.                                                          *)

\* What a thread may be calling; TypeOK says less of it.
Calls ==
  {NoCall}
    \union {Call("access", x, None) : x \in Vars}
    \union {Call(op, m, m) : op \in {"lock", "trylock", "destroy", "unlock"}, m \in Locks}
    \union {Call("wait", c, m) : c \in Conds, m \in Mutexes}
    \union {Call(op, c, None) : op \in {"signal", "broadcast"}, c \in Conds}

CallsOK == cur \in [Threads -> Calls]

\* Who sleeps or has been woken waits.
Places == \A t \in Threads : pc[t] \in {"asleep", "woken"} => cur[t].op = "wait"

\* Before it gives a mutex up, and after it has got one, a thread owns it.
Owned ==
  \A t \in Threads :
    /\ pc[t] \in {"before", "call"} /\ cur[t].op \in {"unlock", "wait"}
         => owner[cur[t].m] = t
    /\ pc[t] \in {"gate", "after"} /\ cur[t].op \in {"lock", "wait"}
         => owner[cur[t].m] = t

\* An open section is that of the owner, until the program exits.
OpenIsOwned ==
  ~finished => \A t \in Threads, m \in Mutexes : Open(t, m) => owner[m] = t

\* A thread about to give a mutex up has closed its section.
ClosedEarly ==
  ~finished => \A t \in Threads :
    pc[t] = "call" /\ cur[t].op \in {"unlock", "wait"} /\ cur[t].m \in Mutexes
      => ~Open(t, cur[t].m)

\* When a thread is about to log its acquisition, nobody else's is open.
AloneAfter ==
  \A t, u \in Threads, m \in Mutexes :
    pc[t] = "after" /\ owner[m] = t /\ cur[t].m = m /\ Open(u, m) => u = t

TypeInv == TypeOK /\ CallsOK /\ Places

IInv ==
  /\ TypeInv /\ Owned
  /\ OpenIsOwned /\ ClosedEarly /\ AloneAfter /\ SectionsAreDisjoint

---------------------------------------------------------------------------
(* Sections of a log.                                                      *)

\* Open, of any log.
OpenIn(l, t, m) ==
  \E i \in 1..Len(l) :
    /\ Acquires(l[i], t, m)
    /\ \A j \in (i + 1)..Len(l) : ~Releases(l[j], t, m)

LEMMA OpenIsOpenIn ==
  ASSUME NEW t, NEW m
  PROVE  (Open(t, m) <=> OpenIn(log, t, m)) /\ (Open(t, m)' <=> OpenIn(log', t, m))
BY DEF Open, OpenIn

\* New events open no section if none of them is an acquisition.
LEMMA NotOpened ==
  ASSUME NEW l \in Seq(EventType), NEW es \in Seq(EventType), NEW t, NEW m,
         \A k \in 1..Len(es) : ~Acquires(es[k], t, m),
         OpenIn(l \o es, t, m)
  PROVE  OpenIn(l, t, m)
<1>1. PICK i \in 1..Len(l \o es) :
        /\ Acquires((l \o es)[i], t, m)
        /\ \A j \in (i + 1)..Len(l \o es) : ~Releases((l \o es)[j], t, m)
  BY DEF OpenIn
<1>2. /\ Len(l \o es) = Len(l) + Len(es) /\ Len(l) \in Nat /\ Len(es) \in Nat
      /\ \A k \in 1..Len(l) : (l \o es)[k] = l[k]
      /\ \A k \in 1..(Len(l) + Len(es)) : k > Len(l) => (l \o es)[k] = es[k - Len(l)]
  OBVIOUS
<1>3. i \in 1..Len(l)
  BY <1>1, <1>2
<1> QED
  BY <1>1, <1>2, <1>3 DEF OpenIn

\* A release with no acquisition beside it closes the section.
LEMMA Closed ==
  ASSUME NEW l \in Seq(EventType), NEW es \in Seq(EventType), NEW t, NEW m,
         \A k \in 1..Len(es) : ~Acquires(es[k], t, m),
         NEW r \in 1..Len(es), Releases(es[r], t, m)
  PROVE  ~OpenIn(l \o es, t, m)
<1> SUFFICES ASSUME NEW i \in 1..Len(l \o es), Acquires((l \o es)[i], t, m),
                    \A j \in (i + 1)..Len(l \o es) : ~Releases((l \o es)[j], t, m)
             PROVE  FALSE
  BY DEF OpenIn
<1>1. /\ Len(l \o es) = Len(l) + Len(es) /\ Len(l) \in Nat /\ Len(es) \in Nat
      /\ \A k \in 1..(Len(l) + Len(es)) : k > Len(l) => (l \o es)[k] = es[k - Len(l)]
  OBVIOUS
<1>2. i <= Len(l)
  BY <1>1
<1>3. (l \o es)[Len(l) + r] = es[r]
  BY <1>1
<1> QED
  BY <1>1, <1>2, <1>3

---------------------------------------------------------------------------
(* Calls and what is logged of them.                                       *)

LEMMA CallFacts ==
  ASSUME NEW c \in Calls
  PROVE  /\ c \in CallType
         /\ c.op = "access" => c.obj \in Vars
         /\ c.op \in {"lock", "trylock", "destroy", "unlock"} => c.obj = c.m /\ c.m \in Locks
         /\ c.op = "wait" => c.obj \in Conds /\ c.m \in Mutexes
         /\ c.op \in {"signal", "broadcast"} => c.obj \in Conds
BY DEF Calls, Call, NoCall, CallType, Locks

OpsLogged == AccessOps \union SyncAcqOps \union SyncRelOps \union {"WAIT"}

LEMMA EventFacts ==
  ASSUME NEW op \in OpsLogged, NEW t \in Threads, NEW obj \in Vars \union Mutexes \union Conds
  PROVE  /\ Event(op, t, obj) \in EventType
         /\ Event(op, t, obj).op = op
         /\ Event(op, t, obj).tid = t
         /\ Event(op, t, obj).obj = obj
         /\ Event(op, t, obj).ok <=> op # "TRYLOCK" \/ owner[obj] = t
BY DEF Event, EventType, OpsLogged

LEMMA NotOk ==
  ASSUME NEW e \in EventType
  PROVE  [e EXCEPT !.ok = FALSE] \in EventType /\ [e EXCEPT !.ok = FALSE].ok = FALSE
BY DEF EventType

LEMMA OneEvent ==
  ASSUME NEW e \in EventType, NEW es, es = <<e>>
  PROVE  es \in Seq(EventType) /\ 1 \in 1..Len(es) /\ \A k \in 1..Len(es) : es[k] = e
OBVIOUS

LEMMA TwoEvents ==
  ASSUME NEW d \in EventType, NEW e \in EventType, NEW es, es = <<d, e>>
  PROVE  /\ es \in Seq(EventType) /\ 1 \in 1..Len(es) /\ es[1] = d
         /\ \A k \in 1..Len(es) : es[k] \in {d, e}
OBVIOUS

\* What is logged before a call: no acquisitions; first the release, if there is one.
LEMMA BeforeFacts ==
  ASSUME CallsOK, NEW t \in Threads
  PROVE  /\ BeforeEvents(t) \in Seq(EventType)
         /\ \A k \in 1..Len(BeforeEvents(t)), u \in Threads, m \in Mutexes :
              ~Acquires(BeforeEvents(t)[k], u, m)
         /\ cur[t].op \in {"unlock", "wait"} /\ cur[t].m \in Mutexes
              => 1 \in 1..Len(BeforeEvents(t)) /\ Releases(BeforeEvents(t)[1], t, cur[t].m)
<1> DEFINE c == cur[t]
<1>1. c \in Calls
  BY DEF CallsOK
<1>2. CASE c.op = "access"
  <2>1. BeforeEvents(t) = <<Event("ST", t, c.obj)>>
    BY <1>2 DEF BeforeEvents
  <2>2. Event("ST", t, c.obj) \in EventType /\ Event("ST", t, c.obj).op = "ST"
    <3>1. "ST" \in OpsLogged /\ c.obj \in Vars
      BY <1>1, <1>2, CallFacts DEF AccessOps, OpsLogged
    <3> QED
      BY <3>1, EventFacts
  <2> QED
    BY <1>2, <2>1, <2>2, OneEvent DEF Acquires, SyncAcqOps
<1>3. CASE c.op = "unlock" /\ c.m \in Mutexes
  <2>1. BeforeEvents(t) = <<Event("UNLOCK", t, c.m)>>
    BY <1>3 DEF BeforeEvents
  <2>2. /\ Event("UNLOCK", t, c.m) \in EventType /\ Event("UNLOCK", t, c.m).op = "UNLOCK"
        /\ Releases(Event("UNLOCK", t, c.m), t, c.m)
    <3>1. "UNLOCK" \in OpsLogged
      BY DEF SyncRelOps, OpsLogged
    <3> QED
      BY <1>3, <3>1, EventFacts DEF SyncRelOps, Releases
  <2> QED
    BY <1>3, <2>1, <2>2, OneEvent DEF Acquires, SyncAcqOps
<1>4. CASE c.op = "wait"
  <2>1. BeforeEvents(t) = <<Event("UNLOCK", t, c.m), Event("WAIT", t, c.obj)>>
    BY <1>4 DEF BeforeEvents
  <2>2. /\ Event("UNLOCK", t, c.m) \in EventType /\ Event("UNLOCK", t, c.m).op = "UNLOCK"
        /\ Releases(Event("UNLOCK", t, c.m), t, c.m)
        /\ Event("WAIT", t, c.obj) \in EventType /\ Event("WAIT", t, c.obj).op = "WAIT"
    <3>1. "UNLOCK" \in OpsLogged /\ "WAIT" \in OpsLogged
      BY DEF SyncRelOps, OpsLogged
    <3>2. c.m \in Mutexes /\ c.obj \in Conds
      BY <1>1, <1>4, CallFacts
    <3> QED
      BY <3>1, <3>2, EventFacts DEF SyncRelOps, Releases
  <2> QED
    BY <1>4, <2>1, <2>2, TwoEvents DEF Acquires, SyncAcqOps
<1>5. CASE c.op = "signal"
  <2>1. BeforeEvents(t) = <<Event("SIGNAL", t, c.obj)>>
    BY <1>5 DEF BeforeEvents
  <2>2. Event("SIGNAL", t, c.obj) \in EventType /\ Event("SIGNAL", t, c.obj).op = "SIGNAL"
    <3>1. "SIGNAL" \in OpsLogged /\ c.obj \in Conds
      BY <1>1, <1>5, CallFacts DEF SyncRelOps, OpsLogged
    <3> QED
      BY <3>1, EventFacts
  <2> QED
    BY <1>5, <2>1, <2>2, OneEvent DEF Acquires, SyncAcqOps
<1>6. CASE c.op = "broadcast"
  <2>1. BeforeEvents(t) = <<Event("BROADCAST", t, c.obj)>>
    BY <1>6 DEF BeforeEvents
  <2>2. Event("BROADCAST", t, c.obj) \in EventType /\ Event("BROADCAST", t, c.obj).op = "BROADCAST"
    <3>1. "BROADCAST" \in OpsLogged /\ c.obj \in Conds
      BY <1>1, <1>6, CallFacts DEF SyncRelOps, OpsLogged
    <3> QED
      BY <3>1, EventFacts
  <2> QED
    BY <1>6, <2>1, <2>2, OneEvent DEF Acquires, SyncAcqOps
<1>7. CASE ~(c.op \in {"access", "wait", "signal", "broadcast"} \/ (c.op = "unlock" /\ c.m \in Mutexes))
  <2>1. BeforeEvents(t) = <<>>
    BY <1>7 DEF BeforeEvents
  <2> QED
    BY <1>7, <2>1
<1> QED
  BY <1>2, <1>3, <1>4, <1>5, <1>6, <1>7

\* What is logged after a call: acquisitions only by those that own the mutex
\* or do not look.
LEMMA AfterFacts ==
  ASSUME CallsOK, NEW t \in Threads
  PROVE  /\ AfterEvents(t) \in Seq(EventType)
         /\ \A k \in 1..Len(AfterEvents(t)), u \in Threads, m \in Mutexes :
              Acquires(AfterEvents(t)[k], u, m) =>
                /\ u = t /\ m = cur[t].m
                /\ cur[t].op \in {"lock", "wait"} \/ owner[m] = t
<1> DEFINE c == cur[t]
<1>1. c \in Calls
  BY DEF CallsOK
<1>2. CASE c.op = "lock" /\ c.m \in Mutexes
  <2>1. AfterEvents(t) = <<Event("LOCK", t, c.m)>>
    BY <1>2 DEF AfterEvents
  <2>2. Event("LOCK", t, c.m) \in EventType /\ Event("LOCK", t, c.m).tid = t
          /\ Event("LOCK", t, c.m).obj = c.m
    <3>1. "LOCK" \in OpsLogged
      BY DEF SyncAcqOps, OpsLogged
    <3> QED
      BY <1>2, <3>1, EventFacts
  <2> QED
    BY <1>2, <2>1, <2>2, OneEvent DEF Acquires
<1>3. CASE c.op = "trylock" /\ c.m \in Mutexes
  <2>1. AfterEvents(t) = <<Event("TRYLOCK", t, c.m)>>
    BY <1>3 DEF AfterEvents
  <2>2. Event("TRYLOCK", t, c.m) \in EventType /\ Event("TRYLOCK", t, c.m).tid = t
          /\ Event("TRYLOCK", t, c.m).obj = c.m
          /\ (Event("TRYLOCK", t, c.m).ok => owner[c.m] = t)
    <3>1. "TRYLOCK" \in OpsLogged
      BY DEF SyncAcqOps, OpsLogged
    <3> QED
      BY <1>3, <3>1, EventFacts
  <2> QED
    BY <1>3, <2>1, <2>2, OneEvent DEF Acquires
<1>4. CASE c.op = "destroy" /\ c.m \in Mutexes
  <2>1. PICK e \in EventType : AfterEvents(t) = <<e>> /\ e.ok = FALSE
    <3>1. AfterEvents(t) = <<[Event("LOCK", t, c.m) EXCEPT !.ok = FALSE]>>
      BY <1>4 DEF AfterEvents
    <3>2. "LOCK" \in OpsLogged
      BY DEF SyncAcqOps, OpsLogged
    <3>3. Event("LOCK", t, c.m) \in EventType
      BY <1>4, <3>2, EventFacts
    <3> QED
      BY <3>1, <3>3, NotOk
  <2> QED
    BY <1>4, <2>1, OneEvent DEF Acquires
<1>5. CASE c.op = "wait"
  <2>1. AfterEvents(t) = <<Event("LOCK", t, c.m), Event("AWAKE", t, c.obj)>>
    BY <1>5 DEF AfterEvents
  <2>2. /\ Event("LOCK", t, c.m) \in EventType /\ Event("AWAKE", t, c.obj) \in EventType
        /\ Event("LOCK", t, c.m).tid = t /\ Event("LOCK", t, c.m).obj = c.m
        /\ Event("AWAKE", t, c.obj).tid = t /\ Event("AWAKE", t, c.obj).obj = c.obj
        /\ c.obj \in Conds
    <3>1. "LOCK" \in OpsLogged /\ "AWAKE" \in OpsLogged
      BY DEF SyncAcqOps, OpsLogged
    <3>2. c.m \in Mutexes /\ c.obj \in Conds
      BY <1>1, <1>5, CallFacts
    <3> QED
      BY <3>1, <3>2, EventFacts
  <2> QED
    BY <1>5, <2>1, <2>2, TwoEvents, HooksAssumption DEF Acquires
<1>6. CASE ~(c.op = "wait" \/ (c.op \in {"lock", "trylock", "destroy"} /\ c.m \in Mutexes))
  <2>1. AfterEvents(t) = <<>>
    BY <1>6 DEF AfterEvents
  <2> QED
    BY <1>6, <2>1
<1> QED
  BY <1>2, <1>3, <1>4, <1>5, <1>6

---------------------------------------------------------------------------
(* Types.                                                                  *)

LEMMA TypeInit == Init => TypeInv
<1> SUFFICES ASSUME Init PROVE TypeInv
  OBVIOUS
<1>1. NoCall \in Calls /\ NoCall \in CallType
  BY CallFacts DEF Calls
<1>2. CallsOK /\ Places
  BY <1>1 DEF Init, CallsOK, Places
<1>3. /\ log \in Seq(EventType) /\ real \in Seq(SUBSET Nat)
      /\ owner \in [Locks -> Threads \union {None}]
      /\ cur \in [Threads -> CallType]
  BY <1>1 DEF Init
<1>4. /\ calls \in [Threads -> Nat] /\ finished \in BOOLEAN
      /\ know \in [Threads -> SUBSET Nat] /\ left \in [Locks -> SUBSET Nat]
  BY DEF Init
<1>5. TypeOK
  BY <1>3, <1>4 DEF Init, TypeOK
<1> QED
  BY <1>2, <1>5 DEF TypeInv

\* Legal calls are calls.
LEMMA LegalCalls == ASSUME NEW t \in Threads PROVE Legal(t) \subseteq Calls
BY DEF Legal, Calls, Call

LEMMA WriteType ==
  ASSUME TypeOK, NEW t \in Threads, NEW es \in Seq(EventType), Write(t, es)
  PROVE  /\ log' = log \o es /\ log' \in Seq(EventType)
         /\ real' \in Seq(SUBSET Nat) /\ know' \in [Threads -> SUBSET Nat]
<1>1. log' = log \o es /\ log' \in Seq(EventType)
  BY DEF Write, TypeOK
<1>2. real' \in Seq(SUBSET Nat)
  <2>1. [i \in 1..Len(es) |-> know[t]] \in Seq(SUBSET Nat)
    BY DEF TypeOK
  <2> QED
    BY <2>1 DEF Write, TypeOK
<1>3. know' \in [Threads -> SUBSET Nat]
  <2>1. (Len(log) + 1)..(Len(log) + Len(es)) \subseteq Nat
    BY DEF TypeOK
  <2> QED
    BY <2>1 DEF Write, TypeOK
<1> QED
  BY <1>1, <1>2, <1>3

LEMMA TypeNext == TypeInv /\ [Next]_vars => TypeInv'
<1> SUFFICES ASSUME TypeInv, [Next]_vars PROVE TypeInv'
  OBVIOUS
<1> USE DEF TypeInv
<1> DEFINE PCs == {"idle", "before", "call", "asleep", "woken", "gate", "after"}
<1>0. NoCall \in Calls
  BY DEF Calls
<1>d. CallsOK' => cur' \in [Threads -> CallType]
  BY CallFacts DEF CallsOK
<1>1. ASSUME NEW t \in Threads, Enter(t) PROVE TypeInv'
  <2>1. CallsOK'
    <3>1. PICK c \in Legal(t) : cur' = [cur EXCEPT ![t] = c]
      BY <1>1 DEF Enter
    <3> QED
      BY <3>1, LegalCalls DEF CallsOK
  <2>2. pc' \in [Threads -> PCs] /\ calls' \in [Threads -> Nat]
    BY <1>1 DEF Enter, TypeOK
  <2>3. Places'
    BY <1>1, <2>2 DEF Enter, Places, TypeOK, CallsOK
  <2>4. TypeOK'
    BY <1>1, <1>d, <2>1, <2>2 DEF Enter, TypeOK, realVars
  <2> QED
    BY <2>1, <2>3, <2>4
<1>2. ASSUME NEW t \in Threads, Before(t) PROVE TypeInv'
  <2>1. BeforeEvents(t) \in Seq(EventType)
    BY BeforeFacts
  <2>2. log' \in Seq(EventType) /\ real' \in Seq(SUBSET Nat) /\ know' \in [Threads -> SUBSET Nat]
    BY <1>2, <2>1, WriteType DEF Before
  <2>3. CallsOK' /\ Places' /\ pc' \in [Threads -> PCs]
    BY <1>2 DEF Before, CallsOK, Places, TypeOK
  <2>4. TypeOK'
    BY <1>2, <2>2, <2>3, <1>d DEF Before, TypeOK
  <2> QED
    BY <2>3, <2>4
<1>3. ASSUME NEW t \in Threads, Access(t) \/ Gate(t) PROVE TypeInv'
  <2>1. CallsOK' /\ pc' \in [Threads -> PCs]
    BY <1>0, <1>3 DEF Access, Gate, CallsOK, TypeOK
  <2>2. Places'
    BY <1>3 DEF Access, Gate, CallsOK, Places, TypeOK
  <2>3. TypeOK'
    BY <1>3, <1>d, <2>1 DEF Access, Gate, TypeOK, realVars
  <2> QED
    BY <2>1, <2>2, <2>3
<1>4. ASSUME NEW t \in Threads, Lock(t) PROVE TypeInv'
  <2>1. cur[t] \in Calls /\ cur[t].op \in {"lock", "trylock", "wait"}
    BY <1>4 DEF Lock, CallsOK, Places
  <2>2. cur[t].m \in Locks
    BY <2>1, CallFacts DEF Locks
  <2>3. owner' \in [Locks -> Threads \union {None}] /\ know' \in [Threads -> SUBSET Nat] /\ left' = left
    BY <1>4, <2>2 DEF Lock, Take, TypeOK
  <2>4. CallsOK' /\ Places' /\ pc' \in [Threads -> PCs]
    BY <1>4 DEF Lock, CallsOK, Places, TypeOK
  <2>5. TypeOK'
    BY <1>4, <1>d, <2>3, <2>4 DEF Lock, TypeOK
  <2> QED
    BY <2>4, <2>5
<1>5. ASSUME NEW t \in Threads, TrylockFails(t) \/ Destroy(t) \/ WakeUp(t) PROVE TypeInv'
  <2>1. CallsOK' /\ pc' \in [Threads -> PCs]
    BY <1>5 DEF TrylockFails, Destroy, WakeUp, CallsOK, TypeOK
  <2>2. Places'
    BY <1>5 DEF TrylockFails, Destroy, WakeUp, CallsOK, Places, TypeOK
  <2>3. TypeOK'
    BY <1>5, <1>d, <2>1 DEF TrylockFails, Destroy, WakeUp, TypeOK, realVars
  <2> QED
    BY <2>1, <2>2, <2>3
<1>6. ASSUME NEW t \in Threads, Unlock(t) PROVE TypeInv'
  <2>1. owner' \in [Locks -> Threads \union {None}] /\ left' \in [Locks -> SUBSET Nat] /\ know' = know
    BY <1>6 DEF Unlock, Give, TypeOK
  <2>2. CallsOK' /\ pc' \in [Threads -> PCs]
    BY <1>6 DEF Unlock, CallsOK, TypeOK
  <2>3. Places'
    BY <1>6 DEF Unlock, CallsOK, Places, TypeOK
  <2>4. TypeOK'
    BY <1>6, <1>d, <2>1, <2>2 DEF Unlock, TypeOK
  <2> QED
    BY <2>2, <2>3, <2>4
<1>7. ASSUME NEW t \in Threads, Signal(t) PROVE TypeInv'
  <2> DEFINE waiting == {u \in Threads : pc[u] = "asleep" /\ cur[u].obj = cur[t].obj}
  <2>1. PICK woken \in SUBSET waiting :
          /\ pc' = [u \in Threads |-> IF u \in woken THEN "woken"
                                       ELSE IF u = t THEN "gate" ELSE pc[u]]
          /\ know' = [u \in Threads |-> IF u \in woken THEN know[u] \union know[t]
                                         ELSE know[u]]
    BY <1>7 DEF Signal
  <2>2. pc' \in [Threads -> PCs]
    BY <2>1 DEF TypeOK
  <2>3. know' \in [Threads -> SUBSET Nat]
    BY <2>1 DEF TypeOK
  <2>4. CallsOK'
    BY <1>7 DEF Signal, CallsOK
  <2>5. Places'
    BY <1>7, <2>1 DEF Signal, Places
  <2>6. TypeOK'
    BY <1>7, <1>d, <2>2, <2>3, <2>4 DEF Signal, TypeOK
  <2> QED
    BY <2>4, <2>5, <2>6
<1>8. ASSUME NEW t \in Threads, After(t) PROVE TypeInv'
  <2>1. AfterEvents(t) \in Seq(EventType)
    BY AfterFacts
  <2>2. log' \in Seq(EventType) /\ real' \in Seq(SUBSET Nat) /\ know' \in [Threads -> SUBSET Nat]
    BY <1>8, <2>1, WriteType DEF After
  <2>3. CallsOK' /\ pc' \in [Threads -> PCs]
    BY <1>8, <1>0 DEF After, CallsOK, TypeOK
  <2>4. Places'
    BY <1>8 DEF After, CallsOK, Places, TypeOK
  <2>5. TypeOK'
    BY <1>8, <2>2, <2>3, <1>d DEF After, TypeOK
  <2> QED
    BY <2>3, <2>4, <2>5
<1>9. CASE Exit \/ UNCHANGED vars
  BY <1>9 DEF Exit, vars, realVars, TypeOK, CallsOK, Places
<1> QED
  BY <1>1, <1>2, <1>3, <1>4, <1>5, <1>6, <1>7, <1>8, <1>9 DEF Next, Step

LEMMA TypeInvariance == Spec => []TypeInv
BY TypeInit, TypeNext, PTL DEF Spec

---------------------------------------------------------------------------
(* Sections.                                                               *)

LEMMA InitInv == Init => IInv
<1> SUFFICES ASSUME Init PROVE IInv
  OBVIOUS
<1>1. \A t, m : ~Open(t, m)
  BY DEF Init, Open
<1>2. \A t \in Threads : pc[t] = "idle"
  BY DEF Init
<1>3. Owned /\ OpenIsOwned /\ ClosedEarly /\ AloneAfter /\ SectionsAreDisjoint
  BY <1>1, <1>2 DEF Owned, OpenIsOwned, ClosedEarly, AloneAfter, SectionsAreDisjoint
<1> QED
  BY <1>3, TypeInit DEF IInv

\* A section is open after new events only if it was before or one of them
\* is its acquisition.
LEMMA OpenBefore ==
  ASSUME TypeOK, NEW es \in Seq(EventType), log' = log \o es, NEW t, NEW m,
         \A k \in 1..Len(es) : ~Acquires(es[k], t, m), Open(t, m)'
  PROVE  Open(t, m)
BY NotOpened, OpenIsOpenIn DEF TypeOK

\* The steps that change neither the log nor a lock nor finished, and bring
\* only thread t to another place.
LEMMA QuietStep ==
  ASSUME IInv, TypeInv', NEW t \in Threads, UNCHANGED <<log, owner, finished>>,
         \A u \in Threads \ {t} : pc'[u] = pc[u] /\ cur'[u] = cur[u],
         pc'[t] \in {"before", "call"} /\ cur'[t].op \in {"unlock", "wait"}
           => owner[cur'[t].m] = t,
         pc'[t] \in {"gate", "after"} /\ cur'[t].op \in {"lock", "wait"}
           => owner[cur'[t].m] = t,
         pc'[t] # "call" \/ finished,
         pc'[t] = "after" => ~finished
  PROVE  IInv'
<1>1. \A u, m : Open(u, m)' <=> Open(u, m)
  BY OpenIsOpenIn
<1>2. Owned'
  BY DEF IInv, Owned
<1>3. OpenIsOwned'
  BY <1>1 DEF IInv, OpenIsOwned
<1>4. ClosedEarly'
  BY <1>1 DEF IInv, ClosedEarly
<1>5. AloneAfter'
  <2> SUFFICES ASSUME NEW w \in Threads, NEW u \in Threads, NEW m \in Mutexes,
                      pc'[w] = "after", owner[m] = w, cur'[w].m = m, Open(u, m)
               PROVE  u = w
    BY <1>1 DEF AloneAfter
  <2>1. CASE w = t
    BY <2>1 DEF IInv, OpenIsOwned
  <2>2. CASE w # t
    BY <2>2 DEF IInv, AloneAfter
  <2> QED
    BY <2>1, <2>2
<1>6. SectionsAreDisjoint'
  BY <1>1 DEF IInv, SectionsAreDisjoint
<1> QED
  BY <1>2, <1>3, <1>4, <1>5, <1>6 DEF IInv

LEMMA NextInv == IInv /\ [Next]_vars => IInv'
<1> SUFFICES ASSUME IInv, [Next]_vars PROVE IInv'
  OBVIOUS
<1>t. TypeInv'
  BY TypeNext DEF IInv
<1>f. pc \in [Threads -> {"idle", "before", "call", "asleep", "woken", "gate", "after"}]
      /\ cur \in [Threads -> Calls] /\ owner \in [Locks -> Threads \union {None}]
  BY DEF IInv, TypeInv, TypeOK, CallsOK
<1>g. finished \in BOOLEAN
  BY DEF IInv, TypeInv, TypeOK
<1>1. ASSUME NEW t \in Threads, Enter(t) PROVE IInv'
  <2>1. PICK c \in Legal(t) : cur' = [cur EXCEPT ![t] = c]
    BY <1>1 DEF Enter
  <2>2. c.op \in {"unlock", "wait"} => owner[c.m] = t
    BY <2>1 DEF Legal, Call
  <2>3. \A u \in Threads \ {t} : pc'[u] = pc[u] /\ cur'[u] = cur[u]
    BY <1>1, <1>f, <2>1 DEF Enter
  <2>4. cur'[t] = c /\ pc'[t] = IF finished THEN "call" ELSE "before"
    BY <1>1, <1>f, <2>1 DEF Enter
  <2>5. UNCHANGED <<log, owner, finished>>
    BY <1>1 DEF Enter
  <2> QED
    BY <1>t, <2>2, <2>3, <2>4, <2>5, QuietStep
<1>2. ASSUME NEW t \in Threads, Before(t) PROVE IInv'
  <2> DEFINE es == BeforeEvents(t)
  <2>1. /\ es \in Seq(EventType) /\ log' = log \o es
        /\ \A k \in 1..Len(es), u \in Threads, m \in Mutexes : ~Acquires(es[k], u, m)
    BY <1>2, BeforeFacts, WriteType DEF Before, IInv, TypeInv
  <2>2. \A u \in Threads, m \in Mutexes : Open(u, m)' => Open(u, m)
    BY <2>1, OpenBefore DEF IInv, TypeInv
  <2>3. UNCHANGED <<owner, cur, finished>> /\ pc[t] = "before" /\ pc' = [pc EXCEPT ![t] = "call"]
    BY <1>2 DEF Before
  <2>4. pc'[t] = "call" /\ \A u \in Threads \ {t} : pc'[u] = pc[u]
    BY <2>3, <1>f
  <2>5. Owned'
    BY <2>3, <2>4 DEF IInv, Owned
  <2>6. OpenIsOwned'
    BY <2>2, <2>3 DEF IInv, OpenIsOwned
  <2>7. cur[t].op \in {"unlock", "wait"} /\ cur[t].m \in Mutexes => ~Open(t, cur[t].m)'
    <3> SUFFICES ASSUME cur[t].op \in {"unlock", "wait"} /\ cur[t].m \in Mutexes
                 PROVE  ~Open(t, cur[t].m)'
      OBVIOUS
    <3> DEFINE m == cur[t].m
    <3>1. 1 \in 1..Len(es) /\ Releases(es[1], t, m)
      BY BeforeFacts DEF IInv, TypeInv
    <3>2. ~OpenIn(log \o es, t, m)
      BY <2>1, <3>1, Closed DEF IInv, TypeInv, TypeOK
    <3>3. ~OpenIn(log', t, m)
      BY <2>1, <3>2
    <3>4. cur'[t] = cur[t]
      BY <2>3
    <3> QED
      BY <3>3, <3>4 DEF Open, OpenIn
  <2>8. ClosedEarly'
    BY <2>2, <2>3, <2>4, <2>7 DEF IInv, ClosedEarly
  <2>9. AloneAfter'
    BY <2>2, <2>3, <2>4 DEF IInv, AloneAfter
  <2>10. SectionsAreDisjoint'
    BY <2>2 DEF IInv, SectionsAreDisjoint
  <2> QED
    BY <1>t, <2>5, <2>6, <2>8, <2>9, <2>10 DEF IInv
<1>3. ASSUME NEW t \in Threads, Access(t) \/ TrylockFails(t) \/ Destroy(t) \/ WakeUp(t) \/ Gate(t)
      PROVE IInv'
  <2>1. UNCHANGED <<log, owner, finished>>
    BY <1>3 DEF Access, TrylockFails, Destroy, WakeUp, Gate, realVars
  <2>2. \A u \in Threads \ {t} : pc'[u] = pc[u] /\ cur'[u] = cur[u]
    BY <1>3, <1>f DEF Access, TrylockFails, Destroy, WakeUp, Gate
  <2>3. \/ pc'[t] \in {"idle", "woken"}
        \/ pc'[t] = "gate" /\ cur'[t].op \in {"trylock", "destroy"}
        \/ pc[t] = "gate" /\ pc'[t] = "after" /\ cur'[t] = cur[t] /\ ~finished
    BY <1>3, <1>f DEF Access, TrylockFails, Destroy, WakeUp, Gate
  <2>4. pc'[t] \in {"gate", "after"} /\ cur'[t].op \in {"lock", "wait"} => owner[cur'[t].m] = t
    BY <2>3 DEF IInv, Owned
  <2> QED
    BY <1>t, <2>1, <2>2, <2>3, <2>4, QuietStep
<1>4. ASSUME NEW t \in Threads, Lock(t) PROVE IInv'
  <2> DEFINE n == cur[t].m
  <2>1. /\ UNCHANGED <<log, cur, finished>>
        /\ owner[n] = None /\ owner' = [owner EXCEPT ![n] = t]
        /\ pc' = [pc EXCEPT ![t] = "gate"]
    BY <1>4 DEF Lock, Take
  <2>2. n \in Locks
    BY <1>4, <1>f, CallFacts DEF Lock, IInv, TypeInv, Places, Locks
  <2>3. pc'[t] = "gate" /\ \A u \in Threads \ {t} : pc'[u] = pc[u]
    BY <2>1, <1>f
  <2>4. owner'[n] = t /\ \A m \in Locks : m # n => owner'[m] = owner[m]
    BY <2>1, <2>2, <1>f
  <2>5. \A u, m : Open(u, m)' <=> Open(u, m)
    BY <2>1, OpenIsOpenIn
  <2>6. \A u \in Threads : cur[u].op \in {"lock", "wait", "unlock"} => cur[u].m \in Locks
    BY <1>f, CallFacts DEF Locks
  <2>7. Owned'
    BY <2>1, <2>3, <2>4, <2>6, HooksAssumption DEF IInv, Owned
  <2>8. \A m \in Mutexes : m \in Locks
    BY DEF Locks
  <2>9. OpenIsOwned'
    BY <2>1, <2>4, <2>5, <2>8, HooksAssumption DEF IInv, OpenIsOwned
  <2>10. ClosedEarly'
    BY <2>1, <2>3, <2>5 DEF IInv, ClosedEarly
  <2>11. AloneAfter'
    BY <2>1, <2>3, <2>4, <2>5, <2>8 DEF IInv, AloneAfter
  <2>12. SectionsAreDisjoint'
    BY <2>5 DEF IInv, SectionsAreDisjoint
  <2> QED
    BY <1>t, <2>7, <2>9, <2>10, <2>11, <2>12 DEF IInv
<1>5. ASSUME NEW t \in Threads, Unlock(t) PROVE IInv'
  <2> DEFINE n == cur[t].m
  <2>1. /\ UNCHANGED <<log, cur, finished>>
        /\ owner' = [owner EXCEPT ![n] = None]
        /\ pc[t] = "call" /\ cur[t].op \in {"unlock", "wait"} /\ owner[n] = t
        /\ pc' = [pc EXCEPT ![t] = IF cur[t].op = "wait" THEN "asleep" ELSE "gate"]
    BY <1>5 DEF Unlock, Give, IInv, Owned
  <2>2. n \in Locks
    BY <2>1, <1>f, CallFacts DEF Locks
  <2>3. /\ pc'[t] = "asleep" \/ (pc'[t] = "gate" /\ cur[t].op = "unlock")
        /\ \A u \in Threads \ {t} : pc'[u] = pc[u]
    BY <2>1, <1>f
  <2>4. owner'[n] = None /\ \A m \in Locks : m # n => owner'[m] = owner[m]
    BY <2>1, <2>2, <1>f
  <2>5. \A u, m : Open(u, m)' <=> Open(u, m)
    BY <2>1, OpenIsOpenIn
  <2>6. \A u \in Threads : cur[u].op \in {"lock", "wait", "unlock"} => cur[u].m \in Locks
    BY <1>f, CallFacts DEF Locks
  <2>7. Owned'
    BY <2>1, <2>3, <2>4, <2>6 DEF IInv, Owned
  <2>8. \A m \in Mutexes : m \in Locks
    BY DEF Locks
  <2>9. OpenIsOwned'
    BY <2>1, <2>4, <2>5, <2>8 DEF IInv, OpenIsOwned, ClosedEarly
  <2>10. ClosedEarly'
    BY <2>1, <2>3, <2>5 DEF IInv, ClosedEarly
  <2>11. AloneAfter'
    BY <2>1, <2>3, <2>4, <2>5, <2>8, HooksAssumption DEF IInv, AloneAfter
  <2>12. SectionsAreDisjoint'
    BY <2>5 DEF IInv, SectionsAreDisjoint
  <2> QED
    BY <1>t, <2>7, <2>9, <2>10, <2>11, <2>12 DEF IInv
<1>6. ASSUME NEW t \in Threads, Signal(t) PROVE IInv'
  <2>1. UNCHANGED <<log, owner, cur, finished>> /\ cur[t].op \in {"signal", "broadcast"}
    BY <1>6 DEF Signal
  <2>2. \A u \in Threads : pc'[u] \in {pc[u], "woken"} \/ (u = t /\ pc'[u] = "gate")
    BY <1>6 DEF Signal
  <2>3. \A u, m : Open(u, m)' <=> Open(u, m)
    BY <2>1, OpenIsOpenIn
  <2>4. Owned'
    BY <2>1, <2>2 DEF IInv, Owned
  <2>5. OpenIsOwned' /\ SectionsAreDisjoint'
    BY <2>1, <2>3 DEF IInv, OpenIsOwned, SectionsAreDisjoint
  <2>6. ClosedEarly'
    BY <2>1, <2>2, <2>3 DEF IInv, ClosedEarly
  <2>7. AloneAfter'
    BY <2>1, <2>2, <2>3 DEF IInv, AloneAfter
  <2> QED
    BY <1>t, <2>4, <2>5, <2>6, <2>7 DEF IInv
<1>7. ASSUME NEW t \in Threads, After(t) PROVE IInv'
  <2> DEFINE es == AfterEvents(t)
  <2>1. es \in Seq(EventType) /\ log' = log \o es
    BY <1>7, AfterFacts, WriteType DEF After, IInv, TypeInv
  <2>2. /\ UNCHANGED <<owner, finished>> /\ pc[t] = "after"
        /\ pc' = [pc EXCEPT ![t] = "idle"] /\ cur' = [cur EXCEPT ![t] = NoCall]
    BY <1>7 DEF After
  <2>3. pc'[t] = "idle" /\ \A u \in Threads \ {t} : pc'[u] = pc[u] /\ cur'[u] = cur[u]
    BY <2>2, <1>f
  <2>4. \A u \in Threads, m \in Mutexes :
          Open(u, m)' => Open(u, m) \/ (u = t /\ m = cur[t].m /\ owner[m] = t)
    <3> SUFFICES ASSUME NEW u \in Threads, NEW m \in Mutexes, Open(u, m)',
                        ~(u = t /\ m = cur[t].m /\ owner[m] = t)
                 PROVE  Open(u, m)
      OBVIOUS
    <3>1. \A k \in 1..Len(es) : ~Acquires(es[k], u, m)
      BY <2>2, AfterFacts DEF IInv, TypeInv, Owned
    <3> QED
      BY <2>1, <3>1, OpenBefore DEF IInv, TypeInv
  <2>5. Owned'
    BY <2>2, <2>3 DEF IInv, Owned
  <2>6. OpenIsOwned'
    BY <2>2, <2>4 DEF IInv, OpenIsOwned
  <2>7. ClosedEarly'
    BY <2>2, <2>3, <2>4 DEF IInv, ClosedEarly
  <2>8. AloneAfter'
    BY <2>2, <2>3, <2>4 DEF IInv, AloneAfter
  <2>9. SectionsAreDisjoint'
    BY <2>2, <2>4 DEF IInv, AloneAfter, SectionsAreDisjoint
  <2> QED
    BY <1>t, <2>5, <2>6, <2>7, <2>8, <2>9 DEF IInv
<1>8. CASE Exit \/ UNCHANGED vars
  <2>1. UNCHANGED <<log, owner, pc, cur>> /\ finished' \in {finished, TRUE}
    BY <1>8 DEF Exit, vars
  <2>2. \A u, m : Open(u, m)' <=> Open(u, m)
    BY <2>1, OpenIsOpenIn
  <2>3. Owned' /\ AloneAfter' /\ SectionsAreDisjoint'
    BY <2>1, <2>2 DEF IInv, Owned, AloneAfter, SectionsAreDisjoint
  <2>4. OpenIsOwned' /\ ClosedEarly'
    BY <1>g, <2>1, <2>2 DEF IInv, OpenIsOwned, ClosedEarly
  <2> QED
    BY <1>t, <2>3, <2>4 DEF IInv
<1> QED
  BY <1>1, <1>2, <1>3, <1>4, <1>5, <1>6, <1>7, <1>8 DEF Next, Step

\* The log, the mutexes and the wrappers stay in their types, whatever the
\* programs of the threads and wherever the program exits.
THEOREM TypeCorrect == Spec => []TypeOK
BY TypeInvariance, PTL DEF TypeInv

\* The critical sections in the log of a mutex do not overlap, for any number
\* of threads and calls: not after waits, failed trylocks or an exit in the
\* middle of a wrapper either.
THEOREM SectionsDisjoint == Spec => []SectionsAreDisjoint
BY InitInv, NextInv, PTL DEF Spec, IInv

\* As long as nobody has called exit, a section that is open in the log is
\* that of the thread that owns the mutex.
THEOREM OpenSectionsAreOwned == Spec => []OpenIsOwned
BY InitInv, NextInv, PTL DEF Spec, IInv

---------------------------------------------------------------------------
(* What Pasts computes.  It chooses a function that satisfies an equation; *)
(* that there is one, and only one, needs an induction on the positions,   *)
(* which is by the least position where it fails.                          *)

\* Every nonempty set of naturals has a least element.
LEMMA LeastNatural ==
  ASSUME NEW T \in SUBSET Nat, T # {}
  PROVE  \E x \in T : \A y \in T : x <= y
<1> DEFINE R == {ss \in Nat \X Nat : ss[1] < ss[2]}
<1>1. IsWellFoundedOn(R, Nat)
  BY NatLessThanWellFounded DEF OpToRel
<1>2. PICK x \in T : \A y \in T : ~ (<<y, x>> \in R)
  <2> HIDE DEF R
  <2> QED BY <1>1, WFMin
<1>3. \A y \in T : ~ (y < x)
  <2> SUFFICES ASSUME NEW y \in T, y < x PROVE FALSE
    OBVIOUS
  <2>1. <<y, x>> \in Nat \X Nat /\ <<y, x>>[1] = y /\ <<y, x>>[2] = x
    OBVIOUS
  <2> QED BY <1>2, <2>1
<1>4. x \in Nat /\ \A y \in T : y \in Nat
  OBVIOUS
<1> QED BY <1>3, <1>4

\* p gives for each of n positions those in the transitive closure of dir.
Closes(p, dir, n) == \A j \in 1..n : p[j] = dir[j] \union UNION {p[i] : i \in dir[j]}
Backward(dir, n) == \A j \in 1..n : dir[j] \subseteq 1..(j - 1)

\* Two functions that both close dir agree.
LEMMA ClosureUnique ==
  ASSUME NEW n \in Nat, NEW dir, Backward(dir, n), NEW p, NEW q,
         Closes(p, dir, n), Closes(q, dir, n)
  PROVE  \A j \in 1..n : p[j] = q[j]
<1> DEFINE T == {j \in 1..n : p[j] # q[j]}
<1> SUFFICES ASSUME T # {} PROVE FALSE
  OBVIOUS
<1>1. PICK j \in T : \A k \in T : j <= k
  <2>1. T \in SUBSET Nat
    OBVIOUS
  <2> HIDE DEF T
  <2> QED
    BY <2>1, LeastNatural
<1>2. j \in 1..n /\ p[j] # q[j]
  OBVIOUS
<1>3. \A i \in dir[j] : i \in 1..n /\ i < j
  BY <1>2 DEF Backward
<1>4. \A i \in dir[j] : p[i] = q[i]
  BY <1>1, <1>2, <1>3
<1>5. {p[i] : i \in dir[j]} = {q[i] : i \in dir[j]}
  BY <1>4
<1> QED
  BY <1>2, <1>5 DEF Closes

\* There is a function that closes dir.
LEMMA ClosureExists ==
  ASSUME NEW N \in Nat, NEW dir, Backward(dir, N)
  PROVE  \E p : p = [j \in 1..N |-> dir[j] \union UNION {p[i] : i \in dir[j]}]
<1> DEFINE Has(n) == \E p : DOMAIN p = 1..n /\ Closes(p, dir, n)
           T == {n \in 0..N : ~Has(n)}
<1>1. T = {}
  <2> SUFFICES ASSUME T # {} PROVE FALSE
    OBVIOUS
  <2>1. PICK n \in T : \A k \in T : n <= k
    <3>1. T \in SUBSET Nat
      OBVIOUS
    <3> HIDE DEF T
    <3> QED
      BY <3>1, LeastNatural
  <2>2. n \in 0..N /\ ~Has(n)
    OBVIOUS
  <2>3. n # 0
    <3> SUFFICES ASSUME n = 0 PROVE Has(n)
      BY <2>2
    <3>1. DOMAIN [j \in 1..0 |-> {}] = 1..0 /\ Closes([j \in 1..0 |-> {}], dir, 0)
      BY DEF Closes
    <3> QED
      BY <3>1
  <2>4. n - 1 \in 0..N /\ n - 1 < n /\ n \in 1..N
    BY <2>2, <2>3
  <2>5. Has(n - 1)
    <3>1. n - 1 \notin T
      BY <2>1, <2>4
    <3> QED
      BY <2>4, <3>1
  <2>6. PICK p : DOMAIN p = 1..(n - 1) /\ Closes(p, dir, n - 1)
    BY <2>5
  <2> DEFINE last == dir[n] \union UNION {p[i] : i \in dir[n]}
             q == [j \in 1..n |-> IF j = n THEN last ELSE p[j]]
  <2>7. \A j \in 1..n : \A i \in dir[j] : q[i] = p[i]
    <3> SUFFICES ASSUME NEW j \in 1..n, NEW i \in dir[j] PROVE q[i] = p[i]
      OBVIOUS
    <3>1. i \in 1..(j - 1)
      BY <2>4 DEF Backward
    <3>2. i \in 1..n /\ i # n
      BY <2>4, <3>1
    <3> QED
      BY <3>2
  <2>8. \A j \in 1..n : q[j] = dir[j] \union UNION {q[i] : i \in dir[j]}
    <3> SUFFICES ASSUME NEW j \in 1..n
                 PROVE  q[j] = dir[j] \union UNION {q[i] : i \in dir[j]}
      OBVIOUS
    <3>1. {q[i] : i \in dir[j]} = {p[i] : i \in dir[j]}
      <4> HIDE DEF q
      <4> QED
        BY <2>7
    <3>2. q[j] = dir[j] \union UNION {p[i] : i \in dir[j]}
      <4>1. CASE j = n
        BY <4>1
      <4>2. CASE j # n
        <5>1. j \in 1..(n - 1)
          BY <2>4, <4>2
        <5>2. q[j] = p[j]
          BY <4>2
        <5> HIDE DEF q
        <5> QED
          BY <2>6, <5>1, <5>2 DEF Closes
      <4> QED
        BY <4>1, <4>2
    <3> HIDE DEF q
    <3> QED
      BY <3>1, <3>2
  <2>9. DOMAIN q = 1..n
    OBVIOUS
  <2> HIDE DEF q
  <2>10. Has(n)
    BY <2>8, <2>9 DEF Closes
  <2> QED
    BY <2>2, <2>10
<1>2. Has(N)
  BY <1>1
<1>3. PICK p0 : DOMAIN p0 = 1..N /\ Closes(p0, dir, N)
  BY <1>2
<1> DEFINE p == [j \in 1..N |-> p0[j]]
<1>4. \A j \in 1..N : p[j] = dir[j] \union UNION {p[i] : i \in dir[j]}
  <2> SUFFICES ASSUME NEW j \in 1..N
               PROVE  p[j] = dir[j] \union UNION {p[i] : i \in dir[j]}
    OBVIOUS
  <2>1. \A i \in dir[j] : i \in 1..N
    BY DEF Backward
  <2>2. {p[i] : i \in dir[j]} = {p0[i] : i \in dir[j]}
    BY <2>1
  <2> QED
    BY <1>3, <2>2 DEF Closes
<1>5. p = [j \in 1..N |-> p[j]]
  OBVIOUS
<1> HIDE DEF p
<1>6. p = [j \in 1..N |-> dir[j] \union UNION {p[i] : i \in dir[j]}]
  BY <1>4, <1>5
<1> QED
  BY <1>6

\* The closure stays within what contains dir and is closed.
LEMMA ClosureBound ==
  ASSUME NEW n \in Nat, NEW dir, Backward(dir, n), NEW p, Closes(p, dir, n), NEW r,
         \A j \in 1..n : \A i \in dir[j] : i \in r[j] /\ r[i] \subseteq r[j]
  PROVE  \A j \in 1..n : p[j] \subseteq r[j]
<1> DEFINE T == {j \in 1..n : ~(p[j] \subseteq r[j])}
<1> SUFFICES ASSUME T # {} PROVE FALSE
  OBVIOUS
<1>1. PICK j \in T : \A k \in T : j <= k
  <2>1. T \in SUBSET Nat
    OBVIOUS
  <2> HIDE DEF T
  <2> QED
    BY <2>1, LeastNatural
<1>2. j \in 1..n /\ ~(p[j] \subseteq r[j])
  OBVIOUS
<1>3. \A i \in dir[j] : i \in 1..n /\ i < j
  BY <1>2 DEF Backward
<1>4. \A i \in dir[j] : p[i] \subseteq r[i]
  BY <1>1, <1>2, <1>3
<1>5. p[j] = dir[j] \union UNION {p[i] : i \in dir[j]}
  BY <1>2 DEF Closes
<1> QED
  BY <1>2, <1>4, <1>5


DirectOf(tr) == [j \in 1..Len(tr) |-> {i \in 1..(j - 1) : Precedes(tr[i], tr[j])}]
MutexDirectOf(tr) == [j \in 1..Len(tr) |-> {i \in 1..(j - 1) : MutexPrecedes(tr[i], tr[j])}]

\* Pasts is the closure of the direct steps before each position.
LEMMA PastsClose ==
  ASSUME NEW tr, Len(tr) \in Nat
  PROVE  /\ Backward(DirectOf(tr), Len(tr))
         /\ Closes(Pasts(tr, Precedes), DirectOf(tr), Len(tr))
<1> DEFINE n == Len(tr)
           IsPasts(p) == p = [j \in 1..n |->
                               LET direct == {i \in 1..(j - 1) : Precedes(tr[i], tr[j])}
                               IN  direct \union UNION {p[i] : i \in direct}]
<1>1. Backward(DirectOf(tr), n)
  BY DEF Backward, DirectOf
<1>2. \E p : p = [j \in 1..n |-> DirectOf(tr)[j] \union UNION {p[i] : i \in DirectOf(tr)[j]}]
  BY <1>1, ClosureExists
<1>3. \E p : IsPasts(p)
  BY <1>2 DEF DirectOf
<1>4. Pasts(tr, Precedes) = CHOOSE p : IsPasts(p)
  BY DEF Pasts
<1>5. IsPasts(Pasts(tr, Precedes))
  <2> HIDE DEF IsPasts
  <2> QED
    BY <1>3, <1>4
<1> DEFINE P == Pasts(tr, Precedes)
<1>6. IsPasts(P)
  BY <1>5
<1> HIDE DEF P
<1>7. Closes(P, DirectOf(tr), n)
  BY <1>6 DEF Closes, DirectOf
<1> QED
  BY <1>1, <1>7 DEF P

\* The same for the order of mutexes alone.
LEMMA MutexPastsClose ==
  ASSUME NEW tr, Len(tr) \in Nat
  PROVE  /\ Backward(MutexDirectOf(tr), Len(tr))
         /\ Closes(Pasts(tr, MutexPrecedes), MutexDirectOf(tr), Len(tr))
<1> DEFINE n == Len(tr)
           IsPasts(p) == p = [j \in 1..n |->
                               LET direct == {i \in 1..(j - 1) : MutexPrecedes(tr[i], tr[j])}
                               IN  direct \union UNION {p[i] : i \in direct}]
<1>1. Backward(MutexDirectOf(tr), n)
  BY DEF Backward, MutexDirectOf
<1>2. \E p : p = [j \in 1..n |-> MutexDirectOf(tr)[j] \union UNION {p[i] : i \in MutexDirectOf(tr)[j]}]
  BY <1>1, ClosureExists
<1>3. \E p : IsPasts(p)
  BY <1>2 DEF MutexDirectOf
<1>4. Pasts(tr, MutexPrecedes) = CHOOSE p : IsPasts(p)
  BY DEF Pasts
<1>5. IsPasts(Pasts(tr, MutexPrecedes))
  <2> HIDE DEF IsPasts
  <2> QED
    BY <1>3, <1>4
<1> DEFINE P == Pasts(tr, MutexPrecedes)
<1>6. IsPasts(P)
  BY <1>5
<1> HIDE DEF P
<1>7. Closes(P, MutexDirectOf(tr), n)
  BY <1>6 DEF Closes, MutexDirectOf
<1> QED
  BY <1>1, <1>7 DEF P

---------------------------------------------------------------------------
(* The invariant of LoggedOrderIsReal.                                     *)

\* What a thread knows is of the log, its own events among it, and with an
\* event it knows what that event came after.
IsClosed(S) == S \subseteq 1..Len(log) /\ \A i \in S : real[i] \subseteq S

KnowledgeIsClosed ==
  /\ Len(real) = Len(log)
  /\ \A j \in 1..Len(log) : real[j] \subseteq 1..(j - 1) /\ IsClosed(real[j])
  /\ \A t \in Threads : IsClosed(know[t])
  /\ \A m \in Locks : IsClosed(left[m])
  /\ \A i \in 1..Len(log) : i \in know[log[i].tid]

\* Who holds a mutex knows the releases of it in the log; if nobody does, the
\* next one to take it will.
ReleasesAreKnown ==
  \A i \in 1..Len(log), m \in Mutexes : log[i].op = "UNLOCK" /\ log[i].obj = m =>
    IF owner[m] = None THEN i \in left[m] ELSE i \in know[owner[m]]

\* The direct steps of the order of mutexes are real.
DirectIsReal ==
  \A j \in 1..Len(log) : \A i \in 1..(j - 1) : MutexPrecedes(log[i], log[j]) => i \in real[j]

RealInv == KnowledgeIsClosed /\ ReleasesAreKnown /\ DirectIsReal

---------------------------------------------------------------------------
(* The invariant of RealOrderIsLogged.                                     *)

Past == Pasts(log, Precedes)

Accesses == {i \in 1..Len(log) : log[i].op \in AccessOps}

\* What is in the past of the next event of a thread; of the next acquisition
\* of a mutex or awakening from a condition variable.
EventsOf(t) == {i \in 1..Len(log) : log[i].tid = t}
ReleasesOf(x) == {i \in 1..Len(log) : log[i].op \in SyncRelOps /\ log[i].obj = x}
Seen(t) == EventsOf(t) \union UNION {Past[i] : i \in EventsOf(t)}
Released(x) == UNION {Past[i] : i \in ReleasesOf(x)}

\* What thread t will log an acquisition of after its call.
Awaited(t) ==
  {x \in Conds : x = cur[t].obj /\
     (pc[t] = "woken" \/ (pc[t] \in {"gate", "after"} /\ cur[t].op = "wait"))}
  \union {x \in Mutexes : x = cur[t].m /\
            pc[t] \in {"gate", "after"} /\ cur[t].op \in {"lock", "trylock", "wait"}}
Due(t) == UNION {Released(x) : x \in Awaited(t)}

\* What it has logged a release of before its call.
Passed(t) ==
  {x \in Mutexes : x = cur[t].m /\ pc[t] = "call" /\ cur[t].op \in {"unlock", "wait"}}
  \union {x \in Conds : x = cur[t].obj /\ pc[t] = "call" /\ cur[t].op \in {"signal", "broadcast"}}

\* What a thread knows of the log shows, or will when it has logged its call:
\* until the program exits, and after that for the accesses whose hook has
\* passed the gate.
ThreadsAreShown ==
  \A t \in Threads : pc[t] = "before" \/ ~finished =>
    know[t] \intersect Accesses \subseteq Seen(t) \union Due(t)

\* What the next holder of a mutex will know, the log will show.
LeftIsShown == ~finished => \A m \in Mutexes : left[m] \intersect Accesses \subseteq Released(m)

\* What a thread is about to pass on it has logged a release for.
ReleasesAreShown ==
  ~finished => \A t \in Threads : \A x \in Passed(t) :
    know[t] \intersect Accesses \subseteq Released(x)

LoggedInv == ThreadsAreShown /\ LeftIsShown /\ ReleasesAreShown /\ RealOrderIsLogged

---------------------------------------------------------------------------
(* What is logged, and who knows of it.                                    *)

\* The events before a call, in detail.
LEMMA BeforeShape ==
  ASSUME CallsOK, NEW t \in Threads
  PROVE  /\ \A k \in 1..Len(BeforeEvents(t)) :
              /\ BeforeEvents(t)[k].tid = t
              /\ BeforeEvents(t)[k].op \notin SyncAcqOps
              /\ BeforeEvents(t)[k].op \in AccessOps => cur[t].op = "access"
              /\ BeforeEvents(t)[k].op = "UNLOCK" =>
                   /\ cur[t].op \in {"unlock", "wait"} /\ cur[t].m \in Mutexes
                   /\ BeforeEvents(t)[k].obj = cur[t].m
         /\ cur[t].op \in {"unlock", "wait"} /\ cur[t].m \in Mutexes =>
              /\ 1 \in 1..Len(BeforeEvents(t))
              /\ BeforeEvents(t)[1].op \in SyncRelOps /\ BeforeEvents(t)[1].obj = cur[t].m
         /\ cur[t].op \in {"signal", "broadcast"} =>
              /\ 1 \in 1..Len(BeforeEvents(t))
              /\ BeforeEvents(t)[1].op \in SyncRelOps /\ BeforeEvents(t)[1].obj = cur[t].obj
<1> DEFINE c == cur[t]
<1>1. c \in Calls
  BY DEF CallsOK
<1>o. /\ {"ST", "UNLOCK", "WAIT", "SIGNAL", "BROADCAST"} \subseteq OpsLogged
      /\ {"UNLOCK", "SIGNAL", "BROADCAST"} \subseteq SyncRelOps
      /\ {"ST", "UNLOCK", "WAIT", "SIGNAL", "BROADCAST"} \intersect SyncAcqOps = {}
      /\ {"UNLOCK", "WAIT", "SIGNAL", "BROADCAST"} \intersect AccessOps = {}
  BY DEF OpsLogged, AccessOps, SyncRelOps, SyncAcqOps
<1>2. CASE c.op = "access"
  <2>1. BeforeEvents(t) = <<Event("ST", t, c.obj)>>
    BY <1>2 DEF BeforeEvents
  <2>2. /\ Event("ST", t, c.obj) \in EventType /\ Event("ST", t, c.obj).op = "ST"
        /\ Event("ST", t, c.obj).tid = t
    <3>1. "ST" \in OpsLogged /\ c.obj \in Vars
      BY <1>o, <1>1, <1>2, CallFacts
    <3> QED
      BY <3>1, EventFacts
  <2>3. \A k \in 1..Len(BeforeEvents(t)) : BeforeEvents(t)[k] = Event("ST", t, c.obj)
    BY <2>1, <2>2, OneEvent
  <2> QED
    BY <1>o, <1>2, <2>2, <2>3
<1>3. CASE c.op = "unlock" /\ c.m \in Mutexes
  <2>1. BeforeEvents(t) = <<Event("UNLOCK", t, c.m)>>
    BY <1>3 DEF BeforeEvents
  <2>2. /\ Event("UNLOCK", t, c.m) \in EventType /\ Event("UNLOCK", t, c.m).op = "UNLOCK"
        /\ Event("UNLOCK", t, c.m).tid = t /\ Event("UNLOCK", t, c.m).obj = c.m
    BY <1>o, <1>3, EventFacts
  <2>3. /\ 1 \in 1..Len(BeforeEvents(t))
        /\ \A k \in 1..Len(BeforeEvents(t)) : BeforeEvents(t)[k] = Event("UNLOCK", t, c.m)
    BY <2>1, <2>2, OneEvent
  <2> QED
    BY <1>o, <1>3, <2>2, <2>3
<1>4. CASE c.op = "wait"
  <2>0. c.m \in Mutexes /\ c.obj \in Conds
    BY <1>1, <1>4, CallFacts
  <2>1. BeforeEvents(t) = <<Event("UNLOCK", t, c.m), Event("WAIT", t, c.obj)>>
    BY <1>4 DEF BeforeEvents
  <2>2. /\ Event("UNLOCK", t, c.m) \in EventType /\ Event("UNLOCK", t, c.m).op = "UNLOCK"
        /\ Event("UNLOCK", t, c.m).tid = t /\ Event("UNLOCK", t, c.m).obj = c.m
        /\ Event("WAIT", t, c.obj) \in EventType /\ Event("WAIT", t, c.obj).op = "WAIT"
        /\ Event("WAIT", t, c.obj).tid = t
    BY <1>o, <2>0, EventFacts
  <2>3. /\ 1 \in 1..Len(BeforeEvents(t)) /\ BeforeEvents(t)[1] = Event("UNLOCK", t, c.m)
        /\ \A k \in 1..Len(BeforeEvents(t)) :
             BeforeEvents(t)[k] \in {Event("UNLOCK", t, c.m), Event("WAIT", t, c.obj)}
    BY <2>1, <2>2, TwoEvents
  <2> QED
    BY <1>o, <1>4, <2>0, <2>2, <2>3
<1>5. ASSUME NEW op \in {"SIGNAL", "BROADCAST"}, c.op \in {"signal", "broadcast"},
             BeforeEvents(t) = <<Event(op, t, c.obj)>>
      PROVE  /\ 1 \in 1..Len(BeforeEvents(t))
             /\ \A k \in 1..Len(BeforeEvents(t)) :
                  /\ BeforeEvents(t)[k].op = op /\ BeforeEvents(t)[k].tid = t
                  /\ BeforeEvents(t)[k].obj = c.obj
  <2>1. op \in OpsLogged /\ c.obj \in Conds
    BY <1>o, <1>1, <1>5, CallFacts
  <2>2. /\ Event(op, t, c.obj) \in EventType /\ Event(op, t, c.obj).op = op
        /\ Event(op, t, c.obj).tid = t /\ Event(op, t, c.obj).obj = c.obj
    BY <2>1, EventFacts
  <2> QED
    BY <1>5, <2>2, OneEvent
<1>6. CASE c.op = "signal"
  <2>1. BeforeEvents(t) = <<Event("SIGNAL", t, c.obj)>>
    BY <1>6 DEF BeforeEvents
  <2> QED
    BY <1>o, <1>5, <1>6, <2>1
<1>7. CASE c.op = "broadcast"
  <2>1. BeforeEvents(t) = <<Event("BROADCAST", t, c.obj)>>
    BY <1>7 DEF BeforeEvents
  <2> QED
    BY <1>o, <1>5, <1>7, <2>1
<1>8. CASE ~(c.op \in {"access", "wait", "signal", "broadcast"} \/ (c.op = "unlock" /\ c.m \in Mutexes))
  <2>1. BeforeEvents(t) = <<>>
    BY <1>8 DEF BeforeEvents
  <2> QED
    BY <1>8, <2>1
<1> QED
  BY <1>2, <1>3, <1>4, <1>6, <1>7, <1>8

\* The events after a call, in detail.
LEMMA AfterShape ==
  ASSUME CallsOK, NEW t \in Threads
  PROVE  /\ \A k \in 1..Len(AfterEvents(t)) :
              /\ AfterEvents(t)[k].tid = t
              /\ AfterEvents(t)[k].op \in SyncAcqOps
              /\ AfterEvents(t)[k].op \in {"LOCK", "TRYLOCK"} /\ AfterEvents(t)[k].ok =>
                   /\ cur[t].m \in Mutexes /\ AfterEvents(t)[k].obj = cur[t].m
                   /\ cur[t].op \in {"lock", "wait"} \/ owner[cur[t].m] = t
         /\ cur[t].op \in {"lock", "trylock", "wait"} /\ cur[t].m \in Mutexes =>
              /\ 1 \in 1..Len(AfterEvents(t))
              /\ AfterEvents(t)[1].op \in SyncAcqOps /\ AfterEvents(t)[1].obj = cur[t].m
         /\ cur[t].op = "wait" =>
              /\ 2 \in 1..Len(AfterEvents(t))
              /\ AfterEvents(t)[2].op \in SyncAcqOps /\ AfterEvents(t)[2].obj = cur[t].obj
<1> DEFINE c == cur[t]
<1>1. c \in Calls
  BY DEF CallsOK
<1>o. {"LOCK", "TRYLOCK", "AWAKE"} \subseteq OpsLogged /\ {"LOCK", "TRYLOCK", "AWAKE"} = SyncAcqOps
  BY DEF OpsLogged, SyncAcqOps
<1>2. CASE c.op = "lock" /\ c.m \in Mutexes
  <2>1. AfterEvents(t) = <<Event("LOCK", t, c.m)>>
    BY <1>2 DEF AfterEvents
  <2>2. /\ Event("LOCK", t, c.m) \in EventType /\ Event("LOCK", t, c.m).op = "LOCK"
        /\ Event("LOCK", t, c.m).tid = t /\ Event("LOCK", t, c.m).obj = c.m
    BY <1>o, <1>2, EventFacts
  <2>3. /\ 1 \in 1..Len(AfterEvents(t))
        /\ \A k \in 1..Len(AfterEvents(t)) : AfterEvents(t)[k] = Event("LOCK", t, c.m)
    BY <2>1, <2>2, OneEvent
  <2> QED
    BY <1>o, <1>2, <2>2, <2>3
<1>3. CASE c.op = "trylock" /\ c.m \in Mutexes
  <2>1. AfterEvents(t) = <<Event("TRYLOCK", t, c.m)>>
    BY <1>3 DEF AfterEvents
  <2>2. /\ Event("TRYLOCK", t, c.m) \in EventType /\ Event("TRYLOCK", t, c.m).op = "TRYLOCK"
        /\ Event("TRYLOCK", t, c.m).tid = t /\ Event("TRYLOCK", t, c.m).obj = c.m
        /\ (Event("TRYLOCK", t, c.m).ok => owner[c.m] = t)
    BY <1>o, <1>3, EventFacts
  <2>3. /\ 1 \in 1..Len(AfterEvents(t))
        /\ \A k \in 1..Len(AfterEvents(t)) : AfterEvents(t)[k] = Event("TRYLOCK", t, c.m)
    BY <2>1, <2>2, OneEvent
  <2> QED
    BY <1>o, <1>3, <2>2, <2>3
<1>4. CASE c.op = "destroy" /\ c.m \in Mutexes
  <2>1. PICK e \in EventType : AfterEvents(t) = <<e>> /\ e.ok = FALSE /\ e.op = "LOCK" /\ e.tid = t
    <3>1. AfterEvents(t) = <<[Event("LOCK", t, c.m) EXCEPT !.ok = FALSE]>>
      BY <1>4 DEF AfterEvents
    <3>2. /\ Event("LOCK", t, c.m) \in EventType
          /\ Event("LOCK", t, c.m).op = "LOCK" /\ Event("LOCK", t, c.m).tid = t
      BY <1>o, <1>4, EventFacts
    <3>3. \A e \in EventType : [e EXCEPT !.ok = FALSE].op = e.op /\ [e EXCEPT !.ok = FALSE].tid = e.tid
      BY DEF EventType
    <3> QED
      BY <3>1, <3>2, <3>3, NotOk
  <2>2. \A k \in 1..Len(AfterEvents(t)) : AfterEvents(t)[k] = e
    BY <2>1, OneEvent
  <2> QED
    BY <1>o, <1>4, <2>1, <2>2
<1>5. CASE c.op = "wait"
  <2>0. c.m \in Mutexes /\ c.obj \in Conds
    BY <1>1, <1>5, CallFacts
  <2>1. AfterEvents(t) = <<Event("LOCK", t, c.m), Event("AWAKE", t, c.obj)>>
    BY <1>5 DEF AfterEvents
  <2>2. /\ Event("LOCK", t, c.m) \in EventType /\ Event("LOCK", t, c.m).op = "LOCK"
        /\ Event("LOCK", t, c.m).tid = t /\ Event("LOCK", t, c.m).obj = c.m
        /\ Event("AWAKE", t, c.obj) \in EventType /\ Event("AWAKE", t, c.obj).op = "AWAKE"
        /\ Event("AWAKE", t, c.obj).tid = t /\ Event("AWAKE", t, c.obj).obj = c.obj
    BY <1>o, <2>0, EventFacts
  <2>3. /\ 1 \in 1..Len(AfterEvents(t)) /\ AfterEvents(t)[1] = Event("LOCK", t, c.m)
        /\ \A k \in 1..Len(AfterEvents(t)) :
             AfterEvents(t)[k] \in {Event("LOCK", t, c.m), Event("AWAKE", t, c.obj)}
    BY <2>1, <2>2, TwoEvents
  <2>4. 2 \in 1..Len(AfterEvents(t)) /\ AfterEvents(t)[2] = Event("AWAKE", t, c.obj)
    BY <2>1
  <2> QED
    BY <1>o, <1>5, <2>0, <2>2, <2>3, <2>4
<1>6. CASE ~(c.op = "wait" \/ (c.op \in {"lock", "trylock", "destroy"} /\ c.m \in Mutexes))
  <2>1. AfterEvents(t) = <<>>
    BY <1>6 DEF AfterEvents
  <2> QED
    BY <1>6, <2>1
<1> QED
  BY <1>2, <1>3, <1>4, <1>5, <1>6

\* The elements of two sequences put together.
LEMMA Appended ==
  ASSUME NEW S, NEW a \in Seq(S), NEW b \in Seq(S)
  PROVE  /\ Len(a \o b) = Len(a) + Len(b)
         /\ \A j \in 1..Len(a) : (a \o b)[j] = a[j]
         /\ \A k \in 1..Len(b) : (a \o b)[Len(a) + k] = b[k]
OBVIOUS

\* What a hook that logs does to the log and to what is known of it.
LEMMA WriteFacts ==
  ASSUME TypeOK, Len(real) = Len(log), NEW t \in Threads, NEW es \in Seq(EventType), Write(t, es)
  PROVE  /\ Len(log) \in Nat /\ Len(es) \in Nat
         /\ Len(log') = Len(log) + Len(es) /\ Len(real') = Len(log')
         /\ \A j \in 1..Len(log) : log'[j] = log[j] /\ real'[j] = real[j]
         /\ \A k \in 1..Len(es) :
              /\ log'[Len(log) + k] = es[k]
              /\ real'[Len(log) + k] = know[t] \union ((Len(log) + 1)..(Len(log) + k - 1))
         /\ know'[t] = know[t] \union ((Len(log) + 1)..(Len(log) + Len(es)))
         /\ \A u \in Threads : u # t => know'[u] = know[u]
<1> DEFINE n == Len(log)
           new == [i \in 1..Len(es) |-> know[t] \union ((n + 1)..(n + (i - 1)))]
<1>1. log' = log \o es /\ real' = real \o new
      /\ know' = [know EXCEPT ![t] = @ \union ((n + 1)..(n + Len(es)))]
  BY DEF Write
<1>2. log \in Seq(EventType) /\ real \in Seq(SUBSET Nat) /\ know \in [Threads -> SUBSET Nat]
  BY DEF TypeOK
<1>3. n \in Nat /\ Len(es) \in Nat
  BY <1>2
<1>4. new \in Seq(SUBSET Nat) /\ Len(new) = Len(es)
      /\ \A k \in 1..Len(es) : new[k] = know[t] \union ((n + 1)..(n + k - 1))
  <2>1. \A k \in 1..Len(es) : n + (k - 1) = n + k - 1 /\ ((n + 1)..(n + (k - 1))) \subseteq Nat
    BY <1>3
  <2> QED
    BY <1>2, <1>3, <2>1
<1> HIDE DEF new
<1>5. /\ Len(log') = n + Len(es)
      /\ \A j \in 1..n : log'[j] = log[j]
      /\ \A k \in 1..Len(es) : log'[n + k] = es[k]
  BY <1>1, <1>2, <1>3
<1>6. /\ Len(real') = n + Len(es)
      /\ \A j \in 1..n : real'[j] = real[j]
      /\ \A k \in 1..Len(es) : real'[n + k] = new[k]
  <2>1. /\ Len(real \o new) = Len(real) + Len(new)
        /\ \A j \in 1..Len(real) : (real \o new)[j] = real[j]
        /\ \A k \in 1..Len(new) : (real \o new)[Len(real) + k] = new[k]
    <3>1. PICK S : S = SUBSET Nat
      OBVIOUS
    <3>2. real \in Seq(S) /\ new \in Seq(S)
      BY <1>2, <1>4, <3>1
    <3>3. PICK r, w : r = real /\ w = new
      OBVIOUS
    <3>4. r \in Seq(S) /\ w \in Seq(S)
      BY <3>2, <3>3
    <3>5. /\ Len(r \o w) = Len(r) + Len(w)
        /\ \A j \in 1..Len(r) : (r \o w)[j] = r[j]
        /\ \A k \in 1..Len(w) : (r \o w)[Len(r) + k] = w[k]
      BY <3>4, Appended
    <3> QED
      BY <3>3, <3>5
  <2>2. Len(real) = n /\ Len(new) = Len(es) /\ real' = real \o new
    BY <1>1, <1>4
  <2> HIDE DEF n
  <2> QED
    BY <2>1, <2>2
<1> QED
  BY <1>1, <1>2, <1>3, <1>4, <1>5, <1>6

---------------------------------------------------------------------------
(* The order of mutexes in the log is real.                                *)

\* Nothing is logged, known or left at first.
LEMMA RealInit == Init => RealInv
<1> SUFFICES ASSUME Init PROVE RealInv
  OBVIOUS
<1>1. Len(log) = 0 /\ Len(real) = 0
  BY DEF Init
<1>2. (\A t \in Threads : know[t] = {}) /\ (\A m \in Locks : left[m] = {})
  BY DEF Init
<1> QED
  BY <1>1, <1>2 DEF RealInv, KnowledgeIsClosed, IsClosed, ReleasesAreKnown, DirectIsReal

\* Every event is of a thread.
LEMMA TidsAreThreads == TypeOK => \A i \in 1..Len(log) : log[i].tid \in Threads
<1> SUFFICES ASSUME TypeOK, NEW i \in 1..Len(log) PROVE log[i].tid \in Threads
  OBVIOUS
<1>1. log[i] \in EventType
  BY DEF TypeOK
<1> QED
  BY <1>1 DEF EventType

\* Events of one thread are logged, acquisitions only of mutexes it owns.
LEMMA RealWrite ==
  ASSUME TypeOK, RealInv, NEW t \in Threads, NEW es \in Seq(EventType), Write(t, es),
         UNCHANGED <<owner, left>>,
         \A k \in 1..Len(es) :
           /\ es[k].tid = t
           /\ es[k].op \in {"LOCK", "TRYLOCK"} /\ es[k].ok
                => es[k].obj \in Mutexes /\ owner[es[k].obj] = t
           /\ es[k].op = "UNLOCK" /\ es[k].obj \in Mutexes => owner[es[k].obj] = t
  PROVE  RealInv'
<1>0. PICK n \in Nat : n = Len(log)
  BY DEF TypeOK
<1>1. PICK k0 \in Nat : k0 = Len(es)
  OBVIOUS
<1>2. /\ Len(real) = n /\ Len(log') = n + k0 /\ Len(real') = n + k0
      /\ \A j \in 1..n : log'[j] = log[j] /\ real'[j] = real[j]
      /\ \A k \in 1..k0 : log'[n + k] = es[k]
      /\ \A k \in 1..k0 : real'[n + k] = know[t] \union ((n + 1)..(n + k - 1))
      /\ know'[t] = know[t] \union ((n + 1)..(n + k0))
      /\ \A u \in Threads : u # t => know'[u] = know[u]
  BY <1>0, <1>1, WriteFacts DEF RealInv, KnowledgeIsClosed
<1>3. \A j \in 1..(n + k0) : j \in 1..n \/ \E k \in 1..k0 : j = n + k
  <2> SUFFICES ASSUME NEW j \in 1..(n + k0), j \notin 1..n
               PROVE  \E k \in 1..k0 : j = n + k
    OBVIOUS
  <2>1. j - n \in 1..k0 /\ j = n + (j - n)
    OBVIOUS
  <2> QED
    BY <2>1
<1>4. \A S : S \subseteq 1..n /\ (\A i \in S : real[i] \subseteq S)
        => S \subseteq 1..(n + k0) /\ \A i \in S : real'[i] \subseteq S
  BY <1>2
<1>5. /\ \A j \in 1..n : real[j] \subseteq 1..(j - 1)
      /\ \A j \in 1..n : real[j] \subseteq 1..n /\ \A i \in real[j] : real[i] \subseteq real[j]
      /\ \A u \in Threads : know[u] \subseteq 1..n /\ \A i \in know[u] : real[i] \subseteq know[u]
      /\ \A m \in Locks : left[m] \subseteq 1..n /\ \A i \in left[m] : real[i] \subseteq left[m]
      /\ \A i \in 1..n : i \in know[log[i].tid]
  BY <1>0 DEF RealInv, KnowledgeIsClosed, IsClosed
\* What t knows and its first new events.
<1>6. \A k \in 0..k0 : /\ know[t] \union ((n + 1)..(n + k)) \subseteq 1..(n + k)
                       /\ \A i \in know[t] \union ((n + 1)..(n + k)) :
                            real'[i] \subseteq know[t] \union ((n + 1)..(n + k))
  <2> SUFFICES ASSUME NEW k \in 0..k0
               PROVE  /\ know[t] \union ((n + 1)..(n + k)) \subseteq 1..(n + k)
                      /\ \A i \in know[t] \union ((n + 1)..(n + k)) :
                            real'[i] \subseteq know[t] \union ((n + 1)..(n + k))
    OBVIOUS
  <2>1. know[t] \subseteq 1..n
    BY <1>5
  <2>2. know[t] \union ((n + 1)..(n + k)) \subseteq 1..(n + k)
    BY <2>1
  <2>3. ASSUME NEW i \in know[t] PROVE real'[i] \subseteq know[t]
    BY <1>2, <1>5, <2>1
  <2>4. ASSUME NEW i \in (n + 1)..(n + k)
        PROVE  real'[i] \subseteq know[t] \union ((n + 1)..(n + k))
    <3>1. PICK l \in 1..k0 : i = n + l /\ l <= k
      <4>1. i - n \in 1..k0 /\ i = n + (i - n) /\ i - n <= k
        OBVIOUS
      <4> QED
        BY <4>1
    <3>2. real'[i] = know[t] \union ((n + 1)..(n + l - 1))
      BY <1>2, <3>1
    <3> QED
      BY <3>1, <3>2
  <2> QED
    BY <2>2, <2>3, <2>4
<1>7. KnowledgeIsClosed'
  <2>1. Len(real') = Len(log')
    BY <1>2
  <2>2. \A j \in 1..(n + k0) : real'[j] \subseteq 1..(j - 1)
          /\ real'[j] \subseteq 1..(n + k0) /\ \A i \in real'[j] : real'[i] \subseteq real'[j]
    <3> SUFFICES ASSUME NEW j \in 1..(n + k0)
                 PROVE  real'[j] \subseteq 1..(j - 1)
                        /\ real'[j] \subseteq 1..(n + k0) /\ \A i \in real'[j] : real'[i] \subseteq real'[j]
      OBVIOUS
    <3>1. CASE j \in 1..n
      BY <1>2, <1>4, <1>5, <3>1
    <3>2. ASSUME NEW k \in 1..k0, j = n + k
          PROVE  real'[j] \subseteq 1..(j - 1)
                 /\ real'[j] \subseteq 1..(n + k0) /\ \A i \in real'[j] : real'[i] \subseteq real'[j]
      <4>1. k - 1 \in 0..k0 /\ n + (k - 1) = n + k - 1 /\ n + k - 1 <= n + k0
        OBVIOUS
      <4>2. real'[j] = know[t] \union ((n + 1)..(n + (k - 1)))
        BY <1>2, <3>2, <4>1
      <4>3. /\ real'[j] \subseteq 1..(n + (k - 1))
            /\ \A i \in real'[j] : real'[i] \subseteq real'[j]
        BY <1>6, <4>1, <4>2
      <4>4. 1..(n + (k - 1)) \subseteq 1..(n + k0) /\ 1..(n + (k - 1)) = 1..(j - 1)
        BY <3>2, <4>1
      <4> QED
        BY <4>3, <4>4
    <3> QED
      BY <1>3, <3>1, <3>2
  <2>3. \A u \in Threads : know'[u] \subseteq 1..(n + k0) /\ \A i \in know'[u] : real'[i] \subseteq know'[u]
    <3> SUFFICES ASSUME NEW u \in Threads
                 PROVE  know'[u] \subseteq 1..(n + k0) /\ \A i \in know'[u] : real'[i] \subseteq know'[u]
      OBVIOUS
    <3>1. CASE u = t
      <4>1. k0 \in 0..k0
        OBVIOUS
      <4> QED
        BY <1>2, <1>6, <3>1, <4>1
    <3>2. CASE u # t
      BY <1>2, <1>4, <1>5, <3>2
    <3> QED
      BY <3>1, <3>2
  <2>4. \A m \in Locks : left'[m] \subseteq 1..(n + k0) /\ \A i \in left'[m] : real'[i] \subseteq left'[m]
    BY <1>4, <1>5
  <2>5. \A i \in 1..(n + k0) : i \in know'[log'[i].tid]
    <3> SUFFICES ASSUME NEW i \in 1..(n + k0) PROVE i \in know'[log'[i].tid]
      OBVIOUS
    <3>1. CASE i \in 1..n
      <4>1. log'[i].tid = log[i].tid /\ log[i].tid \in Threads
        BY <1>0, <1>2, <3>1, TidsAreThreads
      <4> QED
        BY <1>2, <1>5, <3>1, <4>1
    <3>2. ASSUME NEW k \in 1..k0, i = n + k PROVE i \in know'[log'[i].tid]
      BY <1>1, <1>2, <3>2
    <3> QED
      BY <1>3, <3>1, <3>2
  <2> QED
    BY <1>2, <2>1, <2>2, <2>3, <2>4, <2>5 DEF KnowledgeIsClosed, IsClosed
<1>8. ReleasesAreKnown'
  <2> SUFFICES ASSUME NEW i \in 1..(n + k0), NEW m \in Mutexes, log'[i].op = "UNLOCK", log'[i].obj = m
               PROVE  IF owner[m] = None THEN i \in left[m] ELSE i \in know'[owner[m]]
    BY <1>2 DEF ReleasesAreKnown
  <2>0. owner[m] \in Threads \union {None}
    BY DEF TypeOK, Locks
  <2>1. CASE i \in 1..n
    <3>1. IF owner[m] = None THEN i \in left[m] ELSE i \in know[owner[m]]
      BY <1>0, <1>2, <2>1 DEF RealInv, ReleasesAreKnown
    <3> QED
      BY <1>2, <2>0, <3>1
  <2>2. ASSUME NEW k \in 1..k0, i = n + k
        PROVE  IF owner[m] = None THEN i \in left[m] ELSE i \in know'[owner[m]]
    <3>1. owner[m] = t
      BY <1>1, <1>2, <2>2
    <3>2. i \in know'[t]
      BY <1>2, <2>2
    <3> QED
      BY <3>1, <3>2, HooksAssumption
  <2> QED
    BY <1>3, <2>1, <2>2
<1>9. DirectIsReal'
  <2> SUFFICES ASSUME NEW j \in 1..(n + k0), NEW i \in 1..(j - 1), MutexPrecedes(log'[i], log'[j])
               PROVE  i \in real'[j]
    BY <1>2 DEF DirectIsReal
  <2>1. CASE j \in 1..n
    <3>1. i \in 1..n /\ MutexPrecedes(log[i], log[j])
      <4>1. i \in 1..n
        BY <2>1
      <4>2. log'[i] = log[i] /\ log'[j] = log[j]
        BY <1>2, <2>1, <4>1
      <4> QED
        BY <4>1, <4>2 DEF MutexPrecedes
    <3>2. i \in real[j]
      BY <1>0, <2>1, <3>1 DEF RealInv, DirectIsReal
    <3> QED
      BY <1>2, <2>1, <3>2
  <2>2. ASSUME NEW k \in 1..k0, j = n + k PROVE i \in real'[j]
    <3>1. real'[j] = know[t] \union ((n + 1)..(n + k - 1)) /\ log'[j] = es[k]
      BY <1>2, <2>2
    <3>2. CASE i \in (n + 1)..(n + k - 1)
      BY <3>1, <3>2
    <3>3. CASE i \in 1..n
      <4>1. log'[i] = log[i]
        BY <1>2, <3>3
      <4>2. CASE log[i].tid = t
        BY <1>5, <3>1, <3>3, <4>2
      <4>3. CASE log[i].op = "UNLOCK" /\ es[k].op \in {"LOCK", "TRYLOCK"} /\ es[k].ok
                   /\ log[i].obj = es[k].obj
        <5>1. es[k].obj \in Mutexes /\ owner[es[k].obj] = t
          BY <1>1, <4>3
        <5>2. i \in know[t]
          BY <1>0, <3>3, <4>3, <5>1, HooksAssumption DEF RealInv, ReleasesAreKnown
        <5> QED
          BY <3>1, <5>2
      <4> QED
        BY <1>1, <3>1, <4>1, <4>2, <4>3 DEF MutexPrecedes
    <3>4. i \in 1..n \/ i \in (n + 1)..(n + k - 1)
      BY <2>2
    <3> QED
      BY <3>2, <3>3, <3>4
  <2> QED
    BY <1>3, <2>1, <2>2
<1> QED
  BY <1>7, <1>8, <1>9 DEF RealInv

\* No step makes the log order what was not ordered.
LEMMA RealNext == IInv /\ RealInv /\ [Next]_vars => RealInv'
<1> SUFFICES ASSUME IInv, RealInv, [Next]_vars PROVE RealInv'
  OBVIOUS
<1>c. cur \in [Threads -> Calls] /\ owner \in [Locks -> Threads \union {None}] /\ TypeOK /\ CallsOK
  BY DEF IInv, TypeInv, CallsOK, TypeOK
<1>k. know \in [Threads -> SUBSET Nat] /\ left \in [Locks -> SUBSET Nat]
  BY <1>c DEF TypeOK
<1>m. Mutexes \subseteq Locks /\ None \notin Threads
  BY HooksAssumption DEF Locks
\* As long as nothing is logged only what is known and who owns what matter.
<1>q. ASSUME UNCHANGED <<log, real>>, (\A u \in Threads : IsClosed(know'[u]) /\ know[u] \subseteq know'[u]),
             \A m \in Locks : IsClosed(left'[m]), ReleasesAreKnown'
      PROVE  RealInv'
  <2>1. DirectIsReal'
    BY <1>q DEF RealInv, DirectIsReal
  <2>2. \A i \in 1..Len(log) : log[i].tid \in Threads
    BY <1>c, TidsAreThreads
  <2>3. KnowledgeIsClosed'
    BY <1>q, <2>2 DEF RealInv, KnowledgeIsClosed, IsClosed
  <2> QED
    BY <1>q, <2>1, <2>3 DEF RealInv
<1>s. /\ \A u \in Threads : IsClosed(know[u])
      /\ \A m \in Locks : IsClosed(left[m])
      /\ ReleasesAreKnown
  BY DEF RealInv, KnowledgeIsClosed
<1>u. \A S, T : IsClosed(S) /\ IsClosed(T) => IsClosed(S \union T)
  BY DEF IsClosed
<1>1. ASSUME NEW t \in Threads, Before(t) PROVE RealInv'
  <2>1. BeforeEvents(t) \in Seq(EventType)
    BY <1>c, BeforeFacts
  <2>2. Write(t, BeforeEvents(t)) /\ UNCHANGED <<owner, left>> /\ pc[t] = "before"
    BY <1>1 DEF Before
  <2>3. \A k \in 1..Len(BeforeEvents(t)) :
          /\ BeforeEvents(t)[k].tid = t
          /\ BeforeEvents(t)[k].op \notin {"LOCK", "TRYLOCK"}
          /\ BeforeEvents(t)[k].op = "UNLOCK" => owner[BeforeEvents(t)[k].obj] = t
    BY <1>c, <2>2, BeforeShape DEF IInv, Owned, SyncAcqOps
  <2> QED
    BY <1>c, <2>1, <2>2, <2>3, RealWrite
<1>2. ASSUME NEW t \in Threads, After(t) PROVE RealInv'
  <2>1. AfterEvents(t) \in Seq(EventType)
    BY <1>c, AfterFacts
  <2>2. Write(t, AfterEvents(t)) /\ UNCHANGED <<owner, left>> /\ pc[t] = "after"
    BY <1>2 DEF After
  <2>3. \A k \in 1..Len(AfterEvents(t)) :
          /\ AfterEvents(t)[k].tid = t
          /\ AfterEvents(t)[k].op \in {"LOCK", "TRYLOCK"} /\ AfterEvents(t)[k].ok
               => AfterEvents(t)[k].obj \in Mutexes /\ owner[AfterEvents(t)[k].obj] = t
          /\ AfterEvents(t)[k].op # "UNLOCK"
    BY <1>c, <2>2, AfterShape DEF IInv, Owned, SyncAcqOps
  <2> QED
    BY <1>c, <2>1, <2>2, <2>3, RealWrite
<1>3. ASSUME NEW t \in Threads, Lock(t) PROVE RealInv'
  <2> DEFINE n == cur[t].m
  <2>1. n \in Locks
    BY <1>3, <1>c, CallFacts, <1>m DEF Lock, IInv, TypeInv, Places
  <2>2. /\ UNCHANGED <<log, real, left>> /\ owner[n] = None
        /\ owner' = [owner EXCEPT ![n] = t]
        /\ know' = [know EXCEPT ![t] = IF n \in Mutexes THEN @ \union left[n] ELSE @]
    BY <1>3 DEF Lock, Take
  <2>3. know'[t] = IF n \in Mutexes THEN know[t] \union left[n] ELSE know[t]
    BY <2>2, <1>k
  <2>4. \A u \in Threads : u # t => know'[u] = know[u]
    BY <2>2, <1>k
  <2>5. \A u \in Threads : IsClosed(know'[u]) /\ know[u] \subseteq know'[u]
    BY <1>s, <1>u, <2>1, <2>3, <2>4
  <2>6. owner'[n] = t /\ \A m \in Locks : m # n => owner'[m] = owner[m]
    BY <2>1, <2>2, <1>c
  <2>7. ReleasesAreKnown'
    <3> SUFFICES ASSUME NEW i \in 1..Len(log), NEW m \in Mutexes, log[i].op = "UNLOCK", log[i].obj = m
                 PROVE  IF owner'[m] = None THEN i \in left[m] ELSE i \in know'[owner'[m]]
      BY <2>2 DEF ReleasesAreKnown
    <3>1. IF owner[m] = None THEN i \in left[m] ELSE i \in know[owner[m]]
      BY <1>s DEF ReleasesAreKnown
    <3>2. CASE m = n
      BY <1>m, <2>2, <2>3, <2>6, <3>1, <3>2
    <3>3. CASE m # n
      <4>1. owner'[m] = owner[m] /\ owner[m] \in Threads \union {None}
        BY <1>c, <1>m, <2>6, <3>3
      <4> QED
        BY <2>5, <3>1, <4>1
    <3> QED
      BY <3>2, <3>3
  <2>8. \A m \in Locks : IsClosed(left'[m])
    BY <1>s, <2>2
  <2> QED
    BY <1>q, <2>2, <2>5, <2>7, <2>8
<1>4. ASSUME NEW t \in Threads, Unlock(t) PROVE RealInv'
  <2> DEFINE n == cur[t].m
  <2>1. /\ UNCHANGED <<log, real, know>> /\ pc[t] = "call" /\ cur[t].op \in {"unlock", "wait"}
        /\ owner' = [owner EXCEPT ![n] = None]
        /\ left' = [left EXCEPT ![n] = know[t]]
    BY <1>4 DEF Unlock, Give
  <2>2. n \in Locks
    BY <2>1, <1>c, CallFacts, <1>m
  <2>3. owner[n] = t
    BY <2>1 DEF IInv, Owned
  <2>4. owner'[n] = None /\ \A m \in Locks : m # n => owner'[m] = owner[m]
    BY <2>1, <2>2, <1>c
  <2>5. left'[n] = know[t] /\ \A m \in Locks : m # n => left'[m] = left[m]
    BY <2>1, <2>2, <1>k
  <2>6. \A m \in Locks : IsClosed(left'[m])
    BY <1>s, <2>5
  <2>7. ReleasesAreKnown'
    <3> SUFFICES ASSUME NEW i \in 1..Len(log), NEW m \in Mutexes, log[i].op = "UNLOCK", log[i].obj = m
                 PROVE  IF owner'[m] = None THEN i \in left'[m] ELSE i \in know[owner'[m]]
      BY <2>1 DEF ReleasesAreKnown
    <3>1. IF owner[m] = None THEN i \in left[m] ELSE i \in know[owner[m]]
      BY <1>s DEF ReleasesAreKnown
    <3> QED
      BY <1>m, <2>3, <2>4, <2>5, <3>1
  <2>8. \A u \in Threads : IsClosed(know'[u]) /\ know[u] \subseteq know'[u]
    BY <1>s, <2>1
  <2> QED
    BY <1>q, <2>1, <2>6, <2>7, <2>8
<1>5. ASSUME NEW t \in Threads, Signal(t) PROVE RealInv'
  <2>1. PICK woken \in SUBSET Threads :
          know' = [u \in Threads |-> IF u \in woken THEN know[u] \union know[t] ELSE know[u]]
    BY <1>5 DEF Signal
  <2>2. UNCHANGED <<log, real, owner, left>>
    BY <1>5 DEF Signal
  <2>3. \A u \in Threads : IsClosed(know'[u]) /\ know[u] \subseteq know'[u]
    BY <1>s, <1>u, <2>1
  <2>4. ReleasesAreKnown'
    <3> SUFFICES ASSUME NEW i \in 1..Len(log), NEW m \in Mutexes, log[i].op = "UNLOCK", log[i].obj = m
                 PROVE  IF owner[m] = None THEN i \in left[m] ELSE i \in know'[owner[m]]
      BY <2>2 DEF ReleasesAreKnown
    <3>1. IF owner[m] = None THEN i \in left[m] ELSE i \in know[owner[m]]
      BY <1>s DEF ReleasesAreKnown
    <3>2. owner[m] \in Threads \union {None}
      BY <1>c, <1>m
    <3> QED
      BY <2>3, <3>1, <3>2
  <2>5. \A m \in Locks : IsClosed(left'[m])
    BY <1>s, <2>2
  <2> QED
    BY <1>q, <2>2, <2>3, <2>4, <2>5
<1>6. CASE UNCHANGED <<log, owner, realVars>>
  <2>1. ReleasesAreKnown'
    BY <1>6, <1>s DEF ReleasesAreKnown, realVars
  <2> QED
    BY <1>6, <1>q, <1>s, <2>1 DEF realVars
<1>7. ASSUME NEW t \in Threads,
             Enter(t) \/ Access(t) \/ TrylockFails(t) \/ Destroy(t) \/ WakeUp(t) \/ Gate(t)
      PROVE  UNCHANGED <<log, owner, realVars>>
  BY <1>7 DEF Enter, Access, TrylockFails, Destroy, WakeUp, Gate
<1>8. ASSUME Exit \/ UNCHANGED vars PROVE UNCHANGED <<log, owner, realVars>>
  BY <1>8 DEF Exit, vars
<1> QED
  BY <1>1, <1>2, <1>3, <1>4, <1>5, <1>6, <1>7, <1>8 DEF Next, Step

\* The steps of the order are real, and so is what follows from them.
LEMMA RealTells == TypeOK /\ RealInv => LoggedOrderIsReal
<1> SUFFICES ASSUME TypeOK, RealInv PROVE LoggedOrderIsReal
  OBVIOUS
<1>1. Len(log) \in Nat
  BY DEF TypeOK
<1> DEFINE dir == MutexDirectOf(log)
           p == Pasts(log, MutexPrecedes)
<1>2. Backward(dir, Len(log)) /\ Closes(p, dir, Len(log))
  BY <1>1, MutexPastsClose
<1>3. \A j \in 1..Len(log) : \A i \in dir[j] : i \in real[j]
  BY DEF MutexDirectOf, RealInv, DirectIsReal
<1>4. \A j \in 1..Len(log) : \A i \in dir[j] : i \in real[j] /\ real[i] \subseteq real[j]
  <2> HIDE DEF dir
  <2> QED
    BY <1>3 DEF RealInv, KnowledgeIsClosed, IsClosed
<1>5. \A j \in 1..Len(log) : p[j] \subseteq real[j]
  <2> HIDE DEF dir, p
  <2> QED
    BY <1>1, <1>2, <1>4, ClosureBound
<1> QED
  BY <1>5 DEF LoggedOrderIsReal

\* What the log orders by mutexes the threads really did in that order, for
\* any number of threads, mutexes and calls, and wherever the program exits:
\* but for failed trylocks and destroyed mutexes, logged as acquisitions, no
\* race is hidden.
THEOREM OrderIsReal == Spec => []LoggedOrderIsReal
<1>1. Init => IInv /\ RealInv
  BY InitInv, RealInit
<1>2. (IInv /\ RealInv) /\ [Next]_vars => (IInv /\ RealInv)'
  BY NextInv, RealNext
<1>3. IInv /\ RealInv => LoggedOrderIsReal
  BY RealTells DEF IInv, TypeInv
<1> QED
  BY <1>1, <1>2, <1>3, PTL DEF Spec

---------------------------------------------------------------------------
(* The real order is in the log.                                           *)

\* Pasts are closed, and stay as they are when the log grows.
LEMMA PastFacts ==
  ASSUME NEW tr, Len(tr) \in Nat
  PROVE  \A j \in 1..Len(tr) : \A i \in 1..(j - 1) :
           Precedes(tr[i], tr[j]) =>
             i \in Pasts(tr, Precedes)[j] /\ Pasts(tr, Precedes)[i] \subseteq Pasts(tr, Precedes)[j]
<1> DEFINE p == Pasts(tr, Precedes)
<1>2. Closes(p, DirectOf(tr), Len(tr))
  BY PastsClose
<1> SUFFICES ASSUME NEW j \in 1..Len(tr), NEW i \in 1..(j - 1), Precedes(tr[i], tr[j])
             PROVE  i \in p[j] /\ p[i] \subseteq p[j]
  OBVIOUS
<1>3. i \in DirectOf(tr)[j]
  BY DEF DirectOf
<1> HIDE DEF p
<1> QED
  BY <1>2, <1>3 DEF Closes

\* The past of an event does not change when the log grows.
LEMMA PastStays ==
  ASSUME TypeOK, NEW n \in Nat, n = Len(log), Len(log') \in Nat, n <= Len(log'),
         \A j \in 1..n : log'[j] = log[j]
  PROVE  \A j \in 1..n : Past'[j] = Past[j]
<1> DEFINE d == DirectOf(log)
           e == DirectOf(log')
           p == Past
           q == Past'
<1>1. Backward(d, n) /\ Closes(p, d, n)
  BY PastsClose DEF Past
<1>2. Closes(q, e, Len(log'))
  BY PastsClose DEF Past
<1>3. \A j \in 1..n : e[j] = d[j]
  <2> SUFFICES ASSUME NEW j \in 1..n PROVE e[j] = d[j]
    OBVIOUS
  <2>1. j \in 1..Len(log') /\ j \in 1..Len(log)
    OBVIOUS
  <2>2. \A i \in 1..(j - 1) : i \in 1..n
    OBVIOUS
  <2>3. \A i \in 1..(j - 1) : Precedes(log'[i], log'[j]) <=> Precedes(log[i], log[j])
    BY <2>2
  <2>4. e[j] = {i \in 1..(j - 1) : Precedes(log'[i], log'[j])}
    BY <2>1 DEF DirectOf
  <2>5. d[j] = {i \in 1..(j - 1) : Precedes(log[i], log[j])}
    BY <2>1 DEF DirectOf
  <2> QED
    BY <2>3, <2>4, <2>5
<1> HIDE DEF d, e, p, q
<1>4. Closes(q, d, n)
  <2> SUFFICES ASSUME NEW j \in 1..n PROVE q[j] = d[j] \union UNION {q[i] : i \in d[j]}
    BY DEF Closes
  <2>1. q[j] = e[j] \union UNION {q[i] : i \in e[j]}
    BY <1>2 DEF Closes
  <2> QED
    BY <1>3, <2>1
<1>5. \A j \in 1..n : p[j] = q[j]
  BY <1>1, <1>4, ClosureUnique
<1> QED
  BY <1>5 DEF p, q

\* No access is a release or an acquisition.
LEMMA NoAccess == SyncAcqOps \intersect AccessOps = {} /\ SyncRelOps \intersect AccessOps = {}
BY DEF SyncAcqOps, SyncRelOps, AccessOps

\* What new events of a thread show.
LEMMA ShownWrite ==
  ASSUME TypeOK, RealInv, NEW t \in Threads, NEW es \in Seq(EventType), Write(t, es), TypeOK',
         \A k \in 1..Len(es) : es[k].tid = t
  PROVE  /\ \A u : Seen(u) \subseteq Seen(u)'
         /\ \A x : Released(x) \subseteq Released(x)'
         /\ \A i \in 1..Len(log) : i \in Accesses' <=> i \in Accesses
         /\ \A k \in 1..Len(es) :
              /\ Seen(t) \subseteq Past'[Len(log) + k]
              /\ (Len(log) + 1)..(Len(log) + k - 1) \subseteq Past'[Len(log) + k]
              /\ Past'[Len(log) + k] \subseteq Seen(t)'
              /\ Len(log) + k \in Seen(t)'
              /\ Len(log) + k \in Accesses' <=> es[k].op \in AccessOps
              /\ es[k].op \in SyncAcqOps => Released(es[k].obj) \subseteq Past'[Len(log) + k]
              /\ es[k].op \in SyncRelOps => Past'[Len(log) + k] \subseteq Released(es[k].obj)'
         /\ \A j \in 1..Len(log) : Past'[j] = Past[j]
<1>0. PICK n \in Nat : n = Len(log)
  BY DEF TypeOK
<1>1. PICK k0 \in Nat : k0 = Len(es)
  OBVIOUS
<1>2. /\ Len(log') = n + k0
      /\ \A j \in 1..n : log'[j] = log[j]
      /\ \A k \in 1..k0 : log'[n + k] = es[k]
  <2>1. Len(real) = Len(log)
    BY DEF RealInv, KnowledgeIsClosed
  <2>2. /\ Len(log') = Len(log) + Len(es)
        /\ \A j \in 1..Len(log) : log'[j] = log[j]
        /\ \A k \in 1..Len(es) : log'[Len(log) + k] = es[k]
    BY <2>1, WriteFacts
  <2> QED
    BY <1>0, <1>1, <2>2
<1>3. n + k0 \in Nat /\ n <= n + k0
  OBVIOUS
<1>4. \A j \in 1..n : Past'[j] = Past[j]
  BY <1>0, <1>2, <1>3, PastStays
<1>5. \A j \in 1..(n + k0) : \A i \in 1..(j - 1) :
        Precedes(log'[i], log'[j]) => i \in Past'[j] /\ Past'[i] \subseteq Past'[j]
  <2>1. Len(log') \in Nat
    BY <1>2, <1>3
  <2>2. \A j \in 1..Len(log') : \A i \in 1..(j - 1) :
           Precedes(log'[i], log'[j]) => i \in Past'[j] /\ Past'[i] \subseteq Past'[j]
    BY <2>1, PastFacts DEF Past
  <2> QED
    BY <1>2, <2>2
<1>6. \A i \in 1..n : i \in 1..(n + k0)
  OBVIOUS
<1>7. \A u : EventsOf(u) = {i \in 1..n : log[i].tid = u} /\ EventsOf(u)' = {i \in 1..(n + k0) : log'[i].tid = u}
  BY <1>0, <1>2 DEF EventsOf
<1>8. \A x : /\ ReleasesOf(x) = {i \in 1..n : log[i].op \in SyncRelOps /\ log[i].obj = x}
             /\ ReleasesOf(x)' = {i \in 1..(n + k0) : log'[i].op \in SyncRelOps /\ log'[i].obj = x}
  BY <1>0, <1>2 DEF ReleasesOf
<1>9. \A u : EventsOf(u) \subseteq EventsOf(u)'
  BY <1>2, <1>6, <1>7
<1>10. \A x : ReleasesOf(x) \subseteq ReleasesOf(x)'
  BY <1>2, <1>6, <1>8
<1>11. \A u : Seen(u) \subseteq Seen(u)'
  <2> SUFFICES ASSUME NEW u PROVE Seen(u) \subseteq Seen(u)'
    OBVIOUS
  <2>1. \A i \in EventsOf(u) : Past'[i] = Past[i]
    BY <1>4, <1>7
  <2> QED
    BY <1>9, <2>1 DEF Seen
<1>12. \A x : Released(x) \subseteq Released(x)'
  <2> SUFFICES ASSUME NEW x PROVE Released(x) \subseteq Released(x)'
    OBVIOUS
  <2>1. \A i \in ReleasesOf(x) : Past'[i] = Past[i]
    BY <1>4, <1>8
  <2> QED
    BY <1>10, <2>1 DEF Released
<1>13. /\ \A i \in 1..n : i \in Accesses' <=> i \in Accesses
       /\ \A k \in 1..k0 : n + k \in Accesses' <=> es[k].op \in AccessOps
  <2>1. Accesses = {i \in 1..n : log[i].op \in AccessOps}
        /\ Accesses' = {i \in 1..(n + k0) : log'[i].op \in AccessOps}
    BY <1>0, <1>2 DEF Accesses
  <2>2. \A k \in 1..k0 : n + k \in 1..(n + k0)
    OBVIOUS
  <2> QED
    BY <1>2, <1>6, <2>1, <2>2
<1>14. ASSUME NEW k \in 1..k0
       PROVE  /\ Seen(t) \subseteq Past'[n + k]
              /\ (n + 1)..(n + k - 1) \subseteq Past'[n + k]
              /\ Past'[n + k] \subseteq Seen(t)'
              /\ n + k \in Seen(t)'
              /\ es[k].op \in SyncAcqOps => Released(es[k].obj) \subseteq Past'[n + k]
              /\ es[k].op \in SyncRelOps => Past'[n + k] \subseteq Released(es[k].obj)'
  <2>1. n + k \in 1..(n + k0) /\ log'[n + k] = es[k] /\ es[k].tid = t
    BY <1>1, <1>2
  <2>2. \A i \in 1..n : i \in 1..(n + k - 1)
    OBVIOUS
  <2>p. \A i \in 1..(n + k - 1) :
          Precedes(log'[i], log'[n + k]) => i \in Past'[n + k] /\ Past'[i] \subseteq Past'[n + k]
    BY <1>5, <2>1
  <2>3. Seen(t) \subseteq Past'[n + k]
    <3>1. ASSUME NEW i \in EventsOf(t) PROVE i \in Past'[n + k] /\ Past[i] \subseteq Past'[n + k]
      <4>1. i \in 1..n /\ log'[i].tid = t
        BY <1>2, <1>7, <3>1
      <4>2. Precedes(log'[i], log'[n + k])
        BY <2>1, <4>1 DEF Precedes
      <4>3. i \in Past'[n + k] /\ Past'[i] \subseteq Past'[n + k]
        BY <2>p, <2>2, <4>1, <4>2
      <4> QED
        BY <1>4, <4>1, <4>3
    <3> QED
      BY <3>1 DEF Seen
  <2>4. ASSUME NEW i \in (n + 1)..(n + k - 1) PROVE i \in Past'[n + k]
    <3>1. PICK l \in 1..k0 : i = n + l
      <4>1. i - n \in 1..k0 /\ i = n + (i - n)
        OBVIOUS
      <4> QED
        BY <4>1
    <3>2. log'[i].tid = t
      BY <1>1, <1>2, <3>1
    <3>3. Precedes(log'[i], log'[n + k])
      BY <2>1, <3>2 DEF Precedes
    <3>4. i \in 1..(n + k - 1)
      OBVIOUS
    <3> QED
      BY <2>p, <3>3, <3>4
  <2>5. n + k \in EventsOf(t)'
    BY <1>7, <2>1
  <2>6. Past'[n + k] \subseteq Seen(t)' /\ n + k \in Seen(t)'
    BY <2>5 DEF Seen
  <2>7. ASSUME es[k].op \in SyncAcqOps PROVE Released(es[k].obj) \subseteq Past'[n + k]
    <3>1. ASSUME NEW i \in ReleasesOf(es[k].obj) PROVE Past[i] \subseteq Past'[n + k]
      <4>1. i \in 1..n /\ log'[i].op \in SyncRelOps /\ log'[i].obj = es[k].obj
        BY <1>2, <1>8, <3>1
      <4>2. Precedes(log'[i], log'[n + k])
        BY <2>1, <2>7, <4>1 DEF Precedes
      <4>3. i \in 1..(n + k - 1)
        BY <2>2, <4>1
      <4>4. Past'[i] \subseteq Past'[n + k]
        BY <2>p, <4>2, <4>3
      <4> QED
        BY <1>4, <4>1, <4>4
    <3> QED
      BY <3>1 DEF Released
  <2>8. ASSUME es[k].op \in SyncRelOps PROVE Past'[n + k] \subseteq Released(es[k].obj)'
    <3>1. n + k \in ReleasesOf(es[k].obj)'
      BY <1>8, <2>1, <2>8
    <3> QED
      BY <3>1 DEF Released
  <2> QED
    BY <2>3, <2>4, <2>6, <2>7, <2>8
<1> QED
  BY <1>0, <1>1, <1>4, <1>11, <1>12, <1>13, <1>14

\* Nothing is logged: what is in the log stays.
LEMMA ShownStays ==
  ASSUME UNCHANGED log
  PROVE  /\ Past' = Past
         /\ \A u : Seen(u)' = Seen(u)
         /\ \A x : Released(x)' = Released(x)
         /\ Accesses' = Accesses
<1>1. Past' = Past
  BY DEF Past
<1>2. \A u : EventsOf(u)' = EventsOf(u)
  BY DEF EventsOf
<1>3. \A x : ReleasesOf(x)' = ReleasesOf(x)
  BY DEF ReleasesOf
<1> QED
  BY <1>1, <1>2, <1>3 DEF Seen, Released, Accesses

\* Nobody knows of an access at first.
LEMMA LoggedInit == Init => LoggedInv
<1> SUFFICES ASSUME Init PROVE LoggedInv
  OBVIOUS
<1>2. (\A t \in Threads : know[t] = {}) /\ (\A m \in Locks : left[m] = {})
  BY DEF Init
<1>3. Mutexes \subseteq Locks
  BY DEF Locks
<1>4. ThreadsAreShown /\ LeftIsShown /\ ReleasesAreShown
  BY <1>2, <1>3 DEF ThreadsAreShown, LeftIsShown, ReleasesAreShown
<1>5. Len(log) = 0
  BY DEF Init
<1>6. RealOrderIsLogged
  BY <1>5 DEF RealOrderIsLogged
<1> QED
  BY <1>4, <1>6 DEF LoggedInv

\* RealOrderIsLogged with a name for the pasts.
LEMMA RealOrderInPast ==
  /\ RealOrderIsLogged <=>
       \A j \in 1..Len(log) : log[j].op \in AccessOps =>
         \A i \in real[j] : log[i].op \in AccessOps => i \in Past[j]
  /\ RealOrderIsLogged' <=>
       \A j \in 1..Len(log') : log'[j].op \in AccessOps =>
         \A i \in real'[j] : log'[i].op \in AccessOps => i \in Past'[j]
BY DEF RealOrderIsLogged, Past

\* A thread logs events; the others are not disturbed.
LEMMA LoggedWrite ==
  ASSUME TypeOK, TypeOK', RealInv, LoggedInv, NEW t \in Threads, NEW es \in Seq(EventType),
         Write(t, es), UNCHANGED <<finished, left>>,
         \A k \in 1..Len(es) : es[k].tid = t,
         \A u \in Threads : u # t => pc'[u] = pc[u] /\ cur'[u] = cur[u],
         \A k \in 1..Len(es) : es[k].op \in AccessOps => know[t] \intersect Accesses \subseteq Seen(t)
  PROVE  /\ LeftIsShown' /\ RealOrderIsLogged'
         /\ \A u \in Threads : u # t /\ (pc'[u] = "before" \/ ~finished) =>
              know'[u] \intersect Accesses' \subseteq Seen(u)' \union Due(u)'
         /\ \A u \in Threads : u # t /\ ~finished => \A x \in Passed(u)' :
              know'[u] \intersect Accesses' \subseteq Released(x)'
         /\ know'[t] \intersect Accesses' \subseteq (know[t] \intersect Accesses) \union Seen(t)'
         /\ (\A k \in 1..Len(es) : es[k].op \notin AccessOps) =>
              know'[t] \intersect Accesses' \subseteq know[t] \intersect Accesses
<1>0. PICK n \in Nat, k0 \in Nat : n = Len(log) /\ k0 = Len(es)
  BY DEF TypeOK
<1>3. /\ Len(log') = n + k0
      /\ \A j \in 1..n : log'[j] = log[j] /\ real'[j] = real[j]
      /\ \A k \in 1..k0 : log'[n + k] = es[k]
      /\ \A k \in 1..k0 : real'[n + k] = know[t] \union ((n + 1)..(n + k - 1))
      /\ know'[t] = know[t] \union ((n + 1)..(n + k0))
      /\ \A u \in Threads : u # t => know'[u] = know[u]
  <2>1. Len(real) = Len(log)
    BY DEF RealInv, KnowledgeIsClosed
  <2>2. /\ Len(log') = Len(log) + Len(es)
        /\ \A j \in 1..Len(log) : log'[j] = log[j] /\ real'[j] = real[j]
        /\ \A k \in 1..Len(es) : log'[Len(log) + k] = es[k]
        /\ \A k \in 1..Len(es) : real'[Len(log) + k] = know[t] \union ((Len(log) + 1)..(Len(log) + k - 1))
        /\ know'[t] = know[t] \union ((Len(log) + 1)..(Len(log) + Len(es)))
        /\ \A u \in Threads : u # t => know'[u] = know[u]
    BY <2>1, WriteFacts
  <2> QED
    BY <1>0, <2>2
<1>4. /\ \A u : Seen(u) \subseteq Seen(u)'
      /\ \A x : Released(x) \subseteq Released(x)'
      /\ \A i \in 1..n : i \in Accesses' <=> i \in Accesses
      /\ \A k \in 1..k0 :
              /\ Seen(t) \subseteq Past'[n + k]
              /\ (n + 1)..(n + k - 1) \subseteq Past'[n + k]
              /\ n + k \in Seen(t)'
              /\ n + k \in Accesses' <=> es[k].op \in AccessOps
      /\ \A j \in 1..n : Past'[j] = Past[j]
  BY <1>0, ShownWrite
<1>5. /\ \A u \in Threads : know[u] \subseteq 1..n
      /\ \A m \in Mutexes : left[m] \subseteq 1..n
      /\ \A j \in 1..n : real[j] \subseteq 1..n
  BY <1>0 DEF RealInv, KnowledgeIsClosed, IsClosed, Locks
<1>6. \A j \in 1..(n + k0) : j \in 1..n \/ \E k \in 1..k0 : j = n + k
  <2> SUFFICES ASSUME NEW j \in 1..(n + k0), j \notin 1..n
               PROVE  \E k \in 1..k0 : j = n + k
    OBVIOUS
  <2>1. j - n \in 1..k0 /\ j = n + (j - n)
    OBVIOUS
  <2> QED
    BY <2>1
<1>7. LeftIsShown'
  <2> SUFFICES ASSUME ~finished', NEW m \in Mutexes PROVE left'[m] \intersect Accesses' \subseteq Released(m)'
    BY DEF LeftIsShown
  <2>1. left[m] \intersect Accesses \subseteq Released(m)
    BY DEF LoggedInv, LeftIsShown
  <2> QED
    BY <1>4, <1>5, <2>1
<1>8. ASSUME NEW u \in Threads, u # t
      PROVE  know'[u] \intersect Accesses' = know[u] \intersect Accesses
  BY <1>3, <1>4, <1>5, <1>8
<1>9. ASSUME NEW u \in Threads, u # t, pc'[u] = "before" \/ ~finished
      PROVE  know'[u] \intersect Accesses' \subseteq Seen(u)' \union Due(u)'
  <2>1. know[u] \intersect Accesses \subseteq Seen(u) \union Due(u)
    BY <1>9 DEF LoggedInv, ThreadsAreShown
  <2>2. Awaited(u)' = Awaited(u)
    BY <1>9 DEF Awaited
  <2>3. Due(u) \subseteq Due(u)'
    BY <1>4, <2>2 DEF Due
  <2> QED
    BY <1>4, <1>8, <1>9, <2>1, <2>3
<1>10. ASSUME NEW u \in Threads, u # t, ~finished, NEW x \in Passed(u)'
       PROVE  know'[u] \intersect Accesses' \subseteq Released(x)'
  <2>1. x \in Passed(u)
    BY <1>10 DEF Passed
  <2>2. know[u] \intersect Accesses \subseteq Released(x)
    BY <1>10, <2>1 DEF LoggedInv, ReleasesAreShown
  <2> QED
    BY <1>4, <1>8, <1>10, <2>2
<1>11. ASSUME NEW i \in know'[t] \intersect Accesses'
       PROVE  i \in know[t] \intersect Accesses \/ \E k \in 1..k0 : i = n + k /\ es[k].op \in AccessOps
  <2>1. CASE i \in know[t]
    BY <1>4, <1>5, <1>11, <2>1
  <2>2. CASE i \in (n + 1)..(n + k0)
    <3>1. i \in 1..(n + k0) /\ i \notin 1..n
      BY <2>2
    <3> QED
      BY <1>4, <1>6, <1>11, <3>1
  <2> QED
    BY <1>3, <2>1, <2>2
<1>12. /\ know'[t] \intersect Accesses' \subseteq (know[t] \intersect Accesses) \union Seen(t)'
       /\ (\A k \in 1..k0 : es[k].op \notin AccessOps) =>
            know'[t] \intersect Accesses' \subseteq know[t] \intersect Accesses
  BY <1>4, <1>11
<1>13. RealOrderIsLogged'
  <2> SUFFICES ASSUME NEW j \in 1..(n + k0), log'[j].op \in AccessOps,
                      NEW i \in real'[j], log'[i].op \in AccessOps
               PROVE  i \in Past'[j]
    BY <1>3, RealOrderInPast
  <2>1. CASE j \in 1..n
    <3>1. i \in real[j] /\ i \in 1..n
      BY <1>3, <1>5, <2>1
    <3>2. log[j].op \in AccessOps /\ log[i].op \in AccessOps
      BY <1>3, <2>1, <3>1
    <3>3. i \in Past[j]
      BY <1>0, <2>1, <3>1, <3>2, RealOrderInPast DEF LoggedInv
    <3> QED
      BY <1>4, <2>1, <3>3
  <2>2. ASSUME NEW k \in 1..k0, j = n + k PROVE i \in Past'[j]
    <3>1. i \in know[t] \/ i \in (n + 1)..(n + k - 1)
      BY <1>3, <2>2
    <3>2. CASE i \in know[t]
      <4>1. i \in 1..n /\ log[i].op \in AccessOps
        BY <1>3, <1>5, <3>2
      <4>2. i \in Accesses
        BY <1>0, <4>1 DEF Accesses
      <4>3. know[t] \intersect Accesses \subseteq Seen(t)
        BY <1>0, <1>3, <2>2
      <4> QED
        BY <1>4, <2>2, <3>2, <4>2, <4>3
    <3>3. CASE i \in (n + 1)..(n + k - 1)
      BY <1>4, <2>2, <3>3
    <3> QED
      BY <3>1, <3>2, <3>3
  <2> QED
    BY <1>6, <2>1, <2>2
<1> QED
  BY <1>0, <1>7, <1>9, <1>10, <1>12, <1>13

\* The hook before a call: an access comes after all its thread knows, and
\* what a release passes on is in its past.
LEMMA LoggedBefore ==
  ASSUME IInv, IInv', RealInv, LoggedInv, NEW t \in Threads, Before(t)
  PROVE  LoggedInv'
<1>c. CallsOK /\ TypeOK /\ TypeOK' /\ pc \in [Threads -> {"idle", "before", "call", "asleep", "woken", "gate", "after"}]
  BY DEF IInv, TypeInv, TypeOK
<1>1. /\ UNCHANGED <<cur, finished, left>> /\ pc[t] = "before"
      /\ pc'[t] = "call" /\ (\A u \in Threads : u # t => pc'[u] = pc[u])
  BY <1>c DEF Before
<1>2. PICK es : es = BeforeEvents(t)
  OBVIOUS
<1>3. es \in Seq(EventType) /\ Write(t, es) /\ \A k \in 1..Len(es) : es[k].tid = t
  BY <1>2, <1>c, BeforeFacts, BeforeShape DEF Before
<1>4. know[t] \intersect Accesses \subseteq Seen(t)
  <2>1. Due(t) = {}
    BY <1>1 DEF Due, Awaited
  <2> QED
    BY <1>1, <2>1 DEF LoggedInv, ThreadsAreShown
<1>5. /\ LeftIsShown' /\ RealOrderIsLogged'
      /\ \A u \in Threads : u # t /\ (pc'[u] = "before" \/ ~finished) =>
           know'[u] \intersect Accesses' \subseteq Seen(u)' \union Due(u)'
      /\ \A u \in Threads : u # t /\ ~finished => \A x \in Passed(u)' :
           know'[u] \intersect Accesses' \subseteq Released(x)'
      /\ know'[t] \intersect Accesses' \subseteq (know[t] \intersect Accesses) \union Seen(t)'
      /\ (\A k \in 1..Len(es) : es[k].op \notin AccessOps) =>
           know'[t] \intersect Accesses' \subseteq know[t] \intersect Accesses
  BY <1>c, <1>1, <1>3, <1>4, LoggedWrite
<1>6. /\ Seen(t) \subseteq Seen(t)'
      /\ \A k \in 1..Len(es) :
           es[k].op \in SyncRelOps => Seen(t) \subseteq Released(es[k].obj)'
  BY <1>c, <1>3, ShownWrite
<1>7. ThreadsAreShown'
  <2>1. know'[t] \intersect Accesses' \subseteq Seen(t)'
    BY <1>4, <1>5, <1>6
  <2> QED
    BY <1>1, <1>5, <2>1 DEF ThreadsAreShown
<1>8. ASSUME NEW x \in Passed(t)' PROVE know'[t] \intersect Accesses' \subseteq Released(x)'
  <2>1. \/ x = cur[t].m /\ x \in Mutexes /\ cur[t].op \in {"unlock", "wait"}
        \/ x = cur[t].obj /\ cur[t].op \in {"signal", "broadcast"}
    BY <1>1, <1>8 DEF Passed
  <2>2. 1 \in 1..Len(es) /\ es[1].op \in SyncRelOps /\ es[1].obj = x
    BY <1>2, <1>c, <2>1, BeforeShape
  <2>3. \A k \in 1..Len(es) : es[k].op \notin AccessOps
    BY <1>2, <1>c, <2>1, BeforeShape
  <2> QED
    BY <1>4, <1>5, <1>6, <2>2, <2>3
<1>9. ReleasesAreShown'
  BY <1>1, <1>5, <1>8 DEF ReleasesAreShown
<1> QED
  BY <1>5, <1>7, <1>9 DEF LoggedInv

\* The hook after a call: what was due is shown.
LEMMA LoggedAfter ==
  ASSUME IInv, IInv', RealInv, LoggedInv, NEW t \in Threads, After(t)
  PROVE  LoggedInv'
<1>c. /\ CallsOK /\ TypeOK /\ TypeOK' /\ cur \in [Threads -> Calls]
      /\ pc \in [Threads -> {"idle", "before", "call", "asleep", "woken", "gate", "after"}]
  BY DEF IInv, TypeInv, TypeOK, CallsOK
<1>1. /\ UNCHANGED <<finished, left>> /\ pc[t] = "after"
      /\ pc'[t] = "idle" /\ (\A u \in Threads : u # t => pc'[u] = pc[u] /\ cur'[u] = cur[u])
  BY <1>c DEF After
<1>2. PICK es : es = AfterEvents(t)
  OBVIOUS
<1>3. /\ es \in Seq(EventType) /\ Write(t, es)
      /\ \A k \in 1..Len(es) : es[k].tid = t /\ es[k].op \notin AccessOps
  BY <1>2, <1>c, AfterFacts, AfterShape, NoAccess DEF After
<1>4. /\ LeftIsShown' /\ RealOrderIsLogged'
      /\ \A u \in Threads : u # t /\ (pc'[u] = "before" \/ ~finished) =>
           know'[u] \intersect Accesses' \subseteq Seen(u)' \union Due(u)'
      /\ \A u \in Threads : u # t /\ ~finished => \A x \in Passed(u)' :
           know'[u] \intersect Accesses' \subseteq Released(x)'
      /\ know'[t] \intersect Accesses' \subseteq know[t] \intersect Accesses
  BY <1>c, <1>1, <1>3, LoggedWrite
<1>5. /\ Seen(t) \subseteq Seen(t)'
      /\ \A k \in 1..Len(es) : es[k].op \in SyncAcqOps => Released(es[k].obj) \subseteq Seen(t)'
  BY <1>c, <1>3, ShownWrite
<1>6. ASSUME NEW x \in Awaited(t) PROVE Released(x) \subseteq Seen(t)'
  <2>1. \/ x = cur[t].m /\ x \in Mutexes /\ cur[t].op \in {"lock", "trylock", "wait"}
        \/ x = cur[t].obj /\ cur[t].op = "wait"
    BY <1>1, <1>6 DEF Awaited
  <2>2. \E k \in 1..Len(es) : es[k].op \in SyncAcqOps /\ es[k].obj = x
    BY <1>2, <1>c, <2>1, AfterShape
  <2> QED
    BY <1>5, <2>2
<1>7. Due(t) \subseteq Seen(t)'
  BY <1>6 DEF Due
<1>8. ThreadsAreShown'
  <2> SUFFICES ASSUME NEW u \in Threads, pc'[u] = "before" \/ ~finished
               PROVE  know'[u] \intersect Accesses' \subseteq Seen(u)' \union Due(u)'
    BY <1>1 DEF ThreadsAreShown
  <2>1. CASE u = t
    <3>1. know[t] \intersect Accesses \subseteq Seen(t) \union Due(t)
      BY <1>1, <2>1 DEF LoggedInv, ThreadsAreShown
    <3>2. know'[t] \intersect Accesses' \subseteq Seen(t)'
      BY <1>4, <1>5, <1>7, <3>1
    <3> QED
      BY <2>1, <3>2
  <2>2. CASE u # t
    BY <1>4, <2>2
  <2> QED
    BY <2>1, <2>2
<1>9. ReleasesAreShown'
  <2>1. Passed(t)' = {}
    BY <1>1 DEF Passed
  <2> QED
    BY <1>1, <1>4, <2>1 DEF ReleasesAreShown
<1> QED
  BY <1>4, <1>8, <1>9 DEF LoggedInv

\* Steps that log nothing: it is enough that a thread knows more only when
\* more is due, and passes on only what is released.
LEMMA LoggedQuiet ==
  ASSUME LoggedInv, UNCHANGED <<log, real>>,
         \A u \in Threads : pc'[u] = "before" \/ ~finished' =>
           know'[u] \intersect Accesses \subseteq Seen(u) \union UNION {Released(x) : x \in Awaited(u)'},
         ~finished' => \A m \in Mutexes : left'[m] \intersect Accesses \subseteq Released(m),
         ~finished' => \A u \in Threads : \A x \in Passed(u)' :
           know'[u] \intersect Accesses \subseteq Released(x)
  PROVE  LoggedInv'
<1>1. /\ Past' = Past
      /\ \A u : Seen(u)' = Seen(u)
      /\ \A x : Released(x)' = Released(x)
      /\ Accesses' = Accesses
  BY ShownStays
<1>2. \A u \in Threads : Due(u)' = UNION {Released(x) : x \in Awaited(u)'}
  BY <1>1 DEF Due
<1>3. ThreadsAreShown'
  BY <1>1, <1>2 DEF ThreadsAreShown
<1>4. LeftIsShown'
  BY <1>1 DEF LeftIsShown
<1>5. ReleasesAreShown'
  BY <1>1 DEF ReleasesAreShown
<1>6. RealOrderIsLogged'
  BY <1>1, RealOrderInPast DEF LoggedInv
<1> QED
  BY <1>3, <1>4, <1>5, <1>6 DEF LoggedInv

\* No step orders accesses without showing it in the log.
LEMMA LoggedNext == IInv /\ RealInv /\ LoggedInv /\ [Next]_vars => LoggedInv'
<1> SUFFICES ASSUME IInv, RealInv, LoggedInv, [Next]_vars PROVE LoggedInv'
  OBVIOUS
<1>i. IInv'
  BY NextInv
<1>c. /\ cur \in [Threads -> Calls] /\ finished \in BOOLEAN
      /\ pc \in [Threads -> {"idle", "before", "call", "asleep", "woken", "gate", "after"}]
  BY DEF IInv, TypeInv, TypeOK, CallsOK
<1>k. know \in [Threads -> SUBSET Nat] /\ left \in [Locks -> SUBSET Nat]
  BY DEF IInv, TypeInv, TypeOK
<1>s. /\ \A u \in Threads : pc[u] = "before" \/ ~finished =>
           know[u] \intersect Accesses \subseteq Seen(u) \union UNION {Released(x) : x \in Awaited(u)}
      /\ ~finished => \A m \in Mutexes : left[m] \intersect Accesses \subseteq Released(m)
      /\ ~finished => \A u \in Threads : \A x \in Passed(u) :
           know[u] \intersect Accesses \subseteq Released(x)
  BY DEF LoggedInv, ThreadsAreShown, LeftIsShown, ReleasesAreShown, Due
<1>m. Mutexes \subseteq Locks
  BY DEF Locks
\* A thread goes on without learning anything.
<1>q. ASSUME UNCHANGED <<log, real, know, left, finished>>, NEW t \in Threads,
             \A u \in Threads : u # t => pc'[u] = pc[u] /\ cur'[u] = cur[u],
             pc'[t] = "before" => ~finished,
             ~finished => Awaited(t) \subseteq Awaited(t)' /\ Passed(t)' \subseteq Passed(t)
      PROVE  LoggedInv'
  <2>1. \A u \in Threads : u # t => Awaited(u)' = Awaited(u) /\ Passed(u)' = Passed(u)
    BY <1>q DEF Awaited, Passed
  <2>2. \A u \in Threads : pc'[u] = "before" \/ ~finished =>
          know[u] \intersect Accesses \subseteq Seen(u) \union UNION {Released(x) : x \in Awaited(u)'}
    <3> SUFFICES ASSUME NEW u \in Threads, pc'[u] = "before" \/ ~finished
                 PROVE  know[u] \intersect Accesses \subseteq Seen(u) \union UNION {Released(x) : x \in Awaited(u)'}
      OBVIOUS
    <3>1. pc[u] = "before" \/ ~finished
      BY <1>q
    <3>2. Awaited(u) \subseteq Awaited(u)'
      BY <1>q, <2>1
    <3> QED
      BY <1>s, <3>1, <3>2
  <2>3. ~finished => \A u \in Threads : \A x \in Passed(u)' :
          know[u] \intersect Accesses \subseteq Released(x)
    BY <1>q, <1>s, <2>1
  <2> QED
    BY <1>q, <1>s, <2>2, <2>3, LoggedQuiet
<1>1. ASSUME NEW t \in Threads, Before(t) PROVE LoggedInv'
  BY <1>1, <1>i, LoggedBefore
<1>2. ASSUME NEW t \in Threads, After(t) PROVE LoggedInv'
  BY <1>2, <1>i, LoggedAfter
<1>3. ASSUME NEW t \in Threads, Enter(t) \/ Access(t) \/ TrylockFails(t) \/ Destroy(t) \/ WakeUp(t) \/ Gate(t)
      PROVE  LoggedInv'
  <2>1. UNCHANGED <<log, real, know, left, finished>>
    BY <1>3 DEF Enter, Access, TrylockFails, Destroy, WakeUp, Gate, realVars
  <2>2. \A u \in Threads : u # t => pc'[u] = pc[u] /\ cur'[u] = cur[u]
    BY <1>3, <1>c DEF Enter, Access, TrylockFails, Destroy, WakeUp, Gate
  <2>3. \/ pc[t] = "idle" /\ pc'[t] = IF finished THEN "call" ELSE "before"
        \/ pc[t] = "call" /\ cur[t].op = "access" /\ pc'[t] = "idle"
        \/ pc[t] = "call" /\ cur[t].op \in {"trylock", "destroy"} /\ pc'[t] = "gate" /\ cur'[t] = cur[t]
        \/ pc[t] = "asleep" /\ pc'[t] = "woken" /\ cur'[t] = cur[t]
        \/ pc[t] = "gate" /\ finished /\ pc'[t] = "idle"
        \/ pc[t] = "gate" /\ ~finished /\ pc'[t] = "after" /\ cur'[t] = cur[t]
    BY <1>3, <1>c DEF Enter, Access, TrylockFails, Destroy, WakeUp, Gate
  <2>4. ~finished => Awaited(t) \subseteq Awaited(t)' /\ Passed(t)' \subseteq Passed(t)
    BY <2>3 DEF Awaited, Passed
  <2>5. pc'[t] = "before" => ~finished
    BY <2>3, <1>c
  <2> QED
    BY <1>q, <2>1, <2>2, <2>4, <2>5
<1>4. ASSUME NEW t \in Threads, Lock(t) PROVE LoggedInv'
  <2> DEFINE n == cur[t].m
  <2>1. n \in Locks /\ cur[t].op \in {"lock", "trylock", "wait"}
    BY <1>4, <1>c, <1>m, CallFacts DEF Lock, IInv, TypeInv, Places
  <2>2. /\ UNCHANGED <<log, real, left, cur, finished>>
        /\ know' = [know EXCEPT ![t] = IF n \in Mutexes THEN @ \union left[n] ELSE @]
        /\ pc' = [pc EXCEPT ![t] = "gate"] /\ pc[t] \in {"call", "woken"}
    BY <1>4 DEF Lock, Take
  <2>3. know'[t] = IF n \in Mutexes THEN know[t] \union left[n] ELSE know[t]
    BY <2>2, <1>k
  <2>4. \A u \in Threads : u # t => know'[u] = know[u] /\ pc'[u] = pc[u]
    BY <2>2, <1>k, <1>c
  <2>5. pc'[t] = "gate"
    BY <2>2, <1>c
  <2>6. \A u \in Threads : u # t => Awaited(u)' = Awaited(u) /\ Passed(u)' = Passed(u)
    BY <2>2, <2>4 DEF Awaited, Passed
  <2>7. /\ Awaited(t) \subseteq Awaited(t)' /\ Passed(t)' = {}
        /\ n \in Mutexes => n \in Awaited(t)'
    <3>1. Passed(t)' = {}
      BY <2>5 DEF Passed
    <3>2. n \in Mutexes => n \in Awaited(t)'
      BY <2>1, <2>2, <2>5 DEF Awaited
    <3>3. pc[t] = "woken" => cur[t].op = "wait"
      BY DEF IInv, TypeInv, Places
    <3>4. Awaited(t) \subseteq Awaited(t)'
      BY <2>1, <2>2, <2>5, <3>3 DEF Awaited
    <3> QED
      BY <3>1, <3>2, <3>4
  <2>8. \A u \in Threads : pc'[u] = "before" \/ ~finished =>
          know'[u] \intersect Accesses \subseteq Seen(u) \union UNION {Released(x) : x \in Awaited(u)'}
    <3> SUFFICES ASSUME NEW u \in Threads, pc'[u] = "before" \/ ~finished
                 PROVE  know'[u] \intersect Accesses \subseteq Seen(u) \union UNION {Released(x) : x \in Awaited(u)'}
      OBVIOUS
    <3>1. CASE u # t
      BY <1>s, <2>4, <2>6, <3>1
    <3>2. CASE u = t
      <4>1. ~finished
        BY <2>5, <3>2
      <4>2. know[t] \intersect Accesses \subseteq Seen(t) \union UNION {Released(x) : x \in Awaited(t)'}
        BY <1>s, <2>7, <4>1
      <4>3. n \in Mutexes => left[n] \intersect Accesses \subseteq UNION {Released(x) : x \in Awaited(t)'}
        BY <1>s, <2>7, <4>1
      <4> HIDE DEF n
      <4> QED
        BY <2>3, <3>2, <4>2, <4>3
    <3> QED
      BY <3>1, <3>2
  <2>9. ~finished => \A u \in Threads : \A x \in Passed(u)' :
          know'[u] \intersect Accesses \subseteq Released(x)
    BY <1>s, <2>4, <2>6, <2>7
  <2> QED
    BY <1>s, <2>2, <2>8, <2>9, LoggedQuiet
<1>5. ASSUME NEW t \in Threads, Unlock(t) PROVE LoggedInv'
  <2> DEFINE n == cur[t].m
  <2>1. /\ UNCHANGED <<log, real, know, cur, finished>>
        /\ left' = [left EXCEPT ![n] = know[t]]
        /\ pc' = [pc EXCEPT ![t] = IF cur[t].op = "wait" THEN "asleep" ELSE "gate"]
        /\ pc[t] = "call" /\ cur[t].op \in {"unlock", "wait"}
    BY <1>5 DEF Unlock, Give
  <2>2. \A u \in Threads : u # t => pc'[u] = pc[u]
    BY <2>1, <1>c
  <2>3. pc'[t] = IF cur[t].op = "wait" THEN "asleep" ELSE "gate"
    BY <2>1, <1>c
  <2>4. \A u \in Threads : Awaited(u) \subseteq Awaited(u)' /\ Passed(u)' \subseteq Passed(u)
    <3> SUFFICES ASSUME NEW u \in Threads PROVE Awaited(u) \subseteq Awaited(u)' /\ Passed(u)' \subseteq Passed(u)
      OBVIOUS
    <3>1. CASE u = t
      BY <2>1, <2>3, <3>1 DEF Awaited, Passed
    <3>2. CASE u # t
      BY <2>1, <2>2, <3>2 DEF Awaited, Passed
    <3> QED
      BY <3>1, <3>2
  <2>5. \A u \in Threads : pc'[u] = "before" => pc[u] = "before"
    BY <2>2, <2>3
  <2>6. \A u \in Threads : pc'[u] = "before" \/ ~finished =>
          know[u] \intersect Accesses \subseteq Seen(u) \union UNION {Released(x) : x \in Awaited(u)'}
    <3> SUFFICES ASSUME NEW u \in Threads, pc'[u] = "before" \/ ~finished
                 PROVE  know[u] \intersect Accesses \subseteq Seen(u) \union UNION {Released(x) : x \in Awaited(u)'}
      OBVIOUS
    <3>1. know[u] \intersect Accesses \subseteq Seen(u) \union UNION {Released(x) : x \in Awaited(u)}
      BY <1>s, <2>5
    <3> QED
      BY <2>4, <3>1
  <2>7. ~finished => \A m \in Mutexes : left'[m] \intersect Accesses \subseteq Released(m)
    <3> SUFFICES ASSUME ~finished, NEW m \in Mutexes PROVE left'[m] \intersect Accesses \subseteq Released(m)
      OBVIOUS
    <3>1. CASE m = n
      <4>1. m \in Passed(t)
        BY <2>1, <3>1 DEF Passed
      <4>2. left'[m] = know[t]
        BY <1>k, <1>m, <2>1, <3>1
      <4> QED
        BY <1>s, <4>1, <4>2
    <3>2. CASE m # n
      <4>1. left'[m] = left[m]
        BY <1>k, <1>m, <2>1, <3>2
      <4> QED
        BY <1>s, <4>1
    <3> QED
      BY <3>1, <3>2
  <2>8. ~finished => \A u \in Threads : \A x \in Passed(u)' :
          know[u] \intersect Accesses \subseteq Released(x)
    BY <1>s, <2>4
  <2> QED
    BY <2>1, <2>6, <2>7, <2>8, LoggedQuiet
<1>6. ASSUME NEW t \in Threads, Signal(t) PROVE LoggedInv'
  <2> DEFINE waiting == {u \in Threads : pc[u] = "asleep" /\ cur[u].obj = cur[t].obj}
  <2>1. PICK woken \in SUBSET waiting :
          /\ pc' = [u \in Threads |-> IF u \in woken THEN "woken"
                                       ELSE IF u = t THEN "gate" ELSE pc[u]]
          /\ know' = [u \in Threads |-> IF u \in woken THEN know[u] \union know[t]
                                         ELSE know[u]]
    BY <1>6 DEF Signal
  <2>2. UNCHANGED <<log, real, left, cur, finished>> /\ pc[t] = "call" /\ cur[t].op \in {"signal", "broadcast"}
    BY <1>6 DEF Signal
  <2>3. \A u \in woken : u \in Threads /\ pc[u] = "asleep" /\ cur[u].obj = cur[t].obj
    OBVIOUS
  <2> HIDE DEF waiting
  <2>4. cur[t].obj \in Conds
    BY <2>2, <1>c, CallFacts
  <2>5. \A u \in Threads : Passed(u)' \subseteq Passed(u) /\ (u \in woken => Passed(u)' = {})
    BY <2>1, <2>2 DEF Passed
  <2>6. \A u \in Threads : Awaited(u) \subseteq Awaited(u)'
    <3> SUFFICES ASSUME NEW u \in Threads PROVE Awaited(u) \subseteq Awaited(u)'
      OBVIOUS
    <3>1. CASE u \in woken \/ u = t
      <4>1. Awaited(u) = {}
        BY <2>2, <2>3, <3>1 DEF Awaited
      <4> QED
        BY <4>1
    <3>2. CASE u \notin woken /\ u # t
      BY <2>1, <2>2, <3>2 DEF Awaited
    <3> QED
      BY <3>1, <3>2
  <2>7. \A u \in woken : cur[t].obj \in Awaited(u)'
    BY <2>1, <2>2, <2>3, <2>4 DEF Awaited
  <2>8. ~finished => know[t] \intersect Accesses \subseteq Released(cur[t].obj)
    <3>1. cur[t].obj \in Passed(t)
      BY <2>2, <2>4 DEF Passed
    <3> QED
      BY <1>s, <3>1
  <2>9. \A u \in Threads : pc'[u] = "before" \/ ~finished =>
          know'[u] \intersect Accesses \subseteq Seen(u) \union UNION {Released(x) : x \in Awaited(u)'}
    <3> SUFFICES ASSUME NEW u \in Threads, pc'[u] = "before" \/ ~finished
                 PROVE  know'[u] \intersect Accesses \subseteq Seen(u) \union UNION {Released(x) : x \in Awaited(u)'}
      OBVIOUS
    <3>1. pc[u] = "before" \/ ~finished
      BY <2>1
    <3>2. know[u] \intersect Accesses \subseteq Seen(u) \union UNION {Released(x) : x \in Awaited(u)'}
      BY <1>s, <2>6, <3>1
    <3>3. CASE u \in woken
      <4>1. ~finished
        BY <2>1, <3>3
      <4>2. know[t] \intersect Accesses \subseteq UNION {Released(x) : x \in Awaited(u)'}
        BY <2>7, <2>8, <3>3, <4>1
      <4>3. know'[u] = know[u] \union know[t]
        BY <2>1, <3>3
      <4> QED
        BY <3>2, <4>2, <4>3
    <3>4. CASE u \notin woken
      BY <2>1, <3>2, <3>4
    <3> QED
      BY <3>3, <3>4
  <2>10. ~finished => \A u \in Threads : \A x \in Passed(u)' :
           know'[u] \intersect Accesses \subseteq Released(x)
    BY <1>s, <2>1, <2>5
  <2> QED
    BY <1>s, <2>2, <2>9, <2>10, LoggedQuiet
<1>7. CASE Exit
  <2>1. UNCHANGED <<log, real, know, left, pc, cur>> /\ ~finished /\ finished'
    BY <1>7 DEF Exit, realVars
  <2>2. \A u \in Threads : Awaited(u)' = Awaited(u)
    BY <2>1 DEF Awaited
  <2> QED
    BY <1>s, <2>1, <2>2, LoggedQuiet
<1>8. CASE UNCHANGED vars
  <2>1. UNCHANGED <<log, real, know, left, finished, pc, cur>>
    BY <1>8 DEF vars, realVars
  <2>2. \A u \in Threads : Awaited(u)' = Awaited(u) /\ Passed(u)' = Passed(u)
    BY <2>1 DEF Awaited, Passed
  <2> QED
    BY <1>s, <2>1, <2>2, LoggedQuiet
<1> QED
  BY <1>1, <1>2, <1>3, <1>4, <1>5, <1>6, <1>7, <1>8 DEF Next, Step

\* No false race, for any number of threads, mutexes and condition variables
\* and calls, and wherever the program exits: an access that one of them made
\* come after another comes after it in the order the detector computes.
THEOREM OrderIsLogged == Spec => []RealOrderIsLogged
<1>1. Init => IInv /\ RealInv /\ LoggedInv
  BY InitInv, RealInit, LoggedInit
<1>2. (IInv /\ RealInv /\ LoggedInv) /\ [Next]_vars => (IInv /\ RealInv /\ LoggedInv)'
  BY NextInv, RealNext, LoggedNext
<1>3. LoggedInv => RealOrderIsLogged
  BY DEF LoggedInv
<1> QED
  BY <1>1, <1>2, <1>3, PTL DEF Spec

==============================================================================
