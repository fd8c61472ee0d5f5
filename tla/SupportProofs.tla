---------------------------- MODULE SupportProofs ---------------------------
(***************************************************************************)
(* Proofs about Config, LibcHooks and SrcInfo: the parts that the runtime  *)
(* and its traces rely on.  Each module has an inductive invariant here.   *)
(*                                                                         *)
(* Config, for any set of threads: who is inside the lock, and what is     *)
(* known of instance_ at each place there.  Nobody, until the second test; *)
(* then that there is none; then that it is the one this thread has made.  *)
(*                                                                         *)
(* LibcHooks, for any objects and any size of them: what was logged of the *)
(* call that runs, from which memory, and what it has touched since.  How  *)
(* the two compare is a lemma about the functions, one by one.             *)
(*                                                                         *)
(* SrcInfo, for any files, names and texts.  A name is entered once; a     *)
(* transaction writes ids of its own module, what was collected has its    *)
(* line, and each row is of a text of its file; the table has a whole text *)
(* of a file, which another file does not touch.                           *)
(***************************************************************************)
EXTENDS SrcInfo, LibcHooks, Config, FiniteSetTheorems, WellFoundedInduction, TLAPS

---------------------------------------------------------------------------
(* getConfig.                                                              *)


\* The places in getConfig at which a thread holds mutex_.
Critical == {"again", "load", "store", "check", "unlock"}

\* Only the holder is inside.
Exclusive == \A t \in Threads : at[t] \in Critical => mutex = t

\* What a thread at each place may rely on.
KnownInside ==
  \A t \in Threads :
    /\ at[t] = "load" => instance = NoOne
    /\ at[t] = "store" => instance = NoOne /\ tmp[t] = t
    /\ at[t] \in {"check", "unlock", "return"} => instance # NoOne /\ tmp[t] = instance

ConfigInv == ConfigTypeOK /\ Exclusive /\ KnownInside

LEMMA ConfigInvInit == ConfigInit => ConfigInv
BY ConfigAssumption DEF ConfigInit, ConfigInv, ConfigTypeOK, Exclusive, KnownInside, Critical, Labels, Questions

\* A step that leaves the lock, instance_ and the other threads alone keeps
\* what is known, if the thread itself has a right to be where it goes.
LEMMA LocalStep ==
  ASSUME ConfigInv, NEW t \in Threads, NEW l \in Labels, NEW c \in Threads \union {NoOne},
         Goto(t, l), tmp' = [tmp EXCEPT ![t] = c],
         UNCHANGED <<instance, mutex, enable, reuseTid, freeMem, asked>>,
         l \in Critical => mutex = t,
         l = "load" => instance = NoOne,
         l = "store" => instance = NoOne /\ c = t,
         l \in {"check", "unlock", "return"} => instance # NoOne /\ c = instance
  PROVE  ConfigInv'
<1>1. ConfigTypeOK'
  BY DEF ConfigInv, ConfigTypeOK, Goto, Questions
<1>2. \A u \in Threads : at'[u] = (IF u = t THEN l ELSE at[u])
                       /\ tmp'[u] = (IF u = t THEN c ELSE tmp[u])
  BY DEF ConfigInv, ConfigTypeOK, Goto
<1>3. Exclusive'
  BY <1>2 DEF ConfigInv, Exclusive
<1>4. KnownInside'
  BY <1>2 DEF ConfigInv, KnownInside
<1> QED
  BY <1>1, <1>3, <1>4 DEF ConfigInv

LEMMA ConfigInvNext == ConfigInv /\ [ConfigNext]_configVars => ConfigInv'
<1> SUFFICES ASSUME ConfigInv, [ConfigNext]_configVars PROVE ConfigInv'
  OBVIOUS
<1>1. ASSUME NEW t \in Threads, Call(t) PROVE ConfigInv'
  <2>1. IF instance = NoOne THEN "lock" \in Labels ELSE "return" \in Labels
    BY DEF Labels
  <2> QED
    BY <1>1, <2>1, LocalStep DEF ConfigInv, ConfigTypeOK, Call, Hold, Labels, Critical
<1>2. ASSUME NEW t \in Threads, Lock(t) PROVE ConfigInv'
  <2>1. ConfigTypeOK'
    BY <1>2 DEF ConfigInv, ConfigTypeOK, Lock, Goto, Labels, Questions
  <2>2. \A u \in Threads : u # t => at[u] \notin Critical /\ at'[u] = at[u]
    BY <1>2, ConfigAssumption DEF ConfigInv, ConfigTypeOK, Lock, Goto, Exclusive
  <2>3. at'[t] = "again"
    BY <1>2 DEF ConfigInv, ConfigTypeOK, Lock, Goto
  <2>4. Exclusive'
    BY <1>2, <2>2, <2>3 DEF Lock, Exclusive
  <2>5. KnownInside'
    BY <1>2, <2>2, <2>3 DEF ConfigInv, Lock, KnownInside
  <2> QED
    BY <2>1, <2>4, <2>5 DEF ConfigInv
<1>3. ASSUME NEW t \in Threads, Again(t) PROVE ConfigInv'
  BY <1>3, LocalStep DEF ConfigInv, ConfigTypeOK, Exclusive, Again, Hold, Labels, Critical
<1>4. ASSUME NEW t \in Threads, Load(t) PROVE ConfigInv'
  BY <1>4, LocalStep DEF ConfigInv, ConfigTypeOK, Exclusive, KnownInside, Load, Hold, Labels, Critical
<1>5. ASSUME NEW t \in Threads, Store(t) PROVE ConfigInv'
  <2>1. ConfigTypeOK'
    BY <1>5 DEF ConfigInv, ConfigTypeOK, Store, Goto, Labels, Questions
  <2>2. \A u \in Threads : u # t => at[u] \notin Critical /\ at'[u] = at[u]
    BY <1>5 DEF ConfigInv, ConfigTypeOK, Store, Goto, Exclusive, Critical
  <2>3. at'[t] = "check" /\ instance = NoOne /\ instance' = t /\ tmp'[t] = t /\ mutex' = t
    BY <1>5 DEF ConfigInv, ConfigTypeOK, Store, Goto, Exclusive, KnownInside, Critical
  <2>4. Exclusive'
    BY <2>2, <2>3 DEF Exclusive
  <2>5. \A u \in Threads : u # t => at[u] # "return"
    BY <2>3 DEF ConfigInv, KnownInside
  <2>6. KnownInside'
    BY <2>2, <2>3, <2>5, ConfigAssumption DEF KnownInside, Critical
  <2> QED
    BY <2>1, <2>4, <2>6 DEF ConfigInv
<1>6. ASSUME NEW t \in Threads, Ask(t) PROVE ConfigInv'
  BY <1>6 DEF ConfigInv, ConfigTypeOK, Exclusive, KnownInside, Ask, Questions
<1>7. ASSUME NEW t \in Threads, Check(t) PROVE ConfigInv'
  <2>1. CASE Passes
    <3>1. Goto(t, "unlock") /\ UNCHANGED <<instance, mutex, enable, reuseTid, freeMem, asked>>
      BY <1>7, <2>1 DEF Check, Goto
    <3>2. tmp' = [tmp EXCEPT ![t] = tmp[t]] /\ tmp[t] \in Threads \union {NoOne}
      BY <1>7 DEF Check, ConfigInv, ConfigTypeOK
    <3>3. mutex = t /\ instance # NoOne /\ tmp[t] = instance
      BY <1>7 DEF Check, ConfigInv, Exclusive, KnownInside, Critical
    <3> QED
      BY <3>1, <3>2, <3>3, LocalStep DEF Labels
  <2>2. CASE ~Passes
    BY <1>7, <2>2 DEF ConfigInv, ConfigTypeOK, Exclusive, KnownInside, Check, Labels, Critical, Questions
  <2> QED
    BY <2>1, <2>2
<1>8. ASSUME NEW t \in Threads, Unlock(t) PROVE ConfigInv'
  <2>1. ConfigTypeOK'
    BY <1>8 DEF ConfigInv, ConfigTypeOK, Unlock, Goto, Labels, Questions
  <2>2. \A u \in Threads : u # t => at[u] \notin Critical /\ at'[u] = at[u]
    BY <1>8 DEF ConfigInv, ConfigTypeOK, Unlock, Goto, Exclusive, Critical
  <2>3. at'[t] = "return"
    BY <1>8 DEF ConfigInv, ConfigTypeOK, Unlock, Goto
  <2>4. Exclusive'
    BY <2>2, <2>3 DEF Exclusive, Critical
  <2>5. KnownInside'
    BY <1>8, <2>2, <2>3 DEF ConfigInv, Unlock, KnownInside
  <2> QED
    BY <2>1, <2>4, <2>5 DEF ConfigInv
<1>9. CASE UNCHANGED configVars
  BY <1>9 DEF ConfigInv, ConfigTypeOK, Exclusive, KnownInside, configVars, Questions
<1> QED
  BY <1>1, <1>2, <1>3, <1>4, <1>5, <1>6, <1>7, <1>8, <1>9 DEF ConfigNext, GetConfig

LEMMA ConfigInvHolds == ConfigSpec => []ConfigInv
BY ConfigInvInit, ConfigInvNext, PTL DEF ConfigSpec

\* The configurations, the lock and the place of every thread stay in their
\* types, however many threads call getConfig at once.
THEOREM ConfigTypeCorrect == ConfigSpec => []ConfigTypeOK
BY ConfigInvHolds, PTL DEF ConfigInv

\* Every caller of getConfig comes back with the one published configuration.
THEOREM OneConfigHolds == ConfigSpec => []OneConfig
<1>1. ConfigInv => OneConfig
  BY DEF ConfigInv, KnownInside, OneConfig
<1> QED
  BY <1>1, ConfigInvHolds, PTL

\* checkConfig, which calls getConfig while its thread holds the lock, never
\* waits for that lock: the configuration has been published before.
THEOREM CheckNeverBlocks ==
  ConfigSpec => [](\A t \in Threads : at[t] = "check" => instance # NoOne /\ mutex = t)
<1>1. ConfigInv => \A t \in Threads : at[t] = "check" => instance # NoOne /\ mutex = t
  BY DEF ConfigInv, KnownInside, Exclusive, Critical
<1> QED
  BY <1>1, ConfigInvHolds, PTL

---------------------------------------------------------------------------
(* The hooks of libc: what is logged of a call and what it does.           *)

\* A set of naturals that is not empty has a least element.
LEMMA LeastNatural ==
  ASSUME NEW T \in SUBSET Nat, T # {}
  PROVE  \E x \in T : \A y \in T : x <= y
<1> DEFINE R == {ss \in Nat \X Nat : ss[1] < ss[2]}
<1>1. IsWellFoundedOn(R, Nat)
  BY NatLessThanWellFounded DEF OpToRel
<1>2. PICK x \in T : \A y \in T : ~ (<<y, x>> \in R)
  <2> HIDE DEF R
  <2> QED BY <1>1, WFMin
<1>3. \A y \in T : ~ (y < x)
  <2> SUFFICES ASSUME NEW y \in T, y < x PROVE FALSE
    OBVIOUS
  <2>1. <<y, x>> \in Nat \X Nat /\ <<y, x>>[1] = y /\ <<y, x>>[2] = x
    OBVIOUS
  <2> QED BY <1>2, <2>1
<1>4. x \in Nat /\ \A y \in T : y \in Nat
  OBVIOUS
<1> QED BY <1>3, <1>4


Memory == [Objects -> [Offsets -> {0, 1}]]
CallType == [f : Functions, a : Objects, b : Objects, n : 0..Size]

LEMMA StrLenTells ==
  ASSUME NEW m \in Memory, NEW o \in Objects
  PROVE  /\ StrLen(m, o) \in Nat
         /\ StrLen(m, o) < Size => m[o][StrLen(m, o)] = 0
<1>1. Size \in Nat
  BY ObjectsAssumption
<1>2. CASE \A i \in Offsets : m[o][i] # 0
  BY <1>1, <1>2 DEF StrLen
<1>3. CASE \E i \in Offsets : m[o][i] = 0
  <2> DEFINE T == {i \in Offsets : m[o][i] = 0}
             IsFirst(i) == m[o][i] = 0 /\ \A j \in 0..(i - 1) : m[o][j] # 0
  <2>1. PICK i \in T : \A j \in T : i <= j
    <3>1. T \in SUBSET Nat /\ T # {}
      BY <1>1, <1>3 DEF Offsets
    <3> HIDE DEF T
    <3> QED BY <3>1, LeastNatural
  <2>2. i \in Offsets /\ IsFirst(i)
    <3>1. \A j \in 0..(i - 1) : j \in Offsets /\ j < i
      BY <1>1, <2>1 DEF Offsets
    <3>2. \A j \in 0..(i - 1) : j \notin T
      BY <1>1, <2>1, <3>1 DEF Offsets
    <3> QED BY <2>1, <3>1, <3>2
  <2>3. StrLen(m, o) = CHOOSE j \in Offsets : IsFirst(j)
    BY <1>3 DEF StrLen
  <2>4. StrLen(m, o) \in Offsets /\ IsFirst(StrLen(m, o))
    <3> HIDE DEF IsFirst
    <3> QED BY <2>2, <2>3
  <2> QED BY <1>1, <2>4 DEF Offsets
<1> QED BY <1>2, <1>3

\* Access q is logged where the call makes access r: it may fall short by one
\* byte, when reading by the one at the length of a string.
Follows(m, q, r) ==
  /\ q.op = r.op /\ q.obj = r.obj /\ q.from = r.from
  /\ r.len <= q.len + 1
  /\ r.op = "LD" /\ r.len = q.len + 1 => q.from = 0 /\ q.len = StrLen(m, r.obj)

\* A logged write is a write of the call.
Makes(q, r) ==
  q.op = r.op /\ q.obj = r.obj /\ q.from = r.from /\ q.len <= r.len

AccessType == [op : {"LD", "ST"}, obj : Objects, from : Nat, len : Nat]

\* What there is to know of a call's accesses C and of those that are logged, L.
Compares(m, c, C, L) ==
  /\ C \subseteq AccessType /\ L \subseteq AccessType
  /\ \A r, s \in C : r.op = "ST" /\ s.op = "ST" => r = s
  /\ c.f \notin Silent => \A r \in C : \E q \in L : Follows(m, q, r)
  /\ c.f \notin {"strncpy", "strncat"} => \A q \in L : q.op = "ST" => \E r \in C : Makes(q, r)
  /\ c.f \notin {"strncmp", "strncpy"} =>
       \A o \in Measured(c) : Access("LD", o, 0, StrLen(m, o) + 1) \in C

LEMMA AccessIs ==
  ASSUME NEW op \in {"LD", "ST"}, NEW o \in Objects, NEW i \in Nat, NEW l \in Nat
  PROVE  Access(op, o, i, l) \in AccessType /\ Access(op, o, i, l).op = op
BY DEF Access, AccessType

LEMMA HookCompares ==
  ASSUME NEW m \in Memory, NEW c \in CallType
  PROVE  Compares(m, c, Contract(m, c), Logged(m, c))
<1>1. PICK a \in Objects, b \in Objects, n \in Nat : a = c.a /\ b = c.b /\ n = c.n
  BY ObjectsAssumption DEF CallType
<1>2. PICK la \in Nat, lb \in Nat : la = StrLen(m, a) /\ lb = StrLen(m, b)
  BY StrLenTells
<1>3. PICK C, L : C = Contract(m, c) /\ L = Logged(m, c)
  OBVIOUS
<1> USE DEF Compares
<1>4. PICK ka \in Nat, kb \in Nat, k \in Nat, g \in Nat :
        /\ ka = Lesser(n, la + 1) /\ ka <= la + 1
        /\ kb = Lesser(n, lb + 1) /\ kb <= lb + 1 /\ kb <= n
        /\ k = Lesser(n, lb) /\ k <= n
        /\ g = Greater(lb, n) /\ lb <= g /\ n <= g
  BY DEF Lesser, Greater
<1>5. CASE c.f = "memchr"
  <2>1. /\ C = {Access("LD", a, 0, n)}
        /\ L = {Access("LD", a, 0, n)}
        /\ Measured(c) = {}
    BY <1>1, <1>2, <1>3, <1>5 DEF Contract, Logged, Measured, ReadsOne, ReadsTwo
  <2>2. C \subseteq AccessType /\ L \subseteq AccessType
    BY <2>1, AccessIs
  <2>3. \A r, s \in C : r.op = "ST" /\ s.op = "ST" => r = s
    BY <2>1, AccessIs
  <2>4. /\ Follows(m, Access("LD", a, 0, n), Access("LD", a, 0, n))
    BY <1>2 DEF Follows, Access
  <2>5. \A r \in C : \E q \in L : Follows(m, q, r)
    BY <2>1, <2>4
  <2>6. \A q \in L : q.op = "ST" => \E r \in C : Makes(q, r)
    BY <2>1, <2>4, AccessIs
  <2>7. \A o \in Measured(c) : Access("LD", o, 0, StrLen(m, o) + 1) \in C
    BY <1>2, <2>1
  <2> QED BY <1>3, <1>5, <2>2, <2>3, <2>5, <2>6, <2>7
<1>6. CASE c.f = "memcmp"
  <2>1. /\ C = {Access("LD", a, 0, n), Access("LD", b, 0, n)}
        /\ L = {Access("LD", a, 0, n), Access("LD", b, 0, n)}
        /\ Measured(c) = {}
    BY <1>1, <1>2, <1>3, <1>6 DEF Contract, Logged, Measured, ReadsOne, ReadsTwo
  <2>2. C \subseteq AccessType /\ L \subseteq AccessType
    BY <2>1, AccessIs
  <2>3. \A r, s \in C : r.op = "ST" /\ s.op = "ST" => r = s
    BY <2>1, AccessIs
  <2>4. /\ Follows(m, Access("LD", a, 0, n), Access("LD", a, 0, n))
        /\ Follows(m, Access("LD", b, 0, n), Access("LD", b, 0, n))
    BY <1>2 DEF Follows, Access
  <2>5. \A r \in C : \E q \in L : Follows(m, q, r)
    BY <2>1, <2>4
  <2>6. \A q \in L : q.op = "ST" => \E r \in C : Makes(q, r)
    BY <2>1, <2>4, AccessIs
  <2>7. \A o \in Measured(c) : Access("LD", o, 0, StrLen(m, o) + 1) \in C
    BY <1>2, <2>1
  <2> QED BY <1>3, <1>6, <2>2, <2>3, <2>5, <2>6, <2>7
<1>7. CASE c.f \in {"memcpy", "memmove"}
  <2>1. /\ C = {Access("LD", b, 0, n), Access("ST", a, 0, n)}
        /\ L = {Access("LD", b, 0, n), Access("ST", a, 0, n)}
        /\ Measured(c) = {}
    BY <1>1, <1>2, <1>3, <1>7 DEF Contract, Logged, Measured, ReadsOne, ReadsTwo
  <2>2. C \subseteq AccessType /\ L \subseteq AccessType
    BY <2>1, AccessIs
  <2>3. \A r, s \in C : r.op = "ST" /\ s.op = "ST" => r = s
    BY <2>1, AccessIs
  <2>4. /\ Follows(m, Access("LD", b, 0, n), Access("LD", b, 0, n))
        /\ Follows(m, Access("ST", a, 0, n), Access("ST", a, 0, n))
        /\ Makes(Access("ST", a, 0, n), Access("ST", a, 0, n))
    BY <1>2 DEF Follows, Access, Makes
  <2>5. \A r \in C : \E q \in L : Follows(m, q, r)
    BY <2>1, <2>4
  <2>6. \A q \in L : q.op = "ST" => \E r \in C : Makes(q, r)
    BY <2>1, <2>4, AccessIs
  <2>7. \A o \in Measured(c) : Access("LD", o, 0, StrLen(m, o) + 1) \in C
    BY <1>2, <2>1
  <2> QED BY <1>3, <1>7, <2>2, <2>3, <2>5, <2>6, <2>7
<1>8. CASE c.f = "memset"
  <2>1. /\ C = {Access("ST", a, 0, n)}
        /\ L = {Access("ST", a, 0, n)}
        /\ Measured(c) = {}
    BY <1>1, <1>2, <1>3, <1>8 DEF Contract, Logged, Measured, ReadsOne, ReadsTwo
  <2>2. C \subseteq AccessType /\ L \subseteq AccessType
    BY <2>1, AccessIs
  <2>3. \A r, s \in C : r.op = "ST" /\ s.op = "ST" => r = s
    BY <2>1, AccessIs
  <2>4. /\ Follows(m, Access("ST", a, 0, n), Access("ST", a, 0, n))
        /\ Makes(Access("ST", a, 0, n), Access("ST", a, 0, n))
    BY <1>2 DEF Follows, Access, Makes
  <2>5. \A r \in C : \E q \in L : Follows(m, q, r)
    BY <2>1, <2>4
  <2>6. \A q \in L : q.op = "ST" => \E r \in C : Makes(q, r)
    BY <2>1, <2>4, AccessIs
  <2>7. \A o \in Measured(c) : Access("LD", o, 0, StrLen(m, o) + 1) \in C
    BY <1>2, <2>1
  <2> QED BY <1>3, <1>8, <2>2, <2>3, <2>5, <2>6, <2>7
<1>9. CASE c.f = "strcat"
  <2>1. /\ C = {Access("LD", b, 0, lb + 1), Access("LD", a, 0, la + 1), Access("ST", a, la, lb + 1)}
        /\ L = {Access("LD", b, 0, lb), Access("LD", a, 0, la), Access("ST", a, la, lb)}
        /\ Measured(c) = {a, b}
    BY <1>1, <1>2, <1>3, <1>9 DEF Contract, Logged, Measured, ReadsOne, ReadsTwo
  <2>2. C \subseteq AccessType /\ L \subseteq AccessType
    BY <2>1, AccessIs
  <2>3. \A r, s \in C : r.op = "ST" /\ s.op = "ST" => r = s
    BY <2>1, AccessIs
  <2>4. /\ Follows(m, Access("LD", b, 0, lb), Access("LD", b, 0, lb + 1))
        /\ Follows(m, Access("LD", a, 0, la), Access("LD", a, 0, la + 1))
        /\ Follows(m, Access("ST", a, la, lb), Access("ST", a, la, lb + 1))
        /\ Makes(Access("ST", a, la, lb), Access("ST", a, la, lb + 1))
    BY <1>2 DEF Follows, Access, Makes
  <2>5. \A r \in C : \E q \in L : Follows(m, q, r)
    BY <2>1, <2>4
  <2>6. \A q \in L : q.op = "ST" => \E r \in C : Makes(q, r)
    BY <2>1, <2>4, AccessIs
  <2>7. \A o \in Measured(c) : Access("LD", o, 0, StrLen(m, o) + 1) \in C
    BY <1>2, <2>1
  <2> QED BY <1>3, <1>9, <2>2, <2>3, <2>5, <2>6, <2>7
<1>10. CASE c.f = "strncat"
  <2>1. /\ C = {Access("LD", b, 0, kb), Access("LD", a, 0, la + 1), Access("ST", a, la, k + 1)}
        /\ L = {Access("LD", b, 0, n), Access("LD", a, 0, la), Access("ST", a, la, n)}
        /\ Measured(c) = {a}
    BY <1>1, <1>2, <1>3, <1>4, <1>10 DEF Contract, Logged, Measured, ReadsOne, ReadsTwo
  <2>2. C \subseteq AccessType /\ L \subseteq AccessType
    BY <2>1, AccessIs
  <2>3. \A r, s \in C : r.op = "ST" /\ s.op = "ST" => r = s
    BY <2>1, AccessIs
  <2>4. /\ Follows(m, Access("LD", b, 0, n), Access("LD", b, 0, kb))
        /\ Follows(m, Access("LD", a, 0, la), Access("LD", a, 0, la + 1))
        /\ Follows(m, Access("ST", a, la, n), Access("ST", a, la, k + 1))
    BY <1>4, <1>2 DEF Follows, Access
  <2>5. \A r \in C : \E q \in L : Follows(m, q, r)
    BY <2>1, <2>4
  <2>6. \A o \in Measured(c) : Access("LD", o, 0, StrLen(m, o) + 1) \in C
    BY <1>2, <2>1
  <2> QED BY <1>3, <1>10, <2>2, <2>3, <2>5, <2>6
<1>11. CASE c.f \in ReadsOne
  <2>1. /\ C = {Access("LD", a, 0, la + 1)}
        /\ L = {Access("LD", a, 0, la)}
        /\ Measured(c) = {a}
    BY <1>1, <1>2, <1>3, <1>11 DEF Contract, Logged, Measured, ReadsOne, ReadsTwo
  <2>2. C \subseteq AccessType /\ L \subseteq AccessType
    BY <2>1, AccessIs
  <2>3. \A r, s \in C : r.op = "ST" /\ s.op = "ST" => r = s
    BY <2>1, AccessIs
  <2>4. /\ Follows(m, Access("LD", a, 0, la), Access("LD", a, 0, la + 1))
    BY <1>2 DEF Follows, Access
  <2>5. \A r \in C : \E q \in L : Follows(m, q, r)
    BY <2>1, <2>4
  <2>6. \A q \in L : q.op = "ST" => \E r \in C : Makes(q, r)
    BY <2>1, <2>4, AccessIs
  <2>7. \A o \in Measured(c) : Access("LD", o, 0, StrLen(m, o) + 1) \in C
    BY <1>2, <2>1
  <2> QED BY <1>3, <1>11, <2>2, <2>3, <2>5, <2>6, <2>7
<1>12. CASE c.f = "strncmp"
  <2>1. /\ C = {Access("LD", a, 0, ka), Access("LD", b, 0, kb)}
        /\ L = {Access("LD", a, 0, la), Access("LD", b, 0, lb)}
        /\ Measured(c) = {a, b}
    BY <1>1, <1>2, <1>3, <1>4, <1>12 DEF Contract, Logged, Measured, ReadsOne, ReadsTwo
  <2>2. C \subseteq AccessType /\ L \subseteq AccessType
    BY <2>1, AccessIs
  <2>3. \A r, s \in C : r.op = "ST" /\ s.op = "ST" => r = s
    BY <2>1, AccessIs
  <2>4. /\ Follows(m, Access("LD", a, 0, la), Access("LD", a, 0, ka))
        /\ Follows(m, Access("LD", b, 0, lb), Access("LD", b, 0, kb))
    BY <1>4, <1>2 DEF Follows, Access
  <2>5. \A r \in C : \E q \in L : Follows(m, q, r)
    BY <2>1, <2>4
  <2>6. \A q \in L : q.op = "ST" => \E r \in C : Makes(q, r)
    BY <2>1, <2>4, AccessIs
  <2> QED BY <1>3, <1>12, <2>2, <2>3, <2>5, <2>6
<1>13. CASE c.f \in ReadsTwo \ {"strncmp"}
  <2>1. /\ C = {Access("LD", a, 0, la + 1), Access("LD", b, 0, lb + 1)}
        /\ L = {Access("LD", a, 0, la), Access("LD", b, 0, lb)}
        /\ Measured(c) = {a, b}
    BY <1>1, <1>2, <1>3, <1>13 DEF Contract, Logged, Measured, ReadsOne, ReadsTwo
  <2>2. C \subseteq AccessType /\ L \subseteq AccessType
    BY <2>1, AccessIs
  <2>3. \A r, s \in C : r.op = "ST" /\ s.op = "ST" => r = s
    BY <2>1, AccessIs
  <2>4. /\ Follows(m, Access("LD", a, 0, la), Access("LD", a, 0, la + 1))
        /\ Follows(m, Access("LD", b, 0, lb), Access("LD", b, 0, lb + 1))
    BY <1>2 DEF Follows, Access
  <2>5. \A r \in C : \E q \in L : Follows(m, q, r)
    BY <2>1, <2>4
  <2>6. \A q \in L : q.op = "ST" => \E r \in C : Makes(q, r)
    BY <2>1, <2>4, AccessIs
  <2>7. \A o \in Measured(c) : Access("LD", o, 0, StrLen(m, o) + 1) \in C
    BY <1>2, <2>1
  <2> QED BY <1>3, <1>13, <2>2, <2>3, <2>5, <2>6, <2>7
<1>14. CASE c.f = "strcoll"
  <2>1. /\ C = {Access("LD", a, 0, la + 1), Access("LD", b, 0, lb + 1)}
        /\ L = {}
        /\ Measured(c) = {}
    BY <1>1, <1>2, <1>3, <1>14 DEF Contract, Logged, Measured, ReadsOne, ReadsTwo
  <2>2. C \subseteq AccessType /\ L \subseteq AccessType
    BY <2>1, AccessIs
  <2>3. \A r, s \in C : r.op = "ST" /\ s.op = "ST" => r = s
    BY <2>1, AccessIs
  <2>4. \A q \in L : q.op = "ST" => \E r \in C : Makes(q, r)
    BY <2>1, AccessIs
  <2>5. \A o \in Measured(c) : Access("LD", o, 0, StrLen(m, o) + 1) \in C
    BY <1>2, <2>1
  <2> QED BY <1>3, <1>14, <2>2, <2>3, <2>4, <2>5 DEF Silent
<1>15. CASE c.f = "strtok"
  <2>1. /\ C = {Access("LD", a, 0, la + 1), Access("LD", b, 0, lb + 1), Access("ST", a, 0, la + 1)}
        /\ L = {}
        /\ Measured(c) = {}
    BY <1>1, <1>2, <1>3, <1>15 DEF Contract, Logged, Measured, ReadsOne, ReadsTwo
  <2>2. C \subseteq AccessType /\ L \subseteq AccessType
    BY <2>1, AccessIs
  <2>3. \A r, s \in C : r.op = "ST" /\ s.op = "ST" => r = s
    BY <2>1, AccessIs
  <2>4. \A q \in L : q.op = "ST" => \E r \in C : Makes(q, r)
    BY <2>1, AccessIs
  <2>5. \A o \in Measured(c) : Access("LD", o, 0, StrLen(m, o) + 1) \in C
    BY <1>2, <2>1
  <2> QED BY <1>3, <1>15, <2>2, <2>3, <2>4, <2>5 DEF Silent
<1>16. CASE c.f = "strcpy"
  <2>1. /\ C = {Access("LD", b, 0, lb + 1), Access("ST", a, 0, lb + 1)}
        /\ L = {Access("LD", b, 0, lb), Access("ST", a, 0, lb)}
        /\ Measured(c) = {b}
    BY <1>1, <1>2, <1>3, <1>16 DEF Contract, Logged, Measured, ReadsOne, ReadsTwo
  <2>2. C \subseteq AccessType /\ L \subseteq AccessType
    BY <2>1, AccessIs
  <2>3. \A r, s \in C : r.op = "ST" /\ s.op = "ST" => r = s
    BY <2>1, AccessIs
  <2>4. /\ Follows(m, Access("LD", b, 0, lb), Access("LD", b, 0, lb + 1))
        /\ Follows(m, Access("ST", a, 0, lb), Access("ST", a, 0, lb + 1))
        /\ Makes(Access("ST", a, 0, lb), Access("ST", a, 0, lb + 1))
    BY <1>2 DEF Follows, Access, Makes
  <2>5. \A r \in C : \E q \in L : Follows(m, q, r)
    BY <2>1, <2>4
  <2>6. \A q \in L : q.op = "ST" => \E r \in C : Makes(q, r)
    BY <2>1, <2>4, AccessIs
  <2>7. \A o \in Measured(c) : Access("LD", o, 0, StrLen(m, o) + 1) \in C
    BY <1>2, <2>1
  <2> QED BY <1>3, <1>16, <2>2, <2>3, <2>5, <2>6, <2>7
<1>17. CASE c.f = "strncpy"
  <2>1. /\ C = {Access("LD", b, 0, kb), Access("ST", a, 0, n)}
        /\ L = {Access("LD", b, 0, g), Access("ST", a, 0, g)}
        /\ Measured(c) = {b}
    BY <1>1, <1>2, <1>3, <1>4, <1>17 DEF Contract, Logged, Measured, ReadsOne, ReadsTwo
  <2>2. C \subseteq AccessType /\ L \subseteq AccessType
    BY <2>1, AccessIs
  <2>3. \A r, s \in C : r.op = "ST" /\ s.op = "ST" => r = s
    BY <2>1, AccessIs
  <2>4. /\ Follows(m, Access("LD", b, 0, g), Access("LD", b, 0, kb))
        /\ Follows(m, Access("ST", a, 0, g), Access("ST", a, 0, n))
    BY <1>4, <1>2 DEF Follows, Access
  <2>5. \A r \in C : \E q \in L : Follows(m, q, r)
    BY <2>1, <2>4
  <2> QED BY <1>3, <1>17, <2>2, <2>3, <2>5
<1>18. CASE c.f = "strxfrm"
  <2>1. /\ C = {Access("LD", b, 0, lb + 1), Access("ST", a, 0, n)}
        /\ L = {}
        /\ Measured(c) = {}
    BY <1>1, <1>2, <1>3, <1>18 DEF Contract, Logged, Measured, ReadsOne, ReadsTwo
  <2>2. C \subseteq AccessType /\ L \subseteq AccessType
    BY <2>1, AccessIs
  <2>3. \A r, s \in C : r.op = "ST" /\ s.op = "ST" => r = s
    BY <2>1, AccessIs
  <2>4. \A q \in L : q.op = "ST" => \E r \in C : Makes(q, r)
    BY <2>1, AccessIs
  <2>5. \A o \in Measured(c) : Access("LD", o, 0, StrLen(m, o) + 1) \in C
    BY <1>2, <2>1
  <2> QED BY <1>3, <1>18, <2>2, <2>3, <2>4, <2>5 DEF Silent
<1> QED BY <1>5, <1>6, <1>7, <1>8, <1>9, <1>10, <1>11, <1>12, <1>13, <1>14, <1>15, <1>16, <1>17, <1>18 DEF CallType, Functions, Writers, Silent

LEMMA BytesAre ==
  ASSUME NEW rs, NEW x
  PROVE  x \in Bytes(rs) <=> \E r \in rs : \E i \in r.from..(r.from + r.len - 1) :
                               x = <<r.op, r.obj, i>>
BY DEF Bytes

\* A call that was legal when its hook ran, and what was logged of it.
Hooked ==
  /\ call \in CallType
  /\ hookMem \in Memory
  /\ Legal(hookMem, call)
  /\ ranges = IF logLibc \/ call.f = "memset"
              THEN {r \in Logged(hookMem, call) : r.obj \in Heap} ELSE {}

\* What the call has done, when it found the memory of its hook.
Done ==
  touched = {x \in Bytes(Contract(hookMem, call)) : x[3] < Size}

LibcInv ==
  /\ mem \in Memory
  /\ place \in {"idle", "call", "after"}
  /\ logLibc \in BOOLEAN
  /\ place # "idle" => Hooked
  /\ place = "after" /\ ~stale => Done

LEMMA LibcInvInit == LibcInit => LibcInv
BY ObjectsAssumption DEF LibcInit, LibcInv, Memory, Offsets

LEMMA LibcInvNext == LibcInv /\ [LibcNext]_libcVars => LibcInv'
<1> SUFFICES ASSUME LibcInv, [LibcNext]_libcVars PROVE LibcInv'
  OBVIOUS
<1>1. mem \in Memory /\ logLibc \in BOOLEAN
  BY DEF LibcInv
<1>2. ASSUME NEW f \in Functions, NEW a \in Objects, NEW b \in Objects, NEW n \in 0..Size,
             Hook(f, a, b, n)
      PROVE  LibcInv'
  <2> DEFINE c == [f |-> f, a |-> a, b |-> b, n |-> n]
  <2>1. c \in CallType
    BY DEF CallType
  <2>2. /\ Legal(mem, c) /\ call' = c /\ hookMem' = mem /\ place' = "call"
        /\ ranges' = IF logLibc \/ f = "memset"
                     THEN {r \in Logged(mem, c) : r.obj \in Heap} ELSE {}
        /\ mem' = mem /\ logLibc' = logLibc
    BY <1>2 DEF Hook
  <2>3. c.f = f
    OBVIOUS
  <2> HIDE DEF c
  <2>4. Hooked'
    BY <1>1, <2>1, <2>2, <2>3 DEF Hooked
  <2> QED BY <1>1, <2>2, <2>4 DEF LibcInv
<1>3. CASE Libc
  <2> DEFINE bytes == {x \in Bytes(Contract(mem, call)) : x[3] < Size}
  <2>1. /\ place = "call" /\ place' = "after" /\ touched' = bytes /\ stale' = (mem # hookMem)
        /\ UNCHANGED <<call, logLibc, ranges, hookMem>>
    BY <1>3 DEF Libc
  <2>2. mem' \in Memory
    <3>1. PICK v \in {0, 1} :
            mem' = [o \in Objects |-> [i \in Offsets |->
                      IF <<"ST", o, i>> \in bytes THEN v ELSE mem[o][i]]]
      BY <1>3 DEF Libc
    <3> HIDE DEF bytes
    <3> QED BY <1>1, <3>1 DEF Memory
  <2>3. Hooked /\ Hooked'
    BY <2>1 DEF LibcInv, Hooked
  <2>4. ~stale' => Done'
    <3> SUFFICES ASSUME ~stale' PROVE Done'
      OBVIOUS
    <3>1. mem = hookMem
      BY <2>1
    <3> QED BY <2>1, <3>1 DEF Done
  <2> QED BY <1>1, <2>1, <2>2, <2>3, <2>4 DEF LibcInv
<1>4. CASE Return
  BY <1>1, <1>4 DEF Return, LibcInv
<1>5. ASSUME NEW o \in Objects, NEW i \in Offsets, NEW v \in {0, 1}, StoreByte(o, i, v)
      PROVE  LibcInv'
  <2>1. mem' \in Memory
    BY <1>1, <1>5 DEF StoreByte, Memory
  <2>2. place # "after" /\ UNCHANGED <<place, call, logLibc, ranges, touched, hookMem, stale>>
    BY <1>5 DEF StoreByte
  <2> QED BY <2>1, <2>2 DEF LibcInv, Hooked
<1>6. CASE UNCHANGED libcVars
  BY <1>6 DEF libcVars, LibcInv, Hooked, Done
<1> QED BY <1>2, <1>3, <1>4, <1>5, <1>6 DEF LibcNext

LEMMA LibcInvHolds == LibcSpec => []LibcInv
BY LibcInvInit, LibcInvNext, PTL DEF LibcSpec

\* What the invariant says of one access that the call may make.
LEMMA MayTouch ==
  ASSUME Hooked, NEW r \in Contract(hookMem, call), NEW i \in r.from..(r.from + r.len - 1)
  PROVE  i < Size /\ (Done => <<r.op, r.obj, i>> \in touched)
<1> DEFINE x == <<r.op, r.obj, i>>
<1>1. x \in Bytes(Contract(hookMem, call)) /\ x[3] = i
  BY BytesAre
<1> HIDE DEF x
<1>2. i < Size
  BY <1>1 DEF Hooked, Legal
<1>3. Done => x \in touched
  BY <1>1, <1>2 DEF Done
<1> QED BY <1>2, <1>3 DEF x

\* No byte of a call goes unlogged but the terminators of its strings.
THEOREM MissedAreTerminatorsHolds == LibcSpec => []MissedAreTerminators
<1>1. LibcInv => MissedAreTerminators
  <2> SUFFICES ASSUME LibcInv, place = "after", logLibc, call.f \notin Silent, ~stale,
                      NEW x \in Missed
               PROVE  \/ x[1] = "LD" /\ hookMem[x[2]][x[3]] = 0
                      \/ x[1] = "ST" /\ ~\E y \in touched : y[1] = "ST" /\ y[3] > x[3]
    BY DEF MissedAreTerminators
  <2>1. Hooked /\ Done
    BY DEF LibcInv
  <2> DEFINE C == Contract(hookMem, call)
             L == Logged(hookMem, call)
  <2>2. Compares(hookMem, call, C, L)
    BY <2>1, HookCompares DEF Hooked
  <2>3. PICK r \in C : \E i \in r.from..(r.from + r.len - 1) : x = <<r.op, r.obj, i>>
    BY <2>1, BytesAre DEF Missed, Done
  <2>4. PICK i \in r.from..(r.from + r.len - 1) : x = <<r.op, r.obj, i>>
    BY <2>3
  <2>5. i < Size
    BY <2>1, MayTouch
  <2>6. r \in AccessType
    BY <2>2 DEF Compares
  <2>7. PICK q \in L : Follows(hookMem, q, r)
    BY <2>2 DEF Compares
  <2>8. q \in AccessType
    BY <2>2 DEF Compares
  <2>9. q \in ranges
    <3>1. q.obj \in Heap
      BY <2>4, <2>7 DEF Follows, Missed
    <3> QED BY <2>1, <3>1 DEF Hooked
  <2>10. i \notin q.from..(q.from + q.len - 1)
    <3> SUFFICES ASSUME i \in q.from..(q.from + q.len - 1) PROVE FALSE
      OBVIOUS
    <3>1. x = <<q.op, q.obj, i>>
      BY <2>4, <2>7 DEF Follows
    <3>2. x \in Bytes(ranges)
      BY <2>9, <3>1, BytesAre
    <3> QED BY <3>2 DEF Missed
  <2>11. r.len = q.len + 1 /\ i = q.from + q.len /\ i = r.from + r.len - 1
    BY <2>6, <2>7, <2>8, <2>10 DEF Follows, AccessType
  <2>12. CASE r.op = "LD"
    <3>1. i = StrLen(hookMem, r.obj)
      BY <2>7, <2>8, <2>11, <2>12 DEF Follows, AccessType
    <3>2. hookMem \in Memory /\ r.obj \in Objects
      BY <2>1, <2>6 DEF Hooked, AccessType
    <3>3. hookMem[r.obj][i] = 0
      BY <2>5, <3>1, <3>2, StrLenTells
    <3> QED BY <2>4, <2>12, <3>3
  <2>13. CASE r.op = "ST"
    <3>1. ASSUME NEW y \in touched, y[1] = "ST" PROVE y[3] <= i
      <4>1. PICK s \in C : \E j \in s.from..(s.from + s.len - 1) : y = <<s.op, s.obj, j>>
        BY <2>1, BytesAre DEF Done
      <4>2. PICK j \in s.from..(s.from + s.len - 1) : y = <<s.op, s.obj, j>>
        BY <4>1
      <4>3. s = r
        BY <2>2, <2>13, <3>1, <4>2 DEF Compares
      <4> QED BY <2>6, <2>11, <4>2, <4>3 DEF AccessType
    <3>2. x[1] = "ST" /\ x[3] = i
      BY <2>4, <2>13
    <3>3. i \in Int
      BY <2>4
    <3>4. ASSUME NEW y \in touched, y[1] = "ST", y[3] > x[3] PROVE FALSE
      <4>1. PICK s \in C : \E j \in s.from..(s.from + s.len - 1) : y = <<s.op, s.obj, j>>
        BY <2>1, BytesAre DEF Done
      <4>2. y[3] \in Int
        BY <4>1
      <4> QED BY <3>1, <3>2, <3>3, <3>4, <4>2
    <3> QED BY <3>2, <3>4
  <2> QED BY <2>6, <2>12, <2>13 DEF AccessType
<1> QED BY <1>1, LibcInvHolds, PTL

\* A write in the log that was not made comes from a bound.
THEOREM FalseWritesAreBoundsHolds == LibcSpec => []FalseWritesAreBounds
<1>1. LibcInv => FalseWritesAreBounds
  <2> SUFFICES ASSUME LibcInv, place = "after", ~stale, call.f \notin {"strncpy", "strncat"},
                      NEW x \in Bytes(ranges), x[1] = "ST"
               PROVE  x \in touched
    BY DEF FalseWritesAreBounds
  <2>1. Hooked /\ Done
    BY DEF LibcInv
  <2> DEFINE C == Contract(hookMem, call)
             L == Logged(hookMem, call)
  <2>2. Compares(hookMem, call, C, L)
    BY <2>1, HookCompares DEF Hooked
  <2>3. PICK q \in ranges : \E i \in q.from..(q.from + q.len - 1) : x = <<q.op, q.obj, i>>
    BY BytesAre
  <2>4. PICK i \in q.from..(q.from + q.len - 1) : x = <<q.op, q.obj, i>>
    BY <2>3
  <2>5. q \in L
    BY <2>1 DEF Hooked
  <2>6. PICK r \in C : Makes(q, r)
    BY <2>2, <2>4, <2>5 DEF Compares
  <2>7. q \in AccessType /\ r \in AccessType
    BY <2>2, <2>5 DEF Compares
  <2>8. i \in r.from..(r.from + r.len - 1) /\ x = <<r.op, r.obj, i>>
    BY <2>4, <2>6, <2>7 DEF Makes, AccessType
  <2> QED BY <2>1, <2>8, MayTouch
<1> QED BY <1>1, LibcInvHolds, PTL

\* The hook measures only strings that the call may read to their end.
THEOREM HookReadsArgumentsHolds == LibcSpec => []HookReadsArguments
<1>1. LibcInv => HookReadsArguments
  <2> SUFFICES ASSUME LibcInv, place = "call", call.f \notin {"strncmp", "strncpy"},
                      NEW o \in Measured(call), StrLen(hookMem, o) = Size
               PROVE  FALSE
    BY DEF HookReadsArguments
  <2>1. Hooked
    BY DEF LibcInv
  <2> DEFINE r == Access("LD", o, 0, StrLen(hookMem, o) + 1)
  <2>2. r \in Contract(hookMem, call)
    BY <2>1, HookCompares DEF Hooked, Compares
  <2>3. Size \in r.from..(r.from + r.len - 1)
    BY ObjectsAssumption DEF Access
  <2> HIDE DEF r
  <2>4. Size < Size
    BY <2>1, <2>2, <2>3, MayTouch
  <2> QED BY <2>4, ObjectsAssumption
<1> QED BY <1>1, LibcInvHolds, PTL

---------------------------------------------------------------------------
(* The compilers of a parallel build and their database.                   *)

InTransaction == {"collect", "row", "committed"}
Places == Idle \union InTransaction \union Reading \union Writing
            \union {"created", "inserted", "instrument", "failing", "aborting"}

\* A table of names that grows keeps its rows.
Grows(mods, more) == \A r \in DOMAIN mods : r \in DOMAIN more /\ more[r] = mods[r]

\* Table mods has a module of this name.
Entered(mods, name) == \E r \in DOMAIN mods : mods[r] = name

NamesOnce == \A r, s \in DOMAIN modules : modules[r] = modules[s] => r = s

BuildInv == modules \in Seq({Name[f] : f \in Files}) /\ NamesOnce

LEMMA ModuleIdTells ==
  ASSUME BuildInv, NEW name
  PROVE  /\ DOMAIN modules \subseteq Nat
         /\ Entered(modules, name) =>
              ModuleId(name) \in DOMAIN modules /\ modules[ModuleId(name)] = name
         /\ ModuleId(name) = None <=> ~Entered(modules, name)
<1>1. DOMAIN modules \subseteq Nat
  BY DEF BuildInv
<1>2. None \notin Nat
  BY SrcInfoAssumption
<1>3. CASE Entered(modules, name)
  <2>1. ModuleId(name) = CHOOSE r \in DOMAIN modules : modules[r] = name
    BY <1>3 DEF Entered, ModuleId
  <2>2. ModuleId(name) \in DOMAIN modules /\ modules[ModuleId(name)] = name
    BY <1>3, <2>1 DEF Entered
  <2> QED BY <1>1, <1>2, <1>3, <2>2
<1>4. CASE ~Entered(modules, name)
  BY <1>1, <1>4 DEF Entered, ModuleId
<1> QED BY <1>3, <1>4

\* The name that is added to the table was not there.
Adds(f) == modules' = Append(modules, Name[f]) /\ ModuleId(Name[f]) = None

LEMMA NamesStayOnce ==
  ASSUME BuildInv, NEW f \in Files, modules' = modules \/ Adds(f)
  PROVE  BuildInv' /\ DOMAIN modules' \subseteq Nat /\ Grows(modules, modules')
<1>1. modules \in Seq({Name[g] : g \in Files}) /\ NamesOnce
  BY DEF BuildInv
<1>2. CASE modules' = modules
  BY <1>1, <1>2 DEF BuildInv, NamesOnce, Grows
<1>3. CASE Adds(f)
  <2>1. \A r \in DOMAIN modules : modules[r] # Name[f]
    BY <1>3, ModuleIdTells DEF Adds, Entered
  <2>2. /\ modules' \in Seq({Name[g] : g \in Files})
        /\ \A r \in DOMAIN modules' : r \in DOMAIN modules \/ r = Len(modules) + 1
        /\ \A r \in DOMAIN modules : r \in DOMAIN modules' /\ modules'[r] = modules[r]
        /\ modules'[Len(modules) + 1] = Name[f]
    BY <1>1, <1>3 DEF Adds
  <2>3. NamesOnce'
    BY <1>1, <2>1, <2>2 DEF NamesOnce
  <2>4. DOMAIN modules' \subseteq Nat
    BY <2>2
  <2> QED BY <2>2, <2>3, <2>4 DEF BuildInv, Grows
<1> QED BY <1>2, <1>3

---------------------------------------------------------------------------
(* What the database tells of the objects that were built.                 *)

\* Below Span an instruction id has the low part of the packed id for itself.
LEMMA PackedIdsDiffer ==
  ASSUME NEW S \in Nat \ {0}, NEW m \in Nat, NEW k \in Nat, NEW i \in 0..(S - 1), NEW j \in 0..(S - 1),
         m * S + i = k * S + j
  PROVE  m = k /\ i = j
<1>1. ASSUME NEW a \in Nat, NEW b \in Nat, NEW x \in 0..(S - 1), NEW y \in 0..(S - 1),
             a * S + x = b * S + y
      PROVE  ~(a < b)
  <2> SUFFICES ASSUME a < b PROVE FALSE
    OBVIOUS
  <2>1. PICK d \in Nat : b = a + 1 + d
    <3> DEFINE d == b - a - 1
    <3> WITNESS d \in Nat
    <3> QED OBVIOUS
  <2>2. b * S = a * S + S + d * S
    BY <2>1
  <2>3. a * S \in Nat /\ d * S \in Nat
    OBVIOUS
  <2> QED BY <1>1, <2>2, <2>3
<1>2. ~(m < k) /\ ~(k < m)
  BY <1>1
<1>3. m = k
  BY <1>2
<1> QED BY <1>3

LEMMA UniqueIdIs ==
  ASSUME NEW m \in Nat, NEW i \in 0..(Span - 1)
  PROVE  UniqueId(m, i) = m * Span + i /\ UniqueId(m, i) \in Nat
<1>1. Span \in Nat \ {0}
  BY SrcInfoAssumption
<1>2. i % Span = i
  BY <1>1
<1>3. UniqueId(m, i) = m * Span + i
  BY <1>1, <1>2 DEF UniqueId
<1> QED BY <1>1, <1>3

LEMMA UniqueIdsDiffer ==
  ASSUME NEW m \in Nat, NEW k \in Nat, NEW i \in 1..Span, NEW j \in 1..Span
  PROVE  /\ UniqueId(m, i - 1) \in Nat
         /\ UniqueId(m, i - 1) = UniqueId(k, j - 1) => m = k /\ i = j
<1>1. Span \in Nat \ {0}
  BY SrcInfoAssumption
<1>2. i - 1 \in 0..(Span - 1) /\ j - 1 \in 0..(Span - 1)
  BY <1>1
<1>3. /\ UniqueId(m, i - 1) = m * Span + (i - 1) /\ UniqueId(m, i - 1) \in Nat
      /\ UniqueId(k, j - 1) = k * Span + (j - 1)
  BY <1>2, UniqueIdIs
<1>4. m * Span + (i - 1) = k * Span + (j - 1) => m = k /\ i - 1 = j - 1
  BY <1>1, <1>2, PackedIdsDiffer
<1>5. i - 1 = j - 1 => i = j
  BY <1>1
<1> QED BY <1>3, <1>4, <1>5

LEMMA Overlays ==
  ASSUME NEW T, NEW R
  PROVE  /\ DOMAIN Over(T, R) = DOMAIN T \union DOMAIN R
         /\ \A x \in DOMAIN T : Over(T, R)[x] = T[x]
         /\ \A x \in DOMAIN R \ DOMAIN T : Over(T, R)[x] = R[x]
BY DEF Over

LEMMA RowAdded ==
  ASSUME NEW T, NEW id, NEW row
  PROVE  /\ \A x : x \in DOMAIN WithRow(T, id, row) <=> x = id \/ x \in DOMAIN T
         /\ WithRow(T, id, row)[id] = row
         /\ \A x \in DOMAIN T : x # id => WithRow(T, id, row)[x] = T[x]
<1> DEFINE one == [x \in {id} |-> row]
<1>1. DOMAIN one = {id} /\ one[id] = row
  OBVIOUS
<1>2. WithRow(T, id, row) = Over(one, T)
  BY DEF WithRow
<1> HIDE DEF one
<1>3. /\ DOMAIN Over(one, T) = DOMAIN one \union DOMAIN T
      /\ \A x \in DOMAIN one : Over(one, T)[x] = one[x]
      /\ \A x \in DOMAIN T \ DOMAIN one : Over(one, T)[x] = T[x]
  BY Overlays
<1> QED BY <1>1, <1>2, <1>3

LEMMA CodeIs ==
  ASSUME ShortTexts, NEW f \in Files, NEW v \in DOMAIN Code[f]
  PROVE  /\ v \in Nat \ {0}
         /\ Code[f][v] \in Seq(Kinds)
         /\ DOMAIN Code[f][v] = 1..Len(Code[f][v])
         /\ Len(Code[f][v]) \in Nat
         /\ DOMAIN Code[f][v] \subseteq 1..Span
<1>1. Code[f] \in Seq(Seq(Kinds)) /\ Span \in Nat
  BY SrcInfoAssumption
<1>2. v \in Nat \ {0} /\ Code[f][v] \in Seq(Kinds)
  BY <1>1
<1>3. DOMAIN Code[f][v] = 1..Len(Code[f][v]) /\ Len(Code[f][v]) \in Nat
  BY <1>2
<1>4. Len(Code[f][v]) <= Span
  BY DEF ShortTexts
<1> QED BY <1>1, <1>2, <1>3, <1>4

\* The operations that the texts of a file, up to version v, have at place n.
Ops(f, v, n) ==
  LET kinds == {Code[f][w][n] : w \in {u \in 1..v : n <= Len(Code[f][u])}}
  IN  {Op(k) : k \in {l \in kinds : Collected(l)}}

\* Each row of T is of a module, and tells the operation of one of its texts.
KnownIn(mods, vers, T) ==
  \A id \in DOMAIN T : \E g \in Files, m \in DOMAIN mods, n \in 1..Span :
    mods[m] = Name[g] /\ id = UniqueId(m, n - 1) /\ T[id].op \in Ops(g, vers[g], n)

IdOf(f, i) == UniqueId(modId[f], i - 1)
HasLine(T, f, i) == IdOf(f, i) \in DOMAIN T /\ T[IdOf(f, i)].line = Line(f, i)

BooksTypeOK ==
  /\ DOMAIN pc = Files /\ DOMAIN version = Files /\ DOMAIN source = Files
  /\ DOMAIN modId = Files /\ DOMAIN next = Files /\ DOMAIN tx = Files /\ DOMAIN object = Files
  /\ DOMAIN modules \subseteq Nat

Begun == Reading \union Writing \union {"created", "inserted"}
Stored == {"committed", "instrument", "done"}

TypeOf(f) ==
  /\ pc[f] \in Places
  /\ version[f] \in DOMAIN Code[f]
  /\ source[f] \in 1..version[f]
  /\ next[f] \in Nat \ {0}

\* The compiler works on the text as it is, and begins with its first instruction.
ReadsText(f) ==
  /\ pc[f] # "idle" => source[f] = version[f]
  /\ pc[f] \in Begun => next[f] = 1

KnowsModule(f) ==
  pc[f] \in {"reopen"} \union InTransaction \union Stored =>
    modId[f] \in DOMAIN modules /\ modules[modId[f]] = Name[f]

AtRow(f) ==
  pc[f] = "row" =>
    next[f] \in DOMAIN Text(f) /\ Collected(Text(f)[next[f]]) /\ modId[f] < ModLimit

\* A transaction writes rows of its own module only.
OwnRows(f) ==
  \A id \in DOMAIN tx[f] :
    pc[f] \in InTransaction /\ tx[f][id].line.file = f /\ \E n \in 1..Span : id = IdOf(f, n)

\* What was collected has its line, in the transaction and then in the table.
CollectedLines(f) ==
  pc[f] \in InTransaction =>
    \A i \in DOMAIN Text(f) : i < next[f] /\ Collected(Text(f)[i]) =>
      modId[f] < ModLimit /\ HasLine(tx[f], f, i)

StoredLines(f) ==
  Alone(f) /\ pc[f] \in Stored =>
    \A i \in DOMAIN Text(f) : Collected(Text(f)[i]) =>
      modId[f] < ModLimit /\ HasLine(rows, f, i)

ObjectMade(f) ==
  pc[f] = "done" =>
    \A h \in object[f].hooks :
      /\ h[3] \in DOMAIN Text(f) /\ Collected(Text(f)[h[3]])
      /\ h[2] = ComputeId(modId[f], h[3] - 1)

FileInv(f) ==
  /\ TypeOf(f) /\ ReadsText(f) /\ KnowsModule(f) /\ AtRow(f)
  /\ OwnRows(f) /\ CollectedLines(f) /\ StoredLines(f) /\ ObjectMade(f)

\* The rows of module m are those of version v of f.
HasText(f, m, v) ==
  \A i \in DOMAIN Code[f][v] : Collected(Code[f][v][i]) =>
    /\ UniqueId(m, i - 1) \in DOMAIN rows
    /\ rows[UniqueId(m, i - 1)].line = [file |-> f, version |-> v, inst |-> i]

WholeText(f) ==
  Alone(f) =>
    \/ \A id \in DOMAIN rows : rows[id].line.file # f
    \/ \E v \in 1..version[f], m \in DOMAIN modules : modules[m] = Name[f] /\ HasText(f, m, v)

OpsKnown ==
  /\ KnownIn(modules, version, rows)
  /\ \A f \in Files : KnownIn(modules, version, tx[f])

RowsInv ==
  /\ BuildInv /\ BooksTypeOK
  /\ \A f \in Files : FileInv(f) /\ WholeText(f)
  /\ OpsKnown

LEMMA RowsInvInit == ShortTexts /\ Init => RowsInv
<1> SUFFICES ASSUME ShortTexts, Init PROVE RowsInv
  OBVIOUS
<1> USE DEF Init
<1>1. BooksTypeOK /\ BuildInv
  BY DEF BooksTypeOK, BuildInv, NamesOnce
<1>2. ASSUME NEW f \in Files PROVE FileInv(f)
  <2>1. Code[f] \in Seq(Seq(Kinds)) /\ Code[f] # <<>>
    BY SrcInfoAssumption
  <2>2. 1 \in DOMAIN Code[f]
    BY <2>1
  <2>3. TypeOf(f)
    BY <2>2 DEF TypeOf, Places, Idle
  <2> QED BY <2>3 DEF FileInv, ReadsText, KnowsModule, AtRow, OwnRows, CollectedLines, StoredLines,
                     ObjectMade, Begun, Stored, InTransaction
<1>3. OpsKnown /\ \A f \in Files : WholeText(f)
  BY DEF OpsKnown, KnownIn, WholeText
<1> QED BY <1>1, <1>2, <1>3 DEF RowsInv

\* A file keeps its own through what others do, if its rows stay.
Untouched(f) ==
  /\ pc'[f] = pc[f] /\ version'[f] = version[f] /\ source'[f] = source[f]
  /\ modId'[f] = modId[f] /\ next'[f] = next[f] /\ tx'[f] = tx[f] /\ object'[f] = object[f]

LEMMA UntouchedKeeps ==
  ASSUME NEW f \in Files, FileInv(f), Untouched(f), Grows(modules, modules'), StoredLines(f)'
  PROVE  FileInv(f)'
<1> USE DEF Untouched
<1>1. TypeOf(f)' /\ ReadsText(f)'
  BY DEF FileInv, TypeOf, ReadsText
<1>2. KnowsModule(f)'
  BY DEF FileInv, KnowsModule, Grows
<1>3. AtRow(f)' /\ OwnRows(f)'
  BY DEF FileInv, AtRow, OwnRows, Text, IdOf
<1>4. CollectedLines(f)'
  BY DEF FileInv, CollectedLines, Text, HasLine, IdOf, Line
<1>5. ObjectMade(f)'
  BY DEF FileInv, ObjectMade, Text
<1> QED BY <1>1, <1>2, <1>3, <1>4, <1>5 DEF FileInv

LEMMA StoredLinesKeep ==
  ASSUME NEW f \in Files, FileInv(f), Untouched(f),
         \A i \in DOMAIN Text(f) :
           Alone(f) /\ pc[f] \in Stored /\ IdOf(f, i) \in DOMAIN rows =>
             IdOf(f, i) \in DOMAIN rows' /\ rows'[IdOf(f, i)] = rows[IdOf(f, i)]
  PROVE  StoredLines(f)'
<1>1. StoredLines(f)
  BY DEF FileInv
<1> QED BY <1>1 DEF Untouched, StoredLines, HasLine, IdOf, Line, Text

LEMMA KnownStays ==
  ASSUME ShortTexts, NEW mods, NEW more, NEW vers, NEW later, NEW T,
         KnownIn(mods, vers, T), Grows(mods, more),
         \A f \in Files : vers[f] \in Nat /\ later[f] \in Nat /\ vers[f] <= later[f]
  PROVE  KnownIn(more, later, T)
<1>1. ASSUME NEW f \in Files, NEW n \in 1..Span PROVE Ops(f, vers[f], n) \subseteq Ops(f, later[f], n)
  <2>1. \A u \in 1..vers[f] : u \in 1..later[f]
    OBVIOUS
  <2> QED BY <2>1 DEF Ops
<1> QED BY <1>1 DEF KnownIn, Grows

\* A compiler stops where it cannot go on.
Stops(f) == Stop(f, "failing") \/ Stop(f, "aborting")

\* The steps in which compiler f takes locks or gives them back.
LockStep(f) ==
  /\ TakeShared(f) \/ TakeReserved(f) \/ Exit(f) \/ Written(f) \/ Committed(f)
  /\ ~Stops(f)

LEMMA LockSteps ==
  ASSUME BooksTypeOK, NEW f \in Files, LockStep(f)
  PROVE  /\ UNCHANGED <<fileVars, tableVars, object>>
         /\ pc' = pc \/ \E to : pc' = [pc EXCEPT ![f] = to]
         /\ tx' = tx \/ tx' = [tx EXCEPT ![f] = <<>>]
BY DEF LockStep, TakeShared, TakeReserved, Exit, Written, Committed, Fail, Stops, Go, Release

LEMMA OthersUntouched ==
  ASSUME BooksTypeOK, NEW f \in Files, Compile(f), NEW g \in Files \ {f}
  PROVE  Untouched(g)
<1> USE DEF BooksTypeOK, Untouched, fileVars, tableVars
<1>1. CASE Stops(f)
  BY <1>1 DEF Stops, Stop, Go
<1>2. CASE LockStep(f)
  BY <1>2, LockSteps
<1>3. CASE Start(f) \/ Edit(f) \/ Skip(f) \/ Instrument(f)
  BY <1>3 DEF Start, Edit, Skip, Instrument, Go, dbVars
<1>4. CASE Open(f, "open", "load") \/ Open(f, "reopen", "collect")
  BY <1>4 DEF Open, Go, Release
<1>5. ASSUME NEW from, NEW missing, FindModule(f, from, missing) PROVE Untouched(g)
  BY <1>5 DEF FindModule, Go, Release
<1>6. CASE (CreateTable(f) \/ InsertModule(f) \/ Commit(f) \/ Exists(f)) /\ ~Stops(f)
  BY <1>6 DEF CreateTable, InsertModule, Commit, Exists, Go, Release, Fail, FailToWrite, Stops
<1>7. CASE InsertRow(f) /\ ~Stops(f)
  <2>1. PICK T : tx' = [tx EXCEPT ![f] = T]
    BY <1>7 DEF InsertRow, WriteRow, Fail, Stops
  <2> QED BY <1>7, <2>1 DEF InsertRow, WriteRow, Go, Fail, Stops
<1> QED BY <1>1, <1>2, <1>3, <1>4, <1>5, <1>6, <1>7 DEF Compile, LockStep

\* What a step of f does to the tables.
LEMMA TablesChange ==
  ASSUME BuildInv, BooksTypeOK, NEW f \in Files, Compile(f)
  PROVE  /\ BooksTypeOK' /\ BuildInv'
         /\ Grows(modules, modules')
         /\ rows' = rows \/ (pc[f] = "collect" /\ Commit(f) /\ ~Stops(f) /\ rows' = Over(tx[f], rows))
         /\ tx'[f] = tx[f] \/ tx'[f] = <<>> \/ (InsertRow(f) /\ ~Stops(f))
         /\ version'[f] = version[f] \/ version'[f] = version[f] + 1
<1> USE DEF fileVars, tableVars
<1> DEFINE Domains == /\ DOMAIN pc' = Files /\ DOMAIN version' = Files /\ DOMAIN source' = Files
                      /\ DOMAIN modId' = Files /\ DOMAIN next' = Files /\ DOMAIN tx' = Files
                      /\ DOMAIN object' = Files
           Changes == /\ modules' = modules \/ Adds(f)
                      /\ rows' = rows \/ (pc[f] = "collect" /\ Commit(f) /\ ~Stops(f)
                                           /\ rows' = Over(tx[f], rows))
                      /\ tx'[f] = tx[f] \/ tx'[f] = <<>> \/ (InsertRow(f) /\ ~Stops(f))
                      /\ version'[f] = version[f] \/ version'[f] = version[f] + 1
<1>1. ASSUME Stops(f) PROVE Domains /\ Changes
  BY <1>1 DEF Stops, Stop, Go, BooksTypeOK
<1>2. ASSUME LockStep(f) PROVE Domains /\ Changes
  BY <1>2, LockSteps DEF BooksTypeOK
<1>3. ASSUME Start(f) \/ Edit(f) \/ Skip(f) \/ Instrument(f) PROVE Domains /\ Changes
  BY <1>3 DEF Start, Edit, Skip, Instrument, Go, dbVars, BooksTypeOK
<1>4. ASSUME Open(f, "open", "load") \/ Open(f, "reopen", "collect") PROVE Domains /\ Changes
  BY <1>4 DEF Open, Go, Release, BooksTypeOK
<1>5. ASSUME NEW from, NEW missing, FindModule(f, from, missing) PROVE Domains /\ Changes
  BY <1>5 DEF FindModule, Go, Release, BooksTypeOK
<1>6. ASSUME CreateTable(f) \/ InsertModule(f) \/ Commit(f) \/ Exists(f), ~Stops(f)
      PROVE  Domains /\ Changes
  BY <1>6 DEF CreateTable, InsertModule, Commit, Exists, Go, Release, Fail, FailToWrite, Stops,
              BooksTypeOK, Adds, Table
<1>7. ASSUME InsertRow(f) /\ ~Stops(f) PROVE Domains /\ Changes
  <2>1. PICK T : tx' = [tx EXCEPT ![f] = T]
    BY <1>7 DEF InsertRow, WriteRow, Fail, Stops
  <2> QED BY <1>7, <2>1 DEF InsertRow, WriteRow, Go, Fail, Stops, BooksTypeOK
<1>8. Domains /\ Changes
  <2> HIDE DEF Domains, Changes
  <2> QED BY <1>1, <1>2, <1>3, <1>4, <1>5, <1>6, <1>7 DEF Compile, LockStep
<1>9. BuildInv' /\ DOMAIN modules' \subseteq Nat /\ Grows(modules, modules')
  BY <1>8, NamesStayOnce
<1> QED BY <1>8, <1>9 DEF BooksTypeOK

\* Nothing is claimed of a compiler before it knows its module, or when it has failed.
Unclaimed == Places \ (InTransaction \union {"reopen"} \union Stored)

LEMMA NothingClaimed ==
  ASSUME NEW f \in Files, TypeOf(f)', ReadsText(f)', DOMAIN tx'[f] = {}, pc'[f] \in Unclaimed
  PROVE  FileInv(f)'
BY DEF FileInv, KnowsModule, AtRow, OwnRows, CollectedLines, StoredLines, ObjectMade, Unclaimed,
       Stored, InTransaction

LEMMA NoRowsOutside ==
  ASSUME NEW f \in Files, FileInv(f), pc[f] \notin InTransaction
  PROVE  DOMAIN tx[f] = {}
BY DEF FileInv, OwnRows

\* A compiler goes on, or does not, before it knows its module or after it has failed.
LEMMA UnclaimedStep ==
  ASSUME BooksTypeOK, NEW f \in Files, FileInv(f), pc[f] # "idle",
         UNCHANGED <<version, source, next>>, pc'[f] \in Unclaimed,
         pc'[f] \in Begun => pc[f] \in Begun,
         DOMAIN tx'[f] = {}
  PROVE  FileInv(f)'
<1>1. TypeOf(f)' /\ ReadsText(f)'
  BY DEF BooksTypeOK, FileInv, TypeOf, ReadsText, Unclaimed
<1> QED BY <1>1, NothingClaimed

LEMMA StopKeepsFile ==
  ASSUME BooksTypeOK, NEW f \in Files, FileInv(f), Stops(f), pc[f] # "idle"
  PROVE  FileInv(f)'
<1>1. /\ pc'[f] \in {"failing", "aborting"} /\ tx'[f] = <<>>
      /\ UNCHANGED <<version, source, next>>
  BY DEF Stops, Stop, Go, fileVars, BooksTypeOK
<1> QED BY <1>1, UnclaimedStep DEF Unclaimed, Places, InTransaction, Stored, Idle, Begun,
                                   Reading, Writing

LEMMA TakeKeepsFile ==
  ASSUME BooksTypeOK, NEW f \in Files, FileInv(f), TakeShared(f) \/ TakeReserved(f), ~Stops(f)
  PROVE  FileInv(f)'
<1>1. UNCHANGED <<pc, version, source, modId, next, modules, rows, tx, object>>
  BY DEF TakeShared, TakeReserved, Fail, Stops, fileVars, tableVars
<1>2. Untouched(f) /\ Grows(modules, modules')
  BY <1>1 DEF Untouched, Grows
<1>3. StoredLines(f)'
  BY <1>1, <1>2, StoredLinesKeep
<1> QED BY <1>2, <1>3, UntouchedKeeps

LEMMA GiveBackKeepsFile ==
  ASSUME BooksTypeOK, NEW f \in Files, FileInv(f), Exit(f) \/ Written(f)
  PROVE  FileInv(f)'
<1>1. CASE Exit(f)
  <2>1. /\ pc[f] # "idle" /\ pc'[f] \in {"failed", "aborted"} /\ tx'[f] = <<>>
        /\ UNCHANGED <<version, source, next>>
    BY <1>1 DEF Exit, Go, Release, fileVars, BooksTypeOK
  <2> QED BY <2>1, UnclaimedStep DEF Unclaimed, Places, InTransaction, Stored, Idle, Begun,
                                     Reading, Writing
<1>2. CASE Written(f)
  <2>1. /\ pc[f] \in {"created", "inserted"} /\ pc'[f] \in {"open", "reload"} /\ tx'[f] = <<>>
        /\ UNCHANGED <<version, source, next>>
    BY <1>2 DEF Written, Go, Release, fileVars, BooksTypeOK
  <2> QED BY <2>1, UnclaimedStep DEF Unclaimed, Places, InTransaction, Stored, Idle, Begun,
                                     Reading, Writing
<1> QED BY <1>1, <1>2

LEMMA StartKeepsFile ==
  ASSUME BooksTypeOK, NEW f \in Files, FileInv(f), Start(f)
  PROVE  FileInv(f)'
<1>1. DOMAIN tx'[f] = {} /\ pc'[f] = "open"
  BY NoRowsOutside DEF Start, Go, dbVars, BooksTypeOK, InTransaction
<1>2. TypeOf(f)' /\ ReadsText(f)'
  BY <1>1, SrcInfoAssumption DEF Start, BooksTypeOK, FileInv, TypeOf, ReadsText, Places, Reading
<1> QED BY <1>1, <1>2, NothingClaimed DEF Unclaimed, Places, InTransaction, Stored, Reading

LEMMA OpenKeepsFile ==
  ASSUME BooksTypeOK, NEW f \in Files, FileInv(f),
         Open(f, "open", "load") \/ Open(f, "reopen", "collect")
  PROVE  FileInv(f)'
<1>1. /\ pc[f] \in {"open", "reopen"}
      /\ pc'[f] \in {"open", "load", "create"} \/ (pc[f] = "reopen" /\ pc'[f] \in {"reopen", "collect"})
      /\ DOMAIN tx'[f] = {}
      /\ UNCHANGED <<version, source, modId, next, modules, rows, object>>
  BY DEF Open, Go, Release, fileVars, tableVars, BooksTypeOK
<1>2. CASE pc'[f] \in {"open", "load", "create"}
  BY <1>1, <1>2, UnclaimedStep DEF Unclaimed, Places, InTransaction, Stored, Idle, Begun,
                                   Reading, Writing
<1>3. CASE pc[f] = "reopen" /\ pc'[f] \in {"reopen", "collect"}
  <2>1. TypeOf(f)' /\ ReadsText(f)' /\ KnowsModule(f)'
    BY <1>1, <1>3 DEF FileInv, TypeOf, ReadsText, KnowsModule, Places, Begun, InTransaction, Reading
  <2>2. \A i \in DOMAIN Text(f)' : ~(i < next'[f])
    <3>1. source[f] \in DOMAIN Code[f]
      BY SrcInfoAssumption DEF FileInv, TypeOf
    <3>2. Code[f][source[f]] \in Seq(Kinds)
      BY <3>1, SrcInfoAssumption
    <3>3. next'[f] = 1
      BY <1>1, <1>3 DEF FileInv, ReadsText, Begun, Reading
    <3> QED BY <1>1, <3>2, <3>3 DEF Text
  <2> QED BY <1>1, <1>3, <2>1, <2>2 DEF FileInv, AtRow, OwnRows, CollectedLines, StoredLines,
                                        ObjectMade, Stored
<1> QED BY <1>1, <1>2, <1>3

LEMMA FindModuleKeepsFile ==
  ASSUME BuildInv, BooksTypeOK, NEW f \in Files, FileInv(f),
         NEW from \in {"load", "again", "reload"}, NEW missing \in {"again", "insert", "aborted"},
         FindModule(f, from, missing)
  PROVE  FileInv(f)'
<1>1. PICK to \in {missing, "reopen"} :
        to = IF ModuleId(Name[f]) = None THEN missing ELSE "reopen"
  OBVIOUS
<1>2. /\ pc[f] = from /\ pc'[f] = to /\ modId'[f] = ModuleId(Name[f])
      /\ DOMAIN tx'[f] = {}
      /\ UNCHANGED <<version, source, next, modules, rows, object>>
  BY <1>1 DEF FindModule, Go, Release, tableVars, BooksTypeOK
<1>3. CASE to = missing
  BY <1>2, <1>3, UnclaimedStep DEF Unclaimed, Places, InTransaction, Stored, Idle, Begun,
                                   Reading, Writing
<1>4. CASE to = "reopen" /\ to # missing
  <2>1. KnowsModule(f)'
    BY <1>1, <1>2, <1>4, ModuleIdTells DEF KnowsModule
  <2>2. TypeOf(f)' /\ ReadsText(f)'
    BY <1>2, <1>4 DEF FileInv, TypeOf, ReadsText, Places, Begun, Reading
  <2> QED BY <1>2, <1>4, <2>1, <2>2
          DEF FileInv, AtRow, OwnRows, CollectedLines, StoredLines, ObjectMade, Stored,
              InTransaction
<1> QED BY <1>3, <1>4

LEMMA WriteKeepsFile ==
  ASSUME BooksTypeOK, NEW f \in Files, FileInv(f), CreateTable(f) \/ InsertModule(f)
  PROVE  FileInv(f)'
<1>1. CASE Stops(f)
  BY <1>1, StopKeepsFile DEF CreateTable, InsertModule
<1>2. CASE ~Stops(f)
  <2>1. /\ pc[f] \in {"create", "insert"} /\ pc'[f] \in {"open", "created", "inserted"}
        /\ tx'[f] = tx[f] \/ tx'[f] = <<>>
        /\ UNCHANGED <<version, source, next>>
    BY <1>2 DEF CreateTable, InsertModule, Fail, FailToWrite, Stops, Go, Release, fileVars,
                BooksTypeOK
  <2>2. DOMAIN tx'[f] = {}
    BY <2>1, NoRowsOutside DEF InTransaction
  <2> QED BY <2>1, <2>2, UnclaimedStep DEF Unclaimed, Places, InTransaction, Stored, Idle, Begun,
                                           Reading, Writing
<1> QED BY <1>1, <1>2

LEMMA EditKeepsFile ==
  ASSUME BooksTypeOK, NEW f \in Files, FileInv(f), Edit(f)
  PROVE  FileInv(f)'
<1>1. DOMAIN tx'[f] = {} /\ pc'[f] = "idle"
  BY NoRowsOutside DEF Edit, Go, dbVars, BooksTypeOK, InTransaction
<1>2. TypeOf(f)' /\ ReadsText(f)'
  <2>1. Code[f] \in Seq(Seq(Kinds))
    BY SrcInfoAssumption
  <2>2. version[f] \in 1..Len(Code[f]) /\ Len(Code[f]) \in Nat
    BY <2>1 DEF FileInv, TypeOf
  <2>3. version'[f] = version[f] + 1 /\ version'[f] \in DOMAIN Code[f]
    BY <2>1, <2>2 DEF Edit, BooksTypeOK
  <2> QED BY <1>1, <2>2, <2>3 DEF Edit, FileInv, TypeOf, ReadsText, Places, Idle, Begun, Reading,
                                      Writing
<1> QED BY <1>1, <1>2, NothingClaimed DEF Unclaimed, Places, Idle, InTransaction, Stored

LEMMA SkipKeepsFile ==
  ASSUME BooksTypeOK, NEW f \in Files, FileInv(f), Skip(f)
  PROVE  FileInv(f)'
<1>1. /\ pc[f] = "collect" /\ ~Collected(Text(f)[next[f]]) /\ next'[f] = next[f] + 1
      /\ UNCHANGED <<pc, version, source, modId, modules, rows, tx, object>>
  BY DEF Skip, dbVars, tableVars, BooksTypeOK
<1>2. TypeOf(f)' /\ ReadsText(f)' /\ KnowsModule(f)' /\ AtRow(f)' /\ OwnRows(f)'
  BY <1>1 DEF FileInv, TypeOf, ReadsText, KnowsModule, AtRow, OwnRows, IdOf, Begun, InTransaction,
              Reading, Writing
<1>3. CollectedLines(f)'
  <2>1. source[f] \in DOMAIN Code[f] /\ next[f] \in Nat
    BY SrcInfoAssumption DEF FileInv, TypeOf
  <2>2. Text(f) \in Seq(Kinds)
    BY <2>1, SrcInfoAssumption DEF Text
  <2>3. \A i \in DOMAIN Text(f) : i < next[f] + 1 => i < next[f] \/ i = next[f]
    BY <2>1, <2>2
  <2>4. Text(f)' = Text(f)
    BY <1>1 DEF Text
  <2>5. CollectedLines(f)
    BY DEF FileInv
  <2> QED BY <1>1, <2>3, <2>4, <2>5 DEF CollectedLines, HasLine, IdOf, Line
<1> QED BY <1>1, <1>2, <1>3 DEF FileInv, StoredLines, ObjectMade, Stored

LEMMA ExistsKeepsFile ==
  ASSUME BooksTypeOK, NEW f \in Files, FileInv(f), Exists(f)
  PROVE  FileInv(f)'
<1>1. CASE Stops(f)
  BY <1>1, StopKeepsFile DEF Exists
<1>2. CASE ~Stops(f)
  <2>1. /\ pc[f] = "collect" /\ pc'[f] = "row"
        /\ next[f] <= Len(Text(f)) /\ Collected(Text(f)[next[f]])
        /\ UNCHANGED <<version, source, modId, next, modules, rows, tx, object>>
    BY <1>2 DEF Exists, Fail, Stops, Go, fileVars, tableVars, BooksTypeOK
  <2>2. modId[f] < ModLimit
    <3>1. ComputeId(modId[f], next[f] - 1) # None
      BY <1>2 DEF Exists, Stops
    <3> QED BY <3>1 DEF ComputeId
  <2>3. source[f] \in DOMAIN Code[f] /\ next[f] \in Nat \ {0}
    BY SrcInfoAssumption DEF FileInv, TypeOf
  <2>4. Text(f) \in Seq(Kinds)
    BY <2>3, SrcInfoAssumption DEF Text
  <2>5. AtRow(f)'
    BY <2>1, <2>2, <2>3, <2>4 DEF AtRow, Text
  <2>6. TypeOf(f)' /\ ReadsText(f)' /\ KnowsModule(f)' /\ OwnRows(f)'
    BY <2>1 DEF FileInv, TypeOf, ReadsText, KnowsModule, OwnRows, IdOf, Begun, InTransaction,
                Places, Reading, Writing
  <2>7. CollectedLines(f)'
    BY <2>1 DEF FileInv, CollectedLines, HasLine, IdOf, Line, Text, InTransaction
  <2> QED BY <2>1, <2>5, <2>6, <2>7 DEF FileInv, StoredLines, ObjectMade, Stored
<1> QED BY <1>1, <1>2

LEMMA InsertRowWrites ==
  ASSUME ShortTexts, BooksTypeOK, NEW f \in Files, FileInv(f), InsertRow(f), ~Stops(f)
  PROVE  /\ pc[f] = "row" /\ pc'[f] = "collect" /\ next'[f] = next[f] + 1
         /\ tx'[f] = WithRow(tx[f], IdOf(f, next[f]), InsertedRow(f))
         /\ InsertedRow(f).line = Line(f, next[f])
         /\ InsertedRow(f).op = IF IdOf(f, next[f]) \in DOMAIN Table(f)
                          THEN Table(f)[IdOf(f, next[f])].op ELSE Op(Text(f)[next[f]])
         /\ UNCHANGED <<version, source, modId, modules, rows, object>>
         /\ next[f] \in DOMAIN Text(f) /\ Collected(Text(f)[next[f]]) /\ modId[f] < ModLimit
         /\ DOMAIN Text(f) \subseteq 1..Span /\ modId[f] \in Nat
<1>1. pc[f] = "row"
  BY DEF InsertRow, WriteRow
<1>2. next[f] \in DOMAIN Text(f) /\ Collected(Text(f)[next[f]]) /\ modId[f] < ModLimit
  BY <1>1 DEF FileInv, AtRow
<1>3. DOMAIN Text(f) \subseteq 1..Span
  <2>1. source[f] \in DOMAIN Code[f]
    BY SrcInfoAssumption DEF FileInv, TypeOf
  <2> QED BY <2>1, CodeIs DEF Text
<1>4. modId[f] \in Nat
  BY <1>1 DEF FileInv, KnowsModule, BooksTypeOK, InTransaction
<1>5. NextId(f) = IdOf(f, next[f])
  BY <1>2, <1>3, SrcInfoAssumption DEF NextId, ComputeId, IdOf
<1>6. /\ tx' = [tx EXCEPT ![f] = WithRow(tx[f], NextId(f), InsertedRow(f))]
      /\ pc'[f] = "collect" /\ next'[f] = next[f] + 1
      /\ UNCHANGED <<version, source, modId, modules, rows, object>>
  BY DEF InsertRow, WriteRow, Fail, Stops, Go, BooksTypeOK
<1>7. /\ InsertedRow(f).line = Line(f, next[f])
      /\ InsertedRow(f).op = IF IdOf(f, next[f]) \in DOMAIN Table(f)
                       THEN Table(f)[IdOf(f, next[f])].op ELSE Op(Text(f)[next[f]])
  BY <1>5 DEF InsertedRow
<1>8. tx'[f] = WithRow(tx[f], IdOf(f, next[f]), InsertedRow(f))
  BY <1>5, <1>6 DEF BooksTypeOK
<1> QED BY <1>1, <1>2, <1>3, <1>4, <1>6, <1>7, <1>8

LEMMA InsertRowKeepsFile ==
  ASSUME ShortTexts, BooksTypeOK, NEW f \in Files, FileInv(f), InsertRow(f)
  PROVE  FileInv(f)'
<1>1. CASE Stops(f)
  BY <1>1, StopKeepsFile DEF InsertRow, WriteRow
<1>2. CASE ~Stops(f)
  <2> DEFINE id == IdOf(f, next[f])
  <2>1. /\ pc[f] = "row" /\ pc'[f] = "collect" /\ next'[f] = next[f] + 1
        /\ tx'[f] = WithRow(tx[f], id, InsertedRow(f))
        /\ InsertedRow(f).line = Line(f, next[f])
        /\ UNCHANGED <<version, source, modId, modules, rows, object>>
        /\ next[f] \in DOMAIN Text(f) /\ modId[f] < ModLimit
        /\ DOMAIN Text(f) \subseteq 1..Span /\ modId[f] \in Nat
    BY <1>2, InsertRowWrites
  <2>2. /\ \A x : x \in DOMAIN tx'[f] <=> x = id \/ x \in DOMAIN tx[f]
        /\ tx'[f][id] = InsertedRow(f)
        /\ \A x \in DOMAIN tx[f] : x # id => tx'[f][x] = tx[f][x]
    BY <2>1, RowAdded
  <2>3. TypeOf(f)' /\ ReadsText(f)' /\ KnowsModule(f)'
    BY <2>1 DEF FileInv, TypeOf, ReadsText, KnowsModule, Places, Begun, InTransaction, Reading, Writing
  <2>4. OwnRows(f)'
    <3>1. next[f] \in 1..Span
      BY <2>1
    <3>2. \A x \in DOMAIN tx[f] :
            tx[f][x].line.file = f /\ \E n \in 1..Span : x = IdOf(f, n)
      BY DEF FileInv, OwnRows
    <3>3. \A n : IdOf(f, n)' = IdOf(f, n)
      BY <2>1 DEF IdOf
    <3> HIDE DEF id
    <3>4. \A x \in DOMAIN tx'[f] :
            tx'[f][x].line.file = f /\ \E n \in 1..Span : x = IdOf(f, n)
      <4>1. InsertedRow(f).line.file = f
        BY <2>1 DEF Line
      <4> QED BY <2>2, <3>1, <3>2, <4>1 DEF id
    <3> QED BY <2>1, <3>3, <3>4 DEF OwnRows, InTransaction
  <2>5. ASSUME NEW i \in DOMAIN Text(f), i < next[f] + 1, Collected(Text(f)[i])
        PROVE  HasLine(tx[f], f, i)' /\ modId'[f] < ModLimit
    <3>1. /\ HasLine(tx[f], f, i)' <=>
               IdOf(f, i) \in DOMAIN tx'[f] /\ tx'[f][IdOf(f, i)].line = Line(f, i)
      BY <2>1 DEF HasLine, IdOf, Line
    <3>2. CASE i = next[f]
      BY <2>1, <2>2, <3>1, <3>2
    <3>3. CASE i # next[f]
      <4>1. i < next[f] /\ i \in 1..Span /\ next[f] \in 1..Span
        BY <2>1, <2>5, <3>3
      <4>2. HasLine(tx[f], f, i)
        BY <2>1, <2>5, <4>1 DEF FileInv, CollectedLines, InTransaction
      <4>3. IdOf(f, i) # id
        BY <2>1, <3>3, <4>1, UniqueIdsDiffer DEF IdOf
      <4> QED BY <2>1, <2>2, <3>1, <4>2, <4>3 DEF HasLine
    <3> QED BY <2>1, <3>2, <3>3
  <2>6. CollectedLines(f)'
    <3>1. Text(f)' = Text(f)
      BY <2>1 DEF Text
    <3> QED BY <2>1, <2>5, <3>1 DEF CollectedLines
  <2> QED BY <2>1, <2>3, <2>4, <2>6 DEF FileInv, AtRow, StoredLines, ObjectMade, Stored
<1> QED BY <1>1, <1>2

LEMMA CommitKeepsFile ==
  ASSUME BooksTypeOK, NEW f \in Files, FileInv(f), Commit(f)
  PROVE  FileInv(f)'
<1>1. CASE Stops(f)
  BY <1>1, StopKeepsFile DEF Commit
<1>2. CASE ~Stops(f)
  <2>1. /\ pc[f] = "collect" /\ pc'[f] = "committed" /\ next[f] > Len(Text(f))
        /\ rows' = Over(tx[f], rows)
        /\ UNCHANGED <<version, source, modId, next, modules, tx, object>>
    BY <1>2 DEF Commit, FailToWrite, Stops, Go, Table, fileVars, BooksTypeOK
  <2>2. TypeOf(f)' /\ ReadsText(f)' /\ KnowsModule(f)' /\ OwnRows(f)'
    BY <2>1 DEF FileInv, TypeOf, ReadsText, KnowsModule, OwnRows, IdOf, Places, Begun,
                InTransaction, Reading, Writing
  <2>3. CollectedLines(f)'
    BY <2>1 DEF FileInv, CollectedLines, HasLine, IdOf, Line, Text, InTransaction
  <2>4. ASSUME NEW i \in DOMAIN Text(f), Collected(Text(f)[i])
        PROVE  modId'[f] < ModLimit /\ HasLine(rows, f, i)'
    <3>1. source[f] \in DOMAIN Code[f] /\ next[f] \in Nat \ {0}
      BY SrcInfoAssumption DEF FileInv, TypeOf
    <3>2. Text(f) \in Seq(Kinds)
      BY <3>1, SrcInfoAssumption DEF Text
    <3>3. i < next[f]
      BY <2>1, <3>1, <3>2
    <3>4. modId[f] < ModLimit /\ HasLine(tx[f], f, i)
      BY <2>1, <2>4, <3>3 DEF FileInv, CollectedLines, InTransaction
    <3>5. IdOf(f, i) \in DOMAIN rows' /\ rows'[IdOf(f, i)] = tx[f][IdOf(f, i)]
      <4>1. PICK T, R : T = tx[f] /\ R = rows
        OBVIOUS
      <4>2. /\ DOMAIN Over(T, R) = DOMAIN T \union DOMAIN R
            /\ \A x \in DOMAIN T : Over(T, R)[x] = T[x]
        BY Overlays
      <4> QED BY <2>1, <3>4, <4>1, <4>2 DEF HasLine
    <3> QED BY <2>1, <3>4, <3>5 DEF HasLine, IdOf, Line
  <2>5. StoredLines(f)'
    <3>1. Text(f)' = Text(f)
      BY <2>1 DEF Text
    <3> QED BY <2>4, <3>1 DEF StoredLines
  <2> QED BY <2>1, <2>2, <2>3, <2>5 DEF FileInv, AtRow, ObjectMade
<1> QED BY <1>1, <1>2

LEMMA CommittedKeepsFile ==
  ASSUME BooksTypeOK, NEW f \in Files, FileInv(f), Committed(f)
  PROVE  FileInv(f)'
<1>1. /\ pc[f] = "committed" /\ pc'[f] = "instrument" /\ tx'[f] = <<>>
      /\ UNCHANGED <<version, source, modId, next, modules, rows, object>>
  BY DEF Committed, Go, Release, fileVars, tableVars, BooksTypeOK
<1>2. TypeOf(f)' /\ ReadsText(f)' /\ KnowsModule(f)'
  BY <1>1 DEF FileInv, TypeOf, ReadsText, KnowsModule, Places, Begun, InTransaction, Stored,
              Reading, Writing
<1>3. StoredLines(f)'
  BY <1>1 DEF FileInv, StoredLines, HasLine, IdOf, Line, Text, Stored
<1> QED BY <1>1, <1>2, <1>3 DEF FileInv, AtRow, OwnRows, CollectedLines, ObjectMade, InTransaction

\* Only instructions that are collected get hooks.
LEMMA HookedAreCollected ==
  ASSUME NEW k \in Kinds, NEW h \in HooksOf(k)
  PROVE  Collected(k)
BY DEF HooksOf, Wrapper, Kinds, Calls, Collected

LEMMA InstrumentKeepsFile ==
  ASSUME BooksTypeOK, NEW f \in Files, FileInv(f), Instrument(f)
  PROVE  FileInv(f)'
<1>1. pc[f] = "instrument" /\ UNCHANGED <<version, source, modId, next, modules, rows, tx>>
  BY DEF Instrument, dbVars, fileVars, tableVars
<1>2. DOMAIN tx'[f] = {}
  BY <1>1, NoRowsOutside DEF InTransaction
<1>3. CASE pc' = [pc EXCEPT ![f] = "aborted"]
  <2>1. pc'[f] = "aborted"
    BY <1>3 DEF BooksTypeOK
  <2> QED BY <1>1, <1>2, <2>1, UnclaimedStep DEF Unclaimed, Places, InTransaction, Stored, Idle,
                                                 Begun, Reading, Writing
<1>4. CASE pc' # [pc EXCEPT ![f] = "aborted"]
  <2> DEFINE hooks == {<<h, ComputeId(modId[f], i - 1), i>> :
                         i \in DOMAIN Text(f), h \in UNION {HooksOf(k) : k \in Kinds}}
             made == {x \in hooks : x[1] \in HooksOf(Text(f)[x[3]])}
  <2>1. pc'[f] = "done" /\ object'[f].hooks = made
    BY <1>4 DEF Instrument, Go, BooksTypeOK
  <2>2. source[f] \in DOMAIN Code[f]
    BY SrcInfoAssumption DEF FileInv, TypeOf
  <2>3. Text(f) \in Seq(Kinds)
    BY <2>2, SrcInfoAssumption DEF Text
  <2>4. ASSUME NEW x \in made
        PROVE  /\ x[3] \in DOMAIN Text(f) /\ Collected(Text(f)[x[3]])
               /\ x[2] = ComputeId(modId[f], x[3] - 1)
    <3>1. PICK i \in DOMAIN Text(f), h \in UNION {HooksOf(k) : k \in Kinds} :
            x = <<h, ComputeId(modId[f], i - 1), i>>
      OBVIOUS
    <3>2. x[1] = h /\ x[2] = ComputeId(modId[f], i - 1) /\ x[3] = i
      BY <3>1
    <3>3. h \in HooksOf(Text(f)[i])
      BY <3>2
    <3>4. Text(f)[i] \in Kinds
      BY <2>3
    <3> QED BY <3>2, <3>3, <3>4, HookedAreCollected
  <2>5. ObjectMade(f)'
    <3>1. Text(f)' = Text(f)
      BY <1>1 DEF Text
    <3> HIDE DEF made
    <3> QED BY <1>1, <2>1, <2>4, <3>1 DEF ObjectMade
  <2>6. TypeOf(f)' /\ ReadsText(f)' /\ KnowsModule(f)'
    BY <1>1, <2>1 DEF FileInv, TypeOf, ReadsText, KnowsModule, Places, Idle, Begun,
                      InTransaction, Stored, Reading, Writing
  <2>7. StoredLines(f)'
    BY <1>1, <2>1 DEF FileInv, StoredLines, HasLine, IdOf, Line, Text, Stored
  <2> QED BY <1>2, <2>1, <2>5, <2>6, <2>7 DEF FileInv, AtRow, OwnRows, CollectedLines,
                                             InTransaction
<1> QED BY <1>3, <1>4

LEMMA CompileKeepsFile ==
  ASSUME ShortTexts, BuildInv, BooksTypeOK, NEW f \in Files, FileInv(f), Compile(f)
  PROVE  FileInv(f)'
<1>1. CASE TakeShared(f) \/ TakeReserved(f)
  BY <1>1, TakeKeepsFile, StopKeepsFile DEF TakeShared, TakeReserved, Reading, Writing
<1>2. CASE ~(TakeShared(f) \/ TakeReserved(f))
  BY <1>2, StartKeepsFile, GiveBackKeepsFile, OpenKeepsFile, FindModuleKeepsFile, WriteKeepsFile,
     SkipKeepsFile, ExistsKeepsFile, InsertRowKeepsFile, CommitKeepsFile, CommittedKeepsFile,
     InstrumentKeepsFile, EditKeepsFile
     DEF Compile
<1> QED BY <1>1, <1>2

\* A commit leaves the rows of a file whose name no other has.
LEMMA CompileKeepsOthers ==
  ASSUME ShortTexts, BuildInv, BooksTypeOK, NEW f \in Files, Compile(f),
         NEW g \in Files \ {f}, FileInv(f), FileInv(g)
  PROVE  FileInv(g)'
<1>1. Untouched(g) /\ Grows(modules, modules')
  BY OthersUntouched, TablesChange
<1>2. ASSUME NEW i \in DOMAIN Text(g), Alone(g), pc[g] \in Stored, IdOf(g, i) \in DOMAIN rows
      PROVE  IdOf(g, i) \in DOMAIN rows' /\ rows'[IdOf(g, i)] = rows[IdOf(g, i)]
  <2>1. CASE rows' = rows
    BY <1>2, <2>1
  <2>2. CASE pc[f] = "collect" /\ rows' = Over(tx[f], rows)
    <3>1. i \in 1..Span
      <4>1. source[g] \in DOMAIN Code[g]
        BY SrcInfoAssumption DEF FileInv, TypeOf
      <4> QED BY <4>1, CodeIs DEF Text
    <3>2. /\ modId[g] \in DOMAIN modules /\ modules[modId[g]] = Name[g]
          /\ modId[f] \in DOMAIN modules /\ modules[modId[f]] = Name[f]
      BY <1>2, <2>2 DEF FileInv, KnowsModule, InTransaction
    <3>3. modId[f] # modId[g] /\ modId[f] \in Nat /\ modId[g] \in Nat
      BY <1>2, <3>2 DEF Alone, BooksTypeOK
    <3>4. IdOf(g, i) \notin DOMAIN tx[f]
      <4> SUFFICES ASSUME IdOf(g, i) \in DOMAIN tx[f] PROVE FALSE
        OBVIOUS
      <4>1. PICK n \in 1..Span : IdOf(g, i) = IdOf(f, n)
        BY DEF FileInv, OwnRows
      <4> QED BY <3>1, <3>3, <4>1, UniqueIdsDiffer DEF IdOf
    <3>5. PICK T, R : T = tx[f] /\ R = rows
      OBVIOUS
    <3>6. /\ DOMAIN Over(T, R) = DOMAIN T \union DOMAIN R
          /\ \A x \in DOMAIN R \ DOMAIN T : Over(T, R)[x] = R[x]
      BY ONLY Overlays
    <3> QED BY <1>2, <2>2, <3>4, <3>5, <3>6
  <2> QED BY <2>1, <2>2, TablesChange
<1>3. StoredLines(g)'
  BY <1>1, <1>2, StoredLinesKeep
<1> QED BY <1>1, <1>3, UntouchedKeeps

LEMMA KnownOver ==
  ASSUME NEW mods, NEW vers, NEW T, NEW R, KnownIn(mods, vers, T), KnownIn(mods, vers, R)
  PROVE  KnownIn(mods, vers, Over(T, R))
<1>1. /\ DOMAIN Over(T, R) = DOMAIN T \union DOMAIN R
      /\ \A x \in DOMAIN T : Over(T, R)[x] = T[x]
      /\ \A x \in DOMAIN R \ DOMAIN T : Over(T, R)[x] = R[x]
  BY ONLY Overlays
<1> SUFFICES ASSUME NEW id \in DOMAIN Over(T, R)
             PROVE  \E g \in Files, m \in DOMAIN mods, n \in 1..Span :
                      /\ mods[m] = Name[g] /\ id = UniqueId(m, n - 1)
                      /\ Over(T, R)[id].op \in Ops(g, vers[g], n)
  BY DEF KnownIn
<1>2. CASE id \in DOMAIN T
  BY <1>1, <1>2 DEF KnownIn
<1>3. CASE id \notin DOMAIN T
  BY <1>1, <1>3 DEF KnownIn
<1> QED BY <1>2, <1>3

LEMMA InsertRowKnown ==
  ASSUME ShortTexts, BooksTypeOK, OpsKnown, NEW f \in Files, FileInv(f), InsertRow(f),
         ~Stops(f)
  PROVE  KnownIn(modules, version, tx'[f])
<1> DEFINE id == IdOf(f, next[f])
<1>1. /\ tx'[f] = WithRow(tx[f], id, InsertedRow(f))
      /\ InsertedRow(f).op = IF id \in DOMAIN Table(f) THEN Table(f)[id].op ELSE Op(Text(f)[next[f]])
      /\ next[f] \in DOMAIN Text(f) /\ Collected(Text(f)[next[f]])
      /\ DOMAIN Text(f) \subseteq 1..Span /\ pc[f] = "row"
  BY InsertRowWrites
<1>2. modId[f] \in DOMAIN modules /\ modules[modId[f]] = Name[f]
  BY <1>1 DEF FileInv, KnowsModule, InTransaction
<1>3. KnownIn(modules, version, tx[f]) /\ KnownIn(modules, version, Table(f))
  BY KnownOver DEF OpsKnown, Table
<1>4. \E g \in Files, m \in DOMAIN modules, n \in 1..Span :
        modules[m] = Name[g] /\ id = UniqueId(m, n - 1) /\ InsertedRow(f).op \in Ops(g, version[g], n)
  <2>1. CASE id \in DOMAIN Table(f)
    BY <1>1, <1>3, <2>1 DEF KnownIn
  <2>2. CASE id \notin DOMAIN Table(f)
    <3>1. source[f] \in 1..version[f] /\ source[f] \in DOMAIN Code[f]
      BY SrcInfoAssumption DEF FileInv, TypeOf
    <3>2. next[f] <= Len(Code[f][source[f]])
      <4>1. Code[f][source[f]] \in Seq(Kinds)
        BY <3>1, SrcInfoAssumption
      <4> QED BY <1>1, <4>1 DEF Text
    <3>3. InsertedRow(f).op \in Ops(f, version[f], next[f])
      BY <1>1, <2>2, <3>1, <3>2 DEF Ops, Text
    <3> QED BY <1>1, <1>2, <3>3 DEF IdOf
  <2> QED BY <2>1, <2>2
<1>5. ASSUME NEW T, NEW k, NEW row, KnownIn(modules, version, T),
             \E g \in Files, m \in DOMAIN modules, n \in 1..Span :
               modules[m] = Name[g] /\ k = UniqueId(m, n - 1) /\ row.op \in Ops(g, version[g], n)
      PROVE  KnownIn(modules, version, WithRow(T, k, row))
  <2>1. /\ \A x : x \in DOMAIN WithRow(T, k, row) <=> x = k \/ x \in DOMAIN T
        /\ WithRow(T, k, row)[k] = row
        /\ \A x \in DOMAIN T : x # k => WithRow(T, k, row)[x] = T[x]
    BY ONLY RowAdded
  <2> SUFFICES ASSUME NEW x \in DOMAIN WithRow(T, k, row)
               PROVE  \E g \in Files, m \in DOMAIN modules, n \in 1..Span :
                        /\ modules[m] = Name[g] /\ x = UniqueId(m, n - 1)
                        /\ WithRow(T, k, row)[x].op \in Ops(g, version[g], n)
    BY DEF KnownIn
  <2>2. CASE x = k
    BY <1>5, <2>1, <2>2
  <2>3. CASE x # k
    BY <1>5, <2>1, <2>3 DEF KnownIn
  <2> QED BY <2>2, <2>3
<1> HIDE DEF id
<1>6. PICK T, row : T = tx[f] /\ row = InsertedRow(f)
  OBVIOUS
<1> QED BY <1>1, <1>3, <1>4, <1>5, <1>6

LEMMA CompileKeepsOps ==
  ASSUME ShortTexts, BuildInv, RowsInv, NEW f \in Files, Compile(f), \A g \in Files : FileInv(g)'
  PROVE  OpsKnown'
<1>1. BooksTypeOK /\ (\A g \in Files : FileInv(g)) /\ OpsKnown
  BY DEF RowsInv
<1>2. /\ Grows(modules, modules')
      /\ rows' = rows \/ rows' = Over(tx[f], rows)
      /\ tx'[f] = tx[f] \/ tx'[f] = <<>> \/ (InsertRow(f) /\ ~Stops(f))
  BY <1>1, TablesChange
<1>3. \A g \in Files : version[g] \in Nat /\ version'[g] \in Nat /\ version[g] <= version'[g]
  <2>1. ASSUME NEW g \in Files PROVE version[g] \in Nat /\ version'[g] \in Nat
    <3>1. version[g] \in DOMAIN Code[g] /\ version'[g] \in DOMAIN Code[g]
      BY <1>1 DEF FileInv, TypeOf
    <3> QED BY <3>1, SrcInfoAssumption
  <2>2. ASSUME NEW g \in Files \ {f} PROVE version'[g] = version[g]
    BY <1>1, OthersUntouched DEF Untouched
  <2>3. version'[f] = version[f] \/ version'[f] = version[f] + 1
    BY <1>1, TablesChange
  <2>4. version[f] <= version'[f]
    BY <2>1, <2>3
  <2> QED BY <2>1, <2>2, <2>4
<1>4. ASSUME NEW T, KnownIn(modules, version, T)
      PROVE  KnownIn(modules', version', T)
  <2>1. PICK mods, more, vers, later :
          mods = modules /\ more = modules' /\ vers = version /\ later = version'
    OBVIOUS
  <2> QED BY <1>2, <1>3, <1>4, <2>1, KnownStays
<1>5. KnownIn(modules, version, rows')
  BY <1>1, <1>2, KnownOver DEF OpsKnown
<1>6. ASSUME NEW g \in Files PROVE KnownIn(modules, version, tx'[g])
  <2>1. CASE g # f
    BY <1>1, <1>6, <2>1, OthersUntouched DEF Untouched, OpsKnown
  <2>2. CASE g = f /\ tx'[f] = tx[f]
    BY <1>1, <2>2 DEF OpsKnown
  <2>3. CASE g = f /\ tx'[f] = <<>>
    BY <2>3 DEF KnownIn
  <2>4. CASE g = f /\ InsertRow(f) /\ ~Stops(f)
    BY <1>1, <2>4, InsertRowKnown
  <2> QED BY <1>2, <2>1, <2>2, <2>3, <2>4
<1>7. PICK R : R = rows'
  OBVIOUS
<1>8. KnownIn(modules', version', rows')
  BY <1>4, <1>5, <1>7
<1>9. ASSUME NEW g \in Files PROVE KnownIn(modules', version', tx'[g])
  <2>1. PICK T : T = tx'[g]
    OBVIOUS
  <2> QED BY <1>4, <1>6, <2>1
<1> QED BY <1>8, <1>9 DEF OpsKnown

\* A commit makes the text of its file whole, and touches no other.
LEMMA CompileKeepsTexts ==
  ASSUME ShortTexts, RowsInv, NEW f \in Files, Compile(f), NEW g \in Files
  PROVE  WholeText(g)'
<1> SUFFICES ASSUME Alone(g) PROVE WholeText(g)'
  BY DEF WholeText, Alone
<1>1. BuildInv /\ BooksTypeOK /\ FileInv(f) /\ FileInv(g) /\ WholeText(g)
  BY DEF RowsInv
<1>2. /\ Grows(modules, modules')
      /\ rows' = rows \/ (pc[f] = "collect" /\ Commit(f) /\ ~Stops(f) /\ rows' = Over(tx[f], rows))
  BY <1>1, TablesChange
<1>3. \A v \in 1..version[g] : v \in 1..version'[g]
  <2>1. version[g] \in Nat
    BY <1>1, SrcInfoAssumption DEF FileInv, TypeOf
  <2>2. version'[g] = version[g] \/ version'[g] = version[g] + 1
    BY <1>1, TablesChange, OthersUntouched DEF Untouched
  <2> QED BY <2>1, <2>2
<1>4. CASE rows' = rows
  BY <1>1, <1>2, <1>3, <1>4 DEF WholeText, HasText, Grows
<1>5. CASE pc[f] = "collect" /\ Commit(f) /\ ~Stops(f) /\ rows' = Over(tx[f], rows)
  <2>1. PICK T, R : T = tx[f] /\ R = rows
    OBVIOUS
  <2>2. /\ DOMAIN Over(T, R) = DOMAIN T \union DOMAIN R
        /\ \A x \in DOMAIN T : Over(T, R)[x] = T[x]
        /\ \A x \in DOMAIN R \ DOMAIN T : Over(T, R)[x] = R[x]
    BY ONLY Overlays
  <2>3. /\ DOMAIN rows' = DOMAIN tx[f] \union DOMAIN rows
        /\ \A x \in DOMAIN tx[f] : rows'[x] = tx[f][x]
        /\ \A x \in DOMAIN rows \ DOMAIN tx[f] : rows'[x] = rows[x]
    BY <1>5, <2>1, <2>2
  <2>4. modId[f] \in DOMAIN modules /\ modules[modId[f]] = Name[f]
    BY <1>1, <1>5 DEF FileInv, KnowsModule, InTransaction
  <2>5. CASE g = f
    <3>1. source[f] \in 1..version[f] /\ source[f] \in DOMAIN Code[f] /\ next[f] \in Nat \ {0}
      BY <1>1, SrcInfoAssumption DEF FileInv, TypeOf
    <3>2. next[f] > Len(Text(f))
      BY <1>5 DEF Commit, FailToWrite, Stops
    <3>3. Text(f) = Code[f][source[f]] /\ Text(f) \in Seq(Kinds)
      BY <3>1, SrcInfoAssumption DEF Text
    <3>4. \A i \in DOMAIN Text(f) : Collected(Text(f)[i]) => HasLine(tx[f], f, i)
      <4>1. \A i \in DOMAIN Text(f) : i < next[f]
        BY <3>1, <3>2, <3>3
      <4> QED BY <1>1, <1>5, <4>1 DEF FileInv, CollectedLines, InTransaction
    <3>5. HasText(f, modId[f], source[f])'
      <4>1. modId'[f] = modId[f] /\ source'[f] = source[f]
        BY <1>5 DEF Commit, FailToWrite, Stops, fileVars
      <4> QED BY <2>3, <3>3, <3>4, <4>1 DEF HasText, HasLine, IdOf, Line
    <3>6. modId'[f] = modId[f] /\ source'[f] = source[f]
      BY <1>5 DEF Commit, FailToWrite, Stops, fileVars
    <3> QED BY <1>2, <1>3, <2>4, <2>5, <3>1, <3>5, <3>6 DEF WholeText, Grows
  <2>6. CASE g # f
    <3>1. CASE \A id \in DOMAIN rows : rows[id].line.file # g
      <4>1. \A id \in DOMAIN tx[f] : tx[f][id].line.file = f
        BY <1>1 DEF FileInv, OwnRows
      <4>2. \A id \in DOMAIN rows' : rows'[id].line.file # g
        BY <2>3, <2>6, <3>1, <4>1
      <4> QED BY <4>2 DEF WholeText
    <3>2. ASSUME NEW v \in 1..version[g], NEW m \in DOMAIN modules, modules[m] = Name[g],
                 HasText(g, m, v)
          PROVE  WholeText(g)'
      <4>1. v \in DOMAIN Code[g]
        <5>1. Code[g] \in Seq(Seq(Kinds)) /\ version[g] \in DOMAIN Code[g]
          BY <1>1, SrcInfoAssumption DEF FileInv, TypeOf
        <5> QED BY <5>1
      <4>2. m # modId[f] /\ m \in Nat /\ modId[f] \in Nat
        BY <1>1, <2>4, <2>6, <3>2 DEF Alone, BooksTypeOK
      <4>3. \A i \in DOMAIN Code[g][v] : UniqueId(m, i - 1) \notin DOMAIN tx[f]
        <5> SUFFICES ASSUME NEW i \in DOMAIN Code[g][v], UniqueId(m, i - 1) \in DOMAIN tx[f]
                     PROVE  FALSE
          OBVIOUS
        <5>1. PICK n \in 1..Span : UniqueId(m, i - 1) = UniqueId(modId[f], n - 1)
          BY <1>1 DEF FileInv, OwnRows, IdOf
        <5>2. i \in 1..Span
          BY <4>1, CodeIs
        <5> QED BY <4>2, <5>1, <5>2, UniqueIdsDiffer
      <4>4. HasText(g, m, v)'
        BY <2>3, <3>2, <4>3 DEF HasText
      <4> QED BY <1>2, <1>3, <3>2, <4>4 DEF WholeText, Grows
    <3> QED BY <1>1, <3>1, <3>2 DEF WholeText
  <2> QED BY <2>5, <2>6
<1> QED BY <1>2, <1>4, <1>5

LEMMA RowsInvNext ==
  ASSUME ShortTexts, RowsInv, [Next]_vars
  PROVE  RowsInv'
<1>1. CASE UNCHANGED vars
  <2>1. \A f \in Files : FileInv(f)'
    <3> TAKE f \in Files
    <3>1. FileInv(f)
      BY DEF RowsInv
    <3> QED BY <1>1, <3>1 DEF vars, fileVars, dbVars, tableVars, FileInv, TypeOf, ReadsText,
                              KnowsModule, AtRow, OwnRows, CollectedLines, StoredLines, ObjectMade,
                              HasLine, IdOf, Line, Text
  <2>2. BuildInv' /\ BooksTypeOK' /\ OpsKnown' /\ \A f \in Files : WholeText(f)'
    BY <1>1 DEF vars, fileVars, dbVars, tableVars, RowsInv, BuildInv, NamesOnce, BooksTypeOK,
                OpsKnown, WholeText, HasText
  <2> QED BY <2>1, <2>2 DEF RowsInv
<1>2. ASSUME NEW f \in Files, Compile(f) PROVE RowsInv'
  <2>1. BuildInv /\ BooksTypeOK /\ \A g \in Files : FileInv(g)
    BY DEF RowsInv
  <2>2. BuildInv' /\ BooksTypeOK'
    BY <1>2, <2>1, TablesChange
  <2>3. \A g \in Files : FileInv(g)'
    BY <1>2, <2>1, CompileKeepsFile, CompileKeepsOthers
  <2>4. OpsKnown' /\ \A g \in Files : WholeText(g)'
    BY <1>2, <2>1, <2>3, CompileKeepsOps, CompileKeepsTexts
  <2> QED BY <2>2, <2>3, <2>4 DEF RowsInv
<1> QED BY <1>1, <1>2 DEF Next, Terminating

LEMMA RowsInvHolds == ASSUME ShortTexts PROVE Spec => []RowsInv
<1>1. Init => RowsInv
  BY RowsInvInit
<1>2. RowsInv /\ [Next]_vars => RowsInv'
  BY RowsInvNext
<1> QED BY <1>1, <1>2, PTL DEF Spec

\* What the invariant tells of a hook of an object.
LEMMA HookHasRow ==
  ASSUME RowsInv, NEW f \in Files, Alone(f), pc[f] = "done", NEW h \in object[f].hooks
  PROVE  /\ h[3] \in DOMAIN Text(f) /\ Collected(Text(f)[h[3]])
         /\ h[2] = ComputeId(modId[f], h[3] - 1) /\ modId[f] < ModLimit
         /\ HasLine(rows, f, h[3])
<1>1. /\ h[3] \in DOMAIN Text(f) /\ Collected(Text(f)[h[3]])
      /\ h[2] = ComputeId(modId[f], h[3] - 1)
  BY DEF RowsInv, FileInv, ObjectMade
<1>2. modId[f] < ModLimit /\ HasLine(rows, f, h[3])
  BY <1>1 DEF RowsInv, FileInv, StoredLines, Stored
<1> QED BY <1>1, <1>2

LEMMA HookIdIs ==
  ASSUME ShortTexts, RowsInv, NEW f \in Files, Alone(f), pc[f] = "done", NEW h \in object[f].hooks
  PROVE  h[2] = IdOf(f, h[3]) /\ h[3] \in 1..Span
<1>1. h[3] \in DOMAIN Text(f) /\ h[2] = ComputeId(modId[f], h[3] - 1) /\ modId[f] < ModLimit
  BY HookHasRow
<1>2. source[f] \in DOMAIN Code[f]
  BY SrcInfoAssumption DEF RowsInv, FileInv, TypeOf
<1>3. h[3] \in 1..Span
  BY <1>1, <1>2, CodeIs DEF Text
<1> QED BY <1>1, <1>3, SrcInfoAssumption DEF ComputeId, IdOf

\* Unless a text outgrows the ids of a module, the lines that are shown for an
\* up-to-date object are its own.
THEOREM HooksHaveLinesHolds == ASSUME ShortTexts PROVE Spec => []HooksHaveLines
<1>1. RowsInv => HooksHaveLines
  <2> SUFFICES ASSUME RowsInv, NEW f \in Files, Alone(f), pc[f] = "done",
                      NEW h \in object[f].hooks
               PROVE  /\ h[2] \in DOMAIN rows
                      /\ rows[h[2]].line = [file |-> f, version |-> version[f], inst |-> h[3]]
    BY DEF HooksHaveLines
  <2>1. h[2] = IdOf(f, h[3]) /\ HasLine(rows, f, h[3])
    BY HookIdIs, HookHasRow
  <2>2. source[f] = version[f]
    BY DEF RowsInv, FileInv, ReadsText
  <2> QED BY <2>1, <2>2 DEF HasLine, Line
<1> QED BY <1>1, RowsInvHolds, PTL

\* The same of the operations: they are of this text or of an earlier one.
THEOREM OpsAreOfOneTextHolds == ASSUME ShortTexts PROVE Spec => []OpsAreOfOneText
<1>1. RowsInv => OpsAreOfOneText
  <2> SUFFICES ASSUME RowsInv, NEW f \in Files, Alone(f), pc[f] = "done",
                      NEW h \in object[f].hooks
               PROVE  rows[h[2]].op \in Ops(f, version[f], h[3])
    BY DEF OpsAreOfOneText, Ops
  <2>1. h[2] = IdOf(f, h[3]) /\ h[3] \in 1..Span /\ h[2] \in DOMAIN rows
    BY HookIdIs, HookHasRow DEF HasLine
  <2>2. PICK g \in Files, m \in DOMAIN modules, n \in 1..Span :
          /\ modules[m] = Name[g] /\ h[2] = UniqueId(m, n - 1)
          /\ rows[h[2]].op \in Ops(g, version[g], n)
    BY <2>1 DEF RowsInv, OpsKnown, KnownIn
  <2>3. modId[f] \in DOMAIN modules /\ modules[modId[f]] = Name[f]
    BY DEF RowsInv, FileInv, KnowsModule, Stored
  <2>4. m = modId[f] /\ n = h[3]
    <3>1. m \in Nat /\ modId[f] \in Nat
      BY <2>3 DEF RowsInv, BooksTypeOK
    <3> QED BY <2>1, <2>2, <3>1, UniqueIdsDiffer DEF IdOf
  <2>5. g = f
    BY <2>2, <2>3, <2>4 DEF Alone
  <2> QED BY <2>2, <2>4, <2>5
<1> QED BY <1>1, RowsInvHolds, PTL

\* Nobody ever finds a part of a text in the database, whatever compilers failed, were
\* refused a lock or ended in the middle of one.
THEOREM RowsAreOfOneTextHolds == ASSUME ShortTexts PROVE Spec => []RowsAreOfOneText
<1>1. RowsInv => RowsAreOfOneText
  <2> SUFFICES ASSUME RowsInv, NEW f \in Files, Alone(f),
                      ~(\A id \in DOMAIN rows : rows[id].line.file # f)
               PROVE  \E v \in 1..version[f] : HasText(f, ModuleId(Name[f]), v)
    BY DEF RowsAreOfOneText, HasText
  <2>1. BuildInv /\ WholeText(f)
    BY DEF RowsInv
  <2>2. PICK v \in 1..version[f], m \in DOMAIN modules : modules[m] = Name[f] /\ HasText(f, m, v)
    BY <2>1 DEF WholeText
  <2>3. ModuleId(Name[f]) = m
    BY <2>1, <2>2, ModuleIdTells DEF Entered, BuildInv, NamesOnce
  <2> QED BY <2>2, <2>3
<1> QED BY <1>1, RowsInvHolds, PTL

=============================================================================
