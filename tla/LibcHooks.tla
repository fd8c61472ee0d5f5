----------------------------- MODULE LibcHooks -----------------------------
(***************************************************************************)
(* The memory and string functions of libc: their wrappers in              *)
(* Interface.cpp, and the hooks in ScScheduler.cpp that work out, before   *)
(* the call, which bytes it is going to read and write, and log them.      *)
(*                                                                         *)
(* Memory consists of objects of Size bytes; a byte is 0 or not.  Pointers *)
(* point to the start of an object.  One thread makes the calls and stores *)
(* in between; others may store into heap objects at any time, also while  *)
(* the call is between its hook and the function.                          *)
(***************************************************************************)
EXTENDS Integers, FiniteSets

CONSTANTS
  Heap, Stack,  \* objects on the heap, and on the stack of the thread
  Size,         \* bytes of an object
  NoCall

ASSUME ObjectsAssumption == Heap \intersect Stack = {} /\ Size \in Nat \ {0}

VARIABLES
  mem,       \* the bytes of every object
  place,     \* where the thread is in the wrapper
  call,      \* the call: function, arguments a (dest, str1), b (src, str2), n
  logLibc,   \* Logger::logLibcMemOp()
  ranges,    \* the array accesses logged for the call
  touched,   \* the bytes the call has read or written
  hookMem,   \* history: the memory the hook saw
  stale      \* history: the call has found other memory than its hook

libcVars == <<mem, place, call, logLibc, ranges, touched, hookMem, stale>>

Objects == Heap \union Stack
Offsets == 0..(Size - 1)

ReadsOne == {"strchr", "strlen", "strrchr"}
ReadsTwo == {"strcmp", "strncmp", "strcspn", "strpbrk", "strspn", "strstr"}
Silent   == {"strcoll", "strtok", "strxfrm"}
Writers  == {"memcpy", "memmove", "strcpy", "strncpy", "strcat", "strncat"}
Functions == {"memchr", "memcmp", "memset"} \union Writers \union ReadsOne
               \union ReadsTwo \union Silent

Lesser(i, j)  == IF i < j THEN i ELSE j
Greater(i, j) == IF i < j THEN j ELSE i

\* strlen.  Without a terminator it goes on behind the object: what it finds
\* there is taken as no more than the rest of the object.
StrLen(m, o) ==
  IF \E i \in Offsets : m[o][i] = 0
  THEN CHOOSE i \in Offsets : m[o][i] = 0 /\ \A j \in 0..(i - 1) : m[o][j] # 0
  ELSE Size

Access(op, o, from, len) == [op |-> op, obj |-> o, from |-> from, len |-> len]

\* Mutant: strcat and strncat are taken to write from the start of dest.
Logged_CatFromStart(m, c) ==
  LET a == c.a b == c.b n == c.n
      la == StrLen(m, a) lb == StrLen(m, b)
      most == Greater(lb, n)
  IN  CASE c.f = "memchr" -> {Access("LD", a, 0, n)}
        [] c.f = "memcmp" -> {Access("LD", a, 0, n), Access("LD", b, 0, n)}
        [] c.f \in {"memcpy", "memmove"} -> {Access("LD", b, 0, n), Access("ST", a, 0, n)}
        [] c.f = "memset" -> {Access("ST", a, 0, n)}
        [] c.f = "strcat" ->
             {Access("LD", b, 0, lb), Access("LD", a, 0, la), Access("ST", a, 0, lb)}
        [] c.f = "strncat" ->
             {Access("LD", b, 0, n), Access("LD", a, 0, la), Access("ST", a, 0, n)}
        [] c.f \in ReadsOne -> {Access("LD", a, 0, la)}
        [] c.f \in ReadsTwo -> {Access("LD", a, 0, la), Access("LD", b, 0, lb)}
        [] c.f = "strcpy" -> {Access("LD", b, 0, lb), Access("ST", a, 0, lb)}
        [] c.f = "strncpy" -> {Access("LD", b, 0, most), Access("ST", a, 0, most)}
        [] OTHER -> {}

\* What the hook logs.  Strings are logged without their terminators;
\* strncmp forgets its bound and strncpy takes the larger number of the two.
Logged(m, c) ==
  LET a == c.a b == c.b n == c.n
      la == StrLen(m, a) lb == StrLen(m, b)
      most == Greater(lb, n)
  IN  CASE c.f = "memchr" -> {Access("LD", a, 0, n)}
        [] c.f = "memcmp" -> {Access("LD", a, 0, n), Access("LD", b, 0, n)}
        [] c.f \in {"memcpy", "memmove"} -> {Access("LD", b, 0, n), Access("ST", a, 0, n)}
        [] c.f = "memset" -> {Access("ST", a, 0, n)}
        [] c.f = "strcat" ->
             {Access("LD", b, 0, lb), Access("LD", a, 0, la), Access("ST", a, la, lb)}
        [] c.f = "strncat" ->
             {Access("LD", b, 0, n), Access("LD", a, 0, la), Access("ST", a, la, n)}
        [] c.f \in ReadsOne -> {Access("LD", a, 0, la)}
        [] c.f \in ReadsTwo -> {Access("LD", a, 0, la), Access("LD", b, 0, lb)}
        [] c.f = "strcpy" -> {Access("LD", b, 0, lb), Access("ST", a, 0, lb)}
        [] c.f = "strncpy" -> {Access("LD", b, 0, most), Access("ST", a, 0, most)}
        [] OTHER -> {}

\* Mutant: strncat asks for the length of its source.
Measured_Strncat(c) ==
  CASE c.f \in ReadsOne -> {c.a}
    [] c.f \in ReadsTwo \union {"strcat", "strncat"} -> {c.a, c.b}
    [] c.f \in {"strcpy", "strncpy"} -> {c.b}
    [] OTHER -> {}

\* The strings whose length the hook asks for.
Measured(c) ==
  CASE c.f = "strncat" -> {c.a}
    [] c.f \in ReadsOne -> {c.a}
    [] c.f \in ReadsTwo \union {"strcat"} -> {c.a, c.b}
    [] c.f \in {"strcpy", "strncpy"} -> {c.b}
    [] OTHER -> {}

\* What the C standard lets the function read, and what it writes.
Contract(m, c) ==
  LET a == c.a b == c.b n == c.n
      la == StrLen(m, a) + 1 lb == StrLen(m, b) + 1
  IN  CASE c.f = "memchr" -> {Access("LD", a, 0, n)}
        [] c.f = "memcmp" -> {Access("LD", a, 0, n), Access("LD", b, 0, n)}
        [] c.f \in {"memcpy", "memmove"} -> {Access("LD", b, 0, n), Access("ST", a, 0, n)}
        [] c.f = "memset" -> {Access("ST", a, 0, n)}
        [] c.f = "strcat" ->
             {Access("LD", b, 0, lb), Access("LD", a, 0, la), Access("ST", a, la - 1, lb)}
        [] c.f = "strncat" ->
             {Access("LD", b, 0, Lesser(n, lb)), Access("LD", a, 0, la),
              Access("ST", a, la - 1, Lesser(n, lb - 1) + 1)}
        [] c.f \in ReadsOne -> {Access("LD", a, 0, la)}
        [] c.f = "strncmp" -> {Access("LD", a, 0, Lesser(n, la)), Access("LD", b, 0, Lesser(n, lb))}
        [] c.f \in (ReadsTwo \ {"strncmp"}) \union {"strcoll"} ->
             {Access("LD", a, 0, la), Access("LD", b, 0, lb)}
        [] c.f = "strtok" ->
             {Access("LD", a, 0, la), Access("LD", b, 0, lb), Access("ST", a, 0, la)}
        [] c.f = "strcpy" -> {Access("LD", b, 0, lb), Access("ST", a, 0, lb)}
        [] c.f = "strncpy" -> {Access("LD", b, 0, Lesser(n, lb)), Access("ST", a, 0, n)}
        [] c.f = "strxfrm" -> {Access("LD", b, 0, lb), Access("ST", a, 0, n)}

\* The bytes of a set of accesses.
Bytes(rs) == UNION {{<<r.op, r.obj, i>> : i \in r.from..(r.from + r.len - 1)} : r \in rs}

Legal(m, c) ==
  /\ \A x \in Bytes(Contract(m, c)) : x[3] < Size
  /\ c.f \in (Writers \ {"memmove"}) \union {"strtok", "strxfrm"} => c.a # c.b

---------------------------------------------------------------------------
\* The hook before the call.  Only memset is logged without being asked for,
\* and accesses to the thread's stack are not logged.
Hook(f, a, b, n) ==
  LET c == [f |-> f, a |-> a, b |-> b, n |-> n]
  IN  /\ place = "idle"
      /\ Legal(mem, c)
      /\ call' = c
      /\ ranges' = IF logLibc \/ f = "memset"
                   THEN {r \in Logged(mem, c) : r.obj \in Heap} ELSE {}
      /\ hookMem' = mem
      /\ place' = "call"
      /\ UNCHANGED <<mem, logLibc, touched, stale>>

\* The function itself.  Any bytes may be written.
Libc ==
  LET bytes == {x \in Bytes(Contract(mem, call)) : x[3] < Size}
  IN  /\ place = "call"
      /\ touched' = bytes
      /\ stale' = (mem # hookMem)
      /\ \E v \in {0, 1} :
           mem' = [o \in Objects |-> [i \in Offsets |->
                     IF <<"ST", o, i>> \in bytes THEN v ELSE mem[o][i]]]
      /\ place' = "after"
      /\ UNCHANGED <<call, logLibc, ranges, hookMem>>

\* The hooks after the calls are empty.
Return ==
  /\ place = "after"
  /\ place' = "idle" /\ call' = NoCall /\ ranges' = {} /\ touched' = {} /\ hookMem' = NoCall
  /\ stale' = FALSE
  /\ UNCHANGED <<mem, logLibc>>

StoreByte(o, i, v) ==
  /\ place \in (IF o \in Heap THEN {"idle", "call"} ELSE {"idle"})
  /\ mem[o][i] # v
  /\ mem' = [mem EXCEPT ![o][i] = v]
  /\ UNCHANGED <<place, call, logLibc, ranges, touched, hookMem, stale>>

LibcInit ==
  /\ mem = [o \in Objects |-> [i \in Offsets |-> 0]]
  /\ place = "idle" /\ call = NoCall /\ ranges = {} /\ touched = {} /\ hookMem = NoCall
  /\ stale = FALSE
  /\ logLibc \in BOOLEAN

LibcNext ==
  \/ \E f \in Functions, a, b \in Objects, n \in 0..Size : Hook(f, a, b, n)
  \/ Libc \/ Return
  \/ \E o \in Objects, i \in Offsets, v \in {0, 1} : StoreByte(o, i, v)

LibcSpec == LibcInit /\ [][LibcNext]_libcVars

---------------------------------------------------------------------------
(* Properties.                                                             *)

Missed == {x \in touched : x[2] \in Heap} \ Bytes(ranges)

\* What the log misses of a call that was to be logged.  Without a store of
\* another thread in between, each byte is the terminator that ends an
\* argument, or the one that is written behind the result.
MissedAreTerminators ==
  place = "after" /\ logLibc /\ call.f \notin Silent =>
    \A x \in Missed :
      \/ stale
      \/ x[1] = "LD" /\ hookMem[x[2]][x[3]] = 0
      \/ x[1] = "ST" /\ ~\E y \in touched : y[1] = "ST" /\ y[3] > x[3]

\* A write the log tells of and the call did not make, which looks like a
\* race to the detector, comes from a bound of strncpy or strncat, or from a
\* string that was changed in between.
FalseWritesAreBounds ==
  place = "after" =>
    \A x \in Bytes(ranges) : x[1] = "ST" /\ x \notin touched =>
      stale \/ call.f \in {"strncpy", "strncat"}

\* The hook reads no byte that the call has no right to read, but for
\* strncmp and strncpy, whose arguments need not end with a terminator.
HookReadsArguments ==
  place = "call" /\ (\E o \in Measured(call) : StrLen(hookMem, o) = Size) =>
    call.f \in {"strncmp", "strncpy"}

============================================================================
