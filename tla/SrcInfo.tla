------------------------------ MODULE SrcInfo ------------------------------
(***************************************************************************)
(* The instrumenting compiler and the database of source lines: what the   *)
(* LLVM pass (Instrument.cpp and the files beside it) does to a module, the *)
(* ids it packs, the rows it leaves in the database (SrcInfoDB.cpp), and   *)
(* what the scripts read there for an id of a trace (SrcInfo.py).          *)
(*                                                                         *)
(* The compilers of a parallel build are processes that share one sqlite   *)
(* file.  A statement that meets a lock fails at once, for no busy timeout *)
(* is set, and DB::exec then exits; the locks of its transaction last until *)
(* the process is gone.  Sources are edited between builds.                *)
(***************************************************************************)
EXTENDS Naturals, Sequences, FiniteSets, SequencesExt

CONSTANTS
  Files,      \* the source files, each compiled by one process at a time
  Name,       \* the name the compiler is given for each
  Code,       \* for each version of a file the kinds of its instructions
  ModLimit,   \* 2^20: module ids are asserted to be below
  Span,       \* 2^44: the instruction ids of one module
  None

VARIABLES
  pc,        \* where each compiler is
  version,   \* the text of each source
  source,    \* the text its compiler has read
  modId,     \* ModId_
  next,      \* the instruction that is to be collected
  schema,    \* the number of tables that its connection knows of
  tables,    \* the tables that are there: modules, functions, instructions
  modules,   \* table modules: the names in the order of their rowids
  rows,      \* table instructions
  tx,        \* the rows each transaction has written
  shared,    \* the compilers that hold SHARED: they have read in their transaction
  reserved,  \* the one that holds RESERVED: it has written in it
  exclusive, \* the one that holds PENDING or EXCLUSIVE: it writes the file, or tried to
  object     \* the object each file was last compiled to

tableVars == <<tables, modules, rows>>
lockVars == <<shared, reserved, exclusive>>
dbVars == <<tableVars, tx, lockVars>>
fileVars == <<version, source, modId, next>>
vars == <<pc, fileVars, schema, dbVars, object>>

---------------------------------------------------------------------------
(* What the pass does to one instruction.  A call is named after what it   *)
(* calls: a function, one through a pointer, a wrapped pthread or libc     *)
(* function, fork, an intrinsic for memory or another, a pthread function  *)
(* that needs no wrapper, or one that nobody thought of.                   *)

Calls == {"function", "pointer", "pthread", "libc", "fork", "llvm.mem", "llvm.dbg",
          "attr", "unknown"}
Kinds == {"load", "store", "other"} \union Calls

ASSUME SrcInfoAssumption ==
  /\ DOMAIN Name = Files /\ DOMAIN Code = Files
  /\ \A f \in Files : Code[f] \in Seq(Seq(Kinds)) \ {<<>>}
  /\ ModLimit \in Nat \ {0} /\ Span \in Nat \ {0} /\ None \notin Nat

Op(kind) == CASE kind = "load" -> "r" [] kind = "store" -> "w" [] kind \in Calls -> "c"
Collected(kind) == kind \in {"load", "store"} \union Calls

\* replaceCallWithWrapper: the wrapper gets the id of the call before its arguments.
Wrapper(kind) == IF kind \in {"pthread", "libc"} THEN {"wrapper"} ELSE {}

\* instrLoad, instrStore, instrCall and specialFunction.
HooksOf(kind) ==
  Wrapper(kind) \union
  CASE kind = "load" -> {"_before_load", "_after_load"}
    [] kind = "store" -> {"_before_store", "_after_store"}
    [] kind = "fork" -> {"_after_fork"}
    [] kind \in {"function", "libc", "llvm.mem", "attr"} -> {"_before_func_call", "_after_func_call"}
    [] OTHER -> {}

\* computeUniqueId: ModId << 44 | Id.  An instruction id may have a bit more
\* than there are below the module id.
UniqueId(m, i) == (IF i < Span \/ m % 2 = 1 THEN m ELSE m + 1) * Span + (i % Span)
ComputeId(m, i) == IF m < ModLimit /\ i < 2 * Span THEN UniqueId(m, i) ELSE None

Text(f) == Code[f][source[f]]

\* findModuleId: the rowid, or the id that is none.
ModuleId(name) ==
  IF \E r \in DOMAIN modules : modules[r] = name
  THEN CHOOSE r \in DOMAIN modules : modules[r] = name
  ELSE None

---------------------------------------------------------------------------
(* The locks of sqlite, and the end of a compiler that does not get one.   *)

CanRead(f) == f \in shared \/ exclusive = None
CanReserve(f) == CanRead(f) /\ reserved \in {f, None}
CanWrite(f) == CanReserve(f) /\ shared = {f}

Idle == {"idle", "done", "failed", "aborted"}
Running == {f \in Files : pc[f] \notin Idle}

Go(f, to) == pc' = [pc EXCEPT ![f] = to]

\* The rows of a transaction that does not end are seen by nobody.
Stop(f, how) ==
  /\ Go(f, how)
  /\ tx' = [tx EXCEPT ![f] = <<>>]
  /\ UNCHANGED <<fileVars, schema, tableVars, shared, reserved, object>>

\* DO_CORRUPT: exit is called with the locks of the transaction held.  Who was
\* refused EXCLUSIVE has PENDING, and lets no reader in.
Fail(f) == Stop(f, "failing") /\ UNCHANGED exclusive
FailToWrite(f) == Stop(f, "failing") /\ exclusive' = f

Release(f) ==
  /\ tx' = [tx EXCEPT ![f] = <<>>]
  /\ shared' = shared \ {f}
  /\ reserved' = IF reserved = f THEN None ELSE reserved
  /\ exclusive' = IF exclusive = f THEN None ELSE exclusive

\* The process is gone.  (The locks of a statement outside a transaction are
\* given back by sqlite, somewhere between the two steps.)
Exit(f) ==
  /\ pc[f] \in {"failing", "aborting"}
  /\ Go(f, IF pc[f] = "failing" THEN "failed" ELSE "aborted")
  /\ Release(f)
  /\ UNCHANGED <<fileVars, schema, tableVars, object>>

---------------------------------------------------------------------------
(* Statements outside a transaction: each takes SHARED, those that write    *)
(* take RESERVED and EXCLUSIVE after it, and each gives back what it took.  *)

Reading == {"open", "load", "again", "reload", "reopen"}
Writing == {"create", "insert"}

TakeShared(f) ==
  /\ pc[f] \in Reading \union Writing /\ f \notin shared
  /\ IF ~CanRead(f) THEN Fail(f)
     ELSE /\ shared' = shared \union {f}
          /\ UNCHANGED <<pc, fileVars, schema, tableVars, tx, reserved, exclusive, object>>

TakeReserved(f) ==
  /\ pc[f] \in Writing /\ f \in shared /\ reserved # f
  /\ IF ~CanReserve(f) THEN Fail(f)
     ELSE /\ reserved' = f
          /\ UNCHANGED <<pc, fileVars, schema, tableVars, tx, shared, exclusive, object>>

\* make compiles what was edited or has failed.
Start(f) ==
  /\ pc[f] \in {"idle", "failed"}
  /\ Go(f, "open")
  /\ source' = [source EXCEPT ![f] = version[f]]
  /\ next' = [next EXCEPT ![f] = 1]
  /\ modId' = [modId EXCEPT ![f] = None]
  /\ schema' = [schema EXCEPT ![f] = 0]
  /\ UNCHANGED <<version, dbVars, object>>

\* The database is opened: the pragmas, which are not counted, and the tables
\* if they are not there.
Tables == 3

Open(f, from, to) ==
  /\ pc[f] = from /\ f \in shared
  /\ \E then \in {from, IF tables = Tables THEN to ELSE "create"} : Go(f, then)
  /\ schema' = [schema EXCEPT ![f] = tables]
  /\ Release(f)
  /\ UNCHANGED <<fileVars, tableVars, object>>

\* CREATE TABLE IF NOT EXISTS.  sqlite prepares the statement again when another
\* compiler has created a table since.
CreateTable(f) ==
  /\ pc[f] = "create" /\ reserved = f
  /\ \/ /\ schema[f] # tables
        /\ Go(f, "open")
        /\ Release(f)
        /\ UNCHANGED <<fileVars, schema, tableVars, object>>
     \/ schema[f] = tables /\ ~CanWrite(f) /\ FailToWrite(f)
     \/ /\ schema[f] = tables /\ CanWrite(f)
        /\ tables' = tables + 1
        /\ exclusive' = f
        /\ Go(f, "created")
        /\ UNCHANGED <<fileVars, schema, modules, rows, tx, shared, reserved, object>>

\* loadModuleId: is the module there?  insertModule asks once more.
FindModule(f, from, missing) ==
  /\ pc[f] = from /\ f \in shared
  /\ modId' = [modId EXCEPT ![f] = ModuleId(Name[f])]
  /\ Go(f, IF modId'[f] = None THEN missing ELSE "reopen")
  /\ Release(f)
  /\ UNCHANGED <<version, source, next, schema, tableVars, object>>

\* INSERT INTO modules: another compiler may have been faster.
InsertModule(f) ==
  /\ pc[f] = "insert" /\ reserved = f
  /\ \/ ModuleId(Name[f]) # None /\ Fail(f)
     \/ ModuleId(Name[f]) = None /\ ~CanWrite(f) /\ FailToWrite(f)
     \/ /\ ModuleId(Name[f]) = None /\ CanWrite(f)
        /\ modules' = Append(modules, Name[f])
        /\ exclusive' = f
        /\ Go(f, "inserted")
        /\ UNCHANGED <<fileVars, schema, tables, rows, tx, shared, reserved, object>>

\* The file is written.
Written(f) ==
  /\ pc[f] \in {"created", "inserted"}
  /\ Go(f, IF pc[f] = "created" THEN "open" ELSE "reload")
  /\ Release(f)
  /\ UNCHANGED <<fileVars, schema, tableVars, object>>

---------------------------------------------------------------------------
(* collectSrcInfo: one transaction.                                        *)

Line(f, i) == [file |-> f, version |-> source[f], inst |-> i]

\* The rows of T, and those of R that have none in it.
Over(T, R) == [id \in DOMAIN T \union DOMAIN R |-> IF id \in DOMAIN T THEN T[id] ELSE R[id]]
WithRow(T, id, row) == Over([x \in {id} |-> row], T)

Table(f) == Over(tx[f], rows)

\* An instruction without a row of its own only counts.  (Instruction ids
\* begin at 0.)
Skip(f) ==
  /\ pc[f] = "collect" /\ next[f] <= Len(Text(f)) /\ ~Collected(Text(f)[next[f]])
  /\ next' = [next EXCEPT ![f] = @ + 1]
  /\ UNCHANGED <<pc, version, source, modId, schema, dbVars, object>>

\* instructionExists: the first one takes SHARED.
Exists(f) ==
  /\ pc[f] = "collect" /\ next[f] <= Len(Text(f)) /\ Collected(Text(f)[next[f]])
  /\ IF ComputeId(modId[f], next[f] - 1) = None
     THEN Stop(f, "aborting") /\ UNCHANGED exclusive
     ELSE IF ~CanRead(f) THEN Fail(f)
     ELSE /\ shared' = shared \union {f}
          /\ Go(f, "row")
          /\ UNCHANGED <<fileVars, schema, tableVars, tx, reserved, exclusive, object>>

NextId(f) == ComputeId(modId[f], next[f] - 1)
FreshRow(f) == [line |-> Line(f, next[f]), op |-> Op(Text(f)[next[f]])]

\* A statement of the transaction that writes: the first one takes RESERVED.
WriteRow(f, T, R) ==
  /\ pc[f] = "row"
  /\ IF ~CanReserve(f) THEN Fail(f)
     ELSE /\ reserved' = f
          /\ tx' = [tx EXCEPT ![f] = T] /\ rows' = R
          /\ next' = [next EXCEPT ![f] = @ + 1]
          /\ Go(f, "collect")
          /\ UNCHANGED <<version, source, modId, schema, tables, modules, shared, exclusive, object>>

\* insertInstruction: a row that is there gets the new line and keeps its op.
InsertedRow(f) ==
  [line |-> Line(f, next[f]),
   op |-> IF NextId(f) \in DOMAIN Table(f) THEN Table(f)[NextId(f)].op ELSE Op(Text(f)[next[f]])]

\* Mutant: a row that is there is left as it is.
InsertRow_NoUpdate(f) ==
  WriteRow(f, IF NextId(f) \in DOMAIN Table(f) THEN tx[f] ELSE WithRow(tx[f], NextId(f), FreshRow(f)),
           rows)

\* Mutant: the operation is not told apart.
InsertRow_AllReads(f) ==
  WriteRow(f, WithRow(tx[f], NextId(f), [FreshRow(f) EXCEPT !.op = "r"]), rows)

\* Mutant: each row is written to the file at once, without BEGIN TRANSACTION.
InsertRow_NoTransaction(f) == WriteRow(f, tx[f], WithRow(rows, NextId(f), InsertedRow(f)))

InsertRow(f) == WriteRow(f, WithRow(tx[f], NextId(f), InsertedRow(f)), rows)

\* END TRANSACTION: the file is written when nobody else reads.
Commit(f) ==
  /\ pc[f] = "collect" /\ next[f] > Len(Text(f))
  /\ IF reserved = f /\ ~CanWrite(f) THEN FailToWrite(f)
     ELSE /\ exclusive' = IF reserved = f THEN f ELSE exclusive
          /\ rows' = Table(f)
          /\ Go(f, "committed")
          /\ UNCHANGED <<fileVars, schema, tables, modules, tx, shared, reserved, object>>

Committed(f) ==
  /\ pc[f] = "committed"
  /\ Release(f)
  /\ Go(f, "instrument")
  /\ UNCHANGED <<fileVars, schema, tableVars, object>>

\* instrumentIR and replaceFunctionCall; a pthread function that nobody
\* thought of ends the compilation.
Instrument(f) ==
  /\ pc[f] = "instrument"
  /\ LET hooks == {<<h, ComputeId(modId[f], i - 1), i>> :
                     i \in DOMAIN Text(f), h \in UNION {HooksOf(k) : k \in Kinds}}
     IN  IF \E i \in DOMAIN Text(f) : Text(f)[i] = "unknown"
         THEN Go(f, "aborted") /\ UNCHANGED object
         ELSE /\ object' = [object EXCEPT ![f] =
                   [version |-> source[f],
                    hooks |-> {x \in hooks : x[1] \in HooksOf(Text(f)[x[3]])}]]
              /\ Go(f, "done")
  /\ UNCHANGED <<fileVars, schema, dbVars>>

\* The source is edited while nothing is compiled.
Edit(f) ==
  /\ Running = {} /\ pc[f] \in {"done", "aborted"}
  /\ version[f] < Len(Code[f])
  /\ version' = [version EXCEPT ![f] = @ + 1]
  /\ Go(f, "idle")
  /\ UNCHANGED <<source, modId, next, schema, dbVars, object>>

Built == \A f \in Files : pc[f] \in {"done", "aborted"}
Terminating == Built /\ (\A f \in Files : version[f] = Len(Code[f])) /\ UNCHANGED vars

Init ==
  /\ pc = [f \in Files |-> "idle"]
  /\ version = [f \in Files |-> 1] /\ source = [f \in Files |-> 1]
  /\ modId = [f \in Files |-> None] /\ next = [f \in Files |-> 1]
  /\ schema = [f \in Files |-> 0]
  /\ tables = 0 /\ modules = <<>> /\ rows = <<>> /\ tx = [f \in Files |-> <<>>]
  /\ shared = {} /\ reserved = None /\ exclusive = None
  /\ object = [f \in Files |-> None]

Compile(f) ==
  \/ Start(f) \/ TakeShared(f) \/ TakeReserved(f) \/ Exit(f)
  \/ Open(f, "open", "load") \/ Open(f, "reopen", "collect")
  \/ FindModule(f, "load", "again") \/ FindModule(f, "again", "insert")
  \/ FindModule(f, "reload", "aborted")
  \/ CreateTable(f) \/ InsertModule(f) \/ Written(f)
  \/ Skip(f) \/ Exists(f) \/ InsertRow(f) \/ Commit(f) \/ Committed(f)
  \/ Instrument(f) \/ Edit(f)

Next == (\E f \in Files : Compile(f)) \/ Terminating

Spec == Init /\ [][Next]_vars

---------------------------------------------------------------------------
(* Properties.                                                             *)

\* No text has more instructions than there are ids below a module id.
ShortTexts == \A f \in Files : \A v \in DOMAIN Code[f] : Len(Code[f][v]) <= Span

Alone(f) == \A g \in Files \ {f} : Name[g] # Name[f]
UpToDate(f) == object[f] # None /\ object[f].version = version[f]

\* Every id that an object passes to the runtime has its row, with the line the
\* instruction has in the source it was compiled from, however the builds ran
\* into each other and were repeated; unless two files have one name.
HooksHaveLines ==
  \A f \in Files : Alone(f) /\ UpToDate(f) /\ pc[f] = "done" =>
    \A h \in object[f].hooks :
      /\ h[2] \in DOMAIN rows
      /\ rows[h[2]].line = [file |-> f, version |-> version[f], inst |-> h[3]]

\* The operation that is shown with it is that of the instruction, or of one
\* that an earlier text of the same file had in its place.
OpsAreOfOneText ==
  \A f \in Files : Alone(f) /\ UpToDate(f) /\ pc[f] = "done" =>
    \A h \in object[f].hooks :
      LET kinds == {Code[f][v][h[3]] : v \in {w \in 1..version[f] : h[3] <= Len(Code[f][w])}}
      IN  rows[h[2]].op \in {Op(k) : k \in {l \in kinds : Collected(l)}}

\* The table has the rows of one whole text of a file, or none: a compiler that a
\* lock or an assertion ends half-way leaves what was there before, whoever else
\* fails with it and however long it holds its locks.
RowsAreOfOneText ==
  \A f \in Files : Alone(f) =>
    \/ \A id \in DOMAIN rows : rows[id].line.file # f
    \/ \E v \in 1..version[f] : \A i \in DOMAIN Code[f][v] : Collected(Code[f][v][i]) =>
         LET id == UniqueId(ModuleId(Name[f]), i - 1)
         IN  id \in DOMAIN rows /\ rows[id].line = [file |-> f, version |-> v, inst |-> i]

============================================================================
