----------------------------- MODULE MCSrcInfo -----------------------------
(* A parallel build of three files, of which two have one name.            *)
EXTENDS SrcInfo

CONSTANTS a, b, c, m1, m2

Names == (a :> m1) @@ (b :> m2) @@ (c :> m1)
Texts ==
  (a :> << <<"libc", "other", "load">>, <<"fork">> >>)
    @@ (b :> << <<"store", "pthread">>, <<"load">>, <<"llvm.dbg", "unknown">> >>)
    @@ (c :> << <<"pointer">>, <<"function">> >>)

============================================================================
