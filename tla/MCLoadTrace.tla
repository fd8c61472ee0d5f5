---------------------------- MODULE MCLoadTrace ----------------------------
(* The loader and the detector on all short trace files.                   *)
EXTENDS LoadTrace, TLC

MCSymmetry == Permutations(Threads \ {Main})
============================================================================
