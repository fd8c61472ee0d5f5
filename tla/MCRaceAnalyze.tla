--------------------------- MODULE MCRaceAnalyze ---------------------------
(* The detector and its report on all short traces of a main thread and    *)
(* two others.                                                             *)
EXTENDS DetectPass, TLC

\* The two threads the program creates are interchangeable.
MCSymmetry == Permutations(Threads \ {Main})

\* One operation of each kind: the detector treats those of a kind alike.
MCSyncOps == {"LOCK", "UNLOCK", "WAIT"}
============================================================================
