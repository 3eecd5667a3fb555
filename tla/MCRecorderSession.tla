--------------------------- MODULE MCRecorderSession ---------------------------
(* Small instances of RecorderSession for TLC.                             *)
EXTENDS RecorderSession, TLC

\* Rooms, goroutines and calls are interchangeable, sessions are too.
Symmetry == Permutations(Rooms) \cup Permutations(Infos)
              \cup Permutations(Callers) \cup Permutations(Workers)
================================================================================
