----------------------------- MODULE MCConvertQueue -----------------------------
(* Small instances of ConvertQueue for TLC.                                *)
EXTENDS ConvertQueue, TLC

\* Recordings and requests are interchangeable.
Symmetry == Permutations(Paths) \cup Permutations(Requests)
================================================================================
