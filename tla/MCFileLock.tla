----------------------------- MODULE MCFileLock -----------------------------
(* Small instances of FileLock for TLC: three callers over two descriptions, *)
(* so that a third call can run between a wake-up and the woken caller.      *)
EXTENDS FileLock, TLC

CONSTANTS c1, c2, c3, d1, d2, d3, o1, o2, o3

\* The model never tells callers, descriptions or objects apart.
Symm == Permutations(Callers) \cup Permutations(Descs) \cup Permutations(Objects)
=============================================================================
