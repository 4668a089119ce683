----------------------------- MODULE MCConsole -----------------------------
(* The console for TLC: two processes, which are interchangeable.           *)
EXTENDS Console, TLC
Same == Permutations(Procs)
=============================================================================
