------------------------------ MODULE MCBcache ------------------------------
(* The buffer cache on the disk driver for TLC.  Blocks are alike, so it is *)
(* enough to let the contents of two of them vary: one that the log has and *)
(* one of the log itself.                                                   *)
EXTENDS Bcache, TLC

MCStored == [k \in Blocks |-> IF k \in {1, 3} THEN Values ELSE {CHOOSE v \in Values : TRUE}]
ProcSymmetry == Permutations(Procs)
=============================================================================
