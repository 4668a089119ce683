------------------------------ MODULE MCInode ------------------------------
(* Two files for TLC, one of them open twice.                               *)
EXTENDS Inode, TLC
MCIpOf == [f \in Files |-> IF f = 3 THEN 2 ELSE 1]
ProcSymmetry == Permutations(Procs)
MCSizes == {-1, 1, 8}
=============================================================================
