------------------------------- MODULE MCProc -------------------------------
(* Model-checking instance of Proc.                                        *)
EXTENDS ProcInv, TLC

CPUSymmetry == Permutations(CPU)
=============================================================================
