------------------------------- MODULE MCCfs -------------------------------
(* Instances of Cfs for TLC. *)
EXTENDS Cfs

=============================================================================
