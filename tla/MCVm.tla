-------------------------------- MODULE MCVm --------------------------------
(* Two processes for TLC, and programs, good and bad.                       *)
EXTENDS Vm

Seg(a, m, f) == [vaddr |-> a, memsz |-> m, filesz |-> f, load |-> TRUE]
MCPrograms == {<<Seg(0, 3, 1)>>,                                   \* text and bss
               <<[Seg(0, 2, 2) EXCEPT !.load = FALSE], Seg(0, 4, 3), Seg(2, 2, 2)>>, \* overlapping
               <<Seg(0, 2, 1), Seg(4, 2, 2)>>,                     \* a hole, which is filled
               <<Seg(0, 1, 2)>>, <<Seg(1, 2, 1)>>, <<Seg(0, 2, 1), Seg(62, 8, 1)>>, \* malformed
               <<Seg(0, 0, 0)>>}
MCPages == 1 .. 20
MCArgvs == {<<0>>, <<0, 1>>, <<0, NoPointer>>, <<0, 0, 0>>}          \* the last one is too long
MCSbrks == {-9, -3, -1, 1, 3}
=============================================================================
