------------------------------- MODULE Channel -------------------------------
(***************************************************************************)
(* What a pipe promises to its users (kernel/pipe.c): bytes come out in    *)
(* the order they went in, never more than PIPESIZE wait inside, nothing   *)
(* goes in once the read end is closed.                                    *)
(***************************************************************************)
EXTENDS Naturals, Sequences

CONSTANTS Byte, PIPESIZE

VARIABLES queue, readable, writable

chVars == <<queue, readable, writable>>

ChInit == queue = <<>> /\ readable = TRUE /\ writable = TRUE

Put(b) ==
  /\ readable /\ writable /\ Len(queue) < PIPESIZE
  /\ queue' = Append(queue, b)
  /\ UNCHANGED <<readable, writable>>

Get ==
  /\ readable /\ queue # <<>>
  /\ queue' = Tail(queue)
  /\ UNCHANGED <<readable, writable>>

CloseRead  == readable /\ readable' = FALSE /\ UNCHANGED <<queue, writable>>
CloseWrite == writable /\ writable' = FALSE /\ UNCHANGED <<queue, readable>>

ChNext == (\E b \in Byte : Put(b)) \/ Get \/ CloseRead \/ CloseWrite

ChSpec == ChInit /\ [][ChNext]_chVars

=============================================================================
