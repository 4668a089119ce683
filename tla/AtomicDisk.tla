----------------------------- MODULE AtomicDisk -----------------------------
(***************************************************************************)
(* What kernel/log.c promises to the file system: the writes of the        *)
(* operations between begin_op() and end_op() reach the disk in groups,    *)
(* all of a group or nothing of it, and a group is only written when none  *)
(* of its operations is still running.  A crash loses at most the group    *)
(* that was being collected.                                               *)
(***************************************************************************)

CONSTANTS Op,      \* the processes that call file system operations
          Block,   \* home locations on the disk
          Data     \* contents of a block

VARIABLES cur,     \* what the running system reads
          stable,  \* what a crash leaves
          active   \* the operations between begin_op() and end_op()

adVars == <<cur, stable, active>>

ADInit ==
  /\ stable \in [Block -> Data]
  /\ cur = stable
  /\ active = {}

\* The first operation of a group starts from a disk that is up to date.
Begin(o) ==
  /\ o \notin active
  /\ active = {} => stable = cur
  /\ active' = active \cup {o}
  /\ UNCHANGED <<cur, stable>>

Write(o, b, d) ==
  /\ o \in active
  /\ cur' = [cur EXCEPT ![b] = d]
  /\ UNCHANGED <<stable, active>>

End(o) ==
  /\ o \in active
  /\ active' = active \ {o}
  /\ UNCHANGED <<cur, stable>>

Commit ==
  /\ active = {}
  /\ stable' = cur
  /\ UNCHANGED <<cur, active>>

Crash ==
  /\ cur' = stable
  /\ active' = {}
  /\ UNCHANGED stable

ADNext ==
  \/ \E o \in Op : Begin(o) \/ End(o) \/ \E b \in Block, d \in Data : Write(o, b, d)
  \/ Commit
  \/ Crash

ADSpec == ADInit /\ [][ADNext]_adVars

=============================================================================
