\* Three slots, reused; the program in slot 3 may fault and may kill() init.
\* Once init has panicked nobody reaps: the other CPU may be left with
\* nothing to run.
SPECIFICATION Spec
CONSTANTS
  NPROC = 3
  CPU = {c1, c2}
  NoCpu = NoCpu
  MAXPID = 3
  KillPids = {1}
  Unruly = {3}
SYMMETRY CPUSymmetry
INVARIANTS
  KernelStackExclusive
  OnlyInitPanics
  NoLostWakeup
  ParentAlive
  NoCircularWait
  Inv
PROPERTY
  ReapedByParent
CHECK_DEADLOCK FALSE
