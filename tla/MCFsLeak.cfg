SPECIFICATION Spec
CONSTANTS
  Procs = {p1, p2}
  Inums = {1, 2, 3, 4}
  Names = {"a", "b"}
  NINODE = 3
  NFILE = 2
  NOFILE = 2
  Calls <- MCCalls
  MaxCalls = 2
  Starts <- MCStarts
  Nil = Nil
INVARIANT UnlinkedFreed
