SPECIFICATION Spec
CONSTANTS
  Procs = {1, 2}
  Pages <- MCPages
  FAN = 3
  PGSIZE = 2
  UINT = 64
  Programs <- MCPrograms
  Sbrks <- MCSbrks
  MAXARG = 3
  Argvs <- MCArgvs
  MaxOps = 4
INVARIANTS PagesPartitioned ImageKept
