SPECIFICATION Spec
CONSTANTS
  NPROC = 3
  CPU = {c0}
  Hart0 = c0
  Priorities = {0, 3}
  EXEMPT = 2
INVARIANTS
  SomeoneEligible
PROPERTY
  AllRunOnceQuiet
