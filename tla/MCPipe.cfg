\* The counters wrap around twice over the ring; the writer and one of two
\* readers can be killed.  A process that closes its descriptor may stop.
SPECIFICATION Spec
CONSTANTS
  Readers = {r1, r2}
  Writers = {w1}
  Byte = {0, 1}
  PIPESIZE = 2
  UINT = 4
  MAXN = 2
  Killable = {r1, w1}
  None = None
INVARIANTS
  FreedOnce
  NobodyStranded
PROPERTY
  IsChannel
CHECK_DEADLOCK FALSE
