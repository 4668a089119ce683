\* As MCPipe.cfg, with one byte value: which bytes are inside is the matter
\* of IsChannel, not of who waits.
SPECIFICATION Spec
CONSTANTS
  Readers = {r1, r2}
  Writers = {w1}
  Byte = {0}
  PIPESIZE = 2
  UINT = 4
  MAXN = 2
  Killable = {r1, w1}
  None = None
PROPERTY
  ReadReturns
CHECK_DEADLOCK FALSE
