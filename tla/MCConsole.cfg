SPECIFICATION Spec
CONSTANTS
  Procs = {p1, p2}
  Keys = {"x", "nl", "^D", "^U", "^H"}
  INPUT_BUF_SIZE = 2
  UART_TX_BUF_SIZE = 2
  UINT = 4
  UINT64 = 4
  Starts = {3}
  MaxTyped = 3
  MaxCalls = 2
  Reads = {1, 3}
  Writes = {2}
  RXMax = 1
  Nil = Nil
INVARIANTS InputExact SleepersWait OutputInOrder OutputNotStalled
SYMMETRY Same
