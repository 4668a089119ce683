SPECIFICATION Spec
CONSTANTS
  Procs = {p1, p2}
  NBUF = 2
  Blocks = {1, 2, 3}
  Values = {v1, v2}
  NUMS = {4, 6}
  WRAPS = 1
  MaxPins = 1
  LogBlocks = {3}
  Stored <- MCStored
  Nil = Nil
SYMMETRY ProcSymmetry
INVARIANTS OneBufferPerBlock Coherent PanicMeansExhausted SleeperNotForgotten
