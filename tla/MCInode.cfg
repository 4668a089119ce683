SPECIFICATION Spec
CONSTANTS
  Procs = {p1, p2}
  Inodes = {1, 2}
  Files = {1, 2, 3}
  IpOf <- MCIpOf
  Blocks = {1, 2, 3, 4, 5, 6}
  Used = {2}
  BPB = 1
  BSIZE = 2
  NDIRECT = 2
  NINDIRECT = 2
  MAXOPBLOCKS = 10
  Sizes <- MCSizes
  UINT = 16
  MaxCalls = 3
  Nil = Nil
SYMMETRY ProcSymmetry
INVARIANTS ContentsKept BitmapExact WriteFitsTransaction
