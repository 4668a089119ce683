\* Two operations at a time, each of up to two blocks; the sizes of mkfs.
SPECIFICATION LiveSpec
CONSTANTS
  Op = {o1, o2}
  Block = {b1, b2}
  Data = {d1, d2}
  Torn = Torn
  Absent = Absent
  OPBLOCKS = 2
  MAXOPBLOCKS = 3
  LOGSIZE = 6
  SIZE = 6
INVARIANTS
  TypeOK
  EndedIsDurable
  SleeperHasWaker
PROPERTIES
  CrashAtomic
  SleeperWoken
