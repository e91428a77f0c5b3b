SPECIFICATION DSpec
CONSTANTS
  Procs = {p1, p2}
  Blocks = {1, 2, 3, 4, 5, 6, 7, 8}
  Vals = {v1}
  Absent = Absent
  MAXOPBLOCKS = 3
  LOGSIZE = 6
  NLOG = 6
  MaxWrites = 8
  NDIRECT = 2
  MaxBlock = 4
  FirstBlocks = 1
PROPERTY
  SleepsUntilCommit
CHECK_DEADLOCK FALSE
