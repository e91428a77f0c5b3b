SPECIFICATION FSpec
CONSTANTS
  Procs = {p1, p2}
  Blocks = {1, 2, 3, 4, 5}
  Vals = {"zero", "data"}
  Absent = Absent
  MAXOPBLOCKS = 5
  LOGSIZE = 10
  NLOG = 10
  MaxWrites = 5
  BMAP = 3
  IBMAP = 2
  DataBlocks = {4, 5}
  Inums = {1}
  Width = 4
  OpsPerTxn = 1
  MaxCrashes = 1
VIEW View
SYMMETRY Symmetry
INVARIANTS
  FTypeOK
  GrantedOnce
  CountersCommitted
