SPECIFICATION FairSpec
CONSTANTS
  Procs = {p1, p2}
  Blocks = {b1, b2, b3}
  Vals = {v1, v2}
  Absent = Absent
  MAXOPBLOCKS = 2
  LOGSIZE = 4
  NLOG = 4
  MaxWrites = 2
INVARIANTS
  TypeOK
  IInv
  PinnedUntilInstalled
  QuietMeansDurable
  Exclusion
  SleeperHasWaker
  PanicMeansSpent
PROPERTY
  AtomicTransactions
  SleeperWakes
  CommitEnds
  RecoveryEnds
