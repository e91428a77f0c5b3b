SPECIFICATION Spec
CONSTANTS
  Procs = {p1, p2, p3}
  Bufs = {i1, i2}
  Blocks = {b1, b2, b3}
  NoBlock = NoBlock
  Nobody = Nobody
  Vals = {v1, v2}
SYMMETRY Symmetry
INVARIANTS
  TypeOK
  OneBuffer
  RefcntExact
  HolderSeesLatest
  LockExclusive
PROPERTY
  NotRecycledInUse
