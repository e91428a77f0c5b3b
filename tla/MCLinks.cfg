SPECIFICATION Spec
CONSTANTS
  Procs = {p1, p2, p3}
  Names = {a, b}
  Inums = {2, 3}
  NINODE = 2
SYMMETRY Symmetry
INVARIANTS
  TypeOK
  RefExact
  OneEntry
  CopyFresh
  LinkCount
  NoPanic
  SomeoneMoves
PROPERTY
  FreedAlone
