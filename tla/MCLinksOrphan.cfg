SPECIFICATION Spec
CONSTANTS
  Procs = {p1, p2}
  Names = {a, b}
  Inums = {2, 3}
  NINODE = 2
SYMMETRY Symmetry
INVARIANT
  NoOrphans
