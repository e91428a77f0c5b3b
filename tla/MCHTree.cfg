SPECIFICATION Spec
CONSTANTS
  Names = {"a", "b", "c", "d", "e"}
  Inums = {2}
  LEAF = 2
  HashMin = 1
  HashMax = 3
  Hash <- MCHash
  Long = {}
  OvfFrom = 6
  OvfTo = 10
INVARIANTS
  TypeOK
  OneSlot
  DotsKept
PROPERTY
  IsDirectory
