SPECIFICATION Spec
CONSTANTS
  Names = {"a", "b"}
  Inums = {2}
  LEAF = 2
  HashMin = 1
  HashMax = 3
  Hash <- MCHash
  Long = {"a"}
  OvfFrom = 6
  OvfTo = 10
INVARIANT
  LinkedIsFound
