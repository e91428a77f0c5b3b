SPECIFICATION Spec
CONSTANTS
  Files = {1}
  NDIRECT = 1
  BSIZE = 2
  NBLOCKS = 17
  Crowd = 6
  MaxBlocks <- MCMaxBlocks
  MaxWrite = 4
VIEW View
PROPERTY
  TruncKeepsNothing
