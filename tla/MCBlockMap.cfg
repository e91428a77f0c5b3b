SPECIFICATION ShallowSpec
CONSTANTS
  Files = {1, 2}
  NDIRECT = 1
  BSIZE = 2
  NBLOCKS = 27
  Crowd = 6
  MaxBlocks <- MCMaxBlocks
  MaxWrite = 2
VIEW View
INVARIANTS
  TypeOK
  ReadBack
  NoSharing
  BitmapExact
