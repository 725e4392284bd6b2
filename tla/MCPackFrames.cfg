SPECIFICATION FairSpec
CONSTANTS
  ChunkSize = 3
  Packs <- MixedPacks
  ReadSizes = {1, 2, 4}
  MaxPacks = 2
INVARIANTS IInv EndTrue
PROPERTY ReaderEnds
