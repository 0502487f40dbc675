SPECIFICATION RoundTripSpec
CONSTANTS
  MaxDepth = 2
  Value <- Serialized
  Piece <- Anything
  MaxWrites = 3
CHECK_DEADLOCK FALSE
INVARIANTS ChunkingIsInvisible ParsesWhatSerializeWrites NestingIsBounded ValuesArrive
