SPECIFICATION TransferSpec
CONSTANTS
  Byte = {0, 1}
  ChunkBytes = 2
  MaxResourceBytes = 3
  MaxChunk = 1
  Bogus = Bogus
  Damaged = Damaged
INVARIANTS
  CommitIsLast
  RoundTrip
  WrittenAsAnnounced
PROPERTIES
  TransferEnds
CHECK_DEADLOCK FALSE
