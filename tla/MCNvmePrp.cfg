SPECIFICATION Spec
CONSTANTS
  Mps = 6
  EntrySize = 2
  Lens <- SomeLens
  Offs <- AllOffs
  ListOffs <- EntryOffs
INVARIANTS ChunksTile ListsInBounds ReturnsAfterData
PROPERTIES Returns
\* one transfer, then nothing more to do
CHECK_DEADLOCK FALSE
