\* Three buffers: the list fills, evicts and empties, and frees buffers in an
\* order other than the one they were allocated in.
CONSTANTS
  Chunks = {a, b}
  NoChunk = NoChunk
  Count = 3
SPECIFICATION ListSpec
INVARIANT ListTypeOK
INVARIANT BuffersPartition
PROPERTY ImplementsBoundedFifo
