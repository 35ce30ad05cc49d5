\* Two readers and one writer on a ring of four slots: each slot is reused
\* many times, so every index wraps while the other reader is anywhere.
CONSTANTS
  Visitors <- MCVisitors
  Chunks = {a, b}
  NoChunk = NoChunk
  Count = 4
SPECIFICATION Spec
INVARIANT TypeOK
PROPERTY ImplementsFanOut
