------------------------- MODULE MCServerPipeline -------------------------
EXTENDS ServerPipeline

\* Back by two chunks, forward by more than the cache.
Steps == {-4, 9}
=============================================================================
