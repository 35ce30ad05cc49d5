---------------------------- MODULE MCChunkList ----------------------------
(***************************************************************************)
(* ChunkList with a pool of Count buffers and two distinguishable chunks.  *)
(***************************************************************************)
EXTENDS ChunkList, TLC

ChunkSymmetry == Permutations(Chunks)
=============================================================================
