---------------------------- MODULE MCRingQueue ----------------------------
(***************************************************************************)
(* RingQueue with three map_index values (0 is refused by read), two       *)
(* distinguishable chunks and a ring of Count slots set in the .cfg.       *)
(***************************************************************************)
EXTENDS RingQueue, TLC

MCVisitors == {0, 1, 2}

ChunkSymmetry == Permutations(Chunks)
=============================================================================
