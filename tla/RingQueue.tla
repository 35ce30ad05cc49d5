----------------------------- MODULE RingQueue -----------------------------
(***************************************************************************)
(* Queue<T> of MyRoomCast/utils/inc/Queue.h: the broadcast ring between    *)
(* writeQueueThread (one writer) and the eachSendThreads (one reader per   *)
(* connected client).  One array, one write index, and one read index per  *)
(* registered visitor; every public function holds the queue's mutex from  *)
(* end to end, so each is one atomic action here.  A call that fails       *)
(* (empty, full, bad index) changes nothing but the clock: it sleeps 50 ms *)
(* and returns -1, a stuttering step.                                      *)
(***************************************************************************)
EXTENDS Integers, Sequences

CONSTANTS
  Visitors,   \* the map_index values callers pass: socket numbers
  Chunks,     \* what is queued
  NoChunk,    \* what an array slot or buffer holds before a first memcpy
  Count       \* the slots of the ring (500 in the program)

ASSUME VisitorsAssumption == Visitors \subseteq Int
ASSUME CountAssumption == Count \in Nat \ {0}

VARIABLES
  p_head,       \* the array
  write_index,  \* the slot the next write fills
  read_map,     \* std::map from a registered visitor to its read index
  chunk         \* chunk[v]: the buffer v passes to read

vars == <<p_head, write_index, read_map, chunk>>

Slots == 0 .. Count - 1

TypeOK ==
  /\ p_head \in [Slots -> Chunks \union {NoChunk}]
  /\ write_index \in Slots
  /\ DOMAIN read_map \subseteq Visitors
  /\ read_map \in [DOMAIN read_map -> Slots]
  /\ chunk \in [Visitors -> Chunks \union {NoChunk}]

Init ==
  /\ p_head = [s \in Slots |-> NoChunk]
  /\ write_index = 0
  /\ read_map = << >>
  /\ chunk = [v \in Visitors |-> NoChunk]

-----------------------------------------------------------------------------

\* Mutant of succ: the index is not wrapped.
succUnwrapped(i) == i + 1

succ(i) == (i + 1) % Count

\* A visitor the map does not know is registered at the write index, and
\* gets no data from this call.
readRegister(v) ==
  /\ v > 0
  /\ v \notin DOMAIN read_map
  /\ read_map' = [u \in DOMAIN read_map \union {v} |->
                    IF u = v THEN write_index ELSE read_map[u]]
  /\ UNCHANGED <<p_head, write_index, chunk>>

readChunk(v) ==
  /\ v > 0
  /\ v \in DOMAIN read_map
  /\ read_map[v] # write_index
  /\ chunk' = [chunk EXCEPT ![v] = p_head[read_map[v]]]
  /\ read_map' = [read_map EXCEPT ![v] = succ(@)]
  /\ UNCHANGED <<p_head, write_index>>

\* Mutant of full: the readers at slot 0 are forgotten when the next write
\* index wraps.
fullNoWrap == \E v \in DOMAIN read_map : write_index + 1 = read_map[v]

full == \E v \in DOMAIN read_map : succ(write_index) = read_map[v]

write(c) ==
  /\ ~ full
  /\ p_head' = [p_head EXCEPT ![write_index] = c]
  /\ write_index' = succ(write_index)
  /\ UNCHANGED <<read_map, chunk>>

removeVisitor(v) ==
  /\ read_map' = [u \in DOMAIN read_map \ {v} |-> read_map[u]]
  /\ UNCHANGED <<p_head, write_index, chunk>>

reInit ==
  /\ read_map' = << >>
  /\ write_index' = 0
  /\ UNCHANGED <<p_head, chunk>>

Next ==
  \/ \E v \in Visitors : readRegister(v) \/ readChunk(v) \/ removeVisitor(v)
  \/ \E c \in Chunks : write(c)
  \/ reInit

Spec == Init /\ [][Next]_vars

-----------------------------------------------------------------------------
\* The refinement mapping: what visitor v has still to read is the stretch
\* of the ring from its read index up to the write index.

Distance(i) == IF write_index >= i THEN write_index - i
                                   ELSE write_index - i + Count

At(i) == IF i < Count THEN i ELSE i - Count

Pending(v) ==
  IF v \in DOMAIN read_map
  THEN [k \in 1 .. Distance(read_map[v]) |-> p_head[At(read_map[v] + k - 1)]]
  ELSE << >>

F == INSTANCE FanOut WITH
       members <- DOMAIN read_map,
       pending <- [v \in Visitors |-> Pending(v)],
       Capacity <- Count - 1

\* Whatever the interleaving of readers joining, reading and leaving with
\* the writer, each visitor reads exactly what was written since its own
\* registration, in order, none skipped, repeated, overwritten in the ring
\* before it was read or taken from an uninitialised slot; and a write is
\* accepted only while no visitor is Count - 1 chunks behind.  (Queue.h)
ImplementsFanOut == F!Spec
=============================================================================
