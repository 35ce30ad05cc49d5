---------------------------- MODULE BoundedFifo ----------------------------
(***************************************************************************)
(* What DataList<T> promises the threads that share it, with no buffers    *)
(* and no pool: one FIFO of at most Capacity chunks.  ChunkList is the     *)
(* detailed specification and is shown to implement this.                  *)
(***************************************************************************)
EXTENDS Naturals, Sequences

CONSTANTS Chunks, NoChunk, Capacity

VARIABLES
  fifo,   \* the queued chunks, oldest first
  out     \* what the last successful read copied to its caller

vars == <<fifo, out>>

Init ==
  /\ fifo = << >>
  /\ out = NoChunk

Put(c) ==
  /\ Len(fifo) < Capacity
  /\ fifo' = Append(fifo, c)
  /\ UNCHANGED out

PutFirst(c) ==
  /\ Len(fifo) < Capacity
  /\ fifo' = <<c>> \o fifo
  /\ UNCHANGED out

\* A writer that must not wait gives up the oldest chunk for the new one.
PutEvicting(c) ==
  /\ Len(fifo) = Capacity
  /\ fifo' = Append(Tail(fifo), c)
  /\ UNCHANGED out

Take ==
  /\ fifo # << >>
  /\ out' = Head(fifo)
  /\ fifo' = Tail(fifo)

Drop ==
  /\ fifo # << >>
  /\ fifo' = Tail(fifo)
  /\ UNCHANGED out

Reset ==
  /\ fifo' = << >>
  /\ UNCHANGED out

Next ==
  \/ \E c \in Chunks : Put(c) \/ PutFirst(c) \/ PutEvicting(c)
  \/ Take
  \/ Drop
  \/ Reset

Spec == Init /\ [][Next]_vars
=============================================================================
