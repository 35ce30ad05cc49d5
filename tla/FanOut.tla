------------------------------- MODULE FanOut -------------------------------
(***************************************************************************)
(* What the fan-out queue of the server promises its callers (Queue<T> in  *)
(* MyRoomCast/utils/inc/Queue.h), with no ring, no index and no modulus:   *)
(* every registered visitor owns a private bounded FIFO.  A write appends  *)
(* the chunk to the FIFO of every visitor, and succeeds only if no FIFO is *)
(* full; a read removes the oldest chunk of the visitor's own FIFO.        *)
(*                                                                         *)
(* RingQueue is the detailed specification and is shown to implement this. *)
(***************************************************************************)
EXTENDS Naturals, Sequences

CONSTANTS
  Visitors,   \* the map_index values: the socket numbers of the clients
  Chunks,     \* what is queued: encoded audio chunks
  NoChunk,    \* content of a caller's buffer nothing was copied to yet
  Capacity    \* chunks a visitor may be behind the writer

VARIABLES
  members,    \* the registered visitors
  pending,    \* pending[v]: the chunks v has not read yet, oldest first
  chunk       \* chunk[v]: the chunk the last successful read copied out

vars == <<members, pending, chunk>>

TypeOK ==
  /\ members \in SUBSET Visitors
  /\ pending \in [Visitors -> Seq(Chunks)]
  /\ chunk \in [Visitors -> Chunks \union {NoChunk}]

Init ==
  /\ members = {}
  /\ pending = [v \in Visitors |-> <<>>]
  /\ chunk = [v \in Visitors |-> NoChunk]

\* The first read of a visitor only registers it: it sees what is written
\* from then on.
Join(v) ==
  /\ v \notin members
  /\ members' = members \union {v}
  /\ pending' = [pending EXCEPT ![v] = <<>>]
  /\ UNCHANGED chunk

Receive(v) ==
  /\ v \in members
  /\ pending[v] # <<>>
  /\ chunk' = [chunk EXCEPT ![v] = Head(pending[v])]
  /\ pending' = [pending EXCEPT ![v] = Tail(@)]
  /\ UNCHANGED members

Publish(c) ==
  /\ \A v \in members : Len(pending[v]) < Capacity
  /\ pending' = [v \in Visitors |->
                   IF v \in members THEN Append(pending[v], c) ELSE <<>>]
  /\ UNCHANGED <<members, chunk>>

Leave(v) ==
  /\ members' = members \ {v}
  /\ pending' = [pending EXCEPT ![v] = <<>>]
  /\ UNCHANGED chunk

Reset ==
  /\ members' = {}
  /\ pending' = [v \in Visitors |-> <<>>]
  /\ UNCHANGED chunk

Next ==
  \/ \E v \in Visitors : Join(v) \/ Receive(v) \/ Leave(v)
  \/ \E c \in Chunks : Publish(c)
  \/ Reset

Spec == Init /\ [][Next]_vars
=============================================================================
