----------------------------- MODULE ChunkList -----------------------------
(***************************************************************************)
(* DataList<T> (MyRoomCast/utils/inc/DataList.h) over its ArrayPool<T>     *)
(* (ArrayPool.h): the mutex-protected list of time-stamped chunks between  *)
(* the fifo reader, the encoder, the network threads and the player.  The  *)
(* pool owns an array of Count buffers and keeps the free ones in a list;  *)
(* the DataList keeps the used ones.  A chunk is copied into a buffer when *)
(* it is written and out of it when it is read: no caller holds a buffer.  *)
(*                                                                         *)
(* Every public function holds the mutex from end to end and is one atomic *)
(* action.  A call that returns an error changes nothing.                  *)
(***************************************************************************)
EXTENDS Integers, Sequences

CONSTANTS
  Chunks,     \* the chunks, each with its time stamp and its bytes
  NoChunk,    \* what an array element or a caller's buffer starts with
  Count       \* the buffers of the pool (CACHE_MS/13*2 = 800)

ASSUME CountAssumption == Count \in Nat \ {0}

VARIABLES
  pool,       \* ArrayPool::pool, the free buffers
  data_list,  \* the used buffers, oldest chunk first
  content,    \* content[b]: the chunk in buffer b of the array p_head
  out         \* what the last successful read copied to its caller

listVars == <<pool, data_list, content, out>>

Buffers == 1 .. Count

ListTypeOK ==
  /\ pool \in Seq(Buffers)
  /\ data_list \in Seq(Buffers)
  /\ content \in [Buffers -> Chunks \union {NoChunk}]
  /\ out \in Chunks \union {NoChunk}

\* ArrayPool::init pushes the array's elements in order.
ListInit ==
  /\ pool = [b \in Buffers |-> b]
  /\ data_list = << >>
  /\ content = [b \in Buffers |-> NoChunk]
  /\ out = NoChunk

-----------------------------------------------------------------------------

malloc ==
  /\ pool # << >>
  /\ pool' = Tail(pool)

free(b) == pool' = Append(pool, b)

\* Both overloads of write: the new chunk is refused when the pool is empty.
write(c) ==
  /\ malloc
  /\ content' = [content EXCEPT ![Head(pool)] = c]
  /\ data_list' = Append(data_list, Head(pool))
  /\ UNCHANGED out

writeToHead(c) ==
  /\ malloc
  /\ content' = [content EXCEPT ![Head(pool)] = c]
  /\ data_list' = <<Head(pool)>> \o data_list
  /\ UNCHANGED out

\* Mutant of writeToTail: the newest queued chunk is evicted.
writeToTailEvictNewest(c) ==
  \/ write(c)
  \/ /\ pool = << >>
     /\ content' = [content EXCEPT ![data_list[Len(data_list)]] = c]
     /\ UNCHANGED <<data_list, pool, out>>

\* writeToTail with a free buffer is a write; without one it frees the front
\* of the list, and the malloc that follows takes that buffer back.
writeToTail(c) ==
  \/ write(c)
  \/ /\ pool = << >>
     /\ content' = [content EXCEPT ![Head(data_list)] = c]
     /\ data_list' = Append(Tail(data_list), Head(data_list))
     /\ UNCHANGED <<pool, out>>

\* Mutant of popFront: the buffer is not given back.
popFrontLeak ==
  /\ data_list # << >>
  /\ data_list' = Tail(data_list)
  /\ UNCHANGED <<pool, content>>

popFront ==
  /\ data_list # << >>
  /\ data_list' = Tail(data_list)
  /\ free(Head(data_list))
  /\ UNCHANGED content

\* Both overloads of read.
read ==
  /\ popFront
  /\ out' = content[Head(data_list)]

\* checkData compares the age of the front chunk with the cache time: timeout
\* is what is left of it, in ms.  A chunk that is early stays in the list.
checkData(timeout) ==
  /\ timeout >= -50
  /\ popFront
  /\ out' = IF timeout > 50 THEN out ELSE content[Head(data_list)]

\* Mutant of reInit: the loop over the array runs once too often.
reInitOnePast ==
  /\ data_list' = << >>
  /\ pool' = [b \in 1 .. Count + 1 |-> b]
  /\ content' = [b \in Buffers |-> NoChunk]
  /\ UNCHANGED out

\* The array is deleted and allocated anew: its elements are uninitialised.
reInit ==
  /\ data_list' = << >>
  /\ pool' = [b \in Buffers |-> b]
  /\ content' = [b \in Buffers |-> NoChunk]
  /\ UNCHANGED out

ListNext ==
  \/ \E c \in Chunks : write(c) \/ writeToHead(c) \/ writeToTail(c)
  \/ read
  \/ \E timeout \in {-51, -50, 50, 51} : checkData(timeout)
  \/ reInit

ListSpec == ListInit /\ [][ListNext]_listVars

-----------------------------------------------------------------------------
Distinct(s) == \A i, j \in 1 .. Len(s) : s[i] = s[j] => i = j

Parted(p, d) ==
  /\ Len(p) + Len(d) = Count
  /\ Distinct(p)
  /\ Distinct(d)
  /\ \A i \in 1 .. Len(p), j \in 1 .. Len(d) : p[i] # d[j]

\* Every buffer of the array is in exactly one place, the pool or the list:
\* no sequence of calls leaks a buffer, queues one twice or frees a queued
\* one, so a full pool always leaves writeToTail a front to evict (a front()
\* of an empty std::list is undefined).  (DataList.h:132-138, ArrayPool.h)
BuffersPartition == Parted(pool, data_list)

\* The refinement mapping: the chunks in the used buffers, in list order.
Queued == [i \in 1 .. Len(data_list) |-> content[data_list[i]]]

A == INSTANCE BoundedFifo WITH
       fifo <- Queued,
       Capacity <- Count

\* The list is one bounded FIFO: a reader gets the oldest queued chunk as it
\* was written, write refuses the newest chunk exactly when the list is full
\* and writeToTail then gives up the oldest.  (DataList.h:69-214)
ImplementsBoundedFifo == A!Spec
=============================================================================
