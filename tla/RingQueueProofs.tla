-------------------------- MODULE RingQueueProofs --------------------------
(***************************************************************************)
(* The ring of Queue.h implements the fan-out of private FIFOs, for every  *)
(* set of visitors, every set of chunks and every size of the ring.        *)
(***************************************************************************)
EXTENDS RingQueue, SequenceTheorems, TLAPS

-----------------------------------------------------------------------------
\* Arithmetic of the indices.

\* The index after i: read_index++; read_index %= count (Queue.h:59-60).
LEMMA SuccStep ==
  \A i \in Slots : succ(i) = IF i = Count - 1 THEN 0 ELSE i + 1
BY CountAssumption DEF succ, Slots

LEMMA SuccSlot == \A i \in Slots : succ(i) \in Slots
BY SuccStep, CountAssumption DEF Slots

-----------------------------------------------------------------------------
\* The indices stay inside the array and the map stays over known visitors.
LEMMA TypeInit == Init => TypeOK
BY CountAssumption DEF Init, TypeOK, Slots

LEMMA TypeNext == TypeOK /\ [Next]_vars => TypeOK'
<1> SUFFICES ASSUME TypeOK, [Next]_vars PROVE TypeOK'
  OBVIOUS
<1> USE DEF TypeOK
<1>1. ASSUME NEW v \in Visitors, readRegister(v) PROVE TypeOK'
  BY <1>1 DEF readRegister
<1>2. ASSUME NEW v \in Visitors, readChunk(v) PROVE TypeOK'
  <2>1. succ(read_map[v]) \in Slots
    BY <1>2, SuccSlot DEF readChunk
  <2>. QED BY <1>2, <2>1 DEF readChunk
<1>3. ASSUME NEW v \in Visitors, removeVisitor(v) PROVE TypeOK'
  BY <1>3 DEF removeVisitor
<1>4. ASSUME NEW c \in Chunks, write(c) PROVE TypeOK'
  BY <1>4, SuccSlot DEF write
<1>5. CASE reInit
  BY <1>5, CountAssumption DEF reInit, Slots
<1>6. CASE UNCHANGED vars
  BY <1>6 DEF vars
<1>. QED BY <1>1, <1>2, <1>3, <1>4, <1>5, <1>6 DEF Next

THEOREM TypeCorrect == Spec => []TypeOK
<1>1. Init => TypeOK BY TypeInit
<1>2. TypeOK /\ [Next]_vars => TypeOK' BY TypeNext
<1>. QED BY <1>1, <1>2, PTL DEF Spec

-----------------------------------------------------------------------------
\* The stretch of the ring a visitor has still to read.

\* Its length is a number below Count, 0 exactly when the visitor is level
\* with the writer, and Count - 1 exactly when the ring is full for it.
LEMMA DistanceBounds ==
  ASSUME TypeOK, NEW i \in Slots
  PROVE  /\ Distance(i) \in 0 .. Count - 1
         /\ Distance(i) = 0 <=> i = write_index
         /\ Distance(i) = Count - 1 <=> succ(write_index) = i
BY SuccStep, CountAssumption DEF TypeOK, Distance, Slots

LEMMA AtSlot ==
  ASSUME NEW i \in Slots, NEW k \in 1 .. Count
  PROVE  At(i + k - 1) \in Slots
BY CountAssumption DEF At, Slots

\* Pending(v) is a sequence as long as v's distance to the writer, and its
\* elements are those of the ring, from v's read index on.
PendingOK ==
  \A v \in DOMAIN read_map :
    /\ Pending(v) \in Seq(Chunks \union {NoChunk})
    /\ Len(Pending(v)) = Distance(read_map[v])
    /\ \A k \in 1 .. Distance(read_map[v]) :
         Pending(v)[k] = p_head[At(read_map[v] + k - 1)]

LEMMA PendingSeq == TypeOK => PendingOK
<1> SUFFICES ASSUME TypeOK, NEW v \in DOMAIN read_map
    PROVE  /\ Pending(v) \in Seq(Chunks \union {NoChunk})
           /\ Len(Pending(v)) = Distance(read_map[v])
           /\ \A k \in 1 .. Distance(read_map[v]) :
                Pending(v)[k] = p_head[At(read_map[v] + k - 1)]
  BY DEF PendingOK
<1>1. read_map[v] \in Slots
  BY DEF TypeOK
<1>2. Distance(read_map[v]) \in 0 .. Count - 1
  BY <1>1, DistanceBounds
<1>3. \A k \in 1 .. Distance(read_map[v]) :
         p_head[At(read_map[v] + k - 1)] \in Chunks \union {NoChunk}
  BY <1>1, <1>2, AtSlot, CountAssumption DEF TypeOK
<1>. QED BY <1>2, <1>3, CountAssumption DEF Pending

LEMMA PendingSeqNext == TypeOK' => PendingOK'
BY PendingSeq, PTL

\* Reading moves a lagging visitor one chunk closer to the writer.
LEMMA DistanceRead ==
  ASSUME TypeOK, NEW i \in Slots, i # write_index
  PROVE  /\ Distance(succ(i)) = Distance(i) - 1
         /\ At(i) = i
         /\ \A k \in 1 .. Distance(i) - 1 :
              At(succ(i) + k - 1) = At(i + k)
<1>1. /\ Count \in Nat /\ Count > 0
      /\ i \in 0 .. Count - 1 /\ write_index \in 0 .. Count - 1
  BY CountAssumption DEF TypeOK, Slots
<1>2. CASE i = Count - 1
  <2>1. succ(i) = 0
    BY <1>2, SuccStep
  <2>. QED BY <1>1, <1>2, <2>1 DEF Distance, At
<1>3. CASE i # Count - 1
  <2>1. succ(i) = i + 1
    BY <1>3, SuccStep
  <2>. QED BY <1>1, <1>3, <2>1 DEF Distance, At
<1>. QED BY <1>2, <1>3

\* Writing, when the ring is not full for the visitor, moves the writer one
\* chunk further and touches none of the slots the visitor has to read.
LEMMA DistanceWrite ==
  ASSUME TypeOK, NEW i \in Slots, succ(write_index) # i,
         write_index' = succ(write_index)
  PROVE  /\ Distance(i)' = Distance(i) + 1
         /\ At(i + Distance(i)) = write_index
         /\ \A k \in 1 .. Distance(i) : At(i + k - 1) # write_index
<1>1. /\ Count \in Nat /\ Count > 0
      /\ i \in 0 .. Count - 1 /\ write_index \in 0 .. Count - 1
  BY CountAssumption DEF TypeOK, Slots
<1>2. /\ At(i + Distance(i)) = write_index
      /\ \A k \in 1 .. Distance(i) : At(i + k - 1) # write_index
  BY <1>1 DEF Distance, At
<1>3. CASE write_index = Count - 1
  <2>1. write_index' = 0 /\ i # 0
    BY <1>3, SuccStep DEF TypeOK
  <2>2. Distance(i)' = Distance(i) + 1
    BY <1>1, <1>3, <2>1 DEF Distance
  <2>. QED BY <1>2, <2>2
<1>4. CASE write_index # Count - 1
  <2>1. write_index' = write_index + 1 /\ i # write_index + 1
    BY <1>4, SuccStep DEF TypeOK
  <2>2. Distance(i)' = Distance(i) + 1
    BY <1>1, <1>4, <2>1 DEF Distance
  <2>. QED BY <1>2, <2>2
<1>. QED BY <1>3, <1>4

-----------------------------------------------------------------------------
\* One lemma per action: what it does to the ring is what the abstract
\* action does to the private queues.

LEMMA RefineInit == Init => F!Init
BY DEF Init, F!Init, Pending

LEMMA RefineRegister ==
  ASSUME TypeOK, NEW v \in Visitors, readRegister(v)
  PROVE  F!Join(v)
<1>1. \A u \in DOMAIN read_map : Pending(u)' = Pending(u)
  BY DEF readRegister, Pending, Distance, At
<1>2. Pending(v)' = << >>
  BY DEF TypeOK, readRegister, Pending, Distance, Slots
<1>3. \A u \in Visitors : u \notin DOMAIN read_map /\ u # v
                             => Pending(u)' = Pending(u)
  BY DEF readRegister, Pending
<1>. QED BY <1>1, <1>2, <1>3 DEF readRegister, F!Join

LEMMA RefineRead ==
  ASSUME TypeOK, TypeOK', NEW v \in Visitors, readChunk(v)
  PROVE  F!Receive(v)
<1> DEFINE i == read_map[v]
<1>1. /\ i \in Slots /\ i # write_index
      /\ v \in DOMAIN read_map /\ DOMAIN read_map' = DOMAIN read_map
      /\ read_map'[v] = succ(i) /\ succ(i) \in Slots
      /\ p_head' = p_head /\ write_index' = write_index
  BY SuccSlot DEF TypeOK, readChunk
<1>2. /\ Distance(i) \in 1 .. Count - 1
      /\ Distance(succ(i)) = Distance(i) - 1
      /\ At(i) = i
      /\ \A k \in 1 .. Distance(i) - 1 : At(succ(i) + k - 1) = At(i + k)
  BY <1>1, DistanceBounds, DistanceRead, CountAssumption
<1>3. /\ Pending(v) \in Seq(Chunks \union {NoChunk})
      /\ Len(Pending(v)) = Distance(i)
      /\ \A k \in 1 .. Distance(i) : Pending(v)[k] = p_head[At(i + k - 1)]
  BY <1>1, PendingSeq DEF PendingOK
<1>4. /\ Pending(v)' \in Seq(Chunks \union {NoChunk})
      /\ Len(Pending(v)') = Distance(i) - 1
      /\ \A k \in 1 .. Distance(i) - 1 :
           (Pending(v)')[k] = p_head[At(succ(i) + k - 1)]
  BY <1>1, <1>2, PendingSeqNext DEF PendingOK, Distance
<1>5. /\ Pending(v) # << >>
      /\ Tail(Pending(v)) \in Seq(Chunks \union {NoChunk})
      /\ Len(Tail(Pending(v))) = Distance(i) - 1
      /\ \A k \in 1 .. Distance(i) - 1 : Tail(Pending(v))[k] = Pending(v)[k + 1]
  BY <1>2, <1>3, EmptySeq, HeadTailProperties
<1>6. \A k \in 1 .. Distance(i) - 1 : Tail(Pending(v))[k] = p_head[At(i + k)]
  BY <1>2, <1>3, <1>5, CountAssumption
<1>7. Pending(v)' = Tail(Pending(v))
  <2>1. \A k \in 1 .. Distance(i) - 1 : (Pending(v)')[k] = Tail(Pending(v))[k]
    BY <1>2, <1>4, <1>6
  <2>. QED BY <1>4, <1>5, <2>1, SeqEqual
<1>8. Head(Pending(v)) = p_head[i]
  <2>1. Head(Pending(v)) = Pending(v)[1]
    BY <1>3
  <2>2. i + 1 - 1 = i /\ 1 \in 1 .. Distance(i)
    BY <1>1, <1>2, CountAssumption DEF Slots
  <2>. QED BY <1>2, <1>3, <2>1, <2>2
<1>9. \A u \in Visitors \ {v} : Pending(u)' = Pending(u)
  BY <1>1 DEF readChunk, Pending, Distance, TypeOK
<1>. QED BY <1>1, <1>5, <1>7, <1>8, <1>9 DEF readChunk, F!Receive

LEMMA RefineRemove ==
  ASSUME TypeOK, NEW v \in Visitors, removeVisitor(v)
  PROVE  F!Leave(v)
<1>1. \A u \in Visitors \ {v} : Pending(u)' = Pending(u)
  BY DEF removeVisitor, Pending, Distance
<1>2. Pending(v)' = << >>
  BY DEF removeVisitor, Pending
<1>. QED BY <1>1, <1>2 DEF removeVisitor, F!Leave

LEMMA RefineReInit == ASSUME reInit PROVE F!Reset
BY DEF reInit, F!Reset, Pending

LEMMA RefineWrite ==
  ASSUME TypeOK, TypeOK', NEW c \in Chunks, write(c)
  PROVE  F!Publish(c)
<1>1. /\ DOMAIN read_map' = DOMAIN read_map /\ read_map' = read_map
      /\ write_index' = succ(write_index) /\ write_index \in Slots
      /\ p_head' = [p_head EXCEPT ![write_index] = c]
      /\ p_head \in [Slots -> Chunks \union {NoChunk}]
      /\ DOMAIN read_map \subseteq Visitors
  BY DEF TypeOK, write
<1>2. ASSUME NEW v \in DOMAIN read_map
      PROVE  /\ Len(Pending(v)) < Count - 1
             /\ Pending(v)' = Append(Pending(v), c)
  <2> DEFINE i == read_map[v]
  <2>1. i \in Slots /\ succ(write_index) # i
    BY DEF TypeOK, write, full
  <2>2. /\ Distance(i) \in 0 .. Count - 2
        /\ Distance(i)' = Distance(i) + 1
        /\ At(i + Distance(i)) = write_index
        /\ \A k \in 1 .. Distance(i) : At(i + k - 1) # write_index
        /\ \A k \in 1 .. Distance(i) : At(i + k - 1) \in Slots
    BY <1>1, <2>1, DistanceBounds, DistanceWrite, AtSlot, CountAssumption
  <2>3. /\ Pending(v) \in Seq(Chunks \union {NoChunk})
        /\ Len(Pending(v)) = Distance(i)
        /\ \A k \in 1 .. Distance(i) : Pending(v)[k] = p_head[At(i + k - 1)]
    BY PendingSeq DEF PendingOK
  <2>4. /\ Pending(v)' \in Seq(Chunks \union {NoChunk})
        /\ Len(Pending(v)') = Distance(i) + 1
        /\ \A k \in 1 .. Distance(i) + 1 :
             (Pending(v)')[k] = p_head'[At(i + k - 1)]
    BY <1>1, <2>2, PendingSeqNext DEF PendingOK, Distance
  <2>5. \A k \in 1 .. Distance(i) : p_head'[At(i + k - 1)] = Pending(v)[k]
    BY <1>1, <2>2, <2>3
  <2>6. p_head'[At(i + (Distance(i) + 1) - 1)] = c
    <3>1. i + (Distance(i) + 1) - 1 = i + Distance(i)
      BY <2>1, <2>2 DEF Slots
    <3>. QED BY <1>1, <2>2, <3>1
  <2>7. /\ Append(Pending(v), c) \in Seq(Chunks \union {NoChunk})
        /\ Len(Append(Pending(v), c)) = Distance(i) + 1
        /\ \A k \in 1 .. Distance(i) : Append(Pending(v), c)[k] = Pending(v)[k]
        /\ Append(Pending(v), c)[Distance(i) + 1] = c
    <3>1. c \in Chunks \union {NoChunk}
      OBVIOUS
    <3>. QED BY <2>3, <3>1, AppendProperties
  <2>8. \A k \in 1 .. Distance(i) + 1 :
          (Pending(v)')[k] = Append(Pending(v), c)[k]
    <3> TAKE k \in 1 .. Distance(i) + 1
    <3>1. k = Distance(i) + 1 \/ k \in 1 .. Distance(i)
      BY <2>2
    <3>. QED BY <2>4, <2>5, <2>6, <2>7, <3>1
  <2>9. Pending(v)' = Append(Pending(v), c)
    BY <2>4, <2>7, <2>8, SeqEqual
  <2>. QED BY <2>2, <2>3, <2>9, CountAssumption
<1>3. \A v \in Visitors \ DOMAIN read_map : Pending(v)' = << >>
  BY <1>1 DEF Pending
<1>. QED BY <1>1, <1>2, <1>3 DEF write, F!Publish

-----------------------------------------------------------------------------
\* Queue.h gives every visitor a private bounded FIFO: each reads exactly
\* what was written since it registered, in order, with no chunk skipped,
\* repeated or overwritten unread, whatever the interleaving and the size of
\* the ring.
THEOREM RingImplementsFanOut == Spec => ImplementsFanOut
<1>1. TypeOK /\ TypeOK' /\ [Next]_vars => [F!Next]_F!vars
  <2> SUFFICES ASSUME TypeOK, TypeOK', [Next]_vars PROVE [F!Next]_F!vars
    OBVIOUS
  <2>1. ASSUME NEW v \in Visitors,
               readRegister(v) \/ readChunk(v) \/ removeVisitor(v)
        PROVE  F!Next
    BY <2>1, RefineRegister, RefineRead, RefineRemove DEF F!Next
  <2>2. ASSUME NEW c \in Chunks, write(c) PROVE F!Next
    BY <2>2, RefineWrite DEF F!Next
  <2>3. CASE reInit
    BY <2>3, RefineReInit DEF F!Next
  <2>4. CASE UNCHANGED vars
    BY <2>4 DEF vars, F!vars, Pending, Distance
  <2>. QED BY <2>1, <2>2, <2>3, <2>4 DEF Next
<1>. QED BY <1>1, RefineInit, TypeCorrect, PTL DEF Spec, ImplementsFanOut, F!Spec
=============================================================================
