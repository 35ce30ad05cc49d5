--------------------------- MODULE TimeSyncProofs ---------------------------
(***************************************************************************)
(* Proofs of the properties of TimeSync, for every clock and every delay   *)
(* of threads and network.  An offset is the difference of two readings    *)
(* that are each wrong by the time a message was under way, which is never *)
(* negative; the invariant says that of each message on its way with no    *)
(* change of the client's clock in between.                                *)
(*                                                                         *)
(* The rest follows from the state alone.  Sorting puts the offsets into   *)
(* different places; if one in the middle were beyond every fresh one, all *)
(* on that side of it would be stale, and there are not that many.         *)
(***************************************************************************)
EXTENDS TimeSync, FiniteSetTheorems, SequenceTheorems, TLAPS

UpOK == \A i \in 1 .. Len(up) : up[i].fresh => up[i].sent + offset =< now

ServerOK == server # None /\ server.fresh => server.latency >= offset

DownOK == \A i \in 1 .. Len(down) :
            down[i].fresh => down[i].latency >= offset /\ down[i].sent =< now

HandOK == hand # None /\ hand.fresh => hand.latency >= offset /\ hand.back + offset >= 0

Close(d) == d.fresh => /\ d.diff - 2 * offset < RttLimit * Ms
                       /\ 2 * offset - d.diff < RttLimit * Ms

DiffsOK == \A i \in 1 .. Len(diffs) : Close(diffs[i])

Inv == TypeOK /\ UpOK /\ ServerOK /\ DownOK /\ HandOK /\ DiffsOK

USE UnitAssumption, SizeAssumption, PlayAssumption, NoneAssumption, ClockAssumption

-----------------------------------------------------------------------------
\* getMs rounds down, so the limit holds for the microseconds too.
LEMMA QuickInUs ==
  ASSUME NEW c2s \in Int, NEW s2c \in Int, inTime(c2s, s2c)
  PROVE  s2c + c2s < RttLimit * Ms
  <1> DEFINE x == s2c + c2s
             q == x \div Ms
  <1>1. q \in Int /\ x < q * Ms + Ms
    OBVIOUS
  <1>2. q + 1 =< RttLimit
    BY <1>1 DEF inTime
  <1> HIDE DEF q
  <1>3. (q + 1) * Ms =< RttLimit * Ms
    BY <1>1, <1>2
  <1>4. (q + 1) * Ms = q * Ms + Ms
    BY <1>1
  <1> QED BY <1>1, <1>3, <1>4

\* What add leaves in the buffer was there or is new.
LEMMA AddKeeps ==
  ASSUME TypeOK, NEW d \in Diffs
  PROVE  /\ add(d) \in Seq(Diffs) /\ Len(add(d)) =< Size
         /\ \A i \in 1 .. Len(add(d)) :
              add(d)[i] = d \/ \E j \in 1 .. Len(diffs) : add(d)[i] = diffs[j]
  <1> DEFINE s == Append(diffs, d)
  <1>0. diffs \in Seq(Diffs) /\ Len(diffs) \in Nat /\ Len(diffs) =< Size
    BY DEF TypeOK
  <1>1. s \in Seq(Diffs) /\ Len(s) = Len(diffs) + 1 /\ Len(s) \in Nat
    BY <1>0
  <1>2. \A i \in 1 .. Len(s) : s[i] = d \/ \E j \in 1 .. Len(diffs) : s[i] = diffs[j]
    <2> TAKE i \in 1 .. Len(s)
    <2>1. CASE i = Len(s)
      BY <1>0, <1>1, <2>1
    <2>2. CASE i \in 1 .. Len(diffs)
      BY <1>0, <2>2
    <2> QED BY <1>0, <1>1, <2>1, <2>2
  <1>3. CASE Len(s) > Size
    <2>1. /\ Tail(s) \in Seq(Diffs) /\ Len(Tail(s)) = Len(s) - 1
          /\ \A i \in 1 .. Len(s) - 1 : Tail(s)[i] = s[i + 1]
      BY <1>1, <1>3
    <2>2. add(d) = Tail(s)
      BY <1>3 DEF add
    <2>3. \A i \in 1 .. Len(s) - 1 : i + 1 \in 1 .. Len(s)
      BY <1>1
    <2> HIDE DEF s
    <2> QED BY <1>0, <1>1, <1>2, <2>1, <2>2, <2>3
  <1>4. CASE ~ Len(s) > Size
    <2>1. add(d) = s
      BY <1>4 DEF add
    <2> HIDE DEF s
    <2> QED BY <1>1, <1>2, <1>4, <2>1
  <1> QED BY <1>3, <1>4

LEMMA StaleKeeps ==
  ASSUME NEW s, s \in Seq(Requests) \/ s \in Seq(Answers) \/ s \in Seq(Diffs)
  PROVE  /\ s \in Seq(Requests) => stale(s) \in Seq(Requests)
         /\ s \in Seq(Answers) => stale(s) \in Seq(Answers)
         /\ s \in Seq(Diffs) => stale(s) \in Seq(Diffs)
         /\ Len(stale(s)) = Len(s)
         /\ \A i \in 1 .. Len(s) : ~ stale(s)[i].fresh
  <1>1. DOMAIN s = 1 .. Len(s) /\ Len(s) \in Nat
    OBVIOUS
  <1>2. stale(s) = [i \in 1 .. Len(s) |-> [s[i] EXCEPT !.fresh = FALSE]]
    BY <1>1 DEF stale
  <1>3. ASSUME NEW R, s \in Seq(R), \A i \in 1 .. Len(s) : [s[i] EXCEPT !.fresh = FALSE] \in R
        PROVE  stale(s) \in Seq(R)
    BY <1>1, <1>2, <1>3
  <1>4. ASSUME s \in Seq(Requests)
        PROVE  \A i \in 1 .. Len(s) : [s[i] EXCEPT !.fresh = FALSE] \in Requests
    <2> TAKE i \in 1 .. Len(s)
    <2>1. s[i] \in Requests
      BY <1>4
    <2> QED BY <2>1 DEF Requests
  <1>5. ASSUME s \in Seq(Answers)
        PROVE  \A i \in 1 .. Len(s) : [s[i] EXCEPT !.fresh = FALSE] \in Answers
    <2> TAKE i \in 1 .. Len(s)
    <2>1. s[i] \in Answers
      BY <1>5
    <2> QED BY <2>1 DEF Answers
  <1>6. ASSUME s \in Seq(Diffs)
        PROVE  \A i \in 1 .. Len(s) : [s[i] EXCEPT !.fresh = FALSE] \in Diffs
    <2> TAKE i \in 1 .. Len(s)
    <2>1. s[i] \in Diffs
      BY <1>6
    <2> QED BY <2>1 DEF Diffs
  <1>7. Len(stale(s)) = Len(s)
    BY <1>1, <1>2
  <1>8. ASSUME NEW i \in 1 .. Len(s) PROVE ~ stale(s)[i].fresh
    <2>1. s[i] \in Requests \/ s[i] \in Answers \/ s[i] \in Diffs
      OBVIOUS
    <2>2. stale(s)[i] = [s[i] EXCEPT !.fresh = FALSE]
      BY <1>2
    <2> QED BY <2>1, <2>2 DEF Requests, Answers, Diffs
  <1> QED BY <1>3, <1>4, <1>5, <1>6, <1>7, <1>8

-----------------------------------------------------------------------------
LEMMA Initially == Init => Inv
  BY DEF Init, Inv, TypeOK, UpOK, ServerOK, DownOK, HandOK, DiffsOK

LEMMA sendRequestKeeps == ASSUME Inv, sendRequest PROVE Inv'
  <1> DEFINE m == [sent |-> clientNow, fresh |-> TRUE]
  <1>0. TypeOK /\ now \in Int /\ offset \in Int /\ up \in Seq(Requests) /\ Len(up) \in Nat
    BY DEF Inv, TypeOK
  <1>1. m \in Requests /\ m.sent + offset = now
    BY <1>0 DEF Requests, clientNow
  <1> HIDE DEF m
  <1>2. up' = Append(up, m)
    BY DEF sendRequest, m
  <1>3. up' \in Seq(Requests) /\ TypeOK'
    BY <1>0, <1>1, <1>2 DEF sendRequest, TypeOK, player
  <1>4. UpOK'
    <2> SUFFICES ASSUME NEW i \in 1 .. Len(up'), up'[i].fresh
                 PROVE  up'[i].sent + offset =< now
      BY DEF UpOK, sendRequest
    <2>1. CASE i = Len(up) + 1
      BY <1>0, <1>1, <1>2, <2>1
    <2>2. CASE i \in 1 .. Len(up)
      BY <1>0, <1>2, <2>2 DEF Inv, UpOK
    <2> QED BY <1>0, <1>2, <2>1, <2>2
  <1> QED BY <1>3, <1>4 DEF Inv, sendRequest, ServerOK, DownOK, HandOK, DiffsOK, Close

LEMMA serverRecvKeeps == ASSUME Inv, serverRecv PROVE Inv'
  <1>0. TypeOK /\ now \in Int /\ offset \in Int /\ up \in Seq(Requests) /\ Len(up) \in Nat
        /\ up # << >>
    BY DEF Inv, TypeOK, serverRecv
  <1>1. Head(up) = up[1] /\ Head(up) \in Requests /\ 1 \in 1 .. Len(up)
    BY <1>0
  <1>2. /\ Tail(up) \in Seq(Requests) /\ Len(Tail(up)) = Len(up) - 1
        /\ \A i \in 1 .. Len(up) - 1 : Tail(up)[i] = up[i + 1]
    BY <1>0
  <1>3. /\ server' \in Received
        /\ server'.latency = now - up[1].sent /\ server'.fresh = up[1].fresh
        /\ up[1].sent \in Int
    BY <1>0, <1>1 DEF serverRecv, Received, Requests
  <1>4. TypeOK'
    BY <1>0, <1>2, <1>3 DEF serverRecv, TypeOK, player
  <1>5. ServerOK'
    <2>1. up[1].fresh => up[1].sent + offset =< now
      BY <1>1 DEF Inv, UpOK
    <2> QED BY <1>0, <1>3, <2>1 DEF ServerOK, serverRecv
  <1>6. UpOK'
    BY <1>0, <1>2 DEF Inv, UpOK, serverRecv
  <1> QED BY <1>4, <1>5, <1>6 DEF Inv, serverRecv, DownOK, HandOK, DiffsOK, Close

LEMMA serverReplyKeeps == ASSUME Inv, serverReply PROVE Inv'
  <1> DEFINE m == [latency |-> server.latency, sent |-> now, fresh |-> server.fresh]
  <1>0. TypeOK /\ now \in Int /\ offset \in Int /\ down \in Seq(Answers) /\ Len(down) \in Nat
        /\ server \in Received
    BY DEF Inv, TypeOK, serverReply
  <1>1. /\ m \in Answers /\ m.sent = now
        /\ m.fresh => m.latency >= offset
    BY <1>0 DEF Answers, Received, Inv, ServerOK, serverReply
  <1> HIDE DEF m
  <1>2. down' = Append(down, m)
    BY DEF serverReply, m
  <1>3. TypeOK'
    BY <1>0, <1>1, <1>2 DEF serverReply, TypeOK, player
  <1>4. DownOK'
    <2> SUFFICES ASSUME NEW i \in 1 .. Len(down'), down'[i].fresh
                 PROVE  down'[i].latency >= offset /\ down'[i].sent =< now
      BY DEF DownOK, serverReply
    <2>1. CASE i = Len(down) + 1
      BY <1>0, <1>1, <1>2, <2>1
    <2>2. CASE i \in 1 .. Len(down)
      BY <1>0, <1>2, <2>2 DEF Inv, DownOK
    <2> QED BY <1>0, <1>2, <2>1, <2>2
  <1> QED BY <1>3, <1>4 DEF Inv, serverReply, UpOK, ServerOK, HandOK, DiffsOK, Close

LEMMA recvHeaderKeeps == ASSUME Inv, recvHeader PROVE Inv'
  <1>0. TypeOK /\ now \in Int /\ offset \in Int /\ down \in Seq(Answers) /\ Len(down) \in Nat
        /\ down # << >>
    BY DEF Inv, TypeOK, recvHeader
  <1>1. Head(down) = down[1] /\ Head(down) \in Answers /\ 1 \in 1 .. Len(down)
    BY <1>0
  <1>2. /\ Tail(down) \in Seq(Answers) /\ Len(Tail(down)) = Len(down) - 1
        /\ \A i \in 1 .. Len(down) - 1 : Tail(down)[i] = down[i + 1]
    BY <1>0
  <1>3. /\ hand' \in Samples
        /\ hand'.latency = down[1].latency /\ hand'.back = now - offset - down[1].sent
        /\ hand'.fresh = down[1].fresh
        /\ down[1].sent \in Int /\ down[1].latency \in Int
    BY <1>0, <1>1 DEF recvHeader, Samples, Answers, clientNow
  <1>4. TypeOK'
    BY <1>0, <1>2, <1>3 DEF recvHeader, TypeOK, player
  <1>5. HandOK'
    <2>1. down[1].fresh => down[1].latency >= offset /\ down[1].sent =< now
      BY <1>1 DEF Inv, DownOK
    <2> QED BY <1>0, <1>3, <2>1 DEF HandOK, recvHeader
  <1>6. DownOK'
    BY <1>0, <1>2 DEF Inv, DownOK, recvHeader
  <1> QED BY <1>4, <1>5, <1>6 DEF Inv, recvHeader, UpOK, ServerOK, DiffsOK, Close

LEMMA recvTimeKeeps == ASSUME Inv, recvTime PROVE Inv'
  <1> DEFINE d == [diff |-> hand.latency - hand.back, fresh |-> hand.fresh]
  <1>0. TypeOK /\ offset \in Int /\ hand \in Samples /\ diffs \in Seq(Diffs)
    BY DEF Inv, TypeOK, recvTime
  <1>1. d \in Diffs /\ hand.latency \in Int /\ hand.back \in Int
    BY <1>0 DEF Diffs, Samples
  <1>2. inTime(hand.latency, hand.back) => Close(d)
    <2> SUFFICES ASSUME inTime(hand.latency, hand.back), hand.fresh
                 PROVE  Close(d)
      BY DEF Close
    <2>1. hand.latency >= offset /\ hand.back + offset >= 0
      BY DEF Inv, HandOK, recvTime
    <2>2. hand.back + hand.latency < RttLimit * Ms
      BY <1>1, QuickInUs
    <2>3. RttLimit * Ms \in Int
      OBVIOUS
    <2>4. d.diff = hand.latency - hand.back
      OBVIOUS
    <2> QED BY <1>0, <1>1, <2>1, <2>2, <2>3, <2>4 DEF Close
  <1> HIDE DEF d
  <1>3. diffs' = IF inTime(hand.latency, hand.back) THEN add(d) ELSE diffs
    BY DEF recvTime, d
  <1>4. TypeOK'
    BY <1>0, <1>1, <1>3, AddKeeps DEF recvTime, TypeOK, player
  <1>5. DiffsOK'
    <2>1. \A i \in 1 .. Len(diffs') : Close(diffs'[i])
      BY <1>0, <1>1, <1>2, <1>3, AddKeeps DEF Inv, DiffsOK
    <2> QED BY <2>1 DEF DiffsOK, Close, recvTime
  <1> QED BY <1>4, <1>5 DEF Inv, recvTime, UpOK, ServerOK, DownOK, HandOK

LEMMA clearDiffKeeps == ASSUME Inv, clearDiff PROVE Inv'
  BY DEF Inv, clearDiff, TypeOK, UpOK, ServerOK, DownOK, HandOK, DiffsOK, player

LEMMA playThreadKeeps == ASSUME Inv, playThread PROVE Inv'
  <1>1. UNCHANGED <<now, offset, sets, exchange, diffs>>
    BY DEF playThread, readChunk, known, playPcm, discard, wait, finish
  <1>2. TypeOK'
    <2>1. /\ tag' \in BOOLEAN
          /\ play' \in {"read", "known", "age"}
          /\ chunk' \in Stamps \union {None}
          /\ (play' = "read") = (chunk' = None)
          /\ verdict' \in {"none", "played", "discarded"}
      BY DEF Inv, TypeOK, playThread, readChunk, known, playPcm, discard, wait, finish
    <2> QED BY <1>1, <2>1 DEF Inv, TypeOK, exchange
  <1> QED BY <1>1, <1>2 DEF Inv, UpOK, ServerOK, DownOK, HandOK, DiffsOK, Close, exchange

LEMMA tickKeeps == ASSUME Inv, tick PROVE Inv'
  <1>0. TypeOK /\ now \in Nat /\ now' \in Nat /\ now =< now' /\ offset \in Int
        /\ UNCHANGED <<offset, sets, up, server, down, hand, diffs, player>>
    BY DEF Inv, TypeOK, tick, exchange
  <1>1. TypeOK'
    BY <1>0 DEF TypeOK, player
  <1>2. UpOK'
    <2> SUFFICES ASSUME NEW i \in 1 .. Len(up), up[i].fresh
                 PROVE  up[i].sent + offset =< now'
      BY <1>0 DEF UpOK
    <2>0. up[i] \in Requests
      BY <1>0 DEF TypeOK
    <2>1. up[i].sent + offset =< now /\ up[i].sent \in Int
      BY <2>0 DEF Inv, UpOK, Requests
    <2> QED BY <1>0, <2>1
  <1>3. DownOK'
    <2> SUFFICES ASSUME NEW i \in 1 .. Len(down), down[i].fresh
                 PROVE  down[i].latency >= offset /\ down[i].sent =< now'
      BY <1>0 DEF DownOK
    <2>0. down[i] \in Answers
      BY <1>0 DEF TypeOK
    <2>1. down[i].latency >= offset /\ down[i].sent =< now /\ down[i].sent \in Int
      BY <2>0 DEF Inv, DownOK, Answers
    <2> QED BY <1>0, <2>1
  <1> QED BY <1>0, <1>1, <1>2, <1>3 DEF Inv, ServerOK, HandOK, DiffsOK, Close

LEMMA setClockKeeps == ASSUME Inv, setClock PROVE Inv'
  <1>0. TypeOK
    BY DEF Inv
  <1>1. /\ up' \in Seq(Requests) /\ \A i \in 1 .. Len(up') : ~ up'[i].fresh
    BY <1>0, StaleKeeps DEF setClock, TypeOK
  <1>2. /\ down' \in Seq(Answers) /\ \A i \in 1 .. Len(down') : ~ down'[i].fresh
    BY <1>0, StaleKeeps DEF setClock, TypeOK
  <1>3. /\ diffs' \in Seq(Diffs) /\ Len(diffs') =< Size
        /\ \A i \in 1 .. Len(diffs') : ~ diffs'[i].fresh
    BY <1>0, StaleKeeps DEF setClock, TypeOK
  <1>4. /\ server' \in Received \union {None} /\ (server' # None => ~ server'.fresh)
        /\ hand' \in Samples \union {None} /\ (hand' # None => ~ hand'.fresh)
    BY <1>0 DEF setClock, staleMsg, TypeOK, Received, Samples
  <1>5. TypeOK'
    BY <1>0, <1>1, <1>2, <1>3, <1>4 DEF setClock, TypeOK, player
  <1> QED BY <1>1, <1>2, <1>3, <1>4, <1>5
          DEF Inv, UpOK, ServerOK, DownOK, HandOK, DiffsOK, Close

-----------------------------------------------------------------------------
\* Every message under way bounds the offset it will give (TcpClient.cpp:223-227,
\* 284-298; TcpServer.cpp:539-562).
THEOREM Invariance == Spec => []Inv
  <1>1. Init => Inv
    BY Initially
  <1>2. Inv /\ [Next]_vars => Inv'
    <2> SUFFICES ASSUME Inv, [Next]_vars PROVE Inv'
      OBVIOUS
    <2>1. CASE UNCHANGED vars
      BY <2>1 DEF vars, exchange, player, Inv, TypeOK, UpOK, ServerOK, DownOK, HandOK,
                  DiffsOK, Close
    <2> QED BY <2>1, sendRequestKeeps, serverRecvKeeps, serverReplyKeeps, recvHeaderKeeps,
               recvTimeKeeps, clearDiffKeeps, playThreadKeeps, tickKeeps, setClockKeeps
            DEF Next
  <1> QED BY <1>1, <1>2, PTL DEF Spec

\* The type invariant, for every clock and every size of the buffer.
THEOREM TypeCorrect == Spec => []TypeOK
  <1>1. Inv => TypeOK
    BY DEF Inv
  <1> QED BY <1>1, Invariance, PTL

\* A fresh offset is within half the limit on a round trip, for every limit,
\* clock and delay (TcpClient.cpp:284-298, BaseMessage.h:36-72).
THEOREM OffsetsAreBounded == Spec => []OffsetsBounded
  <1>1. Inv => OffsetsBounded
    <2> SUFFICES ASSUME Inv PROVE OffsetsBounded
      OBVIOUS
    <2>1. DOMAIN diffs = 1 .. Len(diffs)
      BY DEF Inv, TypeOK
    <2> QED BY <2>1 DEF Inv, DiffsOK, Close, OffsetsBounded
  <1> QED BY <1>1, Invariance, PTL

-----------------------------------------------------------------------------
\* What stands in the middle.

\* sort puts every offset somewhere, and in ascending order: places are different,
\* so there are as many of them as offsets.
LEMMA SortIsAPermutation ==
  ASSUME NEW s \in Seq(Diffs)
  PROVE  \E p \in Injection(1 .. Len(s), 1 .. Len(s)) :
           /\ sort(s) = [k \in 1 .. Len(s) |-> s[p[k]].diff]
           /\ \A j, k \in 1 .. Len(s) : j =< k => s[p[j]].diff =< s[p[k]].diff
  <1> DEFINE D == DOMAIN s
             Less(i, j) == s[i].diff < s[j].diff \/ (s[i].diff = s[j].diff /\ i < j)
             Upto(i) == {j \in D : s[j].diff < s[i].diff \/ (s[j].diff = s[i].diff /\ j =< i)}
             place == [i \in D |-> Cardinality(Upto(i))]
             at(k) == CHOOSE i \in D : place[i] = k
             p == [k \in D |-> at(k)]
  <1>1. /\ Len(s) \in Nat /\ D = 1 .. Len(s) /\ D \subseteq Int
        /\ \A i \in D : s[i].diff \in Int
    <2>1. Len(s) \in Nat /\ D = 1 .. Len(s) /\ \A i \in D : s[i] \in Diffs
      OBVIOUS
    <2> QED BY <2>1 DEF Diffs
  <1> HIDE DEF D
  <1>2. IsFiniteSet(D) /\ Cardinality(D) = Len(s)
    <2>1. Len(s) \in Int /\ 1 \in Int
      BY <1>1
    <2>2. IsFiniteSet(1 .. Len(s)) /\ Cardinality(1 .. Len(s)) = IF 1 > Len(s) THEN 0 ELSE Len(s) - 1 + 1
      BY <2>1, FS_Interval
    <2> QED BY <1>1, <2>2
  <1>3. \A i \in D : /\ IsFiniteSet(Upto(i)) /\ Cardinality(Upto(i)) \in Nat
                    /\ Cardinality(Upto(i)) =< Len(s) /\ i \in Upto(i)
    <2> TAKE i \in D
    <2>1. Upto(i) \in SUBSET D /\ i \in Upto(i)
      BY <1>1
    <2> QED BY <1>2, <2>1, FS_Subset, FS_CardinalityType
  <1>4. \A i \in D : place[i] \in D
    <2> TAKE i \in D
    <2>1. Cardinality(Upto(i)) # 0
      BY <1>3, FS_EmptySet
    <2>2. place[i] = Cardinality(Upto(i))
      OBVIOUS
    <2> HIDE DEF Upto, place
    <2> QED BY <1>1, <1>3, <2>1, <2>2
  <1>5. \A i, j \in D : Less(i, j) => place[i] < place[j]
    <2> SUFFICES ASSUME NEW i \in D, NEW j \in D, Less(i, j)
                 PROVE  place[i] < place[j]
      OBVIOUS
    <2>1. Upto(i) \subseteq Upto(j) /\ j \notin Upto(i)
      BY <1>1
    <2>2. Upto(i) # Upto(j)
      BY <1>3, <2>1
    <2> HIDE DEF Upto
    <2> QED BY <1>3, <2>1, <2>2, FS_Subset
  <1>6. \A i, j \in D : i # j => Less(i, j) \/ Less(j, i)
    <2> TAKE i \in D, j \in D
    <2>1. i \in Int /\ j \in Int /\ s[i].diff \in Int /\ s[j].diff \in Int
      BY <1>1
    <2> QED BY <2>1
  <1> HIDE DEF Less
  <1>7. place \in Injection(D, D)
    <2>1. place \in [D -> D]
      BY <1>4
    <2>2. \A i, j \in D : place[i] = place[j] => i = j
      <3> SUFFICES ASSUME NEW i \in D, NEW j \in D, place[i] = place[j], i # j
                   PROVE  FALSE
        OBVIOUS
      <3>1. place[i] < place[j] \/ place[j] < place[i]
        BY <1>5, <1>6
      <3>2. place[i] \in Int /\ place[j] \in Int
        BY <1>1, <1>4
      <3> HIDE DEF place
      <3> QED BY <3>1, <3>2
    <2> HIDE DEF place
    <2> QED BY <2>1, <2>2 DEF Injection, IsInjective
  <1>8. place \in Surjection(D, D)
    BY <1>2, <1>7, FS_Injection
  <1> HIDE DEF place
  <1>9. \A k \in D : p[k] \in D /\ place[p[k]] = k
    <2> TAKE k \in D
    <2>1. \E i \in D : place[i] = k
      BY <1>8 DEF Surjection
    <2> QED BY <2>1
  <1>10. sort(s) = [k \in D |-> s[p[k]].diff]
    <2>1. sort(s) = [k \in D |-> s[at(k)].diff]
      BY DEF sort, place, D
    <2> HIDE DEF at
    <2>2. \A k \in D : p[k] = at(k)
      OBVIOUS
    <2> QED BY <2>1, <2>2
  <1> HIDE DEF p
  <1>11. p \in Injection(D, D)
    <2>1. p \in [D -> D]
      BY <1>9 DEF p
    <2> QED BY <1>9, <2>1 DEF Injection, IsInjective
  <1>12. \A j, k \in D : j =< k => s[p[j]].diff =< s[p[k]].diff
    <2> SUFFICES ASSUME NEW j \in D, NEW k \in D, j =< k, s[p[k]].diff < s[p[j]].diff
                 PROVE  FALSE
      BY <1>1, <1>9
    <2>1. Less(p[k], p[j])
      BY DEF Less
    <2>2. k < j
      BY <1>5, <1>9, <2>1
    <2> QED BY <1>1, <2>2
  <1> QED BY <1>1, <1>10, <1>11, <1>12

\* At least Len(s) - k + 1 of the offsets are no smaller than the one at place k,
\* and at least k are no larger.
LEMMA PlacesCount ==
  ASSUME NEW s \in Seq(Diffs), NEW k \in 1 .. Len(s),
         NEW S \in SUBSET (1 .. Len(s))
  PROVE  /\ sort(s)[k] \in Int
         /\ IsFiniteSet(S) /\ Cardinality(S) \in Nat
         /\ (\A i \in 1 .. Len(s) : s[i].diff >= sort(s)[k] => i \in S)
              => Len(s) - k + 1 =< Cardinality(S)
         /\ (\A i \in 1 .. Len(s) : s[i].diff =< sort(s)[k] => i \in S)
              => k =< Cardinality(S)
  <1> DEFINE D == 1 .. Len(s)
  <1>0. Len(s) \in Nat /\ k \in Int /\ \A i \in D : s[i] \in Diffs /\ s[i].diff \in Int
    <2>1. Len(s) \in Nat /\ \A i \in D : s[i] \in Diffs
      OBVIOUS
    <2> QED BY <2>1 DEF Diffs
  <1>1. PICK p \in Injection(D, D) :
           /\ sort(s) = [j \in D |-> s[p[j]].diff]
           /\ \A j, l \in D : j =< l => s[p[j]].diff =< s[p[l]].diff
    BY SortIsAPermutation
  <1>2. p \in [D -> D] /\ \A j, l \in D : p[j] = p[l] => j = l
    BY <1>1 DEF Injection, IsInjective
  <1>3. sort(s)[k] = s[p[k]].diff /\ sort(s)[k] \in Int
    BY <1>0, <1>1, <1>2
  <1>4. IsFiniteSet(S) /\ Cardinality(S) \in Nat
    <2>1. IsFiniteSet(D)
      BY <1>0, FS_Interval
    <2>2. IsFiniteSet(S)
      BY <2>1, FS_Subset
    <2> QED BY <2>2, FS_CardinalityType
  <1>5. ASSUME NEW T \in SUBSET D, \A j \in T : p[j] \in S
        PROVE  Cardinality(T) =< Cardinality(S)
    <2>1. [j \in T |-> p[j]] \in Injection(T, S)
      BY <1>2, <1>5 DEF Injection, IsInjective
    <2> QED BY <1>4, <2>1, FS_Injection
  <1>6. ASSUME \A i \in D : s[i].diff >= sort(s)[k] => i \in S
        PROVE  Len(s) - k + 1 =< Cardinality(S)
    <2>1. \A j \in k .. Len(s) : j \in D /\ p[j] \in S
      <3> TAKE j \in k .. Len(s)
      <3>1. j \in D /\ k =< j /\ p[j] \in D
        BY <1>0, <1>2
      <3>2. s[p[k]].diff =< s[p[j]].diff /\ s[p[j]].diff \in Int
        BY <1>0, <1>1, <3>1
      <3> QED BY <1>3, <1>6, <3>1, <3>2
    <2>2. Cardinality(k .. Len(s)) = Len(s) - k + 1
      <3>1. Len(s) \in Int /\ ~ k > Len(s)
        BY <1>0
      <3> QED BY <1>0, <3>1, FS_Interval
    <2> QED BY <1>5, <2>1, <2>2
  <1>7. ASSUME \A i \in D : s[i].diff =< sort(s)[k] => i \in S
        PROVE  k =< Cardinality(S)
    <2>1. \A j \in 1 .. k : j \in D /\ p[j] \in S
      <3> TAKE j \in 1 .. k
      <3>1. j \in D /\ j =< k /\ p[j] \in D
        BY <1>0, <1>2
      <3>2. s[p[j]].diff =< s[p[k]].diff /\ s[p[j]].diff \in Int
        BY <1>0, <1>1, <3>1
      <3> QED BY <1>3, <1>7, <3>1, <3>2
    <2>2. Cardinality(1 .. k) = k
      <3>1. 1 \in Int /\ k \in Int /\ ~ 1 > k /\ k - 1 + 1 = k
        BY <1>0
      <3>2. Cardinality(1 .. k) = IF 1 > k THEN 0 ELSE k - 1 + 1
        BY <3>1, FS_Interval
      <3> QED BY <3>1, <3>2
    <2> QED BY <1>5, <2>1, <2>2
  <1> QED BY <1>3, <1>4, <1>6, <1>7

\* Where enough of the offsets are fresh, those in the middle lie between fresh ones:
\* otherwise all on one side of them were stale, and these are too few.
LEMMA MiddleBetween ==
  ASSUME NEW s \in Seq(Diffs), Reliable(s), NEW lo \in Int, NEW hi \in Int,
         \A i \in 1 .. Len(s) : s[i].fresh => lo < s[i].diff /\ s[i].diff < hi,
         NEW k \in 1 .. Len(s),
         \/ k = Len(s) \div 2 + 1
         \/ Len(s) > 2 /\ k \in Len(s) \div 2 .. Len(s) \div 2 + 2
  PROVE  sort(s)[k] \in Int /\ lo < sort(s)[k] /\ sort(s)[k] < hi
  <1> DEFINE D == 1 .. Len(s)
             n == Len(s)
             S == {i \in D : ~ s[i].fresh}
             x == sort(s)[k]
  <1>1. n \in Nat /\ n > 0 /\ DOMAIN s = D
    OBVIOUS
  <1>2. Cardinality(S) = 0 \/ 2 * Cardinality(S) + 3 =< n
    BY <1>1 DEF Reliable
  <1>3. /\ x \in Int /\ Cardinality(S) \in Nat
        /\ (\A i \in D : s[i].diff >= x => i \in S) => n - k + 1 =< Cardinality(S)
        /\ (\A i \in D : s[i].diff =< x => i \in S) => k =< Cardinality(S)
    BY PlacesCount
  <1>4. \A i \in D : s[i].diff \in Int
    <2> TAKE i \in D
    <2>1. s[i] \in Diffs
      OBVIOUS
    <2> QED BY <2>1 DEF Diffs
  <1> DEFINE c == Cardinality(S)
  <1>5. \A i \in D : (x >= hi /\ s[i].diff >= x => i \in S) /\ (x =< lo /\ s[i].diff =< x => i \in S)
    BY <1>3, <1>4
  <1> HIDE DEF x, c, S
  <1>6. c \in Nat /\ (c = 0 \/ 2 * c + 3 =< n)
    BY <1>2, <1>3 DEF c
  <1>7. ~ x >= hi
    <2> SUFFICES ASSUME x >= hi PROVE FALSE
      OBVIOUS
    <2>1. n - k + 1 =< c
      BY <1>3, <1>5 DEF c
    <2> HIDE DEF n
    <2> QED BY <1>1, <1>6, <2>1 DEF n
  <1>8. ~ x =< lo
    <2> SUFFICES ASSUME x =< lo PROVE FALSE
      OBVIOUS
    <2>1. k =< c
      BY <1>3, <1>5 DEF c
    <2> QED BY <1>1, <1>6, <2>1
  <1> QED BY <1>3, <1>7, <1>8 DEF x

\* The median of s, six times, is within three times the bound on the fresh offsets.
LEMMA MedianBounded ==
  ASSUME NEW s \in Seq(Diffs), Reliable(s), NEW lo \in Int, NEW hi \in Int,
         \A i \in 1 .. Len(s) : s[i].fresh => lo < s[i].diff /\ s[i].diff < hi
  PROVE  median(s) \in Int /\ 3 * lo < median(s) /\ median(s) < 3 * hi
  <1> DEFINE n == Len(s)
             mid == n \div 2 + 1
             t == sort(s)
  <1>1. n \in Nat /\ n > 0 /\ mid \in 1 .. n
    BY DEF Reliable
  <1>2. t[mid] \in Int /\ lo < t[mid] /\ t[mid] < hi
    BY <1>1, MiddleBetween
  <1>3. CASE n \in 1 .. 2
    <2>1. median(s) = 3 * t[mid]
      BY <1>1, <1>3 DEF median
    <2> HIDE DEF t, mid
    <2> QED BY <1>2, <2>1
  <1>4. CASE n > 2
    <2>1. /\ mid - 1 \in 1 .. n /\ mid - 1 \in n \div 2 .. n \div 2 + 2
          /\ mid + 1 \in 1 .. n /\ mid + 1 \in n \div 2 .. n \div 2 + 2
      BY <1>1, <1>4
    <2>2. t[mid - 1] \in Int /\ lo < t[mid - 1] /\ t[mid - 1] < hi
      BY <1>4, <2>1, MiddleBetween
    <2>3. t[mid + 1] \in Int /\ lo < t[mid + 1] /\ t[mid + 1] < hi
      BY <1>4, <2>1, MiddleBetween
    <2>4. median(s) = t[mid - 1] + t[mid] + t[mid + 1]
      <3>1. Len(s) # 0 /\ Len(s) \notin 1 .. 2
        BY <1>1, <1>4
      <3> QED BY <3>1 DEF median
    <2> HIDE DEF t, mid
    <2> QED BY <1>2, <2>2, <2>3, <2>4
  <1>5. n \in 1 .. 2 \/ n > 2
    <2>1. n \in Nat /\ n > 0
      BY <1>1
    <2> HIDE DEF n
    <2> QED BY <2>1
  <1> QED BY <1>3, <1>4, <1>5

LEMMA EstimateClose ==
  ASSUME Inv, Reliable(diffs)
  PROVE  /\ diff_to_server \in Int
         /\ diff_to_server - 6 * offset < 3 * (RttLimit * Ms)
         /\ 6 * offset - diff_to_server < 3 * (RttLimit * Ms)
  <1> DEFINE R == RttLimit * Ms
             lo == 2 * offset - R
             hi == 2 * offset + R
  <1>1. diffs \in Seq(Diffs) /\ offset \in Int /\ R \in Int
    BY DEF Inv, TypeOK
  <1>2. \A i \in 1 .. Len(diffs) : diffs[i].fresh => lo < diffs[i].diff /\ diffs[i].diff < hi
    <2> SUFFICES ASSUME NEW i \in 1 .. Len(diffs), diffs[i].fresh
                 PROVE  lo < diffs[i].diff /\ diffs[i].diff < hi
      OBVIOUS
    <2>1. Close(diffs[i]) /\ diffs[i] \in Diffs
      BY <1>1 DEF Inv, DiffsOK
    <2>2. diffs[i].diff \in Int /\ diffs[i].diff - 2 * offset < R /\ 2 * offset - diffs[i].diff < R
      BY <2>1 DEF Close, Diffs
    <2> HIDE DEF R
    <2> QED BY <1>1, <2>2
  <1> HIDE DEF R
  <1>3. lo \in Int /\ hi \in Int
    BY <1>1
  <1>4. median(diffs) \in Int /\ 3 * lo < median(diffs) /\ median(diffs) < 3 * hi
    BY <1>1, <1>2, <1>3, MedianBounded
  <1> QED BY <1>1, <1>4 DEF diff_to_server, R

\* The time playThread goes by is behind the server's clock by less than half an
\* exchange and a millisecond, and ahead of it by half an exchange at most.
LEMMA ServerNowClose ==
  ASSUME Inv, Reliable(diffs)
  PROVE  /\ serverNow * Ms \in Int
         /\ serverNow * Ms - now =< (RttLimit * Ms) \div 2
         /\ now - serverNow * Ms < (RttLimit * Ms) \div 2 + Ms + 1
  <1> DEFINE R == RttLimit * Ms
             m == diff_to_server
             a == 6 * (now - offset) + m
             q == a \div (6 * Ms)
  <1>1. now \in Int /\ offset \in Int /\ R \in Int
    BY DEF Inv, TypeOK
  <1>2. m \in Int /\ m - 6 * offset < 3 * R /\ 6 * offset - m < 3 * R
    BY EstimateClose
  <1> HIDE DEF m
  <1>3. a \in Int /\ a = 6 * now + (m - 6 * offset)
    BY <1>1, <1>2
  <1>4. serverNow = q
    BY DEF serverNow, clientNow, m
  <1> HIDE DEF a
  <1>5. q \in Int /\ (6 * Ms) * q =< a /\ a < (6 * Ms) * q + 6 * Ms
    BY <1>3
  <1> HIDE DEF q
  <1>6. (6 * Ms) * q = 6 * (q * Ms) /\ q * Ms \in Int
    BY <1>5
  <1> DEFINE qm == q * Ms
             h == R \div 2
  <1>7. h \in Int /\ R =< 2 * h + 1
    BY <1>1
  <1> HIDE DEF R, h, qm
  <1>8. qm \in Int /\ 6 * qm =< a /\ a < 6 * qm + 6 * Ms
    BY <1>5, <1>6 DEF qm
  <1>9. 2 * (qm - now) < R /\ 2 * (now - qm) < R + 2 * Ms
    BY <1>1, <1>2, <1>3, <1>8
  <1>10. qm - now =< h /\ now - qm < h + Ms + 1
    BY <1>1, <1>7, <1>8, <1>9
  <1> QED BY <1>4, <1>8, <1>10 DEF qm, h, R

\* While enough of the offsets are fresh, the estimate of the server's clock is off
\* by less than half the limit on a round trip, for every sequence of offsets:
\* DiffHandler.h:48-76, DoubleBuffer.h:53-74.
THEOREM EstimateIsBounded == Spec => []EstimateBounded
  <1>1. Inv => EstimateBounded
    <2> SUFFICES ASSUME Inv, Reliable(diffs)
                 PROVE  /\ diff_to_server - 6 * offset < 3 * RttLimit * Ms
                        /\ - (diff_to_server - 6 * offset) < 3 * RttLimit * Ms
      BY DEF EstimateBounded
    <2>1. 3 * RttLimit * Ms = 3 * (RttLimit * Ms) /\ RttLimit * Ms \in Int /\ offset \in Int
      BY DEF Inv, TypeOK
    <2> QED BY <2>1, EstimateClose
  <1> QED BY <1>1, Invariance, PTL

LEMMA AgeClose ==
  ASSUME Inv, Reliable(diffs), play # "read"
  PROVE  /\ age \in Int /\ TrueAge \in Int /\ Skew \in Int
         /\ TrueAge =< age + Skew /\ TrueAge >= age - Skew
  <1> DEFINE s == serverNow * Ms
             h == (RttLimit * Ms) \div 2
  <1>1. chunk \in Int /\ now \in Int
    BY DEF Inv, TypeOK
  <1>2. s \in Int /\ s - now =< h /\ now - s < h + Ms + 1
    BY ServerNowClose
  <1>3. h \in Int
    OBVIOUS
  <1>4. age = s - chunk - Cache /\ Skew = h + Ms /\ TrueAge = now - chunk - Cache
    BY DEF age, Skew, TrueAge
  <1> HIDE DEF s, h
  <1> QED BY <1>1, <1>2, <1>3, <1>4

LEMMA VerdictSteps ==
  ASSUME [Next]_vars, verdict' # verdict
  PROVE  (verdict' = "played" => playPcm) /\ (verdict' = "discarded" => discard)
  BY DEF Next, vars, player, playThread, sendRequest, serverRecv, serverReply, recvHeader,
         recvTime, clearDiff, readChunk, known, playPcm, discard, wait, finish, tick, setClock

LEMMA PlayedIsDue ==
  ASSUME Inv, [Next]_vars, verdict # "played", verdict' = "played", Reliable(diffs)
  PROVE  TrueAge =< Window + Skew /\ TrueAge >= - Window - Skew
  <1>1. play = "age" /\ - Window =< age /\ age =< Window
    BY VerdictSteps DEF playPcm, due
  <1> QED BY <1>1, AgeClose

LEMMA DiscardedIsLate ==
  ASSUME Inv, [Next]_vars, verdict # "discarded", verdict' = "discarded", Reliable(diffs)
  PROVE  TrueAge > Window - Skew
  <1>1. play = "age" /\ age > Window
    BY VerdictSteps DEF discard, old
  <1>2. TrueAge >= age - Skew /\ TrueAge \in Int /\ age \in Int /\ Skew \in Int
    BY <1>1, AgeClose
  <1> QED BY <1>1, <1>2

\* A chunk is played when it is due by the server's clock, give or take the error of
\* the estimate and the rounding (TcpClient.cpp:493-505, Stream.cpp:67-76).
THEOREM PlayedInSync == Spec => PlaysInSync
  <1>1. Inv /\ [Next]_vars =>
          [verdict # "played" /\ verdict' = "played" /\ Reliable(diffs) =>
             TrueAge =< Window + Skew /\ TrueAge >= - Window - Skew]_vars
    BY PlayedIsDue
  <1> QED BY <1>1, Invariance, PTL DEF Spec, PlaysInSync

\* A chunk is given up only when it is late by the server's clock
\* (TcpClient.cpp:506-512, Stream.cpp:77-85).
THEOREM GivenUpLate == Spec => DiscardsLate
  <1>1. Inv /\ [Next]_vars =>
          [verdict # "discarded" /\ verdict' = "discarded" /\ Reliable(diffs) =>
             TrueAge > Window - Skew]_vars
    BY DiscardedIsLate
  <1> QED BY <1>1, Invariance, PTL DEF Spec, DiscardsLate
=============================================================================
