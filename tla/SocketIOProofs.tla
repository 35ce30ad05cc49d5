--------------------------- MODULE SocketIOProofs ---------------------------
(* Proofs about SocketIO, for every length of messages, pieces and buffers. *)
EXTENDS SocketIO, TLAPS

Count == Len(msgs)

\* The messages lie in the stream one after the other.
Tiled ==
  /\ \A k \in 1 .. Count : msgs[k].len > HeadLen
  /\ \A k \in 1 .. Count : msgs[k].at = End(k - 1)
  /\ \A j, k \in 1 .. Count : j < k => End(j) <= msgs[k].at

\* What is written ends in the last message, and at its end unless a sender
\* is in the middle of it or the connection broke.
Written ==
  /\ Count = 0 => wpos = 0
  /\ Count > 0 => msgs[Count].at < wpos /\ wpos <= End(Count)
  /\ mutex # "free" =>
       /\ msgLen \in Nat /\ msgLen > HeadLen /\ Offset < msgLen
       /\ timed => Offset = 0 /\ msgLen <= Piece
       /\ Offset > 0 => /\ Count > 0
                        /\ msgs[Count].len = msgLen
                        /\ wpos = msgs[Count].at + Offset
  /\ conn = "up" /\ (mutex = "free" \/ Offset = 0) => wpos = End(Count)

\* The client's processThread is inside the message it is due.
Read ==
  /\ reader # "bad"
  /\ taken <= Count
  /\ ~ torn => frame = End(taken)
  /\ rpos <= wpos
  /\ reader = "header" => need = HeadLen /\ got < HeadLen
  /\ reader = "body" => /\ taken < Count
                        /\ need = msgs[taken + 1].len
                        /\ HeadLen <= got /\ got < need
                        /\ ~ torn
  /\ torn => conn = "eof" /\ reader \in {"header", "ended"} /\ got = 0

Inv == TypeOK /\ Tiled /\ Written /\ Read

LEMMA ElementFacts ==
  ASSUME NEW S, NEW s \in Seq(S)
  PROVE  Len(s) \in Nat /\ \A k \in 1 .. Len(s) : s[k] \in S
  OBVIOUS

LEMMA MsgFacts ==
  ASSUME TypeOK
  PROVE  /\ Count \in Nat
         /\ \A k \in 1 .. Count : msgs[k].at \in Nat /\ msgs[k].len \in Nat
         /\ \A k \in 0 .. Count : End(k) \in Nat
<1>0. msgs \in Seq([at : Nat, len : Nat])
  BY DEF TypeOK
<1>1. Count \in Nat /\ \A k \in 1 .. Count : msgs[k] \in [at : Nat, len : Nat]
  BY <1>0, ElementFacts DEF Count
<1> HIDE DEF Count
<1>2. \A k \in 1 .. Count : msgs[k].at \in Nat /\ msgs[k].len \in Nat
  BY <1>1
<1> QED BY <1>1, <1>2 DEF End

LEMMA AppendFacts ==
  ASSUME NEW S, NEW s \in Seq(S), NEW e \in S
  PROVE  /\ Append(s, e) \in Seq(S)
         /\ Len(Append(s, e)) = Len(s) + 1
         /\ Append(s, e)[Len(s) + 1] = e
         /\ \A i \in 1 .. Len(s) : Append(s, e)[i] = s[i]
  OBVIOUS

LEMMA AppendMsg ==
  ASSUME TypeOK, NEW m \in [at : Nat, len : Nat], msgs' = Append(msgs, m)
  PROVE  /\ msgs' \in Seq([at : Nat, len : Nat])
         /\ Count' = Count + 1
         /\ msgs'[Count + 1] = m
         /\ \A k \in 1 .. Count : msgs'[k] = msgs[k]
<1>1. msgs \in Seq([at : Nat, len : Nat])
  BY DEF TypeOK
<1> QED BY <1>1, AppendFacts DEF Count

LEMMA LengthFacts ==
  ASSUME TypeOK, NEW t \in Threads, NEW n \in Lengths(t)
  PROVE  /\ n \in Nat /\ n > HeadLen
         /\ t = "eachSend" /\ protocol = "MP2_DATA" => n <= Piece
  BY PieceAssumption, Mp2Assumption, FlacAssumption, ReplyAssumption
     DEF Lengths, Threads, TypeOK

LEMMA InitInv == Init => Inv
<1> SUFFICES ASSUME Init PROVE Inv
  OBVIOUS
<1> USE PieceAssumption, LimitAssumption
<1>1. TypeOK
  <2>1. << >> \in Seq([at : Nat, len : Nat])
    OBVIOUS
  <2>2. HeadLen \in Nat /\ 0 \in 0 .. PollLimit - 1
    OBVIOUS
  <2>3. msgs \in Seq([at : Nat, len : Nat])
    BY <2>1 DEF Init
  <2> QED BY <2>2, <2>3 DEF Init, TypeOK, Threads
<1>2. Count = 0
  BY DEF Init, Count
<1>3. Tiled
  BY <1>2 DEF Tiled
<1>4. Written
  BY <1>2 DEF Init, Written, End
<1>5. Read
  BY <1>2 DEF Init, Read, End, rpos
<1> QED BY <1>1, <1>3, <1>4, <1>5 DEF Inv

\* A thread begins to send, or a sender gives up or fails.
LEMMA StartStep ==
  ASSUME Inv, NEW t \in Threads, start(t)
  PROVE  Inv'
<1> USE DEF receiving
<1>1. msgLen' \in Nat /\ msgLen' > HeadLen
      /\ (t = "eachSend" /\ protocol = "MP2_DATA" => msgLen' <= Piece)
  BY LengthFacts DEF Inv, start
<1>2. TypeOK'
  BY <1>1, LimitAssumption DEF Inv, TypeOK, start
<1>3. Count' = Count /\ \A k : End(k)' = End(k)
  BY DEF start, Count, End
<1>4. Tiled'
  BY <1>3 DEF Inv, Tiled, start
<1>5. Written'
  BY <1>1, <1>3, PieceAssumption DEF Inv, Written, start, timed, Threads
<1>6. Read'
  BY <1>3 DEF Inv, Read, start, rpos
<1> QED BY <1>2, <1>4, <1>5, <1>6 DEF Inv

LEMMA GiveUpStep ==
  ASSUME Inv, poll \/ sendFails
  PROVE  Inv'
<1> USE DEF receiving
<1>1. TypeOK'
  BY LimitAssumption, SMTT(30) DEF Inv, TypeOK, poll, sendFails
<1>2. Count' = Count /\ \A k : End(k)' = End(k)
  BY DEF poll, sendFails, Count, End
<1>3. Tiled'
  BY <1>2 DEF Inv, Tiled, poll, sendFails
<1>4. Written'
  BY <1>2 DEF Inv, Written, poll, sendFails, timed
<1>5. Read'
  BY <1>2 DEF Inv, Read, poll, sendFails, rpos
<1> QED BY <1>1, <1>3, <1>4, <1>5 DEF Inv

\* What is written grows, by a piece that belongs to the last message.
LEMMA SendStep ==
  ASSUME Inv, sendPiece
  PROVE  Inv'
<1> USE DEF receiving
<1>1. /\ msgLen \in Nat /\ msgLen > HeadLen /\ Offset \in Nat /\ Offset < msgLen
      /\ wpos \in Nat /\ conn = "up" /\ mutex \in Threads
  BY DEF Inv, TypeOK, Written, sendPiece
<1>2. /\ SendSize \in Nat /\ SendSize > 0 /\ Offset + SendSize <= msgLen
      /\ msgLen <= Piece /\ Offset = 0 => SendSize = msgLen
  BY <1>1, PieceAssumption DEF SendSize
<1>3. /\ wpos' = wpos + SendSize /\ Offset' = Offset + SendSize
      /\ mutex' = IF Offset' = msgLen THEN "free" ELSE mutex
      /\ msgLen' = msgLen /\ conn' = conn /\ protocol' = protocol
  BY DEF sendPiece
<1>4. /\ Count \in Nat
      /\ \A k \in 1 .. Count : msgs[k].at \in Nat /\ msgs[k].len \in Nat
      /\ \A k \in 0 .. Count : End(k) \in Nat
  BY MsgFacts DEF Inv
<1>5. CASE Offset = 0
  <2> DEFINE m == [at |-> wpos, len |-> msgLen]
  <2>1. m \in [at : Nat, len : Nat] /\ m.at = wpos /\ m.len = msgLen
    BY <1>1
  <2>2. msgs' = Append(msgs, m)
    BY <1>5 DEF sendPiece
  <2> HIDE DEF m
  <2>3. /\ msgs' \in Seq([at : Nat, len : Nat])
        /\ Count' = Count + 1
        /\ msgs'[Count + 1] = m
        /\ \A k \in 1 .. Count : msgs'[k] = msgs[k]
    BY <2>1, <2>2, AppendMsg DEF Inv
  <2>4. wpos = End(Count)
    BY <1>1, <1>5 DEF Inv, Written
  <2>5. TypeOK'
    BY <1>1, <1>2, <1>3, <2>3 DEF Inv, TypeOK, sendPiece
  <2>6. \A k \in 0 .. Count : End(k)' = End(k)
    BY <1>4, <2>3, SMTT(30) DEF End
  <2>7. \A k : k = Count + 1 => End(k)' = wpos + msgLen
    BY <1>4, <2>1, <2>3 DEF End
  <2>8. Tiled'
    <3>1. \A k \in 1 .. Count' : msgs'[k].len > HeadLen
      <4> TAKE k \in 1 .. Count'
      <4>1. CASE k = Count + 1
        BY <4>1, <1>1, <2>1, <2>3
      <4>2. CASE k \in 1 .. Count
        BY <4>2, <2>3 DEF Inv, Tiled
      <4> QED BY <4>1, <4>2, <2>3, <1>4
    <3>2. \A k \in 1 .. Count' : msgs'[k].at = End(k - 1)'
      <4> TAKE k \in 1 .. Count'
      <4>1. CASE k = Count + 1
        BY <4>1, <1>4, <2>1, <2>3, <2>4, <2>6
      <4>2. CASE k \in 1 .. Count
        <5>1. msgs[k].at = End(k - 1) /\ k - 1 \in 0 .. Count
          BY <4>2, <1>4 DEF Inv, Tiled
        <5> QED BY <5>1, <4>2, <2>3, <2>6
      <4> QED BY <4>1, <4>2, <2>3, <1>4
    <3>3. \A j, k \in 1 .. Count' : j < k => End(j)' <= msgs'[k].at
      <4> SUFFICES ASSUME NEW j \in 1 .. Count', NEW k \in 1 .. Count', j < k
                   PROVE  End(j)' <= msgs'[k].at
        OBVIOUS
      <4>1. j \in 1 .. Count /\ j \in 0 .. Count
        BY <2>3, <1>4
      <4>2. CASE k = Count + 1
        <5>1. End(j) <= End(Count)
          <6>1. CASE j = Count
            BY <6>1, <1>4
          <6>2. CASE j # Count
            <7>1. j < Count /\ Count \in 1 .. Count
              BY <6>2, <4>1, <1>4
            <7>2. End(j) <= msgs[Count].at /\ End(Count) = msgs[Count].at + msgs[Count].len
              BY <7>1, <4>1 DEF Inv, Tiled, End
            <7> QED BY <7>1, <7>2, <4>1, <1>4
          <6> QED BY <6>1, <6>2
        <5> QED BY <5>1, <4>1, <4>2, <2>1, <2>3, <2>4, <2>6
      <4>3. CASE k \in 1 .. Count
        <5>1. End(j) <= msgs[k].at
          BY <4>1, <4>3 DEF Inv, Tiled
        <5> QED BY <5>1, <4>1, <4>3, <2>3, <2>6
      <4> QED BY <4>2, <4>3, <2>3, <1>4
    <3> QED BY <3>1, <3>2, <3>3 DEF Tiled
  <2>9. Written'
    <3>1. Count' > 0 /\ msgs'[Count'].at = wpos /\ msgs'[Count'].len = msgLen
      BY <1>4, <2>1, <2>3
    <3>2. timed' => Offset' = msgLen
      BY <1>2, <1>3, <1>5 DEF Inv, Written, timed, Threads, sendPiece
    <3>3. Offset' = SendSize
      BY <1>2, <1>3, <1>5
    <3>4. mutex' # "free" => Offset' # msgLen
      BY <1>3
    <3>5. End(Count)' = wpos + msgLen
      BY <3>1, <1>1, <1>4, <2>3 DEF End
    <3>6. Count' \in Nat /\ msgLen' \in Nat
      BY <1>1, <1>3, <1>4, <2>3
    <3>7. (mutex' = "free" \/ Offset' = 0) => Offset' = msgLen
      BY <1>1, <1>2, <1>3, <3>3 DEF Threads
    <3> QED BY <1>1, <1>2, <1>3, <3>1, <3>2, <3>3, <3>4, <3>5, <3>6, <3>7 DEF Written
  <2>10. Read'
    <3>1. reader' = reader /\ taken' = taken /\ torn' = torn /\ frame' = frame
          /\ got' = got /\ need' = need /\ ~ torn
      BY <1>1 DEF sendPiece, Inv, Read
    <3>2. taken \in 0 .. Count /\ frame = End(taken)
      BY <1>4, <3>1 DEF Inv, Read, TypeOK
    <3>3. reader = "body" => msgs'[taken + 1] = msgs[taken + 1] /\ taken < Count
      BY <3>2, <1>4, <2>3 DEF Inv, Read
    <3>6. End(taken)' = IF taken' = 0 THEN 0 ELSE msgs'[taken'].at + msgs'[taken'].len
      BY DEF End
    <3>7. taken' <= Count'
      BY <3>1, <3>2, <2>3, <1>4
    <3>5. frame' = IF taken' = 0 THEN 0 ELSE msgs'[taken'].at + msgs'[taken'].len
      <4>1. taken # 0 => taken \in 1 .. Count
        BY <3>2, <1>4
      <4> QED BY <4>1, <3>1, <3>2, <2>3 DEF End
    <3>4. rpos' <= wpos'
      BY <3>1, <1>1, <1>2, <1>3 DEF Inv, Read, TypeOK, rpos
    <3>8. frame' = End(taken)'
      BY <3>5, <3>6
    <3>9. /\ reader' # "bad"
          /\ reader' = "header" => need' = HeadLen /\ got' < HeadLen
          /\ reader' = "body" => /\ need' = msgs'[taken' + 1].len
                               /\ HeadLen <= got' /\ got' < need'
      BY <3>1, <3>3 DEF Inv, Read
    <3>10. reader' = "body" => taken' < Count'
      BY <3>1, <3>2, <3>3, <2>3, <1>4
    <3> QED BY <3>1, <3>4, <3>7, <3>8, <3>9, <3>10 DEF Read
  <2> QED BY <2>5, <2>8, <2>9, <2>10 DEF Inv
<1>6. CASE Offset > 0
  <2>1. msgs' = msgs /\ Count' = Count /\ \A k : End(k)' = End(k)
    BY <1>6, <1>1 DEF sendPiece, Count, End
  <2>2. TypeOK'
    BY <1>1, <1>2, <1>3, <2>1 DEF Inv, TypeOK, sendPiece
  <2>3. Tiled'
    BY <2>1 DEF Inv, Tiled
  <2>4. Count > 0 /\ msgs[Count].len = msgLen /\ wpos = msgs[Count].at + Offset
        /\ ~ timed
    BY <1>6, <1>1 DEF Inv, Written, Threads
  <2>5. End(Count) = msgs[Count].at + msgLen /\ msgs[Count].at \in Nat
    BY <2>4, <1>4 DEF End
  <2>6. Written'
    <3>1. ~ timed'
      BY <2>4, <1>3 DEF timed, Threads
    <3>2. End(Count)' = End(Count)
      BY <2>1 DEF End
    <3>3. (mutex' = "free" \/ Offset' = 0) => Offset' = msgLen
      BY <1>1, <1>2, <1>3, <1>6 DEF Threads
    <3> QED BY <1>1, <1>2, <1>3, <2>1, <2>4, <2>5, <3>1, <3>2, <3>3 DEF Written
  <2>7. Read'
    <3>1. rpos' <= wpos'
      BY <1>1, <1>2, <1>3 DEF Inv, Read, TypeOK, rpos, sendPiece
    <3> QED BY <3>1, <2>1, <1>3 DEF Inv, Read, sendPiece
  <2> QED BY <2>2, <2>3, <2>6, <2>7 DEF Inv
<1> QED BY <1>1, <1>5, <1>6

\* A header is only ever read at the beginning of the message that is due.
LEMMA HeaderStep ==
  ASSUME Inv, NEW n \in 1 .. Piece, recvHeader(n)
  PROVE  Inv'
<1> USE DEF sending
<1>1. Count' = Count /\ \A k : End(k)' = End(k)
  BY DEF recvHeader, Count, End
<1>2. /\ Count \in Nat
      /\ \A k \in 1 .. Count : msgs[k].at \in Nat /\ msgs[k].len \in Nat
      /\ \A k \in 0 .. Count : End(k) \in Nat
  BY MsgFacts DEF Inv
<1>3. /\ reader = "header" /\ need = HeadLen /\ got \in Nat /\ got < HeadLen
      /\ n \in Nat /\ n > 0 /\ got' = got + n /\ got' <= HeadLen /\ ~ torn
      /\ frame = End(taken) /\ frame \in Nat /\ wpos \in Nat
      /\ frame + got' <= wpos /\ taken \in 0 .. Count
  <2>1. reader = "header" /\ got' = got + n /\ conn # "eof" /\ n <= wpos - rpos
        /\ n <= need - got
    BY DEF recvHeader, recvPart
  <2>2. got \in Nat /\ frame \in Nat /\ wpos \in Nat /\ taken \in Nat
    BY DEF Inv, TypeOK
  <2>3. need = HeadLen /\ got < HeadLen /\ ~ torn /\ frame = End(taken) /\ taken <= Count
    BY <2>1 DEF Inv, Read
  <2>4. n \in Nat /\ n > 0 /\ HeadLen \in Nat
    BY PieceAssumption
  <2> QED BY <1>2, <2>1, <2>2, <2>3, <2>4 DEF rpos
<1>4. taken < Count
  <2> SUFFICES ASSUME taken = Count PROVE FALSE
    BY <1>2, <1>3
  <2>1. wpos <= End(Count)
    BY <1>2 DEF Inv, Written, End
  <2> QED BY <2>1, <1>2, <1>3
<1> DEFINE d == taken + 1
<1>5. d \in 1 .. Count /\ d - 1 = taken /\ msgs[d].at = frame /\ msgs[d].len > HeadLen
  <2>1. d \in 1 .. Count /\ d - 1 = taken
    BY <1>2, <1>3, <1>4
  <2>2. msgs[d].at = End(d - 1) /\ msgs[d].len > HeadLen
    BY <2>1 DEF Inv, Tiled
  <2> QED BY <2>1, <2>2, <1>3
<1> HIDE DEF d
<1>6. ASSUME NEW k \in 1 .. Count, msgs[k].at = frame PROVE k = d
  <2>0. /\ End(k) = msgs[k].at + msgs[k].len /\ End(d) = msgs[d].at + msgs[d].len
        /\ msgs[k].len > HeadLen
    BY <1>5, <1>6 DEF End, Inv, Tiled
  <2>1. ~ (k < d)
    <3>1. k < d => End(k) <= msgs[d].at
      BY <1>5, <1>6 DEF Inv, Tiled
    <3> QED BY <3>1, <2>0, <1>2, <1>3, <1>5, <1>6, PieceAssumption
  <2>2. ~ (d < k)
    <3>1. d < k => End(d) <= msgs[k].at
      BY <1>5, <1>6 DEF Inv, Tiled
    <3> QED BY <3>1, <2>0, <1>2, <1>3, <1>5, <1>6, PieceAssumption
  <2> QED BY <2>1, <2>2, <1>2, <1>5, <1>6
<1>7. IF got' < HeadLen THEN reader' = reader /\ need' = need
      ELSE reader' = "body" /\ need' = msgs[d].len /\ got' = HeadLen
  <2>1. CASE got' < HeadLen
    BY <2>1 DEF recvHeader
  <2>2. CASE ~ (got' < HeadLen)
    <3>1. got' = HeadLen
      BY <2>2, <1>3, PieceAssumption
    <3>2. PICK k \in 1 .. Count : msgs[k].at = frame /\ need' = msgs[k].len /\ reader' = "body"
      BY <2>2, <1>5 DEF recvHeader, Count
    <3>3. k = d
      BY <3>2, <1>6
    <3> QED BY <2>2, <3>1, <3>2, <3>3
  <2> QED BY <2>1, <2>2
<1>8. TypeOK'
  <2>1. reader' \in {"header", "body"} /\ need' \in Nat /\ got' \in Nat
    BY <1>2, <1>3, <1>5, <1>7, PieceAssumption
  <2> QED BY <2>1 DEF Inv, TypeOK, recvHeader
<1>9. Tiled'
  BY <1>1 DEF Inv, Tiled, recvHeader
<1>10. Written'
  BY <1>1 DEF Inv, Written, recvHeader, timed
<1>11. Read'
  BY <1>1, <1>3, <1>4, <1>5, <1>7, PieceAssumption, SMTT(30) DEF Read, recvHeader, rpos, d
<1> QED BY <1>8, <1>9, <1>10, <1>11 DEF Inv

LEMMA BodyStep ==
  ASSUME Inv, NEW n \in 1 .. Piece, recvBody(n)
  PROVE  Inv'
<1> USE DEF sending
<1>1. Count' = Count /\ \A k : End(k)' = End(k)
  BY DEF recvBody, Count, End
<1>2. /\ Count \in Nat
      /\ \A k \in 1 .. Count : msgs[k].at \in Nat /\ msgs[k].len \in Nat
      /\ \A k \in 0 .. Count : End(k) \in Nat
  BY MsgFacts DEF Inv
<1> DEFINE d == taken + 1
<1>3. /\ reader = "body" /\ got \in Nat /\ HeadLen <= got /\ got + n <= need
      /\ n \in Nat /\ frame + got + n <= wpos /\ frame \in Nat /\ wpos \in Nat
      /\ frame = End(taken) /\ taken \in Nat /\ d \in 1 .. Count
      /\ need = msgs[d].len /\ need \in Nat /\ ~ torn
  BY PieceAssumption, <1>2 DEF recvBody, recvPart, Inv, Read, TypeOK, rpos
<1>4. End(d) = frame + need
  <2>1. msgs[d].at = End(d - 1) /\ d - 1 = taken
    BY <1>3 DEF Inv, Tiled
  <2> QED BY <2>1, <1>3 DEF End
<1>5. Tiled'
  BY <1>1 DEF Inv, Tiled, recvBody
<1>6. Written'
  BY <1>1 DEF Inv, Written, recvBody, timed
<1>7. CASE got + n < need
  <2>1. TypeOK'
    <3>1. got' \in Nat /\ UNCHANGED <<reader, frame, need, taken>>
      BY <1>3, <1>7 DEF recvBody
    <3> QED BY <3>1 DEF Inv, TypeOK, recvBody
  <2>2. Read'
    BY <1>1, <1>3, <1>7, PieceAssumption DEF Inv, Read, recvBody, rpos
  <2> QED BY <2>1, <2>2, <1>5, <1>6 DEF Inv
<1>8. CASE ~ (got + n < need)
  <2>1. TypeOK'
    <3>1. /\ reader' = "header" /\ frame' \in Nat /\ got' \in Nat
          /\ need' \in Nat /\ taken' \in Nat
      BY <1>3, <1>8, PieceAssumption DEF recvBody
    <3> QED BY <3>1 DEF Inv, TypeOK, recvBody
  <2>2. /\ reader' = "header" /\ frame' = frame + need /\ got' = 0 /\ need' = HeadLen
        /\ taken' = d /\ torn' = torn /\ wpos' = wpos /\ conn' = conn
    BY <1>8 DEF recvBody
  <2>3. frame' + got' <= wpos'
    BY <1>3, <1>8, <2>2
  <2>4. taken' <= Count'
    BY <1>1, <1>2, <1>3, <2>2
  <2>5. frame' = msgs'[taken'].at + msgs'[taken'].len /\ taken' # 0
    BY <1>3, <1>4, <2>2 DEF End, recvBody
  <2> HIDE DEF d
  <2>6. Read'
    BY <1>1, <1>3, <2>2, <2>3, <2>4, <2>5, PieceAssumption DEF Read, rpos, End
  <2> QED BY <2>1, <2>6, <1>5, <1>6 DEF Inv
<1> QED BY <1>7, <1>8

\* The client finds the end of the connection, or it breaks, or the client
\* stops reading.
LEMMA EndStep ==
  ASSUME Inv, recvTimeout \/ recvEnd \/ break \/ stop
  PROVE  Inv'
<1> USE DEF sending, receiving
<1>1. Count' = Count /\ \A k : End(k)' = End(k)
  BY DEF recvTimeout, recvEnd, break, stop, Count, End
<1>2. TypeOK'
  <2>1. CASE recvTimeout
    BY <2>1 DEF Inv, TypeOK, recvTimeout
  <2>2. CASE recvEnd
    <3>1. frame + got \in Nat /\ HeadLen \in Nat
      BY PieceAssumption DEF Inv, TypeOK
    <3>2. reader' \in {"header", "ended"} /\ torn' \in BOOLEAN
          /\ frame' \in Nat /\ got' \in Nat /\ need' \in Nat
      <4>1. CASE reader' = "header"
        BY <2>2, <3>1, <4>1 DEF recvEnd, rpos
      <4>2. CASE reader' = "ended"
        BY <2>2, <4>2 DEF Inv, TypeOK, recvEnd
      <4> QED BY <2>2, <4>1, <4>2 DEF recvEnd
    <3> QED BY <2>2, <3>2 DEF Inv, TypeOK, recvEnd
  <2>3. CASE break \/ stop
    BY <2>3 DEF Inv, TypeOK, break, stop
  <2> QED BY <2>1, <2>2, <2>3
<1>3. Tiled'
  BY <1>1 DEF Inv, Tiled, recvTimeout, recvEnd, break, stop
<1>4. Written'
  BY <1>1 DEF Inv, Written, recvTimeout, recvEnd, break, stop, timed
<1>5. Read'
  <2>1. CASE recvTimeout
    BY <2>1, <1>1 DEF Inv, Read, recvTimeout, rpos
  <2>2. CASE recvEnd
    <3>1. CASE reader' = "header"
      BY <2>2, <3>1, <1>1, PieceAssumption DEF Inv, Read, TypeOK, recvEnd, rpos
    <3>2. CASE reader' = "ended"
      BY <2>2, <3>2, <1>1 DEF Inv, Read, recvEnd, rpos
    <3> QED BY <2>2, <3>1, <3>2 DEF recvEnd
  <2>3. CASE break \/ stop
    BY <2>3, <1>1 DEF Inv, Read, break, stop, rpos
  <2> QED BY <2>1, <2>2, <2>3
<1> QED BY <1>2, <1>3, <1>4, <1>5 DEF Inv

LEMMA StutterStep ==
  ASSUME Inv, UNCHANGED vars
  PROVE  Inv'
<1> USE DEF vars, sending, receiving
<1>1. Count' = Count /\ \A k : End(k)' = End(k)
  BY DEF Count, End
<1>2. TypeOK'
  BY DEF Inv, TypeOK
<1>3. Tiled'
  BY <1>1 DEF Inv, Tiled
<1>4. Written' /\ Read'
  BY <1>1 DEF Inv, Written, Read, timed, rpos
<1> QED BY <1>2, <1>3, <1>4 DEF Inv

LEMMA NextStep == Inv /\ [Next]_vars => Inv'
  BY StartStep, GiveUpStep, SendStep, HeaderStep, BodyStep, EndStep, StutterStep
     DEF Next, send, receive

THEOREM Invariance == Spec => []Inv
  BY InitInv, NextStep, PTL DEF Spec

\* The type invariant, which includes that a send counts fewer polls than its
\* limit.
THEOREM TypeCorrect == Spec => []TypeOK
  BY Invariance, PTL DEF Inv

\* A client takes every message, in order, and never reads a header where
\* none is, for every length of pieces and messages, as long as an MP2
\* message is one piece (common.c:275-314).
THEOREM FramingHolds == Spec => []InFrame
<1>1. Inv => InFrame
  BY DEF Inv, Read, InFrame, Count
<1> QED BY Invariance, <1>1, PTL

\* Nothing is dispatched after an incomplete message (TcpClient.cpp:303).
THEOREM NothingAfterTorn == Spec => TornIsLast
<1>1. Inv /\ [Next]_vars =>
        [torn => torn' /\ taken' = taken /\ reader' \in {reader, "ended"}]_vars
  <2> SUFFICES ASSUME Inv, [Next]_vars, torn
               PROVE  torn' /\ taken' = taken /\ reader' \in {reader, "ended"}
    OBVIOUS
  <2>1. conn = "eof" /\ reader \in {"header", "ended"}
    BY DEF Inv, Read
  <2> QED BY <2>1 DEF Next, send, receive, start, sendPiece, poll, sendFails,
                      recvHeader, recvBody, recvPart, recvTimeout, recvEnd,
                      break, stop, vars, sending, receiving
<1> QED BY Invariance, <1>1, PTL DEF Spec, TornIsLast
=============================================================================
