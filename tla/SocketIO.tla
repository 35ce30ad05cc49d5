------------------------------ MODULE SocketIO ------------------------------
(***************************************************************************)
(* Messages over one connection from the server to a client, in pieces     *)
(* (MyRoomCast/utils/src/common.c; TcpServer.cpp and TcpClient.cpp call    *)
(* it).  The two threads of the server that write to the socket take turns *)
(* by the slot's mutex.  socket_send waits for room in the socket without  *)
(* an end; socket_send_timeout gives up after PollLimit polls, and its     *)
(* caller goes on with the next message as if nothing had been sent.  The  *)
(* client reads a header, with a time-out, and as many bytes more as it    *)
(* says, without one.                                                      *)
(*                                                                         *)
(* Bytes are counted, not kept: msgs says where in the stream each message *)
(* begins and how long it is, wpos and rpos how much was written and read. *)
(***************************************************************************)
EXTENDS Integers, Sequences

CONSTANTS
  Piece,       \* what one send or recv moves at most (1024)
  HeadLen,     \* sizeof(Msg_Head)
  Mp2Lens,     \* lengths of MP2 messages: a header, a Data_Info, up to 852 bytes
  FlacLens,    \* lengths of FLAC messages
  ReplyLen,    \* length of a time answer
  SockBuf,     \* what the socket's buffers hold
  PollLimit,   \* polls until socket_send_timeout gives up (100)
  MaxMessages  \* bound: messages of a run

ASSUME PieceAssumption == Piece \in Nat \ {0} /\ HeadLen \in 1 .. Piece
\* Header, Data_Info and 852 bytes are less than 1024.
ASSUME Mp2Assumption == Mp2Lens \subseteq HeadLen + 1 .. Piece
ASSUME FlacAssumption == FlacLens \subseteq Nat /\ \A n \in FlacLens : n > HeadLen
ASSUME ReplyAssumption == ReplyLen \in HeadLen + 1 .. Piece
ASSUME LimitAssumption ==
  SockBuf \in Nat /\ PollLimit \in Nat \ {0} /\ MaxMessages \in Nat

Threads == {"eachSend", "process"}

VARIABLES
  protocol,  \* "MP2_DATA" or "FLAC_DATA"
  mutex,     \* the slot's mutex: the thread that has it, or "free"
  msgLen, Offset, count,  \* the send of the thread that has the mutex
  msgs,      \* where each message begins in the stream, and its length
  wpos,      \* bytes written to the socket
  conn,      \* "up", "down", or "eof": down, and the client knows
  reading,   \* the client reads its socket
  reader,    \* processThread of the client: "header", "body", "ended", "bad"
  frame,     \* ... where the message it reads began
  got, need, \* ... bytes it has of it, and is to have
  taken,     \* ... messages it has dispatched
  torn       \* ... the last of them was not complete (history)

sending == <<mutex, msgLen, Offset, count>>
receiving == <<reader, frame, got, need, taken, torn>>
vars == <<protocol, sending, msgs, wpos, conn, reading, receiving>>

rpos == frame + got

TypeOK ==
  /\ protocol \in {"MP2_DATA", "FLAC_DATA"}
  /\ mutex \in Threads \union {"free"}
  /\ msgLen \in Nat /\ Offset \in Nat /\ count \in 0 .. PollLimit - 1
  /\ msgs \in Seq([at : Nat, len : Nat])
  /\ wpos \in Nat
  /\ conn \in {"up", "down", "eof"}
  /\ reading \in BOOLEAN
  /\ reader \in {"header", "body", "ended", "bad"}
  /\ frame \in Nat /\ got \in Nat /\ need \in Nat /\ taken \in Nat
  /\ torn \in BOOLEAN

Init ==
  /\ protocol \in {"MP2_DATA", "FLAC_DATA"}
  /\ mutex = "free" /\ msgLen = 0 /\ Offset = 0 /\ count = 0
  /\ msgs = << >>
  /\ wpos = 0
  /\ conn = "up"
  /\ reading = TRUE
  /\ reader = "header" /\ frame = 0 /\ got = 0 /\ need = HeadLen
  /\ taken = 0 /\ torn = FALSE

-----------------------------------------------------------------------------
\* The two senders.

Lengths(t) == IF t = "process" THEN {ReplyLen}
              ELSE IF protocol = "MP2_DATA" THEN Mp2Lens ELSE FlacLens

\* Mutant of timed: FLAC is sent with a limit too.
timedAlways == mutex = "eachSend"

\* Only eachSendThread, and only with MP2, sends with a limit.
timed == mutex = "eachSend" /\ protocol = "MP2_DATA"

start(t) ==
  /\ mutex = "free"
  /\ Len(msgs) < MaxMessages
  /\ mutex' = t
  /\ msgLen' \in Lengths(t)
  /\ Offset' = 0
  /\ count' = 0
  /\ UNCHANGED <<protocol, msgs, wpos, conn, reading, receiving>>

\* select says that a socket can be written when a third of its buffer is
\* free, and there is room for a piece.
writable == wpos - rpos + Piece <= SockBuf

SendSize == IF msgLen - Offset > Piece THEN Piece ELSE msgLen - Offset

sendPiece ==
  /\ mutex # "free"
  /\ conn = "up"
  /\ writable
  /\ msgs' = IF Offset = 0 THEN Append(msgs, [at |-> wpos, len |-> msgLen]) ELSE msgs
  /\ wpos' = wpos + SendSize
  /\ Offset' = Offset + SendSize
  /\ mutex' = IF Offset' = msgLen THEN "free" ELSE mutex
  /\ UNCHANGED <<protocol, msgLen, count, conn, reading, receiving>>

\* A poll that finds no room; the last of socket_send_timeout's returns 0.
\* socket_send does not count.

\* Mutant of poll: no limit.
pollForever ==
  /\ timed
  /\ conn = "up"
  /\ ~ writable
  /\ count' = IF count + 1 = PollLimit THEN 0 ELSE count + 1
  /\ UNCHANGED <<protocol, mutex, msgLen, Offset, msgs, wpos, conn, reading, receiving>>

\* Mutant of poll: one poll more than the limit.
pollOneMore ==
  /\ timed
  /\ conn = "up"
  /\ ~ writable
  /\ IF count = PollLimit THEN mutex' = "free" /\ UNCHANGED count
                          ELSE count' = count + 1 /\ UNCHANGED mutex
  /\ UNCHANGED <<protocol, msgLen, Offset, msgs, wpos, conn, reading, receiving>>

poll ==
  /\ timed
  /\ conn = "up"
  /\ ~ writable
  /\ IF count + 1 = PollLimit THEN mutex' = "free" /\ UNCHANGED count
                              ELSE count' = count + 1 /\ UNCHANGED mutex
  /\ UNCHANGED <<protocol, msgLen, Offset, msgs, wpos, conn, reading, receiving>>

\* select or send returns -1; both threads close the socket and end.
sendFails ==
  /\ mutex # "free"
  /\ conn # "up"
  /\ mutex' = "free"
  /\ UNCHANGED <<protocol, msgLen, Offset, count, msgs, wpos, conn, reading, receiving>>

send == sendPiece \/ poll \/ sendFails

-----------------------------------------------------------------------------
\* The client's processThread.

\* recv returns any part of what is there.
recvPart(n) ==
  /\ reading
  /\ conn # "eof"
  /\ n <= wpos - rpos
  /\ n <= need - got

\* Mutant of recvHeader: the length includes the header.
recvHeaderTwice(n) ==
  /\ reader = "header"
  /\ recvPart(n)
  /\ got' = got + n
  /\ IF got' < HeadLen
     THEN UNCHANGED <<reader, need>>
     ELSE \E k \in 1 .. Len(msgs) :
            /\ msgs[k].at = frame
            /\ need' = HeadLen + msgs[k].len
            /\ reader' = "body"
  /\ UNCHANGED <<protocol, sending, msgs, wpos, conn, reading, frame, taken, torn>>

\* Bytes that are not the beginning of a message are no header; those that
\* are say how long the message is.
recvHeader(n) ==
  /\ reader = "header"
  /\ recvPart(n)
  /\ got' = got + n
  /\ IF got' < HeadLen
     THEN UNCHANGED <<reader, need>>
     ELSE \/ \E k \in 1 .. Len(msgs) :
               /\ msgs[k].at = frame
               /\ need' = msgs[k].len
               /\ reader' = "body"
          \/ /\ \A k \in 1 .. Len(msgs) : msgs[k].at # frame
             /\ reader' = "bad"
             /\ UNCHANGED need
  /\ UNCHANGED <<protocol, sending, msgs, wpos, conn, reading, frame, taken, torn>>

recvBody(n) ==
  /\ reader = "body"
  /\ recvPart(n)
  /\ IF got + n < need
     THEN got' = got + n /\ UNCHANGED <<reader, frame, need, taken>>
     ELSE /\ reader' = "header"
          /\ frame' = frame + need
          /\ got' = 0
          /\ need' = HeadLen
          /\ taken' = taken + 1
  /\ UNCHANGED <<protocol, sending, msgs, wpos, conn, reading, torn>>

\* Mutant of recvTimeout: the body is waited for with a limit too.
recvTimeoutBody ==
  /\ reading
  /\ reader \in {"header", "body"}
  /\ conn = "up"
  /\ rpos = wpos
  /\ IF reader = "body"
     THEN reader' = "header" /\ torn' = TRUE /\ frame' = rpos /\ got' = 0
          /\ need' = HeadLen /\ UNCHANGED conn
     ELSE reader' = "ended" /\ conn' = "eof" /\ UNCHANGED <<frame, got, need, torn>>
  /\ UNCHANGED <<protocol, sending, msgs, wpos, reading, taken>>

\* Nothing comes for 10 s while a header is awaited: the client closes the
\* connection and makes a new one.
recvTimeout ==
  /\ reading
  /\ reader = "header"
  /\ conn = "up"
  /\ rpos = wpos
  /\ reader' = "ended"
  /\ conn' = "eof"
  /\ UNCHANGED <<protocol, sending, msgs, wpos, reading, frame, got, need, taken, torn>>

\* recv returns 0 or -1, with or without what was still on its way.  In the
\* middle of a header, with nothing of the rest, or when the connection was
\* reset (errno), that is the end.  What there is of the rest is otherwise
\* dispatched, as if it were complete.
recvEnd ==
  /\ reading
  /\ conn # "up"
  /\ reader \in {"header", "body"}
  /\ conn' = "eof"
  /\ \/ /\ reader = "body" /\ got > HeadLen
        /\ reader' = "header"
        /\ torn' = TRUE
        /\ frame' = rpos /\ got' = 0 /\ need' = HeadLen
     \/ /\ reader' = "ended"
        /\ UNCHANGED <<torn, frame, got, need>>
  /\ UNCHANGED <<protocol, sending, msgs, wpos, reading, taken>>

receive ==
  \/ \E n \in 1 .. Piece : recvHeader(n) \/ recvBody(n)
  \/ recvTimeout \/ recvEnd

-----------------------------------------------------------------------------
\* The network, either host, or a thread of the server breaks the connection.
break ==
  /\ conn = "up"
  /\ conn' = "down"
  /\ UNCHANGED <<protocol, sending, msgs, wpos, reading, receiving>>

\* The client program is stopped.
stop ==
  /\ reading
  /\ reading' = FALSE
  /\ UNCHANGED <<protocol, sending, msgs, wpos, conn, receiving>>

Next == (\E t \in Threads : start(t)) \/ send \/ receive \/ break \/ stop

Spec == Init /\ [][Next]_vars

\* The threads that move bytes run; nobody has to send, to stop or to break.
FairSpec == Spec /\ WF_vars(send) /\ WF_vars(receive)

-----------------------------------------------------------------------------
(* Properties.                                                             *)

\* Where the k-th message ends, and so the next begins.
End(k) == IF k = 0 THEN 0 ELSE msgs[k].at + msgs[k].len

\* The client takes every message of the stream, in the order they were
\* begun, and never reads a header where none is, though a send may time out
\* (common.c:292-293), recv cuts the stream anywhere and two threads write:
\* an MP2 message is one piece, of which all or nothing is sent, and longer
\* ones are sent without a time-out.  (TcpClient.cpp:276-279)
InFrame ==
  /\ reader # "bad"
  /\ taken <= Len(msgs)
  /\ ~ torn => frame = End(taken)

\* A message that is not complete, which processThread does not notice
\* (TcpClient.cpp:303), is the last it dispatches.
TornIsLast == [][torn => torn' /\ taken' = taken /\ reader' \in {reader, "ended"}]_vars

\* In MP2 a client that does not read keeps a sender, and with it the mutex,
\* for PollLimit polls at most (common.c:292).
TimedSendReturns == timed ~> mutex = "free"

\* What the client waits for without a time-out comes (TcpClient.cpp:287,
\* 302): the server never leaves a message half sent on a connection that
\* lives.
BodyArrives == reader = "body" ~> (reader # "body" \/ ~ reading)
=============================================================================
