------------------------------ MODULE TimeSync ------------------------------
(***************************************************************************)
(* How a client estimates the server's clock and plays by it: sendThread   *)
(* and processThread of TcpClient.cpp and processThread of TcpServer.cpp   *)
(* exchange TIME messages over one connection, DiffHandler keeps the last  *)
(* offsets, and playThread compares a chunk's time stamp with the          *)
(* estimate.  The server's clock is the reference, and offset is how far   *)
(* it is ahead of the client's; somebody may set the client's clock.       *)
(*                                                                         *)
(* A tv is the number of microseconds it stands for: its operators keep    *)
(* usec from being negative and getMs rounds down, so the carries do not   *)
(* show.  Halves and thirds are doubles in the code; here an offset is     *)
(* kept twice as large and the median six times.                           *)
(***************************************************************************)
EXTENDS Integers, Sequences, FiniteSets

CONSTANTS
  Ms,          \* microseconds in a millisecond (1000)
  RttLimit,    \* milliseconds within which an exchange counts (20)
  Size,        \* offsets that are kept (20)
  Cache,       \* CACHE_MS in microseconds: the age at which a chunk is due
  Window,      \* buff_dac_time: how far from due it is still played
  Stamps,      \* the time stamps of chunks
  Offsets,     \* how far the server's clock may be ahead of the client's
  Start,       \* the server's clock at the beginning
  Ticks,       \* how far time goes on in one step
  MaxNow,      \* bound: the server's clock
  MaxSets,     \* bound: how often the client's clock is set
  MaxInFlight, \* bound: exchanges under way
  None

ASSUME UnitAssumption == Ms \in Nat \ {0} /\ RttLimit \in Nat
ASSUME SizeAssumption == Size \in Nat \ {0}
ASSUME PlayAssumption == Cache \in Nat /\ Window \in Nat
ASSUME NoneAssumption == None \notin Stamps
ASSUME ClockAssumption ==
  /\ Start \in Nat /\ MaxNow \in Nat /\ MaxSets \in Nat /\ MaxInFlight \in Nat
  /\ Ticks \subseteq Nat /\ Stamps \subseteq Nat /\ Offsets \subseteq Int

VARIABLES
  now,      \* the server's clock
  offset,   \* the server's clock minus the client's
  sets,     \* how often the client's clock was set
  up,       \* TIME messages on their way to the server
  server,   \* the message the server's processThread holds
  down,     \* answers on their way to the client
  hand,     \* the answer the client's processThread holds
  diffs,    \* DiffHandler's diff_buffer, oldest first
  tag,      \* a chunk may be taken: an estimate was seen once, or it is FLAC
  play,     \* where playThread is: "read", "known" or "age"
  chunk,    \* the time stamp of the chunk it holds
  verdict   \* what became of the last chunk

exchange == <<up, server, down, hand>>
player == <<tag, play, chunk, verdict>>
vars == <<now, offset, sets, exchange, diffs, player>>

clientNow == now - offset

\* fresh says of a message or an offset that the client's clock was not set
\* since the exchange began; it is no part of the code's state.
Requests == [sent : Int, fresh : BOOLEAN]
Received == [latency : Int, fresh : BOOLEAN]
Answers  == [latency : Int, sent : Int, fresh : BOOLEAN]
Samples  == [latency : Int, back : Int, fresh : BOOLEAN]
Diffs    == [diff : Int, fresh : BOOLEAN]

TypeOK ==
  /\ now \in Nat /\ offset \in Offsets /\ sets \in 0 .. MaxSets
  /\ up \in Seq(Requests)
  /\ server \in Received \union {None}
  /\ down \in Seq(Answers)
  /\ hand \in Samples \union {None}
  /\ diffs \in Seq(Diffs) /\ Len(diffs) <= Size
  /\ tag \in BOOLEAN
  /\ play \in {"read", "known", "age"}
  /\ chunk \in Stamps \union {None}
  /\ (play = "read") = (chunk = None)
  /\ verdict \in {"none", "played", "discarded"}

Init ==
  /\ now = Start /\ offset \in Offsets /\ sets = 0
  /\ up = << >> /\ server = None /\ down = << >> /\ hand = None
  /\ diffs = << >>
  /\ tag \in BOOLEAN /\ play = "read" /\ chunk = None /\ verdict = "none"

-----------------------------------------------------------------------------
\* The exchange.

inFlight == Len(up) + Len(down) + Cardinality({server, hand} \ {None})

\* sendThread: the message carries the client's time.
sendRequest ==
  /\ inFlight < MaxInFlight
  /\ up' = Append(up, [sent |-> clientNow, fresh |-> TRUE])
  /\ UNCHANGED <<now, offset, sets, server, down, hand, diffs, player>>

\* The server's processThread notes when the header came, and the time of its
\* answer later, when the rest of the message is read.
serverRecv ==
  /\ server = None /\ up # << >>
  /\ up' = Tail(up)
  /\ server' = [latency |-> now - Head(up).sent, fresh |-> Head(up).fresh]
  /\ UNCHANGED <<now, offset, sets, down, hand, diffs, player>>

serverReply ==
  /\ server # None
  /\ server' = None
  /\ down' = Append(down, [latency |-> server.latency, sent |-> now, fresh |-> server.fresh])
  /\ UNCHANGED <<now, offset, sets, up, hand, diffs, player>>

\* The client's processThread notes when the header of the answer came.
recvHeader ==
  /\ hand = None /\ down # << >>
  /\ down' = Tail(down)
  /\ LET msg == Head(down)
     IN  hand' = [latency |-> msg.latency, back |-> clientNow - msg.sent, fresh |-> msg.fresh]
  /\ UNCHANGED <<now, offset, sets, up, server, diffs, player>>

\* Mutant of inTime: a slow exchange counts.
inTimeAlways(c2s, s2c) == TRUE

inTime(c2s, s2c) == (s2c + c2s) \div Ms < RttLimit

\* Mutant of add: the buffer has no limit.
addUnlimited(d) == Append(diffs, d)

add(d) == LET s == Append(diffs, d) IN IF Len(s) > Size THEN Tail(s) ELSE s

\* The payload is read, and the offset kept if the exchange was quick.
recvTime ==
  /\ hand # None
  /\ hand' = None
  /\ diffs' = IF inTime(hand.latency, hand.back)
                THEN add([diff |-> hand.latency - hand.back, fresh |-> hand.fresh])
                ELSE diffs
  /\ UNCHANGED <<now, offset, sets, up, server, down, player>>

\* stopClient: the connection and all that was in it is gone, and clearDiff
\* forgets the offsets.
clearDiff ==
  /\ hand = None
  /\ up' = << >> /\ server' = None /\ down' = << >> /\ hand' = None
  /\ diffs' = << >>
  /\ UNCHANGED <<now, offset, sets, player>>

-----------------------------------------------------------------------------
\* The estimate.

\* The offsets of s in ascending order.  The place of each is the number of
\* those that come no later, and equal ones keep their order.
sort(s) ==
  LET place == [i \in DOMAIN s |->
                  Cardinality({j \in DOMAIN s : \/ s[j].diff < s[i].diff
                                                \/ s[j].diff = s[i].diff /\ j <= i})]
  IN  [k \in DOMAIN s |-> s[CHOOSE i \in DOMAIN s : place[i] = k].diff]

\* Mutant of median: the largest offsets instead of those in the middle.
medianHigh(s) ==
  LET t == sort(s)
      n == Len(s)
  IN  CASE n = 0 -> 0
        [] n \in 1 .. 2 -> 3 * t[n]
        [] OTHER -> t[n - 2] + t[n - 1] + t[n]

\* DoubleBuffer::median(3), times six.
median(s) ==
  LET t == sort(s)
      mid == Len(s) \div 2 + 1
  IN  CASE Len(s) = 0 -> 0
        [] Len(s) \in 1 .. 2 -> 3 * t[mid]
        [] OTHER -> t[mid - 1] + t[mid] + t[mid + 1]

diff_to_server == median(diffs)

\* DiffHandler::serverNow past its test, in milliseconds.
serverNow == (6 * clientNow + diff_to_server) \div (6 * Ms)

age == serverNow * Ms - chunk - Cache

-----------------------------------------------------------------------------
\* playThread.

\* In MP2 the first chunk is not taken before there is an estimate; FLAC has a
\* loop of its own that does not ask.
readChunk ==
  /\ play = "read"
  /\ tag \/ diff_to_server # 0
  /\ tag' = TRUE
  /\ play' = "known"
  /\ chunk' \in Stamps
  /\ verdict' = "none"
  /\ UNCHANGED <<now, offset, sets, exchange, diffs>>

\* serverNow looks at the estimate twice, with clearDiff possibly between: an
\* estimate of 0 counts as none, and the chunk then as early.
known ==
  /\ play = "known"
  /\ diff_to_server # 0
  /\ play' = "age"
  /\ UNCHANGED <<now, offset, sets, exchange, diffs, tag, chunk, verdict>>

\* Mutant of due: a chunk that is early is played.
dueEarly(a) == a <= Window

due(a) == - Window <= a /\ a <= Window

\* Mutant of old: a chunk that is early is given up too.
oldEarly(a) == a > Window \/ a < - Window

old(a) == a > Window

finish(v) ==
  /\ play' = "read" /\ chunk' = None /\ verdict' = v
  /\ UNCHANGED <<now, offset, sets, exchange, diffs, tag>>

playPcm == play = "age" /\ due(age) /\ finish("played")

discard == play = "age" /\ ~ due(age) /\ old(age) /\ finish("discarded")

wait ==
  /\ play = "age"
  /\ ~ due(age) /\ ~ old(age)
  /\ play' = "known"
  /\ UNCHANGED <<now, offset, sets, exchange, diffs, tag, chunk, verdict>>

playThread == readChunk \/ known \/ playPcm \/ discard \/ wait

-----------------------------------------------------------------------------
tick ==
  /\ \E t \in Ticks : now + t <= MaxNow /\ now' = now + t
  /\ UNCHANGED <<offset, sets, exchange, diffs, player>>

\* The client's clock is set; what was measured with it before is stale.
stale(s) == [i \in DOMAIN s |-> [s[i] EXCEPT !.fresh = FALSE]]
staleMsg(m) == IF m = None THEN None ELSE [m EXCEPT !.fresh = FALSE]

setClock ==
  /\ sets < MaxSets
  /\ sets' = sets + 1
  /\ offset' \in Offsets \ {offset}
  /\ up' = stale(up) /\ server' = staleMsg(server)
  /\ down' = stale(down) /\ hand' = staleMsg(hand)
  /\ diffs' = stale(diffs)
  /\ UNCHANGED <<now, player>>

Next ==
  \/ sendRequest \/ serverRecv \/ serverReply \/ recvHeader \/ recvTime \/ clearDiff
  \/ playThread
  \/ tick \/ setClock

Spec == Init /\ [][Next]_vars

-----------------------------------------------------------------------------
\* An offset that was measured with the present clock, by an exchange of which
\* nothing is known but that it was quick and that no message came before it
\* was sent, is off by less than half the slowest exchange that counts (an
\* offset is kept twice as large): a client's clock is wrong by no more,
\* however slow the server's threads are.
\* (TcpServer.cpp:541-546, TcpClient.cpp:284-298, BaseMessage.h:36-72)
OffsetsBounded ==
  \A i \in DOMAIN diffs :
    diffs[i].fresh => /\ diffs[i].diff - 2 * offset < RttLimit * Ms
                      /\ 2 * offset - diffs[i].diff < RttLimit * Ms

\* Enough of the offsets kept are of the present clock for those in the middle
\* to lie between two of them.
Reliable(s) ==
  LET n == Len(s)
      k == Cardinality({i \in DOMAIN s : ~ s[i].fresh})
  IN  n > 0 /\ (k = 0 \/ 2 * k + 3 <= n)

\* The estimate of the server's clock is off by less than half the slowest
\* exchange that counts, even shortly after the client's clock was set, when
\* almost half of the offsets kept are of no value.
\* (DiffHandler.h:48-76, DoubleBuffer.h:53-74, TcpClient.cpp:294)
EstimateBounded ==
  Reliable(diffs) =>
    LET error == diff_to_server - 6 * offset
    IN  error < 3 * RttLimit * Ms /\ - error < 3 * RttLimit * Ms

\* How far the true age of a chunk may be from the one playThread computes:
\* half an exchange, and a millisecond for the rounding.
Skew == (RttLimit * Ms) \div 2 + Ms

TrueAge == now - chunk - Cache

\* A chunk is played when its time has come by the server's clock, so that two
\* rooms that play it are close together.  (TcpClient.cpp:493-505, Stream.cpp:67-76)
PlaysInSync ==
  [][verdict # "played" /\ verdict' = "played" /\ Reliable(diffs) =>
       /\ TrueAge <= Window + Skew
       /\ TrueAge >= - Window - Skew]_vars

\* A chunk is given up only when it is late.  (TcpClient.cpp:506-512, Stream.cpp:77-85)
DiscardsLate ==
  [][verdict # "discarded" /\ verdict' = "discarded" /\ Reliable(diffs) =>
       TrueAge > Window - Skew]_vars
=============================================================================
