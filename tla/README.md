# Verification of roomcast

TLA+ models of roomcast, a program that plays one audio stream in several rooms
at once, and of zubo, the daemon that decides which device serves the stream.
Every definition is translated from the C and C++ sources; `PROJECT.json` names
the lines each one stands for.  Paths below are relative to the repository,
`MU` is `MyRoomCast/utils`.

## 1. The system

| Component | Sources | State | Operations |
|---|---|---|---|
| Fan-out queue | `MU/inc/Queue.h` | array `p_head`, `write_index`, one read index per client socket (`read_map`) | `read`, `write`, `removeVisitor`, `reInit` |
| Chunk list and pool | `MU/inc/DataList.h`, `MU/inc/ArrayPool.h` | free buffers, used buffers in order, their content | `write`, `writeToHead`, `writeToTail`, `read`, `checkData`, `reInit`; `malloc`, `free` |
| Server connections | `MU/src/TcpServer.cpp` | `client[fd]` slots with a mutex each, two threads per connection, the kernel's descriptor table | `acceptThread`, `processThread`, `eachSendThread`, `writeQueueThread` |
| Server pipeline | `MU/src/TcpServer.cpp:250-453, 860-946` | PCM, MP2 and FLAC lists, the time stamp of the next chunk, the throttle's `sleep_count` | `writeListThread`, `playThread` |
| Client life cycle | `MU/src/TcpClient.cpp` | the socket, a mutex, three "thread runs" flags | `startClient`, `stopClient`, `sendThread`, `processThread`, `playThread` |
| Time synchronisation | `MU/inc/BaseMessage.h`, `DiffHandler.h`, `DoubleBuffer.h` | the last offsets, their median | `setDiff`, `setDiffToServer`, `serverNow`, arithmetic of `tv` |
| Socket helpers | `MU/src/common.c` | a message partly sent or received | `socket_send`, `socket_send_timeout`, `socket_recv`, `socket_recv_timeout` |
| Playback | `MU/src/Stream.cpp`, `OssPlayer.cpp` | the chunk being played, the correction left to make | `getPlayChunk`, `playPcm` |
| Election | `Zubo/main.cpp`, `Zubo/src/bdcp.cpp` | `current_mode`, the poll count, the server followed, the roomcast process running | `main`, `task_bdcpd`, `handle_bdcp_client` |
| Aux knob | `Zubo/src/gpio_manager.cpp` | the last level read, `main`'s `tag` | `aux_handle`, with the reboot it causes |
| Ini file | `Zubo/src/dotini_parser.cpp` | the parser's static list | `dotini_open`, `dotini_get_string`, `dotini_close` |
| FLAC stream | `MU/src/flac`, `TcpServer.cpp:344-369`, `TcpClient.cpp:318-369` | samples in the encoder, the server's and the client's next stamp | `Encode`, `Decode`, the client's re-timing |
| MP2 codec, ALSA player, interface helpers, audio pipe | `MU/src/mp2`, `AlsaPlayer.cpp`, `Zubo/src/net_common.cpp`, `MU/src/fifo_data.c` | | signal processing, or wrappers of system calls |

How they interact.  On the server `writeListThread` reads PCM from the pipe,
encodes it, stamps it and puts it into two chunk lists; `playThread` takes the
PCM from one when it is due; `writeQueueThread` moves the encoded chunks from
the other to the fan-out queue; one `eachSendThread` per client reads the queue
under its own index and sends.  One `processThread` per client answers the
client's time requests on the same socket, so two threads share a socket, its
slot and the slot's mutex.  The queue is bounded: a client that falls behind
holds up the writer, and with it everyone.  On the client `processThread` takes
chunks and time answers from the socket, `sendThread` asks for the time,
`playThread` plays a chunk when its age on the server's clock reaches the cache
time; a broken connection makes `processThread` stop and restart all of it.
On each device zubo waits until a knob is at "aux", then multicasts discover
requests, answers those of others and starts roomcast as a server or as a client;
when the knob leaves aux it reboots the device.

What is hard, and what correctness means:

- *Fan-out queue*: readers join and leave anywhere in the ring while it is
  written; each must get exactly what was written since it joined.
- *Chunk list*: whatever the calls, each buffer is in one place, and the list
  stays a FIFO even when it evicts.
- *Server connections*: a connection may break in either thread at any moment,
  and the kernel reuses a descriptor while threads that know the connection by
  it still run.  Messages must not interleave on a socket, nothing may leak, no
  index may stay in the queue without a thread that serves it, and one client
  must not stop the others.
- *Server pipeline*: the pipe is faster or slower than the sound, and silent at
  times; sleeps that grow are all that keeps a list from running full.  No chunk
  may be refused, starved of, stamped over another or played too late.
- *Sockets*: messages go in pieces, a send may give up half way through the
  protocol without a word, and a receiver waits for a payload without a limit.
  The framing must survive this.
- *FLAC*: a frame is not stamped by the samples it begins with, and the client
  counts instead of reading stamps; it must not drift away.
- *Election*: three threads share a mode without a lock, messages are lost,
  late and reordered, and devices reboot.  A client must follow a real server,
  and its moves; a server must stay one; a device away from aux must be silent.
- *Client life cycle*: flags that are both a request to stop and a record that
  a thread runs; a restart made by one of the threads it replaces.
- *Time*: the offset is estimated from round trips of varying length, over a
  clock that may be set meanwhile; a chunk must be played when it is due by the
  server's clock, or the rooms are not in step.

## 2. The modules

`FanOut` is the promise of the queue: a private bounded FIFO per registered
visitor.  `RingQueue` is `Queue.h`: the array, the write index and the map of
read indexes, one action per public function.  Each function holds the queue's
lock from its first access to its last, so it is one action; a `read` is two,
`readRegister` when the visitor is new and `readChunk` when it has something to
read.  Reads and writes that return -1 change nothing and are not steps.

`BoundedFifo` is the promise of the chunk list: one bounded FIFO.  `ChunkList`
is `DataList` with its `ArrayPool`: buffers are numbered, `pool` and `data_list`
hold numbers and `content` what the buffers contain.  `checkData`'s age test is
an input: what is left of the cache time, on each side of both its limits.
The names that every module has carry a `List` here (`ListInit`, `ListTypeOK`), because
`ServerPipelineProofs` proves about the list and about the pipeline.

`ServerConns` is the connection handling of `TcpServer.cpp`.  A connection is a
number that only the state knows; the actions use descriptors, as the code
does.  `open[fd]` is the kernel's table, `client[fd]` the slot, `locked[fd]` the
slot's mutex where it is held over a blocking call (a critical section without
one is a single action that needs the mutex free).  `processThread` and
`eachSendThread` are program counters per connection:

| Label | Code |
|---|---|
| `recv`, `body` | `TcpServer.cpp:523` and `:541`, waiting for a request's header and for the rest |
| `reply`, `replying` | `:554`, before and inside `socket_send` |
| `close` | `:574` and `:581`, the thread's two exits, which do the same |
| `check` | `:766`, the slot is looked at |
| `read` | `:774`/`:801`, the queue is read and the age tested |
| `lock`, `sending` | `:831`, before and inside the send |
| `remove` | `:848`, the read index is removed |

A request is read in two pieces, each from whatever connection the descriptor stands
for by then: two `processThread`s on one descriptor may share a request (`torn`), and
then one finds no magic number and takes the exit `Error_Msg` (`processMisread`).
`acceptThread` ends at any error of `accept` (`acceptFail`).  The protocol is MP2 or FLAC;
with `pcm` (`:132-134`) `eachSendThread` reads nothing and sends nothing.

It uses the queue as `FanOut` promises it (`RingQueue` implements `FanOut`), so
its own state stays small.  The clients may ask for the time, stop reading for
good, or leave; the constants `Askers`, `Stoppers`, `Leavers` say which may.

`Bdcp` is zubo's election on any set of devices.  `aux_handle`, `main`,
`task_bdcpd` and `handle_bdcp_client` run on each; the mode, which has no lock, is read and
written in separate steps, and so are `killall roomcast` and the start of a new
one.  The record of the present server is an uninitialised local
(`bdcp.cpp:200`): its address starts as any member of `Leftovers`, and the
comparison of MAC addresses, which compares two arrays' addresses, is always
"different".  A multicast answer reaches any subset of the devices and waits in
each receiver's socket, per sender the latest, until it is read.  `turn` is
somebody turning a knob; `aux_handle` (`gpio_manager.cpp:78-101`) sees it, and
lets `main` go on (`begin`) or commands a reboot (`going`).  The threads run on until
the system is down (`reboot`): all its state is lost, what it sent stays under way.
That the command fails, and that a read of the knob fails, is left out; so are the
device's own answers that do not say SERVER, which it ignores.  `changeIp` is the
network's doing; the code asks for its address anew each time.

`ServerPipeline` is the server's own way from the pipe to its loudspeaker, in MP2
(FLAC differs in the length of a chunk).

| ServerPipeline | Code |
|---|---|
| `readNothing` | `TcpServer.cpp:309-342`: an empty read, and the next track at the 30th |
| `writePcm`, `stamp` | `:401-434`: a chunk is stamped and put into the PCM list |
| `throttle` | `:437-443`: the list's length is looked at, the writer sleeps |
| `take`, `drop` | `:882-886`, `:903-909` |
| `playPcm`, `room` | `:889-901`, `OssPlayer.cpp:280-319` |
| `playFail` | `OssPlayer.cpp:289-293`: `playThread` adds the -1 and tries for ever |
| `tick`, `tickSlow`, `setClock` | time, a DSP slower than the clock, and somebody setting the clock |

Time is in ticks, of which one is the step by which `server_delay` falls (10 us).
The DSP has a clock of its own, and a slow one is what `server_delay` is for: it plays
nothing in a `tickSlow`, so that its buffer fills, `write` blocks (`busy`) and the room
left makes the server stretch its stamps.  `lag` is the sum of the lost ticks, less what
the stretched stamps gave back; `LagMax` bounds it, and so bounds how slow the DSP is
compared with the correction.  Five things are assumed.  `playThread`, which looks every
100 us, is never late by a tick for what it could do; the writer may be late as it likes,
but not between its write to the list and its look at the list's length.  A DSP that fails
stays so.  A DSP that is too fast only runs dry, and is not modelled.  The clock is set
once, and the DSP is not slow after it was set forward: `NothingRefused` depends on how
far back the clock is set, on the lag, and on the difference of the list's size and its
threshold, which is 50 chunks in the code (section 5).  And the `dac` of test.ini
(`TcpServer.cpp:280-295`), which makes stamps longer than `playThread` takes a chunk to
be (`:877-880`), is 0.

`SocketIO` is one connection under it all, with bytes counted and not kept.  `msgs`
says where each message lies in the stream, `wpos` and `rpos` what was written
and read.

| SocketIO | Code |
|---|---|
| `start` | `TcpServer.cpp:826-846`, and `:553-555` for an answer: the slot's mutex |
| `writable`, `sendPiece`, `SendSize` | `common.c:73-106`, `:236-272`, `:296-313` |
| `poll` | `common.c:284-295`: the count and the end at the 100th |
| `sendFails` | `common.c:285-286`, `:309-310` |
| `recvHeader`, `recvTimeout` | `TcpClient.cpp:268-281`, `common.c:141-181` |
| `recvBody`, `recvEnd` | `common.c:183-233` |

The kernel is taken to accept a whole piece or none when select says that the socket
is writable: Linux says so only with a third of the buffer free, which is more
than the 1024 bytes of a piece.  That is what the framing of MP2 rests on.

`FlacStream` is what becomes of time stamps in FLAC.  The unit is a sample.
`call` is one turn of `writeListThread` (`Encode`, `TcpServer.cpp:344-360`), and what
the client does with the frame if there is one, decoded (`recvFrame`) or not
(`recvNothing`), lost in a full list, or not there yet; the lists and sockets in between keep the order, so
that nothing is lost by making it one step.  That a frame is complete when
there is one sample more than its size is libFLAC's.  Durations are exact here; the
code cuts those of a call and of a frame to whole microseconds (`TcpServer.cpp:294`,
`TcpClient.cpp:265`), which makes 0.6 us a frame, so 62 us in the hundred frames a client
counts by itself, less than the `DelayMax` of 100 us.  `origin` says when the
first sample in the encoder is due, and `err` how late the client plays a frame.
`restart` is a new connection: the stamps are locals of `processThread`.

`TcpClient` is the client's life: `startClient` and `stopClient` as main and
`processThread` call them, and the three threads, numbered by the connection
they were created for.  The record of which connection a chunk or an offset came
from is the model's; the code has one list, one set of offsets and three flags.
`process` follows `processThread` through its loop (`header`, `time`, `data`), its
exits (`failed`, `error`, `relock`), `stopClient` (`stop`, `flags`, `sleep`) and
`startClient` (`start`, `connect`, `pro`, `send`, `play`, one label per flag).
`playThread` may find no memory (`playInit`): for its first buffer (`:430-433`), and it ends with
its flag up, or for a later one (`:449-455`), and the flag is cleared; either way the client
does not play until the next connection.  Its exit at 440-446 is dead, since
`OssPlayer::init` never returns -1.  It tests the flag (`playTest`) and reads later (`playRead`).
`tick` is a second.  A wait with a time-out or a `sleep` counts ticks; a tick
comes only when no thread has anything else to do.  That is the assumption the
code makes when it sleeps instead of joining its threads, and the model makes it
explicit: a thread is never kept from the processor for a second.  The quick
first twenty time requests (`TcpClient.cpp:233-236`) are as slow as the others.
The rest of a message is waited for without a limit.  When the peer falls silent
there, only the kernel ends it (`kernelTimeout`): `initTcpSocket` sets SO_KEEPALIVE
(`common.c:20, 34-39`), and the time requests that `sendThread` goes on sending are not
acknowledged.  `badMessage` is a peer that is not a server of this program;
`SocketIO!InFrame` is why such a server never sends one.
Of `processThread`'s exits the one at line 383 needs `pro_thd_running` cleared by
somebody else, which never happens (`OneOfEach`).

`TimeSync` is the exchange of TIME messages and what is done with it.  The
server's clock `now` is the reference, the client's is `now - offset`.  `up` and
`down` are the two directions of the connection, in order; a message takes as
long as `tick` makes it.  `server` and `hand` are what the two `processThread`s
hold between the header, when they look at the clock, and the rest.  `diffs` is
`diff_buffer`; the code's `diff_to_server` is always its median, so here it is an
operator.  `playThread` holds one chunk; the stamp is any of `Stamps`, because the
server may stamp ahead of its clock.  `setClock` is somebody setting the client's
clock, and `fresh`, which the code does not have, says what was measured since.

| TimeSync | Code |
|---|---|
| `sendRequest`; `serverRecv`, `serverReply` | `TcpClient.cpp:223-227`; `TcpServer.cpp:523-531`, `:541-561` |
| `recvHeader`, `recvTime` | `TcpClient.cpp:269-275`, `:284-298` |
| `add`, `median` with `sort` | `DoubleBuffer.h:38-43`, `:53-74` |
| `readChunk`; `known`, `playPcm`, `discard`, `wait` | `Stream.cpp:44-59`; `:67-93`, and `TcpClient.cpp:489-514` |

Two things follow from the code and not from the properties, which speak of an
estimate there is.  `serverNow` takes an offset of exactly 0 for none, so a client
whose median is 0 waits.  It also reads the offset twice: if `clearDiff` comes
between (`age` with no offsets), one chunk is timed by the client's own clock.
The rates of the two clocks are taken to be equal.  `sort` gives each offset its place,
the number of those that come no later; that is what `std::sort` leaves, and it
needs no recursion, so that the median can be proved about.

The modules whose names end in `Proofs` hold the proofs, the `MC` modules give
constants their values.

## 3. The runs

| Run | Checks | Shows |
|---|---|---|
| `ring` | `TypeOK`, `ImplementsFanOut` | the ring is a FIFO per visitor |
| `list` | `ListTypeOK`, `BuffersPartition`, `ImplementsBoundedFifo` | list and pool are a bounded FIFO and lose no buffer |
| `conns_reuse` | `SendExclusive`, `NoOrphanVisitor`, `NothingLeaked` | FLAC, three connections on one descriptor: no interleaved sends, nothing leaks |
| `conns_live` | `TypeOK`, `InOrderUnlessReused`, `QueueMovesOrReplyWedged`, `GoneIsClosed` | MP2: chunks in order; a stopped client does not stop the queue unless it wedged a reply; a client that left is closed |
| `bdcp` | `TypeOK`, `ClientsFollowOffers`, `AwayIsSilent`, `ServerStays`, `EventuallyDecided`, `FollowsTheServer` | devices follow announced servers, a device away from aux is silent, servers stay servers, a device at aux decides, a client follows its server's moves |
| `client` | `TypeOK`, `OneOfEach`, `NothingStale`, `LossIsRepaired` | a client outlives the loss of its connection: threads do not meet those of the next connection, nothing stale is played, the connection is made again |
| `sync` | `TypeOK`, `OffsetsBounded`, `EstimateBounded`, `PlaysInSync`, `DiscardsLate` | an offset that counts and the estimate of the server's clock are off by less than 10 ms, chunks are played when due by that clock, and given up only when late |
| `pipeline` | `TypeOK`, `NothingRefused`, `NothingLate`, `StampsApart`, `ThrottleNeverStarves` | the PCM list neither overflows nor is starved by the writer, chunks are stamped apart and played in time |
| `sockets` | `TypeOK`, `InFrame`, `TornIsLast`, `TimedSendReturns`, `BodyArrives` | the framing survives time-outs, broken connections and any cutting of the stream |
| `flac` | `TypeOK`, `InStep`, `DriftBounded` | a FLAC client that counts samples stays within a frame and a bounded drift of the right time |
| `conns_hang_up`, `bdcp_first` | | section 4 |

Bounds.  `ring`: two visitors, a ring of four slots and two chunks, so that
the index wraps, a slot is reused and both visitors are a full turn behind.
`list`: three buffers, so that the list is empty, partly used and full.
`conns_live`: two connections, as many descriptors, a queue of one chunk: the second
connection may come on the first one's descriptor or on its own.  `conns_reuse`
has a third generation on a single descriptor, so that requests are split between
threads of three.  Two chunks are enough for one
to overtake the other, three for the queue to be full while a client holds one.  `bdcp`: a device that
starts beside a server; of an address that changes once and knobs that are turned
twice either may happen, so that the server moves, or it or the other device reboots
and comes back, and who served before follows.  One poll is enough for a device that hears
nothing to serve as well.  The record of the server starts as garbage or as the very
address of the device that serves; every other leftover is in the proofs of the safety
properties.  `client`: two losses, so that a restarted client restarts; the
ten seconds of patience are three, longer than every sleep; sockets and memory may be
refused, and a peer may send nonsense.
`sync`: a buffer of five offsets, the smallest that tolerates a stale one and is
long enough to push one out; two exchanges under way, two steps of the clock
of 1.5 ms, so that an exchange takes none to two of them and counts with up to one;
two stamps a step apart and a cache of a step, so that a chunk is early, due and late;
the client's clock is set once, either way.
`pipeline`: chunks of two ticks, a cache of three chunks, the least that
`TimeAssumption` allows, a list of eight with the threshold at five, and 14 ticks: the
list fills, the writer sleeps up to three chunks at a time, the list empties again, and
the pipe is silent long enough for a reset; the clock is set once, back by two
chunks or forward by more than the cache; the DSP lags up to six ticks behind, two more than
it buffers, so that its `write` blocks past the time of the next chunk.  `sockets`: pieces of three, messages of one piece (MP2, answers),
two and three (FLAC), a socket that holds two pieces, two polls, four messages:
a time-out falls before, between and after others, recv cuts anywhere.  `flac`:
calls of two and frames of three units, so that every third call gives no
frame and frames straddle every part of a call; a stamp every three frames; nine
calls, so that five frames come, the client takes a stamp over when it is in step, and
counts on from it.

Deadlock is checked in `ring` and `list` alone.  The other models end when the
bounded number of connections, chunks, messages, moves, losses, calls or seconds is used up, and a
client may really be stuck (`Stuck` says how).

Fairness.  Threads are scheduled by a preemptive kernel: weak fairness for each
one.  `ServerConns` has strong fairness for the steps that take a slot's mutex,
because whoever holds it lets it go after one send and is away from it for the
time between two chunks or two requests; nothing is assumed of a client, and a
send to one that stopped has no fair exit.  `Bdcp` has strong fairness for an
answer reaching another device: a network that loses every copy for ever is
excluded, since polls are repeated.  `TcpClient` has weak fairness for its
threads, for the clock, for the return of the server and for `kernelTimeout`: the
kernel gives a silent peer up after minutes.  `Bdcp`'s `aux_handle` looks at the knob
every second; `EventuallyDecided` speaks of a knob that stays at aux.  `SocketIO` has
weak fairness for a sender that has the mutex and for the reader, none for anybody
who may begin a message, stop or break the connection.  `ServerPipeline` and
`FlacStream` have no liveness properties; time there goes on only when
`playThread` has nothing to do.

## 4. Disagreements

| Run | Property | Finding |
|---|---|---|
| `conns_hang_up` | `ConnectedStays` | the second of the two threads to notice a broken connection closes the descriptor again, by then another client's |
| `bdcp_first` | `FirstServerOnly` | `README.md:11` says a device connects to the first server it finds only; a client turns to every other server at each of its answers, because MAC addresses are compared as pointers (`bdcp.cpp:269-289`) and nobody looks whether the present server is still there |

These are in the models without a run of their own:

- A client that stops reading while `processThread` is inside `socket_send`
  (`TcpServer.cpp:555`) keeps the slot's mutex taken; its `eachSendThread` waits for it, and
  its read index stops every client.  It is the exception in `QueueMovesOrReplyWedged`.
- `Error_Msg` locks the client's mutex a second time where it was to unlock it
  (`TcpClient.cpp:394-397`).  It is an exception in `LossIsRepaired`; no server of this
  program sends what leads there (`InFrame`).
- `main` tests the mode at `Zubo/main.cpp:39` and sets it at line 48 without looking
  again, so a device that found a server in between serves as well.
- An `accept` that fails, for want of descriptors or because the client was gone already,
  ends `acceptThread` for good (`TcpServer.cpp:467-472`): nobody can connect any more.
- A DSP that fails makes the server's `playThread` try for ever and the PCM list run
  full.  It is the exception in `NothingRefused`.
- `README.md:13` says a device serves after three seconds; 300 polls of 20 ms
  are six.

## 5. The proofs

All are for every value of the constants under the named assumptions
(`CountAssumption`: the ring or pool has at least one element;
`VisitorsAssumption`, `FdsAssumption`: descriptors are numbers above 0;
`BoundsAssumption`, `LimitAssumption`: the bounds are numbers; `IpsAssumption`:
devices start at addresses, and an uninitialised one is an address or garbage).
Those of the other modules are as weak: `Mp2Assumption` says that an MP2 message
fits into one piece (a header, a `Data_Info` and at most 852 bytes),
`BlockAssumption` that a frame is longer than a call and shorter than two (1152 and
1024 samples), `TimeAssumption` that the cache is three chunks at least (it is about 200).
Every invariant and every action property that a passing run checks is proved, and so
are both refinements.

- `RingQueueProofs!TypeCorrect`: the ring's type invariant; it is inductive.
  The other modules have a `TypeCorrect` too.
- `RingQueueProofs!RingImplementsFanOut`: every step of the ring is a step of
  `FanOut`.  The mapping sends a read index to the stretch of the ring from it
  to the write index; the lemmas say how long the stretch is after a write, a
  read and a join, modulo the size.  The type invariant is all it needs.
- `ServerPipelineProofs!NoBufferLost`: `ListTypeOK /\ BuffersPartition` is inductive.
  `BuffersPartition` counts buffers and keeps both sequences free of duplicates
  and disjoint; the count is what makes an empty pool imply a non-empty list.
- `ServerPipelineProofs!ListImplementsFifo`: from that invariant, since a buffer
  taken from the pool is not in the list, writing to it changes no queued chunk.

- `ServerConnsProofs`: the five safety properties the runs check, from one
  inductive invariant, `Inv`, and two theorems on who waits for whom.
  `Inv` adds two auxiliary conjuncts.  `Started` ties
  threads, descriptors and the kernel's table together: a thread that acts has a
  descriptor, an open descriptor is its connection's.  Without it a thread with
  no descriptor could join the queue and `TypeOK` would not be inductive.
  `Numbered` bounds every chunk number by what is written and empties what
  belongs to nobody, which `InOrderUnlessReused` needs to stay true when a chunk
  is written and when a connection gets a descriptor nobody had.
  - `SendsAreExclusive`: a step that takes a slot's mutex found it free, so by
    the invariant nobody was sending; one that releases it was the only one.
  - `NoVisitorIsOrphaned`, `NoConnectionLeaks`: only the last step of a thread
    ends it, and that step removes what the thread owned.
  - `ChunksInOrder`: a thread moves chunks only of connections on its own
    descriptor (`OrderAt`), so one connection alone is left to look at.
  - `NobodyWaitsInVain`, `GoneNeverStuck`: the safety halves of `QueueMovesOrReplyWedged`
    and `GoneIsClosed`.  Besides `Inv` they need that a mutex held over a step is held for a
    send (`LocksHeld`); such a send ends unless the client behind the descriptor stopped
    and the send has no time-out (`SendEnds`).  No run checks them: they say of a state
    what the temporal properties of `MCServerConnsLive` say of behaviours.

- `BdcpProofs!OffersFollowed`, `TypeCorrect`: `TypeOK` alone is not inductive,
  because a client could be started with the uninitialised record; it is with
  `ClientsFollowOffers`, which in turn needs `AnswersAnnounced`: every answer
  that says SERVER and waits in a socket was announced.
- `BdcpProofs!ServersStay`: of the two threads that write the mode, main only
  writes SERVER, and the handler writes CLIENT only after it left `recv`, which
  it does not do for a server.

- `BdcpProofs!AwayDoesNothing`: inductive with `TypeOK`; a step of `main` or of the
  handler needs the device to be past `begin`, so the knob was seen at aux, or the device is going down.
- `ServerPipelineProofs!StampsAreApart`: from `Apart`, which says it of neighbours and
  of the two ends of the list.  A stamp never goes back, because the reset only
  looks at a clock that is ahead.
- `ServerPipelineProofs!ServerKeepsTime`: from `InTime`.  When the player takes a chunk, the
  window of that chunk has not opened by more than what the DSP overruns: what it played
  before ended at most a chunk and the overrun after it was begun, stamps are a chunk
  apart, and a chunk that was just stamped is due a whole cache later, which is why the
  cache must be three chunks.  Each stretched stamp takes from the lag what it
  gives to the window (`LagFalls`).  That no chunk is dropped holds while the lag stays within
  the DSP's buffer and the window, two chunks.
- `SocketIOProofs!FramingHolds`, `NothingAfterTorn`: from `Tiled` (messages lie end to
  end), `Written` (what is written ends at the end of the last message, unless a sender is in
  the middle of it or the connection broke) and `Read` (the client is
  inside the message it is due).  A sender that may time out has sent nothing yet,
  since its message is one piece.
- `FlacStreamProofs!ClientsInStep`: `Ahead` is how far the client's count is ahead of what
  the encoder has taken in.  Steps move it by the correction only (`Tracks`).  A loss or
  a reset undoes that, but then the client's count of frames is at least that of the
  frames since (`count >= calm`), so it takes a stamp before these are `ResyncEvery`.
- `FlacStreamProofs!DriftIsBounded`: each frame since then took one call or two.
- `TimeSyncProofs!OffsetsAreBounded`: each half of an exchange is wrong by the time a
  message was under way, which is not negative; the invariant says so of every message on
  its way whose clock was not set since, and the limit on the sum bounds the difference.
- `TimeSyncProofs!EstimateIsBounded`: an offset's place is the number of those that come
  no later, so two offsets never share a place and there are as many places as offsets:
  `sort` is a permutation (`SortIsAPermutation`), and at least k offsets are no larger
  than the one at place k, `Len(s) - k + 1` no smaller (`PlacesCount`).  Were one of the
  three in the middle beyond every fresh offset, all on its side would be stale, and
  `Reliable` says that these are too few (`MiddleBetween`).
- `TimeSyncProofs!PlayedInSync`, `GivenUpLate`: from the estimate, through the roundings
  of `serverNow` (`ServerNowClose`).
- `TcpClientProofs!ThreadsAreOneOfEach`, `NothingStaleIsPlayed`: two chains run through the
  threads.  The last `processThread` to have read a header, the owner, is alone between its
  first header and the start of the next one; whoever starts threads, `main` or
  the owner before, is done with them before the next starts any.  A flag that is down
  stays down for the two seconds of `stopClient`'s sleep: in the first every `playThread`
  and every `sendThread` that was not in its own sleep sees it, in the second the others
  (`TickKeeps`).  So none is left when the flags go up again, whatever the number of
  losses.
- `ServerPipelineProofs!ListHasRoom`, `SleepNeverStarves`: for every list with room (`Room`),
  however long the program runs.  The n-th sleep over a long list is n chunks
  long.  While the player keeps up (`Calm`), a list of `Threshold` chunks means that
  the stamps are ahead of the clock by their length less the cache (`Below`, `Above`: stamps
  are a chunk apart at least, a chunk and `server_delay` at most); each sleep takes
  its length from that lead, and the writer wins back a chunk between two of them
  (`Paced`).  So there are at most `Longest` sleeps in a row (`ThrottleBound`), the list
  is no longer than `Threshold` and these (`Filled`), and a sleep is shorter than what
  waits (`Lasts`).  A clock that is set back adds what it was set back by to the lead;
  one that is set forward puts the player behind, which lasts for one more sleep
  at most (`Counted`), since the player catches up while the writer sleeps.
  `Room` says that there is a number of sleeps that the list has room for over its
  threshold, and that outlasts the cache, the lag of the DSP and the clock's being set back.  It is an assumption on the
  constants alone, and `RoomInTheSource` proves it for those of the source: 800 buffers, the threshold
  at 750, a cache of 5.2 s, either length of a chunk, the clock set back by up to
  20 s, a DSP up to a second behind, with 49 sleeps.  The run's list is too small for `Room`, which asks for
  more than the arguments need in it; there TLC looks at every state instead.

Only model-checked: all liveness, since the prover has neither fairness nor ENABLED
(`QueueMovesOrReplyWedged`, `GoneIsClosed`, `EventuallyDecided`, `FollowsTheServer`,
`LossIsRepaired`, `TimedSendReturns`, `BodyArrives`).
That the code violates a statement of section 4 is shown by the run's trace.

## 6. Not modelled

Of the 18100 lines in the repository's source files, 7187 are the headers of libFLAC and
3900 the MP2 codec: vendored signal processing and interfaces, with no state that the
program's other parts see.  The rest that is left out:

- `stopServer`, whose only call is in commented-out code (`main.cpp:92-98`), and what
  stands behind a `return` in `Stream.cpp` and in comments in `OssPlayer.cpp`.
- `AlsaPlayer.cpp`, which is not built; the setting up of the DSP in `OssPlayer.cpp`.
- `net_common.cpp` and `initTcpSocket`: wrappers of socket options and ioctls.
- `dotini_parser.cpp` and `func_iniparse.c`: text parsing.  Its list is shared by two threads
  without a lock; a reader of a list that was just freed sees anything.
- `main.cpp` of roomcast, which parses arguments and starts one server or one client.
- The first, unlocked call of `DataList::instance()` and `Queue::instance()`.
- A read of the knob that fails.  It leaves 0xff as the last value, and the change that
  follows is not seen: no reboot, or, at the first look, no start.
- A reboot that fails: `system("reboot")` is taken to bring the device down in the end.
- The protocol `pcm`, with which a server sends nothing.
- The `dac` of test.ini, a DSP that runs faster than the clock, and one that is slow after
  the clock was set forward; how durations are cut to microseconds in FLAC (62 us between two
  stamps a client takes over).
- Time that threads of the client lose to others: a thread there is never
  kept from the processor for a second.

## 7. What could come next

1. `TimeSync`, `FlacStream` and `ServerPipeline` together: how far two rooms are apart.
2. Failed reads of the knob in `Bdcp`, with properties that allow for them.
3. The safety halves of the other liveness properties as theorems, as section 5 has them for
   the connections of the server.
