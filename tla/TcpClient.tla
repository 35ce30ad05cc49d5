----------------------------- MODULE TcpClient -----------------------------
(***************************************************************************)
(* The life of a roomcast client (MyRoomCast/utils/src/TcpClient.cpp):     *)
(* how its three threads are started with a connection, what each does     *)
(* with it, and how processThread, when it finds the connection broken,    *)
(* stops the other two and starts everything again.                        *)
(*                                                                         *)
(* Threads are told to stop through flags that the threads also clear when *)
(* they end, so a thread that outlives its connection could clear the flag *)
(* of the next one's.  What prevents it is time: stopClient sleeps for two *)
(* seconds, sendThread for at most one.  The model has a clock of seconds, *)
(* and a thread that has something to do does it before the next tick.     *)
(***************************************************************************)
EXTENDS Integers

CONSTANTS
  MaxFaults,     \* bound: connections lost in a run
  Patience,      \* seconds without a message header (10)
  SocketsFail,   \* the kernel may refuse a socket
  MallocFails,   \* a playThread may find no memory for its buffers
  BadMessages    \* the peer may send what is not a message (SocketIO shows that
                 \*   a server of this program never does)

ASSUME BoundsAssumption == MaxFaults \in Nat /\ Patience \in Nat \ {0}
ASSUME SwitchesAssumption ==
  SocketsFail \in BOOLEAN /\ MallocFails \in BOOLEAN /\ BadMessages \in BOOLEAN

Conns == 1 .. MaxFaults + 1
Threads == {0} \union Conns   \* of one kind, by connection; process[0] is main

VARIABLES
  server,          \* the server program accepts connections
  link,            \* what is behind the client's descriptor
  framed,          \* what the peer sends next is a message
  faults,          \* connections lost so far
  conn,            \* the number of connections made
  client_socket,   \* -1, 0, or 1 for a descriptor
  mutex,           \* TcpClient::mutex is held
  pro_thd_running, send_thd_running, play_thd_running,
  process,         \* program counters of the processThreads,
  send,            \*   ... the sendThreads
  play,            \*   ... and the playThreads
  alarm,           \* seconds processThread has still to wait
  nap,             \* nap[c]: seconds c's sendThread has still to sleep
  diffs,           \* the connections whose offsets DiffHandler has
  list,            \* the connections whose chunks are in the PCM list
  held             \* held[c]: the connection c's playThread has a chunk of

world == <<server, link, framed, faults>>
flags == <<pro_thd_running, send_thd_running, play_thd_running>>
pcs == <<process, send, play>>
timers == <<alarm, nap>>
stream == <<diffs, list, held>>
vars == <<world, conn, client_socket, mutex, flags, pcs, timers, stream>>

TypeOK ==
  /\ server \in BOOLEAN
  /\ link \in {"none", "up", "silent", "closed"}
  /\ framed \in BOOLEAN
  /\ faults \in 0 .. MaxFaults
  /\ conn \in 0 .. MaxFaults + 1
  /\ client_socket \in {-1, 0, 1}
  /\ mutex \in BOOLEAN
  /\ pro_thd_running \in BOOLEAN
  /\ send_thd_running \in BOOLEAN
  /\ play_thd_running \in BOOLEAN
  /\ process \in [Threads -> {"none", "start", "connect", "pro", "send", "play",
                              "header", "time", "data", "failed", "stop", "flags",
                              "sleep", "error", "relock", "done"}]
  /\ send \in [Conns -> {"none", "loop", "sending", "sleep", "end", "done"}]
  /\ play \in [Conns -> {"none", "start", "loop", "read", "hold", "end", "failed", "done"}]
  /\ alarm \in Nat
  /\ nap \in [Conns -> 0 .. 1]
  /\ diffs \subseteq Conns
  /\ list \subseteq Conns
  /\ held \in [Conns -> Conns \union {0}]

Init ==
  /\ server \in BOOLEAN
  /\ link = "none"
  /\ framed = TRUE
  /\ faults = 0
  /\ conn = 0
  /\ client_socket = 0
  /\ mutex = FALSE
  /\ pro_thd_running = FALSE /\ send_thd_running = FALSE /\ play_thd_running = FALSE
  /\ process = [g \in Threads |-> IF g = 0 THEN "start" ELSE "none"]
  /\ send = [c \in Conns |-> "none"]
  /\ play = [c \in Conns |-> "none"]
  /\ alarm = 0
  /\ nap = [c \in Conns |-> 0]
  /\ diffs = {}
  /\ list = {}
  /\ held = [c \in Conns |-> 0]

-----------------------------------------------------------------------------
\* startClient, called by main and by a processThread at its end.  The mutex
\* is held until the threads are there.

openSocket(g) ==
  /\ process[g] = "start"
  /\ ~ mutex
  /\ client_socket < 1
  /\ \/ /\ client_socket' = 1
        /\ mutex' = TRUE
        /\ process' = [process EXCEPT ![g] = "connect"]
     \/ /\ SocketsFail
        /\ client_socket' = -1
        /\ process' = [process EXCEPT ![g] = "done"]
        /\ UNCHANGED mutex
  /\ UNCHANGED <<world, conn, flags, send, play, timers, stream>>

\* Mutant of myConnect: an attempt counts as a connection.
myConnectCounts(g) ==
  /\ process[g] = "connect"
  /\ alarm = 0
  /\ conn' = conn + 1
  /\ IF server THEN /\ link' = "up"
                    /\ framed' = TRUE
                    /\ process' = [process EXCEPT ![g] = "pro"]
                    /\ UNCHANGED alarm
               ELSE /\ alarm' = 1
                    /\ UNCHANGED <<link, framed, process>>
  /\ UNCHANGED <<server, faults, client_socket, mutex, flags, send, play, nap, stream>>

\* A refused connection is tried again after a second.
myConnect(g) ==
  /\ process[g] = "connect"
  /\ alarm = 0
  /\ IF server THEN /\ conn' = conn + 1
                    /\ link' = "up"
                    /\ framed' = TRUE
                    /\ process' = [process EXCEPT ![g] = "pro"]
                    /\ UNCHANGED alarm
               ELSE /\ alarm' = 1
                    /\ UNCHANGED <<conn, link, framed, process>>
  /\ UNCHANGED <<server, faults, client_socket, mutex, flags, send, play, nap, stream>>

\* A thread is only created if the flag says that none runs.
createProcess(g) ==
  /\ process[g] = "pro"
  /\ pro_thd_running' = TRUE
  /\ process' = [process EXCEPT ![g] = "send",
                                ![conn] = IF pro_thd_running THEN @ ELSE "header"]
  /\ alarm' = Patience
  /\ UNCHANGED <<world, conn, client_socket, mutex, send_thd_running, play_thd_running,
                 send, play, nap, stream>>

createSend(g) ==
  /\ process[g] = "send"
  /\ send_thd_running' = TRUE
  /\ send' = [send EXCEPT ![conn] = IF send_thd_running THEN @ ELSE "loop"]
  /\ process' = [process EXCEPT ![g] = "play"]
  /\ UNCHANGED <<world, conn, client_socket, mutex, pro_thd_running, play_thd_running,
                 play, timers, stream>>

createPlay(g) ==
  /\ process[g] = "play"
  /\ play_thd_running' = TRUE
  /\ play' = [play EXCEPT ![conn] = IF play_thd_running THEN @ ELSE "start"]
  /\ process' = [process EXCEPT ![g] = "done"]
  /\ mutex' = FALSE
  /\ UNCHANGED <<world, conn, client_socket, pro_thd_running, send_thd_running,
                 send, timers, stream>>

startClient(g) ==
  openSocket(g) \/ myConnect(g) \/ createProcess(g) \/ createSend(g) \/ createPlay(g)

-----------------------------------------------------------------------------
\* processThread, and stopClient, which only it calls.  (The loop's other exit,
\* lines 383-391, needs pro_thd_running cleared by another thread: see
\* OneOfEach.)

\* Of what the server sends, time answers and chunks have an effect.
recvHeader(g) ==
  /\ process[g] = "header"
  /\ link = "up"
  /\ process' = [process EXCEPT ![g] = IF framed THEN "time" ELSE "error"]
  /\ UNCHANGED <<world, conn, client_socket, mutex, flags, send, play, timers, stream>>

recvDataHeader(g) ==
  /\ process[g] = "header"
  /\ link = "up"
  /\ framed
  /\ process' = [process EXCEPT ![g] = "data"]
  /\ UNCHANGED <<world, conn, client_socket, mutex, flags, send, play, timers, stream>>

\* An offset from a long round trip is not used.
recvTime(g) ==
  /\ process[g] = "time"
  /\ link \in {"up", "closed"}
  /\ diffs' \in {diffs, diffs \union {conn}}
  /\ process' = [process EXCEPT ![g] = "header"]
  /\ alarm' = Patience
  /\ UNCHANGED <<world, conn, client_socket, mutex, flags, send, play, nap, list, held>>

\* FLAC may decode a packet to nothing.
recvData(g) ==
  /\ process[g] = "data"
  /\ link \in {"up", "closed"}
  /\ list' \in {list, list \union {conn}}
  /\ process' = [process EXCEPT ![g] = "header"]
  /\ alarm' = Patience
  /\ UNCHANGED <<world, conn, client_socket, mutex, flags, send, play, nap, diffs, held>>

\* The end of the connection; for a header also Patience seconds of silence.
\* The rest of a message is waited for without a limit: only the kernel ends that.
recvFails(g) ==
  /\ \/ process[g] \in {"header", "time", "data"} /\ link = "closed"
     \/ process[g] = "header" /\ link = "silent" /\ alarm = 0
  /\ process' = [process EXCEPT ![g] = "failed"]
  /\ UNCHANGED <<world, conn, client_socket, mutex, flags, send, play, timers, stream>>

\* Mutant of socketError: the client is not restarted.
socketErrorEnds(g) ==
  /\ process[g] = "failed"
  /\ ~ mutex
  /\ process' = [process EXCEPT ![g] = "done"]
  /\ UNCHANGED <<world, conn, client_socket, mutex, flags, send, play, timers, stream>>

socketError(g) ==
  /\ process[g] = "failed"
  /\ ~ mutex
  /\ process' = [process EXCEPT ![g] = IF client_socket = -1 THEN "done" ELSE "stop"]
  /\ UNCHANGED <<world, conn, client_socket, mutex, flags, send, play, timers, stream>>

\* Mutant of stopSocket: the old offsets are kept.
stopSocketKeepsDiffs(g) ==
  /\ process[g] = "stop"
  /\ ~ mutex
  /\ mutex' = TRUE
  /\ link' = "none"
  /\ client_socket' = -1
  /\ process' = [process EXCEPT ![g] = "flags"]
  /\ UNCHANGED <<server, framed, faults, conn, flags, send, play, timers, stream>>

stopSocket(g) ==
  /\ process[g] = "stop"
  /\ ~ mutex
  /\ mutex' = TRUE
  /\ diffs' = {}
  /\ link' = "none"
  /\ client_socket' = -1
  /\ process' = [process EXCEPT ![g] = "flags"]
  /\ UNCHANGED <<server, framed, faults, conn, flags, send, play, timers, list, held>>

\* Mutant of stopThreads: sleep(1).
stopThreadsShort(g) ==
  /\ process[g] = "flags"
  /\ pro_thd_running' = FALSE /\ send_thd_running' = FALSE /\ play_thd_running' = FALSE
  /\ alarm' = 1
  /\ process' = [process EXCEPT ![g] = "sleep"]
  /\ UNCHANGED <<world, conn, client_socket, mutex, send, play, nap, stream>>

stopThreads(g) ==
  /\ process[g] = "flags"
  /\ pro_thd_running' = FALSE /\ send_thd_running' = FALSE /\ play_thd_running' = FALSE
  /\ alarm' = 2
  /\ process' = [process EXCEPT ![g] = "sleep"]
  /\ UNCHANGED <<world, conn, client_socket, mutex, send, play, nap, stream>>

\* The lists are emptied when nobody writes to them or reads them any more.
stopLists(g) ==
  /\ process[g] = "sleep"
  /\ alarm = 0
  /\ list' = {}
  /\ mutex' = FALSE
  /\ process' = [process EXCEPT ![g] = "start"]
  /\ UNCHANGED <<world, conn, client_socket, flags, send, play, timers, diffs, held>>

stopClient(g) == stopSocket(g) \/ stopThreads(g) \/ stopLists(g)

\* A message with a wrong magic number or type.  The mutex is locked a second
\* time where it was to be unlocked; it is a mutex of the default kind.
Error_Msg(g) ==
  /\ process[g] \in {"error", "relock"}
  /\ ~ mutex
  /\ IF process[g] = "error"
     THEN /\ mutex' = TRUE
          /\ link' = "none"
          /\ process' = [process EXCEPT ![g] = "relock"]
          /\ UNCHANGED <<client_socket, flags>>
     ELSE /\ client_socket' = -1
          /\ pro_thd_running' = FALSE /\ send_thd_running' = FALSE
          /\ play_thd_running' = FALSE
          /\ process' = [process EXCEPT ![g] = "done"]
          /\ UNCHANGED <<link, mutex>>
  /\ UNCHANGED <<server, framed, faults, conn, send, play, timers, stream>>

processThread(g) ==
  \/ recvHeader(g) \/ recvDataHeader(g) \/ recvTime(g) \/ recvData(g) \/ recvFails(g)
  \/ socketError(g) \/ stopClient(g) \/ Error_Msg(g)

-----------------------------------------------------------------------------
\* sendThread asks for the time once a second.

sendLoop(c) ==
  /\ send[c] = "loop"
  /\ send' = [send EXCEPT ![c] = IF send_thd_running /\ client_socket > 0 THEN "sending"
                                                                        ELSE "end"]
  /\ UNCHANGED <<world, conn, client_socket, mutex, flags, process, play, timers, stream>>

\* With the server silent the socket fills, and socket_send polls on; a send
\* after the server closed may succeed or fail.
sendRequest(c) ==
  /\ send[c] = "sending"
  /\ \/ /\ link \in {"up", "silent", "closed"}
        /\ send' = [send EXCEPT ![c] = "sleep"]
        /\ nap' = [nap EXCEPT ![c] = 1]
     \/ /\ link \in {"none", "closed"}
        /\ send' = [send EXCEPT ![c] = "end"]
        /\ UNCHANGED nap
  /\ UNCHANGED <<world, conn, client_socket, mutex, flags, process, play, alarm, stream>>

sendWake(c) ==
  /\ send[c] = "sleep"
  /\ nap[c] = 0
  /\ send' = [send EXCEPT ![c] = "loop"]
  /\ UNCHANGED <<world, conn, client_socket, mutex, flags, process, play, timers, stream>>

sendEnd(c) ==
  /\ send[c] = "end"
  /\ send_thd_running' = FALSE
  /\ send' = [send EXCEPT ![c] = "done"]
  /\ UNCHANGED <<world, conn, client_socket, mutex, pro_thd_running, play_thd_running,
                 process, play, timers, stream>>

sendThread(c) == sendLoop(c) \/ sendRequest(c) \/ sendWake(c) \/ sendEnd(c)

-----------------------------------------------------------------------------
\* playThread takes a chunk from the list and keeps it until its time comes or
\* is over; with no offset from the server it never comes.

\* Without memory for its first buffer the thread ends with the flag set, without
\* it for the second it clears the flag.  (OssPlayer::init never returns -1.)
playInit(c) ==
  /\ play[c] = "start"
  /\ \/ /\ play' = [play EXCEPT ![c] = "loop"]
        /\ UNCHANGED play_thd_running
     \/ /\ MallocFails
        /\ play' = [play EXCEPT ![c] = "failed"]
        /\ play_thd_running' \in {play_thd_running, FALSE}
  /\ UNCHANGED <<world, conn, client_socket, mutex, pro_thd_running, send_thd_running,
                 process, send, timers, stream>>

playTest(c) ==
  /\ play[c] = "loop"
  /\ play_thd_running
  /\ client_socket > 0
  /\ play' = [play EXCEPT ![c] = "read"]
  /\ UNCHANGED <<world, conn, client_socket, mutex, flags, process, send, timers, stream>>

playLeave(c) ==
  /\ play[c] = "loop"
  /\ ~ play_thd_running \/ client_socket < 1
  /\ play' = [play EXCEPT ![c] = "end"]
  /\ UNCHANGED <<world, conn, client_socket, mutex, flags, process, send, timers, stream>>

\* The flag is not looked at again before the read.  There may be no chunk, or
\* (MP2) no offset yet to read one for.
playRead(c) ==
  /\ play[c] = "read"
  /\ \/ /\ \E k \in list : /\ held' = [held EXCEPT ![c] = k]
                           /\ list' \in {list, list \ {k}}
        /\ play' = [play EXCEPT ![c] = "hold"]
     \/ /\ play' = [play EXCEPT ![c] = "loop"]
        /\ UNCHANGED <<held, list>>
  /\ UNCHANGED <<world, conn, client_socket, mutex, flags, process, send, timers, diffs>>

getPlayChunk(c) ==
  /\ play[c] = "hold"
  /\ diffs # {} \/ ~ play_thd_running
  /\ held' = [held EXCEPT ![c] = 0]
  /\ play' = [play EXCEPT ![c] = "loop"]
  /\ UNCHANGED <<world, conn, client_socket, mutex, flags, process, send, timers, diffs, list>>

playEnd(c) ==
  /\ play[c] = "end"
  /\ play_thd_running' = FALSE
  /\ play' = [play EXCEPT ![c] = "done"]
  /\ UNCHANGED <<world, conn, client_socket, mutex, pro_thd_running, send_thd_running,
                 process, send, timers, stream>>

playThread(c) ==
  \/ playInit(c) \/ playTest(c) \/ playLeave(c)
  \/ playRead(c) \/ getPlayChunk(c) \/ playEnd(c)

-----------------------------------------------------------------------------
\* The server and the network.

lose ==
  /\ link = "up"
  /\ faults < MaxFaults
  /\ faults' = faults + 1
  /\ \/ link' = "closed" /\ server' \in BOOLEAN   \* it closes the connection
     \/ link' = "silent" /\ server' = FALSE       \* its host is gone
  /\ UNCHANGED <<framed, conn, client_socket, mutex, flags, pcs, timers, stream>>

return ==
  /\ ~ server
  /\ server' = TRUE
  /\ UNCHANGED <<link, framed, faults, conn, client_socket, mutex, flags, pcs, timers, stream>>

\* A network that was only interrupted.
heal ==
  /\ link = "silent"
  /\ link' = "up"
  /\ server' = TRUE
  /\ UNCHANGED <<framed, faults, conn, client_socket, mutex, flags, pcs, timers, stream>>

\* The kernel notices that the peer is gone: its probes (SO_KEEPALIVE, set by
\* initTcpSocket) or the time requests it sends again and again have no answer.
kernelTimeout ==
  /\ link = "silent"
  /\ link' = "closed"
  /\ UNCHANGED <<server, framed, faults, conn, client_socket, mutex, flags, pcs, timers,
                 stream>>

\* A peer that is not a server of this program.
badMessage ==
  /\ BadMessages
  /\ link = "up"
  /\ framed
  /\ framed' = FALSE
  /\ UNCHANGED <<server, link, faults, conn, client_socket, mutex, flags, pcs, timers, stream>>

-----------------------------------------------------------------------------
\* The clock: threads that wait for nothing but the processor have had it.

Waits(g) ==
  \/ process[g] \in {"none", "done", "relock"}
  \/ process[g] = "header" /\ link = "up" /\ framed
  \/ process[g] = "header" /\ link = "silent" /\ alarm > 0
  \/ process[g] \in {"time", "data"} /\ link = "silent"
  \/ process[g] \in {"connect", "sleep"} /\ alarm > 0

SendWaits(c) ==
  \/ send[c] \in {"none", "done"}
  \/ send[c] = "sending" /\ link = "silent"
  \/ send[c] = "sleep" /\ nap[c] > 0

PlayWaits(c) ==
  \/ play[c] \in {"none", "failed", "done"}
  \/ play[c] \in {"loop", "read", "hold"} /\ play_thd_running

Timed(g) ==
  \/ process[g] \in {"connect", "sleep"}
  \/ process[g] = "header" /\ link = "silent"

tick ==
  /\ \A g \in Threads : Waits(g)
  /\ \A c \in Conns : SendWaits(c) /\ PlayWaits(c)
  /\ alarm' = IF alarm > 0 /\ \E g \in Threads : Timed(g) THEN alarm - 1 ELSE alarm
  /\ nap' = [c \in Conns |-> IF nap[c] > 0 THEN nap[c] - 1 ELSE 0]
  /\ timers' # timers
  /\ UNCHANGED <<world, conn, client_socket, mutex, flags, pcs, stream>>

Next ==
  \/ \E g \in Threads : startClient(g) \/ processThread(g)
  \/ \E c \in Conns : sendThread(c) \/ playThread(c)
  \/ lose \/ return \/ heal \/ kernelTimeout \/ badMessage
  \/ tick

Spec == Init /\ [][Next]_vars

\* Threads are scheduled, time passes, the server comes back in the end, and the
\* kernel does not wait for a silent peer for ever.
Fairness ==
  /\ \A g \in Threads : WF_vars(startClient(g) \/ processThread(g))
  /\ \A c \in Conns : WF_vars(sendThread(c)) /\ WF_vars(playThread(c))
  /\ WF_vars(return)
  /\ WF_vars(kernelTimeout)
  /\ WF_vars(tick)

FairSpec == Spec /\ Fairness

-----------------------------------------------------------------------------
Reading(g) == process[g] \in {"header", "time", "data"}
Sending(c) == send[c] \notin {"none", "done"}
Playing(c) == play[c] \notin {"none", "failed", "done"}

\* Never two threads of a kind, and a connection that is read has its own
\* sendThread, as long as nothing is wrong with it, and playThread, unless it
\* found no memory, which the flags let run: no thread of an earlier connection
\* clears the flags of a later one.
\* (TcpClient.cpp:94-105, 121-124, 246, 517; TcpClient.h:9-20)
OneOfEach ==
  /\ \A b, c \in Conns : b # c => /\ ~ (Sending(b) /\ Sending(c))
                                 /\ ~ (Playing(b) /\ Playing(c))
                                 /\ ~ (Reading(b) /\ Reading(c))
  /\ \A c \in Conns :
       Reading(c) => /\ c = conn
                     /\ pro_thd_running
                     /\ ~ mutex => \/ play_thd_running /\ Playing(c)
                                   \/ play[c] = "failed"
                     /\ ~ mutex /\ link = "up" => send_thd_running /\ Sending(c)
  /\ \A g \in Threads : process[g] = "start" => client_socket < 1

\* What is played was sent over the present connection and its time is judged
\* by offsets measured on it: none of it survives a restart.
\* (TcpClient.cpp:117, 124-127)
NothingStale ==
  /\ diffs \subseteq {conn}
  /\ list \subseteq {conn}
  /\ \A c \in Conns : play[c] = "hold" => held[c] = conn

\* A lost connection is noticed and made again, with the flags that keep its
\* threads running, unless startClient got no socket or processThread locked the
\* mutex twice over what was not a message; a playThread that found no memory
\* does not keep the rest from being repaired.  A peer that falls silent within a
\* message is noticed by the kernel only.
\* (TcpClient.cpp:269-272, 287, 302, 392-416; common.c:20, 34-39)
Served ==
  /\ link = "up" /\ pro_thd_running /\ send_thd_running
  /\ play_thd_running \/ play[conn] = "failed"

Stuck ==
  \/ \E c \in Conns : process[c] = "relock"
  \/ client_socket = -1 /\ \A g \in Threads : process[g] \in {"none", "done"}

LossIsRepaired == link \in {"closed", "silent"} ~> (Served \/ Stuck)
=============================================================================
