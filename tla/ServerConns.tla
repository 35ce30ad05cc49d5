---------------------------- MODULE ServerConns ----------------------------
(***************************************************************************)
(* The connections of a roomcast server (MyRoomCast/utils/src/             *)
(* TcpServer.cpp).  acceptThread stores each accepted socket in the slot   *)
(* client[fd] and starts two threads for it: processThread answers the     *)
(* client's time requests, eachSendThread takes chunks from the fan-out    *)
(* queue and sends them.  Either may find the connection broken, and then  *)
(* closes fd and clears the slot under the slot's mutex; eachSendThread    *)
(* leaves when it sees the slot empty.  writeQueueThread feeds the queue.  *)
(*                                                                         *)
(* The threads know a connection by its descriptor alone, and the kernel   *)
(* gives a closed descriptor to the next accepted connection: a thread may *)
(* outlive its connection and act on the next one, so the state tells      *)
(* connections apart and the actions only use descriptors.                 *)
(*                                                                         *)
(* The queue is used as FanOut specifies it (RingQueue implements FanOut); *)
(* its chunks are numbered in the order they are written.                  *)
(***************************************************************************)
EXTENDS Integers, Sequences

CONSTANTS
  MaxConns,    \* bound: connections accepted in one run of the server
  Fds,         \* the descriptors the process may have for clients
  Protocol,    \* MP2_DATA or FLAC_DATA, fixed when the server starts
  Capacity,    \* chunks a client may be behind (499 in the program)
  MaxChunks,   \* bound: chunks written to the queue
  Askers,      \* the connections whose client asks for the time,
  Leavers,     \*   ... may leave,
  Stoppers     \*   ... may stop reading

Conns == 1 .. MaxConns

\* PCM_DATA (TcpServer.cpp:132-134) is left out: its eachSendThread reads and sends
\* nothing.
Protocols == {"MP2_DATA", "FLAC_DATA"}

ASSUME FdsAssumption == Fds \subseteq Nat \ {0}
ASSUME ProtocolAssumption == Protocol \in Protocols
ASSUME BoundsAssumption ==
  /\ MaxConns \in Nat
  /\ Capacity \in Nat \ {0}
  /\ MaxChunks \in Nat
  /\ Askers \subseteq Conns /\ Leavers \subseteq Conns /\ Stoppers \subseteq Conns

VARIABLES
  accepted,    \* number of connections accepted so far
  acceptor,    \* acceptThread: in accept(), about to fill a slot, or ended
  open,        \* kernel: open[fd] is the connection behind fd, 0 if fd is free
  client,      \* client[fd].socket: fd, or 0
  locked,      \* client[fd].mutex is held across steps
  fdOf,        \* fdOf[c]: the descriptor the threads of c were started with
  proc,        \* program counter of c's processThread
  send,        \* program counter of c's eachSendThread
  held,        \* held[c]: the chunk eachSendThread is about to send, 0 if none
  peer,        \* the client program at the other end of c
  request,     \* what is unread of a time request in c's socket: nothing, the
               \*   whole of it, its body, or what is left after a misread
  lastSent,    \* the last chunk put on connection c
  written,     \* chunks writeQueueThread has written
  members, pending, chunk     \* the fan-out queue, by descriptor

conns == <<accepted, acceptor, open, client, locked, fdOf>>
threads == <<proc, send, held>>
peers == <<peer, request, lastSent>>
queue == <<members, pending, chunk>>
vars == <<conns, threads, peers, written, queue>>

Q == INSTANCE FanOut WITH
       Visitors <- Fds,
       Chunks <- 1 .. MaxChunks,
       NoChunk <- 0

TypeOK ==
  /\ accepted \in 0 .. MaxConns
  /\ acceptor \in {"accept", "slot", "ended"}
  /\ open \in [Fds -> 0 .. MaxConns]
  /\ client \in [Fds -> Fds \union {0}]
  /\ locked \in [Fds -> BOOLEAN]
  /\ fdOf \in [Conns -> Fds \union {0}]
  /\ proc \in [Conns -> {"none", "recv", "body", "reply", "replying", "close", "done"}]
  /\ send \in [Conns -> {"none", "check", "read", "lock", "sending", "remove", "done"}]
  /\ held \in [Conns -> 0 .. MaxChunks]
  /\ peer \in [Conns -> {"none", "reading", "stopped", "gone"}]
  /\ request \in [Conns -> {"none", "whole", "body", "torn"}]
  /\ lastSent \in [Conns -> 0 .. MaxChunks]
  /\ written \in 0 .. MaxChunks
  /\ Q!TypeOK

\* The constructor leaves -1 in the slots, acceptThread's memset 0: both are
\* "no socket" to every test of the code.
Init ==
  /\ accepted = 0
  /\ acceptor = "accept"
  /\ open = [fd \in Fds |-> 0]
  /\ client = [fd \in Fds |-> 0]
  /\ locked = [fd \in Fds |-> FALSE]
  /\ fdOf = [c \in Conns |-> 0]
  /\ proc = [c \in Conns |-> "none"]
  /\ send = [c \in Conns |-> "none"]
  /\ held = [c \in Conns |-> 0]
  /\ peer = [c \in Conns |-> "none"]
  /\ request = [c \in Conns |-> "none"]
  /\ lastSent = [c \in Conns |-> 0]
  /\ written = 0
  /\ Q!Init

\* What a thread of connection c finds behind its descriptor: a client that
\* reads, one that stopped with its socket buffer full, one that closed, or
\* no open socket.
Behind(c) == LET d == open[fdOf[c]] IN IF d = 0 THEN "closed" ELSE peer[d]

-----------------------------------------------------------------------------
\* acceptThread.  The kernel returns the lowest free descriptor.

accept ==
  /\ acceptor = "accept"
  /\ accepted < MaxConns
  /\ \E fd \in Fds :
       /\ open[fd] = 0
       /\ \A e \in Fds : open[e] = 0 => fd <= e
       /\ open' = [open EXCEPT ![fd] = accepted + 1]
       /\ fdOf' = [fdOf EXCEPT ![accepted + 1] = fd]
  /\ accepted' = accepted + 1
  /\ acceptor' = "slot"
  /\ peer' = [peer EXCEPT ![accepted + 1] = "reading"]
  /\ UNCHANGED <<client, locked, threads, request, lastSent, written, queue>>

\* Whatever accept() fails for, a want of descriptors or anything else, the
\* thread returns for good.
acceptFail ==
  /\ acceptor = "accept"
  /\ acceptor' = "ended"
  /\ UNCHANGED <<accepted, open, client, locked, fdOf, threads, peers, written, queue>>

fillSlot ==
  LET c == accepted
      fd == fdOf[c]
  IN  /\ acceptor = "slot"
      /\ ~ locked[fd]
      /\ client' = [client EXCEPT ![fd] = fd]
      /\ proc' = [proc EXCEPT ![c] = "recv"]
      /\ send' = [send EXCEPT ![c] = "check"]
      /\ acceptor' = "accept"
      /\ UNCHANGED <<accepted, open, locked, fdOf, held, peers, written, queue>>

acceptThread == accept \/ acceptFail \/ fillSlot

-----------------------------------------------------------------------------
\* Mutant of closeClient: the slot is reset to -1, as the constructor does.
closeClientMinusOne(fd) ==
  /\ open' = [open EXCEPT ![fd] = 0]
  /\ client' = [client EXCEPT ![fd] = -1]

\* Closing a descriptor and clearing its slot, one critical section.
closeClient(fd) ==
  /\ open' = [open EXCEPT ![fd] = 0]
  /\ client' = [client EXCEPT ![fd] = 0]

\* processThread.  A request is read header first, then body, of whatever
\* connection the descriptor stands for at each read.
processRecv(c) ==
  /\ proc[c] = "recv"
  /\ Behind(c) # "closed"
  /\ request[open[fdOf[c]]] = "whole"
  /\ request' = [request EXCEPT ![open[fdOf[c]]] = "body"]
  /\ proc' = [proc EXCEPT ![c] = "body"]
  /\ UNCHANGED <<conns, send, held, peer, lastSent, written, queue>>

\* The body is read by its size alone.  Where two threads share a descriptor it
\* may be part of the next request, of which the rest stays unread.
processRecvBody(c) ==
  LET d == open[fdOf[c]]
  IN  /\ proc[c] = "body"
      /\ Behind(c) # "closed"
      /\ request[d] # "none"
      /\ request' = [request EXCEPT ![d] = IF request[d] = "body" THEN "none" ELSE "torn"]
      /\ proc' = [proc EXCEPT ![c] = "reply"]
      /\ UNCHANGED <<conns, send, held, peer, lastSent, written, queue>>

\* Error_Msg: what is read for a header has no magic number.
processMisread(c) ==
  /\ proc[c] = "recv"
  /\ Behind(c) # "closed"
  /\ request[open[fdOf[c]]] \in {"body", "torn"}
  /\ \E rest \in {"none", "torn"} :
       request' = [request EXCEPT ![open[fdOf[c]]] = rest]
  /\ proc' = [proc EXCEPT ![c] = "close"]
  /\ UNCHANGED <<conns, send, held, peer, lastSent, written, queue>>

\* Mutant of processFail: end of file is taken for a time-out to be retried.
processFailNoEof(c) ==
  /\ proc[c] \in {"recv", "body"}
  /\ open[fdOf[c]] # c
  /\ proc' = [proc EXCEPT ![c] = "close"]
  /\ UNCHANGED <<conns, send, held, peers, written, queue>>

\* End of file, a closed descriptor, or 10 s without a header.  A client that
\* reads also writes a request every second, so its own thread does not time
\* out; one left waiting on a connection already closed does.  A body is waited
\* for without a time-out.
processFail(c) ==
  /\ \/ /\ proc[c] = "recv"
        /\ open[fdOf[c]] # c \/ peer[c] # "reading"
     \/ /\ proc[c] = "body"
        /\ Behind(c) \in {"closed", "gone"}
  /\ proc' = [proc EXCEPT ![c] = "close"]
  /\ UNCHANGED <<conns, send, held, peers, written, queue>>

\* Mutant of processLock: the reply is sent without the slot's mutex.
processLockBlind(c) ==
  /\ proc[c] = "reply"
  /\ locked' = [locked EXCEPT ![fdOf[c]] = TRUE]
  /\ proc' = [proc EXCEPT ![c] = "replying"]
  /\ UNCHANGED <<accepted, acceptor, open, client, fdOf, send, held, peers, written, queue>>

processLock(c) ==
  /\ proc[c] = "reply"
  /\ ~ locked[fdOf[c]]
  /\ locked' = [locked EXCEPT ![fdOf[c]] = TRUE]
  /\ proc' = [proc EXCEPT ![c] = "replying"]
  /\ UNCHANGED <<accepted, acceptor, open, client, fdOf, send, held, peers, written, queue>>

\* Mutant of processReply: a failed send ends the thread without a close.
processReplyNoClose(c) ==
  /\ proc[c] = "replying"
  /\ \/ /\ Behind(c) \in {"reading", "gone"}
        /\ proc' = [proc EXCEPT ![c] = "recv"]
     \/ /\ Behind(c) \in {"gone", "closed"}
        /\ proc' = [proc EXCEPT ![c] = "done"]
  /\ locked' = [locked EXCEPT ![fdOf[c]] = FALSE]
  /\ UNCHANGED <<accepted, acceptor, open, client, fdOf, send, held, peers, written, queue>>

\* socket_send polls until the reply is out: it has no way out while the
\* client is stopped.  A send to a client that left may succeed or fail.
processReply(c) ==
  /\ proc[c] = "replying"
  /\ \/ /\ Behind(c) \in {"reading", "gone"}
        /\ proc' = [proc EXCEPT ![c] = "recv"]
     \/ /\ Behind(c) \in {"gone", "closed"}
        /\ proc' = [proc EXCEPT ![c] = "close"]
  /\ locked' = [locked EXCEPT ![fdOf[c]] = FALSE]
  /\ UNCHANGED <<accepted, acceptor, open, client, fdOf, send, held, peers, written, queue>>

\* Mutant of processClose: the slot is cleared and the socket left open.
processCloseKeepsFd(c) ==
  /\ proc[c] = "close"
  /\ ~ locked[fdOf[c]]
  /\ client' = [client EXCEPT ![fdOf[c]] = 0]
  /\ proc' = [proc EXCEPT ![c] = "done"]
  /\ UNCHANGED <<accepted, acceptor, open, locked, fdOf, send, held, peers, written, queue>>

processClose(c) ==
  /\ proc[c] = "close"
  /\ ~ locked[fdOf[c]]
  /\ closeClient(fdOf[c])
  /\ proc' = [proc EXCEPT ![c] = "done"]
  /\ UNCHANGED <<accepted, acceptor, locked, fdOf, send, held, peers, written, queue>>

processThread(c) ==
  \/ processRecv(c) \/ processRecvBody(c) \/ processMisread(c) \/ processFail(c)
  \/ processLock(c) \/ processReply(c) \/ processClose(c)

-----------------------------------------------------------------------------
\* eachSendThread.

eachSendCheck(c) ==
  /\ send[c] = "check"
  /\ ~ locked[fdOf[c]]
  /\ send' = [send EXCEPT ![c] = IF client[fdOf[c]] = 0 THEN "remove" ELSE "read"]
  /\ UNCHANGED <<conns, proc, held, peers, written, queue>>

\* Mutant of eachSendRead: the read index is not advanced.
eachSendReadAgain(c) ==
  /\ send[c] = "read"
  /\ \/ /\ Q!Join(fdOf[c])
        /\ send' = [send EXCEPT ![c] = "check"]
        /\ UNCHANGED held
     \/ /\ fdOf[c] \in members
        /\ pending[fdOf[c]] # << >>
        /\ held' = [held EXCEPT ![c] = Head(pending[fdOf[c]])]
        /\ send' = [send EXCEPT ![c] = "lock"]
        /\ UNCHANGED queue
  /\ UNCHANGED <<conns, proc, peers, written>>

\* Queue::read: a first call registers the descriptor, an empty queue returns
\* at once; a chunk older than the cache time is dropped, not sent.
eachSendRead(c) ==
  /\ send[c] = "read"
  /\ \/ /\ Q!Join(fdOf[c])
        /\ send' = [send EXCEPT ![c] = "check"]
        /\ UNCHANGED held
     \/ /\ fdOf[c] \in members
        /\ pending[fdOf[c]] = << >>
        /\ send' = [send EXCEPT ![c] = "check"]
        /\ UNCHANGED <<held, queue>>
     \/ /\ Q!Receive(fdOf[c])
        /\ \/ /\ send' = [send EXCEPT ![c] = "lock"]
              /\ held' = [held EXCEPT ![c] = chunk'[fdOf[c]]]
           \/ /\ send' = [send EXCEPT ![c] = "check"]
              /\ UNCHANGED held
  /\ UNCHANGED <<conns, proc, peers, written>>

eachSendLock(c) ==
  /\ send[c] = "lock"
  /\ ~ locked[fdOf[c]]
  /\ locked' = [locked EXCEPT ![fdOf[c]] = TRUE]
  /\ send' = [send EXCEPT ![c] = "sending"]
  /\ UNCHANGED <<accepted, acceptor, open, client, fdOf, proc, held, peers, written, queue>>

\* The chunk reaches the socket of the connection now behind the descriptor.
eachSendSent(c) ==
  /\ send[c] = "sending"
  /\ Behind(c) \in {"reading", "gone"}
  /\ lastSent' = [lastSent EXCEPT ![open[fdOf[c]]] = held[c]]
  /\ held' = [held EXCEPT ![c] = 0]
  /\ locked' = [locked EXCEPT ![fdOf[c]] = FALSE]
  /\ send' = [send EXCEPT ![c] = "check"]
  /\ UNCHANGED <<accepted, acceptor, open, client, fdOf, proc, peer, request, written, queue>>

\* Mutant of eachSendTimeout: the protocols are mixed up.
eachSendTimeoutFlac(c) ==
  /\ send[c] = "sending"
  /\ Protocol = "FLAC_DATA"
  /\ Behind(c) = "stopped"
  /\ held' = [held EXCEPT ![c] = 0]
  /\ locked' = [locked EXCEPT ![fdOf[c]] = FALSE]
  /\ send' = [send EXCEPT ![c] = "check"]
  /\ UNCHANGED <<accepted, acceptor, open, client, fdOf, proc, peers, written, queue>>

\* socket_send_timeout gives up after 100 polls and returns 0, which is not an
\* error; socket_send (FLAC) has no such way out.
eachSendTimeout(c) ==
  /\ send[c] = "sending"
  /\ Protocol = "MP2_DATA"
  /\ Behind(c) = "stopped"
  /\ held' = [held EXCEPT ![c] = 0]
  /\ locked' = [locked EXCEPT ![fdOf[c]] = FALSE]
  /\ send' = [send EXCEPT ![c] = "check"]
  /\ UNCHANGED <<accepted, acceptor, open, client, fdOf, proc, peers, written, queue>>

eachSendError(c) ==
  /\ send[c] = "sending"
  /\ Behind(c) \in {"gone", "closed"}
  /\ closeClient(fdOf[c])
  /\ held' = [held EXCEPT ![c] = 0]
  /\ locked' = [locked EXCEPT ![fdOf[c]] = FALSE]
  /\ send' = [send EXCEPT ![c] = "remove"]
  /\ UNCHANGED <<accepted, acceptor, fdOf, proc, peers, written, queue>>

\* Mutant of eachSendRemove: the thread ends without Queue::removeVisitor.
eachSendRemoveNothing(c) ==
  /\ send[c] = "remove"
  /\ send' = [send EXCEPT ![c] = "done"]
  /\ UNCHANGED <<conns, proc, held, peers, written, queue>>

eachSendRemove(c) ==
  /\ send[c] = "remove"
  /\ Q!Leave(fdOf[c])
  /\ send' = [send EXCEPT ![c] = "done"]
  /\ UNCHANGED <<conns, proc, held, peers, written>>

eachSendThread(c) ==
  \/ eachSendCheck(c) \/ eachSendRead(c) \/ eachSendLock(c)
  \/ eachSendSent(c) \/ eachSendTimeout(c) \/ eachSendError(c)
  \/ eachSendRemove(c)

-----------------------------------------------------------------------------
\* writeQueueThread, started with the first connection, retries a write until
\* the queue takes it.
writeQueueThread ==
  /\ accepted > 0
  /\ written < MaxChunks
  /\ Q!Publish(written + 1)
  /\ written' = written + 1
  /\ UNCHANGED <<conns, threads, peers>>

-----------------------------------------------------------------------------
\* The clients, while their connection is open.

Holds(c) == fdOf[c] # 0 /\ open[fdOf[c]] = c

peerRequest(c) ==
  /\ Holds(c)
  /\ c \in Askers
  /\ peer[c] = "reading"
  /\ request[c] = "none"
  /\ request' = [request EXCEPT ![c] = "whole"]
  /\ UNCHANGED <<conns, threads, peer, lastSent, written, queue>>

\* The client program stops reading for good while its host stays up.
peerStop(c) ==
  /\ Holds(c)
  /\ c \in Stoppers
  /\ peer[c] = "reading"
  /\ peer' = [peer EXCEPT ![c] = "stopped"]
  /\ UNCHANGED <<conns, threads, request, lastSent, written, queue>>

peerLeave(c) ==
  /\ Holds(c)
  /\ c \in Leavers
  /\ peer[c] = "reading"
  /\ peer' = [peer EXCEPT ![c] = "gone"]
  /\ UNCHANGED <<conns, threads, request, lastSent, written, queue>>

peerStep(c) == peerRequest(c) \/ peerStop(c) \/ peerLeave(c)

-----------------------------------------------------------------------------
Next ==
  \/ acceptThread
  \/ writeQueueThread
  \/ \E c \in Conns : processThread(c) \/ eachSendThread(c) \/ peerStep(c)

Spec == Init /\ [][Next]_vars

\* Every thread the server started keeps being scheduled, and one that waits
\* for a slot's mutex gets it if the mutex is free again and again: a client
\* asks for the time once a second and the mutex is held for one send.
\* Nothing obliges a client to do anything.
Fairness ==
  /\ SF_vars(fillSlot)
  /\ WF_vars(writeQueueThread)
  /\ \A c \in Conns :
       /\ WF_vars(processThread(c))
       /\ WF_vars(eachSendThread(c))
       /\ SF_vars(processLock(c) \/ processClose(c))
       /\ SF_vars(eachSendCheck(c) \/ eachSendLock(c))

FairSpec == Spec /\ Fairness

-----------------------------------------------------------------------------
\* Safety.

Receiving(c) == proc[c] \notin {"none", "done"}
Sending(c) == send[c] \notin {"none", "done"}

\* A descriptor is given to a connection with accept and its threads start
\* with fillSlot.  (What the proofs need of it.)
Started ==
  /\ acceptor = "slot" => accepted > 0
  /\ \A c \in Conns :
       /\ c <= accepted <=> fdOf[c] # 0
       /\ c > accepted \/ (acceptor = "slot" /\ c = accepted)
            => proc[c] = "none" /\ send[c] = "none"
  /\ \A fd \in Fds : open[fd] # 0 => fdOf[open[fd]] = fd

\* Two messages are never interleaved on one socket: at most one thread is
\* inside socket_send or socket_send_timeout for a descriptor, even when the
\* threads of several connections share it, and it holds the slot's mutex.
\* (TcpServer.cpp:554-561, 831-845)
SendExclusive ==
  \A c, d \in Conns :
    /\ proc[c] = "replying" \/ send[c] = "sending" => locked[fdOf[c]]
    /\ proc[c] = "replying" => send[d] # "sending" \/ fdOf[c] # fdOf[d]
    /\ c # d /\ fdOf[c] = fdOf[d]
         => /\ ~ (proc[c] = "replying" /\ proc[d] = "replying")
            /\ ~ (send[c] = "sending" /\ send[d] = "sending")

\* A read index in the queue always belongs to a descriptor some running
\* eachSendThread will still remove: one left behind by its thread would fill
\* the queue for ever and stop every client.  (TcpServer.cpp:848-853)
NoOrphanVisitor ==
  \A fd \in members : \E c \in Conns : fdOf[c] = fd /\ Sending(c)

\* An open socket and a filled slot always have a running processThread that
\* will close the one and clear the other, whatever other connections' threads
\* did to the descriptor meanwhile.  (TcpServer.cpp:473-476, 574-588)
NothingLeaked ==
  \A fd \in Fds :
    /\ open[fd] # 0 => \/ acceptor = "slot" /\ open[fd] = accepted
                       \/ Receiving(open[fd])
    /\ client[fd] # 0 => \E c \in Conns : fdOf[c] = fd /\ Receiving(c)

\* A thread holds a chunk from its read to the end of its send, nothing waits
\* for a descriptor without a read index, and no chunk comes before it is
\* written.  (What the proof of InOrderUnlessReused needs.)
Numbered ==
  /\ \A c \in Conns :
       /\ send[c] \notin {"lock", "sending"} => held[c] = 0
       /\ c > accepted => lastSent[c] = 0
       /\ held[c] <= written
       /\ lastSent[c] <= written
  /\ \A fd \in Fds :
       /\ fd \notin members => pending[fd] = << >>
       /\ \A i \in 1 .. Len(pending[fd]) : pending[fd][i] <= written

\* A client whose descriptor no other connection ever had is sent chunks in
\* the order they were written, none twice: what is on its way to it is later
\* than what it was sent, and what it has still to read is later than both.
\* (With a reused descriptor two eachSendThreads may take chunks from one read
\* index and send them in either order.)  (TcpServer.cpp:765-846)
Unshared(c) == fdOf[c] # 0 /\ \A d \in Conns \ {c} : fdOf[d] # fdOf[c]

InOrderUnlessReused ==
  \A c \in Conns :
    Unshared(c) =>
      LET s == pending[fdOf[c]]
      IN  /\ held[c] # 0 => lastSent[c] < held[c]
          /\ \A i \in 1 .. Len(s) : lastSent[c] < s[i] /\ held[c] < s[i]
          /\ \A i, j \in 1 .. Len(s) : i < j => s[i] < s[j]

-----------------------------------------------------------------------------
\* Liveness.

Wedged(c) == proc[c] = "replying" /\ Behind(c) = "stopped"

\* In MP2 the queue always moves on, clients that stop reading included,
\* unless processThread is caught in socket_send with a stopped client's
\* mutex: the time-out of socket_send_timeout is what keeps one client from
\* stopping the others.  (TcpServer.cpp:831-837, common.c:275-314)
QueueMovesOrReplyWedged ==
  accepted > 0 ~> (written = MaxChunks \/ \E c \in Conns : Wedged(c))

\* A client that left is noticed and its socket closed.
\* (TcpServer.cpp:523-527, 581-588)
GoneIsClosed ==
  \A c \in Conns : peer[c] = "gone" ~> ~ Holds(c)

-----------------------------------------------------------------------------
\* What README.md says of every connected client.

Connected(c) ==
  Holds(c) /\ client[fdOf[c]] # 0 /\ peer[c] = "reading"

\* Each time-stamped packet is sent to every connected client (README.md:35):
\* the server does not hang up on a client that reads and stays.
ConnectedStays ==
  [][\A c \in Conns : Connected(c) => open'[fdOf[c]] = c]_vars
=============================================================================
