------------------------- MODULE ServerConnsProofs -------------------------
(***************************************************************************)
(* The threads of the server do not interleave messages on a socket, leak  *)
(* a socket or a slot, or leave a read index in the queue, and send chunks *)
(* in order to a client that has its descriptor to itself, and none waits  *)
(* for a mutex that nobody will release but behind a client that stopped   *)
(* reading, for any number of connections, descriptors and chunks.         *)
(***************************************************************************)
EXTENDS ServerConns, SequenceTheorems, TLAPS

-----------------------------------------------------------------------------
\* The type invariant.

\* What the operations of the queue do to its type.
LEMMA QueueType ==
  ASSUME Q!TypeOK, NEW fd \in Fds
  PROVE  /\ Q!Join(fd) => Q!TypeOK'
         /\ Q!Leave(fd) => Q!TypeOK'
         /\ Q!Receive(fd) => Q!TypeOK' /\ chunk'[fd] \in 1 .. MaxChunks
<1> USE DEF Q!TypeOK
<1>0. << >> \in Seq(1 .. MaxChunks)
  OBVIOUS
<1>1. ASSUME Q!Join(fd) PROVE Q!TypeOK'
  BY <1>0, <1>1 DEF Q!Join
<1>2. ASSUME Q!Leave(fd) PROVE Q!TypeOK'
  BY <1>0, <1>2 DEF Q!Leave
<1>3. ASSUME Q!Receive(fd)
      PROVE  Q!TypeOK' /\ chunk'[fd] \in 1 .. MaxChunks
  <2>1. pending[fd] \in Seq(1 .. MaxChunks) /\ pending[fd] # << >>
    BY <1>3 DEF Q!Receive
  <2>2. /\ Head(pending[fd]) \in 1 .. MaxChunks
        /\ Tail(pending[fd]) \in Seq(1 .. MaxChunks)
    <3> HIDE DEF Q!TypeOK
    <3>. QED BY <2>1, HeadTailProperties
  <2>. QED BY <1>3, <2>1, <2>2 DEF Q!Receive
<1>. QED
  <2> HIDE DEF Q!TypeOK
  <2>. QED BY <1>1, <1>2, <1>3

LEMMA PublishType ==
  ASSUME Q!TypeOK, NEW k \in 1 .. MaxChunks, Q!Publish(k)
  PROVE  Q!TypeOK'
<1>1. \A v \in Fds : Append(pending[v], k) \in Seq(1 .. MaxChunks)
  BY DEF Q!TypeOK
<1>2. << >> \in Seq(1 .. MaxChunks)
  OBVIOUS
<1>. QED BY <1>1, <1>2 DEF Q!Publish, Q!TypeOK

LEMMA TypeInit == Init => TypeOK /\ Started
BY BoundsAssumption, FdsAssumption
   DEF Init, TypeOK, Started, Q!Init, Q!TypeOK, Conns

\* A thread that acts was started, with a descriptor.
LEMMA Running ==
  ASSUME TypeOK, Started, NEW c \in Conns
  PROVE  proc[c] # "none" \/ send[c] # "none" => fdOf[c] \in Fds /\ c <= accepted
BY DEF TypeOK, Started, Conns

LEMMA TypeNext == TypeOK /\ Started /\ [Next]_vars => TypeOK'
<1> SUFFICES ASSUME TypeOK, Started, [Next]_vars PROVE TypeOK'
  OBVIOUS
<1>0. Q!TypeOK /\ (UNCHANGED queue => Q!TypeOK')
  BY DEF TypeOK, Q!TypeOK, queue
<1>a. 0 \in 0 .. MaxChunks /\ 0 \in 0 .. MaxConns
  BY BoundsAssumption
<1> USE DEF TypeOK, Conns, conns, threads, peers
<1>1. CASE accept
  BY <1>0, <1>1, BoundsAssumption DEF accept
<1>2. CASE acceptFail
  BY <1>0, <1>2 DEF acceptFail
<1>3. CASE fillSlot
  BY <1>0, <1>3 DEF fillSlot
<1>4. CASE writeQueueThread
  <2>1. written + 1 \in 1 .. MaxChunks
    BY <1>4, BoundsAssumption DEF writeQueueThread
  <2>2. Q!TypeOK'
    BY <1>0, <1>4, <2>1, PublishType DEF writeQueueThread
  <2>. QED BY <1>4, <2>1, <2>2 DEF writeQueueThread
<1>5. ASSUME NEW c \in Conns, processThread(c) PROVE TypeOK'
  <2>1. CASE processRecv(c) \/ processRecvBody(c) \/ processMisread(c)
    BY <1>0, <2>1 DEF processRecv, processRecvBody, processMisread
  <2>2. CASE processFail(c)
    BY <1>0, <2>2 DEF processFail
  <2>3. CASE processLock(c)
    BY <1>0, <2>3 DEF processLock
  <2>4. CASE processReply(c)
    BY <1>0, <2>4 DEF processReply
  <2>5. CASE processClose(c)
    BY <1>0, <1>a, <2>5 DEF processClose, closeClient
  <2>. QED BY <1>5, <2>1, <2>2, <2>3, <2>4, <2>5 DEF processThread
<1>6. ASSUME NEW c \in Conns, eachSendThread(c) PROVE TypeOK'
  <2>1. CASE eachSendCheck(c)
    BY <1>0, <2>1 DEF eachSendCheck
  <2>2. CASE eachSendRead(c)
    <3>0. fdOf[c] \in Fds
      BY <2>2, Running DEF eachSendRead
    <3>1. CASE Q!Join(fdOf[c])
      <4>1. Q!TypeOK'
        BY <1>0, <3>0, <3>1, QueueType
      <4>. QED BY <2>2, <3>0, <3>1, <4>1 DEF eachSendRead, Q!Join, Q!Receive
    <3>2. CASE send' = [send EXCEPT ![c] = "check"] /\ UNCHANGED <<held, queue>>
      BY <1>0, <2>2, <3>2 DEF eachSendRead
    <3>3. CASE Q!Receive(fdOf[c])
      <4>1. Q!TypeOK' /\ chunk'[fdOf[c]] \in 0 .. MaxChunks
        BY <1>0, <3>0, <3>3, QueueType
      <4>. QED BY <2>2, <3>0, <3>3, <4>1 DEF eachSendRead, Q!Join, Q!Receive
    <3>. QED BY <2>2, <3>1, <3>2, <3>3 DEF eachSendRead, queue
  <2>3. CASE eachSendLock(c)
    BY <1>0, <2>3 DEF eachSendLock
  <2>4. CASE eachSendSent(c)
    BY <1>0, <1>a, <2>4 DEF eachSendSent
  <2>5. CASE eachSendTimeout(c)
    BY <1>0, <1>a, <2>5 DEF eachSendTimeout
  <2>6. CASE eachSendError(c)
    BY <1>0, <1>a, <2>6 DEF eachSendError, closeClient
  <2>7. CASE eachSendRemove(c)
    <3>1. Q!TypeOK'
      BY <1>0, <2>7, Running, QueueType DEF eachSendRemove
    <3>. QED BY <2>7, <3>1 DEF eachSendRemove
  <2>. QED
    BY <1>6, <2>1, <2>2, <2>3, <2>4, <2>5, <2>6, <2>7 DEF eachSendThread
<1>7. ASSUME NEW c \in Conns, peerStep(c) PROVE TypeOK'
  BY <1>0, <1>7 DEF peerStep, peerRequest, peerStop, peerLeave
<1>8. CASE UNCHANGED vars
  BY <1>0, <1>8 DEF vars
<1>. QED
  BY <1>1, <1>2, <1>3, <1>4, <1>5, <1>6, <1>7, <1>8 DEF Next, acceptThread

-----------------------------------------------------------------------------
\* Connections, their descriptors and their threads.

\* Only acceptThread gives out descriptors and starts threads; the others at
\* most close a descriptor.
Frame ==
  /\ UNCHANGED <<accepted, acceptor, fdOf>>
  /\ \A d \in Conns : /\ proc[d] = "none" => proc'[d] = "none"
                      /\ send[d] = "none" => send'[d] = "none"
  /\ \A fd \in Fds : open'[fd] = open[fd] \/ open'[fd] = 0

LEMMA FrameStep ==
  ASSUME TypeOK, [Next]_vars
  PROVE  acceptThread \/ Frame
<1> USE DEF TypeOK, conns, threads, peers
<1>1. ASSUME NEW c \in Conns, processThread(c) PROVE Frame
  BY <1>1 DEF processThread, processRecv, processRecvBody, processMisread,
              processFail, processLock, processReply,
              processClose, closeClient, Frame
<1>2. ASSUME NEW c \in Conns, eachSendThread(c) PROVE Frame
  BY <1>2 DEF eachSendThread, eachSendCheck, eachSendRead, eachSendLock, eachSendSent,
              eachSendTimeout, eachSendError, eachSendRemove, closeClient, Frame
<1>3. ASSUME NEW c \in Conns, peerStep(c) PROVE Frame
  BY <1>3 DEF peerStep, peerRequest, peerStop, peerLeave, Frame
<1>4. CASE writeQueueThread
  BY <1>4 DEF writeQueueThread, Frame
<1>5. CASE UNCHANGED vars
  BY <1>5 DEF vars, Frame
<1>. QED BY <1>1, <1>2, <1>3, <1>4, <1>5 DEF Next

LEMMA StartedNext == TypeOK /\ Started /\ [Next]_vars => Started'
<1> SUFFICES ASSUME TypeOK, Started, [Next]_vars PROVE Started'
  OBVIOUS
<1> USE DEF TypeOK, Started, conns, threads, peers
<1>1. CASE accept
  <2>1. PICK fd \in Fds : /\ open[fd] = 0
                          /\ open' = [open EXCEPT ![fd] = accepted + 1]
                          /\ fdOf' = [fdOf EXCEPT ![accepted + 1] = fd]
    BY <1>1 DEF accept
  <2>2. /\ accepted \in Nat /\ accepted + 1 \in Conns
        /\ accepted' = accepted + 1 /\ acceptor' = "slot" /\ acceptor = "accept"
        /\ proc' = proc /\ send' = send
    BY <1>1, BoundsAssumption DEF accept, Conns
  <2>3. fd # 0
    BY <2>1, FdsAssumption
  <2>4. \A c \in Conns : c <= accepted' <=> fdOf'[c] # 0
    BY <2>1, <2>2, <2>3 DEF Conns
  <2>5. \A c \in Conns : c > accepted' \/ c = accepted' => c > accepted
    BY <2>2 DEF Conns
  <2>6. \A e \in Fds : open'[e] # 0 => fdOf'[open'[e]] = e
    <3>1. ASSUME NEW e \in Fds, e # fd, open[e] # 0
          PROVE  fdOf'[open[e]] = e
      <4>1. open[e] \in Conns /\ fdOf[open[e]] = e /\ e # 0
        BY <3>1, FdsAssumption DEF Conns
      <4>2. open[e] # accepted + 1
        BY <2>2, <4>1
      <4>. QED BY <2>1, <4>1, <4>2
    <3>. QED BY <2>1, <2>2, <3>1
  <2>. QED BY <2>2, <2>4, <2>5, <2>6
<1>2. CASE acceptFail
  BY <1>2 DEF acceptFail
<1>3. CASE fillSlot
  BY <1>3 DEF fillSlot
<1>4. CASE Frame
  BY <1>4, BoundsAssumption DEF Frame
<1>. QED BY <1>1, <1>2, <1>3, <1>4, FrameStep DEF acceptThread

-----------------------------------------------------------------------------
\* Exclusive sends.

\* Away from the six steps that take or release a mutex held across steps, no
\* thread starts or stops sending.
NoSendChange ==
  /\ locked' = locked
  /\ \A d \in Conns : /\ proc'[d] = "replying" => proc[d] = "replying" /\ fdOf'[d] = fdOf[d]
                      /\ send'[d] = "sending" => send[d] = "sending" /\ fdOf'[d] = fdOf[d]

takesLock(c) == processLock(c) \/ eachSendLock(c)
releasesLock(c) ==
  processReply(c) \/ eachSendSent(c) \/ eachSendTimeout(c) \/ eachSendError(c)

LEMMA SendFrame ==
  ASSUME TypeOK, Started, [Next]_vars
  PROVE  NoSendChange \/ \E c \in Conns : takesLock(c) \/ releasesLock(c)
<1> USE DEF TypeOK, conns, threads, peers
<1>1. CASE accept
  <2>1. PICK fd \in Fds : fdOf' = [fdOf EXCEPT ![accepted + 1] = fd]
    BY <1>1 DEF accept
  <2>2. \A d \in Conns : proc[d] # "none" \/ send[d] # "none" => d # accepted + 1
    BY DEF Started, Conns
  <2>. QED BY <1>1, <2>1, <2>2 DEF accept, NoSendChange
<1>2. CASE acceptFail
  BY <1>2 DEF acceptFail, NoSendChange
<1>3. CASE fillSlot
  BY <1>3 DEF fillSlot, NoSendChange
<1>4. CASE writeQueueThread
  BY <1>4 DEF writeQueueThread, NoSendChange
<1>5. ASSUME NEW c \in Conns, processThread(c)
      PROVE  NoSendChange \/ takesLock(c) \/ releasesLock(c)
  BY <1>5 DEF processThread, processRecv, processRecvBody, processMisread,
              processFail, processClose, closeClient,
              takesLock, releasesLock, NoSendChange
<1>6. ASSUME NEW c \in Conns, eachSendThread(c)
      PROVE  NoSendChange \/ takesLock(c) \/ releasesLock(c)
  BY <1>6 DEF eachSendThread, eachSendCheck, eachSendRead, eachSendRemove,
              takesLock, releasesLock, NoSendChange
<1>7. ASSUME NEW c \in Conns, peerStep(c) PROVE NoSendChange
  BY <1>7 DEF peerStep, peerRequest, peerStop, peerLeave, NoSendChange
<1>8. CASE UNCHANGED vars
  BY <1>8 DEF vars, NoSendChange
<1>. QED
  BY <1>1, <1>2, <1>3, <1>4, <1>5, <1>6, <1>7, <1>8 DEF Next, acceptThread

\* A step that takes the mutex found it free, so nobody was sending on the
\* descriptor; one that releases it was the only one who did.
LEMMA SendExclusiveNext ==
  TypeOK /\ Started /\ SendExclusive /\ [Next]_vars => SendExclusive'
<1> SUFFICES ASSUME TypeOK, Started, SendExclusive, [Next]_vars PROVE SendExclusive'
  OBVIOUS
<1> USE DEF TypeOK, SendExclusive, conns, threads, peers
<1>1. CASE NoSendChange
  BY <1>1 DEF NoSendChange
<1>2. ASSUME NEW c \in Conns, processLock(c) PROVE SendExclusive'
  <2>1. fdOf[c] \in Fds
    BY <1>2, Running DEF processLock
  <2>. QED BY <1>2, <2>1 DEF processLock
<1>3. ASSUME NEW c \in Conns, eachSendLock(c) PROVE SendExclusive'
  <2>1. fdOf[c] \in Fds
    BY <1>3, Running DEF eachSendLock
  <2>. QED BY <1>3, <2>1 DEF eachSendLock
<1>4. ASSUME NEW c \in Conns, processReply(c) PROVE SendExclusive'
  BY <1>4 DEF processReply
<1>5. ASSUME NEW c \in Conns, eachSendSent(c) PROVE SendExclusive'
  BY <1>5 DEF eachSendSent
<1>6. ASSUME NEW c \in Conns, eachSendTimeout(c) PROVE SendExclusive'
  BY <1>6 DEF eachSendTimeout
<1>7. ASSUME NEW c \in Conns, eachSendError(c) PROVE SendExclusive'
  BY <1>7 DEF eachSendError
<1>. QED
  BY <1>1, <1>2, <1>3, <1>4, <1>5, <1>6, <1>7, SendFrame DEF takesLock, releasesLock

-----------------------------------------------------------------------------
\* Nothing is left behind.

\* Only the last step of an eachSendThread ends it, and it removes the read
\* index it had.
LEMMA NoOrphanNext ==
  TypeOK /\ Started /\ NoOrphanVisitor /\ [Next]_vars => NoOrphanVisitor'
<1> SUFFICES ASSUME TypeOK, Started, NoOrphanVisitor, [Next]_vars PROVE NoOrphanVisitor'
  OBVIOUS
<1> USE DEF TypeOK, NoOrphanVisitor, Sending, conns, threads, peers, queue
<1>1. CASE accept
  <2>1. PICK fd \in Fds : fdOf' = [fdOf EXCEPT ![accepted + 1] = fd]
    BY <1>1 DEF accept
  <2>2. \A d \in Conns : Sending(d) => d # accepted + 1
    BY DEF Started, Conns
  <2>. QED BY <1>1, <2>1, <2>2 DEF accept
<1>2. CASE acceptFail
  BY <1>2 DEF acceptFail
<1>3. CASE fillSlot
  BY <1>3 DEF fillSlot
<1>4. CASE writeQueueThread
  BY <1>4 DEF writeQueueThread, Q!Publish
<1>5. ASSUME NEW c \in Conns, processThread(c) PROVE NoOrphanVisitor'
  BY <1>5 DEF processThread, processRecv, processRecvBody, processMisread,
              processFail, processLock, processReply, processClose,
              closeClient
<1>6. ASSUME NEW c \in Conns, eachSendThread(c) PROVE NoOrphanVisitor'
  <2>1. CASE eachSendRead(c)
    <3>1. Sending(c) /\ Sending(c)' /\ fdOf' = fdOf
          /\ \A d \in Conns : Sending(d) => Sending(d)'
      BY <2>1 DEF eachSendRead
    <3>2. members' \subseteq members \union {fdOf[c]}
      BY <2>1 DEF eachSendRead, Q!Join, Q!Receive
    <3>. QED BY <3>1, <3>2
  <2>2. CASE eachSendRemove(c)
    <3>1. /\ members' = members \ {fdOf[c]} /\ fdOf' = fdOf
          /\ \A d \in Conns \ {c} : Sending(d) => Sending(d)'
      BY <2>2 DEF eachSendRemove, Q!Leave
    <3>. QED BY <3>1
  <2>3. CASE eachSendCheck(c) \/ eachSendLock(c) \/ eachSendSent(c)
             \/ eachSendTimeout(c) \/ eachSendError(c)
    BY <2>3 DEF eachSendCheck, eachSendLock, eachSendSent, eachSendTimeout, eachSendError,
                closeClient
  <2>. QED BY <1>6, <2>1, <2>2, <2>3 DEF eachSendThread
<1>7. ASSUME NEW c \in Conns, peerStep(c) PROVE NoOrphanVisitor'
  BY <1>7 DEF peerStep, peerRequest, peerStop, peerLeave
<1>8. CASE UNCHANGED vars
  BY <1>8 DEF vars
<1>. QED
  BY <1>1, <1>2, <1>3, <1>4, <1>5, <1>6, <1>7, <1>8 DEF Next, acceptThread

\* A processThread ends by closing its descriptor and clearing its slot; a
\* descriptor is opened before, and a slot filled when, its thread starts.
LEMMA NothingLeakedNext ==
  TypeOK /\ Started /\ NothingLeaked /\ [Next]_vars => NothingLeaked'
<1> SUFFICES ASSUME TypeOK, Started, NothingLeaked, [Next]_vars PROVE NothingLeaked'
  OBVIOUS
<1> USE DEF TypeOK, NothingLeaked, Receiving, conns, threads, peers, queue
<1>0. \A d \in Conns : Receiving(d) => d <= accepted /\ fdOf[d] \in Fds
  BY Running DEF Started
<1>1. CASE accept
  <2>1. PICK fd \in Fds : /\ open[fd] = 0
                          /\ open' = [open EXCEPT ![fd] = accepted + 1]
                          /\ fdOf' = [fdOf EXCEPT ![accepted + 1] = fd]
    BY <1>1 DEF accept
  <2>2. /\ accepted' = accepted + 1 /\ acceptor' = "slot" /\ acceptor = "accept"
        /\ proc' = proc /\ client' = client
    BY <1>1 DEF accept
  <2>3. \A d \in Conns : Receiving(d) => fdOf'[d] = fdOf[d]
    BY <1>0, <2>1 DEF Conns
  <2>. QED BY <2>1, <2>2, <2>3
<1>2. CASE acceptFail
  BY <1>2 DEF acceptFail
<1>3. CASE fillSlot
  <2>1. accepted \in Conns /\ fdOf[accepted] \in Fds /\ proc[accepted] = "none"
    BY <1>3, FdsAssumption, BoundsAssumption DEF fillSlot, Started, Conns
  <2>. QED BY <1>3, <2>1 DEF fillSlot
<1>4. CASE writeQueueThread
  BY <1>4 DEF writeQueueThread
<1>5. ASSUME NEW c \in Conns, processThread(c) PROVE NothingLeaked'
  <2>1. CASE processClose(c)
    <3>1. \A fd \in Fds : open[fd] = c => fd = fdOf[c]
      BY DEF Started, Conns
    <3>2. /\ fdOf[c] \in Fds
          /\ open' = [open EXCEPT ![fdOf[c]] = 0]
          /\ client' = [client EXCEPT ![fdOf[c]] = 0]
          /\ \A d \in Conns \ {c} : proc'[d] = proc[d]
          /\ UNCHANGED <<accepted, acceptor, fdOf>>
      BY <2>1, Running DEF processClose, closeClient
    <3>3. ASSUME NEW fd \in Fds, open'[fd] # 0
          PROVE  \/ acceptor' = "slot" /\ open'[fd] = accepted'
                 \/ proc'[open'[fd]] \notin {"none", "done"}
      <4>1. open'[fd] = open[fd] /\ open[fd] \in Conns \ {c}
        BY <3>1, <3>2, <3>3 DEF Conns
      <4>2. \/ acceptor = "slot" /\ open[fd] = accepted
            \/ proc[open[fd]] \notin {"none", "done"}
        BY <3>3, <4>1
      <4>3. proc'[open[fd]] = proc[open[fd]]
        BY <3>2, <4>1
      <4>. QED
        <5> HIDE DEF TypeOK, NothingLeaked
        <5>. QED BY <3>2, <4>1, <4>2, <4>3
    <3>4. ASSUME NEW fd \in Fds, client'[fd] # 0
          PROVE  \E d \in Conns : fdOf'[d] = fd /\ Receiving(d)'
      <4>1. client'[fd] = client[fd] /\ fd # fdOf[c]
        BY <3>2, <3>4
      <4>2. PICK d \in Conns : fdOf[d] = fd /\ Receiving(d)
        BY <3>4, <4>1
      <4>3. d # c
        BY <4>1, <4>2
      <4>. QED BY <3>2, <4>2, <4>3
    <3>. QED
      <4> HIDE DEF TypeOK
      <4>. QED BY <3>3, <3>4
  <2>2. CASE processRecv(c) \/ processRecvBody(c) \/ processMisread(c) \/ processFail(c)
             \/ processLock(c) \/ processReply(c)
    <3>1. /\ UNCHANGED <<accepted, acceptor, fdOf, open, client>>
          /\ \A d \in Conns : Receiving(d) => Receiving(d)'
      BY <2>2 DEF processRecv, processRecvBody, processMisread, processFail,
                processLock, processReply
    <3>2. \A fd \in Fds : open[fd] # 0 => open[fd] \in Conns
      BY DEF Conns
    <3>. QED
      <4> HIDE DEF TypeOK, Receiving
      <4>. QED BY <3>1, <3>2
  <2>. QED BY <1>5, <2>1, <2>2 DEF processThread
<1>6. ASSUME NEW c \in Conns, eachSendThread(c) PROVE NothingLeaked'
  <2>1. CASE eachSendError(c)
    BY <2>1 DEF eachSendError, closeClient
  <2>2. CASE ~ eachSendError(c)
    BY <1>6, <2>2 DEF eachSendThread, eachSendCheck, eachSendRead, eachSendLock,
                      eachSendSent, eachSendTimeout, eachSendRemove
  <2>. QED BY <2>1, <2>2
<1>7. ASSUME NEW c \in Conns, peerStep(c) PROVE NothingLeaked'
  BY <1>7 DEF peerStep, peerRequest, peerStop, peerLeave
<1>8. CASE UNCHANGED vars
  BY <1>8 DEF vars
<1>. QED
  BY <1>1, <1>2, <1>3, <1>4, <1>5, <1>6, <1>7, <1>8 DEF Next, acceptThread

-----------------------------------------------------------------------------
\* Chunks in order.

Order == Numbered /\ InOrderUnlessReused

\* InOrderUnlessReused with the chunks of descriptor fd named.
InOrder(c, s) ==
  /\ held[c] # 0 => lastSent[c] < held[c]
  /\ \A i \in 1 .. Len(s) : lastSent[c] < s[i] /\ held[c] < s[i]
  /\ \A i, j \in 1 .. Len(s) : i < j => s[i] < s[j]

LEMMA InOrderDef ==
  InOrderUnlessReused <=> \A c \in Conns : Unshared(c) => InOrder(c, pending[fdOf[c]])
BY DEF InOrderUnlessReused, InOrder

\* Most steps move no chunk.
NoChunkMoves ==
  /\ UNCHANGED <<accepted, fdOf, held, lastSent, written, members, pending>>
  /\ \A c \in Conns : send[c] \in {"lock", "sending"} => send'[c] \in {"lock", "sending"}

movesChunk(c) ==
  \/ eachSendRead(c) \/ eachSendSent(c) \/ eachSendTimeout(c)
  \/ eachSendError(c) \/ eachSendRemove(c)

LEMMA ChunkFrame ==
  ASSUME TypeOK, Started, [Next]_vars
  PROVE  \/ NoChunkMoves \/ accept \/ writeQueueThread
         \/ \E c \in Conns : movesChunk(c)
<1> USE DEF TypeOK, conns, threads, peers, queue
<1>1. CASE acceptFail
  BY <1>1 DEF acceptFail, NoChunkMoves
<1>2. CASE fillSlot
  BY <1>2 DEF fillSlot, Started, NoChunkMoves
<1>3. ASSUME NEW c \in Conns, processThread(c) PROVE NoChunkMoves
  BY <1>3 DEF processThread, processRecv, processRecvBody, processMisread,
              processFail, processLock, processReply,
              processClose, closeClient, NoChunkMoves
<1>4. ASSUME NEW c \in Conns, eachSendThread(c) PROVE NoChunkMoves \/ movesChunk(c)
  BY <1>4 DEF eachSendThread, eachSendCheck, eachSendLock, movesChunk, NoChunkMoves
<1>5. ASSUME NEW c \in Conns, peerStep(c) PROVE NoChunkMoves
  BY <1>5 DEF peerStep, peerRequest, peerStop, peerLeave, NoChunkMoves
<1>6. CASE UNCHANGED vars
  BY <1>6 DEF vars, NoChunkMoves
<1>. QED
  BY <1>1, <1>2, <1>3, <1>4, <1>5, <1>6 DEF Next, acceptThread

\* A new connection on a descriptor nobody had starts with nothing pending.
LEMMA OrderAccept ==
  ASSUME TypeOK, Started, NoOrphanVisitor, Order, accept
  PROVE  Order'
<1>1. PICK fd \in Fds : fdOf' = [fdOf EXCEPT ![accepted + 1] = fd]
  BY DEF accept
<1>2. /\ accepted + 1 \in Conns /\ accepted' = accepted + 1
      /\ UNCHANGED <<send, held, lastSent, written, members, pending>>
  BY BoundsAssumption DEF accept, TypeOK, Conns, threads, queue
<1>3. fdOf[accepted + 1] = 0 /\ send[accepted + 1] = "none" /\ fd # 0
  BY <1>2, FdsAssumption DEF TypeOK, Started, Conns
<1>4. Numbered'
  BY <1>2 DEF Order, Numbered, TypeOK, Conns
<1>5. ASSUME NEW c \in Conns, Unshared(c)'
      PROVE  InOrder(c, pending[fdOf'[c]])
  <2>1. CASE c = accepted + 1
    <3>1. fdOf'[c] = fd /\ \A d \in Conns : fdOf[d] # fd
      BY <1>1, <1>2, <1>3, <1>5, <2>1 DEF Unshared, TypeOK
    <3>2. fd \notin members
      BY <3>1 DEF NoOrphanVisitor
    <3>3. pending[fd] = << >>
      BY <3>2 DEF Order, Numbered
    <3>4. accepted \in Nat /\ c > accepted /\ send[c] = "none"
      BY <1>3, <2>1 DEF TypeOK, Conns
    <3>5. lastSent[c] = 0 /\ held[c] = 0
      BY <3>4 DEF Order, Numbered
    <3>. QED BY <3>1, <3>3, <3>5 DEF InOrder
  <2>2. CASE c # accepted + 1
    <3>1. fdOf'[c] = fdOf[c] /\ Unshared(c)
      BY <1>1, <1>2, <1>3, <1>5, <2>2 DEF Unshared, TypeOK
    <3>. QED BY <3>1, InOrderDef DEF Order
  <2>. QED BY <2>1, <2>2
<1>6. InOrderUnlessReused'
  BY <1>2, <1>5 DEF InOrderUnlessReused, InOrder
<1>. QED BY <1>4, <1>6 DEF Order

\* What is written is later than everything before it.
LEMMA OrderWrite ==
  ASSUME TypeOK, Order, writeQueueThread
  PROVE  Order'
<1>1. /\ written \in Nat /\ written' = written + 1
      /\ UNCHANGED <<accepted, fdOf, send, held, lastSent, members>>
      /\ pending' = [v \in Fds |-> IF v \in members THEN Append(pending[v], written + 1)
                                                    ELSE << >>]
  BY BoundsAssumption
     DEF writeQueueThread, Q!Publish, TypeOK, conns, threads, peers
<1>2. ASSUME NEW fd \in Fds
      PROVE  \/ pending'[fd] = << >>
             \/ /\ Len(pending'[fd]) = Len(pending[fd]) + 1
                /\ pending'[fd][Len(pending[fd]) + 1] = written + 1
                /\ \A i \in 1 .. Len(pending[fd]) : pending'[fd][i] = pending[fd][i]
  <2>1. pending[fd] \in Seq(1 .. MaxChunks)
    BY DEF TypeOK, Q!TypeOK
  <2>2. CASE fd \in members
    <3>1. pending'[fd] = Append(pending[fd], written + 1)
      BY <1>1, <2>2
    <3>. QED BY <2>1, <3>1, AppendProperties
  <2>3. CASE fd \notin members
    BY <1>1, <2>3
  <2>. QED BY <2>2, <2>3
<1>3. \A fd \in Fds : /\ pending[fd] \in Seq(1 .. MaxChunks) /\ Len(pending[fd]) \in Nat
                      /\ \A i \in 1 .. Len(pending[fd]) : pending[fd][i] \in Nat
  <2>1. ASSUME NEW fd \in Fds
        PROVE  pending[fd] \in Seq(1 .. MaxChunks)
    BY DEF TypeOK, Q!TypeOK
  <2>. QED BY <2>1, BoundsAssumption
<1>4. \A c \in Conns : held[c] \in Nat /\ lastSent[c] \in Nat
  BY BoundsAssumption DEF TypeOK
<1>5. Numbered'
  <2>1. \A c \in Conns :
          /\ send'[c] \notin {"lock", "sending"} => held'[c] = 0
          /\ c > accepted' => lastSent'[c] = 0
          /\ held'[c] <= written'
          /\ lastSent'[c] <= written'
    BY <1>1, <1>4 DEF Order, Numbered
  <2>2. ASSUME NEW fd \in Fds
        PROVE  /\ fd \notin members' => pending'[fd] = << >>
               /\ \A i \in 1 .. Len(pending'[fd]) : pending'[fd][i] <= written'
    <3>1. \A i \in 1 .. Len(pending[fd]) : pending[fd][i] <= written
      BY DEF Order, Numbered
    <3>. QED BY <1>1, <1>2, <1>3, <3>1
  <2>. QED BY <2>1, <2>2 DEF Numbered
<1>6. ASSUME NEW c \in Conns, Unshared(c)
      PROVE  InOrder(c, pending'[fdOf[c]])
  <2>1. fdOf[c] \in Fds
    BY <1>6 DEF Unshared, TypeOK
  <2>2. InOrder(c, pending[fdOf[c]])
    BY <1>6, InOrderDef DEF Order
  <2>3. /\ held[c] <= written /\ lastSent[c] <= written
        /\ \A i \in 1 .. Len(pending[fdOf[c]]) : pending[fdOf[c]][i] <= written
    BY <2>1 DEF Order, Numbered
  <2> DEFINE s == pending[fdOf[c]]
             t == pending'[fdOf[c]]
  <2>4. \/ t = << >>
        \/ /\ Len(t) = Len(s) + 1 /\ t[Len(s) + 1] = written + 1
           /\ \A i \in 1 .. Len(s) : t[i] = s[i]
    BY <1>2, <2>1
  <2>5. /\ Len(s) \in Nat /\ \A i \in 1 .. Len(s) : s[i] \in Nat
        /\ held[c] \in Nat /\ lastSent[c] \in Nat /\ written \in Nat
    BY <1>1, <1>3, <1>4, <2>1
  <2> HIDE DEF s, t
  <2>6. InOrder(c, s)
    BY <2>2 DEF s
  <2>7. \A i \in 1 .. Len(s) : s[i] <= written
    BY <2>3 DEF s
  <2>8. InOrder(c, t)
    <3>1. CASE t = << >>
      BY <2>6, <3>1 DEF InOrder
    <3>2. CASE /\ Len(t) = Len(s) + 1 /\ t[Len(s) + 1] = written + 1
               /\ \A i \in 1 .. Len(s) : t[i] = s[i]
      <4>1. ASSUME NEW i \in 1 .. Len(t)
            PROVE  lastSent[c] < t[i] /\ held[c] < t[i]
        BY <2>3, <2>5, <2>6, <3>2, <4>1 DEF InOrder
      <4>2. ASSUME NEW i \in 1 .. Len(t), NEW j \in 1 .. Len(t), i < j
            PROVE  t[i] < t[j]
        <5>1. i \in 1 .. Len(s) /\ t[i] = s[i] /\ s[i] <= written
          BY <2>5, <2>7, <3>2, <4>2
        <5>2. CASE j = Len(s) + 1
          BY <2>5, <3>2, <5>1, <5>2
        <5>3. CASE j # Len(s) + 1
          <6>1. j \in 1 .. Len(s) /\ t[j] = s[j]
            BY <2>5, <3>2, <5>3
          <6>. QED BY <2>6, <4>2, <5>1, <6>1 DEF InOrder
        <5>. QED BY <5>2, <5>3
      <4>. QED BY <2>6, <4>1, <4>2 DEF InOrder
    <3>. QED BY <2>4, <3>1, <3>2
  <2>. QED BY <2>8 DEF t
<1>7. InOrderUnlessReused'
  <2>1. \A c \in Conns : Unshared(c)' <=> Unshared(c)
    BY <1>1 DEF Unshared
  <2>2. fdOf' = fdOf /\ held' = held /\ lastSent' = lastSent
    BY <1>1
  <2>. QED BY <1>6, <2>1, <2>2 DEF InOrderUnlessReused, InOrder
<1>. QED BY <1>5, <1>7 DEF Order

\* A step of c's eachSendThread touches only what the connections on c's
\* descriptor have, so Order is left to show of c alone.
onlyAt(c) ==
  /\ UNCHANGED <<accepted, fdOf, written>>
  /\ \A e \in Conns \ {c} : held'[e] = held[e] /\ send'[e] = send[e]
  /\ \A e \in Conns : fdOf[e] # fdOf[c] => lastSent'[e] = lastSent[e]
  /\ \A fd \in Fds \ {fdOf[c]} :
       pending'[fd] = pending[fd] /\ (fd \in members' <=> fd \in members)

\* What Numbered says of c and of its descriptor, after the step.
numberedAt(c) ==
  /\ send'[c] \notin {"lock", "sending"} => held'[c] = 0
  /\ held'[c] <= written
  /\ \A e \in Conns : fdOf[e] = fdOf[c] => lastSent'[e] <= written
  /\ fdOf[c] \notin members' => pending'[fdOf[c]] = << >>
  /\ \A i \in 1 .. Len(pending'[fdOf[c]]) : pending'[fdOf[c]][i] <= written

inOrderAt(c) ==
  LET s == pending'[fdOf[c]]
  IN  /\ held'[c] # 0 => lastSent'[c] < held'[c]
      /\ \A i \in 1 .. Len(s) : lastSent'[c] < s[i] /\ held'[c] < s[i]
      /\ \A i, j \in 1 .. Len(s) : i < j => s[i] < s[j]

LEMMA OrderAt ==
  ASSUME TypeOK, Started, Order, NEW c \in Conns, fdOf[c] \in Fds,
         onlyAt(c), numberedAt(c), Unshared(c) => inOrderAt(c)
  PROVE  Order'
<1>1. /\ accepted' = accepted /\ fdOf' = fdOf /\ written' = written
      /\ fdOf[c] # 0
  BY FdsAssumption DEF onlyAt
<1>2. Numbered'
  <2>1. ASSUME NEW e \in Conns
        PROVE  /\ send'[e] \notin {"lock", "sending"} => held'[e] = 0
               /\ e > accepted => lastSent'[e] = 0
               /\ held'[e] <= written
               /\ lastSent'[e] <= written
    <3>1. e > accepted => fdOf[e] # fdOf[c]
      BY <1>1 DEF Started, TypeOK, Conns
    <3>2. /\ send[e] \notin {"lock", "sending"} => held[e] = 0
          /\ e > accepted => lastSent[e] = 0
          /\ held[e] <= written
          /\ lastSent[e] <= written
      BY DEF Order, Numbered
    <3>. QED BY <3>1, <3>2 DEF onlyAt, numberedAt
  <2>2. ASSUME NEW fd \in Fds
        PROVE  /\ fd \notin members' => pending'[fd] = << >>
               /\ \A i \in 1 .. Len(pending'[fd]) : pending'[fd][i] <= written
    <3>1. /\ fd \notin members => pending[fd] = << >>
          /\ \A i \in 1 .. Len(pending[fd]) : pending[fd][i] <= written
      BY DEF Order, Numbered
    <3>. QED BY <3>1 DEF onlyAt, numberedAt
  <2>. QED BY <1>1, <2>1, <2>2 DEF Numbered
<1>3. ASSUME NEW e \in Conns, e # c, Unshared(e)
      PROVE  InOrder(e, pending[fdOf[e]]) /\ held'[e] = held[e]
             /\ lastSent'[e] = lastSent[e] /\ pending'[fdOf[e]] = pending[fdOf[e]]
  <2>1. fdOf[e] \in Fds \ {fdOf[c]}
    BY <1>3 DEF Unshared, TypeOK
  <2>. QED BY <1>3, <2>1, InOrderDef DEF Order, onlyAt
<1>4. \A e \in Conns : Unshared(e)' <=> Unshared(e)
  BY <1>1 DEF Unshared
<1>5. InOrderUnlessReused'
  BY <1>1, <1>3, <1>4, SMTT(30) DEF InOrderUnlessReused, InOrder, inOrderAt
<1>. QED BY <1>2, <1>5 DEF Order

\* Taking the oldest chunk of s leaves the later ones in order.
LEMMA HeadFirst ==
  ASSUME NEW s \in Seq(Nat), s # << >>, NEW n \in Nat,
         \A i \in 1 .. Len(s) : n < s[i],
         \A i, j \in 1 .. Len(s) : i < j => s[i] < s[j]
  PROVE  /\ n < Head(s)
         /\ \A i \in 1 .. Len(Tail(s)) : Head(s) < Tail(s)[i] /\ n < Tail(s)[i]
         /\ \A i, j \in 1 .. Len(Tail(s)) : i < j => Tail(s)[i] < Tail(s)[j]
<1>1. /\ Len(s) \in Nat /\ Len(s) >= 1 /\ Head(s) = s[1]
      /\ Len(Tail(s)) = Len(s) - 1
      /\ \A i \in 1 .. Len(Tail(s)) : Tail(s)[i] = s[i + 1]
  BY HeadTailProperties, EmptySeq, LenProperties
<1>2. \A i \in 1 .. Len(Tail(s)) : i \in Nat /\ i + 1 \in 1 .. Len(s) /\ 1 < i + 1
  BY <1>1
<1>3. 1 \in 1 .. Len(s)
  BY <1>1
<1>4. \A i, j \in 1 .. Len(Tail(s)) : i < j => i + 1 < j + 1
  BY <1>2
<1>. QED BY <1>1, <1>2, <1>3, <1>4

LEMMA OrderRead ==
  ASSUME TypeOK, Started, Order, NEW c \in Conns, eachSendRead(c)
  PROVE  Order'
<1>1. /\ fdOf[c] \in Fds /\ send[c] = "read" /\ held[c] = 0 /\ held[c] \in Nat
      /\ UNCHANGED <<accepted, fdOf, written, lastSent>>
      /\ \A e \in Conns : lastSent[e] \in Nat /\ lastSent[e] <= written
  <2>1. fdOf[c] \in Fds /\ send[c] = "read"
    BY Running DEF eachSendRead
  <2>2. UNCHANGED <<accepted, fdOf, written, lastSent>>
    BY DEF eachSendRead, conns, peers
  <2>3. \A e \in Conns : held[e] \in Nat /\ lastSent[e] \in Nat
    BY BoundsAssumption DEF TypeOK
  <2>. QED BY <2>1, <2>2, <2>3 DEF Order, Numbered
<1>2. \A e \in Conns \ {c} : held'[e] = held[e] /\ send'[e] = send[e]
  BY DEF eachSendRead, TypeOK
<1> DEFINE s == pending[fdOf[c]]
<1>3. /\ s \in Seq(Nat)
      /\ \A i \in 1 .. Len(s) : s[i] <= written
      /\ fdOf[c] \notin members => s = << >>
      /\ written \in Nat
  BY <1>1, BoundsAssumption DEF Order, Numbered, TypeOK, Q!TypeOK
<1>4. Unshared(c) => /\ \A i \in 1 .. Len(s) : lastSent[c] < s[i]
                     /\ \A i, j \in 1 .. Len(s) : i < j => s[i] < s[j]
  BY DEF Order, InOrderUnlessReused
<1>5. CASE Q!Join(fdOf[c])
  <2>1. /\ pending' = [pending EXCEPT ![fdOf[c]] = << >>]
        /\ members' = members \union {fdOf[c]}
        /\ send'[c] = "check" /\ held'[c] = 0
    BY <1>1, <1>5 DEF eachSendRead, Q!Join, Q!Receive, TypeOK, queue
  <2>2. onlyAt(c)
    BY <1>1, <1>2, <2>1 DEF onlyAt, TypeOK, Q!TypeOK
  <2>3. pending'[fdOf[c]] = << >>
    BY <1>1, <2>1 DEF TypeOK, Q!TypeOK
  <2>4. numberedAt(c) /\ inOrderAt(c)
    BY <1>1, <1>3, <2>1, <2>3 DEF numberedAt, inOrderAt
  <2>. QED BY <1>1, <2>2, <2>4, OrderAt
<1>6. CASE /\ send' = [send EXCEPT ![c] = "check"] /\ UNCHANGED <<held, queue>>
  <2>1. onlyAt(c) /\ numberedAt(c)
    BY <1>1, <1>2, <1>3, <1>6 DEF onlyAt, numberedAt, queue
  <2>2. Unshared(c) => inOrderAt(c)
    BY <1>1, <1>6 DEF Order, InOrderUnlessReused, inOrderAt, queue
  <2>. QED BY <1>1, <2>1, <2>2, OrderAt
<1>7. CASE Q!Receive(fdOf[c])
  <2>1. /\ pending' = [pending EXCEPT ![fdOf[c]] = Tail(s)]
        /\ fdOf[c] \in members /\ members' = members
        /\ s # << >>
        /\ chunk'[fdOf[c]] = Head(s)
    BY <1>1, <1>7 DEF Q!Receive, TypeOK, Q!TypeOK
  <2>2. \/ send'[c] = "lock" /\ held'[c] = Head(s)
        \/ send'[c] = "check" /\ held'[c] = 0
    BY <1>1, <1>7, <2>1 DEF eachSendRead, Q!Join, Q!Receive, TypeOK
  <2>3. onlyAt(c)
    BY <1>1, <1>2, <2>1 DEF onlyAt, TypeOK, Q!TypeOK
  <2>4. pending'[fdOf[c]] = Tail(s)
    BY <1>1, <2>1 DEF TypeOK, Q!TypeOK
  <2> HIDE DEF s
  <2>5. /\ Len(s) >= 1 /\ Len(s) \in Nat /\ Head(s) = s[1] /\ Len(Tail(s)) = Len(s) - 1
        /\ \A i \in 1 .. Len(Tail(s)) : Tail(s)[i] = s[i + 1]
    BY <1>3, <2>1, HeadTailProperties, EmptySeq, LenProperties
  <2>6. numberedAt(c)
    <3>1. Head(s) <= written /\ \A i \in 1 .. Len(Tail(s)) : Tail(s)[i] <= written
      <4>1. \A i \in 1 .. Len(Tail(s)) : i + 1 \in 1 .. Len(s)
        BY <2>5
      <4>. QED BY <1>3, <2>5, <4>1
    <3>2. /\ send'[c] \notin {"lock", "sending"} => held'[c] = 0
          /\ held'[c] <= written
          /\ fdOf[c] \in members'
      BY <1>3, <2>1, <2>2, <3>1
    <3>3. \A e \in Conns : lastSent'[e] <= written
      BY <1>1
    <3>. QED BY <2>4, <3>1, <3>2, <3>3 DEF numberedAt
  <2>7. ASSUME Unshared(c) PROVE inOrderAt(c)
    <3>1. /\ lastSent[c] < Head(s)
          /\ \A i \in 1 .. Len(Tail(s)) : Head(s) < Tail(s)[i] /\ lastSent[c] < Tail(s)[i]
          /\ \A i, j \in 1 .. Len(Tail(s)) : i < j => Tail(s)[i] < Tail(s)[j]
      BY <1>1, <1>3, <1>4, <2>1, <2>7, HeadFirst
    <3>2. \A i \in 1 .. Len(Tail(s)) : 0 < Tail(s)[i]
      <4>1. \A i \in 1 .. Len(Tail(s)) : i + 1 \in 1 .. Len(s) /\ Tail(s)[i] \in Nat
        BY <1>3, <2>5
      <4>. QED BY <1>1, <3>1, <4>1
    <3>. QED BY <1>1, <2>2, <2>4, <3>1, <3>2 DEF inOrderAt
  <2>. QED BY <1>1, <2>3, <2>6, <2>7, OrderAt
<1>. QED BY <1>5, <1>6, <1>7 DEF eachSendRead

\* The socket a chunk goes to is that of a connection on the same descriptor.
LEMMA OrderSent ==
  ASSUME TypeOK, Started, Order, NEW c \in Conns,
         eachSendSent(c) \/ eachSendTimeout(c) \/ eachSendError(c)
  PROVE  Order'
<1>1. /\ fdOf[c] \in Fds /\ send[c] = "sending"
      /\ UNCHANGED <<accepted, fdOf, written, members, pending>>
      /\ held' = [held EXCEPT ![c] = 0]
      /\ \A e \in Conns \ {c} : send'[e] = send[e]
  BY Running DEF eachSendSent, eachSendTimeout, eachSendError, closeClient, queue, TypeOK, peers
<1>2. lastSent' = lastSent
      \/ \E d \in Conns : fdOf[d] = fdOf[c] /\ lastSent' = [lastSent EXCEPT ![d] = held[c]]
  <2>1. CASE eachSendSent(c)
    <3>1. open[fdOf[c]] \in Conns
      BY <1>1, <2>1 DEF eachSendSent, Behind, TypeOK, Conns
    <3>2. fdOf[open[fdOf[c]]] = fdOf[c]
      BY <1>1, <3>1 DEF Started, Conns
    <3>3. lastSent' = [lastSent EXCEPT ![open[fdOf[c]]] = held[c]]
      BY <2>1 DEF eachSendSent
    <3>. QED BY <3>1, <3>2, <3>3
  <2>2. CASE eachSendTimeout(c) \/ eachSendError(c)
    BY <2>2 DEF eachSendTimeout, eachSendError, peers
  <2>. QED BY <2>1, <2>2
<1>3. onlyAt(c)
  BY <1>1, <1>2 DEF onlyAt, TypeOK
<1>4. held'[c] = 0 /\ held[c] \in Nat /\ lastSent[c] \in Nat /\ written \in Nat
  BY <1>1, BoundsAssumption DEF TypeOK
<1>5. numberedAt(c)
  <2>1. \A e \in Conns : lastSent'[e] <= written
    BY <1>2 DEF Order, Numbered, TypeOK
  <2>. QED BY <1>1, <1>4, <2>1 DEF Order, Numbered, numberedAt
<1>6. ASSUME Unshared(c) PROVE inOrderAt(c)
  <2>1. lastSent'[c] \in {lastSent[c], held[c]}
    BY <1>2, <1>6 DEF Unshared, TypeOK
  <2>2. InOrder(c, pending[fdOf[c]])
    BY <1>6, InOrderDef DEF Order
  <2>3. \A i \in 1 .. Len(pending[fdOf[c]]) : 0 < pending[fdOf[c]][i]
    <3>1. pending[fdOf[c]] \in Seq(1 .. MaxChunks)
      BY <1>1 DEF TypeOK, Q!TypeOK
    <3>2. \A i \in 1 .. Len(pending[fdOf[c]]) : pending[fdOf[c]][i] \in 1 .. MaxChunks
      BY <3>1, ElementOfSeq
    <3>. QED BY <3>2, BoundsAssumption
  <2>. QED BY <1>1, <1>4, <2>1, <2>2, <2>3 DEF InOrder, inOrderAt
<1>. QED BY <1>1, <1>3, <1>5, <1>6, OrderAt

LEMMA OrderRemove ==
  ASSUME TypeOK, Started, Order, NEW c \in Conns, eachSendRemove(c)
  PROVE  Order'
<1>1. /\ fdOf[c] \in Fds /\ held[c] = 0
      /\ UNCHANGED <<accepted, fdOf, written, held, lastSent>>
      /\ members' = members \ {fdOf[c]}
      /\ pending' = [pending EXCEPT ![fdOf[c]] = << >>]
      /\ \A e \in Conns \ {c} : send'[e] = send[e]
  BY Running DEF eachSendRemove, Q!Leave, Order, Numbered, TypeOK, conns, peers
<1>2. onlyAt(c) /\ pending'[fdOf[c]] = << >>
  BY <1>1 DEF onlyAt, TypeOK, Q!TypeOK
<1>3. /\ written \in Nat /\ 0 <= written
      /\ \A e \in Conns : lastSent[e] <= written
  BY BoundsAssumption DEF TypeOK, Order, Numbered
<1>4. numberedAt(c) /\ inOrderAt(c)
  BY <1>1, <1>2, <1>3 DEF numberedAt, inOrderAt
<1>. QED BY <1>1, <1>2, <1>4, OrderAt

LEMMA OrderNext ==
  TypeOK /\ Started /\ NoOrphanVisitor /\ Order /\ [Next]_vars => Order'
<1> SUFFICES ASSUME TypeOK, Started, NoOrphanVisitor, Order, [Next]_vars PROVE Order'
  OBVIOUS
<1>1. CASE NoChunkMoves
  <2>1. Numbered'
    BY <1>1 DEF NoChunkMoves, Order, Numbered
  <2>2. InOrderUnlessReused'
    BY <1>1 DEF NoChunkMoves, Order, InOrderUnlessReused, Unshared
  <2>. QED BY <2>1, <2>2 DEF Order
<1>2. ASSUME NEW c \in Conns, movesChunk(c) PROVE Order'
  BY <1>2, OrderRead, OrderSent, OrderRemove DEF movesChunk
<1>. QED BY <1>1, <1>2, ChunkFrame, OrderAccept, OrderWrite

-----------------------------------------------------------------------------
Inv ==
  /\ TypeOK /\ Started
  /\ SendExclusive /\ NoOrphanVisitor /\ NothingLeaked /\ Order

LEMMA InvInit == Init => Inv
<1> SUFFICES ASSUME Init PROVE Inv
  OBVIOUS
<1>1. TypeOK /\ Started /\ SendExclusive /\ NoOrphanVisitor /\ NothingLeaked
  BY TypeInit DEF Init, SendExclusive, NoOrphanVisitor, NothingLeaked, Q!Init, Conns
<1>2. Numbered /\ InOrderUnlessReused
  BY DEF Init, Q!Init, Numbered, InOrderUnlessReused, Unshared
<1>. QED BY <1>1, <1>2 DEF Inv, Order

LEMMA InvNext == Inv /\ [Next]_vars => Inv'
  BY TypeNext, StartedNext, SendExclusiveNext, NoOrphanNext, NothingLeakedNext, OrderNext
     DEF Inv

LEMMA Invariance == Spec => []Inv
  BY InvInit, InvNext, PTL DEF Spec

\* The state is what its types say (TcpServer.cpp:39-45).
THEOREM TypeCorrect == Spec => []TypeOK
BY Invariance, PTL DEF Inv

\* No two messages interleave on a socket (TcpServer.cpp:554-561, 831-845).
THEOREM SendsAreExclusive == Spec => []SendExclusive
BY Invariance, PTL DEF Inv

\* Every read index in the queue belongs to a running eachSendThread
\* (TcpServer.cpp:848-853).
THEOREM NoVisitorIsOrphaned == Spec => []NoOrphanVisitor
BY Invariance, PTL DEF Inv

\* Every open socket and every filled slot belongs to a running processThread
\* (TcpServer.cpp:473-476, 574-588).
THEOREM NoConnectionLeaks == Spec => []NothingLeaked
BY Invariance, PTL DEF Inv

\* A client that has its descriptor to itself is sent chunks in the order they
\* were written, none twice (TcpServer.cpp:765-846).
THEOREM ChunksInOrder == Spec => []InOrderUnlessReused
BY Invariance, PTL DEF Inv, Order

-----------------------------------------------------------------------------
\* Whom the queue waits for.

\* A thread of c is inside a send.
inSend(c) == proc[c] = "replying" \/ send[c] = "sending"

\* A slot's mutex that is held over a step is held by a thread inside a send.
LocksHeld == \A fd \in Fds : locked[fd] => \E c \in Conns : fdOf[c] = fd /\ inSend(c)

PeersKnown == \A c \in Conns : c <= accepted => peer[c] # "none"

\* The send that a thread of c is in can come to an end.
ends(c) ==
  \/ inSend(c) /\ Behind(c) \in {"reading", "gone", "closed"}
  \/ send[c] = "sending" /\ Behind(c) = "stopped" /\ Protocol = "MP2_DATA"

\* The eachSendThread of c has a step to take, or a thread of c is in a send that
\* can end.
goesOn(c) ==
  \/ send[c] \in {"read", "remove"}
  \/ send[c] \in {"check", "lock"} /\ ~ locked[fdOf[c]]
  \/ ends(c)

\* The client behind fd stopped reading, and a thread is in a send to it that
\* has no time-out.
wedged(fd) ==
  /\ open[fd] # 0 /\ peer[open[fd]] = "stopped"
  /\ \E c \in Conns :
       /\ fdOf[c] = fd
       /\ proc[c] = "replying" \/ (send[c] = "sending" /\ Protocol # "MP2_DATA")

\* Whoever has a read index, and may so hold up the writer, has a thread that can
\* go on, or waits for its mutex behind one that can: nobody waits for a mutex
\* that nobody will release, unless a client stopped reading in the middle of
\* a send without a time-out.
HeldUpByStopped ==
  \A fd \in members :
    wedged(fd) \/ \E c \in Conns : fdOf[c] = fd /\ goesOn(c)

\* No other step ends a send, or moves a sender to another descriptor.
SendersStay ==
  /\ locked' = locked
  /\ \A d \in Conns :
       /\ proc[d] = "replying" => proc'[d] = "replying" /\ fdOf'[d] = fdOf[d]
       /\ send[d] = "sending" => send'[d] = "sending" /\ fdOf'[d] = fdOf[d]

LEMMA StayFrame ==
  ASSUME TypeOK, Started, [Next]_vars
  PROVE  SendersStay \/ \E c \in Conns : takesLock(c) \/ releasesLock(c)
<1> USE DEF TypeOK, conns, threads, peers
<1>1. CASE accept
  <2>1. PICK fd \in Fds : fdOf' = [fdOf EXCEPT ![accepted + 1] = fd]
    BY <1>1 DEF accept
  <2>2. \A d \in Conns : proc[d] # "none" \/ send[d] # "none" => d # accepted + 1
    BY DEF Started, Conns
  <2>. QED BY <1>1, <2>1, <2>2 DEF accept, SendersStay
<1>2. CASE acceptFail
  BY <1>2 DEF acceptFail, SendersStay
<1>3. CASE fillSlot
  <2>1. \A d \in Conns : proc[d] # "none" \/ send[d] # "none" => d # accepted
    BY <1>3 DEF fillSlot, Started, Conns
  <2>. QED BY <1>3, <2>1 DEF fillSlot, SendersStay
<1>4. CASE writeQueueThread
  BY <1>4 DEF writeQueueThread, SendersStay
<1>5. ASSUME NEW c \in Conns, processThread(c)
      PROVE  SendersStay \/ takesLock(c) \/ releasesLock(c)
  BY <1>5 DEF processThread, processRecv, processRecvBody, processMisread,
              processFail, processClose, closeClient,
              takesLock, releasesLock, SendersStay
<1>6. ASSUME NEW c \in Conns, eachSendThread(c)
      PROVE  SendersStay \/ takesLock(c) \/ releasesLock(c)
  BY <1>6 DEF eachSendThread, eachSendCheck, eachSendRead, eachSendRemove,
              takesLock, releasesLock, SendersStay
<1>7. ASSUME NEW c \in Conns, peerStep(c) PROVE SendersStay
  BY <1>7 DEF peerStep, peerRequest, peerStop, peerLeave, SendersStay
<1>8. CASE UNCHANGED vars
  BY <1>8 DEF vars, SendersStay
<1>. QED
  BY <1>1, <1>2, <1>3, <1>4, <1>5, <1>6, <1>7, <1>8 DEF Next, acceptThread

LEMMA LocksHeldNext ==
  ASSUME TypeOK, Started, LocksHeld, [Next]_vars
  PROVE  LocksHeld'
<1>1. CASE SendersStay
  BY <1>1 DEF SendersStay, LocksHeld, inSend
<1>2. ASSUME NEW c \in Conns, takesLock(c) PROVE LocksHeld'
  <2>1. /\ fdOf' = fdOf /\ locked' = [locked EXCEPT ![fdOf[c]] = TRUE]
        /\ inSend(c)' /\ \A d \in Conns : inSend(d) => inSend(d)'
    BY <1>2 DEF takesLock, processLock, eachSendLock, inSend, TypeOK
  <2>. QED BY <2>1 DEF LocksHeld, TypeOK
<1>3. ASSUME NEW c \in Conns, releasesLock(c) PROVE LocksHeld'
  <2>1. /\ fdOf' = fdOf /\ locked' = [locked EXCEPT ![fdOf[c]] = FALSE]
        /\ \A d \in Conns : d # c /\ inSend(d) => inSend(d)'
    BY <1>3 DEF releasesLock, processReply, eachSendSent, eachSendTimeout, eachSendError,
                inSend, TypeOK
  <2>2. ASSUME NEW fd \in Fds, locked'[fd]
        PROVE  \E d \in Conns : fdOf[d] = fd /\ inSend(d)'
    <3>1. fd # fdOf[c] /\ locked[fd]
      BY <2>1, <2>2 DEF TypeOK
    <3>. QED BY <2>1, <3>1 DEF LocksHeld
  <2>. QED BY <2>1, <2>2 DEF LocksHeld
<1>. QED BY <1>1, <1>2, <1>3, StayFrame

LEMMA PeersKnownNext ==
  ASSUME TypeOK, PeersKnown, [Next]_vars
  PROVE  PeersKnown'
<1> USE DEF TypeOK, PeersKnown, conns, threads, peers
<1>1. CASE accept
  <2>1. \A c \in Conns : c <= accepted + 1 => c <= accepted \/ c = accepted + 1
    BY DEF Conns
  <2>. QED BY <1>1, <2>1 DEF accept
<1>2. CASE acceptFail \/ fillSlot \/ writeQueueThread
  BY <1>2 DEF acceptFail, fillSlot, writeQueueThread
<1>3. ASSUME NEW c \in Conns, processThread(c) PROVE PeersKnown'
  BY <1>3 DEF processThread, processRecv, processRecvBody, processMisread, processFail,
              processLock, processReply, processClose
<1>4. ASSUME NEW c \in Conns, eachSendThread(c) PROVE PeersKnown'
  BY <1>4 DEF eachSendThread, eachSendCheck, eachSendRead, eachSendLock, eachSendSent,
              eachSendTimeout, eachSendError, eachSendRemove
<1>5. ASSUME NEW c \in Conns, peerStep(c) PROVE PeersKnown'
  BY <1>5 DEF peerStep, peerRequest, peerStop, peerLeave
<1>6. CASE UNCHANGED vars
  BY <1>6 DEF vars
<1>. QED BY <1>1, <1>2, <1>3, <1>4, <1>5, <1>6 DEF Next, acceptThread

\* A send ends unless the client behind the descriptor stopped.
LEMMA SendEnds ==
  ASSUME TypeOK, Started, PeersKnown, NEW c \in Conns, inSend(c)
  PROVE  ends(c) \/ wedged(fdOf[c])
<1>1. fdOf[c] \in Fds
  BY Running DEF inSend
<1>2. CASE open[fdOf[c]] = 0
  BY <1>2 DEF Behind, ends
<1>3. CASE open[fdOf[c]] # 0
  <2> DEFINE d == open[fdOf[c]]
  <2>1. d \in Conns /\ d <= accepted
    <3>1. d \in Conns
      BY <1>1, <1>3 DEF TypeOK, Conns
    <3>2. fdOf[d] # 0
      BY <1>1, <1>3, FdsAssumption DEF Started
    <3>. QED BY <3>1, <3>2 DEF Started
  <2>2. peer[d] \in {"reading", "stopped", "gone"} /\ Behind(c) = peer[d]
    BY <1>3, <2>1 DEF TypeOK, PeersKnown, Behind
  <2>3. CASE peer[d] # "stopped"
    BY <2>2, <2>3 DEF ends
  <2>4. CASE peer[d] = "stopped"
    <3>1. CASE send[c] = "sending" /\ Protocol = "MP2_DATA"
      BY <2>2, <2>4, <3>1 DEF ends
    <3>2. CASE proc[c] = "replying" \/ (send[c] = "sending" /\ Protocol # "MP2_DATA")
      BY <1>3, <2>4, <3>2 DEF wedged
    <3>. QED BY <3>1, <3>2 DEF inSend
  <2>. QED BY <2>3, <2>4
<1>. QED BY <1>2, <1>3

\* What the theorems below need beside Inv.
Waits == LocksHeld /\ PeersKnown

LEMMA WaitsInvariance == Spec => [](Inv /\ Waits)
<1>1. Init => Inv /\ Waits
  <2>1. Init => LocksHeld /\ PeersKnown
    BY DEF Init, LocksHeld, PeersKnown, Conns
  <2>. QED BY <2>1, InvInit DEF Waits
<1>2. Inv /\ Waits /\ [Next]_vars => Inv' /\ Waits'
  BY InvNext, LocksHeldNext, PeersKnownNext DEF Inv, Waits
<1>. QED BY <1>1, <1>2, PTL DEF Spec

\* The writer of the queue is held up for good by nothing but a client that
\* stopped reading in the middle of an answer, or in FLAC of a chunk: every
\* other reader of a full queue has a thread that can go on, or one in front of
\* its mutex that can.  This is why QueueMovesOrReplyWedged may hope for
\* progress, for any number of clients and descriptors.
\* (TcpServer.cpp:553-555, 765-853)
THEOREM NobodyWaitsInVain == Spec => []HeldUpByStopped
<1>1. Inv /\ Waits => HeldUpByStopped
  <2> SUFFICES ASSUME Inv, Waits, NEW fd \in members
               PROVE  wedged(fd) \/ \E c \in Conns : fdOf[c] = fd /\ goesOn(c)
    BY DEF HeldUpByStopped
  <2>1. PICK c \in Conns : fdOf[c] = fd /\ Sending(c)
    BY DEF Inv, NoOrphanVisitor
  <2>2. fd \in Fds
    BY DEF Inv, TypeOK, Q!TypeOK
  <2>3. CASE send[c] \in {"read", "remove"} \/ (~ locked[fd] /\ send[c] # "sending")
    BY <2>1, <2>3 DEF goesOn, Sending, Inv, TypeOK
  <2>4. CASE send[c] = "sending"
    BY <2>1, <2>4, SendEnds DEF inSend, goesOn, Inv, Waits
  <2>5. CASE locked[fd]
    <3>1. PICK d \in Conns : fdOf[d] = fd /\ inSend(d)
      BY <2>2, <2>5 DEF LocksHeld, Waits
    <3>. QED BY <3>1, SendEnds DEF goesOn, Inv, Waits
  <2>. QED BY <2>3, <2>4, <2>5
<1>. QED BY <1>1, WaitsInvariance, PTL

\* The connection of a client that left has a processThread, or is about to get
\* one, and the mutex that this thread needs to answer and to close is free, or
\* held for a send that can end.
GoneCanBeClosed ==
  \A c \in Conns : Holds(c) /\ peer[c] = "gone" =>
    /\ (acceptor = "slot" /\ c = accepted) \/ Receiving(c)
    /\ locked[fdOf[c]] => \E d \in Conns : fdOf[d] = fdOf[c] /\ ends(d)

\* Nothing can keep a client that left from being noticed and closed: not even
\* threads of other connections, in a send on its descriptor.  This is what
\* GoneIsClosed rests on, for any number of clients and descriptors.
\* (TcpServer.cpp:523-527, 581-588)
THEOREM GoneNeverStuck == Spec => []GoneCanBeClosed
<1>1. Inv /\ Waits => GoneCanBeClosed
  <2> SUFFICES ASSUME Inv, Waits, NEW c \in Conns, Holds(c), peer[c] = "gone"
               PROVE  /\ (acceptor = "slot" /\ c = accepted) \/ Receiving(c)
                      /\ locked[fdOf[c]]
                           => \E d \in Conns : fdOf[d] = fdOf[c] /\ ends(d)
    BY DEF GoneCanBeClosed
  <2>1. fdOf[c] \in Fds /\ open[fdOf[c]] = c /\ c # 0
    <3>1. fdOf[c] \in Fds \union {0}
      BY DEF Inv, TypeOK
    <3>. QED BY <3>1 DEF Holds, Conns
  <2>2. (acceptor = "slot" /\ c = accepted) \/ Receiving(c)
    BY <2>1 DEF Inv, NothingLeaked
  <2>3. ASSUME locked[fdOf[c]] PROVE \E d \in Conns : fdOf[d] = fdOf[c] /\ ends(d)
    <3>1. PICK d \in Conns : fdOf[d] = fdOf[c] /\ inSend(d)
      BY <2>1, <2>3 DEF LocksHeld, Waits
    <3>2. Behind(d) = "gone"
      BY <2>1, <3>1 DEF Behind
    <3>. QED BY <3>1, <3>2 DEF ends
  <2>. QED BY <2>2, <2>3
<1>. QED BY <1>1, WaitsInvariance, PTL
=============================================================================
