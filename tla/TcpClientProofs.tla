-------------------------- MODULE TcpClientProofs --------------------------
(***************************************************************************)
(* Proofs of the safety properties of TcpClient, for every number of       *)
(* connections that are lost.                                              *)
(*                                                                         *)
(* The processThread of a connection makes the next one, so at any time    *)
(* there is the thread that reads the present connection, owner, and       *)
(* perhaps still the one that made it, starter.  What the flags, the       *)
(* mutex, the socket and the two other threads may be is a matter of where *)
(* these two are.  The heart is SleepIsEnough: of stopClient's two seconds *)
(* the first outlasts every wait of a thread, and after the second each    *)
(* has looked at its flag.                                                 *)
(***************************************************************************)
EXTENDS TcpClient, TLAPS

starter == IF conn = 0 THEN "done" ELSE process[conn - 1]
owner == process[conn]

\* Where the owner is when its connection is up or about to be given up.
Alive == {"header", "time", "data", "failed", "stop", "error", "relock"}

Chain ==
  /\ \A g \in Threads : /\ g > conn => process[g] = "none"
                        /\ g < conn - 1 => process[g] = "done"
  /\ starter \in {"pro", "send", "play", "done"}
  /\ owner \notin {"pro", "send", "play"}
  /\ starter = "pro" <=> owner = "none"
  /\ starter \in {"send", "play"} => owner \in {"header", "time", "data", "failed", "error"}
  /\ conn = 0 => owner \in {"start", "connect", "done"}

MutexHeld ==
  mutex <=> starter # "done" \/ owner \in {"connect", "flags", "sleep", "relock"}

SocketOpen ==
  /\ starter = "pro" \/ owner \in Alive \union {"connect"} => client_socket = 1
  /\ owner \in {"flags", "sleep", "start"} => client_socket < 1
  /\ owner \in {"flags", "sleep", "start", "connect", "relock"} => link = "none"

\* Every connection but the present one was lost.
LossesCounted ==
  /\ conn <= faults + 1
  /\ \/ link \in {"closed", "silent"}
     \/ owner \in {"failed", "stop", "flags", "sleep", "start", "connect"}
     => conn <= faults

FlagsRight ==
  /\ pro_thd_running <=> owner \in Alive \union {"flags"}
  /\ owner \in {"start", "connect", "sleep", "done"} \/ starter \in {"pro", "send"}
       => ~ send_thd_running
  /\ owner \in {"start", "connect", "sleep", "done"} \/ starter # "done"
       => ~ play_thd_running

Idle == owner \in {"start", "connect", "done"} \/ (owner = "sleep" /\ alarm = 0)

SendersRight ==
  /\ \A c \in Conns : Sending(c) => c = conn
  /\ starter \in {"play", "done"} /\ owner \in Alive /\ link \in {"up", "silent"}
       => send_thd_running /\ send[conn] \in {"loop", "sending", "sleep"}
  /\ starter \in {"pro", "send"} \/ Idle => \A c \in Conns : ~ Sending(c)

PlayersRight ==
  /\ \A c \in Conns : Playing(c) => c = conn
  /\ starter = "done" /\ owner \in Alive
       => \/ play_thd_running /\ play[conn] \in {"start", "loop", "read", "hold"}
          \/ play[conn] = "failed"
  /\ starter # "done" \/ Idle => \A c \in Conns : ~ Playing(c)

\* stopClient's sleep.
SleepIsEnough ==
  owner = "sleep" =>
    /\ alarm <= 2
    /\ alarm < 2 => \A c \in Conns : send[c] # "sending" /\ nap[c] = 0 /\ ~ Playing(c)

Fresh ==
  /\ diffs \subseteq {conn}
  /\ list \subseteq {conn}
  /\ \A c \in Conns : play[c] = "hold" => held[c] = conn
  /\ owner \in {"flags", "sleep", "start", "connect"} => diffs = {}
  /\ owner \in {"start", "connect"} => list = {}

Inv == /\ TypeOK /\ Chain /\ MutexHeld /\ SocketOpen /\ LossesCounted /\ FlagsRight
       /\ SendersRight /\ PlayersRight /\ SleepIsEnough /\ Fresh

USE BoundsAssumption, SwitchesAssumption

-----------------------------------------------------------------------------
\* Which thread is where.

LEMMA Where ==
  ASSUME Inv, NEW g \in Threads
  PROVE  /\ process[g] \in {"pro", "send", "play"}
              => conn > 0 /\ g = conn - 1 /\ starter = process[g]
         /\ process[g] \notin {"pro", "send", "play", "none", "done"}
              => g = conn /\ owner = process[g]
  <1>1. conn \in Int /\ g \in Int
    BY DEF Inv, TypeOK, Threads, Conns
  <1>2. g > conn \/ g = conn \/ g = conn - 1 \/ g < conn - 1
    BY <1>1
  <1>3. g >= 0
    BY DEF Threads, Conns
  <1> QED BY <1>1, <1>2, <1>3 DEF Inv, Chain, starter, owner

LEMMA Ranges ==
  ASSUME TypeOK
  PROVE  /\ conn \in Threads /\ conn \in Int /\ conn >= 0
         /\ conn > 0 => conn \in Conns /\ conn - 1 \in Threads
         /\ conn =< MaxFaults => conn + 1 \in Conns /\ conn + 1 \in Threads
         /\ \A g \in Threads : g \in Int /\ g >= 0
         /\ Conns \subseteq Threads
  BY DEF TypeOK, Threads, Conns

LEMMA OwnerMoves ==
  ASSUME TypeOK, NEW x, process' = [process EXCEPT ![conn] = x], conn' = conn
  PROVE  /\ owner' = x /\ starter' = starter
         /\ \A g \in Threads : g # conn => process'[g] = process[g]
  <1>1. process'[conn] = x /\ \A g \in Threads : g # conn => process'[g] = process[g]
    BY Ranges DEF TypeOK
  <1>2. conn > 0 => process'[conn - 1] = process[conn - 1]
    BY <1>1, Ranges
  <1> QED BY <1>1, <1>2, Ranges DEF owner, starter

LEMMA StarterMoves ==
  ASSUME TypeOK, conn > 0, NEW x, process' = [process EXCEPT ![conn - 1] = x], conn' = conn
  PROVE  /\ starter' = x /\ owner' = owner
         /\ \A g \in Threads : g # conn - 1 => process'[g] = process[g]
  <1>1. /\ process'[conn - 1] = x
        /\ \A g \in Threads : g # conn - 1 => process'[g] = process[g]
    BY Ranges DEF TypeOK
  <1>2. process'[conn] = process[conn]
    BY <1>1, Ranges
  <1> QED BY <1>1, <1>2, Ranges DEF owner, starter

\* A chain of threads stays one when its last two links move as they may.
LEMMA ChainMoves ==
  ASSUME TypeOK, Chain, conn' = conn,
         \A g \in Threads : g \notin {conn, conn - 1} => process'[g] = process[g],
         starter' \in {"pro", "send", "play", "done"},
         owner' \notin {"pro", "send", "play"},
         starter' = "pro" <=> owner' = "none",
         starter' \in {"send", "play"} => owner' \in {"header", "time", "data", "failed", "error"},
         conn = 0 => owner' \in {"start", "connect", "done"}
  PROVE  Chain'
  <1>1. ASSUME NEW g \in Threads
        PROVE  (g > conn => process'[g] = "none") /\ (g < conn - 1 => process'[g] = "done")
    <2>1. g \in Int /\ conn \in Int
      BY Ranges
    <2>2. g > conn \/ g < conn - 1 => g \notin {conn, conn - 1}
      BY <2>1
    <2> QED BY <2>2 DEF Chain
  <1> QED BY <1>1 DEF Chain

\* The steps of the owner between its first header and stopClient.
LEMMA AliveMoves ==
  ASSUME Inv, NEW x \in Alive \ {"relock"},
         owner \in Alive \ {"relock"},
         process' = [process EXCEPT ![conn] = x],
         starter # "done" => x # "stop",
         x \in {"failed", "stop"} => link = "closed" \/ owner = "failed" \/ link = "silent",
         UNCHANGED <<link, faults, conn, client_socket, mutex, flags, send, play, nap>>
  PROVE  /\ Chain' /\ MutexHeld' /\ SocketOpen' /\ LossesCounted' /\ FlagsRight'
         /\ SendersRight' /\ PlayersRight' /\ SleepIsEnough'
         /\ owner' = x
  <1>1. TypeOK /\ Chain /\ MutexHeld /\ SocketOpen /\ LossesCounted /\ FlagsRight
        /\ SendersRight /\ PlayersRight
    BY DEF Inv
  <1>2. /\ owner' = x /\ starter' = starter
        /\ \A g \in Threads : g # conn => process'[g] = process[g]
    BY <1>1, OwnerMoves
  <1>3. conn # 0
    BY <1>1 DEF Chain, Alive
  <1>4. Chain'
    BY <1>1, <1>2, <1>3, ChainMoves DEF Chain, Alive
  <1>5. MutexHeld'
    BY <1>1, <1>2 DEF MutexHeld, Alive
  <1>6. SocketOpen'
    BY <1>1, <1>2 DEF SocketOpen, Alive
  <1>7. LossesCounted'
    BY <1>1, <1>2 DEF LossesCounted, Alive
  <1>8. FlagsRight'
    BY <1>1, <1>2 DEF FlagsRight, Alive, flags
  <1>9. SendersRight'
    BY <1>1, <1>2 DEF SendersRight, Sending, Idle, Alive, flags
  <1>10. PlayersRight'
    BY <1>1, <1>2 DEF PlayersRight, Playing, Idle, Alive, flags
  <1>11. SleepIsEnough'
    BY <1>2 DEF SleepIsEnough, Alive
  <1> QED BY <1>2, <1>4, <1>5, <1>6, <1>7, <1>8, <1>9, <1>10, <1>11

LEMMA TypesKept ==
  ASSUME TypeOK, NEW x \in {"none", "start", "connect", "pro", "send", "play", "header",
                            "time", "data", "failed", "stop", "flags", "sleep", "error",
                            "relock", "done"},
         NEW g \in Threads
  PROVE  [process EXCEPT ![g] = x] \in [Threads -> {"none", "start", "connect", "pro",
           "send", "play", "header", "time", "data", "failed", "stop", "flags", "sleep",
           "error", "relock", "done"}]
  BY DEF TypeOK

-----------------------------------------------------------------------------
\* processThread.

LEMMA HeaderKeeps ==
  ASSUME Inv, NEW g \in Threads, recvHeader(g) \/ recvDataHeader(g)
  PROVE  Inv'
  <1>1. g = conn /\ owner = "header"
    BY Where DEF recvHeader, recvDataHeader
  <1>2. PICK x \in {"time", "data", "error"} : process' = [process EXCEPT ![conn] = x]
    BY <1>1 DEF recvHeader, recvDataHeader
  <1>3. UNCHANGED <<world, conn, client_socket, mutex, flags, send, play, timers, stream>>
    BY DEF recvHeader, recvDataHeader
  <1>4. /\ Chain' /\ MutexHeld' /\ SocketOpen' /\ LossesCounted' /\ FlagsRight'
        /\ SendersRight' /\ PlayersRight' /\ SleepIsEnough' /\ owner' = x
    BY <1>1, <1>2, <1>3, AliveMoves DEF Alive, world, timers
  <1>5. TypeOK'
    BY <1>1, <1>2, <1>3, TypesKept DEF Inv, TypeOK, world, flags, timers, stream
  <1>6. Fresh'
    BY <1>3, <1>4 DEF Inv, Fresh, stream
  <1> QED BY <1>4, <1>5, <1>6 DEF Inv

LEMMA MessageKeeps ==
  ASSUME Inv, NEW g \in Threads, recvTime(g) \/ recvData(g)
  PROVE  Inv'
  <1>1. g = conn /\ owner \in {"time", "data"}
    BY Where DEF recvTime, recvData
  <1>2. process' = [process EXCEPT ![conn] = "header"]
    BY <1>1 DEF recvTime, recvData
  <1>3. /\ UNCHANGED <<world, conn, client_socket, mutex, flags, send, play, nap, held>>
        /\ alarm' = Patience
        /\ diffs' \in {diffs, diffs \union {conn}} /\ list' \in {list, list \union {conn}}
    BY DEF recvTime, recvData
  <1>4. /\ Chain' /\ MutexHeld' /\ SocketOpen' /\ LossesCounted' /\ FlagsRight'
        /\ SendersRight' /\ PlayersRight' /\ SleepIsEnough' /\ owner' = "header"
    BY <1>1, <1>2, <1>3, AliveMoves DEF Alive, world
  <1>5. conn # 0 /\ TypeOK
    BY <1>1 DEF Inv, Chain
  <1>6. TypeOK'
    BY <1>1, <1>2, <1>3, <1>5, TypesKept, Ranges DEF TypeOK, world, flags
  <1>7. Fresh'
    BY <1>3, <1>4 DEF Inv, Fresh
  <1> QED BY <1>4, <1>6, <1>7 DEF Inv

LEMMA FailsKeeps ==
  ASSUME Inv, NEW g \in Threads, recvFails(g)
  PROVE  Inv'
  <1>1. g = conn /\ owner \in {"header", "time", "data"}
    BY Where DEF recvFails
  <1>2. process' = [process EXCEPT ![conn] = "failed"] /\ link \in {"closed", "silent"}
    BY <1>1 DEF recvFails
  <1>3. UNCHANGED <<world, conn, client_socket, mutex, flags, send, play, timers, stream>>
    BY DEF recvFails
  <1>4. /\ Chain' /\ MutexHeld' /\ SocketOpen' /\ LossesCounted' /\ FlagsRight'
        /\ SendersRight' /\ PlayersRight' /\ SleepIsEnough' /\ owner' = "failed"
    BY <1>1, <1>2, <1>3, AliveMoves DEF Alive, world, timers
  <1>5. TypeOK'
    BY <1>1, <1>2, <1>3, TypesKept DEF Inv, TypeOK, world, flags, timers, stream
  <1>6. Fresh'
    BY <1>3, <1>4 DEF Inv, Fresh, stream
  <1> QED BY <1>4, <1>5, <1>6 DEF Inv

LEMMA SocketErrorKeeps ==
  ASSUME Inv, NEW g \in Threads, socketError(g)
  PROVE  Inv'
  <1>1. g = conn /\ owner = "failed"
    BY Where DEF socketError
  <1>2. client_socket = 1 /\ starter = "done"
    BY <1>1 DEF Inv, SocketOpen, MutexHeld, Alive, socketError
  <1>3. /\ process' = [process EXCEPT ![conn] = "stop"]
        /\ UNCHANGED <<world, conn, client_socket, mutex, flags, send, play, timers, stream>>
    BY <1>1, <1>2 DEF socketError
  <1>4. /\ Chain' /\ MutexHeld' /\ SocketOpen' /\ LossesCounted' /\ FlagsRight'
        /\ SendersRight' /\ PlayersRight' /\ SleepIsEnough' /\ owner' = "stop"
    BY <1>1, <1>2, <1>3, AliveMoves DEF Alive, world, timers
  <1>5. TypeOK'
    BY <1>1, <1>3, TypesKept DEF Inv, TypeOK, world, flags, timers, stream
  <1>6. Fresh'
    BY <1>3, <1>4 DEF Inv, Fresh, stream
  <1> QED BY <1>4, <1>5, <1>6 DEF Inv

LEMMA StopSocketKeeps ==
  ASSUME Inv, NEW g \in Threads, stopSocket(g)
  PROVE  Inv'
  <1>1. g = conn /\ owner = "stop"
    BY Where DEF stopSocket
  <1>2. /\ TypeOK /\ Chain /\ MutexHeld /\ SocketOpen /\ LossesCounted /\ FlagsRight
        /\ SendersRight /\ PlayersRight /\ Fresh
    BY DEF Inv
  <1>3. /\ process' = [process EXCEPT ![conn] = "flags"]
        /\ mutex' = TRUE /\ diffs' = {} /\ link' = "none" /\ client_socket' = -1
        /\ UNCHANGED <<server, framed, faults, conn, flags, send, play, timers, list, held>>
    BY <1>1 DEF stopSocket
  <1>4. /\ owner' = "flags" /\ starter' = starter /\ starter = "done" /\ conn # 0
        /\ \A f \in Threads : f # conn => process'[f] = process[f]
    BY <1>1, <1>2, <1>3, OwnerMoves DEF stopSocket, MutexHeld, Chain
  <1>5. TypeOK'
    BY <1>1, <1>2, <1>3, TypesKept DEF TypeOK, flags, timers
  <1>6. Chain'
    BY <1>2, <1>3, <1>4, ChainMoves
  <1>7. MutexHeld' /\ SocketOpen' /\ LossesCounted'
    BY <1>1, <1>2, <1>3, <1>4 DEF MutexHeld, SocketOpen, LossesCounted, Alive
  <1>8. FlagsRight'
    BY <1>1, <1>2, <1>3, <1>4 DEF FlagsRight, Alive, flags
  <1>9. SendersRight' /\ PlayersRight'
    BY <1>2, <1>3, <1>4 DEF SendersRight, PlayersRight, Sending, Playing, Idle, Alive
  <1>10. SleepIsEnough' /\ Fresh'
    BY <1>2, <1>3, <1>4 DEF SleepIsEnough, Fresh
  <1> QED BY <1>5, <1>6, <1>7, <1>8, <1>9, <1>10 DEF Inv

LEMMA StopThreadsKeeps ==
  ASSUME Inv, NEW g \in Threads, stopThreads(g)
  PROVE  Inv'
  <1>1. g = conn /\ owner = "flags"
    BY Where DEF stopThreads
  <1>2. /\ TypeOK /\ Chain /\ MutexHeld /\ SocketOpen /\ LossesCounted /\ FlagsRight
        /\ SendersRight /\ PlayersRight /\ Fresh
    BY DEF Inv
  <1>3. /\ process' = [process EXCEPT ![conn] = "sleep"]
        /\ pro_thd_running' = FALSE /\ send_thd_running' = FALSE /\ play_thd_running' = FALSE
        /\ alarm' = 2
        /\ UNCHANGED <<world, conn, client_socket, mutex, send, play, nap, stream>>
    BY <1>1 DEF stopThreads
  <1>4. /\ owner' = "sleep" /\ starter' = starter /\ starter = "done" /\ conn # 0
        /\ \A f \in Threads : f # conn => process'[f] = process[f]
    BY <1>1, <1>2, <1>3, OwnerMoves DEF Chain
  <1>5. TypeOK'
    BY <1>1, <1>2, <1>3, TypesKept DEF TypeOK, world, stream
  <1>6. Chain'
    BY <1>2, <1>3, <1>4, ChainMoves
  <1>7. MutexHeld' /\ SocketOpen' /\ LossesCounted'
    BY <1>1, <1>2, <1>3, <1>4 DEF MutexHeld, SocketOpen, LossesCounted, Alive, world
  <1>8. FlagsRight'
    BY <1>3, <1>4 DEF FlagsRight, Alive
  <1>9. SendersRight' /\ PlayersRight'
    BY <1>2, <1>3, <1>4 DEF SendersRight, PlayersRight, Sending, Playing, Idle, Alive
  <1>10. SleepIsEnough'
    BY <1>3 DEF SleepIsEnough
  <1>11. Fresh'
    BY <1>1, <1>2, <1>3, <1>4 DEF Fresh, stream
  <1> QED BY <1>5, <1>6, <1>7, <1>8, <1>9, <1>10, <1>11 DEF Inv

LEMMA StopListsKeeps ==
  ASSUME Inv, NEW g \in Threads, stopLists(g)
  PROVE  Inv'
  <1>1. g = conn /\ owner = "sleep" /\ alarm = 0
    BY Where DEF stopLists
  <1>2. /\ TypeOK /\ Chain /\ MutexHeld /\ SocketOpen /\ LossesCounted /\ FlagsRight
        /\ SendersRight /\ PlayersRight /\ Fresh
    BY DEF Inv
  <1>3. /\ process' = [process EXCEPT ![conn] = "start"]
        /\ mutex' = FALSE /\ list' = {}
        /\ UNCHANGED <<world, conn, client_socket, flags, send, play, timers, diffs, held>>
    BY <1>1 DEF stopLists
  <1>4. /\ owner' = "start" /\ starter' = starter /\ starter = "done"
        /\ \A f \in Threads : f # conn => process'[f] = process[f]
    BY <1>1, <1>2, <1>3, OwnerMoves DEF Chain
  <1>5. TypeOK'
    BY <1>1, <1>2, <1>3, TypesKept, ZenonT(60) DEF TypeOK, world, flags, timers
  <1>6. Chain'
    BY <1>2, <1>3, <1>4, ChainMoves
  <1>7. MutexHeld' /\ SocketOpen' /\ LossesCounted'
    BY <1>1, <1>2, <1>3, <1>4 DEF MutexHeld, SocketOpen, LossesCounted, Alive, world
  <1>8. FlagsRight'
    BY <1>1, <1>2, <1>3, <1>4 DEF FlagsRight, Alive, flags
  <1>9. SendersRight' /\ PlayersRight'
    BY <1>1, <1>2, <1>3, <1>4 DEF SendersRight, PlayersRight, Sending, Playing, Idle, Alive
  <1>10. SleepIsEnough' /\ Fresh'
    BY <1>1, <1>2, <1>3, <1>4 DEF SleepIsEnough, Fresh
  <1> QED BY <1>5, <1>6, <1>7, <1>8, <1>9, <1>10 DEF Inv

LEMMA ErrorKeeps ==
  ASSUME Inv, NEW g \in Threads, Error_Msg(g)
  PROVE  Inv'
  <1>1. g = conn /\ owner \in {"error", "relock"}
    BY Where DEF Error_Msg
  <1>2. /\ TypeOK /\ Chain /\ MutexHeld /\ SocketOpen /\ LossesCounted /\ FlagsRight
        /\ SendersRight /\ PlayersRight /\ Fresh
    BY DEF Inv
  <1>3. owner = "error" /\ starter = "done"    \* who waits to lock again waits for itself
    BY <1>1, <1>2 DEF MutexHeld, Error_Msg
  <1>4. /\ process' = [process EXCEPT ![conn] = "relock"]
        /\ mutex' = TRUE /\ link' = "none"
        /\ UNCHANGED <<server, framed, faults, conn, client_socket, flags, send, play,
                       timers, stream>>
    BY <1>1, <1>3 DEF Error_Msg, owner
  <1>5. /\ owner' = "relock" /\ starter' = "done" /\ conn # 0
        /\ \A f \in Threads : f # conn => process'[f] = process[f]
    BY <1>2, <1>3, <1>4, OwnerMoves DEF Chain
  <1>6. TypeOK'
    BY <1>1, <1>2, <1>4, TypesKept DEF TypeOK, flags, timers, stream
  <1>7. Chain'
    BY <1>2, <1>4, <1>5, ChainMoves
  <1>8. MutexHeld' /\ SocketOpen' /\ LossesCounted'
    BY <1>2, <1>3, <1>4, <1>5 DEF MutexHeld, SocketOpen, LossesCounted, Alive
  <1>9. FlagsRight'
    BY <1>2, <1>3, <1>4, <1>5 DEF FlagsRight, Alive, flags
  <1>10. SendersRight' /\ PlayersRight'
    BY <1>2, <1>3, <1>4, <1>5 DEF SendersRight, PlayersRight, Sending, Playing, Idle, Alive, flags
  <1>11. SleepIsEnough' /\ Fresh'
    BY <1>2, <1>4, <1>5 DEF SleepIsEnough, Fresh, stream
  <1> QED BY <1>6, <1>7, <1>8, <1>9, <1>10, <1>11 DEF Inv

-----------------------------------------------------------------------------
\* startClient.

LEMMA OpenKeeps ==
  ASSUME Inv, NEW g \in Threads, openSocket(g)
  PROVE  Inv'
  <1>1. g = conn /\ owner = "start"
    BY Where DEF openSocket
  <1>2. /\ TypeOK /\ Chain /\ MutexHeld /\ SocketOpen /\ LossesCounted /\ FlagsRight
        /\ SendersRight /\ PlayersRight /\ Fresh
    BY DEF Inv
  <1>3. PICK x \in {"connect", "done"} :
          /\ process' = [process EXCEPT ![conn] = x]
          /\ \/ x = "connect" /\ client_socket' = 1 /\ mutex' = TRUE
             \/ x = "done" /\ client_socket' = -1 /\ mutex' = mutex
          /\ UNCHANGED <<world, conn, flags, send, play, timers, stream>>
    BY <1>1 DEF openSocket
  <1>4. /\ owner' = x /\ starter' = starter /\ starter = "done" /\ ~ mutex
        /\ \A f \in Threads : f # conn => process'[f] = process[f]
    BY <1>1, <1>2, <1>3, OwnerMoves DEF Chain, MutexHeld, openSocket
  <1>5. TypeOK'
    BY <1>1, <1>2, <1>3, TypesKept, ZenonT(60) DEF TypeOK, world, flags, timers, stream
  <1>6. Chain'
    BY <1>2, <1>3, <1>4, ChainMoves
  <1>7. MutexHeld' /\ SocketOpen' /\ LossesCounted'
    BY <1>1, <1>2, <1>3, <1>4 DEF MutexHeld, SocketOpen, LossesCounted, Alive, world
  <1>8. FlagsRight'
    BY <1>1, <1>2, <1>3, <1>4 DEF FlagsRight, Alive, flags
  <1>9. SendersRight' /\ PlayersRight'
    BY <1>1, <1>2, <1>3, <1>4 DEF SendersRight, PlayersRight, Sending, Playing, Idle, Alive
  <1>10. SleepIsEnough' /\ Fresh'
    BY <1>1, <1>2, <1>3, <1>4 DEF SleepIsEnough, Fresh, stream
  <1> QED BY <1>5, <1>6, <1>7, <1>8, <1>9, <1>10 DEF Inv

\* The one step at which the next connection becomes the present one.
LEMMA ConnectKeeps ==
  ASSUME Inv, NEW g \in Threads, myConnect(g)
  PROVE  Inv'
  <1>1. g = conn /\ owner = "connect"
    BY Where DEF myConnect
  <1>2. /\ TypeOK /\ Chain /\ MutexHeld /\ SocketOpen /\ LossesCounted /\ FlagsRight
        /\ SendersRight /\ PlayersRight /\ Fresh
    BY DEF Inv
  <1>3. CASE ~ server
    <2>1. /\ UNCHANGED <<world, conn, client_socket, mutex, flags, pcs, nap, stream>>
          /\ alarm' = 1
      BY <1>3 DEF myConnect, world, pcs
    <2>2. owner' = owner /\ starter' = starter
      BY <2>1 DEF owner, starter, pcs
    <2>3. TypeOK' /\ Chain'
      BY <1>2, <2>1, <2>2 DEF TypeOK, Chain, world, flags, pcs, stream
    <2>4. MutexHeld' /\ SocketOpen' /\ LossesCounted' /\ FlagsRight'
      BY <1>2, <2>1, <2>2 DEF MutexHeld, SocketOpen, LossesCounted, FlagsRight, world, flags
    <2>5. SendersRight' /\ PlayersRight'
      BY <1>1, <1>2, <2>1, <2>2 DEF SendersRight, PlayersRight, Sending, Playing, Idle,
                                    world, flags, pcs, Alive
    <2>6. SleepIsEnough' /\ Fresh'
      BY <1>1, <1>2, <2>1, <2>2 DEF SleepIsEnough, Fresh, pcs, stream
    <2> QED BY <2>3, <2>4, <2>5, <2>6 DEF Inv
  <1>4. CASE server
    <2>1. /\ process' = [process EXCEPT ![conn] = "pro"]
          /\ conn' = conn + 1 /\ link' = "up" /\ framed' = TRUE
          /\ UNCHANGED <<server, faults, client_socket, mutex, flags, send, play, timers, stream>>
      BY <1>1, <1>4 DEF myConnect, timers
    <2>2. /\ conn \in Nat /\ faults \in Nat /\ MaxFaults \in Nat
          /\ conn <= faults /\ faults <= MaxFaults /\ conn <= MaxFaults
      BY <1>1, <1>2 DEF LossesCounted, TypeOK
    <2>3. /\ conn + 1 \in Conns /\ conn + 1 \in Threads /\ conn \in Threads
          /\ \A f \in Threads : f \in Int
      BY <1>2, <2>2, Ranges
    <2>4. /\ process'[conn] = "pro"
          /\ \A f \in Threads : f # conn => process'[f] = process[f]
      BY <1>2, <2>1, <2>3 DEF TypeOK
    <2>5. process[conn + 1] = "none"
      BY <1>2, <2>2, <2>3 DEF Chain
    <2>6. starter' = "pro"
      BY <2>1, <2>2, <2>4 DEF starter
    <2>7. owner' = "none"
      BY <2>1, <2>2, <2>3, <2>4, <2>5 DEF owner
    <2>8. starter = "done"
      BY <1>1, <1>2 DEF Chain
    <2>9. TypeOK'
      <3>1. conn' \in 0 .. MaxFaults + 1
        BY <2>1, <2>2
      <3> QED BY <1>1, <1>2, <2>1, <2>3, <3>1, TypesKept DEF TypeOK, flags, timers, stream
    <2>10. Chain'
      <3>1. ASSUME NEW f \in Threads
            PROVE  (f > conn' => process'[f] = "none") /\ (f < conn' - 1 => process'[f] = "done")
        <4>1. f > conn + 1 => process'[f] = "none"
          BY <1>2, <2>2, <2>3, <2>4 DEF Chain
        <4>2. f < conn - 1 => process'[f] = "done"
          BY <1>2, <2>2, <2>3, <2>4 DEF Chain
        <4>3. f = conn - 1 => process'[f] = "done"
          BY <2>2, <2>3, <2>4, <2>8, Ranges, <1>2 DEF starter
        <4> QED BY <2>1, <2>2, <2>3, <4>1, <4>2, <4>3
      <3> QED BY <2>1, <2>2, <2>6, <2>7, <3>1 DEF Chain
    <2>11. MutexHeld' /\ SocketOpen' /\ FlagsRight'
      BY <1>1, <1>2, <2>1, <2>6, <2>7 DEF MutexHeld, SocketOpen, FlagsRight, Alive, flags
    <2>12. LossesCounted'
      BY <2>1, <2>2, <2>7 DEF LossesCounted
    <2>13. \A c \in Conns : ~ Sending(c)' /\ ~ Playing(c)'
      BY <1>1, <1>2, <2>1 DEF SendersRight, PlayersRight, Sending, Playing, Idle
    <2>14. SendersRight' /\ PlayersRight'
      BY <2>7, <2>13, <2>6 DEF SendersRight, PlayersRight, Alive
    <2>15. SleepIsEnough'
      BY <2>7 DEF SleepIsEnough
    <2>16. Fresh'
      BY <1>1, <1>2, <2>1, <2>7, <2>13 DEF Fresh, Playing, stream
    <2> QED BY <2>9, <2>10, <2>11, <2>12, <2>14, <2>15, <2>16 DEF Inv
  <1> QED BY <1>3, <1>4, <1>2 DEF TypeOK

LEMMA CreateProcessKeeps ==
  ASSUME Inv, NEW g \in Threads, createProcess(g)
  PROVE  Inv'
  <1>1. g = conn - 1 /\ starter = "pro" /\ owner = "none" /\ conn > 0
    BY Where DEF createProcess, Inv, Chain
  <1>2. /\ TypeOK /\ Chain /\ MutexHeld /\ SocketOpen /\ LossesCounted /\ FlagsRight
        /\ SendersRight /\ PlayersRight /\ Fresh
    BY DEF Inv
  <1>3. /\ process' = [process EXCEPT ![conn - 1] = "send", ![conn] = "header"]
        /\ pro_thd_running' = TRUE /\ alarm' = Patience
        /\ UNCHANGED <<world, conn, client_socket, mutex, send_thd_running,
                       play_thd_running, send, play, nap, stream>>
    BY <1>1, <1>2 DEF createProcess, FlagsRight, Alive
  <1>4. conn \in Threads /\ conn - 1 \in Threads /\ conn - 1 # conn
    BY <1>1, <1>2, Ranges
  <1>5. /\ process'[conn] = "header" /\ process'[conn - 1] = "send"
        /\ \A f \in Threads : f \notin {conn, conn - 1} => process'[f] = process[f]
        /\ process' \in [Threads -> {"none", "start", "connect", "pro", "send", "play",
                           "header", "time", "data", "failed", "stop", "flags", "sleep",
                           "error", "relock", "done"}]
    BY <1>2, <1>3, <1>4 DEF TypeOK
  <1>6. owner' = "header" /\ starter' = "send"
    BY <1>1, <1>2, <1>3, <1>4, <1>5, Ranges DEF owner, starter
  <1>7. TypeOK'
    BY <1>2, <1>3, <1>5 DEF TypeOK, world, stream
  <1>8. Chain'
    BY <1>1, <1>2, <1>3, <1>5, <1>6, ChainMoves, Ranges
  <1>9. MutexHeld' /\ SocketOpen' /\ LossesCounted' /\ FlagsRight'
    BY <1>1, <1>2, <1>3, <1>6
       DEF MutexHeld, SocketOpen, LossesCounted, FlagsRight, Alive, world
  <1>10. SendersRight' /\ PlayersRight'
    BY <1>1, <1>2, <1>3, <1>6 DEF SendersRight, PlayersRight, Sending, Playing, Idle
  <1>11. SleepIsEnough' /\ Fresh'
    BY <1>2, <1>3, <1>6 DEF SleepIsEnough, Fresh, stream
  <1> QED BY <1>7, <1>8, <1>9, <1>10, <1>11 DEF Inv

LEMMA CreateSendKeeps ==
  ASSUME Inv, NEW g \in Threads, createSend(g)
  PROVE  Inv'
  <1>1. g = conn - 1 /\ starter = "send" /\ conn > 0
    BY Where DEF createSend
  <1>2. /\ TypeOK /\ Chain /\ MutexHeld /\ SocketOpen /\ LossesCounted /\ FlagsRight
        /\ SendersRight /\ PlayersRight /\ Fresh
    BY DEF Inv
  <1>3. /\ process' = [process EXCEPT ![conn - 1] = "play"]
        /\ send' = [send EXCEPT ![conn] = "loop"]
        /\ send_thd_running' = TRUE
        /\ UNCHANGED <<world, conn, client_socket, mutex, pro_thd_running,
                       play_thd_running, play, timers, stream>>
    BY <1>1, <1>2 DEF createSend, FlagsRight
  <1>4. conn \in Conns /\ conn - 1 \in Threads
    BY <1>1, <1>2, Ranges
  <1>5. /\ starter' = "play" /\ owner' = owner
        /\ \A f \in Threads : f # conn - 1 => process'[f] = process[f]
    BY <1>1, <1>2, <1>3, StarterMoves
  <1>6. /\ send'[conn] = "loop" /\ \A c \in Conns : c # conn => send'[c] = send[c]
    BY <1>2, <1>3, <1>4 DEF TypeOK
  <1>7. TypeOK'
    BY <1>2, <1>3, <1>4, TypesKept DEF TypeOK, world, timers, stream
  <1>8. Chain'
    BY <1>1, <1>2, <1>3, <1>5, ChainMoves DEF Chain
  <1>9. MutexHeld' /\ SocketOpen' /\ LossesCounted' /\ FlagsRight'
    BY <1>1, <1>2, <1>3, <1>5
       DEF MutexHeld, SocketOpen, LossesCounted, FlagsRight, Alive, world, Chain
  <1>10. owner \in Alive \ {"relock", "stop"}
    BY <1>1, <1>2 DEF Chain, Alive
  <1>11. SendersRight' /\ PlayersRight'
    BY <1>1, <1>2, <1>3, <1>5, <1>6, <1>10
       DEF SendersRight, PlayersRight, Sending, Playing, Idle, Alive
  <1>12. SleepIsEnough' /\ Fresh'
    BY <1>2, <1>3, <1>5, <1>10 DEF SleepIsEnough, Fresh, stream, Alive
  <1> QED BY <1>7, <1>8, <1>9, <1>11, <1>12 DEF Inv

LEMMA CreatePlayKeeps ==
  ASSUME Inv, NEW g \in Threads, createPlay(g)
  PROVE  Inv'
  <1>1. g = conn - 1 /\ starter = "play" /\ conn > 0
    BY Where DEF createPlay
  <1>2. /\ TypeOK /\ Chain /\ MutexHeld /\ SocketOpen /\ LossesCounted /\ FlagsRight
        /\ SendersRight /\ PlayersRight /\ Fresh
    BY DEF Inv
  <1>3. /\ process' = [process EXCEPT ![conn - 1] = "done"]
        /\ play' = [play EXCEPT ![conn] = "start"]
        /\ play_thd_running' = TRUE /\ mutex' = FALSE
        /\ UNCHANGED <<world, conn, client_socket, pro_thd_running, send_thd_running,
                       send, timers, stream>>
    BY <1>1, <1>2 DEF createPlay, FlagsRight
  <1>4. conn \in Conns /\ conn - 1 \in Threads
    BY <1>1, <1>2, Ranges
  <1>5. /\ starter' = "done" /\ owner' = owner
        /\ \A f \in Threads : f # conn - 1 => process'[f] = process[f]
    BY <1>1, <1>2, <1>3, StarterMoves
  <1>6. /\ play'[conn] = "start" /\ \A c \in Conns : c # conn => play'[c] = play[c]
    BY <1>2, <1>3, <1>4 DEF TypeOK
  <1>7. TypeOK'
    BY <1>2, <1>3, <1>4, TypesKept DEF TypeOK, world, timers, stream
  <1>8. Chain'
    BY <1>1, <1>2, <1>3, <1>5, ChainMoves DEF Chain
  <1>9. owner \in Alive \ {"relock", "stop"}
    BY <1>1, <1>2 DEF Chain, Alive
  <1>10. MutexHeld' /\ SocketOpen' /\ LossesCounted' /\ FlagsRight'
    BY <1>1, <1>2, <1>3, <1>5, <1>9
       DEF MutexHeld, SocketOpen, LossesCounted, FlagsRight, Alive, world
  <1>11. SendersRight' /\ PlayersRight'
    BY <1>1, <1>2, <1>3, <1>5, <1>6, <1>9
       DEF SendersRight, PlayersRight, Sending, Playing, Idle, Alive, world
  <1>12. SleepIsEnough' /\ Fresh'
    BY <1>2, <1>3, <1>5, <1>6, <1>9 DEF SleepIsEnough, Fresh, stream, Alive
  <1> QED BY <1>7, <1>8, <1>10, <1>11, <1>12 DEF Inv

-----------------------------------------------------------------------------
\* sendThread and playThread.

LEMMA ProcessesStay ==
  ASSUME Chain, UNCHANGED <<conn, process>>
  PROVE  Chain' /\ owner' = owner /\ starter' = starter
  BY DEF Chain, owner, starter

LEMMA SendKeeps ==
  ASSUME Inv, NEW c \in Conns, sendThread(c)
  PROVE  Inv'
  <1>1. /\ TypeOK /\ Chain /\ MutexHeld /\ SocketOpen /\ LossesCounted /\ FlagsRight
        /\ SendersRight /\ PlayersRight /\ SleepIsEnough /\ Fresh
    BY DEF Inv
  <1>2. send[c] \in {"loop", "sending", "sleep", "end"} /\ c = conn
    BY <1>1 DEF SendersRight, Sending, sendThread, sendLoop, sendRequest, sendWake, sendEnd
  <1>3. PICK x \in {"loop", "sending", "sleep", "end", "done"} :
          send' = [send EXCEPT ![conn] = x]
    BY <1>2 DEF sendThread, sendLoop, sendRequest, sendWake, sendEnd
  <1>4. /\ UNCHANGED <<world, conn, client_socket, mutex, pro_thd_running,
                       play_thd_running, process, play, alarm, stream>>
        /\ nap' = nap \/ nap' = [nap EXCEPT ![c] = 1]
        /\ send_thd_running' = send_thd_running \/ send_thd_running' = FALSE
    <2>1. CASE sendLoop(c)
      BY <2>1 DEF sendLoop, flags, timers
    <2>2. CASE sendRequest(c)
      BY <2>2 DEF sendRequest, flags
    <2>3. CASE sendWake(c)
      BY <2>3 DEF sendWake, flags, timers
    <2>4. CASE sendEnd(c)
      BY <2>4 DEF sendEnd, timers
    <2> QED BY <2>1, <2>2, <2>3, <2>4 DEF sendThread
  <1>5. /\ send'[conn] = x /\ \A b \in Conns : b # conn => send'[b] = send[b]
        /\ send' \in [Conns -> {"none", "loop", "sending", "sleep", "end", "done"}]
    BY <1>1, <1>2, <1>3 DEF TypeOK
  <1>6. Chain' /\ owner' = owner /\ starter' = starter
    BY <1>1, <1>4, ProcessesStay
  <1>7. TypeOK'
    <2>1. nap' \in [Conns -> 0 .. 1]
      <3>1. [nap EXCEPT ![c] = 1] \in [Conns -> 0 .. 1]
        BY <1>1 DEF TypeOK
      <3> QED BY <1>1, <1>4, <3>1 DEF TypeOK
    <2>2. send_thd_running' \in BOOLEAN
      BY <1>1, <1>4 DEF TypeOK
    <2> QED BY <1>1, <1>4, <1>5, <2>1, <2>2 DEF TypeOK, world, stream
  <1>8. MutexHeld' /\ SocketOpen' /\ LossesCounted'
    BY <1>1, <1>4, <1>6 DEF MutexHeld, SocketOpen, LossesCounted, world
  <1>9. send_thd_running' => send_thd_running
    BY DEF sendThread, sendLoop, sendRequest, sendWake, sendEnd, flags
  <1>10. FlagsRight'
    BY <1>1, <1>4, <1>6, <1>9 DEF FlagsRight
  <1>11. Sending(c) /\ ~ (starter \in {"pro", "send"} \/ Idle)
    BY <1>1, <1>2 DEF SendersRight, Sending
  <1>12. ~ (starter' \in {"pro", "send"} \/ Idle')
    BY <1>4, <1>6, <1>11 DEF Idle
  <1>13. ASSUME starter \in {"play", "done"}, owner \in Alive, link \in {"up", "silent"}
         PROVE  send_thd_running' /\ x \in {"loop", "sending", "sleep"}
    <2>1. send_thd_running /\ send[c] \in {"loop", "sending", "sleep"} /\ client_socket = 1
      BY <1>1, <1>2, <1>13 DEF SendersRight, SocketOpen
    <2>2. CASE sendLoop(c)
      BY <1>2, <1>3, <1>5, <2>1, <2>2 DEF sendLoop, flags, TypeOK
    <2>3. CASE sendRequest(c)
      BY <1>2, <1>3, <1>5, <1>1, <1>13, <2>1, <2>3 DEF sendRequest, flags, TypeOK
    <2>4. CASE sendWake(c)
      BY <1>2, <1>3, <1>5, <1>1, <2>1, <2>4 DEF sendWake, flags, TypeOK
    <2> QED BY <2>1, <2>2, <2>3, <2>4 DEF sendThread, sendEnd
  <1>14. SendersRight'
    BY <1>1, <1>4, <1>5, <1>6, <1>12, <1>13 DEF SendersRight, Sending, world
  <1>15. PlayersRight'
    BY <1>1, <1>4, <1>6 DEF PlayersRight, Playing, Idle
  <1>16. SleepIsEnough'
    <2>1. SUFFICES ASSUME owner = "sleep"
                   PROVE  /\ alarm' <= 2
                          /\ alarm' < 2 => \A b \in Conns : /\ send'[b] # "sending"
                                                            /\ nap'[b] = 0 /\ ~ Playing(b)'
      BY <1>6 DEF SleepIsEnough
    <2>2. link = "none" /\ client_socket < 1
      BY <1>1, <2>1 DEF SocketOpen
    <2>3. ASSUME sendRequest(c)
          PROVE  nap' = nap /\ x = "end"
      <3>1. send' = [send EXCEPT ![c] = "end"] /\ nap' = nap
        BY <2>2, <2>3 DEF sendRequest
      <3> QED BY <1>1, <1>2, <1>5, <3>1 DEF TypeOK
    <2>4. x # "sending" /\ nap' = nap
      BY <1>1, <1>2, <1>3, <1>5, <2>2, <2>3
         DEF sendThread, sendLoop, sendWake, sendEnd, timers, TypeOK
    <2> QED BY <1>1, <1>4, <1>5, <2>1, <2>4 DEF SleepIsEnough, Playing
  <1>17. Fresh'
    BY <1>1, <1>4, <1>6 DEF Fresh, stream
  <1> QED BY <1>6, <1>7, <1>8, <1>10, <1>14, <1>15, <1>16, <1>17 DEF Inv

LEMMA PlayKeeps ==
  ASSUME Inv, NEW c \in Conns, playThread(c)
  PROVE  Inv'
  <1>1. /\ TypeOK /\ Chain /\ MutexHeld /\ SocketOpen /\ LossesCounted /\ FlagsRight
        /\ SendersRight /\ PlayersRight /\ SleepIsEnough /\ Fresh
    BY DEF Inv
  <1>2. play[c] \in {"start", "loop", "read", "hold", "end"} /\ c = conn
    BY <1>1 DEF PlayersRight, Playing, playThread, playInit, playTest, playLeave, playRead,
                getPlayChunk, playEnd
  <1>3. PICK x \in {"loop", "read", "hold", "end", "failed", "done"} : play' = [play EXCEPT ![conn] = x]
    BY <1>2 DEF playThread, playInit, playTest, playLeave, playRead, getPlayChunk, playEnd
  <1>4. UNCHANGED <<world, conn, client_socket, mutex, pro_thd_running, send_thd_running,
                    process, send, timers, diffs>>
    BY DEF playThread, playInit, playTest, playLeave, playRead,
           getPlayChunk, playEnd, flags, stream
  <1>5. /\ play'[conn] = x /\ \A b \in Conns : b # conn => play'[b] = play[b]
        /\ play' \in [Conns -> {"none", "start", "loop", "read", "hold", "end", "failed", "done"}]
    BY <1>1, <1>2, <1>3 DEF TypeOK
  <1>6. Chain' /\ owner' = owner /\ starter' = starter
    BY <1>1, <1>4, ProcessesStay
  <1>7. /\ list' \subseteq list
        /\ held' \in [Conns -> Conns \union {0}]
        /\ x = "hold" => held'[conn] = conn
    <2>1. CASE playInit(c) \/ playTest(c) \/ playLeave(c)
      BY <1>1, <1>2, <1>5, <2>1 DEF playInit, playTest, playLeave, stream, TypeOK
    <2>2. CASE playRead(c)
      BY <1>1, <1>2, <1>5, <2>2 DEF playRead, Fresh, TypeOK
    <2>3. CASE getPlayChunk(c)
      BY <1>1, <1>2, <1>5, <2>3 DEF getPlayChunk, TypeOK
    <2>4. CASE playEnd(c)
      BY <1>1, <1>2, <1>5, <2>4 DEF playEnd, stream, TypeOK
    <2> QED BY <2>1, <2>2, <2>3, <2>4 DEF playThread
  <1>8. play_thd_running' = play_thd_running \/ play_thd_running' = FALSE
    BY DEF playThread, playInit, playTest, playLeave, playRead,
           getPlayChunk, playEnd, flags
  <1>9. TypeOK'
    BY <1>1, <1>4, <1>5, <1>7, <1>8, ZenonT(60) DEF TypeOK, world, timers
  <1>10. MutexHeld' /\ SocketOpen' /\ LossesCounted' /\ FlagsRight'
    BY <1>1, <1>4, <1>6, <1>8 DEF MutexHeld, SocketOpen, LossesCounted, FlagsRight, world
  <1>11. SendersRight'
    BY <1>1, <1>4, <1>6 DEF SendersRight, Sending, Idle, world, timers
  <1>12. ~ (starter # "done" \/ Idle) /\ ~ Idle'
    BY <1>1, <1>2, <1>4, <1>6 DEF PlayersRight, Playing, Idle, timers
  <1>13. ASSUME starter = "done", owner \in Alive
         PROVE  (play_thd_running' /\ x \in {"loop", "read", "hold"}) \/ x = "failed"
    <2>1. /\ play_thd_running /\ client_socket = 1
          /\ play[c] \in {"start", "loop", "read", "hold"}
      BY <1>1, <1>2, <1>13 DEF PlayersRight, SocketOpen
    <2>2. ~ playLeave(c) /\ ~ playEnd(c)
      BY <2>1 DEF playLeave, playEnd
    <2> QED BY <1>1, <1>2, <1>3, <1>5, <2>1, <2>2
         DEF playThread, playInit, playTest, playRead, getPlayChunk, flags, TypeOK
  <1>14. PlayersRight'
    BY <1>1, <1>4, <1>5, <1>6, <1>12, <1>13 DEF PlayersRight, Playing
  <1>15. SleepIsEnough'
    BY <1>1, <1>2, <1>4, <1>5, <1>6 DEF SleepIsEnough, Playing, timers
  <1>16. Fresh'
    BY <1>1, <1>4, <1>5, <1>6, <1>7, <1>12
       DEF Fresh, PlayersRight, Playing, playThread, playInit, playTest, playRead,
           getPlayChunk, playLeave, playEnd, stream, TypeOK
  <1> QED BY <1>6, <1>9, <1>10, <1>11, <1>14, <1>15, <1>16 DEF Inv

-----------------------------------------------------------------------------
\* The server, the network and the clock.

LEMMA WorldKeeps ==
  ASSUME Inv, lose \/ return \/ heal \/ kernelTimeout \/ badMessage
  PROVE  Inv'
  <1>1. /\ TypeOK /\ Chain /\ MutexHeld /\ SocketOpen /\ LossesCounted /\ FlagsRight
        /\ SendersRight /\ PlayersRight /\ SleepIsEnough /\ Fresh
    BY DEF Inv
  <1>2. UNCHANGED <<conn, client_socket, mutex, flags, pcs, timers, stream>>
    BY DEF lose, return, heal, kernelTimeout, badMessage
  <1>3. Chain' /\ owner' = owner /\ starter' = starter
    BY <1>1, <1>2, ProcessesStay DEF pcs
  <1>4. server' \in BOOLEAN /\ framed' \in BOOLEAN
    BY <1>1 DEF lose, return, heal, kernelTimeout, badMessage, TypeOK
  <1>5. /\ link' \in {"none", "up", "silent", "closed"}
        /\ link = "none" <=> link' = "none"
        /\ link' \in {"up", "silent"} => link \in {"up", "silent"}
        /\ link = "up" /\ link' # "up" => faults' = faults + 1
        /\ link' \in {"closed", "silent"} /\ link # "up" => link \in {"closed", "silent"}
    BY <1>1 DEF lose, return, heal, kernelTimeout, badMessage, TypeOK
  <1>6. faults' = faults \/ (faults' = faults + 1 /\ faults < MaxFaults)
    BY DEF lose, return, heal, kernelTimeout, badMessage
  <1>7. faults' \in 0 .. MaxFaults
    BY <1>1, <1>6 DEF TypeOK
  <1>8. TypeOK'
    BY <1>1, <1>2, <1>4, <1>5, <1>7 DEF TypeOK, flags, pcs, timers, stream
  <1>9. MutexHeld' /\ SocketOpen' /\ FlagsRight'
    BY <1>1, <1>2, <1>3, <1>5 DEF MutexHeld, SocketOpen, FlagsRight, flags
  <1>10. LossesCounted'
    <2>1. conn \in Int /\ faults \in Int /\ faults' \in Int /\ conn' = conn
      BY <1>1, <1>2, <1>7 DEF TypeOK
    <2>2. conn <= faults + 1 /\ faults <= faults'
      BY <1>1, <1>6, <2>1 DEF LossesCounted
    <2>3. conn' <= faults' + 1
      <3>1. \A a, b, c \in Int : a <= b + 1 /\ b <= c => a <= c + 1
        OBVIOUS
      <3> QED BY <2>1, <2>2, <3>1, Zenon
    <2>4. ASSUME owner' \in {"failed", "stop", "flags", "sleep", "start", "connect"}
          PROVE  conn' <= faults'
      BY <1>1, <1>3, <2>1, <2>2, <2>4 DEF LossesCounted
    <2>5. ASSUME link' \in {"closed", "silent"}
          PROVE  conn' <= faults'
      <3>1. CASE link = "up"
        BY <1>5, <2>1, <2>2, <2>5, <3>1
      <3>2. CASE link # "up"
        BY <1>1, <1>5, <2>1, <2>2, <2>5, <3>2 DEF LossesCounted
      <3> QED BY <3>1, <3>2
    <2> QED BY <2>3, <2>4, <2>5 DEF LossesCounted
  <1>11. SendersRight'
    BY <1>1, <1>2, <1>3, <1>5 DEF SendersRight, Sending, Idle, flags, pcs, timers
  <1>12. PlayersRight'
    BY <1>1, <1>2, <1>3 DEF PlayersRight, Playing, Idle, flags, pcs, timers
  <1>13. SleepIsEnough' /\ Fresh'
    BY <1>1, <1>2, <1>3 DEF SleepIsEnough, Fresh, Playing, pcs, timers, stream
  <1> QED BY <1>3, <1>8, <1>9, <1>10, <1>11, <1>12, <1>13 DEF Inv

\* In the first second of stopClient's sleep every playThread and every
\* sendThread that was not asleep ends, in the second those that were.
LEMMA TickKeeps ==
  ASSUME Inv, tick
  PROVE  Inv'
  <1>1. /\ TypeOK /\ Chain /\ MutexHeld /\ SocketOpen /\ LossesCounted /\ FlagsRight
        /\ SendersRight /\ PlayersRight /\ SleepIsEnough /\ Fresh
    BY DEF Inv
  <1>2. UNCHANGED <<world, conn, client_socket, mutex, flags, pcs, stream>>
    BY DEF tick
  <1>3. Chain' /\ owner' = owner /\ starter' = starter
    BY <1>1, <1>2, ProcessesStay DEF pcs
  <1>4. /\ alarm' \in Nat
        /\ nap' \in [Conns -> 0 .. 1]
        /\ \A c \in Conns : nap'[c] = 0
    BY <1>1 DEF tick, TypeOK
  <1>5. TypeOK'
    BY <1>1, <1>2, <1>4 DEF TypeOK, world, flags, pcs, stream
  <1>6. MutexHeld' /\ SocketOpen' /\ LossesCounted' /\ FlagsRight'
    BY <1>1, <1>2, <1>3 DEF MutexHeld, SocketOpen, LossesCounted, FlagsRight, world, flags
  <1>7. ASSUME owner = "sleep"
        PROVE  /\ alarm' = alarm - 1 /\ alarm \in 1 .. 2
               /\ \A c \in Conns : send[c] # "sending" /\ ~ Playing(c)
               /\ alarm' = 0 => \A c \in Conns : ~ Sending(c)
    <2>1. conn \in Threads /\ Waits(conn) /\ Timed(conn)
      BY <1>1, <1>7, Ranges DEF tick, owner, Waits, Timed
    <2>2. alarm > 0 /\ alarm <= 2 /\ alarm \in Int
      BY <1>1, <1>7, <2>1 DEF owner, Waits, SleepIsEnough, TypeOK
    <2>3. alarm' = alarm - 1
      BY <2>1, <2>2 DEF tick
    <2>4. link = "none" /\ ~ play_thd_running
      BY <1>1, <1>7 DEF SocketOpen, FlagsRight
    <2>5. \A c \in Conns : send[c] # "sending" /\ ~ Playing(c)
      BY <2>4 DEF tick, SendWaits, PlayWaits, Playing
    <2>6. ASSUME alarm' = 0, NEW c \in Conns
          PROVE  ~ Sending(c)
      <3>1. alarm < 2
        BY <2>2, <2>3, <2>6
      <3>2. nap[c] = 0
        BY <1>1, <1>7, <3>1 DEF SleepIsEnough
      <3> QED BY <2>5, <2>6, <3>2 DEF tick, SendWaits, Sending
    <2> QED BY <2>2, <2>3, <2>5, <2>6
  <1>8. \A c \in Conns : /\ Sending(c)' <=> Sending(c)
                         /\ Playing(c)' <=> Playing(c)
    BY <1>2 DEF pcs, Sending, Playing
  <1>9. Idle' => owner \in {"start", "connect", "done"} \/ (owner = "sleep" /\ alarm' = 0)
    BY <1>3 DEF Idle
  <1>10. Idle' => \A c \in Conns : ~ Sending(c) /\ ~ Playing(c)
    BY <1>1, <1>7, <1>9 DEF SendersRight, PlayersRight, Idle
  <1>11. SendersRight'
    BY <1>1, <1>2, <1>3, <1>8, <1>10 DEF SendersRight, world, flags, pcs
  <1>12. PlayersRight'
    BY <1>1, <1>2, <1>3, <1>8, <1>10 DEF PlayersRight, flags, pcs
  <1>13. SleepIsEnough'
    BY <1>2, <1>3, <1>4, <1>7, <1>8 DEF SleepIsEnough, pcs
  <1>14. Fresh'
    BY <1>1, <1>2, <1>3 DEF Fresh, pcs, stream
  <1> QED BY <1>3, <1>5, <1>6, <1>11, <1>12, <1>13, <1>14 DEF Inv

-----------------------------------------------------------------------------
LEMMA InvInit == Init => Inv
  <1> SUFFICES ASSUME Init PROVE Inv
    OBVIOUS
  <1>1. conn = 0 /\ owner = "start" /\ starter = "done" /\ 0 \in Threads
    BY DEF Init, owner, starter, Threads
  <1>2. TypeOK
    <2>1. faults \in 0 .. MaxFaults /\ conn \in 0 .. MaxFaults + 1
      BY DEF Init
    <2>2. /\ process \in [Threads -> {"none", "start"}]
          /\ send \in [Conns -> {"none"}] /\ play \in [Conns -> {"none"}]
          /\ nap \in [Conns -> {0}] /\ held \in [Conns -> {0}]
      BY DEF Init
    <2>3. /\ process \in [Threads -> {"none", "start", "connect", "pro", "send", "play",
                                "header", "time", "data", "failed", "stop", "flags",
                                "sleep", "error", "relock", "done"}]
          /\ send \in [Conns -> {"none", "loop", "sending", "sleep", "end", "done"}]
          /\ play \in [Conns -> {"none", "start", "loop", "read", "hold", "end", "failed", "done"}]
      BY <2>2
    <2>4. nap \in [Conns -> 0 .. 1] /\ held \in [Conns -> Conns \union {0}]
      BY <2>2
    <2>5. diffs \subseteq Conns /\ list \subseteq Conns /\ alarm \in Nat
      BY DEF Init
    <2> QED BY <2>1, <2>3, <2>4, <2>5 DEF Init, TypeOK
  <1>3. Chain
    BY <1>1, <1>2, Ranges DEF Init, Chain
  <1>4. MutexHeld /\ SocketOpen /\ LossesCounted /\ FlagsRight
    BY <1>1 DEF Init, MutexHeld, SocketOpen, LossesCounted, FlagsRight, Alive
  <1>5. SendersRight /\ PlayersRight /\ SleepIsEnough /\ Fresh
    BY <1>1 DEF Init, SendersRight, PlayersRight, SleepIsEnough, Fresh, Sending, Playing, Alive
  <1> QED BY <1>2, <1>3, <1>4, <1>5 DEF Inv

LEMMA InvNext == Inv /\ [Next]_vars => Inv'
  <1> SUFFICES ASSUME Inv, [Next]_vars PROVE Inv'
    OBVIOUS
  <1>1. ASSUME NEW g \in Threads, startClient(g)
        PROVE  Inv'
    BY <1>1, OpenKeeps, ConnectKeeps, CreateProcessKeeps, CreateSendKeeps, CreatePlayKeeps
       DEF startClient
  <1>2. ASSUME NEW g \in Threads, processThread(g)
        PROVE  Inv'
    BY <1>2, HeaderKeeps, MessageKeeps, FailsKeeps, SocketErrorKeeps, StopSocketKeeps,
       StopThreadsKeeps, StopListsKeeps, ErrorKeeps
       DEF processThread, stopClient
  <1>3. CASE UNCHANGED vars
    <2>1. /\ TypeOK /\ Chain /\ MutexHeld /\ SocketOpen /\ LossesCounted /\ FlagsRight
          /\ SendersRight /\ PlayersRight /\ SleepIsEnough /\ Fresh
      BY DEF Inv
    <2>2. Chain' /\ owner' = owner /\ starter' = starter
      BY <1>3, <2>1, ProcessesStay DEF vars, pcs
    <2>3. TypeOK'
      BY <1>3, <2>1 DEF TypeOK, vars, world, flags, pcs, timers, stream
    <2>4. MutexHeld' /\ SocketOpen' /\ LossesCounted' /\ FlagsRight'
      BY <1>3, <2>1, <2>2
         DEF MutexHeld, SocketOpen, LossesCounted, FlagsRight, vars, world, flags
    <2>5. SendersRight' /\ PlayersRight'
      BY <1>3, <2>1, <2>2 DEF SendersRight, PlayersRight, Sending, Playing, Idle, vars,
                              world, flags, pcs, timers
    <2>6. SleepIsEnough' /\ Fresh'
      BY <1>3, <2>1, <2>2 DEF SleepIsEnough, Fresh, Playing, vars, pcs, timers, stream
    <2> QED BY <2>2, <2>3, <2>4, <2>5, <2>6 DEF Inv
  <1> QED BY <1>1, <1>2, <1>3, SendKeeps, PlayKeeps, WorldKeeps, TickKeeps DEF Next

LEMMA Invariance == Spec => []Inv
  BY InvInit, InvNext, PTL DEF Spec

-----------------------------------------------------------------------------
\* Every variable keeps its type.
THEOREM TypeCorrect == Spec => []TypeOK
  <1>1. Inv => TypeOK
    BY DEF Inv
  <1> QED BY <1>1, Invariance, PTL

\* Never two threads of a kind; a connection that is read has its own, and the
\* flags let them run.  (TcpClient.cpp:94-105, 121-124, 246, 517)
THEOREM ThreadsAreOneOfEach == Spec => []OneOfEach
  <1>1. ASSUME Inv PROVE OneOfEach
    <2>1. /\ TypeOK /\ MutexHeld /\ SocketOpen /\ FlagsRight /\ SendersRight /\ PlayersRight
      BY <1>1 DEF Inv
    <2>2. \A c \in Conns : Reading(c) => c = conn /\ owner \in {"header", "time", "data"}
      BY <1>1, Where, <2>1, Ranges DEF Reading
    <2>3. ASSUME NEW c \in Conns, Reading(c)
          PROVE  /\ c = conn
                 /\ pro_thd_running
                 /\ ~ mutex => (play_thd_running /\ Playing(c)) \/ play[c] = "failed"
                 /\ ~ mutex /\ link = "up" => send_thd_running /\ Sending(c)
      <3>1. c = conn /\ owner \in Alive /\ (~ mutex => starter = "done")
        BY <2>1, <2>2, <2>3 DEF Alive, MutexHeld
      <3> QED BY <2>1, <3>1 DEF FlagsRight, SendersRight, PlayersRight, Sending, Playing
    <2>4. \A g \in Threads : process[g] = "start" => client_socket < 1
      BY <1>1, Where, <2>1 DEF SocketOpen
    <2> QED BY <2>1, <2>2, <2>3, <2>4 DEF OneOfEach, SendersRight, PlayersRight
  <1> QED BY <1>1, Invariance, PTL

\* Nothing of an earlier connection is played, or judged by, after a restart.
\* (TcpClient.cpp:117, 124-127)
THEOREM NothingStaleIsPlayed == Spec => []NothingStale
  <1>1. Inv => NothingStale
    BY DEF Inv, Fresh, NothingStale
  <1> QED BY <1>1, Invariance, PTL
=============================================================================
