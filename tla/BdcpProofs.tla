----------------------------- MODULE BdcpProofs -----------------------------
(***************************************************************************)
(* For every set of devices and addresses: a device follows only addresses *)
(* that were announced as a server's, a settled server stays one until it  *)
(* is rebooted, and a device whose knob is away does nothing.              *)
(***************************************************************************)
EXTENDS Bdcp, TLAPS

\* A device not yet past polling has not reached the limit: the limit is tested for
\* equality right after each count, and main does not poll again.
StillPolling == \A d \in Devices : main[d] \in {"aux", "poll", "query"} => count[d] < PollLimit

\* An answer on its way that says SERVER was announced.
AnswersAnnounced ==
  \A d, s \in Devices : inbox[d][s].tag = "SERVER" => inbox[d][s].ip \in offered

Inv == TypeOK /\ StillPolling /\ AnswersAnnounced /\ ClientsFollowOffers /\ AwayIsSilent

-----------------------------------------------------------------------------
\* The type invariant.

LEMMA InvInit == Init => Inv
<1> SUFFICES ASSUME Init PROVE Inv
  OBVIOUS
<1> USE IpsAssumption, LimitAssumption DEF Init
<1>1. TypeOK
  BY DEF TypeOK, Modes, Processes
<1>2. StillPolling
  BY DEF StillPolling
<1>3. AnswersAnnounced
  BY DEF AnswersAnnounced, NoResponse
<1>4. ClientsFollowOffers
  BY DEF ClientsFollowOffers, Idle
<1>5. AwayIsSilent
  BY DEF AwayIsSilent
<1>. QED BY <1>1, <1>2, <1>3, <1>4, <1>5 DEF Inv

\* A client is only started for an address, never for what the handler's
\* record held before it was set: that takes ClientsFollowOffers.
LEMMA TypeNext ==
  TypeOK /\ StillPolling /\ ClientsFollowOffers /\ [Next]_vars => TypeOK'
<1> SUFFICES ASSUME TypeOK, StillPolling, ClientsFollowOffers, [Next]_vars PROVE TypeOK'
  OBVIOUS
<1> USE LimitAssumption DEF TypeOK, network, aux, world
<1>1. ASSUME NEW d \in Devices, mainThread(d) PROVE TypeOK'
  <2>1. CASE poll(d)
    BY <2>1 DEF poll
  <2>2. CASE query(d)
    <3>1. count[d] < PollLimit
      BY <2>2 DEF query, StillPolling
    <3>. QED BY <2>2, <3>1 DEF query
  <2>3. CASE set_current_mode(d)
    BY <2>3 DEF set_current_mode, Modes
  <2>4. CASE killRoomcast(d)
    BY <2>4 DEF killRoomcast
  <2>5. CASE startServer(d)
    BY <2>5 DEF startServer, Processes
  <2>6. CASE begin(d)
    BY <2>6 DEF begin
  <2>. QED BY <1>1, <2>1, <2>2, <2>3, <2>4, <2>5, <2>6 DEF mainThread
<1>2. ASSUME NEW d \in Devices, answer(d) PROVE TypeOK'
  <2>1. PICK S \in SUBSET Devices : task_bdcpd(d, S)
    BY <1>2 DEF answer
  <2>2. [ip |-> ip[d], tag |-> current_mode[d]] \in Responses
    BY DEF Responses
  <2>3. inbox' \in [Devices -> [Devices -> Responses \union {NoResponse}]]
    BY <2>1, <2>2 DEF task_bdcpd
  <2>. QED BY <2>1, <2>3 DEF task_bdcpd
<1>3. ASSUME NEW d \in Devices, handle_bdcp_client(d) PROVE TypeOK'
  <2>1. ASSUME NEW s \in Devices, recvResponse(d, s) PROVE TypeOK'
    <3>1. inbox[d][s] \in Responses
      BY <2>1 DEF recvResponse
    <3>2. inbox[d][s].ip \in Ips
      BY <3>1 DEF Responses
    <3>. QED BY <2>1, <3>2 DEF recvResponse
  <2>2. CASE becomeClient(d)
    BY <2>2 DEF becomeClient, Modes
  <2>3. CASE killForClient(d)
    BY <2>3 DEF killForClient
  <2>4. CASE startClient(d)
    <3>1. server[d] \in Ips
      BY <2>4 DEF startClient, ClientsFollowOffers, Idle
    <3>2. ClientOf(server[d]) \in Processes
      BY <3>1 DEF Processes
    <3>. QED BY <2>4, <3>2 DEF startClient
  <2>. QED BY <1>3, <2>1, <2>2, <2>3, <2>4 DEF handle_bdcp_client
<1>4. ASSUME NEW d \in Devices, changeIp(d) PROVE TypeOK'
  BY <1>4 DEF changeIp
<1>5. ASSUME NEW d \in Devices, turn(d) PROVE TypeOK'
  BY <1>5 DEF turn
<1>6. ASSUME NEW d \in Devices, reboot(d) PROVE TypeOK'
  <2>1. inbox' \in [Devices -> [Devices -> Responses \union {NoResponse}]]
    BY <1>6 DEF reboot
  <2>2. server' \in [Devices -> Ips \union {Garbage}]
    BY <1>6, IpsAssumption DEF reboot
  <2>. QED BY <1>6, <2>1, <2>2 DEF reboot, Modes
<1>7. ASSUME NEW d \in Devices, aux_handle(d) PROVE TypeOK'
  BY <1>7 DEF aux_handle
<1>8. CASE UNCHANGED vars
  BY <1>8 DEF vars
<1>. QED BY <1>1, <1>2, <1>3, <1>4, <1>5, <1>6, <1>7, <1>8 DEF Next

-----------------------------------------------------------------------------
\* What devices follow.

LEMMA PollingNext == TypeOK /\ StillPolling /\ [Next]_vars => StillPolling'
<1> SUFFICES ASSUME TypeOK, StillPolling, [Next]_vars PROVE StillPolling'
  OBVIOUS
<1> USE LimitAssumption DEF TypeOK, StillPolling
<1>1. ASSUME NEW d \in Devices, query(d) PROVE StillPolling'
  BY <1>1 DEF query
<1>2. ASSUME NEW d \in Devices, poll(d) PROVE StillPolling'
  BY <1>2 DEF poll
<1>6. ASSUME NEW d \in Devices, begin(d) PROVE StillPolling'
  BY <1>6 DEF begin
<1>7. ASSUME NEW d \in Devices, reboot(d) PROVE StillPolling'
  BY <1>7 DEF reboot
<1>8. ASSUME NEW d \in Devices, aux_handle(d) PROVE StillPolling'
  BY <1>8 DEF aux_handle
<1>3. ASSUME NEW d \in Devices, set_current_mode(d) \/ killRoomcast(d) \/ startServer(d)
      PROVE  StillPolling'
  BY <1>3 DEF set_current_mode, killRoomcast, startServer
<1>4. CASE UNCHANGED <<main, count>>
  BY <1>4
<1>5. ASSUME NEW d \in Devices,
             answer(d) \/ handle_bdcp_client(d) \/ changeIp(d) \/ turn(d)
      PROVE  UNCHANGED <<main, count>>
  BY <1>5 DEF answer, task_bdcpd, handle_bdcp_client, recvResponse, becomeClient,
              killForClient, startClient, changeIp, turn
<1>. QED BY <1>1, <1>2, <1>3, <1>4, <1>5, <1>6, <1>7, <1>8 DEF Next, mainThread, vars

\* Most steps neither put an answer in a socket nor start a client.
LEMMA AnnouncedNext == TypeOK /\ AnswersAnnounced /\ [Next]_vars => AnswersAnnounced'
<1> SUFFICES ASSUME TypeOK, AnswersAnnounced, [Next]_vars PROVE AnswersAnnounced'
  OBVIOUS
<1>1. ASSUME NEW d \in Devices, answer(d) PROVE AnswersAnnounced'
  <2> DEFINE pkt == [ip |-> ip[d], tag |-> current_mode[d]]
  <2>1. PICK S \in SUBSET Devices : task_bdcpd(d, S)
    BY <1>1 DEF answer
  <2>2. /\ offered \subseteq offered'
        /\ pkt.tag = "SERVER" => pkt.ip \in offered'
    BY <2>1 DEF task_bdcpd
  <2>3. \A e, s \in Devices : inbox'[e][s] = inbox[e][s] \/ inbox'[e][s] = pkt
    BY <2>1 DEF task_bdcpd, TypeOK
  <2> HIDE DEF pkt
  <2>. QED BY <2>2, <2>3 DEF AnswersAnnounced
<1>2. ASSUME NEW d \in Devices, NEW t \in Devices, recvResponse(d, t)
      PROVE  AnswersAnnounced'
  <2>1. /\ offered' = offered
        /\ \A e, s \in Devices : inbox'[e][s] = inbox[e][s] \/ inbox'[e][s] = NoResponse
    BY <1>2 DEF recvResponse, TypeOK
  <2>. QED BY <2>1 DEF AnswersAnnounced, NoResponse
<1>3. CASE UNCHANGED <<inbox, offered>>
  BY <1>3 DEF AnswersAnnounced
<1>6. ASSUME NEW d \in Devices, reboot(d) PROVE AnswersAnnounced'
  <2>1. /\ offered' = offered
        /\ \A e, s \in Devices : inbox'[e][s] = inbox[e][s] \/ inbox'[e][s] = NoResponse
    BY <1>6 DEF reboot, TypeOK
  <2>. QED BY <2>1 DEF AnswersAnnounced, NoResponse
<1>7. ASSUME NEW d \in Devices, aux_handle(d) PROVE AnswersAnnounced'
  BY <1>3, <1>7 DEF aux_handle, network
<1>4. ASSUME NEW d \in Devices, mainThread(d) PROVE UNCHANGED <<inbox, offered>>
  BY <1>4 DEF mainThread, begin, poll, query, set_current_mode, killRoomcast, startServer,
              network
<1>5. ASSUME NEW d \in Devices,
             \/ becomeClient(d) \/ killForClient(d) \/ startClient(d)
             \/ changeIp(d) \/ turn(d)
      PROVE  UNCHANGED <<inbox, offered>>
  BY <1>5 DEF becomeClient, killForClient, startClient, changeIp, turn, network
<1>. QED BY <1>1, <1>2, <1>3, <1>4, <1>5, <1>6, <1>7 DEF Next, handle_bdcp_client, vars, network

\* The handler takes an address from an announced answer and starts a client
\* for that address; nothing announced is forgotten.
LEMMA FollowNext ==
  TypeOK /\ AnswersAnnounced /\ ClientsFollowOffers /\ [Next]_vars => ClientsFollowOffers'
<1> SUFFICES ASSUME TypeOK, AnswersAnnounced, ClientsFollowOffers, [Next]_vars
             PROVE  ClientsFollowOffers'
  OBVIOUS
<1> USE DEF TypeOK, ClientsFollowOffers, Idle, network
<1>1. ASSUME NEW d \in Devices, NEW s \in Devices, recvResponse(d, s)
      PROVE  ClientsFollowOffers'
  <2>1. worthSwitching(d, inbox[d][s]) => inbox[d][s].ip \in offered
    BY DEF worthSwitching, AnswersAnnounced
  <2>2. /\ UNCHANGED <<roomcast, offered>>
        /\ \A e \in Devices \ {d} : handler'[e] = handler[e] /\ server'[e] = server[e]
    BY <1>1 DEF recvResponse
  <2>3. handler'[d] # "recv" => server'[d] \in offered
    BY <1>1, <2>1 DEF recvResponse
  <2>. QED BY <2>2, <2>3
<1>2. ASSUME NEW d \in Devices, becomeClient(d) PROVE ClientsFollowOffers'
  BY <1>2 DEF becomeClient
<1>3. ASSUME NEW d \in Devices, killForClient(d) PROVE ClientsFollowOffers'
  BY <1>3 DEF killForClient
<1>4. ASSUME NEW d \in Devices, startClient(d) PROVE ClientsFollowOffers'
  <2>1. ClientOf(server[d]).of = server[d] /\ server[d] \in offered
    BY <1>4 DEF startClient, ClientOf
  <2>. QED BY <1>4, <2>1 DEF startClient
<1>5. ASSUME NEW d \in Devices, answer(d) PROVE ClientsFollowOffers'
  <2>1. UNCHANGED <<roomcast, handler, server>> /\ offered \subseteq offered'
    BY <1>5 DEF answer, task_bdcpd
  <2>. QED BY <2>1
<1>6. ASSUME NEW d \in Devices, mainThread(d) PROVE ClientsFollowOffers'
  <2>1. /\ UNCHANGED <<server, offered>>
        /\ \A e \in Devices : handler'[e] = handler[e] \/ handler'[e] = "recv"
        /\ \A e \in Devices : roomcast'[e] \subseteq roomcast[e] \union {Server}
    BY <1>6 DEF mainThread, begin, poll, query, set_current_mode, killRoomcast, startServer
  <2>. QED BY <2>1
<1>7. ASSUME NEW d \in Devices, changeIp(d) PROVE ClientsFollowOffers'
  BY <1>7 DEF changeIp
<1>9. ASSUME NEW d \in Devices, turn(d) PROVE ClientsFollowOffers'
  BY <1>9 DEF turn
<1>10. ASSUME NEW d \in Devices, reboot(d) PROVE ClientsFollowOffers'
  <2>1. /\ offered' = offered /\ roomcast'[d] = {} /\ handler'[d] = "none"
        /\ \A e \in Devices \ {d} : /\ handler'[e] = handler[e] /\ server'[e] = server[e]
                                     /\ roomcast'[e] = roomcast[e]
    BY <1>10 DEF reboot
  <2>. QED BY <2>1
<1>11. ASSUME NEW d \in Devices, aux_handle(d) PROVE ClientsFollowOffers'
  BY <1>11 DEF aux_handle
<1>8. CASE UNCHANGED vars
  BY <1>8 DEF vars
<1>. QED
  BY <1>1, <1>2, <1>3, <1>4, <1>5, <1>6, <1>7, <1>8, <1>9, <1>10, <1>11
     DEF Next, handle_bdcp_client

-----------------------------------------------------------------------------
\* The knob: nothing of a device moves before the knob was seen at aux, and
\* what sees it away stops all of it at once.
LEMMA AwayNext == TypeOK /\ AwayIsSilent /\ [Next]_vars => AwayIsSilent'
<1> SUFFICES ASSUME TypeOK, AwayIsSilent, [Next]_vars PROVE AwayIsSilent'
  OBVIOUS
<1> USE DEF TypeOK, AwayIsSilent, aux, world
<1>1. ASSUME NEW d \in Devices, mainThread(d) PROVE AwayIsSilent'
  <2>1. last_value[d] \/ going[d]
    BY <1>1 DEF mainThread, begin, poll, query, set_current_mode, killRoomcast, startServer
  <2>2. /\ UNCHANGED <<last_value, tag, going>>
        /\ \A e \in Devices \ {d} : /\ main'[e] = main[e] /\ handler'[e] = handler[e]
                                     /\ roomcast'[e] = roomcast[e]
    BY <1>1 DEF mainThread, begin, poll, query, set_current_mode, killRoomcast, startServer
  <2>. QED BY <2>1, <2>2
<1>2. ASSUME NEW d \in Devices, handle_bdcp_client(d) PROVE AwayIsSilent'
  <2>1. last_value[d] \/ going[d]
    BY <1>2 DEF handle_bdcp_client, recvResponse, becomeClient, killForClient, startClient
  <2>2. /\ UNCHANGED <<last_value, tag, going>>
        /\ \A e \in Devices \ {d} : /\ main'[e] = main[e] /\ handler'[e] = handler[e]
                                     /\ roomcast'[e] = roomcast[e]
    BY <1>2 DEF handle_bdcp_client, recvResponse, becomeClient, killForClient, startClient
  <2>. QED BY <2>1, <2>2
<1>3. ASSUME NEW d \in Devices, answer(d) \/ changeIp(d) \/ turn(d) PROVE AwayIsSilent'
  <2>1. UNCHANGED <<last_value, tag, going, main, handler, roomcast>>
    BY <1>3 DEF answer, task_bdcpd, changeIp, turn
  <2>. QED BY <2>1
<1>4. ASSUME NEW d \in Devices, aux_handle(d) PROVE AwayIsSilent'
  BY <1>4 DEF aux_handle
<1>6. ASSUME NEW d \in Devices, reboot(d) PROVE AwayIsSilent'
  BY <1>6 DEF reboot
<1>5. CASE UNCHANGED vars
  BY <1>5 DEF vars
<1>. QED BY <1>1, <1>2, <1>3, <1>4, <1>5, <1>6 DEF Next

LEMMA Invariance == Spec => []Inv
<1>1. Inv /\ [Next]_vars => Inv'
  BY TypeNext, PollingNext, AnnouncedNext, FollowNext, AwayNext DEF Inv
<1>. QED BY <1>1, InvInit, PTL DEF Spec

\* The state is what its types say; in particular no roomcast client is ever
\* started with the uninitialised record (bdcp.cpp:200, 290-303).
THEOREM TypeCorrect == Spec => []TypeOK
BY Invariance, PTL DEF Inv

\* A device only follows an address some device announced as SERVER
\* (bdcp.cpp:266-303).
THEOREM OffersFollowed == Spec => []ClientsFollowOffers
BY Invariance, PTL DEF Inv

\* A device that does anything is rebooted by the next look at a knob that is
\* away (gpio_manager.cpp:83-97).
THEOREM AwayDoesNothing == Spec => []AwayIsSilent
BY Invariance, PTL DEF Inv

-----------------------------------------------------------------------------
\* Servers.

\* Two threads write the mode: main only ever writes SERVER, and the handler
\* writes CLIENT only after it left recv, which it does not for a server.
LEMMA SettledStep ==
  ASSUME TypeOK, [Next]_vars, NEW d \in Devices, Settled(d)
  PROVE  Settled(d)' \/ main'[d] = "aux"
<1> USE DEF TypeOK, Settled, Idle
<1>1. ASSUME NEW e \in Devices, mainThread(e) PROVE Settled(d)'
  BY <1>1 DEF mainThread, begin, poll, query, set_current_mode, killRoomcast, startServer
<1>2. ASSUME NEW e \in Devices, answer(e) PROVE Settled(d)'
  BY <1>2 DEF answer, task_bdcpd
<1>3. ASSUME NEW e \in Devices, handle_bdcp_client(e) PROVE Settled(d)'
  <2>1. ASSUME NEW s \in Devices, recvResponse(e, s) PROVE Settled(d)'
    BY <2>1 DEF recvResponse, worthSwitching
  <2>2. CASE becomeClient(e) \/ killForClient(e) \/ startClient(e)
    BY <2>2 DEF becomeClient, killForClient, startClient
  <2>. QED BY <1>3, <2>1, <2>2 DEF handle_bdcp_client
<1>4. ASSUME NEW e \in Devices, changeIp(e) PROVE Settled(d)'
  BY <1>4 DEF changeIp
<1>5. CASE UNCHANGED vars
  BY <1>5 DEF vars
<1>6. ASSUME NEW e \in Devices, turn(e) PROVE Settled(d)'
  BY <1>6 DEF turn
<1>7. ASSUME NEW e \in Devices, aux_handle(e) PROVE Settled(d)'
  BY <1>7 DEF aux_handle
<1>8. ASSUME NEW e \in Devices, reboot(e) PROVE Settled(d)' \/ main'[d] = "aux"
  BY <1>8 DEF reboot
<1>. QED BY <1>1, <1>2, <1>3, <1>4, <1>5, <1>6, <1>7, <1>8 DEF Next

\* A device that serves, with no earlier answer in its handler's hands, serves
\* until it is rebooted (bdcp.cpp:273, 289).
THEOREM ServersStay == Spec => ServerStays
<1>1. TypeOK /\ [Next]_vars => [\A d \in Devices : Settled(d) => Settled(d)' \/ main'[d] = "aux"]_vars
  BY SettledStep
<1>. QED BY <1>1, TypeCorrect, PTL DEF Spec, ServerStays
=============================================================================
