-------------------------------- MODULE Bdcp --------------------------------
(***************************************************************************)
(* How the zubo devices of one group agree who serves (Zubo/main.cpp,      *)
(* Zubo/src/bdcp.cpp and Zubo/src/gpio_manager.cpp).  aux_handle looks at  *)
(* the device's knob: it lets main go on when the knob comes to aux, and   *)
(* reboots the device when it leaves.  Then three threads share            *)
(* current_mode, which no lock protects: main polls by multicasting        *)
(* discover requests, and after PollLimit polls without a server makes the *)
(* device one; task_bdcpd answers requests with the device's mode;         *)
(* handle_bdcp_client reads the answers and makes the device a client of a *)
(* server it hears.  Each change kills the roomcast process and starts     *)
(* another.                                                                *)
(*                                                                         *)
(* Messages are UDP multicasts: each copy may be lost, or wait in the      *)
(* receiver's socket until it is out of date, those of different senders   *)
(* in any order.  Of one sender's answers at most one waits: that an older *)
(* one was waiting too is as if it had been lost.  The devices of other    *)
(* groups and subnets are left out: what they send is dropped on arrival   *)
(* (bdcp.cpp:267, 289), as a lost message is.                              *)
(***************************************************************************)
EXTENDS Integers

CONSTANTS
  Devices,
  Ips,         \* the addresses devices may have
  FirstIp,     \* FirstIp[d]: the address of d when it starts
  Garbage,     \* an address no device ever has
  Serving,     \* the devices that serve already when the others start
  AtAux,       \* the devices whose knob is at aux at that moment
  Leftovers,   \* what an uninitialised address may hold
  PollLimit,   \* polls without a server before a device serves (300)
  MaxChanges   \* bound: turns of a knob, and twice the changes of address

ASSUME IpsAssumption ==
  /\ FirstIp \in [Devices -> Ips]
  /\ Garbage \notin Ips
  /\ Leftovers \subseteq Ips \union {Garbage}
ASSUME LimitAssumption ==
  /\ Serving \subseteq AtAux /\ AtAux \subseteq Devices
  /\ PollLimit \in Nat \ {0}
  /\ MaxChanges \in Nat

Modes == {"UN_SET", "SERVER", "CLIENT"}
Responses == [ip : Ips, tag : Modes]
NoResponse == [ip |-> Garbage, tag |-> "UN_SET"]

\* A roomcast process: `roomcast 0' or `roomcast 1 ip'.
Server == [role |-> "server", of |-> Garbage]
ClientOf(i) == [role |-> "client", of |-> i]
Processes == {Server} \union {ClientOf(i) : i \in Ips}

VARIABLES
  ip,             \* the address of each device
  changes,        \* turns of a knob and twice the changes of address so far
  knob,           \* the device's knob is at aux
  last_value,     \* aux_handle: what it was at the last look
  tag,            \* main's variable that aux_handle sets
  going,          \* the reboot was commanded: the system is going down
  current_mode,   \* the static of bdcp.cpp
  count,          \* main: polls made while the mode was UN_SET
  main,           \* program counter of main
  handler,        \* program counter of handle_bdcp_client
  server,         \* handle_bdcp_client's record of its server, by address
  roomcast,       \* the roomcast processes running on the device
  asked,          \* a discover request waits for task_bdcpd
  inbox,          \* inbox[d][s]: the answer of s in d's client socket
  offered         \* history: the addresses ever announced with tag SERVER

aux == <<knob, last_value, tag, going>>
world == <<ip, changes, knob>>
network == <<asked, inbox, offered>>
vars == <<ip, changes, aux, current_mode, count, main, handler, server, roomcast, network>>

TypeOK ==
  /\ ip \in [Devices -> Ips]
  /\ changes \in 0 .. MaxChanges
  /\ knob \in [Devices -> BOOLEAN]
  /\ last_value \in [Devices -> BOOLEAN]
  /\ tag \in [Devices -> BOOLEAN]
  /\ going \in [Devices -> BOOLEAN]
  /\ current_mode \in [Devices -> Modes]
  /\ count \in [Devices -> 0 .. PollLimit]
  /\ main \in [Devices -> {"aux", "poll", "query", "claim", "kill", "start", "done"}]
  /\ handler \in [Devices -> {"none", "recv", "switch", "kill", "start"}]
  /\ server \in [Devices -> Ips \union {Garbage}]
  /\ roomcast \in [Devices -> SUBSET Processes]
  /\ asked \in [Devices -> BOOLEAN]
  /\ inbox \in [Devices -> [Devices -> Responses \union {NoResponse}]]
  /\ offered \in SUBSET Ips

\* `server' is an uninitialised local: its address may be any.
Init ==
  /\ ip = FirstIp
  /\ changes = 0
  /\ knob = [d \in Devices |-> d \in AtAux]
  /\ last_value = [d \in Devices |-> d \in Serving]
  /\ tag = [d \in Devices |-> d \in Serving]
  /\ going = [d \in Devices |-> FALSE]
  /\ current_mode = [d \in Devices |-> IF d \in Serving THEN "SERVER" ELSE "UN_SET"]
  /\ count = [d \in Devices |-> IF d \in Serving THEN PollLimit ELSE 0]
  /\ main = [d \in Devices |-> IF d \in Serving THEN "done" ELSE "aux"]
  /\ handler = [d \in Devices |-> IF d \in Serving THEN "recv" ELSE "none"]
  /\ server \in [Devices -> Leftovers]
  /\ roomcast = [d \in Devices |-> IF d \in Serving THEN {Server} ELSE {}]
  /\ asked = [d \in Devices |-> FALSE]
  /\ inbox = [d \in Devices |-> [s \in Devices |-> NoResponse]]
  /\ offered = {}

-----------------------------------------------------------------------------
\* aux_handle, once a second.  (A read that fails is left out.)

\* Mutant of aux_handle: the last value is not kept.
aux_handleForgets(d) ==
  /\ \/ /\ ~ last_value[d] /\ knob[d]
        /\ tag' = [tag EXCEPT ![d] = TRUE]
        /\ UNCHANGED <<last_value, going>>
     \/ /\ last_value[d] /\ ~ knob[d]
        /\ going' = [going EXCEPT ![d] = TRUE]
        /\ UNCHANGED <<last_value, tag>>
  /\ UNCHANGED <<world, current_mode, count, main, handler, server, roomcast, network>>

\* system("reboot") returns at once: the threads, this one too, run on until the
\* system is down.
aux_handle(d) ==
  /\ last_value[d] # knob[d]
  /\ last_value' = [last_value EXCEPT ![d] = knob[d]]
  /\ \/ /\ knob[d]
        /\ tag' = [tag EXCEPT ![d] = TRUE]
        /\ UNCHANGED going
     \/ /\ ~ knob[d]
        /\ going' = [going EXCEPT ![d] = TRUE]
        /\ UNCHANGED tag
  /\ UNCHANGED <<world, current_mode, count, main, handler, server, roomcast, network>>

\* Of what is in the others' sockets the device takes nothing back.
reboot(d) ==
  /\ going[d]
  /\ going' = [going EXCEPT ![d] = FALSE]
  /\ last_value' = [last_value EXCEPT ![d] = FALSE]
  /\ tag' = [tag EXCEPT ![d] = FALSE]
  /\ current_mode' = [current_mode EXCEPT ![d] = "UN_SET"]
  /\ count' = [count EXCEPT ![d] = 0]
  /\ main' = [main EXCEPT ![d] = "aux"]
  /\ handler' = [handler EXCEPT ![d] = "none"]
  /\ \E i \in Leftovers : server' = [server EXCEPT ![d] = i]
  /\ roomcast' = [roomcast EXCEPT ![d] = {}]
  /\ asked' = [asked EXCEPT ![d] = FALSE]
  /\ inbox' = [inbox EXCEPT ![d] = [s \in Devices |-> NoResponse]]
  /\ UNCHANGED <<world, offered>>

-----------------------------------------------------------------------------
\* main.

\* The knob is at aux: the other threads are created.
begin(d) ==
  /\ main[d] = "aux"
  /\ tag[d]
  /\ main' = [main EXCEPT ![d] = "poll"]
  /\ handler' = [handler EXCEPT ![d] = "recv"]
  /\ UNCHANGED <<ip, changes, aux, current_mode, count, server, roomcast, network>>

\* The multicast reaches every device that runs, the sender too.  (A request that is
\* lost has the effect of one whose answer is lost.)
poll(d) ==
  /\ main[d] = "poll"
  /\ main' = [main EXCEPT ![d] = "query"]
  /\ asked' = [e \in Devices |-> main[e] # "aux"]
  /\ UNCHANGED <<ip, changes, aux, current_mode, count, handler, server, roomcast, inbox, offered>>

\* Mutant of query: the limit is tested one poll late.
queryOneLate(d) ==
  LET polls == IF current_mode[d] = "UN_SET" THEN count[d] + 1 ELSE count[d]
  IN  /\ main[d] = "query"
      /\ count' = [count EXCEPT ![d] = polls]
      /\ main' = [main EXCEPT ![d] = IF polls > PollLimit THEN "claim" ELSE "poll"]
      /\ UNCHANGED <<ip, changes, aux, current_mode, handler, server, roomcast, network>>

\* Mutant of query: the polls of the wrong mode are counted.
queryCountsClients(d) ==
  LET polls == IF current_mode[d] = "CLIENT" THEN count[d] + 1 ELSE count[d]
  IN  /\ main[d] = "query"
      /\ count' = [count EXCEPT ![d] = polls]
      /\ main' = [main EXCEPT ![d] = IF polls = PollLimit THEN "claim" ELSE "poll"]
      /\ UNCHANGED <<ip, changes, aux, current_mode, handler, server, roomcast, network>>

\* A device that has a mode goes on polling, every 2 s, so that a client sees
\* its server move.
query(d) ==
  LET polls == IF current_mode[d] = "UN_SET" THEN count[d] + 1 ELSE count[d]
  IN  /\ main[d] = "query"
      /\ count' = [count EXCEPT ![d] = polls]
      /\ main' = [main EXCEPT ![d] = IF polls = PollLimit THEN "claim" ELSE "poll"]
      /\ UNCHANGED <<ip, changes, aux, current_mode, handler, server, roomcast, network>>

\* The mode is set without another look at it.
set_current_mode(d) ==
  /\ main[d] = "claim"
  /\ current_mode' = [current_mode EXCEPT ![d] = "SERVER"]
  /\ main' = [main EXCEPT ![d] = "kill"]
  /\ UNCHANGED <<ip, changes, aux, count, handler, server, roomcast, network>>

killRoomcast(d) ==
  /\ main[d] = "kill"
  /\ roomcast' = [roomcast EXCEPT ![d] = {}]
  /\ main' = [main EXCEPT ![d] = "start"]
  /\ UNCHANGED <<ip, changes, aux, current_mode, count, handler, server, network>>

startServer(d) ==
  /\ main[d] = "start"
  /\ roomcast' = [roomcast EXCEPT ![d] = @ \union {Server}]
  /\ main' = [main EXCEPT ![d] = "done"]
  /\ UNCHANGED <<ip, changes, aux, current_mode, count, handler, server, network>>

mainThread(d) ==
  \/ begin(d) \/ poll(d) \/ query(d) \/ set_current_mode(d)
  \/ killRoomcast(d) \/ startServer(d)

-----------------------------------------------------------------------------
\* task_bdcpd: the answer carries the address and mode of this moment, and
\* reaches the devices of S, if they run, the sender too.  (The copies to itself
\* that do not say SERVER are left out: they are read to no effect.)
task_bdcpd(d, S) ==
  LET pkt == [ip |-> ip[d], tag |-> current_mode[d]]
      readers == IF pkt.tag = "SERVER" THEN S ELSE S \ {d}
  IN  /\ asked[d]
      /\ asked' = [asked EXCEPT ![d] = FALSE]
      /\ inbox' = [e \in Devices |-> IF e \in readers /\ main[e] # "aux"
                                 THEN [inbox[e] EXCEPT ![d] = pkt]
                                 ELSE inbox[e]]
      /\ offered' = IF pkt.tag = "SERVER" THEN offered \union {pkt.ip} ELSE offered
      /\ UNCHANGED <<ip, changes, aux, current_mode, count, main, handler, server, roomcast>>

-----------------------------------------------------------------------------
\* handle_bdcp_client.

\* Mutants of worthSwitching: the tag is not tested, the device's own mode is
\* not tested, or a client never looks for another address.
worthSwitchingAnyTag(d, pkt) ==
  /\ server[d] # pkt.ip
  /\ current_mode[d] # "SERVER"

worthSwitchingAnyMode(d, pkt) ==
  /\ pkt.tag = "SERVER"
  /\ server[d] # pkt.ip

worthSwitchingOnce(d, pkt) ==
  /\ pkt.tag = "SERVER"
  /\ current_mode[d] = "UN_SET"

\* The MAC addresses are compared as pointers and always differ, so a server
\* is known by its address alone.
worthSwitching(d, pkt) ==
  /\ pkt.tag = "SERVER"
  /\ server[d] # pkt.ip
  /\ current_mode[d] # "SERVER"

recvResponse(d, s) ==
  /\ handler[d] = "recv"
  /\ inbox[d][s] # NoResponse
  /\ inbox' = [inbox EXCEPT ![d][s] = NoResponse]
  /\ LET pkt == inbox[d][s]
     IN  \/ /\ worthSwitching(d, pkt)
            /\ server' = [server EXCEPT ![d] = pkt.ip]
            /\ handler' = [handler EXCEPT ![d] = "switch"]
         \/ /\ ~ worthSwitching(d, pkt)
            /\ UNCHANGED <<server, handler>>
  /\ UNCHANGED <<ip, changes, aux, current_mode, count, main, roomcast, asked, offered>>

becomeClient(d) ==
  /\ handler[d] = "switch"
  /\ current_mode' = [current_mode EXCEPT ![d] = "CLIENT"]
  /\ handler' = [handler EXCEPT ![d] = "kill"]
  /\ UNCHANGED <<ip, changes, aux, count, main, server, roomcast, network>>

killForClient(d) ==
  /\ handler[d] = "kill"
  /\ roomcast' = [roomcast EXCEPT ![d] = {}]
  /\ handler' = [handler EXCEPT ![d] = "start"]
  /\ UNCHANGED <<ip, changes, aux, current_mode, count, main, server, network>>

startClient(d) ==
  /\ handler[d] = "start"
  /\ roomcast' = [roomcast EXCEPT ![d] = @ \union {ClientOf(server[d])}]
  /\ handler' = [handler EXCEPT ![d] = "recv"]
  /\ UNCHANGED <<ip, changes, aux, current_mode, count, main, server, network>>

handle_bdcp_client(d) ==
  \/ \E s \in Devices : recvResponse(d, s)
  \/ becomeClient(d) \/ killForClient(d) \/ startClient(d)

-----------------------------------------------------------------------------
\* The network gives a device another address (a reconnect, a new lease).
changeIp(d) ==
  /\ changes + 2 =< MaxChanges
  /\ changes' = changes + 2
  /\ \E i \in Ips \ {ip[e] : e \in Devices} : ip' = [ip EXCEPT ![d] = i]
  /\ UNCHANGED <<aux, current_mode, count, main, handler, server, roomcast, network>>

\* Somebody turns the knob.
turn(d) ==
  /\ changes < MaxChanges
  /\ changes' = changes + 1
  /\ knob' = [knob EXCEPT ![d] = ~ @]
  /\ UNCHANGED <<ip, last_value, tag, going, current_mode, count, main, handler, server, roomcast,
                 network>>

answer(d) == \E S \in SUBSET Devices : task_bdcpd(d, S)

Next ==
  \E d \in Devices :
    \/ aux_handle(d) \/ reboot(d)
    \/ mainThread(d) \/ answer(d) \/ handle_bdcp_client(d)
    \/ changeIp(d) \/ turn(d)

Spec == Init /\ [][Next]_vars

\* Threads keep running, a reboot that was commanded comes, an answer waiting in
\* the socket is read in the end, and of answers sent to another device again
\* and again some arrive.
Fairness ==
  \A d \in Devices :
    /\ WF_vars(aux_handle(d))
    /\ WF_vars(reboot(d))
    /\ WF_vars(mainThread(d))
    /\ WF_vars(handle_bdcp_client(d))
    /\ \A e \in Devices \ {d} :
         /\ SF_vars(\E S \in SUBSET Devices : e \in S /\ task_bdcpd(d, S))
         /\ WF_vars(recvResponse(d, e))

FairSpec == Spec /\ Fairness

-----------------------------------------------------------------------------
Idle(d) == handler[d] \in {"none", "recv"}

\* A device only ever follows an address some device announced as SERVER,
\* however late the answer arrives.  (bdcp.cpp:266-303)
ClientsFollowOffers ==
  \A d \in Devices :
    /\ \A p \in roomcast[d] : p # Server => p.of \in offered
    /\ ~ Idle(d) => server[d] \in offered

\* A device that serves, and whose handler has no earlier answer in hand, is
\* never talked out of it again, but by a reboot.  (bdcp.cpp:273, 289)
Settled(d) == current_mode[d] = "SERVER" /\ Idle(d)

ServerStays ==
  [][\A d \in Devices : Settled(d) => Settled(d)' \/ main'[d] = "aux"]_vars

\* A device that runs, plays or still means to was at aux at the last look at
\* its knob, so that the next look reboots it if the knob is away, whatever
\* its threads are doing, or is going down already: turning the knob back and
\* forth leaves none that plays unseen.
\* (Zubo/main.cpp:14-19, gpio_manager.cpp:83-97)
AwayIsSilent ==
  \A d \in Devices :
    ~ last_value[d] /\ ~ going[d] => /\ ~ tag[d] /\ roomcast[d] = {}
                                    /\ main[d] = "aux" /\ handler[d] = "none"

\* A device whose knob stays at aux is not left undecided, even after it was
\* rebooted.  (Zubo/main.cpp:17-19, 34-76, gpio_manager.cpp:83-97)
EventuallyDecided ==
  \A d \in Devices : <>[] knob[d] => <>[](current_mode[d] # "UN_SET")

\* "if the roomcast server's ip changes, reconnects to the new ip"
\* (README.md:12): a device that follows a server, when only one device
\* serves, ends up with a client of that server's present address.
FollowsTheServer ==
  \A d \in Devices : \A s \in Devices \ {d} :
    <>[](/\ current_mode[d] = "CLIENT" /\ main[d] \in {"poll", "query"}
         /\ current_mode[s] = "SERVER"
         /\ \A e \in Devices \ {s} : current_mode[e] # "SERVER")
      => <>[](roomcast[d] = {ClientOf(ip[s])})

-----------------------------------------------------------------------------
\* What README.md says.

\* "of several roomcast servers only the first found is connected to"
\* (README.md:11): a client does not leave a server that is still there.
FirstServerOnly ==
  [][\A d, s \in Devices :
       /\ Idle(d) /\ current_mode[d] = "CLIENT"
       /\ current_mode[s] = "SERVER" /\ server[d] = ip[s]
       => server'[d] = server[d] \/ main'[d] = "aux"]_vars
=============================================================================
