--------------------------- MODULE ServerPipeline ---------------------------
(***************************************************************************)
(* The server's own way from the pipe to its loudspeaker (MyRoomCast/      *)
(* utils/src/TcpServer.cpp, OssPlayer.cpp).  writeListThread reads PCM     *)
(* from the pipe as fast as it comes, stamps each chunk with the time it   *)
(* stands for and puts it into the PCM list; a list that is nearly full    *)
(* makes it sleep, longer each time.  playThread takes the chunks out and  *)
(* plays each when the clock is Cache past its stamp.  The encoded twin of *)
(* every chunk goes to the clients (FlacStream).                           *)
(*                                                                         *)
(* Time is counted in ticks, of which one is the step by which             *)
(* server_delay falls.  clk is the time that really passes, the wall clock *)
(* is now = clk + adj and may be set.  Sleeps go by clk, stamps by now.    *)
(* The DSP has a clock of its own that may run slower than clk: lag is     *)
(* what that adds up to, less what the stamps gave it back by standing     *)
(* further apart.  (It does not also run slow after the wall clock was set *)
(* forward; a DSP that is too fast only runs dry.)  playThread is never    *)
(* late by a tick for what it could do (it polls every 100 us); the pipe   *)
(* may be, for as long as it likes.  The dac of test.ini, which lengthens  *)
(* the stamps (TcpServer.cpp:280-295), is taken as 0.                      *)
(***************************************************************************)
EXTENDS Integers, Sequences

CONSTANTS
  Dur,         \* what a chunk lasts (flac_duaration, mp2_duaration)
  Cache,       \* CACHE_MS, from a chunk's stamp to its playing
  Capacity,    \* buffers of the PCM list (CACHE_MS/13*2)
  Threshold,   \* size from which the writer sleeps (CACHE_MS/13*2 - 50)
  DspSize,     \* what the DSP buffers, in ticks of sound
  Low, High,   \* room in the DSP that raises, lowers server_delay (8192, 12888)
  DelayMax,    \* what server_delay is raised to (100 us)
  ZeroLimit,   \* empty reads before the next track is loaded (30)
  ZeroPause,   \* sleep after an empty read (200 ms)
  LoadPause,   \* sleep after loading a track (2 s)
  ClockSteps,  \* what the wall clock may be set by, once
  DspFails,    \* whether the DSP may stop working
  LagMax,      \* bound: what the DSP may lag behind
  MaxTime      \* bound: the ticks of a run

ASSUME TimeAssumption ==
  /\ Dur \in Nat \ {0}
  /\ Cache \in Nat /\ Cache >= 3 * Dur
  /\ MaxTime \in Nat
ASSUME SizeAssumption ==
  /\ Capacity \in Nat \ {0} /\ Threshold \in Nat
  /\ DspSize \in Nat /\ LagMax \in Nat /\ Low \in Int /\ High \in Int
ASSUME DelayAssumption == DelayMax \in Nat
ASSUME PauseAssumption ==
  ZeroLimit \in Nat \ {0} /\ ZeroPause \in Nat /\ LoadPause \in Nat
ASSUME FaultAssumption == ClockSteps \subseteq Int /\ DspFails \in BOOLEAN

VARIABLES
  clk, adj,         \* time that passed, and what the wall clock is ahead of it
  set,              \* the wall clock was set: "no", "back", "forward"
  writer,           \* writeListThread: in its read, or before its getSize
  wake,             \* ... sleeps until then
  timeval_,         \* ... the stamp of the next chunk
  sleep_count,      \* ... the factor of its next long sleep
  read_zero_count,  \* ... empty reads since the last track was loaded
  pcm,              \* the PCM list: the stamps of its chunks
  holding, held,    \* playThread: it has a chunk; the stamp of the last it took
  busy,             \* ... waits in write(dsp_fd) until then
  stuck,            \* ... loops over a DSP that returns errors
  dspEnd,           \* when the DSP will have played all it was given
  server_delay,     \* playPcm's correction of the stamps
  lag,              \* what the DSP is behind the stamps (history)
  refused, dropped  \* a chunk was refused by the list, was too old (history)

clock == <<clk, adj, set>>
writing == <<writer, wake, timeval_, sleep_count, read_zero_count>>
playing == <<holding, held, busy, stuck, dspEnd, server_delay, lag>>
history == <<refused, dropped>>
vars == <<clock, writing, pcm, playing, history>>

now == clk + adj

TypeOK ==
  /\ clk \in 0 .. MaxTime /\ adj \in Int
  /\ set \in {"no", "back", "forward"}
  /\ writer \in {"read", "size", "full"}
  /\ wake \in Nat /\ timeval_ \in Int
  /\ sleep_count \in Nat \ {0}
  /\ read_zero_count \in 0 .. ZeroLimit - 1
  /\ pcm \in Seq(Int) /\ Len(pcm) <= Capacity
  /\ holding \in BOOLEAN /\ held \in Int
  /\ busy \in Int /\ stuck \in BOOLEAN /\ dspEnd \in Int
  /\ server_delay \in 0 .. DelayMax /\ lag \in 0 .. LagMax
  /\ refused \in BOOLEAN /\ dropped \in BOOLEAN

Init ==
  /\ clk = 0 /\ adj = 0 /\ set = "no"
  /\ writer = "read" /\ wake = 0 /\ timeval_ = 0
  /\ sleep_count = 1 /\ read_zero_count = 0
  /\ pcm = << >>
  /\ holding = FALSE /\ held = -Dur /\ busy = 0 /\ stuck = FALSE
  /\ dspEnd = 0 /\ server_delay = 0 /\ lag = 0
  /\ refused = FALSE /\ dropped = FALSE

-----------------------------------------------------------------------------
\* writeListThread.

\* Mutant of stamp: a clock that was set back resets it too.
stampEitherWay ==
  IF now - timeval_ > 2 * Dur \/ timeval_ - now > 2 * Dur THEN now ELSE timeval_

\* A chunk's stamp follows the one before it, unless the pipe was silent for
\* more than two chunks: then it is the time of day.
stamp == IF now - timeval_ > 2 * Dur THEN now ELSE timeval_

\* A whole chunk was read.  The list refuses it when it is full, and nobody
\* looks at the result.
writePcm ==
  /\ writer # "size"
  /\ clk >= wake
  /\ IF Len(pcm) < Capacity
     THEN pcm' = Append(pcm, stamp) /\ UNCHANGED refused
     ELSE refused' = TRUE /\ UNCHANGED pcm
  /\ timeval_' = stamp + Dur + server_delay
  /\ writer' = "size"
  /\ UNCHANGED <<clock, wake, sleep_count, read_zero_count, playing, dropped>>

\* Mutant of throttle: a long list does not slow the reading down.
throttleNoSleep ==
  /\ writer = "size"
  /\ sleep_count' = IF Len(pcm) >= Threshold THEN sleep_count + 1
                    ELSE IF sleep_count > 1 THEN sleep_count - 1 ELSE 1
  /\ writer' = "read"
  /\ UNCHANGED <<clock, wake, timeval_, read_zero_count, pcm, playing, history>>

\* Mutant of throttle: the sleep grows with the list.
throttleByLength ==
  /\ writer = "size"
  /\ IF Len(pcm) >= Threshold
     THEN /\ wake' = clk + Dur * Len(pcm) * sleep_count
          /\ sleep_count' = sleep_count + 1
          /\ writer' = "full"
     ELSE /\ sleep_count' = IF sleep_count > 1 THEN sleep_count - 1 ELSE 1
          /\ writer' = "read"
          /\ UNCHANGED wake
  /\ UNCHANGED <<clock, timeval_, read_zero_count, pcm, playing, history>>

throttle ==
  /\ writer = "size"
  /\ IF Len(pcm) >= Threshold
     THEN /\ wake' = clk + Dur * sleep_count
          /\ sleep_count' = sleep_count + 1
          /\ writer' = "full"
     ELSE /\ sleep_count' = IF sleep_count > 1 THEN sleep_count - 1 ELSE 1
          /\ writer' = "read"
          /\ UNCHANGED wake
  /\ UNCHANGED <<clock, timeval_, read_zero_count, pcm, playing, history>>

\* An empty read: nobody has the pipe open for writing.  At the ZeroLimit-th
\* the next track of play_list is loaded.
readNothing ==
  /\ writer # "size"
  /\ clk >= wake
  /\ IF read_zero_count + 1 = ZeroLimit
     THEN read_zero_count' = 0 /\ wake' = clk + LoadPause
     ELSE read_zero_count' = read_zero_count + 1 /\ wake' = clk + ZeroPause
  /\ writer' = "read"
  /\ UNCHANGED <<clock, timeval_, sleep_count, pcm, playing, history>>

writeListThread == writePcm \/ throttle \/ readNothing

-----------------------------------------------------------------------------
\* playThread.

Larger(a, b) == IF a > b THEN a ELSE b

late(s) == now - (s + Cache)

\* Mutant of due: no chunk is played early.
dueFromStart(s) == late(s) \in 0 .. Dur

due(s) == late(s) \in -Dur .. Dur
tooOld(s) == late(s) > Dur
ready == clk >= busy /\ ~ stuck

take ==
  /\ ready
  /\ ~ holding
  /\ pcm # << >>
  /\ holding' = TRUE
  /\ held' = Head(pcm)
  /\ pcm' = Tail(pcm)
  /\ lag' = Larger(lag - (Head(pcm) - held - Dur), 0)
  /\ UNCHANGED <<clock, writing, busy, stuck, dspEnd, server_delay, history>>

\* What the DSP can still take, in ticks of sound.
room == DspSize - Larger(dspEnd - clk, 0)

\* Mutant of playPcm: it never waits for room.
playPcmBelow ==
  /\ ready
  /\ holding /\ due(held)
  /\ server_delay' = IF room < Low /\ server_delay = 0 THEN DelayMax
                     ELSE IF room > High THEN server_delay - 1
                          ELSE server_delay
  /\ dspEnd' = Larger(dspEnd, clk) + Dur
  /\ busy' = Larger(clk, dspEnd' - DspSize)
  /\ holding' = FALSE
  /\ UNCHANGED <<clock, writing, pcm, held, stuck, lag, history>>

\* OssPlayer::playPcm: the write blocks until the whole chunk is in the DSP.
playPcm ==
  /\ ready
  /\ holding /\ due(held)
  /\ server_delay' = IF room < Low /\ server_delay = 0 THEN DelayMax
                     ELSE IF room > High /\ server_delay > 0
                          THEN server_delay - 1
                          ELSE server_delay
  /\ dspEnd' = Larger(dspEnd, clk) + Dur
  /\ busy' = Larger(clk, dspEnd' - DspSize)
  /\ holding' = FALSE
  /\ UNCHANGED <<clock, writing, pcm, held, stuck, lag, history>>

\* playPcm returns -1: playThread counts it as bytes played and calls it
\* again for ever.
playFail ==
  /\ DspFails
  /\ ready
  /\ holding /\ due(held)
  /\ stuck' = TRUE
  /\ UNCHANGED <<clock, writing, pcm, holding, held, busy, dspEnd, server_delay, lag,
                 history>>

drop ==
  /\ ready
  /\ holding /\ tooOld(held)
  /\ holding' = FALSE
  /\ dropped' = TRUE
  /\ UNCHANGED <<clock, writing, pcm, held, busy, stuck, dspEnd, server_delay, lag,
                 refused>>

playThread == take \/ playPcm \/ playFail \/ drop

-----------------------------------------------------------------------------
\* Time.

playerWaits ==
  \/ ~ ready
  \/ ~ holding /\ pcm = << >>
  \/ holding /\ ~ due(held) /\ ~ tooOld(held)

tick ==
  /\ clk < MaxTime
  /\ writer # "size"
  /\ playerWaits
  /\ clk' = clk + 1
  /\ UNCHANGED <<adj, set, writing, pcm, playing, history>>

\* A tick in which the DSP plays nothing of what it has.
tickSlow ==
  /\ clk < MaxTime
  /\ writer # "size"
  /\ playerWaits
  /\ dspEnd > clk /\ lag < LagMax /\ set # "forward"
  /\ clk' = clk + 1
  /\ dspEnd' = dspEnd + 1
  /\ busy' = IF busy > clk THEN busy + 1 ELSE busy
  /\ lag' = lag + 1
  /\ UNCHANGED <<adj, set, writing, pcm, holding, held, stuck, server_delay, history>>

setClock ==
  /\ set = "no"
  /\ \E d \in ClockSteps :
       /\ adj' = adj + d
       /\ set' = IF d > 0 THEN "forward" ELSE "back"
  /\ UNCHANGED <<clk, writing, pcm, playing, history>>

Next == writeListThread \/ playThread \/ tick \/ tickSlow \/ setClock

Spec == Init /\ [][Next]_vars

-----------------------------------------------------------------------------
(* Properties.                                                             *)

\* The list has a buffer for every chunk, however fast the pipe is and when
\* the clock is set back (TcpServer.cpp:415 ignores a refusal): the sleeps
\* of lines 437-440 grow until the player catches up.  Only a player that
\* loops over a failed DSP makes the list overflow.  How far back the clock
\* may be set depends on Capacity - Threshold, because the n-th sleep is n
\* chunks long.
NothingRefused == refused => stuck

\* What the DSP lags behind by more than its buffer takes up: so long its
\* write blocks past the time of the next chunk.
overrun == Larger(lag - DspSize, 0)

\* Unless somebody sets the clock forward the server begins each of its chunks
\* no later than the moment its window opens and what a slow DSP overruns, and
\* never drops one (lines 903-909) while that stays within the window: the
\* stamps, the DSP's blocking write and the cache are in step, whatever gaps
\* the pipe has and however far the writer is ahead.
NothingLate ==
  set # "forward" =>
    /\ LagMax <= DspSize + 2 * Dur => ~ dropped
    /\ holding /\ ~ stuck => now <= held + Cache - Dur + overrun

\* The stamps of the chunks that wait, of the one that plays and of the next
\* to come are a chunk apart at least, also when the stamp was reset to the
\* time of day (lines 410-414) and when the clock was set: no two chunks ask
\* to be played at the same time, by the server or by a client that takes its
\* stamps (FLAC clients count their own: FlacStream).
StampsApart ==
  LET s == <<held>> \o pcm \o <<timeval_>>
  IN  \A i \in 1 .. Len(s) - 1 : s[i + 1] >= s[i] + Dur

\* The writer's sleep over a full list (lines 437-440), which grows with
\* sleep_count, ends before the list is empty: the throttle itself is never
\* what makes a gap in the sound.
ThrottleNeverStarves ==
  writer = "full" /\ clk < wake /\ set # "forward" => pcm # << >> \/ holding
=============================================================================
