----------------------------- MODULE FlacStream -----------------------------
(***************************************************************************)
(* What FLAC does to the time stamps.  The server reads Call samples at a  *)
(* time and stamps what the encoder gives back for them (MyRoomCast/utils/ *)
(* src/TcpServer.cpp:344-360), but the encoder works in frames of Block    *)
(* samples: a frame carries the stamp of the call that completed it, not   *)
(* of the one that began it, and some calls give no frame.  The client     *)
(* does not use the stamps as they are: it counts Block samples from frame *)
(* to frame and takes a stamp over only now and then (TcpClient.cpp:       *)
(* 318-369).                                                               *)
(*                                                                         *)
(* A unit of time is a sample.  A call, the way of its frame through lists *)
(* and sockets, which keep the order, and what the client does with it are *)
(* one step: nothing else touches what they use.  Durations are exact; the *)
(* code cuts those of a call and of a frame to whole microseconds          *)
(* (TcpServer.cpp:294, TcpClient.cpp:265), which makes 0.6 us a frame and  *)
(* 62 us in the frames a client counts by itself, less than DelayMax.      *)
(***************************************************************************)
EXTENDS Integers

CONSTANTS
  Call,         \* samples per call of Encode (FLAC_PCM_SIZE/4 = 1024)
  Block,        \* samples per frame (compression level 2: 1152)
  CacheMs,      \* CACHE_MS
  ResyncEvery,  \* frames after which the client takes a stamp (100)
  DelayMax,     \* what server_delay may be (100 us)
  Resets,       \* how far the stamp may be moved when the pipe was silent
  MaxCalls      \* bound: calls of Encode in a run

ASSUME BlockAssumption == Call \in Nat \ {0} /\ Block \in Call .. 2 * Call - 1
ASSUME ClientAssumption == CacheMs \in Nat /\ ResyncEvery \in Nat \ {0, 1}
ASSUME StampAssumption == DelayMax \in Nat /\ Resets \subseteq Nat
ASSUME CallsAssumption == MaxCalls \in Nat

VARIABLES
  stamp,    \* writeListThread's timeval_, of the next call
  fill,     \* samples in the encoder
  origin,   \* when the first of them should be heard, less the cache
  inited,   \* processThread's now.sec # 0
  timeval_, \* ... the stamp of the client's next chunk
  count,    \* ... frames since it took a stamp
  err,      \* how late the client plays the last frame it decoded (history)
  calm,     \* frames decoded since a reset, a loss or a new connection,
            \* at most ResyncEvery (history)
  drift,    \* the corrections made since the client took a stamp (history)
  calls     \* calls of Encode (history)

vars == <<stamp, fill, origin, inited, timeval_, count, err, calm, drift, calls>>

TypeOK ==
  /\ stamp \in Nat /\ fill \in 0 .. Block /\ origin \in Nat
  /\ inited \in BOOLEAN /\ timeval_ \in Nat
  /\ count \in 0 .. ResyncEvery - 1
  /\ err \in Int /\ calm \in 0 .. ResyncEvery /\ drift \in Nat
  /\ calls \in 0 .. MaxCalls

Init ==
  /\ stamp = 0 /\ fill = 0 /\ origin = 0
  /\ inited = FALSE /\ timeval_ = 0 /\ count = 0
  /\ err = 0 /\ calm = 0 /\ drift = 0 /\ calls = 0

-----------------------------------------------------------------------------
\* The server.

\* FLAC__stream_encoder_process_interleaved gives a frame once it has one
\* sample more than that.
completes == fill + Call > Block

\* Mutant of Encode: the stamp is moved by a frame.
EncodeOfFrame(s, d) ==
  /\ calls < MaxCalls
  /\ calls' = calls + 1
  /\ stamp' = s + Block + d
  /\ fill' = IF completes THEN fill + Call - Block ELSE fill + Call
  /\ origin' = IF completes THEN s + Call - fill'
               ELSE IF fill = 0 THEN s ELSE origin

\* Encode with the stamp s; d is added to the next.  What is left in the
\* encoder, if a frame was completed, is of this call.
Encode(s, d) ==
  /\ calls < MaxCalls
  /\ calls' = calls + 1
  /\ stamp' = s + Call + d
  /\ fill' = IF completes THEN fill + Call - Block ELSE fill + Call
  /\ origin' = IF completes THEN s + Call - fill'
               ELSE IF fill = 0 THEN s ELSE origin

-----------------------------------------------------------------------------
\* The client, when a frame with the stamp s was decoded.

\* Mutant of takesStamp: only a jump is followed.
takesStampAtJumps(s) ==
  ~ inited \/ s - timeval_ > CacheMs

takesStamp(s) ==
  ~ inited \/ s - timeval_ > CacheMs \/ count + 1 = ResyncEvery

time_stamp(s) == IF takesStamp(s) THEN s ELSE timeval_

\* Mutant of recvFrame: the count is compared before it is increased.
recvFrameOneLate(s) ==
  /\ inited' = TRUE
  /\ timeval_' = time_stamp(s) + Block
  /\ count' = IF ~ inited \/ s - timeval_ > CacheMs THEN count
              ELSE IF count = ResyncEvery THEN 0 ELSE count + 1

recvFrame(s) ==
  /\ inited' = TRUE
  /\ timeval_' = time_stamp(s) + Block
  /\ count' = IF ~ inited \/ s - timeval_ > CacheMs THEN count
              ELSE IF count + 1 = ResyncEvery THEN 0 ELSE count + 1

\* The header, or what the decoder made nothing of, only starts the client's
\* time.
recvNothing(s) ==
  /\ inited' = TRUE
  /\ timeval_' = IF inited THEN timeval_ ELSE s
  /\ UNCHANGED count

Smaller(a, b) == IF a < b THEN a ELSE b

\* One call, and what becomes of its frame.  r is how far the stamp is reset.
call(r, d) ==
  LET s == stamp + r IN
  /\ Encode(s, d)
  /\ \/ /\ completes
        /\ recvFrame(s)
        /\ err' = time_stamp(s) - origin
        /\ calm' = IF r > 0 THEN 0 ELSE Smaller(calm + 1, ResyncEvery)
        /\ drift' = d + IF takesStamp(s) THEN 0 ELSE drift
     \/ /\ recvNothing(s)                        \* not decoded
        /\ completes \/ calls = 0
        /\ calm' = 0 /\ drift' = drift + d /\ UNCHANGED err
     \/ /\ completes                             \* lost in a full list
        /\ calm' = 0 /\ drift' = drift + d
        /\ UNCHANGED <<inited, timeval_, count, err>>
     \/ /\ ~ completes
        /\ calm' = IF r > 0 THEN 0 ELSE calm
        /\ drift' = drift + d
        /\ UNCHANGED <<inited, timeval_, count, err>>

\* The client loses its connection: processThread starts anew.
restart ==
  /\ inited
  /\ inited' = FALSE /\ timeval_' = 0 /\ count' = 0 /\ calm' = 0
  /\ UNCHANGED <<stamp, fill, origin, err, drift, calls>>

Next ==
  \/ \E r \in {0} \union Resets, d \in 0 .. DelayMax : call(r, d)
  \/ restart

Spec == Init /\ [][Next]_vars

-----------------------------------------------------------------------------
(* Properties.                                                             *)

\* When ResyncEvery frames came through and the pipe was not silent, the
\* client plays each frame no earlier than it should be heard, but for the
\* corrections it has not taken over yet, and no later than a block after:
\* two rooms are that far apart at most, for ever, although the client only
\* counts.  (TcpClient.cpp:325-357)
InStep ==
  calm = ResyncEvery => err \in -drift .. Block + 2 * DelayMax

\* The corrections it has not taken over are those of the last ResyncEvery
\* frames, each of one call or two (TcpClient.cpp:338-342).
DriftBounded ==
  calm = ResyncEvery => drift <= (2 * count + 2) * DelayMax
=============================================================================
