-------------------------- MODULE FlacStreamProofs --------------------------
(***************************************************************************)
(* Proofs of the invariants of FlacStream for every length of calls,       *)
(* frames and corrections and every sequence of losses and resets.         *)
(*                                                                         *)
(* Ahead is how far the client's count is ahead of the end of what the     *)
(* encoder holds; a step moves it only by the correction it adds to the    *)
(* stamp, and taking a stamp over bounds it.  Tracks says that it is       *)
(* bounded, which a loss or a reset undoes: but then the client's own      *)
(* count of frames is at least that of the frames since, so it takes a     *)
(* stamp before those are ResyncEvery.  Lags says that what the encoder    *)
(* holds is as old as it is long, but for two corrections.                 *)
(***************************************************************************)
EXTENDS FlacStream, TLAPS

Ahead == timeval_ + fill - stamp

Tracks == -drift =< Ahead /\ Ahead =< Block

Lags == fill > 0 =>
  /\ origin + fill =< stamp
  /\ fill =< Call => stamp =< origin + fill + DelayMax
  /\ stamp =< origin + fill + 2 * DelayMax

Inv ==
  /\ TypeOK
  /\ calm >= 1 => Lags
  /\ Tracks \/ count >= calm
  /\ InStep

USE BlockAssumption, ClientAssumption, StampAssumption, CallsAssumption

-----------------------------------------------------------------------------
LEMMA Initially == Init => Inv
  <1> SUFFICES ASSUME Init PROVE Inv
    OBVIOUS
  <1>a. 0 \in 0 .. Block /\ 0 \in 0 .. ResyncEvery - 1 /\ 0 \in 0 .. ResyncEvery
        /\ 0 \in 0 .. MaxCalls /\ 0 \in Nat /\ 0 \in Int
    OBVIOUS
  <1>1. TypeOK
    BY <1>a, Zenon DEF Init, TypeOK
  <1>2. calm = 0 /\ count = 0
    BY DEF Init
  <1> QED BY <1>1, <1>2 DEF Inv, InStep

\* What Encode does to the types, whatever the client does.
LEMMA EncodeTypes ==
  ASSUME TypeOK, NEW r \in Nat, NEW d \in 0 .. DelayMax, Encode(stamp + r, d)
  PROVE  /\ stamp' \in Nat /\ fill' \in 0 .. Block /\ origin' \in Nat
         /\ calls' \in 0 .. MaxCalls
  BY DEF TypeOK, Encode, completes

\* A call that completes a frame leaves what is as old as it is long.
LEMMA EncodeLags ==
  ASSUME TypeOK, NEW r \in Nat, NEW d \in 0 .. DelayMax, Encode(stamp + r, d),
         completes \/ (r = 0 /\ Lags)
  PROVE  Lags'
  <1>1. CASE completes
    <2>1. /\ fill' = fill + Call - Block
          /\ origin' = stamp + r + Call - fill'
          /\ stamp' = stamp + r + Call + d
      BY <1>1 DEF Encode
    <2> QED BY <2>1 DEF Lags, TypeOK
  <1>2. CASE ~ completes /\ r = 0 /\ Lags
    <2>1. /\ fill' = fill + Call
          /\ origin' = IF fill = 0 THEN stamp ELSE origin
          /\ stamp' = stamp + Call + d
      BY <1>2 DEF Encode, TypeOK
    <2>2. fill < Call
      BY <1>2 DEF completes, TypeOK
    <2>3. CASE fill = 0
      BY <2>1, <2>3 DEF Lags, TypeOK
    <2>4. CASE fill > 0
      BY <1>2, <2>1, <2>2, <2>4 DEF Lags, TypeOK
    <2> QED BY <2>3, <2>4 DEF TypeOK
  <1> QED BY <1>1, <1>2

\* A frame that is decoded.
LEMMA FrameKeeps ==
  ASSUME Inv, NEW r \in {0} \union Resets, NEW d \in 0 .. DelayMax,
         Encode(stamp + r, d), completes, recvFrame(stamp + r),
         err' = time_stamp(stamp + r) - origin,
         calm' = IF r > 0 THEN 0 ELSE Smaller(calm + 1, ResyncEvery),
         drift' = d + IF takesStamp(stamp + r) THEN 0 ELSE drift
  PROVE  Inv'
  <1>0. r \in Nat /\ TypeOK
    BY DEF Inv
  <1>1. Lags'
    BY <1>0, EncodeLags
  <1>2. TypeOK'
    <2>1. /\ stamp' \in Nat /\ fill' \in 0 .. Block /\ origin' \in Nat
          /\ calls' \in 0 .. MaxCalls
      BY <1>0, EncodeTypes
    <2>2. calm' \in 0 .. ResyncEvery
      BY <1>0 DEF Smaller, TypeOK
    <2>3. time_stamp(stamp + r) \in Nat
      BY <1>0 DEF time_stamp, TypeOK
    <2>4. count' \in 0 .. ResyncEvery - 1 /\ inited' \in BOOLEAN /\ timeval_' \in Nat
      BY <1>0, <2>3 DEF recvFrame, TypeOK
    <2>5. err' \in Int /\ drift' \in Nat
      BY <1>0, <2>3 DEF TypeOK
    <2> QED BY <2>1, <2>2, <2>4, <2>5 DEF TypeOK
  <1>3. /\ stamp' = stamp + r + Call + d
        /\ fill' = fill + Call - Block
        /\ 1 =< fill
    BY <1>0 DEF Encode, completes, TypeOK
  <1>4. CASE takesStamp(stamp + r)
    <2>1. /\ timeval_' = stamp + r + Block
          /\ drift' = d
          /\ err' = stamp + r - origin
      BY <1>0, <1>4 DEF recvFrame, time_stamp, TypeOK
    <2>2. Tracks'
      BY <1>0, <1>3, <2>1 DEF Tracks, Ahead, TypeOK
    <2>3. InStep'
      <3> SUFFICES ASSUME calm' = ResyncEvery
                   PROVE  err' \in -drift' .. Block + 2 * DelayMax
        BY DEF InStep
      <3>1. r = 0 /\ calm >= 1
        BY <1>0 DEF Smaller, TypeOK
      <3>2. origin + fill =< stamp /\ stamp =< origin + fill + 2 * DelayMax
        BY <1>3, <3>1 DEF Inv, Lags, TypeOK
      <3> QED BY <1>0, <1>3, <2>1, <3>1, <3>2 DEF TypeOK
    <2> QED BY <1>1, <1>2, <2>2, <2>3 DEF Inv
  <1>5. CASE ~ takesStamp(stamp + r)
    <2>1. /\ timeval_' = timeval_ + Block
          /\ drift' = d + drift
          /\ err' = timeval_ - origin
          /\ count' = count + 1
      BY <1>5 DEF recvFrame, time_stamp, takesStamp
    <2>2. CASE r > 0
      BY <1>0, <1>1, <1>2, <2>2 DEF Inv, InStep, TypeOK
    <2>3. CASE r = 0 /\ ~ Tracks
      <3>1. calm =< count /\ count < ResyncEvery - 1
        BY <1>5, <2>3 DEF Inv, takesStamp, TypeOK
      <3>2. calm' = calm + 1
        BY <1>0, <2>3, <3>1 DEF Smaller, TypeOK
      <3> QED BY <1>0, <1>1, <1>2, <2>1, <3>1, <3>2 DEF Inv, InStep, TypeOK
    <2>4. CASE r = 0 /\ Tracks
      <3>1. Tracks'
        BY <1>0, <1>3, <2>1, <2>4 DEF Tracks, Ahead, TypeOK
      <3>2. InStep'
        <4> SUFFICES ASSUME calm' = ResyncEvery
                     PROVE  err' \in -drift' .. Block + 2 * DelayMax
          BY DEF InStep
        <4>1. calm >= 1
          BY <1>0, <2>4 DEF Smaller, TypeOK
        <4>2. origin + fill =< stamp /\ stamp =< origin + fill + 2 * DelayMax
          BY <1>3, <4>1 DEF Inv, Lags, TypeOK
        <4>3. -drift =< timeval_ + fill - stamp /\ timeval_ + fill - stamp =< Block
          BY <2>4 DEF Tracks, Ahead
        <4> QED BY <1>0, <2>1, <4>2, <4>3 DEF TypeOK
      <3> QED BY <1>1, <1>2, <3>1, <3>2 DEF Inv
    <2> QED BY <1>0, <2>2, <2>3, <2>4
  <1> QED BY <1>4, <1>5

\* A call with no frame for the client, after which calm is 0.
LEMMA LossKeeps ==
  ASSUME Inv, NEW r \in {0} \union Resets, NEW d \in 0 .. DelayMax,
         Encode(stamp + r, d), calm' = 0, drift' = drift + d, err' = err,
         inited' \in BOOLEAN, timeval_' \in Nat, count' = count
  PROVE  Inv'
  <1>1. r \in Nat /\ TypeOK
    BY DEF Inv
  <1>2. /\ stamp' \in Nat /\ fill' \in 0 .. Block /\ origin' \in Nat
        /\ calls' \in 0 .. MaxCalls
    BY <1>1, EncodeTypes
  <1>3. TypeOK'
    BY <1>1, <1>2 DEF TypeOK
  <1> QED BY <1>1, <1>3 DEF Inv, InStep, TypeOK

\* A call that completes no frame and moves the stamp by nothing.
LEMMA NoFrameKeeps ==
  ASSUME Inv, NEW d \in 0 .. DelayMax, Encode(stamp + 0, d), ~ completes,
         calm' = calm, drift' = drift + d,
         UNCHANGED <<inited, timeval_, count, err>>
  PROVE  Inv'
  <1>1. TypeOK
    BY DEF Inv
  <1>2. TypeOK'
    <2>1. /\ stamp' \in Nat /\ fill' \in 0 .. Block /\ origin' \in Nat
          /\ calls' \in 0 .. MaxCalls
      BY <1>1, EncodeTypes
    <2> QED BY <1>1, <2>1 DEF TypeOK
  <1>3. Lags => Lags'
    BY <1>1, EncodeLags
  <1>4. stamp' = stamp + Call + d /\ fill' = fill + Call
    BY <1>1 DEF Encode, TypeOK
  <1>5. Tracks => Tracks'
    BY <1>1, <1>4 DEF Tracks, Ahead, TypeOK
  <1>6. InStep'
    BY <1>1 DEF Inv, InStep, TypeOK
  <1> QED BY <1>2, <1>3, <1>5, <1>6 DEF Inv

-----------------------------------------------------------------------------
LEMMA CallKeeps ==
  ASSUME Inv, NEW r \in {0} \union Resets, NEW d \in 0 .. DelayMax, call(r, d)
  PROVE  Inv'
  <1>0. r \in Nat /\ TypeOK /\ Encode(stamp + r, d)
    BY DEF Inv, call
  <1>1. CASE /\ completes /\ recvFrame(stamp + r)
             /\ err' = time_stamp(stamp + r) - origin
             /\ calm' = IF r > 0 THEN 0 ELSE Smaller(calm + 1, ResyncEvery)
             /\ drift' = d + IF takesStamp(stamp + r) THEN 0 ELSE drift
    BY <1>0, <1>1, FrameKeeps
  <1>2. CASE recvNothing(stamp + r) /\ calm' = 0 /\ drift' = drift + d /\ err' = err
    <2>1. inited' \in BOOLEAN /\ timeval_' \in Nat /\ count' = count
      BY <1>0, <1>2 DEF recvNothing, TypeOK
    <2> QED BY <1>0, <1>2, <2>1, LossKeeps
  <1>3. CASE calm' = 0 /\ drift' = drift + d /\ UNCHANGED <<inited, timeval_, count, err>>
    <2>1. inited' \in BOOLEAN /\ timeval_' \in Nat /\ count' = count /\ err' = err
      BY <1>0, <1>3 DEF TypeOK
    <2> QED BY <1>0, <1>3, <2>1, LossKeeps
  <1>4. CASE ~ completes /\ r = 0 /\ calm' = calm /\ drift' = drift + d
             /\ UNCHANGED <<inited, timeval_, count, err>>
    BY <1>0, <1>4, NoFrameKeeps
  <1> QED BY <1>0, <1>1, <1>2, <1>3, <1>4 DEF call

LEMMA RestartKeeps ==
  ASSUME Inv, restart
  PROVE  Inv'
  <1>a. 0 \in 0 .. ResyncEvery - 1 /\ 0 \in 0 .. ResyncEvery /\ 0 \in Nat
    OBVIOUS
  <1>1. TypeOK'
    BY <1>a, Zenon DEF Inv, restart, TypeOK
  <1>2. calm' = 0 /\ count' = 0
    BY DEF restart
  <1> QED BY <1>1, <1>2 DEF Inv, InStep

\* The invariant of FlacStream (TcpServer.cpp:344-360, TcpClient.cpp:318-369).
THEOREM Invariance == Spec => []Inv
  <1>1. Init => Inv
    BY Initially
  <1>2. Inv /\ [Next]_vars => Inv'
    <2> SUFFICES ASSUME Inv, [Next]_vars PROVE Inv'
      OBVIOUS
    <2>1. CASE Next
      BY <2>1, CallKeeps, RestartKeeps DEF Next
    <2>2. CASE UNCHANGED vars
      BY <2>2 DEF vars, Inv, TypeOK, Tracks, Ahead, Lags, InStep
    <2> QED BY <2>1, <2>2
  <1> QED BY <1>1, <1>2, PTL DEF Spec

\* The type invariant, for every length of call and frame.
THEOREM TypeCorrect == Spec => []TypeOK
  <1>1. Inv => TypeOK
    BY DEF Inv
  <1> QED BY <1>1, Invariance, PTL

\* Two clients that hear every frame are in step, for every length of call and
\* frame, every correction and however long the run (TcpClient.cpp:325-357).
THEOREM ClientsInStep == Spec => []InStep
  <1>1. Inv => InStep
    BY DEF Inv
  <1> QED BY <1>1, Invariance, PTL

-----------------------------------------------------------------------------
\* What bounds the drift between two stamps: one call or two for each frame.
Drifts == drift =< (2 * count + 1) * DelayMax + IF completes THEN DelayMax ELSE 0

DriftInv == Drifts \/ count >= calm

LEMMA Products ==
  ASSUME NEW c \in Nat
  PROVE  /\ c * DelayMax \in Nat
         /\ (2 * c + 1) * DelayMax = 2 * (c * DelayMax) + DelayMax
         /\ (2 * (c + 1) + 1) * DelayMax = 2 * (c * DelayMax) + 3 * DelayMax
         /\ (2 * c + 2) * DelayMax = 2 * (c * DelayMax) + 2 * DelayMax
  OBVIOUS

\* A frame that is decoded: the count says how many calls there were.
LEMMA FrameDrift ==
  ASSUME TypeOK, DriftInv, NEW r \in Nat, NEW d \in 0 .. DelayMax,
         completes, recvFrame(stamp + r),
         calm' = IF r > 0 THEN 0 ELSE Smaller(calm + 1, ResyncEvery),
         drift' = d + IF takesStamp(stamp + r) THEN 0 ELSE drift
  PROVE  DriftInv'
  <1>0. count \in Nat /\ drift \in Nat /\ calm \in 0 .. ResyncEvery
        /\ count < ResyncEvery
    BY DEF TypeOK
  <1>1. CASE takesStamp(stamp + r)
    <2>1. drift' = d /\ count' \in Nat
      BY <1>0, <1>1 DEF recvFrame, TypeOK
    <2>2. drift' =< (2 * count' + 1) * DelayMax
      BY <2>1, Products
    <2> QED BY <2>1, <2>2, Products DEF DriftInv, Drifts
  <1>2. CASE ~ takesStamp(stamp + r)
    <2>1. drift' = d + drift /\ count' = count + 1 /\ count + 1 # ResyncEvery
      BY <1>0, <1>2 DEF recvFrame, takesStamp
    <2>2. CASE Drifts
      <3>1. drift =< (2 * count + 1) * DelayMax + DelayMax
        BY <2>2 DEF Drifts
      <3>2. drift' =< (2 * (count + 1) + 1) * DelayMax
        BY <1>0, <2>1, <3>1, Products
      <3>3. drift' =< (2 * count' + 1) * DelayMax /\ (2 * count' + 1) * DelayMax \in Nat
        BY <1>0, <2>1, <3>2
      <3>4. drift' \in Nat
        BY <1>0, <2>1
      <3> QED BY <3>3, <3>4 DEF DriftInv, Drifts
    <2>3. CASE count >= calm
      BY <1>0, <2>1, <2>3 DEF DriftInv, Smaller
    <2> QED BY <2>2, <2>3 DEF DriftInv
  <1> QED BY <1>1, <1>2

LEMMA CallDrift ==
  ASSUME TypeOK, DriftInv, NEW r \in {0} \union Resets, NEW d \in 0 .. DelayMax,
         call(r, d)
  PROVE  DriftInv'
  <1>0. r \in Nat /\ count \in Nat /\ drift \in Nat
    BY DEF TypeOK
  <1>1. CASE /\ completes /\ recvFrame(stamp + r)
             /\ calm' = IF r > 0 THEN 0 ELSE Smaller(calm + 1, ResyncEvery)
             /\ drift' = d + IF takesStamp(stamp + r) THEN 0 ELSE drift
    BY <1>0, <1>1, FrameDrift
  <1>2. CASE calm' = 0 /\ count' = count
    BY <1>0, <1>2 DEF DriftInv
  <1>3. CASE ~ completes /\ r = 0 /\ calm' = calm /\ count' = count /\ drift' = drift + d
    <2>1. completes'
      <3>1. fill' = fill + Call
        BY <1>3 DEF call, Encode
      <3> QED BY <3>1 DEF completes, TypeOK
    <2>2. CASE Drifts
      <3>1. drift =< (2 * count + 1) * DelayMax
        BY <1>0, <1>3, <2>2, Products DEF Drifts
      <3>2. drift + d =< (2 * count + 1) * DelayMax + DelayMax
        BY <1>0, <3>1, Products
      <3> QED BY <1>3, <2>1, <3>2 DEF DriftInv, Drifts
    <2>3. CASE count >= calm
      BY <1>3, <2>3 DEF DriftInv
    <2> QED BY <2>2, <2>3 DEF DriftInv
  <1> QED BY <1>0, <1>1, <1>2, <1>3 DEF call, recvNothing

\* The correction that InStep allows is that of the frames since a stamp was
\* taken over, for every ResyncEvery (TcpClient.cpp:338-342).
THEOREM DriftIsBounded == Spec => []DriftBounded
  <1>1. Init => DriftInv
    BY DEF Init, DriftInv
  <1>2. TypeOK /\ DriftInv /\ [Next]_vars => DriftInv'
    <2> SUFFICES ASSUME TypeOK, DriftInv, [Next]_vars PROVE DriftInv'
      OBVIOUS
    <2>1. CASE \E r \in {0} \union Resets, d \in 0 .. DelayMax : call(r, d)
      BY <2>1, CallDrift
    <2>2. CASE restart
      BY <2>2 DEF restart, DriftInv
    <2>3. CASE UNCHANGED vars
      BY <2>3 DEF vars, DriftInv, Drifts, completes
    <2> QED BY <2>1, <2>2, <2>3 DEF Next
  <1>3. TypeOK /\ DriftInv => DriftBounded
    <2> SUFFICES ASSUME TypeOK, DriftInv, calm = ResyncEvery
                 PROVE  drift =< (2 * count + 2) * DelayMax
      BY DEF DriftBounded
    <2>1. count \in Nat /\ drift \in Nat /\ Drifts
      BY DEF TypeOK, DriftInv
    <2>2. drift =< (2 * count + 1) * DelayMax + DelayMax
      BY <2>1, Products DEF Drifts
    <2> QED BY <2>1, <2>2, Products
  <1> QED BY <1>1, <1>2, <1>3, TypeCorrect, PTL DEF Spec
=============================================================================
