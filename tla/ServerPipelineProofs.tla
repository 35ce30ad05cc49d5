----------------------- MODULE ServerPipelineProofs -----------------------
(***************************************************************************)
(* Proofs about the server's pipeline, and about the list its chunks wait  *)
(* in between the threads: DataList over ArrayPool is one bounded FIFO and *)
(* never leaks, doubles or loses a buffer.  Both are for every value of    *)
(* the constants.                                                          *)
(***************************************************************************)
EXTENDS ServerPipeline, ChunkList, SequenceTheorems, TLAPS

\* StampsApart without the concatenation, for the provers.
Apart ==
  /\ \A i \in 1 .. Len(pcm) - 1 : pcm[i + 1] >= pcm[i] + Dur
  /\ pcm # << >> => pcm[1] >= held + Dur /\ timeval_ >= pcm[Len(pcm)] + Dur
  /\ pcm = << >> => timeval_ >= held + Dur

\* The player is behind by what the DSP overruns at most: what it holds is not
\* past the opening of its window by more, the first chunk that waits neither,
\* and the DSP has played all it was given when the next chunk can be due and
\* the lag is over.
InTime ==
  /\ LagMax <= DspSize + 2 * Dur => ~ dropped
  /\ ~ stuck =>
       /\ holding => /\ now <= held + Cache - Dur + overrun
                     /\ busy <= clk
                     /\ dspEnd + adj <= held + Cache - Dur + lag
       /\ ~ holding => /\ busy <= clk \/ busy + DspSize <= dspEnd
                       /\ dspEnd + adj <= held + Cache + lag
       /\ pcm # << >> => \/ now <= pcm[1] + Cache - Dur
                         \/ now <= held + Cache + lag - DspSize

Inv == TypeOK /\ Apart /\ (set # "forward" => InTime)

\* What the list's operations do, for the provers.
LEMMA TailFacts ==
  ASSUME NEW s \in Seq(Int), s # << >>
  PROVE  /\ Head(s) = s[1] /\ Head(s) \in Int
         /\ Tail(s) \in Seq(Int)
         /\ Len(Tail(s)) = Len(s) - 1
         /\ \A i \in 1 .. Len(s) - 1 : Tail(s)[i] = s[i + 1]
  OBVIOUS

LEMMA AppendFacts ==
  ASSUME NEW s \in Seq(Int), NEW e \in Int
  PROVE  /\ Append(s, e) \in Seq(Int)
         /\ Append(s, e) # << >>
         /\ Len(Append(s, e)) = Len(s) + 1
         /\ Append(s, e)[Len(s) + 1] = e
         /\ \A i \in 1 .. Len(s) : Append(s, e)[i] = s[i]
  OBVIOUS

LEMMA EmptyFacts ==
  ASSUME NEW s \in Seq(Int)
  PROVE  s = << >> <=> Len(s) = 0
  OBVIOUS

\* A new stamp is at least timeval_, and at most two chunks behind the time
\* of day.
LEMMA StampBounds ==
  ASSUME TypeOK
  PROVE  /\ stamp \in Int
         /\ stamp >= timeval_
         /\ now <= stamp + 2 * Dur
  BY TimeAssumption DEF TypeOK, stamp, now

\* take gives back what the stamps are further apart.
LEMMA LagFalls ==
  ASSUME TypeOK, Apart, take
  PROVE  /\ lag \in Int /\ lag' \in 0 .. LagMax
         /\ lag' >= lag - (pcm[1] - held - Dur)
         /\ lag' = 0 \/ lag' = lag - (pcm[1] - held - Dur)
<1>1. pcm \in Seq(Int) /\ pcm # << >> /\ held \in Int /\ lag \in 0 .. LagMax
      /\ Dur \in Int /\ LagMax \in Nat
  BY TimeAssumption, SizeAssumption DEF TypeOK, take
<1>2. Head(pcm) = pcm[1] /\ pcm[1] \in Int
  BY <1>1, TailFacts
<1>3. lag' = Larger(lag - (pcm[1] - held - Dur), 0)
  BY <1>2 DEF take
<1>4. pcm[1] >= held + Dur
  BY <1>1 DEF Apart
<1> QED BY <1>1, <1>2, <1>3, <1>4 DEF Larger

LEMMA InitInv == Init => Inv
<1> SUFFICES ASSUME Init PROVE Inv
  OBVIOUS
<1> USE TimeAssumption
<1>1. pcm = << >> /\ pcm \in Seq(Int) /\ Len(pcm) = 0
  BY DEF Init
<1>2. TypeOK
  <2>1. 0 \in 0 .. MaxTime /\ 0 \in 0 .. DelayMax /\ 0 \in 0 .. LagMax /\ 0 \in 0 .. ZeroLimit - 1
        /\ 0 <= Capacity /\ -Dur \in Int /\ 1 \in Nat \ {0}
    BY SizeAssumption, PauseAssumption, DelayAssumption
  <2>2. pcm \in Seq(Int) /\ Len(pcm) <= Capacity
    BY <1>1, <2>1
  <2>3. clk \in 0 .. MaxTime /\ server_delay \in 0 .. DelayMax /\ lag \in 0 .. LagMax
        /\ read_zero_count \in 0 .. ZeroLimit - 1 /\ sleep_count \in Nat \ {0}
        /\ held \in Int /\ busy \in Int /\ dspEnd \in Int /\ adj \in Int
        /\ wake \in Nat /\ timeval_ \in Int
    BY <2>1 DEF Init
  <2>4. set = "no" /\ writer = "read" /\ holding = FALSE /\ stuck = FALSE
        /\ refused = FALSE /\ dropped = FALSE
    BY DEF Init
  <2> QED BY <2>2, <2>3, <2>4 DEF TypeOK
<1>3. Apart
  BY <1>1 DEF Init, Apart
<1>4. InTime
  BY <1>1, SizeAssumption DEF Init, InTime, now
<1> QED BY <1>2, <1>3, <1>4 DEF Inv

LEMMA TypeStep == TypeOK /\ Apart /\ [Next]_vars => TypeOK'
<1> USE TimeAssumption, SizeAssumption, PauseAssumption, DelayAssumption, FaultAssumption
<1> SUFFICES ASSUME TypeOK, Apart, [Next]_vars PROVE TypeOK'
  OBVIOUS
<1> USE DEF vars, clock, writing, playing, history
<1>1. CASE writePcm
  <2>1. stamp \in Int
    BY StampBounds
  <2>2. pcm' \in Seq(Int) /\ Len(pcm') <= Capacity
    <3>1. pcm \in Seq(Int) /\ Len(pcm) \in Nat /\ Len(pcm) <= Capacity
      BY DEF TypeOK
    <3>2. CASE Len(pcm) < Capacity
      <4>1. pcm' = Append(pcm, stamp)
        BY <1>1, <3>2 DEF writePcm
      <4> QED BY <4>1, <3>1, <3>2, <2>1, AppendFacts
    <3>3. CASE ~ (Len(pcm) < Capacity)
      BY <1>1, <3>1, <3>3 DEF writePcm
    <3> QED BY <3>2, <3>3
  <2>3. timeval_' \in Int
    BY <1>1, <2>1 DEF writePcm, TypeOK
  <2>4. refused' \in BOOLEAN /\ writer' = "size"
    BY <1>1 DEF writePcm, TypeOK
  <2> QED BY <1>1, <2>2, <2>3, <2>4 DEF writePcm, TypeOK
<1>2. CASE throttle
  BY <1>2 DEF throttle, TypeOK
<1>3. CASE readNothing
  BY <1>3 DEF readNothing, TypeOK
<1>4. CASE take
  <2>1. /\ pcm' \in Seq(Int) /\ Len(pcm') <= Capacity
        /\ held' \in Int
    BY <1>4, TailFacts DEF take, TypeOK
  <2>2. lag' \in 0 .. LagMax
    BY <1>4, LagFalls
  <2> QED BY <1>4, <2>1, <2>2 DEF take, TypeOK
<1>5. CASE playPcm
  <2>1. server_delay' \in 0 .. DelayMax
    BY <1>5 DEF playPcm, TypeOK
  <2>2. dspEnd' \in Int
    BY <1>5 DEF playPcm, TypeOK, Larger
  <2>3. busy' \in Int
    BY <1>5, <2>2 DEF playPcm, TypeOK, Larger
  <2> QED BY <1>5, <2>1, <2>2, <2>3 DEF playPcm, TypeOK
<1>6. CASE playFail
  BY <1>6 DEF playFail, TypeOK
<1>7. CASE drop
  BY <1>7 DEF drop, TypeOK
<1>8. CASE tick
  BY <1>8 DEF tick, TypeOK
<1>9. CASE setClock
  BY <1>9 DEF setClock, TypeOK
<1>10. CASE tickSlow
  BY <1>10 DEF tickSlow, TypeOK
<1>11. CASE UNCHANGED vars
  BY <1>11 DEF TypeOK
<1> QED BY <1>1, <1>2, <1>3, <1>4, <1>5, <1>6, <1>7, <1>8, <1>9, <1>10, <1>11
         DEF Next, writeListThread, playThread

\* Stamps: only writePcm and take touch them.
LEMMA ApartStep == TypeOK /\ Apart /\ [Next]_vars => Apart'
<1> USE TimeAssumption
<1> SUFFICES ASSUME TypeOK, Apart, [Next]_vars PROVE Apart'
  OBVIOUS
<1> USE DEF vars, clock, writing, playing, history
<1>1. CASE writePcm
  <2>1. stamp \in Int /\ stamp >= timeval_ /\ server_delay >= 0
    BY StampBounds DEF TypeOK
  <2>2. timeval_' >= stamp + Dur /\ held' = held
    BY <1>1, <2>1 DEF writePcm, TypeOK
  <2>3. CASE pcm' = pcm
    <3>1. timeval_' >= timeval_
      BY <1>1, <2>1 DEF TypeOK, writePcm
    <3>2. pcm # << >> => pcm[Len(pcm)] \in Int
      <4>1. pcm # << >> => Len(pcm) \in 1 .. Len(pcm)
        BY EmptyFacts DEF TypeOK
      <4> QED BY <4>1 DEF TypeOK
    <3> QED BY <1>1, <2>2, <2>3, <3>1, <3>2 DEF Apart, TypeOK, writePcm
  <2>4. CASE pcm' = Append(pcm, stamp)
    <3> DEFINE n == Len(pcm)
    <3>1. /\ n \in Nat /\ pcm' # << >> /\ Len(pcm') = n + 1
          /\ pcm'[n + 1] = stamp
          /\ \A i \in 1 .. n : pcm'[i] = pcm[i] /\ pcm[i] \in Int
      <4>1. pcm \in Seq(Int) /\ stamp \in Int
        BY <2>1 DEF TypeOK
      <4>2. n \in Nat /\ \A i \in 1 .. n : pcm[i] \in Int
        BY <4>1
      <4> QED BY <2>4, <4>1, <4>2, AppendFacts
    <3>2. n = 0 => pcm = << >>
      BY EmptyFacts DEF TypeOK
    <3>3. n > 0 => pcm # << >>
      BY EmptyFacts DEF TypeOK
    <3>4. n > 0 => stamp >= pcm[n] + Dur /\ pcm[1] >= held + Dur
      BY <2>1, <3>1, <3>3 DEF Apart, TypeOK
    <3>5. n = 0 => stamp >= held + Dur
      BY <2>1, <3>2 DEF Apart, TypeOK
    <3>6. \A i \in 1 .. Len(pcm') - 1 : pcm'[i + 1] >= pcm'[i] + Dur
      <4> TAKE i \in 1 .. Len(pcm') - 1
      <4>1. CASE i = n
        BY <4>1, <3>1, <3>4
      <4>2. CASE i # n
        <5>1. i \in 1 .. n - 1 /\ i + 1 \in 1 .. n /\ i \in 1 .. n
          BY <4>2, <3>1
        <5>2. pcm[i + 1] >= pcm[i] + Dur
          BY <5>1 DEF Apart
        <5> QED BY <5>1, <5>2, <3>1
      <4> QED BY <4>1, <4>2
    <3>7. pcm'[1] >= held' + Dur
      BY <2>2, <3>1, <3>4, <3>5
    <3>8. timeval_' >= pcm'[Len(pcm')] + Dur
      BY <2>2, <3>1
    <3> QED BY <3>1, <3>6, <3>7, <3>8 DEF Apart
  <2> QED BY <1>1, <2>3, <2>4 DEF writePcm
<1>2. CASE take
  <2> DEFINE n == Len(pcm)
  <2>1. pcm # << >> /\ pcm' = Tail(pcm) /\ held' = pcm[1] /\ timeval_' = timeval_
    BY <1>2, TailFacts DEF take, TypeOK
  <2>2. n \in Nat /\ n > 0
    BY <2>1, EmptyFacts DEF TypeOK
  <2>3. Len(pcm') = n - 1
    BY <2>1, TailFacts DEF TypeOK
  <2>4. \A i \in 1 .. n - 1 : pcm'[i] = pcm[i + 1]
    BY <2>1, TailFacts DEF TypeOK
  <2>5. \A i \in 1 .. n - 1 : pcm[i + 1] >= pcm[i] + Dur
    BY DEF Apart
  <2>6. timeval_ >= pcm[n] + Dur
    BY <2>1 DEF Apart
  <2>7. pcm' = << >> <=> n = 1
    <3>1. pcm' \in Seq(Int)
      BY <2>1, TailFacts DEF TypeOK
    <3>2. pcm' = << >> <=> Len(pcm') = 0
      BY <3>1, EmptyFacts
    <3> QED BY <3>2, <2>2, <2>3
  <2> HIDE DEF n
  <2>8. \A i \in 1 .. Len(pcm') - 1 : pcm'[i + 1] >= pcm'[i] + Dur
    <3> TAKE i \in 1 .. Len(pcm') - 1
    <3>1. i \in 1 .. n - 1 /\ i + 1 \in 1 .. n - 1
      BY <2>2, <2>3
    <3> QED BY <3>1, <2>4, <2>5
  <2>9. CASE n = 1
    <3>1. timeval_' >= held' + Dur
      BY <2>9, <2>1, <2>6
    <3> QED BY <3>1, <2>7, <2>8, <2>9 DEF Apart
  <2>10. CASE n > 1
    <3>1. 1 \in 1 .. n - 1 /\ n - 1 \in 1 .. n - 1 /\ (n - 1) + 1 = n
      BY <2>2, <2>10
    <3>2. pcm'[1] >= held' + Dur
      BY <3>1, <2>1, <2>4, <2>5
    <3>3. pcm'[n - 1] = pcm[n]
      BY <3>1, <2>4
    <3>4. timeval_' >= pcm'[Len(pcm')] + Dur
      BY <3>3, <2>1, <2>3, <2>6
    <3> QED BY <3>2, <3>4, <2>7, <2>8, <2>10 DEF Apart
  <2> QED BY <2>2, <2>9, <2>10
<1>3. CASE UNCHANGED <<pcm, held, timeval_>>
  BY <1>3 DEF Apart
<1>4. CASE throttle \/ readNothing \/ playPcm \/ playFail \/ drop
          \/ tick \/ tickSlow \/ setClock \/ UNCHANGED vars
  BY <1>4, <1>3 DEF throttle, readNothing, playPcm, playFail, drop, tick, tickSlow, setClock
<1> QED BY <1>1, <1>2, <1>4 DEF Next, writeListThread, playThread

LEMMA LagFacts ==
  ASSUME TypeOK
  PROVE  /\ lag \in Int /\ lag >= 0 /\ lag <= LagMax /\ LagMax \in Nat /\ DspSize \in Nat
         /\ overrun \in Int /\ overrun >= 0 /\ overrun >= lag - DspSize /\ overrun <= lag
         /\ overrun = 0 \/ overrun = lag - DspSize
  BY SizeAssumption DEF TypeOK, overrun, Larger

\* A chunk that may be played or dropped begins as late as the DSP overruns.
LEMMA HeldIsDue ==
  ASSUME TypeOK, InTime, ready, holding
  PROVE  /\ now <= held + Cache - Dur + overrun
         /\ LagMax <= DspSize + 2 * Dur => ~ tooOld(held)
<1>1. now \in Int /\ held \in Int /\ Cache \in Int /\ Dur \in Int /\ Dur > 0
  BY TimeAssumption DEF TypeOK, now
<1>2. now <= held + Cache - Dur + overrun
  BY DEF InTime, ready
<1> QED BY <1>1, <1>2, LagFacts DEF tooOld, late

LEMMA InTimeStep ==
  ASSUME TypeOK, Apart, set # "forward" => InTime, [Next]_vars
  PROVE  set' # "forward" => InTime'
<1> USE TimeAssumption
<1> SUFFICES ASSUME set' # "forward", InTime PROVE InTime'
  BY DEF Next, vars, clock, setClock, writeListThread, playThread, writePcm,
         throttle, readNothing, take, playPcm, playFail, drop, tick, tickSlow
<1> USE DEF vars, clock, writing, playing, history
<1>0. pcm # << >> => pcm[1] \in Int /\ pcm[1] >= held + Dur
  <2>1. pcm # << >> => 1 \in 1 .. Len(pcm)
    BY EmptyFacts DEF TypeOK
  <2> QED BY <2>1 DEF TypeOK, Apart
<1>a. /\ now = clk + adj /\ now \in Int /\ clk \in Int /\ adj \in Int /\ held \in Int
      /\ busy \in Int /\ dspEnd \in Int /\ Cache \in Int /\ Dur \in Int /\ Dur > 0
  BY DEF TypeOK, now
<1>1. CASE writePcm
  <2>1. stamp \in Int /\ now <= stamp + Cache - Dur
    BY StampBounds DEF TypeOK, now
  <2>2. pcm' # << >> => pcm'[1] = stamp \/ (pcm # << >> /\ pcm'[1] = pcm[1])
    <3>1. CASE pcm' = Append(pcm, stamp)
      <4>1. CASE pcm = << >>
        <5>1. pcm \in Seq(Int) /\ Len(pcm) + 1 = 1
          BY <4>1, EmptyFacts DEF TypeOK
        <5> QED BY <5>1, <3>1, <2>1, AppendFacts
      <4>2. CASE pcm # << >>
        <5>1. 1 \in 1 .. Len(pcm)
          BY <4>2, EmptyFacts DEF TypeOK
        <5> QED BY <5>1, <4>2, <3>1, <2>1, AppendFacts DEF TypeOK
      <4> QED BY <4>1, <4>2
    <3> QED BY <1>1, <3>1 DEF writePcm
  <2>3. UNCHANGED <<clk, adj, holding, held, busy, stuck, dspEnd, lag, dropped>>
    BY <1>1 DEF writePcm
  <2> QED BY <2>1, <2>2, <2>3 DEF InTime, now, overrun
<1>2. CASE take
  <2>1. held' = pcm[1] /\ pcm # << >>
    BY <1>2, TailFacts DEF take, TypeOK
  <2>2. pcm' # << >> => pcm'[1] \in Int /\ pcm'[1] >= held' + Dur
    <3>1. TypeOK' /\ Apart'
      BY TypeStep, ApartStep
    <3>2. pcm' \in Seq(Int)
      BY <3>1 DEF TypeOK
    <3>3. pcm' # << >> => 1 \in 1 .. Len(pcm')
      BY <3>2, EmptyFacts
    <3> QED BY <3>1, <3>2, <3>3 DEF Apart
  <2>3. /\ busy <= clk /\ ~ stuck
        /\ dspEnd + adj <= held + Cache + lag
        /\ now <= pcm[1] + Cache - Dur \/ now <= held + Cache + lag - DspSize
    BY <1>2, <2>1, <1>a DEF take, ready, InTime
  <2> DEFINE p == pcm[1]
             l == lag'
             o == overrun'
  <2>4. /\ p \in Int /\ p >= held + Dur /\ l \in Int /\ l >= 0 /\ l >= lag - (p - held - Dur)
        /\ l = 0 \/ l = lag - (p - held - Dur)
        /\ lag \in Int /\ DspSize \in Nat
        /\ o \in Int /\ o >= 0 /\ o >= l - DspSize
    <3>1. o \in Int /\ o >= 0 /\ o >= l - DspSize
      BY <1>2, LagFalls, SizeAssumption DEF overrun, Larger
    <3> QED BY <1>0, <1>2, <2>1, <3>1, LagFalls, SizeAssumption
  <2> HIDE DEF p, l, o
  <2>5. now <= p + Cache - Dur + o
    BY <1>a, <2>3, <2>4 DEF p
  <2>6. dspEnd + adj <= p + Cache - Dur + l
    BY <1>a, <2>3, <2>4
  <2>7. ASSUME NEW q \in Int, q >= p + Dur
        PROVE  now <= q + Cache - Dur \/ now <= p + Cache + l - DspSize
    BY <1>a, <2>3, <2>4, <2>7 DEF p
  <2>8. /\ UNCHANGED <<clk, adj, busy, dspEnd, stuck, dropped>> /\ holding' /\ now' = now
    BY <1>2 DEF take, now
  <2>9. held' = p
    BY <2>1 DEF p
  <2>10. pcm' # << >> => now <= pcm'[1] + Cache - Dur \/ now <= p + Cache + l - DspSize
    BY <2>2, <2>7, <2>9
  <2> QED BY <2>3, <2>5, <2>6, <2>8, <2>9, <2>10 DEF InTime, l, o
<1>3. CASE playPcm
  <2>1. /\ now <= held + Cache - Dur + overrun /\ ~ stuck /\ busy <= clk
        /\ dspEnd + adj <= held + Cache - Dur + lag
    BY <1>3, HeldIsDue DEF playPcm, ready, InTime
  <2>2. /\ dspEnd' + adj <= held + Cache + lag
        /\ busy' <= clk \/ busy' + DspSize <= dspEnd'
    <3> DEFINE e == Larger(dspEnd, clk) + Dur
    <3>1. dspEnd' = e /\ busy' = Larger(clk, e - DspSize)
      BY <1>3 DEF playPcm
    <3>2. e \in Int /\ e + adj <= held + Cache + lag
      BY <1>a, <2>1, LagFacts DEF Larger
    <3> HIDE DEF e
    <3> QED BY <1>a, <3>1, <3>2, LagFacts DEF Larger
  <2>3. pcm # << >> => now <= pcm[1] + Cache - Dur \/ now <= held + Cache + lag - DspSize
    BY <2>1 DEF InTime
  <2>4. UNCHANGED <<clk, adj, pcm, held, stuck, lag, dropped>> /\ ~ holding' /\ now' = now
    BY <1>3 DEF playPcm, now
  <2> QED BY <2>2, <2>3, <2>4 DEF InTime
<1>4. CASE playFail
  BY <1>4 DEF playFail, InTime
<1>5. CASE drop
  <2>1. /\ busy <= clk /\ ~ stuck /\ dspEnd + adj <= held + Cache - Dur + lag
        /\ pcm # << >> => now <= pcm[1] + Cache - Dur \/ now <= held + Cache + lag - DspSize
    BY <1>5 DEF drop, ready, InTime
  <2>2. dspEnd + adj <= held + Cache + lag
    BY <1>a, <2>1, LagFacts
  <2>3. ~ (LagMax <= DspSize + 2 * Dur)
    BY <1>5, HeldIsDue DEF drop
  <2>4. UNCHANGED <<clk, adj, pcm, held, stuck, lag, busy, dspEnd>> /\ ~ holding' /\ now' = now
    BY <1>5 DEF drop, now
  <2> QED BY <2>1, <2>2, <2>3, <2>4 DEF InTime
<1>6. CASE tick \/ tickSlow
  <2>0. /\ playerWaits /\ clk' = clk + 1 /\ now' = now + 1
        /\ UNCHANGED <<adj, pcm, holding, held, stuck, dropped>>
    BY <1>6, <1>a DEF tick, tickSlow, now
  <2>1. \/ UNCHANGED <<busy, dspEnd, lag>>
        \/ /\ dspEnd' = dspEnd + 1 /\ lag' = lag + 1
           /\ busy' = IF busy > clk THEN busy + 1 ELSE busy
    BY <1>6 DEF tick, tickSlow
  <2>2. overrun' >= overrun /\ overrun' \in Int /\ lag' \in Int /\ lag' >= lag
    BY <2>1, LagFacts DEF overrun, Larger
  <2>3. /\ busy <= clk => busy' <= clk'
        /\ busy + DspSize <= dspEnd => busy' + DspSize <= dspEnd'
    BY <1>a, <2>0, <2>1, LagFacts
  <2>4. \A x \in Int : dspEnd + adj <= x + lag => dspEnd' + adj' <= x + lag'
    BY <1>a, <2>0, <2>1, LagFacts
  <2>5. CASE stuck
    BY <2>0, <2>5 DEF InTime
  <2>6. CASE ~ stuck /\ holding
    <3>1. busy <= clk /\ dspEnd + adj <= held + Cache - Dur + lag
      BY <2>6 DEF InTime
    <3>2. ready
      BY <1>a, <2>6, <3>1 DEF ready
    <3>3. now < held + Cache - Dur
      BY <1>a, <2>0, <2>6, <3>2 DEF playerWaits, due, tooOld, late
    <3>4. dspEnd' + adj' <= held + Cache - Dur + lag'
      BY <1>a, <2>4, <3>1
    <3>5. now' <= held + Cache - Dur + overrun'
      <4> DEFINE o == overrun'
      <4>1. o \in Int /\ o >= 0
        BY <2>2, LagFacts
      <4> HIDE DEF o
      <4>2. now + 1 <= held + Cache - Dur + o
        BY <1>a, <3>3, <4>1
      <4> QED BY <2>0, <4>2 DEF o
    <3>6. pcm # << >> => now' <= pcm[1] + Cache - Dur
      BY <1>0, <1>a, <2>0, <3>3
    <3> QED BY <2>0, <2>3, <2>6, <3>1, <3>4, <3>5, <3>6 DEF InTime
  <2>7. CASE ~ stuck /\ ~ holding
    <3>1. /\ busy <= clk \/ busy + DspSize <= dspEnd
          /\ dspEnd + adj <= held + Cache + lag
      BY <2>7 DEF InTime
    <3>2. dspEnd' + adj' <= held + Cache + lag'
      BY <1>a, <2>4, <3>1
    <3>3. ASSUME pcm # << >>
          PROVE  now' <= held + Cache + lag' - DspSize
      <4>1. clk < busy
        BY <1>a, <2>0, <2>7, <3>3 DEF playerWaits, ready
      <4> QED BY <1>a, <2>0, <2>2, <3>1, <4>1, LagFacts
    <3> QED BY <2>0, <2>3, <2>7, <3>1, <3>2, <3>3 DEF InTime
  <2> QED BY <2>5, <2>6, <2>7
<1>7. CASE setClock
  <2>1. adj' \in Int /\ adj' <= adj
    BY <1>7, FaultAssumption DEF setClock, TypeOK
  <2>2. UNCHANGED <<clk, pcm, holding, held, busy, stuck, dspEnd, lag, dropped>>
    BY <1>7 DEF setClock
  <2> DEFINE a == adj'
  <2>3. a \in Int /\ a <= adj
    BY <2>1
  <2> HIDE DEF a
  <2>4. \A x \in Int : /\ clk + adj <= x => clk + a <= x
                       /\ dspEnd + adj <= x => dspEnd + a <= x
    BY <1>a, <2>3
  <2>5. /\ held + Cache - Dur + overrun \in Int /\ held + Cache - Dur + lag \in Int
        /\ held + Cache + lag \in Int /\ held + Cache + lag - DspSize \in Int
        /\ pcm # << >> => pcm[1] + Cache - Dur \in Int
    <3>1. overrun \in Int /\ lag \in Int /\ DspSize \in Int
      BY LagFacts
    <3>2. pcm # << >> => pcm[1] + Cache - Dur \in Int
      BY <1>0, <1>a
    <3> QED BY <1>a, <3>1, <3>2
  <2>6. overrun' = overrun /\ now' = clk + a
    BY <2>2 DEF overrun, now, a
  <2> QED BY <2>2, <2>4, <2>5, <2>6 DEF InTime, now, a
<1>8. CASE UNCHANGED <<clk, adj, pcm, holding, held, busy, stuck, dspEnd, lag, dropped>>
  BY <1>8 DEF InTime, now, overrun
<1>9. CASE throttle \/ readNothing \/ UNCHANGED vars
  BY <1>9, <1>8 DEF throttle, readNothing
<1> QED BY <1>1, <1>2, <1>3, <1>4, <1>5, <1>6, <1>7, <1>9
         DEF Next, writeListThread, playThread

THEOREM Invariance == Spec => []Inv
<1>1. Inv /\ [Next]_vars => Inv'
  BY TypeStep, ApartStep, InTimeStep DEF Inv
<1> QED BY InitInv, <1>1, PTL DEF Spec

\* The type invariant; server_delay never leaves its range
\* (OssPlayer.cpp:307-311).
THEOREM TypeCorrect == Spec => []TypeOK
  BY Invariance, PTL DEF Inv

\* The server drops no chunk of its own and begins each in time, for every
\* size of the list, the DSP and the cache, whatever the pipe does, unless
\* the clock is set forward (TcpServer.cpp:883-940).
THEOREM ServerKeepsTime == Spec => []NothingLate
<1>1. Inv => NothingLate
  BY DEF Inv, InTime, NothingLate
<1> QED BY Invariance, <1>1, PTL

\* The stamps are a chunk apart at least, whatever the pipe and the clock do
\* (TcpServer.cpp:408-432).
THEOREM StampsAreApart == Spec => []StampsApart
<1>1. Inv => StampsApart
  <2> SUFFICES ASSUME Inv PROVE StampsApart
    OBVIOUS
  <2> DEFINE n == Len(pcm)
             s == <<held>> \o pcm \o <<timeval_>>
  <2>1. pcm \in Seq(Int) /\ held \in Int /\ timeval_ \in Int /\ n \in Nat
    BY DEF Inv, TypeOK
  <2>2. Len(s) = n + 2
    BY <2>1
  <2>3. s[1] = held /\ s[n + 2] = timeval_
    BY <2>1
  <2>4. \A i \in 1 .. n : s[i + 1] = pcm[i]
    BY <2>1
  <2>5. \A i \in 1 .. n - 1 : pcm[i + 1] >= pcm[i] + Dur
    BY DEF Inv, Apart
  <2>6. IF n = 0 THEN timeval_ >= held + Dur
        ELSE pcm[1] >= held + Dur /\ timeval_ >= pcm[n] + Dur
    BY <2>1, EmptyFacts DEF Inv, Apart
  <2> HIDE DEF n, s
  <2>7. \A i \in 1 .. Len(s) - 1 : s[i + 1] >= s[i] + Dur
    <3> SUFFICES ASSUME NEW i \in 1 .. n + 1 PROVE s[i + 1] >= s[i] + Dur
      BY <2>1, <2>2
    <3>1. CASE n = 0
      BY <3>1, <2>3, <2>6
    <3>2. CASE n > 0 /\ i = 1
      <4>1. 1 \in 1 .. n
        BY <3>2, <2>1
      <4> QED BY <4>1, <3>2, <2>3, <2>4, <2>6
    <3>3. CASE n > 0 /\ i = n + 1
      <4>1. n \in 1 .. n /\ i + 1 = n + 2
        BY <3>3, <2>1
      <4> QED BY <4>1, <3>3, <2>3, <2>4, <2>6
    <3>4. CASE n > 0 /\ i # 1 /\ i # n + 1
      <4> DEFINE j == i - 1
      <4>1. j \in 1 .. n - 1 /\ j \in 1 .. n /\ j + 1 \in 1 .. n /\ i = j + 1
        BY <3>4, <2>1
      <4> HIDE DEF j
      <4> QED BY <4>1, <2>4, <2>5
    <3> QED BY <3>1, <3>2, <3>3, <3>4, <2>1
  <2> QED BY <2>7 DEF s, StampsApart
<1> QED BY Invariance, <1>1, PTL

-----------------------------------------------------------------------------
(***************************************************************************)
(* The throttle (TcpServer.cpp:436-442).  The n-th sleep over a long list   *)
(* lasts n chunks.  While the player keeps up, a list of Threshold chunks   *)
(* means that the stamps are ahead of the clock by what these last, less    *)
(* the cache; every sleep takes its length from that lead, and what the     *)
(* writer wins back between two sleeps is a chunk.  So sleep_count is       *)
(* bounded (Paced, Counted), the list with it (Filled), and the sleep is    *)
(* shorter than what waits (Lasts).  A clock that is set forward puts the   *)
(* player behind, but only for one more sleep (Calm).  Sums are doubled     *)
(* because the sleeps add up to half a square.                              *)
(***************************************************************************)

\* The stamps of two chunks in a row are at most that far apart, while the
\* pipe is not silent.
Gap == Dur + DelayMax

\* Twice what a sleep_count of n says that the writer has slept more than the
\* chunks it wrote between the sleeps last: sleep k takes k chunks and one is
\* written before it.
Slept(n) == Dur * ((n - 1) * (n - 2)) - 2 * (DelayMax * (n - 1))

\* Twice how far the stamps can run ahead of a list of Threshold chunks.
Reach == 2 * (Cache + 3 * Dur + DelayMax + LagMax + (Threshold + 1) * DelayMax)

\* The list has room for m sleeps over its Threshold, m sleeps outlast what can
\* be ahead after the clock was set back by d, and Threshold chunks outlast the
\* cache, what the DSP may lag behind and two of these sleeps.
RoomFor(m, d) ==
  /\ m >= 1 /\ Threshold >= 1 /\ Threshold + m < Capacity
  /\ 2 * DelayMax <= Dur
  /\ \A s \in ClockSteps : s >= -d
  /\ Slept(m + 1) > Reach + 2 * d
  /\ Cache + DelayMax + LagMax + 2 * Dur + 2 * (m * Dur) <= (Threshold + 1) * Dur

Room == \E m, d \in Nat : RoomFor(m, d)

Longest == CHOOSE m \in Nat : \E d \in Nat : RoomFor(m, d)
Back == CHOOSE d \in Nat : RoomFor(Longest, d)

LEMMA RoomFacts ==
  ASSUME Room
  PROVE  Longest \in Nat /\ Back \in Nat /\ RoomFor(Longest, Back)
<1>1. Longest \in Nat /\ \E d \in Nat : RoomFor(Longest, d)
  BY DEF Room, Longest
<1>2. Back \in Nat /\ RoomFor(Longest, Back)
  BY <1>1 DEF Back
<1> QED BY <1>1, <1>2

LEMMA Products ==
  /\ \A k, c \in Int : k * c \in Int /\ (k + 1) * c = k * c + c /\ k * c = c * k
  /\ \A k \in Int, l \in Int, c \in Nat : k <= l => k * c <= l * c
  OBVIOUS

LEMMA SleptStep ==
  ASSUME NEW n \in Int
  PROVE  /\ Slept(n) \in Int
         /\ Slept(n + 1) = Slept(n) + 2 * (Dur * n) - 2 * Gap
<1>1. Dur \in Int /\ DelayMax \in Int
  BY TimeAssumption, DelayAssumption
<1>2. ((n + 1) - 1) * ((n + 1) - 2) = (n - 1) * (n - 2) + 2 * n - 2
  OBVIOUS
<1>3. Dur * ((n - 1) * (n - 2) + 2 * n - 2) = Dur * ((n - 1) * (n - 2)) + 2 * (Dur * n) - 2 * Dur
  BY <1>1
<1>4. DelayMax * ((n + 1) - 1) = DelayMax * (n - 1) + DelayMax
  BY <1>1
<1> QED BY <1>1, <1>2, <1>3, <1>4 DEF Slept, Gap

LEMMA SleptFirst == Slept(1) = 0 /\ Slept(2) = -(2 * DelayMax)
  BY TimeAssumption, DelayAssumption DEF Slept

\* The room that the constants of the source leave, in steps of 10 us
\* (DataList.h:14-18, TcpServer.cpp:294-295, 361, 437; OssPlayer.cpp:308): the
\* clock may be set back by twenty seconds and the DSP lag behind by one.
LEMMA RoomInTheSource ==
  ASSUME Dur \in {2321, 2612}, Cache = 520000, Capacity = 800, Threshold = 750,
         DelayMax = 10, LagMax <= 100000, \A s \in ClockSteps : s >= -2000000
  PROVE  Room
<1> DEFINE m == 49
<1>1. Slept(m + 1) > Reach + 2 * 2000000
  BY SizeAssumption DEF Slept, Reach
<1>2. RoomFor(m, 2000000)
  BY <1>1, SizeAssumption DEF RoomFor
<1> QED BY <1>2 DEF Room

last == IF pcm = << >> THEN held ELSE pcm[Len(pcm)]

\* The latest that the wall clock has shown.
ahead == IF set = "back" THEN Back ELSE 0
top == now + ahead

\* How far the next stamp is ahead of the time at which the writer goes on.
lead == timeval_ - (Larger(clk, wake) + adj)

\* What waits is a chunk apart at least, counted from the other end.
Below ==
  \A i \in 1 .. Len(pcm) : timeval_ >= pcm[i] + (Len(pcm) + 1 - i) * Dur

\* ... and a Gap at most, since the last time the pipe was silent.
Above ==
  /\ \A i \in 1 .. Len(pcm) : timeval_ <= Larger(pcm[i], top) + (Len(pcm) + 1 - i) * Gap
  /\ timeval_ <= Larger(held, top) + (Len(pcm) + 1) * Gap
  /\ timeval_ <= top + (Len(pcm) + (IF holding THEN 2 ELSE 1)) * Gap
  /\ timeval_ <= last + Gap

DspRight ==
  /\ busy <= clk + Dur
  /\ dspEnd <= Larger(busy, clk) + DspSize
  /\ holding => busy <= clk

\* The player is not behind by more than the width of its window and the lag.
Calm ==
  /\ holding => now <= held + Cache + Dur + LagMax
  /\ ~ holding => busy <= clk \/ busy + adj <= held + Cache + 2 * Dur + lag
  /\ pcm # << >> => now <= pcm[1] + Cache + Dur + LagMax

\* The list is as long as the sleep, beyond Threshold.
Filled ==
  /\ writer # "size" => Len(pcm) <= Threshold - 2 + sleep_count
  /\ writer = "size" => Len(pcm) <= Threshold - 1 + sleep_count
  /\ writer = "size" => wake <= clk

\* What the stamps of a list of Threshold chunks stand for at most.
Stock == (Threshold + 1) * Gap

\* Long sleeps leave the stamps less far ahead.
Paced ==
  2 * lead + Slept(sleep_count)
     <= 2 * (Stock + ahead) + (IF writer = "size" THEN 2 * Gap ELSE 0)

Often == Reach + 2 * ahead + 2 * (Longest * Dur - Dur)
Few == sleep_count <= Longest + 1 /\ Slept(sleep_count) <= Often
OneMore == sleep_count <= Longest + 2 /\ Slept(sleep_count) <= Often + 2 * (Longest * Dur)

\* While the player is not calm, which only a clock set forward does to it, the
\* writer sleeps once at most.
Counted ==
  \/ Few
  \/ /\ set = "forward"
     /\ OneMore
     /\ Calm \/ (writer # "size" /\ wake > busy /\ wake > clk)

\* A sleep over a full list ends before the last chunk's window opens.
Lasts ==
  set # "forward" /\ writer = "full" =>
    \/ wake <= clk
    \/ /\ pcm # << >> \/ holding
       /\ wake + adj <= last + Cache - Dur

Steady == ~ refused /\ Above /\ DspRight /\ Paced /\ Counted /\ Lasts

Throttled ==
  /\ Inv /\ Below /\ Filled
  /\ stuck => holding
  /\ ~ stuck => Steady

LEMMA Numbers ==
  ASSUME TypeOK
  PROVE  /\ Len(pcm) \in Nat /\ Len(pcm) <= Capacity
         /\ pcm # << >> <=> Len(pcm) >= 1
         /\ \A i \in 1 .. Len(pcm) : pcm[i] \in Int
         /\ last \in Int /\ timeval_ \in Int /\ held \in Int
         /\ clk \in Nat /\ wake \in Nat /\ adj \in Int /\ now \in Int
         /\ busy \in Int /\ dspEnd \in Int
         /\ lag \in Int /\ 0 <= lag /\ lag <= LagMax
         /\ stamp \in Int /\ stamp >= timeval_ /\ stamp <= Larger(timeval_, now)
         /\ server_delay \in Int /\ 0 <= server_delay /\ server_delay <= DelayMax
         /\ sleep_count \in Int /\ sleep_count >= 1
         /\ lead \in Int
<1>1. /\ Len(pcm) \in Nat /\ Len(pcm) <= Capacity /\ (pcm # << >> <=> Len(pcm) >= 1)
      /\ \A i \in 1 .. Len(pcm) : pcm[i] \in Int
  BY EmptyFacts DEF TypeOK
<1>2. last \in Int
  BY <1>1 DEF last, TypeOK
<1>3. /\ clk \in Nat /\ wake \in Nat /\ adj \in Int /\ now \in Int /\ timeval_ \in Int
      /\ held \in Int /\ busy \in Int /\ dspEnd \in Int
      /\ lag \in Int /\ 0 <= lag /\ lag <= LagMax
      /\ server_delay \in Int /\ 0 <= server_delay /\ server_delay <= DelayMax
      /\ sleep_count \in Int /\ sleep_count >= 1
  BY DelayAssumption, SizeAssumption DEF TypeOK, now
<1>4. stamp \in Int /\ stamp >= timeval_ /\ stamp <= Larger(timeval_, now)
  BY <1>3, TimeAssumption DEF stamp, Larger
<1>5. lead \in Int
  BY <1>3 DEF lead, Larger
<1> QED BY <1>1, <1>2, <1>3, <1>4, <1>5

LEMMA Sizes ==
  /\ Dur \in Nat \ {0} /\ Cache \in Nat /\ Cache >= 3 * Dur
  /\ DelayMax \in Nat /\ Gap \in Nat /\ Gap = Dur + DelayMax
  /\ Threshold \in Nat /\ Capacity \in Nat /\ DspSize \in Nat /\ LagMax \in Nat
  BY TimeAssumption, DelayAssumption, SizeAssumption DEF Gap

LEMMA BackFacts ==
  ASSUME Room
  PROVE  ahead \in Nat /\ ahead <= Back /\ Back \in Nat
  BY RoomFacts DEF ahead

LEMMA NextStamp ==
  ASSUME TypeOK, Apart
  PROVE  /\ pcm # << >> => pcm[1] \in Int /\ pcm[1] >= held + Dur
         /\ Len(pcm) >= 2 => pcm[2] \in Int /\ pcm[2] >= pcm[1] + Dur
<1>1. Len(pcm) \in Nat /\ (pcm # << >> <=> Len(pcm) >= 1)
      /\ \A i \in 1 .. Len(pcm) : pcm[i] \in Int
  BY Numbers
<1>2. Len(pcm) >= 2 => 1 \in 1 .. Len(pcm) - 1 /\ 2 \in 1 .. Len(pcm) /\ 1 + 1 = 2
  BY <1>1
<1>3. Len(pcm) >= 2 => pcm[1 + 1] >= pcm[1] + Dur
  BY <1>2 DEF Apart
<1> QED BY <1>1, <1>2, <1>3 DEF Apart

\* The player is calm unless the clock was set forward.
LEMMA InTimeIsCalm ==
  ASSUME TypeOK, Apart, InTime, ~ stuck
  PROVE  Calm
<1>1. /\ now \in Int /\ held \in Int /\ busy \in Int /\ adj \in Int /\ clk \in Int
      /\ dspEnd \in Int
      /\ pcm # << >> => pcm[1] \in Int /\ pcm[1] >= held + Dur
      /\ Dur \in Nat /\ Cache \in Int
  BY Numbers, Sizes, NextStamp
<1>2. holding => now <= held + Cache + Dur + LagMax
  BY <1>1, LagFacts DEF InTime
<1>3. ~ holding => busy <= clk \/ busy + adj <= held + Cache + 2 * Dur + lag
  BY <1>1, LagFacts DEF InTime
<1>4. pcm # << >> => now <= pcm[1] + Cache + Dur + LagMax
  <2>1. pcm # << >> => now <= pcm[1] + Cache - Dur \/ now <= held + Cache + lag - DspSize
    BY DEF InTime
  <2>2. lag \in Int /\ lag <= LagMax /\ LagMax \in Nat /\ DspSize \in Nat
    BY LagFacts
  <2> QED BY <1>1, <2>1, <2>2
<1> QED BY <1>2, <1>3, <1>4 DEF Calm

LEMMA BelowStep ==
  ASSUME TypeOK, Below, [Next]_vars
  PROVE  Below'
<1> USE DEF vars, clock, writing, playing, history
<1> DEFINE n == Len(pcm)
<1>0. n \in Nat /\ Dur \in Nat /\ \A i \in 1 .. n : pcm[i] \in Int
  BY Numbers, Sizes
<1>1. CASE writePcm
  <2>1. timeval_' >= stamp + Dur /\ stamp >= timeval_ /\ timeval_ \in Int /\ stamp \in Int
        /\ timeval_' \in Int
    <3>1. /\ timeval_' = stamp + Dur + server_delay
          /\ stamp \in Int /\ stamp >= timeval_ /\ timeval_ \in Int
          /\ server_delay \in Int /\ server_delay >= 0
      BY <1>1, Numbers DEF writePcm
    <3> QED BY <3>1, <1>0
  <2>2. CASE pcm' = pcm
    <3>1. ASSUME NEW i \in 1 .. n
          PROVE  timeval_' >= pcm[i] + (n + 1 - i) * Dur
      <4> DEFINE k == n + 1 - i
      <4>1. timeval_ >= pcm[i] + k * Dur
        BY DEF Below
      <4>2. k \in Int
        BY <1>0
      <4> HIDE DEF k, n
      <4>3. k * Dur \in Int
        BY <4>2, <1>0, Products
      <4>4. timeval_' >= pcm[i] + k * Dur
        BY <4>1, <4>3, <2>1, <1>0
      <4> QED BY <4>4 DEF k
    <3> QED BY <2>2, <3>1 DEF Below
  <2>3. CASE pcm' = Append(pcm, stamp)
    <3>1. Len(pcm') = n + 1 /\ pcm'[n + 1] = stamp /\ \A i \in 1 .. n : pcm'[i] = pcm[i]
      BY <2>1, <2>3, AppendFacts DEF TypeOK
    <3>2. ASSUME NEW i \in 1 .. n + 1
          PROVE  timeval_' >= pcm'[i] + (n + 1 + 1 - i) * Dur
      <4>1. CASE i = n + 1
        <5>1. n + 1 + 1 - i = 1
          BY <4>1, <1>0
        <5> QED BY <5>1, <4>1, <3>1, <2>1, <1>0
      <4>2. CASE i # n + 1
        <5> DEFINE k == n + 1 - i
        <5>1. i \in 1 .. n /\ k \in Int /\ n + 1 + 1 - i = k + 1
          BY <4>2, <1>0
        <5>2. timeval_ >= pcm[i] + k * Dur
          BY <5>1 DEF Below
        <5> HIDE DEF k, n
        <5>3. k * Dur \in Int /\ (k + 1) * Dur = k * Dur + Dur
          BY <5>1, <1>0, Products
        <5>4. timeval_' >= pcm[i] + (k + 1) * Dur
          BY <5>1, <5>2, <5>3, <2>1, <1>0
        <5> QED BY <5>1, <5>4, <3>1
      <4> QED BY <4>1, <4>2
    <3> QED BY <3>1, <3>2 DEF Below
  <2> QED BY <1>1, <2>2, <2>3 DEF writePcm
<1>2. CASE take
  <2>1. /\ n >= 1 /\ Len(pcm') = n - 1 /\ timeval_' = timeval_
        /\ \A i \in 1 .. n - 1 : pcm'[i] = pcm[i + 1]
    BY <1>2, Numbers, TailFacts DEF take, TypeOK
  <2>2. ASSUME NEW i \in 1 .. n - 1
        PROVE  timeval_' >= pcm'[i] + (n - 1 + 1 - i) * Dur
    <3>1. i + 1 \in 1 .. n /\ n + 1 - (i + 1) = n - 1 + 1 - i
      BY <1>0
    <3>2. timeval_ >= pcm[i + 1] + (n + 1 - (i + 1)) * Dur
      BY <3>1 DEF Below
    <3> QED BY <3>1, <3>2, <2>1
  <2> QED BY <2>1, <2>2 DEF Below
<1>3. CASE UNCHANGED <<pcm, timeval_>>
  BY <1>3 DEF Below
<1> QED BY <1>1, <1>2, <1>3 DEF Next, writeListThread, playThread, throttle, readNothing,
                                playPcm, playFail, drop, tick, tickSlow, setClock

LEMMA NotFull ==
  ASSUME Room, TypeOK, Filled, Counted, writer # "size"
  PROVE  Len(pcm) < Capacity
<1>1. sleep_count <= Longest + 2 /\ Longest \in Nat /\ Threshold + Longest < Capacity
  <2>1. Longest \in Nat /\ Threshold + Longest < Capacity
    BY RoomFacts, Sizes DEF RoomFor
  <2>2. sleep_count <= Longest + 1 \/ sleep_count <= Longest + 2
    BY DEF Counted, Few, OneMore
  <2>3. sleep_count \in Int
    BY Numbers
  <2> QED BY <2>1, <2>2, <2>3
<1>2. Len(pcm) <= Threshold - 2 + sleep_count
  BY DEF Filled
<1>3. sleep_count \in Int /\ Len(pcm) \in Int /\ Threshold \in Int /\ Capacity \in Int
  BY Numbers, Sizes
<1> QED BY <1>1, <1>2, <1>3

LEMMA WriteFacts ==
  ASSUME TypeOK, Len(pcm) < Capacity, writePcm
  PROVE  /\ pcm' = Append(pcm, stamp) /\ pcm' # << >> /\ refused' = refused
         /\ Len(pcm') = Len(pcm) + 1 /\ pcm'[Len(pcm) + 1] = stamp
         /\ \A i \in 1 .. Len(pcm) : pcm'[i] = pcm[i]
         /\ last' = stamp
         /\ timeval_' \in Int /\ timeval_' >= stamp + Dur /\ timeval_' <= stamp + Gap
         /\ timeval_' <= Larger(timeval_, now) + Gap
<1>1. pcm' = Append(pcm, stamp) /\ refused' = refused
      /\ timeval_' = stamp + Dur + server_delay
  BY DEF writePcm
<1>2. stamp \in Int /\ stamp <= Larger(timeval_, now) /\ server_delay \in Int
      /\ 0 <= server_delay /\ server_delay <= DelayMax /\ timeval_ \in Int /\ now \in Int
  BY Numbers
<1>3. /\ timeval_' \in Int /\ timeval_' >= stamp + Dur /\ timeval_' <= stamp + Gap
      /\ timeval_' <= Larger(timeval_, now) + Gap
  BY <1>1, <1>2, Sizes DEF Larger
<1>4. /\ pcm' # << >> /\ Len(pcm') = Len(pcm) + 1 /\ pcm'[Len(pcm) + 1] = stamp
      /\ \A i \in 1 .. Len(pcm) : pcm'[i] = pcm[i]
  BY <1>1, <1>2, AppendFacts DEF TypeOK
<1> QED BY <1>1, <1>3, <1>4 DEF last

LEMMA TakeFacts ==
  ASSUME TypeOK, take
  PROVE  /\ Len(pcm) >= 1 /\ Len(pcm') = Len(pcm) - 1
         /\ held' = pcm[1] /\ pcm[1] \in Int
         /\ \A i \in 1 .. Len(pcm) - 1 : pcm'[i] = pcm[i + 1]
         /\ pcm' # << >> <=> Len(pcm) >= 2
         /\ last' = last
<1>1. /\ Len(pcm) \in Nat /\ Len(pcm) >= 1 /\ Len(pcm') = Len(pcm) - 1 /\ pcm' \in Seq(Int)
      /\ held' = pcm[1] /\ pcm[1] \in Int
      /\ \A i \in 1 .. Len(pcm) - 1 : pcm'[i] = pcm[i + 1]
  BY Numbers, TailFacts DEF take, TypeOK
<1>2. pcm' # << >> <=> Len(pcm) >= 2
  BY <1>1, EmptyFacts
<1>3. CASE Len(pcm) = 1
  BY <1>1, <1>2, <1>3 DEF last
<1>4. CASE Len(pcm) >= 2
  <2>1. Len(pcm) - 1 \in 1 .. Len(pcm) - 1 /\ (Len(pcm) - 1) + 1 = Len(pcm) /\ pcm # << >>
    BY <1>1, <1>4, Numbers
  <2>2. pcm'[Len(pcm) - 1] = pcm[Len(pcm)]
    BY <1>1, <2>1
  <2> QED BY <1>1, <1>2, <1>4, <2>1, <2>2 DEF last
<1> QED BY <1>1, <1>2, <1>3, <1>4

LEMMA ClockIsSet ==
  ASSUME Room, TypeOK, setClock
  PROVE  /\ adj' \in Int /\ set = "no" /\ ahead = 0
         /\ \/ set' = "forward" /\ adj' > adj /\ ahead' = 0
            \/ set' = "back" /\ adj' <= adj /\ adj' + Back >= adj /\ ahead' = Back
<1>1. PICK d \in ClockSteps : adj' = adj + d /\ set' = IF d > 0 THEN "forward" ELSE "back"
  BY DEF setClock
<1>2. d \in Int /\ d >= -Back /\ Back \in Nat /\ adj \in Int
  BY RoomFacts, FaultAssumption, Numbers DEF RoomFor
<1>3. set = "no"
  BY DEF setClock
<1> QED BY <1>1, <1>2, <1>3 DEF ahead

LEMMA TopRises ==
  ASSUME Room, TypeOK, [Next]_vars
  PROVE  top \in Int /\ top' \in Int /\ top' >= top /\ top >= now
<1>1. now \in Int /\ clk \in Int /\ adj \in Int /\ ahead \in Nat /\ Back \in Nat
  BY Numbers, BackFacts
<1>2. CASE setClock
  <2>1. clk' = clk
    BY <1>2 DEF setClock
  <2> QED BY <1>1, <1>2, <2>1, ClockIsSet DEF top, now
<1>3. CASE tick \/ tickSlow
  BY <1>1, <1>3 DEF tick, tickSlow, top, now, ahead
<1>4. CASE UNCHANGED clock
  BY <1>1, <1>4 DEF top, now, ahead, clock
<1> QED BY <1>2, <1>3, <1>4
       DEF Next, vars, writeListThread, playThread, writePcm, throttle, readNothing, take,
           playPcm, playFail, drop

\* One more chunk: what was within k gaps is within k + 1.
LEMMA OneMoreGap ==
  ASSUME NEW t \in Int, NEW t1 \in Int, NEW x \in Int, NEW k \in Nat, NEW m \in Int, m <= x,
         t <= x + k * Gap, t1 <= Larger(t, m) + Gap
  PROVE  t1 <= x + (k + 1) * Gap
<1>1. k * Gap \in Int /\ k * Gap >= 0 /\ (k + 1) * Gap = k * Gap + Gap /\ Gap \in Int
  <2>1. 0 * Gap <= k * Gap /\ 0 * Gap = 0
    BY Sizes, Products
  <2> QED BY <2>1, Sizes, Products
<1> QED BY <1>1 DEF Larger

LEMMA LargerFacts ==
  ASSUME NEW a \in Int, NEW b \in Int
  PROVE  /\ Larger(a, b) \in Int /\ Larger(a, b) >= a /\ Larger(a, b) >= b
         /\ a <= b => Larger(a, b) = b
  BY DEF Larger

LEMMA LargerGrows ==
  ASSUME NEW a \in Int, NEW b \in Int, NEW c \in Int, b <= c
  PROVE  Larger(a, b) <= Larger(a, c)
  BY DEF Larger

LEMMA AboveStep ==
  ASSUME Room, TypeOK, Above, [Next]_vars, writer # "size" => Len(pcm) < Capacity
  PROVE  Above'
<1> DEFINE n == Len(pcm)
<1>0. /\ n \in Nat /\ \A i \in 1 .. n : pcm[i] \in Int
      /\ timeval_ \in Int /\ held \in Int /\ now \in Int /\ last \in Int /\ stamp \in Int
      /\ Gap \in Nat /\ top \in Int /\ top' \in Int /\ top' >= top /\ top >= now
  BY Numbers, Sizes, TopRises
<1>1. CASE writePcm
  <2>1. UNCHANGED <<held, holding, top, now>>
    BY <1>1 DEF writePcm, playing, clock, top, now, ahead
  <2>2. Len(pcm) < Capacity
    BY <1>1 DEF writePcm
  <2>3. /\ Len(pcm') = n + 1 /\ pcm'[n + 1] = stamp /\ \A i \in 1 .. n : pcm'[i] = pcm[i]
        /\ timeval_' \in Int /\ timeval_' <= Larger(timeval_, now) + Gap
        /\ timeval_' <= stamp + Gap /\ last' = stamp
    BY <1>1, <2>2, WriteFacts
  <2>4. ASSUME NEW i \in 1 .. n + 1
        PROVE  timeval_' <= Larger(pcm'[i], top') + (n + 1 + 1 - i) * Gap
    <3>1. CASE i = n + 1
      <4>1. n + 1 + 1 - i = 1 /\ 1 * Gap = Gap /\ pcm'[i] = stamp
        BY <3>1, <1>0, <2>3
      <4>2. Larger(stamp, top') >= stamp /\ Larger(stamp, top') \in Int
        BY <1>0, LargerFacts
      <4>3. timeval_' <= Larger(stamp, top') + Gap
        BY <4>2, <2>3, <1>0
      <4> QED BY <4>1, <4>3
    <3>2. CASE i # n + 1
      <4> DEFINE k == n + 1 - i
                 x == Larger(pcm[i], top)
      <4>1. i \in 1 .. n /\ k \in Nat /\ n + 1 + 1 - i = k + 1
        BY <3>2, <1>0
      <4>2. x \in Int /\ now <= x
        <5>1. pcm[i] \in Int /\ top \in Int
          BY <4>1, <1>0
        <5>2. Larger(pcm[i], top) \in Int /\ Larger(pcm[i], top) >= top
          BY <5>1, LargerFacts
        <5> QED BY <5>2, <1>0
      <4>3. timeval_ <= x + k * Gap
        BY <4>1 DEF Above
      <4> HIDE DEF k, x, n
      <4>4. timeval_' <= x + (k + 1) * Gap
        BY <4>1, <4>2, <4>3, <2>3, <1>0, OneMoreGap
      <4> QED BY <4>1, <4>4, <2>1, <2>3 DEF x
    <3> QED BY <3>1, <3>2
  <2>5. timeval_' <= Larger(held', top') + (n + 1 + 1) * Gap
    <3> DEFINE x == Larger(held, top)
    <3>1. x \in Int /\ now <= x /\ n + 1 \in Nat /\ timeval_ <= x + (n + 1) * Gap
      <4>1. Larger(held, top) \in Int /\ Larger(held, top) >= top
        BY <1>0, LargerFacts
      <4> QED BY <4>1, <1>0 DEF Above
    <3> HIDE DEF x
    <3>2. timeval_' <= x + (n + 1 + 1) * Gap
      BY <3>1, <2>3, <1>0, OneMoreGap
    <3> QED BY <3>2, <2>1 DEF x
  <2>6. timeval_' <= top' + (n + 1 + (IF holding' THEN 2 ELSE 1)) * Gap
    <3> DEFINE k == n + (IF holding THEN 2 ELSE 1)
    <3>1. k \in Nat /\ timeval_ <= top + k * Gap
      BY <1>0 DEF Above
    <3>2. n + 1 + (IF holding' THEN 2 ELSE 1) = k + 1
      BY <2>1, <1>0
    <3> HIDE DEF k
    <3>3. timeval_' <= top + (k + 1) * Gap
      BY <3>1, <2>3, <1>0, OneMoreGap
    <3> QED BY <3>2, <3>3, <2>1
  <2> QED BY <2>3, <2>4, <2>5, <2>6 DEF Above
<1>2. CASE take
  <2>1. UNCHANGED <<timeval_, top>> /\ ~ holding /\ holding'
    BY <1>2 DEF take, writing, clock, top, now, ahead
  <2>2. /\ n >= 1 /\ Len(pcm') = n - 1 /\ held' = pcm[1]
        /\ \A i \in 1 .. n - 1 : pcm'[i] = pcm[i + 1] /\ last' = last
    BY <1>2, TakeFacts
  <2>3. last' = last
    BY <1>2, TakeFacts
  <2>4. ASSUME NEW i \in 1 .. n - 1
        PROVE  timeval_' <= Larger(pcm'[i], top') + (n - 1 + 1 - i) * Gap
    <3>1. i + 1 \in 1 .. n /\ n + 1 - (i + 1) = n - 1 + 1 - i /\ pcm'[i] = pcm[i + 1]
      <4> HIDE DEF n
      <4> QED BY <1>0, <2>2
    <3>2. timeval_ <= Larger(pcm[i + 1], top) + (n + 1 - (i + 1)) * Gap
      BY <3>1 DEF Above
    <3> QED BY <3>1, <3>2, <2>1
  <2>5. timeval_' <= Larger(held', top') + (n - 1 + 1) * Gap
    <3>1. 1 \in 1 .. n /\ n + 1 - 1 = n - 1 + 1
      BY <1>0, <2>2
    <3>2. timeval_ <= Larger(pcm[1], top) + (n + 1 - 1) * Gap
      BY <3>1 DEF Above
    <3> QED BY <3>1, <3>2, <2>1, <2>2
  <2>6. timeval_' <= top' + (n - 1 + 2) * Gap
    <3>1. n - 1 + 2 = n + 1
      BY <1>0
    <3> QED BY <3>1, <2>1 DEF Above
  <2>7. timeval_' <= last' + Gap
    BY <2>1, <2>3 DEF Above
  <2> QED BY <2>1, <2>2, <2>4, <2>5, <2>6, <2>7 DEF Above
<1>3. CASE playPcm \/ drop
  <2>1. UNCHANGED <<timeval_, pcm, held, top, last>> /\ holding /\ ~ holding'
    BY <1>3 DEF playPcm, drop, writing, clock, top, now, ahead, last
  <2>2. held <= now
    BY <1>3, <1>0, Sizes DEF playPcm, drop, due, tooOld, late
  <2>3. Larger(held, top) = top
    BY <2>2, <1>0, LargerFacts
  <2> QED BY <2>1, <2>3 DEF Above
<1>4. CASE tick \/ tickSlow \/ setClock
  <2>1. UNCHANGED <<timeval_, pcm, held, holding, last>>
    BY <1>4 DEF tick, tickSlow, setClock, writing, playing, last
  <2>2. /\ \A i \in 1 .. n : Larger(pcm[i], top) <= Larger(pcm[i], top')
        /\ Larger(held, top) <= Larger(held, top')
        /\ \A i \in 1 .. n : Larger(pcm[i], top) \in Int /\ Larger(pcm[i], top') \in Int
        /\ Larger(held, top) \in Int /\ Larger(held, top') \in Int
    BY <1>0, LargerFacts, LargerGrows
  <2>3. ASSUME NEW x \in Int, NEW y \in Int, x <= y, NEW k \in Int, timeval_ <= x + k * Gap
        PROVE  timeval_' <= y + k * Gap
    <3>1. k * Gap \in Int
      BY <1>0, Products
    <3> QED BY <3>1, <2>1, <2>3, <1>0
  <2>4. \A i \in 1 .. n : timeval_' <= Larger(pcm[i], top') + (n + 1 - i) * Gap
    <3> TAKE i \in 1 .. n
    <3>1. n + 1 - i \in Int /\ timeval_ <= Larger(pcm[i], top) + (n + 1 - i) * Gap
      BY <1>0 DEF Above
    <3> QED BY <3>1, <2>2, <2>3
  <2>5. timeval_' <= Larger(held, top') + (n + 1) * Gap
    <3>1. n + 1 \in Int /\ timeval_ <= Larger(held, top) + (n + 1) * Gap
      BY <1>0 DEF Above
    <3> QED BY <3>1, <2>2, <2>3
  <2>6. timeval_' <= top' + (n + (IF holding THEN 2 ELSE 1)) * Gap
    <3>1. /\ n + (IF holding THEN 2 ELSE 1) \in Int
          /\ timeval_ <= top + (n + (IF holding THEN 2 ELSE 1)) * Gap
      BY <1>0 DEF Above
    <3> QED BY <3>1, <1>0, <2>3
  <2> QED BY <2>1, <2>4, <2>5, <2>6 DEF Above
<1>5. CASE UNCHANGED <<timeval_, pcm, held, holding, clk, adj, set>>
  <2>1. UNCHANGED <<top, last>>
    BY <1>5 DEF top, now, ahead, last
  <2> QED BY <1>5, <2>1 DEF Above
<1> QED BY <1>1, <1>2, <1>3, <1>4, <1>5
       DEF Next, vars, writeListThread, playThread, throttle, readNothing, playFail,
           clock, writing, playing, history

LEMMA DspStep ==
  ASSUME TypeOK, DspRight, [Next]_vars
  PROVE  DspRight'
<1>0. clk \in Int /\ busy \in Int /\ dspEnd \in Int /\ Dur \in Nat /\ DspSize \in Nat
  BY Numbers, Sizes
<1>1. CASE playPcm
  <2>1. /\ busy <= clk /\ clk' = clk /\ ~ holding'
        /\ dspEnd' = Larger(dspEnd, clk) + Dur /\ busy' = Larger(clk, dspEnd' - DspSize)
    BY <1>1 DEF playPcm, ready, clock
  <2>2. dspEnd' \in Int /\ dspEnd' <= clk + DspSize + Dur
    BY <1>0, <2>1 DEF DspRight, Larger
  <2>3. busy' \in Int /\ busy' <= clk + Dur /\ dspEnd' <= Larger(busy', clk) + DspSize
    BY <1>0, <2>1, <2>2 DEF Larger
  <2> QED BY <2>1, <2>3 DEF DspRight
<1>2. CASE take
  BY <1>0, <1>2 DEF take, ready, DspRight, clock
<1>3. CASE tick \/ tickSlow
  BY <1>0, <1>3 DEF tick, tickSlow, DspRight, playing, Larger
<1>4. CASE UNCHANGED <<clk, busy, dspEnd>> /\ (holding' => holding)
  BY <1>4 DEF DspRight
<1> QED BY <1>1, <1>2, <1>3, <1>4
       DEF Next, vars, writeListThread, playThread, writePcm, throttle, readNothing, drop,
           playFail, setClock, clock, playing

\* Who plays a chunk in its window is calm.
LEMMA PlayingCalms ==
  ASSUME TypeOK, Apart, DspRight, playPcm
  PROVE  Calm'
<1>1. DspRight'
  BY DspStep DEF Next, playThread
<1>2. /\ UNCHANGED <<clk, adj, pcm, held, lag>> /\ ~ holding' /\ late(held) <= Dur
  BY Numbers, Sizes DEF playPcm, clock, due, late
<1>3. /\ now \in Int /\ held \in Int /\ clk \in Int /\ adj \in Int /\ Cache \in Nat /\ Dur \in Nat
      /\ now <= held + Cache + Dur
  <2>1. /\ now \in Int /\ held \in Int /\ clk \in Int /\ adj \in Int
        /\ Cache \in Nat /\ Dur \in Nat
    BY Numbers, Sizes
  <2> QED BY <1>2, <2>1 DEF late
<1>4. busy' \in Int /\ busy' <= clk + Dur
  BY <1>1, <1>2, TypeStep, Numbers DEF DspRight, Next, playThread, TypeOK
<1>5. busy' + adj <= held + Cache + 2 * Dur + lag
  <2>1. now = clk + adj
    BY DEF now
  <2> DEFINE b == busy'
  <2>2. b \in Int /\ b <= clk + Dur
    BY <1>4
  <2> HIDE DEF b
  <2>3. b + adj <= held + Cache + 2 * Dur + lag
    BY <1>3, <2>1, <2>2, LagFacts
  <2> QED BY <2>3 DEF b
<1>6. pcm # << >> => now <= pcm[1] + Cache + Dur + LagMax
  BY <1>3, NextStamp, Sizes
<1>7. now' = now
  BY <1>2 DEF now
<1> QED BY <1>2, <1>5, <1>6, <1>7 DEF Calm

\* Who has to wait is calm, unless it waits for the DSP.
LEMMA WaitingIsCalm ==
  ASSUME TypeOK, Apart, DspRight, playerWaits, ~ stuck, busy <= clk
  PROVE  /\ Calm
         /\ holding => now + Dur < held + Cache
         /\ ~ holding => pcm = << >>
<1>1. ready
  BY Numbers DEF ready
<1>2. now \in Int /\ held \in Int /\ Cache \in Nat /\ Dur \in Nat
  BY Numbers, Sizes
<1>3. holding => now + Dur < held + Cache
  BY <1>1, <1>2 DEF playerWaits, due, tooOld, late
<1>4. ~ holding => pcm = << >>
  BY <1>1 DEF playerWaits
<1>5. holding /\ pcm # << >> => now <= pcm[1] + Cache + Dur + LagMax
  BY <1>2, <1>3, NextStamp, Sizes
<1> QED BY <1>2, <1>3, <1>4, <1>5, Sizes DEF Calm

LEMMA CalmStep ==
  ASSUME TypeOK, Apart, DspRight, Calm, ~ stuck, [Next]_vars, ~ setClock
  PROVE  Calm'
<1>0. /\ now \in Int /\ held \in Int /\ clk \in Int /\ adj \in Int /\ busy \in Int
      /\ Cache \in Nat /\ Dur \in Nat /\ Cache >= 3 * Dur
      /\ lag \in Int /\ 0 <= lag /\ lag <= LagMax /\ LagMax \in Nat
      /\ pcm # << >> => pcm[1] \in Int /\ pcm[1] >= held + Dur
  BY Numbers, Sizes, NextStamp
<1>1. CASE writePcm
  <2>1. UNCHANGED <<now, holding, held, busy, clk, adj, lag>>
    BY <1>1 DEF writePcm, clock, playing, now
  <2>2. CASE pcm' = pcm
    BY <2>1, <2>2 DEF Calm
  <2>3. CASE pcm' # pcm
    <3>1. Len(pcm) < Capacity
      BY <1>1, <2>3 DEF writePcm
    <3>2. stamp \in Int /\ now <= stamp + Cache + Dur + LagMax
      BY <1>0, StampBounds
    <3>3. /\ pcm'[Len(pcm) + 1] = stamp /\ \A i \in 1 .. Len(pcm) : pcm'[i] = pcm[i]
      BY <1>1, <3>1, WriteFacts
    <3>4. pcm'[1] = stamp \/ (pcm # << >> /\ pcm'[1] = pcm[1])
      <4>1. CASE pcm = << >>
        <5>1. Len(pcm) + 1 = 1
          BY <4>1, Numbers
        <5> QED BY <5>1, <3>3
      <4>2. CASE pcm # << >>
        <5>1. 1 \in 1 .. Len(pcm)
          BY <4>2, Numbers
        <5> QED BY <5>1, <3>3, <4>2
      <4> QED BY <4>1, <4>2
    <3> QED BY <2>1, <3>2, <3>4 DEF Calm
  <2> QED BY <2>2, <2>3
<1>2. CASE take
  <2>1. UNCHANGED <<now, busy, clk, adj>> /\ holding' /\ pcm # << >>
    BY <1>2 DEF take, clock, now
  <2>2. held' = pcm[1] /\ now <= pcm[1] + Cache + Dur + LagMax
    BY <1>2, <2>1, TakeFacts DEF Calm
  <2>3. pcm' # << >> => pcm'[1] = pcm[2] /\ Len(pcm) >= 2
    <3>1. Len(pcm) >= 2 => 1 \in 1 .. Len(pcm) - 1 /\ 1 + 1 = 2
      BY Numbers
    <3> QED BY <1>2, <3>1, TakeFacts
  <2>4. pcm' # << >> => now <= pcm'[1] + Cache + Dur + LagMax
    <3>1. Len(pcm) >= 2 => pcm[2] \in Int /\ pcm[2] >= pcm[1] + Dur /\ pcm[1] \in Int
      BY <1>0, NextStamp, Numbers
    <3>2. ASSUME NEW x \in Int, NEW y \in Int, y >= x + Dur, now <= x + Cache + Dur + LagMax
          PROVE  now <= y + Cache + Dur + LagMax
      BY <1>0, <3>2
    <3>3. Len(pcm) >= 2 => now <= pcm[2] + Cache + Dur + LagMax
      BY <2>2, <3>1, <3>2
    <3> QED BY <2>3, <3>3
  <2> QED BY <2>1, <2>2, <2>4 DEF Calm
<1>3. CASE playPcm
  BY <1>3, PlayingCalms
<1>4. CASE drop
  BY <1>4, <1>0 DEF drop, ready, clock, Calm, now
<1>5. CASE tick \/ tickSlow
  <2>1. /\ UNCHANGED <<pcm, held, holding, adj>> /\ clk' = clk + 1 /\ now' = now + 1
        /\ playerWaits
    BY <1>5, <1>0 DEF tick, tickSlow, playing, now
  <2>2. CASE busy <= clk
    <3>1. /\ holding => now + Dur < held + Cache
          /\ ~ holding => pcm = << >>
      BY <2>1, <2>2, WaitingIsCalm
    <3>2. busy' = busy
      BY <1>5, <2>2, <1>0 DEF tick, tickSlow, playing
    <3> QED BY <2>1, <2>2, <3>1, <3>2, <1>0 DEF Calm
  <2>3. CASE busy > clk
    <3>1. ~ holding /\ busy + adj <= held + Cache + 2 * Dur + lag
      BY <2>3, <1>0 DEF DspRight, Calm
    <3>2. now + 1 <= busy + adj
      BY <2>3, <1>0 DEF now
    <3>3. pcm # << >> => now + 1 <= pcm[1] + Cache + Dur + LagMax
      BY <3>1, <3>2, <1>0
    <3>4. busy' + adj <= held + Cache + 2 * Dur + lag'
      BY <1>5, <3>1, <2>3, <1>0 DEF tick, tickSlow, playing
    <3> QED BY <2>1, <3>1, <3>3, <3>4 DEF Calm
  <2> QED BY <2>2, <2>3, <1>0
<1>6. CASE UNCHANGED <<clk, adj, pcm, held, holding, busy, lag>>
  BY <1>6 DEF Calm, now
<1> QED BY <1>1, <1>2, <1>3, <1>4, <1>5, <1>6
       DEF Next, vars, writeListThread, playThread, throttle, readNothing, playFail,
           clock, playing

LEMMA FilledStep ==
  ASSUME Room, TypeOK, Filled, [Next]_vars
  PROVE  Filled'
<1>0. /\ Len(pcm) \in Nat /\ Threshold \in Nat /\ Threshold >= 1
      /\ sleep_count \in Int /\ sleep_count >= 1 /\ clk \in Nat /\ wake \in Nat
  BY Numbers, Sizes, RoomFacts DEF RoomFor
<1>1. CASE writePcm
  <2>1. Len(pcm') <= Len(pcm) + 1 /\ Len(pcm') \in Nat
    <3>1. CASE Len(pcm) < Capacity
      BY <1>0, <1>1, <3>1, WriteFacts
    <3>2. CASE ~ (Len(pcm) < Capacity)
      BY <1>0, <1>1, <3>2 DEF writePcm
    <3> QED BY <3>1, <3>2
  <2> QED BY <1>0, <1>1, <2>1 DEF writePcm, Filled, clock
<1>2. CASE throttle
  BY <1>0, <1>2 DEF throttle, Filled
<1>3. CASE readNothing
  BY <1>0, <1>3 DEF readNothing, Filled
<1>4. CASE take
  <2>1. Len(pcm') \in Int /\ Len(pcm') <= Len(pcm)
    BY <1>0, <1>4, TakeFacts
  <2> QED BY <1>0, <1>4, <2>1 DEF take, Filled, writing, clock
<1>5. CASE tick \/ tickSlow
  BY <1>0, <1>5 DEF tick, tickSlow, Filled, writing
<1>6. CASE UNCHANGED <<writing, pcm, clk>>
  BY <1>6 DEF Filled, writing
<1> QED BY <1>1, <1>2, <1>3, <1>4, <1>5, <1>6
       DEF Next, vars, writeListThread, playThread, playPcm, playFail, drop, setClock, clock

\* The constants of RoomFor as numbers, with every product a number of its own.
LEMMA RoomNumbers ==
  ASSUME Room
  PROVE  /\ Longest \in Nat /\ Longest >= 1 /\ Longest * Dur \in Nat /\ Longest * Dur >= Dur
         /\ Threshold * Dur \in Nat /\ (Threshold + 1) * Dur = Threshold * Dur + Dur
         /\ (Threshold + 1) * DelayMax \in Nat
         /\ Stock \in Nat
         /\ Stock = Threshold * Dur + Dur + (Threshold + 1) * DelayMax
         /\ Cache + DelayMax + LagMax + 2 * Dur + 2 * (Longest * Dur) <= Threshold * Dur + Dur
         /\ Reach = 2 * (Cache + 3 * Dur + DelayMax + LagMax + (Threshold + 1) * DelayMax)
         /\ Reach \in Nat
         /\ Slept(Longest + 1) > Reach + 2 * Back
         /\ 2 * DelayMax <= Dur
<1>1. Longest \in Nat /\ Back \in Nat /\ RoomFor(Longest, Back)
  BY RoomFacts
<1>2. /\ Longest >= 1 /\ 2 * DelayMax <= Dur /\ Slept(Longest + 1) > Reach + 2 * Back
      /\ Cache + DelayMax + LagMax + 2 * Dur + 2 * (Longest * Dur) <= (Threshold + 1) * Dur
  BY <1>1 DEF RoomFor
<1>3. /\ Longest * Dur \in Nat /\ 1 * Dur <= Longest * Dur
      /\ Threshold * Dur \in Nat /\ (Threshold + 1) * Dur = Threshold * Dur + Dur
      /\ (Threshold + 1) * DelayMax \in Nat
      /\ (Threshold + 1) * (Dur + DelayMax) = (Threshold + 1) * Dur + (Threshold + 1) * DelayMax
  BY <1>1, <1>2, Sizes
<1>4. Reach = 2 * (Cache + 3 * Dur + DelayMax + LagMax + (Threshold + 1) * DelayMax)
  BY DEF Reach
<1>5. Stock = (Threshold + 1) * (Dur + DelayMax)
  BY DEF Stock, Gap
<1> QED BY <1>1, <1>2, <1>3, <1>4, <1>5, Sizes

\* No count that is allowed is one that the writer cannot have slept.
LEMMA CountedBound ==
  ASSUME Room, TypeOK, Counted
  PROVE  /\ Slept(sleep_count) \in Int
         /\ Slept(sleep_count) <= 2 * (Stock + ahead)
<1>1. Slept(sleep_count) \in Int /\ ahead \in Nat
  BY Numbers, SleptStep, BackFacts
<1>2. Slept(sleep_count) <= Often + 2 * (Longest * Dur)
  <2>1. Often \in Int /\ Longest * Dur \in Nat
    BY <1>1, RoomNumbers, Sizes DEF Often
  <2>2. Slept(sleep_count) <= Often \/ Slept(sleep_count) <= Often + 2 * (Longest * Dur)
    BY DEF Counted, Few, OneMore
  <2> QED BY <1>1, <2>1, <2>2
<1>3. Often = Reach + 2 * ahead + 2 * (Longest * Dur - Dur)
  BY DEF Often
<1> QED BY <1>1, <1>2, <1>3, RoomNumbers, Sizes

LEMMA SleptFalls ==
  ASSUME Room, NEW n \in Int, n >= 2
  PROVE  /\ Slept(n) \in Int /\ Slept(n - 1) \in Int
         /\ Slept(n - 1) <= Larger(Slept(n), 0)
         /\ n >= 4 => Slept(n) >= Slept(n - 1) + 2 * Gap
<1>1. (n - 1) + 1 = n /\ n - 1 \in Int
  OBVIOUS
<1>2. Slept(n) = Slept(n - 1) + 2 * (Dur * (n - 1)) - 2 * Gap
      /\ Slept(n) \in Int /\ Slept(n - 1) \in Int
  BY <1>1, SleptStep
<1>3. 2 * Gap <= 3 * Dur /\ Gap \in Nat /\ Dur \in Nat
  BY RoomNumbers, Sizes
<1>4. n >= 3 => Dur * (n - 1) >= 2 * Dur
  BY <1>3, Products
<1>5. n >= 4 => Dur * (n - 1) >= 3 * Dur
  BY <1>3, Products
<1>6. Dur * (n - 1) \in Int
  BY <1>3, Products
<1>7. n = 2 => Slept(n - 1) = 0
  BY SleptFirst
<1>8. n = 2 \/ n >= 3
  OBVIOUS
<1>9. n >= 3 => Slept(n - 1) <= Slept(n)
  BY <1>2, <1>3, <1>4, <1>6
<1>10. n >= 4 => Slept(n) >= Slept(n - 1) + 2 * Gap
  BY <1>2, <1>3, <1>5, <1>6
<1>11. Slept(n - 1) <= Larger(Slept(n), 0)
  BY <1>2, <1>7, <1>8, <1>9 DEF Larger
<1> QED BY <1>2, <1>10, <1>11

\* What may be ahead at the writer's next step.
Limit == 2 * (Stock + ahead)

LEMMA PacedStep ==
  ASSUME Room, TypeOK, Above, Filled, Paced, Counted, [Next]_vars,
         writer # "size" => Len(pcm) < Capacity
  PROVE  Paced'
<1>0. /\ clk \in Nat /\ wake \in Nat /\ adj \in Int /\ now \in Int /\ now = clk + adj
      /\ timeval_ \in Int /\ lead \in Int /\ Limit \in Int /\ Gap \in Nat /\ Dur \in Nat
      /\ sleep_count \in Int /\ sleep_count >= 1 /\ Slept(sleep_count) \in Int
      /\ ahead \in Nat
  <2>1. Slept(sleep_count) \in Int /\ Stock \in Nat /\ ahead \in Nat
    BY Numbers, SleptStep, RoomNumbers, BackFacts
  <2> QED BY <2>1, Numbers, Sizes DEF now, Limit
<1>1. CASE writePcm
  <2>1. /\ clk >= wake /\ writer # "size" /\ writer' = "size"
        /\ UNCHANGED <<clk, wake, adj, ahead, sleep_count>>
    BY <1>1 DEF writePcm, clock, ahead
  <2>2. timeval_' \in Int /\ timeval_' <= Larger(timeval_, now) + Gap
    BY <1>1, <2>1, WriteFacts
  <2>3. lead = timeval_ - now /\ lead' = timeval_' - now
    BY <1>0, <2>1 DEF lead, Larger
  <2>4. 2 * lead + Slept(sleep_count) <= Limit
    BY <1>0, <2>1 DEF Paced, Limit
  <2>5. Slept(sleep_count) <= Limit
    BY CountedBound DEF Limit
  <2>6. timeval_' <= timeval_ + Gap \/ timeval_' <= now + Gap
    BY <2>2, <1>0 DEF Larger
  <2> DEFINE t == timeval_'
  <2>7. t \in Int /\ (t <= timeval_ + Gap \/ t <= now + Gap)
    BY <2>2, <2>6
  <2> HIDE DEF t
  <2>8. 2 * (t - now) + Slept(sleep_count) <= Limit + 2 * Gap
    BY <1>0, <2>3, <2>4, <2>5, <2>7
  <2>9. 2 * lead' + Slept(sleep_count') <= Limit + 2 * Gap
    BY <2>1, <2>3, <2>8 DEF t
  <2> QED BY <2>1, <2>9 DEF Paced, Limit
<1>2. CASE throttle
  <2>1. /\ writer = "size" /\ writer' # "size" /\ wake <= clk
        /\ UNCHANGED <<clk, adj, timeval_, ahead>>
    BY <1>2 DEF throttle, clock, ahead, Filled
  <2>2. 2 * lead + Slept(sleep_count) <= Limit + 2 * Gap /\ lead = timeval_ - now
    BY <1>0, <2>1 DEF Paced, Limit, lead, Larger
  <2>3. CASE Len(pcm) >= Threshold
    <3> DEFINE w == Dur * sleep_count
    <3>1. w \in Nat
      BY <1>0, Products
    <3>2. Slept(sleep_count + 1) = Slept(sleep_count) + 2 * w - 2 * Gap
      BY <1>0, SleptStep
    <3>3. wake' = clk + w /\ sleep_count' = sleep_count + 1
      BY <1>2, <2>3 DEF throttle
    <3> HIDE DEF w
    <3>4. lead' = timeval_ - (clk + w + adj)
      BY <1>0, <2>1, <3>1, <3>3 DEF lead, Larger
    <3>5. 2 * lead' + Slept(sleep_count') <= Limit
      BY <1>0, <2>2, <3>1, <3>2, <3>3, <3>4
    <3> QED BY <1>0, <2>1, <3>5 DEF Paced, Limit
  <2>4. CASE ~ (Len(pcm) >= Threshold)
    <3>1. /\ wake' = wake
          /\ sleep_count' = IF sleep_count > 1 THEN sleep_count - 1 ELSE 1
      BY <1>2, <2>4 DEF throttle
    <3>2. lead' = lead
      BY <2>1, <3>1 DEF lead, Larger
    <3>3. 2 * lead + Slept(sleep_count') <= Limit
      <4>1. CASE sleep_count >= 4
        <5>1. /\ Slept(sleep_count - 1) \in Int
              /\ Slept(sleep_count) >= Slept(sleep_count - 1) + 2 * Gap
          BY <1>0, <4>1, SleptFalls
        <5> QED BY <1>0, <2>2, <3>1, <4>1, <5>1
      <4>2. CASE sleep_count <= 3
        <5>1. Slept(sleep_count') <= 0 /\ Slept(sleep_count') \in Int
          <6>1. sleep_count' \in {1, 2}
            BY <1>0, <3>1, <4>2
          <6> QED BY <6>1, SleptFirst, Sizes
        <5>2. timeval_ <= top + Stock
          <6> DEFINE k == Len(pcm) + (IF holding THEN 2 ELSE 1)
          <6>1. timeval_ <= top + k * Gap
            BY DEF Above
          <6>2. k \in Nat /\ k <= Threshold + 1
            <7>1. Len(pcm) \in Nat /\ Threshold \in Nat /\ Len(pcm) + 1 <= Threshold
              BY <2>4, Numbers, Sizes
            <7> QED BY <7>1
          <6> HIDE DEF k
          <6>3. k * Gap <= Stock /\ k * Gap \in Int /\ Stock \in Int
            BY <6>2, Sizes, Products DEF Stock
          <6> QED BY <6>1, <6>3, <1>0, TopRises
        <5>3. 2 * lead <= Limit
          <6>1. top = now + ahead /\ Stock \in Int
            BY RoomNumbers DEF top
          <6> QED BY <1>0, <2>2, <5>2, <6>1 DEF Limit
        <5> QED BY <1>0, <5>1, <5>3
      <4> QED BY <1>0, <4>1, <4>2
    <3> QED BY <1>0, <2>1, <3>2, <3>3 DEF Paced, Limit
  <2> QED BY <2>3, <2>4
<1>3. CASE readNothing \/ tick \/ tickSlow
  <2>1. /\ writer # "size" /\ writer' # "size" /\ UNCHANGED <<adj, timeval_, ahead, sleep_count>>
        /\ clk' \in Nat /\ wake' \in Nat /\ Larger(clk', wake') >= Larger(clk, wake)
    <3>1. CASE readNothing
      <4>1. clk >= wake /\ clk' = clk /\ wake' \in Nat
        BY <1>0, <3>1, PauseAssumption DEF readNothing, clock
      <4> QED BY <1>0, <3>1, <4>1 DEF readNothing, clock, ahead, Larger
    <3>2. CASE tick \/ tickSlow
      BY <1>0, <3>2 DEF tick, tickSlow, writing, ahead, Larger
    <3> QED BY <1>3, <3>1, <3>2
  <2>2. lead' <= lead /\ lead' \in Int
    <3> DEFINE g == Larger(clk, wake)
               h == Larger(clk', wake')
    <3>1. g \in Int /\ h \in Int /\ g <= h
      BY <1>0, <2>1 DEF Larger
    <3>2. lead = timeval_ - (g + adj) /\ lead' = timeval_ - (h + adj)
      BY <2>1 DEF lead
    <3> HIDE DEF g, h
    <3> QED BY <1>0, <3>1, <3>2
  <2>3. 2 * lead + Slept(sleep_count) <= Limit
    BY <1>0, <2>1 DEF Paced, Limit
  <2>4. 2 * lead' + Slept(sleep_count) <= Limit
    BY <1>0, <2>2, <2>3
  <2> QED BY <1>0, <2>1, <2>4 DEF Paced, Limit
<1>4. CASE setClock
  <2>1. /\ UNCHANGED <<clk, wake, writer, timeval_, sleep_count>>
        /\ adj' \in Int /\ ahead = 0 /\ ahead' \in Nat /\ adj' + ahead' >= adj
    <3>1. UNCHANGED <<clk, wake, writer, timeval_, sleep_count>>
      BY <1>4 DEF setClock, writing
    <3> QED BY <1>0, <1>4, <3>1, ClockIsSet, RoomFacts
  <2> DEFINE a == adj'
             h == ahead'
             g == Larger(clk, wake)
             e == IF writer = "size" THEN 2 * Gap ELSE 0
  <2>2. a \in Int /\ h \in Nat /\ a + h >= adj /\ g \in Int /\ e \in Int /\ Stock \in Nat
    <3>1. a \in Int /\ h \in Nat /\ a + h >= adj
      BY <2>1
    <3>2. g \in Int
      BY <1>0 DEF Larger
    <3>3. e \in Int
      BY <1>0
    <3>4. Stock \in Nat
      BY RoomNumbers
    <3> HIDE DEF a, h, g, e
    <3> QED BY <3>1, <3>2, <3>3, <3>4
  <2>3. lead = timeval_ - (g + adj) /\ lead' = timeval_ - (g + a)
    BY <2>1 DEF lead
  <2>4. 2 * lead + Slept(sleep_count) <= 2 * (Stock + 0) + e
    BY <2>1 DEF Paced
  <2> HIDE DEF a, h, g, e
  <2>5. 2 * (timeval_ - (g + a)) + Slept(sleep_count) <= 2 * (Stock + h) + e
    BY <1>0, <2>2, <2>3, <2>4
  <2>6. 2 * lead' + Slept(sleep_count') <= 2 * (Stock + ahead') + e
    BY <2>1, <2>3, <2>5 DEF h
  <2> QED BY <2>1, <2>6 DEF Paced, e
<1>5. CASE UNCHANGED <<clock, writing>>
  BY <1>5 DEF Paced, lead, ahead, clock, writing
<1> QED BY <1>1, <1>2, <1>3, <1>4, <1>5
       DEF Next, vars, writeListThread, playThread, take, playPcm, playFail, drop

\* While the player is calm a list of Threshold chunks is far ahead, so the
\* sleeps before it cannot have been many.
LEMMA ThrottleBound ==
  ASSUME Room, TypeOK, Below, Paced, Filled, Calm, Counted,
         writer = "size", Len(pcm) >= Threshold
  PROVE  /\ sleep_count <= Longest
         /\ Slept(sleep_count) <= Reach + 2 * ahead
         /\ pcm # << >> /\ pcm[1] \in Int /\ timeval_ >= pcm[1] + Threshold * Dur
<1>0. /\ clk \in Nat /\ wake \in Nat /\ wake <= clk /\ adj \in Int /\ now = clk + adj
      /\ timeval_ \in Int /\ sleep_count \in Int /\ Slept(sleep_count) \in Int
      /\ ahead \in Nat /\ ahead <= Back /\ Back \in Nat
      /\ Dur \in Nat /\ DelayMax \in Nat /\ Gap = Dur + DelayMax /\ Cache \in Nat
  BY Numbers, Sizes, BackFacts, SleptStep DEF Filled, now
<1>1. Threshold >= 1 /\ Threshold \in Nat /\ Len(pcm) \in Nat
  BY RoomFacts, Sizes, Numbers DEF RoomFor
<1>2. pcm # << >> /\ 1 \in 1 .. Len(pcm) /\ pcm[1] \in Int
  BY <1>1, Numbers
<1>3. timeval_ >= pcm[1] + Threshold * Dur
  <2>1. timeval_ >= pcm[1] + (Len(pcm) + 1 - 1) * Dur
    BY <1>2 DEF Below
  <2>2. Len(pcm) + 1 - 1 = Len(pcm)
    BY <1>1
  <2>3. Threshold * Dur <= Len(pcm) * Dur /\ Threshold * Dur \in Int /\ Len(pcm) * Dur \in Int
    BY <1>0, <1>1, Products
  <2> QED BY <1>0, <1>2, <2>1, <2>2, <2>3
<1>4. now <= pcm[1] + Cache + Dur + LagMax /\ LagMax \in Nat
  BY <1>2, Sizes DEF Calm
<1>5. Slept(sleep_count) <= Reach + 2 * ahead
  <2>1. lead = timeval_ - now
    BY <1>0 DEF lead, Larger
  <2>2. 2 * lead + Slept(sleep_count) <= 2 * (Stock + ahead) + 2 * Gap
    BY DEF Paced
  <2> DEFINE t == Threshold * Dur
             d == (Threshold + 1) * DelayMax
  <2>3. /\ t \in Nat /\ d \in Nat /\ Stock = t + Dur + d
        /\ Reach = 2 * (Cache + 3 * Dur + DelayMax + LagMax + d)
    BY RoomNumbers
  <2>4. timeval_ >= pcm[1] + t
    BY <1>3
  <2> HIDE DEF t, d
  <2>5. lead >= t - Cache - Dur - LagMax /\ lead \in Int
    BY <1>0, <1>2, <1>4, <2>1, <2>3, <2>4
  <2> QED BY <1>0, <1>4, <2>2, <2>3, <2>5
<1>6. sleep_count <= Longest + 2 /\ Longest \in Nat
  <2>1. sleep_count <= Longest + 1 \/ sleep_count <= Longest + 2
    BY DEF Counted, Few, OneMore
  <2>2. Longest \in Nat
    BY RoomFacts
  <2> QED BY <2>1, <2>2, <1>0
<1>7. Slept(Longest + 1) > Reach + 2 * ahead /\ Slept(Longest + 1) \in Int
  <2>1. /\ Slept(Longest + 1) > Reach + 2 * Back /\ Reach \in Nat
        /\ Slept(Longest + 1) \in Int
    BY RoomNumbers, SleptStep
  <2> QED BY <2>1, <1>0
<1>8. Slept(Longest + 2) >= Slept(Longest + 1) /\ Slept(Longest + 2) \in Int
  <2>1. /\ (Longest + 1) + 1 = Longest + 2 /\ Longest + 1 \in Int
    BY <1>6
  <2>2. /\ Slept(Longest + 2) = Slept(Longest + 1) + 2 * (Dur * (Longest + 1)) - 2 * Gap
        /\ Slept(Longest + 2) \in Int
    BY <2>1, SleptStep
  <2>3. /\ Dur * (Longest + 1) = Longest * Dur + Dur /\ Longest * Dur \in Nat
        /\ Longest * Dur >= Dur /\ 2 * DelayMax <= Dur
    BY <1>0, <1>6, RoomNumbers, Products
  <2> DEFINE w == Dur * (Longest + 1)
  <2>4. /\ w \in Int /\ w >= 2 * Dur
        /\ Slept(Longest + 2) = Slept(Longest + 1) + 2 * w - 2 * Gap
    BY <1>0, <2>2, <2>3
  <2> HIDE DEF w
  <2> QED BY <1>0, <1>7, <2>2, <2>3, <2>4
<1>9. sleep_count # Longest + 1 /\ sleep_count # Longest + 2
  <2>1. Reach \in Int
    BY RoomNumbers
  <2>2. sleep_count = Longest + 1 => Slept(Longest + 1) <= Reach + 2 * ahead
    BY <1>5
  <2>3. sleep_count = Longest + 2 => Slept(Longest + 2) <= Reach + 2 * ahead
    BY <1>5
  <2> QED BY <1>0, <1>7, <1>8, <2>1, <2>2, <2>3
<1> QED BY <1>0, <1>2, <1>3, <1>5, <1>6, <1>9

LEMMA CountedStep ==
  ASSUME Room, Inv, Below, Filled, DspRight, Paced, Counted, ~ stuck, ~ stuck', [Next]_vars
  PROVE  Counted'
<1>0. /\ clk \in Nat /\ wake \in Nat /\ busy \in Int /\ ahead \in Nat
      /\ sleep_count \in Int /\ sleep_count >= 1 /\ Slept(sleep_count) \in Int
      /\ Dur \in Nat \ {0} /\ DelayMax \in Nat /\ Gap = Dur + DelayMax
      /\ Longest \in Nat /\ Longest >= 1 /\ Longest * Dur \in Nat /\ Longest * Dur >= Dur
      /\ Reach \in Nat
  BY Numbers, Sizes, BackFacts, SleptStep, RoomNumbers DEF Inv
<1>1. Often = Reach + 2 * ahead + 2 * (Longest * Dur - Dur) /\ Often \in Nat
  BY <1>0 DEF Often
<1>2. TypeOK /\ Apart /\ (~ Calm => set = "forward")
  BY InTimeIsCalm DEF Inv
<1>3. CASE setClock
  <2>1. Few
    BY <1>3 DEF setClock, Counted
  <2>2. ahead' \in Nat /\ ahead' >= ahead /\ sleep_count' = sleep_count
    <3>1. sleep_count' = sleep_count
      BY <1>3 DEF setClock, writing
    <3> QED BY <1>2, <1>3, <3>1, ClockIsSet, RoomFacts
  <2>3. Often' = Reach + 2 * ahead' + 2 * (Longest * Dur - Dur)
    BY DEF Often
  <2> DEFINE h == ahead'
             o == Often'
  <2>4. h \in Nat /\ h >= ahead /\ o = Reach + 2 * h + 2 * (Longest * Dur - Dur)
    BY <2>2, <2>3
  <2> HIDE DEF h, o
  <2>5. Slept(sleep_count) <= o
    BY <1>0, <1>1, <2>1, <2>4 DEF Few
  <2>6. Few'
    BY <2>1, <2>2, <2>5 DEF Few, o
  <2> QED BY <2>6 DEF Counted
<1>4. ~ setClock => UNCHANGED <<adj, set, ahead, Often>>
  <2>1. ~ setClock => UNCHANGED <<adj, set>>
    BY DEF Next, vars, clock, writeListThread, playThread, writePcm, throttle, readNothing,
           take, playPcm, playFail, drop, tick, tickSlow
  <2>2. ~ setClock => ahead' = ahead
    BY <2>1 DEF ahead
  <2> QED BY <2>1, <2>2 DEF Often
<1>5. CASE throttle
  <2>0. ~ setClock /\ writer = "size" /\ writer' # "size" /\ UNCHANGED <<clk, busy, set, ahead, Often>>
    <3>1. ~ setClock
      BY <1>5 DEF throttle, setClock, writing
    <3> QED BY <1>4, <1>5, <3>1 DEF throttle, clock, playing
  <2>1. CASE Len(pcm) >= Threshold
    <3> DEFINE w == Dur * sleep_count
    <3>1. wake' = clk + w /\ sleep_count' = sleep_count + 1
      BY <1>5, <2>1 DEF throttle
    <3>2. /\ w \in Nat
          /\ Slept(sleep_count + 1) = Slept(sleep_count) + 2 * w - 2 * Gap
          /\ Slept(sleep_count + 1) \in Int
      <4>1. sleep_count + 1 \in Int
        BY <1>0
      <4> QED BY <1>0, <4>1, SleptStep, Products
    <3>3. \A m \in Nat : sleep_count <= m => w <= m * Dur
      BY <1>0, Products
    <3>4. CASE Calm
      <4>1. sleep_count <= Longest /\ Slept(sleep_count) <= Reach + 2 * ahead
        BY <1>2, <2>0, <2>1, <3>4, ThrottleBound
      <4>2. w <= Longest * Dur
        BY <1>0, <3>3, <4>1
      <4> HIDE DEF w
      <4>3. sleep_count + 1 <= Longest + 1 /\ Slept(sleep_count + 1) <= Often
        BY <1>0, <1>1, <3>2, <4>1, <4>2
      <4>4. Few'
        BY <2>0, <3>1, <4>3 DEF Few
      <4> QED BY <4>4 DEF Counted
    <3>5. CASE ~ Calm
      <4>1. Few /\ set = "forward"
        BY <1>2, <2>0, <3>5 DEF Counted
      <4>2. CASE sleep_count = 1
        <5>1. Slept(2) <= Often /\ 2 <= Longest + 1 /\ sleep_count' = 2
          BY <1>0, <1>1, <3>1, <4>2, SleptFirst
        <5>2. Few'
          BY <2>0, <5>1 DEF Few
        <5> QED BY <5>2 DEF Counted
      <4>3. CASE sleep_count # 1
        <5>1. w <= (Longest + 1) * Dur /\ (Longest + 1) * Dur = Longest * Dur + Dur
          BY <1>0, <3>3, <4>1, Products DEF Few
        <5>2. w >= 2 * Dur
          BY <1>0, <4>3, Products
        <5> HIDE DEF w
        <5>3. sleep_count + 1 <= Longest + 2 /\ Slept(sleep_count + 1) <= Often + 2 * (Longest * Dur)
          BY <1>0, <1>1, <3>2, <4>1, <5>1 DEF Few
        <5>4. clk + w > busy /\ clk + w > clk
          BY <1>0, <3>2, <5>2 DEF DspRight
        <5>5. OneMore'
          BY <2>0, <3>1, <5>3 DEF OneMore
        <5>6. writer' # "size" /\ wake' > busy' /\ wake' > clk'
          BY <2>0, <3>1, <5>4
        <5> QED BY <2>0, <4>1, <5>5, <5>6 DEF Counted
      <4> QED BY <4>2, <4>3
    <3> QED BY <3>4, <3>5
  <2>2. CASE ~ (Len(pcm) >= Threshold)
    <3>1. sleep_count' = IF sleep_count > 1 THEN sleep_count - 1 ELSE 1
      BY <1>5, <2>2 DEF throttle
    <3>2. /\ sleep_count' <= sleep_count /\ Slept(sleep_count') \in Int
          /\ Slept(sleep_count') <= Larger(Slept(sleep_count), 0)
      <4>1. CASE sleep_count > 1
        <5>1. sleep_count' = sleep_count - 1 /\ sleep_count >= 2
          BY <1>0, <3>1, <4>1
        <5>2. /\ Slept(sleep_count - 1) \in Int
              /\ Slept(sleep_count - 1) <= Larger(Slept(sleep_count), 0)
          BY <1>0, <5>1, SleptFalls
        <5> QED BY <1>0, <5>1, <5>2
      <4>2. CASE ~ (sleep_count > 1)
        BY <1>0, <3>1, <4>2, SleptFirst DEF Larger
      <4> QED BY <4>1, <4>2
    <3>3. sleep_count' \in Int
      BY <1>0, <3>1
    <3>4. CASE Few
      <4> DEFINE n == sleep_count'
      <4>1. n \in Int /\ n <= sleep_count /\ Slept(n) \in Int /\ Slept(n) <= Larger(Slept(sleep_count), 0)
        BY <3>2, <3>3
      <4> HIDE DEF n
      <4>2. n <= Longest + 1 /\ Slept(n) <= Often
        BY <1>0, <1>1, <3>4, <4>1 DEF Few, Larger
      <4>3. Few'
        BY <2>0, <4>2 DEF Few, n
      <4> QED BY <4>3 DEF Counted
    <3>5. CASE ~ Few
      <4>1. set = "forward" /\ OneMore /\ Calm
        BY <2>0, <3>5 DEF Counted
      <4>2. Calm'
        BY <1>2, <2>0, <4>1, CalmStep
      <4> DEFINE n == sleep_count'
      <4>3. n \in Int /\ n <= sleep_count /\ Slept(n) \in Int /\ Slept(n) <= Larger(Slept(sleep_count), 0)
        BY <3>2, <3>3
      <4> HIDE DEF n
      <4>4. n <= Longest + 2 /\ Slept(n) <= Often + 2 * (Longest * Dur)
        BY <1>0, <1>1, <4>1, <4>3 DEF OneMore, Larger
      <4>5. OneMore'
        BY <2>0, <4>4 DEF OneMore, n
      <4> QED BY <2>0, <4>1, <4>2, <4>5 DEF Counted
    <3> QED BY <3>4, <3>5
  <2> QED BY <2>1, <2>2
<1>6. CASE ~ setClock /\ ~ throttle
  <2>1. UNCHANGED <<sleep_count, set, Often>>
    <3>1. sleep_count' = sleep_count
      BY <1>6 DEF Next, vars, writing, writeListThread, playThread, writePcm, readNothing,
                  take, playPcm, playFail, drop, tick, tickSlow
    <3> QED BY <1>4, <1>6, <3>1
  <2>2. CASE Few
    <3>1. Few'
      BY <2>1, <2>2 DEF Few
    <3> QED BY <3>1 DEF Counted
  <2>3. CASE ~ Few
    <3>1. set = "forward" /\ OneMore /\ (Calm \/ (writer # "size" /\ wake > busy /\ wake > clk))
      BY <2>3 DEF Counted
    <3>2. set' = "forward" /\ OneMore'
      BY <2>1, <3>1 DEF OneMore
    <3>3. Calm' \/ (writer' # "size" /\ wake' > busy' /\ wake' > clk')
      <4>1. CASE Calm
        BY <1>2, <1>6, <4>1, CalmStep
      <4>2. CASE ~ Calm
        <5>1. writer # "size" /\ wake > busy /\ wake > clk
          BY <3>1, <4>2
        <5>2. CASE writePcm \/ readNothing
          BY <1>0, <5>1, <5>2 DEF writePcm, readNothing
        <5>3. CASE playPcm
          BY <1>2, <5>3, PlayingCalms
        <5>4. CASE take \/ drop \/ UNCHANGED vars
          BY <5>1, <5>4 DEF take, drop, vars, clock, writing, playing
        <5>5. CASE playFail
          BY <5>5 DEF playFail
        <5>6. CASE tick
          <6>1. playerWaits /\ clk' = clk + 1 /\ UNCHANGED <<writer, wake, busy>>
            BY <5>6 DEF tick, writing, playing
          <6>2. ~ (busy <= clk)
            BY <1>2, <4>2, <6>1, WaitingIsCalm
          <6> QED BY <1>0, <5>1, <6>1, <6>2
        <5>7. CASE tickSlow
          BY <3>1, <5>7 DEF tickSlow
        <5> QED BY <1>6, <5>2, <5>3, <5>4, <5>5, <5>6, <5>7
               DEF Next, writeListThread, playThread
      <4> QED BY <4>1, <4>2
    <3> QED BY <3>2, <3>3 DEF Counted
  <2> QED BY <2>2, <2>3
<1> QED BY <1>3, <1>5, <1>6

LEMMA LastsStep ==
  ASSUME Room, Inv, Below, Above, Filled, DspRight, Paced, Counted, Lasts, ~ stuck, ~ stuck',
         [Next]_vars
  PROVE  Lasts'
<1> SUFFICES ASSUME set' # "forward", writer' = "full", ~ (wake' <= clk')
             PROVE  (pcm' # << >> \/ holding') /\ wake' + adj' <= last' + Cache - Dur
  BY DEF Lasts
<1>0. /\ clk \in Nat /\ wake \in Nat /\ adj \in Int /\ now \in Int /\ now = clk + adj
      /\ timeval_ \in Int /\ last \in Int /\ held \in Int /\ sleep_count \in Int
      /\ Cache \in Nat /\ Dur \in Nat /\ DelayMax \in Nat /\ Gap = Dur + DelayMax
  BY Numbers, Sizes DEF Inv, now
<1>1. TypeOK
  BY DEF Inv
<1>2. CASE throttle
  <2>1. /\ writer = "size" /\ set # "forward" /\ Len(pcm) >= Threshold
        /\ UNCHANGED <<clk, adj, pcm, last>> /\ wake' = clk + Dur * sleep_count
    BY <1>2 DEF throttle, clock, playing, last
  <2>2. InTime /\ Calm
    BY <2>1, InTimeIsCalm DEF Inv
  <2>3. sleep_count <= Longest /\ pcm # << >> /\ pcm[1] \in Int /\ timeval_ >= pcm[1] + Threshold * Dur
    BY <1>1, <2>1, <2>2, ThrottleBound
  <2>4. timeval_ <= last + Gap
    BY DEF Above
  <2>5. now <= pcm[1] + Cache - Dur + LagMax /\ LagMax \in Nat
    <3>1. ~ stuck /\ held \in Int /\ pcm[1] >= held + Dur
      BY <1>0, <1>1, <2>3, NextStamp DEF Inv
    <3>2. now <= pcm[1] + Cache - Dur \/ now <= held + Cache + lag - DspSize
      BY <2>2, <2>3, <3>1 DEF InTime
    <3>3. lag \in Int /\ lag <= LagMax /\ LagMax \in Nat /\ DspSize \in Nat
      BY <1>1, LagFacts
    <3> QED BY <1>0, <2>3, <3>1, <3>2, <3>3
  <2> DEFINE w == Dur * sleep_count
             l == Longest * Dur
             t == Threshold * Dur
  <2>6. w \in Int /\ l \in Int /\ w <= l
    <3>1. \A m \in Nat : sleep_count <= m => w <= m * Dur
      BY <1>0, Products
    <3>2. w \in Int /\ Longest \in Nat /\ l \in Int
      BY <1>0, RoomNumbers, Products
    <3> QED BY <2>3, <3>1, <3>2
  <2>7. t \in Int /\ Cache + DelayMax + LagMax + 2 * Dur + 2 * l <= t + Dur /\ l >= Dur
    BY RoomNumbers
  <2>8. wake' = clk + w /\ timeval_ >= pcm[1] + t
    BY <2>1, <2>3
  <2> HIDE DEF w, l, t
  <2>9. clk + w + adj <= last + Cache - Dur
    BY <1>0, <2>3, <2>4, <2>5, <2>6, <2>7, <2>8
  <2> QED BY <2>1, <2>3, <2>8, <2>9
<1>3. CASE ~ throttle
  <2>1. writer = "full" /\ UNCHANGED wake
    BY <1>3 DEF Next, vars, writing, writeListThread, playThread, writePcm, readNothing,
                take, playPcm, playFail, drop, tick, tickSlow, setClock
  <2>2. set # "forward"
    BY DEF Next, vars, clock, writeListThread, playThread, writePcm, throttle, readNothing,
           take, playPcm, playFail, drop, tick, tickSlow, setClock
  <2>3. clk' \in Int /\ clk' >= clk
    BY <1>0 DEF Next, vars, clock, writeListThread, playThread, writePcm, throttle, readNothing,
           take, playPcm, playFail, drop, tick, tickSlow, setClock
  <2>4. (pcm # << >> \/ holding) /\ wake + adj <= last + Cache - Dur
    BY <1>0, <2>1, <2>2, <2>3 DEF Lasts
  <2>5. CASE writePcm \/ readNothing
    BY <2>5 DEF writePcm, readNothing
  <2>6. CASE take
    <3>1. last' = last /\ holding' /\ adj' = adj
      BY <1>1, <2>6, TakeFacts DEF take, clock
    <3> QED BY <2>1, <2>4, <3>1
  <2>7. CASE playPcm \/ drop
    <3>1. UNCHANGED <<pcm, held, clk, adj, last>>
      BY <2>7 DEF playPcm, drop, clock, last
    <3>2. now >= held + Cache - Dur
      <4>1. due(held) \/ tooOld(held)
        BY <2>7 DEF playPcm, drop
      <4> QED BY <4>1, <1>0 DEF due, tooOld, late
    <3>3. pcm # << >>
      <4>1. pcm = << >> => wake <= clk
        <5>1. pcm = << >> => last = held
          BY DEF last
        <5> QED BY <1>0, <2>4, <3>2, <5>1
      <4> QED BY <2>1, <3>1, <4>1
    <3> QED BY <2>1, <2>4, <3>1, <3>3
  <2>8. CASE playFail
    BY <2>8 DEF playFail
  <2>9. CASE tick \/ tickSlow \/ UNCHANGED vars
    BY <2>4, <2>9 DEF tick, tickSlow, vars, clock, writing, playing, last
  <2>10. CASE setClock
    <3>1. UNCHANGED <<pcm, holding, wake, last>>
      BY <2>10 DEF setClock, writing, playing, last
    <3>2. adj' \in Int /\ adj' <= adj
      BY <1>1, <2>10, ClockIsSet
    <3> DEFINE a == adj'
    <3>3. a \in Int /\ a <= adj
      BY <3>2
    <3> HIDE DEF a
    <3>4. wake + a <= last + Cache - Dur
      BY <1>0, <2>4, <3>3
    <3> QED BY <2>4, <3>1, <3>4 DEF a
  <2> QED BY <1>3, <2>5, <2>6, <2>7, <2>8, <2>9, <2>10 DEF Next, writeListThread, playThread
<1> QED BY <1>2, <1>3

LEMMA InitThrottled ==
  ASSUME Room, Init
  PROVE  Throttled
<1>1. Inv /\ TypeOK
  BY InitInv DEF Inv
<1>2. Dur \in Nat /\ Gap \in Nat /\ DspSize \in Nat /\ Gap = Dur + DelayMax
      /\ Threshold \in Nat /\ Threshold >= 1 /\ DelayMax \in Nat
  BY Sizes, RoomFacts DEF RoomFor
<1>3. pcm = << >> /\ Len(pcm) = 0 /\ last = -Dur /\ held = -Dur /\ ahead = 0 /\ now = 0 /\ top = 0
      /\ timeval_ = 0 /\ sleep_count = 1 /\ lead = 0 /\ clk = 0 /\ ~ holding /\ ~ stuck
  BY DEF Init, last, ahead, now, top, lead, Larger
<1>4. Below
  BY <1>3 DEF Below
<1>5. Above
  <2>1. (0 + 1) * Gap = Gap
    BY <1>2
  <2> QED BY <1>2, <1>3, <2>1 DEF Above, Larger
<1>6. DspRight
  BY <1>2 DEF Init, DspRight, Larger
<1>7. Filled
  BY <1>2, <1>3 DEF Init, Filled
<1>8. Paced
  BY <1>2, <1>3, SleptFirst, RoomNumbers DEF Init, Paced
<1>9. Counted
  <2>1. /\ Reach \in Nat /\ Longest \in Nat /\ Longest >= 1 /\ Longest * Dur \in Nat
        /\ Longest * Dur >= Dur
    BY RoomNumbers
  <2> DEFINE l == Longest * Dur
  <2>2. l \in Nat /\ l >= Dur /\ Often = Reach + 2 * ahead + 2 * (l - Dur)
    BY <2>1 DEF Often
  <2> HIDE DEF l
  <2>3. Often >= 0 /\ 1 <= Longest + 1
    BY <1>2, <1>3, <2>1, <2>2
  <2> QED BY <1>3, <2>3, SleptFirst DEF Counted, Few
<1>10. Lasts
  BY DEF Init, Lasts
<1>11. ~ refused
  BY DEF Init
<1> QED BY <1>1, <1>3, <1>4, <1>5, <1>6, <1>7, <1>8, <1>9, <1>10, <1>11 DEF Throttled, Steady

LEMMA ThrottledStep ==
  ASSUME Room, Throttled, [Next]_vars
  PROVE  Throttled'
<1>1. TypeOK /\ Apart /\ Inv
  BY DEF Throttled, Inv
<1>2. Inv' /\ Below' /\ Filled'
  BY <1>1, TypeStep, ApartStep, InTimeStep, BelowStep, FilledStep DEF Throttled, Inv
<1>3. CASE stuck
  <2>1. stuck' /\ holding'
    BY <1>3 DEF Throttled, Next, vars, playing, writeListThread, playThread, writePcm, throttle,
                readNothing, take, playPcm, playFail, drop, ready, tick, tickSlow, setClock
  <2> QED BY <1>2, <2>1 DEF Throttled
<1>4. CASE ~ stuck
  <2>1. stuck' => holding'
    <3>1. CASE playFail
      BY <3>1 DEF playFail
    <3>2. CASE ~ playFail
      BY <1>4, <3>2 DEF Next, vars, playing, writeListThread, playThread, writePcm, throttle,
                        readNothing, take, playPcm, drop, tick, tickSlow, setClock
    <3> QED BY <3>1, <3>2
  <2>2. ASSUME ~ stuck' PROVE Steady'
    <3>1. ~ refused /\ Above /\ DspRight /\ Paced /\ Counted /\ Lasts /\ Below /\ Filled
      BY <1>4 DEF Throttled, Steady
    <3>2. writer # "size" => Len(pcm) < Capacity
      BY <1>1, <3>1, NotFull
    <3>3. ~ refused'
      <4>1. CASE writePcm
        <5>1. Len(pcm) < Capacity
          BY <3>2, <4>1 DEF writePcm
        <5> QED BY <1>1, <3>1, <4>1, <5>1, WriteFacts
      <4>2. CASE ~ writePcm
        BY <3>1, <4>2 DEF Next, vars, history, writeListThread, playThread, throttle,
                readNothing, take, playPcm, playFail, drop, tick, tickSlow, setClock
      <4> QED BY <4>1, <4>2
    <3>4. Above'
      BY <1>1, <3>1, <3>2, AboveStep
    <3>5. DspRight'
      BY <1>1, <3>1, DspStep
    <3>6. Paced'
      BY <1>1, <3>1, <3>2, PacedStep
    <3>7. Counted'
      BY <1>1, <1>4, <2>2, <3>1, CountedStep
    <3>8. Lasts'
      BY <1>1, <1>4, <2>2, <3>1, LastsStep
    <3> QED BY <3>3, <3>4, <3>5, <3>6, <3>7, <3>8 DEF Steady
  <2> QED BY <1>2, <2>1, <2>2 DEF Throttled
<1> QED BY <1>3, <1>4

LEMMA Throttling ==
  ASSUME Room
  PROVE  Spec => []Throttled
<1>1. Init => Throttled
  BY InitThrottled
<1>2. Throttled /\ [Next]_vars => Throttled'
  BY ThrottledStep
<1> QED BY <1>1, <1>2, PTL DEF Spec

\* However fast the pipe is, a buffer is free for every chunk that is read: the
\* list is never so long that a refusal nobody looks at (TcpServer.cpp:415)
\* would lose a chunk of the sound, unless playThread loops over a failed DSP.
\* Room asks that the list is big enough for the cache and for how far the clock
\* may be set back; the source's sizes are (RoomInTheSource).
THEOREM ListHasRoom ==
  ASSUME Room
  PROVE  Spec => []NothingRefused
<1>1. Throttled => NothingRefused
  BY DEF Throttled, Steady, NothingRefused
<1> QED BY <1>1, Throttling, PTL

\* The writer's sleep over a full list ends while a chunk is still waiting or
\* playing (TcpServer.cpp:437-440), unless the clock is set forward; with Room
\* as in ListHasRoom.
THEOREM SleepNeverStarves ==
  ASSUME Room
  PROVE  Spec => []ThrottleNeverStarves
<1>1. Throttled => ThrottleNeverStarves
  <2> SUFFICES ASSUME Throttled, writer = "full", clk < wake, set # "forward"
               PROVE  pcm # << >> \/ holding
    BY DEF ThrottleNeverStarves
  <2>1. CASE stuck
    BY <2>1 DEF Throttled
  <2>2. CASE ~ stuck
    <3>1. clk \in Nat /\ wake \in Nat
      BY Numbers DEF Throttled, Inv
    <3> QED BY <2>2, <3>1 DEF Throttled, Steady, Lasts
  <2> QED BY <2>1, <2>2
<1> QED BY <1>1, Throttling, PTL

-----------------------------------------------------------------------------
\* The chunk list: the two moves of a buffer between the lists, as facts on sequences.

LEMMA TailElements ==
  ASSUME NEW S, NEW s \in Seq(S), s # << >>
  PROVE  /\ Len(s) \in Nat \ {0}
         /\ Head(s) = s[1] /\ Head(s) \in S
         /\ Tail(s) \in Seq(S)
         /\ Len(Tail(s)) = Len(s) - 1
         /\ \A i \in 1 .. Len(s) - 1 : Tail(s)[i] = s[i + 1]
<1>1. Head(s) = s[1]
  OBVIOUS
<1>. QED BY <1>1, EmptySeq, HeadTailProperties

LEMMA AppendElements ==
  ASSUME NEW S, NEW s \in Seq(S), NEW e \in S
  PROVE  /\ Append(s, e) \in Seq(S)
         /\ Len(s) \in Nat
         /\ Len(Append(s, e)) = Len(s) + 1
         /\ \A i \in 1 .. Len(s) + 1 :
              Append(s, e)[i] = IF i = Len(s) + 1 THEN e ELSE s[i]
<1>1. \A i \in 1 .. Len(s) + 1 : i = Len(s) + 1 \/ i \in 1 .. Len(s)
  BY LenProperties
<1>. QED BY <1>1, AppendProperties, LenProperties

LEMMA RotateElements ==
  ASSUME NEW S, NEW s \in Seq(S), s # << >>, NEW e \in S
  PROVE  /\ Append(Tail(s), e) \in Seq(S)
         /\ Len(Append(Tail(s), e)) = Len(s)
         /\ \A i \in 1 .. Len(s) :
              Append(Tail(s), e)[i] = IF i = Len(s) THEN e ELSE s[i + 1]
<1>1. PICK t \in Seq(S) : t = Tail(s)
  BY TailElements
<1>2. /\ Len(s) \in Nat \ {0} /\ Len(t) = Len(s) - 1
      /\ \A i \in 1 .. Len(s) - 1 : t[i] = s[i + 1]
  BY <1>1, TailElements
<1>3. /\ Append(t, e) \in Seq(S) /\ Len(Append(t, e)) = Len(t) + 1
      /\ \A i \in 1 .. Len(t) + 1 :
           Append(t, e)[i] = IF i = Len(t) + 1 THEN e ELSE t[i]
  BY AppendElements
<1>4. \A i \in 1 .. Len(s) : Append(t, e)[i] = IF i = Len(s) THEN e ELSE s[i + 1]
  <2> TAKE i \in 1 .. Len(s)
  <2>1. i = Len(s) \/ i \in 1 .. Len(s) - 1
    BY <1>2
  <2>. QED BY <1>2, <1>3, <2>1
<1>5. Append(t, e) \in Seq(S) /\ Len(Append(t, e)) = Len(s)
  BY <1>2, <1>3
<1>6. Append(Tail(s), e) = Append(t, e)
  BY <1>1
<1>. QED BY <1>4, <1>5, <1>6, Zenon

LEMMA PrependElements ==
  ASSUME NEW S, NEW s \in Seq(S), NEW e \in S
  PROVE  /\ <<e>> \o s \in Seq(S)
         /\ Len(s) \in Nat
         /\ Len(<<e>> \o s) = Len(s) + 1
         /\ \A i \in 1 .. Len(s) + 1 :
              (<<e>> \o s)[i] = IF i = 1 THEN e ELSE s[i - 1]
<1>1. /\ <<e>> \in Seq(S) /\ Len(<<e>>) = 1 /\ <<e>>[1] = e
  OBVIOUS
<1>2. Len(s) \in Nat
  BY LenProperties
<1>3. /\ <<e>> \o s \in Seq(S)
      /\ Len(<<e>> \o s) = 1 + Len(s)
      /\ \A i \in 1 .. 1 + Len(s) :
           (<<e>> \o s)[i] = IF i <= 1 THEN <<e>>[i] ELSE s[i - 1]
  BY <1>1, ConcatProperties
<1>4. \A i \in 1 .. Len(s) + 1 : i <= 1 <=> i = 1
  BY <1>2
<1>. QED BY <1>1, <1>2, <1>3, <1>4

-----------------------------------------------------------------------------
\* A buffer that moves from the front of one list to an end of the other.

LEMMA PartedSym ==
  ASSUME NEW p \in Seq(Buffers), NEW d \in Seq(Buffers), Parted(p, d)
  PROVE  Parted(d, p)
<1>1. Len(p) \in Nat /\ Len(d) \in Nat
  BY LenProperties
<1>. QED BY <1>1 DEF Parted

LEMMA MoveToTail ==
  ASSUME NEW p \in Seq(Buffers), NEW d \in Seq(Buffers), Parted(p, d), p # << >>
  PROVE  Parted(Tail(p), Append(d, Head(p)))
<1>1. /\ Len(p) \in Nat \ {0} /\ Head(p) = p[1] /\ Head(p) \in Buffers
      /\ Len(Tail(p)) = Len(p) - 1
      /\ \A i \in 1 .. Len(p) - 1 : Tail(p)[i] = p[i + 1]
  BY TailElements
<1>2. /\ Len(d) \in Nat
      /\ Len(Append(d, Head(p))) = Len(d) + 1
      /\ \A i \in 1 .. Len(d) + 1 :
           Append(d, Head(p))[i] = IF i = Len(d) + 1 THEN p[1] ELSE d[i]
  <2>1. Head(p) \in Buffers
    BY <1>1
  <2>2. /\ Len(d) \in Nat
        /\ Len(Append(d, Head(p))) = Len(d) + 1
        /\ \A i \in 1 .. Len(d) + 1 :
             Append(d, Head(p))[i] = IF i = Len(d) + 1 THEN Head(p) ELSE d[i]
    BY <2>1, AppendElements
  <2>. QED BY <1>1, <2>2
<1>3. \A i, j \in 1 .. Len(p) : p[i] = p[j] => i = j
  BY DEF Parted, Distinct
<1>4. Distinct(Tail(p))
  BY <1>1, <1>3 DEF Distinct
<1>5. Distinct(Append(d, Head(p)))
  BY <1>1, <1>2 DEF Parted, Distinct
<1>6. \A i \in 1 .. Len(Tail(p)), j \in 1 .. Len(Append(d, Head(p))) :
        Tail(p)[i] # Append(d, Head(p))[j]
  BY <1>1, <1>2, <1>3 DEF Parted
<1>7. Len(Tail(p)) + Len(Append(d, Head(p))) = Count
  <2>1. Len(p) + Len(d) = Count
    BY DEF Parted
  <2>2. /\ Len(p) \in Nat /\ Len(Tail(p)) = Len(p) - 1
        /\ Len(d) \in Nat /\ Len(Append(d, Head(p))) = Len(d) + 1
    BY <1>1, <1>2
  <2> QED BY <2>1, <2>2
<1>. QED BY <1>4, <1>5, <1>6, <1>7 DEF Parted

LEMMA MoveToHead ==
  ASSUME NEW p \in Seq(Buffers), NEW d \in Seq(Buffers), Parted(p, d), p # << >>
  PROVE  Parted(Tail(p), <<Head(p)>> \o d)
<1>1. /\ Len(p) \in Nat \ {0} /\ Head(p) = p[1] /\ Head(p) \in Buffers
      /\ Len(Tail(p)) = Len(p) - 1
      /\ \A i \in 1 .. Len(p) - 1 : Tail(p)[i] = p[i + 1]
  BY TailElements
<1>2. /\ Len(d) \in Nat
      /\ Len(<<Head(p)>> \o d) = Len(d) + 1
      /\ \A i \in 1 .. Len(d) + 1 :
           (<<Head(p)>> \o d)[i] = IF i = 1 THEN p[1] ELSE d[i - 1]
  BY <1>1, PrependElements
<1>3. \A i, j \in 1 .. Len(p) : p[i] = p[j] => i = j
  BY DEF Parted, Distinct
<1>4. Distinct(Tail(p))
  BY <1>1, <1>3 DEF Distinct
<1>5. Distinct(<<Head(p)>> \o d)
  BY <1>1, <1>2 DEF Parted, Distinct
<1>6. \A i \in 1 .. Len(Tail(p)), j \in 1 .. Len(<<Head(p)>> \o d) :
        Tail(p)[i] # (<<Head(p)>> \o d)[j]
  BY <1>1, <1>2, <1>3 DEF Parted
<1>7. Len(Tail(p)) + Len(<<Head(p)>> \o d) = Count
  <2>1. Len(p) + Len(d) = Count
    BY DEF Parted
  <2>2. /\ Len(p) \in Nat /\ Len(Tail(p)) = Len(p) - 1
        /\ Len(d) \in Nat /\ Len(<<Head(p)>> \o d) = Len(d) + 1
    BY <1>1, <1>2
  <2> QED BY <2>1, <2>2
<1>. QED BY <1>4, <1>5, <1>6, <1>7 DEF Parted

\* writeToTail on an empty pool: freeing the front and allocating it again
\* turns the list round by one buffer.
LEMMA Rotate ==
  ASSUME NEW p \in Seq(Buffers), NEW d \in Seq(Buffers), Parted(p, d), p = << >>
  PROVE  d # << >> /\ Parted(p, Append(Tail(d), Head(d)))
<1>1. d # << >>
  BY EmptySeq, CountAssumption DEF Parted
<1>2. Parted(Tail(d), Append(p, Head(d)))
  BY <1>1, PartedSym, MoveToTail
<1>3. /\ Head(d) \in Buffers /\ Tail(d) \in Seq(Buffers)
      /\ Append(p, Head(d)) = <<Head(d)>>
      /\ <<Head(d)>> \in Seq(Buffers) /\ <<Head(d)>> # << >>
      /\ Head(<<Head(d)>>) = Head(d) /\ Tail(<<Head(d)>>) = << >>
  BY <1>1, TailElements
<1>4. Parted(<<Head(d)>>, Tail(d))
  BY <1>2, <1>3, PartedSym
<1>. QED BY <1>1, <1>3, <1>4, MoveToTail

LEMMA PartedInit == Parted([b \in Buffers |-> b], << >>)
BY CountAssumption DEF Parted, Distinct, Buffers

LEMMA BuffersSeq == [b \in Buffers |-> b] \in Seq(Buffers)
BY CountAssumption DEF Buffers

-----------------------------------------------------------------------------
\* The inductive invariant: typing, and the partition of the buffers.
ListInv == ListTypeOK /\ BuffersPartition

LEMMA ListInvInit == ListInit => ListInv
BY PartedInit, BuffersSeq DEF ListInit, ListInv, ListTypeOK, BuffersPartition

LEMMA ListInvNext == ListInv /\ [ListNext]_listVars => ListInv'
<1> SUFFICES ASSUME ListInv, [ListNext]_listVars PROVE ListInv'
  OBVIOUS
<1> USE DEF ListInv, ListTypeOK, BuffersPartition
<1>1. ASSUME pool # << >>
      PROVE  /\ Head(pool) \in Buffers /\ Tail(pool) \in Seq(Buffers)
             /\ Append(data_list, Head(pool)) \in Seq(Buffers)
             /\ <<Head(pool)>> \o data_list \in Seq(Buffers)
  BY <1>1, TailElements, AppendElements, PrependElements
<1>2. ASSUME data_list # << >>
      PROVE  /\ Head(data_list) \in Buffers /\ Tail(data_list) \in Seq(Buffers)
             /\ Append(pool, Head(data_list)) \in Seq(Buffers)
             /\ Append(Tail(data_list), Head(data_list)) \in Seq(Buffers)
  BY <1>2, TailElements, AppendElements
<1>3. ASSUME NEW c \in Chunks, write(c) PROVE ListInv'
  BY <1>3, <1>1, MoveToTail DEF write, malloc
<1>4. ASSUME NEW c \in Chunks, writeToHead(c) PROVE ListInv'
  BY <1>4, <1>1, MoveToHead DEF writeToHead, malloc
<1>5. ASSUME NEW c \in Chunks, writeToTail(c) PROVE ListInv'
  <2>1. CASE pool = << >> /\ ~ write(c)
    BY <1>5, <1>2, <2>1, Rotate DEF writeToTail
  <2>. QED BY <1>5, <1>3, <2>1 DEF writeToTail
<1>6. ASSUME popFront, out' \in Chunks \union {NoChunk} PROVE ListInv'
  BY <1>6, <1>2, PartedSym, MoveToTail DEF popFront, free
<1>7. CASE read
  BY <1>7, <1>2, <1>6 DEF read, popFront
<1>8. ASSUME NEW timeout \in {-51, -50, 50, 51}, checkData(timeout) PROVE ListInv'
  BY <1>8, <1>2, <1>6 DEF checkData, popFront
<1>9. CASE reInit
  BY <1>9, PartedInit, BuffersSeq DEF reInit
<1>10. CASE UNCHANGED listVars
  BY <1>10 DEF listVars
<1>. QED BY <1>3, <1>4, <1>5, <1>7, <1>8, <1>9, <1>10 DEF ListNext

\* The list and the pool only ever hold buffers of the array, and a buffer a
\* chunk, for every size of the pool (DataList.h:88-183, ArrayPool.h).
THEOREM ListTypeCorrect == ListSpec => []ListTypeOK
<1>1. ListInv => ListTypeOK BY DEF ListInv
<1>. QED BY <1>1, ListInvInit, ListInvNext, PTL DEF ListSpec

\* No sequence of calls of any threads leaks, doubles or loses a buffer.
THEOREM NoBufferLost == ListSpec => []BuffersPartition
<1>1. ListInv => BuffersPartition BY DEF ListInv
<1>. QED BY <1>1, ListInvInit, ListInvNext, PTL DEF ListSpec

-----------------------------------------------------------------------------
\* Refinement.  The queued chunks as a sequence of their own.
QueuedOK ==
  /\ Queued \in Seq(Chunks \union {NoChunk})
  /\ Len(Queued) = Len(data_list) /\ Len(data_list) \in Nat
  /\ \A i \in 1 .. Len(data_list) : Queued[i] = content[data_list[i]]
  /\ Queued = << >> <=> data_list = << >>

LEMMA QueuedSeq == ListInv => QueuedOK
<1> SUFFICES ASSUME ListInv PROVE QueuedOK
  OBVIOUS
<1>1. /\ Len(data_list) \in Nat
      /\ \A i \in 1 .. Len(data_list) : data_list[i] \in Buffers
  BY LenProperties, ElementOfSeq DEF ListInv, ListTypeOK
<1>2. /\ Queued \in Seq(Chunks \union {NoChunk})
      /\ Len(Queued) = Len(data_list)
      /\ \A i \in 1 .. Len(data_list) : Queued[i] = content[data_list[i]]
  BY <1>1 DEF ListInv, ListTypeOK, Queued
<1>3. Queued = << >> <=> data_list = << >>
  BY <1>1, <1>2, EmptySeq DEF ListInv, ListTypeOK
<1>. QED BY <1>1, <1>2, <1>3 DEF QueuedOK

LEMMA QueuedSeqNext == ListInv' => QueuedOK'
BY QueuedSeq, PTL

\* The buffer malloc returns is none of the queued ones, so filling it leaves
\* every queued chunk alone.
LEMMA FreshBuffer ==
  ASSUME ListInv, pool # << >>
  PROVE  /\ Head(pool) \in Buffers
         /\ Len(data_list) < Count
         /\ \A i \in 1 .. Len(data_list) : data_list[i] # Head(pool)
<1>1. Head(pool) = pool[1] /\ Head(pool) \in Buffers /\ Len(pool) \in Nat \ {0}
  BY TailElements DEF ListInv, ListTypeOK
<1>2. Len(data_list) \in Nat
  BY LenProperties DEF ListInv, ListTypeOK
<1>. QED BY <1>1, <1>2, CountAssumption DEF ListInv, BuffersPartition, Parted

LEMMA RefineWrite ==
  ASSUME ListInv, ListInv', NEW c \in Chunks, write(c)
  PROVE  A!Put(c)
<1>1. /\ pool # << >> /\ data_list' = Append(data_list, Head(pool))
      /\ content' = [content EXCEPT ![Head(pool)] = c]
  BY DEF write, malloc
<1>2. /\ Head(pool) \in Buffers /\ Len(data_list) < Count
      /\ \A i \in 1 .. Len(data_list) : data_list[i] # Head(pool)
  BY <1>1, FreshBuffer
<1>3. /\ Len(data_list') = Len(data_list) + 1
      /\ \A i \in 1 .. Len(data_list) + 1 :
           data_list'[i] = IF i = Len(data_list) + 1 THEN Head(pool)
                                                     ELSE data_list[i]
  BY <1>1, <1>2, AppendElements DEF ListInv, ListTypeOK
<1>4. /\ QueuedOK /\ QueuedOK'
  BY QueuedSeq, QueuedSeqNext
<1>5. /\ Append(Queued, c) \in Seq(Chunks \union {NoChunk})
      /\ Len(Append(Queued, c)) = Len(data_list) + 1
      /\ \A i \in 1 .. Len(data_list) + 1 :
           Append(Queued, c)[i] = IF i = Len(data_list) + 1 THEN c
                                                            ELSE Queued[i]
  <2>1. c \in Chunks \union {NoChunk}
    OBVIOUS
  <2>2. Queued \in Seq(Chunks \union {NoChunk}) /\ Len(Queued) = Len(data_list)
    BY <1>4 DEF QueuedOK
  <2>. QED BY <2>1, <2>2, AppendElements
<1>6. \A i \in 1 .. Len(data_list) :
        data_list[i] \in Buffers /\ content'[data_list[i]] = content[data_list[i]]
  BY <1>1, <1>2, ElementOfSeq DEF ListInv, ListTypeOK
<1>7. content'[Head(pool)] = c
  BY <1>1, <1>2 DEF ListInv, ListTypeOK
<1>8. \A i \in 1 .. Len(data_list) + 1 : Queued'[i] = Append(Queued, c)[i]
  <2> TAKE i \in 1 .. Len(data_list) + 1
  <2>1. CASE i = Len(data_list) + 1
    BY <2>1, <1>3, <1>4, <1>5, <1>7 DEF QueuedOK
  <2>2. CASE i \in 1 .. Len(data_list)
    BY <2>2, <1>3, <1>4, <1>5, <1>6 DEF QueuedOK
  <2>. QED BY <2>1, <2>2, <1>4 DEF QueuedOK
<1>9. Queued' = Append(Queued, c)
  BY <1>3, <1>4, <1>5, <1>8, SeqEqual DEF QueuedOK
<1>. QED BY <1>2, <1>4, <1>9 DEF A!Put, write, QueuedOK

LEMMA RefineWriteToHead ==
  ASSUME ListInv, ListInv', NEW c \in Chunks, writeToHead(c)
  PROVE  A!PutFirst(c)
<1>1. /\ pool # << >> /\ data_list' = <<Head(pool)>> \o data_list
      /\ content' = [content EXCEPT ![Head(pool)] = c]
  BY DEF writeToHead, malloc
<1>2. /\ Head(pool) \in Buffers /\ Len(data_list) < Count
      /\ \A i \in 1 .. Len(data_list) : data_list[i] # Head(pool)
  BY <1>1, FreshBuffer
<1>3. /\ Len(data_list') = Len(data_list) + 1
      /\ \A i \in 1 .. Len(data_list) + 1 :
           data_list'[i] = IF i = 1 THEN Head(pool) ELSE data_list[i - 1]
  BY <1>1, <1>2, PrependElements DEF ListInv, ListTypeOK
<1>4. /\ QueuedOK /\ QueuedOK'
  BY QueuedSeq, QueuedSeqNext
<1>5. /\ <<c>> \o Queued \in Seq(Chunks \union {NoChunk})
      /\ Len(<<c>> \o Queued) = Len(data_list) + 1
      /\ \A i \in 1 .. Len(data_list) + 1 :
           (<<c>> \o Queued)[i] = IF i = 1 THEN c ELSE Queued[i - 1]
  <2>1. c \in Chunks \union {NoChunk}
    OBVIOUS
  <2>. QED BY <2>1, <1>4, PrependElements DEF QueuedOK
<1>6. \A i \in 1 .. Len(data_list) :
        data_list[i] \in Buffers /\ content'[data_list[i]] = content[data_list[i]]
  BY <1>1, <1>2, ElementOfSeq DEF ListInv, ListTypeOK
<1>7. content'[Head(pool)] = c
  BY <1>1, <1>2 DEF ListInv, ListTypeOK
<1>8. \A i \in 1 .. Len(data_list) + 1 : Queued'[i] = (<<c>> \o Queued)[i]
  <2> TAKE i \in 1 .. Len(data_list) + 1
  <2>1. CASE i = 1
    BY <2>1, <1>3, <1>4, <1>5, <1>7 DEF QueuedOK
  <2>2. CASE i - 1 \in 1 .. Len(data_list)
    <3> DEFINE j == i - 1
    <3>1. j \in 1 .. Len(data_list) /\ i # 1 /\ i \in 1 .. Len(data_list')
      BY <2>2, <1>3, <1>4 DEF QueuedOK
    <3>2. Queued'[i] = content'[data_list'[i]] /\ Queued[j] = content[data_list[j]]
      BY <3>1, <1>4 DEF QueuedOK
    <3>3. data_list'[i] = data_list[j] /\ (<<c>> \o Queued)[i] = Queued[j]
      BY <3>1, <1>3, <1>5
    <3>. QED BY <3>1, <3>2, <3>3, <1>6
  <2>. QED BY <2>1, <2>2, <1>4 DEF QueuedOK
<1>9. Queued' = <<c>> \o Queued
  <2>1. /\ Queued' \in Seq(Chunks \union {NoChunk}) /\ Len(Queued') = Len(data_list) + 1
    BY <1>3, <1>4 DEF QueuedOK
  <2> DEFINE q == Queued'
             t == <<c>> \o Queued
  <2>2. /\ q \in Seq(Chunks \union {NoChunk}) /\ t \in Seq(Chunks \union {NoChunk})
        /\ Len(q) = Len(t) /\ \A i \in 1 .. Len(q) : q[i] = t[i]
    BY <2>1, <1>5, <1>8
  <2> HIDE DEF q, t
  <2>3. q = t
    BY <2>2, SeqEqual
  <2>. QED BY <2>3 DEF q, t
<1>. QED BY <1>2, <1>4, <1>9 DEF A!PutFirst, writeToHead, QueuedOK

\* The chunk writeToTail writes takes the buffer of the chunk it gives up.
LEMMA RefineEvict ==
  ASSUME ListInv, ListInv', NEW c \in Chunks, writeToTail(c), pool = << >>
  PROVE  A!PutEvicting(c)
<1> DEFINE n == Len(data_list)
<1>1. /\ data_list # << >>
      /\ data_list' = Append(Tail(data_list), Head(data_list))
      /\ content' = [content EXCEPT ![Head(data_list)] = c]
      /\ out' = out
  BY Rotate DEF writeToTail, write, malloc, ListInv, ListTypeOK, BuffersPartition
<1>2. /\ n \in Nat \ {0} /\ Head(data_list) \in Buffers
      /\ Head(data_list) = data_list[1]
  BY <1>1, TailElements DEF ListInv, ListTypeOK
<1>3. /\ Len(data_list') = n
      /\ \A i \in 1 .. n :
           data_list'[i] = IF i = n THEN data_list[1] ELSE data_list[i + 1]
  BY <1>1, <1>2, RotateElements DEF ListInv, ListTypeOK
<1>4. n = Count
  BY <1>2 DEF ListInv, BuffersPartition, Parted
<1>5. /\ QueuedOK /\ QueuedOK'
  BY QueuedSeq, QueuedSeqNext
<1>6. Queued \in Seq(Chunks \union {NoChunk}) /\ Queued # << >> /\ Len(Queued) = n
  BY <1>1, <1>5 DEF QueuedOK
<1>7. /\ Append(Tail(Queued), c) \in Seq(Chunks \union {NoChunk})
      /\ Len(Append(Tail(Queued), c)) = n
      /\ \A i \in 1 .. n :
           Append(Tail(Queued), c)[i] = IF i = n THEN c ELSE Queued[i + 1]
  <2>1. c \in Chunks \union {NoChunk}
    OBVIOUS
  <2>. QED BY <2>1, <1>6, RotateElements
<1>8. \A i \in 1 .. n - 1 :
        /\ data_list[i + 1] \in Buffers
        /\ content'[data_list[i + 1]] = content[data_list[i + 1]]
  <2> TAKE i \in 1 .. n - 1
  <2>1. 1 \in 1 .. n /\ i + 1 \in 1 .. n /\ i + 1 # 1
    BY <1>2
  <2>2. data_list[i + 1] # data_list[1]
    BY <2>1 DEF ListInv, BuffersPartition, Parted, Distinct
  <2>3. data_list[i + 1] \in Buffers
    BY <2>1, ElementOfSeq DEF ListInv, ListTypeOK
  <2>. QED BY <1>1, <1>2, <2>2, <2>3 DEF ListInv, ListTypeOK
<1>9. content'[data_list[1]] = c
  BY <1>1, <1>2 DEF ListInv, ListTypeOK
<1>10. \A i \in 1 .. n : Queued'[i] = Append(Tail(Queued), c)[i]
  <2> TAKE i \in 1 .. n
  <2>1. CASE i = n
    BY <2>1, <1>3, <1>5, <1>7, <1>9 DEF QueuedOK
  <2>2. CASE i \in 1 .. n - 1
    <3>1. i # n /\ i + 1 \in 1 .. n
      BY <2>2, <1>2
    <3>2. Queued'[i] = content'[data_list[i + 1]]
      BY <3>1, <1>3, <1>5 DEF QueuedOK
    <3>. QED BY <2>2, <3>1, <3>2, <1>5, <1>7, <1>8 DEF QueuedOK
  <2>3. i = n \/ i \in 1 .. n - 1
    BY <1>2
  <2>. QED BY <2>1, <2>2, <2>3
<1>11. Queued' = Append(Tail(Queued), c)
  BY <1>3, <1>5, <1>7, <1>10, SeqEqual DEF QueuedOK
<1>. QED BY <1>1, <1>4, <1>5, <1>11 DEF A!PutEvicting, QueuedOK

LEMMA RefinePopFront ==
  ASSUME ListInv, ListInv', popFront
  PROVE  /\ Queued # << >> /\ Queued' = Tail(Queued)
         /\ content[Head(data_list)] = Head(Queued)
<1> DEFINE n == Len(data_list)
<1>1. /\ data_list # << >> /\ data_list' = Tail(data_list)
      /\ content' = content
  BY DEF popFront
<1>2. /\ n \in Nat \ {0} /\ Head(data_list) = data_list[1]
      /\ Len(data_list') = n - 1
      /\ \A i \in 1 .. n - 1 : data_list'[i] = data_list[i + 1]
  BY <1>1, TailElements DEF ListInv, ListTypeOK
<1>3. /\ QueuedOK /\ QueuedOK'
  BY QueuedSeq, QueuedSeqNext
<1>4. /\ Queued # << >> /\ Head(Queued) = Queued[1]
      /\ Tail(Queued) \in Seq(Chunks \union {NoChunk}) /\ Len(Tail(Queued)) = n - 1
      /\ \A i \in 1 .. n - 1 : Tail(Queued)[i] = Queued[i + 1]
  BY <1>1, <1>3, TailElements DEF QueuedOK
<1>5. \A i \in 1 .. n - 1 : Queued'[i] = Tail(Queued)[i]
  <2> TAKE i \in 1 .. n - 1
  <2>1. i + 1 \in 1 .. n /\ i \in 1 .. Len(data_list')
    BY <1>2
  <2>2. Queued'[i] = content'[data_list'[i]] /\ Queued[i + 1] = content[data_list[i + 1]]
    BY <2>1, <1>3 DEF QueuedOK
  <2>. QED BY <2>1, <2>2, <1>1, <1>2, <1>4
<1>6. Queued' = Tail(Queued)
  BY <1>2, <1>3, <1>4, <1>5, SeqEqual DEF QueuedOK
<1>. QED BY <1>2, <1>3, <1>4, <1>6 DEF QueuedOK

\* DataList over its pool is one bounded FIFO: chunks come out in list order
\* as they went in, write refuses and writeToTail evicts at Count chunks.
THEOREM ListImplementsFifo == ListSpec => ImplementsBoundedFifo
<1>1. ListInit => A!Init
  BY DEF ListInit, A!Init, Queued
<1>2. ListInv /\ ListInv' /\ [ListNext]_listVars => [A!Next]_A!vars
  <2> SUFFICES ASSUME ListInv, ListInv', [ListNext]_listVars PROVE [A!Next]_A!vars
    OBVIOUS
  <2>1. ASSUME NEW c \in Chunks, write(c) PROVE A!Next
    BY <2>1, RefineWrite DEF A!Next
  <2>2. ASSUME NEW c \in Chunks, writeToHead(c) PROVE A!Next
    BY <2>2, RefineWriteToHead DEF A!Next
  <2>3. ASSUME NEW c \in Chunks, writeToTail(c) PROVE A!Next
    BY <2>1, <2>3, RefineEvict DEF writeToTail, A!Next
  <2>4. CASE read
    BY <2>4, RefinePopFront DEF read, A!Take, A!Next
  <2>5. ASSUME NEW timeout \in {-51, -50, 50, 51}, checkData(timeout) PROVE A!Next
    <3>1. popFront /\ (out' = out \/ out' = content[Head(data_list)])
      BY <2>5 DEF checkData
    <3>. QED BY <3>1, RefinePopFront DEF A!Take, A!Drop, A!Next
  <2>6. CASE reInit
    BY <2>6 DEF reInit, A!Reset, A!Next, Queued
  <2>7. CASE UNCHANGED listVars
    BY <2>7 DEF listVars, A!vars, Queued
  <2>. QED BY <2>1, <2>2, <2>3, <2>4, <2>5, <2>6, <2>7 DEF ListNext
<1>. QED BY <1>1, <1>2, ListInvInit, ListInvNext, PTL
         DEF ListSpec, ImplementsBoundedFifo, A!Spec
=============================================================================
