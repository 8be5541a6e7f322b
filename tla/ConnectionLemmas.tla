-------------------------- MODULE ConnectionLemmas --------------------------
(***************************************************************************)
(* What the operators of Connection do to a connection record, for every   *)
(* modulus, window, retry limit and set of chunks: the lemmas behind       *)
(* ConnectionProofs (one connection, any peer) and Ax25LinkProofs (two).   *)
(***************************************************************************)
EXTENDS Connection, SequenceTheorems, FiniteSetTheorems, TLAPS

\* What every operator preserves: the types, and the window.
Fit(c) == c \in ConnType /\ Len(c.unacked) <= Window

-----------------------------------------------------------------------------
(* Sequences of frames                                                     *)

\* The loop of process_nr pops at most the whole queue.
LEMMA AckedPrefixCount ==
    ASSUME NEW u \in Seq(UnackedFrame), NEW nr \in SeqNo
    PROVE  Cardinality(AckedPrefix(u, nr)) \in 0 .. Len(u)
<1>0. Len(u) \in Nat
  BY LenProperties
<1>1. IsFiniteSet(1 .. Len(u)) /\ Cardinality(1 .. Len(u)) = Len(u)
  BY <1>0, FS_Interval
<1>2. AckedPrefix(u, nr) \subseteq 1 .. Len(u)
  BY DEF AckedPrefix
<1>3. Cardinality(AckedPrefix(u, nr)) \in Nat
      /\ Cardinality(AckedPrefix(u, nr)) <= Len(u)
  BY <1>1, <1>2, FS_Subset, FS_CardinalityType
<1>4. QED BY <1>3, LenProperties

\* What it leaves is a queue, no longer than before.
LEMMA PopAckedType ==
    ASSUME NEW u \in Seq(UnackedFrame), NEW nr \in SeqNo
    PROVE  PopAcked(u, nr) \in Seq(UnackedFrame) /\ Len(PopAcked(u, nr)) <= Len(u)
<1> DEFINE k == Cardinality(AckedPrefix(u, nr))
<1>1. k \in 0 .. Len(u)
  BY AckedPrefixCount
<1> HIDE DEF k
<1>2. \A i \in k + 1 .. Len(u) : u[i] \in UnackedFrame
  BY <1>1, LenProperties, ElementOfSeq
<1>3. /\ SubSeq(u, k + 1, Len(u)) \in Seq(UnackedFrame)
      /\ Len(SubSeq(u, k + 1, Len(u))) =
            IF k + 1 <= Len(u) THEN Len(u) - (k + 1) + 1 ELSE 0
  BY <1>1, <1>2, SubSeqProperties, LenProperties
<1>4. QED BY <1>1, <1>3, LenProperties DEF PopAcked, k

\* Numbers stay in 0 .. Modulus-1.
LEMMA ModType ==
    ASSUME NEW n \in Nat
    PROVE  n % Modulus \in SeqNo
BY ModulusAssumption DEF SeqNo

\* Sending a burst adds frames, and touches nothing else but poll_sent_ and
\* the deferred ACK, which it may settle but never create.
SameButAck(c, d) ==
    /\ \A f \in {"state", "vs", "vr", "va", "retry", "t1", "t3", "pollPending",
                 "peerBusy", "sendBuf", "unacked", "up"} : d[f] = c[f]
    /\ d.ackPending => c.ackPending /\ d.t2 = c.t2

\* tx_iframes emits the frames and, if any, clears the pending ACK.
LEMMA TxIframesType ==
    ASSUME NEW c \in ConnType, NEW frames \in Seq(UnackedFrame), NEW poll \in BOOLEAN
    PROVE  TxIframes(c, frames, poll) \in ConnType
           /\ SameButAck(c, TxIframes(c, frames, poll))
<1> DEFINE tx == [i \in DOMAIN frames |->
                    IFrame(frames[i].ns, c.vr, poll /\ i = Len(frames), frames[i].data)]
<1>1. tx \in Seq(Frame)
  <2>1. DOMAIN frames = 1 .. Len(frames) /\ Len(frames) \in Nat
    BY LenProperties
  <2>2. \A i \in 1 .. Len(frames) : frames[i] \in UnackedFrame
    BY ElementOfSeq
  <2>3. \A i \in 1 .. Len(frames) : tx[i] \in Frame
    BY <2>1, <2>2 DEF IFrame, Frame, FrameType, UnackedFrame, ConnType
  <2>4. tx \in [1 .. Len(frames) -> Frame]
    BY <2>1, <2>3
  <2> HIDE DEF tx
  <2>5. QED BY <2>1, <2>4
<1>2. c.out \o tx \in Seq(Frame)
  BY <1>1, ConcatProperties DEF ConnType
<1> HIDE DEF tx
<1> DEFINE piggyback == c.ackPending /\ frames # <<>>
           polls == IF poll /\ frames # <<>> THEN c.pollSent + 1 ELSE c.pollSent
           t2 == c.t2 /\ ~piggyback
           ack == c.ackPending /\ ~piggyback
<1>3. polls \in Nat /\ t2 \in BOOLEAN /\ ack \in BOOLEAN /\ (ack => c.ackPending /\ t2 = c.t2)
  <2>1. c.pollSent \in Nat /\ c.t2 \in BOOLEAN /\ c.ackPending \in BOOLEAN
    BY DEF ConnType
  <2>2. polls \in Nat
    BY <2>1
  <2>3. t2 \in BOOLEAN /\ ack \in BOOLEAN
    BY <2>1
  <2>4. ack => c.ackPending /\ t2 = c.t2
    BY <2>1
  <2>5. QED BY <2>2, <2>3, <2>4
<1>4. TxIframes(c, frames, poll) =
         [c EXCEPT !.out = c.out \o tx, !.pollSent = polls,
                   !.t2 = t2, !.ackPending = ack]
  BY Zenon DEF TxIframes, tx
<1> HIDE DEF polls, t2, ack
<1>5. TxIframes(c, frames, poll) \in ConnType
  BY <1>2, <1>3, <1>4 DEF ConnType
<1>6. SameButAck(c, TxIframes(c, frames, poll))
  BY <1>3, <1>4 DEF ConnType, SameButAck
<1>7. QED BY <1>5, <1>6

-----------------------------------------------------------------------------
(* Window management                                                       *)

\* What the window operators leave alone, for the supervision of the link:
\* the state, the retries, T3, and the deferred ACK (settled, not created).
Kept(c, d) ==
    /\ d.state = c.state /\ d.retry = c.retry /\ d.t3 = c.t3
    /\ d.pollPending = c.pollPending /\ d.peerBusy = c.peerBusy
    /\ d.ackPending => c.ackPending /\ d.t2 = c.t2

\* The queue is served: chunks wait only behind a full window.
Served(c) == c.sendBuf # <<>> => c.peerBusy \/ Len(c.unacked) = Window

\* The frames a flush may send fit the window.
LEMMA RoomType ==
    ASSUME NEW c, Fit(c)
    PROVE  /\ Room(c) \in 0 .. Len(c.sendBuf)
           /\ Len(c.unacked) + Room(c) <= Window
           /\ Room(c) = Len(c.sendBuf) \/ Len(c.unacked) + Room(c) = Window
<1>1. Len(c.sendBuf) \in Nat /\ Len(c.unacked) \in Nat /\ Len(c.unacked) <= Window
  BY LenProperties DEF Fit, ConnType
<1> DEFINE n == Len(c.sendBuf)
           m == Window - Len(c.unacked)
<1>2. n \in Nat /\ m \in Nat /\ Len(c.unacked) = Window - m
  BY <1>1, WindowAssumption
<1>3. Room(c) = IF n < m THEN n ELSE m
  BY DEF Room, Lesser
<1> HIDE DEF n, m
<1>4. /\ Room(c) \in 0 .. n
      /\ Window - m + Room(c) <= Window
      /\ Room(c) = n \/ Window - m + Room(c) = Window
  BY <1>2, <1>3, WindowAssumption
<1>5. QED BY <1>2, <1>4 DEF n

\* A burst is as long as asked.
LEMMA BurstType ==
    ASSUME NEW c, Fit(c), NEW k \in 0 .. Len(c.sendBuf)
    PROVE  Burst(c, k) \in Seq(UnackedFrame) /\ Len(Burst(c, k)) = k
<1>1. c.sendBuf \in Seq(Data) /\ Len(c.sendBuf) \in Nat /\ c.vs \in SeqNo
  BY LenProperties DEF Fit, ConnType
<1>2. \A i \in 1 .. k : c.sendBuf[i] \in Data
  BY <1>1, ElementOfSeq
<1>3. \A i \in 1 .. k : (c.vs + i - 1) % Modulus \in SeqNo
  <2> TAKE i \in 1 .. k
  <2>1. c.vs + i - 1 \in Nat
    BY <1>1, ModulusAssumption DEF SeqNo
  <2>2. QED BY <2>1, ModType
<1>4. Burst(c, k) \in [1 .. k -> UnackedFrame]
  BY <1>2, <1>3 DEF Burst, UnackedFrame
<1>5. QED BY <1>1, <1>4

\* Moving chunks from send_buf_ to unacked_ keeps the record sound.
LEMMA SendChunksType ==
    ASSUME NEW c, Fit(c)
    PROVE  LET d == SendChunks(c, Room(c))
           IN Fit(d) /\ Kept(c, d) /\ Served(d) /\ d.t1 = c.t1
<1> DEFINE k == Room(c)
           burst == Burst(c, k)
           filled == Len(c.unacked) + k >= Window
           tx == TxIframes(c, burst, filled)
           vs == (c.vs + k) % Modulus
           rest == SubSeq(c.sendBuf, k + 1, Len(c.sendBuf))
           d == SendChunks(c, k)
<1>1. /\ k \in 0 .. Len(c.sendBuf) /\ Len(c.unacked) + k <= Window
      /\ k = Len(c.sendBuf) \/ Len(c.unacked) + k = Window
  BY RoomType
<1>2. /\ c \in ConnType /\ c.unacked \in Seq(UnackedFrame) /\ Len(c.unacked) \in Nat
      /\ c.sendBuf \in Seq(Data) /\ Len(c.sendBuf) \in Nat /\ c.vs \in SeqNo
  BY LenProperties DEF Fit, ConnType
<1>3. burst \in Seq(UnackedFrame) /\ Len(burst) = k
  BY <1>1, BurstType
<1>4. tx \in ConnType /\ SameButAck(c, tx)
  <2>1. filled \in BOOLEAN
    OBVIOUS
  <2> HIDE DEF filled, burst
  <2>2. QED BY <1>2, <1>3, <2>1, TxIframesType
<1>5. vs \in SeqNo
  <2>1. c.vs + k \in Nat
    BY <1>1, <1>2, ModulusAssumption DEF SeqNo
  <2>2. QED BY <2>1, ModType
<1>6. /\ rest \in Seq(Data)
      /\ Len(rest) = Len(c.sendBuf) - k
  BY <1>1, <1>2, SubSeqProperties, ElementOfSeq
<1>7. c.unacked \o burst \in Seq(UnackedFrame)
      /\ Len(c.unacked \o burst) = Len(c.unacked) + k
  <2> HIDE DEF burst, k
  <2>1. c.unacked \o burst \in Seq(UnackedFrame)
    BY <1>2, <1>3, ConcatProperties
  <2>2. Len(c.unacked \o burst) = Len(c.unacked) + Len(burst)
    BY <1>2, <1>3, ConcatProperties
  <2>3. QED BY <1>3, <2>1, <2>2
<1>8. tx.vs = c.vs /\ tx.unacked = c.unacked /\ tx.sendBuf = c.sendBuf /\ tx.t1 = c.t1
      /\ Kept(c, tx)
  BY <1>4 DEF SameButAck, Kept
<1>9. d = [tx EXCEPT !.vs = vs, !.unacked = c.unacked \o burst, !.sendBuf = rest]
  BY <1>4, <1>8 DEF SendChunks, ConnType
<1> HIDE DEF tx, vs, rest, burst, k
<1>10. d \in ConnType
  BY <1>4, <1>5, <1>6, <1>7, <1>9 DEF ConnType
<1>11. /\ d.unacked = c.unacked \o burst /\ d.sendBuf = rest
       /\ Kept(c, d) /\ d.t1 = c.t1
  BY <1>4, <1>8, <1>9 DEF ConnType, Kept
<1>12. Len(d.unacked) <= Window
  BY <1>1, <1>7, <1>11
<1>13. d.sendBuf # <<>> => Len(d.unacked) = Window
  <2> SUFFICES ASSUME Len(c.unacked) + k # Window PROVE rest = <<>>
    BY <1>1, <1>7, <1>11
  <2>1. Len(rest) = 0
    BY <1>1, <1>2, <1>6
  <2>2. QED BY <2>1, <1>6, EmptySeq
<1>14. QED BY <1>10, <1>11, <1>12, <1>13 DEF Fit, Served, k

\* So does flush_window, which starts T1 when it sends.
LEMMA FlushWindowType ==
    ASSUME NEW c, Fit(c)
    PROVE  LET d == FlushWindow(c)
           IN Fit(d) /\ Kept(c, d) /\ Served(d) /\ (c.t1 => d.t1)
<1> DEFINE e == SendChunks(c, Room(c))
<1>1. CASE c.peerBusy
  BY <1>1 DEF FlushWindow, Kept, Served
<1>2. CASE ~c.peerBusy
  <2>1. Fit(e) /\ Kept(c, e) /\ Served(e) /\ e.t1 = c.t1
    BY SendChunksType
  <2>2. FlushWindow(c) = IF e.unacked # <<>> THEN [e EXCEPT !.t1 = TRUE] ELSE e
    BY <1>2 DEF FlushWindow, StartT1
  <2> HIDE DEF e
  <2>3. CASE e.unacked = <<>>
    BY <2>1, <2>2, <2>3
  <2>4. CASE e.unacked # <<>>
    <3> DEFINE d == [e EXCEPT !.t1 = TRUE]
    <3>1. FlushWindow(c) = d
      BY <2>2, <2>4
    <3>2. Fit(d)
      BY <2>1 DEF Fit, ConnType
    <3>3. Kept(c, d) /\ Served(d)
      BY <2>1 DEF Fit, ConnType, Kept, Served
    <3>4. d.t1
      BY <2>1 DEF Fit, ConnType
    <3> HIDE DEF d
    <3>5. QED BY <3>1, <3>2, <3>3, <3>4
  <2>5. QED BY <2>3, <2>4
<1>3. QED BY <1>1, <1>2

\* process_nr drops what is acknowledged and starts T3 ...
LEMMA TakeNrType ==
    ASSUME NEW c, Fit(c), NEW nr \in SeqNo
    PROVE  LET d == TakeNr(c, nr)
           IN /\ Fit(d)
              /\ d.state = c.state /\ d.retry = 0 /\ d.t3 /\ d.t1 = c.t1
              /\ d.pollPending = c.pollPending /\ d.peerBusy = c.peerBusy
              /\ d.ackPending = c.ackPending /\ d.t2 = c.t2
<1> DEFINE u == PopAcked(c.unacked, nr)
<1>1. u \in Seq(UnackedFrame) /\ Len(u) <= Len(c.unacked)
  BY PopAckedType DEF Fit, ConnType
<1>2. Len(u) \in Nat /\ Len(c.unacked) \in Nat
  <2>1. c.unacked \in Seq(UnackedFrame)
    BY DEF Fit, ConnType
  <2>2. QED BY <1>1, <2>1, LenProperties
<1>3. TakeNr(c, nr) = [c EXCEPT !.unacked = u, !.va = nr, !.retry = 0, !.t3 = TRUE]
  BY DEF TakeNr
<1> HIDE DEF u
<1> DEFINE d == TakeNr(c, nr)
<1>4. d \in ConnType /\ d.unacked = u
  <2>1. c \in ConnType /\ 0 \in Nat
    BY DEF Fit
  <2>2. QED BY <1>1, <1>3, <2>1 DEF ConnType
<1>5. Len(u) <= Window
  BY <1>1, <1>2, WindowAssumption DEF Fit
<1>6. /\ d.state = c.state /\ d.retry = 0 /\ d.t3 /\ d.t1 = c.t1
      /\ d.pollPending = c.pollPending /\ d.peerBusy = c.peerBusy
      /\ d.ackPending = c.ackPending /\ d.t2 = c.t2
  BY <1>3 DEF Fit, ConnType
<1>7. QED BY <1>4, <1>5, <1>6 DEF Fit

\* process_nr, on any N(R): the timers it leaves keep the link supervised.
Heard(c, d) ==
    /\ d.state = c.state /\ d.retry = 0 /\ d.t3 /\ d.pollPending = c.pollPending
    /\ d.ackPending => c.ackPending /\ d.t2 = c.t2

\* ... and, whole, leaves the link supervised.
LEMMA ProcessNrType ==
    ASSUME NEW c, Fit(c), NEW nr \in SeqNo
    PROVE  LET d == ProcessNr(c, nr)
           IN Fit(d) /\ Heard(c, d) /\ Served(d) /\ d.peerBusy = c.peerBusy
<1> DEFINE taken == TakeNr(c, nr)
           run == taken.unacked # <<>>
           e == [taken EXCEPT !.t1 = run]
<1>1. Fit(taken) /\ Heard(c, taken) /\ taken.peerBusy = c.peerBusy
  BY TakeNrType DEF Heard
<1>2. run \in BOOLEAN /\ ProcessNr(c, nr) = FlushWindow(e)
  BY DEF ProcessNr
<1> HIDE DEF taken, run
<1>3. Fit(e) /\ Heard(c, e) /\ e.peerBusy = c.peerBusy
  BY <1>1, <1>2 DEF Fit, ConnType, Heard
<1> HIDE DEF e
<1>4. Fit(FlushWindow(e)) /\ Kept(e, FlushWindow(e)) /\ Served(FlushWindow(e))
  BY <1>3, FlushWindowType
<1>5. QED BY <1>2, <1>3, <1>4 DEF Heard, Kept

\* Go-Back-N renumbers what is in flight and loses none of it.
LEMMA RetransmitAllType ==
    ASSUME NEW c, Fit(c)
    PROVE  LET d == RetransmitAll(c)
           IN /\ Fit(d) /\ Kept(c, d)
              /\ d.sendBuf = c.sendBuf /\ Len(d.unacked) = Len(c.unacked)
              /\ IF c.unacked = <<>> THEN d.t1 = c.t1 ELSE d.t1
<1> DEFINE n == Len(c.unacked)
           again == [i \in 1 .. n |-> [ns |-> (c.va + i - 1) % Modulus,
                                       data |-> c.unacked[i].data]]
           tx == TxIframes(c, again, TRUE)
           vs == (c.va + n) % Modulus
           e == [tx EXCEPT !.vs = vs, !.unacked = again]
<1>1. /\ c \in ConnType /\ c.unacked \in Seq(UnackedFrame) /\ n \in Nat /\ n <= Window
      /\ c.va \in SeqNo
  BY LenProperties DEF Fit, ConnType
<1>2. again \in Seq(UnackedFrame) /\ Len(again) = n
  <2>1. \A i \in 1 .. n : c.unacked[i] \in UnackedFrame
    BY <1>1, ElementOfSeq
  <2>2. \A i \in 1 .. n : (c.va + i - 1) % Modulus \in SeqNo
    <3> TAKE i \in 1 .. n
    <3>1. c.va + i - 1 \in Nat
      BY <1>1, ModulusAssumption DEF SeqNo
    <3>2. QED BY <3>1, ModType
  <2>3. again \in [1 .. n -> UnackedFrame]
    BY <2>1, <2>2 DEF UnackedFrame
  <2> HIDE DEF n
  <2>4. QED BY <1>1, <2>3
<1>3. vs \in SeqNo
  <2>1. c.va + n \in Nat
    BY <1>1, ModulusAssumption DEF SeqNo
  <2>2. QED BY <2>1, ModType
<1>4. RetransmitAll(c) = IF n > 0 THEN StartT1(e) ELSE e
  BY DEF RetransmitAll
<1>5. n > 0 <=> c.unacked # <<>>
  BY <1>1, EmptySeq
<1> HIDE DEF again, vs, n
<1>6. tx \in ConnType /\ SameButAck(c, tx)
  BY <1>1, <1>2, TxIframesType
<1>7. tx.t1 = c.t1 /\ tx.sendBuf = c.sendBuf /\ Kept(c, tx)
  BY <1>6 DEF SameButAck, Kept
<1> HIDE DEF tx
<1>8. /\ e \in ConnType /\ Kept(c, e)
      /\ e.unacked = again /\ e.sendBuf = c.sendBuf /\ e.t1 = c.t1
  BY <1>2, <1>3, <1>6, <1>7 DEF ConnType, Kept
<1> HIDE DEF e
<1>9. StartT1(e) \in ConnType /\ Kept(c, StartT1(e)) /\ StartT1(e).t1
      /\ StartT1(e).unacked = again /\ StartT1(e).sendBuf = c.sendBuf
  BY <1>8 DEF StartT1, ConnType, Kept
<1>10. QED BY <1>1, <1>2, <1>4, <1>5, <1>8, <1>9 DEF Fit, n

-----------------------------------------------------------------------------
(* Frames and callbacks                                                    *)

\* d differs from c at most in its sequence numbers, in poll_sent_ and in
\* what was emitted.
Same(c, d) ==
    /\ d.state = c.state /\ d.retry = c.retry
    /\ d.t1 = c.t1 /\ d.t2 = c.t2 /\ d.t3 = c.t3
    /\ d.pollPending = c.pollPending /\ d.ackPending = c.ackPending
    /\ d.peerBusy = c.peerBusy /\ d.sendBuf = c.sendBuf /\ d.unacked = c.unacked

\* The control and supervisory frames are frames.
LEMMA FrameTypes ==
    ASSUME NEW pf \in BOOLEAN, NEW poll \in BOOLEAN, NEW nr \in SeqNo
    PROVE  /\ \A t \in {"SABM", "DISC", "UA", "DM"} : UFrame(t, pf) \in Frame
           /\ \A t \in {"RR", "REJ"} : SFrame(t, nr, pf, poll) \in Frame
<1>1. 0 \in SeqNo
  BY ModulusAssumption DEF SeqNo
<1>2. QED BY <1>1 DEF UFrame, SFrame, Frame, FrameType

\* The same for the unnumbered ones alone.
LEMMA UFrameType ==
    \A pf \in BOOLEAN : \A t \in {"SABM", "DISC", "UA", "DM"} : UFrame(t, pf) \in Frame
<1>1. 0 \in SeqNo
  BY ModulusAssumption DEF SeqNo
<1>2. QED BY <1>1, FrameTypes

\* Sending a frame touches nothing but the output.
LEMMA EmitSame ==
    ASSUME NEW c, Fit(c), NEW f \in Frame
    PROVE  Fit(Emit(c, f)) /\ Same(c, Emit(c, f))
<1>1. Append(c.out, f) \in Seq(Frame)
  BY AppendProperties DEF Fit, ConnType
<1>2. QED BY <1>1 DEF Emit, Fit, ConnType, Same

\* Nor does a callback touch more than the list of callbacks.
LEMMA FireSame ==
    ASSUME NEW c, Fit(c), NEW on \in {"connect", "disconnect", "data"},
           NEW d \in Data \cup {NoData}, on = "data" <=> d # NoData
    PROVE  Fit(Fire(c, on, d)) /\ Same(c, Fire(c, on, d))
<1>1. [on |-> on, data |-> d] \in Callback
  BY DEF Callback
<1>2. Append(c.up, [on |-> on, data |-> d]) \in Seq(Callback)
  BY <1>1, AppendProperties DEF Fit, ConnType
<1>3. QED BY <1>2 DEF Fire, Fit, ConnType, Same

\* Everything but the timers.
Untimed(c, d) ==
    /\ d.state = c.state /\ d.retry = c.retry /\ d.pollPending = c.pollPending
    /\ d.peerBusy = c.peerBusy /\ d.sendBuf = c.sendBuf /\ d.unacked = c.unacked

\* Starting and stopping a timer touches that timer alone.
LEMMA TimerTypes ==
    ASSUME NEW c, Fit(c)
    PROVE  /\ Fit(StartT1(c)) /\ Untimed(c, StartT1(c)) /\ StartT1(c).t1
           /\ StartT1(c).t3 = c.t3 /\ StartT1(c).t2 = c.t2
           /\ StartT1(c).ackPending = c.ackPending
           /\ Fit(StopT1(c)) /\ Untimed(c, StopT1(c)) /\ ~StopT1(c).t1
           /\ StopT1(c).t3 = c.t3 /\ StopT1(c).t2 = c.t2
           /\ StopT1(c).ackPending = c.ackPending
           /\ Fit(StopT2(c)) /\ Untimed(c, StopT2(c)) /\ ~StopT2(c).ackPending
           /\ StopT2(c).t1 = c.t1 /\ StopT2(c).t3 = c.t3
           /\ Fit(StartT3(c)) /\ Untimed(c, StartT3(c)) /\ StartT3(c).t3
           /\ StartT3(c).t1 = c.t1 /\ StartT3(c).t2 = c.t2
           /\ StartT3(c).ackPending = c.ackPending
           /\ Fit(StopT3(c)) /\ Untimed(c, StopT3(c)) /\ ~StopT3(c).t3
           /\ StopT3(c).t1 = c.t1 /\ StopT3(c).t2 = c.t2
           /\ StopT3(c).ackPending = c.ackPending
<1>1. Fit(StartT1(c)) /\ Untimed(c, StartT1(c)) /\ StartT1(c).t1
      /\ StartT1(c).t3 = c.t3 /\ StartT1(c).t2 = c.t2
      /\ StartT1(c).ackPending = c.ackPending
  BY DEF Fit, ConnType, Untimed, StartT1
<1>2. Fit(StopT1(c)) /\ Untimed(c, StopT1(c)) /\ ~StopT1(c).t1
      /\ StopT1(c).t3 = c.t3 /\ StopT1(c).t2 = c.t2
      /\ StopT1(c).ackPending = c.ackPending
  BY DEF Fit, ConnType, Untimed, StopT1
<1>3. Fit(StopT2(c)) /\ Untimed(c, StopT2(c)) /\ ~StopT2(c).ackPending
      /\ StopT2(c).t1 = c.t1 /\ StopT2(c).t3 = c.t3
  BY DEF Fit, ConnType, Untimed, StopT2
<1>4. Fit(StartT3(c)) /\ Untimed(c, StartT3(c)) /\ StartT3(c).t3
      /\ StartT3(c).t1 = c.t1 /\ StartT3(c).t2 = c.t2
      /\ StartT3(c).ackPending = c.ackPending
  BY DEF Fit, ConnType, Untimed, StartT3
<1>5. Fit(StopT3(c)) /\ Untimed(c, StopT3(c)) /\ ~StopT3(c).t3
      /\ StopT3(c).t1 = c.t1 /\ StopT3(c).t2 = c.t2
      /\ StopT3(c).ackPending = c.ackPending
  BY DEF Fit, ConnType, Untimed, StopT3
<1>6. QED BY <1>1, <1>2, <1>3, <1>4, <1>5

\* Sending an RR, a poll or a REJ leaves the session as it is.
LEMMA TxSame ==
    ASSUME NEW c, Fit(c), NEW pf \in BOOLEAN
    PROVE  /\ Fit(TxRR(c, pf)) /\ Same(c, TxRR(c, pf))
           /\ Fit(TxPoll(c)) /\ Same(c, TxPoll(c))
           /\ Fit(TxRej(c, pf)) /\ Same(c, TxRej(c, pf))
<1>1. c.vr \in SeqNo
  BY DEF Fit, ConnType
<1>2. QED BY <1>1, FrameTypes, EmitSame DEF TxRR, TxPoll, TxRej

\* So does the answer to a poll.
LEMMA AnswerPollSame ==
    ASSUME NEW c, Fit(c), NEW pf \in BOOLEAN
    PROVE  Fit(AnswerPoll(c, pf)) /\ Same(c, AnswerPoll(c, pf))
<1>1. Fit(c) /\ Same(c, c)
  BY DEF Same
<1>2. ASSUME c.pollSent > 0
      PROVE  LET d == [c EXCEPT !.pollSent = @ - 1] IN Fit(d) /\ Same(c, d)
  <2>1. c.pollSent - 1 \in Nat
    BY <1>2 DEF Fit, ConnType
  <2>2. QED BY <2>1 DEF Fit, ConnType, Same
<1>3. QED BY <1>1, <1>2, TxSame DEF AnswerPoll

-----------------------------------------------------------------------------
(* The invariant of a connection record                                    *)

\* The conjuncts of ConnectionEnv's invariants, on any record; together they
\* are inductive: that T1 is stopped in a closed connection needs the retry
\* paths to be the only ones that start it, and so on.
Sound(c) ==
    /\ Fit(c)
    /\ c.state \in {"CONNECTING", "DISCONNECTING"} => c.t1
    /\ c.state = "CONNECTED" => c.t3 \/ (c.t1 /\ c.pollPending)
    /\ c.state = "DISCONNECTED" => ~c.t1
    /\ c.t3 => c.state = "CONNECTED"
    /\ c.state # "DISCONNECTED" => c.retry <= N2
    /\ c.ackPending /\ c.state = "CONNECTED" => c.t2

\* A call leaves a connected record served, unless it found it unserved or
\* opened it with old chunks.
Serves(c, d) ==
    d.state = "CONNECTED" =>
        \/ Served(d)
        \/ c.state = "CONNECTED" /\ ~Served(c)
        \/ c.state = "DISCONNECTED" /\ d.sendBuf # <<>>

\* Records that differ in output and callbacks are sound together.
LEMMA SameSound ==
    ASSUME NEW c, Sound(c), NEW d, Fit(d), Same(c, d)
    PROVE  Sound(d) /\ d.state = c.state /\ (Served(c) => Served(d))
BY DEF Sound, Same, Served

\* Between calls nothing has been emitted.
LEMMA EnterSound ==
    ASSUME NEW c, Sound(c)
    PROVE  Sound(Enter(c)) /\ Enter(c).state = c.state /\ (Served(c) <=> Served(Enter(c)))
           /\ Same(c, Enter(c))
<1>1. Fit(Enter(c)) /\ Same(c, Enter(c))
  <2>1. <<>> \in Seq(Frame) /\ <<>> \in Seq(Callback)
    OBVIOUS
  <2>2. QED BY <2>1 DEF Sound, Fit, Enter, ConnType, Same
<1>2. QED BY <1>1, SameSound DEF Served, Same

\* A new connection is sound.
LEMMA NewSound ==
    /\ Sound(NewConnection) /\ NewConnection.state = "DISCONNECTED"
    /\ NewConnection.sendBuf = <<>> /\ NewConnection.unacked = <<>>
<1>1. /\ 0 \in SeqNo /\ 0 \in Nat /\ "DISCONNECTED" \in State
      /\ <<>> \in Seq(Data) /\ <<>> \in Seq(UnackedFrame)
      /\ <<>> \in Seq(Frame) /\ <<>> \in Seq(Callback)
  BY ModulusAssumption DEF SeqNo, State
<1>2. NewConnection \in ConnType
  BY <1>1 DEF NewConnection, ConnType
<1>3. Len(NewConnection.unacked) <= Window
  BY WindowAssumption DEF NewConnection
<1>4. QED BY <1>2, <1>3 DEF Sound, Fit, NewConnection

\* start_connect: T1 drives the call.
LEMMA StartConnectSound ==
    Sound(StartConnect(NewConnection))
    /\ StartConnect(NewConnection).state = "CONNECTING"
<1> DEFINE c == NewConnection
           a == StopT2(c)
           e == [a EXCEPT !.vs = 0, !.vr = 0, !.va = 0, !.retry = 0,
                          !.peerBusy = FALSE, !.pollSent = 0,
                          !.state = "CONNECTING"]
           f == Emit(e, UFrame("SABM", TRUE))
<1>1. Fit(a) /\ ~a.t3 /\ ~a.ackPending
  BY NewSound, TimerTypes DEF Sound, NewConnection
<1>2. StartConnect(c) = StartT1(f)
  BY DEF StartConnect
<1> HIDE DEF a
<1>3. Fit(e) /\ e.retry = 0 /\ ~e.t3 /\ ~e.ackPending /\ e.state = "CONNECTING"
  <2>1. 0 \in SeqNo
    BY ModulusAssumption DEF SeqNo
  <2>2. QED BY <1>1, <2>1 DEF Fit, ConnType, State
<1> HIDE DEF e
<1>4. Fit(f) /\ Same(e, f)
  BY <1>3, EmitSame, UFrameType
<1> HIDE DEF f, c
<1>5. /\ Fit(StartT1(f)) /\ Untimed(f, StartT1(f)) /\ StartT1(f).t1
      /\ StartT1(f).t3 = f.t3
  BY <1>4, TimerTypes
<1>6. Sound(StartT1(f)) /\ StartT1(f).state = "CONNECTING"
  BY <1>3, <1>4, <1>5, N2Assumption DEF Same, Untimed, Sound
<1>7. QED BY <1>2, <1>6 DEF c

\* send(): the window takes what fits.
LEMMA SendSound ==
    ASSUME NEW c, Sound(c), NEW chunks \in Seq(Data)
    PROVE  LET d == Send(c, chunks)
           IN Sound(d) /\ d.state = c.state /\ (d.state = "CONNECTED" => Served(d))
<1> DEFINE queue == c.sendBuf \o chunks
           e == [c EXCEPT !.sendBuf = queue]
<1>1. CASE c.state # "CONNECTED"
  BY <1>1 DEF Send
<1>2. CASE c.state = "CONNECTED"
  <2>1. queue \in Seq(Data)
    BY ConcatProperties DEF Sound, Fit, ConnType
  <2>2. Send(c, chunks) = FlushWindow(e)
    BY <1>2 DEF Send
  <2> HIDE DEF queue
  <2>3. Fit(e) /\ Kept(c, e) /\ e.t1 = c.t1
    BY <2>1 DEF Sound, Fit, ConnType, Kept
  <2> HIDE DEF e
  <2>4. LET d == FlushWindow(e)
        IN Fit(d) /\ Kept(e, d) /\ Served(d) /\ (e.t1 => d.t1)
    BY <2>3, FlushWindowType
  <2>5. QED BY <1>2, <2>2, <2>3, <2>4 DEF Sound, Kept
<1>3. QED BY <1>1, <1>2

\* disconnect(): T1 takes over from T3.
LEMMA DisconnectSound ==
    ASSUME NEW c, Sound(c)
    PROVE  Sound(Disconnect(c)) /\ Disconnect(c).state \in {"DISCONNECTED", "DISCONNECTING"}
           /\ (c.state = "CONNECTED" => Disconnect(c).state = "DISCONNECTING")
<1> DEFINE a == StopT3(StopT2(c))
           e == [a EXCEPT !.state = "DISCONNECTING", !.retry = 0, !.sendBuf = <<>>]
           f == Emit(e, UFrame("DISC", TRUE))
<1>1. CASE c.state \in {"DISCONNECTED", "DISCONNECTING"}
  BY <1>1 DEF Disconnect
<1>2. CASE c.state \notin {"DISCONNECTED", "DISCONNECTING"}
  <2>1. Disconnect(c) = StartT1(f)
    BY <1>2 DEF Disconnect
  <2>2. Fit(a) /\ ~a.t3
    BY TimerTypes DEF Sound
  <2> HIDE DEF a
  <2>3. Fit(e) /\ e.state = "DISCONNECTING" /\ e.retry = 0 /\ ~e.t3
    <3>1. <<>> \in Seq(Data) /\ "DISCONNECTING" \in State
      BY DEF State
    <3>2. QED BY <2>2, <3>1 DEF Fit, ConnType
  <2> HIDE DEF e
  <2>4. Fit(f) /\ Same(e, f)
    BY <2>3, EmitSame, UFrameType
  <2> HIDE DEF f
  <2>5. /\ Fit(StartT1(f)) /\ Untimed(f, StartT1(f)) /\ StartT1(f).t1
        /\ StartT1(f).t3 = f.t3
    BY <2>4, TimerTypes
  <2>6. Sound(StartT1(f)) /\ StartT1(f).state = "DISCONNECTING"
    BY <2>3, <2>4, <2>5, N2Assumption DEF Same, Untimed, Sound
  <2>7. QED BY <1>2, <2>1, <2>6
<1>3. QED BY <1>1, <1>2

-----------------------------------------------------------------------------
(* handle_frame                                                            *)

\* on_data may send and hang up: the connection stays sound and served.
Open(c) == c.state \in {"CONNECTED", "DISCONNECTING"}

\* So is one whose application answered, or hung up, in on_data.
LEMMA OnDataSound ==
    ASSUME NEW c, Sound(c), c.state = "CONNECTED", Served(c),
           NEW d \in Data, NEW react \in Reaction
    PROVE  LET e == OnData(c, d, react)
           IN Sound(e) /\ Open(e) /\ (e.state = "CONNECTED" => Served(e))
<1> DEFINE told == Fire(c, "data", d)
           sent == IF react.reply = <<>> THEN told ELSE Send(told, react.reply)
<1>1. Sound(told) /\ told.state = "CONNECTED" /\ Served(told)
  BY NoDataAssumption, FireSame, SameSound DEF Sound
<1>2. react.reply \in Seq(Data) /\ react.bye \in BOOLEAN
  BY DEF Reaction
<1>3. OnData(c, d, react) = IF react.bye THEN Disconnect(sent) ELSE sent
  BY DEF OnData
<1> HIDE DEF told
<1>4. Sound(sent) /\ sent.state = "CONNECTED" /\ Served(sent)
  BY <1>1, <1>2, SendSound
<1> HIDE DEF sent
<1>5. Sound(Disconnect(sent)) /\ Disconnect(sent).state = "DISCONNECTING"
  BY <1>4, DisconnectSound
<1>6. QED BY <1>2, <1>3, <1>4, <1>5 DEF Open

\* The delayed ACK is armed with its timer, the immediate one settles it.
LEMMA AcceptISound ==
    ASSUME NEW c, Sound(c), c.state = "CONNECTED", Served(c),
           NEW f \in Frame, NEW react \in Reaction
    PROVE  LET e == AcceptI(c, f, react)
           IN Sound(e) /\ Open(e) /\ (e.state = "CONNECTED" => Served(e))
<1> DEFINE counted == [c EXCEPT !.vr = Inc(@)]
           d == IF f.data = NoData THEN counted ELSE OnData(counted, f.data, react)
           armed == [d EXCEPT !.ackPending = TRUE, !.t2 = TRUE]
<1>1. Sound(counted) /\ counted.state = "CONNECTED" /\ Served(counted)
  <2>1. Inc(c.vr) \in SeqNo
    <3>1. c.vr + 1 \in Nat
      BY ModulusAssumption DEF Sound, Fit, ConnType, SeqNo
    <3>2. QED BY <3>1, ModType DEF Inc
  <2>2. Fit(counted) /\ Same(c, counted)
    BY <2>1 DEF Sound, Fit, ConnType, Same
  <2> HIDE DEF counted
  <2>3. QED BY <2>2, SameSound
<1>2. f.data \in Data \cup {NoData} /\ f.pf \in BOOLEAN
  BY DEF Frame
<1> HIDE DEF counted
<1>3. Sound(d) /\ Open(d) /\ (d.state = "CONNECTED" => Served(d))
  <2>1. CASE f.data = NoData
    BY <1>1, <2>1 DEF Open
  <2>2. CASE f.data # NoData
    BY <1>1, <1>2, <2>2, OnDataSound
  <2>3. QED BY <2>1, <2>2
<1>4. AcceptI(c, f, react) = IF f.pf THEN TxRR(StopT2(d), TRUE) ELSE armed
  BY DEF AcceptI, counted
<1> HIDE DEF d
<1>5. LET e == TxRR(StopT2(d), TRUE)
      IN Sound(e) /\ e.state = d.state /\ (Served(d) => Served(e))
  <2>1. /\ Fit(StopT2(d)) /\ Untimed(d, StopT2(d)) /\ ~StopT2(d).ackPending
        /\ StopT2(d).t1 = d.t1 /\ StopT2(d).t3 = d.t3
    BY <1>3, TimerTypes DEF Sound
  <2>2. Sound(StopT2(d)) /\ StopT2(d).state = d.state /\ (Served(d) => Served(StopT2(d)))
    BY <1>3, <2>1 DEF Sound, Untimed, Served
  <2>3. QED BY <2>1, <2>2, TxSame, SameSound
<1>6. Sound(armed) /\ armed.state = d.state /\ (Served(d) => Served(armed))
  <2>1. Fit(armed) /\ Untimed(d, armed) /\ armed.t1 = d.t1 /\ armed.t3 = d.t3 /\ armed.t2
    BY <1>3 DEF Sound, Fit, ConnType, Untimed
  <2> HIDE DEF armed
  <2>2. QED BY <1>3, <2>1 DEF Sound, Untimed, Served
<1>7. QED BY <1>2, <1>3, <1>4, <1>5, <1>6 DEF Open

\* The two ways down leave no timer running.
LEMMA DownSound ==
    ASSUME NEW c, Fit(c), ~c.t3
    PROVE  Sound(Down(c)) /\ Down(c).state = "DISCONNECTED"
<1> DEFINE a == StopT1(c)
           e == [a EXCEPT !.state = "DISCONNECTED"]
<1>1. Fit(a) /\ ~a.t1 /\ ~a.t3
  BY TimerTypes
<1>2. Down(c) = Fire(e, "disconnect", NoData)
  BY DEF Down
<1> HIDE DEF a
<1>3. Fit(e) /\ ~e.t1 /\ ~e.t3 /\ e.state = "DISCONNECTED"
  BY <1>1 DEF Fit, ConnType, State
<1> HIDE DEF e
<1>4. Fit(Down(c)) /\ Same(e, Down(c))
  BY <1>2, <1>3, FireSame
<1>5. QED BY <1>3, <1>4 DEF Same, Sound

\* link_failed leaves a closed, sound record.
LEMMA LinkFailedSound ==
    ASSUME NEW c, Fit(c)
    PROVE  Sound(LinkFailed(c)) /\ LinkFailed(c).state = "DISCONNECTED"
<1> DEFINE e == [c EXCEPT !.t1 = FALSE, !.t3 = FALSE, !.state = "DISCONNECTED"]
<1>1. Fit(e) /\ ~e.t1 /\ ~e.t3 /\ e.state = "DISCONNECTED"
  BY DEF Fit, ConnType, State
<1>2. LinkFailed(c) = Fire(e, "disconnect", NoData)
  BY DEF LinkFailed
<1> HIDE DEF e
<1>3. Fit(LinkFailed(c)) /\ Same(e, LinkFailed(c))
  BY <1>1, <1>2, FireSame
<1>4. QED BY <1>1, <1>3 DEF Same, Sound

\* A reset of the sequence numbers keeps queues and timers.
LEMMA ResetNumbersType ==
    ASSUME NEW c, Fit(c)
    PROVE  LET d == ResetNumbers(c)
           IN /\ Fit(d) /\ d.state = c.state /\ d.retry = c.retry
              /\ d.t1 = c.t1 /\ d.t3 = c.t3 /\ ~d.ackPending
              /\ d.sendBuf = c.sendBuf /\ d.unacked = c.unacked
<1> DEFINE a == StopT2(c)
<1>1. Fit(a) /\ Untimed(c, a) /\ ~a.ackPending /\ a.t1 = c.t1 /\ a.t3 = c.t3
  BY TimerTypes
<1>2. ResetNumbers(c) = [a EXCEPT !.vs = 0, !.vr = 0, !.va = 0, !.peerBusy = FALSE]
  BY DEF ResetNumbers
<1>3. 0 \in SeqNo
  BY ModulusAssumption DEF SeqNo
<1> HIDE DEF a
<1>4. QED BY <1>1, <1>2, <1>3 DEF Fit, ConnType, Untimed

\* DISCONNECTED: a SABM opens a session, supervised by T3.
LEMMA RecvDisconnectedSound ==
    ASSUME NEW c, Sound(c), c.state = "DISCONNECTED", NEW f \in Frame
    PROVE  Sound(RecvDisconnected(c, f)) /\ Serves(c, RecvDisconnected(c, f))
<1> DEFINE a == ResetNumbers(c)
           b == [a EXCEPT !.retry = 0]
           d == Emit(b, UFrame("UA", f.pf))
           e == [d EXCEPT !.state = "CONNECTED"]
           g == StartT3(e)
           h == Fire(g, "connect", NoData)
<1>1. f.pf \in BOOLEAN
  BY DEF Frame
<1>2. CASE f.type # "SABM"
  <2>1. UFrame("DM", f.pf) \in Frame
    BY <1>1, UFrameType
  <2>2. QED BY <1>2, <2>1, EmitSame, SameSound DEF RecvDisconnected, Serves, Sound
<1>3. CASE f.type = "SABM"
  <2>1. Fit(a) /\ ~a.ackPending
    BY ResetNumbersType DEF Sound
  <2>2. RecvDisconnected(c, f) = h
    BY <1>3 DEF RecvDisconnected, AcceptSabm
  <2> HIDE DEF a
  <2>3. Fit(b) /\ ~b.ackPending /\ b.retry = 0
    BY <2>1 DEF Fit, ConnType
  <2> HIDE DEF b
  <2>4. Fit(d) /\ Same(b, d)
    BY <1>1, <2>3, UFrameType, EmitSame
  <2> HIDE DEF d
  <2>5. Fit(e) /\ ~e.ackPending /\ e.retry = 0 /\ e.state = "CONNECTED"
    BY <2>3, <2>4 DEF Fit, ConnType, Same, State
  <2> HIDE DEF e
  <2>6. Fit(g) /\ Untimed(e, g) /\ g.t3 /\ ~g.ackPending
    BY <2>5, TimerTypes
  <2> HIDE DEF g
  <2>7. Fit(h) /\ Same(g, h)
    BY <2>6, FireSame
  <2> HIDE DEF h
  <2>8. Sound(h)
    BY <2>5, <2>6, <2>7, N2Assumption DEF Untimed, Same, Sound
  <2>9. QED BY <2>2, <2>8 DEF Serves, Served
<1>4. QED BY <1>2, <1>3

\* CONNECTING: UA hands over from T1 to T3, DM ends the call.
LEMMA RecvConnectingSound ==
    ASSUME NEW c, Sound(c), c.state = "CONNECTING", NEW f \in Frame
    PROVE  Sound(RecvConnecting(c, f)) /\ Serves(c, RecvConnecting(c, f))
<1> DEFINE a == StopT2(StopT1(c))
           b == [a EXCEPT !.vs = 0, !.vr = 0, !.va = 0, !.retry = 0,
                          !.state = "CONNECTED"]
           d == StartT3(b)
           e == Fire(d, "connect", NoData)
           g == FlushWindow(e)
<1>1. f.pf \in BOOLEAN
  BY DEF Frame
<1>2. CASE f.type = "UA"
  <2>1. Fit(a) /\ ~a.ackPending
    BY TimerTypes DEF Sound
  <2>2. RecvConnecting(c, f) = g
    BY <1>2 DEF RecvConnecting, Connected
  <2> HIDE DEF a
  <2>3. Fit(b) /\ ~b.ackPending /\ b.retry = 0 /\ b.state = "CONNECTED"
    <3>1. 0 \in SeqNo
      BY ModulusAssumption DEF SeqNo
    <3>2. QED BY <2>1, <3>1 DEF Fit, ConnType, State
  <2> HIDE DEF b
  <2>4. Fit(d) /\ Untimed(b, d) /\ d.t3 /\ ~d.ackPending
    BY <2>3, TimerTypes
  <2> HIDE DEF d
  <2>5. Fit(e) /\ Same(d, e)
    BY <2>4, FireSame
  <2> HIDE DEF e
  <2>6. Fit(g) /\ Kept(e, g) /\ Served(g)
    BY <2>5, FlushWindowType
  <2> HIDE DEF g
  <2>7. Sound(g)
    BY <2>3, <2>4, <2>5, <2>6, N2Assumption DEF Untimed, Same, Kept, Sound
  <2>8. QED BY <2>2, <2>6, <2>7 DEF Serves
<1>3. CASE f.type = "DM"
  <2>1. Sound(Down(c)) /\ Down(c).state = "DISCONNECTED"
    BY DownSound DEF Sound
  <2>2. QED BY <1>3, <2>1 DEF RecvConnecting, Serves
<1>4. CASE f.type = "SABM"
  <2>1. UFrame("UA", f.pf) \in Frame
    BY <1>1, UFrameType
  <2>2. QED BY <1>4, <2>1, EmitSame, SameSound DEF RecvConnecting, Serves, Sound
<1>5. CASE f.type \notin {"UA", "DM", "SABM"}
  BY <1>5 DEF RecvConnecting, Serves
<1>6. QED BY <1>2, <1>3, <1>4, <1>5

\* A connected record that has just heard its peer.
Listening(c) == Sound(c) /\ c.state = "CONNECTED" /\ c.t3

\* Noting that the peer is busy, or not, keeps the record fit.
LEMMA PeerBusyType ==
    ASSUME NEW c, Listening(c), NEW busy \in BOOLEAN
    PROVE  LET d == [c EXCEPT !.peerBusy = busy]
           IN Fit(d) /\ d.state = "CONNECTED" /\ (d.ackPending => d.t2)
<1> DEFINE d == [c EXCEPT !.peerBusy = busy]
<1>1. Fit(d) /\ d.state = c.state /\ d.ackPending = c.ackPending /\ d.t2 = c.t2
  BY DEF Listening, Sound, Fit, ConnType
<1>2. QED BY <1>1 DEF Listening, Sound

\* After process_nr the link is supervised by T3 and its queue is served.
LEMMA AcknowledgedSound ==
    ASSUME NEW c, Fit(c), c.state = "CONNECTED", c.ackPending => c.t2, NEW nr \in SeqNo
    PROVE  LET d == ProcessNr(c, nr)
           IN Sound(d) /\ d.state = "CONNECTED" /\ Served(d)
BY ProcessNrType, N2Assumption DEF Heard, Sound

\* An I frame, in sequence or not, keeps the record sound.
LEMMA RecvISound ==
    ASSUME NEW c, Listening(c), NEW f \in Frame, NEW react \in Reaction
    PROVE  LET d == RecvI(c, f, react)
           IN Sound(d) /\ (d.state = "CONNECTED" => Served(d))
<1> DEFINE a == ProcessNr(c, f.nr)
<1>1. f.nr \in SeqNo /\ f.pf \in BOOLEAN
  BY DEF Frame
<1>2. Sound(a) /\ a.state = "CONNECTED" /\ Served(a)
  BY <1>1, AcknowledgedSound DEF Listening, Sound
<1>3. RecvI(c, f, react) = IF InSequence(a, f) THEN AcceptI(a, f, react) ELSE TxRej(a, f.pf)
  BY DEF RecvI
<1> HIDE DEF a
<1>4. Sound(TxRej(a, f.pf)) /\ Served(TxRej(a, f.pf))
  BY <1>1, <1>2, TxSame, SameSound DEF Sound
<1>5. QED BY <1>2, <1>3, <1>4, AcceptISound

\* So do RR, RNR and REJ.
LEMMA RecvSSound ==
    ASSUME NEW c, Listening(c), NEW f \in Frame
    PROVE  /\ Sound(RecvRR(c, f)) /\ Served(RecvRR(c, f))
           /\ Sound(RecvRnr(c, f)) /\ Served(RecvRnr(c, f))
           /\ Sound(RecvRej(c, f)) /\ Served(RecvRej(c, f))
<1> DEFINE p(busy) == [c EXCEPT !.peerBusy = busy]
           n(busy) == ProcessNr(p(busy), f.nr)
<1>1. f.nr \in SeqNo /\ f.pf \in BOOLEAN
  BY DEF Frame
<1>2. ASSUME NEW busy \in BOOLEAN
      PROVE  Sound(AnswerPoll(n(busy), f.pf)) /\ Served(AnswerPoll(n(busy), f.pf))
  <2>1. Sound(n(busy)) /\ Served(n(busy))
    BY <1>1, PeerBusyType, AcknowledgedSound
  <2> HIDE DEF n
  <2>2. Fit(AnswerPoll(n(busy), f.pf)) /\ Same(n(busy), AnswerPoll(n(busy), f.pf))
    BY <1>1, <2>1, AnswerPollSame DEF Sound
  <2>3. QED BY <2>1, <2>2, SameSound
<1>3. Sound(RecvRej(c, f)) /\ Served(RecvRej(c, f))
  <2> DEFINE ready == [c EXCEPT !.peerBusy = FALSE]
             taken == TakeNr(ready, f.nr)
             again == RetransmitAll(taken)
             full == FlushWindow(again)
  <2>1. Fit(ready) /\ ready.state = "CONNECTED" /\ (ready.ackPending => ready.t2)
    BY PeerBusyType
  <2>2. RecvRej(c, f) = full
    BY DEF RecvRej
  <2> HIDE DEF ready
  <2>3. /\ Fit(taken) /\ taken.state = "CONNECTED" /\ taken.retry = 0 /\ taken.t3
        /\ taken.ackPending => taken.t2
    BY <1>1, <2>1, TakeNrType
  <2> HIDE DEF taken
  <2>4. Fit(again) /\ Kept(taken, again)
    BY <2>3, RetransmitAllType
  <2> HIDE DEF again
  <2>5. Fit(full) /\ Kept(again, full) /\ Served(full)
    BY <2>4, FlushWindowType
  <2> HIDE DEF full
  <2>6. Sound(full)
    BY <2>3, <2>4, <2>5, N2Assumption DEF Kept, Sound
  <2>7. QED BY <2>2, <2>5, <2>6
<1>4. QED BY <1>2, <1>3 DEF RecvRR, RecvRnr

\* A DISC closes the connection.
LEMMA RecvDiscSound ==
    ASSUME NEW c, Listening(c), NEW pf \in BOOLEAN
    PROVE  Sound(RecvDisc(c, pf)) /\ RecvDisc(c, pf).state = "DISCONNECTED"
<1> DEFINE a == StopT3(c)
           b == [a EXCEPT !.sendBuf = <<>>, !.unacked = <<>>]
           d == Emit(b, UFrame("UA", pf))
<1>1. Fit(a) /\ ~a.t3
  BY TimerTypes DEF Listening, Sound
<1>2. RecvDisc(c, pf) = Down(d)
  BY DEF RecvDisc
<1> HIDE DEF a
<1>3. Fit(b) /\ ~b.t3
  <2>1. <<>> \in Seq(Data) /\ <<>> \in Seq(UnackedFrame) /\ Len(<<>>) <= Window
    BY WindowAssumption
  <2>2. QED BY <1>1, <2>1 DEF Fit, ConnType
<1> HIDE DEF b
<1>4. Fit(d) /\ Same(b, d)
  BY <1>3, UFrameType, EmitSame
<1>5. QED BY <1>2, <1>3, <1>4, DownSound DEF Same

\* A SABM in the middle of a session starts it again.
LEMMA RecvSabmAgainSound ==
    ASSUME NEW c, Listening(c), NEW pf \in BOOLEAN
    PROVE  Sound(RecvSabmAgain(c, pf)) /\ Served(RecvSabmAgain(c, pf))
<1> DEFINE a == ResetNumbers(c)
           b == [a EXCEPT !.unacked = <<>>, !.sendBuf = <<>>]
           d == Emit(b, UFrame("UA", pf))
<1>1. /\ Fit(a) /\ a.state = "CONNECTED" /\ a.retry = c.retry
      /\ a.t1 = c.t1 /\ a.t3 = c.t3 /\ ~a.ackPending
  BY ResetNumbersType DEF Listening, Sound
<1>2. RecvSabmAgain(c, pf) = d
  BY DEF RecvSabmAgain
<1> HIDE DEF a
<1>3. /\ Fit(b) /\ b.state = "CONNECTED" /\ b.retry = c.retry
      /\ b.t3 = c.t3 /\ ~b.ackPending /\ b.sendBuf = <<>>
  <2>1. <<>> \in Seq(Data) /\ <<>> \in Seq(UnackedFrame) /\ Len(<<>>) <= Window
    BY WindowAssumption
  <2>2. QED BY <1>1, <2>1 DEF Fit, ConnType
<1> HIDE DEF b
<1>4. Fit(d) /\ Same(b, d)
  BY <1>3, UFrameType, EmitSame
<1> HIDE DEF d
<1>5. QED BY <1>2, <1>3, <1>4 DEF Listening, Sound, Same, Served

\* Any frame keeps a connected record sound and its data served.
LEMMA RecvConnectedSound ==
    ASSUME NEW c, Sound(c), c.state = "CONNECTED", NEW f \in Frame, NEW react \in Reaction
    PROVE  Sound(RecvConnected(c, f, react)) /\ Serves(c, RecvConnected(c, f, react))
<1> DEFINE a == StartT3(c)
           heard == [a EXCEPT !.pollPending = FALSE]
           d == RecvConnected(c, f, react)
<1>1. f.pf \in BOOLEAN /\ f.type \in FrameType
  BY DEF Frame
<1>2. Fit(a) /\ Untimed(c, a) /\ a.t3 /\ a.t1 = c.t1 /\ a.t2 = c.t2
      /\ a.ackPending = c.ackPending
  BY TimerTypes DEF Sound
<1>3. /\ d = CASE f.type = "DISC" -> RecvDisc(heard, f.pf)
               [] f.type = "SABM" -> RecvSabmAgain(heard, f.pf)
               [] f.type = "DM"   -> LinkFailed(heard)
               [] f.type = "I"    -> RecvI(heard, f, react)
               [] f.type = "RR"   -> RecvRR(heard, f)
               [] f.type = "RNR"  -> RecvRnr(heard, f)
               [] f.type = "REJ"  -> RecvRej(heard, f)
               [] OTHER           -> heard
  BY DEF RecvConnected
<1> HIDE DEF a
<1>4. /\ Fit(heard) /\ heard.state = c.state /\ heard.t3 /\ heard.retry = c.retry
      /\ heard.t2 = c.t2 /\ heard.ackPending = c.ackPending
      /\ heard.sendBuf = c.sendBuf /\ heard.unacked = c.unacked /\ heard.peerBusy = c.peerBusy
  BY <1>2 DEF Fit, ConnType, Untimed
<1> HIDE DEF heard, d
<1>5. Listening(heard) /\ (Served(c) => Served(heard))
  BY <1>4 DEF Sound, Listening, Served
<1>6. Sound(d) /\ (d.state = "CONNECTED" => Served(d) \/ ~Served(c))
  <2>1. CASE f.type \in {"DISC", "DM"}
    BY <1>1, <1>3, <1>5, <2>1, RecvDiscSound, LinkFailedSound DEF Listening, Sound
  <2>2. CASE f.type = "SABM"
    BY <1>1, <1>3, <1>5, <2>2, RecvSabmAgainSound
  <2>3. CASE f.type = "I"
    BY <1>3, <1>5, <2>3, RecvISound
  <2>4. CASE f.type \in {"RR", "RNR", "REJ"}
    BY <1>3, <1>5, <2>4, RecvSSound
  <2>5. CASE f.type = "OTHER" \/ f.type = "UA"
    BY <1>3, <1>5, <2>5 DEF Listening
  <2>6. QED BY <1>1, <2>1, <2>2, <2>3, <2>4, <2>5 DEF FrameType
<1>7. QED BY <1>6 DEF Serves, d

\* handle_frame keeps the record sound, whatever the frame.
LEMMA HandleFrameSound ==
    ASSUME NEW c, Sound(c), NEW f \in Frame, NEW react \in Reaction
    PROVE  Sound(HandleFrame(c, f, react)) /\ Serves(c, HandleFrame(c, f, react))
<1>1. c.state \in State
  BY DEF Sound, Fit, ConnType
<1>2. CASE c.state = "DISCONNECTED"
  BY <1>2, RecvDisconnectedSound DEF HandleFrame
<1>3. CASE c.state = "CONNECTING"
  BY <1>3, RecvConnectingSound DEF HandleFrame
<1>4. CASE c.state = "CONNECTED"
  BY <1>4, RecvConnectedSound DEF HandleFrame
<1>5. CASE c.state = "DISCONNECTING"
  BY <1>5, DownSound DEF HandleFrame, RecvDisconnecting, Sound, Serves
<1>6. QED BY <1>1, <1>2, <1>3, <1>4, <1>5 DEF State

-----------------------------------------------------------------------------
(* tick                                                                    *)

\* T2 only sends the deferred acknowledgement.
LEMMA TickT2Sound ==
    ASSUME NEW c, Sound(c)
    PROVE  LET d == TickT2(c)
           IN Sound(d) /\ d.state = c.state /\ (Served(c) <=> Served(d))
              /\ d.sendBuf = c.sendBuf
<1> DEFINE a == [c EXCEPT !.t2 = FALSE, !.ackPending = FALSE]
           b == [c EXCEPT !.t2 = FALSE]
<1>1. CASE c.ackPending /\ c.state = "CONNECTED"
  <2>1. Fit(a) /\ Untimed(c, a) /\ a.t1 = c.t1 /\ a.t3 = c.t3 /\ ~a.ackPending
    BY DEF Sound, Fit, ConnType, Untimed
  <2>2. TickT2(c) = TxRR(a, FALSE)
    BY <1>1 DEF TickT2
  <2> HIDE DEF a
  <2>3. Fit(TxRR(a, FALSE)) /\ Same(a, TxRR(a, FALSE))
    BY <2>1, TxSame
  <2>4. QED BY <2>1, <2>2, <2>3 DEF Sound, Same, Untimed, Served
<1>2. CASE ~(c.ackPending /\ c.state = "CONNECTED")
  <2>1. Fit(b) /\ Untimed(c, b) /\ b.t1 = c.t1 /\ b.t3 = c.t3 /\ b.ackPending = c.ackPending
    BY DEF Sound, Fit, ConnType, Untimed
  <2>2. TickT2(c) = b
    BY <1>2 DEF TickT2
  <2> HIDE DEF b
  <2>3. QED BY <1>2, <2>1, <2>2 DEF Sound, Untimed, Served
<1>3. QED BY <1>1, <1>2

\* T1 expires: each path restarts it, hands over to nobody only when the
\* connection closes, and spends a retry that N2 allows.
LEMMA TickT1Sound ==
    ASSUME NEW c, Sound(c), c.t1
    PROVE  Sound(TickT1(c)) /\ Serves(c, TickT1(c))
           /\ TickT1(c).state \in {c.state, "DISCONNECTED"}
<1> DEFINE d == [c EXCEPT !.t1 = FALSE, !.retry = c.retry + 1]
<1>1. /\ Fit(d) /\ d.state = c.state /\ d.retry = c.retry + 1 /\ d.t3 = c.t3
      /\ d.t2 = c.t2 /\ d.ackPending = c.ackPending /\ d.pollPending = c.pollPending
      /\ d.sendBuf = c.sendBuf /\ d.unacked = c.unacked /\ d.peerBusy = c.peerBusy
  <2>1. c.retry + 1 \in Nat
    BY DEF Sound, Fit, ConnType
  <2>2. QED BY <2>1 DEF Sound, Fit, ConnType
<1>2. TickT1(c) = IF RetriesLeft(c) THEN Retry(d) ELSE LinkFailed(d)
  BY DEF TickT1
<1> HIDE DEF d
<1>3. Sound(LinkFailed(d)) /\ LinkFailed(d).state = "DISCONNECTED"
  BY <1>1, LinkFailedSound
<1>4. CASE ~RetriesLeft(c)
  BY <1>2, <1>3, <1>4 DEF Serves
<1>5. CASE RetriesLeft(c)
  <2>1. d.retry <= N2
    BY <1>1, <1>5 DEF RetriesLeft
  <2>2. d.state \in State /\ d.state # "DISCONNECTED"
    BY <1>1 DEF Sound, Fit, ConnType
  <2>3. CASE d.state \in {"CONNECTING", "DISCONNECTING"}
    <3> DEFINE e(type) == Emit(d, UFrame(type, TRUE))
    <3>1. ASSUME NEW type \in {"SABM", "DISC"}
          PROVE  /\ Sound(StartT1(e(type))) /\ StartT1(e(type)).state = d.state
      <4>1. Fit(e(type)) /\ Same(d, e(type))
        BY <1>1, EmitSame, UFrameType
      <4> HIDE DEF e
      <4>2. /\ Fit(StartT1(e(type))) /\ Untimed(e(type), StartT1(e(type)))
            /\ StartT1(e(type)).t1 /\ StartT1(e(type)).t3 = e(type).t3
        BY <4>1, TimerTypes
      <4>3. QED BY <1>1, <2>1, <2>3, <4>1, <4>2 DEF Sound, Same, Untimed
    <3>2. Retry(d) = IF d.state = "CONNECTING" THEN StartT1(e("SABM")) ELSE StartT1(e("DISC"))
      BY <2>3 DEF Retry
    <3> HIDE DEF e
    <3>3. QED BY <1>1, <1>2, <1>5, <2>3, <3>1, <3>2 DEF Serves
  <2>4. CASE d.state = "CONNECTED" /\ d.unacked # <<>>
    <3>1. Retry(d) = RetransmitAll(d)
      BY <2>4 DEF Retry
    <3>2. /\ Fit(RetransmitAll(d)) /\ Kept(d, RetransmitAll(d)) /\ RetransmitAll(d).t1
          /\ RetransmitAll(d).sendBuf = d.sendBuf
          /\ Len(RetransmitAll(d).unacked) = Len(d.unacked)
      BY <1>1, <2>4, RetransmitAllType
    <3>3. Sound(RetransmitAll(d)) /\ Serves(c, RetransmitAll(d))
      BY <1>1, <2>1, <2>4, <3>2 DEF Sound, Kept, Serves, Served
    <3>4. QED BY <1>1, <1>2, <1>5, <3>1, <3>2, <3>3 DEF Kept
  <2>5. CASE d.state = "CONNECTED" /\ d.unacked = <<>> /\ d.pollPending
    <3>1. Retry(d) = LinkFailed(d)
      BY <2>5 DEF Retry
    <3>2. QED BY <1>2, <1>3, <1>5, <3>1 DEF Serves
  <2>6. CASE d.state = "CONNECTED" /\ d.unacked = <<>> /\ ~d.pollPending
    <3>1. Retry(d) = d
      BY <2>6 DEF Retry
    <3>2. Sound(d) /\ Serves(c, d)
      BY <1>1, <2>1, <2>6 DEF Sound, Serves, Served
    <3>3. QED BY <1>1, <1>2, <1>5, <3>1, <3>2
  <2>7. QED BY <2>2, <2>3, <2>4, <2>5, <2>6 DEF State
<1>6. QED BY <1>4, <1>5

\* T3 hands the link over to T1.
LEMMA TickT3Sound ==
    ASSUME NEW c, Sound(c)
    PROVE  LET d == TickT3(c)
           IN Sound(d) /\ d.state = c.state /\ (Served(c) <=> Served(d))
              /\ d.sendBuf = c.sendBuf
<1> DEFINE a == TxPoll(c)
           b == [a EXCEPT !.t3 = FALSE, !.pollPending = TRUE, !.pollSent = a.pollSent + 1]
<1>1. CASE c.state # "CONNECTED"
  BY <1>1 DEF TickT3
<1>2. CASE c.state = "CONNECTED"
  <2>1. Fit(a) /\ Same(c, a)
    BY TxSame DEF Sound
  <2>2. TickT3(c) = StartT1(b)
    BY <1>2 DEF TickT3
  <2> HIDE DEF a
  <2>3. /\ Fit(b) /\ b.state = "CONNECTED" /\ b.retry = c.retry /\ b.pollPending
        /\ b.ackPending = c.ackPending /\ b.t2 = c.t2 /\ b.sendBuf = c.sendBuf
        /\ b.unacked = c.unacked /\ b.peerBusy = c.peerBusy
    <3>1. a.pollSent + 1 \in Nat
      BY <2>1 DEF Fit, ConnType
    <3>2. QED BY <1>2, <2>1, <3>1 DEF Fit, ConnType, Same
  <2> HIDE DEF b
  <2>4. /\ Fit(StartT1(b)) /\ Untimed(b, StartT1(b)) /\ StartT1(b).t1
        /\ StartT1(b).t2 = b.t2 /\ StartT1(b).ackPending = b.ackPending
    BY <2>3, TimerTypes
  <2>5. QED BY <1>2, <2>2, <2>3, <2>4 DEF Sound, Untimed, Served
<1>3. QED BY <1>1, <1>2

\* Any set of timers that run out keeps the record sound.
LEMMA TickSound ==
    ASSUME NEW c, Sound(c), NEW due
    PROVE  Sound(Tick(c, due)) /\ Serves(c, Tick(c, due))
<1> DEFINE a == IF c.t2 /\ "t2" \in due THEN TickT2(c) ELSE c
           b == IF a.t1 /\ "t1" \in due THEN TickT1(a) ELSE a
           d == IF b.t3 /\ "t3" \in due THEN TickT3(b) ELSE b
<1>1. Tick(c, due) = d
  BY DEF Tick
<1>2. Sound(a) /\ a.state = c.state /\ (Served(c) <=> Served(a))
  BY TickT2Sound
<1> HIDE DEF a
<1>3. Sound(b) /\ Serves(a, b) /\ b.state \in {a.state, "DISCONNECTED"}
  BY <1>2, TickT1Sound DEF Serves
<1> HIDE DEF b
<1>4. Sound(d) /\ d.state = b.state /\ (Served(b) <=> Served(d))
  BY <1>3, TickT3Sound
<1> HIDE DEF d
<1>5. Serves(c, d)
  BY <1>2, <1>3, <1>4 DEF Serves
<1>6. QED BY <1>1, <1>4, <1>5

-----------------------------------------------------------------------------
(* The destructor                                                          *)

\* The destructor leaves a closed record.
LEMMA DestroySound ==
    ASSUME NEW c
    PROVE  Sound(Destroy(c)) /\ Destroy(c).state = "DISCONNECTED"
<1>1. Fit(NewConnection) /\ UFrame("DISC", TRUE) \in Frame
  BY NewSound, UFrameType DEF Sound
<1>2. QED BY <1>1, NewSound, EmitSame, SameSound DEF Destroy

-----------------------------------------------------------------------------
(* Arithmetic modulo Modulus                                               *)

\* Quotient and remainder by the modulus.
LEMMA DivMod ==
    ASSUME NEW x \in Nat
    PROVE  /\ x = Modulus * (x \div Modulus) + (x % Modulus)
           /\ x % Modulus \in 0 .. Modulus - 1
           /\ x \div Modulus \in Nat
BY ModulusAssumption

\* Multiples of the modulus are that far apart.
LEMMA Multiples ==
    ASSUME NEW q \in Int, NEW r \in Int, q < r
    PROVE  Modulus * r >= Modulus * q + Modulus
<1>1. PICK k \in Nat : r = q + 1 + k
  <2>1. r - q - 1 \in Nat /\ r = q + 1 + (r - q - 1)
    OBVIOUS
  <2>2. QED BY <2>1
<1>2. Modulus * r = Modulus * q + Modulus + Modulus * k
  BY <1>1, ModulusAssumption
<1>3. Modulus * k >= 0
  BY <1>1, ModulusAssumption
<1>4. Modulus * k \in Int /\ Modulus * q \in Int
  BY <1>1, ModulusAssumption
<1>5. QED BY <1>2, <1>3, <1>4, ModulusAssumption

\* A sequence number is unambiguous among less than Modulus neighbours.
LEMMA Unambiguous ==
    ASSUME NEW x \in Nat, NEW y \in Nat, x % Modulus = y % Modulus,
           x < y + Modulus, y < x + Modulus
    PROVE  x = y
<1> DEFINE q == x \div Modulus
           r == y \div Modulus
           s == x % Modulus
<1>1. /\ x = Modulus * q + s /\ y = Modulus * r + s
      /\ q \in Nat /\ r \in Nat /\ s \in 0 .. Modulus - 1
  BY DivMod
<1> HIDE DEF q, r, s
<1>2. CASE q < r
  BY <1>1, <1>2, Multiples, ModulusAssumption
<1>3. CASE r < q
  BY <1>1, <1>3, Multiples, ModulusAssumption
<1>4. QED BY <1>1, <1>2, <1>3

\* Counting on from a sequence number.
LEMMA CountOn ==
    ASSUME NEW x \in Nat, NEW y \in Nat
    PROVE  ((x % Modulus) + y) % Modulus = (x + y) % Modulus
<1> DEFINE q == x \div Modulus
           s == x % Modulus
           z == (s + y) \div Modulus
           t == (s + y) % Modulus
           w == (x + y) \div Modulus
           u == (x + y) % Modulus
<1>1. x = Modulus * q + s /\ q \in Nat /\ s \in 0 .. Modulus - 1
  BY DivMod
<1>2. s + y \in Nat /\ x + y \in Nat
  BY <1>1
<1>3. s + y = Modulus * z + t /\ z \in Nat /\ t \in 0 .. Modulus - 1
  BY <1>2, DivMod
<1>4. x + y = Modulus * w + u /\ w \in Nat /\ u \in 0 .. Modulus - 1
  BY <1>2, DivMod
<1>5. t = u
  <2> HIDE DEF q, s, z, t, w, u
  <2>1. Modulus * (q + z) = Modulus * q + Modulus * z
    BY <1>1, <1>3, ModulusAssumption
  <2>2. Modulus * w + u = Modulus * (q + z) + t
    BY <1>1, <1>3, <1>4, <2>1, ModulusAssumption
  <2>3. CASE w < q + z
    BY <1>1, <1>3, <1>4, <2>2, <2>3, Multiples, ModulusAssumption
  <2>4. CASE q + z < w
    BY <1>1, <1>3, <1>4, <2>2, <2>4, Multiples, ModulusAssumption
  <2>5. CASE w = q + z
    BY <1>1, <1>3, <1>4, <2>2, <2>5, ModulusAssumption
  <2>6. QED BY <1>1, <1>3, <1>4, <2>3, <2>4, <2>5
<1>6. QED BY <1>5 DEF t, u, s

-----------------------------------------------------------------------------
(* What a connected record says                                            *)

\* In a session whose first chunk is b, chunk b + k goes out as number k
\* modulo Modulus.  lo of the n chunks so far are acknowledged.
InStep(c, b, lo, n) ==
    /\ \A i \in 1 .. Len(c.unacked) :
           c.unacked[i] = [ns |-> (lo + i - 1) % Modulus, data |-> b + lo + i - 1]
    /\ \A i \in 1 .. Len(c.sendBuf) : c.sendBuf[i] = b + lo + Len(c.unacked) + i - 1
    /\ c.va = lo % Modulus
    /\ c.vs = (lo + Len(c.unacked)) % Modulus
    /\ lo + Len(c.unacked) + Len(c.sendBuf) = n

Numbered(f) == f.type \in {"I", "RR", "RNR", "REJ"}

\* Frames that carry chunks lo to hi-1 of the session that began with b, and
\* acknowledge the first r, then the first s chunks of the peer.
Carries(f, b, lo, hi) ==
    \E k \in lo .. hi - 1 : f.data = b + k /\ f.ns = k % Modulus

Says(fs, b, lo, hi, r, s) ==
    /\ \A i \in 1 .. Len(fs) :
           /\ fs[i].type \notin {"SABM", "UA"}
           /\ fs[i].type = "I" => Carries(fs[i], b, lo, hi)
           /\ Numbered(fs[i]) => fs[i].nr \in {r % Modulus, s % Modulus}
    /\ \A i, j \in 1 .. Len(fs) :
           (/\ i < j /\ Numbered(fs[i]) /\ Numbered(fs[j]))
               => fs[i].nr = r % Modulus \/ fs[j].nr = s % Modulus

Talking(c, b, lo, n, r, s, h) ==
    /\ Fit(c) /\ InStep(c, b, lo, n)
    /\ c.vr = s % Modulus
    /\ Says(c.out, b, lo, lo + Len(c.unacked), r, s)
    /\ h <= lo + Len(c.unacked)

\* Nothing but frames comes of it.
Tells(c, d) == d.state = c.state /\ d.up = c.up

\* More frames, all with the later acknowledgement.
LEMMA SaysMore ==
    ASSUME NEW fs \in Seq(Frame), NEW gs \in Seq(Frame),
           NEW b \in Nat, NEW lo \in Nat, NEW hi \in Nat, NEW up \in Nat, hi <= up,
           NEW r \in Nat, NEW s \in Nat, Says(fs, b, lo, hi, r, s),
           \A i \in 1 .. Len(gs) :
               /\ gs[i].type \notin {"SABM", "UA"}
               /\ gs[i].type = "I" => Carries(gs[i], b, lo, up)
               /\ Numbered(gs[i]) => gs[i].nr = s % Modulus
    PROVE  Says(fs \o gs, b, lo, up, r, s)
<1> DEFINE hs == fs \o gs
           m == Len(fs)
<1>1. m \in Nat /\ Len(gs) \in Nat /\ Len(hs) = m + Len(gs)
  BY LenProperties, ConcatProperties
<1>2. \A i \in 1 .. m : hs[i] = fs[i]
  BY ConcatProperties, <1>1
<1>3. \A i \in 1 .. m + Len(gs) : i > m => hs[i] = gs[i - m] /\ i - m \in 1 .. Len(gs)
  BY ConcatProperties, <1>1
<1> HIDE DEF hs
<1>4. ASSUME NEW i \in 1 .. Len(hs)
      PROVE  /\ hs[i].type \notin {"SABM", "UA"}
             /\ hs[i].type = "I" => Carries(hs[i], b, lo, up)
             /\ Numbered(hs[i]) => hs[i].nr \in {r % Modulus, s % Modulus}
             /\ i > m /\ Numbered(hs[i]) => hs[i].nr = s % Modulus
  <2>1. CASE i \in 1 .. m
    <3>1. Carries(fs[i], b, lo, hi) => Carries(fs[i], b, lo, up)
      BY DEF Carries
    <3>2. QED BY <1>1, <1>2, <2>1, <3>1 DEF Says
  <2>2. CASE i > m
    BY <1>1, <1>3, <2>2
  <2>3. QED BY <1>1, <2>1, <2>2
<1>5. ASSUME NEW i \in 1 .. Len(hs), NEW j \in 1 .. Len(hs), i < j,
             Numbered(hs[i]), Numbered(hs[j])
      PROVE  hs[i].nr = r % Modulus \/ hs[j].nr = s % Modulus
  <2>1. CASE j > m
    BY <1>4, <1>5, <2>1
  <2>2. CASE ~(j > m)
    <3>1. i \in 1 .. m /\ j \in 1 .. m
      BY <1>1, <1>5, <2>2
    <3>2. QED BY <1>2, <1>5, <3>1 DEF Says
  <2>3. QED BY <2>1, <2>2
<1>6. QED BY <1>4, <1>5 DEF Says, hs

\* Nothing said yet fits any session.
LEMMA SaysNothing ==
    ASSUME NEW b, NEW lo, NEW hi, NEW r, NEW s
    PROVE  Says(<<>>, b, lo, hi, r, s)
BY DEF Says

\* A supervisory frame acknowledges all that was taken so far; DISC and DM
\* acknowledge nothing.
LEMMA EmitTalking ==
    ASSUME NEW c, NEW b \in Nat, NEW lo \in Nat, NEW n \in Nat, NEW r \in Nat,
           NEW s \in Nat, NEW h \in Nat,
           Talking(c, b, lo, n, r, s, h), NEW f \in Frame,
           f.type \notin {"SABM", "UA", "I"}, Numbered(f) => f.nr = c.vr
    PROVE  Talking(Emit(c, f), b, lo, n, r, s, h) /\ Tells(c, Emit(c, f))
<1> DEFINE d == Emit(c, f)
           hi == lo + Len(c.unacked)
<1>1. Fit(d) /\ Same(c, d)
  BY EmitSame DEF Talking
<1>2. c.out \in Seq(Frame) /\ <<f>> \in Seq(Frame) /\ hi \in Nat
  BY LenProperties DEF Talking, Fit, ConnType
<1>3. d.out = c.out \o <<f>>
  <2>1. d.out = Append(c.out, f)
    BY DEF Emit, Talking, Fit, ConnType
  <2>2. Append(c.out, f) = c.out \o <<f>>
    BY <1>2, AppendIsConcat
  <2>3. QED BY <2>1, <2>2
<1>4. \A i \in 1 .. Len(<<f>>) : <<f>>[i] = f
  OBVIOUS
<1>5. Says(d.out, b, lo, hi, r, s)
  <2> HIDE DEF d, hi
  <2>1. Says(c.out, b, lo, hi, r, s) /\ c.vr = s % Modulus
    BY DEF Talking, hi
  <2>2. hi <= hi
    BY <1>2
  <2>3. \A i \in 1 .. Len(<<f>>) :
           /\ <<f>>[i].type \notin {"SABM", "UA"}
           /\ <<f>>[i].type = "I" => Carries(<<f>>[i], b, lo, hi)
           /\ Numbered(<<f>>[i]) => <<f>>[i].nr = s % Modulus
    BY <1>4, <2>1
  <2>4. Says(c.out \o <<f>>, b, lo, hi, r, s)
    BY <1>2, <2>1, <2>2, <2>3, SaysMore
  <2>5. QED BY <1>3, <2>4
<1>6. /\ d.va = c.va /\ d.vs = c.vs /\ d.vr = c.vr /\ d.up = c.up /\ d.state = c.state
      /\ d.unacked = c.unacked /\ d.sendBuf = c.sendBuf
  BY DEF Emit, Talking, Fit, ConnType
<1> HIDE DEF d
<1>7. QED BY <1>1, <1>5, <1>6 DEF Talking, InStep, Tells, hi, d

\* An RR, a poll or a REJ tells what the session has received.
LEMMA TxTalking ==
    ASSUME NEW c, NEW b \in Nat, NEW lo \in Nat, NEW n \in Nat, NEW r \in Nat,
           NEW s \in Nat, NEW h \in Nat,
           Talking(c, b, lo, n, r, s, h), NEW pf \in BOOLEAN
    PROVE  /\ Talking(TxRR(c, pf), b, lo, n, r, s, h) /\ Tells(c, TxRR(c, pf))
           /\ Talking(TxPoll(c), b, lo, n, r, s, h) /\ Tells(c, TxPoll(c))
           /\ Talking(TxRej(c, pf), b, lo, n, r, s, h) /\ Tells(c, TxRej(c, pf))
<1>1. c.vr \in SeqNo
  BY DEF Talking, Fit, ConnType
<1>2. ASSUME NEW t \in {"RR", "REJ"}, NEW p \in BOOLEAN, NEW poll \in BOOLEAN
      PROVE  LET f == SFrame(t, c.vr, p, poll)
             IN f \in Frame /\ f.type = t /\ f.nr = c.vr
  BY <1>1, FrameTypes DEF SFrame
<1>3. ASSUME NEW t \in {"RR", "REJ"}, NEW p \in BOOLEAN, NEW poll \in BOOLEAN
      PROVE  LET d == Emit(c, SFrame(t, c.vr, p, poll))
             IN Talking(d, b, lo, n, r, s, h) /\ Tells(c, d)
  <2> DEFINE f == SFrame(t, c.vr, p, poll)
  <2>1. f \in Frame /\ f.type \notin {"SABM", "UA", "I"} /\ f.nr = c.vr
    BY <1>2
  <2> HIDE DEF f
  <2>2. Talking(Emit(c, f), b, lo, n, r, s, h) /\ Tells(c, Emit(c, f))
    BY <2>1, EmitTalking
  <2>3. QED BY <2>2 DEF f
<1>4. QED BY <1>3 DEF TxRR, TxPoll, TxRej

\* Fields that no session coordinate depends on.
Beside(c, d) ==
    /\ Fit(d)
    /\ \A f \in {"vs", "va", "vr", "unacked", "sendBuf", "out"} : d[f] = c[f]

\* What is beside the session does not change what it says.
LEMMA BesideTalking ==
    ASSUME NEW c, NEW b, NEW lo, NEW n, NEW r, NEW s, NEW h,
           Talking(c, b, lo, n, r, s, h), NEW d, Beside(c, d)
    PROVE  Talking(d, b, lo, n, r, s, h)
<1>1. /\ d.vs = c.vs /\ d.va = c.va /\ d.vr = c.vr /\ d.unacked = c.unacked
      /\ d.sendBuf = c.sendBuf /\ d.out = c.out /\ Fit(d)
  BY DEF Beside
<1>2. QED BY <1>1 DEF Talking, InStep

\* tx_iframe for chunks lo to hi-1 of the session.
LEMMA TxIframesSays ==
    ASSUME NEW c, NEW b \in Nat, NEW lo \in Nat, NEW hi \in Nat, NEW to \in Nat, hi <= to,
           NEW r \in Nat, NEW s \in Nat,
           c \in ConnType, c.vr = s % Modulus, Says(c.out, b, lo, hi, r, s),
           NEW frames \in Seq(UnackedFrame), NEW poll \in BOOLEAN,
           \A i \in 1 .. Len(frames) : Carries(frames[i], b, lo, to)
    PROVE  LET d == TxIframes(c, frames, poll)
           IN /\ d \in ConnType /\ SameButAck(c, d)
              /\ Says(d.out, b, lo, to, r, s)
<1> DEFINE tx == [i \in DOMAIN frames |->
                    IFrame(frames[i].ns, c.vr, poll /\ i = Len(frames), frames[i].data)]
           d == TxIframes(c, frames, poll)
<1>1. d \in ConnType /\ SameButAck(c, d)
  BY TxIframesType
<1>2. /\ DOMAIN frames = 1 .. Len(frames) /\ Len(frames) \in Nat
      /\ \A i \in 1 .. Len(frames) : frames[i] \in UnackedFrame
  BY LenProperties, ElementOfSeq
<1>3. \A i \in 1 .. Len(frames) :
         /\ tx[i] \in Frame /\ tx[i].type = "I" /\ tx[i].nr = c.vr
         /\ tx[i].ns = frames[i].ns /\ tx[i].data = frames[i].data
  BY <1>2 DEF IFrame, Frame, FrameType, UnackedFrame, ConnType
<1>4. tx \in Seq(Frame) /\ Len(tx) = Len(frames)
  <2>1. tx \in [1 .. Len(frames) -> Frame]
    BY <1>2, <1>3
  <2> HIDE DEF tx
  <2>2. QED BY <1>2, <2>1
<1>5. d.out = c.out \o tx
  BY DEF TxIframes, ConnType
<1>6. \A i \in 1 .. Len(tx) : Carries(tx[i], b, lo, to)
  <2> TAKE i \in 1 .. Len(tx)
  <2>1. i \in 1 .. Len(frames)
    BY <1>4
  <2> HIDE DEF tx
  <2>2. QED BY <1>3, <2>1 DEF Carries
<1> HIDE DEF tx, d
<1>7. c.out \in Seq(Frame)
  BY DEF ConnType
<1>8. Says(c.out \o tx, b, lo, to, r, s)
  BY <1>3, <1>4, <1>6, <1>7, SaysMore
<1>9. QED BY <1>1, <1>5, <1>8 DEF d

\* flush_window sends the next chunks under the next numbers.
LEMMA SendChunksTalking ==
    ASSUME NEW c, NEW b \in Nat, NEW lo \in Nat, NEW n \in Nat, NEW r \in Nat,
           NEW s \in Nat, NEW h \in Nat,
           Talking(c, b, lo, n, r, s, h)
    PROVE  LET d == SendChunks(c, Room(c))
           IN Talking(d, b, lo, n, r, s, h) /\ Tells(c, d)
<1> DEFINE u == Len(c.unacked)
           k == Room(c)
           burst == Burst(c, k)
           filled == u + k >= Window
           tx == TxIframes(c, burst, filled)
           vs == (c.vs + k) % Modulus
           rest == SubSeq(c.sendBuf, k + 1, Len(c.sendBuf))
           d == SendChunks(c, k)
<1>1. /\ Fit(c) /\ InStep(c, b, lo, n) /\ c.vr = s % Modulus
      /\ Says(c.out, b, lo, lo + u, r, s)
  BY DEF Talking
<1>2. Fit(d)
  BY <1>1, SendChunksType
<1>3. k \in 0 .. Len(c.sendBuf)
  BY <1>1, RoomType
<1>4. /\ c \in ConnType /\ c.unacked \in Seq(UnackedFrame) /\ u \in Nat
      /\ c.sendBuf \in Seq(Data) /\ Len(c.sendBuf) \in Nat
  BY <1>1, LenProperties DEF Fit, ConnType
<1>5. burst \in Seq(UnackedFrame) /\ Len(burst) = k
  BY <1>1, <1>3, BurstType
<1>u. u = Len(c.unacked) /\ k \in Nat /\ k <= Len(c.sendBuf)
  BY <1>3, <1>4
<1>v. /\ \A i \in 1 .. u :
            c.unacked[i] = [ns |-> (lo + i - 1) % Modulus, data |-> b + lo + i - 1]
      /\ \A i \in 1 .. Len(c.sendBuf) : c.sendBuf[i] = b + lo + u + i - 1
      /\ c.va = lo % Modulus /\ c.vs = (lo + u) % Modulus
      /\ lo + u + Len(c.sendBuf) = n
  BY <1>1 DEF InStep
<1>b. \A i \in 1 .. k : burst[i] = [ns |-> (c.vs + i - 1) % Modulus, data |-> c.sendBuf[i]]
  BY DEF Burst
<1>c. d = [tx EXCEPT !.vs = (@ + k) % Modulus, !.unacked = @ \o burst,
                     !.sendBuf = SubSeq(@, k + 1, Len(@))]
  BY Zenon DEF SendChunks
<1> HIDE DEF k, u, burst
<1>w. u \in Nat /\ k \in Nat /\ Len(c.sendBuf) \in Nat /\ k <= Len(c.sendBuf)
  BY <1>u, <1>4
<1>6. \A i \in 1 .. k :
         burst[i] = [ns |-> (lo + u + i - 1) % Modulus, data |-> b + lo + u + i - 1]
  <2> TAKE i \in 1 .. k
  <2>1. burst[i] = [ns |-> (c.vs + i - 1) % Modulus, data |-> c.sendBuf[i]]
    BY <1>b
  <2>2. c.sendBuf[i] = b + lo + u + i - 1
    <3>1. i \in 1 .. Len(c.sendBuf)
      BY <1>w
    <3>2. QED BY <1>v, <3>1
  <2>3. (c.vs + i - 1) % Modulus = (lo + u + i - 1) % Modulus
    <3>1. c.vs = (lo + u) % Modulus
      BY <1>u, <1>v
    <3>2. i - 1 \in Nat /\ lo + u \in Nat
      BY <1>u, <1>3, <1>4
    <3>3. (((lo + u) % Modulus) + (i - 1)) % Modulus = (lo + u + (i - 1)) % Modulus
      BY <3>2, CountOn
    <3>4. c.vs + i - 1 = c.vs + (i - 1) /\ lo + u + i - 1 = lo + u + (i - 1)
      BY <1>u, <1>3, <1>4 DEF ConnType, SeqNo
    <3>5. QED BY <3>1, <3>3, <3>4
  <2>4. QED BY <2>1, <2>2, <2>3
<1>7. vs = (lo + u + k) % Modulus
  <2>1. lo + u \in Nat
    BY <1>w
  <2>2. (((lo + u) % Modulus) + k) % Modulus = ((lo + u) + k) % Modulus
    BY <1>w, <2>1, CountOn
  <2>3. c.vs = (lo + u) % Modulus
    BY <1>v
  <2>4. QED BY <2>2, <2>3
<1>8. /\ Len(rest) = Len(c.sendBuf) - k
      /\ \A i \in 1 .. Len(rest) : rest[i] = c.sendBuf[k + i]
  <2> HIDE DEF d
  <2>1. \A i \in k + 1 .. Len(c.sendBuf) : c.sendBuf[i] \in Data
    BY <1>u, <1>3, <1>4, ElementOfSeq
  <2>2. /\ Len(rest) = IF k + 1 <= Len(c.sendBuf) THEN Len(c.sendBuf) - (k + 1) + 1 ELSE 0
        /\ \A i \in 1 .. Len(c.sendBuf) - (k + 1) + 1 :
              rest[i] = c.sendBuf[(k + 1) + i - 1]
    BY <1>w, <1>4, <2>1, SubSeqProperties, SMTT(30)
  <2> DEFINE l == Len(c.sendBuf)
  <2>3. /\ l \in Nat /\ k <= l
        /\ Len(rest) = IF k + 1 <= l THEN l - (k + 1) + 1 ELSE 0
        /\ \A i \in 1 .. l - (k + 1) + 1 : rest[i] = c.sendBuf[(k + 1) + i - 1]
    BY <1>w, <2>2
  <2> HIDE DEF l, rest
  <2>4. Len(rest) = l - k /\ l - (k + 1) + 1 = l - k
    BY <1>w, <2>3
  <2>5. ASSUME NEW i \in 1 .. Len(rest) PROVE rest[i] = c.sendBuf[k + i]
    <3>1. (k + 1) + i - 1 = k + i /\ i \in 1 .. l - (k + 1) + 1
      BY <1>w, <2>4
    <3>2. QED BY <2>3, <3>1
  <2>6. QED BY <2>4, <2>5 DEF l
<1>9. /\ Len(c.unacked \o burst) = u + k
      /\ \A i \in 1 .. u : (c.unacked \o burst)[i] = c.unacked[i]
      /\ \A i \in 1 .. u + k : i > u => (c.unacked \o burst)[i] = burst[i - u]
  <2>1. /\ Len(c.unacked \o burst) = Len(c.unacked) + Len(burst)
        /\ \A i \in 1 .. Len(c.unacked) + Len(burst) :
              (c.unacked \o burst)[i] = IF i <= Len(c.unacked) THEN c.unacked[i]
                                        ELSE burst[i - Len(c.unacked)]
    BY <1>4, <1>5, ConcatProperties
  <2>2. Len(c.unacked) = u /\ Len(burst) = k /\ u \in Nat /\ k \in Nat
    BY <1>u, <1>4, <1>5
  <2> DEFINE w == c.unacked \o burst
  <2>3. /\ Len(w) = u + k
        /\ \A i \in 1 .. u + k : w[i] = IF i <= u THEN c.unacked[i] ELSE burst[i - u]
    BY <2>1, <2>2
  <2> HIDE DEF w
  <2>4. ASSUME NEW i \in 1 .. u PROVE w[i] = c.unacked[i]
    <3>1. i \in 1 .. u + k /\ i <= u
      BY <2>2
    <3>2. QED BY <2>3, <3>1
  <2>5. ASSUME NEW i \in 1 .. u + k, i > u PROVE w[i] = burst[i - u]
    <3>1. ~(i <= u)
      BY <2>2, <2>5
    <3>2. QED BY <2>3, <3>1
  <2>6. QED BY <2>3, <2>4, <2>5 DEF w
<1>10. \A i \in 1 .. Len(burst) : Carries(burst[i], b, lo, lo + u + k)
  <2> TAKE i \in 1 .. Len(burst)
  <2>1. i \in 1 .. k
    BY <1>5
  <2>2. lo + u + i - 1 \in lo .. (lo + u + k) - 1
    BY <1>u, <1>3, <1>4, <2>1
  <2>3. burst[i].data = b + (lo + u + i - 1) /\ burst[i].ns = (lo + u + i - 1) % Modulus
    <3>1. b + lo + u + i - 1 = b + (lo + u + i - 1)
      BY <1>w, <2>1
    <3>2. burst[i] = [ns |-> (lo + u + i - 1) % Modulus, data |-> b + lo + u + i - 1]
      BY <1>6, <2>1
    <3>3. QED BY <3>1, <3>2
  <2>4. QED BY <2>2, <2>3 DEF Carries
<1>11. /\ tx \in ConnType /\ SameButAck(c, tx)
       /\ Says(tx.out, b, lo, lo + u + k, r, s)
  <2>1. filled \in BOOLEAN
    BY <1>u, <1>3, <1>4, WindowAssumption
  <2>2. lo + u \in Nat /\ lo + u + k \in Nat /\ lo + u <= lo + u + k
    BY <1>u, <1>3, <1>4
  <2> HIDE DEF filled
  <2>3. QED BY <1>1, <1>4, <1>5, <1>10, <2>1, <2>2, TxIframesSays
<1>12. /\ tx.vs = c.vs /\ tx.va = c.va /\ tx.vr = c.vr /\ tx.unacked = c.unacked
       /\ tx.sendBuf = c.sendBuf /\ tx.state = c.state /\ tx.up = c.up
  BY <1>11 DEF SameButAck
<1>13. d = [tx EXCEPT !.vs = vs, !.unacked = c.unacked \o burst, !.sendBuf = rest]
  BY <1>c, <1>11, <1>12 DEF ConnType
<1> HIDE DEF tx, vs, rest, d
<1>14. /\ d.vs = vs /\ d.va = c.va /\ d.vr = c.vr /\ d.unacked = c.unacked \o burst
       /\ d.sendBuf = rest /\ d.state = c.state /\ d.up = c.up /\ d.out = tx.out
  BY <1>11, <1>12, <1>13 DEF ConnType
<1>x. Len(d.unacked) = u + k /\ Len(d.sendBuf) = Len(c.sendBuf) - k
  BY <1>8, <1>9, <1>14
<1>15. InStep(d, b, lo, n)
  <2>1. ASSUME NEW i \in 1 .. Len(d.unacked)
        PROVE  d.unacked[i] = [ns |-> (lo + i - 1) % Modulus, data |-> b + lo + i - 1]
    <3>1. CASE i \in 1 .. u
      BY <1>u, <1>v, <1>9, <1>14, <3>1
    <3>2. CASE i > u
      <4>1. i - u \in 1 .. k /\ d.unacked[i] = burst[i - u]
        BY <1>u, <1>3, <1>4, <1>9, <1>14, <2>1, <3>2
      <4>2. lo + u + (i - u) - 1 = lo + i - 1 /\ b + lo + u + (i - u) - 1 = b + lo + i - 1
        BY <1>4
      <4>3. QED BY <1>6, <4>1, <4>2
    <3>3. QED BY <1>u, <1>3, <1>4, <1>9, <1>14, <2>1, <3>1, <3>2
  <2>2. \A i \in 1 .. Len(d.sendBuf) : d.sendBuf[i] = b + lo + Len(d.unacked) + i - 1
    <3> TAKE i \in 1 .. Len(d.sendBuf)
    <3> DEFINE l == Len(c.sendBuf)
    <3>0. l \in Nat /\ k <= l /\ i \in 1 .. l - k
      BY <1>w, <1>x
    <3> HIDE DEF l
    <3>a. k + i \in 1 .. l
      BY <1>w, <3>0
    <3>b. d.sendBuf[i] = rest[i] /\ i \in 1 .. Len(rest)
      BY <1>8, <1>14
    <3>1. d.sendBuf[i] = c.sendBuf[k + i] /\ k + i \in 1 .. Len(c.sendBuf)
      BY <1>8, <3>a, <3>b DEF l
    <3>2. c.sendBuf[k + i] = b + lo + u + (k + i) - 1
      BY <1>u, <1>v, <3>1
    <3>3. lo + u + (k + i) - 1 = lo + (u + k) + i - 1
      BY <1>w
    <3>4. b + lo + u + (k + i) - 1 = b + lo + (u + k) + i - 1
      BY <1>w
    <3>5. QED BY <1>x, <3>1, <3>2, <3>4
  <2>3. lo + Len(d.unacked) + Len(d.sendBuf) = n
    <3>1. lo + u + Len(c.sendBuf) = n
      BY <1>v
    <3> DEFINE l == Len(c.sendBuf)
    <3>2. l \in Nat /\ lo + u + l = n
      BY <1>w, <3>1
    <3>3. Len(d.unacked) = u + k /\ Len(d.sendBuf) = l - k
      BY <1>x
    <3> HIDE DEF l
    <3>4. lo + (u + k) + (l - k) = n
      BY <1>w, <3>2
    <3>5. QED BY <3>3, <3>4
  <2>4. d.vs = (lo + Len(d.unacked)) % Modulus /\ d.va = lo % Modulus
    <3>1. lo + Len(d.unacked) = lo + u + k
      BY <1>w, <1>x
    <3>2. QED BY <1>u, <1>v, <1>7, <1>14, <3>1
  <2>5. QED BY <2>1, <2>2, <2>3, <2>4 DEF InStep
<1>16. lo + Len(d.unacked) = lo + u + k
  BY <1>w, <1>x
<1>17. QED BY <1>1, <1>u, <1>v, <1>2, <1>11, <1>14, <1>15, <1>16 DEF Talking, Tells, d, k

\* flush_window sends the next chunks, with the next numbers.
LEMMA FlushTalking ==
    ASSUME NEW c, NEW b \in Nat, NEW lo \in Nat, NEW n \in Nat, NEW r \in Nat,
           NEW s \in Nat, NEW h \in Nat,
           Talking(c, b, lo, n, r, s, h)
    PROVE  LET d == FlushWindow(c)
           IN Talking(d, b, lo, n, r, s, h) /\ Tells(c, d)
<1> DEFINE e == SendChunks(c, Room(c))
<1>1. CASE c.peerBusy
  BY <1>1 DEF FlushWindow, Tells
<1>2. CASE ~c.peerBusy
  <2>0. Talking(e, b, lo, n, r, s, h) /\ Tells(c, e)
    BY SendChunksTalking
  <2>1. Talking(e, b, lo, n, r, s, h) /\ Tells(c, e) /\ Fit(e)
    BY <2>0 DEF Talking
  <2>2. FlushWindow(c) = IF e.unacked # <<>> THEN StartT1(e) ELSE e
    BY <1>2 DEF FlushWindow
  <2> HIDE DEF e
  <2>3. Beside(e, StartT1(e)) /\ Tells(e, StartT1(e))
    BY <2>1 DEF StartT1, Beside, Tells, Fit, ConnType
  <2>4. Talking(StartT1(e), b, lo, n, r, s, h)
    BY <2>1, <2>3, BesideTalking
  <2>5. QED BY <2>1, <2>2, <2>3, <2>4 DEF Tells
<1>3. QED BY <1>1, <1>2

\* An N(R) that covers k chunks pops just those of the first k that are left.
LEMMA CoveredPrefix ==
    ASSUME NEW u \in Seq(UnackedFrame), Len(u) <= Window, NEW lo \in Nat,
           \A i \in 1 .. Len(u) : u[i].ns = (lo + i - 1) % Modulus,
           NEW k \in lo .. lo + Len(u)
    PROVE  Cardinality(AckedPrefix(u, k % Modulus)) = k - lo
<1> DEFINE m == k - lo
           nr == k % Modulus
<1>1. Len(u) \in Nat /\ m \in 0 .. Len(u) /\ k \in Nat
  BY LenProperties
<1>2. ASSUME NEW i \in 1 .. m PROVE u[i].ns # nr
  <2> DEFINE x == lo + i - 1
  <2>1. x \in Nat /\ x < k /\ k < x + Modulus /\ i \in 1 .. Len(u)
    <3> DEFINE l == Len(u)
    <3>1. l \in Nat /\ l < Modulus /\ Modulus \in Nat /\ k \in lo .. lo + l
      BY <1>1, WindowAssumption, ModulusAssumption
    <3> HIDE DEF l
    <3>2. i \in 1 .. k - lo
      OBVIOUS
    <3>3. x \in Nat /\ x < k /\ k < x + Modulus /\ i \in 1 .. l
      BY <3>1, <3>2
    <3>4. QED BY <3>3 DEF l
  <2>2. u[i].ns = x % Modulus
    BY <2>1
  <2> HIDE DEF x
  <2>3. x % Modulus # k % Modulus
    <3>1. x < k + Modulus /\ k # x
      BY <1>1, <2>1, ModulusAssumption
    <3>2. QED BY <1>1, <2>1, <3>1, Unambiguous
  <2>4. QED BY <2>2, <2>3
<1>3. m < Len(u) => u[m + 1].ns = nr
  <2> SUFFICES ASSUME m < Len(u) PROVE u[m + 1].ns = nr
    OBVIOUS
  <2>1. m + 1 \in 1 .. Len(u) /\ lo + (m + 1) - 1 = k
    BY <1>1
  <2>2. QED BY <2>1
<1> HIDE DEF nr, m
<1>4. AckedPrefix(u, nr) = 1 .. m
  <2>1. ASSUME NEW j \in AckedPrefix(u, nr) PROVE j \in 1 .. m
    <3>1. j \in 1 .. Len(u) /\ \A i \in 1 .. j : u[i].ns # nr
      BY DEF AckedPrefix
    <3>2. CASE m < Len(u)
      <4>1. ~(m + 1 \in 1 .. j)
        BY <1>3, <3>1, <3>2
      <4>2. QED BY <1>1, <3>1, <4>1
    <3>3. CASE ~(m < Len(u))
      BY <1>1, <3>1, <3>3
    <3>4. QED BY <3>2, <3>3
  <2>2. ASSUME NEW j \in 1 .. m PROVE j \in AckedPrefix(u, nr)
    BY <1>1, <1>2 DEF AckedPrefix
  <2>3. QED BY <2>1, <2>2
<1>5. Cardinality(1 .. m) = m
  BY <1>1, FS_Interval
<1>6. QED BY <1>4, <1>5 DEF m, nr

\* An acknowledgement up to k moves the session's first chunk to k ...
LEMMA TakeNrTalking ==
    ASSUME NEW c, NEW b \in Nat, NEW lo \in Nat, NEW n \in Nat, NEW r \in Nat,
           NEW s \in Nat, NEW h \in Nat,
           Talking(c, b, lo, n, r, s, h), c.out = <<>>,
           NEW k \in lo .. lo + Len(c.unacked)
    PROVE  LET d == TakeNr(c, k % Modulus)
           IN Talking(d, b, k, n, r, s, h) /\ Tells(c, d) /\ d.out = <<>>
<1> DEFINE m == k - lo
           nr == k % Modulus
           l == Len(c.unacked)
           u == PopAcked(c.unacked, nr)
           d == TakeNr(c, nr)
<1>1. /\ Fit(c) /\ c \in ConnType /\ c.unacked \in Seq(UnackedFrame) /\ l \in Nat
      /\ l <= Window /\ InStep(c, b, lo, n) /\ c.vr = s % Modulus
  BY LenProperties DEF Talking, Fit, ConnType
<1>2. m \in 0 .. l /\ k \in Nat /\ k = lo + m
  BY <1>1
<1>3. nr \in SeqNo
  BY <1>2, ModType
<1>4. Fit(d)
  BY <1>1, <1>3, TakeNrType
<1>5. d = [c EXCEPT !.unacked = u, !.va = nr, !.retry = 0, !.t3 = TRUE]
  BY DEF TakeNr
<1>6. \A i \in 1 .. l :
         c.unacked[i] = [ns |-> (lo + i - 1) % Modulus, data |-> b + lo + i - 1]
  BY <1>1 DEF InStep
<1>7. u = SubSeq(c.unacked, m + 1, l)
  <2>1. \A i \in 1 .. l : c.unacked[i].ns = (lo + i - 1) % Modulus
    <3> TAKE i \in 1 .. l
    <3>1. c.unacked[i] = [ns |-> (lo + i - 1) % Modulus, data |-> b + lo + i - 1]
      BY <1>6
    <3>2. QED BY <3>1
  <2>2. Cardinality(AckedPrefix(c.unacked, nr)) = m
    BY <1>1, <2>1, CoveredPrefix
  <2>3. QED BY <2>2 DEF PopAcked
<1> HIDE DEF u, m, l, nr, d
<1>8. /\ Len(u) = l - m
      /\ \A i \in 1 .. l - m : u[i] = c.unacked[m + i]
  <2>0. l = Len(c.unacked)
    BY DEF l
  <2>1. \A i \in m + 1 .. l : c.unacked[i] \in UnackedFrame
    BY <1>1, <1>2, <2>0, ElementOfSeq
  <2>2. /\ Len(u) = IF m + 1 <= l THEN l - (m + 1) + 1 ELSE 0
        /\ \A i \in 1 .. l - (m + 1) + 1 : u[i] = c.unacked[(m + 1) + i - 1]
    BY <1>1, <1>2, <1>7, <2>1, SubSeqProperties
  <2>3. l - (m + 1) + 1 = l - m
    BY <1>1, <1>2
  <2>4. Len(u) = l - m
    BY <1>1, <1>2, <2>2, <2>3
  <2>5. ASSUME NEW i \in 1 .. l - m PROVE u[i] = c.unacked[m + i]
    <3>1. (m + 1) + i - 1 = m + i
      BY <1>1, <1>2
    <3>2. QED BY <2>2, <2>3, <3>1
  <2>6. QED BY <2>4, <2>5
<1>9. /\ d.unacked = u /\ d.va = nr /\ d.vs = c.vs /\ d.vr = c.vr /\ d.sendBuf = c.sendBuf
      /\ d.out = c.out /\ d.up = c.up /\ d.state = c.state
  BY <1>1, <1>5 DEF ConnType
<1>10. \A i \in 1 .. Len(d.unacked) :
          d.unacked[i] = [ns |-> (k + i - 1) % Modulus, data |-> b + k + i - 1]
  <2> TAKE i \in 1 .. Len(d.unacked)
  <2>1. i \in 1 .. l - m
    BY <1>8, <1>9
  <2>2. d.unacked[i] = c.unacked[m + i] /\ m + i \in 1 .. l
    BY <1>1, <1>2, <1>8, <1>9, <2>1
  <2>3. lo + (m + i) - 1 = k + i - 1 /\ b + lo + (m + i) - 1 = b + k + i - 1
    BY <1>2
  <2>4. QED BY <1>6, <2>2, <2>3
<1>11. k + Len(d.unacked) = lo + l
  <2>1. k + (l - m) = lo + l
    BY <1>1, <1>2
  <2>2. Len(d.unacked) = l - m
    BY <1>8, <1>9
  <2>3. QED BY <2>1, <2>2
<1>12. /\ \A i \in 1 .. Len(c.sendBuf) : c.sendBuf[i] = b + lo + l + i - 1
       /\ c.vs = (lo + l) % Modulus /\ lo + l + Len(c.sendBuf) = n
  BY <1>1 DEF InStep, l
<1>13. InStep(d, b, k, n)
  <2>1. ASSUME NEW i \in 1 .. Len(d.sendBuf)
        PROVE  d.sendBuf[i] = b + k + Len(d.unacked) + i - 1
    <3> DEFINE v == Len(d.unacked)
    <3>1. v \in Nat /\ k + v = lo + l
      BY <1>1, <1>2, <1>8, <1>9, <1>11
    <3>2. d.sendBuf[i] = b + lo + l + i - 1
      BY <1>9, <1>12
    <3> HIDE DEF v
    <3>3. i \in Nat /\ b + lo + l + i - 1 = b + (lo + l) + i - 1
             /\ b + k + v + i - 1 = b + (k + v) + i - 1
      BY <1>1, <1>2, <3>1
    <3>4. QED BY <3>1, <3>2, <3>3 DEF v
  <2>2. k + Len(d.unacked) + Len(d.sendBuf) = n
    BY <1>9, <1>11, <1>12
  <2>3. d.vs = (k + Len(d.unacked)) % Modulus /\ d.va = k % Modulus
    BY <1>9, <1>11, <1>12 DEF nr
  <2>4. QED BY <1>10, <2>1, <2>2, <2>3 DEF InStep
<1>14. Says(d.out, b, k, k + Len(d.unacked), r, s)
  BY <1>9, SaysNothing
<1>15. h <= k + Len(d.unacked)
  BY <1>11 DEF Talking, l
<1>16. QED BY <1>1, <1>4, <1>9, <1>13, <1>14, <1>15 DEF Talking, Tells, d, nr

\* ... and the flush that follows sends from there.
LEMMA ProcessNrTalking ==
    ASSUME NEW c, NEW b \in Nat, NEW lo \in Nat, NEW n \in Nat, NEW r \in Nat,
           NEW s \in Nat, NEW h \in Nat,
           Talking(c, b, lo, n, r, s, h), c.out = <<>>,
           NEW k \in lo .. lo + Len(c.unacked)
    PROVE  LET d == ProcessNr(c, k % Modulus)
           IN Talking(d, b, k, n, r, s, h) /\ Tells(c, d)
<1> DEFINE t == TakeNr(c, k % Modulus)
           run == t.unacked # <<>>
           e == [t EXCEPT !.t1 = run]
<1>1. Talking(t, b, k, n, r, s, h) /\ Tells(c, t) /\ k \in Nat
  <2>1. Len(c.unacked) \in Nat
    BY LenProperties DEF Talking, Fit, ConnType
  <2>2. Talking(t, b, k, n, r, s, h) /\ Tells(c, t)
    BY TakeNrTalking
  <2>3. QED BY <2>1, <2>2
<1>2. run \in BOOLEAN /\ ProcessNr(c, k % Modulus) = FlushWindow(e)
  BY DEF ProcessNr
<1> HIDE DEF t, run
<1>3. Beside(t, e) /\ Tells(t, e)
  BY <1>1, <1>2 DEF Talking, Beside, Tells, Fit, ConnType
<1>4. Talking(e, b, k, n, r, s, h)
  BY <1>1, <1>3, BesideTalking
<1> HIDE DEF e
<1>5. Talking(FlushWindow(e), b, k, n, r, s, h) /\ Tells(e, FlushWindow(e))
  BY <1>1, <1>4, FlushTalking
<1>6. QED BY <1>1, <1>2, <1>3, <1>5 DEF Tells

\* Go-Back-N says the same chunks again, under the same numbers.
LEMMA RetransmitTalking ==
    ASSUME NEW c, NEW b \in Nat, NEW lo \in Nat, NEW n \in Nat, NEW r \in Nat,
           NEW s \in Nat, NEW h \in Nat,
           Talking(c, b, lo, n, r, s, h)
    PROVE  LET d == RetransmitAll(c)
           IN Talking(d, b, lo, n, r, s, h) /\ Tells(c, d)
<1> DEFINE u == Len(c.unacked)
           again == [i \in 1 .. u |-> [ns |-> (c.va + i - 1) % Modulus,
                                       data |-> c.unacked[i].data]]
           tx == TxIframes(c, again, TRUE)
           vs == (c.va + u) % Modulus
           e == [tx EXCEPT !.vs = vs, !.unacked = again]
           d == RetransmitAll(c)
<1>1. /\ Fit(c) /\ c \in ConnType /\ c.unacked \in Seq(UnackedFrame) /\ u \in Nat
      /\ InStep(c, b, lo, n) /\ c.vr = s % Modulus /\ Says(c.out, b, lo, lo + u, r, s)
  BY LenProperties DEF Talking, Fit, ConnType
<1>2. Fit(d)
  BY <1>1, RetransmitAllType
<1>3. d = IF u > 0 THEN StartT1(e) ELSE e
  BY DEF RetransmitAll
<1>4. c.va = lo % Modulus /\ c.vs = (lo + u) % Modulus
      /\ \A i \in 1 .. u :
            c.unacked[i] = [ns |-> (lo + i - 1) % Modulus, data |-> b + lo + i - 1]
  BY <1>1 DEF InStep
<1>5. again = c.unacked
  <2>1. ASSUME NEW i \in 1 .. u PROVE again[i] = c.unacked[i]
    <3>1. i - 1 \in Nat
      BY <1>1
    <3>2. ((lo % Modulus) + (i - 1)) % Modulus = (lo + (i - 1)) % Modulus
      BY <3>1, CountOn
    <3>3. c.va + i - 1 = (lo % Modulus) + (i - 1) /\ lo + i - 1 = lo + (i - 1)
      BY <1>4, DivMod
    <3>4. c.unacked[i] = [ns |-> (lo + i - 1) % Modulus, data |-> b + lo + i - 1]
      BY <1>4
    <3>5. again[i] = [ns |-> (c.va + i - 1) % Modulus, data |-> c.unacked[i].data]
      OBVIOUS
    <3> HIDE DEF again
    <3>6. again[i].ns = c.unacked[i].ns
      BY <3>2, <3>3, <3>4, <3>5
    <3>7. QED BY <3>2, <3>3, <3>4, <3>5
  <2>2. DOMAIN c.unacked = 1 .. u /\ DOMAIN again = 1 .. u
    BY <1>1
  <2> DEFINE q == c.unacked
  <2>3. c.unacked = [i \in 1 .. u |-> c.unacked[i]]
    <3>1. q \in Seq(UnackedFrame) /\ DOMAIN q = 1 .. u
      BY <2>2 DEF Talking, Fit, ConnType
    <3> HIDE DEF q
    <3>2. q = [i \in 1 .. u |-> q[i]]
      BY <3>1
    <3>3. QED BY <3>2 DEF q
  <2>4. again = [i \in 1 .. u |-> again[i]]
    OBVIOUS
  <2> HIDE DEF again
  <2>5. QED BY <2>1, <2>3, <2>4
<1>6. vs = c.vs
  <2>1. ((lo % Modulus) + u) % Modulus = (lo + u) % Modulus
    BY <1>1, CountOn
  <2>2. QED BY <1>4, <2>1
<1> HIDE DEF again, vs, u
<1>7. \A i \in 1 .. Len(again) : Carries(again[i], b, lo, lo + u)
  <2> TAKE i \in 1 .. Len(again)
  <2>1. i \in 1 .. u
    BY <1>5 DEF u
  <2>2. again[i] = [ns |-> (lo + i - 1) % Modulus, data |-> b + lo + i - 1]
    BY <1>4, <1>5, <2>1
  <2>3. lo + i - 1 \in lo .. (lo + u) - 1 /\ b + lo + i - 1 = b + (lo + i - 1)
    BY <1>1, <2>1
  <2>4. QED BY <2>2, <2>3 DEF Carries
<1>8. tx \in ConnType /\ SameButAck(c, tx) /\ Says(tx.out, b, lo, lo + u, r, s)
  <2>1. lo + u \in Nat /\ lo + u <= lo + u
    BY <1>1
  <2>2. again \in Seq(UnackedFrame)
    BY <1>1, <1>5
  <2>3. QED BY <1>1, <1>7, <2>1, <2>2, TxIframesSays
<1>9. /\ tx.vs = c.vs /\ tx.va = c.va /\ tx.vr = c.vr /\ tx.unacked = c.unacked
      /\ tx.sendBuf = c.sendBuf /\ tx.state = c.state /\ tx.up = c.up
  BY <1>8 DEF SameButAck
<1> HIDE DEF tx
<1>10. e = tx
  BY <1>5, <1>6, <1>8, <1>9 DEF ConnType
<1>11. /\ d.vs = c.vs /\ d.va = c.va /\ d.vr = c.vr /\ d.unacked = c.unacked
       /\ d.sendBuf = c.sendBuf /\ d.state = c.state /\ d.up = c.up /\ d.out = tx.out
  BY <1>3, <1>8, <1>9, <1>10 DEF StartT1, ConnType
<1> HIDE DEF d, e
<1>12. InStep(d, b, lo, n)
  BY <1>1, <1>11 DEF InStep
<1>13. QED BY <1>1, <1>2, <1>8, <1>11, <1>12 DEF Talking, Tells, u, d

\* The chunks that come after the first n of the session.
Continues(chunks, b, n) == \A i \in 1 .. Len(chunks) : chunks[i] = b + n + i - 1

\* send() numbers the new chunks after the n that it already has.
LEMMA SendTalking ==
    ASSUME NEW c, NEW b \in Nat, NEW lo \in Nat, NEW n \in Nat, NEW r \in Nat,
           NEW s \in Nat, NEW h \in Nat,
           Talking(c, b, lo, n, r, s, h), c.state = "CONNECTED",
           NEW chunks \in Seq(Data), Continues(chunks, b, n)
    PROVE  LET d == Send(c, chunks)
           IN Talking(d, b, lo, n + Len(chunks), r, s, h) /\ Tells(c, d)
<1> DEFINE queue == c.sendBuf \o chunks
           e == [c EXCEPT !.sendBuf = queue]
           l == Len(c.sendBuf)
           m == Len(chunks)
           u == Len(c.unacked)
<1>1. /\ Fit(c) /\ c \in ConnType /\ c.sendBuf \in Seq(Data) /\ l \in Nat /\ m \in Nat
      /\ u \in Nat /\ InStep(c, b, lo, n) /\ c.vr = s % Modulus
      /\ Says(c.out, b, lo, lo + u, r, s)
  BY LenProperties DEF Talking, Fit, ConnType
<1>2. /\ queue \in Seq(Data) /\ Len(queue) = l + m
      /\ \A i \in 1 .. l + m : queue[i] = IF i <= l THEN c.sendBuf[i] ELSE chunks[i - l]
  BY <1>1, ConcatProperties
<1>3. Send(c, chunks) = FlushWindow(e)
  BY DEF Send
<1>4. /\ \A i \in 1 .. l : c.sendBuf[i] = b + lo + u + i - 1
      /\ lo + u + l = n
  BY <1>1 DEF InStep
<1>5. /\ e.sendBuf = queue /\ e.vs = c.vs /\ e.va = c.va /\ e.vr = c.vr
      /\ e.unacked = c.unacked /\ e.out = c.out /\ Fit(e) /\ Tells(c, e)
  BY <1>1, <1>2 DEF Fit, ConnType, Tells
<1> HIDE DEF queue, e, l, m, u
<1>6. ASSUME NEW i \in 1 .. l + m PROVE queue[i] = b + lo + u + i - 1
  <2>1. CASE i <= l
    <3>1. i \in 1 .. l /\ queue[i] = c.sendBuf[i]
      BY <1>1, <1>2, <2>1
    <3>2. QED BY <1>4, <3>1
  <2>2. CASE ~(i <= l)
    <3>1. i - l \in 1 .. m /\ queue[i] = chunks[i - l]
      BY <1>1, <1>2, <2>2
    <3>2. chunks[i - l] = b + n + (i - l) - 1
      BY <3>1 DEF m, Continues
    <3>3. b + (lo + u + l) + (i - l) - 1 = b + lo + u + i - 1
      BY <1>1
    <3>4. QED BY <1>4, <3>1, <3>2, <3>3
  <2>3. QED BY <2>1, <2>2
<1>7. lo + u + (l + m) = n + m
  BY <1>1, <1>4
<1>8. InStep(e, b, lo, n + m)
  <2>1. /\ \A i \in 1 .. Len(e.unacked) :
              e.unacked[i] = [ns |-> (lo + i - 1) % Modulus, data |-> b + lo + i - 1]
        /\ e.va = lo % Modulus /\ e.vs = (lo + Len(e.unacked)) % Modulus
    BY <1>1, <1>5 DEF InStep
  <2>2. Len(e.unacked) = u /\ Len(e.sendBuf) = l + m
    BY <1>2, <1>5 DEF u
  <2>3. \A i \in 1 .. Len(e.sendBuf) : e.sendBuf[i] = b + lo + Len(e.unacked) + i - 1
    BY <1>5, <1>6, <2>2
  <2>4. lo + Len(e.unacked) + Len(e.sendBuf) = n + m
    BY <1>7, <2>2
  <2>5. QED BY <2>1, <2>3, <2>4 DEF InStep
<1>9. Talking(e, b, lo, n + m, r, s, h) /\ n + m \in Nat
  BY <1>1, <1>5, <1>8 DEF Talking, u
<1>10. Talking(FlushWindow(e), b, lo, n + m, r, s, h) /\ Tells(e, FlushWindow(e))
  BY <1>9, FlushTalking
<1>11. QED BY <1>3, <1>5, <1>10 DEF Tells, m

\* What is left of that when the record may also have been closed: frames of
\* chunks lo to hi-1, and the session in step unless it is over.
Spoke(d, b, lo, hi, n, r, s, h) ==
    /\ Fit(d) /\ d.vr = s % Modulus
    /\ Says(d.out, b, lo, hi, r, s)
    /\ lo <= hi /\ hi <= n /\ hi <= lo + Window /\ h <= hi
    /\ d.state = "CONNECTED" => InStep(d, b, lo, n) /\ hi = lo + Len(d.unacked)

\* A session that goes on has spoken.
LEMMA TalkingSpoke ==
    ASSUME NEW c, NEW b \in Nat, NEW lo \in Nat, NEW n \in Nat, NEW r \in Nat,
           NEW s \in Nat, NEW h \in Nat,
           Talking(c, b, lo, n, r, s, h)
    PROVE  Spoke(c, b, lo, lo + Len(c.unacked), n, r, s, h) /\ lo + Len(c.unacked) \in Nat
<1>1. /\ Len(c.unacked) \in Nat /\ Len(c.sendBuf) \in Nat /\ Len(c.unacked) <= Window
      /\ lo + Len(c.unacked) + Len(c.sendBuf) = n
  BY LenProperties DEF Talking, Fit, ConnType, InStep
<1>2. /\ lo <= lo + Len(c.unacked) /\ lo + Len(c.unacked) <= n
      /\ lo + Len(c.unacked) <= lo + Window /\ lo + Len(c.unacked) \in Nat
  <2> DEFINE u == Len(c.unacked)
             w == Len(c.sendBuf)
  <2>1. u \in Nat /\ w \in Nat /\ u <= Window /\ lo + u + w = n /\ Window \in Nat
    BY <1>1, WindowAssumption
  <2> HIDE DEF u, w
  <2>2. lo <= lo + u /\ lo + u <= n /\ lo + u <= lo + Window /\ lo + u \in Nat
    BY <2>1
  <2>3. QED BY <2>2 DEF u
<1>3. QED BY <1>2 DEF Talking, Spoke

\* A later acknowledgement may follow.
LEMMA SaysLater ==
    ASSUME NEW fs, NEW b, NEW lo, NEW hi, NEW r, NEW s, Says(fs, b, lo, hi, r, r)
    PROVE  Says(fs, b, lo, hi, r, s)
BY DEF Says

\* One more control frame is spoken too.
LEMMA EmitSpoke ==
    ASSUME NEW c, NEW b \in Nat, NEW lo \in Nat, NEW hi \in Nat, NEW n \in Nat,
           NEW r \in Nat, NEW s \in Nat, NEW h \in Nat, Spoke(c, b, lo, hi, n, r, s, h), NEW f \in Frame,
           f.type \notin {"SABM", "UA", "I"}, Numbered(f) => f.nr = c.vr
    PROVE  Spoke(Emit(c, f), b, lo, hi, n, r, s, h) /\ Tells(c, Emit(c, f))
<1> DEFINE d == Emit(c, f)
<1>1. Fit(d)
  BY EmitSame DEF Spoke
<1>2. c.out \in Seq(Frame) /\ <<f>> \in Seq(Frame)
  BY DEF Spoke, Fit, ConnType
<1>3. d.out = c.out \o <<f>>
  <2>1. d.out = Append(c.out, f)
    BY DEF Emit, Spoke, Fit, ConnType
  <2>2. Append(c.out, f) = c.out \o <<f>>
    BY <1>2, AppendIsConcat
  <2>3. QED BY <2>1, <2>2
<1>4. \A i \in 1 .. Len(<<f>>) : <<f>>[i] = f
  OBVIOUS
<1>5. /\ d.va = c.va /\ d.vs = c.vs /\ d.vr = c.vr /\ d.up = c.up /\ d.state = c.state
      /\ d.unacked = c.unacked /\ d.sendBuf = c.sendBuf
  BY DEF Emit, Spoke, Fit, ConnType
<1> HIDE DEF d
<1>6. Says(c.out \o <<f>>, b, lo, hi, r, s)
  <2>1. Says(c.out, b, lo, hi, r, s) /\ c.vr = s % Modulus
    BY DEF Spoke
  <2>2. \A i \in 1 .. Len(<<f>>) :
           /\ <<f>>[i].type \notin {"SABM", "UA"}
           /\ <<f>>[i].type = "I" => Carries(<<f>>[i], b, lo, hi)
           /\ Numbered(<<f>>[i]) => <<f>>[i].nr = s % Modulus
    BY <1>4, <2>1
  <2>3. hi <= hi
    OBVIOUS
  <2>4. QED BY <1>2, <2>1, <2>2, <2>3, SaysMore
<1>7. QED BY <1>1, <1>3, <1>5, <1>6 DEF Spoke, InStep, Tells, d

\* Again, what is beside the session does not matter.
LEMMA BesideSpoke ==
    ASSUME NEW c, NEW b, NEW lo, NEW hi, NEW n, NEW r, NEW s, NEW h,
           Spoke(c, b, lo, hi, n, r, s, h), NEW d, Beside(c, d), Tells(c, d)
    PROVE  Spoke(d, b, lo, hi, n, r, s, h)
<1>1. /\ d.vs = c.vs /\ d.va = c.va /\ d.vr = c.vr /\ d.unacked = c.unacked
      /\ d.sendBuf = c.sendBuf /\ d.out = c.out /\ Fit(d) /\ d.state = c.state
  BY DEF Beside, Tells
<1>2. QED BY <1>1 DEF Spoke, InStep

\* disconnect ends a session that has spoken.
LEMMA DisconnectSpoke ==
    ASSUME NEW c, NEW b \in Nat, NEW lo \in Nat, NEW n \in Nat, NEW r \in Nat,
           NEW s \in Nat, NEW h \in Nat,
           Talking(c, b, lo, n, r, s, h), c.state = "CONNECTED"
    PROVE  LET d == Disconnect(c)
           IN /\ Spoke(d, b, lo, lo + Len(c.unacked), n, r, s, h)
              /\ d.state = "DISCONNECTING" /\ d.up = c.up
<1> DEFINE f == UFrame("DISC", TRUE)
           hi == lo + Len(c.unacked)
           e == [StopT3(StopT2(c)) EXCEPT !.state = "DISCONNECTING", !.retry = 0,
                                          !.sendBuf = <<>>]
           g == Emit(e, f)
           d == StartT1(g)
<1>1. Disconnect(c) = d
  BY DEF Disconnect
<1>2. Spoke(c, b, lo, hi, n, r, s, h) /\ hi \in Nat
  BY TalkingSpoke
<1>3. /\ Fit(e) /\ e.state = "DISCONNECTING" /\ e.up = c.up /\ e.out = c.out /\ e.vr = c.vr
  <2>1. Fit(c) /\ "DISCONNECTING" \in State /\ 0 \in Nat /\ <<>> \in Seq(Data)
    BY DEF Talking, State
  <2>2. QED BY <2>1 DEF StopT2, StopT3, Fit, ConnType
<1> HIDE DEF e, hi
<1>4. Spoke(e, b, lo, hi, n, r, s, h)
  BY <1>2, <1>3 DEF Spoke
<1>5. f \in Frame /\ f.type = "DISC"
  BY UFrameType DEF UFrame
<1> HIDE DEF f
<1>6. Spoke(g, b, lo, hi, n, r, s, h) /\ Tells(e, g)
  BY <1>2, <1>4, <1>5, EmitSpoke DEF Numbered
<1> HIDE DEF g
<1>7. Beside(g, d) /\ Tells(g, d)
  BY <1>6 DEF StartT1, Beside, Tells, Spoke, Fit, ConnType
<1> HIDE DEF d
<1>8. Spoke(d, b, lo, hi, n, r, s, h)
  BY <1>6, <1>7, BesideSpoke
<1>9. QED BY <1>1, <1>3, <1>6, <1>7, <1>8 DEF Tells, hi

\* The chunk x was handed up; n chunks are numbered now, s of the peer's taken.
Handed(e, x, b, lo, n, r, s, h) ==
    /\ \E hi \in Nat : Spoke(e, b, lo, hi, n, r, s, h)
    /\ e.state \in {"CONNECTED", "DISCONNECTING"}
    /\ e.up = <<[on |-> "data", data |-> x]>>

\* The callback of an I-frame: chunks that answer it, and a hang-up.
LEMMA OnDataSpoke ==
    ASSUME NEW c, NEW b \in Nat, NEW lo \in Nat, NEW n \in Nat, NEW r \in Nat,
           NEW s \in Nat, NEW h \in Nat,
           Talking(c, b, lo, n, r, s, h), c.state = "CONNECTED", c.up = <<>>,
           NEW x \in Data, NEW react \in Reaction,
           Continues(react.reply, b, n)
    PROVE  Handed(OnData(c, x, react), x, b, lo, n + Len(react.reply), r, s, h)
<1> DEFINE told == Fire(c, "data", x)
           sent == IF react.reply = <<>> THEN told ELSE Send(told, react.reply)
           m == n + Len(react.reply)
<1>1. /\ Talking(told, b, lo, n, r, s, h) /\ told.state = "CONNECTED"
      /\ told.up = <<[on |-> "data", data |-> x]>>
  <2>1. Fit(told)
    BY FireSame, NoDataAssumption DEF Talking
  <2>2. Beside(c, told) /\ told.state = c.state /\ told.up = Append(c.up, [on |-> "data", data |-> x])
    BY <2>1 DEF Fire, Beside, Talking, Fit, ConnType
  <2>3. Append(<<>>, [on |-> "data", data |-> x]) = <<[on |-> "data", data |-> x]>>
    OBVIOUS
  <2> HIDE DEF told
  <2>4. QED BY <2>2, <2>3, BesideTalking
<1>2. react.reply \in Seq(Data) /\ Len(react.reply) \in Nat /\ m \in Nat
  BY LenProperties DEF Reaction
<1>3. Talking(sent, b, lo, m, r, s, h) /\ Tells(told, sent)
  <2> HIDE DEF told
  <2>1. CASE react.reply = <<>>
    <3>1. m = n
      BY <2>1
    <3>2. sent = told
      BY <2>1
    <3>3. QED BY <1>1, <3>1, <3>2 DEF Tells
  <2>2. CASE react.reply # <<>>
    <3> DEFINE d == Send(told, react.reply)
    <3>1. Talking(d, b, lo, n + Len(react.reply), r, s, h) /\ Tells(told, d)
      <4>2. react.reply \in Seq(Data) /\ Talking(told, b, lo, n, r, s, h) /\ told.state = "CONNECTED"
        BY <1>1, <1>2
      <4> HIDE DEF m
      <4>3. QED BY <4>2, SendTalking
    <3>2. sent = Send(told, react.reply)
      BY <2>2
    <3>3. QED BY <3>1, <3>2
  <2>3. QED BY <2>1, <2>2
<1>4. OnData(c, x, react) = IF react.bye THEN Disconnect(sent) ELSE sent
  BY DEF OnData
<1> HIDE DEF sent, told, m
<1>5. sent.state = "CONNECTED" /\ sent.up = <<[on |-> "data", data |-> x]>>
  BY <1>1, <1>3 DEF Tells
<1>6. /\ Spoke(sent, b, lo, lo + Len(sent.unacked), m, r, s, h) /\ lo + Len(sent.unacked) \in Nat
  BY <1>2, <1>3, TalkingSpoke
<1>7. /\ Spoke(Disconnect(sent), b, lo, lo + Len(sent.unacked), m, r, s, h)
      /\ Disconnect(sent).state = "DISCONNECTING" /\ Disconnect(sent).up = sent.up
  BY <1>2, <1>3, <1>5, DisconnectSpoke
<1>8. QED BY <1>4, <1>5, <1>6, <1>7 DEF m, Handed

\* An I-frame in sequence is counted, handed up and acknowledged or owed.
LEMMA AcceptISpoke ==
    ASSUME NEW c, NEW b \in Nat, NEW lo \in Nat, NEW n \in Nat, NEW r \in Nat, NEW h \in Nat,
           Talking(c, b, lo, n, r, r, h), c.state = "CONNECTED", c.up = <<>>,
           NEW f \in Frame, f.data \in Data, NEW react \in Reaction,
           Continues(react.reply, b, n)
    PROVE  Handed(AcceptI(c, f, react), f.data, b, lo, n + Len(react.reply), r, r + 1, h)
<1> DEFINE counted == [c EXCEPT !.vr = Inc(@)]
           d == OnData(counted, f.data, react)
           m == n + Len(react.reply)
           a == TxRR(StopT2(d), TRUE)
           o == [d EXCEPT !.ackPending = TRUE, !.t2 = TRUE]
<1>1. /\ counted.vr = (r + 1) % Modulus /\ counted.vs = c.vs /\ counted.va = c.va
      /\ counted.unacked = c.unacked /\ counted.sendBuf = c.sendBuf /\ counted.out = c.out
      /\ counted.up = <<>> /\ counted.state = "CONNECTED" /\ Fit(counted)
  <2>1. c.vr = r % Modulus /\ Fit(c)
    BY DEF Talking
  <2>2. ((r % Modulus) + 1) % Modulus = (r + 1) % Modulus
    BY CountOn
  <2>3. Inc(c.vr) = (r + 1) % Modulus
    BY <2>1, <2>2 DEF Inc
  <2>4. (r + 1) % Modulus \in SeqNo
    BY ModType
  <2>5. counted = [c EXCEPT !.vr = (r + 1) % Modulus]
    BY <2>3
  <2>6. QED BY <2>1, <2>4, <2>5 DEF Fit, ConnType
<1>2. Talking(counted, b, lo, n, r, r + 1, h)
  <2> HIDE DEF counted
  <2>1. Says(c.out, b, lo, lo + Len(c.unacked), r, r + 1)
    BY SaysLater DEF Talking
  <2>2. QED BY <1>1, <2>1 DEF Talking, InStep
<1>3. f.data # NoData
  BY NoDataAssumption
<1>4. AcceptI(c, f, react) = IF f.pf THEN a ELSE o
  BY <1>3 DEF AcceptI
<1> HIDE DEF counted
<1>5. Handed(d, f.data, b, lo, m, r, r + 1, h)
  <2>1. r + 1 \in Nat /\ counted.up = <<>> /\ counted.state = "CONNECTED"
    BY <1>1
  <2>2. QED BY <1>2, <2>1, OnDataSpoke
<1>6. PICK hi \in Nat : Spoke(d, b, lo, hi, m, r, r + 1, h)
  BY <1>5 DEF Handed
<1>7. m \in Nat
  BY LenProperties DEF Reaction
<1> HIDE DEF d, m
<1>8. Spoke(a, b, lo, hi, m, r, r + 1, h) /\ Tells(d, a)
  <2> DEFINE e == StopT2(d)
             g == SFrame("RR", e.vr, TRUE, FALSE)
  <2>1. Beside(d, e) /\ Tells(d, e)
    BY <1>6 DEF StopT2, Spoke, Beside, Tells, Fit, ConnType
  <2> HIDE DEF e
  <2>s. Spoke(e, b, lo, hi, m, r, r + 1, h)
    BY <1>6, <2>1, BesideSpoke
  <2>2. Spoke(e, b, lo, hi, m, r, r + 1, h) /\ e.vr \in SeqNo
    BY <2>s DEF Spoke, Fit, ConnType
  <2>3. g \in Frame /\ g.type = "RR" /\ g.nr = e.vr
    BY <2>2, FrameTypes DEF SFrame
  <2>4. a = Emit(e, g)
    BY DEF TxRR, e
  <2> HIDE DEF g
  <2>5. r + 1 \in Nat
    OBVIOUS
  <2>6. Spoke(Emit(e, g), b, lo, hi, m, r, r + 1, h) /\ Tells(e, Emit(e, g))
    BY <1>7, <2>2, <2>3, <2>5, EmitSpoke
  <2>7. QED BY <2>1, <2>4, <2>6 DEF Tells
<1>9. Spoke(o, b, lo, hi, m, r, r + 1, h) /\ Tells(d, o)
  <2>1. Beside(d, o) /\ Tells(d, o)
    BY <1>6 DEF Spoke, Beside, Tells, Fit, ConnType
  <2> HIDE DEF o
  <2>2. QED BY <1>6, <2>1, BesideSpoke
<1>10. QED BY <1>4, <1>5, <1>8, <1>9 DEF Tells, m, Handed

\* A supervisory frame, or an I-frame out of sequence, only acknowledges.
LEMMA AnswerPollTalking ==
    ASSUME NEW c, NEW b \in Nat, NEW lo \in Nat, NEW n \in Nat, NEW r \in Nat,
           NEW s \in Nat, NEW h \in Nat,
           Talking(c, b, lo, n, r, s, h), NEW pf \in BOOLEAN
    PROVE  Talking(AnswerPoll(c, pf), b, lo, n, r, s, h) /\ Tells(c, AnswerPoll(c, pf))
<1>1. CASE ~pf
  BY <1>1 DEF AnswerPoll, Tells
<1>2. CASE pf /\ c.pollSent > 0
  <2> DEFINE m == c.pollSent - 1
             d == [c EXCEPT !.pollSent = m]
  <2>1. AnswerPoll(c, pf) = d
    BY <1>2 DEF AnswerPoll
  <2>2. m \in Nat
    BY <1>2 DEF Talking, Fit, ConnType
  <2> HIDE DEF m
  <2>3. Beside(c, d) /\ Tells(c, d)
    BY <2>2 DEF Talking, Beside, Tells, Fit, ConnType
  <2> HIDE DEF d
  <2>4. QED BY <2>1, <2>3, BesideTalking
<1>3. CASE pf /\ ~(c.pollSent > 0)
  <2>1. AnswerPoll(c, pf) = TxRR(c, TRUE)
    BY <1>3 DEF AnswerPoll
  <2>2. TRUE \in BOOLEAN
    OBVIOUS
  <2>3. Talking(TxRR(c, TRUE), b, lo, n, r, s, h) /\ Tells(c, TxRR(c, TRUE))
    BY <2>2, TxTalking
  <2>4. QED BY <2>1, <2>3
<1>4. QED BY <1>1, <1>2, <1>3

\* P/F apart, RR, RNR and REJ are an N(R) and a word on the peer's buffers.
LEMMA RecvSTalking ==
    ASSUME NEW c, NEW b \in Nat, NEW lo \in Nat, NEW n \in Nat, NEW r \in Nat,
           NEW s \in Nat, NEW h \in Nat,
           Talking(c, b, lo, n, r, s, h), c.out = <<>>,
           NEW k \in lo .. lo + Len(c.unacked), NEW f \in Frame, f.nr = k % Modulus
    PROVE  /\ Talking(RecvRR(c, f), b, k, n, r, s, h) /\ Tells(c, RecvRR(c, f))
           /\ Talking(RecvRnr(c, f), b, k, n, r, s, h) /\ Tells(c, RecvRnr(c, f))
           /\ Talking(RecvRej(c, f), b, k, n, r, s, h) /\ Tells(c, RecvRej(c, f))
<1> DEFINE p(busy) == [c EXCEPT !.peerBusy = busy]
<1>0. k \in Nat /\ f.pf \in BOOLEAN
  <2>1. Len(c.unacked) \in Nat
    BY LenProperties DEF Talking, Fit, ConnType
  <2>2. QED BY <2>1 DEF Frame
<1>1. ASSUME NEW busy \in BOOLEAN
      PROVE  /\ Talking(p(busy), b, lo, n, r, s, h) /\ Tells(c, p(busy))
             /\ p(busy).out = <<>> /\ p(busy).unacked = c.unacked
  <2> DEFINE d == p(busy)
  <2>1. Beside(c, d) /\ Tells(c, d) /\ d.out = <<>> /\ d.unacked = c.unacked
    BY DEF Talking, Beside, Tells, Fit, ConnType
  <2> HIDE DEF d
  <2>2. Talking(d, b, lo, n, r, s, h)
    BY <2>1, BesideTalking
  <2>3. QED BY <2>1, <2>2 DEF d
<1>2. ASSUME NEW busy \in BOOLEAN
      PROVE  LET d == ProcessNr(p(busy), f.nr)
             IN Talking(d, b, k, n, r, s, h) /\ Tells(c, d)
  <2> DEFINE e == p(busy)
             d == ProcessNr(e, k % Modulus)
  <2>1. Talking(e, b, lo, n, r, s, h) /\ e.out = <<>> /\ k \in lo .. lo + Len(e.unacked) /\ Tells(c, e)
    BY <1>1
  <2> HIDE DEF e
  <2>2. Talking(d, b, k, n, r, s, h) /\ Tells(e, d)
    BY <2>1, ProcessNrTalking
  <2>3. QED BY <2>1, <2>2 DEF Tells, e
<1>3. ASSUME NEW busy \in BOOLEAN
      PROVE  LET d == AnswerPoll(ProcessNr(p(busy), f.nr), f.pf)
             IN Talking(d, b, k, n, r, s, h) /\ Tells(c, d)
  <2> DEFINE e == ProcessNr(p(busy), f.nr)
  <2>1. Talking(e, b, k, n, r, s, h) /\ Tells(c, e)
    BY <1>2
  <2> HIDE DEF e
  <2>2. Talking(AnswerPoll(e, f.pf), b, k, n, r, s, h) /\ Tells(e, AnswerPoll(e, f.pf))
    BY <1>0, <2>1, AnswerPollTalking
  <2>3. QED BY <2>1, <2>2 DEF Tells, e
<1>4. Talking(RecvRR(c, f), b, k, n, r, s, h) /\ Tells(c, RecvRR(c, f))
  BY <1>3 DEF RecvRR
<1>5. Talking(RecvRnr(c, f), b, k, n, r, s, h) /\ Tells(c, RecvRnr(c, f))
  BY <1>3 DEF RecvRnr
<1>6. Talking(RecvRej(c, f), b, k, n, r, s, h) /\ Tells(c, RecvRej(c, f))
  <2> DEFINE e == p(FALSE)
             t == TakeNr(e, k % Modulus)
             g == RetransmitAll(t)
  <2>1. Talking(e, b, lo, n, r, s, h) /\ e.out = <<>> /\ k \in lo .. lo + Len(e.unacked) /\ Tells(c, e)
    BY <1>1
  <2>2. RecvRej(c, f) = FlushWindow(g)
    BY DEF RecvRej
  <2> HIDE DEF e
  <2>3. Talking(t, b, k, n, r, s, h) /\ Tells(e, t)
    BY <2>1, TakeNrTalking
  <2> HIDE DEF t
  <2>4. Talking(g, b, k, n, r, s, h) /\ Tells(t, g)
    BY <1>0, <2>3, RetransmitTalking
  <2> HIDE DEF g
  <2>5. Talking(FlushWindow(g), b, k, n, r, s, h) /\ Tells(g, FlushWindow(g))
    BY <1>0, <2>4, FlushTalking
  <2>6. QED BY <2>1, <2>2, <2>3, <2>4, <2>5 DEF Tells
<1>7. QED BY <1>4, <1>5, <1>6

\* A numbered frame reaches a connected record that has r of the peer's
\* chunks, and covers k of its own.
LEMMA NumberedTalking ==
    ASSUME NEW c, NEW b \in Nat, NEW lo \in Nat, NEW n \in Nat, NEW r \in Nat, NEW h \in Nat,
           Talking(c, b, lo, n, r, r, h), c.state = "CONNECTED", c.out = <<>>, c.up = <<>>,
           NEW f \in Frame, Numbered(f), f.type = "I" => f.data \in Data,
           NEW k \in lo .. lo + Len(c.unacked), f.nr = k % Modulus,
           NEW react \in Reaction, Continues(react.reply, b, n)
    PROVE  LET d == HandleFrame(c, f, react)
           IN IF f.type = "I" /\ f.ns = r % Modulus
              THEN Handed(d, f.data, b, k, n + Len(react.reply), r, r + 1, h)
              ELSE Talking(d, b, k, n, r, r, h) /\ Tells(c, d)
<1> DEFINE heard == [StartT3(c) EXCEPT !.pollPending = FALSE]
<1>0. k \in Nat /\ f.pf \in BOOLEAN
  <2>1. Len(c.unacked) \in Nat
    BY LenProperties DEF Talking, Fit, ConnType
  <2>2. QED BY <2>1 DEF Frame
<1>1. /\ Talking(heard, b, lo, n, r, r, h) /\ Tells(c, heard) /\ heard.out = <<>> /\ heard.up = <<>>
      /\ heard.state = "CONNECTED" /\ k \in lo .. lo + Len(heard.unacked)
  <2>1. Beside(c, heard) /\ Tells(c, heard) /\ heard.out = <<>> /\ heard.unacked = c.unacked
    BY DEF StartT3, Talking, Beside, Tells, Fit, ConnType
  <2> HIDE DEF heard
  <2>2. QED BY <2>1, BesideTalking DEF Tells
<1>2. HandleFrame(c, f, react) = RecvConnected(c, f, react)
  BY DEF HandleFrame
<1>3. /\ f.type = "I" => RecvConnected(c, f, react) = RecvI(heard, f, react)
      /\ f.type = "RR" => RecvConnected(c, f, react) = RecvRR(heard, f)
      /\ f.type = "RNR" => RecvConnected(c, f, react) = RecvRnr(heard, f)
      /\ f.type = "REJ" => RecvConnected(c, f, react) = RecvRej(heard, f)
  BY DEF RecvConnected
<1> HIDE DEF heard
<1>4. CASE f.type # "I"
  <2>1. /\ Talking(RecvRR(heard, f), b, k, n, r, r, h) /\ Tells(heard, RecvRR(heard, f))
        /\ Talking(RecvRnr(heard, f), b, k, n, r, r, h) /\ Tells(heard, RecvRnr(heard, f))
        /\ Talking(RecvRej(heard, f), b, k, n, r, r, h) /\ Tells(heard, RecvRej(heard, f))
    BY <1>1, RecvSTalking
  <2>2. f.type \in {"RR", "RNR", "REJ"}
    BY <1>4 DEF Numbered
  <2>3. QED BY <1>1, <1>2, <1>3, <1>4, <2>1, <2>2 DEF Tells
<1>5. CASE f.type = "I"
  <2> DEFINE d == ProcessNr(heard, k % Modulus)
  <2>1. Talking(d, b, k, n, r, r, h) /\ Tells(heard, d)
    BY <1>1, ProcessNrTalking
  <2>2. RecvI(heard, f, react) = IF f.ns = d.vr THEN AcceptI(d, f, react) ELSE TxRej(d, f.pf)
    BY DEF RecvI, InSequence
  <2> HIDE DEF d
  <2>3. d.vr = r % Modulus /\ d.state = "CONNECTED" /\ d.up = <<>>
    BY <1>1, <2>1 DEF Talking, Tells
  <2>4. Handed(AcceptI(d, f, react), f.data, b, k, n + Len(react.reply), r, r + 1, h)
    BY <1>0, <1>5, <2>1, <2>3, AcceptISpoke
  <2>5. Talking(TxRej(d, f.pf), b, k, n, r, r, h) /\ Tells(d, TxRej(d, f.pf))
    BY <1>0, <2>1, TxTalking
  <2>6. QED BY <1>1, <1>2, <1>3, <1>5, <2>1, <2>2, <2>3, <2>4, <2>5 DEF Tells
<1>6. QED BY <1>4, <1>5

-----------------------------------------------------------------------------
(* The rest of a connection's life                                         *)


\* The link is declared failed after the frames of e.
LEMMA LinkFailedEnds ==
    ASSUME NEW e, Fit(e), e.up = <<>>
    PROVE  LET d == LinkFailed(e)
           IN /\ d.state = "DISCONNECTED" /\ d.out = e.out
              /\ d.up = <<[on |-> "disconnect", data |-> NoData]>>
              /\ ~d.t3
<1>1. Append(<<>>, [on |-> "disconnect", data |-> NoData])
         = <<[on |-> "disconnect", data |-> NoData]>>
  OBVIOUS
<1>2. QED BY <1>1 DEF LinkFailed, Fire, Fit, ConnType

\* tick() in a session: frames, and the session goes on or is failed.
Ticked(d, b, lo, n, r, h) ==
    \E e : /\ Talking(e, b, lo, n, r, r, h) /\ e.state = "CONNECTED" /\ e.up = <<>>
           /\ d = e \/ d = LinkFailed(e)

\* Timers that run out repeat or end what the session says.
LEMMA TickTalking ==
    ASSUME NEW c, NEW b \in Nat, NEW lo \in Nat, NEW n \in Nat, NEW r \in Nat, NEW h \in Nat,
           Talking(c, b, lo, n, r, r, h), c.state = "CONNECTED", c.up = <<>>,
           NEW due
    PROVE  Ticked(Tick(c, due), b, lo, n, r, h)
<1> DEFINE Goes(e) == Talking(e, b, lo, n, r, r, h) /\ e.state = "CONNECTED" /\ e.up = <<>>
           x == IF c.t2 /\ "t2" \in due THEN TickT2(c) ELSE c
           y == IF x.t1 /\ "t1" \in due THEN TickT1(x) ELSE x
           z == IF y.t3 /\ "t3" \in due THEN TickT3(y) ELSE y
<1>1. Tick(c, due) = z
  BY DEF Tick
<1>2. Goes(x)
  <2> DEFINE e == [c EXCEPT !.t2 = FALSE, !.ackPending = FALSE]
             g == [c EXCEPT !.t2 = FALSE]
  <2>1. Beside(c, e) /\ Tells(c, e) /\ Beside(c, g) /\ Tells(c, g)
    BY DEF Talking, Beside, Tells, Fit, ConnType
  <2>2. x \in {c, g, TxRR(e, FALSE)}
    BY DEF TickT2
  <2> HIDE DEF e, g
  <2>3. Talking(e, b, lo, n, r, r, h) /\ Talking(g, b, lo, n, r, r, h)
    BY <2>1, BesideTalking
  <2>4. Talking(TxRR(e, FALSE), b, lo, n, r, r, h) /\ Tells(e, TxRR(e, FALSE))
    BY <2>3, TxTalking
  <2> HIDE DEF x
  <2>5. QED BY <2>1, <2>2, <2>3, <2>4 DEF Tells
<1> HIDE DEF x
<1>3. \E e : Goes(e) /\ (y = e \/ y = LinkFailed(e))
  <2> DEFINE e == [x EXCEPT !.t1 = FALSE, !.retry = @ + 1]
  <2>1. Beside(x, e) /\ Tells(x, e) /\ e.state = "CONNECTED"
    <3>0. Fit(x)
      BY <1>2 DEF Talking
    <3>4. x.retry \in Nat
      BY <3>0 DEF Fit, ConnType
    <3>1. Fit(x) /\ x.retry + 1 \in Nat
      BY <3>0, <3>4
    <3> DEFINE k == x.retry + 1
    <3>2. k \in Nat /\ e = [x EXCEPT !.t1 = FALSE, !.retry = k]
      BY <3>1
    <3> HIDE DEF k, e
    <3>3. QED BY <1>2, <3>1, <3>2 DEF Beside, Tells, Fit, ConnType
  <2>2. TickT1(x) \in {e, RetransmitAll(e), LinkFailed(e)}
    <3>1. TickT1(x) = IF RetriesLeft(x) THEN Retry(e) ELSE LinkFailed(e)
      BY DEF TickT1
    <3> HIDE DEF e
    <3>2. Retry(e) \in {e, RetransmitAll(e), LinkFailed(e)}
      BY <2>1 DEF Retry
    <3>3. QED BY <3>1, <3>2
  <2> HIDE DEF e
  <2>3. Goes(e)
    BY <1>2, <2>1, BesideTalking DEF Tells
  <2>4. Talking(RetransmitAll(e), b, lo, n, r, r, h) /\ Tells(e, RetransmitAll(e))
    BY <2>3, RetransmitTalking
  <2>5. Goes(RetransmitAll(e))
    BY <2>3, <2>4 DEF Tells
  <2>6. QED BY <1>2, <2>2, <2>3, <2>5
<1> HIDE DEF y
<1>4. PICK e : Goes(e) /\ (y = e \/ y = LinkFailed(e))
  BY <1>3
<1>5. CASE y = LinkFailed(e)
  <2>1. ~y.t3
    BY <1>4, <1>5, LinkFailedEnds DEF Talking
  <2>2. z = LinkFailed(e)
    BY <1>5, <2>1
  <2>3. QED BY <1>1, <1>4, <2>2 DEF Ticked
<1>6. CASE y = e
  <2> DEFINE t == TxPoll(y)
             k == t.pollSent + 1
             g == [t EXCEPT !.t3 = FALSE, !.pollPending = TRUE, !.pollSent = k]
             u == StartT1(g)
  <2>1. Talking(t, b, lo, n, r, r, h) /\ Tells(y, t)
    <3>1. TRUE \in BOOLEAN /\ Talking(y, b, lo, n, r, r, h)
      BY <1>4, <1>6
    <3>2. QED BY <3>1, TxTalking
  <2>2. z \in {y, u}
    BY <1>4, <1>6 DEF TickT3
  <2> HIDE DEF t
  <2>3. k \in Nat
    <3>1. Fit(t)
      BY <2>1 DEF Talking
    <3>2. t.pollSent \in Nat
      BY <3>1 DEF Fit, ConnType
    <3>3. QED BY <3>2
  <2> HIDE DEF k
  <2>4. Beside(t, g) /\ Tells(t, g)
    BY <2>1, <2>3 DEF Talking, Beside, Tells, Fit, ConnType
  <2> HIDE DEF g
  <2>5. Beside(g, u) /\ Tells(g, u)
    BY <2>4 DEF StartT1, Beside, Tells, Fit, ConnType
  <2> HIDE DEF u
  <2>6. Goes(u)
    <3>1. Talking(g, b, lo, n, r, r, h)
      BY <2>1, <2>4, BesideTalking
    <3>2. Talking(u, b, lo, n, r, r, h)
      BY <2>5, <3>1, BesideTalking
    <3>3. QED BY <1>4, <1>6, <2>1, <2>4, <2>5, <3>2 DEF Tells
  <2>7. \E done \in {y, u} : Goes(done) /\ z = done
    BY <1>4, <1>6, <2>2, <2>6
  <2>8. QED BY <1>1, <2>7 DEF Ticked
<1>7. QED BY <1>4, <1>5, <1>6

\* A session that has not said anything yet.
Fresh(d) ==
    /\ d.state = "CONNECTED" /\ d.vs = 0 /\ d.vr = 0 /\ d.va = 0
    /\ d.unacked = <<>> /\ d.sendBuf = <<>>

\* The application was not handed a chunk.
NoneTold(d) == \A i \in DOMAIN d.up : d.up[i].on # "data"

\* A fresh session talks of nothing yet.
LEMMA FreshTalking ==
    ASSUME NEW d, Fit(d), Fresh(d), d.out = <<>>, NEW b \in Nat
    PROVE  Talking(d, b, 0, 0, 0, 0, 0)
<1>1. 0 % Modulus = 0 /\ (0 + 0) % Modulus = 0
  BY ModulusAssumption
<1>2. Len(d.unacked) = 0 /\ Len(d.sendBuf) = 0 /\ 1 .. 0 = {}
  BY DEF Fresh
<1>3. InStep(d, b, 0, 0)
  BY <1>1, <1>2 DEF InStep, Fresh
<1>4. Says(d.out, b, 0, 0, 0, 0)
  BY SaysNothing
<1>5. QED BY <1>1, <1>2, <1>3, <1>4 DEF Talking, Fresh

\* A callback other than on_data hands out no chunk.
LEMMA OneCallback ==
    ASSUME NEW d, NEW x, d.up = <<x>>, x.on # "data"
    PROVE  NoneTold(d)
BY DEF NoneTold

\* DISCONNECTED: a SABM opens a session, anything else is refused.
LEMMA RecvDisconnectedDoes ==
    ASSUME NEW f \in Frame, NEW react
    PROVE  LET c == NewConnection
               d == HandleFrame(c, f, react)
           IN IF f.type = "SABM"
              THEN Fresh(d) /\ d.out = <<UFrame("UA", f.pf)>> /\ NoneTold(d)
              ELSE d.state = "DISCONNECTED" /\ d.out = <<UFrame("DM", f.pf)>> /\ NoneTold(d)
<1> DEFINE c == NewConnection
           d == HandleFrame(c, f, react)
           x == [on |-> "connect", data |-> NoData]
<1>1. d = RecvDisconnected(c, f)
  BY DEF HandleFrame, NewConnection
<1>2. /\ c.out = <<>> /\ c.up = <<>> /\ c.unacked = <<>> /\ c.sendBuf = <<>>
      /\ c.state = "DISCONNECTED" /\ c \in ConnType
  BY NewSound DEF NewConnection, Sound, Fit
<1>3. Append(<<>>, x) = <<x>> /\ \A g : Append(<<>>, g) = <<g>>
  OBVIOUS
<1> HIDE DEF c
<1>4. CASE f.type = "SABM"
  <2> DEFINE a == ResetNumbers(c)
             e == [a EXCEPT !.retry = 0]
             g == Emit(e, UFrame("UA", f.pf))
             h == [g EXCEPT !.state = "CONNECTED"]
             t == StartT3(h)
             u == Fire(t, "connect", NoData)
  <2>1. d = u
    BY <1>1, <1>4 DEF RecvDisconnected, AcceptSabm
  <2>2. /\ a.vs = 0 /\ a.vr = 0 /\ a.va = 0 /\ a.unacked = <<>> /\ a.sendBuf = <<>>
        /\ a.out = <<>> /\ a.up = <<>> /\ Fit(a)
    <3>1. Fit(a)
      BY NewSound, ResetNumbersType DEF Sound, c
    <3>2. QED BY <1>2, <3>1 DEF ResetNumbers, StopT2, ConnType
  <2> HIDE DEF a
  <2>3. /\ e.vs = 0 /\ e.vr = 0 /\ e.va = 0 /\ e.unacked = <<>> /\ e.sendBuf = <<>>
        /\ e.out = <<>> /\ e.up = <<>> /\ Fit(e)
    BY <2>2 DEF Fit, ConnType
  <2> HIDE DEF e
  <2>4. /\ g.vs = 0 /\ g.vr = 0 /\ g.va = 0 /\ g.unacked = <<>> /\ g.sendBuf = <<>>
        /\ g.out = <<UFrame("UA", f.pf)>> /\ g.up = <<>> /\ Fit(g)
    <3>1. UFrame("UA", f.pf) \in Frame
      BY UFrameType DEF Frame
    <3>2. Fit(g)
      BY <2>3, <3>1, EmitSame
    <3>3. QED BY <1>3, <2>3, <3>2 DEF Emit, Fit, ConnType
  <2> HIDE DEF g
  <2>5. /\ Fresh(h) /\ h.out = <<UFrame("UA", f.pf)>> /\ h.up = <<>> /\ Fit(h)
    BY <2>4 DEF Fresh, Fit, ConnType, State
  <2> HIDE DEF h
  <2>6. /\ Fresh(t) /\ t.out = <<UFrame("UA", f.pf)>> /\ t.up = <<>> /\ Fit(t)
    BY <2>5 DEF Fresh, Fit, ConnType, StartT3
  <2> HIDE DEF t
  <2>7. /\ Fresh(u) /\ u.out = <<UFrame("UA", f.pf)>> /\ u.up = <<x>>
    BY <1>3, <2>6 DEF Fresh, Fit, ConnType, Fire
  <2> HIDE DEF u, d
  <2>8. x.on # "data"
    OBVIOUS
  <2>9. NoneTold(u)
    BY <2>7, <2>8, OneCallback
  <2>10. QED BY <1>4, <2>1, <2>7, <2>9 DEF d, c
<1>5. CASE f.type # "SABM"
  <2>1. d = Emit(c, UFrame("DM", f.pf))
    BY <1>1, <1>5 DEF RecvDisconnected
  <2>2. d.out = <<UFrame("DM", f.pf)>> /\ d.state = "DISCONNECTED" /\ d.up = <<>>
    BY <1>2, <1>3, <2>1 DEF Emit, ConnType
  <2> HIDE DEF d
  <2>3. QED BY <1>5, <2>2 DEF d, c, NoneTold
<1>6. QED BY <1>4, <1>5

\* CONNECTING: UA opens the session, DM ends the call.
LEMMA RecvConnectingDoes ==
    ASSUME NEW c, Fit(c), c.state = "CONNECTING", c.out = <<>>, c.up = <<>>,
           c.unacked = <<>>, c.sendBuf = <<>>, NEW f \in Frame, NEW react
    PROVE  LET d == HandleFrame(c, f, react)
           IN /\ f.type = "UA" =>
                    (\A b \in Nat : Talking(d, b, 0, 0, 0, 0, 0))
                    /\ d.state = "CONNECTED" /\ NoneTold(d)
              /\ f.type = "DM" => d.state = "DISCONNECTED" /\ d.out = <<>> /\ NoneTold(d)
              /\ f.type = "SABM" =>
                    /\ d.state = "CONNECTING" /\ d.out = <<UFrame("UA", f.pf)>>
                    /\ d.up = <<>> /\ d.unacked = <<>> /\ d.sendBuf = <<>>
              /\ f.type \notin {"UA", "DM", "SABM"} => d = c
<1> DEFINE d == HandleFrame(c, f, react)
           x == [on |-> "connect", data |-> NoData]
           y == [on |-> "disconnect", data |-> NoData]
<1>1. d = RecvConnecting(c, f)
  BY DEF HandleFrame
<1>3. /\ Append(<<>>, x) = <<x>> /\ Append(<<>>, y) = <<y>> /\ \A g : Append(<<>>, g) = <<g>>
      /\ x.on # "data" /\ y.on # "data"
  OBVIOUS
<1>4. CASE f.type = "UA"
  <2> DEFINE a == StopT2(StopT1(c))
             e == [a EXCEPT !.vs = 0, !.vr = 0, !.va = 0, !.retry = 0,
                            !.state = "CONNECTED"]
             g == StartT3(e)
             h == Fire(g, "connect", NoData)
  <2>1. d = FlushWindow(h)
    BY <1>1, <1>4 DEF RecvConnecting, Connected
  <2>2. Fit(a) /\ a.out = <<>> /\ a.up = <<>> /\ a.unacked = <<>> /\ a.sendBuf = <<>>
    BY DEF StopT1, StopT2, Fit, ConnType
  <2> HIDE DEF a
  <2>3. Fit(e) /\ e.out = <<>> /\ e.up = <<>> /\ Fresh(e)
    <3>1. 0 \in SeqNo /\ 0 \in Nat /\ "CONNECTED" \in State
      BY ModulusAssumption DEF SeqNo, State
    <3>2. QED BY <2>2, <3>1 DEF Fit, ConnType, Fresh
  <2> HIDE DEF e
  <2>4. Fit(g) /\ g.out = <<>> /\ g.up = <<>> /\ Fresh(g)
    BY <2>3 DEF Fit, ConnType, Fresh, StartT3
  <2> HIDE DEF g
  <2>5. Fit(h) /\ h.out = <<>> /\ h.up = <<x>> /\ Fresh(h)
    <3>1. Fit(h)
      BY <2>4, FireSame
    <3>2. QED BY <1>3, <2>4, <3>1 DEF Fit, ConnType, Fresh, Fire
  <2> HIDE DEF h, x
  <2>6. ASSUME NEW b \in Nat
        PROVE  Talking(d, b, 0, 0, 0, 0, 0) /\ Tells(h, d)
    <3>1. Talking(h, b, 0, 0, 0, 0, 0) /\ 0 \in Nat
      BY <2>5, FreshTalking
    <3> HIDE DEF d
    <3>2. QED BY <2>1, <3>1, FlushTalking
  <2>7. Tells(h, d) /\ d.up = <<x>> /\ d.state = "CONNECTED"
    <3>1. 0 \in Nat
      OBVIOUS
    <3> HIDE DEF d
    <3>2. Tells(h, d)
      BY <2>6, <3>1
    <3>3. QED BY <2>5, <3>2 DEF Tells, Fresh
  <2> HIDE DEF d
  <2>8. NoneTold(d)
    BY <1>3, <2>7, OneCallback DEF x
  <2>9. QED BY <1>4, <2>6, <2>7, <2>8 DEF d
<1>5. CASE f.type = "DM"
  <2>1. d = Down(c)
    BY <1>1, <1>5 DEF RecvConnecting
  <2>2. d.out = <<>> /\ d.state = "DISCONNECTED" /\ d.up = <<y>>
    BY <1>3, <2>1 DEF Down, Fire, StopT1, Fit, ConnType
  <2> HIDE DEF d, y
  <2>3. NoneTold(d)
    BY <1>3, <2>2, OneCallback DEF y
  <2>4. QED BY <1>5, <2>2, <2>3 DEF d
<1>6. CASE f.type = "SABM"
  <2>1. d = Emit(c, UFrame("UA", f.pf))
    BY <1>1, <1>6 DEF RecvConnecting
  <2>2. /\ d.state = "CONNECTING" /\ d.out = <<UFrame("UA", f.pf)>>
        /\ d.up = <<>> /\ d.unacked = <<>> /\ d.sendBuf = <<>>
    BY <1>3, <2>1 DEF Emit, Fit, ConnType
  <2> HIDE DEF d
  <2>3. QED BY <1>6, <2>2 DEF d
<1>7. CASE f.type \notin {"UA", "DM", "SABM"}
  <2>1. d = c
    BY <1>1, <1>7 DEF RecvConnecting
  <2> HIDE DEF d
  <2>2. QED BY <1>7, <2>1 DEF d
<1>8. QED BY <1>4, <1>5, <1>6, <1>7

\* DISCONNECTING: UA or DM ends it.
LEMMA RecvDisconnectingDoes ==
    ASSUME NEW c, Fit(c), c.state = "DISCONNECTING", c.out = <<>>, c.up = <<>>,
           NEW f \in Frame, NEW react
    PROVE  LET d == HandleFrame(c, f, react)
           IN \/ d = c
              \/ d.state = "DISCONNECTED" /\ d.out = <<>> /\ NoneTold(d)
<1> DEFINE y == [on |-> "disconnect", data |-> NoData]
           d == Down(c)
<1>1. HandleFrame(c, f, react) \in {c, d}
  BY DEF HandleFrame, RecvDisconnecting
<1>2. Append(<<>>, y) = <<y>> /\ y.on # "data"
  OBVIOUS
<1>3. d.out = <<>> /\ d.state = "DISCONNECTED" /\ d.up = <<y>>
  BY <1>2 DEF Down, Fire, StopT1, Fit, ConnType
<1> HIDE DEF d, y
<1>4. NoneTold(d)
  BY <1>2, <1>3, OneCallback DEF y
<1>5. QED BY <1>1, <1>3, <1>4

\* CONNECTED: DISC and DM end the session, a SABM starts it again, and a UA
\* or an unknown frame is only heard.
LEMMA RecvConnectedDoes ==
    ASSUME NEW c, Fit(c), c.state = "CONNECTED", c.out = <<>>, c.up = <<>>,
           NEW f \in Frame, NEW react
    PROVE  LET d == HandleFrame(c, f, react)
           IN /\ f.type = "DISC" =>
                    /\ d.state = "DISCONNECTED" /\ d.out = <<UFrame("UA", f.pf)>>
                    /\ NoneTold(d)
              /\ f.type = "DM" => d.state = "DISCONNECTED" /\ d.out = <<>> /\ NoneTold(d)
              /\ f.type = "SABM" =>
                    Fresh(d) /\ d.out = <<UFrame("UA", f.pf)>> /\ NoneTold(d)
              /\ f.type \in {"UA", "OTHER"} => Beside(c, d) /\ Tells(c, d)
<1> DEFINE heard == [StartT3(c) EXCEPT !.pollPending = FALSE]
           d == HandleFrame(c, f, react)
           y == [on |-> "disconnect", data |-> NoData]
<1>1. d = RecvConnected(c, f, react)
  BY DEF HandleFrame
<1>2. /\ f.type = "DISC" => d = RecvDisc(heard, f.pf)
      /\ f.type = "SABM" => d = RecvSabmAgain(heard, f.pf)
      /\ f.type = "DM" => d = LinkFailed(heard)
      /\ f.type \in {"UA", "OTHER"} => d = heard
  BY <1>1 DEF RecvConnected
<1>3. Beside(c, heard) /\ Tells(c, heard) /\ heard.out = <<>> /\ heard.up = <<>>
      /\ Fit(heard) /\ heard.state = "CONNECTED"
  BY DEF StartT3, Fit, ConnType, Beside, Tells
<1>4. Append(<<>>, y) = <<y>> /\ y.on # "data" /\ \A g : Append(<<>>, g) = <<g>>
  OBVIOUS
<1>5. UFrame("UA", f.pf) \in Frame /\ f.pf \in BOOLEAN
  BY UFrameType DEF Frame
<1> HIDE DEF heard, d, y
<1>6. CASE f.type = "DISC"
  <2> DEFINE e == [StopT3(heard) EXCEPT !.sendBuf = <<>>, !.unacked = <<>>]
             g == Emit(e, UFrame("UA", f.pf))
  <2>1. d = Down(g)
    BY <1>2, <1>6 DEF RecvDisc
  <2>2. Fit(e) /\ e.out = <<>> /\ e.up = <<>>
    <3>1. <<>> \in Seq(Data) /\ <<>> \in Seq(UnackedFrame) /\ Len(<<>>) <= Window
      BY WindowAssumption
    <3>2. QED BY <1>3, <3>1 DEF StopT3, Fit, ConnType
  <2> HIDE DEF e
  <2>3. Fit(g)
    BY <1>5, <2>2, EmitSame
  <2>4. g.out = <<UFrame("UA", f.pf)>> /\ g.up = <<>>
    BY <1>4, <2>2 DEF Emit, Fit, ConnType
  <2> HIDE DEF g
  <2>5. d.out = <<UFrame("UA", f.pf)>> /\ d.state = "DISCONNECTED" /\ d.up = <<y>>
    BY <1>4, <2>1, <2>3, <2>4 DEF Down, Fire, StopT1, Fit, ConnType, y
  <2>6. NoneTold(d)
    BY <1>4, <2>5, OneCallback
  <2>7. QED BY <1>6, <2>5, <2>6 DEF d
<1>7. CASE f.type = "DM"
  <2>1. d.state = "DISCONNECTED" /\ d.out = <<>> /\ d.up = <<y>>
    BY <1>2, <1>3, <1>7, LinkFailedEnds DEF y
  <2>2. NoneTold(d)
    BY <1>4, <2>1, OneCallback
  <2>3. QED BY <1>7, <2>1, <2>2 DEF d
<1>8. CASE f.type = "SABM"
  <2> DEFINE a == ResetNumbers(heard)
             e == [a EXCEPT !.unacked = <<>>, !.sendBuf = <<>>]
             g == Emit(e, UFrame("UA", f.pf))
  <2>1. d = g
    BY <1>2, <1>8 DEF RecvSabmAgain
  <2>2. Fit(a)
    BY <1>3, ResetNumbersType
  <2>3. /\ a.vs = 0 /\ a.vr = 0 /\ a.va = 0 /\ a.out = <<>> /\ a.up = <<>>
        /\ a.state = "CONNECTED"
    BY <1>3 DEF ResetNumbers, StopT2, Fit, ConnType
  <2> HIDE DEF a
  <2>4. Fit(e) /\ Fresh(e) /\ e.out = <<>> /\ e.up = <<>>
    <3>1. <<>> \in Seq(Data) /\ <<>> \in Seq(UnackedFrame) /\ Len(<<>>) <= Window
      BY WindowAssumption
    <3>2. QED BY <2>2, <2>3, <3>1 DEF Fit, ConnType, Fresh
  <2> HIDE DEF e
  <2>5. Fresh(g) /\ g.out = <<UFrame("UA", f.pf)>> /\ g.up = <<>>
    BY <1>4, <2>4 DEF Emit, Fit, ConnType, Fresh
  <2> HIDE DEF g
  <2>6. NoneTold(d)
    BY <2>1, <2>5 DEF NoneTold
  <2>7. QED BY <1>8, <2>1, <2>5, <2>6 DEF d
<1>9. CASE f.type \in {"UA", "OTHER"}
  <2>1. d = heard
    BY <1>2, <1>9
  <2>2. QED BY <1>3, <1>9, <2>1 DEF d
<1>10. QED BY <1>6, <1>7, <1>8, <1>9

\* disconnect(), the destructor and the retries say no more than a U frame.
LEMMA HangUpDoes ==
    ASSUME NEW c, Fit(c), c.state \in {"CONNECTED", "CONNECTING"},
           c.out = <<>>, c.up = <<>>
    PROVE  /\ LET d == Disconnect(c)
              IN /\ d.state = "DISCONNECTING" /\ NoneTold(d)
                 /\ d.out = <<UFrame("DISC", TRUE)>>
           /\ LET d == Destroy(c)
              IN /\ d.state = "DISCONNECTED" /\ NoneTold(d)
                 /\ d.out = <<UFrame("DISC", TRUE)>>
<1>1. \A g : Append(<<>>, g) = <<g>>
  OBVIOUS
<1>2. LET d == Disconnect(c)
      IN /\ d.state = "DISCONNECTING" /\ d.up = <<>>
         /\ d.out = <<UFrame("DISC", TRUE)>>
  BY <1>1 DEF Disconnect, Emit, StartT1, StopT2, StopT3, Fit, ConnType
<1>3. LET d == Destroy(c)
      IN /\ d.state = "DISCONNECTED" /\ d.up = <<>>
         /\ d.out = <<UFrame("DISC", TRUE)>>
  BY <1>1 DEF Destroy, Emit, NewConnection
<1>4. QED BY <1>2, <1>3 DEF NoneTold

\* connect sends a SABM from an empty record.
LEMMA StartConnectDoes ==
    LET d == StartConnect(NewConnection)
    IN /\ d.state = "CONNECTING" /\ d.up = <<>> /\ d.out = <<UFrame("SABM", TRUE)>>
       /\ d.unacked = <<>> /\ d.sendBuf = <<>>
<1>1. \A g : Append(<<>>, g) = <<g>>
  OBVIOUS
<1>2. QED BY <1>1 DEF StartConnect, Emit, StartT1, StopT2, NewConnection

\* tick() while a call is made or closed: the frame again, or the end.
LEMMA TickUnconnected ==
    ASSUME NEW c, Sound(c), c.state \in {"CONNECTING", "DISCONNECTING"},
           c.out = <<>>, c.up = <<>>, NEW due
    PROVE  LET d == Tick(c, due)
               f == IF c.state = "CONNECTING" THEN UFrame("SABM", TRUE)
                    ELSE UFrame("DISC", TRUE)
           IN \/ /\ d.state = c.state /\ d.up = <<>>
                 /\ d.unacked = c.unacked /\ d.sendBuf = c.sendBuf
                 /\ d.out = <<>> \/ ("t1" \in due /\ d.out = <<f>>)
              \/ d.state = "DISCONNECTED" /\ d.out = <<>> /\ NoneTold(d)
<1> DEFINE f == IF c.state = "CONNECTING" THEN UFrame("SABM", TRUE)
                ELSE UFrame("DISC", TRUE)
           Stays(d) == /\ Fit(d) /\ d.state = c.state /\ d.up = <<>> /\ ~d.t3
                       /\ d.unacked = c.unacked /\ d.sendBuf = c.sendBuf
           y == [on |-> "disconnect", data |-> NoData]
           x == IF c.t2 /\ "t2" \in due THEN TickT2(c) ELSE c
           z == IF x.t1 /\ "t1" \in due THEN TickT1(x) ELSE x
<1>1. Fit(c) /\ ~c.t3 /\ c.state # "CONNECTED"
  BY DEF Sound
<1>2. \A g : Append(<<>>, g) = <<g>>
  OBVIOUS
<1>3. Stays(x) /\ x.out = <<>>
  <2>1. x \in {c, [c EXCEPT !.t2 = FALSE]}
    BY <1>1 DEF TickT2
  <2>2. QED BY <1>1, <2>1 DEF Fit, ConnType
<1> HIDE DEF x
<1>4. \/ Stays(z) /\ (z.out = <<>> \/ ("t1" \in due /\ z.out = <<f>>))
      \/ z.state = "DISCONNECTED" /\ z.out = <<>> /\ NoneTold(z) /\ ~z.t3
  <2> DEFINE e == [x EXCEPT !.t1 = FALSE, !.retry = @ + 1]
             g == StartT1(Emit(e, f))
  <2>1. Stays(e) /\ e.out = <<>>
    <3> DEFINE k == x.retry + 1
    <3>1. k \in Nat /\ e = [x EXCEPT !.t1 = FALSE, !.retry = k]
      BY <1>3 DEF Fit, ConnType
    <3> HIDE DEF k, e
    <3>2. QED BY <1>3, <3>1 DEF Fit, ConnType
  <2>2. z \in {x, LinkFailed(e), g}
    <3>1. TickT1(x) = IF RetriesLeft(x) THEN Retry(e) ELSE LinkFailed(e)
      BY DEF TickT1
    <3>2. z # x => "t1" \in due
      OBVIOUS
    <3> HIDE DEF e
    <3>3. Retry(e) = g
      BY <1>1, <2>1 DEF Retry
    <3>4. QED BY <3>1, <3>2, <3>3
  <2>3. z # x => "t1" \in due
    OBVIOUS
  <2> HIDE DEF z, e
  <2>4. LET d == LinkFailed(e) IN d.state = "DISCONNECTED" /\ d.out = <<>> /\ NoneTold(d) /\ ~d.t3
    <3> DEFINE d == LinkFailed(e)
    <3>1. d.state = "DISCONNECTED" /\ d.out = <<>> /\ d.up = <<y>> /\ ~d.t3
      BY <2>1, LinkFailedEnds
    <3>2. y.on # "data"
      OBVIOUS
    <3> HIDE DEF d, y
    <3>3. NoneTold(d)
      BY <3>1, <3>2, OneCallback
    <3>4. QED BY <3>1, <3>3 DEF d
  <2>5. Stays(g) /\ g.out = <<f>>
    <3> DEFINE u == Emit(e, f)
    <3>1. f \in Frame
      BY UFrameType
    <3> HIDE DEF f
    <3>2. Fit(u)
      BY <2>1, <3>1, EmitSame
    <3>3. Stays(u) /\ u.out = <<f>>
      BY <1>2, <2>1, <3>2 DEF Emit, Fit, ConnType
    <3> HIDE DEF u
    <3>4. Stays(StartT1(u)) /\ StartT1(u).out = <<f>>
      BY <3>3 DEF StartT1, Fit, ConnType
    <3>5. QED BY <3>4 DEF u
  <2>6. QED BY <1>3, <2>2, <2>3, <2>4, <2>5
<1>5. Tick(c, due) = z
  <2>1. Tick(c, due) = IF z.t3 /\ "t3" \in due THEN TickT3(z) ELSE z
    BY DEF Tick, x
  <2>2. ~z.t3
    BY <1>4
  <2>3. QED BY <2>1, <2>2
<1> HIDE DEF z, f
<1>6. QED BY <1>4, <1>5 DEF f
=============================================================================
