-------------------------- MODULE KissModemProofs --------------------------
(***************************************************************************)
(* Proofs about the software TNC (KissModem), for any number of frames,    *)
(* chunks and connections, every PTT method and both sound backends.       *)
(***************************************************************************)
EXTENDS KissModem, SequenceTheorems, TLAPS

-----------------------------------------------------------------------------
(* The inductive invariant                                                 *)

MainLabels == {"start", "loop", "notify", "join_tx", "join_rx", "close", "exit", "on", "off",
               "key", "write", "flush", "drain", "unkey"}
TxLabels == {"check", "block", "waiting", "dwait", "nap", "dcd_wait", "settle", "slot", "dequeue",
             "key", "write", "flush", "drain", "unkey", "reset", "unmute", "done"}
RxLabels == {"read", "own", "other", "done"}

OnTheAir == Playing \cup {"unkey"}              \* between set(true) and set(false)
OfTheBridge == {"loop", "notify", "join_tx", "join_rx"}
OfTestTx == {"key"} \cup OnTheAir

\* Where the threads are, by mode: only the bridge has a TX and an RX
\* thread, and closing begins when the TX thread has ended.
Threads ==
    /\ pc.main \in MainLabels /\ pc.tx \in TxLabels /\ pc.rx \in RxLabels
    /\ pc.main \in OfTheBridge => mode = "bridge"
    /\ pc.main \in {"on", "off"} => mode = "test_ptt"
    /\ pc.main \in OfTestTx => mode = "test_tx"
    /\ mode # "bridge" \/ pc.main = "start" => pc.tx = "done" /\ pc.rx = "done"
    /\ pc.main \in {"join_rx", "close", "exit"} => pc.tx = "done"
    /\ pc.main = "off" => left > 0

\* A transmission is muted from before it is keyed until the decoder has
\* been reset.
Muting == pc.tx \in {"key", "reset", "unmute"} \cup OnTheAir => muted

\* What the controller knows of the radio when its last write succeeded.
Consistent(p) == p.sure => p.method \in Lines \cup {"CAT"} /\ (Keyed(p) <=> p.tx)

Keying ==
    /\ Consistent(ptt)
    /\ pc.main \notin {"start", "exit"} => ptt.inited
    /\ pc.main \in {"start", "exit"} => ~ptt.tx
    /\ pc.tx \in OnTheAir \/ pc.main \in OnTheAir => ptt.tx

\* Nothing is left to play outside a transmission, when playback cannot stall.
Draining == ~MayStall /\ ring > 0 => pc.tx \in Playing \/ pc.main \in Playing

\* The n-th frame of the hosts has the number n, and at most one supervisory
\* frame of a connection waits.
Numbered ==
    /\ Len(log) <= MaxFrames
    /\ \A i \in DOMAIN log : log[i].n = i
    /\ \A i, j \in DOMAIN queue :
          queue[i].kind = "S" /\ Ordered(queue[i], queue[j]) => i = j

Control == TypeOK /\ Threads
Order == Numbered /\ HostOrder
IInv == Control /\ Muting /\ Keying /\ Draining /\ Order

-----------------------------------------------------------------------------
(* The order of the frames                                                 *)

TxType == queue \in Seq(Frame) /\ log \in Seq(Frame) /\ popped \in Seq(Frame)

LEMMA OnAirIs ==
    ASSUME TxType
    PROVE  /\ OnAir \in Seq(Frame) /\ Len(OnAir) = Len(popped) + Len(queue)
           /\ DOMAIN OnAir = 1 .. Len(popped) + Len(queue)
           /\ \A i \in DOMAIN OnAir :
                 OnAir[i] = IF i <= Len(popped) THEN popped[i] ELSE queue[i - Len(popped)]
           /\ Len(popped) \in Nat /\ DOMAIN popped = 1 .. Len(popped)
           /\ Len(queue) \in Nat /\ DOMAIN queue = 1 .. Len(queue)
           /\ Len(log) \in Nat /\ DOMAIN log = 1 .. Len(log)
BY ConcatProperties, LenProperties DEF TxType, OnAir

LEMMA OnAirIsNext ==
    ASSUME TxType'
    PROVE  /\ OnAir' \in Seq(Frame) /\ Len(OnAir') = Len(popped') + Len(queue')
           /\ DOMAIN OnAir' = 1 .. Len(popped') + Len(queue')
           /\ \A i \in DOMAIN OnAir' :
                 OnAir'[i] = IF i <= Len(popped') THEN popped'[i] ELSE queue'[i - Len(popped')]
           /\ Len(popped') \in Nat /\ DOMAIN popped' = 1 .. Len(popped')
           /\ Len(queue') \in Nat /\ DOMAIN queue' = 1 .. Len(queue')
           /\ Len(log') \in Nat /\ DOMAIN log' = 1 .. Len(log')
BY ConcatProperties, LenProperties DEF TxType, OnAir

\* The TX thread takes the head of the queue: nothing moves on the air.
LEMMA Popping ==
    ASSUME TxType, queue # <<>>, popped' = Append(popped, Head(queue)), queue' = Tail(queue),
           log' = log
    PROVE  /\ TxType' /\ OnAir' = OnAir
           /\ \A i \in DOMAIN queue' : i + 1 \in DOMAIN queue /\ queue'[i] = queue[i + 1]
<1>1. /\ Head(queue) \in Frame /\ Head(queue) = queue[1]
      /\ Tail(queue) \in Seq(Frame) /\ Len(Tail(queue)) = Len(queue) - 1
      /\ \A i \in 1 .. Len(Tail(queue)) : Tail(queue)[i] = queue[i + 1]
  BY HeadTailProperties DEF TxType
<1>2. /\ popped' \in Seq(Frame) /\ Len(popped') = Len(popped) + 1
      /\ \A i \in 1 .. Len(popped) : popped'[i] = popped[i]
      /\ popped'[Len(popped) + 1] = queue[1]
  BY <1>1, AppendProperties DEF TxType
<1>3. TxType'
  BY <1>1, <1>2 DEF TxType
<1>4. Len(OnAir') = Len(OnAir) /\ \A i \in 1 .. Len(OnAir) : OnAir'[i] = OnAir[i]
  <2>1. Len(popped) \in Nat /\ Len(queue) \in Nat /\ Len(queue) >= 1
    BY EmptySeq, OnAirIs DEF TxType
  <2>2. Len(popped') = Len(popped) + 1 /\ Len(queue') = Len(queue) - 1
    BY <1>1, <1>2
  <2>3. Len(OnAir') = Len(OnAir)
    BY <1>3, <2>1, <2>2, OnAirIs, OnAirIsNext
  <2>4. Len(OnAir) = Len(popped) + Len(queue)
    BY OnAirIs
  <2>5. ASSUME NEW i \in 1 .. Len(OnAir) PROVE OnAir'[i] = OnAir[i]
    <3>1. /\ OnAir[i] = IF i <= Len(popped) THEN popped[i] ELSE queue[i - Len(popped)]
          /\ OnAir'[i] = IF i <= Len(popped) + 1 THEN popped'[i] ELSE queue'[i - (Len(popped) + 1)]
      BY <1>3, <2>1, <2>2, <2>3, <2>4, OnAirIs, OnAirIsNext
    <3>2. CASE i <= Len(popped)
      BY <1>2, <2>1, <3>1, <3>2
    <3>3. CASE i = Len(popped) + 1
      BY <1>2, <2>1, <3>1, <3>3
    <3>4. CASE i > Len(popped) + 1
      <4> DEFINE k == i - (Len(popped) + 1)
      <4>1. k \in 1 .. Len(Tail(queue)) /\ k + 1 = i - Len(popped)
        BY <1>1, <2>1, <2>4, <3>4
      <4>2. queue'[k] = queue[k + 1]
        BY <1>1, <4>1
      <4>3. QED BY <2>1, <3>1, <3>4, <4>1, <4>2
    <3>5. QED BY <2>1, <2>4, <3>2, <3>3, <3>4
  <2>6. QED BY <2>3, <2>5
<1>5. OnAir' = OnAir
  BY <1>3, <1>4, OnAirIs, OnAirIsNext, SeqEqual
<1>6. QED BY <1>1, <1>3, <1>5, OnAirIs, OnAirIsNext

\* A frame of a host takes its place in the queue, at the end or that of an
\* older supervisory frame of its connection.
LEMMA Enqueueing ==
    ASSUME TxType, Order, NEW f \in Frame, EnqueueFrame(f), popped' = popped
    PROVE  /\ queue' \in Seq(Frame)
           /\ \/ Superseded(f) = {} /\ queue' = Append(queue, f)
              \/ \E k \in Superseded(f) : queue' = [queue EXCEPT ![k] = f]
<1>1. CASE Superseded(f) = {}
  BY <1>1, AppendProperties DEF EnqueueFrame, TxType
<1>2. CASE Superseded(f) # {}
  <2>1. PICK k \in Superseded(f) : TRUE
    BY <1>2
  <2>2. \A j \in Superseded(f) : j = k
    BY <2>1 DEF Superseded, CanSupersede, Order, Numbered, Ordered
  <2>3. k \in DOMAIN queue /\ k \in 1 .. Len(queue)
    BY <2>1, OnAirIs DEF Superseded
  <2>4. \A j \in Superseded(f) : k <= j
    BY <2>2, <2>3
  <2> DEFINE least == CHOOSE i \in Superseded(f) : \A j \in Superseded(f) : i <= j
  <2>5. least \in Superseded(f)
    BY <2>1, <2>4
  <2>6. least = k
    BY <2>2, <2>5
  <2>7. queue' = [queue EXCEPT ![k] = f]
    BY <1>2, <2>6 DEF EnqueueFrame
  <2>8. queue' \in Seq(Frame)
    BY <2>3, <2>7, ExceptSeq DEF TxType
  <2>9. QED BY <2>1, <2>7, <2>8
<1>3. QED BY <1>1, <1>2

\* A new frame keeps the order, whether it is appended or supersedes.
LEMMA NewFrame ==
    ASSUME TxType, Order, NEW f \in Frame, f.n = Len(log) + 1, Len(log) < MaxFrames,
           EnqueueFrame(f), log' = Append(log, f), popped' = popped
    PROVE  TxType' /\ Order'
<1> DEFINE N == Len(log)
           P == Len(popped)
           Q == Len(queue)
<1>1. /\ N \in Nat /\ P \in Nat /\ Q \in Nat
      /\ DOMAIN log = 1 .. N /\ DOMAIN queue = 1 .. Q /\ DOMAIN OnAir = 1 .. P + Q
  BY OnAirIs
<1>2. /\ queue' \in Seq(Frame)
      /\ \/ Superseded(f) = {} /\ queue' = Append(queue, f)
         \/ \E k \in Superseded(f) : queue' = [queue EXCEPT ![k] = f]
  BY Enqueueing
<1>3. /\ log' \in Seq(Frame) /\ Len(log') = N + 1
      /\ \A i \in 1 .. N : log'[i] = log[i]
      /\ log'[N + 1] = f
  BY AppendProperties DEF TxType
<1>4. TxType'
  BY <1>2, <1>3 DEF TxType
<1>5. /\ DOMAIN log' = 1 .. N + 1
      /\ \A i \in DOMAIN log' : log'[i] = IF i = N + 1 THEN f ELSE log[i]
      /\ \A i \in DOMAIN log' : log'[i].n = i
  BY <1>1, <1>3, <1>4, OnAirIsNext DEF Order, Numbered
<1>6. \A i \in DOMAIN OnAir : OnAir[i].n \in 1 .. N /\ OnAir[i].n < f.n
  BY <1>1 DEF Order, Numbered, HostOrder
<1>7. CASE Superseded(f) = {} /\ queue' = Append(queue, f)
  <2>1. /\ Len(queue') = Q + 1 /\ queue'[Q + 1] = f
        /\ \A i \in 1 .. Q : queue'[i] = queue[i]
    BY <1>7, AppendProperties DEF TxType
  <2>2. /\ DOMAIN queue' = 1 .. Q + 1 /\ DOMAIN OnAir' = 1 .. P + Q + 1
        /\ OnAir'[P + Q + 1] = f
        /\ \A i \in 1 .. P + Q : OnAir'[i] = OnAir[i]
    <3>1. /\ DOMAIN queue' = 1 .. Q + 1 /\ DOMAIN OnAir' = 1 .. P + (Q + 1)
          /\ \A i \in DOMAIN OnAir' : OnAir'[i] = IF i <= P THEN popped[i] ELSE queue'[i - P]
          /\ \A i \in 1 .. P + Q : OnAir[i] = IF i <= P THEN popped[i] ELSE queue[i - P]
      BY <1>1, <1>4, <2>1, OnAirIs, OnAirIsNext
    <3>2. \A i \in 1 .. P + Q : i > P => i - P \in 1 .. Q
      BY <1>1
    <3>3. ~(P + Q + 1 <= P) /\ (P + Q + 1) - P = Q + 1 /\ P + (Q + 1) = P + Q + 1
      BY <1>1
    <3>4. \A i \in 1 .. P + Q : i \in 1 .. P + (Q + 1)
      BY <1>1
    <3>5. P + Q + 1 \in 1 .. P + (Q + 1)
      BY <1>1
    <3> HIDE DEF P, Q
    <3>6. OnAir'[P + Q + 1] = f
      BY <2>1, <3>1, <3>3, <3>5
    <3>7. ASSUME NEW i \in 1 .. P + Q PROVE OnAir'[i] = OnAir[i]
      <4>1. i \in DOMAIN OnAir'
        BY <3>1, <3>4
      <4>2. CASE i <= P
        BY <3>1, <4>1, <4>2
      <4>3. CASE ~(i <= P)
        <5>1. i - P \in 1 .. Q
          BY <1>1, <3>2, <4>3
        <5>2. OnAir'[i] = queue'[i - P] /\ OnAir[i] = queue[i - P]
          BY <3>1, <4>1, <4>3
        <5>3. QED BY <2>1, <5>1, <5>2
      <4>4. QED BY <4>2, <4>3
    <3>8. QED BY <3>1, <3>3, <3>6, <3>7
  <2>3. Numbered'
    <3>1. \A i \in 1 .. Q : ~(queue[i].kind = "S" /\ Ordered(queue[i], f))
      BY <1>1, <1>7 DEF Superseded, CanSupersede, Ordered
    <3>2. \A i \in 1 .. Q : ~(f.kind = "S" /\ Ordered(f, queue[i]))
      BY <3>1 DEF Ordered
    <3>3. \A i, j \in DOMAIN queue' :
             queue'[i].kind = "S" /\ Ordered(queue'[i], queue'[j]) => i = j
      BY <1>1, <2>1, <2>2, <3>1, <3>2 DEF Order, Numbered
    <3>4. QED BY <1>1, <1>3, <1>5, <3>3, BoundsAssumption DEF Numbered
  <2>4. \A i \in DOMAIN OnAir' : \E j \in DOMAIN log' : OnAir'[i] = log'[j]
    <3>1. ASSUME NEW i \in 1 .. P + Q PROVE \E j \in DOMAIN log' : OnAir'[i] = log'[j]
      <4>1. PICK j \in 1 .. N : OnAir[i] = log[j]
        BY <1>1 DEF Order, HostOrder
      <4>2. j \in DOMAIN log'
        BY <1>1, <1>5
      <4>3. OnAir'[i] = OnAir[i] /\ log'[j] = log[j]
        BY <1>3, <2>2
      <4>4. QED BY <4>1, <4>2, <4>3
    <3>2. N + 1 \in DOMAIN log'
      BY <1>1, <1>5
    <3>3. OnAir'[P + Q + 1] = log'[N + 1]
      BY <1>3, <2>2
    <3>4. \A i \in 1 .. P + Q + 1 : i \in 1 .. P + Q \/ i = P + Q + 1
      BY <1>1
    <3>5. ASSUME NEW i \in DOMAIN OnAir' PROVE \E j \in DOMAIN log' : OnAir'[i] = log'[j]
      <4>1. i \in 1 .. P + Q + 1
        BY <2>2
      <4>2. CASE i \in 1 .. P + Q
        BY <3>1, <4>2
      <4>3. CASE i = P + Q + 1
        BY <3>2, <3>3, <4>3
      <4>4. QED BY <3>4, <4>1, <4>2, <4>3
    <3>6. QED BY <3>5
  <2>5. \A i, j \in DOMAIN OnAir' :
           i < j /\ Ordered(OnAir'[i], OnAir'[j]) => OnAir'[i].n < OnAir'[j].n
    <3> SUFFICES ASSUME NEW i \in 1 .. P + Q + 1, NEW j \in 1 .. P + Q + 1, i < j,
                        Ordered(OnAir'[i], OnAir'[j])
                 PROVE  OnAir'[i].n < OnAir'[j].n
      BY <2>2
    <3>1. i \in 1 .. P + Q /\ (j \in 1 .. P + Q \/ j = P + Q + 1)
      BY <1>1
    <3>2. CASE j \in 1 .. P + Q
      BY <1>1, <2>2, <3>1, <3>2 DEF Order, HostOrder
    <3>3. CASE j = P + Q + 1
      BY <1>1, <1>6, <2>2, <3>1, <3>3
    <3>4. QED BY <3>1, <3>2, <3>3
  <2>6. \A i \in DOMAIN log' : \E j \in DOMAIN OnAir' : Covers(OnAir'[j], log'[i])
    <3>1. ASSUME NEW i \in 1 .. N PROVE \E j \in DOMAIN OnAir' : Covers(OnAir'[j], log'[i])
      <4>1. PICK j \in 1 .. P + Q : Covers(OnAir[j], log[i])
        BY <1>1 DEF Order, HostOrder
      <4>2. j \in DOMAIN OnAir' /\ OnAir'[j] = OnAir[j] /\ log'[i] = log[i]
        BY <1>1, <1>3, <2>2
      <4>3. QED BY <4>1, <4>2
    <3>2. Covers(OnAir'[P + Q + 1], log'[N + 1]) /\ P + Q + 1 \in DOMAIN OnAir'
      BY <1>1, <1>3, <2>2 DEF Covers
    <3>3. QED BY <1>1, <1>5, <3>1, <3>2
  <2>7. QED BY <1>4, <2>3, <2>4, <2>5, <2>6 DEF Order, HostOrder, Ordered, Covers
<1>8. CASE \E k \in Superseded(f) : queue' = [queue EXCEPT ![k] = f]
  <2>1. PICK k \in Superseded(f) : queue' = [queue EXCEPT ![k] = f]
    BY <1>8
  <2> DEFINE K == P + k
  <2>2. /\ k \in 1 .. Q /\ K \in 1 .. P + Q
        /\ queue[k].kind = "S" /\ f.kind = "S" /\ queue[k].conn = f.conn
    BY <1>1, <2>1 DEF Superseded, CanSupersede
  <2>3. /\ Len(queue') = Q /\ queue'[k] = f
        /\ \A i \in 1 .. Q : i # k => queue'[i] = queue[i]
    BY <2>1, <2>2, ExceptSeq DEF TxType
  <2>4. /\ DOMAIN queue' = 1 .. Q /\ DOMAIN OnAir' = 1 .. P + Q
        /\ OnAir'[K] = f /\ OnAir[K] = queue[k]
        /\ \A i \in 1 .. P + Q : i # K => OnAir'[i] = OnAir[i]
    <3>1. /\ DOMAIN queue' = 1 .. Q /\ DOMAIN OnAir' = 1 .. P + Q
          /\ \A i \in 1 .. P + Q : OnAir'[i] = IF i <= P THEN popped[i] ELSE queue'[i - P]
          /\ \A i \in 1 .. P + Q : OnAir[i] = IF i <= P THEN popped[i] ELSE queue[i - P]
      BY <1>1, <1>4, <2>3, OnAirIs, OnAirIsNext
    <3>2. ~(K <= P) /\ K - P = k
      BY <1>1, <2>2
    <3>3. \A i \in 1 .. P + Q : i > P /\ i # K => i - P \in 1 .. Q /\ i - P # k
      BY <1>1, <2>2
    <3> HIDE DEF P, Q, K
    <3>4. ASSUME NEW i \in 1 .. P + Q, i # K PROVE OnAir'[i] = OnAir[i]
      <4>1. CASE i <= P
        BY <3>1, <4>1
      <4>2. CASE ~(i <= P)
        <5>1. i - P \in 1 .. Q /\ i - P # k
          BY <1>1, <3>3, <3>4, <4>2
        <5>2. OnAir'[i] = queue'[i - P] /\ OnAir[i] = queue[i - P]
          BY <3>1, <4>2
        <5>3. QED BY <2>3, <5>1, <5>2
      <4>3. QED BY <4>1, <4>2
    <3>5. QED BY <2>2, <2>3, <3>1, <3>2, <3>4
  <2> HIDE DEF K
  <2>5. Numbered'
    <3>1. \A i, j \in DOMAIN queue' :
             queue'[i].kind = "S" /\ Ordered(queue'[i], queue'[j]) => i = j
      BY <1>1, <2>2, <2>3, <2>4 DEF Order, Numbered, Ordered
    <3>2. QED BY <1>1, <1>3, <1>5, <3>1, BoundsAssumption DEF Numbered
  <2>6. \A i \in DOMAIN OnAir' : \E j \in DOMAIN log' : OnAir'[i] = log'[j]
    <3>1. ASSUME NEW i \in 1 .. P + Q, i # K PROVE \E j \in DOMAIN log' : OnAir'[i] = log'[j]
      <4>1. PICK j \in 1 .. N : OnAir[i] = log[j]
        BY <1>1 DEF Order, HostOrder
      <4>2. j \in DOMAIN log' /\ OnAir'[i] = log'[j]
        BY <1>1, <1>3, <1>5, <2>4, <3>1, <4>1
      <4>3. QED BY <4>2
    <3>2. OnAir'[K] = log'[N + 1] /\ N + 1 \in DOMAIN log'
      BY <1>1, <1>3, <1>5, <2>4
    <3>3. QED BY <2>4, <3>1, <3>2
  <2>7. \A i \in DOMAIN OnAir : i > K => ~Ordered(f, OnAir[i])
    <3> SUFFICES ASSUME NEW i \in 1 .. P + Q, i > K, Ordered(f, OnAir[i]) PROVE FALSE
      BY <1>1
    <3>1. i - P \in 1 .. Q /\ i - P # k /\ i > P
      BY <1>1, <2>2 DEF K
    <3>5. i \in DOMAIN OnAir /\ ~(i <= P)
      BY <1>1, <3>1
    <3>4. OnAir[i] = queue[i - P]
      BY <3>5, OnAirIs
    <3>2. Ordered(queue[k], queue[i - P]) /\ queue[k].kind = "S"
      BY <2>2, <3>4 DEF Ordered
    <3>3. QED BY <1>1, <2>2, <3>1, <3>2 DEF Order, Numbered
  <2>8. \A i, j \in DOMAIN OnAir' :
           i < j /\ Ordered(OnAir'[i], OnAir'[j]) => OnAir'[i].n < OnAir'[j].n
    <3> SUFFICES ASSUME NEW i \in 1 .. P + Q, NEW j \in 1 .. P + Q, i < j,
                        Ordered(OnAir'[i], OnAir'[j])
                 PROVE  OnAir'[i].n < OnAir'[j].n
      BY <2>4
    <3>1. CASE i # K /\ j # K
      BY <1>1, <2>4, <3>1 DEF Order, HostOrder
    <3>2. CASE j = K
      BY <1>1, <1>6, <2>4, <3>2
    <3>3. CASE i = K
      BY <1>1, <2>4, <2>7, <3>3
    <3>4. QED BY <3>1, <3>2, <3>3
  <2>9. \A i \in DOMAIN log' : \E j \in DOMAIN OnAir' : Covers(OnAir'[j], log'[i])
    <3>1. Covers(OnAir'[K], log'[N + 1]) /\ K \in DOMAIN OnAir'
      BY <1>1, <1>3, <2>2, <2>4 DEF Covers
    <3>2. ASSUME NEW i \in 1 .. N PROVE \E j \in DOMAIN OnAir' : Covers(OnAir'[j], log'[i])
      <4>1. PICK j \in 1 .. P + Q : Covers(OnAir[j], log[i])
        BY <1>1 DEF Order, HostOrder
      <4>2. log'[i] = log[i] /\ log[i].n < f.n
        BY <1>1, <1>3 DEF Order, Numbered
      <4>3. CASE j # K
        BY <2>4, <4>1, <4>2, <4>3
      <4>4. CASE j = K
        <5>1. log[i].kind = "S" /\ Ordered(f, log[i])
          BY <2>2, <2>4, <4>1, <4>4 DEF Covers, Ordered
        <5>2. log[i] \in Frame
          BY ElementOfSeq DEF TxType
        <5>3. f.n > log[i].n
          BY <4>2, <5>2 DEF Frame
        <5>4. Covers(f, log[i])
          BY <5>1, <5>3 DEF Covers
        <5>5. QED BY <2>4, <3>1, <4>2, <4>4, <5>4
      <4>5. QED BY <4>3, <4>4
    <3>3. QED BY <1>1, <1>5, <3>1, <3>2
  <2>10. QED BY <1>4, <2>5, <2>6, <2>8, <2>9 DEF Order, HostOrder, Ordered, Covers
<1>9. QED BY <1>2, <1>7, <1>8

-----------------------------------------------------------------------------
(* The PTT controller                                                      *)

LEMMA ApplyProperties ==
    ASSUME NEW p \in Controller, NEW level \in BOOLEAN, NEW ok \in BOOLEAN
    PROVE  /\ Apply(p, level, ok) \in Controller
           /\ Apply(p, level, ok).method = p.method /\ Apply(p, level, ok).invert = p.invert
           /\ Apply(p, level, ok).inited = p.inited /\ Apply(p, level, ok).tx = p.tx
           /\ Apply(p, level, ok).sure = ok
           /\ ok => Apply(p, level, ok).hw = level
BY DEF Apply, Controller

\* Whatever the hardware does, set(tx) leaves tx_state_ = tx; when the write
\* succeeds the radio is keyed as asked, inverted line or not.
LEMMA SetProperties ==
    ASSUME NEW p \in Controller, NEW tx \in BOOLEAN, NEW ok \in BOOLEAN, NEW q, q = Set(p, tx, ok),
           Consistent(p), p.inited
    PROVE  q \in Controller /\ Consistent(q) /\ q.inited /\ q.tx = tx
<1> DEFINE r == [p EXCEPT !.tx = tx]
<1>1. /\ r \in Controller /\ r.tx = tx /\ r.method = p.method /\ r.invert = p.invert
      /\ r.inited = p.inited /\ r.sure = p.sure
  BY DEF Controller
<1>2. q = IF p.method \in Lines \cup {"CAT"} THEN Apply(r, Level(p, tx), ok) ELSE r
  BY DEF Set
<1> HIDE DEF r
<1>3. CASE p.method \in Lines \cup {"CAT"}
  <2> DEFINE level == Level(p, tx)
  <2>1. level \in BOOLEAN
    BY DEF Level, Controller
  <2>2. q = Apply(r, level, ok)
    BY <1>2, <1>3
  <2>3. /\ q \in Controller /\ q.method = p.method /\ q.invert = p.invert /\ q.inited /\ q.tx = tx
        /\ q.sure = ok
        /\ ok => q.hw = Level(p, tx)
    <3> HIDE DEF level
    <3>1. /\ q \in Controller /\ q.method = r.method /\ q.invert = r.invert
          /\ q.inited = r.inited /\ q.tx = r.tx /\ q.sure = ok
          /\ ok => q.hw = level
      <4> DEFINE a == Apply(r, level, ok)
      <4>1. r \in Controller
        BY <1>1
      <4>2. /\ a \in Controller /\ a.method = r.method /\ a.invert = r.invert
            /\ a.sure = ok
            /\ ok => a.hw = level
        BY <2>1, <4>1, ApplyProperties
      <4>3. a.inited = r.inited
        BY <2>1, <4>1, ApplyProperties
      <4>4. a.tx = r.tx
        BY <2>1, <4>1, ApplyProperties
      <4>5. q = a
        BY <2>2
      <4> HIDE DEF a
      <4>6. QED BY <4>2, <4>3, <4>4, <4>5
    <3>2. q.inited
      BY <1>1, <3>1
    <3>3. q.method = p.method /\ q.invert = p.invert /\ q.tx = tx
      BY <1>1, <3>1
    <3>4. QED BY <3>1, <3>2, <3>3 DEF level
  <2>4. ok => (Keyed(q) <=> tx)
    <3>1. CASE p.method = "CAT"
      BY <2>3, <3>1 DEF Level, Keyed, Lines
    <3>2. CASE p.method \in Lines
      <4>1. p.method # "CAT" /\ p.invert \in BOOLEAN
        BY <3>2 DEF Lines, Controller
      <4>2. ok => q.hw = (tx # p.invert)
        BY <2>3, <4>1 DEF Level
      <4>3. ok => (q.hw # p.invert <=> tx)
        BY <4>1, <4>2
      <4>4. QED BY <2>3, <3>2, <4>1, <4>3 DEF Keyed
    <3>3. QED BY <1>3, <3>1, <3>2
  <2>5. QED BY <1>3, <2>3, <2>4 DEF Consistent
<1>4. CASE p.method \notin Lines \cup {"CAT"}
  BY <1>1, <1>2, <1>4 DEF Consistent
<1>5. QED BY <1>3, <1>4

LEMMA InitProperties ==
    ASSUME NEW p \in Controller, NEW ok \in BOOLEAN, NEW q, q = InitPtt(p, ok), Consistent(p), ~p.tx
    PROVE  q \in Controller /\ Consistent(q) /\ q.inited /\ ~q.tx
<1> DEFINE r == CASE p.method \in {"RTS", "DTR"}  -> InitSerial(p, ok)
                  [] p.method = "CM108"           -> InitCm108(p, ok)
                  [] p.method = "GPIO"            -> InitGpio(p, ok)
                  [] p.method = "CAT"             -> InitCat(p)
                  [] p.method \in {"VOX", "HAMLIB"} -> p
           open == [p EXCEPT !.fd = TRUE]
<1>1. q = [r EXCEPT !.inited = TRUE]
  BY DEF InitPtt
<1>2. /\ open \in Controller /\ open.tx = p.tx /\ open.method = p.method /\ open.invert = p.invert
      /\ open.sure = p.sure /\ open.hw = p.hw
  BY DEF Controller
<1>3. p.invert \in BOOLEAN /\ p.method \in Method
  BY DEF Controller
<1>4. /\ r \in Controller /\ r.tx = p.tx /\ r.method = p.method /\ r.invert = p.invert
      /\ Consistent(r)
  <2> HIDE DEF open
  <2>1. CASE p.method \in Lines
    <3>1. r = Apply(open, p.invert, ok) \/ r = Apply(p, p.invert, ok)
      BY <2>1 DEF Lines, InitSerial, InitCm108, InitGpio, open
    <3> HIDE DEF r
    <3>2. /\ r \in Controller /\ r.tx = p.tx /\ r.method = p.method /\ r.invert = p.invert
          /\ r.sure = ok
          /\ ok => r.hw = p.invert
      BY <1>2, <1>3, <3>1, ApplyProperties
    <3>3. ok => ~Keyed(r)
      BY <2>1, <3>2 DEF Keyed, Lines
    <3>4. QED BY <2>1, <3>2, <3>3 DEF Consistent
  <2>2. CASE p.method = "CAT"
    <3>1. r = open
      BY <2>2 DEF InitCat, open
    <3>2. QED BY <1>2, <2>2, <3>1 DEF Consistent, Keyed, Lines
  <2>3. CASE p.method \in {"VOX", "HAMLIB"}
    <3>1. r = p
      BY <2>3
    <3>2. QED BY <3>1
  <2>4. QED BY <1>3, <2>1, <2>2, <2>3 DEF Method, Lines
<1> HIDE DEF r
<1>5. /\ q \in Controller /\ q.inited /\ q.tx = r.tx /\ q.method = r.method
      /\ q.invert = r.invert /\ q.hw = r.hw /\ q.sure = r.sure
  BY <1>1, <1>4 DEF Controller
<1>6. QED BY <1>4, <1>5 DEF Consistent, Keyed

LEMMA CloseProperties ==
    ASSUME NEW p \in Controller, NEW ok \in BOOLEAN, NEW q, q = Close(p, ok), Consistent(p), p.inited
    PROVE  q \in Controller /\ Consistent(q) /\ ~q.tx
<1> DEFINE r == IF p.tx THEN Set(p, FALSE, ok) ELSE p
<1>1. r \in Controller /\ Consistent(r) /\ ~r.tx
  BY SetProperties
<1>2. q = [r EXCEPT !.fd = FALSE, !.inited = FALSE]
  BY DEF Close
<1> HIDE DEF r
<1>3. /\ q \in Controller /\ q.tx = r.tx /\ q.method = r.method
      /\ q.invert = r.invert /\ q.hw = r.hw /\ q.sure = r.sure
  BY <1>1, <1>2 DEF Controller
<1>4. QED BY <1>1, <1>3 DEF Consistent, Keyed

-----------------------------------------------------------------------------
(* Types, and where the threads are                                        *)

PcType == pc \in [Thread -> MainLabels \cup TxLabels \cup RxLabels]
PttType == ptt \in Controller
RestType ==
    /\ mode \in Mode
    /\ running \in BOOLEAN /\ muted \in BOOLEAN /\ nap \in BOOLEAN /\ dcd \in BOOLEAN
    /\ echo \in BOOLEAN /\ heardOwn \in BOOLEAN
    /\ left \in Nat /\ pcm \in Nat /\ ring \in Nat
    /\ lastRx \in {"never", "fresh", "old"}
    /\ dec \in {"none", "own", "other"}

LEMMA TypeParts == TypeOK <=> PcType /\ TxType /\ PttType /\ RestType
<1>1. PcType <=> pc \in [Thread -> {"start", "loop", "notify", "join_tx", "join_rx", "close",
                          "exit", "on", "off", "check", "block", "waiting", "dwait",
                          "nap", "dcd_wait", "settle", "slot", "dequeue", "key",
                          "write", "flush", "drain", "unkey", "reset", "unmute",
                          "done", "read", "own", "other"}]
  <2>1. MainLabels \cup TxLabels \cup RxLabels =
            {"start", "loop", "notify", "join_tx", "join_rx", "close",
             "exit", "on", "off", "check", "block", "waiting", "dwait",
             "nap", "dcd_wait", "settle", "slot", "dequeue", "key",
             "write", "flush", "drain", "unkey", "reset", "unmute",
             "done", "read", "own", "other"}
    BY DEF MainLabels, TxLabels, RxLabels
  <2>2. QED BY <2>1 DEF PcType
<1>2. RestType /\ TxType <=>
         /\ mode \in Mode
         /\ {queue, log, popped} \subseteq Seq(Frame)
         /\ {running, muted, nap, dcd, echo, heardOwn} \subseteq BOOLEAN
         /\ {left, pcm, ring} \subseteq Nat
         /\ lastRx \in {"never", "fresh", "old"}
         /\ dec \in {"none", "own", "other"}
  BY DEF RestType, TxType
<1>3. QED BY <1>1, <1>2 DEF TypeOK, PttType

LEMMA TypePartsNext == TypeOK' <=> PcType' /\ TxType' /\ PttType' /\ RestType'
BY TypeParts, PTL

Steps == PcType /\ Threads

\* A thread moves from one of its labels to another.
LEMMA MainMoves ==
    ASSUME Steps, mode \in Mode, UNCHANGED mode, NEW l \in MainLabels, Goto("main", l), l # "start",
           l \in OfTheBridge => mode = "bridge",
           l \in {"on", "off"} => mode = "test_ptt",
           l \in OfTestTx => mode = "test_tx",
           l \in {"join_rx", "close", "exit"} => pc.tx = "done",
           l = "off" => left' > 0
    PROVE  /\ Steps'
           /\ pc'.main = l /\ pc'.tx = pc.tx /\ pc'.rx = pc.rx
BY DEF Steps, PcType, Threads, Goto, Thread

LEMMA TxMoves ==
    ASSUME Steps, UNCHANGED mode, NEW l \in TxLabels, Goto("tx", l),
           pc.tx # "done"
    PROVE  /\ Steps'
           /\ pc'.main = pc.main /\ pc'.tx = l /\ pc'.rx = pc.rx
BY DEF Steps, PcType, Threads, Goto, Thread

LEMMA RxMoves ==
    ASSUME Steps, UNCHANGED <<mode, left>>, NEW l \in RxLabels, Goto("rx", l),
           pc.rx # "done"
    PROVE  /\ Steps'
           /\ pc'.main = pc.main /\ pc'.tx = pc.tx /\ pc'.rx = l
BY DEF Steps, PcType, Threads, Goto, Thread

\* All of the invariant but the frames.
State == Steps /\ RestType /\ PttType /\ Muting /\ Keying /\ Draining

-----------------------------------------------------------------------------
(* The TX thread                                                           *)

\* Waiting for work and for the channel.
Idle == {"check", "block", "waiting", "dwait", "nap", "dcd_wait", "settle", "slot", "dequeue"}

LEMMA TxWaits ==
    ASSUME State, pc.tx \in Idle, NEW l \in Idle \cup {"done"}, TxGoto(l), nap' \in BOOLEAN
    PROVE  State'
<1> USE DEF State
<1>1. /\ Steps' /\ pc'.main = pc.main /\ pc'.tx = l /\ pc'.rx = pc.rx
  BY TxMoves DEF TxGoto, Idle, TxLabels
<1>2. UNCHANGED <<mode, running, ptt, muted, left, pcm, ring, lastRx, dcd, echo, dec, heardOwn>>
  BY DEF TxGoto, audioVars, rxVars
<1>3. RestType' /\ PttType'
  BY <1>2 DEF RestType, PttType
<1>4. Muting'
  BY <1>1, <1>2 DEF Muting, Playing, OnTheAir, Idle
<1>5. Keying'
  BY <1>1, <1>2 DEF Keying, OnTheAir, Playing, Idle
<1>6. Draining'
  BY <1>1, <1>2 DEF Draining, Playing, Idle, MayStall
<1>7. QED BY <1>1, <1>3, <1>4, <1>5, <1>6

Waits == WaitWork \/ Block \/ SpuriousWakeup \/ Dwait \/ DwaitOver \/ DcdWait \/ Settle \/ Slot

LEMMA WaitsKeep == State /\ Waits => State' /\ UNCHANGED txVars
<1> SUFFICES ASSUME State, Waits PROVE State' /\ UNCHANGED txVars
  OBVIOUS
<1>1. PICK l \in Idle \cup {"done"} : TxGoto(l)
  BY DEF Waits, WaitWork, Block, SpuriousWakeup, Dwait, DwaitOver, DcdWait, Settle, Slot, Idle
<1>2. pc.tx \in Idle
  BY DEF Waits, WaitWork, Block, SpuriousWakeup, Dwait, DwaitOver, DcdWait, Settle, Slot, Idle
<1>3. nap' \in BOOLEAN
  <2>1. nap \in BOOLEAN
    BY DEF State, RestType
  <2>2. UNCHANGED nap \/ nap' = (lastRx = "fresh")
    BY DEF Waits, WaitWork, Block, SpuriousWakeup, Dwait, DwaitOver, DcdWait, Settle, Slot
  <2>3. CASE UNCHANGED nap
    BY <2>1, <2>3
  <2>4. CASE nap' = (lastRx = "fresh")
    BY <2>4
  <2>5. QED BY <2>2, <2>3, <2>4
<1>4. State'
  BY <1>1, <1>2, <1>3, TxWaits
<1>5. QED BY <1>1, <1>4 DEF TxGoto

\* The mute is set before the radio is keyed.
LEMMA DequeueKeeps == State /\ Dequeue => State'
<1> SUFFICES ASSUME State, Dequeue PROVE State'
  OBVIOUS
<1> USE DEF State
<1>1. PICK l \in {"check", "key"} :
         Goto("tx", l) /\ (l = "key" => muted' = TRUE) /\ (l = "check" => muted' = muted)
  BY DEF Dequeue
<1>2. /\ Steps' /\ pc'.main = pc.main /\ pc'.tx = l /\ pc'.rx = pc.rx
      /\ pc.tx = "dequeue"
  BY <1>1, TxMoves DEF Dequeue, TxLabels
<1>3. /\ UNCHANGED <<mode, running, ptt, pcm, ring, lastRx, nap, dcd, echo, dec, heardOwn>>
      /\ left' \in Nat /\ muted' \in BOOLEAN
  BY BoundsAssumption DEF Dequeue, rxVars, RestType
<1>4. RestType' /\ PttType'
  BY <1>3 DEF RestType, PttType
<1>5. Muting'
  BY <1>1, <1>2, <1>3 DEF Muting, Playing, OnTheAir
<1>6. Keying' /\ Draining'
  BY <1>2, <1>3 DEF Keying, OnTheAir, Playing, Draining, MayStall
<1>7. QED BY <1>2, <1>4, <1>5, <1>6

-----------------------------------------------------------------------------
(* A transmission, by the TX thread or by --test-tx                        *)

\* The other thread does not transmit, and the controller is open.
LEMMA OneTransmits ==
    ASSUME State, NEW t \in {"tx", "main"}, pc[t] \in OfTestTx,
           UNCHANGED mode, NEW l, Goto(t, l),
           l \in OnTheAir \/ (t = "tx" /\ l = "reset") \/ (t = "main" /\ l = "close")
    PROVE  /\ Steps' /\ ptt.inited /\ pc'.rx = pc.rx
           /\ t = "tx" => /\ pc'.tx = l /\ pc'.main = pc.main /\ pc.main \notin OfTestTx
                          /\ pc.main \notin {"start", "exit"}
           /\ t = "main" => /\ pc'.main = l /\ pc'.tx = pc.tx /\ pc.tx = "done"
                            /\ mode = "test_tx"
<1> USE DEF State
<1>1. CASE t = "tx"
  <2>1. pc.tx # "done" /\ l \in TxLabels
    BY <1>1 DEF OfTestTx, OnTheAir, Playing, TxLabels
  <2>2. /\ Steps' /\ pc'.tx = l /\ pc'.main = pc.main /\ pc'.rx = pc.rx
    BY <1>1, <2>1, TxMoves
  <2>3. mode = "bridge" /\ pc.main \notin {"start", "exit"}
    BY <2>1 DEF Steps, Threads
  <2>4. pc.main \notin OfTestTx
    BY <2>3 DEF Steps, Threads
  <2>5. ptt.inited
    BY <2>3 DEF Keying
  <2>6. QED BY <1>1, <2>2, <2>3, <2>4, <2>5
<1>2. CASE t = "main"
  <2>1. mode = "test_tx" /\ pc.tx = "done" /\ pc.main \notin {"start", "exit"}
    BY <1>2 DEF Steps, Threads, OfTestTx, OnTheAir, Playing
  <2>2. /\ l \in MainLabels /\ l \notin OfTheBridge /\ l \notin {"start", "on", "off"}
    BY <1>2 DEF OnTheAir, Playing, MainLabels, OfTheBridge
  <2>3. mode \in Mode
    BY DEF RestType
  <2>4. /\ Steps' /\ pc'.main = l /\ pc'.tx = pc.tx /\ pc'.rx = pc.rx
    BY <1>2, <2>1, <2>2, <2>3, MainMoves
  <2>5. ptt.inited
    BY <2>1 DEF Keying
  <2>6. QED BY <1>2, <2>1, <2>4, <2>5
<1>3. QED BY <1>1, <1>2

LEMMA KeyOnKeeps == \A t \in {"tx", "main"} : State /\ KeyOn(t) => State'
<1> SUFFICES ASSUME NEW t \in {"tx", "main"}, State, KeyOn(t) PROVE State'
  OBVIOUS
<1> USE DEF State
<1>1. /\ pc[t] = "key" /\ Goto(t, "write") /\ UNCHANGED <<mode, running, muted, left, pcm, ring>>
      /\ UNCHANGED <<lastRx, nap, dcd, echo, dec, heardOwn>>
  BY DEF KeyOn, audioVars, rxVars
<1>2. /\ Steps' /\ ptt.inited /\ pc'.rx = pc.rx
      /\ t = "tx" => /\ pc'.tx = "write" /\ pc'.main = pc.main /\ pc.main \notin OfTestTx
                     /\ pc.main \notin {"start", "exit"}
      /\ t = "main" => /\ pc'.main = "write" /\ pc'.tx = pc.tx /\ pc.tx = "done"
                       /\ mode = "test_tx"
  BY <1>1, OneTransmits DEF OfTestTx, OnTheAir, Playing
<1>3. PICK ok \in BOOLEAN : ptt' = Set(ptt, TRUE, ok)
  BY DEF KeyOn, PttOk
<1>4. ptt' \in Controller /\ Consistent(ptt') /\ ptt'.inited /\ ptt'.tx = TRUE
  BY <1>2, <1>3, SetProperties DEF PttType, Keying
<1>5. RestType' /\ PttType'
  BY <1>1, <1>4 DEF RestType, PttType
<1>6. Muting'
  BY <1>1, <1>2 DEF Muting, Playing, OnTheAir
<1>7. Keying'
  BY <1>1, <1>2, <1>4 DEF Keying, OfTestTx, OnTheAir, Playing
<1>8. Draining'
  BY <1>1, <1>2 DEF Draining, Playing, MayStall
<1>9. QED BY <1>2, <1>5, <1>6, <1>7, <1>8

LEMMA KeyOffKeeps == \A t \in {"tx", "main"} : State /\ KeyOff(t) => State'
<1> SUFFICES ASSUME NEW t \in {"tx", "main"}, State, KeyOff(t) PROVE State'
  OBVIOUS
<1> USE DEF State
<1> DEFINE l == IF t = "tx" THEN "reset" ELSE "close"
<1>1. /\ pc[t] = "unkey" /\ Goto(t, l) /\ UNCHANGED <<mode, running, muted, left, pcm, ring>>
      /\ UNCHANGED <<lastRx, nap, dcd, echo, dec, heardOwn>>
  BY DEF KeyOff, audioVars, rxVars
<1>2. /\ Steps' /\ ptt.inited /\ pc'.rx = pc.rx
      /\ t = "tx" => /\ pc'.tx = "reset" /\ pc'.main = pc.main /\ pc.main \notin OfTestTx
                     /\ pc.main \notin {"start", "exit"}
      /\ t = "main" => /\ pc'.main = "close" /\ pc'.tx = pc.tx /\ pc.tx = "done"
                       /\ mode = "test_tx"
  BY <1>1, OneTransmits DEF OfTestTx, OnTheAir, Playing
<1>3. PICK ok \in BOOLEAN : ptt' = Set(ptt, FALSE, ok)
  BY DEF KeyOff, PttOk
<1>4. ptt' \in Controller /\ Consistent(ptt') /\ ptt'.inited /\ ptt'.tx = FALSE
  BY <1>2, <1>3, SetProperties DEF PttType, Keying
<1>5. RestType' /\ PttType'
  BY <1>1, <1>4 DEF RestType, PttType
<1>6. Muting'
  BY <1>1, <1>2 DEF Muting, Playing, OnTheAir
<1>7. Keying'
  BY <1>1, <1>2, <1>4 DEF Keying, OfTestTx, OnTheAir, Playing
<1>8. Draining'
  BY <1>1, <1>2 DEF Draining, Playing, MayStall, OfTestTx, OnTheAir
<1>9. QED BY <1>2, <1>5, <1>6, <1>7, <1>8

\* write and flush fill the ring, drain empties it.
LEMMA PlayingKeeps ==
    \A t \in {"tx", "main"} : State /\ (Write(t) \/ Flush(t) \/ DrainEnds(t)) => State'
<1> SUFFICES ASSUME NEW t \in {"tx", "main"}, State, Write(t) \/ Flush(t) \/ DrainEnds(t)
             PROVE  State'
  OBVIOUS
<1> USE DEF State
<1>1. /\ pc[t] \in Playing
      /\ UNCHANGED <<mode, running, ptt, muted, lastRx, nap, dcd, echo, dec, heardOwn>>
  BY DEF Write, Flush, DrainEnds, Playing, rxVars
<1>2. left' \in Nat /\ pcm' \in Nat /\ ring' \in Nat
  BY BoundsAssumption DEF Write, Flush, DrainEnds, RestType, audioVars
<1>3. RestType' /\ PttType'
  BY <1>1, <1>2 DEF RestType, PttType
<1>4. CASE UNCHANGED pc
  <2>1. Steps'
    <3>1. pc.main # "off" \/ left' = left
      BY <1>1, <1>4 DEF Steps, Threads, Playing
    <3>2. QED BY <1>1, <1>4, <3>1 DEF Steps, PcType, Threads
  <2>2. Muting' /\ Keying'
    BY <1>1, <1>4 DEF Muting, Keying
  <2>3. Draining'
    BY <1>1, <1>4 DEF Draining
  <2>4. QED BY <1>3, <2>1, <2>2, <2>3
<1>5. CASE ~UNCHANGED pc
  <2>1. PICK l \in {"flush", "drain", "unkey"} :
           /\ Goto(t, l)
           /\ l = "unkey" => ring' = 0 \/ MayStall
    BY <1>5 DEF Write, Flush, DrainEnds, audioVars
  <2>2. l \in OnTheAir /\ pc[t] \in OfTestTx
    BY <1>1 DEF OnTheAir, Playing, OfTestTx
  <2>3. /\ Steps' /\ pc'.rx = pc.rx
        /\ t = "tx" => /\ pc'.tx = l /\ pc'.main = pc.main /\ pc.main \notin OfTestTx
                       /\ pc.main \notin {"start", "exit"}
        /\ t = "main" => /\ pc'.main = l /\ pc'.tx = pc.tx /\ pc.tx = "done"
                         /\ mode = "test_tx"
    BY <1>1, <2>1, <2>2, OneTransmits
  <2>4. Muting'
    BY <1>1, <2>1, <2>2, <2>3 DEF Muting, Playing, OnTheAir
  <2>5. Keying'
    BY <1>1, <2>2, <2>3 DEF Keying, OfTestTx, OnTheAir, Playing
  <2>6. Draining'
    BY <2>1, <2>3 DEF Draining, Playing, MayStall
  <2>7. QED BY <1>3, <2>3, <2>4, <2>5, <2>6
<1>6. QED BY <1>4, <1>5

\* The decoder is reset before the mute is lifted.
LEMMA AfterKeeps == State /\ (ResetDecoder \/ Unmute) => State'
<1> SUFFICES ASSUME State, ResetDecoder \/ Unmute PROVE State'
  OBVIOUS
<1> USE DEF State
<1>1. /\ pc.tx \in {"reset", "unmute"}
      /\ UNCHANGED <<mode, running, ptt, left, pcm, ring, lastRx, nap, dcd, echo, heardOwn>>
      /\ (muted' = muted \/ (pc.tx = "unmute" /\ muted' = FALSE))
      /\ (dec' = dec \/ dec' = "none")
  BY DEF ResetDecoder, Unmute, audioVars, rxVars
<1>2. PICK l \in {"unmute", "check"} : Goto("tx", l) /\ (l = "unmute" => muted' = muted)
  BY DEF ResetDecoder, Unmute
<1>3. /\ Steps' /\ pc'.main = pc.main /\ pc'.tx = l /\ pc'.rx = pc.rx
  BY <1>1, <1>2, TxMoves DEF TxLabels
<1>4. RestType' /\ PttType'
  BY <1>1 DEF RestType, PttType
<1>5. Muting'
  BY <1>1, <1>2, <1>3 DEF Muting, Playing, OnTheAir
<1>6. Keying' /\ Draining'
  BY <1>1, <1>2, <1>3 DEF Keying, OnTheAir, Playing, Draining, MayStall
<1>7. QED BY <1>3, <1>4, <1>5, <1>6

-----------------------------------------------------------------------------
(* The RX thread, the sound card and the channel                           *)

LEMMA RxKeeps == State /\ RxThread => State'
<1> SUFFICES ASSUME State, RxThread PROVE State'
  OBVIOUS
<1> USE DEF State
<1>1. UNCHANGED <<mode, running, ptt, muted, left, pcm, ring, nap, dcd>>
  BY DEF RxThread, Hear, Lose, Decoded, OnFrame, RxEnds, RxStep, audioVars
<1>2. /\ lastRx' \in {"never", "fresh", "old"} /\ dec' \in {"none", "own", "other"}
      /\ echo' \in BOOLEAN
  BY DEF RxThread, Hear, Lose, Decoded, OnFrame, RxEnds, RxStep, rxVars, RestType
<1>3. heardOwn' \in BOOLEAN
  <2>1. heardOwn' = heardOwn \/ heardOwn' = (heardOwn \/ pc.rx = "own")
    BY DEF RxThread, Hear, Lose, Decoded, OnFrame, RxEnds, RxStep, rxVars
  <2>2. CASE heardOwn' = heardOwn
    BY <2>2 DEF RestType
  <2>3. CASE heardOwn' = (heardOwn \/ pc.rx = "own")
    BY <2>3
  <2>4. QED BY <2>1, <2>2, <2>3
<1>4. RestType' /\ PttType'
  BY <1>1, <1>2, <1>3 DEF RestType, PttType
<1>5. Steps' /\ pc'.main = pc.main /\ pc'.tx = pc.tx
  <2>1. CASE Hear \/ Lose
    BY <1>1, <2>1 DEF Hear, Lose, Steps, PcType, Threads
  <2>2. CASE Decoded
    <3>1. dec \in {"own", "other"} /\ Goto("rx", dec) /\ pc.rx = "read"
      BY <2>2 DEF Decoded, RxStep, RestType
    <3>2. /\ Steps' /\ pc'.main = pc.main /\ pc'.tx = pc.tx /\ pc'.rx = dec
      BY <1>1, <3>1, RxMoves DEF RxLabels
    <3>3. QED BY <3>1, <3>2
  <2>3. CASE OnFrame \/ RxEnds
    <3>1. PICK l \in {"read", "done"} : Goto("rx", l)
      BY <2>3 DEF OnFrame, RxEnds
    <3>2. pc.rx # "done"
      BY <2>3 DEF OnFrame, RxEnds, RxStep
    <3>3. /\ Steps' /\ pc'.main = pc.main /\ pc'.tx = pc.tx /\ pc'.rx = l
      BY <1>1, <3>1, <3>2, RxMoves DEF RxLabels
    <3>4. QED BY <3>3
  <2>4. QED BY <2>1, <2>2, <2>3 DEF RxThread
<1>6. Muting' /\ Keying' /\ Draining'
  BY <1>1, <1>5 DEF Muting, Keying, Draining
<1>7. QED BY <1>4, <1>5, <1>6

LEMMA OutsideKeeps == State /\ (Play \/ ChannelChanges \/ HoldoffPasses \/ SignalHandler) => State'
<1> SUFFICES ASSUME State, Play \/ ChannelChanges \/ HoldoffPasses \/ SignalHandler PROVE State'
  OBVIOUS
<1> USE DEF State
<1>1. /\ UNCHANGED <<mode, pc, ptt, muted, left, pcm, dec, heardOwn>>
      /\ ring' \in Nat /\ ring' <= ring
  BY DEF Play, ChannelChanges, HoldoffPasses, SignalHandler, audioVars, rxVars, RestType
<1>2. /\ lastRx' \in {"never", "fresh", "old"} /\ running' \in BOOLEAN
      /\ echo' \in BOOLEAN /\ nap' \in BOOLEAN /\ dcd' \in BOOLEAN
  <2>1. echo' \in BOOLEAN
    <3>1. echo' = echo \/ echo' = (mode = "bridge")
      BY DEF Play, ChannelChanges, HoldoffPasses, SignalHandler
    <3>2. CASE echo' = echo
      BY <3>2 DEF RestType
    <3>3. CASE echo' = (mode = "bridge")
      BY <3>3
    <3>4. QED BY <3>1, <3>2, <3>3
  <2>2. dcd' \in BOOLEAN
    <3>1. dcd' = dcd \/ dcd' = ~dcd
      BY DEF Play, ChannelChanges, HoldoffPasses, SignalHandler
    <3>2. CASE dcd' = dcd
      BY <3>2 DEF RestType
    <3>3. CASE dcd' = ~dcd
      BY <3>3
    <3>4. QED BY <3>1, <3>2, <3>3
  <2>3. running' \in BOOLEAN /\ nap' \in BOOLEAN
    <3>1. (running' = running \/ running' = FALSE) /\ (nap' = nap \/ nap' = FALSE)
      BY DEF Play, ChannelChanges, HoldoffPasses, SignalHandler
    <3>2. QED BY <3>1 DEF RestType
  <2>4. lastRx' \in {"never", "fresh", "old"}
    BY DEF Play, ChannelChanges, HoldoffPasses, SignalHandler, RestType
  <2>5. QED BY <2>1, <2>2, <2>3, <2>4
<1>3. RestType' /\ PttType'
  BY <1>1, <1>2 DEF RestType, PttType
<1>4. Steps' /\ Muting' /\ Keying'
  BY <1>1 DEF Steps, PcType, Threads, Muting, Keying
<1>5. Draining'
  BY <1>1 DEF Draining, RestType
<1>6. QED BY <1>3, <1>4, <1>5

-----------------------------------------------------------------------------
(* The main thread                                                         *)

\* A notification may move the TX thread on from its wait.
LEMMA Notifying ==
    ASSUME State, UNCHANGED <<mode, ptt, muted, left, pcm, ring, lastRx, nap, dcd, echo, dec, heardOwn>>,
           running' \in BOOLEAN, pc'.main \in {pc.main, "join_tx"},
           pc'.main = "join_tx" => mode = "bridge",
           pc' \in [Thread -> MainLabels \cup TxLabels \cup RxLabels],
           pc.main \in OfTheBridge, pc.main # "join_rx", pc'.rx = pc.rx,
           pc'.tx = pc.tx \/ (pc.tx = "waiting" /\ pc'.tx = "check")
    PROVE  State'
<1> USE DEF State
<1>1. Steps'
  BY DEF Steps, PcType, Threads, OfTheBridge, OfTestTx, OnTheAir, Playing, TxLabels, MainLabels
<1>2. RestType' /\ PttType'
  BY DEF RestType, PttType
<1>3. Muting'
  BY DEF Muting, OnTheAir, Playing
<1>4. Keying' /\ Draining'
  BY DEF Keying, Draining, OnTheAir, Playing, OfTheBridge
<1>5. QED BY <1>1, <1>2, <1>3, <1>4

LEMMA HostKeeps == State /\ HostFrame => State'
<1> SUFFICES ASSUME State, HostFrame PROVE State'
  OBVIOUS
<1>1. /\ UNCHANGED <<mode, running, ptt, muted, left, pcm, ring, lastRx, nap, dcd, echo, dec, heardOwn>>
      /\ pc.main = "loop"
      /\ UNCHANGED pc \/ (pc.tx = "waiting" /\ Goto("tx", "check"))
  BY DEF HostFrame, audioVars, rxVars
<1>2. /\ running' \in BOOLEAN /\ pc'.main = pc.main /\ pc'.rx = pc.rx
      /\ pc' \in [Thread -> MainLabels \cup TxLabels \cup RxLabels]
      /\ pc'.tx = pc.tx \/ (pc.tx = "waiting" /\ pc'.tx = "check")
  BY <1>1 DEF State, RestType, Steps, PcType, Goto, TxLabels, Thread
<1>3. QED BY <1>1, <1>2, Notifying DEF OfTheBridge

LEMMA NotifyAllKeeps == State /\ NotifyAll => State'
<1> SUFFICES ASSUME State, NotifyAll PROVE State'
  OBVIOUS
<1>1. /\ UNCHANGED <<mode, running, ptt, muted, left, pcm, ring, lastRx, nap, dcd, echo, dec, heardOwn>>
      /\ pc.main = "notify"
      /\ pc' = [pc EXCEPT !.main = "join_tx", !.tx = IF @ = "waiting" THEN "check" ELSE @]
  BY DEF NotifyAll, audioVars, rxVars
<1>2. /\ running' \in BOOLEAN /\ pc'.main = "join_tx" /\ pc'.rx = pc.rx
      /\ pc' \in [Thread -> MainLabels \cup TxLabels \cup RxLabels]
      /\ pc'.tx = pc.tx \/ (pc.tx = "waiting" /\ pc'.tx = "check")
      /\ mode = "bridge"
  BY <1>1 DEF State, RestType, Steps, PcType, Threads, TxLabels, MainLabels, Thread, OfTheBridge
<1>3. QED BY <1>1, <1>2, Notifying DEF OfTheBridge

\* The steps of the bridge's main thread that end it.
LEMMA EndingKeeps == State /\ (LoopEnds \/ JoinTx \/ JoinRx) => State'
<1> SUFFICES ASSUME State, LoopEnds \/ JoinTx \/ JoinRx PROVE State'
  OBVIOUS
<1> USE DEF State
<1>1. /\ UNCHANGED <<mode, ptt, muted, left, pcm, lastRx, nap, dcd, echo, dec, heardOwn>>
      /\ running' \in BOOLEAN /\ ring' \in Nat /\ (ring' = ring \/ ring' = 0)
      /\ pc.main \in OfTheBridge
  <2>1. UNCHANGED <<mode, ptt, muted, left, pcm, lastRx, nap, dcd, echo, dec, heardOwn>>
    BY DEF LoopEnds, JoinTx, JoinRx, audioVars, rxVars
  <2>2. (running' = running \/ running' = FALSE) /\ (ring' = ring \/ ring' = 0)
    BY DEF LoopEnds, JoinTx, JoinRx, audioVars
  <2>3. running' \in BOOLEAN /\ ring' \in Nat
    <3>1. ring' \in Nat
      BY <2>2 DEF RestType
    <3>2. CASE running' = running
      BY <3>1, <3>2 DEF RestType
    <3>3. CASE running' = FALSE
      BY <3>1, <3>3
    <3>4. QED BY <2>2, <3>2, <3>3
  <2>4. pc.main \in OfTheBridge
    BY DEF LoopEnds, JoinTx, JoinRx, OfTheBridge
  <2>5. QED BY <2>1, <2>2, <2>3, <2>4
<1>2. PICK l \in {"notify", "join_rx", "close"} :
         Goto("main", l) /\ (l \in {"join_rx", "close"} => pc.tx = "done")
  BY DEF LoopEnds, JoinTx, JoinRx, Steps, Threads
<1>3. mode = "bridge" /\ mode \in Mode
  BY <1>1 DEF Steps, Threads, RestType
<1>4. Steps' /\ pc'.main = l /\ pc'.tx = pc.tx /\ pc'.rx = pc.rx
  BY <1>1, <1>2, <1>3, MainMoves DEF MainLabels, OfTestTx, OnTheAir, Playing
<1>5. RestType' /\ PttType'
  BY <1>1 DEF RestType, PttType
<1>6. Muting' /\ Keying'
  BY <1>1, <1>4 DEF Muting, Keying, OnTheAir, Playing, OfTheBridge
<1>7. Draining'
  BY <1>1, <1>4 DEF Draining, Playing, OfTheBridge, RestType
<1>8. QED BY <1>4, <1>5, <1>6, <1>7

LEMMA CloseKeeps == State /\ ClosePtt => State'
<1> SUFFICES ASSUME State, ClosePtt PROVE State'
  OBVIOUS
<1> USE DEF State
<1>1. /\ UNCHANGED <<mode, running, muted, left, pcm, lastRx, nap, dcd, echo, dec, heardOwn>>
      /\ ring' = 0 /\ pc.main = "close" /\ Goto("main", "exit")
  BY DEF ClosePtt, rxVars
<1>2. PICK ok \in BOOLEAN : ptt' = Close(ptt, ok)
  BY DEF ClosePtt, PttOk
<1>3. ptt.inited /\ pc.tx = "done" /\ mode \in Mode
  BY <1>1 DEF Keying, Steps, Threads, RestType
<1>4. ptt' \in Controller /\ Consistent(ptt') /\ ~ptt'.tx
  BY <1>2, <1>3, CloseProperties DEF PttType, Keying
<1>5. Steps' /\ pc'.main = "exit" /\ pc'.tx = pc.tx /\ pc'.rx = pc.rx
  BY <1>1, <1>3, MainMoves DEF MainLabels, OfTheBridge, OfTestTx, OnTheAir, Playing
<1>6. RestType' /\ PttType'
  BY <1>1, <1>4 DEF RestType, PttType
<1>7. Muting'
  BY <1>1, <1>5 DEF Muting
<1>8. Keying' /\ Draining'
  BY <1>1, <1>3, <1>4, <1>5 DEF Keying, Draining, OnTheAir, Playing
<1>9. QED BY <1>5, <1>6, <1>7, <1>8

\* --test-ptt.
LEMMA TestPttKeeps == State /\ (TestOn \/ TestOff) => State'
<1> SUFFICES ASSUME State, TestOn \/ TestOff PROVE State'
  OBVIOUS
<1> USE DEF State
<1>1. /\ UNCHANGED <<mode, running, muted, pcm, ring, lastRx, nap, dcd, echo, dec, heardOwn>>
      /\ pc.main \in {"on", "off"}
  BY DEF TestOn, TestOff, audioVars, rxVars
<1>2. mode = "test_ptt" /\ pc.tx = "done" /\ ptt.inited /\ mode \in Mode
  BY <1>1 DEF Steps, Threads, Keying, RestType
<1>3. /\ left' \in Nat
      /\ \E l \in {"on", "off", "close"} : Goto("main", l) /\ (l = "off" => left' > 0)
  <2>1. CASE TestOn
    <3>1. left' = left /\ left \in Nat
      BY <2>1 DEF TestOn, audioVars, RestType
    <3>2. Goto("main", "close") \/ (Goto("main", "off") /\ left > 0)
      BY <2>1 DEF TestOn
    <3>3. QED BY <3>1, <3>2
  <2>2. CASE TestOff
    <3>1. left' = left - 1 /\ left \in Nat /\ left > 0 /\ Goto("main", "on")
      BY <2>2 DEF TestOff, RestType, Steps, Threads
    <3>2. QED BY <3>1
  <2>3. QED BY <2>1, <2>2
<1>4. PICK l \in {"on", "off", "close"} : Goto("main", l) /\ (l = "off" => left' > 0)
  BY <1>3
<1>5. Steps' /\ pc'.main = l /\ pc'.tx = pc.tx /\ pc'.rx = pc.rx
  BY <1>1, <1>2, <1>4, MainMoves DEF MainLabels, OfTheBridge, OfTestTx, OnTheAir, Playing
<1>6. ptt' \in Controller /\ Consistent(ptt') /\ ptt'.inited
  <2>1. ptt' = ptt \/ \E tx \in BOOLEAN, ok \in BOOLEAN : ptt' = Set(ptt, tx, ok)
    BY DEF TestOn, TestOff, PttOk
  <2>2. CASE ptt' = ptt
    BY <1>2, <2>2 DEF PttType, Keying
  <2>3. CASE \E tx \in BOOLEAN, ok \in BOOLEAN : ptt' = Set(ptt, tx, ok)
    BY <1>2, <2>3, SetProperties DEF PttType, Keying
  <2>4. QED BY <2>1, <2>2, <2>3
<1>7. RestType' /\ PttType'
  BY <1>1, <1>3, <1>6 DEF RestType, PttType
<1>8. Muting'
  BY <1>1, <1>5 DEF Muting
<1>9. Keying' /\ Draining'
  BY <1>1, <1>2, <1>5, <1>6 DEF Keying, Draining, OnTheAir, Playing
<1>10. QED BY <1>5, <1>7, <1>8, <1>9

LEMMA StartKeeps == State /\ Start => State'
<1> SUFFICES ASSUME State, Start PROVE State'
  OBVIOUS
<1> USE DEF State
<1>1. /\ UNCHANGED <<mode, running, muted, pcm, ring, lastRx, nap, dcd, echo, dec, heardOwn>>
      /\ pc.main = "start" /\ pc.tx = "done" /\ pc.rx = "done" /\ ~ptt.tx
      /\ mode \in {"bridge", "test_ptt", "test_tx"}
  BY ModeAssumption DEF Start, rxVars, Steps, Threads, Keying, RestType
<1>2. CASE Goto("main", "exit") /\ UNCHANGED <<ptt, left>>
  <2>1. Steps' /\ pc'.main = "exit" /\ pc'.tx = pc.tx /\ pc'.rx = pc.rx
    BY <1>1, <1>2, MainMoves DEF MainLabels, OfTheBridge, OfTestTx, OnTheAir, Playing, RestType
  <2>2. RestType' /\ PttType'
    BY <1>1, <1>2 DEF RestType, PttType
  <2>3. Muting'
    BY <1>1, <2>1 DEF Muting
  <2>4. Keying' /\ Draining'
    BY <1>1, <1>2, <2>1 DEF Keying, Draining, OnTheAir, Playing
  <2>5. QED BY <2>1, <2>2, <2>3, <2>4
<1>3. CASE ~(Goto("main", "exit") /\ UNCHANGED <<ptt, left>>)
  <2>1. /\ \E ok \in PttOk : ptt' = InitPtt(ptt, ok)
        /\ pc' = Started
        /\ left' = CASE mode = "bridge" -> 0
                     [] mode = "test_ptt" -> 3
                     [] mode = "test_tx" -> Chunks
    BY <1>3 DEF Start
  <2>2. PICK ok \in BOOLEAN : ptt' = InitPtt(ptt, ok)
    BY <2>1 DEF PttOk
  <2>3. ptt' \in Controller /\ Consistent(ptt') /\ ptt'.inited /\ ~ptt'.tx
    BY <1>1, <2>2, InitProperties DEF PttType, Keying
  <2>4. left' \in Nat
    BY <1>1, <2>1, BoundsAssumption
  <2>5. /\ Steps'
        /\ pc'.main \in {"loop", "on", "key"} /\ pc'.tx \in {"check", "done"}
        /\ pc'.rx \in {"read", "done"}
    <3>1. CASE mode = "bridge"
      <4>1. pc' = [main |-> "loop", tx |-> "check", rx |-> "read"]
        BY <2>1, <3>1 DEF Started
      <4>2. PcType'
        BY <4>1 DEF PcType, Thread, MainLabels, TxLabels, RxLabels
      <4>3. QED BY <1>1, <3>1, <4>1, <4>2
                DEF Steps, Threads, MainLabels, TxLabels, RxLabels, OfTheBridge, OfTestTx,
                    OnTheAir, Playing
    <3>2. CASE mode = "test_ptt"
      <4>1. Goto("main", "on")
        BY <2>1, <3>2 DEF Started, Goto
      <4>2. QED BY <1>1, <3>2, <4>1, MainMoves
                DEF MainLabels, OfTheBridge, OfTestTx, OnTheAir, Playing, RestType
    <3>3. CASE mode = "test_tx"
      <4>1. Goto("main", "key")
        BY <2>1, <3>3 DEF Started, Goto
      <4>2. QED BY <1>1, <3>3, <4>1, MainMoves
                DEF MainLabels, OfTheBridge, OfTestTx, OnTheAir, Playing, RestType
    <3>4. QED BY <1>1, <3>1, <3>2, <3>3
  <2>6. RestType' /\ PttType'
    BY <1>1, <2>3, <2>4 DEF RestType, PttType
  <2>7. Muting'
    BY <1>1, <2>5 DEF Muting, OnTheAir, Playing
  <2>8. Keying' /\ Draining'
    BY <1>1, <2>3, <2>5 DEF Keying, Draining, OnTheAir, Playing
  <2>9. QED BY <2>5, <2>6, <2>7, <2>8
<1>4. QED BY <1>2, <1>3

-----------------------------------------------------------------------------
(* The theorems                                                            *)

LEMMA InitIInv == Init => IInv
<1> SUFFICES ASSUME Init PROVE IInv
  OBVIOUS
<1>1. PcType /\ Threads /\ pc.main = "start" /\ pc.tx = "done" /\ pc.rx = "done"
  BY DEF Init, PcType, Threads, Thread, MainLabels, TxLabels, RxLabels, OfTheBridge, OfTestTx,
         OnTheAir, Playing
<1>2. /\ queue = <<>> /\ log = <<>> /\ popped = <<>>
      /\ TxType
  BY EmptySeq DEF Init, TxType
<1>3. ptt \in Controller /\ ~ptt.sure /\ ~ptt.tx
  BY MethodsAssumption DEF Init, NewController, Controller
<1>4. RestType
  <2>1. running = TRUE /\ muted = FALSE /\ nap = FALSE /\ dcd = FALSE /\ echo = FALSE /\ heardOwn = FALSE
    BY DEF Init
  <2>2. /\ left = 0 /\ pcm = 0 /\ ring = 0 /\ lastRx = "never" /\ dec = "none"
        /\ mode \in Mode
    BY DEF Init
  <2>3. QED BY <2>1, <2>2 DEF RestType
<1>5. TypeOK
  BY <1>1, <1>2, <1>3, <1>4, TypeParts DEF PttType
<1>6. Muting
  BY <1>1 DEF Init, Muting, OnTheAir, Playing
<1>7. Keying /\ Draining
  BY <1>1, <1>3 DEF Init, Keying, Consistent, Draining, OnTheAir, Playing
<1>8. Order
  <2>1. Len(log) = 0 /\ DOMAIN log = {} /\ DOMAIN queue = {} /\ DOMAIN OnAir = {}
    BY <1>2, OnAirIs, EmptySeq
  <2>2. QED BY <2>1, BoundsAssumption DEF Order, Numbered, HostOrder
<1>9. QED BY <1>1, <1>5, <1>6, <1>7, <1>8 DEF IInv, Control

LEMMA NextIInv == IInv /\ [Next]_vars => IInv'
<1> SUFFICES ASSUME IInv, [Next]_vars PROVE IInv'
  OBVIOUS
<1>1. State /\ TxType /\ Order
  BY TypeParts DEF IInv, Control, State, Steps
<1>2. State'
  <2>1. CASE HostFrame \/ SignalHandler \/ SpuriousWakeup \/ Play \/ ChannelChanges \/ HoldoffPasses
    BY <1>1, <2>1, HostKeeps, OutsideKeeps, WaitsKeep DEF Waits
  <2>2. CASE MainThread
    BY <1>1, <2>2, StartKeeps, EndingKeeps, NotifyAllKeeps, CloseKeeps, TestPttKeeps,
       KeyOnKeeps, PlayingKeeps, KeyOffKeeps DEF MainThread, Transmit
  <2>3. CASE TxThread
    BY <1>1, <2>3, WaitsKeep, DequeueKeeps, AfterKeeps,
       KeyOnKeeps, PlayingKeeps, KeyOffKeeps DEF TxThread, Waits, Transmit
  <2>4. CASE RxThread
    BY <1>1, <2>4, RxKeeps
  <2>5. CASE UNCHANGED vars
    BY <1>1, <2>5 DEF vars, audioVars, rxVars, State, Steps, PcType, Threads, RestType, PttType,
                      Muting, Keying, Draining
  <2>6. QED BY <2>1, <2>2, <2>3, <2>4, <2>5 DEF Next, Exited
<1>3. TxType' /\ Order'
  <2>1. CASE HostFrame
    <3>1. PICK f \in [kind : {"S", "I"}, conn : Conns, n : {Len(log) + 1}] :
             EnqueueFrame(f) /\ log' = Append(log, f)
      BY <2>1 DEF HostFrame
    <3>2. Len(log) < MaxFrames /\ popped' = popped
      BY <2>1 DEF HostFrame
    <3>3. Len(log) \in Nat /\ f.n = Len(log) + 1
      BY <1>1, <3>1, OnAirIs
    <3>4. f \in Frame
      BY <3>1, <3>2, <3>3, BoundsAssumption DEF Frame
    <3>5. QED BY <1>1, <3>1, <3>2, <3>3, <3>4, NewFrame
  <2>2. CASE Dequeue /\ queue # <<>>
    <3>1. /\ TxType' /\ OnAir' = OnAir /\ log' = log
          /\ \A i \in DOMAIN queue' : i + 1 \in DOMAIN queue /\ queue'[i] = queue[i + 1]
      BY <1>1, <2>2, Popping DEF Dequeue
    <3>2. DOMAIN queue' \subseteq Nat
      BY <3>1, OnAirIsNext
    <3>3. Numbered'
      <4>1. \A i, j \in DOMAIN queue' :
               queue'[i].kind = "S" /\ Ordered(queue'[i], queue'[j]) => i = j
        BY <1>1, <3>1, <3>2 DEF Order, Numbered
      <4>2. QED BY <1>1, <3>1, <4>1 DEF Order, Numbered
    <3>4. HostOrder'
      BY <1>1, <3>1 DEF Order, HostOrder
    <3>5. QED BY <3>1, <3>3, <3>4 DEF Order
  <2>3. CASE UNCHANGED txVars
    BY <1>1, <2>3 DEF txVars, TxType, Order, Numbered, HostOrder, OnAir
  <2>4. HostFrame \/ (Dequeue /\ queue # <<>>) \/ UNCHANGED txVars
    <3>1. CASE MainThread
      BY <3>1 DEF MainThread, Start, LoopEnds, NotifyAll, JoinTx, JoinRx, ClosePtt, TestOn, TestOff,
                  Transmit, KeyOn, Write, Flush, DrainEnds, KeyOff, txVars
    <3>2. CASE TxThread
      <4>1. CASE Waits \/ ResetDecoder \/ Unmute \/ Transmit("tx")
        BY <1>1, <4>1, WaitsKeep
           DEF ResetDecoder, Unmute, Transmit, KeyOn, Write, Flush, DrainEnds, KeyOff
      <4>2. CASE Dequeue
        BY <4>2 DEF Dequeue, txVars
      <4>3. QED BY <3>2, <4>1, <4>2 DEF TxThread, Waits
    <3>3. CASE RxThread
      BY <3>3 DEF RxThread, Hear, Lose, Decoded, OnFrame, RxEnds, RxStep
    <3>4. CASE SignalHandler \/ Play \/ ChannelChanges \/ HoldoffPasses \/ SpuriousWakeup \/ UNCHANGED vars
      BY <1>1, <3>4, WaitsKeep
         DEF SignalHandler, Play, ChannelChanges, HoldoffPasses, Waits, vars
    <3>5. QED BY <3>1, <3>2, <3>3, <3>4 DEF Next, Exited
  <2>5. QED BY <2>1, <2>2, <2>3, <2>4
<1>4. QED BY <1>2, <1>3, TypePartsNext DEF State, Steps, IInv, Control

\* The inductive invariant holds in every reachable state.
THEOREM Invariance == Spec => []IInv
<1>1. Init => IInv
  BY InitIInv
<1>2. IInv /\ [Next]_vars => IInv'
  BY NextIInv
<1>3. QED BY <1>1, <1>2, PTL DEF Spec

\* The types, over every mode, PTT method and sound backend: no counter of
\* chunks or rounds is stepped below nothing.
THEOREM TypeCorrect == Spec => []TypeOK
<1>1. IInv => TypeOK
  BY DEF IInv, Control
<1>2. QED BY <1>1, Invariance, PTL

\* Superseding a supervisory frame in its place in the queue, while the TX
\* thread takes frames from it, loses, repeats and reorders nothing else.
THEOREM FramesInHostOrder == Spec => []HostOrder
<1>1. IInv => HostOrder
  BY DEF IInv, Order
<1>2. QED BY <1>1, Invariance, PTL

\* However the program ends and whichever writes failed before, the radio is
\* unkeyed if the last write succeeded.
THEOREM RadioReleased == Spec => []ReleasedAtExit
<1>1. IInv => ReleasedAtExit
  BY DEF IInv, Keying, Consistent, ReleasedAtExit
<1>2. QED BY <1>1, Invariance, PTL

\* Where playback cannot stall (ALSA, or CoreAudio without its deadline),
\* the card plays only into a keyed radio, and only while the RX side is
\* muted.
THEOREM PlaysOnlyKeyed == ASSUME ~MayStall PROVE Spec => PlaysKeyed
<1>0. ~MayStall
  OBVIOUS
<1>1. ASSUME IInv, ring' \in Nat, ring' < ring
      PROVE  /\ Keyed(ptt) \/ ~ptt.sure \/ ptt.method \in {"VOX", "HAMLIB"}
             /\ mode = "bridge" => muted
  <2>1. ring \in Nat
    BY <1>1, TypeParts DEF IInv, Control, RestType
  <2>2. pc.tx \in Playing \/ pc.main \in Playing
    BY <1>0, <1>1, <2>1 DEF IInv, Draining
  <2>3. ptt.tx
    BY <1>1, <2>2 DEF IInv, Keying, OnTheAir
  <2>4. mode = "bridge" => muted
    BY <1>1, <2>2 DEF IInv, Control, Threads, Muting, OnTheAir, Playing, OfTestTx
  <2>5. QED BY <1>1, <2>3, <2>4 DEF IInv, Keying, Consistent
<1>2. IInv /\ IInv' /\ [Next]_vars =>
         [ring' < ring /\ pc' = pc =>
            /\ Keyed(ptt) \/ ~ptt.sure \/ ptt.method \in {"VOX", "HAMLIB"}
            /\ mode = "bridge" => muted]_vars
  <2>1. IInv' => ring' \in Nat
    BY TypePartsNext DEF IInv, Control, RestType
  <2>2. QED BY <1>1, <2>1
<1>3. QED BY <1>2, Invariance, PTL DEF Spec, PlaysKeyed
=============================================================================
