-------------------------- MODULE ConnectionProofs --------------------------
(***************************************************************************)
(* Proofs about one Connection facing any peer (ConnectionEnv), for every  *)
(* modulus, window, retry limit and set of chunks.                         *)
(***************************************************************************)
EXTENDS ConnectionEnv, ConnectionLemmas

-----------------------------------------------------------------------------
(* The inputs of ConnectionEnv                                             *)

LEMMA ShortSeqs ==
    ASSUME NEW d \in Data, NEW e \in Data
    PROVE  <<>> \in Seq(Data) /\ <<d>> \in Seq(Data) /\ <<d, e>> \in Seq(Data)
<1>1. <<d>> \in Seq(Data)
  OBVIOUS
<1>2. <<d, e>> \in Seq(Data)
  OBVIOUS
<1>3. QED BY <1>1, <1>2

LEMMA ChunksType == Chunks \subseteq Seq(Data)
<1> SUFFICES ASSUME NEW x \in Chunks PROVE x \in Seq(Data)
  OBVIOUS
<1>1. PICK d \in Data, e \in Data : x = <<d>> \/ x = <<d, e>>
  BY DEF Chunks
<1>2. QED BY <1>1, ShortSeqs

LEMMA ReactionsType == Reactions \subseteq Reaction
<1> SUFFICES ASSUME NEW x \in Reactions PROVE x \in Reaction
  OBVIOUS
<1>1. <<>> \in Seq(Data)
  OBVIOUS
<1>2. CASE x = Silent
  BY <1>1, <1>2 DEF Silent, Reaction
<1>3. CASE x \in [reply : {<<>>} \cup {<<d>> : d \in Data}, bye : BOOLEAN]
  <2>1. x.reply \in {<<>>} \cup {<<d>> : d \in Data}
    BY <1>3
  <2>2. x.reply \in Seq(Data)
    BY <1>1, <2>1, ShortSeqs
  <2>3. x = [reply |-> x.reply, bye |-> x.bye] /\ x.bye \in BOOLEAN
    BY <1>3
  <2>4. QED BY <2>2, <2>3 DEF Reaction
<1>4. QED BY <1>2, <1>3 DEF Reactions

LEMMA PeerFrameType == PeerFrame \subseteq Frame
<1>1. 0 \in SeqNo
  BY ModulusAssumption DEF SeqNo
<1>2. QED BY <1>1 DEF PeerFrame, Frame, FrameType

-----------------------------------------------------------------------------
(* The theorems                                                            *)

\* The inductive invariant: a sound record, and a queue that is served in
\* every session that began with empty queues.
IInv ==
    /\ Sound(conn)
    /\ clean /\ conn.state = "CONNECTED" => Served(conn)

\* A call that keeps the record sound and serves it keeps the invariant.
LEMMA CallKeeps ==
    ASSUME IInv, NEW c, Sound(c), Serves(conn, c), Call(c)
    PROVE  IInv'
BY DEF IInv, Serves, Call, EmptyQueues

LEMMA EnterConn ==
    ASSUME IInv
    PROVE  /\ Sound(Enter(conn)) /\ Enter(conn).state = conn.state
           /\ \A c : Serves(Enter(conn), c) => Serves(conn, c)
BY EnterSound DEF IInv, Serves

LEMMA InitIInv == Init => IInv
BY NewSound DEF Init, IInv

LEMMA NextIInv == IInv /\ [Next]_vars => IInv'
<1> SUFFICES ASSUME IInv, [Next]_vars PROVE IInv'
  OBVIOUS
<1>1. CASE Connect
  <2>1. Serves(conn, StartConnect(NewConnection))
    BY StartConnectSound DEF Serves
  <2>2. QED BY <1>1, <2>1, StartConnectSound, CallKeeps DEF Connect
<1>2. ASSUME NEW chunks \in Chunks, AppSend(chunks) PROVE IInv'
  <2> DEFINE c == Send(Enter(conn), chunks)
  <2>1. Call(c)
    BY <1>2 DEF AppSend
  <2>2. Sound(c) /\ Serves(conn, c)
    BY EnterConn, ChunksType, SendSound DEF Serves
  <2> HIDE DEF c
  <2>3. QED BY <2>1, <2>2, CallKeeps
<1>3. CASE AppDisconnect
  <2> DEFINE c == Disconnect(Enter(conn))
  <2>1. Call(c)
    BY <1>3 DEF AppDisconnect
  <2>2. Sound(c) /\ Serves(conn, c)
    BY EnterConn, DisconnectSound DEF Serves
  <2> HIDE DEF c
  <2>3. QED BY <2>1, <2>2, CallKeeps
<1>4. CASE AppDestroy
  <2>1. Sound(conn') /\ conn'.state = "DISCONNECTED"
    BY <1>4, DestroySound DEF AppDestroy
  <2>2. QED BY <2>1 DEF IInv
<1>5. ASSUME NEW f \in PeerFrame, NEW react \in Reactions, Receive(f, react)
      PROVE  IInv'
  <2> DEFINE c == HandleFrame(Enter(conn), f, react)
  <2>1. Call(c)
    BY <1>5 DEF Receive
  <2>2. Sound(c) /\ Serves(conn, c)
    BY EnterConn, PeerFrameType, ReactionsType, HandleFrameSound
  <2> HIDE DEF c
  <2>3. QED BY <2>1, <2>2, CallKeeps
<1>6. ASSUME NEW due \in SUBSET Timer, Expire(due) PROVE IInv'
  <2> DEFINE c == Tick(Enter(conn), due)
  <2>1. Call(c)
    BY <1>6 DEF Expire
  <2>2. Sound(c) /\ Serves(conn, c)
    BY EnterConn, TickSound
  <2> HIDE DEF c
  <2>3. QED BY <2>1, <2>2, CallKeeps
<1>7. CASE UNCHANGED vars
  BY <1>7 DEF vars, IInv
<1>8. QED BY <1>1, <1>2, <1>3, <1>4, <1>5, <1>6, <1>7 DEF Next

THEOREM Invariance == Spec => []IInv
<1>1. QED BY InitIInv, NextIInv, PTL DEF Spec

\* Every field keeps its range whatever the peer sends and whenever the
\* timers expire (TypeOK).
THEOREM TypeCorrect == Spec => []TypeOK
<1>1. IInv => TypeOK
  BY DEF IInv, Sound, Fit, TypeOK
<1>2. QED BY <1>1, Invariance, PTL

\* flush_window and retransmit_all never exceed the window (WindowBound).
THEOREM WindowBounded == Spec => []WindowBound
<1>1. IInv => WindowBound
  BY DEF IInv, Sound, Fit, WindowBound
<1>2. QED BY <1>1, Invariance, PTL

\* A connection that is not closed always has a timer that will notice a
\* dead peer (Supervised).
THEOREM LinkSupervised == Spec => []Supervised
<1>1. IInv => Supervised
  BY DEF IInv, Sound, Supervised
<1>2. QED BY <1>1, Invariance, PTL

\* A closed connection neither retransmits nor polls (ClosedIsQuiet).
THEOREM ClosedQuiet == Spec => []ClosedIsQuiet
<1>1. IInv => ClosedIsQuiet
  BY DEF IInv, Sound, ClosedIsQuiet
<1>2. QED BY <1>1, Invariance, PTL

\* retry_ never passes N2 while the link is open (RetryBound).
THEOREM RetriesBounded == Spec => []RetryBound
<1>1. IInv => RetryBound
  BY DEF IInv, Sound, RetryBound
<1>2. QED BY <1>1, Invariance, PTL

\* Chunks wait only behind a full window or a busy peer (NoIdleQueue).
THEOREM QueueServed == Spec => []NoIdleQueue
<1>1. IInv => NoIdleQueue
  BY DEF IInv, Served, NoIdleQueue
<1>2. QED BY <1>1, Invariance, PTL

\* An owed acknowledgement always has T2 behind it (DeferredAckTimed).
THEOREM AckTimed == Spec => []DeferredAckTimed
<1>1. IInv => DeferredAckTimed
  BY DEF IInv, Sound, DeferredAckTimed
<1>2. QED BY <1>1, Invariance, PTL

=============================================================================
