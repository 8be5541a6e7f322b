--------------------------- MODULE ConnectionEnv ---------------------------
(***************************************************************************)
(* One Connection object, an application that calls it in any order, and   *)
(* a peer that may send any frame at any time (another implementation, a   *)
(* digipeated copy, an old frame).  What holds here holds whatever is on   *)
(* the air.  The application owns the object: Destroy and Connect replace  *)
(* it by a new one, and a closed object may be kept and receive a SABM.    *)
(***************************************************************************)
EXTENDS Connection

CONSTANTS
    MaxBuf,     \* bound on the chunks queued in send_buf_
    MaxPolls    \* bound on poll_sent_, which nothing bounds in the code

ASSUME MaxBufAssumption == MaxBuf \in Nat
ASSUME MaxPollsAssumption == MaxPolls \in Nat

VARIABLES
    conn,       \* the Connection object, with what its last call emitted
    clean       \* history: its session began with empty queues
vars == <<conn, clean>>

Bounded(c) == Len(c.sendBuf) <= MaxBuf /\ c.pollSent <= MaxPolls

EmptyQueues(c) == c.sendBuf = <<>> /\ c.unacked = <<>>

\* The call on the object leaves it in state c.
Call(c) ==
    /\ conn' = c
    /\ clean' = IF conn.state = "DISCONNECTED" THEN EmptyQueues(c) ELSE clean

Init == conn = NewConnection /\ clean = TRUE

\* Router::connect: a new object for each outgoing connection.
Connect ==
    /\ conn.state = "DISCONNECTED"
    /\ Call(StartConnect(NewConnection))

AppSend(chunks) ==
    /\ conn.state = "CONNECTED"
    /\ Call(Send(Enter(conn), chunks))
    /\ Bounded(conn')

AppDisconnect ==
    /\ conn.state \in {"CONNECTING", "CONNECTED"}
    /\ Call(Disconnect(Enter(conn)))

AppDestroy ==
    /\ conn' = Destroy(Enter(conn))
    /\ clean' = TRUE

Receive(f, react) ==
    /\ Call(HandleFrame(Enter(conn), f, react))
    /\ Bounded(conn')

Expire(due) ==
    /\ \E t \in due : conn[t]
    /\ Call(Tick(Enter(conn), due))
    /\ Bounded(conn')

Chunks == {<<d>> : d \in Data} \cup {<<d, e>> : d \in Data, e \in Data}
Reactions == {Silent} \cup [reply : {<<>>} \cup {<<d>> : d \in Data}, bye : BOOLEAN]

\* The fields of a frame that its type has; the others are 0 and NoData.
PeerFrame ==
    [type : FrameType \ {"RR", "RNR", "REJ", "I"}, pf : BOOLEAN, ns : {0}, nr : {0},
     data : {NoData}, poll : {FALSE}]
    \cup [type : {"RR", "RNR", "REJ"}, pf : BOOLEAN, ns : {0}, nr : SeqNo,
          data : {NoData}, poll : {FALSE}]
    \cup [type : {"I"}, pf : BOOLEAN, ns : SeqNo, nr : SeqNo,
          data : Data \cup {NoData}, poll : {FALSE}]

Next ==
    \/ Connect
    \/ \E chunks \in Chunks : AppSend(chunks)
    \/ AppDisconnect
    \/ AppDestroy
    \/ \E f \in PeerFrame, react \in Reactions : Receive(f, react)
    \/ \E due \in SUBSET Timer : Expire(due)

Spec == Init /\ [][Next]_vars

-----------------------------------------------------------------------------
(* Properties                                                              *)

\* Every field keeps the range the class gives it.
TypeOK == conn \in ConnType

\* Sliding window (flush_window, retransmit_all): however the peer
\* acknowledges, rejects or resets, no more than Window I-frames are
\* unacknowledged, so that N(S) stays unambiguous modulo Modulus.
WindowBound == Len(conn.unacked) <= Window

\* A dead peer is always noticed: a link that is coming up or going down is
\* driven by T1, and a connected one by T3 or, once T3 has sent its poll, by
\* the T1 that waits for the answer.  A path of handle_frame or tick that
\* leaves all of them stopped would leave the link up for ever.
Supervised ==
    /\ conn.state \in {"CONNECTING", "DISCONNECTING"} => conn.t1
    /\ conn.state = "CONNECTED" => conn.t3 \/ (conn.t1 /\ conn.pollPending)

\* A closed connection has no retransmission timer left to fire, and only a
\* connected one has a keep-alive timer: a frame of the old session would
\* otherwise go out in the next one.
ClosedIsQuiet ==
    /\ conn.state = "DISCONNECTED" => ~conn.t1
    /\ conn.t3 => conn.state = "CONNECTED"

\* N2 bounds the retries of a link that is up, including across the paths
\* (a SABM while connected) that leave retry_ alone.
RetryBound == conn.state # "DISCONNECTED" => conn.retry <= N2

\* No stuck queue: chunks wait in send_buf_ only while the window is full
\* or the peer is busy; every path that frees a slot also fills it.  (Not
\* so for an object kept after it closed with chunks queued: a SABM opens
\* the next session without clearing them.)
NoIdleQueue ==
    clean /\ conn.sendBuf # <<>> /\ conn.state = "CONNECTED"
        => conn.peerBusy \/ Len(conn.unacked) = Window

\* A deferred ACK is never forgotten: while one is owed T2 runs.
DeferredAckTimed == conn.ackPending /\ conn.state = "CONNECTED" => conn.t2

=============================================================================
