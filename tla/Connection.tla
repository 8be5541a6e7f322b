----------------------------- MODULE Connection -----------------------------
(***************************************************************************)
(* The AX.25 connection of lib/ax25lib.cpp as operators on a connection    *)
(* record.  Each member function of class Connection is one operator from  *)
(* record to record; the frames it hands to Router::send_frame are         *)
(* appended to the field "out" and the callbacks it fires to "up".  The    *)
(* modules ConnectionEnv (one connection, any peer) and Ax25Link (two      *)
(* connections and the radio between them) turn the operators into         *)
(* actions.                                                                *)
(*                                                                         *)
(* A timer is a Boolean (running or not): its expiry is chosen by the      *)
(* module that calls Tick.  rx_since_ack_ is written and never read, and   *)
(* is left out.                                                            *)
(***************************************************************************)
EXTENDS Integers, Sequences, FiniteSets

CONSTANTS
    Data,     \* the MTU-sized chunks an application can send
    NoData,   \* the payload of a frame with an empty info field
    Modulus,  \* sequence numbers are 0 .. Modulus-1 (8 in the code: "& 7")
    Window,   \* Config::window, the most I-frames in flight
    N2        \* Config::n2, the retransmissions before the link is failed

ASSUME NoDataAssumption == NoData \notin Data
ASSUME ModulusAssumption == Modulus \in Nat /\ Modulus > 1
ASSUME WindowAssumption == Window \in Nat /\ 0 < Window /\ Window < Modulus
ASSUME N2Assumption == N2 \in Nat

SeqNo == 0 .. Modulus - 1
State == {"DISCONNECTED", "CONNECTING", "CONNECTED", "DISCONNECTING"}
FrameType == {"SABM", "DISC", "UA", "DM", "I", "RR", "RNR", "REJ", "OTHER"}

\* A frame as the peer decodes it.  "poll" is not on the wire: it tells the
\* keep-alive command of tick() (P=1) from the response of handle_frame
\* (F=1), which the code encodes in the same bits.
Frame == [type : FrameType, pf : BOOLEAN, ns : SeqNo, nr : SeqNo,
          data : Data \cup {NoData}, poll : BOOLEAN]
UnackedFrame == [ns : SeqNo, data : Data]
Callback == [on : {"connect", "disconnect"}, data : {NoData}]
            \cup [on : {"data"}, data : Data]

\* What the application does inside on_data: chunks it sends, then a
\* possible disconnect() (the BBS answers a command, BYE also hangs up).
Reaction == [reply : Seq(Data), bye : BOOLEAN]
Silent == [reply |-> <<>>, bye |-> FALSE]

ConnType ==
    [state : State, vs : SeqNo, vr : SeqNo, va : SeqNo, retry : Nat,
     t1 : BOOLEAN, t2 : BOOLEAN, t3 : BOOLEAN,
     pollPending : BOOLEAN, ackPending : BOOLEAN, peerBusy : BOOLEAN,
     pollSent : Nat, sendBuf : Seq(Data), unacked : Seq(UnackedFrame),
     out : Seq(Frame), up : Seq(Callback)]

\* A Connection object as its constructor leaves it.
NewConnection ==
    [state |-> "DISCONNECTED", vs |-> 0, vr |-> 0, va |-> 0, retry |-> 0,
     t1 |-> FALSE, t2 |-> FALSE, t3 |-> FALSE,
     pollPending |-> FALSE, ackPending |-> FALSE, peerBusy |-> FALSE,
     pollSent |-> 0, sendBuf |-> <<>>, unacked |-> <<>>,
     out |-> <<>>, up |-> <<>>]

\* A call into the object starts with nothing emitted by it.
Enter(c) == [c EXCEPT !.out = <<>>, !.up = <<>>]

IncUnwrapped(n) == n + 1     \* fault: the "& 7" forgotten
Inc(n) == (n + 1) % Modulus
Lesser(m, n) == IF m < n THEN m ELSE n

-----------------------------------------------------------------------------
(* Frames and callbacks                                                    *)

UFrame(type, pf) ==
    [type |-> type, pf |-> pf, ns |-> 0, nr |-> 0, data |-> NoData, poll |-> FALSE]
SFrame(type, nr, pf, poll) ==
    [type |-> type, pf |-> pf, ns |-> 0, nr |-> nr, data |-> NoData, poll |-> poll]
IFrame(ns, nr, pf, d) ==
    [type |-> "I", pf |-> pf, ns |-> ns, nr |-> nr, data |-> d, poll |-> FALSE]

Emit(c, f) == [c EXCEPT !.out = Append(@, f)]
Fire(c, on, d) == [c EXCEPT !.up = Append(@, [on |-> on, data |-> d])]

TxRR(c, pf) == Emit(c, SFrame("RR", c.vr, pf, FALSE))
TxPoll(c) == Emit(c, SFrame("RR", c.vr, TRUE, TRUE))
TxRej(c, pf) == Emit(c, SFrame("REJ", c.vr, pf, FALSE))

StopT1(c) == [c EXCEPT !.t1 = FALSE]
StartT1(c) == [c EXCEPT !.t1 = TRUE]
StopT2Only(c) == [c EXCEPT !.t2 = FALSE]     \* fault: the owed ACK stays
StopT2(c) == [c EXCEPT !.t2 = FALSE, !.ackPending = FALSE]
StartT3(c) == [c EXCEPT !.t3 = TRUE]
StopT3(c) == [c EXCEPT !.t3 = FALSE]

-----------------------------------------------------------------------------
(* Window management                                                       *)

\* The frames a window-filling burst adds: chunk i of sendBuf gets number
\* vs + i - 1, and carries the poll bit when it fills the window.
Burst(c, k) ==
    [i \in 1 .. k |-> [ns |-> (c.vs + i - 1) % Modulus, data |-> c.sendBuf[i]]]

RoomAtWindow(c) ==     \* fault: <= for <
    Lesser(Len(c.sendBuf), Window + 1 - Len(c.unacked))
Room(c) == Lesser(Len(c.sendBuf), Window - Len(c.unacked))

\* tx_iframe for every frame of "frames": they carry vr, the P bit goes on
\* the last one when "poll" holds, and a frame sent is a piggybacked ACK.
TxIframes(c, frames, poll) ==
    LET tx == [i \in DOMAIN frames |->
                 IFrame(frames[i].ns, c.vr, poll /\ i = Len(frames), frames[i].data)]
        piggyback == c.ackPending /\ frames # <<>>
    IN [c EXCEPT !.out = @ \o tx,
                 !.pollSent = IF poll /\ frames # <<>> THEN @ + 1 ELSE @,
                 !.t2 = @ /\ ~piggyback,
                 !.ackPending = @ /\ ~piggyback]

\* The body of flush_window's loop, for the k chunks the window has room for.
SendChunks(c, k) ==
    LET burst == Burst(c, k)
        filled == Len(c.unacked) + k >= Window
    IN [TxIframes(c, burst, filled) EXCEPT
            !.vs = (@ + k) % Modulus,
            !.unacked = @ \o burst,
            !.sendBuf = SubSeq(@, k + 1, Len(@))]

FlushWindow(c) ==
    IF c.peerBusy THEN c
    ELSE LET d == SendChunks(c, Room(c))
         IN IF d.unacked # <<>> THEN StartT1(d) ELSE d

\* The frames in front of the first one numbered nr: all that the loop
\* "while front().ns != nr" pops, which is everything when none is.
AckedPrefix(u, nr) ==
    {j \in 1 .. Len(u) : \A i \in 1 .. j : u[i].ns # nr}

PopAcked(u, nr) == SubSeq(u, Cardinality(AckedPrefix(u, nr)) + 1, Len(u))

TakeNrInclusive(c, nr) ==     \* fault: N(R) taken as acknowledged
    [c EXCEPT !.unacked = PopAcked(@, Inc(nr)), !.va = nr, !.retry = 0, !.t3 = TRUE]

TakeNr(c, nr) ==
    [c EXCEPT !.unacked = PopAcked(@, nr), !.va = nr, !.retry = 0, !.t3 = TRUE]

ProcessNrNoFlush(c, nr) ==     \* fault: freed slots stay empty
    LET d == TakeNr(c, nr) IN [d EXCEPT !.t1 = (d.unacked # <<>>)]

ProcessNr(c, nr) ==
    LET d == TakeNr(c, nr)
    IN FlushWindow([d EXCEPT !.t1 = (d.unacked # <<>>)])

RetransmitFromVs(c) ==     \* fault: "vs_ = va_" forgotten
    StartT1([TxIframes(c, c.unacked, TRUE) EXCEPT !.vs = (@ + Len(c.unacked)) % Modulus])

\* Go-Back-N: every unacknowledged frame again, renumbered from va.
RetransmitAll(c) ==
    LET n == Len(c.unacked)
        again == [i \in 1 .. n |-> [ns |-> (c.va + i - 1) % Modulus,
                                    data |-> c.unacked[i].data]]
        d == [TxIframes(c, again, TRUE) EXCEPT !.vs = (c.va + n) % Modulus,
                                               !.unacked = again]
    IN IF n > 0 THEN StartT1(d) ELSE d

LinkFailedT1Runs(c) ==     \* fault: T1 left running
    Fire([c EXCEPT !.t3 = FALSE, !.state = "DISCONNECTED"], "disconnect", NoData)

LinkFailed(c) ==
    Fire([c EXCEPT !.t1 = FALSE, !.t3 = FALSE, !.state = "DISCONNECTED"],
         "disconnect", NoData)

-----------------------------------------------------------------------------
(* Calls of the application                                                *)

\* start_connect; Router::connect calls it on a new object only.
StartConnect(c) ==
    StartT1(Emit([StopT2(c) EXCEPT !.vs = 0, !.vr = 0, !.va = 0, !.retry = 0,
                                   !.peerBusy = FALSE, !.pollSent = 0,
                                   !.state = "CONNECTING"],
                 UFrame("SABM", TRUE)))

\* send(), with the data already cut into MTU-sized chunks.
Send(c, chunks) ==
    IF c.state # "CONNECTED" THEN c
    ELSE FlushWindow([c EXCEPT !.sendBuf = @ \o chunks])

Disconnect(c) ==
    IF c.state \in {"DISCONNECTED", "DISCONNECTING"} THEN c
    ELSE StartT1(Emit([StopT3(StopT2(c)) EXCEPT !.state = "DISCONNECTING",
                                                !.retry = 0, !.sendBuf = <<>>],
                      UFrame("DISC", TRUE)))

\* ~Connection: the best-effort DISC is all that remains of the object.
Destroy(c) ==
    IF c.state \in {"CONNECTED", "CONNECTING"}
    THEN Emit(NewConnection, UFrame("DISC", TRUE))
    ELSE NewConnection

-----------------------------------------------------------------------------
(* handle_frame, one operator per state and frame                          *)

OnData(c, d, react) ==
    LET told == Fire(c, "data", d)
        sent == IF react.reply = <<>> THEN told ELSE Send(told, react.reply)
    IN IF react.bye THEN Disconnect(sent) ELSE sent

ResetNumbers(c) ==
    [StopT2(c) EXCEPT !.vs = 0, !.vr = 0, !.va = 0, !.peerBusy = FALSE]

\* The queues, poll_sent_, poll_pending_ and T1 keep their old values.
AcceptSabm(c, pf) ==
    Fire(StartT3([Emit([ResetNumbers(c) EXCEPT !.retry = 0], UFrame("UA", pf))
                    EXCEPT !.state = "CONNECTED"]),
         "connect", NoData)

RecvDisconnected(c, f) ==
    IF f.type = "SABM" THEN AcceptSabm(c, f.pf) ELSE Emit(c, UFrame("DM", f.pf))

Connected(c) ==
    FlushWindow(Fire(StartT3([StopT2(StopT1(c)) EXCEPT
                                !.vs = 0, !.vr = 0, !.va = 0, !.retry = 0,
                                !.state = "CONNECTED"]),
                     "connect", NoData))

Down(c) ==
    Fire([StopT1(c) EXCEPT !.state = "DISCONNECTED"], "disconnect", NoData)

RecvConnecting(c, f) ==
    CASE f.type = "UA"   -> Connected(c)
      [] f.type = "DM"   -> Down(c)
      [] f.type = "SABM" -> Emit(c, UFrame("UA", f.pf))
      [] OTHER           -> c

RecvDisc(c, pf) ==
    Down(Emit([StopT3(c) EXCEPT !.sendBuf = <<>>, !.unacked = <<>>],
              UFrame("UA", pf)))

SabmAgainKeepsUnacked(c, pf) ==     \* fault: unacked_ survives
    Emit([ResetNumbers(c) EXCEPT !.sendBuf = <<>>], UFrame("UA", pf))

SabmAgainKeepsNumbers(c, pf) ==     \* fault: numbers not reset
    Emit([c EXCEPT !.unacked = <<>>, !.sendBuf = <<>>], UFrame("UA", pf))

\* The peer connects again: no callback, retry_ and T1 are left alone.
RecvSabmAgain(c, pf) ==
    Emit([ResetNumbers(c) EXCEPT !.unacked = <<>>, !.sendBuf = <<>>],
         UFrame("UA", pf))

\* In sequence: hand the data up, then answer a poll at once or arm T2 -
\* whatever on_data did to the connection meanwhile.
AcceptI(c, f, react) ==
    LET counted == [c EXCEPT !.vr = Inc(@)]
        d == IF f.data = NoData THEN counted ELSE OnData(counted, f.data, react)
    IN IF f.pf THEN TxRR(StopT2(d), TRUE)
       ELSE [d EXCEPT !.ackPending = TRUE, !.t2 = TRUE]

InSequence(c, f) == f.ns = c.vr

RecvI(c, f, react) ==
    LET d == ProcessNr(c, f.nr)
    IN IF InSequence(d, f) THEN AcceptI(d, f, react) ELSE TxRej(d, f.pf)

\* P/F of an RR or RNR: taken for the answer to a poll of ours while
\* pollSent counts one, for a command otherwise.
AnswerPoll(c, pf) ==
    IF ~pf THEN c
    ELSE IF c.pollSent > 0 THEN [c EXCEPT !.pollSent = @ - 1]
    ELSE TxRR(c, TRUE)

RecvRR(c, f) == AnswerPoll(ProcessNr([c EXCEPT !.peerBusy = FALSE], f.nr), f.pf)
RecvRnr(c, f) == AnswerPoll(ProcessNr([c EXCEPT !.peerBusy = TRUE], f.nr), f.pf)
RecvRej(c, f) ==
    FlushWindow(RetransmitAll(TakeNr([c EXCEPT !.peerBusy = FALSE], f.nr)))

RecvConnected(c, f, react) ==
    LET heard == [StartT3(c) EXCEPT !.pollPending = FALSE]
    IN CASE f.type = "DISC" -> RecvDisc(heard, f.pf)
         [] f.type = "SABM" -> RecvSabmAgain(heard, f.pf)
         [] f.type = "DM"   -> LinkFailed(heard)
         [] f.type = "I"    -> RecvI(heard, f, react)
         [] f.type = "RR"   -> RecvRR(heard, f)
         [] f.type = "RNR"  -> RecvRnr(heard, f)
         [] f.type = "REJ"  -> RecvRej(heard, f)
         [] OTHER           -> heard

RecvDisconnecting(c, f) == IF f.type \in {"UA", "DM"} THEN Down(c) ELSE c

HandleFrame(c, f, react) ==
    CASE c.state = "DISCONNECTED"  -> RecvDisconnected(c, f)
      [] c.state = "CONNECTING"    -> RecvConnecting(c, f)
      [] c.state = "CONNECTED"     -> RecvConnected(c, f, react)
      [] c.state = "DISCONNECTING" -> RecvDisconnecting(c, f)

-----------------------------------------------------------------------------
(* tick: the timers in "due" have expired; T2, T1 and T3 in that order     *)

Timer == {"t1", "t2", "t3"}

TickT2(c) ==
    IF c.ackPending /\ c.state = "CONNECTED"
    THEN TxRR([c EXCEPT !.t2 = FALSE, !.ackPending = FALSE], FALSE)
    ELSE [c EXCEPT !.t2 = FALSE]

OneRetryMore(c) == c.retry <= N2     \* fault: retry_ tested before ++
RetriesLeft(c) == c.retry + 1 <= N2

RetryOnce(c) ==     \* fault: T1 not restarted for SABM and DISC
    CASE c.state = "CONNECTING"    -> Emit(c, UFrame("SABM", TRUE))
      [] c.state = "DISCONNECTING" -> Emit(c, UFrame("DISC", TRUE))
      [] OTHER -> c

Retry(c) ==
    CASE c.state = "CONNECTING"    -> StartT1(Emit(c, UFrame("SABM", TRUE)))
      [] c.state = "DISCONNECTING" -> StartT1(Emit(c, UFrame("DISC", TRUE)))
      [] c.state = "CONNECTED" /\ c.unacked # <<>>  -> RetransmitAll(c)
      [] c.state = "CONNECTED" /\ c.unacked = <<>> /\ c.pollPending -> LinkFailed(c)
      [] OTHER -> c

TickT1(c) ==
    LET d == [c EXCEPT !.t1 = FALSE, !.retry = @ + 1]
    IN IF RetriesLeft(c) THEN Retry(d) ELSE LinkFailed(d)

TickT3NoT1(c) ==     \* fault: nobody waits for the answer
    IF c.state # "CONNECTED" THEN c
    ELSE [TxPoll(c) EXCEPT !.t3 = FALSE, !.pollPending = TRUE, !.pollSent = @ + 1]

TickT3(c) ==
    IF c.state # "CONNECTED" THEN c
    ELSE StartT1([TxPoll(c) EXCEPT !.t3 = FALSE, !.pollPending = TRUE,
                                   !.pollSent = @ + 1])

Tick(c, due) ==
    LET a == IF c.t2 /\ "t2" \in due THEN TickT2(c) ELSE c
        b == IF a.t1 /\ "t1" \in due THEN TickT1(a) ELSE a
    IN IF b.t3 /\ "t3" \in due THEN TickT3(b) ELSE b

=============================================================================
