------------------------------ MODULE Ax25Link ------------------------------
(***************************************************************************)
(* Two stations of lib/ax25lib.cpp and the half-duplex path between them.  *)
(* Each station has one Connection to the other; a frame a station sends   *)
(* joins a FIFO channel and is handled by the peer (Router::route), or     *)
(* lost.  A closed Connection is deleted by its application at once, as    *)
(* the BBS does after each poll (ConnectionEnv covers one that is kept).   *)
(*                                                                         *)
(* The chunks of a station are numbered in the order send() accepts them.  *)
(***************************************************************************)
EXTENDS Connection

CONSTANTS
    Station,        \* the two stations
    Callers,        \* those whose application calls Router::connect
    Listeners,      \* those whose application called Router::listen
    Senders,        \* those whose application calls send
    Repliers,       \* those whose on_data callback sends or hangs up
    Closers,        \* those whose application calls disconnect
    Destroyers,     \* those whose application deletes an open connection
    PrematureT1,    \* states in which T1 may expire while the answer is
                    \* still on its way
    PrematureT3,    \* T3 may expire while frames are on their way
    MaxConnects,    \* bound on the calls of Router::connect, per station
    MaxSend,        \* bound on the chunks sent, per station
    MaxLoss,        \* bound on the frames lost
    MaxPolls,       \* bound on poll_sent_
    MaxInFlight     \* bound on the frames on their way to one station

ASSUME StationAssumption == \E a, b \in Station : a # b /\ Station = {a, b}
ASSUME BoundsAssumption ==
    /\ MaxConnects \in Nat /\ MaxSend \in Nat /\ MaxLoss \in Nat
    /\ MaxPolls \in Nat /\ MaxInFlight \in Nat
ASSUME DataAssumption == Data = 1 .. MaxSend
ASSUME RolesAssumption ==
    /\ Callers \cup Listeners \cup Senders \cup Repliers \subseteq Station
    /\ Closers \cup Destroyers \subseteq Station
    /\ PrematureT1 \subseteq State
    /\ PrematureT3 \in BOOLEAN

VARIABLES
    conn,       \* [Station -> ConnType], nothing emitted between calls
    chan,       \* chan[p]: the frames on their way to p
    calls,      \* calls[p]: how often p called connect
    losses,     \* frames lost so far
    count,      \* history: chunks p's application has handed to send
    starts,     \* history: the numbers of the chunks that began a session
    got,        \* history: chunks p's application got in this session
    seen        \* history: chunks p's application ever got

vars == <<conn, chan, calls, losses, count, starts, got, seen>>

Peer(p) == CHOOSE q \in Station : q # p

\* Frames p has in its queues, and those no acknowledgement covers yet.
Pending(c) ==
    {c.sendBuf[i] : i \in DOMAIN c.sendBuf}
    \cup {c.unacked[i].data : i \in DOMAIN c.unacked}

Init ==
    /\ conn = [p \in Station |-> NewConnection]
    /\ chan = [p \in Station |-> <<>>]
    /\ calls = [p \in Station |-> 0]
    /\ losses = 0
    /\ count = [p \in Station |-> 0]
    /\ starts = [p \in Station |-> {}]
    /\ got = [p \in Station |-> <<>>]
    /\ seen = [p \in Station |-> {}]

-----------------------------------------------------------------------------

\* A closed connection is deleted: the next frame finds none.
Reaped(c) == IF c.state = "DISCONNECTED" THEN NewConnection ELSE Enter(c)

\* What the call handed to on_data: handle_frame calls it at most once.
Told(c) == {i \in DOMAIN c.up : c.up[i].on = "data"}
DataTold(c) ==
    IF Told(c) = {} THEN <<>> ELSE <<c.up[CHOOSE i \in Told(c) : TRUE].data>>

\* Station p's connection becomes c.  "inbox" is what is left on the way to
\* p, "fresh" says that sequence numbers started again, "n" is how many new
\* chunks the application handed over.
Becomes(p, c, inbox, fresh, n) ==
    LET base == IF fresh THEN <<>> ELSE got[p]
    IN /\ conn' = [conn EXCEPT ![p] = Reaped(c)]
       /\ chan' = [chan EXCEPT ![p] = inbox, ![Peer(p)] = @ \o c.out]
       /\ Len(chan'[Peer(p)]) <= MaxInFlight
       /\ c.pollSent <= MaxPolls
       /\ count' = [count EXCEPT ![p] = @ + n]
       /\ starts' = [starts EXCEPT ![p] =
                        IF fresh THEN @ \cup {count[p] + 1} ELSE @]
       /\ got' = [got EXCEPT ![p] = base \o DataTold(c)]
       /\ seen' = [seen EXCEPT ![p] = @ \cup {DataTold(c)[i] : i \in DOMAIN DataTold(c)}]

\* The application redials when nothing of an earlier call is on the air.
Connect(p) ==
    /\ p \in Callers /\ calls[p] < MaxConnects
    /\ conn[p].state = "DISCONNECTED"
    /\ calls[p] > 0 => \A q \in Station : chan[q] = <<>>
    /\ Becomes(p, StartConnect(NewConnection), chan[p], TRUE, 0)
    /\ calls' = [calls EXCEPT ![p] = @ + 1]
    /\ UNCHANGED losses

\* send() with n chunks.
AppSend(p, n) ==
    /\ p \in Senders /\ count[p] + n <= MaxSend
    /\ conn[p].state = "CONNECTED"
    /\ Becomes(p, Send(conn[p], [i \in 1 .. n |-> count[p] + i]), chan[p], FALSE, n)
    /\ UNCHANGED <<calls, losses>>

AppDisconnect(p) ==
    /\ p \in Closers
    /\ conn[p].state \in {"CONNECTING", "CONNECTED"}
    /\ Becomes(p, Disconnect(conn[p]), chan[p], FALSE, 0)
    /\ UNCHANGED <<calls, losses>>

AppDestroy(p) ==
    /\ p \in Destroyers
    /\ conn[p].state # "DISCONNECTED"
    /\ Becomes(p, Destroy(conn[p]), chan[p], FALSE, 0)
    /\ UNCHANGED <<calls, losses>>

\* Router::route for a station with no session: a listener accepts a SABM,
\* everything else is answered with DM.
Route(p, f, react) ==
    IF conn[p].state = "DISCONNECTED" /\ f.type = "SABM" /\ p \notin Listeners
    THEN Emit(conn[p], UFrame("DM", f.pf))
    ELSE HandleFrame(conn[p], f, react)

\* p handles f by starting its sequence numbers again as the called side.
Restarts(p, f) ==
    /\ f.type = "SABM"
    /\ \/ conn[p].state = "CONNECTED"
       \/ conn[p].state = "DISCONNECTED" /\ p \in Listeners

Reactions(p) ==
    {Silent} \cup
    IF p \notin Repliers THEN {}
    ELSE [reply : {<<>>} \cup IF count[p] < MaxSend THEN {<<count[p] + 1>>} ELSE {},
          bye : BOOLEAN]

Deliver(p, react) ==
    /\ chan[p] # <<>>
    /\ LET f == Head(chan[p])
           c == Route(p, f, react)
           asked == Told(c) # {}
       IN /\ ~asked => react = Silent
          /\ Becomes(p, c, Tail(chan[p]), Restarts(p, f), Len(react.reply))
    /\ UNCHANGED <<calls, losses>>

Lose(p) ==
    /\ chan[p] # <<>> /\ losses < MaxLoss
    /\ chan' = [chan EXCEPT ![p] = Tail(@)]
    /\ losses' = losses + 1
    /\ UNCHANGED <<conn, calls, count, starts, got, seen>>

\* Nothing on the air and no ACK deferred by the peer: T1 and T3, seconds
\* long, are set to outlast all that (Config::compute_t1).
Quiet(p) ==
    /\ \A q \in Station : chan[q] = <<>>
    /\ ~conn[Peer(p)].t2

MayExpire(p, t) ==
    /\ conn[p][t]
    /\ \/ t = "t2" \/ Quiet(p)
       \/ t = "t1" /\ conn[p].state \in PrematureT1
       \/ t = "t3" /\ PrematureT3

Expire(p, due) ==
    /\ due # {} /\ \A t \in due : MayExpire(p, t)
    /\ Becomes(p, Tick(conn[p], due), chan[p], FALSE, 0)
    /\ UNCHANGED <<calls, losses>>

Next ==
    \E p \in Station :
        \/ Connect(p)
        \/ \E n \in 1 .. MaxSend : AppSend(p, n)
        \/ AppDisconnect(p)
        \/ AppDestroy(p)
        \/ \E react \in Reactions(p) : Deliver(p, react)
        \/ Lose(p)
        \/ \E due \in SUBSET Timer : Expire(p, due)

Spec == Init /\ [][Next]_vars

\* The radio delivers what it does not lose, and the timers run out.  T1 is
\* shorter than T3 (15 s and 60 s by default): the frames of keep-alive
\* polls only interrupt the wait for T1, which is why it gets SF.
Expires(p, t) ==
    conn[p][t] /\ \E due \in SUBSET Timer : t \in due /\ Expire(p, due)

Fairness ==
    \A p \in Station :
        /\ WF_vars(\E react \in Reactions(p) : Deliver(p, react))
        /\ SF_vars(Expires(p, "t1"))
        /\ WF_vars(Expires(p, "t2"))
        /\ WF_vars(Expires(p, "t3"))

FairSpec == Spec /\ Fairness

-----------------------------------------------------------------------------
(* Properties                                                              *)

TypeOK ==
    /\ conn \in [Station -> ConnType]
    /\ chan \in [Station -> Seq(Frame)]
    /\ calls \in [Station -> 0 .. MaxConnects]
    /\ losses \in 0 .. MaxLoss
    /\ count \in [Station -> 0 .. MaxSend]
    /\ starts \in [Station -> SUBSET (1 .. MaxSend + 1)]
    /\ got \in [Station -> Seq(Data)]
    /\ seen \in [Station -> SUBSET Data]

\* The link implements the data service of LinkService: whatever is lost,
\* repeated or rejected below, an application is handed a gapless prefix of
\* one session of its peer (I-frame acceptance, Go-Back-N, the resets).
Service == INSTANCE LinkService WITH PeerOf <- Peer
ImplementsService == Service!Spec

\* While a link stays up, a chunk leaves send_buf_ and unacked_ only when
\* the peer's application has it (process_nr believes any N(R)); only a
\* SABM of the peer may discard chunks.
Called(p) == chan[p] # <<>> /\ Head(chan[p]).type = "SABM"
NoSilentLoss ==
    [][\A p \in Station :
         (/\ conn[p].state = "CONNECTED" /\ conn'[p].state = "CONNECTED"
          /\ ~Called(p))
             => Pending(conn[p]) \ Pending(conn'[p]) \subseteq seen'[Peer(p)]]_vars

\* The frames in flight carry consecutive numbers from va_ to vs_, through
\* every acknowledgement, rejection and renumbering retransmission.
Consecutive ==
    \A p \in Station :
        LET c == conn[p]
        IN c.state = "CONNECTED" =>
              /\ \A i \in DOMAIN c.unacked :
                     c.unacked[i].ns = (c.va + i - 1) % Modulus
              /\ c.vs = (c.va + Len(c.unacked)) % Modulus

\* When nothing is on the air and both ends are up, what one expects next
\* lies in the window of the other: an acknowledgement can bring them
\* together again.
WindowsAgree ==
    (\A p \in Station : conn[p].state = "CONNECTED" /\ chan[p] = <<>>)
        => \A p \in Station :
              \E k \in 0 .. Len(conn[p].unacked) :
                  conn[Peer(p)].vr = (conn[p].va + k) % Modulus

\* Every chunk send() accepted leaves the queues again, by delivery
\* (NoSilentLoss) or with its link: no lost wake-up between window and T1.
ChunksLeave ==
    \A p \in Senders, n \in Data :
        (n \in Pending(conn[p])) ~> (n \notin Pending(conn[p]))

\* A call is answered or given up, and so is a hang-up: neither CONNECTING
\* nor DISCONNECTING lasts, because T1 keeps counting retries.
Settles ==
    \A p \in Station :
        (conn[p].state \in {"CONNECTING", "DISCONNECTING"})
            ~> (conn[p].state \in {"CONNECTED", "DISCONNECTED"})

\* A half-open link is noticed: the keep-alive poll finds that the other
\* side is gone (DM), or gets no answer.
HalfOpenEnds ==
    \A p \in Station :
        (conn[p].state = "CONNECTED" /\ conn[Peer(p)].state = "DISCONNECTED")
            ~> (conn[p].state # "CONNECTED" \/ conn[Peer(p)].state # "DISCONNECTED")

\* A keep-alive poll (RR, P=1) that reaches a connected station is answered
\* with F=1 in the same step ("P=1 poll from peer - must respond with F=1").
Answered(p, q) ==
    \E i \in Len(chan[q]) + 1 .. Len(chan'[q]) :
        chan'[q][i].type = "RR" /\ chan'[q][i].pf /\ ~chan'[q][i].poll
PollAnswered ==
    [][\A p \in Station :
         (/\ chan[p] # <<>> /\ chan'[p] = Tail(chan[p]) /\ losses' = losses
          /\ Head(chan[p]).poll /\ conn[p].state = "CONNECTED")
             => Answered(p, Peer(p))]_vars

\* The link is failed by T1 only after N2 retries ("After N2 retries the
\* link is declared failed").
FailsAfterN2 ==
    [][\A p \in Station :
         (/\ conn[p].state = "CONNECTED" /\ conn'[p].state = "DISCONNECTED"
          /\ chan'[p] = chan[p] /\ chan' = chan)
             => ~RetriesLeft(conn[p])]_vars

=============================================================================
