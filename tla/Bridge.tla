------------------------------- MODULE Bridge -------------------------------
(***************************************************************************)
(* The Bluetooth KISS bridge, src/bt_kiss_bridge.cpp: run_session with its *)
(* reconnect and select loops, the PTY or TCP hosts of do_device, the test *)
(* frames of do_test, the signal handler, and the two transports: BLE      *)
(* (class BleTransport over module BleLinux) and RFCOMM (class             *)
(* BtTransport).                                                           *)
(*                                                                         *)
(* What bytes say is left out: a read has data or it has none, and what a  *)
(* write does to the descriptors is kept.  Each system call of the loop is *)
(* a step of its own, between which the dispatch thread, the radio, the    *)
(* hosts and the signal handler move.                                      *)
(***************************************************************************)
EXTENDS BleLinux

CONSTANTS
    Kinds,          \* transports the bridge may be started with
    Modes,          \* "pty", "tcp", "test"
    Clients,        \* TCP hosts
    Slow,           \* those that do not read what they are sent
    MaxReconnects   \* MAX_RECONNECTS (10 in the code)

ASSUME BridgeAssumption ==
    /\ Kinds \subseteq {"BLE", "BT"} /\ Modes \subseteq {"pty", "tcp", "test"}
    /\ Slow \subseteq Clients
    /\ MaxReconnects \in Nat
    /\ Clients \cap {"free", "listen", "pty", "slave", "pipe_r", "pipe_w", "rfcomm"} = {}

VARIABLES
    cfg,        \* how the bridge was started
    running,    \* g_running
    disc,       \* g_transport_disc
    attempt,
    pc,         \* where run_session is
    sock,       \* BtTransport::fd_
    own,        \* descriptors of do_device: server socket, PTY master and slave
    clients,    \* tcp_clients (in what order it holds them is left open)
    seen,       \* this turn's read_fd(), what select() left in rfds, and got_any
    todo,       \* clients this turn has still to read
    dead,       \* dead_clients
    peer        \* client -> its end of the connection

loopVars == <<seen, todo, dead>>
hostVars == <<own, clients, peer>>
vars == <<bleVars, cfg, running, disc, attempt, pc, sock, hostVars, loopVars>>

Loop == {"check", "setup", "select", "accept", "reads", "drop", "pty", "rx"}
NoLook == [tfd |-> NoFd, ready |-> {}, got |-> FALSE]
Over == pc \in {"exit", "killed"}

-----------------------------------------------------------------------------
\* The transports.

is_connected == IF cfg.kind = "BLE" THEN h.live /\ h.conn ELSE sock # NoFd

read_fd ==
    IF cfg.kind = "BT" THEN sock
    ELSE IF h.live /\ h.conn THEN h.pr ELSE NoFd

\* A BLE write changes nothing here: a chunk that fails is skipped.  An RFCOMM
\* write gives up after 50 ms of a full buffer; an error closes the socket and
\* calls on_disconnect_.
WriteFails ==
    /\ cfg.kind = "BT" /\ sock # NoFd /\ link # "up"
    /\ fd' = Closed(fd, sock) /\ sock' = NoFd /\ disc' = TRUE
transport_write == WriteFails \/ UNCHANGED <<fd, sock, disc>>

BtConnect ==
    \/ UNCHANGED <<link, fd, rx, sock>>
    \/ ~Full(fd)
       /\ sock' = Lowest(fd) /\ fd' = Opened(fd, "rfcomm")
       /\ link' = "up" /\ rx' = FALSE

-----------------------------------------------------------------------------
\* do_device opens its descriptors; a server that cannot be bound is done without.
Hosts(mode) ==
    CASE mode = "pty" -> {<<"pty", "slave">>}
      [] mode = "tcp" -> {<<"listen">>, <<>>}
      [] mode = "test" -> {<<>>}

Init ==
    /\ \E kind \in Kinds, mode \in Modes : \E hosts \in Hosts(mode) :
        /\ cfg = [kind |-> kind, mode |-> mode]
        /\ fd = [n \in Fds |-> IF n <= Len(hosts) THEN hosts[n] ELSE "free"]
        /\ own = DOMAIN hosts
        /\ link \in IF kind = "BLE" THEN {"up", "down"} ELSE {"down"}
    /\ rule = FALSE /\ bus = <<>> /\ h = NoHandle /\ dpc = "off" /\ call = "idle"
    /\ rx = FALSE
    /\ running = TRUE /\ disc = FALSE /\ attempt = 0 /\ pc = "attempt"
    /\ sock = NoFd /\ clients = {} /\ peer = [c \in Clients |-> "away"]
    /\ seen = NoLook /\ todo = {} /\ dead = {}

-----------------------------------------------------------------------------
\* The reconnect loop.

NextAttempt == IF attempt < MaxReconnects THEN "attempt" ELSE "cleanup"

Again == attempt' = attempt + 1 /\ pc' = NextAttempt

\* fault: g_transport_disc is not reset
OldDisc == disc
FreshDisc == FALSE

\* Up to 5 s of pause, in steps that look at g_running.
Attempt ==
    /\ pc = "attempt"
    /\ pc' = IF running THEN "connect" ELSE "cleanup"
    /\ disc' = IF running THEN FreshDisc ELSE disc
    /\ UNCHANGED <<bleVars, cfg, running, attempt, sock, hostVars, loopVars>>

ConnectBt ==
    /\ pc = "connect" /\ cfg.kind = "BT"
    /\ BtConnect
    /\ IF sock' # NoFd THEN pc' = "init" /\ UNCHANGED attempt ELSE Again
    /\ UNCHANGED <<rule, bus, h, dpc, call, cfg, running, disc, hostVars, loopVars>>

ConnectBle ==
    /\ pc = "connect" /\ cfg.kind = "BLE"
    /\ call' = "stale" /\ pc' = "dial"
    /\ UNCHANGED <<link, rule, bus, h, dpc, fd, rx, cfg, running, disc, attempt, sock,
                   hostVars, loopVars>>

Connected ==
    /\ pc = "dial" /\ call \in {"ok", "none"}
    /\ call' = "idle"
    /\ IF call = "ok" THEN pc' = "init" /\ UNCHANGED attempt ELSE Again
    /\ UNCHANGED <<link, rule, bus, h, dpc, fd, rx, cfg, running, disc, sock,
                   hostVars, loopVars>>

\* send_tnc_init, if configured: its writes, whatever g_running says
TncInit ==
    /\ pc = "init"
    /\ transport_write
    /\ pc' = "check"
    /\ UNCHANGED <<link, rule, bus, h, dpc, call, rx, cfg, running, attempt, hostVars, loopVars>>

Disconnect ==
    /\ pc = "down"
    /\ IF cfg.kind = "BLE"
         THEN call' = "stop" /\ pc' = "hangup" /\ UNCHANGED <<link, fd, sock>>
         ELSE /\ fd' = Closed(fd, sock) /\ sock' = NoFd
              /\ link' = "down" /\ pc' = "next" /\ UNCHANGED call
    /\ UNCHANGED <<rule, bus, h, dpc, rx, cfg, running, disc, attempt, hostVars, loopVars>>

Disconnected ==
    /\ pc = "hangup" /\ call = "idle"
    /\ pc' = "next"
    /\ UNCHANGED <<bleVars, cfg, running, disc, attempt, sock, hostVars, loopVars>>

AfterSession ==
    /\ pc = "next"
    /\ IF running THEN Again ELSE pc' = "cleanup" /\ UNCHANGED attempt
    /\ UNCHANGED <<bleVars, cfg, running, disc, sock, hostVars, loopVars>>

\* on_cleanup
Cleanup ==
    /\ pc = "cleanup"
    /\ fd' = [n \in Fds |-> IF n \in own \cup clients THEN "free" ELSE fd[n]]
    /\ own' = {} /\ clients' = {}
    /\ peer' = [c \in Clients |-> "away"]
    /\ pc' = "exit"
    /\ UNCHANGED <<link, rule, bus, h, dpc, call, rx, cfg, running, disc, attempt, sock, loopVars>>

-----------------------------------------------------------------------------
\* The select loop.
Check ==
    /\ pc = "check"
    /\ pc' = IF running /\ ~disc /\ is_connected THEN "setup" ELSE "down"
    /\ UNCHANGED <<bleVars, cfg, running, disc, attempt, sock, hostVars, loopVars>>

SetupFds ==
    /\ pc = "setup"
    /\ seen' = [NoLook EXCEPT !.tfd = read_fd]
    /\ pc' = "select"
    /\ UNCHANGED <<bleVars, cfg, running, disc, attempt, sock, hostVars, todo, dead>>

Watched == ({seen.tfd} \cup own \cup clients) \ {NoFd}

NoWriter == \A n \in Fds : fd[n] # "pipe_w"
Readable(n) ==
    CASE fd[n] = "pipe_r" -> rx \/ NoWriter
      [] fd[n] = "rfcomm" -> rx \/ link # "up"
      [] fd[n] = "listen" -> \E c \in Clients : peer[c] = "knocking"
      [] fd[n] \in Clients -> peer[fd[n]] = "gone"
      [] OTHER -> FALSE
\* A host writes when it likes.
MayBeReadable(n) == fd[n] = "pty" \/ fd[n] \in Clients

\* The descriptors that are ready, or none after 50 ms; the write of a keep-alive
\* follows.  A signal interrupts it and leaves rfds as it was set up.
Select ==
    /\ pc = "select"
    /\ \/ \E wrote \in SUBSET {n \in Watched : MayBeReadable(n)} :
            LET ready == wrote \cup {n \in Watched : Readable(n)} IN
            seen' = [seen EXCEPT !.ready = ready, !.got = ready # {}]
       \/ ~running /\ seen' = [seen EXCEPT !.ready = Watched]
    /\ pc' = "accept"
    /\ UNCHANGED <<bleVars, cfg, running, disc, attempt, sock, hostVars, todo, dead>>

\* on_select: accept() takes a waiting client, or fails
AcceptOne(c) ==
    /\ peer[c] = "knocking" /\ ~Full(fd)
    /\ fd' = Opened(fd, c)
    /\ clients' = clients \cup {Lowest(fd)}
    /\ peer' = [peer EXCEPT ![c] = "on"]

Accept ==
    /\ pc = "accept"
    /\ \/ \E n \in own : fd[n] = "listen" /\ n \in seen.ready /\ \E c \in Clients : AcceptOne(c)
       \/ /\ \A n \in own : fd[n] = "listen" /\ n \in seen.ready =>
               Full(fd) \/ \A c \in Clients : peer[c] # "knocking"
          /\ UNCHANGED <<fd, clients, peer>>
    /\ todo' = clients' /\ pc' = "reads"
    /\ UNCHANGED <<link, rule, bus, h, dpc, call, rx, cfg, running, disc, attempt, sock,
                   own, seen, dead>>

\* read(): data to the transport; end of file, or the EAGAIN of an interrupted
\* select(), and the client is dead.
ReadClient ==
    /\ pc = "reads"
    /\ \/ /\ todo = {} /\ pc' = "drop"
          /\ UNCHANGED <<fd, sock, disc, todo, dead>>
       \/ \E n \in todo :
             /\ todo' = todo \ {n} /\ UNCHANGED pc
             /\ \/ n \notin seen.ready /\ UNCHANGED <<fd, sock, disc, dead>>
                \/ n \in seen.ready /\ transport_write /\ UNCHANGED dead
                \/ /\ n \in seen.ready
                   /\ peer[fd[n]] = "gone" \/ ~seen.got
                   /\ dead' = dead \cup {n} /\ UNCHANGED <<fd, sock, disc>>
    /\ UNCHANGED <<link, rule, bus, h, dpc, call, rx, cfg, running, attempt, hostVars, seen>>

\* close() of some clients, which leave the vector
CloseClients(N) ==
    /\ fd' = [n \in Fds |-> IF n \in N THEN "free" ELSE fd[n]]
    /\ clients' = clients \ N
    /\ peer' = [c \in Clients |-> IF \E n \in N : fd[n] = c THEN "away" ELSE peer[c]]

DropDead ==
    /\ pc = "drop"
    /\ CloseClients(dead)
    /\ dead' = {} /\ pc' = "pty"
    /\ UNCHANGED <<link, rule, bus, h, dpc, call, rx, cfg, running, disc, attempt, sock,
                   own, seen, todo>>

\* The PTY's bytes, or a test frame when its time has come
PtyOrTest ==
    /\ pc = "pty"
    /\ \/ /\ cfg.mode = "test" \/ \E n \in own : fd[n] = "pty" /\ n \in seen.ready
          /\ transport_write
       \/ UNCHANGED <<fd, sock, disc>>
    /\ pc' = "rx"
    /\ UNCHANGED <<link, rule, bus, h, dpc, call, rx, cfg, running, attempt, hostVars, loopVars>>

-----------------------------------------------------------------------------
\* read(tfd): the bytes of the radio to every host, or the end of the session.
RxDue == seen.tfd # NoFd /\ seen.got /\ seen.tfd \in seen.ready

\* The locals of the turn go out of scope.
NextTurn == pc' = "check" /\ seen' = NoLook /\ UNCHANGED <<todo, dead>>

RxNothing ==
    /\ pc = "rx" /\ ~RxDue
    /\ NextTurn
    /\ UNCHANGED <<bleVars, cfg, running, disc, attempt, sock, hostVars>>

\* End of file, an error, or a descriptor that a failed write has closed
RxEnd ==
    /\ pc = "rx" /\ RxDue
    /\ \/ fd[seen.tfd] = "free"
       \/ ~rx /\ Readable(seen.tfd)
    /\ disc' = TRUE /\ NextTurn
    /\ UNCHANGED <<bleVars, cfg, running, attempt, sock, hostVars>>

\* fault: a short write is taken for an error
AnyRefuses(c) == TRUE
\* write() < 0: the host does not read (EAGAIN), or has reset the connection
Refuses(c) == peer[c] = "gone" \/ c \in Slow

RxData ==
    /\ pc = "rx" /\ RxDue /\ rx /\ fd[seen.tfd] # "free"
    /\ rx' = FALSE /\ NextTurn
    /\ \E N \in SUBSET {n \in clients : Refuses(fd[n])} : CloseClients(N)
    /\ UNCHANGED <<link, rule, bus, h, dpc, call, cfg, running, disc, attempt, sock, own>>

\* SIGPIPE is not ignored: a host that has gone may end the process.
Sigpipe ==
    /\ pc = "rx" /\ RxDue /\ rx /\ fd[seen.tfd] # "free"
    /\ \E n \in clients : peer[fd[n]] = "gone"
    /\ pc' = "killed"
    /\ UNCHANGED <<bleVars, cfg, running, disc, attempt, sock, hostVars, loopVars>>

-----------------------------------------------------------------------------
\* The hosts, the radio and the user.
Knock(c) ==
    /\ peer[c] = "away" /\ \E n \in own : fd[n] = "listen"
    /\ peer' = [peer EXCEPT ![c] = "knocking"]
    /\ UNCHANGED <<bleVars, cfg, running, disc, attempt, pc, sock, own, clients, loopVars>>

Leave(c) ==
    /\ peer[c] = "on"
    /\ peer' = [peer EXCEPT ![c] = "gone"]
    /\ UNCHANGED <<bleVars, cfg, running, disc, attempt, pc, sock, own, clients, loopVars>>

\* The RFCOMM link brings data or is lost.
RfcommData ==
    /\ sock # NoFd /\ link = "up" /\ ~rx /\ rx' = TRUE
    /\ UNCHANGED <<link, rule, bus, h, dpc, call, fd, cfg, running, disc, attempt, pc, sock,
                   hostVars, loopVars>>
RfcommLost ==
    /\ sock # NoFd /\ link = "up" /\ link' = "down"
    /\ UNCHANGED <<rule, bus, h, dpc, call, fd, rx, cfg, running, disc, attempt, pc, sock,
                   hostVars, loopVars>>

\* SIGINT, SIGTERM, SIGHUP or SIGQUIT
Signal ==
    /\ running /\ running' = FALSE
    /\ UNCHANGED <<bleVars, cfg, disc, attempt, pc, sock, hostVars, loopVars>>

Outside ==
    \/ \E c \in Clients : Knock(c) \/ Leave(c)
    \/ RfcommData \/ RfcommLost
    \/ Signal
    \/ /\ cfg.kind = "BLE" /\ (DropLink \/ Notify)
       /\ UNCHANGED <<cfg, running, disc, attempt, pc, sock, hostVars, loopVars>>

Session ==
    \/ Attempt \/ ConnectBt \/ ConnectBle \/ Connected \/ TncInit
    \/ Check \/ SetupFds \/ Select \/ Accept \/ ReadClient \/ DropDead \/ PtyOrTest
    \/ RxNothing \/ RxEnd \/ RxData \/ Sigpipe
    \/ Disconnect \/ Disconnected \/ AfterSession \/ Cleanup

Ble(A) == A /\ UNCHANGED <<cfg, running, disc, attempt, pc, sock, hostVars, loopVars>>

Stopped == Over /\ UNCHANGED vars

Next ==
    \/ ~Over /\ (Session \/ Ble(BleMain) \/ Ble(Dispatch) \/ Outside)
    \/ Stopped

Fairness ==
    /\ WF_vars(~Over /\ (Session \/ Ble(BleMain)))
    /\ WF_vars(~Over /\ Ble(Dispatch))

Spec == Init /\ [][Next]_vars /\ Fairness

-----------------------------------------------------------------------------
\* The variables keep their types, and no more than MAX_RECONNECTS + 1 attempts
\* are made, however many sessions end and however attempts fail.
TypeOK ==
    /\ link \in {"up", "down", "silent"} /\ rule \in BOOLEAN /\ rx \in BOOLEAN
    /\ bus \in Seq({"data", "down"})
    /\ h \in [live : BOOLEAN, conn : BOOLEAN, stop : BOOLEAN,
              pr : Fds \cup {NoFd}, pw : Fds \cup {NoFd}]
    /\ dpc \in {"off", "top", "in", "closed"}
    /\ call \in {"idle", "stale", "connect", "resolve", "handle", "settle", "ok", "none",
                 "stop", "join"}
    /\ fd \in [Fds -> {"free", "listen", "pty", "slave", "pipe_r", "pipe_w", "rfcomm"} \cup Clients]
    /\ running \in BOOLEAN /\ disc \in BOOLEAN
    /\ attempt \in 0..MaxReconnects + 1
    /\ pc \in Loop \cup {"attempt", "connect", "dial", "init", "down", "hangup", "next",
                         "cleanup", "exit", "killed"}
    /\ sock \in Fds \cup {NoFd} /\ own \subseteq Fds
    /\ clients \subseteq Fds /\ todo \subseteq Fds /\ dead \subseteq Fds
    /\ peer \in [Clients -> {"away", "knocking", "on", "gone"}]

Names(n, what) == n # NoFd => fd[n] \in what

\* Every descriptor number the two threads hold names what its holder opened: no
\* number that was closed, and may since have gone to a new client or pipe, is read,
\* written or closed again by the filters, the select loop or the transports; and
\* the dispatch thread works on a live handle (ble_disconnect joins, then deletes).
Owned ==
    /\ Names(h.pr, {"pipe_r"})
    /\ dpc # "closed" => Names(h.pw, {"pipe_w"})
    /\ Names(sock, {"rfcomm"})
    /\ \A n \in own : fd[n] \in {"listen", "pty", "slave"}
    /\ \A n \in clients \cup dead : fd[n] \in Clients
    /\ pc \in {"accept", "reads", "drop", "pty", "rx"} =>
         Names(seen.tfd, {"pipe_r", "rfcomm", "free"})
    /\ dpc # "off" => h.live

\* What every state of the bridge keeps, attempts bounded and descriptors owned.
Inv == TypeOK /\ Owned

\* Every open descriptor has a holder that will close it: nothing leaks over the
\* reconnects of a service that runs for weeks, and nothing is open at the exit.
NoLeak ==
    \A n \in Fds : fd[n] # "free" =>
        n \in {h.pr, h.pw, sock} \cup own \cup clients

\* A host that reads what it is sent and does not hang up keeps its connection
\* through every loss of the radio link, until the bridge is told to stop or has
\* used its last attempt.
Served(c) == peer[c] = "on" /\ c \notin Slow
KeptClients ==
    [][\A c \in Clients : Served(c) /\ running /\ pc # "cleanup" => peer'[c] # "away"]_vars

\* The session of a link that is up goes on: the first one over BLE, and every one
\* over RFCOMM, ends only when the link is lost or the user says so.
SessionEnds == pc \in Loop /\ pc' \notin Loop
Cause == link # "up" \/ ~running \/ pc' = "killed"
EndsForCause ==
    [][SessionEnds /\ (cfg.kind = "BLE" => attempt = 0) => Cause]_vars

\* A lost link that BlueZ or the socket reports ends the session.
LossNoticed == (pc \in Loop /\ link = "down") ~> (pc \notin Loop)

\* After a signal the bridge ends, wherever it was.
Ends == ~running ~> Over
=============================================================================
