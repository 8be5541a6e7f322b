---------------------------- MODULE BridgeProofs ----------------------------
(***************************************************************************)
(* Proofs about the Bluetooth bridge (Bridge over BleLinux), for any       *)
(* number of hosts, descriptors and reconnects.                            *)
(***************************************************************************)
EXTENDS Bridge, SequenceTheorems, WellFoundedInduction, TLAPS

-----------------------------------------------------------------------------
(* The inductive invariant                                                 *)

Dialing == {"stale", "connect", "resolve", "handle", "none"}
InSession == {"init"} \cup Loop
BT == cfg.kind = "BT"
BLE == cfg.kind = "BLE"

\* cfg, and the locals of a turn of the select loop, which TypeOK leaves out.
Locals ==
    /\ cfg \in [kind : Kinds, mode : Modes]
    /\ seen \in [tfd : Fds \cup {NoFd}, ready : SUBSET Fds, got : BOOLEAN]

\* Where run_session and the two calls of the BLE transport are.
Control ==
    /\ pc = "dial" => BLE /\ call \in Dialing \cup {"settle", "ok"}
    /\ pc = "hangup" => BLE /\ call \in {"stop", "join", "idle"}
    /\ pc \notin {"dial", "hangup"} => call = "idle"
    /\ pc \notin {"cleanup", "exit", "killed"} => attempt <= MaxReconnects

\* A handle lives from MakeHandle to FreeHandle, and no longer: the next one
\* would drop the descriptors of this one.
Handle ==
    /\ BT => h = NoHandle /\ ~rule /\ bus = <<>>
    /\ BLE => sock = NoFd
    /\ ~h.live => h = NoHandle
    /\ h.live => h.pr # NoFd
    /\ BLE /\ pc \in InSession \cup {"down"} => h.live
    /\ call \in {"settle", "ok", "stop", "join"} => h.live
    /\ call \in Dialing => ~h.live
    /\ pc \in {"attempt", "connect", "next", "cleanup"} => ~h.live
    /\ pc = "hangup" /\ call = "idle" => ~h.live
    /\ call = "settle" => dpc = "off" /\ ~h.conn
    /\ pc \in {"attempt", "connect", "dial", "next", "cleanup"} => sock = NoFd

\* The turn reads the descriptor of the session, and a client that is to be
\* read or closed is in tcp_clients.
Turn ==
    /\ pc \in {"select", "accept"} /\ BT => seen.tfd = sock
    /\ pc \in {"reads", "drop", "pty", "rx"} /\ BT /\ seen.tfd # NoFd =>
          seen.tfd = sock \/ (sock = NoFd /\ fd[seen.tfd] = "free")
    /\ pc \in {"select", "accept", "reads", "drop", "pty", "rx"} /\ BLE => seen.tfd \in {NoFd, h.pr}
    /\ dead # {} => pc \in {"reads", "drop"}
    /\ dead \subseteq clients
    /\ pc = "reads" => todo \subseteq clients

\* A client is given up only when it has hung up, as long as no signal has
\* interrupted select().
Given ==
    /\ pc \in {"accept", "reads"} /\ seen.ready # {} /\ ~seen.got => ~running
    /\ running => \A n \in dead : peer[fd[n]] = "gone"

\* What tells the select loop that a session is over is told of lost links.
Truthful ==
    /\ pc \in {"connect", "dial"} => ~disc
    /\ BT /\ pc \in InSession /\ (sock = NoFd \/ disc) => link # "up"
    /\ BLE /\ attempt = 0 /\ (pc \in {"attempt", "connect"} \/ call \in Dialing) =>
          ~rule /\ bus = <<>>
    /\ BLE /\ attempt = 0 /\ (pc \in InSession \/ call \in {"settle", "ok"}) =>
          \/ link # "up"
          \/ /\ ~disc
             /\ \A i \in DOMAIN bus : bus[i] # "down"
             /\ h.pw # NoFd /\ dpc # "closed"
             /\ call # "settle" => h.conn

\* NoLeak, which also says that a write end the filter has closed is not its
\* holder's any more, whatever the number names by now.
Holders == {h.pr, sock} \cup own \cup clients \cup (IF dpc = "closed" THEN {} ELSE {h.pw})
Held == \A n \in Fds : fd[n] # "free" => n \in Holders

IInv == Inv /\ Held /\ Locals /\ Control /\ Handle /\ Turn /\ Given /\ Truthful

-----------------------------------------------------------------------------
(* Descriptors                                                             *)

LEMMA Numbers == Fds \subseteq Nat \ {0} /\ NoFd \notin Fds
BY FdAssumption DEF Fds, NoFd

LEMMA Least == ASSUME NEW S \in SUBSET Nat, S # {} PROVE \E i \in S : \A j \in S : i <= j
<1> DEFINE Less == {p \in Nat \X Nat : p[1] < p[2]}
<1>1. OpToRel(<, Nat) = Less
  BY Zenon DEF OpToRel
<1>2. \E i \in S : \A j \in S : <<j, i>> \notin OpToRel(<, Nat)
  BY NatLessThanWellFounded, WFMin
<1>3. \E i \in S : \A j \in S : <<j, i>> \notin Less
  BY <1>1, <1>2, Zenon
<1>4. \A a, b \in Nat : <<a, b>> \notin Less => b <= a
  OBVIOUS
<1> HIDE DEF Less
<1>5. QED BY <1>3, <1>4

\* The kernel gives a number that is free.
LEMMA LowestIsFree ==
    ASSUME NEW f, ~Full(f)
    PROVE  Lowest(f) \in Fds /\ f[Lowest(f)] = "free"
<1> DEFINE Free == {n \in Fds : f[n] = "free"}
<1>1. Free \in SUBSET Nat /\ Free # {}
  BY Numbers DEF Full
<1>2. PICK n \in Free : \A m \in Free : n <= m
  BY <1>1, Least
<1>3. \E n_1 \in Fds : f[n_1] = "free" /\ \A m \in Fds : f[m] = "free" => n_1 <= m
  BY <1>2
<1>4. QED BY <1>3, Zenon DEF Lowest

FdKind == {"free", "listen", "pty", "slave", "pipe_r", "pipe_w", "rfcomm"} \cup Clients

LEMMA Opening ==
    ASSUME NEW f \in [Fds -> FdKind], ~Full(f), NEW what \in FdKind
    PROVE  /\ Opened(f, what) \in [Fds -> FdKind]
           /\ Lowest(f) \in Fds /\ Lowest(f) # NoFd /\ f[Lowest(f)] = "free"
           /\ Opened(f, what)[Lowest(f)] = what
           /\ \A n \in Fds : n # Lowest(f) => Opened(f, what)[n] = f[n]
BY LowestIsFree, Numbers DEF Opened

LEMMA Closing ==
    ASSUME NEW f \in [Fds -> FdKind], NEW n \in Fds \cup {NoFd}
    PROVE  /\ Closed(f, n) \in [Fds -> FdKind]
           /\ n # NoFd => Closed(f, n)[n] = "free"
           /\ \A m \in Fds : m # n => Closed(f, n)[m] = f[m]
BY Numbers DEF Closed, FdKind

LEMMA ClosingBoth ==
    ASSUME NEW f \in [Fds -> FdKind], NEW r \in Fds \cup {NoFd}, NEW w \in Fds \cup {NoFd},
           NEW g, g = Closed(Closed(f, r), w)
    PROVE  /\ g \in [Fds -> FdKind]
           /\ r # NoFd => g[r] = "free"
           /\ w # NoFd => g[w] = "free"
           /\ \A n \in Fds : n # r /\ n # w => g[n] = f[n]
<1>1. PICK e : e = Closed(f, r)
  OBVIOUS
<1>2. /\ e \in [Fds -> FdKind]
      /\ r # NoFd => e[r] = "free"
      /\ \A n \in Fds : n # r => e[n] = f[n]
  BY <1>1, Closing
<1>3. /\ g \in [Fds -> FdKind]
      /\ w # NoFd => g[w] = "free"
      /\ \A n \in Fds : n # w => g[n] = e[n]
  BY <1>1, <1>2, Closing
<1>4. r # NoFd => g[r] = "free"
  BY <1>2, <1>3
<1>5. QED BY <1>2, <1>3, <1>4

LEMMA KindOfCfg == Locals => (BT \/ BLE) /\ ~(BT /\ BLE)
BY BridgeAssumption DEF Locals, BT, BLE

-----------------------------------------------------------------------------
(* The types, in two parts                                                 *)

BleType ==
    /\ link \in {"up", "down", "silent"} /\ rule \in BOOLEAN /\ rx \in BOOLEAN
    /\ bus \in Seq({"data", "down"})
    /\ h \in [live : BOOLEAN, conn : BOOLEAN, stop : BOOLEAN,
              pr : Fds \cup {NoFd}, pw : Fds \cup {NoFd}]
    /\ dpc \in {"off", "top", "in", "closed"}
    /\ call \in {"idle", "stale", "connect", "resolve", "handle", "settle", "ok", "none",
                 "stop", "join"}
    /\ fd \in [Fds -> FdKind]

LoopType ==
    /\ running \in BOOLEAN /\ disc \in BOOLEAN
    /\ attempt \in 0..MaxReconnects + 1
    /\ pc \in Loop \cup {"attempt", "connect", "dial", "init", "down", "hangup", "next",
                         "cleanup", "exit", "killed"}
    /\ sock \in Fds \cup {NoFd}
HostType ==
    /\ own \subseteq Fds /\ clients \subseteq Fds /\ todo \subseteq Fds /\ dead \subseteq Fds
    /\ peer \in [Clients -> {"away", "knocking", "on", "gone"}]
    /\ Locals

LEMMA TypeParts == TypeOK /\ Locals <=> BleType /\ LoopType /\ HostType
BY DEF TypeOK, BleType, LoopType, HostType, FdKind

LEMMA TypePartsNext == TypeOK' /\ Locals' <=> BleType' /\ LoopType' /\ HostType'
BY TypeParts, PTL

-----------------------------------------------------------------------------
(* run_session, where it opens and closes nothing                          *)

Typed == BleType /\ LoopType /\ HostType

LEMMA TypedOf == IInv => Typed /\ (BT \/ BLE) /\ ~(BT /\ BLE)
BY TypeParts, KindOfCfg DEF IInv, Inv, Typed

LEMMA AgainCounts ==
    ASSUME Again, attempt \in 0 .. MaxReconnects
    PROVE  /\ attempt' \in 1 .. MaxReconnects + 1 /\ attempt' # 0
           /\ pc' \in {"attempt", "cleanup"} /\ (pc' = "attempt" => attempt' <= MaxReconnects)
BY BridgeAssumption DEF Again, NextAttempt

LEMMA ReconnectKeeps ==
    IInv /\ (Attempt \/ ConnectBle \/ Connected \/ Disconnected \/ AfterSession) => IInv'
<1> SUFFICES ASSUME IInv, Attempt \/ ConnectBle \/ Connected \/ Disconnected \/ AfterSession
             PROVE  IInv'
  OBVIOUS
<1>1. Typed /\ (BT \/ BLE) /\ ~(BT /\ BLE) /\ MaxReconnects \in Nat
  BY TypedOf, BridgeAssumption
<1>2. /\ UNCHANGED <<link, rule, bus, h, dpc, fd, rx, cfg, running, sock, hostVars, loopVars>>
      /\ \/ /\ pc = "attempt" /\ pc' \in {"connect", "cleanup"} /\ UNCHANGED <<call, attempt>>
            /\ disc' = disc \/ disc' = FALSE
            /\ pc' = "connect" => disc' = FALSE
         \/ /\ UNCHANGED disc
            /\ \/ /\ pc = "connect" /\ BLE /\ pc' = "dial" /\ call' = "stale" /\ UNCHANGED attempt
               \/ /\ pc = "dial" /\ call = "ok" /\ pc' = "init" /\ call' = "idle" /\ UNCHANGED attempt
               \/ pc = "dial" /\ call = "none" /\ Again /\ call' = "idle"
               \/ pc = "hangup" /\ call = "idle" /\ pc' = "next" /\ UNCHANGED <<call, attempt>>
               \/ pc = "next" /\ Again /\ UNCHANGED call
               \/ pc = "next" /\ pc' = "cleanup" /\ UNCHANGED <<call, attempt>>
  BY DEF Attempt, FreshDisc, ConnectBle, Connected, Disconnected, AfterSession, bleVars, BLE
<1>3. Again /\ pc \in {"dial", "next"} =>
         /\ attempt' \in 1 .. MaxReconnects + 1 /\ attempt' # 0
         /\ pc' \in {"attempt", "cleanup"} /\ (pc' = "attempt" => attempt' <= MaxReconnects)
  <2>1. pc \in {"dial", "next"} => attempt \in 0 .. MaxReconnects
    BY <1>1 DEF Typed, LoopType, IInv, Control
  <2>2. QED BY <2>1, AgainCounts
<1> USE DEF hostVars, loopVars
<1>4. BleType' /\ HostType'
  BY <1>1, <1>2 DEF Typed, BleType, HostType, Locals
<1>5. LoopType'
  <2>1. attempt' \in 0 .. MaxReconnects + 1
    BY <1>1, <1>2, <1>3 DEF Typed, LoopType
  <2>2. pc' \in {"attempt", "connect", "dial", "init", "next", "cleanup"}
    BY <1>2, <1>3
  <2>3. QED BY <1>1, <1>2, <2>1, <2>2 DEF Typed, LoopType
<1>6. Owned' /\ Held'
  BY <1>2, <1>3 DEF IInv, Inv, Owned, Names, Held, Holders
<1>7. Control'
  BY <1>1, <1>2, <1>3 DEF IInv, Control, BLE, Dialing
<1>8. Handle'
  <2>1. UNCHANGED <<h, rule, bus, sock, dpc>> /\ BT' = BT /\ BLE' = BLE
    BY <1>2 DEF BT, BLE
  <2>2. /\ pc' \in {"attempt", "connect", "next", "cleanup"} => ~h.live
        /\ pc' = "init" => h.live
        /\ call' \in Dialing => ~h.live
        /\ pc' \notin {"init"} => sock = NoFd
    BY <1>2, <1>3 DEF IInv, Handle, Control, Dialing
  <2>3. call' \in {"idle", "stale"} /\ pc' \in {"attempt", "connect", "dial", "init", "next", "cleanup"}
    BY <1>2, <1>3 DEF IInv, Control
  <2>4. QED BY <2>1, <2>2, <2>3 DEF IInv, Handle, InSession, Loop
<1>9. Turn' /\ Given'
  BY <1>2, <1>3 DEF IInv, Turn, Given, BLE, BT
<1>10. Truthful'
  BY <1>1, <1>2, <1>3 DEF IInv, Control, Truthful, BLE, BT, InSession, Dialing, Loop
<1>11. QED BY <1>4, <1>5, <1>6, <1>7, <1>8, <1>9, <1>10, TypePartsNext DEF IInv, Inv

\* The steps of a turn that touch no descriptor, and the signal.
LEMMA TurnKeeps ==
    IInv /\ (Check \/ SetupFds \/ Select \/ RxNothing \/ Sigpipe \/ Signal) => IInv'
<1> SUFFICES ASSUME IInv, Check \/ SetupFds \/ Select \/ RxNothing \/ Sigpipe \/ Signal
             PROVE  IInv'
  OBVIOUS
<1>1. Typed /\ (BT \/ BLE) /\ ~(BT /\ BLE)
  BY TypedOf
<1> DEFINE Looks == /\ seen' \in [tfd : Fds \cup {NoFd}, ready : SUBSET Fds, got : BOOLEAN]
                    /\ seen'.tfd = seen.tfd
<1>2. /\ UNCHANGED <<bleVars, cfg, disc, attempt, sock, hostVars, todo, dead>>
      /\ \/ UNCHANGED <<pc, seen>> /\ running' = FALSE
         \/ /\ UNCHANGED running
            /\ \/ pc = "check" /\ pc' \in {"setup", "down"} /\ UNCHANGED seen
               \/ /\ pc = "setup" /\ pc' = "select"
                  /\ seen' = [tfd |-> read_fd, ready |-> {}, got |-> FALSE]
               \/ /\ pc = "select" /\ pc' = "accept" /\ Looks
                  /\ seen'.ready # {} /\ ~seen'.got => ~running
               \/ pc = "rx" /\ pc' = "check" /\ seen' = NoLook
               \/ pc = "rx" /\ pc' = "killed" /\ UNCHANGED seen
  <2>1. CASE Check \/ RxNothing \/ Sigpipe \/ Signal
    BY <1>1, <2>1 DEF Check, RxNothing, NextTurn, Sigpipe, Signal, loopVars, Typed, LoopType
  <2>2. CASE SetupFds
    BY <2>2 DEF SetupFds, NoLook
  <2>3. CASE Select
    <3>1. PICK ready \in SUBSET Watched, got \in BOOLEAN :
             /\ seen' = [seen EXCEPT !.ready = ready, !.got = got]
             /\ ready # {} /\ ~got => ~running
      <4>1. CASE \E wrote \in SUBSET {n \in Watched : MayBeReadable(n)} :
                    LET ready == wrote \cup {n \in Watched : Readable(n)} IN
                    seen' = [seen EXCEPT !.ready = ready, !.got = ready # {}]
        <5>1. PICK wrote \in SUBSET {n \in Watched : MayBeReadable(n)} :
                    LET ready == wrote \cup {n \in Watched : Readable(n)} IN
                    seen' = [seen EXCEPT !.ready = ready, !.got = ready # {}]
          BY <4>1
        <5> DEFINE ready == wrote \cup {n \in Watched : Readable(n)}
        <5>2. ready \in SUBSET Watched /\ (ready # {}) \in BOOLEAN
          OBVIOUS
        <5>3. seen' = [seen EXCEPT !.ready = ready, !.got = (ready # {})]
          BY <5>1
        <5>4. ready # {} /\ ~(ready # {}) => ~running
          OBVIOUS
        <5> HIDE DEF ready
        <5>5. QED BY <5>2, <5>3, <5>4
      <4>2. CASE ~running /\ seen' = [seen EXCEPT !.ready = Watched]
        <5>1. seen \in [tfd : Fds \cup {NoFd}, ready : SUBSET Fds, got : BOOLEAN]
          BY <1>1 DEF Typed, HostType, Locals
        <5>2. seen' = [seen EXCEPT !.ready = Watched, !.got = seen.got] /\ seen.got \in BOOLEAN
          BY <4>2, <5>1
        <5>3. QED BY <4>2, <5>2
      <4>3. QED BY <2>3, <4>1, <4>2 DEF Select
    <3>2. Watched \subseteq Fds
      BY <1>1 DEF Watched, Typed, HostType, Locals
    <3>3. /\ seen \in [tfd : Fds \cup {NoFd}, ready : SUBSET Fds, got : BOOLEAN]
      BY <1>1 DEF Typed, HostType, Locals
    <3>4. Looks /\ seen'.ready = ready /\ seen'.got = got
      BY <3>1, <3>2, <3>3
    <3>5. /\ UNCHANGED <<bleVars, cfg, disc, attempt, sock, hostVars, todo, dead, running>>
          /\ pc = "select" /\ pc' = "accept"
      BY <2>3 DEF Select
    <3>6. QED BY <3>1, <3>2, <3>4, <3>5
  <2>4. QED BY <2>1, <2>2, <2>3
<1> USE DEF hostVars, loopVars, bleVars
<1>3. read_fd \in Fds \cup {NoFd} /\ (BT => read_fd = sock) /\ (BLE => read_fd \in {NoFd, h.pr})
  BY <1>1 DEF read_fd, BT, BLE, Typed, BleType, LoopType
<1>4. BleType'
  BY <1>1, <1>2 DEF Typed, BleType
<1>5. LoopType'
  BY <1>1, <1>2 DEF Typed, LoopType, Loop
<1>6. HostType'
  <2>1. seen' \in [tfd : Fds \cup {NoFd}, ready : SUBSET Fds, got : BOOLEAN]
    <3>1. seen \in [tfd : Fds \cup {NoFd}, ready : SUBSET Fds, got : BOOLEAN]
      BY <1>1 DEF Typed, HostType, Locals
    <3>2. NoLook \in [tfd : Fds \cup {NoFd}, ready : SUBSET Fds, got : BOOLEAN]
      BY DEF NoLook
    <3>3. [tfd |-> read_fd, ready |-> {}, got |-> FALSE]
             \in [tfd : Fds \cup {NoFd}, ready : SUBSET Fds, got : BOOLEAN]
      BY <1>3
    <3>4. QED BY <1>2, <3>1, <3>2, <3>3
  <2>2. QED BY <1>1, <1>2, <2>1 DEF Typed, HostType, Locals
<1>7. Owned'
  <2>1. UNCHANGED <<h, fd, dpc, sock, own, clients, dead>>
    BY <1>2
  <2>2. pc' \in {"accept", "reads", "drop", "pty", "rx"} => Names(seen.tfd, {"pipe_r", "rfcomm", "free"})'
    BY <1>1, <1>2 DEF IInv, Inv, Owned, Turn, Names
  <2>3. QED BY <2>1, <2>2 DEF IInv, Inv, Owned, Names
<1>8. Held'
  BY <1>2 DEF IInv, Held, Holders
<1>9. Control'
  BY <1>1, <1>2 DEF IInv, Control, BLE
<1>10. Handle'
  BY <1>2 DEF IInv, Handle, BLE, BT, InSession, Dialing, Loop
<1>11. Turn'
  BY <1>2, <1>3 DEF IInv, Turn, BLE, BT
<1>12. Given'
  BY <1>2 DEF IInv, Turn, Given, NoLook
<1>13. Truthful'
  BY <1>1, <1>2 DEF IInv, Control, Truthful, BLE, BT, InSession, Dialing, Loop
<1>14. QED BY <1>4, <1>5, <1>6, <1>7, <1>8, <1>9, <1>10, <1>11, <1>12, <1>13, TypePartsNext DEF IInv, Inv

-----------------------------------------------------------------------------
(* The turn of the select loop: writes, hosts and the radio's bytes        *)

LEMMA ClientKinds ==
    \A c \in Clients : c \notin {"free", "listen", "pty", "slave", "pipe_r", "pipe_w", "rfcomm"}
BY BridgeAssumption

LEMMA Written ==
    ASSUME IInv, transport_write
    PROVE  /\ fd' \in [Fds -> FdKind] /\ sock' \in Fds \cup {NoFd} /\ disc' \in BOOLEAN
           /\ \/ UNCHANGED <<fd, sock, disc>>
              \/ /\ BT /\ sock \in Fds /\ sock # NoFd /\ link # "up"
                 /\ fd[sock] = "rfcomm" /\ fd'[sock] = "free"
                 /\ \A n \in Fds : n # sock => fd'[n] = fd[n]
                 /\ sock' = NoFd /\ disc' = TRUE
<1>1. fd \in [Fds -> FdKind] /\ sock \in Fds \cup {NoFd} /\ disc \in BOOLEAN
  BY TypedOf DEF Typed, BleType, LoopType
<1>2. CASE UNCHANGED <<fd, sock, disc>>
  BY <1>1, <1>2
<1>3. CASE WriteFails
  <2>1. BT /\ sock \in Fds /\ sock # NoFd /\ link # "up" /\ sock' = NoFd /\ disc' = TRUE
        /\ fd' = Closed(fd, sock)
    BY <1>1, <1>3 DEF WriteFails, BT
  <2>2. fd[sock] = "rfcomm"
    BY <2>1 DEF IInv, Inv, Owned, Names
  <2>3. QED BY <1>1, <2>1, <2>2, Closing
<1>4. QED BY <1>2, <1>3 DEF transport_write

LEMMA WriteKeeps ==
    ASSUME IInv, transport_write,
           UNCHANGED <<link, rule, bus, h, dpc, call, rx, cfg, running, attempt, hostVars, seen>>,
           \A n \in dead' : n \in dead \/ (n \in clients /\ (running => peer[fd[n]] = "gone")),
           todo' \subseteq todo,
           \/ pc = "init" /\ pc' = "check" /\ dead' = dead
           \/ pc = "reads" /\ pc' \in {"reads", "drop"}
           \/ pc = "pty" /\ pc' = "rx" /\ dead' = dead
    PROVE  IInv'
<1>1. Typed /\ (BT \/ BLE) /\ ~(BT /\ BLE)
  BY TypedOf
<1>2. /\ fd' \in [Fds -> FdKind] /\ sock' \in Fds \cup {NoFd} /\ disc' \in BOOLEAN
      /\ \/ UNCHANGED <<fd, sock, disc>>
         \/ /\ BT /\ sock \in Fds /\ sock # NoFd /\ link # "up"
            /\ fd[sock] = "rfcomm" /\ fd'[sock] = "free"
            /\ \A n \in Fds : n # sock => fd'[n] = fd[n]
            /\ sock' = NoFd /\ disc' = TRUE
  BY Written
<1>3. /\ \A n \in clients \cup dead \cup dead' : n \in Fds /\ fd[n] \in Clients
      /\ \A n \in own : n \in Fds /\ fd[n] \in {"listen", "pty", "slave"}
  BY <1>1 DEF IInv, Inv, Owned, Typed, HostType
<1>4. \A n \in Fds : fd[n] # "rfcomm" => fd'[n] = fd[n]
  BY <1>2
<1>5. \A n \in clients \cup dead \cup dead' : fd'[n] = fd[n]
  BY <1>3, <1>4, ClientKinds
<1>6. BT' = BT /\ BLE' = BLE
  BY DEF BT, BLE
<1> USE DEF hostVars
<1>7. BleType' /\ LoopType' /\ HostType'
  <2>1. BleType'
    BY <1>1, <1>2 DEF Typed, BleType
  <2>2. LoopType'
    BY <1>1, <1>2 DEF Typed, LoopType, Loop
  <2>3. HostType'
    BY <1>1 DEF Typed, HostType, Locals
  <2>4. QED BY <2>1, <2>2, <2>3
<1>8. Owned'
  <2>1. Names(h.pr, {"pipe_r"})' /\ (dpc # "closed" => Names(h.pw, {"pipe_w"}))'
    BY <1>1, <1>4 DEF IInv, Inv, Owned, Names, Typed, BleType
  <2>2. Names(sock, {"rfcomm"})'
    BY <1>2 DEF IInv, Inv, Owned, Names
  <2>3. \A n \in own' : fd'[n] \in {"listen", "pty", "slave"}
    BY <1>3, <1>4
  <2>4. \A n \in clients' \cup dead' : fd'[n] \in Clients
    BY <1>3, <1>5
  <2>5. (pc \in {"accept", "reads", "drop", "pty", "rx"} =>
            Names(seen.tfd, {"pipe_r", "rfcomm", "free"}))'
    <3>1. CASE pc = "init"
      BY <3>1
    <3>2. CASE pc # "init"
      BY <1>1, <1>2, <3>2 DEF IInv, Inv, Owned, Names, Typed, HostType, Locals
    <3>3. QED BY <3>1, <3>2
  <2>6. QED BY <2>1, <2>2, <2>3, <2>4, <2>5 DEF IInv, Inv, Owned
<1>9. Held'
  BY <1>2 DEF IInv, Held, Holders
<1>10. Control' /\ Handle'
  <2>1. Control'
    BY <1>6 DEF IInv, Control
  <2>2. Handle'
    BY <1>2, <1>6 DEF IInv, Control, Handle, InSession, Loop, Dialing
  <2>3. QED BY <2>1, <2>2
<1>11. Turn'
  <2>1. pc' \in {"reads", "drop", "pty", "rx"} => pc \in {"reads", "drop", "pty", "rx"}
    OBVIOUS
  <2>2. pc' \notin {"select", "accept"}
    OBVIOUS
  <2>3. (pc \in {"reads", "drop", "pty", "rx"} /\ BT /\ seen.tfd # NoFd =>
          seen.tfd = sock \/ (sock = NoFd /\ fd[seen.tfd] = "free"))'
    BY <1>2, <1>6, <2>1, <1>1 DEF IInv, Turn, Typed, HostType, Locals
  <2>4. QED BY <1>6, <2>1, <2>2, <2>3 DEF IInv, Turn
<1>12. Given'
  BY <1>5 DEF IInv, Given
<1>13. Truthful'
  BY <1>1, <1>2, <1>6 DEF IInv, Control, Truthful, InSession, Dialing, Loop
<1>14. QED BY <1>7, <1>8, <1>9, <1>10, <1>11, <1>12, <1>13, TypePartsNext DEF IInv, Inv

LEMMA WritersKeep == IInv /\ (TncInit \/ ReadClient \/ PtyOrTest) => IInv'
<1> SUFFICES ASSUME IInv, TncInit \/ ReadClient \/ PtyOrTest PROVE IInv'
  OBVIOUS
<1>1. CASE TncInit
  BY <1>1, WriteKeeps DEF TncInit, loopVars
<1>2. CASE PtyOrTest
  BY <1>2, WriteKeeps DEF PtyOrTest, loopVars, transport_write
<1>3. CASE ReadClient
  <2>1. CASE todo = {} /\ pc' = "drop" /\ UNCHANGED <<fd, sock, disc, todo, dead>>
    BY <1>3, <2>1, WriteKeeps DEF ReadClient, transport_write
  <2>2. CASE \E n \in todo :
             /\ todo' = todo \ {n} /\ UNCHANGED pc
             /\ \/ n \notin seen.ready /\ UNCHANGED <<fd, sock, disc, dead>>
                \/ n \in seen.ready /\ transport_write /\ UNCHANGED dead
                \/ /\ n \in seen.ready
                   /\ peer[fd[n]] = "gone" \/ ~seen.got
                   /\ dead' = dead \cup {n} /\ UNCHANGED <<fd, sock, disc>>
    <3>1. PICK n \in todo :
             /\ todo' = todo \ {n} /\ UNCHANGED pc
             /\ \/ n \notin seen.ready /\ UNCHANGED <<fd, sock, disc, dead>>
                \/ n \in seen.ready /\ transport_write /\ UNCHANGED dead
                \/ /\ n \in seen.ready
                   /\ peer[fd[n]] = "gone" \/ ~seen.got
                   /\ dead' = dead \cup {n} /\ UNCHANGED <<fd, sock, disc>>
      BY <2>2
    <3>2. /\ pc = "reads" /\ n \in clients
          /\ UNCHANGED <<link, rule, bus, h, dpc, call, rx, cfg, running, attempt, hostVars, seen>>
      BY <1>3 DEF ReadClient, IInv, Turn
    <3>3. transport_write
      BY <3>1 DEF transport_write
    <3>4. CASE dead' = dead
      BY <3>1, <3>2, <3>3, <3>4, WriteKeeps
    <3>5. CASE /\ n \in seen.ready
               /\ peer[fd[n]] = "gone" \/ ~seen.got
               /\ dead' = dead \cup {n}
      <4>1. running => peer[fd[n]] = "gone"
        BY <3>2, <3>5 DEF IInv, Given
      <4>2. QED BY <3>1, <3>2, <3>3, <3>5, <4>1, WriteKeeps
    <3>6. QED BY <3>1, <3>4, <3>5
  <2>3. QED BY <1>3, <2>1, <2>2 DEF ReadClient
<1>4. QED BY <1>1, <1>2, <1>3

LEMMA CloseKeeps ==
    ASSUME IInv, NEW N \in SUBSET clients, CloseClients(N), rx' \in BOOLEAN, dead' = {},
           UNCHANGED <<link, rule, bus, h, dpc, call, cfg, running, disc, attempt, sock, own, todo>>,
           \/ pc = "drop" /\ pc' = "pty" /\ N = dead /\ seen' = seen
           \/ pc = "rx" /\ pc' = "check" /\ seen' = NoLook
    PROVE  IInv'
<1>1. Typed /\ (BT \/ BLE) /\ ~(BT /\ BLE) /\ BT' = BT /\ BLE' = BLE
  BY TypedOf DEF BT, BLE
<1>2. /\ \A n \in clients : n \in Fds /\ fd[n] \in Clients
      /\ \A n \in own : n \in Fds /\ fd[n] \in {"listen", "pty", "slave"}
      /\ N \subseteq Fds
  BY <1>1 DEF IInv, Inv, Owned, Typed, HostType
<1>3. /\ fd' \in [Fds -> FdKind] /\ clients' = clients \ N
      /\ \A n \in Fds : fd'[n] = IF n \in N THEN "free" ELSE fd[n]
      /\ peer' \in [Clients -> {"away", "knocking", "on", "gone"}]
  BY <1>1 DEF CloseClients, FdKind, Typed, BleType, HostType
<1>4. \A n \in Fds : fd[n] \notin Clients => fd'[n] = fd[n]
  BY <1>2, <1>3
<1>5. \A n \in Fds : fd[n] \in {"free", "listen", "pty", "slave", "pipe_r", "pipe_w", "rfcomm"} =>
         fd'[n] = fd[n]
  BY <1>4, ClientKinds
<1>6. BleType' /\ LoopType' /\ HostType'
  <2>1. BleType'
    BY <1>1, <1>3 DEF Typed, BleType
  <2>2. LoopType'
    BY <1>1 DEF Typed, LoopType, Loop
  <2>3. seen' \in [tfd : Fds \cup {NoFd}, ready : SUBSET Fds, got : BOOLEAN]
    <3>1. seen \in [tfd : Fds \cup {NoFd}, ready : SUBSET Fds, got : BOOLEAN]
      BY <1>1 DEF Typed, HostType, Locals
    <3>2. NoLook \in [tfd : Fds \cup {NoFd}, ready : SUBSET Fds, got : BOOLEAN]
      BY DEF NoLook
    <3>3. QED BY <3>1, <3>2
  <2>4. HostType'
    BY <1>1, <1>3, <2>3 DEF Typed, HostType, Locals
  <2>5. QED BY <2>1, <2>2, <2>4
<1>7. Owned'
  <2>1. Names(h.pr, {"pipe_r"})' /\ (dpc # "closed" => Names(h.pw, {"pipe_w"}))'
    BY <1>1, <1>5 DEF IInv, Inv, Owned, Names, Typed, BleType
  <2>2. Names(sock, {"rfcomm"})'
    BY <1>1, <1>5 DEF IInv, Inv, Owned, Names, Typed, LoopType
  <2>3. \A n \in own' : fd'[n] \in {"listen", "pty", "slave"}
    BY <1>2, <1>5
  <2>4. \A n \in clients' \cup dead' : fd'[n] \in Clients
    BY <1>2, <1>3
  <2>5. (pc \in {"accept", "reads", "drop", "pty", "rx"} =>
            Names(seen.tfd, {"pipe_r", "rfcomm", "free"}))'
    BY <1>1, <1>3, <1>5 DEF IInv, Inv, Owned, Names, Typed, HostType, Locals
  <2>6. QED BY <2>1, <2>2, <2>3, <2>4, <2>5 DEF IInv, Inv, Owned
<1>8. Held'
  BY <1>3 DEF IInv, Held, Holders
<1>9. Control'
  BY <1>1 DEF IInv, Control
<1>10. Handle'
  BY <1>1 DEF IInv, Control, Handle, InSession, Loop, Dialing
<1>11. Turn'
  <2>1. ASSUME BT', pc' = "pty", seen'.tfd # NoFd
        PROVE  seen'.tfd = sock' \/ (sock' = NoFd /\ fd'[seen'.tfd] = "free")
    BY <1>1, <1>3, <2>1 DEF IInv, Turn, Typed, HostType, Locals
  <2>2. QED BY <1>1, <2>1 DEF IInv, Turn, NoLook
<1>12. Given' /\ Truthful'
  <2>1. Given'
    BY DEF Given
  <2>2. Truthful'
    BY <1>1 DEF IInv, Control, Truthful, InSession, Loop, Dialing
  <2>3. QED BY <2>1, <2>2
<1>13. QED BY <1>6, <1>7, <1>8, <1>9, <1>10, <1>11, <1>12, TypePartsNext DEF IInv, Inv

LEMMA ClosersKeep == IInv /\ (DropDead \/ RxData) => IInv'
<1> SUFFICES ASSUME IInv, DropDead \/ RxData PROVE IInv'
  OBVIOUS
<1>1. CASE DropDead
  <2>1. dead \subseteq clients /\ rx \in BOOLEAN
    BY TypedOf DEF IInv, Turn, Typed, BleType
  <2>2. QED BY <1>1, <2>1, CloseKeeps DEF DropDead
<1>2. CASE RxData
  <2>1. PICK N \in SUBSET {n \in clients : Refuses(fd[n])} : CloseClients(N)
    BY <1>2 DEF RxData
  <2>2. N \in SUBSET clients
    OBVIOUS
  <2>3. dead' = {}
    BY <1>2 DEF RxData, NextTurn, IInv, Turn
  <2>4. QED BY <1>2, <2>1, <2>2, <2>3, CloseKeeps DEF RxData, NextTurn
<1>3. QED BY <1>1, <1>2

LEMMA RadioReadable ==
    ASSUME NEW n
    PROVE  /\ fd[n] = "rfcomm" => (Readable(n) <=> rx \/ link # "up")
           /\ fd[n] = "pipe_r" => (Readable(n) <=> rx \/ NoWriter)
<1>1. CASE fd[n] = "rfcomm"
  BY <1>1, ClientKinds DEF Readable
<1>2. CASE fd[n] = "pipe_r"
  BY <1>2, ClientKinds DEF Readable
<1>3. QED BY <1>1, <1>2

\* read(tfd) tells of a lost link only when the link is lost.
LEMMA RxEndTells ==
    ASSUME IInv, RxEnd, BT \/ (BLE /\ attempt = 0)
    PROVE  link # "up"
<1>1. Typed /\ ~(BT /\ BLE)
  BY TypedOf
<1>2. /\ pc = "rx" /\ seen.tfd # NoFd
      /\ fd[seen.tfd] = "free" \/ (~rx /\ Readable(seen.tfd))
  BY DEF RxEnd, RxDue
<1>3. CASE BT
  <2>1. CASE seen.tfd = sock
    <3>1. fd[seen.tfd] = "rfcomm"
      BY <1>2, <2>1 DEF IInv, Inv, Owned, Names
    <3>2. QED BY <1>2, <3>1, RadioReadable
  <2>2. CASE sock = NoFd
    BY <1>2, <1>3, <2>2 DEF IInv, Truthful, InSession, Loop
  <2>3. QED BY <1>2, <1>3, <2>1, <2>2 DEF IInv, Turn
<1>4. CASE BLE /\ attempt = 0
  <2>1. seen.tfd = h.pr /\ fd[h.pr] = "pipe_r"
    BY <1>2, <1>4 DEF IInv, Inv, Owned, Names, Turn
  <2>2. \A n \in Fds : fd[n] # "pipe_w"
    BY <1>2, <2>1, RadioReadable DEF NoWriter
  <2>3. h.pw = NoFd \/ dpc = "closed"
    BY <1>1, <2>2 DEF IInv, Inv, Owned, Names, Typed, BleType
  <2>4. QED BY <1>2, <1>4, <2>3 DEF IInv, Truthful, InSession, Loop
<1>5. QED BY <1>3, <1>4

LEMMA RxEndKeeps == IInv /\ RxEnd => IInv'
<1> SUFFICES ASSUME IInv, RxEnd PROVE IInv'
  OBVIOUS
<1>1. Typed /\ (BT \/ BLE) /\ ~(BT /\ BLE) /\ BT' = BT /\ BLE' = BLE
  BY TypedOf DEF BT, BLE, RxEnd
<1>2. /\ pc = "rx" /\ pc' = "check" /\ seen' = NoLook /\ disc' = TRUE
      /\ UNCHANGED <<bleVars, cfg, running, attempt, sock, hostVars, todo, dead>>
  BY DEF RxEnd, NextTurn
<1> USE DEF hostVars, bleVars
<1>3. BleType' /\ LoopType' /\ HostType'
  <2>1. BleType'
    BY <1>1, <1>2 DEF Typed, BleType
  <2>2. LoopType'
    BY <1>1, <1>2 DEF Typed, LoopType, Loop
  <2>3. HostType'
    BY <1>1, <1>2 DEF Typed, HostType, Locals, NoLook
  <2>4. QED BY <2>1, <2>2, <2>3
<1>4. Owned' /\ Held'
  BY <1>2 DEF IInv, Inv, Owned, Names, Held, Holders
<1>5. Control' /\ Handle'
  BY <1>1, <1>2 DEF IInv, Control, Handle, InSession, Loop, Dialing
<1>6. Turn' /\ Given'
  BY <1>1, <1>2 DEF IInv, Turn, Given
<1>7. Truthful'
  BY <1>1, <1>2, RxEndTells DEF IInv, Control, Truthful, InSession, Loop, Dialing
<1>8. QED BY <1>3, <1>4, <1>5, <1>6, <1>7, TypePartsNext DEF IInv, Inv

LEMMA AcceptKeeps == IInv /\ Accept => IInv'
<1> SUFFICES ASSUME IInv, Accept PROVE IInv'
  OBVIOUS
<1>1. Typed /\ (BT \/ BLE) /\ ~(BT /\ BLE) /\ BT' = BT /\ BLE' = BLE
  BY TypedOf DEF BT, BLE, Accept
<1>2. /\ pc = "accept" /\ pc' = "reads" /\ todo' = clients'
      /\ UNCHANGED <<link, rule, bus, h, dpc, call, rx, cfg, running, disc, attempt, sock,
                     own, seen, dead>>
      /\ \/ UNCHANGED <<fd, clients, peer>>
         \/ \E c \in Clients : AcceptOne(c)
  BY DEF Accept
<1>3. dead = {}
  BY <1>2 DEF IInv, Turn
<1>4. \/ UNCHANGED <<fd, clients, peer>>
      \/ \E l \in Fds : /\ l # NoFd /\ fd[l] = "free" /\ fd'[l] \in Clients
                        /\ \A n \in Fds : n # l => fd'[n] = fd[n]
                        /\ fd' \in [Fds -> FdKind] /\ clients' = clients \cup {l}
                        /\ peer' \in [Clients -> {"away", "knocking", "on", "gone"}]
  <2>1. ASSUME NEW c \in Clients, AcceptOne(c)
        PROVE  \E l \in Fds : /\ l # NoFd /\ fd[l] = "free" /\ fd'[l] \in Clients
                              /\ \A n \in Fds : n # l => fd'[n] = fd[n]
                              /\ fd' \in [Fds -> FdKind] /\ clients' = clients \cup {l}
                              /\ peer' \in [Clients -> {"away", "knocking", "on", "gone"}]
    <3>1. c \in FdKind /\ ~Full(fd) /\ fd \in [Fds -> FdKind]
      BY <1>1, <2>1 DEF FdKind, AcceptOne, Typed, BleType
    <3>2. /\ fd' = Opened(fd, c) /\ clients' = clients \cup {Lowest(fd)}
          /\ peer' \in [Clients -> {"away", "knocking", "on", "gone"}]
      BY <1>1, <2>1 DEF AcceptOne, Typed, HostType
    <3>3. /\ Lowest(fd) \in Fds /\ Lowest(fd) # NoFd /\ fd[Lowest(fd)] = "free"
          /\ fd' \in [Fds -> FdKind] /\ fd'[Lowest(fd)] = c
          /\ \A n \in Fds : n # Lowest(fd) => fd'[n] = fd[n]
      BY <3>1, <3>2, Opening
    <3>4. QED BY <3>2, <3>3
  <2>2. QED BY <1>2, <2>1
<1>5. \A n \in Fds : fd[n] # "free" => fd'[n] = fd[n]
  BY <1>4
<1>6. BleType' /\ LoopType' /\ HostType'
  <2>1. BleType'
    BY <1>1, <1>2, <1>4 DEF Typed, BleType
  <2>2. LoopType'
    BY <1>1, <1>2 DEF Typed, LoopType, Loop
  <2>3. HostType'
    BY <1>1, <1>2, <1>4 DEF Typed, HostType, Locals
  <2>4. QED BY <2>1, <2>2, <2>3
<1>7. Owned'
  <2>1. Names(h.pr, {"pipe_r"})' /\ (dpc # "closed" => Names(h.pw, {"pipe_w"}))'
    BY <1>1, <1>2, <1>5 DEF IInv, Inv, Owned, Names, Typed, BleType
  <2>2. Names(sock, {"rfcomm"})'
    BY <1>1, <1>2, <1>5 DEF IInv, Inv, Owned, Names, Typed, LoopType
  <2>3. \A n \in own' : fd'[n] \in {"listen", "pty", "slave"}
    BY <1>1, <1>2, <1>5 DEF IInv, Inv, Owned, Typed, HostType
  <2>4. \A n \in clients' \cup dead' : fd'[n] \in Clients
    BY <1>1, <1>2, <1>3, <1>4 DEF IInv, Inv, Owned, Typed, HostType
  <2>5. Names(seen.tfd, {"pipe_r", "rfcomm"})'
    BY <1>1, <1>2, <1>5 DEF IInv, Inv, Owned, Names, Typed, BleType, LoopType, Turn
  <2>6. QED BY <1>2, <2>1, <2>2, <2>3, <2>4, <2>5 DEF IInv, Inv, Owned, Names
<1>8. Held'
  BY <1>2, <1>4 DEF IInv, Held, Holders
<1>9. Control' /\ Handle'
  BY <1>1, <1>2 DEF IInv, Control, Handle, InSession, Loop, Dialing
<1>10. Turn'
  BY <1>1, <1>2, <1>3 DEF IInv, Turn
<1>11. Given'
  BY <1>2, <1>3 DEF IInv, Given
<1>12. Truthful'
  BY <1>1, <1>2 DEF IInv, Control, Truthful, InSession, Loop, Dialing
<1>13. QED BY <1>6, <1>7, <1>8, <1>9, <1>10, <1>11, <1>12, TypePartsNext DEF IInv, Inv

-----------------------------------------------------------------------------
(* Hosts, the RFCOMM link and the ends of the connection                   *)

LEMMA HostsKeep == IInv /\ (\E c \in Clients : Knock(c) \/ Leave(c)) => IInv'
<1> SUFFICES ASSUME IInv, NEW c \in Clients, Knock(c) \/ Leave(c) PROVE IInv'
  OBVIOUS
<1>1. Typed /\ BT' = BT /\ BLE' = BLE
  BY TypedOf DEF BT, BLE, Knock, Leave
<1>2. /\ UNCHANGED <<bleVars, cfg, running, disc, attempt, pc, sock, own, clients, loopVars>>
      /\ peer' \in [Clients -> {"away", "knocking", "on", "gone"}]
      /\ \A d \in Clients : peer[d] = "gone" => peer'[d] = "gone"
  BY <1>1 DEF Knock, Leave, Typed, HostType
<1> USE DEF bleVars, loopVars
<1>3. BleType' /\ LoopType' /\ HostType'
  BY <1>1, <1>2 DEF Typed, BleType, LoopType, HostType, Locals
<1>4. Owned' /\ Held'
  BY <1>2 DEF IInv, Inv, Owned, Names, Held, Holders
<1>5. Control' /\ Handle' /\ Turn'
  BY <1>1, <1>2 DEF IInv, Control, Handle, Turn
<1>6. Given'
  BY <1>2 DEF IInv, Inv, Owned, Given
<1>7. Truthful'
  BY <1>1, <1>2 DEF IInv, Truthful
<1>8. QED BY <1>3, <1>4, <1>5, <1>6, <1>7, TypePartsNext DEF IInv, Inv

LEMMA RfcommKeeps == IInv /\ (RfcommData \/ RfcommLost) => IInv'
<1> SUFFICES ASSUME IInv, RfcommData \/ RfcommLost PROVE IInv'
  OBVIOUS
<1>1. Typed /\ (BT \/ BLE) /\ ~(BT /\ BLE) /\ BT' = BT /\ BLE' = BLE
  BY TypedOf DEF BT, BLE, RfcommData, RfcommLost
<1>2. /\ UNCHANGED <<rule, bus, h, dpc, call, fd, cfg, running, disc, attempt, pc, sock,
                     hostVars, loopVars>>
      /\ sock # NoFd /\ rx' \in BOOLEAN
      /\ link' = link \/ link' = "down"
  BY <1>1 DEF RfcommData, RfcommLost, Typed, BleType
<1> USE DEF hostVars, loopVars
<1>3. BleType' /\ LoopType' /\ HostType'
  BY <1>1, <1>2 DEF Typed, BleType, LoopType, HostType, Locals
<1>4. Owned' /\ Held'
  BY <1>2 DEF IInv, Inv, Owned, Names, Held, Holders
<1>5. Control' /\ Handle' /\ Turn' /\ Given'
  BY <1>1, <1>2 DEF IInv, Control, Handle, Turn, Given
<1>6. Truthful'
  BY <1>1, <1>2 DEF IInv, Truthful
<1>7. QED BY <1>3, <1>4, <1>5, <1>6, TypePartsNext DEF IInv, Inv

LEMMA ConnectBtKeeps == IInv /\ ConnectBt => IInv'
<1> SUFFICES ASSUME IInv, ConnectBt PROVE IInv'
  OBVIOUS
<1>1. Typed /\ BT /\ ~BLE /\ BT' /\ ~BLE'
  BY TypedOf DEF BT, BLE, ConnectBt
<1>2. /\ pc = "connect" /\ sock = NoFd /\ attempt \in 0 .. MaxReconnects
      /\ UNCHANGED <<rule, bus, h, dpc, call, cfg, running, disc, hostVars, loopVars>>
  BY <1>1 DEF ConnectBt, IInv, Handle, Control, Typed, LoopType
<1>3. \/ /\ UNCHANGED <<link, fd, rx, sock>>
         /\ attempt' \in 1 .. MaxReconnects + 1
         /\ pc' \in {"attempt", "cleanup"}
         /\ pc' = "attempt" => attempt' <= MaxReconnects
      \/ /\ pc' = "init" /\ UNCHANGED attempt
         /\ sock' \in Fds /\ sock' # NoFd /\ fd[sock'] = "free" /\ fd'[sock'] = "rfcomm"
         /\ \A n \in Fds : n # sock' => fd'[n] = fd[n]
         /\ fd' \in [Fds -> FdKind] /\ link' = "up" /\ rx' = FALSE
  <2>1. CASE UNCHANGED <<link, fd, rx, sock>>
    BY <1>2, <2>1, AgainCounts DEF ConnectBt
  <2>2. CASE /\ ~Full(fd) /\ sock' = Lowest(fd) /\ fd' = Opened(fd, "rfcomm")
             /\ link' = "up" /\ rx' = FALSE
    <3>1. /\ sock' \in Fds /\ sock' # NoFd /\ fd[sock'] = "free" /\ fd'[sock'] = "rfcomm"
          /\ \A n \in Fds : n # sock' => fd'[n] = fd[n]
          /\ fd' \in [Fds -> FdKind]
      BY <1>1, <2>2, Opening DEF Typed, BleType, FdKind
    <3>2. QED BY <2>2, <3>1 DEF ConnectBt
  <2>3. QED BY <2>1, <2>2 DEF ConnectBt, BtConnect
<1>4. \A n \in Fds : fd[n] # "free" => fd'[n] = fd[n]
  BY <1>3
<1> USE DEF hostVars, loopVars
<1>5. BleType' /\ LoopType' /\ HostType'
  <2>1. BleType'
    <3>1. link' \in {"up", "down", "silent"} /\ rx' \in BOOLEAN /\ fd' \in [Fds -> FdKind]
      BY <1>1, <1>3 DEF Typed, BleType
    <3>2. QED BY <1>1, <1>2, <3>1 DEF Typed, BleType
  <2>2. attempt' \in 0 .. MaxReconnects + 1 /\ sock' \in Fds \cup {NoFd}
    BY <1>1, <1>3, BridgeAssumption DEF Typed, LoopType
  <2>3. LoopType'
    BY <1>1, <1>2, <1>3, <2>2 DEF Typed, LoopType
  <2>4. HostType'
    BY <1>1, <1>2 DEF Typed, HostType, Locals
  <2>5. QED BY <2>1, <2>3, <2>4
<1>6. Owned'
  <2>1. Names(h.pr, {"pipe_r"})' /\ (dpc # "closed" => Names(h.pw, {"pipe_w"}))'
    BY <1>1, <1>2, <1>4 DEF IInv, Inv, Owned, Names, Typed, BleType
  <2>2. Names(sock, {"rfcomm"})'
    BY <1>2, <1>3 DEF Names
  <2>3. \A n \in own' : fd'[n] \in {"listen", "pty", "slave"}
    BY <1>1, <1>2, <1>4 DEF IInv, Inv, Owned, Typed, HostType
  <2>4. \A n \in clients' \cup dead' : fd'[n] \in Clients
    BY <1>1, <1>2, <1>4, ClientKinds DEF IInv, Inv, Owned, Typed, HostType
  <2>5. QED BY <1>2, <1>3, <2>1, <2>2, <2>3, <2>4 DEF IInv, Inv, Owned
<1>7. Held'
  BY <1>2, <1>3, Numbers DEF IInv, Held, Holders
<1>8. Control' /\ Handle'
  BY <1>1, <1>2, <1>3 DEF IInv, Control, Handle, InSession, Loop
<1>9. Turn' /\ Given'
  BY <1>2, <1>3 DEF IInv, Turn, Given
<1>10. Truthful'
  BY <1>1, <1>2, <1>3 DEF IInv, Truthful, InSession, Loop
<1>11. QED BY <1>5, <1>6, <1>7, <1>8, <1>9, <1>10, TypePartsNext DEF IInv, Inv

LEMMA DisconnectKeeps == IInv /\ Disconnect => IInv'
<1> SUFFICES ASSUME IInv, Disconnect PROVE IInv'
  OBVIOUS
<1>1. Typed /\ (BT \/ BLE) /\ ~(BT /\ BLE) /\ BT' = BT /\ BLE' = BLE
  BY TypedOf DEF BT, BLE, Disconnect
<1>2. /\ pc = "down" /\ call = "idle"
      /\ UNCHANGED <<rule, bus, h, dpc, rx, cfg, running, disc, attempt, hostVars, loopVars>>
  BY DEF Disconnect, IInv, Control
<1>3. \/ BLE /\ call' = "stop" /\ pc' = "hangup" /\ UNCHANGED <<link, fd, sock>>
      \/ /\ BT /\ fd' = Closed(fd, sock) /\ sock' = NoFd
         /\ link' = "down" /\ pc' = "next" /\ UNCHANGED call
  BY <1>1 DEF Disconnect, BLE
<1>4. /\ fd' \in [Fds -> FdKind] /\ sock' \in Fds \cup {NoFd}
      /\ \A n \in Fds : n # sock => fd'[n] = fd[n]
      /\ sock' # NoFd => fd' = fd /\ sock' = sock
      /\ sock # NoFd => fd[sock] = "rfcomm" /\ (sock' = NoFd => fd'[sock] = "free")
  <2>1. fd \in [Fds -> FdKind] /\ sock \in Fds \cup {NoFd}
    BY <1>1 DEF Typed, BleType, LoopType
  <2>2. sock # NoFd => fd[sock] = "rfcomm"
    BY DEF IInv, Inv, Owned, Names
  <2>3. CASE BLE
    BY <1>1, <1>2, <1>3, <2>1, <2>2, <2>3 DEF IInv, Handle
  <2>4. CASE BT
    BY <1>1, <1>3, <2>1, <2>2, <2>4, Closing
  <2>5. QED BY <1>1, <2>3, <2>4
<1>5. \A n \in Fds : fd[n] # "rfcomm" => fd'[n] = fd[n]
  BY <1>4, Numbers
<1> USE DEF hostVars, loopVars
<1>6. BleType' /\ LoopType' /\ HostType'
  <2>1. link' \in {"up", "down", "silent"} /\ call' \in {"stop", "idle"}
    BY <1>1, <1>2, <1>3 DEF Typed, BleType
  <2>2. BleType'
    BY <1>1, <1>2, <1>4, <2>1 DEF Typed, BleType
  <2>3. LoopType'
    BY <1>1, <1>2, <1>3, <1>4 DEF Typed, LoopType
  <2>4. HostType'
    BY <1>1, <1>2 DEF Typed, HostType, Locals
  <2>5. QED BY <2>2, <2>3, <2>4
<1>7. Owned'
  <2>1. Names(h.pr, {"pipe_r"})' /\ (dpc # "closed" => Names(h.pw, {"pipe_w"}))'
    BY <1>1, <1>2, <1>5 DEF IInv, Inv, Owned, Names, Typed, BleType
  <2>2. Names(sock, {"rfcomm"})'
    BY <1>4 DEF Names
  <2>3. \A n \in own' : fd'[n] \in {"listen", "pty", "slave"}
    BY <1>1, <1>2, <1>5 DEF IInv, Inv, Owned, Typed, HostType
  <2>4. \A n \in clients' \cup dead' : fd'[n] \in Clients
    BY <1>1, <1>2, <1>5, ClientKinds DEF IInv, Inv, Owned, Typed, HostType
  <2>5. QED BY <1>2, <1>3, <2>1, <2>2, <2>3, <2>4 DEF IInv, Inv, Owned
<1>8. Held'
  BY <1>2, <1>4, Numbers DEF IInv, Held, Holders
<1>9. Control' /\ Handle'
  <2>1. Control'
    BY <1>1, <1>2, <1>3 DEF IInv, Control
  <2>2. Handle'
    BY <1>1, <1>2, <1>3 DEF IInv, Handle, InSession, Loop, Dialing, NoHandle
  <2>3. QED BY <2>1, <2>2
<1>10. Turn' /\ Given' /\ Truthful'
  BY <1>1, <1>2, <1>3 DEF IInv, Turn, Given, Truthful, InSession, Loop, Dialing
<1>11. QED BY <1>6, <1>7, <1>8, <1>9, <1>10, TypePartsNext DEF IInv, Inv

LEMMA CleanupKeeps == IInv /\ Cleanup => IInv'
<1> SUFFICES ASSUME IInv, Cleanup PROVE IInv'
  OBVIOUS
<1>1. Typed /\ BT' = BT /\ BLE' = BLE
  BY TypedOf DEF BT, BLE, Cleanup
<1>2. /\ pc = "cleanup" /\ pc' = "exit" /\ own' = {} /\ clients' = {}
      /\ UNCHANGED <<link, rule, bus, h, dpc, call, rx, cfg, running, disc, attempt, sock, loopVars>>
      /\ ~h.live /\ h = NoHandle /\ sock = NoFd /\ dead = {}
  BY DEF Cleanup, IInv, Handle, Turn
<1>3. /\ fd' \in [Fds -> FdKind] /\ peer' \in [Clients -> {"away", "knocking", "on", "gone"}]
      /\ \A n \in Fds : fd'[n] = IF n \in own \cup clients THEN "free" ELSE fd[n]
  BY <1>1 DEF Cleanup, Typed, BleType, HostType, FdKind
<1>4. h.pr = NoFd /\ h.pw = NoFd
  BY <1>2 DEF NoHandle
<1> USE DEF loopVars
<1>5. BleType' /\ LoopType' /\ HostType'
  <2>1. BleType'
    BY <1>1, <1>2, <1>3 DEF Typed, BleType
  <2>2. LoopType'
    BY <1>1, <1>2 DEF Typed, LoopType
  <2>3. HostType'
    BY <1>1, <1>2, <1>3 DEF Typed, HostType, Locals
  <2>4. QED BY <2>1, <2>2, <2>3
<1>6. Owned' /\ Held'
  <2>1. Owned'
    BY <1>2, <1>4 DEF IInv, Inv, Owned, Names
  <2>2. Held'
    BY <1>2, <1>3, <1>4, Numbers DEF IInv, Held, Holders
  <2>3. QED BY <2>1, <2>2
<1>7. Control' /\ Handle'
  BY <1>1, <1>2 DEF IInv, Control, Handle, InSession, Loop
<1>8. Turn' /\ Given' /\ Truthful'
  BY <1>1, <1>2 DEF IInv, Control, Turn, Given, Truthful, InSession, Loop, Dialing
<1>9. QED BY <1>5, <1>6, <1>7, <1>8, TypePartsNext DEF IInv, Inv

-----------------------------------------------------------------------------
(* The BLE transport: while run_session is inside ble_connect and          *)
(* ble_disconnect, and the dispatch thread beside it                       *)

sessionVars == <<cfg, running, disc, attempt, pc, sock, hostVars, loopVars>>

\* What a step of the transport leaves alone, and what it must see to.
LEMMA TransportKeeps ==
    ASSUME IInv, UNCHANGED sessionVars, BleType',
           \A n \in Fds : fd[n] \notin {"pipe_r", "pipe_w", "free"} => fd'[n] = fd[n],
           Names(h.pr, {"pipe_r"})',
           (dpc # "closed" => Names(h.pw, {"pipe_w"}))', (dpc # "off" => h.live)',
           Held', Control', Handle', Truthful',
           pc \in {"select", "accept", "reads", "drop", "pty", "rx"} =>
               h'.pr = h.pr /\ \A n \in Fds : fd[n] = "free" => fd'[n] = "free"
    PROVE  IInv'
<1>1. Typed /\ (BT \/ BLE) /\ ~(BT /\ BLE) /\ BT' = BT /\ BLE' = BLE
  BY TypedOf DEF BT, BLE, sessionVars
<1> USE DEF sessionVars, hostVars, loopVars
<1>2. LoopType' /\ HostType'
  BY <1>1 DEF Typed, LoopType, HostType, Locals
<1>3. Owned'
  <2>1. Names(sock, {"rfcomm"})'
    BY <1>1 DEF IInv, Inv, Owned, Names, Typed, LoopType
  <2>2. \A n \in own' : fd'[n] \in {"listen", "pty", "slave"}
    BY <1>1 DEF IInv, Inv, Owned, Typed, HostType
  <2>3. \A n \in clients' \cup dead' : fd'[n] \in Clients
    BY <1>1, ClientKinds DEF IInv, Inv, Owned, Typed, HostType
  <2>4. pc' \in {"accept", "reads", "drop", "pty", "rx"} =>
           Names(seen.tfd, {"pipe_r", "rfcomm", "free"})'
    <3>1. SUFFICES ASSUME pc \in {"accept", "reads", "drop", "pty", "rx"}, seen.tfd # NoFd
                   PROVE  fd'[seen.tfd] \in {"pipe_r", "rfcomm", "free"}
      BY DEF Names
    <3>2. CASE BLE
      BY <1>1, <3>1, <3>2 DEF IInv, Turn, Names
    <3>3. CASE BT
      <4>1. seen.tfd = sock \/ fd[seen.tfd] = "free"
        BY <3>1, <3>3 DEF IInv, Turn
      <4>2. seen.tfd \in Fds
        BY <1>1, <3>1 DEF Typed, HostType, Locals
      <4>3. QED BY <2>1, <3>1, <4>1, <4>2 DEF Names
    <3>4. QED BY <1>1, <3>2, <3>3
  <2>5. QED BY <2>1, <2>2, <2>3, <2>4 DEF Owned
<1>4. Turn'
  BY <1>1 DEF IInv, Turn, Typed, HostType, Locals
<1>5. Given'
  BY <1>1, ClientKinds DEF IInv, Inv, Owned, Given, Typed, HostType
<1>6. QED BY <1>2, <1>3, <1>4, <1>5, TypePartsNext DEF IInv, Inv

LEMMA DialKeeps ==
    IInv /\ Ble(BleNotFound \/ ClearStale \/ BleDial \/ ServicesResolved \/ BleGiveUp) => IInv'
<1> SUFFICES ASSUME IInv, UNCHANGED sessionVars,
                    BleNotFound \/ ClearStale \/ BleDial \/ ServicesResolved \/ BleGiveUp
             PROVE  IInv'
  BY DEF Ble, sessionVars
<1>1. Typed /\ (BT \/ BLE) /\ ~(BT /\ BLE) /\ BT' = BT /\ BLE' = BLE
  BY TypedOf DEF BT, BLE, sessionVars
<1>2. /\ UNCHANGED <<rule, h, dpc, fd, rx>>
      /\ call \in {"stale", "connect", "resolve", "handle"}
      /\ call' \in {"connect", "resolve", "handle", "none"}
      /\ link' \in {"up", "down", "silent"} /\ bus' \in {bus, Announced(link)}
  BY <1>1 DEF BleNotFound, ClearStale, BleDial, ServicesResolved, BleGiveUp, Hangup, Typed, BleType
<1>3. bus' \in Seq({"data", "down"}) /\ (~rule => bus' = bus)
  BY <1>1, <1>2 DEF Announced, Typed, BleType
<1>4. pc = "dial" /\ BLE
  BY <1>2 DEF IInv, Control
<1> USE DEF sessionVars
<1>5. BleType'
  BY <1>1, <1>2, <1>3 DEF Typed, BleType
<1>6. Held'
  BY <1>2 DEF IInv, Held, Holders, hostVars
<1>7. Control' /\ Handle'
  BY <1>1, <1>2, <1>4 DEF IInv, Control, Handle, InSession, Loop, Dialing
<1>8. Truthful'
  BY <1>1, <1>2, <1>3, <1>4 DEF IInv, Truthful, InSession, Loop, Dialing
<1>9. /\ Names(h.pr, {"pipe_r"})'
      /\ (dpc # "closed" => Names(h.pw, {"pipe_w"}))' /\ (dpc # "off" => h.live)'
  BY <1>2 DEF IInv, Inv, Owned, Names
<1>10. QED BY <1>2, <1>4, <1>5, <1>6, <1>7, <1>8, <1>9, TransportKeeps

LEMMA MakeHandleKeeps == IInv /\ Ble(MakeHandle) => IInv'
<1> SUFFICES ASSUME IInv, UNCHANGED sessionVars, MakeHandle PROVE IInv'
  BY DEF Ble, sessionVars
<1>1. Typed /\ (BT \/ BLE) /\ ~(BT /\ BLE) /\ BT' = BT /\ BLE' = BLE
  BY TypedOf DEF BT, BLE, sessionVars
<1> DEFINE f == Opened(fd, "pipe_r")
           r == Lowest(fd)
           w == Lowest(f)
<1>2. /\ call = "handle" /\ call' = "settle" /\ rule' = TRUE /\ rx' = FALSE
      /\ ~Full(fd) /\ ~Full(f) /\ fd' = Opened(f, "pipe_w")
      /\ h' = [NoHandle EXCEPT !.live = TRUE, !.pr = r, !.pw = w]
      /\ UNCHANGED <<link, bus, dpc>>
  BY DEF MakeHandle
<1>3. pc = "dial" /\ BLE /\ ~h.live /\ h = NoHandle /\ dpc = "off" /\ sock = NoFd /\ ~disc
  BY <1>1, <1>2 DEF IInv, Inv, Control, Handle, Owned, Truthful, Dialing
<1>4. /\ f \in [Fds -> FdKind] /\ r \in Fds /\ r # NoFd /\ fd[r] = "free" /\ f[r] = "pipe_r"
      /\ \A n \in Fds : n # r => f[n] = fd[n]
  BY <1>1, <1>2, Opening DEF Typed, BleType, FdKind
<1>5. /\ fd' \in [Fds -> FdKind] /\ w \in Fds /\ w # NoFd /\ f[w] = "free" /\ fd'[w] = "pipe_w"
      /\ \A n \in Fds : n # w => fd'[n] = f[n]
  <2>1. "pipe_w" \in FdKind
    BY DEF FdKind
  <2> HIDE DEF f
  <2>2. QED BY <1>2, <1>4, <2>1, Opening
<1> HIDE DEF f, r, w
<1>6. h' = [live |-> TRUE, conn |-> FALSE, stop |-> FALSE, pr |-> r, pw |-> w]
  BY <1>2 DEF NoHandle
<1>7. r # w /\ fd'[r] = "pipe_r" /\ \A n \in Fds : fd[n] # "free" => fd'[n] = fd[n]
  BY <1>4, <1>5
<1> USE DEF sessionVars
<1>8. BleType'
  <2>1. h' \in [live : BOOLEAN, conn : BOOLEAN, stop : BOOLEAN,
                pr : Fds \cup {NoFd}, pw : Fds \cup {NoFd}]
    BY <1>4, <1>5, <1>6
  <2>2. QED BY <1>1, <1>2, <1>5, <2>1 DEF Typed, BleType
<1>9. Held'
  <2>1. h.pr = NoFd /\ h.pw = NoFd
    BY <1>3 DEF NoHandle
  <2>2. h'.pr = r /\ h'.pw = w /\ dpc' = "off"
    BY <1>2, <1>3, <1>6
  <2>3. QED BY <1>3, <1>4, <1>5, <2>1, <2>2, Numbers DEF IInv, Held, Holders, hostVars
<1>10. Control' /\ Handle'
  <2>1. Control'
    BY <1>1, <1>2, <1>3 DEF IInv, Control
  <2>2. h'.live /\ h'.pr # NoFd /\ ~h'.conn /\ dpc' = "off"
    <3>1. h'.live /\ h'.pr # NoFd /\ ~h'.conn
      BY <1>4, <1>6
    <3>2. dpc' = "off"
      BY <1>2, <1>3
    <3>3. QED BY <3>1, <3>2
  <2>3. pc' = "dial" /\ call' = "settle" /\ ~BT' /\ sock' = NoFd
    BY <1>1, <1>2, <1>3
  <2>4. Handle'
    BY <2>2, <2>3 DEF Handle, InSession, Loop, Dialing
  <2>5. QED BY <2>1, <2>4
<1>11. Truthful'
  <2>1. attempt = 0 => bus = <<>>
    BY <1>2, <1>3 DEF IInv, Truthful, Dialing
  <2>2. QED BY <1>1, <1>2, <1>3, <1>5, <1>6, <2>1 DEF IInv, Truthful, InSession, Loop, Dialing
<1>12. /\ Names(h.pr, {"pipe_r"})'
       /\ (dpc # "closed" => Names(h.pw, {"pipe_w"}))' /\ (dpc # "off" => h.live)'
  BY <1>5, <1>6, <1>7 DEF Names
<1>13. QED BY <1>3, <1>7, <1>8, <1>9, <1>10, <1>11, <1>12, TransportKeeps

\* StartDispatch and StopDispatch, which write one field of the handle.
LEMMA TellKeeps == IInv /\ Ble(StartDispatch \/ StopDispatch) => IInv'
<1> SUFFICES ASSUME IInv, UNCHANGED sessionVars, StartDispatch \/ StopDispatch PROVE IInv'
  BY DEF Ble, sessionVars
<1>1. Typed /\ (BT \/ BLE) /\ ~(BT /\ BLE) /\ BT' = BT /\ BLE' = BLE
  BY TypedOf DEF BT, BLE, sessionVars
<1>2. h \in [live : BOOLEAN, conn : BOOLEAN, stop : BOOLEAN,
             pr : Fds \cup {NoFd}, pw : Fds \cup {NoFd}]
  BY <1>1 DEF Typed, BleType
<1>3. /\ UNCHANGED <<link, rule, bus, fd, rx>>
      /\ h' \in [live : BOOLEAN, conn : BOOLEAN, stop : BOOLEAN,
                 pr : Fds \cup {NoFd}, pw : Fds \cup {NoFd}]
      /\ h'.live = h.live /\ h'.pr = h.pr /\ h'.pw = h.pw
      /\ \/ /\ call = "settle" /\ call' = "ok" /\ dpc' = "top" /\ h'.conn
         \/ call = "stop" /\ call' = "join" /\ UNCHANGED dpc /\ h'.conn = h.conn
  BY <1>2 DEF StartDispatch, StopDispatch, StopTold
<1>4. /\ h.live /\ BLE
      /\ call = "settle" => pc = "dial" /\ dpc = "off"
      /\ call = "stop" => pc = "hangup"
  BY <1>3 DEF IInv, Control, Handle, Dialing
<1> USE DEF sessionVars
<1>5. BleType'
  BY <1>1, <1>3 DEF Typed, BleType
<1>6. Held'
  BY <1>3, <1>4 DEF IInv, Held, Holders, hostVars
<1>7. Control' /\ Handle'
  <2>1. Control'
    BY <1>1, <1>3, <1>4 DEF IInv, Control
  <2>2. Handle'
    BY <1>1, <1>3, <1>4 DEF IInv, Handle, InSession, Loop, Dialing
  <2>3. QED BY <2>1, <2>2
<1>8. Truthful'
  BY <1>1, <1>3, <1>4 DEF IInv, Truthful, InSession, Loop, Dialing
<1>9. /\ Names(h.pr, {"pipe_r"})'
      /\ (dpc # "closed" => Names(h.pw, {"pipe_w"}))' /\ (dpc # "off" => h.live)'
  BY <1>3, <1>4 DEF IInv, Inv, Owned, Names
<1>10. QED BY <1>3, <1>5, <1>6, <1>7, <1>8, <1>9, TransportKeeps

LEMMA FreeHandleKeeps == IInv /\ Ble(FreeHandle) => IInv'
<1> SUFFICES ASSUME IInv, UNCHANGED sessionVars, FreeHandle PROVE IInv'
  BY DEF Ble, sessionVars
<1>1. Typed /\ (BT \/ BLE) /\ ~(BT /\ BLE) /\ BT' = BT /\ BLE' = BLE
  BY TypedOf DEF BT, BLE, sessionVars
<1>2. /\ call = "join" /\ dpc = "off" /\ fd' = Closed(Closed(fd, h.pr), h.pw)
      /\ h' = NoHandle /\ call' = "idle" /\ UNCHANGED <<rule, dpc, rx>>
      /\ link' \in {link, "down"} /\ bus' \in {bus, Announced(link)}
  BY DEF FreeHandle, Joined, PipeClosed, Hangup
<1>3. pc = "hangup" /\ BLE /\ sock = NoFd
  BY <1>1, <1>2 DEF IInv, Control, Handle
<1>4. h.pr \in Fds \cup {NoFd} /\ h.pw \in Fds \cup {NoFd}
  BY <1>1 DEF Typed, BleType
<1>5. /\ fd' \in [Fds -> FdKind]
      /\ h.pr # NoFd => fd'[h.pr] = "free"
      /\ h.pw # NoFd => fd'[h.pw] = "free"
      /\ \A n \in Fds : n # h.pr /\ n # h.pw => fd'[n] = fd[n]
  BY <1>1, <1>2, <1>4, ClosingBoth DEF Typed, BleType
<1>6. \A n \in Fds : fd[n] \notin {"pipe_r", "pipe_w"} => fd'[n] = fd[n]
  BY <1>2, <1>4, <1>5, Numbers DEF IInv, Inv, Owned, Names
<1> USE DEF sessionVars
<1>7. BleType'
  <2>1. h' \in [live : BOOLEAN, conn : BOOLEAN, stop : BOOLEAN,
                pr : Fds \cup {NoFd}, pw : Fds \cup {NoFd}]
    BY <1>2 DEF NoHandle
  <2>2. link' \in {"up", "down", "silent"} /\ bus' \in Seq({"data", "down"})
    BY <1>1, <1>2 DEF Typed, BleType, Announced
  <2>3. QED BY <1>1, <1>2, <1>5, <2>1, <2>2 DEF Typed, BleType
<1>8. h'.pr = NoFd /\ h'.pw = NoFd /\ ~h'.live /\ ~h'.conn
  BY <1>2 DEF NoHandle
<1>9. Held'
  BY <1>2, <1>3, <1>4, <1>5, <1>8, Numbers DEF IInv, Held, Holders, hostVars
<1>10. Control' /\ Handle'
  <2>1. Control'
    BY <1>1, <1>2, <1>3 DEF IInv, Control
  <2>2. Handle'
    BY <1>1, <1>2, <1>3, <1>8 DEF IInv, Handle, InSession, Loop, Dialing
  <2>3. QED BY <2>1, <2>2
<1>11. Truthful'
  BY <1>1, <1>2, <1>3 DEF IInv, Truthful, InSession, Loop, Dialing
<1>12. /\ Names(h.pr, {"pipe_r"})'
       /\ (dpc # "closed" => Names(h.pw, {"pipe_w"}))' /\ (dpc # "off" => h.live)'
  BY <1>2, <1>8 DEF Names
<1>13. QED BY <1>3, <1>6, <1>7, <1>9, <1>10, <1>11, <1>12, TransportKeeps

\* Everything of the dispatch thread but the news of a lost link.
LEMMA DispatchKeeps ==
    IInv /\ Ble(DispatchLoop \/ DispatchNothing \/ notify_filter \/ ForgetPipe) => IInv'
<1> SUFFICES ASSUME IInv, UNCHANGED sessionVars,
                    DispatchLoop \/ DispatchNothing \/ notify_filter \/ ForgetPipe
             PROVE  IInv'
  BY DEF Ble, sessionVars
<1>1. Typed /\ (BT \/ BLE) /\ ~(BT /\ BLE) /\ BT' = BT /\ BLE' = BLE
  BY TypedOf DEF BT, BLE, sessionVars
<1>2. h \in [live : BOOLEAN, conn : BOOLEAN, stop : BOOLEAN,
             pr : Fds \cup {NoFd}, pw : Fds \cup {NoFd}]
      /\ bus \in Seq({"data", "down"})
  BY <1>1 DEF Typed, BleType
<1>3. /\ UNCHANGED <<link, rule, call, fd>> /\ rx' \in BOOLEAN
      /\ dpc \in {"top", "in", "closed"} /\ dpc' \in {"off", "top", "in"}
      /\ h' \in [live : BOOLEAN, conn : BOOLEAN, stop : BOOLEAN,
                 pr : Fds \cup {NoFd}, pw : Fds \cup {NoFd}]
      /\ h'.live = h.live /\ h'.pr = h.pr /\ h'.conn = h.conn
      /\ \/ h' = h /\ dpc # "closed"
         \/ h'.pw = NoFd /\ dpc = "closed"
      /\ bus' = bus \/ (bus # <<>> /\ bus' = Tail(bus))
  BY <1>1, <1>2 DEF DispatchLoop, DispatchNothing, notify_filter, ForgetPipe, Typed, BleType
<1>4. h.live /\ BLE /\ call \notin Dialing /\ call # "settle"
  BY <1>1, <1>3 DEF IInv, Inv, Owned, Handle, Control, NoHandle
<1>5. bus' \in Seq({"data", "down"})
      /\ ((\A i \in DOMAIN bus : bus[i] # "down") => \A i \in DOMAIN bus' : bus'[i] # "down")
  <2>1. CASE bus' = bus
    BY <1>2, <2>1
  <2>2. CASE bus # <<>> /\ bus' = Tail(bus)
    <3>1. /\ bus' \in Seq({"data", "down"})
          /\ \A i \in DOMAIN bus' : i + 1 \in DOMAIN bus /\ bus'[i] = bus[i + 1]
      BY <1>2, <2>2
    <3>2. QED BY <3>1
  <2>3. QED BY <1>3, <2>1, <2>2
<1> USE DEF sessionVars
<1>6. BleType'
  BY <1>1, <1>3, <1>5 DEF Typed, BleType
<1>7. Held'
  BY <1>3, Numbers DEF IInv, Held, Holders, hostVars
<1>8. Control' /\ Handle'
  <2>1. Control'
    BY <1>1, <1>3 DEF IInv, Control
  <2>2. Handle'
    BY <1>1, <1>3, <1>4 DEF IInv, Handle, InSession, Loop, Dialing
  <2>3. QED BY <2>1, <2>2
<1>9. Truthful'
  <2>1. pc \notin {"attempt", "connect"}
    BY <1>4 DEF IInv, Handle
  <2>2. QED BY <1>1, <1>3, <1>4, <1>5, <2>1 DEF IInv, Truthful
<1>10. /\ Names(h.pr, {"pipe_r"})'
       /\ (dpc # "closed" => Names(h.pw, {"pipe_w"}))' /\ (dpc # "off" => h.live)'
  BY <1>3, <1>4 DEF IInv, Inv, Owned, Names
<1>11. QED BY <1>3, <1>6, <1>7, <1>8, <1>9, <1>10, TransportKeeps

LEMMA LossKeeps == IInv /\ Ble(disconnect_filter) => IInv'
<1> SUFFICES ASSUME IInv, UNCHANGED sessionVars, disconnect_filter PROVE IInv'
  BY DEF Ble, sessionVars
<1>1. Typed /\ (BT \/ BLE) /\ ~(BT /\ BLE) /\ BT' = BT /\ BLE' = BLE
  BY TypedOf DEF BT, BLE, sessionVars
<1>2. h \in [live : BOOLEAN, conn : BOOLEAN, stop : BOOLEAN,
             pr : Fds \cup {NoFd}, pw : Fds \cup {NoFd}]
      /\ bus \in Seq({"data", "down"})
  BY <1>1 DEF Typed, BleType
<1>3. /\ UNCHANGED <<link, rule, call, rx>>
      /\ dpc = "in" /\ dpc' = IF h.pw = NoFd THEN "top" ELSE "closed"
      /\ h' = [h EXCEPT !.conn = FALSE]
      /\ bus # <<>> /\ Head(bus) = "down" /\ bus' = Tail(bus)
  BY DEF disconnect_filter, DownHeard
<1>4. /\ h' \in [live : BOOLEAN, conn : BOOLEAN, stop : BOOLEAN,
                 pr : Fds \cup {NoFd}, pw : Fds \cup {NoFd}]
      /\ h'.live = h.live /\ h'.pr = h.pr /\ h'.pw = h.pw /\ ~h'.conn
  BY <1>2, <1>3
<1>5. /\ fd' \in [Fds -> FdKind]
      /\ h.pw # NoFd => fd'[h.pw] = "free"
      /\ \A n \in Fds : n # h.pw => fd'[n] = fd[n]
  BY <1>1, <1>2, Closing DEF disconnect_filter, DownHeard, Typed, BleType
<1>6. \A n \in Fds : fd[n] # "pipe_w" => fd'[n] = fd[n]
  BY <1>2, <1>3, <1>5, Numbers DEF IInv, Inv, Owned, Names
<1>7. h.live /\ BLE /\ call \notin Dialing /\ call # "settle"
  BY <1>1, <1>3 DEF IInv, Inv, Owned, Handle, Control, NoHandle
<1>8. bus' \in Seq({"data", "down"}) /\ 1 \in DOMAIN bus /\ bus[1] = "down"
  BY <1>2, <1>3
<1> USE DEF sessionVars
<1>9. BleType'
  BY <1>1, <1>3, <1>4, <1>5, <1>8 DEF Typed, BleType
<1>10. Held'
  <2>1. dpc' = "closed" \/ h.pw = NoFd
    BY <1>3
  <2>2. QED BY <1>3, <1>4, <1>5, <2>1, Numbers DEF IInv, Held, Holders, hostVars
<1>11. Control' /\ Handle'
  <2>1. Control'
    BY <1>1, <1>3 DEF IInv, Control
  <2>2. Handle'
    BY <1>1, <1>3, <1>4, <1>7 DEF IInv, Handle, InSession, Loop, Dialing
  <2>3. QED BY <2>1, <2>2
<1>12. Truthful'
  <2>1. pc \notin {"attempt", "connect"}
    BY <1>7 DEF IInv, Handle
  <2>2. attempt = 0 /\ (pc \in InSession \/ call \in {"settle", "ok"}) => link # "up"
    BY <1>7, <1>8 DEF IInv, Truthful
  <2>3. QED BY <1>1, <1>3, <1>7, <2>1, <2>2 DEF IInv, Truthful
<1>13. Names(h.pr, {"pipe_r"})'
  BY <1>2, <1>4, <1>6 DEF IInv, Inv, Owned, Names
<1>14. (dpc # "closed" => Names(h.pw, {"pipe_w"}))' /\ (dpc # "off" => h.live)'
  BY <1>3, <1>4, <1>7 DEF Names
<1>15. \A n \in Fds : fd[n] = "free" => fd'[n] = "free"
  BY <1>6
<1>16. \A n \in Fds : fd[n] \notin {"pipe_r", "pipe_w", "free"} => fd'[n] = fd[n]
  BY <1>6
<1>17. QED BY <1>4, <1>9, <1>10, <1>11, <1>12, <1>13, <1>14, <1>15, <1>16, TransportKeeps

\* The radio loses the link, or brings data.
LEMMA RadioKeeps == IInv /\ BLE /\ UNCHANGED sessionVars /\ (DropLink \/ Notify) => IInv'
<1> SUFFICES ASSUME IInv, BLE, UNCHANGED sessionVars, DropLink \/ Notify PROVE IInv'
  OBVIOUS
<1>1. Typed /\ ~BT /\ BT' = BT /\ BLE' = BLE
  BY TypedOf DEF BT, BLE, sessionVars
<1>2. /\ UNCHANGED <<rule, h, dpc, call, fd, rx>> /\ link = "up"
      /\ link' \in {"up", "down", "silent"}
      /\ \/ link' # "up" /\ bus' \in {bus, Append(bus, "down")} /\ (~rule => bus' = bus)
         \/ link' = link /\ rule /\ bus' = Append(bus, "data")
  BY <1>1 DEF DropLink, Notify, Announced
<1>3. bus \in Seq({"data", "down"})
  BY <1>1 DEF Typed, BleType
<1>4. bus' \in Seq({"data", "down"})
  BY <1>2, <1>3
<1>5. link' = "up" =>
         ((\A i \in DOMAIN bus : bus[i] # "down") => \A i \in DOMAIN bus' : bus'[i] # "down")
  BY <1>2, <1>3
<1> USE DEF sessionVars
<1>6. BleType'
  BY <1>1, <1>2, <1>4 DEF Typed, BleType
<1>7. Held'
  BY <1>2 DEF IInv, Held, Holders, hostVars
<1>8. Control' /\ Handle'
  BY <1>1, <1>2 DEF IInv, Control, Handle
<1>9. Truthful'
  <2>1. attempt = 0 /\ (pc \in {"attempt", "connect"} \/ call \in Dialing) => ~rule /\ bus = <<>>
    BY DEF IInv, Truthful
  <2>2. attempt = 0 /\ (pc \in {"attempt", "connect"} \/ call \in Dialing) => ~rule' /\ bus' = <<>>
    BY <1>2, <2>1
  <2>3. QED BY <1>1, <1>2, <1>5, <2>2 DEF IInv, Truthful
<1>10. /\ Names(h.pr, {"pipe_r"})'
       /\ (dpc # "closed" => Names(h.pw, {"pipe_w"}))' /\ (dpc # "off" => h.live)'
  BY <1>2 DEF IInv, Inv, Owned, Names
<1>11. QED BY <1>2, <1>6, <1>7, <1>8, <1>9, <1>10, TransportKeeps

-----------------------------------------------------------------------------
(* The theorems                                                            *)

LEMMA HostsOf ==
    ASSUME NEW mode \in Modes, NEW hosts \in Hosts(mode)
    PROVE  /\ hosts \in Seq({"listen", "pty", "slave"})
           /\ DOMAIN hosts = 1 .. Len(hosts) /\ Len(hosts) \in 0 .. 2
<1>1. mode \in {"pty", "tcp", "test"}
  BY BridgeAssumption
<1>2. hosts = <<"pty", "slave">> \/ hosts = <<"listen">> \/ hosts = <<>>
  BY <1>1 DEF Hosts
<1>3. CASE hosts = <<"pty", "slave">>
  <2>1. hosts \in Seq({"listen", "pty", "slave"}) /\ Len(hosts) = 2
    BY <1>3
  <2>2. QED BY <2>1
<1>4. CASE hosts = <<"listen">>
  <2>1. hosts \in Seq({"listen", "pty", "slave"}) /\ Len(hosts) = 1
    BY <1>4
  <2>2. QED BY <2>1
<1>5. CASE hosts = <<>>
  BY <1>5
<1>6. QED BY <1>2, <1>3, <1>4, <1>5

LEMMA InitIInv == Init => IInv
<1> SUFFICES ASSUME Init PROVE IInv
  OBVIOUS
<1>0. PICK kind \in Kinds, mode \in Modes : \E hosts \in Hosts(mode) :
         /\ cfg = [kind |-> kind, mode |-> mode]
         /\ fd = [n \in Fds |-> IF n <= Len(hosts) THEN hosts[n] ELSE "free"]
         /\ own = DOMAIN hosts
         /\ link \in IF kind = "BLE" THEN {"up", "down"} ELSE {"down"}
  BY DEF Init
<1>1. PICK hosts \in Hosts(mode) :
         /\ cfg = [kind |-> kind, mode |-> mode]
         /\ fd = [n \in Fds |-> IF n <= Len(hosts) THEN hosts[n] ELSE "free"]
         /\ own = DOMAIN hosts
         /\ link \in IF kind = "BLE" THEN {"up", "down"} ELSE {"down"}
  BY <1>0
<1>2. /\ rule = FALSE /\ bus = <<>> /\ h = NoHandle /\ dpc = "off" /\ call = "idle" /\ rx = FALSE
      /\ running = TRUE /\ disc = FALSE /\ attempt = 0 /\ pc = "attempt"
      /\ sock = NoFd /\ clients = {} /\ peer = [c \in Clients |-> "away"]
      /\ seen = NoLook /\ todo = {} /\ dead = {}
  BY DEF Init
<1>3. /\ hosts \in Seq({"listen", "pty", "slave"})
      /\ own = 1 .. Len(hosts) /\ Len(hosts) \in 0 .. 2
  BY <1>1, HostsOf
<1>4. own \subseteq Fds
  <2>1. MaxFd \in Nat /\ MaxFd >= 2
    BY FdAssumption
  <2>2. PICK k \in 0 .. 2 : own = 1 .. k
    BY <1>3
  <2>3. QED BY <2>1, <2>2 DEF Fds
<1>5. fd \in [Fds -> FdKind] /\ \A n \in Fds : (n \in own => fd[n] \in {"listen", "pty", "slave"})
                                             /\ (n \notin own => fd[n] = "free")
  <2>1. \A n \in Fds : n <= Len(hosts) <=> n \in own
    BY <1>3, FdAssumption DEF Fds
  <2>2. \A n \in own : hosts[n] \in {"listen", "pty", "slave"}
    BY <1>3
  <2>3. \A n \in Fds : fd[n] = IF n \in own THEN hosts[n] ELSE "free"
    BY <1>1, <2>1
  <2>4. fd \in [Fds -> FdKind]
    BY <1>1, <2>1, <2>2 DEF FdKind
  <2>5. QED BY <2>2, <2>3, <2>4
<1>6. BleType
  <2>1. link \in {"up", "down", "silent"}
    BY <1>1
  <2>2. bus \in Seq({"data", "down"})
    BY <1>2
  <2>3. h \in [live : BOOLEAN, conn : BOOLEAN, stop : BOOLEAN,
               pr : Fds \cup {NoFd}, pw : Fds \cup {NoFd}]
    BY <1>2 DEF NoHandle
  <2>4. QED BY <1>2, <1>5, <2>1, <2>2, <2>3 DEF BleType
<1>7. LoopType
  <2>1. 0 \in 0 .. MaxReconnects + 1
    BY BridgeAssumption
  <2>2. QED BY <1>2, <2>1 DEF LoopType
<1>8. HostType
  BY <1>1, <1>2, <1>4 DEF HostType, Locals, NoLook
<1>9. Owned
  BY <1>2, <1>4, <1>5 DEF Owned, Names, NoHandle, NoFd
<1>10. Held
  BY <1>5 DEF Held, Holders
<1>11. Control
  BY <1>2, BridgeAssumption DEF Control
<1>12. Handle
  BY <1>2 DEF Handle, NoHandle, InSession, Loop, Dialing
<1>13. Turn /\ Given
  BY <1>2 DEF Turn, Given
<1>14. Truthful
  BY <1>2 DEF Truthful, InSession, Loop, Dialing
<1>15. QED BY <1>6, <1>7, <1>8, <1>9, <1>10, <1>11, <1>12, <1>13, <1>14, TypeParts DEF IInv, Inv

LEMMA NextIInv == IInv /\ [Next]_vars => IInv'
<1> SUFFICES ASSUME IInv, [Next]_vars PROVE IInv'
  OBVIOUS
<1>1. CASE Session
  BY <1>1, ReconnectKeeps, TurnKeeps, WritersKeep, ClosersKeep, RxEndKeeps, AcceptKeeps,
     ConnectBtKeeps, DisconnectKeeps, CleanupKeeps DEF Session
<1>2. CASE Ble(BleMain)
  BY <1>2, DialKeeps, MakeHandleKeeps, TellKeeps, FreeHandleKeeps DEF BleMain, Ble
<1>3. CASE Ble(Dispatch)
  BY <1>3, DispatchKeeps, LossKeeps DEF Dispatch, Ble
<1>4. CASE Outside
  BY <1>4, HostsKeep, RfcommKeeps, TurnKeeps, RadioKeeps DEF Outside, BLE, sessionVars
<1>5. CASE UNCHANGED vars
  <2>1. Typed' /\ Owned' /\ Held' /\ Control' /\ Handle'
    BY <1>5, TypedOf DEF vars, bleVars, hostVars, loopVars, IInv, Inv, Typed, BleType, LoopType,
       HostType, Locals, Owned, Names, Held, Holders, Control, Handle, BT, BLE
  <2>2. Turn' /\ Given' /\ Truthful'
    BY <1>5 DEF vars, bleVars, hostVars, loopVars, IInv, Turn, Given, Truthful, BT, BLE
  <2>3. QED BY <2>1, <2>2, TypePartsNext DEF IInv, Inv, Typed
<1>6. QED BY <1>1, <1>2, <1>3, <1>4, <1>5 DEF Next, Stopped

\* The inductive invariant holds in every reachable state.
THEOREM Invariance == Spec => []IInv
<1>1. QED BY InitIInv, NextIInv, PTL DEF Spec

\* Every descriptor number that run_session, the transports and the dispatch
\* thread hold names what its holder opened: none that was closed, and may have
\* gone to a new client or pipe, is read, written or closed again, and the
\* dispatch thread runs only beside a live handle.
THEOREM DescriptorsOwned == Spec => []Inv
<1>1. IInv => Inv
  BY DEF IInv
<1>2. QED BY <1>1, Invariance, PTL

\* Every open descriptor has a holder, after any number of reconnects.
THEOREM NothingLeaks == Spec => []NoLeak
<1>1. IInv => NoLeak
  BY DEF IInv, Held, Holders, NoLeak
<1>2. QED BY <1>1, Invariance, PTL

\* A host that reads what it is sent and does not hang up keeps its connection
\* until a signal or the last attempt.
THEOREM ClientsKept == Spec => KeptClients
<1>1. IInv /\ [Next]_vars =>
         [\A c \in Clients : Served(c) /\ running /\ pc # "cleanup" => peer'[c] # "away"]_vars
  <2> SUFFICES ASSUME IInv, Next,
                      NEW c \in Clients, peer[c] = "on", c \notin Slow, running, pc # "cleanup"
               PROVE  peer'[c] # "away"
    BY DEF vars, hostVars, Served
  <2>1. peer \in [Clients -> {"away", "knocking", "on", "gone"}]
    BY TypedOf DEF Typed, HostType
  <2>2. ASSUME NEW N \in SUBSET Fds, CloseClients(N), \A n \in N : fd[n] # c
        PROVE  peer'[c] # "away"
    BY <2>1, <2>2 DEF CloseClients
  <2>3. CASE DropDead
    <3>1. dead \in SUBSET Fds /\ \A n \in dead : peer[fd[n]] = "gone"
      BY TypedOf DEF IInv, Given, Typed, HostType
    <3>2. QED BY <2>2, <2>3, <3>1 DEF DropDead
  <2>4. CASE RxData
    <3>1. PICK N \in SUBSET {n \in clients : Refuses(fd[n])} : CloseClients(N)
      BY <2>4 DEF RxData
    <3>2. N \in SUBSET Fds /\ \A n \in N : Refuses(fd[n])
      BY TypedOf DEF Typed, HostType
    <3>3. ~Refuses(c)
      BY DEF Refuses
    <3>4. \A n \in N : fd[n] # c
      BY <3>2, <3>3
    <3>5. QED BY <2>2, <3>1, <3>2, <3>4
  <2>5. CASE Accept
    BY <2>1, <2>5 DEF Accept, AcceptOne
  <2>6. CASE \E d \in Clients : Knock(d) \/ Leave(d)
    BY <2>1, <2>6 DEF Knock, Leave
  <2>7. CASE peer' = peer
    BY <2>7
  <2>8. Session => Cleanup \/ DropDead \/ RxData \/ Accept \/ peer' = peer
    BY DEF Session, Attempt, ConnectBt, ConnectBle, Connected, TncInit, Check, SetupFds, Select,
       ReadClient, PtyOrTest, RxNothing, RxEnd, Sigpipe, Disconnect, Disconnected, AfterSession,
       hostVars
  <2>9. Ble(BleMain) \/ Ble(Dispatch) => peer' = peer
    BY DEF Ble, hostVars
  <2>10. Outside => (\E d \in Clients : Knock(d) \/ Leave(d)) \/ peer' = peer
    BY DEF Outside, RfcommData, RfcommLost, Signal, hostVars
  <2>11. ~Cleanup
    BY DEF Cleanup
  <2>12. QED BY <2>3, <2>4, <2>5, <2>6, <2>7, <2>8, <2>9, <2>10, <2>11 DEF Next, Stopped, vars, hostVars
<1>2. QED BY <1>1, Invariance, PTL DEF Spec, KeptClients

\* The first session over BLE, and every one over RFCOMM, ends only because the
\* link was lost, the user said so or the process was killed by a signal.
THEOREM SessionsEndForCause == Spec => EndsForCause
<1>1. IInv /\ [Next]_vars => [SessionEnds /\ (cfg.kind = "BLE" => attempt = 0) => Cause]_vars
  <2> SUFFICES ASSUME IInv, Next, pc \in Loop, pc' \notin Loop, cfg.kind = "BLE" => attempt = 0
               PROVE  Cause
    BY DEF vars, SessionEnds
  <2>1. Session
    BY DEF Next, Ble, Outside, Knock, Leave, RfcommData, RfcommLost, Signal, Stopped, vars
  <2>2. Check \/ Sigpipe
    BY <2>1 DEF Session, Loop, Attempt, ConnectBt, ConnectBle, Connected, TncInit, SetupFds, Select,
       Accept, ReadClient, DropDead, PtyOrTest, RxNothing, RxEnd, RxData, NextTurn, Disconnect,
       Disconnected, AfterSession, Cleanup
  <2>3. CASE Sigpipe
    BY <2>3 DEF Sigpipe, Cause
  <2>4. CASE Check
    <3>1. pc = "check" /\ (~running \/ disc \/ ~is_connected)
      BY <2>4 DEF Check, Loop
    <3>2. CASE BT
      BY <3>1, <3>2 DEF BT, is_connected, IInv, Truthful, InSession, Loop, Cause
    <3>3. CASE BLE
      <4>1. attempt = 0 /\ h.live /\ call = "idle"
        BY <3>1, <3>3 DEF BLE, IInv, Handle, Control, InSession, Loop
      <4>2. link # "up" \/ (~disc /\ h.conn)
        BY <3>1, <3>3, <4>1 DEF IInv, Truthful, InSession, Loop
      <4>3. QED BY <3>1, <3>3, <4>1, <4>2 DEF BLE, is_connected, Cause
    <3>4. QED BY <3>2, <3>3, TypedOf
  <2>5. QED BY <2>2, <2>3, <2>4
<1>2. QED BY <1>1, Invariance, PTL DEF Spec, EndsForCause
=============================================================================
