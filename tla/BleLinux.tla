------------------------------ MODULE BleLinux ------------------------------
(***************************************************************************)
(* bt_ble_linux.cpp: the BLE transport of the bridge over BlueZ.  Two      *)
(* threads share a handle: the caller (ble_connect, ble_disconnect) and    *)
(* the dispatch thread, which turns D-Bus signals into bytes on a pipe and *)
(* into the closing of its write end.  The shared bus connection outlives  *)
(* a handle, and so do its match rules and the signals waiting on it.      *)
(* The table of file descriptors is the kernel's: a number that is closed  *)
(* may name something else at the next open.                               *)
(***************************************************************************)
EXTENDS Integers, Sequences

CONSTANTS MaxFd     \* bound: file descriptors of the process

ASSUME FdAssumption == MaxFd \in Nat \ {0, 1}

VARIABLES
    link,   \* BlueZ's view of the device, "silent": lost with no rule to report it
    rule,   \* match rules are on the shared bus connection
    bus,    \* signals waiting on the shared bus connection
    h,      \* the handle
    dpc,    \* the dispatch thread
    call,   \* where the caller is inside ble_connect or ble_disconnect
    fd,     \* descriptor -> what it names
    rx      \* bytes wait in the pipe (or in the RFCOMM socket)

bleVars == <<link, rule, bus, h, dpc, call, fd, rx>>

Fds == 1..MaxFd
NoFd == 0
NoHandle == [live |-> FALSE, conn |-> FALSE, stop |-> FALSE, pr |-> NoFd, pw |-> NoFd]

-----------------------------------------------------------------------------
\* The kernel: the lowest free number is the next one opened.
Lowest(f) == CHOOSE n \in Fds : f[n] = "free" /\ \A m \in Fds : f[m] = "free" => n <= m
Opened(f, what) == [f EXCEPT ![Lowest(f)] = what]
Closed(f, n) == IF n = NoFd THEN f ELSE [f EXCEPT ![n] = "free"]
Full(f) == \A n \in Fds : f[n] # "free"

-----------------------------------------------------------------------------
\* BlueZ reports a lost link to a bus connection that has a rule for it.
Announced(was) == IF was = "up" /\ rule THEN Append(bus, "down") ELSE bus

\* Device1.Disconnect
Hangup ==
    /\ link' = IF link = "up" THEN "down" ELSE link
    /\ bus' = Announced(link)

\* The radio switches off or goes out of range.
DropLink ==
    /\ link = "up"
    /\ link' = IF rule THEN "down" ELSE "silent"
    /\ bus' = Announced(link)
    /\ UNCHANGED <<rule, h, dpc, call, fd, rx>>

\* A notification of the read characteristic (bound: one waits at a time).
Notify ==
    /\ link = "up" /\ rule
    /\ \A i \in DOMAIN bus : bus[i] # "data"
    /\ bus' = Append(bus, "data")
    /\ UNCHANGED <<link, rule, h, dpc, call, fd, rx>>

-----------------------------------------------------------------------------
\* No bus, no adapter, or a device that is not found within the scan.
BleNotFound ==
    /\ call = "stale"
    /\ call' = "none"
    /\ UNCHANGED <<link, rule, bus, h, dpc, fd, rx>>

\* Preventive disconnect of a device that was left connected.
ClearStale ==
    /\ call = "stale"
    /\ call' = "connect"
    /\ Hangup
    /\ UNCHANGED <<rule, h, dpc, fd, rx>>

BleDial ==
    /\ call = "connect"
    /\ \/ link' = "up" /\ call' = "resolve"
       \/ link' = link /\ call' = "none"
    /\ UNCHANGED <<rule, bus, h, dpc, fd, rx>>

ServicesResolved ==
    /\ call = "resolve" /\ link = "up"
    /\ call' = "handle"
    /\ UNCHANGED <<link, rule, bus, h, dpc, fd, rx>>

\* No services within 10 s, no matching characteristics, or no pipe.
BleGiveUp ==
    /\ call \in {"resolve", "handle"}
    /\ call' = "none"
    /\ Hangup
    /\ UNCHANGED <<rule, h, dpc, fd, rx>>

\* The handle, its pipe, the match rules and the filters.
MakeHandle ==
    /\ call = "handle"
    /\ ~Full(fd) /\ ~Full(Opened(fd, "pipe_r"))
    /\ LET f == Opened(fd, "pipe_r") IN
       /\ h' = [NoHandle EXCEPT !.live = TRUE, !.pr = Lowest(fd), !.pw = Lowest(f)]
       /\ fd' = Opened(f, "pipe_w")
    /\ rule' = TRUE /\ rx' = FALSE
    /\ call' = "settle"
    /\ UNCHANGED <<link, bus, dpc>>

\* StartNotify (whose failure is only a warning), 300 ms, connected = true,
\* and the dispatch thread starts.
StartDispatch ==
    /\ call = "settle"
    /\ h' = [h EXCEPT !.conn = TRUE]
    /\ dpc' = "top" /\ call' = "ok"
    /\ UNCHANGED <<link, rule, bus, fd, rx>>

-----------------------------------------------------------------------------
\* while (!h->stop) dbus_connection_read_write_dispatch(conn, 20)
DispatchLoop ==
    /\ dpc = "top"
    /\ dpc' = IF h.stop THEN "off" ELSE "in"
    /\ UNCHANGED <<link, rule, bus, h, call, fd, rx>>

DispatchNothing ==
    /\ dpc = "in" /\ bus = <<>>
    /\ dpc' = "top"
    /\ UNCHANGED <<link, rule, bus, h, call, fd, rx>>

notify_filter ==
    /\ dpc = "in" /\ bus # <<>> /\ Head(bus) = "data"
    /\ rx' = (rx \/ h.pw # NoFd)
    /\ bus' = Tail(bus) /\ dpc' = "top"
    /\ UNCHANGED <<link, rule, h, call, fd>>

\* fault: Connected = false is taken for another property
DownUnheard == h' = h /\ fd' = fd /\ dpc' = "top"
\* connected = false, and the write end is closed
DownHeard ==
    /\ h' = [h EXCEPT !.conn = FALSE]
    /\ fd' = Closed(fd, h.pw)
    /\ dpc' = IF h.pw = NoFd THEN "top" ELSE "closed"

disconnect_filter ==
    /\ dpc = "in" /\ bus # <<>> /\ Head(bus) = "down"
    /\ DownHeard
    /\ bus' = Tail(bus)
    /\ UNCHANGED <<link, rule, call, rx>>

\* h->pipe_write = -1, after the close
ForgetPipe ==
    /\ dpc = "closed"
    /\ h' = [h EXCEPT !.pw = NoFd]
    /\ dpc' = "top"
    /\ UNCHANGED <<link, rule, bus, call, fd, rx>>

-----------------------------------------------------------------------------
\* fault: the dispatch thread is not told
StopUntold == h
StopTold == [h EXCEPT !.stop = TRUE]

StopDispatch ==
    /\ call = "stop"
    /\ h' = StopTold
    /\ call' = "join"
    /\ UNCHANGED <<link, rule, bus, dpc, fd, rx>>

\* fault: the write end is left to the filter
PipeHalfClosed(f) == Closed(f, h.pr)
PipeClosed(f) == Closed(Closed(f, h.pr), h.pw)

\* fault: the dispatch thread is not joined
JoinedAlready == TRUE
\* dispatch_thread.join()
Joined == dpc = "off"

\* Hang up if still connected, remove the filters, close the pipe, delete h.
FreeHandle ==
    /\ call = "join" /\ Joined
    /\ IF h.conn THEN Hangup ELSE UNCHANGED <<link, bus>>
    /\ fd' = PipeClosed(fd)
    /\ h' = NoHandle
    /\ call' = "idle"
    /\ UNCHANGED <<rule, dpc, rx>>

BleMain ==
    \/ BleNotFound \/ ClearStale \/ BleDial \/ ServicesResolved \/ BleGiveUp
    \/ MakeHandle \/ StartDispatch \/ StopDispatch \/ FreeHandle

Dispatch ==
    DispatchLoop \/ DispatchNothing \/ notify_filter \/ disconnect_filter \/ ForgetPipe
=============================================================================
