----------------------------- MODULE Terminals -----------------------------
(***************************************************************************)
(* The terminal programs over Router: ax25tnc in its modes tnc, connect,   *)
(* monitor, unproto and test, and ax25sim.  Each is one thread in a loop   *)
(* of Router::poll, deferred deletion and one line of standard input, with *)
(* callbacks that move the program's one pointer "conn" to a Connection.   *)
(* A script that waits for a line polls the Router from inside the loop.   *)
(*                                                                         *)
(* Connections are reduced to their state (module Connection has the       *)
(* rest); the peers send anything.  BASIC scripts poll any number of times *)
(* and end.  Of the frames that Router::tx holds back during the           *)
(* turnaround after a reception, the DISCs are followed.                   *)
(***************************************************************************)
EXTENDS Naturals, Sequences

CONSTANTS
    Progs,      \* the programs: "sim" and the modes of ax25tnc
    Peers,      \* other stations
    Calls,      \* callsigns the station may take with MYCALL
    FirstCall,  \* the one it starts with
    MaxConns    \* bound on the Connection objects created

Plain == {"monitor", "unproto", "test"}     \* modes without connections

ASSUME ProgsAssumption == Progs \subseteq {"tnc", "connect", "sim"} \cup Plain
ASSUME PeersAssumption == Peers \cap {"none", "ANY"} = {}
ASSUME CallsAssumption == FirstCall \in Calls
ASSUME BoundAssumption == MaxConns \in Nat \ {0}

VARIABLES
    prog, remote,   \* the program, and cfg.remote ("none" when empty)
    boot,           \* connect: cfg.script is not empty
    pc, ret,        \* where the thread is, and where Router::poll returns to
    quit, ctrlc,    \* g_quit, g_ctrl_c_count
    mycall,         \* router.config().mycall
    objs,           \* the Connection objects, in the order of their creation
    conn,           \* the program's pointer: an index of objs, 0 for nullptr
    dead,           \* dead_conns
    done,           \* connect: done
    data,           \* tnc: data_mode
    guarded,        \* tnc: on_accept looks whether there is a connection
    script,         \* the Connection that the running script was given, or 0
    crowded,        \* history: a call came while the program had a
                    \* connection, or when it was about to end
    turn,           \* the time is before tx_next_
    txq,            \* the connections that have a DISC in tx_queue_
    held            \* history: the last poll of the shutdown could not drain

cfgVars == <<prog, remote, boot>>
sigVars == <<quit, ctrlc>>
appVars == <<conn, dead, done, data, guarded>>
radioVars == <<turn, txq, held>>
vars == <<cfgVars, pc, ret, sigVars, mycall, objs, appVars, script, crowded, radioVars>>

Freed == [peer |-> "none", local |-> FirstCall, st |-> "freed", cb |-> FALSE, own |-> TRUE]
NewConn(p, st, cb) ==       \* own: on_data is the program's, not a script's
    [peer |-> p, local |-> mycall, st |-> st, cb |-> cb, own |-> TRUE]

Exists(o) == objs[o].st # "freed"
Open(o) == objs[o].st \notin {"freed", "DISCONNECTED"}
Connected == conn # 0 /\ objs[conn].st = "CONNECTED"
Busy == conn # 0 /\ objs[conn].st # "DISCONNECTED"

TncStart ==
    prog = "tnc" /\ remote \in Peers \cup {"none"} /\ boot = FALSE /\ guarded = TRUE
ConnectStart ==
    prog = "connect" /\ remote \in Peers \cup {"ANY"} /\ boot \in BOOLEAN /\ guarded = FALSE
SimStart ==
    prog = "sim" /\ remote = "none" /\ boot = FALSE /\ guarded = FALSE
PlainStart ==
    prog \in Plain /\ remote = "none" /\ boot = FALSE /\ guarded = FALSE

Init ==
    /\ prog \in Progs
    /\ TncStart \/ ConnectStart \/ SimStart \/ PlainStart
    /\ pc = IF boot THEN "await" ELSE "loop"
    /\ ret = "reap"
    /\ quit = FALSE /\ ctrlc = 0
    /\ mycall = FirstCall
    /\ objs = IF remote \in Peers THEN <<NewConn(remote, "CONNECTING", TRUE)>> ELSE <<>>
    /\ conn = Len(objs) /\ dead = <<>>
    /\ done = FALSE /\ data = FALSE
    /\ script = 0 /\ crowded = FALSE
    /\ turn = FALSE /\ txq = {} /\ held = FALSE

(***************************************************************************)
(* Callbacks                                                               *)
(***************************************************************************)
TncOnConnectEarly(o) == data    \* fault: left to whoever starts the call
TncOnConnect(o) == data \/ objs[o].cb

OnConnect(o) ==
    /\ data' = IF prog = "tnc" THEN TncOnConnect(o) ELSE data
    /\ UNCHANGED <<conn, dead, done, guarded>>

\* What goes to dead_conns is the program's connection, whichever closed.
ToDead == dead' = IF conn # 0 THEN Append(dead, conn) ELSE dead

TncOnDisconnectKept ==      \* fault: conn stays on the object in dead_conns
    /\ ToDead
    /\ data' = FALSE /\ guarded' = FALSE
    /\ UNCHANGED <<conn, done>>

\* ax25tnc listens again, without the guard.
TncOnDisconnect ==
    /\ ToDead /\ conn' = 0
    /\ data' = FALSE /\ guarded' = FALSE
    /\ UNCHANGED done

SimOnDisconnect ==
    /\ ToDead /\ conn' = 0
    /\ UNCHANGED <<done, data, guarded>>

ConnectOnDisconnect ==
    /\ done' = TRUE
    /\ UNCHANGED <<conn, dead, data, guarded>>

OnDisconnect(o) ==
    \/ ~objs[o].cb /\ UNCHANGED appVars
    \/ objs[o].cb /\ prog = "tnc" /\ TncOnDisconnect
    \/ objs[o].cb /\ prog = "sim" /\ SimOnDisconnect
    \/ objs[o].cb /\ prog = "connect" /\ ConnectOnDisconnect

\* on_accept: whether the program takes the call.
TncTakes == ~(guarded /\ Busy)
SimTakes == ~Busy
Takes == CASE prog = "tnc" -> TncTakes [] prog = "sim" -> SimTakes [] OTHER -> TRUE

(***************************************************************************)
(* The turnaround                                                          *)
(***************************************************************************)
\* drain_tx: nothing goes out before tx_next_, and everything after it.
Drained(waiting) == IF turn THEN waiting ELSE {}

\* Router::tx of one DISC for each of these connections.
SendDisc(os) ==
    /\ txq' = IF os = {} THEN txq ELSE Drained(txq \cup os)
    /\ UNCHANGED <<turn, held>>

TurnPasses ==
    /\ turn /\ turn' = FALSE /\ pc # "exit"
    /\ UNCHANGED <<cfgVars, pc, ret, sigVars, mycall, objs, appVars, script, crowded, txq, held>>

\* Router::tx of anything else: it too empties the queue when it may.
TxOther ==
    /\ pc \in {"poll", "ticks", "input", "script"}
    /\ txq' = Drained(txq)
    /\ UNCHANGED <<cfgVars, pc, ret, sigVars, mycall, objs, appVars, script, crowded, turn, held>>

(***************************************************************************)
(* Router::poll: frames, then timers                                       *)
(***************************************************************************)
SetState(o, st) == objs' = [objs EXCEPT ![o].st = st]

\* The oldest object of the pair of stations, or 0.
Find(p) ==
    LET Of == {o \in DOMAIN objs : objs[o].peer = p /\ objs[o].local = mycall}
    IN  IF Of = {} THEN 0 ELSE CHOOSE o \in Of : \A x \in Of : o <= x

Opens(o, t) == \/ objs[o].st = "DISCONNECTED" /\ t = "SABM"
               \/ objs[o].st = "CONNECTING" /\ t = "UA"
Closes(o, t) == \/ objs[o].st = "CONNECTING" /\ t = "DM"
                \/ objs[o].st = "CONNECTED" /\ t \in {"DISC", "DM"}
                \/ objs[o].st = "DISCONNECTING" /\ t \in {"UA", "DM"}

\* A call that comes now is one too many.
Crowds == Busy \/ ret = "check" \/ done

\* route: every frame, whoever it is for, pushes tx_next_ forward.
Overheard ==
    /\ pc = "poll" /\ turn' = TRUE
    /\ UNCHANGED <<cfgVars, pc, ret, sigVars, mycall, objs, appVars, script, crowded, txq, held>>

\* A frame of a known peer that changes its connection.
HandleFrame ==
    /\ pc = "poll"
    /\ \E p \in Peers, t \in {"SABM", "UA", "DM", "DISC"} :
          LET o == Find(p)
          IN  /\ o # 0
              /\ \/ /\ Opens(o, t) /\ SetState(o, "CONNECTED") /\ OnConnect(o)
                    /\ crowded' = (crowded \/ (t = "SABM" /\ Crowds))
                 \/ /\ Closes(o, t) /\ SetState(o, "DISCONNECTED") /\ OnDisconnect(o)
                    /\ UNCHANGED crowded
    /\ turn' = TRUE
    /\ UNCHANGED <<cfgVars, pc, ret, sigVars, mycall, script, txq, held>>

\* A SABM of a new peer: on_accept, then the UA and on_connect.  A guard
\* that returns leaves a connection that is open all the same.
Listening == prog \in {"tnc", "sim"} \/ remote = "ANY"
Accept ==
    /\ pc = "poll" /\ Listening /\ Len(objs) < MaxConns
    /\ \E p \in Peers :
          Find(p) = 0 /\ objs' = Append(objs, NewConn(p, "CONNECTED", Takes))
    /\ conn' = IF Takes THEN Len(objs) + 1 ELSE conn
    /\ data' = (data \/ (prog = "tnc" /\ Takes))
    /\ crowded' = (crowded \/ Crowds)
    /\ turn' = TRUE
    /\ UNCHANGED <<cfgVars, pc, ret, sigVars, mycall, dead, done, guarded, script, txq, held>>

KissReturnsOnly ==      \* fault: poll() does not call drain_tx
    /\ pc = "poll" /\ pc' = "ticks"
    /\ held' = (turn /\ ret = "check")
    /\ UNCHANGED <<cfgVars, ret, sigVars, mycall, objs, appVars, script, crowded, turn, txq>>
\* Kiss::poll is done, and drain_tx sends what waits.
KissReturns ==
    /\ pc = "poll" /\ pc' = "ticks"
    /\ txq' = Drained(txq)
    /\ held' = (turn /\ ret = "check")
    /\ UNCHANGED <<cfgVars, ret, sigVars, mycall, objs, appVars, script, crowded, turn>>

\* tick: the retries of a call, a link or a hang-up are exhausted.
LinkFails ==
    /\ pc = "ticks"
    /\ \E o \in DOMAIN objs :
          Open(o) /\ SetState(o, "DISCONNECTED") /\ OnDisconnect(o)
    /\ UNCHANGED <<cfgVars, pc, ret, sigVars, mycall, script, crowded, radioVars>>

\* tick: T1 repeats a DISC.
RepeatDisc ==
    /\ pc = "ticks"
    /\ \E o \in DOMAIN objs : objs[o].st = "DISCONNECTING" /\ SendDisc({o})
    /\ UNCHANGED <<cfgVars, pc, ret, sigVars, mycall, objs, appVars, script, crowded>>

PollReturns ==
    /\ pc = "ticks" /\ pc' = ret
    /\ UNCHANGED <<cfgVars, ret, sigVars, mycall, objs, appVars, script, crowded, radioVars>>

Poll(back) == pc' = "poll" /\ ret' = back

(***************************************************************************)
(* The loops                                                               *)
(***************************************************************************)
Round(p, stop, back, end) ==
    /\ pc = "loop" /\ prog = p
    /\ IF stop THEN pc' = end /\ UNCHANGED ret ELSE Poll(back)
    /\ UNCHANGED <<cfgVars, sigVars, mycall, objs, appVars, script, crowded, radioVars>>

TncLoop == Round("tnc", quit, "reap", "bye")
SimLoop == Round("sim", quit, "reap", "bye")
ConnectLoop == Round("connect", quit \/ done, "input", "bye")
MonitorLoop == Round("monitor", quit, "loop", "exit")
UnprotoLoop == Round("unproto", quit, "input", "exit")
TestLoop == Round("test", quit, "loop", "exit")

Linked(o) == objs[o].st \in {"CONNECTING", "CONNECTED"}

\* disconnect() and the destructor send a DISC on a link that is not closed.
Hung(o) == IF Linked(o) THEN [objs EXCEPT ![o].st = "DISCONNECTING"] ELSE objs
Byes(os) == SendDisc({o \in os : Linked(o)})
Deleted(os, gone) == [o \in DOMAIN os |-> IF o \in gone THEN Freed ELSE os[o]]
Elements(s) == {s[i] : i \in DOMAIN s}

\* Deferred deletion.
TncReap ==
    /\ pc = "reap" /\ prog = "tnc" /\ pc' = "input"
    /\ objs' = Deleted(objs, Elements(dead)) /\ dead' = <<>>
    /\ Byes(Elements(dead))
    /\ UNCHANGED <<cfgVars, ret, sigVars, mycall, conn, done, data, guarded, script, crowded>>

\* ax25sim then takes its count of one Ctrl-C back, and hangs up.
SimReap ==
    /\ pc = "reap" /\ prog = "sim" /\ pc' = "input"
    /\ LET hang == ctrlc = 1 /\ Connected
       IN  /\ objs' = Deleted(IF hang THEN Hung(conn) ELSE objs, Elements(dead))
           /\ Byes(Elements(dead) \cup (IF hang THEN {conn} ELSE {}))
    /\ ctrlc' = IF ctrlc = 1 THEN 0 ELSE ctrlc
    /\ dead' = <<>>
    /\ UNCHANGED <<cfgVars, ret, quit, mycall, conn, done, data, guarded, script, crowded>>

(***************************************************************************)
(* One line of input                                                       *)
(***************************************************************************)
NoInput ==
    /\ pc = "input" /\ pc' = "loop"
    /\ UNCHANGED <<cfgVars, ret, sigVars, mycall, objs, appVars, script, crowded, radioVars>>

EndOfInput ==
    /\ pc = "input" /\ pc' = "loop"
    /\ quit' = TRUE
    /\ UNCHANGED <<cfgVars, ret, ctrlc, mycall, objs, appVars, script, crowded, radioVars>>

TncCommand == pc = "input" /\ prog = "tnc" /\ ~data
TncData == pc = "input" /\ prog = "tnc" /\ data
SimCommand == pc = "input" /\ prog = "sim"
ConnectLine == pc = "input" /\ prog = "connect"

\* What only prints, sends, or sets a parameter of the program's own
\* configuration, of which Router and every Connection have copies.
TncOther == TncCommand /\ NoInput
TncDataOther == TncData /\ NoInput
SimOther == SimCommand /\ NoInput
SimText == SimCommand /\ NoInput        \* a line without "//": sent, or refused
ConnectOther == ConnectLine /\ NoInput

\* C sends a SABM.  Callbacks are attached when the command returns, before
\* any poll.
Call ==
    /\ Len(objs) < MaxConns
    /\ \E p \in Peers : objs' = Append(objs, NewConn(p, "CONNECTING", TRUE))
    /\ conn' = Len(objs) + 1
    /\ txq' = Drained(txq)
    /\ pc' = "loop"
    /\ UNCHANGED <<cfgVars, ret, sigVars, mycall, dead, done, data, guarded, script, crowded, turn, held>>

TncConnectAnyway == TncCommand /\ Call      \* fault: "Already connected" is not looked at
TncConnect == TncCommand /\ ~Busy /\ Call
SimConnect == SimCommand /\ ~Busy /\ Call

HangUp ==
    /\ objs' = Hung(conn) /\ Byes({conn}) /\ pc' = "loop"
    /\ UNCHANGED <<cfgVars, ret, sigVars, mycall, conn, dead, data, guarded, script, crowded>>

TncDisconnect == TncCommand /\ Busy /\ HangUp /\ UNCHANGED done
TncDataDisconnect == TncData /\ Connected /\ HangUp /\ UNCHANGED done
SimDisconnect == SimCommand /\ Busy /\ HangUp /\ UNCHANGED done
ConnectDisconnect ==
    /\ ConnectLine
    /\ objs' = IF Connected THEN Hung(conn) ELSE objs
    /\ Byes(IF Connected THEN {conn} ELSE {})
    /\ done' = TRUE
    /\ pc' = "loop"
    /\ UNCHANGED <<cfgVars, ret, sigVars, mycall, conn, dead, data, guarded, script, crowded>>

\* A line in data mode with nobody to send it to.
TncTextUnsent ==
    /\ TncData /\ ~Connected
    /\ data' = FALSE
    /\ pc' = "loop"
    /\ UNCHANGED <<cfgVars, ret, sigVars, mycall, objs, conn, dead, done, guarded, script, crowded, radioVars>>

\* MYCALL: connections keep the callsign they were made with.
TakeCall ==
    /\ \E c \in Calls : mycall' = c
    /\ pc' = "loop"
    /\ UNCHANGED <<cfgVars, ret, sigVars, objs, appVars, script, crowded, radioVars>>

TncMyCall == TncCommand /\ TakeCall
SimMyCall == SimCommand /\ TakeCall

Quits(label) ==
    /\ pc' = label
    /\ UNCHANGED <<cfgVars, ret, ctrlc, mycall, objs, appVars, script, crowded, radioVars>>

TncQuit == TncCommand /\ quit' = TRUE /\ Quits("bye")
SimQuit == SimCommand /\ UNCHANGED quit /\ Quits("bye")
UnprotoQuit == pc = "input" /\ prog = "unproto" /\ UNCHANGED quit /\ Quits("exit")

(***************************************************************************)
(* Scripts                                                                 *)
(***************************************************************************)
\* on_data of the connection, if there is one, is lent to the script.
Lend ==
    /\ objs' = IF conn # 0 THEN [objs EXCEPT ![conn].own = FALSE] ELSE objs
    /\ script' = conn
    /\ pc' = "script"
    /\ UNCHANGED <<cfgVars, ret, sigVars, mycall, appVars, crowded, radioVars>>

TncScript == (TncCommand \/ TncData) /\ Connected /\ Lend
SimScript == SimCommand /\ Lend

\* In connect mode a script shares the program's on_data and its "conn".
ConnectScript ==
    /\ ConnectLine /\ Connected /\ pc' = "script"
    /\ UNCHANGED <<cfgVars, ret, sigVars, mycall, objs, appVars, script, crowded, radioVars>>

\* The script given with -s waits for the connection, if there is one yet.
Await ==
    /\ pc = "await"
    /\ IF ~quit /\ ~done /\ conn # 0 /\ ~Connected
       THEN Poll("await")
       ELSE pc' = (IF quit \/ done THEN "loop" ELSE "script") /\ UNCHANGED ret
    /\ UNCHANGED <<cfgVars, sigVars, mycall, objs, appVars, script, crowded, radioVars>>

\* on_recv with nothing queued: it polls the Router until there is a line.
\* In tnc mode it has no Router to poll; in ax25sim it reads the keyboard
\* when the script's connection is not open.
OnRecv ==
    /\ pc = "script" /\ pc' = "recv"
    /\ UNCHANGED <<cfgVars, ret, sigVars, mycall, objs, appVars, script, crowded, radioVars>>

ConnectOnRecv == prog = "connect" /\ OnRecv
SimOnRecv == prog = "sim" /\ script # 0 /\ objs[script].st = "CONNECTED" /\ OnRecv

OnRecvPoll ==
    /\ pc = "recv" /\ ~quit /\ ~done
    /\ Poll("recv")
    /\ UNCHANGED <<cfgVars, sigVars, mycall, objs, appVars, script, crowded, radioVars>>

\* A line, the deadline, or the end of the program.
OnRecvReturns ==
    /\ pc = "recv" /\ pc' = "script"
    /\ UNCHANGED <<cfgVars, ret, sigVars, mycall, objs, appVars, script, crowded, radioVars>>

ScriptEnds ==
    /\ pc = "script" /\ ~boot /\ pc' = "loop"
    /\ objs' = IF script # 0 THEN [objs EXCEPT ![script].own = TRUE] ELSE objs
    /\ script' = 0
    /\ UNCHANGED <<cfgVars, ret, sigVars, mycall, appVars, crowded, radioVars>>

\* The program ends with the script that was given to it.
BootScriptEnds ==
    /\ pc = "script" /\ boot /\ pc' = "loop"
    /\ done' = TRUE
    /\ UNCHANGED <<cfgVars, ret, sigVars, mycall, objs, conn, dead, data, guarded, script, crowded, radioVars>>

(***************************************************************************)
(* The end                                                                 *)
(***************************************************************************)
Exit(gone) ==
    /\ pc' = "exit"
    /\ objs' = Deleted(objs, gone) /\ Byes(gone)
    /\ dead' = <<>>
    /\ conn' = IF conn \in gone THEN 0 ELSE conn
    /\ UNCHANGED <<ret, done, data, guarded>>

Mine == IF conn # 0 THEN {conn} ELSE {}
Leave == \/ prog = "tnc" /\ Exit(Mine \cup Elements(dead))
         \/ prog = "connect" /\ Exit(Mine)
         \/ prog = "sim" /\ Exit(Elements(dead))

\* Hangs up, and polls for at most a second until the answer is there.
Bye(hang) ==
    /\ pc = "bye"
    /\ IF hang THEN objs' = Hung(conn) /\ Byes({conn}) /\ Poll("check") /\ UNCHANGED appVars
               ELSE Leave
    /\ UNCHANGED <<cfgVars, sigVars, mycall, script, crowded>>

TncBye == prog = "tnc" /\ Bye(Busy)
ConnectBye == prog = "connect" /\ Bye(Connected)
SimBye == prog = "sim" /\ Bye(Busy)

CheckForever ==             \* fault: no limit of one second
    /\ pc = "check"
    /\ IF Busy THEN Poll("check") /\ UNCHANGED <<objs, appVars, radioVars>> ELSE Leave
    /\ UNCHANGED <<cfgVars, sigVars, mycall, script, crowded>>
Check ==
    /\ pc = "check"
    /\ \/ Leave
       \/ Busy /\ Poll("check") /\ UNCHANGED <<objs, appVars, radioVars>>
    /\ UNCHANGED <<cfgVars, sigVars, mycall, script, crowded>>

Over == pc = "exit" /\ UNCHANGED vars

(***************************************************************************)
(* Signals, and the specification                                          *)
(***************************************************************************)
\* The count starts again when the last SIGINT is over five seconds ago.
SigInt ==
    /\ pc # "exit" /\ ~quit
    /\ \E late \in BOOLEAN :
          LET n == (IF late THEN 0 ELSE ctrlc) + 1
          IN  ctrlc' = n /\ quit' = (n >= 2)
    /\ UNCHANGED <<cfgVars, pc, ret, mycall, objs, appVars, script, crowded, radioVars>>

SigTerm ==
    /\ pc # "exit" /\ ~quit
    /\ quit' = TRUE
    /\ UNCHANGED <<cfgVars, pc, ret, ctrlc, mycall, objs, appVars, script, crowded, radioVars>>

RouterPoll == HandleFrame \/ Accept \/ Overheard \/ KissReturns \/ RepeatDisc \/ LinkFails \/ PollReturns
Loop == TncLoop \/ SimLoop \/ ConnectLoop \/ MonitorLoop \/ UnprotoLoop \/ TestLoop
Reap == TncReap \/ SimReap
Input == NoInput \/ EndOfInput
Tnc == \/ TncOther \/ TncDataOther \/ TncConnect \/ TncDisconnect \/ TncDataDisconnect
       \/ TncTextUnsent \/ TncMyCall \/ TncQuit \/ TncScript \/ TncBye
Sim == \/ SimOther \/ SimText \/ SimConnect \/ SimDisconnect \/ SimMyCall \/ SimQuit \/ SimScript
       \/ SimOnRecv \/ SimBye
Connect == \/ ConnectOther \/ ConnectDisconnect \/ ConnectScript \/ Await
           \/ ConnectOnRecv \/ BootScriptEnds \/ ConnectBye
Script == OnRecvPoll \/ OnRecvReturns \/ ScriptEnds
Thread == \/ RouterPoll \/ Loop \/ Reap \/ Input \/ Tnc \/ Sim \/ Connect \/ UnprotoQuit
          \/ Script \/ Check \/ TxOther

Next == Thread \/ TurnPasses \/ SigInt \/ SigTerm \/ Over

\* The thread runs; one read holds finitely many frames, and the Router
\* finitely many connections; scripts end, which is up to those who wrote
\* them, and the second of the shutdown passes.
Fairness ==
    /\ WF_vars(Thread) /\ WF_vars(KissReturns \/ PollReturns)
    /\ SF_vars(ScriptEnds \/ BootScriptEnds \/ (Check /\ pc' = "exit"))

Spec == Init /\ [][Next]_vars /\ Fairness

(***************************************************************************)
(* Properties                                                              *)
(***************************************************************************)
TypeOK ==
    /\ prog \in Progs /\ remote \in Peers \cup {"none", "ANY"} /\ boot \in BOOLEAN
    /\ pc \in {"await", "loop", "poll", "ticks", "reap", "input", "script", "recv",
               "bye", "check", "exit"}
    /\ ret \in {"await", "loop", "reap", "input", "recv", "check"}
    /\ ctrlc \in 0 .. 2 /\ mycall \in Calls
    /\ objs \in Seq([peer : Peers \cup {"none"}, local : Calls, cb : BOOLEAN, own : BOOLEAN,
                     st : {"freed", "DISCONNECTED", "CONNECTING", "CONNECTED", "DISCONNECTING"}])
    /\ Len(objs) <= MaxConns
    /\ {conn, script} \subseteq 0 .. Len(objs) /\ dead \in Seq(1 .. Len(objs))
    /\ {quit, done, data, guarded, crowded, turn, held} \subseteq BOOLEAN
    /\ txq \subseteq DOMAIN objs

\* No pointer outlives its connection: not the program's, not the one a
\* script was given before the polls inside it, and dead_conns names each
\* connection once; and no connection calls on_data of a script that ended.
NoDangling ==
    /\ \A o \in {conn, script} \ {0} : Exists(o)
    /\ \A i, j \in DOMAIN dead : Exists(dead[i]) /\ (dead[i] = dead[j] => i = j)
    /\ \A o \in DOMAIN objs : objs[o].own \/ o = script

Inv == TypeOK /\ NoDangling

\* Every open connection is the program's, with its callbacks, or about to
\* be deleted: nothing is open behind the user's back, whatever the order of
\* calls, hang-ups and commands (a second caller aside, see the README).
Attended ==
    \A o \in DOMAIN objs : Open(o) /\ ~crowded =>
        (o = conn \/ o \in Elements(dead)) /\ objs[o].cb

\* ax25tnc in tnc mode: a second caller gets no link while there is one, as
\* the comment in on_accept says.  It fails: on_accept only returns, and the
\* Router answers UA on the connection it has made.
SecondCallRefused ==
    [][prog = "tnc" /\ guarded /\ Busy =>
          \A o \in DOMAIN objs' \ DOMAIN objs : objs'[o].st # "CONNECTED"]_vars

\* ax25tnc in tnc mode: what is typed on an open link is data, never a
\* command (a line of text may begin with the letter of one).
TypedIsData == prog = "tnc" /\ Connected => data

\* When a program ends every link has been hung up, and in ax25sim and in
\* tnc mode a DISC that still waits in tx_queue_ is one that the last poll
\* of the shutdown found inside the turnaround: the poll offers it to the
\* channel before the program may leave.
HungUp ==
    [][pc' = "exit" /\ pc # "exit" /\ ~crowded =>
          /\ \A o \in DOMAIN objs' : objs'[o].st \notin {"CONNECTING", "CONNECTED"}
          /\ prog \in {"tnc", "sim"} /\ conn \in txq' => held]_vars

\* A hang-up of the user has gone to the channel before the program ends.
\* It fails in connect mode: "~." leaves without another poll, so a DISC
\* that Router::tx queued is never sent.
Farewell ==
    [][pc' = "exit" /\ pc # "exit" =>
          \A o \in DOMAIN objs : objs[o].st = "DISCONNECTING" => o \notin txq]_vars

\* Once g_quit or done is set, or the shutdown has begun, the program ends,
\* whatever script, answer or call is under way.  That a Ctrl-C gets so far
\* is not said: the count of two that sets g_quit is cleared by the loop of
\* ax25sim, and asked of modes that promise to end at one (CtrlCExits).
Stops == (quit \/ done \/ pc = "bye") ~> pc = "exit"

\* Ctrl-C ends monitor, unproto and test, as they print.  It fails: the
\* handler waits for a second one.
CtrlCExits == (prog \in Plain /\ ctrlc >= 1) ~> pc = "exit"
=============================================================================
