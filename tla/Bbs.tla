-------------------------------- MODULE Bbs --------------------------------
(***************************************************************************)
(* The bulletin board of src/bbs.cpp over Router and Kiss of ax25lib.cpp:  *)
(* one thread, whose callbacks poll the Router again.  A script that waits *)
(* for input, or an external command that runs, calls Router::poll from    *)
(* inside on_data, which was called from inside Kiss::poll: the call stack *)
(* is the variable "stack", and frames, expiries and other users' commands *)
(* come at every depth of it.                                              *)
(*                                                                         *)
(* Connections are reduced to their state and V(R) (module Connection has  *)
(* the rest), replies to the user are left out, and an I-frame carries     *)
(* whole lines, of which only the kind matters.  The peers are any peers:  *)
(* a poll reads any frames.                                                *)
(***************************************************************************)
EXTENDS Naturals, Sequences, SequencesExt, FiniteSets

CONSTANTS
    Users,      \* the stations that call
    Watched,    \* the one ClosedReaped is about (all are alike)
    Welcome,    \* the WELCOME entries: "none" (banner), "script" or "ext"
    Texts,      \* what an I-frame carries: sequences of lines
    MaxFrames,  \* bound on the frames read in all
    MaxBatch,   \* bound on the frames of one read()
    MaxVr       \* bound on the I-frames of a session

LineKind == {"run", "ext", "sh", "bye", "quit", "text"}

ASSUME WatchedAssumption == Watched \in Users
ASSUME WelcomeAssumption == Welcome \subseteq {"none", "script", "ext"}
ASSUME TextsAssumption == Texts \subseteq Seq(LineKind)
ASSUME BoundsAssumption == {MaxFrames, MaxBatch, MaxVr} \subseteq Nat

VARIABLES
    pc,         \* where run() and shutdown() are when the stack is empty
    running,    \* running_
    welcome,    \* commands_["WELCOME"]
    conn,       \* state_ of the Connection of each user, or "none"
    vr,         \* its vr_
    ses,        \* sessions_
    dead,       \* dead_
    stack,      \* activations, the innermost last
    budget,     \* frames that may still arrive
    unbroken    \* history: sessions never disconnected since on_accept

vars == <<pc, running, welcome, conn, vr, ses, dead, stack, budget, unbroken>>

ConnState == {"none", "DISCONNECTED", "CONNECTED", "DISCONNECTING"}
Session == [busy : BOOLEAN, shell : BOOLEAN, lines : Seq(LineKind)]
NoSession == [busy |-> FALSE, shell |-> FALSE, lines |-> <<"none">>]
NewSession == [busy |-> FALSE, shell |-> FALSE, lines |-> <<>>]

Frame == [u : Users, t : {"SABM", "DISC", "UA"}, n : {0}, lines : {<<>>}]
         \cup [u : Users, t : {"I"}, n : 0 .. MaxVr - 1, lines : Texts]

\* An activation.  "poll": Kiss::poll with the frames it has yet to route;
\* "accept": route() inside on_accept; "data": on_data with the lines it has
\* yet to look at; "script" and "ext": run_script and run_external, where
\* "on" tells that the script waits in on_recv, or that the child lives.
PollAct(frames) == [kind |-> "poll", rest |-> frames]
AcceptAct(u) == [kind |-> "accept", u |-> u]
DataAct(u, lines) == [kind |-> "data", u |-> u, rest |-> lines]
RunAct(kind, u) == [kind |-> kind, u |-> u, on |-> kind = "ext"]

Top == Last(stack)
TopIs(kind) == pc # "killed" /\ stack # <<>> /\ Top.kind = kind
Below == Front(stack)

Init ==
    /\ pc = "run" /\ running = TRUE
    /\ welcome \in Welcome
    /\ conn = [u \in Users |-> "none"] /\ vr = [u \in Users |-> 0]
    /\ ses = [u \in Users |-> NoSession]
    /\ dead = {} /\ stack = <<>>
    /\ budget = MaxFrames
    /\ unbroken = {}

(***************************************************************************)
(* Callbacks and commands, from sessions ss and stack st                   *)
(***************************************************************************)
\* run_script or run_external: busy_ while it runs.  A script that is not
\* found, or a fork or pipe that fails, is over at once.
Started(ss, st, u, kind) ==
    /\ ses' = [ss EXCEPT ![u].busy = TRUE]
    /\ stack' = Append(st, RunAct(kind, u))
NotStarted(ss, st, u) ==
    /\ ses' = [ss EXCEPT ![u].busy = FALSE]
    /\ stack' = st
RunCommandEntry(ss, st, u, value) == Started(ss, st, u, value) \/ NotStarted(ss, st, u)

OnConnected(ss, st, u) ==
    IF welcome = "none" THEN ses' = ss /\ stack' = st
    ELSE RunCommandEntry(ss, st, u, welcome)

OnAccept(u, st) ==
    OnConnected([ses EXCEPT ![u] = NewSession], Append(st, AcceptAct(u)), u)

OnDisconnected(us) ==
    /\ dead' = dead \cup us
    /\ unbroken' = unbroken \ us

Finished(u) == /\ ses' = [ses EXCEPT ![u].busy = FALSE]
               /\ stack' = Below

(***************************************************************************)
(* Router and Kiss                                                         *)
(***************************************************************************)
\* The stations send anything, but begin with a SABM, and a UA only to a
\* DISC.  (Other frames are answered with a DM, or ignored.)
MaySend(u, t) ==
    CASE t = "SABM" -> TRUE
      [] t = "UA"   -> conn[u] = "DISCONNECTING"
      [] OTHER      -> conn[u] # "none"

\* read() returns some frames; the call of poll comes on top of st.
Poll(st) ==
    \E k \in 0 .. (IF budget < MaxBatch THEN budget ELSE MaxBatch) :
      \E frames \in [1 .. k -> {f \in Frame : MaySend(f.u, f.t)}] :
        /\ stack' = Append(st, PollAct(frames))
        /\ budget' = budget - k

\* handle_frame of a SABM: a closed connection opens, an open one resets.
HandleSabm(u, st) ==
    /\ conn' = [conn EXCEPT ![u] = IF @ = "DISCONNECTED" THEN "CONNECTED" ELSE @]
    /\ vr' = [vr EXCEPT ![u] = IF conn[u] = "DISCONNECTING" THEN @ ELSE 0]
    /\ IF conn[u] = "DISCONNECTED" THEN OnConnected(ses, st, u)
                                   ELSE stack' = st /\ UNCHANGED ses

\* handle_frame of an I-frame in sequence, and on_data: the PTY shell takes
\* all lines up to "~." at once, else they are looked at one by one.
HandleI(f, st) ==
    /\ vr' = [vr EXCEPT ![f.u] = @ + 1]
    /\ IF ses[f.u].shell
       THEN /\ ses' = [ses EXCEPT ![f.u].shell = ~Contains(f.lines, "quit")]
            /\ stack' = st
       ELSE /\ stack' = Append(st, DataAct(f.u, f.lines))
            /\ UNCHANGED ses
    /\ UNCHANGED conn

\* route() of the next frame that Kiss::poll read.
Route ==
    /\ TopIs("poll") /\ Top.rest # <<>>
    /\ LET f == Head(Top.rest)
           st == Append(Below, PollAct(Tail(Top.rest)))
           Closes == \/ conn[f.u] = "CONNECTED" /\ f.t = "DISC"
                     \/ conn[f.u] = "DISCONNECTING" /\ f.t = "UA"
       IN  CASE conn[f.u] = "none" /\ f.t = "SABM" ->
                  /\ conn' = [conn EXCEPT ![f.u] = "DISCONNECTED"]
                  /\ OnAccept(f.u, st)
                  /\ unbroken' = unbroken \cup {f.u}
                  /\ UNCHANGED <<vr, dead>>
             [] conn[f.u] # "none" /\ f.t = "SABM" ->
                  HandleSabm(f.u, st) /\ UNCHANGED <<dead, unbroken>>
             [] Closes ->
                  /\ conn' = [conn EXCEPT ![f.u] = "DISCONNECTED"]
                  /\ OnDisconnected({f.u})
                  /\ stack' = st /\ UNCHANGED <<vr, ses>>
             [] conn[f.u] = "CONNECTED" /\ f.t = "I" /\ f.n = vr[f.u] ->
                  HandleI(f, st) /\ UNCHANGED <<dead, unbroken>>
             [] OTHER ->        \* answered with a DM or a REJ, or ignored
                  stack' = st /\ UNCHANGED <<conn, vr, ses, dead, unbroken>>
    /\ UNCHANGED <<pc, running, welcome, budget>>

\* route() goes on after on_accept, with the SABM of the call.
AcceptReturns ==
    /\ TopIs("accept")
    /\ HandleSabm(Top.u, Below)
    /\ UNCHANGED <<pc, running, welcome, dead, budget, unbroken>>

\* The end of Router::poll: ticks, in which links may fail.
PollReturns ==
    /\ TopIs("poll") /\ Top.rest = <<>>
    /\ \E failed \in SUBSET {u \in Users : conn[u] \in {"CONNECTED", "DISCONNECTING"}} :
          /\ conn' = [u \in Users |-> IF u \in failed THEN "DISCONNECTED" ELSE conn[u]]
          /\ OnDisconnected(failed)
    /\ stack' = Below
    /\ UNCHANGED <<pc, running, welcome, vr, ses, budget>>

(***************************************************************************)
(* Lines and commands                                                      *)
(***************************************************************************)
HandleCommand(u, line, st) ==
    CASE line = "run" -> RunCommandEntry(ses, st, u, "script") /\ UNCHANGED conn
      [] line = "ext" -> RunCommandEntry(ses, st, u, "ext") /\ UNCHANGED conn
      [] line = "sh"  -> /\ \E ok \in BOOLEAN :
                              ses' = [ses EXCEPT ![u].shell = @ \/ ok]
                         /\ stack' = st /\ UNCHANGED conn
      [] line = "bye" -> /\ conn' = [conn EXCEPT ![u] =
                              IF @ = "CONNECTED" THEN "DISCONNECTING" ELSE @]
                         /\ stack' = st /\ UNCHANGED ses
      [] OTHER        -> stack' = st /\ UNCHANGED <<conn, ses>>

\* on_data, the next line: queued for a script or command that runs.
OnData ==
    /\ TopIs("data") /\ Top.rest # <<>>
    /\ LET u == Top.u
           line == Head(Top.rest)
           st == Append(Below, DataAct(u, Tail(Top.rest)))
       IN  IF ses[u].busy
           THEN /\ ses' = [ses EXCEPT ![u].lines = Append(@, line)]
                /\ stack' = st /\ UNCHANGED conn
           ELSE HandleCommand(u, line, st)
    /\ UNCHANGED <<pc, running, welcome, vr, dead, budget, unbroken>>

DataReturns ==
    /\ TopIs("data") /\ Top.rest = <<>>
    /\ stack' = Below
    /\ UNCHANGED <<pc, running, welcome, conn, vr, ses, dead, budget, unbroken>>

(***************************************************************************)
(* run_script                                                              *)
(***************************************************************************)
ScriptStep(on) ==
    /\ stack' = Append(Below, [Top EXCEPT !.on = on])
    /\ UNCHANGED <<pc, running, welcome, conn, vr, dead, budget, unbroken>>

OnRecv == TopIs("script") /\ ~Top.on /\ ScriptStep(TRUE) /\ UNCHANGED ses

OnRecvLine ==
    /\ TopIs("script") /\ Top.on /\ ses[Top.u].lines # <<>>
    /\ ses' = [ses EXCEPT ![Top.u].lines = Tail(@)]
    /\ ScriptStep(FALSE)

\* The deadline may pass inside a nested poll: it is tested before the
\* queue, so a line may be waiting.
OnRecvNever == FALSE /\ ScriptStep(FALSE) /\ UNCHANGED ses  \* fault: no deadline
OnRecvTimeout == TopIs("script") /\ Top.on /\ ScriptStep(FALSE) /\ UNCHANGED ses

Reaped == dead \cup {u \in Users : conn[u] = "DISCONNECTED"}
OnRecvPollReaping ==    \* fault: the waiting loop does the work of run()
    /\ TopIs("script") /\ Top.on /\ ses[Top.u].lines = <<>>
    /\ Poll(stack)
    /\ conn' = [u \in Users |-> IF u \in Reaped THEN "none" ELSE conn[u]]
    /\ ses' = [u \in Users |-> IF u \in Reaped THEN NoSession ELSE ses[u]]
    /\ dead' = {}
    /\ UNCHANGED <<pc, running, welcome, vr, unbroken>>
OnRecvPoll ==
    /\ TopIs("script") /\ Top.on /\ ses[Top.u].lines = <<>>
    /\ Poll(stack)
    /\ UNCHANGED <<pc, running, welcome, conn, vr, ses, dead, unbroken>>

ScriptEnds ==
    /\ TopIs("script") /\ ~Top.on
    /\ Finished(Top.u)
    /\ UNCHANGED <<pc, running, welcome, conn, vr, dead, budget, unbroken>>

(***************************************************************************)
(* run_external: one round of its loop                                     *)
(***************************************************************************)
\* "~." ends the command; what was typed after it stays queued.
ExtAborted ==
    /\ TopIs("ext") /\ Contains(ses[Top.u].lines, "quit")
    /\ LET lines == ses[Top.u].lines
           q == CHOOSE i \in DOMAIN lines :
                   lines[i] = "quit" /\ \A j \in 1 .. i - 1 : lines[j] # "quit"
       IN  ses' = [ses EXCEPT ![Top.u].lines = SubSeq(lines, q + 1, Len(lines)),
                              ![Top.u].busy = FALSE]
    /\ stack' = Below
    /\ UNCHANGED <<pc, running, welcome, conn, vr, dead, budget, unbroken>>

\* Lines go to the child; then its exit is noticed, or the Router polled.
ExtRound ==
    /\ TopIs("ext") /\ ~Contains(ses[Top.u].lines, "quit")
    /\ IF Top.on
       THEN /\ ses' = [ses EXCEPT ![Top.u].lines = <<>>]
            /\ Poll(stack)
       ELSE /\ ses' = [ses EXCEPT ![Top.u].lines = <<>>, ![Top.u].busy = FALSE]
            /\ stack' = Below
            /\ UNCHANGED budget
    /\ UNCHANGED <<pc, running, welcome, conn, vr, dead, unbroken>>

\* A write to a child that has exited: nothing ignores SIGPIPE.
ExtSigpipe ==
    /\ TopIs("ext") /\ ~Top.on
    /\ ses[Top.u].lines # <<>> /\ Head(ses[Top.u].lines) # "quit"
    /\ pc' = "killed"
    /\ UNCHANGED <<running, welcome, conn, vr, ses, dead, stack, budget, unbroken>>

ChildExits ==
    /\ \E i \in DOMAIN stack :
          /\ stack[i].kind = "ext" /\ stack[i].on
          /\ stack' = [stack EXCEPT ![i].on = FALSE]
    /\ UNCHANGED <<pc, running, welcome, conn, vr, ses, dead, budget, unbroken>>

(***************************************************************************)
(* run() and shutdown()                                                    *)
(***************************************************************************)
At(label) == pc = label /\ stack = <<>>

RunPoll ==
    /\ At("run")
    /\ IF running THEN Poll(<<>>) /\ pc' = "shells"
                  ELSE pc' = "bye" /\ UNCHANGED <<stack, budget>>
    /\ UNCHANGED <<running, welcome, conn, vr, ses, dead, unbroken>>

PollShells ==
    /\ At("shells")
    /\ \E exited \in SUBSET {u \in Users : ses[u].shell} :
          ses' = [u \in Users |-> IF u \in exited THEN [ses[u] EXCEPT !.shell = FALSE]
                                                  ELSE ses[u]]
    /\ pc' = "reap"
    /\ UNCHANGED <<running, welcome, conn, vr, dead, stack, budget, unbroken>>

\* Sessions of dead_ and those found closed are deleted, with their
\* connections.
ReapDeadAgain ==        \* fault: dead_ is not cleared
    /\ At("reap")
    /\ conn' = [u \in Users |-> IF u \in Reaped THEN "none" ELSE conn[u]]
    /\ ses' = [u \in Users |-> IF u \in Reaped THEN NoSession ELSE ses[u]]
    /\ pc' = "run"
    /\ UNCHANGED <<running, welcome, vr, dead, stack, budget, unbroken>>
ReapDead ==
    /\ At("reap")
    /\ conn' = [u \in Users |-> IF u \in Reaped THEN "none" ELSE conn[u]]
    /\ ses' = [u \in Users |-> IF u \in Reaped THEN NoSession ELSE ses[u]]
    /\ dead' = {}
    /\ pc' = "run"
    /\ UNCHANGED <<running, welcome, vr, stack, budget, unbroken>>

Stop ==
    /\ running /\ running' = FALSE
    /\ UNCHANGED <<pc, welcome, conn, vr, ses, dead, stack, budget, unbroken>>

ShutdownDisconnects ==
    /\ At("bye")
    /\ conn' = [u \in Users |-> IF conn[u] = "CONNECTED" THEN "DISCONNECTING" ELSE conn[u]]
    /\ pc' = "drain"
    /\ UNCHANGED <<running, welcome, vr, ses, dead, stack, budget, unbroken>>

ShutdownPoll ==
    /\ At("drain")
    /\ Poll(<<>>)
    /\ pc' = "check"
    /\ UNCHANGED <<running, welcome, conn, vr, ses, dead, unbroken>>

Active == {u \in Users : conn[u] \notin {"none", "DISCONNECTED"}}
ShutdownCheckForever == \* fault: no timeout
    /\ At("check")
    /\ pc' = IF Active = {} THEN "exit" ELSE "drain"
    /\ UNCHANGED <<running, welcome, conn, vr, ses, dead, stack, budget, unbroken>>

\* All sessions down, or 2 seconds over; main() then deletes the BBS.
ShutdownCheck ==
    /\ At("check")
    /\ \/ pc' = "exit"
       \/ Active # {} /\ pc' = "drain"
    /\ UNCHANGED <<running, welcome, conn, vr, ses, dead, stack, budget, unbroken>>

Over == pc \in {"exit", "killed"} /\ UNCHANGED vars

RouterStep == Route \/ AcceptReturns \/ PollReturns
LineStep == OnData \/ DataReturns
Script == OnRecv \/ OnRecvLine \/ OnRecvTimeout \/ OnRecvPoll \/ ScriptEnds
External == ExtAborted \/ ExtRound \/ ExtSigpipe
Main == RunPoll \/ PollShells \/ ReapDead \/ ShutdownDisconnects \/ ShutdownPoll \/ ShutdownCheck
Thread == RouterStep \/ LineStep \/ Script \/ External \/ Main

Next == Thread \/ ChildExits \/ Stop \/ Over

\* The thread runs; deadlines pass (on_recv, shutdown); scripts do not
\* loop for ever and commands end, which is up to those who wrote them.
Fairness ==
    /\ WF_vars(Thread)
    /\ SF_vars(OnRecvTimeout) /\ SF_vars(ShutdownCheck /\ pc' = "exit")
    /\ SF_vars(ScriptEnds) /\ SF_vars(ChildExits)

Spec == Init /\ [][Next]_vars /\ Fairness
(***************************************************************************)
(* Properties                                                              *)
(***************************************************************************)
TypeOK ==
    /\ pc \in {"run", "shells", "reap", "bye", "drain", "check", "exit", "killed"}
    /\ running \in BOOLEAN /\ welcome \in Welcome
    /\ conn \in [Users -> ConnState] /\ vr \in [Users -> 0 .. MaxVr]
    /\ \A u \in Users : ses[u] \in Session \cup {NoSession}
    /\ \A i \in DOMAIN stack : stack[i].kind \in {"poll", "accept", "data", "script", "ext"}
    /\ dead \subseteq Users /\ unbroken \subseteq Users
    /\ budget \in 0 .. MaxFrames

\* The calls on the stack hold references to a session and its connection,
\* across polls that may end the session: both still exist.
NoDangling ==
    \A i \in DOMAIN stack : stack[i].kind # "poll" =>
        conn[stack[i].u] # "none" /\ ses[stack[i].u] # NoSession

\* Every connection of the Router belongs to a session, or nobody would
\* answer for it nor delete it.
Owned == \A u \in Users : conn[u] = "none" <=> ses[u] = NoSession

\* A user is busy only under a script or command: once it has ended, in
\* whatever way, lines are commands again.
BusyInside ==
    \A u \in Users : ses[u].busy =>
        \E i \in DOMAIN stack : stack[i].kind \in {"script", "ext"} /\ stack[i].u = u

\* The call stack, the sessions and the connections fit together, at every
\* depth of nested polls.
Inv == TypeOK /\ NoDangling /\ Owned /\ BusyInside

\* The reaper deletes no session that has been up since it was accepted.
LiveKept ==
    [][\A u \in unbroken : conn[u] = "CONNECTED" => conn'[u] # "none"]_vars

\* A closed session is deleted, or opened again, even when it closed deep
\* inside the scripts of others or its own.
ClosedReaped ==
    conn[Watched] = "DISCONNECTED" ~>
        (conn[Watched] # "DISCONNECTED" \/ pc \in {"exit", "killed"})

\* A signal ends the program, whatever runs.
Stops == ~running ~> pc \in {"exit", "killed"}
=============================================================================
