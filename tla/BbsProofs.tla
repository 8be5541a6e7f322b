----------------------------- MODULE BbsProofs -----------------------------
(***************************************************************************)
(* Proofs about the bulletin board (Bbs), for every set of users, lines    *)
(* and frames and polls nested to any depth.                               *)
(***************************************************************************)
EXTENDS Bbs, SequenceTheorems, WellFoundedInduction, TLAPS

-----------------------------------------------------------------------------
(* The inductive invariant                                                 *)

Activation == [kind : {"poll"}, rest : Seq(Frame)]
              \cup [kind : {"accept"}, u : Users]
              \cup [kind : {"data"}, u : Users, rest : Seq(LineKind)]
              \cup [kind : {"script", "ext"}, u : Users, on : BOOLEAN]

Types ==
    /\ TypeOK
    /\ ses \in [Users -> Session \cup {NoSession}]
    /\ stack \in Seq(Activation)

\* dead_ names connections that are still there and that were disconnected
\* since they were accepted.
Dying == \A u \in dead : conn[u] # "none" /\ u \notin unbroken

IInv == Types /\ NoDangling /\ Owned /\ BusyInside /\ Dying

\* The same, with the stack reduced to the users it serves and to those for
\* whom a script or a command runs.
UserOf(a) == IF a.kind = "poll" THEN {} ELSE {a.u}
RunnerOf(a) == IF a.kind \in {"script", "ext"} THEN {a.u} ELSE {}
Attended(st) == UNION {UserOf(st[i]) : i \in DOMAIN st}
Runners(st) == UNION {RunnerOf(st[i]) : i \in DOMAIN st}

Fit ==
    /\ \A u \in Attended(stack) : conn[u] # "none"
    /\ Owned
    /\ \A u \in Users : ses[u].busy => u \in Runners(stack)

LEMMA Reduced == Types => (IInv <=> Fit /\ Dying)
<1> SUFFICES ASSUME Types PROVE IInv <=> Fit /\ Dying
  OBVIOUS
<1>1. DOMAIN stack = 1 .. Len(stack) /\ \A i \in DOMAIN stack : stack[i] \in Activation
  BY LenProperties, ElementOfSeq DEF Types
<1>2. \A i \in DOMAIN stack :
         stack[i].kind # "poll" => stack[i].u \in Users /\ UserOf(stack[i]) = {stack[i].u}
  BY <1>1 DEF Activation, UserOf
<1>3. Owned => (NoDangling <=> \A u \in Attended(stack) : conn[u] # "none")
  <2>1. ASSUME Owned, NoDangling, NEW u \in Attended(stack) PROVE conn[u] # "none"
    <3>1. PICK i \in DOMAIN stack : u \in UserOf(stack[i])
      BY <2>1 DEF Attended
    <3>2. QED BY <2>1, <3>1 DEF UserOf, NoDangling
  <2>2. ASSUME Owned, \A u \in Attended(stack) : conn[u] # "none", NEW i \in DOMAIN stack,
               stack[i].kind # "poll"
        PROVE  conn[stack[i].u] # "none" /\ ses[stack[i].u] # NoSession
    <3>1. stack[i].u \in Attended(stack) /\ stack[i].u \in Users
      BY <1>2, <2>2 DEF Attended
    <3>2. QED BY <2>2, <3>1 DEF Owned
  <2>3. QED BY <2>1, <2>2 DEF NoDangling
<1>4. BusyInside <=> \A u \in Users : ses[u].busy => u \in Runners(stack)
  <2>1. ASSUME NEW u \in Users
        PROVE  (\E i \in DOMAIN stack : stack[i].kind \in {"script", "ext"} /\ stack[i].u = u)
                  <=> u \in Runners(stack)
    BY DEF Runners, RunnerOf
  <2>2. QED BY <2>1 DEF BusyInside
<1>5. QED BY <1>3, <1>4 DEF IInv, Fit

LEMMA ReducedNext == Types' => (IInv' <=> Fit' /\ Dying')
BY Reduced, PTL

-----------------------------------------------------------------------------
(* The stack                                                               *)

LEMMA Pushed ==
    ASSUME NEW st \in Seq(Activation), NEW a \in Activation
    PROVE  /\ Append(st, a) \in Seq(Activation) /\ Append(st, a) # <<>>
           /\ Attended(Append(st, a)) = Attended(st) \cup UserOf(a)
           /\ Runners(Append(st, a)) = Runners(st) \cup RunnerOf(a)
<1> DEFINE new == Append(st, a)
           n == Len(st)
<1>1. /\ n \in Nat /\ DOMAIN st = 1 .. n
      /\ new \in Seq(Activation) /\ Len(new) = n + 1 /\ DOMAIN new = 1 .. n + 1
      /\ \A i \in 1 .. n : new[i] = st[i]
      /\ new[n + 1] = a
  BY AppendProperties, LenProperties
<1>2. DOMAIN new = DOMAIN st \cup {n + 1}
  BY <1>1
<1>3. new # <<>>
  BY <1>1, EmptySeq
<1> HIDE DEF new, n
<1>4. Attended(new) = Attended(st) \cup UserOf(a)
  BY <1>1, <1>2 DEF Attended
<1>5. Runners(new) = Runners(st) \cup RunnerOf(a)
  BY <1>1, <1>2 DEF Runners
<1>6. QED BY <1>1, <1>3, <1>4, <1>5 DEF new

LEMMA Popped ==
    ASSUME stack \in Seq(Activation), stack # <<>>
    PROVE  /\ Below \in Seq(Activation) /\ Top \in Activation
           /\ Attended(stack) = Attended(Below) \cup UserOf(Top)
           /\ Runners(stack) = Runners(Below) \cup RunnerOf(Top)
<1> DEFINE n == Len(stack)
<1>1. n \in Nat \ {0} /\ DOMAIN stack = 1 .. n
  BY EmptySeq, LenProperties
<1>2. /\ Below \in Seq(Activation) /\ DOMAIN Below = 1 .. n - 1
      /\ \A i \in 1 .. n - 1 : Below[i] = stack[i]
      /\ stack[n] = Top
  BY <1>1, SubSeqProperties, LenProperties DEF Below, Front, Top, Last
<1>3. DOMAIN stack = DOMAIN Below \cup {n} /\ Top \in Activation
  BY <1>1, <1>2, ElementOfSeq
<1> HIDE DEF n
<1>4. Attended(stack) = Attended(Below) \cup UserOf(Top)
  BY <1>2, <1>3 DEF Attended
<1>5. Runners(stack) = Runners(Below) \cup RunnerOf(Top)
  BY <1>2, <1>3 DEF Runners
<1>6. QED BY <1>2, <1>3, <1>4, <1>5

LEMMA EmptyStack == <<>> \in Seq(Activation) /\ Attended(<<>>) = {} /\ Runners(<<>>) = {}
BY EmptySeq DEF Attended, Runners

-----------------------------------------------------------------------------
(* Sessions                                                                *)

Sessions == [Users -> Session \cup {NoSession}]

LEMMA SessionFacts ==
    /\ NoSession \notin Session /\ NewSession \in Session
    /\ NoSession.busy = FALSE /\ NoSession.shell = FALSE /\ NewSession.busy = FALSE
<1>1. <<"none">> \notin Seq(LineKind)
  <2>1. SUFFICES ASSUME <<"none">> \in Seq(LineKind) PROVE FALSE
    OBVIOUS
  <2>2. <<"none">>[1] \in LineKind
    BY <2>1, ElementOfSeq, LenProperties
  <2>3. QED BY <2>2 DEF LineKind
<1>2. QED BY <1>1, EmptySeq DEF Session, NoSession, NewSession

LEMMA SetBusy ==
    ASSUME NEW ss \in Sessions, NEW u \in Users, ss[u] \in Session, NEW b \in BOOLEAN,
           ses' = [ss EXCEPT ![u].busy = b]
    PROVE  /\ ses' \in Sessions /\ ses'[u] \in Session /\ ses'[u].busy = b
           /\ \A v \in Users : v # u => ses'[v] = ss[v]
BY DEF Sessions, Session

LEMMA SetLines ==
    ASSUME NEW u \in Users, ses \in Sessions, ses[u] \in Session, NEW l \in Seq(LineKind),
           ses' = [ses EXCEPT ![u].lines = l]
    PROVE  /\ ses' \in Sessions /\ ses'[u] \in Session /\ ses'[u].busy = ses[u].busy
           /\ \A v \in Users : v # u => ses'[v] = ses[v]
BY DEF Sessions, Session

LEMMA SetShell ==
    ASSUME NEW u \in Users, ses \in Sessions, ses[u] \in Session, NEW b \in BOOLEAN,
           ses' = [ses EXCEPT ![u].shell = b]
    PROVE  /\ ses' \in Sessions /\ ses'[u] \in Session /\ ses'[u].busy = ses[u].busy
           /\ \A v \in Users : v # u => ses'[v] = ses[v]
BY DEF Sessions, Session

LEMMA SessionOf ==
    ASSUME Types, Owned, NEW u \in Users
    PROVE  /\ conn[u] # "none" => ses[u] \in Session
           /\ conn[u] = "none" => ses[u] = NoSession
BY DEF Types, Owned

-----------------------------------------------------------------------------
(* Steps that concern one user, and steps that leave the users alone       *)

LEMMA OneUser ==
    ASSUME Fit, NEW u \in Users, conn'[u] # "none", ses'[u] \in Session,
           \A v \in Users : v # u => ses'[v] = ses[v] /\ conn'[v] = conn[v],
           Attended(stack') \subseteq Attended(stack) \cup {u},
           Runners(stack) \subseteq Runners(stack') \cup {u},
           ses'[u].busy => u \in Runners(stack'), Attended(stack) \subseteq Users
    PROVE  Fit'
<1>1. \A v \in Attended(stack') : conn'[v] # "none"
  BY DEF Fit
<1>2. Owned'
  BY SessionFacts DEF Fit, Owned
<1>3. ASSUME NEW v \in Users, ses'[v].busy PROVE v \in Runners(stack')
  BY <1>3 DEF Fit
<1>4. QED BY <1>1, <1>2, <1>3 DEF Fit

LEMMA NoUser ==
    ASSUME Fit, Attended(stack) \subseteq Users,
           \A v \in Users : /\ ses'[v].busy => ses[v].busy
                            /\ ses'[v] = NoSession <=> ses[v] = NoSession
                            /\ conn'[v] = "none" <=> conn[v] = "none",
           Attended(stack') \subseteq Attended(stack), Runners(stack) \subseteq Runners(stack')
    PROVE  Fit'
<1>1. \A v \in Attended(stack') : conn'[v] # "none"
  BY DEF Fit
<1>2. Owned'
  BY DEF Fit, Owned
<1>3. \A v \in Users : ses'[v].busy => v \in Runners(stack')
  BY DEF Fit
<1>4. QED BY <1>1, <1>2, <1>3 DEF Fit

LEMMA AttendedUsers == ASSUME NEW st \in Seq(Activation)
                       PROVE  Attended(st) \subseteq Users /\ Runners(st) \subseteq Users
<1>1. \A i \in DOMAIN st : st[i] \in Activation
  BY LenProperties, ElementOfSeq
<1>2. \A a \in Activation : UserOf(a) \subseteq Users /\ RunnerOf(a) \subseteq Users
  BY DEF Activation, UserOf, RunnerOf
<1>3. QED BY <1>1, <1>2 DEF Attended, Runners

\* A script, a command or neither starts for u.
LEMMA Entry ==
    ASSUME NEW ss \in Sessions, NEW st \in Seq(Activation), NEW u \in Users, ss[u] \in Session,
           NEW kind \in {"script", "ext"}, RunCommandEntry(ss, st, u, kind)
    PROVE  /\ ses' \in Sessions /\ ses'[u] \in Session
           /\ \A v \in Users : v # u => ses'[v] = ss[v]
           /\ stack' \in Seq(Activation)
           /\ Attended(stack') \subseteq Attended(st) \cup {u}
           /\ Runners(st) \subseteq Runners(stack')
           /\ ses'[u].busy => u \in Runners(stack')
<1>1. CASE Started(ss, st, u, kind)
  <2>1. RunAct(kind, u) \in Activation
    BY DEF RunAct, Activation
  <2>2. UserOf(RunAct(kind, u)) = {u} /\ RunnerOf(RunAct(kind, u)) = {u}
    BY DEF RunAct, UserOf, RunnerOf
  <2>3. ses' = [ss EXCEPT ![u].busy = TRUE] /\ stack' = Append(st, RunAct(kind, u))
    BY <1>1 DEF Started
  <2>4. /\ ses' \in Sessions /\ ses'[u] \in Session
        /\ \A v \in Users : v # u => ses'[v] = ss[v]
    BY <2>3, SetBusy
  <2>5. /\ stack' \in Seq(Activation)
        /\ Attended(stack') = Attended(st) \cup {u} /\ Runners(stack') = Runners(st) \cup {u}
    BY <2>1, <2>2, <2>3, Pushed
  <2>6. QED BY <2>4, <2>5
<1>2. CASE NotStarted(ss, st, u)
  BY <1>2, SetBusy DEF NotStarted
<1>3. QED BY <1>1, <1>2 DEF RunCommandEntry

LEMMA Connected ==
    ASSUME NEW ss \in Sessions, NEW st \in Seq(Activation), NEW u \in Users, ss[u] \in Session,
           welcome \in Welcome, OnConnected(ss, st, u)
    PROVE  /\ ses' \in Sessions /\ ses'[u] \in Session
           /\ \A v \in Users : v # u => ses'[v] = ss[v]
           /\ stack' \in Seq(Activation)
           /\ Attended(stack') \subseteq Attended(st) \cup {u}
           /\ Runners(st) \subseteq Runners(stack')
           /\ ses'[u].busy => ss[u].busy \/ u \in Runners(stack')
<1>1. CASE welcome = "none"
  BY <1>1 DEF OnConnected
<1>2. CASE welcome # "none"
  <2>1. welcome \in {"script", "ext"} /\ RunCommandEntry(ss, st, u, welcome)
    BY <1>2, WelcomeAssumption DEF OnConnected
  <2>2. QED BY <2>1, Entry
<1>3. QED BY <1>1, <1>2

\* Router::poll is called, on top of st.
LEMMA Polled ==
    ASSUME NEW st \in Seq(Activation), Poll(st), budget \in 0 .. MaxFrames
    PROVE  /\ stack' \in Seq(Activation) /\ budget' \in 0 .. MaxFrames
           /\ Attended(stack') = Attended(st) /\ Runners(stack') = Runners(st)
<1> DEFINE most == IF budget < MaxBatch THEN budget ELSE MaxBatch
<1>1. MaxBatch \in Nat /\ MaxFrames \in Nat
  BY BoundsAssumption
<1>2. PICK k \in 0 .. most : \E frames \in [1 .. k -> {f \in Frame : MaySend(f.u, f.t)}] :
                                /\ stack' = Append(st, PollAct(frames)) /\ budget' = budget - k
  BY DEF Poll
<1>3. PICK frames \in [1 .. k -> {f \in Frame : MaySend(f.u, f.t)}] :
              stack' = Append(st, PollAct(frames)) /\ budget' = budget - k
  BY <1>2
<1>4. k \in Nat /\ k <= budget
  BY <1>1
<1>5. frames \in [1 .. k -> Frame]
  OBVIOUS
<1>6. frames \in Seq(Frame)
  BY <1>4, <1>5, SeqDef
<1>7. PollAct(frames) \in Activation
  BY <1>6 DEF PollAct, Activation
<1>8. UserOf(PollAct(frames)) = {} /\ RunnerOf(PollAct(frames)) = {}
  BY DEF UserOf, RunnerOf, PollAct
<1>9. budget' \in 0 .. MaxFrames
  BY <1>1, <1>3, <1>4
<1>10. QED BY <1>3, <1>7, <1>8, <1>9, Pushed

-----------------------------------------------------------------------------
(* Router and Kiss                                                         *)

Others ==
    /\ pc \in {"run", "shells", "reap", "bye", "drain", "check", "exit", "killed"}
    /\ running \in BOOLEAN /\ welcome \in Welcome
    /\ vr \in [Users -> 0 .. MaxVr]
    /\ dead \subseteq Users /\ unbroken \subseteq Users
    /\ budget \in 0 .. MaxFrames
Conns == [Users -> ConnState]

Parts == Others /\ conn \in Conns /\ ses \in Sessions /\ stack \in Seq(Activation)

LEMMA TypesAre == Types <=> Parts
<1>1. ASSUME stack \in Seq(Activation), NEW i \in DOMAIN stack
      PROVE  stack[i].kind \in {"poll", "accept", "data", "script", "ext"}
  <2>1. stack[i] \in Activation
    BY <1>1, LenProperties, ElementOfSeq
  <2>2. QED BY <2>1 DEF Activation
<1>2. QED BY <1>1 DEF Types, TypeOK, Others, Conns, Sessions, Parts

LEMMA TypesAreNext ==
    Types' <=> Others' /\ conn' \in Conns /\ ses' \in Sessions /\ stack' \in Seq(Activation)
<1>1. Types' <=> Parts'
  BY TypesAre, PTL
<1>2. QED BY <1>1 DEF Parts, Conns, Sessions

Sound == Types /\ Fit /\ Dying

LEMMA SoundFacts ==
    ASSUME Sound
    PROVE  /\ Others /\ conn \in Conns /\ ses \in Sessions /\ stack \in Seq(Activation)
           /\ Attended(stack) \subseteq Users
           /\ \A u \in Attended(stack) : conn[u] # "none" /\ ses[u] \in Session
           /\ \A u \in Users : conn[u] # "none" <=> ses[u] \in Session
           /\ \A u \in Users : conn[u] = "none" <=> ses[u] = NoSession
BY TypesAre, AttendedUsers, SessionOf, SessionFacts DEF Sound, Fit, Parts

\* The next of the frames that were read is taken from the innermost poll.
LEMMA NextFrame ==
    ASSUME Sound, TopIs("poll"), Top.rest # <<>>,
           NEW st, st = Append(Below, PollAct(Tail(Top.rest)))
    PROVE  /\ Head(Top.rest) \in Frame
           /\ st \in Seq(Activation)
           /\ Attended(st) = Attended(stack) /\ Runners(st) = Runners(stack)
<1>1. /\ Below \in Seq(Activation) /\ Top \in Activation
      /\ Attended(stack) = Attended(Below) \cup UserOf(Top)
      /\ Runners(stack) = Runners(Below) \cup RunnerOf(Top)
  BY Popped, SoundFacts DEF TopIs
<1>2. Top.rest \in Seq(Frame) /\ UserOf(Top) = {} /\ RunnerOf(Top) = {}
  BY <1>1 DEF TopIs, Activation, UserOf, RunnerOf
<1>3. Head(Top.rest) \in Frame /\ Tail(Top.rest) \in Seq(Frame)
  BY <1>2, HeadTailProperties
<1>4. PollAct(Tail(Top.rest)) \in Activation
  BY <1>3 DEF PollAct, Activation
<1>5. UserOf(PollAct(Tail(Top.rest))) = {} /\ RunnerOf(PollAct(Tail(Top.rest))) = {}
  BY DEF PollAct, UserOf, RunnerOf
<1>6. /\ st \in Seq(Activation)
      /\ Attended(st) = Attended(Below) \cup {} /\ Runners(st) = Runners(Below) \cup {}
  BY <1>1, <1>4, <1>5, Pushed
<1>7. QED BY <1>1, <1>2, <1>3, <1>6

LEMMA FrameFacts ==
    ASSUME NEW f \in Frame
    PROVE  f.u \in Users /\ (f.t = "I" => f.n \in 0 .. MaxVr - 1 /\ f.lines \in Seq(LineKind))
<1>1. CASE f \in [u : Users, t : {"SABM", "DISC", "UA"}, n : {0}, lines : {<<>>}]
  BY <1>1
<1>2. CASE f \in [u : Users, t : {"I"}, n : 0 .. MaxVr - 1, lines : Texts]
  BY <1>2, TextsAssumption
<1>3. QED BY <1>1, <1>2 DEF Frame

LEMMA SabmKeeps ==
    ASSUME Sound, NEW u \in Users, conn[u] # "none",
           NEW st \in Seq(Activation), Attended(st) \subseteq Attended(stack),
           Runners(stack) \subseteq Runners(st), HandleSabm(u, st),
           UNCHANGED <<pc, running, welcome, dead, budget, unbroken>>
    PROVE  Sound'
<1>1. conn' \in Conns /\ conn'[u] # "none" /\ \A v \in Users : v # u => conn'[v] = conn[v]
  BY SoundFacts DEF HandleSabm, Conns, ConnState
<1>2. vr' \in [Users -> 0 .. MaxVr]
  BY SoundFacts, BoundsAssumption DEF HandleSabm, Others
<1>3. ses[u] \in Session /\ ses \in Sessions /\ welcome \in Welcome
  BY SoundFacts DEF Others
<1>4. /\ ses' \in Sessions /\ ses'[u] \in Session
      /\ \A v \in Users : v # u => ses'[v] = ses[v]
      /\ stack' \in Seq(Activation)
      /\ Attended(stack') \subseteq Attended(st) \cup {u} /\ Runners(st) \subseteq Runners(stack')
      /\ ses'[u].busy => ses[u].busy \/ u \in Runners(stack')
  <2>1. CASE OnConnected(ses, st, u)
    BY <1>3, <2>1, Connected
  <2>2. CASE stack' = st /\ ses' = ses
    BY <1>3, <2>2
  <2>3. QED BY <2>1, <2>2 DEF HandleSabm
<1>5. Types'
  <2>1. Others'
    BY <1>2, SoundFacts DEF Others
  <2>2. QED BY <1>1, <1>4, <2>1, TypesAreNext
<1>6. ses'[u].busy => u \in Runners(stack')
  BY <1>4 DEF Sound, Fit
<1>7. Fit'
  BY <1>1, <1>4, <1>6, SoundFacts, OneUser DEF Sound
<1>8. Dying'
  BY <1>1, SoundFacts DEF Dying, Sound, Others
<1>9. QED BY <1>5, <1>7, <1>8 DEF Sound

LEMMA RouteKeeps == Sound /\ Route => Sound'
<1> SUFFICES ASSUME Sound, Route PROVE Sound'
  OBVIOUS
<1> DEFINE f == Head(Top.rest)
           u == f.u
           st == Append(Below, PollAct(Tail(Top.rest)))
           Closes == \/ conn[u] = "CONNECTED" /\ f.t = "DISC"
                     \/ conn[u] = "DISCONNECTING" /\ f.t = "UA"
<1>1. TopIs("poll") /\ Top.rest # <<>>
  BY DEF Route
<1>2. /\ f \in Frame /\ st \in Seq(Activation)
      /\ Attended(st) = Attended(stack) /\ Runners(st) = Runners(stack)
  BY <1>1, NextFrame
<1>3. u \in Users /\ (f.t = "I" => f.n \in 0 .. MaxVr - 1 /\ f.lines \in Seq(LineKind))
  BY <1>2, FrameFacts
<1>4. /\ UNCHANGED <<pc, running, welcome, budget>>
      /\ \/ /\ conn[u] = "none" /\ conn' = [conn EXCEPT ![u] = "DISCONNECTED"]
            /\ OnAccept(u, st) /\ unbroken' = unbroken \cup {u}
            /\ UNCHANGED <<vr, dead>>
         \/ /\ conn[u] # "none" /\ HandleSabm(u, st)
            /\ UNCHANGED <<dead, unbroken>>
         \/ /\ Closes /\ conn' = [conn EXCEPT ![u] = "DISCONNECTED"]
            /\ OnDisconnected({u}) /\ stack' = st /\ UNCHANGED <<vr, ses>>
         \/ /\ conn[u] = "CONNECTED" /\ f.t = "I" /\ f.n = vr[u] /\ HandleI(f, st)
            /\ UNCHANGED <<dead, unbroken>>
         \/ stack' = st /\ UNCHANGED <<conn, vr, ses, dead, unbroken>>
  BY Zenon DEF Route
<1> HIDE DEF f, st
<1>5. CASE /\ conn[u] = "none" /\ conn' = [conn EXCEPT ![u] = "DISCONNECTED"]
           /\ OnAccept(u, st) /\ unbroken' = unbroken \cup {u}
           /\ UNCHANGED <<vr, dead>>
  <2> DEFINE ss == [ses EXCEPT ![u] = NewSession]
             top == Append(st, AcceptAct(u))
  <2>1. /\ ss \in Sessions /\ ss[u] = NewSession
        /\ \A v \in Users : v # u => ss[v] = ses[v]
    BY <1>3, SoundFacts, SessionFacts DEF Sessions
  <2>2. /\ top \in Seq(Activation)
        /\ Attended(top) = Attended(stack) \cup {u} /\ Runners(top) = Runners(stack)
    <3>1. AcceptAct(u) \in Activation /\ UserOf(AcceptAct(u)) = {u} /\ RunnerOf(AcceptAct(u)) = {}
      BY <1>3 DEF AcceptAct, Activation, UserOf, RunnerOf
    <3>2. /\ top \in Seq(Activation)
          /\ Attended(top) = Attended(st) \cup {u} /\ Runners(top) = Runners(st) \cup {}
      BY <1>2, <3>1, Pushed
    <3>3. QED BY <1>2, <3>2
  <2>3. OnConnected(ss, top, u)
    BY <1>5 DEF OnAccept
  <2> HIDE DEF ss, top
  <2>4. /\ ses' \in Sessions /\ ses'[u] \in Session
        /\ \A v \in Users : v # u => ses'[v] = ss[v]
        /\ stack' \in Seq(Activation)
        /\ Attended(stack') \subseteq Attended(top) \cup {u} /\ Runners(top) \subseteq Runners(stack')
        /\ ses'[u].busy => ss[u].busy \/ u \in Runners(stack')
    <3>1. ss[u] \in Session /\ welcome \in Welcome
      BY <2>1, SessionFacts, SoundFacts DEF Others
    <3>2. QED BY <1>3, <2>1, <2>2, <2>3, <3>1, Connected
  <2>5. /\ conn' \in Conns /\ conn'[u] # "none"
        /\ \A v \in Users : v # u => conn'[v] = conn[v]
    BY <1>3, <1>5, SoundFacts DEF Conns, ConnState
  <2>6. Fit'
    <3>1. /\ \A v \in Users : v # u => ses'[v] = ses[v] /\ conn'[v] = conn[v]
          /\ ses'[u].busy => u \in Runners(stack')
          /\ Attended(stack') \subseteq Attended(stack) \cup {u}
          /\ Runners(stack) \subseteq Runners(stack') \cup {u}
      BY <2>1, <2>2, <2>4, <2>5, SessionFacts
    <3>2. QED BY <1>3, <2>4, <2>5, <3>1, SoundFacts, OneUser DEF Sound
  <2>7. Others'
    BY <1>3, <1>4, <1>5, SoundFacts DEF Others
  <2>8. Dying'
    BY <1>3, <1>5, <2>5, SoundFacts DEF Dying, Sound, Others
  <2>9. QED BY <2>4, <2>5, <2>6, <2>7, <2>8, TypesAreNext DEF Sound
<1>6. CASE /\ conn[u] # "none" /\ HandleSabm(u, st)
           /\ UNCHANGED <<dead, unbroken>>
  BY <1>2, <1>3, <1>4, <1>6, SabmKeeps
<1>7. CASE /\ Closes /\ conn' = [conn EXCEPT ![u] = "DISCONNECTED"]
           /\ OnDisconnected({u}) /\ stack' = st /\ UNCHANGED <<vr, ses>>
  <2>1. /\ conn' \in Conns /\ conn'[u] # "none" /\ conn[u] # "none"
        /\ \A v \in Users : v # u => conn'[v] = conn[v]
    BY <1>3, <1>7, SoundFacts DEF Conns, ConnState
  <2>2. dead' = dead \cup {u} /\ unbroken' = unbroken \ {u}
    BY <1>7 DEF OnDisconnected
  <2>3. Others'
    BY <1>3, <1>4, <1>7, <2>2, SoundFacts DEF Others
  <2>4. Fit'
    BY <1>2, <1>7, <2>1, SoundFacts, NoUser DEF Sound
  <2>5. Dying'
    BY <2>1, <2>2, SoundFacts DEF Dying, Sound, Others
  <2>6. QED BY <1>2, <1>7, <2>1, <2>3, <2>4, <2>5, SoundFacts, TypesAreNext DEF Sound
<1>8. CASE /\ conn[u] = "CONNECTED" /\ f.t = "I" /\ f.n = vr[u] /\ HandleI(f, st)
           /\ UNCHANGED <<dead, unbroken>>
  <2>1. vr' \in [Users -> 0 .. MaxVr] /\ conn' = conn
    <3>1. vr \in [Users -> 0 .. MaxVr] /\ vr' = [vr EXCEPT ![u] = vr[u] + 1]
      BY <1>8, SoundFacts DEF HandleI, Others
    <3>2. vr[u] + 1 \in 0 .. MaxVr
      BY <1>3, <1>8, BoundsAssumption
    <3>3. QED BY <1>3, <1>8, <3>1, <3>2 DEF HandleI
  <2>2. ses[u] \in Session
    BY <1>3, <1>8, SoundFacts
  <2>3. /\ ses' \in Sessions /\ ses'[u] \in Session /\ ses'[u].busy = ses[u].busy
        /\ \A v \in Users : v # u => ses'[v] = ses[v]
        /\ stack' \in Seq(Activation)
        /\ Attended(stack') \subseteq Attended(stack) \cup {u} /\ Runners(stack') = Runners(stack)
    <3>1. CASE ses[u].shell
      <4>1. /\ ses' = [ses EXCEPT ![u].shell = ~Contains(f.lines, "quit")]
            /\ stack' = st
        BY <1>8, <3>1 DEF HandleI
      <4>2. (~Contains(f.lines, "quit")) \in BOOLEAN
        OBVIOUS
      <4> HIDE DEF u
      <4>3. QED BY <1>2, <1>3, <2>2, <4>1, <4>2, SetShell, SoundFacts
    <3>2. CASE ~ses[u].shell
      <4>1. stack' = Append(st, DataAct(u, f.lines)) /\ ses' = ses
        BY <1>8, <3>2 DEF HandleI
      <4>2. DataAct(u, f.lines) \in Activation
        BY <1>3, <1>8 DEF DataAct, Activation
      <4>3. UserOf(DataAct(u, f.lines)) = {u} /\ RunnerOf(DataAct(u, f.lines)) = {}
        BY DEF DataAct, UserOf, RunnerOf
      <4>4. /\ stack' \in Seq(Activation) /\ Attended(stack') = Attended(st) \cup {u}
            /\ Runners(stack') = Runners(st) \cup {}
        BY <1>2, <4>1, <4>2, <4>3, Pushed
      <4>5. QED BY <1>2, <2>2, <4>1, <4>4, SoundFacts
    <3>3. QED BY <3>1, <3>2
  <2>4. Others'
    BY <1>4, <1>8, <2>1, SoundFacts DEF Others
  <2>5. Fit'
    <3>1. ses'[u].busy => u \in Runners(stack')
      BY <1>3, <2>3 DEF Sound, Fit
    <3>2. conn'[u] # "none" /\ \A v \in Users : v # u => ses'[v] = ses[v] /\ conn'[v] = conn[v]
      BY <1>8, <2>1, <2>3
    <3>3. QED BY <1>3, <2>3, <3>1, <3>2, SoundFacts, OneUser DEF Sound
  <2>6. Dying'
    BY <1>8, <2>1 DEF Dying, Sound
  <2>7. QED BY <2>1, <2>3, <2>4, <2>5, <2>6, SoundFacts, TypesAreNext DEF Sound
<1>9. CASE stack' = st /\ UNCHANGED <<conn, vr, ses, dead, unbroken>>
  <2>1. Others'
    BY <1>4, <1>9, SoundFacts DEF Others
  <2>2. Fit'
    BY <1>2, <1>9, SoundFacts, NoUser DEF Sound
  <2>3. Dying'
    BY <1>9 DEF Dying, Sound
  <2>4. QED BY <1>2, <1>9, <2>1, <2>2, <2>3, SoundFacts, TypesAreNext DEF Sound
<1>10. QED BY <1>4, <1>5, <1>6, <1>7, <1>8, <1>9

\* The innermost activation serves u.
LEMMA Serving ==
    ASSUME Sound, TopIs(Top.kind), Top.kind # "poll"
    PROVE  /\ Top.u \in Users /\ conn[Top.u] # "none" /\ ses[Top.u] \in Session
           /\ Below \in Seq(Activation) /\ Top \in Activation
           /\ Attended(stack) = Attended(Below) \cup {Top.u}
           /\ Runners(stack) = Runners(Below) \cup RunnerOf(Top)
<1>1. /\ Below \in Seq(Activation) /\ Top \in Activation
      /\ Attended(stack) = Attended(Below) \cup UserOf(Top)
      /\ Runners(stack) = Runners(Below) \cup RunnerOf(Top)
  BY Popped, SoundFacts DEF TopIs
<1>2. UserOf(Top) = {Top.u} /\ Top.u \in Users
  BY <1>1 DEF Activation, UserOf
<1>3. QED BY <1>1, <1>2, SoundFacts

LEMMA AcceptReturnsKeeps == Sound /\ AcceptReturns => Sound'
<1> SUFFICES ASSUME Sound, AcceptReturns PROVE Sound'
  OBVIOUS
<1>1. /\ TopIs(Top.kind) /\ Top.kind = "accept" /\ HandleSabm(Top.u, Below)
      /\ UNCHANGED <<pc, running, welcome, dead, budget, unbroken>>
  BY DEF AcceptReturns, TopIs
<1>2. /\ Top.u \in Users /\ conn[Top.u] # "none" /\ Below \in Seq(Activation)
      /\ Attended(Below) \subseteq Attended(stack) /\ Runners(stack) = Runners(Below)
  <2>1. RunnerOf(Top) = {}
    BY <1>1 DEF RunnerOf
  <2>2. QED BY <1>1, <2>1, Serving
<1>3. QED BY <1>1, <1>2, SabmKeeps

LEMMA PollReturnsKeeps == Sound /\ PollReturns => Sound'
<1> SUFFICES ASSUME Sound, PollReturns PROVE Sound'
  OBVIOUS
<1>1. /\ stack' \in Seq(Activation)
      /\ Attended(stack') = Attended(stack) /\ Runners(stack') = Runners(stack)
  <2>1. /\ Below \in Seq(Activation) /\ Top \in Activation
        /\ Attended(stack) = Attended(Below) \cup UserOf(Top)
        /\ Runners(stack) = Runners(Below) \cup RunnerOf(Top)
    BY Popped, SoundFacts DEF PollReturns, TopIs
  <2>2. UserOf(Top) = {} /\ RunnerOf(Top) = {}
    BY DEF PollReturns, TopIs, UserOf, RunnerOf
  <2>3. QED BY <2>1, <2>2 DEF PollReturns
<1>2. PICK failed \in SUBSET {u \in Users : conn[u] \in {"CONNECTED", "DISCONNECTING"}} :
         /\ conn' = [u \in Users |-> IF u \in failed THEN "DISCONNECTED" ELSE conn[u]]
         /\ dead' = dead \cup failed /\ unbroken' = unbroken \ failed
  BY DEF PollReturns, OnDisconnected
<1>3. UNCHANGED <<pc, running, welcome, vr, ses, budget>>
  BY DEF PollReturns
<1>4. conn' \in Conns /\ \A v \in Users : conn'[v] = "none" <=> conn[v] = "none"
  BY <1>2, SoundFacts DEF Conns, ConnState
<1>5. Others'
  BY <1>2, <1>3, SoundFacts DEF Others
<1>6. Fit'
  BY <1>1, <1>3, <1>4, SoundFacts, NoUser DEF Sound
<1>7. Dying'
  BY <1>2, <1>4, SoundFacts DEF Dying, Sound, Others
<1>8. QED BY <1>1, <1>3, <1>4, <1>5, <1>6, <1>7, SoundFacts, TypesAreNext DEF Sound

-----------------------------------------------------------------------------
(* Lines, scripts and commands                                             *)

\* A step of an activation that serves u, which changes the session of u
\* and perhaps, but not to "none", the state of the connection.
LEMMA ActKeeps ==
    ASSUME Sound, NEW u \in Users, conn[u] # "none",
           UNCHANGED <<running, welcome, vr, dead, unbroken>>,
           pc' \in {"run", "shells", "reap", "bye", "drain", "check", "exit", "killed"},
           budget' \in 0 .. MaxFrames,
           conn' = conn \/ (conn' = [conn EXCEPT ![u] = "DISCONNECTING"]),
           ses' \in Sessions, ses'[u] \in Session, \A v \in Users : v # u => ses'[v] = ses[v],
           stack' \in Seq(Activation), Attended(stack') \subseteq Attended(stack) \cup {u},
           Runners(stack) \subseteq Runners(stack') \cup {u},
           ses'[u].busy => u \in Runners(stack')
    PROVE  Sound'
<1>1. /\ conn' \in Conns /\ conn'[u] # "none" /\ \A v \in Users : v # u => conn'[v] = conn[v]
      /\ \A v \in Users : conn'[v] = "none" <=> conn[v] = "none"
  BY SoundFacts DEF Conns, ConnState
<1>2. Others'
  BY SoundFacts DEF Others
<1>3. Fit'
  BY <1>1, SoundFacts, OneUser DEF Sound
<1>4. Dying'
  BY <1>1, SoundFacts DEF Dying, Sound, Others
<1>5. QED BY <1>1, <1>2, <1>3, <1>4, TypesAreNext DEF Sound

LEMMA OnDataKeeps == Sound /\ OnData => Sound'
<1> SUFFICES ASSUME Sound, OnData PROVE Sound'
  OBVIOUS
<1> DEFINE u == Top.u
           line == Head(Top.rest)
           st == Append(Below, DataAct(u, Tail(Top.rest)))
<1>1. /\ TopIs(Top.kind) /\ Top.kind = "data" /\ Top.rest # <<>>
      /\ UNCHANGED <<pc, running, welcome, vr, dead, budget, unbroken>>
      /\ IF ses[u].busy
         THEN /\ ses' = [ses EXCEPT ![u].lines = Append(@, line)]
              /\ stack' = st /\ UNCHANGED conn
         ELSE HandleCommand(u, line, st)
  BY DEF OnData, TopIs
<1>2. /\ u \in Users /\ conn[u] # "none" /\ ses[u] \in Session
      /\ Below \in Seq(Activation) /\ Top \in Activation
      /\ Attended(stack) = Attended(Below) \cup {u}
      /\ Runners(stack) = Runners(Below) \cup RunnerOf(Top)
  BY <1>1, Serving
<1>3. Top.rest \in Seq(LineKind) /\ RunnerOf(Top) = {}
  BY <1>1, <1>2 DEF Activation, RunnerOf
<1>4. line \in LineKind /\ Tail(Top.rest) \in Seq(LineKind)
  BY <1>1, <1>3, HeadTailProperties
<1>5. st \in Seq(Activation) /\ Attended(st) = Attended(stack) /\ Runners(st) = Runners(stack)
  <2> DEFINE a == DataAct(u, Tail(Top.rest))
  <2>1. a \in Activation /\ UserOf(a) = {u} /\ RunnerOf(a) = {}
    BY <1>2, <1>4 DEF DataAct, Activation, UserOf, RunnerOf
  <2> HIDE DEF a
  <2>2. /\ Append(Below, a) \in Seq(Activation)
        /\ Attended(Append(Below, a)) = Attended(Below) \cup {u}
        /\ Runners(Append(Below, a)) = Runners(Below) \cup {}
    BY <1>2, <2>1, Pushed
  <2>3. QED BY <1>2, <1>3, <2>2 DEF a
<1> HIDE DEF u, line, st
<1>6. SUFFICES /\ ses' \in Sessions /\ ses'[u] \in Session
               /\ \A v \in Users : v # u => ses'[v] = ses[v]
               /\ stack' \in Seq(Activation) /\ Attended(stack') \subseteq Attended(st) \cup {u}
               /\ Runners(st) \subseteq Runners(stack')
               /\ ses'[u].busy => ses[u].busy \/ u \in Runners(stack')
               /\ conn' = conn \/ (conn' = [conn EXCEPT ![u] = "DISCONNECTING"])
  <2>1. pc' \in {"run", "shells", "reap", "bye", "drain", "check", "exit", "killed"}
        /\ budget' \in 0 .. MaxFrames
    BY <1>1, SoundFacts DEF Others
  <2>2. ses'[u].busy => u \in Runners(stack')
    BY <1>2, <1>5, <1>6 DEF Sound, Fit
  <2>3. QED BY <1>1, <1>2, <1>5, <1>6, <2>1, <2>2, ActKeeps
<1>7. CASE ses[u].busy
  <2>1. ses' = [ses EXCEPT ![u].lines = Append(ses[u].lines, line)] /\ stack' = st /\ conn' = conn
    BY <1>1, <1>7
  <2>2. Append(ses[u].lines, line) \in Seq(LineKind)
    BY <1>2, <1>4, AppendProperties DEF Session
  <2>3. QED BY <1>2, <1>5, <2>1, <2>2, SetLines, SoundFacts
<1>8. CASE ~ses[u].busy
  <2>1. HandleCommand(u, line, st)
    BY <1>1, <1>8
  <2>2. CASE line \in {"run", "ext"}
    <3>1. PICK kind \in {"script", "ext"} : RunCommandEntry(ses, st, u, kind) /\ conn' = conn
      BY <2>1, <2>2 DEF HandleCommand
    <3>2. QED BY <1>2, <1>5, <3>1, Entry, SoundFacts
  <2>3. CASE line = "sh"
    <3>1. PICK ok \in BOOLEAN : ses' = [ses EXCEPT ![u].shell = ses[u].shell \/ ok]
      BY <2>1, <2>3 DEF HandleCommand
    <3>2. stack' = st /\ conn' = conn
      BY <2>1, <2>3 DEF HandleCommand
    <3>3. (ses[u].shell \/ ok) \in BOOLEAN
      OBVIOUS
    <3>4. QED BY <1>2, <1>5, <3>1, <3>2, <3>3, SetShell, SoundFacts
  <2>4. CASE line = "bye"
    <3>1. /\ conn' = [conn EXCEPT ![u] = IF conn[u] = "CONNECTED" THEN "DISCONNECTING" ELSE conn[u]]
          /\ stack' = st /\ ses' = ses
      BY <2>1, <2>4 DEF HandleCommand
    <3>2. conn' = conn \/ (conn' = [conn EXCEPT ![u] = "DISCONNECTING"])
      BY <1>2, <3>1, SoundFacts DEF Conns
    <3>3. QED BY <1>2, <1>5, <3>1, <3>2, SoundFacts
  <2>5. CASE line \notin {"run", "ext", "sh", "bye"}
    <3>1. stack' = st /\ ses' = ses /\ conn' = conn
      BY <2>1, <2>5 DEF HandleCommand
    <3>2. QED BY <1>2, <1>5, <3>1, SoundFacts
  <2>6. QED BY <2>2, <2>3, <2>4, <2>5
<1>9. QED BY <1>7, <1>8

LEMMA DataReturnsKeeps == Sound /\ DataReturns => Sound'
<1> SUFFICES ASSUME Sound, DataReturns PROVE Sound'
  OBVIOUS
<1>1. /\ TopIs(Top.kind) /\ Top.kind = "data" /\ stack' = Below
      /\ UNCHANGED <<pc, running, welcome, conn, vr, ses, dead, budget, unbroken>>
  BY DEF DataReturns, TopIs
<1>2. RunnerOf(Top) = {}
  BY <1>1 DEF RunnerOf
<1>3. /\ Below \in Seq(Activation) /\ Attended(Below) \subseteq Attended(stack)
      /\ Runners(stack) = Runners(Below)
  BY <1>1, <1>2, Serving
<1>4. Fit'
  BY <1>1, <1>3, SoundFacts, NoUser DEF Sound
<1>5. Others' /\ Dying'
  BY <1>1, SoundFacts DEF Others, Sound, Dying
<1>6. QED BY <1>1, <1>3, <1>4, <1>5, SoundFacts, TypesAreNext DEF Sound

LEMMA Running ==
    ASSUME Sound, TopIs(Top.kind), Top.kind \in {"script", "ext"}
    PROVE  /\ Top.u \in Users /\ conn[Top.u] # "none" /\ ses[Top.u] \in Session
           /\ ses[Top.u].lines \in Seq(LineKind)
           /\ Below \in Seq(Activation) /\ Top \in Activation
           /\ Attended(stack) = Attended(Below) \cup {Top.u}
           /\ Runners(stack) = Runners(Below) \cup {Top.u}
<1>1. RunnerOf(Top) = {Top.u}
  BY DEF RunnerOf
<1>2. QED BY <1>1, Serving DEF Session

\* A script goes on, or waits.
LEMMA ScriptGoesOn ==
    ASSUME Sound, TopIs("script"), NEW on \in BOOLEAN, ScriptStep(on),
           \/ ses' = ses
           \/ \E l \in Seq(LineKind) : ses' = [ses EXCEPT ![Top.u].lines = l]
    PROVE  Sound'
<1> DEFINE a == [Top EXCEPT !.on = on]
           u == Top.u
<1>1. TopIs(Top.kind) /\ Top.kind = "script"
  BY DEF TopIs
<1>2. /\ u \in Users /\ conn[u] # "none" /\ ses[u] \in Session
      /\ Below \in Seq(Activation) /\ Top \in Activation
      /\ Attended(stack) = Attended(Below) \cup {u}
      /\ Runners(stack) = Runners(Below) \cup {u}
  BY <1>1, Running
<1>3. a \in Activation /\ UserOf(a) = {u} /\ RunnerOf(a) = {u}
  <2>1. Top \in [kind : {"script", "ext"}, u : Users, on : BOOLEAN]
    BY <1>1, <1>2 DEF Activation
  <2>2. a \in [kind : {"script", "ext"}, u : Users, on : BOOLEAN] /\ a.u = u /\ a.kind = "script"
    BY <1>1, <2>1
  <2>3. QED BY <2>2 DEF Activation, UserOf, RunnerOf
<1>4. /\ stack' = Append(Below, a)
      /\ UNCHANGED <<pc, running, welcome, conn, vr, dead, budget, unbroken>>
  BY DEF ScriptStep
<1> HIDE DEF a, u
<1>5. /\ stack' \in Seq(Activation) /\ Attended(stack') = Attended(stack)
      /\ Runners(stack') = Runners(stack)
  BY <1>2, <1>3, <1>4, Pushed
<1>6. /\ ses' \in Sessions /\ ses'[u] \in Session /\ ses'[u].busy = ses[u].busy
      /\ \A v \in Users : v # u => ses'[v] = ses[v]
  <2>1. CASE ses' = ses
    BY <1>2, <2>1, SoundFacts
  <2>2. CASE \E l \in Seq(LineKind) : ses' = [ses EXCEPT ![u].lines = l]
    <3>1. PICK l \in Seq(LineKind) : ses' = [ses EXCEPT ![u].lines = l]
      BY <2>2
    <3>2. QED BY <1>2, <3>1, SetLines, SoundFacts
  <2>3. QED BY <2>1, <2>2 DEF u
<1>7. /\ pc' \in {"run", "shells", "reap", "bye", "drain", "check", "exit", "killed"}
      /\ budget' \in 0 .. MaxFrames
  BY <1>4, SoundFacts DEF Others
<1>8. ses'[u].busy => u \in Runners(stack')
  BY <1>2, <1>5
<1>9. QED BY <1>2, <1>4, <1>5, <1>6, <1>7, <1>8, ActKeeps

\* A script or a command ends: its user is no longer busy.
LEMMA Ended ==
    ASSUME Sound, TopIs(Top.kind), Top.kind \in {"script", "ext"}, stack' = Below,
           UNCHANGED <<pc, running, welcome, conn, vr, dead, budget, unbroken>>,
           ses' \in Sessions, ses'[Top.u] \in Session, ses'[Top.u].busy = FALSE,
           \A v \in Users : v # Top.u => ses'[v] = ses[v]
    PROVE  Sound'
<1> DEFINE u == Top.u
<1>1. /\ u \in Users /\ conn[u] # "none"
      /\ Below \in Seq(Activation)
      /\ Attended(stack) = Attended(Below) \cup {u}
      /\ Runners(stack) = Runners(Below) \cup {u}
  BY Running
<1>2. /\ pc' \in {"run", "shells", "reap", "bye", "drain", "check", "exit", "killed"}
      /\ budget' \in 0 .. MaxFrames
  BY SoundFacts DEF Others
<1>3. /\ conn' = conn /\ Attended(stack') \subseteq Attended(stack) \cup {u}
      /\ Runners(stack) \subseteq Runners(stack') \cup {u}
      /\ stack' \in Seq(Activation)
      /\ ses'[u].busy => u \in Runners(stack')
  BY <1>1
<1> HIDE DEF u
<1>4. ses'[u] \in Session /\ \A v \in Users : v # u => ses'[v] = ses[v]
  BY DEF u
<1>5. QED BY <1>1, <1>2, <1>3, <1>4, ActKeeps

\* Router::poll is called from a script or command that waits.
LEMMA NestedPoll ==
    ASSUME Sound, TopIs(Top.kind), Top.kind \in {"script", "ext"}, Poll(stack),
           UNCHANGED <<pc, running, welcome, conn, vr, dead, unbroken>>,
           \/ ses' = ses
           \/ ses' = [ses EXCEPT ![Top.u].lines = <<>>]
    PROVE  Sound'
<1> DEFINE u == Top.u
<1>1. /\ u \in Users /\ conn[u] # "none" /\ ses[u] \in Session
      /\ stack \in Seq(Activation) /\ budget \in 0 .. MaxFrames
      /\ u \in Runners(stack)
  BY Running, SoundFacts DEF Others
<1>2. /\ stack' \in Seq(Activation) /\ budget' \in 0 .. MaxFrames
      /\ Attended(stack') = Attended(stack) /\ Runners(stack') = Runners(stack)
  BY <1>1, Polled
<1>3. pc' \in {"run", "shells", "reap", "bye", "drain", "check", "exit", "killed"}
  BY SoundFacts DEF Others
<1>4. /\ ses' \in Sessions /\ ses'[u] \in Session
      /\ \A v \in Users : v # u => ses'[v] = ses[v]
  <2>1. CASE ses' = ses
    BY <1>1, <2>1, SoundFacts
  <2>2. CASE ses' = [ses EXCEPT ![u].lines = <<>>]
    <3> HIDE DEF u
    <3>1. <<>> \in Seq(LineKind)
      BY EmptySeq
    <3>2. QED BY <1>1, <2>2, <3>1, SetLines, SoundFacts
  <2>3. QED BY <2>1, <2>2
<1> HIDE DEF u
<1>5. QED BY <1>1, <1>2, <1>3, <1>4, ActKeeps

LEMMA ScriptKeeps == Sound /\ Script => Sound'
<1> SUFFICES ASSUME Sound, Script PROVE Sound'
  OBVIOUS
<1>1. /\ TopIs(Top.kind) /\ Top.kind = "script" /\ TopIs("script")
  BY DEF Script, OnRecv, OnRecvLine, OnRecvTimeout, OnRecvPoll, ScriptEnds, TopIs
<1>2. CASE OnRecv \/ OnRecvTimeout
  BY <1>1, <1>2, ScriptGoesOn DEF OnRecv, OnRecvTimeout
<1>3. CASE OnRecvLine
  <2>1. ses[Top.u].lines \in Seq(LineKind) /\ ses[Top.u].lines # <<>>
    BY <1>1, <1>3, Running DEF OnRecvLine
  <2>2. Tail(ses[Top.u].lines) \in Seq(LineKind)
    BY <2>1, HeadTailProperties
  <2>3. ses' = [ses EXCEPT ![Top.u].lines = Tail(ses[Top.u].lines)] /\ ScriptStep(FALSE)
    BY <1>3 DEF OnRecvLine
  <2>4. QED BY <1>1, <2>2, <2>3, ScriptGoesOn
<1>4. CASE OnRecvPoll
  BY <1>1, <1>4, NestedPoll DEF OnRecvPoll
<1>5. CASE ScriptEnds
  <2>1. /\ stack' = Below /\ ses' = [ses EXCEPT ![Top.u].busy = FALSE]
        /\ UNCHANGED <<pc, running, welcome, conn, vr, dead, budget, unbroken>>
    BY <1>5 DEF ScriptEnds, Finished
  <2>2. Top.u \in Users /\ ses[Top.u] \in Session /\ ses \in Sessions
    BY <1>1, Running, SoundFacts
  <2>3. /\ ses' \in Sessions /\ ses'[Top.u] \in Session /\ ses'[Top.u].busy = FALSE
        /\ \A v \in Users : v # Top.u => ses'[v] = ses[v]
    BY <2>1, <2>2, SetBusy
  <2>4. QED BY <1>1, <2>1, <2>3, Ended
<1>6. QED BY <1>2, <1>3, <1>4, <1>5 DEF Script

LEMMA Least == ASSUME NEW S \in SUBSET Nat, S # {} PROVE \E i \in S : \A j \in S : i <= j
<1> DEFINE Less == {p \in Nat \X Nat : p[1] < p[2]}
<1>1. OpToRel(<, Nat) = Less
  BY Zenon DEF OpToRel
<1>2. \E i \in S : \A j \in S : <<j, i>> \notin OpToRel(<, Nat)
  BY NatLessThanWellFounded, WFMin
<1>3. \E i \in S : \A j \in S : <<j, i>> \notin Less
  BY <1>1, <1>2, Zenon
<1>4. \A a, b \in Nat : <<a, b>> \notin Less => b <= a
  OBVIOUS
<1> HIDE DEF Less
<1>5. QED BY <1>3, <1>4

LEMMA ExternalKeeps == Sound /\ External => Sound'
<1> SUFFICES ASSUME Sound, External PROVE Sound'
  OBVIOUS
<1> DEFINE u == Top.u
           lines == ses[u].lines
<1>1. /\ TopIs(Top.kind) /\ Top.kind = "ext"
  BY DEF External, ExtAborted, ExtRound, ExtSigpipe, TopIs
<1>2. u \in Users /\ ses[u] \in Session /\ ses \in Sessions /\ lines \in Seq(LineKind)
  BY <1>1, Running, SoundFacts
<1>3. CASE ExtAborted
  <2> DEFINE q == CHOOSE i \in DOMAIN lines :
                     lines[i] = "quit" /\ \A j \in 1 .. i - 1 : lines[j] # "quit"
             rest == SubSeq(lines, q + 1, Len(lines))
  <2>1. q \in DOMAIN lines
    <3>1. PICK k \in 1 .. Len(lines) : lines[k] = "quit"
      BY <1>3 DEF ExtAborted, Contains
    <3>2. Len(lines) \in Nat /\ DOMAIN lines = 1 .. Len(lines)
      BY <1>2, LenProperties
    <3> DEFINE Quits == {i \in Nat : i \in DOMAIN lines /\ lines[i] = "quit"}
    <3>3. k \in Quits /\ Quits \in SUBSET Nat
      BY <3>1, <3>2
    <3>4. PICK i \in Quits : \A j \in Quits : i <= j
      BY <3>3, Least
    <3>5. i \in DOMAIN lines /\ lines[i] = "quit" /\ \A j \in 1 .. i - 1 : lines[j] # "quit"
      BY <3>2, <3>4
    <3>6. \E a \in DOMAIN lines : lines[a] = "quit" /\ \A j \in 1 .. a - 1 : lines[j] # "quit"
      BY <3>5
    <3> HIDE DEF lines
    <3>7. QED BY <3>6, Zenon
  <2>2. rest \in Seq(LineKind)
    <3> HIDE DEF q, lines
    <3>1. Len(lines) \in Nat /\ DOMAIN lines = 1 .. Len(lines)
      BY <1>2, LenProperties
    <3>2. q + 1 \in 1 .. Len(lines) + 1 /\ Len(lines) \in q .. Len(lines)
      BY <2>1, <3>1
    <3>3. QED BY <1>2, <3>1, <3>2, SubSeqProperties
  <2>3. /\ ses' = [ses EXCEPT ![u].lines = rest, ![u].busy = FALSE]
        /\ stack' = Below
        /\ UNCHANGED <<pc, running, welcome, conn, vr, dead, budget, unbroken>>
    BY <1>3 DEF ExtAborted
  <2> HIDE DEF rest
  <2>4. /\ ses' \in Sessions /\ ses'[u] \in Session /\ ses'[u].busy = FALSE
        /\ \A v \in Users : v # u => ses'[v] = ses[v]
    BY <1>2, <2>2, <2>3 DEF Sessions, Session
  <2>5. QED BY <1>1, <2>3, <2>4, Ended
<1>4. CASE ExtRound
  <2>1. CASE Top.on
    BY <1>1, <1>4, <2>1, NestedPoll DEF ExtRound
  <2>2. CASE ~Top.on
    <3>1. /\ ses' = [ses EXCEPT ![u].lines = <<>>, ![u].busy = FALSE]
          /\ stack' = Below
          /\ UNCHANGED <<pc, running, welcome, conn, vr, dead, budget, unbroken>>
      BY <1>4, <2>2 DEF ExtRound
    <3>2. <<>> \in Seq(LineKind)
      BY EmptySeq
    <3>3. /\ ses' \in Sessions /\ ses'[u] \in Session /\ ses'[u].busy = FALSE
          /\ \A v \in Users : v # u => ses'[v] = ses[v]
      BY <1>2, <3>1, <3>2 DEF Sessions, Session
    <3>4. QED BY <1>1, <3>1, <3>3, Ended
  <2>3. QED BY <2>1, <2>2
<1>5. CASE ExtSigpipe
  <2>1. /\ pc' = "killed" /\ UNCHANGED <<running, welcome, conn, vr, ses, dead, stack, budget, unbroken>>
    BY <1>5 DEF ExtSigpipe
  <2>2. Others' /\ Dying'
    BY <2>1, SoundFacts DEF Others, Dying, Sound
  <2>3. Fit'
    BY <2>1, SoundFacts, NoUser DEF Sound
  <2>4. QED BY <2>1, <2>2, <2>3, SoundFacts, TypesAreNext DEF Sound
<1>6. QED BY <1>3, <1>4, <1>5 DEF External

-----------------------------------------------------------------------------
(* run(), shutdown() and the environment                                   *)

\* The main loop works with no activation on the stack, hence no reference.
LEMMA MainKeeps == Sound /\ Main => Sound'
<1> SUFFICES ASSUME Sound, Main PROVE Sound'
  OBVIOUS
<1>1. Others /\ conn \in Conns /\ ses \in Sessions /\ Attended(stack) \subseteq Users
  BY SoundFacts
<1>2. stack = <<>>
  BY DEF Main, RunPoll, PollShells, ReapDead, ShutdownDisconnects, ShutdownPoll, ShutdownCheck, At
<1>3. stack \in Seq(Activation) /\ Attended(stack) = {} /\ Runners(stack) = {}
  BY <1>2, EmptyStack
<1>4. CASE RunPoll \/ ShutdownPoll
  <2>1. /\ pc' \in {"bye", "shells", "check"}
        /\ Poll(stack) \/ UNCHANGED <<stack, budget>>
        /\ UNCHANGED <<running, welcome, conn, vr, ses, dead, unbroken>>
    BY <1>2, <1>4 DEF RunPoll, ShutdownPoll
  <2>2. /\ stack' \in Seq(Activation) /\ budget' \in 0 .. MaxFrames
        /\ Attended(stack') = Attended(stack) /\ Runners(stack') = Runners(stack)
    <3>1. CASE Poll(stack)
      BY <1>1, <1>3, <3>1, Polled DEF Others
    <3>2. CASE UNCHANGED <<stack, budget>>
      BY <1>1, <1>3, <3>2 DEF Others
    <3>3. QED BY <2>1, <3>1, <3>2
  <2>3. Others' /\ Dying'
    BY <1>1, <2>1, <2>2 DEF Others, Dying, Sound
  <2>4. Fit'
    BY <1>1, <2>1, <2>2, NoUser DEF Sound
  <2>5. QED BY <1>1, <2>1, <2>2, <2>3, <2>4, TypesAreNext DEF Sound
<1>5. CASE PollShells
  <2>1. PICK exited \in SUBSET {u \in Users : ses[u].shell} :
           ses' = [u \in Users |-> IF u \in exited THEN [ses[u] EXCEPT !.shell = FALSE]
                                                  ELSE ses[u]]
    BY <1>5 DEF PollShells
  <2>2. /\ pc' = "reap"
        /\ UNCHANGED <<running, welcome, conn, vr, dead, stack, budget, unbroken>>
    BY <1>5 DEF PollShells
  <2>3. ASSUME NEW u \in Users
        PROVE  /\ ses'[u] \in Session \cup {NoSession}
               /\ ses'[u].busy => ses[u].busy
               /\ ses'[u] = NoSession <=> ses[u] = NoSession
    <3>1. CASE u \in exited
      <4>1. ses[u] \in Session
        BY <1>1, <3>1, SessionFacts DEF Sessions
      <4>2. ses'[u] \in Session /\ ses'[u].busy = ses[u].busy
        BY <2>1, <3>1, <4>1 DEF Session
      <4>3. QED BY <4>1, <4>2, SessionFacts
    <3>2. CASE u \notin exited
      BY <1>1, <2>1, <3>2 DEF Sessions
    <3>3. QED BY <3>1, <3>2
  <2>4. ses' \in Sessions
    BY <2>1, <2>3 DEF Sessions
  <2>5. Others' /\ Dying'
    BY <1>1, <2>2 DEF Others, Dying, Sound
  <2>6. Fit'
    BY <1>1, <2>2, <2>3, NoUser DEF Sound
  <2>7. QED BY <1>1, <1>3, <2>2, <2>4, <2>5, <2>6, TypesAreNext DEF Sound
<1>6. CASE ReapDead
  <2>1. /\ conn' = [u \in Users |-> IF u \in Reaped THEN "none" ELSE conn[u]]
        /\ ses' = [u \in Users |-> IF u \in Reaped THEN NoSession ELSE ses[u]]
        /\ dead' = {} /\ pc' = "run"
        /\ UNCHANGED <<running, welcome, vr, stack, budget, unbroken>>
    BY <1>6 DEF ReapDead
  <2>2. conn' \in Conns /\ ses' \in Sessions
    BY <1>1, <2>1 DEF Conns, ConnState, Sessions
  <2>3. Others' /\ Dying'
    BY <1>1, <2>1 DEF Others, Dying
  <2>4. Owned'
    BY <2>1 DEF Sound, Fit, Owned
  <2>5. \A u \in Users : ~ses'[u].busy
    BY <1>3, <2>1, SessionFacts DEF Sound, Fit
  <2>6. Fit'
    BY <1>3, <2>1, <2>4, <2>5 DEF Fit
  <2>7. QED BY <1>3, <2>1, <2>2, <2>3, <2>6, TypesAreNext DEF Sound
<1>7. CASE ShutdownDisconnects \/ ShutdownCheck
  <2>1. /\ pc' \in {"drain", "exit"}
        /\ UNCHANGED <<running, welcome, vr, ses, dead, stack, budget, unbroken>>
        /\ \/ conn' = conn
           \/ conn' = [u \in Users |-> IF conn[u] = "CONNECTED" THEN "DISCONNECTING" ELSE conn[u]]
    BY <1>7 DEF ShutdownDisconnects, ShutdownCheck
  <2>2. conn' \in Conns /\ \A u \in Users : conn'[u] = "none" <=> conn[u] = "none"
    BY <1>1, <2>1 DEF Conns, ConnState
  <2>3. Others' /\ Dying'
    BY <1>1, <2>1, <2>2 DEF Others, Dying, Sound
  <2>4. Fit'
    BY <1>1, <2>1, <2>2, NoUser DEF Sound
  <2>5. QED BY <1>1, <1>3, <2>1, <2>2, <2>3, <2>4, TypesAreNext DEF Sound
<1>8. QED BY <1>4, <1>5, <1>6, <1>7 DEF Main

\* A child ends under whatever lies above it on the stack.
LEMMA ChildExitsKeeps == Sound /\ ChildExits => Sound'
<1> SUFFICES ASSUME Sound, ChildExits PROVE Sound'
  OBVIOUS
<1>1. PICK i \in DOMAIN stack : /\ stack[i].kind = "ext"
                               /\ stack' = [stack EXCEPT ![i].on = FALSE]
  BY DEF ChildExits
<1>2. UNCHANGED <<pc, running, welcome, conn, vr, ses, dead, budget, unbroken>>
  BY DEF ChildExits
<1> DEFINE a == [stack[i] EXCEPT !.on = FALSE]
<1>3. /\ stack \in Seq(Activation) /\ DOMAIN stack = 1 .. Len(stack)
      /\ stack[i] \in Activation
  BY SoundFacts, LenProperties, ElementOfSeq
<1>4. a \in Activation /\ UserOf(a) = UserOf(stack[i]) /\ RunnerOf(a) = RunnerOf(stack[i])
  <2>1. stack[i] \in [kind : {"script", "ext"}, u : Users, on : BOOLEAN]
    BY <1>1, <1>3 DEF Activation
  <2>2. /\ a \in [kind : {"script", "ext"}, u : Users, on : BOOLEAN]
        /\ a.u = stack[i].u /\ a.kind = stack[i].kind
    BY <2>1
  <2>3. QED BY <2>2 DEF Activation, UserOf, RunnerOf
<1>5. stack' = [stack EXCEPT ![i] = a]
  BY <1>1
<1> HIDE DEF a
<1>6. /\ stack' \in Seq(Activation) /\ Len(stack') = Len(stack)
      /\ \A j \in 1 .. Len(stack) : stack'[j] = IF j = i THEN a ELSE stack[j]
  BY <1>3, <1>4, <1>5, ExceptSeq
<1>7. DOMAIN stack' = DOMAIN stack
  BY <1>5
<1>8. /\ \A j \in DOMAIN stack : UserOf(stack'[j]) = UserOf(stack[j])
      /\ \A j \in DOMAIN stack : RunnerOf(stack'[j]) = RunnerOf(stack[j])
  BY <1>3, <1>4, <1>6
<1>9. Attended(stack') = Attended(stack) /\ Runners(stack') = Runners(stack)
  BY <1>7, <1>8 DEF Attended, Runners
<1>10. Others' /\ Dying'
  BY <1>2, SoundFacts DEF Others, Dying, Sound
<1>11. Fit'
  BY <1>2, <1>9, SoundFacts, NoUser DEF Sound
<1>12. QED BY <1>2, <1>6, <1>10, <1>11, SoundFacts, TypesAreNext DEF Sound

LEMMA IdleKeeps == Sound /\ (Stop \/ UNCHANGED vars) => Sound'
<1> SUFFICES ASSUME Sound, Stop \/ UNCHANGED vars PROVE Sound'
  OBVIOUS
<1>1. /\ running' \in BOOLEAN
      /\ UNCHANGED <<pc, welcome, conn, vr, ses, dead, stack, budget, unbroken>>
  BY SoundFacts DEF Stop, vars, Others
<1>2. Others' /\ Dying'
  BY <1>1, SoundFacts DEF Others, Dying, Sound
<1>3. Fit'
  BY <1>1, SoundFacts, NoUser DEF Sound
<1>4. QED BY <1>1, <1>2, <1>3, SoundFacts, TypesAreNext DEF Sound

LEMMA InitSound == Init => Sound
<1> SUFFICES ASSUME Init PROVE Sound
  OBVIOUS
<1>1. stack \in Seq(Activation) /\ Attended(stack) = {} /\ Runners(stack) = {}
  BY EmptyStack DEF Init
<1>2. Others /\ Dying
  BY BoundsAssumption DEF Init, Others, Dying
<1>3. conn \in Conns /\ ses \in Sessions
  BY DEF Init, Conns, ConnState, Sessions
<1>4. Fit
  BY <1>1, SessionFacts DEF Init, Fit, Owned
<1>5. QED BY <1>1, <1>2, <1>3, <1>4, TypesAre DEF Parts, Sound

LEMMA NextSound == Sound /\ [Next]_vars => Sound'
BY RouteKeeps, AcceptReturnsKeeps, PollReturnsKeeps, OnDataKeeps, DataReturnsKeeps, ScriptKeeps,
   ExternalKeeps, MainKeeps, ChildExitsKeeps, IdleKeeps
   DEF Next, Thread, RouterStep, LineStep, Over

-----------------------------------------------------------------------------
(* The theorems                                                            *)

\* The inductive invariant holds in every reachable state.
THEOREM Invariance == Spec => []IInv
<1>1. Sound => IInv
  BY Reduced DEF Sound
<1>2. QED BY <1>1, InitSound, NextSound, PTL DEF Spec

\* However deep scripts, commands and polls nest and whichever links end
\* meanwhile: no activation holds a session or a connection that was
\* deleted, every connection has its session, and nobody stays busy once
\* the script or command is over.
THEOREM ReferencesHold == Spec => []Inv
<1>1. IInv => Inv
  BY DEF IInv, Types, Inv
<1>2. QED BY <1>1, Invariance, PTL

\* The reaper never deletes a connected session that nobody disconnected:
\* dead_ holds none, for a new session of the same station neither.
THEOREM ReaperSpares == Spec => LiveKept
<1>1. IInv /\ [Next]_vars =>
         [\A u \in unbroken : conn[u] = "CONNECTED" => conn'[u] # "none"]_vars
  <2> SUFFICES ASSUME IInv, Next, NEW u \in unbroken, conn[u] = "CONNECTED"
               PROVE  conn'[u] # "none"
    BY DEF vars
  <2>1. u \in Users /\ conn \in [Users -> ConnState] /\ u \notin dead
    BY DEF IInv, Types, TypeOK, Dying
  <2>2. CASE ReapDead
    BY <2>1, <2>2 DEF ReapDead, Reaped
  <2>3. CASE Route
    <3>1. \/ conn' = conn
          \/ \E v \in Users : conn' = [conn EXCEPT ![v] = "DISCONNECTED"]
          \/ \E v \in Users : conn' = [conn EXCEPT ![v] = IF conn[v] = "DISCONNECTED"
                                                          THEN "CONNECTED" ELSE conn[v]]
      <4>1. Head(Top.rest).u \in Users
        BY <2>3, Reduced, NextFrame, FrameFacts DEF Route, Sound, IInv
      <4>2. QED BY <2>3, <4>1, Zenon DEF Route, HandleSabm, HandleI
    <3>2. QED BY <2>1, <3>1
  <2>4. CASE RouterStep /\ ~Route
    BY <2>1, <2>4 DEF RouterStep, AcceptReturns, HandleSabm, PollReturns
  <2>5. CASE LineStep \/ Script \/ External \/ ChildExits \/ Stop \/ Over
    BY <2>1, <2>5 DEF LineStep, OnData, HandleCommand, DataReturns, Script, OnRecv, OnRecvLine,
       OnRecvTimeout, ScriptStep, OnRecvPoll, ScriptEnds, External, ExtAborted, ExtRound,
       ExtSigpipe, ChildExits, Stop, Over, vars
  <2>6. CASE Main /\ ~ReapDead
    BY <2>1, <2>6 DEF Main, RunPoll, PollShells, ShutdownDisconnects, ShutdownPoll, ShutdownCheck
  <2>7. QED BY <2>2, <2>3, <2>4, <2>5, <2>6 DEF Next, Thread
<1>2. QED BY <1>1, Invariance, PTL DEF Spec, LiveKept
=============================================================================
