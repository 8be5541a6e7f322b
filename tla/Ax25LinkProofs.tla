--------------------------- MODULE Ax25LinkProofs ---------------------------
(***************************************************************************)
(* Proofs about two stations and the path between them (Ax25Link), for     *)
(* every modulus, window, retry limit and bound.                           *)
(*                                                                         *)
(* First the types.  Then the link is seen as two views, one of each       *)
(* station: its state, its session (the first chunk b, and the numbers lo  *)
(* and hi of its window counted from b without wrapping around), what its  *)
(* application has got, and the frames on their way to it.  The inductive  *)
(* invariant LinkInv says of each ordered pair of views who may be in      *)
(* which state with which control frames under way (Control), and that the *)
(* numbered frames under way fit one session and the receiver's window     *)
(* (Session).  Everything the link promises follows from LinkInv and from  *)
(* what one step may do to a view (Steps).                                 *)
(*                                                                         *)
(* From LinkInv on the theorems suppose that T1 does not expire before the *)
(* answer to a SABM.  With CONNECTING in PrematureT1 the called side may   *)
(* restart alone, and the numbering, the windows and the chunks suffer.    *)
(***************************************************************************)
EXTENDS Ax25Link, ConnectionLemmas

-----------------------------------------------------------------------------
(* Two stations                                                            *)

\* Each of the two stations is the other's peer.
LEMMA TwoStations ==
    ASSUME NEW p \in Station
    PROVE  /\ Peer(p) \in Station /\ Peer(p) # p /\ Peer(Peer(p)) = p
           /\ \A q \in Station : q # p => q = Peer(p)
<1>1. PICK a \in Station, b \in Station : a # b /\ Station = {a, b}
  BY StationAssumption
<1>2. \A x \in Station : \E q \in Station : q # x
  BY <1>1
<1>3. \A x \in Station : Peer(x) \in Station /\ Peer(x) # x
  BY <1>2 DEF Peer
<1>4. QED BY <1>1, <1>3

-----------------------------------------------------------------------------
(* Types                                                                   *)

\* TypeOK is inductive together with what every operator of Connection
\* keeps: a window that is never exceeded, timers that run when they must.
Typed == TypeOK /\ \A p \in Station : Sound(conn[p])

\* One call hands at most one chunk to the application.
LEMMA ToldType ==
    ASSUME NEW c \in ConnType
    PROVE  DataTold(c) \in Seq(Data) /\ Len(DataTold(c)) \in {0, 1}
<1>1. CASE Told(c) = {}
  BY <1>1 DEF DataTold
<1>2. CASE Told(c) # {}
  <2> DEFINE i == CHOOSE i \in Told(c) : TRUE
  <2>1. i \in Told(c)
    BY <1>2
  <2>2. c.up \in Seq(Callback) /\ i \in DOMAIN c.up /\ c.up[i].on = "data"
    BY <2>1 DEF Told, ConnType
  <2>3. c.up[i] \in Callback
    BY <2>2, ElementOfSeq
  <2>4. c.up[i].data \in Data
    BY <2>2, <2>3 DEF Callback
  <2>5. DataTold(c) = <<c.up[i].data>>
    BY <1>2 DEF DataTold
  <2> HIDE DEF i
  <2>6. QED BY <2>4, <2>5
<1>3. QED BY <1>1, <1>2

\* Reaping a closed connection leaves a sound record.
LEMMA ReapedSound ==
    ASSUME NEW c, Sound(c)
    PROVE  Sound(Reaped(c)) /\ Reaped(c).state = c.state
BY EnterSound, NewSound DEF Reaped

ToldSet(c) == {DataTold(c)[i] : i \in DOMAIN DataTold(c)}

\* What Becomes leaves of each station.
Moves(p, c, inbox, fresh, n) ==
    /\ conn'[p] = Reaped(c)
    /\ chan'[p] = inbox
    /\ count'[p] = count[p] + n
    /\ starts'[p] = IF fresh THEN starts[p] \cup {count[p] + 1} ELSE starts[p]
    /\ got'[p] = (IF fresh THEN <<>> ELSE got[p]) \o DataTold(c)
    /\ seen'[p] = seen[p] \cup ToldSet(c)

Rests(q, c) ==
    /\ conn'[q] = conn[q] /\ chan'[q] = chan[q] \o c.out /\ count'[q] = count[q]
    /\ starts'[q] = starts[q] /\ got'[q] = got[q] /\ seen'[q] = seen[q]

\* What Becomes says, station by station.
LEMMA BecomesFacts ==
    ASSUME TypeOK, NEW p \in Station, NEW c, NEW inbox, NEW fresh, NEW n,
           Becomes(p, c, inbox, fresh, n)
    PROVE  Moves(p, c, inbox, fresh, n) /\ Rests(Peer(p), c)
<1> DEFINE q == Peer(p)
<1>1. q \in Station /\ q # p
  BY TwoStations
<1>2. /\ DOMAIN conn = Station /\ DOMAIN chan = Station /\ DOMAIN count = Station
      /\ DOMAIN starts = Station /\ DOMAIN got = Station /\ DOMAIN seen = Station
  BY DEF TypeOK
<1>3. conn'[p] = Reaped(c) /\ conn'[q] = conn[q]
  BY <1>1, <1>2 DEF Becomes
<1>4. chan'[p] = inbox /\ chan'[q] = chan[q] \o c.out
  BY <1>1, <1>2 DEF Becomes
<1>5. count'[p] = count[p] + n /\ count'[q] = count[q]
  BY <1>1, <1>2 DEF Becomes
<1>6. /\ starts'[p] = IF fresh THEN starts[p] \cup {count[p] + 1} ELSE starts[p]
      /\ starts'[q] = starts[q]
  BY <1>1, <1>2 DEF Becomes
<1>7. got'[p] = (IF fresh THEN <<>> ELSE got[p]) \o DataTold(c) /\ got'[q] = got[q]
  BY <1>1, <1>2 DEF Becomes
<1>8. seen'[p] = seen[p] \cup ToldSet(c) /\ seen'[q] = seen[q]
  BY <1>1, <1>2 DEF Becomes, ToldSet
<1>9. QED BY <1>3, <1>4, <1>5, <1>6, <1>7, <1>8 DEF Moves, Rests

\* A station that becomes a sound record keeps the types.
LEMMA BecomesTyped ==
    ASSUME Typed, NEW p \in Station, NEW c, Sound(c), NEW inbox \in Seq(Frame),
           NEW fresh, NEW n \in Nat, count[p] + n <= MaxSend,
           Becomes(p, c, inbox, fresh, n),
           calls' \in [Station -> 0 .. MaxConnects], losses' \in 0 .. MaxLoss
    PROVE  Typed'
<1> DEFINE q == Peer(p)
           told == DataTold(c)
<1>1. q \in Station /\ q # p /\ \A x \in Station : x # p => x = q
  BY TwoStations
<1>2. c \in ConnType /\ c.out \in Seq(Frame)
  BY DEF Sound, Fit, ConnType
<1>3. told \in Seq(Data)
  BY <1>2, ToldType
<1>4. Sound(Reaped(c)) /\ Reaped(c) \in ConnType
  BY ReapedSound DEF Sound, Fit
<1>5. conn' \in [Station -> ConnType] /\ \A x \in Station : Sound(conn'[x])
  <2>1. conn' = [conn EXCEPT ![p] = Reaped(c)]
    BY DEF Becomes
  <2>2. conn \in [Station -> ConnType] /\ \A x \in Station : Sound(conn[x])
    BY DEF Typed, TypeOK
  <2>3. QED BY <1>4, <2>1, <2>2
<1>6. chan' \in [Station -> Seq(Frame)]
  <2>1. chan' = [chan EXCEPT ![p] = inbox, ![q] = @ \o c.out]
    BY DEF Becomes
  <2>2. chan \in [Station -> Seq(Frame)]
    BY DEF Typed, TypeOK
  <2>3. chan[q] \o c.out \in Seq(Frame)
    BY <1>1, <1>2, <2>2, ConcatProperties
  <2>4. chan' = [chan EXCEPT ![p] = inbox, ![q] = chan[q] \o c.out]
    BY <1>1, <2>1, <2>2
  <2> HIDE DEF q
  <2>5. QED BY <1>1, <2>2, <2>3, <2>4
<1>7. count' \in [Station -> 0 .. MaxSend]
  <2>1. count' = [count EXCEPT ![p] = count[p] + n] /\ count \in [Station -> 0 .. MaxSend]
    BY DEF Becomes, Typed, TypeOK
  <2>2. count[p] + n \in 0 .. MaxSend
    BY <2>1, BoundsAssumption
  <2>3. QED BY <2>1, <2>2
<1>8. starts' \in [Station -> SUBSET (1 .. MaxSend + 1)]
  <2>1. /\ starts' = [starts EXCEPT ![p] =
                        IF fresh THEN starts[p] \cup {count[p] + 1} ELSE starts[p]]
        /\ starts \in [Station -> SUBSET (1 .. MaxSend + 1)]
        /\ count[p] \in 0 .. MaxSend
    BY DEF Becomes, Typed, TypeOK
  <2>2. count[p] + 1 \in 1 .. MaxSend + 1
    BY <2>1, BoundsAssumption
  <2>3. (IF fresh THEN starts[p] \cup {count[p] + 1} ELSE starts[p])
           \in SUBSET (1 .. MaxSend + 1)
    BY <2>1, <2>2
  <2>4. QED BY <2>1, <2>3
<1>9. got' \in [Station -> Seq(Data)]
  <2> DEFINE base == IF fresh THEN <<>> ELSE got[p]
  <2>1. got' = [got EXCEPT ![p] = base \o told] /\ got \in [Station -> Seq(Data)]
    BY DEF Becomes, Typed, TypeOK
  <2>2. base \in Seq(Data)
    BY <2>1
  <2>3. base \o told \in Seq(Data)
    BY <1>3, <2>2, ConcatProperties
  <2> HIDE DEF base, told
  <2>4. QED BY <2>1, <2>3
<1>10. seen' \in [Station -> SUBSET Data]
  <2> DEFINE more == {told[i] : i \in DOMAIN told}
  <2>1. /\ seen' = [seen EXCEPT ![p] = seen[p] \cup more]
        /\ seen \in [Station -> SUBSET Data]
    BY DEF Becomes, Typed, TypeOK
  <2>2. more \subseteq Data
    BY <1>3, ElementOfSeq
  <2> HIDE DEF more
  <2>3. QED BY <2>1, <2>2
<1>11. QED BY <1>5, <1>6, <1>7, <1>8, <1>9, <1>10 DEF Typed, TypeOK

\* The inputs of Deliver.
LEMMA ReactionsType ==
    ASSUME TypeOK, NEW p \in Station, NEW react \in Reactions(p)
    PROVE  /\ react \in Reaction /\ Len(react.reply) \in Nat
           /\ count[p] + Len(react.reply) <= MaxSend
           /\ react.reply \in {<<>>, <<count[p] + 1>>}
<1>1. count[p] \in 0 .. MaxSend /\ <<>> \in Seq(Data) /\ Len(<<>>) = 0
  BY DEF TypeOK
<1>2. CASE react = Silent
  BY <1>1, <1>2, BoundsAssumption DEF Silent, Reaction
<1>3. CASE react # Silent
  <2>1. /\ react = [reply |-> react.reply, bye |-> react.bye] /\ react.bye \in BOOLEAN
        /\ \/ react.reply = <<>>
           \/ count[p] < MaxSend /\ react.reply = <<count[p] + 1>>
    BY <1>3 DEF Reactions
  <2>2. CASE react.reply = <<>>
    <3>1. Len(react.reply) = 0 /\ react.reply \in Seq(Data)
      BY <1>1, <2>2
    <3>2. count[p] + 0 <= MaxSend
      BY <1>1, BoundsAssumption
    <3>3. react \in Reaction
      BY <2>1, <3>1 DEF Reaction
    <3>4. QED BY <2>2, <3>1, <3>2, <3>3
  <2>3. CASE count[p] < MaxSend /\ react.reply = <<count[p] + 1>>
    <3>1. count[p] + 1 \in Data
      BY <1>1, <2>3, BoundsAssumption, DataAssumption
    <3>2. react.reply \in Seq(Data) /\ Len(react.reply) = 1
      BY <2>3, <3>1
    <3>3. count[p] + 1 <= MaxSend
      BY <1>1, <2>3, BoundsAssumption
    <3>4. react \in Reaction
      BY <2>1, <3>2 DEF Reaction
    <3>5. QED BY <2>3, <3>2, <3>3, <3>4
  <2>4. QED BY <2>1, <2>2, <2>3
<1>4. QED BY <1>2, <1>3

\* The router leaves a sound record, session or not.
LEMMA RouteSound ==
    ASSUME Typed, NEW p \in Station, NEW f \in Frame, NEW react \in Reaction
    PROVE  Sound(Route(p, f, react))
<1>1. Sound(conn[p])
  BY DEF Typed
<1>2. CASE conn[p].state = "DISCONNECTED" /\ f.type = "SABM" /\ p \notin Listeners
  <2>1. UFrame("DM", f.pf) \in Frame
    BY UFrameType DEF Frame
  <2>2. Fit(Emit(conn[p], UFrame("DM", f.pf))) /\ Same(conn[p], Emit(conn[p], UFrame("DM", f.pf)))
    BY <1>1, <2>1, EmitSame DEF Sound
  <2>3. QED BY <1>1, <1>2, <2>2, SameSound DEF Route
<1>3. CASE ~(conn[p].state = "DISCONNECTED" /\ f.type = "SABM" /\ p \notin Listeners)
  BY <1>1, <1>3, HandleFrameSound DEF Route
<1>4. QED BY <1>2, <1>3

\* The frame at the head of a channel, and what is behind it.
LEMMA HeadTail ==
    ASSUME TypeOK, NEW p \in Station, chan[p] # <<>>
    PROVE  Head(chan[p]) \in Frame /\ Tail(chan[p]) \in Seq(Frame)
<1>1. chan[p] \in Seq(Frame)
  BY DEF TypeOK
<1>2. QED BY <1>1, HeadTailProperties

\* Types and sound records hold at first ...
LEMMA InitTyped == Init => Typed
<1> SUFFICES ASSUME Init PROVE Typed
  OBVIOUS
<1>1. Sound(NewConnection) /\ NewConnection \in ConnType
  BY NewSound DEF Sound, Fit
<1>2. conn \in [Station -> ConnType] /\ \A p \in Station : Sound(conn[p])
  BY <1>1 DEF Init
<1>3. 0 \in 0 .. MaxConnects /\ 0 \in 0 .. MaxLoss /\ 0 \in 0 .. MaxSend
  BY BoundsAssumption
<1>4. chan \in [Station -> Seq(Frame)] /\ got \in [Station -> Seq(Data)]
  BY DEF Init
<1>5. QED BY <1>2, <1>3, <1>4 DEF Init, Typed, TypeOK

\* ... and after every step.
LEMMA NextTyped == Typed /\ [Next]_vars => Typed'
<1> SUFFICES ASSUME Typed, [Next]_vars PROVE Typed'
  OBVIOUS
<1>a. /\ calls \in [Station -> 0 .. MaxConnects] /\ losses \in 0 .. MaxLoss
      /\ chan \in [Station -> Seq(Frame)] /\ count \in [Station -> 0 .. MaxSend]
      /\ TypeOK /\ \A p \in Station : Sound(conn[p])
  BY DEF Typed, TypeOK
<1>b. ASSUME NEW p \in Station
      PROVE  chan[p] \in Seq(Frame) /\ count[p] \in 0 .. MaxSend /\ count[p] + 0 <= MaxSend
             /\ 0 \in Nat
  BY <1>a, BoundsAssumption
<1>c. (calls' = calls /\ losses' = losses)
         => calls' \in [Station -> 0 .. MaxConnects] /\ losses' \in 0 .. MaxLoss
  BY <1>a
<1>1. ASSUME NEW p \in Station, Connect(p) PROVE Typed'
  <2>1. calls' \in [Station -> 0 .. MaxConnects] /\ losses' \in 0 .. MaxLoss
    <3>1. calls[p] + 1 \in 0 .. MaxConnects /\ calls' = [calls EXCEPT ![p] = calls[p] + 1]
      BY <1>1, <1>a, BoundsAssumption DEF Connect
    <3>2. losses' = losses
      BY <1>1 DEF Connect
    <3>3. QED BY <1>a, <3>1, <3>2
  <2>2. Sound(StartConnect(NewConnection))
    BY StartConnectSound
  <2>3. Becomes(p, StartConnect(NewConnection), chan[p], TRUE, 0)
    BY <1>1 DEF Connect
  <2>4. QED BY <1>b, <2>1, <2>2, <2>3, BecomesTyped
<1>2. ASSUME NEW p \in Station, NEW n \in 1 .. MaxSend, AppSend(p, n) PROVE Typed'
  <2> DEFINE chunks == [i \in 1 .. n |-> count[p] + i]
  <2>1. n \in Nat /\ count[p] + n <= MaxSend
    BY <1>2 DEF AppSend
  <2>2. chunks \in Seq(Data)
    <3>1. \A i \in 1 .. n : count[p] + i \in Data
      <4> TAKE i \in 1 .. n
      <4>1. count[p] \in Nat /\ i \in Nat /\ i >= 1 /\ i <= n /\ MaxSend \in Nat
        BY <1>b, <2>1, BoundsAssumption
      <4>2. QED BY <2>1, <4>1, DataAssumption
    <3>2. chunks \in [1 .. n -> Data]
      BY <3>1
    <3> HIDE DEF chunks
    <3>3. QED BY <2>1, <3>2
  <2>3. Becomes(p, Send(conn[p], chunks), chan[p], FALSE, n) /\ calls' = calls
        /\ losses' = losses
    BY <1>2 DEF AppSend
  <2>4. Sound(Send(conn[p], chunks))
    BY <1>a, <2>2, SendSound
  <2> HIDE DEF chunks
  <2>5. QED BY <1>b, <1>c, <2>1, <2>3, <2>4, BecomesTyped
<1>3. ASSUME NEW p \in Station, AppDisconnect(p) PROVE Typed'
  <2>1. Sound(Disconnect(conn[p]))
    BY <1>a, DisconnectSound
  <2>2. Becomes(p, Disconnect(conn[p]), chan[p], FALSE, 0) /\ calls' = calls
        /\ losses' = losses
    BY <1>3 DEF AppDisconnect
  <2>3. QED BY <1>b, <1>c, <2>1, <2>2, BecomesTyped
<1>4. ASSUME NEW p \in Station, AppDestroy(p) PROVE Typed'
  <2>1. Sound(Destroy(conn[p]))
    BY DestroySound
  <2>2. Becomes(p, Destroy(conn[p]), chan[p], FALSE, 0) /\ calls' = calls
        /\ losses' = losses
    BY <1>4 DEF AppDestroy
  <2>3. QED BY <1>b, <1>c, <2>1, <2>2, BecomesTyped
<1>5. ASSUME NEW p \in Station, NEW react \in Reactions(p), Deliver(p, react) PROVE Typed'
  <2> DEFINE f == Head(chan[p])
             c == Route(p, f, react)
  <2>1. chan[p] # <<>> /\ Becomes(p, c, Tail(chan[p]), Restarts(p, f), Len(react.reply))
        /\ calls' = calls /\ losses' = losses
    BY <1>5 DEF Deliver
  <2>2. f \in Frame /\ Tail(chan[p]) \in Seq(Frame)
    BY <1>a, <2>1, HeadTail
  <2>3. react \in Reaction /\ Len(react.reply) \in Nat /\ count[p] + Len(react.reply) <= MaxSend
    BY <1>a, ReactionsType
  <2>4. Sound(c)
    BY <2>2, <2>3, RouteSound
  <2> HIDE DEF f, c
  <2>5. QED BY <1>c, <2>1, <2>2, <2>3, <2>4, BecomesTyped
<1>6. ASSUME NEW p \in Station, Lose(p) PROVE Typed'
  <2>1. Tail(chan[p]) \in Seq(Frame)
    BY <1>6, <1>a, HeadTail DEF Lose
  <2>2. chan' \in [Station -> Seq(Frame)]
    BY <1>6, <1>a, <2>1 DEF Lose
  <2>3. losses' \in 0 .. MaxLoss
    BY <1>6, <1>a, BoundsAssumption DEF Lose
  <2>4. UNCHANGED <<conn, calls, count, starts, got, seen>>
    BY <1>6 DEF Lose
  <2>5. QED BY <2>2, <2>3, <2>4 DEF Typed, TypeOK
<1>7. ASSUME NEW p \in Station, NEW due \in SUBSET Timer, Expire(p, due) PROVE Typed'
  <2>1. Sound(Tick(conn[p], due))
    BY <1>a, TickSound
  <2>2. Becomes(p, Tick(conn[p], due), chan[p], FALSE, 0) /\ calls' = calls
        /\ losses' = losses
    BY <1>7 DEF Expire
  <2>3. QED BY <1>b, <1>c, <2>1, <2>2, BecomesTyped
<1>8. CASE UNCHANGED vars
  BY <1>8 DEF vars, Typed, TypeOK
<1>9. QED BY <1>1, <1>2, <1>3, <1>4, <1>5, <1>6, <1>7, <1>8 DEF Next

\* At every moment the two records, the channels and the bookkeeping have
\* their types; nothing but the bounds of the module keeps them finite.
THEOREM LinkTypeCorrect == Spec => []TypeOK
<1>1. Typed => TypeOK
  BY DEF Typed
<1>2. QED BY <1>1, InitTyped, NextTyped, PTL DEF Spec

-----------------------------------------------------------------------------
(* What is on its way                                                      *)

Numbers == {"I", "RR", "RNR", "REJ"}

\* A frame of one of the types K is on its way, and one of them comes before
\* one of the types L.
Any(s, K) == \E i \in 1 .. Len(s) : s[i].type \in K
Precedes(s, K, L) ==
    \E i, j \in 1 .. Len(s) : i < j /\ s[i].type \in K /\ s[j].type \in L

\* The frames before the first SABM, and those not before the first K.
Before(s) == {i \in 1 .. Len(s) : \A j \in 1 .. i : s[j].type # "SABM"}
Behind(s, K) == {i \in 1 .. Len(s) : \E j \in 1 .. i : s[j].type \in K}

\* Those numbered K are all in X, and any two of them in Y.
Runs(s, K, X, Y) ==
    /\ \A i \in K : s[i] \in X
    /\ \A i, j \in K : i < j => <<s[i], s[j]>> \in Y

\* The I-frames that a receiver which has r chunks of session b may meet: of
\* that session, up to chunk top, and less than a window away.
Chunks(S, top, b, r) ==
    {f \in Frame : f.type = "I" =>
        /\ b \in S /\ f.data \in b .. top /\ f.ns = (f.data - b) % Modulus
        /\ \A x \in S : x <= b \/ f.data < x
        /\ f.data - b < r + Window /\ r <= f.data - b + Window}
Rising ==
    {e \in Frame \X Frame :
        e[1].type = "I" /\ e[2].type = "I" => e[1].data < e[2].data + Window}

\* Frames that acknowledge at least lo and at most hi chunks of session b, all
\* of them in A, and none fewer than one before it.
Answers(lo, hi, b, A) ==
    {f \in Frame : Numbered(f) =>
        \E k \in lo .. hi : f.nr = k % Modulus /\ b .. b + k - 1 \subseteq A}
Ordered(lo) ==
    {e \in Frame \X Frame :
        Numbered(e[1]) /\ Numbered(e[2]) =>
            \A k, l \in lo .. lo + Window :
                e[1].nr = k % Modulus /\ e[2].nr = l % Modulus => k <= l}

-----------------------------------------------------------------------------
(* Two stations, seen from outside                                         *)

\* A view of a station: the state of its connection, the first chunk b of its
\* session, how many chunks of the session it knows to have arrived (lo) and
\* has sent (hi), and its part of the other variables.
Up(v) == v.state = "CONNECTED"
Calling(v) == v.state = "CONNECTING"
Shut(v) == v.state = "DISCONNECTED"
Virgin(v) == v.got = <<>> /\ v.lo = 0

Voice(v) ==
    /\ v.in \in Seq(Frame) /\ v.got \in Seq(Data) /\ v.n \in 0 .. MaxSend
    /\ v.starts \subseteq 1 .. v.n + 1 /\ v.b \in Nat
    /\ \A x \in v.starts : x <= v.b
    /\ \A i \in 1 .. Len(v.got) : v.got[i] \in v.seen
    /\ Up(v) \/ Calling(v) =>
          /\ v.b \in v.starts /\ v.lo \in Nat /\ v.hi \in Nat
          /\ v.lo <= v.hi /\ v.hi <= v.lo + Window /\ v.b + v.hi <= v.n + 1
    /\ Calling(v) => v.b = v.n + 1 /\ v.got = <<>>

\* Who may be in which state with which frames on their way.
Control(v, w) ==
    /\ ~Precedes(w.in, {"SABM"}, {"SABM"})
    /\ Any(w.in, {"SABM"}) => v.called
    /\ Calling(v) =>
          /\ v.called
          /\ ~Precedes(w.in, {"SABM"}, Numbers)
          /\ Any(w.in, Numbers) => Any(w.in, {"SABM"})
    /\ (/\ Any(v.in, {"UA"})
        /\ ~v.called \/ (Calling(v) /\ Any(w.in, {"SABM"}))) =>
          /\ Shut(w) /\ w.called
          /\ ~Precedes(v.in, {"UA"}, Numbers) /\ ~Precedes(v.in, {"UA"}, {"SABM"})
    /\ Up(v) /\ Any(w.in, {"SABM"}) =>
          /\ ~Up(w) /\ w.called /\ Virgin(v)
          /\ ~Any(v.in, Numbers) /\ ~Any(v.in, {"SABM"})
    /\ Calling(v) /\ Precedes(v.in, {"UA"}, {"SABM"}) =>
          /\ ~Up(w) /\ ~Any(w.in, {"UA"}) /\ ~Any(w.in, {"SABM"})
          /\ ~Precedes(v.in, {"SABM"}, Numbers)
    /\ ~v.called /\ Up(w) => w.called
    /\ Precedes(w.in, FrameType, {"SABM"}) /\ Up(w) => w.called
    /\ Calling(v) /\ Up(w) /\ Any(v.in, {"UA"}) =>
          /\ Virgin(w) /\ ~Any(w.in, Numbers) /\ ~Any(w.in, {"SABM"})
          /\ ~Precedes(v.in, {"UA"}, {"SABM"})
    /\ Precedes(w.in, {"SABM"}, Numbers) => ~Any(v.in, {"SABM"}) /\ w.called
    /\ Up(v) => ~Precedes(v.in, {"SABM"}, Numbers)

\* Both ends are in one session, or are as soon as a UA arrives.
On(v) == Up(v) \/ (Calling(v) /\ Any(v.in, {"UA"}))
Joined(v, w) == On(v) /\ On(w) /\ (Up(v) \/ Up(w))

\* The frames on their way to v that its present session will handle.
Live(v) ==
    IF Up(v) THEN Before(v.in)
    ELSE IF Calling(v) THEN Behind(v.in, {"UA"}) ELSE {}

\* The last chunk of v's that may be on its way to w, and the most of w's
\* chunks that v may acknowledge.
Top(v, w) == IF Joined(v, w) THEN v.b + v.hi - 1 ELSE v.n
MostTaken(v, w) == IF Joined(v, w) THEN Len(v.got) ELSE w.hi

\* What w has got is the beginning of v's session b.
Heads(v, w, b) ==
    \A i \in 1 .. Len(w.got) :
        /\ b \in v.starts /\ w.got[i] = b + i - 1 /\ b + i - 1 <= v.n
        /\ \A x \in v.starts : x <= b \/ b + i - 1 < x

\* What w has and what is on its way to w fits one session of v, the present
\* one when they are joined.
Hears(v, w, b) ==
    /\ Runs(w.in, Live(w), Chunks(v.starts, Top(v, w), b, Len(w.got)), Rising)
    /\ Heads(v, w, b)
    /\ Joined(v, w) => b = v.b /\ v.lo <= Len(w.got) /\ Len(w.got) <= v.hi

\* So does what is on its way behind a SABM.
Awaits(v, w, b) ==
    /\ Runs(w.in, Behind(w.in, {"SABM"}),
            Chunks(v.starts, IF Up(v) THEN v.b + v.hi - 1 ELSE v.n, b, 0), Rising)
    /\ Runs(w.in, Behind(w.in, {"SABM"}), Answers(0, 0, 0, {}), Ordered(0))
    /\ Up(v) => b = v.b

Session(v, w) ==
    /\ Up(w) \/ Calling(w) =>
          /\ \E b \in Nat : Hears(v, w, b)
          /\ Runs(w.in, Live(w), Answers(w.lo, MostTaken(v, w), w.b, v.seen),
                  Ordered(w.lo))
    /\ Precedes(w.in, {"SABM"}, Numbers) => \E b \in Nat : Awaits(v, w, b)

Half(v, w) == Voice(v) /\ Control(v, w) /\ Session(w, v)
Good(v, w) == Half(v, w) /\ Half(w, v)

-----------------------------------------------------------------------------
(* The invariant                                                           *)

Base(p) == CHOOSE x \in starts[p] \cup {0} : \A y \in starts[p] \cup {0} : y <= x
Lo(p) == count[p] + 1 - Base(p) - Len(conn[p].unacked) - Len(conn[p].sendBuf)

View(p) ==
    [state |-> conn[p].state, b |-> Base(p),
     lo |-> Lo(p), hi |-> Lo(p) + Len(conn[p].unacked),
     n |-> count[p], starts |-> starts[p], got |-> got[p], seen |-> seen[p],
     in |-> chan[p], called |-> calls[p] > 0]

\* p's record in its session.
Speaker(p) ==
    /\ conn[p].out = <<>> /\ conn[p].up = <<>>
    /\ conn[p].state = "DISCONNECTED" => conn[p] = NewConnection
    /\ conn[p].state = "CONNECTED" =>
          /\ InStep(conn[p], Base(p), Lo(p), count[p] + 1 - Base(p))
          /\ conn[p].vr = Len(got[p]) % Modulus
    /\ conn[p].state = "CONNECTING" => conn[p].unacked = <<>> /\ conn[p].sendBuf = <<>>

-----------------------------------------------------------------------------
(* Frames on their way                                                     *)

\* What is on its way, without the first frame ...
LEMMA SomeTail ==
    ASSUME NEW s \in Seq(Frame), s # <<>>
    PROVE  \A K, L :
              /\ Any(s, K) <=> Head(s).type \in K \/ Any(Tail(s), K)
              /\ Precedes(s, K, L) <=> \/ Head(s).type \in K /\ Any(Tail(s), L)
                                       \/ Precedes(Tail(s), K, L)
<1> DEFINE t == Tail(s)
           m == Len(t)
<1>1. /\ m \in Nat /\ Len(s) = m + 1 /\ Head(s) = s[1]
      /\ \A i \in 1 .. m : t[i] = s[i + 1]
  <2>1. /\ Head(s) \in Frame /\ t \in Seq(Frame) /\ Len(t) = Len(s) - 1
        /\ \A i \in 1 .. Len(t) : t[i] = s[i + 1]
    BY HeadTailProperties
  <2>2. Len(s) \in Nat /\ Len(t) \in Nat
    BY <2>1, LenProperties
  <2>3. Len(s) = Len(t) + 1
    BY <2>1, <2>2
  <2>4. QED BY <2>1, <2>2, <2>3
<1> HIDE DEF t
<1>2. ASSUME NEW K PROVE Any(s, K) <=> Head(s).type \in K \/ Any(t, K)
  <2>1. ASSUME Any(s, K) PROVE Head(s).type \in K \/ Any(t, K)
    <3>1. PICK i \in 1 .. Len(s) : s[i].type \in K
      BY <2>1 DEF Any
    <3>2. i = 1 \/ (i - 1 \in 1 .. m /\ t[i - 1] = s[i])
      BY <1>1
    <3>3. QED BY <1>1, <3>1, <3>2 DEF Any
  <2>2. Head(s).type \in K => Any(s, K)
    <3>1. 1 \in 1 .. Len(s)
      BY <1>1
    <3>2. QED BY <1>1, <3>1 DEF Any
  <2>3. ASSUME Any(t, K) PROVE Any(s, K)
    <3>1. PICK i \in 1 .. m : t[i].type \in K
      BY <2>3 DEF Any
    <3>2. i + 1 \in 1 .. Len(s) /\ s[i + 1] = t[i]
      BY <1>1
    <3>3. QED BY <3>1, <3>2 DEF Any
  <2>4. QED BY <2>1, <2>2, <2>3
<1>3. ASSUME NEW K, NEW L
      PROVE  Precedes(s, K, L) <=> \/ Head(s).type \in K /\ Any(t, L)
                                   \/ Precedes(t, K, L)
  <2>1. ASSUME Precedes(s, K, L)
        PROVE  (Head(s).type \in K /\ Any(t, L)) \/ Precedes(t, K, L)
    <3>1. PICK i \in 1 .. Len(s), j \in 1 .. Len(s) :
             i < j /\ s[i].type \in K /\ s[j].type \in L
      BY <2>1 DEF Precedes
    <3>2. j - 1 \in 1 .. m /\ t[j - 1] = s[j]
      BY <1>1, <3>1
    <3>3. CASE i = 1
      BY <1>1, <3>1, <3>2, <3>3 DEF Any
    <3>4. CASE i # 1
      <4>1. i - 1 \in 1 .. m /\ t[i - 1] = s[i] /\ i - 1 < j - 1
        BY <1>1, <3>1, <3>4
      <4>2. QED BY <3>1, <3>2, <4>1 DEF Precedes
    <3>5. QED BY <3>3, <3>4
  <2>2. ASSUME Head(s).type \in K, Any(t, L) PROVE Precedes(s, K, L)
    <3>1. PICK i \in 1 .. m : t[i].type \in L
      BY <2>2 DEF Any
    <3>2. i + 1 \in 1 .. Len(s) /\ s[i + 1] = t[i] /\ 1 \in 1 .. Len(s) /\ 1 < i + 1
      BY <1>1
    <3>3. QED BY <1>1, <2>2, <3>1, <3>2 DEF Precedes
  <2>3. ASSUME Precedes(t, K, L) PROVE Precedes(s, K, L)
    <3>1. PICK i \in 1 .. m, j \in 1 .. m :
             i < j /\ t[i].type \in K /\ t[j].type \in L
      BY <2>3 DEF Precedes
    <3>2. /\ i + 1 \in 1 .. Len(s) /\ s[i + 1] = t[i]
          /\ j + 1 \in 1 .. Len(s) /\ s[j + 1] = t[j] /\ i + 1 < j + 1
      BY <1>1, <3>1
    <3>3. QED BY <3>1, <3>2 DEF Precedes
  <2>4. QED BY <2>1, <2>2, <2>3
<1>4. QED BY <1>2, <1>3 DEF t

\* ... with more frames behind it ...
LEMMA SomeCat ==
    ASSUME NEW s \in Seq(Frame), NEW g \in Seq(Frame)
    PROVE  \A K, L :
              /\ Any(s \o g, K) <=> Any(s, K) \/ Any(g, K)
              /\ Precedes(s \o g, K, L) <=> \/ Precedes(s, K, L) \/ Precedes(g, K, L)
                                            \/ Any(s, K) /\ Any(g, L)
<1> DEFINE t == s \o g
           m == Len(s)
           n == Len(g)
<1>1. /\ m \in Nat /\ n \in Nat /\ Len(t) = m + n
      /\ \A i \in 1 .. m + n : t[i] = IF i <= m THEN s[i] ELSE g[i - m]
  BY ConcatProperties, LenProperties
<1>2. \A i \in 1 .. m : i \in 1 .. Len(t) /\ t[i] = s[i]
  BY <1>1
<1>3. \A i \in 1 .. n : i + m \in 1 .. Len(t) /\ t[i + m] = g[i]
  <2> TAKE i \in 1 .. n
  <2>1. i + m \in 1 .. m + n /\ ~(i + m <= m) /\ i + m - m = i
    BY <1>1
  <2>2. QED BY <1>1, <2>1
<1>4. \A i \in 1 .. Len(t) : \/ i \in 1 .. m /\ t[i] = s[i]
                             \/ i > m /\ i - m \in 1 .. n /\ t[i] = g[i - m]
  BY <1>1
<1> HIDE DEF t
<1>5. ASSUME NEW K PROVE Any(t, K) <=> Any(s, K) \/ Any(g, K)
  BY <1>2, <1>3, <1>4 DEF Any
<1>6. ASSUME NEW K, NEW L
      PROVE  Precedes(t, K, L) <=> \/ Precedes(s, K, L) \/ Precedes(g, K, L)
                                   \/ Any(s, K) /\ Any(g, L)
  <2>1. ASSUME Precedes(t, K, L)
        PROVE  Precedes(s, K, L) \/ Precedes(g, K, L) \/ (Any(s, K) /\ Any(g, L))
    <3>1. PICK i \in 1 .. Len(t), j \in 1 .. Len(t) :
             i < j /\ t[i].type \in K /\ t[j].type \in L
      BY <2>1 DEF Precedes
    <3>2. CASE j \in 1 .. m /\ t[j] = s[j]
      <4>1. i \in 1 .. m /\ t[i] = s[i]
        BY <1>1, <1>2, <3>1, <3>2
      <4>2. QED BY <3>1, <3>2, <4>1 DEF Precedes
    <3>3. CASE j > m /\ j - m \in 1 .. n /\ t[j] = g[j - m]
      <4>1. CASE i \in 1 .. m /\ t[i] = s[i]
        BY <3>1, <3>3, <4>1 DEF Any
      <4>2. CASE i > m /\ i - m \in 1 .. n /\ t[i] = g[i - m]
        <5>1. i - m < j - m
          BY <1>1, <3>1
        <5>2. QED BY <3>1, <3>3, <4>2, <5>1 DEF Precedes
      <4>3. QED BY <1>4, <4>1, <4>2
    <3>4. QED BY <1>4, <3>2, <3>3
  <2>2. Precedes(s, K, L) => Precedes(t, K, L)
    BY <1>2 DEF Precedes
  <2>3. ASSUME Precedes(g, K, L) PROVE Precedes(t, K, L)
    <3>1. PICK i \in 1 .. n, j \in 1 .. n :
             i < j /\ g[i].type \in K /\ g[j].type \in L
      BY <2>3 DEF Precedes
    <3>2. i + m < j + m
      BY <1>1, <3>1
    <3>3. QED BY <1>3, <3>1, <3>2 DEF Precedes
  <2>4. ASSUME Any(s, K), Any(g, L) PROVE Precedes(t, K, L)
    <3>1. PICK i \in 1 .. m : s[i].type \in K
      BY <2>4 DEF Any
    <3>2. PICK j \in 1 .. n : g[j].type \in L
      BY <2>4 DEF Any
    <3>3. i < j + m
      BY <1>1
    <3>4. QED BY <1>2, <1>3, <3>1, <3>2, <3>3 DEF Precedes
  <2>5. QED BY <2>1, <2>2, <2>3, <2>4
<1>7. QED BY <1>5, <1>6 DEF t

\* ... when it is one frame ...
LEMMA SomeOne ==
    ASSUME NEW f
    PROVE  \A K, L : (Any(<<f>>, K) <=> f.type \in K) /\ ~Precedes(<<f>>, K, L)
BY DEF Any, Precedes

\* ... and when it is none.
LEMMA SomeNone == \A K, L : ~Any(<<>>, K) /\ ~Precedes(<<>>, K, L)
BY DEF Any, Precedes

\* Frames of which one precedes another are both there.
LEMMA SomeBoth ==
    ASSUME NEW s
    PROVE  \A K, L : Precedes(s, K, L) => Any(s, K) /\ Any(s, L)
BY DEF Any, Precedes

\* Weaker demands, on fewer frames.
LEMMA RunsWider ==
    ASSUME NEW s, NEW K, NEW X, NEW Y, Runs(s, K, X, Y),
           NEW L, L \subseteq K, NEW X2, X \subseteq X2,
           NEW Y2, \A f, g \in X2 : <<f, g>> \in Y => <<f, g>> \in Y2
    PROVE  Runs(s, L, X2, Y2)
BY DEF Runs

\* What the head allows behind it.
Follows(h, X, Y) == {f \in X : <<h, f>> \in Y}

Shifted(s, K, L) ==
    L \subseteq 1 .. Len(Tail(s)) /\ \A i \in L : i + 1 \in K

\* A run of frames without its first one.
LEMMA RunsTail ==
    ASSUME NEW s \in Seq(Frame), s # <<>>, NEW K, NEW X, NEW Y, Runs(s, K, X, Y),
           NEW L, Shifted(s, K, L)
    PROVE  /\ Runs(Tail(s), L, X, Y)
           /\ K \subseteq Nat /\ 1 \in K
                 => Head(s) \in X /\ Runs(Tail(s), L, Follows(Head(s), X, Y), Y)
<1> DEFINE t == Tail(s)
<1>1. /\ Head(s) = s[1] /\ Len(t) \in Nat /\ L \subseteq 1 .. Len(t)
      /\ \A i \in 1 .. Len(t) : t[i] = s[i + 1]
  BY HeadTailProperties DEF Shifted
<1>2. \A i \in L : i + 1 \in K
  BY DEF Shifted
<1> HIDE DEF t
<1>3. \A i \in L : t[i] = s[i + 1] /\ t[i] \in X
  BY <1>1, <1>2 DEF Runs
<1>4. \A i, j \in L : i < j => <<t[i], t[j]>> \in Y
  <2> TAKE i, j \in L
  <2> HAVE i < j
  <2>1. i + 1 < j + 1
    BY <1>1
  <2>2. <<s[i + 1], s[j + 1]>> \in Y
    BY <1>2, <2>1 DEF Runs
  <2>3. QED BY <1>3, <2>2
<1>5. ASSUME 1 \in K PROVE Head(s) \in X /\ \A i \in L : t[i] \in Follows(Head(s), X, Y)
  <2>1. \A i \in L : 1 < i + 1
    BY <1>1
  <2>2. \A i \in L : <<s[1], s[i + 1]>> \in Y
    BY <1>2, <1>5, <2>1 DEF Runs
  <2>3. s[1] \in X
    BY <1>5 DEF Runs
  <2>4. QED BY <1>1, <1>3, <2>2, <2>3 DEF Follows
<1>6. QED BY <1>3, <1>4, <1>5 DEF Runs, t

\* New frames behind those that are on their way.
Added(s, g, K, L) ==
    L \subseteq 1 .. Len(s \o g) /\ \A i \in L : i \in K \/ i > Len(s)

Ends(X, g, Y) == \A f \in X : \A j \in 1 .. Len(g) : <<f, g[j]>> \in Y

\* A run of frames with others behind it.
LEMMA RunsCat ==
    ASSUME NEW s \in Seq(Frame), NEW g \in Seq(Frame), NEW K, K \subseteq 1 .. Len(s),
           NEW X, NEW Y, Runs(s, K, X, Y), NEW L, Added(s, g, K, L),
           NEW X2, X \subseteq X2, Runs(g, 1 .. Len(g), X2, Y), Ends(X, g, Y)
    PROVE  Runs(s \o g, L, X2, Y)
<1> DEFINE t == s \o g
           m == Len(s)
           n == Len(g)
<1>1. /\ m \in Nat /\ n \in Nat /\ Len(t) = m + n
      /\ \A i \in 1 .. m + n : t[i] = IF i <= m THEN s[i] ELSE g[i - m]
  BY ConcatProperties, LenProperties
<1>2. \A i \in K : i \in Nat /\ i <= m /\ t[i] = s[i]
  BY <1>1
<1>3. \A i \in 1 .. Len(t) : i > m => i - m \in 1 .. n /\ t[i] = g[i - m]
  BY <1>1
<1>4. \A i \in L : i \in 1 .. Len(t) /\ (i \in K \/ i > m)
  BY DEF Added
<1> HIDE DEF t, m
<1>5. ASSUME NEW i \in L PROVE t[i] \in X2
  <2>1. CASE i \in K
    BY <1>2, <2>1 DEF Runs
  <2>2. CASE i > m
    BY <1>3, <1>4, <2>2 DEF Runs
  <2>3. QED BY <1>4, <2>1, <2>2
<1>6. ASSUME NEW i \in L, NEW j \in L, i < j PROVE <<t[i], t[j]>> \in Y
  <2>1. CASE i \in K /\ j \in K
    BY <1>2, <1>6, <2>1 DEF Runs
  <2>2. CASE i \in K /\ j > m
    <3>1. t[i] \in X /\ j - m \in 1 .. n /\ t[j] = g[j - m]
      BY <1>2, <1>3, <1>4, <2>2 DEF Runs
    <3>2. QED BY <3>1 DEF Ends
  <2>3. CASE i > m /\ j > m
    <3>1. i - m \in 1 .. n /\ j - m \in 1 .. n /\ t[i] = g[i - m] /\ t[j] = g[j - m]
      BY <1>3, <1>4, <2>3
    <3>2. i - m < j - m
      BY <1>1, <1>4, <1>6
    <3>3. QED BY <3>1, <3>2 DEF Runs
  <2>4. CASE i > m /\ j \in K
    BY <1>1, <1>2, <1>4, <1>6, <2>4
  <2>5. QED BY <1>4, <2>1, <2>2, <2>3, <2>4
<1>7. QED BY <1>5, <1>6 DEF Runs, t

\* Where the sections of a channel go.
LEMMA SectionsTail ==
    ASSUME NEW s \in Seq(Frame), s # <<>>
    PROVE  /\ Head(s).type # "SABM" => Shifted(s, Before(s), Before(Tail(s)))
           /\ \A K : Shifted(s, Behind(s, K), Behind(Tail(s), K))
           /\ \A K : Head(s).type \in K
                 => Behind(s, K) = 1 .. Len(s) /\ Shifted(s, Behind(s, K), Before(Tail(s)))
           /\ Head(s).type # "SABM" => 1 \in Before(s)
           /\ \A K : Head(s).type \in K => 1 \in Behind(s, K)
<1> DEFINE t == Tail(s)
           m == Len(t)
<1>1. /\ m \in Nat /\ Len(s) = m + 1 /\ Head(s) = s[1]
      /\ \A i \in 1 .. m : t[i] = s[i + 1]
  <2>1. /\ Head(s) = s[1] /\ t \in Seq(Frame) /\ Len(t) = Len(s) - 1
        /\ \A i \in 1 .. Len(t) : t[i] = s[i + 1]
    BY HeadTailProperties
  <2>2. Len(s) \in Nat /\ Len(t) \in Nat
    BY <2>1, LenProperties
  <2>3. QED BY <2>1, <2>2
<1> HIDE DEF t
<1>2. \A i \in 1 .. m : i + 1 \in 1 .. Len(s)
  BY <1>1
<1>3. ASSUME Head(s).type # "SABM", NEW i \in Before(t) PROVE i + 1 \in Before(s)
  <2>1. i \in 1 .. m /\ \A j \in 1 .. i : t[j].type # "SABM"
    BY <1>3 DEF Before
  <2>2. ASSUME NEW j \in 1 .. i + 1 PROVE s[j].type # "SABM"
    <3>1. CASE j = 1
      BY <1>1, <1>3, <3>1
    <3>2. CASE j # 1
      <4>1. j - 1 \in 1 .. i /\ j - 1 \in 1 .. m /\ j - 1 + 1 = j
        BY <1>1, <2>1, <3>2
      <4>2. t[j - 1] = s[j]
        BY <1>1, <4>1
      <4>3. QED BY <2>1, <4>1, <4>2
    <3>3. QED BY <3>1, <3>2
  <2>3. QED BY <1>2, <2>1, <2>2 DEF Before
<1>4. ASSUME NEW K, NEW i \in Behind(t, K) PROVE i + 1 \in Behind(s, K)
  <2>1. i \in 1 .. m /\ \E j \in 1 .. i : t[j].type \in K
    BY <1>4 DEF Behind
  <2>2. PICK j \in 1 .. i : t[j].type \in K
    BY <2>1
  <2>3. j \in 1 .. m /\ j + 1 \in 1 .. i + 1
    BY <1>1, <2>1
  <2>4. s[j + 1].type \in K
    BY <1>1, <2>2, <2>3
  <2>5. QED BY <1>2, <2>1, <2>3, <2>4 DEF Behind
<1>5. ASSUME NEW K, Head(s).type \in K PROVE Behind(s, K) = 1 .. Len(s)
  <2>1. \A i \in 1 .. Len(s) : 1 \in 1 .. i
    BY <1>1
  <2>2. QED BY <1>1, <1>5, <2>1 DEF Behind
<1>6. 1 \in 1 .. Len(s) /\ \A j \in 1 .. 1 : j = 1
  BY <1>1
<1>7. Head(s).type # "SABM" => 1 \in Before(s)
  BY <1>1, <1>6 DEF Before
<1>8. Before(t) \subseteq 1 .. m /\ \A K : Behind(t, K) \subseteq 1 .. m
  BY DEF Before, Behind
<1>9. \A K : Head(s).type \in K
         => Behind(s, K) = 1 .. Len(s) /\ Shifted(s, Behind(s, K), Before(t))
  BY <1>2, <1>5, <1>8 DEF Shifted, t
<1>10. QED BY <1>3, <1>4, <1>5, <1>6, <1>7, <1>8, <1>9 DEF Shifted, t

\* The sections of a channel grow with what is sent.
LEMMA SectionsCat ==
    ASSUME NEW s \in Seq(Frame), NEW g \in Seq(Frame)
    PROVE  /\ Added(s, g, Before(s), Before(s \o g))
           /\ \A K : Added(s, g, Behind(s, K), Behind(s \o g, K))
           /\ \A K : ~Any(s, K) /\ ~Any(g, K) => Behind(s \o g, K) = {}
<1> DEFINE t == s \o g
           m == Len(s)
<1>1. /\ m \in Nat /\ Len(g) \in Nat /\ Len(t) = m + Len(g)
      /\ \A i \in 1 .. m : t[i] = s[i]
  BY ConcatProperties, LenProperties
<1>2. \A K : Any(t, K) <=> Any(s, K) \/ Any(g, K)
  BY SomeCat
<1> HIDE DEF t
<1>3. \A i \in 1 .. Len(t) : i > m \/ (i \in 1 .. m /\ \A j \in 1 .. i : j \in 1 .. m)
  BY <1>1
<1>4. ASSUME NEW i \in Before(t), ~(i > m) PROVE i \in Before(s)
  <2>1. i \in 1 .. Len(t) /\ \A j \in 1 .. i : t[j].type # "SABM"
    BY DEF Before
  <2>2. i \in 1 .. m /\ \A j \in 1 .. i : j \in 1 .. m
    BY <1>3, <1>4, <2>1
  <2>3. QED BY <1>1, <2>1, <2>2 DEF Before
<1>5. ASSUME NEW K, NEW i \in Behind(t, K), ~(i > m) PROVE i \in Behind(s, K)
  <2>1. i \in 1 .. Len(t) /\ \E j \in 1 .. i : t[j].type \in K
    BY DEF Behind
  <2>2. i \in 1 .. m /\ \A j \in 1 .. i : j \in 1 .. m
    BY <1>3, <1>5, <2>1
  <2>3. QED BY <1>1, <2>1, <2>2 DEF Behind
<1>6. Before(t) \subseteq 1 .. Len(t) /\ \A K : Behind(t, K) \subseteq 1 .. Len(t)
  BY DEF Before, Behind
<1>7. ASSUME NEW K, ~Any(t, K) PROVE Behind(t, K) = {}
  <2>1. ASSUME NEW i \in Behind(t, K) PROVE FALSE
    <3>1. i \in 1 .. Len(t) /\ \E j \in 1 .. i : t[j].type \in K
      BY DEF Behind
    <3>2. \A j \in 1 .. i : j \in 1 .. Len(t)
      BY <1>1, <3>1
    <3>3. QED BY <1>7, <3>1, <3>2 DEF Any
  <2>2. QED BY <2>1
<1>8. QED BY <1>2, <1>4, <1>5, <1>6, <1>7 DEF Added, t

\* Frames without numbers fit everywhere.
Mute(s, K) == K \subseteq 1 .. Len(s) /\ \A i \in K : ~Numbered(s[i])

\* Sections without a numbered frame.
LEMMA MuteSections ==
    ASSUME NEW s \in Seq(Frame)
    PROVE  /\ Before(s) \subseteq 1 .. Len(s) /\ \A K : Behind(s, K) \subseteq 1 .. Len(s)
           /\ ~Any(s, Numbers) => \A K : K \subseteq 1 .. Len(s) => Mute(s, K)
           /\ ~Precedes(s, {"UA"}, Numbers) => Mute(s, Behind(s, {"UA"}))
           /\ ~Precedes(s, {"SABM"}, Numbers) => Mute(s, Behind(s, {"SABM"}))
           /\ \A K : ~Any(s, K) => Behind(s, K) = {}
<1>1. Before(s) \subseteq 1 .. Len(s) /\ \A K : Behind(s, K) \subseteq 1 .. Len(s)
  BY DEF Before, Behind
<1>2. ~Any(s, Numbers) => \A K : K \subseteq 1 .. Len(s) => Mute(s, K)
  BY DEF Any, Mute, Numbers, Numbered
<1>3. ASSUME NEW x \in {"UA", "SABM"}, ~Precedes(s, {x}, Numbers),
             NEW i \in Behind(s, {x})
      PROVE  ~Numbered(s[i])
  <2>1. i \in 1 .. Len(s)
    BY <1>1
  <2>2. PICK j \in 1 .. i : s[j].type = x
    BY DEF Behind
  <2>3. Len(s) \in Nat
    BY LenProperties
  <2>4. j \in 1 .. Len(s) /\ (j = i \/ j < i)
    BY <2>1, <2>3
  <2>5. CASE j = i
    BY <2>2, <2>5 DEF Numbered
  <2>6. CASE j < i
    <3>1. s[i].type \notin Numbers
      BY <1>3, <2>1, <2>2, <2>4, <2>6 DEF Precedes
    <3>2. QED BY <3>1 DEF Numbers, Numbered
  <2>7. QED BY <2>4, <2>5, <2>6
<1>4. \A K : ~Any(s, K) => Behind(s, K) = {}
  <2>1. ASSUME NEW K, ~Any(s, K), NEW i \in Behind(s, K) PROVE FALSE
    <3>1. i \in 1 .. Len(s) /\ \E j \in 1 .. i : s[j].type \in K
      BY <2>1 DEF Behind
    <3>2. Len(s) \in Nat
      BY LenProperties
    <3>3. \A j \in 1 .. i : j \in 1 .. Len(s)
      BY <3>1, <3>2
    <3>4. QED BY <2>1, <3>1, <3>3 DEF Any
  <2>2. QED BY <2>1
<1>5. QED BY <1>1, <1>2, <1>3, <1>4 DEF Mute

\* Whatever the frames K of s meet, the frames L of t meet.
Relays(s, K, t, L) ==
    /\ \A S, top, b, r : Runs(s, K, Chunks(S, top, b, r), Rising)
                            => Runs(t, L, Chunks(S, top, b, r), Rising)
    /\ \A lo, hi, b, A : Runs(s, K, Answers(lo, hi, b, A), Ordered(lo))
                            => Runs(t, L, Answers(lo, hi, b, A), Ordered(lo))

\* A channel relays itself ...
LEMMA RelaysSame ==
    ASSUME NEW s, NEW K
    PROVE  Relays(s, K, s, K)
BY DEF Relays

\* ... relays itself without its first frame ...
LEMMA RelaysTail ==
    ASSUME NEW s \in Seq(Frame), s # <<>>, NEW K, NEW L, Shifted(s, K, L)
    PROVE  Relays(s, K, Tail(s), L)
BY RunsTail DEF Relays

\* A section without numbers fits any session ...
LEMMA MuteFits ==
    ASSUME NEW s \in Seq(Frame), NEW K, Mute(s, K)
    PROVE  /\ \A S, top, b, r : Runs(s, K, Chunks(S, top, b, r), Rising)
           /\ \A lo, hi, b, A : Runs(s, K, Answers(lo, hi, b, A), Ordered(lo))
<1>1. \A i \in K : s[i] \in Frame /\ ~Numbered(s[i]) /\ s[i].type # "I"
  <2> TAKE i \in K
  <2>1. i \in 1 .. Len(s)
    BY DEF Mute
  <2>2. s[i] \in Frame
    BY <2>1, ElementOfSeq
  <2>3. QED BY <2>2 DEF Mute, Numbered
<1>2. \A S, top, b, r : Runs(s, K, Chunks(S, top, b, r), Rising)
  BY <1>1 DEF Runs, Chunks, Rising
<1>3. \A lo, hi, b, A : Runs(s, K, Answers(lo, hi, b, A), Ordered(lo))
  BY <1>1 DEF Runs, Answers, Ordered
<1>4. QED BY <1>2, <1>3

\* ... and relays whatever was there.
LEMMA RelaysMute ==
    ASSUME NEW s, NEW K, NEW t \in Seq(Frame), NEW L, Mute(t, L)
    PROVE  Relays(s, K, t, L)
BY MuteFits DEF Relays

\* Frames without numbers add nothing to a channel.
LEMMA RelaysCat ==
    ASSUME NEW s \in Seq(Frame), NEW g \in Seq(Frame), Mute(g, 1 .. Len(g)),
           NEW K, K \subseteq 1 .. Len(s), NEW L, Added(s, g, K, L)
    PROVE  Relays(s, K, s \o g, L)
<1>1. \A j \in 1 .. Len(g) : g[j] \in Frame /\ ~Numbered(g[j]) /\ g[j].type # "I"
  <2> TAKE j \in 1 .. Len(g)
  <2>1. g[j] \in Frame
    BY ElementOfSeq
  <2>2. QED BY <2>1 DEF Mute, Numbered
<1>2. ASSUME NEW S, NEW top, NEW b, NEW r, Runs(s, K, Chunks(S, top, b, r), Rising)
      PROVE  Runs(s \o g, L, Chunks(S, top, b, r), Rising)
  <2> DEFINE X == Chunks(S, top, b, r)
  <2>1. Runs(g, 1 .. Len(g), X, Rising)
    BY MuteFits
  <2>2. X \subseteq Frame
    BY DEF Chunks
  <2>3. Ends(X, g, Rising)
    BY <1>1, <2>2 DEF Ends, Rising
  <2>4. X \subseteq X
    OBVIOUS
  <2> HIDE DEF X
  <2>5. QED BY <1>2, <2>1, <2>3, <2>4, RunsCat DEF X
<1>3. ASSUME NEW lo, NEW hi, NEW b, NEW A, Runs(s, K, Answers(lo, hi, b, A), Ordered(lo))
      PROVE  Runs(s \o g, L, Answers(lo, hi, b, A), Ordered(lo))
  <2> DEFINE X == Answers(lo, hi, b, A)
             Y == Ordered(lo)
  <2>1. Runs(g, 1 .. Len(g), X, Y)
    BY MuteFits
  <2>2. X \subseteq Frame
    BY DEF Answers
  <2>3. Ends(X, g, Y)
    BY <1>1, <2>2 DEF Ends, Ordered
  <2>4. Runs(s, K, X, Y) /\ X \subseteq X
    BY <1>3
  <2> HIDE DEF X, Y
  <2>5. Runs(s \o g, L, X, Y)
    BY <2>1, <2>3, <2>4, RunsCat
  <2>6. QED BY <2>5 DEF X, Y
<1>4. QED BY <1>2, <1>3 DEF Relays

-----------------------------------------------------------------------------
(* Sessions                                                                *)

\* More chunks may be met when more were sent ...
LEMMA ChunksTop ==
    ASSUME NEW S, NEW top \in Int, NEW high \in Int, top <= high, NEW b \in Nat, NEW r
    PROVE  Chunks(S, top, b, r) \subseteq Chunks(S, high, b, r)
<1>1. b .. top \subseteq b .. high
  OBVIOUS
<1>2. QED BY <1>1 DEF Chunks

\* ... and more answers when more were taken.
LEMMA AnswersTop ==
    ASSUME NEW lo \in Nat, NEW hi \in Int, NEW high \in Int, hi <= high, NEW b, NEW A
    PROVE  Answers(lo, hi, b, A) \subseteq Answers(lo, high, b, A)
<1>1. lo .. hi \subseteq lo .. high
  OBVIOUS
<1>2. QED BY <1>1 DEF Answers

\* The types of a view.
LEMMA VoiceTypes ==
    ASSUME NEW v, Voice(v)
    PROVE  /\ v.in \in Seq(Frame) /\ v.got \in Seq(Data) /\ Len(v.got) \in Nat
           /\ v.n \in Nat /\ v.n \in 0 .. MaxSend /\ v.b \in Nat
           /\ Up(v) \/ Calling(v) =>
                 /\ v.lo \in Nat /\ v.hi \in Nat /\ v.lo <= v.hi /\ v.hi <= v.lo + Window
                 /\ v.b \in v.starts /\ v.b + v.hi <= v.n + 1
                 /\ v.b + v.hi - 1 \in Int /\ v.b + v.hi - 1 <= v.n
           /\ Calling(v) =>
                 v.lo = 0 /\ v.hi = 0 /\ v.got = <<>> /\ Len(v.got) = 0 /\ v.b = v.n + 1
<1>1. v.in \in Seq(Frame) /\ v.got \in Seq(Data) /\ v.n \in Nat /\ v.b \in Nat
      /\ v.n \in 0 .. MaxSend
  BY BoundsAssumption DEF Voice
<1>2. Len(v.got) \in Nat /\ (v.got = <<>> => Len(v.got) = 0)
  BY <1>1, LenProperties
<1>3. Up(v) \/ Calling(v) =>
         /\ v.lo \in Nat /\ v.hi \in Nat /\ v.lo <= v.hi /\ v.hi <= v.lo + Window
         /\ v.b \in v.starts /\ v.b + v.hi <= v.n + 1
  BY DEF Voice
<1>4. Up(v) \/ Calling(v) => v.b + v.hi - 1 \in Int /\ v.b + v.hi - 1 <= v.n
  BY <1>1, <1>3
<1>5. Calling(v) => v.b = v.n + 1 /\ v.got = <<>>
  BY DEF Voice
<1>6. Calling(v) => v.hi = 0 /\ v.lo = 0
  BY <1>1, <1>3, <1>5
<1>7. QED BY <1>1, <1>2, <1>3, <1>4, <1>5, <1>6

\* Being joined is mutual, and needs both ends open.
LEMMA JoinedBoth ==
    ASSUME NEW v, NEW w
    PROVE  /\ Joined(v, w) <=> Joined(w, v)
           /\ Joined(v, w) => (Up(v) \/ Calling(v)) /\ (Up(w) \/ Calling(w))
BY DEF Joined, On

\* In a session each end has got at least the chunks that the other knows
\* to have arrived, and at most those that it sent.
LEMMA JoinedFacts ==
    ASSUME NEW v, NEW w, Voice(v), Voice(w), Session(v, w), Joined(v, w)
    PROVE  /\ v.lo <= Len(w.got) /\ Len(w.got) <= v.hi
           /\ Hears(v, w, v.b) /\ Heads(v, w, v.b)
           /\ Top(v, w) = v.b + v.hi - 1 /\ MostTaken(v, w) = Len(v.got)
<1>1. Up(w) \/ Calling(w)
  BY JoinedBoth
<1>2. PICK b \in Nat : Hears(v, w, b)
  BY <1>1 DEF Session
<1>3. QED BY <1>2 DEF Hears, Top, MostTaken

\* How far the frames on their way may reach.
LEMMA TopTypes ==
    ASSUME NEW v, NEW w, Voice(v), Voice(w), Session(v, w), Session(w, v)
    PROVE  /\ Top(v, w) \in Int /\ Top(v, w) <= v.n
           /\ Up(w) \/ Calling(w) =>
                 MostTaken(v, w) \in Nat /\ MostTaken(v, w) <= w.hi
                 /\ w.lo <= MostTaken(v, w)
<1>1. CASE Joined(v, w)
  <2>1. Joined(w, v) /\ (Up(v) \/ Calling(v)) /\ (Up(w) \/ Calling(w))
    BY <1>1, JoinedBoth
  <2>2. Top(v, w) = v.b + v.hi - 1 /\ MostTaken(v, w) = Len(v.got)
    BY <1>1 DEF Top, MostTaken
  <2>3. w.lo <= Len(v.got) /\ Len(v.got) <= w.hi
    BY <2>1, JoinedFacts
  <2>4. QED BY <2>1, <2>2, <2>3, VoiceTypes
<1>2. CASE ~Joined(v, w)
  <2>1. Top(v, w) = v.n /\ MostTaken(v, w) = w.hi
    BY <1>2 DEF Top, MostTaken
  <2>2. QED BY <2>1, VoiceTypes
<1>3. QED BY <1>1, <1>2

\* The channel hands on what it had, and the listener stays where it was;
\* the speaker stays, or is not joined (any more).
Stays(v, v2) == v2.b = v.b /\ v2.lo = v.lo /\ v2.hi = v.hi /\ v2.got = v.got

\* A session carries over when its receiver and its channel do.
LEMMA SessionCarried ==
    ASSUME NEW v, NEW w, Voice(v), Voice(w), Session(v, w), Session(w, v),
           NEW v2, NEW w2, v2.starts = v.starts, v2.n = v.n, v2.seen = v.seen,
           Up(w2) \/ Calling(w2) => Up(w) \/ Calling(w), Stays(w, w2),
           ~Joined(v2, w2) \/ (Joined(v, w) /\ Stays(v, v2)),
           Up(v2) => (Up(v) \/ ~Precedes(w2.in, {"SABM"}, Numbers)) /\ Stays(v, v2),
           Up(w) \/ Calling(w) => Relays(w.in, Live(w), w2.in, Live(w2)),
           Precedes(w2.in, {"SABM"}, Numbers) =>
               /\ Precedes(w.in, {"SABM"}, Numbers)
               /\ Relays(w.in, Behind(w.in, {"SABM"}), w2.in, Behind(w2.in, {"SABM"}))
    PROVE  Session(v2, w2)
<1>1. Top(v, w) \in Int /\ Top(v2, w2) \in Int /\ Top(v, w) <= Top(v2, w2)
  <2>1. Top(v, w) \in Int /\ Top(v, w) <= v.n /\ v.n \in Int
    BY TopTypes, VoiceTypes
  <2>2. CASE ~Joined(v2, w2)
    BY <2>1, <2>2 DEF Top
  <2>3. CASE Joined(v2, w2)
    <3>1. Joined(v, w) /\ Stays(v, v2)
      BY <2>3
    <3>2. Top(v2, w2) = Top(v, w)
      BY <2>3, <3>1 DEF Top, Stays
    <3>3. QED BY <2>1, <3>2
  <2>4. QED BY <2>2, <2>3
<1>4. ASSUME Up(w) \/ Calling(w) PROVE \E b \in Nat : Hears(v2, w2, b)
  <2>1. PICK b \in Nat : Hears(v, w, b)
    BY <1>4 DEF Session
  <2>2. w2.got = w.got
    BY DEF Stays
  <2> DEFINE X == Chunks(v.starts, Top(v, w), b, Len(w.got))
             X2 == Chunks(v2.starts, Top(v2, w2), b, Len(w2.got))
  <2>3. X \subseteq X2
    BY <1>1, <2>2, ChunksTop
  <2>4. Runs(w.in, Live(w), X, Rising)
    BY <2>1 DEF Hears
  <2>5. Runs(w2.in, Live(w2), X, Rising)
    BY <1>4, <2>4 DEF Relays
  <2> HIDE DEF X, X2
  <2>6. Runs(w2.in, Live(w2), X2, Rising)
    BY <2>3, <2>5, RunsWider
  <2>7. Heads(v2, w2, b)
    BY <2>1, <2>2 DEF Hears, Heads
  <2>8. Joined(v2, w2) => b = v2.b /\ v2.lo <= Len(w2.got) /\ Len(w2.got) <= v2.hi
    BY <2>1, <2>2 DEF Hears, Stays
  <2>9. QED BY <2>6, <2>7, <2>8 DEF Hears, X2
<1>5. ASSUME Up(w) \/ Calling(w)
      PROVE  Runs(w2.in, Live(w2), Answers(w2.lo, MostTaken(v2, w2), w2.b, v2.seen),
                  Ordered(w2.lo))
  <2>1. w.lo \in Nat /\ w.hi \in Int /\ MostTaken(v, w) \in Int /\ MostTaken(v, w) <= w.hi
    BY <1>5, TopTypes, VoiceTypes
  <2>2. MostTaken(v, w) <= MostTaken(v2, w2) /\ MostTaken(v2, w2) \in Int
    <3>1. CASE ~Joined(v2, w2)
      BY <2>1, <3>1 DEF MostTaken, Stays
    <3>2. CASE Joined(v2, w2)
      <4>1. Joined(v, w) /\ v2.got = v.got
        BY <3>2 DEF Stays
      <4>2. MostTaken(v2, w2) = MostTaken(v, w)
        BY <3>2, <4>1 DEF MostTaken
      <4>3. QED BY <2>1, <4>2
    <3>3. QED BY <3>1, <3>2
  <2>3. w2.lo = w.lo /\ w2.b = w.b
    BY DEF Stays
  <2> DEFINE X == Answers(w.lo, MostTaken(v, w), w.b, v.seen)
             X2 == Answers(w2.lo, MostTaken(v2, w2), w2.b, v2.seen)
             Y == Ordered(w.lo)
  <2>4. X \subseteq X2
    BY <2>1, <2>2, <2>3, AnswersTop
  <2>5. Runs(w.in, Live(w), X, Y)
    BY <1>5 DEF Session
  <2>6. Runs(w2.in, Live(w2), X, Y)
    BY <1>5, <2>5 DEF Relays
  <2> HIDE DEF X, X2, Y
  <2>7. Runs(w2.in, Live(w2), X2, Y)
    BY <2>4, <2>6, RunsWider
  <2>8. QED BY <2>3, <2>7 DEF X2, Y
<1>6. ASSUME Precedes(w2.in, {"SABM"}, Numbers) PROVE \E b \in Nat : Awaits(v2, w2, b)
  <2> DEFINE K == Behind(w.in, {"SABM"})
             K2 == Behind(w2.in, {"SABM"})
  <2>1. PICK b \in Nat : Awaits(v, w, b)
    BY <1>6 DEF Session
  <2>2. Relays(w.in, K, w2.in, K2)
    BY <1>6
  <2> DEFINE top == IF Up(v) THEN v.b + v.hi - 1 ELSE v.n
             top2 == IF Up(v2) THEN v2.b + v2.hi - 1 ELSE v2.n
             X == Chunks(v.starts, top, b, 0)
             X2 == Chunks(v2.starts, top2, b, 0)
  <2>3. top \in Int /\ top2 \in Int /\ top <= top2
    <3>1. Up(v2) => Up(v) /\ v2.b = v.b /\ v2.hi = v.hi
      BY <1>6 DEF Stays
    <3>2. v.n \in Int /\ (Up(v) => v.b + v.hi - 1 \in Int /\ v.b + v.hi - 1 <= v.n)
      BY VoiceTypes
    <3>3. QED BY <3>1, <3>2
  <2>4. Runs(w.in, K, X, Rising) /\ Runs(w.in, K, Answers(0, 0, 0, {}), Ordered(0))
        /\ (Up(v) => b = v.b)
    BY <2>1 DEF Awaits
  <2>5. Runs(w2.in, K2, X, Rising) /\ Runs(w2.in, K2, Answers(0, 0, 0, {}), Ordered(0))
    BY <2>2, <2>4 DEF Relays
  <2>6. X \subseteq X2
    BY <2>3, ChunksTop
  <2>7. Up(v2) => b = v2.b
    BY <1>6, <2>4 DEF Stays
  <2> HIDE DEF X, X2
  <2>8. Runs(w2.in, K2, X2, Rising)
    BY <2>5, <2>6, RunsWider
  <2>9. Awaits(v2, w2, b)
    BY <2>5, <2>7, <2>8 DEF Awaits, X2
  <2>10. QED BY <2>9
<1>7. QED BY <1>4, <1>5, <1>6 DEF Session

\* The same for a sender that stays in its state.
LEMMA SessionKept ==
    ASSUME NEW v, NEW w, Voice(v), Voice(w), Session(v, w), Session(w, v),
           NEW v2, NEW w2, v2.starts = v.starts, v2.n = v.n, v2.seen = v.seen,
           w2.state = w.state, Stays(w, w2),
           ~Joined(v2, w2) \/ (Joined(v, w) /\ Stays(v, v2)),
           Up(v2) => Up(v) /\ Stays(v, v2),
           Up(w) \/ Calling(w) => Relays(w.in, Live(w), w2.in, Live(w2)),
           Precedes(w2.in, {"SABM"}, Numbers) =>
               /\ Precedes(w.in, {"SABM"}, Numbers)
               /\ Relays(w.in, Behind(w.in, {"SABM"}), w2.in, Behind(w2.in, {"SABM"}))
    PROVE  Session(v2, w2)
<1>1. Up(w2) \/ Calling(w2) => Up(w) \/ Calling(w)
  BY DEF Up, Calling
<1>2. QED BY <1>1, SessionCarried

-----------------------------------------------------------------------------
(* A frame is read or lost                                                 *)

Unmoved(v, v2) ==
    /\ v2.state = v.state /\ Stays(v, v2) /\ v2.n = v.n /\ v2.starts = v.starts
    /\ v2.seen = v.seen /\ v2.called = v.called

\* Losing a frame confuses neither end about the other's state.
LEMMA DropControl ==
    ASSUME NEW v, NEW w, Control(v, w), Control(w, v), v.in \in Seq(Frame), v.in # <<>>,
           NEW v2, Unmoved(v, v2), v2.in = Tail(v.in)
    PROVE  Control(v2, w) /\ Control(w, v2)
<1>1. \A K, L :
         /\ Any(v.in, K) <=> Head(v.in).type \in K \/ Any(v2.in, K)
         /\ Precedes(v.in, K, L) <=> \/ Head(v.in).type \in K /\ Any(v2.in, L)
                                     \/ Precedes(v2.in, K, L)
  BY SomeTail
<1>2. /\ Up(v2) <=> Up(v)
      /\ Calling(v2) <=> Calling(v)
      /\ Shut(v2) <=> Shut(v)
      /\ Virgin(v2) <=> Virgin(v)
      /\ v2.called <=> v.called
  BY DEF Unmoved, Stays, Up, Calling, Shut, Virgin
<1>3. Control(v2, w)
  BY <1>1, <1>2 DEF Control
<1>4. Control(w, v2)
  BY <1>1, <1>2 DEF Control
<1>5. QED BY <1>3, <1>4

\* A view that does not move keeps its voice ...
LEMMA VoiceKept ==
    ASSUME NEW v, Voice(v), NEW v2, Unmoved(v, v2), v2.in \in Seq(Frame)
    PROVE  Voice(v2)
BY DEF Voice, Unmoved, Stays, Up, Calling

\* ... its state and its session.
LEMMA UnmovedSame ==
    ASSUME NEW v, NEW v2, Unmoved(v, v2)
    PROVE  /\ Up(v2) <=> Up(v)
           /\ Calling(v2) <=> Calling(v)
           /\ Shut(v2) <=> Shut(v)
           /\ Virgin(v2) <=> Virgin(v)
           /\ v2.called <=> v.called
           /\ Stays(v, v2) /\ v2.state = v.state /\ v2.starts = v.starts
           /\ v2.n = v.n /\ v2.seen = v.seen
BY DEF Unmoved, Stays, Up, Calling, Shut, Virgin

\* The live section of a channel without its first frame.
LEMMA LiveTail ==
    ASSUME NEW v, v.in \in Seq(Frame), v.in # <<>>, NEW v2, v2.in = Tail(v.in),
           \/ v2.state = v.state
           \/ Calling(v) /\ Up(v2) /\ Head(v.in).type = "UA",
           Up(v) => ~Precedes(v.in, {"SABM"}, Numbers)
    PROVE  /\ Relays(v.in, Live(v), v2.in, Live(v2))
           /\ Relays(v.in, Behind(v.in, {"SABM"}), v2.in, Behind(v2.in, {"SABM"}))
<1>1. v2.in \in Seq(Frame)
  BY HeadTailProperties
<1>2. Relays(v.in, Behind(v.in, {"SABM"}), v2.in, Behind(v2.in, {"SABM"}))
  <2>1. Shifted(v.in, Behind(v.in, {"SABM"}), Behind(v2.in, {"SABM"}))
    BY SectionsTail
  <2>2. QED BY <2>1, RelaysTail
<1>3. CASE Up(v) /\ Up(v2)
  <2>1. Live(v) = Before(v.in) /\ Live(v2) = Before(v2.in)
    BY <1>3 DEF Live
  <2>2. CASE Head(v.in).type # "SABM"
    <3>1. Shifted(v.in, Before(v.in), Before(v2.in))
      BY <2>2, SectionsTail
    <3>2. Relays(v.in, Before(v.in), Tail(v.in), Before(v2.in))
      BY <3>1, RelaysTail
    <3>3. QED BY <1>2, <2>1, <3>2
  <2>3. CASE Head(v.in).type = "SABM"
    <3>1. ~Any(v2.in, Numbers)
      BY <1>3, <2>3, SomeTail
    <3>2. Mute(v2.in, Before(v2.in))
      BY <1>1, <3>1, MuteSections
    <3>3. Relays(v.in, Live(v), v2.in, Live(v2))
      BY <1>1, <2>1, <3>2, RelaysMute
    <3>4. QED BY <1>2, <3>3
  <2>4. QED BY <2>2, <2>3
<1>4. CASE Calling(v) /\ Calling(v2)
  <2>1. Live(v) = Behind(v.in, {"UA"}) /\ Live(v2) = Behind(v2.in, {"UA"})
    BY <1>4 DEF Live, Up, Calling
  <2>2. Shifted(v.in, Behind(v.in, {"UA"}), Behind(v2.in, {"UA"}))
    BY SectionsTail
  <2>3. Relays(v.in, Behind(v.in, {"UA"}), Tail(v.in), Behind(v2.in, {"UA"}))
    BY <2>2, RelaysTail
  <2>4. QED BY <1>2, <2>1, <2>3
<1>5. CASE Calling(v) /\ Up(v2) /\ Head(v.in).type = "UA"
  <2>1. Live(v) = Behind(v.in, {"UA"}) /\ Live(v2) = Before(v2.in)
    BY <1>5 DEF Live, Up, Calling
  <2>2. Shifted(v.in, Behind(v.in, {"UA"}), Before(v2.in))
    BY <1>5, SectionsTail
  <2>3. Relays(v.in, Behind(v.in, {"UA"}), Tail(v.in), Before(v2.in))
    BY <2>2, RelaysTail
  <2>4. QED BY <1>2, <2>1, <2>3
<1>6. CASE ~Up(v2) /\ ~Calling(v2)
  <2>1. Live(v2) = {}
    BY <1>6 DEF Live
  <2>2. Mute(v2.in, {})
    BY DEF Mute
  <2>3. Relays(v.in, Live(v), v2.in, Live(v2))
    BY <1>1, <2>1, <2>2, RelaysMute
  <2>4. QED BY <1>2, <2>3
<1>7. Up(v2) /\ v2.state = v.state => Up(v)
  BY DEF Up
<1>8. Calling(v2) /\ v2.state = v.state => Calling(v)
  BY DEF Calling
<1>9. Calling(v2) => ~Up(v2)
  BY DEF Up, Calling
<1>10. QED BY <1>3, <1>4, <1>5, <1>6, <1>7, <1>8, <1>9

\* Losing a frame keeps the link good.
LEMMA DropGood ==
    ASSUME NEW v, NEW w, Good(v, w), v.in # <<>>,
           NEW v2, Unmoved(v, v2), v2.in = Tail(v.in)
    PROVE  Good(v2, w)
<1>1. /\ Voice(v) /\ Control(v, w) /\ Session(w, v)
      /\ Voice(w) /\ Control(w, v) /\ Session(v, w)
  BY DEF Good, Half
<1>2. v.in \in Seq(Frame) /\ v2.in \in Seq(Frame) /\ w.in \in Seq(Frame)
  BY <1>1, HeadTailProperties, VoiceTypes
<1>3. Control(v2, w) /\ Control(w, v2)
  BY <1>1, <1>2, DropControl
<1>4. Voice(v2)
  BY <1>1, <1>2, VoiceKept
<1>5. \A K, L :
         /\ Any(v.in, K) <=> Head(v.in).type \in K \/ Any(v2.in, K)
         /\ Precedes(v.in, K, L) <=> \/ Head(v.in).type \in K /\ Any(v2.in, L)
                                     \/ Precedes(v2.in, K, L)
  <2>1. \A K, L :
           /\ Any(v.in, K) <=> Head(v.in).type \in K \/ Any(Tail(v.in), K)
           /\ Precedes(v.in, K, L) <=> \/ Head(v.in).type \in K /\ Any(Tail(v.in), L)
                                       \/ Precedes(Tail(v.in), K, L)
    BY <1>2, SomeTail
  <2>2. Tail(v.in) = v2.in
    OBVIOUS
  <2>3. QED BY <2>1, <2>2, Zenon
<1>6. Joined(v2, w) => Joined(v, w)
  BY <1>5, UnmovedSame DEF Joined, On
<1>7. Session(w, v2)
  <2>1. Relays(v.in, Live(v), v2.in, Live(v2))
        /\ Relays(v.in, Behind(v.in, {"SABM"}), v2.in, Behind(v2.in, {"SABM"}))
    <3>1. Up(v) => ~Precedes(v.in, {"SABM"}, Numbers)
      BY <1>1 DEF Control
    <3>2. QED BY <1>2, <3>1, LiveTail, UnmovedSame
  <2>2. ~Joined(w, v2) \/ (Joined(w, v) /\ Stays(w, w))
    BY <1>6, JoinedBoth DEF Stays
  <2>3. Up(w) => Up(w) /\ Stays(w, w)
    BY DEF Stays
  <2>4. v2.state = v.state /\ Stays(v, v2)
    BY DEF Unmoved
  <2>5. Precedes(v2.in, {"SABM"}, Numbers) => Precedes(v.in, {"SABM"}, Numbers)
    BY <1>5
  <2>6. QED BY <1>1, <2>1, <2>2, <2>3, <2>4, <2>5, SessionKept
<1>8. Session(v2, w)
  <2>1. ~Joined(v2, w) \/ (Joined(v, w) /\ Stays(v, v2))
    BY <1>6, UnmovedSame
  <2>2. Up(v2) => Up(v) /\ Stays(v, v2)
    BY UnmovedSame
  <2>3. Relays(w.in, Live(w), w.in, Live(w))
        /\ Relays(w.in, Behind(w.in, {"SABM"}), w.in, Behind(w.in, {"SABM"}))
    BY RelaysSame
  <2>4. w.state = w.state /\ Stays(w, w)
    BY DEF Stays
  <2>5. v2.starts = v.starts /\ v2.n = v.n /\ v2.seen = v.seen
    BY UnmovedSame
  <2>6. QED BY <1>1, <2>1, <2>2, <2>3, <2>4, <2>5, SessionKept
<1>9. QED BY <1>1, <1>3, <1>4, <1>7, <1>8 DEF Good, Half

-----------------------------------------------------------------------------
(* A frame without a number is sent                                        *)

\* The live section of a channel with more frames.
LEMMA LiveCat ==
    ASSUME NEW w, w.in \in Seq(Frame), NEW g \in Seq(Frame), Mute(g, 1 .. Len(g)),
           NEW w2, w2.in = w.in \o g, w2.state = w.state
    PROVE  /\ Relays(w.in, Live(w), w2.in, Live(w2))
           /\ Relays(w.in, Behind(w.in, {"SABM"}), w2.in, Behind(w2.in, {"SABM"}))
<1>1. /\ Added(w.in, g, Before(w.in), Before(w2.in))
      /\ \A K : Added(w.in, g, Behind(w.in, K), Behind(w2.in, K))
  BY SectionsCat
<1>2. Before(w.in) \subseteq 1 .. Len(w.in) /\ \A K : Behind(w.in, K) \subseteq 1 .. Len(w.in)
  BY MuteSections
<1>3. Relays(w.in, Before(w.in), w.in \o g, Before(w2.in))
  BY <1>1, <1>2, RelaysCat
<1>4. ASSUME NEW K PROVE Relays(w.in, Behind(w.in, K), w.in \o g, Behind(w2.in, K))
  BY <1>1, <1>2, RelaysCat
<1>5. Added(w.in, g, {}, {})
  BY DEF Added
<1>6. Relays(w.in, {}, w.in \o g, {})
  BY <1>5, RelaysCat
<1>7. Relays(w.in, Live(w), w2.in, Live(w2))
  BY <1>3, <1>4, <1>6 DEF Live, Up, Calling
<1>8. QED BY <1>4, <1>7

\* A frame without a number is a mute section.
LEMMA OneMute ==
    ASSUME NEW f \in Frame, ~Numbered(f)
    PROVE  <<f>> \in Seq(Frame) /\ Mute(<<f>>, 1 .. Len(<<f>>))
BY DEF Mute

\* What v's frame changes for the other station.
Sent(w, w2, f) == Unmoved(w, w2) /\ w2.in = w.in \o <<f>>

\* What is on its way after one more frame without a number.
LEMMA SentAtoms ==
    ASSUME NEW w, w.in \in Seq(Frame), NEW f \in Frame, ~Numbered(f), NEW w2, Sent(w, w2, f)
    PROVE  /\ w2.in \in Seq(Frame)
           /\ \A K, L :
                 /\ Any(w2.in, K) <=> Any(w.in, K) \/ f.type \in K
                 /\ Precedes(w2.in, K, L) <=> \/ Precedes(w.in, K, L)
                                              \/ Any(w.in, K) /\ f.type \in L
           /\ f.type \notin Numbers
           /\ Relays(w.in, Live(w), w2.in, Live(w2))
           /\ Relays(w.in, Behind(w.in, {"SABM"}), w2.in, Behind(w2.in, {"SABM"}))
<1>1. <<f>> \in Seq(Frame) /\ Mute(<<f>>, 1 .. Len(<<f>>))
  BY OneMute
<1>2. w2.in = w.in \o <<f>> /\ w2.state = w.state
  BY DEF Sent, Unmoved
<1>3. w2.in \in Seq(Frame)
  BY <1>1, <1>2, ConcatProperties
<1>4. \A K, L :
         /\ Any(w.in \o <<f>>, K) <=> Any(w.in, K) \/ Any(<<f>>, K)
         /\ Precedes(w.in \o <<f>>, K, L)
              <=> \/ Precedes(w.in, K, L) \/ Precedes(<<f>>, K, L)
                  \/ Any(w.in, K) /\ Any(<<f>>, L)
  BY <1>1, SomeCat
<1>5. \A K, L : (Any(<<f>>, K) <=> f.type \in K) /\ ~Precedes(<<f>>, K, L)
  BY SomeOne
<1>6. f.type \notin Numbers
  BY DEF Numbers, Numbered
<1>7. \A K, L :
         /\ Any(w2.in, K) <=> Any(w.in, K) \/ f.type \in K
         /\ Precedes(w2.in, K, L) <=> \/ Precedes(w.in, K, L)
                                      \/ Any(w.in, K) /\ f.type \in L
  <2> TAKE K, L
  <2>1. /\ Any(<<f>>, K) <=> f.type \in K
        /\ Any(<<f>>, L) <=> f.type \in L
        /\ ~Precedes(<<f>>, K, L)
    BY <1>5
  <2>2. /\ Any(w.in \o <<f>>, K) <=> Any(w.in, K) \/ Any(<<f>>, K)
        /\ Precedes(w.in \o <<f>>, K, L)
              <=> \/ Precedes(w.in, K, L) \/ Precedes(<<f>>, K, L)
                  \/ Any(w.in, K) /\ Any(<<f>>, L)
    BY <1>4
  <2>3. w2.in = w.in \o <<f>>
    BY <1>2
  <2>4. QED BY ONLY <2>1, <2>2, <2>3
<1>8. /\ Relays(w.in, Live(w), w2.in, Live(w2))
      /\ Relays(w.in, Behind(w.in, {"SABM"}), w2.in, Behind(w2.in, {"SABM"}))
  BY <1>1, <1>2, LiveCat
<1>9. QED BY <1>3, <1>6, <1>7, <1>8

\* v's frame says nothing about v, and no UA joins a session with it.
LEMMA SentSessions ==
    ASSUME NEW v, NEW w, Good(v, w), NEW f \in Frame, ~Numbered(f), NEW w2, Sent(w, w2, f),
           f.type = "UA" => ~(Calling(w) /\ Up(v))
    PROVE  Voice(w2) /\ Session(v, w2) /\ Session(w2, v)
<1>1. Voice(v) /\ Session(w, v) /\ Voice(w) /\ Session(v, w)
  BY DEF Good, Half
<1>2. w.in \in Seq(Frame)
  BY <1>1, VoiceTypes
<1>3. w2.in \in Seq(Frame) /\ Unmoved(w, w2)
  BY <1>2, SentAtoms DEF Sent
<1>4. \A K, L :
         /\ Any(w2.in, K) <=> Any(w.in, K) \/ f.type \in K
         /\ Precedes(w2.in, K, L) <=> \/ Precedes(w.in, K, L)
                                      \/ Any(w.in, K) /\ f.type \in L
  BY <1>2, SentAtoms
<1>5. Joined(v, w2) => Joined(v, w)
  BY <1>3, <1>4, UnmovedSame DEF Joined, On
<1>6. /\ Relays(w.in, Live(w), w2.in, Live(w2))
      /\ Relays(w.in, Behind(w.in, {"SABM"}), w2.in, Behind(w2.in, {"SABM"}))
  BY <1>2, SentAtoms
<1>7. f.type \notin Numbers
  BY <1>2, SentAtoms
<1>8. Stays(w, w2) /\ w2.state = w.state /\ w2.starts = w.starts /\ w2.n = w.n
      /\ w2.seen = w.seen /\ (Up(w2) <=> Up(w))
  BY <1>3, UnmovedSame
<1>9. Stays(v, v) /\ v.state = v.state
  BY DEF Stays
<1>10. Session(v, w2)
  <2>1. Precedes(w2.in, {"SABM"}, Numbers) => Precedes(w.in, {"SABM"}, Numbers)
    BY <1>4, <1>7
  <2>2. ~Joined(v, w2) \/ (Joined(v, w) /\ Stays(v, v))
    BY <1>5, <1>9
  <2>3. Up(v) => Up(v) /\ Stays(v, v)
    BY <1>9
  <2>4. QED BY <1>1, <1>6, <1>8, <2>1, <2>2, <2>3, SessionKept
<1>11. Session(w2, v)
  <2>1. Relays(v.in, Live(v), v.in, Live(v))
        /\ Relays(v.in, Behind(v.in, {"SABM"}), v.in, Behind(v.in, {"SABM"}))
    BY RelaysSame
  <2>2. ~Joined(w2, v) \/ (Joined(w, v) /\ Stays(w, w2))
    BY <1>5, <1>8, JoinedBoth
  <2>3. Up(w2) => Up(w) /\ Stays(w, w2)
    BY <1>8
  <2>4. QED BY <1>1, <1>8, <1>9, <2>1, <2>2, <2>3, SessionKept
<1>12. Voice(w2)
  BY <1>1, <1>3, VoiceKept
<1>13. QED BY <1>10, <1>11, <1>12

\* DISC, DM, the SABM of a redial on a silent path, and the UA of a closed
\* station.
LEMMA SentGood ==
    ASSUME NEW v, NEW w, Good(v, w), NEW f \in Frame, NEW w2, Sent(w, w2, f),
           \/ f.type \in {"DISC", "DM", "OTHER"}
           \/ f.type = "SABM" /\ Calling(v) /\ v.in = <<>> /\ w.in = <<>>
           \/ /\ f.type = "UA" /\ Shut(v)
              /\ ~w.called \/ Any(v.in, {"SABM"}) => v.called
    PROVE  Good(v, w2)
<1>1. Voice(v) /\ Control(v, w) /\ Control(w, v) /\ Voice(w)
  BY DEF Good, Half
<1>2. w.in \in Seq(Frame) /\ ~Numbered(f)
  BY <1>1, VoiceTypes DEF Numbered
<1>3. /\ \A K, L :
         /\ Any(w2.in, K) <=> Any(w.in, K) \/ f.type \in K
         /\ Precedes(w2.in, K, L) <=> \/ Precedes(w.in, K, L)
                                      \/ Any(w.in, K) /\ f.type \in L
      /\ f.type \notin Numbers
  BY <1>2, SentAtoms
<1>4. /\ Up(w2) <=> Up(w)
      /\ Calling(w2) <=> Calling(w)
      /\ Shut(w2) <=> Shut(w)
      /\ Virgin(w2) <=> Virgin(w)
      /\ w2.called <=> w.called
  BY UnmovedSame DEF Sent
<1>5. Control(v, w2) /\ Control(w2, v)
  <2>1. CASE f.type \in {"DISC", "DM", "OTHER"}
    <3>1. ~(f.type \in {"UA"}) /\ ~(f.type \in {"SABM"})
      BY <2>1
    <3>2. QED BY <1>1, <1>3, <1>4, <3>1 DEF Control
  <2>2. CASE f.type = "SABM" /\ Calling(v) /\ v.in = <<>> /\ w.in = <<>>
    <3>1. ~(f.type \in {"UA"}) /\ f.type \in {"SABM"}
      BY <2>2
    <3>2. \A K, L : /\ ~Any(v.in, K) /\ ~Precedes(v.in, K, L)
                    /\ ~Any(w.in, K) /\ ~Precedes(w.in, K, L)
      BY <2>2, SomeNone
    <3>3. ~Up(v) /\ v.called
      BY <1>1, <2>2 DEF Control, Up, Calling
    <3>4. QED BY <1>1, <1>3, <1>4, <2>2, <3>1, <3>2, <3>3 DEF Control
  <2>3. CASE /\ f.type = "UA" /\ Shut(v)
             /\ ~w.called \/ Any(v.in, {"SABM"}) => v.called
    <3>1. f.type \in {"UA"} /\ ~(f.type \in {"SABM"})
      BY <2>3
    <3>2. ~Up(v) /\ ~Calling(v)
      BY <2>3 DEF Up, Calling, Shut
    <3>3. \A K, L : Precedes(w.in, K, L) => Any(w.in, K) /\ Any(w.in, L)
      BY SomeBoth
    <3>4. Control(v, w2)
      BY <1>1, <1>3, <1>4, <3>1, <3>2 DEF Control
    <3>5. Control(w2, v)
      BY <1>1, <1>3, <1>4, <2>3, <3>1, <3>2, <3>3 DEF Control
    <3>6. QED BY <3>4, <3>5
  <2>4. QED BY <2>1, <2>2, <2>3
<1>6. Voice(w2) /\ Session(v, w2) /\ Session(w2, v)
  <2>1. f.type = "UA" => ~(Calling(w) /\ Up(v))
    BY DEF Up, Shut
  <2>2. QED BY <1>2, <2>1, SentSessions
<1>7. QED BY <1>1, <1>5, <1>6 DEF Good, Half

-----------------------------------------------------------------------------
(* A session or a call ends                                                *)

Left(v, v2) ==
    /\ ~Up(v2) /\ ~Calling(v2) /\ (Shut(v) => Shut(v2))
    /\ v2.in = v.in /\ v2.got = v.got /\ v2.b = v.b /\ v2.n = v.n
    /\ v2.starts = v.starts /\ v2.seen = v.seen /\ v2.called = v.called

\* A station that leaves keeps the link good.
LEMMA LeaveGood ==
    ASSUME NEW v, NEW w, Good(v, w), NEW v2, Left(v, v2)
    PROVE  Good(v2, w)
<1>1. /\ Voice(v) /\ Control(v, w) /\ Session(w, v)
      /\ Voice(w) /\ Control(w, v) /\ Session(v, w)
  BY DEF Good, Half
<1>2. Voice(v2)
  BY <1>1 DEF Voice, Left
<1>3. Control(v2, w) /\ Control(w, v2)
  <2>1. ~Up(v2) /\ ~Calling(v2) /\ (Shut(v) => Shut(v2)) /\ (v2.called <=> v.called)
        /\ v2.in = v.in
    BY DEF Left
  <2>2. Shut(v2) => ~Up(v2) /\ ~Calling(v2)
    BY DEF Up, Calling, Shut
  <2>3. Control(v2, w)
    BY <1>1, <2>1 DEF Control
  <2>4. Control(w, v2)
    BY <1>1, <2>1 DEF Control
  <2>5. QED BY <2>3, <2>4
<1>4. ~Joined(v2, w) /\ ~Joined(w, v2)
  BY JoinedBoth DEF Left
<1>5. Session(v2, w)
  <2>1. Relays(w.in, Live(w), w.in, Live(w))
        /\ Relays(w.in, Behind(w.in, {"SABM"}), w.in, Behind(w.in, {"SABM"}))
    BY RelaysSame
  <2>2. v2.starts = v.starts /\ v2.n = v.n /\ v2.seen = v.seen /\ ~Up(v2)
    BY DEF Left
  <2>3. w.state = w.state /\ Stays(w, w)
    BY DEF Stays
  <2>4. QED BY <1>1, <1>4, <2>1, <2>2, <2>3, SessionKept
<1>6. Session(w, v2)
  <2>1. ~Up(v2) /\ ~Calling(v2) /\ v2.in = v.in
    BY DEF Left
  <2>2. ASSUME NEW b \in Nat, Awaits(w, v, b) PROVE Awaits(w, v2, b)
    BY <2>1, <2>2 DEF Awaits
  <2>3. Precedes(v2.in, {"SABM"}, Numbers) => \E b \in Nat : Awaits(w, v2, b)
    BY <1>1, <2>1, <2>2 DEF Session
  <2>4. QED BY <2>1, <2>3 DEF Session
<1>7. QED BY <1>1, <1>2, <1>3, <1>5, <1>6 DEF Good, Half

-----------------------------------------------------------------------------
(* A call                                                                  *)

\* v's sequence numbers start again with its next chunk.
Renewed(v, v2) ==
    /\ v2.starts = v.starts \cup {v.n + 1} /\ v2.b = v.n + 1 /\ v2.n = v.n
    /\ v2.lo = 0 /\ v2.hi = 0 /\ v2.got = <<>> /\ v2.seen = v.seen

\* A session that starts again, as its own station sees it.
LEMMA RenewedVoice ==
    ASSUME NEW v, Voice(v), NEW v2, Renewed(v, v2), v2.in \in Seq(Frame)
    PROVE  Voice(v2)
<1>1. v.n \in Nat /\ v.n \in 0 .. MaxSend
  BY VoiceTypes
<1>2. v.starts \subseteq 1 .. v.n + 1
  BY DEF Voice
<1>3. v2.starts \subseteq 1 .. v2.n + 1 /\ v2.b \in v2.starts /\ v2.b \in Nat
      /\ v2.b = v2.n + 1 /\ \A x \in v2.starts : x <= v2.b
  BY <1>1, <1>2 DEF Renewed
<1>4. v2.lo \in Nat /\ v2.hi \in Nat /\ v2.lo <= v2.hi /\ v2.hi <= v2.lo + Window
      /\ v2.b + v2.hi <= v2.n + 1
  BY <1>1, WindowAssumption DEF Renewed
<1>5. v2.got \in Seq(Data) /\ Len(v2.got) = 0 /\ v2.n \in 0 .. MaxSend /\ v2.got = <<>>
  BY <1>1 DEF Renewed
<1>6. \A i \in 1 .. Len(v2.got) : v2.got[i] \in v2.seen
  BY <1>5
<1>7. QED BY <1>3, <1>4, <1>5, <1>6 DEF Voice

\* The chunks of the old session stay in the old session ...
LEMMA ChunksRenewed ==
    ASSUME NEW S, NEW n \in Nat, NEW top \in Int, top <= n, NEW b \in Nat, NEW r
    PROVE  Chunks(S, top, b, r) \subseteq Chunks(S \cup {n + 1}, top, b, r)
<1>1. \A d \in b .. top : d < n + 1
  OBVIOUS
<1>2. QED BY <1>1 DEF Chunks

\* ... on their way and at the peer's application.
LEMMA HeadsRenewed ==
    ASSUME NEW v, NEW w, Voice(v), Voice(w), NEW b \in Nat, Heads(v, w, b),
           NEW v2, Renewed(v, v2), NEW w2, w2.got = w.got
    PROVE  Heads(v2, w2, b)
<1>1. v.n \in Nat /\ v2.n = v.n /\ v2.starts = v.starts \cup {v.n + 1}
      /\ Len(w.got) \in Nat
  BY VoiceTypes DEF Renewed
<1>2. ASSUME NEW i \in 1 .. Len(w.got)
      PROVE  /\ b \in v2.starts /\ w.got[i] = b + i - 1 /\ b + i - 1 <= v2.n
             /\ \A x \in v2.starts : x <= b \/ b + i - 1 < x
  <2>1. /\ b \in v.starts /\ w.got[i] = b + i - 1 /\ b + i - 1 <= v.n
        /\ \A x \in v.starts : x <= b \/ b + i - 1 < x
    BY DEF Heads
  <2>2. b + i - 1 < v.n + 1
    BY <1>1, <2>1
  <2>3. QED BY <1>1, <2>1, <2>2
<1>3. QED BY <1>2 DEF Heads

\* connect: a new session, and a SABM on its way.
LEMMA DialGood ==
    ASSUME NEW v, NEW w, Good(v, w), Shut(v), v.called => v.in = <<>> /\ w.in = <<>>,
           NEW v2, Renewed(v, v2), Calling(v2), v2.called, v2.in = v.in,
           NEW f \in Frame, f.type = "SABM", NEW w2, Sent(w, w2, f)
    PROVE  Good(v2, w2)
<1>1. /\ Voice(v) /\ Control(v, w) /\ Session(w, v)
      /\ Voice(w) /\ Control(w, v) /\ Session(v, w)
  BY DEF Good, Half
<1>2. w.in \in Seq(Frame) /\ v.in \in Seq(Frame) /\ ~Numbered(f)
  BY <1>1, VoiceTypes DEF Numbered
<1>3. /\ w2.in \in Seq(Frame)
      /\ \A K, L :
            /\ Any(w2.in, K) <=> Any(w.in, K) \/ f.type \in K
            /\ Precedes(w2.in, K, L) <=> \/ Precedes(w.in, K, L)
                                         \/ Any(w.in, K) /\ f.type \in L
      /\ f.type \notin Numbers
      /\ Relays(w.in, Live(w), w2.in, Live(w2))
  BY <1>2, SentAtoms
<1>4. /\ Up(w2) <=> Up(w)
      /\ Calling(w2) <=> Calling(w)
      /\ Shut(w2) <=> Shut(w)
      /\ Virgin(w2) <=> Virgin(w)
      /\ w2.called <=> w.called
      /\ Unmoved(w, w2) /\ w2.state = w.state /\ Stays(w, w2)
  BY UnmovedSame DEF Sent
<1>5. /\ ~Up(v) /\ ~Calling(v) /\ ~Up(v2) /\ ~Shut(v2) /\ Calling(v2) /\ v2.called
      /\ v2.in = v.in /\ Shut(v)
  BY DEF Up, Calling, Shut
<1>6. Virgin(v2)
  BY DEF Virgin, Renewed
<1>7. v.called => \A K, L : /\ ~Any(v.in, K) /\ ~Precedes(v.in, K, L)
                            /\ ~Any(w.in, K) /\ ~Precedes(w.in, K, L)
  BY SomeNone
<1>8. \A K, L : /\ Precedes(w.in, K, L) => Any(w.in, K) /\ Any(w.in, L)
                /\ Precedes(v.in, K, L) => Any(v.in, K) /\ Any(v.in, L)
  BY SomeBoth
<1>9. ~(f.type \in {"UA"}) /\ f.type \in {"SABM"}
  OBVIOUS
<1>a. /\ Any(w2.in, {"SABM"})
      /\ Any(w2.in, {"UA"}) <=> Any(w.in, {"UA"})
      /\ Any(w2.in, Numbers) <=> Any(w.in, Numbers)
      /\ Precedes(w2.in, {"SABM"}, {"SABM"}) =>
            Precedes(w.in, {"SABM"}, {"SABM"}) \/ Any(w.in, {"SABM"})
      /\ Precedes(w2.in, {"SABM"}, Numbers) => Any(w.in, {"SABM"})
      /\ Precedes(w2.in, {"UA"}, Numbers) <=> Precedes(w.in, {"UA"}, Numbers)
      /\ Precedes(w2.in, {"UA"}, {"SABM"}) => Any(w.in, {"UA"})
      /\ Precedes(w2.in, FrameType, {"SABM"}) => Any(w.in, FrameType)
  BY <1>3, <1>8, <1>9
<1>b. /\ Precedes(v.in, {"UA"}, {"SABM"}) => Any(v.in, {"UA"})
      /\ Precedes(v.in, {"SABM"}, Numbers) => Any(v.in, {"SABM"})
      /\ Precedes(v.in, {"UA"}, Numbers) => Any(v.in, {"UA"})
  BY <1>8
<1>c. v.called =>
         /\ ~Any(v.in, {"UA"}) /\ ~Any(v.in, {"SABM"}) /\ ~Any(v.in, Numbers)
         /\ ~Precedes(v.in, {"SABM"}, {"SABM"}) /\ ~Precedes(v.in, FrameType, {"SABM"})
         /\ ~Any(w.in, {"UA"}) /\ ~Any(w.in, {"SABM"}) /\ ~Any(w.in, Numbers)
         /\ ~Any(w.in, FrameType) /\ ~Precedes(w.in, {"SABM"}, {"SABM"})
  BY <1>7
<1>d. ~Any(w.in, {"SABM"})
  BY <1>1, <1>c DEF Control
<1>e. Shut(w) => ~Up(w) /\ ~Calling(w)
  BY DEF Up, Calling, Shut
<1>10. Control(v2, w2)
  BY <1>1, <1>4, <1>5, <1>6, <1>a, <1>b, <1>c, <1>d, <1>e DEF Control
<1>11. Control(w2, v2)
  BY <1>1, <1>4, <1>5, <1>6, <1>a, <1>b, <1>c, <1>d, <1>e DEF Control
<1>12. ~Any(w.in, {"SABM"}) /\ ~Precedes(w2.in, {"SABM"}, Numbers)
  BY <1>1, <1>3, <1>7, <1>8 DEF Control
<1>13. Any(v.in, {"UA"}) => ~Up(w) /\ ~Precedes(v.in, {"UA"}, Numbers)
  BY <1>1, <1>7 DEF Control, Up, Shut
<1>14. /\ ~Joined(v, w) /\ ~Joined(w, v) /\ ~Joined(v2, w2) /\ ~Joined(w2, v2)
  BY <1>4, <1>5, <1>13 DEF Joined, On
<1>15. Voice(v2) /\ Voice(w2)
  BY <1>1, <1>2, <1>3, <1>4, RenewedVoice, VoiceKept
<1>16. Session(v2, w2)
  <2>1. Top(v, w) = v.n /\ Top(v2, w2) = v.n /\ v.n \in Nat /\ v.n \in Int /\ v.n <= v.n
        /\ v2.starts = v.starts \cup {v.n + 1} /\ w2.got = w.got
    BY <1>1, <1>4, <1>14, VoiceTypes DEF Top, Renewed, Stays
  <2>2. ASSUME Up(w) \/ Calling(w) PROVE \E b \in Nat : Hears(v2, w2, b)
    <3>1. PICK b \in Nat : Hears(v, w, b)
      BY <1>1, <2>2 DEF Session
    <3> DEFINE X == Chunks(v.starts, v.n, b, Len(w.got))
               X2 == Chunks(v.starts \cup {v.n + 1}, v.n, b, Len(w.got))
    <3>2. X \subseteq X2
      BY <2>1, ChunksRenewed
    <3>3. Runs(w.in, Live(w), X, Rising)
      BY <2>1, <3>1 DEF Hears
    <3>4. Runs(w2.in, Live(w2), X, Rising)
      BY <1>3, <3>3 DEF Relays
    <3> HIDE DEF X, X2
    <3>5. Runs(w2.in, Live(w2), X2, Rising)
      BY <3>2, <3>4, RunsWider
    <3>6. Heads(v2, w2, b)
      BY <1>1, <2>1, <3>1, HeadsRenewed DEF Hears
    <3>7. Runs(w2.in, Live(w2), Chunks(v2.starts, Top(v2, w2), b, Len(w2.got)), Rising)
      BY <2>1, <3>5 DEF X2
    <3>8. Hears(v2, w2, b)
      BY <1>14, <3>6, <3>7 DEF Hears
    <3>9. QED BY <3>8
  <2>3. ASSUME Up(w) \/ Calling(w)
        PROVE  Runs(w2.in, Live(w2), Answers(w2.lo, MostTaken(v2, w2), w2.b, v2.seen),
                    Ordered(w2.lo))
    <3>1. Runs(w.in, Live(w), Answers(w.lo, MostTaken(v, w), w.b, v.seen), Ordered(w.lo))
      BY <1>1, <2>3 DEF Session
    <3>2. Runs(w2.in, Live(w2), Answers(w.lo, MostTaken(v, w), w.b, v.seen), Ordered(w.lo))
      BY <1>3, <3>1 DEF Relays
    <3>3. MostTaken(v2, w2) = MostTaken(v, w) /\ w2.lo = w.lo /\ w2.b = w.b
          /\ v2.seen = v.seen
      BY <1>4, <1>14 DEF MostTaken, Stays, Renewed
    <3>4. QED BY <3>2, <3>3
  <2>4. QED BY <1>4, <1>12, <2>2, <2>3 DEF Session
<1>17. Session(w2, v2)
  <2>1. Live(v2) = Behind(v.in, {"UA"})
    BY <1>5 DEF Live
  <2>2. Mute(v.in, Behind(v.in, {"UA"}))
    <3>1. CASE Any(v.in, {"UA"})
      BY <1>2, <1>13, <3>1, MuteSections
    <3>2. CASE ~Any(v.in, {"UA"})
      BY <1>2, <1>8, <3>2, MuteSections
    <3>3. QED BY <3>1, <3>2
  <2>3. Hears(w2, v2, 0)
    <3>1. Heads(w2, v2, 0)
      <4>1. v2.got = <<>> /\ Len(<<>>) = 0
        BY DEF Renewed
      <4>2. 1 .. Len(v2.got) = {}
        BY <4>1
      <4>3. QED BY <4>2 DEF Heads
    <3>2. Runs(v2.in, Live(v2), Chunks(w2.starts, Top(w2, v2), 0, Len(v2.got)), Rising)
      BY <1>2, <1>5, <2>1, <2>2, MuteFits
    <3>3. QED BY <1>14, <3>1, <3>2 DEF Hears
  <2>4. Runs(v2.in, Live(v2), Answers(v2.lo, MostTaken(w2, v2), v2.b, w2.seen),
             Ordered(v2.lo))
    BY <1>2, <1>5, <2>1, <2>2, MuteFits
  <2>5. Precedes(v2.in, {"SABM"}, Numbers) => \E b \in Nat : Awaits(w2, v2, b)
    <3>1. ASSUME NEW b \in Nat, Awaits(w, v, b) PROVE Awaits(w2, v2, b)
      <4>1. w2.starts = w.starts /\ w2.n = w.n /\ w2.b = w.b /\ w2.hi = w.hi
        BY <1>4 DEF Unmoved, Stays
      <4>2. QED BY <1>4, <1>5, <3>1, <4>1 DEF Awaits
    <3>2. QED BY <1>1, <1>5, <3>1 DEF Session
  <2>6. QED BY <2>3, <2>4, <2>5 DEF Session
<1>18. QED BY <1>10, <1>11, <1>15, <1>16, <1>17 DEF Good, Half

-----------------------------------------------------------------------------
(* A call is answered                                                      *)

\* An application that got nothing fits any session.
LEMMA NoHeads ==
    ASSUME NEW v, NEW w, w.got = <<>>
    PROVE  \A b : Heads(v, w, b)
<1>1. Len(<<>>) = 0
  OBVIOUS
<1>2. 1 .. Len(w.got) = {}
  BY <1>1
<1>3. QED BY <1>2 DEF Heads

\* Nothing numbered on the way fits the first moment of any session.
LEMMA HearsNothing ==
    ASSUME NEW v, NEW w, Voice(v), Voice(w), w.got = <<>>, Mute(w.in, Live(w)),
           Joined(v, w) => v.lo = 0
    PROVE  /\ \E b \in Nat : Hears(v, w, b)
           /\ Runs(w.in, Live(w), Answers(w.lo, MostTaken(v, w), w.b, v.seen),
                   Ordered(w.lo))
<1>1. w.in \in Seq(Frame) /\ v.b \in Nat
  BY VoiceTypes
<1>2. \A b : Heads(v, w, b)
  BY NoHeads
<1>3. Runs(w.in, Live(w), Chunks(v.starts, Top(v, w), v.b, Len(w.got)), Rising)
  BY <1>1, MuteFits
<1>4. Runs(w.in, Live(w), Answers(w.lo, MostTaken(v, w), w.b, v.seen), Ordered(w.lo))
  BY <1>1, MuteFits
<1>5. Joined(v, w) => v.lo <= Len(w.got) /\ Len(w.got) <= v.hi
  <2>1. Len(<<>>) = 0
    OBVIOUS
  <2>2. Joined(v, w) => v.lo = 0 /\ v.hi \in Nat
    BY JoinedBoth, VoiceTypes
  <2>3. QED BY <2>1, <2>2
<1>6. Hears(v, w, v.b)
  BY <1>2, <1>3, <1>5 DEF Hears
<1>7. QED BY <1>1, <1>4, <1>6

\* Below the modulus only zero is congruent to zero.
LEMMA SameZero ==
    ASSUME NEW k \in Nat, k < Modulus, 0 = k % Modulus
    PROVE  k = 0
<1>1. 0 % Modulus = 0
  BY ModulusAssumption
<1>2. QED BY <1>1, ModulusAssumption, Unambiguous

\* What comes behind a SABM is what the station that answers it will hear.
LEMMA AwaitedFits ==
    ASSUME NEW s, NEW K, Runs(s, K, Answers(0, 0, 0, {}), Ordered(0)),
           NEW hi \in Nat, NEW b \in Nat, NEW A
    PROVE  Runs(s, K, Answers(0, hi, b, A), Ordered(0))
<1>1. Answers(0, 0, 0, {}) \subseteq Answers(0, hi, b, A)
  <2>1. \A k \in 0 .. 0 : k = 0
    OBVIOUS
  <2>2. 0 \in 0 .. hi /\ b .. b + 0 - 1 \subseteq A
    OBVIOUS
  <2>3. QED BY <2>1, <2>2 DEF Answers
<1>2. QED BY <1>1, RunsWider

\* A SABM accepted: what may be on its way afterwards ...
LEMMA AcceptControl ==
    ASSUME NEW v, NEW w, Control(v, w), Control(w, v),
           v.in \in Seq(Frame), w.in \in Seq(Frame), v.in # <<>>,
           Head(v.in).type = "SABM", Up(v) \/ Shut(v),
           NEW v2, Up(v2), Virgin(v2), v2.in = Tail(v.in), v2.called = v.called,
           NEW f \in Frame, f.type = "UA", NEW w2, Sent(w, w2, f)
    PROVE  /\ Control(v2, w2) /\ Control(w2, v2)
           /\ w.called /\ ~Any(v2.in, {"SABM"}) /\ ~Precedes(w.in, {"SABM"}, Numbers)
           /\ ~Precedes(w2.in, {"SABM"}, Numbers)
           /\ Up(w) => Virgin(w) /\ ~Any(w.in, Numbers) /\ ~Any(w.in, {"SABM"})
                       /\ ~Any(w2.in, Numbers)
           /\ Calling(w) => /\ ~Precedes(w.in, {"UA"}, Numbers) \/ ~Any(w.in, {"UA"})
                            /\ ~Precedes(v.in, {"SABM"}, Numbers)
           /\ \A K : Any(w2.in, K) <=> Any(w.in, K) \/ f.type \in K
<1>1. \A K, L :
         /\ Any(v.in, K) <=> Head(v.in).type \in K \/ Any(v2.in, K)
         /\ Precedes(v.in, K, L) <=> \/ Head(v.in).type \in K /\ Any(v2.in, L)
                                     \/ Precedes(v2.in, K, L)
  BY SomeTail
<1>2. \A K, L :
         /\ Any(w2.in, K) <=> Any(w.in, K) \/ f.type \in K
         /\ Precedes(w2.in, K, L) <=> \/ Precedes(w.in, K, L)
                                      \/ Any(w.in, K) /\ f.type \in L
  BY SentAtoms DEF Numbered
<1>3. /\ Up(w2) <=> Up(w)
      /\ Calling(w2) <=> Calling(w)
      /\ Shut(w2) <=> Shut(w)
      /\ Virgin(w2) <=> Virgin(w)
      /\ w2.called <=> w.called
  BY UnmovedSame DEF Sent
<1>4. \A K, L : /\ Precedes(v2.in, K, L) => Any(v2.in, K) /\ Any(v2.in, L)
                /\ Precedes(w.in, K, L) => Any(w.in, K) /\ Any(w.in, L)
  BY SomeBoth
<1>5. /\ Up(v2) /\ ~Calling(v2) /\ ~Shut(v2) /\ Virgin(v2) /\ ~Calling(v)
      /\ Shut(w) => ~Up(w) /\ ~Calling(w)
      /\ v2.called <=> v.called
  BY DEF Up, Calling, Shut
<1>6. /\ Any(v.in, {"SABM"})
      /\ Any(v.in, {"UA"}) <=> Any(v2.in, {"UA"})
      /\ Any(v.in, Numbers) <=> Any(v2.in, Numbers)
      /\ Precedes(v.in, {"SABM"}, {"SABM"}) <=> Any(v2.in, {"SABM"})
      /\ Precedes(v.in, {"SABM"}, Numbers) <=> Any(v2.in, Numbers)
      /\ Precedes(v2.in, {"SABM"}, {"SABM"}) => Any(v2.in, {"SABM"})
      /\ Precedes(v2.in, {"SABM"}, Numbers) => Any(v2.in, {"SABM"})
      /\ Precedes(v2.in, {"UA"}, Numbers) <=> Precedes(v.in, {"UA"}, Numbers)
      /\ Precedes(v2.in, {"UA"}, {"SABM"}) <=> Precedes(v.in, {"UA"}, {"SABM"})
      /\ Precedes(v2.in, FrameType, {"SABM"}) => Any(v2.in, {"SABM"})
  <2>1. /\ Head(v.in).type \in {"SABM"} /\ Head(v.in).type \notin {"UA"}
        /\ Head(v.in).type \notin Numbers
    BY DEF Numbers
  <2>2. QED BY <1>1, <1>4, <2>1
<1>7. /\ Any(w2.in, {"UA"})
      /\ Any(w2.in, {"SABM"}) <=> Any(w.in, {"SABM"})
      /\ Any(w2.in, Numbers) <=> Any(w.in, Numbers)
      /\ Precedes(w2.in, {"SABM"}, {"SABM"}) <=> Precedes(w.in, {"SABM"}, {"SABM"})
      /\ Precedes(w2.in, {"SABM"}, Numbers) <=> Precedes(w.in, {"SABM"}, Numbers)
      /\ Precedes(w2.in, {"UA"}, Numbers) <=> Precedes(w.in, {"UA"}, Numbers)
      /\ Precedes(w2.in, {"UA"}, {"SABM"}) <=> Precedes(w.in, {"UA"}, {"SABM"})
      /\ Precedes(w2.in, FrameType, {"SABM"}) <=> Precedes(w.in, FrameType, {"SABM"})
  <2>1. f.type \in {"UA"} /\ f.type \notin {"SABM"} /\ f.type \notin Numbers
    BY DEF Numbers
  <2>2. QED BY <1>2, <2>1
<1>8. /\ Precedes(w.in, {"UA"}, Numbers) => Any(w.in, {"UA"})
      /\ Precedes(w.in, {"SABM"}, Numbers) => Any(w.in, {"SABM"})
  BY <1>4
<1>9. Control(v2, w2)
  BY <1>3, <1>5, <1>6, <1>7, <1>8 DEF Control
<1>10. Control(w2, v2)
  BY <1>3, <1>5, <1>6, <1>7, <1>8 DEF Control
<1>11. /\ w.called /\ ~Any(v2.in, {"SABM"}) /\ ~Precedes(w.in, {"SABM"}, Numbers)
       /\ Up(w) => Virgin(w) /\ ~Any(w.in, Numbers) /\ ~Any(w.in, {"SABM"})
       /\ Calling(w) => /\ ~Precedes(w.in, {"UA"}, Numbers) \/ ~Any(w.in, {"UA"})
                        /\ ~Precedes(v.in, {"SABM"}, Numbers)
  BY <1>5, <1>6, <1>8 DEF Control
<1>12. QED BY <1>2, <1>7, <1>9, <1>10, <1>11

\* ... and that both halves of the link hold.
LEMMA AcceptGood ==
    ASSUME NEW v, NEW w, Good(v, w), v.in # <<>>, Head(v.in).type = "SABM",
           Up(v) \/ Shut(v),
           NEW v2, Renewed(v, v2), Up(v2), v2.called = v.called, v2.in = Tail(v.in),
           NEW f \in Frame, f.type = "UA", NEW w2, Sent(w, w2, f)
    PROVE  Good(v2, w2)
<1>1. /\ Voice(v) /\ Control(v, w) /\ Session(w, v)
      /\ Voice(w) /\ Control(w, v) /\ Session(v, w)
  BY DEF Good, Half
<1>2. w.in \in Seq(Frame) /\ v.in \in Seq(Frame) /\ v2.in \in Seq(Frame) /\ ~Numbered(f)
  BY <1>1, VoiceTypes, HeadTailProperties DEF Numbered
<1>3. Virgin(v2) /\ v2.got = <<>> /\ v2.lo = 0 /\ v2.hi = 0
  BY DEF Virgin, Renewed
<1>4. /\ Control(v2, w2) /\ Control(w2, v2)
      /\ w.called /\ ~Any(v2.in, {"SABM"}) /\ ~Precedes(w.in, {"SABM"}, Numbers)
      /\ ~Precedes(w2.in, {"SABM"}, Numbers)
      /\ Up(w) => Virgin(w) /\ ~Any(w.in, Numbers) /\ ~Any(w.in, {"SABM"})
                  /\ ~Any(w2.in, Numbers)
      /\ Calling(w) => /\ ~Precedes(w.in, {"UA"}, Numbers) \/ ~Any(w.in, {"UA"})
                       /\ ~Precedes(v.in, {"SABM"}, Numbers)
      /\ \A K : Any(w2.in, K) <=> Any(w.in, K) \/ f.type \in K
  BY <1>1, <1>2, <1>3, AcceptControl
<1>5. /\ w2.in \in Seq(Frame) /\ w2.in = w.in \o <<f>>
      /\ Unmoved(w, w2) /\ w2.state = w.state /\ Stays(w, w2)
      /\ Up(w2) <=> Up(w)
      /\ Calling(w2) <=> Calling(w)
      /\ w2.starts = w.starts /\ w2.n = w.n /\ w2.seen = w.seen
  BY <1>2, SentAtoms, UnmovedSame DEF Sent
<1>6. Voice(v2) /\ Voice(w2)
  BY <1>1, <1>2, <1>5, RenewedVoice, VoiceKept
<1>7. ASSUME Up(w) \/ Calling(w) PROVE w.got = <<>> /\ w.lo = 0 /\ Mute(w2.in, Live(w2))
  <2>1. CASE Up(w)
    <3>1. w.got = <<>> /\ w.lo = 0
      BY <1>4, <2>1 DEF Virgin
    <3>2. Live(w2) \subseteq 1 .. Len(w2.in)
      BY <1>5, MuteSections DEF Live
    <3>3. QED BY <1>4, <1>5, <2>1, <3>1, <3>2, MuteSections
  <2>2. CASE Calling(w)
    <3>1. w.got = <<>> /\ w.lo = 0
      BY <1>1, <2>2, VoiceTypes
    <3>2. Live(w2) = Behind(w2.in, {"UA"})
      BY <1>5, <2>2 DEF Live, Up, Calling
    <3>3. ~Precedes(w2.in, {"UA"}, Numbers)
      <4>1. f.type \notin Numbers
        BY DEF Numbers
      <4>2. Precedes(w2.in, {"UA"}, Numbers) <=> Precedes(w.in, {"UA"}, Numbers)
        BY <1>2, <4>1, SentAtoms
      <4>3. Precedes(w.in, {"UA"}, Numbers) => Any(w.in, {"UA"})
        BY SomeBoth
      <4>4. QED BY <1>4, <2>2, <4>2, <4>3
    <3>4. QED BY <1>5, <3>1, <3>2, <3>3, MuteSections
  <2>3. QED BY <1>7, <2>1, <2>2
<1>8. Session(v2, w2)
  <2>1. ASSUME Up(w2) \/ Calling(w2)
        PROVE  /\ \E b \in Nat : Hears(v2, w2, b)
               /\ Runs(w2.in, Live(w2), Answers(w2.lo, MostTaken(v2, w2), w2.b, v2.seen),
                       Ordered(w2.lo))
    <3>1. w2.got = <<>> /\ Mute(w2.in, Live(w2))
      BY <1>5, <1>7, <2>1 DEF Stays
    <3>2. QED BY <1>3, <1>6, <3>1, HearsNothing
  <2>2. QED BY <1>4, <2>1 DEF Session
<1>9. Session(w2, v2)
  <2>1. ~Precedes(v2.in, {"SABM"}, Numbers)
    <3>1. Precedes(v2.in, {"SABM"}, Numbers) => Any(v2.in, {"SABM"})
      BY SomeBoth
    <3>2. QED BY <1>4, <3>1
  <2>2. CASE ~Precedes(v.in, {"SABM"}, Numbers)
    <3>1. ~Any(v2.in, Numbers)
      BY <1>2, <2>2, SomeTail
    <3>2. Live(v2) \subseteq 1 .. Len(v2.in)
      BY <1>2, MuteSections DEF Live
    <3>3. Mute(v2.in, Live(v2))
      BY <1>2, <3>1, <3>2, MuteSections
    <3>4. Joined(w2, v2) => w2.lo = 0
      <4>1. Joined(w2, v2) => Up(w) \/ Calling(w)
        BY <1>5, JoinedBoth
      <4>2. w2.lo = w.lo
        BY <1>5 DEF Stays
      <4>3. QED BY <1>7, <4>1, <4>2
    <3>5. (\E b \in Nat : Hears(w2, v2, b))
          /\ Runs(v2.in, Live(v2), Answers(v2.lo, MostTaken(w2, v2), v2.b, w2.seen),
                  Ordered(v2.lo))
      BY <1>3, <1>6, <3>3, <3>4, HearsNothing
    <3>6. QED BY <2>1, <3>5 DEF Session
  <2>3. CASE Precedes(v.in, {"SABM"}, Numbers)
    <3>1. ~Calling(w)
      BY <1>4, <2>3
    <3>2. PICK b \in Nat : Awaits(w, v, b)
      BY <1>1, <2>3 DEF Session
    <3> DEFINE K == Behind(v.in, {"SABM"})
               top == IF Up(w) THEN w.b + w.hi - 1 ELSE w.n
               X == Chunks(w.starts, top, b, 0)
               A == Answers(0, 0, 0, {})
    <3>3. /\ Runs(v.in, K, X, Rising) /\ Runs(v.in, K, A, Ordered(0))
          /\ Up(w) => b = w.b
      BY <3>2 DEF Awaits
    <3>4. Shifted(v.in, K, Live(v2))
      <4>1. Live(v2) = Before(v2.in)
        BY DEF Live
      <4>2. Shifted(v.in, K, Before(v2.in))
        BY <1>2, SectionsTail
      <4>3. QED BY <4>1, <4>2
    <3>5. Relays(v.in, K, v2.in, Live(v2))
      BY <1>2, <3>4, RelaysTail
    <3>6. Runs(v2.in, Live(v2), X, Rising) /\ Runs(v2.in, Live(v2), A, Ordered(0))
      BY <3>3, <3>5 DEF Relays
    <3>7. Joined(w2, v2) => Up(w)
      BY <1>5, <3>1, JoinedBoth
    <3>8. Up(w) => Joined(w2, v2)
      BY <1>5 DEF Joined, On
    <3>9. Top(w2, v2) = top
      BY <1>5, <3>7, <3>8 DEF Top, Stays
    <3>10. Len(v2.got) = 0
      <4>1. Len(<<>>) = 0
        OBVIOUS
      <4>2. QED BY <1>3, <4>1
    <3>11. Heads(w2, v2, b)
      BY <1>3, NoHeads
    <3>12. Joined(w2, v2) => b = w2.b /\ w2.lo <= Len(v2.got) /\ Len(v2.got) <= w2.hi
      <4>1. w2.lo = w.lo /\ w2.hi = w.hi /\ w2.b = w.b
        BY <1>5 DEF Stays
      <4>2. Up(w) => w.lo = 0 /\ w.hi \in Nat
        BY <1>1, <1>4, VoiceTypes DEF Virgin
      <4>3. QED BY <3>3, <3>7, <3>10, <4>1, <4>2
    <3>13. Hears(w2, v2, b)
      BY <1>5, <3>6, <3>9, <3>10, <3>11, <3>12 DEF Hears
    <3>14. MostTaken(w2, v2) \in Nat
      <4>1. Len(w2.got) \in Nat /\ v2.hi \in Nat
        BY <1>3, <1>6, VoiceTypes
      <4>2. QED BY <4>1 DEF MostTaken
    <3>15. v2.b \in Nat
      BY <1>6, VoiceTypes
    <3>16. Runs(v2.in, Live(v2), Answers(v2.lo, MostTaken(w2, v2), v2.b, w2.seen),
                Ordered(v2.lo))
      BY <1>3, <3>6, <3>14, <3>15, AwaitedFits
    <3>17. QED BY <2>1, <3>13, <3>16 DEF Session
  <2>4. QED BY <2>2, <2>3
<1>10. QED BY <1>4, <1>6, <1>8, <1>9 DEF Good, Half

\* Two calls cross: v answers the other one while its own is open.
LEMMA AnswerGood ==
    ASSUME NEW v, NEW w, Good(v, w), v.in # <<>>, Head(v.in).type = "SABM", Calling(v),
           NEW v2, Unmoved(v, v2), v2.in = Tail(v.in),
           NEW f \in Frame, f.type = "UA", NEW w2, Sent(w, w2, f)
    PROVE  Good(v2, w2)
<1>1. /\ Voice(v) /\ Control(v, w) /\ Voice(w) /\ Control(w, v)
  BY DEF Good, Half
<1>2. w.in \in Seq(Frame) /\ v.in \in Seq(Frame) /\ v2.in \in Seq(Frame) /\ ~Numbered(f)
  BY <1>1, VoiceTypes, HeadTailProperties DEF Numbered
<1>3. Good(v2, w)
  BY DropGood
<1>4. Calling(v2) /\ ~Up(v2)
  BY DEF Unmoved, Calling, Up
<1>5. Voice(w2) /\ Session(v2, w2) /\ Session(w2, v2)
  BY <1>2, <1>3, <1>4, SentSessions
<1>6. \A K, L :
         /\ Any(v.in, K) <=> Head(v.in).type \in K \/ Any(v2.in, K)
         /\ Precedes(v.in, K, L) <=> \/ Head(v.in).type \in K /\ Any(v2.in, L)
                                     \/ Precedes(v2.in, K, L)
  BY <1>2, SomeTail
<1>7. \A K, L :
         /\ Any(w2.in, K) <=> Any(w.in, K) \/ f.type \in K
         /\ Precedes(w2.in, K, L) <=> \/ Precedes(w.in, K, L)
                                      \/ Any(w.in, K) /\ f.type \in L
  BY <1>2, SentAtoms
<1>8. /\ Up(w2) <=> Up(w)
      /\ Calling(w2) <=> Calling(w)
      /\ Shut(w2) <=> Shut(w)
      /\ Virgin(w2) <=> Virgin(w)
      /\ w2.called <=> w.called
      /\ Virgin(v2) <=> Virgin(v)
      /\ v2.called <=> v.called
  BY UnmovedSame DEF Sent
<1>9. \A K, L : Precedes(v2.in, K, L) => Any(v2.in, K) /\ Any(v2.in, L)
  BY SomeBoth
<1>10. /\ ~Up(v2) /\ Calling(v2) /\ ~Shut(v2) /\ Calling(v) /\ ~Up(v)
       /\ Shut(w) => ~Up(w) /\ ~Calling(w)
  BY <1>4 DEF Up, Calling, Shut
<1>11. /\ Any(v.in, {"SABM"})
       /\ Any(v.in, {"UA"}) <=> Any(v2.in, {"UA"})
       /\ Any(v.in, Numbers) <=> Any(v2.in, Numbers)
       /\ Precedes(v.in, {"SABM"}, {"SABM"}) <=> Any(v2.in, {"SABM"})
       /\ Precedes(v.in, {"SABM"}, Numbers) <=> Any(v2.in, Numbers)
       /\ Precedes(v2.in, {"SABM"}, {"SABM"}) => Any(v2.in, {"SABM"})
       /\ Precedes(v2.in, {"SABM"}, Numbers) => Any(v2.in, {"SABM"})
       /\ Precedes(v2.in, {"UA"}, Numbers) <=> Precedes(v.in, {"UA"}, Numbers)
       /\ Precedes(v2.in, {"UA"}, {"SABM"}) <=> Precedes(v.in, {"UA"}, {"SABM"})
       /\ Precedes(v2.in, {"UA"}, {"SABM"}) => Any(v2.in, {"SABM"})
       /\ Precedes(v2.in, FrameType, {"SABM"}) => Any(v2.in, {"SABM"})
  <2>1. /\ Head(v.in).type \in {"SABM"} /\ Head(v.in).type \notin {"UA"}
        /\ Head(v.in).type \notin Numbers
    BY DEF Numbers
  <2>2. QED BY <1>6, <1>9, <2>1
<1>12. /\ Any(w2.in, {"UA"})
       /\ Any(w2.in, {"SABM"}) <=> Any(w.in, {"SABM"})
       /\ Any(w2.in, Numbers) <=> Any(w.in, Numbers)
       /\ Precedes(w2.in, {"SABM"}, {"SABM"}) <=> Precedes(w.in, {"SABM"}, {"SABM"})
       /\ Precedes(w2.in, {"SABM"}, Numbers) <=> Precedes(w.in, {"SABM"}, Numbers)
       /\ Precedes(w2.in, {"UA"}, Numbers) <=> Precedes(w.in, {"UA"}, Numbers)
       /\ Precedes(w2.in, {"UA"}, {"SABM"}) <=> Precedes(w.in, {"UA"}, {"SABM"})
       /\ Precedes(w2.in, FrameType, {"SABM"}) <=> Precedes(w.in, FrameType, {"SABM"})
  <2>1. f.type \in {"UA"} /\ f.type \notin {"SABM"} /\ f.type \notin Numbers
    BY DEF Numbers
  <2>2. QED BY <1>7, <2>1
<1>13. Control(v2, w2)
  BY <1>1, <1>8, <1>10, <1>11, <1>12 DEF Control
<1>14. Control(w2, v2)
  BY <1>1, <1>8, <1>10, <1>11, <1>12 DEF Control
<1>15. Voice(v2)
  BY <1>3 DEF Good, Half
<1>16. QED BY <1>5, <1>13, <1>14, <1>15 DEF Good, Half

-----------------------------------------------------------------------------
(* The answer to a call arrives                                            *)

\* The UA that opens the caller's session: what may be on its way ...
LEMMA EstablishControl ==
    ASSUME NEW v, NEW w, Control(v, w), Control(w, v), Calling(v), Virgin(v),
           v.in \in Seq(Frame), v.in # <<>>, Head(v.in).type = "UA",
           NEW v2, Up(v2), Virgin(v2), v2.in = Tail(v.in), v2.called = v.called
    PROVE  /\ Control(v2, w) /\ Control(w, v2)
           /\ ~Precedes(w.in, {"SABM"}, Numbers)
           /\ Calling(w) /\ Any(w.in, {"UA"}) => ~Any(w.in, Numbers) /\ ~Any(v2.in, Numbers)
<1>1. \A K, L :
         /\ Any(v.in, K) <=> Head(v.in).type \in K \/ Any(v2.in, K)
         /\ Precedes(v.in, K, L) <=> \/ Head(v.in).type \in K /\ Any(v2.in, L)
                                     \/ Precedes(v2.in, K, L)
  BY SomeTail
<1>2. \A K, L : /\ Precedes(v2.in, K, L) => Any(v2.in, K) /\ Any(v2.in, L)
                /\ Precedes(w.in, K, L) => Any(w.in, K) /\ Any(w.in, L)
  BY SomeBoth
<1>3. /\ Up(v2) /\ ~Calling(v2) /\ ~Shut(v2) /\ Calling(v) /\ ~Up(v) /\ ~Shut(v)
      /\ Shut(w) => ~Up(w) /\ ~Calling(w)
      /\ Calling(w) => ~Up(w)
      /\ v2.called <=> v.called
  BY DEF Up, Calling, Shut
<1>4. /\ Any(v.in, {"UA"})
      /\ Any(v.in, {"SABM"}) <=> Any(v2.in, {"SABM"})
      /\ Any(v.in, Numbers) <=> Any(v2.in, Numbers)
      /\ Precedes(v.in, {"SABM"}, {"SABM"}) <=> Precedes(v2.in, {"SABM"}, {"SABM"})
      /\ Precedes(v.in, {"SABM"}, Numbers) <=> Precedes(v2.in, {"SABM"}, Numbers)
      /\ Precedes(v2.in, {"SABM"}, Numbers) => Any(v2.in, {"SABM"})
      /\ Precedes(v.in, {"UA"}, Numbers) <=> Any(v2.in, Numbers)
      /\ Precedes(v.in, {"UA"}, {"SABM"}) <=> Any(v2.in, {"SABM"})
      /\ Precedes(v2.in, {"UA"}, Numbers) => Any(v2.in, Numbers)
      /\ Precedes(v2.in, {"UA"}, {"SABM"}) => Any(v2.in, {"SABM"})
      /\ Precedes(v2.in, FrameType, {"SABM"}) => Any(v2.in, {"SABM"})
  <2>1. /\ Head(v.in).type \in {"UA"} /\ Head(v.in).type \notin {"SABM"}
        /\ Head(v.in).type \notin Numbers
    BY DEF Numbers
  <2>2. QED BY <1>1, <1>2, <2>1
<1>5. /\ Precedes(w.in, {"SABM"}, Numbers) => Any(w.in, {"SABM"})
      /\ Precedes(w.in, {"UA"}, {"SABM"}) => Any(w.in, {"SABM"}) /\ Any(w.in, {"UA"})
  BY <1>2
<1>6. Any(v2.in, {"UA"}) => Any(v.in, {"UA"})
  BY <1>4
<1>7. Precedes(v.in, FrameType, {"SABM"}) <=> Any(v2.in, {"SABM"})
  <2>1. Head(v.in).type \in FrameType
    BY DEF FrameType
  <2>2. QED BY <1>1, <1>2, <2>1
<1>8. Control(v2, w)
  BY <1>3, <1>4, <1>5, <1>6, <1>7 DEF Control
<1>9. Control(w, v2)
  BY <1>3, <1>4, <1>5, <1>6, <1>7 DEF Control
<1>10. /\ ~Precedes(w.in, {"SABM"}, Numbers)
       /\ Calling(w) /\ Any(w.in, {"UA"}) => ~Any(w.in, Numbers) /\ ~Any(v2.in, Numbers)
  BY <1>3, <1>4, <1>5 DEF Control
<1>11. QED BY <1>8, <1>9, <1>10

\* ... and that both halves of the link hold.
LEMMA EstablishGood ==
    ASSUME NEW v, NEW w, Good(v, w), v.in # <<>>, Head(v.in).type = "UA", Calling(v),
           NEW v2, Up(v2), Stays(v, v2), v2.n = v.n, v2.starts = v.starts,
           v2.seen = v.seen, v2.called = v.called, v2.in = Tail(v.in)
    PROVE  Good(v2, w)
<1>1. /\ Voice(v) /\ Control(v, w) /\ Session(w, v)
      /\ Voice(w) /\ Control(w, v) /\ Session(v, w)
  BY DEF Good, Half
<1>2. w.in \in Seq(Frame) /\ v.in \in Seq(Frame) /\ v2.in \in Seq(Frame)
  BY <1>1, VoiceTypes, HeadTailProperties
<1>3. v.got = <<>> /\ v.lo = 0 /\ v2.got = <<>> /\ v2.lo = 0 /\ Virgin(v) /\ Virgin(v2)
  BY <1>1, VoiceTypes DEF Stays, Virgin
<1>4. /\ Control(v2, w) /\ Control(w, v2)
      /\ ~Precedes(w.in, {"SABM"}, Numbers)
      /\ Calling(w) /\ Any(w.in, {"UA"}) => ~Any(w.in, Numbers) /\ ~Any(v2.in, Numbers)
  BY <1>1, <1>2, <1>3, EstablishControl
<1>5. /\ \A K : Any(v.in, K) <=> Head(v.in).type \in K \/ Any(v2.in, K)
      /\ Precedes(v2.in, {"SABM"}, Numbers) => Precedes(v.in, {"SABM"}, Numbers)
      /\ Any(v.in, {"UA"})
  BY <1>2, SomeTail
<1>6. Voice(v2)
  <2>1. v2.got = v.got /\ v2.b = v.b /\ v2.lo = v.lo /\ v2.hi = v.hi
    BY DEF Stays
  <2>2. ~Calling(v2)
    BY DEF Up, Calling
  <2>3. QED BY <1>1, <1>2, <2>1, <2>2 DEF Voice
<1>7. On(v) /\ On(v2) /\ ~Up(v) /\ Up(v2) /\ ~Calling(v2)
  BY <1>5 DEF On, Up, Calling
<1>8. Session(v2, w)
  <2>1. CASE Calling(w)
    <3>1. w.got = <<>>
      BY <1>1, <2>1, VoiceTypes
    <3>2. Live(w) = Behind(w.in, {"UA"})
      BY <2>1 DEF Live, Up, Calling
    <3>3. Mute(w.in, Live(w))
      <4>1. CASE Any(w.in, {"UA"})
        BY <1>2, <1>4, <2>1, <3>2, <4>1, MuteSections
      <4>2. CASE ~Any(w.in, {"UA"})
        <5>1. Live(w) = {}
          BY <1>2, <3>2, <4>2, MuteSections
        <5>2. QED BY <5>1 DEF Mute
      <4>3. QED BY <4>1, <4>2
    <3>4. (\E b \in Nat : Hears(v2, w, b))
          /\ Runs(w.in, Live(w), Answers(w.lo, MostTaken(v2, w), w.b, v2.seen),
                  Ordered(w.lo))
      BY <1>1, <1>3, <1>6, <3>1, <3>3, HearsNothing
    <3>5. QED BY <1>4, <3>4 DEF Session
  <2>2. CASE ~Calling(w)
    <3>1. Joined(v2, w) => Joined(v, w) /\ Stays(v, v2)
      BY <1>7, <2>2 DEF Joined, On
    <3>2. Relays(w.in, Live(w), w.in, Live(w))
          /\ Relays(w.in, Behind(w.in, {"SABM"}), w.in, Behind(w.in, {"SABM"}))
      BY RelaysSame
    <3>3. Stays(w, w) /\ Stays(v, v2)
      BY DEF Stays
    <3>4. QED BY <1>1, <1>4, <3>1, <3>2, <3>3, SessionCarried
  <2>3. QED BY <2>1, <2>2
<1>9. Session(w, v2)
  <2>1. CASE Calling(w) /\ Any(w.in, {"UA"})
    <3>1. ~Precedes(v2.in, {"SABM"}, Numbers)
      BY <1>4, <2>1, SomeBoth
    <3>2. Live(v2) \subseteq 1 .. Len(v2.in)
      BY <1>2, MuteSections DEF Live
    <3>3. Mute(v2.in, Live(v2))
      BY <1>2, <1>4, <2>1, <3>2, MuteSections
    <3>4. w.lo = 0
      BY <1>1, <2>1, VoiceTypes
    <3>5. (\E b \in Nat : Hears(w, v2, b))
          /\ Runs(v2.in, Live(v2), Answers(v2.lo, MostTaken(w, v2), v2.b, w.seen),
                  Ordered(v2.lo))
      BY <1>1, <1>3, <1>6, <3>3, <3>4, HearsNothing
    <3>6. QED BY <3>1, <3>5 DEF Session
  <2>2. CASE ~(Calling(w) /\ Any(w.in, {"UA"}))
    <3>1. Joined(w, v2) => Joined(w, v) /\ Stays(w, w)
      BY <1>7, <2>2 DEF Joined, On, Stays
    <3>2. Relays(v.in, Live(v), v2.in, Live(v2))
          /\ Relays(v.in, Behind(v.in, {"SABM"}), v2.in, Behind(v2.in, {"SABM"}))
      BY <1>2, <1>7, LiveTail
    <3>3. Up(w) => Up(w) /\ Stays(w, w)
      BY DEF Stays
    <3>4. QED BY <1>1, <1>5, <3>1, <3>2, <3>3, SessionCarried
  <2>3. QED BY <2>1, <2>2
<1>10. QED BY <1>1, <1>4, <1>6, <1>8, <1>9 DEF Good, Half

-----------------------------------------------------------------------------
(* Numbers on their way                                                    *)

\* In a window shorter than the modulus a number means one chunk.
LEMMA InWindow ==
    ASSUME NEW x \in Nat, NEW i \in x .. x + Window, NEW k \in x .. x + Window,
           i % Modulus = k % Modulus
    PROVE  i = k
<1>1. i \in Nat /\ k \in Nat /\ i < k + Modulus /\ k < i + Modulus
  BY WindowAssumption, ModulusAssumption
<1>2. QED BY <1>1, Unambiguous

\* What an I-frame of session b tells a receiver that took r of its chunks: it
\* carries a chunk of the session, and the next one if its number is expected.
ChunkOf(S, top, b, r, f) ==
    /\ f.data \in Nat /\ b \in S /\ b <= f.data /\ f.data <= top
    /\ \A x \in S : x <= b \/ f.data < x
    /\ f.ns = r % Modulus => f.data = b + r

\* An I-frame that carries the number a receiver expects carries the chunk
\* it expects.
LEMMA NextChunk ==
    ASSUME NEW S, NEW top \in Int, NEW b \in Nat, NEW r \in Nat,
           NEW f \in Chunks(S, top, b, r), f.type = "I"
    PROVE  ChunkOf(S, top, b, r, f)
<1>1. /\ b \in S /\ f.data \in b .. top /\ f.ns = (f.data - b) % Modulus
      /\ f.data - b < r + Window /\ r <= f.data - b + Window
      /\ \A x \in S : x <= b \/ f.data < x
  BY DEF Chunks
<1>2. PICK x \in Nat : x = f.data - b
  BY <1>1
<1>3. x < r + Modulus /\ r < x + Modulus
  <2>1. x < r + Window /\ r <= x + Window
    BY <1>1, <1>2
  <2>2. QED BY <2>1, WindowAssumption, ModulusAssumption
<1>4. f.ns = r % Modulus => x = r
  BY <1>1, <1>2, <1>3, Unambiguous
<1>5. f.data \in Nat /\ b <= f.data /\ f.data <= top
  BY <1>1
<1>6. x = r => f.data = b + r
  BY <1>2, <1>5
<1>7. QED BY <1>1, <1>4, <1>5, <1>6 DEF ChunkOf

\* Behind a chunk that was taken come frames for the next one.
LEMMA ChunksBehind ==
    ASSUME NEW S, NEW top \in Int, NEW b \in Nat, NEW r \in Nat,
           NEW f \in Frame, f.type = "I", f.data = b + r
    PROVE  Follows(f, Chunks(S, top, b, r), Rising) \subseteq Chunks(S, top, b, r + 1)
<1> SUFFICES ASSUME NEW g \in Follows(f, Chunks(S, top, b, r), Rising)
             PROVE  g \in Chunks(S, top, b, r + 1)
  OBVIOUS
<1>1. g \in Chunks(S, top, b, r) /\ <<f, g>> \in Rising /\ g \in Frame
  BY DEF Follows, Chunks
<1>2. ASSUME g.type = "I"
      PROVE  /\ b \in S /\ g.data \in b .. top /\ g.ns = (g.data - b) % Modulus
             /\ \A x \in S : x <= b \/ g.data < x
             /\ g.data - b < r + 1 + Window /\ r + 1 <= g.data - b + Window
  <2>1. /\ b \in S /\ g.data \in b .. top /\ g.ns = (g.data - b) % Modulus
        /\ \A x \in S : x <= b \/ g.data < x
        /\ g.data - b < r + Window
    BY <1>1, <1>2 DEF Chunks
  <2>2. b + r < g.data + Window
    BY <1>1, <1>2 DEF Rising
  <2>3. g.data \in Int /\ Window \in Nat
    BY <2>1, WindowAssumption
  <2>4. r + 1 <= g.data - b + Window /\ g.data - b < r + 1 + Window
    BY <2>1, <2>2, <2>3
  <2>5. QED BY <2>1, <2>4
<1>3. QED BY <1>1, <1>2 DEF Chunks

\* Behind an answer come answers that acknowledge no less.
LEMMA AnswersBehind ==
    ASSUME NEW lo \in Nat, NEW hi \in Nat, hi <= lo + Window, NEW b, NEW A,
           NEW k \in lo .. hi, NEW f \in Frame, Numbered(f), f.nr = k % Modulus
    PROVE  Follows(f, Answers(lo, hi, b, A), Ordered(lo)) \subseteq Answers(k, hi, b, A)
<1> SUFFICES ASSUME NEW g \in Follows(f, Answers(lo, hi, b, A), Ordered(lo))
             PROVE  g \in Answers(k, hi, b, A)
  OBVIOUS
<1>1. g \in Answers(lo, hi, b, A) /\ <<f, g>> \in Ordered(lo) /\ g \in Frame
  BY DEF Follows, Answers
<1>2. ASSUME Numbered(g)
      PROVE  \E i \in k .. hi : g.nr = i % Modulus /\ b .. b + i - 1 \subseteq A
  <2>1. PICK i \in lo .. hi : g.nr = i % Modulus /\ b .. b + i - 1 \subseteq A
    BY <1>1, <1>2 DEF Answers
  <2>2. k \in lo .. lo + Window /\ i \in lo .. lo + Window
    BY WindowAssumption
  <2>3. k <= i
    BY <1>1, <1>2, <2>1, <2>2 DEF Ordered
  <2>4. i \in k .. hi
    BY <2>3
  <2>5. QED BY <2>1, <2>4
<1>3. QED BY <1>1, <1>2 DEF Answers

\* Acknowledgements in a later window are still in order.
LEMMA OrderedBehind ==
    ASSUME NEW lo \in Nat, NEW hi \in Nat, hi <= lo + Window, NEW b, NEW A,
           NEW k \in lo .. hi, NEW f \in Answers(k, hi, b, A), NEW g \in Answers(k, hi, b, A),
           <<f, g>> \in Ordered(lo)
    PROVE  <<f, g>> \in Ordered(k)
<1>1. f \in Frame /\ g \in Frame
  BY DEF Answers
<1>2. ASSUME Numbered(f), Numbered(g), NEW i \in k .. k + Window, NEW j \in k .. k + Window,
             f.nr = i % Modulus, g.nr = j % Modulus
      PROVE  i <= j
  <2>1. PICK x \in k .. hi : f.nr = x % Modulus
    BY <1>2 DEF Answers
  <2>2. PICK y \in k .. hi : g.nr = y % Modulus
    BY <1>2 DEF Answers
  <2>3. /\ k \in Nat /\ x \in k .. k + Window /\ y \in k .. k + Window
        /\ x \in lo .. lo + Window /\ y \in lo .. lo + Window
    BY WindowAssumption
  <2>4. x = i /\ y = j
    BY <1>2, <2>1, <2>2, <2>3, InWindow
  <2>5. x <= y
    BY <1>2, <2>1, <2>2, <2>3 DEF Ordered
  <2>6. QED BY <2>4, <2>5
<1>3. QED BY <1>1, <1>2 DEF Ordered

\* A chunk from a window above lo is near every number in a window above lo,
\* and every other such chunk.
LEMMA NearChunk ==
    ASSUME NEW W \in Nat, 0 < W, NEW b \in Nat, NEW lo \in Nat, NEW hi \in Nat,
           NEW d \in Nat, hi <= lo + W, b + lo <= d, d < b + hi
    PROVE  /\ d \in b .. b + hi - 1
           /\ \A m \in Nat : lo <= m /\ m <= lo + W => d - b < m + W /\ m <= d - b + W
           /\ \A e \in Nat : e < b + hi => e < d + W
<1>1. d \in b .. b + hi - 1
  OBVIOUS
<1>2. ASSUME NEW m \in Nat, lo <= m, m <= lo + W PROVE d - b < m + W /\ m <= d - b + W
  <2>1. PICK x \in Nat : x = d - b /\ lo <= x /\ x < hi
    OBVIOUS
  <2>2. x < m + W /\ m <= x + W
    BY <1>2, <2>1
  <2>3. QED BY <2>1, <2>2
<1>3. ASSUME NEW e \in Nat, e < b + hi PROVE e < d + W
  <2>1. b + hi <= b + lo + W
    OBVIOUS
  <2>2. QED BY <1>3, <2>1
<1>4. QED BY <1>1, <1>2, <1>3

\* What a station says fits what its peer may meet.
LEMMA SaysChunks ==
    ASSUME NEW out \in Seq(Frame), NEW b \in Nat, NEW lo \in Nat, NEW hi \in Nat,
           NEW r, NEW s, Says(out, b, lo, hi, r, s), hi <= lo + Window,
           NEW S, b \in S, \A x \in S : x <= b, NEW m \in Nat, lo <= m, m <= lo + Window,
           NEW h \in Nat, h <= hi, h <= lo + Window
    PROVE  /\ Runs(out, 1 .. Len(out), Chunks(S, b + hi - 1, b, m), Rising)
           /\ Ends(Chunks(S, b + h - 1, b, m), out, Rising)
<1>1. ASSUME NEW i \in 1 .. Len(out), out[i].type = "I"
      PROVE  /\ out[i].data \in Nat /\ b + lo <= out[i].data /\ out[i].data < b + hi
             /\ out[i].ns = (out[i].data - b) % Modulus
  <2>1. PICK k \in lo .. hi - 1 : out[i].data = b + k /\ out[i].ns = k % Modulus
    BY <1>1 DEF Says, Carries
  <2>2. k \in Nat /\ lo <= k /\ k < hi /\ b + k - b = k
    OBVIOUS
  <2>3. QED BY <2>1, <2>2
<1>2. \A i \in 1 .. Len(out) : out[i] \in Frame
  BY ElementOfSeq
<1>3. ASSUME NEW i \in 1 .. Len(out) PROVE out[i] \in Chunks(S, b + hi - 1, b, m)
  <2>1. ASSUME out[i].type = "I"
        PROVE  /\ b \in S /\ out[i].data \in b .. b + hi - 1
               /\ out[i].ns = (out[i].data - b) % Modulus
               /\ \A x \in S : x <= b \/ out[i].data < x
               /\ out[i].data - b < m + Window /\ m <= out[i].data - b + Window
    <3>1. PICK d \in Nat : d = out[i].data /\ b + lo <= d /\ d < b + hi
      BY <1>1, <2>1
    <3>2. d \in b .. b + hi - 1 /\ d - b < m + Window /\ m <= d - b + Window
      BY ONLY WindowAssumption, NearChunk, <3>1, b \in Nat, lo \in Nat, hi \in Nat, m \in Nat,
              d \in Nat, hi <= lo + Window, lo <= m, m <= lo + Window
    <3>3. out[i].ns = (out[i].data - b) % Modulus
      BY <1>1, <2>1
    <3>4. \A x \in S : x <= b \/ out[i].data < x
      OBVIOUS
    <3>5. QED BY <3>1, <3>2, <3>3, <3>4
  <2>2. QED BY <1>2, <2>1 DEF Chunks
<1>4. ASSUME NEW i \in 1 .. Len(out), NEW j \in 1 .. Len(out)
      PROVE  <<out[i], out[j]>> \in Rising
  <2>1. ASSUME out[i].type = "I", out[j].type = "I" PROVE out[i].data < out[j].data + Window
    <3>1. PICK d \in Nat : d = out[i].data /\ d < b + hi
      BY <1>1, <2>1
    <3>2. PICK e \in Nat : e = out[j].data /\ b + lo <= e /\ e < b + hi
      BY <1>1, <2>1
    <3>3. d < e + Window
      BY ONLY WindowAssumption, NearChunk, <3>1, <3>2, b \in Nat, lo \in Nat, hi \in Nat,
              d \in Nat, e \in Nat, hi <= lo + Window
    <3>4. QED BY <3>1, <3>2, <3>3
  <2>2. QED BY <1>2, <2>1 DEF Rising
<1>5. ASSUME NEW f \in Chunks(S, b + h - 1, b, m), NEW j \in 1 .. Len(out)
      PROVE  <<f, out[j]>> \in Rising
  <2>1. ASSUME f.type = "I", out[j].type = "I" PROVE f.data < out[j].data + Window
    <3>1. f.data \in b .. b + h - 1
      BY <2>1 DEF Chunks
    <3>2. PICK d \in Nat : d = f.data /\ d < b + hi
      BY <3>1
    <3>3. PICK e \in Nat : e = out[j].data /\ b + lo <= e /\ e < b + hi
      BY <1>1, <2>1
    <3>4. d < e + Window
      BY ONLY WindowAssumption, NearChunk, <3>2, <3>3, b \in Nat, lo \in Nat, hi \in Nat,
              d \in Nat, e \in Nat, hi <= lo + Window
    <3>5. QED BY <3>2, <3>3, <3>4
  <2>2. f \in Frame
    BY DEF Chunks
  <2>3. QED BY <1>2, <2>1, <2>2 DEF Rising
<1>6. QED BY <1>3, <1>4, <1>5 DEF Runs, Ends

\* The frames of one call are answers that acknowledge no less.
LEMMA SaysAnswers ==
    ASSUME NEW out \in Seq(Frame), NEW b, NEW lo, NEW hi, NEW r \in Nat, NEW s \in Nat,
           Says(out, b, lo, hi, r, s),
           NEW l \in Nat, l <= r, r <= s, s <= l + Window,
           NEW c \in Nat, NEW A, NEW B, c .. c + s - 1 \subseteq A
    PROVE  /\ Runs(out, 1 .. Len(out), Answers(l, s, c, A), Ordered(l))
           /\ Ends(Answers(l, r, c, B), out, Ordered(l))
<1>1. \A i \in 1 .. Len(out) : out[i] \in Frame
  BY ElementOfSeq
<1>2. /\ r \in l .. s /\ s \in l .. s /\ r \in l .. l + Window /\ s \in l .. l + Window
  BY WindowAssumption
<1>3. c .. c + r - 1 \subseteq A
  <2>1. c .. c + r - 1 \subseteq c .. c + s - 1
    OBVIOUS
  <2>2. QED BY <2>1
<1>4. ASSUME NEW i \in 1 .. Len(out) PROVE out[i] \in Answers(l, s, c, A)
  <2>1. Numbered(out[i]) => out[i].nr \in {r % Modulus, s % Modulus}
    BY DEF Says
  <2>2. QED BY <1>1, <1>2, <1>3, <2>1 DEF Answers
<1>5. ASSUME NEW i \in 1 .. Len(out), NEW j \in 1 .. Len(out), i < j
      PROVE  <<out[i], out[j]>> \in Ordered(l)
  <2>1. ASSUME Numbered(out[i]), Numbered(out[j]), NEW x \in l .. l + Window,
               NEW y \in l .. l + Window, out[i].nr = x % Modulus, out[j].nr = y % Modulus
        PROVE  x <= y
    <3>1. out[i].nr = r % Modulus \/ out[j].nr = s % Modulus
      BY <1>5, <2>1 DEF Says
    <3>2. out[i].nr \in {r % Modulus, s % Modulus} /\ out[j].nr \in {r % Modulus, s % Modulus}
      BY <2>1 DEF Says
    <3>3. (x = r \/ x = s) /\ (y = r \/ y = s) /\ (x = r \/ y = s)
      BY <1>2, <2>1, <3>1, <3>2, InWindow
    <3>4. QED BY <3>3
  <2>2. QED BY <1>1, <2>1 DEF Ordered
<1>6. ASSUME NEW f \in Answers(l, r, c, B), NEW j \in 1 .. Len(out)
      PROVE  <<f, out[j]>> \in Ordered(l)
  <2>1. ASSUME Numbered(f), Numbered(out[j]), NEW x \in l .. l + Window,
               NEW y \in l .. l + Window, f.nr = x % Modulus, out[j].nr = y % Modulus
        PROVE  x <= y
    <3>1. PICK k \in l .. r : f.nr = k % Modulus
      BY <2>1 DEF Answers
    <3>2. k \in l .. l + Window
      BY WindowAssumption
    <3>3. x = k
      BY <2>1, <3>1, <3>2, InWindow
    <3>4. out[j].nr \in {r % Modulus, s % Modulus}
      BY <2>1 DEF Says
    <3>5. y = r \/ y = s
      BY <1>2, <2>1, <3>4, InWindow
    <3>6. QED BY <3>3, <3>5
  <2>2. f \in Frame
    BY DEF Answers
  <2>3. QED BY <1>1, <2>1, <2>2 DEF Ordered
<1>7. QED BY <1>4, <1>5, <1>6 DEF Runs, Ends

-----------------------------------------------------------------------------
(* A session goes on                                                       *)

\* Chunk d is the next one of w's that v may be handed.
Due(v, w, d) ==
    \E b \in Nat :
        /\ Heads(w, v, b) /\ b \in w.starts /\ d = b + Len(v.got) /\ d <= w.n
        /\ \A x \in w.starts : x <= b \/ d < x

\* The numbered frame that a connected station finds first.
LEMMA HeadNumbered ==
    ASSUME NEW v, NEW w, Voice(v), Voice(w), Session(w, v), Session(v, w), Up(v),
           v.in # <<>>, Numbered(Head(v.in))
    PROVE  LET f == Head(v.in)
           IN /\ f \in Frame
              /\ \E k \in v.lo .. MostTaken(w, v) : f.nr = k % Modulus
              /\ f.type = "I" => f.data \in Data
              /\ f.type = "I" /\ f.ns = Len(v.got) % Modulus => Due(v, w, f.data)
<1> DEFINE f == Head(v.in)
           K == Live(v)
           R == Len(v.got)
<1>1. v.in \in Seq(Frame) /\ R \in Nat /\ f \in Frame
  BY VoiceTypes, HeadTailProperties
<1>2. 1 \in K /\ K \subseteq Nat
  <2>1. f.type # "SABM"
    BY DEF Numbered
  <2>2. K = Before(v.in)
    BY DEF Live
  <2>3. 1 \in Before(v.in) /\ Before(v.in) \subseteq 1 .. Len(v.in)
    BY <1>1, <2>1, SectionsTail, MuteSections
  <2>4. QED BY <2>2, <2>3
<1>3. PICK b \in Nat : Hears(w, v, b)
  BY DEF Session
<1>4. Top(w, v) \in Int /\ Top(w, v) <= w.n /\ w.n \in Nat /\ w.n <= MaxSend
  BY TopTypes, VoiceTypes
<1>5. v.in[1] = f
  BY <1>1
<1>6. f \in Chunks(w.starts, Top(w, v), b, R)
  BY <1>2, <1>3, <1>5 DEF Hears, Runs
<1>7. f \in Answers(v.lo, MostTaken(w, v), v.b, w.seen)
  BY <1>2, <1>5 DEF Session, Runs
<1>8. \E k \in v.lo .. MostTaken(w, v) : f.nr = k % Modulus
  BY <1>7 DEF Answers
<1>9. ASSUME f.type = "I"
      PROVE  f.data \in Data /\ (f.ns = R % Modulus => Due(v, w, f.data))
  <2>0. /\ Top(w, v) \in Int /\ b \in Nat /\ R \in Nat
        /\ f \in Chunks(w.starts, Top(w, v), b, R) /\ f.type = "I"
    BY <1>1, <1>4, <1>6, <1>9
  <2>1. /\ f.data \in Nat /\ b \in w.starts /\ b <= f.data /\ f.data <= Top(w, v)
        /\ \A x \in w.starts : x <= b \/ f.data < x
        /\ f.ns = R % Modulus => f.data = b + R
    <3>1. PICK T \in Int : T = Top(w, v)
      BY <2>0
    <3>2. PICK r \in Nat : r = R
      BY <2>0
    <3>3. PICK S : S = w.starts
      OBVIOUS
    <3>4. PICK g \in Chunks(S, T, b, r) : g = f
      BY <2>0, <3>1, <3>2, <3>3
    <3>5. g.type = "I"
      BY <2>0, <3>4
    <3>6. ChunkOf(S, T, b, r, g)
      BY ONLY <3>5, NextChunk, T \in Int, b \in Nat, r \in Nat, g \in Chunks(S, T, b, r)
    <3>7. QED BY <3>1, <3>2, <3>3, <3>4, <3>6 DEF ChunkOf
  <2>2. b >= 1
    BY <1>4, <2>1 DEF Voice
  <2>3. f.data <= w.n /\ f.data \in 1 .. MaxSend
    BY <1>4, <2>1, <2>2, BoundsAssumption
  <2>4. Heads(w, v, b)
    BY <1>3 DEF Hears
  <2>5. f.data \in Data
    BY <2>3, DataAssumption
  <2>6. f.ns = R % Modulus => Due(v, w, f.data)
    BY <2>1, <2>3, <2>4 DEF Due
  <2>7. QED BY <2>5, <2>6
<1>10. QED BY <1>1, <1>8, <1>9

\* v reads a numbered frame, or nothing.
Silence(v, v2) == v2.in = v.in /\ v2.lo = v.lo /\ v2.got = v.got
Reads(v, w, v2) ==
    /\ v.in # <<>> /\ Numbered(Head(v.in)) /\ v2.in = Tail(v.in)
    /\ v2.lo \in v.lo .. MostTaken(w, v) /\ Head(v.in).nr = v2.lo % Modulus
    /\ \/ v2.got = v.got
       \/ /\ Head(v.in).type = "I" /\ Head(v.in).ns = Len(v.got) % Modulus
          /\ v2.got = Append(v.got, Head(v.in).data)

\* Meanwhile its application may have sent more, and so may it.
Grows(v, v2) ==
    /\ v2.b = v.b /\ v2.starts = v.starts /\ v2.called = v.called
    /\ v2.n \in 0 .. MaxSend /\ v.n <= v2.n
    /\ v2.hi \in Nat /\ v.hi <= v2.hi /\ v2.hi <= v2.lo + Window /\ v2.b + v2.hi <= v2.n + 1
    /\ v.seen \subseteq v2.seen /\ \A i \in 1 .. Len(v2.got) : v2.got[i] \in v2.seen

Talks(v, w, v2) ==
    Up(v) /\ Up(v2) /\ Grows(v, v2) /\ (Silence(v, v2) \/ Reads(v, w, v2))

\* A station that talks has a voice, and moves forward only.
LEMMA TalksVoice ==
    ASSUME NEW v, NEW w, Voice(v), Voice(w), Session(w, v), Session(v, w),
           NEW v2, Talks(v, w, v2)
    PROVE  Voice(v2) /\ v.lo <= v2.lo /\ Len(v.got) <= Len(v2.got)
<1>1. /\ v.in \in Seq(Frame) /\ v.got \in Seq(Data) /\ v.n \in Nat /\ v.b \in Nat
      /\ v.lo \in Nat /\ v.hi \in Nat /\ v.lo <= v.hi /\ v.b \in v.starts
      /\ Up(v) /\ Up(v2) /\ Grows(v, v2) /\ Len(v.got) \in Nat
  BY VoiceTypes DEF Talks
<1>2. MostTaken(w, v) \in Nat /\ MostTaken(w, v) <= v.hi
  BY <1>1, TopTypes
<1>3. v2.in \in Seq(Frame) /\ v2.got \in Seq(Data) /\ v2.lo \in Nat /\ v2.lo <= v.hi
      /\ v.lo <= v2.lo /\ Len(v.got) <= Len(v2.got)
  <2>1. CASE Silence(v, v2)
    BY <1>1, <2>1 DEF Silence
  <2>2. CASE Reads(v, w, v2)
    <3>1. v2.in \in Seq(Frame)
      BY <1>1, <2>2, HeadTailProperties DEF Reads
    <3>2. v2.lo \in Nat /\ v2.lo <= v.hi /\ v.lo <= v2.lo
      BY <1>1, <1>2, <2>2 DEF Reads
    <3>3. v2.got \in Seq(Data) /\ Len(v.got) <= Len(v2.got)
      <4>1. CASE v2.got = v.got
        BY <1>1, <4>1
      <4>2. CASE Head(v.in).type = "I" /\ v2.got = Append(v.got, Head(v.in).data)
        <5>1. Head(v.in).data \in Data
          BY <1>1, <2>2, <4>2, HeadNumbered DEF Reads
        <5>2. QED BY <1>1, <4>2, <5>1, AppendProperties
      <4>3. QED BY <2>2, <4>1, <4>2 DEF Reads
    <3>4. QED BY <3>1, <3>2, <3>3
  <2>3. QED BY <2>1, <2>2 DEF Talks
<1>4. v2.starts \subseteq 1 .. v2.n + 1
  <2>1. v2.starts = v.starts /\ v.starts \subseteq 1 .. v.n + 1 /\ v.n <= v2.n /\ v2.n \in Nat
    BY <1>1, BoundsAssumption DEF Grows, Voice
  <2>2. 1 .. v.n + 1 \subseteq 1 .. v2.n + 1
    BY <1>1, <2>1
  <2>3. QED BY <2>1, <2>2
<1>5. \A x \in v2.starts : x <= v2.b
  BY <1>1 DEF Grows, Voice
<1>6. v2.lo <= v2.hi
  BY <1>1, <1>3 DEF Grows
<1>7. ~Calling(v2)
  BY <1>1 DEF Up, Calling
<1>8. QED BY <1>1, <1>3, <1>4, <1>5, <1>6, <1>7 DEF Voice, Grows

\* Reading a frame: what is behind it fits what the reader then knows.
LEMMA ReadChunk ==
    ASSUME NEW s \in Seq(Frame), s # <<>>, NEW K, K \subseteq Nat, 1 \in K,
           NEW L, Shifted(s, K, L),
           NEW S, NEW top \in Int, NEW b \in Nat, NEW r \in Nat,
           Runs(s, K, Chunks(S, top, b, r), Rising),
           Head(s).type = "I", Head(s).ns = r % Modulus
    PROVE  /\ Head(s).data = b + r /\ b \in S /\ b + r <= top
           /\ \A x \in S : x <= b \/ b + r < x
           /\ Runs(Tail(s), L, Chunks(S, top, b, r + 1), Rising)
<1> DEFINE X == Chunks(S, top, b, r)
<1>1. /\ Head(s) \in X
      /\ Runs(Tail(s), L, Follows(Head(s), X, Rising), Rising)
  <2> HIDE DEF X
  <2>1. Runs(s, K, X, Rising)
    BY DEF X
  <2>2. QED BY <2>1, RunsTail
<1>2. PICK f \in X : f = Head(s)
  BY <1>1
<1>3. f.type = "I" /\ f.ns = r % Modulus
  BY <1>2
<1>4. /\ b \in S /\ f.data <= top /\ (\A x \in S : x <= b \/ f.data < x)
      /\ f.data = b + r
  <2>1. ChunkOf(S, top, b, r, f)
    BY <1>3, NextChunk
  <2>2. QED BY <1>3, <2>1 DEF ChunkOf
<1>5. f \in Frame
  BY DEF Chunks
<1>6. Follows(f, X, Rising) \subseteq Chunks(S, top, b, r + 1)
  BY <1>3, <1>4, <1>5, ChunksBehind
<1>7. Runs(Tail(s), L, Chunks(S, top, b, r + 1), Rising)
  <2> DEFINE X2 == Chunks(S, top, b, r + 1)
             F == Follows(f, X, Rising)
  <2>1. Runs(Tail(s), L, F, Rising) /\ F \subseteq X2
    BY <1>1, <1>2, <1>6
  <2> HIDE DEF X2, F
  <2>2. Runs(Tail(s), L, X2, Rising)
    BY <2>1, RunsWider
  <2>3. QED BY <2>2 DEF X2
<1>8. QED BY <1>2, <1>4, <1>7

\* What follows the answer that was read.
LEMMA ReadAnswer ==
    ASSUME NEW s \in Seq(Frame), s # <<>>, NEW K, K \subseteq Nat, 1 \in K,
           NEW L, Shifted(s, K, L),
           NEW lo \in Nat, NEW hi \in Nat, hi <= lo + Window, NEW b, NEW A,
           Runs(s, K, Answers(lo, hi, b, A), Ordered(lo)),
           Numbered(Head(s)), NEW k \in lo .. hi, Head(s).nr = k % Modulus
    PROVE  Runs(Tail(s), L, Answers(k, hi, b, A), Ordered(k))
<1> DEFINE X == Answers(lo, hi, b, A)
           X2 == Answers(k, hi, b, A)
           F == Follows(Head(s), X, Ordered(lo))
<1>1. Head(s) \in X /\ Runs(Tail(s), L, F, Ordered(lo))
  <2> HIDE DEF X
  <2>1. Runs(s, K, X, Ordered(lo))
    BY DEF X
  <2>2. QED BY <2>1, RunsTail
<1>2. Head(s) \in Frame
  BY <1>1 DEF Answers
<1>3. F \subseteq X2
  BY <1>2, AnswersBehind
<1>4. \A f, g \in X2 : <<f, g>> \in Ordered(lo) => <<f, g>> \in Ordered(k)
  BY OrderedBehind
<1> HIDE DEF X, X2, F
<1>5. Runs(Tail(s), L, X2, Ordered(k))
  BY <1>1, <1>3, <1>4, RunsWider
<1>6. QED BY <1>5 DEF X2

\* What v hears is of one session, before it talks and after.
LEMMA TalkTypes ==
    ASSUME NEW v, NEW w, Voice(v), Voice(w), Session(w, v), Session(v, w),
           NEW v2, Talks(v, w, v2)
    PROVE  /\ Up(v) /\ Up(v2) /\ On(v) /\ On(v2) /\ ~Calling(v2) /\ Voice(v2)
           /\ Joined(w, v2) <=> Joined(w, v)
           /\ Joined(v2, w) <=> Joined(v, w)
           /\ Top(w, v2) = Top(w, v) /\ Top(w, v) \in Int /\ Top(w, v) <= w.n
           /\ MostTaken(w, v) \in Nat /\ MostTaken(w, v2) \in Nat
           /\ MostTaken(w, v) <= MostTaken(w, v2) /\ MostTaken(w, v) <= v.lo + Window
           /\ v.lo \in Nat /\ v2.lo \in Nat /\ v.lo <= v2.lo /\ v2.lo <= MostTaken(w, v)
           /\ Len(v.got) \in Nat /\ Len(v2.got) \in Nat /\ Len(v.got) <= Len(v2.got)
           /\ v2.b = v.b /\ v2.starts = v.starts /\ v.b \in Nat
           /\ v.hi \in Nat /\ v2.hi \in Nat /\ v.hi <= v2.hi
<1>1. Up(v) /\ Up(v2) /\ Grows(v, v2)
  BY DEF Talks
<1>2. Voice(v2) /\ v.lo <= v2.lo /\ Len(v.got) <= Len(v2.got)
  BY TalksVoice
<1>3. On(v) /\ On(v2) /\ ~Calling(v2)
  BY <1>1 DEF On, Up, Calling
<1>4. /\ Joined(w, v2) <=> Joined(w, v)
      /\ Joined(v2, w) <=> Joined(v, w)
  BY <1>1, <1>3 DEF Joined
<1>5. Top(w, v2) = Top(w, v) /\ Top(w, v) \in Int /\ Top(w, v) <= w.n
  BY <1>4, TopTypes DEF Top
<1>6. /\ v.lo \in Nat /\ v.hi \in Nat /\ v.hi <= v.lo + Window /\ v2.hi \in Nat
      /\ v.hi <= v2.hi /\ v2.lo \in Nat /\ Len(v.got) \in Nat /\ Len(v2.got) \in Nat
      /\ v2.b = v.b /\ v2.starts = v.starts /\ v.b \in Nat
  BY <1>1, <1>2, VoiceTypes DEF Grows
<1>7. MostTaken(w, v) \in Nat /\ MostTaken(w, v) <= v.hi /\ v.lo <= MostTaken(w, v)
  BY <1>1, TopTypes
<1>8. /\ MostTaken(w, v2) \in Nat /\ MostTaken(w, v) <= MostTaken(w, v2)
  BY <1>4, <1>6, <1>7 DEF MostTaken
<1>9. v2.lo <= MostTaken(w, v)
  <2>1. CASE Silence(v, v2)
    BY <1>7, <2>1 DEF Silence
  <2>2. CASE Reads(v, w, v2)
    BY <1>6, <1>7, <2>2 DEF Reads
  <2>3. QED BY <2>1, <2>2 DEF Talks
<1>10. MostTaken(w, v) <= v.lo + Window
  BY <1>6, <1>7, WindowAssumption
<1>11. QED
  BY <1>1, <1>2, <1>3, <1>4, <1>5, <1>6, <1>7, <1>8, <1>9, <1>10

\* After a frame is read the chunks on their way still fit a session ...
LEMMA HearChunks ==
    ASSUME NEW v, NEW w, Voice(v), Voice(w), Session(w, v), Session(v, w),
           NEW v2, Talks(v, w, v2)
    PROVE  \E b \in Nat : Hears(w, v2, b)
<1>1. /\ Up(v) /\ Up(v2)
      /\ Joined(w, v2) <=> Joined(w, v)
      /\ Top(w, v2) = Top(w, v) /\ Top(w, v) \in Int /\ Top(w, v) <= w.n
      /\ Len(v.got) \in Nat
  BY TalkTypes
<1>2. PICK b \in Nat : Hears(w, v, b)
  BY <1>1 DEF Session
<1>3. Live(v) = Before(v.in) /\ Live(v2) = Before(v2.in)
  BY <1>1 DEF Live
<1>4. /\ Runs(v.in, Before(v.in), Chunks(w.starts, Top(w, v), b, Len(v.got)), Rising)
      /\ Heads(w, v, b)
      /\ Joined(w, v) => b = w.b /\ w.lo <= Len(v.got) /\ Len(v.got) <= w.hi
  BY <1>2, <1>3 DEF Hears
<1>5. CASE Silence(v, v2)
  <2>1. v2.in = v.in /\ v2.got = v.got
    BY <1>5 DEF Silence
  <2>2. Heads(w, v2, b)
    BY <1>4, <2>1 DEF Heads
  <2>3. Hears(w, v2, b)
    BY <1>1, <1>3, <1>4, <2>1, <2>2 DEF Hears
  <2>4. QED BY <2>3
<1>6. CASE Reads(v, w, v2)
  <2>1. /\ v.in \in Seq(Frame) /\ v.in # <<>> /\ v2.in = Tail(v.in)
        /\ Head(v.in).type # "SABM" /\ v.got \in Seq(Data)
    BY <1>6, VoiceTypes DEF Reads, Numbered
  <2>2. /\ Shifted(v.in, Before(v.in), Before(v2.in)) /\ 1 \in Before(v.in)
        /\ Before(v.in) \subseteq Nat
    <3>1. Before(v.in) \subseteq 1 .. Len(v.in)
      BY <2>1, MuteSections
    <3>2. QED BY <2>1, <3>1, SectionsTail
  <2>3. CASE v2.got = v.got
    <3>1. Runs(v2.in, Before(v2.in), Chunks(w.starts, Top(w, v), b, Len(v.got)), Rising)
      BY <1>4, <2>1, <2>2, RelaysTail DEF Relays
    <3>2. Heads(w, v2, b)
      BY <1>4, <2>3 DEF Heads
    <3>3. Hears(w, v2, b)
      BY <1>1, <1>3, <1>4, <2>3, <3>1, <3>2 DEF Hears
    <3>4. QED BY <3>3
  <2>4. CASE /\ Head(v.in).type = "I" /\ Head(v.in).ns = Len(v.got) % Modulus
             /\ v2.got = Append(v.got, Head(v.in).data)
    <3>1. PICK r \in Nat : r = Len(v.got)
      BY <1>1
    <3>2. PICK top \in Int : top = Top(w, v)
      BY <1>1
    <3>3. PICK d : d = Head(v.in).data
      OBVIOUS
    <3>4. /\ d = b + r /\ b \in w.starts /\ b + r <= top
          /\ \A x \in w.starts : x <= b \/ b + r < x
          /\ Runs(v2.in, Before(v2.in), Chunks(w.starts, top, b, r + 1), Rising)
      <4>1. Runs(v.in, Before(v.in), Chunks(w.starts, top, b, r), Rising)
        BY <1>4, <3>1, <3>2
      <4>2. Head(v.in).type = "I" /\ Head(v.in).ns = r % Modulus
        BY <2>4, <3>1
      <4>3. /\ Head(v.in).data = b + r /\ b \in w.starts /\ b + r <= top
            /\ \A x \in w.starts : x <= b \/ b + r < x
            /\ Runs(Tail(v.in), Before(v2.in), Chunks(w.starts, top, b, r + 1), Rising)
        <5> DEFINE K == Before(v.in)
                   L == Before(v2.in)
                   S == w.starts
                   s == v.in
        <5>1. s \in Seq(Frame) /\ s # <<>> /\ K \subseteq Nat /\ 1 \in K
              /\ Shifted(s, K, L) /\ Runs(s, K, Chunks(S, top, b, r), Rising)
              /\ Head(s).type = "I" /\ Head(s).ns = r % Modulus
          BY <2>1, <2>2, <4>1, <4>2
        <5>2. b \in Nat /\ r \in Nat /\ top \in Int
          OBVIOUS
        <5> HIDE DEF K, L, S, s
        <5>3. /\ Head(s).data = b + r /\ b \in S /\ b + r <= top
              /\ \A x \in S : x <= b \/ b + r < x
              /\ Runs(Tail(s), L, Chunks(S, top, b, r + 1), Rising)
          BY ONLY <5>1, <5>2, ReadChunk
        <5>4. QED BY <5>3 DEF K, L, S, s
      <4>4. QED BY <2>1, <3>3, <4>3
    <3>5. d \in Data
      BY <1>1, <1>6, <2>4, <3>3, HeadNumbered DEF Reads
    <3>6. /\ Len(v2.got) = r + 1 /\ v2.got[r + 1] = d
          /\ \A i \in 1 .. r : v2.got[i] = v.got[i]
      BY <2>1, <2>4, <3>1, <3>3, <3>5, AppendProperties
    <3>7. Heads(w, v2, b)
      <4>1. ASSUME NEW i \in 1 .. Len(v2.got)
            PROVE  /\ b \in w.starts /\ v2.got[i] = b + i - 1 /\ b + i - 1 <= w.n
                   /\ \A x \in w.starts : x <= b \/ b + i - 1 < x
        <5>1. CASE i \in 1 .. r
          BY <1>4, <3>1, <3>6, <5>1 DEF Heads
        <5>2. CASE i = r + 1
          <6>1. b + i - 1 = b + r /\ v2.got[i] = d
            BY <3>6, <5>2
          <6>2. w.n \in Nat
            BY VoiceTypes
          <6>3. b + r <= w.n
            BY <1>1, <3>2, <3>4, <6>2
          <6>4. QED BY <3>4, <6>1, <6>3
        <5>3. QED BY <3>6, <5>1, <5>2
      <4>2. QED BY <4>1 DEF Heads
    <3>8. Joined(w, v) => b = w.b /\ w.lo <= r + 1 /\ r + 1 <= w.hi
      <4>1. ASSUME Joined(w, v)
            PROVE  b = w.b /\ w.lo <= r + 1 /\ r + 1 <= w.hi
        <5>1. b = w.b /\ w.lo <= r /\ top = w.b + w.hi - 1
          BY <1>4, <3>1, <3>2, <4>1 DEF Top
        <5>2. Up(w) \/ Calling(w)
          BY <4>1, JoinedBoth
        <5>3. w.lo \in Nat /\ w.hi \in Nat
          BY <5>2, VoiceTypes
        <5>4. QED BY <3>4, <5>1, <5>3
      <4>2. QED BY <4>1
    <3>9. Hears(w, v2, b)
      BY <1>1, <1>3, <3>2, <3>4, <3>6, <3>7, <3>8 DEF Hears
    <3>10. QED BY <3>9
  <2>5. QED BY <1>6, <2>3, <2>4 DEF Reads
<1>7. QED BY <1>5, <1>6 DEF Talks

\* ... and so do the answers ...
LEMMA HearAnswers ==
    ASSUME NEW v, NEW w, Voice(v), Voice(w), Session(w, v), Session(v, w),
           NEW v2, Talks(v, w, v2)
    PROVE  Runs(v2.in, Live(v2), Answers(v2.lo, MostTaken(w, v2), v2.b, w.seen),
                Ordered(v2.lo))
<1>1. PICK lo \in Nat, k \in Nat, hi \in Nat, high \in Nat :
         lo = v.lo /\ k = v2.lo /\ hi = MostTaken(w, v) /\ high = MostTaken(w, v2)
  BY TalkTypes
<1>2. /\ Up(v) /\ Up(v2) /\ v2.b = v.b
      /\ lo <= k /\ k <= hi /\ hi <= high /\ hi <= lo + Window
  BY <1>1, TalkTypes
<1>3. Live(v) = Before(v.in) /\ Live(v2) = Before(v2.in)
  BY <1>2 DEF Live
<1>4. Runs(v.in, Before(v.in), Answers(lo, hi, v.b, w.seen), Ordered(lo))
  BY <1>1, <1>2, <1>3 DEF Session
<1>5. Runs(v2.in, Before(v2.in), Answers(k, hi, v.b, w.seen), Ordered(k))
  <2>1. CASE Silence(v, v2)
    BY <1>1, <1>4, <2>1 DEF Silence
  <2>2. CASE Reads(v, w, v2)
    <3>1. /\ v.in \in Seq(Frame) /\ v.in # <<>> /\ v2.in = Tail(v.in)
          /\ Head(v.in).type # "SABM" /\ Numbered(Head(v.in))
          /\ Head(v.in).nr = k % Modulus
      BY <1>1, <2>2, VoiceTypes DEF Reads, Numbered
    <3>2. /\ Shifted(v.in, Before(v.in), Before(v2.in)) /\ 1 \in Before(v.in)
          /\ Before(v.in) \subseteq Nat
      <4>1. Before(v.in) \subseteq 1 .. Len(v.in)
        BY <3>1, MuteSections
      <4>2. QED BY <3>1, <4>1, SectionsTail
    <3>3. k \in lo .. hi
      BY <1>2
    <3>4. QED BY <1>2, <1>4, <3>1, <3>2, <3>3, ReadAnswer
  <2>3. QED BY <2>1, <2>2 DEF Talks
<1>6. Answers(k, hi, v.b, w.seen) \subseteq Answers(k, high, v.b, w.seen)
  BY <1>2, AnswersTop
<1>7. Runs(v2.in, Before(v2.in), Answers(k, high, v.b, w.seen), Ordered(k))
  BY <1>5, <1>6, RunsWider
<1>8. QED BY <1>1, <1>2, <1>3, <1>7

\* ... so that the reader's half of the session holds.
LEMMA HearSession ==
    ASSUME NEW v, NEW w, Voice(v), Voice(w), Session(w, v), Session(v, w),
           ~Precedes(v.in, {"SABM"}, Numbers), NEW v2, Talks(v, w, v2),
           NEW w2, Unmoved(w, w2), On(w2) <=> On(w)
    PROVE  Session(w2, v2)
<1>1. Up(v2) /\ \E b \in Nat : Hears(w, v2, b)
  BY TalkTypes, HearChunks
<1>2. Runs(v2.in, Live(v2), Answers(v2.lo, MostTaken(w, v2), v2.b, w.seen),
           Ordered(v2.lo))
  BY HearAnswers
<1>3. ~Precedes(v2.in, {"SABM"}, Numbers)
  <2>1. CASE Silence(v, v2)
    BY <2>1 DEF Silence
  <2>2. CASE Reads(v, w, v2)
    <3>1. v.in \in Seq(Frame) /\ v.in # <<>> /\ v2.in = Tail(v.in)
      BY <2>2, VoiceTypes DEF Reads
    <3>2. QED BY <3>1, SomeTail
  <2>3. QED BY <2>1, <2>2 DEF Talks
<1>4. Joined(w2, v2) <=> Joined(w, v2)
  BY UnmovedSame DEF Joined
<1>5. w2.b = w.b /\ w2.lo = w.lo /\ w2.hi = w.hi /\ w2.got = w.got /\ w2.n = w.n
      /\ w2.starts = w.starts /\ w2.seen = w.seen
  BY DEF Unmoved, Stays
<1>6. Top(w2, v2) = Top(w, v2) /\ MostTaken(w2, v2) = MostTaken(w, v2)
  BY <1>4, <1>5 DEF Top, MostTaken
<1>7. ASSUME NEW b \in Nat, Hears(w, v2, b) PROVE Hears(w2, v2, b)
  <2>1. Heads(w2, v2, b)
    BY <1>5, <1>7 DEF Hears, Heads
  <2>2. QED BY <1>4, <1>5, <1>6, <1>7, <2>1 DEF Hears
<1>8. QED BY <1>1, <1>2, <1>3, <1>5, <1>6, <1>7 DEF Session

\* What v says meanwhile joins what is on its way to w.
Speaks(v, v2, w, w2, out) ==
    /\ out \in Seq(Frame) /\ Unmoved(w, w2) /\ w2.in = w.in \o out
    /\ Says(out, v.b, v2.lo, v2.hi, Len(v.got), Len(v2.got))

\* What is on its way after a call's frames are added.
LEMMA SpeakAtoms ==
    ASSUME NEW v, NEW v2, NEW w, w.in \in Seq(Frame), NEW w2, NEW out,
           Speaks(v, v2, w, w2, out)
    PROVE  /\ ~Any(out, {"SABM"}) /\ ~Any(out, {"UA"}) /\ w2.in \in Seq(Frame)
           /\ Any(w2.in, {"UA"}) <=> Any(w.in, {"UA"})
           /\ Any(w2.in, {"SABM"}) <=> Any(w.in, {"SABM"})
           /\ Any(w2.in, Numbers) <=> Any(w.in, Numbers) \/ Any(out, Numbers)
           /\ \A K : Precedes(w2.in, K, {"SABM"}) <=> Precedes(w.in, K, {"SABM"})
           /\ Precedes(w2.in, {"SABM"}, Numbers) =>
                 \/ Precedes(w.in, {"SABM"}, Numbers)
                 \/ Any(w.in, {"SABM"}) /\ Any(out, Numbers)
           /\ Precedes(w2.in, {"UA"}, Numbers) =>
                 \/ Precedes(w.in, {"UA"}, Numbers)
                 \/ Any(w.in, {"UA"}) /\ Any(out, Numbers)
           /\ On(w2) <=> On(w)
<1>1. out \in Seq(Frame) /\ w2.in = w.in \o out /\ Unmoved(w, w2)
  BY DEF Speaks
<1>2. ~Any(out, {"SABM"}) /\ ~Any(out, {"UA"})
  BY DEF Speaks, Says, Any
<1>3. \A K, L :
         /\ Any(w.in \o out, K) <=> Any(w.in, K) \/ Any(out, K)
         /\ Precedes(w.in \o out, K, L)
               <=> \/ Precedes(w.in, K, L) \/ Precedes(out, K, L)
                   \/ Any(w.in, K) /\ Any(out, L)
  BY <1>1, SomeCat
<1>4. \A K, L : Precedes(out, K, L) => Any(out, K) /\ Any(out, L)
  BY SomeBoth
<1>5. /\ Any(w2.in, {"UA"}) <=> Any(w.in, {"UA"})
      /\ Any(w2.in, {"SABM"}) <=> Any(w.in, {"SABM"})
      /\ Any(w2.in, Numbers) <=> Any(w.in, Numbers) \/ Any(out, Numbers)
  BY <1>1, <1>2, <1>3
<1>6. \A K : Precedes(w2.in, K, {"SABM"}) <=> Precedes(w.in, K, {"SABM"})
  <2> TAKE K
  <2>1. /\ Precedes(w.in \o out, K, {"SABM"})
               <=> \/ Precedes(w.in, K, {"SABM"}) \/ Precedes(out, K, {"SABM"})
                   \/ Any(w.in, K) /\ Any(out, {"SABM"})
        /\ Precedes(out, K, {"SABM"}) => Any(out, {"SABM"})
    BY <1>3, <1>4
  <2>2. QED BY <1>1, <1>2, <2>1
<1>7. ASSUME NEW K, ~Any(out, K), Precedes(w2.in, K, Numbers)
      PROVE  \/ Precedes(w.in, K, Numbers)
             \/ Any(w.in, K) /\ Any(out, Numbers)
  BY <1>1, <1>3, <1>4, <1>7
<1>8. w2.in \in Seq(Frame)
  BY <1>1, ConcatProperties
<1>9. On(w2) <=> On(w)
  BY <1>1, <1>5, UnmovedSame DEF On
<1>10. QED BY <1>2, <1>5, <1>6, <1>7, <1>8, <1>9

\* What has arrived and what is on its way fits the session still.
LEMMA SpeakJoined ==
    ASSUME NEW v, NEW w, Voice(v), Voice(w), Session(w, v), Session(v, w),
           NEW v2, Talks(v, w, v2), Session(w, v2), Joined(v, w),
           NEW w2, NEW out, Speaks(v, v2, w, w2, out)
    PROVE  /\ Hears(v2, w2, v.b)
           /\ Runs(w2.in, Live(w2), Answers(w2.lo, MostTaken(v2, w2), w2.b, v2.seen),
                   Ordered(w2.lo))
<1> DEFINE K == Live(w)
           L == Live(w2)
           S == v.starts
           s == w.in
<1>1. PICK b \in Nat, lo \in Nat, h \in Nat, hi \in Nat, m \in Nat, r \in Nat, t \in Nat :
         /\ b = v.b /\ lo = v2.lo /\ h = v.hi /\ hi = v2.hi
         /\ m = Len(w.got) /\ r = Len(v.got) /\ t = Len(v2.got)
  BY TalkTypes, VoiceTypes
<1>2. PICK l \in Nat, c \in Nat : l = w.lo /\ c = w.b
  BY VoiceTypes, JoinedBoth
<1>3. /\ Joined(w, v) /\ Joined(w, v2) /\ Joined(v2, w2) /\ Voice(v2)
      /\ v2.b = b /\ v2.starts = S /\ (Up(w) \/ Calling(w))
  <2>1. /\ Voice(v2) /\ v2.b = v.b /\ v2.starts = v.starts /\ On(v2) /\ Up(v2)
        /\ Joined(w, v2) <=> Joined(w, v)
    BY TalkTypes
  <2>2. Joined(w, v) /\ (Up(w) \/ Calling(w))
    BY JoinedBoth
  <2>3. On(w2) <=> On(w)
    BY SpeakAtoms, VoiceTypes
  <2>4. Joined(v2, w2)
    BY <2>1, <2>3 DEF Joined
  <2>5. QED BY <1>1, <2>1, <2>2, <2>4
<1>4. /\ w2.lo = l /\ w2.b = c /\ w2.got = w.got /\ w2.state = w.state
  BY <1>2 DEF Speaks, Unmoved, Stays
<1>5. /\ s \in Seq(Frame) /\ out \in Seq(Frame) /\ w2.in = s \o out
      /\ Says(out, b, lo, hi, r, t)
  BY <1>1, VoiceTypes DEF Speaks
<1>6. Added(s, out, K, L) /\ K \subseteq 1 .. Len(s)
  <2>1. Up(w2) <=> Up(w)
    BY <1>4 DEF Up
  <2>2. Calling(w2) <=> Calling(w)
    BY <1>4 DEF Calling
  <2>3. CASE Up(w)
    <3>1. K = Before(s) /\ L = Before(s \o out)
      BY <1>5, <2>1, <2>3 DEF Live
    <3>2. QED BY <1>5, <3>1, SectionsCat, MuteSections
  <2>4. CASE ~Up(w) /\ Calling(w)
    <3>1. K = Behind(s, {"UA"}) /\ L = Behind(s \o out, {"UA"})
      BY <1>5, <2>1, <2>2, <2>4 DEF Live
    <3>2. QED BY <1>5, <3>1, SectionsCat, MuteSections
  <2>5. QED BY <1>3, <2>3, <2>4
\* The chunks.
<1>7. /\ Runs(s, K, Chunks(S, b + h - 1, b, m), Rising)
      /\ Heads(v, w, b) /\ m <= h /\ Top(v, w) = b + h - 1
  BY <1>1, JoinedFacts DEF Hears
<1>8. /\ h <= hi /\ lo <= m /\ hi <= lo + Window /\ b \in S /\ \A x \in S : x <= b
  <2>1. MostTaken(w, v) = m /\ v2.lo <= MostTaken(w, v) /\ v.hi <= v2.hi
    BY <1>1, <1>3, TalkTypes DEF MostTaken
  <2>2. Up(v) /\ Grows(v, v2)
    BY DEF Talks
  <2>3. QED BY <1>1, <2>1, <2>2 DEF Voice, Grows
<1>9. m <= lo + Window /\ h <= lo + Window
  BY <1>7, <1>8, WindowAssumption
<1>10. /\ Runs(out, 1 .. Len(out), Chunks(S, b + hi - 1, b, m), Rising)
       /\ Ends(Chunks(S, b + h - 1, b, m), out, Rising)
  <2> HIDE DEF S
  <2>1. QED BY ONLY <1>5, <1>8, <1>9, SaysChunks, b \in Nat, lo \in Nat, hi \in Nat,
                    m \in Nat, h \in Nat
<1>11. Chunks(S, b + h - 1, b, m) \subseteq Chunks(S, b + hi - 1, b, m)
  <2>1. b + h - 1 \in Int /\ b + hi - 1 \in Int /\ b + h - 1 <= b + hi - 1
    BY <1>8
  <2>2. QED BY <2>1, ChunksTop
<1>12. Runs(w2.in, L, Chunks(S, b + hi - 1, b, m), Rising)
  <2> DEFINE X == Chunks(S, b + h - 1, b, m)
             X2 == Chunks(S, b + hi - 1, b, m)
  <2>1. Runs(s, K, X, Rising) /\ Runs(out, 1 .. Len(out), X2, Rising)
        /\ Ends(X, out, Rising) /\ X \subseteq X2
    BY <1>7, <1>10, <1>11
  <2> HIDE DEF X, X2, K, L, s
  <2>2. Runs(s \o out, L, X2, Rising)
    BY <1>5, <1>6, <2>1, RunsCat
  <2>3. QED BY <1>5, <2>2 DEF X2
<1>13. Heads(v2, w2, b)
  <2>1. v.n <= v2.n /\ v.n \in Nat /\ v2.n \in Nat
    BY <1>3, VoiceTypes DEF Talks, Grows
  <2>2. ASSUME NEW i \in 1 .. Len(w.got)
        PROVE  /\ b \in S /\ w.got[i] = b + i - 1 /\ b + i - 1 <= v2.n
               /\ \A x \in S : x <= b \/ b + i - 1 < x
    <3>1. /\ b \in S /\ w.got[i] = b + i - 1 /\ b + i - 1 <= v.n
          /\ \A x \in S : x <= b \/ b + i - 1 < x
      BY <1>7 DEF Heads
    <3>2. b + i - 1 <= v2.n
      BY <2>1, <3>1
    <3>3. QED BY <3>1, <3>2
  <2>3. QED BY <1>3, <1>4, <2>2 DEF Heads
<1>14. Hears(v2, w2, v.b)
  <2>1. Top(v2, w2) = b + hi - 1 /\ Len(w2.got) = m /\ m <= hi
    BY <1>1, <1>3, <1>4, <1>7, <1>8 DEF Top
  <2>2. QED BY <1>1, <1>3, <1>8, <1>12, <1>13, <2>1 DEF Hears
\* The acknowledgements.
<1>15. /\ Runs(s, K, Answers(l, r, c, v.seen), Ordered(l))
       /\ l <= r /\ r <= t /\ t <= l + Window
  <2>1. MostTaken(v, w) = r /\ r <= t
    BY <1>1, TalkTypes DEF MostTaken
  <2>2. l <= r /\ Len(v2.got) <= w.hi
    BY <1>1, <1>2, <1>3, JoinedFacts
  <2>3. w.hi \in Nat /\ w.hi <= l + Window
    BY <1>2, <1>3, VoiceTypes
  <2>4. t <= l + Window
    BY <1>1, <2>2, <2>3, WindowAssumption
  <2>5. QED BY <1>2, <1>3, <2>1, <2>2, <2>4 DEF Session
<1>16. c .. c + t - 1 \subseteq v2.seen /\ v.seen \subseteq v2.seen
  <2>1. Heads(w, v2, c)
    BY <1>2, <1>3, JoinedFacts
  <2>2. \A i \in 1 .. t : v2.got[i] \in v2.seen /\ v2.got[i] = c + i - 1
    BY <1>1, <1>3, <2>1 DEF Heads, Voice
  <2>3. ASSUME NEW x \in c .. c + t - 1 PROVE x \in v2.seen
    <3>1. x - c + 1 \in 1 .. t /\ c + (x - c + 1) - 1 = x
      OBVIOUS
    <3>2. QED BY <2>2, <3>1
  <2>4. QED BY <2>3 DEF Talks, Grows
<1>17. /\ Runs(out, 1 .. Len(out), Answers(l, t, c, v2.seen), Ordered(l))
       /\ Ends(Answers(l, r, c, v.seen), out, Ordered(l))
  BY <1>5, <1>15, <1>16, SaysAnswers
<1>18. Answers(l, r, c, v.seen) \subseteq Answers(l, t, c, v2.seen)
  <2>1. ASSUME NEW k \in l .. r, c .. c + k - 1 \subseteq v.seen
        PROVE  k \in l .. t /\ c .. c + k - 1 \subseteq v2.seen
    BY <1>15, <1>16, <2>1
  <2>2. QED BY <2>1 DEF Answers
<1>19. Runs(w2.in, L, Answers(l, t, c, v2.seen), Ordered(l))
  <2> DEFINE X == Answers(l, r, c, v.seen)
             X2 == Answers(l, t, c, v2.seen)
             Y == Ordered(l)
  <2>1. Runs(s, K, X, Y) /\ Runs(out, 1 .. Len(out), X2, Y)
        /\ Ends(X, out, Y) /\ X \subseteq X2
    BY <1>15, <1>17, <1>18
  <2> HIDE DEF X, X2, Y, K, L, s
  <2>2. Runs(s \o out, L, X2, Y)
    BY <1>5, <1>6, <2>1, RunsCat
  <2>3. QED BY <1>5, <2>2 DEF X2, Y
<1>20. MostTaken(v2, w2) = t
  BY <1>1, <1>3 DEF MostTaken
<1>21. QED BY <1>4, <1>14, <1>19, <1>20

\* A SABM of v's own that w has not read yet: v's new session lies behind it.
LEMMA SpeakAwaited ==
    ASSUME NEW v, NEW w, Voice(v), Voice(w), Session(w, v), Session(v, w), Control(v, w),
           NEW v2, Talks(v, w, v2), NEW w2, NEW out, Speaks(v, v2, w, w2, out),
           Any(w.in, {"SABM"})
    PROVE  Awaits(v2, w2, v.b)
<1> DEFINE K == Behind(w.in, {"SABM"})
           L == Behind(w2.in, {"SABM"})
           S == v.starts
           s == w.in
           Z == Answers(0, 0, 0, {})
<1>1. Up(v) /\ Virgin(v) /\ ~Any(v.in, Numbers)
  BY TalkTypes DEF Control
<1>2. Silence(v, v2)
  <2>1. ASSUME Reads(v, w, v2) PROVE FALSE
    <3>1. v.in \in Seq(Frame) /\ v.in # <<>> /\ Head(v.in).type \in Numbers
      BY <2>1, VoiceTypes DEF Reads, Numbered, Numbers
    <3>2. QED BY <1>1, <3>1, SomeTail
  <2>2. QED BY <2>1 DEF Talks
<1>3. PICK b \in Nat, h \in Nat, hi \in Nat : b = v.b /\ h = v.hi /\ hi = v2.hi
  BY TalkTypes
<1>4. /\ v2.lo = 0 /\ Len(v.got) = 0 /\ Len(v2.got) = 0 /\ v2.b = b /\ v2.starts = S
      /\ Up(v2) /\ h <= hi /\ hi <= 0 + Window /\ b \in S /\ \A x \in S : x <= b
  <2>1. v2.lo = 0 /\ Len(v.got) = 0 /\ Len(v2.got) = 0
    BY <1>1, <1>2 DEF Silence, Virgin
  <2>2. QED BY <1>3, <2>1, TalkTypes DEF Talks, Grows, Voice
<1>5. /\ s \in Seq(Frame) /\ out \in Seq(Frame) /\ w2.in = s \o out
      /\ Says(out, b, 0, hi, 0, 0)
  BY <1>3, <1>4, VoiceTypes DEF Speaks
<1>6. Added(s, out, K, L) /\ K \subseteq 1 .. Len(s)
  BY <1>5, SectionsCat, MuteSections
<1>7. /\ Runs(s, K, Chunks(S, b + h - 1, b, 0), Rising)
      /\ Runs(s, K, Z, Ordered(0))
  <2>1. CASE Precedes(s, {"SABM"}, Numbers)
    <3>1. PICK x \in Nat : Awaits(v, w, x)
      BY <2>1 DEF Session
    <3>2. x = v.b
      BY <1>1, <3>1 DEF Awaits
    <3>3. QED BY <1>1, <1>3, <3>1, <3>2 DEF Awaits
  <2>2. CASE ~Precedes(s, {"SABM"}, Numbers)
    <3>1. Mute(s, K)
      BY <1>5, <2>2, MuteSections
    <3>2. QED BY <1>5, <3>1, MuteFits
  <2>3. QED BY <2>1, <2>2
<1>8. /\ Runs(out, 1 .. Len(out), Chunks(S, b + hi - 1, b, 0), Rising)
      /\ Ends(Chunks(S, b + h - 1, b, 0), out, Rising)
  <2>1. h <= 0 + Window /\ 0 <= 0 /\ 0 <= 0 + Window /\ 0 \in Nat
    BY <1>4, WindowAssumption
  <2> HIDE DEF S
  <2>2. QED BY ONLY <1>4, <1>5, <2>1, SaysChunks, b \in Nat, hi \in Nat, h \in Nat
<1>9. Chunks(S, b + h - 1, b, 0) \subseteq Chunks(S, b + hi - 1, b, 0)
  <2>1. b + h - 1 \in Int /\ b + hi - 1 \in Int /\ b + h - 1 <= b + hi - 1
    BY <1>4
  <2>2. QED BY <2>1, ChunksTop
<1>10. Runs(w2.in, L, Chunks(S, b + hi - 1, b, 0), Rising)
  <2> DEFINE X == Chunks(S, b + h - 1, b, 0)
             X2 == Chunks(S, b + hi - 1, b, 0)
  <2>1. Runs(s, K, X, Rising) /\ Runs(out, 1 .. Len(out), X2, Rising)
        /\ Ends(X, out, Rising) /\ X \subseteq X2
    BY <1>7, <1>8, <1>9
  <2> HIDE DEF X, X2, K, L, s
  <2>2. Runs(s \o out, L, X2, Rising)
    BY <1>5, <1>6, <2>1, RunsCat
  <2>3. QED BY <1>5, <2>2 DEF X2
<1>11. /\ Runs(out, 1 .. Len(out), Z, Ordered(0)) /\ Ends(Z, out, Ordered(0))
  <2>1. 0 \in Nat /\ 0 <= 0 /\ 0 <= 0 + Window /\ 0 .. 0 + 0 - 1 \subseteq {}
    BY WindowAssumption
  <2>2. QED BY <1>5, <2>1, SaysAnswers
<1>12. Runs(w2.in, L, Z, Ordered(0))
  <2> DEFINE Y == Ordered(0)
  <2>1. Runs(s, K, Z, Y) /\ Runs(out, 1 .. Len(out), Z, Y) /\ Ends(Z, out, Y)
        /\ Z \subseteq Z
    BY <1>7, <1>11
  <2> HIDE DEF Z, Y, K, L, s
  <2>2. Runs(s \o out, L, Z, Y)
    BY <1>5, <1>6, <2>1, RunsCat
  <2>3. QED BY <1>5, <2>2 DEF Y
<1>13. QED BY <1>3, <1>4, <1>10, <1>12 DEF Awaits

\* The speaker's half of the session holds with its frames on their way.
LEMMA SpeakSession ==
    ASSUME NEW v, NEW w, Voice(v), Voice(w), Session(w, v), Session(v, w), Control(v, w),
           NEW v2, Talks(v, w, v2), Session(w, v2),
           NEW w2, NEW out, Speaks(v, v2, w, w2, out)
    PROVE  Session(v2, w2)
<1>1. v.b \in Nat /\ w.in \in Seq(Frame) /\ Voice(v2) /\ On(v)
  BY TalkTypes, VoiceTypes
<1>2. Unmoved(w, w2) /\ w2.in = w.in \o out /\ out \in Seq(Frame)
  BY DEF Speaks
<1>3. /\ ~Any(out, {"UA"}) /\ w2.in \in Seq(Frame)
      /\ Precedes(w2.in, {"SABM"}, Numbers) => Any(w.in, {"SABM"})
      /\ On(w2) <=> On(w)
      /\ Any(w2.in, {"UA"}) <=> Any(w.in, {"UA"})
  BY <1>1, SpeakAtoms, SomeBoth
<1>4. ASSUME Up(w2) \/ Calling(w2)
      PROVE  /\ \E b \in Nat : Hears(v2, w2, b)
             /\ Runs(w2.in, Live(w2), Answers(w2.lo, MostTaken(v2, w2), w2.b, v2.seen),
                     Ordered(w2.lo))
  <2>1. CASE Joined(v, w)
    BY <1>1, <2>1, SpeakJoined
  <2>2. CASE ~Joined(v, w)
    <3>1. ~On(w) /\ ~On(w2)
      BY <1>1, <1>3, <2>2, TalkTypes DEF Joined
    <3>2. ~Up(w2) /\ Calling(w2) /\ ~Any(w2.in, {"UA"}) /\ ~Joined(v2, w2)
      BY <1>4, <3>1 DEF On, Joined
    <3>3. Live(w2) = {}
      BY <1>1, <1>2, <1>3, <3>2, SectionsCat DEF Live
    <3>4. Voice(w2) /\ w2.got = <<>>
      BY <1>2, <1>3, <3>2, VoiceKept, VoiceTypes
    <3>5. Mute(w2.in, Live(w2))
      BY <3>3 DEF Mute
    <3>6. QED BY <1>1, <3>2, <3>4, <3>5, HearsNothing
  <2>3. QED BY <2>1, <2>2
<1>5. Precedes(w2.in, {"SABM"}, Numbers) => \E b \in Nat : Awaits(v2, w2, b)
  BY <1>1, <1>3, SpeakAwaited
<1>6. QED BY <1>4, <1>5 DEF Session

\* What reading a frame leaves on its way.
LEMMA TalkAtoms ==
    ASSUME NEW v, NEW w, v.in \in Seq(Frame), NEW v2, Talks(v, w, v2)
    PROVE  /\ Up(v) /\ Up(v2) /\ v2.called = v.called /\ v2.in \in Seq(Frame)
           /\ \A K : Any(v2.in, K) => Any(v.in, K)
           /\ \A K, L : Precedes(v2.in, K, L) => Precedes(v.in, K, L)
           /\ Any(v.in, {"SABM"}) => Any(v2.in, {"SABM"})
           /\ ~Any(v.in, Numbers) => (Virgin(v) => Virgin(v2))
<1>1. Up(v) /\ Up(v2) /\ v2.called = v.called
  BY DEF Talks, Grows
<1>2. CASE Silence(v, v2)
  BY <1>1, <1>2 DEF Silence, Virgin
<1>3. CASE Reads(v, w, v2)
  <2>1. v.in # <<>> /\ v2.in = Tail(v.in) /\ Head(v.in).type \in Numbers
        /\ ~(Head(v.in).type \in {"SABM"})
    BY <1>3 DEF Reads, Numbered, Numbers
  <2>2. \A K, L :
           /\ Any(v.in, K) <=> Head(v.in).type \in K \/ Any(Tail(v.in), K)
           /\ Precedes(v.in, K, L) <=> \/ Head(v.in).type \in K /\ Any(Tail(v.in), L)
                                       \/ Precedes(Tail(v.in), K, L)
    BY <2>1, SomeTail
  <2>3. Tail(v.in) \in Seq(Frame)
    BY <2>1, HeadTailProperties
  <2>4. Any(v.in, Numbers)
    BY <2>1, <2>2
  <2>5. /\ \A K : Any(v2.in, K) => Any(v.in, K)
        /\ \A K, L : Precedes(v2.in, K, L) => Precedes(v.in, K, L)
    BY <2>1, <2>2
  <2>6. Any(v.in, {"SABM"}) => Any(v2.in, {"SABM"})
    BY <2>1, <2>2
  <2>7. QED BY <1>1, <2>1, <2>3, <2>4, <2>5, <2>6
<1>4. QED BY <1>2, <1>3 DEF Talks

\* Talking confuses neither end about the other's state.
LEMMA TalkControl ==
    ASSUME NEW v, NEW w, Control(v, w), Control(w, v), v.in \in Seq(Frame),
           w.in \in Seq(Frame), NEW v2, Talks(v, w, v2),
           NEW w2, NEW out, Speaks(v, v2, w, w2, out)
    PROVE  Control(v2, w2) /\ Control(w2, v2)
<1>1. /\ Up(v) /\ Up(v2) /\ (v2.called <=> v.called)
      /\ Any(v2.in, {"SABM"}) <=> Any(v.in, {"SABM"})
      /\ Any(v2.in, {"UA"}) => Any(v.in, {"UA"})
      /\ Any(v2.in, Numbers) => Any(v.in, Numbers)
      /\ Precedes(v2.in, {"SABM"}, {"SABM"}) => Precedes(v.in, {"SABM"}, {"SABM"})
      /\ Precedes(v2.in, {"SABM"}, Numbers) => Precedes(v.in, {"SABM"}, Numbers)
      /\ Precedes(v2.in, {"UA"}, Numbers) => Precedes(v.in, {"UA"}, Numbers)
      /\ Precedes(v2.in, {"UA"}, {"SABM"}) => Precedes(v.in, {"UA"}, {"SABM"})
      /\ Precedes(v2.in, FrameType, {"SABM"}) => Precedes(v.in, FrameType, {"SABM"})
      /\ ~Any(v.in, Numbers) => (Virgin(v) => Virgin(v2))
  BY TalkAtoms
<1>2. /\ Any(w2.in, {"UA"}) <=> Any(w.in, {"UA"})
      /\ Any(w2.in, {"SABM"}) <=> Any(w.in, {"SABM"})
      /\ Precedes(w2.in, {"SABM"}, {"SABM"}) => Precedes(w.in, {"SABM"}, {"SABM"})
      /\ Precedes(w2.in, {"UA"}, {"SABM"}) => Precedes(w.in, {"UA"}, {"SABM"})
      /\ Precedes(w2.in, FrameType, {"SABM"}) => Precedes(w.in, FrameType, {"SABM"})
      /\ Precedes(w2.in, {"SABM"}, Numbers) => Any(w.in, {"SABM"})
  BY SpeakAtoms, SomeBoth
<1>3. /\ Up(w2) <=> Up(w)
      /\ Calling(w2) <=> Calling(w)
      /\ Shut(w2) <=> Shut(w)
      /\ w2.called <=> w.called
  BY UnmovedSame DEF Speaks
<1>4. ~Calling(v) /\ ~Shut(v) /\ ~Calling(v2) /\ ~Shut(v2)
  BY <1>1 DEF Up, Calling, Shut
<1>5. Control(v2, w2)
  BY <1>1, <1>2, <1>3, <1>4 DEF Control
<1>6. Control(w2, v2)
  BY <1>1, <1>2, <1>3, <1>4 DEF Control
<1>7. QED BY <1>5, <1>6

\* A connected station reads, and says what its numbers allow.
LEMMA TalkGood ==
    ASSUME NEW v, NEW w, Good(v, w), NEW v2, Talks(v, w, v2),
           NEW w2, NEW out, Speaks(v, v2, w, w2, out)
    PROVE  Good(v2, w2)
<1>1. /\ Voice(v) /\ Control(v, w) /\ Session(w, v)
      /\ Voice(w) /\ Control(w, v) /\ Session(v, w)
  BY DEF Good, Half
<1>2. v.in \in Seq(Frame) /\ w.in \in Seq(Frame)
  BY <1>1, VoiceTypes
<1>3. Control(v2, w2) /\ Control(w2, v2)
  BY <1>1, <1>2, TalkControl
<1>4. Voice(v2)
  BY <1>1, TalksVoice
<1>5. Unmoved(w, w2) /\ (On(w2) <=> On(w)) /\ w2.in \in Seq(Frame)
  BY <1>2, SpeakAtoms DEF Speaks
<1>6. Voice(w2)
  BY <1>1, <1>5, VoiceKept
<1>7. ~Precedes(v.in, {"SABM"}, Numbers)
  BY <1>1, TalkTypes DEF Control
<1>8. Unmoved(w, w)
  BY DEF Unmoved, Stays
<1>9. Session(w, v2)
  BY <1>1, <1>7, <1>8, HearSession
<1>10. Session(w2, v2)
  BY <1>1, <1>5, <1>7, HearSession
<1>11. Session(v2, w2)
  BY <1>1, <1>9, SpeakSession
<1>12. QED BY <1>3, <1>4, <1>6, <1>10, <1>11 DEF Good, Half

-----------------------------------------------------------------------------
(* The steps of the link, seen as steps of views                           *)

\* The inductive invariant of the link: types, each record in step with its
\* session, and both halves of the link between the two views.
LinkInv ==
    Typed /\ \A p \in Station : Speaker(p) /\ Half(View(p), View(Peer(p)))

\* No on_data in a call, no chunk told ...
LEMMA ToldNothing ==
    ASSUME NEW c, NoneTold(c)
    PROVE  Told(c) = {} /\ DataTold(c) = <<>>
BY DEF NoneTold, Told, DataTold

\* ... and one on_data, one chunk.
LEMMA ToldChunk ==
    ASSUME NEW c, NEW x, c.up = <<[on |-> "data", data |-> x]>>
    PROVE  DataTold(c) = <<x>>
<1>1. Told(c) = {1}
  BY DEF Told
<1>2. (CHOOSE i \in Told(c) : TRUE) = 1
  BY <1>1
<1>3. QED BY <1>1, <1>2 DEF DataTold

\* Both ends.
LEMMA LinkEnds ==
    ASSUME LinkInv, NEW p \in Station
    PROVE  LET q == Peer(p)
           IN /\ q \in Station /\ q # p
              /\ Good(View(p), View(q)) /\ Speaker(p) /\ Speaker(q)
              /\ TypeOK /\ Typed /\ Sound(conn[p])
              /\ conn[p].out = <<>> /\ conn[p].up = <<>>
<1>1. Peer(p) \in Station /\ Peer(p) # p /\ Peer(Peer(p)) = p
  BY TwoStations
<1>2. /\ Speaker(p) /\ Half(View(p), View(Peer(p)))
      /\ Speaker(Peer(p)) /\ Half(View(Peer(p)), View(p)) /\ Typed
  BY <1>1 DEF LinkInv
<1>3. QED BY <1>1, <1>2 DEF Good, Typed, Speaker

\* The peer of a station that moves only finds more on its way.
LEMMA PeerView ==
    ASSUME TypeOK, NEW p \in Station, NEW c, NEW inbox, NEW fresh, NEW n,
           Becomes(p, c, inbox, fresh, n), calls'[Peer(p)] = calls[Peer(p)]
    PROVE  LET q == Peer(p)
           IN /\ Unmoved(View(q), View(q)')
              /\ View(q)'.in = View(q).in \o c.out
              /\ Speaker(q) => Speaker(q)'
              /\ c.out = <<>> => View(q)' = View(q)
<1> DEFINE q == Peer(p)
<1>1. /\ conn'[q] = conn[q] /\ chan'[q] = chan[q] \o c.out /\ count'[q] = count[q]
      /\ starts'[q] = starts[q] /\ got'[q] = got[q] /\ seen'[q] = seen[q]
      /\ calls'[q] = calls[q]
  BY BecomesFacts DEF Rests
<1>2. chan[q] \in Seq(Frame)
  BY TwoStations DEF TypeOK
<1>3. Base(q)' = Base(q) /\ Lo(q)' = Lo(q)
  BY <1>1 DEF Base, Lo
<1>4. View(q)' = [state |-> conn[q].state, b |-> Base(q),
                   lo |-> Lo(q), hi |-> Lo(q) + Len(conn[q].unacked),
                   n |-> count[q], starts |-> starts[q], got |-> got[q],
                   seen |-> seen[q], in |-> chan[q] \o c.out, called |-> calls[q] > 0]
  BY <1>1, <1>3 DEF View
<1>5. View(q).in = chan[q]
  BY DEF View
<1>6. c.out = <<>> => chan[q] \o c.out = chan[q]
  BY <1>2
<1>7. Speaker(q) => Speaker(q)'
  BY <1>1, <1>3 DEF Speaker
<1>8. Unmoved(View(q), View(q)') /\ View(q)'.in = View(q).in \o c.out
  BY <1>4, <1>5 DEF Unmoved, Stays, View
<1>9. c.out = <<>> => View(q)' = View(q)
  BY <1>4, <1>5, <1>6 DEF View
<1>10. QED BY <1>7, <1>8, <1>9

\* The station itself.
LEMMA SelfView ==
    ASSUME TypeOK, NEW p \in Station, NEW c, NEW inbox, NEW fresh, NEW n,
           Becomes(p, c, inbox, fresh, n), starts[p] \subseteq 1 .. count[p] + 1
    PROVE  LET v == View(p)
               v2 == View(p)'
           IN /\ v2.state = c.state /\ v2.n = v.n + n /\ v2.in = inbox
              /\ v2.called <=> calls'[p] > 0
              /\ v2.starts = IF fresh THEN v.starts \cup {v.n + 1} ELSE v.starts
              /\ v2.b = IF fresh THEN v.n + 1 ELSE v.b
              /\ v2.got = (IF fresh THEN <<>> ELSE v.got) \o DataTold(c)
              /\ v2.seen = v.seen \cup ToldSet(c)
              /\ c.state # "DISCONNECTED" =>
                    /\ v2.lo = v2.n + 1 - v2.b - Len(c.unacked) - Len(c.sendBuf)
                    /\ v2.hi = v2.lo + Len(c.unacked)
<1> DEFINE v == View(p)
           v2 == View(p)'
<1>1. /\ conn'[p] = Reaped(c) /\ chan'[p] = inbox /\ count'[p] = count[p] + n
      /\ starts'[p] = IF fresh THEN starts[p] \cup {count[p] + 1} ELSE starts[p]
      /\ got'[p] = (IF fresh THEN <<>> ELSE got[p]) \o DataTold(c)
      /\ seen'[p] = seen[p] \cup ToldSet(c)
  <2>1. Moves(p, c, inbox, fresh, n)
    BY BecomesFacts
  <2>2. QED BY <2>1 DEF Moves
<1>2. Reaped(c).state = c.state
  BY DEF Reaped, NewConnection, Enter
<1>3. c.state # "DISCONNECTED" =>
         Reaped(c).unacked = c.unacked /\ Reaped(c).sendBuf = c.sendBuf
  BY DEF Reaped, Enter
<1>4. Base(p)' = IF fresh THEN count[p] + 1 ELSE Base(p)
  <2>1. CASE fresh
    <3> DEFINE T == starts'[p] \cup {0}
    <3>1. count[p] \in Nat /\ starts'[p] = starts[p] \cup {count[p] + 1}
      BY <1>1, <2>1 DEF TypeOK
    <3>2. count[p] + 1 \in T /\ \A y \in T : y <= count[p] + 1 /\ y \in Int
      BY <3>1
    <3>3. \A x \in T : (\A y \in T : y <= x) => x = count[p] + 1
      BY <3>2
    <3>4. Base(p)' = CHOOSE x \in T : \A y \in T : y <= x
      BY DEF Base
    <3> HIDE DEF T
    <3>5. QED BY <2>1, <3>2, <3>3, <3>4
  <2>2. CASE ~fresh
    BY <1>1, <2>2 DEF Base
  <2>3. QED BY <2>1, <2>2
<1>5. /\ v.n = count[p] /\ v.starts = starts[p] /\ v.b = Base(p) /\ v.got = got[p]
      /\ v.seen = seen[p]
  BY DEF View
<1>6. /\ v2.state = conn'[p].state /\ v2.n = count'[p] /\ v2.starts = starts'[p]
      /\ v2.b = Base(p)' /\ v2.got = got'[p] /\ v2.seen = seen'[p] /\ v2.in = chan'[p]
      /\ v2.called <=> calls'[p] > 0
  BY DEF View
<1>7. /\ v2.lo = Lo(p)' /\ v2.hi = Lo(p)' + Len(conn'[p].unacked)
      /\ Lo(p)' = count'[p] + 1 - Base(p)' - Len(conn'[p].unacked) - Len(conn'[p].sendBuf)
  BY DEF View, Lo
<1>8. c.state # "DISCONNECTED" =>
         /\ v2.lo = v2.n + 1 - v2.b - Len(c.unacked) - Len(c.sendBuf)
         /\ v2.hi = v2.lo + Len(c.unacked)
  BY <1>1, <1>3, <1>6, <1>7
<1>9. QED BY <1>1, <1>2, <1>4, <1>5, <1>6, <1>8

\* What a step of a station does for its application: it begins a session,
\* changes nothing, or talks (and perhaps ends the session with that).
Begins(v, v2) ==
    Renewed(v, v2) /\ (Up(v) => v.in # <<>> /\ Head(v.in).type = "SABM")
Idles(v, v2) ==
    /\ v2.n = v.n /\ v2.starts = v.starts /\ v2.got = v.got
    /\ Up(v2) => v2.b = v.b /\ v2.lo = v.lo
Continued(u, v2) ==
    /\ v2.n = u.n /\ v2.starts = u.starts /\ v2.got = u.got
    /\ Up(v2) => v2.b = u.b /\ v2.lo = u.lo
Advances(v, w, v2) ==
    Begins(v, v2) \/ Idles(v, v2) \/ \E u : Talks(v, w, u) /\ Continued(u, v2)

\* What a step of p must keep, and how it goes on.
Sustains(p) ==
    /\ Speaker(p)' /\ Good(View(p)', View(Peer(p))')
    /\ Advances(View(p), View(Peer(p)), View(p)')

\* p's record after the call is in step with the session.
LEMMA SpeakerNext ==
    ASSUME TypeOK, NEW p \in Station, NEW c, NEW inbox, NEW fresh, NEW n,
           Becomes(p, c, inbox, fresh, n),
           NEW b, NEW lo, b = View(p)'.b, lo = View(p)'.lo,
           c.state = "CONNECTED" =>
               /\ InStep(c, b, lo, View(p)'.n + 1 - b)
               /\ c.vr = Len(View(p)'.got) % Modulus,
           c.state = "CONNECTING" => c.unacked = <<>> /\ c.sendBuf = <<>>
    PROVE  Speaker(p)'
<1>1. Moves(p, c, inbox, fresh, n)
  BY BecomesFacts
<1>2. conn'[p] = Reaped(c)
  BY <1>1 DEF Moves
<1>3. b = Base(p)' /\ lo = Lo(p)' /\ View(p)'.n = count'[p] /\ View(p)'.got = got'[p]
  BY DEF View
<1>4. Reaped(c).state = c.state /\ Reaped(c).out = <<>> /\ Reaped(c).up = <<>>
      /\ (c.state = "DISCONNECTED" => Reaped(c) = NewConnection)
  BY DEF Reaped, NewConnection, Enter
<1>5. c.state # "DISCONNECTED" =>
         /\ Reaped(c).unacked = c.unacked /\ Reaped(c).sendBuf = c.sendBuf
         /\ Reaped(c).va = c.va /\ Reaped(c).vs = c.vs /\ Reaped(c).vr = c.vr
  BY DEF Reaped, Enter
<1>6. c.state = "CONNECTED" =>
         /\ InStep(Reaped(c), Base(p)', Lo(p)', count'[p] + 1 - Base(p)')
         /\ Reaped(c).vr = Len(got'[p]) % Modulus
  <2>1. ASSUME c.state = "CONNECTED"
        PROVE  InStep(Reaped(c), Base(p)', Lo(p)', count'[p] + 1 - Base(p)')
    BY <1>3, <1>5, <2>1 DEF InStep
  <2>2. QED BY <1>3, <1>5, <2>1
<1>7. QED BY <1>2, <1>4, <1>5, <1>6 DEF Speaker

\* p moves and its peer only finds more on its way.
Steps(p) ==
    /\ Advances(View(p), View(Peer(p)), View(p)')
    /\ Unmoved(View(Peer(p)), View(Peer(p))')

\* A step that sustains the mover's side sustains the link.
LEMMA Rejoin ==
    ASSUME LinkInv, NEW p \in Station, NEW c, NEW inbox, NEW fresh, NEW n,
           Becomes(p, c, inbox, fresh, n), calls'[Peer(p)] = calls[Peer(p)],
           Typed', Sustains(p)
    PROVE  LinkInv' /\ Steps(p)
<1> DEFINE q == Peer(p)
<1>1. q \in Station /\ Peer(q) = p /\ \A x \in Station : x # p => x = q
  BY TwoStations
<1>2. Speaker(q) /\ TypeOK
  BY <1>1 DEF LinkInv, Typed
<1>3. Speaker(q)'
  BY <1>2, PeerView
<1>4. /\ Speaker(p)' /\ Half(View(p)', View(q)') /\ Half(View(q)', View(p)')
  BY DEF Sustains, Good
<1>5. \A x \in Station : Speaker(x)' /\ Half(View(x), View(Peer(x)))'
  <2> TAKE x \in Station
  <2>1. CASE x = p
    BY <1>4, <2>1
  <2>2. CASE x = q
    BY <1>1, <1>3, <1>4, <2>2
  <2>3. QED BY <1>1, <2>1, <2>2
<1>6. Steps(p)
  BY <1>2, PeerView DEF Sustains, Steps
<1>7. QED BY <1>5, <1>6 DEF LinkInv

\* The station's own view once more, for a call that starts no session.
Goes(v, v2, c, inbox, n) ==
    /\ v2.state = c.state /\ v2.n = v.n + n /\ v2.in = inbox
    /\ v2.called <=> v.called
    /\ v2.starts = v.starts /\ v2.b = v.b
    /\ v2.got = v.got \o DataTold(c) /\ v2.seen = v.seen \cup ToldSet(c)
    /\ c.state # "DISCONNECTED" =>
          /\ v2.lo = v2.n + 1 - v2.b - Len(c.unacked) - Len(c.sendBuf)
          /\ v2.hi = v2.lo + Len(c.unacked)

\* Those who move, and those who rest, when calls stay the same.
LEMMA StepViews ==
    ASSUME LinkInv, NEW p \in Station, NEW c, NEW inbox, NEW fresh, NEW n,
           Becomes(p, c, inbox, fresh, n), calls' = calls
    PROVE  LET q == Peer(p)
           IN /\ ~fresh => Goes(View(p), View(p)', c, inbox, n)
              /\ Unmoved(View(q), View(q)') /\ View(q)'.in = View(q).in \o c.out
              /\ c.out = <<>> => View(q)' = View(q)
<1>1. TypeOK /\ Voice(View(p))
  BY LinkEnds DEF Good, Half
<1>2. starts[p] \subseteq 1 .. count[p] + 1
  <2>1. View(p).starts = starts[p] /\ View(p).n = count[p]
    BY DEF View
  <2>2. QED BY <1>1, <2>1 DEF Voice
<1>3. (calls'[p] > 0) = (calls[p] > 0) /\ (View(p).called <=> calls[p] > 0)
  BY DEF View
<1>4. ~fresh => Goes(View(p), View(p)', c, inbox, n)
  <2>1. LET v == View(p)
               v2 == View(p)'
           IN /\ v2.state = c.state /\ v2.n = v.n + n /\ v2.in = inbox
              /\ v2.called <=> calls'[p] > 0
              /\ v2.starts = IF fresh THEN v.starts \cup {v.n + 1} ELSE v.starts
              /\ v2.b = IF fresh THEN v.n + 1 ELSE v.b
              /\ v2.got = (IF fresh THEN <<>> ELSE v.got) \o DataTold(c)
              /\ v2.seen = v.seen \cup ToldSet(c)
              /\ c.state # "DISCONNECTED" =>
                    /\ v2.lo = v2.n + 1 - v2.b - Len(c.unacked) - Len(c.sendBuf)
                    /\ v2.hi = v2.lo + Len(c.unacked)
    BY <1>1, <1>2, SelfView
  <2>2. QED BY <1>3, <2>1 DEF Goes
<1>5. calls'[Peer(p)] = calls[Peer(p)]
  OBVIOUS
<1>6. QED BY <1>1, <1>4, <1>5, PeerView

-----------------------------------------------------------------------------
(* Steps that end something, and steps that change nothing                 *)

\* v without the first frame on its way.
Tailed(v) ==
    [state |-> v.state, b |-> v.b, lo |-> v.lo, hi |-> v.hi, n |-> v.n,
     starts |-> v.starts, got |-> v.got, seen |-> v.seen, in |-> Tail(v.in),
     called |-> v.called]

Quits(v, v2) ==
    /\ ~Up(v2) /\ ~Calling(v2) /\ (Shut(v) => Shut(v2))
    /\ v2.in = v.in \/ (v.in # <<>> /\ v2.in = Tail(v.in))
    /\ v2.got = v.got /\ v2.b = v.b /\ v2.n = v.n
    /\ v2.starts = v.starts /\ v2.seen = v.seen /\ (v2.called <=> v.called)

\* A station that closes, or is about to, keeps the link good.
LEMMA QuitGood ==
    ASSUME NEW v, NEW w, Good(v, w), NEW v2, Quits(v, v2),
           v.called \in BOOLEAN, v2.called \in BOOLEAN
    PROVE  Good(v2, w)
<1>1. v2.called = v.called
  BY DEF Quits
<1>2. CASE v2.in = v.in
  <2>1. Left(v, v2)
    BY <1>1, <1>2 DEF Left, Quits
  <2>2. QED BY <2>1, LeaveGood
<1>3. CASE v.in # <<>> /\ v2.in = Tail(v.in)
  <2> DEFINE u == Tailed(v)
  <2>1. Unmoved(v, u) /\ u.in = Tail(v.in)
    BY DEF Tailed, Unmoved, Stays
  <2>2. Left(u, v2)
    BY <1>1, <1>3 DEF Left, Quits, Tailed, Shut
  <2> HIDE DEF u
  <2>3. Good(u, w)
    BY <1>3, <2>1, DropGood
  <2>4. QED BY <2>2, <2>3, LeaveGood
<1>4. QED BY <1>2, <1>3 DEF Quits

\* The frames of a step: none, or one that says nothing about the session.
Utters(out, K) == out = <<>> \/ \E f \in Frame : f.type \in K /\ out = <<f>>

Takes(p, inbox) ==
    inbox = chan[p] \/ (chan[p] # <<>> /\ inbox = Tail(chan[p]))

\* Whether connect was called is a truth value.
LEMMA ViewFlag ==
    \A p : View(p).called \in BOOLEAN /\ View(p)'.called \in BOOLEAN
BY DEF View

\* A connection that is closed or about to be, or was closed already.
LEMMA EndStep ==
    ASSUME LinkInv, NEW p \in Station, NEW c, NEW inbox,
           Becomes(p, c, inbox, FALSE, 0), calls' = calls, Takes(p, inbox),
           c.state \in {"DISCONNECTED", "DISCONNECTING"},
           conn[p].state = "DISCONNECTED" => c.state = "DISCONNECTED",
           NoneTold(c), Utters(c.out, {"DISC", "DM"})
    PROVE  Sustains(p)
<1> DEFINE q == Peer(p)
           v == View(p)
           w == View(q)
           v2 == View(p)'
           w2 == View(q)'
<1>1. Good(v, w) /\ TypeOK
  BY LinkEnds
<1>2. Goes(v, v2, c, inbox, 0) /\ Unmoved(w, w2) /\ w2.in = w.in \o c.out
      /\ (c.out = <<>> => w2 = w)
  BY StepViews
<1>3. DataTold(c) = <<>> /\ ToldSet(c) = {}
  BY ToldNothing DEF ToldSet
<1>4. v.in = chan[p] /\ v.state = conn[p].state /\ v.called \in BOOLEAN
      /\ v2.called \in BOOLEAN
  BY DEF View
<1>5. Quits(v, v2)
  <2>1. v.got \in Seq(Data) /\ v.n \in Nat
    BY <1>1, VoiceTypes DEF Good, Half
  <2>2. v2.got = v.got /\ v2.n = v.n /\ v2.seen = v.seen
    BY <1>2, <1>3, <2>1 DEF Goes
  <2>3. ~Up(v2) /\ ~Calling(v2) /\ (Shut(v) => Shut(v2))
    BY <1>2, <1>4 DEF Goes, Up, Calling, Shut
  <2>4. v2.in = v.in \/ (v.in # <<>> /\ v2.in = Tail(v.in))
    BY <1>2, <1>4 DEF Goes, Takes
  <2>5. QED BY <1>2, <2>2, <2>3, <2>4 DEF Quits, Goes
<1>6. Speaker(p)'
  <2>1. c.state # "CONNECTED" /\ c.state # "CONNECTING"
    OBVIOUS
  <2>2. QED BY <1>1, <2>1, SpeakerNext
<1> HIDE DEF v, w, v2, w2
<1>7. Good(v2, w)
  BY <1>1, <1>4, <1>5, QuitGood
<1>8. Good(v2, w2)
  <2>1. CASE c.out = <<>>
    BY <1>2, <1>7, <2>1
  <2>2. ASSUME NEW f \in Frame, f.type \in {"DISC", "DM"}, c.out = <<f>> PROVE Good(v2, w2)
    <3>1. Sent(w, w2, f) /\ f.type \in {"DISC", "DM", "OTHER"}
      BY <1>2, <2>2 DEF Sent
    <3>2. QED BY <1>7, <3>1, SentGood
  <2>3. QED BY <2>1, <2>2 DEF Utters
<1>9. Advances(v, w, v2)
  BY <1>5 DEF Quits, Idles, Advances
<1>10. QED BY <1>6, <1>8, <1>9 DEF Sustains, v, w, v2, w2

\* A hang-up of the peer is answered with UA.
LEMMA BowStep ==
    ASSUME LinkInv, NEW p \in Station, NEW c, chan[p] # <<>>,
           Becomes(p, c, Tail(chan[p]), FALSE, 0), calls' = calls,
           conn[p].state = "CONNECTED", Head(chan[p]).type = "DISC",
           c.state = "DISCONNECTED", NoneTold(c), Utters(c.out, {"UA"})
    PROVE  Sustains(p)
<1> DEFINE q == Peer(p)
           v == View(p)
           w == View(q)
           v2 == View(p)'
           w2 == View(q)'
<1>1. Good(v, w) /\ TypeOK
  BY LinkEnds
<1>2. Goes(v, v2, c, Tail(chan[p]), 0) /\ Unmoved(w, w2) /\ w2.in = w.in \o c.out
      /\ (c.out = <<>> => w2 = w)
  BY StepViews
<1>3. DataTold(c) = <<>> /\ ToldSet(c) = {}
  BY ToldNothing DEF ToldSet
<1>4. v.in = chan[p] /\ v.state = conn[p].state /\ v.called \in BOOLEAN
      /\ v2.called \in BOOLEAN
  BY DEF View
<1>5. Quits(v, v2) /\ Up(v) /\ Shut(v2) /\ v2.in = Tail(v.in)
  <2>1. v.got \in Seq(Data) /\ v.n \in Nat
    BY <1>1, VoiceTypes DEF Good, Half
  <2>2. v2.got = v.got /\ v2.n = v.n /\ v2.seen = v.seen
    BY <1>2, <1>3, <2>1 DEF Goes
  <2>3. ~Up(v2) /\ ~Calling(v2) /\ Shut(v2) /\ Up(v)
    BY <1>2, <1>4 DEF Goes, Up, Calling, Shut
  <2>4. v.in # <<>> /\ v2.in = Tail(v.in)
    BY <1>2, <1>4 DEF Goes
  <2>5. QED BY <1>2, <2>2, <2>3, <2>4 DEF Quits, Goes
<1>6. Speaker(p)'
  <2>1. c.state # "CONNECTED" /\ c.state # "CONNECTING"
    OBVIOUS
  <2>2. QED BY <1>1, <2>1, SpeakerNext
<1>7. v.in \in Seq(Frame) /\ v.in # <<>> /\ Head(v.in).type \in FrameType
  <2>1. v.in \in Seq(Frame)
    BY <1>1, VoiceTypes DEF Good, Half
  <2>2. QED BY <1>4, <2>1 DEF FrameType
<1> HIDE DEF v, w, v2, w2
<1>8. ~w.called \/ Any(v2.in, {"SABM"}) => v2.called
  <2>1. Control(w, v)
    BY <1>1 DEF Good, Half
  <2>2. ~w.called => v.called
    BY <1>5, <2>1 DEF Control
  <2>3. Any(v2.in, {"SABM"}) => Precedes(v.in, FrameType, {"SABM"})
    BY <1>5, <1>7, SomeTail
  <2>4. Any(v2.in, {"SABM"}) => v.called
    BY <1>5, <2>1, <2>3 DEF Control
  <2>5. QED BY <1>5, <2>2, <2>4 DEF Quits
<1>9. Good(v2, w)
  BY <1>1, <1>4, <1>5, QuitGood
<1>10. Good(v2, w2)
  <2>1. CASE c.out = <<>>
    BY <1>2, <1>9, <2>1
  <2>2. ASSUME NEW f \in Frame, f.type \in {"UA"}, c.out = <<f>> PROVE Good(v2, w2)
    <3>1. Sent(w, w2, f) /\ f.type = "UA"
      BY <1>2, <2>2 DEF Sent
    <3>2. QED BY <1>5, <1>8, <1>9, <3>1, SentGood
  <2>3. QED BY <2>1, <2>2 DEF Utters
<1>11. Advances(v, w, v2)
  BY <1>5 DEF Quits, Idles, Advances
<1>12. QED BY <1>6, <1>10, <1>11 DEF Sustains, v, w, v2, w2

\* The session and its queues stay as they are.
Alike(c, d) ==
    /\ d.state = c.state /\ d.unacked = c.unacked /\ d.sendBuf = c.sendBuf
    /\ d.state = "CONNECTED" => d.va = c.va /\ d.vs = c.vs /\ d.vr = c.vr

\* A call that leaves the session alone, seen from both ends.
LEMMA KeptView ==
    ASSUME LinkInv, NEW p \in Station, NEW c, NEW inbox,
           Becomes(p, c, inbox, FALSE, 0), calls' = calls,
           Alike(conn[p], c), c.state # "DISCONNECTED", NoneTold(c)
    PROVE  LET q == Peer(p)
           IN /\ Good(View(p), View(q))
              /\ Unmoved(View(p), View(p)') /\ View(p)'.in = inbox
              /\ View(p).in = chan[p] /\ View(p).state = conn[p].state
              /\ View(q).in = chan[q]
              /\ Unmoved(View(q), View(q)') /\ View(q)'.in = View(q).in \o c.out
              /\ c.out = <<>> => View(q)' = View(q)
              /\ Speaker(p)'
<1> DEFINE q == Peer(p)
           v == View(p)
           w == View(q)
           v2 == View(p)'
<1>1. Good(v, w) /\ TypeOK /\ Speaker(p)
  BY LinkEnds
<1>2. Goes(v, v2, c, inbox, 0) /\ Unmoved(w, View(q)') /\ View(q)'.in = w.in \o c.out
      /\ (c.out = <<>> => View(q)' = w)
  BY StepViews
<1>3. DataTold(c) = <<>> /\ ToldSet(c) = {}
  BY ToldNothing DEF ToldSet
<1>4. /\ v.in = chan[p] /\ v.state = conn[p].state /\ w.in = chan[q]
      /\ v.called \in BOOLEAN /\ v2.called \in BOOLEAN
      /\ v.lo = v.n + 1 - v.b - Len(conn[p].unacked) - Len(conn[p].sendBuf)
      /\ v.hi = v.lo + Len(conn[p].unacked)
      /\ v.n = count[p] /\ v.b = Base(p) /\ v.got = got[p] /\ v.lo = Lo(p)
  BY DEF View, Lo
<1>5. v.got \in Seq(Data) /\ v.n \in Nat
  BY <1>1, VoiceTypes DEF Good, Half
<1>6. v2.got = v.got /\ v2.n = v.n /\ v2.seen = v.seen /\ v2.b = v.b /\ v2.starts = v.starts
      /\ v2.state = v.state /\ v2.in = inbox /\ v2.called = v.called
  BY <1>2, <1>3, <1>4, <1>5 DEF Goes, Alike
<1>7. v2.lo = v.lo /\ v2.hi = v.hi
  BY <1>2, <1>4, <1>6 DEF Goes, Alike
<1>8. Unmoved(v, v2)
  BY <1>6, <1>7 DEF Unmoved, Stays
<1>9. Speaker(p)'
  <2>1. c.state = "CONNECTED" =>
            /\ InStep(c, v2.b, v2.lo, v2.n + 1 - v2.b)
            /\ c.vr = Len(v2.got) % Modulus
    <3>1. ASSUME c.state = "CONNECTED"
          PROVE  InStep(c, v2.b, v2.lo, v2.n + 1 - v2.b) /\ c.vr = Len(v2.got) % Modulus
      <4>1. /\ InStep(conn[p], v.b, v.lo, v.n + 1 - v.b)
            /\ conn[p].vr = Len(v.got) % Modulus
        BY <1>1, <1>4, <3>1 DEF Speaker, Alike
      <4>2. InStep(c, v.b, v.lo, v.n + 1 - v.b)
        BY <3>1, <4>1 DEF InStep, Alike
      <4>3. QED BY <1>6, <1>7, <3>1, <4>1, <4>2 DEF Alike
    <3>2. QED BY <3>1
  <2>2. c.state = "CONNECTING" => c.unacked = <<>> /\ c.sendBuf = <<>>
    BY <1>1 DEF Speaker, Alike
  <2>3. QED BY <1>1, <2>1, <2>2, SpeakerNext
<1>10. QED BY <1>1, <1>2, <1>4, <1>6, <1>8, <1>9

\* A view that does not move keeps the link good.
LEMMA SameGood ==
    ASSUME NEW v, NEW w, Good(v, w), NEW v2, Unmoved(v, v2), v2.in = v.in
    PROVE  Good(v2, w)
<1>1. Voice(v2) /\ Control(v2, w) /\ Control(w, v2)
  <2>1. /\ v2.state = v.state /\ v2.in = v.in /\ v2.called = v.called
        /\ v2.b = v.b /\ v2.lo = v.lo /\ v2.hi = v.hi /\ v2.n = v.n
        /\ v2.starts = v.starts /\ v2.got = v.got /\ v2.seen = v.seen
    BY DEF Unmoved, Stays
  <2>2. Voice(v2)
    BY <2>1 DEF Good, Half, Voice, Up, Calling
  <2>3. Control(v2, w) /\ Control(w, v2)
    BY <2>1 DEF Good, Half, Control, Up, Calling, Shut, Virgin
  <2>4. QED BY <2>2, <2>3
<1>2. Session(w, v2) /\ Session(v2, w)
  <2>1. Relays(v.in, Live(v), v2.in, Live(v2))
        /\ Relays(v.in, Behind(v.in, {"SABM"}), v2.in, Behind(v2.in, {"SABM"}))
    <3>1. Live(v2) = Live(v) /\ v2.in = v.in
      BY DEF Live, Up, Calling, Unmoved
    <3>2. QED BY <3>1, RelaysSame
  <2>2. Relays(w.in, Live(w), w.in, Live(w))
        /\ Relays(w.in, Behind(w.in, {"SABM"}), w.in, Behind(w.in, {"SABM"}))
    BY RelaysSame
  <2>3. /\ Joined(w, v2) <=> Joined(w, v)
        /\ Joined(v2, w) <=> Joined(v, w)
        /\ Up(v2) <=> Up(v)
    BY DEF Joined, On, Up, Calling, Unmoved
  <2>4. Stays(v, v2) /\ Stays(w, w) /\ v2.state = v.state /\ v2.starts = v.starts
        /\ v2.n = v.n /\ v2.seen = v.seen /\ v2.in = v.in
    BY DEF Unmoved, Stays
  <2>5. Voice(v) /\ Voice(w) /\ Session(v, w) /\ Session(w, v)
    BY DEF Good, Half
  <2>6. Session(w, v2)
    BY <2>1, <2>3, <2>4, <2>5, SessionKept
  <2>7. Session(v2, w)
    BY <2>2, <2>3, <2>4, <2>5, SessionKept
  <2>8. QED BY <2>6, <2>7
<1>3. QED BY <1>1, <1>2 DEF Good, Half

\* A frame that is ignored, a retry of a call on a silent path, or a retry
\* of a hang-up.
LEMMA KeepStep ==
    ASSUME LinkInv, NEW p \in Station, NEW c, NEW inbox,
           Becomes(p, c, inbox, FALSE, 0), calls' = calls, Takes(p, inbox),
           Alike(conn[p], c), c.state # "DISCONNECTED", NoneTold(c),
           \/ Utters(c.out, {"DISC"})
           \/ /\ Utters(c.out, {"SABM"}) /\ c.state = "CONNECTING"
              /\ inbox = <<>> /\ chan[p] = <<>> /\ chan[Peer(p)] = <<>>
    PROVE  Sustains(p)
<1> DEFINE q == Peer(p)
           v == View(p)
           w == View(q)
           v2 == View(p)'
           w2 == View(q)'
<1>1. /\ Good(v, w) /\ Unmoved(v, v2) /\ v2.in = inbox /\ v.in = chan[p]
      /\ v.state = conn[p].state /\ w.in = chan[q]
      /\ Unmoved(w, w2) /\ w2.in = w.in \o c.out
      /\ c.out = <<>> => w2 = w
      /\ Speaker(p)'
  BY KeptView
<1> HIDE DEF v, w, v2, w2
<1>2. Good(v2, w)
  <2>1. CASE inbox = chan[p]
    BY <1>1, <2>1, SameGood
  <2>2. CASE chan[p] # <<>> /\ inbox = Tail(chan[p])
    BY <1>1, <2>2, DropGood
  <2>3. QED BY <2>1, <2>2 DEF Takes
<1>3. Good(v2, w2)
  <2>1. CASE c.out = <<>>
    BY <1>1, <1>2, <2>1
  <2>2. ASSUME NEW f \in Frame, f.type \in {"DISC"}, c.out = <<f>> PROVE Good(v2, w2)
    <3>1. Sent(w, w2, f) /\ f.type \in {"DISC", "DM", "OTHER"}
      BY <1>1, <2>2 DEF Sent
    <3>2. QED BY <1>2, <3>1, SentGood
  <2>3. ASSUME NEW f \in Frame, f.type \in {"SABM"}, c.out = <<f>>, c.state = "CONNECTING",
               inbox = <<>>, chan[q] = <<>>
        PROVE  Good(v2, w2)
    <3>1. Sent(w, w2, f) /\ f.type = "SABM" /\ v2.in = <<>> /\ w.in = <<>>
      BY <1>1, <2>3 DEF Sent
    <3>2. Calling(v2)
      BY <1>1, <2>3 DEF Calling, Unmoved, Alike
    <3>3. QED BY <1>2, <3>1, <3>2, SentGood
  <2>4. QED BY <2>1, <2>2, <2>3 DEF Utters
<1>4. Advances(v, w, v2)
  BY <1>1 DEF Unmoved, Stays, Idles, Advances
<1>5. QED BY <1>1, <1>3, <1>4 DEF Sustains, v, w, v2, w2

-----------------------------------------------------------------------------
(* Steps that open a session                                               *)

\* A connection that has just begun to call, or to talk.
Opens(c) ==
    \/ Fresh(c)
    \/ c.state = "CONNECTING" /\ c.unacked = <<>> /\ c.sendBuf = <<>>

\* Both ends of the step that follows.
Renews(p, c, inbox) ==
    LET q == Peer(p)
    IN /\ Good(View(p), View(q)) /\ Renewed(View(p), View(p)')
       /\ View(p)'.state = c.state /\ View(p)'.in = inbox
       /\ View(p)'.called <=> calls'[p] > 0
       /\ View(p).called <=> calls[p] > 0
       /\ View(p).in = chan[p] /\ View(p).state = conn[p].state
       /\ View(q).in = chan[q]
       /\ Unmoved(View(q), View(q)') /\ View(q)'.in = View(q).in \o c.out
       /\ Speaker(p)'

\* A call that starts the session again, seen from both ends.
LEMMA RenewView ==
    ASSUME LinkInv, NEW p \in Station, NEW c, NEW inbox,
           Becomes(p, c, inbox, TRUE, 0), calls'[Peer(p)] = calls[Peer(p)], NoneTold(c),
           Opens(c)
    PROVE  Renews(p, c, inbox)
<1> DEFINE q == Peer(p)
           v == View(p)
           w == View(q)
           v2 == View(p)'
<1>1. Good(v, w) /\ TypeOK /\ Voice(v)
  BY LinkEnds DEF Good, Half
<1>2. /\ v.in = chan[p] /\ v.state = conn[p].state /\ w.in = chan[q]
      /\ v.starts = starts[p] /\ v.n = count[p]
      /\ v.called <=> calls[p] > 0
  BY DEF View
<1>3. starts[p] \subseteq 1 .. count[p] + 1 /\ v.n \in Nat
  BY <1>1, <1>2, VoiceTypes DEF Voice
<1>4. /\ v2.state = c.state /\ v2.n = v.n + 0 /\ v2.in = inbox
      /\ v2.called <=> calls'[p] > 0
      /\ v2.starts = v.starts \cup {v.n + 1}
      /\ v2.b = v.n + 1
      /\ v2.got = <<>> \o DataTold(c)
      /\ v2.seen = v.seen \cup ToldSet(c)
      /\ c.state # "DISCONNECTED" =>
            /\ v2.lo = v2.n + 1 - v2.b - Len(c.unacked) - Len(c.sendBuf)
            /\ v2.hi = v2.lo + Len(c.unacked)
  <2>1. LET u == View(p)
               u2 == View(p)'
           IN /\ u2.state = c.state /\ u2.n = u.n + 0 /\ u2.in = inbox
              /\ u2.called <=> calls'[p] > 0
              /\ u2.starts = IF TRUE THEN u.starts \cup {u.n + 1} ELSE u.starts
              /\ u2.b = IF TRUE THEN u.n + 1 ELSE u.b
              /\ u2.got = (IF TRUE THEN <<>> ELSE u.got) \o DataTold(c)
              /\ u2.seen = u.seen \cup ToldSet(c)
              /\ c.state # "DISCONNECTED" =>
                    /\ u2.lo = u2.n + 1 - u2.b - Len(c.unacked) - Len(c.sendBuf)
                    /\ u2.hi = u2.lo + Len(c.unacked)
    BY <1>1, <1>3, SelfView
  <2>2. QED BY <2>1
<1>5. DataTold(c) = <<>> /\ ToldSet(c) = {} /\ <<>> \o <<>> = <<>>
  BY ToldNothing DEF ToldSet
<1>6. Len(c.unacked) = 0 /\ Len(c.sendBuf) = 0 /\ c.state # "DISCONNECTED"
  BY DEF Opens, Fresh
<1>7. Renewed(v, v2)
  <2>1. v2.n = v.n /\ v2.lo = 0 /\ v2.hi = 0
    BY <1>3, <1>4, <1>6
  <2>2. v2.got = <<>> /\ v2.seen = v.seen
    BY <1>4, <1>5
  <2>3. QED BY <1>4, <2>1, <2>2 DEF Renewed
<1>8. Unmoved(w, View(q)') /\ View(q)'.in = w.in \o c.out
  BY <1>1, PeerView
<1>9. Speaker(p)'
  <2>1. c.state = "CONNECTED" =>
           InStep(c, v2.b, v2.lo, v2.n + 1 - v2.b) /\ c.vr = Len(v2.got) % Modulus
    <3>1. ASSUME c.state = "CONNECTED"
          PROVE  InStep(c, v2.b, v2.lo, v2.n + 1 - v2.b) /\ c.vr = Len(v2.got) % Modulus
      <4>1. v2.n + 1 - v2.b = 0 /\ v2.lo = 0 /\ Len(v2.got) = 0
        BY <1>3, <1>7 DEF Renewed
      <4>2. Fresh(c)
        BY <3>1 DEF Opens
      <4>3. 0 % Modulus = 0 /\ (0 + 0) % Modulus = 0
        BY ModulusAssumption
      <4>4. InStep(c, v2.b, 0, 0)
        BY <1>6, <4>2, <4>3 DEF InStep, Fresh
      <4>5. QED BY <4>1, <4>2, <4>3, <4>4 DEF Fresh
    <3>2. QED BY <3>1
  <2>2. c.state = "CONNECTING" => c.unacked = <<>> /\ c.sendBuf = <<>>
    BY DEF Opens, Fresh
  <2>3. QED BY <1>1, <2>1, <2>2, SpeakerNext
<1>10. QED BY <1>1, <1>2, <1>4, <1>7, <1>8, <1>9 DEF Renews

\* Router::connect.
LEMMA DialStep ==
    ASSUME LinkInv, NEW p \in Station, Connect(p)
    PROVE  Sustains(p)
<1> DEFINE q == Peer(p)
           c == StartConnect(NewConnection)
           v == View(p)
           w == View(q)
           v2 == View(p)'
           w2 == View(q)'
           f == UFrame("SABM", TRUE)
<1>1. /\ conn[p].state = "DISCONNECTED" /\ Becomes(p, c, chan[p], TRUE, 0)
      /\ calls[p] > 0 => \A x \in Station : chan[x] = <<>>
      /\ calls' = [calls EXCEPT ![p] = @ + 1]
  BY DEF Connect
<1>2. q \in Station /\ q # p /\ calls \in [Station -> 0 .. MaxConnects]
  BY TwoStations, LinkEnds DEF TypeOK
<1>3. calls'[q] = calls[q] /\ calls'[p] > 0
  BY <1>1, <1>2
<1>4. /\ c.state = "CONNECTING" /\ c.up = <<>> /\ c.out = <<f>>
      /\ c.unacked = <<>> /\ c.sendBuf = <<>>
  BY StartConnectDoes
<1>5. NoneTold(c) /\ Opens(c)
  BY <1>4 DEF NoneTold, Opens
<1> HIDE DEF c
<1>6. /\ Good(v, w) /\ Renewed(v, v2) /\ v2.state = c.state /\ v2.in = chan[p]
      /\ v2.called <=> calls'[p] > 0
      /\ v.called <=> calls[p] > 0
      /\ v.in = chan[p] /\ v.state = conn[p].state /\ w.in = chan[q]
      /\ Unmoved(w, w2) /\ w2.in = w.in \o c.out
      /\ Speaker(p)'
  <2>1. Renews(p, c, chan[p])
    BY <1>1, <1>3, <1>5, RenewView
  <2>2. QED BY <2>1 DEF Renews
<1>7. f \in Frame /\ f.type = "SABM"
  BY UFrameType DEF UFrame
<1> HIDE DEF v, w, v2, w2, f
<1>8. Shut(v) /\ Calling(v2) /\ v2.called /\ v2.in = v.in /\ Sent(w, w2, f)
  BY <1>1, <1>3, <1>4, <1>6 DEF Shut, Calling, Sent
<1>9. v.called => v.in = <<>> /\ w.in = <<>>
  BY <1>1, <1>2, <1>6
<1>10. Good(v2, w2)
  BY <1>6, <1>7, <1>8, <1>9, DialGood
<1>11. Advances(v, w, v2)
  BY <1>6, <1>8 DEF Up, Shut, Begins, Advances
<1>12. QED BY <1>6, <1>10, <1>11 DEF Sustains, v, w, v2, w2

\* A SABM that opens a session, or starts it again.
LEMMA AcceptStep ==
    ASSUME LinkInv, NEW p \in Station, NEW c, chan[p] # <<>>, Head(chan[p]).type = "SABM",
           conn[p].state \in {"CONNECTED", "DISCONNECTED"},
           Becomes(p, c, Tail(chan[p]), TRUE, 0), calls' = calls, NoneTold(c), Fresh(c),
           NEW f \in Frame, f.type = "UA", c.out = <<f>>
    PROVE  Sustains(p)
<1> DEFINE q == Peer(p)
           v == View(p)
           w == View(q)
           v2 == View(p)'
           w2 == View(q)'
<1>0. calls'[q] = calls[q] /\ Opens(c)
  BY DEF Opens
<1>1. /\ Good(v, w) /\ Renewed(v, v2) /\ v2.state = c.state /\ v2.in = Tail(chan[p])
      /\ v2.called <=> calls'[p] > 0
      /\ v.called <=> calls[p] > 0
      /\ v.in = chan[p] /\ v.state = conn[p].state
      /\ Unmoved(w, w2) /\ w2.in = w.in \o c.out
      /\ Speaker(p)'
  <2>1. Renews(p, c, Tail(chan[p]))
    BY <1>0, RenewView
  <2>2. QED BY <2>1 DEF Renews
<1>2. v.called \in BOOLEAN /\ v2.called \in BOOLEAN
  BY ViewFlag
<1> HIDE DEF v, w, v2, w2
<1>3. v2.called = v.called
  BY <1>1, <1>2
<1>4. (Up(v) \/ Shut(v)) /\ Up(v2) /\ v.in # <<>> /\ Head(v.in).type = "SABM"
      /\ v2.in = Tail(v.in) /\ Sent(w, w2, f)
  BY <1>1 DEF Up, Shut, Fresh, Sent
<1>5. Good(v2, w2)
  BY <1>1, <1>3, <1>4, AcceptGood
<1>6. Advances(v, w, v2)
  BY <1>1, <1>4 DEF Begins, Advances
<1>7. QED BY <1>1, <1>5, <1>6 DEF Sustains, v, w, v2, w2

\* A SABM that crosses one's own is answered and changes nothing.
LEMMA AnswerStep ==
    ASSUME LinkInv, NEW p \in Station, NEW c, chan[p] # <<>>, Head(chan[p]).type = "SABM",
           conn[p].state = "CONNECTING", Alike(conn[p], c), NoneTold(c),
           Becomes(p, c, Tail(chan[p]), FALSE, 0), calls' = calls,
           NEW f \in Frame, f.type = "UA", c.out = <<f>>
    PROVE  Sustains(p)
<1> DEFINE q == Peer(p)
           v == View(p)
           w == View(q)
           v2 == View(p)'
           w2 == View(q)'
<1>1. c.state # "DISCONNECTED"
  BY DEF Alike
<1>2. /\ Good(v, w) /\ Unmoved(v, v2) /\ v2.in = Tail(chan[p]) /\ v.in = chan[p]
      /\ v.state = conn[p].state
      /\ Unmoved(w, w2) /\ w2.in = w.in \o c.out
      /\ Speaker(p)'
  BY <1>1, KeptView
<1> HIDE DEF v, w, v2, w2
<1>3. Calling(v) /\ v.in # <<>> /\ Head(v.in).type = "SABM" /\ v2.in = Tail(v.in)
      /\ Sent(w, w2, f)
  BY <1>2 DEF Calling, Sent
<1>4. Good(v2, w2)
  BY <1>2, <1>3, AnswerGood
<1>5. Advances(v, w, v2)
  BY <1>2 DEF Unmoved, Stays, Idles, Advances
<1>6. QED BY <1>2, <1>4, <1>5 DEF Sustains, v, w, v2, w2

-----------------------------------------------------------------------------
(* Steps of a session                                                      *)

\* p's record as its session has it.
LEMMA SpeakerTalks ==
    ASSUME LinkInv, NEW p \in Station, conn[p].state = "CONNECTED"
    PROVE  LET v == View(p)
               w == View(Peer(p))
           IN /\ Talking(conn[p], v.b, v.lo, v.n + 1 - v.b, Len(v.got), Len(v.got), v.hi)
              /\ Good(v, w) /\ Up(v) /\ v.in = chan[p] /\ v.n = count[p]
              /\ v.b \in Nat /\ v.lo \in Nat /\ v.hi \in Nat /\ v.n \in Nat
              /\ Len(v.got) \in Nat /\ v.n + 1 - v.b \in Nat
              /\ v.hi = v.lo + Len(conn[p].unacked)
<1> DEFINE v == View(p)
           w == View(Peer(p))
           c == conn[p]
<1>1. Good(v, w) /\ Speaker(p) /\ Sound(c) /\ c.out = <<>>
  BY LinkEnds
<1>2. /\ v.in = chan[p] /\ v.n = count[p] /\ v.b = Base(p) /\ v.lo = Lo(p)
      /\ v.hi = Lo(p) + Len(c.unacked) /\ v.got = got[p] /\ v.state = c.state
  BY DEF View
<1>3. Up(v) /\ Voice(v)
  BY <1>1, <1>2 DEF Up, Good, Half
<1>4. /\ v.b \in Nat /\ v.lo \in Nat /\ v.hi \in Nat /\ v.n \in Nat /\ Len(v.got) \in Nat
      /\ v.b + v.hi <= v.n + 1
  BY <1>3, VoiceTypes
<1>5. v.n + 1 - v.b \in Nat
  BY <1>4
<1>6. InStep(c, v.b, v.lo, v.n + 1 - v.b) /\ c.vr = Len(v.got) % Modulus
  BY <1>1, <1>2 DEF Speaker
<1>7. Says(c.out, v.b, v.lo, v.lo + Len(c.unacked), Len(v.got), Len(v.got))
  BY <1>1, SaysNothing
<1>8. Fit(c) /\ v.hi <= v.lo + Len(c.unacked)
  BY <1>1, <1>2, <1>4 DEF Sound
<1>9. Talking(c, v.b, v.lo, v.n + 1 - v.b, Len(v.got), Len(v.got), v.hi)
  BY <1>6, <1>7, <1>8 DEF Talking
<1>10. QED BY <1>1, <1>2, <1>3, <1>4, <1>5, <1>9

\* c is p's record after a call that said chunks up to hi, with those up to
\* lo acknowledged and n new ones.
Spoken(v, c, n, lo, hi) ==
    /\ Spoke(c, v.b, lo, hi, v.n + 1 - v.b + n, Len(v.got), Len(v.got) + Len(DataTold(c)),
             v.hi)
    /\ lo \in Nat /\ hi \in Nat /\ n \in Nat /\ v.n + n <= MaxSend
    /\ c.state \in {"CONNECTED", "DISCONNECTING", "DISCONNECTED"}

\* What the call read: nothing, or a numbered frame.
TookIn(v, w, c, inbox, lo) ==
    \/ inbox = v.in /\ lo = v.lo /\ DataTold(c) = <<>>
    \/ /\ v.in # <<>> /\ Numbered(Head(v.in)) /\ inbox = Tail(v.in)
       /\ lo \in v.lo .. MostTaken(w, v) /\ Head(v.in).nr = lo % Modulus
       /\ \/ DataTold(c) = <<>>
          \/ /\ Head(v.in).type = "I" /\ Head(v.in).ns = Len(v.got) % Modulus
             /\ DataTold(c) = <<Head(v.in).data>>

\* The station as the call leaves it, if its session goes on.
Onward(v, c, inbox, n, lo, hi) ==
    [state |-> "CONNECTED", b |-> v.b, lo |-> lo, hi |-> hi, n |-> v.n + n,
     starts |-> v.starts, got |-> v.got \o DataTold(c), seen |-> v.seen \cup ToldSet(c),
     in |-> inbox, called |-> v.called]

\* What a call of a connected station does is talk.
LEMMA OnwardTalks ==
    ASSUME NEW v, NEW w, Good(v, w), Up(v), NEW c, NEW inbox, NEW n, NEW lo, NEW hi,
           Spoken(v, c, n, lo, hi), TookIn(v, w, c, inbox, lo), c \in ConnType
    PROVE  Talks(v, w, Onward(v, c, inbox, n, lo, hi))
<1> DEFINE u == Onward(v, c, inbox, n, lo, hi)
           told == DataTold(c)
<1>1. Voice(v) /\ v.b \in Nat /\ v.n \in Nat /\ v.hi \in Nat /\ v.got \in Seq(Data)
  BY VoiceTypes DEF Good, Half
<1>2. told \in Seq(Data)
  BY ToldType
<1>3. /\ u.state = "CONNECTED" /\ u.b = v.b /\ u.lo = lo /\ u.hi = hi /\ u.n = v.n + n
      /\ u.starts = v.starts /\ u.got = v.got \o told /\ u.seen = v.seen \cup ToldSet(c)
      /\ u.in = inbox /\ u.called = v.called
  BY DEF Onward
<1> HIDE DEF u
<1>4. /\ lo \in Nat /\ hi \in Nat /\ n \in Nat /\ v.n + n <= MaxSend
      /\ hi <= v.n + 1 - v.b + n /\ hi <= lo + Window /\ v.hi <= hi
  BY DEF Spoken, Spoke
<1>5. \A i \in 1 .. Len(u.got) : u.got[i] \in u.seen
  <2> TAKE i \in 1 .. Len(u.got)
  <2>0. Len(v.got) \in Nat /\ Len(told) \in Nat
    BY <1>1, <1>2
  <2>1. CASE i \in 1 .. Len(v.got)
    <3>1. (v.got \o told)[i] = v.got[i]
      BY <1>1, <1>2, <2>1, ConcatProperties
    <3>2. v.got[i] \in v.seen
      BY <1>1, <2>1 DEF Voice
    <3>3. QED BY <1>3, <3>1, <3>2
  <2>2. CASE i \notin 1 .. Len(v.got)
    <3>1. Len(v.got \o told) = Len(v.got) + Len(told)
      BY <1>1, <1>2, ConcatProperties
    <3>2. i \in 1 .. Len(v.got) + Len(told) /\ ~(i <= Len(v.got))
      BY <1>3, <2>0, <2>2, <3>1
    <3>3. (v.got \o told)[i] = told[i - Len(v.got)]
      BY <1>1, <1>2, <3>2, ConcatProperties
    <3>4. i - Len(v.got) \in 1 .. Len(told)
      BY <2>0, <3>2
    <3>5. told[i - Len(v.got)] \in ToldSet(c)
      BY <1>2, <3>4 DEF ToldSet
    <3>6. QED BY <1>3, <3>3, <3>5
  <2>3. QED BY <2>1, <2>2
<1>6. Grows(v, u)
  <2>1. u.n \in 0 .. MaxSend /\ v.n <= u.n
    BY <1>1, <1>3, <1>4, BoundsAssumption
  <2>2. u.hi \in Nat /\ v.hi <= u.hi /\ u.hi <= u.lo + Window /\ u.b + u.hi <= u.n + 1
    BY <1>1, <1>3, <1>4
  <2>3. v.seen \subseteq u.seen
    BY <1>3
  <2>4. QED BY <1>3, <1>5, <2>1, <2>2, <2>3 DEF Grows
<1>7. told = <<>> => u.got = v.got
  BY <1>1, <1>3
<1>u. Up(u)
  BY <1>3 DEF Up
<1>8. CASE inbox = v.in /\ lo = v.lo /\ told = <<>>
  <2>1. u.in = v.in /\ u.lo = v.lo /\ u.got = v.got
    BY <1>3, <1>7, <1>8
  <2>2. QED BY <1>6, <1>u, <2>1 DEF Talks, Silence, u
<1>9. CASE /\ v.in # <<>> /\ Numbered(Head(v.in)) /\ inbox = Tail(v.in)
           /\ lo \in v.lo .. MostTaken(w, v) /\ Head(v.in).nr = lo % Modulus
           /\ \/ told = <<>>
              \/ /\ Head(v.in).type = "I" /\ Head(v.in).ns = Len(v.got) % Modulus
                 /\ told = <<Head(v.in).data>>
  <2>1. told = <<Head(v.in).data>> => u.got = Append(v.got, Head(v.in).data)
    <3>1. SUFFICES ASSUME told = <<Head(v.in).data>>
                   PROVE  u.got = Append(v.got, Head(v.in).data)
      OBVIOUS
    <3>2. Head(v.in).data \in Data
      BY <1>2, <3>1
    <3>3. QED BY <1>1, <1>3, <3>1, <3>2
  <2>2. Reads(v, w, u)
    <3>1. /\ v.in # <<>> /\ Numbered(Head(v.in)) /\ u.in = Tail(v.in)
          /\ u.lo \in v.lo .. MostTaken(w, v) /\ Head(v.in).nr = u.lo % Modulus
      BY <1>3, <1>9
    <3>2. \/ u.got = v.got
          \/ /\ Head(v.in).type = "I" /\ Head(v.in).ns = Len(v.got) % Modulus
             /\ u.got = Append(v.got, Head(v.in).data)
      BY <1>7, <1>9, <2>1
    <3>3. QED BY <3>1, <3>2 DEF Reads
  <2>3. QED BY <1>6, <1>u, <2>2 DEF Talks, u
<1>10. QED BY <1>8, <1>9 DEF TookIn, u

\* A call in a session that goes on, or ends with it.
LEMMA TalkStep ==
    ASSUME LinkInv, NEW p \in Station, NEW c, NEW inbox, NEW n, NEW lo, NEW hi,
           conn[p].state = "CONNECTED", Becomes(p, c, inbox, FALSE, n), calls' = calls,
           Spoken(View(p), c, n, lo, hi),
           TookIn(View(p), View(Peer(p)), c, inbox, lo)
    PROVE  Sustains(p)
<1> DEFINE q == Peer(p)
           v == View(p)
           w == View(q)
           v2 == View(p)'
           w2 == View(q)'
           u == Onward(v, c, inbox, n, lo, hi)
<1>1. Good(v, w) /\ Up(v) /\ v.b \in Nat /\ v.n \in Nat /\ Len(v.got) \in Nat
      /\ TypeOK /\ v.got \in Seq(Data)
  BY SpeakerTalks, LinkEnds, VoiceTypes DEF Good, Half
<1>2. Goes(v, v2, c, inbox, n) /\ Unmoved(w, w2) /\ w2.in = w.in \o c.out
  BY StepViews
<1>3. /\ Spoke(c, v.b, lo, hi, v.n + 1 - v.b + n, Len(v.got),
               Len(v.got) + Len(DataTold(c)), v.hi)
      /\ lo \in Nat /\ hi \in Nat /\ n \in Nat
      /\ c.state \in {"CONNECTED", "DISCONNECTING", "DISCONNECTED"}
      /\ c \in ConnType /\ c.out \in Seq(Frame)
  BY DEF Spoken, Spoke, Fit, ConnType
<1>4. DataTold(c) \in Seq(Data)
  BY <1>3, ToldType
<1>5. Talks(v, w, u)
  BY <1>1, <1>3, OnwardTalks
<1>6. /\ u.state = "CONNECTED" /\ u.b = v.b /\ u.lo = lo /\ u.hi = hi /\ u.n = v.n + n
      /\ u.starts = v.starts /\ u.got = v.got \o DataTold(c)
      /\ u.seen = v.seen \cup ToldSet(c)
      /\ u.in = inbox /\ u.called = v.called
  BY DEF Onward
<1>7. v.called \in BOOLEAN /\ v2.called \in BOOLEAN
  BY ViewFlag
<1> HIDE DEF v, w, v2, w2, u
<1>8. Len(u.got) = Len(v.got) + Len(DataTold(c))
  BY <1>1, <1>4, <1>6, ConcatProperties
<1>9. Speaks(v, u, w, w2, c.out)
  <2>1. Says(c.out, v.b, lo, hi, Len(v.got), Len(v.got) + Len(DataTold(c)))
    BY <1>3 DEF Spoke
  <2>2. QED BY <1>2, <1>3, <1>6, <1>8, <2>1 DEF Speaks
<1>10. Good(u, w2)
  BY <1>1, <1>5, <1>9, TalkGood
<1>11. /\ v2.state = c.state /\ v2.n = u.n /\ v2.in = u.in /\ v2.called = u.called
       /\ v2.starts = u.starts /\ v2.b = u.b /\ v2.got = u.got /\ v2.seen = u.seen
  BY <1>2, <1>6, <1>7 DEF Goes
<1>12. CASE c.state = "CONNECTED"
  <2> DEFINE N == v.n + 1 - v.b + n
  <2>1. InStep(c, v.b, lo, N) /\ hi = lo + Len(c.unacked)
        /\ c.vr = (Len(v.got) + Len(DataTold(c))) % Modulus
    BY <1>3, <1>12 DEF Spoke
  <2>2. lo + Len(c.unacked) + Len(c.sendBuf) = N
    BY <2>1 DEF InStep
  <2>3. Len(c.unacked) \in Nat /\ Len(c.sendBuf) \in Nat
    BY <1>3 DEF ConnType
  <2>t. v.n \in Nat /\ v.b \in Nat /\ n \in Nat
    BY <1>1, <1>3
  <2>e. v2.n = v.n + n /\ v2.b = v.b
    BY <1>6, <1>11
  <2>4. N = v2.n + 1 - v2.b /\ N \in Int /\ v2.n \in Nat /\ v2.b \in Nat
    <3>1. PICK x \in Nat, y \in Nat, k \in Nat : x = v.n /\ y = v.b /\ k = n
      BY <2>t
    <3>2. N = x + 1 - y + k /\ v2.n = x + k /\ v2.b = y
      BY <2>e, <3>1
    <3>3. x + 1 - y + k = (x + k) + 1 - y /\ x + 1 - y + k \in Int /\ x + k \in Nat
      OBVIOUS
    <3>4. QED BY ONLY <3>1, <3>2, <3>3
  <2> HIDE DEF N
  <2>a. PICK x \in Nat, y \in Nat, k \in Nat, m \in Nat :
           x = Len(c.unacked) /\ y = Len(c.sendBuf) /\ k = v2.n /\ m = v2.b
    BY <2>3, <2>4
  <2>5. v2.lo = N - x - y /\ v2.hi = v2.lo + x
    <3>1. /\ v2.lo = v2.n + 1 - v2.b - Len(c.unacked) - Len(c.sendBuf)
          /\ v2.hi = v2.lo + Len(c.unacked)
      BY <1>2, <1>12 DEF Goes
    <3>2. v2.lo = k + 1 - m - x - y
      BY <2>a, <3>1
    <3>3. N = k + 1 - m
      BY <2>a, <2>4
    <3>4. k + 1 - m - x - y = N - x - y
      BY <3>3
    <3>5. QED BY <2>a, <3>1, <3>2, <3>4
  <2>6. v2.lo = lo /\ v2.hi = hi
    <3>1. lo + x + y = N /\ hi = lo + x
      BY <2>1, <2>2, <2>a
    <3>2. N - x - y = lo
      BY <1>3, <2>4, <3>1
    <3>3. QED BY <2>5, <3>1, <3>2
  <2>7. Unmoved(u, v2) /\ v2.in = u.in
    BY <1>6, <1>11, <1>12, <2>6 DEF Unmoved, Stays
  <2>8. Good(v2, w2)
    BY <1>10, <2>7, SameGood
  <2>9. InStep(c, v2.b, v2.lo, v2.n + 1 - v2.b) /\ c.vr = Len(v2.got) % Modulus
    BY <1>6, <1>8, <1>11, <2>1, <2>4, <2>6
  <2>10. Speaker(p)'
    BY <1>1, <1>12, <2>9, SpeakerNext DEF v2
  <2>11. Advances(v, w, v2)
    BY <1>5, <1>11, <2>7 DEF Unmoved, Stays, Continued, Advances
  <2>12. QED BY <2>8, <2>10, <2>11 DEF Sustains, v, w, v2, w2
<1>13. CASE c.state # "CONNECTED"
  <2>1. ~Up(v2) /\ ~Calling(v2) /\ ~Shut(u)
    BY <1>3, <1>6, <1>11, <1>13 DEF Up, Calling, Shut
  <2>2. Left(u, v2)
    BY <1>11, <2>1 DEF Left
  <2>3. Good(v2, w2)
    BY <1>10, <2>2, LeaveGood
  <2>4. c.state # "CONNECTED" /\ c.state # "CONNECTING"
    BY <1>3, <1>13
  <2>5. Speaker(p)'
    BY <1>1, <2>4, SpeakerNext
  <2>6. Advances(v, w, v2)
    BY <1>5, <1>11, <2>1 DEF Continued, Advances
  <2>7. QED BY <2>3, <2>5, <2>6 DEF Sustains, v, w, v2, w2
<1>14. QED BY <1>12, <1>13

\* Without a callback the application is told nothing.
LEMMA TellsNothing ==
    ASSUME NEW c, c.up = <<>>
    PROVE  NoneTold(c) /\ DataTold(c) = <<>>
BY ToldNothing DEF NoneTold

\* A call in which nothing is read leaves the session as Talking says.
LEMMA TalkingSpoken ==
    ASSUME NEW v, NEW c, NEW n \in Nat, NEW lo \in Nat, v.b \in Nat, v.n \in Nat,
           v.hi \in Nat, Len(v.got) \in Nat, v.n + 1 - v.b \in Nat, v.n + n <= MaxSend,
           c.state = "CONNECTED", DataTold(c) = <<>>,
           Talking(c, v.b, lo, v.n + 1 - v.b + n, Len(v.got), Len(v.got), v.hi)
    PROVE  \E hi \in Nat : Spoken(v, c, n, lo, hi)
<1> DEFINE r == Len(v.got)
           m == v.n + 1 - v.b + n
           hi == lo + Len(c.unacked)
<1>1. m \in Nat /\ r + Len(DataTold(c)) = r /\ r \in Nat
  BY LenProperties
<1> HIDE DEF m, r
<1>2. Talking(c, v.b, lo, m, r, r, v.hi)
  BY DEF m, r
<1>3. Spoke(c, v.b, lo, hi, m, r, r, v.hi) /\ hi \in Nat
  BY <1>1, <1>2, TalkingSpoke
<1>4. Spoken(v, c, n, lo, hi)
  BY <1>1, <1>3 DEF Spoken, m, r
<1>5. QED BY <1>3, <1>4

\* send() and, with no frame said, everything else that keeps a session.
LEMMA SendStep ==
    ASSUME LinkInv, NEW p \in Station, NEW n \in 1 .. MaxSend, AppSend(p, n)
    PROVE  Sustains(p)
<1> DEFINE v == View(p)
           w == View(Peer(p))
           chunks == [i \in 1 .. n |-> count[p] + i]
           c == Send(conn[p], chunks)
           m == v.n + 1 - v.b
           r == Len(v.got)
<1>1. /\ conn[p].state = "CONNECTED" /\ count[p] + n <= MaxSend /\ calls' = calls
      /\ Becomes(p, c, chan[p], FALSE, n) /\ n \in Nat
  <2>1. n \in Nat
    BY BoundsAssumption
  <2>2. /\ conn[p].state = "CONNECTED" /\ count[p] + n <= MaxSend
        /\ Becomes(p, c, chan[p], FALSE, n)
    BY Zenon DEF AppSend
  <2>3. calls' = calls
    BY DEF AppSend
  <2>4. QED BY <2>1, <2>2, <2>3
<1>2. /\ Talking(conn[p], v.b, v.lo, m, r, r, v.hi)
      /\ v.in = chan[p] /\ v.n = count[p]
      /\ v.b \in Nat /\ v.lo \in Nat /\ v.hi \in Nat /\ v.n \in Nat /\ r \in Nat /\ m \in Nat
  BY <1>1, SpeakerTalks
<1>3. conn[p].up = <<>>
  BY LinkEnds
<1>4. chunks \in Seq(Data) /\ Len(chunks) = n /\ Continues(chunks, v.b, m)
  <2>1. \A i \in 1 .. n : count[p] + i \in Data /\ count[p] + i = v.b + m + i - 1
    <3> TAKE i \in 1 .. n
    <3>1. i \in Nat /\ i >= 1 /\ i <= n /\ MaxSend \in Nat
      BY <1>1, BoundsAssumption
    <3>2. count[p] \in Nat /\ m = count[p] + 1 - v.b
      BY <1>2
    <3>3. count[p] + i = v.b + m + i - 1
      BY <1>2, <3>1, <3>2
    <3>4. count[p] + i \in 1 .. MaxSend
      BY <1>1, <3>1, <3>2
    <3>5. QED BY <3>3, <3>4, DataAssumption
  <2>2. chunks \in [1 .. n -> Data]
    BY <2>1
  <2>3. chunks \in Seq(Data) /\ Len(chunks) = n
    BY <1>1, <2>2
  <2>4. QED BY <2>1, <2>3 DEF Continues
<1> HIDE DEF v, w, chunks, m, r
<1>5. Talking(c, v.b, v.lo, m + n, r, r, v.hi) /\ Tells(conn[p], c)
  BY <1>1, <1>2, <1>4, SendTalking
<1>6. c.state = "CONNECTED" /\ c.up = <<>>
  BY <1>1, <1>3, <1>5 DEF Tells
<1> HIDE DEF c
<1>7. DataTold(c) = <<>>
  BY <1>6, TellsNothing
<1>8. \E hi \in Nat : Spoken(v, c, n, v.lo, hi)
  BY <1>1, <1>2, <1>5, <1>6, <1>7, TalkingSpoken DEF m, r
<1>9. TookIn(v, w, c, chan[p], v.lo)
  BY <1>2, <1>7 DEF TookIn
<1>10. QED BY <1>1, <1>8, <1>9, TalkStep DEF v, w

\* Timers in a session.
LEMMA TickStep ==
    ASSUME LinkInv, NEW p \in Station, NEW due, Expire(p, due),
           conn[p].state = "CONNECTED"
    PROVE  Sustains(p)
<1> DEFINE v == View(p)
           w == View(Peer(p))
           d == Tick(conn[p], due)
           m == v.n + 1 - v.b
           r == Len(v.got)
<1>1. calls' = calls /\ Becomes(p, d, chan[p], FALSE, 0)
  BY DEF Expire
<1>2. /\ Talking(conn[p], v.b, v.lo, m, r, r, v.hi)
      /\ v.in = chan[p] /\ v.n = count[p]
      /\ v.b \in Nat /\ v.lo \in Nat /\ v.hi \in Nat /\ v.n \in Nat /\ r \in Nat /\ m \in Nat
  BY SpeakerTalks
<1>3. conn[p].up = <<>> /\ TypeOK
  BY LinkEnds
<1> HIDE DEF v, w, m, r
<1>4. Ticked(d, v.b, v.lo, m, r, v.hi)
  BY <1>2, <1>3, TickTalking
<1>5. PICK e : /\ Talking(e, v.b, v.lo, m, r, r, v.hi)
               /\ e.state = "CONNECTED" /\ e.up = <<>>
               /\ d = e \/ d = LinkFailed(e)
  BY <1>4 DEF Ticked
<1> HIDE DEF d
<1>6. 0 \in Nat /\ m + 0 = m /\ v.n + 0 <= MaxSend
  BY <1>2, <1>3, BoundsAssumption DEF TypeOK
<1>7. DataTold(e) = <<>>
  BY <1>5, TellsNothing
<1>8. PICK hi \in Nat : Spoken(v, e, 0, v.lo, hi)
  <2>1. Talking(e, v.b, v.lo, m + 0, r, r, v.hi)
    BY <1>5, <1>6
  <2>2. QED BY <1>2, <1>5, <1>6, <1>7, <2>1, TalkingSpoken DEF m, r
<1>9. Spoken(v, d, 0, v.lo, hi) /\ DataTold(d) = <<>>
  <2>1. CASE d = e
    BY <1>7, <1>8, <2>1
  <2>2. CASE d = LinkFailed(e)
    <3>1. Fit(e)
      BY <1>5 DEF Talking
    <3>2. /\ d.state = "DISCONNECTED" /\ d.out = e.out
          /\ d.up = <<[on |-> "disconnect", data |-> NoData]>>
      BY <1>5, <2>2, <3>1, LinkFailedEnds
    <3>3. NoneTold(d)
      BY <3>2, OneCallback
    <3>4. DataTold(d) = <<>>
      BY <3>3, ToldNothing
    <3>5. Fit(d) /\ d.vr = e.vr
      <4>1. Fit(d)
        BY <2>2, <3>1, LinkFailedSound DEF Sound
      <4>2. d.vr = e.vr
        BY <2>2, <3>1 DEF LinkFailed, Fire, Fit, ConnType
      <4>3. QED BY <4>1, <4>2
    <3>6. Spoke(d, v.b, v.lo, hi, m + 0, r, r + 0, v.hi)
      <4>1. Spoke(e, v.b, v.lo, hi, m + 0, r, r + 0, v.hi)
        BY <1>7, <1>8, LenProperties DEF Spoken, m, r
      <4>2. QED BY <3>2, <3>5, <4>1 DEF Spoke
    <3>7. QED BY <1>8, <3>2, <3>4, <3>6 DEF Spoken, m, r
  <2>3. QED BY <1>5, <2>1, <2>2
<1>10. TookIn(v, w, d, chan[p], v.lo)
  BY <1>2, <1>9 DEF TookIn
<1>11. QED BY <1>1, <1>9, <1>10, TalkStep DEF v, w

-----------------------------------------------------------------------------
(* A frame arrives                                                         *)

\* What Deliver does, in the words of Becomes.
LEMMA DeliverFacts ==
    ASSUME LinkInv, NEW p \in Station, NEW react \in Reactions(p), Deliver(p, react)
    PROVE  LET f == Head(chan[p])
               c == Route(p, f, react)
           IN /\ chan[p] # <<>> /\ f \in Frame /\ react \in Reaction
              /\ Told(c) = {} => react = Silent
              /\ f.type # "SABM" => Becomes(p, c, Tail(chan[p]), FALSE, Len(react.reply))
              /\ conn[p].state \in {"CONNECTING", "DISCONNECTING"}
                    => Becomes(p, c, Tail(chan[p]), FALSE, Len(react.reply))
              /\ Restarts(p, f) => Becomes(p, c, Tail(chan[p]), TRUE, Len(react.reply))
              /\ ~Restarts(p, f) => Becomes(p, c, Tail(chan[p]), FALSE, Len(react.reply))
              /\ calls' = calls
              /\ conn[p].state # "DISCONNECTED" => c = HandleFrame(conn[p], f, react)
              /\ Len(react.reply) \in Nat /\ count[p] + Len(react.reply) <= MaxSend
              /\ react.reply \in {<<>>, <<count[p] + 1>>}
<1> DEFINE f == Head(chan[p])
           c == Route(p, f, react)
<1>1. TypeOK
  BY LinkEnds
<1>2. /\ chan[p] # <<>> /\ calls' = calls /\ (Told(c) = {} => react = Silent)
      /\ Becomes(p, c, Tail(chan[p]), Restarts(p, f), Len(react.reply))
  BY DEF Deliver
<1>3. f \in Frame
  BY <1>1, <1>2, HeadTail
<1>4. /\ react \in Reaction /\ Len(react.reply) \in Nat
      /\ count[p] + Len(react.reply) <= MaxSend
      /\ react.reply \in {<<>>, <<count[p] + 1>>}
  BY <1>1, ReactionsType
<1>5. conn[p].state # "DISCONNECTED" => c = HandleFrame(conn[p], f, react)
  BY DEF Route
<1>6. Restarts(p, f) \in BOOLEAN
  BY DEF Restarts
<1>7. /\ f.type # "SABM" => ~Restarts(p, f)
      /\ conn[p].state \in {"CONNECTING", "DISCONNECTING"} => ~Restarts(p, f)
  BY DEF Restarts
<1> HIDE DEF f, c
<1>8. Restarts(p, f) => Restarts(p, f) = TRUE
  BY <1>6
<1>9. ~Restarts(p, f) => Restarts(p, f) = FALSE
  BY <1>6
<1>10. /\ Restarts(p, f) => Becomes(p, c, Tail(chan[p]), TRUE, Len(react.reply))
       /\ ~Restarts(p, f) => Becomes(p, c, Tail(chan[p]), FALSE, Len(react.reply))
  BY <1>2, <1>8, <1>9
<1>11. QED BY <1>2, <1>3, <1>4, <1>5, <1>7, <1>10 DEF f, c

\* A numbered frame in a session.
LEMMA HearStep ==
    ASSUME LinkInv, NEW p \in Station, NEW react \in Reactions(p), Deliver(p, react),
           conn[p].state = "CONNECTED", Numbered(Head(chan[p]))
    PROVE  Sustains(p)
<1> DEFINE v == View(p)
           w == View(Peer(p))
           f == Head(chan[p])
           d == Route(p, f, react)
           m == v.n + 1 - v.b
           r == Len(v.got)
           n == Len(react.reply)
<1>1. /\ chan[p] # <<>> /\ f \in Frame /\ react \in Reaction /\ calls' = calls
      /\ Told(d) = {} => react = Silent
      /\ f.type # "SABM" => Becomes(p, d, Tail(chan[p]), FALSE, n)
      /\ d = HandleFrame(conn[p], f, react)
      /\ n \in Nat /\ count[p] + n <= MaxSend
      /\ react.reply \in {<<>>, <<count[p] + 1>>}
  BY DeliverFacts
<1>2. Becomes(p, d, Tail(chan[p]), FALSE, n)
  BY <1>1 DEF Numbered
<1>3. /\ Talking(conn[p], v.b, v.lo, m, r, r, v.hi)
      /\ Good(v, w) /\ Up(v) /\ v.in = chan[p] /\ v.n = count[p]
      /\ v.b \in Nat /\ v.lo \in Nat /\ v.hi \in Nat /\ v.n \in Nat /\ r \in Nat /\ m \in Nat
      /\ v.hi = v.lo + Len(conn[p].unacked)
  BY SpeakerTalks
<1>4. conn[p].up = <<>> /\ conn[p].out = <<>>
  BY LinkEnds
<1>5. Continues(react.reply, v.b, m)
  <2>1. v.b + m + 1 - 1 = count[p] + 1
    BY <1>3
  <2>2. CASE react.reply = <<>>
    BY <2>2 DEF Continues
  <2>3. CASE react.reply = <<count[p] + 1>>
    BY <2>1, <2>3 DEF Continues
  <2>4. QED BY <1>1, <2>2, <2>3
<1> HIDE DEF v, w, f, d, m, r, n
<1>6. Voice(v) /\ Voice(w) /\ Session(v, w) /\ Session(w, v)
  BY <1>3 DEF Good, Half
<1>7. /\ \E k \in v.lo .. MostTaken(w, v) : f.nr = k % Modulus
      /\ f.type = "I" => f.data \in Data
      /\ MostTaken(w, v) \in Nat /\ MostTaken(w, v) <= v.hi
  BY <1>1, <1>3, <1>6, HeadNumbered, TopTypes DEF f
<1>8. PICK k \in v.lo .. MostTaken(w, v) : f.nr = k % Modulus
  BY <1>7
<1>9. k \in v.lo .. v.lo + Len(conn[p].unacked) /\ k \in Nat
  BY <1>3, <1>7
<1>10. IF f.type = "I" /\ f.ns = r % Modulus
       THEN Handed(d, f.data, v.b, k, m + Len(react.reply), r, r + 1, v.hi)
       ELSE Talking(d, v.b, k, m, r, r, v.hi) /\ Tells(conn[p], d)
  <2>1. Numbered(f)
    BY DEF f
  <2> DEFINE c == conn[p]
             h == v.hi
             lo == v.lo
             b == v.b
  <2>2. /\ Talking(c, b, lo, m, r, r, h) /\ c.out = <<>> /\ c.up = <<>>
        /\ c.state = "CONNECTED" /\ k \in lo .. lo + Len(c.unacked)
        /\ b \in Nat /\ lo \in Nat /\ h \in Nat /\ r \in Nat /\ m \in Nat
    BY <1>3, <1>4, <1>9
  <2>3. /\ f \in Frame /\ Numbered(f) /\ f.nr = k % Modulus /\ react \in Reaction
        /\ Continues(react.reply, b, m)
        /\ f.type = "I" => f.data \in Data
    BY <1>1, <1>5, <1>7, <1>8, <2>1
  <2>4. d = HandleFrame(c, f, react)
    BY <1>1
  <2> HIDE DEF c, h, lo, b
  <2>5. LET e == HandleFrame(c, f, react)
        IN IF f.type = "I" /\ f.ns = r % Modulus
           THEN Handed(e, f.data, b, k, m + Len(react.reply), r, r + 1, h)
           ELSE Talking(e, b, k, m, r, r, h) /\ Tells(c, e)
    BY ONLY <2>2, <2>3, NumberedTalking
  <2>6. QED BY <2>4, <2>5 DEF c, h, b
<1>11. CASE f.type = "I" /\ f.ns = r % Modulus
  <2>1. Handed(d, f.data, v.b, k, m + n, r, r + 1, v.hi)
    BY <1>10, <1>11 DEF n
  <2>2. PICK hi \in Nat : Spoke(d, v.b, k, hi, m + n, r, r + 1, v.hi)
    BY <2>1 DEF Handed
  <2>3. d.state \in {"CONNECTED", "DISCONNECTING"} /\ DataTold(d) = <<f.data>>
    BY <2>1, ToldChunk DEF Handed
  <2>4. Len(DataTold(d)) = 1
    BY <2>3
  <2>5. Spoken(v, d, n, k, hi)
    BY <1>1, <1>3, <1>9, <2>2, <2>3, <2>4 DEF Spoken, m, r
  <2>6. TookIn(v, w, d, Tail(chan[p]), k)
    BY <1>1, <1>3, <1>8, <1>11, <2>3 DEF TookIn, f, r
  <2>7. QED BY <1>1, <1>2, <2>5, <2>6, TalkStep DEF v, w
<1>12. CASE ~(f.type = "I" /\ f.ns = r % Modulus)
  <2>1. Talking(d, v.b, k, m, r, r, v.hi) /\ d.state = "CONNECTED" /\ d.up = <<>>
    BY <1>4, <1>10, <1>12 DEF Tells
  <2>2. DataTold(d) = <<>> /\ Told(d) = {}
    BY <2>1, TellsNothing, ToldNothing
  <2>3. n = 0
    BY <1>1, <2>2 DEF Silent, n
  <2>4. \E hi \in Nat : Spoken(v, d, 0, k, hi)
    <3>1. m + 0 = m /\ v.n + 0 <= MaxSend /\ 0 \in Nat
      BY <1>1, <1>3, <2>3
    <3>2. Talking(d, v.b, k, m + 0, r, r, v.hi)
      BY <2>1, <3>1
    <3>3. QED BY <1>3, <1>9, <2>1, <2>2, <3>1, <3>2, TalkingSpoken DEF m, r
  <2>5. TookIn(v, w, d, Tail(chan[p]), k)
    BY <1>1, <1>3, <1>8, <2>2 DEF TookIn, f
  <2>6. QED BY <1>1, <1>2, <2>3, <2>4, <2>5, TalkStep DEF v, w
<1>13. QED BY <1>11, <1>12

\* To do nothing is to talk, too.
LEMMA TalksOn ==
    ASSUME NEW v, NEW w, Voice(v), Up(v)
    PROVE  Talks(v, w, v)
<1>1. /\ v.n \in 0 .. MaxSend /\ v.hi \in Nat /\ v.lo \in Nat /\ v.hi <= v.lo + Window
      /\ v.b \in Nat /\ v.b + v.hi <= v.n + 1
      /\ \A i \in 1 .. Len(v.got) : v.got[i] \in v.seen
  BY VoiceTypes DEF Voice
<1>2. Grows(v, v)
  BY <1>1 DEF Grows
<1>3. QED BY <1>2 DEF Talks, Silence

\* The call is answered: a session begins, with the chunks that wait for it
\* (none yet).
LEMMA EstablishStep ==
    ASSUME LinkInv, NEW p \in Station, NEW react \in Reactions(p), Deliver(p, react),
           conn[p].state = "CONNECTING", Head(chan[p]).type = "UA"
    PROVE  Sustains(p)
<1> DEFINE q == Peer(p)
           v == View(p)
           w == View(q)
           v2 == View(p)'
           w2 == View(q)'
           f == Head(chan[p])
           d == Route(p, f, react)
<1>1. /\ chan[p] # <<>> /\ f \in Frame /\ calls' = calls
      /\ Told(d) = {} => react = Silent
      /\ Becomes(p, d, Tail(chan[p]), FALSE, Len(react.reply))
      /\ d = HandleFrame(conn[p], f, react)
  BY DeliverFacts
<1>2. /\ Good(v, w) /\ Speaker(p) /\ Sound(conn[p]) /\ TypeOK
      /\ conn[p].out = <<>> /\ conn[p].up = <<>>
  BY LinkEnds
<1>3. v.in = chan[p] /\ v.state = conn[p].state /\ v.called \in BOOLEAN
      /\ v2.called \in BOOLEAN
  BY DEF View
<1>4. /\ Calling(v) /\ Voice(v)
      /\ v.lo = 0 /\ v.hi = 0 /\ v.got = <<>> /\ v.b = v.n + 1 /\ v.n \in Nat /\ v.b \in Nat
  BY <1>2, <1>3, VoiceTypes DEF Calling, Good, Half
<1>5. conn[p].unacked = <<>> /\ conn[p].sendBuf = <<>> /\ Fit(conn[p])
  BY <1>2 DEF Speaker, Sound
<1> HIDE DEF d
<1>6. /\ \A b \in Nat : Talking(d, b, 0, 0, 0, 0, 0)
      /\ d.state = "CONNECTED" /\ NoneTold(d)
  BY <1>1, <1>2, <1>5, RecvConnectingDoes
<1>7. Told(d) = {} /\ DataTold(d) = <<>> /\ ToldSet(d) = {} /\ Len(react.reply) = 0
  BY <1>1, <1>6, ToldNothing DEF ToldSet, Silent
<1>8. Becomes(p, d, Tail(chan[p]), FALSE, 0)
  BY <1>1, <1>7
<1>9. Goes(v, v2, d, Tail(chan[p]), 0) /\ Unmoved(w, w2) /\ w2.in = w.in \o d.out
  BY <1>1, <1>8, StepViews
<1> HIDE DEF v, w, v2, w2, f
<1>10. Talking(d, v.b, 0, 0, 0, 0, 0)
  BY <1>4, <1>6
<1>11. d.unacked = <<>> /\ d.sendBuf = <<>> /\ d.out \in Seq(Frame)
  <2>1. d.unacked \in Seq(UnackedFrame) /\ d.sendBuf \in Seq(Data) /\ d.out \in Seq(Frame)
    BY <1>10 DEF Talking, Fit, ConnType
  <2>2. 0 + Len(d.unacked) + Len(d.sendBuf) = 0
    BY <1>10 DEF Talking, InStep
  <2>3. Len(d.unacked) = 0 /\ Len(d.sendBuf) = 0
    <3>1. Len(d.unacked) \in Nat /\ Len(d.sendBuf) \in Nat
      BY <2>1, LenProperties
    <3>2. PICK x \in Nat, y \in Nat : x = Len(d.unacked) /\ y = Len(d.sendBuf)
      BY <3>1
    <3>3. 0 + x + y = 0
      BY <2>2, <3>2
    <3>4. x = 0 /\ y = 0
      BY <3>3
    <3>5. QED BY <3>2, <3>4
  <2>4. QED BY <2>1, <2>3, EmptySeq
<1>12. /\ v2.state = "CONNECTED" /\ v2.n = v.n /\ v2.in = Tail(v.in) /\ v2.called = v.called
       /\ v2.starts = v.starts /\ v2.b = v.b /\ v2.got = v.got /\ v2.seen = v.seen
  BY <1>3, <1>4, <1>6, <1>7, <1>9 DEF Goes
<1>13. v2.lo = 0 /\ v2.hi = 0
  <2>1. /\ v2.lo = v2.n + 1 - v2.b - Len(d.unacked) - Len(d.sendBuf)
        /\ v2.hi = v2.lo + Len(d.unacked)
    BY <1>6, <1>9 DEF Goes
  <2>2. QED BY <1>4, <1>11, <1>12, <2>1
<1>14. Up(v2) /\ Stays(v, v2)
  BY <1>4, <1>12, <1>13 DEF Up, Stays
<1>15. Good(v2, w)
  BY <1>1, <1>2, <1>3, <1>4, <1>12, <1>14, EstablishGood DEF f
<1>16. Talks(v2, w, v2)
  BY <1>14, <1>15, TalksOn DEF Good, Half
<1>17. Speaks(v2, v2, w, w2, d.out)
  <2>1. Says(d.out, v.b, 0, 0 + Len(d.unacked), 0, 0)
    BY <1>10 DEF Talking
  <2>2. 0 + Len(d.unacked) = 0 /\ Len(v2.got) = 0
    BY <1>4, <1>11, <1>12
  <2>3. Says(d.out, v2.b, v2.lo, v2.hi, Len(v2.got), Len(v2.got))
    BY <1>12, <1>13, <2>1, <2>2
  <2>4. QED BY <1>9, <1>11, <2>3 DEF Speaks
<1>18. Good(v2, w2)
  BY <1>15, <1>16, <1>17, TalkGood
<1>19. Speaker(p)'
  <2>1. v2.n + 1 - v2.b = 0 /\ Len(v2.got) = 0
    BY <1>4, <1>12
  <2>2. InStep(d, v2.b, v2.lo, v2.n + 1 - v2.b) /\ d.vr = Len(v2.got) % Modulus
    BY <1>10, <1>12, <1>13, <2>1 DEF Talking
  <2>3. QED BY <1>2, <1>6, <1>8, <2>2, SpeakerNext DEF v2
<1>20. Advances(v, w, v2)
  BY <1>12, <1>14 DEF Stays, Idles, Advances
<1>21. QED BY <1>18, <1>19, <1>20 DEF Sustains, v, w, v2, w2

-----------------------------------------------------------------------------
(* The actions                                                             *)

\* A single unnumbered frame is of its own type.
LEMMA OneFrame ==
    ASSUME NEW K, NEW t \in {"SABM", "DISC", "UA", "DM"}, t \in K, NEW pf \in BOOLEAN
    PROVE  Utters(<<UFrame(t, pf)>>, K) /\ UFrame(t, pf) \in Frame /\ UFrame(t, pf).type = t
<1>1. UFrame(t, pf) \in Frame
  BY FrameTypes, ModulusAssumption DEF SeqNo
<1>2. UFrame(t, pf).type = t
  BY DEF UFrame
<1>3. QED BY <1>1, <1>2 DEF Utters

\* disconnect and the destructor.
LEMMA HangUpStep ==
    ASSUME LinkInv, NEW p \in Station, AppDisconnect(p) \/ AppDestroy(p)
    PROVE  Sustains(p)
<1>1. /\ TypeOK /\ Sound(conn[p]) /\ Fit(conn[p]) /\ conn[p].state \in State
      /\ conn[p].out = <<>> /\ conn[p].up = <<>>
  BY LinkEnds DEF Sound, Fit, ConnType
<1>2. Takes(p, chan[p])
  BY DEF Takes
<1>3. Utters(<<UFrame("DISC", TRUE)>>, {"DISC", "DM"})
  BY OneFrame
<1>4. CASE AppDisconnect(p)
  <2> DEFINE c == Disconnect(conn[p])
  <2>1. /\ conn[p].state \in {"CONNECTED", "CONNECTING"}
        /\ Becomes(p, c, chan[p], FALSE, 0) /\ calls' = calls
    BY <1>4 DEF AppDisconnect
  <2>2. /\ c.state = "DISCONNECTING" /\ NoneTold(c)
        /\ c.out = <<UFrame("DISC", TRUE)>>
    BY <1>1, <2>1, HangUpDoes
  <2> HIDE DEF c
  <2>3. QED BY <1>2, <1>3, <2>1, <2>2, EndStep
<1>5. CASE AppDestroy(p)
  <2> DEFINE c == Destroy(conn[p])
  <2>1. /\ conn[p].state # "DISCONNECTED"
        /\ Becomes(p, c, chan[p], FALSE, 0) /\ calls' = calls
    BY <1>5 DEF AppDestroy
  <2>2. c.state = "DISCONNECTED" /\ NoneTold(c) /\ Utters(c.out, {"DISC", "DM"})
    <3>1. CASE conn[p].state \in {"CONNECTED", "CONNECTING"}
      <4>1. c.state = "DISCONNECTED" /\ NoneTold(c) /\ c.out = <<UFrame("DISC", TRUE)>>
        BY <1>1, <3>1, HangUpDoes
      <4>2. QED BY <1>3, <4>1
    <3>2. CASE conn[p].state \notin {"CONNECTED", "CONNECTING"}
      <4>1. c = NewConnection
        BY <3>2 DEF Destroy
      <4>2. c.state = "DISCONNECTED" /\ c.out = <<>> /\ c.up = <<>>
        BY <4>1 DEF NewConnection
      <4>3. QED BY <4>2, TellsNothing DEF Utters
    <3>3. QED BY <3>1, <3>2
  <2> HIDE DEF c
  <2>3. QED BY <1>2, <2>1, <2>2, EndStep
<1>6. QED BY <1>4, <1>5

\* A frame for a station that has no session: a listener accepts a SABM.
LEMMA DeliverShut ==
    ASSUME LinkInv, NEW p \in Station, NEW react \in Reactions(p), Deliver(p, react),
           conn[p].state = "DISCONNECTED"
    PROVE  Sustains(p)
<1> DEFINE f == Head(chan[p])
           c == Route(p, f, react)
           n == Len(react.reply)
<1>1. /\ chan[p] # <<>> /\ f \in Frame /\ calls' = calls
      /\ Told(c) = {} => react = Silent
      /\ Restarts(p, f) => Becomes(p, c, Tail(chan[p]), TRUE, n)
      /\ ~Restarts(p, f) => Becomes(p, c, Tail(chan[p]), FALSE, n)
  BY DeliverFacts
<1>2. conn[p] = NewConnection /\ Takes(p, Tail(chan[p]))
  BY <1>1, LinkEnds DEF Speaker, Takes
<1>3. f.pf \in BOOLEAN
  BY <1>1 DEF Frame
<1>4. NoneTold(c) => n = 0
  BY <1>1, ToldNothing DEF Silent
<1>5. CASE Restarts(p, f)
  <2>1. f.type = "SABM" /\ p \in Listeners
    BY <1>5 DEF Restarts
  <2>2. c = HandleFrame(NewConnection, f, react)
    BY <1>2, <2>1 DEF Route
  <2> HIDE DEF c
  <2>3. Fresh(c) /\ c.out = <<UFrame("UA", f.pf)>> /\ NoneTold(c)
    BY <1>1, <2>1, <2>2, RecvDisconnectedDoes
  <2>4. UFrame("UA", f.pf) \in Frame /\ UFrame("UA", f.pf).type = "UA"
    BY <1>3, OneFrame
  <2>5. Becomes(p, c, Tail(chan[p]), TRUE, 0)
    BY <1>1, <1>4, <1>5, <2>3
  <2>6. Head(chan[p]).type = "SABM"
    BY <2>1
  <2> HIDE DEF f
  <2>7. QED BY <1>1, <2>3, <2>4, <2>5, <2>6, AcceptStep
<1>6. CASE ~Restarts(p, f)
  <2>1. c.state = "DISCONNECTED" /\ c.out = <<UFrame("DM", f.pf)>> /\ NoneTold(c)
    <3>1. CASE f.type = "SABM"
      <4>1. p \notin Listeners
        BY <1>6, <3>1 DEF Restarts
      <4>2. c = Emit(NewConnection, UFrame("DM", f.pf))
        BY <1>2, <3>1, <4>1 DEF Route
      <4>3. /\ c.state = "DISCONNECTED" /\ c.out = Append(<<>>, UFrame("DM", f.pf))
            /\ c.up = <<>>
        BY <4>2 DEF Emit, NewConnection
      <4>4. QED BY <4>3, TellsNothing
    <3>2. CASE f.type # "SABM"
      <4>1. c = HandleFrame(NewConnection, f, react)
        BY <1>2, <3>2 DEF Route
      <4> HIDE DEF c
      <4>2. QED BY <1>1, <3>2, <4>1, RecvDisconnectedDoes
    <3>3. QED BY <3>1, <3>2
  <2>2. Utters(c.out, {"DISC", "DM"})
    BY <1>3, <2>1, OneFrame
  <2> HIDE DEF c
  <2>3. Becomes(p, c, Tail(chan[p]), FALSE, 0)
    BY <1>1, <1>4, <1>6, <2>1
  <2>4. QED BY <1>1, <1>2, <2>1, <2>2, <2>3, EndStep
<1>7. QED BY <1>5, <1>6

\* A frame for a station whose call is open.
LEMMA DeliverCalling ==
    ASSUME LinkInv, NEW p \in Station, NEW react \in Reactions(p), Deliver(p, react),
           conn[p].state = "CONNECTING"
    PROVE  Sustains(p)
<1> DEFINE f == Head(chan[p])
           c == Route(p, f, react)
<1>1. /\ chan[p] # <<>> /\ f \in Frame /\ calls' = calls
      /\ Told(c) = {} => react = Silent
      /\ Becomes(p, c, Tail(chan[p]), FALSE, Len(react.reply))
      /\ c = HandleFrame(conn[p], f, react)
  BY DeliverFacts
<1>2. /\ Speaker(p) /\ Fit(conn[p]) /\ conn[p].out = <<>> /\ conn[p].up = <<>>
  BY LinkEnds DEF Sound
<1>3. conn[p].unacked = <<>> /\ conn[p].sendBuf = <<>>
  BY <1>2 DEF Speaker
<1>4. f.pf \in BOOLEAN /\ Takes(p, Tail(chan[p]))
  BY <1>1 DEF Frame, Takes
<1> HIDE DEF c
<1>5. CASE f.type = "UA"
  BY <1>5, EstablishStep
<1>6. /\ f.type = "DM" => c.state = "DISCONNECTED" /\ c.out = <<>> /\ NoneTold(c)
      /\ f.type = "SABM" =>
            /\ c.state = "CONNECTING" /\ c.out = <<UFrame("UA", f.pf)>>
            /\ c.up = <<>> /\ c.unacked = <<>> /\ c.sendBuf = <<>>
      /\ f.type \notin {"UA", "DM", "SABM"} => c = conn[p]
  BY <1>1, <1>2, <1>3, RecvConnectingDoes
<1>7. f.type # "UA" => NoneTold(c)
  BY <1>2, <1>6, TellsNothing
<1>8. NoneTold(c) => Becomes(p, c, Tail(chan[p]), FALSE, 0)
  <2>1. NoneTold(c) => Len(react.reply) = 0
    BY <1>1, ToldNothing DEF Silent
  <2>2. QED BY <1>1, <2>1
<1>9. CASE f.type = "DM"
  BY <1>1, <1>4, <1>6, <1>7, <1>8, <1>9, EndStep DEF Utters
<1>10. CASE f.type = "SABM"
  <2>1. UFrame("UA", f.pf) \in Frame /\ UFrame("UA", f.pf).type = "UA"
    BY <1>4, OneFrame
  <2>2. Alike(conn[p], c)
    BY <1>3, <1>6, <1>10 DEF Alike
  <2>3. NoneTold(c) /\ Becomes(p, c, Tail(chan[p]), FALSE, 0) /\ Head(chan[p]).type = "SABM"
        /\ c.out = <<UFrame("UA", f.pf)>>
    BY <1>6, <1>7, <1>8, <1>10
  <2> HIDE DEF f
  <2>4. QED BY <1>1, <2>1, <2>2, <2>3, AnswerStep
<1>11. CASE f.type \notin {"UA", "DM", "SABM"}
  <2>1. c = conn[p] /\ Alike(conn[p], c) /\ c.state # "DISCONNECTED"
    BY <1>6, <1>11 DEF Alike
  <2>2. NoneTold(c) /\ Becomes(p, c, Tail(chan[p]), FALSE, 0) /\ Utters(c.out, {"DISC"})
    BY <1>2, <1>7, <1>8, <1>11, <2>1 DEF Utters
  <2>3. QED BY <1>1, <1>4, <2>1, <2>2, KeepStep
<1>12. QED BY <1>5, <1>9, <1>10, <1>11

\* A frame for a station that hangs up.
LEMMA DeliverClosing ==
    ASSUME LinkInv, NEW p \in Station, NEW react \in Reactions(p), Deliver(p, react),
           conn[p].state = "DISCONNECTING"
    PROVE  Sustains(p)
<1> DEFINE f == Head(chan[p])
           c == Route(p, f, react)
<1>1. /\ chan[p] # <<>> /\ f \in Frame /\ calls' = calls
      /\ Told(c) = {} => react = Silent
      /\ Becomes(p, c, Tail(chan[p]), FALSE, Len(react.reply))
      /\ c = HandleFrame(conn[p], f, react)
  BY DeliverFacts
<1>2. Fit(conn[p]) /\ conn[p].out = <<>> /\ conn[p].up = <<>> /\ Takes(p, Tail(chan[p]))
  BY <1>1, LinkEnds DEF Sound, Takes
<1> HIDE DEF c
<1>3. c = conn[p] \/ (c.state = "DISCONNECTED" /\ c.out = <<>> /\ NoneTold(c))
  BY <1>1, <1>2, RecvDisconnectingDoes
<1>4. NoneTold(c)
  BY <1>2, <1>3, TellsNothing
<1>5. Becomes(p, c, Tail(chan[p]), FALSE, 0)
  <2>1. Len(react.reply) = 0
    BY <1>1, <1>4, ToldNothing DEF Silent
  <2>2. QED BY <1>1, <2>1
<1>6. /\ c.state \in {"DISCONNECTED", "DISCONNECTING"} /\ Utters(c.out, {"DISC", "DM"})
  BY <1>2, <1>3 DEF Utters
<1>7. QED BY <1>1, <1>2, <1>4, <1>5, <1>6, EndStep

\* A frame for a station in a session.
LEMMA DeliverUp ==
    ASSUME LinkInv, NEW p \in Station, NEW react \in Reactions(p), Deliver(p, react),
           conn[p].state = "CONNECTED"
    PROVE  Sustains(p)
<1> DEFINE f == Head(chan[p])
           c == Route(p, f, react)
<1>1. /\ chan[p] # <<>> /\ f \in Frame /\ calls' = calls
      /\ Told(c) = {} => react = Silent
      /\ Restarts(p, f) => Becomes(p, c, Tail(chan[p]), TRUE, Len(react.reply))
      /\ ~Restarts(p, f) => Becomes(p, c, Tail(chan[p]), FALSE, Len(react.reply))
      /\ c = HandleFrame(conn[p], f, react)
  BY DeliverFacts
<1>2. Fit(conn[p]) /\ conn[p].out = <<>> /\ conn[p].up = <<>> /\ Takes(p, Tail(chan[p]))
  BY <1>1, LinkEnds DEF Sound, Takes
<1>3. f.pf \in BOOLEAN /\ f.type \in FrameType
  BY <1>1 DEF Frame
<1>4. Restarts(p, f) <=> f.type = "SABM"
  BY DEF Restarts
<1> HIDE DEF c
<1>5. /\ f.type = "DISC" =>
            /\ c.state = "DISCONNECTED" /\ c.out = <<UFrame("UA", f.pf)>>
            /\ NoneTold(c)
      /\ f.type = "DM" => c.state = "DISCONNECTED" /\ c.out = <<>> /\ NoneTold(c)
      /\ f.type = "SABM" =>
            Fresh(c) /\ c.out = <<UFrame("UA", f.pf)>> /\ NoneTold(c)
      /\ f.type \in {"UA", "OTHER"} => Beside(conn[p], c) /\ Tells(conn[p], c)
  BY <1>1, <1>2, RecvConnectedDoes
<1>6. ~Numbered(f) => NoneTold(c)
  <2>1. f.type \in {"UA", "OTHER"} => NoneTold(c)
    BY <1>2, <1>5, TellsNothing DEF Tells
  <2>2. QED BY <1>3, <1>5, <2>1 DEF FrameType, Numbered
<1>7. NoneTold(c) => Len(react.reply) = 0
  BY <1>1, ToldNothing DEF Silent
<1>8. CASE Numbered(f)
  BY <1>8, HearStep
<1>9. CASE f.type = "SABM"
  <2>1. UFrame("UA", f.pf) \in Frame /\ UFrame("UA", f.pf).type = "UA"
    BY <1>3, OneFrame
  <2>2. Becomes(p, c, Tail(chan[p]), TRUE, 0) /\ NoneTold(c) /\ Fresh(c)
        /\ Head(chan[p]).type = "SABM" /\ c.out = <<UFrame("UA", f.pf)>>
    BY <1>1, <1>4, <1>5, <1>7, <1>9
  <2> HIDE DEF f
  <2>3. QED BY <1>1, <2>1, <2>2, AcceptStep
<1>10. CASE f.type = "DISC"
  <2>1. Utters(c.out, {"UA"})
    BY <1>3, <1>5, <1>10, OneFrame
  <2>2. Becomes(p, c, Tail(chan[p]), FALSE, 0) /\ NoneTold(c) /\ c.state = "DISCONNECTED"
    BY <1>1, <1>4, <1>5, <1>7, <1>10
  <2>3. QED BY <1>1, <1>10, <2>1, <2>2, BowStep
<1>11. CASE f.type = "DM"
  <2>1. /\ Becomes(p, c, Tail(chan[p]), FALSE, 0) /\ NoneTold(c) /\ c.state = "DISCONNECTED"
        /\ Utters(c.out, {"DISC", "DM"})
    BY <1>1, <1>4, <1>5, <1>7, <1>11 DEF Utters
  <2>2. QED BY <1>1, <1>2, <2>1, EndStep
<1>12. CASE f.type \in {"UA", "OTHER"}
  <2>1. Alike(conn[p], c) /\ c.out = <<>> /\ c.state = "CONNECTED"
    BY <1>2, <1>5, <1>12 DEF Beside, Tells, Alike
  <2>2. Becomes(p, c, Tail(chan[p]), FALSE, 0) /\ NoneTold(c) /\ Utters(c.out, {"DISC"})
    BY <1>1, <1>3, <1>4, <1>6, <1>7, <1>12, <2>1 DEF Utters, Numbered
  <2>3. QED BY <1>1, <1>2, <2>1, <2>2, KeepStep
<1>13. QED BY <1>3, <1>8, <1>9, <1>10, <1>11, <1>12 DEF FrameType, Numbered

\* Timers of a station that calls or hangs up.  The retry of a call goes out
\* on a silent path: the one place where the answer to it counts as lost
\* when T1 expires.
LEMMA ExpireStep ==
    ASSUME LinkInv, "CONNECTING" \notin PrematureT1,
           NEW p \in Station, NEW due \in SUBSET Timer, Expire(p, due)
    PROVE  Sustains(p)
<1> DEFINE c == conn[p]
           d == Tick(c, due)
<1>1. /\ TypeOK /\ Speaker(p) /\ Sound(c) /\ c.out = <<>> /\ c.up = <<>>
      /\ c.state \in State
  BY LinkEnds DEF Sound, Fit, ConnType
<1>2. /\ due # {} /\ \A t \in due : MayExpire(p, t)
      /\ Becomes(p, d, chan[p], FALSE, 0) /\ calls' = calls
  BY DEF Expire
<1>3. Takes(p, chan[p])
  BY DEF Takes
<1>4. c.state # "DISCONNECTED"
  <2>1. c.state = "DISCONNECTED" => \A t \in Timer : ~c[t]
    BY <1>1 DEF Speaker, NewConnection, Timer
  <2>2. PICK t \in due : t \in Timer /\ c[t]
    BY <1>2 DEF MayExpire
  <2>3. QED BY <2>1, <2>2
<1>5. CASE c.state = "CONNECTED"
  BY <1>5, TickStep
<1>6. CASE c.state \in {"CONNECTING", "DISCONNECTING"}
  <2> DEFINE f == IF c.state = "CONNECTING" THEN UFrame("SABM", TRUE)
                  ELSE UFrame("DISC", TRUE)
  <2>1. \/ /\ d.state = c.state /\ d.up = <<>>
           /\ d.unacked = c.unacked /\ d.sendBuf = c.sendBuf
           /\ d.out = <<>> \/ ("t1" \in due /\ d.out = <<f>>)
        \/ d.state = "DISCONNECTED" /\ d.out = <<>> /\ NoneTold(d)
    BY <1>1, <1>6, TickUnconnected
  <2>2. Utters(<<UFrame("SABM", TRUE)>>, {"SABM"}) /\ Utters(<<UFrame("DISC", TRUE)>>, {"DISC"})
        /\ Utters(<<>>, {"DISC"}) /\ Utters(<<>>, {"DISC", "DM"})
    BY OneFrame DEF Utters
  <2> HIDE DEF c, d
  <2>3. CASE d.state = "DISCONNECTED" /\ d.out = <<>> /\ NoneTold(d)
    <3>1. Utters(d.out, {"DISC", "DM"}) /\ d.state \in {"DISCONNECTED", "DISCONNECTING"}
      BY <2>2, <2>3
    <3>2. QED BY <1>2, <1>3, <2>3, <3>1, EndStep
  <2>4. CASE /\ d.state = c.state /\ d.up = <<>>
             /\ d.unacked = c.unacked /\ d.sendBuf = c.sendBuf
             /\ d.out = <<>> \/ ("t1" \in due /\ d.out = <<f>>)
    <3>1. Alike(c, d) /\ d.state # "DISCONNECTED" /\ NoneTold(d)
      BY <1>6, <2>4, TellsNothing DEF Alike
    <3>2. CASE Utters(d.out, {"DISC"})
      BY <1>2, <1>3, <3>1, <3>2, KeepStep DEF c
    <3>3. CASE c.state = "CONNECTING" /\ "t1" \in due /\ d.out = <<UFrame("SABM", TRUE)>>
      <4>1. MayExpire(p, "t1")
        BY <1>2, <3>3
      <4>2. Quiet(p)
        BY <3>3, <4>1 DEF MayExpire, c
      <4>3. chan[p] = <<>> /\ chan[Peer(p)] = <<>>
        BY <4>2, TwoStations DEF Quiet
      <4>4. Utters(d.out, {"SABM"}) /\ d.state = "CONNECTING"
        BY <2>2, <2>4, <3>3
      <4>5. QED BY <1>2, <1>3, <3>1, <4>3, <4>4, KeepStep DEF c
    <3>4. QED BY <1>6, <2>2, <2>4, <3>2, <3>3
  <2>5. QED BY <2>1, <2>3, <2>4
<1>7. QED BY <1>1, <1>4, <1>5, <1>6 DEF State

\* A frame is lost.
LEMMA LoseStep ==
    ASSUME LinkInv, NEW p \in Station, Lose(p), Typed'
    PROVE  LinkInv' /\ Steps(p)
<1> DEFINE q == Peer(p)
           v == View(p)
           w == View(q)
           v2 == View(p)'
<1>1. /\ q \in Station /\ q # p /\ Peer(q) = p /\ \A x \in Station : x # p => x = q
  BY TwoStations
<1>2. Good(v, w) /\ TypeOK /\ Speaker(p) /\ Speaker(q)
  BY LinkEnds
<1>3. /\ chan[p] # <<>> /\ chan' = [chan EXCEPT ![p] = Tail(chan[p])]
      /\ conn' = conn /\ calls' = calls /\ count' = count /\ starts' = starts
      /\ got' = got /\ seen' = seen
  BY DEF Lose
<1>4. chan'[p] = Tail(chan[p]) /\ chan'[q] = chan[q]
  BY <1>1, <1>2, <1>3 DEF TypeOK
<1>5. \A x : Base(x)' = Base(x) /\ Lo(x)' = Lo(x) /\ (Speaker(x)' <=> Speaker(x))
  BY <1>3 DEF Base, Lo, Speaker
<1>6. View(q)' = w
  BY <1>3, <1>4, <1>5 DEF View
<1>7. Unmoved(v, v2) /\ v2.in = Tail(v.in) /\ v.in # <<>>
  BY <1>3, <1>4, <1>5 DEF View, Unmoved, Stays
<1> HIDE DEF v, w, v2
<1>8. Good(v2, w)
  BY <1>2, <1>7, DropGood
<1>9. Half(View(p)', View(q)') /\ Half(View(q)', View(p)')
  BY <1>6, <1>8 DEF Good, v2
<1>10. \A x \in Station : Speaker(x)' /\ Half(View(x), View(Peer(x)))'
  <2> TAKE x \in Station
  <2>1. CASE x = p
    BY <1>2, <1>5, <1>9, <2>1
  <2>2. CASE x = q
    BY <1>1, <1>2, <1>5, <1>9, <2>2
  <2>3. QED BY <1>1, <2>1, <2>2
<1>11. Steps(p)
  <2>1. Advances(v, w, v2)
    BY <1>7 DEF Unmoved, Stays, Idles, Advances
  <2>2. Unmoved(w, View(q)')
    BY <1>6 DEF Unmoved, Stays
  <2>3. QED BY <2>1, <2>2 DEF Steps, v, w, v2
<1>12. QED BY <1>10, <1>11 DEF LinkInv

\* The invariant holds at first ...
LEMMA InitLink == Init => LinkInv
<1> SUFFICES ASSUME Init PROVE LinkInv
  OBVIOUS
<1>1. Typed
  BY InitTyped
<1>2. ASSUME NEW p \in Station
      PROVE  /\ conn[p] = NewConnection /\ chan[p] = <<>> /\ calls[p] = 0
             /\ count[p] = 0 /\ starts[p] = {} /\ got[p] = <<>> /\ seen[p] = {}
             /\ Base(p) = 0
  <2>1. /\ conn[p] = NewConnection /\ chan[p] = <<>> /\ calls[p] = 0
        /\ count[p] = 0 /\ starts[p] = {} /\ got[p] = <<>> /\ seen[p] = {}
    BY DEF Init
  <2>2. Base(p) = 0
    BY <2>1 DEF Base
  <2>3. QED BY <2>1, <2>2
<1>3. ASSUME NEW p \in Station
      PROVE  LET v == View(p)
             IN /\ v.state = "DISCONNECTED" /\ v.in = <<>> /\ v.got = <<>> /\ v.n = 0
                /\ v.starts = {} /\ v.b = 0 /\ ~v.called
                /\ ~Up(v) /\ ~Calling(v)
  <2>1. conn[p].state = "DISCONNECTED"
    BY <1>2 DEF NewConnection
  <2>2. (calls[p] > 0) = FALSE
    BY <1>2
  <2>3. View(p).called = FALSE
    BY <2>2 DEF View
  <2>4. QED BY <1>2, <2>1, <2>3 DEF View, Up, Calling
<1>4. ASSUME NEW p \in Station
      PROVE  Half(View(p), View(Peer(p)))
  <2> DEFINE v == View(p)
             w == View(Peer(p))
  <2>1. Peer(p) \in Station
    BY TwoStations
  <2>2. /\ v.in = <<>> /\ v.got = <<>> /\ v.n = 0 /\ v.starts = {} /\ v.b = 0 /\ ~v.called
        /\ ~Up(v) /\ ~Calling(v)
    BY <1>3
  <2>3. w.in = <<>> /\ ~Up(w) /\ ~Calling(w)
    BY <1>3, <2>1
  <2> HIDE DEF v, w
  <2>4. Voice(v)
    BY <2>2, BoundsAssumption DEF Voice
  <2>5. Control(v, w)
    BY <2>2, <2>3, SomeNone DEF Control
  <2>6. Session(w, v)
    BY <2>2, SomeNone DEF Session
  <2>7. QED BY <2>4, <2>5, <2>6 DEF Half, v, w
<1>5. ASSUME NEW p \in Station PROVE Speaker(p)
  BY <1>2 DEF Speaker, NewConnection
<1>6. QED BY <1>1, <1>4, <1>5 DEF LinkInv

\* Every step keeps the invariant, and is the step of one station.
LEMMA NextLink ==
    ASSUME LinkInv, [Next]_vars, "CONNECTING" \notin PrematureT1
    PROVE  LinkInv' /\ \E p \in Station : Steps(p)
<1>a. Typed'
  BY NextTyped DEF LinkInv
<1>b. calls \in [Station -> 0 .. MaxConnects] /\ \A p \in Station : Peer(p) \in Station /\ Peer(p) # p
  BY TwoStations DEF LinkInv, Typed, TypeOK
<1>1. ASSUME NEW p \in Station, Connect(p) PROVE LinkInv' /\ Steps(p)
  <2>1. Becomes(p, StartConnect(NewConnection), chan[p], TRUE, 0)
        /\ calls' = [calls EXCEPT ![p] = @ + 1]
    BY <1>1 DEF Connect
  <2>2. calls'[Peer(p)] = calls[Peer(p)]
    BY <1>b, <2>1
  <2>3. Sustains(p)
    BY <1>1, DialStep
  <2>4. QED BY <1>a, <2>1, <2>2, <2>3, Rejoin
<1>2. ASSUME NEW p \in Station, NEW n \in 1 .. MaxSend, AppSend(p, n) PROVE LinkInv' /\ Steps(p)
  <2> DEFINE c == Send(conn[p], [i \in 1 .. n |-> count[p] + i])
  <2>1. Becomes(p, c, chan[p], FALSE, n) /\ calls' = calls
    BY <1>2, Zenon DEF AppSend
  <2>2. Sustains(p)
    BY <1>2, SendStep
  <2> HIDE DEF c
  <2>3. QED BY <1>a, <2>1, <2>2, Rejoin
<1>3. ASSUME NEW p \in Station, AppDisconnect(p) PROVE LinkInv' /\ Steps(p)
  <2>1. Becomes(p, Disconnect(conn[p]), chan[p], FALSE, 0) /\ calls' = calls
    BY <1>3 DEF AppDisconnect
  <2>2. Sustains(p)
    BY <1>3, HangUpStep
  <2>3. QED BY <1>a, <2>1, <2>2, Rejoin
<1>4. ASSUME NEW p \in Station, AppDestroy(p) PROVE LinkInv' /\ Steps(p)
  <2>1. Becomes(p, Destroy(conn[p]), chan[p], FALSE, 0) /\ calls' = calls
    BY <1>4 DEF AppDestroy
  <2>2. Sustains(p)
    BY <1>4, HangUpStep
  <2>3. QED BY <1>a, <2>1, <2>2, Rejoin
<1>5. ASSUME NEW p \in Station, NEW react \in Reactions(p), Deliver(p, react) PROVE LinkInv' /\ Steps(p)
  <2> DEFINE f == Head(chan[p])
             c == Route(p, f, react)
             fresh == Restarts(p, f)
             n == Len(react.reply)
  <2>1. Becomes(p, c, Tail(chan[p]), fresh, n) /\ calls' = calls
    BY <1>5 DEF Deliver
  <2>2. conn[p].state \in State
    BY LinkEnds DEF Sound, Fit, ConnType
  <2>3. Sustains(p)
    BY <1>5, <2>2, DeliverShut, DeliverCalling, DeliverClosing, DeliverUp DEF State
  <2> HIDE DEF c, fresh, n, f
  <2>4. QED BY <1>a, <2>1, <2>3, Rejoin
<1>6. ASSUME NEW p \in Station, Lose(p) PROVE LinkInv' /\ Steps(p)
  BY <1>6, <1>a, LoseStep
<1>7. ASSUME NEW p \in Station, NEW due \in SUBSET Timer, Expire(p, due) PROVE LinkInv' /\ Steps(p)
  <2>1. Becomes(p, Tick(conn[p], due), chan[p], FALSE, 0) /\ calls' = calls
    BY <1>7 DEF Expire
  <2>2. Sustains(p)
    BY <1>7, ExpireStep
  <2>3. QED BY <1>a, <2>1, <2>2, Rejoin
<1>8. CASE UNCHANGED vars
  <2>1. \A x : View(x)' = View(x) /\ (Speaker(x)' <=> Speaker(x))
    BY <1>8 DEF vars, View, Speaker, Base, Lo
  <2>2. \A x \in Station : Speaker(x)' /\ Half(View(x), View(Peer(x)))'
    BY <2>1 DEF LinkInv
  <2>3. LinkInv'
    BY <1>a, <2>2 DEF LinkInv
  <2>4. PICK p \in Station : TRUE
    BY StationAssumption
  <2>5. Steps(p)
    BY <2>1 DEF Steps, Advances, Idles, Unmoved, Stays
  <2>6. QED BY <2>3, <2>5
<1>9. QED BY <1>1, <1>2, <1>3, <1>4, <1>5, <1>6, <1>7, <1>8 DEF Next

-----------------------------------------------------------------------------
(* What the link promises                                                  *)

\* LinkInv is an invariant of the link.
LEMMA LinkAlways ==
    ASSUME "CONNECTING" \notin PrematureT1
    PROVE  Spec => []LinkInv
<1>1. LinkInv /\ [Next]_vars => LinkInv'
  BY NextLink
<1>2. QED BY <1>1, InitLink, PTL DEF Spec

\* The frames in flight of a connected station carry consecutive numbers
\* from va_ to vs_.
THEOREM LinkConsecutive ==
    ASSUME "CONNECTING" \notin PrematureT1
    PROVE  Spec => []Consecutive
<1>1. LinkInv => Consecutive
  <2> SUFFICES ASSUME LinkInv, NEW p \in Station, conn[p].state = "CONNECTED"
               PROVE  /\ \A i \in DOMAIN conn[p].unacked :
                             conn[p].unacked[i].ns = (conn[p].va + i - 1) % Modulus
                      /\ conn[p].vs = (conn[p].va + Len(conn[p].unacked)) % Modulus
    BY DEF Consecutive
  <2> DEFINE c == conn[p]
             u == c.unacked
  <2>a. PICK lo \in Nat : \E b : InStep(c, b, lo, View(p).n + 1 - View(p).b)
    BY SpeakerTalks DEF Talking
  <2>1. PICK b : InStep(c, b, lo, View(p).n + 1 - View(p).b)
    BY <2>a
  <2>2. u \in Seq(UnackedFrame) /\ Len(u) \in Nat /\ DOMAIN u = 1 .. Len(u)
    BY LinkEnds, LenProperties DEF Sound, Fit, ConnType
  <2>3. /\ \A i \in 1 .. Len(u) : u[i].ns = (lo + i - 1) % Modulus
        /\ c.va = lo % Modulus /\ c.vs = (lo + Len(u)) % Modulus
    <3>1. /\ \A i \in 1 .. Len(u) :
                u[i] = [ns |-> (lo + i - 1) % Modulus, data |-> b + lo + i - 1]
          /\ c.va = lo % Modulus /\ c.vs = (lo + Len(u)) % Modulus
      BY <2>1, Zenon DEF InStep
    <3>2. \A i \in 1 .. Len(u) : u[i].ns = (lo + i - 1) % Modulus
      <4> HIDE DEF u
      <4> TAKE i \in 1 .. Len(u)
      <4>1. u[i] = [ns |-> (lo + i - 1) % Modulus, data |-> b + lo + i - 1]
        BY <3>1
      <4>2. QED BY <4>1
    <3>3. QED BY <3>1, <3>2
  <2> HIDE DEF c, u
  <2>4. \A i \in 1 .. Len(u) : u[i].ns = (c.va + i - 1) % Modulus
    <3> TAKE i \in 1 .. Len(u)
    <3>1. PICK x \in Nat : x = i - 1
      BY <2>2
    <3>2. ((lo % Modulus) + x) % Modulus = (lo + x) % Modulus
      BY CountOn
    <3>3. lo % Modulus \in Nat
      <4>1. lo % Modulus \in SeqNo
        BY ModType
      <4>2. QED BY <4>1, ModulusAssumption DEF SeqNo
    <3>4. c.va + i - 1 = (lo % Modulus) + x /\ lo + i - 1 = lo + x
      BY <2>2, <2>3, <3>1, <3>3
    <3>5. QED BY <2>3, <3>2, <3>4
  <2>5. c.vs = (c.va + Len(u)) % Modulus
    BY <2>2, <2>3, CountOn
  <2>6. QED BY <2>2, <2>4, <2>5 DEF c, u
<1>2. QED BY <1>1, LinkAlways, PTL

\* When both ends are up and nothing is on the air, what each expects next
\* lies in the window of the other.
THEOREM LinkWindowsAgree ==
    ASSUME "CONNECTING" \notin PrematureT1
    PROVE  Spec => []WindowsAgree
<1>1. LinkInv => WindowsAgree
  <2> SUFFICES ASSUME LinkInv, \A p \in Station : conn[p].state = "CONNECTED",
                      NEW p \in Station
               PROVE  \E k \in 0 .. Len(conn[p].unacked) :
                          conn[Peer(p)].vr = (conn[p].va + k) % Modulus
    BY DEF WindowsAgree
  <2> DEFINE q == Peer(p)
             v == View(p)
             w == View(q)
  <2>1. q \in Station /\ Peer(q) = p
    BY TwoStations
  <2>2. /\ Talking(conn[p], v.b, v.lo, v.n + 1 - v.b, Len(v.got), Len(v.got), v.hi)
        /\ Good(v, w) /\ Up(v) /\ v.lo \in Nat /\ v.hi \in Nat
        /\ v.hi = v.lo + Len(conn[p].unacked)
    BY SpeakerTalks
  <2>3. /\ Talking(conn[q], w.b, w.lo, w.n + 1 - w.b, Len(w.got), Len(w.got), w.hi)
        /\ Up(w) /\ Len(w.got) \in Nat
    BY <2>1, SpeakerTalks
  <2>4. conn[p].va = v.lo % Modulus /\ conn[q].vr = Len(w.got) % Modulus
    BY <2>2, <2>3 DEF Talking, InStep
  <2>5. Joined(v, w)
    BY <2>2, <2>3 DEF Joined, On
  <2> HIDE DEF v, w
  <2>6. v.lo <= Len(w.got) /\ Len(w.got) <= v.hi
    BY <2>2, <2>5, JoinedFacts DEF Good, Half
  <2>7. Len(conn[p].unacked) \in Nat
    BY LinkEnds DEF Sound, Fit, ConnType
  <2>8. PICK k \in Nat : v.lo + k = Len(w.got) /\ k \in 0 .. Len(conn[p].unacked)
    <3>1. Len(w.got) - v.lo \in Nat /\ v.lo + (Len(w.got) - v.lo) = Len(w.got)
          /\ Len(w.got) - v.lo \in 0 .. Len(conn[p].unacked)
      BY <2>2, <2>3, <2>6, <2>7
    <3>2. QED BY <3>1
  <2>9. ((v.lo % Modulus) + k) % Modulus = (v.lo + k) % Modulus
    BY <2>2, CountOn
  <2>10. QED BY <2>4, <2>8, <2>9
<1>2. QED BY <1>1, LinkAlways, PTL

\* What a talk acknowledges, the other end has got.
LEMMA TalkAcked ==
    ASSUME NEW v, NEW w, Voice(v), Voice(w), Session(w, v), Session(v, w),
           NEW u, Talks(v, w, u)
    PROVE  u.lo = v.lo \/ v.b .. v.b + u.lo - 1 \subseteq w.seen
<1>1. SUFFICES ASSUME Reads(v, w, u) PROVE v.b .. v.b + u.lo - 1 \subseteq w.seen
  BY DEF Talks, Silence
<1> DEFINE f == Head(v.in)
           h == MostTaken(w, v)
<1>2. v.in \in Seq(Frame) /\ v.in # <<>> /\ f \in Frame /\ Numbered(f) /\ Up(v)
  BY <1>1, VoiceTypes, HeadTailProperties DEF Reads, Talks
<1>3. 1 \in Live(v) /\ v.in[1] = f
  <2>1. f.type # "SABM"
    BY <1>2 DEF Numbered
  <2>2. 1 \in Before(v.in)
    BY <1>2, <2>1, SectionsTail
  <2>3. QED BY <1>2, <2>2 DEF Live
<1>4. f \in Answers(v.lo, h, v.b, w.seen)
  BY <1>2, <1>3 DEF Session, Runs
<1> HIDE DEF f
<1>5. PICK k \in v.lo .. h : f.nr = k % Modulus /\ v.b .. v.b + k - 1 \subseteq w.seen
  BY <1>2, <1>4 DEF Answers
<1>6. v.lo \in Nat /\ v.hi \in Nat /\ v.hi <= v.lo + Window /\ h \in Nat /\ h <= v.hi
  BY <1>2, VoiceTypes, TopTypes
<1>7. u.lo \in v.lo .. h /\ f.nr = u.lo % Modulus
  BY <1>1 DEF Reads, f
<1> HIDE DEF h
<1>8. PICK x \in Nat : x = v.lo
  BY <1>6
<1>9x. PICK i \in x .. x + Window : i = u.lo
  BY <1>6, <1>7, <1>8, WindowAssumption
<1>9. k \in x .. x + Window /\ i % Modulus = k % Modulus
  BY <1>5, <1>6, <1>7, <1>8, <1>9x, WindowAssumption
<1>10. i = k
  BY <1>9, InWindow
<1>11. QED BY <1>5, <1>9x, <1>10

\* The chunks in p's queues are the session's from lo on.
LEMMA PendingIs ==
    ASSUME NEW c, Fit(c), NEW b \in Nat, NEW lo \in Nat, NEW m \in Nat, InStep(c, b, lo, m)
    PROVE  Pending(c) = b + lo .. b + m - 1
<1> DEFINE u == c.unacked
           s == c.sendBuf
<1>1. /\ u \in Seq(UnackedFrame) /\ s \in Seq(Data)
      /\ Len(u) \in Nat /\ Len(s) \in Nat
      /\ DOMAIN u = 1 .. Len(u) /\ DOMAIN s = 1 .. Len(s)
  BY LenProperties DEF Fit, ConnType
<1>2. lo + Len(u) + Len(s) = m
  BY DEF InStep
<1>3. \A i \in 1 .. Len(u) : u[i] = [ns |-> (lo + i - 1) % Modulus, data |-> b + lo + i - 1]
  BY DEF InStep
<1>4. \A i \in 1 .. Len(s) : s[i] = b + lo + Len(u) + i - 1
  BY DEF InStep
<1>5. Pending(c) = {s[i] : i \in 1 .. Len(s)} \cup {u[i].data : i \in 1 .. Len(u)}
  BY <1>1 DEF Pending
<1> HIDE DEF u, s
<1>6. PICK x \in Nat, y \in Nat : x = Len(u) /\ y = Len(s)
  BY <1>1
<1>7. \A i \in 1 .. x : u[i].data = b + lo + i - 1
  <2> TAKE i \in 1 .. x
  <2>1. u[i] = [ns |-> (lo + i - 1) % Modulus, data |-> b + lo + i - 1]
    BY <1>3, <1>6
  <2>2. QED BY <2>1
<1>8. \A i \in 1 .. y : s[i] = b + lo + x + i - 1
  BY <1>4, <1>6
<1>9. lo + x + y = m
  BY <1>2, <1>6
<1>10. ASSUME NEW d \in Pending(c) PROVE d \in b + lo .. b + m - 1
  <2>1. CASE \E i \in 1 .. x : d = u[i].data
    <3>1. PICK i \in 1 .. x : d = b + lo + i - 1
      BY <1>7, <2>1
    <3>2. QED BY <1>9, <3>1
  <2>2. CASE \E i \in 1 .. y : d = s[i]
    <3>1. PICK i \in 1 .. y : d = b + lo + x + i - 1
      BY <1>8, <2>2
    <3>2. QED BY <1>9, <3>1
  <2>3. QED BY <1>5, <1>6, <2>1, <2>2
<1>11. ASSUME NEW d \in b + lo .. b + m - 1 PROVE d \in Pending(c)
  <2>1. CASE d - b - lo < x
    <3>1. PICK i \in 1 .. x : d = b + lo + i - 1
      <4>1. d - b - lo + 1 \in 1 .. x /\ d = b + lo + (d - b - lo + 1) - 1
        BY <2>1
      <4>2. QED BY <4>1
    <3>2. d = u[i].data
      BY <1>7, <3>1
    <3>3. QED BY <1>5, <1>6, <3>2
  <2>2. CASE ~(d - b - lo < x)
    <3>1. PICK i \in 1 .. y : d = b + lo + x + i - 1
      <4>1. d - b - lo - x + 1 \in 1 .. y /\ d = b + lo + x + (d - b - lo - x + 1) - 1
        BY <1>9, <2>2
      <4>2. QED BY <4>1
    <3>2. d = s[i]
      BY <1>8, <3>1
    <3>3. QED BY <1>5, <1>6, <3>2
  <2>3. QED BY <2>1, <2>2
<1>12. QED BY <1>10, <1>11

\* The same for a station of the link.
LEMMA PendingAre ==
    ASSUME NEW v, Voice(v), Up(v), NEW c, Fit(c), InStep(c, v.b, v.lo, v.n + 1 - v.b)
    PROVE  Pending(c) = v.b + v.lo .. v.n
<1>1. /\ v.b \in Nat /\ v.lo \in Nat /\ v.n \in Nat /\ v.hi \in Nat
      /\ v.b + v.hi <= v.n + 1
  BY VoiceTypes
<1>2. v.n + 1 - v.b \in Nat /\ v.b + (v.n + 1 - v.b) - 1 = v.n
  BY <1>1
<1>3. PICK m \in Nat : m = v.n + 1 - v.b
  BY <1>2
<1>4. Pending(c) = v.b + v.lo .. v.b + m - 1
  BY <1>1, <1>3, PendingIs
<1>5. QED BY <1>2, <1>3, <1>4

\* Chunk by chunk: what left the queues of a link that stays up has been
\* handed to the peer's application, whatever was lost or sent again.
THEOREM LinkNoSilentLoss ==
    ASSUME "CONNECTING" \notin PrematureT1
    PROVE  Spec => NoSilentLoss
<1> DEFINE NoneDropped ==
        \A p \in Station :
            (/\ conn[p].state = "CONNECTED" /\ conn'[p].state = "CONNECTED"
             /\ ~Called(p))
                => Pending(conn[p]) \ Pending(conn'[p]) \subseteq seen'[Peer(p)]
<1>1. LinkInv /\ [Next]_vars => NoneDropped
  <2> SUFFICES ASSUME LinkInv, [Next]_vars, NEW p \in Station,
                      conn[p].state = "CONNECTED", conn'[p].state = "CONNECTED", ~Called(p)
               PROVE  Pending(conn[p]) \ Pending(conn'[p]) \subseteq seen'[Peer(p)]
    OBVIOUS
  <2> DEFINE q == Peer(p)
             v == View(p)
             w == View(q)
             v2 == View(p)'
             w2 == View(q)'
  <2>1. LinkInv'
    BY NextLink
  <2>2. PICK x \in Station : Steps(x)
    BY NextLink
  <2>3. /\ q \in Station /\ Peer(q) = p /\ (x = p \/ x = q)
    BY TwoStations
  <2>4. /\ Voice(v) /\ Voice(w) /\ Session(v, w) /\ Session(w, v)
        /\ Fit(conn[p]) /\ Speaker(p)
    BY LinkEnds DEF Good, Half, Sound
  <2>5. Voice(v2) /\ Fit(conn'[p]) /\ Speaker(p)'
    BY <2>1 DEF LinkInv, Half, Typed, Sound
  <2>6. /\ v.state = conn[p].state /\ v2.state = conn'[p].state /\ v.in = chan[p]
        /\ v.b = Base(p) /\ v2.b = Base(p)' /\ v.lo = Lo(p) /\ v2.lo = Lo(p)'
        /\ v.n = count[p] /\ v2.n = count'[p] /\ w2.seen = seen'[q]
    BY DEF View
  <2>7. Up(v) /\ Up(v2)
    BY <2>6 DEF Up
  <2>8. /\ InStep(conn[p], v.b, v.lo, v.n + 1 - v.b)
        /\ InStep(conn'[p], v2.b, v2.lo, v2.n + 1 - v2.b)
    BY <2>4, <2>5, <2>6 DEF Speaker
  <2>9. v.in # <<>> => Head(v.in).type # "SABM"
    BY <2>6 DEF Called
  <2> HIDE DEF v, w, v2, w2
  <2>10. Pending(conn[p]) = v.b + v.lo .. v.n
    BY <2>4, <2>7, <2>8, PendingAre
  <2>11. Pending(conn'[p]) = v2.b + v2.lo .. v2.n
    BY <2>5, <2>7, <2>8, PendingAre
  <2>12. ASSUME v2.b = v.b, v2.lo = v.lo, v2.n = v.n
         PROVE  Pending(conn[p]) \ Pending(conn'[p]) = {}
    BY <2>10, <2>11, <2>12
  <2>13. CASE x = q
    <3>1. Unmoved(v, v2)
      BY <2>2, <2>3, <2>13 DEF Steps, v, v2
    <3>2. QED BY <2>12, <3>1 DEF Unmoved, Stays
  <2>14. CASE x = p
    <3>1. Advances(v, w, v2) /\ Unmoved(w, w2)
      BY <2>2, <2>14 DEF Steps, v, w, v2, w2
    <3>2. CASE Begins(v, v2)
      BY <2>7, <2>9, <3>2 DEF Begins
    <3>3. CASE Idles(v, v2)
      BY <2>7, <2>12, <3>3 DEF Idles
    <3>4. ASSUME NEW u, Talks(v, w, u), Continued(u, v2)
          PROVE  Pending(conn[p]) \ Pending(conn'[p]) \subseteq seen'[Peer(p)]
      <4>1. /\ v2.b = v.b /\ v2.lo = u.lo /\ v2.n = u.n /\ v.n <= u.n
        BY <2>7, <3>4 DEF Talks, Grows, Continued
      <4>2. u.lo = v.lo \/ v.b .. v.b + u.lo - 1 \subseteq w.seen
        BY <2>4, <3>4, TalkAcked
      <4>3. w.seen = seen'[q]
        BY <2>6, <3>1 DEF Unmoved
      <4>4. /\ v.b \in Nat /\ v.lo \in Nat /\ v.n \in Nat
            /\ v2.lo \in Nat /\ v2.n \in Nat
        BY <2>4, <2>5, <2>7, VoiceTypes
      <4>5. ASSUME NEW d \in Pending(conn[p]), d \notin Pending(conn'[p])
            PROVE  d \in w.seen
        <5>1. d \in Int /\ v.b + v.lo <= d /\ d <= v.n /\ d <= v2.n
          BY <2>10, <4>1, <4>4, <4>5
        <5>2. ~(v.b + v2.lo <= d)
          BY <2>11, <4>1, <4>4, <4>5, <5>1
        <5>3. v2.lo # v.lo /\ d \in v.b .. v.b + v2.lo - 1
          BY <4>4, <5>1, <5>2
        <5>4. QED BY <4>1, <4>2, <5>3
      <4>6. QED BY <4>3, <4>5
    <3>5. QED BY <3>1, <3>2, <3>3, <3>4 DEF Advances
  <2>15. QED BY <2>3, <2>13, <2>14
<1>2. LinkInv /\ [Next]_vars => [NoneDropped]_vars
  BY <1>1
<1>3. Spec => [][NoneDropped]_vars
  BY <1>2, LinkAlways, PTL DEF Spec
<1>4. QED BY <1>3, PTL DEF NoSilentLoss

\* A step of one station only touches its own part of the service.
OnlyOwn(p) ==
    /\ count' = [count EXCEPT ![p] = count'[p]]
    /\ starts' = [starts EXCEPT ![p] = starts'[p]]
    /\ got' = [got EXCEPT ![p] = got'[p]]
    /\ count[p] \in Nat /\ count'[p] \in Nat

\* One station moves, the other's part of the service rests.
LEMMA OthersRest ==
    ASSUME LinkInv, LinkInv', NEW p \in Station, Steps(p)
    PROVE  OnlyOwn(p)
<1> DEFINE q == Peer(p)
<1>1. q \in Station /\ q # p /\ \A x \in Station : x # p => x = q
  BY TwoStations
<1>2. count'[q] = count[q] /\ starts'[q] = starts[q] /\ got'[q] = got[q]
  BY DEF Steps, Unmoved, Stays, View
<1>3. /\ count \in [Station -> 0 .. MaxSend] /\ got \in [Station -> Seq(Data)]
      /\ starts \in [Station -> SUBSET (1 .. MaxSend + 1)]
      /\ count' \in [Station -> 0 .. MaxSend] /\ got' \in [Station -> Seq(Data)]
      /\ starts' \in [Station -> SUBSET (1 .. MaxSend + 1)]
  BY DEF LinkInv, Typed, TypeOK
<1> HIDE DEF q
<1>4. count' = [count EXCEPT ![p] = count'[p]]
  BY <1>1, <1>2, <1>3
<1>5. starts' = [starts EXCEPT ![p] = starts'[p]]
  BY <1>1, <1>2, <1>3
<1>6. got' = [got EXCEPT ![p] = got'[p]]
  BY <1>1, <1>2, <1>3
<1>7. count[p] \in Nat /\ count'[p] \in Nat
  BY <1>3
<1>8. QED BY <1>4, <1>5, <1>6, <1>7 DEF OnlyOwn

\* The service has chunk d next for p.
NextFor(p, d) ==
    /\ d \in 1 .. count[Peer(p)] /\ d <= count[Peer(p)]
    /\ got[p] = <<>> => d \in starts[Peer(p)]
    /\ got[p] # <<>> => d = got[p][Len(got[p])] + 1 /\ d \notin starts[Peer(p)]

\* The chunk a station is handed is the one the service has next for it.
LEMMA ServiceNext ==
    ASSUME LinkInv, NEW p \in Station, NEW d, Due(View(p), View(Peer(p)), d)
    PROVE  NextFor(p, d)
<1> DEFINE q == Peer(p)
           r == Len(got[p])
<1>1. PICK b \in Nat :
        /\ Heads(View(q), View(p), b) /\ b \in starts[q] /\ d = b + r /\ d <= count[q]
        /\ \A x \in starts[q] : x <= b \/ d < x
  BY DEF Due, View
<1>2. /\ q \in Station /\ got[p] \in Seq(Data) /\ r \in Nat /\ count[q] \in Nat
      /\ starts[q] \subseteq 1 .. MaxSend + 1
  <2>1. q \in Station
    BY TwoStations
  <2>2. QED BY <2>1, LenProperties, BoundsAssumption DEF LinkInv, Typed, TypeOK
<1>3. b \in 1 .. MaxSend + 1 /\ 1 <= d
  BY <1>1, <1>2, BoundsAssumption
<1>4. CASE got[p] = <<>>
  <2>1. r = 0
    BY <1>4
  <2>2. d = b
    BY <1>1, <2>1
  <2>3. QED BY <1>1, <1>2, <1>3, <1>4, <2>2 DEF NextFor
<1>5. CASE got[p] # <<>>
  <2>1. r \in 1 .. r /\ r # 0
    BY <1>2, <1>5
  <2>2. got[p][r] = b + r - 1
    BY <1>1, <2>1 DEF Heads, View
  <2>3. d = got[p][r] + 1
    BY <1>1, <1>2, <2>2
  <2>4. d \notin starts[q]
    BY <1>1, <1>2, <2>1
  <2>5. QED BY <1>1, <1>2, <1>3, <1>5, <2>3, <2>4 DEF NextFor
<1>6. QED BY <1>4, <1>5

\* Every step of the link is one of the service, or none.
LEMMA ServiceStep ==
    ASSUME LinkInv, LinkInv', NEW p \in Station, Steps(p)
    PROVE  [Service!Next]_(Service!vars)
<1> DEFINE q == Peer(p)
           v == View(p)
           w == View(q)
           v2 == View(p)'
<1>1. OnlyOwn(p)
  BY OthersRest
<1>2. Voice(v) /\ Voice(w) /\ Session(v, w) /\ Session(w, v)
  BY LinkEnds DEF Good, Half
<1>3. /\ v.n = count[p] /\ v.starts = starts[p] /\ v.got = got[p]
      /\ v2.n = count'[p] /\ v2.starts = starts'[p] /\ v2.got = got'[p]
  BY DEF View
<1>4. Advances(v, w, v2)
  BY DEF Steps
<1>5. CASE Begins(v, v2)
  <2>1. /\ count'[p] = count[p] /\ starts'[p] = starts[p] \cup {count[p] + 1}
        /\ got'[p] = <<>>
    BY <1>3, <1>5 DEF Begins, Renewed
  <2>2. count' = count
    BY <1>1, <2>1 DEF OnlyOwn, LinkInv, Typed, TypeOK
  <2>3. Service!Restart(p)
    BY <1>1, <2>1, <2>2 DEF OnlyOwn, Service!Restart
  <2>4. QED BY <2>3 DEF Service!Next
<1>6. CASE Idles(v, v2)
  <2>1. count'[p] = count[p] /\ starts'[p] = starts[p] /\ got'[p] = got[p]
    BY <1>3, <1>6 DEF Idles
  <2>2. UNCHANGED <<count, starts, got>>
    BY <1>1, <2>1 DEF OnlyOwn, LinkInv, Typed, TypeOK
  <2>3. QED BY <2>2 DEF Service!vars
<1>7. ASSUME NEW u, Talks(v, w, u), Continued(u, v2)
      PROVE  [Service!Next]_(Service!vars)
  <2>1. count'[p] = u.n /\ starts'[p] = starts[p] /\ got'[p] = u.got /\ count[p] <= u.n
    BY <1>3, <1>7 DEF Talks, Grows, Continued
  <2>2. Service!Accept(p)
    BY <1>1, <2>1 DEF OnlyOwn, Service!Accept
  <2>3. starts' = starts
    BY <1>1, <2>1 DEF OnlyOwn, LinkInv, Typed, TypeOK
  <2>4. CASE u.got = v.got
    <3>1. got' = got
      BY <1>1, <1>3, <2>1, <2>4 DEF OnlyOwn, LinkInv, Typed, TypeOK
    <3>2. Service!Send(p)
      BY <2>2, <2>3, <3>1 DEF Service!Send
    <3>3. QED BY <3>2 DEF Service!Next
  <2>5. CASE u.got # v.got
    <3> DEFINE f == Head(v.in)
    <3>1. /\ Up(v) /\ v.in # <<>> /\ Numbered(f) /\ f.type = "I"
          /\ f.ns = Len(v.got) % Modulus /\ u.got = Append(v.got, f.data)
      BY <1>7, <2>5 DEF Talks, Silence, Reads
    <3>2. PICK d : d = f.data
      OBVIOUS
    <3>3. Due(v, w, d)
      BY <1>2, <3>1, <3>2, HeadNumbered
    <3> HIDE DEF f
    <3>a. NextFor(p, d)
      BY <3>3, ServiceNext
    <3>4. d \in 1 .. count[q] /\ Service!IsNext(p, d)
      BY <3>a DEF NextFor, Service!IsNext
    <3>5. got' = [got EXCEPT ![p] = Append(@, d)]
      <4>1. got'[p] = Append(got[p], d)
        BY <1>3, <2>1, <3>1, <3>2
      <4>2. QED BY <1>1, <4>1 DEF OnlyOwn
    <3>6. Service!Receive(p, d)
      BY <2>2, <2>3, <3>4, <3>5 DEF Service!Receive
    <3>7. QED BY <3>4, <3>6 DEF Service!Next
  <2>6. QED BY <2>4, <2>5
<1>8. QED BY <1>4, <1>5, <1>6, <1>7 DEF Advances

\* Whatever is lost, repeated or rejected, each application is handed a
\* gapless prefix of one session of its peer: the link implements the data
\* service of LinkService.
THEOREM LinkImplementsService ==
    ASSUME "CONNECTING" \notin PrematureT1
    PROVE  Spec => ImplementsService
<1>1. Init => Service!Init
  BY DEF Init, Service!Init
<1>2. LinkInv /\ [Next]_vars => [Service!Next]_(Service!vars)
  BY NextLink, ServiceStep
<1>3. QED BY <1>1, <1>2, LinkAlways, PTL DEF Spec, ImplementsService, Service!Spec

-----------------------------------------------------------------------------
(* What the service gives two applications                                 *)

\* The service's own types: no bound of the link is among them.
ServedType ==
    /\ count \in [Station -> Nat]
    /\ starts \in [Station -> SUBSET Nat]
    /\ got \in [Station -> Seq(Nat)]

\* What the application of p knows of its session.
GotInOrder(p) ==
    /\ \A i \in 1 .. Len(got[p]) : got[p][i] \in 1 .. count[Peer(p)]
    /\ \A i \in 1 .. Len(got[p]) - 1 : got[p][i + 1] = got[p][i] + 1
    /\ got[p] # <<>> => got[p][1] \in starts[Peer(p)]
    /\ \A i \in 2 .. Len(got[p]) : got[p][i] \notin starts[Peer(p)]

\* The inductive invariant of the service.
ServedInv == ServedType /\ \A p \in Station : GotInOrder(p)

\* No session has begun.
LEMMA ServedInit == Service!Init => ServedInv
<1> SUFFICES ASSUME Service!Init PROVE ServedInv
  OBVIOUS
<1>1. <<>> \in Seq(Nat) /\ Len(<<>>) = 0
  OBVIOUS
<1>2. ServedType
  BY <1>1 DEF Service!Init, ServedType
<1>3. \A p \in Station : GotInOrder(p)
  <2> TAKE p \in Station
  <2>1. got[p] = <<>>
    BY DEF Service!Init
  <2>2. QED BY <1>1, <2>1 DEF GotInOrder
<1>4. QED BY <1>2, <1>3 DEF ServedInv

\* Accepting chunks only raises a count.
LEMMA AcceptCounts ==
    ASSUME ServedType, NEW p \in Station, Service!Accept(p)
    PROVE  /\ count' \in [Station -> Nat]
           /\ \A q \in Station : count'[q] >= count[q]
<1> DEFINE n == count'[p]
<1>1. n \in Nat /\ n >= count[p] /\ count' = [count EXCEPT ![p] = n]
  BY DEF Service!Accept
<1>2. count \in [Station -> Nat]
  BY DEF ServedType
<1> HIDE DEF n
<1>3. QED BY <1>1, <1>2

\* A session stays one when the peer accepts more, and when it restarts:
\* the new start lies beyond everything it has sent.
LEMMA GotKept ==
    ASSUME ServedType, ServedType', NEW p \in Station, GotInOrder(p),
           got'[p] = got[p], count'[Peer(p)] >= count[Peer(p)],
           \/ starts'[Peer(p)] = starts[Peer(p)]
           \/ starts'[Peer(p)] = starts[Peer(p)] \cup {count[Peer(p)] + 1}
    PROVE  GotInOrder(p)'
<1>1. Peer(p) \in Station
  BY TwoStations
<1>2. /\ count[Peer(p)] \in Nat /\ count'[Peer(p)] \in Nat /\ got[p] \in Seq(Nat)
      /\ Len(got[p]) \in Nat
  BY <1>1, LenProperties DEF ServedType
<1>3. \A i \in 1 .. Len(got[p]) : got[p][i] \in 1 .. count'[Peer(p)]
  BY <1>2 DEF GotInOrder
<1>4. got[p] # <<>> => got[p][1] \in starts'[Peer(p)]
  BY DEF GotInOrder
<1>5. \A i \in 2 .. Len(got[p]) : got[p][i] \notin starts'[Peer(p)]
  <2> TAKE i \in 2 .. Len(got[p])
  <2>1. got[p][i] \in 1 .. count[Peer(p)] /\ got[p][i] \notin starts[Peer(p)]
    BY <1>2 DEF GotInOrder
  <2>2. got[p][i] # count[Peer(p)] + 1
    BY <1>2, <2>1
  <2>3. QED BY <2>1, <2>2
<1>6. QED BY <1>3, <1>4, <1>5 DEF GotInOrder

\* The chunk handed up next continues the session, or begins it.
LEMMA GotExtended ==
    ASSUME ServedType, NEW p \in Station, GotInOrder(p),
           NEW d \in Nat, d > 0, Service!IsNext(p, d),
           got'[p] = Append(got[p], d), starts' = starts,
           count'[Peer(p)] \in Nat, count'[Peer(p)] >= count[Peer(p)]
    PROVE  GotInOrder(p)'
<1> DEFINE g == got[p]
           n == Len(g)
           h == Append(g, d)
<1>1. /\ Peer(p) \in Station /\ count[Peer(p)] \in Nat
      /\ g \in Seq(Nat) /\ n \in Nat
  BY LenProperties, TwoStations DEF ServedType
<1>2. /\ Len(h) = n + 1 /\ h[n + 1] = d /\ h # <<>>
      /\ \A i \in 1 .. n : h[i] = g[i]
  <2>1. g \in Seq(Nat) /\ d \in Nat /\ Len(g) = n
    BY <1>1
  <2> HIDE DEF g, n
  <2>2. QED BY <2>1, AppendProperties
<1>3. n = 0 <=> g = <<>>
  BY <1>1, EmptySeq
<1>4. /\ \A i \in 1 .. n : g[i] \in 1 .. count[Peer(p)]
      /\ \A i \in 1 .. n - 1 : g[i + 1] = g[i] + 1
      /\ g # <<>> => g[1] \in starts[Peer(p)]
      /\ \A i \in 2 .. n : g[i] \notin starts[Peer(p)]
  BY DEF GotInOrder
<1>5. /\ d <= count[Peer(p)]
      /\ n = 0 => d \in starts[Peer(p)]
      /\ n # 0 => d = g[n] + 1 /\ d \notin starts[Peer(p)]
  BY <1>3 DEF Service!IsNext
<1> HIDE DEF g, n, h
<1>6. \A i \in 1 .. n + 1 : h[i] \in 1 .. count'[Peer(p)]
  <2> TAKE i \in 1 .. n + 1
  <2>1. CASE i = n + 1
    BY <1>1, <1>2, <1>5, <2>1
  <2>2. CASE i # n + 1
    <3>1. i \in 1 .. n
      BY <1>1, <2>2
    <3>2. h[i] \in 1 .. count[Peer(p)]
      BY <1>2, <1>4, <3>1
    <3>3. QED BY <1>1, <3>2
  <2>3. QED BY <2>1, <2>2
<1>7. \A i \in 1 .. n : h[i + 1] = h[i] + 1
  <2> TAKE i \in 1 .. n
  <2>1. h[i] = g[i]
    BY <1>2
  <2>2. CASE i = n
    <3>1. n # 0
      BY <2>2
    <3>2. h[i + 1] = d /\ d = g[i] + 1
      BY <1>2, <1>5, <2>2, <3>1
    <3>3. QED BY <2>1, <3>2
  <2>3. CASE i # n
    <3>1. i \in 1 .. n - 1 /\ i + 1 \in 1 .. n
      BY <1>1, <2>3
    <3>2. h[i + 1] = g[i + 1] /\ g[i + 1] = g[i] + 1
      BY <1>2, <1>4, <3>1
    <3>3. QED BY <2>1, <3>2
  <2>4. QED BY <2>2, <2>3
<1>8. h[1] \in starts[Peer(p)]
  BY <1>1, <1>2, <1>3, <1>4, <1>5
<1>9. \A i \in 2 .. n + 1 : h[i] \notin starts[Peer(p)]
  <2> TAKE i \in 2 .. n + 1
  <2>1. CASE i = n + 1
    <3>1. n # 0
      BY <1>1, <2>1
    <3>2. QED BY <1>2, <1>5, <2>1, <3>1
  <2>2. CASE i # n + 1
    <3>1. i \in 2 .. n /\ i \in 1 .. n
      BY <1>1, <2>2
    <3>2. QED BY <1>2, <1>4, <3>1
  <2>3. QED BY <2>1, <2>2
<1>10. got'[p] = h /\ Len(got'[p]) = n + 1 /\ n + 1 - 1 = n
  BY <1>1, <1>2 DEF g, h
<1> HIDE DEF GotInOrder
<1>11. /\ \A i \in 1 .. Len(got'[p]) : got'[p][i] \in 1 .. count'[Peer(p)]
       /\ \A i \in 1 .. Len(got'[p]) - 1 : got'[p][i + 1] = got'[p][i] + 1
       /\ got'[p] # <<>> => got'[p][1] \in starts'[Peer(p)]
       /\ \A i \in 2 .. Len(got'[p]) : got'[p][i] \notin starts'[Peer(p)]
  <2>1. starts'[Peer(p)] = starts[Peer(p)] /\ got'[p] = h
    BY <1>10
  <2>2. Len(got'[p]) = n + 1 /\ Len(got'[p]) - 1 = n
    BY <1>1, <1>10
  <2>3. QED BY <1>6, <1>7, <1>8, <1>9, <2>1, <2>2, Zenon
<1>12. QED BY <1>11 DEF GotInOrder

\* Every step of the service keeps it.
LEMMA ServedNext == ServedInv /\ [Service!Next]_(Service!vars) => ServedInv'
<1> SUFFICES ASSUME ServedInv, [Service!Next]_(Service!vars) PROVE ServedInv'
  OBVIOUS
<1>1. ServedType /\ \A q \in Station : GotInOrder(q)
  BY DEF ServedInv
<1>2. ASSUME NEW p \in Station, Service!Send(p) PROVE ServedInv'
  <2>1. /\ ServedType' /\ starts' = starts /\ got' = got
        /\ \A q \in Station : count'[q] >= count[q]
    BY <1>1, <1>2, AcceptCounts DEF ServedType, Service!Send
  <2>2. \A q \in Station : GotInOrder(q)'
    BY <1>1, <2>1, GotKept, TwoStations
  <2>3. QED BY <2>1, <2>2 DEF ServedInv
<1>3. ASSUME NEW p \in Station, Service!Restart(p) PROVE ServedInv'
  <2>1. ServedType'
    <3>1. count[p] + 1 \in Nat /\ <<>> \in Seq(Nat)
      BY <1>1 DEF ServedType
    <3>2. QED BY <1>1, <1>3, <3>1 DEF ServedType, Service!Restart
  <2>2. ASSUME NEW q \in Station PROVE GotInOrder(q)'
    <3>1. CASE q = p
      <4>1. got'[q] = <<>>
        BY <1>1, <1>3, <3>1 DEF ServedType, Service!Restart
      <4>2. Len(<<>>) = 0
        OBVIOUS
      <4>3. QED BY <4>1, <4>2 DEF GotInOrder
    <3>2. CASE q # p
      <4>1. Peer(q) \in Station
        BY TwoStations
      <4>2. got'[q] = got[q] /\ count' = count
        BY <1>1, <1>3, <3>2 DEF ServedType, Service!Restart
      <4>3. \/ starts'[Peer(q)] = starts[Peer(q)]
            \/ starts'[Peer(q)] = starts[Peer(q)] \cup {count[Peer(q)] + 1}
        BY <1>1, <1>3, <4>1 DEF ServedType, Service!Restart
      <4>4. count'[Peer(q)] >= count[Peer(q)]
        BY <1>1, <4>1, <4>2 DEF ServedType
      <4>5. QED BY <1>1, <2>1, <4>2, <4>3, <4>4, GotKept
    <3>3. QED BY <3>1, <3>2
  <2>3. QED BY <2>1, <2>2 DEF ServedInv
<1>4. ASSUME NEW p \in Station, NEW d \in 1 .. count[Peer(p)], Service!Receive(p, d)
      PROVE  ServedInv'
  <2>1. Peer(p) \in Station /\ d \in Nat /\ d > 0
    BY <1>1, TwoStations DEF ServedType
  <2>2. /\ got' = [got EXCEPT ![p] = Append(got[p], d)] /\ starts' = starts
        /\ count' \in [Station -> Nat] /\ \A q \in Station : count'[q] >= count[q]
    BY <1>1, <1>4, AcceptCounts DEF Service!Receive
  <2>3. ServedType'
    <3>1. Append(got[p], d) \in Seq(Nat)
      BY <1>1, <2>1, AppendProperties DEF ServedType
    <3>2. QED BY <1>1, <2>2, <3>1 DEF ServedType
  <2>4. ASSUME NEW q \in Station PROVE GotInOrder(q)'
    <3>1. CASE q = p
      <4>1. got'[p] = Append(got[p], d) /\ Service!IsNext(p, d)
        BY <1>1, <1>4, <2>2 DEF ServedType, Service!Receive
      <4>2. count'[Peer(p)] \in Nat /\ count'[Peer(p)] >= count[Peer(p)]
        BY <2>1, <2>2
      <4>3. QED BY <1>1, <2>1, <2>2, <3>1, <4>1, <4>2, GotExtended
    <3>2. CASE q # p
      <4>1. got'[q] = got[q] /\ starts'[Peer(q)] = starts[Peer(q)]
            /\ count'[Peer(q)] >= count[Peer(q)]
        BY <1>1, <2>2, <3>2, TwoStations DEF ServedType
      <4>2. QED BY <1>1, <2>3, <4>1, GotKept
    <3>3. QED BY <3>1, <3>2
  <2>5. QED BY <2>3, <2>4 DEF ServedInv
<1>5. CASE UNCHANGED (Service!vars)
  <2>1. count' = count /\ starts' = starts /\ got' = got
    BY <1>5 DEF Service!vars
  <2>2. ServedType'
    BY <1>1, <2>1 DEF ServedType
  <2>3. \A q \in Station : GotInOrder(q)'
    BY <1>1, <2>1 DEF GotInOrder
  <2>4. QED BY <2>2, <2>3 DEF ServedInv
<1>6. QED BY <1>2, <1>3, <1>4, <1>5 DEF Service!Next

\* Whatever the order of sends and restarts, what one session of a station
\* is handed is a gapless, duplicate-free run of one session of its peer.
THEOREM ServiceInOrder == Service!Spec => [](Service!InOrder /\ Service!OneSession)
<1>1. ServedInv => Service!InOrder /\ Service!OneSession
  <2> SUFFICES ASSUME ServedInv PROVE Service!InOrder /\ Service!OneSession
    OBVIOUS
  <2>1. \A p \in Station :
           /\ \A i \in 1 .. Len(got[p]) : got[p][i] \in 1 .. count[Peer(p)]
           /\ \A i \in 1 .. Len(got[p]) - 1 : got[p][i + 1] = got[p][i] + 1
           /\ got[p] # <<>> => got[p][1] \in starts[Peer(p)]
           /\ \A i \in 2 .. Len(got[p]) : got[p][i] \notin starts[Peer(p)]
    BY DEF ServedInv, GotInOrder
  <2>2. Service!InOrder
    BY <2>1 DEF Service!InOrder
  <2>3. Service!OneSession
    BY <2>1 DEF Service!OneSession
  <2>4. QED BY <2>2, <2>3
<1>2. QED BY <1>1, ServedInit, ServedNext, PTL DEF Service!Spec

\* So two applications on a link are handed, in each session, a gapless,
\* duplicate-free run of one session of the other's chunks.
THEOREM LinkInOrder ==
    ASSUME "CONNECTING" \notin PrematureT1
    PROVE  Spec => [](Service!InOrder /\ Service!OneSession)
<1>1. QED BY LinkImplementsService, ServiceInOrder, PTL DEF ImplementsService
=============================================================================
