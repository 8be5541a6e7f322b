-------------------------- MODULE TerminalsProofs --------------------------
(***************************************************************************)
(* Proofs about the terminal programs (Terminals), for every set of peers  *)
(* and callsigns and any number of connections.                            *)
(***************************************************************************)
EXTENDS Terminals, SequenceTheorems, WellFoundedInduction, TLAPS

-----------------------------------------------------------------------------
(* The inductive invariant                                                 *)

Object == [peer : Peers \cup {"none"}, local : Calls, cb : BOOLEAN, own : BOOLEAN,
           st : {"freed", "DISCONNECTED", "CONNECTING", "CONNECTED", "DISCONNECTING"}]
States == {"DISCONNECTED", "CONNECTING", "CONNECTED", "DISCONNECTING"}

ControlType ==
    /\ prog \in Progs /\ remote \in Peers \cup {"none", "ANY"} /\ boot \in BOOLEAN
    /\ pc \in {"await", "loop", "poll", "ticks", "reap", "input", "script", "recv",
               "bye", "check", "exit"}
    /\ ret \in {"await", "loop", "reap", "input", "recv", "check"}
    /\ ctrlc \in 0 .. 2 /\ mycall \in Calls
    /\ {quit, done, data, guarded, crowded} \subseteq BOOLEAN

ObjectType ==
    /\ objs \in Seq(Object) /\ Len(objs) <= MaxConns
    /\ {conn, script} \subseteq 0 .. Len(objs) /\ dead \in Seq(1 .. Len(objs))

Running(label) == pc = label \/ (pc \in {"poll", "ticks"} /\ ret = label)

\* A script holds a connection only while it runs or waits for a line, and
\* in these places nothing is deleted.  In connect mode it holds none.
ScriptRuns ==
    /\ script # 0 => prog # "connect" /\ (pc = "script" \/ Running("recv"))
    /\ boot => prog = "connect"

\* The program's own connection has its callbacks and is not about to be
\* deleted; its state is what the program believes.
Held ==
    /\ conn \notin Elements(dead)
    /\ conn # 0 => objs[conn].cb
    /\ prog \in Plain => objs = <<>> /\ remote = "none"
    /\ prog \in {"tnc", "sim"} /\ conn # 0 => Open(conn)
    /\ prog = "tnc" /\ Connected => data
    /\ prog = "connect" => dead = <<>>
    /\ prog = "connect" /\ conn # 0 /\ ~Open(conn) => done

\* Without a second caller there is no connection but the program's and
\* those it is about to delete.
Known ==
    ~crowded => \A o \in DOMAIN objs :
                    Exists(o) => (o = conn \/ o \in Elements(dead)) /\ objs[o].cb

\* At the end the program has hung up.
Ending ==
    /\ pc = "bye" \/ Running("check") => prog \notin Plain
    /\ Running("check") /\ ~crowded =>
          conn = 0 \/ objs[conn].st \notin {"CONNECTING", "CONNECTED"}

\* No connection is open when the program has ended.
HungAll ==
    pc = "exit" /\ ~crowded =>
        \A o \in DOMAIN objs : objs[o].st \notin {"CONNECTING", "CONNECTED"}

Signals == ~quit => ctrlc <= 1

IInv == /\ ControlType /\ ObjectType /\ NoDangling /\ ScriptRuns
        /\ Held /\ Known /\ Ending /\ HungAll /\ Signals

-----------------------------------------------------------------------------
(* Objects and the list of those to delete                                 *)

LEMMA ElementsEmpty == Elements(<<>>) = {}
BY DEF Elements

LEMMA ElementsAppend ==
    ASSUME NEW S, NEW s \in Seq(S), NEW e \in S
    PROVE  Elements(Append(s, e)) = Elements(s) \cup {e}
<1>1. /\ DOMAIN s = 1 .. Len(s) /\ Len(s) \in Nat
      /\ DOMAIN Append(s, e) = 1 .. (Len(s) + 1)
      /\ \A i \in 1 .. Len(s) : Append(s, e)[i] = s[i]
      /\ Append(s, e)[Len(s) + 1] = e
  BY AppendProperties, LenProperties
<1>2. QED BY <1>1 DEF Elements

LEMMA DeadObjects ==
    ASSUME dead \in Seq(1 .. Len(objs)), objs \in Seq(Object)
    PROVE  /\ DOMAIN objs = 1 .. Len(objs) /\ DOMAIN dead = 1 .. Len(dead) /\ Len(dead) \in Nat
           /\ \A i \in DOMAIN dead : dead[i] \in DOMAIN objs /\ dead[i] \in Elements(dead)
           /\ Elements(dead) \subseteq DOMAIN objs /\ 0 \notin Elements(dead)
<1>1. /\ DOMAIN objs = 1 .. Len(objs) /\ DOMAIN dead = 1 .. Len(dead) /\ Len(dead) \in Nat
      /\ Len(objs) \in Nat
  BY LenProperties
<1>2. \A i \in DOMAIN dead : dead[i] \in 1 .. Len(objs)
  BY <1>1, ElementOfSeq
<1>3. QED BY <1>1, <1>2 DEF Elements

\* One object changes its state.
LEMMA StateChange ==
    ASSUME objs \in Seq(Object), NEW o \in DOMAIN objs, NEW st \in States, SetState(o, st)
    PROVE  /\ objs' \in Seq(Object) /\ Len(objs') = Len(objs) /\ DOMAIN objs' = DOMAIN objs
           /\ objs'[o].st = st
           /\ \A x \in DOMAIN objs :
                 /\ objs'[x].cb = objs[x].cb /\ objs'[x].own = objs[x].own
                 /\ x # o => objs'[x].st = objs[x].st
<1> DEFINE new == [objs[o] EXCEPT !.st = st]
<1>1. objs[o] \in Object
  BY ElementOfSeq, LenProperties
<1>2. new \in Object /\ new.st = st /\ new.cb = objs[o].cb /\ new.own = objs[o].own
  BY <1>1 DEF Object, States
<1>3. objs' = [objs EXCEPT ![o] = new]
  BY DEF SetState
<1> HIDE DEF new
<1>4. QED BY <1>2, <1>3, ExceptSeq, LenProperties

\* One object is added.
LEMMA ObjectAdded ==
    ASSUME objs \in Seq(Object), NEW n \in Object, objs' = Append(objs, n)
    PROVE  /\ objs' \in Seq(Object) /\ Len(objs') = Len(objs) + 1
           /\ DOMAIN objs' = DOMAIN objs \cup {Len(objs) + 1}
           /\ objs'[Len(objs) + 1] = n
           /\ \A x \in DOMAIN objs : objs'[x] = objs[x]
BY AppendProperties, LenProperties

\* A hang-up changes the state of an open connection to another open one.
LEMMA HungChange ==
    ASSUME objs \in Seq(Object), NEW o \in DOMAIN objs, NEW os, os = Hung(o)
    PROVE  /\ os \in Seq(Object) /\ Len(os) = Len(objs) /\ DOMAIN os = DOMAIN objs
           /\ os[o].st \notin {"CONNECTING", "CONNECTED"}
           /\ os[o].st # objs[o].st =>
                 os[o].st = "DISCONNECTING" /\ objs[o].st \in {"CONNECTING", "CONNECTED"}
           /\ \A x \in DOMAIN objs :
                 /\ os[x].cb = objs[x].cb /\ os[x].own = objs[x].own
                 /\ x # o => os[x].st = objs[x].st
<1>1. CASE objs[o].st \in {"CONNECTING", "CONNECTED"}
  <2> DEFINE new == [objs[o] EXCEPT !.st = "DISCONNECTING"]
  <2>1. objs[o] \in Object
    BY ElementOfSeq, LenProperties
  <2>2. new \in Object /\ new.st = "DISCONNECTING" /\ new.cb = objs[o].cb /\ new.own = objs[o].own
    BY <2>1 DEF Object
  <2>3. os = [objs EXCEPT ![o] = new]
    BY <1>1 DEF Hung, Linked
  <2> HIDE DEF new
  <2>4. QED BY <1>1, <2>2, <2>3, ExceptSeq, LenProperties
<1>2. CASE objs[o].st \notin {"CONNECTING", "CONNECTED"}
  BY <1>2 DEF Hung, Linked
<1>3. QED BY <1>1, <1>2

\* Deletion frees the objects named, and leaves the others.
LEMMA DeletedObjects ==
    ASSUME NEW os \in Seq(Object), NEW gone, NEW new, new = Deleted(os, gone)
    PROVE  /\ new \in Seq(Object) /\ Len(new) = Len(os) /\ DOMAIN new = DOMAIN os
           /\ \A x \in DOMAIN os : new[x] = IF x \in gone THEN Freed ELSE os[x]
           /\ Freed.st = "freed" /\ Freed.own = TRUE
<1>1. Freed \in Object /\ Freed.st = "freed" /\ Freed.own = TRUE
  BY CallsAssumption DEF Freed, Object
<1>2. DOMAIN os = 1 .. Len(os) /\ Len(os) \in Nat /\ \A x \in DOMAIN os : os[x] \in Object
  BY LenProperties, ElementOfSeq
<1>3. DOMAIN new = 1 .. Len(os) /\ \A x \in DOMAIN os : new[x] = IF x \in gone THEN Freed ELSE os[x]
  BY <1>2 DEF Deleted
<1>4. \A x \in 1 .. Len(os) : new[x] \in Object
  BY <1>1, <1>2, <1>3
<1>5. new = [x \in 1 .. Len(os) |-> new[x]]
  BY <1>2 DEF Deleted
<1>6. new \in [1 .. Len(os) -> Object]
  BY <1>4, <1>5
<1>7. new \in Seq(Object) /\ Len(new) = Len(os)
  BY <1>2, <1>6
<1>8. QED BY <1>1, <1>2, <1>3, <1>7

-----------------------------------------------------------------------------
(* Steps                                                                   *)

\* A step that moves the thread and leaves the connections alone.
Quiet == UNCHANGED <<cfgVars, objs, conn, dead, script, crowded>>

LEMMA QuietKeeps ==
    ASSUME IInv, Quiet, ControlType',
           script # 0 => pc' = "script" \/ Running("recv")',
           Running("check")' => Running("check"),
           pc' = "bye" => prog \notin Plain,
           pc' = "exit" => prog \in Plain,
           done => done',
           prog = "tnc" /\ Connected => data',
           ~quit' => ctrlc' <= 1
    PROVE  IInv'
<1> USE DEF IInv, Quiet, cfgVars
<1>1. ControlType' /\ ObjectType'
  BY DEF ObjectType
<1>2. NoDangling'
  BY DEF NoDangling, Exists
<1>3. ScriptRuns'
  BY DEF ScriptRuns
<1>4. Held'
  BY DEF Held, Open, Connected
<1>5. Known'
  BY DEF Known, Exists
<1>6. Ending'
  BY DEF Ending
<1>7. HungAll'
  <2> SUFFICES ASSUME pc' = "exit" PROVE HungAll'
    BY DEF HungAll
  <2>1. objs' = <<>>
    BY DEF Held
  <2>2. DOMAIN objs' = {}
    BY <2>1
  <2>3. QED BY <2>2 DEF HungAll
<1>8. Signals'
  BY DEF Signals
<1>9. QED BY <1>1, <1>2, <1>3, <1>4, <1>5, <1>6, <1>7, <1>8

\* The object that Router finds is one of the two stations.
LEMMA Found ==
    ASSUME ObjectType, NEW p \in Peers, Find(p) # 0
    PROVE  Find(p) \in DOMAIN objs /\ objs[Find(p)].peer = p
<1> DEFINE Of == {o \in DOMAIN objs : objs[o].peer = p /\ objs[o].local = mycall}
<1>1. Of # {}
  BY DEF Find
<1>2. Of \subseteq Nat
  BY LenProperties DEF ObjectType
<1>3. \E o \in Of : \A x \in Of : <<x, o>> \notin OpToRel(<, Nat)
  BY <1>1, <1>2, NatLessThanWellFounded, WFMin
<1> DEFINE Less == {ss \in Nat \X Nat : ss[1] < ss[2]}
<1>4. OpToRel(<, Nat) = Less
  BY Zenon DEF OpToRel
<1>5. \E o \in Of : \A x \in Of : <<x, o>> \notin Less
  BY <1>3, <1>4, Zenon
<1>6. \A a, b \in Nat : <<a, b>> \notin Less => b <= a
  OBVIOUS
<1> HIDE DEF Of, Less
<1>7. \E o \in Of : \A x \in Of : o <= x
  BY <1>2, <1>5, <1>6
<1> USE DEF Of
<1>8. Find(p) = CHOOSE o \in Of : \A x \in Of : o <= x
  BY <1>1 DEF Find
<1>9. Find(p) \in Of
  BY <1>7, <1>8
<1>10. QED BY <1>9

\* A frame opens the connection o: on_connect.
LEMMA Opening ==
    ASSUME IInv, pc = "poll", NEW o \in DOMAIN objs, NEW t, Opens(o, t),
           SetState(o, "CONNECTED"), OnConnect(o),
           crowded' = (crowded \/ (t = "SABM" /\ Crowds)),
           UNCHANGED <<cfgVars, pc, ret, sigVars, mycall, script>>
    PROVE  IInv'
<1> USE DEF IInv, cfgVars, sigVars, OnConnect
<1>1. /\ ControlType /\ ObjectType
      /\ DOMAIN objs = 1 .. Len(objs) /\ objs # <<>>
  BY LenProperties DEF ObjectType
<1>2. /\ objs' \in Seq(Object) /\ Len(objs') = Len(objs) /\ DOMAIN objs' = DOMAIN objs
      /\ objs'[o].st = "CONNECTED"
      /\ \A x \in DOMAIN objs :
            /\ objs'[x].cb = objs[x].cb /\ objs'[x].own = objs[x].own
            /\ x # o => objs'[x].st = objs[x].st
  BY <1>1, StateChange DEF ObjectType, States
<1>3. \A x \in DOMAIN objs : Exists(x)' = Exists(x)
  BY <1>2 DEF Exists, Opens
<1>4. \A x \in DOMAIN objs : Open(x) => Open(x)'
  BY <1>2 DEF Open
<1>5. conn # 0 => conn \in DOMAIN objs
  BY <1>1 DEF ObjectType
<1>6. ControlType' /\ ObjectType'
  <2>1. ControlType'
    BY <1>1 DEF ControlType, TncOnConnect, Crowds, Busy
  <2>2. ObjectType'
    BY <1>1, <1>2 DEF ObjectType
  <2>3. QED BY <2>1, <2>2
<1>7. NoDangling'
  <2>1. /\ {conn, script} \ {0} \subseteq DOMAIN objs
        /\ \A i \in DOMAIN dead : dead[i] \in DOMAIN objs
    BY <1>1, DeadObjects DEF ObjectType
  <2>2. QED BY <1>2, <1>3, <2>1 DEF NoDangling
<1>8. ScriptRuns'
  BY DEF ScriptRuns, Running
<1>9. Held'
  <2>1. (prog = "tnc" /\ Connected => data)'
    BY <1>2, <1>5 DEF Held, Connected, TncOnConnect
  <2>2. QED BY <1>1, <1>2, <1>4, <1>5, <2>1 DEF Held
<1>10. Known'
  BY <1>2, <1>3 DEF Known
<1>11. Ending'
  <2>1. ASSUME Running("check"), ~crowded', conn # 0
        PROVE  objs'[conn].st \notin {"CONNECTING", "CONNECTED"}
    <3>1. ret = "check"
      BY <2>1 DEF Running
    <3>2. conn # o
      BY <2>1, <3>1 DEF Ending, Opens, Crowds
    <3>3. QED BY <1>2, <1>5, <2>1, <3>2 DEF Ending
  <2>2. QED BY <2>1 DEF Ending, Running
<1>12. HungAll' /\ Signals'
  BY DEF HungAll, Signals
<1>13. QED BY <1>6, <1>7, <1>8, <1>9, <1>10, <1>11, <1>12

\* The connection o closes: on_disconnect, if it has its callbacks.
LEMMA Closing ==
    ASSUME IInv, pc \in {"poll", "ticks"}, NEW o \in DOMAIN objs, Open(o),
           SetState(o, "DISCONNECTED"), OnDisconnect(o),
           UNCHANGED <<cfgVars, pc, ret, sigVars, mycall, script, crowded>>
    PROVE  IInv'
<1> USE DEF IInv, cfgVars, sigVars
<1>1. /\ ControlType /\ ObjectType
      /\ DOMAIN objs = 1 .. Len(objs) /\ objs # <<>>
  BY LenProperties DEF ObjectType
<1>2. /\ objs' \in Seq(Object) /\ Len(objs') = Len(objs) /\ DOMAIN objs' = DOMAIN objs
      /\ objs'[o].st = "DISCONNECTED"
      /\ \A x \in DOMAIN objs :
            /\ objs'[x].cb = objs[x].cb /\ objs'[x].own = objs[x].own
            /\ x # o => objs'[x].st = objs[x].st
  BY <1>1, StateChange DEF ObjectType, States
<1>3. \A x \in DOMAIN objs : Exists(x)' = Exists(x)
  BY <1>2 DEF Exists, Open
<1>4. conn # 0 => conn \in DOMAIN objs
  BY <1>1 DEF ObjectType
<1>5. /\ dead' = dead \/ (conn # 0 /\ conn' = 0 /\ dead' = Append(dead, conn))
      /\ conn' = conn \/ (conn' = 0 /\ dead' = IF conn # 0 THEN Append(dead, conn) ELSE dead)
      /\ {done, data, guarded}' \subseteq BOOLEAN
  BY <1>1 DEF OnDisconnect, TncOnDisconnect, SimOnDisconnect, ConnectOnDisconnect, ToDead,
              appVars, ControlType
<1>6. /\ dead \in Seq(1 .. Len(objs)) /\ dead' \in Seq(1 .. Len(objs))
      /\ Elements(dead) \subseteq Elements(dead')
      /\ \/ Elements(dead') = Elements(dead)
         \/ conn # 0 /\ Elements(dead') = Elements(dead) \cup {conn}
      /\ conn # 0 /\ conn' = 0 => conn \in Elements(dead')
      /\ Elements(dead') \subseteq 1 .. Len(objs)
  <2>1. dead \in Seq(1 .. Len(objs)) /\ Elements(dead) \subseteq 1 .. Len(objs)
    BY <1>1, DeadObjects DEF ObjectType
  <2>2. conn # 0 => Append(dead, conn) \in Seq(1 .. Len(objs))
    BY <1>1, <1>4, <2>1, AppendProperties
  <2>3. conn # 0 => Elements(Append(dead, conn)) = Elements(dead) \cup {conn}
    BY <1>1, <1>4, <2>1, ElementsAppend
  <2>4. CASE dead' = dead
    BY <1>1, <1>4, <1>5, <2>1, <2>4
  <2>5. CASE conn # 0 /\ conn' = 0 /\ dead' = Append(dead, conn)
    BY <1>1, <1>4, <2>1, <2>2, <2>3, <2>5
  <2>6. QED BY <1>5, <2>4, <2>5
<1>7. ControlType' /\ ObjectType'
  <2>1. ControlType'
    BY <1>1, <1>5 DEF ControlType
  <2>2. ObjectType'
    BY <1>1, <1>2, <1>5, <1>6 DEF ObjectType
  <2>3. QED BY <2>1, <2>2
<1>8. NoDangling'
  <2>1. \A x \in {conn, script}' \ {0} : Exists(x)'
    BY <1>1, <1>3, <1>5 DEF NoDangling, ObjectType
  <2>2. \A x \in DOMAIN objs' : objs'[x].own \/ x = script'
    BY <1>2 DEF NoDangling
  <2>3. \A i, j \in DOMAIN dead' : objs'[dead'[i]].st # "freed" /\ (dead'[i] = dead'[j] => i = j)
    <3>1. CASE dead' = dead
      BY <1>1, <1>3, <3>1, DeadObjects DEF NoDangling, ObjectType, Exists
    <3>2. CASE conn # 0 /\ dead' = Append(dead, conn)
      <4>1. /\ DOMAIN dead = 1 .. Len(dead) /\ Len(dead) \in Nat
            /\ DOMAIN dead' = 1 .. (Len(dead) + 1)
            /\ \A i \in 1 .. Len(dead) : dead'[i] = dead[i] /\ dead[i] \in DOMAIN objs
            /\ dead'[Len(dead) + 1] = conn
        BY <1>1, <1>4, <1>6, <3>2, AppendProperties, DeadObjects DEF ObjectType
      <4>2. \A i \in 1 .. Len(dead) : dead[i] # conn
        BY <4>1 DEF Held, Elements
      <4>3. Exists(conn) /\ \A i \in 1 .. Len(dead) : Exists(dead[i])
        BY <1>1, <3>2, <4>1 DEF NoDangling
      <4>4. \A i \in DOMAIN dead' : objs'[dead'[i]].st # "freed"
        BY <1>3, <1>4, <3>2, <4>1, <4>3 DEF Exists
      <4>5. \A i, j \in DOMAIN dead' : dead'[i] = dead'[j] => i = j
        BY <4>1, <4>2 DEF NoDangling
      <4>6. QED BY <4>4, <4>5
    <3>3. QED BY <1>5, <3>1, <3>2
  <2>4. QED BY <2>1, <2>2, <2>3 DEF NoDangling, Exists
<1>9. ScriptRuns'
  BY DEF ScriptRuns, Running
<1>10. Held'
  <2>1. prog \notin Plain
    BY <1>1 DEF Held
  <2>2. CASE conn' = 0
    <3>1. conn' \notin Elements(dead')
      BY <1>1, <1>6, <2>2
    <3>2. (prog = "connect" => dead = <<>>)'
      BY DEF Held, OnDisconnect, ConnectOnDisconnect, appVars
    <3>3. QED BY <2>1, <2>2, <3>1, <3>2 DEF Held, Connected
  <2>3. CASE conn' = conn /\ conn # 0
    <3>1. (~objs[o].cb /\ UNCHANGED appVars) \/ (prog = "connect" /\ ConnectOnDisconnect)
      BY <2>3 DEF OnDisconnect, TncOnDisconnect, SimOnDisconnect
    <3>2. CASE ~objs[o].cb /\ UNCHANGED appVars
      <4>1. conn # o
        BY <2>3, <3>2 DEF Held
      <4>2. objs'[conn].st = objs[conn].st /\ objs'[conn].cb = objs[conn].cb
        BY <1>2, <1>4, <2>3, <4>1
      <4>3. QED BY <2>1, <2>3, <3>2, <4>2 DEF Held, Open, Connected, appVars
    <3>3. CASE prog = "connect" /\ ConnectOnDisconnect
      BY <1>2, <1>4, <2>1, <2>3, <3>3 DEF Held, ConnectOnDisconnect
    <3>4. QED BY <3>1, <3>2, <3>3
  <2>4. QED BY <1>5, <2>2, <2>3
<1>11. Known'
  BY <1>2, <1>3, <1>5, <1>6 DEF Known
<1>12. Ending'
  BY <1>2, <1>4, <1>5 DEF Ending, Running
<1>13. HungAll' /\ Signals'
  BY DEF HungAll, Signals
<1>14. QED BY <1>7, <1>8, <1>9, <1>10, <1>11, <1>12, <1>13

LEMMA HandleFrameKeeps == IInv /\ HandleFrame => IInv'
<1> SUFFICES ASSUME IInv, HandleFrame PROVE IInv'
  OBVIOUS
<1>1. PICK p \in Peers, t \in {"SABM", "UA", "DM", "DISC"} :
         /\ Find(p) # 0
         /\ \/ /\ Opens(Find(p), t) /\ SetState(Find(p), "CONNECTED") /\ OnConnect(Find(p))
               /\ crowded' = (crowded \/ (t = "SABM" /\ Crowds))
            \/ /\ Closes(Find(p), t) /\ SetState(Find(p), "DISCONNECTED") /\ OnDisconnect(Find(p))
               /\ UNCHANGED crowded
  BY DEF HandleFrame
<1>2. pc = "poll" /\ UNCHANGED <<cfgVars, pc, ret, sigVars, mycall, script>>
  BY DEF HandleFrame
<1>3. Find(p) \in DOMAIN objs
  BY <1>1, Found DEF IInv
<1>4. CASE /\ Opens(Find(p), t) /\ SetState(Find(p), "CONNECTED") /\ OnConnect(Find(p))
           /\ crowded' = (crowded \/ (t = "SABM" /\ Crowds))
  BY <1>2, <1>3, <1>4, Opening
<1>5. CASE /\ Closes(Find(p), t) /\ SetState(Find(p), "DISCONNECTED") /\ OnDisconnect(Find(p))
           /\ UNCHANGED crowded
  <2>1. Open(Find(p))
    BY <1>5 DEF Closes, Open
  <2>2. QED BY <1>2, <1>3, <1>5, <2>1, Closing
<1>6. QED BY <1>1, <1>4, <1>5

LEMMA LinkFailsKeeps == IInv /\ LinkFails => IInv'
BY Closing DEF LinkFails

\* A new connection, which becomes the program's unless it has no callbacks.
LEMMA Adding ==
    ASSUME IInv, NEW n \in Object, n.own, n.st \in {"CONNECTING", "CONNECTED"},
           objs' = Append(objs, n), Len(objs) < MaxConns,
           conn' = IF n.cb THEN Len(objs) + 1 ELSE conn,
           prog \notin Plain, UNCHANGED <<cfgVars, dead, script, done>>,
           ControlType', ScriptRuns', Signals', pc' \notin {"bye", "exit"},
           data => data', prog = "tnc" /\ n.cb /\ n.st = "CONNECTED" => data',
           crowded => crowded', ~crowded' => conn = 0 /\ n.cb /\ ~Running("check")'
    PROVE  IInv'
<1> USE DEF IInv, cfgVars
<1>1. /\ ObjectType /\ Len(objs) \in Nat
      /\ DOMAIN objs = 1 .. Len(objs) /\ {conn, script} \ {0} \subseteq DOMAIN objs
  BY LenProperties DEF ObjectType
<1>2. /\ objs' \in Seq(Object) /\ Len(objs') = Len(objs) + 1
      /\ DOMAIN objs' = DOMAIN objs \cup {Len(objs) + 1}
      /\ objs'[Len(objs) + 1] = n
      /\ \A x \in DOMAIN objs : objs'[x] = objs[x]
  BY <1>1, ObjectAdded DEF ObjectType
<1>3. /\ \A i \in DOMAIN dead : dead[i] \in DOMAIN objs
      /\ Elements(dead) \subseteq DOMAIN objs /\ Len(objs) + 1 \notin Elements(dead)
      /\ dead' \in Seq(1 .. Len(objs'))
  <2>1. dead \in Seq(1 .. (Len(objs) + 1))
    BY <1>1 DEF ObjectType
  <2>2. QED BY <1>1, <1>2, <2>1, DeadObjects DEF ObjectType
<1>4. ControlType' /\ ObjectType'
  <2>1. ObjectType'
    BY <1>1, <1>2, <1>3, BoundAssumption DEF ObjectType
  <2>2. QED BY <2>1
<1>5. NoDangling'
  BY <1>1, <1>2, <1>3 DEF NoDangling, Exists
<1>6. Held'
  <2>1. CASE n.cb
    BY <1>2, <1>3, <2>1 DEF Held, Open, Connected
  <2>2. CASE ~n.cb
    BY <1>1, <1>2, <2>2 DEF Held, Open, Connected
  <2>3. QED BY <2>1, <2>2
<1>7. Known'
  BY <1>1, <1>2, <1>3 DEF Known, Exists
<1>8. Ending'
  BY DEF Ending, Running
<1>9. HungAll'
  BY DEF HungAll
<1>10. QED BY <1>4, <1>5, <1>6, <1>7, <1>8, <1>9

LEMMA AcceptKeeps == IInv /\ Accept => IInv'
<1> SUFFICES ASSUME IInv, Accept PROVE IInv'
  OBVIOUS
<1> USE DEF IInv, cfgVars, sigVars
<1>1. /\ ControlType /\ ObjectType
      /\ DOMAIN objs = 1 .. Len(objs) /\ {conn, script} \ {0} \subseteq DOMAIN objs
  BY LenProperties DEF ObjectType
<1>2. PICK p \in Peers : objs' = Append(objs, NewConn(p, "CONNECTED", Takes))
  BY DEF Accept
<1> DEFINE n == NewConn(p, "CONNECTED", Takes)
<1>3. prog \in {"tnc", "sim", "connect"}
  BY <1>1, ProgsAssumption DEF Accept, Listening, Held, ControlType
<1>4. Takes \in BOOLEAN /\ (Takes \/ Busy)
  BY <1>1, <1>3 DEF Takes, TncTakes, SimTakes, ControlType
<1>5. n \in Object /\ n.own /\ n.st = "CONNECTED" /\ n.cb = Takes
  BY <1>1, <1>4 DEF NewConn, Object, ControlType
<1>6. ~crowded' => ~Busy /\ ~done /\ ret # "check" /\ ~crowded
  BY DEF Accept, Crowds
<1>7. ~crowded' => conn = 0
  BY <1>1, <1>3, <1>6 DEF Held, Busy, Open
<1>8. ControlType'
  BY <1>1, <1>4 DEF Accept, ControlType, Crowds, Busy
<1>9. ScriptRuns' /\ Signals'
  BY DEF Accept, ScriptRuns, Signals, Running
<1> HIDE DEF n
<1>10. objs' = Append(objs, n)
  BY <1>2 DEF n
<1>11. /\ pc' \notin {"bye", "exit"} /\ UNCHANGED <<cfgVars, dead, script, done>>
       /\ conn' = (IF n.cb THEN Len(objs) + 1 ELSE conn)
       /\ data => data'
       /\ prog = "tnc" /\ n.cb => data'
       /\ crowded => crowded'
  BY <1>5 DEF Accept
<1>12. ~crowded' => n.cb /\ ~Running("check")'
  BY <1>4, <1>5, <1>6 DEF Accept, Running
<1>13. Len(objs) < MaxConns /\ prog \notin Plain
  BY <1>3 DEF Accept, Plain
<1>14. QED BY <1>5, <1>7, <1>8, <1>9, <1>10, <1>11, <1>12, <1>13, Adding

\* The command C, without a connection or with a closed one.
LEMMA CallKeeps == IInv /\ pc = "input" /\ prog \in {"tnc", "sim"} /\ ~Busy /\ Call => IInv'
<1> SUFFICES ASSUME IInv, pc = "input", prog \in {"tnc", "sim"}, ~Busy, Call PROVE IInv'
  OBVIOUS
<1> USE DEF IInv, cfgVars, sigVars
<1>1. /\ ControlType /\ ObjectType
  OBVIOUS
<1>2. PICK p \in Peers : objs' = Append(objs, NewConn(p, "CONNECTING", TRUE))
  BY DEF Call
<1> DEFINE n == NewConn(p, "CONNECTING", TRUE)
<1>3. n \in Object /\ n.own /\ n.st = "CONNECTING" /\ n.cb
  BY <1>1 DEF NewConn, Object, ControlType
<1>4. conn = 0
  BY DEF Held, Busy, Open
<1>5. ControlType'
  BY <1>1 DEF Call, ControlType
<1>6. ScriptRuns' /\ Signals' /\ ~Running("check")'
  BY DEF Call, ScriptRuns, Signals, Running
<1> HIDE DEF n
<1>7. objs' = Append(objs, n)
  BY <1>2 DEF n
<1>8. /\ pc' = "loop" /\ UNCHANGED <<cfgVars, dead, script, done, data, crowded>>
      /\ conn' = Len(objs) + 1 /\ Len(objs) < MaxConns
  BY DEF Call
<1>9. prog \notin Plain
  BY DEF Plain
<1>10. QED BY <1>3, <1>4, <1>5, <1>6, <1>7, <1>8, <1>9, Adding

\* The program hangs up.
LEMMA Hanging ==
    ASSUME IInv, conn # 0, objs' = Hung(conn),
           UNCHANGED <<cfgVars, conn, dead, script, crowded>>,
           ControlType', ScriptRuns', Signals', done => done',
           pc' # "exit"
    PROVE  IInv'
<1> USE DEF IInv, cfgVars
<1>1. /\ ObjectType
      /\ DOMAIN objs = 1 .. Len(objs) /\ {conn, script} \ {0} \subseteq DOMAIN objs
  BY LenProperties DEF ObjectType
<1>2. /\ objs' \in Seq(Object) /\ Len(objs') = Len(objs) /\ DOMAIN objs' = DOMAIN objs
      /\ objs'[conn].st \notin {"CONNECTING", "CONNECTED"}
      /\ objs'[conn].st # objs[conn].st =>
            objs'[conn].st = "DISCONNECTING" /\ objs[conn].st \in {"CONNECTING", "CONNECTED"}
      /\ \A x \in DOMAIN objs :
            /\ objs'[x].cb = objs[x].cb /\ objs'[x].own = objs[x].own
            /\ x # conn => objs'[x].st = objs[x].st
  BY <1>1, HungChange DEF ObjectType
<1>3. \A x \in DOMAIN objs : Exists(x)' = Exists(x) /\ Open(x)' = Open(x)
  BY <1>2 DEF Exists, Open
<1>4. ControlType' /\ ObjectType'
  <2>1. ObjectType'
    BY <1>1, <1>2 DEF ObjectType
  <2>2. QED BY <2>1
<1>5. NoDangling'
  <2>1. \A i \in DOMAIN dead : dead[i] \in DOMAIN objs
    BY <1>1, DeadObjects DEF ObjectType
  <2>2. QED BY <1>1, <1>2, <1>3, <2>1 DEF NoDangling
<1>6. prog \notin Plain
  BY <1>1 DEF Held
<1>7. Held'
  BY <1>1, <1>2, <1>3, <1>6 DEF Held, Connected
<1>8. Known'
  BY <1>2, <1>3 DEF Known
<1>9. Ending' /\ HungAll'
  BY <1>2, <1>6 DEF Ending, HungAll
<1>10. QED BY <1>4, <1>5, <1>7, <1>8, <1>9

\* Deletion: of all that is in dead_conns, and at the end of conn.  A
\* hang-up may come before it.
LEMMA Deleting ==
    ASSUME IInv, NEW os, NEW gone, Elements(dead) \subseteq gone, script = 0,
           os = objs \/ (conn # 0 /\ os = Hung(conn)),
           gone \subseteq Elements(dead) \cup {conn},
           \/ pc' # "exit" \/ crowded \/ conn \in gone \/ conn = 0
           \/ objs[conn].st \notin {"CONNECTING", "CONNECTED"},
           objs' = Deleted(os, gone), dead' = <<>>, conn' = IF conn \in gone THEN 0 ELSE conn,
           UNCHANGED <<cfgVars, script, crowded, done, data>>,
           ControlType', ScriptRuns', Signals', pc' \in {"input", "exit"}
    PROVE  IInv'
<1> USE DEF IInv, cfgVars
<1>1. /\ ObjectType
      /\ DOMAIN objs = 1 .. Len(objs) /\ {conn} \ {0} \subseteq DOMAIN objs
  BY LenProperties DEF ObjectType
<1>2. /\ os \in Seq(Object) /\ Len(os) = Len(objs) /\ DOMAIN os = DOMAIN objs
      /\ \A x \in DOMAIN objs :
            /\ os[x].cb = objs[x].cb /\ os[x].own = objs[x].own
            /\ (os[x].st = "freed") = (objs[x].st = "freed")
            /\ (os[x].st = "DISCONNECTED") = (objs[x].st = "DISCONNECTED")
            /\ os[x].st \in {"CONNECTING", "CONNECTED"} => os[x].st = objs[x].st
  <2>1. CASE os = objs
    BY <1>1, <2>1 DEF ObjectType
  <2>2. CASE conn # 0 /\ os = Hung(conn)
    <3>1. /\ os \in Seq(Object) /\ Len(os) = Len(objs) /\ DOMAIN os = DOMAIN objs
          /\ os[conn].st # objs[conn].st =>
                os[conn].st = "DISCONNECTING" /\ objs[conn].st \in {"CONNECTING", "CONNECTED"}
          /\ \A x \in DOMAIN objs :
                /\ os[x].cb = objs[x].cb /\ os[x].own = objs[x].own
                /\ x # conn => os[x].st = objs[x].st
      BY <1>1, <2>2, HungChange DEF ObjectType
    <3>2. QED BY <3>1
  <2>3. QED BY <2>1, <2>2
<1>3. /\ objs' \in Seq(Object) /\ Len(objs') = Len(objs) /\ DOMAIN objs' = DOMAIN objs
      /\ \A x \in DOMAIN objs : objs'[x] = IF x \in gone THEN Freed ELSE os[x]
      /\ Freed.st = "freed" /\ Freed.own = TRUE
  <2>1. os \in Seq(Object) /\ objs' = Deleted(os, gone)
    BY <1>2
  <2> HIDE DEF IInv
  <2>2. /\ objs' \in Seq(Object) /\ Len(objs') = Len(os) /\ DOMAIN objs' = DOMAIN os
        /\ \A x \in DOMAIN os : objs'[x] = IF x \in gone THEN Freed ELSE os[x]
        /\ Freed.st = "freed" /\ Freed.own = TRUE
    BY <2>1, DeletedObjects
  <2>3. QED BY <1>2, <2>2
<1>4. Elements(dead') = {} /\ DOMAIN dead' = {} /\ dead' \in Seq(1 .. Len(objs'))
  BY ElementsEmpty, EmptySeq
<1>5. conn' # 0 => /\ conn' = conn /\ conn \in DOMAIN objs
                   /\ objs'[conn] = os[conn]
  BY <1>1, <1>3
<1>6. ControlType' /\ ObjectType'
  <2>1. ObjectType'
    BY <1>1, <1>3, <1>4, <1>5 DEF ObjectType
  <2>2. QED BY <2>1
<1>7. NoDangling'
  BY <1>1, <1>2, <1>3, <1>4, <1>5 DEF NoDangling, Exists
<1>8. Held'
  <2>1. prog \in Plain => objs' = <<>>
    BY <1>1, <1>3, EmptySeq DEF Held
  <2>2. conn' # 0 => /\ Open(conn)' = Open(conn) /\ objs'[conn].cb = objs[conn].cb
                     /\ Connected' => Connected
    BY <1>2, <1>5 DEF Open, Connected
  <2>3. ~Connected' \/ conn' # 0
    BY DEF Connected
  <2>4. QED BY <1>4, <1>5, <2>1, <2>2, <2>3 DEF Held
<1>9. Known'
  BY <1>1, <1>2, <1>3, <1>5 DEF Known, Exists
<1>10. Ending'
  BY DEF Ending, Running
<1>11. HungAll'
  <2> SUFFICES ASSUME pc' = "exit", ~crowded, NEW x \in DOMAIN objs,
                      objs'[x].st \in {"CONNECTING", "CONNECTED"}
               PROVE  FALSE
    BY <1>3 DEF HungAll
  <2>1. x \notin gone /\ objs[x].st \in {"CONNECTING", "CONNECTED"}
    BY <1>2, <1>3
  <2>2. x = conn
    BY <2>1 DEF Known, Exists
  <2>3. QED BY <1>1, <2>1, <2>2
<1>12. QED BY <1>6, <1>7, <1>8, <1>9, <1>10, <1>11

\* on_data of the connection o is lent to a script, or given back.
LEMMA Lending ==
    ASSUME IInv, NEW o \in DOMAIN objs, NEW b \in BOOLEAN,
           objs' = [objs EXCEPT ![o].own = b],
           UNCHANGED <<cfgVars, conn, dead, crowded, done, data>>,
           script \in {0, o}, script' \in {0, o}, script' = 0 => b, script' = o => Exists(o),
           ControlType', ScriptRuns', Signals', pc' \in {"script", "loop"}
    PROVE  IInv'
<1> USE DEF IInv, cfgVars
<1>1. /\ ObjectType
      /\ DOMAIN objs = 1 .. Len(objs) /\ {conn} \ {0} \subseteq DOMAIN objs
  BY LenProperties DEF ObjectType
<1> DEFINE new == [objs[o] EXCEPT !.own = b]
<1>2. objs[o] \in Object
  BY <1>1, ElementOfSeq, LenProperties DEF ObjectType
<1>3. new \in Object /\ new.st = objs[o].st /\ new.cb = objs[o].cb /\ new.own = b
  BY <1>2 DEF Object
<1>4. objs' = [objs EXCEPT ![o] = new]
  OBVIOUS
<1> HIDE DEF new
<1>5. /\ objs' \in Seq(Object) /\ Len(objs') = Len(objs) /\ DOMAIN objs' = DOMAIN objs
      /\ objs'[o].own = b
      /\ \A x \in DOMAIN objs :
            /\ objs'[x].st = objs[x].st /\ objs'[x].cb = objs[x].cb
            /\ x # o => objs'[x].own = objs[x].own
  <2>1. objs \in Seq(Object)
    BY <1>1 DEF ObjectType
  <2> HIDE DEF IInv
  <2>2. QED BY <2>1, <1>3, <1>4, ExceptSeq, LenProperties
<1>6. ControlType' /\ ObjectType'
  <2>1. ObjectType'
    BY <1>1, <1>5 DEF ObjectType
  <2>2. QED BY <2>1
<1>7. NoDangling'
  <2>1. \A i \in DOMAIN dead : dead[i] \in DOMAIN objs
    BY <1>1, DeadObjects DEF ObjectType
  <2>2. QED BY <1>1, <1>5, <2>1 DEF NoDangling, Exists
<1>8. Held'
  BY <1>1, <1>5, EmptySeq DEF Held, Open, Connected
<1>9. Known'
  BY <1>5 DEF Known, Exists
<1>10. Ending' /\ HungAll'
  BY DEF Ending, HungAll, Running
<1>11. QED BY <1>6, <1>7, <1>8, <1>9, <1>10

-----------------------------------------------------------------------------
(* The loops, the input and the scripts                                    *)

LEMMA PollKeeps == IInv /\ (KissReturns \/ PollReturns) => IInv'
<1> SUFFICES ASSUME IInv, KissReturns \/ PollReturns PROVE IInv'
  OBVIOUS
<1>1. ControlType /\ Held /\ ScriptRuns /\ Ending /\ Signals
  BY DEF IInv
<1>2. Quiet /\ UNCHANGED <<ret, quit, ctrlc, mycall, data, done, guarded>>
  BY DEF KissReturns, PollReturns, Quiet, appVars, sigVars
<1>3. ControlType'
  BY <1>1, <1>2 DEF ControlType, KissReturns, PollReturns, Quiet, cfgVars
<1>4. /\ script # 0 => pc' = "script" \/ Running("recv")'
      /\ Running("check")' => Running("check")
      /\ pc' \notin {"bye", "exit"}
  BY <1>1, <1>2 DEF ScriptRuns, Running, KissReturns, PollReturns, Quiet, ControlType
<1>5. (done => done') /\ (prog = "tnc" /\ Connected => data') /\ (~quit' => ctrlc' <= 1)
  BY <1>1, <1>2 DEF Held, Signals
<1>6. QED BY <1>2, <1>3, <1>4, <1>5, QuietKeeps

\* The steps of the main thread between two polls that leave the
\* connections alone.
Aside ==
    \/ Loop \/ Input \/ TncTextUnsent \/ TncMyCall \/ SimMyCall
    \/ TncQuit \/ SimQuit \/ UnprotoQuit \/ ConnectScript \/ Await
    \/ ConnectOnRecv \/ SimOnRecv \/ OnRecvPoll \/ OnRecvReturns \/ BootScriptEnds

LEMMA AsideQuiet ==
    ASSUME Aside
    PROVE  /\ Quiet /\ UNCHANGED radioVars
           /\ pc \in {"await", "loop", "input", "script", "recv"}
           /\ pc' \notin {"ticks", "check"}
           /\ pc' = "exit" => prog \in Plain
BY DEF Aside, Quiet, appVars, sigVars, radioVars, Plain,
       Loop, TncLoop, SimLoop, ConnectLoop, MonitorLoop, UnprotoLoop, TestLoop, Round, Poll,
       Input, NoInput, EndOfInput, TncTextUnsent, TncData, TncMyCall, SimMyCall, TncCommand,
       SimCommand, TakeCall, TncQuit, SimQuit, UnprotoQuit, Quits, ConnectScript, ConnectLine,
       Await, ConnectOnRecv, SimOnRecv, OnRecv, OnRecvPoll, OnRecvReturns, BootScriptEnds

LEMMA AsideKeeps == IInv /\ Aside => IInv'
<1> SUFFICES ASSUME IInv, Aside PROVE IInv'
  OBVIOUS
<1>1. ControlType /\ Held /\ ScriptRuns /\ Ending /\ Signals
  BY DEF IInv
<1> USE DEF Loop, TncLoop, SimLoop, ConnectLoop, MonitorLoop, UnprotoLoop, TestLoop, Round, Poll,
            Input, NoInput, EndOfInput, TncTextUnsent, TncData, TncMyCall, SimMyCall, TncCommand,
            SimCommand, TakeCall, TncQuit, SimQuit, UnprotoQuit, Quits, ConnectScript, ConnectLine,
            Await, ConnectOnRecv, SimOnRecv, OnRecv, OnRecvPoll, OnRecvReturns, BootScriptEnds
<1>2. Quiet
  BY DEF Aside, Quiet, appVars
<1>3. pc \in {"await", "loop", "input", "script", "recv"}
  BY DEF Aside
<1>4. ControlType'
  BY <1>1 DEF Aside, ControlType, cfgVars, sigVars, appVars
<1>5. script # 0 => pc' = "script" \/ Running("recv")'
  BY <1>1 DEF Aside, ScriptRuns, Running
<1>6. /\ ~Running("check")'
      /\ pc' = "bye" => prog \notin Plain
      /\ pc' = "exit" => prog \in Plain
  BY <1>1 DEF Aside, Running, Plain
<1>7. done => done'
  BY DEF Aside, appVars
<1>8. prog = "tnc" /\ Connected => data'
  BY <1>1 DEF Aside, Held, appVars
<1>9. ~quit' => ctrlc' <= 1
  BY <1>1 DEF Aside, Signals, sigVars
<1>10. QED BY <1>2, <1>4, <1>5, <1>6, <1>7, <1>8, <1>9, QuietKeeps

LEMMA SignalKeeps == IInv /\ (SigInt \/ SigTerm) => IInv'
<1> SUFFICES ASSUME IInv, SigInt \/ SigTerm PROVE IInv'
  OBVIOUS
<1>1. ControlType /\ Held /\ ScriptRuns /\ Ending /\ Signals
  BY DEF IInv
<1>2. Quiet /\ UNCHANGED <<pc, ret, mycall, data, done, guarded>> /\ pc # "exit"
  BY DEF SigInt, SigTerm, Quiet, appVars
<1>3. /\ quit' \in BOOLEAN /\ ctrlc' \in 0 .. 2
      /\ ~quit' => ctrlc' <= 1
  <2>1. ~quit /\ ctrlc \in {0, 1}
    BY <1>1 DEF SigInt, SigTerm, Signals, ControlType
  <2>2. CASE SigTerm
    BY <1>1, <2>1, <2>2 DEF SigTerm
  <2>3. CASE SigInt
    <3>1. PICK before \in {0, ctrlc} : ctrlc' = before + 1 /\ quit' = (before + 1 >= 2)
      BY <2>3 DEF SigInt
    <3>2. CASE before = 0
      <4>1. ctrlc' = 1 /\ (before + 1 >= 2) = FALSE
        BY <3>1, <3>2
      <4>2. QED BY <3>1, <4>1
    <3>3. CASE before = 1
      <4>1. ctrlc' = 2 /\ (before + 1 >= 2) = TRUE
        BY <3>1, <3>3
      <4>2. quit' = TRUE
        BY <3>1, <4>1
      <4>3. ctrlc' \in 0 .. 2
        BY <4>1
      <4>4. QED BY <4>2, <4>3
    <3>4. QED BY <2>1, <3>2, <3>3
  <2>4. QED BY <2>2, <2>3
<1>4. ControlType'
  BY <1>1, <1>2, <1>3 DEF ControlType, Quiet, cfgVars
<1>5. /\ script # 0 => pc' = "script" \/ Running("recv")'
      /\ Running("check")' => Running("check")
  BY <1>1, <1>2 DEF ScriptRuns, Running, Quiet
<1>6. pc' = "bye" => prog \notin Plain
  BY <1>1, <1>2 DEF Ending
<1>7. (done => done') /\ (prog = "tnc" /\ Connected => data')
  BY <1>1, <1>2 DEF Held
<1>8. QED BY <1>2, <1>3, <1>4, <1>5, <1>6, <1>7, QuietKeeps

LEMMA HangUpKeeps ==
    IInv /\ (TncDisconnect \/ TncDataDisconnect \/ SimDisconnect \/ ConnectDisconnect) => IInv'
<1> SUFFICES ASSUME IInv, TncDisconnect \/ TncDataDisconnect \/ SimDisconnect \/ ConnectDisconnect
             PROVE  IInv'
  OBVIOUS
<1> USE DEF TncDisconnect, TncDataDisconnect, SimDisconnect, ConnectDisconnect, HangUp,
            TncCommand, TncData, SimCommand, ConnectLine
<1>1. ControlType /\ Held /\ ScriptRuns /\ Ending /\ Signals
  BY DEF IInv
<1>2. /\ pc = "input" /\ pc' = "loop" /\ done' \in BOOLEAN /\ (done => done')
      /\ UNCHANGED <<cfgVars, ret, sigVars, mycall, conn, dead, data, guarded, script, crowded>>
  <2>1. done' = done \/ done' = TRUE
    OBVIOUS
  <2>2. done \in BOOLEAN
    BY <1>1 DEF ControlType
  <2>3. done' \in BOOLEAN /\ (done => done')
    <3>1. CASE done' = done
      BY <2>2, <3>1
    <3>2. CASE done' = TRUE
      BY <3>2
    <3>3. QED BY <2>1, <3>1, <3>2
  <2>4. /\ pc = "input" /\ pc' = "loop"
        /\ UNCHANGED <<cfgVars, ret, sigVars, mycall, conn, dead, data, guarded, script, crowded>>
    OBVIOUS
  <2>5. QED BY <2>3, <2>4
<1>3. ControlType' /\ ScriptRuns' /\ Signals'
  BY <1>1, <1>2 DEF ControlType, ScriptRuns, Signals, Running, cfgVars, sigVars
<1>4. CASE objs' = Hung(conn) /\ conn # 0
  BY <1>2, <1>3, <1>4, Hanging
<1>5. CASE objs' = objs
  <2>1. Quiet
    BY <1>2, <1>5 DEF Quiet
  <2>2. /\ script # 0 => pc' = "script" \/ Running("recv")'
        /\ ~Running("check")' /\ pc' \notin {"bye", "exit"}
        /\ ~quit' => ctrlc' <= 1
    BY <1>1, <1>2 DEF ScriptRuns, Running, Signals, sigVars
  <2>3. prog = "tnc" /\ Connected => data'
    BY <1>1, <1>2 DEF Held
  <2>4. QED BY <1>2, <1>3, <2>1, <2>2, <2>3, QuietKeeps
<1>6. (objs' = Hung(conn) /\ conn # 0) \/ objs' = objs
  BY DEF Busy, Connected
<1>7. QED BY <1>4, <1>5, <1>6

LEMMA ReapKeeps == IInv /\ Reap => IInv'
<1> SUFFICES ASSUME IInv, TncReap \/ SimReap PROVE IInv'
  BY DEF Reap
<1> USE DEF TncReap, SimReap
<1>1. ControlType /\ Held /\ ScriptRuns /\ Signals
  BY DEF IInv
<1>2. /\ pc = "reap" /\ pc' = "input" /\ dead' = <<>>
      /\ UNCHANGED <<cfgVars, ret, quit, mycall, conn, done, data, guarded, script, crowded>>
  BY DEF sigVars
<1>3. ControlType' /\ ScriptRuns' /\ Signals'
  <2>1. ctrlc' \in {0, ctrlc}
    BY DEF sigVars
  <2>2. QED BY <1>1, <1>2, <2>1 DEF ControlType, ScriptRuns, Signals, Running, cfgVars
<1>4. script = 0
  BY <1>1, <1>2 DEF ScriptRuns, Running
<1>5. PICK os : objs' = Deleted(os, Elements(dead)) /\ (os = objs \/ (conn # 0 /\ os = Hung(conn)))
  BY DEF Connected
<1>6. conn \notin Elements(dead)
  BY <1>1 DEF Held
<1>7. QED BY <1>2, <1>3, <1>4, <1>5, <1>6, Deleting

LEMMA LendKeeps == IInv /\ (TncScript \/ SimScript) => IInv'
<1> SUFFICES ASSUME IInv, TncScript \/ SimScript PROVE IInv'
  OBVIOUS
<1> USE DEF TncScript, SimScript, TncCommand, TncData, SimCommand, Lend
<1>1. ControlType /\ ObjectType /\ Held /\ ScriptRuns /\ NoDangling /\ Signals
  BY DEF IInv
<1>2. /\ pc = "input" /\ pc' = "script" /\ script' = conn /\ prog # "connect"
      /\ UNCHANGED <<cfgVars, ret, quit, ctrlc, mycall, conn, dead, done, data, guarded, crowded>>
  BY DEF sigVars, appVars
<1>3. script = 0
  BY <1>1, <1>2 DEF ScriptRuns, Running
<1>4. ControlType' /\ ScriptRuns' /\ Signals'
  BY <1>1, <1>2 DEF ControlType, ScriptRuns, Signals, Running, cfgVars
<1>5. CASE conn = 0
  <2>1. Quiet
    BY <1>2, <1>3, <1>5 DEF Quiet
  <2>2. ~Running("check")'
    BY <1>2 DEF Running
  <2>3. (prog = "tnc" /\ Connected => data') /\ (~quit' => ctrlc' <= 1)
    BY <1>1, <1>2 DEF Held, Signals
  <2>4. QED BY <1>2, <1>3, <1>4, <2>1, <2>2, <2>3, QuietKeeps
<1>6. CASE conn # 0
  <2>1. conn \in DOMAIN objs
    BY <1>1, <1>6, LenProperties DEF ObjectType
  <2>2. Exists(conn)
    BY <1>1, <1>6 DEF NoDangling
  <2>3. objs' = [objs EXCEPT ![conn].own = FALSE]
    BY <1>6
  <2>4. QED BY <1>2, <1>3, <1>4, <1>6, <2>1, <2>2, <2>3, Lending
<1>7. QED BY <1>5, <1>6

LEMMA ScriptEndsKeeps == IInv /\ ScriptEnds => IInv'
<1> SUFFICES ASSUME IInv, ScriptEnds PROVE IInv'
  OBVIOUS
<1>1. ControlType /\ ObjectType /\ Held /\ ScriptRuns /\ Signals
  BY DEF IInv
<1>2. /\ pc = "script" /\ pc' = "loop" /\ script' = 0
      /\ UNCHANGED <<cfgVars, ret, quit, ctrlc, mycall, conn, dead, done, data, guarded, crowded>>
  BY DEF ScriptEnds, sigVars, appVars
<1>3. ControlType' /\ ScriptRuns' /\ Signals'
  BY <1>1, <1>2 DEF ControlType, ScriptRuns, Signals, cfgVars
<1>4. CASE script = 0
  <2>1. Quiet
    BY <1>2, <1>4 DEF Quiet, ScriptEnds
  <2>2. ~Running("check")' /\ (prog = "tnc" /\ Connected => data') /\ (~quit' => ctrlc' <= 1)
    BY <1>1, <1>2 DEF Running, Held, Signals
  <2>3. QED BY <1>2, <1>3, <1>4, <2>1, <2>2, QuietKeeps
<1>5. CASE script # 0
  <2>1. script \in DOMAIN objs
    BY <1>1, <1>5, LenProperties DEF ObjectType
  <2>2. objs' = [objs EXCEPT ![script].own = TRUE]
    BY <1>5 DEF ScriptEnds
  <2>3. QED BY <1>2, <1>3, <1>5, <2>1, <2>2, Lending
<1>6. QED BY <1>4, <1>5

-----------------------------------------------------------------------------
(* The end                                                                 *)

LEMMA Leaving ==
    ASSUME IInv, pc \in {"bye", "check"}, Leave,
           UNCHANGED <<cfgVars, sigVars, mycall, script, crowded>>,
           crowded \/ conn = 0 \/ objs[conn].st \notin {"CONNECTING", "CONNECTED"} \/ prog # "sim"
    PROVE  IInv'
<1>1. ControlType /\ Held /\ ScriptRuns /\ Signals
  BY DEF IInv
<1>2. PICK gone :
         /\ Exit(gone)
         /\ gone \in {Mine \cup Elements(dead), Mine, Elements(dead)}
         /\ prog = "connect" \/ Elements(dead) \subseteq gone
         /\ prog = "sim" \/ Mine \subseteq gone
  <2>1. CASE prog = "tnc" /\ Exit(Mine \cup Elements(dead))
    BY <2>1
  <2>2. CASE prog = "connect" /\ Exit(Mine)
    BY <2>2
  <2>3. CASE prog = "sim" /\ Exit(Elements(dead))
    BY <2>3
  <2>4. QED BY <2>1, <2>2, <2>3 DEF Leave
<1>3. /\ pc' = "exit" /\ objs' = Deleted(objs, gone) /\ dead' = <<>>
      /\ conn' = IF conn \in gone THEN 0 ELSE conn
      /\ UNCHANGED <<cfgVars, ret, done, data, guarded, quit, ctrlc, mycall, script, crowded>>
  BY <1>2 DEF Exit, sigVars
<1>4. ControlType' /\ ScriptRuns' /\ Signals' /\ script = 0
  <2>1. script = 0
    BY <1>1 DEF ScriptRuns, Running
  <2>2. QED BY <1>1, <1>3, <2>1 DEF ControlType, ScriptRuns, Signals, cfgVars
<1>5. Elements(dead) \subseteq gone
  BY <1>1, <1>2, ElementsEmpty DEF Held
<1>6. gone \subseteq Elements(dead) \cup {conn}
  BY <1>2 DEF Mine
<1>7. crowded \/ conn \in gone \/ conn = 0 \/ objs[conn].st \notin {"CONNECTING", "CONNECTED"}
  BY <1>2 DEF Mine
<1>8. QED BY <1>3, <1>4, <1>5, <1>6, <1>7, Deleting

LEMMA ByeKeeps == IInv /\ (TncBye \/ ConnectBye \/ SimBye) => IInv'
<1> SUFFICES ASSUME IInv, TncBye \/ ConnectBye \/ SimBye PROVE IInv'
  OBVIOUS
<1>1. ControlType /\ ScriptRuns /\ Signals
  BY DEF IInv
<1>2. PICK hang \in BOOLEAN :
         Bye(hang) /\ (hang => conn # 0) /\ (~hang => ~Busy \/ prog # "sim")
  <2>1. Busy \in BOOLEAN /\ Connected \in BOOLEAN
    BY DEF Busy, Connected
  <2>2. (Busy => conn # 0) /\ (Connected => conn # 0)
    BY DEF Busy, Connected
  <2>3. QED BY <2>1, <2>2 DEF TncBye, ConnectBye, SimBye
<1>3. pc = "bye" /\ UNCHANGED <<cfgVars, sigVars, mycall, script, crowded>>
  BY <1>2 DEF Bye
<1>4. CASE hang
  <2>1. /\ objs' = Hung(conn) /\ pc' = "poll" /\ ret' = "check"
        /\ UNCHANGED <<conn, dead, done, data, guarded>>
    BY <1>2, <1>4 DEF Bye, Poll, appVars
  <2>2. ControlType' /\ ScriptRuns' /\ Signals'
    BY <1>1, <1>3, <2>1 DEF ControlType, ScriptRuns, Signals, Running, cfgVars, sigVars
  <2>3. QED BY <1>2, <1>3, <1>4, <2>1, <2>2, Hanging
<1>5. CASE ~hang
  <2>1. Leave
    BY <1>2, <1>5 DEF Bye
  <2>2. crowded \/ conn = 0 \/ objs[conn].st \notin {"CONNECTING", "CONNECTED"} \/ prog # "sim"
    BY <1>2, <1>5 DEF Busy
  <2>3. QED BY <1>3, <2>1, <2>2, Leaving
<1>6. QED BY <1>4, <1>5

LEMMA CheckKeeps == IInv /\ Check => IInv'
<1> SUFFICES ASSUME IInv, Check PROVE IInv'
  OBVIOUS
<1>1. ControlType /\ Held /\ ScriptRuns /\ Ending /\ Signals
  BY DEF IInv
<1>2. pc = "check" /\ UNCHANGED <<cfgVars, sigVars, mycall, script, crowded>>
  BY DEF Check
<1>3. CASE Leave
  <2>1. crowded \/ conn = 0 \/ objs[conn].st \notin {"CONNECTING", "CONNECTED"}
    BY <1>1, <1>2 DEF Ending, Running
  <2>2. QED BY <1>2, <1>3, <2>1, Leaving
<1>4. CASE Busy /\ Poll("check") /\ UNCHANGED <<objs, appVars>>
  <2>1. /\ Quiet /\ pc' = "poll" /\ ret' = "check"
        /\ UNCHANGED <<quit, ctrlc, mycall, data, done, guarded>>
    BY <1>2, <1>4 DEF Poll, Quiet, appVars, sigVars
  <2>2. ControlType'
    BY <1>1, <2>1 DEF ControlType, Quiet, cfgVars
  <2>3. /\ script = 0 /\ Running("check")
        /\ ~quit' => ctrlc' <= 1
    BY <1>1, <1>2, <2>1 DEF ScriptRuns, Running, Signals
  <2>4. (done => done') /\ (prog = "tnc" /\ Connected => data')
    BY <1>1, <2>1 DEF Held
  <2>5. QED BY <2>1, <2>2, <2>3, <2>4, QuietKeeps
<1>5. QED BY <1>3, <1>4 DEF Check

-----------------------------------------------------------------------------
(* The invariant is inductive                                               *)

LEMMA InitIInv == Init => IInv
<1> SUFFICES ASSUME Init PROVE IInv
  OBVIOUS
<1> DEFINE first == NewConn(remote, "CONNECTING", TRUE)
<1>1. remote \in Peers \cup {"none", "ANY"} /\ boot \in BOOLEAN /\ guarded \in BOOLEAN
  BY DEF Init, TncStart, ConnectStart, SimStart, PlainStart
<1>2. ControlType
  <2>1. /\ prog \in Progs /\ pc \in {"await", "loop"} /\ ret = "reap"
        /\ ctrlc = 0 /\ mycall = FirstCall
        /\ quit = FALSE /\ done = FALSE /\ data = FALSE /\ crowded = FALSE
    BY DEF Init
  <2>2. {quit, done, data, guarded, crowded} \subseteq BOOLEAN
    BY <1>1, <2>1
  <2>3. QED BY <1>1, <2>1, <2>2, CallsAssumption DEF ControlType
<1>3. dead = <<>> /\ dead \in Seq(1 .. Len(objs)) /\ DOMAIN dead = {} /\ Elements(dead) = {}
  BY EmptySeq, ElementsEmpty DEF Init
<1>4. pc \in {"await", "loop"} /\ script = 0 /\ ~done /\ ~quit /\ ctrlc = 0 /\ ~crowded
  BY DEF Init
<1>5. boot => prog = "connect"
  BY DEF Init, TncStart, ConnectStart, SimStart, PlainStart
<1>6. CASE remote \in Peers
  <2>1. /\ first \in Object /\ first.own /\ first.cb
        /\ first.st = "CONNECTING"
    BY <1>6, CallsAssumption DEF Init, NewConn, Object
  <2> HIDE DEF first
  <2>2. objs = <<first>>
    BY <1>6 DEF Init, first
  <2>3. objs \in Seq(Object) /\ Len(objs) = 1 /\ DOMAIN objs = {1} /\ objs[1] = first
    BY <2>1, <2>2
  <2>4. conn = 1
    BY <2>3 DEF Init
  <2>5. ControlType /\ ObjectType
    BY <1>2, <1>3, <1>4, <2>3, <2>4, BoundAssumption DEF ObjectType
  <2>6. NoDangling /\ ScriptRuns
    BY <1>3, <1>4, <1>5, <2>1, <2>3, <2>4 DEF NoDangling, ScriptRuns, Exists
  <2>7. prog \notin Plain
    BY <1>6, PeersAssumption DEF Init, TncStart, ConnectStart, SimStart, PlainStart, Plain
  <2>8. Held /\ Known
    BY <1>3, <2>1, <2>3, <2>4, <2>7 DEF Held, Known, Open, Connected
  <2>9. Ending /\ HungAll /\ Signals
    BY <1>4 DEF Ending, HungAll, Signals, Running
  <2>10. QED BY <2>5, <2>6, <2>8, <2>9 DEF IInv
<1>7. CASE remote \notin Peers
  <2>1. objs = <<>> /\ objs \in Seq(Object) /\ Len(objs) = 0 /\ DOMAIN objs = {}
    BY <1>7, EmptySeq DEF Init
  <2>2. conn = 0
    BY <2>1 DEF Init
  <2>3. ControlType /\ ObjectType
    BY <1>2, <1>3, <1>4, <2>1, <2>2, BoundAssumption DEF ObjectType
  <2>4. NoDangling /\ ScriptRuns
    BY <1>3, <1>4, <1>5, <2>1, <2>2 DEF NoDangling, ScriptRuns
  <2>5. prog \in Plain => remote = "none"
    BY DEF Init, TncStart, ConnectStart, SimStart, PlainStart, Plain
  <2>6. Held /\ Known
    BY <1>3, <2>1, <2>2, <2>5 DEF Held, Known, Connected
  <2>7. Ending /\ HungAll /\ Signals
    BY <1>4 DEF Ending, HungAll, Signals, Running
  <2>8. QED BY <2>3, <2>4, <2>6, <2>7 DEF IInv
<1>8. QED BY <1>6, <1>7

\* A step that only touches what is on the air.
LEMMA StillKeeps ==
    ASSUME IInv, UNCHANGED <<cfgVars, pc, ret, quit, ctrlc, mycall, objs, appVars, script, crowded>>
    PROVE  IInv'
BY DEF IInv, ControlType, ObjectType, NoDangling, ScriptRuns, Held, Known, Ending, HungAll, Signals,
       Running, Exists, Open, Connected, cfgVars, appVars

LEMMA NextIInv == IInv /\ [Next]_vars => IInv'
<1> SUFFICES ASSUME IInv, [Next]_vars PROVE IInv'
  OBVIOUS
<1>1. CASE RouterPoll
  <2>1. CASE Overheard \/ RepeatDisc
    BY <2>1, StillKeeps DEF Overheard, RepeatDisc, sigVars
  <2>2. QED
    BY <1>1, <2>1, HandleFrameKeeps, AcceptKeeps, PollKeeps, LinkFailsKeeps DEF RouterPoll
<1>2. CASE Loop \/ Input \/ UnprotoQuit
  BY <1>2, AsideKeeps DEF Aside
<1>3. CASE Reap
  BY <1>3, ReapKeeps
<1>4. CASE Tnc
  <2>1. CASE TncOther \/ TncDataOther
    BY <2>1, AsideKeeps DEF TncOther, TncDataOther, Aside, Input
  <2>2. CASE TncConnect
    BY <2>2, CallKeeps DEF TncConnect, TncCommand
  <2>3. CASE TncDisconnect \/ TncDataDisconnect
    BY <2>3, HangUpKeeps
  <2>4. CASE TncTextUnsent \/ TncMyCall \/ TncQuit
    BY <2>4, AsideKeeps DEF Aside
  <2>5. CASE TncScript \/ TncBye
    BY <2>5, LendKeeps, ByeKeeps
  <2>6. QED BY <1>4, <2>1, <2>2, <2>3, <2>4, <2>5 DEF Tnc
<1>5. CASE Sim
  <2>1. CASE SimOther \/ SimText
    BY <2>1, AsideKeeps DEF SimOther, SimText, Aside, Input
  <2>2. CASE SimConnect
    BY <2>2, CallKeeps DEF SimConnect, SimCommand
  <2>3. CASE SimDisconnect
    BY <2>3, HangUpKeeps
  <2>4. CASE SimMyCall \/ SimQuit \/ SimOnRecv
    BY <2>4, AsideKeeps DEF Aside
  <2>5. CASE SimScript \/ SimBye
    BY <2>5, LendKeeps, ByeKeeps
  <2>6. QED BY <1>5, <2>1, <2>2, <2>3, <2>4, <2>5 DEF Sim
<1>6. CASE Connect
  <2>1. CASE ConnectOther
    BY <2>1, AsideKeeps DEF ConnectOther, Aside, Input
  <2>2. CASE ConnectDisconnect \/ ConnectBye
    BY <2>2, HangUpKeeps, ByeKeeps
  <2>3. CASE ConnectScript \/ Await \/ ConnectOnRecv \/ BootScriptEnds
    BY <2>3, AsideKeeps DEF Aside
  <2>4. QED BY <1>6, <2>1, <2>2, <2>3 DEF Connect
<1>7. CASE Script
  BY <1>7, AsideKeeps, ScriptEndsKeeps DEF Script, Aside
<1>8. CASE Check
  BY <1>8, CheckKeeps
<1>9. CASE SigInt \/ SigTerm
  BY <1>9, SignalKeeps
<1>10. CASE TurnPasses \/ TxOther \/ UNCHANGED vars
  BY <1>10, StillKeeps DEF TurnPasses, TxOther, vars, sigVars
<1>11. QED
  BY <1>1, <1>2, <1>3, <1>4, <1>5, <1>6, <1>7, <1>8, <1>9, <1>10 DEF Next, Thread, Over

-----------------------------------------------------------------------------
(* What is on the air                                                      *)

RadioType == {turn, held} \subseteq BOOLEAN /\ txq \subseteq DOMAIN objs

\* After a poll of the shutdown nothing waits, unless the turnaround held it.
Offering == pc = "check" \/ (pc = "ticks" /\ ret = "check")
Offered == Offering /\ (turn \/ txq # {}) => held

LEMMA TypeParts == TypeOK <=> ControlType /\ ObjectType /\ RadioType
BY DEF TypeOK, ControlType, ObjectType, RadioType, Object

\* A DISC is queued, and goes out at once after the turnaround.
LEMMA Sending ==
    ASSUME RadioType, NEW os, SendDisc(os), os \subseteq DOMAIN objs,
           DOMAIN objs \subseteq DOMAIN objs'
    PROVE  /\ txq' \subseteq DOMAIN objs' /\ txq' \subseteq txq \cup os
           /\ {turn, held}' \subseteq BOOLEAN
           /\ ~turn => txq' \subseteq txq
           /\ UNCHANGED <<turn, held>>
BY DEF SendDisc, Drained, RadioType

\* No step takes a connection out of the sequence.
LEMMA Grows == IInv /\ [Next]_vars => DOMAIN objs \subseteq DOMAIN objs'
<1> SUFFICES ASSUME IInv, [Next]_vars PROVE DOMAIN objs \subseteq DOMAIN objs'
  OBVIOUS
<1>1. objs \in Seq(Object) /\ DOMAIN objs = 1 .. Len(objs) /\ Len(objs) \in Nat
  BY LenProperties DEF IInv, ObjectType
<1>2. \A o : DOMAIN Hung(o) = DOMAIN objs
  BY DEF Hung
<1>3. \A os, gone : DOMAIN Deleted(os, gone) = DOMAIN os
  BY DEF Deleted
<1>4. ASSUME NEW n, objs' = Append(objs, n) PROVE DOMAIN objs \subseteq DOMAIN objs'
  <2>1. objs \in Seq(Object \cup {n})
    BY <1>1
  <2>2. QED BY <1>1, <1>4, <2>1, AppendProperties
<1>5. \A o, st : SetState(o, st) => DOMAIN objs' = DOMAIN objs
  BY DEF SetState
<1>6. CASE UNCHANGED objs
  BY <1>6
<1>7. CASE HandleFrame \/ LinkFails
  BY <1>5, <1>7 DEF HandleFrame, LinkFails
<1>8. CASE Accept \/ TncConnect \/ SimConnect
  BY <1>4, <1>8 DEF Accept, TncConnect, SimConnect, Call
<1>9. CASE Reap
  BY <1>2, <1>3, <1>9 DEF Reap, TncReap, SimReap
<1>10. CASE TncDisconnect \/ TncDataDisconnect \/ SimDisconnect \/ ConnectDisconnect
  BY <1>2, <1>10 DEF TncDisconnect, TncDataDisconnect, SimDisconnect, ConnectDisconnect, HangUp
<1>11. CASE TncScript \/ SimScript \/ ScriptEnds
  BY <1>11 DEF TncScript, SimScript, ScriptEnds, Lend
<1>12. CASE TncBye \/ ConnectBye \/ SimBye \/ Check
  BY <1>2, <1>3, <1>12 DEF TncBye, ConnectBye, SimBye, Check, Bye, Leave, Exit
<1>13. CASE Aside \/ TncOther \/ TncDataOther \/ SimOther \/ SimText \/ ConnectOther
  <2>1. Quiet
    BY <1>13, AsideQuiet DEF TncOther, TncDataOther, SimOther, SimText, ConnectOther, Aside, Input
  <2>2. QED BY <1>6, <2>1 DEF Quiet
<1>14. CASE Overheard \/ KissReturns \/ RepeatDisc \/ PollReturns \/ TxOther
  BY <1>14 DEF Overheard, KissReturns, RepeatDisc, PollReturns, TxOther
<1>15. CASE TurnPasses \/ SigInt \/ SigTerm \/ UNCHANGED vars
  BY <1>15 DEF TurnPasses, SigInt, SigTerm, vars
<1>16. QED
  BY <1>7, <1>8, <1>9, <1>10, <1>11, <1>12, <1>13, <1>14, <1>15
     DEF Next, Thread, Over, RouterPoll, Loop, Input, Tnc, Sim, Connect, Script, Aside

LEMMA RadioKeeps == IInv /\ RadioType /\ Offered /\ [Next]_vars => RadioType' /\ Offered'
<1> SUFFICES ASSUME IInv, RadioType, Offered, [Next]_vars PROVE RadioType' /\ Offered'
  OBVIOUS
<1>1. DOMAIN objs \subseteq DOMAIN objs'
  BY Grows
<1>2. /\ Elements(dead) \subseteq DOMAIN objs
      /\ conn # 0 => conn \in DOMAIN objs
  BY DeadObjects DEF IInv, ObjectType
<1>3. ASSUME UNCHANGED radioVars, Offering' => Offering PROVE RadioType' /\ Offered'
  BY <1>1, <1>3 DEF RadioType, Offered, radioVars
<1>4. ASSUME NEW os, os \subseteq DOMAIN objs, SendDisc(os),
             ~Offering' \/ (Offering /\ UNCHANGED <<pc, ret>>)
      PROVE  RadioType' /\ Offered'
  <2>1. /\ txq' \subseteq DOMAIN objs' /\ {turn, held}' \subseteq BOOLEAN
        /\ ~turn => txq' \subseteq txq
        /\ UNCHANGED <<turn, held>>
    BY <1>1, <1>4, Sending
  <2>2. QED BY <1>4, <2>1 DEF RadioType, Offered
<1>5. ASSUME txq' \subseteq txq, {turn, held}' \subseteq BOOLEAN,
             ~Offering' \/ (UNCHANGED <<pc, ret, held>> /\ (turn' => turn))
      PROVE  RadioType' /\ Offered'
  BY <1>1, <1>5 DEF RadioType, Offered, Offering
<1>6. CASE HandleFrame \/ Accept \/ Overheard \/ TxOther \/ TurnPasses
  <2>1. /\ txq' \subseteq txq /\ {turn, held}' \subseteq BOOLEAN
        /\ UNCHANGED <<pc, ret, held>>
    BY <1>6 DEF HandleFrame, Accept, Overheard, TxOther, TurnPasses, Drained, sigVars, RadioType
  <2>2. pc = "poll" \/ (turn' => turn)
    BY <1>6 DEF HandleFrame, Accept, Overheard, TxOther, TurnPasses
  <2>3. QED BY <1>5, <2>1, <2>2 DEF Offering
<1>7. CASE KissReturns
  BY <1>1, <1>7 DEF KissReturns, Drained, sigVars, RadioType, Offered, Offering
<1>8. CASE LinkFails \/ PollReturns
  BY <1>3, <1>8 DEF LinkFails, PollReturns, Offering, sigVars, IInv, ControlType
<1>9. CASE RepeatDisc
  <2>1. PICK o \in DOMAIN objs : SendDisc({o})
    BY <1>9 DEF RepeatDisc
  <2>2. UNCHANGED <<pc, ret>>
    BY <1>9 DEF RepeatDisc, sigVars
  <2>3. {o} \subseteq DOMAIN objs /\ (~Offering' \/ Offering)
    BY <2>2 DEF Offering
  <2>4. QED BY <1>4, <2>1, <2>2, <2>3
<1>10. CASE Reap
  <2>1. PICK os : SendDisc(os) /\ os \subseteq Elements(dead) \cup ({conn} \ {0})
    BY <1>10 DEF Reap, TncReap, SimReap, Byes, Connected
  <2>2. ~Offering'
    BY <1>10 DEF Reap, TncReap, SimReap, Offering, sigVars
  <2>3. QED BY <1>2, <1>4, <2>1, <2>2
<1>11. CASE TncDisconnect \/ TncDataDisconnect \/ SimDisconnect \/ ConnectDisconnect
  <2>1. PICK os : SendDisc(os) /\ os \subseteq {conn} \ {0}
    BY <1>11 DEF TncDisconnect, TncDataDisconnect, SimDisconnect, ConnectDisconnect, HangUp, Byes,
                 Busy, Connected
  <2>2. ~Offering'
    BY <1>11 DEF TncDisconnect, TncDataDisconnect, SimDisconnect, ConnectDisconnect, HangUp,
                 Offering, sigVars
  <2>3. QED BY <1>2, <1>4, <2>1, <2>2
<1>12. ASSUME Leave PROVE RadioType' /\ Offered'
  <2>1. PICK gone : Exit(gone) /\ gone \subseteq Elements(dead) \cup ({conn} \ {0})
    BY <1>12 DEF Leave, Mine
  <2>2. SendDisc({o \in gone : Linked(o)}) /\ ~Offering'
    BY <2>1 DEF Exit, Byes, Offering
  <2>3. {o \in gone : Linked(o)} \subseteq DOMAIN objs
    BY <1>2, <2>1
  <2>4. QED BY <1>4, <1>12, <2>2, <2>3
<1>13. ASSUME NEW hang, Bye(hang), hang => conn # 0 PROVE RadioType' /\ Offered'
  <2>1. CASE hang
    <3>1. SendDisc({o \in {conn} : Linked(o)}) /\ ~Offering'
      BY <1>13, <2>1 DEF Bye, Byes, Poll, Offering
    <3>2. {o \in {conn} : Linked(o)} \subseteq DOMAIN objs
      BY <1>2, <1>13, <2>1
    <3>3. QED BY <1>4, <3>1, <3>2
  <2>2. CASE ~hang
    BY <1>12, <1>13, <2>2 DEF Bye
  <2>3. QED BY <2>1, <2>2
<1>14. CASE TncBye \/ ConnectBye \/ SimBye
  BY <1>13, <1>14 DEF TncBye, ConnectBye, SimBye, Busy, Connected
<1>15. CASE Check
  <2>1. CASE Leave
    BY <1>12, <2>1
  <2>2. CASE Busy /\ Poll("check") /\ UNCHANGED <<objs, appVars, radioVars>>
    BY <1>3, <2>2 DEF Poll, Offering
  <2>3. QED BY <1>15, <2>1, <2>2 DEF Check
<1>16. CASE TncConnect \/ SimConnect
  <2>1. /\ txq' \subseteq txq /\ {turn, held}' \subseteq BOOLEAN
        /\ ~Offering'
    BY <1>16 DEF TncConnect, SimConnect, Call, Drained, Offering, sigVars, RadioType
  <2>2. QED BY <1>5, <2>1
<1>17. CASE TncScript \/ SimScript \/ ScriptEnds
  <2>1. UNCHANGED radioVars /\ ~Offering'
    BY <1>17 DEF TncScript, SimScript, ScriptEnds, Lend, Offering, sigVars
  <2>2. QED BY <1>3, <2>1
<1>18. CASE Aside \/ TncOther \/ TncDataOther \/ SimOther \/ SimText \/ ConnectOther
  <2>1. Aside
    BY <1>18 DEF TncOther, TncDataOther, SimOther, SimText, ConnectOther, Aside, Input
  <2>2. QED BY <1>3, <2>1, AsideQuiet DEF Offering
<1>19. CASE SigInt \/ SigTerm
  BY <1>1, <1>19 DEF SigInt, SigTerm, RadioType, Offered, Offering, radioVars
<1>20. CASE UNCHANGED vars
  BY <1>3, <1>20 DEF vars, sigVars, Offering
<1>21. QED
  BY <1>6, <1>7, <1>8, <1>9, <1>10, <1>11, <1>14, <1>15, <1>16, <1>17, <1>18, <1>19, <1>20
     DEF Next, Thread, Over, RouterPoll, Loop, Input, Tnc, Sim, Connect, Script, Aside

-----------------------------------------------------------------------------
(* The theorems                                                            *)

FullInv == IInv /\ RadioType /\ Offered

\* The inductive invariant holds in every reachable state.
THEOREM Invariance == Spec => []FullInv
<1>1. Init => FullInv
  <2>1. ASSUME Init PROVE RadioType /\ Offered
    <3>1. turn = FALSE /\ held = FALSE /\ txq = {} /\ pc \in {"await", "loop"}
      BY <2>1 DEF Init
    <3>2. {turn, held} \subseteq BOOLEAN
      BY <3>1
    <3>3. RadioType
      BY <3>1, <3>2 DEF RadioType
    <3>4. ~Offering
      BY <3>1 DEF Offering
    <3>5. QED BY <3>3, <3>4 DEF Offered
  <2>2. QED BY <2>1, InitIInv DEF FullInv
<1>2. FullInv /\ [Next]_vars => FullInv'
  BY NextIInv, RadioKeeps DEF FullInv
<1>3. QED BY <1>1, <1>2, PTL DEF Spec

\* No pointer outlives its connection: neither the program's, nor the one a
\* script holds over the polls inside on_recv, nor one in dead_conns, which
\* names each connection once; and when a script ends its on_data is gone
\* from every connection.
THEOREM NoDanglingPointers == Spec => []Inv
<1>1. FullInv => Inv
  BY TypeParts DEF FullInv, IInv, Inv
<1>2. QED BY <1>1, Invariance, PTL

\* Without a second caller every open connection is the program's own or
\* about to be deleted, and has its callbacks.
THEOREM EveryLinkAttended == Spec => []Attended
<1>1. FullInv => Attended
  BY DEF FullInv, IInv, Known, Attended, Open, Exists
<1>2. QED BY <1>1, Invariance, PTL

\* ax25tnc reads what is typed on an open link as data, with or without a
\* second caller.
THEOREM TypedLinesAreData == Spec => []TypedIsData
<1>1. FullInv => TypedIsData
  BY DEF FullInv, IInv, Held, TypedIsData
<1>2. QED BY <1>1, Invariance, PTL

\* How the program comes to its end.
LEMMA Exits ==
    ASSUME IInv, Next, pc' = "exit", pc # "exit"
    PROVE  /\ UNCHANGED <<prog, crowded>>
           /\ \/ prog \in Plain
              \/ pc = "bye" /\ (prog = "connect" \/ ~Busy) /\ Leave
              \/ pc = "check" /\ Leave
<1>1. ~(HandleFrame \/ Accept \/ Overheard \/ KissReturns \/ RepeatDisc \/ LinkFails)
  BY DEF HandleFrame, Accept, Overheard, KissReturns, RepeatDisc, LinkFails
<1>2. ~(PollReturns \/ TxOther \/ TurnPasses \/ SigInt \/ SigTerm \/ Over)
  BY DEF PollReturns, TxOther, TurnPasses, SigInt, SigTerm, Over, IInv, ControlType
<1>3. ~(TncConnect \/ SimConnect \/ Reap \/ TncScript \/ SimScript \/ ScriptEnds)
  BY DEF TncConnect, SimConnect, Call, Reap, TncReap, SimReap, TncScript, SimScript, Lend, ScriptEnds
<1>4. ~(TncDisconnect \/ TncDataDisconnect \/ SimDisconnect \/ ConnectDisconnect)
  BY DEF TncDisconnect, TncDataDisconnect, SimDisconnect, ConnectDisconnect, HangUp
<1>5. ~(TncOther \/ TncDataOther \/ SimOther \/ SimText \/ ConnectOther)
  BY DEF TncOther, TncDataOther, SimOther, SimText, ConnectOther, NoInput
<1>6. CASE Aside
  BY <1>6, AsideQuiet DEF Quiet, cfgVars
<1>7. CASE TncBye \/ ConnectBye \/ SimBye
  BY <1>7 DEF TncBye, ConnectBye, SimBye, Bye, Poll, cfgVars
<1>8. CASE Check
  BY <1>8 DEF Check, Poll, cfgVars
<1>9. QED
  BY <1>1, <1>2, <1>3, <1>4, <1>5, <1>6, <1>7, <1>8
     DEF Next, Thread, RouterPoll, Loop, Input, Tnc, Sim, Connect, Script, Aside

\* What HungUp says of one step.
LEMMA ExitHungUp ==
    ASSUME FullInv, FullInv', Next, pc' = "exit", pc # "exit", ~crowded
    PROVE  /\ \A o \in DOMAIN objs' : objs'[o].st \notin {"CONNECTING", "CONNECTED"}
           /\ prog \in {"tnc", "sim"} /\ conn \in txq' => held
<1>1. IInv /\ IInv' /\ RadioType' /\ Offered
  BY DEF FullInv
<1>2. UNCHANGED <<prog, crowded>>
  BY <1>1, Exits
<1>3. \A o \in DOMAIN objs' : objs'[o].st \notin {"CONNECTING", "CONNECTED"}
  BY <1>1, <1>2 DEF IInv, HungAll
<1>4. ASSUME prog \in {"tnc", "sim"}, conn \in txq' PROVE held
  <2>1. 0 \notin DOMAIN objs'
    BY <1>1, LenProperties DEF IInv, ObjectType
  <2>2. conn # 0
    BY <1>1, <1>4, <2>1 DEF RadioType
  <2>3. Busy
    BY <1>1, <1>4, <2>2 DEF IInv, Held, Open, Busy
  <2>4. pc = "check" /\ Leave
    BY <1>1, <1>4, <2>3, Exits DEF Plain
  <2>5. ~Linked(conn)
    BY <1>1, <2>2, <2>4 DEF IInv, Ending, Running, Linked
  <2>6. PICK gone : SendDisc({o \in gone : Linked(o)})
    BY <2>4 DEF Leave, Exit, Byes
  <2>7. txq # {}
    BY <1>4, <2>5, <2>6 DEF SendDisc, Drained
  <2>8. QED BY <1>1, <2>4, <2>7 DEF Offered, Offering
<1>5. QED BY <1>3, <1>4

\* Without a second caller every link has been hung up when a program ends,
\* and outside connect mode a DISC that is still queued was offered to the
\* channel by the last poll and held back by the turnaround.
THEOREM LinksHungUp == Spec => HungUp
<1>1. FullInv /\ FullInv' /\ [Next]_vars =>
         [pc' = "exit" /\ pc # "exit" /\ ~crowded =>
            /\ \A o \in DOMAIN objs' : objs'[o].st \notin {"CONNECTING", "CONNECTED"}
            /\ prog \in {"tnc", "sim"} /\ conn \in txq' => held]_vars
  BY ExitHungUp
<1>2. QED BY <1>1, Invariance, PTL DEF Spec, HungUp
=============================================================================
