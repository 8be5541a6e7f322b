-------------------------------- MODULE Ptt --------------------------------
(***************************************************************************)
(* The PTT controller of kiss_modem/ptt.cpp as operators on its record.    *)
(* "hw" is what the hardware last obeyed: the level of the RTS, DTR or     *)
(* GPIO line, or the last CAT command.  A write that fails is logged and   *)
(* ignored by the code; "sure" is FALSE when hw is not what was asked.     *)
(***************************************************************************)
EXTENDS Naturals

Method == {"VOX", "RTS", "DTR", "CM108", "GPIO", "CAT", "HAMLIB"}
Lines == {"RTS", "DTR", "CM108", "GPIO"}    \* a line, possibly inverted

Controller == [method : Method, invert : BOOLEAN, inited : BOOLEAN,
               tx : BOOLEAN, fd : BOOLEAN, hw : BOOLEAN, sure : BOOLEAN]

\* Before init the hardware is as the last program, or a crash, left it.
NewController(m, inv, level) ==
    [method |-> m, invert |-> inv, inited |-> FALSE, tx |-> FALSE,
     fd |-> FALSE, hw |-> level, sure |-> FALSE]

\* The radio transmits on command (VOX radios follow the audio instead).
Keyed(p) == \/ p.method \in Lines /\ p.hw # p.invert
            \/ p.method = "CAT" /\ p.hw

Apply(p, level, ok) ==
    [p EXCEPT !.hw = IF ok THEN level ELSE @, !.sure = ok]

LevelAsIs(p, tx) == tx          \* fault: invert forgotten
\* CAT commands carry the logical state, lines the inverted one.
Level(p, tx) == IF p.method = "CAT" THEN tx ELSE tx # p.invert

\* set(tx): tx_state_ changes first, whatever the hardware then does.
Set(p, tx, ok) ==
    LET q == [p EXCEPT !.tx = tx]
    IN  IF ~p.inited THEN p
        ELSE IF p.method \in Lines \cup {"CAT"} THEN Apply(q, Level(p, tx), ok)
        ELSE q

\* init(): "opens" is whether the device, pin and path can be used.  CAT
\* opens the port but sends no command.
InitSerial(p, ok) == Apply([p EXCEPT !.fd = TRUE], p.invert, ok)
InitCm108(p, ok) == Apply(p, p.invert, ok)
InitGpio(p, ok) == Apply(p, p.invert, ok)
InitCat(p) == [p EXCEPT !.fd = TRUE]

InitPtt(p, ok) ==
    [CASE p.method \in {"RTS", "DTR"}  -> InitSerial(p, ok)
       [] p.method = "CM108"           -> InitCm108(p, ok)
       [] p.method = "GPIO"            -> InitGpio(p, ok)
       [] p.method = "CAT"             -> InitCat(p)
       [] p.method \in {"VOX", "HAMLIB"} -> p
     EXCEPT !.inited = TRUE]

NeedsDevice(p) == p.method \in Lines \cup {"CAT"}

\* close(): releases PTT if it is on, and the port.
Close(p, ok) ==
    [(IF p.tx THEN Set(p, FALSE, ok) ELSE p) EXCEPT !.fd = FALSE, !.inited = FALSE]
=============================================================================
