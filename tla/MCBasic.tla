------------------------------ MODULE MCBasic ------------------------------
(***************************************************************************)
(* Programs for Basic: blocks of every kind nested in one another, what    *)
(* leaves them early, and subroutines with blocks of their own.            *)
(*                                                                         *)
(* The properties do not hold for every program, and these leave out what  *)
(* the interpreter is known to get wrong (lines of basic.cpp):             *)
(*   - a DO inside a DO, or in a routine called from one (1752-1781:       *)
(*     LOOP leaves its frame, DO adds another);                            *)
(*   - a single-line IF in a branch after the first (679-693 counts it     *)
(*     as a block);                                                        *)
(*   - a loop that uses the variable of a loop around it or around its     *)
(*     caller (1627), and a NEXT without variable in nested loops (665);   *)
(*   - EXIT out of a block IF or SELECT inside the loop (1675, 1783: the   *)
(*     frame of the inner block stays);                                    *)
(*   - END and GOSUB inside a SUB (821, 824), ELSE IF in two words (2400), *)
(*     labels and partners that are missing.                               *)
(***************************************************************************)
EXTENDS Basic

Stm(op, x) == [op |-> op, x |-> x]
Line(op) == <<Stm(op, "")>>
Line1(op, x) == <<Stm(op, x)>>
S == <<Line("stmt")>>

\* A block of each kind around a body, or with the body in a later branch
IfThen(b) == <<Line("if")>> \o b \o <<Line("endif")>>
IfElse(b) == <<Line("if")>> \o S \o <<Line("else")>> \o b \o <<Line("endif")>>
ThenElse(b) == <<Line("if")>> \o b \o <<Line("elseif")>> \o S \o <<Line("else")>> \o S \o <<Line("endif")>>
IfElseIf(b) == <<Line("if")>> \o S \o <<Line("elseif")>> \o b \o <<Line("endif")>>
Loops(kw, var, b) == <<Line1(kw, var)>> \o b \o <<Line1("next", var)>>
Whiles(b) == <<Line("while")>> \o b \o <<Line("wend")>>
DoPre(b) == <<Line1("do", "pre")>> \o b \o <<Line("loop")>>
DoPost(b) == <<Line("do")>> \o b \o <<Line1("loop", "post")>>
DoEver(b) == <<Line("do")>> \o b \o <<Line("loop")>>
Selects(b) == <<Line("select"), Line("case")>> \o b \o <<Line("caseelse")>> \o S \o <<Line("endselect")>>
Cases(b) == <<Line("select"), Line("case")>> \o S \o <<Line("case")>> \o b \o <<Line("endselect")>>

LaterBranch(b) == {IfElse(b), IfElseIf(b)}
FirstBranch(b) == {IfThen(b), ThenElse(b), Selects(b), Cases(b)}
Fors(var, b) == {Loops("for", var, b), Loops("forin", var, b), Loops("formatch", var, b)}
Dos(b) == {DoPre(b), DoPost(b), DoEver(b)}
\* All kinds but DO, and all that may hold a single-line IF
NoDo(var, b) == LaterBranch(b) \cup FirstBranch(b) \cup Fors(var, b) \cup {Whiles(b)}
Early(var, b) == FirstBranch(b) \cup Fors(var, b) \cup {Whiles(b)}

\* What a block may hold besides a plain statement
Exits(op) == <<<<Stm("if1", ""), Stm(op, "")>>>>
Choice(op) == <<<<Stm("if1", ""), Stm(op, "r"), Stm("else1", ""), Stm("stmt", "")>>>>
CallF == <<<<Stm("call", "f"), Stm("stmt", "")>>>>
GosubR == <<Line1("gosub", "r")>>

\* The main program, the routine r and the SUB f
RoutineR(b) == <<Line1("label", "r")>> \o b \o <<Line("return")>>
SubF(b) == <<Line1("sub", "f")>> \o b \o <<Line("endsub")>>
Whole(b, r, f) ==
    {SubF(f) \o b \o S \o <<Line("end")>> \o RoutineR(r),
     <<Line1("goto", "m")>> \o RoutineR(r) \o <<Line1("label", "m")>> \o b \o SubF(f)}

\* Blocks in blocks, but no DO in a DO
Leaves == {S, GosubR, CallF}
Deep == UNION {NoDo("i", b \o S) : b \in UNION {NoDo("j", c) \cup Dos(c) : c \in Leaves}}
        \cup UNION {Dos(b \o S) : b \in UNION {NoDo("j", c) : c \in Leaves}}
\* Loops that are left early, before and after an inner block
Left == UNION {Fors("i", b \o Exits("exitfor") \o b) \cup Dos(b \o Exits("exitdo") \o b)
                 : b \in NoDo("j", S) \cup Early("j", Choice("gosub") \o Choice("stmt"))
                        \cup Early("j", Exits("end"))}
InMain == UNION {Whole(b, S, S \o Exits("exitsub") \o S) : b \in Deep \cup Left}

\* Subroutines with blocks of their own, called from blocks
InCalled == UNION {Whole(b, r, r) : b \in NoDo("i", CallF \o GosubR), r \in NoDo("k", S) \cup Dos(S)}
MCPrograms == InMain \cup InCalled

\* They are what the theorems ask of a program.
Text(P) == INSTANCE BasicText WITH program <- P
ASSUME ProgramsTidy == \A P \in MCPrograms : Text(P)!Tidy
=============================================================================
