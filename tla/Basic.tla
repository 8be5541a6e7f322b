------------------------------- MODULE Basic -------------------------------
(***************************************************************************)
(* The control flow of the BASIC interpreter, basic.cpp, over the text of  *)
(* BasicText.  Each kind of block keeps its frames on a stack of its own,  *)
(* and so do GOSUB and CALL.  A condition, a CASE, the end of a FOR may    *)
(* come out either way.                                                    *)
(***************************************************************************)
EXTENDS Integers, Sequences, FiniteSetsExt, SequencesExt

CONSTANTS
    Programs,   \* the programs that are loaded
    MaxTurns    \* bound: turns of the loops of a run

ASSUME BasicAssumption == MaxTurns \in Nat

VARIABLES
    program,        \* program_
    ln, col, jmp,   \* the line, the statement in it, and where exec_line says to go
    call_stack_, for_stack_, while_stack_, if_stack_, do_stack_, select_stack_,
    frame_stack_,
    interrupted_,
    state,          \* of run()
    turns,          \* loops turned
    before,         \* history: the line that ran before this one
    pending         \* history: what the open GOSUBs and CALLs have to come back to

stacks == <<call_stack_, for_stack_, while_stack_, if_stack_, do_stack_, select_stack_,
            frame_stack_>>
at == <<ln, col, jmp>>
ghosts == <<before, pending>>
vars == <<program, at, stacks, interrupted_, state, turns, ghosts>>

INSTANCE BasicText

Stay == -1      \* exec_stmt: go on in this line; Halt is END

-----------------------------------------------------------------------------
Init ==
    /\ program \in Programs
    /\ ln = 1 /\ col = 1 /\ jmp = Stay
    /\ call_stack_ = <<>> /\ for_stack_ = <<>> /\ while_stack_ = <<>> /\ if_stack_ = <<>>
    /\ do_stack_ = <<>> /\ select_stack_ = <<>> /\ frame_stack_ = <<>>
    /\ interrupted_ = FALSE /\ state = "running" /\ turns = 0
    /\ before = 0 /\ pending = <<>>

Running == state = "running"
Stmt == program[ln][col]
LineOver == jmp # Stay \/ col > Len(program[ln])
Reads(ops) == Running /\ ~LineOver /\ Stmt.op \in ops

\* What exec_stmt returns
Returns(j) ==
    /\ jmp' = j
    /\ col' = IF j = Stay THEN col + 1 ELSE col
    /\ ln' = ln

Same == UNCHANGED <<program, interrupted_, state>>
\* A turn of a loop; an interrupted program makes no more
Turn == (turns < MaxTurns \/ interrupted_) /\ turns' = IF interrupted_ THEN turns ELSE turns + 1

Top(s) == s[Len(s)]
Pop(s) == Front(s)

-----------------------------------------------------------------------------
\* PRINT, LET, INPUT, a comment, a label: nothing that moves
Plain ==
    /\ Reads({"stmt", "label"})
    /\ Returns(Stay)
    /\ Same /\ UNCHANGED <<stacks, turns, ghosts>>

\* END and STOP
End ==
    /\ Reads({"end"})
    /\ Returns(Halt)
    /\ Same /\ UNCHANGED <<stacks, turns, ghosts>>

\* IF cond THEN statements ELSE statements, on one line
SingleIf ==
    /\ Reads({"if1"})
    /\ \/ Returns(Stay)
       \/ LET elses == {k \in (col + 1)..Len(program[ln]) : program[ln][k].op = "else1"} IN
          /\ col' = IF elses = {} THEN Len(program[ln]) + 1 ELSE Min(elses) + 1
          /\ UNCHANGED <<ln, jmp>>
    /\ Same /\ UNCHANGED <<stacks, turns, ghosts>>

\* The statements after THEN are done: the rest of the line is not.
SingleElse ==
    /\ Reads({"else1"})
    /\ col' = Len(program[ln]) + 1 /\ UNCHANGED <<ln, jmp>>
    /\ Same /\ UNCHANGED <<stacks, turns, ghosts>>

-----------------------------------------------------------------------------
\* Block IF.
IfMoves == Same /\ UNCHANGED <<call_stack_, for_stack_, while_stack_, do_stack_, select_stack_,
                               frame_stack_, turns, ghosts>>

\* A condition that is false: on to the next branch, or past END IF
NextBranch(frames) ==
    LET m == find_next_if_branch(ln) IN
    IF m = 0 \/ Keyword(m) = "endif"
      THEN if_stack_' = Pop(frames) /\ Returns(After(m))
      ELSE if_stack_' = frames /\ Returns(m)

BlockIf ==
    /\ Reads({"if"})
    /\ LET fr == [taken |-> FALSE, if_line |-> ln] IN
       \/ if_stack_' = Append(if_stack_, [fr EXCEPT !.taken = TRUE]) /\ Returns(Stay)
       \/ NextBranch(Append(if_stack_, fr))
    /\ IfMoves

Taken == [if_stack_ EXCEPT ![Len(if_stack_)].taken = TRUE]

\* Without a block, ELSE, ELSEIF and END IF are only logged.  fr.taken: a branch
\* has run, so past END IF.
ElseIf ==
    /\ Reads({"elseif"})
    /\ IF if_stack_ = <<>> THEN Returns(Stay) /\ UNCHANGED if_stack_
       ELSE IF Top(if_stack_).taken
         THEN if_stack_' = Pop(if_stack_) /\ Returns(find_end_if_line(ln))
         ELSE \/ if_stack_' = Taken /\ Returns(Stay)
              \/ NextBranch(if_stack_)
    /\ IfMoves

Else ==
    /\ Reads({"else"})
    /\ IF if_stack_ = <<>> THEN Returns(Stay) /\ UNCHANGED if_stack_
       ELSE IF Top(if_stack_).taken
         THEN if_stack_' = Pop(if_stack_) /\ Returns(find_end_if_line(ln))
         ELSE if_stack_' = Taken /\ Returns(Stay)
    /\ IfMoves

EndIf ==
    /\ Reads({"endif"})
    /\ if_stack_' = IF if_stack_ = <<>> THEN <<>> ELSE Pop(if_stack_)
    /\ Returns(Stay)
    /\ IfMoves

-----------------------------------------------------------------------------
\* FOR.
ForMoves == Same /\ UNCHANGED <<call_stack_, while_stack_, if_stack_, do_stack_, select_stack_,
                                frame_stack_, ghosts>>

\* A numeric FOR and a FOR ... MATCH use the frame of their variable that is open
\* already; a FOR over an array opens another.
Entered ==
    LET fr == [var |-> Stmt.x, is_match |-> Stmt.op # "for", body_line |-> upper_bound(ln)]
        open == {i \in DOMAIN for_stack_ : /\ for_stack_[i].var = Stmt.x
                                           /\ for_stack_[i].is_match = fr.is_match}
    IN  IF Stmt.op # "forin" /\ open # {} THEN [for_stack_ EXCEPT ![Min(open)] = fr]
        ELSE Append(for_stack_, fr)

For ==
    /\ Reads({"for", "forin", "formatch"})
    /\ \/ for_stack_' = Entered /\ Returns(Stay)
       \/ /\ Stmt.op # "for"     \* nothing to go through
          /\ Returns(After(find_next_line(Stmt.x, ln)))
          /\ UNCHANGED for_stack_
    /\ ForMoves /\ UNCHANGED turns

Next_ ==
    /\ Reads({"next"})
    /\ IF for_stack_ = <<>> \/ Stmt.x \notin {"", Top(for_stack_).var}
         THEN Returns(Stay) /\ UNCHANGED <<for_stack_, turns>>
         ELSE \/ Returns(Top(for_stack_).body_line) /\ Turn /\ UNCHANGED for_stack_
              \/ Returns(Stay) /\ for_stack_' = Pop(for_stack_) /\ UNCHANGED turns
    /\ ForMoves

\* fault: EXIT FOR leaves its frame
StillOpen == for_stack_
LeftOpen == Pop(for_stack_)

ExitFor ==
    /\ Reads({"exitfor"})
    /\ IF for_stack_ = <<>> THEN Returns(Stay) /\ UNCHANGED for_stack_
       ELSE /\ Returns(After(find_next_line(Top(for_stack_).var, ln)))
            /\ for_stack_' = LeftOpen
    /\ ForMoves /\ UNCHANGED turns

-----------------------------------------------------------------------------
\* WHILE and DO.
WhileMoves == Same /\ UNCHANGED <<call_stack_, for_stack_, if_stack_, do_stack_, select_stack_,
                                  frame_stack_, ghosts>>

While ==
    /\ Reads({"while"})
    /\ \/ while_stack_' = Append(while_stack_, [cond_line |-> ln]) /\ Returns(Stay) /\ Turn
       \/ Returns(find_wend_line(ln)) /\ UNCHANGED <<while_stack_, turns>>
    /\ WhileMoves

Wend ==
    /\ Reads({"wend"})
    /\ IF while_stack_ = <<>> THEN Returns(Stay) /\ UNCHANGED while_stack_
       ELSE Returns(Top(while_stack_).cond_line) /\ while_stack_' = Pop(while_stack_)
    /\ WhileMoves /\ UNCHANGED turns

DoMoves == Same /\ UNCHANGED <<call_stack_, for_stack_, while_stack_, if_stack_, select_stack_,
                               frame_stack_, ghosts>>

Do ==
    /\ Reads({"do"})
    /\ \/ /\ do_stack_' = Append(do_stack_, [do_line |-> ln, pre |-> Stmt.x = "pre"])
          /\ Returns(Stay)
       \/ /\ Stmt.x = "pre"
          /\ Returns(upper_bound(find_loop_line(ln)))
          /\ UNCHANGED do_stack_
    /\ DoMoves /\ UNCHANGED turns

\* LOOP goes back to DO without taking its frame off; DO puts on another.
Loop ==
    /\ Reads({"loop"})
    /\ IF do_stack_ = <<>> THEN Returns(Stay) /\ UNCHANGED <<do_stack_, turns>>
       ELSE \/ Returns(Top(do_stack_).do_line) /\ Turn /\ UNCHANGED do_stack_
            \/ /\ Stmt.x = "post" \/ Top(do_stack_).pre
               /\ Returns(Stay) /\ do_stack_' = Pop(do_stack_) /\ UNCHANGED turns
    /\ DoMoves

ExitDo ==
    /\ Reads({"exitdo"})
    /\ IF do_stack_ = <<>> THEN Returns(Stay) /\ UNCHANGED do_stack_
       ELSE Returns(upper_bound(find_loop_line(ln))) /\ do_stack_' = Pop(do_stack_)
    /\ DoMoves /\ UNCHANGED turns

-----------------------------------------------------------------------------
\* SELECT CASE.
SelectMoves == Same /\ UNCHANGED <<call_stack_, for_stack_, while_stack_, if_stack_, do_stack_,
                                   frame_stack_, turns, ghosts>>

\* To this CASE, or past END SELECT
ToCase(m, frames) ==
    IF m = 0 \/ Keyword(m) = "endselect"
      THEN select_stack_' = Pop(frames) /\ Returns(After(m))
      ELSE select_stack_' = frames /\ Returns(m)

Select ==
    /\ Reads({"select"})
    /\ LET frames == Append(select_stack_, [matched |-> FALSE, select_line |-> ln]) IN
       IF first_case(ln) = 0 THEN select_stack_' = frames /\ Returns(Stay)
       ELSE ToCase(first_case(ln), frames)
    /\ SelectMoves

Case ==
    /\ Reads({"case", "caseelse"})
    /\ IF select_stack_ = <<>> THEN Returns(Stay) /\ UNCHANGED select_stack_
       ELSE IF Top(select_stack_).matched
         THEN /\ Returns(find_end_select_line(Top(select_stack_).select_line))
              /\ select_stack_' = Pop(select_stack_)
         ELSE \/ /\ select_stack_' = [select_stack_ EXCEPT ![Len(select_stack_)].matched = TRUE]
                 /\ Returns(Stay)
              \/ /\ Stmt.op = "case"
                 /\ IF next_case(ln) = 0 THEN Returns(Halt) /\ UNCHANGED select_stack_
                    ELSE ToCase(next_case(ln), select_stack_)
    /\ SelectMoves

EndSelect ==
    /\ Reads({"endselect"})
    /\ select_stack_' = IF select_stack_ = <<>> THEN <<>> ELSE Pop(select_stack_)
    /\ Returns(Stay)
    /\ SelectMoves

-----------------------------------------------------------------------------
\* GOTO, GOSUB, RETURN, SUB and CALL.
CallMoves == Same /\ UNCHANGED <<for_stack_, while_stack_, if_stack_, do_stack_, select_stack_,
                                 turns, before>>

Target(x) == IF Label(x) > 0 THEN Label(x) ELSE Stay

Goto ==
    /\ Reads({"goto"})
    /\ Returns(Target(Stmt.x))
    /\ CallMoves /\ UNCHANGED <<call_stack_, frame_stack_, pending>>

\* What a call has to come back to: the place, and the blocks open there
Comeback(kind, place) ==
    [kind |-> kind, place |-> place, fors |-> for_stack_, whiles |-> while_stack_,
     ifs |-> if_stack_, selects |-> select_stack_]

\* fault: GOSUB returns to its own line
OwnLine == ln
ReturnLine == upper_bound(ln)

Gosub ==
    /\ Reads({"gosub"})
    /\ call_stack_' = Append(call_stack_, ReturnLine)
    /\ Returns(Target(Stmt.x))
    /\ pending' = Append(pending, Comeback("gosub", <<upper_bound(ln), 1>>))
    /\ CallMoves /\ UNCHANGED frame_stack_

Return ==
    /\ Reads({"return"})
    /\ IF call_stack_ = <<>> THEN Returns(Halt) /\ UNCHANGED <<call_stack_, pending>>
       ELSE /\ Returns(Top(call_stack_))
            /\ call_stack_' = Pop(call_stack_)
            /\ pending' = IF pending = <<>> THEN <<>> ELSE Pop(pending)
    /\ CallMoves /\ UNCHANGED frame_stack_

\* A definition that is met on the way is passed over.
Sub ==
    /\ Reads({"sub"})
    /\ Returns(find_end_sub_line(ln) + 1)
    /\ CallMoves /\ UNCHANGED <<call_stack_, frame_stack_, pending>>

ExitSub ==
    /\ Reads({"exitsub", "endsub"})
    /\ frame_stack_' = IF frame_stack_ = <<>> THEN <<>>
                       ELSE [frame_stack_ EXCEPT ![Len(frame_stack_)].exiting = TRUE]
    /\ Returns(Stay)
    /\ CallMoves /\ UNCHANGED <<call_stack_, pending>>

\* CALL name, or name alone: call_proc runs the body inside exec_stmt
Call ==
    /\ Reads({"call"})
    /\ IF start_line(Stmt.x) = 0
         THEN Returns(Stay) /\ UNCHANGED <<frame_stack_, pending>>
         ELSE /\ Returns(upper_bound(start_line(Stmt.x)))
              /\ frame_stack_' = Append(frame_stack_,
                    [end_line |-> end_line(Stmt.x), exiting |-> FALSE, caller |-> <<ln, col + 1>>])
              /\ pending' = Append(pending, Comeback("call", <<ln, col + 1>>))
    /\ CallMoves /\ UNCHANGED call_stack_

-----------------------------------------------------------------------------
\* The line is over: the loop of run(), or of the innermost call_proc.
Where == IF jmp = Stay THEN ln + 1 ELSE jmp

GoTo(n) == ln' = n /\ col' = 1 /\ jmp' = Stay

RunNext ==
    /\ Running /\ LineOver /\ frame_stack_ = <<>>
    /\ before' = ln
    /\ IF jmp # Halt /\ Where \in Lines /\ ~interrupted_
         THEN GoTo(Where) /\ UNCHANGED state
         ELSE /\ state' = IF jmp > 0 /\ Where \notin Lines THEN "undefined" ELSE "ended"
              /\ UNCHANGED at
    /\ UNCHANGED <<program, stacks, interrupted_, turns, pending>>

InBody == Where \in Lines /\ Where < Top(frame_stack_).end_line

ProcOver == jmp = Halt \/ Top(frame_stack_).exiting \/ interrupted_ \/ ~InBody

ProcNext ==
    /\ Running /\ LineOver /\ frame_stack_ # <<>> /\ ~ProcOver
    /\ GoTo(Where) /\ before' = ln
    /\ UNCHANGED <<program, stacks, interrupted_, state, turns, pending>>

ProcReturn ==
    /\ Running /\ LineOver /\ frame_stack_ # <<>> /\ ProcOver
    /\ frame_stack_' = Pop(frame_stack_)
    /\ ln' = Top(frame_stack_).caller[1] /\ col' = Top(frame_stack_).caller[2] /\ jmp' = Stay
    /\ before' = ln /\ pending' = IF pending = <<>> THEN <<>> ELSE Pop(pending)
    /\ UNCHANGED <<program, call_stack_, for_stack_, while_stack_, if_stack_, do_stack_,
                   select_stack_, interrupted_, state, turns>>

\* interrupt(), from another thread or a callback
Interrupt ==
    /\ Running /\ ~interrupted_
    /\ interrupted_' = TRUE
    /\ UNCHANGED <<program, at, stacks, state, turns, ghosts>>

Statement ==
    \/ Plain \/ End \/ SingleIf \/ SingleElse
    \/ BlockIf \/ ElseIf \/ Else \/ EndIf
    \/ For \/ Next_ \/ ExitFor \/ While \/ Wend \/ Do \/ Loop \/ ExitDo
    \/ Select \/ Case \/ EndSelect
    \/ Goto \/ Gosub \/ Return \/ Sub \/ ExitSub \/ Call

Finished == ~Running /\ UNCHANGED vars

Next == Statement \/ RunNext \/ ProcNext \/ ProcReturn \/ Interrupt \/ Finished

Spec == Init /\ [][Next]_vars

-----------------------------------------------------------------------------
\* Every jump within a program or a SUB lands where the nesting of its blocks says,
\* although each statement scans the text for its own keywords only: a branch runs
\* when the ones above it did not, a loop turns at its own head, EXIT leaves its own
\* loop, and the program ends only at its end, at END or when it is interrupted.
Moves == frame_stack_' = frame_stack_ /\ LineOver /\ Keyword(ln) # "return"
Structured ==
    [][/\ Moves /\ Running /\ state' = "running" =>
            <<ln', col'>> = <<ln, col>> \/ ln' \in Follows(ln, before)
       /\ Running /\ state' # "running" =>
            \/ interrupted_ \/ \E i \in DOMAIN program[ln] : program[ln][i].op = "end"
            \/ Len(program) + 1 \in Follows(ln, before)]_vars

\* RETURN and the end of a SUB continue right after their call, and the caller finds
\* its own blocks open and no others, whatever loops the subroutine ran or left.
CallsReturn ==
    [][Len(pending') < Len(pending) =>
        LET back == Top(pending) IN
        /\ IF back.kind = "call" THEN <<ln', col'>> = back.place ELSE jmp' = back.place[1]
        /\ interrupted_ \/ /\ for_stack_ = back.fors /\ while_stack_ = back.whiles
                           /\ if_stack_ = back.ifs /\ select_stack_ = back.selects]_vars

\* At every line the stacks hold the blocks that enclose it, outermost first, above
\* those of the callers: no frame is left by a block that has been left, and none is
\* missing.  do_stack_ keeps old frames, but its top is the innermost open DO.
Base == IF pending = <<>> THEN [fors |-> <<>>, whiles |-> <<>>, ifs |-> <<>>, selects |-> <<>>]
        ELSE Top(pending)
ForLines(s) == [i \in DOMAIN s |-> s[i].body_line - 1]
WhileLines(s) == [i \in DOMAIN s |-> s[i].cond_line]
IfLines(s) == [i \in DOMAIN s |-> s[i].if_line]
SelectLines(s) == [i \in DOMAIN s |-> s[i].select_line]
\* From the place after `below` on, the sequence lists S in ascending order.
Lists(lines, below, S) ==
    /\ \A i \in DOMAIN lines : i > below => lines[i] \in S
    /\ \A i, j \in DOMAIN lines : below < i /\ i < j => lines[i] < lines[j]
    /\ \A x \in S : \E i \in DOMAIN lines : below < i /\ lines[i] = x
Balanced ==
    Running /\ jmp = Stay /\ col = 1 =>
        /\ Lists(ForLines(for_stack_), Len(Base.fors), Enclosing(ln, ForWords))
        /\ Lists(WhileLines(while_stack_), Len(Base.whiles), Enclosing(ln, {"while"}))
        /\ Lists(IfLines(if_stack_), Len(Base.ifs), Enclosing(ln, {"if"}))
        /\ Lists(SelectLines(select_stack_), Len(Base.selects), Enclosing(ln, {"select"}))
        /\ Enclosing(ln, {"do"}) # {} =>
             do_stack_ # <<>> /\ Top(do_stack_).do_line = Innermost(ln, {"do"})
=============================================================================
