----------------------------- MODULE BasicText -----------------------------
(***************************************************************************)
(* The text of a BASIC program: how the interpreter looks at it (there is  *)
(* no syntax tree: a statement that has to jump scans the lines for its    *)
(* partner, each kind of block counting its own keywords only), what the   *)
(* nesting of all its blocks taken together says it means, and which       *)
(* programs do without what the interpreter gets wrong.                    *)
(*                                                                         *)
(* A program is a sequence of lines, a line a sequence of statements, a    *)
(* statement a record of its keyword and what the jump depends on: the     *)
(* variable of a loop, a label, the name of a SUB, "pre" for a DO and      *)
(* "post" for a LOOP with a condition.  Expressions are left out.  Lines   *)
(* are numbered from 1, as load_string numbers them.                       *)
(***************************************************************************)
EXTENDS Integers, Sequences, FiniteSetsExt, SequencesExt

CONSTANT program        \* program_

Halt == 0       \* no line: END

-----------------------------------------------------------------------------
\* Looking at the text.
Lines == DOMAIN program
Keyword(n) == program[n][1].op
Arg(n) == program[n][1].x
Count(ops, a, b) == Cardinality({n \in a..b : Keyword(n) \in ops})
FirstOf(S) == IF S = {} THEN 0 ELSE Min(S)
Below(n) == (n + 1)..Len(program)

\* program_.upper_bound(n), or END
upper_bound(n) == IF n < Len(program) THEN n + 1 ELSE Halt
\* The line after a partner that was found, or END
After(n) == IF n = 0 THEN Halt ELSE upper_bound(n)

\* The first line below n that closes what n opened, by counting these keywords
Partner(opens, closes, n) ==
    FirstOf({m \in Below(n) : /\ Keyword(m) \in closes
                              /\ Count(closes, n + 1, m) = Count(opens, n + 1, m) + 1})

find_wend_line(n) == After(Partner({"while"}, {"wend"}, n))
find_loop_line(n) == Partner({"do"}, {"loop"}, n)
find_next_line(var, n) ==
    FirstOf({m \in Below(n) : Keyword(m) = "next" /\ (var = "" \/ Arg(m) \in {"", var})})
\* A single-line IF counts as an open block here, and below it does not.
\* fault: the first END IF below
FirstEndIf(n) == After(FirstOf({m \in Below(n) : Keyword(m) = "endif"}))
find_end_if_line(n) == After(Partner({"if", "if1"}, {"endif"}, n))
find_next_if_branch(n) ==
    FirstOf({m \in Below(n) :
        /\ Keyword(m) \in {"elseif", "else", "endif"}
        /\ Count({"if"}, n + 1, m - 1) = Count({"endif"}, n + 1, m - 1)})
find_end_select_line(n) == After(Partner({"select"}, {"endselect"}, n))
first_case(n) == FirstOf({m \in Below(n) : Keyword(m) \in {"case", "caseelse", "endselect"}})
next_case(n) ==
    FirstOf({m \in Below(n) :
        /\ Keyword(m) \in {"case", "caseelse", "endselect"}
        /\ Count({"select"}, n + 1, m - 1) = Count({"endselect"}, n + 1, m - 1)})
\* A line that begins with SUB satisfies the scan for END SUB too.
find_end_sub_line(n) == FirstOf({m \in Below(n) : Keyword(m) \in {"endsub", "sub"}})

\* labels_ and procs_, as parse_lines and first_pass fill them
Label(x) == FirstOf({n \in Lines : Keyword(n) = "label" /\ Arg(n) = x})
start_line(x) == FirstOf({n \in Lines : Keyword(n) = "sub" /\ Arg(n) = x})
end_line(x) == FirstOf({n \in Below(start_line(x)) : Keyword(n) = "endsub"})

-----------------------------------------------------------------------------
\* What the text means, from the nesting of all its blocks taken together.
Opens == {"if", "for", "forin", "formatch", "while", "do", "select"}
Closes == {"endif", "next", "wend", "loop", "endselect"}
Mids == {"elseif", "else", "case", "caseelse"}
ForWords == {"for", "forin", "formatch"}

Nest(n) == Count(Opens, 1, n - 1) - Count(Closes, 1, n - 1)
Ends(n) == {m \in Below(n) : Keyword(m) \in Closes /\ Nest(m) = Nest(n) + 1}
CloseOf(n) == Min(Ends(n))
Enclosing(n, ops) == {m \in 1..(n - 1) : Keyword(m) \in ops /\ CloseOf(m) >= n}
Innermost(n, ops) == Max(Enclosing(n, ops))
Chain(n) == IF Keyword(n) \in Opens THEN n ELSE Innermost(n, Opens)
BranchOf(n) ==
    Min({m \in Below(n) : Keyword(m) \in Mids \cup Closes /\ Nest(m) = Nest(Chain(n)) + 1})
\* The next branch of a chain, or the line after the chain
BranchAfter(n) == IF Keyword(BranchOf(n)) \in Closes THEN BranchOf(n) + 1 ELSE BranchOf(n)
\* This branch was reached because the conditions above it were false.
Untaken(n, from) == /\ from # 0 /\ Keyword(from) \in {"if", "elseif", "select", "case"}
                    /\ BranchOf(from) = n

\* The lines that may follow line n, which ran after line `from`
Follows(n, from) ==
    LET kw == Keyword(n)
        past == CloseOf(Chain(n)) + 1
    IN  CASE kw = "if" -> {n + 1, BranchAfter(n)}
          [] kw \in {"elseif", "case"} /\ Untaken(n, from) -> {n + 1, BranchAfter(n)}
          [] kw \in {"else", "caseelse"} /\ Untaken(n, from) -> {n + 1}
          [] kw \in Mids /\ ~Untaken(n, from) -> {past}
          [] kw = "select" -> {BranchOf(n)}
          [] kw \in {"forin", "formatch", "while"} -> {n + 1, past}
          [] kw = "next" -> {Innermost(n, Opens) + 1, n + 1}
          [] kw = "wend" -> {Innermost(n, Opens)}
          [] kw = "do" -> {n + 1} \cup (IF Arg(n) = "pre" THEN {past} ELSE {})
          [] kw = "loop" -> {Innermost(n, Opens)}
               \cup (IF Arg(n) = "post" \/ Arg(Innermost(n, Opens)) = "pre" THEN {n + 1} ELSE {})
          [] kw = "sub" -> {Min({m \in Below(n) : Keyword(m) = "endsub"}) + 1}
          [] OTHER ->
               {n + 1}
               \cup UNION {CASE s.op = "exitfor" -> {CloseOf(Innermost(n, {"for", "forin", "formatch"})) + 1}
                             [] s.op = "exitdo" -> {CloseOf(Innermost(n, {"do"})) + 1}
                             [] s.op \in {"goto", "gosub"} -> {Label(s.x)}
                             [] s.op = "call" -> {start_line(s.x) + 1}
                             [] OTHER -> {} : s \in ToSet(program[n])}

-----------------------------------------------------------------------------
\* The programs that do without what the interpreter gets wrong.
Closer(op) == CASE op = "if" -> "endif" [] op \in ForWords -> "next" [] op = "while" -> "wend"
                [] op = "do" -> "loop" [] op = "select" -> "endselect"
Stmts(n) == ToSet(program[n])
Ops(n) == {s.op : s \in Stmts(n)}
\* c is the innermost block around line n.
Within(n, c) == c \in Enclosing(n, Opens) /\ \A d \in Enclosing(n, Opens) : d =< c
InA(n, ops) == \E c \in 1..(n - 1) : Keyword(c) \in ops /\ Within(n, c)

\* Words that make up the structure have a line of their own.
Alone == Opens \cup Closes \cup Mids \cup {"sub", "endsub"}
Written ==
    /\ program # <<>> /\ program \in Seq(Seq([op : STRING, x : STRING]) \ {<<>>})
    /\ \A n \in Lines :
        Ops(n) \cap Alone # {} \/ Keyword(n) = "return" => Len(program[n]) = 1

\* A block has an end of its kind, an end a block; a branch belongs to the block
\* just around it, and an EXIT leaves that block and no other with it.
Nested ==
    /\ \A c \in Lines : Keyword(c) \in Opens =>
        Ends(c) # {} /\ Keyword(CloseOf(c)) = Closer(Keyword(c))
    /\ \A n \in Lines :
        /\ Keyword(n) \in Closes => \E c \in 1..(n - 1) : Keyword(c) \in Opens /\ CloseOf(c) = n
        /\ Keyword(n) \in {"elseif", "else"} => InA(n, {"if"})
        /\ Keyword(n) \in {"case", "caseelse"} => InA(n, {"select"})
        /\ "exitfor" \in Ops(n) => InA(n, ForWords)
        /\ "exitdo" \in Ops(n) => InA(n, {"do"})

\* A loop has a variable of its own among those around it, and its NEXT says which
\* if there is another; no DO is in a DO; a SELECT begins with its first CASE; no
\* single-line IF comes after the first branch of an IF.
Apart ==
    /\ \A c \in Lines : Keyword(c) \in ForWords =>
        /\ Arg(c) # "" /\ Arg(CloseOf(c)) \in {"", Arg(c)}
        /\ \A b \in Enclosing(c, ForWords) : Arg(c) # Arg(b) /\ Arg(CloseOf(c)) = Arg(c)
    /\ \A c \in Lines : Keyword(c) = "do" => Enclosing(c, {"do"}) = {}
    /\ \A c \in Lines : Keyword(c) = "select" =>
        \E m \in Below(c) : /\ Keyword(m) \in {"case", "caseelse", "endselect"}
                            /\ \A k \in (c + 1)..m : Keyword(k) # "select"
    /\ \A n \in Lines : Keyword(n) \in {"elseif", "else"} =>
        \A c \in Enclosing(n, {"if"}) : Within(n, c) => \A k \in n..CloseOf(c) : Keyword(k) # "if1"

\* A jump leaves no block and enters none.
Level ==
    \A n \in Lines : \A s \in Stmts(n) :
        /\ s.op = "goto" => Label(s.x) > 0 /\ Enclosing(Label(s.x), Opens) = Enclosing(n, Opens)
        /\ s.op = "gosub" => Label(s.x) > 0 /\ Enclosing(Label(s.x), Opens) = {}
        /\ s.op \in {"return", "exitsub"} => Enclosing(n, Opens) = {}

\* A SUB is outside of all blocks and has its END SUB; its body has no other SUB, no
\* GOSUB, RETURN or END, and no GOTO that leaves it.
SubEnd(n) == FirstOf({m \in Below(n) : Keyword(m) = "endsub"})
Body(n) == (n + 1)..(SubEnd(n) - 1)
SubsApart ==
    \A n \in Lines : Keyword(n) = "sub" =>
        /\ SubEnd(n) > 0
        /\ Enclosing(n, Opens) = {} /\ Enclosing(SubEnd(n), Opens) = {}
        /\ \A k \in Body(n) :
            /\ Keyword(k) # "sub" /\ Ops(k) \cap {"gosub", "return", "end"} = {}
            /\ \A s \in Stmts(k) : s.op = "goto" => Label(s.x) \in Body(n)

\* The lines of a SUB, and those from a label that a GOSUB names to a RETURN
InSub(n) == \E s \in 1..(n - 1) : Keyword(s) = "sub" /\ n =< SubEnd(s)
Entries == {Label(s.x) : s \in {q \in UNION {Stmts(n) : n \in Lines} : q.op = "gosub"}}
InRoutine(n) == \E t \in Entries : t =< n /\ \A k \in t..(n - 1) : Keyword(k) # "return"
Called(n) == InSub(n) \/ InRoutine(n)
Calls(c) == \E k \in (c + 1)..(CloseOf(c) - 1) : Ops(k) \cap {"gosub", "call"} # {}

\* A GOTO stays in its routine.  A loop that calls has a variable that no routine
\* uses for a loop, and if a DO calls, no routine has a DO.
RoutinesApart ==
    /\ \A n \in Lines : \A s \in Stmts(n) : s.op = "goto" /\ InRoutine(n) => InRoutine(Label(s.x))
    /\ \A c, d \in Lines :
        Keyword(c) \in ForWords /\ Keyword(d) \in ForWords /\ Calls(c) /\ Called(d) => Arg(c) # Arg(d)
    /\ \A c, d \in Lines : Keyword(c) = "do" /\ Keyword(d) = "do" /\ Calls(c) => ~Called(d)

Tidy == Written /\ Nested /\ Apart /\ Level /\ SubsApart /\ RoutinesApart
=============================================================================
