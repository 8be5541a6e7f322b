----------------------------- MODULE BasicProofs -----------------------------
(***************************************************************************)
(* Proofs about Basic: in a program that is Tidy the stacks hold at every  *)
(* line the blocks that its text has around that line, and calls return    *)
(* to the loops they were made in.                                         *)
(***************************************************************************)
EXTENDS Basic, SequenceTheorems, FiniteSetTheorems, WellFoundedInduction, TLAPS

(* Least and greatest lines                                                *)

LEMMA Least == ASSUME NEW S \in SUBSET Nat, S # {} PROVE \E i \in S : \A j \in S : i <= j
<1> DEFINE Less == {p \in Nat \X Nat : p[1] < p[2]}
<1>1. OpToRel(<, Nat) = Less
  BY Zenon DEF OpToRel
<1>2. \E i \in S : \A j \in S : <<j, i>> \notin OpToRel(<, Nat)
  BY NatLessThanWellFounded, WFMin
<1>3. \E i \in S : \A j \in S : <<j, i>> \notin Less
  BY <1>1, <1>2, Zenon
<1>4. \A a, b \in Nat : <<a, b>> \notin Less => b <= a
  OBVIOUS
<1> HIDE DEF Less
<1>5. QED BY <1>3, <1>4

LEMMA MinIs ==
    ASSUME NEW S \in SUBSET Nat, S # {}
    PROVE  Min(S) \in S /\ \A j \in S : Min(S) <= j
<1>1. \E i \in S : \A j \in S : i <= j
  BY Least
<1>2. (CHOOSE x \in S : \A y \in S : x <= y) \in S /\ \A j \in S : (CHOOSE x \in S : \A y \in S : x <= y) <= j
  BY <1>1, Zenon
<1>3. QED BY <1>2 DEF Min

\* The least element of a set, recognised
LEMMA MinIsThis ==
    ASSUME NEW S \in SUBSET Nat, NEW n \in S, \A j \in S : n <= j
    PROVE  Min(S) = n
<1>1. Min(S) \in S /\ Min(S) <= n
  BY MinIs
<1>2. Min(S) \in Nat /\ n \in Nat /\ n <= Min(S)
  BY <1>1
<1>3. QED BY <1>1, <1>2

LEMMA FirstIsThis ==
    ASSUME NEW S \in SUBSET Nat, NEW n \in S, \A j \in S : n <= j
    PROVE  FirstOf(S) = n
BY MinIsThis DEF FirstOf

LEMMA FirstIs ==
    ASSUME NEW S \in SUBSET Nat, FirstOf(S) # 0
    PROVE  FirstOf(S) \in S /\ \A j \in S : FirstOf(S) <= j
<1>1. S # {}
  BY DEF FirstOf
<1>2. QED BY <1>1, MinIs DEF FirstOf

-----------------------------------------------------------------------------
(* Lines                                                                   *)

\* A tidy program has lines, and each a keyword.
LEMMA Text ==
    ASSUME Tidy
    PROVE  /\ Len(program) \in Nat \ {0} /\ Lines = 1..Len(program)
           /\ \A n \in Lines : /\ Len(program[n]) \in Nat \ {0} /\ 1 \in DOMAIN program[n]
                               /\ DOMAIN program[n] = 1..Len(program[n])
<1>1. /\ program \in Seq(Seq([op : STRING, x : STRING]) \ {<<>>}) /\ program # <<>>
  BY DEF Tidy, Written
<1>2. \A n \in Lines : program[n] \in Seq([op : STRING, x : STRING]) /\ program[n] # <<>>
  BY <1>1 DEF Lines
<1>3. QED BY <1>1, <1>2 DEF Lines

\* The keyword is the first statement; a structural word is the whole line.
LEMMA Words ==
    ASSUME Tidy, NEW n \in Lines, NEW i \in DOMAIN program[n],
           program[n][i].op \in Alone \/ (i = 1 /\ program[n][i].op = "return")
    PROVE  i = 1 /\ Len(program[n]) = 1 /\ Keyword(n) = program[n][i].op /\ Arg(n) = program[n][i].x
<1>1. Ops(n) \cap Alone # {} \/ Keyword(n) = "return"
  BY DEF Ops, Stmts, ToSet, Keyword
<1>2. Len(program[n]) = 1
  BY <1>1 DEF Tidy, Written
<1>3. QED BY <1>2, Text DEF Keyword, Arg

-----------------------------------------------------------------------------
(* Counting                                                                *)

LEMMA CountType ==
    ASSUME NEW ops, NEW a \in Int, NEW b \in Int
    PROVE  Count(ops, a, b) \in Nat
<1>1. IsFiniteSet(a..b)
  BY FS_Interval
<1>2. IsFiniteSet({n \in a..b : Keyword(n) \in ops})
  BY <1>1, FS_Subset
<1>3. QED BY <1>2, FS_CardinalityType DEF Count

LEMMA CountStep ==
    ASSUME NEW ops, NEW a \in Int, NEW b \in Int, a <= b + 1
    PROVE  Count(ops, a, b + 1) = Count(ops, a, b) + (IF Keyword(b + 1) \in ops THEN 1 ELSE 0)
<1> DEFINE S == {n \in a..b : Keyword(n) \in ops}
           T == {n \in a..(b + 1) : Keyword(n) \in ops}
<1>1. IsFiniteSet(S) /\ Cardinality(S) \in Nat
  <2>1. IsFiniteSet(a..b)
    BY FS_Interval
  <2>2. QED BY <2>1, FS_Subset, FS_CardinalityType
<1>2. CASE Keyword(b + 1) \in ops
  <2>1. T = S \cup {b + 1} /\ b + 1 \notin S
    <3>1. a..(b + 1) = (a..b) \cup {b + 1} /\ b + 1 \notin a..b
      OBVIOUS
    <3>2. QED BY <3>1, <1>2
  <2>2. Cardinality(T) = Cardinality(S) + 1
    BY <2>1, <1>1, FS_AddElement, Zenon
  <2>3. QED BY <2>2, <1>2 DEF Count
<1>3. CASE Keyword(b + 1) \notin ops
  <2>1. T = S
    BY <1>3
  <2>2. QED BY <2>1, <1>1, <1>3 DEF Count
<1>4. QED BY <1>2, <1>3

\* How many blocks are open changes by one at most from a line to the next.
LEMMA NestStep ==
    ASSUME NEW n \in Nat \ {0}
    PROVE  /\ Nest(n) \in Int
           /\ Nest(n + 1) = Nest(n) + (IF Keyword(n) \in Opens THEN 1 ELSE 0)
                                    - (IF Keyword(n) \in Closes THEN 1 ELSE 0)
<1>1. /\ Count(Opens, 1, n - 1) \in Nat /\ Count(Closes, 1, n - 1) \in Nat
  BY CountType
<1>2. /\ Count(Opens, 1, n - 1 + 1) = Count(Opens, 1, n - 1) + (IF Keyword(n - 1 + 1) \in Opens THEN 1 ELSE 0)
      /\ Count(Closes, 1, n - 1 + 1) = Count(Closes, 1, n - 1) + (IF Keyword(n - 1 + 1) \in Closes THEN 1 ELSE 0)
  BY CountStep
<1>3. n - 1 + 1 = n /\ n + 1 - 1 = n
  OBVIOUS
<1> DEFINE p == Count(Opens, 1, n - 1)
           q == Count(Closes, 1, n - 1)
           x == IF Keyword(n) \in Opens THEN 1 ELSE 0
           y == IF Keyword(n) \in Closes THEN 1 ELSE 0
<1>4. Nest(n) = p - q /\ Nest(n + 1) = (p + x) - (q + y)
  BY <1>2, <1>3 DEF Nest
<1>5. p \in Nat /\ q \in Nat /\ x \in Nat /\ y \in Nat
  BY <1>1
<1> HIDE DEF p, q, x, y
<1>6. Nest(n) \in Int /\ Nest(n + 1) = Nest(n) + x - y
  BY <1>4, <1>5
<1>7. QED BY <1>6 DEF x, y

-----------------------------------------------------------------------------
(* Blocks                                                                  *)

Block(c) == c \in Lines /\ Keyword(c) \in Opens

LEMMA WordSets ==
    /\ Opens \cap Closes = {} /\ Opens \cap Mids = {} /\ Closes \cap Mids = {}
    /\ \A op \in Opens : Closer(op) \in Closes
BY DEF Opens, Closes, Mids, Closer, ForWords

LEMMA CloseIs ==
    ASSUME Tidy, NEW c, Block(c)
    PROVE  /\ CloseOf(c) \in Lines /\ c < CloseOf(c)
           /\ Keyword(CloseOf(c)) \in Closes /\ Keyword(CloseOf(c)) = Closer(Keyword(c))
           /\ Nest(CloseOf(c)) = Nest(c) + 1
           /\ \A m \in Lines : c < m /\ Keyword(m) \in Closes /\ Nest(m) = Nest(c) + 1 => CloseOf(c) <= m
<1>1. Ends(c) # {} /\ Keyword(CloseOf(c)) = Closer(Keyword(c))
  BY DEF Tidy, Nested, Block
<1>2. c \in Lines /\ Lines = 1..Len(program) /\ Len(program) \in Nat
  BY Text DEF Block
<1>3. Ends(c) \in SUBSET Nat
  BY <1>2 DEF Ends, Below
<1>4. CloseOf(c) \in Ends(c) /\ \A m \in Ends(c) : CloseOf(c) <= m
  BY <1>1, <1>3, MinIs DEF CloseOf
<1>5. \A m : m \in Ends(c) <=> m \in Lines /\ c < m /\ Keyword(m) \in Closes /\ Nest(m) = Nest(c) + 1
  BY <1>2 DEF Ends, Below
<1>6. QED BY <1>1, <1>4, <1>5, Zenon

\* Between a block and its end the nesting is deeper than at the block.
LEMMA Deeper ==
    ASSUME Tidy, NEW c, Block(c), NEW k \in Lines, c < k, k <= CloseOf(c)
    PROVE  Nest(k) >= Nest(c) + 1
<1> DEFINE Bad == {j \in Lines : c < j /\ j <= CloseOf(c) /\ Nest(j) <= Nest(c)}
<1>1. Lines \subseteq Nat \ {0} /\ c \in Lines /\ CloseOf(c) \in Lines /\ Keyword(c) \in Opens
  BY Text, CloseIs DEF Block
<1>2. \A j \in Lines : Nest(j) \in Int
  BY <1>1, NestStep
<1>3. SUFFICES ASSUME Bad # {} PROVE FALSE
  <2>1. k \notin Bad
    BY <1>3
  <2>2. ~(Nest(k) <= Nest(c))
    BY <2>1
  <2>3. QED BY <2>2, <1>1, <1>2
<1>4. PICK j \in Bad : \A i \in Bad : j <= i
  <2>1. Bad \in SUBSET Nat
    BY <1>1
  <2>2. QED BY <2>1, <1>3, Least
<1>5. Nest(c + 1) = Nest(c) + 1
  <2>1. Keyword(c) \notin Closes
    BY <1>1, WordSets
  <2>2. c \in Nat \ {0}
    BY <1>1
  <2>3. /\ Nest(c) \in Int
        /\ Nest(c + 1) = Nest(c) + (IF Keyword(c) \in Opens THEN 1 ELSE 0)
                                 - (IF Keyword(c) \in Closes THEN 1 ELSE 0)
    BY <2>2, NestStep
  <2>4. QED BY <2>1, <2>3, <1>1
<1>6. j # c + 1
  BY <1>5, <1>1, <1>2
<1>7. PICK i \in Lines : i + 1 = j /\ c < i /\ i < CloseOf(c)
  <2>1. j - 1 \in Lines /\ c < j - 1 /\ j - 1 < CloseOf(c) /\ (j - 1) + 1 = j
    BY <1>6, <1>1, Text
  <2>2. QED BY <2>1
<1>8. Nest(i) >= Nest(c) + 1
  <2>1. i \notin Bad
    BY <1>4, <1>7, <1>1
  <2>2. i \in Nat /\ c \in Nat /\ CloseOf(c) \in Nat
    BY <1>1
  <2>3. i <= CloseOf(c)
    BY <2>2, <1>7
  <2>4. ~(Nest(i) <= Nest(c))
    BY <2>1, <2>3, <1>7
  <2>5. QED BY <2>4, <1>1, <1>2
<1>9. Keyword(i) \in Closes /\ Nest(i) = Nest(c) + 1
  <2>1. i \in Nat \ {0}
    BY <1>1
  <2>2. /\ Nest(i) \in Int
        /\ Nest(i + 1) = Nest(i) + (IF Keyword(i) \in Opens THEN 1 ELSE 0)
                                 - (IF Keyword(i) \in Closes THEN 1 ELSE 0)
    BY <2>1, NestStep
  <2>3. Nest(j) <= Nest(c) /\ Nest(j) \in Int /\ Nest(c) \in Int
    BY <1>1, <1>2
  <2>4. QED BY <2>2, <2>3, <1>7, <1>8
<1>10. CloseOf(c) <= i
  BY <1>9, <1>7, CloseIs
<1>11. i \in Nat /\ CloseOf(c) \in Nat
  BY <1>1
<1>12. QED BY <1>10, <1>7, <1>11

\* Blocks do not overlap.
LEMMA Laminar ==
    ASSUME Tidy, NEW c, NEW d, Block(c), Block(d), c < d
    PROVE  CloseOf(c) < d \/ CloseOf(d) < CloseOf(c)
<1>1. /\ c \in Lines /\ d \in Lines /\ Lines \subseteq Nat \ {0}
      /\ CloseOf(c) \in Lines /\ CloseOf(d) \in Lines
  BY Text, CloseIs DEF Block
<1>2. \A j \in Lines : Nest(j) \in Int
  BY <1>1, NestStep
<1>0. c \in Nat /\ d \in Nat /\ CloseOf(c) \in Nat /\ CloseOf(d) \in Nat
  BY <1>1
<1>3. SUFFICES ASSUME d <= CloseOf(c), CloseOf(c) <= CloseOf(d) PROVE FALSE
  BY <1>0
<1>4. Nest(d) >= Nest(c) + 1 /\ Nest(CloseOf(c)) = Nest(c) + 1 /\ Nest(CloseOf(d)) = Nest(d) + 1
  BY <1>1, <1>3, Deeper, CloseIs
<1>5. d # CloseOf(c)
  BY CloseIs, WordSets DEF Block
<1>6. Nest(CloseOf(c)) >= Nest(d) + 1
  <2>1. d < CloseOf(c)
    BY <1>0, <1>3, <1>5
  <2>2. QED BY <2>1, <1>1, <1>3, Deeper
<1>7. QED BY <1>1, <1>2, <1>4, <1>6

\* An end is the end of one block.
LEMMA OneBlock ==
    ASSUME Tidy, NEW c, NEW d, Block(c), Block(d), CloseOf(c) = CloseOf(d)
    PROVE  c = d
<1>1. /\ c \in Nat /\ d \in Nat /\ CloseOf(c) \in Nat
      /\ c < CloseOf(c) /\ d < CloseOf(d)
  BY Text, CloseIs DEF Block
<1>2. c < d => CloseOf(c) < d \/ CloseOf(d) < CloseOf(c)
  BY Laminar
<1>3. d < c => CloseOf(d) < c \/ CloseOf(c) < CloseOf(d)
  BY Laminar
<1>4. QED BY <1>1, <1>2, <1>3

LEMMA CloseHasBlock ==
    ASSUME Tidy, NEW n \in Lines, Keyword(n) \in Closes
    PROVE  \E c : Block(c) /\ CloseOf(c) = n /\ c < n
<1>1. PICK c \in 1..(n - 1) : Keyword(c) \in Opens /\ CloseOf(c) = n
  BY DEF Tidy, Nested
<1>2. Block(c) /\ c < n
  BY <1>1, Text DEF Block
<1>3. QED BY <1>1, <1>2

-----------------------------------------------------------------------------
(* The blocks around a line                                                *)

\* 0 is no line, the one after the last is where a program ends.
Spots == 0..(Len(program) + 1)

LEMMA SpotsAre ==
    ASSUME Tidy
    PROVE  /\ Spots \subseteq Nat /\ Lines \subseteq Spots /\ 0 \in Spots
           /\ \A n \in Lines : n \in Nat \ {0} /\ n + 1 \in Spots /\ n + 1 # 0
           /\ \A n \in Spots : n \notin Lines => n = 0 \/ n = Len(program) + 1
BY Text DEF Spots

LEMMA Encloses ==
    ASSUME Tidy, NEW n \in Spots, NEW ops \in SUBSET Opens, NEW m
    PROVE  m \in Enclosing(n, ops) <=>
             Block(m) /\ m \in Nat /\ m < n /\ n <= CloseOf(m) /\ Keyword(m) \in ops
<1>1. n \in Nat /\ n <= Len(program) + 1 /\ Len(program) \in Nat /\ Lines = 1..Len(program)
  BY Text DEF Spots
<1>2. ASSUME m \in Enclosing(n, ops)
      PROVE  Block(m) /\ m \in Nat /\ m < n /\ n <= CloseOf(m) /\ Keyword(m) \in ops
  <2>1. m \in 1..(n - 1) /\ Keyword(m) \in ops /\ CloseOf(m) >= n
    BY <1>2 DEF Enclosing
  <2>2. Block(m) /\ m \in Nat /\ m < n
    BY <1>1, <2>1 DEF Block
  <2>3. CloseOf(m) \in Nat
    BY <1>1, <2>2, CloseIs
  <2>4. QED BY <2>1, <2>2, <2>3, <1>1
<1>3. ASSUME Block(m), m \in Nat, m < n, n <= CloseOf(m), Keyword(m) \in ops
      PROVE  m \in Enclosing(n, ops)
  <2>1. m \in Lines
    BY <1>3 DEF Block
  <2>2. m \in 1..(n - 1)
    BY <2>1, <1>1, <1>3
  <2>3. CloseOf(m) \in Nat
    BY <1>1, <1>3, CloseIs
  <2>4. CloseOf(m) >= n
    BY <2>3, <1>1, <1>3
  <2>5. QED BY <2>2, <2>4, <1>3 DEF Enclosing
<1>4. QED BY <1>2, <1>3

\* Blocks as numbers
LEMMA BlockNat ==
    ASSUME Tidy, NEW c, Block(c)
    PROVE  /\ c \in Lines /\ CloseOf(c) \in Lines /\ c \in Nat \ {0} /\ CloseOf(c) \in Nat \ {0} /\ c < CloseOf(c)
           /\ c \in Spots /\ CloseOf(c) \in Spots /\ c + 1 \in Spots /\ CloseOf(c) + 1 \in Spots
<1>1. c \in Lines /\ CloseOf(c) \in Lines /\ c < CloseOf(c)
  BY CloseIs DEF Block
<1>2. QED BY <1>1, SpotsAre

LEMMA AfterPlain ==
    ASSUME Tidy, NEW n \in Lines, Keyword(n) \notin Opens \cup Closes, NEW ops \in SUBSET Opens
    PROVE  Enclosing(n + 1, ops) = Enclosing(n, ops)
<1>1. n \in Nat /\ n \in Spots /\ n + 1 \in Spots
  BY SpotsAre
<1>2. ASSUME NEW m, Block(m), m \in Nat
      PROVE  m < n + 1 /\ n + 1 <= CloseOf(m) <=> m < n /\ n <= CloseOf(m)
  <2>1. m # n /\ CloseOf(m) # n
    BY <1>2, CloseIs DEF Block
  <2>2. CloseOf(m) \in Nat
    BY <1>2, BlockNat
  <2>3. QED BY <2>1, <2>2, <1>1, <1>2
<1>3. ASSUME NEW m PROVE m \in Enclosing(n + 1, ops) <=> m \in Enclosing(n, ops)
  BY <1>1, <1>2, Encloses
<1>4. QED BY <1>3, Zenon

LEMMA AfterOpen ==
    ASSUME Tidy, NEW c, Block(c), NEW ops \in SUBSET Opens
    PROVE  /\ Enclosing(c + 1, ops) = Enclosing(c, ops) \cup (IF Keyword(c) \in ops THEN {c} ELSE {})
           /\ \A m \in Enclosing(c, ops) : m \in Nat /\ m < c
<1>1. c \in Nat /\ c \in Spots /\ c + 1 \in Spots /\ CloseOf(c) \in Nat /\ c < CloseOf(c)
  BY BlockNat
<1>2. ASSUME NEW m, Block(m), m \in Nat
      PROVE  m < c + 1 /\ c + 1 <= CloseOf(m) <=> m = c \/ (m < c /\ c <= CloseOf(m))
  <2>1. CloseOf(m) # c
    BY <1>2, CloseIs, WordSets DEF Block
  <2>2. CloseOf(m) \in Nat
    BY <1>2, BlockNat
  <2>3. QED BY <2>1, <2>2, <1>1, <1>2
<1>3. ASSUME NEW m
      PROVE m \in Enclosing(c + 1, ops) <=> m \in Enclosing(c, ops) \/ (m = c /\ Keyword(c) \in ops)
  <2>1. m \in Enclosing(c + 1, ops) <=>
             Block(m) /\ m \in Nat /\ m < c + 1 /\ c + 1 <= CloseOf(m) /\ Keyword(m) \in ops
    BY <1>1, Encloses
  <2>2. m \in Enclosing(c, ops) <=>
             Block(m) /\ m \in Nat /\ m < c /\ c <= CloseOf(m) /\ Keyword(m) \in ops
    BY <1>1, Encloses
  <2>3. QED BY <2>1, <2>2, <1>1, <1>2
<1>4. \A m \in Enclosing(c, ops) : m \in Nat /\ m < c
  BY <1>1, Encloses
<1>5. QED BY <1>3, <1>4

LEMMA AfterClose ==
    ASSUME Tidy, NEW c, Block(c), NEW ops \in SUBSET Opens
    PROVE  Enclosing(CloseOf(c) + 1, ops) = Enclosing(c, ops)
<1> DEFINE e == CloseOf(c)
<1>1. c \in Nat /\ c \in Spots /\ e + 1 \in Spots /\ e \in Nat /\ c < e /\ Keyword(c) \notin Closes
  BY BlockNat, WordSets DEF Block
<1>2. ASSUME NEW m, Block(m), m \in Nat
      PROVE  m < e + 1 /\ e + 1 <= CloseOf(m) <=> m < c /\ c <= CloseOf(m)
  <2>1. CloseOf(m) # c /\ CloseOf(m) \in Nat /\ m < CloseOf(m)
    BY <1>1, <1>2, CloseIs, BlockNat
  <2>2. m < c => CloseOf(m) < c \/ e < CloseOf(m)
    BY <1>2, Laminar
  <2>3. c < m => e < m \/ CloseOf(m) < e
    BY <1>2, Laminar
  <2> HIDE DEF e
  <2>4. m = c => CloseOf(m) = e
    BY DEF e
  <2>5. QED BY <2>1, <2>2, <2>3, <2>4, <1>1, <1>2
<1>3. ASSUME NEW m PROVE m \in Enclosing(e + 1, ops) <=> m \in Enclosing(c, ops)
  BY <1>1, <1>2, Encloses
<1>4. QED BY <1>3, Zenon

\* A line whose innermost block is c has around it what the first line of c has.
LEMMA Inner ==
    ASSUME Tidy, NEW n \in Lines, NEW c, Within(n, c), NEW ops \in SUBSET Opens
    PROVE  /\ Block(c) /\ c < n /\ n <= CloseOf(c)
           /\ Enclosing(n, ops) = Enclosing(c + 1, ops)
<1>1. n \in Nat /\ n \in Spots
  BY SpotsAre
<1>2. Block(c) /\ c < n /\ n <= CloseOf(c)
  BY <1>1, Encloses DEF Within
<1>3. c \in Nat /\ c + 1 \in Spots /\ CloseOf(c) \in Nat
  BY <1>2, BlockNat
<1>4. ASSUME NEW m, Block(m), m \in Nat
      PROVE  m < c + 1 /\ c + 1 <= CloseOf(m) <=> m < n /\ n <= CloseOf(m)
  <2>1. CloseOf(m) # c /\ CloseOf(m) \in Nat /\ m < CloseOf(m)
    BY <1>2, <1>4, CloseIs, BlockNat, WordSets DEF Block
  <2>2. m < n /\ n <= CloseOf(m) => m <= c
    BY <1>1, <1>4, Encloses DEF Within, Block
  <2>3. m < c => CloseOf(m) < c \/ CloseOf(c) < CloseOf(m)
    BY <1>2, <1>4, Laminar
  <2>4. QED BY <2>1, <2>2, <2>3, <1>1, <1>2, <1>3, <1>4
<1>5. ASSUME NEW m PROVE m \in Enclosing(n, ops) <=> m \in Enclosing(c + 1, ops)
  BY <1>1, <1>3, <1>4, Encloses
<1>6. QED BY <1>2, <1>5, Zenon

\* The innermost block around its end is the block itself.
LEMMA AtClose ==
    ASSUME Tidy, NEW c, Block(c)
    PROVE  Within(CloseOf(c), c)
<1> DEFINE e == CloseOf(c)
<1>1. c \in Nat /\ e \in Spots /\ e \in Nat /\ c < e
  BY BlockNat
<1>2. c \in Enclosing(e, Opens)
  BY <1>1, Encloses DEF Block
<1>3. ASSUME NEW d \in Enclosing(e, Opens) PROVE d <= c
  <2>1. Block(d) /\ d \in Nat /\ d < e /\ e <= CloseOf(d)
    BY <1>1, Encloses
  <2>2. CloseOf(d) \in Nat
    BY <2>1, BlockNat
  <2>3. c < d => e < d \/ CloseOf(d) < e
    BY <2>1, Laminar
  <2>4. QED BY <1>1, <2>1, <2>2, <2>3
<1>4. QED BY <1>2, <1>3 DEF Within

-----------------------------------------------------------------------------
(* The scans: each kind counts its own words and finds the end of its block *)

\* The words of a kind of block: what opens it, what closes it
Kind(opens, closes) ==
    /\ opens \in SUBSET Opens /\ closes \in SUBSET Closes
    /\ \A op \in Opens : op \in opens <=> Closer(op) \in closes

LEMMA Kinds ==
    /\ Kind({"while"}, {"wend"}) /\ Kind({"do"}, {"loop"}) /\ Kind({"if"}, {"endif"})
    /\ Kind({"select"}, {"endselect"}) /\ Kind(ForWords, {"next"})
BY DEF Kind, Opens, Closes, Closer, ForWords

\* A scan for the end of block c starts at c or at a line of it in no inner block.
From(n, c) ==
    /\ Block(c) /\ n \in Lines /\ n < CloseOf(c)
    /\ n = c \/ (Within(n, c) /\ Keyword(n) \notin Opens)

LEMMA FromIs ==
    ASSUME Tidy, NEW n, NEW c, From(n, c)
    PROVE  /\ Block(c) /\ n \in Lines /\ n \in Nat /\ c \in Nat /\ c <= n /\ CloseOf(c) \in Lines
           /\ CloseOf(c) \in Nat /\ n < CloseOf(c)
<1>1. Block(c) /\ n \in Lines /\ n < CloseOf(c)
  BY DEF From
<1>2. c \in Nat /\ CloseOf(c) \in Lines /\ CloseOf(c) \in Nat /\ n \in Nat
  BY <1>1, BlockNat, SpotsAre
<1>3. n = c \/ c < n
  BY <1>1, Inner DEF From
<1>4. QED BY <1>1, <1>2, <1>3

\* What ends between such a line and the end of its block began after the line.
LEMMA EndsWithin ==
    ASSUME Tidy, NEW n, NEW c, From(n, c), NEW d, Block(d), n < CloseOf(d), CloseOf(d) < CloseOf(c)
    PROVE  d \in Nat /\ n < d /\ d < CloseOf(d) /\ CloseOf(d) \in Nat
<1>1. /\ Block(c) /\ n \in Lines /\ n \in Nat /\ c \in Nat /\ c <= n
      /\ CloseOf(c) \in Nat /\ n < CloseOf(c)
  BY FromIs
<1>2. d \in Nat /\ CloseOf(d) \in Nat /\ d < CloseOf(d) /\ n \in Spots
  BY <1>1, BlockNat, SpotsAre
<1>3. d # c
  BY <1>1
<1>4. d < c => CloseOf(d) < c \/ CloseOf(c) < CloseOf(d)
  BY <1>1, Laminar
<1>5. c < d
  BY <1>1, <1>2, <1>3, <1>4
<1>6. d < n => d <= c
  <2>1. ASSUME d < n PROVE d \in Enclosing(n, Opens) /\ n # c
    <3>1. n <= CloseOf(d)
      BY <1>1, <1>2
    <3>2. QED BY <2>1, <3>1, <1>1, <1>2, <1>5, Encloses DEF Block
  <2>2. QED BY <2>1 DEF From, Within
<1>7. d # n
  BY <1>3 DEF From, Block
<1>8. QED BY <1>1, <1>2, <1>5, <1>6, <1>7

\* Up to the end of the block no more blocks of a kind have ended than begun, and
\* fewer if one of them is still open.
LEMMA Pending ==
    ASSUME Tidy, NEW opens, NEW closes, Kind(opens, closes), NEW n, NEW c, From(n, c),
           NEW m \in Nat, m < CloseOf(c)
    PROVE  /\ Count(closes, n + 1, m) <= Count(opens, n + 1, m)
           /\ \A j \in (n + 1)..m : Block(j) /\ Keyword(j) \in opens /\ m < CloseOf(j)
                => Count(closes, n + 1, m) < Count(opens, n + 1, m)
<1> DEFINE S == {k \in (n + 1)..m : Keyword(k) \in closes}
           T == {k \in (n + 1)..m : Keyword(k) \in opens}
           Start(k) == CHOOSE d : Block(d) /\ CloseOf(d) = k
           f == [k \in S |-> Start(k)]
<1>1. /\ n \in Nat /\ n \in Lines /\ CloseOf(c) \in Nat /\ CloseOf(c) \in Lines
      /\ Lines = 1..Len(program) /\ Len(program) \in Nat
  BY FromIs, Text
<1>2. IsFiniteSet(S) /\ IsFiniteSet(T) /\ Cardinality(S) \in Nat /\ Cardinality(T) \in Nat
  <2>1. IsFiniteSet((n + 1)..m)
    BY <1>1, FS_Interval
  <2>2. QED BY <2>1, FS_Subset, FS_CardinalityType
<1>3. ASSUME NEW k \in S
      PROVE  Block(f[k]) /\ CloseOf(f[k]) = k /\ f[k] \in T
  <2>1. k \in Nat /\ n < k /\ k <= m /\ Keyword(k) \in closes
    BY <1>1
  <2>2. k \in Lines
    BY <2>1, <1>1
  <2>3. \E d : Block(d) /\ CloseOf(d) = k
    BY <2>1, <2>2, CloseHasBlock DEF Kind
  <2>4. Block(f[k]) /\ CloseOf(f[k]) = k
    BY <2>3, Zenon
  <2> HIDE DEF f
  <2>5. k < CloseOf(c)
    BY <2>1, <1>1
  <2>6. f[k] \in Nat /\ n < f[k] /\ f[k] < k
    BY <2>1, <2>4, <2>5, EndsWithin
  <2>7. Keyword(f[k]) \in opens
    BY <2>1, <2>4, CloseIs DEF Kind, Block
  <2>8. f[k] \in (n + 1)..m
    BY <2>1, <2>6, <1>1
  <2>9. QED BY <2>4, <2>7, <2>8
<1> HIDE DEF f
<1>4. ASSUME NEW U, U \subseteq T, \A k \in S : f[k] \in U
      PROVE  Cardinality(S) <= Cardinality(U)
  <2>1. f \in [S -> U]
    <3>1. f = [k \in S |-> f[k]]
      BY DEF f
    <3>2. QED BY <3>1, <1>4
  <2>2. \A k, l \in S : f[k] = f[l] => k = l
    BY <1>3
  <2>3. f \in Injection(S, U)
    BY <2>1, <2>2 DEF Injection, IsInjective
  <2>4. IsFiniteSet(U)
    BY <1>2, <1>4, FS_Subset
  <2>5. QED BY <2>3, <2>4, FS_Injection
<1> HIDE DEF S, T
<1>5. Cardinality(S) <= Cardinality(T)
  BY <1>3, <1>4
<1>6. ASSUME NEW j \in (n + 1)..m, Block(j), Keyword(j) \in opens, m < CloseOf(j)
      PROVE  Cardinality(S) < Cardinality(T)
  <2>1. j \in T
    BY <1>6 DEF T
  <2>2. \A k \in S : f[k] \in T \ {j}
    <3>1. ASSUME NEW k \in S PROVE f[k] # j
      <4>1. k <= m /\ k \in Nat
        BY <1>1 DEF S
      <4>2. CloseOf(j) \in Nat
        BY <1>6, BlockNat
      <4>3. QED BY <4>1, <4>2, <1>3, <1>6
    <3>2. QED BY <3>1, <1>3
  <2>3. Cardinality(S) <= Cardinality(T \ {j})
    BY <2>2, <1>4
  <2>4. Cardinality(T \ {j}) = Cardinality(T) - 1
    BY <2>1, <1>2, FS_RemoveElement
  <2>5. QED BY <2>3, <2>4, <1>2
<1>7. QED BY <1>5, <1>6 DEF S, T, Count

\* Just before the end of the block as many have ended as begun.
LEMMA Even ==
    ASSUME Tidy, NEW opens, NEW closes, Kind(opens, closes), NEW n, NEW c, From(n, c)
    PROVE  /\ Count(closes, n + 1, CloseOf(c) - 1) = Count(opens, n + 1, CloseOf(c) - 1)
           /\ Count(closes, n + 1, CloseOf(c) - 1) \in Nat
<1> DEFINE m == CloseOf(c) - 1
           S == {k \in (n + 1)..m : Keyword(k) \in closes}
           T == {k \in (n + 1)..m : Keyword(k) \in opens}
           g == [d \in T |-> CloseOf(d)]
<1>1. /\ n \in Nat /\ n \in Lines /\ c \in Nat /\ c <= n /\ CloseOf(c) \in Nat /\ CloseOf(c) \in Lines
      /\ n < CloseOf(c) /\ Lines = 1..Len(program) /\ Len(program) \in Nat /\ Block(c)
  BY FromIs, Text
<1>2. IsFiniteSet(S) /\ IsFiniteSet(T) /\ Cardinality(S) \in Nat /\ Cardinality(T) \in Nat
  <2>1. IsFiniteSet((n + 1)..m)
    BY <1>1, FS_Interval
  <2>2. QED BY <2>1, FS_Subset, FS_CardinalityType
<1>3. m \in Nat /\ m < CloseOf(c)
  BY <1>1
<1>4. Cardinality(S) <= Cardinality(T)
  BY <1>3, Pending DEF Count
<1>5. ASSUME NEW d \in T PROVE Block(d) /\ CloseOf(d) \in S
  <2>1. d \in Nat /\ n < d /\ d < CloseOf(c) /\ Keyword(d) \in opens
    BY <1>1
  <2>2. Block(d)
    BY <2>1, <1>1 DEF Block, Kind
  <2>3. CloseOf(d) \in Nat /\ d < CloseOf(d)
    BY <2>2, BlockNat
  <2>4. CloseOf(c) < d \/ CloseOf(d) < CloseOf(c)
    BY <2>1, <2>2, <1>1, Laminar
  <2>5. CloseOf(d) \in (n + 1)..m
    BY <2>1, <2>3, <2>4, <1>1
  <2>6. Keyword(CloseOf(d)) \in closes
    BY <2>1, <2>2, CloseIs DEF Kind, Block
  <2>7. QED BY <2>2, <2>5, <2>6
<1>6. g \in Injection(T, S)
  <2>1. g \in [T -> S]
    BY <1>5
  <2>2. \A d, e \in T : g[d] = g[e] => d = e
    BY <1>5, OneBlock
  <2>3. QED BY <2>1, <2>2 DEF Injection, IsInjective
<1>7. Cardinality(T) <= Cardinality(S)
  BY <1>2, <1>6, FS_Injection
<1> HIDE DEF S, T
<1>8. QED BY <1>2, <1>4, <1>7 DEF S, T, Count

\* The scan for the partner finds the end of the block.
LEMMA PartnerIs ==
    ASSUME Tidy, NEW opens, NEW closes, Kind(opens, closes), NEW n, NEW c, From(n, c),
           Keyword(c) \in opens, NEW counted,
           \A k \in (n + 1)..CloseOf(c) : Keyword(k) \in counted <=> Keyword(k) \in opens
    PROVE  Partner(counted, closes, n) = CloseOf(c)
<1> DEFINE e == CloseOf(c)
           S == {m \in Below(n) : /\ Keyword(m) \in closes
                                  /\ Count(closes, n + 1, m) = Count(counted, n + 1, m) + 1}
<1>1. /\ n \in Nat /\ n \in Lines /\ e \in Nat /\ e \in Lines
      /\ n < e /\ Lines = 1..Len(program) /\ Len(program) \in Nat /\ Block(c)
  BY FromIs, Text
<1>2. \A m \in Nat : m <= e => Count(counted, n + 1, m) = Count(opens, n + 1, m)
  <2>1. ASSUME NEW m \in Nat, m <= e
        PROVE  {k \in (n + 1)..m : Keyword(k) \in counted} = {k \in (n + 1)..m : Keyword(k) \in opens}
    <3>1. (n + 1)..m \subseteq (n + 1)..e
      BY <1>1, <2>1
    <3>2. QED BY <3>1
  <2>2. QED BY <2>1 DEF Count
<1>3. Keyword(e) \in closes /\ Keyword(e) \notin opens
  BY <1>1, CloseIs, WordSets DEF Kind, Block
<1>4. e \in S
  <2>1. /\ Count(closes, n + 1, e - 1) = Count(opens, n + 1, e - 1)
        /\ Count(closes, n + 1, e - 1) \in Nat
    BY Even
  <2>2. /\ Count(closes, n + 1, e - 1 + 1) = Count(closes, n + 1, e - 1) + (IF Keyword(e - 1 + 1) \in closes THEN 1 ELSE 0)
        /\ Count(opens, n + 1, e - 1 + 1) = Count(opens, n + 1, e - 1) + (IF Keyword(e - 1 + 1) \in opens THEN 1 ELSE 0)
    BY <1>1, CountStep
  <2>3. e - 1 + 1 = e
    BY <1>1
  <2>4. Count(closes, n + 1, e) = Count(opens, n + 1, e) + 1
    BY <2>1, <2>2, <2>3, <1>3
  <2>5. Count(counted, n + 1, e) = Count(opens, n + 1, e)
    BY <1>1, <1>2
  <2>6. e \in Below(n)
    BY <1>1 DEF Below
  <2>7. QED BY <2>4, <2>5, <2>6, <1>3
<1>5. ASSUME NEW m \in S PROVE e <= m
  <2>1. m \in Nat /\ n < m /\ Count(closes, n + 1, m) = Count(counted, n + 1, m) + 1
    BY <1>1 DEF Below
  <2>2. ASSUME m < e PROVE FALSE
    <3>1. Count(closes, n + 1, m) <= Count(opens, n + 1, m)
      BY <2>1, <2>2, Pending
    <3>2. Count(counted, n + 1, m) = Count(opens, n + 1, m)
      BY <2>1, <2>2, <1>1, <1>2
    <3>3. Count(opens, n + 1, m) \in Nat
      BY <2>1, <1>1, CountType
    <3>4. QED BY <3>1, <3>2, <3>3, <2>1
  <2>3. QED BY <2>1, <2>2, <1>1
<1>6. S \in SUBSET Nat
  BY <1>1 DEF Below
<1> HIDE DEF S
<1>7. FirstOf(S) = e
  BY <1>4, <1>5, <1>6, FirstIsThis
<1>8. QED BY <1>7 DEF S, Partner

LEMMA FromOpen == ASSUME Tidy, NEW c, Block(c) PROVE From(c, c)
BY BlockNat DEF From

\* A branch or an EXIT is a line from which a scan for the end of its block starts.
LEMMA FromWithin ==
    ASSUME Tidy, NEW n \in Lines, NEW c, Within(n, c), Keyword(n) \notin Opens \cup Closes
    PROVE  From(n, c)
<1>1. Block(c) /\ n <= CloseOf(c)
  BY Inner
<1>2. n # CloseOf(c)
  BY <1>1, CloseIs
<1>3. n \in Nat /\ CloseOf(c) \in Nat
  BY <1>1, BlockNat, SpotsAre
<1>4. QED BY <1>1, <1>2, <1>3 DEF From

\* After the end of a block; 0 when that is the last line
Past(c) == upper_bound(CloseOf(c))

LEMMA PastIs ==
    ASSUME Tidy, NEW c, Block(c)
    PROVE  /\ Past(c) \in Spots /\ After(CloseOf(c)) = Past(c)
           /\ Past(c) = Halt \/ Past(c) = CloseOf(c) + 1
           /\ CloseOf(c) < Len(program) => Past(c) = CloseOf(c) + 1
<1>1. CloseOf(c) \in Nat \ {0} /\ CloseOf(c) + 1 \in Spots /\ 0 \in Spots
  BY BlockNat, SpotsAre
<1>2. QED BY <1>1 DEF Past, After, upper_bound, Halt

LEMMA FindWend ==
    ASSUME Tidy, NEW n \in Lines, Keyword(n) = "while"
    PROVE  Block(n) /\ find_wend_line(n) = Past(n)
<1>1. Block(n)
  BY DEF Block, Opens
<1>2. Partner({"while"}, {"wend"}, n) = CloseOf(n)
  BY <1>1, FromOpen, Kinds, PartnerIs
<1>3. QED BY <1>1, <1>2, PastIs DEF find_wend_line

LEMMA FindLoop ==
    ASSUME Tidy, NEW n, NEW c, From(n, c), Keyword(c) = "do"
    PROVE  Block(c) /\ upper_bound(find_loop_line(n)) = Past(c)
<1>1. Block(c)
  BY DEF From
<1>2. Partner({"do"}, {"loop"}, n) = CloseOf(c)
  BY Kinds, PartnerIs
<1>3. QED BY <1>1, <1>2 DEF find_loop_line, Past

LEMMA FindEndIf ==
    ASSUME Tidy, NEW n \in Lines, NEW c, Within(n, c), Keyword(c) = "if", Keyword(n) \in {"elseif", "else"}
    PROVE  find_end_if_line(n) = Past(c)
<1>1. From(n, c) /\ Block(c)
  BY FromWithin, Inner DEF Opens, Closes
<1>2. n \in Nat /\ n \in Spots /\ c < n /\ n <= CloseOf(c) /\ CloseOf(c) \in Nat /\ c \in Nat
  BY <1>1, Inner, BlockNat, SpotsAre
<1>3. c \in Enclosing(n, {"if"})
  <2>1. {"if"} \in SUBSET Opens
    BY DEF Opens
  <2>2. QED BY <2>1, <1>1, <1>2, Encloses
<1>4. \A k \in n..CloseOf(c) : Keyword(k) # "if1"
  BY <1>3 DEF Tidy, Apart
<1>5. \A k \in (n + 1)..CloseOf(c) : Keyword(k) \in {"if", "if1"} <=> Keyword(k) \in {"if"}
  BY <1>2, <1>4
<1>6. Partner({"if", "if1"}, {"endif"}, n) = CloseOf(c)
  BY <1>1, <1>5, Kinds, PartnerIs
<1>7. QED BY <1>1, <1>6, PastIs DEF find_end_if_line

LEMMA FindEndSelect ==
    ASSUME Tidy, NEW c \in Lines, Keyword(c) = "select"
    PROVE  Block(c) /\ find_end_select_line(c) = Past(c)
<1>1. Block(c)
  BY DEF Block, Opens
<1>2. Partner({"select"}, {"endselect"}, c) = CloseOf(c)
  BY <1>1, FromOpen, Kinds, PartnerIs
<1>3. QED BY <1>1, <1>2, PastIs DEF find_end_select_line

\* The first NEXT below that has the variable or none is the one of the loop: an
\* inner NEXT names its own variable.
LEMMA FindNext ==
    ASSUME Tidy, NEW n, NEW c, From(n, c), Keyword(c) \in ForWords
    PROVE  Block(c) /\ After(find_next_line(Arg(c), n)) = Past(c)
<1> DEFINE e == CloseOf(c)
           S == {m \in Below(n) : Keyword(m) = "next" /\ (Arg(c) = "" \/ Arg(m) \in {"", Arg(c)})}
<1>1. /\ n \in Nat /\ n \in Lines /\ e \in Nat /\ e \in Lines /\ c \in Nat /\ c <= n
      /\ n < e /\ Lines = 1..Len(program) /\ Len(program) \in Nat /\ Block(c) /\ c \in Lines
  BY FromIs, Text DEF Block
<1>2. Keyword(e) = "next"
  BY <1>1, CloseIs DEF Closer, ForWords
<1>3. Arg(c) # "" /\ Arg(e) \in {"", Arg(c)}
  BY <1>1 DEF Tidy, Apart
<1>0. \A m : m \in Below(n) <=> m \in Lines /\ m \in Nat /\ n < m
  <2>1. \A l \in Nat : \A m : m \in (n + 1)..l <=> m \in 1..l /\ m \in Nat /\ n < m
    BY <1>1
  <2> QED BY <2>1, <1>1 DEF Below
<1>10. \A m : m \in S <=> m \in Lines /\ m \in Nat /\ n < m /\ Keyword(m) = "next" /\ Arg(m) \in {"", Arg(c)}
  BY <1>0, <1>3
<1> HIDE DEF S
<1>4. e \in S
  BY <1>1, <1>2, <1>3, <1>10
<1>5. ASSUME NEW m \in S PROVE e <= m
  <2>1. m \in Nat /\ m \in Lines /\ n < m /\ Keyword(m) = "next" /\ Arg(m) \in {"", Arg(c)}
    BY <1>10
  <2>2. ASSUME m < e PROVE FALSE
    <3>1. PICK d : Block(d) /\ CloseOf(d) = m
      BY <2>1, CloseHasBlock DEF Closes
    <3>2. d \in Nat /\ n < d /\ d \in Spots
      BY <3>1, <2>1, <2>2, EndsWithin, BlockNat
    <3>3. Keyword(d) \in ForWords
      BY <3>1, <2>1, CloseIs DEF Block, Kind, Closer, Opens, ForWords
    <3>4. d <= CloseOf(c) /\ c < d
      <4>1. d < m
        BY <3>1, BlockNat
      <4>2. \A w, x, y, z, v \in Nat : w <= x /\ x < y /\ y < z /\ z < v => y <= v /\ w < y
        OBVIOUS
      <4> QED BY <4>1, <4>2, <3>2, <2>1, <2>2, <1>1
    <3>5. c \in Enclosing(d, ForWords)
      <4>1. ForWords \in SUBSET Opens
        BY DEF ForWords, Opens
      <4>2. QED BY <4>1, <3>2, <3>4, <1>1, Encloses
    <3>6. Arg(d) # Arg(c) /\ Arg(m) = Arg(d) /\ Arg(d) # ""
      BY <3>1, <3>3, <3>5 DEF Tidy, Apart, Block
    <3>7. QED BY ONLY <3>6, <2>1
  <2>3. \A x, y \in Nat : ~(x < y) => y <= x
    OBVIOUS
  <2> QED BY <2>1, <2>2, <2>3, <1>1
<1>6. S \in SUBSET Nat
  BY <1>10
<1>7. FirstOf(S) = e
  BY <1>4, <1>5, <1>6, FirstIsThis
<1>8. find_next_line(Arg(c), n) = e
  BY <1>7 DEF S, find_next_line
<1>9. QED BY <1>1, <1>8, PastIs

\* The scan for the next branch stops at a branch of the same block, or at its end.
Branches(n, c, words, m) ==
    /\ m \in Lines /\ n < m
    /\ \/ m = CloseOf(c)
       \/ Keyword(m) \in words /\ Within(m, c)

LEMMA BranchIs ==
    ASSUME Tidy, NEW opens, NEW closes, Kind(opens, closes), NEW n, NEW c, From(n, c), Keyword(c) \in opens,
           NEW words \in SUBSET Mids, \A k \in Lines : Keyword(k) \in words => InA(k, opens),
           NEW S, S = {m \in Below(n) : /\ Keyword(m) \in words \cup closes
                                        /\ Count(opens, n + 1, m - 1) = Count(closes, n + 1, m - 1)}
    PROVE  Branches(n, c, words, FirstOf(S))
<1> DEFINE e == CloseOf(c)
           b == FirstOf(S)
<1>1. /\ n \in Nat /\ n \in Lines /\ e \in Nat /\ e \in Lines /\ c \in Nat /\ c <= n
      /\ n < e /\ Lines = 1..Len(program) /\ Len(program) \in Nat /\ Block(c) /\ c \in Lines
  BY FromIs, Text DEF Block
<1>2. Keyword(e) \in closes
  BY <1>1, CloseIs DEF Kind, Block
<1>3. e \in S
  <2>1. Count(closes, n + 1, e - 1) = Count(opens, n + 1, e - 1)
    BY Even
  <2>2. QED BY <2>1, <1>1, <1>2 DEF Below
<1>4. S \in SUBSET Nat
  BY <1>1 DEF Below
<1>5. b \in S /\ b <= e
  <2>1. S # {}
    BY <1>3
  <2>2. QED BY <2>1, <1>3, <1>4, MinIs DEF FirstOf
<1>6. /\ b \in Nat /\ b \in Lines /\ b \in Spots /\ n < b /\ Keyword(b) \in words \cup closes
      /\ Count(opens, n + 1, b - 1) = Count(closes, n + 1, b - 1)
  BY <1>5, <1>1, SpotsAre DEF Below
<1> HIDE DEF b
<1>7. ASSUME b # e PROVE Keyword(b) \in words /\ Within(b, c)
  <2>1. PICK a \in Nat : a = b - 1 /\ a + 1 = b /\ a < e /\ b < e
    BY <1>5, <1>6, <1>7, <1>1
  <2>0. Count(opens, n + 1, a) = Count(closes, n + 1, a)
    BY <2>1, <1>6
  <2>2. Keyword(b) \notin closes
    <3>1. SUFFICES ASSUME Keyword(b) \in closes PROVE FALSE
      OBVIOUS
    <3>2. Keyword(b) \notin opens
      BY <3>1, WordSets DEF Kind
    <3>3. /\ Count(closes, n + 1, a + 1) = Count(closes, n + 1, a) + (IF Keyword(a + 1) \in closes THEN 1 ELSE 0)
          /\ Count(opens, n + 1, a + 1) = Count(opens, n + 1, a) + (IF Keyword(a + 1) \in opens THEN 1 ELSE 0)
      BY <2>1, <1>1, <1>6, CountStep
    <3>4. Count(closes, n + 1, b) <= Count(opens, n + 1, b)
      BY <1>6, <2>1, Pending
    <3>5. Count(opens, n + 1, a) \in Nat
      BY <1>1, <2>1, CountType
    <3>6. Count(closes, n + 1, b) = Count(opens, n + 1, a) + 1 /\ Count(opens, n + 1, b) = Count(opens, n + 1, a)
      BY <3>1, <3>2, <3>3, <3>5, <2>0, <2>1
    <3>7. QED BY <3>4, <3>5, <3>6
  <2>3. Keyword(b) \in words
    BY <2>2, <1>6
  <2>4. PICK j \in 1..(b - 1) : Keyword(j) \in opens /\ Within(b, j)
    BY <2>3, <1>6 DEF InA
  <2>5. Block(j) /\ j < b /\ b <= CloseOf(j) /\ j \in Nat /\ CloseOf(j) \in Nat
    BY <2>4, <1>6, Inner, BlockNat
  <2>6. c <= j
    <3>1. c \in Enclosing(b, Opens)
      <4>1. c < b /\ b <= CloseOf(c)
        BY <1>1, <1>6, <2>1
      <4>2. QED BY <4>1, <1>1, <1>6, Encloses DEF Block
    <3>2. QED BY <3>1, <2>4 DEF Within
  <2>7. j = c
    <3>1. SUFFICES ASSUME c < j PROVE FALSE
      BY <2>5, <2>6, <1>1
    <3>2. j # n
      BY <3>1, <2>5, <1>1 DEF From, Block
    <3>3. ~(j < n)
      <4>1. SUFFICES ASSUME j < n PROVE FALSE
        OBVIOUS
      <4>2. n <= CloseOf(j) /\ n \in Spots
        BY <1>1, <1>6, <2>5, SpotsAre
      <4>3. j \in Enclosing(n, Opens)
        BY <4>1, <4>2, <2>5, Encloses DEF Block
      <4>4. Within(n, c)
        BY <3>1, <4>1, <2>5, <1>1 DEF From
      <4>5. j <= c
        BY <4>3, <4>4 DEF Within
      <4>6. QED BY <4>5, <3>1, <2>5, <1>1
    <3>4. j \in (n + 1)..a
      BY <3>2, <3>3, <2>1, <2>5, <1>1, <1>6
    <3>5. a < CloseOf(j)
      BY <2>1, <2>5, <1>6
    <3>6. Count(closes, n + 1, a) < Count(opens, n + 1, a)
      BY <2>1, <2>4, <2>5, <3>4, <3>5, Pending
    <3>7. Count(opens, n + 1, a) \in Nat
      BY <1>1, <2>1, CountType
    <3>8. QED BY <3>6, <3>7, <2>0
  <2>8. QED BY <2>3, <2>4, <2>7
<1>8. QED BY <1>6, <1>7 DEF Branches, b

LEMMA FindBranch ==
    ASSUME Tidy, NEW n, NEW c, From(n, c), Keyword(c) = "if"
    PROVE  Branches(n, c, {"elseif", "else"}, find_next_if_branch(n))
<1> DEFINE S == {m \in Below(n) :
                    /\ Keyword(m) \in {"elseif", "else"} \cup {"endif"}
                    /\ Count({"if"}, n + 1, m - 1) = Count({"endif"}, n + 1, m - 1)}
<1>1. {"elseif", "else"} \in SUBSET Mids
  BY DEF Mids
<1>2. \A k \in Lines : Keyword(k) \in {"elseif", "else"} => InA(k, {"if"})
  BY DEF Tidy, Nested
<1>3. Branches(n, c, {"elseif", "else"}, FirstOf(S))
  <2> HIDE DEF S
  <2>1. S = {m \in Below(n) : /\ Keyword(m) \in {"elseif", "else"} \cup {"endif"}
                              /\ Count({"if"}, n + 1, m - 1) = Count({"endif"}, n + 1, m - 1)}
    BY DEF S
  <2>2. Keyword(c) \in {"if"} /\ Kind({"if"}, {"endif"})
    BY Kinds
  <2>3. QED BY <1>1, <1>2, <2>1, <2>2, BranchIs
<1>4. {"elseif", "else"} \cup {"endif"} = {"elseif", "else", "endif"}
  OBVIOUS
<1>5. find_next_if_branch(n) = FirstOf(S)
  BY <1>4, Zenon DEF find_next_if_branch
<1>6. QED BY <1>3, <1>5

LEMMA FindCase ==
    ASSUME Tidy, NEW n, NEW c, From(n, c), Keyword(c) = "select"
    PROVE  Branches(n, c, {"case", "caseelse"}, next_case(n))
<1> DEFINE S == {m \in Below(n) :
                    /\ Keyword(m) \in {"case", "caseelse"} \cup {"endselect"}
                    /\ Count({"select"}, n + 1, m - 1) = Count({"endselect"}, n + 1, m - 1)}
<1>1. {"case", "caseelse"} \in SUBSET Mids
  BY DEF Mids
<1>2. \A k \in Lines : Keyword(k) \in {"case", "caseelse"} => InA(k, {"select"})
  BY DEF Tidy, Nested
<1>3. Branches(n, c, {"case", "caseelse"}, FirstOf(S))
  <2> HIDE DEF S
  <2>1. S = {m \in Below(n) : /\ Keyword(m) \in {"case", "caseelse"} \cup {"endselect"}
                              /\ Count({"select"}, n + 1, m - 1) = Count({"endselect"}, n + 1, m - 1)}
    BY DEF S
  <2>2. Keyword(c) \in {"select"} /\ Kind({"select"}, {"endselect"})
    BY Kinds
  <2>3. QED BY <1>1, <1>2, <2>1, <2>2, BranchIs
<1>4. {"case", "caseelse"} \cup {"endselect"} = {"case", "caseelse", "endselect"}
  OBVIOUS
<1>5. next_case(n) = FirstOf(S)
  BY <1>4, Zenon DEF next_case
<1>6. QED BY <1>3, <1>5

LEMMA FindFirst ==
    ASSUME Tidy, NEW n \in Lines, Keyword(n) = "select"
    PROVE  Block(n) /\ Branches(n, n, {"case", "caseelse"}, first_case(n))
<1> DEFINE e == CloseOf(n)
           S == {m \in Below(n) : Keyword(m) \in {"case", "caseelse", "endselect"}}
           b == FirstOf(S)
<1>1. Block(n)
  BY DEF Block, Opens
<1>2. /\ n \in Nat /\ e \in Nat /\ e \in Lines /\ n < e
      /\ Lines = 1..Len(program) /\ Len(program) \in Nat /\ Keyword(e) = "endselect"
  BY <1>1, Text, BlockNat, CloseIs DEF Closer, ForWords
<1>3. S \in SUBSET Nat /\ e \in S
  BY <1>2 DEF Below
<1>4. b \in S /\ \A m \in S : b <= m
  <2>1. S # {}
    BY <1>3
  <2>2. QED BY <2>1, <1>3, MinIs DEF FirstOf
<1>5. /\ b \in Nat /\ b \in Lines /\ b \in Spots /\ n < b /\ b <= e
      /\ Keyword(b) \in {"case", "caseelse", "endselect"}
  BY <1>2, <1>3, <1>4, SpotsAre DEF Below
<1>6. PICK m \in Below(n) : /\ Keyword(m) \in {"case", "caseelse", "endselect"}
                            /\ \A k \in (n + 1)..m : Keyword(k) # "select"
  BY DEF Tidy, Apart
<1>7. \A k \in (n + 1)..b : Keyword(k) # "select"
  <2>1. b <= m /\ m \in Nat
    BY <1>2, <1>4, <1>6 DEF Below
  <2>2. (n + 1)..b \subseteq (n + 1)..m
    <3>1. \A x, y \in Nat : x <= y => (n + 1)..x \subseteq (n + 1)..y
      BY <1>2
    <3> QED BY <3>1, <1>5, <2>1
  <2>3. QED BY <2>2, <1>6
<1> HIDE DEF b, S
<1>8. ASSUME b # e PROVE Keyword(b) \in {"case", "caseelse"} /\ Within(b, n)
  <2>1. Keyword(b) # "endselect"
    <3>1. SUFFICES ASSUME Keyword(b) = "endselect" PROVE FALSE
      OBVIOUS
    <3>2. PICK d : Block(d) /\ CloseOf(d) = b
      BY <1>5, <3>1, CloseHasBlock DEF Closes
    <3>3. b < e
      BY <1>2, <1>5, <1>8
    <3>4. d \in Nat /\ n < d /\ d < b
      BY <1>1, <1>5, <3>2, <3>3, FromOpen, EndsWithin
    <3>5. Keyword(d) = "select"
      BY <3>1, <3>2, CloseIs DEF Block, Closer, Opens, ForWords
    <3>6. d \in (n + 1)..b
      BY <3>4, <1>2, <1>5
    <3>7. QED BY <3>5, <3>6, <1>7
  <2>2. Keyword(b) \in {"case", "caseelse"}
    BY <2>1, <1>5
  <2>3. PICK j \in 1..(b - 1) : Keyword(j) \in {"select"} /\ Within(b, j)
    BY <2>2, <1>5 DEF Tidy, Nested, InA
  <2>4. j \in Nat /\ j < b
    BY <1>5
  <2>5. n <= j
    <3>1. n \in Enclosing(b, Opens)
      BY <1>1, <1>2, <1>5, Encloses DEF Block
    <3>2. QED BY <3>1, <2>3 DEF Within
  <2>6. j \notin (n + 1)..b
    BY <2>3, <1>7
  <2>7. j = n
    BY <2>4, <2>5, <2>6, <1>2, <1>5
  <2>8. QED BY <2>2, <2>3, <2>7
<1>9. QED BY <1>1, <1>5, <1>8 DEF Branches, b, S, first_case

-----------------------------------------------------------------------------
(* The blocks around a line, kind by kind                                  *)

Around(n) == [fors |-> Enclosing(n, ForWords), whiles |-> Enclosing(n, {"while"}),
              ifs |-> Enclosing(n, {"if"}), selects |-> Enclosing(n, {"select"}),
              dos |-> Enclosing(n, {"do"})]
Outside == [fors |-> {}, whiles |-> {}, ifs |-> {}, selects |-> {}, dos |-> {}]

LEMMA KindWords ==
    /\ ForWords \in SUBSET Opens /\ {"while"} \in SUBSET Opens /\ {"if"} \in SUBSET Opens
    /\ {"select"} \in SUBSET Opens /\ {"do"} \in SUBSET Opens /\ Opens \in SUBSET Opens
BY DEF ForWords, Opens

LEMMA AroundPlain ==
    ASSUME Tidy, NEW n \in Lines, Keyword(n) \notin Opens \cup Closes
    PROVE  Around(n + 1) = Around(n)
BY AfterPlain, KindWords DEF Around

LEMMA AroundPast ==
    ASSUME Tidy, NEW c, Block(c)
    PROVE  /\ Around(CloseOf(c) + 1) = Around(c)
           /\ Past(c) # Halt => Around(Past(c)) = Around(c)
BY AfterClose, KindWords, PastIs DEF Around

LEMMA AroundInner ==
    ASSUME Tidy, NEW n \in Lines, NEW c, Within(n, c)
    PROVE  Block(c) /\ Around(n) = Around(c + 1)
BY Inner, KindWords DEF Around

LEMMA AroundClose ==
    ASSUME Tidy, NEW c, Block(c)
    PROVE  Around(CloseOf(c)) = Around(c + 1)
BY AtClose, AroundInner, BlockNat

\* The block that begins is added to those of its kind, as the last.
LEMMA AroundOpen ==
    ASSUME Tidy, NEW c, Block(c)
    PROVE  /\ Keyword(c) \in ForWords => Around(c + 1) = [Around(c) EXCEPT !.fors = @ \cup {c}]
           /\ Keyword(c) = "while" => Around(c + 1) = [Around(c) EXCEPT !.whiles = @ \cup {c}]
           /\ Keyword(c) = "if" => Around(c + 1) = [Around(c) EXCEPT !.ifs = @ \cup {c}]
           /\ Keyword(c) = "select" => Around(c + 1) = [Around(c) EXCEPT !.selects = @ \cup {c}]
           /\ Keyword(c) = "do" => Around(c + 1) = [Around(c) EXCEPT !.dos = @ \cup {c}]
<1> DEFINE Add(ops) == Enclosing(c, ops) \cup (IF Keyword(c) \in ops THEN {c} ELSE {})
<1>1. \A ops \in SUBSET Opens : Enclosing(c + 1, ops) = Add(ops)
  BY AfterOpen
<1>2. Around(c + 1) = [fors |-> Add(ForWords), whiles |-> Add({"while"}), ifs |-> Add({"if"}),
                       selects |-> Add({"select"}), dos |-> Add({"do"})]
  BY <1>1, KindWords DEF Around
<1>3. \A ops \in SUBSET Opens : Keyword(c) \notin ops => Add(ops) = Enclosing(c, ops)
  OBVIOUS
<1>4. /\ Keyword(c) \in ForWords => Keyword(c) \notin {"while"} \cup {"if"} \cup {"select"} \cup {"do"}
      /\ Keyword(c) \in {"while"} \cup {"if"} \cup {"select"} \cup {"do"} => Keyword(c) \notin ForWords
  BY DEF ForWords
<1> DEFINE A == Around(c)
<1>5. A = [fors |-> A.fors, whiles |-> A.whiles, ifs |-> A.ifs, selects |-> A.selects, dos |-> A.dos]
  BY DEF Around
<1>6. /\ A.fors = Enclosing(c, ForWords) /\ A.whiles = Enclosing(c, {"while"}) /\ A.ifs = Enclosing(c, {"if"})
      /\ A.selects = Enclosing(c, {"select"}) /\ A.dos = Enclosing(c, {"do"})
  BY DEF Around
<1> HIDE DEF A
<1> USE KindWords
<1>7. Keyword(c) \in ForWords => Around(c + 1) = [A EXCEPT !.fors = @ \cup {c}]
  <2>1. ASSUME Keyword(c) \in ForWords
        PROVE  /\ Add(ForWords) = A.fors \cup {c} /\ Add({"while"}) = A.whiles /\ Add({"if"}) = A.ifs
               /\ Add({"select"}) = A.selects /\ Add({"do"}) = A.dos
    BY <2>1, <1>4, <1>6
  <2> HIDE DEF Add
  <2>2. QED BY <2>1, <1>2, <1>5
<1>8. Keyword(c) = "while" => Around(c + 1) = [A EXCEPT !.whiles = @ \cup {c}]
  BY <1>2, <1>3, <1>4, <1>5, <1>6
<1>9. Keyword(c) = "if" => Around(c + 1) = [A EXCEPT !.ifs = @ \cup {c}]
  BY <1>2, <1>3, <1>4, <1>5, <1>6
<1>10. Keyword(c) = "select" => Around(c + 1) = [A EXCEPT !.selects = @ \cup {c}]
  BY <1>2, <1>3, <1>4, <1>5, <1>6
<1>11. Keyword(c) = "do" => Around(c + 1) = [A EXCEPT !.dos = @ \cup {c}]
  BY <1>2, <1>3, <1>4, <1>5, <1>6
<1>12. QED BY <1>7, <1>8, <1>9, <1>10, <1>11 DEF A

LEMMA AroundBelow ==
    ASSUME Tidy, NEW c, Block(c)
    PROVE  /\ \A m \in Around(c).fors : m \in Nat /\ m < c
           /\ \A m \in Around(c).whiles : m \in Nat /\ m < c
           /\ \A m \in Around(c).ifs : m \in Nat /\ m < c
           /\ \A m \in Around(c).selects : m \in Nat /\ m < c
BY AfterOpen, KindWords DEF Around

LEMMA AroundSame ==
    ASSUME Tidy, NEW m \in Spots, NEW n \in Spots, Enclosing(m, Opens) = Enclosing(n, Opens)
    PROVE  Around(m) = Around(n)
<1>1. ASSUME NEW ops \in SUBSET Opens PROVE Enclosing(m, ops) = Enclosing(n, ops)
  <2>1. ASSUME NEW k, NEW l \in Spots
        PROVE  k \in Enclosing(l, ops) <=> k \in Enclosing(l, Opens) /\ Keyword(k) \in ops
    BY KindWords, Encloses
  <2>2. QED BY <2>1
<1>2. QED BY <1>1, KindWords DEF Around

LEMMA AroundNone ==
    ASSUME Tidy, NEW n \in Spots, Enclosing(n, Opens) = {}
    PROVE  Around(n) = Outside
<1>1. ASSUME NEW ops \in SUBSET Opens PROVE Enclosing(n, ops) = {}
  <2>1. ASSUME NEW k PROVE k \in Enclosing(n, ops) => k \in Enclosing(n, Opens)
    BY KindWords, Encloses
  <2>2. QED BY <2>1
<1>2. QED BY <1>1, KindWords DEF Around, Outside

\* No DO is in a DO.
LEMMA OneDo ==
    ASSUME Tidy, NEW c, Block(c), Keyword(c) = "do"
    PROVE  Around(c).dos = {} /\ Around(c + 1).dos = {c}
<1>0. \A b \in Lines : Keyword(b) = "do" => Enclosing(b, {"do"}) = {}
  BY Zenon DEF Tidy, Apart
<1>1. Around(c).dos = {}
  BY <1>0 DEF Around, Block
<1>2. Around(c + 1) = [Around(c) EXCEPT !.dos = @ \cup {c}]
  BY AroundOpen
<1>3. QED BY <1>1, <1>2 DEF Around

-----------------------------------------------------------------------------
(* The bodies of SUBs and the lines of routines                            *)

\* Line n is in the body of the SUB that ends at line e; or it is that line.
Inside(n, e) == \E s \in Lines : Keyword(s) = "sub" /\ SubEnd(s) = e /\ s < n /\ n < e
UpTo(n, e) == \E s \in Lines : Keyword(s) = "sub" /\ SubEnd(s) = e /\ s < n /\ n <= e
\* A step from line n to line m leaves no body and no routine.
Stays(n, m) == /\ m # Halt /\ InRoutine(n) => InRoutine(m)
               /\ \A e : Inside(n, e) => UpTo(m, e)

LEMMA SubIs ==
    ASSUME Tidy, NEW s \in Lines, Keyword(s) = "sub"
    PROVE  /\ SubEnd(s) \in Lines /\ SubEnd(s) \in Nat /\ s < SubEnd(s) /\ s \in Nat
           /\ Keyword(SubEnd(s)) = "endsub"
           /\ Around(s) = Outside /\ Around(SubEnd(s)) = Outside
           /\ Enclosing(s, Opens) = {} /\ Enclosing(SubEnd(s), Opens) = {}
           /\ \A k \in Nat : s < k /\ k < SubEnd(s) => k \in Lines /\ k \in Body(s)
           /\ \A k \in Body(s) : Keyword(k) # "endsub"
<1> DEFINE S == {m \in Below(s) : Keyword(m) = "endsub"}
<1>1. s \in Nat /\ Lines = 1..Len(program) /\ Len(program) \in Nat /\ s <= Len(program)
  BY Text
<1>2. S \in SUBSET Nat /\ SubEnd(s) = FirstOf(S)
  BY <1>1 DEF SubEnd, Below
<1>3. SubEnd(s) > 0 /\ Enclosing(s, Opens) = {} /\ Enclosing(SubEnd(s), Opens) = {}
  BY DEF Tidy, SubsApart
<1>4. SubEnd(s) \in S /\ \A m \in S : SubEnd(s) <= m
  <2> HIDE DEF S
  <2>1. FirstOf(S) # 0
    BY <1>2, <1>3
  <2>2. QED BY <2>1, <1>2, FirstIs
<1>5. /\ SubEnd(s) \in Lines /\ SubEnd(s) \in Nat /\ s < SubEnd(s) /\ Keyword(SubEnd(s)) = "endsub"
      /\ SubEnd(s) <= Len(program)
  BY <1>1, <1>4 DEF Below
<1>6. Around(s) = Outside /\ Around(SubEnd(s)) = Outside
  BY <1>3, <1>5, AroundNone, SpotsAre
<1>7. \A k \in Nat : s < k /\ k < SubEnd(s) => k \in Lines /\ k \in Body(s)
  BY <1>1, <1>5 DEF Body
<1>8. ASSUME NEW k \in Body(s) PROVE Keyword(k) # "endsub"
  <2>1. k \in Nat /\ s < k /\ k < SubEnd(s) /\ k \in Below(s)
    BY <1>1, <1>5 DEF Body, Below
  <2>2. k \notin S
    BY <2>1, <1>4, <1>5
  <2>3. QED BY <2>1, <2>2
<1>9. QED BY <1>1, <1>3, <1>5, <1>6, <1>7, <1>8

LEMMA LabelIs ==
    ASSUME Tidy, NEW x, Label(x) > 0
    PROVE  Label(x) \in Lines /\ Keyword(Label(x)) = "label"
<1> DEFINE S == {n \in Lines : Keyword(n) = "label" /\ Arg(n) = x}
<1>1. S \in SUBSET Nat /\ Label(x) = FirstOf(S)
  BY Text DEF Label
<1>2. FirstOf(S) # 0
  BY <1>1
<1>3. QED BY <1>1, <1>2, FirstIs

LEMMA EntryIs ==
    ASSUME Tidy, NEW t \in Entries
    PROVE  t \in Lines /\ t \in Nat /\ Keyword(t) = "label" /\ Enclosing(t, Opens) = {}
<1>0. PICK n \in Lines : \E q \in Stmts(n) : q.op = "gosub" /\ t = Label(q.x)
  BY DEF Entries
<1>1. PICK q \in Stmts(n) : q.op = "gosub" /\ t = Label(q.x)
  BY <1>0
<1>2. Label(q.x) > 0 /\ Enclosing(Label(q.x), Opens) = {}
  BY <1>1 DEF Tidy, Level
<1>3. QED BY <1>1, <1>2, LabelIs, SpotsAre

\* A RETURN is in no block.
LEMMA ReturnIs ==
    ASSUME Tidy, NEW n \in Lines, Keyword(n) = "return"
    PROVE  Enclosing(n, Opens) = {}
<1>1. 1 \in DOMAIN program[n]
  BY Text
<1>2. program[n][1] \in Stmts(n) /\ program[n][1].op = "return"
  BY <1>1 DEF Stmts, ToSet, Keyword
<1>3. QED BY <1>2 DEF Tidy, Level

LEMMA StaysNext ==
    ASSUME Tidy, NEW n \in Lines, Keyword(n) # "return"
    PROVE  Stays(n, n + 1)
<1>1. n \in Nat
  BY SpotsAre
<1>2. ASSUME InRoutine(n) PROVE InRoutine(n + 1)
  <2>1. PICK t \in Entries : t <= n /\ \A k \in t..(n - 1) : Keyword(k) # "return"
    BY <1>2 DEF InRoutine
  <2>2. t \in Nat
    BY EntryIs
  <2>3. t <= n + 1 /\ \A k \in t..((n + 1) - 1) : Keyword(k) # "return"
    BY <2>1, <2>2, <1>1
  <2>4. QED BY <2>3 DEF InRoutine
<1>3. ASSUME NEW e, Inside(n, e) PROVE UpTo(n + 1, e)
  <2>1. PICK s \in Lines : Keyword(s) = "sub" /\ SubEnd(s) = e /\ s < n /\ n < e
    BY <1>3 DEF Inside
  <2>2. e \in Nat /\ s \in Nat
    BY <2>1, SubIs
  <2>3. s < n + 1 /\ n + 1 <= e
    BY <2>1, <2>2, <1>1
  <2>4. QED BY <2>1, <2>3 DEF UpTo
<1>4. QED BY <1>2, <1>3 DEF Stays

\* What is in no block is not between the lines of one.
LEMMA Apart_ ==
    ASSUME Tidy, NEW c, Block(c), NEW k \in Lines, Enclosing(k, Opens) = {}, Keyword(k) \notin Opens
    PROVE  k < c \/ CloseOf(c) < k
<1>1. k \in Nat /\ k \in Spots /\ c \in Nat /\ CloseOf(c) \in Nat
  BY SpotsAre, BlockNat
<1>2. ~(c < k /\ k <= CloseOf(c))
  BY <1>1, Encloses DEF Block
<1>3. k # c
  BY DEF Block
<1>4. QED BY <1>1, <1>2, <1>3

LEMMA StaysBlock ==
    ASSUME Tidy, NEW c, Block(c), NEW n \in Nat, c <= n, n <= CloseOf(c),
           NEW m \in Nat, c <= m, m <= CloseOf(c) + 1
    PROVE  /\ Stays(n, m)
           /\ \A e : Inside(n, e) => CloseOf(c) < e /\ e \in Lines
<1>1. c \in Lines /\ c \in Nat /\ CloseOf(c) \in Nat /\ c < CloseOf(c) /\ CloseOf(c) \in Lines
      /\ Lines = 1..Len(program) /\ Len(program) \in Nat
  BY BlockNat, Text
<1>2. ASSUME InRoutine(n) PROVE InRoutine(m)
  <2>1. PICK t \in Entries : t <= n /\ \A k \in t..(n - 1) : Keyword(k) # "return"
    BY <1>2 DEF InRoutine
  <2>2. t \in Nat /\ t < c
    <3>1. t \in Nat /\ t \in Lines /\ Keyword(t) \notin Opens /\ Enclosing(t, Opens) = {}
      BY EntryIs DEF Opens
    <3>2. t < c \/ CloseOf(c) < t
      BY <3>1, Apart_
    <3>3. QED BY <3>1, <3>2, <2>1, <1>1
  <2>3. ASSUME NEW k \in t..(m - 1) PROVE Keyword(k) # "return"
    <3>1. CASE k < c
      <4>1. k \in t..(n - 1)
        BY <3>1, <2>2, <1>1
      <4>2. QED BY <4>1, <2>1
    <3>2. CASE c <= k
      <4>1. k \in Nat /\ k <= CloseOf(c) /\ k \in Lines
        BY <3>2, <2>2, <1>1
      <4>2. SUFFICES ASSUME Keyword(k) = "return" PROVE FALSE
        OBVIOUS
      <4>3. Enclosing(k, Opens) = {} /\ Keyword(k) \notin Opens
        BY <4>1, <4>2, ReturnIs DEF Opens
      <4>4. k < c \/ CloseOf(c) < k
        BY <4>1, <4>3, Apart_
      <4>5. QED BY <4>1, <4>4, <3>2, <1>1
    <3>3. QED BY <3>1, <3>2, <2>2, <1>1
  <2>4. t <= m
    BY <2>2, <1>1
  <2>5. QED BY <2>3, <2>4 DEF InRoutine
<1>3. ASSUME NEW e, Inside(n, e) PROVE UpTo(m, e) /\ CloseOf(c) < e /\ e \in Lines
  <2>1. PICK s \in Lines : Keyword(s) = "sub" /\ SubEnd(s) = e /\ s < n /\ n < e
    BY <1>3 DEF Inside
  <2>2. /\ e \in Nat /\ s \in Nat /\ e \in Lines /\ Enclosing(s, Opens) = {} /\ Enclosing(e, Opens) = {}
        /\ Keyword(s) \notin Opens /\ Keyword(e) \notin Opens
    BY <2>1, SubIs DEF Opens
  <2>3. (s < c \/ CloseOf(c) < s) /\ (e < c \/ CloseOf(c) < e)
    BY <2>2, Apart_
  <2>4. s < c /\ CloseOf(c) < e
    BY <2>1, <2>2, <2>3, <1>1
  <2>5. s < m /\ m <= e
    BY <2>2, <2>4, <1>1
  <2>6. QED BY <2>1, <2>2, <2>4, <2>5 DEF UpTo
<1>4. QED BY <1>2, <1>3 DEF Stays

LEMMA StaysPast ==
    ASSUME Tidy, NEW c, Block(c), NEW n \in Nat, c <= n, n <= CloseOf(c)
    PROVE  Stays(n, Past(c))
<1>1. c \in Nat /\ CloseOf(c) \in Nat /\ c < CloseOf(c) /\ CloseOf(c) \in Lines
      /\ Lines = 1..Len(program) /\ Len(program) \in Nat
  BY BlockNat, Text
<1>2. /\ Stays(n, CloseOf(c) + 1)
      /\ \A e : Inside(n, e) => CloseOf(c) < e /\ e \in Lines
  BY <1>1, StaysBlock
<1>3. Past(c) = Halt \/ Past(c) = CloseOf(c) + 1
  BY PastIs
<1>4. ASSUME NEW e, Inside(n, e) PROVE Past(c) = CloseOf(c) + 1
  <2>1. CloseOf(c) < Len(program)
    BY <1>1, <1>2, <1>4
  <2>2. QED BY <2>1, PastIs
<1>5. QED BY <1>2, <1>3, <1>4 DEF Stays

LEMMA GotoIs ==
    ASSUME Tidy, NEW n \in Lines, NEW q \in Stmts(n), q.op = "goto"
    PROVE  /\ Label(q.x) \in Lines /\ Label(q.x) > 0
           /\ Around(Label(q.x)) = Around(n) /\ Stays(n, Label(q.x))
<1>1. Label(q.x) > 0 /\ Enclosing(Label(q.x), Opens) = Enclosing(n, Opens)
  BY DEF Tidy, Level
<1>2. Label(q.x) \in Lines /\ Label(q.x) \in Spots /\ n \in Spots /\ n \in Nat /\ Label(q.x) \in Nat
  BY <1>1, LabelIs, SpotsAre
<1>3. Around(Label(q.x)) = Around(n)
  BY <1>1, <1>2, AroundSame
<1>4. InRoutine(n) => InRoutine(Label(q.x))
  BY DEF Tidy, RoutinesApart
<1>5. ASSUME NEW e, Inside(n, e) PROVE UpTo(Label(q.x), e)
  <2>1. PICK s \in Lines : Keyword(s) = "sub" /\ SubEnd(s) = e /\ s < n /\ n < e
    BY <1>5 DEF Inside
  <2>2. n \in Body(s) /\ e \in Nat /\ s \in Nat
    BY <2>1, <1>2, SubIs
  <2>3. Label(q.x) \in Body(s)
    BY <2>1, <2>2 DEF Tidy, SubsApart
  <2>4. s < Label(q.x) /\ Label(q.x) <= e
    BY <2>1, <2>2, <2>3 DEF Body
  <2>5. QED BY <2>1, <2>4 DEF UpTo
<1>6. QED BY <1>1, <1>2, <1>3, <1>4, <1>5 DEF Stays

LEMMA GosubIs ==
    ASSUME Tidy, NEW n \in Lines, NEW q \in Stmts(n), q.op = "gosub"
    PROVE  /\ Label(q.x) \in Lines /\ Label(q.x) > 0
           /\ Around(Label(q.x)) = Outside /\ InRoutine(Label(q.x))
           /\ \A e : ~Inside(n, e)
<1>1. Label(q.x) > 0 /\ Enclosing(Label(q.x), Opens) = {}
  BY DEF Tidy, Level
<1>2. Label(q.x) \in Lines /\ Label(q.x) \in Spots /\ n \in Spots /\ n \in Nat /\ Label(q.x) \in Nat
  BY <1>1, LabelIs, SpotsAre
<1>3. Around(Label(q.x)) = Outside
  BY <1>1, <1>2, AroundNone
<1>4. Label(q.x) \in Entries
  BY DEF Entries
<1>5. InRoutine(Label(q.x))
  BY <1>2, <1>4 DEF InRoutine
<1>6. ASSUME NEW e, Inside(n, e) PROVE FALSE
  <2>1. PICK s \in Lines : Keyword(s) = "sub" /\ SubEnd(s) = e /\ s < n /\ n < e
    BY <1>6 DEF Inside
  <2>2. n \in Body(s)
    BY <2>1, <1>2, SubIs
  <2>3. "gosub" \in Ops(n)
    BY DEF Ops
  <2>4. QED BY <2>1, <2>2, <2>3 DEF Tidy, SubsApart
<1>7. QED BY <1>1, <1>2, <1>3, <1>5, <1>6

\* RETURN and END are not in a SUB.
LEMMA NotInside ==
    ASSUME Tidy, NEW n \in Lines, NEW q \in Stmts(n), q.op \in {"return", "end"}, NEW e
    PROVE  ~Inside(n, e)
<1>1. SUFFICES ASSUME Inside(n, e) PROVE FALSE
  OBVIOUS
<1>2. PICK s \in Lines : Keyword(s) = "sub" /\ SubEnd(s) = e /\ s < n /\ n < e
  BY <1>1 DEF Inside
<1>3. n \in Body(s)
  BY <1>2, SubIs, SpotsAre
<1>4. Ops(n) \cap {"return", "end"} # {}
  BY DEF Ops
<1>5. QED BY <1>2, <1>3, <1>4 DEF Tidy, SubsApart

\* A SUB that is met is left behind its END SUB.
LEMMA SubPast ==
    ASSUME Tidy, NEW n \in Lines, Keyword(n) = "sub"
    PROVE  /\ find_end_sub_line(n) + 1 \in Spots /\ find_end_sub_line(n) + 1 # Halt
           /\ Around(find_end_sub_line(n) + 1) = Outside
           /\ Stays(n, find_end_sub_line(n) + 1)
<1> DEFINE e == SubEnd(n)
           S == {m \in Below(n) : Keyword(m) \in {"endsub", "sub"}}
<1>1. /\ e \in Lines /\ e \in Nat /\ n \in Nat /\ n < e /\ Keyword(e) = "endsub" /\ Around(e) = Outside
      /\ Lines = 1..Len(program) /\ Len(program) \in Nat
      /\ \A k \in Nat : n < k /\ k < e => k \in Lines /\ k \in Body(n)
      /\ \A k \in Body(n) : Keyword(k) # "endsub"
  BY SubIs, Text
<1>2. \A k \in Body(n) : Keyword(k) # "sub" /\ Ops(k) \cap {"gosub", "return", "end"} = {}
  BY DEF Tidy, SubsApart
<1>3. e \in S /\ S \in SUBSET Nat
  BY <1>1 DEF Below
<1>4. ASSUME NEW m \in S PROVE e <= m
  BY <1>1, <1>2 DEF Below
<1> HIDE DEF S
<1>5. find_end_sub_line(n) = e
  <2>1. FirstOf(S) = e
    BY <1>3, <1>4, FirstIsThis
  <2>2. QED BY <2>1 DEF S, find_end_sub_line
<1>6. e + 1 \in Spots /\ e + 1 # Halt
  BY <1>1, SpotsAre DEF Halt
<1>7. Around(e + 1) = Outside
  BY <1>1, AroundPlain DEF Opens, Closes
<1>8. ASSUME InRoutine(n) PROVE InRoutine(e + 1)
  <2>1. PICK t \in Entries : t <= n /\ \A k \in t..(n - 1) : Keyword(k) # "return"
    BY <1>8 DEF InRoutine
  <2>2. t \in Nat
    BY EntryIs
  <2>3. ASSUME NEW k \in t..((e + 1) - 1) PROVE Keyword(k) # "return"
    <3>1. CASE k < n
      BY <3>1, <2>1, <2>2, <1>1
    <3>2. CASE k = n \/ k = e
      BY <3>2, <1>1
    <3>3. CASE n < k /\ k < e
      <4>1. k \in Lines /\ k \in Body(n)
        BY <3>3, <2>2, <1>1
      <4>2. Ops(k) \cap {"return"} = {}
        BY <4>1, <1>2
      <4>3. 1 \in DOMAIN program[k]
        BY <4>1, Text
      <4>4. QED BY <4>2, <4>3 DEF Ops, Stmts, ToSet, Keyword
    <3>4. QED BY <3>1, <3>2, <3>3, <2>2, <1>1
  <2>4. t <= e + 1
    BY <2>1, <2>2, <1>1
  <2>5. QED BY <2>3, <2>4 DEF InRoutine
<1>9. ASSUME NEW f, Inside(n, f) PROVE FALSE
  <2>1. PICK s \in Lines : Keyword(s) = "sub" /\ SubEnd(s) = f /\ s < n /\ n < f
    BY <1>9 DEF Inside
  <2>2. n \in Body(s)
    BY <2>1, <1>1, SubIs
  <2>3. QED BY <2>1, <2>2 DEF Tidy, SubsApart
<1>10. QED BY <1>5, <1>6, <1>7, <1>8, <1>9 DEF Stays

-----------------------------------------------------------------------------
(* Words in a line, and loops that call                                    *)

\* A statement that is no structural word is not in a line that begins with one.
LEMMA PlainWord ==
    ASSUME Tidy, NEW n \in Lines, NEW i \in DOMAIN program[n], program[n][i].op \notin Alone
    PROVE  /\ Keyword(n) \notin Alone /\ Keyword(n) \notin Opens \cup Closes
           /\ program[n][i].op # "return" => Keyword(n) # "return"
           /\ program[n][i] \in Stmts(n) /\ program[n][i].op \in Ops(n)
<1>1. 1 \in DOMAIN program[n] /\ DOMAIN program[n] = 1..Len(program[n])
  BY Text
<1>2. ASSUME Keyword(n) \in Alone \/ Keyword(n) = "return" PROVE i = 1
  <2>1. Len(program[n]) = 1
    BY <1>1, <1>2, Words DEF Keyword
  <2>2. QED BY <2>1, <1>1
<1>3. program[n][i] \in Stmts(n) /\ program[n][i].op \in Ops(n)
  BY DEF Stmts, Ops, ToSet
<1>4. Keyword(n) \notin Alone /\ (program[n][i].op # "return" => Keyword(n) # "return")
  BY <1>2 DEF Keyword
<1>5. Opens \cup Closes \subseteq Alone
  BY DEF Alone
<1>6. QED BY <1>3, <1>4, <1>5

\* What is called from a block is a call of the block.
LEMMA CallsIs ==
    ASSUME Tidy, NEW n \in Lines, NEW i \in DOMAIN program[n], program[n][i].op \in {"gosub", "call"},
           NEW c \in Enclosing(n, Opens)
    PROVE  Block(c) /\ Calls(c)
<1>1. n \in Nat /\ n \in Spots
  BY SpotsAre
<1>2. Block(c) /\ c \in Nat /\ c < n /\ n <= CloseOf(c)
  BY <1>1, Encloses
<1>3. CloseOf(c) \in Nat
  BY <1>2, BlockNat
<1>4. Keyword(n) \notin Opens \cup Closes /\ program[n][i].op \in Ops(n)
  BY PlainWord DEF Alone, Opens, Closes, Mids
<1>5. n # CloseOf(c)
  BY <1>2, <1>4, CloseIs
<1>6. n \in (c + 1)..(CloseOf(c) - 1)
  BY <1>1, <1>2, <1>3, <1>5
<1>7. Ops(n) \cap {"gosub", "call"} # {}
  BY <1>4
<1>8. QED BY <1>2, <1>6, <1>7 DEF Calls

\* Line n may run while a call is open.
Reached(n) == InRoutine(n) \/ \E e : Inside(n, e)

LEMMA ReachedIs ==
    ASSUME Tidy, NEW n \in Lines, Reached(n)
    PROVE  Called(n)
<1>1. ASSUME NEW e, Inside(n, e) PROVE InSub(n)
  <2>1. PICK s \in Lines : Keyword(s) = "sub" /\ SubEnd(s) = e /\ s < n /\ n < e
    BY <1>1 DEF Inside
  <2>2. s \in 1..(n - 1) /\ n <= SubEnd(s)
    BY <2>1, SubIs, Text
  <2>3. QED BY <2>1, <2>2 DEF InSub
<1>2. QED BY <1>1 DEF Reached, Called

\* A loop that calls does not have the variable of a loop that is called.
LEMMA LoopVars ==
    ASSUME Tidy, NEW c, Block(c), Keyword(c) \in ForWords, Calls(c),
           NEW d \in Lines, Keyword(d) \in ForWords, Reached(d)
    PROVE  Arg(c) # Arg(d)
<1>1. Called(d)
  BY ReachedIs
<1>2. QED BY <1>1 DEF Tidy, RoutinesApart, Block

\* If a DO is called, no DO calls.
LEMMA NoDoCalls ==
    ASSUME Tidy, NEW d, Block(d), Keyword(d) = "do", NEW n \in Lines, d <= n, n <= CloseOf(d), Reached(n),
           NEW c, Block(c), Keyword(c) = "do"
    PROVE  ~Calls(c)
<1>1. d \in Nat /\ d \in Lines /\ n \in Nat /\ CloseOf(d) \in Nat
  BY BlockNat, SpotsAre
<1>2. Stays(n, d)
  BY <1>1, StaysBlock, BlockNat
<1>3. InSub(d) \/ InRoutine(d)
  <2>1. ASSUME NEW e, Inside(n, e) PROVE InSub(d)
    <3>1. PICK s \in Lines : Keyword(s) = "sub" /\ SubEnd(s) = e /\ s < d /\ d <= e
      BY <1>2, <2>1 DEF Stays, UpTo
    <3>2. s \in 1..(d - 1) /\ d <= SubEnd(s)
      BY <3>1, <1>1, SubIs, Text
    <3>3. QED BY <3>1, <3>2 DEF InSub
  <2>2. d # Halt
    BY <1>1, Text DEF Halt
  <2>3. QED BY <2>1, <2>2, <1>2 DEF Reached, Stays
<1>4. Called(d)
  BY <1>3 DEF Called
<1>5. QED BY <1>1, <1>4 DEF Tidy, RoutinesApart, Block

\* A loop in a loop has another variable; its NEXT names it or no variable.
LEMMA ForVars ==
    ASSUME Tidy, NEW c \in Lines, Keyword(c) \in ForWords
    PROVE  /\ \A b \in Enclosing(c, ForWords) : Arg(c) # Arg(b)
           /\ Arg(CloseOf(c)) \in {"", Arg(c)}
BY Zenon DEF Tidy, Apart

\* EXIT FOR and EXIT DO are in a block of their kind.
LEMMA ExitIs ==
    ASSUME Tidy, NEW n \in Lines, NEW i \in DOMAIN program[n]
    PROVE  /\ program[n][i].op = "exitfor" => \E c : Within(n, c) /\ From(n, c) /\ Keyword(c) \in ForWords
           /\ program[n][i].op = "exitdo" => \E c : Within(n, c) /\ From(n, c) /\ Keyword(c) = "do"
<1>1. ASSUME program[n][i].op = "exitfor"
      PROVE  \E c : Within(n, c) /\ From(n, c) /\ Keyword(c) \in ForWords
  <2>1. Keyword(n) \notin Opens \cup Closes /\ "exitfor" \in Ops(n)
    BY <1>1, PlainWord DEF Alone, Opens, Closes, Mids
  <2>2. PICK c \in 1..(n - 1) : Keyword(c) \in ForWords /\ Within(n, c)
    BY <2>1 DEF Tidy, Nested, InA
  <2>3. QED BY <2>1, <2>2, FromWithin
<1>2. ASSUME program[n][i].op = "exitdo"
      PROVE  \E c : Within(n, c) /\ From(n, c) /\ Keyword(c) = "do"
  <2>1. Keyword(n) \notin Opens \cup Closes /\ "exitdo" \in Ops(n)
    BY <1>2, PlainWord DEF Alone, Opens, Closes, Mids
  <2>2. PICK c \in 1..(n - 1) : Keyword(c) \in {"do"} /\ Within(n, c)
    BY <2>1 DEF Tidy, Nested, InA
  <2>3. QED BY <2>1, <2>2, FromWithin
<1>3. QED BY <1>1, <1>2

\* RETURN and EXIT SUB are outside of all blocks, and so is the line after.
LEMMA OutsideIs ==
    ASSUME Tidy, NEW n \in Lines, NEW i \in DOMAIN program[n], program[n][i].op \in {"return", "exitsub"}
    PROVE  Around(n) = Outside /\ Around(n + 1) = Outside
<1>1. program[n][i] \in Stmts(n) /\ Keyword(n) \notin Opens \cup Closes
  BY PlainWord DEF Alone, Opens, Closes, Mids
<1>2. Enclosing(n, Opens) = {}
  BY <1>1 DEF Tidy, Level
<1>3. Around(n) = Outside
  BY <1>2, AroundNone, SpotsAre
<1>4. QED BY <1>1, <1>3, AroundPlain

-----------------------------------------------------------------------------
(* Stacks of frames                                                        *)

\* The top of a stack, what is left without it, and another top
LEMMA TopIs ==
    ASSUME NEW A, NEW s \in Seq(A), s # <<>>
    PROVE  /\ Len(s) \in Nat \ {0} /\ DOMAIN s = 1..Len(s) /\ Len(s) \in DOMAIN s
           /\ Top(s) \in A /\ Top(s) = s[Len(s)]
           /\ Pop(s) \in Seq(A) /\ Len(Pop(s)) = Len(s) - 1 /\ DOMAIN Pop(s) = 1..(Len(s) - 1)
           /\ \A i \in 1..(Len(s) - 1) : Pop(s)[i] = s[i]
<1>1. PICK n \in Nat : Len(s) = n /\ DOMAIN s = 1..n
  OBVIOUS
<1>2. n # 0
  BY <1>1, EmptySeq
<1>3. n \in 1..n /\ s[n] \in A
  BY <1>1, <1>2
<1> QED BY <1>1, <1>2, <1>3 DEF Top, Pop, Front

LEMMA PushPop ==
    ASSUME NEW A, NEW s \in Seq(A), NEW f \in A
    PROVE  Append(s, f) \in Seq(A) /\ Append(s, f) # <<>> /\ Pop(Append(s, f)) = s
<1> DEFINE t == Append(s, f)
<1>1. PICK n \in Nat : Len(s) = n /\ DOMAIN s = 1..n
  OBVIOUS
<1>2. t \in Seq(A) /\ Len(t) = n + 1 /\ \A i \in 1..n : t[i] = s[i]
  BY <1>1
<1> HIDE DEF t
<1>3. t # <<>>
  BY <1>1, <1>2
<1>4. (n + 1) - 1 = n
  OBVIOUS
<1>5. Pop(t) \in Seq(A) /\ Len(Pop(t)) = n /\ \A i \in 1..n : Pop(t)[i] = t[i]
  BY <1>2, <1>3, <1>4, TopIs
<1>6. Pop(t) = s
  BY <1>1, <1>2, <1>5
<1> QED BY <1>2, <1>3, <1>6 DEF t

LEMMA EditTop ==
    ASSUME NEW A, NEW s \in Seq(A), s # <<>>, NEW f \in A, NEW t, t = [s EXCEPT ![Len(s)] = f]
    PROVE  /\ t \in Seq(A) /\ Len(t) = Len(s) /\ t # <<>> /\ DOMAIN t = DOMAIN s
           /\ Top(t) = f /\ t[Len(s)] = f
           /\ \A i \in 1..Len(s) : i # Len(s) => t[i] = s[i]
<1>1. Len(s) \in 1..Len(s) /\ DOMAIN s = 1..Len(s)
  BY TopIs
<1>2. t \in Seq(A) /\ Len(t) = Len(s) /\ DOMAIN t = DOMAIN s
  BY <1>1
<1>3. t # <<>>
  BY <1>1, <1>2
<1>4. t[Len(s)] = f /\ \A i \in 1..Len(s) : i # Len(s) => t[i] = s[i]
  BY <1>1
<1> QED BY <1>2, <1>3, <1>4 DEF Top

\* What a stack holds: what was there before, then the frames of the blocks T
Kept(s, b) == Len(b) <= Len(s) /\ \A i \in DOMAIN b : s[i] = b[i]
Fit(s, b, lines, T) == Kept(s, b) /\ Lists(lines, Len(b), T)

\* A frame for a later line is put on.
LEMMA FitPush ==
    ASSUME NEW A, NEW s \in Seq(A), NEW b \in Seq(A), NEW f \in A,
           NEW k, DOMAIN k = DOMAIN s, NEW l, DOMAIN l = DOMAIN Append(s, f), \A i \in DOMAIN s : l[i] = k[i],
           NEW c \in Nat, l[Len(s) + 1] = c, NEW T \in SUBSET Nat, \A x \in T : x < c,
           Fit(s, b, k, T)
    PROVE  Fit(Append(s, f), b, l, T \cup {c})
<1>1. /\ Append(s, f) \in Seq(A) /\ Len(Append(s, f)) = Len(s) + 1 /\ Len(s) \in Nat /\ Len(b) \in Nat
      /\ DOMAIN s = 1..Len(s) /\ DOMAIN b = 1..Len(b) /\ DOMAIN l = 1..(Len(s) + 1)
      /\ \A i \in 1..Len(s) : Append(s, f)[i] = s[i]
  OBVIOUS
<1>2. Len(b) <= Len(s) /\ \A i \in 1..Len(b) : s[i] = b[i]
  BY <1>1 DEF Fit, Kept
<1>3. Kept(Append(s, f), b)
  BY <1>1, <1>2 DEF Kept
<1>4. /\ \A i \in 1..Len(s) : i > Len(b) => k[i] \in T
      /\ \A i, j \in 1..Len(s) : Len(b) < i /\ i < j => k[i] < k[j]
      /\ \A x \in T : \E i \in 1..Len(s) : Len(b) < i /\ k[i] = x
  BY <1>1 DEF Fit, Lists
<1>5. \A i \in 1..(Len(s) + 1) : i > Len(b) => l[i] \in T \cup {c}
  BY <1>1, <1>4
<1>6. ASSUME NEW i \in 1..(Len(s) + 1), NEW j \in 1..(Len(s) + 1), Len(b) < i, i < j
      PROVE  l[i] < l[j]
  <2>1. i \in 1..Len(s) /\ l[i] = k[i] /\ k[i] \in T
    BY <1>1, <1>4, <1>6
  <2>2. CASE j = Len(s) + 1
    BY <2>1, <2>2
  <2>3. CASE j # Len(s) + 1
    <3>1. j \in 1..Len(s) /\ l[j] = k[j]
      BY <1>1, <2>3
    <3> QED BY <3>1, <2>1, <1>4, <1>6
  <2> QED BY <2>2, <2>3
<1>7. ASSUME NEW x \in T \cup {c}
      PROVE  \E i \in 1..(Len(s) + 1) : Len(b) < i /\ l[i] = x
  <2>1. CASE x \in T
    <3>1. PICK i \in 1..Len(s) : Len(b) < i /\ k[i] = x
      BY <1>4, <2>1
    <3> QED BY <3>1, <1>1
  <2>2. CASE x = c
    BY <2>2, <1>1, <1>2
  <2> QED BY <2>1, <2>2
<1> QED BY <1>1, <1>3, <1>5, <1>6, <1>7 DEF Fit, Lists

\* The frame of the last block is on top, and can be taken off.
LEMMA FitPop ==
    ASSUME NEW A, NEW s \in Seq(A), NEW b \in Seq(A), NEW k, DOMAIN k = DOMAIN s,
           NEW c \in Nat, NEW T \in SUBSET Nat, \A x \in T : x < c,
           Fit(s, b, k, T \cup {c})
    PROVE  /\ s # <<>> /\ Len(b) < Len(s) /\ k[Len(s)] = c
           /\ \A l : DOMAIN l = DOMAIN Front(s) /\ (\A i \in DOMAIN l : l[i] = k[i])
                => Fit(Front(s), b, l, T)
<1>1. PICK n \in Nat, m \in Nat : Len(s) = n /\ Len(b) = m /\ DOMAIN s = 1..n /\ DOMAIN b = 1..m
  OBVIOUS
<1>2. m <= n /\ \A i \in 1..m : s[i] = b[i]
  BY <1>1 DEF Fit, Kept
<1>3. \A i \in 1..n : i > m => k[i] \in T \cup {c}
  BY <1>1 DEF Fit, Lists
<1>4. \A i, j \in 1..n : m < i /\ i < j => k[i] < k[j]
  BY <1>1 DEF Fit, Lists
<1>5. \A x \in T \cup {c} : \E i \in 1..n : m < i /\ k[i] = x
  BY <1>1 DEF Fit, Lists
<1>6. PICK i \in 1..n : m < i /\ k[i] = c
  BY <1>5
<1>7. i = n
  <2> SUFFICES ASSUME i # n PROVE FALSE
    OBVIOUS
  <2>1. n \in 1..n /\ i < n /\ m < n
    BY <1>6
  <2>2. k[i] < k[n] /\ k[n] \in T \cup {c}
    BY ONLY <2>1, <1>3, <1>4, <1>6, n \in Nat, m \in Nat
  <2>3. PICK d \in Nat : d = k[n] /\ (d < c \/ d = c)
    BY <2>2
  <2>4. c < d
    BY <2>2, <2>3, <1>6
  <2> QED BY ONLY <2>3, <2>4, c \in Nat, d \in Nat
<1>8. s # <<>> /\ m < n /\ k[n] = c
  BY <1>6, <1>7, <1>1
<1>9. /\ Front(s) \in Seq(A) /\ Len(Front(s)) = n - 1 /\ DOMAIN Front(s) = 1..(n - 1)
      /\ \A j \in 1..(n - 1) : Front(s)[j] = s[j]
  BY <1>8, <1>1 DEF Front
<1>10. \A j \in 1..n : j # n => j \in 1..(n - 1)
  OBVIOUS
<1>11. \A j \in 1..(n - 1) : j \in 1..n /\ j < n
  OBVIOUS
<1>12. n \in 1..n
  BY <1>8
<1>13. ASSUME NEW l, DOMAIN l = DOMAIN Front(s), \A j \in DOMAIN l : l[j] = k[j]
       PROVE  Fit(Front(s), b, l, T)
  <2>1. Kept(Front(s), b)
    BY <1>9, <1>8, <1>2, <1>1 DEF Kept
  <2>2. ASSUME NEW j \in 1..(n - 1), j > m PROVE l[j] \in T
    <3>1. k[j] < k[n]
      BY ONLY <1>4, <1>11, <1>12, <2>2, m \in Nat, n \in Nat
    <3>2. k[j] \in T \cup {c} /\ l[j] = k[j]
      BY <1>3, <1>11, <1>9, <1>13, <2>2
    <3> QED BY <3>1, <3>2, <1>8
  <2>3. ASSUME NEW h \in 1..(n - 1), NEW j \in 1..(n - 1), m < h, h < j PROVE l[h] < l[j]
    <3>1. k[h] < k[j]
      BY <1>4, <1>11, <2>3
    <3> QED BY <3>1, <1>9, <1>13
  <2>4. ASSUME NEW x \in T PROVE \E j \in 1..(n - 1) : m < j /\ l[j] = x
    <3>1. PICK j \in 1..n : m < j /\ k[j] = x
      BY <1>5
    <3>2. j # n /\ j \in 1..(n - 1)
      BY <3>1, <1>8, <1>10
    <3> QED BY <3>1, <3>2, <1>13, <1>9
  <2> QED BY <2>1, <2>2, <2>3, <2>4, <1>1, <1>9, <1>13 DEF Fit, Lists
<1> QED BY <1>8, <1>1, <1>13

\* The frame of the last block is changed.
LEMMA FitTop ==
    ASSUME NEW A, NEW s \in Seq(A), NEW b \in Seq(A), NEW k, NEW T, Fit(s, b, k, T), Len(b) < Len(s),
           NEW t \in Seq(A), Len(t) = Len(s), \A i \in 1..Len(s) : i # Len(s) => t[i] = s[i]
    PROVE  Fit(t, b, k, T)
<1>1. PICK n \in Nat, m \in Nat : Len(s) = n /\ Len(b) = m /\ DOMAIN s = 1..n /\ DOMAIN b = 1..m
  OBVIOUS
<1>2. m < n /\ \A i \in 1..m : s[i] = b[i] /\ i \in 1..n /\ i # n
  BY <1>1 DEF Fit, Kept
<1>3. Kept(t, b)
  BY <1>1, <1>2 DEF Kept
<1> QED BY <1>3 DEF Fit

\* No blocks, no more frames
LEMMA FitNone ==
    ASSUME NEW A, NEW s \in Seq(A), NEW b \in Seq(A), NEW k, DOMAIN k = DOMAIN s
    PROVE  /\ Fit(s, b, k, {}) => s = b
           /\ Fit(s, s, k, {})
<1>1. Len(s) \in Nat /\ Len(b) \in Nat /\ DOMAIN s = 1..Len(s) /\ DOMAIN b = 1..Len(b)
  OBVIOUS
<1>2. ASSUME Fit(s, b, k, {}) PROVE s = b
  <2>1. PICK n \in Nat, m \in Nat : Len(s) = n /\ Len(b) = m
    OBVIOUS
  <2>2. m <= n /\ (\A i \in 1..m : s[i] = b[i]) /\ \A i \in 1..n : ~(i > m)
    BY <1>1, <1>2, <2>1 DEF Fit, Kept, Lists
  <2>3. n = m
    BY ONLY <2>2, n \in Nat, m \in Nat
  <2> QED BY <2>1, <2>2, <2>3, SeqEqual
<1>3. Fit(s, s, k, {})
  BY <1>1 DEF Fit, Kept, Lists
<1> QED BY <1>2, <1>3

-----------------------------------------------------------------------------
(* The stacks of the kinds of block                                        *)

ForFrames == [var : STRING, is_match : BOOLEAN, body_line : Nat]
WhileFrames == [cond_line : Nat]
IfFrames == [taken : BOOLEAN, if_line : Nat]
SelectFrames == [matched : BOOLEAN, select_line : Nat]
DoFrames == [do_line : Nat, pre : BOOLEAN]
Marked(s) == [s EXCEPT ![Len(s)].taken = TRUE]
Matched(s) == [s EXCEPT ![Len(s)].matched = TRUE]

LEMMA ForFit ==
    ASSUME NEW s \in Seq(ForFrames), NEW b \in Seq(ForFrames), NEW c \in Nat,
           NEW T \in SUBSET Nat, \A x \in T : x < c
    PROVE  /\ \A f \in ForFrames : f.body_line = c + 1 /\ Fit(s, b, ForLines(s), T)
                => Fit(Append(s, f), b, ForLines(Append(s, f)), T \cup {c})
           /\ Fit(s, b, ForLines(s), T \cup {c})
                => /\ s # <<>> /\ Top(s).body_line = c + 1
                   /\ Fit(Pop(s), b, ForLines(Pop(s)), T)
<1>1. DOMAIN ForLines(s) = DOMAIN s /\ Len(s) \in Nat /\ DOMAIN s = 1..Len(s)
  BY DEF ForLines
<1>2. ASSUME NEW f \in ForFrames, f.body_line = c + 1, Fit(s, b, ForLines(s), T)
      PROVE  Fit(Append(s, f), b, ForLines(Append(s, f)), T \cup {c})
  <2>1. DOMAIN ForLines(Append(s, f)) = DOMAIN Append(s, f)
    BY DEF ForLines
  <2>2. \A i \in DOMAIN s : ForLines(Append(s, f))[i] = ForLines(s)[i]
    BY DEF ForLines
  <2>3. ForLines(Append(s, f))[Len(s) + 1] = c
    <3>1. Len(s) + 1 \in DOMAIN Append(s, f) /\ Append(s, f)[Len(s) + 1] = f
      BY <1>1
    <3>2. f.body_line - 1 = c
      BY <1>2
    <3> QED BY <3>1, <3>2 DEF ForLines
  <2> QED BY ONLY <1>1, <1>2, <2>1, <2>2, <2>3, FitPush, s \in Seq(ForFrames), b \in Seq(ForFrames),
             c \in Nat, T \in SUBSET Nat, \A x \in T : x < c
<1>3. ASSUME Fit(s, b, ForLines(s), T \cup {c})
      PROVE  s # <<>> /\ Top(s).body_line = c + 1 /\ Fit(Pop(s), b, ForLines(Pop(s)), T)
  <2>1. /\ s # <<>> /\ ForLines(s)[Len(s)] = c
        /\ \A l : DOMAIN l = DOMAIN Front(s) /\ (\A i \in DOMAIN l : l[i] = ForLines(s)[i])
             => Fit(Front(s), b, l, T)
    BY ONLY <1>1, <1>3, FitPop, s \in Seq(ForFrames), b \in Seq(ForFrames), c \in Nat,
       T \in SUBSET Nat, \A x \in T : x < c
  <2>2. Len(s) \in DOMAIN s /\ Top(s).body_line \in Nat
    <3>1. Len(s) \in DOMAIN s /\ Top(s) \in ForFrames
      BY <2>1, TopIs
    <3> QED BY <3>1 DEF ForFrames
  <2>3. Top(s).body_line = c + 1
    BY <2>1, <2>2 DEF ForLines, Top
  <2>4. DOMAIN ForLines(Front(s)) = DOMAIN Front(s)
    BY DEF ForLines
  <2>5. \A i \in DOMAIN Front(s) : ForLines(Front(s))[i] = ForLines(s)[i]
    BY <2>1, <1>1 DEF ForLines, Front
  <2>6. Fit(Front(s), b, ForLines(Front(s)), T)
    BY <2>1, <2>4, <2>5
  <2> QED BY <2>1, <2>3, <2>6 DEF Pop
<1> QED BY <1>2, <1>3

LEMMA WhileFit ==
    ASSUME NEW s \in Seq(WhileFrames), NEW b \in Seq(WhileFrames), NEW c \in Nat,
           NEW T \in SUBSET Nat, \A x \in T : x < c
    PROVE  /\ \A f \in WhileFrames : f.cond_line = c /\ Fit(s, b, WhileLines(s), T)
                => Fit(Append(s, f), b, WhileLines(Append(s, f)), T \cup {c})
           /\ Fit(s, b, WhileLines(s), T \cup {c})
                => /\ s # <<>> /\ Top(s).cond_line = c
                   /\ Fit(Pop(s), b, WhileLines(Pop(s)), T)
<1>1. DOMAIN WhileLines(s) = DOMAIN s /\ Len(s) \in Nat /\ DOMAIN s = 1..Len(s)
  BY DEF WhileLines
<1>2. ASSUME NEW f \in WhileFrames, f.cond_line = c, Fit(s, b, WhileLines(s), T)
      PROVE  Fit(Append(s, f), b, WhileLines(Append(s, f)), T \cup {c})
  <2>1. DOMAIN WhileLines(Append(s, f)) = DOMAIN Append(s, f)
    BY DEF WhileLines
  <2>2. \A i \in DOMAIN s : WhileLines(Append(s, f))[i] = WhileLines(s)[i]
    BY DEF WhileLines
  <2>3. WhileLines(Append(s, f))[Len(s) + 1] = c
    BY <1>1, <1>2 DEF WhileLines
  <2> QED BY ONLY <1>1, <1>2, <2>1, <2>2, <2>3, FitPush, s \in Seq(WhileFrames), b \in Seq(WhileFrames),
             c \in Nat, T \in SUBSET Nat, \A x \in T : x < c
<1>3. ASSUME Fit(s, b, WhileLines(s), T \cup {c})
      PROVE  s # <<>> /\ Top(s).cond_line = c /\ Fit(Pop(s), b, WhileLines(Pop(s)), T)
  <2>1. /\ s # <<>> /\ WhileLines(s)[Len(s)] = c
        /\ \A l : DOMAIN l = DOMAIN Front(s) /\ (\A i \in DOMAIN l : l[i] = WhileLines(s)[i])
             => Fit(Front(s), b, l, T)
    BY ONLY <1>1, <1>3, FitPop, s \in Seq(WhileFrames), b \in Seq(WhileFrames), c \in Nat,
       T \in SUBSET Nat, \A x \in T : x < c
  <2>3. Top(s).cond_line = c
    BY <2>1, <1>1 DEF WhileLines, Top
  <2>4. DOMAIN WhileLines(Front(s)) = DOMAIN Front(s)
    BY DEF WhileLines
  <2>5. \A i \in DOMAIN Front(s) : WhileLines(Front(s))[i] = WhileLines(s)[i]
    BY <2>1, <1>1 DEF WhileLines, Front
  <2>6. Fit(Front(s), b, WhileLines(Front(s)), T)
    BY <2>1, <2>4, <2>5
  <2> QED BY <2>1, <2>3, <2>6 DEF Pop
<1> QED BY <1>2, <1>3

LEMMA IfFit ==
    ASSUME NEW s \in Seq(IfFrames), NEW b \in Seq(IfFrames), NEW c \in Nat,
           NEW T \in SUBSET Nat, \A x \in T : x < c
    PROVE  /\ \A f \in IfFrames : f.if_line = c /\ Fit(s, b, IfLines(s), T)
                => Fit(Append(s, f), b, IfLines(Append(s, f)), T \cup {c})
           /\ Fit(s, b, IfLines(s), T \cup {c})
                => /\ s # <<>> /\ Top(s).if_line = c
                   /\ Fit(Pop(s), b, IfLines(Pop(s)), T)
<1>1. DOMAIN IfLines(s) = DOMAIN s /\ Len(s) \in Nat /\ DOMAIN s = 1..Len(s)
  BY DEF IfLines
<1>2. ASSUME NEW f \in IfFrames, f.if_line = c, Fit(s, b, IfLines(s), T)
      PROVE  Fit(Append(s, f), b, IfLines(Append(s, f)), T \cup {c})
  <2>1. DOMAIN IfLines(Append(s, f)) = DOMAIN Append(s, f)
    BY DEF IfLines
  <2>2. \A i \in DOMAIN s : IfLines(Append(s, f))[i] = IfLines(s)[i]
    BY DEF IfLines
  <2>3. IfLines(Append(s, f))[Len(s) + 1] = c
    BY <1>1, <1>2 DEF IfLines
  <2> QED BY ONLY <1>1, <1>2, <2>1, <2>2, <2>3, FitPush, s \in Seq(IfFrames), b \in Seq(IfFrames),
             c \in Nat, T \in SUBSET Nat, \A x \in T : x < c
<1>3. ASSUME Fit(s, b, IfLines(s), T \cup {c})
      PROVE  s # <<>> /\ Top(s).if_line = c /\ Fit(Pop(s), b, IfLines(Pop(s)), T)
  <2>1. /\ s # <<>> /\ IfLines(s)[Len(s)] = c
        /\ \A l : DOMAIN l = DOMAIN Front(s) /\ (\A i \in DOMAIN l : l[i] = IfLines(s)[i])
             => Fit(Front(s), b, l, T)
    BY ONLY <1>1, <1>3, FitPop, s \in Seq(IfFrames), b \in Seq(IfFrames), c \in Nat,
       T \in SUBSET Nat, \A x \in T : x < c
  <2>3. Top(s).if_line = c
    BY <2>1, <1>1 DEF IfLines, Top
  <2>4. DOMAIN IfLines(Front(s)) = DOMAIN Front(s)
    BY DEF IfLines
  <2>5. \A i \in DOMAIN Front(s) : IfLines(Front(s))[i] = IfLines(s)[i]
    BY <2>1, <1>1 DEF IfLines, Front
  <2>6. Fit(Front(s), b, IfLines(Front(s)), T)
    BY <2>1, <2>4, <2>5
  <2> QED BY <2>1, <2>3, <2>6 DEF Pop
<1> QED BY <1>2, <1>3

LEMMA IfMark ==
    ASSUME NEW s \in Seq(IfFrames), NEW b \in Seq(IfFrames), NEW c \in Nat,
           NEW T \in SUBSET Nat, \A x \in T : x < c, Fit(s, b, IfLines(s), T \cup {c})
    PROVE  Marked(s) \in Seq(IfFrames) /\ Fit(Marked(s), b, IfLines(Marked(s)), T \cup {c})
<1>1. DOMAIN IfLines(s) = DOMAIN s /\ Len(s) \in Nat /\ DOMAIN s = 1..Len(s)
  BY DEF IfLines
<1>2. s # <<>> /\ Len(b) < Len(s)
  BY ONLY <1>1, FitPop, s \in Seq(IfFrames), b \in Seq(IfFrames), c \in Nat,
     T \in SUBSET Nat, \A x \in T : x < c, Fit(s, b, IfLines(s), T \cup {c})
<1> DEFINE f == [s[Len(s)] EXCEPT !.taken = TRUE]
           t == Marked(s)
<1>3. f \in IfFrames /\ f.if_line = s[Len(s)].if_line
  <2>1. s[Len(s)] \in IfFrames
    BY <1>2, TopIs
  <2> QED BY <2>1 DEF IfFrames
<1>4. t = [s EXCEPT ![Len(s)] = f]
  BY DEF Marked
<1> HIDE DEF f, t
<1>5. /\ t \in Seq(IfFrames) /\ Len(t) = Len(s) /\ DOMAIN t = DOMAIN s /\ t[Len(s)] = f
      /\ \A i \in 1..Len(s) : i # Len(s) => t[i] = s[i]
  BY <1>2, <1>3, <1>4, EditTop
<1>6. IfLines(t) = IfLines(s)
  BY <1>3, <1>5, <1>1 DEF IfLines
<1>7. Fit(t, b, IfLines(s), T \cup {c})
  BY ONLY <1>2, <1>5, FitTop, s \in Seq(IfFrames), b \in Seq(IfFrames), Fit(s, b, IfLines(s), T \cup {c})
<1> QED BY <1>5, <1>6, <1>7 DEF t

LEMMA SelectFit ==
    ASSUME NEW s \in Seq(SelectFrames), NEW b \in Seq(SelectFrames), NEW c \in Nat,
           NEW T \in SUBSET Nat, \A x \in T : x < c
    PROVE  /\ \A f \in SelectFrames : f.select_line = c /\ Fit(s, b, SelectLines(s), T)
                => Fit(Append(s, f), b, SelectLines(Append(s, f)), T \cup {c})
           /\ Fit(s, b, SelectLines(s), T \cup {c})
                => /\ s # <<>> /\ Top(s).select_line = c
                   /\ Fit(Pop(s), b, SelectLines(Pop(s)), T)
<1>1. DOMAIN SelectLines(s) = DOMAIN s /\ Len(s) \in Nat /\ DOMAIN s = 1..Len(s)
  BY DEF SelectLines
<1>2. ASSUME NEW f \in SelectFrames, f.select_line = c, Fit(s, b, SelectLines(s), T)
      PROVE  Fit(Append(s, f), b, SelectLines(Append(s, f)), T \cup {c})
  <2>1. DOMAIN SelectLines(Append(s, f)) = DOMAIN Append(s, f)
    BY DEF SelectLines
  <2>2. \A i \in DOMAIN s : SelectLines(Append(s, f))[i] = SelectLines(s)[i]
    BY DEF SelectLines
  <2>3. SelectLines(Append(s, f))[Len(s) + 1] = c
    BY <1>1, <1>2 DEF SelectLines
  <2> QED BY ONLY <1>1, <1>2, <2>1, <2>2, <2>3, FitPush, s \in Seq(SelectFrames), b \in Seq(SelectFrames),
             c \in Nat, T \in SUBSET Nat, \A x \in T : x < c
<1>3. ASSUME Fit(s, b, SelectLines(s), T \cup {c})
      PROVE  s # <<>> /\ Top(s).select_line = c /\ Fit(Pop(s), b, SelectLines(Pop(s)), T)
  <2>1. /\ s # <<>> /\ SelectLines(s)[Len(s)] = c
        /\ \A l : DOMAIN l = DOMAIN Front(s) /\ (\A i \in DOMAIN l : l[i] = SelectLines(s)[i])
             => Fit(Front(s), b, l, T)
    BY ONLY <1>1, <1>3, FitPop, s \in Seq(SelectFrames), b \in Seq(SelectFrames), c \in Nat,
       T \in SUBSET Nat, \A x \in T : x < c
  <2>3. Top(s).select_line = c
    BY <2>1, <1>1 DEF SelectLines, Top
  <2>4. DOMAIN SelectLines(Front(s)) = DOMAIN Front(s)
    BY DEF SelectLines
  <2>5. \A i \in DOMAIN Front(s) : SelectLines(Front(s))[i] = SelectLines(s)[i]
    BY <2>1, <1>1 DEF SelectLines, Front
  <2>6. Fit(Front(s), b, SelectLines(Front(s)), T)
    BY <2>1, <2>4, <2>5
  <2> QED BY <2>1, <2>3, <2>6 DEF Pop
<1> QED BY <1>2, <1>3

LEMMA SelectMark ==
    ASSUME NEW s \in Seq(SelectFrames), NEW b \in Seq(SelectFrames), NEW c \in Nat,
           NEW T \in SUBSET Nat, \A x \in T : x < c, Fit(s, b, SelectLines(s), T \cup {c})
    PROVE  Matched(s) \in Seq(SelectFrames) /\ Fit(Matched(s), b, SelectLines(Matched(s)), T \cup {c})
<1>1. DOMAIN SelectLines(s) = DOMAIN s /\ Len(s) \in Nat /\ DOMAIN s = 1..Len(s)
  BY DEF SelectLines
<1>2. s # <<>> /\ Len(b) < Len(s)
  BY ONLY <1>1, FitPop, s \in Seq(SelectFrames), b \in Seq(SelectFrames), c \in Nat,
     T \in SUBSET Nat, \A x \in T : x < c, Fit(s, b, SelectLines(s), T \cup {c})
<1> DEFINE f == [s[Len(s)] EXCEPT !.matched = TRUE]
           t == Matched(s)
<1>3. f \in SelectFrames /\ f.select_line = s[Len(s)].select_line
  <2>1. s[Len(s)] \in SelectFrames
    BY <1>2, TopIs
  <2> QED BY <2>1 DEF SelectFrames
<1>4. t = [s EXCEPT ![Len(s)] = f]
  BY DEF Matched
<1> HIDE DEF f, t
<1>5. /\ t \in Seq(SelectFrames) /\ Len(t) = Len(s) /\ DOMAIN t = DOMAIN s /\ t[Len(s)] = f
      /\ \A i \in 1..Len(s) : i # Len(s) => t[i] = s[i]
  BY <1>2, <1>3, <1>4, EditTop
<1>6. SelectLines(t) = SelectLines(s)
  BY <1>3, <1>5, <1>1 DEF SelectLines
<1>7. Fit(t, b, SelectLines(s), T \cup {c})
  BY ONLY <1>2, <1>5, FitTop, s \in Seq(SelectFrames), b \in Seq(SelectFrames), Fit(s, b, SelectLines(s), T \cup {c})
<1> QED BY <1>5, <1>6, <1>7 DEF t

-----------------------------------------------------------------------------
(* The stacks together                                                     *)

\* What has been saved for a return: stacks again
Stored(b) == /\ b.fors \in Seq(ForFrames) /\ b.whiles \in Seq(WhileFrames)
             /\ b.ifs \in Seq(IfFrames) /\ b.selects \in Seq(SelectFrames)

\* Above those of b, the stacks hold the blocks B.
Fits(f, w, i, s, b, B) ==
    /\ Fit(f, b.fors, ForLines(f), B.fors) /\ Fit(w, b.whiles, WhileLines(w), B.whiles)
    /\ Fit(i, b.ifs, IfLines(i), B.ifs) /\ Fit(s, b.selects, SelectLines(s), B.selects)
\* The top of do_stack_ is the innermost DO.
DoTop(d, B) == B.dos # {} => d # <<>> /\ \A c \in B.dos : Top(d).do_line = c

\* What a block adds to those around it, kind by kind
LEMMA AroundParts ==
    ASSUME Tidy, NEW c, Block(c)
    PROVE  /\ c \in Nat
           /\ Around(c).fors \in SUBSET Nat /\ \A x \in Around(c).fors : x < c
           /\ Around(c).whiles \in SUBSET Nat /\ \A x \in Around(c).whiles : x < c
           /\ Around(c).ifs \in SUBSET Nat /\ \A x \in Around(c).ifs : x < c
           /\ Around(c).selects \in SUBSET Nat /\ \A x \in Around(c).selects : x < c
           /\ Around(c + 1).fors = IF Keyword(c) \in ForWords THEN Around(c).fors \cup {c} ELSE Around(c).fors
           /\ Around(c + 1).whiles = IF Keyword(c) = "while" THEN Around(c).whiles \cup {c} ELSE Around(c).whiles
           /\ Around(c + 1).ifs = IF Keyword(c) = "if" THEN Around(c).ifs \cup {c} ELSE Around(c).ifs
           /\ Around(c + 1).selects = IF Keyword(c) = "select" THEN Around(c).selects \cup {c} ELSE Around(c).selects
           /\ Around(c + 1).dos = IF Keyword(c) = "do" THEN Around(c).dos \cup {c} ELSE Around(c).dos
<1>1. c \in Nat
  BY BlockNat
<1>2. /\ \A m \in Around(c).fors : m \in Nat /\ m < c
      /\ \A m \in Around(c).whiles : m \in Nat /\ m < c
      /\ \A m \in Around(c).ifs : m \in Nat /\ m < c
      /\ \A m \in Around(c).selects : m \in Nat /\ m < c
  BY AroundBelow
<1>3. \A ops \in SUBSET Opens : Enclosing(c + 1, ops) = Enclosing(c, ops) \cup (IF Keyword(c) \in ops THEN {c} ELSE {})
  BY AfterOpen
<1>4. Around(c + 1).fors = IF Keyword(c) \in ForWords THEN Around(c).fors \cup {c} ELSE Around(c).fors
  BY <1>3, KindWords DEF Around
<1>5. Around(c + 1).whiles = IF Keyword(c) = "while" THEN Around(c).whiles \cup {c} ELSE Around(c).whiles
  BY <1>3, KindWords DEF Around
<1>6. Around(c + 1).ifs = IF Keyword(c) = "if" THEN Around(c).ifs \cup {c} ELSE Around(c).ifs
  BY <1>3, KindWords DEF Around
<1>7. Around(c + 1).selects = IF Keyword(c) = "select" THEN Around(c).selects \cup {c} ELSE Around(c).selects
  BY <1>3, KindWords DEF Around
<1>8. Around(c + 1).dos = IF Keyword(c) = "do" THEN Around(c).dos \cup {c} ELSE Around(c).dos
  BY <1>3, KindWords DEF Around
<1> QED BY <1>1, <1>2, <1>4, <1>5, <1>6, <1>7, <1>8

LEMMA ForFits ==
    ASSUME Tidy, NEW c, Block(c), Keyword(c) \in ForWords, NEW b, Stored(b),
           NEW f \in Seq(ForFrames), NEW w, NEW i, NEW s
    PROVE  /\ \A fr \in ForFrames : fr.body_line = c + 1 /\ Fits(f, w, i, s, b, Around(c))
                => Fits(Append(f, fr), w, i, s, b, Around(c + 1))
           /\ Fits(f, w, i, s, b, Around(c + 1))
                => f # <<>> /\ Top(f).body_line = c + 1 /\ Fits(Pop(f), w, i, s, b, Around(c))
<1>1. /\ Keyword(c) # "while" /\ Keyword(c) # "if" /\ Keyword(c) # "select"
  BY DEF ForWords
<1>2. /\ Around(c + 1).fors = Around(c).fors \cup {c} /\ Around(c + 1).whiles = Around(c).whiles
      /\ Around(c + 1).ifs = Around(c).ifs /\ Around(c + 1).selects = Around(c).selects
      /\ c \in Nat /\ Around(c).fors \in SUBSET Nat /\ \A x \in Around(c).fors : x < c
  BY <1>1, AroundParts
<1>3. b.fors \in Seq(ForFrames)
  BY DEF Stored
<1> DEFINE T == Around(c).fors
           e == b.fors
<1>4. c \in Nat /\ T \in SUBSET Nat /\ (\A x \in T : x < c) /\ e \in Seq(ForFrames)
  BY <1>2, <1>3
<1> HIDE DEF T, e
<1>5. /\ \A fr \in ForFrames : fr.body_line = c + 1 /\ Fit(f, e, ForLines(f), T)
           => Fit(Append(f, fr), e, ForLines(Append(f, fr)), T \cup {c})
      /\ Fit(f, e, ForLines(f), T \cup {c})
           => f # <<>> /\ Top(f).body_line = c + 1 /\ Fit(Pop(f), e, ForLines(Pop(f)), T)
  BY ONLY <1>4, ForFit, f \in Seq(ForFrames)
<1>6. /\ \A fr \in ForFrames : fr.body_line = c + 1 /\ Fit(f, b.fors, ForLines(f), Around(c).fors)
           => Fit(Append(f, fr), b.fors, ForLines(Append(f, fr)), Around(c).fors \cup {c})
      /\ Fit(f, b.fors, ForLines(f), Around(c).fors \cup {c})
           => f # <<>> /\ Top(f).body_line = c + 1 /\ Fit(Pop(f), b.fors, ForLines(Pop(f)), Around(c).fors)
  BY <1>5 DEF T, e
<1> QED BY <1>2, <1>6 DEF Fits

LEMMA WhileFits ==
    ASSUME Tidy, NEW c, Block(c), Keyword(c) = "while", NEW b, Stored(b),
           NEW f, NEW w \in Seq(WhileFrames), NEW i, NEW s
    PROVE  /\ \A fr \in WhileFrames : fr.cond_line = c /\ Fits(f, w, i, s, b, Around(c))
                => Fits(f, Append(w, fr), i, s, b, Around(c + 1))
           /\ Fits(f, w, i, s, b, Around(c + 1))
                => w # <<>> /\ Top(w).cond_line = c /\ Fits(f, Pop(w), i, s, b, Around(c))
<1>1. Keyword(c) \notin ForWords /\ Keyword(c) # "if" /\ Keyword(c) # "select"
  BY DEF ForWords
<1>2. /\ Around(c + 1).fors = Around(c).fors /\ Around(c + 1).whiles = Around(c).whiles \cup {c}
      /\ Around(c + 1).ifs = Around(c).ifs /\ Around(c + 1).selects = Around(c).selects
      /\ c \in Nat /\ Around(c).whiles \in SUBSET Nat /\ \A x \in Around(c).whiles : x < c
  BY <1>1, AroundParts
<1>3. b.whiles \in Seq(WhileFrames)
  BY DEF Stored
<1> DEFINE T == Around(c).whiles
           e == b.whiles
<1>4. c \in Nat /\ T \in SUBSET Nat /\ (\A x \in T : x < c) /\ e \in Seq(WhileFrames)
  BY <1>2, <1>3
<1> HIDE DEF T, e
<1>5. /\ \A fr \in WhileFrames : fr.cond_line = c /\ Fit(w, e, WhileLines(w), T)
           => Fit(Append(w, fr), e, WhileLines(Append(w, fr)), T \cup {c})
      /\ Fit(w, e, WhileLines(w), T \cup {c})
           => w # <<>> /\ Top(w).cond_line = c /\ Fit(Pop(w), e, WhileLines(Pop(w)), T)
  BY ONLY <1>4, WhileFit, w \in Seq(WhileFrames)
<1>6. /\ \A fr \in WhileFrames : fr.cond_line = c /\ Fit(w, b.whiles, WhileLines(w), Around(c).whiles)
           => Fit(Append(w, fr), b.whiles, WhileLines(Append(w, fr)), Around(c).whiles \cup {c})
      /\ Fit(w, b.whiles, WhileLines(w), Around(c).whiles \cup {c})
           => w # <<>> /\ Top(w).cond_line = c /\ Fit(Pop(w), b.whiles, WhileLines(Pop(w)), Around(c).whiles)
  BY <1>5 DEF T, e
<1> QED BY <1>2, <1>6 DEF Fits

LEMMA IfFits ==
    ASSUME Tidy, NEW c, Block(c), Keyword(c) = "if", NEW b, Stored(b),
           NEW f, NEW w, NEW i \in Seq(IfFrames), NEW s
    PROVE  /\ \A fr \in IfFrames : fr.if_line = c /\ Fits(f, w, i, s, b, Around(c))
                => Fits(f, w, Append(i, fr), s, b, Around(c + 1))
           /\ Fits(f, w, i, s, b, Around(c + 1))
                => /\ i # <<>> /\ Fits(f, w, Pop(i), s, b, Around(c))
                   /\ Marked(i) \in Seq(IfFrames) /\ Fits(f, w, Marked(i), s, b, Around(c + 1))
<1>1. Keyword(c) \notin ForWords /\ Keyword(c) # "while" /\ Keyword(c) # "select"
  BY DEF ForWords
<1>2. /\ Around(c + 1).fors = Around(c).fors /\ Around(c + 1).whiles = Around(c).whiles
      /\ Around(c + 1).ifs = Around(c).ifs \cup {c} /\ Around(c + 1).selects = Around(c).selects
      /\ c \in Nat /\ Around(c).ifs \in SUBSET Nat /\ \A x \in Around(c).ifs : x < c
  BY <1>1, AroundParts
<1>3. b.ifs \in Seq(IfFrames)
  BY DEF Stored
<1> DEFINE T == Around(c).ifs
           e == b.ifs
<1>4. c \in Nat /\ T \in SUBSET Nat /\ (\A x \in T : x < c) /\ e \in Seq(IfFrames)
  BY <1>2, <1>3
<1> HIDE DEF T, e
<1>5. ASSUME NEW fr \in IfFrames, fr.if_line = c, Fit(i, e, IfLines(i), T)
      PROVE  Fit(Append(i, fr), e, IfLines(Append(i, fr)), T \cup {c})
  BY ONLY <1>4, <1>5, IfFit, i \in Seq(IfFrames)
<1>6. ASSUME Fit(i, e, IfLines(i), T \cup {c})
      PROVE  /\ i # <<>> /\ Fit(Pop(i), e, IfLines(Pop(i)), T)
             /\ Marked(i) \in Seq(IfFrames) /\ Fit(Marked(i), e, IfLines(Marked(i)), T \cup {c})
  BY ONLY <1>4, <1>6, IfFit, IfMark, i \in Seq(IfFrames)
<1>7. /\ \A fr \in IfFrames : fr.if_line = c /\ Fit(i, b.ifs, IfLines(i), Around(c).ifs)
           => Fit(Append(i, fr), b.ifs, IfLines(Append(i, fr)), Around(c).ifs \cup {c})
      /\ Fit(i, b.ifs, IfLines(i), Around(c).ifs \cup {c})
           => /\ i # <<>> /\ Fit(Pop(i), b.ifs, IfLines(Pop(i)), Around(c).ifs)
              /\ Marked(i) \in Seq(IfFrames) /\ Fit(Marked(i), b.ifs, IfLines(Marked(i)), Around(c).ifs \cup {c})
  BY <1>5, <1>6 DEF T, e
<1> QED BY <1>2, <1>7 DEF Fits

LEMMA SelectFits ==
    ASSUME Tidy, NEW c, Block(c), Keyword(c) = "select", NEW b, Stored(b),
           NEW f, NEW w, NEW i, NEW s \in Seq(SelectFrames)
    PROVE  /\ \A fr \in SelectFrames : fr.select_line = c /\ Fits(f, w, i, s, b, Around(c))
                => Fits(f, w, i, Append(s, fr), b, Around(c + 1))
           /\ Fits(f, w, i, s, b, Around(c + 1))
                => /\ s # <<>> /\ Top(s).select_line = c /\ Fits(f, w, i, Pop(s), b, Around(c))
                   /\ Matched(s) \in Seq(SelectFrames) /\ Fits(f, w, i, Matched(s), b, Around(c + 1))
<1>1. Keyword(c) \notin ForWords /\ Keyword(c) # "while" /\ Keyword(c) # "if"
  BY DEF ForWords
<1>2. /\ Around(c + 1).fors = Around(c).fors /\ Around(c + 1).whiles = Around(c).whiles
      /\ Around(c + 1).ifs = Around(c).ifs /\ Around(c + 1).selects = Around(c).selects \cup {c}
      /\ c \in Nat /\ Around(c).selects \in SUBSET Nat /\ \A x \in Around(c).selects : x < c
  BY <1>1, AroundParts
<1>3. b.selects \in Seq(SelectFrames)
  BY DEF Stored
<1> DEFINE T == Around(c).selects
           e == b.selects
<1>4. c \in Nat /\ T \in SUBSET Nat /\ (\A x \in T : x < c) /\ e \in Seq(SelectFrames)
  BY <1>2, <1>3
<1> HIDE DEF T, e
<1>5. ASSUME NEW fr \in SelectFrames, fr.select_line = c, Fit(s, e, SelectLines(s), T)
      PROVE  Fit(Append(s, fr), e, SelectLines(Append(s, fr)), T \cup {c})
  BY ONLY <1>4, <1>5, SelectFit, s \in Seq(SelectFrames)
<1>6. ASSUME Fit(s, e, SelectLines(s), T \cup {c})
      PROVE  /\ s # <<>> /\ Top(s).select_line = c /\ Fit(Pop(s), e, SelectLines(Pop(s)), T)
             /\ Matched(s) \in Seq(SelectFrames) /\ Fit(Matched(s), e, SelectLines(Matched(s)), T \cup {c})
  BY ONLY <1>4, <1>6, SelectFit, SelectMark, s \in Seq(SelectFrames)
<1>7. /\ \A fr \in SelectFrames : fr.select_line = c /\ Fit(s, b.selects, SelectLines(s), Around(c).selects)
           => Fit(Append(s, fr), b.selects, SelectLines(Append(s, fr)), Around(c).selects \cup {c})
      /\ Fit(s, b.selects, SelectLines(s), Around(c).selects \cup {c})
           => /\ s # <<>> /\ Top(s).select_line = c /\ Fit(Pop(s), b.selects, SelectLines(Pop(s)), Around(c).selects)
              /\ Matched(s) \in Seq(SelectFrames) /\ Fit(Matched(s), b.selects, SelectLines(Matched(s)), Around(c).selects \cup {c})
  BY <1>5, <1>6 DEF T, e
<1> QED BY <1>2, <1>7 DEF Fits

\* A block of another kind adds no DO; a DO is the only one, and adds nothing else.
LEMMA DoFits ==
    ASSUME Tidy, NEW c, Block(c), NEW d, NEW f, NEW w, NEW i, NEW s, NEW b
    PROVE  /\ Keyword(c) # "do" => (DoTop(d, Around(c)) <=> DoTop(d, Around(c + 1)))
           /\ Keyword(c) = "do" => /\ Fits(f, w, i, s, b, Around(c)) <=> Fits(f, w, i, s, b, Around(c + 1))
                                   /\ DoTop(d, Around(c))
                                   /\ DoTop(d, Around(c + 1)) <=> d # <<>> /\ Top(d).do_line = c
<1>1. CASE Keyword(c) # "do"
  <2>1. Around(c + 1).dos = Around(c).dos
    BY <1>1, AroundParts
  <2> QED BY <2>1, <1>1 DEF DoTop
<1>2. CASE Keyword(c) = "do"
  <2>1. Around(c).dos = {} /\ Around(c + 1).dos = {c}
    BY <1>2, OneDo
  <2>2. Keyword(c) \notin ForWords /\ Keyword(c) # "while" /\ Keyword(c) # "if" /\ Keyword(c) # "select"
    BY <1>2 DEF ForWords
  <2>3. /\ Around(c + 1).fors = Around(c).fors /\ Around(c + 1).whiles = Around(c).whiles
        /\ Around(c + 1).ifs = Around(c).ifs /\ Around(c + 1).selects = Around(c).selects
    BY <2>2, AroundParts
  <2>4. Fits(f, w, i, s, b, Around(c)) <=> Fits(f, w, i, s, b, Around(c + 1))
    BY <2>3 DEF Fits
  <2> QED BY <2>1, <2>4, <1>2 DEF DoTop
<1> QED BY <1>1, <1>2

\* Outside of all blocks the stacks are those that were saved.
LEMMA FitsOutside ==
    ASSUME NEW b, Stored(b), NEW f \in Seq(ForFrames), NEW w \in Seq(WhileFrames),
           NEW i \in Seq(IfFrames), NEW s \in Seq(SelectFrames), NEW d
    PROVE  /\ Fits(f, w, i, s, b, Outside) => f = b.fors /\ w = b.whiles /\ i = b.ifs /\ s = b.selects
           /\ b.fors = f /\ b.whiles = w /\ b.ifs = i /\ b.selects = s => Fits(f, w, i, s, b, Outside)
           /\ DoTop(d, Outside)
<1>1. DOMAIN ForLines(f) = DOMAIN f /\ DOMAIN WhileLines(w) = DOMAIN w
      /\ DOMAIN IfLines(i) = DOMAIN i /\ DOMAIN SelectLines(s) = DOMAIN s
  BY DEF ForLines, WhileLines, IfLines, SelectLines
<1>2. /\ b.fors \in Seq(ForFrames) /\ b.whiles \in Seq(WhileFrames)
      /\ b.ifs \in Seq(IfFrames) /\ b.selects \in Seq(SelectFrames)
  BY DEF Stored
<1>3. /\ Fit(f, b.fors, ForLines(f), {}) => f = b.fors
      /\ Fit(f, f, ForLines(f), {})
  BY <1>1, <1>2, FitNone
<1>4. /\ Fit(w, b.whiles, WhileLines(w), {}) => w = b.whiles
      /\ Fit(w, w, WhileLines(w), {})
  BY <1>1, <1>2, FitNone
<1>5. /\ Fit(i, b.ifs, IfLines(i), {}) => i = b.ifs
      /\ Fit(i, i, IfLines(i), {})
  BY <1>1, <1>2, FitNone
<1>6. /\ Fit(s, b.selects, SelectLines(s), {}) => s = b.selects
      /\ Fit(s, s, SelectLines(s), {})
  BY <1>1, <1>2, FitNone
<1> QED BY <1>3, <1>4, <1>5, <1>6 DEF Fits, Outside, DoTop

-----------------------------------------------------------------------------
(* The text as state functions: no step changes them.                      *)

Blocks == [n \in Nat |-> Around(n)]
Routine == {n \in Nat : InRoutine(n)}
Bodies == {p \in Nat \X Nat : Inside(p[1], p[2])}
Lasts == {p \in Nat \X Nat : UpTo(p[1], p[2])}
Loops == {<<c, Arg(c)>> : c \in {m \in Lines : Keyword(m) \in ForWords}}
LoopCalls == {c \in Lines : Keyword(c) \in ForWords /\ Calls(c)}
DoCalls == {c \in Lines : Keyword(c) = "do" /\ Calls(c)}

LEMMA TextSame ==
    ASSUME program' = program
    PROVE  /\ Tidy' = Tidy /\ Lines' = Lines /\ Blocks' = Blocks /\ Routine' = Routine
           /\ Bodies' = Bodies /\ Lasts' = Lasts /\ Loops' = Loops
           /\ LoopCalls' = LoopCalls /\ DoCalls' = DoCalls
<1>1. Tidy' = Tidy
  <2>1. Written' = Written /\ Nested' = Nested
    BY DEF Written, Nested, Closer, Stmts, Ops, Within, InA, Lines, Keyword, Arg, Count,
           Below, Nest, Ends, CloseOf, Enclosing
  <2>2. Apart' = Apart /\ Level' = Level
    BY DEF Apart, Level, Stmts, Within, Lines, Keyword, Arg, Count,
           FirstOf, Below, Label, Nest, Ends, CloseOf, Enclosing
  <2>3. SubsApart' = SubsApart
    BY DEF SubsApart, SubEnd, Body, Stmts, Ops, Lines, Keyword, Arg, Count,
           FirstOf, Below, Label, Nest, Ends, CloseOf, Enclosing
  <2>4. RoutinesApart' = RoutinesApart
    BY DEF RoutinesApart, SubEnd, InSub, Entries, InRoutine, Called, Calls, Stmts, Ops, Lines, Keyword, Arg,
           Count, FirstOf, Below, Label, Nest, Ends, CloseOf
  <2> QED BY <2>1, <2>2, <2>3, <2>4 DEF Tidy
<1>2. Lines' = Lines
  BY DEF Lines
<1>3. Blocks' = Blocks
  BY DEF Blocks, Around, Enclosing, CloseOf, Ends, Nest, Count, Keyword, Below
<1>4. Routine' = Routine
  BY DEF Routine, InRoutine, Entries, Label, Stmts, Lines, Keyword, Arg, FirstOf
<1>5. Bodies' = Bodies
  BY DEF Bodies, Inside, SubEnd, Lines, Keyword, Below, FirstOf
<1>6. Lasts' = Lasts
  BY DEF Lasts, UpTo, SubEnd, Lines, Keyword, Below, FirstOf
<1>7. Loops' = Loops
  BY DEF Loops, Lines, Keyword, Arg
<1>8. LoopCalls' = LoopCalls
  BY DEF LoopCalls, Calls, Lines, Ops, Stmts, CloseOf, Ends, Nest, Count, Keyword, Below
<1>9. DoCalls' = DoCalls
  BY DEF DoCalls, Calls, Lines, Ops, Stmts, CloseOf, Ends, Nest, Count, Keyword, Below
<1> QED BY <1>1, <1>2, <1>3, <1>4, <1>5, <1>6, <1>7, <1>8, <1>9

\* What a scan returns is a line or 0.
LEMMA FirstType ==
    ASSUME NEW S \in SUBSET Nat
    PROVE  FirstOf(S) \in Nat
BY MinIs DEF FirstOf

LEMMA ScanTypes ==
    ASSUME Tidy, NEW n \in Nat
    PROVE  /\ upper_bound(n) \in Nat /\ After(n) \in Nat
           /\ find_wend_line(n) \in Nat /\ find_loop_line(n) \in Nat
           /\ \A x : find_next_line(x, n) \in Nat
           /\ find_end_if_line(n) \in Nat /\ find_next_if_branch(n) \in Nat
           /\ find_end_select_line(n) \in Nat /\ first_case(n) \in Nat /\ next_case(n) \in Nat
           /\ find_end_sub_line(n) \in Nat
           /\ \A x : Label(x) \in Nat /\ start_line(x) \in Nat /\ end_line(x) \in Nat
<1>1. Len(program) \in Nat /\ Lines \subseteq Nat /\ \A k \in Nat : Below(k) \subseteq Nat
  BY Text DEF Below
<1>2. \A k \in Nat : upper_bound(k) \in Nat /\ After(k) \in Nat
  BY <1>1 DEF upper_bound, After, Halt
<1>3. \A op, cl : Partner(op, cl, n) \in Nat
  BY <1>1, FirstType DEF Partner
<1>4. /\ find_wend_line(n) \in Nat /\ find_loop_line(n) \in Nat
      /\ find_end_if_line(n) \in Nat /\ find_end_select_line(n) \in Nat
  BY <1>2, <1>3 DEF find_wend_line, find_loop_line, find_end_if_line, find_end_select_line
<1>5. \A x : find_next_line(x, n) \in Nat
  BY <1>1, FirstType DEF find_next_line
<1>6. find_next_if_branch(n) \in Nat
  BY <1>1, FirstType DEF find_next_if_branch
<1>7. first_case(n) \in Nat /\ next_case(n) \in Nat
  BY <1>1, FirstType DEF first_case, next_case
<1>8. find_end_sub_line(n) \in Nat
  BY <1>1, FirstType DEF find_end_sub_line
<1>9. \A x : Label(x) \in Nat /\ start_line(x) \in Nat
  BY <1>1, FirstType DEF Label, start_line
<1>10. \A x : end_line(x) \in Nat
  BY <1>1, <1>9, FirstType DEF end_line
<1> QED BY <1>2, <1>4, <1>5, <1>6, <1>7, <1>8, <1>9, <1>10

\* The first line is in no block.
LEMMA FirstLine ==
    ASSUME Tidy
    PROVE  1 \in Lines /\ Around(1) = Outside
<1>1. 1 \in Lines /\ 1 \in Spots
  BY Text, SpotsAre
<1>2. \A m : m \notin Enclosing(1, Opens)
  BY <1>1, Encloses, BlockNat
<1> QED BY <1>1, <1>2, AroundNone

\* The body of a SUB that is called
LEMMA ProcIs ==
    ASSUME Tidy, NEW x, start_line(x) # 0
    PROVE  /\ start_line(x) \in Lines /\ end_line(x) \in Nat
           /\ upper_bound(start_line(x)) = start_line(x) + 1
           /\ start_line(x) + 1 \in Nat /\ start_line(x) + 1 # Halt
           /\ Around(start_line(x) + 1) = Outside
           /\ UpTo(start_line(x) + 1, end_line(x))
<1> DEFINE s == start_line(x)
<1>1. s \in Lines /\ Keyword(s) = "sub"
  <2>1. {n \in Lines : Keyword(n) = "sub" /\ Arg(n) = x} \in SUBSET Nat
    BY Text
  <2> QED BY <2>1, FirstIs DEF start_line
<1>2. end_line(x) = SubEnd(s)
  BY DEF end_line, SubEnd
<1>3. /\ SubEnd(s) \in Lines /\ SubEnd(s) \in Nat /\ s < SubEnd(s) /\ s \in Nat /\ Around(s) = Outside
  BY <1>1, SubIs
<1>4. s < Len(program)
  BY <1>3, Text
<1>5. Around(s + 1) = Outside
  BY <1>1, <1>3, AroundPlain DEF Opens, Closes
<1> HIDE DEF s
<1>6. s + 1 \in Nat /\ s + 1 # 0 /\ s < s + 1 /\ s + 1 <= SubEnd(s)
  BY <1>3
<1>7. UpTo(s + 1, SubEnd(s))
  BY <1>1, <1>6 DEF UpTo
<1>8. upper_bound(s) = s + 1
  BY <1>4 DEF upper_bound
<1> QED BY <1>1, <1>2, <1>3, <1>5, <1>6, <1>7, <1>8 DEF s, Halt

-----------------------------------------------------------------------------
(* The invariant                                                           *)

ProcFrames == [end_line : Nat, exiting : BOOLEAN, caller : Nat \X Nat]
Saved == [kind : {"gosub", "call"}, place : Nat \X Nat, fors : Seq(ForFrames),
          whiles : Seq(WhileFrames), ifs : Seq(IfFrames), selects : Seq(SelectFrames)]

Types ==
    /\ ln \in Lines /\ col \in Nat \ {0} /\ jmp \in Int /\ jmp >= -1
    /\ call_stack_ \in Seq(Nat) /\ for_stack_ \in Seq(ForFrames) /\ while_stack_ \in Seq(WhileFrames)
    /\ if_stack_ \in Seq(IfFrames) /\ do_stack_ \in Seq(DoFrames) /\ select_stack_ \in Seq(SelectFrames)
    /\ frame_stack_ \in Seq(ProcFrames) /\ pending \in Seq(Saved)

\* The line whose blocks the stacks hold: the next one as soon as a statement has run
Here == IF jmp # Stay THEN jmp ELSE IF col = 1 THEN ln ELSE ln + 1
\* Where a call comes back to: a CALL to the rest of its line
BackTo(r) == IF r.kind = "call" THEN r.place[1] + 1 ELSE r.place[1]
\* What is below the frames of the k-th call
NoFrames == [fors |-> <<>>, whiles |-> <<>>, ifs |-> <<>>, selects |-> <<>>]
Under(p, k) == IF k = 1 THEN NoFrames ELSE p[k - 1]

\* `pending` is the two call stacks, GOSUBs first; what runs in a body is inside it.
Matching ==
    /\ Len(pending) = Len(call_stack_) + Len(frame_stack_)
    /\ \A i \in DOMAIN call_stack_ : pending[i].kind = "gosub" /\ pending[i].place[1] = call_stack_[i]
    /\ \A i \in DOMAIN frame_stack_ :
        /\ pending[Len(call_stack_) + i].kind = "call"
        /\ pending[Len(call_stack_) + i].place = frame_stack_[i].caller
        /\ frame_stack_[i].caller[1] \in Lines /\ frame_stack_[i].caller[2] >= 2
    /\ \A i \in DOMAIN frame_stack_ :
         i > 1 => <<frame_stack_[i].caller[1], frame_stack_[i - 1].end_line>> \in Bodies
    /\ frame_stack_ # <<>> => /\ jmp = Stay => <<ln, Top(frame_stack_).end_line>> \in Bodies
                              /\ Top(frame_stack_).exiting => col >= 2 \/ jmp # Stay

\* Every frame of a FOR has the variable of its line.
OwnVars(s) == \A i \in DOMAIN s : <<s[i].body_line - 1, s[i].var>> \in Loops
\* A call holds loops that call, and where it comes back to the stacks will fit again.
CallHolds(p, k) ==
    /\ \A i \in DOMAIN p[k].fors : p[k].fors[i].body_line - 1 \in LoopCalls
    /\ BackTo(p[k]) # Halt =>
         /\ Fits(p[k].fors, p[k].whiles, p[k].ifs, p[k].selects, Under(p, k), Blocks[BackTo(p[k])])
         /\ Blocks[BackTo(p[k])].dos \subseteq DoCalls
\* So will do_stack_.
DosHold(d) == \A k \in DOMAIN pending : BackTo(pending[k]) # Halt => DoTop(d, Blocks[BackTo(pending[k])])
\* The stacks fit the line.
StacksFit ==
    Here # Halt => /\ Fits(for_stack_, while_stack_, if_stack_, select_stack_, Base, Blocks[Here])
                   /\ DoTop(do_stack_, Blocks[Here])
\* A body and a routine are left by their ends only.
Placed ==
    /\ frame_stack_ # <<>> => jmp # Halt /\ <<Here, Top(frame_stack_).end_line>> \in Lasts
    /\ frame_stack_ = <<>> /\ pending # <<>> => /\ Here # Halt => Here \in Routine
                                                /\ jmp = Stay => ln \in Routine
    /\ \A k \in DOMAIN pending : k >= 2 /\ k <= Len(call_stack_) + 1 =>
         /\ BackTo(pending[k]) # Halt => BackTo(pending[k]) \in Routine
         /\ pending[k].kind = "call" => pending[k].place[1] \in Routine
\* EXIT SUB is outside of all blocks.
ExitsOutside ==
    \A i \in DOMAIN frame_stack_ : frame_stack_[i].exiting =>
        Blocks[IF i = Len(frame_stack_) THEN Here ELSE frame_stack_[i + 1].caller[1] + 1] = Outside

Good == /\ OwnVars(for_stack_) /\ \A k \in DOMAIN pending : CallHolds(pending, k)
        /\ DosHold(do_stack_) /\ StacksFit /\ Placed /\ ExitsOutside

\* An interrupted call_proc returns from wherever it is; the line that called it is
\* finished, but no other begins.
Away == interrupted_ /\ (col >= 2 \/ jmp # Stay)

BasicInv == Tidy /\ Types /\ Matching /\ (Away \/ Good)

-----------------------------------------------------------------------------
(* What holds at a statement                                               *)

LEMMA BlocksAre == \A n \in Nat : Blocks[n] = Around(n)
BY DEF Blocks

LEMMA HereType == ASSUME Tidy, Types PROVE Here \in Nat /\ ln \in Nat /\ ln + 1 \in Nat /\ ln + 1 # Halt
<1>1. ln \in Nat /\ jmp \in Int /\ jmp >= -1
  BY Text DEF Types
<1> QED BY <1>1 DEF Here, Stay, Halt

LEMMA BaseStored ==
    ASSUME Types
    PROVE  Stored(Base) /\ Base = Under(pending, Len(pending) + 1)
<1>1. CASE pending = <<>>
  <2>1. Base = NoFrames /\ Len(pending) + 1 = 1
    BY <1>1 DEF Base, NoFrames
  <2> QED BY <2>1 DEF Under, Stored, NoFrames
<1>2. CASE pending # <<>>
  <2>1. Len(pending) \in Nat \ {0} /\ Top(pending) \in Saved /\ Top(pending) = pending[Len(pending)]
    BY <1>2, TopIs DEF Types
  <2>2. Len(pending) + 1 # 1 /\ ((Len(pending) + 1) - 1) = Len(pending)
    BY <2>1
  <2>3. Base = Top(pending)
    BY <1>2 DEF Base
  <2> QED BY <2>1, <2>2, <2>3 DEF Under, Stored, Saved
<1> QED BY <1>1, <1>2

Ready == Tidy /\ Types /\ Matching /\ Good /\ jmp = Stay /\ col <= Len(program[ln])

\* Before a statement the stacks fit its line, whether it is the first of the line or not.
LEMMA AtLine ==
    ASSUME Ready
    PROVE  /\ ln \in Lines /\ ln \in Nat /\ col \in DOMAIN program[ln] /\ Stmt \in Stmts(ln) /\ Stmt = program[ln][col]
           /\ Fits(for_stack_, while_stack_, if_stack_, select_stack_, Base, Around(ln))
           /\ DoTop(do_stack_, Around(ln))
           /\ frame_stack_ # <<>> => Inside(ln, Top(frame_stack_).end_line)
           /\ frame_stack_ = <<>> /\ pending # <<>> => InRoutine(ln)
           /\ pending # <<>> => Reached(ln)
           /\ frame_stack_ # <<>> /\ Top(frame_stack_).exiting => Around(ln) = Outside /\ col # 1
<1>1. ln \in Lines /\ ln \in Nat /\ ln # 0 /\ col \in Nat \ {0}
  BY Text DEF Ready, Types
<1>2. DOMAIN program[ln] = 1..Len(program[ln]) /\ Len(program[ln]) \in Nat /\ col <= Len(program[ln])
  BY <1>1, Text DEF Ready
<1>3. col \in DOMAIN program[ln]
  BY <1>1, <1>2 DEF Ready
<1>4. Stmt \in Stmts(ln) /\ Stmt = program[ln][col]
  BY <1>3 DEF Stmts, Stmt, ToSet
<1>5. Here \in Nat /\ Here # Halt /\ Around(Here) = Around(ln)
  <2>1. CASE col = 1
    <3>1. Here = ln
      BY <2>1 DEF Here, Ready
    <3> QED BY <3>1, <1>1 DEF Halt
  <2>2. CASE col # 1
    <3>1. Here = ln + 1
      BY <2>2 DEF Here, Ready
    <3>2. Keyword(ln) \notin Opens \cup Closes
      <4>1. Len(program[ln]) # 1
        <5>1. PICK k \in Nat, c \in Nat : k = Len(program[ln]) /\ c = col /\ c <= k /\ c # 0
          BY <1>1, <1>2
        <5>2. c # 1
          BY <5>1, <2>2
        <5>3. c <= k /\ c # 0
          BY <5>1
        <5>4. k # 1
          BY ONLY <5>2, <5>3, k \in Nat, c \in Nat
        <5> QED BY <5>1, <5>4
      <4>2. 1 \in DOMAIN program[ln]
        BY <1>1, Text DEF Ready
      <4> QED BY <4>1, <4>2, <1>1, Words DEF Ready, Keyword, Alone
    <3> QED BY <3>1, <3>2, <1>1, AroundPlain DEF Ready, Halt
  <2> QED BY <2>1, <2>2
<1>6. /\ Fits(for_stack_, while_stack_, if_stack_, select_stack_, Base, Around(ln))
      /\ DoTop(do_stack_, Around(ln))
  BY <1>5, BlocksAre DEF Ready, Good, StacksFit
<1>7. frame_stack_ # <<>> => Inside(ln, Top(frame_stack_).end_line)
  BY DEF Ready, Matching, Bodies
<1>8. frame_stack_ = <<>> /\ pending # <<>> => InRoutine(ln)
  BY DEF Ready, Good, Placed, Routine
<1>9. pending # <<>> => Reached(ln)
  BY <1>7, <1>8 DEF Reached
<1>10. ASSUME frame_stack_ # <<>>, Top(frame_stack_).exiting PROVE Around(ln) = Outside /\ col # 1
  <2>1. Len(frame_stack_) \in DOMAIN frame_stack_ /\ Top(frame_stack_) = frame_stack_[Len(frame_stack_)]
    BY <1>10, TopIs DEF Ready, Types
  <2>2. Blocks[Here] = Outside
    BY <1>10, <2>1 DEF Ready, Good, ExitsOutside
  <2>3. col # 1
    BY <1>10, <1>1 DEF Ready, Matching
  <2> QED BY <2>2, <2>3, <1>5, BlocksAre
<1> QED BY <1>1, <1>3, <1>4, <1>6, <1>7, <1>8, <1>9, <1>10

-----------------------------------------------------------------------------
(* A statement that calls nothing and returns from nothing                 *)

\* The statement ends with the interpreter on its way to line m.
Lands(m) == IF jmp' = Stay THEN col' >= 2 /\ m = ln + 1 ELSE jmp' = m
Onward(m) ==
    /\ program' = program /\ ln' = ln /\ call_stack_' = call_stack_ /\ pending' = pending
    /\ Len(frame_stack_') = Len(frame_stack_) /\ DOMAIN frame_stack_' = DOMAIN frame_stack_
    /\ \A i \in DOMAIN frame_stack_ : /\ frame_stack_'[i].end_line = frame_stack_[i].end_line
                                      /\ frame_stack_'[i].caller = frame_stack_[i].caller
                                      /\ i # Len(frame_stack_) =>
                                           frame_stack_'[i].exiting = frame_stack_[i].exiting
    /\ Lands(m)

LEMMA OnwardIs ==
    ASSUME Types, NEW m, Onward(m)
    PROVE  /\ frame_stack_' = <<>> <=> frame_stack_ = <<>>
           /\ frame_stack_ # <<>> => Top(frame_stack_').end_line = Top(frame_stack_).end_line
           /\ Base' = Base
<1>1. Len(frame_stack_') = 0 <=> Len(frame_stack_) = 0
  BY DEF Onward
<1>2. frame_stack_ = <<>> <=> Len(frame_stack_) = 0
  BY DEF Types
<1>3. frame_stack_' = <<>> <=> frame_stack_ = <<>>
  <2>1. DOMAIN frame_stack_' = DOMAIN frame_stack_
    BY DEF Onward
  <2> QED BY <1>1, <1>2, <2>1 DEF Onward, Types
<1>4. ASSUME frame_stack_ # <<>> PROVE Top(frame_stack_').end_line = Top(frame_stack_).end_line
  BY <1>4, TopIs DEF Types, Onward, Top
<1>5. Base' = Base
  BY DEF Base, Onward, Top
<1> QED BY <1>3, <1>4, <1>5

\* A statement that leaves the stacks fitting the line it goes to, and leaves no body
\* and no routine, keeps the invariant.
LEMMA OnwardGood ==
    ASSUME Ready, NEW m \in Nat, Onward(m), Stays(ln, m),
           OwnVars(for_stack_'), DosHold(do_stack_'),
           m # Halt => /\ Fits(for_stack_', while_stack_', if_stack_', select_stack_', Base, Around(m))
                       /\ DoTop(do_stack_', Around(m)),
           frame_stack_ # <<>> /\ Top(frame_stack_').exiting => Around(m) = Outside
    PROVE  Good'
<1>1. /\ program' = program /\ ln' = ln /\ call_stack_' = call_stack_ /\ pending' = pending
      /\ Len(frame_stack_') = Len(frame_stack_) /\ DOMAIN frame_stack_' = DOMAIN frame_stack_
      /\ \A i \in DOMAIN frame_stack_ : /\ frame_stack_'[i].end_line = frame_stack_[i].end_line
                                        /\ frame_stack_'[i].caller = frame_stack_[i].caller
                                        /\ i # Len(frame_stack_) =>
                                             frame_stack_'[i].exiting = frame_stack_[i].exiting
      /\ Lands(m)
  BY DEF Onward
<1>2. /\ Blocks' = Blocks /\ Routine' = Routine /\ Lasts' = Lasts /\ Loops' = Loops
      /\ LoopCalls' = LoopCalls /\ DoCalls' = DoCalls
  BY <1>1, TextSame
<1>3. /\ frame_stack_' = <<>> <=> frame_stack_ = <<>>
      /\ frame_stack_ # <<>> => Top(frame_stack_').end_line = Top(frame_stack_).end_line
      /\ Base' = Base
  BY OnwardIs DEF Ready
<1>4. Here' = m /\ ln \in Lines /\ ln \in Nat
  <2>1. ln \in Nat /\ ln \in Lines
    BY AtLine
  <2>2. m # Stay
    BY DEF Stay
  <2> QED BY <1>1, <2>1, <2>2 DEF Lands, Here
<1>5. OwnVars(for_stack_)'
  BY <1>2 DEF OwnVars
<1>6. \A k \in DOMAIN pending' : CallHolds(pending, k)'
  BY <1>1, <1>2 DEF Ready, Good, CallHolds, Under
<1>7. DosHold(do_stack_)'
  BY <1>1, <1>2 DEF DosHold
<1>8. StacksFit'
  BY <1>2, <1>3, <1>4, BlocksAre DEF StacksFit
<1>9. Placed'
  <2>1. ASSUME frame_stack_' # <<>>
        PROVE  jmp' # Halt /\ <<Here', Top(frame_stack_').end_line>> \in Lasts'
    <3>1. Inside(ln, Top(frame_stack_).end_line)
      BY <2>1, <1>3, AtLine
    <3>2. UpTo(m, Top(frame_stack_').end_line)
      BY <3>1, <2>1, <1>3 DEF Stays
    <3>3. m # Halt /\ Top(frame_stack_').end_line \in Nat
      BY <3>2, SubIs, Text DEF UpTo, Halt, Ready
    <3>4. jmp' # Halt
      BY <3>3, <1>1 DEF Lands, Stay, Halt
    <3> QED BY <3>2, <3>3, <3>4, <1>2, <1>4 DEF Lasts
  <2>2. ASSUME frame_stack_' = <<>>, pending' # <<>>
        PROVE  (Here' # Halt => Here' \in Routine') /\ (jmp' = Stay => ln' \in Routine')
    <3>1. InRoutine(ln)
      BY <2>2, <1>1, <1>3, AtLine
    <3> QED BY <3>1, <1>1, <1>2, <1>4 DEF Stays, Routine
  <2>3. \A k \in DOMAIN pending' : k >= 2 /\ k <= Len(call_stack_') + 1 =>
         /\ BackTo(pending[k])' # Halt => BackTo(pending[k])' \in Routine'
         /\ pending'[k].kind = "call" => pending'[k].place[1] \in Routine'
    BY <1>1, <1>2 DEF Ready, Good, Placed
  <2> QED BY <2>1, <2>2, <2>3 DEF Placed
<1>10. ExitsOutside'
  <2> SUFFICES ASSUME NEW i \in DOMAIN frame_stack_, frame_stack_'[i].exiting
               PROVE  Blocks[IF i = Len(frame_stack_) THEN m ELSE frame_stack_'[i + 1].caller[1] + 1] = Outside
    BY <1>1, <1>2, <1>4 DEF ExitsOutside
  <2>1. CASE i = Len(frame_stack_)
    <3>1. frame_stack_ # <<>> /\ Top(frame_stack_') = frame_stack_'[i]
      BY <2>1, <1>1 DEF Top
    <3>2. Around(m) = Outside
      BY <3>1
    <3> QED BY <3>2, <2>1, BlocksAre
  <2>2. CASE i # Len(frame_stack_)
    <3>1. i + 1 \in DOMAIN frame_stack_
      BY <2>2 DEF Ready, Types
    <3>2. frame_stack_'[i + 1].caller = frame_stack_[i + 1].caller /\ frame_stack_[i].exiting
      BY <2>2, <3>1, <1>1
    <3> QED BY <2>2, <3>2 DEF Ready, Good, ExitsOutside
  <2> QED BY <2>1, <2>2
<1> QED BY <1>5, <1>6, <1>7, <1>8, <1>9, <1>10 DEF Good

\* Nor does such a statement change what is called from where.
LEMMA OnwardMatching ==
    ASSUME Types, Matching, jmp = Stay, NEW m \in Nat, Onward(m)
    PROVE  Matching'
<1>1. /\ program' = program /\ ln' = ln /\ call_stack_' = call_stack_ /\ pending' = pending
      /\ Len(frame_stack_') = Len(frame_stack_) /\ DOMAIN frame_stack_' = DOMAIN frame_stack_
      /\ \A i \in DOMAIN frame_stack_ : /\ frame_stack_'[i].end_line = frame_stack_[i].end_line
                                        /\ frame_stack_'[i].caller = frame_stack_[i].caller
      /\ Lands(m)
  BY DEF Onward
<1>2. Bodies' = Bodies /\ Lines' = Lines
  BY <1>1, TextSame
<1>3. /\ frame_stack_' = <<>> <=> frame_stack_ = <<>>
      /\ frame_stack_ # <<>> => Top(frame_stack_').end_line = Top(frame_stack_).end_line
  BY OnwardIs
<1>4. col' >= 2 \/ jmp' # Stay
  BY <1>1 DEF Lands
<1>5. \A i \in DOMAIN frame_stack_ : i > 1 => i - 1 \in DOMAIN frame_stack_
  BY DEF Types
<1>6. \A i \in DOMAIN frame_stack_' :
        i > 1 => <<frame_stack_'[i].caller[1], frame_stack_'[i - 1].end_line>> \in Bodies'
  BY <1>1, <1>2, <1>5 DEF Matching
<1>7. frame_stack_' # <<>> => /\ jmp' = Stay => <<ln', Top(frame_stack_').end_line>> \in Bodies'
                              /\ Top(frame_stack_').exiting => col' >= 2 \/ jmp' # Stay
  BY <1>1, <1>2, <1>3, <1>4 DEF Matching
<1>8. \A i \in DOMAIN frame_stack_' :
        /\ pending'[Len(call_stack_') + i].kind = "call"
        /\ pending'[Len(call_stack_') + i].place = frame_stack_'[i].caller
        /\ frame_stack_'[i].caller[1] \in Lines' /\ frame_stack_'[i].caller[2] >= 2
  BY <1>1, <1>2 DEF Matching
<1>9. /\ Len(pending') = Len(call_stack_') + Len(frame_stack_')
      /\ \A i \in DOMAIN call_stack_' : pending'[i].kind = "gosub" /\ pending'[i].place[1] = call_stack_'[i]
  BY <1>1 DEF Matching
<1> QED BY <1>6, <1>7, <1>8, <1>9 DEF Matching

-----------------------------------------------------------------------------
(* The types of what a statement leaves                                    *)

LEMMA ReadsIs ==
    ASSUME Tidy, Types, NEW ops, Reads(ops)
    PROVE  /\ jmp = Stay /\ col <= Len(program[ln]) /\ Stmt.op \in ops
           /\ ln \in Lines /\ ln \in Nat /\ ln + 1 \in Nat /\ col \in Nat /\ col >= 1 /\ Len(program[ln]) \in Nat
           /\ col \in DOMAIN program[ln] /\ Stmt = program[ln][col]
           /\ Stmt.x \in STRING /\ Stmt.op \in STRING
<1>1. ln \in Lines /\ ln \in Nat /\ ln + 1 \in Nat /\ Len(program[ln]) \in Nat
      /\ DOMAIN program[ln] = 1..Len(program[ln]) /\ col \in Nat /\ col >= 1
  BY Text DEF Types
<1>2. jmp = Stay /\ col <= Len(program[ln]) /\ Stmt.op \in ops
  BY <1>1 DEF Reads, LineOver
<1>3. col \in DOMAIN program[ln]
  BY <1>1, <1>2
<1>4. program[ln] \in Seq([op : STRING, x : STRING])
  BY <1>1 DEF Tidy, Written, Lines
<1>5. Stmt \in [op : STRING, x : STRING]
  <2>1. \A A : \A s \in Seq(A) : \A i \in DOMAIN s : s[i] \in A
    OBVIOUS
  <2> QED BY <2>1, <1>3, <1>4 DEF Stmt
<1> QED BY <1>1, <1>2, <1>3, <1>5 DEF Stmt

\* Where exec_stmt sends the interpreter
Target_(j) == IF j = Stay THEN ln + 1 ELSE j

LEMMA ReturnsIs ==
    ASSUME Tidy, Types, NEW j, j = Stay \/ j \in Nat, Returns(j)
    PROVE  /\ Lands(Target_(j)) /\ Target_(j) \in Nat /\ ln' = ln
           /\ col' \in Nat \ {0} /\ jmp' \in Int /\ jmp' >= -1
<1>1. ln \in Nat /\ col \in Nat \ {0} /\ ln + 1 \in Nat
  BY Text DEF Types
<1>2. jmp' = j /\ ln' = ln /\ col' = IF j = Stay THEN col + 1 ELSE col
  BY DEF Returns
<1>3. CASE j = Stay
  BY <1>1, <1>2, <1>3 DEF Lands, Target_, Stay
<1>4. CASE j # Stay /\ j \in Nat
  BY <1>1, <1>2, <1>4 DEF Lands, Target_, Stay
<1> QED BY <1>3, <1>4

\* It only moves.
Moved(m) == Lands(m) /\ m \in Nat /\ ln' = ln /\ col' \in Nat \ {0} /\ jmp' \in Int /\ jmp' >= -1

LEMMA MovedTypes ==
    ASSUME Tidy, Types, NEW m, Moved(m), program' = program, call_stack_' = call_stack_,
           pending' = pending, frame_stack_' = frame_stack_,
           for_stack_' \in Seq(ForFrames), while_stack_' \in Seq(WhileFrames), if_stack_' \in Seq(IfFrames),
           do_stack_' \in Seq(DoFrames), select_stack_' \in Seq(SelectFrames)
    PROVE  Types' /\ m \in Nat /\ Onward(m)
<1>1. Lines' = Lines
  BY TextSame
<1>2. Types'
  BY <1>1 DEF Types, Moved
<1>3. Onward(m)
  BY DEF Moved, Onward
<1> QED BY <1>2, <1>3 DEF Moved

LEMMA MarkTypes ==
    /\ \A s \in Seq(IfFrames) : s # <<>> => Marked(s) \in Seq(IfFrames)
    /\ \A s \in Seq(SelectFrames) : s # <<>> => Matched(s) \in Seq(SelectFrames)
<1>1. ASSUME NEW s \in Seq(IfFrames), s # <<>> PROVE Marked(s) \in Seq(IfFrames)
  <2> DEFINE f == [s[Len(s)] EXCEPT !.taken = TRUE]
  <2>1. s[Len(s)] \in IfFrames
    BY <1>1, TopIs
  <2>2. f \in IfFrames
    BY <2>1 DEF IfFrames
  <2>3. Marked(s) = [s EXCEPT ![Len(s)] = f]
    BY DEF Marked
  <2> HIDE DEF f
  <2> QED BY <2>2, <2>3, <1>1, EditTop
<1>2. ASSUME NEW s \in Seq(SelectFrames), s # <<>> PROVE Matched(s) \in Seq(SelectFrames)
  <2> DEFINE f == [s[Len(s)] EXCEPT !.matched = TRUE]
  <2>1. s[Len(s)] \in SelectFrames
    BY <1>2, TopIs
  <2>2. f \in SelectFrames
    BY <2>1 DEF SelectFrames
  <2>3. Matched(s) = [s EXCEPT ![Len(s)] = f]
    BY DEF Matched
  <2> HIDE DEF f
  <2> QED BY <2>2, <2>3, <1>2, EditTop
<1> QED BY <1>1, <1>2

LEMMA PopType == \A A : \A s \in Seq(A) : s # <<>> => Pop(s) \in Seq(A)
BY TopIs

\* What a step that only moves has to leave, so that the invariant holds again
Fine(m) ==
    /\ Stays(ln, m) /\ OwnVars(for_stack_') /\ DosHold(do_stack_')
    /\ m # Halt => /\ Fits(for_stack_', while_stack_', if_stack_', select_stack_', Base, Around(m))
                   /\ DoTop(do_stack_', Around(m))
    /\ frame_stack_ # <<>> /\ Top(frame_stack_).exiting => Around(m) = Outside
Keeps == Types' /\ Matching' /\ (Good => Good') /\ (col' >= 2 \/ jmp' # Stay)

LEMMA Keeping ==
    ASSUME Tidy, Types, Matching, jmp = Stay, col <= Len(program[ln]), NEW m, Moved(m),
           program' = program, call_stack_' = call_stack_,
           pending' = pending, frame_stack_' = frame_stack_,
           for_stack_' \in Seq(ForFrames), while_stack_' \in Seq(WhileFrames), if_stack_' \in Seq(IfFrames),
           do_stack_' \in Seq(DoFrames), select_stack_' \in Seq(SelectFrames),
           Ready => Fine(m)
    PROVE  Keeps
<1>1. Types' /\ m \in Nat /\ Onward(m)
  BY MovedTypes
<1>2. Matching'
  BY <1>1, OnwardMatching
<1>3. ASSUME Good PROVE Good'
  <2>1. Ready
    BY <1>3 DEF Ready
  <2>2. Fine(m)
    BY <2>1
  <2> QED BY <1>1, <2>1, <2>2, OnwardGood DEF Fine
<1>4. col' >= 2 \/ jmp' # Stay
  BY <1>1 DEF Moved, Lands
<1> QED BY <1>1, <1>2, <1>3, <1>4 DEF Keeps

\* A structural word is the first of its line, and the only one.
LEMMA AtWord ==
    ASSUME Tidy, Types, NEW ops \in SUBSET Alone, Reads(ops)
    PROVE  /\ col = 1 /\ Keyword(ln) \in ops /\ Keyword(ln) = Stmt.op /\ Arg(ln) = Stmt.x /\ ln \in Lines
           /\ Ready => ~(frame_stack_ # <<>> /\ Top(frame_stack_).exiting)
<1>1. ln \in Lines /\ col \in DOMAIN program[ln] /\ Stmt = program[ln][col] /\ Stmt.op \in ops
  BY ReadsIs
<1>2. program[ln][col].op \in Alone
  BY <1>1
<1>3. col = 1 /\ Keyword(ln) = program[ln][col].op /\ Arg(ln) = program[ln][col].x
  BY <1>1, <1>2, Words
<1>4. Ready => ~(frame_stack_ # <<>> /\ Top(frame_stack_).exiting)
  BY <1>3, AtLine
<1> QED BY <1>1, <1>3, <1>4

\* Any other statement has the same blocks around the line after its own.
LEMMA AtPlain ==
    ASSUME Tidy, Types, NEW ops, ops \cap (Alone \cup {"return"}) = {}, Reads(ops)
    PROVE  Around(ln + 1) = Around(ln) /\ Stays(ln, ln + 1)
<1>1. ln \in Lines /\ col \in DOMAIN program[ln] /\ Stmt = program[ln][col] /\ Stmt.op \in ops
  BY ReadsIs
<1>2. program[ln][col].op \notin Alone /\ program[ln][col].op # "return"
  BY <1>1
<1>3. Keyword(ln) \notin Opens \cup Closes /\ Keyword(ln) # "return"
  BY <1>1, <1>2, PlainWord
<1> QED BY <1>1, <1>3, AroundPlain, StaysNext

\* The stacks may stay as they are where the same blocks are around.
LEMMA SameFine ==
    ASSUME Ready, NEW m, Stays(ln, m), m # Halt => Around(m) = Around(ln),
           frame_stack_ # <<>> /\ Top(frame_stack_).exiting => m # Halt,
           for_stack_' = for_stack_, while_stack_' = while_stack_, if_stack_' = if_stack_,
           do_stack_' = do_stack_, select_stack_' = select_stack_
    PROVE  Fine(m)
<1>1. OwnVars(for_stack_) /\ DosHold(do_stack_)
  BY DEF Ready, Good
<1> QED BY <1>1, AtLine DEF Fine

-----------------------------------------------------------------------------
(* One lemma for each statement                                            *)

Unmoved == /\ program' = program /\ call_stack_' = call_stack_ /\ pending' = pending
           /\ frame_stack_' = frame_stack_

LEMMA PlainKeeps ==
    ASSUME Tidy, Types, Matching, Plain \/ SingleIf \/ SingleElse
    PROVE  Keeps
<1>1. PICK ops : Reads(ops) /\ ops \cap (Alone \cup {"return"}) = {}
  <2>1. /\ {"stmt", "label"} \cap (Alone \cup {"return"}) = {} /\ {"if1"} \cap (Alone \cup {"return"}) = {}
        /\ {"else1"} \cap (Alone \cup {"return"}) = {}
    BY DEF Alone, Opens, Closes, Mids
  <2> QED BY <2>1 DEF Plain, SingleIf, SingleElse
<1>2. /\ jmp = Stay /\ col <= Len(program[ln]) /\ ln \in Nat /\ ln + 1 \in Nat /\ col \in Nat /\ col >= 1
      /\ Len(program[ln]) \in Nat
  BY <1>1, ReadsIs
<1>3. /\ Unmoved /\ for_stack_' = for_stack_ /\ while_stack_' = while_stack_ /\ if_stack_' = if_stack_
      /\ do_stack_' = do_stack_ /\ select_stack_' = select_stack_
  BY DEF Plain, SingleIf, SingleElse, Same, stacks, ghosts, Unmoved
<1>4. Moved(ln + 1)
  <2>1. CASE Returns(Stay)
    BY <2>1, <1>2, ReturnsIs DEF Moved, Target_
  <2>2. CASE SingleElse
    BY <2>2, <1>2 DEF SingleElse, Moved, Lands, Stay
  <2>3. ASSUME SingleIf, ~Returns(Stay) PROVE Moved(ln + 1)
    <3> DEFINE elses == {k \in (col + 1)..Len(program[ln]) : program[ln][k].op = "else1"}
    <3>1. col' = (IF elses = {} THEN Len(program[ln]) + 1 ELSE Min(elses) + 1) /\ ln' = ln /\ jmp' = jmp
      BY <2>3 DEF SingleIf
    <3>2. elses \in SUBSET Nat /\ \A k \in elses : k >= 1
      BY <1>2
    <3>3. elses # {} => Min(elses) \in elses
      BY <3>2, MinIs
    <3> HIDE DEF elses
    <3>4. PICK k \in Nat : k >= 1 /\ col' = k + 1
      <4>1. CASE elses = {}
        <5>1. PICK k \in Nat, c \in Nat : k = Len(program[ln]) /\ c = col /\ c <= k /\ c >= 1
          BY <1>2
        <5>2. k >= 1
          BY <5>1
        <5>3. col' = k + 1
          BY <4>1, <5>1, <3>1
        <5> QED BY <5>2, <5>3
      <4>2. CASE elses # {}
        <5>1. Min(elses) \in Nat /\ Min(elses) >= 1 /\ col' = Min(elses) + 1
          BY <4>2, <3>1, <3>2, <3>3
        <5> QED BY <5>1
      <4> QED BY <4>1, <4>2
    <3> QED BY <3>1, <3>4, <1>2 DEF Moved, Lands, Stay
  <2> QED BY <2>1, <2>2, <2>3 DEF Plain, SingleIf
<1>5. Ready => Fine(ln + 1)
  BY <1>1, <1>2, <1>3, AtPlain, SameFine DEF Halt
<1> QED BY <1>2, <1>3, <1>4, <1>5, Keeping DEF Unmoved, Types

LEMMA EndKeeps ==
    ASSUME Tidy, Types, Matching, End
    PROVE  Keeps
<1>1. Reads({"end"})
  BY DEF End
<1>2. /\ jmp = Stay /\ col <= Len(program[ln]) /\ Stmt = program[ln][col] /\ Stmt.op = "end"
  BY <1>1, ReadsIs
<1>3. /\ Unmoved /\ for_stack_' = for_stack_ /\ while_stack_' = while_stack_ /\ if_stack_' = if_stack_
      /\ do_stack_' = do_stack_ /\ select_stack_' = select_stack_
  BY DEF End, Same, stacks, ghosts, Unmoved
<1>4. Moved(Halt)
  BY ReturnsIs DEF End, Moved, Target_, Stay, Halt
<1>5. ASSUME Ready PROVE Fine(Halt)
  <2>1. \A e : ~Inside(ln, e)
    BY <1>2, <1>5, AtLine, NotInside
  <2>2. Stays(ln, Halt) /\ frame_stack_ = <<>>
    BY <2>1, <1>5, AtLine DEF Stays
  <2> QED BY <2>2, <1>3, <1>5, SameFine
<1> QED BY <1>2, <1>3, <1>4, <1>5, Keeping DEF Unmoved, Types

LEMMA GotoKeeps ==
    ASSUME Tidy, Types, Matching, Goto
    PROVE  Keeps
<1>1. Reads({"goto"})
  BY DEF Goto
<1>2. /\ jmp = Stay /\ col <= Len(program[ln]) /\ Stmt = program[ln][col] /\ Stmt.op = "goto" /\ ln \in Nat
  BY <1>1, ReadsIs
<1>3. /\ Unmoved /\ for_stack_' = for_stack_ /\ while_stack_' = while_stack_ /\ if_stack_' = if_stack_
      /\ do_stack_' = do_stack_ /\ select_stack_' = select_stack_
  BY DEF Goto, CallMoves, Same, Unmoved
<1>4. Target(Stmt.x) = Stay \/ Target(Stmt.x) \in Nat
  BY <1>2, ScanTypes DEF Target
<1>5. Moved(Target_(Target(Stmt.x)))
  BY <1>4, ReturnsIs DEF Goto, Moved
<1>6. ASSUME Ready PROVE Fine(Target_(Target(Stmt.x)))
  <2>1. /\ Label(Stmt.x) \in Lines /\ Label(Stmt.x) > 0
        /\ Around(Label(Stmt.x)) = Around(ln) /\ Stays(ln, Label(Stmt.x))
    BY <1>2, <1>6, AtLine, GotoIs
  <2>2. Target_(Target(Stmt.x)) = Label(Stmt.x) /\ Label(Stmt.x) # Halt
    BY <2>1, Text DEF Target_, Target, Stay, Halt
  <2> QED BY <2>1, <2>2, <1>3, <1>6, SameFine
<1> QED BY <1>2, <1>3, <1>5, <1>6, Keeping DEF Unmoved, Types

LEMMA SubKeeps ==
    ASSUME Tidy, Types, Matching, Sub
    PROVE  Keeps
<1> DEFINE m == find_end_sub_line(ln) + 1
<1>1. Reads({"sub"}) /\ {"sub"} \in SUBSET Alone
  BY DEF Sub, Alone
<1>2. jmp = Stay /\ col <= Len(program[ln]) /\ ln \in Nat
  BY <1>1, ReadsIs
<1>3. /\ Unmoved /\ for_stack_' = for_stack_ /\ while_stack_' = while_stack_ /\ if_stack_' = if_stack_
      /\ do_stack_' = do_stack_ /\ select_stack_' = select_stack_
  BY DEF Sub, CallMoves, Same, Unmoved
<1>4. m \in Nat /\ m # Stay
  <2>1. find_end_sub_line(ln) \in Nat
    BY <1>2, ScanTypes
  <2> QED BY <2>1 DEF Stay
<1>5. Returns(m)
  BY DEF Sub
<1> HIDE DEF m
<1>6. Moved(m)
  BY <1>4, <1>5, ReturnsIs DEF Moved, Target_
<1>7. ASSUME Ready PROVE Fine(m)
  <2>1. ln \in Lines /\ Keyword(ln) = "sub"
    BY <1>1, AtWord
  <2>2. m # Halt /\ Around(m) = Outside /\ Stays(ln, m)
    BY <2>1, SubPast DEF m
  <2>3. Around(ln) = Outside
    BY <2>1, SubIs
  <2> QED BY <2>2, <2>3, <1>3, <1>7, SameFine
<1> QED BY <1>2, <1>3, <1>6, <1>7, Keeping DEF Unmoved, Types

LEMMA ExitSubKeeps ==
    ASSUME Tidy, Types, Matching, ExitSub
    PROVE  Keeps
<1>1. Reads({"exitsub", "endsub"})
  BY DEF ExitSub
<1>2. /\ jmp = Stay /\ col <= Len(program[ln]) /\ Stmt = program[ln][col] /\ Stmt.op \in {"exitsub", "endsub"}
      /\ ln \in Nat /\ ln + 1 \in Nat /\ ln \in Lines /\ col \in DOMAIN program[ln]
  BY <1>1, ReadsIs
<1>3. /\ program' = program /\ call_stack_' = call_stack_ /\ pending' = pending
      /\ for_stack_' = for_stack_ /\ while_stack_' = while_stack_ /\ if_stack_' = if_stack_
      /\ do_stack_' = do_stack_ /\ select_stack_' = select_stack_
  BY DEF ExitSub, CallMoves, Same
<1>4. Moved(ln + 1)
  BY <1>2, ReturnsIs DEF ExitSub, Moved, Target_
<1>5. /\ frame_stack_' \in Seq(ProcFrames) /\ Len(frame_stack_') = Len(frame_stack_)
      /\ DOMAIN frame_stack_' = DOMAIN frame_stack_
      /\ \A i \in DOMAIN frame_stack_ : /\ frame_stack_'[i].end_line = frame_stack_[i].end_line
                                        /\ frame_stack_'[i].caller = frame_stack_[i].caller
                                        /\ i # Len(frame_stack_) => frame_stack_'[i] = frame_stack_[i]
  <2>1. CASE frame_stack_ = <<>>
    <3>1. frame_stack_' = frame_stack_
      BY <2>1 DEF ExitSub
    <3> QED BY <3>1 DEF Types
  <2>2. CASE frame_stack_ # <<>>
    <3> DEFINE f == [frame_stack_[Len(frame_stack_)] EXCEPT !.exiting = TRUE]
    <3>1. frame_stack_[Len(frame_stack_)] \in ProcFrames /\ Len(frame_stack_) \in DOMAIN frame_stack_
          /\ DOMAIN frame_stack_ = 1..Len(frame_stack_)
      BY <2>2, TopIs DEF Types
    <3>2. /\ f \in ProcFrames /\ f.end_line = frame_stack_[Len(frame_stack_)].end_line
          /\ f.caller = frame_stack_[Len(frame_stack_)].caller
      BY <3>1 DEF ProcFrames
    <3>3. frame_stack_' = [frame_stack_ EXCEPT ![Len(frame_stack_)] = f]
      BY <2>2 DEF ExitSub
    <3>4. frame_stack_ \in Seq(ProcFrames)
      BY DEF Types
    <3> HIDE DEF f
    <3>5. /\ frame_stack_' \in Seq(ProcFrames) /\ Len(frame_stack_') = Len(frame_stack_)
          /\ DOMAIN frame_stack_' = DOMAIN frame_stack_ /\ frame_stack_'[Len(frame_stack_)] = f
          /\ \A i \in 1..Len(frame_stack_) : i # Len(frame_stack_) => frame_stack_'[i] = frame_stack_[i]
      BY ONLY <2>2, <3>2, <3>3, <3>4, EditTop
    <3> QED BY <3>1, <3>2, <3>5
  <2> QED BY <2>1, <2>2
<1>6. ln + 1 \in Nat /\ Onward(ln + 1)
  BY <1>2, <1>3, <1>4, <1>5 DEF Onward, Moved
<1>7. Types'
  <2>1. Lines' = Lines
    BY <1>3, TextSame
  <2> QED BY <2>1, <1>3, <1>4, <1>5 DEF Types, Moved
<1>8. Matching'
  BY <1>2, <1>6, OnwardMatching
<1>9. ASSUME Good PROVE Good'
  <2>1. Ready
    BY <1>2, <1>9 DEF Ready
  <2>2. CASE Stmt.op = "exitsub"
    <3>1. Around(ln) = Outside /\ Around(ln + 1) = Outside
      BY <1>2, <2>2, OutsideIs
    <3>2. Stays(ln, ln + 1)
      <4>1. {"exitsub"} \cap (Alone \cup {"return"}) = {}
        BY DEF Alone, Opens, Closes, Mids
      <4>2. Reads({"exitsub"})
        BY <1>1, <2>2 DEF Reads
      <4> QED BY <4>1, <4>2, AtPlain
    <3>3. /\ Fits(for_stack_, while_stack_, if_stack_, select_stack_, Base, Around(ln))
          /\ DoTop(do_stack_, Around(ln)) /\ OwnVars(for_stack_) /\ DosHold(do_stack_)
      BY <2>1, AtLine DEF Ready, Good
    <3> QED BY <1>3, <1>6, <2>1, <3>1, <3>2, <3>3, OnwardGood
  <2>3. CASE Stmt.op = "endsub"
    <3>1. Reads({"endsub"}) /\ {"endsub"} \in SUBSET Alone
      BY <1>1, <2>3 DEF Reads, Alone
    <3>2. Keyword(ln) = "endsub"
      BY <3>1, AtWord
    <3>3. frame_stack_ = <<>>
      <4> SUFFICES ASSUME frame_stack_ # <<>> PROVE FALSE
        OBVIOUS
      <4>1. Inside(ln, Top(frame_stack_).end_line)
        BY <2>1, AtLine
      <4> QED BY <4>1, <3>2, <1>2, SubIs DEF Inside
    <3>4. Around(ln + 1) = Around(ln) /\ Stays(ln, ln + 1)
      BY <3>2, <1>2, AroundPlain, StaysNext DEF Opens, Closes
    <3>5. /\ Fits(for_stack_, while_stack_, if_stack_, select_stack_, Base, Around(ln))
          /\ DoTop(do_stack_, Around(ln)) /\ OwnVars(for_stack_) /\ DosHold(do_stack_)
      BY <2>1, AtLine DEF Ready, Good
    <3> QED BY <1>3, <1>6, <2>1, <3>3, <3>4, <3>5, OnwardGood
  <2> QED BY <1>2, <2>2, <2>3
<1>10. col' >= 2 \/ jmp' # Stay
  BY <1>4 DEF Moved, Lands
<1> QED BY <1>7, <1>8, <1>9, <1>10 DEF Keeps

\* The block that an end ends
LEMMA EndsWhat ==
    ASSUME Tidy, NEW n \in Lines
    PROVE  /\ Keyword(n) = "endif" => \E c : Block(c) /\ CloseOf(c) = n /\ Keyword(c) = "if"
           /\ Keyword(n) = "next" => \E c : Block(c) /\ CloseOf(c) = n /\ Keyword(c) \in ForWords
           /\ Keyword(n) = "wend" => \E c : Block(c) /\ CloseOf(c) = n /\ Keyword(c) = "while"
           /\ Keyword(n) = "loop" => \E c : Block(c) /\ CloseOf(c) = n /\ Keyword(c) = "do"
           /\ Keyword(n) = "endselect" => \E c : Block(c) /\ CloseOf(c) = n /\ Keyword(c) = "select"
<1> SUFFICES ASSUME Keyword(n) \in Closes
             PROVE  \E c : /\ Block(c) /\ CloseOf(c) = n
                           /\ Keyword(n) = "endif" => Keyword(c) = "if"
                           /\ Keyword(n) = "next" => Keyword(c) \in ForWords
                           /\ Keyword(n) = "wend" => Keyword(c) = "while"
                           /\ Keyword(n) = "loop" => Keyword(c) = "do"
                           /\ Keyword(n) = "endselect" => Keyword(c) = "select"
  BY DEF Closes
<1>1. PICK c : Block(c) /\ CloseOf(c) = n
  BY CloseHasBlock
<1>2. Keyword(n) = Closer(Keyword(c)) /\ Keyword(c) \in Opens
  BY <1>1, CloseIs DEF Block
<1>3. \A op \in Opens : /\ Closer(op) = "endif" => op = "if"
                        /\ Closer(op) = "next" => op \in ForWords
                        /\ Closer(op) = "wend" => op = "while"
                        /\ Closer(op) = "loop" => op = "do"
                        /\ Closer(op) = "endselect" => op = "select"
  BY DEF Opens, Closer, ForWords
<1> QED BY <1>1, <1>2, <1>3

\* The end of a block has around it what its first line has; after it, what was
\* around the block.
LEMMA AtEnd ==
    ASSUME Tidy, NEW c, Block(c)
    PROVE  /\ Around(CloseOf(c)) = Around(c + 1) /\ Around(CloseOf(c) + 1) = Around(c)
           /\ Stays(CloseOf(c), CloseOf(c) + 1)
           /\ Stays(CloseOf(c), c + 1) /\ Stays(CloseOf(c), c)
<1>1. c \in Nat /\ CloseOf(c) \in Nat /\ c < CloseOf(c) /\ c + 1 \in Nat /\ CloseOf(c) + 1 \in Nat
  BY BlockNat
<1>2. c + 1 <= CloseOf(c) /\ c + 1 <= CloseOf(c) + 1 /\ c <= CloseOf(c) + 1 /\ c <= c + 1
  BY <1>1
<1> QED BY <1>1, <1>2, AroundClose, AroundPast, StaysBlock

-----------------------------------------------------------------------------
(* Block IF                                                                *)

LEMMA NextBranchTypes ==
    ASSUME Tidy, Types, NEW frames \in Seq(IfFrames), frames # <<>>, NextBranch(frames)
    PROVE  jmp' \in Nat /\ Returns(jmp') /\ if_stack_' \in Seq(IfFrames)
<1> DEFINE m == find_next_if_branch(ln)
<1>1. ln \in Nat
  BY Text DEF Types
<1>2. m \in Nat /\ After(m) \in Nat
  BY <1>1, ScanTypes
<1>3. \/ if_stack_' = Pop(frames) /\ Returns(After(m))
      \/ if_stack_' = frames /\ Returns(m)
  BY DEF NextBranch
<1>4. Pop(frames) \in Seq(IfFrames)
  BY TopIs
<1> HIDE DEF m
<1>5. \A j : Returns(j) => jmp' = j
  BY DEF Returns
<1> QED BY <1>2, <1>3, <1>4, <1>5

\* On to a branch of the block, or behind it
LEMMA NextBranchIs ==
    ASSUME Tidy, NEW c, From(ln, c), Keyword(c) = "if", NEW frames, NextBranch(frames)
    PROVE  /\ Stays(ln, jmp')
           /\ jmp' # Halt => \/ if_stack_' = Pop(frames) /\ Around(jmp') = Around(c)
                             \/ if_stack_' = frames /\ Around(jmp') = Around(c + 1)
<1> DEFINE m == find_next_if_branch(ln)
<1>1. /\ m \in Lines /\ ln < m
      /\ m = CloseOf(c) \/ (Keyword(m) \in {"elseif", "else"} /\ Within(m, c))
  BY FindBranch DEF Branches
<1>2. /\ Block(c) /\ ln \in Nat /\ c \in Nat /\ c <= ln /\ CloseOf(c) \in Nat /\ ln < CloseOf(c)
      /\ Keyword(CloseOf(c)) = "endif"
  <2>1. Block(c) /\ ln \in Nat /\ c \in Nat /\ c <= ln /\ CloseOf(c) \in Nat /\ ln < CloseOf(c)
    BY FromIs
  <2>2. Closer("if") = "endif"
    BY DEF Closer, ForWords
  <2> QED BY <2>1, <2>2, CloseIs
<1>3. m \in Nat /\ m # 0
  BY <1>1, Text
<1> HIDE DEF m
<1>4. NextBranch(frames) => IF Keyword(m) = "endif" THEN if_stack_' = Pop(frames) /\ jmp' = After(m)
                            ELSE if_stack_' = frames /\ jmp' = m
  BY <1>3 DEF NextBranch, Returns, m
<1>5. CASE m = CloseOf(c)
  <2>1. if_stack_' = Pop(frames) /\ jmp' = Past(c)
    BY <1>2, <1>4, <1>5, PastIs
  <2>2. Stays(ln, Past(c))
    BY <1>2, StaysPast
  <2> QED BY <2>1, <2>2, <1>2, AroundPast
<1>6. CASE Keyword(m) \in {"elseif", "else"} /\ Within(m, c)
  <2>1. if_stack_' = frames /\ jmp' = m
    BY <1>4, <1>6
  <2>2. c < m /\ m <= CloseOf(c)
    BY <1>1, <1>6, Inner, KindWords
  <2>3. Stays(ln, m)
    BY <1>2, <1>3, <2>2, StaysBlock
  <2>4. Around(m) = Around(c + 1)
    BY <1>1, <1>6, AroundInner
  <2> QED BY <2>1, <2>3, <2>4
<1> QED BY <1>1, <1>5, <1>6

\* What an IF statement has to leave
LEMMA IfFine ==
    ASSUME Ready, NEW m, Stays(ln, m), NEW c, Block(c), Keyword(c) = "if",
           Around(ln) \in {Around(c), Around(c + 1)},
           ~(frame_stack_ # <<>> /\ Top(frame_stack_).exiting),
           for_stack_' = for_stack_, while_stack_' = while_stack_,
           do_stack_' = do_stack_, select_stack_' = select_stack_,
           m # Halt => \E B \in {Around(c), Around(c + 1)} :
               Around(m) = B /\ Fits(for_stack_, while_stack_, if_stack_', select_stack_, Base, B)
    PROVE  Fine(m)
<1>1. OwnVars(for_stack_) /\ DosHold(do_stack_) /\ DoTop(do_stack_, Around(ln))
  BY AtLine DEF Ready, Good
<1>2. DoTop(do_stack_, Around(c)) /\ DoTop(do_stack_, Around(c + 1))
  BY <1>1, DoFits DEF Ready
<1> QED BY <1>1, <1>2 DEF Fine

LEMMA BlockIfKeeps ==
    ASSUME Tidy, Types, Matching, BlockIf
    PROVE  Keeps
<1> DEFINE fr == [taken |-> FALSE, if_line |-> ln]
<1>1. Reads({"if"}) /\ {"if"} \in SUBSET Alone
  BY DEF BlockIf, Alone, Opens
<1>2. /\ jmp = Stay /\ col <= Len(program[ln]) /\ ln \in Nat /\ ln + 1 \in Nat
  BY <1>1, ReadsIs
<1>3. /\ Unmoved /\ for_stack_' = for_stack_ /\ while_stack_' = while_stack_
      /\ do_stack_' = do_stack_ /\ select_stack_' = select_stack_
  BY DEF BlockIf, IfMoves, Same, Unmoved, ghosts
<1>4. /\ fr \in IfFrames /\ [fr EXCEPT !.taken = TRUE] \in IfFrames
      /\ fr.if_line = ln /\ [fr EXCEPT !.taken = TRUE].if_line = ln
  BY <1>2 DEF IfFrames
<1>5. \/ if_stack_' = Append(if_stack_, [fr EXCEPT !.taken = TRUE]) /\ Returns(Stay)
      \/ NextBranch(Append(if_stack_, fr))
  BY DEF BlockIf
<1>6. /\ Keyword(ln) = "if" /\ Block(ln) /\ From(ln, ln)
      /\ Ready => ~(frame_stack_ # <<>> /\ Top(frame_stack_).exiting)
  BY <1>1, AtWord, FromOpen DEF Block, Opens
<1>7. if_stack_ \in Seq(IfFrames)
  BY DEF Types
<1>8. Ready => Stored(Base) /\ Fits(for_stack_, while_stack_, if_stack_, select_stack_, Base, Around(ln))
  BY AtLine, BaseStored
<1> HIDE DEF fr
<1>9. CASE if_stack_' = Append(if_stack_, [fr EXCEPT !.taken = TRUE]) /\ Returns(Stay)
  <2>1. Moved(ln + 1)
    BY <1>9, <1>2, ReturnsIs DEF Moved, Target_
  <2>2. if_stack_' \in Seq(IfFrames)
    BY <1>9, <1>4, <1>7
  <2>3. ASSUME Ready PROVE Fine(ln + 1)
    <3>1. Fits(for_stack_, while_stack_, if_stack_', select_stack_, Base, Around(ln + 1))
      BY <2>3, <1>4, <1>6, <1>7, <1>8, <1>9, IfFits
    <3>2. Stays(ln, ln + 1)
      BY <1>6, StaysNext DEF Block
    <3> QED BY <3>1, <3>2, <2>3, <1>3, <1>6, IfFine
  <2> QED BY <1>2, <1>3, <2>1, <2>2, <2>3, Keeping DEF Unmoved, Types
<1>10. CASE NextBranch(Append(if_stack_, fr))
  <2>1. /\ Append(if_stack_, fr) \in Seq(IfFrames) /\ Append(if_stack_, fr) # <<>>
        /\ Pop(Append(if_stack_, fr)) = if_stack_
    BY <1>4, <1>7, PushPop
  <2>2. jmp' \in Nat /\ Returns(jmp') /\ if_stack_' \in Seq(IfFrames)
    BY <1>10, <2>1, NextBranchTypes
  <2>3. Moved(jmp')
    BY <2>2, ReturnsIs DEF Moved, Target_, Stay
  <2>4. ASSUME Ready PROVE Fine(jmp')
    <3>1. Fits(for_stack_, while_stack_, Append(if_stack_, fr), select_stack_, Base, Around(ln + 1))
      BY <2>4, <1>4, <1>6, <1>7, <1>8, IfFits
    <3>2. /\ Stays(ln, jmp')
          /\ jmp' # Halt => \/ if_stack_' = Pop(Append(if_stack_, fr)) /\ Around(jmp') = Around(ln)
                            \/ if_stack_' = Append(if_stack_, fr) /\ Around(jmp') = Around(ln + 1)
      BY <1>6, <1>10, NextBranchIs
    <3>3. jmp' # Halt => \E B \in {Around(ln), Around(ln + 1)} :
             Around(jmp') = B /\ Fits(for_stack_, while_stack_, if_stack_', select_stack_, Base, B)
      BY <3>1, <3>2, <2>1, <2>4, <1>8
    <3> QED BY <3>2, <3>3, <2>4, <1>3, <1>6, IfFine
  <2> QED BY <1>2, <1>3, <2>2, <2>3, <2>4, Keeping DEF Unmoved, Types
<1> QED BY <1>5, <1>9, <1>10

\* A branch: the block is open, as one of those around.
LEMMA ElsesKeep ==
    ASSUME Tidy, Types, Matching, ElseIf \/ Else
    PROVE  Keeps
<1>1. Reads({"elseif", "else"}) /\ {"elseif", "else"} \in SUBSET Alone
  BY DEF ElseIf, Else, Alone, Mids, Reads
<1>2. jmp = Stay /\ col <= Len(program[ln]) /\ ln \in Nat /\ ln + 1 \in Nat
  BY <1>1, ReadsIs
<1>3. /\ Unmoved /\ for_stack_' = for_stack_ /\ while_stack_' = while_stack_
      /\ do_stack_' = do_stack_ /\ select_stack_' = select_stack_
  BY DEF ElseIf, Else, IfMoves, Same, Unmoved, ghosts
<1>4. /\ Keyword(ln) \in {"elseif", "else"} /\ ln \in Lines
      /\ Ready => ~(frame_stack_ # <<>> /\ Top(frame_stack_).exiting)
  BY <1>1, AtWord
<1>5. PICK c \in 1..(ln - 1) : Keyword(c) \in {"if"} /\ Within(ln, c)
  BY <1>4 DEF Tidy, Nested, InA
<1>6. /\ Keyword(c) = "if" /\ Within(ln, c) /\ From(ln, c) /\ Block(c) /\ Around(ln) = Around(c + 1)
      /\ c <= ln /\ ln <= CloseOf(c)
  <2>1. Keyword(ln) \notin Opens \cup Closes
    BY <1>4 DEF Opens, Closes
  <2> QED BY <2>1, <1>4, <1>5, FromWithin, AroundInner, FromIs
<1>7. if_stack_ \in Seq(IfFrames)
  BY DEF Types
<1>8. Ready => /\ Stored(Base) /\ Fits(for_stack_, while_stack_, if_stack_, select_stack_, Base, Around(c + 1))
               /\ if_stack_ # <<>> /\ Fits(for_stack_, while_stack_, Pop(if_stack_), select_stack_, Base, Around(c))
               /\ Fits(for_stack_, while_stack_, Marked(if_stack_), select_stack_, Base, Around(c + 1))
  BY <1>6, <1>7, AtLine, BaseStored, IfFits
<1>9. \/ if_stack_ = <<>> /\ Returns(Stay) /\ if_stack_' = if_stack_
      \/ if_stack_ # <<>> /\ if_stack_' = Pop(if_stack_) /\ Returns(find_end_if_line(ln))
      \/ if_stack_ # <<>> /\ if_stack_' = Marked(if_stack_) /\ Returns(Stay)
      \/ if_stack_ # <<>> /\ NextBranch(if_stack_)
  BY DEF ElseIf, Else, Taken, Marked
<1>10. CASE if_stack_ = <<>> /\ Returns(Stay) /\ if_stack_' = if_stack_
  <2>1. Moved(ln + 1)
    BY <1>10, <1>2, ReturnsIs DEF Moved, Target_
  <2> QED BY <1>2, <1>3, <1>7, <1>8, <1>10, <2>1, Keeping DEF Unmoved, Types
<1>11. CASE if_stack_ # <<>> /\ if_stack_' = Pop(if_stack_) /\ Returns(find_end_if_line(ln))
  <2>1. find_end_if_line(ln) \in Nat /\ find_end_if_line(ln) # Stay
    BY <1>2, ScanTypes DEF Stay
  <2>2. find_end_if_line(ln) = Past(c)
    BY <1>4, <1>6, FindEndIf
  <2>3. Moved(Past(c))
    BY <2>1, <2>2, <1>11, ReturnsIs DEF Moved, Target_
  <2>4. if_stack_' \in Seq(IfFrames)
    BY <1>7, <1>11, PopType
  <2>5. ASSUME Ready PROVE Fine(Past(c))
    <3>1. Stays(ln, Past(c))
      BY <1>2, <1>6, StaysPast
    <3>2. Past(c) # Halt => Around(Past(c)) = Around(c)
      BY <1>6, AroundPast
    <3> QED BY <2>5, <3>1, <3>2, <1>3, <1>4, <1>6, <1>8, <1>11, IfFine
  <2> QED BY <1>2, <1>3, <2>3, <2>4, <2>5, Keeping DEF Unmoved, Types
<1>12. CASE if_stack_ # <<>> /\ if_stack_' = Marked(if_stack_) /\ Returns(Stay)
  <2>1. Moved(ln + 1)
    BY <1>12, <1>2, ReturnsIs DEF Moved, Target_
  <2>2. if_stack_' \in Seq(IfFrames)
    BY <1>7, <1>12, MarkTypes
  <2>3. ASSUME Ready PROVE Fine(ln + 1)
    <3>1. Stays(ln, ln + 1) /\ Around(ln + 1) = Around(c + 1)
      BY <1>4, <1>6, StaysNext, AroundPlain DEF Opens, Closes
    <3> QED BY <2>3, <3>1, <1>3, <1>4, <1>6, <1>8, <1>12, IfFine
  <2> QED BY <1>2, <1>3, <2>1, <2>2, <2>3, Keeping DEF Unmoved, Types
<1>13. CASE if_stack_ # <<>> /\ NextBranch(if_stack_)
  <2>1. jmp' \in Nat /\ Returns(jmp') /\ if_stack_' \in Seq(IfFrames)
    BY <1>7, <1>13, NextBranchTypes
  <2>2. Moved(jmp')
    BY <2>1, ReturnsIs DEF Moved, Target_, Stay
  <2>3. ASSUME Ready PROVE Fine(jmp')
    <3>1. /\ Stays(ln, jmp')
          /\ jmp' # Halt => \/ if_stack_' = Pop(if_stack_) /\ Around(jmp') = Around(c)
                            \/ if_stack_' = if_stack_ /\ Around(jmp') = Around(c + 1)
      BY <1>6, <1>13, NextBranchIs
    <3> QED BY <2>3, <3>1, <1>3, <1>4, <1>6, <1>8, IfFine
  <2> QED BY <1>2, <1>3, <2>1, <2>2, <2>3, Keeping DEF Unmoved, Types
<1> QED BY <1>9, <1>10, <1>11, <1>12, <1>13

LEMMA EndIfKeeps ==
    ASSUME Tidy, Types, Matching, EndIf
    PROVE  Keeps
<1>1. Reads({"endif"}) /\ {"endif"} \in SUBSET Alone
  BY DEF EndIf, Alone, Closes
<1>2. jmp = Stay /\ col <= Len(program[ln]) /\ ln \in Nat /\ ln + 1 \in Nat
  BY <1>1, ReadsIs
<1>3. /\ Unmoved /\ for_stack_' = for_stack_ /\ while_stack_' = while_stack_
      /\ do_stack_' = do_stack_ /\ select_stack_' = select_stack_
  BY DEF EndIf, IfMoves, Same, Unmoved, ghosts
<1>4. /\ Keyword(ln) = "endif" /\ ln \in Lines
      /\ Ready => ~(frame_stack_ # <<>> /\ Top(frame_stack_).exiting)
  BY <1>1, AtWord
<1>5. PICK c : Block(c) /\ CloseOf(c) = ln /\ Keyword(c) = "if"
  BY <1>4, EndsWhat
<1>6. Around(ln) = Around(c + 1) /\ Around(ln + 1) = Around(c) /\ Stays(ln, ln + 1)
  BY <1>5, AtEnd
<1>7. if_stack_ \in Seq(IfFrames)
  BY DEF Types
<1>8. Ready => /\ Stored(Base) /\ Fits(for_stack_, while_stack_, if_stack_, select_stack_, Base, Around(c + 1))
               /\ if_stack_ # <<>> /\ Fits(for_stack_, while_stack_, Pop(if_stack_), select_stack_, Base, Around(c))
  BY <1>5, <1>6, <1>7, AtLine, BaseStored, IfFits
<1>9. if_stack_' = (IF if_stack_ = <<>> THEN <<>> ELSE Pop(if_stack_)) /\ Returns(Stay)
  BY DEF EndIf
<1>10. Moved(ln + 1)
  BY <1>2, <1>9, ReturnsIs DEF Moved, Target_
<1>11. if_stack_' \in Seq(IfFrames)
  BY <1>7, <1>9, PopType
<1>12. ASSUME Ready PROVE Fine(ln + 1)
  <2>1. if_stack_' = Pop(if_stack_)
    BY <1>8, <1>9, <1>12
  <2>2. Around(ln) \in {Around(c), Around(c + 1)}
    BY <1>6
  <2> QED BY <1>12, <2>1, <2>2, <1>3, <1>4, <1>5, <1>6, <1>8, IfFine
<1> QED BY <1>2, <1>3, <1>10, <1>11, <1>12, Keeping DEF Unmoved, Types

-----------------------------------------------------------------------------
(* FOR                                                                     *)

\* What a statement of a block other than DO has to leave
LEMMA BlockFine ==
    ASSUME Ready, NEW m, Stays(ln, m), NEW c, Block(c), Keyword(c) # "do",
           Around(ln) \in {Around(c), Around(c + 1)}, OwnVars(for_stack_'), do_stack_' = do_stack_,
           ~(frame_stack_ # <<>> /\ Top(frame_stack_).exiting),
           m # Halt => \E B \in {Around(c), Around(c + 1)} :
               Around(m) = B /\ Fits(for_stack_', while_stack_', if_stack_', select_stack_', Base, B)
    PROVE  Fine(m)
<1>1. DosHold(do_stack_) /\ DoTop(do_stack_, Around(ln))
  BY AtLine DEF Ready, Good
<1>2. DoTop(do_stack_, Around(c)) /\ DoTop(do_stack_, Around(c + 1))
  BY <1>1, DoFits DEF Ready
<1> QED BY <1>1, <1>2 DEF Fine

LEMMA LoopIs ==
    ASSUME NEW d, NEW v
    PROVE  <<d, v>> \in Loops <=> d \in Lines /\ Keyword(d) \in ForWords /\ Arg(d) = v
BY DEF Loops

LEMMA OwnVarsIs ==
    ASSUME NEW s \in Seq(ForFrames), OwnVars(s)
    PROVE  /\ \A fr \in ForFrames : <<fr.body_line - 1, fr.var>> \in Loops => OwnVars(Append(s, fr))
           /\ s # <<>> => OwnVars(Pop(s)) /\ <<Top(s).body_line - 1, Top(s).var>> \in Loops
<1>1. PICK n \in Nat : n = Len(s) /\ DOMAIN s = 1..n
  OBVIOUS
<1>2. \A i \in 1..n : <<s[i].body_line - 1, s[i].var>> \in Loops
  BY <1>1 DEF OwnVars
<1>3. ASSUME NEW fr \in ForFrames, <<fr.body_line - 1, fr.var>> \in Loops
      PROVE  OwnVars(Append(s, fr))
  <2>1. DOMAIN Append(s, fr) = 1..(n + 1) /\ Append(s, fr)[n + 1] = fr /\ \A i \in 1..n : Append(s, fr)[i] = s[i]
    BY <1>1
  <2>2. ASSUME NEW i \in 1..(n + 1)
        PROVE  <<Append(s, fr)[i].body_line - 1, Append(s, fr)[i].var>> \in Loops
    <3>1. CASE i = n + 1
      BY <3>1, <2>1, <1>3
    <3>2. CASE i # n + 1
      <4>1. i \in 1..n
        BY <3>2
      <4> QED BY <4>1, <2>1, <1>2
    <3> QED BY <3>1, <3>2
  <2> QED BY <2>1, <2>2 DEF OwnVars
<1>4. ASSUME s # <<>> PROVE OwnVars(Pop(s)) /\ <<Top(s).body_line - 1, Top(s).var>> \in Loops
  <2>1. /\ DOMAIN Pop(s) = 1..(n - 1) /\ (\A i \in 1..(n - 1) : Pop(s)[i] = s[i]) /\ n \in 1..n /\ Top(s) = s[n]
    BY <1>1, <1>4, TopIs
  <2>2. \A i \in 1..(n - 1) : i \in 1..n
    OBVIOUS
  <2>3. OwnVars(Pop(s))
    BY <2>1, <2>2, <1>2 DEF OwnVars
  <2> QED BY <2>1, <2>3, <1>2
<1> QED BY <1>3, <1>4

\* No frame has the variable of the loop that begins here: no loop around has it, and
\* none that is waiting for the call this line runs in.
LEMMA NotOpen ==
    ASSUME Ready, Block(ln), Keyword(ln) \in ForWords, NEW i \in DOMAIN for_stack_
    PROVE  for_stack_[i].var # Arg(ln)
<1> DEFINE d == for_stack_[i].body_line - 1
<1>1. /\ Fits(for_stack_, while_stack_, if_stack_, select_stack_, Base, Around(ln))
      /\ pending # <<>> => Reached(ln)
      /\ ln \in Lines
  BY AtLine
<1>2. d \in Lines /\ Keyword(d) \in ForWords /\ Arg(d) = for_stack_[i].var
  <2>1. <<d, for_stack_[i].var>> \in Loops
    BY DEF Ready, Good, OwnVars
  <2> QED BY <2>1, LoopIs
<1>3. /\ for_stack_ \in Seq(ForFrames) /\ Base.fors \in Seq(ForFrames)
  BY BaseStored DEF Ready, Types, Stored
<1>4. PICK n \in Nat, k \in Nat : Len(for_stack_) = n /\ Len(Base.fors) = k
                                  /\ DOMAIN for_stack_ = 1..n /\ DOMAIN Base.fors = 1..k
  BY <1>3
<1>5. CASE i > k
  <2>1. ForLines(for_stack_)[i] = d /\ DOMAIN ForLines(for_stack_) = DOMAIN for_stack_
    BY DEF ForLines
  <2>2. ForLines(for_stack_)[i] \in Around(ln).fors
    BY <1>1, <1>4, <1>5, <2>1 DEF Fits, Fit, Lists
  <2>3. d \in Enclosing(ln, ForWords)
    BY <2>1, <2>2 DEF Around
  <2>4. Arg(ln) # Arg(d)
    BY <2>3, <1>1, ForVars DEF Ready
  <2> QED BY <2>4, <1>2
<1>6. CASE ~(i > k)
  <2>1. i \in 1..k
    BY <1>4, <1>6
  <2>2. for_stack_[i] = Base.fors[i]
    BY <2>1, <1>1, <1>4 DEF Fits, Fit, Kept
  <2>3. pending # <<>>
    <3> SUFFICES ASSUME pending = <<>> PROVE FALSE
      OBVIOUS
    <3>1. Base.fors = <<>>
      BY DEF Base
    <3>2. k = 0
      BY <3>1, <1>4
    <3> QED BY <3>2, <2>1
  <2>4. Len(pending) \in DOMAIN pending /\ Base = pending[Len(pending)]
    BY <2>3, TopIs DEF Ready, Types, Base
  <2>5. d \in LoopCalls
    BY <2>1, <2>2, <2>4, <1>4 DEF Ready, Good, CallHolds
  <2>6. Block(d) /\ Calls(d)
    BY <2>5, <1>2, KindWords DEF LoopCalls, Block
  <2> HIDE DEF d
  <2>7. Arg(d) # Arg(ln)
    BY <2>6, <1>1, <1>2, <2>3, LoopVars DEF Ready
  <2> QED BY <2>7, <1>2
<1> QED BY <1>5, <1>6

LEMMA EnteredIs ==
    ASSUME Tidy, Types, Reads(ForWords)
    PROVE  /\ Entered \in Seq(ForFrames)
           /\ Ready => \E fr \in ForFrames : /\ Entered = Append(for_stack_, fr)
                                             /\ fr.var = Arg(ln) /\ fr.body_line = ln + 1
<1> DEFINE fr == [var |-> Stmt.x, is_match |-> Stmt.op # "for", body_line |-> upper_bound(ln)]
           open == {i \in DOMAIN for_stack_ : /\ for_stack_[i].var = Stmt.x
                                              /\ for_stack_[i].is_match = fr.is_match}
<1>1. ForWords \in SUBSET Alone
  BY DEF ForWords, Alone, Opens
<1>2. /\ Keyword(ln) \in ForWords /\ Arg(ln) = Stmt.x /\ ln \in Lines /\ ln \in Nat /\ Stmt.x \in STRING
  BY <1>1, AtWord, ReadsIs
<1>3. upper_bound(ln) \in Nat
  BY <1>2, ScanTypes
<1>4. fr \in ForFrames /\ fr.var = Arg(ln) /\ fr.body_line = upper_bound(ln)
  BY <1>2, <1>3 DEF ForFrames
<1>5. for_stack_ \in Seq(ForFrames)
  BY DEF Types
<1>6. Entered = IF Stmt.op # "forin" /\ open # {} THEN [for_stack_ EXCEPT ![Min(open)] = fr]
                ELSE Append(for_stack_, fr)
  BY DEF Entered
<1>7. open \in SUBSET DOMAIN for_stack_ /\ open \in SUBSET Nat
  BY <1>5
<1>8. Ready => open = {}
  <2> SUFFICES ASSUME Ready, NEW i \in DOMAIN for_stack_, for_stack_[i].var = Stmt.x PROVE FALSE
    OBVIOUS
  <2>1. Block(ln)
    BY <1>2, KindWords DEF Block
  <2> QED BY <2>1, <1>2, NotOpen
<1>9. upper_bound(ln) = ln + 1
  <2>1. Block(ln)
    BY <1>2, KindWords DEF Block
  <2>2. ln < CloseOf(ln) /\ CloseOf(ln) \in 1..Len(program) /\ Len(program) \in Nat
    BY <2>1, BlockNat, Text
  <2>3. ln < Len(program)
    BY <2>2, <1>2
  <2> QED BY <2>3 DEF upper_bound
<1>10. ASSUME open # {} PROVE Min(open) \in DOMAIN for_stack_
  BY <1>7, <1>10, MinIs
<1> HIDE DEF fr, open
<1>11. Entered \in Seq(ForFrames)
  <2>1. Append(for_stack_, fr) \in Seq(ForFrames)
    BY <1>4, <1>5
  <2>2. open # {} => [for_stack_ EXCEPT ![Min(open)] = fr] \in Seq(ForFrames)
    BY <1>4, <1>5, <1>10
  <2> QED BY <2>1, <2>2, <1>6
<1>12. Ready => Entered = Append(for_stack_, fr)
  BY <1>6, <1>8
<1> QED BY <1>4, <1>9, <1>11, <1>12

LEMMA ForKeeps ==
    ASSUME Tidy, Types, Matching, For
    PROVE  Keeps
<1>1. Reads(ForWords) /\ ForWords \in SUBSET Alone
  BY DEF For, ForWords, Alone, Opens
<1>2. /\ jmp = Stay /\ col <= Len(program[ln]) /\ ln \in Nat /\ ln + 1 \in Nat
  BY <1>1, ReadsIs
<1>3. /\ Unmoved /\ while_stack_' = while_stack_ /\ if_stack_' = if_stack_
      /\ do_stack_' = do_stack_ /\ select_stack_' = select_stack_
  BY DEF For, ForMoves, Same, Unmoved, ghosts
<1>4. /\ Keyword(ln) \in ForWords /\ ln \in Lines /\ Arg(ln) = Stmt.x
      /\ Ready => ~(frame_stack_ # <<>> /\ Top(frame_stack_).exiting)
  BY <1>1, AtWord
<1>5. Block(ln) /\ From(ln, ln) /\ Keyword(ln) # "do"
  <2>1. Block(ln) /\ Keyword(ln) # "do"
    BY <1>4, KindWords DEF Block, ForWords
  <2> QED BY <2>1, FromOpen
<1>6. Ready => /\ Stored(Base) /\ Fits(for_stack_, while_stack_, if_stack_, select_stack_, Base, Around(ln))
               /\ OwnVars(for_stack_)
  BY AtLine, BaseStored DEF Ready, Good
<1>7. for_stack_ \in Seq(ForFrames)
  BY DEF Types
<1>8. CASE for_stack_' = Entered /\ Returns(Stay)
  <2>1. Moved(ln + 1)
    BY <1>8, <1>2, ReturnsIs DEF Moved, Target_
  <2>2. for_stack_' \in Seq(ForFrames)
    BY <1>1, <1>8, EnteredIs
  <2>3. ASSUME Ready PROVE Fine(ln + 1)
    <3>1. PICK fr \in ForFrames : /\ for_stack_' = Append(for_stack_, fr)
                                  /\ fr.var = Arg(ln) /\ fr.body_line = ln + 1
      BY <2>3, <1>1, <1>8, EnteredIs
    <3>2. Fits(Append(for_stack_, fr), while_stack_, if_stack_, select_stack_, Base, Around(ln + 1))
      BY <2>3, <3>1, <1>4, <1>5, <1>6, <1>7, ForFits
    <3>3. fr.body_line - 1 = ln
      BY <3>1, <1>2
    <3>4. OwnVars(for_stack_')
      BY <2>3, <3>1, <3>3, <1>4, <1>6, <1>7, LoopIs, OwnVarsIs
    <3>5. Stays(ln, ln + 1)
      BY <1>2, <1>5, StaysNext DEF Block, Opens
    <3> QED BY <2>3, <3>1, <3>2, <3>4, <3>5, <1>3, <1>4, <1>5, BlockFine
  <2> QED BY <1>2, <1>3, <2>1, <2>2, <2>3, Keeping DEF Unmoved, Types
<1>9. CASE Returns(After(find_next_line(Stmt.x, ln))) /\ for_stack_' = for_stack_
  <2>1. After(find_next_line(Stmt.x, ln)) = Past(ln)
    BY <1>4, <1>5, FindNext
  <2>2. Past(ln) \in Nat /\ Past(ln) # Stay
    BY <1>5, PastIs, SpotsAre DEF Stay
  <2>3. Moved(Past(ln))
    BY <1>9, <2>1, <2>2, ReturnsIs DEF Moved, Target_
  <2>4. ASSUME Ready PROVE Fine(Past(ln))
    <3>1. ln <= ln /\ ln <= CloseOf(ln)
      BY <1>2, <1>5, BlockNat
    <3>2. Stays(ln, Past(ln))
      BY <3>1, <1>2, <1>5, StaysPast
    <3>3. Past(ln) # Halt => Around(Past(ln)) = Around(ln)
      BY <1>5, AroundPast
    <3> QED BY <2>4, <3>2, <3>3, <1>3, <1>4, <1>9, SameFine
  <2> QED BY <1>2, <1>3, <1>7, <1>9, <2>3, <2>4, Keeping DEF Unmoved, Types
<1> QED BY <1>8, <1>9 DEF For

LEMMA NextKeeps ==
    ASSUME Tidy, Types, Matching, Next_
    PROVE  Keeps
<1>1. Reads({"next"}) /\ {"next"} \in SUBSET Alone
  BY DEF Next_, Alone, Closes
<1>2. /\ jmp = Stay /\ col <= Len(program[ln]) /\ ln \in Nat /\ ln + 1 \in Nat
  BY <1>1, ReadsIs
<1>3. /\ Unmoved /\ while_stack_' = while_stack_ /\ if_stack_' = if_stack_
      /\ do_stack_' = do_stack_ /\ select_stack_' = select_stack_
  BY DEF Next_, ForMoves, Same, Unmoved, ghosts
<1>4. /\ Keyword(ln) = "next" /\ ln \in Lines /\ Arg(ln) = Stmt.x
      /\ Ready => ~(frame_stack_ # <<>> /\ Top(frame_stack_).exiting)
  BY <1>1, AtWord
<1>5. PICK c : Block(c) /\ CloseOf(c) = ln /\ Keyword(c) \in ForWords
  BY <1>4, EndsWhat
<1>6. /\ Around(ln) = Around(c + 1) /\ Around(ln + 1) = Around(c)
      /\ Stays(ln, ln + 1) /\ Stays(ln, c + 1) /\ Keyword(c) # "do"
      /\ c \in Lines /\ c \in Nat /\ c + 1 \in Nat /\ c + 1 # Stay
  BY <1>5, AtEnd, BlockNat DEF ForWords, Stay
<1>7. for_stack_ \in Seq(ForFrames)
  BY DEF Types
<1>8. Ready => /\ Stored(Base) /\ Fits(for_stack_, while_stack_, if_stack_, select_stack_, Base, Around(c + 1))
               /\ for_stack_ # <<>> /\ Top(for_stack_).body_line = c + 1
               /\ Fits(Pop(for_stack_), while_stack_, if_stack_, select_stack_, Base, Around(c))
               /\ OwnVars(for_stack_) /\ OwnVars(Pop(for_stack_))
  <2>1. Ready => /\ Stored(Base) /\ Fits(for_stack_, while_stack_, if_stack_, select_stack_, Base, Around(c + 1))
                 /\ OwnVars(for_stack_)
    BY <1>6, AtLine, BaseStored DEF Ready, Good
  <2>2. Ready => /\ for_stack_ # <<>> /\ Top(for_stack_).body_line = c + 1
                 /\ Fits(Pop(for_stack_), while_stack_, if_stack_, select_stack_, Base, Around(c))
    BY <2>1, <1>5, <1>7, ForFits
  <2> QED BY <2>1, <2>2, <1>7, OwnVarsIs
<1>9. \/ Returns(Stay) /\ for_stack_' = for_stack_ /\ (for_stack_ = <<>> \/ Stmt.x \notin {"", Top(for_stack_).var})
      \/ for_stack_ # <<>> /\ Returns(Top(for_stack_).body_line) /\ for_stack_' = for_stack_
      \/ for_stack_ # <<>> /\ Returns(Stay) /\ for_stack_' = Pop(for_stack_)
  BY Zenon DEF Next_
<1>10. CASE Returns(Stay) /\ for_stack_' = for_stack_ /\ (for_stack_ = <<>> \/ Stmt.x \notin {"", Top(for_stack_).var})
  <2>1. Moved(ln + 1)
    BY <1>10, <1>2, ReturnsIs DEF Moved, Target_
  <2>2. ~Ready
    <3> SUFFICES ASSUME Ready PROVE FALSE
      OBVIOUS
    <3>1. <<Top(for_stack_).body_line - 1, Top(for_stack_).var>> \in Loops
      BY <1>7, <1>8, OwnVarsIs
    <3>2. Top(for_stack_).body_line - 1 = c
      BY <1>6, <1>8
    <3>3. Arg(c) = Top(for_stack_).var
      BY <3>1, <3>2, LoopIs
    <3>4. Arg(CloseOf(c)) \in {"", Arg(c)}
      BY <1>5, <1>6, ForVars
    <3>5. Stmt.x \in {"", Top(for_stack_).var}
      BY Zenon, <3>3, <3>4, <1>4, <1>5
    <3> QED BY Zenon, <3>5, <1>8, <1>10
  <2>3. for_stack_' \in Seq(ForFrames)
    BY <1>7, <1>10
  <2> QED BY <1>2, <1>3, <2>1, <2>2, <2>3, Keeping DEF Unmoved, Types
<1>11. CASE for_stack_ # <<>> /\ Returns(Top(for_stack_).body_line) /\ for_stack_' = for_stack_
  <2>1. Top(for_stack_).body_line \in Nat
    <3>1. Top(for_stack_) \in ForFrames
      BY <1>7, <1>11, TopIs
    <3> QED BY <3>1 DEF ForFrames
  <2>2. Moved(Top(for_stack_).body_line)
    <3>1. Top(for_stack_).body_line # Stay
      BY <2>1 DEF Stay
    <3> QED BY <2>1, <3>1, <1>11, ReturnsIs DEF Moved, Target_
  <2>3. ASSUME Ready PROVE Fine(Top(for_stack_).body_line)
    <3>1. Top(for_stack_).body_line = c + 1 /\ OwnVars(for_stack_')
      BY <2>3, <1>8, <1>11
    <3> QED BY <2>3, <3>1, <1>3, <1>4, <1>5, <1>6, <1>8, <1>11, BlockFine
  <2>4. for_stack_' \in Seq(ForFrames)
    BY <1>7, <1>11
  <2> QED BY <1>2, <1>3, <2>2, <2>3, <2>4, Keeping DEF Unmoved, Types
<1>12. CASE for_stack_ # <<>> /\ Returns(Stay) /\ for_stack_' = Pop(for_stack_)
  <2>1. Moved(ln + 1)
    BY <1>12, <1>2, ReturnsIs DEF Moved, Target_
  <2>2. ASSUME Ready PROVE Fine(ln + 1)
    BY <2>2, <1>3, <1>4, <1>5, <1>6, <1>8, <1>12, BlockFine
  <2>3. for_stack_' \in Seq(ForFrames)
    BY <1>7, <1>12, PopType
  <2> QED BY <1>2, <1>3, <2>1, <2>2, <2>3, Keeping DEF Unmoved, Types
<1> QED BY <1>9, <1>10, <1>11, <1>12

\* An EXIT is in its loop, so its line is not outside of all blocks.
LEMMA ExitAt ==
    ASSUME Ready, NEW c, Within(ln, c)
    PROVE  /\ Block(c) /\ Around(ln) = Around(c + 1) /\ Around(c + 1) # Outside
           /\ ~(frame_stack_ # <<>> /\ Top(frame_stack_).exiting)
<1>1. Tidy /\ ln \in Lines
  BY AtLine DEF Ready
<1>2. Block(c) /\ Around(ln) = Around(c + 1)
  BY <1>1, AroundInner
<1>3. Around(c + 1) # Outside
  <2>1. Keyword(c) \in ForWords \/ Keyword(c) = "while" \/ Keyword(c) = "if" \/ Keyword(c) = "select"
        \/ Keyword(c) = "do"
    BY <1>2 DEF Block, Opens, ForWords
  <2>2. c \in Around(c + 1).fors \/ c \in Around(c + 1).whiles \/ c \in Around(c + 1).ifs
        \/ c \in Around(c + 1).selects \/ c \in Around(c + 1).dos
    BY <2>1, <1>1, <1>2, AroundParts
  <2> QED BY <2>2 DEF Outside
<1> QED BY <1>2, <1>3, AtLine

LEMMA ExitForKeeps ==
    ASSUME Tidy, Types, Matching, ExitFor
    PROVE  Keeps
<1>1. Reads({"exitfor"})
  BY DEF ExitFor
<1>2. /\ jmp = Stay /\ col <= Len(program[ln]) /\ ln \in Nat /\ ln + 1 \in Nat /\ ln \in Lines
      /\ col \in DOMAIN program[ln] /\ Stmt = program[ln][col] /\ Stmt.op = "exitfor"
  BY <1>1, ReadsIs
<1>3. /\ Unmoved /\ while_stack_' = while_stack_ /\ if_stack_' = if_stack_
      /\ do_stack_' = do_stack_ /\ select_stack_' = select_stack_
  BY DEF ExitFor, ForMoves, Same, Unmoved, ghosts
<1>4. PICK c : Within(ln, c) /\ From(ln, c) /\ Keyword(c) \in ForWords
  BY <1>2, ExitIs
<1>5. /\ Block(c) /\ Around(ln) = Around(c + 1) /\ Keyword(c) # "do" /\ c \in Lines
      /\ c \in Nat /\ c <= ln /\ ln <= CloseOf(c)
  BY <1>2, <1>4, FromIs, AroundInner DEF ForWords, Block
<1>6. for_stack_ \in Seq(ForFrames)
  BY DEF Types
<1>7. Ready => /\ Stored(Base) /\ Fits(for_stack_, while_stack_, if_stack_, select_stack_, Base, Around(c + 1))
               /\ for_stack_ # <<>> /\ Top(for_stack_).var = Arg(c)
               /\ Fits(Pop(for_stack_), while_stack_, if_stack_, select_stack_, Base, Around(c))
               /\ OwnVars(Pop(for_stack_))
  <2> SUFFICES ASSUME Ready
               PROVE  /\ Stored(Base) /\ Fits(for_stack_, while_stack_, if_stack_, select_stack_, Base, Around(c + 1))
                      /\ for_stack_ # <<>> /\ Top(for_stack_).var = Arg(c)
                      /\ Fits(Pop(for_stack_), while_stack_, if_stack_, select_stack_, Base, Around(c))
                      /\ OwnVars(Pop(for_stack_))
    OBVIOUS
  <2>1. /\ Stored(Base) /\ Fits(for_stack_, while_stack_, if_stack_, select_stack_, Base, Around(c + 1))
        /\ OwnVars(for_stack_)
    BY <1>5, AtLine, BaseStored DEF Ready, Good
  <2>2. /\ for_stack_ # <<>> /\ Top(for_stack_).body_line = c + 1
        /\ Fits(Pop(for_stack_), while_stack_, if_stack_, select_stack_, Base, Around(c))
    BY <2>1, <1>4, <1>5, <1>6, ForFits
  <2>3. OwnVars(Pop(for_stack_)) /\ <<Top(for_stack_).body_line - 1, Top(for_stack_).var>> \in Loops
    BY <2>1, <2>2, <1>6, OwnVarsIs
  <2>4. Top(for_stack_).body_line - 1 = c
    BY <2>2, <1>5
  <2> QED BY <2>1, <2>2, <2>3, <2>4, LoopIs
<1>8. CASE for_stack_ = <<>> /\ Returns(Stay) /\ for_stack_' = for_stack_
  <2>1. Moved(ln + 1)
    BY <1>8, <1>2, ReturnsIs DEF Moved, Target_
  <2> QED BY <1>2, <1>3, <1>6, <1>7, <1>8, <2>1, Keeping DEF Unmoved, Types
<1>9. CASE /\ for_stack_ # <<>> /\ for_stack_' = Pop(for_stack_)
           /\ Returns(After(find_next_line(Top(for_stack_).var, ln)))
  <2> DEFINE m == After(find_next_line(Top(for_stack_).var, ln))
  <2>1. m \in Nat /\ m # Stay
    <3>1. find_next_line(Top(for_stack_).var, ln) \in Nat
      BY <1>2, ScanTypes
    <3> QED BY <3>1, ScanTypes DEF Stay
  <2>2. Moved(m)
    BY <1>9, <2>1, ReturnsIs DEF Moved, Target_
  <2>3. ASSUME Ready PROVE Fine(m)
    <3>1. m = Past(c)
      BY <2>3, <1>4, <1>7, FindNext
    <3>2. Stays(ln, Past(c))
      BY <1>2, <1>5, StaysPast
    <3>3. Past(c) # Halt => Around(Past(c)) = Around(c)
      BY <1>5, AroundPast
    <3>4. ~(frame_stack_ # <<>> /\ Top(frame_stack_).exiting)
      BY <2>3, <1>4, ExitAt
    <3> HIDE DEF m
    <3> QED BY <2>3, <3>1, <3>2, <3>3, <3>4, <1>3, <1>5, <1>7, <1>9, BlockFine
  <2>4. for_stack_' \in Seq(ForFrames)
    BY <1>6, <1>9, PopType
  <2> HIDE DEF m
  <2> QED BY <1>2, <1>3, <2>2, <2>3, <2>4, Keeping DEF Unmoved, Types
<1> QED BY <1>8, <1>9 DEF ExitFor, LeftOpen

-----------------------------------------------------------------------------
(* WHILE and DO                                                            *)

LEMMA WhileKeeps ==
    ASSUME Tidy, Types, Matching, While
    PROVE  Keeps
<1> DEFINE fr == [cond_line |-> ln]
<1>1. Reads({"while"}) /\ {"while"} \in SUBSET Alone
  BY DEF While, Alone, Opens
<1>2. /\ jmp = Stay /\ col <= Len(program[ln]) /\ ln \in Nat /\ ln + 1 \in Nat
  BY <1>1, ReadsIs
<1>3. /\ Unmoved /\ for_stack_' = for_stack_ /\ if_stack_' = if_stack_
      /\ do_stack_' = do_stack_ /\ select_stack_' = select_stack_
  BY DEF While, WhileMoves, Same, Unmoved, ghosts
<1>4. /\ Keyword(ln) = "while" /\ ln \in Lines
      /\ Ready => ~(frame_stack_ # <<>> /\ Top(frame_stack_).exiting)
  BY <1>1, AtWord
<1>5. Block(ln) /\ find_wend_line(ln) = Past(ln)
  BY <1>4, FindWend
<1>6. Ready => /\ Stored(Base) /\ Fits(for_stack_, while_stack_, if_stack_, select_stack_, Base, Around(ln))
               /\ OwnVars(for_stack_')
  BY <1>3, AtLine, BaseStored DEF Ready, Good
<1>7. while_stack_ \in Seq(WhileFrames) /\ fr \in WhileFrames /\ fr.cond_line = ln
  BY <1>2 DEF Types, WhileFrames
<1>8. CASE while_stack_' = Append(while_stack_, fr) /\ Returns(Stay)
  <2> HIDE DEF fr
  <2>1. Moved(ln + 1)
    BY <1>8, <1>2, ReturnsIs DEF Moved, Target_
  <2>2. while_stack_' \in Seq(WhileFrames)
    BY <1>7, <1>8
  <2>3. ASSUME Ready PROVE Fine(ln + 1)
    <3>1. Fits(for_stack_, Append(while_stack_, fr), if_stack_, select_stack_, Base, Around(ln + 1))
      BY <2>3, <1>4, <1>5, <1>6, <1>7, WhileFits
    <3>2. Stays(ln, ln + 1)
      BY <1>4, StaysNext
    <3> QED BY <2>3, <3>1, <3>2, <1>3, <1>4, <1>5, <1>6, <1>8, BlockFine
  <2> QED BY <1>2, <1>3, <2>1, <2>2, <2>3, Keeping DEF Unmoved, Types
<1>9. CASE Returns(find_wend_line(ln)) /\ while_stack_' = while_stack_
  <2>1. Past(ln) \in Nat /\ Past(ln) # Stay
    BY <1>5, PastIs, SpotsAre DEF Stay
  <2>2. Moved(Past(ln))
    BY <1>5, <1>9, <2>1, ReturnsIs DEF Moved, Target_
  <2>3. ASSUME Ready PROVE Fine(Past(ln))
    <3>1. ln <= ln /\ ln <= CloseOf(ln)
      BY <1>2, <1>5, BlockNat
    <3>2. Stays(ln, Past(ln))
      BY <3>1, <1>2, <1>5, StaysPast
    <3>3. Past(ln) # Halt => Around(Past(ln)) = Around(ln)
      BY <1>5, AroundPast
    <3> QED BY <2>3, <3>2, <3>3, <1>3, <1>4, <1>9, SameFine
  <2>4. while_stack_' \in Seq(WhileFrames)
    BY <1>7, <1>9
  <2> QED BY <1>2, <1>3, <2>2, <2>3, <2>4, Keeping DEF Unmoved, Types
<1> QED BY <1>8, <1>9 DEF While

LEMMA WendKeeps ==
    ASSUME Tidy, Types, Matching, Wend
    PROVE  Keeps
<1>1. Reads({"wend"}) /\ {"wend"} \in SUBSET Alone
  BY DEF Wend, Alone, Closes
<1>2. /\ jmp = Stay /\ col <= Len(program[ln]) /\ ln \in Nat /\ ln + 1 \in Nat
  BY <1>1, ReadsIs
<1>3. /\ Unmoved /\ for_stack_' = for_stack_ /\ if_stack_' = if_stack_
      /\ do_stack_' = do_stack_ /\ select_stack_' = select_stack_
  BY DEF Wend, WhileMoves, Same, Unmoved, ghosts
<1>4. /\ Keyword(ln) = "wend" /\ ln \in Lines
      /\ Ready => ~(frame_stack_ # <<>> /\ Top(frame_stack_).exiting)
  BY <1>1, AtWord
<1>5. PICK c : Block(c) /\ CloseOf(c) = ln /\ Keyword(c) = "while"
  BY <1>4, EndsWhat
<1>6. Around(ln) = Around(c + 1) /\ Stays(ln, c) /\ c \in Nat
  BY <1>5, AtEnd, BlockNat
<1>7. while_stack_ \in Seq(WhileFrames)
  BY DEF Types
<1>8. Ready => /\ Stored(Base) /\ Fits(for_stack_, while_stack_, if_stack_, select_stack_, Base, Around(c + 1))
               /\ OwnVars(for_stack_')
               /\ while_stack_ # <<>> /\ Top(while_stack_).cond_line = c
               /\ Fits(for_stack_, Pop(while_stack_), if_stack_, select_stack_, Base, Around(c))
  <2>1. Ready => /\ Stored(Base) /\ Fits(for_stack_, while_stack_, if_stack_, select_stack_, Base, Around(c + 1))
                 /\ OwnVars(for_stack_')
    BY <1>3, <1>6, AtLine, BaseStored DEF Ready, Good
  <2> QED BY <2>1, <1>5, <1>7, WhileFits
<1>9. CASE while_stack_ = <<>> /\ Returns(Stay) /\ while_stack_' = while_stack_
  <2>1. Moved(ln + 1)
    BY <1>9, <1>2, ReturnsIs DEF Moved, Target_
  <2> QED BY <1>2, <1>3, <1>7, <1>8, <1>9, <2>1, Keeping DEF Unmoved, Types
<1>10. CASE /\ while_stack_ # <<>> /\ while_stack_' = Pop(while_stack_)
            /\ Returns(Top(while_stack_).cond_line)
  <2>1. Top(while_stack_).cond_line \in Nat /\ Top(while_stack_).cond_line # Stay
    <3>1. Top(while_stack_) \in WhileFrames
      BY <1>7, <1>10, TopIs
    <3> QED BY <3>1 DEF WhileFrames, Stay
  <2>2. Moved(Top(while_stack_).cond_line)
    BY <1>10, <2>1, ReturnsIs DEF Moved, Target_
  <2>3. ASSUME Ready PROVE Fine(Top(while_stack_).cond_line)
    <3>1. Top(while_stack_).cond_line = c
      BY <2>3, <1>8
    <3> QED BY <2>3, <3>1, <1>3, <1>4, <1>5, <1>6, <1>8, <1>10, BlockFine
  <2>4. while_stack_' \in Seq(WhileFrames)
    BY <1>7, <1>10, PopType
  <2> QED BY <1>2, <1>3, <2>2, <2>3, <2>4, Keeping DEF Unmoved, Types
<1> QED BY <1>9, <1>10 DEF Wend

\* In a DO no call waits that has a DO around it: whatever do_stack_ holds will do.
LEMMA DosFree ==
    ASSUME Ready, NEW c, Block(c), Keyword(c) = "do", c <= ln, ln <= CloseOf(c), NEW d
    PROVE  DosHold(d)
<1> SUFFICES ASSUME NEW k \in DOMAIN pending, BackTo(pending[k]) # Halt
             PROVE  DoTop(d, Blocks[BackTo(pending[k])])
  BY DEF DosHold
<1>1. pending # <<>>
  OBVIOUS
<1>2. Tidy /\ ln \in Lines /\ Reached(ln)
  BY <1>1, AtLine DEF Ready
<1>3. Blocks[BackTo(pending[k])].dos \subseteq DoCalls
  BY DEF Ready, Good, CallHolds
<1>4. DoCalls = {}
  <2> SUFFICES ASSUME NEW e \in DoCalls PROVE FALSE
    OBVIOUS
  <2>1. Block(e) /\ Keyword(e) = "do" /\ Calls(e)
    BY KindWords DEF DoCalls, Block
  <2> QED BY <2>1, <1>2, NoDoCalls
<1> QED BY <1>3, <1>4 DEF DoTop

\* What a statement of a DO has to leave
LEMMA DoFine ==
    ASSUME Ready, NEW m, Stays(ln, m), NEW c, Block(c), Keyword(c) = "do", c <= ln, ln <= CloseOf(c),
           Around(ln) \in {Around(c), Around(c + 1)},
           for_stack_' = for_stack_, while_stack_' = while_stack_, if_stack_' = if_stack_,
           select_stack_' = select_stack_,
           ~(frame_stack_ # <<>> /\ Top(frame_stack_).exiting),
           m # Halt => \/ Around(m) = Around(c)
                       \/ Around(m) = Around(c + 1) /\ do_stack_' # <<>> /\ Top(do_stack_').do_line = c
    PROVE  Fine(m)
<1>1. DosHold(do_stack_') /\ OwnVars(for_stack_')
  BY DosFree DEF Ready, Good
<1>2. /\ Fits(for_stack_', while_stack_', if_stack_', select_stack_', Base, Around(c))
      /\ Fits(for_stack_', while_stack_', if_stack_', select_stack_', Base, Around(c + 1))
      /\ DoTop(do_stack_', Around(c))
      /\ do_stack_' # <<>> /\ Top(do_stack_').do_line = c => DoTop(do_stack_', Around(c + 1))
  <2>1. Fits(for_stack_', while_stack_', if_stack_', select_stack_', Base, Around(ln))
    BY AtLine
  <2> QED BY <2>1, DoFits DEF Ready
<1> QED BY <1>1, <1>2 DEF Fine

LEMMA DoKeeps ==
    ASSUME Tidy, Types, Matching, Do
    PROVE  Keeps
<1> DEFINE fr == [do_line |-> ln, pre |-> Stmt.x = "pre"]
<1>1. Reads({"do"}) /\ {"do"} \in SUBSET Alone
  BY DEF Do, Alone, Opens
<1>2. /\ jmp = Stay /\ col <= Len(program[ln]) /\ ln \in Nat /\ ln + 1 \in Nat
  BY <1>1, ReadsIs
<1>3. /\ Unmoved /\ for_stack_' = for_stack_ /\ if_stack_' = if_stack_
      /\ while_stack_' = while_stack_ /\ select_stack_' = select_stack_
  BY DEF Do, DoMoves, Same, Unmoved, ghosts
<1>4. /\ Keyword(ln) = "do" /\ ln \in Lines
      /\ Ready => ~(frame_stack_ # <<>> /\ Top(frame_stack_).exiting)
  BY <1>1, AtWord
<1>5. Block(ln) /\ From(ln, ln) /\ ln <= ln /\ ln <= CloseOf(ln)
  <2>1. Block(ln)
    BY <1>4, KindWords DEF Block
  <2> QED BY <2>1, <1>2, FromOpen, BlockNat
<1>6. do_stack_ \in Seq(DoFrames) /\ fr \in DoFrames /\ fr.do_line = ln
  BY <1>2 DEF Types, DoFrames
<1>7. CASE do_stack_' = Append(do_stack_, fr) /\ Returns(Stay)
  <2> HIDE DEF fr
  <2>1. Moved(ln + 1)
    BY <1>7, <1>2, ReturnsIs DEF Moved, Target_
  <2>2. do_stack_' \in Seq(DoFrames) /\ do_stack_' # <<>> /\ Top(do_stack_') = fr
    BY <1>6, <1>7 DEF Top
  <2>3. ASSUME Ready PROVE Fine(ln + 1)
    <3>1. Stays(ln, ln + 1)
      BY <1>4, StaysNext
    <3> QED BY <2>2, <2>3, <3>1, <1>3, <1>4, <1>5, <1>6, DoFine
  <2> QED BY <1>2, <1>3, <2>1, <2>2, <2>3, Keeping DEF Unmoved, Types
<1>8. CASE Returns(upper_bound(find_loop_line(ln))) /\ do_stack_' = do_stack_
  <2>1. upper_bound(find_loop_line(ln)) = Past(ln)
    BY <1>4, <1>5, FindLoop
  <2>2. Past(ln) \in Nat /\ Past(ln) # Stay
    BY <1>5, PastIs, SpotsAre DEF Stay
  <2>3. Moved(Past(ln))
    BY <1>8, <2>1, <2>2, ReturnsIs DEF Moved, Target_
  <2>4. ASSUME Ready PROVE Fine(Past(ln))
    <3>1. Stays(ln, Past(ln))
      BY <1>2, <1>5, StaysPast
    <3>2. Past(ln) # Halt => Around(Past(ln)) = Around(ln)
      BY <1>5, AroundPast
    <3> QED BY <2>4, <3>1, <3>2, <1>3, <1>4, <1>8, SameFine
  <2> QED BY <1>2, <1>3, <1>6, <1>8, <2>3, <2>4, Keeping DEF Unmoved, Types
<1> QED BY <1>7, <1>8 DEF Do

LEMMA LoopKeeps ==
    ASSUME Tidy, Types, Matching, Loop
    PROVE  Keeps
<1>1. Reads({"loop"}) /\ {"loop"} \in SUBSET Alone
  BY DEF Loop, Alone, Closes
<1>2. /\ jmp = Stay /\ col <= Len(program[ln]) /\ ln \in Nat /\ ln + 1 \in Nat
  BY <1>1, ReadsIs
<1>3. /\ Unmoved /\ for_stack_' = for_stack_ /\ if_stack_' = if_stack_
      /\ while_stack_' = while_stack_ /\ select_stack_' = select_stack_
  BY DEF Loop, DoMoves, Same, Unmoved, ghosts
<1>4. /\ Keyword(ln) = "loop" /\ ln \in Lines
      /\ Ready => ~(frame_stack_ # <<>> /\ Top(frame_stack_).exiting)
  BY <1>1, AtWord
<1>5. PICK c : Block(c) /\ CloseOf(c) = ln /\ Keyword(c) = "do"
  BY <1>4, EndsWhat
<1>6. /\ Around(ln) = Around(c + 1) /\ Around(ln + 1) = Around(c)
      /\ Stays(ln, c) /\ Stays(ln, ln + 1) /\ c \in Nat /\ c <= ln /\ ln <= CloseOf(c)
  BY <1>2, <1>5, AtEnd, BlockNat
<1>7. do_stack_ \in Seq(DoFrames)
  BY DEF Types
<1>8. Ready => do_stack_ # <<>> /\ Top(do_stack_).do_line = c
  <2>1. Ready => DoTop(do_stack_, Around(c + 1))
    BY <1>6, AtLine
  <2> QED BY <2>1, <1>5, DoFits
<1>9. CASE do_stack_ = <<>> /\ Returns(Stay) /\ do_stack_' = do_stack_
  <2>1. Moved(ln + 1)
    BY <1>9, <1>2, ReturnsIs DEF Moved, Target_
  <2> QED BY <1>2, <1>3, <1>7, <1>8, <1>9, <2>1, Keeping DEF Unmoved, Types
<1>10. CASE do_stack_ # <<>> /\ do_stack_' = do_stack_ /\ Returns(Top(do_stack_).do_line)
  <2>1. Top(do_stack_).do_line \in Nat /\ Top(do_stack_).do_line # Stay
    <3>1. Top(do_stack_) \in DoFrames
      BY <1>7, <1>10, TopIs
    <3> QED BY <3>1 DEF DoFrames, Stay
  <2>2. Moved(Top(do_stack_).do_line)
    BY <1>10, <2>1, ReturnsIs DEF Moved, Target_
  <2>3. ASSUME Ready PROVE Fine(Top(do_stack_).do_line)
    <3>1. Top(do_stack_).do_line = c
      BY <2>3, <1>8
    <3> QED BY <2>3, <3>1, <1>3, <1>4, <1>5, <1>6, DoFine
  <2> QED BY <1>2, <1>3, <1>7, <1>10, <2>2, <2>3, Keeping DEF Unmoved, Types
<1>11. CASE do_stack_ # <<>> /\ do_stack_' = Pop(do_stack_) /\ Returns(Stay)
  <2>1. Moved(ln + 1)
    BY <1>11, <1>2, ReturnsIs DEF Moved, Target_
  <2>2. ASSUME Ready PROVE Fine(ln + 1)
    BY <2>2, <1>3, <1>4, <1>5, <1>6, DoFine
  <2>3. do_stack_' \in Seq(DoFrames)
    BY <1>7, <1>11, PopType
  <2> QED BY <1>2, <1>3, <2>1, <2>2, <2>3, Keeping DEF Unmoved, Types
<1> QED BY <1>9, <1>10, <1>11 DEF Loop

LEMMA ExitDoKeeps ==
    ASSUME Tidy, Types, Matching, ExitDo
    PROVE  Keeps
<1>1. Reads({"exitdo"})
  BY DEF ExitDo
<1>2. /\ jmp = Stay /\ col <= Len(program[ln]) /\ ln \in Nat /\ ln + 1 \in Nat /\ ln \in Lines
      /\ col \in DOMAIN program[ln] /\ Stmt = program[ln][col] /\ Stmt.op = "exitdo"
  BY <1>1, ReadsIs
<1>3. /\ Unmoved /\ for_stack_' = for_stack_ /\ if_stack_' = if_stack_
      /\ while_stack_' = while_stack_ /\ select_stack_' = select_stack_
  BY DEF ExitDo, DoMoves, Same, Unmoved, ghosts
<1>4. PICK c : Within(ln, c) /\ From(ln, c) /\ Keyword(c) = "do"
  BY <1>2, ExitIs
<1>5. /\ Block(c) /\ Around(ln) = Around(c + 1) /\ c \in Nat /\ c <= ln /\ ln <= CloseOf(c)
  BY <1>2, <1>4, FromIs, AroundInner
<1>6. do_stack_ \in Seq(DoFrames)
  BY DEF Types
<1>7. Ready => do_stack_ # <<>>
  <2>1. Ready => DoTop(do_stack_, Around(c + 1))
    BY <1>5, AtLine
  <2> QED BY <2>1, <1>4, <1>5, DoFits
<1>8. CASE do_stack_ = <<>> /\ Returns(Stay) /\ do_stack_' = do_stack_
  <2>1. Moved(ln + 1)
    BY <1>8, <1>2, ReturnsIs DEF Moved, Target_
  <2> QED BY <1>2, <1>3, <1>6, <1>7, <1>8, <2>1, Keeping DEF Unmoved, Types
<1>9. CASE /\ do_stack_ # <<>> /\ do_stack_' = Pop(do_stack_)
           /\ Returns(upper_bound(find_loop_line(ln)))
  <2>1. upper_bound(find_loop_line(ln)) = Past(c)
    BY <1>4, FindLoop
  <2>2. Past(c) \in Nat /\ Past(c) # Stay
    BY <1>5, PastIs, SpotsAre DEF Stay
  <2>3. Moved(Past(c))
    BY <1>9, <2>1, <2>2, ReturnsIs DEF Moved, Target_
  <2>4. ASSUME Ready PROVE Fine(Past(c))
    <3>1. Stays(ln, Past(c))
      BY <1>2, <1>5, StaysPast
    <3>2. Past(c) # Halt => Around(Past(c)) = Around(c)
      BY <1>5, AroundPast
    <3>3. ~(frame_stack_ # <<>> /\ Top(frame_stack_).exiting)
      BY <2>4, <1>4, ExitAt
    <3> QED BY <2>4, <3>1, <3>2, <3>3, <1>3, <1>4, <1>5, DoFine
  <2>5. do_stack_' \in Seq(DoFrames)
    BY <1>6, <1>9, PopType
  <2> QED BY <1>2, <1>3, <2>3, <2>4, <2>5, Keeping DEF Unmoved, Types
<1> QED BY <1>8, <1>9 DEF ExitDo

-----------------------------------------------------------------------------
(* SELECT CASE                                                             *)

LEMMA ToCaseTypes ==
    ASSUME Tidy, NEW frames \in Seq(SelectFrames), frames # <<>>, NEW m \in Nat, ToCase(m, frames)
    PROVE  jmp' \in Nat /\ Returns(jmp') /\ select_stack_' \in Seq(SelectFrames)
<1>1. After(m) \in Nat
  BY ScanTypes
<1>2. \/ select_stack_' = Pop(frames) /\ Returns(After(m))
      \/ select_stack_' = frames /\ Returns(m)
  BY DEF ToCase
<1>3. Pop(frames) \in Seq(SelectFrames)
  BY TopIs
<1>4. \A j : Returns(j) => jmp' = j
  BY DEF Returns
<1> QED BY <1>1, <1>2, <1>3, <1>4

\* On to a CASE of the block, or behind it
LEMMA ToCaseIs ==
    ASSUME Tidy, NEW c, From(ln, c), Keyword(c) = "select", NEW m, Branches(ln, c, {"case", "caseelse"}, m),
           NEW frames, ToCase(m, frames)
    PROVE  /\ Stays(ln, jmp')
           /\ jmp' # Halt => \/ select_stack_' = Pop(frames) /\ Around(jmp') = Around(c)
                             \/ select_stack_' = frames /\ Around(jmp') = Around(c + 1)
<1>1. /\ m \in Lines /\ ln < m
      /\ m = CloseOf(c) \/ (Keyword(m) \in {"case", "caseelse"} /\ Within(m, c))
  BY DEF Branches
<1>2. /\ Block(c) /\ ln \in Nat /\ c \in Nat /\ c <= ln /\ CloseOf(c) \in Nat /\ ln <= CloseOf(c)
      /\ Keyword(CloseOf(c)) = "endselect"
  <2>1. Block(c) /\ ln \in Nat /\ c \in Nat /\ c <= ln /\ CloseOf(c) \in Nat /\ ln < CloseOf(c)
    BY FromIs
  <2>2. Closer("select") = "endselect"
    BY DEF Closer, ForWords
  <2>3. ln <= CloseOf(c)
    BY <2>1
  <2> QED BY <2>1, <2>2, <2>3, CloseIs
<1>3. m \in Nat /\ m # 0
  BY <1>1, Text
<1>4. IF Keyword(m) = "endselect" THEN select_stack_' = Pop(frames) /\ jmp' = After(m)
      ELSE select_stack_' = frames /\ jmp' = m
  BY <1>3 DEF ToCase, Returns
<1>5. CASE m = CloseOf(c)
  <2>1. select_stack_' = Pop(frames) /\ jmp' = Past(c)
    BY <1>2, <1>4, <1>5, PastIs
  <2>2. Stays(ln, Past(c))
    BY <1>2, StaysPast
  <2> QED BY <2>1, <2>2, <1>2, AroundPast
<1>6. CASE Keyword(m) \in {"case", "caseelse"} /\ Within(m, c)
  <2>1. select_stack_' = frames /\ jmp' = m
    BY <1>4, <1>6
  <2>2. c < m /\ m <= CloseOf(c)
    BY <1>1, <1>6, Inner, KindWords
  <2>3. Stays(ln, m)
    <3>1. c <= m /\ m <= CloseOf(c) + 1
      BY <1>2, <1>3, <2>2
    <3> QED BY <3>1, <1>2, <1>3, StaysBlock
  <2>4. Around(m) = Around(c + 1)
    BY <1>1, <1>6, AroundInner
  <2> QED BY <2>1, <2>3, <2>4
<1> QED BY <1>1, <1>5, <1>6

LEMMA SelectKeeps ==
    ASSUME Tidy, Types, Matching, Select
    PROVE  Keeps
<1> DEFINE fr == [matched |-> FALSE, select_line |-> ln]
           frames == Append(select_stack_, fr)
<1>1. Reads({"select"}) /\ {"select"} \in SUBSET Alone
  BY DEF Select, Alone, Opens
<1>2. /\ jmp = Stay /\ col <= Len(program[ln]) /\ ln \in Nat /\ ln + 1 \in Nat
  BY <1>1, ReadsIs
<1>3. /\ Unmoved /\ for_stack_' = for_stack_ /\ while_stack_' = while_stack_
      /\ do_stack_' = do_stack_ /\ if_stack_' = if_stack_
  BY DEF Select, SelectMoves, Same, Unmoved, ghosts
<1>4. /\ Keyword(ln) = "select" /\ ln \in Lines
      /\ Ready => ~(frame_stack_ # <<>> /\ Top(frame_stack_).exiting)
  BY <1>1, AtWord
<1>5. Block(ln) /\ From(ln, ln) /\ Branches(ln, ln, {"case", "caseelse"}, first_case(ln))
  BY <1>4, FindFirst, FromOpen
<1>6. first_case(ln) \in Nat /\ first_case(ln) # 0
  BY <1>2, <1>5, ScanTypes, Text DEF Branches
<1>7. ToCase(first_case(ln), frames)
  BY <1>6 DEF Select
<1>8. select_stack_ \in Seq(SelectFrames) /\ fr \in SelectFrames /\ fr.select_line = ln
  BY <1>2 DEF Types, SelectFrames
<1> HIDE DEF fr
<1>9. frames \in Seq(SelectFrames) /\ frames # <<>> /\ Pop(frames) = select_stack_
  BY <1>8 DEF Pop, Front
<1>10. Ready => /\ Stored(Base) /\ Fits(for_stack_, while_stack_, if_stack_, select_stack_, Base, Around(ln))
                /\ OwnVars(for_stack_') /\ Fits(for_stack_, while_stack_, if_stack_, frames, Base, Around(ln + 1))
  <2>1. Ready => /\ Stored(Base) /\ Fits(for_stack_, while_stack_, if_stack_, select_stack_, Base, Around(ln))
                 /\ OwnVars(for_stack_')
    BY <1>3, AtLine, BaseStored DEF Ready, Good
  <2> QED BY <2>1, <1>4, <1>5, <1>8, SelectFits
<1> HIDE DEF frames
<1>11. jmp' \in Nat /\ Returns(jmp') /\ select_stack_' \in Seq(SelectFrames)
  BY <1>6, <1>7, <1>9, ToCaseTypes
<1>12. Moved(jmp')
  BY <1>11, ReturnsIs DEF Moved, Target_, Stay
<1>13. ASSUME Ready PROVE Fine(jmp')
  <2>1. /\ Stays(ln, jmp')
        /\ jmp' # Halt => \/ select_stack_' = Pop(frames) /\ Around(jmp') = Around(ln)
                          \/ select_stack_' = frames /\ Around(jmp') = Around(ln + 1)
    BY <1>4, <1>5, <1>7, ToCaseIs
  <2> QED BY <2>1, <1>3, <1>4, <1>5, <1>9, <1>10, <1>13, BlockFine
<1> QED BY <1>2, <1>3, <1>11, <1>12, <1>13, Keeping DEF Unmoved, Types

LEMMA CaseKeeps ==
    ASSUME Tidy, Types, Matching, Case
    PROVE  Keeps
<1>1. Reads({"case", "caseelse"}) /\ {"case", "caseelse"} \in SUBSET Alone
  BY DEF Case, Alone, Mids
<1>2. jmp = Stay /\ col <= Len(program[ln]) /\ ln \in Nat /\ ln + 1 \in Nat
  BY <1>1, ReadsIs
<1>3. /\ Unmoved /\ for_stack_' = for_stack_ /\ while_stack_' = while_stack_
      /\ do_stack_' = do_stack_ /\ if_stack_' = if_stack_
  BY DEF Case, SelectMoves, Same, Unmoved, ghosts
<1>4. /\ Keyword(ln) \in {"case", "caseelse"} /\ ln \in Lines
      /\ Ready => ~(frame_stack_ # <<>> /\ Top(frame_stack_).exiting)
  BY <1>1, AtWord
<1>5. PICK c \in 1..(ln - 1) : Keyword(c) \in {"select"} /\ Within(ln, c)
  BY <1>4 DEF Tidy, Nested, InA
<1>6. /\ Keyword(c) = "select" /\ Within(ln, c) /\ From(ln, c) /\ Block(c) /\ Around(ln) = Around(c + 1)
      /\ c \in Nat /\ c \in Lines /\ c <= ln /\ ln <= CloseOf(c)
  <2>1. Keyword(ln) \notin Opens \cup Closes
    BY <1>4 DEF Opens, Closes
  <2>2. From(ln, c) /\ Around(ln) = Around(c + 1)
    BY <2>1, <1>4, <1>5, FromWithin, AroundInner
  <2>3. Block(c) /\ c \in Nat /\ c <= ln /\ CloseOf(c) \in Nat /\ ln < CloseOf(c)
    BY <2>2, FromIs
  <2> QED BY <2>2, <2>3, <1>2, <1>5 DEF Block
<1>7. select_stack_ \in Seq(SelectFrames)
  BY DEF Types
<1>8. Ready => /\ Stored(Base) /\ Fits(for_stack_, while_stack_, if_stack_, select_stack_, Base, Around(c + 1))
               /\ OwnVars(for_stack_')
               /\ select_stack_ # <<>> /\ Top(select_stack_).select_line = c
               /\ Fits(for_stack_, while_stack_, if_stack_, Pop(select_stack_), Base, Around(c))
               /\ Fits(for_stack_, while_stack_, if_stack_, Matched(select_stack_), Base, Around(c + 1))
  <2>1. Ready => /\ Stored(Base) /\ Fits(for_stack_, while_stack_, if_stack_, select_stack_, Base, Around(c + 1))
                 /\ OwnVars(for_stack_')
    BY <1>3, <1>6, AtLine, BaseStored DEF Ready, Good
  <2> QED BY <2>1, <1>6, <1>7, SelectFits
<1>9. \/ select_stack_ = <<>> /\ Returns(Stay) /\ select_stack_' = select_stack_
      \/ /\ select_stack_ # <<>> /\ select_stack_' = Pop(select_stack_)
         /\ Returns(find_end_select_line(Top(select_stack_).select_line))
      \/ select_stack_ # <<>> /\ select_stack_' = Matched(select_stack_) /\ Returns(Stay)
      \/ next_case(ln) = 0 /\ Returns(Halt) /\ select_stack_' = select_stack_
      \/ select_stack_ # <<>> /\ ToCase(next_case(ln), select_stack_)
  BY DEF Case, Matched
<1>10. CASE select_stack_ = <<>> /\ Returns(Stay) /\ select_stack_' = select_stack_
  <2>1. Moved(ln + 1)
    BY <1>10, <1>2, ReturnsIs DEF Moved, Target_
  <2> QED BY <1>2, <1>3, <1>7, <1>8, <1>10, <2>1, Keeping DEF Unmoved, Types
<1>11. CASE /\ select_stack_ # <<>> /\ select_stack_' = Pop(select_stack_)
            /\ Returns(find_end_select_line(Top(select_stack_).select_line))
  <2> DEFINE m == find_end_select_line(Top(select_stack_).select_line)
  <2>1. m \in Nat /\ m # Stay
    <3>1. Top(select_stack_) \in SelectFrames
      BY <1>7, <1>11, TopIs
    <3>2. Top(select_stack_).select_line \in Nat
      BY <3>1 DEF SelectFrames
    <3>3. \A k \in Nat : find_end_select_line(k) \in Nat
      BY ScanTypes
    <3> QED BY <3>2, <3>3 DEF Stay
  <2>2. Moved(m)
    BY <2>1, <1>11, ReturnsIs DEF Moved, Target_
  <2>3. select_stack_' \in Seq(SelectFrames)
    BY <1>7, <1>11, PopType
  <2>4. ASSUME Ready PROVE Fine(m)
    <3>1. m = Past(c)
      BY <2>4, <1>6, <1>8, FindEndSelect
    <3>2. Stays(ln, Past(c))
      BY <1>2, <1>6, StaysPast
    <3>3. Past(c) # Halt => Around(Past(c)) = Around(c)
      BY <1>6, AroundPast
    <3> HIDE DEF m
    <3> QED BY <2>4, <3>1, <3>2, <3>3, <1>3, <1>4, <1>6, <1>8, <1>11, BlockFine
  <2> HIDE DEF m
  <2> QED BY <1>2, <1>3, <2>2, <2>3, <2>4, Keeping DEF Unmoved, Types
<1>12. CASE select_stack_ # <<>> /\ select_stack_' = Matched(select_stack_) /\ Returns(Stay)
  <2>1. Moved(ln + 1)
    BY <1>12, <1>2, ReturnsIs DEF Moved, Target_
  <2>2. select_stack_' \in Seq(SelectFrames)
    BY <1>7, <1>12, MarkTypes
  <2>3. ASSUME Ready PROVE Fine(ln + 1)
    <3>1. Stays(ln, ln + 1) /\ Around(ln + 1) = Around(c + 1)
      BY <1>4, <1>6, StaysNext, AroundPlain DEF Opens, Closes
    <3> QED BY <2>3, <3>1, <1>3, <1>4, <1>6, <1>8, <1>12, BlockFine
  <2> QED BY <1>2, <1>3, <2>1, <2>2, <2>3, Keeping DEF Unmoved, Types
<1>13. CASE next_case(ln) = 0 /\ Returns(Halt) /\ select_stack_' = select_stack_
  <2>1. Branches(ln, c, {"case", "caseelse"}, next_case(ln))
    BY <1>6, FindCase
  <2>2. next_case(ln) # 0
    BY <2>1, Text DEF Branches
  <2> QED BY <2>2, <1>13
<1>14. CASE select_stack_ # <<>> /\ ToCase(next_case(ln), select_stack_)
  <2>1. next_case(ln) \in Nat
    BY <1>2, ScanTypes
  <2>2. jmp' \in Nat /\ Returns(jmp') /\ select_stack_' \in Seq(SelectFrames)
    BY <2>1, <1>7, <1>14, ToCaseTypes
  <2>3. Moved(jmp')
    BY <2>2, ReturnsIs DEF Moved, Target_, Stay
  <2>4. ASSUME Ready PROVE Fine(jmp')
    <3>1. Branches(ln, c, {"case", "caseelse"}, next_case(ln))
      BY <1>6, FindCase
    <3>2. /\ Stays(ln, jmp')
          /\ jmp' # Halt => \/ select_stack_' = Pop(select_stack_) /\ Around(jmp') = Around(c)
                            \/ select_stack_' = select_stack_ /\ Around(jmp') = Around(c + 1)
      BY <3>1, <1>6, <1>14, ToCaseIs
    <3> QED BY <2>4, <3>2, <1>3, <1>4, <1>6, <1>8, BlockFine
  <2> QED BY <1>2, <1>3, <2>2, <2>3, <2>4, Keeping DEF Unmoved, Types
<1> QED BY <1>9, <1>10, <1>11, <1>12, <1>13, <1>14

LEMMA EndSelectKeeps ==
    ASSUME Tidy, Types, Matching, EndSelect
    PROVE  Keeps
<1>1. Reads({"endselect"}) /\ {"endselect"} \in SUBSET Alone
  BY DEF EndSelect, Alone, Closes
<1>2. jmp = Stay /\ col <= Len(program[ln]) /\ ln \in Nat /\ ln + 1 \in Nat
  BY <1>1, ReadsIs
<1>3. /\ Unmoved /\ for_stack_' = for_stack_ /\ while_stack_' = while_stack_
      /\ do_stack_' = do_stack_ /\ if_stack_' = if_stack_
  BY DEF EndSelect, SelectMoves, Same, Unmoved, ghosts
<1>4. /\ Keyword(ln) = "endselect" /\ ln \in Lines
      /\ Ready => ~(frame_stack_ # <<>> /\ Top(frame_stack_).exiting)
  BY <1>1, AtWord
<1>5. PICK c : Block(c) /\ CloseOf(c) = ln /\ Keyword(c) = "select"
  BY <1>4, EndsWhat
<1>6. Around(ln) = Around(c + 1) /\ Around(ln + 1) = Around(c) /\ Stays(ln, ln + 1)
  BY <1>5, AtEnd
<1>7. select_stack_ \in Seq(SelectFrames)
  BY DEF Types
<1>8. Ready => /\ Stored(Base) /\ Fits(for_stack_, while_stack_, if_stack_, select_stack_, Base, Around(c + 1))
               /\ OwnVars(for_stack_') /\ select_stack_ # <<>>
               /\ Fits(for_stack_, while_stack_, if_stack_, Pop(select_stack_), Base, Around(c))
  <2>1. Ready => /\ Stored(Base) /\ Fits(for_stack_, while_stack_, if_stack_, select_stack_, Base, Around(c + 1))
                 /\ OwnVars(for_stack_')
    BY <1>3, <1>6, AtLine, BaseStored DEF Ready, Good
  <2> QED BY <2>1, <1>5, <1>7, SelectFits
<1>9. select_stack_' = (IF select_stack_ = <<>> THEN <<>> ELSE Pop(select_stack_)) /\ Returns(Stay)
  BY DEF EndSelect
<1>10. Moved(ln + 1)
  BY <1>2, <1>9, ReturnsIs DEF Moved, Target_
<1>11. select_stack_' \in Seq(SelectFrames)
  BY <1>7, <1>9, PopType
<1>12. ASSUME Ready PROVE Fine(ln + 1)
  <2>1. select_stack_' = Pop(select_stack_)
    BY <1>8, <1>9, <1>12
  <2> QED BY <1>12, <2>1, <1>3, <1>4, <1>5, <1>6, <1>8, BlockFine
<1> QED BY <1>2, <1>3, <1>10, <1>11, <1>12, Keeping DEF Unmoved, Types

-----------------------------------------------------------------------------
(* Calls and returns                                                       *)

\* What holds at a call: every loop that is open has a call in it, and so does every DO.
LEMMA CallingLoops ==
    ASSUME Ready, Stmt.op \in {"gosub", "call"}
    PROVE  /\ \A i \in DOMAIN for_stack_ : for_stack_[i].body_line - 1 \in LoopCalls
           /\ Around(ln).dos \subseteq DoCalls
<1>1. /\ ln \in Lines /\ ln \in Spots /\ col \in DOMAIN program[ln] /\ Stmt = program[ln][col] /\ Tidy
      /\ Fits(for_stack_, while_stack_, if_stack_, select_stack_, Base, Around(ln))
  BY AtLine, SpotsAre DEF Ready
<1>2. \A c \in Enclosing(ln, Opens) : Block(c) /\ Calls(c)
  BY <1>1, CallsIs
<1>3. ASSUME NEW ops \in SUBSET Opens, NEW c \in Enclosing(ln, ops)
      PROVE  Block(c) /\ Calls(c) /\ Keyword(c) \in ops
  <2>1. Block(c) /\ c \in Nat /\ c < ln /\ ln <= CloseOf(c) /\ Keyword(c) \in ops
    BY <1>1, <1>3, Encloses
  <2>2. c \in Enclosing(ln, Opens)
    BY <1>1, <2>1, Encloses, KindWords DEF Block
  <2> QED BY <1>2, <2>1, <2>2
<1>4. Around(ln).dos \subseteq DoCalls
  <2> SUFFICES ASSUME NEW c \in Enclosing(ln, {"do"}) PROVE c \in DoCalls
    BY DEF Around
  <2>1. Block(c) /\ Calls(c) /\ Keyword(c) \in {"do"}
    BY <1>3, KindWords
  <2> QED BY <2>1 DEF DoCalls, Block
<1>5. ASSUME NEW i \in DOMAIN for_stack_ PROVE for_stack_[i].body_line - 1 \in LoopCalls
  <2> DEFINE d == for_stack_[i].body_line - 1
  <2>1. /\ for_stack_ \in Seq(ForFrames) /\ Base.fors \in Seq(ForFrames)
    BY BaseStored DEF Ready, Types, Stored
  <2>2. PICK n \in Nat, k \in Nat : Len(for_stack_) = n /\ Len(Base.fors) = k
                                    /\ DOMAIN for_stack_ = 1..n /\ DOMAIN Base.fors = 1..k
    BY <2>1
  <2>3. CASE i > k
    <3>1. ForLines(for_stack_)[i] = d /\ DOMAIN ForLines(for_stack_) = DOMAIN for_stack_
      BY DEF ForLines
    <3>2. ForLines(for_stack_)[i] \in Around(ln).fors
      BY <1>1, <2>2, <2>3, <3>1 DEF Fits, Fit, Lists
    <3>3. d \in Enclosing(ln, ForWords)
      BY <3>1, <3>2 DEF Around
    <3> HIDE DEF d
    <3>4. Block(d) /\ Calls(d) /\ Keyword(d) \in ForWords
      BY <3>3, <1>3, KindWords
    <3> QED BY <3>4 DEF d, LoopCalls, Block
  <2>4. CASE ~(i > k)
    <3>1. i \in 1..k
      BY <2>2, <2>4
    <3>2. for_stack_[i] = Base.fors[i]
      BY <3>1, <1>1, <2>2 DEF Fits, Fit, Kept
    <3>3. pending # <<>>
      <4> SUFFICES ASSUME pending = <<>> PROVE FALSE
        OBVIOUS
      <4>1. Base.fors = <<>>
        BY DEF Base
      <4>2. k = 0
        BY <4>1, <2>2
      <4> QED BY <4>2, <3>1
    <3>4. Len(pending) \in DOMAIN pending /\ Base = pending[Len(pending)]
      BY <3>3, TopIs DEF Ready, Types, Base
    <3> QED BY <3>1, <3>2, <3>4, <2>2 DEF Ready, Good, CallHolds
  <2> QED BY <2>3, <2>4
<1> QED BY <1>4, <1>5

\* A sequence with one more at its end
LEMMA Longer ==
    ASSUME NEW A, NEW s \in Seq(A), NEW r
    PROVE  /\ Len(Append(s, r)) = Len(s) + 1 /\ Len(s) \in Nat
           /\ DOMAIN Append(s, r) = 1..(Len(s) + 1) /\ DOMAIN s = 1..Len(s)
           /\ Append(s, r)[Len(s) + 1] = r /\ Append(s, r) # <<>> /\ Top(Append(s, r)) = r
           /\ \A k \in 1..Len(s) : Append(s, r)[k] = s[k] /\ k \in 1..(Len(s) + 1)
           /\ \A k \in 1..(Len(s) + 1) : k \in 1..Len(s) \/ k = Len(s) + 1
<1>1. PICK n \in Nat : n = Len(s) /\ DOMAIN s = 1..n
  OBVIOUS
<1>2. Len(Append(s, r)) = n + 1 /\ DOMAIN Append(s, r) = 1..(n + 1) /\ Append(s, r)[n + 1] = r
      /\ \A k \in 1..n : Append(s, r)[k] = s[k] /\ k \in 1..(n + 1)
  BY <1>1
<1>3. Append(s, r) # <<>>
  BY <1>1, <1>2
<1> QED BY <1>1, <1>2, <1>3 DEF Top

\* A call from here: what it has to come back to is kept as it must be, and the stacks
\* fit the first line of what is called.
LEMMA CallGood ==
    ASSUME Ready, Stmt.op \in {"gosub", "call"}, NEW r, r \in Saved,
           r.fors = for_stack_, r.whiles = while_stack_, r.ifs = if_stack_, r.selects = select_stack_,
           BackTo(r) \in {Halt, ln + 1}, Around(ln + 1) = Around(ln),
           pending' = Append(pending, r), program' = program,
           for_stack_' = for_stack_, while_stack_' = while_stack_, if_stack_' = if_stack_,
           do_stack_' = do_stack_, select_stack_' = select_stack_,
           Here' \in Nat, Around(Here') = Outside
    PROVE  /\ OwnVars(for_stack_)' /\ (\A k \in DOMAIN pending' : CallHolds(pending, k)')
           /\ DosHold(do_stack_)' /\ StacksFit'
<1>1. /\ Blocks' = Blocks /\ Loops' = Loops /\ LoopCalls' = LoopCalls /\ DoCalls' = DoCalls
  BY TextSame
<1>2. PICK n \in Nat : n = Len(pending) /\ DOMAIN pending = 1..n
  BY DEF Ready, Types
<1>3. /\ DOMAIN pending' = 1..(n + 1) /\ pending'[n + 1] = r /\ pending' # <<>> /\ Top(pending') = r
      /\ \A k \in 1..n : pending'[k] = pending[k]
      /\ \A k \in 1..(n + 1) : k \in 1..n \/ k = n + 1
  <2>1. pending \in Seq(Saved)
    BY DEF Ready, Types
  <2> QED BY <1>2, <2>1, Longer
<1>4. \A k \in 1..n : k # 1 => (k - 1) \in 1..n
  OBVIOUS
<1>5. \A k \in 1..n : Under(pending', k) = Under(pending, k)
  BY <1>3, <1>4 DEF Under
<1>6. Under(pending', n + 1) = Base /\ Stored(Base)
  <2>1. Base = Under(pending, n + 1) /\ Stored(Base)
    BY <1>2, BaseStored DEF Ready
  <2>2. ((n + 1) - 1) = n /\ (n + 1 # 1 => n \in 1..n)
    OBVIOUS
  <2>3. Under(pending', n + 1) = Under(pending, n + 1)
    BY <2>2, <1>3 DEF Under
  <2> QED BY <2>1, <2>3
<1>7. ln + 1 \in Nat /\ ln + 1 # Halt
  BY HereType DEF Ready
<1>8. /\ Fits(for_stack_, while_stack_, if_stack_, select_stack_, Base, Blocks[ln + 1])
      /\ DoTop(do_stack_, Blocks[ln + 1])
      /\ Blocks[ln + 1].dos \subseteq DoCalls
      /\ \A i \in DOMAIN for_stack_ : for_stack_[i].body_line - 1 \in LoopCalls
  BY <1>7, AtLine, CallingLoops, BlocksAre
<1>9. OwnVars(for_stack_)'
  BY <1>1 DEF Ready, Good, OwnVars
<1>10. ASSUME NEW k \in DOMAIN pending' PROVE CallHolds(pending, k)'
  <2>1. CASE k \in 1..n
    <3>1. CallHolds(pending, k)
      BY <1>2, <2>1 DEF Ready, Good
    <3> QED BY <3>1, <2>1, <1>1, <1>3, <1>5 DEF CallHolds, BackTo
  <2>2. CASE k = n + 1
    BY <2>2, <1>1, <1>3, <1>6, <1>8 DEF CallHolds
  <2> QED BY <2>1, <2>2, <1>3
<1>11. DosHold(do_stack_)'
  <2>1. ASSUME NEW k \in 1..(n + 1), BackTo(pending'[k]) # Halt
        PROVE  DoTop(do_stack_, Blocks[BackTo(pending'[k])])
    <3>1. CASE k \in 1..n
      <4>1. pending'[k] = pending[k]
        BY <3>1, <1>3
      <4> QED BY <4>1, <3>1, <2>1, <1>2 DEF Ready, Good, DosHold
    <3>2. CASE k = n + 1
      BY <3>2, <2>1, <1>3, <1>8
    <3> QED BY <3>1, <3>2, <1>3
  <2>2. \A k \in 1..(n + 1) : BackTo(pending'[k]) # Halt => DoTop(do_stack_, Blocks[BackTo(pending'[k])])
    BY <2>1
  <2> QED BY <2>2, <1>1, <1>3 DEF DosHold
<1>12. StacksFit'
  <2>1. Base' = r /\ Stored(r)
    BY <1>3 DEF Base, Stored, Saved
  <2>2. /\ for_stack_ \in Seq(ForFrames) /\ while_stack_ \in Seq(WhileFrames)
        /\ if_stack_ \in Seq(IfFrames) /\ select_stack_ \in Seq(SelectFrames)
    BY DEF Ready, Types
  <2>3. Fits(for_stack_, while_stack_, if_stack_, select_stack_, r, Outside) /\ DoTop(do_stack_, Outside)
    BY <2>1, <2>2, FitsOutside
  <2>4. Blocks'[Here'] = Outside
    BY <1>1, BlocksAre
  <2> QED BY <2>1, <2>3, <2>4 DEF StacksFit
<1> QED BY <1>9, <1>10, <1>11, <1>12

LEMMA GosubKeeps ==
    ASSUME Tidy, Types, Matching, Gosub
    PROVE  Keeps
<1> DEFINE r == Comeback("gosub", <<upper_bound(ln), 1>>)
<1>1. Reads({"gosub"}) /\ {"gosub"} \cap (Alone \cup {"return"}) = {}
  BY DEF Gosub, Alone, Opens, Closes, Mids
<1>2. /\ jmp = Stay /\ col <= Len(program[ln]) /\ Stmt = program[ln][col] /\ Stmt.op = "gosub"
      /\ ln \in Nat /\ ln + 1 \in Nat /\ ln \in Lines /\ col \in DOMAIN program[ln] /\ Stmt \in Stmts(ln)
  <2>1. /\ jmp = Stay /\ col <= Len(program[ln]) /\ Stmt = program[ln][col] /\ Stmt.op = "gosub"
        /\ ln \in Nat /\ ln + 1 \in Nat /\ ln \in Lines /\ col \in DOMAIN program[ln]
    BY <1>1, ReadsIs
  <2> QED BY <2>1 DEF Stmts, ToSet
<1>3. /\ program' = program /\ for_stack_' = for_stack_ /\ while_stack_' = while_stack_
      /\ if_stack_' = if_stack_ /\ do_stack_' = do_stack_ /\ select_stack_' = select_stack_
      /\ frame_stack_' = frame_stack_ /\ call_stack_' = Append(call_stack_, upper_bound(ln))
      /\ pending' = Append(pending, r) /\ Returns(Target(Stmt.x))
  BY DEF Gosub, CallMoves, Same, ReturnLine
<1>4. /\ Label(Stmt.x) \in Lines /\ Label(Stmt.x) > 0 /\ Around(Label(Stmt.x)) = Outside
      /\ InRoutine(Label(Stmt.x)) /\ \A e : ~Inside(ln, e)
  BY <1>2, GosubIs
<1>5. Label(Stmt.x) \in Nat /\ Target(Stmt.x) = Label(Stmt.x) /\ Label(Stmt.x) # Stay /\ Label(Stmt.x) # Halt
  BY <1>4, Text DEF Target, Stay, Halt
<1>6. jmp' = Label(Stmt.x) /\ ln' = ln /\ col' = col /\ Here' = Label(Stmt.x)
  BY <1>3, <1>5 DEF Returns, Here
<1>7. frame_stack_ = <<>>
  BY <1>2, <1>4 DEF Matching, Bodies
<1>8. /\ r \in Saved /\ r.kind = "gosub" /\ r.place[1] = upper_bound(ln)
      /\ r.fors = for_stack_ /\ r.whiles = while_stack_ /\ r.ifs = if_stack_ /\ r.selects = select_stack_
      /\ BackTo(r) = upper_bound(ln) /\ upper_bound(ln) \in Nat
  <2>1. upper_bound(ln) \in Nat
    BY <1>2, ScanTypes
  <2> QED BY <2>1 DEF Comeback, Saved, BackTo, Types
<1> HIDE DEF r
<1>9. PICK n \in Nat : n = Len(pending) /\ n = Len(call_stack_)
  <2>1. Len(frame_stack_) = 0 /\ Len(call_stack_) \in Nat
    BY <1>7 DEF Types
  <2> QED BY <2>1 DEF Matching
<1>10. /\ DOMAIN call_stack_' = 1..(n + 1) /\ Len(call_stack_') = n + 1 /\ call_stack_'[n + 1] = upper_bound(ln)
       /\ \A k \in 1..n : call_stack_'[k] = call_stack_[k]
       /\ DOMAIN call_stack_ = 1..n
  <2>1. call_stack_ \in Seq(Nat)
    BY DEF Types
  <2> QED BY <2>1, <1>3, <1>9, Longer
<1>11. /\ DOMAIN pending' = 1..(n + 1) /\ Len(pending') = n + 1 /\ pending'[n + 1] = r
       /\ \A k \in 1..n : pending'[k] = pending[k]
       /\ \A k \in 1..(n + 1) : k \in 1..n \/ k = n + 1
       /\ DOMAIN pending = 1..n
  <2>1. pending \in Seq(Saved)
    BY DEF Types
  <2>2. /\ DOMAIN Append(pending, r) = 1..(n + 1) /\ Len(Append(pending, r)) = n + 1
        /\ Append(pending, r)[n + 1] = r /\ DOMAIN pending = 1..n
        /\ \A k \in 1..n : Append(pending, r)[k] = pending[k]
    <3>1. n = Len(pending)
      BY <1>9
    <3> QED BY ONLY <2>1, <3>1, Longer
  <2>3. \A k \in 1..(n + 1) : k \in 1..n \/ k = n + 1
    OBVIOUS
  <2> QED BY <2>2, <2>3, <1>3
<1>12. Types'
  <2>1. Lines' = Lines
    BY <1>3, TextSame
  <2>2. call_stack_' \in Seq(Nat) /\ pending' \in Seq(Saved)
    BY <1>3, <1>8 DEF Types
  <2> QED BY <2>1, <2>2, <1>3, <1>5, <1>6 DEF Types
<1>13. Matching'
  <2>1. Len(pending') = Len(call_stack_') + Len(frame_stack_')
    BY <1>3, <1>7, <1>10, <1>11
  <2>2. \A i \in 1..n : pending[i].kind = "gosub" /\ pending[i].place[1] = call_stack_[i]
    BY <1>10 DEF Matching
  <2>3. \A i \in 1..(n + 1) : pending'[i].kind = "gosub" /\ pending'[i].place[1] = call_stack_'[i]
    BY <2>2, <1>8, <1>10, <1>11
  <2>4. frame_stack_' = <<>> /\ DOMAIN frame_stack_' = {}
    BY <1>3, <1>7
  <2> QED BY <2>1, <2>3, <2>4, <1>10 DEF Matching
<1>14. ASSUME Good PROVE Good'
  <2>1. Ready
    BY <1>2, <1>14 DEF Ready
  <2>2. Around(ln + 1) = Around(ln) /\ Stays(ln, ln + 1)
    BY <1>1, AtPlain
  <2>3. upper_bound(ln) \in {Halt, ln + 1}
    BY DEF upper_bound
  <2>4. /\ OwnVars(for_stack_)' /\ (\A k \in DOMAIN pending' : CallHolds(pending, k)')
        /\ DosHold(do_stack_)' /\ StacksFit'
    <3>1. Here' \in Nat /\ Around(Here') = Outside /\ BackTo(r) \in {Halt, ln + 1}
      BY <2>3, <1>4, <1>5, <1>6, <1>8
    <3> QED BY <2>1, <2>2, <3>1, <1>2, <1>3, <1>8, CallGood
  <2>5. Placed'
    <3>1. Routine' = Routine
      BY <1>3, TextSame
    <3>2. Here' \in Routine
      BY <1>4, <1>5, <1>6 DEF Routine
    <3>3. frame_stack_' = <<>> /\ jmp' # Stay
      BY <1>3, <1>5, <1>6, <1>7
    <3>4. ASSUME NEW k \in 1..(n + 1), k >= 2
          PROVE  /\ BackTo(pending'[k]) # Halt => BackTo(pending'[k]) \in Routine
                 /\ pending'[k].kind = "call" => pending'[k].place[1] \in Routine
      <4>1. CASE k \in 1..n
        <5>1. k <= Len(call_stack_) + 1
          BY <4>1, <1>9
        <5> QED BY <4>1, <5>1, <3>4, <1>11, <1>14 DEF Good, Placed
      <4>2. CASE k = n + 1
        <5>1. pending # <<>>
          <6>1. n # 0
            BY <3>4, <4>2
          <6> QED BY <6>1, <1>9
        <5>2. InRoutine(ln)
          BY <5>1, <1>7, <2>1, AtLine
        <5>3. ln + 1 \in Routine
          BY <5>2, <2>2, <1>2, HereType DEF Stays, Routine
        <5> QED BY <4>2, <5>3, <2>3, <1>8, <1>11
      <4> QED BY <4>1, <4>2, <1>11
    <3>5. \A k \in 1..(n + 1) : k >= 2 =>
             /\ BackTo(pending'[k]) # Halt => BackTo(pending'[k]) \in Routine
             /\ pending'[k].kind = "call" => pending'[k].place[1] \in Routine
      BY <3>4
    <3>6. /\ frame_stack_' # <<>> => jmp' # Halt /\ <<Here', Top(frame_stack_').end_line>> \in Lasts'
          /\ frame_stack_' = <<>> /\ pending' # <<>> => /\ Here' # Halt => Here' \in Routine'
                                                        /\ jmp' = Stay => ln' \in Routine'
      BY <3>1, <3>2, <3>3
    <3> QED BY <3>1, <3>5, <3>6, <1>11 DEF Placed, BackTo
  <2>6. ExitsOutside'
    <3>1. DOMAIN frame_stack_' = {}
      BY <1>3, <1>7
    <3> QED BY <3>1 DEF ExitsOutside
  <2> QED BY <2>4, <2>5, <2>6 DEF Good
<1>15. jmp' # Stay
  BY <1>5, <1>6
<1> QED BY <1>12, <1>13, <1>14, <1>15 DEF Keeps

\* A sequence without its last
LEMMA Shorter ==
    ASSUME NEW A, NEW s \in Seq(A), s # <<>>, NEW n, n = Len(s)
    PROVE  /\ n \in Nat /\ n >= 1 /\ n - 1 \in Nat /\ DOMAIN s = 1..n /\ Top(s) = s[n] /\ n \in 1..n
           /\ Len(Pop(s)) = n - 1 /\ DOMAIN Pop(s) = 1..(n - 1) /\ Pop(s) \in Seq(A)
           /\ \A k \in 1..(n - 1) : Pop(s)[k] = s[k] /\ k \in 1..n /\ k # n
<1>1. /\ n \in Nat \ {0} /\ DOMAIN s = 1..n /\ Top(s) = s[n]
      /\ Len(Pop(s)) = n - 1 /\ DOMAIN Pop(s) = 1..(n - 1) /\ Pop(s) \in Seq(A)
      /\ \A k \in 1..(n - 1) : Pop(s)[k] = s[k]
  BY TopIs
<1>2. n >= 1 /\ n - 1 \in Nat /\ n \in 1..n /\ \A k \in 1..(n - 1) : k \in 1..n /\ k # n
  BY <1>1
<1> QED BY <1>1, <1>2

\* A return from outside of all blocks: the caller finds its own stacks, and they fit the
\* line where it goes on.
LEMMA PopGood ==
    ASSUME Tidy, Types, Good, pending # <<>>, Here # Halt, Blocks[Here] = Outside,
           pending' = Pop(pending), program' = program,
           for_stack_' = for_stack_, while_stack_' = while_stack_, if_stack_' = if_stack_,
           do_stack_' = do_stack_, select_stack_' = select_stack_,
           Here' = BackTo(Top(pending))
    PROVE  /\ OwnVars(for_stack_)' /\ (\A k \in DOMAIN pending' : CallHolds(pending, k)')
           /\ DosHold(do_stack_)' /\ StacksFit'
           /\ for_stack_ = Top(pending).fors /\ while_stack_ = Top(pending).whiles
           /\ if_stack_ = Top(pending).ifs /\ select_stack_ = Top(pending).selects
<1>1. /\ Blocks' = Blocks /\ Loops' = Loops /\ LoopCalls' = LoopCalls /\ DoCalls' = DoCalls
  BY TextSame
<1>2. pending \in Seq(Saved)
  BY DEF Types
<1>3. PICK n \in Nat : n = Len(pending)
  BY <1>2
<1>4. /\ n >= 1 /\ n - 1 \in Nat /\ DOMAIN pending = 1..n /\ Top(pending) = pending[n] /\ n \in 1..n
      /\ DOMAIN Pop(pending) = 1..(n - 1) /\ Pop(pending) \in Seq(Saved) /\ Len(Pop(pending)) = n - 1
      /\ \A k \in 1..(n - 1) : Pop(pending)[k] = pending[k] /\ k \in 1..n /\ k # n
  BY ONLY <1>2, <1>3, Shorter, pending # <<>>
<1>5. /\ DOMAIN pending' = 1..(n - 1) /\ pending' \in Seq(Saved) /\ Len(pending') = n - 1
      /\ \A k \in 1..(n - 1) : pending'[k] = pending[k]
  BY <1>4
<1>6. \A k \in 1..(n - 1) : k # 1 => k - 1 \in 1..(n - 1)
  BY <1>4
<1>7. \A k \in 1..(n - 1) : Under(pending', k) = Under(pending, k)
  BY <1>5, <1>6 DEF Under
<1>8. Base = Top(pending) /\ Stored(Base)
  BY BaseStored DEF Base
<1>9. /\ for_stack_ = Top(pending).fors /\ while_stack_ = Top(pending).whiles
      /\ if_stack_ = Top(pending).ifs /\ select_stack_ = Top(pending).selects
  <2>1. Fits(for_stack_, while_stack_, if_stack_, select_stack_, Base, Outside)
    BY DEF Good, StacksFit
  <2>2. /\ for_stack_ \in Seq(ForFrames) /\ while_stack_ \in Seq(WhileFrames)
        /\ if_stack_ \in Seq(IfFrames) /\ select_stack_ \in Seq(SelectFrames)
    BY DEF Types
  <2> QED BY ONLY <2>1, <2>2, <1>8, FitsOutside
<1>10. Base' = Under(pending, n)
  <2>1. CASE n = 1
    <3>1. pending' = <<>>
      BY <2>1, <1>5
    <3> QED BY <3>1, <2>1 DEF Base, Under, NoFrames
  <2>2. CASE n # 1
    <3>1. pending' # <<>> /\ n - 1 \in 1..(n - 1)
      BY <2>2, <1>4, <1>5
    <3>2. Base' = pending'[n - 1]
      BY <3>1, <1>5 DEF Base, Top
    <3> QED BY <3>1, <3>2, <2>2, <1>5 DEF Under
  <2> QED BY <2>1, <2>2
<1>11. CallHolds(pending, n)
  BY <1>4 DEF Good
<1>12. OwnVars(for_stack_)'
  BY <1>1 DEF Good, OwnVars
<1>13. ASSUME NEW k \in DOMAIN pending' PROVE CallHolds(pending, k)'
  <2>1. k \in 1..(n - 1) /\ k \in 1..n
    BY <1>4, <1>5
  <2>2. CallHolds(pending, k)
    BY <2>1, <1>4 DEF Good
  <2> QED BY <2>1, <2>2, <1>1, <1>5, <1>7 DEF CallHolds, BackTo
<1>14. DosHold(do_stack_)'
  <2>1. \A k \in 1..n : BackTo(pending[k]) # Halt => DoTop(do_stack_, Blocks[BackTo(pending[k])])
    BY <1>4 DEF Good, DosHold
  <2>2. \A k \in 1..(n - 1) : BackTo(pending'[k]) # Halt => DoTop(do_stack_, Blocks[BackTo(pending'[k])])
    BY <2>1, <1>4, <1>5
  <2> QED BY <2>2, <1>1, <1>5 DEF DosHold
<1>15. StacksFit'
  <2> SUFFICES ASSUME Here' # Halt
               PROVE  /\ Fits(for_stack_', while_stack_', if_stack_', select_stack_', Base', Blocks'[Here'])
                      /\ DoTop(do_stack_', Blocks'[Here'])
    BY DEF StacksFit
  <2>1. BackTo(pending[n]) # Halt /\ Here' = BackTo(pending[n])
    BY <1>4
  <2>2. Fits(for_stack_, while_stack_, if_stack_, select_stack_, Under(pending, n), Blocks[BackTo(pending[n])])
    BY <2>1, <1>4, <1>9, <1>11 DEF CallHolds
  <2>3. DoTop(do_stack_, Blocks[BackTo(pending[n])])
    BY <2>1, <1>4 DEF Good, DosHold
  <2> QED BY <2>1, <2>2, <2>3, <1>1, <1>10
<1> QED BY <1>9, <1>12, <1>13, <1>14, <1>15

\* What the top of the frames and the open calls are, for GOSUB and CALL
LEMMA Depths ==
    ASSUME Types, Matching
    PROVE  /\ frame_stack_ = <<>> => Len(pending) = Len(call_stack_)
           /\ Len(call_stack_) \in Nat /\ Len(frame_stack_) \in Nat /\ Len(pending) \in Nat
           /\ Len(pending) = Len(call_stack_) + Len(frame_stack_)
           /\ call_stack_ # <<>> \/ frame_stack_ # <<>> => pending # <<>>
<1>1. PICK c \in Nat, f \in Nat, p \in Nat : c = Len(call_stack_) /\ f = Len(frame_stack_) /\ p = Len(pending)
  BY DEF Types
<1>2. p = c + f
  BY <1>1 DEF Matching
<1>3. /\ frame_stack_ = <<>> => f = 0
      /\ call_stack_ # <<>> => c # 0
      /\ frame_stack_ # <<>> => f # 0
      /\ pending = <<>> => p = 0
  BY <1>1, EmptySeq DEF Types
<1> QED BY <1>1, <1>2, <1>3

LEMMA ReturnKeeps ==
    ASSUME Tidy, Types, Matching, Return
    PROVE  /\ Keeps
           /\ pending' # pending /\ Good =>
                /\ for_stack_ = Top(pending).fors /\ while_stack_ = Top(pending).whiles
                /\ if_stack_ = Top(pending).ifs /\ select_stack_ = Top(pending).selects
           /\ pending' # pending => Top(pending).kind = "gosub" /\ jmp' = Top(pending).place[1]
<1>1. Reads({"return"})
  BY DEF Return
<1>2. /\ jmp = Stay /\ col <= Len(program[ln]) /\ Stmt = program[ln][col] /\ Stmt.op = "return"
      /\ ln \in Nat /\ ln \in Lines /\ col \in DOMAIN program[ln] /\ Stmt \in Stmts(ln)
  <2>1. /\ jmp = Stay /\ col <= Len(program[ln]) /\ Stmt = program[ln][col] /\ Stmt.op = "return"
        /\ ln \in Nat /\ ln \in Lines /\ col \in DOMAIN program[ln]
    BY <1>1, ReadsIs
  <2> QED BY <2>1 DEF Stmts, ToSet
<1>3. /\ program' = program /\ for_stack_' = for_stack_ /\ while_stack_' = while_stack_
      /\ if_stack_' = if_stack_ /\ do_stack_' = do_stack_ /\ select_stack_' = select_stack_
      /\ frame_stack_' = frame_stack_
  BY DEF Return, CallMoves, Same
<1>4. \A e : ~Inside(ln, e)
  BY <1>2, NotInside
<1>5. frame_stack_ = <<>>
  BY <1>2, <1>4 DEF Matching, Bodies
<1>6. CASE call_stack_ = <<>>
  <2>1. Returns(Halt) /\ Unmoved
    BY <1>3, <1>6 DEF Return, Unmoved
  <2>2. Moved(Halt)
    BY <2>1, ReturnsIs DEF Moved, Target_, Stay, Halt
  <2>3. ASSUME Ready PROVE Fine(Halt)
    <3>1. Stays(ln, Halt)
      BY <1>4 DEF Stays
    <3> QED BY <3>1, <2>3, <1>3, <1>5, SameFine
  <2>4. Keeps
    BY <1>2, <1>3, <2>1, <2>2, <2>3, Keeping DEF Unmoved, Types
  <2> QED BY <2>1, <2>4 DEF Unmoved
<1>7. CASE call_stack_ # <<>>
  <2>1. pending # <<>> /\ Len(pending) = Len(call_stack_)
    BY <1>5, <1>7, Depths
  <2>2. /\ Returns(Top(call_stack_)) /\ call_stack_' = Pop(call_stack_) /\ pending' = Pop(pending)
    BY <1>7, <2>1 DEF Return
  <2>3. PICK n \in Nat : n = Len(pending) /\ n = Len(call_stack_)
    BY <2>1, Depths
  <2>4. pending \in Seq(Saved) /\ call_stack_ \in Seq(Nat)
    BY DEF Types
  <2>5. /\ n >= 1 /\ n - 1 \in Nat /\ DOMAIN pending = 1..n /\ Top(pending) = pending[n] /\ n \in 1..n
        /\ DOMAIN Pop(pending) = 1..(n - 1) /\ Pop(pending) \in Seq(Saved) /\ Len(Pop(pending)) = n - 1
        /\ \A k \in 1..(n - 1) : Pop(pending)[k] = pending[k] /\ k \in 1..n /\ k # n
    BY ONLY <2>1, <2>3, <2>4, Shorter
  <2>6. /\ DOMAIN call_stack_ = 1..n /\ Top(call_stack_) = call_stack_[n]
        /\ DOMAIN Pop(call_stack_) = 1..(n - 1) /\ Pop(call_stack_) \in Seq(Nat)
        /\ Len(Pop(call_stack_)) = n - 1
        /\ \A k \in 1..(n - 1) : Pop(call_stack_)[k] = call_stack_[k]
    <3> DEFINE A == Nat
    <3>1. n = Len(call_stack_) /\ call_stack_ \in Seq(A)
      BY <2>3, <2>4
    <3> HIDE DEF A
    <3>2. /\ DOMAIN call_stack_ = 1..n /\ Top(call_stack_) = call_stack_[n]
          /\ DOMAIN Pop(call_stack_) = 1..(n - 1) /\ Pop(call_stack_) \in Seq(A)
          /\ Len(Pop(call_stack_)) = n - 1
          /\ \A k \in 1..(n - 1) : Pop(call_stack_)[k] = call_stack_[k]
      <4>1. call_stack_ # <<>>
        BY <1>7
      <4>2. DOMAIN call_stack_ = 1..n /\ Top(call_stack_) = call_stack_[n]
        BY ONLY <4>1, <3>1, TopIs
      <4>3. /\ DOMAIN Pop(call_stack_) = 1..(n - 1) /\ Pop(call_stack_) \in Seq(A)
            /\ Len(Pop(call_stack_)) = n - 1
        BY ONLY <4>1, <3>1, TopIs
      <4>4. \A k \in 1..(n - 1) : Pop(call_stack_)[k] = call_stack_[k]
        BY ONLY <4>1, <3>1, TopIs
      <4> QED BY ONLY <4>2, <4>3, <4>4
    <3> QED BY <3>2 DEF A
  <2>7. Top(call_stack_) \in Nat /\ Top(call_stack_) # Stay
    <3>1. Top(call_stack_) \in Nat
      BY ONLY <2>4, <1>7, TopIs
    <3> QED BY <3>1 DEF Stay
  <2>8. jmp' = Top(call_stack_) /\ ln' = ln /\ col' = col /\ Here' = Top(call_stack_)
    BY <2>2, <2>7 DEF Returns, Here
  <2>9. \A i \in 1..n : pending[i].kind = "gosub" /\ pending[i].place[1] = call_stack_[i]
    BY <2>6 DEF Matching
  <2>10. /\ Top(pending).kind = "gosub" /\ Top(pending).place[1] = jmp'
         /\ Here' = BackTo(Top(pending))
    BY <2>5, <2>6, <2>8, <2>9 DEF BackTo
  <2>11. Types'
    <3>1. Lines' = Lines
      BY <1>3, TextSame
    <3> QED BY <3>1, <1>3, <2>2, <2>5, <2>6, <2>7, <2>8 DEF Types
  <2>12. Matching'
    <3>1. Len(frame_stack_') = 0 /\ DOMAIN frame_stack_' = {} /\ frame_stack_' = <<>>
      BY <1>3, <1>5
    <3>2. Len(pending') = Len(call_stack_') + Len(frame_stack_')
      BY <3>1, <2>2, <2>5, <2>6
    <3>3. \A i \in 1..(n - 1) : pending'[i].kind = "gosub" /\ pending'[i].place[1] = call_stack_'[i]
      BY <2>2, <2>5, <2>6, <2>9
    <3> QED BY <3>1, <3>2, <3>3, <2>2, <2>6 DEF Matching
  <2>13. ASSUME Good
         PROVE  /\ Good' /\ for_stack_ = Top(pending).fors /\ while_stack_ = Top(pending).whiles
                /\ if_stack_ = Top(pending).ifs /\ select_stack_ = Top(pending).selects
    <3>1. Ready
      BY <1>2, <2>13 DEF Ready
    <3>2. Here # Halt /\ Blocks[Here] = Outside
      <4>1. Around(ln) = Outside /\ Around(ln + 1) = Outside
        BY <1>2, OutsideIs
      <4>2. Here \in {ln, ln + 1} /\ ln \in Nat /\ ln + 1 \in Nat /\ ln # Halt /\ ln + 1 # Halt
        BY <1>2, Text DEF Here, Halt
      <4> QED BY <4>1, <4>2, BlocksAre
    <3>3. /\ OwnVars(for_stack_)' /\ (\A k \in DOMAIN pending' : CallHolds(pending, k)')
          /\ DosHold(do_stack_)' /\ StacksFit'
          /\ for_stack_ = Top(pending).fors /\ while_stack_ = Top(pending).whiles
          /\ if_stack_ = Top(pending).ifs /\ select_stack_ = Top(pending).selects
      BY <3>2, <2>1, <2>2, <2>10, <2>13, <1>3, PopGood
    <3>4. Placed'
      <4>1. Routine' = Routine
        BY <1>3, TextSame
      <4>2. \A k \in 1..n : k >= 2 =>
               /\ BackTo(pending[k]) # Halt => BackTo(pending[k]) \in Routine
               /\ pending[k].kind = "call" => pending[k].place[1] \in Routine
        <5>1. \A k \in 1..n : k <= Len(call_stack_) + 1
          BY <2>3
        <5>2. \A k \in 1..n : k >= 2 /\ k <= Len(call_stack_) + 1 =>
                 /\ BackTo(pending[k]) # Halt => BackTo(pending[k]) \in Routine
                 /\ pending[k].kind = "call" => pending[k].place[1] \in Routine
          BY <2>5, <2>13 DEF Good, Placed
        <5> QED BY <5>1, <5>2
      <4>3. \A k \in 1..(n - 1) : k >= 2 =>
               /\ BackTo(pending'[k]) # Halt => BackTo(pending'[k]) \in Routine
               /\ pending'[k].kind = "call" => pending'[k].place[1] \in Routine
        BY <4>2, <2>2, <2>5
      <4>4. pending' # <<>> => n >= 2
        <5>1. n # 1 => n >= 2
          BY <2>5
        <5>2. n = 1 => pending' = <<>>
          BY <2>2, <2>5
        <5> QED BY <5>1, <5>2
      <4>5. pending' # <<>> /\ Here' # Halt => Here' \in Routine
        BY <4>2, <4>4, <2>5, <2>10
      <4>6. frame_stack_' = <<>> /\ jmp' # Stay
        BY <1>3, <1>5, <2>7, <2>8
      <4>7. /\ frame_stack_' # <<>> => jmp' # Halt /\ <<Here', Top(frame_stack_').end_line>> \in Lasts'
            /\ frame_stack_' = <<>> /\ pending' # <<>> => /\ Here' # Halt => Here' \in Routine'
                                                          /\ jmp' = Stay => ln' \in Routine'
        BY <4>1, <4>5, <4>6
      <4>8. DOMAIN pending' = 1..(n - 1)
        BY <2>2, <2>5
      <4> QED BY <4>1, <4>3, <4>7, <4>8 DEF Placed, BackTo
    <3>5. ExitsOutside'
      <4>1. DOMAIN frame_stack_' = {}
        BY <1>3, <1>5
      <4> QED BY <4>1 DEF ExitsOutside
    <3> QED BY <3>3, <3>4, <3>5 DEF Good
  <2> QED BY <2>7, <2>8, <2>10, <2>11, <2>12, <2>13 DEF Keeps
<1> QED BY <1>6, <1>7

LEMMA CallKeeps ==
    ASSUME Tidy, Types, Matching, Call
    PROVE  Keeps
<1> DEFINE s == start_line(Stmt.x)
           e == end_line(Stmt.x)
           r == Comeback("call", <<ln, col + 1>>)
           f == [end_line |-> e, exiting |-> FALSE, caller |-> <<ln, col + 1>>]
<1>1. Reads({"call"}) /\ {"call"} \cap (Alone \cup {"return"}) = {}
  BY DEF Call, Alone, Opens, Closes, Mids
<1>2. /\ jmp = Stay /\ col <= Len(program[ln]) /\ Stmt.op = "call"
      /\ ln \in Nat /\ ln + 1 \in Nat /\ ln \in Lines /\ col \in Nat /\ col >= 1
  BY <1>1, ReadsIs
<1>3. /\ program' = program /\ for_stack_' = for_stack_ /\ while_stack_' = while_stack_
      /\ if_stack_' = if_stack_ /\ do_stack_' = do_stack_ /\ select_stack_' = select_stack_
      /\ call_stack_' = call_stack_
  BY DEF Call, CallMoves, Same
<1>4. Around(ln + 1) = Around(ln) /\ Stays(ln, ln + 1)
  BY <1>1, AtPlain
<1>5. CASE s = 0
  <2>1. Returns(Stay) /\ Unmoved
    BY <1>3, <1>5 DEF Call, Unmoved
  <2>2. Moved(ln + 1)
    BY <2>1, <1>2, ReturnsIs DEF Moved, Target_
  <2>3. ASSUME Ready PROVE Fine(ln + 1)
    BY <2>3, <1>2, <1>3, <1>4, SameFine, HereType
  <2> QED BY <1>2, <1>3, <2>1, <2>2, <2>3, Keeping DEF Unmoved, Types
<1>6. CASE s # 0
  <2>1. /\ e \in Nat /\ upper_bound(s) = s + 1 /\ s + 1 \in Nat /\ s + 1 # Halt
        /\ Around(s + 1) = Outside /\ UpTo(s + 1, e)
    BY <1>6, ProcIs
  <2>2. Returns(upper_bound(s)) /\ frame_stack_' = Append(frame_stack_, f) /\ pending' = Append(pending, r)
    BY <1>6 DEF Call
  <2>3. /\ r \in Saved /\ r.kind = "call" /\ r.place[1] = ln /\ r.place = <<ln, col + 1>>
        /\ r.fors = for_stack_ /\ r.whiles = while_stack_ /\ r.ifs = if_stack_ /\ r.selects = select_stack_
        /\ BackTo(r) = ln + 1
    <3>1. <<ln, col + 1>> \in Nat \X Nat
      BY <1>2
    <3> QED BY <3>1 DEF Comeback, Saved, BackTo, Types
  <2>4. /\ f \in ProcFrames /\ f.end_line = e /\ f.exiting = FALSE /\ f.caller = <<ln, col + 1>>
        /\ f.caller[1] = ln /\ f.caller[2] = col + 1 /\ col + 1 >= 2
    <3>1. <<ln, col + 1>> \in Nat \X Nat /\ col + 1 >= 2
      BY <1>2
    <3> QED BY <3>1, <2>1 DEF ProcFrames
  <2> HIDE DEF r, f, s, e
  <2>5. s + 1 # Stay
    BY <2>1 DEF Stay
  <2>6. jmp' = s + 1 /\ ln' = ln /\ col' = col /\ Here' = s + 1
    BY <2>1, <2>2, <2>5 DEF Returns, Here
  <2>7. PICK n \in Nat, c \in Nat, m \in Nat : /\ n = Len(pending) /\ c = Len(call_stack_) /\ m = Len(frame_stack_)
                                               /\ n = c + m
    BY Depths
  <2>8. pending \in Seq(Saved) /\ frame_stack_ \in Seq(ProcFrames) /\ DOMAIN call_stack_ = 1..c
    BY <2>7 DEF Types
  <2>9. /\ DOMAIN pending' = 1..(n + 1) /\ Len(pending') = n + 1 /\ pending'[n + 1] = r /\ DOMAIN pending = 1..n
        /\ \A k \in 1..n : pending'[k] = pending[k]
    <3>1. n = Len(pending)
      BY <2>7
    <3>2. /\ DOMAIN Append(pending, r) = 1..(n + 1) /\ Len(Append(pending, r)) = n + 1
          /\ Append(pending, r)[n + 1] = r /\ DOMAIN pending = 1..n
          /\ \A k \in 1..n : Append(pending, r)[k] = pending[k]
      BY ONLY <2>8, <3>1, Longer
    <3> QED BY <3>2, <2>2
  <2>10. /\ DOMAIN frame_stack_' = 1..(m + 1) /\ Len(frame_stack_') = m + 1 /\ frame_stack_'[m + 1] = f
         /\ DOMAIN frame_stack_ = 1..m /\ frame_stack_' # <<>> /\ Top(frame_stack_') = f
         /\ \A k \in 1..m : frame_stack_'[k] = frame_stack_[k]
    <3>1. m = Len(frame_stack_)
      BY <2>7
    <3>2. /\ DOMAIN Append(frame_stack_, f) = 1..(m + 1) /\ Len(Append(frame_stack_, f)) = m + 1
          /\ Append(frame_stack_, f)[m + 1] = f /\ DOMAIN frame_stack_ = 1..m
          /\ Append(frame_stack_, f) # <<>> /\ Top(Append(frame_stack_, f)) = f
          /\ \A k \in 1..m : Append(frame_stack_, f)[k] = frame_stack_[k]
      BY ONLY <2>8, <3>1, Longer
    <3> QED BY <3>2, <2>2
  <2>11. /\ \A k \in 1..(n + 1) : k \in 1..n \/ k = n + 1
         /\ \A k \in 1..(m + 1) : k \in 1..m \/ k = m + 1
         /\ \A k \in 1..(m + 1) : k > 1 => k - 1 \in 1..m
         /\ \A k \in 1..m : c + k \in 1..n /\ k + 1 \in 1..(m + 1) /\ k # m + 1
         /\ \A k \in 1..m : k # m => k + 1 \in 1..m
         /\ \A k \in 1..c : k \in 1..n
         /\ c + (m + 1) = n + 1
    BY <2>7
  <2>12. Types'
    <3>1. Lines' = Lines
      BY <1>3, TextSame
    <3>2. frame_stack_' \in Seq(ProcFrames) /\ pending' \in Seq(Saved)
      BY <2>2, <2>3, <2>4, <2>8
    <3> QED BY <3>1, <3>2, <1>3, <2>1, <2>6 DEF Types
  <2>13. Matching'
    <3>1. Bodies' = Bodies /\ Lines' = Lines
      BY <1>3, TextSame
    <3>2. Len(pending') = Len(call_stack_') + Len(frame_stack_')
      BY <1>3, <2>7, <2>9, <2>10
    <3>3. \A i \in 1..c : pending[i].kind = "gosub" /\ pending[i].place[1] = call_stack_[i]
      BY <2>8 DEF Matching
    <3>4. \A i \in 1..c : pending'[i].kind = "gosub" /\ pending'[i].place[1] = call_stack_'[i]
      BY <3>3, <1>3, <2>9, <2>11
    <3>5. \A i \in 1..m : /\ pending[c + i].kind = "call"
                          /\ pending[c + i].place = frame_stack_[i].caller
                          /\ frame_stack_[i].caller[1] \in Lines /\ frame_stack_[i].caller[2] >= 2
      BY <2>7, <2>10 DEF Matching
    <3>6. \A i \in 1..(m + 1) : /\ pending'[c + i].kind = "call"
                                /\ pending'[c + i].place = frame_stack_'[i].caller
                                /\ frame_stack_'[i].caller[1] \in Lines /\ frame_stack_'[i].caller[2] >= 2
      <4>1. ASSUME NEW i \in 1..m
            PROVE  /\ pending'[c + i].kind = "call"
                   /\ pending'[c + i].place = frame_stack_'[i].caller
                   /\ frame_stack_'[i].caller[1] \in Lines /\ frame_stack_'[i].caller[2] >= 2
        BY <3>5, <2>9, <2>10, <2>11
      <4>2. /\ pending'[c + (m + 1)].kind = "call"
            /\ pending'[c + (m + 1)].place = frame_stack_'[m + 1].caller
            /\ frame_stack_'[m + 1].caller[1] \in Lines /\ frame_stack_'[m + 1].caller[2] >= 2
        BY <1>2, <2>3, <2>4, <2>9, <2>10, <2>11
      <4> QED BY <4>1, <4>2, <2>11
    <3>7. ASSUME NEW i \in 1..(m + 1), i > 1
          PROVE  <<frame_stack_'[i].caller[1], frame_stack_'[i - 1].end_line>> \in Bodies
      <4>1. i - 1 \in 1..m /\ frame_stack_'[i - 1] = frame_stack_[i - 1]
        BY <3>7, <2>10, <2>11
      <4>2. CASE i \in 1..m
        <5>1. <<frame_stack_[i].caller[1], frame_stack_[i - 1].end_line>> \in Bodies
          BY <4>2, <3>7, <2>10 DEF Matching
        <5> QED BY <5>1, <4>1, <4>2, <2>10
      <4>3. CASE i = m + 1
        <5>1. frame_stack_ # <<>> /\ Top(frame_stack_) = frame_stack_[m] /\ i - 1 = m
          BY <4>1, <4>3, <2>7, <2>8 DEF Top
        <5>2. <<ln, frame_stack_[m].end_line>> \in Bodies
          BY <5>1, <1>2 DEF Matching
        <5> QED BY <5>1, <5>2, <4>1, <4>3, <2>4, <2>10
      <4> QED BY <4>2, <4>3, <2>11
    <3>8. jmp' # Stay
      BY <2>5, <2>6
    <3>9. \A i \in DOMAIN frame_stack_' :
            i > 1 => <<frame_stack_'[i].caller[1], frame_stack_'[i - 1].end_line>> \in Bodies'
      BY <3>1, <3>7, <2>10
    <3>10. DOMAIN call_stack_' = 1..c /\ Len(call_stack_') = c
      BY <1>3, <2>7, <2>8
    <3> QED BY <3>1, <3>2, <3>4, <3>6, <3>8, <3>9, <3>10, <2>10 DEF Matching
  <2>14. ASSUME Good PROVE Good'
    <3>1. Ready
      BY <1>2, <2>14 DEF Ready
    <3>2. /\ OwnVars(for_stack_)' /\ (\A k \in DOMAIN pending' : CallHolds(pending, k)')
          /\ DosHold(do_stack_)' /\ StacksFit'
      <4>1. Here' \in Nat /\ Around(Here') = Outside /\ BackTo(r) \in {Halt, ln + 1}
        BY <2>1, <2>3, <2>6
      <4> QED BY <3>1, <4>1, <1>2, <1>3, <1>4, <2>2, <2>3, CallGood
    <3>3. Placed'
      <4>1. Routine' = Routine /\ Lasts' = Lasts
        BY <1>3, TextSame
      <4>2. jmp' # Halt /\ <<Here', Top(frame_stack_').end_line>> \in Lasts
        BY <2>1, <2>4, <2>6, <2>10 DEF Lasts
      <4>3. ASSUME NEW k \in 1..(n + 1), k >= 2, k <= c + 1
            PROVE  /\ BackTo(pending'[k]) # Halt => BackTo(pending'[k]) \in Routine
                   /\ pending'[k].kind = "call" => pending'[k].place[1] \in Routine
        <5>1. CASE k \in 1..n
          <6>1. pending'[k] = pending[k] /\ k <= Len(call_stack_) + 1
            BY <5>1, <4>3, <2>7, <2>9
          <6> QED BY <5>1, <6>1, <4>3, <2>9, <2>14 DEF Good, Placed
        <5>2. CASE k = n + 1
          <6>1. m = 0 /\ n # 0
            BY <5>2, <4>3, <2>7
          <6>2. frame_stack_ = <<>> /\ pending # <<>>
            BY <6>1, <2>7, <2>8, EmptySeq
          <6>3. InRoutine(ln)
            BY <6>2, <3>1, AtLine
          <6>4. ln + 1 \in Routine /\ ln \in Routine
            BY <6>3, <1>2, <1>4, HereType DEF Stays, Routine
          <6> QED BY <5>2, <6>4, <2>3, <2>9
        <5> QED BY <5>1, <5>2, <2>11
      <4>4. \A k \in 1..(n + 1) : k >= 2 /\ k <= c + 1 =>
               /\ BackTo(pending'[k]) # Halt => BackTo(pending'[k]) \in Routine
               /\ pending'[k].kind = "call" => pending'[k].place[1] \in Routine
        BY <4>3
      <4>5. Len(call_stack_') = c
        BY <1>3, <2>7
      <4> QED BY <4>1, <4>2, <4>4, <4>5, <2>9, <2>10 DEF Placed, BackTo
    <3>4. ExitsOutside'
      <4>1. Blocks' = Blocks
        BY <1>3, TextSame
      <4>2. ASSUME NEW i \in 1..(m + 1), frame_stack_'[i].exiting
            PROVE  Blocks[IF i = m + 1 THEN Here' ELSE frame_stack_'[i + 1].caller[1] + 1] = Outside
        <5>1. i \in 1..m /\ i # m + 1 /\ frame_stack_'[i] = frame_stack_[i]
          BY <4>2, <2>4, <2>10, <2>11
        <5>2. CASE i = m
          <6>1. frame_stack_ # <<>> /\ Top(frame_stack_) = frame_stack_[m]
            <7>1. m >= 1
              BY <5>1, <5>2
            <7> QED BY <7>1, <2>7, <2>8 DEF Top
          <6>2. Around(ln) = Outside
            BY <6>1, <5>1, <5>2, <4>2, <3>1, AtLine
          <6>3. Blocks[ln + 1] = Outside
            BY <6>2, <1>2, <1>4, BlocksAre
          <6>4. frame_stack_'[i + 1].caller[1] + 1 = ln + 1
            BY <5>2, <2>4, <2>10
          <6> QED BY <5>1, <6>3, <6>4
        <5>3. CASE i # m
          <6>1. i + 1 \in 1..m /\ frame_stack_'[i + 1] = frame_stack_[i + 1]
            BY <5>1, <5>3, <2>10, <2>11
          <6>2. Blocks[frame_stack_[i + 1].caller[1] + 1] = Outside
            BY <5>1, <5>3, <4>2, <2>7, <2>10, <2>14 DEF Good, ExitsOutside
          <6> QED BY <5>1, <6>1, <6>2
        <5> QED BY <5>2, <5>3
      <4>3. \A i \in 1..(m + 1) : frame_stack_'[i].exiting =>
              Blocks[IF i = m + 1 THEN Here' ELSE frame_stack_'[i + 1].caller[1] + 1] = Outside
        BY <4>2
      <4> QED BY <4>1, <4>3, <2>10 DEF ExitsOutside
    <3> QED BY <3>2, <3>3, <3>4 DEF Good
  <2> QED BY <2>5, <2>6, <2>12, <2>13, <2>14 DEF Keeps
<1> QED BY <1>5, <1>6

-----------------------------------------------------------------------------
(* The end of a line                                                       *)

LEMMA OverIs ==
    ASSUME Tidy, Types, LineOver
    PROVE  Where = Here /\ ln \in Nat /\ ln \in Lines
<1>1. ln \in Nat /\ ln \in Lines /\ Len(program[ln]) \in Nat \ {0} /\ col \in Nat \ {0}
  BY Text DEF Types
<1>2. CASE jmp # Stay
  BY <1>1, <1>2 DEF Where, Here
<1>3. CASE jmp = Stay
  <2>1. PICK c \in Nat, k \in Nat \ {0} : c = col /\ k = Len(program[ln])
    BY <1>1
  <2>2. c > k
    BY <2>1, <1>3 DEF LineOver
  <2>3. c # 1
    BY <2>1, <2>2
  <2> QED BY <2>1, <2>3, <1>1, <1>3 DEF Where, Here
<1> QED BY <1>1, <1>2, <1>3

\* The next line begins: the stacks fit it already.
LEMMA LineBegins ==
    ASSUME Tidy, Types, Matching, LineOver, GoTo(Where), Where \in Lines, program' = program,
           UNCHANGED <<stacks, pending>>,
           frame_stack_ # <<>> => Where < Top(frame_stack_).end_line /\ ~Top(frame_stack_).exiting, Good
    PROVE  Types' /\ Matching' /\ Good'
<1>1. /\ call_stack_' = call_stack_ /\ for_stack_' = for_stack_ /\ while_stack_' = while_stack_
      /\ if_stack_' = if_stack_ /\ do_stack_' = do_stack_ /\ select_stack_' = select_stack_
      /\ frame_stack_' = frame_stack_ /\ pending' = pending /\ ln' = Where /\ col' = 1 /\ jmp' = Stay
  BY DEF stacks, GoTo
<1>2. /\ Lines' = Lines /\ Blocks' = Blocks /\ Routine' = Routine /\ Bodies' = Bodies /\ Lasts' = Lasts
      /\ Loops' = Loops /\ LoopCalls' = LoopCalls /\ DoCalls' = DoCalls
  BY TextSame
<1>3. Where = Here /\ Here \in Nat /\ Here # 0 /\ Here \in Lines
  BY OverIs, Text
<1>4. Here' = Here /\ Base' = Base
  BY <1>1, <1>3 DEF Here, Base
<1>5. frame_stack_ # <<>> => <<Here, Top(frame_stack_).end_line>> \in Lasts
                             /\ <<Here, Top(frame_stack_).end_line>> \in Bodies
  <2> SUFFICES ASSUME frame_stack_ # <<>>
               PROVE  <<Here, Top(frame_stack_).end_line>> \in Lasts
                      /\ <<Here, Top(frame_stack_).end_line>> \in Bodies
    OBVIOUS
  <2>1. <<Here, Top(frame_stack_).end_line>> \in Lasts
    BY DEF Good, Placed
  <2>2. UpTo(Here, Top(frame_stack_).end_line) /\ Top(frame_stack_).end_line \in Nat
    BY <2>1 DEF Lasts
  <2>3. Inside(Here, Top(frame_stack_).end_line)
    BY <2>2, <1>3 DEF UpTo, Inside
  <2> QED BY <2>1, <2>2, <2>3, <1>3 DEF Bodies
<1>6. Types'
  BY <1>1, <1>2, <1>3 DEF Types, Stay
<1>7. Matching'
  <2>1. frame_stack_' # <<>> => /\ jmp' = Stay => <<ln', Top(frame_stack_').end_line>> \in Bodies'
                                /\ Top(frame_stack_').exiting => col' >= 2 \/ jmp' # Stay
    BY <1>1, <1>2, <1>3, <1>5
  <2> QED BY <2>1, <1>1, <1>2 DEF Matching
<1>8. OwnVars(for_stack_)'
  BY <1>1, <1>2 DEF Good, OwnVars
<1>9. \A k \in DOMAIN pending' : CallHolds(pending, k)'
  BY <1>1, <1>2 DEF Good, CallHolds, Under
<1>10. DosHold(do_stack_)'
  BY <1>1, <1>2 DEF Good, DosHold
<1>11. StacksFit'
  BY <1>1, <1>2, <1>4 DEF Good, StacksFit
<1>12. Placed'
  <2>1. frame_stack_' # <<>> => jmp' # Halt /\ <<Here', Top(frame_stack_').end_line>> \in Lasts'
    BY <1>1, <1>2, <1>4, <1>5 DEF Stay, Halt
  <2>2. frame_stack_' = <<>> /\ pending' # <<>> => /\ Here' # Halt => Here' \in Routine'
                                                   /\ jmp' = Stay => ln' \in Routine'
    <3>1. frame_stack_ = <<>> /\ pending # <<>> => Here \in Routine
      BY <1>3 DEF Good, Placed, Halt
    <3> QED BY <3>1, <1>1, <1>2, <1>3, <1>4
  <2>3. \A k \in DOMAIN pending' : k >= 2 /\ k <= Len(call_stack_') + 1 =>
         /\ BackTo(pending[k])' # Halt => BackTo(pending[k])' \in Routine'
         /\ pending'[k].kind = "call" => pending'[k].place[1] \in Routine'
    BY <1>1, <1>2 DEF Good, Placed
  <2> QED BY <2>1, <2>2, <2>3 DEF Placed
<1>13. ExitsOutside'
  BY <1>1, <1>2, <1>4 DEF Good, ExitsOutside
<1> QED BY <1>6, <1>7, <1>8, <1>9, <1>10, <1>11, <1>12, <1>13 DEF Good

\* Nothing that the invariant is about changes.
LEMMA NothingMoves ==
    ASSUME Tidy, Types, Matching, program' = program, UNCHANGED <<at, stacks, pending>>
    PROVE  Types' /\ Matching' /\ (Good => Good')
<1>1. /\ call_stack_' = call_stack_ /\ for_stack_' = for_stack_ /\ while_stack_' = while_stack_
      /\ if_stack_' = if_stack_ /\ do_stack_' = do_stack_ /\ select_stack_' = select_stack_
      /\ frame_stack_' = frame_stack_ /\ pending' = pending /\ ln' = ln /\ col' = col /\ jmp' = jmp
  BY DEF stacks, at
<1>2. /\ Lines' = Lines /\ Blocks' = Blocks /\ Routine' = Routine /\ Bodies' = Bodies /\ Lasts' = Lasts
      /\ Loops' = Loops /\ LoopCalls' = LoopCalls /\ DoCalls' = DoCalls
  BY TextSame
<1>3. Here' = Here /\ Base' = Base
  BY <1>1 DEF Here, Base
<1>4. Types'
  BY <1>1, <1>2 DEF Types
<1>5. Matching'
  BY <1>1, <1>2 DEF Matching
<1>6. ASSUME Good PROVE Good'
  <2>1. OwnVars(for_stack_)'
    BY <1>1, <1>2, <1>6 DEF Good, OwnVars
  <2>2. \A k \in DOMAIN pending' : CallHolds(pending, k)'
    BY <1>1, <1>2, <1>6 DEF Good, CallHolds, Under
  <2>3. DosHold(do_stack_)'
    BY <1>1, <1>2, <1>6 DEF Good, DosHold
  <2>4. StacksFit'
    BY <1>1, <1>2, <1>3, <1>6 DEF Good, StacksFit
  <2>5. Placed'
    BY <1>1, <1>2, <1>3, <1>6 DEF Good, Placed
  <2>6. ExitsOutside'
    BY <1>1, <1>2, <1>3, <1>6 DEF Good, ExitsOutside
  <2> QED BY <2>1, <2>2, <2>3, <2>4, <2>5, <2>6 DEF Good
<1> QED BY <1>4, <1>5, <1>6

\* A body is over where no block is open: at its END SUB, or after EXIT SUB.
LEMMA ProcEnds ==
    ASSUME Tidy, Types, Matching, Good, LineOver, frame_stack_ # <<>>, ProcOver, ~interrupted_
    PROVE  Here # Halt /\ Blocks[Here] = Outside
<1>1. Where = Here /\ Here \in Nat
  BY OverIs, HereType
<1>2. jmp # Halt /\ UpTo(Here, Top(frame_stack_).end_line)
  BY DEF Good, Placed, Lasts
<1>3. PICK s \in Lines : /\ Keyword(s) = "sub" /\ SubEnd(s) = Top(frame_stack_).end_line
                         /\ s < Here /\ Here <= Top(frame_stack_).end_line
  BY <1>2 DEF UpTo
<1>4. /\ SubEnd(s) \in Lines /\ SubEnd(s) \in Nat /\ s \in Nat /\ Around(SubEnd(s)) = Outside
  BY <1>3, SubIs
<1>5. Here # Halt
  BY <1>1, <1>3, <1>4 DEF Halt
<1>6. CASE Top(frame_stack_).exiting
  <2>1. Len(frame_stack_) \in DOMAIN frame_stack_ /\ Top(frame_stack_) = frame_stack_[Len(frame_stack_)]
    BY TopIs DEF Types
  <2> QED BY <2>1, <1>5, <1>6 DEF Good, ExitsOutside
<1>7. CASE ~InBody
  <2>1. Here \in Lines
    <3>1. Lines = 1..Len(program) /\ Len(program) \in Nat
      BY Text
    <3> QED BY <3>1, <1>1, <1>3, <1>4
  <2>2. ~(Here < SubEnd(s))
    BY <2>1, <1>1, <1>3, <1>7 DEF InBody
  <2>3. Here = SubEnd(s)
    BY <2>2, <1>1, <1>3, <1>4
  <2> QED BY <2>3, <1>4, <1>5, BlocksAre
<1> QED BY <1>2, <1>6, <1>7 DEF ProcOver

LEMMA ProcReturnKeeps ==
    ASSUME Tidy, Types, Matching, ProcReturn, Good \/ interrupted_
    PROVE  /\ Types' /\ Matching' /\ col' >= 2 /\ (interrupted_ \/ Good')
           /\ pending # <<>> /\ Top(pending).kind = "call" /\ <<ln', col'>> = Top(pending).place
           /\ interrupted_ \/ /\ for_stack_ = Top(pending).fors /\ while_stack_ = Top(pending).whiles
                              /\ if_stack_ = Top(pending).ifs /\ select_stack_ = Top(pending).selects
<1>1. /\ LineOver /\ frame_stack_ # <<>> /\ ProcOver
  BY DEF ProcReturn
<1>2. pending # <<>>
  BY <1>1, Depths
<1>3. /\ program' = program /\ for_stack_' = for_stack_ /\ while_stack_' = while_stack_
      /\ if_stack_' = if_stack_ /\ do_stack_' = do_stack_ /\ select_stack_' = select_stack_
      /\ call_stack_' = call_stack_ /\ frame_stack_' = Pop(frame_stack_) /\ pending' = Pop(pending)
      /\ ln' = Top(frame_stack_).caller[1] /\ col' = Top(frame_stack_).caller[2] /\ jmp' = Stay
  BY <1>2 DEF ProcReturn
<1>4. PICK n \in Nat, c \in Nat, m \in Nat : /\ n = Len(pending) /\ c = Len(call_stack_) /\ m = Len(frame_stack_)
                                             /\ n = c + m
  BY Depths
<1>5. /\ pending \in Seq(Saved) /\ frame_stack_ \in Seq(ProcFrames) /\ DOMAIN call_stack_ = 1..c
      /\ n = Len(pending) /\ m = Len(frame_stack_)
  BY <1>4 DEF Types
<1>6. /\ n >= 1 /\ n - 1 \in Nat /\ DOMAIN pending = 1..n /\ Top(pending) = pending[n] /\ n \in 1..n
      /\ Len(Pop(pending)) = n - 1 /\ DOMAIN Pop(pending) = 1..(n - 1) /\ Pop(pending) \in Seq(Saved)
      /\ \A k \in 1..(n - 1) : Pop(pending)[k] = pending[k] /\ k \in 1..n /\ k # n
  BY ONLY <1>2, <1>5, Shorter
<1>7. /\ m >= 1 /\ m - 1 \in Nat /\ DOMAIN frame_stack_ = 1..m /\ Top(frame_stack_) = frame_stack_[m] /\ m \in 1..m
      /\ Len(Pop(frame_stack_)) = m - 1 /\ DOMAIN Pop(frame_stack_) = 1..(m - 1)
      /\ Pop(frame_stack_) \in Seq(ProcFrames)
      /\ \A k \in 1..(m - 1) : Pop(frame_stack_)[k] = frame_stack_[k] /\ k \in 1..m /\ k # m
  BY ONLY <1>1, <1>5, Shorter
<1>8. /\ c + m = n /\ n - 1 = c + (m - 1)
      /\ \A k \in 1..c : k \in 1..(n - 1)
      /\ \A k \in 1..(m - 1) : c + k \in 1..(n - 1) /\ k # m
      /\ \A k \in 1..(m - 1) : k > 1 => k - 1 \in 1..(m - 1)
      /\ m > 1 => m - 1 \in 1..(m - 1)
      /\ \A k \in 1..(m - 1) : k # m - 1 => k + 1 \in 1..(m - 1)
      /\ \A k \in 1..(m - 1) : k = m - 1 => k + 1 = m
  <2>1. n \in Nat /\ c \in Nat /\ m \in Nat /\ n = c + m /\ m >= 1
    BY <1>4, <1>7
  <2>2. c + m = n /\ n - 1 = c + (m - 1)
    BY ONLY <2>1
  <2>3. \A k \in 1..c : k \in 1..(n - 1)
    BY ONLY <2>1
  <2>4. \A k \in 1..(m - 1) : c + k \in 1..(n - 1) /\ k # m
    BY ONLY <2>1
  <2>5. \A k \in 1..(m - 1) : k > 1 => k - 1 \in 1..(m - 1)
    BY ONLY <2>1
  <2>6. m > 1 => m - 1 \in 1..(m - 1)
    BY ONLY <2>1
  <2>7. \A k \in 1..(m - 1) : k # m - 1 => k + 1 \in 1..(m - 1)
    BY ONLY <2>1
  <2>8. \A k \in 1..(m - 1) : k = m - 1 => k + 1 = m
    BY ONLY <2>1
  <2> QED BY ONLY <2>2, <2>3, <2>4, <2>5, <2>6, <2>7, <2>8
<1>9. /\ pending[n].kind = "call" /\ pending[n].place = frame_stack_[m].caller
      /\ frame_stack_[m].caller[1] \in Lines /\ frame_stack_[m].caller[2] >= 2
      /\ m > 1 => <<frame_stack_[m].caller[1], frame_stack_[m - 1].end_line>> \in Bodies
  <2>1. \A i \in 1..m : /\ pending[c + i].kind = "call"
                        /\ pending[c + i].place = frame_stack_[i].caller
                        /\ frame_stack_[i].caller[1] \in Lines /\ frame_stack_[i].caller[2] >= 2
                        /\ i > 1 => <<frame_stack_[i].caller[1], frame_stack_[i - 1].end_line>> \in Bodies
    BY <1>4, <1>7 DEF Matching
  <2>2. m \in 1..m /\ c + m = n
    BY <1>7, <1>8
  <2>3. /\ pending[c + m].kind = "call" /\ pending[c + m].place = frame_stack_[m].caller
        /\ frame_stack_[m].caller[1] \in Lines /\ frame_stack_[m].caller[2] >= 2
        /\ m > 1 => <<frame_stack_[m].caller[1], frame_stack_[m - 1].end_line>> \in Bodies
    BY ONLY <2>1, <2>2
  <2> QED BY <2>2, <2>3
<1>10. /\ ln' \in Lines /\ ln' \in Nat /\ col' >= 2 /\ col' \in Nat /\ col' # 1
       /\ frame_stack_[m].caller \in Nat \X Nat /\ frame_stack_[m].caller = <<ln', col'>>
  <2>1. frame_stack_[m] \in ProcFrames
    BY <1>5, <1>7
  <2>2. frame_stack_[m].caller \in Nat \X Nat
    BY <2>1 DEF ProcFrames
  <2> QED BY <2>2, <1>3, <1>7, <1>9
<1>11. Top(pending).kind = "call" /\ <<ln', col'>> = Top(pending).place
  BY <1>6, <1>9, <1>10
<1>12. Here' = ln' + 1 /\ BackTo(Top(pending)) = ln' + 1
  BY <1>3, <1>6, <1>9, <1>10 DEF Here, BackTo
<1>13. Types'
  <2>1. Lines' = Lines
    BY <1>3, TextSame
  <2>2. ln' \in Lines' /\ col' \in Nat \ {0} /\ jmp' \in Int /\ jmp' >= -1
    <3>1. \A x \in Nat : x >= 2 => x \in Nat \ {0}
      OBVIOUS
    <3> QED BY <3>1, <2>1, <1>3, <1>10 DEF Stay
  <2>3. frame_stack_' \in Seq(ProcFrames) /\ pending' \in Seq(Saved)
    BY <1>3, <1>6, <1>7
  <2> QED BY <2>2, <2>3, <1>3 DEF Types
<1>14. Matching'
  <2>1. Bodies' = Bodies /\ Lines' = Lines
    BY <1>3, TextSame
  <2>2. Len(pending') = Len(call_stack_') + Len(frame_stack_')
    BY <1>3, <1>4, <1>6, <1>7, <1>8
  <2>3. \A i \in 1..c : pending[i].kind = "gosub" /\ pending[i].place[1] = call_stack_[i]
    BY <1>5 DEF Matching
  <2>4. \A i \in 1..c : pending'[i].kind = "gosub" /\ pending'[i].place[1] = call_stack_'[i]
    BY <2>3, <1>3, <1>6, <1>8
  <2>5. \A i \in 1..m : /\ pending[c + i].kind = "call"
                        /\ pending[c + i].place = frame_stack_[i].caller
                        /\ frame_stack_[i].caller[1] \in Lines /\ frame_stack_[i].caller[2] >= 2
    BY <1>4, <1>7 DEF Matching
  <2>6. \A i \in 1..(m - 1) : /\ pending'[c + i].kind = "call"
                              /\ pending'[c + i].place = frame_stack_'[i].caller
                              /\ frame_stack_'[i].caller[1] \in Lines /\ frame_stack_'[i].caller[2] >= 2
    BY <2>5, <1>3, <1>6, <1>7, <1>8
  <2>7. \A i \in 1..m : i > 1 => <<frame_stack_[i].caller[1], frame_stack_[i - 1].end_line>> \in Bodies
    BY <1>7 DEF Matching
  <2>8. \A i \in 1..(m - 1) : i > 1 => <<frame_stack_'[i].caller[1], frame_stack_'[i - 1].end_line>> \in Bodies
    BY <2>7, <1>3, <1>7, <1>8
  <2>9. frame_stack_' # <<>> => <<ln', Top(frame_stack_').end_line>> \in Bodies
    <3> SUFFICES ASSUME frame_stack_' # <<>> PROVE <<ln', Top(frame_stack_').end_line>> \in Bodies
      OBVIOUS
    <3>1. m - 1 # 0
      BY <1>3, <1>7, EmptySeq
    <3>2. m > 1
      BY <3>1, <1>7
    <3>3. Top(frame_stack_') = frame_stack_[m - 1]
      BY <3>2, <1>3, <1>7, <1>8 DEF Top
    <3> QED BY <3>2, <3>3, <1>3, <1>7, <1>9
  <2>10. DOMAIN call_stack_' = 1..c /\ Len(call_stack_') = c /\ DOMAIN frame_stack_' = 1..(m - 1)
    BY <1>3, <1>4, <1>5, <1>7
  <2> QED BY <2>1, <2>2, <2>4, <2>6, <2>8, <2>9, <2>10, <1>10 DEF Matching
<1>15. ASSUME ~interrupted_
       PROVE  /\ Good' /\ for_stack_ = Top(pending).fors /\ while_stack_ = Top(pending).whiles
              /\ if_stack_ = Top(pending).ifs /\ select_stack_ = Top(pending).selects
  <2>1. Good
    BY <1>15
  <2>2. Here # Halt /\ Blocks[Here] = Outside
    BY <2>1, <1>1, <1>15, ProcEnds
  <2>3. /\ OwnVars(for_stack_)' /\ (\A k \in DOMAIN pending' : CallHolds(pending, k)')
        /\ DosHold(do_stack_)' /\ StacksFit'
        /\ for_stack_ = Top(pending).fors /\ while_stack_ = Top(pending).whiles
        /\ if_stack_ = Top(pending).ifs /\ select_stack_ = Top(pending).selects
    <3>1. Here' = BackTo(Top(pending))
      BY <1>12
    <3> QED BY <2>1, <2>2, <3>1, <1>2, <1>3, PopGood
  <2>4. Placed'
    <3>1. Routine' = Routine /\ Lasts' = Lasts
      BY <1>3, TextSame
    <3>2. frame_stack_' # <<>> => <<Here', Top(frame_stack_').end_line>> \in Lasts
      <4> SUFFICES ASSUME frame_stack_' # <<>> PROVE <<Here', Top(frame_stack_').end_line>> \in Lasts
        OBVIOUS
      <4>1. <<ln', Top(frame_stack_').end_line>> \in Bodies
        <5>1. Bodies' = Bodies
          BY <1>3, TextSame
        <5> QED BY <5>1, <1>3, <1>14 DEF Matching
      <4>2. Inside(ln', Top(frame_stack_').end_line) /\ Top(frame_stack_').end_line \in Nat
        BY <4>1 DEF Bodies
      <4>3. UpTo(ln' + 1, Top(frame_stack_').end_line)
        <5>1. PICK s \in Lines : /\ Keyword(s) = "sub" /\ SubEnd(s) = Top(frame_stack_').end_line
                                 /\ s < ln' /\ ln' < Top(frame_stack_').end_line
          BY <4>2 DEF Inside
        <5>2. s \in Nat
          BY Text
        <5>3. PICK a \in Nat, e \in Nat : a = ln' /\ e = Top(frame_stack_').end_line
          BY <4>2, <1>10
        <5>4. s < a /\ a < e
          BY <5>1, <5>3, Zenon
        <5>5. s < a + 1 /\ a + 1 <= e
          <6>1. \A x, y, z \in Nat : x < y /\ y < z => x < y + 1 /\ y + 1 <= z
            OBVIOUS
          <6> QED BY <6>1, <5>2, <5>4
        <5> QED BY <5>1, <5>3, <5>5 DEF UpTo
      <4> QED BY <4>2, <4>3, <1>10, <1>12 DEF Lasts
    <3>3. \A k \in 1..n : k >= 2 /\ k <= c + 1 =>
             /\ BackTo(pending[k]) # Halt => BackTo(pending[k]) \in Routine
             /\ pending[k].kind = "call" => pending[k].place[1] \in Routine
      BY <2>1, <1>4, <1>6 DEF Good, Placed
    <3>4. \A k \in 1..(n - 1) : k >= 2 /\ k <= c + 1 =>
             /\ BackTo(pending'[k]) # Halt => BackTo(pending'[k]) \in Routine
             /\ pending'[k].kind = "call" => pending'[k].place[1] \in Routine
      BY <3>3, <1>3, <1>6
    <3>5. frame_stack_' = <<>> /\ pending' # <<>> => Here' \in Routine /\ ln' \in Routine
      <4> SUFFICES ASSUME frame_stack_' = <<>>, pending' # <<>> PROVE Here' \in Routine /\ ln' \in Routine
        OBVIOUS
      <4>1. m - 1 = 0 /\ n - 1 # 0
        BY <1>3, <1>6, <1>7, EmptySeq
      <4>2. n >= 2 /\ n <= c + 1
        BY <4>1, <1>4, <1>7
      <4>3. ln' + 1 # Halt
        <5>1. \A a \in Nat : a + 1 # Halt
          BY DEF Halt
        <5> QED BY <5>1, <1>10
      <4>4. BackTo(pending[n]) \in Routine /\ pending[n].place[1] \in Routine
        BY <4>2, <4>3, <3>3, <1>6, <1>9, <1>12
      <4> QED BY <4>4, <1>6, <1>9, <1>10, <1>12
    <3>6. jmp' # Halt
      BY <1>3 DEF Stay, Halt
    <3>7. Len(call_stack_') = c /\ DOMAIN pending' = 1..(n - 1)
      BY <1>3, <1>4, <1>6
    <3> QED BY <3>1, <3>2, <3>4, <3>5, <3>6, <3>7 DEF Placed, BackTo
  <2>5. ExitsOutside'
    <3>1. Blocks' = Blocks
      BY <1>3, TextSame
    <3>2. \A i \in 1..m : frame_stack_[i].exiting =>
             Blocks[IF i = m THEN Here ELSE frame_stack_[i + 1].caller[1] + 1] = Outside
      BY <2>1, <1>4, <1>7 DEF Good, ExitsOutside
    <3>3. ASSUME NEW i \in 1..(m - 1), frame_stack_'[i].exiting
          PROVE  Blocks[IF i = m - 1 THEN Here' ELSE frame_stack_'[i + 1].caller[1] + 1] = Outside
      <4>1. frame_stack_'[i] = frame_stack_[i] /\ i \in 1..m /\ i # m
        BY <1>3, <1>7
      <4>2. Blocks[frame_stack_[i + 1].caller[1] + 1] = Outside
        BY <4>1, <3>2, <3>3
      <4>3. CASE i = m - 1
        <5>1. Here' = frame_stack_[i + 1].caller[1] + 1
          BY <4>3, <1>8, <1>10, <1>12
        <5> QED BY <4>2, <4>3, <5>1
      <4>4. CASE i # m - 1
        <5>1. frame_stack_'[i + 1] = frame_stack_[i + 1]
          BY <4>4, <1>3, <1>7, <1>8
        <5> QED BY <4>2, <4>4, <5>1
      <4> QED BY <4>3, <4>4
    <3>4. \A i \in 1..(m - 1) : frame_stack_'[i].exiting =>
             Blocks[IF i = m - 1 THEN Here' ELSE frame_stack_'[i + 1].caller[1] + 1] = Outside
      BY <3>3
    <3>5. DOMAIN frame_stack_' = 1..(m - 1) /\ Len(frame_stack_') = m - 1
      BY <1>3, <1>7
    <3> QED BY <3>1, <3>4, <3>5 DEF ExitsOutside
  <2> QED BY <2>3, <2>4, <2>5 DEF Good
<1> QED BY <1>2, <1>10, <1>11, <1>13, <1>14, <1>15

-----------------------------------------------------------------------------
(* The invariant                                                           *)

LEMMA StatementKeeps ==
    ASSUME Tidy, Types, Matching, Statement
    PROVE  Keeps /\ program' = program /\ interrupted_' = interrupted_
<1>1. CASE Plain \/ SingleIf \/ SingleElse
  BY <1>1, PlainKeeps DEF Plain, SingleIf, SingleElse, Same
<1>2. CASE End
  BY <1>2, EndKeeps DEF End, Same
<1>3. CASE BlockIf
  BY <1>3, BlockIfKeeps DEF BlockIf, IfMoves, Same
<1>4. CASE ElseIf \/ Else
  BY <1>4, ElsesKeep DEF ElseIf, Else, IfMoves, Same
<1>5. CASE EndIf
  BY <1>5, EndIfKeeps DEF EndIf, IfMoves, Same
<1>6. CASE For
  BY <1>6, ForKeeps DEF For, ForMoves, Same
<1>7. CASE Next_
  BY <1>7, NextKeeps DEF Next_, ForMoves, Same
<1>8. CASE ExitFor
  BY <1>8, ExitForKeeps DEF ExitFor, ForMoves, Same
<1>9. CASE While
  BY <1>9, WhileKeeps DEF While, WhileMoves, Same
<1>10. CASE Wend
  BY <1>10, WendKeeps DEF Wend, WhileMoves, Same
<1>11. CASE Do
  BY <1>11, DoKeeps DEF Do, DoMoves, Same
<1>12. CASE Loop
  BY <1>12, LoopKeeps DEF Loop, DoMoves, Same
<1>13. CASE ExitDo
  BY <1>13, ExitDoKeeps DEF ExitDo, DoMoves, Same
<1>14. CASE Select
  BY <1>14, SelectKeeps DEF Select, SelectMoves, Same
<1>15. CASE Case
  BY <1>15, CaseKeeps DEF Case, SelectMoves, Same
<1>16. CASE EndSelect
  BY <1>16, EndSelectKeeps DEF EndSelect, SelectMoves, Same
<1>17. CASE Goto
  BY <1>17, GotoKeeps DEF Goto, CallMoves, Same
<1>18. CASE Gosub
  BY <1>18, GosubKeeps DEF Gosub, CallMoves, Same
<1>19. CASE Return
  BY <1>19, ReturnKeeps DEF Return, CallMoves, Same
<1>20. CASE Sub
  BY <1>20, SubKeeps DEF Sub, CallMoves, Same
<1>21. CASE ExitSub
  BY <1>21, ExitSubKeeps DEF ExitSub, CallMoves, Same
<1>22. CASE Call
  BY <1>22, CallKeeps DEF Call, CallMoves, Same
<1> QED
  BY <1>1, <1>2, <1>3, <1>4, <1>5, <1>6, <1>7, <1>8, <1>9, <1>10, <1>11, <1>12, <1>13, <1>14, <1>15,
     <1>16, <1>17, <1>18, <1>19, <1>20, <1>21, <1>22 DEF Statement

\* No line has run: no block is open.
LEMMA BasicInit == ASSUME Tidy, Init PROVE BasicInv
<1>1. /\ ln = 1 /\ col = 1 /\ jmp = Stay /\ call_stack_ = <<>> /\ for_stack_ = <<>> /\ while_stack_ = <<>>
      /\ if_stack_ = <<>> /\ do_stack_ = <<>> /\ select_stack_ = <<>> /\ frame_stack_ = <<>> /\ pending = <<>>
  BY DEF Init
<1>2. 1 \in Lines /\ Blocks[1] = Outside
  BY FirstLine, BlocksAre
<1>3. Here = 1 /\ Base = NoFrames
  BY <1>1 DEF Here, Base, NoFrames, Stay
<1>4. Types
  BY <1>1, <1>2 DEF Types, Stay
<1>5. DOMAIN pending = {} /\ DOMAIN frame_stack_ = {} /\ DOMAIN call_stack_ = {} /\ DOMAIN for_stack_ = {}
  BY <1>1
<1>6. Matching
  <2>1. Len(pending) = Len(call_stack_) + Len(frame_stack_)
    BY <1>1
  <2> QED BY <2>1, <1>1, <1>5 DEF Matching
<1>7. StacksFit
  <2>1. Stored(NoFrames)
    BY DEF Stored, NoFrames
  <2>2. /\ for_stack_ \in Seq(ForFrames) /\ while_stack_ \in Seq(WhileFrames)
        /\ if_stack_ \in Seq(IfFrames) /\ select_stack_ \in Seq(SelectFrames)
    BY <1>4 DEF Types
  <2>3. /\ NoFrames.fors = for_stack_ /\ NoFrames.whiles = while_stack_
        /\ NoFrames.ifs = if_stack_ /\ NoFrames.selects = select_stack_
    BY <1>1 DEF NoFrames
  <2>4. Fits(for_stack_, while_stack_, if_stack_, select_stack_, NoFrames, Outside) /\ DoTop(do_stack_, Outside)
    BY <2>1, <2>2, <2>3, FitsOutside
  <2> QED BY <2>4, <1>2, <1>3 DEF StacksFit
<1> QED BY <1>1, <1>4, <1>5, <1>6, <1>7 DEF BasicInv, Good, OwnVars, DosHold, Placed, ExitsOutside

LEMMA BasicStep ==
    ASSUME BasicInv, [Next]_vars
    PROVE  BasicInv'
<1>1. Tidy /\ Types /\ Matching /\ (Away \/ Good)
  BY DEF BasicInv
<1>2. Away => interrupted_
  BY DEF Away
<1>3. CASE Statement
  <2>1. Keeps /\ program' = program /\ interrupted_' = interrupted_
    BY <1>1, <1>3, StatementKeeps
  <2>2. Tidy'
    BY <2>1, <1>1, TextSame
  <2>3. Types' /\ Matching' /\ (Good => Good') /\ (col' >= 2 \/ jmp' # Stay)
    BY <2>1 DEF Keeps
  <2>4. Away => Away'
    BY <2>1, <2>3, <1>2 DEF Away
  <2> QED BY <2>2, <2>3, <2>4, <1>1 DEF BasicInv
<1>4. CASE RunNext \/ ProcNext \/ Interrupt \/ Finished \/ UNCHANGED vars
  <2>1. program' = program /\ UNCHANGED <<stacks, pending>>
    BY <1>4 DEF RunNext, ProcNext, Interrupt, Finished, vars, ghosts
  <2>2. Tidy'
    BY <2>1, <1>1, TextSame
  <2>3. CASE ~UNCHANGED at
    <3>1. GoTo(Where) /\ LineOver /\ Where \in Lines /\ ~interrupted_
          /\ (frame_stack_ # <<>> => Where < Top(frame_stack_).end_line /\ ~Top(frame_stack_).exiting)
      BY <1>4, <2>3, Zenon DEF RunNext, ProcNext, Interrupt, Finished, ProcOver, InBody, vars
    <3> QED BY <3>1, <2>1, <2>2, <1>1, <1>2, LineBegins DEF BasicInv
  <2>4. CASE UNCHANGED at
    <3>1. Types' /\ Matching' /\ (Good => Good')
      BY <2>1, <2>4, <1>1, NothingMoves
    <3>2. interrupted_ => interrupted_'
      BY <1>4 DEF RunNext, ProcNext, Interrupt, Finished, vars
    <3>3. Away => Away'
      BY <3>2, <2>4 DEF Away, at
    <3> QED BY <3>1, <3>3, <2>2, <1>1 DEF BasicInv
  <2> QED BY <2>3, <2>4
<1>5. CASE ProcReturn
  <2>1. program' = program /\ interrupted_' = interrupted_
    BY <1>5 DEF ProcReturn
  <2>2. Tidy'
    BY <2>1, <1>1, TextSame
  <2>3. Types' /\ Matching' /\ col' >= 2 /\ (interrupted_ \/ Good')
    BY <1>1, <1>2, <1>5, ProcReturnKeeps
  <2> QED BY <2>1, <2>2, <2>3 DEF BasicInv, Away
<1> QED BY <1>3, <1>4, <1>5 DEF Next

\* In a tidy program the stacks hold, at every place, the blocks around it.
THEOREM BasicInvariant == Tidy /\ Spec => []BasicInv
<1>1. Tidy /\ Init => BasicInv
  BY BasicInit
<1>2. BasicInv /\ [Next]_vars => BasicInv'
  BY BasicStep
<1> QED BY <1>1, <1>2, PTL DEF Spec

\* At every line of a tidy program the stacks hold the blocks that enclose it above
\* those of the callers, and the top of do_stack_ is the innermost DO: no block that
\* has been left leaves its frame behind, and none that is open loses it.
THEOREM StacksBalanced == Tidy /\ Spec => []Balanced
<1>1. ASSUME BasicInv PROVE Balanced
  <2> SUFFICES ASSUME jmp = Stay, col = 1
               PROVE  /\ Lists(ForLines(for_stack_), Len(Base.fors), Enclosing(ln, ForWords))
                      /\ Lists(WhileLines(while_stack_), Len(Base.whiles), Enclosing(ln, {"while"}))
                      /\ Lists(IfLines(if_stack_), Len(Base.ifs), Enclosing(ln, {"if"}))
                      /\ Lists(SelectLines(select_stack_), Len(Base.selects), Enclosing(ln, {"select"}))
                      /\ Enclosing(ln, {"do"}) # {} =>
                           do_stack_ # <<>> /\ Top(do_stack_).do_line = Innermost(ln, {"do"})
    BY Zenon DEF Balanced
  <2>1. Tidy /\ Types /\ Good
    BY <1>1 DEF BasicInv, Away
  <2>2. Here = ln /\ ln \in Lines
    BY <2>1 DEF Here, Types
  <2>3. ln \in Nat /\ ln \in Spots /\ ln # Halt
    BY <2>1, <2>2, SpotsAre DEF Halt
  <2>4. /\ Fits(for_stack_, while_stack_, if_stack_, select_stack_, Base, Around(ln))
        /\ DoTop(do_stack_, Around(ln))
    BY <2>1, <2>2, <2>3, BlocksAre DEF Good, StacksFit
  <2>5. /\ Around(ln).fors = Enclosing(ln, ForWords) /\ Around(ln).whiles = Enclosing(ln, {"while"})
        /\ Around(ln).ifs = Enclosing(ln, {"if"}) /\ Around(ln).selects = Enclosing(ln, {"select"})
        /\ Around(ln).dos = Enclosing(ln, {"do"})
    BY DEF Around
  <2>6. ASSUME Enclosing(ln, {"do"}) # {}
        PROVE  do_stack_ # <<>> /\ Top(do_stack_).do_line = Innermost(ln, {"do"})
    <3>1. Enclosing(ln, {"do"}) \in SUBSET Nat
      BY <2>1, <2>3, Encloses, KindWords
    <3>2. do_stack_ # <<>> /\ \A c \in Enclosing(ln, {"do"}) : Top(do_stack_).do_line = c
      BY <2>4, <2>5, <2>6 DEF DoTop
    <3>3. PICK c \in Enclosing(ln, {"do"}) : \A d \in Enclosing(ln, {"do"}) : d = c
      BY <3>2, <2>6
    <3>4. c \in Nat /\ \A d \in Enclosing(ln, {"do"}) : c >= d
      BY <3>1, <3>3
    <3>5. Max(Enclosing(ln, {"do"})) \in Enclosing(ln, {"do"})
      BY <3>4, Zenon DEF Max
    <3> QED BY <3>2, <3>5 DEF Innermost
  <2> QED BY <2>4, <2>5, <2>6 DEF Fits, Fit
<1> QED BY <1>1, BasicInvariant, PTL

\* In a tidy program RETURN and the end of a SUB go on right after their call, and the
\* caller finds the loops, conditions and SELECTs open that it had.
THEOREM CallsComeBack == Tidy /\ Spec => CallsReturn
<1> DEFINE Back == Len(pending') < Len(pending) =>
        LET back == Top(pending) IN
        /\ IF back.kind = "call" THEN <<ln', col'>> = back.place ELSE jmp' = back.place[1]
        /\ interrupted_ \/ /\ for_stack_ = back.fors /\ while_stack_ = back.whiles
                           /\ if_stack_ = back.ifs /\ select_stack_ = back.selects
<1>1. ASSUME BasicInv, [Next]_vars PROVE [Back]_vars
  <2>1. Tidy /\ Types /\ Matching /\ (Good \/ interrupted_)
    BY <1>1 DEF BasicInv, Away
  <2>2. CASE Return
    <3>1. pending' # pending => Top(pending).kind = "gosub" /\ jmp' = Top(pending).place[1]
      BY <2>1, <2>2, ReturnKeeps
    <3>2. pending' # pending /\ Good =>
                /\ for_stack_ = Top(pending).fors /\ while_stack_ = Top(pending).whiles
                /\ if_stack_ = Top(pending).ifs /\ select_stack_ = Top(pending).selects
      BY <2>1, <2>2, ReturnKeeps
    <3>3. Len(pending) \in Nat
      BY <2>1 DEF Types
    <3>4. Len(pending') < Len(pending) => pending' # pending
      BY <3>3
    <3>5. "gosub" # "call"
      OBVIOUS
    <3> QED BY <3>1, <3>2, <3>4, <3>5, <2>1
  <2>3. CASE ProcReturn
    BY <2>1, <2>3, ProcReturnKeeps
  <2>4. CASE ~Return /\ ~ProcReturn
    <3>1. Len(pending) \in Nat /\ pending \in Seq(Saved)
      BY <2>1 DEF Types
    <3>2. pending' = pending \/ \E x : pending' = Append(pending, x)
      <4>1. CASE Statement
        BY <2>4, <4>1 DEF Statement, Plain, End, SingleIf, SingleElse, BlockIf, ElseIf, Else, EndIf,
             For, Next_, ExitFor, While, Wend, Do, Loop, ExitDo, Select, Case, EndSelect, Goto, Gosub,
             Sub, ExitSub, Call, IfMoves, ForMoves, WhileMoves, DoMoves, SelectMoves, ghosts
      <4>2. CASE ~Statement
        BY <1>1, <2>4, <4>2 DEF Next, RunNext, ProcNext, Interrupt, Finished, vars, ghosts
      <4> QED BY <4>1, <4>2
    <3>3. ~(Len(pending') < Len(pending))
      <4>1. ASSUME NEW x, pending' = Append(pending, x) PROVE Len(pending') = Len(pending) + 1
        BY <4>1, <3>1
      <4>2. pending' = pending => Len(pending') = Len(pending)
        OBVIOUS
      <4>3. PICK n \in Nat : n = Len(pending)
        BY <3>1
      <4>4. Len(pending') = n \/ Len(pending') = n + 1
        BY <4>1, <4>2, <4>3, <3>2
      <4> QED BY <4>3, <4>4
    <3> QED BY <3>3
  <2> QED BY <2>2, <2>3, <2>4
<1>2. BasicInv /\ [Next]_vars => [Back]_vars
  BY <1>1
<1> QED BY <1>2, BasicInvariant, PTL DEF Spec, CallsReturn
=============================================================================
