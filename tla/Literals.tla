------------------------------- MODULE Literals -------------------------------
(***************************************************************************)
(* The literals of the assembler (assembler/literal.c, and compile_data's  *)
(* loop in data.c): what becomes of a line of a data definition.  A line   *)
(* is a sequence of symbols; "1" stands for any digit.  Which numbers the  *)
(* parser reads, how far it gets, and how many bytes of each number are    *)
(* stored is modelled; their values are not.                               *)
(***************************************************************************)
EXTENDS Integers, SequencesExt, FiniteSets

Symbols == {"1", ".", ",", " ", "[", "]"}
Brackets == {"[", "]"}

\* The elements of s that are in S, in their order: SelectSeq, with a set for
\* the test
Where(s, S) == FlattenSeq([n \in 1 .. Len(s) |-> IF s[n] \in S THEN <<s[n]>> ELSE <<>>])

\* The first symbol of S from n on, or the end of the line
First(c, n, S) ==
  CHOOSE m \in n .. Len(c) + 1 :
    /\ m = Len(c) + 1 \/ c[m] \in S
    /\ \A k \in n .. m - 1 : c[k] \notin S

\* "consume trailing space, commas"
Skipped(c, n) == IF n > Len(c) THEN n ELSE First(c, n, Symbols \ {",", " "})

\* What a parser returns: a literal, the places of the numbers in it, and where
\* it goes on.  "refused" is an exit; when it is "undefined" memory behind an
\* array was written or read.
Literal(type, reads, next) == [type |-> type, reads |-> reads, next |-> next]
Refused == Literal("refused", <<>>, 0)
Undefined == Literal("undefined", <<>>, 0)

\* compile_lit: the size of the literal, eight bytes for a number, and how many
\* of them it fills.  Of a number alone it stores the lowest byte; of a vector
\* or a matrix it copies as many bytes as there are numbers.
SizeOf_Single(type) == 8

SizeOf(type) == CASE type = "vector" -> 32 [] type = "matrix" -> 128 [] OTHER -> 8


CopiedOf(type) == CASE type = "vector" -> 4 [] type = "matrix" -> 16 [] OTHER -> 1

\* ... and so, how many of the eight bytes of each of its numbers
Stored(l) ==
  [j \in 1 .. Len(l.reads) |->
    LET rest == CopiedOf(l.type) - 8 * (j - 1) IN IF rest < 0 THEN 0 ELSE IF rest > 8 THEN 8 ELSE rest]

\* Each loop of the parsers parses a literal after the other, lits[n] at the
\* place n, until it is at one of stops: the places of the numbers it has read
\* from n on, how much of each is stored, in how many bytes, where it is and
\* how it ends.
Ended(end, reads, stored, length, pos) ==
  [end |-> end, reads |-> reads, stored |-> stored, length |-> length, pos |-> pos]

Loop(lits, stops) ==
  LET from[n \in DOMAIN lits] ==
        IF n \in stops THEN Ended("ok", <<>>, <<>>, 0, n)
        ELSE IF lits[n].type \in {"refused", "undefined"} THEN Ended(lits[n].type, <<>>, <<>>, 0, n)
        ELSE IF lits[n].next <= n THEN Ended("loops", <<>>, <<>>, 0, n)
        ELSE LET rest == from[lits[n].next]
             IN  Ended(rest.end, lits[n].reads \o rest.reads, Stored(lits[n]) \o rest.stored,
                       SizeOf(lits[n].type) + rest.length, rest.pos)
  IN  from

\* Where a loop can be: a vector may end behind the end of the line.
Places(c) == 1 .. Len(c) + 2
Closing(c) == {n \in DOMAIN c : c[n] = "]"}
Behind(c) == {Len(c) + 1, Len(c) + 2}

\* A comma does not end a number: what follows it without a blank is lost.
\* strtol and strtod skip blanks.
Simple(c, pos, n) ==
  Literal(IF \E k \in pos .. n - 1 : c[k] = "." THEN "fractional" ELSE "integral",
          <<First(c, pos, Symbols \ {" "})>>, Skipped(c, n))

parse_simple(c, pos) == Simple(c, pos, First(c, pos, {" ", "]"}))

\* The simple literals of a vector, from each place on
Elements(c) == Loop([n \in Places(c) |-> parse_simple(c, n)], Closing(c) \cup Behind(c))

\* values has room for four.
Vector(c, all) ==
  CASE Len(all.reads) < 4 -> Refused
    [] Len(all.reads) > 4 -> Undefined
    [] OTHER -> Literal("vector", all.reads, Skipped(c, all.pos + 1))

parse_vector(c, pos) == Vector(c, Elements(c)[pos + 1])

\* The vectors of a matrix; behind the line there is no bracket to end it.
Vectors(c) ==
  Loop([n \in Places(c) |-> IF n > Len(c) + 1 THEN Undefined ELSE parse_vector(c, n)], Closing(c))

\* values has room for four vectors.
Matrix(c, all) ==
  IF Len(all.reads) > 16 \/ all.end = "undefined" THEN Undefined
  ELSE IF Len(all.reads) < 16 \/ all.end = "refused" THEN Refused
  ELSE Literal("matrix", all.reads, Skipped(c, all.pos + 1))

\* Whatever is at pos passes for a bracket.
parse_composite(c, pos) ==
  LET n == First(c, pos + 1, Symbols \ {" "})
  IN  IF n <= Len(c) /\ c[n] = "[" THEN Matrix(c, Vectors(c)[n]) ELSE parse_vector(c, pos)

\* It is the first symbol of the line that tells what a literal is.
consume_lit(c, pos) ==
  CASE c[1] = "[" -> parse_composite(c, pos)
    [] c[1] = "1" -> parse_simple(c, pos)
    [] OTHER -> Refused

\* compile_data's loop over a line.  It does not get past a bracket behind a
\* number.
Compiled(c) == Loop([n \in Places(c) |-> consume_lit(c, n)], Behind(c))[1]

-----------------------------------------------------------------------------
(* What it should compute. *)

\* Where the numbers of a line begin
InNumber(c, k) == c[k] \in {"1", "."}
Numbers(c) == {k \in DOMAIN c : InNumber(c, k) /\ (k = 1 \/ ~InNumber(c, k - 1))}

InOrder(c) == Where([k \in 1 .. Len(c) |-> k], Numbers(c))

\* How many brackets are open at k
Depth(c, k) == Cardinality({m \in 1 .. k : c[m] = "["}) - Cardinality({m \in 1 .. k : c[m] = "]"})

\* The numbers that no number stands before in their outermost brackets
Leading(c) ==
  {k \in Numbers(c) : \A m \in Numbers(c) : m < k => \E b \in m .. k : Depth(c, b) = 0}

\* The last symbol of S before k, 0 if there is none
Previous(c, k, S) ==
  CHOOSE m \in 0 .. k - 1 : (m = 0 \/ c[m] \in S) /\ \A j \in m + 1 .. k - 1 : c[j] \notin S

\* A bracket that is opened follows a bracket and has its content right behind
\* it, and there are vectors in a matrix and no more.  A number is in a bracket
\* that holds nothing else but numbers, or there are no brackets in the line.
\* Both are set off by a blank or touch the bracket they are in.
Tidy(c) ==
  \A k \in DOMAIN c :
    /\ Depth(c, k) \in 0 .. 2
    /\ k \in Numbers(c) \/ c[k] = "[" => k = 1 \/ c[k - 1] \in {" ", "["}
    /\ c[k] = "[" => k < Len(c) /\ c[k + 1] \notin {" ", ","}
    /\ c[k] = "[" => k = 1 \/ c[Previous(c, k, Symbols \ {" ", ","})] \in Brackets
    /\ k \in Numbers(c) =>
         LET m == Previous(c, k, Brackets) IN IF c[1] = "[" THEN c[m] = "[" ELSE m = 0
=============================================================================
