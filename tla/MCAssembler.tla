----------------------------- MODULE MCAssembler -----------------------------
\* Assembler for TLC: its source files.
EXTENDS Assembler

LineOf(first, name) == [first |-> first, text |-> <<name>>]
Instruction(text) == [first |-> "t", text |-> text]
Content(symbols) == [first |-> symbols[1], text |-> symbols]

Number == <<"1">>
FourOnes == <<"[", "1", " ", "1", " ", "1", " ", "1", "]">>

\* Every file of up to five of these lines
MCLines ==
  {LineOf(".", name) : name \in {"da", "m", "main", "c"}}
    \cup {LineOf(":", name) : name \in {"a", "main"}}
    \cup {Instruction(<<"exit">>), Instruction(<<"blit", "label", "register">>)}
    \cup {Content(Number), Content(FourOnes), LineOf(";", "comment")}

\* Files at the limits: of the sections, of the operands, and of what passes for
\* a header or is left over by the first pass
MCOdd ==
  {<<LineOf(".", "main"), Instruction(<<"blit">> \o [k \in 1 .. n |-> operand]), Instruction(<<"exit">>)>> :
     n \in 1 .. 3, operand \in {"label", "register", "[x"}}
    \cup {[k \in 1 .. n |-> IF k % 2 = 1 THEN LineOf(".", "render") ELSE Instruction(<<"exit">>)] : n \in 6 .. 10}
    \cup {<<LineOf(".", "data"), l, Content(Number), LineOf(".", "main"), Instruction(<<"exit">>), Content(<<" ">>)>> :
            l \in {Content(Number), [first |-> ":", text |-> <<>>], Content(<<" ", " ">>)}}
    \cup {<<Content(<<" ">>), l, LineOf(".", "resi"), Instruction(<<"exit">>), l>> :
            l \in {Content(Number), Content(<<" ", " ">>), Instruction(<<"exit">>)}}
    \cup {<<LineOf(".", "d"), [first |-> ":", text |-> <<>>], Content(Number), Content(Number)>>,
          <<LineOf(".", "d"), Content(Number), Content(Number), [first |-> ":", text |-> <<>>]>>}

\* Two definitions whose content is made of pieces of literals; the second
\* has the content of a bracket and what may follow it.
Pieces == {Number, <<"1", ".">>, <<",">>, <<" ">>, <<"]">>, FourOnes, <<"1", ",", " ", "1", " ", "1">>, <<"[">>}
Joined(n) == {FlattenSeq(s) : s \in [1 .. n -> Pieces]}
FourRows == <<"[">> \o FourOnes \o <<",", " ">> \o FourOnes \o <<" ">> \o FourOnes \o FourOnes

\* Lines in which a bracket is read for a number, or a number for a bracket,
\* although each symbol has the neighbours it has in a tidy line
Rows(n) == FlattenSeq([m \in 1 .. n |-> <<" ">> \o FourOnes])
Deceptive ==
  {FourOnes \o <<" ", "]", " ", "[">> \o FourOnes \o Rows(3) \o <<"]">>,
   <<"[">> \o FourOnes \o Rows(2) \o <<" ", "1">> \o Tail(FourOnes) \o <<"]">>,
   <<"[", "[">> \o FourOnes \o Rows(3) \o <<"]">>,
   <<"[">> \o FourOnes \o Rows(3) \o <<"]", " ", "[">> \o FourOnes \o Rows(3) \o <<"]">>}

MCContents ==
  {Content(c) : c \in Deceptive} \cup
  {Content(c) : c \in {s \in UNION {Joined(n) : n \in 1 .. 4} : s[1] \in {"[", "1"}}}
    \cup {Content(FourRows \o s) : s \in UNION {Joined(n) : n \in 0 .. 2}}

MCFiles ==
  UNION {[1 .. n -> MCLines] : n \in 0 .. 5} \cup MCOdd
    \cup {<<LineOf(".", "m"), LineOf(".", "da"), LineOf(":", "a"), Content(Number), c, LineOf(":", "b"), c>> : c \in MCContents}
=============================================================================
