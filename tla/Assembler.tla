------------------------------- MODULE Assembler -------------------------------
(***************************************************************************)
(* The assembler (assembler/): one pass after the other over a source      *)
(* file, from its lines to the program image.                              *)
(*                                                                         *)
(* A line is the character that tells the passes what it is, and a text:   *)
(* the name behind ":" or "."; the symbols of a line of literals ("[" or   *)
(* "1") or of blanks (" "), the first among them; an instruction and what  *)
(* parse_operand takes its operands for ("t").  ";" is a line that is      *)
(* empty or a comment from its first character on.                         *)
(* The image is a sequence of pieces with their lengths in bytes.  Main    *)
(* runs each pass to its end, so a pass is a step; those that refuse the   *)
(* source end the process without an image, and a pass that writes behind  *)
(* an array is "undefined".                                                *)
(***************************************************************************)
EXTENDS Literals

CONSTANTS
  SourceFiles,  \* the source files, sequences of records [first, text]
  MaxSections,  \* the room of parse_sections, 128
  MaxDefs,      \* identify_data's limit, 64
  MaxOperands   \* the room of parse_instr, 8

Line == [first : {".", ":", "[", "1", " ", "t", ";"}, text : Seq(STRING)]

\* The counts in the image are bytes, the length of an instruction has 7 bits.
ASSUME AssemblerAssumption ==
  /\ MaxSections \in 0 .. 255
  /\ MaxDefs \in 0 .. 255
  /\ MaxOperands \in 0 .. 14
  /\ SourceFiles \subseteq Seq(Line)
  /\ \A file \in SourceFiles : \A n \in DOMAIN file :
       IF file[n].first \in {"[", "1", " "}
         THEN file[n].text \in Seq(Symbols) /\ file[n].text # <<>> /\ file[n].text[1] = file[n].first
         ELSE file[n].first = "t" => file[n].text # <<>> /\ file[n].text[1] \notin {"[", "1"}

VARIABLES
  pc,
  lines,     \* asm_file
  sections,  \* sectioned_file
  defs,      \* reduced_file.data
  code,      \* reduced_file.code
  labels,    \* the local domain: labels[k] has the id k - 1
  objects,   \* objs
  datas,     \* dats
  image      \* the flattened program_file

vars == <<pc, lines, sections, defs, code, labels, objects, datas, image>>

Init ==
  /\ pc = "strip"
  /\ lines \in SourceFiles
  /\ sections = <<>> /\ defs = <<>> /\ code = <<>> /\ labels = <<>>
  /\ objects = <<>> /\ datas = <<>> /\ image = <<>>

-----------------------------------------------------------------------------
(* parse.c *)

\* load_file and strip_nonsemantic: what a semicolon begins goes, and the line
\* with it if nothing is left.  Blanks are never stripped: a line of blanks
\* stays, and so does one with a comment behind blanks.
Strip ==
  /\ pc = "strip"
  /\ lines' = Where(lines, {l \in ToSet(lines) : l.first # ";"})
  /\ pc' = "parse"
  /\ UNCHANGED <<sections, defs, code, labels, objects, datas, image>>

\* What a line has behind its first character
RestOf(l) == IF l.first \in {"[", "1", " "} THEN Tail(l.text) ELSE l.text

\* valid_section compares as many characters as the line has: a section may be
\* shortened, the first of the table that fits is taken, and no character
\* fits the first.
Abbreviations ==
  [meta    |-> {"m", "me", "met", "meta"},
   data    |-> {"d", "da", "dat", "data"},
   main    |-> {"ma", "mai", "main"},
   close   |-> {"c", "cl", "clo", "clos", "close"},
   render  |-> {"r", "re", "ren", "rend", "rende", "render"},
   resize  |-> {"res", "resi", "resiz", "resize"},
   network |-> {"n", "ne", "net", "netw", "netwo", "networ", "network"}]

SectionOf(l) ==
  IF RestOf(l) = <<>> THEN "meta"
  ELSE IF \E name \in DOMAIN Abbreviations : RestOf(l)[1] \in Abbreviations[name]
    THEN CHOOSE name \in DOMAIN Abbreviations : RestOf(l)[1] \in Abbreviations[name]
    ELSE "null"

\* The pieces of ls that begin at its first line, whatever that is, and at
\* each further line that begins with the mark.
Starts(ls, mark) ==
  Where([k \in 1 .. Len(ls) |-> k], {k \in DOMAIN ls : k = 1 \/ ls[k].first = mark})

Cut(ls, mark) ==
  LET at == Starts(ls, mark) \o <<Len(ls) + 1>>
  IN  [n \in 1 .. Len(at) - 1 |-> SubSeq(ls, at[n], at[n + 1] - 1)]

\* while (c < lines_count - 1): a header in the last line is not looked at.
Seen_Longer(pieces) == IF pieces # <<>> /\ Len(Last(pieces)) <= 2 THEN Front(pieces) ELSE pieces

Seen(pieces) == IF pieces # <<>> /\ Len(Last(pieces)) = 1 THEN Front(pieces) ELSE pieces

\* A section more than there is room for is written behind the array.
ParseSections ==
  /\ pc = "parse"
  /\ LET pieces == Seen(Cut(lines, "."))
         known == Where(pieces, {p \in ToSet(pieces) : SectionOf(Head(p)) # "null"})
     IN  IF Len(known) <= MaxSections
           THEN /\ sections' = [n \in 1 .. Len(known) |->
                     [name |-> SectionOf(Head(known[n])), body |-> Tail(known[n])]]
                /\ pc' = "reduce"
           ELSE pc' = "undefined" /\ UNCHANGED sections
  /\ UNCHANGED <<lines, defs, code, labels, objects, datas, image>>

-----------------------------------------------------------------------------
(* reduce.c *)

\* reduce_data: brackets right after the name are tags, what follows is
\* content.  The name is what the line has behind its first character.
Definition(piece) ==
  LET rest == SelectInSeq(Tail(piece), LAMBDA l : l.first # "[")
  IN  [name |-> RestOf(Head(piece)),
       content |-> IF rest = 0 THEN <<>> ELSE SubSeq(piece, rest + 1, Len(piece))]

ReduceData(body) ==
  LET pieces == Cut(body, ":") IN [n \in 1 .. Len(pieces) |-> Definition(pieces[n])]

Named(name) == Where(sections, {s \in ToSet(sections) : s.name = name})

\* Of several data sections the last one counts.  Without one, o.data is what
\* the stack held: no definitions, or anything.
Reduce ==
  /\ pc = "reduce"
  /\ code' = Where(sections, {s \in ToSet(sections) : s.name \notin {"meta", "data"}})
  /\ IF Named("data") # <<>>
       THEN defs' = ReduceData(Last(Named("data")).body) /\ pc' = "identify"
       ELSE defs' = <<>> /\ pc' \in {"identify", "undefined"}
  /\ UNCHANGED <<lines, sections, labels, objects, datas, image>>

-----------------------------------------------------------------------------
(* identify.c *)

Unique(names) == \A x, y \in DOMAIN names : names[x] = names[y] => x = y

Identify ==
  /\ pc = "identify"
  /\ LET names == [n \in 1 .. Len(defs) |-> defs[n].name] IN
       IF Len(names) <= MaxDefs /\ Unique(names)
         THEN labels' = names /\ pc' = "code"
         ELSE pc' = "refused" /\ UNCHANGED labels
  /\ UNCHANGED <<lines, sections, defs, code, objects, datas, image>>

\* get_label_id
LabelId_FromOne(name) ==
  IF \E k \in DOMAIN labels : labels[k] = name THEN CHOOSE k \in DOMAIN labels : labels[k] = name ELSE -1

LabelId(name) ==
  IF \E k \in DOMAIN labels : labels[k] = name
    THEN (CHOOSE k \in DOMAIN labels : labels[k] = name) - 1
    ELSE -1

-----------------------------------------------------------------------------
(* instr.c, compile.c *)

\* Two of the mnemonics; the assembler does not ask how many operands each has.
Mnemonics == {"exit", "blit"}

\* A label is an immediate like a number: optional_lit takes ":" for a digit,
\* and parse_operand tries it before parse_label, so labels are looked up for
\* the definitions alone.  Either has eight bytes, all zero.
Immediates == {"number", "label"}
Operands == Immediates \cup {"register"}

\* An operand behind those there is room for is not looked at any more.
Parses(l) ==
  l.first = "t" /\ l.text[1] \in Mnemonics
    /\ \A k \in 2 .. Len(l.text) : k > MaxOperands + 1 \/ l.text[k] \in Operands
Fits(l) == Len(l.text) <= MaxOperands + 1

\* The opcode; each operand has a byte for its type, and one for a register or
\* eight.
BytesOf(l) == 1 + 2 * (Len(l.text) - 1) + 7 * Len(Where(Tail(l.text), Immediates))

\* hdr.length has 7 bits.
EncodeInstr(l) == [length |-> BytesOf(l) % 128, line |-> l]

CompileCode ==
  /\ pc = "code"
  /\ LET ls == FlattenSeq([n \in 1 .. Len(code) |-> code[n].body])
         bad == Where(ls, {l \in ToSet(ls) : ~(Parses(l) /\ Fits(l))})
     IN  IF bad = <<>>
           THEN /\ objects' = [n \in 1 .. Len(code) |->
                     [ev |-> code[n].name,
                      instrs |-> [k \in 1 .. Len(code[n].body) |-> EncodeInstr(code[n].body[k])]]]
                /\ pc' = "data"
           ELSE pc' = (IF Parses(bad[1]) THEN "undefined" ELSE "refused") /\ UNCHANGED objects
  /\ UNCHANGED <<lines, sections, defs, code, labels, datas, image>>

-----------------------------------------------------------------------------
(* data.c *)

Total(lengths) ==
  LET sum[n \in 0 .. Len(lengths)] == IF n = 0 THEN 0 ELSE sum[n - 1] + lengths[n] IN sum[Len(lengths)]

Lines(n) == DOMAIN defs[n].content
CompiledLines == [n \in 1 .. Len(defs) |-> [k \in Lines(n) |-> Compiled(defs[n].content[k].text)]]

\* A line that is not compiled to its end ends the process: it is refused, goes
\* on for ever, or is refused after it wrote behind an array.
CompileData ==
  /\ pc = "data"
  /\ LET compiled == CompiledLines
         bad == Where(FlattenSeq(compiled), {l \in ToSet(FlattenSeq(compiled)) : l.end # "ok"})
     IN  IF bad = <<>>
           THEN /\ datas' = [n \in 1 .. Len(defs) |->
                     [id |-> LabelId(defs[n].name),
                      length |-> Total([k \in Lines(n) |-> compiled[n][k].length]),
                      reads |-> [k \in Lines(n) |-> compiled[n][k].reads],
                      stored |-> [k \in Lines(n) |-> compiled[n][k].stored]]]
                /\ pc' = "file"
           ELSE /\ pc' \in {bad[1].end} \cup (IF bad[1].end = "undefined" THEN {"refused"} ELSE {})
                /\ UNCHANGED datas
  /\ UNCHANGED <<lines, sections, defs, code, labels, objects, image>>

-----------------------------------------------------------------------------
(* file.c *)

Piece(kind, len, val) == [kind |-> kind, len |-> len, val |-> val]

\* set_code: every instruction has its header byte before it.
CodeLength(o) == Total([k \in DOMAIN o.instrs |-> o.instrs[k].length + 1])

\* set_storage and set_code, the offsets
StorageOffset_NoFlags(n) == Total([k \in 1 .. n - 1 |-> 4 + datas[k].length])

StorageOffset(n) == Total([k \in 1 .. n - 1 |-> 4 + 1 + datas[k].length])

CodeOffset_NoLength(n) == Total([k \in 1 .. n - 1 |-> CodeLength(objects[k])])

CodeOffset(n) == Total([k \in 1 .. n - 1 |-> 4 + CodeLength(objects[k])])

\* A count and the indices.  Room is made for sizeof(offset_index), 8 bytes
\* each, of which 5 are used: zeros follow.
Indices(kind, count, entries) ==
  <<Piece("count", 1, count)>>
    \o [n \in 1 .. Len(entries) |-> Piece(kind, 5, entries[n])]
    \o <<Piece("zeros", 3 * Len(entries), 0)>>

StorageHeader ==
  Indices("storage", Len(datas), [n \in 1 .. Len(datas) |-> [id |-> datas[n].id, offset |-> StorageOffset(n)]])

\* code_header[0] = p.storage_count
CodeHeader ==
  Indices("event", Len(datas), [n \in 1 .. Len(objects) |-> [id |-> objects[n].ev, offset |-> CodeOffset(n)]])

StorageBlob ==
  FlattenSeq([n \in 1 .. Len(datas) |->
    <<Piece("flags", 1, 0), Piece("length", 4, datas[n].length), Piece("data", datas[n].length, defs[n].name)>>])

CodeBlob ==
  FlattenSeq([n \in 1 .. Len(objects) |->
    <<Piece("length", 4, CodeLength(objects[n]))>>
      \o [k \in 1 .. Len(objects[n].instrs) |->
            Piece("instr", objects[n].instrs[k].length + 1, objects[n].instrs[k])]])

\* compile_file and collapse_file: the signature and the flags, then the four
\* parts.  Without a meta section set_flags reads what the stack held.
CollapseFile ==
  /\ pc = "file"
  /\ image' = <<Piece("magic", 8 + 1, 0)>> \o StorageHeader \o StorageBlob \o CodeHeader \o CodeBlob
  /\ pc' \in {"done"} \cup (IF Named("meta") = <<>> THEN {"undefined"} ELSE {})
  /\ UNCHANGED <<lines, sections, defs, code, labels, objects, datas>>

Next ==
  \/ Strip \/ ParseSections \/ Reduce \/ Identify \/ CompileCode \/ CompileData \/ CollapseFile

Spec == Init /\ [][Next]_vars

-----------------------------------------------------------------------------
(* Properties. *)

TypeOK ==
  /\ pc \in {"strip", "parse", "reduce", "identify", "code", "data", "file",
             "done", "refused", "loops", "undefined"}
  /\ \A n \in DOMAIN lines : lines[n].first # ";" \/ pc = "strip"
  /\ Len(labels) <= MaxDefs
  /\ \A n \in DOMAIN datas : datas[n].id \in 0 .. MaxDefs - 1

\* Reading the image: the byte a piece begins at, and the pieces of a kind.
At(k) == Total([m \in 1 .. k - 1 |-> image[m].len])
Are(kind) == {k \in DOMAIN image : image[k].kind = kind}

\* The indices before and after the data; the blobs follow the zeros.
StorageBase == At((CHOOSE k \in Are("zeros") : \A m \in Are("zeros") : k <= m) + 1)
CodeBase == At((CHOOSE k \in Are("zeros") : \A m \in Are("zeros") : k >= m) + 1)

\* Every definition has an id of its own, the one of its name, and the id leads
\* through the offset of its index to its flags, and behind them to its length
\* and as many bytes of its data, whatever definitions come before it
\* (identify.c:42-72; main.c:40-45; file.c:31-39, 103-121).
IdsLeadToData ==
  pc = "done" =>
    \A n \in DOMAIN defs : \E x \in Are("storage"), k \in Are("flags") :
      /\ image[x].val = [id |-> n - 1, offset |-> At(k) - StorageBase]
      /\ image[k + 1].val = image[k + 2].len
      /\ image[k + 2].kind = "data" /\ image[k + 2].val = defs[n].name

\* Every number of the lines of a definition has its place in the data, in
\* their order and eight bytes wide (literal.c:9-112; data.c:42-73), as long as
\* the lines are tidy: behind a comma a number is lost, behind a bracket and a
\* blank it comes twice, and behind a vector its first digit is a bracket.
NumbersInPlace ==
  pc = "done" =>
    \A n \in DOMAIN defs : (\A k \in Lines(n) : Tidy(defs[n].content[k].text)) =>
      LET numbers == [k \in Lines(n) |-> InOrder(defs[n].content[k].text)]
      IN  /\ datas[n].reads = numbers
          /\ datas[n].length = 8 * Len(FlattenSeq(numbers))


\* The lines below a header that names an event, in the order of the source.
\* The first line passes for a header.
HeaderOf(k) ==
  CHOOSE h \in 1 .. k : (h = 1 \/ lines[h].first = ".") /\ \A m \in h + 1 .. k : lines[m].first # "."
CodeLines ==
  Where([k \in 1 .. Len(lines) |-> k],
        {k \in DOMAIN lines : HeaderOf(k) # k /\ SectionOf(lines[HeaderOf(k)]) \notin {"null", "meta", "data"}})

\* No instruction of the source is left out or doubled, nor changes places
\* with another, and each is there to its last operand (parse.c:109-134;
\* reduce.c:124-136; compile.c:13-37; file.c:54-74).
CodeComplete ==
  pc = "done" =>
    LET kept == Where(image, {p \in ToSet(image) : p.kind = "instr"}) IN
      /\ Len(kept) = Len(CodeLines)
      /\ \A k \in DOMAIN kept :
           kept[k].val.line = lines[CodeLines[k]] /\ kept[k].len = 1 + BytesOf(lines[CodeLines[k]])

\* The offset of each event leads to the length of its instructions, and they
\* follow (file.c:54-74, 128-143).
EventsLeadToCode ==
  pc = "done" =>
    \A n \in DOMAIN objects :
      \E x \in Are("event"), k \in Are("length") :
        /\ image[x].val = [id |-> objects[n].ev, offset |-> At(k) - CodeBase]
        /\ At(k) + 4 + image[k].val = At(k + 1 + Len(objects[n].instrs))
        /\ \A m \in DOMAIN objects[n].instrs : image[k + m].val = objects[n].instrs[m]
=============================================================================
