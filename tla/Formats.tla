------------------------------ MODULE Formats ------------------------------
(***************************************************************************)
(* Files opened as outlines (codec.go, markdown.go, lang.go, python.go,    *)
(* rust.go): what a source file is parsed into and what a document is      *)
(* written as.  A line is its indentation and its words; a document is the *)
(* sequence of its nodes in outline order, each with its depth; `out` are  *)
(* the further lines of a node that has some (code, output, a long         *)
(* string).  A file is opened and rows are typed; what would be written is *)
(* looked at in every state.                                               *)
(***************************************************************************)
EXTENDS Integers, SequencesExt

CONSTANTS
    Markdowns,    \* lines of Markdown a file may be made of
    Pythons,      \* lines of Python
    Rusts,        \* lines of Rust
    MaxLines,     \* lines of a file that is opened
    MaxRows,      \* rows of a document into which more are typed
    NewRows       \* rows that may be typed into a document

VARIABLES
    format, content,
    fromFile,     \* the document is as it was read
    begun         \* a file was opened or a row was typed
formatVars == <<format, content, fromFile, begun>>

Blank1 == [in |-> 0, ws |-> <<>>]
LineOf(in, ws) == [in |-> in, ws |-> ws]
Text0(ws) == IF ws = <<"">> THEN <<>> ELSE ws
Row0(d, type, text) == [d |-> d, type |-> type, text |-> text, done |-> FALSE, note |-> <<>>, out |-> <<>>]
From1(ws, n) == SubSeq(ws, n, Len(ws))
Starts(ws, lead) == Len(ws) > 1 /\ ws[1] = lead
Without2(ws, n) == SubSeq(ws, 1, Len(ws) - n)

(***************************************************************************)
(* Marker comments (classifyMarkerBody, classifyComment).                  *)
(***************************************************************************)
MarkerTypes == [table |-> "table:", barplot |-> "barplot:", h1 |-> "h1:", math |-> "math:", empty |-> "empty:", fn |-> "fn:",
                quote |-> "quote:", text |-> "text:", bullets |-> "bullets:", divider |-> "divider:", code |-> "code:"]
TypeNamed(w) == {type \in DOMAIN MarkerTypes : MarkerTypes[type] = w}
MarkerOf(d, body, todos) ==
    CASE todos /\ body # <<>> /\ body[1] = "TODO" -> <<Row0(d, "todo", From1(body, 2))>>
      [] todos /\ Starts(body, "DONE") -> <<[Row0(d, "todo", From1(body, 2)) EXCEPT !.done = TRUE]>>
      [] Starts(body, "nlp:") -> <<Row0(d, "nlp", Text0(From1(body, 2)))>>
      [] Starts(body, "lflow") /\ TypeNamed(body[2]) # {} -> <<Row0(d, CHOOSE type \in TypeNamed(body[2]) : TRUE, Text0(From1(body, 3)))>>
      [] OTHER -> <<>>
Comment(d, body) == Row0(d, "comment", Text0(body))
CommentOr(d, body) == LET marker == MarkerOf(d, body, TRUE) IN IF marker = <<>> THEN Comment(d, body) ELSE marker[1]

(***************************************************************************)
(* Markdown, read line by line: the open sections and list items, and the  *)
(* block that goes on over several lines.                                  *)
(***************************************************************************)
Levels1 == [h1 |-> 1, h2 |-> 2]
Hashes == [h1 |-> "#", h2 |-> "##"]
HeadingsOf(ws) == {h \in DOMAIN Hashes : Starts(ws, Hashes[h])}
IsItem(ws) == Starts(ws, "-") \/ Starts(ws, "*")
FencesAt(ws) == ws # <<>> /\ ws[1] = "FENCE"
IsComment(ws) == Starts(ws, "<!--") /\ Last(ws) = "-->"
EndsParagraph(ws) ==
    \/ HeadingsOf(ws) # {} \/ IsItem(ws) \/ Starts(ws, ">") \/ FencesAt(ws) \/ Starts(ws, "<!--") \/ Starts(ws, "|")
    \/ Starts(ws, "1.") \/ ws = <<"---">> \/ ws = <<"$$">>

Reader == [rows |-> <<>>, secs |-> <<>>, items |-> <<>>, para |-> FALSE, block |-> "none", body |-> <<>>, note |-> <<>>]
In1(s) == Len(s.secs) + 1
Adds(s, row) == [s EXCEPT !.rows = Append(@, row), !.items = <<>>, !.para = FALSE]

Cells(ws) ==   \* splitTableRow: the words between the bars, the last of which may be left out
    LET inner == From1(IF Last(ws) = "|" THEN Without2(ws, 1) ELSE ws, 2)
    IN  FoldLeft(LAMBDA acc, w : IF w = "|" THEN Append(acc, <<>>) ELSE [acc EXCEPT ![Len(acc)] = Append(@, w)], << <<>> >>, inner)
IsRule(cells) == \A i \in DOMAIN cells : \A j \in DOMAIN cells[i] : cells[i][j] = "---"
Grid(d, lines) ==
    LET grid == [i \in DOMAIN lines |-> Cells(lines[i].ws)]
        data == IF Len(grid) > 1 /\ IsRule(grid[2]) THEN From1(grid, 3) ELSE From1(grid, 2)
        cell(c, r) == Row0(d + 2, "bullets", IF c > Len(data[r]) THEN <<>> ELSE data[r][c])
    IN  <<Row0(d, "table", <<>>)>>
        \o FlattenSeq([c \in DOMAIN grid[1] |-> <<Row0(d + 1, "bullets", grid[1][c])>> \o [r \in DOMAIN data |-> cell(c, r)]])

\* The block that was open is complete.
Flushed1(s) ==
    LET rows == CASE s.block = "fence" -> <<[Row0(In1(s), "code", <<>>) EXCEPT !.out = IF s.body = <<Blank1>> THEN <<>> ELSE s.body, !.note = s.note]>>
                  [] s.block = "math" -> <<Row0(In1(s), "math", FlattenSeq([i \in DOMAIN s.body |-> s.body[i].ws]))>>
                  [] s.block = "table" -> Grid(In1(s), s.body)
                  [] OTHER -> <<>>
    IN  [s EXCEPT !.rows = @ \o rows, !.items = <<>>, !.block = "none", !.body = <<>>]
Collects(s, line) == [s EXCEPT !.body = Append(@, line)]
Opens1(s, block, body, note) == [s EXCEPT !.block = block, !.body = body, !.note = note, !.para = FALSE, !.items = <<>>]

NotDeeper(item, in) == item.in <= in
Above2(item, in) == item.in < in
ReadItem(s, in, words) ==
    LET over == SelectSeq(s.items, LAMBDA item : Above2(item, in))
        d == IF over = <<>> THEN In1(s) ELSE Last(over).d + 1
        row == CASE Starts(words, "[ ]") -> Row0(d, "todo", From1(words, 2))
                 [] Starts(words, "[x]") -> [Row0(d, "todo", From1(words, 2)) EXCEPT !.done = TRUE]
                 [] OTHER -> Row0(d, "bullets", words)
    IN  [Adds(s, row) EXCEPT !.items = Append(over, [in |-> in, d |-> d])]
ReadHeading(s, h, words) ==
    LET over == SelectSeq(s.secs, LAMBDA lv : lv < Levels1[h])
    IN  [Adds(s, Row0(Len(over) + 1, h, words)) EXCEPT !.secs = Append(over, Levels1[h])]
ReadComment(s, ws) ==
    LET body == IF Len(ws) = 2 THEN <<"-->">> ELSE SubSeq(ws, 2, Len(ws) - 1)
        marker == MarkerOf(In1(s), body, FALSE)
        next == Adds(s, IF marker = <<>> THEN Comment(In1(s), body) ELSE marker[1])
    IN  IF marker # <<>> /\ marker[1].type = "barplot" THEN [next EXCEPT !.block = "plot"] ELSE next

ReadPlain(s, line) ==
    LET ws == line.ws IN
    CASE ws # <<>> /\ s.para /\ ~EndsParagraph(ws) -> [s EXCEPT !.rows[Len(s.rows)].text = @ \o ws]
      [] ws = <<>> -> [s EXCEPT !.items = <<>>, !.para = FALSE]
      [] line.in = 0 /\ HeadingsOf(ws) # {} -> ReadHeading(s, CHOOSE h \in HeadingsOf(ws) : TRUE, From1(ws, 2))
      [] line.in = 0 /\ ws = <<"---">> -> Adds(s, Row0(In1(s), "divider", <<>>))
      [] FencesAt(ws) -> Opens1(s, "fence", <<>>, From1(ws, 2))
      [] ws = <<"$$">> -> Opens1(s, "math", <<>>, <<>>)
      [] IsComment(ws) -> ReadComment(s, ws)
      [] Starts(ws, "|") -> Opens1(s, "table", <<line>>, <<>>)
      [] Starts(ws, ">") -> Adds(s, Row0(In1(s), "quote", From1(ws, 2)))
      [] IsItem(ws) -> ReadItem(s, line.in, From1(ws, 2))
      [] OTHER -> [Adds(s, Row0(In1(s), "text", ws)) EXCEPT !.para = TRUE]
ReadLine(s, line) ==
    CASE s.block = "fence" -> IF line.ws = <<"FENCE">> THEN Flushed1(s) ELSE Collects(s, line)
      [] s.block = "math" -> IF line.ws = <<"$$">> THEN Flushed1(s) ELSE Collects(s, line)
      [] s.block = "table" -> IF line.ws # <<>> /\ line.ws[1] = "|" THEN Collects(s, line) ELSE ReadPlain(Flushed1(s), line)
      [] s.block = "plot" -> IF FencesAt(line.ws) THEN [s EXCEPT !.block = "preview"] ELSE ReadPlain([s EXCEPT !.block = "none"], line)
      [] s.block = "preview" -> IF line.ws = <<"FENCE">> THEN [s EXCEPT !.block = "none"] ELSE s
      [] OTHER -> ReadPlain(s, line)
ParseMarkdown(lines) == Flushed1(FoldLeft(ReadLine, Reader, Append(lines, Blank1))).rows

\* Written node by node; `under` says for each depth how the nodes there are written: -1 as blocks,
\* n as items of a list indented n times, -2 not at all.
Apart(out) == IF out # <<>> /\ Last(out) # Blank1 THEN Append(out, Blank1) ELSE out
Below1(rows, i) == {j \in (i + 1)..Len(rows) : \A k \in (i + 1)..j : rows[k].d > rows[i].d}
KidsAt(rows, i) == SelectSeq([j \in DOMAIN rows |-> j], LAMBDA j : j \in Below1(rows, i) /\ rows[j].d = rows[i].d + 1)
Row1(cells) == LineOf(0, <<"|">> \o FlattenSeq([c \in DOMAIN cells |-> Append(cells[c], "|")]))
TableLines(rows, i) ==
    LET cols == KidsAt(rows, i)
        cells == [c \in DOMAIN cols |-> KidsAt(rows, cols[c])]
        deep == CHOOSE n \in 0..Len(rows) : (\A c \in DOMAIN cells : Len(cells[c]) <= n) /\ (n = 0 \/ \E c \in DOMAIN cells : Len(cells[c]) = n)
    IN  IF cols = <<>> THEN <<>>
        ELSE <<Row1([c \in DOMAIN cols |-> rows[cols[c]].text]), Row1([c \in DOMAIN cols |-> <<"---">>])>>
             \o [r \in 1..deep |-> Row1([c \in DOMAIN cols |-> IF r > Len(cells[c]) THEN <<>> ELSE rows[cells[c][r]].text])]
Fence(note, body) == <<LineOf(0, <<"FENCE">> \o note)>> \o body \o <<LineOf(0, <<"FENCE">>)>>
Marked(lead, text) == LineOf(0, <<"<!--">> \o lead \o (IF text = <<>> THEN <<"">> ELSE text) \o <<"-->">>)
ItemLines(n, row) ==
    <<LineOf(2 * n, <<"-">> \o (IF row.type # "todo" THEN <<>> ELSE IF row.done THEN <<"[x]">> ELSE <<"[ ]">>)
                      \o (IF row.type = "code" /\ row.out # <<>> THEN row.out[1].ws ELSE row.text))>>
    \o (IF row.type = "code" /\ row.out # <<>> THEN Tail(row.out) ELSE <<>>)
TypeMark(type) == MarkerTypes[type]

BlockLines(rows, i) ==
    LET row == rows[i]  one(ws) == <<LineOf(0, ws), Blank1>> IN
    CASE row.type \in DOMAIN Hashes -> one(<<Hashes[row.type]>> \o row.text)
      [] row.type = "text" -> one(row.text)
      [] row.type = "divider" -> one(<<"---">>)
      [] row.type = "code" -> Append(Fence(row.note, row.out), Blank1)
      [] row.type = "math" -> <<LineOf(0, <<"$$">>), LineOf(0, row.text), LineOf(0, <<"$$">>), Blank1>>
      [] row.type = "comment" -> <<Marked(<<>>, row.text), Blank1>>
      [] row.type = "nlp" -> <<Marked(<<"nlp:">>, row.text)>> \o (IF row.out = <<>> THEN <<>> ELSE Fence(row.note, row.out)) \o <<Blank1>>
      [] row.type = "table" -> (IF row.text = <<>> THEN <<>> ELSE one(row.text)) \o TableLines(rows, i) \o <<Blank1>>
      [] row.type = "barplot" -> <<Marked(<<"lflow", "barplot:">>, row.text)>> \o Fence(<<"text">>, IF row.text = <<>> THEN <<>> ELSE <<LineOf(0, row.text)>>)
      [] row.type = "quote" -> <<LineOf(0, <<">">> \o row.text)>>
      [] row.type \in {"fn", "class"} -> one(<<row.type>> \o row.text)
      [] OTHER -> <<Marked(<<"lflow", TypeMark(row.type)>>, row.text), Blank1>>
UnderIt(row, n) == IF n >= 0 THEN n + 1 ELSE IF n = -2 \/ row.type \in {"math", "table"} THEN -2
                   ELSE IF row.type \in {"bullets", "todo"} THEN 1 ELSE IF row.type = "text" THEN 0 ELSE -1
WriteRow(rows, s, i) ==
    LET row == rows[i]
        n == s.under[row.d]
        after == s.para > 0 /\ row.d <= s.para   \* what is under a paragraph or a plot is over
        out == IF after THEN Append(s.out, Blank1) ELSE s.out
        lines == CASE n = -2 -> <<>>
                   [] n >= 0 -> ItemLines(n, row)
                   [] row.type \in {"bullets", "todo"} -> ItemLines(0, row)
                   [] row.type = "empty" -> <<Blank1>>
                   [] OTHER -> BlockLines(rows, i)
        lead == IF n = -1 /\ row.type \notin {"bullets", "todo", "empty"} THEN Apart(out) ELSE out
        para == IF n = -1 /\ (row.type = "barplot" \/ (row.type = "text" /\ Below1(rows, i) # {})) THEN row.d ELSE IF after THEN 0 ELSE s.para
    IN  [out |-> lead \o lines, under |-> Append(SubSeq(s.under, 1, row.d), UnderIt(row, n)), para |-> para]
Trimmed1(out) == SubSeq(out, 1, CHOOSE n \in 0..Len(out) : (\A j \in (n + 1)..Len(out) : out[j] = Blank1) /\ (n = 0 \/ out[n] # Blank1))
RenderMarkdown(rows) ==
    Trimmed1(FoldLeft(LAMBDA s, i : WriteRow(rows, s, i), [out |-> <<>>, under |-> <<-1>>, para |-> 0], [i \in DOMAIN rows |-> i]).out)

(***************************************************************************)
(* Python and Rust: nesting by indentation and by braces.                  *)
(***************************************************************************)
ClassifyPython(d, ws) ==
    CASE Starts(ws, "#") -> CommentOr(d, From1(ws, 2))
      [] ws = <<"#">> -> Comment(d, <<>>)
      [] Starts(ws, "def") /\ Last(ws) = ":" -> Row0(d, "fn", Without2(From1(ws, 2), 1))
      [] Starts(ws, "class") /\ Last(ws) = ":" -> Row0(d, "class", Without2(From1(ws, 2), 1))
      [] OTHER -> Row0(d, "stmt", ws)
Quotes(ws) == \E i \in DOMAIN ws : ws[i] = "TRIPLE"
OpensTriple(ws) == ws[1] # "#" /\ Len(SelectSeq(ws, LAMBDA w : w = "TRIPLE")) % 2 = 1
ReadPython(s, line) ==
    LET over == SelectSeq(s.items, LAMBDA it : it.in < line.in)
        d == IF over = <<>> THEN 1 ELSE Last(over).d + 1
    IN  IF s.block = "triple"
        THEN [s EXCEPT !.rows[Len(s.rows)].out = Append(@, line), !.block = IF Quotes(line.ws) THEN "none" ELSE @]
        ELSE IF line.ws = <<>>
        THEN [s EXCEPT !.rows = Append(@, Row0(IF s.items = <<>> THEN 1 ELSE Last(s.items).d + 1, "empty", <<>>))]
        ELSE [s EXCEPT !.rows = Append(@, ClassifyPython(d, line.ws)), !.items = Append(over, [in |-> line.in, d |-> d]),
                       !.block = IF OpensTriple(line.ws) THEN "triple" ELSE @]
ParsePython(lines) == FoldLeft(ReadPython, Reader, lines).rows

ClassifyRust(d, ws, opens) ==
    CASE Starts(ws, "//") -> CommentOr(d, From1(ws, 2))
      [] ws = <<"//">> -> Comment(d, <<>>)
      [] opens /\ Starts(ws, "fn") -> Row0(d, "fn", From1(ws, 2))
      [] opens /\ Starts(ws, "struct") -> Row0(d, "class", ws)
      [] opens -> [Row0(d, "stmt", ws) EXCEPT !.note = <<"block">>]
      [] OTHER -> Row0(d, "stmt", ws)
Closes1(ws) == CHOOSE n \in 0..Len(ws) : (\A i \in 1..n : ws[i] = "}") /\ (n = Len(ws) \/ ws[n + 1] # "}")
Popped(s, n) == [s EXCEPT !.secs = IF n >= Len(@) THEN <<>> ELSE Without2(@, n)]
ReadRust(s0, line) ==
    LET s == Popped(s0, Closes1(line.ws))
        ws == From1(line.ws, Closes1(line.ws) + 1)
        opens == ws # <<>> /\ ws[1] # "//" /\ Last(ws) = "{"
        row == ClassifyRust(In1(s), IF opens THEN Without2(ws, 1) ELSE ws, opens)
    IN  IF line.ws = <<>> THEN [s EXCEPT !.rows = Append(@, Row0(In1(s), "empty", <<>>))]
        ELSE IF ws = <<>> THEN s
        ELSE [s EXCEPT !.rows = Append(@, row), !.secs = IF opens THEN Append(@, 1) ELSE @]
ParseRust(lines) == FoldLeft(ReadRust, Reader, lines).rows

\* RenderCode: the text of one node, and whether its children go between braces.
Lead1(lang) == IF lang = "python" THEN "#" ELSE "//"
HasBlock(lang, rows, i) == lang = "rust" /\ (rows[i].type \in {"fn", "class"} \/ (rows[i].type = "stmt" /\ (Below1(rows, i) # {} \/ rows[i].note = <<"block">>)))
Deeper1(row, line) == LineOf(IF line.ws = <<>> THEN 0 ELSE 4 * (row.d - 1) + line.in, line.ws)
Header(lang, row) ==
    CASE row.type = "fn" -> IF lang = "python" THEN <<"def">> \o row.text \o <<":">> ELSE <<"fn">> \o row.text
      [] row.type = "class" -> IF lang = "python" THEN <<"class">> \o row.text \o <<":">> ELSE row.text
      [] OTHER -> row.text
CodeLines(lang, rows, i) ==
    LET row == rows[i]
        at(ws) == Deeper1(row, LineOf(0, ws))
        lead == <<Lead1(lang)>>
    IN  CASE row.type = "stmt" /\ row.text = <<>> /\ Below1(rows, i) = {} -> <<Blank1>>
          [] row.type \in {"stmt", "fn", "class"} -> <<at(Header(lang, row) \o (IF HasBlock(lang, rows, i) THEN <<"{">> ELSE <<>>))>> \o row.out
          [] row.type = "comment" -> <<at(lead \o row.text)>> \o row.out
          [] row.type = "math" -> <<at(row.text)>>
          [] row.type = "todo" -> <<at(lead \o <<IF row.done THEN "DONE" ELSE "TODO">> \o row.text)>>
          [] row.type = "nlp" -> <<at(lead \o <<"nlp:">> \o row.text)>> \o [k \in DOMAIN row.out |-> Deeper1(row, row.out[k])]
          [] row.type = "empty" -> <<Blank1>>
          [] row.type = "code" -> IF row.out = <<>> THEN <<Blank1>> ELSE [k \in DOMAIN row.out |-> Deeper1(row, row.out[k])]
          [] OTHER -> <<at(lead \o <<"lflow", TypeMark(row.type)>> \o row.text)>>
\* The braces that close before row i (or the end): of the blocks open over rows i.. that do not hold it.
Ends(lang, rows, open, d) ==
    LET shut == SelectSeq(open, LAMBDA j : rows[j].d >= d)
    IN  [k \in DOMAIN shut |-> LineOf(4 * (rows[shut[Len(shut) + 1 - k]].d - 1), <<"}">>)]
WriteCode(lang, rows, s, i) ==
    LET held == SelectSeq(s.open, LAMBDA j : rows[j].d < rows[i].d)
        bare == \E j \in 1..(i - 1) : i \in Below1(rows, j) /\ rows[j].type \in {"nlp", "code", "math"}
    IN  [out |-> s.out \o Ends(lang, rows, s.open, rows[i].d) \o (IF bare THEN <<>> ELSE CodeLines(lang, rows, i)),
         open |-> IF HasBlock(lang, rows, i) /\ ~bare THEN Append(held, i) ELSE held]
RenderCode(lang, rows) ==
    LET s == FoldLeft(LAMBDA acc, i : WriteCode(lang, rows, acc, i), [out |-> <<>>, open |-> <<>>], [i \in DOMAIN rows |-> i])
    IN  Trimmed1(s.out \o Ends(lang, rows, s.open, 0))

AtLeastOne(lines) == IF Trimmed1(lines) = <<>> THEN <<Blank1>> ELSE Trimmed1(lines)
Parse(f, lines) ==
    CASE f = "markdown" -> ParseMarkdown(lines)
      [] f = "python"   -> ParsePython(AtLeastOne(lines))
      [] OTHER          -> ParseRust(AtLeastOne(lines))
Render(f, rows) == IF f = "markdown" THEN RenderMarkdown(rows) ELSE RenderCode(f, rows)

(***************************************************************************)
(* A file is opened, rows are typed at its end, it is written.             *)
(***************************************************************************)
Sources == [markdown |-> Markdowns, python |-> Pythons, rust |-> Rusts]
Open1(lines) ==
    /\ content' = Parse(format, lines)
    /\ fromFile' = TRUE /\ begun' = TRUE /\ UNCHANGED format
Types0(row, d) ==
    /\ Len(content) < MaxRows
    /\ d = 1 \/ (content # <<>> /\ d = Last(content).d + 1 /\ Last(content).type # "math")
    /\ content' = Append(content, [row EXCEPT !.d = d])
    /\ fromFile' = FALSE /\ begun' = TRUE /\ UNCHANGED format
Written1 == Render(format, content)

FormatInit == format \in DOMAIN Sources /\ content = <<>> /\ fromFile = FALSE /\ begun = FALSE
FormatNext ==
    \/ /\ ~begun
       /\ \E n \in 0..MaxLines : \E lines \in [1..n -> Sources[format]] : Open1(lines)
    \/ \E row \in NewRows[format] : \E d \in 1..4 : Types0(row, d)
FormatSpec == FormatInit /\ [][FormatNext]_formatVars

(***************************************************************************)
(* Properties.                                                             *)
(***************************************************************************)
FormatTypeOK ==
    /\ \A i \in DOMAIN content : content[i].d >= 1 /\ content[i].d <= (IF i = 1 THEN 1 ELSE content[i - 1].d + 1)
    /\ Written1 = Trimmed1(Written1) /\ \A i \in DOMAIN Written1 : Written1[i].ws = <<>> => Written1[i].in = 0

\* A file that was opened and written without a change says the same when it is opened again, but for empty rows at its end.
UpToTheLast(rows) == SubSeq(rows, 1, CHOOSE n \in 0..Len(rows) : (\A j \in (n + 1)..Len(rows) : rows[j].type = "empty") /\ (n = 0 \/ rows[n].type # "empty"))
ReopensTheSame == fromFile => UpToTheLast(Parse(format, Written1)) = UpToTheLast(content)

\* After one save, a file is written as it is up to its blank lines, but for code put into a document and rows put under a blank
\* one, and for rows put under a comment or a statement of Rust.
Filled1(lines) == SelectSeq(lines, LAMBDA line : line.ws # <<>>)
RowUnderABlank(rows) == \E i \in DOMAIN rows : rows[i].type = "empty" /\ Below1(rows, i) # {}
Generated(rows) == ~fromFile /\ \E i \in DOMAIN rows : rows[i].type \in {"nlp", "code"}
StableAfterOneSave == ~Generated(content) /\ ~RowUnderABlank(content) /\ (format # "rust" \/ fromFile) => Filled1(Render(format, Parse(format, Written1))) = Filled1(Written1)

\* No word of the document is missing from the file, but those under a cell of a table in Markdown and
\* under code in a program, which are not written.
Unwritten(rows, i) ==
    \E j \in 1..(i - 1) :
       /\ i \in Below1(rows, j)
       /\ IF format = "markdown" THEN rows[j].type = "table" /\ rows[i].d > rows[j].d + 2 ELSE rows[j].type \in {"code", "nlp"}
WordsIn(lines) == UNION {ToSet(lines[i].ws) : i \in DOMAIN lines}
WordsOf(rows) == UNION {ToSet(rows[i].text) \cup (IF rows[i].type = "nlp" THEN {} ELSE WordsIn(rows[i].out)) : i \in {j \in DOMAIN rows : ~Unwritten(rows, j)}}
NoWordIsLost == WordsOf(content) \subseteq WordsIn(Written1)

\* A Markdown, Python or Rust file that was read and saved reads as the same rows, the next save writes the same text,
\* and no word of it is lost, where the format can hold it (lang.go:51, lang.go:64, markdown.go:310).
FilesReopenTheSame == FormatTypeOK /\ ReopensTheSame /\ StableAfterOneSave /\ NoWordIsLost
=============================================================================
