------------------------------- MODULE Wrap -------------------------------
(***************************************************************************)
(* How a text is broken into lines and how the caret moves over them:      *)
(* wrapLine draws a row, visualRows and chipVisualRows tell the caret      *)
(* where its lines begin, caretColumn and caretAtColumn carry it from one  *)
(* line to another (moveCursorVertical), and a row set to truncate slides  *)
(* under it (layoutRow, windowLine).  The status bar, the cells of a table *)
(* and the confirm box have wrappers of their own (wrapSGR, wrapPlain,     *)
(* elideMiddle).  A text is a sequence of glyphs: clusters of one or two   *)
(* columns, spaces, and chips, each one glyph that is shown as several.    *)
(***************************************************************************)
EXTENDS Integers, SequencesExt, FiniteSetsExt

CONSTANTS
    Pages,        \* pairs of rows the program may open on, with what their chips show and expand to
    MaxCaretKeys  \* keys in a run

VARIABLES page, caret, pressed, caretKeys
wrapVars == <<page, caret, pressed, caretKeys>>

(***************************************************************************)
(* Clusters: their width, whether a line may break at them, and the glyph  *)
(* of the name they belong to.                                             *)
(***************************************************************************)
Cluster(kind, at) == [w |-> IF kind = "W" THEN 2 ELSE 1, space |-> kind = " ", at |-> at]
ChipOf(g) == g \in DOMAIN page.shows
LooksAs(g) == IF ChipOf(g) THEN page.shows[g] ELSE <<g>>
ShownCells(name) == FlattenSeq([i \in DOMAIN name |-> [k \in DOMAIN LooksAs(name[i]) |-> Cluster(LooksAs(name[i])[k], i)]])
WidthIn(cells, from, to) == FoldSet(LAMBDA k, n: n + cells[k].w, 0, from..to)
WidthOf(cells) == WidthIn(cells, 1, Len(cells))

\* A chip is one cell to the caret, as wide as what it shows and never a place to break.
NameCells(name) ==
    [i \in DOMAIN name |-> [w |-> WidthOf(ShownCells(<<name[i]>>)), space |-> name[i] = " ", at |-> i]]

(***************************************************************************)
(* Breaking a text.  A break holds how many cells are before the line it   *)
(* begins; `gap` is the last space a line may still break at.              *)
(***************************************************************************)
Hang == 3 + 3 * page.depth
Lead == IF Hang >= page.width THEN 0 ELSE Hang
Fresh0(line, col) == [starts |-> <<0>>, line |-> line, col |-> col, room |-> page.width, gap |-> 0, stuck |-> FALSE]
FitsOn(s, cell) == s.col + cell.w <= s.room
NewLine(s, start) == [s EXCEPT !.starts = Append(@, start), !.line = start, !.col = 0, !.gap = 0, !.room = page.width - Lead]
\* A space left of the text's column is the row's head, never a place to break.
Takes1(s, cell, i) == [s EXCEPT !.col = @ + cell.w, !.gap = IF cell.space /\ s.col >= Hang THEN i ELSE @]
AtTheGap(s, cells, i) == [NewLine(s, s.gap) EXCEPT !.col = WidthIn(cells, s.gap + 1, i - 1)]

\* A cell that does not fit opens a line; one wider than a whole line is drawn over its edge.
Hard(s, cell, i) ==
    IF FitsOn(s, cell) THEN Takes1(s, cell, i)
    ELSE LET t == IF i - 1 > s.line THEN NewLine(s, i - 1) ELSE s
         IN  IF FitsOn(t, cell) THEN Takes1(t, cell, i) ELSE [t EXCEPT !.col = @ + cell.w]
\* The drawing has no such guard: it opens lines for ever.
HardDrawn(s, cell, i) ==
    LET t == IF FitsOn(s, cell) THEN s ELSE NewLine(s, i - 1)
    IN  IF FitsOn(t, cell) THEN Takes1(t, cell, i) ELSE [t EXCEPT !.stuck = TRUE]

\* visualRows and chipVisualRows on the one hand, wrapLine on the other: where the lines begin.
Breaks(cells, start, drawn) ==
    LET Forced(s, cell, i) == IF drawn THEN HardDrawn(s, cell, i) ELSE Hard(s, cell, i)
    IN FoldLeft(LAMBDA s, i:
               IF s.stuck THEN s
               ELSE IF FitsOn(s, cells[i]) THEN Takes1(s, cells[i], i)
               ELSE IF cells[i].space THEN NewLine(s, i)
               ELSE IF s.gap - 1 > s.line THEN Forced(AtTheGap(s, cells, i), cells[i], i)
               ELSE Forced(s, cells[i], i),
             start, [i \in 1..Len(cells) |-> i])

WithoutTheHead(name) == IF page.nowrap THEN <<0>> ELSE Breaks(NameCells(name), Fresh0(0, 0), FALSE).starts
\* visualRows and chipVisualRows: the caret's lines.  A row set to truncate has one.
VisualRows(name) ==
    IF page.nowrap THEN <<0>> ELSE Breaks(NameCells(name), Fresh0(0, IF Hang >= page.width THEN 0 ELSE Hang), FALSE).starts

\* wrapLine, of a row the caret stands behind: the head comes before the text and the caret is a cell of its own.
DrawnCells(name) == Append(ShownCells(name), Cluster(" ", Len(name) + 1))
Drawn(name) == Breaks(DrawnCells(name), Fresh0(-1, Hang), TRUE)

\* The lines as drawn: without the space they broke at, and without a last one that would be empty.
Cut1(cells, from, end) == SubSeq(cells, from, IF end > 0 /\ cells[end].space THEN end - 1 ELSE end)
LinesOfDrawn(cells, starts) ==
    LET EndOf(k) == starts[k + 1]
        lines == [k \in DOMAIN starts |-> IF k = Len(starts) THEN SubSeq(cells, starts[k] + 1, Len(cells))
                                                            ELSE Cut1(cells, starts[k] + 1, EndOf(k))]
    IN  SelectSeq(lines, LAMBDA line: line # <<>>)
DrawnLines(name) == LinesOfDrawn(DrawnCells(name), Drawn(name).starts)

(***************************************************************************)
(* The caret: the glyphs before it.                                        *)
(***************************************************************************)
NameAt(row) == page.rows[row]
CaretLine1(starts, c) == Max({j \in DOMAIN starts : c >= starts[j]})
CaretColumn(name, starts, line, c) == IF c < starts[line] THEN 0 ELSE WidthIn(NameCells(name), starts[line] + 1, c)
FirstOver(cells, from, end, col) ==
    LET over == {i \in from..(end - 1) : WidthIn(cells, from + 1, i + 1) > col}
    IN  IF over = {} THEN end ELSE Min(over)
CaretAtColumn(name, starts, line, col) ==
    FirstOver(NameCells(name), starts[line], IF line < Len(starts) THEN starts[line + 1] ELSE Len(name), col)

\* moveCursorVertical: within the row, then to the row above or below, by the column.
VerticalUp(c) ==
    LET name   == NameAt(c.row)
        starts == VisualRows(name)
        line   == CaretLine1(starts, c.at)
        goal   == CaretColumn(name, starts, line, c.at)
        above  == VisualRows(NameAt(c.row - 1))
    IN  IF line > 1 THEN [c EXCEPT !.at = CaretAtColumn(name, starts, line - 1, goal)]
        ELSE IF c.row > 1 THEN [c EXCEPT !.row = @ - 1, !.at = CaretAtColumn(NameAt(c.row - 1), above, Len(above), goal)]
        ELSE c
VerticalDown(c) ==
    LET name   == NameAt(c.row)
        starts == VisualRows(name)
        line   == CaretLine1(starts, c.at)
        goal   == CaretColumn(name, starts, line, c.at)
        below  == VisualRows(NameAt(c.row + 1))
    IN  IF line < Len(starts) THEN [c EXCEPT !.at = CaretAtColumn(name, starts, line + 1, goal)]
        ELSE IF c.row = Len(page.rows) THEN [c EXCEPT !.at = Len(name)]
        ELSE [c EXCEPT !.row = @ + 1, !.at = CaretAtColumn(NameAt(c.row + 1), below, 1, goal)]

(***************************************************************************)
(* A row set to truncate: its window follows the caret (hscrollFor).  The  *)
(* caret's column counts a chip as what it expands to.                     *)
(***************************************************************************)
Avail == page.width - Hang
ExpandsTo(g) == IF ChipOf(g) THEN page.expands[g] ELSE IF g = "W" THEN 2 ELSE 1
BodyCaretCol(c) == FoldSet(LAMBDA i, n: n + ExpandsTo(NameAt(c.row)[i]), 0, 1..c.at)
ToTheCaret(from, col) == IF col < from THEN col ELSE from
ScrollFor(c, col) ==
    LET from  == ToTheCaret(IF c.slidRow # c.row THEN 0 ELSE c.slid, col)
        right == IF col > from + Avail - 2 THEN col - Avail + 2 ELSE from
    IN  IF col <= Avail - 2 THEN 0 ELSE right
Slides(c) == page.nowrap /\ Avail >= 3
Redrawn(c) == IF Slides(c) THEN [c EXCEPT !.slid = ScrollFor(c, BodyCaretCol(c)), !.slidRow = c.row] ELSE c

\* clip keeps what fits before its mark; windowLine marks what it cut on the left and clips the rest.
Clipped1(cells, width) ==
    IF WidthOf(cells) <= width THEN [kept |-> cells, marks |-> 0]
    ELSE [kept |-> SubSeq(cells, 1, Max({k \in 0..Len(cells) : WidthIn(cells, 1, k) <= width - 1 \/ k = 0})), marks |-> 1]
WindowLine(cells, from, width) ==
    LET cut  == Min({k \in 0..Len(cells) : k = Len(cells) \/ WidthIn(cells, 1, k) >= from})
        rest == Clipped1(SubSeq(cells, cut + 1, Len(cells)), width - 1)
    IN  IF from <= 0 THEN Clipped1(cells, width) ELSE [rest EXCEPT !.marks = @ + 1]
WindowOf(c) == WindowLine(DrawnCells(NameAt(c.row)), c.slid, Avail)

(***************************************************************************)
(* The other wrappers.                                                     *)
(***************************************************************************)
\* wrapSGR, of the status bar: a space that does not fit is dropped, wherever the line was broken.
WrapSGR(cells, width) ==
    LET Over(s, i) ==
            LET rest == IF s.gap = 0 THEN <<>> ELSE SubSeq(s.cur, s.gap + 1, Len(s.cur))
                line == IF s.gap = 0 THEN s.cur ELSE SubSeq(s.cur, 1, s.gap - 1)
            IN  [lines |-> Append(s.lines, line), cur |-> rest, gap |-> 0]
        Put(s, i) == [s EXCEPT !.cur = Append(@, cells[i]), !.gap = IF cells[i].space /\ s.cur # <<>> THEN Len(s.cur) + 1 ELSE @]
        s == FoldLeft(LAMBDA t, i:
                        IF WidthOf(t.cur) + cells[i].w <= width THEN Put(t, i)
                        ELSE IF cells[i].space THEN Over(t, i) ELSE Put(Over(t, i), i),
                      [lines |-> <<>>, cur |-> <<>>, gap |-> 0], [i \in DOMAIN cells |-> i])
    IN  IF s.cur = <<>> THEN s.lines ELSE Append(s.lines, s.cur)

\* wrapPlain, of a table's cells: whole words, and pieces of a word that no line holds (cutToWidth).
FieldsOf(cells) ==
    LET starts == {i \in DOMAIN cells : ~cells[i].space /\ (i = 1 \/ cells[i - 1].space)}
        EndOf(i) == Max({j \in i..Len(cells) : \A k \in i..j : ~cells[k].space})
    IN  [n \in 1..Cardinality(starts) |->
            LET i == CHOOSE i \in starts : Cardinality({j \in starts : j < i}) = n - 1 IN SubSeq(cells, i, EndOf(i))]
Pieces1(word, width) ==
    FoldLeft(LAMBDA ps, cell: IF WidthOf(Last(ps)) + cell.w <= width THEN Append(Front(ps), Append(Last(ps), cell)) ELSE Append(ps, <<cell>>),
             <<<<>>>>, word)
WrapPlain(cells, width) ==
    LET blank == Cluster(" ", 0)
        Flush(s) == IF s.line = <<>> THEN s.out ELSE Append(s.out, s.line)
        Rest(s, w) ==
            LET both == s.line \o <<blank>> \o w
            IN  IF s.line = <<>> THEN [s EXCEPT !.line = w]
                ELSE IF WidthOf(both) > width THEN [out |-> Append(s.out, s.line), line |-> w] ELSE [s EXCEPT !.line = both]
        Word(s, word) ==
            LET ps == Pieces1(word, width)
            IN  Rest(IF Len(ps) = 1 THEN s ELSE [out |-> Flush(s) \o Front(ps), line |-> <<>>], Last(ps))
    IN  Flush(FoldLeft(Word, [out |-> <<>>, line |-> <<>>], FieldsOf(cells)))

\* elideMiddle keeps both ends.
Elided(cells, width) ==
    LET head == Max({k \in 0..Len(cells) : WidthIn(cells, 1, k) <= (width - 1) - (width - 1) \div 2})
        tail == Min({k \in 1..(Len(cells) + 1) : WidthIn(cells, k, Len(cells)) <= (width - 1) \div 2})
    IN  IF WidthOf(cells) <= width THEN cells
        ELSE SubSeq(cells, 1, head) \o <<Cluster("w", 0)>> \o SubSeq(cells, tail, Len(cells))

(***************************************************************************)
(* Keys.                                                                   *)
(***************************************************************************)
WrapInit == page \in Pages /\ caret = [row |-> 1, at |-> 0, slid |-> 0, slidRow |-> 0] /\ pressed = "none" /\ caretKeys = 0

Presses(key, c) ==
    /\ caretKeys < MaxCaretKeys
    /\ caret' = Redrawn(c)
    /\ pressed' = key
    /\ caretKeys' = caretKeys + 1
    /\ UNCHANGED page

UpKey   == Presses("up", VerticalUp(caret))
DownKey == Presses("down", VerticalDown(caret))
LeftKey == Presses("left", [caret EXCEPT !.at = Max({0, @ - 1})])
EndKey  == Presses("end", [caret EXCEPT !.at = Len(NameAt(caret.row))])
\* A press of the mouse, or the word keys, put it anywhere in the row.
MouseLands(at) == Presses("mouse", [caret EXCEPT !.at = at])

WrapNext == UpKey \/ DownKey \/ LeftKey \/ EndKey \/ (\E at \in 0..Len(NameAt(caret.row)) : MouseLands(at))
WrapSpec == WrapInit /\ [][WrapNext]_wrapVars

(***************************************************************************)
(* Properties.                                                             *)
(***************************************************************************)
Here0 == NameAt(caret.row)

\* The caret stands in its row's text and the window never starts left of it.
WrapTypeOK == caret.row \in DOMAIN page.rows /\ caret.at \in 0..Len(Here0) /\ caret.slid >= 0

\* No wrapper gives a line more columns than it has: a drawn row, the status bar, a cell, an elided name, a sliding row.
\* The caret's own cell may stand one column over, and only a wide cluster on a one-column line makes the drawing endless.
LinesFit ==
    LET cells == ShownCells(Here0)
        Fit(lines, width) == \A k \in DOMAIN lines : WidthOf(lines[k]) <= width
        wide  == \E k \in DOMAIN cells : cells[k].w = 2
        lines == DrawnLines(Here0)
    IN  /\ Drawn(Here0).stuck => wide /\ page.width - Lead = 1
        /\ ~Drawn(Here0).stuck /\ Lead > 0 => Fit(lines, page.width - Lead)
        /\ page.width > 1 => Fit(WrapSGR(cells, page.width), page.width) /\ Fit(WrapPlain(cells, page.width), page.width)
        /\ page.width > 1 => WidthOf(Elided(cells, page.width)) <= page.width
        /\ Slides(caret) => WidthOf(WindowOf(caret).kept) + WindowOf(caret).marks <= Avail

\* Breaking a row loses nothing but the spaces it breaks at.
NothingIsLost ==
    LET cells == ShownCells(Here0)
        Inked(seq) == SelectSeq(seq, LAMBDA cell: ~cell.space)
    IN  /\ ~Drawn(Here0).stuck => Inked(FlattenSeq(DrawnLines(Here0))) = Inked(cells)
        /\ page.width > 1 => Inked(FlattenSeq(WrapPlain(cells, page.width))) = Inked(cells)

\* The lines the caret counts are the lines that are drawn, unless the drawing cut a chip in two.
RowsAreAsDrawn ==
    LET cells   == DrawnCells(Here0)
        drawn   == Drawn(Here0)
        starts  == ToSet(drawn.starts) \ {Len(cells)}
        Cuts(s) == s > 0 /\ s < Len(cells) /\ cells[s].at = cells[s + 1].at
        Glyphs(s) == cells[s + 1].at - 1
    IN  /\ ~page.nowrap /\ ~drawn.stuck /\ Lead > 0 /\ Here0 # <<>> /\ Here0[1] # " "
        /\ \A k \in DOMAIN drawn.starts : ~Cuts(drawn.starts[k])
        => {Glyphs(s) : s \in starts} = ToSet(VisualRows(Here0))

\* Going to a caret's own line and column leaves it where it is (caretAtColumn is the inverse of caretColumn).
ColumnIsKept ==
    LET starts == VisualRows(Here0)
    IN  \A c \in 0..Len(Here0) :
            CaretAtColumn(Here0, starts, CaretLine1(starts, c), CaretColumn(Here0, starts, CaretLine1(starts, c), c)) = c

\* The window of a sliding row holds the column of the caret.
CaretIsInTheWindow ==
    Slides(caret) /\ caret.slidRow = caret.row =>
        /\ caret.slid <= BodyCaretCol(caret)
        /\ BodyCaretCol(caret) <= caret.slid + Avail - 2

\* Up and down never leave the caret where it was or send it the other way, except at the two ends of the outline.
VerticalMakesProgress ==
    [][/\ pressed' = "up" => \/ caret'.row < caret.row
                             \/ caret'.row = caret.row /\ caret'.at < caret.at
                             \/ caret.row = 1 /\ caret'.at = caret.at /\ CaretLine1(VisualRows(Here0), caret.at) = 1
       /\ pressed' = "down" => \/ caret'.row > caret.row
                               \/ caret'.row = caret.row /\ caret'.at > caret.at
                               \/ caret.row = Len(page.rows) /\ caret.at = Len(Here0)]_wrapVars

\* A wrapped row fits, loses nothing, has for the caret the lines that are drawn, and going up or down keeps the column
\* and gets on (editor.go:1833, chip.go:729, text.go:729).
LinesAreAsDrawn ==
    /\ [](WrapTypeOK /\ LinesFit /\ NothingIsLost /\ RowsAreAsDrawn /\ ColumnIsKept /\ CaretIsInTheWindow)
    /\ VerticalMakesProgress
=============================================================================
