-------------------------------- MODULE Table ---------------------------------
(***************************************************************************)
(* The grid editor of a Table node (tui/editor/table.go): a table's        *)
(* children are its columns, the nth child of a column is its cell in row  *)
(* n, and the keys of the grid move a selection over that reading and edit *)
(* the tree below it.  Columns may be ragged, locked, or mirrors of one    *)
(* another, and other writers change the tree between two keys.            *)
(***************************************************************************)
EXTENDS Integers, SequencesExt, FiniteSetsExt

CONSTANTS
    Tables,         \* bound: the tables a behaviour may start from
    NaturalWidths,  \* bound: what the contents of the columns would like
    Available,      \* bound: the widths of the pane
    MinWidth, MaxWidth, \* tableColMin, tableColMax
    MaxCaretText,   \* bound: runes of a cell whose caret line is drawn
    Insertions,     \* bound: what is typed or pasted at once
    Control,        \* the runes that are never shown: newlines, tabs and other control bytes
    MaxTableKeys    \* bound: keys and changes of others

ASSUME TableAssumption ==
    /\ {MinWidth, MaxWidth, MaxCaretText, MaxTableKeys} \subseteq Nat \ {0} /\ MinWidth <= MaxWidth
    /\ \A nat \in NaturalWidths : nat \in Seq(Nat)
    /\ Available \subseteq Nat
    /\ \A r \in Insertions : Len(r) > 0

VARIABLES
    columns,    \* text, cells, locked and the column it mirrors (0: none), for each child of the table
    sealed,     \* the table itself is structureLocked
    sel,        \* tblCol, tblRow, tblCaret: columns and rows count from 1 here, row 0 is the header
    armed,      \* tblArm: the row alt+d has been pressed on, 0 for none
    onGrid,     \* the table is focused
    newest,     \* the number of the newest cell
    hinted,     \* ghost: the cells the red hint was shown for
    disturbed,  \* ghost: someone else changed the table since
    lastKey,    \* what the last step was
    drawing,    \* the widths and the caret line of one layout
    tableSteps

tableVars == <<columns, sealed, sel, armed, onGrid, newest, hinted, disturbed, lastKey, drawing, tableSteps>>

Column(i)  == IF columns[i].of = 0 THEN i ELSE columns[i].of    \* tree.resolve
CellsOf(i) == columns[Column(i)].cells                          \* tableKids
Width0     == Len(columns)
Height(cs) == Max({0} \cup {Len(cs[IF cs[i].of = 0 THEN i ELSE cs[i].of].cells) : i \in DOMAIN cs})
HeaderOf(i) == [id |-> 0, text |-> columns[Column(i)].text, kind |-> "plain", inside |-> FALSE, fixed |-> FALSE,
                mirror |-> columns[i].of # 0]
NoCell == [id |-> -1, text |-> <<>>, kind |-> "plain", inside |-> FALSE, fixed |-> FALSE, mirror |-> FALSE]
CellAt(col, row) ==
    IF col \notin 1..Width0 THEN NoCell
    ELSE IF row = 0 THEN HeaderOf(col)
    ELSE IF row \in DOMAIN CellsOf(col) THEN CellsOf(col)[row] ELSE NoCell

\* stripControlBytes, which leaves oneLine nothing to do.
Printable(text) == SelectSeq(text, LAMBDA r : r \notin Control)
\* tableCellText: a chip is one token of the text and shows as two runes.
ShownText(c) == IF c.kind = "chip" THEN Append(Printable(c.text), "chip") ELSE Printable(c.text)
\* tableCellEditable, which compares the shown text with the stored one after the same stripping.
EditableByType(c) == ~c.mirror /\ c.kind # "divider"
CellEditable(c)   == EditableByType(c) /\ ShownText(c) = Printable(c.text)

\* tableClampSel.
Least2(x, y) == IF x < y THEN x ELSE y
Clamp(s) ==
    LET col == Max({Least2(s.col, Width0), 1})
        row == Max({Least2(s.row, Height(columns)), 0})
    IN  [col |-> col, row |-> row, caret |-> Max({Least2(s.caret, Len(ShownText(CellAt(col, row)))), 0})]
AtTheEnd(col, row) == [col |-> col, row |-> row, caret |-> Len(ShownText(CellAt(col, row)))]

NewCell(n) == [id |-> n, text |-> <<>>, kind |-> "plain", inside |-> FALSE, fixed |-> FALSE, mirror |-> FALSE]

-----------------------------------------------------------------------------
\* Layout.

RECURSIVE Shave(_, _)
\* The widest of the columns that may still give way.
Widest(w) == SelectInSeq(w, LAMBDA x : x > MinWidth /\ \A j \in DOMAIN w : w[j] <= x)
Shave(w, budget) ==
    IF budget <= 0 \/ FoldLeft(+, 0, w) <= budget \/ Widest(w) = 0 THEN w
    ELSE Shave([w EXCEPT ![Widest(w)] = @ - 1], budget)
\* tableColWidths.
ColWidths(natural, avail) ==
    Shave([i \in DOMAIN natural |-> Max({MinWidth, Least2(natural[i] + 1, MaxWidth)})], avail - (3 * Len(natural) + 1))

\* tableCaretLine: the runes of a text of n narrow runes that are drawn in a box.
FirstDrawn(caret, w) == IF caret >= w THEN caret - w + 1 ELSE 0
CaretLine(n, caret, w) ==
    LET start == FirstDrawn(Least2(caret, n), w)
    IN  {i \in start..(n - 1) : i - start < w} \cup (IF caret >= n /\ n - start < w THEN {n} ELSE {})

Draw ==
    /\ tableSteps = 0 /\ columns = <<>>     \* a layout needs no more than the widths: one initial state does
    /\ \E natural \in NaturalWidths, avail \in Available, n \in 0..MaxCaretText :
           \E caret \in 0..n :
               LET w == ColWidths(natural, avail)
               IN  drawing' = <<[natural |-> natural, avail |-> avail, widths |-> w, caret |-> caret,
                                 seen |-> CaretLine(n, caret, w[1])]>>
    /\ tableSteps' = MaxTableKeys
    /\ UNCHANGED <<columns, sealed, sel, armed, onGrid, newest, hinted, disturbed, lastKey>>

-----------------------------------------------------------------------------
\* The keys.

TableInit ==
    /\ columns \in Tables /\ sealed \in BOOLEAN
    /\ newest = Max({0} \cup {c.id : c \in UNION {ToSet(columns[i].cells) : i \in DOMAIN columns}})
    /\ sel = [col |-> 1, row |-> 0, caret |-> 0] /\ armed = 0 /\ onGrid = FALSE
    /\ hinted = {} /\ disturbed = FALSE /\ lastKey = "none" /\ drawing = <<>> /\ tableSteps = 0

Step1(key) == tableSteps < MaxTableKeys /\ tableSteps' = tableSteps + 1 /\ lastKey' = key /\ UNCHANGED <<sealed, drawing>>
KeyOf(key)  == onGrid /\ Step1(key)
\* Every key but alt+d disarms.
Disarmed    == armed' = 0 /\ hinted' = {} /\ disturbed' = FALSE
OtherKey(key) == KeyOf(key) /\ Disarmed
SameTable     == UNCHANGED <<columns, newest>>

\* tableAddColumn and tableAddRow, on given columns.
EmptyColumn == [text |-> <<>>, cells |-> <<>>, locked |-> FALSE, of |-> 0]
\* One fresh cell in each unlocked column, below row `after`; a mirrored column gets one for each showing.
InsertedAt(cells, after) == Least2(after, Len(cells)) + 1
RowInserted(cs, after, first) ==
    FoldLeft(LAMBDA acc, i :
                 LET j == IF acc[i].of = 0 THEN i ELSE acc[i].of
                 IN  IF acc[j].locked THEN acc
                     ELSE [acc EXCEPT ![j].cells = InsertAt(@, InsertedAt(@, after), NewCell(first + i))],
             cs, [i \in DOMAIN cs |-> i])

\* view.enter, with tableSeed for a table without columns.
EnterGrid ==
    /\ ~onGrid /\ drawing = <<>> /\ Step1("enter grid")
    /\ onGrid' = TRUE
    /\ IF columns = <<>> /\ ~sealed
       THEN columns' = RowInserted(<<EmptyColumn, EmptyColumn>>, 0, newest) /\ newest' = newest + 2
       ELSE SameTable
    /\ LET s == IF columns' # columns THEN [sel EXCEPT !.col = 1, !.row = Least2(@, 1)] ELSE Clamp(sel)
       IN  sel' = IF columns' # columns THEN [s EXCEPT !.caret = 0] ELSE AtTheEnd(s.col, s.row)
    /\ UNCHANGED <<armed, hinted, disturbed>>

\* esc (view.leave).
LeaveGrid == OtherKey("esc") /\ onGrid' = FALSE /\ SameTable /\ UNCHANGED sel

\* left, right, up, down, tab, shift+tab, home and end.
NextColumn(s)  == IF s.col < Width0 THEN s.col + 1 ELSE 1
Moved(key, s) ==
    CASE key = "left"  -> IF s.caret > 0 THEN [s EXCEPT !.caret = @ - 1]
                          ELSE IF s.col > 1 THEN AtTheEnd(s.col - 1, s.row) ELSE s
      [] key = "right" -> IF s.caret < Len(ShownText(CellAt(s.col, s.row))) THEN [s EXCEPT !.caret = @ + 1]
                          ELSE IF s.col < Width0 THEN [s EXCEPT !.col = @ + 1, !.caret = 0] ELSE s
      [] key = "up"    -> IF s.row > 0 THEN AtTheEnd(s.col, s.row - 1) ELSE s
      [] key = "down"  -> IF s.row < Height(columns) THEN AtTheEnd(s.col, s.row + 1) ELSE s
      [] key = "tab"   -> AtTheEnd(NextColumn(s), IF s.col < Width0 THEN s.row ELSE Least2(s.row + 1, Height(columns)))
      [] key = "back"  -> IF s.col > 1 THEN AtTheEnd(s.col - 1, s.row)
                          ELSE AtTheEnd(Width0, Max({s.row - 1, 0}))
      [] key = "home"  -> [s EXCEPT !.caret = 0]
Movements == {"left", "right", "up", "down", "tab", "back", "home"}
MoveSel(key) == OtherKey("move") /\ sel' = Moved(key, Clamp(sel)) /\ SameTable /\ UNCHANGED onGrid

\* enter: a row below the selected one.
GridEnter ==
    LET s == Clamp(sel) IN
    /\ OtherKey("enter") /\ UNCHANGED onGrid
    /\ columns' = RowInserted(columns, s.row, newest) /\ newest' = newest + Width0
    /\ sel' = IF columns' # columns THEN [s EXCEPT !.row = @ + 1, !.caret = 0] ELSE s

\* alt+n: a column to the right, unless the table is locked.
AddColumn ==
    /\ OtherKey("column") /\ UNCHANGED <<onGrid, newest>>
    /\ columns' = IF sealed THEN columns ELSE Append(columns, EmptyColumn)
    /\ sel' = IF sealed THEN Clamp(sel) ELSE [col |-> Width0 + 1, row |-> 0, caret |-> 0]

\* tableRowEmpty, which trims the stored text, and tableDropRow: each column in turn loses what is in the row at that time.
RowHasNoText(row) == \A i \in DOMAIN columns : Printable(CellAt(i, row).text) = <<>>
RowIsEmpty(row) ==
    \A i \in DOMAIN columns : LET c == CellAt(i, row) IN Printable(c.text) = <<>> /\ ~c.inside
RowDropped(cs, row) ==
    FoldLeft(LAMBDA acc, i :
                 LET j == IF acc[i].of = 0 THEN i ELSE acc[i].of
                 IN  IF row \notin DOMAIN acc[j].cells THEN acc
                     ELSE IF acc[j].cells[row].fixed THEN acc
                     ELSE [acc EXCEPT ![j].cells = RemoveAt(@, row)],
             cs, [i \in DOMAIN cs |-> i])
DropsAt(row) == armed = row \/ RowIsEmpty(row)
DropRow ==
    LET s == Clamp(sel) IN
    /\ KeyOf("drop") /\ UNCHANGED <<onGrid, newest>>
    /\ IF s.row = 0 THEN sel' = s /\ UNCHANGED <<columns, armed, hinted, disturbed>>
       ELSE IF DropsAt(s.row)
       THEN /\ Disarmed
            /\ columns' = RowDropped(columns, s.row)
            /\ sel' = LET row == IF Height(columns) <= s.row THEN s.row - 1 ELSE s.row
                          row1 == Least2(row, Height(columns'))
                          c   == columns'[s.col]
                          cells == IF c.of = 0 THEN c.cells ELSE columns'[c.of].cells
                          text == IF row1 = 0 THEN ShownText(HeaderOf(s.col))
                                  ELSE IF row1 \in DOMAIN cells THEN ShownText(cells[row1]) ELSE <<>>
                      IN  [col |-> s.col, row |-> row1, caret |-> Least2(s.caret, Len(text))]
       ELSE /\ armed' = s.row /\ sel' = s /\ UNCHANGED columns /\ disturbed' = FALSE
            /\ hinted' = {CellAt(i, s.row).id : i \in DOMAIN columns}

\* alt+right: the cell's own outline is opened.
OpenCell ==
    LET s == Clamp(sel) IN
    /\ OtherKey("open") /\ sel' = s /\ SameTable
    /\ onGrid' = (CellAt(s.col, s.row) = NoCell)

\* tableEnsureCell: the cells that are missing above and at the place, new.
Ensured0(s) ==
    LET j == Column(s.col) IN
    IF s.row = 0 \/ s.row \in DOMAIN CellsOf(s.col) \/ columns[j].locked THEN columns
    ELSE [columns EXCEPT ![j].cells = @ \o [k \in 1..(s.row - Len(@)) |-> NewCell(newest + k)]]
\* tableEditCell: the text becomes `text`, if the cell is there and may be edited.
Edits(s, text) ==
    LET cs == Ensured0(s)
        j  == Column(s.col)
    IN  IF s.row = 0 THEN IF CellEditable(HeaderOf(s.col)) THEN [cs EXCEPT ![j].text = text] ELSE cs
        ELSE IF s.row \in DOMAIN cs[j].cells /\ CellEditable(cs[j].cells[s.row])
             THEN [cs EXCEPT ![j].cells[s.row].text = text] ELSE cs
Accepted(s) ==
    LET j == Column(s.col)  IN
    IF s.row = 0 THEN CellEditable(HeaderOf(s.col))
    ELSE s.row \in DOMAIN Ensured0(s)[j].cells /\ CellEditable(Ensured0(s)[j].cells[s.row])

\* tableInsert, of a rune or of what is pasted: the caret has counted the runes that are shown, the edit counts those that
\* are stored, and the caret moves on by what was inserted.
TypeRunes(r) ==
    LET s == Clamp(sel)
        text == CellAt(s.col, s.row).text
        at == Least2(s.caret, Len(text))
    IN
    /\ columns # <<>> /\ OtherKey("type") /\ UNCHANGED onGrid
    /\ columns' = Edits(s, SubSeq(text, 1, at) \o r \o SubSeq(text, at + 1, Len(text)))
    /\ newest' = newest + s.row
    /\ sel' = IF Accepted(s) THEN [s EXCEPT !.caret = @ + Len(r)] ELSE s
Backspace ==
    LET s == Clamp(sel) IN
    /\ columns # <<>> /\ OtherKey("backspace") /\ UNCHANGED onGrid
    /\ columns' = IF s.caret > 0 /\ Accepted(s) THEN Edits(s, RemoveAt(CellAt(s.col, s.row).text, s.caret)) ELSE columns
    /\ newest' = newest
    /\ sel' = IF s.caret > 0 /\ Accepted(s) THEN [s EXCEPT !.caret = @ - 1] ELSE s

\* A cell more, a cell less, another text: live sync brings what others did, but in the grid only answers from
\* sources land, which own their cells.
OthersChange ==
    /\ Step1("others") /\ drawing = <<>> /\ disturbed' = TRUE
    /\ UNCHANGED <<sel, armed, onGrid, hinted>>
    /\ \E i \in DOMAIN columns :
           /\ columns[i].of = 0
           /\ \/ /\ columns' = [columns EXCEPT ![i].cells = <<[NewCell(newest + 1) EXCEPT !.fixed = onGrid]>> \o @]
                 /\ newest' = newest + 1
              \/ /\ columns[i].cells # <<>> /\ (onGrid => columns[i].cells[1].fixed)
                 /\ columns' \in {[columns EXCEPT ![i].cells = Tail(@)], [columns EXCEPT ![i].cells[1].text = <<>>]}
                 /\ UNCHANGED newest

TableNext ==
    \/ Draw \/ EnterGrid \/ LeaveGrid \/ GridEnter \/ AddColumn \/ DropRow \/ OpenCell \/ Backspace \/ OthersChange
    \/ \E r \in Insertions : TypeRunes(r)
    \/ \E key \in Movements : MoveSel(key)

TableSpec == TableInit /\ [][TableNext]_tableVars

-----------------------------------------------------------------------------
\* Properties.

Places(cs) == {p \in (DOMAIN cs) \X (1..Height(cs)) : cs[p[1]].of = 0 /\ p[2] \in DOMAIN cs[p[1]].cells}
IdAt(cs, p) == cs[p[1]].cells[p[2]].id
\* The columns the grid may insert into and remove from, shown once.
Free(cs) == {i \in DOMAIN cs : /\ ~cs[i].locked /\ cs[i].of = 0 /\ \A k \in DOMAIN cs : cs[k].of # i
                               /\ \A r \in DOMAIN cs[i].cells : ~cs[i].cells[r].fixed}

\* The columns are well formed, no cell is in two places, and a key leaves the selection on a column, if there is one, and
\* the caret in its cell's text, after a paste of what is not shown at least in the stored one.
TableTypeOK ==
    /\ sel.row \in Nat /\ sel.caret \in Nat
    /\ (onGrid /\ lastKey # "others") =>
           LET c == CellAt(sel.col, sel.row)
           IN  (columns # <<>> => sel.col \in 1..Width0) /\ sel.caret <= Max({Len(ShownText(c)), Len(c.text)})
    /\ \A i \in DOMAIN columns : columns[i].of \in 0..Width0
    /\ \A p, q \in Places(columns) : IdAt(columns, p) = IdAt(columns, q) => p = q

\* Cells that stood in one row stand in one row after any key, however ragged the columns are (tableAddRow inserts at a
\* clamped place, tableDropRow removes by number, tableEnsureCell fills the gap).
RowsStayTogether ==
    [][lastKey' # "others" =>
         \A p, q \in Places(columns) :
             (p[2] = q[2] /\ {p[1], q[1]} \subseteq Free(columns)) =>
                 \A p1, q1 \in Places(columns') :
                     (IdAt(columns', p1) = IdAt(columns, p) /\ IdAt(columns', q1) = IdAt(columns, q)) => p1[2] = q1[2]
      ]_tableVars

\* A cell that holds anything goes only when alt+d is pressed again on the row whose cells the red hint was shown for:
\* tblArm remembers a number, which is that row as long as nobody else moves the rows.
OnlyTheHintedRowGoes ==
    [][(lastKey' = "drop" /\ ~disturbed /\ Free(columns) = DOMAIN columns) =>
         \A p \in Places(columns) :
             LET c == columns[p[1]].cells[p[2]]
             IN  (Printable(c.text) # <<>> \/ c.inside) =>
                     (c.id \in hinted \/ \E q \in Places(columns') : IdAt(columns', q) = c.id)
      ]_tableVars

\* What is typed or pasted shows where the caret was, in the selected cell and nowhere else, or nothing is changed; as the
\* caret counts the runes that are shown and the edit those that are stored (table.go:691), it shows further left in a cell
\* that stores control bytes or newlines before the caret.
TypedAtTheCaret ==
    [][(lastKey' = "type" /\ tableSteps' # tableSteps) =>
         LET s == Clamp(sel)
             stored == CellAt(s.col, s.row).text
             shown == ShownText(CellAt(s.col, s.row))
             j == Column(s.col)
             text == IF s.row = 0 THEN Printable(columns'[j].text)
                     ELSE IF s.row \in DOMAIN columns'[j].cells THEN ShownText(columns'[j].cells[s.row]) ELSE <<>>
         IN  /\ \/ text = shown /\ sel'.caret = s.caret
                \/ \E r \in Insertions, k \in 0..s.caret :
                       /\ text = SubSeq(shown, 1, k) \o Printable(r) \o SubSeq(shown, k + 1, Len(shown))
                       /\ sel'.caret = s.caret + Len(r)
                       /\ k = s.caret \/ ToSet(SubSeq(stored, 1, Least2(s.caret, Len(stored)))) \cap Control # {}
             /\ \A p \in Places(columns) : p = <<j, s.row>> \/ columns'[p[1]].cells[p[2]] = columns[p[1]].cells[p[2]]
      ]_tableVars

\* The grid fits the pane whenever its columns at their least do, no column gives way while a wider one does not, and none
\* that is narrow enough already gives way at all (tableColWidths).
WidthsAreLevel ==
    drawing # <<>> =>
        LET w == drawing[1].widths
            full == ColWidths(drawing[1].natural, 1000)
            budget == drawing[1].avail - (3 * Len(w) + 1)
            total == FoldLeft(+, 0, w)
        IN  /\ \A i \in DOMAIN w : MinWidth <= w[i] /\ w[i] <= full[i]
            /\ (Len(w) * MinWidth <= budget /\ budget > 0) => total <= budget
            /\ (w # full) => (total = budget \/ \A i \in DOMAIN w : w[i] = MinWidth)
            /\ \A i, j \in DOMAIN w : (w[i] < full[i] /\ w[j] > MinWidth) => w[j] <= w[i] + 1

\* The caret is in the part of a cell that is drawn, whatever the width of the column (tableCaretLine).
CaretIsInTheBox == drawing # <<>> => drawing[1].caret \in drawing[1].seen

\* The cells of a row stay in one row through inserts, moves and deletes, only the row that was hinted at goes, and the
\* caret is where the box shows it (table.go:843, table.go:250, table.go:413).
GridKeepsItsRows ==
    /\ [](TableTypeOK /\ WidthsAreLevel /\ CaretIsInTheBox)
    /\ RowsStayTogether
    /\ OnlyTheHintedRowGoes
    /\ TypedAtTheCaret
=============================================================================
