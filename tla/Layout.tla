------------------------------ MODULE Layout ------------------------------
(***************************************************************************)
(* One frame of the editor, and the keys and the mouse that act on what it *)
(* shows: the budgets of view.go, the window over the focused region, the  *)
(* overlays, the status bar, the read-only region (temp.go) and the map    *)
(* from screen lines to rows that the mouse reads (mouse.go).  A line is   *)
(* what it is a line of: its text, colours and width are left out.  The    *)
(* program draws after every message it handles, and so does every action. *)
(***************************************************************************)
EXTENDS Integers, SequencesExt, FiniteSetsExt

CONSTANTS
    Desks,          \* what the program may open on: rows of both trees, the height, the bar
    RowShapes,      \* what a row may become when it is typed into, added or brought by others
    Heights,        \* the terminal's heights
    BarSizes,       \* lines of the wrapped status bar
    MaxRegion,      \* rows a region may grow to
    MaxLayoutSteps  \* keys, mouse messages and changes in a run

VARIABLES desk, frame,
    handled,        \* the desk as the handler of the message left it, before it was drawn
    message,        \* the message handled last: a key, the wheel or a press with its line, anything else
    layoutSteps
layoutVars == <<desk, frame, handled, message, layoutSteps>>

PickerHeight  == 3      \* pickerFixedHeight
SettingsLines == 7      \* six settings and the line of hints
TempMost      == 5      \* maxTempPanelLines
NoteMost      == 2      \* noteBandMaxLines
WheelStep     == 3

Least1(n) == Max({1, n})
Lower(n, m) == Min({n, m})

RowsIn(d)  == IF d.inTemp THEN d.temp ELSE d.main
Other(d) == IF d.inTemp THEN d.main ELSE d.temp

\* The budgets (viewBudgets).
RowBudget(d) == Least1((IF d.height <= 0 THEN 18 ELSE Least1(d.height - 2)) - (d.bar - 1))

Overlay(d) ==
    CASE d.mode = "picker"   -> d.header + (IF d.items > 0 THEN PickerHeight ELSE 0)
      [] d.mode = "settings" -> SettingsLines
      [] d.mode = "confirm"  -> IF RowsIn(d) = <<>> THEN 0 ELSE 1
      [] OTHER               -> 0

Reserved(d) ==
    LET wanted == CASE d.mode = "picker" -> Overlay(d) [] d.mode = "settings" -> PickerHeight [] OTHER -> 0
    IN  IF wanted = 0 THEN 0 ELSE Least1(Lower(wanted, RowBudget(d) - 1))

ShowsTemp(d) ==
    /\ ~d.focused
    /\ RowBudget(d) >= 3
    /\ d.mode \in {"outline", "note"} \/ (d.mode = "picker" /\ ~d.inTemp)

TempBudget(d) ==
    IF ~ShowsTemp(d) THEN 0 ELSE Least1(Lower(Least1(Lower(Len(d.temp), TempMost)), RowBudget(d) - 1))
MainBudget(d) == RowBudget(d) - TempBudget(d)
FocusedBudget(d) == IF ShowsTemp(d) /\ d.inTemp THEN TempBudget(d) ELSE MainBudget(d)
WindowRows(d) == IF Reserved(d) = 0 THEN FocusedBudget(d) ELSE Least1(FocusedBudget(d) - Reserved(d))

\* The lines of a row (renderRow): its own, its note, and its resting band or the view that has the focus.
Line(kind, i, k) == [what |-> kind, row |-> i, nth |-> k]
EmptyLine == Line("blank", 0, 0)
LinesAs(kind, i, n) == [k \in 1..n |-> Line(kind, i, k)]
NoteLines(row, editing) == IF editing THEN Least1(row.note) ELSE Lower(row.note, NoteMost)

ViewRows(d) ==
    LET room == Least1(FocusedBudget(d) - RowsIn(d)[d.cursor].group - 1)
    IN  Lower(RowsIn(d)[d.cursor].view, room)
HasView(d) == d.cursor \in DOMAIN RowsIn(d) /\ RowsIn(d)[d.cursor].view > 0
BandLines(d, i) ==
    LET row == RowsIn(d)[i]
    IN  NoteLines(row, d.mode = "note" /\ i = d.cursor)
          + (IF d.focused /\ i = d.cursor /\ row.view > 0 THEN ViewRows(d) ELSE row.rest)

\* The window over the focused region (viewWindow).
GroupOf(d, i) == LinesAs("row", i, RowsIn(d)[i].group) \o LinesAs("band", i, BandLines(d, i))
Flat(d) == LinesAs("rootnote", 0, d.rootNote) \o FlattenSeq([i \in DOMAIN RowsIn(d) |-> GroupOf(d, i)])
LinesAbove(d, i) == d.rootNote + FoldSet(LAMBDA j, n: n + RowsIn(d)[j].group + BandLines(d, j), 0, 1..(i - 1))

Inside(start, total, room) == Max({0, Lower(start, total - room)})

OnlyDownwards(d) ==
    LET kept == Inside(d.viewTop, Len(Flat(d)), WindowRows(d))
        last == LinesAbove(d, d.cursor) + RowsIn(d)[d.cursor].group - 1
    IN  IF RowsIn(d) # <<>> /\ last >= kept + WindowRows(d) THEN last - WindowRows(d) + 1 ELSE kept

\* The window follows the cursor from where it stood.
Following(d) ==
    LET kept  == Inside(d.viewTop, Len(Flat(d)), WindowRows(d))
        first == LinesAbove(d, d.cursor)
        last  == first + RowsIn(d)[d.cursor].group - 1
                   + (IF d.mode = "note" \/ d.focused THEN BandLines(d, d.cursor) ELSE 0)
        down  == IF last >= kept + WindowRows(d) THEN last - WindowRows(d) + 1 ELSE kept
    IN  IF RowsIn(d) = <<>> THEN kept ELSE Lower(down, first)

WindowTop(d) == IF d.scrolling THEN Inside(d.scrollTop, Len(Flat(d)), WindowRows(d)) ELSE Following(d)

\* Drawn of a desk whose window has been settled.
Window(d) == SubSeq(Flat(d), d.viewTop + 1, Lower(d.viewTop + WindowRows(d), Len(Flat(d))))
Body(d, shown) == (IF RowsIn(d) = <<>> THEN <<EmptyLine>> ELSE <<>>) \o shown

\* The region without the focus (readonlyRegionLines): it follows the cursor left in it, or the wheel's offset.
OtherLines(d) ==
    FlattenSeq([i \in DOMAIN Other(d) |->
                  LinesAs("other", i, Other(d)[i].group + NoteLines(Other(d)[i], FALSE) + Other(d)[i].rest)])
OtherShown(d) == IF OtherLines(d) = <<>> THEN <<EmptyLine>> ELSE OtherLines(d)
OtherTop(d, budget) ==
    LET lines == OtherShown(d)
        mine  == {k \in DOMAIN lines : lines[k].row = d.stash.cursor}
        down  == IF mine # {} /\ Max(mine) > budget THEN Max(mine) - budget ELSE 0
        start == IF ~d.inTemp THEN d.tempScroll ELSE IF mine = {} THEN 0 ELSE Lower(down, Min(mine) - 1)
    IN  Inside(start, Len(lines), budget)
OtherWindow(d, budget) ==
    SubSeq(OtherShown(d), OtherTop(d, budget) + 1, Lower(OtherTop(d, budget) + budget, Len(OtherShown(d))))

(***************************************************************************)
(* The frame (viewFrame) and the map from its lines to rows, which the     *)
(* code keeps beside it and cuts and pads along with it.                   *)
(***************************************************************************)
Nowhere == [row |-> 0, own |-> FALSE, nth |-> 0]
NoHits(n) == [k \in 1..n |-> Nowhere]
PadTo(lines, filler, n) == lines \o [k \in 1..Max({0, n - Len(lines)}) |-> filler]
FirstOf(lines, n) == SubSeq(lines, 1, Lower(n, Len(lines)))

BodyLines(d, shown) == Body(d, shown) \o LinesAs("overlay", 0, Overlay(d))
HitOf(line) == IF line.row = 0 THEN Nowhere ELSE [row |-> line.row, own |-> line.what = "row", nth |-> 0]
HitsOf(lines) == [k \in DOMAIN lines |-> HitOf(lines[k])]
BodyHits(shown, n) == PadTo(HitsOf(shown), Nowhere, n)

BarLines(d) == LinesAs("bar", 0, d.bar)
\* The two regions' lines on a screen that has both; body is what the focused region would show alone.
FocusedLines(d, body) == FirstOf(body, FocusedBudget(d))
UpperLines(d, body) == IF d.inTemp THEN OtherWindow(d, MainBudget(d)) ELSE FocusedLines(d, body)
LowerLines(d, body) == IF d.inTemp THEN FocusedLines(d, body) ELSE OtherWindow(d, TempBudget(d))

StackedHits(d, hits, above, below) ==
    IF d.inTemp THEN NoHits(above + d.bar) \o FirstOf(hits, below)
    ELSE FirstOf(hits, above) \o NoHits(d.bar + below)

\* A focused view is padded to the height the stacked frame has.
LeastBody(d) == IF d.focused THEN RowBudget(d) ELSE 0

Stacked(d, body, hits, total) ==
    LET above == UpperLines(d, body)
        below == LowerLines(d, body)
    IN  [out  |-> FirstOf(PadTo(above \o BarLines(d) \o below, EmptyLine, total), total),
         hits |-> FirstOf(PadTo(StackedHits(d, hits, Len(above), Len(below)), Nowhere, total), total)]

Composed(d, body, hits) ==
    IF ShowsTemp(d) THEN Stacked(d, body, hits, RowBudget(d) + d.bar)
    ELSE [out  |-> PadTo(body, EmptyLine, LeastBody(d)) \o BarLines(d), hits |-> hits \o NoHits(d.bar)]

\* A row's lines are numbered as they come on the screen (finishMouseFrame).
Numbered(hits) ==
    [k \in DOMAIN hits |->
       IF hits[k].row = 0 THEN Nowhere
       ELSE [hits[k] EXCEPT !.nth = Cardinality({j \in 1..k : hits[j].row = hits[k].row})]]

\* View cuts what the terminal has no line for.
Clipped(d, lines) == IF d.height > 0 THEN FirstOf(lines, d.height) ELSE lines
WithFrame(d, made) ==
    [out |-> Clipped(d, made.out), hits |-> Numbered(FirstOf(made.hits, Len(Clipped(d, made.out))))]

\* The frame of a desk.  The sets have one element each: they name what is computed once and used several times.
FrameFrom(d) ==
    UNION {{Composed(d, body, BodyHits(shown, Len(body))) : body \in {BodyLines(d, shown)}} : shown \in {Window(d)}}
DeskFrames(d) == {WithFrame(d, made) : made \in FrameFrom(d)}

\* What drawing writes back into the model: first the window, then the panel below what the window shows.
Windowed(d) ==
    [d EXCEPT !.viewTop    = WindowTop(d),
              !.viewRows   = WindowRows(d),
              !.scrollTop  = IF d.scrolling THEN WindowTop(d) ELSE d.scrollTop,
              !.viewScroll = IF d.focused /\ HasView(d)
                             THEN Inside(d.viewScroll, RowsIn(d)[d.cursor].view, ViewRows(d)) ELSE d.viewScroll]
Paneled(d, body) ==
    IF ~ShowsTemp(d) THEN [d EXCEPT !.panelSize = 0]
    ELSE [d EXCEPT !.tempScroll = IF ~d.inTemp THEN OtherTop(d, TempBudget(d)) ELSE d.tempScroll,
                   !.panelTop   = Len(UpperLines(d, body)) + d.bar,
                   !.panelSize  = Len(LowerLines(d, body))]
Settlings(d) == {Paneled(windowed, BodyLines(windowed, Window(windowed))) : windowed \in {Windowed(d)}}

LayoutInit ==
    /\ handled \in Desks
    /\ desk \in Settlings(handled)
    /\ frame \in DeskFrames(desk)
    /\ message = [kind |-> "open", y |-> 0]
    /\ layoutSteps = 0

\* View, after every message.
Draws ==
    /\ desk' \in Settlings(handled')
    /\ frame' \in DeskFrames(desk')

\* Update: the handler of a message changes the desk.
Shows(d, kind, y) ==
    /\ message' = [kind |-> kind, y |-> y]
    /\ handled' = d

\* Every key takes the wheel's pin off the window.
Pressed(d, kind) == Shows([d EXCEPT !.scrolling = FALSE], kind, 0)

-----------------------------------------------------------------------------
(***************************************************************************)
(* Up and down (moveCursorVertical): line by line through a row's text,    *)
(* then to the next row, at the ends to the other region.                  *)
(***************************************************************************)
AtRow(d, i, k) == [d EXCEPT !.cursor = i, !.line = k, !.atEnd = FALSE]
Here(d) == RowsIn(d)[d.cursor]

EnterTemp(d) ==
    [d EXCEPT !.stash = [cursor |-> d.cursor, line |-> d.line], !.inTemp = TRUE,
              !.cursor = 1, !.line = 1, !.atEnd = FALSE]
ExitTemp(d) ==
    [d EXCEPT !.inTemp = FALSE, !.cursor = d.stash.cursor, !.line = d.stash.line, !.atEnd = FALSE]

StepDown(d) ==
    CASE d.cursor \in DOMAIN RowsIn(d) /\ d.line < Here(d).name -> [d EXCEPT !.line = @ + 1]
      [] d.cursor \in DOMAIN RowsIn(d) /\ d.line >= Here(d).name /\ d.cursor = Len(RowsIn(d)) /\ ~d.inTemp /\ ~d.atEnd ->
            [d EXCEPT !.atEnd = TRUE]
      [] OTHER -> IF d.cursor < Len(RowsIn(d)) THEN AtRow(d, d.cursor + 1, 1)
                  ELSE IF d.inTemp THEN d ELSE EnterTemp(d)

StepUp(d) ==
    CASE d.line > 1 -> [d EXCEPT !.line = @ - 1, !.atEnd = FALSE]
      [] d.line = 1 /\ d.inTemp /\ d.cursor = 1 -> ExitTemp(d)
      [] OTHER -> IF d.cursor > 1 THEN AtRow(d, d.cursor - 1, RowsIn(d)[d.cursor - 1].name) ELSE d

Steps(Op(_), d, n) == FoldLeft(LAMBDA e, k: Op(e), d, [k \in 1..n |-> k])

Unfocused == desk.mode = "outline" /\ ~desk.focused
CursorDown == Unfocused /\ Pressed(StepDown(desk), "arrow")
CursorUp   == Unfocused /\ Pressed(StepUp(desk), "arrow")
PageKey ==
    /\ Unfocused
    /\ LET half == Least1(desk.viewRows \div 2)
       IN  Pressed(Steps(StepDown, desk, half), "page") \/ Pressed(Steps(StepUp, desk, half), "page")

\* The wheel (handleMouse): over the panel it moves the panel's window, elsewhere the body's.
OverPanel(d, y) ==
    /\ ~d.inTemp
    /\ d.panelSize >= 1
    /\ d.panelTop <= y
    /\ y < d.panelTop + d.panelSize

ScrolledBody(d, by) ==
    [d EXCEPT !.scrolling = TRUE, !.scrollTop = Max({0, (IF d.scrolling THEN d.scrollTop ELSE d.viewTop) + by})]

Wheel(by, y) ==
    /\ desk.mode = "outline"
    /\ Shows(IF OverPanel(desk, y) THEN [desk EXCEPT !.tempScroll = Max({0, @ + by})] ELSE ScrolledBody(desk, by), "wheel", y)

\* A press on a line of text puts the caret there (placeMouseCaret); clampCaret keeps it in the row.
ClickedLine(d, hit) == Lower(hit.nth, RowsIn(d)[hit.row].name)
Click(y) ==
    /\ desk.mode = "outline"
    /\ y + 1 \in DOMAIN frame.hits
    /\ LET hit == frame.hits[y + 1]
       IN  /\ hit.own
           /\ Shows(AtRow(desk, hit.row, ClickedLine(desk, hit)), "press", y)

-----------------------------------------------------------------------------
(***************************************************************************)
(* What changes the frame: modes, the focused view, the terminal, the bar  *)
(* and the rows themselves, by the user's edits or another writer's.       *)
(***************************************************************************)
ToggleFocus ==
    /\ desk.mode = "outline"
    /\ HasView(desk)
    /\ Pressed([desk EXCEPT !.focused = ~@, !.viewScroll = 0], "focus")

ScrollView ==
    /\ desk.mode = "outline" /\ desk.focused
    /\ \E by \in {-1, 1, 10} : Pressed([desk EXCEPT !.viewScroll = Max({0, @ + by})], "view")

OpenMode ==
    /\ Unfocused
    /\ \E mode \in {"note", "picker", "settings", "confirm", "flash"}, items \in {0, 5}, header \in {0, 1} :
          /\ mode # "picker" => items = 0 /\ header = 0
          /\ mode \in {"note", "confirm", "picker"} => RowsIn(desk) # <<>>
          /\ Pressed([desk EXCEPT !.mode = mode, !.items = items, !.header = header], "mode")

\* A query leaves the picker with other items.
Refine == desk.mode = "picker" /\ \E items \in {0, 5} : Pressed([desk EXCEPT !.items = items], "mode")
CloseMode == desk.mode # "outline" /\ Pressed([desk EXCEPT !.mode = "outline", !.items = 0, !.header = 0], "mode")

Resize == \E h \in Heights : Shows([desk EXCEPT !.height = h], "size", 0)
BarChanges == \E n \in BarSizes : Shows([desk EXCEPT !.bar = n], "bar", 0)

\* clampCursor and clampCaret.
InRange(d) ==
    LET at == Max({1, Lower(d.cursor, Len(RowsIn(d)))})
    IN  [d EXCEPT !.cursor = at, !.line = IF RowsIn(d) = <<>> THEN 1 ELSE Lower(d.line, RowsIn(d)[at].name)]
WithRows(d, rows) == InRange(IF d.inTemp THEN [d EXCEPT !.temp = rows] ELSE [d EXCEPT !.main = rows])

TypeInto ==
    /\ desk.mode \in {"outline", "note"} /\ ~desk.focused /\ RowsIn(desk) # <<>>
    /\ \E shape \in RowShapes :
          Pressed(WithRows([desk EXCEPT !.line = shape.name, !.atEnd = TRUE], [RowsIn(desk) EXCEPT ![desk.cursor] = shape]), "edit")

AddRow ==
    /\ Unfocused /\ RowsIn(desk) # <<>> /\ Len(RowsIn(desk)) < MaxRegion
    /\ \E shape \in RowShapes : Pressed(AtRow(WithRows(desk, InsertAt(RowsIn(desk), desk.cursor + 1, shape)), desk.cursor + 1, 1), "edit")

\* The last row of a view is replaced by an empty one (ensureViewNonEmpty), never taken.
TakeRow == Unfocused /\ Len(RowsIn(desk)) > 1 /\ Pressed(WithRows(desk, RemoveAt(RowsIn(desk), desk.cursor)), "edit")

\* Live sync: rows come and go above the cursor, which stays on its node.
OthersChange1 ==
    /\ Unfocused /\ ~desk.inTemp
    /\ \/ /\ Len(desk.main) < MaxRegion
          /\ \E shape \in RowShapes :
                Shows([desk EXCEPT !.main = <<shape>> \o @, !.cursor = IF desk.main = <<>> THEN 1 ELSE @ + 1], "others", 0)
       \/ /\ desk.cursor > 1
          /\ Shows([desk EXCEPT !.main = Tail(@), !.cursor = @ - 1], "others", 0)

\* The lines at the edges of the panel and of the screen stand for the others.
WheelLines == ({0} \cup {desk.panelTop + k : k \in {-1, 0, desk.panelSize - 1, desk.panelSize}}) \cap 0..(Max(Heights) - 1)

InputIsHandled ==
    \/ CursorDown \/ CursorUp \/ PageKey
    \/ \E by \in {-WheelStep, WheelStep}, y \in WheelLines : Wheel(by, y)
    \/ \E y \in 0..(Max(Heights) - 1) : Click(y)
    \/ ToggleFocus \/ ScrollView \/ OpenMode \/ Refine \/ CloseMode
    \/ Resize \/ BarChanges
    \/ TypeInto \/ AddRow \/ TakeRow \/ OthersChange1

LayoutNext ==
    /\ layoutSteps < MaxLayoutSteps
    /\ layoutSteps' = layoutSteps + 1
    /\ InputIsHandled
    /\ Draws

LayoutSpec == LayoutInit /\ [][LayoutNext]_layoutVars

-----------------------------------------------------------------------------

\* TYPE INVARIANT.  The cursor is on a row that is there, the caret on a line of its text; every window is within what it looks at.
LayoutTypeOK ==
    /\ desk.cursor \in 1..Least1(Len(RowsIn(desk)))
    /\ RowsIn(desk) # <<>> => desk.line \in 1..Here(desk).name
    /\ desk.viewTop \in 0..Len(Flat(desk))
    /\ desk.tempScroll \in Nat
    /\ Len(frame.hits) <= Len(frame.out)
    /\ \A k \in DOMAIN frame.hits : frame.hits[k].row \in 0..Len(RowsIn(desk))

\* SAFETY (view.go:207: the frame must never exceed the terminal height, or the height cap would cut the bar off the
\* bottom).  Whatever is open, on any terminal that has a line for the body beside the overlay and the bar, all of the
\* bar is on the screen.  The settings are left out: viewBudgets reserves a picker's three lines for their seven.
BarIsOnTheScreen ==
    desk.mode # "settings" /\ desk.height >= Overlay(desk) + desk.bar + 1 =>
        SelectSeq(frame.out, LAMBDA line: line.what = "bar") = BarLines(desk)

Bars == {k \in DOMAIN frame.out : frame.out[k].what = "bar"}

\* SAFETY (viewBudgets).  While the Temporary Domain is shown both regions have a line, and it never has more than five.
\* The bar divides them (view.go:567: "the status bar is the divider"), so it is not the last line of such a frame, though
\* the warning at view.go:622 and the comments at view.go:417 and temp.go:9 say that it is the last line of every frame.
BothRegionsAreShown ==
    ShowsTemp(desk) /\ desk.height > 0 =>
        LET below == {k \in DOMAIN frame.out : k > Max(Bars) /\ frame.out[k] # EmptyLine}
        IN  /\ Bars # {} /\ Min(Bars) > 1
            /\ Cardinality(below) \in 1..TempMost

\* SAFETY (view.go:622, where it does hold).  In every frame without the Temporary Domain, whatever view or overlay is open,
\* nothing is drawn below the bar, if the terminal has a line for the body beside the overlay and the bar.
BarEndsTheFrame ==
    ~ShowsTemp(desk) /\ desk.mode # "settings" /\ desk.height >= Overlay(desk) + desk.bar + 1 =>
        Len(frame.out) \in Bars

\* SAFETY (viewWindow).  Unless the wheel has pinned the window, the row the keys act on is on the screen from its first line.
CursorIsOnTheScreen ==
    /\ ~desk.scrolling
    /\ RowsIn(desk) # <<>>
    /\ desk.height >= Overlay(desk) + desk.bar + 1
    => \E k \in DOMAIN frame.out : frame.out[k] = Line("row", desk.cursor, 1)

\* SAFETY (mouse.go, finishMouseFrame).  The mouse's map agrees with the screen line by line: a press meets the row that is
\* drawn there and no other, though the map is windowed, padded and cut apart from the lines.
HitsAreWhatIsDrawn ==
    \A k \in DOMAIN frame.out :
        LET line == frame.out[k]
            hit  == IF k \in DOMAIN frame.hits THEN frame.hits[k] ELSE Nowhere
        IN  IF line.what \in {"row", "band"} THEN hit.row = line.row /\ (hit.own <=> line.what = "row")
            ELSE hit.row = 0

\* ACTION PROPERTY (handleMouse, scrollTempPanel).  The wheel moves what is drawn under it: over a line of the Temporary
\* Domain's panel the body stays, anywhere else the panel stays, and the body moves by no more than a wheel's step.
WheelMovesWhatIsUnderIt ==
    [][message'.kind = "wheel" /\ message'.y < Len(frame.out) =>
          LET onPanel == ~desk.inTemp /\ frame.out[message'.y + 1].what = "other"
          IN  /\ onPanel => desk'.viewTop = desk.viewTop
              /\ ~onPanel => desk'.tempScroll = desk.tempScroll
              /\ desk'.viewTop - desk.viewTop \in (-WheelStep)..WheelStep]_layoutVars

\* ACTION PROPERTY (viewFrame: toggling the view never changes the frame height).  Where there is room for the panel,
\* giving a view the focus or taking it back leaves the frame as tall as it was.
FocusKeepsTheHeight ==
    [][message'.kind = "focus" /\ RowBudget(desk) >= 3 => Len(frame'.out) = Len(frame.out)]_layoutVars

\* A row of the focused region that has all its lines on the screen.
WhollyShown(i) == \A k \in 1..RowsIn(desk)[i].group : \E j \in DOMAIN frame.out : frame.out[j] = Line("row", i, k)

\* ACTION PROPERTY (viewWindow: keep the previous window when the cursor is already fully visible in it).  A key that
\* leaves the cursor on a row that was wholly on the screen does not move the window.
WindowStaysWhenItCan ==
    [][(message'.kind = "arrow" /\ ~desk.inTemp /\ ~desk'.inTemp /\ WhollyShown(desk'.cursor)) => desk'.viewTop = desk.viewTop]_layoutVars

\* ACTION PROPERTY (placeMouseCaret).  A press puts the cursor on the row drawn under it, and the caret on the line of its
\* text drawn there, when the row is on the screen from its first line.
PressLandsWhereItIsDrawn ==
    [][message'.kind = "press" =>
          LET line == frame.out[message'.y + 1]
          IN  /\ desk'.cursor = line.row
              /\ (\E k \in DOMAIN frame.out : frame.out[k] = Line("row", line.row, 1))
                   => desk'.line = Lower(line.nth, Here(desk').name)]_layoutVars

\* At every height the bar and the cursor's row are on the screen, the bar between both regions where there are two and at
\* the end of the frame where there is one, a press or a turn of the wheel reaches what is drawn there, and the window
\* moves only if it must (view.go:379, mouse.go:333, view.go:199).
ScreenIsAsLaid ==
    /\ [](LayoutTypeOK /\ BarIsOnTheScreen /\ BothRegionsAreShown /\ BarEndsTheFrame /\ CursorIsOnTheScreen /\ HitsAreWhatIsDrawn)
    /\ WheelMovesWhatIsUnderIt
    /\ FocusKeepsTheHeight
    /\ WindowStaysWhenItCan
    /\ PressLandsWhereItIsDrawn
=============================================================================
