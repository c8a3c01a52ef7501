-------------------------------- MODULE Screen --------------------------------
(***************************************************************************)
(* The terminal that a session's program draws on (multiplexer/screen.go): *)
(* a grid with a cursor, a scroll region and a deferred wrap; the history  *)
(* of lines that left at the top, with a limit; the alternate screen; the  *)
(* scanner that takes titles out of the bytes before they are parsed, and  *)
(* the pen that graphic sequences leave behind.                            *)
(*                                                                         *)
(* A cell holds the number of the character printed there, 0 when it is    *)
(* blank, and -n for the second column of the wide character n.  Colours   *)
(* of cells, links and combining marks are left out.                       *)
(***************************************************************************)
EXTENDS Integers, SequencesExt, FiniteSetsExt

CONSTANTS
    Sizes,      \* bound: sizes of the screen, <<w, h>>; the first one is the smallest
    FirstSize,  \* the size at the start
    SbCap,      \* sbCap: lines of history kept, 0 for no limit
    MaxPrinted, \* bound: characters printed
    MaxSequences,   \* bound: sequences handled
    MaxItems,   \* bound: length of a stream of titles and text
    MaxCodes    \* bound: attributes of one graphic sequence

ASSUME ScreenAssumption == /\ FirstSize \in Sizes /\ Sizes \subseteq (Nat \ {0}) \X (Nat \ {0})
                           /\ SbCap \in Nat /\ MaxPrinted \in Nat /\ MaxSequences \in Nat

VARIABLES
    scr,     \* the Screen
    printed, \* ghost: how many characters were printed
    onAlt,   \* ghost: those printed on the alternate screen
    screenSteps, \* ghost: sequences handled
    stream,  \* what the title scanner was given, and what came out of it
    sgrPen \* what the pen was given, and what it is

screenVars == <<scr, printed, onAlt, screenSteps, stream, sgrPen>>

Least(a, b) == IF a < b THEN a ELSE b
Most(a, b) == IF a > b THEN a ELSE b
Clamped(v, lo, hi) == Most(lo, Least(v, hi))

-----------------------------------------------------------------------------
(* The grid.                                                               *)

BlankRow(w) == [x \in 0 .. w - 1 |-> 0]
BlankGrid(w, h) == [y \in 0 .. h - 1 |-> BlankRow(w)]
FreshScreen(w, h) ==
    [w |-> w, h |-> h, grid |-> BlankGrid(w, h), x |-> 0, y |-> 0, top |-> 0, bot |-> h - 1, wrapNext |-> FALSE,
     scrollback |-> <<>>, dropped |-> 0, save |-> <<0, 0>>, alt |-> <<>>, altAt |-> <<0, 0>>, altOn |-> FALSE]

\* Rows from .. to move one row up, or down; a blank one comes in.
RowsUp(t, from, to) ==
    [t EXCEPT !.grid = [y \in DOMAIN t.grid |-> IF y = to THEN BlankRow(t.w)
                                                ELSE IF y \in from .. to - 1 THEN t.grid[y + 1] ELSE t.grid[y]]]
RowsDown(t, from, to) ==
    [t EXCEPT !.grid = [y \in DOMAIN t.grid |-> IF y = from THEN BlankRow(t.w)
                                                ELSE IF y \in from + 1 .. to THEN t.grid[y - 1] ELSE t.grid[y]]]

PushScrollback(t, row) ==
    LET lines == Append(t.scrollback, row)
        over == IF SbCap > 0 THEN Most(0, Len(lines) - SbCap) ELSE 0
    IN [t EXCEPT !.scrollback = SubSeq(lines, over + 1, Len(lines)), !.dropped = @ + over]

\* A slip: the alternate screen's lines go to the history too.
ScrollsAlways(t) ==
    LET up == RowsUp(t, t.top, t.bot)
    IN IF t.top = 0 /\ t.bot = t.h - 1 THEN PushScrollback(up, t.grid[t.top]) ELSE up
ScrollOnce(t) ==
    LET up == RowsUp(t, t.top, t.bot)
        full == t.top = 0 /\ t.bot = t.h - 1
    IN IF full /\ ~t.altOn THEN PushScrollback(up, t.grid[t.top]) ELSE up
ScrollUp(t, n) == FoldLeft(LAMBDA u, i : ScrollOnce(u), t, [i \in 1 .. n |-> i])
ScrollDown(t, n) == FoldLeft(LAMBDA u, i : RowsDown(u, u.top, u.bot), t, [i \in 1 .. n |-> i])
LineFeed(t) == IF t.y = t.bot THEN ScrollUp(t, 1) ELSE [t EXCEPT !.y = Least(@ + 1, t.h - 1)]
ReverseFeed(t) == IF t.y = t.top THEN ScrollDown(t, 1) ELSE [t EXCEPT !.y = Most(@ - 1, 0)]

\* A character of one or two columns.
PrintChar(t, k, wide) ==
    LET u == IF t.wrapNext THEN [LineFeed([t EXCEPT !.x = 0]) EXCEPT !.wrapNext = FALSE] ELSE t
        v == IF wide /\ u.x = u.w - 1 THEN LineFeed([u EXCEPT !.x = 0]) ELSE u
        two == wide /\ v.x + 1 < v.w
        next == v.x + (IF two THEN 2 ELSE 1)
    IN [v EXCEPT !.grid[v.y] = [x \in DOMAIN @ |-> IF x = v.x THEN k ELSE IF two /\ x = v.x + 1 THEN -k ELSE @[x]],
                 !.x = Least(next, v.w - 1), !.wrapNext = next >= v.w]

EraseRows(t, from, to) ==
    [t EXCEPT !.grid = [y \in DOMAIN @ |-> IF y \in from .. to THEN BlankRow(t.w) ELSE @[y]]]
EraseLine(t, from, to) == [t EXCEPT !.grid[t.y] = [x \in DOMAIN @ |-> IF x \in from .. to - 1 THEN 0 ELSE @[x]]]

\* ED and EL.
EraseDisplay(t, how) ==
    CASE how = 0 -> EraseRows(EraseLine(t, t.x, t.w), t.y + 1, t.h - 1)
      [] how = 1 -> EraseLine(EraseRows(t, 0, t.y - 1), 0, t.x + 1)
      [] how = 2 -> EraseRows(t, 0, t.h - 1)
      [] how = 3 -> [EraseRows(t, 0, t.h - 1) EXCEPT !.scrollback = <<>>, !.dropped = 0]
EraseInLine(t, how) == EraseLine(t, IF how = 0 THEN t.x ELSE 0, IF how = 1 THEN t.x + 1 ELSE t.w)

\* IL and DL, DCH and ICH.
LinesOf(t, n) == [i \in 1 .. Least(n, t.bot - t.y + 1) |-> i]
InsertLines(t, n) == FoldLeft(LAMBDA u, i : RowsDown(u, u.y, u.bot), t, LinesOf(t, n))
DeleteLines(t, n) == FoldLeft(LAMBDA u, i : RowsUp(u, u.y, u.bot), t, LinesOf(t, n))
DeleteChars(t, k) ==
    LET n == Clamped(k, 0, t.w - t.x)
    IN [t EXCEPT !.grid[t.y] = [x \in DOMAIN @ |-> IF x < t.x THEN @[x] ELSE IF x + n < t.w THEN @[x + n] ELSE 0]]
InsertChars(t, k) ==
    LET n == Clamped(k, 0, t.w - t.x)
    IN [t EXCEPT !.grid[t.y] = [x \in DOMAIN @ |-> IF x < t.x THEN @[x] ELSE IF x < t.x + n THEN 0 ELSE @[x - n]]]

SetRegion(t, first, last) ==
    LET upper == Clamped(first - 1, 0, t.h - 1)
        lower == Clamped(last - 1, 0, t.h - 1)
    IN IF upper < lower THEN [t EXCEPT !.top = upper, !.bot = lower, !.x = 0, !.y = upper]
       ELSE [t EXCEPT !.top = 0, !.bot = t.h - 1, !.x = 0, !.y = 0]
SaveCursor(t) == [t EXCEPT !.save = <<t.x, t.y>>]
RestoreCursor(t) == [t EXCEPT !.x = t.save[1], !.y = t.save[2]]

SetAlt(t, on) ==
    IF on = t.altOn THEN t
    ELSE IF on THEN [t EXCEPT !.alt = <<t.grid>>, !.altAt = <<t.x, t.y>>, !.grid = BlankGrid(t.w, t.h),
                              !.x = 0, !.y = 0, !.altOn = TRUE, !.top = 0, !.bot = t.h - 1]
    ELSE [t EXCEPT !.grid = t.alt[1], !.x = t.altAt[1], !.y = t.altAt[2], !.alt = <<>>,
                   !.altOn = FALSE, !.top = 0, !.bot = t.h - 1]
ResetScreen(t) == [FreshScreen(t.w, t.h) EXCEPT !.scrollback = t.scrollback, !.dropped = t.dropped, !.save = t.save, !.altAt = t.altAt]

Regrown(g, w, h) ==
    [y \in 0 .. h - 1 |-> [x \in 0 .. w - 1 |-> IF y \in DOMAIN g THEN IF x \in DOMAIN g[y] THEN g[y][x] ELSE 0 ELSE 0]]
Within(at, w, h) == <<Clamped(at[1], 0, w - 1), Clamped(at[2], 0, h - 1)>>
WholeRegion(t, h) == [t EXCEPT !.top = 0, !.bot = h - 1]
ResizeTo(t, w, h) ==
    IF w = t.w /\ h = t.h THEN t
    ELSE [WholeRegion(t, h) EXCEPT !.grid = Regrown(@, w, h), !.alt = [i \in DOMAIN @ |-> Regrown(@[i], w, h)],
                   !.w = w, !.h = h, !.x = Clamped(@, 0, w - 1), !.y = Clamped(@, 0, h - 1),
                   !.altAt = Within(@, w, h), !.save = Within(@, w, h), !.wrapNext = FALSE]

-----------------------------------------------------------------------------
(* Titles: the scanner works byte by byte, wherever the chunks are cut.    *)

\* The bytes that matter to it.
ESC == "esc"
BEL == "bel"
\* What a program writes: text, a title, another OSC, another escape sequence.
Piece(bytes, title) == [bytes |-> bytes, title |-> title]
Title(d, text, end) == Piece(<<ESC, "]", d, ";">> \o text \o end, text)
Endings == {<<BEL>>, <<ESC, "\\">>}
Plain1 == {Piece(<<"0">>, <<>>), Piece(<<";">>, <<>>), Piece(<<ESC, "c">>, <<>>), Piece(<<ESC, "]", "0", ESC, "c">>, <<>>)}
          \union {Piece(<<ESC, "]">> \o text \o end, <<>>) : text \in {<<"8", ";", "0">>, <<"2", "0", ";">>}, end \in Endings}
Pieces == Plain1 \union {Title(d, text, end) : d \in {"0", "2"}, text \in {<<"t">>, <<"u", "]">>}, end \in Endings}
Streams == BoundedSeq(Pieces, MaxItems)

Scanner == [at |-> "ground", buf |-> <<>>, out |-> <<>>, title |-> <<>>]
Puts(f, bytes, at) == [f EXCEPT !.out = @ \o bytes, !.at = at]
\* A sequence that turns out not to be a title is given back from its start.
HeadBack(f, bytes, at) == Puts(f, <<ESC, "]">> \o f.buf \o bytes, at)
\* One byte of filterTitles.
FilterByte(f, c) ==
    CASE f.at = "ground" -> IF c = ESC THEN [f EXCEPT !.at = "esc"] ELSE Puts(f, <<c>>, "ground")
      [] f.at = "esc" -> IF c = "]" THEN [f EXCEPT !.at = "head", !.buf = <<>>]
                         ELSE IF c = ESC THEN Puts(f, <<ESC>>, "esc") ELSE Puts(f, <<ESC, c>>, "ground")
      [] f.at = "head" ->
            IF c = BEL THEN HeadBack(f, <<c>>, "ground")
            ELSE IF c = ESC THEN HeadBack(f, <<>>, "esc")
            ELSE IF f.buf = <<>> /\ c \in {"0", "2"} THEN [f EXCEPT !.buf = <<c>>]
            ELSE IF Len(f.buf) = 1 /\ c = ";" THEN [f EXCEPT !.buf = <<>>, !.at = "title"]
            ELSE HeadBack(f, <<c>>, "pass")
      [] f.at = "title" -> IF c = BEL THEN [f EXCEPT !.title = f.buf, !.at = "ground"]
                           ELSE IF c = ESC THEN [f EXCEPT !.at = "titleEsc"] ELSE [f EXCEPT !.buf = Append(@, c)]
      [] f.at = "titleEsc" -> [f EXCEPT !.title = IF c = "\\" THEN f.buf ELSE @, !.at = IF c = ESC THEN "esc" ELSE "ground"]
      [] f.at = "pass" -> Puts(f, <<c>>, IF c = BEL THEN "ground" ELSE IF c = ESC THEN "passEsc" ELSE "pass")
      [] f.at = "passEsc" -> Puts(f, <<c>>, IF c = "\\" THEN "ground" ELSE "pass")
FilterTitles(bytes) == FoldLeft(LAMBDA f, c : FilterByte(f, c), Scanner, bytes)

-----------------------------------------------------------------------------
(* The pen: parameters with ';' or ':' between them.                       *)

Fields1 == {"bold", "faint", "under", "fg", "bg", "ul"}
NoPen == [f \in Fields1 |-> <<>>]
Unset(codes, fields) == [codes |-> codes, field |-> "", clears |-> fields]
Set(codes, field) == [codes |-> codes, field |-> field, clears |-> {}]
One(v) == [v |-> v, more |-> FALSE]
\* Numbers with ';' after each, or with ':' between them.
Semi(vs) == [i \in DOMAIN vs |-> One(vs[i])]
Colon(vs) == [i \in DOMAIN vs |-> [v |-> vs[i], more |-> i < Len(vs)]]
\* What a program may ask for, colours whose numbers are codes themselves among it.
Asks == {Unset(Semi(<<0>>), Fields1), Set(Semi(<<1>>), "bold"), Set(Semi(<<2>>), "faint"), Unset(Semi(<<22>>), {"bold", "faint"}),
         Set(Semi(<<4>>), "under"), Set(Colon(<<4, 3>>), "under"), Unset(Semi(<<24>>), {"under"}), Set(Semi(<<31>>), "fg"),
         Set(Semi(<<38, 5, 1>>), "fg"), Set(Semi(<<38, 2, 0, 22, 1>>), "fg"), Set(Colon(<<38, 5, 0>>), "fg"), Unset(Semi(<<39>>), {"fg"}),
         Set(Semi(<<48, 5, 4>>), "bg"), Set(Semi(<<41>>), "bg"), Set(Semi(<<58, 5, 39>>), "ul"), Unset(Semi(<<59>>), {"ul"})}
FieldOf(head) == CASE head = 1 -> "bold" [] head = 2 -> "faint" [] head \in {4, 21} -> "under"
                   [] head \in (30 .. 37) \union (90 .. 97) \union {38} -> "fg"
                   [] head \in (40 .. 47) \union (100 .. 107) \union {48} -> "bg" [] head = 58 -> "ul" [] OTHER -> ""
ClearedBy(head) == CASE head = 0 -> Fields1 [] head = 22 -> {"bold", "faint"} [] head = 24 -> {"under"}
                     [] head = 39 -> {"fg"} [] head = 49 -> {"bg"} [] head = 59 -> {"ul"} [] OTHER -> {}
ApplyCodes(p, vs) == [f \in Fields1 |-> IF f = FieldOf(vs[1]) THEN vs ELSE IF f \in ClearedBy(vs[1]) THEN <<>> ELSE p[f]]
Values(codes) == [i \in DOMAIN codes |-> codes[i].v]
\* Parameters joined by ':' are one group.
Groups(codes) ==
    FoldLeft(LAMBDA gs, c : IF c.more THEN [gs EXCEPT ![Len(gs)] = Append(@, c.v)]
                            ELSE Append([gs EXCEPT ![Len(gs)] = Append(@, c.v)], <<>>), <<<<>>>>, codes)
Wanted1(mode) == IF mode = <<2>> THEN 3 ELSE IF mode = <<5>> THEN 1 ELSE 0
Follows(mode) == Wanted1(mode)
\* One group: left is how many groups the colour before it still takes, -1 for its mode.
Group(a, g) ==
    LET parts == a.parts \o g
        left == IF a.left = -1 THEN Follows(g) ELSE a.left - 1
    IN IF g = <<>> THEN a
       ELSE IF a.parts = <<>> THEN IF Len(g) = 1 /\ g[1] \in {38, 48, 58} THEN [a EXCEPT !.parts = g, !.left = -1]
                                   ELSE [a EXCEPT !.pen = ApplyCodes(@, g)]
       ELSE IF left = 0 THEN [pen |-> ApplyCodes(a.pen, parts), parts |-> <<>>, left |-> 0]
       ELSE [a EXCEPT !.parts = parts, !.left = left]
SetPen(p, codes) ==
    LET end == FoldLeft(Group, [pen |-> p, parts |-> <<>>, left |-> 0], Groups(codes))
    IN IF end.parts = <<>> THEN end.pen ELSE ApplyCodes(end.pen, end.parts)

-----------------------------------------------------------------------------
(* What a program does.                                                    *)

ScreenInit ==
    /\ scr = FreshScreen(FirstSize[1], FirstSize[2])
    /\ printed = 0 /\ onAlt = {} /\ screenSteps = 0
    /\ stream = [pieces |-> <<>>, scan |-> Scanner]
    /\ sgrPen = [asks |-> <<>>, pen |-> NoPen]

\* The grid, the scanner and the pen share no state: a behaviour is about one of them.
Drawing == stream.pieces = <<>> /\ sgrPen.asks = <<>>
Handles1(t) == /\ Drawing /\ screenSteps < MaxSequences /\ screenSteps' = screenSteps + 1 /\ scr' = t
               /\ UNCHANGED <<printed, onAlt, stream, sgrPen>>
Prints1 == \E wide \in BOOLEAN :
    /\ Drawing /\ printed < MaxPrinted /\ printed' = printed + 1
    /\ scr' = PrintChar(scr, printed + 1, wide)
    /\ onAlt' = onAlt \union (IF scr.altOn THEN {printed + 1} ELSE {})
    /\ UNCHANGED <<screenSteps, stream, sgrPen>>
\* A line feed, a carriage return, a backspace, a tab.
Executes ==
    \/ Handles1([LineFeed(scr) EXCEPT !.wrapNext = FALSE])
    \/ Handles1([scr EXCEPT !.x = 0, !.wrapNext = FALSE])
    \/ Handles1([scr EXCEPT !.x = Most(0, @ - 1), !.wrapNext = FALSE])
    \/ Handles1([scr EXCEPT !.x = Least(scr.w - 1, (@ \div 8 + 1) * 8), !.wrapNext = FALSE])
Escapes == Handles1(ReverseFeed(scr)) \/ Handles1(LineFeed(scr)) \/ Handles1(LineFeed([scr EXCEPT !.x = 0])) \/ Handles1(ResetScreen(scr))
\* CUU, CUD, CUF, CUB, CNL, CPL, CHA, VPA and CUP.
MovesCursor == \E n \in 1 .. scr.h :
    \/ Handles1([scr EXCEPT !.y = Most(scr.top, @ - n)])
    \/ Handles1([scr EXCEPT !.y = Least(scr.bot, @ + n)])
    \/ Handles1([scr EXCEPT !.x = Least(scr.w - 1, @ + n), !.wrapNext = FALSE])
    \/ Handles1([scr EXCEPT !.x = Most(0, @ - n), !.wrapNext = FALSE])
    \/ Handles1([scr EXCEPT !.y = Least(scr.bot, @ + n), !.x = 0])
    \/ Handles1([scr EXCEPT !.y = Most(scr.top, @ - n), !.x = 0])
    \/ Handles1([scr EXCEPT !.x = Clamped(n - 1, 0, scr.w - 1), !.wrapNext = FALSE])
    \/ Handles1([scr EXCEPT !.y = Clamped(n - 1, 0, scr.h - 1)])
    \/ \E m \in 1 .. scr.w : Handles1([scr EXCEPT !.y = Clamped(n - 1, 0, scr.h - 1), !.x = Clamped(m - 1, 0, scr.w - 1), !.wrapNext = FALSE])
Erases == \/ \E how \in 0 .. 3 : Handles1(EraseDisplay(scr, how))
          \/ \E how \in 0 .. 2 : Handles1(EraseInLine(scr, how))
          \/ \E n \in 1 .. 2 : Handles1(EraseLine(scr, scr.x, scr.x + n))
Shifts == \E n \in 1 .. 2 :
    \/ Handles1(InsertLines(scr, n)) \/ Handles1(DeleteLines(scr, n))
    \/ Handles1(InsertChars(scr, n)) \/ Handles1(DeleteChars(scr, n))
    \/ Handles1(ScrollUp(scr, n)) \/ Handles1(ScrollDown(scr, n))
Frames == \/ \E a \in 1 .. scr.h, b \in 1 .. scr.h : Handles1(SetRegion(scr, a, b))
          \/ Handles1(SaveCursor(scr)) \/ Handles1(RestoreCursor(scr))
          \/ \E on \in BOOLEAN : Handles1(SetAlt(scr, on))
\* The window changes its size.
Resizes == \E z \in Sizes : z # <<scr.w, scr.h>> /\ Handles1(ResizeTo(scr, z[1], z[2]))
ReadTitles ==
    /\ Drawing /\ screenSteps = 0 /\ printed = 0
    /\ \E pieces \in Streams :
         stream' = [pieces |-> pieces, scan |-> FilterTitles(FlattenSeq([i \in DOMAIN pieces |-> pieces[i].bytes]))]
    /\ UNCHANGED <<scr, printed, onAlt, screenSteps, sgrPen>>
SetsPen ==
    /\ Drawing /\ screenSteps = 0 /\ printed = 0
    /\ \E asks \in BoundedSeq(Asks, MaxCodes) :
         sgrPen' = [asks |-> asks, pen |-> SetPen(NoPen, FlattenSeq([i \in DOMAIN asks |-> asks[i].codes]))]
    /\ UNCHANGED <<scr, printed, onAlt, screenSteps, stream>>

ScreenNext == \/ Prints1 \/ Executes \/ Escapes \/ MovesCursor \/ Erases \/ Shifts \/ Frames \/ Resizes \/ ReadTitles \/ SetsPen
ScreenSpec == ScreenInit /\ [][ScreenNext]_screenVars

-----------------------------------------------------------------------------
(* Properties.                                                             *)

Cells == -MaxPrinted .. MaxPrinted
Grids == IF scr.alt = <<>> THEN {scr.grid} ELSE {scr.grid, scr.alt[1]}
\* Type: the grids have the size of the screen; the cursor, the one that is saved and the scroll region are within them.
ScreenTypeOK ==
    /\ \A g \in Grids : g \in [0 .. scr.h - 1 -> [0 .. scr.w - 1 -> Cells]]
    /\ scr.x \in 0 .. scr.w - 1 /\ scr.y \in 0 .. scr.h - 1
    /\ scr.save[1] \in 0 .. scr.w - 1 /\ scr.save[2] \in 0 .. scr.h - 1
    /\ scr.top < scr.bot \/ (scr.top = 0 /\ scr.bot = scr.h - 1)
    /\ scr.top >= 0 /\ scr.bot < scr.h
    /\ SbCap > 0 => Len(scr.scrollback) <= SbCap

\* A character that was printed is in one place at most, on the screen, behind the
\* alternate one or in the history: rows and cells that are moved (scrolling, inserting and
\* deleting lines and characters, resizing) are not left where they were as well.
PrintedOnce ==
    \A k \in 1 .. printed, mark \in {1, -1} :
        Cardinality({<<i, x>> \in (1 .. Len(scr.scrollback)) \X (0 .. 9) : x \in DOMAIN scr.scrollback[i] /\ scr.scrollback[i][x] = mark * k})
        + FoldSet(LAMBDA g, n : n + Cardinality({<<y, x>> \in (DOMAIN g) \X (0 .. scr.w - 1) : g[y][x] = mark * k}), 0, Grids) <= 1

\* The history holds nothing that was drawn on the alternate screen, nor does the main
\* screen that waits behind it: a program that takes the whole screen leaves what was there.
HistoryIsOfTheMain ==
    /\ \A i \in DOMAIN scr.scrollback, k \in onAlt : \A x \in DOMAIN scr.scrollback[i] : scr.scrollback[i][x] \notin {k, -k}
    /\ \A g \in (IF scr.altOn THEN {scr.alt[1]} ELSE {scr.grid}), k \in onAlt :
           \A y \in DOMAIN g : \A x \in DOMAIN g[y] : g[y][x] \notin {k, -k}

\* A line of the history keeps its number (those dropped before it and its place), whatever
\* happens but clearing the history: what points at lines by number points at the same ones.
LinesKeepTheirNumber ==
    [][\A n \in scr'.dropped + 1 .. scr.dropped + Len(scr.scrollback) :
           LET now == n - scr'.dropped
               was == n - scr.dropped
           IN was >= 1 => (now \in DOMAIN scr'.scrollback /\ scr'.scrollback[now] = scr.scrollback[was])
              \/ scr'.scrollback = <<>>]_screenVars

\* The scanner takes out the titles and nothing else, and the title is the last one given.
TitlesAreTakenOut ==
    LET titles == SelectSeq(stream.pieces, LAMBDA p : p.title # <<>>)
        rest == SelectSeq(stream.pieces, LAMBDA p : p.title = <<>>)
    IN /\ stream.scan.out = FlattenSeq([i \in DOMAIN rest |-> rest[i].bytes])
       /\ stream.scan.title = IF titles = <<>> THEN <<>> ELSE Last(titles).title

\* The pen is what the attributes asked for, one after the other: the numbers of a colour
\* are never taken for attributes, with ';' or with ':' between them.
PenIsAsked ==
    LET Meant(p, ask) == [f \in Fields1 |-> IF f = ask.field THEN Values(ask.codes) ELSE IF f \in ask.clears THEN <<>> ELSE p[f]]
    IN sgrPen.pen = FoldLeft(Meant, NoPen, sgrPen.asks)

\* What a program printed is on the screen or in the history once, the history is of the main screen and keeps its
\* numbers, titles are taken out, and the pen is what was asked for (screen.go:433, screen.go:887, screen.go:600).
TerminalIsTrue ==
    /\ [](ScreenTypeOK /\ PrintedOnce /\ HistoryIsOfTheMain /\ TitlesAreTakenOut /\ PenIsAsked)
    /\ LinesKeepTheirNumber
=============================================================================
