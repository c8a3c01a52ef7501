----------------------------- MODULE Clipboard -----------------------------
(***************************************************************************)
(* Rows that travel over the clipboard (tui/editor/clipboard.go, the paste *)
(* fan-out of editor.go, fuseSelectionToCode of code.go).  A copy is the   *)
(* text of the rows as they are drawn, rail and glyphs and all; a paste of *)
(* several lines reads the rail, or the leading spaces, back into a tree.  *)
(* A text is a sequence of cells: " ", the rail's BAR, TEE, END and RULE,  *)
(* the glyphs DOT, "1" and "fn" (which is a letter), NL, and letters; the  *)
(* anchor of the chip k is the cells "[", k, "]".                          *)
(***************************************************************************)
EXTENDS Integers, SequencesExt, FiniteSetsExt

CONSTANTS
    Boards,      \* documents the editor may open on
    Elsewhere0,  \* texts other programs may have put on the clipboard, as lines
    MaxClips     \* keys in a run

VARIABLES
    board, chipIds, clip,
    origin,      \* ghost: the rows the clipboard's text was made of
    landed,      \* ghost: what was pasted last, and where
    swallowed,   \* ghost: the block of a fused selection was deleted with another of its roots
    clipSteps
clipVars == <<board, chipIds, clip, origin, landed, swallowed, clipSteps>>

Nodes1 == DOMAIN board.name
Letters == {"a", "b", "c", "d", "e", "f", "g", "v", "x", "y", "p", "q", "r", "s"}
Spaces(n) == [i \in 1..n |-> " "]
Leading(line, cells) ==
    LET I == {i \in 0..Len(line) : \A k \in 1..i : line[k] \in cells} IN Max(I)
TrimRight(line) ==
    LET I == {i \in 0..Len(line) : \A k \in i + 1..Len(line) : line[k] = " "} IN SubSeq(line, 1, Min(I))
After(line, n) == SubSeq(line, n + 1, Len(line))

(***************************************************************************)
(* The document.                                                           *)
(***************************************************************************)
Resolved(it) == IF board.of[it] \in Nodes1 \ {0} THEN board.of[it] ELSE it
Shows1(it, own, without) == IF board.of[it] = 0 \/ board.of[it] \in Nodes1 THEN own[Resolved(it)] ELSE without
Children1(it) == Shows1(it, board.kids, <<>>)
Named(it) == Shows1(it, board.name, <<>>)
ParentOf(b, it) == CHOOSE p \in DOMAIN b.kids : it \in ToSet(b.kids[p])
Attached(b, it) == \E p \in DOMAIN b.kids : it \in ToSet(b.kids[p])
PlaceOf(b, it) == CHOOSE i \in DOMAIN b.kids[ParentOf(b, it)] : b.kids[ParentOf(b, it)][i] = it
RECURSIVE Under(_, _)
Under(b, it) == {it} \cup UNION {Under(b, k) : k \in ToSet(b.kids[it])}

\* What editTargetOf gives up on: types that are not typed into.
TypedInto(it) == board.typ[Resolved(it)] \notin {"empty", "code"}

Anchors(text) == {i \in DOMAIN text : text[i] = "["}
Expanded1(text) ==
    FlattenSeq([i \in DOMAIN text |->
        IF i \in Anchors(text) THEN <<"v">>
        ELSE IF {i - 1, i - 2} \cap Anchors(text) # {} THEN <<>> ELSE <<text[i]>>])

\* walkForest: rows in the order they are drawn; a path never meets an item twice.
RECURSIVE Walk(_, _, _, _)
Walk(items, depth, branch, seen) ==
    FlattenSeq([i \in DOMAIN items |->
        IF items[i] \in seen THEN <<>>
        ELSE LET here == seen \cup {items[i]}
                 kids == SelectSeq(Children1(items[i]), LAMBDA c : c \notin here)
             IN  <<[it |-> items[i], depth |-> depth, last |-> i = Len(items), branch |-> branch, kids |-> kids # <<>>]>>
                 \o Walk(kids, depth + 1, Append(branch, i < Len(items)), here)])
Forest(roots) == Walk(roots, 0, <<>>, {})
Listing(roots) == LET rows == Forest(roots) IN [i \in DOMAIN rows |-> <<rows[i].depth, Expanded1(Named(rows[i].it))>>]
TypesOf1(roots) == {board.typ[Resolved(r.it)] : r \in ToSet(Forest(roots))}

\* The rows on the screen, nothing folded, and the roots of a selection of them.
OnScreen == Forest(board.kids[0])
Roots1(rows, lo, hi) ==
    LET items == [i \in 1..hi - lo + 1 |-> rows[lo + i - 1].it]
    IN  SelectSeq(items, LAMBDA it : ParentOf(board, it) \notin ToSet(items))

(***************************************************************************)
(* Writing: the rail.                                                      *)
(***************************************************************************)
Connector(r) ==
    IF r.depth = 0 THEN <<>>
    ELSE FlattenSeq([i \in 1..r.depth - 1 |-> <<IF r.branch[i + 1] THEN "BAR" ELSE " ", " ", " ">>])
         \o <<IF r.last THEN "END" ELSE "TEE", "RULE", " ">>
Continued(r) ==
    [c \in 1..3 + 3 * r.depth |->
        IF \/ \E i \in 1..r.depth - 1 : r.branch[i + 1] /\ c = 2 + 3 * (i - 1)
           \/ r.depth > 0 /\ ~r.last /\ c = 2 + 3 * (r.depth - 1)
           \/ r.kids /\ c = 2 + 3 * r.depth
        THEN "BAR" ELSE " "]
Rule1(name) ==
    LET dashes(n) == [i \in 1..n |-> "RULE"]
    IN  IF name = <<>> THEN dashes(12) ELSE dashes(4) \o <<" ">> \o name \o <<" ">> \o dashes(4)
Glyph1(typ) == IF typ = "h1" THEN "1" ELSE IF typ = "fn" THEN "fn" ELSE "DOT"
RECURSIVE SplitLines(_)
SplitLines(text) ==
    IF "NL" \notin ToSet(text) THEN <<text>>
    ELSE LET i == Min({k \in DOMAIN text : text[k] = "NL"}) IN <<SubSeq(text, 1, i - 1)>> \o SplitLines(After(text, i))
DrawnRow(r) ==
    LET rail == <<" ">> \o Connector(r)
        name == Expanded1(Named(r.it))
        typ  == board.typ[Resolved(r.it)]
        said == SplitLines(name)
    IN  IF typ = "empty" THEN <<TrimRight(rail)>>
        ELSE IF typ = "divider" THEN <<rail \o Rule1(name)>>
        ELSE [i \in DOMAIN said |-> IF i = 1 THEN rail \o <<Glyph1(typ), " ">> \o said[1] ELSE Continued(r) \o said[i]]
Railed(roots) == LET rows == Forest(roots) IN FlattenSeq([i \in DOMAIN rows |-> DrawnRow(rows[i])])
\* nodesAsText: two spaces per level.
Indented1(roots) ==
    LET rows == Forest(roots)
    IN  FlattenSeq([i \in DOMAIN rows |-> SplitLines(Spaces(2 * rows[i].depth) \o Expanded1(Named(rows[i].it)))])
LineEndsTrimmed(body) == SubSeq(body, 1, Max({0} \cup {i \in DOMAIN body : body[i] # <<>>}))

(***************************************************************************)
(* Reading: the rail, or leading spaces.                                   *)
(***************************************************************************)
IsGlyph(cell) == cell \notin Letters \cup {"fn", "-"}
Ascii(cell) == cell \in Letters \cup {"1", "-", " "}
ReadRail(line) ==
    LET i0    == Leading(line, {" ", "BAR"})
        elbow == i0 + 2 < Len(line) /\ line[i0 + 1] \in {"TEE", "END"} /\ line[i0 + 2] = "RULE" /\ line[i0 + 3] = " "
        i     == IF elbow THEN i0 + 3 ELSE i0
    IN  IF i0 = 0 THEN [rail |-> FALSE, sure |-> FALSE, indent |-> 0, text |-> <<>>]
        ELSE IF i >= Len(line) THEN [rail |-> TRUE, sure |-> elbow, indent |-> i, text |-> <<>>]
        ELSE IF i + 1 < Len(line) /\ line[i + 2] = " " /\ IsGlyph(line[i + 1])
             THEN [rail |-> TRUE, sure |-> elbow \/ ~Ascii(line[i + 1]), indent |-> i, text |-> After(line, i + 2)]
        ELSE [rail |-> elbow, sure |-> elbow, indent |-> i, text |-> After(line, i)]
BlankLine(line) == \A i \in DOMAIN line : line[i] = " "
IsRailBlock(lines) ==
    /\ \A i \in DOMAIN lines : BlankLine(lines[i]) \/ ReadRail(lines[i]).rail
    /\ \E i \in DOMAIN lines : ~BlankLine(lines[i]) /\ ReadRail(lines[i]).sure
ReadLines(lines) ==
    IF IsRailBlock(lines)
    THEN [i \in DOMAIN lines |-> IF BlankLine(lines[i]) THEN [indent |-> 0, text |-> <<>>]
                                 ELSE [indent |-> ReadRail(lines[i]).indent, text |-> ReadRail(lines[i]).text]]
    ELSE [i \in DOMAIN lines |-> LET n == Leading(lines[i], {" "}) IN [indent |-> n, text |-> After(lines[i], n)]]
\* pasteLines: a run of line ends is one, the last ones are none; only the first line may be empty.
PasteLines(lines) ==
    LET kept == SelectSeq(lines, LAMBDA l : l # <<>>)
    IN  IF lines # <<>> /\ kept # <<>> /\ lines[1] = <<>> THEN <<<<>>>> \o kept ELSE kept

(***************************************************************************)
(* The fan-out: a stack of the rows a deeper line may go under.            *)
(***************************************************************************)
SlotLocked(b, it) == it \in b.locked \/ ParentOf(b, it) \in b.locked
TakesChildren(b, it) == it \notin b.locked /\ ToSet(b.kids[it]) \cap b.locked = {}
Fresh1(b) == Max(DOMAIN b.name \cup {b.of[n] : n \in DOMAIN b.of}) + 1
NewRow1(b, parent, at, text) ==
    LET n == Fresh1(b)
    IN  [b EXCEPT !.kids = [@ EXCEPT ![parent] = InsertAt(@, at, n)] @@ (n :> <<>>),
                  !.name = @ @@ (n :> text), !.typ = @ @@ (n :> "plain"), !.of = @ @@ (n :> 0)]
Unwound(stack, indent) ==
    SubSeq(stack, 1, Max({1} \cup {i \in DOMAIN stack : stack[i].indent <= indent}))
PutLine(s, l) ==
    IF s.refused \/ l.text = <<>> THEN s
    ELSE LET stack == Unwound(s.stack, l.indent)
             top   == stack[Len(stack)]
             n     == Fresh1(s.b)
         IN  IF l.indent > top.indent
             THEN IF ~TakesChildren(s.b, top.it) THEN [s EXCEPT !.refused = TRUE]
                  ELSE [s EXCEPT !.b = NewRow1(s.b, top.it, 1, l.text), !.stack = Append(stack, [indent |-> l.indent, it |-> n])]
             ELSE IF SlotLocked(s.b, top.it) THEN [s EXCEPT !.refused = TRUE]
                  ELSE [s EXCEPT !.b = NewRow1(s.b, ParentOf(s.b, top.it), PlaceOf(s.b, top.it) + 1, l.text),
                                 !.stack = [stack EXCEPT ![Len(stack)].it = n]]
FanOut(b, cur, at, lines) ==
    LET parsed == ReadLines(lines)
        first  == [b EXCEPT !.name[cur] = SubSeq(@, 1, at) \o parsed[1].text \o After(@, at)]
    IN  FoldLeft(PutLine, [b |-> first, stack |-> <<[indent |-> 0, it |-> cur]>>, refused |-> FALSE], Tail(parsed))

(***************************************************************************)
(* Cutting.                                                                *)
(***************************************************************************)
WithoutBranch(b, it) ==
    IF it \in b.locked \/ ~Attached(b, it) THEN b
    ELSE LET gone == Under(b, it)
             cut  == [b EXCEPT !.kids[ParentOf(b, it)] = Remove(@, it)]
             kept == DOMAIN b.name \ gone
         IN  [b EXCEPT !.kids = [n \in kept |-> cut.kids[n]], !.name = [n \in kept |-> b.name[n]],
                       !.typ = [n \in kept |-> b.typ[n]], !.of = [n \in kept |-> b.of[n]]]
WithoutAll(b, items) == FoldRight(LAMBDA it, c : IF it \in DOMAIN c.name THEN WithoutBranch(c, it) ELSE c, items, b)

AsSelected(text, lo, hi) == [lo |-> lo, hi |-> hi]
\* A run widened over the chips it ends inside.
Widened(text, lo, hi) ==
    LET inside(i, p) == i - 1 < p /\ p < i + 2
        los == {i - 1 : i \in {i \in Anchors(text) : inside(i, lo)}} \cup {lo}
        his == {i + 2 : i \in {i \in Anchors(text) : inside(i, hi)}} \cup {hi}
    IN  [lo |-> Min(los), hi |-> Max(his)]

-----------------------------------------------------------------------------
NowhereYet == [kind |-> "none"]
Nothing1 == [rows |-> <<>>, types |-> {}]
ClipInit ==
    /\ board \in Boards
    /\ chipIds = {board.name[n][i + 1] : <<n, i>> \in {p \in Nodes1 \X (1..9) : p[2] \in Anchors(board.name[p[1]])}}
    /\ clip \in Elsewhere0 /\ origin = Nothing1 /\ landed = NowhereYet /\ swallowed = FALSE /\ clipSteps = 0

Begins1 == clipSteps' = clipSteps + 1

MayTakeAway(cut, written) == cut /\ written

\* copyCutRoots: the rows are written first; only then are they taken away.
TakeRows(roots, cut, written) ==
    /\ Begins1
    /\ clip' = IF written THEN Railed(roots) ELSE clip
    /\ origin' = IF written THEN [rows |-> Listing(roots), types |-> TypesOf1(roots)] ELSE origin
    /\ board' = IF MayTakeAway(cut, written) THEN WithoutAll(board, roots) ELSE board
    /\ landed' = [kind |-> "cut"]
    /\ UNCHANGED <<chipIds, swallowed>>
CopyCut ==
    \E cut, written \in BOOLEAN, rows \in {OnScreen} : \E lo \in DOMAIN rows : \E hi \in lo..Len(rows) :
        TakeRows(Roots1(rows, lo, hi), cut, written)

\* copyCutRun: the selected part of a row's text.
CutText ==
    \E rows \in {OnScreen} : \E r \in DOMAIN rows : \E from \in 0..2, to \in 1..4 :
        LET it   == Resolved(rows[r].it)
            text == board.name[it]
            run  == Widened(text, from, to)
            gone == {text[i + 1] : i \in {i \in Anchors(text) : run.lo < i /\ i + 2 <= run.hi}}
        IN  /\ from < to /\ to <= Len(text)
            /\ Begins1
            /\ clip' = <<Expanded1(SubSeq(text, run.lo + 1, run.hi))>>
            /\ origin' = Nothing1
            /\ landed' = [kind |-> "cut"]
            /\ IF TypedInto(it)
               THEN /\ board' = [board EXCEPT !.name[it] = SubSeq(text, 1, run.lo) \o After(text, run.hi)]
                    /\ chipIds' = chipIds \ gone
               ELSE UNCHANGED <<board, chipIds>>
            /\ UNCHANGED swallowed

\* handleKey's paste: one line is typed in as it is, several are spread over new rows.
Paste ==
    \E rows \in {OnScreen} : \E r \in DOMAIN rows : \E end \in BOOLEAN :
        LET it == Resolved(rows[r].it)
            at == IF end THEN Len(board.name[it]) ELSE 0
            ls == PasteLines(clip)
            fresh == board.name[it] = <<>> /\ board.kids[it] = <<>> /\ board.of[it] = 0
        IN  /\ TypedInto(rows[r].it) /\ ls # <<>>
            /\ end \/ board.name[it] # <<>>
            /\ Begins1
            /\ IF Len(ls) = 1
               THEN /\ board' = [board EXCEPT !.name[it] = SubSeq(@, 1, at) \o ls[1] \o After(@, at)]
                    /\ landed' = [kind |-> "typed"]
               ELSE \E s \in {FanOut(board, it, at, ls)} :
                    /\ board' = s.b
                    /\ landed' = [kind |-> "paste", row |-> it, from |-> origin, text |-> ls, clean |-> fresh /\ ~s.refused,
                                  refused |-> s.refused, new |-> DOMAIN s.b.name \ Nodes1]
            /\ UNCHANGED <<chipIds, clip, origin, swallowed>>

\* fuseSelectionToCode: the first row becomes a block that says what the rows said.
Fuse ==
    \E rows \in {OnScreen} : \E lo \in DOMAIN rows : \E hi \in lo + 1..Len(rows) :
        \E roots \in {Roots1(rows, lo, hi)} :
            LET head  == roots[1]
                body  == LineEndsTrimmed(Indented1(roots))
                rest  == WithoutAll(board, Tail(roots))
                alone == IF head \in DOMAIN rest.name THEN WithoutAll(rest, rest.kids[head]) ELSE rest
                said  == FlattenSeq([i \in DOMAIN body |-> IF i = 1 THEN body[1] ELSE <<"NL">> \o body[i]])
            IN  /\ roots # <<>> /\ Resolved(head) = head /\ TypedInto(head)
                /\ Begins1
                /\ board' = IF head \in DOMAIN alone.name
                            THEN [alone EXCEPT !.typ[head] = "code", !.name[head] = said] ELSE alone
                /\ swallowed' = (swallowed \/ head \notin DOMAIN alone.name)
                /\ landed' = [kind |-> "fuse"]
                /\ UNCHANGED <<chipIds, clip, origin>>

ClipNext == clipSteps < MaxClips /\ (CopyCut \/ CutText \/ Paste \/ Fuse)
ClipSpec == ClipInit /\ [][ClipNext]_clipVars

-----------------------------------------------------------------------------
(* Properties.                                                             *)

\* Every row hangs in one place, the parts of a row are those of the same rows.
ClipTypeOK ==
    /\ DOMAIN board.kids = Nodes1 /\ DOMAIN board.typ = Nodes1 /\ DOMAIN board.of = Nodes1
    /\ \A n \in Nodes1 \ {0} : Cardinality({p \in Nodes1 : n \in ToSet(board.kids[p])}) = 1
    /\ \A p \in Nodes1 : ToSet(board.kids[p]) \subseteq Nodes1 /\ IsInjective(board.kids[p])
    /\ Under(board, 0) = Nodes1
    /\ landed.kind \in {"none", "cut", "typed", "paste", "fuse"} /\ clipSteps \in 0..MaxClips

\* A branch that was copied and is pasted into an empty row is the same branch (clipboard.go:33), as
\* long as every row says something and none of them is a function, a block, a rule or a spacer.
CopyComesBack ==
    /\ landed.kind = "paste" /\ landed.clean /\ landed.from # Nothing1
    /\ landed.from.types \subseteq {"plain", "h1"}
    /\ \A i \in DOMAIN landed.from.rows : ~BlankLine(landed.from.rows[i][2]) /\ (i > 1 => landed.from.rows[i][1] > 0)
    => Listing(<<landed.row>>) = landed.from.rows

\* Lines that step in by two spaces become rows that, fused into a block, say those lines again (code.go:426).
Stepped(lines) ==
    /\ ~IsRailBlock(lines)
    /\ \A i \in DOMAIN lines : LET n == Leading(lines[i], {" "})
                               IN  n % 2 = 0 /\ n < Len(lines[i])
                                   /\ n <= (IF i = 1 THEN 0 ELSE Leading(lines[i - 1], {" "}) + 2)
FuseUndoesThePaste ==
    landed.kind = "paste" /\ landed.clean /\ Stepped(landed.text) =>
        LET kids == board.kids[ParentOf(board, landed.row)]
        IN  Indented1(SelectSeq(kids, LAMBDA k : k \in landed.new \cup {landed.row})) = landed.text

\* A chip's anchor in a row is whole and has its record, whatever part of the text was cut.
ChipsAreWhole ==
    \A n \in Nodes1 : \A i \in DOMAIN board.name[n] :
        /\ board.name[n][i] = "[" => i + 2 <= Len(board.name[n]) /\ board.name[n][i + 1] \in chipIds /\ board.name[n][i + 2] = "]"
        /\ board.name[n][i] = "]" => i > 2 /\ board.name[n][i - 2] = "["

\* No text goes: what a cut takes is on the clipboard, what is pasted lands in rows, what is fused is in the block.
LettersIn(text) == ToSet(text) \cap Letters
SaidIn(b) == UNION {LettersIn(Expanded1(b.name[n])) : n \in DOMAIN b.name}
SaidOn(lines) == UNION {LettersIn(lines[i]) : i \in DOMAIN lines}
TextIsKept ==
    [][/\ landed'.kind = "cut" => SaidIn(board) \subseteq SaidIn(board') \cup SaidOn(clip')
       /\ landed'.kind = "paste" /\ ~landed'.refused => SaidIn(board) \cup SaidOn(clip) \subseteq SaidIn(board')
       /\ landed'.kind = "fuse" /\ ~swallowed' => SaidIn(board) \subseteq SaidIn(board')]_clipVars

\* A copied branch that is pasted reads as the branch, fusing rows into code undoes the paste of code, no chip is cut,
\* and no other text changes (clipboard.go:146, editor.go:1663, editor.go:1480).
CopiesComeBack ==
    /\ [](ClipTypeOK /\ CopyComesBack /\ FuseUndoesThePaste /\ ChipsAreWhole)
    /\ TextIsKept
=============================================================================
