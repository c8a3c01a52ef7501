------------------------------- MODULE Flash -------------------------------
(***************************************************************************)
(* Flash, the jump by typing (flash.go): a search over the rows on screen  *)
(* whose matches each get a label of one or two letters.  A key that still *)
(* matches extends the search, another one is read as a label; enter takes *)
(* the nearest match.  A name is a sequence of letters and chips, a chip   *)
(* shows a text of its own and is one anchor in the name.  Letters have no *)
(* case, and what a row draws beside its name is left out.                 *)
(***************************************************************************)
EXTENDS Integers, SequencesExt, FiniteSetsExt

CONSTANTS
    Alphabet,      \* flashAlphabet: the letters of labels, the strongest first
    ChipText,      \* what each chip shows
    Screens,       \* the rows that may be on screen: sequences of names
    MaxFlashKeys   \* keys, and changes of the rows, in a run

VARIABLES
    onScreen0,     \* the names of m.rows
    here,          \* cursor and caret
    flash,         \* open, query, input, targets
    jumped,        \* ghost: the jump just made, and what could have been jumped to
    stale,         \* ghost: the rows have changed since the matches were looked for
    flashSteps
flashVars == <<onScreen0, here, flash, jumped, stale, flashSteps>>

(* Names *)
AnchorRunes == 3   \* an anchor's runes: two sentinels around an id
IsChip(x) == x \in DOMAIN ChipText
Says(x) == IF IsChip(x) THEN ChipText[x] ELSE <<x>>
FlashText(name) == FlattenSeq([i \in DOMAIN name |-> Says(name[i])])
\* Where the i-th token of a name begins, in the name and on screen.
RawStart(name, i) == FoldLeft(LAMBDA at, x : at + (IF IsChip(x) THEN AnchorRunes ELSE 1), 0, SubSeq(name, 1, i - 1))
SeenStart(name, i) == Len(FlashText(SubSeq(name, 1, i - 1)))
SeenEnd(name, i) == SeenStart(name, i + 1)

VisibleIsRaw(name, vis) == vis

VisibleToNameOffset(name, vis) ==
    LET reached == {i \in DOMAIN name : IF IsChip(name[i]) THEN vis < SeenEnd(name, i) ELSE vis = SeenStart(name, i)}
    IN RawStart(name, IF reached = {} THEN Len(name) + 1 ELSE Min(reached))
(* Matches *)
HasAt(text, query, at) == SubSeq(text, at + 1, at + Len(query)) = query
PastEnd(at, query) == at + Len(query)
FlashFind(text, query) ==
    IF query = <<>> THEN <<>>
    ELSE FoldLeft(LAMBDA hits, i : IF HasAt(text, query, i - 1) /\ (hits = <<>> \/ PastEnd(Last(hits), query) <= i - 1)
                                   THEN Append(hits, i - 1) ELSE hits,
                  <<>>, [i \in 1..(Len(text) - Len(query) + 1) |-> i])
Target(row, start, label) == [row |-> row, start |-> start, label |-> label]
Collect(rows, query) ==
    FlattenSeq([r \in DOMAIN rows |-> LET hits == FlashFind(FlashText(rows[r]), query)
                                      IN [h \in DOMAIN hits |-> Target(r, hits[h], <<>>)]])
Found0(rows, query) == Collect(rows, query) # <<>>

(* Labels *)
Abs0(x) == IF x < 0 THEN -x ELSE x
Singles(n, k) == (k * k - n) \div (k - 1)
ClampTo(x, k) == IF x < 0 THEN 0 ELSE IF x > k THEN k ELSE x
FlashLabels(n, pool) ==
    LET k == Len(pool)
        s == ClampTo(Singles(n, k), k)
        pairs == [i \in 1..((k - s) * k) |-> <<pool[s + 1 + ((i - 1) \div k)], pool[1 + ((i - 1) % k)]>>]
    IN IF n <= k THEN [i \in 1..n |-> <<pool[i]>>]
       ELSE SubSeq([i \in 1..s |-> <<pool[i]>>] \o pairs, 1, Min({n, s + Len(pairs)}))

NextLetters(rows, ts, query) ==
    {FlashText(rows[ts[i].row])[PastEnd(ts[i].start, query) + 1] :
        i \in {j \in DOMAIN ts : PastEnd(ts[j].start, query) < Len(FlashText(rows[ts[j].row]))}}
FreeLetters(rows, ts, query) == SelectSeq(Alphabet, LAMBDA c : c \notin NextLetters(rows, ts, query))
Pool(rows, ts, query) == IF Len(FreeLetters(rows, ts, query)) < 2 THEN Alphabet ELSE FreeLetters(rows, ts, query)

Nearer(a0, b0, cursor) == Abs0(a0.row - cursor) < Abs0(b0.row - cursor)
LabelRank(ts, i, cursor) ==
    1 + Cardinality({j \in DOMAIN ts : Nearer(ts[j], ts[i], cursor) \/ (j < i /\ ~Nearer(ts[i], ts[j], cursor))})
Rebuilt(rows, query, cursor) ==
    LET ts == Collect(rows, query)
        labels == FlashLabels(Len(ts), Pool(rows, ts, query))
    IN [i \in DOMAIN ts |-> LET rank == LabelRank(ts, i, cursor)
                            IN Target(ts[i].row, ts[i].start, IF rank \in DOMAIN labels THEN labels[rank] ELSE <<>>)]

(* Keys *)
Shut == [open |-> FALSE, query |-> <<>>, input |-> <<>>, targets |-> <<>>]
NoJump == [made |-> FALSE]
FlashInit ==
    /\ onScreen0 \in Screens
    /\ here \in [row : 1..Max({1, Len(onScreen0)}), at : {0}]
    /\ flash = Shut
    /\ jumped = NoJump
    /\ stale = FALSE
    /\ flashSteps = 0

Keyed == flashSteps < MaxFlashKeys /\ flashSteps' = flashSteps + 1
Flashing == flash.open /\ Keyed
EnterFlash ==
    /\ ~flash.open
    /\ onScreen0 # <<>>
    /\ Keyed
    /\ flash' = [Shut EXCEPT !.open = TRUE]
    /\ jumped' = NoJump
    /\ stale' = FALSE
    /\ UNCHANGED <<onScreen0, here>>
ExitFlash ==
    /\ Flashing
    /\ flash' = Shut
    /\ UNCHANGED <<onScreen0, here, jumped, stale>>

\* The caret is held inside the name (clampCaret).
Landed(t) == Min({VisibleToNameOffset(onScreen0[t.row], t.start), RawStart(onScreen0[t.row], Len(onScreen0[t.row]) + 1)})
FireFlash(t, by) ==
    /\ flash' = Shut
    /\ here' = IF t.row \in DOMAIN onScreen0 THEN [row |-> t.row, at |-> Landed(t)] ELSE here
    /\ jumped' = [made |-> TRUE, by |-> by, to |-> t, query |-> flash.query, from |-> here.row, among |-> flash.targets, input |-> flash.input]
    /\ UNCHANGED <<onScreen0, stale>>
Searches(query) ==
    /\ flash' = [flash EXCEPT !.query = query, !.input = <<>>, !.targets = Rebuilt(onScreen0, query, here.row)]
    /\ stale' = FALSE
    /\ UNCHANGED <<onScreen0, here, jumped>>
TakesInput(input) ==
    /\ flash' = [flash EXCEPT !.input = input]
    /\ UNCHANGED <<onScreen0, here, jumped, stale>>

ReachableBy(t, input) == t.label # <<>> /\ IsPrefix(input, t.label)
NearestFlash ==
    LET reachable == SelectSeq(flash.targets, LAMBDA t : ReachableBy(t, flash.input))
        first == {i \in DOMAIN reachable : \A j \in DOMAIN reachable : ~Nearer(reachable[j], reachable[i], here.row)
                                              /\ (j < i => Nearer(reachable[i], reachable[j], here.row))}
    IN {reachable[i] : i \in first}
EnterKey ==
    /\ Flashing
    /\ \E t \in NearestFlash : FireFlash(t, "enter")
Untype ==
    /\ Flashing
    /\ IF flash.input # <<>> THEN TakesInput(Front(flash.input))
       ELSE flash.query # <<>> /\ Searches(Front(flash.query))

Seen0 == UNION {ToSet(FlashText(onScreen0[r])) : r \in DOMAIN onScreen0}
Extends(ch) == Found0(onScreen0, Append(flash.query, ch))
BeginsALabel(cand) == \E i \in DOMAIN flash.targets : IsPrefix(cand, flash.targets[i].label)
TypeLetter(ch) ==
    /\ Flashing
    /\ LET cand == Append(flash.input, ch)
           chosen == {i \in DOMAIN flash.targets : flash.targets[i].label = cand}
       IN IF Extends(ch) THEN Searches(Append(flash.query, ch))
          ELSE IF chosen # {} THEN FireFlash(flash.targets[Min(chosen)], "label")
          ELSE /\ BeginsALabel(cand)
               /\ TakesInput(cand)

\* A query's results or an answer from a source arrive while flash is open: the rows are laid anew, the matches are not.
RowsChange ==
    /\ Flashing
    /\ \E rows \in Screens :
        /\ rows # onScreen0
        /\ onScreen0' = rows
        /\ here' = [here EXCEPT !.row = IF @ > Len(rows) THEN Max({1, Len(rows)}) ELSE @]
    /\ stale' = TRUE
    /\ UNCHANGED <<flash, jumped>>

FlashNext ==
    \/ EnterFlash
    \/ ExitFlash
    \/ EnterKey
    \/ Untype
    \/ \E ch \in ToSet(Alphabet) \cup Seen0 : TypeLetter(ch)
    \/ RowsChange

(* What is drawn of a row *)
LabelTail(t, input) == IF ReachableBy(t, input) THEN SubSeq(t.label, Len(input) + 1, Len(t.label)) ELSE <<>>
LabelPlace(t, len, query, size) ==
    IF PastEnd(t.start, query) + size <= len THEN PastEnd(t.start, query) ELSE Max({0, PastEnd(t.start, query) - size})
\* The marks of a row, painted one over the other from the left.
MarksOf(row) ==
    SelectSeq(flash.targets, LAMBDA t : /\ t.row = row
                                        /\ PastEnd(t.start, flash.query) <= Len(FlashText(onScreen0[row]))
                                        /\ t.label = <<>> \/ IsPrefix(flash.input, t.label))
Overlaid(cells, t, len) ==
    LET tail == LabelTail(t, flash.input)
        at == LabelPlace(t, len, flash.query, Len(tail))
        hit == (t.start + 1)..PastEnd(t.start, flash.query)
    IN [i \in 1..len |-> IF i - at \in DOMAIN tail THEN [rune |-> tail[i - at], kind |-> "label"]
                         ELSE IF i \in hit THEN [cells[i] EXCEPT !.kind = "hit"] ELSE cells[i]]
Painted(row) ==
    LET text == FlashText(onScreen0[row])
    IN FoldLeft(LAMBDA cells, t : Overlaid(cells, t, Len(text)), [i \in DOMAIN text |-> [rune |-> text[i], kind |-> "dim"]], MarksOf(row))

(* What should hold *)
Targets0 == ToSet(flash.targets)
\* Type: the cursor is on a row, flash holds nothing while it is closed, and a match labelled or not is on a row of its screen.
FlashTypeOK ==
    /\ onScreen0 \in Screens
    /\ here.row \in 1..Max({1, Len(onScreen0)}) /\ here.at \in Nat
    /\ ~flash.open => flash = Shut
    /\ Len(flash.input) <= 1
    /\ stale \/ \A t \in Targets0 : t.row \in DOMAIN onScreen0 /\ PastEnd(t.start, flash.query) <= Len(FlashText(onScreen0[t.row]))

\* flash.go:38-40: labels are prefix-free, so a label that is typed means one match; none is left without one while
\* the letters allow as many.
LabelsTellApart ==
    /\ \A i, j \in DOMAIN flash.targets :
        i # j /\ flash.targets[i].label # <<>> => ~IsPrefix(flash.targets[i].label, flash.targets[j].label)
    /\ stale \/ LET k == Len(Pool(onScreen0, flash.targets, flash.query))
                IN Cardinality({i \in DOMAIN flash.targets : flash.targets[i].label # <<>>}) >= Min({Len(flash.targets), k * k})

\* flash.go:21-22: typing the rest of a word never collides with a label: no letter of a label extends the search, so every
\* labelled match can be jumped to.  Not so when fewer than two letters are left, nor when matches overlap, of which
\* only some are taken.
Crowded == Len(FreeLetters(onScreen0, flash.targets, flash.query)) < 2
Overlapping ==
    \E r \in DOMAIN onScreen0 : LET text == FlashText(onScreen0[r]) IN
        \E at \in 0..(Len(text) - Len(flash.query)) :
            HasAt(text, flash.query, at) /\ at \notin ToSet(FlashFind(text, flash.query))
LabelsAreNotWords ==
    stale \/ ~flash.open \/ flash.query = <<>> \/ Crowded \/ Overlapping
    \/ \A t \in Targets0 : \A i \in DOMAIN t.label : ~Found0(onScreen0, Append(flash.query, t.label[i]))

\* A jump leaves the cursor on the match: the caret is before the letter the match begins with, or before the
\* chip it begins in, never inside the chip's anchor (visibleToNameOffset).
JumpLandsOnTheMatch ==
    jumped.made /\ ~stale /\ here.row \in DOMAIN onScreen0 =>
        LET name == onScreen0[here.row] IN
        /\ HasAt(FlashText(name), jumped.query, jumped.to.start)
        /\ \E i \in DOMAIN name : /\ here.at = RawStart(name, i)
                                  /\ jumped.to.start \in SeenStart(name, i)..(SeenEnd(name, i) - 1)

\* flash.go:16: enter jumps to the nearest remaining match: before a letter of a label is typed, to a match no other is nearer
\* than, those that got no label included.
EnterIsNearest ==
    jumped.made /\ jumped.by = "enter" /\ jumped.input = <<>> /\ ~stale =>
        \A i \in DOMAIN jumped.among : ~Nearer(jumped.among[i], jumped.to, jumped.from)

\* flashStyleVisible: a row keeps its letters but for those a label covers, and the label of a match that can be jumped to
\* is read in one piece on its row.  Not so when the next match begins where the label would stand, or the row is
\* shorter than the label.
Alone(t, size) == \A u \in Targets0 \ {t} : u.row = t.row => Abs0(u.start - t.start) >= 2 * size + Len(flash.query)
LabelIsSeen ==
    \A r \in DOMAIN onScreen0 : LET cells == Painted(r) text == FlashText(onScreen0[r]) IN
        /\ Len(cells) = Len(text)
        /\ \A i \in DOMAIN cells : cells[i].kind = "dim" => cells[i].rune = text[i]
        /\ \A t \in ToSet(MarksOf(r)) :
            LET tail == LabelTail(t, flash.input) IN
            tail # <<>> /\ Alone(t, Len(tail)) /\ Len(text) >= Len(tail) =>
                \E at \in 0..(Len(text) - Len(tail)) :
                    \A i \in DOMAIN tail : cells[at + i] = [rune |-> tail[i], kind |-> "label"]

\* A label names one match, is no letter the search could go on with, is seen, and leads to the match it stands at; enter
\* leads to the nearest (flash.go:272, flash.go:222, flash.go:52).
FlashLandsWhereItSays ==
    /\ FlashTypeOK
    /\ LabelsTellApart
    /\ LabelsAreNotWords
    /\ JumpLandsOnTheMatch
    /\ EnterIsNearest
    /\ LabelIsSeen
=============================================================================
