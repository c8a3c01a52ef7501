-------------------------------- MODULE Typing --------------------------------
(***************************************************************************)
(* Editing one row (tui/editor/keys.go handleKey from the word keys on,    *)
(* handleNoteKey of editor.go, textsel.go, spans.go, textfield.go,         *)
(* noterich.go, copyCutRun of clipboard.go).                               *)
(*                                                                         *)
(* A text is a sequence of runes in which a chip stands as an anchor: a    *)
(* sentinel, an id, a sentinel.  Beside it lie the styled runs, as         *)
(* intervals of rune positions that every edit has to shift, and the       *)
(* selection, as positions too.  The name and the note of the row are      *)
(* edited by different code.                                               *)
(***************************************************************************)
EXTENDS Integers, SequencesExt, FiniteSetsExt

CONSTANTS
    FirstNames,     \* the names the row may start with: sequences of kinds
    FirstNotes,     \* its notes
    FirstRuns,      \* the styled runs its name has
    Attributes,     \* what the style picker toggles
    MaxRunes,       \* bound: runes in a text
    MaxTypingSteps  \* bound: keys

ASSUME TypingAssumption == MaxRunes \in Nat /\ MaxTypingSteps \in Nat

\* "w" stands for any rune of a word, "#" opens a tag, "$" is typed twice for a chip,
\* "S" is the sentinel and "id" what is between two of them.

VARIABLES
    doc,        \* text, spans: by surface; caret; known: the chips with a record;
                \*   paint: ghost, the style each rune was given; newRune;
                \*   loose: ghost, surfaces where an edit left the spans behind;
                \*   torn: ghost, surfaces where an anchor may be cut in two
    inNote,     \* the note is open
    textSel,    \* on, anchor; owner: the surface of the published bounds, or ""; lo, hi
    slid,       \* ghost: the text under the selection changed
    typingSteps

typingVars == <<doc, inNote, textSel, slid, typingSteps>>

Surface == IF inNote THEN "note" ELSE "name"
Text    == doc.text[Surface]
Kind1(t, i) == t[i + 1].k

-----------------------------------------------------------------------------
(* Anchors and words: pure functions of a text, positions count from 0.    *)

\* AnchorSpans: sentinels pair up in their order.
AnchorsOf(t) ==
    LET s == SelectSeq([i \in 1..Len(t) |-> i], LAMBDA i : t[i].k = "S")
    IN  {[start |-> s[2 * k - 1] - 1, end |-> s[2 * k], chip |-> t[s[2 * k - 1]].c] : k \in 1..(Len(s) \div 2)}

\* spanContaining, and what every caret move does with it.
Inside1(t, i) == \E s \in AnchorsOf(t) : s.start < i /\ i < s.end
Snapped(t, i, edge) ==
    LET in == {s \in AnchorsOf(t) : s.start < i /\ i < s.end}
    IN  IF in = {} THEN i ELSE (CHOOSE s \in in : TRUE)[edge]

FirstFrom(t, i, ok(_)) == Min({j \in i..Len(t) : j = Len(t) \/ ok(Kind1(t, j))})
LastDownTo(t, i, ok(_)) == Max({j \in 0..i : j = 0 \/ ok(Kind1(t, j - 1))})
IsSpace(k)  == k = " "
NoSpace(k)  == k # " "

\* nextWordBoundary, prevWordBoundary, deleteWordBoundary, wordEndAfter.
NextWord(t, i)   == FirstFrom(t, FirstFrom(t, i, IsSpace), NoSpace)
PrevWord(t, i)   == LastDownTo(t, LastDownTo(t, i, NoSpace), IsSpace)
DeleteTo(t, i)   == IF i > 0 /\ Kind1(t, i - 1) = " " THEN LastDownTo(t, i, NoSpace) ELSE LastDownTo(t, i, IsSpace)
WordEnd(t, i)    == FirstFrom(t, FirstFrom(t, i, NoSpace), IsSpace)

\* A tag that ends at i: detectTagSpans.
TagsTo(t, i) ==
    {j \in 0..(i - 2) : /\ Kind1(t, j) = "#" /\ (j = 0 \/ Kind1(t, j - 1) \notin {"w", "#", "id"})
                        /\ (i = Len(t) \/ Kind1(t, i) # "w")
                        /\ \A l \in (j + 1)..(i - 1) : Kind1(t, l) = "w"}

-----------------------------------------------------------------------------
(* Styled runs.                                                            *)

Moved1(v, pos, delta) ==
    IF delta > 0 THEN (IF v >= pos THEN v + delta ELSE v)
    ELSE IF v <= pos THEN v ELSE IF v >= pos - delta THEN v + delta ELSE pos

\* Mutant: a run stays open over what was deleted at its start.
MovedEnds(s, pos, delta) == [s EXCEPT !.hi = Moved1(s.hi, pos, delta)]
MovedRun(s, pos, delta) == [s EXCEPT !.lo = Moved1(s.lo, pos, delta), !.hi = Moved1(s.hi, pos, delta)]

\* shiftSpans.
Shifted1(spans, pos, delta) ==
    SelectSeq([i \in 1..Len(spans) |-> MovedRun(spans[i], pos, delta)], LAMBDA s : s.hi > s.lo)

\* mergeSpans: touching runs of one style are one.
Joined(spans) ==
    FoldLeft(LAMBDA out, s :
                 IF out # <<>> /\ Last(out).hi >= s.lo /\ Last(out).style = s.style
                 THEN Append(Front(out), [Last(out) EXCEPT !.hi = Max({Last(out).hi, s.hi})]) ELSE Append(out, s),
             <<>>, spans)

\* setSpanStyle: what overlaps is split around the run.
Restyled(spans, lo, hi, style) ==
    LET left  == {[s EXCEPT !.hi = Min({s.hi, lo})] : s \in {t \in ToSet(spans) : t.lo < lo}}
        right == {[s EXCEPT !.lo = Max({s.lo, hi})] : s \in {t \in ToSet(spans) : t.hi > hi}}
        run   == IF style = {} THEN {} ELSE {[lo |-> lo, hi |-> hi, style |-> style]}
    IN  Joined(SetToSortSeq(left \cup right \cup run, LAMBDA s, t : s.lo < t.lo))

\* spanSGRFor: what rune i is painted with.
Look1(spans, i) ==
    LET over == {k \in DOMAIN spans : spans[k].lo <= i /\ i < spans[k].hi}
    IN  IF over = {} THEN {} ELSE spans[Max(over)].style

-----------------------------------------------------------------------------
(* Edits.                                                                  *)

CutsAnchor(t, lo, hi) == \E s \in AnchorsOf(t) : s.start < hi /\ s.end > lo /\ ~(s.start >= lo /\ s.end <= hi)
PutInAnchor(t, lo, hi) == lo = hi /\ Inside1(t, lo)

\* A surface with [lo, hi) replaced by runes of some kinds, and its spans shifted or not.
Edited(d, s, lo, hi, kinds, follows) ==
    LET t    == d.text[s]
        new  == [i \in 1..Len(kinds) |-> [k |-> kinds[i], n |-> d.newRune + i, c |-> IF kinds[1] = "S" THEN d.newRune ELSE 0]]
        left == IF lo = 0 THEN {} ELSE d.paint[t[lo].n]
    IN  [d EXCEPT !.text[s] = SubSeq(t, 1, lo) \o new \o SubSeq(t, hi + 1, Len(t)),
                  !.spans[s] = IF follows THEN Shifted1(@, lo, Len(kinds) - (hi - lo)) ELSE @,
                  !.loose = IF follows \/ d.spans[s] = <<>> THEN @ ELSE @ \cup {s},
                  !.paint = [n \in DOMAIN @ \cup {new[i].n : i \in DOMAIN new} |->
                               IF n \in DOMAIN @ THEN @[n] ELSE left],
                  !.newRune = @ + Len(kinds), !.caret = lo + Len(kinds)]
Anchor == <<"S", "id", "S">>

\* createChip: the record is there before the anchor.
WithChip(d, s, lo, hi, follows) == [Edited(d, s, lo, hi, Anchor, follows) EXCEPT !.known = @ \cup {d.newRune}]

\* Chips whose anchor lies within [lo, hi) go with it: deleteChipID.
ChipsWithin(t, lo, hi) == {s.chip : s \in {s \in AnchorsOf(t) : s.start >= lo /\ s.end <= hi}}
Without1(d, s, lo, hi, follows) ==
    [Edited(d, s, lo, hi, <<>>, follows) EXCEPT !.known = @ \ ChipsWithin(d.text[s], lo, hi)]

Dropped2 == [on |-> FALSE, anchor |-> 0, owner |-> "", lo |-> 0, hi |-> 0]
Empty0 == [text |-> [s \in {"name", "note"} |-> <<>>], spans |-> [s \in {"name", "note"} |-> <<>>],
           caret |-> 0, known |-> {}, paint |-> [n \in {} |-> {}], newRune |-> 1, loose |-> {}, torn |-> {}]
Filled(d, s, kinds) ==
    FoldLeft(LAMBDA e, k : IF k = "S" THEN WithChip(e, s, e.caret, e.caret, TRUE) ELSE Edited(e, s, e.caret, e.caret, <<k>>, TRUE),
             d, kinds)
FirstDoc(name, note, run) ==
    LET full == Filled([Filled(Empty0, "note", note) EXCEPT !.caret = 0], "name", name)
        at(n) == {i \in 1..Len(full.text["name"]) : full.text["name"][i].n = n}
    IN  [full EXCEPT !.spans["name"] = run,
                     !.paint = [n \in DOMAIN @ |-> IF at(n) = {} THEN {} ELSE Look1(run, (CHOOSE i \in at(n) : TRUE) - 1)]]

TypingInit ==
    /\ \E name \in FirstNames, note \in FirstNotes, run \in FirstRuns : doc = FirstDoc(name, note, run)
    /\ inNote = FALSE /\ textSel = Dropped2 /\ slid = FALSE /\ typingSteps = 0

TypingKey == typingSteps < MaxTypingSteps /\ typingSteps' = typingSteps + 1
Does1(d) ==
    /\ Len(d.text["name"]) <= MaxRunes /\ Len(d.text["note"]) <= MaxRunes
    /\ doc' = d

-----------------------------------------------------------------------------
(* The selection.                                                          *)

\* syncTextSel.
Published(sel, t, caret) ==
    LET lo == Min({sel.anchor, caret})
        hi == Min({Max({sel.anchor, caret}), Len(t)})
    IN  IF hi <= lo THEN [sel EXCEPT !.owner = "", !.lo = 0, !.hi = 0]
        ELSE [sel EXCEPT !.owner = Surface, !.lo = lo, !.hi = hi]

EdgeOf(t, i, dir) == Snapped(t, i, IF dir < 0 THEN "start" ELSE "end")

\* extendTextSel.
ExtendSel(dir, byWord) ==
    /\ TypingKey /\ Len(Text) > 0
    /\ LET caret == Min({doc.caret, Len(Text)})
           sel == IF textSel.on /\ textSel.owner = Surface THEN textSel ELSE [textSel EXCEPT !.on = TRUE, !.anchor = caret]
           to == IF byWord THEN (IF dir < 0 THEN PrevWord(Text, caret) ELSE WordEnd(Text, caret))
                 ELSE Max({0, Min({Len(Text), caret + dir})})
           edge == EdgeOf(Text, to, dir)
       IN  doc' = [doc EXCEPT !.caret = edge] /\ textSel' = Published(sel, Text, edge)
    /\ UNCHANGED <<inNote, slid>>

\* textSelection.
SelHi == Min({textSel.hi, Len(Text)})
Selected1 == textSel.on /\ textSel.owner = Surface /\ SelHi > textSel.lo

\* deleteTextSelection.
SelectionGone(d) ==
    LET gone == Without1(d, Surface, textSel.lo, SelHi, TRUE)
    IN  IF (slid \/ inNote) /\ CutsAnchor(Text, textSel.lo, SelHi) THEN [gone EXCEPT !.torn = @ \cup {Surface}] ELSE gone

Base == IF Selected1 THEN SelectionGone(doc) ELSE doc
DropSel == textSel' = Dropped2 /\ slid' = FALSE
\* A rune typed with nothing in the published bounds leaves the selection on.
DropIfSelected == IF Selected1 THEN DropSel ELSE UNCHANGED <<textSel, slid>>

-----------------------------------------------------------------------------
(* Keys of the outline, on the name.                                       *)

InName == ~inNote
Clamped1(d) == Max({0, Min({d.caret, Len(d.text["name"])})})

StepsOver(t, i, edge) == Snapped(t, i, edge)

\* left, right, ctrl+left, ctrl+right within the row; up, down, home and end land outside an anchor.
MoveCaret(to) == TypingKey /\ InName /\ doc' = [doc EXCEPT !.caret = to] /\ DropSel /\ UNCHANGED inNote
CaretKeys ==
    \/ doc.caret > 0 /\ MoveCaret(StepsOver(Text, doc.caret - 1, "start"))
    \/ doc.caret < Len(Text) /\ MoveCaret(StepsOver(Text, doc.caret + 1, "end"))
    \/ doc.caret > 0 /\ doc.caret <= Len(Text) /\ MoveCaret(StepsOver(Text, PrevWord(Text, doc.caret), "start"))
    \/ doc.caret < Len(Text) /\ MoveCaret(StepsOver(Text, NextWord(Text, doc.caret), "end"))
    \/ \E i \in 0..Len(Text) : ~Inside1(Text, i) /\ MoveCaret(i)

\* chipifyBeforeCaret: the spans stay where they are.
Chipified(d) ==
    LET at == TagsTo(d.text["name"], d.caret)
    IN  IF at = {} THEN d ELSE WithChip(d, "name", Max(at), d.caret, FALSE)

\* A rune: the selection goes first; a second "$" takes the one before it off and makes a chip.
TypeKey(k) ==
    /\ TypingKey /\ InName
    /\ LET d == [Base EXCEPT !.caret = Clamped1(Base)]
           t == d.text["name"]
           c == IF k = " " THEN Chipified(d) ELSE d
       IN  IF k = "$" /\ d.caret > 0 /\ Kind1(t, d.caret - 1) = "$"
           THEN LET less == Edited(d, "name", d.caret - 1, d.caret, <<>>, FALSE)
                IN  Does1(WithChip(less, "name", less.caret, less.caret, TRUE))
           ELSE Does1(Edited(c, "name", c.caret, c.caret, <<k>>, TRUE))
    /\ DropIfSelected /\ UNCHANGED inNote

\* One pasted line.
PasteLine ==
    /\ TypingKey /\ InName
    /\ LET d == [Base EXCEPT !.caret = Clamped1(Base)] IN Does1(Edited(d, "name", d.caret, d.caret, <<"w", " ">>, TRUE))
    /\ DropIfSelected /\ UNCHANGED inNote

\* pasteLinkOverSelection, on either surface.
PasteLink ==
    /\ TypingKey /\ Selected1
    /\ Does1(LET t == Text
                 linked == WithChip(doc, Surface, textSel.lo, SelHi, TRUE)
             IN  [linked EXCEPT !.known = @ \ ChipsWithin(t, textSel.lo, SelHi),
                                !.paint = [n \in DOMAIN @ |-> IF n > doc.newRune THEN {"?"} ELSE @[n]],
                                !.torn = IF (slid \/ inNote) /\ CutsAnchor(t, textSel.lo, SelHi) THEN @ \cup {Surface} ELSE @])
    /\ DropSel /\ UNCHANGED inNote

\* backspace past the start of the row.
CharBefore(d) ==
    LET over == {s \in AnchorsOf(d.text["name"]) : s.end = d.caret}
    IN  IF over = {} THEN Edited(d, "name", d.caret - 1, d.caret, <<>>, TRUE)
        ELSE Without1(d, "name", (CHOOSE s \in over : TRUE).start, d.caret, TRUE)
BackspaceKey ==
    /\ TypingKey /\ InName /\ (Selected1 \/ Clamped1(doc) > 0)
    /\ Does1(IF Selected1 THEN SelectionGone(doc) ELSE CharBefore([doc EXCEPT !.caret = Clamped1(doc)]))
    /\ DropSel /\ UNCHANGED inNote

\* ctrl+w: a chip before the caret goes alone, and there the spans stay where they are.
DeleteWordKey ==
    /\ TypingKey /\ InName /\ Clamped1(doc) > 0
    /\ LET d == [doc EXCEPT !.caret = Clamped1(doc)]
           over == {s \in AnchorsOf(Text) : s.end = d.caret}
           from == Snapped(Text, DeleteTo(Text, d.caret), "start")
       IN  Does1(IF over # {} THEN Without1(d, "name", (CHOOSE s \in over : TRUE).start, d.caret, FALSE)
                 ELSE Without1(d, "name", from, d.caret, TRUE))
    /\ DropSel /\ UNCHANGED inNote

\* alt+x with a run selected: copyCutRun widens it to whole anchors.
CutRun ==
    /\ TypingKey /\ InName /\ Selected1
    /\ Does1(Without1(doc, "name", Snapped(Text, textSel.lo, "start"), Snapped(Text, SelHi, "end"), TRUE))
    /\ DropSel /\ UNCHANGED inNote

\* alt+a, then a chip that needs no further choice: the selection stays where it is.
InsertAChip ==
    /\ TypingKey
    /\ LET at == Min({doc.caret, Len(Text)}) IN
       Does1([WithChip(doc, Surface, at, at, TRUE) EXCEPT !.torn = IF PutInAnchor(Text, at, at) THEN @ \cup {Surface} ELSE @])
    /\ slid' = (textSel.owner # "") /\ UNCHANGED <<inNote, textSel>>

EscKey == TypingKey /\ InName /\ textSel.on /\ DropSel /\ UNCHANGED <<doc, inNote>>

-----------------------------------------------------------------------------
(* The style picker.                                                       *)

\* The style that already covers the whole run.
Existing1(lo, hi) ==
    LET over == {i \in DOMAIN doc.spans[Surface] : doc.spans[Surface][i].lo <= lo /\ doc.spans[Surface][i].hi >= hi}
    IN  IF over = {} THEN {} ELSE doc.spans[Surface][Min(over)].style

\* applyStyleToSpan: on the selection, or on the whole note when it is open.
StyleRun(attribute) ==
    /\ TypingKey /\ (Selected1 \/ inNote)
    /\ LET lo == IF Selected1 THEN textSel.lo ELSE 0
           hi == IF Selected1 THEN SelHi ELSE Len(Text)
           style == SymDiff(Existing1(lo, hi), {attribute})
           runes == {Text[i].n : i \in (lo + 1)..hi}
       IN  /\ lo < hi
           /\ doc' = [doc EXCEPT !.spans[Surface] = Restyled(@, lo, hi, style),
                                 !.paint = [n \in DOMAIN @ |-> IF n \in runes THEN style ELSE @[n]]]
    /\ DropSel /\ UNCHANGED inNote

-----------------------------------------------------------------------------
(* The note: a plain field, whose caret and deletions know no anchors.     *)

\* The text changed in [lo, hi): an anchor may be cut.
Pierced(d, lo, hi) ==
    IF CutsAnchor(d.text["note"], lo, hi) \/ PutInAnchor(d.text["note"], lo, hi) THEN [d EXCEPT !.torn = @ \cup {"note"}] ELSE d
InField(d, lo, hi, kinds) == Edited(Pierced(d, lo, hi), "note", lo, hi, kinds, TRUE)

OpenTheNote ==
    /\ TypingKey /\ InName /\ inNote' = TRUE /\ doc' = [doc EXCEPT !.caret = Len(doc.text["note"])] /\ DropSel

\* enter: ChipifyName makes chips of all tags; the spans stay where they are.
CloseTheNote ==
    /\ TypingKey /\ inNote /\ inNote' = FALSE
    /\ LET t == Text
           ends == {i \in 2..Len(t) : TagsTo(t, i) # {}}
           all == FoldLeft(LAMBDA d, i : WithChip(d, "note", Max(TagsTo(t, i)), i, FALSE), doc,
                           SetToSortSeq(ends, >))
       IN  Does1([all EXCEPT !.caret = Len(doc.text["name"])])
    /\ DropSel

NoteMoves(to) == TypingKey /\ inNote /\ doc' = [doc EXCEPT !.caret = to] /\ DropSel /\ UNCHANGED inNote
NoteCaret == Min({doc.caret, Len(Text)})
NoteCaretKeys == \E to \in {Max({0, NoteCaret - 1}), Min({Len(Text), NoteCaret + 1}), PrevWord(Text, NoteCaret),
                            NextWord(Text, NoteCaret), 0, Len(Text)} : to # doc.caret /\ NoteMoves(to)

\* A space makes a chip of the tag before it, with its spans.
NoteChipified(d) ==
    LET at == TagsTo(d.text["note"], d.caret)
    IN  IF at = {} THEN d
        ELSE [WithChip(d, "note", Max(at), d.caret, TRUE) EXCEPT !.paint = [n \in DOMAIN @ |-> IF n > d.newRune THEN {"?"} ELSE @[n]]]
NoteType(k) ==
    /\ TypingKey /\ inNote
    /\ LET d == [Base EXCEPT !.caret = Min({Base.caret, Len(Base.text["note"])})]
           c == IF k = " " THEN NoteChipified(d) ELSE d
       IN  IF k = "$" /\ d.caret > 0 /\ Kind1(d.text["note"], d.caret - 1) = "$"
           THEN LET less == Edited(d, "note", d.caret - 1, d.caret, <<>>, TRUE)
                IN  Does1(WithChip(less, "note", less.caret, less.caret, TRUE))
           ELSE Does1(InField(c, c.caret, c.caret, <<k>>))
    /\ DropSel /\ UNCHANGED inNote
NoteBackspace ==
    /\ TypingKey /\ inNote /\ (Selected1 \/ NoteCaret > 0)
    /\ \E from \in {NoteCaret - 1, DeleteTo(Text, NoteCaret)} :
         Does1(IF Selected1 /\ from = NoteCaret - 1 THEN SelectionGone(doc) ELSE InField(doc, from, NoteCaret, <<>>))
    /\ DropSel /\ UNCHANGED inNote

-----------------------------------------------------------------------------
(* Another client's name for the row: live sync puts it under the caret,   *)
(* or when the note is closed.                                             *)

AdoptName ==
    /\ TypingKey /\ InName
    /\ \E kinds \in FirstNames :
         LET d == FoldLeft(LAMBDA e, k : IF k = "S" THEN WithChip(e, "name", e.caret, e.caret, FALSE)
                                         ELSE Edited(e, "name", e.caret, e.caret, <<k>>, FALSE),
                           [doc EXCEPT !.text["name"] = <<>>, !.caret = 0], kinds)
             at == Min({doc.caret, Len(d.text["name"])})
         IN  Does1([d EXCEPT !.caret = Snapped(d.text["name"], at, "end")])
    /\ slid' = (textSel.owner # "") /\ UNCHANGED <<inNote, textSel>>

TypingNext ==
    \/ \E dir \in {-1, 1}, byWord \in BOOLEAN : ExtendSel(dir, byWord)
    \/ CaretKeys
    \/ \E k \in {"w", " ", "$"} : TypeKey(k)
    \/ PasteLine
    \/ PasteLink
    \/ BackspaceKey
    \/ DeleteWordKey
    \/ CutRun
    \/ InsertAChip
    \/ EscKey
    \/ \E attribute \in Attributes : StyleRun(attribute)
    \/ OpenTheNote
    \/ CloseTheNote
    \/ NoteCaretKeys
    \/ \E k \in {"w", " ", "$"} : NoteType(k)
    \/ NoteBackspace
    \/ AdoptName

-----------------------------------------------------------------------------

\* The runs of a surface are in order, apart and not empty, the last merge left none to merge,
\* and the published selection lies in its text or is cut to it.
TypingTypeOK ==
    /\ doc.caret \in 0..(MaxRunes + 1) /\ inNote \in BOOLEAN /\ slid \in BOOLEAN
    /\ textSel.owner \in {"", "name", "note"} /\ (textSel.owner # "" => textSel.on /\ textSel.lo < textSel.hi)
    /\ \A s \in {"name", "note"} :
         /\ \A i \in DOMAIN doc.spans[s] : doc.spans[s][i].lo < doc.spans[s][i].hi /\ doc.spans[s][i].style \in SUBSET Attributes \ {{}}
         /\ \A i \in 1..(Len(doc.spans[s]) - 1) : doc.spans[s][i].hi <= doc.spans[s][i + 1].lo
    /\ (inNote \/ textSel.owner # "note")

\* A style stays with the runes it was given to, and what is typed behind a rune looks like it,
\* through every edit before, within and after a run: except on a surface where an edit the code
\* does not shift for has been made (chips made by a space or enter or "$$", ctrl+w over a chip,
\* another client's text).
StylesFollowTheText ==
    \A s \in {"name", "note"} \ doc.loose : \A i \in 1..Len(doc.text[s]) :
        doc.paint[doc.text[s][i].n] \in {{"?"}, Look1(doc.spans[s], i - 1)}

\* An anchor is in a text whole, with its record, or not at all; a sentinel alone would pair with
\* the next chip's and show the text between as an unknown chip.  Not for a note whose caret went
\* into an anchor, nor after a selection whose text had changed under it.
AnchorsAreWhole ==
    \A s \in {"name", "note"} \ doc.torn :
        \A i \in 1..Len(doc.text[s]) :
            doc.text[s][i].k \in {"S", "id"} =>
                \E a \in AnchorsOf(doc.text[s]) : /\ a.start < i /\ i <= a.end /\ a.end = a.start + 3
                                                  /\ a.chip = doc.text[s][i].c /\ a.chip \in doc.known

\* The caret of the outline never stands within a chip.
CaretIsOutsideChips == ~inNote /\ "name" \notin doc.torn => ~Inside1(doc.text["name"], Min({doc.caret, Len(doc.text["name"])}))

\* A rune, a line, a link or a cut over a selection, and backspace, take out the runes that are shown
\* as selected and no others; where an anchor is cut in two, a cut takes what lies in the halves.
OverSelection == PasteLine \/ PasteLink \/ BackspaceKey \/ CutRun \/ TypeKey("w") \/ NoteType("w")
TakesWhatIsSelected ==
    [][OverSelection /\ Selected1 /\ ~slid /\ Surface \notin doc.torn =>
         {Text[i].n : i \in DOMAIN Text} \ {doc'.text[Surface][i].n : i \in DOMAIN doc'.text[Surface]}
           = {Text[i].n : i \in (textSel.lo + 1)..SelHi}]_typingVars

\* While typing, deleting and styling no anchor is cut in two, the caret is in none, the styled runs lie on the runes
\* they were put on, and a key takes what is selected and nothing else (spans.go:148, spans.go:68, keys.go:987).
TextStaysWhole ==
    /\ [](TypingTypeOK /\ StylesFollowTheText /\ AnchorsAreWhole /\ CaretIsOutsideChips)
    /\ TakesWhatIsSelected
=============================================================================
