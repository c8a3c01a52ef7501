------------------------------- MODULE Menus -------------------------------
(***************************************************************************)
(* The menus that open over the text being edited: the slash palette, the  *)
(* completers of tags, icons and query words, the insert, type and style   *)
(* pickers and the finder that inserts a link (picker_list.go,             *)
(* picker_sources.go, complete.go, icon.go, noterich.go, editor.go         *)
(* openSlashMenu to handleNoteKey).  A menu types what it is asked into    *)
(* the text and takes it back, or puts its choice there; it may be opened  *)
(* over a row's name or from its note.  A text is a sequence of runes,     *)
(* "@" standing for a chip; what a menu lists is left out.                 *)
(***************************************************************************)
EXTENDS Integers, SequencesExt

CONSTANTS
    Outlines,      \* outlines the program may open on: order, kind, source, name, note
    MaxMenuSteps   \* keys and changes of others in a run

VARIABLES
    lines, ui,
    key,           \* the key handled last
    opened,        \* ghost: the text the menu was opened over, and where
    noteOf,        \* ghost: the row whose note is edited, and the note it had
    fate,          \* ghost: crashed, strayed (a mirror's hidden name is edited), refused, gone
    menuSteps
menuVars == <<lines, ui, key, opened, noteOf, fate, menuSteps>>

Rune == {"a", " ", "/", "#", ":", "(", ")", "@", "i", "q", "t", "n"}
RowKind == {"plain", "query", "locked"}
Runes == Seq(Rune)
IsOutline(r) ==
    LET ids == DOMAIN r.source
    IN  /\ r \in [order : Seq(ids), kind : [ids -> RowKind], source : [ids -> ids], name : [ids -> Runes], note : [ids -> Runes]]
        /\ \A id \in ids : r.source[r.source[id]] = r.source[id]
ASSUME MenuAssumption == MaxMenuSteps \in Nat /\ \A r \in Outlines : IsOutline(r) /\ r.order # <<>>

Menu == {"slash", "type", "style", "insert", "complete", "finder"}
ThereIs == ui.cursor \in DOMAIN lines.order
Cur == lines.order[ui.cursor]
Resolve(id) == lines.source[id]
Editable(id) == lines.kind[Resolve(id)] \in {"plain", "query"}
TakesChips(id) == lines.kind[id] # "query"

Placed(text, at, runes) == SubSeq(text, 1, at) \o runes \o SubSeq(text, at + 1, Len(text))
Bound(at, text) == IF at > Len(text) THEN Len(text) ELSE at
TakenAway(text, from, to) == SubSeq(text, 1, from) \o SubSeq(text, Bound(to, text) + 1, Len(text))

\* Tags: a "#" with a word behind it and none before it; a chip takes the place of the one that ends at the caret.
WordRune == {"a", "q", "t", "n"}
InWord(text, i) == i \in DOMAIN text /\ text[i] \in WordRune
IsTag(text, j, k) ==
    /\ j + 1 < k /\ k <= Len(text) /\ text[j + 1] = "#"
    /\ j = 0 \/ text[j] \notin WordRune \cup {"#"}
    /\ \A i \in (j + 2)..k : InWord(text, i)
    /\ ~InWord(text, k + 1)
TagAt(text, at) == {j \in 0..(at - 2) : IsTag(text, j, at)}
Chipped(text, at) ==
    IF TagAt(text, at) = {} THEN text ELSE LET j == CHOOSE j \in TagAt(text, at) : TRUE IN Placed(TakenAway(text, j, at), j, <<"@">>)
ChippedTo(text, at) == IF TagAt(text, at) = {} THEN at ELSE (CHOOSE j \in TagAt(text, at) : TRUE) + 1

\* ChipifyName: every tag of a text.
InTag(text, i) == \E j \in 1..(i - 1), k \in i..Len(text) : IsTag(text, j - 1, k)
StartsTag(text, i) == \E k \in i..Len(text) : IsTag(text, i - 1, k)
Kept(text) == {i \in DOMAIN text : ~InTag(text, i)}
NthKept(text, n) == CHOOSE i \in Kept(text) : Cardinality({l \in Kept(text) : l <= i}) = n
Committed(text) ==
    [n \in 1..Cardinality(Kept(text)) |-> LET i == NthKept(text, n) IN IF StartsTag(text, i) THEN "@" ELSE text[i]]

\* The surface a menu works on (richText): the note of the row a mirror stands for, or the row's own name.
RichNote == ui.mode = "note" \/ ui.rich
Surface0 == IF RichNote THEN "note" ELSE "name"
Owner0 == IF RichNote THEN Resolve(Cur) ELSE Cur
RichText == lines[Surface0][Owner0]
Written0(text) == [lines EXCEPT ![Surface0][Owner0] = text]
OwnName(text) == [lines EXCEPT !.name[Cur] = text]

FinishRich(u) == IF u.rich THEN [u EXCEPT !.rich = FALSE, !.mode = "note"] ELSE [u EXCEPT !.mode = "outline"]

\* One key, handled on a row.
Does0(k, r, u) ==
    /\ lines' = r
    /\ ui' = u
    /\ key' = k
    /\ menuSteps' = menuSteps + 1
May(mode) == menuSteps < MaxMenuSteps /\ ~fate.crashed /\ ui.mode = mode
OnRow(mode) == May(mode) /\ ThereIs
Quiet == UNCHANGED <<opened, noteOf, fate>>
Crash == fate' = [fate EXCEPT !.crashed = TRUE] /\ UNCHANGED <<lines, ui, opened, noteOf>> /\ key' = "crash" /\ menuSteps' = menuSteps + 1
Fate(flag, yes) == fate' = [fate EXCEPT ![flag] = @ \/ yes]
OpensOver(id, surface, at) == opened' = [row |-> id, surface |-> surface, text |-> lines[surface][id], start |-> at]

(***************************************************************************)
(* The outline.                                                            *)
(***************************************************************************)
GoTo(c, at) ==
    /\ OnRow("outline") /\ c \in DOMAIN lines.order
    /\ at \in {0, Len(lines.name[Resolve(lines.order[c])])}
    /\ Does0("move", lines, [ui EXCEPT !.cursor = c, !.caret = at])
    /\ Quiet

TypeHere(rune) ==
    /\ OnRow("outline") /\ Editable(Cur)
    /\ LET typed == lines.name[Resolve(Cur)]
           chips == rune = " " /\ TakesChips(Resolve(Cur))
           text == IF chips THEN Chipped(typed, Bound(ui.caret, typed)) ELSE typed
           at == IF chips THEN ChippedTo(typed, Bound(ui.caret, typed)) ELSE Bound(ui.caret, typed)
       IN  Does0("rune", [lines EXCEPT !.name[Resolve(Cur)] = Placed(text, at, <<rune>>)], [ui EXCEPT !.caret = at + 1])
    /\ Quiet

\* openSlashMenu: the slash goes into the row's own name, even if the row shows another's.
OpenSlash(inline) ==
    LET at == Bound(ui.caret, lines.name[Cur])
        u  == [ui EXCEPT !.mode = "slash", !.query = <<>>, !.inline = inline]
    IN  /\ OnRow("outline")
        /\ IF inline THEN Does0("open", OwnName(Placed(lines.name[Cur], at, <<"/">>)), [u EXCEPT !.start = at, !.caret = at + 1])
                     ELSE Does0("open", lines, u)
        /\ OpensOver(Cur, "name", at)
        /\ UNCHANGED <<noteOf, fate>>
SlashKey == ThereIs /\ OpenSlash(Editable(Cur))
AltAKey == OpenSlash(FALSE)

\* openCompleter on the row `id`: on its note if that is the surface, else on its name; the keys that follow act on
\* the row under the cursor.
AtWordStart(text, breaks) == IF ui.caret <= 0 THEN TRUE ELSE ui.caret <= Len(text) /\ text[ui.caret] \in breaks
Completes(u, id, kind, trigger) ==
    LET surface == IF u.rich THEN "note" ELSE "name"
        owner == IF u.rich THEN Resolve(id) ELSE id
        text == lines[surface][owner]
        at == Bound(ui.caret, text)
    IN  /\ Does0("open", [lines EXCEPT ![surface][owner] = Placed(text, at, <<trigger>>)],
                 [u EXCEPT !.mode = "complete", !.compl = kind, !.start = at, !.caret = at + 1, !.query = <<>>])
        /\ OpensOver(owner, surface, at)
        /\ Fate("strayed", surface = "name" /\ id # Cur)
        /\ UNCHANGED noteOf
HashKey ==
    /\ OnRow("outline") /\ lines.kind[Resolve(Cur)] = "plain" /\ AtWordStart(lines.name[Resolve(Cur)], {" "})
    /\ Completes(ui, Resolve(Cur), "tag", "#")
ColonKey ==
    /\ OnRow("outline") /\ Editable(Cur) /\ AtWordStart(lines.name[Resolve(Cur)], {" "})
    /\ Completes(ui, Resolve(Cur), IF lines.kind[Resolve(Cur)] = "query" THEN "cmd" ELSE "icon", ":")

(***************************************************************************)
(* The slash palette.                                                      *)
(***************************************************************************)
SlashRune(rune) ==
    /\ OnRow("slash")
    /\ LET u == [ui EXCEPT !.query = Append(@, rune)]  text == lines.name[Cur]
       IN  IF ~ui.inline THEN Does0("rune", lines, u) /\ Quiet
           ELSE IF ui.caret > Len(text) THEN Crash
           ELSE Does0("rune", OwnName(Placed(text, ui.caret, <<rune>>)), [u EXCEPT !.caret = @ + 1]) /\ Quiet

\* stripSlashText takes the slash and the query out of the name of the row under the cursor.
OnlyTheSlash(text) == TakenAway(text, ui.start, ui.start + 1)
Strip(text) == TakenAway(text, ui.start, ui.start + 1 + Len(ui.query))
Strips == ui.inline /\ ThereIs
CannotStrip == Strips /\ ui.start > Len(lines.name[Cur])
Stripped == IF Strips THEN OwnName(Strip(lines.name[Cur])) ELSE lines
AtTheSlash(u) == IF Strips THEN [u EXCEPT !.caret = ui.start] ELSE u

OneBack(u) == [u EXCEPT !.caret = @ - 1]
SlashBackspace ==
    /\ OnRow("slash")
    /\ IF ui.query = <<>>
       THEN IF CannotStrip THEN Crash ELSE Does0("close", Stripped, FinishRich(AtTheSlash(ui))) /\ Quiet
       ELSE LET u == [ui EXCEPT !.query = Front(@)]  text == lines.name[Cur]
            IN  IF ~ui.inline \/ ui.caret = 0 THEN Does0("backspace", lines, u) /\ Quiet
                ELSE IF ui.caret > Len(text) THEN Crash
                ELSE Does0("backspace", OwnName(TakenAway(text, ui.caret - 1, ui.caret)), OneBack(u)) /\ Quiet
SlashEsc ==
    /\ May("slash")
    /\ IF CannotStrip THEN Crash ELSE Does0("close", Stripped, FinishRich(AtTheSlash(ui))) /\ Quiet
KeepText == OnRow("slash") /\ ui.query # <<>> /\ Does0("keep", lines, [ui EXCEPT !.mode = "outline"]) /\ Quiet

\* runSlash: a command that opens a menu, the note, or acts at once and leaves the texts alone.
Command == {"type", "style", "insert", "note", "finder", "outline"}
NoteShown == lines.note[Resolve(Cur)]
RunSlash(mode) ==
    LET u == AtTheSlash(ui)
    IN  /\ OnRow("slash")
        /\ IF CannotStrip THEN Crash
           ELSE /\ UNCHANGED <<opened, fate>>
                /\ IF mode = "note"
                   THEN /\ Does0("close", Stripped, [u EXCEPT !.mode = "note", !.prev = NoteShown, !.caret = Len(NoteShown)])
                        /\ noteOf' = [row |-> Resolve(Cur), text |-> lines.note[Resolve(Cur)]]
                   ELSE Does0("close", Stripped, [u EXCEPT !.mode = mode, !.query = <<>>, !.act = "other"]) /\ UNCHANGED noteOf

(***************************************************************************)
(* The completers.                                                         *)
(***************************************************************************)
Deleted0(text, at) == IF at <= 0 THEN text ELSE TakenAway(text, Bound(at, text) - 1, Bound(at, text))
CaretBack(text) == IF ui.caret <= 0 THEN ui.caret ELSE Bound(ui.caret, text) - 1

\* dropCompleterTrigger: `type(` takes its place.
DropsTrigger(text) == IF ui.start < Len(text) /\ text[ui.start + 1] = ":" THEN TakenAway(text, ui.start, ui.start + 1) ELSE text
TypedCommand(query) == Len(query) > 1 /\ Last(query) = "("
ComplRune(rune) ==
    LET text == Placed(RichText, Bound(ui.caret, RichText), <<rune>>)
        at == Bound(ui.caret, RichText) + 1
        query == Append(ui.query, rune)
        cut == DropsTrigger(text)
        back == IF cut # text /\ at > ui.start THEN at - 1 ELSE at
    IN  /\ OnRow("complete")
        /\ IF ui.compl = "tag" /\ ui.query = <<>> /\ rune = "(" THEN Does0("close", lines, FinishRich(ui)) /\ Quiet
           ELSE IF ui.compl = "cmd" /\ TypedCommand(query)
           THEN \/ /\ Does0("chain", Written0(cut), [ui EXCEPT !.compl = "type", !.query = <<>>, !.caret = back, !.start = back])
                   /\ opened' = [opened EXCEPT !.text = cut, !.start = back]
                   /\ UNCHANGED <<noteOf, fate>>
                \/ Does0("close", Written0(cut), FinishRich([ui EXCEPT !.query = <<>>, !.caret = back])) /\ Quiet
           ELSE Does0("rune", Written0(text), [ui EXCEPT !.query = query, !.caret = at]) /\ Quiet

\* chipifyBeforeCaret: the tag that ends at the caret, of the row that is edited, becomes a chip; then the space is typed.
ComplSpace ==
    LET id == Resolve(Cur)
        chips == ui.compl = "tag" /\ (RichNote \/ (Editable(Cur) /\ TakesChips(id)))
        r == IF chips THEN [lines EXCEPT ![Surface0][id] = Chipped(@, ui.caret)] ELSE lines
        now == r[Surface0][Owner0]
        at == Bound(IF chips THEN ChippedTo(lines[Surface0][id], ui.caret) ELSE ui.caret, now)
    IN  /\ OnRow("complete")
        /\ Does0("close", [r EXCEPT ![Surface0][Owner0] = Placed(now, at, <<" ">>)], FinishRich([ui EXCEPT !.caret = at + 1]))
        /\ Quiet
ComplBackspace ==
    LET u == [ui EXCEPT !.caret = CaretBack(RichText)]
    IN  /\ OnRow("complete")
        /\ IF ui.caret > 0 /\ RichText = <<>> THEN Crash
           ELSE /\ Does0(IF ui.query = <<>> THEN "close" ELSE "backspace", Written0(Deleted0(RichText, ui.caret)),
                         IF ui.query = <<>> THEN FinishRich(u) ELSE [u EXCEPT !.query = Front(@)])
                /\ Quiet
ComplEsc == May("complete") /\ Does0("close", lines, FinishRich(ui)) /\ Quiet

\* applyCompletion: from where the completer was opened to the caret; a choice ending in () leaves the caret inside.
Spliced(text, runes) == Placed(TakenAway(text, ui.start, Bound(ui.caret, text)), ui.start, runes)
Offers ==
    CASE ui.compl = "tag"  -> {<<"@">>}
      [] ui.compl = "icon" -> {<<"i">>, <<"@">>}
      [] ui.compl = "cmd"  -> {<<"q">>, <<"q", "(", ")">>, <<"t", "(", ")">>, <<"n", "(", ")">>}
      [] OTHER             -> {<<"t">>}
Complete(runes) ==
    LET text == Spliced(RichText, runes)
        inside == Last(runes) = ")"
        at == ui.start + Len(runes) - (IF inside THEN 1 ELSE 0)
        over == ui.compl = "type" /\ at < Len(text) /\ text[at + 1] = ")"
        u == [ui EXCEPT !.caret = IF over THEN at + 1 ELSE at]
    IN  /\ OnRow("complete") /\ (ui.compl = "icon" /\ runes = <<"@">> => TakesChips(Cur))
        /\ IF ui.start > Len(RichText) THEN Crash
           ELSE IF inside /\ runes[1] = "t"
           THEN /\ Does0("chain", Written0(text), [u EXCEPT !.compl = "type", !.query = <<>>, !.start = at])
                /\ opened' = [opened EXCEPT !.text = text, !.start = at]
                /\ UNCHANGED <<noteOf, fate>>
           ELSE /\ Does0("close", Written0(text), IF inside /\ runes[1] = "n" THEN [u EXCEPT !.mode = "finder", !.act = "scope"] ELSE FinishRich(u))
                /\ Quiet
ChooseNothing == OnRow("complete") /\ ~(ui.compl = "tag" /\ ui.query # <<>>) /\ Does0("close", lines, FinishRich(ui)) /\ Quiet

(***************************************************************************)
(* The other menus.                                                        *)
(***************************************************************************)
\* The type picker sets the type of the row a mirror stands for, and passes over a row that cannot be edited.
PickType(to) ==
    /\ May("type")
    /\ Does0("close", IF ThereIs /\ Editable(Cur) THEN [lines EXCEPT !.kind[Resolve(Cur)] = to] ELSE lines, [ui EXCEPT !.mode = "outline"])
    /\ Quiet
PickStyle == May("style") /\ Does0("close", lines, FinishRich(ui)) /\ Quiet
CloseMenu(mode) == mode \in {"type", "insert", "finder"} /\ May(mode) /\ Does0("close", lines, FinishRich(ui)) /\ Quiet

\* insertChip: refused on a mirror, on a row without text of its own, and on a query but for an icon; then a menu over a
\* note stays half open.
Refuses(kind) == lines.source[Cur] # Cur \/ ~Editable(Cur) \/ (kind # "icon" /\ ~TakesChips(Cur))
Splice(r, runes) ==
    LET at == Bound(ui.caret, RichText) IN Does0("close", r, FinishRich([ui EXCEPT !.mode = "outline", !.caret = at + Len(runes)]))
ChooseInsert(kind) ==
    /\ OnRow("insert")
    /\ IF Refuses(kind) THEN Does0("close", lines, [ui EXCEPT !.mode = "outline"]) /\ Fate("refused", ui.rich) /\ UNCHANGED <<opened, noteOf>>
       ELSE CASE kind = "tag"  -> Completes(ui, Cur, "tag", "#")
              [] kind = "icon" -> Completes(ui, Cur, "icon", ":")
              [] kind = "link" -> Does0("chain", lines, [ui EXCEPT !.mode = "finder", !.act = "link"]) /\ Quiet
              [] kind = "date" -> Splice(Written0(Placed(RichText, Bound(ui.caret, RichText), <<"@">>)), <<"@">>) /\ Quiet

\* The finder of links puts its chip at the caret of the surface it was opened over.
PickLink ==
    /\ OnRow("finder") /\ ui.act = "link"
    /\ Splice(Written0(Placed(RichText, Bound(ui.caret, RichText), <<"@">>)), <<"@">>)
    /\ Quiet

\* The finder of a query's scope puts its chip into the name, inside the brackets if they are there.
PickScope ==
    LET text == lines.name[Cur]
        at == Bound(ui.caret, text)
        inside == at < Len(text) /\ text[at + 1] = ")"
    IN  /\ OnRow("finder") /\ ui.act = "scope"
        /\ Does0("close", OwnName(Placed(text, at, IF inside THEN <<"@">> ELSE <<"@", " ">>)), [ui EXCEPT !.mode = "outline", !.caret = at + 2])
        /\ Quiet

(***************************************************************************)
(* The note.                                                               *)
(***************************************************************************)
Note0 == lines.note[Resolve(Cur)]
NoteRune(rune) ==
    /\ OnRow("note")
    /\ LET text == IF rune = " " THEN Chipped(Note0, ui.caret) ELSE Note0
           at == Bound(IF rune = " " THEN ChippedTo(Note0, ui.caret) ELSE ui.caret, text)
       IN  Does0("rune", Written0(Placed(text, at, <<rune>>)), [ui EXCEPT !.caret = at + 1])
    /\ Quiet
NoteEsc ==
    /\ OnRow("note")
    /\ Does0("escnote", Written0(ui.prev), [ui EXCEPT !.mode = "outline", !.rich = FALSE, !.caret = Len(lines.name[Resolve(Cur)])])
    /\ Quiet
NoteEnter ==
    /\ OnRow("note")
    /\ Does0("keep", Written0(Committed(Note0)), [ui EXCEPT !.mode = "outline", !.rich = FALSE, !.caret = Len(lines.name[Resolve(Cur)])])
    /\ Quiet
NoteInsert == OnRow("note") /\ Does0("open", lines, [ui EXCEPT !.rich = TRUE, !.mode = "insert", !.query = <<>>]) /\ Quiet
NoteStyle == OnRow("note") /\ Does0("open", lines, [ui EXCEPT !.rich = TRUE, !.mode = "style", !.query = <<>>]) /\ Quiet
NoteCompletes(kind, trigger) ==
    OnRow("note") /\ AtWordStart(Note0, {" ", "("}) /\ Completes([ui EXCEPT !.rich = TRUE], Resolve(Cur), kind, trigger)

(***************************************************************************)
(* Others.                                                                 *)
(***************************************************************************)
\* A row no mirror shows leaves the outline, and the cursor goes to the one at c.
Leaves(gone, c, at) ==
    /\ menuSteps < MaxMenuSteps /\ ~fate.crashed /\ ThereIs
    /\ \A other \in ToSet(lines.order) \ {lines.order[gone]} : lines.source[other] # lines.order[gone]
    /\ Does0("others", [lines EXCEPT !.order = RemoveAt(@, gone)], [ui EXCEPT !.cursor = c, !.caret = at])
    /\ Fate("gone", ui.mode # "outline")
    /\ UNCHANGED <<opened, noteOf>>

\* Live sync, which waits while a menu is open: the cursor stays on its row, and the caret is pulled into the text.
LiveDelete(gone) ==
    LET order == RemoveAt(lines.order, gone)
        c == Bound(IF gone < ui.cursor THEN ui.cursor - 1 ELSE ui.cursor, order)
    IN  ui.mode = "outline" /\ Leaves(gone, c, IF order = <<>> THEN ui.caret ELSE Bound(ui.caret, lines.name[Resolve(order[c])]))

\* An answer from a source drops a row, whatever is open: the cursor keeps its index and the caret its place.
PullDrops(gone) == Leaves(gone, Bound(ui.cursor, RemoveAt(lines.order, gone)), ui.caret)

MenuInit ==
    /\ lines \in Outlines
    /\ ui = [cursor |-> 1, caret |-> 0, mode |-> "outline", rich |-> FALSE, inline |-> FALSE, start |-> 0, query |-> <<>>,
             compl |-> "tag", prev |-> <<>>, act |-> "other"]
    /\ key = "none" /\ menuSteps = 0
    /\ opened = [row |-> lines.order[1], surface |-> "name", text |-> <<>>, start |-> 0]
    /\ noteOf = [row |-> lines.order[1], text |-> <<>>]
    /\ fate = [crashed |-> FALSE, strayed |-> FALSE, refused |-> FALSE, gone |-> FALSE]

MenuNext ==
    \/ \E c \in DOMAIN lines.order : \E at \in {0, Len(lines.name[Resolve(lines.order[c])])} : GoTo(c, at)
    \/ \E rune \in {"a", " "} : TypeHere(rune) \/ SlashRune(rune) \/ NoteRune(rune)
    \/ SlashKey \/ AltAKey \/ HashKey \/ ColonKey
    \/ SlashBackspace \/ SlashEsc \/ KeepText \/ \E mode \in Command : RunSlash(mode)
    \/ (\E rune \in {"a", "("} : ComplRune(rune)) \/ ComplSpace \/ ComplBackspace \/ ComplEsc
    \/ (\E runes \in Offers : Complete(runes)) \/ ChooseNothing
    \/ (\E to \in RowKind : PickType(to)) \/ PickStyle \/ (\E mode \in Menu : CloseMenu(mode)) \/ PickLink \/ PickScope
    \/ \E kind \in {"tag", "icon", "link", "date"} : ChooseInsert(kind)
    \/ NoteEsc \/ NoteEnter \/ NoteInsert \/ NoteStyle \/ NoteCompletes("tag", "#") \/ NoteCompletes("icon", ":")
    \/ \E gone \in DOMAIN lines.order : LiveDelete(gone) \/ PullDrops(gone)
MenuSpec == MenuInit /\ [][MenuNext]_menuVars

(***************************************************************************)
(* Properties.                                                             *)
(***************************************************************************)
MenusTypeOK ==
    /\ ui.mode \in Menu \cup {"outline", "note"}
    /\ ui.mode = "complete" /\ ~fate.gone /\ ~fate.strayed => ui.start <= ui.caret /\ ui.caret <= Len(RichText)

\* No key cuts a text beyond its end, unless the row was taken from under the menu or is a mirror.
NothingIsCutBeyondItsEnd == fate.crashed => fate.gone \/ fate.strayed

\* The slash and what is typed behind it are out of the row again when the palette closes with anything but enter on nothing.
SlashIsTakenBack ==
    [][ui.mode = "slash" /\ ui'.mode # "slash" /\ key' = "close" /\ ~fate.gone => lines'.name[opened.row] = opened.text]_menuVars

\* A completer changes nothing before the place it was opened at and nothing behind the caret, but for the
\* backspace that goes back over the parenthesis the query's types follow.
Framed(text) ==
    /\ IsPrefix(SubSeq(opened.text, 1, opened.start), text)
    /\ IsSuffix(SubSeq(opened.text, opened.start + 1, Len(opened.text)), text)
    /\ Len(text) >= Len(opened.text)
OnlyItsOwnIsReplaced ==
    [][ui.mode = "complete" /\ key' \in {"rune", "backspace", "close"} /\ ui'.caret >= ui.start /\ ~fate.gone /\ ~fate.strayed =>
          Framed(lines'[opened.surface][opened.row])]_menuVars

\* A menu opened from the note comes back to the note: no key leaves the outline acting on a note.
ComesBackToTheNote == ui.rich /\ ~fate.refused => ui.mode \in Menu

\* Esc in a note restores that note and touches no other.
EscRestoresTheNote ==
    [][key' = "escnote" /\ ui.mode = "note" /\ ~fate.refused /\ ~fate.gone => lines'.note = [lines.note EXCEPT ![noteOf.row] = noteOf.text]]_menuVars

\* What a menu typed into a row it takes back or replaces and nothing beside it, and leaving it comes back to the note,
\* with the text it had (editor.go:2047, noterich.go:149, complete.go:139).
MenusTakeBackTheirOwn ==
    /\ [](MenusTypeOK /\ NothingIsCutBeyondItsEnd /\ ComesBackToTheNote)
    /\ SlashIsTakenBack
    /\ OnlyItsOwnIsReplaced
    /\ EscRestoresTheNote
=============================================================================
