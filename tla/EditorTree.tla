----------------------------- MODULE EditorTree -----------------------------
(***************************************************************************)
(* Editing the outline (tui/editor): the keys, menu commands and pickers   *)
(* that change the loaded tree, undo and redo, the Temporary Domain under  *)
(* the notes, zooming and jumping, and the flush that brings the nodes     *)
(* table up to the tree.  What an operation makes of a tree is ItemTree's  *)
(* business; this module says when it runs, on which tree, what it pushes  *)
(* on the undo stack and what it marks unsaved.                            *)
(*                                                                         *)
(* The cursor may stand on any row of the view.  Other clients do not      *)
(* write: that is module LiveSync.                                         *)
(***************************************************************************)
EXTENDS ItemTree

CONSTANTS
    Opened,    \* the root the editor is opened on
    Top,       \* RootUUID
    Scratch,   \* the root of the Temporary Domain
    FirstLine, \* ... and the empty line it starts with
    InitRows,  \* the nodes table at the start
    MaxUndo,   \* the depth of the undo stack (100 in the code)
    MaxZoom,   \* bound: the depth of the zoom path
    MaxSteps,  \* bound: edits, undos and jumps
    Careless   \* bound: the mishaps that may happen, see Allowed, Backspace, Undo and Redo, and Abroad

Mishaps == {"knot", "hidden", "exchange", "astray", "abroad", "stale", "adrift"}
Spaces  == {"notes", "scratch"}

ASSUME EditorAssumption ==
    /\ {Opened, Top, Scratch, FirstLine} \subseteq Items /\ Careless \subseteq Mishaps
    /\ InitRows \in [Items -> Row \cup {None}]
    /\ LiveRow(InitRows, Opened) /\ InitRows[Scratch] = None /\ InitRows[FirstLine] = None
    /\ MaxUndo \in Nat \ {0} /\ MaxZoom \in Nat \ {0} /\ MaxSteps \in Nat

VARIABLES
    db,      \* the nodes table
    trees,   \* the tree of each space
    space,   \* the one that has the focus: tempActive
    view,    \* viewStack: the zoom path, its last item the view root
    stash,   \* mainStash: the zoom path of the notes while the focus is in the scratch
    undos, redos, mark,   \* the stacks, and what a run of typing is coalesced by
    unsaved,
    born,    \* ghost: the uuids given out so far
    killed,  \* ghost: the items the user has deleted or merged away
    astray,  \* ghost: since the stacks were last cleared, an item has left or entered
             \* the tree by another way than the tree's operations
    steps

history == <<undos, redos, mark>>
focus   == <<space, view, stash>>
ghosts  == <<born, killed, astray>>
vars    == <<db, trees, focus, history, unsaved, ghosts, steps>>

T == trees[space]
V == Last(view)
Fresh == CHOOSE n \in Items : n \notin born      \* a new uuid

EditorInit ==
    /\ db = InitRows
    /\ trees = [notes   |-> LoadTree(InitRows, Opened),
                scratch |-> FirstChild(EmptyTree(Scratch, FALSE), FirstLine, Scratch, {})]
    /\ space = "notes" /\ view = <<Opened>> /\ stash = <<>>
    /\ undos = <<>> /\ redos = <<>> /\ mark = None
    /\ unsaved = FALSE /\ steps = 0
    /\ born = {n \in Items : InitRows[n] # None} \cup {Scratch, FirstLine}
    /\ killed = {} /\ astray = FALSE

-----------------------------------------------------------------------------
(* What every operation does.                                              *)

\* Every item is in one list, and none is below itself.
Forest(t) == /\ \A n \in Items : Cardinality(Holders(t, n)) <= 1
             /\ Below(t, {n \in Items : Holders(t, n) = {}}) = Items

\* An item that mirrors another has no children of its own.
NothingUnderAMirror(t) == \A n \in t.known : t.mirror[n] # None => t.kids[n] = <<>>

\* What is shown through a mirror hangs on a root, and is saved.
OnTree(t) == Below(t, {t.root} \cup t.ext)
SourcesOnTree(t) == \A n \in OnTree(t) : t.mirror[n] \in t.known => t.mirror[n] \in OnTree(t)

Allowed(t) == /\ Forest(t) \/ "knot" \in Careless
              /\ NothingUnderAMirror(t) \/ "hidden" \in Careless
              /\ ToSet(view) \subseteq t.known \cap OnTree(t) \/ "adrift" \in Careless
              /\ SourcesOnTree(t) \/ "astray" \in Careless

Step == steps < MaxSteps /\ steps' = steps + 1

Capped(s) == IF Len(s) > MaxUndo THEN Tail(s) ELSE s

\* pushUndo.
Pushed(m) ==
    IF m # None /\ m = mark THEN UNCHANGED history
    ELSE mark' = m /\ redos' = <<>> /\ undos' = Capped(Append(undos, Picture(T, view)))

\* The keys on a selection: once for the key, once for what it does.
PushedTwice ==
    /\ mark' = None /\ redos' = <<>>
    /\ LET more(s) == Capped(Append(s, Picture(T, view))) IN undos' = more(more(undos))

Becomes(t) ==
    /\ Step /\ Allowed(t)
    /\ trees' = [trees EXCEPT ![space] = t]
    /\ unsaved' = (unsaved \/ t # T)
    /\ astray' = (astray \/ t.ext # T.ext)
    /\ UNCHANGED <<db, focus>>

\* A key that makes t of the tree; one that is refused has pushed its picture too.
Press(m, t) == Becomes(t) /\ Pushed(m)
PressSel(t) == Becomes(t) /\ PushedTwice

KeepsItems == UNCHANGED <<born, killed>>
NewItem(n) == born # Items /\ n = Fresh /\ born' = born \cup {n} /\ UNCHANGED killed

\* saveAll; a tree without a database is not written.
StoredRows == IF trees.scratch.stored THEN Written(Written(db, trees.notes), trees.scratch)
              ELSE Written(db, trees.notes)
AfterSave  == [s \in Spaces |-> IF trees[s].stored THEN Saved(trees[s]) ELSE trees[s]]

-----------------------------------------------------------------------------
(* Text.                                                                   *)

\* Typing and erasing: on a mirror's row they change the source, and a run of
\* them on one row is one undo step.
Type(n, w) ==
    LET s == Source(T, n)
    IN  /\ Press(n, [T EXCEPT !.name[s] = IF w \in @ THEN @ \ {w} ELSE @ \cup {w}])
        /\ KeepsItems

\* Typing into an empty view makes its first node.
TypeFirst(w) ==
    /\ Shown(T, V) = <<>> /\ AcceptsChildren(T, V)
    /\ \E n \in Items : NewItem(n) /\ Step
         /\ trees' = [trees EXCEPT ![space] = FirstChild(T, n, V, {w})]
    /\ unsaved' = TRUE
    /\ UNCHANGED <<db, focus, history, astray>>

\* Enter at the start of a node with text: an empty one above it.
EnterAbove(n) ==
    /\ T.mirror[n] = None /\ T.name[n] # {}
    /\ \E x \in Items : NewItem(x) /\ Press(None, SiblingBefore(T, x, n, {}))

\* Enter elsewhere: what is right of the caret goes to a new node, the first
\* child of an unfolded parent and the next sibling of any other.
EnterBelow(n, right, inside) ==
    LET left == [T EXCEPT !.name[n] = @ \ right]
        made(x) == IF inside THEN FirstChild(T, x, n, {}) ELSE SiblingAfter(T, x, n, {}, None)
        split(x) == IF made(x) = T THEN T
                    ELSE [made(x) EXCEPT !.name[n] = left.name[n], !.name[x] = right]
    IN  /\ right \subseteq (IF T.mirror[n] = None THEN T.name[n] ELSE {})
        /\ inside => T.mirror[n] = None /\ T.kids[n] # <<>>
        /\ \E x \in Items : NewItem(x) /\ Press(None, split(x))

\* Several lines pasted: the first stays in the row, the others become nodes.
Paste(n, indents) ==
    LET new == CHOOSE f \in [DOMAIN indents -> Items \ born] : IsInjective(f)
        line(i) == [indent |-> indents[i], id |-> new[i], name |-> Words]
        t == Pasted(T, Source(T, n), [i \in DOMAIN indents |-> line(i)])
    IN  /\ Len(indents) <= Cardinality(Items \ born)
        /\ Press(None, t) /\ born' = born \cup (t.known \ T.known) /\ UNCHANGED killed

\* Backspace at the start of a node merges it into the row above, unless that is
\* a mirror: the one whose first child it is, or its elder sibling.  That can be n
\* itself or a row below it, where a mirror of an ancestor is unfolded above n.
Backspace(n, through, p) ==
    /\ through # None => ~(Index(T, n) = 1 /\ Parent(T, n) = Source(T, through))
    /\ p \in RowsAbove(T, V, n) /\ T.mirror[p] = None
    /\ p \notin Below(T, {n}) \/ "knot" \in Careless
    /\ Press(None, Merged(T, n, p))
    /\ killed' = killed \cup {n} /\ UNCHANGED born

\* ensureViewNonEmpty, for the tree t of a space with the view root v.
Kept(t, v, x) == IF t.kids[v] = <<>> THEN FirstChild(t, x, v, {}) ELSE t

\* An operation leaves t, and a line to type into.
Leaves(t) ==
    IF t.kids[V] = <<>> THEN born # Items /\ born' = born \cup {Fresh} /\ Becomes(Kept(t, V, Fresh))
    ELSE Becomes(t) /\ UNCHANGED born

\* ... and removes an empty node that has no row above it.
BackspaceFirst(n) ==
    /\ Parent(T, n) = V /\ Index(T, n) = 1 /\ T.name[n] = {} /\ T.kids[n] = <<>>
    /\ Leaves(Removed(T, n)) /\ Pushed(None)
    /\ killed' = killed \cup {n}

-----------------------------------------------------------------------------
(* Structure.                                                              *)

Tab(n) ==
    Press(None, Indented(T, n)) /\ KeepsItems

ShiftTab(n, through) ==
    LET boundary == IF through = None THEN V ELSE Source(T, through)
    IN  Press(None, Outdented(T, n, boundary, through)) /\ KeepsItems

\* Alt+shift+up and down; at the top of the Temporary Domain up is CrossToNotes.
MoveKey(n, d) ==
    /\ ~(space = "scratch" /\ d = -1 /\ Parent(T, n) = T.root /\ Index(T, n) = 1)
    /\ Press(None, Shifted(T, n, d, V)) /\ KeepsItems

\* deleteNode, confirmed where there are children, from the last of ns to the first.
Deleted(ns) ==
    /\ Leaves(FoldRight(LAMBDA n, u : IF n \in Locked THEN u ELSE Removed(u, n), ns, T))
    /\ killed' = killed \cup Below(T, ToSet(ns) \ Locked)

\* ctrl+d on a row, and cut.
Delete(ns) == Deleted(ns) /\ Pushed(None)

\* /duplicate: a copy behind the node.
Duplicate(n) ==
    LET S == Below(T, {n})
    IN  /\ n \notin Locked
        /\ Cardinality(S) <= Cardinality(Items \ born)
        /\ LET copy == CHOOSE f \in [S -> Items \ born] : IsInjective(f)
           IN  Press(None, Cloned(T, n, copy)) /\ born' = born \cup Range(copy) /\ UNCHANGED killed

\* A selection is a run of siblings, i to j in the list of p, and what is below them.
Selected(p, i, j) == SubSeq(T.kids[p], i, j)

SelIndent(p, i, j) ==
    /\ IF i = 1 THEN Press(None, T)
       ELSE PressSel(IndentedAll(T, Selected(p, i, j), T.kids[p][i - 1]))
    /\ KeepsItems

\* From the last to the first, so that they keep their order.
SelOutdent(p, i, j) ==
    /\ PressSel(FoldRight(LAMBDA n, u : Outdented(u, n, V, None), Selected(p, i, j), T))
    /\ KeepsItems

\* A block at the edge stays.
SelMove(p, i, j, d) ==
    /\ IF d = -1 THEN i > 1 ELSE j < Len(T.kids[p])
    /\ PressSel(IF d = -1 THEN FoldLeft(LAMBDA u, n : Shifted(u, n, d, V), T, Selected(p, i, j))
                ELSE FoldRight(LAMBDA n, u : Shifted(u, n, d, V), Selected(p, i, j), T))
    /\ KeepsItems

SelDelete(p, i, j) == Deleted(Selected(p, i, j)) /\ PushedTwice

-----------------------------------------------------------------------------
(* Undo.                                                                   *)

\* The zoom path is restored as far as its items are there.
RestoredView(picture) ==
    LET S    == Below(picture, {picture.root} \cup picture.ext)
        path == SelectSeq(picture.view, LAMBDA n : n \in S)
    IN  IF path = <<>> THEN <<picture.root>> ELSE path

\* What a picture is put back into: the tree that has the focus, whichever it is of.
Restore(picture) ==
    /\ picture.root = T.root \/ "exchange" \in Careless
    /\ ~astray \/ "astray" \in Careless
    /\ trees' = [trees EXCEPT ![space] = Restored(T, picture)]
    /\ view' = RestoredView(picture)
    /\ unsaved' = TRUE /\ mark' = None
    /\ Step /\ UNCHANGED <<db, space, stash, ghosts>>

Undo ==
    /\ undos # <<>>
    /\ undos' = Front(undos) /\ redos' = Append(redos, Picture(T, view))
    /\ Restore(Last(undos))

Redo ==
    /\ redos # <<>>
    /\ redos' = Front(redos) /\ undos' = Append(undos, Picture(T, view))
    /\ Restore(Last(redos))

ClearHistory == undos' = <<>> /\ redos' = <<>> /\ astray' = FALSE

-----------------------------------------------------------------------------
(* The Temporary Domain.                                                   *)

EnterTemp ==
    /\ space = "notes" /\ space' = "scratch"
    /\ stash' = view /\ view' = <<trees.scratch.root>>
    /\ UNCHANGED <<db, trees, history, unsaved, ghosts, steps>>

ExitTemp ==
    /\ space = "scratch" /\ space' = "notes"
    /\ view' = stash /\ stash' = <<>>
    /\ UNCHANGED <<db, trees, history, unsaved, ghosts, steps>>

\* The subtree of n goes over from the scratch to the notes, as the ith child of p.
Migrated(n, p, i) ==
    LET s == trees.scratch
        S == Below(s, {n})
        in(f, g) == [m \in Items |-> IF m \in S THEN f[m] ELSE g[m]]
        m == trees.notes
    IN  [scratch |-> [Detached(s, n) EXCEPT !.known = @ \ S, !.fresh = @ \ S],
         notes   |-> Placed([m EXCEPT !.kids = in(s.kids, @), !.name = in(s.name, @),
                                      !.mirror = in(s.mirror, @), !.known = @ \cup S,
                                      !.fresh = @ \cup (S \cap s.fresh)], n, p, i)]

\* ... and the scratch is left with a line to type into.
MigratedKept(n, p, i) ==
    LET s    == trees.scratch
        both == Migrated(n, p, i)
    IN  IF both.scratch.kids[s.root] = <<>>
        THEN /\ born # Items /\ born' = born \cup {Fresh}
             /\ trees' = [both EXCEPT !.scratch = FirstChild(@, Fresh, s.root, {})]
        ELSE trees' = both /\ UNCHANGED born

\* Alt+shift+up at the top of the scratch: the node goes into the notes, and the focus.
CrossToNotes(n) ==
    /\ space = "scratch" /\ Parent(T, n) = T.root /\ Index(T, n) = 1
    /\ Step
    /\ MigratedKept(n, Last(stash), Len(trees.notes.kids[Last(stash)]) + 1)
    /\ space' = "notes" /\ view' = stash /\ stash' = <<>>
    /\ ClearHistory /\ unsaved' = TRUE
    /\ UNCHANGED <<db, mark, killed>>

-----------------------------------------------------------------------------
(* The pickers.  Those that go to the database are meant for the notes.    *)

Abroad == space = "notes" \/ "abroad" \in Careless
InTree(n) == n \in T.known

\* No row at m or below it is about to be deleted.
Settled(m) == RowsBelow(db, m) \cap trees.notes.dels = {} \/ "stale" \in Careless

\* What the picker offers on the row of n: the named rows of the table that are
\* no mirrors; a node deleted since the last flush is still one of them.
Offered(n, m) ==
    /\ LiveRow(db, m) /\ m \notin {n, Top}
    /\ db[m].name # {} /\ db[m].mirror = None
    /\ Settled(m)
    /\ m \notin T.known \ OnTree(T) \/ "astray" \in Careless

\* /mirror:from, the row an empty one or not, and a pasted mirror link, which
\* makes a mirror of the row it lands in.
MirrorHere(n, target) ==
    LET graft(t) == Grafted(db, t, target)
    IN  /\ Offered(n, target)
        /\ IF T.name[n] = {} /\ T.mirror[n] = None /\ T.kids[n] = <<>>
           THEN Press(None, graft([T EXCEPT !.mirror[n] = target])) /\ KeepsItems
           ELSE /\ ~LockedSlot(T, n)
                /\ \E x \in Items : NewItem(x) /\ Press(None, graft(SiblingAfter(T, x, n, {}, target)))

PasteMirror(n, target) ==
    LET s == ChainEnd([m \in Items |-> IF db[m] = None THEN None ELSE db[m].mirror], Items, target)
    IN  /\ LiveRow(db, target) /\ target # n /\ T.mirror[n] = None /\ T.name[n] = {} /\ Settled(s)
        /\ Press(None, Grafted(db, [T EXCEPT !.mirror[n] = s], s)) /\ KeepsItems

\* /mirror:to a target in the tree.
MirrorInto(n, target) ==
    /\ InTree(target) /\ Offered(n, target)
    /\ \E x \in Items : NewItem(x) /\ Press(None, Inserted(T, x, target, 1, {}, Source(T, n)))

\* /move:to a target in the tree, of the row or of the selection that ends in n.
MoveTo(ns, n, target) ==
    /\ InTree(target) /\ Offered(n, target)
    /\ Press(None, ReparentedAll(T, ns, target)) /\ KeepsItems

\* /move:here, the picked node in the tree.
BringWithin(m, n) ==
    /\ InTree(m) /\ Offered(n, m) /\ n \notin Below(T, {m})
    /\ LET u == Detached(T, m) IN Press(None, Placed(u, m, Parent(u, n), Index(u, n) + 1))
    /\ KeepsItems

\* /move:here, the picked node in the scratch.
BringFromTemp(m, n) ==
    /\ space = "notes" /\ m \in ToSet(trees.scratch.kids[trees.scratch.root]) /\ trees.scratch.name[m] # {}
    /\ Step /\ Pushed(None)
    /\ MigratedKept(m, Parent(T, n), Index(T, n) + 1)
    /\ unsaved' = TRUE /\ astray' = TRUE
    /\ UNCHANGED <<db, focus, killed>>

\* The last and the first place under p in the table.
RankUnder(rows, p, top) ==
    LET ranks == {rows[n].rank : n \in RowsUnder(rows, p)}
    IN  IF ranks = {} THEN 0 ELSE IF top THEN Min(ranks) - 1 ELSE Max(ranks) + 1

Reparent(rows, n, p, top) ==
    IF rows[n] = None THEN rows
    ELSE [rows EXCEPT ![n].parent = p, ![n].rank = RankUnder(rows, p, top)]

\* /mirror:to a node outside the tree: all is saved, and the row is inserted.
MirrorOut(n, target) ==
    LET s == ChainEnd([m \in Items |-> IF db[m] = None THEN None ELSE db[m].mirror], Items, Source(T, n))
    IN  /\ Abroad /\ ~InTree(target) /\ Offered(n, target)
        /\ Step /\ Pushed(None)
        /\ \E x \in Items, rows \in {StoredRows} :
             /\ NewItem(x)
             /\ db' = [rows EXCEPT ![x] = [parent |-> target, rank |-> RankUnder(rows, target, target \notin Downs),
                                           name |-> {}, mirror |-> s, dead |-> FALSE]]
        /\ trees' = AfterSave /\ unsaved' = FALSE
        /\ UNCHANGED <<focus, astray>>

\* /move:to a node outside the tree: all is saved, the row is moved, and the item
\* leaves the list it is in; the tree goes on knowing it.
MoveOut(n, target) ==
    /\ Abroad /\ ~InTree(target) /\ Offered(n, target)
    /\ Step /\ Pushed(None) /\ Allowed(Detached(T, n))
    /\ db' = Reparent(StoredRows, n, target, target \notin Downs)
    /\ trees' = [AfterSave EXCEPT ![space] = Detached(@, n)]
    /\ unsaved' = FALSE /\ astray' = TRUE
    /\ UNCHANGED <<focus, born, killed>>

\* /move:here a node outside the tree: all is saved, the row is moved, and the
\* view is loaded anew.
BringIn(m, n) ==
    /\ space = "notes" /\ ~InTree(m) /\ Offered(n, m)
    /\ Step /\ Pushed(None)
    /\ \E rows \in {StoredRows} :
         /\ Parent(T, n) \notin RowsBelow(rows, m) \/ "knot" \in Careless
         /\ db' = Reparent(rows, m, Parent(T, n), FALSE)
    /\ trees' = [AfterSave EXCEPT ![space] = LoadTree(db', V)]
    /\ view' = <<V>>
    /\ unsaved' = FALSE /\ astray' = TRUE
    /\ UNCHANGED <<space, stash, born, killed>>

\* jumpTo and reopenAt: all is saved, and target is loaded as the root.
Jump(target) ==
    /\ Step
    /\ db' = StoredRows
    /\ LiveRow(db', target)
    /\ trees' = [AfterSave EXCEPT ![space] = LoadTree(db', target)]
    /\ view' = <<target>> /\ ClearHistory /\ unsaved' = FALSE
    /\ UNCHANGED <<space, stash, mark, born, killed>>

Goto(target) == Abroad /\ {r \in Rows(T, V) : Offered(r[1], target)} # {} /\ Jump(target)

ZoomIn(n) ==
    LET s == ChainEnd(T.mirror, T.known, n)
    IN  /\ Len(view) < MaxZoom /\ s \in T.known
        /\ view' = Append(view, s)
        /\ UNCHANGED <<db, trees, space, stash, history, unsaved, ghosts, steps>>

ZoomOut ==
    \/ /\ Len(view) > 1 /\ view' = Front(view)
       /\ UNCHANGED <<db, trees, space, stash, history, unsaved, ghosts, steps>>
    \/ /\ Len(view) = 1 /\ V # Top /\ LiveRow(db, V) /\ db[V].parent # None
       /\ Jump(db[V].parent)

\* The flush a second after the last edit, and ctrl+s.
Flush ==
    /\ unsaved /\ unsaved' = FALSE
    /\ db' = StoredRows /\ trees' = AfterSave
    /\ UNCHANGED <<focus, history, ghosts, steps>>

-----------------------------------------------------------------------------
Typing ==
    \/ \E r \in Rows(T, V) :
         \/ \E w \in Words : Type(r[1], w)
         \/ EnterAbove(r[1])
         \/ \E right \in SUBSET Words, inside \in BOOLEAN : EnterBelow(r[1], right, inside)
         \/ \E p \in Items : Backspace(r[1], r[2], p)
         \/ BackspaceFirst(r[1])
         \/ \E first, second \in {0, 1} : Paste(r[1], <<first, second>>)
         \/ Delete(<<r[1]>>)
    \/ \E w \in Words : TypeFirst(w)

Shaping ==
    \E r \in Rows(T, V) :
      \/ Tab(r[1]) \/ ShiftTab(r[1], r[2]) \/ MoveKey(r[1], 1) \/ MoveKey(r[1], -1)
      \/ Duplicate(r[1])

Selecting ==
    \E p \in T.known : \E i \in DOMAIN T.kids[p], j \in DOMAIN T.kids[p] :
      /\ i < j /\ <<T.kids[p][i], None>> \in Rows(T, V)
      /\ \/ Delete(Selected(p, i, j)) \/ SelDelete(p, i, j)
         \/ \E m \in Items : MoveTo(Selected(p, i, j), T.kids[p][j], m)
         \/ SelIndent(p, i, j) \/ SelOutdent(p, i, j)
         \/ SelMove(p, i, j, 1) \/ SelMove(p, i, j, -1)

Mirroring ==
    \E r \in Rows(T, V), m \in Items :
      MirrorHere(r[1], m) \/ PasteMirror(r[1], m) \/ MirrorInto(r[1], m) \/ MirrorOut(r[1], m)

Moving ==
    \E r \in Rows(T, V), m \in Items :
      MoveTo(<<r[1]>>, r[1], m) \/ MoveOut(r[1], m) \/ BringWithin(m, r[1]) \/ BringIn(m, r[1])

Crossing ==
    \/ \E r \in Rows(T, V) : CrossToNotes(r[1]) \/ \E m \in Items : BringFromTemp(m, r[1])
    \/ EnterTemp \/ ExitTemp

Looking ==
    \/ \E r \in Rows(T, V) : ZoomIn(r[1])
    \/ \E m \in Items : Goto(m)
    \/ ZoomOut

Rewinding == Undo \/ Redo

EditorNext == Typing \/ Shaping \/ Selecting \/ Mirroring \/ Moving \/ Crossing \/ Looking \/ Rewinding \/ Flush

EditorSpec == EditorInit /\ [][EditorNext]_vars

-----------------------------------------------------------------------------
EditorTypeOK ==
    /\ db \in [Items -> Row \cup {None}]
    /\ DOMAIN trees = Spaces /\ space \in Spaces
    /\ \A s \in Spaces :
         /\ trees[s].kids \in [Items -> Seq(Items)] /\ trees[s].name \in [Items -> SUBSET Words]
         /\ trees[s].mirror \in [Items -> Items \cup {None}] /\ trees[s].snap \in [Items -> Place \cup {None}]
         /\ UNION {trees[s].known, trees[s].fresh, trees[s].dels, trees[s].ext} \subseteq Items
    /\ view \in Seq(Items) /\ stash \in Seq(Items) /\ Len(undos) <= MaxUndo
    /\ unsaved \in BOOLEAN /\ astray \in BOOLEAN /\ killed \subseteq Items /\ born \subseteq Items

\* Grafted roots that have been moved into the tree.  The flush goes on writing them
\* as roots too: with a change of the text they are put back where they came from.
Adopted(t) == {s \in t.ext : Parent(t, s) # None}

\* Whenever nothing is left to flush, the nodes table holds what the notes show,
\* through mirrors too: the same children in the same order, the same names.
StoredIsShown ==
    ~unsaved =>
        LET t == trees.notes
            own(S) == S \ Adopted(t)
        IN  \A n \in {t.root} \cup {r[1] : r \in Rows(t, t.root)} :
              /\ LiveRow(db, n)
              /\ db[n].name = t.name[n] /\ db[n].mirror = t.mirror[n]
              /\ own(ToSet(t.kids[n])) = own(RowsUnder(db, n))
              /\ \A i, j \in DOMAIN t.kids[n] :
                   i < j /\ {t.kids[n][i], t.kids[n][j]} \cap Adopted(t) = {} =>
                       db[t.kids[n][i]].rank < db[t.kids[n][j]].rank

\* A node there was at the start is tombstoned only when the user has deleted it
\* or merged it away, however edits, undo, redo, moves and flushes follow each other.
OnlyTheDeletedDie ==
    \A n \in Items : LiveRow(InitRows, n) /\ ~LiveRow(db, n) => n \in killed

\* Every live row can be reached from the root of the outline.
NoRowIsCutOff == \A n \in Items : LiveRow(db, n) => n \in RowsBelow(db, Top)

\* What is in the Temporary Domain is not in the nodes table, nor in the notes.
ScratchStaysOut ==
    \A n \in Below(trees.scratch, {trees.scratch.root}) : db[n] = None /\ n \notin trees.notes.known

\* An item is new exactly as long as the table has no live row of it: a flush
\* neither updates a row that is not there nor revives one that lives.
FreshMeansNoRow ==
    \A n \in trees.notes.known \cap Below(trees.notes, {trees.notes.root} \cup trees.notes.ext) :
        n \in trees.notes.fresh <=> ~LiveRow(db, n)

\* The zoom path leads through items of the tree.
ViewIsInTheTree ==
    /\ \A i \in DOMAIN view : view[i] \in T.known
    /\ \A i \in DOMAIN stash : stash[i] \in trees.notes.known

\* Through every sequence of edits, moves, mirrors, undos and saves only what the user deleted dies, no live row hangs
\* under a dead one, the Temporary Domain stays out of the main tree, and the view is inside the tree (model.go:694,
\* editor.go:575, keys.go:1022).
TreesAreSound ==
    /\ EditorTypeOK
    /\ OnlyTheDeletedDie
    /\ NoRowIsCutOff
    /\ ScratchStaysOut
    /\ FreshMeansNoRow
    /\ ViewIsInTheTree
=============================================================================
