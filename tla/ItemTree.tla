------------------------------ MODULE ItemTree ------------------------------
(***************************************************************************)
(* The in-memory outline of the editor (tui/editor/model.go): the items a  *)
(* tree has loaded, the order of their children, and what its operations   *)
(* make of them.  An operation that refuses returns the tree it was given. *)
(*                                                                         *)
(* A tree is a record.  kids[n] is the child list of n; an item is in at   *)
(* most one of them, so that its parent pointer is the list it is in.      *)
(* known is byUUID, snap the snapshots, fresh the items with isNew, dels   *)
(* the deleted list, ext the detached roots of grafted mirror sources,     *)
(* stored says whether the tree has a database.  A name is the set of the  *)
(* words in it.  Folding, styles, notes and types are left out.            *)
(***************************************************************************)
EXTENDS Integers, FiniteSets, SequencesExt

CONSTANTS
    Items,   \* the uuids there can be
    None,    \* "", the empty uuid; no item, no snapshot, no row
    Words,   \* what names are made of
    Locked,  \* the items whose structure is locked (Zotero's, a query's)
    Downs    \* the items whose priority is down; a new item's is up

ASSUME ItemAssumption == None \notin Items /\ Locked \subseteq Items /\ Downs \subseteq Items

Place == [parent : Items \cup {None}, rank : Int, name : SUBSET Words, mirror : Items \cup {None}]
Row   == [parent : Items \cup {None}, rank : Int, name : SUBSET Words, mirror : Items \cup {None},
          dead : BOOLEAN]

EmptyTree(r, stored) ==
    [root |-> r, ext |-> {}, kids |-> [n \in Items |-> <<>>], name |-> [n \in Items |-> {}],
     mirror |-> [n \in Items |-> None], known |-> {r}, snap |-> [n \in Items |-> None],
     fresh |-> {}, dels |-> {}, stored |-> stored]

-----------------------------------------------------------------------------
(* What a tree shows.                                                      *)

Holders(t, n) == {p \in Items : n \in ToSet(t.kids[p])}
Parent(t, n)  == IF Holders(t, n) = {} THEN None ELSE CHOOSE p \in Holders(t, n) : TRUE

\* indexOf, counted from 1; n is in the list of its parent.
Index(t, n) == CHOOSE i \in DOMAIN t.kids[Parent(t, n)] : t.kids[Parent(t, n)][i] = n

\* S and everything below it.
Below(t, S) ==
    LET grow[X \in SUBSET Items] ==
            LET Y == X \cup UNION {ToSet(t.kids[n]) : n \in X} IN IF Y = X THEN X ELSE grow[Y]
    IN  grow[S]

\* resolve: the item a mirror stands for, when it is loaded.
Source(t, n) == IF t.mirror[n] \in t.known THEN t.mirror[n] ELSE n

\* sourceUUID: the end of a chain of mirrors, or where it closes.
ChainEnd(mirror, known, n) ==
    LET walk[S \in SUBSET Items, c \in Items \cup {None}] ==
            IF c \notin known \/ c \in S \/ mirror[c] = None THEN c ELSE walk[S \cup {c}, mirror[c]]
    IN  walk[{}, n]

\* childItems: a mirror shows the children of its source.
Shown(t, n) ==
    IF t.mirror[n] = None THEN t.kids[n]
    ELSE IF t.mirror[n] \in t.known THEN t.kids[t.mirror[n]] ELSE <<>>

\* The rows there can be below the view root v, whatever is folded and however
\* often a cycle of mirrors is unrolled: an item and the mirror it is shown through.
Rows(t, v) ==
    LET through(r) == IF t.mirror[r[1]] = None THEN r[2] ELSE r[1]
        grow[X \in SUBSET (Items \X (Items \cup {None}))] ==
            LET Y == X \cup UNION {ToSet(Shown(t, r[1])) \X {through(r)} : r \in X}
            IN  IF Y = X THEN X ELSE grow[Y]
    IN  grow[ToSet(Shown(t, v)) \X {None}]

\* The items that may be the row above n: its parent when it is the first child,
\* else its elder sibling or, that one unfolded, the last row below it.
RowsAbove(t, v, n) ==
    LET p == Parent(t, n)
        tail[S \in SUBSET Items, c \in Items] ==
            IF c \in S \/ Shown(t, c) = <<>> THEN S \cup {c}
            ELSE tail[S \cup {c}, Last(Shown(t, c))]
    IN  IF Index(t, n) > 1 THEN tail[{}, t.kids[p][Index(t, n) - 1]]
        ELSE IF p = v THEN {} ELSE {p}

-----------------------------------------------------------------------------
(* Operations.                                                             *)

\* The item n leaves the list it is in.
Detached(t, n) ==
    IF Parent(t, n) = None THEN t ELSE [t EXCEPT !.kids[Parent(t, n)] = Remove(@, n)]

Placed(t, n, p, i) == [t EXCEPT !.kids[p] = InsertAt(@, i, n)]

\* n, detached and placed among the children of p: on top, or at the bottom.
Moved(t, n, p, top) ==
    LET u == Detached(t, n) IN Placed(u, n, p, IF top THEN 1 ELSE Len(u.kids[p]) + 1)

LockedSlot(t, n)       == n \in Locked \/ Parent(t, n) \in Locked
AcceptsChildren(t, p)  == p \notin Locked /\ ToSet(t.kids[p]) \cap Locked = {}

\* newItem, spliced in as the ith child of p.
Inserted(t, n, p, i, name, mirror) ==
    [Placed(t, n, p, i) EXCEPT !.known = @ \cup {n}, !.fresh = @ \cup {n},
                               !.name[n] = name, !.mirror[n] = mirror]

SiblingBefore(t, n, after, name) ==
    IF LockedSlot(t, after) THEN t
    ELSE Inserted(t, n, Parent(t, after), Index(t, after), name, None)

SiblingAfter(t, n, after, name, mirror) ==
    IF LockedSlot(t, after) THEN t
    ELSE Inserted(t, n, Parent(t, after), Index(t, after) + 1, name, mirror)

FirstChild(t, n, p, name) ==
    IF AcceptsChildren(t, p) THEN Inserted(t, n, p, 1, name, None) ELSE t

\* cloneSubtree: copy[m] is the fresh item m is copied to.
Cloned(t, n, copy) ==
    LET S == DOMAIN copy
        T == {copy[m] : m \in S}
        of(c) == CHOOSE m \in S : copy[m] = c
    IN  Placed([t EXCEPT
                  !.kids   = [c \in Items |-> IF c \in T
                                              THEN [i \in DOMAIN t.kids[of(c)] |-> copy[t.kids[of(c)][i]]]
                                              ELSE @[c]],
                  !.name   = [c \in Items |-> IF c \in T THEN @[of(c)] ELSE @[c]],
                  !.mirror = [c \in Items |-> IF c \in T THEN @[of(c)] ELSE @[c]],
                  !.known  = @ \cup T, !.fresh = @ \cup T],
               copy[n], Parent(t, n), Index(t, n) + 1)

\* pasteFanOut: each of the lines is a new item, deeper than the line above it when
\* it is indented more.  The levels that are open end with the last item placed; a
\* place that is locked stops the paste.
Pasted(t, n, lines) ==
    LET put(s, l) ==
            LET open  == SelectSeq(s.open, LAMBDA v : v.indent <= l.indent)
                top   == Last(open)
                deeper == l.indent > top.indent
                u == IF deeper THEN FirstChild(s.tree, l.id, top.id, l.name)
                               ELSE SiblingAfter(s.tree, l.id, top.id, l.name, None)
            IN  IF ~s.on \/ u = s.tree THEN [s EXCEPT !.on = FALSE]
                ELSE [s EXCEPT !.tree = u,
                               !.open = Append(IF deeper THEN open ELSE Front(open),
                                               [indent |-> IF deeper THEN l.indent ELSE top.indent, id |-> l.id])]
    IN  FoldLeft(put, [tree |-> t, open |-> <<[indent |-> 0, id |-> n]>>, on |-> TRUE], lines).tree

\* Mutant: only the node itself is deleted in the database.
RemovedAlone(t, n) ==
    LET S == Below(t, {n})
    IN  IF Parent(t, n) = None THEN t
        ELSE [Detached(t, n) EXCEPT !.dels = @ \cup ({n} \ t.fresh), !.known = @ \ S, !.fresh = @ \ S]

\* remove: the subtree is forgotten; what the database has of it is to be deleted.
Removed(t, n) ==
    LET S == Below(t, {n})
    IN  IF Parent(t, n) = None THEN t
        ELSE [Detached(t, n) EXCEPT !.dels = @ \cup (S \ t.fresh), !.known = @ \ S, !.fresh = @ \ S]

\* indent: n becomes the last child of the elder sibling, or of what that mirrors.
Indented(t, n) ==
    LET elder == Source(t, t.kids[Parent(t, n)][Index(t, n) - 1])
    IN  IF n \in Locked \/ Parent(t, n) = None THEN t
        ELSE IF Index(t, n) = 1 THEN t
        ELSE IF elder \in Locked THEN t ELSE Moved(t, n, elder, FALSE)

\* outdent: n goes behind its parent.  A child of the boundary leaves only by
\* the mirror it is shown through, and lands behind that mirror.
Outdented(t, n, boundary, escape) ==
    LET p == Parent(t, n)
        g == Parent(t, p)
        behind(s) == LET u == Detached(t, n) IN Placed(u, n, Parent(t, s), Index(u, s) + 1)
    IN  IF n \in Locked \/ p = None \/ p \in Locked THEN t
        ELSE IF p # boundary
             THEN IF g = None \/ g \in Locked THEN t ELSE behind(p)
             ELSE IF escape = None THEN t
                  ELSE IF Parent(t, escape) = None \/ Parent(t, escape) \in Locked
                          \/ escape \in Below(t, {n})
                       THEN t ELSE behind(escape)

\* move: n changes places with the next sibling in direction d, 1 or -1; at the
\* edge it goes over to the neighbour of its parent, or to what that mirrors.
Shifted(t, n, d, v) ==
    LET p    == Parent(t, n)
        i    == Index(t, n)
        g    == Parent(t, p)
        j    == Index(t, p) + d
        dest == Source(t, t.kids[g][j])
    IN  IF n \in Locked \/ p = None THEN t
        ELSE IF i + d \in DOMAIN t.kids[p]
             THEN [t EXCEPT !.kids[p] = [@ EXCEPT ![i] = t.kids[p][i + d], ![i + d] = n]]
        ELSE IF p = v \/ g = None THEN t
        ELSE IF j \notin DOMAIN t.kids[g] THEN t
        ELSE IF dest \in Locked THEN t ELSE Moved(t, n, dest, d = 1)

\* reparentPlaced.
ReparentedAt(t, n, p, top) ==
    IF n \in Locked \/ ~AcceptsChildren(t, p) \/ p \in Below(t, {n}) \/ Parent(t, n) = None
    THEN t ELSE Moved(t, n, p, top)

\* reparentAll: the block keeps its order, at the end the target prefers.
ReparentedAll(t, ns, p) ==
    IF p \notin Downs
    THEN FoldRight(LAMBDA n, u : ReparentedAt(u, n, p, TRUE), ns, t)
    ELSE FoldLeft(LAMBDA u, n : ReparentedAt(u, n, p, FALSE), t, ns)

\* indentAll: always at the bottom, and of the mirror itself where p is one.
IndentedAll(t, ns, p) == FoldLeft(LAMBDA u, n : ReparentedAt(u, n, p, FALSE), t, ns)

\* Backspace at the start of n: its words and its children go to p, the row above.
Merged(t, n, p) ==
    Removed([t EXCEPT !.name[p] = @ \cup t.name[n],
                      !.kids = [[@ EXCEPT ![p] = @ \o t.kids[n]] EXCEPT ![n] = <<>>]], n)

-----------------------------------------------------------------------------
(* Loading, saving, and the pictures undo keeps.                           *)

LiveRow(db, n)     == IF db[n] = None THEN FALSE ELSE ~db[n].dead
RowsUnder(db, p)   == {n \in Items : LiveRow(db, n) /\ db[n].parent = p}

\* GetSubtree: r, which may be a tombstone, and the live rows below it.
RowsBelow(db, r) ==
    LET grow[X \in SUBSET Items] ==
            LET Y == X \cup UNION {RowsUnder(db, n) : n \in X} IN IF Y = X THEN X ELSE grow[Y]
    IN  grow[{r}]

SnapOf(row) == [parent |-> row.parent, rank |-> row.rank, name |-> row.name, mirror |-> row.mirror]

\* The rows of S, read into t.
Read(db, t, S) ==
    [t EXCEPT !.kids   = [n \in Items |-> IF n \in S
                             THEN SetToSortSeq(RowsUnder(db, n), LAMBDA a, b : db[a].rank < db[b].rank)
                             ELSE @[n]],
              !.name   = [n \in Items |-> IF n \in S THEN db[n].name ELSE @[n]],
              !.mirror = [n \in Items |-> IF n \in S THEN db[n].mirror ELSE @[n]],
              !.snap   = [n \in Items |-> IF n \in S THEN SnapOf(db[n]) ELSE @[n]],
              !.known  = @ \cup S]

\* graftExternal: the source s with its subtree, unless it is dead or overlaps
\* what is loaded.
Grafted(db, t, s) ==
    IF ~t.stored \/ ~LiveRow(db, s) THEN t
    ELSE IF RowsBelow(db, s) \cap t.known # {} THEN t
    ELSE [Read(db, t, RowsBelow(db, s)) EXCEPT !.ext = @ \cup {s}]

\* graftExternalSources: until no mirror has a source that could still be loaded.
GraftedAll(db, t) ==
    LET wanted(u) == {s \in {u.mirror[n] : n \in u.known} \ (u.known \cup {None}) : LiveRow(db, s)}
        rounds[k \in Nat] ==
            IF k = 0 THEN t
            ELSE LET u == rounds[k - 1] IN FoldSet(LAMBDA s, w : Grafted(db, w, s), u, wanted(u))
    IN  IF t.stored THEN rounds[IF wanted(t) = {} THEN 0 ELSE Cardinality(Items \ t.known)] ELSE t

\* loadTree.
LoadTree(db, r) == GraftedAll(db, Read(db, EmptyTree(r, TRUE), RowsBelow(db, r)))

\* Mutant: what a row mirrors is not compared.
NameChanged(t, n) == n \in t.fresh \/ IF t.snap[n] = None THEN TRUE ELSE t.snap[n].name # t.name[n]

\* changed: n differs from its snapshot, its place aside.
Changed(t, n) ==
    \/ n \in t.fresh
    \/ IF t.snap[n] = None THEN TRUE
       ELSE t.snap[n].name # t.name[n] \/ t.snap[n].mirror # t.mirror[n]

\* save: what one transaction makes of the rows.  The rows of the tree are
\* walked first, then those of the grafted roots, which keep the place their
\* snapshot has; the root's own place and mirror are not written.
Written(db, t) ==
    LET walked == Below(t, ToSet(t.kids[t.root]))
        held   == {s \in t.ext : t.snap[s] # None}
        row(n, p, r) == [parent |-> p, rank |-> r, name |-> t.name[n], mirror |-> t.mirror[n]]
        put(d, n, at) ==
            IF n \in t.fresh /\ t.snap[n] = None THEN at @@ [dead |-> FALSE]
            ELSE IF (IF t.snap[n] = None THEN TRUE
                     ELSE <<t.snap[n].parent, t.snap[n].rank>> # <<at.parent, at.rank>>) \/ Changed(t, n)
                 THEN IF d[n] = None THEN None ELSE at @@ [dead |-> d[n].dead]
            ELSE d[n]
        main == [n \in Items |->
                    IF n \in walked THEN put(db, n, row(n, Parent(t, n), Index(t, n) - 1))
                    ELSE IF n = t.root /\ Changed(t, n) /\ db[n] # None
                         THEN [db[n] EXCEPT !.name = t.name[n]]
                    ELSE db[n]]
        outer == [n \in Items |->
                    IF n \in held THEN put(main, n, row(n, t.snap[n].parent, t.snap[n].rank))
                    ELSE IF n \in Below(t, held) THEN put(main, n, row(n, Parent(t, n), Index(t, n) - 1))
                    ELSE main[n]]
    IN  [n \in Items |-> IF n \in t.dels /\ outer[n] # None THEN [outer[n] EXCEPT !.dead = TRUE]
                         ELSE outer[n]]

\* refreshSnapshots, with the end of save.
Saved(t) ==
    LET held    == {s \in t.ext : t.snap[s] # None}
        visited == Below(t, {t.root} \cup held)
        at(n)   == IF n \in held THEN <<t.snap[n].parent, t.snap[n].rank>>
                   ELSE IF n = t.root THEN <<None, 0>>
                   ELSE <<Parent(t, n), Index(t, n) - 1>>
    IN  [t EXCEPT !.snap  = [n \in Items |->
                                IF n \in visited
                                THEN [parent |-> at(n)[1], rank |-> at(n)[2],
                                      name |-> t.name[n], mirror |-> t.mirror[n]]
                                ELSE None],
                  !.fresh = @ \ visited, !.dels = {}]

\* captureUndoState: the roots and what hangs on them, copied.
Picture(t, view) ==
    LET S == Below(t, {t.root} \cup t.ext)
    IN  [root |-> t.root, ext |-> t.ext, view |-> view,
         kids   |-> [n \in Items |-> IF n \in S THEN t.kids[n] ELSE <<>>],
         name   |-> [n \in Items |-> IF n \in S THEN t.name[n] ELSE {}],
         mirror |-> [n \in Items |-> IF n \in S THEN t.mirror[n] ELSE None]]

\* restoreUndoState, rebuildByUUID included: what has a snapshot is updated, what
\* has none is new, and a snapshot without an item is to be deleted.
Restored(t, picture) ==
    LET S     == Below(picture, {picture.root} \cup picture.ext)
        saved == {n \in Items : t.snap[n] # None}
    IN  [t EXCEPT !.root = picture.root, !.ext = picture.ext, !.kids = picture.kids,
                  !.name = picture.name, !.mirror = picture.mirror,
                  !.known = S, !.fresh = S \ saved, !.dels = saved \ S]
=============================================================================
