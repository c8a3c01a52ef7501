-------------------------------- MODULE Tree --------------------------------
(***************************************************************************)
(* The nodes table (tui/database/nodes.go): what its queries return and    *)
(* what its statements write.  A row is never removed: deleting a node     *)
(* sets its deleted flag and leaves a tombstone.  Every operator reads the *)
(* committed table, or writes it in one statement.                         *)
(***************************************************************************)
EXTENDS Integers, FiniteSets

CONSTANTS
    Nodes,      \* the uuids there can be, those not yet generated included
    Root,       \* RootUUID
    None,       \* "", the empty uuid
    Texts,      \* what a name and a note can say
    InitTree    \* the nodes table the program starts from

ASSUME NodeAssumption == IsFiniteSet(Nodes) /\ Root \in Nodes /\ None \notin Nodes

VARIABLE nodes

Locks     == {"content", "structure"}      \* LockReadWrite, LockIndentOutdent
Positions == {"top", "bottom", ""}         \* a priority is PriorityUp, the top, or PriorityDown
Row == [there : BOOLEAN, parent : Nodes \cup {None}, rank : Int, deleted : BOOLEAN,
        lock : SUBSET Locks, prio : {"top", "bottom"}, text : Texts]

ASSUME InitTreeAssumption == InitTree \in [Nodes -> Row]

TreeTypeOK == nodes \in [Nodes -> Row]

There(n) == n \in Nodes /\ nodes[n].there               \* GetNode finds a row
Live(n)  == There(n) /\ ~nodes[n].deleted

\* GetChildren: the live rows under p.
Children(p) == {n \in Nodes : Live(n) /\ nodes[n].parent = p}

\* GetSubtree in one transaction: n, which may be a tombstone, and the live
\* rows below it.
WithChildren(S) == S \cup UNION {Children(p) : p \in S}
Subtree(n) ==
    LET down[k \in 0..Cardinality(Nodes)] == IF k = 0 THEN {n} ELSE WithChildren(down[k - 1])
    IN  down[Cardinality(Nodes)]

Ranks(p) == {nodes[c].rank : c \in Children(p)}

\* Mutant: level with the last child.
LastRank(p) == IF Ranks(p) = {} THEN 0 ELSE CHOOSE r \in Ranks(p) : \A q \in Ranks(p) : q <= r

\* NextRank: behind every child of p.
NextRank(p) == IF Ranks(p) = {} THEN 0
               ELSE 1 + CHOOSE r \in Ranks(p) : \A q \in Ranks(p) : q <= r

\* FirstRank: before every child of p.
FirstRank(p) == IF Ranks(p) = {} THEN 0
                ELSE (CHOOSE r \in Ranks(p) : \A q \in Ranks(p) : r <= q) - 1

\* PlaceRank: the position a node takes that enters p without asking for one.
Preferred(p) == IF There(p) THEN nodes[p].prio ELSE "bottom"

RankAt(p, position) == IF position = "top" THEN FirstRank(p) ELSE NextRank(p)

\* A position the caller left open is the parent's.
Resolved(p, position) == IF position = "" THEN Preferred(p) ELSE position

-----------------------------------------------------------------------------
(* The statements.                                                         *)

\* Mutants: the sibling right behind stays; the siblings behind are pulled forward.
ShiftPastNext(p, r) ==
    [n \in Nodes |-> IF n \in Children(p) /\ nodes[n].rank > r + 1
                     THEN [nodes[n] EXCEPT !.rank = @ + 1] ELSE nodes[n]]

PullRanksAfter(p, r) ==
    [n \in Nodes |-> IF n \in Children(p) /\ nodes[n].rank > r
                     THEN [nodes[n] EXCEPT !.rank = @ - 1] ELSE nodes[n]]

\* ShiftRanksAfter: a gap behind rank r.
ShiftRanksAfter(p, r) ==
    [n \in Nodes |-> IF n \in Children(p) /\ nodes[n].rank > r
                     THEN [nodes[n] EXCEPT !.rank = @ + 1] ELSE nodes[n]]

\* ShiftRanksAll: a gap of k at the top, as its callers have it.
ShiftRanksAll(p, k) ==
    [n \in Nodes |-> IF n \in Children(p) THEN [nodes[n] EXCEPT !.rank = @ + k] ELSE nodes[n]]

\* Reparent, ReparentTouched: also on a tombstone, which stays one.
Reparented(n, p, r) ==
    [nodes EXCEPT ![n] = IF @.there THEN [@ EXCEPT !.parent = p, !.rank = r] ELSE @]

\* UPDATE nodes SET deleted = 1 WHERE uuid IN (S)
Tombstoned(S) ==
    [n \in Nodes |-> IF n \in S THEN [nodes[n] EXCEPT !.deleted = TRUE] ELSE nodes[n]]

\* Node.Insert under a uuid nobody has used.
Inserted(n, p, r, prio, text) ==
    [nodes EXCEPT ![n] = [there |-> TRUE, parent |-> p, rank |-> r, deleted |-> FALSE,
                          lock |-> {}, prio |-> prio, text |-> text]]

Prioritized(n, prio) ==
    [nodes EXCEPT ![n] = IF @.there THEN [@ EXCEPT !.prio = prio] ELSE @]

Renamed(n, text) ==
    [nodes EXCEPT ![n] = IF @.there THEN [@ EXCEPT !.text = text] ELSE @]

-----------------------------------------------------------------------------
(* What a tree is.                                                         *)

\* The nodes above n, n itself left out unless it is its own descendant.
Above(n) ==
    LET up[k \in 0..Cardinality(Nodes)] ==
            IF k = 0 THEN {nodes[n].parent}
            ELSE up[k - 1] \cup {nodes[a].parent : a \in up[k - 1] \ {None}}
    IN  up[Cardinality(Nodes)]

\* No node is its own descendant.
NoCycle == \A n \in Nodes : There(n) => n \notin Above(n)

\* Live siblings have different ranks: the order clients see is the one stored.
DistinctRanks ==
    \A m \in Nodes : Live(m) =>
       \A n \in Nodes \ {m} :
          nodes[n].parent = nodes[m].parent /\ Live(n) => nodes[m].rank # nodes[n].rank

\* A step turns round no two siblings, but may place those of S anywhere.
KeepsOrderBut(S) ==
    \A m, n \in Nodes \ S :
       /\ Live(m) /\ Live(n) /\ nodes[m].parent = nodes[n].parent
       /\ nodes[m].rank < nodes[n].rank
       /\ nodes'[m].parent = nodes'[n].parent
       => nodes'[m].rank < nodes'[n].rank

\* Row x is under p: right behind the row before, with nobody between them; or, where that is None, in front of
\* every other child of p or behind every other, as position says.
Landed(x, p, before, position) ==
    /\ nodes[x].parent = p
    /\ before # None => /\ nodes[before].rank < nodes[x].rank
                        /\ \A n \in Children(p) \ {x} : ~(nodes[before].rank < nodes[n].rank /\ nodes[n].rank <= nodes[x].rank)
    /\ before = None => \A n \in Children(p) \ {x} : IF position = "top" THEN nodes[x].rank < nodes[n].rank
                                                                         ELSE nodes[n].rank < nodes[x].rank

\* A live node other than the root hangs from a live one.
NoOrphans == \A n \in Nodes \ {Root} : Live(n) => Live(nodes[n].parent)
=============================================================================
