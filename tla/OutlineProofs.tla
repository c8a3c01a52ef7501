---------------------------- MODULE OutlineProofs ----------------------------
(***************************************************************************)
(* Proofs about the review queue, for any number of suggestions, proposers *)
(* and reviewers on any outline.  The invariant says as little of types as *)
(* the arguments need: which fields a row has, and that a reviewer has a   *)
(* suggestion in hand.  What each step does to one suggestion is a lemma,  *)
(* and everything follows from the four things that can happen to it.      *)
(* A removal takes a whole subtree: GetSubtree goes down a level at a      *)
(* time, and that what it lists is closed is shown by induction, for any   *)
(* table.                                                                  *)
(*                                                                         *)
(* Then the queue in one outline with everybody who writes to it: for any  *)
(* number of requests, commands, proposers and reviewers, a verdict is     *)
(* given and applied once and stays, and only a delete of the HTTP API     *)
(* leaves a proposal about a deleted node pending.  The table may be in    *)
(* any shape there: requests that interleave leave orphans, cycles and     *)
(* equal ranks, and none of it matters to the verdicts.                    *)
(***************************************************************************)
EXTENDS Outline, NumberProofs

-----------------------------------------------------------------------------
(* The levels of a subtree.                                                 *)

RowCount == Cardinality(Nodes)
Levels(n, m, f) == f = [k \in 0..m |-> IF k = 0 THEN {n} ELSE WithChildren(f[k - 1])]

LEMMA SizeIsNatural == RowCount \in Nat /\ RowCount # 0
BY NodeAssumption, FS_CardinalityType, FS_EmptySet DEF RowCount

\* There are levels down to any depth.
LEMMA LevelsExist ==
    ASSUME NEW n
    PROVE  \A m \in Nat : \E f : Levels(n, m, f)
<1> DEFINE T == {m \in Nat : \E f : Levels(n, m, f)}
<1>1. 0 \in T
  <2> DEFINE f == [k \in 0..0 |-> {n}]
  <2>1. f = [k \in 0..0 |-> IF k = 0 THEN {n} ELSE WithChildren(f[k - 1])]
    OBVIOUS
  <2>2. Levels(n, 0, f)
    BY <2>1 DEF Levels
  <2>. QED BY <2>2
<1>2. ASSUME NEW m \in T PROVE m + 1 \in T
  <2>1. PICK f : Levels(n, m, f)
    OBVIOUS
  <2> DEFINE g == [k \in 0..(m + 1) |-> IF k = m + 1 THEN WithChildren(f[m]) ELSE f[k]]
  <2>2. \A k \in 0..m : f[k] = IF k = 0 THEN {n} ELSE WithChildren(f[k - 1])
    BY <2>1, Zenon DEF Levels
  <2>3. ASSUME NEW k \in 0..(m + 1) PROVE g[k] = IF k = 0 THEN {n} ELSE WithChildren(g[k - 1])
    <3>1. CASE k = m + 1
      <4>1. k # 0 /\ k - 1 = m /\ m \in 0..(m + 1) /\ m # m + 1
        BY <3>1
      <4>2. g[k] = WithChildren(f[m]) /\ g[m] = f[m]
        BY <3>1, <4>1
      <4> HIDE DEF g
      <4>. QED BY <4>1, <4>2
    <3>2. CASE k # m + 1
      <4>1. k \in 0..m
        BY <3>2
      <4>2. g[k] = f[k]
        BY <3>2
      <4>3. k # 0 => k - 1 \in 0..(m + 1) /\ k - 1 # m + 1
        BY <4>1
      <4>4. k # 0 => g[k - 1] = f[k - 1]
        BY <4>3
      <4> HIDE DEF g
      <4>. QED BY <2>2, <4>1, <4>2, <4>4
    <3>. QED BY <3>1, <3>2
  <2>4. g = [k \in 0..(m + 1) |-> g[k]]
    OBVIOUS
  <2>5. Levels(n, m + 1, g)
    <3> HIDE DEF g
    <3>. QED BY <2>3, <2>4, Zenon DEF Levels
  <2>. QED BY <2>5
<1> HIDE DEF T
<1>3. T \subseteq Nat
  BY DEF T
<1>4. T = Nat
  BY <1>1, <1>2, <1>3, Induction
<1>. QED BY <1>4 DEF T

\* GetSubtree returns the last of its levels.
LEMMA SubtreeIsTheLastLevel ==
    ASSUME NEW n
    PROVE  \E f : /\ f[0] = {n}
                  /\ \A k \in 0..RowCount : k # 0 => f[k] = WithChildren(f[k - 1])
                  /\ Subtree(n) = f[RowCount]
<1> DEFINE f == CHOOSE g : Levels(n, RowCount, g)
<1>1. Levels(n, RowCount, f)
  BY LevelsExist, SizeIsNatural
<1>2. Subtree(n) = f[RowCount]
  BY DEF Subtree, Levels, RowCount
<1> HIDE DEF f
<1>3. \A k \in 0..RowCount : f[k] = IF k = 0 THEN {n} ELSE WithChildren(f[k - 1])
  BY <1>1, Zenon DEF Levels
<1>4. 0 \in 0..RowCount
  BY SizeIsNatural
<1>. QED BY <1>2, <1>3, <1>4

\* A level has what the one above it has, and nothing but rows.
LEMMA LevelsGrow ==
    ASSUME NEW S, S \subseteq Nodes
    PROVE  S \subseteq WithChildren(S) /\ WithChildren(S) \subseteq Nodes
BY DEF WithChildren, Children

\* Once a level adds nothing, none below it does; and one of them adds nothing,
\* since each that does has a row more and there are no more levels than rows.
LEMMA SubtreeIsClosed ==
    ASSUME NEW n \in Nodes
    PROVE  n \in Subtree(n) /\ Subtree(n) \subseteq Nodes /\ WithChildren(Subtree(n)) = Subtree(n)
<1>1. PICK f : /\ f[0] = {n}
               /\ \A k \in 0..RowCount : k # 0 => f[k] = WithChildren(f[k - 1])
               /\ Subtree(n) = f[RowCount]
  BY SubtreeIsTheLastLevel
<1>2. RowCount \in Nat /\ RowCount # 0
  BY SizeIsNatural
<1>3. ASSUME NEW k \in Nat, k + 1 <= RowCount PROVE f[k + 1] = WithChildren(f[k])
  <2>1. k + 1 \in 0..RowCount /\ k + 1 # 0 /\ (k + 1) - 1 = k
    BY <1>2, <1>3
  <2>2. f[k + 1] = WithChildren(f[(k + 1) - 1])
    BY <1>1, <2>1
  <2>. QED BY <2>1, <2>2
<1>4. \A k \in 0..RowCount : n \in f[k] /\ f[k] \subseteq Nodes
  <2> DEFINE T == {k \in Nat : k <= RowCount => n \in f[k] /\ f[k] \subseteq Nodes}
  <2>1. 0 \in T
    BY <1>1
  <2>2. ASSUME NEW k \in T PROVE k + 1 \in T
    <3>1. CASE k + 1 <= RowCount
      <4>1. n \in f[k] /\ f[k] \subseteq Nodes
        BY <1>2, <3>1
      <4>2. f[k + 1] = WithChildren(f[k])
        BY <1>3, <3>1
      <4>. QED BY <4>1, <4>2, LevelsGrow
    <3>2. CASE ~(k + 1 <= RowCount)
      BY <3>2
    <3>. QED BY <3>1, <3>2
  <2>3. T \subseteq Nat
    OBVIOUS
  <2> HIDE DEF T
  <2>4. T = Nat
    BY <2>1, <2>2, <2>3, Induction
  <2>. QED BY <2>4, <1>2 DEF T
<1>5. \E j \in Nat : j + 1 <= RowCount /\ f[j + 1] = f[j]
  <2> SUFFICES ASSUME \A j \in Nat : j + 1 <= RowCount => f[j + 1] # f[j] PROVE FALSE
    OBVIOUS
  <2> DEFINE T == {k \in Nat : k <= RowCount => IsFiniteSet(f[k]) /\ Cardinality(f[k]) >= k + 1}
  <2>1. 0 \in T
    <3>1. IsFiniteSet({n}) /\ Cardinality({n}) = 1
      BY FS_Singleton
    <3>2. IsFiniteSet(f[0]) /\ Cardinality(f[0]) >= 0 + 1
      BY <1>1, <3>1
    <3>. QED BY <3>2
  <2>2. ASSUME NEW k \in T PROVE k + 1 \in T
    <3>1. CASE k + 1 <= RowCount
      <4>1. Cardinality(f[k]) >= k + 1
        BY <1>2, <3>1
      <4>2. k \in 0..RowCount /\ k + 1 \in 0..RowCount
        BY <1>2, <3>1
      <4>3. f[k] \subseteq f[k + 1] /\ f[k + 1] \subseteq Nodes /\ f[k + 1] # f[k]
        BY <1>3, <1>4, <3>1, <4>2, LevelsGrow
      <4>4. IsFiniteSet(f[k + 1]) /\ Cardinality(f[k + 1]) \in Nat /\ Cardinality(f[k]) \in Nat
        BY <4>3, NodeAssumption, FS_Subset, FS_CardinalityType
      <4>5. /\ Cardinality(f[k]) <= Cardinality(f[k + 1])
            /\ Cardinality(f[k]) # Cardinality(f[k + 1])
        BY <4>3, <4>4, FS_Subset
      <4>6. Cardinality(f[k + 1]) >= (k + 1) + 1
        BY <4>1, <4>4, <4>5
      <4>. QED BY <4>4, <4>6
    <3>2. CASE ~(k + 1 <= RowCount)
      BY <3>2
    <3>. QED BY <3>1, <3>2
  <2>3. T \subseteq Nat
    OBVIOUS
  <2> HIDE DEF T
  <2>4. T = Nat
    BY <2>1, <2>2, <2>3, Induction
  <2>5. Cardinality(f[RowCount]) >= RowCount + 1
    BY <2>4, <1>2 DEF T
  <2>6. f[RowCount] \subseteq Nodes
    BY <1>2, <1>4
  <2>7. Cardinality(f[RowCount]) <= RowCount
    BY <2>6, NodeAssumption, FS_Subset DEF RowCount
  <2>8. Cardinality(f[RowCount]) \in Nat
    BY <2>6, NodeAssumption, FS_Subset, FS_CardinalityType
  <2>. QED BY <1>2, <2>5, <2>7, <2>8
<1>6. PICK j \in Nat : j + 1 <= RowCount /\ f[j + 1] = f[j]
  BY <1>5
<1>7. WithChildren(f[j]) = f[j]
  BY <1>3, <1>6
<1>8. \A k \in Nat : k >= j /\ k <= RowCount => f[k] = f[j]
  <2> DEFINE T == {k \in Nat : k >= j /\ k <= RowCount => f[k] = f[j]}
  <2>1. 0 \in T
    OBVIOUS
  <2>2. ASSUME NEW k \in T PROVE k + 1 \in T
    <3>1. CASE k + 1 <= RowCount /\ k >= j
      <4>1. f[k] = f[j]
        BY <1>2, <3>1
      <4>2. f[k + 1] = WithChildren(f[k])
        BY <1>3, <3>1
      <4>. QED BY <1>7, <4>1, <4>2
    <3>2. CASE k + 1 = j
      BY <3>2
    <3>3. CASE ~(k + 1 <= RowCount) \/ (~(k >= j) /\ k + 1 # j)
      BY <3>3
    <3>. QED BY <3>1, <3>2, <3>3
  <2>3. T \subseteq Nat
    OBVIOUS
  <2> HIDE DEF T
  <2>4. T = Nat
    BY <2>1, <2>2, <2>3, Induction
  <2>. QED BY <2>4 DEF T
<1>9. f[RowCount] = f[j]
  BY <1>2, <1>6, <1>8
<1>. QED BY <1>1, <1>2, <1>4, <1>7, <1>9

-----------------------------------------------------------------------------
(* What a delete and an insert leave.                                       *)

\* The live rows under a row of the subtree are in it.
LEMMA SubtreeTakesTheChildren ==
    ASSUME NEW n \in Nodes, NEW m \in Nodes, Live(m), nodes[m].parent \in Subtree(n)
    PROVE  m \in Subtree(n)
<1>1. m \in Children(nodes[m].parent)
  BY DEF Children
<1>2. m \in WithChildren(Subtree(n))
  BY <1>1 DEF WithChildren
<1>. QED BY <1>2, SubtreeIsClosed

\* A delete marks the rows it is given and leaves all else.
LEMMA TombstonedEffect ==
    ASSUME TreeTypeOK, NEW S, nodes' = Tombstoned(S)
    PROVE  /\ TreeTypeOK'
           /\ \A m \in Nodes : /\ nodes'[m].there = nodes[m].there /\ nodes'[m].parent = nodes[m].parent
                               /\ nodes'[m].deleted = IF m \in S THEN TRUE ELSE nodes[m].deleted
<1>1. ASSUME NEW m \in Nodes
      PROVE  /\ nodes'[m] \in Row
             /\ nodes'[m].there = nodes[m].there /\ nodes'[m].parent = nodes[m].parent
             /\ nodes'[m].deleted = IF m \in S THEN TRUE ELSE nodes[m].deleted
  <2>1. nodes[m] \in Row /\ nodes'[m] = IF m \in S THEN [nodes[m] EXCEPT !.deleted = TRUE] ELSE nodes[m]
    BY DEF TreeTypeOK, Tombstoned
  <2>. QED BY <2>1 DEF Row
<1>2. nodes' = [m \in Nodes |-> nodes'[m]]
  BY DEF Tombstoned
<1>. QED BY <1>1, <1>2 DEF TreeTypeOK

\* Deleting a subtree leaves nothing live under what it deletes.
LEMMA DeleteLeavesNoOrphan ==
    ASSUME TreeTypeOK, NoOrphans, NEW n \in Nodes, nodes' = Tombstoned(Subtree(n))
    PROVE  NoOrphans'
<1> DEFINE S == Subtree(n)
<1>1. \A m \in Nodes : /\ nodes'[m].there = nodes[m].there /\ nodes'[m].parent = nodes[m].parent
                       /\ nodes'[m].deleted = IF m \in S THEN TRUE ELSE nodes[m].deleted
  BY TombstonedEffect
<1> HIDE DEF S
<1>2. ASSUME NEW m \in Nodes \ {Root}, Live(m)' PROVE Live(nodes[m].parent)'
  <2>1. Live(m) /\ m \notin S
    BY <1>1, <1>2 DEF Live, There
  <2>2. Live(nodes[m].parent) /\ nodes[m].parent \in Nodes
    BY <2>1 DEF NoOrphans, Live, There
  <2>3. nodes[m].parent \notin S
    BY <2>1, SubtreeTakesTheChildren DEF S
  <2>. QED BY <1>1, <2>2, <2>3 DEF Live, There
<1>. QED BY <1>1, <1>2 DEF NoOrphans

-----------------------------------------------------------------------------
(* Ranks.                                                                   *)

\* The ranks under a row are finitely many numbers.
LEMMA RanksAreFinite ==
    ASSUME TreeTypeOK, NEW p
    PROVE  Ranks(p) \subseteq Int /\ IsFiniteSet(Ranks(p))
<1>1. Children(p) \in SUBSET Nodes
  BY DEF Children
<1>2. IsFiniteSet(Children(p))
  BY <1>1, NodeAssumption, FS_Subset
<1>3. Ranks(p) = {nodes[c].rank : c \in Children(p)}
  BY DEF Ranks
<1>4. IsFiniteSet({nodes[c].rank : c \in Children(p)})
  <2> DEFINE R == {nodes[c].rank : c \in Children(p)}
             f == [c \in Children(p) |-> nodes[c].rank]
  <2>1. f \in Surjection(Children(p), R)
    BY DEF Surjection
  <2>. QED BY <1>2, <2>1, FS_Surjection
<1>5. Ranks(p) \subseteq Int
  BY <1>1, <1>3 DEF TreeTypeOK, Row
<1>. QED BY <1>3, <1>4, <1>5

\* The rank at the top is before every child's, the one at the bottom behind every child's.
LEMMA RanksAreOutside ==
    ASSUME TreeTypeOK, NEW p
    PROVE  /\ FirstRank(p) \in Int /\ NextRank(p) \in Int
           /\ \A c \in Children(p) : FirstRank(p) < nodes[c].rank /\ nodes[c].rank < NextRank(p)
<1>1. Ranks(p) \subseteq Int /\ IsFiniteSet(Ranks(p))
  BY RanksAreFinite
<1>2. \A c \in Children(p) : nodes[c].rank \in Ranks(p)
  BY DEF Ranks
<1>3. CASE Ranks(p) = {}
  BY <1>2, <1>3 DEF FirstRank, NextRank
<1>4. CASE Ranks(p) # {}
  <2>1. PICK lo \in Ranks(p), hi \in Ranks(p) : \A x \in Ranks(p) : lo <= x /\ x <= hi
    BY <1>1, <1>4, FirstAndLast
  <2> DEFINE l == CHOOSE r \in Ranks(p) : \A q \in Ranks(p) : r <= q
             h == CHOOSE r \in Ranks(p) : \A q \in Ranks(p) : q <= r
  <2>2. l \in Ranks(p) /\ \A q \in Ranks(p) : l <= q
    BY <2>1
  <2>3. h \in Ranks(p) /\ \A q \in Ranks(p) : q <= h
    BY <2>1
  <2>4. FirstRank(p) = l - 1 /\ NextRank(p) = 1 + h
    BY <1>4 DEF FirstRank, NextRank
  <2> HIDE DEF l, h
  <2>5. l \in Int /\ h \in Int
    BY <1>1, <2>2, <2>3
  <2>6. ASSUME NEW c \in Children(p) PROVE FirstRank(p) < nodes[c].rank /\ nodes[c].rank < NextRank(p)
    <3>1. nodes[c].rank \in Int /\ l <= nodes[c].rank /\ nodes[c].rank <= h
      BY <1>1, <1>2, <2>2, <2>3
    <3>. QED BY <2>4, <2>5, <3>1
  <2>. QED BY <2>4, <2>5, <2>6
<1>. QED BY <1>3, <1>4

-----------------------------------------------------------------------------
(* The other statements.                                                    *)

\* The table is still one, and what was live is live.
Written == TreeTypeOK' /\ \A n \in Nodes : Live(n) => Live(n)'

\* A statement writes rows that are as live as those it found.
LEMMA StatementWrites ==
    ASSUME TreeTypeOK, NEW N, nodes' = [n \in Nodes |-> N[n]],
           \A n \in Nodes : N[n] \in Row /\ (Live(n) => N[n].there /\ ~N[n].deleted)
    PROVE  Written
<1>1. \A n \in Nodes : nodes'[n] = N[n]
  OBVIOUS
<1>2. TreeTypeOK'
  BY DEF TreeTypeOK
<1>. QED BY <1>1, <1>2 DEF Written, Live, There

\* One row is written.
LEMMA OneRowWritten ==
    ASSUME TreeTypeOK, NEW n, NEW row, nodes' = [nodes EXCEPT ![n] = row],
           n \in Nodes => row \in Row /\ (Live(n) => row.there /\ ~row.deleted)
    PROVE  Written
<1> DEFINE N == [m \in Nodes |-> IF m = n THEN row ELSE nodes[m]]
<1>1. nodes' = [m \in Nodes |-> N[m]]
  BY DEF TreeTypeOK
<1>2. ASSUME NEW m \in Nodes PROVE N[m] \in Row /\ (Live(m) => N[m].there /\ ~N[m].deleted)
  <2>1. CASE m = n
    BY <2>1
  <2>2. CASE m # n
    BY <2>2 DEF TreeTypeOK, Live, There
  <2>. QED BY <2>1, <2>2
<1> HIDE DEF N
<1>. QED BY <1>1, <1>2, StatementWrites

LEMMA ShiftAfterWrites ==
    ASSUME TreeTypeOK, NEW p, NEW r, nodes' = ShiftRanksAfter(p, r)
    PROVE  Written
<1> DEFINE N == [n \in Nodes |-> IF n \in Children(p) /\ nodes[n].rank > r
                                 THEN [nodes[n] EXCEPT !.rank = @ + 1] ELSE nodes[n]]
<1>1. nodes' = [n \in Nodes |-> N[n]]
  BY DEF ShiftRanksAfter
<1>2. ASSUME NEW n \in Nodes PROVE N[n] \in Row /\ (Live(n) => N[n].there /\ ~N[n].deleted)
  <2>1. nodes[n] \in Row
    BY DEF TreeTypeOK
  <2>2. [nodes[n] EXCEPT !.rank = @ + 1] \in Row
    BY <2>1 DEF Row
  <2>. QED BY <2>1, <2>2 DEF Row, Live, There
<1> HIDE DEF N
<1>. QED BY <1>1, <1>2, StatementWrites

LEMMA ShiftAllWrites ==
    ASSUME TreeTypeOK, NEW p, NEW k \in Int, nodes' = ShiftRanksAll(p, k)
    PROVE  Written
<1> DEFINE N == [n \in Nodes |-> IF n \in Children(p) THEN [nodes[n] EXCEPT !.rank = @ + k] ELSE nodes[n]]
<1>1. nodes' = [n \in Nodes |-> N[n]]
  BY DEF ShiftRanksAll
<1>2. ASSUME NEW n \in Nodes PROVE N[n] \in Row /\ (Live(n) => N[n].there /\ ~N[n].deleted)
  <2>1. nodes[n] \in Row
    BY DEF TreeTypeOK
  <2>2. [nodes[n] EXCEPT !.rank = @ + k] \in Row
    BY <2>1 DEF Row
  <2>. QED BY <2>1, <2>2 DEF Row, Live, There
<1> HIDE DEF N
<1>. QED BY <1>1, <1>2, StatementWrites

LEMMA ReparentedWrites ==
    ASSUME TreeTypeOK, NEW n, NEW p \in Nodes \cup {None}, NEW r \in Int, nodes' = Reparented(n, p, r)
    PROVE  Written
<1> DEFINE row == IF nodes[n].there THEN [nodes[n] EXCEPT !.parent = p, !.rank = r] ELSE nodes[n]
<1>1. nodes' = [nodes EXCEPT ![n] = row]
  BY DEF Reparented
<1>2. n \in Nodes => row \in Row /\ (Live(n) => row.there /\ ~row.deleted)
  BY DEF TreeTypeOK, Row, Live, There
<1> HIDE DEF row
<1>. QED BY <1>1, <1>2, OneRowWritten

\* Under a uuid nobody has used, or any other: an inserted row is live.
LEMMA InsertedWrites ==
    ASSUME TreeTypeOK, NEW c, NEW p \in Nodes \cup {None}, NEW r \in Int, NEW q \in {"top", "bottom"},
           NEW t \in Texts, nodes' = Inserted(c, p, r, q, t)
    PROVE  Written
<1> DEFINE row == [there |-> TRUE, parent |-> p, rank |-> r, deleted |-> FALSE,
                   lock |-> {}, prio |-> q, text |-> t]
<1>1. nodes' = [nodes EXCEPT ![c] = row]
  BY DEF Inserted
<1>2. row \in Row /\ row.there /\ ~row.deleted
  BY DEF Row
<1> HIDE DEF row
<1>. QED BY <1>1, <1>2, OneRowWritten

LEMMA PrioritizedWrites ==
    ASSUME TreeTypeOK, NEW n, NEW q \in {"top", "bottom"}, nodes' = Prioritized(n, q)
    PROVE  Written
<1> DEFINE row == IF nodes[n].there THEN [nodes[n] EXCEPT !.prio = q] ELSE nodes[n]
<1>1. nodes' = [nodes EXCEPT ![n] = row]
  BY DEF Prioritized
<1>2. n \in Nodes => row \in Row /\ (Live(n) => row.there /\ ~row.deleted)
  BY DEF TreeTypeOK, Row, Live, There
<1> HIDE DEF row
<1>. QED BY <1>1, <1>2, OneRowWritten

LEMMA RenamedWrites ==
    ASSUME TreeTypeOK, NEW n, NEW t \in Texts, nodes' = Renamed(n, t)
    PROVE  Written
<1> DEFINE row == IF nodes[n].there THEN [nodes[n] EXCEPT !.text = t] ELSE nodes[n]
<1>1. nodes' = [nodes EXCEPT ![n] = row]
  BY DEF Renamed
<1>2. n \in Nodes => row \in Row /\ (Live(n) => row.there /\ ~row.deleted)
  BY DEF TreeTypeOK, Row, Live, There
<1> HIDE DEF row
<1>. QED BY <1>1, <1>2, OneRowWritten

-----------------------------------------------------------------------------
(* The queue.                                                               *)

qVars == <<nodes, sugVars>>

SugFields == {"state", "kind", "target", "text", "base", "position", "result"}
RowFields == {"there", "parent", "rank", "deleted", "lock", "prio", "text"}

SugShape == DOMAIN sugs = Sugs /\ \A s \in Sugs : DOMAIN sugs[s] = SugFields
RowShape == DOMAIN nodes = Nodes /\ \A n \in Nodes : DOMAIN nodes[n] = RowFields
RevType  == rev \in [Reviewers -> Review \cup {Idle}]
Count    == applied \in [Sugs -> Nat]

QueueInv == SugShape /\ RevType /\ Count /\ AppliedOnce

\* What a step may do to the suggestion s.
Kept(s)       == sugs'[s] = sugs[s] /\ applied'[s] = applied[s]
Proposed(s)   == sugs[s].state = "none" /\ sugs'[s].state = "pending" /\ applied'[s] = applied[s]
TurnedDown(s) == Pending(s) /\ sugs'[s].state = "rejected" /\ applied'[s] = applied[s]
Approved(s)   == /\ Pending(s) /\ Applicable(s)
                 /\ sugs'[s].state = "approved" /\ applied'[s] = applied[s] + 1

-----------------------------------------------------------------------------
(* The statements on the suggestions table.                                *)

\* Mark settles the pending ones of S and leaves every other alone.
LEMMA MarkEffect ==
    ASSUME SugShape, NEW S, NEW v
    PROVE  /\ DOMAIN Mark(S, v) = Sugs
           /\ \A s \in Sugs : /\ DOMAIN Mark(S, v)[s] = SugFields
                              /\ s \in S /\ Pending(s) => Mark(S, v)[s].state = v
                              /\ ~(s \in S /\ Pending(s)) => Mark(S, v)[s] = sugs[s]
BY DEF SugShape, Mark, SugFields

\* An approval's sweep spares the suggestion that is approved.
LEMMA SweepEffect ==
    ASSUME SugShape, NEW s \in Sugs
    PROVE  /\ DOMAIN AfterSweep(s) = Sugs
           /\ AfterSweep(s)[s] = sugs[s]
           /\ \A t \in Sugs : /\ DOMAIN AfterSweep(s)[t] = SugFields
                              /\ \/ AfterSweep(s)[t] = sugs[t]
                                 \/ Pending(t) /\ AfterSweep(s)[t].state = "rejected"
<1> DEFINE S == About(Subtree(sugs[s].target)) \ {s}
<1>1. CASE sugs[s].kind = "remove"
  <2>1. AfterSweep(s) = Mark(S, "rejected")
    BY <1>1 DEF AfterSweep, SettledFor
  <2> HIDE DEF S
  <2>2. /\ DOMAIN Mark(S, "rejected") = Sugs
        /\ \A t \in Sugs : /\ DOMAIN Mark(S, "rejected")[t] = SugFields
                           /\ t \in S /\ Pending(t) => Mark(S, "rejected")[t].state = "rejected"
                           /\ ~(t \in S /\ Pending(t)) => Mark(S, "rejected")[t] = sugs[t]
    BY MarkEffect
  <2>3. s \notin S
    BY DEF S
  <2> QED BY <2>1, <2>2, <2>3
<1>2. CASE sugs[s].kind # "remove"
  <2>1. AfterSweep(s) = sugs
    BY <1>2 DEF AfterSweep
  <2> QED BY <2>1 DEF SugShape
<1> QED BY <1>1, <1>2

-----------------------------------------------------------------------------
(* What a step does to one suggestion.                                     *)

LEMMA MarkStep ==
    ASSUME QueueInv, NEW S, sugs' = Mark(S, "rejected"), applied' = applied
    PROVE  SugShape' /\ Count' /\ \A s \in Sugs : Kept(s) \/ TurnedDown(s)
<1>1. SugShape
  BY DEF QueueInv
<1>2. /\ DOMAIN Mark(S, "rejected") = Sugs
      /\ \A s \in Sugs : /\ DOMAIN Mark(S, "rejected")[s] = SugFields
                         /\ s \in S /\ Pending(s) => Mark(S, "rejected")[s].state = "rejected"
                         /\ ~(s \in S /\ Pending(s)) => Mark(S, "rejected")[s] = sugs[s]
  BY <1>1, MarkEffect
<1> QED BY <1>2 DEF QueueInv, SugShape, Count, Kept, TurnedDown

LEMMA StillStep ==
    ASSUME QueueInv, UNCHANGED <<sugs, applied>>
    PROVE  SugShape' /\ Count' /\ \A s \in Sugs : Kept(s)
BY DEF QueueInv, SugShape, Count, Kept

LEMMA ProposeStep ==
    ASSUME QueueInv, NEW p \in Proposers, Propose(p)
    PROVE  SugShape' /\ Count' /\ \A s \in Sugs : Kept(s) \/ Proposed(s)
BY DEF QueueInv, SugShape, Count, Kept, Proposed, Propose, SugFields

\* An approval marks the one suggestion it applies, whose change was not written.
LEMMA ApplyStep ==
    ASSUME QueueInv, NEW r \in Reviewers, Apply(r)
    PROVE  /\ SugShape' /\ Count'
           /\ rev[r].s \in Sugs /\ Approved(rev[r].s)
           /\ \A t \in Sugs \ {rev[r].s} : Kept(t) \/ TurnedDown(t)
<1> DEFINE s == rev[r].s
<1>1. s \in Sugs
  BY DEF QueueInv, RevType, Review, Idle, Apply
<1>2. SugShape /\ Count
  BY DEF QueueInv
<1> HIDE DEF s
<1>3. PICK c : sugs' = [AfterSweep(s) EXCEPT ![s].state = "approved", ![s].result = c]
  BY DEF Apply, s
<1>4. Commits(s) /\ applied' = [applied EXCEPT ![s] = @ + 1]
  BY DEF Apply, s
<1>5. /\ DOMAIN AfterSweep(s) = Sugs
      /\ AfterSweep(s)[s] = sugs[s]
      /\ \A t \in Sugs : /\ DOMAIN AfterSweep(s)[t] = SugFields
                         /\ \/ AfterSweep(s)[t] = sugs[t]
                            \/ Pending(t) /\ AfterSweep(s)[t].state = "rejected"
  BY <1>1, <1>2, SweepEffect
<1>6. DOMAIN sugs' = Sugs /\ \A t \in Sugs : DOMAIN sugs'[t] = SugFields
  BY <1>1, <1>3, <1>5 DEF SugFields
<1>7. sugs'[s].state = "approved"
  BY <1>1, <1>3, <1>5 DEF SugFields
<1>8. \A t \in Sugs \ {s} : sugs'[t] = AfterSweep(s)[t]
  BY <1>1, <1>3, <1>5
<1>9. Pending(s) /\ Applicable(s)
  BY <1>4, <1>5 DEF Commits, Pending
<1>10. /\ applied' \in [Sugs -> Nat] /\ applied'[s] = applied[s] + 1
       /\ \A t \in Sugs \ {s} : applied'[t] = applied[t]
  BY <1>1, <1>2, <1>4 DEF Count
<1>11. \A t \in Sugs \ {s} : Kept(t) \/ TurnedDown(t)
  BY <1>5, <1>8, <1>10 DEF Kept, TurnedDown
<1> QED BY <1>1, <1>6, <1>7, <1>9, <1>10, <1>11 DEF SugShape, Count, Approved, s

\* Nothing else can happen to a suggestion.
OneOfFour(s) == Kept(s) \/ Proposed(s) \/ TurnedDown(s) \/ Approved(s)

LEMMA QueueStep ==
    ASSUME QueueInv, [SuggestNext]_qVars
    PROVE  SugShape' /\ Count' /\ \A s \in Sugs : OneOfFour(s)
<1>1. CASE UNCHANGED <<sugs, applied>>
  BY <1>1, StillStep DEF OneOfFour
<1>2. ASSUME NEW p \in Proposers, Resolve(p) \/ Propose(p)
      PROVE  SugShape' /\ Count' /\ \A s \in Sugs : OneOfFour(s)
  <2>1. CASE Resolve(p)
    BY <2>1, <1>1 DEF Resolve
  <2>2. CASE Propose(p)
    BY <2>2, ProposeStep DEF OneOfFour
  <2> QED BY <1>2, <2>1, <2>2
<1>3. ASSUME NEW r \in Reviewers,
             Open(r) \/ CheckGone(r) \/ CheckDrift(r) \/ Apply(r) \/ Refused(r) \/ Reject(r)
      PROVE  SugShape' /\ Count' /\ \A s \in Sugs : OneOfFour(s)
  <2>1. CASE Open(r) \/ CheckGone(r) \/ CheckDrift(r) \/ Refused(r)
    BY <2>1, <1>1 DEF Open, CheckGone, CheckDrift, Refused
  <2>2. CASE Apply(r)
    BY <2>2, ApplyStep DEF OneOfFour
  <2>3. CASE Reject(r)
    BY <2>3, MarkStep DEF Reject, OneOfFour
  <2> QED BY <1>3, <2>1, <2>2, <2>3
<1>4. CASE OtherNext
  <2>1. ASSUME NEW n \in Nodes, RemoveTx(n)
        PROVE  SugShape' /\ Count' /\ \A s \in Sugs : OneOfFour(s)
    BY <2>1, MarkStep DEF RemoveTx, SettledFor, OneOfFour
  <2>2. ASSUME NEW n \in Nodes, NEW t \in Texts, Edit(n, t)
        PROVE  SugShape' /\ Count' /\ \A s \in Sugs : OneOfFour(s)
    BY <2>2, <1>1 DEF Edit, sugVars
  <2>3. ASSUME NEW n \in Nodes, NEW l \in SUBSET Locks, SetLock(n, l)
        PROVE  SugShape' /\ Count' /\ \A s \in Sugs : OneOfFour(s)
    BY <2>3, <1>1 DEF SetLock, sugVars
  <2>4. CASE Boot
    BY <2>4, MarkStep DEF Boot, OneOfFour
  <2> QED BY <1>4, <2>1, <2>2, <2>3, <2>4 DEF OtherNext
<1>5. CASE UNCHANGED qVars
  BY <1>5, <1>1 DEF qVars, sugVars
<1> QED BY <1>2, <1>3, <1>4, <1>5 DEF SuggestNext, ProposeNext, ReviewNext

\* A reviewer that is not idle has a suggestion in hand.
LEMMA RevStep ==
    ASSUME RevType, [SuggestNext]_qVars
    PROVE  RevType'
<1>1. CASE UNCHANGED rev
  BY <1>1 DEF RevType
<1>2. ASSUME NEW r \in Reviewers,
             Open(r) \/ CheckGone(r) \/ CheckDrift(r) \/ Apply(r) \/ Refused(r) \/ Reject(r)
      PROVE  RevType'
  <2>1. CASE Open(r)
    BY <2>1 DEF Open, RevType, Review, Idle
  <2>2. rev[r] \in Review \cup {Idle}
    BY DEF RevType
  <2>3. CASE CheckGone(r) \/ CheckDrift(r)
    <3>1. rev[r] \in Review
      BY <2>2, <2>3 DEF CheckGone, CheckDrift, Idle
    <3>2. ASSUME NEW l \in {"drift", "apply"}, Step(r, l)  PROVE RevType'
      BY <3>1, <3>2 DEF Step, RevType, Review
    <3>3. ASSUME Leave(r)  PROVE RevType'
      BY <3>3 DEF Leave, RevType
    <3> QED BY <2>3, <3>2, <3>3 DEF CheckGone, CheckDrift
  <2>4. CASE Apply(r) \/ Refused(r) \/ Reject(r)
    BY <2>4 DEF Apply, Refused, Reject, Leave, RevType
  <2> QED BY <1>2, <2>1, <2>3, <2>4
<1>3. CASE ProposeNext \/ OtherNext
  BY <1>1, <1>3 DEF ProposeNext, Resolve, Propose, OtherNext, RemoveTx, Edit, SetLock, Boot, sugVars
<1>4. CASE UNCHANGED qVars
  BY <1>4, <1>1 DEF qVars, sugVars
<1> QED BY <1>2, <1>3, <1>4 DEF SuggestNext, ReviewNext

\* The four things that can happen to a suggestion keep its count right.
LEMMA CountStep ==
    ASSUME Count, AppliedOnce, \A s \in Sugs : OneOfFour(s)
    PROVE  AppliedOnce'
<1> SUFFICES ASSUME NEW s \in Sugs
             PROVE  applied'[s] = IF sugs'[s].state = "approved" THEN 1 ELSE 0
  BY DEF AppliedOnce
<1>1. applied[s] = IF sugs[s].state = "approved" THEN 1 ELSE 0
  BY DEF AppliedOnce
<1>2. Kept(s) \/ Proposed(s) \/ TurnedDown(s) \/ Approved(s)
  BY DEF OneOfFour
<1> QED BY <1>1, <1>2 DEF Kept, Proposed, TurnedDown, Approved, Pending

-----------------------------------------------------------------------------
(* The theorems.                                                           *)

\* The queue invariant is inductive: it holds in every reachable state.
THEOREM QueueInvariance == SuggestSpec => []QueueInv
<1>1. SuggestInit => QueueInv
  <2> SUFFICES ASSUME SuggestInit  PROVE QueueInv
    OBVIOUS
  <2> DEFINE blank == Blank
  <2>1. blank.state = "none" /\ DOMAIN blank = SugFields
    BY DEF Blank, SugFields
  <2> HIDE DEF blank
  <2>2. DOMAIN sugs = Sugs /\ \A s \in Sugs : sugs[s] = blank
    BY DEF SuggestInit, blank
  <2>3. RevType /\ Count /\ \A s \in Sugs : applied[s] = 0
    BY DEF SuggestInit, RevType, Count
  <2> QED BY <2>1, <2>2, <2>3 DEF QueueInv, SugShape, AppliedOnce
<1>2. QueueInv /\ [SuggestNext]_qVars => QueueInv'
  BY QueueStep, RevStep, CountStep DEF QueueInv
<1> QED BY <1>1, <1>2, PTL DEF SuggestSpec, qVars

\* The change of a suggestion is written exactly once if it is approved and never
\* if it is not, however many reviewers, deletes and restarts meet on it.
THEOREM AppliedExactlyOnce == SuggestSpec => []AppliedOnce
BY QueueInvariance, PTL DEF QueueInv

\* A verdict is final: a settled suggestion never changes again.
THEOREM VerdictStands == SuggestSpec => VerdictIsFinal
<1>1. QueueInv /\ [SuggestNext]_qVars
        => [\A s \in Sugs : sugs[s].state \in Settled => sugs'[s] = sugs[s]]_qVars
  BY QueueStep DEF OneOfFour, Kept, Proposed, TurnedDown, Approved, Pending, Settled
<1> QED BY <1>1, QueueInvariance, PTL DEF SuggestSpec, VerdictIsFinal, qVars

-----------------------------------------------------------------------------
(* Deletes settle.                                                         *)

KindInv ==
    /\ \A s \in Sugs : sugs[s].kind \in Kinds
    /\ DOMAIN draft = Proposers
    /\ \A p \in Proposers : draft[p] = NoDraft \/ draft[p].kind \in Kinds

DeleteInv == QueueInv /\ RowShape /\ KindInv

LEMMA MarkKeepsKinds ==
    ASSUME SugShape, NEW S, NEW v
    PROVE  \A s \in Sugs : Mark(S, v)[s].kind = sugs[s].kind
BY DEF SugShape, Mark, SugFields

\* A proposal is one of the three kinds, and stays it.
LEMMA KindStep ==
    ASSUME SugShape, RevType, KindInv, [SuggestNext]_qVars
    PROVE  KindInv'
<1>1. CASE UNCHANGED <<sugs, draft>>
  BY <1>1 DEF KindInv
<1>2. ASSUME NEW S, sugs' = Mark(S, "rejected"), UNCHANGED draft  PROVE KindInv'
  BY <1>2, MarkKeepsKinds DEF KindInv
<1>3. ASSUME NEW p \in Proposers, Resolve(p)  PROVE KindInv'
  <2>1. PICK o \in Offers : draft' = [draft EXCEPT ![p] =
                [kind |-> o.kind, target |-> o.target, text |-> o.text, position |-> o.position,
                 base |-> IF o.kind = "change" THEN nodes[o.target].text ELSE o.text]]
    BY <1>3 DEF Resolve
  <2>2. o.kind \in Kinds
    BY OfferAssumption DEF Offer
  <2>3. UNCHANGED sugs
    BY <1>3 DEF Resolve
  <2> QED BY <2>1, <2>2, <2>3 DEF KindInv
<1>4. ASSUME NEW p \in Proposers, Propose(p)  PROVE KindInv'
  BY <1>4 DEF KindInv, Propose, SugShape
<1>5. ASSUME NEW r \in Reviewers, Apply(r)  PROVE KindInv'
  <2> DEFINE s == rev[r].s
  <2>1. s \in Sugs
    BY <1>5 DEF RevType, Review, Idle, Apply
  <2> HIDE DEF s
  <2>2. PICK c : sugs' = [AfterSweep(s) EXCEPT ![s].state = "approved", ![s].result = c]
    BY <1>5 DEF Apply, s
  <2>3. /\ DOMAIN AfterSweep(s) = Sugs
        /\ \A t \in Sugs : DOMAIN AfterSweep(s)[t] = SugFields
    BY <2>1, SweepEffect
  <2>4. \A t \in Sugs : AfterSweep(s)[t].kind = sugs[t].kind
    BY MarkKeepsKinds DEF AfterSweep, SettledFor
  <2>5. \A t \in Sugs : sugs'[t].kind = sugs[t].kind
    BY <2>1, <2>2, <2>3, <2>4 DEF SugFields
  <2> QED BY <1>5, <2>5 DEF KindInv, Apply
<1>6. ASSUME NEW r \in Reviewers,
             Open(r) \/ CheckGone(r) \/ CheckDrift(r) \/ Refused(r) \/ Reject(r)
      PROVE  KindInv'
  BY <1>6, <1>1, <1>2 DEF Open, CheckGone, CheckDrift, Refused, Reject
<1>7. CASE OtherNext
  BY <1>7, <1>1, <1>2 DEF OtherNext, RemoveTx, SettledFor, Edit, SetLock, Boot, sugVars
<1>8. CASE UNCHANGED qVars
  BY <1>8, <1>1 DEF qVars, sugVars
<1> QED BY <1>3, <1>4, <1>5, <1>6, <1>7, <1>8 DEF SuggestNext, ProposeNext, ReviewNext

\* Every statement on the nodes table leaves rows with the same fields.
LEMMA RowStep ==
    ASSUME RowShape, RevType, KindInv, [SuggestNext]_qVars
    PROVE  RowShape'
<1>1. CASE UNCHANGED nodes
  BY <1>1 DEF RowShape
<1>2. \A S : nodes' = Tombstoned(S) => RowShape'
  BY DEF Tombstoned, RowShape, RowFields
<1>3. \A n \in Nodes : \A t : nodes' = Renamed(n, t) => RowShape'
  BY DEF Renamed, RowShape, RowFields
<1>4. \A c \in Nodes : \A p, i, q, t : nodes' = Inserted(c, p, i, q, t) => RowShape'
  BY DEF Inserted, RowShape, RowFields
<1>5. ASSUME NEW n \in Nodes, NEW l \in SUBSET Locks, SetLock(n, l)  PROVE RowShape'
  BY <1>5 DEF SetLock, RowShape, RowFields
<1>6. ASSUME NEW r \in Reviewers, Apply(r)  PROVE RowShape'
  <2> DEFINE s == rev[r].s
             t == sugs[s].target
  <2>1. PICK c \in IF sugs[s].kind = "add" THEN Unused ELSE {None} : nodes' = AfterChange(s, c)
    BY <1>6 DEF Apply
  <2>2. There(t)
    BY <1>6 DEF Apply, Commits, Applicable, Live
  <2>3. t \in Nodes
    BY <2>2 DEF There
  <2>4. CASE sugs[s].kind = "add"
    <3>1. c \in Nodes
      BY <2>1, <2>4 DEF Unused
    <3>2. nodes' = Inserted(c, t, RankAt(t, Resolved(t, sugs[s].position)), "top", sugs[s].text)
      BY <2>1, <2>4 DEF AfterChange
    <3> QED BY <3>1, <3>2, <1>4
  <2>5. CASE sugs[s].kind = "remove"
    BY <2>1, <2>5, <1>2 DEF AfterChange
  <2>6. CASE sugs[s].kind = "change"
    BY <2>1, <2>3, <2>6, <1>3 DEF AfterChange
  <2>7. sugs[s].kind \in Kinds
    BY <1>6 DEF RevType, Review, Idle, Apply, KindInv
  <2> QED BY <2>4, <2>5, <2>6, <2>7 DEF Kinds
<1>7. CASE OtherNext
  BY <1>7, <1>1, <1>2, <1>3, <1>5 DEF OtherNext, RemoveTx, Edit, Boot
<1>8. CASE ProposeNext \/ UNCHANGED qVars
  BY <1>8, <1>1 DEF ProposeNext, Resolve, Propose, qVars
<1>9. ASSUME NEW r \in Reviewers, Open(r) \/ CheckGone(r) \/ CheckDrift(r) \/ Refused(r) \/ Reject(r)
      PROVE  RowShape'
  BY <1>9, <1>1 DEF Open, CheckGone, CheckDrift, Refused, Reject
<1> QED BY <1>6, <1>7, <1>8, <1>9 DEF SuggestNext, ReviewNext

\* Only tombstones are new: an insert takes a fresh uuid, and the other statements
\* leave the deleted flag alone.
LEMMA NotDeleted ==
    ASSUME RowShape, NEW n \in Nodes, Live(n)
    PROVE  /\ \A S : nodes' = Tombstoned(S) /\ nodes'[n].deleted => n \in S
           /\ \A c \in Unused : \A p, i, q, t : nodes' = Inserted(c, p, i, q, t) => ~nodes'[n].deleted
           /\ \A m \in Nodes : \A t : nodes' = Renamed(m, t) => ~nodes'[n].deleted
           /\ \A m \in Nodes : \A l : nodes' = [nodes EXCEPT ![m].lock = l] => ~nodes'[n].deleted
           /\ nodes' = nodes => ~nodes'[n].deleted
<1>1. nodes[n].there /\ ~nodes[n].deleted /\ DOMAIN nodes[n] = RowFields /\ DOMAIN nodes = Nodes
  BY DEF Live, There, RowShape
<1>2. \A S : nodes' = Tombstoned(S) /\ nodes'[n].deleted => n \in S
  BY <1>1 DEF Tombstoned
<1>3. \A c \in Unused : \A p, i, q, t : nodes' = Inserted(c, p, i, q, t) => ~nodes'[n].deleted
  BY <1>1 DEF Inserted, Unused
<1>4. \A m \in Nodes : \A t : nodes' = Renamed(m, t) => ~nodes'[n].deleted
  BY <1>1 DEF Renamed, RowFields
<1>5. \A m \in Nodes : \A l : nodes' = [nodes EXCEPT ![m].lock = l] => ~nodes'[n].deleted
  BY <1>1 DEF RowFields
<1> QED BY <1>1, <1>2, <1>3, <1>4, <1>5

\* The step that deletes a node leaves no pending suggestion about it.
LEMMA DeleteStep ==
    ASSUME DeleteInv, [SuggestNext]_qVars,
           NEW n \in Nodes, Live(n), nodes'[n].deleted,
           NEW s \in Sugs, sugs[s].target = n
    PROVE  sugs'[s].state # "pending"
<1>1. SugShape /\ RevType /\ RowShape /\ KindInv
  BY DEF DeleteInv, QueueInv
<1>2. ASSUME NEW S, s \in S, sugs' = Mark(S, "rejected")  PROVE sugs'[s].state # "pending"
  BY <1>1, <1>2, MarkEffect DEF Pending
<1>3. ASSUME NEW m \in Nodes, RemoveTx(m)  PROVE sugs'[s].state # "pending"
  <2>1. n \in Subtree(m)
    BY <1>1, <1>3, NotDeleted DEF RemoveTx
  <2> QED BY <1>2, <1>3, <2>1 DEF RemoveTx, SettledFor, About
<1>4. ASSUME NEW r \in Reviewers, Apply(r)  PROVE sugs'[s].state # "pending"
  <2> DEFINE a == rev[r].s
             t == sugs[a].target
  <2>1. a \in Sugs /\ Applicable(a)
    BY <1>1, <1>4 DEF RevType, Review, Idle, Apply, Commits
  <2>2. PICK c \in IF sugs[a].kind = "add" THEN Unused ELSE {None} :
              /\ nodes' = AfterChange(a, c)
              /\ sugs' = [AfterSweep(a) EXCEPT ![a].state = "approved", ![a].result = c]
    BY <1>4 DEF Apply
  <2>3. t \in Nodes
    BY <2>1 DEF Applicable, Live, There
  <2>4. sugs[a].kind = "remove" /\ n \in Subtree(t)
    <3>1. CASE sugs[a].kind = "add"
      <4>1. c \in Unused /\ nodes' = Inserted(c, t, RankAt(t, Resolved(t, sugs[a].position)), "top", sugs[a].text)
        BY <2>2, <3>1 DEF AfterChange
      <4> QED BY <1>1, <4>1, NotDeleted
    <3>2. CASE sugs[a].kind = "change"
      <4>1. nodes' = Renamed(t, sugs[a].text)
        BY <2>2, <3>2 DEF AfterChange
      <4> QED BY <1>1, <2>3, <4>1, NotDeleted
    <3>3. CASE sugs[a].kind = "remove"
      <4>1. nodes' = Tombstoned(Subtree(t))
        BY <2>2, <3>3 DEF AfterChange
      <4> QED BY <1>1, <3>3, <4>1, NotDeleted
    <3> QED BY <1>1, <2>1, <3>1, <3>2, <3>3 DEF KindInv, Kinds
  <2>5. CASE s = a
    BY <1>4, <2>5, ApplyStep DEF DeleteInv, Approved
  <2>6. CASE s # a
    <3>1. sugs'[s] = AfterSweep(a)[s]
      BY <1>1, <2>1, <2>2, <2>6, SweepEffect
    <3> DEFINE S == About(Subtree(t)) \ {a}
    <3>2. AfterSweep(a) = Mark(S, "rejected")
      BY <2>4 DEF AfterSweep, SettledFor
    <3>3. s \in S
      BY <2>4, <2>6 DEF About
    <3> HIDE DEF S
    <3>4. Mark(S, "rejected")[s].state # "pending"
      BY <1>1, <3>3, MarkEffect DEF Pending
    <3> QED BY <3>1, <3>2, <3>4
  <2> QED BY <2>5, <2>6
<1>5. nodes' # nodes
  BY <1>1, NotDeleted
<1>6. ASSUME NEW m \in Nodes, NEW t \in Texts, Edit(m, t)  PROVE FALSE
  BY <1>1, <1>6, NotDeleted DEF Edit
<1>7. ASSUME NEW m \in Nodes, NEW l \in SUBSET Locks, SetLock(m, l)  PROVE FALSE
  BY <1>1, <1>7, NotDeleted DEF SetLock
<1>8. ~ProposeNext /\ ~Boot /\ ~UNCHANGED qVars
  BY <1>5 DEF ProposeNext, Resolve, Propose, Boot, qVars
<1>9. \A r \in Reviewers : ~(Open(r) \/ CheckGone(r) \/ CheckDrift(r) \/ Refused(r) \/ Reject(r))
  BY <1>5 DEF Open, CheckGone, CheckDrift, Refused, Reject
<1> QED BY <1>3, <1>4, <1>6, <1>7, <1>8, <1>9 DEF SuggestNext, ReviewNext, OtherNext

\* The rows keep their fields and the suggestions their kinds.
THEOREM DeleteInvariance == SuggestSpec => []DeleteInv
<1>1. SuggestInit => RowShape /\ KindInv
  <2> SUFFICES ASSUME SuggestInit  PROVE RowShape /\ KindInv
    OBVIOUS
  <2>1. RowShape
    BY InitTreeAssumption DEF SuggestInit, RowShape, Row, RowFields
  <2>2. KindInv
    BY DEF SuggestInit, KindInv, Kinds, Blank
  <2> QED BY <2>1, <2>2
<1>2. DeleteInv /\ [SuggestNext]_qVars => (RowShape /\ KindInv)'
  BY RowStep, KindStep DEF DeleteInv, QueueInv
<1> QED BY <1>1, <1>2, QueueInvariance, PTL DEF SuggestSpec, qVars, DeleteInv

\* A delete settles every suggestion about what it deletes, in the same step.
THEOREM DeletesSettle == SuggestSpec => DeleteSettles
<1>1. DeleteInv /\ [SuggestNext]_qVars
        => [\A n \in Nodes : Live(n) /\ nodes'[n].deleted =>
               \A s \in Sugs : sugs[s].target = n => sugs'[s].state # "pending"]_qVars
  BY DeleteStep
<1> QED BY <1>1, DeleteInvariance, PTL DEF SuggestSpec, DeleteSettles, qVars

-----------------------------------------------------------------------------
(* The outline stays whole.                                                 *)

WholeInv == SuggestTypeOK /\ NoOrphans

\* Steps keep the types in any table, and in one without orphans they leave none.
StaysWhole == SuggestTypeOK' /\ (NoOrphans => NoOrphans')

\* A verdict keeps the table of suggestions what it is.
LEMMA MarkIsTyped ==
    ASSUME sugs \in [Sugs -> Sug], NEW S, NEW v \in Settled
    PROVE  Mark(S, v) \in [Sugs -> Sug]
<1>1. \A s \in Sugs : [sugs[s] EXCEPT !.state = v] \in Sug
  BY DEF Sug
<1>. QED BY <1>1 DEF Mark

LEMMA SweepIsTyped ==
    ASSUME sugs \in [Sugs -> Sug], NEW s \in Sugs
    PROVE  AfterSweep(s) \in [Sugs -> Sug]
BY MarkIsTyped DEF AfterSweep, SettledFor, Settled

\* A row whose text or lock is written stays where it is.
LEMMA RowWritten ==
    ASSUME SuggestTypeOK, NEW n \in Nodes, NEW row \in Row, nodes' = [nodes EXCEPT ![n] = row],
           row.there = nodes[n].there, row.parent = nodes[n].parent, row.deleted = nodes[n].deleted
    PROVE  TreeTypeOK' /\ (NoOrphans => NoOrphans')
<1>1. TreeTypeOK'
  BY DEF StaysWhole, SuggestTypeOK, TreeTypeOK
<1>2. \A m \in Nodes : /\ nodes'[m].there = nodes[m].there /\ nodes'[m].parent = nodes[m].parent
                       /\ nodes'[m].deleted = nodes[m].deleted
  BY DEF StaysWhole, SuggestTypeOK, TreeTypeOK
<1>3. \A x : Live(x)' <=> Live(x)
  BY <1>2 DEF Live, There
<1>4. NoOrphans => NoOrphans'
  BY <1>2, <1>3 DEF NoOrphans
<1>. QED BY <1>1, <1>4

LEMMA RenamedKeeps ==
    ASSUME SuggestTypeOK, NEW n \in Nodes, NEW t \in Texts, nodes' = Renamed(n, t)
    PROVE  TreeTypeOK' /\ (NoOrphans => NoOrphans')
<1> DEFINE row == IF nodes[n].there THEN [nodes[n] EXCEPT !.text = t] ELSE nodes[n]
<1>1. nodes[n] \in Row
  BY DEF StaysWhole, SuggestTypeOK, TreeTypeOK
<1>2. nodes' = [nodes EXCEPT ![n] = row]
  BY DEF Renamed
<1>3. /\ row \in Row /\ row.there = nodes[n].there /\ row.parent = nodes[n].parent
      /\ row.deleted = nodes[n].deleted
  BY <1>1 DEF Row
<1> HIDE DEF row
<1>. QED BY <1>2, <1>3, RowWritten

\* A node under a live one is no orphan, and nothing was under it before it was there.
LEMMA InsertedKeeps ==
    ASSUME SuggestTypeOK, NEW c \in Unused, NEW p \in Nodes, Live(p), NEW r \in Int, NEW t \in Texts,
           nodes' = Inserted(c, p, r, "top", t)
    PROVE  TreeTypeOK' /\ (NoOrphans => NoOrphans')
<1> DEFINE row == [there |-> TRUE, parent |-> p, rank |-> r, deleted |-> FALSE,
                   lock |-> {}, prio |-> "top", text |-> t]
<1>1. row \in Row /\ c \in Nodes /\ ~nodes[c].there
  BY DEF Row, Unused
<1>2. nodes' = [nodes EXCEPT ![c] = row]
  BY DEF Inserted
<1>3. row.there /\ row.parent = p /\ ~row.deleted
  OBVIOUS
<1> HIDE DEF row
<1>4. TreeTypeOK'
  BY <1>1, <1>2 DEF StaysWhole, SuggestTypeOK, TreeTypeOK
<1>5. \A m \in Nodes : nodes'[m] = IF m = c THEN row ELSE nodes[m]
  BY <1>1, <1>2 DEF StaysWhole, SuggestTypeOK, TreeTypeOK
<1>6. \A x : Live(x) => Live(x)'
  BY <1>1, <1>5 DEF Live, There
<1>7. ASSUME NoOrphans, NEW m \in Nodes \ {Root}, Live(m)' PROVE Live(nodes[m].parent)'
  <2>1. CASE m = c
    BY <1>3, <1>5, <1>6, <2>1
  <2>2. CASE m # c
    BY <1>5, <1>6, <1>7, <2>2 DEF Live, There, NoOrphans
  <2>. QED BY <2>1, <2>2
<1>8. NoOrphans => NoOrphans'
  BY <1>7 DEF NoOrphans
<1>. QED BY <1>4, <1>8

LEMMA DeletedKeeps ==
    ASSUME SuggestTypeOK, NEW n \in Nodes, nodes' = Tombstoned(Subtree(n))
    PROVE  TreeTypeOK' /\ (NoOrphans => NoOrphans')
BY TombstonedEffect, DeleteLeavesNoOrphan DEF StaysWhole, SuggestTypeOK

\* Where the nodes stay, so does their order.
LEMMA NodesStay ==
    ASSUME SuggestTypeOK, nodes' = nodes
    PROVE  TreeTypeOK' /\ (NoOrphans => NoOrphans')
BY DEF StaysWhole, SuggestTypeOK, TreeTypeOK, NoOrphans, Live, There

LEMMA InitWhole == SuggestInit => WholeInv
<1> SUFFICES ASSUME SuggestInit PROVE WholeInv
  OBVIOUS
<1>1. nodes \in [Nodes -> Row] /\ nodes[Root].text \in Texts /\ Root \in Nodes
  BY NodeAssumption, InitTreeAssumption DEF SuggestInit, Row
<1>2. Blank \in Sug
  BY <1>1 DEF Blank, Sug, Kinds, Positions, Settled
<1>3. SuggestTypeOK
  BY <1>1, <1>2 DEF SuggestInit, SuggestTypeOK, TreeTypeOK
<1>4. NoOrphans
  BY InitTreeIsWhole DEF SuggestInit, NoOrphans, Live, There
<1>. QED BY <1>3, <1>4 DEF WholeInv

\* Proposals are made of what is offered.
LEMMA ProposersKeep == ASSUME SuggestTypeOK, ProposeNext PROVE StaysWhole
<1>1. PICK p \in Proposers : Resolve(p) \/ Propose(p)
  BY DEF ProposeNext
<1>2. TreeTypeOK' /\ (NoOrphans => NoOrphans')
  BY <1>1, NodesStay DEF Resolve, Propose
<1>3. CASE Resolve(p)
  <2>1. PICK o \in Offers :
         /\ There(o.target)
         /\ draft' = [draft EXCEPT ![p] =
                [kind |-> o.kind, target |-> o.target, text |-> o.text, position |-> o.position,
                 base |-> IF o.kind = "change" THEN nodes[o.target].text ELSE o.text]]
    BY <1>3 DEF Resolve
  <2>2. /\ o.kind \in Kinds /\ o.target \in Nodes /\ o.text \in Texts /\ o.position \in Positions
        /\ nodes[o.target].text \in Texts
    BY OfferAssumption DEF Offer, StaysWhole, SuggestTypeOK, TreeTypeOK, Row
  <2>3. draft' \in [Proposers -> Draft \cup {NoDraft}]
    BY <2>1, <2>2 DEF Draft, StaysWhole, SuggestTypeOK
  <2>. QED BY <1>2, <1>3, <2>3 DEF StaysWhole, SuggestTypeOK, Resolve
<1>4. CASE Propose(p)
  <2>1. draft[p] \in Draft
    BY <1>4 DEF Propose, StaysWhole, SuggestTypeOK
  <2>2. PICK s \in Sugs :
            sugs' = [sugs EXCEPT ![s] =
                [state |-> "pending", kind |-> draft[p].kind, target |-> draft[p].target,
                 text |-> draft[p].text, base |-> draft[p].base,
                 position |-> draft[p].position, result |-> None]]
    BY <1>4 DEF Propose
  <2>3. sugs' \in [Sugs -> Sug]
    BY <2>1, <2>2 DEF Draft, Sug, StaysWhole, SuggestTypeOK
  <2>4. draft' \in [Proposers -> Draft \cup {NoDraft}]
    BY <1>4 DEF Propose, StaysWhole, SuggestTypeOK
  <2>. QED BY <1>2, <1>4, <2>3, <2>4 DEF StaysWhole, SuggestTypeOK, Propose
<1>. QED BY <1>1, <1>3, <1>4

\* What a reviewer has in hand is a suggestion.
LEMMA ReviewerHolds ==
    ASSUME SuggestTypeOK, NEW r \in Reviewers, rev[r].pc # "idle"
    PROVE  rev[r] \in Review /\ rev[r].s \in Sugs
BY DEF StaysWhole, SuggestTypeOK, Review, Idle

\* Looking at a suggestion, and leaving it, writes nothing.
LEMMA LookingKeeps ==
    ASSUME SuggestTypeOK, NEW r \in Reviewers,
           Open(r) \/ CheckGone(r) \/ CheckDrift(r) \/ Refused(r)
    PROVE  StaysWhole
<1>1. UNCHANGED <<nodes, sugs, draft, applied>>
  BY DEF Open, CheckGone, CheckDrift, Refused
<1>2. TreeTypeOK' /\ (NoOrphans => NoOrphans')
  BY <1>1, NodesStay
<1>3. rev \in [Reviewers -> Review \cup {Idle}]
  BY DEF StaysWhole, SuggestTypeOK
<1>4. CASE Open(r)
  <2>1. PICK s \in Sugs, l \in {"gone", "drift", "reject"}, f \in BOOLEAN :
            rev' = [rev EXCEPT ![r] = [pc |-> l, s |-> s, force |-> f]]
    BY <1>4 DEF Open
  <2>2. [pc |-> l, s |-> s, force |-> f] \in Review
    BY DEF Review
  <2>. QED BY <1>1, <1>2, <1>3, <2>1, <2>2 DEF StaysWhole, SuggestTypeOK
<1>5. CASE Leave(r)
  BY <1>1, <1>2, <1>3, <1>5 DEF StaysWhole, SuggestTypeOK, Leave
<1>6. CASE (CheckGone(r) \/ CheckDrift(r)) /\ (Step(r, "apply") \/ Step(r, "drift"))
  <2>1. rev[r] \in Review
    BY <1>6, ReviewerHolds DEF CheckGone, CheckDrift
  <2>2. [rev[r] EXCEPT !.pc = "apply"] \in Review /\ [rev[r] EXCEPT !.pc = "drift"] \in Review
    BY <2>1 DEF Review
  <2>. QED BY <1>1, <1>2, <1>3, <1>6, <2>2 DEF StaysWhole, SuggestTypeOK, Step
<1>. QED BY <1>4, <1>5, <1>6 DEF CheckGone, CheckDrift, Refused

\* An approval adds under a live node, deletes with all that is below, or writes a text.
LEMMA ApplyKeeps == ASSUME SuggestTypeOK, NEW r \in Reviewers, Apply(r) PROVE StaysWhole
<1> DEFINE s == rev[r].s
<1>1. rev[r].pc = "apply" /\ s \in Sugs /\ Applicable(s)
  BY ReviewerHolds DEF Apply, Commits
<1>2. PICK c \in IF sugs[s].kind = "add" THEN Unused ELSE {None} :
         /\ nodes' = AfterChange(s, c)
         /\ sugs' = [AfterSweep(s) EXCEPT ![s].state = "approved", ![s].result = c]
  BY DEF Apply
<1>3. applied' = [applied EXCEPT ![s] = @ + 1] /\ Leave(r) /\ draft' = draft
  BY DEF Apply
<1> HIDE DEF s
<1>4. sugs[s] \in Sug
  BY <1>1 DEF StaysWhole, SuggestTypeOK
<1> DEFINE t == sugs[s].target
<1>5. t \in Nodes /\ sugs[s].text \in Texts /\ sugs[s].kind \in Kinds /\ Live(t)
  BY <1>1, <1>4 DEF Sug, Applicable
<1>6. c \in Nodes \cup {None}
  BY <1>2 DEF Unused
<1>7. TreeTypeOK' /\ (NoOrphans => NoOrphans')
  <2>1. CASE sugs[s].kind = "add"
    <3>1. nodes' = Inserted(c, t, RankAt(t, Resolved(t, sugs[s].position)), "top", sugs[s].text)
      BY <1>2, <2>1 DEF AfterChange
    <3>2. RankAt(t, Resolved(t, sugs[s].position)) \in Int
      BY RanksAreOutside DEF RankAt, StaysWhole, SuggestTypeOK
    <3>3. c \in Unused
      BY <1>2, <2>1
    <3> HIDE DEF t
    <3>. QED BY <1>5, <3>1, <3>2, <3>3, InsertedKeeps
  <2>2. CASE sugs[s].kind = "remove"
    <3>1. nodes' = Tombstoned(Subtree(t))
      BY <1>2, <2>2 DEF AfterChange
    <3> HIDE DEF t
    <3>. QED BY <1>5, <3>1, DeletedKeeps
  <2>3. CASE sugs[s].kind = "change"
    <3>1. nodes' = Renamed(t, sugs[s].text)
      BY <1>2, <2>3 DEF AfterChange
    <3> HIDE DEF t
    <3>. QED BY <1>5, <3>1, RenamedKeeps
  <2>. QED BY <1>5, <2>1, <2>2, <2>3 DEF Kinds
<1>8. sugs' \in [Sugs -> Sug]
  <2>1. AfterSweep(s) \in [Sugs -> Sug]
    BY <1>1, SweepIsTyped DEF StaysWhole, SuggestTypeOK
  <2>2. [AfterSweep(s)[s] EXCEPT !.state = "approved", !.result = c] \in Sug
    BY <1>1, <1>6, <2>1 DEF Sug, Settled
  <2>3. sugs' = [AfterSweep(s) EXCEPT ![s] = [AfterSweep(s)[s] EXCEPT !.state = "approved", !.result = c]]
    BY <1>1, <1>2, <2>1
  <2>. QED BY <2>1, <2>2, <2>3
<1>9. applied' \in [Sugs -> Nat] /\ rev' \in [Reviewers -> Review \cup {Idle}]
  BY <1>1, <1>3 DEF StaysWhole, SuggestTypeOK, Leave
<1>. QED BY <1>3, <1>7, <1>8, <1>9 DEF StaysWhole, SuggestTypeOK

LEMMA RejectKeeps == ASSUME SuggestTypeOK, NEW r \in Reviewers, Reject(r) PROVE StaysWhole
<1>1. TreeTypeOK' /\ (NoOrphans => NoOrphans')
  BY NodesStay DEF Reject
<1>2. sugs' \in [Sugs -> Sug]
  BY MarkIsTyped DEF Reject, Settled, StaysWhole, SuggestTypeOK
<1>. QED BY <1>1, <1>2 DEF StaysWhole, SuggestTypeOK, Reject, Leave

LEMMA OthersKeep == ASSUME SuggestTypeOK, OtherNext PROVE StaysWhole
<1>1. ASSUME NEW n \in Nodes, RemoveTx(n) PROVE StaysWhole
  <2>1. TreeTypeOK' /\ (NoOrphans => NoOrphans')
    BY <1>1, DeletedKeeps DEF RemoveTx
  <2>2. sugs' \in [Sugs -> Sug]
    BY <1>1, MarkIsTyped DEF RemoveTx, SettledFor, Settled, StaysWhole, SuggestTypeOK
  <2>. QED BY <1>1, <2>1, <2>2 DEF StaysWhole, SuggestTypeOK, RemoveTx
<1>2. ASSUME NEW n \in Nodes, NEW t \in Texts, Edit(n, t) PROVE StaysWhole
  <2>1. TreeTypeOK' /\ (NoOrphans => NoOrphans')
    BY <1>2, RenamedKeeps DEF Edit
  <2>. QED BY <1>2, <2>1 DEF StaysWhole, SuggestTypeOK, Edit, sugVars
<1>3. ASSUME NEW n \in Nodes, NEW l \in SUBSET Locks, SetLock(n, l) PROVE StaysWhole
  <2> DEFINE row == [nodes[n] EXCEPT !.lock = l]
  <2>1. nodes[n] \in Row
    BY DEF StaysWhole, SuggestTypeOK, TreeTypeOK
  <2>2. nodes' = [nodes EXCEPT ![n] = row]
    BY <1>3 DEF SetLock
  <2>3. /\ row \in Row /\ row.there = nodes[n].there /\ row.parent = nodes[n].parent
        /\ row.deleted = nodes[n].deleted
    BY <2>1 DEF Row
  <2> HIDE DEF row
  <2>4. TreeTypeOK' /\ (NoOrphans => NoOrphans')
    BY <2>2, <2>3, RowWritten
  <2>. QED BY <1>3, <2>4 DEF StaysWhole, SuggestTypeOK, SetLock, sugVars
<1>4. CASE Boot
  <2>1. TreeTypeOK' /\ (NoOrphans => NoOrphans')
    BY <1>4, NodesStay DEF Boot
  <2>2. sugs' \in [Sugs -> Sug]
    BY <1>4, MarkIsTyped DEF Boot, Settled, StaysWhole, SuggestTypeOK
  <2>. QED BY <1>4, <2>1, <2>2 DEF StaysWhole, SuggestTypeOK, Boot
<1>. QED BY <1>1, <1>2, <1>3, <1>4 DEF OtherNext

LEMMA NextWhole == SuggestTypeOK /\ [SuggestNext]_qVars => StaysWhole
<1> SUFFICES ASSUME SuggestTypeOK, [SuggestNext]_qVars PROVE StaysWhole
  OBVIOUS
<1>1. CASE ProposeNext
  BY <1>1, ProposersKeep
<1>2. CASE ReviewNext
  BY <1>2, LookingKeeps, ApplyKeeps, RejectKeeps DEF ReviewNext
<1>3. CASE OtherNext
  BY <1>3, OthersKeep
<1>4. CASE UNCHANGED qVars
  BY <1>4, NodesStay DEF qVars, sugVars, StaysWhole, SuggestTypeOK
<1>. QED BY <1>1, <1>2, <1>3, <1>4 DEF SuggestNext

\* An approval that nothing stands against when it is written ends approved.
LEMMA LandsStep ==
    ASSUME SuggestTypeOK, [SuggestNext]_qVars, NEW r \in Reviewers,
           rev[r].pc = "apply", rev'[r] = Idle, Pending(rev[r].s), Live(sugs[rev[r].s].target),
           nodes[sugs[rev[r].s].target].lock = {}, Unused # {}
    PROVE  sugs'[rev[r].s].state = "approved"
<1> DEFINE s == rev[r].s
<1>1. s \in Sugs
  BY ReviewerHolds
<1>2. rev[r] # Idle
  BY DEF Idle
<1>3. Commits(s)
  <2>1. AfterSweep(s)[s] = sugs[s]
    <3>1. CASE sugs[s].kind = "remove"
      BY <1>1, <3>1 DEF AfterSweep, SettledFor, Mark
    <3>2. CASE sugs[s].kind # "remove"
      BY <3>2 DEF AfterSweep
    <3>. QED BY <3>1, <3>2
  <2>. QED BY <2>1 DEF Commits, Applicable, Pending
<1>4. PICK q \in Reviewers : Open(q) \/ CheckGone(q) \/ CheckDrift(q) \/ Apply(q) \/ Refused(q) \/ Reject(q)
  BY <1>2 DEF SuggestNext, ProposeNext, OtherNext, ReviewNext, Resolve, Propose, RemoveTx, Edit, SetLock, Boot,
              qVars, sugVars
<1>5. q = r
  BY <1>2, <1>4 DEF Open, CheckGone, CheckDrift, Apply, Refused, Reject, Step, Leave, SuggestTypeOK
<1>6. Apply(r)
  BY <1>2, <1>3, <1>4, <1>5 DEF Open, CheckGone, CheckDrift, Refused, Reject
<1> HIDE DEF s
<1>7. PICK c : sugs' = [AfterSweep(s) EXCEPT ![s].state = "approved", ![s].result = c]
  BY <1>6 DEF Apply, s
<1>8. AfterSweep(s) \in [Sugs -> Sug]
  BY <1>1, SweepIsTyped DEF SuggestTypeOK
<1>9. sugs'[s] = [AfterSweep(s)[s] EXCEPT !.state = "approved", !.result = c]
  BY <1>1, <1>7, <1>8
<1>10. sugs'[s].state = "approved"
  BY <1>1, <1>8, <1>9 DEF Sug
<1>. QED BY <1>10 DEF s

\* The step that approves s writes what was proposed and nothing beside it.
LEMMA WrittenStep ==
    ASSUME SuggestTypeOK, [SuggestNext]_qVars, NEW s \in Sugs, Pending(s), sugs'[s].state = "approved"
    PROVE  AsProposed(s)
<1> DEFINE t == sugs[s].target
<1>1. sugs[s] \in Sug /\ sugs[s].state = "pending"
  BY DEF Pending, SuggestTypeOK
<1>2. PICK r \in Reviewers : Apply(r) /\ rev[r].s = s
  <2>1. PICK r \in Reviewers : Apply(r)
    <3>1. ASSUME NEW p \in Proposers, Resolve(p) \/ Propose(p) PROVE FALSE
      BY <1>1, <3>1 DEF Resolve, Propose, SuggestTypeOK, sugVars
    <3>2. ASSUME OtherNext PROVE FALSE
      BY <1>1, <3>2 DEF OtherNext, RemoveTx, Edit, SetLock, Boot, SettledFor, Mark, Pending, sugVars,
                        SuggestTypeOK, Sug
    <3>3. ASSUME NEW r \in Reviewers, Open(r) \/ CheckGone(r) \/ CheckDrift(r) \/ Refused(r)
          PROVE  FALSE
      BY <1>1, <3>3 DEF Open, CheckGone, CheckDrift, Refused
    <3>4. ASSUME NEW r \in Reviewers, Reject(r) PROVE FALSE
      BY <1>1, <3>4 DEF Reject, Mark, Pending, SuggestTypeOK, Sug
    <3>. QED BY <1>1, <3>1, <3>2, <3>3, <3>4 DEF SuggestNext, ProposeNext, ReviewNext, qVars, sugVars
  <2>2. rev[r].s = s
    <3> DEFINE q == rev[r].s
    <3>1. q \in Sugs
      BY <2>1, ReviewerHolds DEF Apply
    <3>2. PICK c : sugs' = [AfterSweep(q) EXCEPT ![q].state = "approved", ![q].result = c]
      BY <2>1 DEF Apply
    <3>3. ASSUME q # s PROVE sugs'[s] = sugs[s] \/ sugs'[s].state = "rejected"
      <4>1. AfterSweep(q) \in [Sugs -> Sug]
        BY <3>1, SweepIsTyped DEF SuggestTypeOK
      <4> HIDE DEF q
      <4>2. sugs'[s] = AfterSweep(q)[s]
        BY <3>2, <3>3, <4>1
      <4>. QED BY <1>1, <4>2 DEF AfterSweep, SettledFor, Mark, Sug
    <3>. QED BY <1>1, <3>3
  <2>. QED BY <2>1, <2>2
<1>3. PICK c \in IF sugs[s].kind = "add" THEN Unused ELSE {None} :
         /\ nodes' = AfterChange(s, c)
         /\ sugs' = [AfterSweep(s) EXCEPT ![s].state = "approved", ![s].result = c]
  BY <1>2 DEF Apply
<1>4. AfterSweep(s) \in [Sugs -> Sug]
  BY SweepIsTyped DEF SuggestTypeOK
<1>5. sugs'[s].result = c /\ \A q \in Sugs \ {s} : sugs'[q] = AfterSweep(s)[q]
  BY <1>3, <1>4 DEF Sug
<1>6. t \in Nodes /\ sugs[s].text \in Texts /\ sugs[s].kind \in Kinds /\ nodes \in [Nodes -> Row]
  BY <1>1 DEF Sug, SuggestTypeOK, TreeTypeOK
<1>7. nodes[t].there
  BY <1>2 DEF Apply, Commits, Applicable, Live, There
<1>8. CASE sugs[s].kind = "add"
  <2> DEFINE x == RankAt(t, Resolved(t, sugs[s].position))
  <2>1. nodes' = Inserted(c, t, x, "top", sugs[s].text) /\ c \in Unused /\ c \in Nodes
    BY <1>3, <1>8 DEF AfterChange, Unused
  <2>2. \A k \in Children(t) : IF Resolved(t, sugs[s].position) = "top" THEN x < nodes[k].rank
                                                                     ELSE nodes[k].rank < x
    BY RanksAreOutside DEF RankAt, SuggestTypeOK
  <2> HIDE DEF x, t
  <2>3. /\ nodes'[c] = [there |-> TRUE, parent |-> t, rank |-> x, deleted |-> FALSE,
                        lock |-> {}, prio |-> "top", text |-> sugs[s].text]
        /\ \A n \in Nodes \ {c} : nodes'[n] = nodes[n]
    BY <1>6, <2>1 DEF Inserted
  <2>4. AfterSweep(s) = sugs
    BY <1>8 DEF AfterSweep
  <2>. QED BY <1>5, <1>8, <2>1, <2>2, <2>3, <2>4 DEF AsProposed, t
<1>9. CASE sugs[s].kind = "change"
  <2>1. nodes' = Renamed(t, sugs[s].text) /\ AfterSweep(s) = sugs
    BY <1>3, <1>9 DEF AfterChange, AfterSweep
  <2> HIDE DEF t
  <2>2. nodes[t] \in Row
    BY <1>6
  <2>3. nodes'[t] = [nodes[t] EXCEPT !.text = sugs[s].text] /\ \A n \in Nodes \ {t} : nodes'[n] = nodes[n]
    BY <1>6, <1>7, <2>1 DEF Renamed
  <2>4. nodes'[t].text = sugs[s].text
    BY <2>2, <2>3 DEF Row
  <2>5. nodes'[t] = [nodes[t] EXCEPT !.text = nodes'[t].text]
    BY <2>3, <2>4
  <2>6. \A q \in Sugs \ {s} : sugs'[q] = sugs[q]
    BY <1>5, <2>1
  <2>7. sugs[s].kind # "add" /\ sugs[s].kind # "remove"
    BY <1>9
  <2>8. \A n \in Nodes : IF n = t THEN /\ nodes'[n].text = sugs[s].text
                                      /\ nodes'[n] = [nodes[n] EXCEPT !.text = nodes'[n].text]
                                 ELSE nodes'[n] = nodes[n]
    BY <2>3, <2>4, <2>5
  <2>. QED BY <2>6, <2>7, <2>8 DEF AsProposed, t
<1>10. CASE sugs[s].kind = "remove"
  <2>1. nodes' = Tombstoned(Subtree(t)) /\ AfterSweep(s) = SettledFor(Subtree(t), {s})
    BY <1>3, <1>10 DEF AfterChange, AfterSweep
  <2> DEFINE gone == Subtree(t)
  <2> HIDE DEF gone, t
  <2>2. \A n \in Nodes : nodes'[n] = IF n \in gone THEN [nodes[n] EXCEPT !.deleted = TRUE] ELSE nodes[n]
    BY <2>1 DEF Tombstoned, gone
  <2>3. \A q \in Sugs \ {s} : sugs'[q] # sugs[q] => sugs[q].target \in gone /\ sugs'[q].state = "rejected"
    <3> SUFFICES ASSUME NEW q \in Sugs \ {s}, sugs'[q] # sugs[q]
                 PROVE  sugs[q].target \in gone /\ sugs'[q].state = "rejected"
      OBVIOUS
    <3>1. sugs'[q] = SettledFor(gone, {s})[q]
      BY <1>5, <2>1 DEF gone
    <3>2. q \in About(gone) /\ sugs'[q] = [sugs[q] EXCEPT !.state = "rejected"]
      BY <3>1 DEF SettledFor, Mark
    <3>3. sugs[q] \in Sug
      BY DEF SuggestTypeOK
    <3>. QED BY <3>2, <3>3 DEF About, Sug
  <2>. QED BY <1>10, <2>2, <2>3 DEF AsProposed, gone, t
<1>. QED BY <1>6, <1>8, <1>9, <1>10 DEF Kinds

\* For any number of suggestions, proposers and reviewers, on any outline of any size: an approval nothing
\* stands against lands, it writes what was proposed where it was proposed and nothing beside it, and
\* approvals and deletes leave no live node under a tombstone.
THEOREM ApprovalsAlwaysHold == SuggestSpec => ApprovalsHold
<1>1. SuggestInit => WholeInv
  BY InitWhole
<1>2. WholeInv /\ [SuggestNext]_qVars => WholeInv'
  BY NextWhole DEF WholeInv, StaysWhole
<1>3. WholeInv /\ [SuggestNext]_qVars =>
        [\A r \in Reviewers :
          rev[r].pc = "apply" /\ rev'[r] = Idle =>
             LET s == rev[r].s IN
             Pending(s) /\ Live(sugs[s].target) /\ nodes[sugs[s].target].lock = {} /\ Unused # {}
                => sugs'[s].state = "approved"]_qVars
  BY LandsStep DEF WholeInv
<1>4. WholeInv => SuggestTypeOK /\ NothingUnderATombstone
  BY DEF WholeInv, NothingUnderATombstone
<1>5. WholeInv /\ [SuggestNext]_qVars =>
        [\A s \in Sugs : Pending(s) /\ sugs'[s].state = "approved" => AsProposed(s)]_qVars
  BY WrittenStep DEF WholeInv
<1>. QED BY <1>1, <1>2, <1>3, <1>4, <1>5, PTL
     DEF SuggestSpec, ApprovalsHold, ApprovalLands, WritesAsProposed, qVars

-----------------------------------------------------------------------------
(* The queue in its outline.                                               *)

\* What a running command has in hand.
CommandInHand(r) ==
    /\ r.pc # "remove" => r.parent \in Nodes
    /\ r.pc = "sibling" => r.after \in Nodes
    /\ r.node = None => r.lines # 0
    /\ r.pc = "insert" => r.node = None
    /\ r.pc = "parent" => r.node # None

CommandsInHand == \A c \in Shells : cmd[c] # NoCmd => CommandInHand(cmd[c])

OutlineInv == OutlineTypeOK /\ AppliedOnce /\ CommandsInHand

\* The types are those of the parts, and all that the queue's own proofs ask for.
LEMMA QueueIsTyped ==
    ASSUME OutlineInv
    PROVE  /\ SuggestTypeOK /\ HttpTypeOK /\ CmdTypeOK /\ TreeTypeOK
           /\ QueueInv /\ DeleteInv
<1>1. SuggestTypeOK /\ HttpTypeOK /\ CmdTypeOK /\ TreeTypeOK
  BY DEF OutlineInv, OutlineTypeOK, SuggestTypeOK
<1>2. SugShape
  <2>1. \A s \in Sugs : DOMAIN sugs[s] = SugFields
    BY <1>1 DEF SuggestTypeOK, Sug, SugFields
  <2>. QED BY <1>1, <2>1 DEF SugShape, SuggestTypeOK
<1>3. RowShape
  <2>1. \A n \in Nodes : DOMAIN nodes[n] = RowFields
    BY <1>1 DEF TreeTypeOK, Row, RowFields
  <2>. QED BY <1>1, <2>1 DEF RowShape, TreeTypeOK
<1>4. KindInv
  BY <1>1 DEF KindInv, SuggestTypeOK, Sug, Draft
<1>5. RevType /\ Count /\ AppliedOnce
  BY <1>1 DEF OutlineInv, SuggestTypeOK, RevType, Count
<1>. QED BY <1>1, <1>2, <1>3, <1>4, <1>5 DEF QueueInv, DeleteInv

LEMMA InitOutline == OutlineInit => OutlineInv
<1> SUFFICES ASSUME OutlineInit PROVE OutlineInv
  OBVIOUS
<1>1. SuggestTypeOK
  BY InitWhole DEF OutlineInit, WholeInv
<1>2. HttpTypeOK /\ CmdTypeOK
  BY <1>1, HttpAssumption, CommandAssumption DEF OutlineInit, HttpInit, CmdInit, HttpTypeOK, CmdTypeOK, SuggestTypeOK
<1>3. AppliedOnce
  BY DEF OutlineInit, SuggestInit, AppliedOnce, Blank
<1>4. CommandsInHand
  BY DEF OutlineInit, CmdInit, CommandsInHand
<1>. QED BY <1>1, <1>2, <1>3, <1>4 DEF OutlineInv, OutlineTypeOK

-----------------------------------------------------------------------------
(* The requests of the HTTP API.                                            *)

\* What a handler's step leaves: a table as live as it was, but for a delete.
HttpEffect ==
    /\ TreeTypeOK'
    /\ req' \in [Handlers -> Request \cup {NoReq}] /\ sent' \in 0..MaxRequests

LEMMA HandlerHolds ==
    ASSUME OutlineInv, NEW h \in Handlers, req[h].pc # "idle"
    PROVE  req[h] \in Request
BY DEF OutlineInv, OutlineTypeOK, HttpTypeOK, NoReq

\* A handler puts down what it has in hand.
LEMMA HandlerPuts ==
    ASSUME OutlineInv, NEW h \in Handlers, NEW r \in Request \cup {NoReq}, Keeps(h, r)
    PROVE  req' \in [Handlers -> Request \cup {NoReq}]
BY DEF OutlineInv, OutlineTypeOK, HttpTypeOK, Keeps

LEMMA AcceptPuts ==
    ASSUME OutlineInv, NEW h \in Handlers, NEW r \in Request, Accept(h, r)
    PROVE  HttpEffect /\ UNCHANGED <<nodes, sugVars>>
<1>1. sent \in 0..MaxRequests /\ sent < MaxRequests /\ sent' = sent + 1
  BY DEF OutlineInv, OutlineTypeOK, HttpTypeOK, Accept
<1>2. sent' \in 0..MaxRequests
  BY <1>1, HttpAssumption
<1>. QED BY <1>2 DEF OutlineInv, OutlineTypeOK, HttpTypeOK, Accept, HttpEffect, TreeTypeOK

\* A request as it is taken is one.
LEMMA AskedIsARequest ==
    ASSUME TreeTypeOK, NEW l \in {"walk", "place", "patch", "subtree"}
    PROVE  Asked(l) \in Request
<1>1. nodes[Root].text \in Texts
  BY NodeAssumption DEF TreeTypeOK, Row
<1>2. <<>> \in Seq(Nodes)
  OBVIOUS
<1>. QED BY <1>1, <1>2 DEF Asked, Request, Positions

LEMMA ReceiveStep ==
    ASSUME OutlineInv, NEW h \in Handlers, Receive(h)
    PROVE  HttpEffect /\ UNCHANGED <<nodes, sugVars>>
<1>1. TreeTypeOK
  BY QueueIsTyped
<1>2. ASSUME NEW w \in Places PROVE w[1] \in Nodes \cup {None} /\ w[2] \in Positions
  <2>1. CASE w \in {<<n, "">> : n \in Named}
    <3>1. PICK n \in Named : w = <<n, "">>
      BY <2>1
    <3>2. n \in Nodes /\ "" \in Positions
      BY HttpAssumption DEF Positions
    <3>. QED BY <3>1, <3>2
  <2>2. CASE w \in {<<None, q>> : q \in Positions}
    BY <2>2
  <2>. QED BY <2>1, <2>2 DEF Places
<1>3. CASE Create(h)
  <2>1. PICK p \in Nodes, w \in Places :
            Accept(h, [Asked("place") EXCEPT !.parent = p, !.after = w[1], !.position = w[2]])
    BY <1>3 DEF Create
  <2> DEFINE r == [Asked("place") EXCEPT !.parent = p, !.after = w[1], !.position = w[2]]
  <2>2. r \in Request
    BY <1>1, <1>2, AskedIsARequest DEF Request
  <2> HIDE DEF r
  <2>. QED BY <2>1, <2>2, AcceptPuts DEF r
<1>4. CASE Move(h)
  <2>1. PICK n \in Named, p \in {m \in Nodes : There(m)} \cup {None}, w \in Places :
            LET dest == IF p = None THEN nodes[n].parent ELSE p IN
            Accept(h, [Asked("walk") EXCEPT !.node = n, !.parent = dest, !.at = dest,
                                            !.after = w[1], !.position = w[2]])
    BY <1>4 DEF Move
  <2> DEFINE dest == IF p = None THEN nodes[n].parent ELSE p
             r == [Asked("walk") EXCEPT !.node = n, !.parent = dest, !.at = dest,
                                        !.after = w[1], !.position = w[2]]
  <2>2. n \in Nodes /\ dest \in Nodes \cup {None}
    BY <1>1, HttpAssumption DEF TreeTypeOK, Row
  <2>3. r \in Request
    <3> HIDE DEF dest
    <3>. QED BY <1>1, <1>2, <2>2, AskedIsARequest DEF Request
  <2>4. Accept(h, r)
    BY <2>1
  <2> HIDE DEF r
  <2>. QED BY <2>3, <2>4, AcceptPuts
<1>5. CASE Patch(h)
  <2>1. PICK n \in Named, t \in Texts, q \in Positions :
            Accept(h, [Asked("patch") EXCEPT !.node = n, !.text = t, !.position = q])
    BY <1>5 DEF Patch
  <2> DEFINE r == [Asked("patch") EXCEPT !.node = n, !.text = t, !.position = q]
  <2>2. r \in Request
    BY <1>1, AskedIsARequest, HttpAssumption DEF Request
  <2> HIDE DEF r
  <2>. QED BY <2>1, <2>2, AcceptPuts DEF r
<1>6. CASE Delete(h)
  <2>1. PICK n \in Named :
            Accept(h, [Asked("subtree") EXCEPT !.node = n, !.todo = <<n>>, !.got = {n}])
    BY <1>6 DEF Delete
  <2> DEFINE r == [Asked("subtree") EXCEPT !.node = n, !.todo = <<n>>, !.got = {n}]
  <2>2. n \in Nodes /\ <<n>> \in Seq(Nodes)
    BY HttpAssumption
  <2>3. r \in Request
    BY <1>1, <2>2, AskedIsARequest DEF Request
  <2> HIDE DEF r
  <2>. QED BY <2>1, <2>3, AcceptPuts DEF r
<1>. QED BY <1>3, <1>4, <1>5, <1>6 DEF Receive

\* A query changes only what the handler has in hand.
LEMMA HandlerReads ==
    ASSUME OutlineInv, NEW h \in Handlers, NEW r \in Request \cup {NoReq}, Keeps(h, r), Reading
    PROVE  HttpEffect /\ UNCHANGED <<nodes, sugVars>>
BY HandlerPuts DEF OutlineInv, OutlineTypeOK, HttpTypeOK, Reading, HttpEffect, TreeTypeOK, sugVars

\* A statement writes rows.
LEMMA HandlerWrites ==
    ASSUME OutlineInv, NEW h \in Handlers, NEW r \in Request \cup {NoReq}, Keeps(h, r), Writing, Written
    PROVE  HttpEffect /\ UNCHANGED sugVars
BY HandlerPuts DEF OutlineInv, OutlineTypeOK, HttpTypeOK, Writing, HttpEffect, Written

\* What a request has in it.
LEMMA RequestHas ==
    ASSUME NEW r \in Request
    PROVE  /\ r.node \in Nodes \cup {None} /\ r.parent \in Nodes \cup {None} /\ r.after \in Nodes \cup {None}
           /\ r.at \in Nodes \cup {None} /\ r.position \in Positions /\ r.rank \in Int /\ r.text \in Texts
           /\ r.todo \in Seq(Nodes) /\ r.got \subseteq Nodes
BY DEF Request

LEMMA WalkStep ==
    ASSUME OutlineInv, NEW h \in Handlers, Walk(h)
    PROVE  HttpEffect /\ UNCHANGED <<nodes, sugVars>>
<1> DEFINE r == req[h]
<1>1. r \in Request /\ Reading
  BY HandlerHolds DEF Walk
<1>2. \/ Keeps(h, [r EXCEPT !.pc = "place"])
      \/ Keeps(h, NoReq)
      \/ ~WalkEnds(r) /\ Keeps(h, [r EXCEPT !.at = nodes[r.at].parent])
  BY DEF Walk, Respond
<1> HIDE DEF r
<1>3. [r EXCEPT !.pc = "place"] \in Request
  BY <1>1 DEF Request
<1>4. ~WalkEnds(r) => nodes[r.at].parent \in Nodes \cup {None}
  BY QueueIsTyped DEF WalkEnds, There, TreeTypeOK, Row
<1>5. ~WalkEnds(r) => [r EXCEPT !.at = nodes[r.at].parent] \in Request
  BY <1>1, <1>4 DEF Request
<1>. QED BY <1>1, <1>2, <1>3, <1>5, HandlerReads

LEMMA PlaceStep ==
    ASSUME OutlineInv, NEW h \in Handlers, Place(h)
    PROVE  HttpEffect /\ UNCHANGED <<nodes, sugVars>>
<1> DEFINE r == req[h]
<1>1. r \in Request /\ Reading
  BY HandlerHolds DEF Place
<1>2. \/ There(r.after) /\ Keeps(h, [r EXCEPT !.pc = "shift", !.rank = nodes[r.after].rank])
      \/ Keeps(h, [r EXCEPT !.pc = "rank", !.position = Resolved(r.parent, r.position)])
  BY DEF Place
<1> HIDE DEF r
<1>3. There(r.after) => nodes[r.after].rank \in Int
  BY QueueIsTyped DEF There, TreeTypeOK, Row
<1>4. There(r.after) => [r EXCEPT !.pc = "shift", !.rank = nodes[r.after].rank] \in Request
  BY <1>1, <1>3 DEF Request
<1>5. Resolved(r.parent, r.position) \in Positions
  BY <1>1, RequestHas, QueueIsTyped DEF Resolved, Preferred, There, TreeTypeOK, Row, Positions
<1>6. [r EXCEPT !.pc = "rank", !.position = Resolved(r.parent, r.position)] \in Request
  BY <1>1, <1>5 DEF Request
<1>. QED BY <1>1, <1>2, <1>4, <1>6, HandlerReads

LEMMA RankStep ==
    ASSUME OutlineInv, NEW h \in Handlers, Rank(h)
    PROVE  HttpEffect /\ UNCHANGED <<nodes, sugVars>>
<1> DEFINE r == req[h]
           x == RankAt(r.parent, r.position)
<1>1. r \in Request /\ Reading
  BY HandlerHolds DEF Rank
<1>2. Keeps(h, [r EXCEPT !.pc = LastPc(r), !.rank = x])
  BY DEF Rank
<1>3. x \in Int
  BY QueueIsTyped, RanksAreOutside DEF RankAt
<1>4. LastPc(r) \in {"insert", "update"}
  BY DEF LastPc
<1> HIDE DEF r, x
<1>5. [r EXCEPT !.pc = LastPc(r), !.rank = x] \in Request
  BY <1>1, <1>3, <1>4 DEF Request
<1>. QED BY <1>1, <1>2, <1>5, HandlerReads

\* The statements of the handlers that place, insert, move or patch a row.
LEMMA WritingStep ==
    ASSUME OutlineInv, NEW h \in Handlers, Shift(h) \/ InsertRow(h) \/ UpdateRow(h) \/ PatchRow(h)
    PROVE  HttpEffect /\ Written /\ UNCHANGED sugVars
<1> DEFINE r == req[h]
<1>1. r \in Request /\ Writing /\ TreeTypeOK
  BY HandlerHolds, QueueIsTyped DEF Shift, InsertRow, UpdateRow, PatchRow
<1>2. CASE Shift(h)
  <2>1. nodes' = ShiftRanksAfter(r.parent, r.rank) /\ Keeps(h, [r EXCEPT !.pc = LastPc(r), !.rank = @ + 1])
    BY <1>2 DEF Shift
  <2>2. LastPc(r) \in {"insert", "update"}
    BY DEF LastPc
  <2> HIDE DEF r
  <2>3. r.rank + 1 \in Int
    BY <1>1, RequestHas
  <2>4. [r EXCEPT !.pc = LastPc(r), !.rank = r.rank + 1] \in Request
    BY <1>1, <2>2, <2>3 DEF Request
  <2>5. Written
    BY <1>1, <2>1, ShiftAfterWrites
  <2>. QED BY <1>1, <2>1, <2>4, <2>5, HandlerWrites
<1>3. CASE InsertRow(h)
  <2>1. nodes' = Inserted(NewUuid, r.parent, r.rank, "bottom", r.text) /\ Keeps(h, NoReq)
    BY <1>3 DEF InsertRow, Respond
  <2>2. Written
    <3> HIDE DEF r
    <3>. QED BY <1>1, <2>1, RequestHas, InsertedWrites
  <2>. QED BY <1>1, <2>1, <2>2, HandlerWrites
<1>4. CASE UpdateRow(h)
  <2>1. nodes' = Reparented(r.node, r.parent, r.rank) /\ Keeps(h, NoReq)
    BY <1>4 DEF UpdateRow, Respond
  <2>2. Written
    <3> HIDE DEF r
    <3>. QED BY <1>1, <2>1, RequestHas, ReparentedWrites
  <2>. QED BY <1>1, <2>1, <2>2, HandlerWrites
<1>5. CASE PatchRow(h)
  <2>1. /\ nodes' = IF r.position = "" THEN Renamed(r.node, r.text) ELSE Prioritized(r.node, r.position)
        /\ Keeps(h, NoReq)
    BY <1>5 DEF PatchRow, Respond
  <2>2. Written
    <3> HIDE DEF r
    <3>1. r.text \in Texts /\ (r.position # "" => r.position \in {"top", "bottom"})
      BY <1>1, RequestHas DEF Positions
    <3>. QED BY <1>1, <2>1, <3>1, RenamedWrites, PrioritizedWrites
  <2>. QED BY <1>1, <2>1, <2>2, HandlerWrites
<1>. QED BY <1>2, <1>3, <1>4, <1>5

\* A listing of some nodes, put before those a walk has yet to list, is a list of nodes.
LEMMA ListingIsASequence ==
    ASSUME NEW p, NEW l \in [1..Cardinality(Children(p)) -> Children(p)], NEW t \in Seq(Nodes), t # <<>>
    PROVE  l \o Tail(t) \in Seq(Nodes) /\ Children(p) \subseteq Nodes
<1>1. Children(p) \in SUBSET Nodes
  BY DEF Children
<1>2. Cardinality(Children(p)) \in Nat
  BY <1>1, NodeAssumption, FS_Subset, FS_CardinalityType
<1> DEFINE k == Cardinality(Children(p))
<1>3. l \in [1..k -> Nodes] /\ k \in Nat
  BY <1>1, <1>2
<1> HIDE DEF k
<1>4. l \in Seq(Nodes)
  BY <1>3
<1>. QED BY <1>1, <1>4

LEMMA WalkDownStep ==
    ASSUME OutlineInv, NEW h \in Handlers, WalkDown(h)
    PROVE  HttpEffect /\ UNCHANGED <<nodes, sugVars>>
<1> DEFINE r == req[h]
<1>1. r \in Request /\ Reading
  BY HandlerHolds DEF WalkDown
<1>2. CASE r.todo = <<>>
  <2>1. Keeps(h, [r EXCEPT !.pc = "tombstone"])
    BY <1>2 DEF WalkDown
  <2> HIDE DEF r
  <2>2. [r EXCEPT !.pc = "tombstone"] \in Request
    BY <1>1 DEF Request
  <2>. QED BY <1>1, <2>1, <2>2, HandlerReads
<1>3. CASE r.todo # <<>>
  <2> DEFINE p == Head(r.todo)
  <2>1. PICK l \in Listings(p) :
            Keeps(h, [r EXCEPT !.todo = l \o Tail(@), !.got = @ \cup Children(p)])
    BY <1>3 DEF WalkDown
  <2> HIDE DEF r, p
  <2>2. l \in [1..Cardinality(Children(p)) -> Children(p)]
    BY DEF Listings
  <2>3. r.todo \in Seq(Nodes) /\ r.got \subseteq Nodes
    BY <1>1, RequestHas
  <2>4. l \o Tail(r.todo) \in Seq(Nodes) /\ Children(p) \subseteq Nodes
    BY <1>3, <2>2, <2>3, ListingIsASequence
  <2>5. [r EXCEPT !.todo = l \o Tail(@), !.got = @ \cup Children(p)] \in Request
    BY <1>1, <2>3, <2>4 DEF Request
  <2>. QED BY <1>1, <2>1, <2>5, HandlerReads
<1>. QED BY <1>2, <1>3

\* The tombstones of a delete are what a handler has walked to.
LEMMA TombstoneStep ==
    ASSUME OutlineInv, NEW h \in Handlers, TombstoneRows(h)
    PROVE  /\ HttpEffect /\ UNCHANGED sugVars
           /\ req[h] # NoReq /\ req[h].pc = "tombstone" /\ req'[h] # NoReq /\ req'[h].pc = "settle"
           /\ \A n \in Nodes : Live(n) /\ ~Live(n)' => n \in req'[h].got
<1> DEFINE r == req[h]
           q == [r EXCEPT !.pc = "settle"]
<1>1. r \in Request /\ r.pc = "tombstone" /\ Writing
  BY HandlerHolds DEF TombstoneRows
<1>2. nodes' = Tombstoned(r.got) /\ Keeps(h, q)
  BY DEF TombstoneRows
<1>3. r # NoReq
  BY <1>1 DEF NoReq
<1>4. q \in Request /\ q.pc = "settle" /\ q.got = r.got
  BY <1>1 DEF Request
<1>5. /\ TreeTypeOK'
      /\ \A m \in Nodes : /\ nodes'[m].there = nodes[m].there /\ nodes'[m].parent = nodes[m].parent
                          /\ nodes'[m].deleted = IF m \in r.got THEN TRUE ELSE nodes[m].deleted
  BY <1>2, QueueIsTyped, TombstonedEffect
<1> HIDE DEF q
<1>6. req' \in [Handlers -> Request \cup {NoReq}] /\ req'[h] = q
  BY <1>2, <1>4, HandlerPuts DEF OutlineInv, OutlineTypeOK, HttpTypeOK, Keeps
<1>7. HttpEffect /\ UNCHANGED sugVars
  BY <1>1, <1>5, <1>6 DEF HttpEffect, Writing, OutlineInv, OutlineTypeOK, HttpTypeOK
<1>8. q # NoReq
  BY <1>4 DEF NoReq
<1>9. ASSUME NEW n \in Nodes, Live(n), ~Live(n)' PROVE n \in r.got
  BY <1>5, <1>9 DEF Live, There
<1>. QED BY <1>1, <1>3, <1>4, <1>6, <1>7, <1>8, <1>9

\* Settling the suggestions about what a request deleted, and starting again, write no row.
LEMMA SettleStep ==
    ASSUME OutlineInv, NEW h \in Handlers, SettleRows(h)
    PROVE  HttpEffect /\ UNCHANGED <<nodes, draft, rev, applied>> /\ \E S : sugs' = Mark(S, "rejected")
<1>1. Keeps(h, NoReq) /\ UNCHANGED <<nodes, draft, rev, applied, sent>>
  BY DEF SettleRows, Respond
<1>2. req' \in [Handlers -> Request \cup {NoReq}]
  BY <1>1, HandlerPuts
<1>3. \E S : sugs' = Mark(S, "rejected")
  BY DEF SettleRows, SettledFor
<1>4. TreeTypeOK'
  BY <1>1, QueueIsTyped DEF TreeTypeOK
<1>. QED BY <1>1, <1>2, <1>3, <1>4 DEF HttpEffect, OutlineInv, OutlineTypeOK, HttpTypeOK

LEMMA RestartStep ==
    ASSUME OutlineInv, Restart
    PROVE  HttpEffect /\ UNCHANGED <<nodes, draft, rev, applied>> /\ \E S : sugs' = Mark(S, "rejected")
BY DEF Restart, HttpEffect, OutlineInv, OutlineTypeOK, HttpTypeOK, TreeTypeOK

-----------------------------------------------------------------------------
(* The commands.                                                            *)

\* What the step of a command leaves.
CmdEffect ==
    /\ TreeTypeOK'
    /\ cmd' \in [Shells -> Command \cup {NoCmd}] /\ ran' \in 0..MaxCommands
    /\ CommandsInHand'

LEMMA ShellHolds ==
    ASSUME OutlineInv, NEW c \in Shells, cmd[c].pc # "idle"
    PROVE  cmd[c] \in Command /\ CommandInHand(cmd[c])
BY DEF OutlineInv, OutlineTypeOK, CmdTypeOK, NoCmd, CommandsInHand

\* A command puts down what it has in hand.
LEMMA ShellPuts ==
    ASSUME OutlineInv, NEW c \in Shells, NEW r \in Command \cup {NoCmd}, r # NoCmd => CommandInHand(r), Put(c, r)
    PROVE  cmd' \in [Shells -> Command \cup {NoCmd}] /\ CommandsInHand'
<1>1. cmd \in [Shells -> Command \cup {NoCmd}]
  BY DEF OutlineInv, OutlineTypeOK, CmdTypeOK
<1>2. \A d \in Shells : cmd'[d] = IF d = c THEN r ELSE cmd[d]
  BY <1>1 DEF Put
<1>3. cmd' \in [Shells -> Command \cup {NoCmd}]
  BY <1>1 DEF Put
<1>4. CommandsInHand'
  BY <1>2 DEF OutlineInv, CommandsInHand
<1>. QED BY <1>3, <1>4

LEMMA StartPuts ==
    ASSUME OutlineInv, NEW c \in Shells, NEW r \in Command, CommandInHand(r), Start(c, r)
    PROVE  CmdEffect /\ UNCHANGED <<nodes, sugVars>>
<1>1. ran \in 0..MaxCommands /\ ran < MaxCommands /\ ran' = ran + 1
  BY DEF OutlineInv, OutlineTypeOK, CmdTypeOK, Start
<1>2. ran' \in 0..MaxCommands
  BY <1>1, CommandAssumption
<1>3. Put(c, r)
  BY DEF Start, Put
<1>4. cmd' \in [Shells -> Command \cup {NoCmd}] /\ CommandsInHand'
  BY <1>3, ShellPuts
<1>. QED BY <1>2, <1>4 DEF OutlineInv, OutlineTypeOK, CmdTypeOK, Start, CmdEffect, TreeTypeOK

LEMMA ShellReads ==
    ASSUME OutlineInv, NEW c \in Shells, NEW r \in Command \cup {NoCmd}, r # NoCmd => CommandInHand(r),
           Put(c, r), Query
    PROVE  CmdEffect /\ UNCHANGED <<nodes, sugVars>>
<1>1. cmd' \in [Shells -> Command \cup {NoCmd}] /\ CommandsInHand'
  BY ShellPuts
<1>. QED BY <1>1 DEF OutlineInv, OutlineTypeOK, CmdTypeOK, Query, CmdEffect, TreeTypeOK, sugVars

LEMMA ShellWrites ==
    ASSUME OutlineInv, NEW c \in Shells, NEW r \in Command \cup {NoCmd}, r # NoCmd => CommandInHand(r),
           Put(c, r), Statement, Written
    PROVE  CmdEffect /\ UNCHANGED sugVars
<1>1. cmd' \in [Shells -> Command \cup {NoCmd}] /\ CommandsInHand'
  BY ShellPuts
<1>. QED BY <1>1 DEF OutlineInv, OutlineTypeOK, CmdTypeOK, Statement, CmdEffect, Written

LEMMA CommandHas ==
    ASSUME NEW r \in Command
    PROVE  /\ r.node \in Nodes \cup {None} /\ r.parent \in Nodes \cup {None} /\ r.after \in Nodes \cup {None}
           /\ r.top \in BOOLEAN /\ r.rank \in Int /\ r.lines \in 0..MaxLines
           /\ r.todo \in Seq(Nodes) /\ r.got \subseteq Nodes
BY DEF Command

LEMMA GivenIsACommand ==
    ASSUME NEW l \in {"parent", "priority", "remove"}
    PROVE  Given(l) \in Command
<1>1. <<>> \in Seq(Nodes) /\ 0 \in 0..MaxLines
  BY CommandAssumption
<1>. QED BY <1>1 DEF Given, Command

\* The commands as they are given.
LEMMA GivenStep ==
    ASSUME OutlineInv, NEW c \in Shells, MvNode(c) \/ AddParent(c) \/ RmNode(c)
    PROVE  CmdEffect /\ UNCHANGED <<nodes, sugVars>>
<1>1. CASE MvNode(c)
  <2>1. PICK n \in Known, p \in Nodes, at \in Known \cup {None}, top \in BOOLEAN :
            Start(c, [Given("parent") EXCEPT !.node = n, !.parent = p, !.after = at, !.top = top])
    BY <1>1 DEF MvNode
  <2> DEFINE r == [Given("parent") EXCEPT !.node = n, !.parent = p, !.after = at, !.top = top]
  <2>2. n \in Nodes /\ n # None /\ at \in Nodes \cup {None}
    BY CommandAssumption, NodeAssumption
  <2>3. r \in Command
    BY <2>2, GivenIsACommand DEF Command
  <2>4. r.pc = "parent" /\ r.node = n /\ r.parent = p
    BY DEF Given
  <2> HIDE DEF r
  <2>5. CommandInHand(r)
    BY <2>2, <2>4 DEF CommandInHand
  <2>. QED BY <2>1, <2>3, <2>5, StartPuts DEF r
<1>2. CASE AddParent(c)
  <2>1. PICK p \in Nodes, k \in 1..MaxLines, top \in BOOLEAN :
            Start(c, [Given("priority") EXCEPT !.parent = p, !.lines = k, !.top = top])
    BY <1>2 DEF AddParent
  <2> DEFINE r == [Given("priority") EXCEPT !.parent = p, !.lines = k, !.top = top]
  <2>2. k \in 0..MaxLines /\ k # 0
    BY CommandAssumption
  <2>3. r \in Command
    BY <2>2, GivenIsACommand DEF Command
  <2>4. r.pc = "priority" /\ r.lines = k /\ r.parent = p
    BY DEF Given
  <2> HIDE DEF r
  <2>5. CommandInHand(r)
    BY <2>2, <2>4 DEF CommandInHand
  <2>. QED BY <2>1, <2>3, <2>5, StartPuts DEF r
<1>3. CASE RmNode(c)
  <2>1. PICK n \in Known : Start(c, [Given("remove") EXCEPT !.node = n])
    BY <1>3 DEF RmNode
  <2> DEFINE r == [Given("remove") EXCEPT !.node = n]
  <2>2. n \in Nodes /\ n # None
    BY CommandAssumption, NodeAssumption
  <2>3. r \in Command
    BY <2>2, GivenIsACommand DEF Command
  <2>4. r.pc = "remove" /\ r.node = n
    BY DEF Given
  <2> HIDE DEF r
  <2>5. CommandInHand(r)
    BY <2>2, <2>4 DEF CommandInHand
  <2>. QED BY <2>1, <2>3, <2>5, StartPuts DEF r
<1>. QED BY <1>1, <1>2, <1>3

\* A command that goes on keeps in hand what the next of its queries needs.
LEMMA GoesOn ==
    ASSUME NEW r \in Command, CommandInHand(r), r.pc \notin {"remove", "insert"},
           NEW l \in {"below", "sibling", "shift", "open", "rank"},
           NEW q \in Command, q.pc = l, q.node = r.node, q.parent = r.parent, q.lines = r.lines,
           q.after = r.after, l = "sibling" => r.after \in Nodes
    PROVE  CommandInHand(q)
BY DEF CommandInHand

LEMMA MvParentStep ==
    ASSUME OutlineInv, NEW c \in Shells, MvParent(c)
    PROVE  CmdEffect /\ UNCHANGED <<nodes, sugVars>>
<1> DEFINE r == cmd[c]
           top == r.top \/ (r.after = None /\ nodes[r.parent].prio = "top")
           q == [r EXCEPT !.pc = "below", !.todo = <<r.node>>, !.got = {r.node}, !.top = top]
<1>1. r \in Command /\ r.pc = "parent" /\ CommandInHand(r) /\ Query
  BY ShellHolds DEF MvParent
<1>2. Put(c, NoCmd) \/ Put(c, q)
  BY DEF MvParent, Quit
<1> HIDE DEF r
<1>3. r.node \in Nodes
  BY <1>1, CommandHas DEF CommandInHand
<1>4. top \in BOOLEAN
  BY <1>1, CommandHas
<1>5. <<r.node>> \in Seq(Nodes) /\ {r.node} \in SUBSET Nodes
  BY <1>3
<1> HIDE DEF top
<1>6. q \in Command /\ q.pc = "below" /\ q.node = r.node /\ q.parent = r.parent /\ q.lines = r.lines
                    /\ q.after = r.after
  BY <1>1, <1>4, <1>5 DEF Command
<1> HIDE DEF q
<1>7. CommandInHand(q)
  BY <1>1, <1>6, GoesOn
<1>. QED BY <1>1, <1>2, <1>6, <1>7, ShellReads

LEMMA MvBelowStep ==
    ASSUME OutlineInv, NEW c \in Shells, MvBelow(c)
    PROVE  CmdEffect /\ UNCHANGED <<nodes, sugVars>>
<1> DEFINE r == cmd[c]
           p == Head(r.todo)
<1>1. r \in Command /\ r.pc = "below" /\ CommandInHand(r) /\ Query
  BY ShellHolds DEF MvBelow
<1>2. CASE r.todo # <<>>
  <2>1. PICK l \in [1..Cardinality(Children(p)) -> Children(p)] :
            Put(c, [r EXCEPT !.todo = l \o Tail(@), !.got = @ \cup Children(p)])
    BY <1>2 DEF MvBelow
  <2> DEFINE q == [r EXCEPT !.todo = l \o Tail(r.todo), !.got = r.got \cup Children(p)]
  <2>2. Put(c, q)
    BY <2>1
  <2> HIDE DEF r, p
  <2>3. r.todo \in Seq(Nodes) /\ r.got \subseteq Nodes
    BY <1>1, CommandHas
  <2>4. l \o Tail(r.todo) \in Seq(Nodes) /\ Children(p) \subseteq Nodes
    BY <1>2, <2>1, <2>3, ListingIsASequence
  <2>5. q \in Command /\ q.pc = "below" /\ q.node = r.node /\ q.parent = r.parent /\ q.lines = r.lines
                      /\ q.after = r.after
    BY <1>1, <2>3, <2>4 DEF Command
  <2> HIDE DEF q
  <2>6. CommandInHand(q)
    BY <1>1, <2>5, GoesOn
  <2>. QED BY <1>1, <2>2, <2>5, <2>6, ShellReads
<1>3. CASE r.todo = <<>>
  <2> DEFINE l == IF r.top THEN "open" ELSE IF r.after # None THEN "sibling" ELSE "rank"
             q == [r EXCEPT !.pc = l]
  <2>1. Put(c, NoCmd) \/ Put(c, q)
    BY <1>3 DEF MvBelow, Quit
  <2> HIDE DEF r
  <2>2. l \in {"open", "sibling", "rank"} /\ (l = "sibling" => r.after \in Nodes)
    BY <1>1, CommandHas
  <2> HIDE DEF l
  <2>3. q \in Command /\ q.pc = l /\ q.node = r.node /\ q.parent = r.parent /\ q.lines = r.lines
                      /\ q.after = r.after
    BY <1>1, <2>2 DEF Command
  <2> HIDE DEF q
  <2>4. CommandInHand(q)
    BY <1>1, <2>2, <2>3, GoesOn
  <2>. QED BY <1>1, <2>1, <2>3, <2>4, ShellReads
<1>. QED BY <1>2, <1>3

LEMMA MvSiblingStep ==
    ASSUME OutlineInv, NEW c \in Shells, MvSibling(c)
    PROVE  CmdEffect /\ UNCHANGED <<nodes, sugVars>>
<1> DEFINE r == cmd[c]
           x == nodes[r.after].rank + 1
           q == [r EXCEPT !.pc = "shift", !.rank = x]
<1>1. r \in Command /\ r.pc = "sibling" /\ CommandInHand(r) /\ Query
  BY ShellHolds DEF MvSibling
<1>2. Put(c, NoCmd) \/ Put(c, q)
  BY DEF MvSibling, Quit
<1> HIDE DEF r
<1>3. nodes[r.after] \in Row
  BY <1>1, QueueIsTyped DEF CommandInHand, TreeTypeOK
<1>4. x \in Int
  BY <1>3 DEF Row
<1> HIDE DEF x
<1>5. q \in Command /\ q.pc = "shift" /\ q.node = r.node /\ q.parent = r.parent /\ q.lines = r.lines
                    /\ q.after = r.after
  BY <1>1, <1>4 DEF Command
<1> HIDE DEF q
<1>6. CommandInHand(q)
  BY <1>1, <1>5, GoesOn
<1>. QED BY <1>1, <1>2, <1>5, <1>6, ShellReads

LEMMA AddPriorityStep ==
    ASSUME OutlineInv, NEW c \in Shells, AddPriority(c)
    PROVE  CmdEffect /\ UNCHANGED <<nodes, sugVars>>
<1> DEFINE r == cmd[c]
           up == r.top \/ nodes[r.parent].prio = "top"
           l == IF up THEN "open" ELSE "rank"
           q == [r EXCEPT !.pc = l, !.top = up]
<1>1. r \in Command /\ r.pc = "priority" /\ CommandInHand(r) /\ Query
  BY ShellHolds DEF AddPriority
<1>2. Put(c, q)
  BY DEF AddPriority
<1> HIDE DEF r
<1>3. up \in BOOLEAN /\ l \in {"open", "rank"}
  BY <1>1, CommandHas
<1> HIDE DEF up, l
<1>4. q \in Command /\ q.pc = l /\ q.node = r.node /\ q.parent = r.parent /\ q.lines = r.lines
                    /\ q.after = r.after
  BY <1>1, <1>3 DEF Command
<1> HIDE DEF q
<1>5. CommandInHand(q)
  BY <1>1, <1>3, <1>4, GoesOn
<1>. QED BY <1>1, <1>2, <1>4, <1>5, ShellReads

\* A command that has its rank goes on to its last statement.
LEMMA WritesNext ==
    ASSUME NEW r \in Command, CommandInHand(r), r.pc \in {"open", "rank"}, NEW x \in Int
    PROVE  LET q == [r EXCEPT !.pc = Writes(r), !.rank = x]
           IN  q \in Command /\ CommandInHand(q)
<1>1. Writes(r) \in {"insert", "reparent"} /\ (Writes(r) = "insert" => r.node = None)
  BY DEF Writes
<1> DEFINE q == [r EXCEPT !.pc = Writes(r), !.rank = x]
<1>2. q \in Command /\ q.pc = Writes(r) /\ q.node = r.node /\ q.parent = r.parent /\ q.lines = r.lines
  BY <1>1 DEF Command
<1> HIDE DEF q
<1>3. CommandInHand(q)
  BY <1>1, <1>2 DEF CommandInHand
<1>. QED BY <1>2, <1>3 DEF q

LEMMA BehindStep ==
    ASSUME OutlineInv, NEW c \in Shells, Behind(c)
    PROVE  CmdEffect /\ UNCHANGED <<nodes, sugVars>>
<1> DEFINE r == cmd[c]
           x == NextRank(r.parent)
           q == [r EXCEPT !.pc = Writes(r), !.rank = x]
<1>1. r \in Command /\ r.pc = "rank" /\ CommandInHand(r) /\ Query
  BY ShellHolds DEF Behind
<1>2. Put(c, q)
  BY DEF Behind
<1>3. x \in Int
  BY QueueIsTyped, RanksAreOutside
<1> HIDE DEF r, x
<1>4. q \in Command /\ CommandInHand(q)
  BY <1>1, <1>3, WritesNext
<1> HIDE DEF q
<1>. QED BY <1>1, <1>2, <1>4, ShellReads

\* The statements that make room, insert a line or move a node.
LEMMA ShellWritesStep ==
    ASSUME OutlineInv, NEW c \in Shells, OpenTop(c) \/ MvShift(c) \/ MvReparent(c) \/ InsertLine(c)
    PROVE  CmdEffect /\ Written /\ UNCHANGED sugVars
<1> DEFINE r == cmd[c]
<1>1. r \in Command /\ CommandInHand(r) /\ Statement /\ TreeTypeOK
  BY ShellHolds, QueueIsTyped DEF OpenTop, MvShift, MvReparent, InsertLine
<1>2. CASE OpenTop(c)
  <2> DEFINE q == [r EXCEPT !.pc = Writes(r), !.rank = 0]
  <2>1. nodes' = ShiftRanksAll(r.parent, Gap(r)) /\ Put(c, q) /\ r.pc = "open"
    BY <1>2 DEF OpenTop
  <2> HIDE DEF r
  <2>2. Gap(r) \in Int
    BY <1>1, CommandHas DEF Gap, Size
  <2>3. q \in Command /\ CommandInHand(q)
    <3>1. r.pc \in {"open", "rank"} /\ 0 \in Int
      BY <2>1
    <3>. QED BY <1>1, <3>1, WritesNext
  <2>4. Written
    BY <1>1, <2>1, <2>2, ShiftAllWrites
  <2> HIDE DEF q
  <2>. QED BY <1>1, <2>1, <2>3, <2>4, ShellWrites
<1>3. CASE MvShift(c)
  <2> DEFINE q == [r EXCEPT !.pc = "reparent"]
  <2>1. nodes' = ShiftRanksAfter(r.parent, r.rank - 1) /\ Put(c, q) /\ r.pc = "shift"
    BY <1>3 DEF MvShift
  <2> HIDE DEF r
  <2>2. q \in Command /\ q.pc = "reparent" /\ q.node = r.node /\ q.parent = r.parent /\ q.lines = r.lines
    BY <1>1 DEF Command
  <2> HIDE DEF q
  <2>3. CommandInHand(q)
    BY <1>1, <2>1, <2>2 DEF CommandInHand
  <2>4. Written
    BY <1>1, <2>1, ShiftAfterWrites
  <2>. QED BY <1>1, <2>1, <2>2, <2>3, <2>4, ShellWrites
<1>4. CASE MvReparent(c)
  <2>1. nodes' = Reparented(r.node, r.parent, r.rank) /\ Put(c, NoCmd)
    BY <1>4 DEF MvReparent, Quit
  <2>2. Written
    <3> HIDE DEF r
    <3>. QED BY <1>1, <2>1, CommandHas, ReparentedWrites
  <2>. QED BY <1>1, <2>1, <2>2, ShellWrites
<1>5. CASE InsertLine(c)
  <2> DEFINE q == [r EXCEPT !.rank = r.rank + 1, !.lines = r.lines - 1]
  <2>1. /\ nodes' = Inserted(NewUuid, r.parent, r.rank, "top", nodes[r.parent].text)
        /\ IF r.lines = 1 THEN Put(c, NoCmd) ELSE Put(c, q)
        /\ r.pc = "insert"
    BY <1>5 DEF InsertLine, Quit
  <2> HIDE DEF r
  <2>2. r.parent \in Nodes /\ r.node = None /\ r.lines # 0
    BY <1>1, <2>1 DEF CommandInHand
  <2>3. nodes[r.parent].text \in Texts
    BY <1>1, <2>2 DEF TreeTypeOK, Row
  <2>4. Written
    BY <1>1, <2>1, <2>2, <2>3, CommandHas, InsertedWrites
  <2>5. CASE r.lines = 1
    BY <1>1, <2>1, <2>4, <2>5, ShellWrites
  <2>6. CASE r.lines # 1
    <3>1. r.rank + 1 \in Int /\ r.lines - 1 \in 0..MaxLines /\ r.lines - 1 # 0
      BY <1>1, <2>2, <2>6, CommandHas, CommandAssumption
    <3>2. q \in Command /\ q.pc = "insert" /\ q.node = r.node /\ q.parent = r.parent /\ q.lines = r.lines - 1
      BY <1>1, <2>1, <3>1 DEF Command
    <3> HIDE DEF q
    <3>3. CommandInHand(q)
      BY <2>2, <3>1, <3>2 DEF CommandInHand
    <3>. QED BY <1>1, <2>1, <2>4, <2>6, <3>2, <3>3, ShellWrites
  <2>. QED BY <2>5, <2>6
<1>. QED BY <1>2, <1>3, <1>4, <1>5

\* lflow remove settles what is proposed about the rows it deletes, in one transaction.
LEMMA RmStep ==
    ASSUME OutlineInv, NEW c \in Shells, Rm(c)
    PROVE  /\ CmdEffect /\ UNCHANGED <<draft, rev, applied>> /\ \E S : sugs' = Mark(S, "rejected")
           /\ \A s \in Sugs : Live(sugs[s].target) /\ ~Live(sugs[s].target)' => sugs'[s].state # "pending"
<1> DEFINE D == Subtree(cmd[c].node)
<1>1. nodes' = Tombstoned(D) /\ sugs' = Mark(About(D) \ {}, "rejected") /\ Put(c, NoCmd)
  BY DEF Rm, SettledFor, Quit
<1>2. UNCHANGED <<draft, rev, applied, ran>>
  BY DEF Rm
<1> HIDE DEF D
<1>3. /\ TreeTypeOK'
      /\ \A m \in Nodes : /\ nodes'[m].there = nodes[m].there /\ nodes'[m].parent = nodes[m].parent
                          /\ nodes'[m].deleted = IF m \in D THEN TRUE ELSE nodes[m].deleted
  BY <1>1, QueueIsTyped, TombstonedEffect
<1>4. cmd' \in [Shells -> Command \cup {NoCmd}] /\ CommandsInHand'
  BY <1>1, ShellPuts
<1>5. CmdEffect
  BY <1>2, <1>3, <1>4 DEF CmdEffect, OutlineInv, OutlineTypeOK, CmdTypeOK
<1>6. SugShape
  BY QueueIsTyped DEF DeleteInv, QueueInv
<1>7. ASSUME NEW s \in Sugs, Live(sugs[s].target), ~Live(sugs[s].target)' PROVE sugs'[s].state # "pending"
  <2>1. sugs[s].target \in Nodes /\ nodes[sugs[s].target].there /\ ~nodes[sugs[s].target].deleted
    BY <1>7 DEF Live, There
  <2>2. CASE sugs'[s].target = sugs[s].target
    <3>1. sugs[s].target \in D
      BY <1>3, <1>7, <2>1, <2>2 DEF Live, There
    <3>. QED BY <1>1, <1>6, <3>1, MarkEffect DEF About, Pending
  <2>3. sugs'[s].target = sugs[s].target
    BY <1>1, <1>6 DEF Mark, SugShape, SugFields
  <2>. QED BY <2>2, <2>3
<1>. QED BY <1>1, <1>2, <1>5, <1>7

-----------------------------------------------------------------------------
(* All of them at once.                                                     *)

\* Every step is one of a reviewer's or a proposer's; one that leaves the suggestions and
\* every live row; the tombstones of a request; or one that turns suggestions down, and of
\* those only a removal writes rows.
Sided      == (HttpEffect /\ UNCHANGED cmdVars) \/ (CmdEffect /\ UNCHANGED httpVars)
QuietStep  == Sided /\ UNCHANGED sugVars /\ (Written \/ UNCHANGED nodes)
GhostStep(h) ==
    /\ Sided /\ UNCHANGED sugVars
    /\ req[h] # NoReq /\ req[h].pc = "tombstone" /\ req'[h] # NoReq /\ req'[h].pc = "settle"
    /\ \A n \in Nodes : Live(n) /\ ~Live(n)' => n \in req'[h].got
SweepStep  ==
    /\ Sided /\ UNCHANGED <<draft, rev, applied>>
    /\ \E S : sugs' = Mark(S, "rejected")
    /\ \/ UNCHANGED nodes
       \/ \A s \in Sugs : Live(sugs[s].target) /\ ~Live(sugs[s].target)' => sugs'[s].state # "pending"

LEMMA OutlineSteps ==
    ASSUME OutlineInv, [OutlineNext]_outline
    PROVE  \/ [SuggestNext]_qVars /\ UNCHANGED <<httpVars, cmdVars>>
           \/ QuietStep
           \/ \E h \in Handlers : GhostStep(h)
           \/ SweepStep
<1>1. CASE HttpNext /\ UNCHANGED cmdVars
  <2>1. PICK h \in Handlers : Receive(h) \/ Serve(h)
    BY <1>1 DEF HttpNext
  <2>2. CASE Receive(h) \/ Walk(h) \/ Place(h) \/ Rank(h) \/ WalkDown(h)
    <3>1. HttpEffect /\ UNCHANGED <<nodes, sugVars>>
      BY <2>2, ReceiveStep, WalkStep, PlaceStep, RankStep, WalkDownStep
    <3>. QED BY <1>1, <3>1 DEF QuietStep, Sided
  <2>3. CASE Shift(h) \/ InsertRow(h) \/ UpdateRow(h) \/ PatchRow(h)
    BY <1>1, <2>3, WritingStep DEF QuietStep, Sided
  <2>4. CASE TombstoneRows(h)
    <3>1. GhostStep(h)
      BY <1>1, <2>4, TombstoneStep DEF GhostStep, Sided
    <3>. QED BY <3>1
  <2>5. CASE SettleRows(h)
    BY <1>1, <2>5, SettleStep DEF SweepStep, Sided
  <2>. QED BY <2>1, <2>2, <2>3, <2>4, <2>5 DEF Serve
<1>2. CASE CmdNext /\ UNCHANGED httpVars
  <2>1. PICK c \in Shells : Shell(c)
    BY <1>2 DEF CmdNext
  <2>2. CASE MvNode(c) \/ AddParent(c) \/ RmNode(c) \/ MvParent(c) \/ MvBelow(c) \/ MvSibling(c)
             \/ AddPriority(c) \/ Behind(c)
    <3>1. CmdEffect /\ UNCHANGED <<nodes, sugVars>>
      BY <2>2, GivenStep, MvParentStep, MvBelowStep, MvSiblingStep, AddPriorityStep, BehindStep
    <3>. QED BY <1>2, <3>1 DEF QuietStep, Sided
  <2>3. CASE Kill(c)
    <3>1. CmdEffect /\ UNCHANGED <<nodes, sugVars>>
      BY <2>3, ShellReads DEF Kill, Quit
    <3>. QED BY <1>2, <3>1 DEF QuietStep, Sided
  <2>4. CASE OpenTop(c) \/ MvShift(c) \/ MvReparent(c) \/ InsertLine(c)
    BY <1>2, <2>4, ShellWritesStep DEF QuietStep, Sided
  <2>5. CASE Rm(c)
    BY <1>2, <2>5, RmStep DEF SweepStep, Sided
  <2>. QED BY <2>1, <2>2, <2>3, <2>4, <2>5 DEF Shell
<1>3. CASE Restart /\ UNCHANGED cmdVars
  BY <1>3, RestartStep DEF SweepStep, Sided
<1>4. CASE SuggestNext /\ UNCHANGED <<httpVars, cmdVars>>
  BY <1>4
<1>5. CASE UNCHANGED outline
  BY <1>5 DEF outline, qVars
<1>. QED BY <1>1, <1>2, <1>3, <1>4, <1>5 DEF OutlineNext

\* Whoever takes the step, a suggestion is kept, proposed, turned down or approved.
LEMMA OutlineQueueStep ==
    ASSUME OutlineInv, [OutlineNext]_outline
    PROVE  SugShape' /\ Count' /\ \A s \in Sugs : OneOfFour(s)
<1>1. QueueInv
  BY QueueIsTyped
<1>2. CASE [SuggestNext]_qVars
  BY <1>1, <1>2, QueueStep
<1>3. CASE UNCHANGED sugVars
  BY <1>1, <1>3, StillStep DEF sugVars, OneOfFour
<1>4. CASE SweepStep
  BY <1>1, <1>4, MarkStep DEF SweepStep, OneOfFour
<1>. QED BY <1>2, <1>3, <1>4, OutlineSteps DEF QuietStep, GhostStep

LEMMA NextOutline == OutlineInv /\ [OutlineNext]_outline => OutlineInv'
<1> SUFFICES ASSUME OutlineInv, [OutlineNext]_outline PROVE OutlineInv'
  OBVIOUS
<1>1. AppliedOnce'
  <2>1. Count /\ AppliedOnce
    BY QueueIsTyped DEF DeleteInv, QueueInv
  <2>. QED BY <2>1, OutlineQueueStep, CountStep
<1>2. SuggestTypeOK /\ HttpTypeOK /\ CmdTypeOK /\ CommandsInHand
  BY QueueIsTyped DEF OutlineInv
<1>3. CASE [SuggestNext]_qVars /\ UNCHANGED <<httpVars, cmdVars>>
  <2>1. SuggestTypeOK'
    BY <1>2, <1>3, NextWhole DEF StaysWhole
  <2>2. HttpTypeOK' /\ CmdTypeOK' /\ CommandsInHand'
    BY <1>2, <1>3, <2>1 DEF SuggestTypeOK, HttpTypeOK, CmdTypeOK, CommandsInHand, httpVars, cmdVars
  <2>. QED BY <1>1, <2>1, <2>2 DEF OutlineInv, OutlineTypeOK
<1>4. ASSUME Sided PROVE TreeTypeOK' /\ HttpTypeOK' /\ CmdTypeOK' /\ CommandsInHand'
  BY <1>2, <1>4 DEF Sided, HttpEffect, CmdEffect, HttpTypeOK, CmdTypeOK, CommandsInHand, httpVars, cmdVars
<1>5. CASE Sided /\ UNCHANGED sugVars
  <2>1. SuggestTypeOK'
    BY <1>2, <1>4, <1>5 DEF SuggestTypeOK, sugVars
  <2>. QED BY <1>1, <1>4, <1>5, <2>1 DEF OutlineInv, OutlineTypeOK
<1>6. CASE SweepStep
  <2>1. sugs' \in [Sugs -> Sug]
    BY <1>2, <1>6, MarkIsTyped DEF SweepStep, SuggestTypeOK, Settled
  <2>2. SuggestTypeOK'
    BY <1>2, <1>4, <1>6, <2>1 DEF SuggestTypeOK, SweepStep
  <2>. QED BY <1>1, <1>4, <1>6, <2>2 DEF OutlineInv, OutlineTypeOK, SweepStep
<1>. QED BY <1>3, <1>5, <1>6, OutlineSteps DEF QuietStep, GhostStep

-----------------------------------------------------------------------------
(* Proposals about deleted nodes.                                           *)

\* No statement of the queue takes a row out of the table.
LEMMA RowStays ==
    ASSUME DeleteInv, [SuggestNext]_qVars, NEW n \in Nodes, There(n)
    PROVE  nodes'[n].there
<1>1. DOMAIN nodes = Nodes /\ DOMAIN nodes[n] = RowFields /\ nodes[n].there /\ RevType /\ KindInv
  BY DEF DeleteInv, QueueInv, RowShape, There
<1>2. \A S : nodes' = Tombstoned(S) => nodes'[n].there
  BY <1>1 DEF Tombstoned, RowFields
<1>3. \A m : \A t : nodes' = Renamed(m, t) => nodes'[n].there
  BY <1>1 DEF Renamed, RowFields
<1>4. \A c : \A p, i, q, t : nodes' = Inserted(c, p, i, q, t) => nodes'[n].there
  BY <1>1 DEF Inserted
<1>5. \A m : \A l : nodes' = [nodes EXCEPT ![m].lock = l] => nodes'[n].there
  BY <1>1 DEF RowFields
<1>6. ASSUME NEW r \in Reviewers, Apply(r) PROVE nodes'[n].there
  <2> DEFINE s == rev[r].s
             t == sugs[s].target
  <2>1. PICK c : nodes' = AfterChange(s, c)
    BY <1>6 DEF Apply
  <2>2. sugs[s].kind \in Kinds
    BY <1>1, <1>6 DEF RevType, Review, Idle, Apply, KindInv
  <2>3. \/ nodes' = Inserted(c, t, RankAt(t, Resolved(t, sugs[s].position)), "top", sugs[s].text)
        \/ nodes' = Tombstoned(Subtree(t))
        \/ nodes' = Renamed(t, sugs[s].text)
    BY <2>1, <2>2 DEF AfterChange, Kinds
  <2>. QED BY <1>2, <1>3, <1>4, <2>3
<1>7. CASE OtherNext
  BY <1>1, <1>2, <1>3, <1>5, <1>7 DEF OtherNext, RemoveTx, Edit, SetLock, Boot
<1>8. CASE ProposeNext \/ UNCHANGED qVars
  BY <1>1, <1>8 DEF ProposeNext, Resolve, Propose, qVars
<1>9. ASSUME NEW r \in Reviewers, Open(r) \/ CheckGone(r) \/ CheckDrift(r) \/ Refused(r) \/ Reject(r)
      PROVE  nodes'[n].there
  BY <1>1, <1>9 DEF Open, CheckGone, CheckDrift, Refused, Reject
<1>. QED BY <1>6, <1>7, <1>8, <1>9 DEF SuggestNext, ReviewNext

\* A proposal that stays pending while its node is deleted: a request deleted the node,
\* and has yet to settle what is proposed about it.
LEMMA OnlyRequestsLeaveGhosts ==
    ASSUME OutlineInv, [OutlineNext]_outline, NEW s \in Sugs, Pending(s),
           Live(sugs[s].target), ~Live(sugs[s].target)', sugs'[s].state = "pending"
    PROVE  \E h \in Handlers : /\ req[h] # NoReq /\ req[h].pc = "tombstone"
                               /\ req'[h] # NoReq /\ req'[h].pc = "settle"
                               /\ sugs[s].target \in req'[h].got
<1>1. sugs'[s] = sugs[s]
  BY OutlineQueueStep DEF OneOfFour, Kept, Proposed, TurnedDown, Approved, Pending
<1>2. PICK n \in Nodes : n = sugs[s].target /\ Live(n) /\ There(n)
  BY DEF Live, There
<1>3. ~Live(n)'
  BY <1>1, <1>2
<1>4. ~([SuggestNext]_qVars /\ UNCHANGED <<httpVars, cmdVars>>)
  <2> SUFFICES ASSUME [SuggestNext]_qVars PROVE FALSE
    OBVIOUS
  <2>1. DeleteInv
    BY QueueIsTyped
  <2>2. nodes'[n].there
    BY <1>2, <2>1, RowStays
  <2>3. nodes'[n].deleted
    BY <1>2, <1>3, <2>2 DEF Live, There
  <2>. QED BY <1>2, <2>1, <2>3, DeleteStep
<1>5. ~(Written \/ UNCHANGED nodes)
  <2>1. ~Written
    BY <1>2, <1>3 DEF Written
  <2>2. nodes' = nodes => Live(n)'
    BY <1>2 DEF Live, There
  <2>. QED BY <1>3, <2>1, <2>2
<1>6. ~SweepStep
  BY <1>5 DEF SweepStep, Pending
<1>7. PICK h \in Handlers : GhostStep(h)
  BY <1>4, <1>5, <1>6, OutlineSteps DEF QuietStep
<1>. QED BY <1>2, <1>3, <1>7 DEF GhostStep

\* With any number of requests, commands, proposers and reviewers writing beside one another, killed or
\* restarted between any two steps: each verdict is applied once and stays, and only a delete of the HTTP
\* API leaves a proposal about a deleted node pending, for the request to settle.
THEOREM OutlineVerdictsHold == OutlineSpec => VerdictsHold
<1>1. OutlineInit => OutlineInv
  BY InitOutline
<1>2. OutlineInv /\ [OutlineNext]_outline => OutlineInv'
  BY NextOutline
<1>3. OutlineInv => OutlineTypeOK /\ AppliedOnceByAll
  BY DEF OutlineInv, AppliedOnceByAll
<1>4. OutlineInv /\ [OutlineNext]_outline
        => [\A s \in Sugs : sugs[s].state \in Settled => sugs'[s] = sugs[s]]_outline
  BY OutlineQueueStep DEF OneOfFour, Kept, Proposed, TurnedDown, Approved, Pending, Settled
<1>5. OutlineInv /\ [OutlineNext]_outline
        => [\A s \in Sugs : Pending(s) /\ Live(sugs[s].target) /\ ~Live(sugs[s].target)' /\ sugs'[s].state = "pending"
              => \E h \in Handlers : /\ req[h] # NoReq /\ req[h].pc = "tombstone"
                                     /\ req'[h] # NoReq /\ req'[h].pc = "settle"
                                     /\ sugs[s].target \in req'[h].got]_outline
  BY OnlyRequestsLeaveGhosts
<1>. QED BY <1>1, <1>2, <1>3, <1>4, <1>5, PTL DEF OutlineSpec, VerdictsHold, VerdictStays, GhostsAreHttp
-----------------------------------------------------------------------------
(* The order of siblings.                                                   *)

\* What keeps the order of all but fewer rows keeps that of all but more.
LEMMA OrderButMore ==
    ASSUME NEW S, NEW T, S \subseteq T, KeepsOrderBut(S)
    PROVE  KeepsOrderBut(T)
BY DEF KeepsOrderBut

\* A step that leaves every live row where it is keeps the order.
LEMMA PlacesStay ==
    ASSUME \A n \in Nodes : Live(n) => nodes'[n].parent = nodes[n].parent /\ nodes'[n].rank = nodes[n].rank
    PROVE  KeepsOrderBut({})
BY DEF KeepsOrderBut

\* Where rows are shifted the siblings behind a shifted one are shifted as far.
LEMMA ShiftAfterKeepsOrder ==
    ASSUME TreeTypeOK, NEW p, NEW r \in Int, nodes' = ShiftRanksAfter(p, r)
    PROVE  KeepsOrderBut({})
<1>1. ASSUME NEW n \in Nodes, Live(n)
      PROVE  /\ nodes[n].rank \in Int /\ nodes'[n].parent = nodes[n].parent
             /\ nodes'[n].rank = IF nodes[n].parent = p /\ nodes[n].rank > r THEN nodes[n].rank + 1
                                 ELSE nodes[n].rank
  <2>1. nodes[n] \in Row /\ (n \in Children(p) <=> nodes[n].parent = p)
    BY <1>1 DEF TreeTypeOK, Children
  <2>. QED BY <1>1, <2>1 DEF ShiftRanksAfter, Row
<1>2. \A x, y \in Int : x < y => (x > r => y > r) /\ (x + 1 < y + 1) /\ x < y + 1
  OBVIOUS
<1>3. SUFFICES ASSUME NEW m \in Nodes, NEW n \in Nodes, Live(m), Live(n), nodes[m].parent = nodes[n].parent,
                      nodes[m].rank < nodes[n].rank
               PROVE  nodes'[m].rank < nodes'[n].rank
  BY DEF KeepsOrderBut
<1>. QED BY <1>1, <1>2, <1>3

LEMMA ShiftAllKeepsOrder ==
    ASSUME TreeTypeOK, NEW p, NEW k \in Int, nodes' = ShiftRanksAll(p, k)
    PROVE  KeepsOrderBut({})
<1>1. ASSUME NEW n \in Nodes, Live(n)
      PROVE  /\ nodes[n].rank \in Int /\ nodes'[n].parent = nodes[n].parent
             /\ nodes'[n].rank = IF nodes[n].parent = p THEN nodes[n].rank + k ELSE nodes[n].rank
  <2>1. nodes[n] \in Row /\ (n \in Children(p) <=> nodes[n].parent = p)
    BY <1>1 DEF TreeTypeOK, Children
  <2>. QED BY <1>1, <2>1 DEF ShiftRanksAll, Row
<1>2. \A x, y \in Int : x < y => x + k < y + k
  OBVIOUS
<1>3. SUFFICES ASSUME NEW m \in Nodes, NEW n \in Nodes, Live(m), Live(n), nodes[m].parent = nodes[n].parent,
                      nodes[m].rank < nodes[n].rank
               PROVE  nodes'[m].rank < nodes'[n].rank
  BY DEF KeepsOrderBut
<1>. QED BY <1>1, <1>2, <1>3

\* The other statements place one row at most, which was not there or is the one that is moved.
LEMMA RowKeepsOrder ==
    ASSUME TreeTypeOK, NEW n, NEW row, nodes' = [nodes EXCEPT ![n] = row],
           n \in Nodes /\ Live(n) => row.parent = nodes[n].parent /\ row.rank = nodes[n].rank
    PROVE  KeepsOrderBut({})
<1>1. ASSUME NEW m \in Nodes, Live(m)
      PROVE  nodes'[m].parent = nodes[m].parent /\ nodes'[m].rank = nodes[m].rank
  <2>1. CASE m = n
    BY <1>1, <2>1 DEF TreeTypeOK
  <2>2. CASE m # n
    BY <2>2 DEF TreeTypeOK
  <2>. QED BY <2>1, <2>2
<1>. QED BY <1>1, PlacesStay

LEMMA ReparentedKeepsOrder ==
    ASSUME TreeTypeOK, NEW n, NEW p, NEW r, nodes' = Reparented(n, p, r)
    PROVE  KeepsOrderBut({n})
<1>1. \A m \in Nodes \ {n} : nodes'[m] = nodes[m]
  BY DEF Reparented, TreeTypeOK
<1>. QED BY <1>1 DEF KeepsOrderBut

LEMMA InsertedKeepsOrder ==
    ASSUME TreeTypeOK, NEW c \in Unused, NEW p, NEW r, NEW q, NEW t, nodes' = Inserted(c, p, r, q, t)
    PROVE  KeepsOrderBut({})
<1> DEFINE row == [there |-> TRUE, parent |-> p, rank |-> r, deleted |-> FALSE,
                   lock |-> {}, prio |-> q, text |-> t]
<1>1. nodes' = [nodes EXCEPT ![c] = row] /\ ~Live(c)
  BY DEF Inserted, Unused, Live, There
<1> HIDE DEF row
<1>. QED BY <1>1, RowKeepsOrder

LEMMA WordsKeepOrder ==
    ASSUME TreeTypeOK, NEW n, NEW v,
           nodes' = Renamed(n, v) \/ nodes' = Prioritized(n, v) \/ (n \in Nodes /\ nodes' = [nodes EXCEPT ![n].lock = v])
    PROVE  KeepsOrderBut({})
<1> DEFINE said  == IF nodes[n].there THEN [nodes[n] EXCEPT !.text = v] ELSE nodes[n]
           prio  == IF nodes[n].there THEN [nodes[n] EXCEPT !.prio = v] ELSE nodes[n]
           shut  == [nodes[n] EXCEPT !.lock = v]
<1>1. \E row \in {said, prio, shut} : nodes' = [nodes EXCEPT ![n] = row]
  BY DEF Renamed, Prioritized, TreeTypeOK
<1>2. \A row \in {said, prio, shut} : n \in Nodes => row.parent = nodes[n].parent /\ row.rank = nodes[n].rank
  BY DEF TreeTypeOK, Row
<1> HIDE DEF said, prio, shut
<1>. QED BY <1>1, <1>2, RowKeepsOrder

LEMMA TombstonedKeepsOrder ==
    ASSUME TreeTypeOK, NEW S, nodes' = Tombstoned(S)
    PROVE  KeepsOrderBut({})
<1>1. ASSUME NEW m \in Nodes PROVE nodes'[m].parent = nodes[m].parent /\ nodes'[m].rank = nodes[m].rank
  BY DEF TreeTypeOK, Row, Tombstoned
<1>. QED BY <1>1, PlacesStay

LEMMA StillKeepsOrder == ASSUME UNCHANGED nodes PROVE KeepsOrderBut({})
BY PlacesStay

\* The requests: one that writes its place is done.
LEMMA RequestsKeepOrder ==
    ASSUME OutlineInv, NEW h \in Handlers, Receive(h) \/ Serve(h)
    PROVE  KeepsOrderBut(Moved)
<1> DEFINE r == req[h]
<1>1. TreeTypeOK
  BY QueueIsTyped
<1>2. CASE Receive(h) \/ Walk(h) \/ Place(h) \/ Rank(h) \/ WalkDown(h) \/ SettleRows(h)
  <2>1. UNCHANGED nodes
    BY <1>2, ReceiveStep, WalkStep, PlaceStep, RankStep, WalkDownStep, SettleStep
  <2>. QED BY <2>1, StillKeepsOrder, OrderButMore
<1>3. CASE Shift(h)
  <2>1. nodes' = ShiftRanksAfter(r.parent, r.rank) /\ r \in Request
    BY <1>3, HandlerHolds DEF Shift
  <2>2. r.rank \in Int
    BY <2>1, RequestHas
  <2> HIDE DEF r
  <2>. QED BY <1>1, <2>1, <2>2, ShiftAfterKeepsOrder, OrderButMore
<1>4. CASE InsertRow(h)
  <2>1. nodes' = Inserted(NewUuid, r.parent, r.rank, "bottom", r.text) /\ NewUuid \in Unused
    BY <1>4 DEF InsertRow, NewUuid
  <2> HIDE DEF r
  <2>. QED BY <1>1, <2>1, InsertedKeepsOrder, OrderButMore
<1>5. CASE UpdateRow(h)
  <2>1. /\ nodes' = Reparented(r.node, r.parent, r.rank) /\ r.pc = "update" /\ r # NoReq
        /\ req \in [Handlers -> Request \cup {NoReq}] /\ req' = [req EXCEPT ![h] = NoReq]
    BY <1>5 DEF UpdateRow, Respond, Keeps, NoReq, OutlineInv, OutlineTypeOK, HttpTypeOK
  <2>2. req'[h] = NoReq
    BY <2>1
  <2>3. r.node \in Moved
    BY <2>1, <2>2 DEF Moved
  <2> HIDE DEF r
  <2>4. KeepsOrderBut({r.node})
    BY ONLY <1>1, <2>1, ReparentedKeepsOrder
  <2>5. {r.node} \subseteq Moved
    BY <2>3
  <2>. QED BY ONLY <2>4, <2>5, OrderButMore
<1>6. CASE PatchRow(h)
  <2>1. nodes' = Renamed(r.node, r.text) \/ nodes' = Prioritized(r.node, r.position)
    BY <1>6 DEF PatchRow
  <2> HIDE DEF r
  <2>. QED BY <1>1, <2>1, WordsKeepOrder, OrderButMore
<1>7. CASE TombstoneRows(h)
  BY <1>1, <1>7, TombstonedKeepsOrder, OrderButMore DEF TombstoneRows
<1>. QED BY <1>2, <1>3, <1>4, <1>5, <1>6, <1>7 DEF Serve

\* The commands: likewise, and a line of lflow add takes a uuid nobody has.
LEMMA CommandsKeepOrder ==
    ASSUME OutlineInv, NEW c \in Shells, Shell(c)
    PROVE  KeepsOrderBut(Moved)
<1> DEFINE r == cmd[c]
<1>1. TreeTypeOK
  BY QueueIsTyped
<1>2. CASE MvNode(c) \/ AddParent(c) \/ RmNode(c) \/ MvParent(c) \/ MvBelow(c) \/ MvSibling(c)
           \/ AddPriority(c) \/ Behind(c) \/ Kill(c)
  <2>1. UNCHANGED nodes
    BY <1>2, GivenStep, MvParentStep, MvBelowStep, MvSiblingStep, AddPriorityStep, BehindStep DEF Kill, Query
  <2>. QED BY <2>1, StillKeepsOrder, OrderButMore
<1>3. CASE MvShift(c)
  <2>1. nodes' = ShiftRanksAfter(r.parent, r.rank - 1) /\ r \in Command
    BY <1>3, ShellHolds DEF MvShift
  <2>2. r.rank - 1 \in Int
    BY <2>1, CommandHas
  <2> HIDE DEF r
  <2>. QED BY <1>1, <2>1, <2>2, ShiftAfterKeepsOrder, OrderButMore
<1>4. CASE OpenTop(c)
  <2>1. nodes' = ShiftRanksAll(r.parent, Gap(r)) /\ r \in Command
    BY <1>4, ShellHolds DEF OpenTop
  <2>2. Gap(r) \in Int
    BY <2>1, CommandHas DEF Gap, Size
  <2> HIDE DEF r
  <2>. QED BY <1>1, <2>1, <2>2, ShiftAllKeepsOrder, OrderButMore
<1>5. CASE InsertLine(c)
  <2>1. nodes' = Inserted(NewUuid, r.parent, r.rank, "top", nodes[r.parent].text) /\ NewUuid \in Unused
    BY <1>5 DEF InsertLine, NewUuid
  <2> HIDE DEF r
  <2>. QED BY <1>1, <2>1, InsertedKeepsOrder, OrderButMore
<1>6. CASE MvReparent(c)
  <2>1. /\ nodes' = Reparented(r.node, r.parent, r.rank) /\ r.pc = "reparent" /\ r # NoCmd
        /\ cmd \in [Shells -> Command \cup {NoCmd}] /\ cmd' = [cmd EXCEPT ![c] = NoCmd]
    BY <1>6 DEF MvReparent, Quit, Put, NoCmd, OutlineInv, OutlineTypeOK, CmdTypeOK
  <2>2. cmd'[c] = NoCmd
    BY <2>1
  <2>3. r.node \in Moved
    BY <2>1, <2>2 DEF Moved
  <2> HIDE DEF r
  <2>4. KeepsOrderBut({r.node})
    BY ONLY <1>1, <2>1, ReparentedKeepsOrder
  <2>5. {r.node} \subseteq Moved
    BY <2>3
  <2>. QED BY ONLY <2>4, <2>5, OrderButMore
<1>7. CASE Rm(c)
  BY <1>1, <1>7, TombstonedKeepsOrder, OrderButMore DEF Rm
<1>. QED BY <1>2, <1>3, <1>4, <1>5, <1>6, <1>7 DEF Shell

\* What proposers, reviewers and the other clients write moves nothing.
LEMMA ReviewKeepsOrder ==
    ASSUME OutlineInv, [SuggestNext]_qVars
    PROVE  KeepsOrderBut({})
<1>1. TreeTypeOK /\ RevType /\ KindInv
  BY QueueIsTyped DEF DeleteInv, QueueInv
<1>2. ASSUME NEW r \in Reviewers, Apply(r) PROVE KeepsOrderBut({})
  <2> DEFINE s == rev[r].s
             t == sugs[s].target
  <2>1. PICK c \in IF sugs[s].kind = "add" THEN Unused ELSE {None} : nodes' = AfterChange(s, c)
    BY <1>2 DEF Apply
  <2>2. sugs[s].kind \in Kinds
    BY <1>1, <1>2 DEF RevType, Review, Idle, Apply, KindInv
  <2>3. \/ /\ c \in Unused
           /\ nodes' = Inserted(c, t, RankAt(t, Resolved(t, sugs[s].position)), "top", sugs[s].text)
        \/ nodes' = Tombstoned(Subtree(t))
        \/ nodes' = Renamed(t, sugs[s].text)
    BY <2>1, <2>2 DEF AfterChange, Kinds
  <2> HIDE DEF s, t
  <2>. QED BY <1>1, <2>3, InsertedKeepsOrder, TombstonedKeepsOrder, WordsKeepOrder
<1>3. CASE OtherNext
  <2>1. ASSUME NEW n \in Nodes, RemoveTx(n) PROVE KeepsOrderBut({})
    BY <1>1, <2>1, TombstonedKeepsOrder DEF RemoveTx
  <2>2. ASSUME NEW n \in Nodes, NEW v \in Texts, Edit(n, v) PROVE KeepsOrderBut({})
    BY <1>1, <2>2, WordsKeepOrder DEF Edit
  <2>3. ASSUME NEW n \in Nodes, NEW l \in SUBSET Locks, SetLock(n, l) PROVE KeepsOrderBut({})
    BY <1>1, <2>3, WordsKeepOrder DEF SetLock
  <2>4. CASE Boot
    BY <2>4, StillKeepsOrder DEF Boot
  <2>. QED BY <1>3, <2>1, <2>2, <2>3, <2>4 DEF OtherNext
<1>4. CASE ProposeNext \/ UNCHANGED qVars
  <2>1. UNCHANGED nodes
    BY <1>4 DEF ProposeNext, Resolve, Propose, qVars
  <2>. QED BY <2>1, StillKeepsOrder
<1>5. ASSUME NEW r \in Reviewers, Open(r) \/ CheckGone(r) \/ CheckDrift(r) \/ Refused(r) \/ Reject(r)
      PROVE  KeepsOrderBut({})
  <2>1. UNCHANGED nodes
    BY <1>5 DEF Open, CheckGone, CheckDrift, Refused, Reject
  <2>. QED BY <2>1, StillKeepsOrder
<1>. QED BY <1>2, <1>3, <1>4, <1>5 DEF SuggestNext, ReviewNext

\* However requests, commands and approvals interleave, wherever a command is killed or the daemon stops:
\* no step turns round two live siblings, but for the row that a request or a command has just placed.
THEOREM OrderIsKept == OutlineSpec => OrderKept
<1>1. OutlineInit => OutlineInv
  BY InitOutline
<1>2. OutlineInv /\ [OutlineNext]_outline => OutlineInv'
  BY NextOutline
<1>3. OutlineInv /\ [OutlineNext]_outline => [KeepsOrderBut(Moved)]_outline
  <2> SUFFICES ASSUME OutlineInv, [OutlineNext]_outline PROVE [KeepsOrderBut(Moved)]_outline
    OBVIOUS
  <2>1. CASE HttpNext
    BY <2>1, RequestsKeepOrder DEF HttpNext
  <2>2. CASE CmdNext
    BY <2>2, CommandsKeepOrder DEF CmdNext
  <2>3. CASE Restart
    BY <2>3, StillKeepsOrder, OrderButMore DEF Restart
  <2>4. CASE SuggestNext
    BY <2>4, ReviewKeepsOrder, OrderButMore
  <2>. QED BY <2>1, <2>2, <2>3, <2>4 DEF OutlineNext
<1>. QED BY <1>1, <1>2, <1>3, PTL DEF OutlineSpec, OrderKept
=============================================================================
