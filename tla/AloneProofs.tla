----------------------------- MODULE AloneProofs -----------------------------
(***************************************************************************)
(* Proofs about one writer at a time: with one request of the HTTP API     *)
(* after another, or one command after another, killed anywhere, on any    *)
(* finite outline that starts as a tree, the outline stays a tree whose    *)
(* live siblings have different ranks, and what is placed lands where it   *)
(* was asked to.                                                           *)
(*                                                                         *)
(* That no row is its own descendant is kept in a form that needs no path: *)
(* every set of rows has one whose parent is outside it.  A request's walk *)
(* up from the new parent leaves behind a set of rows that holds the rows  *)
(* above the parent and not the node, and that set is why the move closes  *)
(* no cycle.                                                               *)
(***************************************************************************)
EXTENDS MCAlone, OutlineProofs

-----------------------------------------------------------------------------
(* The invariant.                                                           *)

\* Every set of rows has one whose parent is outside it.
Grounded == \A S \in (SUBSET Nodes) \ {{}} : \E n \in S : nodes[n].parent \notin S

\* Parents are there, and the root has none.
Rooted == There(Root) /\ nodes[Root].parent = None /\ \A n \in Nodes : nodes[n].parent # None => There(nodes[n].parent)

\* A set of rows that goes up from the parent of a request as far as at, and leaves out its node.
Climbed(r, at, U) ==
    /\ r.node \notin U /\ r.parent \in U \cup {None, at}
    /\ \A x \in U : nodes[x].parent \in U \cup {None, at}
Climbs(r, at) == \E U \in SUBSET Nodes : Climbed(r, at, U)

\* k ranks from r.rank on, no child of the parent has.
Free(r, k) == \A x \in Children(r.parent) : nodes[x].rank < r.rank \/ r.rank + k <= nodes[x].rank

\* The rank of a request is in front of every child or behind every child, as its position says.
AtAnEnd(r) == \A x \in Children(r.parent) : IF r.position = "top" THEN r.rank < nodes[x].rank ELSE nodes[x].rank < r.rank

\* What a request has found out still holds when it acts on it.
Placing == {"walk", "place", "rank", "shift", "insert", "update"}
RequestSound(r) ==
    /\ r.pc \in Placing => r.parent = None \/ There(r.parent)
    /\ r.pc \in Placing /\ r.node # None => There(r.node) /\ r.node # Root
    /\ r.pc \in Placing /\ r.node = None => There(r.parent) /\ r.pc \notin {"walk", "update"}
    /\ r.pc = "insert" => r.node = None
    /\ r.pc = "walk" => (r.at = None \/ There(r.at)) /\ Climbs(r, r.at)
    /\ r.pc \in Placing \ {"walk"} /\ r.node # None => Climbs(r, None)
    /\ r.pc = "rank" => ~Beside(r) /\ r.position \in {"top", "bottom"}
    /\ r.pc = "shift" => Beside(r) /\ r.rank = nodes[r.after].rank
    /\ r.pc \in {"insert", "update"} => /\ Free(r, 1)
                                   /\ IF Beside(r) THEN r.rank = nodes[r.after].rank + 1
                                                   ELSE r.position \in {"top", "bottom"} /\ AtAnEnd(r)

\* The rank of a command is the first at the top or right behind the line before, right behind the sibling that was
\* named, or behind every child.
Aims(r) ==
    /\ r.top /\ r.rank # 0 => r.node = None /\ \E x \in Children(r.parent) : nodes[x].rank = r.rank - 1
    /\ ~r.top /\ r.after # None => r.rank = nodes[r.after].rank + 1
    /\ ~r.top /\ r.after = None => \A x \in Children(r.parent) : nodes[x].rank < r.rank

\* Where a command goes on says where the row shall land.
TurnsRight(r) ==
    /\ r.pc \in {"priority", "insert"} => r.after = None
    /\ r.pc = "open" => r.top /\ (r.node = None => r.after = None)
    /\ r.pc = "rank" => ~r.top /\ r.after = None
    /\ r.pc \in {"sibling", "shift"} => ~r.top /\ r.after # None
    /\ r.pc = "shift" => r.rank = nodes[r.after].rank + 1

\* ... and likewise a command; ranks are naturals while only commands write.
CommandSound(r) ==
    /\ r.rank \in Nat
    /\ r.pc \in {"below", "sibling", "shift", "reparent"} => r.node # None
    /\ TurnsRight(r)
    /\ r.pc \in {"insert", "reparent"} => Free(r, Size(r)) /\ Aims(r)

RanksAreNatural == \A n \in Nodes : nodes[n].rank \in Nat

AloneInv ==
    /\ OutlineInv /\ DistinctRanks
    /\ writer \in {"http", "command"} \cup Editors
    /\ writer = "http" => /\ Grounded /\ Rooted
                          /\ \A h \in Handlers : req[h] # NoReq => RequestSound(req[h])
    /\ writer = "command" => /\ RanksAreNatural
                             /\ \A d \in Shells : cmd[d] # NoCmd => CommandSound(cmd[d])
-----------------------------------------------------------------------------
(* Trees.                                                                   *)

\* Every row is where it was; statements that change no place keep the tree.
InPlace == \A n \in Nodes : nodes'[n].parent = nodes[n].parent /\ nodes'[n].there = nodes[n].there

LEMMA InPlaceKeepsTree ==
    ASSUME InPlace
    PROVE  (Grounded => Grounded') /\ (Rooted => Rooted')
<1>1. ASSUME Grounded PROVE Grounded'
  BY <1>1 DEF InPlace, Grounded
<1>2. ASSUME Rooted PROVE Rooted'
  BY <1>2, NodeAssumption DEF InPlace, Rooted, There
<1>. QED BY <1>1, <1>2

\* ... and what a request has found of it, if it still asks the same.
LEMMA InPlaceKeepsClimb ==
    ASSUME InPlace, NEW r, NEW q, q.node = r.node, q.parent = r.parent, q.after = r.after, NEW at
    PROVE  /\ Climbs(r, at) => Climbs(q, at)'
           /\ Beside(r) <=> Beside(q)'
           /\ \A x : There(x) <=> There(x)'
<1>1. ASSUME NEW U \in SUBSET Nodes, Climbed(r, at, U) PROVE Climbed(q, at, U)'
  BY <1>1 DEF InPlace, Climbed
<1>2. \A x : There(x) <=> There(x)'
  BY DEF InPlace, There
<1>3. Beside(r) <=> Beside(q)'
  BY <1>2 DEF InPlace, Beside, There
<1>. QED BY <1>1, <1>2, <1>3 DEF Climbs

\* A row hung below one of a set that goes all the way up and leaves the row out closes no cycle: of the
\* rows of S, those in the set have one whose parent is outside S.
LEMMA MovedKeepsTree ==
    ASSUME TreeTypeOK, Grounded, Rooted, NEW n \in Nodes, There(n), n # Root, NEW p, p = None \/ There(p),
           NEW U \in SUBSET Nodes, n \notin U, p \in U \cup {None},
           \A x \in U : nodes[x].parent \in U \cup {None},
           nodes'[n].parent = p, \A m \in Nodes \ {n} : nodes'[m].parent = nodes[m].parent,
           \A m \in Nodes : nodes'[m].there = nodes[m].there
    PROVE  Grounded' /\ Rooted'
<1>1. ASSUME NEW S \in (SUBSET Nodes) \ {{}} PROVE \E x \in S : nodes'[x].parent \notin S
  <2> SUFFICES ASSUME \A x \in S : nodes'[x].parent \in S PROVE FALSE
    OBVIOUS
  <2>1. CASE n \notin S
    <3>1. \A x \in S : nodes[x].parent \in S
      BY <2>1
    <3>. QED BY <3>1 DEF Grounded
  <2>2. CASE n \in S
    <3>1. p \in S /\ None \notin S
      BY <2>2, NodeAssumption
    <3>2. S \cap U \in (SUBSET Nodes) \ {{}}
      BY <3>1
    <3>3. PICK x \in S \cap U : nodes[x].parent \notin S \cap U
      BY <3>2 DEF Grounded
    <3>4. nodes'[x].parent = nodes[x].parent /\ nodes'[x].parent \in S /\ nodes[x].parent \in U \cup {None}
      BY <3>3
    <3>. QED BY <3>1, <3>3, <3>4
  <2>. QED BY <2>1, <2>2
<1>2. Rooted'
  <2>1. nodes'[Root].parent = None /\ There(Root)'
    BY NodeAssumption DEF Rooted, There
  <2>2. ASSUME NEW m \in Nodes, nodes'[m].parent # None PROVE There(nodes[m].parent)'
    BY <2>2 DEF Rooted, There
  <2>. QED BY <2>1, <2>2 DEF Rooted
<1>. QED BY <1>1, <1>2 DEF Grounded

\* A new row has none below it.
LEMMA InsertedKeepsTree ==
    ASSUME TreeTypeOK, Grounded, Rooted, NEW n \in Unused, NEW p, There(p), NEW r, NEW q, NEW t,
           nodes' = Inserted(n, p, r, q, t)
    PROVE  Grounded' /\ Rooted'
<1>0. n \in Nodes /\ ~There(n) /\ p \in Nodes /\ p # n /\ p # None /\ n # Root
  BY NodeAssumption DEF Unused, There, Rooted
<1>1. /\ nodes'[n].parent = p /\ nodes'[n].there
      /\ \A m \in Nodes \ {n} : nodes'[m] = nodes[m]
  BY <1>0 DEF TreeTypeOK, Inserted
<1>2. ASSUME NEW S \in (SUBSET Nodes) \ {{}} PROVE \E x \in S : nodes'[x].parent \notin S
  <2> SUFFICES ASSUME \A x \in S : nodes'[x].parent \in S PROVE FALSE
    OBVIOUS
  <2>1. CASE n \notin S
    <3>1. \A x \in S : nodes[x].parent \in S
      BY <1>1, <2>1
    <3>. QED BY <3>1 DEF Grounded
  <2>2. CASE n \in S
    <3>1. p \in S \ {n}
      BY <1>0, <1>1, <2>2
    <3>2. PICK x \in S \ {n} : nodes[x].parent \notin S \ {n}
      BY <3>1 DEF Grounded
    <3>3. nodes[x].parent = n
      BY <1>1, <3>2
    <3>. QED BY <1>0, <3>2, <3>3, NodeAssumption DEF Rooted
  <2>. QED BY <2>1, <2>2
<1>3. \A x : There(x) => There(x)'
  BY <1>1 DEF There
<1>4. Rooted'
  <2>1. nodes'[Root].parent = None /\ There(Root)'
    BY <1>0, <1>1, <1>3, NodeAssumption DEF Rooted
  <2>2. ASSUME NEW m \in Nodes, nodes'[m].parent # None PROVE There(nodes[m].parent)'
    BY <1>1, <1>3, <2>2 DEF Rooted
  <2>. QED BY <2>1, <2>2 DEF Rooted
<1>. QED BY <1>2, <1>4 DEF Grounded
\* The rows above x, x among them: what every set has that holds x and goes up.
GoesUp(U) == \A x \in U : nodes[x].parent \in U \cup {None}
Anc(x) == {y \in Nodes : \A U \in SUBSET Nodes : GoesUp(U) /\ x \in U => y \in U}

LEMMA AncestorsGoUp ==
    ASSUME TreeTypeOK, NEW x \in Nodes
    PROVE  /\ x \in Anc(x) /\ GoesUp(Anc(x))
           /\ \A y \in Anc(x) : y # x => nodes[x].parent \in Nodes /\ y \in Anc(nodes[x].parent)
<1>1. x \in Anc(x)
  BY DEF Anc
<1>2. ASSUME NEW y \in Anc(x) PROVE nodes[y].parent \in Anc(x) \cup {None}
  <2>1. y \in Nodes /\ nodes[y].parent \in Nodes \cup {None}
    BY DEF Anc, TreeTypeOK, Row
  <2>2. ASSUME NEW U \in SUBSET Nodes, GoesUp(U), x \in U PROVE nodes[y].parent \in U \cup {None}
    BY <2>2 DEF Anc, GoesUp
  <2>. QED BY <2>1, <2>2 DEF Anc
<1>3. ASSUME NEW y \in Anc(x), y # x PROVE nodes[x].parent \in Nodes /\ y \in Anc(nodes[x].parent)
  <2> DEFINE p == nodes[x].parent
  <2>1. y \in Nodes /\ p \in Nodes \cup {None}
    BY DEF Anc, TreeTypeOK, Row
  <2>2. p # None
    <3> SUFFICES ASSUME p = None PROVE FALSE
      OBVIOUS
    <3>1. GoesUp({x})
      BY DEF GoesUp
    <3>2. y \in {x}
      BY <3>1 DEF Anc
    <3>. QED BY <1>3, <3>2
  <2>3. ASSUME NEW U \in SUBSET Nodes, GoesUp(U), p \in U PROVE y \in U
    <3>1. GoesUp(U \cup {x})
      BY <2>3 DEF GoesUp
    <3>2. y \in U \cup {x}
      BY <3>1 DEF Anc
    <3>. QED BY <1>3, <3>2
  <2>. QED BY <2>1, <2>2, <2>3 DEF Anc
<1>. QED BY <1>1, <1>2, <1>3 DEF GoesUp

\* In a grounded table no row is above its own parent: the rows in between would all have their parents
\* among themselves.
LEMMA NotAboveItself ==
    ASSUME TreeTypeOK, Grounded, NEW n \in Nodes, nodes[n].parent # None
    PROVE  nodes[n].parent \in Nodes /\ n \notin Anc(nodes[n].parent)
<1> DEFINE p == nodes[n].parent
           S == {x \in Anc(p) : n \in Anc(x)}
<1>1. p \in Nodes
  BY DEF TreeTypeOK, Row
<1>2. ASSUME n \in Anc(p) PROVE FALSE
  <2>1. p \in S /\ S \in SUBSET Nodes
    BY <1>1, <1>2, AncestorsGoUp DEF Anc
  <2>2. ASSUME NEW x \in S PROVE nodes[x].parent \in S
    <3>1. x \in Nodes /\ x \in Anc(p) /\ n \in Anc(x)
      BY DEF Anc
    <3>2. nodes[x].parent \in Anc(p) \cup {None}
      BY <1>1, <3>1, AncestorsGoUp DEF GoesUp
    <3>3. CASE x = n
      BY <1>2, <2>1, <3>3
    <3>4. CASE x # n
      <4>1. nodes[x].parent \in Nodes /\ n \in Anc(nodes[x].parent)
        BY <3>1, <3>4, AncestorsGoUp
      <4>. QED BY <3>2, <4>1, NodeAssumption
    <3>. QED BY <3>3, <3>4
  <2> HIDE DEF S
  <2>. QED BY <2>1, <2>2 DEF Grounded
<1>. QED BY <1>1, <1>2

\* Above(n) is found a level at a time.
Upward(S) == S \cup {nodes[x].parent : x \in S \ {None}}
Climbing(n, m, f) == f = [k \in 0..m |-> IF k = 0 THEN {nodes[n].parent} ELSE Upward(f[k - 1])]

LEMMA ClimbsExist ==
    ASSUME NEW n
    PROVE  \A m \in Nat : \E f : Climbing(n, m, f)
<1> DEFINE T == {m \in Nat : \E f : Climbing(n, m, f)}
           s == {nodes[n].parent}
<1>1. 0 \in T
  <2> DEFINE f == [k \in 0..0 |-> s]
  <2>1. f = [k \in 0..0 |-> IF k = 0 THEN s ELSE Upward(f[k - 1])]
    OBVIOUS
  <2>2. Climbing(n, 0, f)
    BY <2>1 DEF Climbing
  <2>. QED BY <2>2
<1>2. ASSUME NEW m \in T PROVE m + 1 \in T
  <2>1. PICK f : Climbing(n, m, f)
    OBVIOUS
  <2> DEFINE g == [k \in 0..(m + 1) |-> IF k = m + 1 THEN Upward(f[m]) ELSE f[k]]
  <2>2. \A k \in 0..m : f[k] = IF k = 0 THEN s ELSE Upward(f[k - 1])
    BY <2>1, Zenon DEF Climbing
  <2>3. ASSUME NEW k \in 0..(m + 1) PROVE g[k] = IF k = 0 THEN s ELSE Upward(g[k - 1])
    <3>1. CASE k = m + 1
      <4>1. k # 0 /\ k - 1 = m /\ m \in 0..(m + 1) /\ m # m + 1
        BY <3>1
      <4>2. g[k] = Upward(f[m]) /\ g[m] = f[m]
        BY <3>1, <4>1
      <4> HIDE DEF g
      <4>. QED BY <4>1, <4>2
    <3>2. CASE k # m + 1
      <4>1. k \in 0..m
        BY <3>2
      <4>2. g[k] = f[k]
        BY <3>2
      <4>3. k # 0 => k - 1 \in 0..(m + 1) /\ k - 1 # m + 1
        BY <4>1
      <4>4. k # 0 => g[k - 1] = f[k - 1]
        BY <4>3
      <4> HIDE DEF g
      <4>. QED BY <2>2, <4>1, <4>2, <4>4
    <3>. QED BY <3>1, <3>2
  <2>4. g = [k \in 0..(m + 1) |-> g[k]]
    OBVIOUS
  <2>5. Climbing(n, m + 1, g)
    <3> HIDE DEF g
    <3>. QED BY <2>3, <2>4, Zenon DEF Climbing
  <2>. QED BY <2>5
<1> HIDE DEF T
<1>3. T \subseteq Nat
  BY DEF T
<1>4. T = Nat
  BY <1>1, <1>2, <1>3, Induction
<1>. QED BY <1>4 DEF T

LEMMA AboveIsTheLastClimb ==
    ASSUME NEW n
    PROVE  \E f : /\ f[0] = {nodes[n].parent}
                  /\ \A k \in 0..RowCount : k # 0 => f[k] = Upward(f[k - 1])
                  /\ Above(n) = f[RowCount]
<1> DEFINE f == CHOOSE g : Climbing(n, RowCount, g)
<1>1. Climbing(n, RowCount, f)
  BY ClimbsExist, SizeIsNatural
<1>2. Above(n) = f[RowCount]
  BY DEF Above, Climbing, Upward, RowCount
<1> HIDE DEF f
<1>3. \A k \in 0..RowCount : f[k] = IF k = 0 THEN {nodes[n].parent} ELSE Upward(f[k - 1])
  BY <1>1, Zenon DEF Climbing
<1>4. 0 \in 0..RowCount
  BY SizeIsNatural
<1>. QED BY <1>2, <1>3, <1>4

\* It stays inside every set that goes up.
LEMMA AboveIsInside ==
    ASSUME NEW n \in Nodes, NEW U \in SUBSET Nodes, GoesUp(U), nodes[n].parent \in U \cup {None}
    PROVE  Above(n) \subseteq U \cup {None}
<1> DEFINE W == U \cup {None}
<1>1. PICK f : /\ f[0] = {nodes[n].parent}
               /\ \A k \in 0..RowCount : k # 0 => f[k] = Upward(f[k - 1])
               /\ Above(n) = f[RowCount]
  BY AboveIsTheLastClimb
<1>2. RowCount \in Nat
  BY SizeIsNatural
<1>3. ASSUME NEW S, S \subseteq W PROVE Upward(S) \subseteq W
  BY <1>3 DEF Upward, GoesUp
<1> DEFINE T == {k \in Nat : k <= RowCount => f[k] \subseteq W}
<1>4. 0 \in T
  BY <1>1
<1>5. ASSUME NEW k \in T PROVE k + 1 \in T
  <2>1. CASE k + 1 <= RowCount
    <3>1. f[k] \subseteq W /\ k + 1 \in 0..RowCount /\ k + 1 # 0 /\ (k + 1) - 1 = k
      BY <1>2, <2>1
    <3>2. f[k + 1] = Upward(f[(k + 1) - 1])
      BY <1>1, <3>1
    <3>3. f[k + 1] \subseteq W
      BY <1>3, <3>1, <3>2
    <3>. QED BY <3>3
  <2>2. CASE ~(k + 1 <= RowCount)
    BY <2>2
  <2>. QED BY <2>1, <2>2
<1>6. T \subseteq Nat
  OBVIOUS
<1> HIDE DEF T
<1>7. T = Nat
  BY <1>4, <1>5, <1>6, Induction
<1>. QED BY <1>1, <1>2, <1>7 DEF T

\* A grounded table has no row that is its own descendant.
LEMMA GroundedHasNoCycle ==
    ASSUME TreeTypeOK, Grounded
    PROVE  NoCycle
<1>1. ASSUME NEW n \in Nodes PROVE n \notin Above(n)
  <2> DEFINE p == nodes[n].parent
  <2>1. CASE p = None
    <3>1. GoesUp({})
      BY DEF GoesUp
    <3>2. Above(n) \subseteq {} \cup {None}
      BY <2>1, <3>1, AboveIsInside
    <3>. QED BY <3>2, NodeAssumption
  <2>2. CASE p # None
    <3>1. p \in Nodes /\ n \notin Anc(p)
      BY <2>2, NotAboveItself
    <3>2. p \in Anc(p) /\ GoesUp(Anc(p)) /\ Anc(p) \in SUBSET Nodes
      BY <3>1, AncestorsGoUp DEF Anc
    <3> HIDE DEF p
    <3>3. Above(n) \subseteq Anc(p) \cup {None}
      BY <3>2, AboveIsInside DEF p
    <3>. QED BY <3>1, <3>3, NodeAssumption
  <2>. QED BY <2>1, <2>2
<1>. QED BY <1>1 DEF NoCycle
-----------------------------------------------------------------------------
(* Ranks.                                                                   *)

\* Who keeps the order of all rows, and brings none to life, keeps ranks distinct.
LEMMA OrderKeepsRanks ==
    ASSUME TreeTypeOK, TreeTypeOK', DistinctRanks, KeepsOrderBut({}),
           \A n \in Nodes : Live(n)' => Live(n) /\ nodes'[n].parent = nodes[n].parent
    PROVE  DistinctRanks'
<1> SUFFICES ASSUME NEW m \in Nodes, NEW n \in Nodes \ {m}, Live(m)', Live(n)', nodes'[n].parent = nodes'[m].parent
             PROVE  nodes'[m].rank # nodes'[n].rank
  BY DEF DistinctRanks
<1>1. nodes[m].rank \in Int /\ nodes[n].rank \in Int /\ nodes'[m].rank \in Int /\ nodes'[n].rank \in Int
  BY DEF TreeTypeOK, Row
<1>2. nodes[m].rank # nodes[n].rank /\ nodes[m].parent = nodes[n].parent /\ Live(m) /\ Live(n)
  BY DEF DistinctRanks
<1>3. nodes[m].rank < nodes[n].rank => nodes'[m].rank < nodes'[n].rank
  BY <1>2 DEF KeepsOrderBut
<1>4. nodes[n].rank < nodes[m].rank => nodes'[n].rank < nodes'[m].rank
  BY <1>2 DEF KeepsOrderBut
<1>. QED BY <1>1, <1>2, <1>3, <1>4

\* ... and so does who places one row at a rank that no other has.
LEMMA PlacedKeepsRanks ==
    ASSUME DistinctRanks, NEW n \in Nodes, NEW p, NEW r,
           \A x \in Children(p) \ {n} : nodes[x].rank # r,
           nodes'[n].parent = p, nodes'[n].rank = r, \A m \in Nodes \ {n} : nodes'[m] = nodes[m]
    PROVE  DistinctRanks'
<1> SUFFICES ASSUME NEW m \in Nodes, NEW o \in Nodes \ {m}, Live(m)', Live(o)', nodes'[o].parent = nodes'[m].parent
             PROVE  nodes'[m].rank # nodes'[o].rank
  BY DEF DistinctRanks
<1>1. \A x \in Nodes \ {n} : Live(x)' => Live(x)
  BY DEF Live, There
<1>2. \A x \in Nodes \ {n} : Live(x)' /\ nodes'[x].parent = p => nodes'[x].rank # r
  BY <1>1 DEF Children
<1>3. CASE m = n
  BY <1>2, <1>3
<1>4. CASE o = n
  BY <1>2, <1>4
<1>5. CASE m # n /\ o # n
  BY <1>1, <1>5 DEF DistinctRanks
<1>. QED BY <1>3, <1>4, <1>5

\* Ranks that are free are no child's.
LEMMA FreeIsNobodys ==
    ASSUME TreeTypeOK, NEW r, r.rank \in Int, NEW k \in Int, k > 0, Free(r, k)
    PROVE  \A x \in Children(r.parent) : nodes[x].rank # r.rank
<1> SUFFICES ASSUME NEW x \in Children(r.parent), nodes[x].rank = r.rank PROVE FALSE
  OBVIOUS
<1>1. nodes[x].rank < r.rank \/ r.rank + k <= nodes[x].rank
  BY DEF Free
<1>. QED BY <1>1

\* What ShiftRanksAfter writes.
LEMMA ShiftedRows ==
    ASSUME TreeTypeOK, NEW p, NEW r \in Int, nodes' = ShiftRanksAfter(p, r)
    PROVE  /\ InPlace /\ Children(p)' = Children(p)
           /\ \A n \in Nodes : /\ Live(n)' <=> Live(n)
                               /\ nodes'[n].rank = IF n \in Children(p) /\ nodes[n].rank > r
                                                   THEN nodes[n].rank + 1 ELSE nodes[n].rank
<1>1. ASSUME NEW n \in Nodes
      PROVE  /\ nodes'[n].parent = nodes[n].parent /\ nodes'[n].there = nodes[n].there
             /\ nodes'[n].deleted = nodes[n].deleted
             /\ nodes'[n].rank = IF n \in Children(p) /\ nodes[n].rank > r
                                 THEN nodes[n].rank + 1 ELSE nodes[n].rank
  BY DEF ShiftRanksAfter, TreeTypeOK, Row
<1>2. \A n \in Nodes : Live(n)' <=> Live(n)
  BY <1>1 DEF Live, There
<1>3. Children(p)' = Children(p)
  BY <1>1, <1>2 DEF Children
<1>. QED BY <1>1, <1>2, <1>3 DEF InPlace

\* What a statement writes that moves a row that is there.
LEMMA MovedRow ==
    ASSUME TreeTypeOK, NEW n, There(n), NEW p, NEW r, nodes' = Reparented(n, p, r)
    PROVE  /\ nodes'[n].parent = p /\ nodes'[n].rank = r
           /\ \A m \in Nodes \ {n} : nodes'[m] = nodes[m]
           /\ \A m \in Nodes : nodes'[m].there = nodes[m].there
<1>1. n \in Nodes /\ nodes[n].there /\ nodes[n] \in Row
  BY DEF There, TreeTypeOK
<1>2. nodes' = [nodes EXCEPT ![n] = [nodes[n] EXCEPT !.parent = p, !.rank = r]]
  BY <1>1 DEF Reparented, TreeTypeOK
<1>3. \A m \in Nodes \ {n} : nodes'[m] = nodes[m]
  BY <1>2 DEF TreeTypeOK
<1>4. nodes'[n] = [nodes[n] EXCEPT !.parent = p, !.rank = r]
  BY <1>1, <1>2 DEF TreeTypeOK
<1>5. nodes'[n].parent = p /\ nodes'[n].rank = r /\ nodes'[n].there = nodes[n].there
  BY <1>1, <1>4 DEF Row
<1>. QED BY <1>3, <1>5

LEMMA NewRow ==
    ASSUME TreeTypeOK, NEW n \in Unused, NEW p, NEW r, NEW q, NEW t, nodes' = Inserted(n, p, r, q, t)
    PROVE  /\ n \in Nodes /\ ~There(n) /\ nodes'[n].parent = p /\ nodes'[n].rank = r /\ Live(n)'
           /\ \A m \in Nodes \ {n} : nodes'[m] = nodes[m]
BY DEF Inserted, TreeTypeOK, Unused, There, Live
-----------------------------------------------------------------------------
(* The requests, one at a time.                                             *)

HttpSound ==
    /\ Grounded /\ Rooted
    /\ \A h \in Handlers : req[h] # NoReq => RequestSound(req[h])

\* There is one handler: what it puts down is all there is.
LEMMA HandlerStaysSound ==
    ASSUME OutlineInv, NEW h \in Handlers, NEW q, Keeps(h, q), Grounded', Rooted', q # NoReq => RequestSound(q)'
    PROVE  HttpSound'
<1>1. \A g \in Handlers : g = h
  BY AloneAssumption
<1>2. req'[h] = q
  BY DEF Keeps, OutlineInv, OutlineTypeOK, HttpTypeOK
<1>3. req'[h] # NoReq => RequestSound(req[h])'
  BY <1>2 DEF RequestSound, Climbs, Climbed, Beside, Free, AtAnEnd
<1>. QED BY <1>1, <1>3 DEF HttpSound

\* A query changes only what the handler has in hand.
LEMMA HandlerReadsSoundly ==
    ASSUME OutlineInv, HttpSound, NEW h \in Handlers, NEW q, Keeps(h, q), UNCHANGED nodes,
           q # NoReq => RequestSound(q)
    PROVE  HttpSound'
<1>1. Grounded' /\ Rooted'
  BY DEF HttpSound, Grounded, Rooted, There
<1>2. RequestSound(q) => RequestSound(q)'
  BY DEF RequestSound, Climbs, Climbed, Beside, Free, AtAnEnd, Children, Live, There
<1>. QED BY <1>1, <1>2, HandlerStaysSound

\* Nothing is known of a request that does not place.
LEMMA OthersAreSound == ASSUME NEW r, r.pc \notin Placing PROVE RequestSound(r)
BY DEF RequestSound, Placing

LEMMA AcceptedSoundly ==
    ASSUME OutlineInv, HttpSound, NEW h \in Handlers, NEW q, Accept(h, q), RequestSound(q)
    PROVE  HttpSound'
BY HandlerReadsSoundly DEF Accept, Keeps

LEMMA ReceivedSoundly ==
    ASSUME OutlineInv, HttpSound, NEW h \in Handlers, Receive(h)
    PROVE  HttpSound'
<1>1. CASE Create(h)
  <2>1. PICK p \in Nodes, w \in Places :
            There(p) /\ Accept(h, [Asked("place") EXCEPT !.parent = p, !.after = w[1], !.position = w[2]])
    BY <1>1 DEF Create
  <2> DEFINE r == [Asked("place") EXCEPT !.parent = p, !.after = w[1], !.position = w[2]]
  <2>2. r.pc = "place" /\ r.node = None /\ r.parent = p
    BY DEF Asked
  <2> HIDE DEF r
  <2>3. RequestSound(r)
    BY <2>1, <2>2 DEF RequestSound, Placing
  <2>4. Accept(h, r)
    BY <2>1 DEF r
  <2>. QED BY <2>3, <2>4, AcceptedSoundly
<1>2. CASE Move(h)
  <2>1. PICK n \in Named, p \in {m \in Nodes : There(m)} \cup {None}, w \in Places :
            LET dest == IF p = None THEN nodes[n].parent ELSE p IN
            There(n) /\ Accept(h, [Asked("walk") EXCEPT !.node = n, !.parent = dest, !.at = dest,
                                                        !.after = w[1], !.position = w[2]])
    BY <1>2 DEF Move
  <2> DEFINE dest == IF p = None THEN nodes[n].parent ELSE p
             r == [Asked("walk") EXCEPT !.node = n, !.parent = dest, !.at = dest,
                                        !.after = w[1], !.position = w[2]]
  <2>2. n \in Nodes /\ n # None /\ n # Root /\ There(n)
    BY <2>1, HttpAssumption, NodeAssumption, AloneAssumption
  <2>3. dest = None \/ There(dest)
    BY <2>2 DEF HttpSound, Rooted
  <2>4. Accept(h, r)
    BY <2>1
  <2> HIDE DEF dest
  <2>5. r.pc = "walk" /\ r.node = n /\ r.parent = dest /\ r.at = dest
    BY DEF Asked
  <2> HIDE DEF r
  <2>6. Climbed(r, r.at, {})
    BY <2>5 DEF Climbed
  <2>7. Climbs(r, r.at)
    BY <2>6 DEF Climbs
  <2>8. RequestSound(r)
    BY <2>2, <2>3, <2>5, <2>7 DEF RequestSound, Placing
  <2>. QED BY <2>4, <2>8, AcceptedSoundly
<1>3. CASE Patch(h)
  <2>1. PICK n \in Named, t \in Texts, q \in Positions :
            Accept(h, [Asked("patch") EXCEPT !.node = n, !.text = t, !.position = q])
    BY <1>3 DEF Patch
  <2> DEFINE r == [Asked("patch") EXCEPT !.node = n, !.text = t, !.position = q]
  <2>2. r.pc \notin Placing
    BY DEF Asked, Placing
  <2> HIDE DEF r
  <2>. QED BY <2>1, <2>2, OthersAreSound, AcceptedSoundly DEF r
<1>4. CASE Delete(h)
  <2>1. PICK n \in Named :
            Accept(h, [Asked("subtree") EXCEPT !.node = n, !.todo = <<n>>, !.got = {n}])
    BY <1>4 DEF Delete
  <2> DEFINE r == [Asked("subtree") EXCEPT !.node = n, !.todo = <<n>>, !.got = {n}]
  <2>2. r.pc \notin Placing
    BY DEF Asked, Placing
  <2> HIDE DEF r
  <2>. QED BY <2>1, <2>2, OthersAreSound, AcceptedSoundly DEF r
<1>. QED BY <1>1, <1>2, <1>3, <1>4 DEF Receive

\* The walk goes on from a row to its parent, and leaves the row behind.
LEMMA WalkedSoundly ==
    ASSUME OutlineInv, HttpSound, NEW h \in Handlers, Walk(h)
    PROVE  HttpSound'
<1> DEFINE r == req[h]
<1>1. r \in Request /\ r.pc = "walk" /\ RequestSound(r) /\ UNCHANGED nodes
  BY HandlerHolds DEF Walk, Reading, HttpSound, NoReq
<1>2. \/ WalkEnds(r) /\ Keeps(h, [r EXCEPT !.pc = "place"])
      \/ Keeps(h, NoReq)
      \/ ~WalkEnds(r) /\ r.at # r.node /\ Keeps(h, [r EXCEPT !.at = nodes[r.at].parent])
  BY DEF Walk, Respond
<1> HIDE DEF r
<1>3. /\ r.node # None /\ There(r.node) /\ r.node # Root
      /\ r.parent = None \/ There(r.parent)
      /\ r.at = None \/ There(r.at)
  BY <1>1 DEF RequestSound, Placing
<1>4. PICK U \in SUBSET Nodes : Climbed(r, r.at, U)
  BY <1>1 DEF RequestSound, Climbs
<1>5. nodes[Root].parent = None /\ Root \in Nodes /\ None \notin Nodes
  BY NodeAssumption DEF HttpSound, Rooted
<1>6. ASSUME WalkEnds(r) PROVE RequestSound([r EXCEPT !.pc = "place"])
  <2> DEFINE q == [r EXCEPT !.pc = "place"]
  <2>1. q.pc = "place" /\ q.node = r.node /\ q.parent = r.parent
    BY <1>1 DEF Request
  <2> HIDE DEF q
  <2>2. r.at \in {None, Root}
    BY <1>3, <1>6 DEF WalkEnds
  <2>3. CASE r.at = None
    <3>1. Climbed(q, None, U)
      BY <1>4, <2>1, <2>3 DEF Climbed
    <3>. QED BY <1>3, <2>1, <3>1 DEF RequestSound, Placing, Climbs, q
  <2>4. CASE r.at = Root
    <3>1. Climbed(q, None, U \cup {Root})
      BY <1>3, <1>4, <1>5, <2>1, <2>4 DEF Climbed
    <3>2. U \cup {Root} \in SUBSET Nodes
      BY <1>5
    <3>3. Climbs(q, None)
      BY <3>1, <3>2 DEF Climbs
    <3>. QED BY <1>3, <2>1, <3>3 DEF RequestSound, Placing, q
  <2>. QED BY <2>2, <2>3, <2>4
<1>7. ASSUME ~WalkEnds(r), r.at # r.node PROVE RequestSound([r EXCEPT !.at = nodes[r.at].parent])
  <2> DEFINE parentAt == nodes[r.at].parent
             q  == [r EXCEPT !.at = parentAt]
  <2>1. r.at \in Nodes
    BY <1>7 DEF WalkEnds, There
  <2>2. parentAt = None \/ There(parentAt)
    BY <2>1 DEF HttpSound, Rooted
  <2>3. \A x \in U \cup {r.at} : nodes[x].parent \in (U \cup {r.at}) \cup {None, parentAt}
    BY <1>4 DEF Climbed
  <2> HIDE DEF parentAt
  <2>4. q.pc = "walk" /\ q.node = r.node /\ q.parent = r.parent /\ q.at = parentAt
    BY <1>1 DEF Request
  <2> HIDE DEF q
  <2>5. Climbed(q, parentAt, U \cup {r.at})
    BY <1>4, <1>7, <2>3, <2>4 DEF Climbed
  <2>6. U \cup {r.at} \in SUBSET Nodes
    BY <2>1
  <2>7. Climbs(q, parentAt)
    BY <2>5, <2>6 DEF Climbs
  <2>8. RequestSound(q)
    BY <1>3, <2>2, <2>4, <2>7 DEF RequestSound, Placing
  <2>. QED BY <2>8 DEF q, parentAt
<1>. QED BY <1>1, <1>2, <1>6, <1>7, HandlerReadsSoundly
\* A handler at work holds a request it has checked.
LEMMA HandlerIsSound ==
    ASSUME OutlineInv, HttpSound, NEW h \in Handlers, req[h].pc # "idle"
    PROVE  req[h] \in Request /\ RequestSound(req[h]) /\ TreeTypeOK
BY HandlerHolds, QueueIsTyped DEF HttpSound, NoReq

LEMMA PlacedSoundly ==
    ASSUME OutlineInv, HttpSound, NEW h \in Handlers, Place(h)
    PROVE  HttpSound'
<1> DEFINE r == req[h]
           p1 == [r EXCEPT !.pc = "shift", !.rank = nodes[r.after].rank]
           p2 == [r EXCEPT !.pc = "rank", !.position = Resolved(r.parent, r.position)]
<1>1. r \in Request /\ r.pc = "place" /\ RequestSound(r) /\ UNCHANGED nodes /\ TreeTypeOK
  BY HandlerIsSound DEF Place, Reading
<1>2. \/ Beside(r) /\ Keeps(h, p1)
      \/ ~Beside(r) /\ Keeps(h, p2)
  BY DEF Place, Beside
<1> HIDE DEF r
<1>3. /\ p1.pc = "shift" /\ p1.rank = nodes[r.after].rank
      /\ p1.node = r.node /\ p1.parent = r.parent /\ p1.after = r.after
  BY <1>1 DEF Request
<1>4. /\ p2.pc = "rank" /\ p2.node = r.node /\ p2.parent = r.parent /\ p2.after = r.after
      /\ p2.position \in {"top", "bottom"}
  <2>1. /\ p2.pc = "rank" /\ p2.node = r.node /\ p2.parent = r.parent /\ p2.after = r.after
        /\ p2.position = Resolved(r.parent, r.position) /\ r.position \in {"top", "bottom", ""}
    BY <1>1 DEF Request, Positions
  <2>2. Preferred(r.parent) \in {"top", "bottom"}
    BY <1>1 DEF Preferred, There, TreeTypeOK, Row
  <2>. QED BY <2>1, <2>2 DEF Resolved
<1> HIDE DEF p1, p2
<1>5. Beside(r) => RequestSound(p1)
  BY <1>1, <1>3 DEF RequestSound, Placing, Climbs, Climbed, Beside
<1>6. ~Beside(r) => RequestSound(p2)
  BY <1>1, <1>4 DEF RequestSound, Placing, Climbs, Climbed, Beside
<1>. QED BY <1>1, <1>2, <1>5, <1>6, HandlerReadsSoundly

LEMMA RankedSoundly ==
    ASSUME OutlineInv, HttpSound, NEW h \in Handlers, Rank(h)
    PROVE  HttpSound'
<1> DEFINE r == req[h]
           x == RankAt(r.parent, r.position)
           q == [r EXCEPT !.pc = LastPc(r), !.rank = x]
<1>1. r \in Request /\ r.pc = "rank" /\ RequestSound(r) /\ UNCHANGED nodes /\ TreeTypeOK /\ Keeps(h, q)
  BY HandlerIsSound DEF Rank, Reading
<1> HIDE DEF r
<1>2. x \in Int /\ \A y \in Children(r.parent) : nodes[y].rank \in Int /\ IF r.position = "top" THEN x < nodes[y].rank
                                                                                              ELSE nodes[y].rank < x
  <2>1. \A y \in Children(r.parent) : nodes[y].rank \in Int
    BY <1>1 DEF Children, TreeTypeOK, Row
  <2>. QED BY <1>1, <2>1, RanksAreOutside DEF RankAt
<1> HIDE DEF x
<1>3. /\ q.pc = LastPc(r) /\ q.rank = x /\ q.position = r.position
      /\ q.node = r.node /\ q.parent = r.parent /\ q.after = r.after
  BY <1>1 DEF Request
<1>4. LastPc(r) = IF r.node = None THEN "insert" ELSE "update"
  BY DEF LastPc
<1> HIDE DEF q
<1>5. Free(q, 1)
  <2>1. \A a1, b1 \in Int : a1 < b1 => a1 + 1 <= b1
    OBVIOUS
  <2>. QED BY <1>2, <1>3, <2>1 DEF Free
<1>6. ~Beside(q) /\ q.position \in {"top", "bottom"} /\ AtAnEnd(q)
  <2>1. ~Beside(q) /\ q.position \in {"top", "bottom"}
    BY <1>1, <1>3 DEF RequestSound, Placing, Beside
  <2>. QED BY <1>2, <1>3, <2>1 DEF AtAnEnd
<1>7. r.node # None => Climbs(q, None)
  BY <1>1, <1>3 DEF RequestSound, Placing, Climbs, Climbed
<1>8. RequestSound(q)
  BY <1>1, <1>3, <1>4, <1>5, <1>6, <1>7 DEF RequestSound, Placing
<1>. QED BY <1>1, <1>8, HandlerReadsSoundly

\* The siblings behind move on, and the rank right behind the sibling is nobody's.
LEMMA ShiftedSoundly ==
    ASSUME OutlineInv, HttpSound, DistinctRanks, NEW h \in Handlers, Shift(h)
    PROVE  HttpSound' /\ DistinctRanks'
<1>1. /\ req[h] \in Request /\ req[h].pc = "shift" /\ RequestSound(req[h]) /\ TreeTypeOK
      /\ nodes' = ShiftRanksAfter(req[h].parent, req[h].rank)
      /\ Keeps(h, [req[h] EXCEPT !.pc = LastPc(req[h]), !.rank = @ + 1])
  BY HandlerIsSound DEF Shift
<1>2. PICK r \in Request : r = req[h]
  BY <1>1
<1> DEFINE q == [r EXCEPT !.pc = LastPc(r), !.rank = r.rank + 1]
<1>3. r.pc = "shift" /\ RequestSound(r) /\ nodes' = ShiftRanksAfter(r.parent, r.rank) /\ Keeps(h, q) /\ r.rank \in Int
  BY <1>1, <1>2, RequestHas
<1>4. /\ InPlace /\ Children(r.parent)' = Children(r.parent)
      /\ \A n \in Nodes : /\ Live(n)' <=> Live(n)
                          /\ nodes'[n].rank = IF n \in Children(r.parent) /\ nodes[n].rank > r.rank
                                              THEN nodes[n].rank + 1 ELSE nodes[n].rank
  BY <1>1, <1>3, ShiftedRows
<1>5. /\ q.pc = LastPc(r) /\ q.rank = r.rank + 1
      /\ q.node = r.node /\ q.parent = r.parent /\ q.after = r.after
  BY DEF Request
<1>6. LastPc(r) = IF r.node = None THEN "insert" ELSE "update"
  BY DEF LastPc
<1> HIDE DEF q
<1>7. Free(q, 1)'
  <2>1. ASSUME NEW x \in Children(r.parent) PROVE nodes'[x].rank < q.rank \/ q.rank + 1 <= nodes'[x].rank
    <3>1. nodes[x].rank \in Int /\ x \in Nodes
      BY <1>1 DEF Children, TreeTypeOK, Row
    <3>. QED BY <1>3, <1>4, <1>5, <3>1
  <2>. QED BY <1>4, <1>5, <2>1 DEF Free
<1>8. Beside(q)' /\ q.rank = nodes'[q.after].rank + 1
  <2>1. Beside(r) /\ r.rank = nodes[r.after].rank /\ r.after \in Nodes
    BY <1>3 DEF RequestSound, Placing, Beside, There
  <2>2. nodes'[r.after].rank = nodes[r.after].rank
    BY <1>3, <1>4, <2>1
  <2>3. Beside(q)'
    BY <1>4, <1>5, <2>1, InPlaceKeepsClimb
  <2>. QED BY <1>5, <2>1, <2>2, <2>3
<1>9. (r.node # None => Climbs(q, None)') /\ \A x : There(x) => There(x)'
  <2>1. r.node # None => Climbs(r, None)
    BY <1>3 DEF RequestSound, Placing
  <2>. QED BY <1>4, <1>5, <2>1, InPlaceKeepsClimb
<1>10. RequestSound(q)'
  BY <1>3, <1>5, <1>6, <1>7, <1>8, <1>9 DEF RequestSound, Placing
<1>11. HttpSound'
  <2>1. Grounded' /\ Rooted'
    BY <1>4, InPlaceKeepsTree DEF HttpSound
  <2>. QED BY <1>3, <1>10, <2>1, HandlerStaysSound
<1>12. DistinctRanks'
  <2>1. KeepsOrderBut({})
    BY <1>1, <1>3, ShiftAfterKeepsOrder
  <2>2. TreeTypeOK'
    BY <1>1, <1>3, ShiftAfterWrites DEF Written
  <2>. QED BY <1>1, <1>4, <2>1, <2>2, OrderKeepsRanks DEF InPlace, Live, There
<1>. QED BY <1>11, <1>12

LEMMA InsertedSoundly ==
    ASSUME OutlineInv, HttpSound, DistinctRanks, NEW h \in Handlers, InsertRow(h)
    PROVE  HttpSound' /\ DistinctRanks'
<1> DEFINE r == req[h]
<1>1. /\ r \in Request /\ r.pc = "insert" /\ RequestSound(r) /\ TreeTypeOK
      /\ nodes' = Inserted(NewUuid, r.parent, r.rank, "bottom", r.text) /\ NewUuid \in Unused
      /\ Keeps(h, NoReq)
  BY HandlerIsSound DEF InsertRow, Respond, NewUuid
<1> HIDE DEF r
<1>2. There(r.parent) /\ Free(r, 1) /\ r.rank \in Int
  BY <1>1, RequestHas DEF RequestSound, Placing
<1>3. Grounded' /\ Rooted'
  BY <1>1, <1>2, InsertedKeepsTree DEF HttpSound
<1>4. HttpSound'
  BY <1>1, <1>3, HandlerStaysSound
<1>5. \A x \in Children(r.parent) : nodes[x].rank # r.rank
  BY <1>1, <1>2, FreeIsNobodys
<1>6. DistinctRanks'
  BY <1>1, <1>5, NewRow, PlacedKeepsRanks
<1>. QED BY <1>4, <1>6

\* The walk has left behind what is above the new parent.
LEMMA UpdatedSoundly ==
    ASSUME OutlineInv, HttpSound, DistinctRanks, NEW h \in Handlers, UpdateRow(h)
    PROVE  HttpSound' /\ DistinctRanks'
<1> DEFINE r == req[h]
<1>1. /\ r \in Request /\ r.pc = "update" /\ RequestSound(r) /\ TreeTypeOK
      /\ nodes' = Reparented(r.node, r.parent, r.rank)
      /\ Keeps(h, NoReq)
  BY HandlerIsSound DEF UpdateRow, Respond
<1> HIDE DEF r
<1>2. /\ r.node # None /\ There(r.node) /\ r.node # Root /\ r.rank \in Int
      /\ r.parent = None \/ There(r.parent)
      /\ Free(r, 1) /\ Climbs(r, None)
  BY <1>1, RequestHas DEF RequestSound, Placing
<1>3. r.node \in Nodes
  BY <1>2 DEF There
<1>4. /\ nodes'[r.node].parent = r.parent /\ nodes'[r.node].rank = r.rank
      /\ \A m \in Nodes \ {r.node} : nodes'[m] = nodes[m]
      /\ \A m \in Nodes : nodes'[m].there = nodes[m].there
  BY <1>1, <1>2, MovedRow
<1>5. PICK U \in SUBSET Nodes : Climbed(r, None, U)
  BY <1>2 DEF Climbs
<1>6. r.node \notin U /\ r.parent \in U \cup {None} /\ \A x \in U : nodes[x].parent \in U \cup {None}
  BY <1>5 DEF Climbed
<1>7. Grounded' /\ Rooted'
  <2>1. \A m \in Nodes \ {r.node} : nodes'[m].parent = nodes[m].parent
    BY <1>4
  <2>. QED BY <1>1, <1>2, <1>3, <1>4, <1>6, <2>1, MovedKeepsTree DEF HttpSound
<1>8. HttpSound'
  BY <1>1, <1>7, HandlerStaysSound
<1>9. \A x \in Children(r.parent) : nodes[x].rank # r.rank
  BY <1>1, <1>2, FreeIsNobodys
<1>10. DistinctRanks'
  BY <1>3, <1>4, <1>9, PlacedKeepsRanks
<1>. QED BY <1>8, <1>10

\* A statement that writes words or tombstones moves nothing.
LEMMA WordsStaySound ==
    ASSUME OutlineInv, HttpSound, DistinctRanks, NEW h \in Handlers, NEW q, Keeps(h, q), q.pc \notin Placing,
           TreeTypeOK',
           \A n \in Nodes : /\ nodes'[n].parent = nodes[n].parent /\ nodes'[n].rank = nodes[n].rank
                            /\ nodes'[n].there = nodes[n].there /\ (Live(n)' => Live(n))
    PROVE  HttpSound' /\ DistinctRanks'
<1>1. InPlace /\ KeepsOrderBut({})
  BY PlacesStay DEF InPlace
<1>2. Grounded' /\ Rooted'
  BY <1>1, InPlaceKeepsTree DEF HttpSound
<1>3. RequestSound(q)'
  BY DEF RequestSound, Placing
<1>4. HttpSound'
  BY <1>2, <1>3, HandlerStaysSound
<1>5. DistinctRanks'
  BY <1>1, OrderKeepsRanks, QueueIsTyped
<1>. QED BY <1>4, <1>5
LEMMA WordsMoveNothing ==
    ASSUME TreeTypeOK, NEW n, NEW v, nodes' = Renamed(n, v) \/ nodes' = Prioritized(n, v)
    PROVE  \A m \in Nodes : /\ nodes'[m].parent = nodes[m].parent /\ nodes'[m].rank = nodes[m].rank
                            /\ nodes'[m].there = nodes[m].there /\ nodes'[m].deleted = nodes[m].deleted
<1> SUFFICES ASSUME NEW m \in Nodes
             PROVE  /\ nodes'[m].parent = nodes[m].parent /\ nodes'[m].rank = nodes[m].rank
                    /\ nodes'[m].there = nodes[m].there /\ nodes'[m].deleted = nodes[m].deleted
  OBVIOUS
<1>1. nodes[m] \in Row
  BY DEF TreeTypeOK
<1>2. CASE m = n
  <2>1. nodes'[m] \in {nodes[m], [nodes[m] EXCEPT !.text = v], [nodes[m] EXCEPT !.prio = v]}
    BY <1>2 DEF Renamed, Prioritized, TreeTypeOK
  <2>. QED BY <1>1, <2>1 DEF Row
<1>3. CASE m # n
  BY <1>3 DEF Renamed, Prioritized, TreeTypeOK
<1>. QED BY <1>2, <1>3

LEMMA ServedSoundly ==
    ASSUME OutlineInv, HttpSound, DistinctRanks, NEW h \in Handlers, Serve(h)
    PROVE  HttpSound' /\ DistinctRanks'
<1> DEFINE r == req[h]
<1>1. TreeTypeOK
  BY QueueIsTyped
<1>2. ASSUME UNCHANGED nodes PROVE DistinctRanks'
  BY <1>2 DEF DistinctRanks, Live, There
<1>3. CASE Walk(h) \/ Place(h) \/ Rank(h)
  <2>1. UNCHANGED nodes
    BY <1>3 DEF Walk, Place, Rank, Reading
  <2>. QED BY <1>2, <1>3, <2>1, WalkedSoundly, PlacedSoundly, RankedSoundly
<1>4. CASE Shift(h) \/ InsertRow(h) \/ UpdateRow(h)
  BY <1>4, ShiftedSoundly, InsertedSoundly, UpdatedSoundly
<1>5. CASE PatchRow(h)
  <2>1. /\ nodes' = Renamed(r.node, r.text) \/ nodes' = Prioritized(r.node, r.position)
        /\ Keeps(h, NoReq) /\ NoReq.pc \notin Placing
    BY <1>5 DEF PatchRow, Respond, NoReq, Placing
  <2>2. TreeTypeOK'
    BY <1>5, WritingStep DEF HttpEffect
  <2> HIDE DEF r
  <2>3. \A m \in Nodes : /\ nodes'[m].parent = nodes[m].parent /\ nodes'[m].rank = nodes[m].rank
                         /\ nodes'[m].there = nodes[m].there /\ nodes'[m].deleted = nodes[m].deleted
    BY <1>1, <2>1, WordsMoveNothing
  <2>4. \A m \in Nodes : Live(m)' => Live(m)
    BY <2>3 DEF Live, There
  <2>. QED BY <2>1, <2>2, <2>3, <2>4, WordsStaySound
<1>6. CASE WalkDown(h)
  <2>1. PICK q : Keeps(h, q) /\ q.pc \notin Placing
    <3>1. r \in Request /\ r.pc = "subtree"
      BY <1>6, HandlerIsSound DEF WalkDown
    <3>2. \/ Keeps(h, [r EXCEPT !.pc = "tombstone"])
          \/ \E l : Keeps(h, [r EXCEPT !.todo = l \o Tail(@), !.got = @ \cup Children(Head(r.todo))])
      BY <1>6 DEF WalkDown
    <3> HIDE DEF r
    <3>3. [r EXCEPT !.pc = "tombstone"].pc \notin Placing
      BY <3>1 DEF Request, Placing
    <3>4. \A l : [r EXCEPT !.todo = l \o Tail(@), !.got = @ \cup Children(Head(r.todo))].pc \notin Placing
      BY <3>1 DEF Request, Placing
    <3>. QED BY <3>2, <3>3, <3>4
  <2>2. UNCHANGED nodes
    BY <1>6 DEF WalkDown, Reading
  <2>. QED BY <1>2, <2>1, <2>2, OthersAreSound, HandlerReadsSoundly
<1>7. CASE TombstoneRows(h)
  <2> DEFINE q == [r EXCEPT !.pc = "settle"]
  <2>1. nodes' = Tombstoned(r.got) /\ Keeps(h, q) /\ r \in Request
    BY <1>7, HandlerIsSound DEF TombstoneRows
  <2> HIDE DEF r
  <2>2. q.pc \notin Placing
    BY <2>1 DEF Request, Placing
  <2> HIDE DEF q
  <2>3. TreeTypeOK'
    BY <1>1, <2>1, TombstonedEffect
  <2>4. \A m \in Nodes : /\ nodes'[m].parent = nodes[m].parent /\ nodes'[m].rank = nodes[m].rank
                         /\ nodes'[m].there = nodes[m].there
                         /\ nodes'[m].deleted = IF m \in r.got THEN TRUE ELSE nodes[m].deleted
    BY <1>1, <2>1 DEF TreeTypeOK, Row, Tombstoned
  <2>5. \A m \in Nodes : Live(m)' => Live(m)
    BY <2>4 DEF Live, There
  <2>. QED BY <2>1, <2>2, <2>3, <2>4, <2>5, WordsStaySound
<1>8. CASE SettleRows(h)
  BY <1>2, <1>8, HandlerReadsSoundly DEF SettleRows, Respond
<1>. QED BY <1>3, <1>4, <1>5, <1>6, <1>7, <1>8 DEF Serve

\* With one request after another the table stays a tree and its ranks distinct.
LEMMA HttpStaysSound ==
    ASSUME OutlineInv, HttpSound, DistinctRanks, HttpNext
    PROVE  HttpSound' /\ DistinctRanks'
<1>1. PICK h \in Handlers : Receive(h) \/ Serve(h)
  BY DEF HttpNext
<1>2. CASE Receive(h)
  <2>1. UNCHANGED nodes
    BY <1>2, ReceiveStep
  <2>. QED BY <1>2, <2>1, ReceivedSoundly DEF DistinctRanks, Live, There
<1>. QED BY <1>1, <1>2, ServedSoundly
-----------------------------------------------------------------------------
(* The commands, one at a time.                                             *)

CommandsSound ==
    /\ RanksAreNatural
    /\ \A d \in Shells : cmd[d] # NoCmd => CommandSound(cmd[d])

\* There is one shell.
LEMMA ShellStaysSound ==
    ASSUME OutlineInv, NEW d \in Shells, NEW q, Put(d, q), RanksAreNatural', q # NoCmd => CommandSound(q)'
    PROVE  CommandsSound'
<1>1. \A e \in Shells : e = d
  BY AloneAssumption
<1>2. cmd'[d] = q
  BY DEF Put, OutlineInv, OutlineTypeOK, CmdTypeOK
<1>3. cmd'[d] # NoCmd => CommandSound(cmd[d])'
  BY <1>2 DEF CommandSound, TurnsRight, Free, Size, Aims
<1>. QED BY <1>1, <1>3 DEF CommandsSound

LEMMA ShellReadsSoundly ==
    ASSUME OutlineInv, CommandsSound, DistinctRanks, NEW d \in Shells, NEW q, Put(d, q), UNCHANGED nodes,
           q # NoCmd => CommandSound(q)
    PROVE  CommandsSound' /\ DistinctRanks'
<1>1. RanksAreNatural'
  BY DEF CommandsSound, RanksAreNatural
<1>2. CommandSound(q) => CommandSound(q)'
  BY DEF CommandSound, TurnsRight, Free, Size, Aims, Children, Live, There
<1>3. DistinctRanks'
  BY DEF DistinctRanks, Live, There
<1>. QED BY <1>1, <1>2, <1>3, ShellStaysSound

LEMMA ShellIsSound ==
    ASSUME OutlineInv, CommandsSound, NEW d \in Shells, cmd[d].pc # "idle"
    PROVE  cmd[d] \in Command /\ CommandInHand(cmd[d]) /\ CommandSound(cmd[d]) /\ TreeTypeOK
BY ShellHolds, QueueIsTyped DEF CommandsSound, NoCmd
\* A command that reads on: its rank stays, or is a natural found in the table.
LEMMA ReadOnSoundly ==
    ASSUME OutlineInv, CommandsSound, DistinctRanks, NEW d \in Shells, NEW q, Put(d, q), UNCHANGED nodes,
           q.rank \in Nat, q.pc \notin {"insert", "reparent"},
           q.pc \in {"below", "sibling", "shift"} => q.node # None, TurnsRight(q)
    PROVE  CommandsSound' /\ DistinctRanks'
<1>1. CommandSound(q)
  BY DEF CommandSound
<1>. QED BY <1>1, ShellReadsSoundly

\* It is given up, refused or killed: a gap it has opened stays open, and does no harm.
LEMMA QuitsSoundly ==
    ASSUME OutlineInv, CommandsSound, DistinctRanks, NEW d \in Shells, Put(d, NoCmd), UNCHANGED nodes
    PROVE  CommandsSound' /\ DistinctRanks'
BY ShellReadsSoundly

LEMMA GivenSoundly ==
    ASSUME OutlineInv, CommandsSound, DistinctRanks, NEW d \in Shells, MvNode(d) \/ AddParent(d) \/ RmNode(d)
    PROVE  CommandsSound' /\ DistinctRanks'
<1>1. PICK q : Start(d, q) /\ q.rank = 0 /\ q.pc \in {"parent", "priority", "remove"} /\ TurnsRight(q)
  <2>1. CASE MvNode(d)
    <3>1. PICK n \in Known, p \in Nodes, at \in Known \cup {None}, top \in BOOLEAN :
              Start(d, [Given("parent") EXCEPT !.node = n, !.parent = p, !.after = at, !.top = top])
      BY <2>1 DEF MvNode
    <3> DEFINE q == [Given("parent") EXCEPT !.node = n, !.parent = p, !.after = at, !.top = top]
    <3>2. q.rank = 0 /\ q.pc = "parent"
      BY DEF Given
    <3> HIDE DEF q
    <3>3. TurnsRight(q)
      BY <3>2 DEF TurnsRight
    <3>. QED BY <3>1, <3>2, <3>3 DEF q
  <2>2. CASE AddParent(d)
    <3>1. PICK p \in Nodes, k \in 1..MaxLines, top \in BOOLEAN :
              Start(d, [Given("priority") EXCEPT !.parent = p, !.lines = k, !.top = top])
      BY <2>2 DEF AddParent
    <3> DEFINE q == [Given("priority") EXCEPT !.parent = p, !.lines = k, !.top = top]
    <3>2. q.rank = 0 /\ q.pc = "priority" /\ q.after = None
      BY DEF Given
    <3> HIDE DEF q
    <3>3. TurnsRight(q)
      BY <3>2 DEF TurnsRight
    <3>. QED BY <3>1, <3>2, <3>3 DEF q
  <2>3. CASE RmNode(d)
    <3>1. PICK n \in Known : Start(d, [Given("remove") EXCEPT !.node = n])
      BY <2>3 DEF RmNode
    <3> DEFINE q == [Given("remove") EXCEPT !.node = n]
    <3>2. q.rank = 0 /\ q.pc = "remove"
      BY DEF Given
    <3> HIDE DEF q
    <3>3. TurnsRight(q)
      BY <3>2 DEF TurnsRight
    <3>. QED BY <3>1, <3>2, <3>3 DEF q
  <2>. QED BY <2>1, <2>2, <2>3
<1>2. Put(d, q) /\ UNCHANGED nodes /\ 0 \in Nat
  BY <1>1 DEF Start, Put
<1>. QED BY <1>1, <1>2, ReadOnSoundly

LEMMA MvReadsSoundly ==
    ASSUME OutlineInv, CommandsSound, DistinctRanks, NEW d \in Shells, MvParent(d) \/ MvBelow(d) \/ AddPriority(d)
    PROVE  CommandsSound' /\ DistinctRanks'
<1> DEFINE r == cmd[d]
           turn(l, high) == /\ l = "open" => high /\ (r.node = None => r.after = None)
                            /\ l = "rank" => ~high /\ r.after = None
                            /\ l = "sibling" => ~high /\ r.after # None
<1>1. r \in Command /\ CommandInHand(r) /\ CommandSound(r) /\ UNCHANGED nodes /\ r.pc \in {"parent", "below", "priority"}
  BY ShellIsSound DEF MvParent, MvBelow, AddPriority, Query
<1>2. \/ Put(d, NoCmd)
      \/ \E l \in {"below", "open", "sibling", "rank"} : \E t, g, high :
            /\ r.pc \in {"parent", "below"} \/ l \in {"open", "rank"}
            /\ turn(l, high)
            /\ Put(d, [r EXCEPT !.pc = l, !.todo = t, !.got = g, !.top = high])
  <2>1. CASE MvParent(d)
    <3> DEFINE high == r.top \/ (r.after = None /\ nodes[r.parent].prio = "top")
    <3>1. r.pc = "parent" /\ (Put(d, NoCmd) \/ Put(d, [r EXCEPT !.pc = "below", !.todo = <<r.node>>, !.got = {r.node}, !.top = high]))
      BY <2>1 DEF MvParent, Quit
    <3> HIDE DEF high, r
    <3>. QED BY <3>1
  <2>2. CASE MvBelow(d)
    <3>1. /\ r.pc = "below"
          /\ \/ Put(d, NoCmd)
             \/ \E l : Put(d, [r EXCEPT !.todo = l \o Tail(@), !.got = @ \cup Children(Head(r.todo))])
             \/ \E l \in {"open", "sibling", "rank"} : turn(l, r.top) /\ Put(d, [r EXCEPT !.pc = l])
      <4> DEFINE w == IF r.top THEN "open" ELSE IF r.after # None THEN "sibling" ELSE "rank"
      <4>1. /\ r.pc = "below"
            /\ \/ Put(d, NoCmd)
               \/ \E l : Put(d, [r EXCEPT !.todo = l \o Tail(@), !.got = @ \cup Children(Head(r.todo))])
               \/ Put(d, [r EXCEPT !.pc = w])
        BY <2>2 DEF MvBelow, Quit
      <4>2. w \in {"open", "sibling", "rank"} /\ turn(w, r.top)
        BY <1>1, <4>1 DEF CommandSound
      <4> HIDE DEF w, r
      <4>. QED BY <4>1, <4>2
    <3> HIDE DEF r
    <3>2. ASSUME NEW l PROVE [r EXCEPT !.todo = l, !.got = r.got \cup Children(Head(r.todo))]
                             = [r EXCEPT !.pc = "below", !.todo = l, !.got = r.got \cup Children(Head(r.todo)), !.top = r.top]
      BY <1>1, <3>1 DEF Command
    <3>3. ASSUME NEW l PROVE [r EXCEPT !.pc = l] = [r EXCEPT !.pc = l, !.todo = r.todo, !.got = r.got, !.top = r.top]
      BY <1>1 DEF Command
    <3>4. CASE \E l : Put(d, [r EXCEPT !.todo = l \o Tail(@), !.got = @ \cup Children(Head(r.todo))])
      <4>1. PICK l : Put(d, [r EXCEPT !.todo = l, !.got = r.got \cup Children(Head(r.todo))])
        BY <3>4
      <4>2. Put(d, [r EXCEPT !.pc = "below", !.todo = l, !.got = r.got \cup Children(Head(r.todo)), !.top = r.top])
        BY <3>2, <4>1
      <4>. QED BY <3>1, <4>2
    <3>5. CASE \E l \in {"open", "sibling", "rank"} : turn(l, r.top) /\ Put(d, [r EXCEPT !.pc = l])
      <4>1. PICK l \in {"open", "sibling", "rank"} : turn(l, r.top) /\ Put(d, [r EXCEPT !.pc = l])
        BY <3>5
      <4>2. Put(d, [r EXCEPT !.pc = l, !.todo = r.todo, !.got = r.got, !.top = r.top])
        BY <3>3, <4>1
      <4>. QED BY <3>1, <4>1, <4>2
    <3>. QED BY <3>1, <3>4, <3>5
  <2>3. CASE AddPriority(d)
    <3> DEFINE high == r.top \/ nodes[r.parent].prio = "top"
               w == IF high THEN "open" ELSE "rank"
    <3>1. Put(d, [r EXCEPT !.pc = w, !.top = high])
      BY <2>3 DEF AddPriority
    <3>2. w \in {"open", "rank"} /\ turn(w, high)
      BY <1>1, <2>3 DEF AddPriority, CommandSound, TurnsRight
    <3> HIDE DEF high, w, r
    <3>3. [r EXCEPT !.pc = w, !.top = high] = [r EXCEPT !.pc = w, !.todo = r.todo, !.got = r.got, !.top = high]
      BY <1>1 DEF Command
    <3>4. Put(d, [r EXCEPT !.pc = w, !.todo = r.todo, !.got = r.got, !.top = high])
      BY <3>1, <3>3
    <3>. QED BY <3>2, <3>4
  <2>. QED BY <2>1, <2>2, <2>3
<1> HIDE DEF r, turn
<1>3. CASE Put(d, NoCmd)
  BY <1>1, <1>3, QuitsSoundly
<1>4. ASSUME NEW l \in {"below", "open", "sibling", "rank"}, NEW t, NEW g, NEW high,
             r.pc \in {"parent", "below"} \/ l \in {"open", "rank"}, turn(l, high),
             Put(d, [r EXCEPT !.pc = l, !.todo = t, !.got = g, !.top = high])
      PROVE  CommandsSound' /\ DistinctRanks'
  <2> DEFINE q == [r EXCEPT !.pc = l, !.todo = t, !.got = g, !.top = high]
  <2>1. q.pc = l /\ q.node = r.node /\ q.rank = r.rank /\ q.after = r.after /\ q.top = high
    BY <1>1 DEF Command
  <2>2. Put(d, q)
    BY <1>4
  <2> HIDE DEF q
  <2>3. r.rank \in Nat /\ (r.pc \in {"parent", "below"} => r.node # None)
    BY <1>1 DEF CommandSound, CommandInHand
  <2>4. q.rank \in Nat /\ q.pc \notin {"insert", "reparent"} /\ (q.pc \in {"below", "sibling", "shift"} => q.node # None)
    BY <1>4, <2>1, <2>3
  <2>5. TurnsRight(q)
    BY <1>4, <2>1, <2>4 DEF TurnsRight, turn
  <2>. QED BY <1>1, <2>2, <2>4, <2>5, ReadOnSoundly
<1>. QED BY <1>2, <1>3, <1>4
\* At least one rank is asked for.
LEMMA SizeIsPositive ==
    ASSUME NEW r \in Command, CommandInHand(r)
    PROVE  Size(r) \in Nat /\ Size(r) > 0 /\ (r.node # None => Size(r) = 1)
<1>1. r.lines \in Nat /\ (r.node = None => r.lines # 0)
  BY CommandHas, CommandAssumption DEF CommandInHand
<1>. QED BY <1>1 DEF Size

\* --after: the rank behind the sibling that was read.
LEMMA MvSiblingSoundly ==
    ASSUME OutlineInv, CommandsSound, DistinctRanks, NEW d \in Shells, MvSibling(d)
    PROVE  CommandsSound' /\ DistinctRanks'
<1> DEFINE r == cmd[d]
           x == nodes[r.after].rank + 1
           q == [r EXCEPT !.pc = "shift", !.rank = x]
<1>1. /\ r \in Command /\ CommandInHand(r) /\ CommandSound(r) /\ UNCHANGED nodes /\ r.pc = "sibling"
      /\ Put(d, NoCmd) \/ Put(d, q)
  BY ShellIsSound DEF MvSibling, Query, Quit
<1> HIDE DEF r
<1>2. r.after \in Nodes /\ r.node # None
  BY <1>1 DEF CommandInHand, CommandSound
<1>3. x \in Nat
  BY <1>2 DEF CommandsSound, RanksAreNatural
<1> HIDE DEF x
<1>4. q.pc = "shift" /\ q.rank = x /\ q.node = r.node /\ q.after = r.after /\ q.top = r.top
  BY <1>1 DEF Command
<1> HIDE DEF q
<1>5. TurnsRight(q)
  BY <1>1, <1>4 DEF TurnsRight, CommandSound, x
<1>. QED BY <1>1, <1>2, <1>3, <1>4, <1>5, ReadOnSoundly, QuitsSoundly

\* At the bottom every rank from NextRank on is free.
LEMMA BehindSoundly ==
    ASSUME OutlineInv, CommandsSound, DistinctRanks, NEW d \in Shells, Behind(d)
    PROVE  CommandsSound' /\ DistinctRanks'
<1> DEFINE r == cmd[d]
           x == NextRank(r.parent)
           q == [r EXCEPT !.pc = Writes(r), !.rank = x]
<1>1. /\ r \in Command /\ CommandInHand(r) /\ UNCHANGED nodes /\ r.pc = "rank" /\ Put(d, q) /\ TreeTypeOK
      /\ TurnsRight(r)
  BY ShellIsSound DEF Behind, Query, CommandSound
<1> HIDE DEF r
<1>2. x \in Int /\ \A y \in Children(r.parent) : nodes[y].rank < x /\ nodes[y].rank \in Nat
  BY <1>1, RanksAreOutside DEF CommandsSound, RanksAreNatural, Children
<1>3. x \in Nat
  <2>1. CASE Children(r.parent) = {}
    BY <2>1 DEF NextRank, Ranks
  <2>2. CASE Children(r.parent) # {}
    BY <1>2, <2>2
  <2>. QED BY <2>1, <2>2
<1> HIDE DEF x
<1>4. /\ q.pc = Writes(r) /\ q.rank = x /\ q.parent = r.parent /\ q.node = r.node
      /\ q.top = r.top /\ q.after = r.after
  BY <1>1 DEF Command
<1> HIDE DEF q
<1>5. Free(q, Size(q)) /\ Aims(q)
  BY <1>1, <1>2, <1>4 DEF Free, Aims, TurnsRight
<1>6. Writes(r) = IF r.node = None THEN "insert" ELSE "reparent"
  BY DEF Writes
<1>7. CommandSound(q)
  BY <1>1, <1>3, <1>4, <1>5, <1>6 DEF CommandSound, TurnsRight
<1>. QED BY <1>1, <1>7, ShellReadsSoundly

\* Behind the sibling the others move on by one.
LEMMA MvShiftSoundly ==
    ASSUME OutlineInv, CommandsSound, DistinctRanks, NEW d \in Shells, MvShift(d)
    PROVE  CommandsSound' /\ DistinctRanks'
<1>1. /\ cmd[d] \in Command /\ CommandInHand(cmd[d]) /\ CommandSound(cmd[d]) /\ TreeTypeOK
      /\ nodes' = ShiftRanksAfter(cmd[d].parent, cmd[d].rank - 1) /\ cmd[d].pc = "shift"
      /\ Put(d, [cmd[d] EXCEPT !.pc = "reparent"])
  BY ShellIsSound DEF MvShift
<1>2. PICK r \in Command : r = cmd[d]
  BY <1>1
<1> DEFINE q == [r EXCEPT !.pc = "reparent"]
<1>3. /\ nodes' = ShiftRanksAfter(r.parent, r.rank - 1) /\ Put(d, q)
      /\ r.rank \in Nat /\ r.rank - 1 \in Int /\ r.node # None
      /\ ~r.top /\ r.after \in Nodes /\ r.rank = nodes[r.after].rank + 1
  <2>1. r.after \in Nodes \cup {None}
    BY <1>2 DEF Command
  <2>. QED BY <1>1, <1>2, <2>1 DEF CommandSound, TurnsRight
<1>4. /\ Children(r.parent)' = Children(r.parent)
      /\ \A n \in Nodes : /\ Live(n)' <=> Live(n)
                          /\ nodes'[n].parent = nodes[n].parent
                          /\ nodes'[n].rank = IF n \in Children(r.parent) /\ nodes[n].rank > r.rank - 1
                                              THEN nodes[n].rank + 1 ELSE nodes[n].rank
  BY <1>1, <1>3, ShiftedRows DEF InPlace
<1>5. /\ q.pc = "reparent" /\ q.rank = r.rank /\ q.parent = r.parent /\ q.node = r.node
      /\ q.top = r.top /\ q.after = r.after
  BY DEF Command
<1> HIDE DEF q
<1>6. \A n \in Nodes : nodes[n].rank \in Nat
  BY DEF CommandsSound, RanksAreNatural
<1>7. RanksAreNatural'
  BY <1>4, <1>6 DEF RanksAreNatural
<1>8. Free(q, Size(q))'
  <2>1. Size(q) = 1
    BY <1>3, <1>5 DEF Size
  <2>2. ASSUME NEW x \in Children(r.parent) PROVE nodes'[x].rank < r.rank \/ r.rank + 1 <= nodes'[x].rank
    <3>1. x \in Nodes /\ nodes[x].rank \in Nat
      BY <1>6 DEF Children
    <3>. QED BY <1>3, <1>4, <3>1
  <2>. QED BY <1>4, <1>5, <2>1, <2>2 DEF Free, Size
<1>9. CommandSound(q)'
  <2>1. nodes[r.after].rank \in Nat /\ ~(nodes[r.after].rank > r.rank - 1)
    BY <1>3, <1>6
  <2>2. nodes'[r.after].rank = nodes[r.after].rank
    BY <1>3, <1>4, <2>1
  <2>3. Aims(q)'
    BY <1>3, <1>5, <2>2, NodeAssumption DEF Aims
  <2>. QED BY <1>3, <1>5, <1>8, <2>3 DEF CommandSound, TurnsRight
<1>10. CommandsSound'
  BY <1>3, <1>7, <1>9, ShellStaysSound
<1>11. DistinctRanks'
  <2>1. KeepsOrderBut({}) /\ TreeTypeOK'
    BY <1>1, <1>3, ShiftAfterKeepsOrder, ShiftAfterWrites DEF Written
  <2>. QED BY <1>1, <1>4, <2>1, OrderKeepsRanks
<1>. QED BY <1>10, <1>11

\* On top: no rank below Gap is taken any more.
LEMMA GapOpens ==
    ASSUME TreeTypeOK, RanksAreNatural, NEW p, NEW k \in Nat, nodes' = ShiftRanksAll(p, k)
    PROVE  /\ TreeTypeOK' /\ RanksAreNatural' /\ Children(p)' = Children(p)
           /\ \A n \in Nodes : (Live(n)' <=> Live(n)) /\ nodes'[n].parent = nodes[n].parent
           /\ \A n \in Children(p) : nodes'[n].rank >= k
<1>1. ASSUME NEW n \in Nodes
      PROVE  /\ nodes'[n].parent = nodes[n].parent /\ nodes'[n].there = nodes[n].there
             /\ nodes'[n].deleted = nodes[n].deleted
             /\ nodes'[n].rank = IF n \in Children(p) THEN nodes[n].rank + k ELSE nodes[n].rank
  BY DEF ShiftRanksAll, TreeTypeOK, Row
<1>2. \A n \in Nodes : nodes[n].rank \in Nat
  BY DEF RanksAreNatural
<1>3. RanksAreNatural'
  BY <1>1, <1>2 DEF RanksAreNatural
<1>4. TreeTypeOK'
  BY ShiftAllWrites DEF Written
<1>5. \A n \in Nodes : Live(n)' <=> Live(n)
  BY <1>1 DEF Live, There
<1>6. Children(p)' = Children(p)
  BY <1>1, <1>5 DEF Children
<1>7. ASSUME NEW n \in Children(p) PROVE nodes'[n].rank >= k
  <2>1. n \in Nodes
    BY DEF Children
  <2>2. nodes[n].rank \in Nat /\ nodes'[n].rank = nodes[n].rank + k
    BY <1>1, <1>2, <2>1
  <2>. QED BY <2>2
<1>. QED BY <1>1, <1>3, <1>4, <1>5, <1>6, <1>7

LEMMA OpenTopSoundly ==
    ASSUME OutlineInv, CommandsSound, DistinctRanks, NEW d \in Shells, OpenTop(d)
    PROVE  CommandsSound' /\ DistinctRanks'
<1>1. /\ cmd[d] \in Command /\ CommandInHand(cmd[d]) /\ TreeTypeOK
      /\ CommandSound(cmd[d]) /\ cmd[d].pc = "open"
      /\ nodes' = ShiftRanksAll(cmd[d].parent, Size(cmd[d]))
      /\ Put(d, [cmd[d] EXCEPT !.pc = Writes(cmd[d]), !.rank = 0])
  BY ShellIsSound DEF OpenTop, Gap
<1>2. PICK r \in Command : r = cmd[d]
  BY <1>1
<1> DEFINE q == [r EXCEPT !.pc = Writes(r), !.rank = 0]
<1>3. /\ nodes' = ShiftRanksAll(r.parent, Size(r)) /\ Put(d, q) /\ Size(r) \in Nat
      /\ Writes(r) = IF r.node = None THEN "insert" ELSE "reparent"
      /\ r.top /\ (r.node = None => r.after = None)
  BY <1>1, <1>2, SizeIsPositive DEF Writes, CommandSound, TurnsRight
<1>4. /\ TreeTypeOK' /\ RanksAreNatural' /\ Children(r.parent)' = Children(r.parent)
      /\ \A n \in Nodes : (Live(n)' <=> Live(n)) /\ nodes'[n].parent = nodes[n].parent
      /\ \A n \in Children(r.parent) : nodes'[n].rank >= Size(r)
  BY <1>1, <1>3, GapOpens DEF CommandsSound
<1>5. /\ q.pc = Writes(r) /\ q.rank = 0 /\ q.parent = r.parent /\ q.node = r.node /\ q.lines = r.lines
      /\ q.top = r.top /\ q.after = r.after
  BY DEF Command
<1> HIDE DEF q
<1>6. Free(q, Size(q))'
  <2>1. Size(q) = Size(r)
    BY <1>5 DEF Size
  <2>2. ASSUME NEW x \in Children(r.parent) PROVE 0 + Size(r) <= nodes'[x].rank
    <3>1. nodes'[x].rank \in Nat
      BY <1>4 DEF RanksAreNatural, Children
    <3>. QED BY <1>3, <1>4, <3>1
  <2>. QED BY <1>4, <1>5, <2>1, <2>2 DEF Free, Size
<1>7. CommandSound(q)'
  BY <1>3, <1>5, <1>6 DEF CommandSound, TurnsRight, Aims
<1>8. CommandsSound'
  BY <1>3, <1>4, <1>7, ShellStaysSound
<1>9. DistinctRanks'
  <2>1. KeepsOrderBut({})
    BY <1>1, <1>3, ShiftAllKeepsOrder
  <2>. QED BY <1>1, <1>4, <2>1, OrderKeepsRanks
<1>. QED BY <1>8, <1>9
\* A line takes the first of the ranks that are free, and leaves the others to the lines that follow.
LEMMA InsertLineSoundly ==
    ASSUME OutlineInv, CommandsSound, DistinctRanks, NEW d \in Shells, InsertLine(d)
    PROVE  CommandsSound' /\ DistinctRanks'
<1>1. /\ cmd[d] \in Command /\ CommandInHand(cmd[d]) /\ CommandSound(cmd[d]) /\ TreeTypeOK
      /\ nodes' = Inserted(NewUuid, cmd[d].parent, cmd[d].rank, "top", nodes[cmd[d].parent].text)
      /\ NewUuid \in Unused /\ cmd[d].pc = "insert"
      /\ IF cmd[d].lines = 1 THEN Put(d, NoCmd) ELSE Put(d, [cmd[d] EXCEPT !.rank = @ + 1, !.lines = @ - 1])
  BY ShellIsSound DEF InsertLine, Quit, NewUuid
<1>2. PICK r \in Command, n \in Unused : \E t : r = cmd[d] /\ n = NewUuid /\ t = nodes[cmd[d].parent].text
  BY <1>1
<1> DEFINE q == [r EXCEPT !.rank = r.rank + 1, !.lines = r.lines - 1]
<1>3. /\ \E t : nodes' = Inserted(n, r.parent, r.rank, "top", t)
      /\ r.rank \in Nat /\ r.node = None /\ Free(r, Size(r)) /\ Aims(r) /\ r.after = None /\ r.pc = "insert"
      /\ Put(d, NoCmd) \/ Put(d, q)
  BY <1>1, <1>2 DEF CommandSound, TurnsRight, CommandInHand
<1>4. Size(r) \in Nat /\ Size(r) > 0 /\ Size(r) = r.lines
  BY <1>1, <1>2, <1>3, SizeIsPositive DEF Size
<1>5. /\ n \in Nodes /\ ~There(n) /\ nodes'[n].parent = r.parent /\ nodes'[n].rank = r.rank /\ Live(n)'
      /\ \A m \in Nodes \ {n} : nodes'[m] = nodes[m]
  BY <1>1, <1>3, NewRow, SMTT(40)
<1>6. RanksAreNatural'
  BY <1>3, <1>5 DEF CommandsSound, RanksAreNatural
<1>7. \A x \in Children(r.parent) : nodes[x].rank # r.rank
  BY <1>1, <1>3, <1>4, FreeIsNobodys
<1>8. DistinctRanks'
  BY <1>5, <1>7, PlacedKeepsRanks
<1>9. /\ q.pc = "insert" /\ q.rank = r.rank + 1 /\ q.parent = r.parent /\ q.node = None /\ q.lines = r.lines - 1
      /\ q.top = r.top /\ q.after = r.after
  BY <1>3 DEF Command
<1> HIDE DEF q
<1>10. Free(q, Size(q))'
  <2>1. Size(q) = r.lines - 1
    BY <1>9 DEF Size
  <2>2. ASSUME NEW x \in Children(r.parent)' PROVE nodes'[x].rank < q.rank \/ q.rank + (r.lines - 1) <= nodes'[x].rank
    <3>1. x \in Nodes /\ nodes'[x].rank \in Nat
      BY <1>6 DEF RanksAreNatural, Children
    <3>2. CASE x = n
      BY <1>3, <1>5, <1>9, <3>2
    <3>3. CASE x # n
      <4>1. nodes'[x] = nodes[x] /\ x \in Children(r.parent)
        BY <1>5, <3>1, <3>3 DEF Children, Live, There
      <4>2. nodes[x].rank < r.rank \/ r.rank + r.lines <= nodes[x].rank
        BY <1>3, <1>4, <4>1 DEF Free
      <4>. QED BY <1>3, <1>4, <1>9, <3>1, <4>1, <4>2
    <3>. QED BY <3>2, <3>3
  <2>. QED BY <1>9, <2>1, <2>2 DEF Free, Size
<1>11. CommandSound(q)'
  <2>1. n \in Children(r.parent)' /\ \A x \in Children(r.parent)' : x = n \/ (x \in Children(r.parent) /\ nodes'[x] = nodes[x])
    BY <1>5 DEF Children, Live, There
  <2>2. CASE r.top
    <3>1. nodes'[n].rank = q.rank - 1
      BY <1>3, <1>5, <1>9
    <3>. QED BY <1>3, <1>9, <1>10, <2>1, <2>2, <3>1 DEF CommandSound, TurnsRight, Aims
  <2>3. CASE ~r.top
    <3>1. ASSUME NEW x \in Children(r.parent)' PROVE nodes'[x].rank < q.rank
      <4>1. nodes'[x].rank \in Nat
        BY <1>6 DEF RanksAreNatural, Children
      <4>2. nodes'[x].rank = r.rank \/ nodes'[x].rank < r.rank
        BY <1>3, <1>5, <2>1, <2>3 DEF Aims
      <4>. QED BY <1>3, <1>9, <4>1, <4>2
    <3>. QED BY <1>3, <1>9, <1>10, <2>3, <3>1 DEF CommandSound, TurnsRight, Aims
  <2>. QED BY <2>2, <2>3
<1>12. CommandsSound'
  BY <1>3, <1>6, <1>11, ShellStaysSound
<1>. QED BY <1>8, <1>12

LEMMA MvReparentSoundly ==
    ASSUME OutlineInv, CommandsSound, DistinctRanks, NEW d \in Shells, MvReparent(d)
    PROVE  CommandsSound' /\ DistinctRanks'
<1> DEFINE r == cmd[d]
<1>1. /\ r \in Command /\ CommandInHand(r) /\ CommandSound(r) /\ TreeTypeOK
      /\ nodes' = Reparented(r.node, r.parent, r.rank) /\ r.pc = "reparent"
      /\ Put(d, NoCmd)
  BY ShellIsSound DEF MvReparent, Quit
<1> HIDE DEF r
<1>2. r.node \in Nodes /\ r.rank \in Nat /\ Free(r, 1)
  BY <1>1, SizeIsPositive, CommandHas DEF CommandSound
<1>3. CASE There(r.node)
  <2>1. /\ nodes'[r.node].parent = r.parent /\ nodes'[r.node].rank = r.rank
        /\ \A m \in Nodes \ {r.node} : nodes'[m] = nodes[m]
    BY <1>1, <1>3, MovedRow
  <2>2. RanksAreNatural'
    BY <1>2, <2>1 DEF CommandsSound, RanksAreNatural
  <2>3. \A x \in Children(r.parent) : nodes[x].rank # r.rank
    BY <1>1, <1>2, FreeIsNobodys
  <2>4. DistinctRanks'
    BY <1>2, <2>1, <2>3, PlacedKeepsRanks
  <2>. QED BY <1>1, <2>2, <2>4, ShellStaysSound
<1>4. CASE ~There(r.node)
  <2>1. nodes' = nodes
    BY <1>1, <1>2, <1>4 DEF Reparented, There, TreeTypeOK
  <2>. QED BY <1>1, <2>1, QuitsSoundly
<1>. QED BY <1>3, <1>4

LEMMA RmSoundly ==
    ASSUME OutlineInv, CommandsSound, DistinctRanks, NEW d \in Shells, Rm(d)
    PROVE  CommandsSound' /\ DistinctRanks'
<1> DEFINE D == Subtree(cmd[d].node)
<1>1. TreeTypeOK /\ nodes' = Tombstoned(D) /\ Put(d, NoCmd)
  BY QueueIsTyped DEF Rm, Quit
<1> HIDE DEF D
<1>2. TreeTypeOK'
  BY <1>1, TombstonedEffect
<1>3. \A m \in Nodes : /\ nodes'[m].parent = nodes[m].parent /\ nodes'[m].rank = nodes[m].rank
                       /\ nodes'[m].there = nodes[m].there
                       /\ nodes'[m].deleted = IF m \in D THEN TRUE ELSE nodes[m].deleted
  BY <1>1 DEF TreeTypeOK, Row, Tombstoned
<1>4. RanksAreNatural'
  BY <1>3 DEF CommandsSound, RanksAreNatural
<1>5. DistinctRanks'
  <2>1. KeepsOrderBut({})
    BY <1>1, TombstonedKeepsOrder
  <2>2. \A m \in Nodes : Live(m)' => Live(m)
    BY <1>3 DEF Live, There
  <2>. QED BY <1>1, <1>2, <1>3, <2>1, <2>2, OrderKeepsRanks
<1>. QED BY <1>1, <1>4, <1>5, ShellStaysSound

\* With one command after another, killed anywhere, ranks stay distinct naturals.
LEMMA CommandsStaySound ==
    ASSUME OutlineInv, CommandsSound, DistinctRanks, CmdNext
    PROVE  CommandsSound' /\ DistinctRanks'
<1>1. PICK d \in Shells : Shell(d)
  BY DEF CmdNext
<1>2. CASE Kill(d)
  BY <1>2, QuitsSoundly DEF Kill, Quit, Query
<1>3. CASE MvNode(d) \/ AddParent(d) \/ RmNode(d)
  BY <1>3, GivenSoundly
<1>4. CASE MvParent(d) \/ MvBelow(d) \/ AddPriority(d) \/ MvSibling(d) \/ Behind(d)
  BY <1>4, MvReadsSoundly, MvSiblingSoundly, BehindSoundly
<1>5. CASE MvShift(d) \/ OpenTop(d) \/ InsertLine(d) \/ MvReparent(d) \/ Rm(d)
  BY <1>5, MvShiftSoundly, OpenTopSoundly, InsertLineSoundly, MvReparentSoundly, RmSoundly
<1>. QED BY <1>1, <1>2, <1>3, <1>4, <1>5 DEF Shell

-----------------------------------------------------------------------------
(* Both.                                                                    *)

LEMMA InitAlone == AloneInit => AloneInv
<1> SUFFICES ASSUME AloneInit PROVE AloneInv
  OBVIOUS
<1>1. OutlineInv /\ writer \in {"http", "command"} \cup Editors /\ nodes = InitTree
  BY InitOutline DEF AloneInit, OutlineInit, SuggestInit
<1>2. DistinctRanks
  BY <1>1, InitTreeIsATree DEF DistinctRanks, Live, There
<1>3. Grounded /\ Rooted
  BY <1>1, InitTreeIsATree, NodeAssumption DEF Grounded, Rooted, There
<1>4. RanksAreNatural
  <2>1. \A n \in Nodes : InitTree[n].rank \in Int
    BY InitTreeAssumption DEF Row
  <2>. QED BY <1>1, <2>1, InitTreeIsATree DEF RanksAreNatural
<1>5. (\A h \in Handlers : req[h] = NoReq) /\ (\A d \in Shells : cmd[d] = NoCmd)
  BY DEF AloneInit, OutlineInit, HttpInit, CmdInit
<1>. QED BY <1>1, <1>2, <1>3, <1>4, <1>5 DEF AloneInv

LEMMA AloneIsOutline == [AloneNext]_<<writer, outline, vars>> => [OutlineNext]_outline
BY DEF AloneNext, OutlineNext, outline

LEMMA NextAlone == AloneInv /\ [AloneNext]_<<writer, outline, vars>> => AloneInv'
<1> SUFFICES ASSUME AloneInv, [AloneNext]_<<writer, outline, vars>> PROVE AloneInv'
  OBVIOUS
<1>1. OutlineInv' /\ OutlineInv /\ DistinctRanks /\ writer' = writer
  BY AloneIsOutline, NextOutline DEF AloneInv, AloneNext
<1>2. CASE writer = "http" /\ HttpNext
  <2>1. HttpSound
    BY <1>2 DEF AloneInv, HttpSound
  <2>2. HttpSound' /\ DistinctRanks'
    BY <1>1, <1>2, <2>1, HttpStaysSound
  <2>. QED BY <1>1, <1>2, <2>2 DEF AloneInv, HttpSound
<1>3. CASE writer = "command" /\ CmdNext
  <2>1. CommandsSound
    BY <1>3 DEF AloneInv, CommandsSound
  <2>2. CommandsSound' /\ DistinctRanks'
    BY <1>1, <1>3, <2>1, CommandsStaySound
  <2>. QED BY <1>1, <1>3, <2>2 DEF AloneInv, CommandsSound
<1>4. CASE UNCHANGED outline
  <2>1. DistinctRanks'
    BY <1>1, <1>4 DEF outline, DistinctRanks, Live, There
  <2>2. HttpSound => HttpSound'
    BY <1>4 DEF outline, httpVars, HttpSound, Grounded, Rooted, There, RequestSound, Climbs, Climbed, Beside, Free,
                AtAnEnd, Children, Live
  <2>3. CommandsSound => CommandsSound'
    BY <1>4 DEF outline, cmdVars, CommandsSound, RanksAreNatural, CommandSound, TurnsRight, Aims, Free, Size,
                Children, Live, There
  <2>. QED BY <1>1, <2>1, <2>2, <2>3 DEF AloneInv, HttpSound, CommandsSound
<1>. QED BY <1>2, <1>3, <1>4 DEF AloneNext

\* Whatever requests of the HTTP API, one after another, or commands of a terminal, one after another and killed
\* anywhere, write on any finite outline that starts as a tree: no row becomes its own descendant by a request
\* (http.go:400), and no two live children of a node ever have one rank (nodes.go:460, nodes.go:311).
THEOREM OneAtATimeKeepsTheTree == AloneSpec => []TreeIsSound
<1>1. AloneInit => AloneInv
  BY InitAlone
<1>2. AloneInv /\ [AloneNext]_<<writer, outline, vars>> => AloneInv'
  BY NextAlone
<1>3. AloneInv => TreeIsSound
  <2> SUFFICES ASSUME AloneInv PROVE TreeIsSound
    OBVIOUS
  <2>1. HttpTypeOK /\ CmdTypeOK /\ TreeTypeOK
    BY QueueIsTyped DEF AloneInv
  <2>2. NoneIsBelowItself
    BY <2>1, GroundedHasNoCycle DEF AloneInv, NoneIsBelowItself, NoOwnDescendant
  <2>. QED BY <2>1, <2>2 DEF AloneInv, TreeIsSound, RanksAreDistinct
<1>. QED BY <1>1, <1>2, <1>3, PTL DEF AloneSpec

\* A row put at rank k under p, when no other child has that rank and the rows stay: it lands behind the row that has
\* the rank before, or at an end if k is beyond all of them.
LEMMA RowLands ==
    ASSUME TreeTypeOK, NEW x \in Nodes, NEW p, NEW k \in Int, NEW y, NEW q,
           nodes'[x].parent = p, nodes'[x].rank = k, \A m \in Nodes \ {x} : nodes'[m] = nodes[m],
           \/ /\ y \in Nodes /\ y # x /\ k = nodes[y].rank + 1
              /\ \A m \in Children(p) : nodes[m].rank < k \/ k + 1 <= nodes[m].rank
           \/ y = None /\ \A m \in Children(p) : IF q = "top" THEN k < nodes[m].rank ELSE nodes[m].rank < k
    PROVE  Landed(x, p, y, q)'
<1>1. ASSUME NEW m \in Children(p)' \ {x}
      PROVE  m \in Children(p) /\ nodes'[m] = nodes[m] /\ nodes[m].rank \in Int
  BY <1>1 DEF Children, Live, There, TreeTypeOK, Row
<1>2. CASE y = None
  BY <1>1, <1>2, NodeAssumption DEF Landed
<1>3. CASE y # None
  <2>1. nodes'[y] = nodes[y] /\ nodes[y].rank \in Int /\ k = nodes[y].rank + 1
    BY <1>3 DEF TreeTypeOK, Row
  <2>2. ASSUME NEW m \in Children(p)' \ {x}, nodes[y].rank < nodes[m].rank, nodes[m].rank <= k PROVE FALSE
    <3>1. nodes[m].rank < k \/ k + 1 <= nodes[m].rank
      BY <1>1, <1>3
    <3>. QED BY <1>1, <2>1, <2>2, <3>1
  <2>. QED BY <1>1, <1>3, <2>1, <2>2 DEF Landed
<1>. QED BY <1>2, <1>3

\* A request writes the row it places where its rank says.
LEMMA RequestLands ==
    ASSUME AloneInv, [AloneNext]_<<writer, outline, vars>>, NEW h \in Handlers,
           Finishes(h, "update") \/ Finishes(h, "insert"), NEW r, r = req[h], NEW x, x = RowOf(r)
    PROVE  IF Beside(r) THEN r.after # x => Landed(x, r.parent, r.after, "")'
                        ELSE Landed(x, r.parent, None, Resolved(r.parent, r.position))'
<1>1. r # NoReq /\ req'[h] = NoReq /\ r.pc \in {"update", "insert"}
  BY DEF Finishes
<1>2. writer = "http" /\ HttpNext
  BY <1>1 DEF AloneNext, httpVars, outline
<1>3. OutlineInv /\ TreeTypeOK /\ RequestSound(r) /\ r \in Request
  <2>1. OutlineInv /\ TreeTypeOK
    BY QueueIsTyped DEF AloneInv
  <2>. QED BY <1>1, <1>2, <2>1, HandlerHolds DEF AloneInv, NoReq
<1>4. Receive(h) \/ Serve(h)
  BY <1>2, AloneAssumption DEF HttpNext
<1>5. InsertRow(h) \/ UpdateRow(h)
  BY <1>1, <1>4 DEF Receive, Serve, Walk, Place, Rank, Shift, PatchRow, WalkDown, TombstoneRows, SettleRows
<1>6. /\ x \in Nodes /\ nodes'[x].parent = r.parent /\ nodes'[x].rank = r.rank
      /\ \A m \in Nodes \ {x} : nodes'[m] = nodes[m]
  <2>1. CASE InsertRow(h)
    <3>1. /\ r.node = None /\ x = NewUuid /\ NewUuid \in Unused
          /\ nodes' = Inserted(NewUuid, r.parent, r.rank, "bottom", r.text)
      BY <1>3, <2>1 DEF InsertRow, RowOf, NewUuid, RequestSound
    <3>. QED BY <1>3, <3>1, NewRow
  <2>2. CASE UpdateRow(h)
    <3>1. r.node # None /\ There(r.node) /\ x = r.node /\ nodes' = Reparented(r.node, r.parent, r.rank)
      BY <1>3, <2>2 DEF UpdateRow, RowOf, RequestSound, Placing
    <3>. QED BY <1>3, <3>1, MovedRow DEF There
  <2>. QED BY <1>5, <2>1, <2>2
<1>7. /\ Free(r, 1) /\ r.rank \in Int
      /\ IF Beside(r) THEN r.rank = nodes[r.after].rank + 1 ELSE r.position \in {"top", "bottom"} /\ AtAnEnd(r)
  BY <1>1, <1>3, RequestHas DEF RequestSound
<1>8. PICK p, k, y, q : p = r.parent /\ k = r.rank /\ y = r.after /\ q = r.position
  OBVIOUS
<1>9. CASE Beside(r)
  <2>1. y \in Nodes /\ \A m \in Children(p) : nodes[m].rank < k \/ k + 1 <= nodes[m].rank
    BY <1>7, <1>8, <1>9 DEF Beside, There, Free
  <2>2. y # x => Landed(x, p, y, "")'
    BY <1>3, <1>6, <1>7, <1>8, <1>9, <2>1, RowLands
  <2>. QED BY <1>8, <1>9, <2>2
<1>10. CASE ~Beside(r)
  <2>1. Resolved(r.parent, r.position)' = q
    BY <1>7, <1>8, <1>10 DEF Resolved
  <2>2. \A m \in Children(p) : IF q = "top" THEN k < nodes[m].rank ELSE nodes[m].rank < k
    BY <1>7, <1>8, <1>10 DEF AtAnEnd
  <2>3. Landed(x, p, None, q)'
    BY <1>3, <1>6, <1>7, <1>8, <2>2, RowLands
  <2>. QED BY <1>8, <1>10, <2>1, <2>3
<1>. QED BY <1>9, <1>10

\* ... and so does a command.
LEMMA CommandPuts ==
    ASSUME AloneInv, [AloneNext]_<<writer, outline, vars>>, NEW d \in Shells, Puts(d),
           NEW r, r = cmd[d], NEW x, x = RowOf(r)
    PROVE  IF ~r.top /\ r.after # None THEN r.after # x => Landed(x, r.parent, r.after, "")'
           ELSE IF r.top /\ r.rank # 0
           THEN \E n \in Children(r.parent) : nodes[n].rank = r.rank - 1 /\ Landed(x, r.parent, n, "")'
           ELSE Landed(x, r.parent, None, IF r.top THEN "top" ELSE "bottom")'
<1>1. r # NoCmd /\ r.pc \in {"reparent", "insert"} /\ cmd'[d] # cmd[d] /\ nodes' # nodes
  BY DEF Puts
<1>2. writer = "command" /\ CmdNext
  BY <1>1 DEF AloneNext, cmdVars, outline
<1>3. OutlineInv /\ TreeTypeOK /\ RanksAreNatural /\ CommandSound(r) /\ CommandInHand(r) /\ r \in Command
  <2>1. OutlineInv /\ TreeTypeOK
    BY QueueIsTyped DEF AloneInv
  <2>. QED BY <1>1, <1>2, <2>1, ShellHolds DEF AloneInv, NoCmd
<1>4. Shell(d)
  BY <1>2, AloneAssumption DEF CmdNext
<1>5. MvReparent(d) \/ InsertLine(d)
  BY <1>1, <1>4 DEF Shell, NoCmd, MvNode, AddParent, RmNode, Start, MvParent, MvBelow, MvSibling, MvShift, AddPriority, OpenTop,
                    Behind, Rm, Kill, Query
<1>6. /\ x \in Nodes /\ nodes'[x].parent = r.parent /\ nodes'[x].rank = r.rank
      /\ \A m \in Nodes \ {x} : nodes'[m] = nodes[m]
  <2>1. CASE InsertLine(d)
    <3>1. PICK t : t = nodes[r.parent].text
      OBVIOUS
    <3>2. /\ r.node = None /\ x = NewUuid /\ NewUuid \in Unused
          /\ nodes' = Inserted(NewUuid, r.parent, r.rank, "top", t)
      BY <1>3, <2>1, <3>1 DEF InsertLine, RowOf, NewUuid, CommandInHand
    <3>. QED BY <1>3, <3>2, NewRow
  <2>2. CASE MvReparent(d)
    <3>1. r.node \in Nodes /\ x = r.node /\ nodes' = Reparented(r.node, r.parent, r.rank)
      BY <1>3, <2>2, CommandHas DEF MvReparent, RowOf, CommandSound
    <3>2. There(r.node)
      BY <1>1, <1>3, <3>1 DEF Reparented, There, TreeTypeOK
    <3>. QED BY <1>3, <3>1, <3>2, MovedRow
  <2>. QED BY <1>5, <2>1, <2>2
<1>7. Free(r, Size(r)) /\ Aims(r) /\ r.rank \in Nat /\ Size(r) \in Nat /\ Size(r) > 0
  BY <1>1, <1>3, SizeIsPositive DEF CommandSound
<1>8. PICK p, k, y : p = r.parent /\ k = r.rank /\ y = r.after
  BY <1>7
<1>9. ASSUME NEW m \in Children(p) PROVE k \in Nat /\ nodes[m].rank \in Nat /\ (nodes[m].rank < k \/ k + 1 <= nodes[m].rank)
  <2>1. nodes[m].rank \in Nat
    BY <1>3 DEF RanksAreNatural, Children
  <2>2. nodes[m].rank < k \/ k + Size(r) <= nodes[m].rank
    BY <1>7, <1>8 DEF Free
  <2>. QED BY <1>7, <1>8, <2>1, <2>2
<1>. k \in Int /\ \A m \in Children(p) : nodes[m].rank < k \/ k + 1 <= nodes[m].rank
  BY <1>7, <1>8, <1>9
<1>10. CASE ~r.top /\ r.after # None
  <2>1. y \in Nodes /\ k = nodes[y].rank + 1
    <3>1. r.after \in Nodes \cup {None}
      BY <1>3, CommandHas
    <3>. QED BY <1>7, <1>8, <1>10, <3>1 DEF Aims
  <2>2. y # x => Landed(x, p, y, "")'
    BY <1>3, <1>6, <1>8, <2>1, RowLands
  <2>. QED BY <1>8, <1>10, <2>2
<1>11. CASE r.top /\ r.rank # 0
  <2>1. PICK n \in Children(p) : nodes[n].rank = k - 1
    BY <1>7, <1>8, <1>11 DEF Aims
  <2>2. n # x /\ n \in Nodes /\ k = nodes[n].rank + 1
    <3>1. r.node = None /\ InsertLine(d) /\ x = NewUuid /\ NewUuid \in Unused
      BY <1>1, <1>3, <1>5, <1>7, <1>11 DEF Aims, InsertLine, MvReparent, RowOf, NewUuid, CommandSound
    <3>2. n \in Nodes /\ There(n)
      BY DEF Children, Live
    <3>. QED BY <1>9, <2>1, <3>1, <3>2 DEF Unused, There
  <2>3. Landed(x, p, n, "")'
    BY <1>3, <1>6, <1>8, <2>2, RowLands
  <2>. QED BY <1>8, <1>11, <2>1, <2>3
<1>12. CASE r.top /\ r.rank = 0
  <2>1. \A m \in Children(p) : k < nodes[m].rank
    BY <1>8, <1>9, <1>12
  <2>2. Landed(x, p, None, "top")'
    BY <1>3, <1>6, <1>7, <1>8, <2>1, RowLands
  <2>. QED BY <1>8, <1>12, <2>2
<1>13. CASE ~r.top /\ r.after = None
  <2>1. \A m \in Children(p) : nodes[m].rank < k
    BY <1>7, <1>8, <1>13 DEF Aims
  <2>2. Landed(x, p, None, "bottom")'
    BY <1>3, <1>6, <1>7, <1>8, <2>1, RowLands
  <2>. QED BY <1>8, <1>13, <2>2
<1>. QED BY <1>10, <1>11, <1>12, <1>13

\* What a request, one after another, creates or moves lands right behind the sibling that was named, if it is a child of
\* the parent, and else in front of every other child or behind every other (http.go:237); and so do the rows of commands
\* that are run one after another and killed anywhere, on an outline that has no negative rank (mv.go:103, add.go:79).
THEOREM OneAtATimeLandsRight == AloneSpec => PlacesAreKept
<1>1. AloneInit => AloneInv
  BY InitAlone
<1>2. AloneInv /\ [AloneNext]_<<writer, outline, vars>> => AloneInv'
  BY NextAlone
<1>3. AloneInv /\ [AloneNext]_<<writer, outline, vars>>
        => [\A h \in Handlers :
              Finishes(h, "update") \/ Finishes(h, "insert") =>
              \A r \in {req[h]} : \A x \in {RowOf(r)} :
                 IF Beside(r) THEN r.after # x => Landed(x, r.parent, r.after, "")'
                              ELSE Landed(x, r.parent, None, Resolved(r.parent, r.position))']_httpAll
  BY RequestLands
<1>4. AloneInv /\ [AloneNext]_<<writer, outline, vars>>
        => [\A d \in Shells : Puts(d) =>
              \A r \in {cmd[d]} : \A x \in {RowOf(r)} :
                 IF ~r.top /\ r.after # None THEN r.after # x => Landed(x, r.parent, r.after, "")'
                 ELSE IF r.top /\ r.rank # 0
                 THEN \E n \in Children(r.parent) : nodes[n].rank = r.rank - 1 /\ Landed(x, r.parent, n, "")'
                 ELSE Landed(x, r.parent, None, IF r.top THEN "top" ELSE "bottom")']_cmdAll
  BY CommandPuts
<1>5. AloneSpec => LandsBehind
  BY <1>1, <1>2, <1>3, PTL DEF AloneSpec, LandsBehind
<1>6. AloneSpec => CommandLands
  BY <1>1, <1>2, <1>4, PTL DEF AloneSpec, CommandLands
<1>. QED BY <1>5, <1>6 DEF PlacesAreKept
=============================================================================
