--------------------------- MODULE LiveSyncProofs ---------------------------
(***************************************************************************)
(* What an editor shows and what it saves, for any texts and nodes, any    *)
(* lag of the feed and any other clients: unsaved text goes only where a   *)
(* save has written it or an event of others takes its place away, nothing *)
(* but the user's own edits counts as changed, and what an editor at rest  *)
(* shows is what the table says, but for the nodes in hole.                *)
(***************************************************************************)
EXTENDS LiveSync, NumberProofs

Shown == LiveTexts \cup {Absent}
Folded == [mem : [LiveNodes -> Shown], up : [LiveNodes -> Spots], snap : [LiveNodes -> Shown],
           snapUp : [LiveNodes -> Spots], fresh : SUBSET LiveNodes, dels : SUBSET LiveNodes,
           typed : [LiveNodes -> Shown], hole : SUBSET LiveNodes]

DirtyAt(t, n) == t.mem[n] # Absent /\ ChangedIn(t, n)
Same(t, r, n) == /\ r.mem[n] = t.mem[n] /\ r.snap[n] = t.snap[n] /\ r.typed[n] = t.typed[n]
                 /\ n \in r.fresh <=> n \in t.fresh
Gone(r, n)    == r.mem[n] = Absent /\ r.snap[n] = Absent /\ r.typed[n] = Absent /\ n \notin r.fresh

LEMMA TextsAreApart ==
    /\ Absent \notin LiveTexts /\ Dead \notin LiveTexts /\ NoRow \notin LiveTexts
    /\ Theirs \subseteq LiveTexts /\ Mine \subseteq LiveTexts
    /\ {NoRow, Dead, Absent} \cap LiveTexts = {} /\ NoRow # Dead
    /\ First \in LiveTexts /\ Born \subseteq LiveNodes /\ Edited \subseteq LiveNodes
    /\ Home \in Spots /\ LiveNodes \subseteq Spots
BY TextAssumption DEF Spots

LEMMA RowFields ==
    ASSUME NEW row \in NodeRow
    PROVE  /\ row.node \in LiveNodes /\ row.text \in LiveTexts \cup {Dead} /\ row.up \in Spots
           /\ row # Echo /\ row \in Event /\ \A n : Tells(row, n) <=> row.node = n
BY EchoAssumption DEF NodeRow, Event, Tells

LEMMA EventIsARow == ASSUME NEW ev \in Event, ev # Echo PROVE ev \in NodeRow
BY DEF Event

\* The trees as they are, as one value.
LEMMA TreesAreFolded == ASSUME LiveTypeOK PROVE Trees \in Folded
BY DEF LiveTypeOK, Trees, Folded, Shown

LEMMA FoldedFields ==
    ASSUME NEW t \in Folded
    PROVE  /\ t.mem \in [LiveNodes -> Shown] /\ t.up \in [LiveNodes -> Spots] /\ t.snap \in [LiveNodes -> Shown]
           /\ t.snapUp \in [LiveNodes -> Spots] /\ t.fresh \in SUBSET LiveNodes /\ t.dels \in SUBSET LiveNodes
           /\ t.typed \in [LiveNodes -> Shown] /\ t.hole \in SUBSET LiveNodes
           /\ t = [mem |-> t.mem, up |-> t.up, snap |-> t.snap, snapUp |-> t.snapUp, fresh |-> t.fresh,
                   dels |-> t.dels, typed |-> t.typed, hole |-> t.hole]
BY DEF Folded

LEMMA BelowItself ==
    ASSUME NEW f, NEW n \in LiveNodes
    PROVE  n \in Below(f, n) /\ Below(f, n) \in SUBSET LiveNodes
BY DEF Below

-----------------------------------------------------------------------------
(* Folding in one event.                                                    *)

\* What a row makes of the trees t: what holds of every node, and what of its own.
KeptBy(t, r, row) ==
    /\ r \in Folded /\ r.dels = t.dels /\ t.hole \subseteq r.hole
    /\ \A n \in LiveNodes : n # row.node => Same(t, r, n) \/ Gone(r, n)
    /\ \A n \in LiveNodes : r.typed[n] = t.typed[n] \/ r.typed[n] = Absent
    /\ \A n \in LiveNodes : r.typed[n] # t.typed[n] => TakesAway(t, row, n)

LEMMA DropEffect ==
    ASSUME NEW t \in Folded, NEW row \in NodeRow, row.text = Dead \/ ~InView(t, row.up)
    PROVE  KeptBy(t, DropSubtree(t, row.node), row) /\ Gone(DropSubtree(t, row.node), row.node)
<1> DEFINE n == row.node
           S == Below(t.up, n)
           r == DropSubtree(t, n)
<1>1. n \in LiveNodes /\ n \in S /\ S \in SUBSET LiveNodes
  BY RowFields, BelowItself
<1>2. Absent \in Shown /\ Home \in Spots
  BY TextsAreApart DEF Shown
<1>3. /\ t.mem \in [LiveNodes -> Shown] /\ t.up \in [LiveNodes -> Spots] /\ t.snap \in [LiveNodes -> Shown]
      /\ t.snapUp \in [LiveNodes -> Spots] /\ t.fresh \in SUBSET LiveNodes /\ t.dels \in SUBSET LiveNodes
      /\ t.typed \in [LiveNodes -> Shown] /\ t.hole \in SUBSET LiveNodes
  BY FoldedFields
<1> DEFINE m == Cleared(t.mem, S, Absent)
           u == Cleared(t.up, S, Home)
           s == Cleared(t.snap, S, Absent)
           su == Cleared(t.snapUp, S, Home)
           y == Cleared(t.typed, S, Absent)
           h == t.hole \cup (S \ {n})
<1>11. r = [t EXCEPT !.mem = m, !.up = u, !.snap = s, !.snapUp = su, !.fresh = t.fresh \ S, !.typed = y, !.hole = h]
  BY DEF DropSubtree
<1> HIDE DEF S, m, u, s, su, y, h, r
<1>4. /\ r.mem = m /\ r.snap = s /\ r.typed = y /\ r.fresh = t.fresh \ S /\ r.dels = t.dels /\ r.hole = h
  BY <1>11 DEF Folded
<1>5. /\ Cleared(t.mem, S, Absent) \in [LiveNodes -> Shown] /\ Cleared(t.snap, S, Absent) \in [LiveNodes -> Shown]
      /\ Cleared(t.typed, S, Absent) \in [LiveNodes -> Shown]
      /\ \A k \in LiveNodes : /\ Cleared(t.mem, S, Absent)[k] = IF k \in S THEN Absent ELSE t.mem[k]
                              /\ Cleared(t.snap, S, Absent)[k] = IF k \in S THEN Absent ELSE t.snap[k]
                              /\ Cleared(t.typed, S, Absent)[k] = IF k \in S THEN Absent ELSE t.typed[k]
  BY <1>2, <1>3 DEF Cleared
<1>6. Cleared(t.up, S, Home) \in [LiveNodes -> Spots] /\ Cleared(t.snapUp, S, Home) \in [LiveNodes -> Spots]
  BY <1>2, <1>3 DEF Cleared
<1>7. r \in Folded
  <2>1. t.fresh \ S \in SUBSET LiveNodes /\ h \in SUBSET LiveNodes
    BY <1>1, <1>3 DEF h
  <2>2. m \in [LiveNodes -> Shown] /\ u \in [LiveNodes -> Spots] /\ s \in [LiveNodes -> Shown]
        /\ su \in [LiveNodes -> Spots] /\ y \in [LiveNodes -> Shown]
    BY <1>5, <1>6 DEF m, u, s, su, y
  <2>. QED BY <1>11, <2>1, <2>2 DEF Folded
<1> HIDE DEF n
<1> USE DEF m, s, y, h
<1>8. ASSUME NEW k \in LiveNodes
      PROVE  (k \in S => Gone(r, k)) /\ (k \notin S => Same(t, r, k))
  BY <1>4, <1>5, <1>8 DEF Gone, Same
<1>9. \A k \in LiveNodes : r.typed[k] = t.typed[k] \/ r.typed[k] = Absent
  BY <1>8 DEF Same, Gone
<1>10. ASSUME NEW k \in LiveNodes, r.typed[k] # t.typed[k] PROVE TakesAway(t, row, k)
  BY <1>8, <1>10 DEF Same, TakesAway, S, n
<1>. QED BY <1>1, <1>4, <1>7, <1>8, <1>9, <1>10 DEF KeptBy, r, n

LEMMA MissEffect ==
    ASSUME NEW t \in Folded, NEW row \in NodeRow
    PROVE  /\ Miss(t, row) \in Folded /\ Miss(t, row).dels = t.dels /\ t.hole \subseteq Miss(t, row).hole
           /\ Miss(t, row).typed = t.typed
           /\ \A n \in LiveNodes : Same(t, Miss(t, row), n) /\ (Gone(t, n) => Gone(Miss(t, row), n))
<1> DEFINE r == Miss(t, row)
<1> DEFINE h == IF row.up \in LiveNodes THEN t.hole \cup {row.node} ELSE t.hole
<1>0. row.node \in LiveNodes /\ t.hole \in SUBSET LiveNodes
  BY RowFields, FoldedFields
<1>2. h \in SUBSET LiveNodes /\ t.hole \subseteq h
  BY <1>0
<1>4. r = [t EXCEPT !.hole = h]
  BY DEF Miss
<1> HIDE DEF r, h
<1>1. /\ r.mem = t.mem /\ r.snap = t.snap /\ r.fresh = t.fresh /\ r.dels = t.dels /\ r.typed = t.typed /\ r.hole = h
  BY <1>4 DEF Folded
<1>3. r \in Folded /\ t.hole \subseteq r.hole
  BY <1>1, <1>2, <1>4 DEF Folded
<1>. QED BY <1>1, <1>3 DEF Same, Gone, r

\* What the row of a node that is shown leaves of it.
LEMMA AdoptEffect ==
    ASSUME NEW t \in Folded, NEW row \in NodeRow, row.text # Dead, NEW moves \in BOOLEAN
    PROVE  LET r == Adopt(t, row, moves)
               n == row.node
           IN  /\ KeptBy(t, r, row)
               /\ r.mem[n] = IF Shielded(t, n) THEN t.mem[n] ELSE row.text
               /\ r.snap[n] = row.text
               /\ r.typed[n] = IF t.typed[n] = row.text /\ n \notin t.fresh THEN Absent ELSE t.typed[n]
               /\ n \in r.fresh <=> n \in t.fresh
<1> DEFINE n == row.node
           r == Adopt(t, row, moves)
           p == IF moves /\ row.up \notin Below(t.up, n) THEN row.up ELSE t.up[n]
           w == IF Shielded(t, n) THEN t.mem[n] ELSE row.text
           y == IF t.typed[n] = row.text /\ n \notin t.fresh THEN Absent ELSE t.typed[n]
<1>1. n \in LiveNodes /\ row.text \in LiveTexts /\ row.up \in Spots
  BY RowFields
<1>2. /\ t.mem \in [LiveNodes -> Shown] /\ t.up \in [LiveNodes -> Spots] /\ t.snap \in [LiveNodes -> Shown]
      /\ t.snapUp \in [LiveNodes -> Spots] /\ t.fresh \in SUBSET LiveNodes /\ t.dels \in SUBSET LiveNodes
      /\ t.typed \in [LiveNodes -> Shown] /\ t.hole \in SUBSET LiveNodes
  BY FoldedFields
<1> DEFINE m == [t.mem EXCEPT ![n] = w]
           u == [t.up EXCEPT ![n] = p]
           s == [t.snap EXCEPT ![n] = row.text]
           su == [t.snapUp EXCEPT ![n] = row.up]
           ty == [t.typed EXCEPT ![n] = y]
<1>0. r = [t EXCEPT !.mem = m, !.typed = ty, !.up = u, !.snap = s, !.snapUp = su]
  BY DEF Adopt, SnapFromNode
<1>4. w \in Shown /\ y \in Shown /\ p \in Spots /\ row.text \in Shown
  BY <1>1, <1>2 DEF Shown
<1> HIDE DEF n, r, p, w, y
<1>10. /\ m \in [LiveNodes -> Shown] /\ u \in [LiveNodes -> Spots] /\ s \in [LiveNodes -> Shown]
       /\ su \in [LiveNodes -> Spots] /\ ty \in [LiveNodes -> Shown]
  BY <1>1, <1>2, <1>4
<1> HIDE DEF m, u, s, su, ty
<1>3. /\ r.mem = m /\ r.snap = s /\ r.fresh = t.fresh /\ r.dels = t.dels /\ r.typed = ty /\ r.hole = t.hole
  BY <1>0 DEF Folded
<1>5. r \in Folded
  BY <1>0, <1>10 DEF Folded
<1> USE DEF m, s, ty
<1>6. r.mem[n] = w /\ r.snap[n] = row.text /\ r.typed[n] = y /\ r.fresh = t.fresh
  BY <1>1, <1>2, <1>3
<1>7. \A k \in LiveNodes : k # n => Same(t, r, k)
  BY <1>1, <1>2, <1>3 DEF Same
<1>8. \A k \in LiveNodes : r.typed[k] = t.typed[k] \/ (k = n /\ row.text = t.typed[n] /\ r.typed[k] = Absent)
  BY <1>6, <1>7 DEF Same, y
<1>9. \A k \in LiveNodes : r.typed[k] # t.typed[k] => TakesAway(t, row, k)
  BY <1>8 DEF TakesAway, n
<1>. QED BY <1>3, <1>5, <1>6, <1>7, <1>8, <1>9 DEF KeptBy, n, r, w, y

\* ... and the row of a node that is not shown.
LEMMA TakeInEffect ==
    ASSUME NEW t \in Folded, NEW row \in NodeRow, row.text # Dead, t.mem[row.node] = Absent
    PROVE  LET r == TakeIn(t, row)
               n == row.node
           IN  /\ KeptBy(t, r, row)
               /\ \/ r.mem[n] = row.text /\ r.snap[n] = row.text /\ r.typed[n] = t.typed[n]
                     /\ (n \in r.fresh <=> n \in t.fresh)
                  \/ Same(t, r, n)
<1> DEFINE n == row.node
           r == TakeIn(t, row)
<1>1. n \in LiveNodes /\ row.text \in LiveTexts /\ row.up \in Spots
  BY RowFields
<1>2. /\ t.mem \in [LiveNodes -> Shown] /\ t.up \in [LiveNodes -> Spots] /\ t.snap \in [LiveNodes -> Shown]
      /\ t.snapUp \in [LiveNodes -> Spots] /\ t.fresh \in SUBSET LiveNodes /\ t.dels \in SUBSET LiveNodes
      /\ t.typed \in [LiveNodes -> Shown] /\ t.hole \in SUBSET LiveNodes
  BY FoldedFields
<1>3. CASE InView(t, row.up)
  <2> DEFINE m == [t.mem EXCEPT ![n] = row.text]
             u == [t.up EXCEPT ![n] = row.up]
             s == [t.snap EXCEPT ![n] = row.text]
             su == [t.snapUp EXCEPT ![n] = row.up]
  <2>0. r = [t EXCEPT !.mem = m, !.up = u, !.snap = s, !.snapUp = su]
    BY <1>3 DEF TakeIn
  <2>2. row.text \in Shown
    BY <1>1 DEF Shown
  <2> HIDE DEF n, r
  <2>6. /\ m \in [LiveNodes -> Shown] /\ u \in [LiveNodes -> Spots] /\ s \in [LiveNodes -> Shown]
        /\ su \in [LiveNodes -> Spots]
    BY <1>1, <1>2, <2>2
  <2> HIDE DEF m, u, s, su
  <2>1. /\ r.mem = m /\ r.snap = s /\ r.fresh = t.fresh /\ r.dels = t.dels /\ r.typed = t.typed /\ r.hole = t.hole
    BY <2>0 DEF Folded
  <2>3. r \in Folded
    BY <2>0, <2>6 DEF Folded
  <2> USE DEF m, s
  <2>4. \A k \in LiveNodes : k # n => Same(t, r, k)
    BY <1>1, <1>2, <2>1 DEF Same
  <2>5. r.mem[n] = row.text /\ r.snap[n] = row.text /\ r.typed = t.typed /\ r.fresh = t.fresh
    BY <1>1, <1>2, <2>1
  <2>. QED BY <2>1, <2>3, <2>4, <2>5 DEF KeptBy, n, r
<1>4. CASE ~InView(t, row.up)
  <2>1. r = Miss(t, row)
    BY <1>4 DEF TakeIn
  <2> HIDE DEF n, r
  <2>2. /\ r \in Folded /\ r.dels = t.dels /\ t.hole \subseteq r.hole /\ r.typed = t.typed
        /\ \A k \in LiveNodes : Same(t, r, k)
    BY <2>1, MissEffect
  <2>. QED BY <1>1, <2>2 DEF KeptBy, n, r
<1>. QED BY <1>3, <1>4

\* A row of others is folded in: each node keeps its account, none is dirty that was
\* not, and of its own node the editor has then read what it says.
LEMMA RowKeeps ==
    ASSUME NEW t \in Folded, NEW row \in NodeRow, NEW slid \in BOOLEAN
    PROVE  LET r == ApplyRow(t, slid, row)
           IN  /\ KeptBy(t, r, row)
               /\ \A n \in LiveNodes : SoundAt(t, n) =>
                     /\ SoundAt(r, n)
                     /\ DirtyAt(r, n) => DirtyAt(t, n)
                     /\ n \in r.fresh => n \in t.fresh
                     /\ Accounted(t, n) => Accounted(r, n)
                     /\ n # row.node => Same(t, r, n) \/ Gone(r, n)
                     /\ n = row.node /\ Accounted(t, n) => n \in r.dels \/ HasRead(r, n, row.text)
<1> DEFINE r == ApplyRow(t, slid, row)
           o == row.node
           moves == ~LocallyMoved(t, o, slid)
           Own == /\ SoundAt(r, o) /\ (DirtyAt(r, o) => DirtyAt(t, o)) /\ (o \in r.fresh => o \in t.fresh)
                  /\ Accounted(t, o) => Accounted(r, o) /\ (o \in r.dels \/ HasRead(r, o, row.text))
<1>1. o \in LiveNodes /\ row.text \in LiveTexts \cup {Dead} /\ moves \in BOOLEAN
  BY RowFields DEF LocallyMoved
<1>2. KeptBy(t, r, row) /\ (SoundAt(t, o) => Own)
  <2>1. CASE t.mem[o] = Absent /\ row.text = Dead
    <3>1. r = t
      BY <2>1 DEF ApplyRow
    <3>2. KeptBy(t, t, row)
      BY DEF KeptBy, Same
    <3> HIDE DEF r, o
    <3>3. SoundAt(t, o) => Own
      BY <2>1, <3>1, TextsAreApart DEF Own, SoundAt, Accounted, HasRead
    <3>. QED BY <3>1, <3>2, <3>3
  <2>2. CASE t.mem[o] = Absent /\ row.text # Dead
    <3>1. r = TakeIn(t, row)
      BY <2>2 DEF ApplyRow
    <3> HIDE DEF r
    <3>2. /\ KeptBy(t, r, row)
          /\ \/ r.mem[o] = row.text /\ r.snap[o] = row.text /\ r.typed[o] = t.typed[o]
                /\ (o \in r.fresh <=> o \in t.fresh)
             \/ Same(t, r, o)
      BY <2>2, <3>1, TakeInEffect
    <3>3. r.dels = t.dels
      BY <3>2 DEF KeptBy
    <3> HIDE DEF o
    <3>4. SoundAt(t, o) => Own
      BY <1>1, <2>2, <3>2, <3>3, TextsAreApart DEF Own, Same, SoundAt, DirtyAt, ChangedIn, Accounted, HasRead
    <3>. QED BY <3>2, <3>4
  <2>3. ASSUME Gone(r, o) PROVE SoundAt(t, o) => Own
    <3> HIDE DEF r, o
    <3>. QED BY <2>3, TextsAreApart DEF Own, Gone, SoundAt, DirtyAt, ChangedIn, Accounted, HasRead
  <2>4. CASE t.mem[o] # Absent /\ row.text = Dead
    <3>1. r = DropSubtree(t, o)
      BY <2>4 DEF ApplyRow
    <3>2. KeptBy(t, DropSubtree(t, o), row) /\ Gone(DropSubtree(t, o), o)
      BY <2>4, DropEffect
    <3>. QED BY <2>3, <3>1, <3>2
  <2>5. CASE t.mem[o] # Absent /\ row.text # Dead /\ moves /\ ~InView(t, row.up)
    <3>1. r = Miss(DropSubtree(t, o), row)
      BY <2>5 DEF ApplyRow
    <3> DEFINE d == DropSubtree(t, o)
    <3>2. KeptBy(t, d, row) /\ Gone(d, o)
      BY <2>5, DropEffect
    <3> HIDE DEF d
    <3>3. d \in Folded
      BY <3>2 DEF KeptBy
    <3>4. r = Miss(d, row)
      BY <3>1 DEF d
    <3> HIDE DEF r
    <3>5. /\ r \in Folded /\ r.dels = d.dels /\ d.hole \subseteq r.hole /\ r.typed = d.typed
          /\ \A n \in LiveNodes : Same(d, r, n) /\ (Gone(d, n) => Gone(r, n))
      BY <3>3, <3>4, MissEffect
    <3>6. KeptBy(t, r, row)
      BY <3>2, <3>5 DEF KeptBy, Same
    <3>7. Gone(r, o)
      BY <1>1, <3>2, <3>5
    <3>. QED BY <2>3, <3>6, <3>7
  <2>6. CASE t.mem[o] # Absent /\ row.text # Dead /\ ~(moves /\ ~InView(t, row.up))
    <3>1. r = Adopt(t, row, moves)
      BY <2>6 DEF ApplyRow
    <3> HIDE DEF r, moves
    <3>2. /\ KeptBy(t, r, row)
          /\ r.mem[o] = IF Shielded(t, o) THEN t.mem[o] ELSE row.text
          /\ r.snap[o] = row.text
          /\ r.typed[o] = IF t.typed[o] = row.text /\ o \notin t.fresh THEN Absent ELSE t.typed[o]
          /\ o \in r.fresh <=> o \in t.fresh
      BY <1>1, <2>6, <3>1, AdoptEffect
    <3> HIDE DEF o
    <3>3. SoundAt(t, o) => Own
      BY <1>1, <2>6, <3>2, TextsAreApart DEF Own, Shielded, SoundAt, DirtyAt, ChangedIn, Accounted, HasRead
    <3>. QED BY <3>2, <3>3
  <2>. QED BY <2>1, <2>2, <2>4, <2>5, <2>6
<1>3. ASSUME NEW n \in LiveNodes, n # o, SoundAt(t, n)
      PROVE  /\ SoundAt(r, n) /\ (DirtyAt(r, n) => DirtyAt(t, n)) /\ (n \in r.fresh => n \in t.fresh)
             /\ Accounted(t, n) => Accounted(r, n)
             /\ Same(t, r, n) \/ Gone(r, n)
  <2>1. (Same(t, r, n) \/ Gone(r, n)) /\ r.dels = t.dels
    BY <1>2, <1>3 DEF KeptBy
  <2> HIDE DEF r
  <2>. QED BY <1>3, <2>1 DEF Same, Gone, SoundAt, DirtyAt, ChangedIn, Accounted
<1>. QED BY <1>1, <1>2, <1>3 DEF r, o, Own

-----------------------------------------------------------------------------
(* Folding in a queue of them.                                              *)

AreRows(q) == \A i \in 1..Len(q) : q[i] \in NodeRow

IsUpto(t, q, slid, m, f) == f = [k \in 0..m |-> IF k = 0 THEN t ELSE ApplyRow(f[k - 1], slid[k], q[k])]

LEMMA UptoExists ==
    ASSUME NEW t, NEW q, NEW slid
    PROVE  \A m \in Nat : \E f : IsUpto(t, q, slid, m, f)
<1> DEFINE T == {m \in Nat : \E f : IsUpto(t, q, slid, m, f)}
<1>1. 0 \in T
  <2> DEFINE f == [k \in 0..0 |-> t]
  <2>1. f = [k \in 0..0 |-> IF k = 0 THEN t ELSE ApplyRow(f[k - 1], slid[k], q[k])]
    OBVIOUS
  <2>2. IsUpto(t, q, slid, 0, f)
    BY <2>1 DEF IsUpto
  <2>. QED BY <2>2
<1>2. ASSUME NEW m \in T PROVE m + 1 \in T
  <2>1. PICK f : IsUpto(t, q, slid, m, f)
    OBVIOUS
  <2> DEFINE g == [k \in 0..m + 1 |-> IF k = m + 1 THEN ApplyRow(f[m], slid[m + 1], q[m + 1]) ELSE f[k]]
  <2>2. m \in Nat
    OBVIOUS
  <2>3. \A k \in 0..m : g[k] = f[k]
    BY <2>2
  <2>4. \A k \in 0..m : f[k] = IF k = 0 THEN t ELSE ApplyRow(f[k - 1], slid[k], q[k])
    BY <2>1, Zenon DEF IsUpto
  <2>5. ASSUME NEW k \in 0..m + 1 PROVE g[k] = IF k = 0 THEN t ELSE ApplyRow(g[k - 1], slid[k], q[k])
    <3>1. CASE k = m + 1
      <4>1. k - 1 = m /\ k # 0 /\ m \in 0..m
        BY <2>2, <3>1
      <4>2. g[k] = ApplyRow(f[m], slid[k], q[k]) /\ g[k - 1] = f[m]
        BY <2>3, <3>1, <4>1
      <4>. QED BY <4>1, <4>2
    <3>2. CASE k # m + 1
      <4>1. k \in 0..m /\ (k # 0 => k - 1 \in 0..m)
        BY <2>2, <3>2
      <4> HIDE DEF g
      <4>. QED BY <2>3, <2>4, <4>1
    <3>. QED BY <3>1, <3>2
  <2>6. IsUpto(t, q, slid, m + 1, g)
    <3>1. g = [k \in 0..m + 1 |-> g[k]]
      OBVIOUS
    <3> HIDE DEF g
    <3>. QED BY <2>5, <3>1, Zenon DEF IsUpto
  <2>. QED BY <2>2, <2>6
<1>3. T \subseteq Nat
  OBVIOUS
<1>4. T = Nat
  <2> HIDE DEF T
  <2>. QED BY <1>1, <1>2, <1>3, Induction
<1>. QED BY <1>4

LEMMA UptoIsAFold ==
    ASSUME NEW t, NEW q \in Seq(Event), NEW slid
    PROVE  /\ Upto(t, q, slid, 0) = t
           /\ \A k \in 0..Len(q) : k # 0 =>
                 Upto(t, q, slid, k) = ApplyRow(Upto(t, q, slid, k - 1), slid[k], q[k])
<1> DEFINE f == CHOOSE g : IsUpto(t, q, slid, Len(q), g)
<1>1. Len(q) \in Nat
  OBVIOUS
<1>2. IsUpto(t, q, slid, Len(q), f)
  BY <1>1, UptoExists
<1>3. \A k : Upto(t, q, slid, k) = f[k]
  BY DEF Upto, IsUpto
<1> HIDE DEF f
<1>4. \A k \in 0..Len(q) : f[k] = IF k = 0 THEN t ELSE ApplyRow(f[k - 1], slid[k], q[k])
  BY <1>2, Zenon DEF IsUpto
<1>5. 0 \in 0..Len(q)
  BY <1>1
<1>. QED BY <1>3, <1>4, <1>5

\* What the first k events of a queue have made of the trees t.
FoldedSo(t, u, q, k) ==
    /\ u \in Folded /\ u.dels = t.dels /\ t.hole \subseteq u.hole
    /\ \A n \in LiveNodes :
         /\ SoundAt(u, n)
         /\ DirtyAt(u, n) => DirtyAt(t, n)
         /\ n \in u.fresh => n \in t.fresh
         /\ Accounted(t, n) => Accounted(u, n)
         /\ (\A i \in 1..k : ~Tells(q[i], n)) => Same(t, u, n) \/ Gone(u, n)
         /\ \A i \in 1..k : Tells(q[i], n) /\ (\A j \in i + 1..k : ~Tells(q[j], n)) /\ Accounted(t, n)
               => n \in u.dels \/ HasRead(u, n, q[i].text)

LEMMA OneMoreEvent ==
    ASSUME NEW t, NEW u, NEW q, NEW k \in Nat, FoldedSo(t, u, q, k), q[k + 1] \in NodeRow, NEW slid \in BOOLEAN
    PROVE  FoldedSo(t, ApplyRow(u, slid, q[k + 1]), q, k + 1)
<1> DEFINE row == q[k + 1]
           r == ApplyRow(u, slid, row)
<1>1. u \in Folded /\ \A n \in LiveNodes : SoundAt(u, n)
  BY DEF FoldedSo
<1>2. KeptBy(u, r, row)
  BY <1>1, RowKeeps
<1>3. ASSUME NEW n \in LiveNodes
      PROVE  /\ SoundAt(r, n) /\ (DirtyAt(r, n) => DirtyAt(u, n)) /\ (n \in r.fresh => n \in u.fresh)
             /\ Accounted(u, n) => Accounted(r, n)
             /\ ~Tells(row, n) => Same(u, r, n) \/ Gone(r, n)
             /\ Tells(row, n) /\ Accounted(u, n) => n \in r.dels \/ HasRead(r, n, row.text)
  BY <1>1, RowKeeps, RowFields
<1> HIDE DEF r
<1>4. ASSUME NEW n \in LiveNodes, \A i \in 1..k + 1 : ~Tells(q[i], n) PROVE Same(t, r, n) \/ Gone(r, n)
  <2>1. k + 1 \in 1..k + 1 /\ \A i \in 1..k : i \in 1..k + 1
    OBVIOUS
  <2>2. (Same(u, r, n) \/ Gone(r, n)) /\ (Same(t, u, n) \/ Gone(u, n))
    BY <1>3, <1>4, <2>1 DEF FoldedSo
  <2>. QED BY <2>2 DEF Same, Gone
<1>5. ASSUME NEW n \in LiveNodes, NEW i \in 1..k + 1, Tells(q[i], n), Accounted(t, n),
             \A j \in i + 1..k + 1 : ~Tells(q[j], n)
      PROVE  n \in r.dels \/ HasRead(r, n, q[i].text)
  <2>0. Accounted(u, n)
    BY <1>5 DEF FoldedSo
  <2>1. CASE i = k + 1
    BY <1>3, <1>5, <2>0, <2>1
  <2>2. CASE i # k + 1
    <3>1. i \in 1..k /\ k + 1 \in i + 1..k + 1 /\ \A j \in i + 1..k : j \in i + 1..k + 1
      BY <2>2
    <3>2. (n \in u.dels \/ HasRead(u, n, q[i].text)) /\ (Same(u, r, n) \/ Gone(r, n)) /\ r.dels = u.dels
      BY <1>2, <1>3, <1>5, <3>1 DEF FoldedSo, KeptBy
    <3>. QED BY <3>2, TextsAreApart DEF Same, Gone, HasRead
  <2>. QED BY <2>1, <2>2
<1>6. \A n \in LiveNodes : /\ SoundAt(r, n) /\ (DirtyAt(r, n) => DirtyAt(t, n)) /\ (n \in r.fresh => n \in t.fresh)
                           /\ Accounted(t, n) => Accounted(r, n)
  BY <1>3 DEF FoldedSo
<1>7. r \in Folded /\ r.dels = t.dels /\ t.hole \subseteq r.hole
  BY <1>2 DEF FoldedSo, KeptBy
<1>8. FoldedSo(t, r, q, k + 1)
  BY <1>4, <1>5, <1>6, <1>7 DEF FoldedSo
<1>. QED BY <1>8 DEF r

LEMMA QueueEffect ==
    ASSUME NEW t \in Folded, \A n \in LiveNodes : SoundAt(t, n),
           NEW q \in Seq(Event), AreRows(q), NEW slid \in Slides(q)
    PROVE  /\ FoldedSo(t, ApplyAll(t, q, slid), q, Len(q))
           /\ \A n \in LiveNodes : ApplyAll(t, q, slid).typed[n] # t.typed[n] =>
                 \E k \in 1..Len(q) : TakesAway(Upto(t, q, slid, k - 1), q[k], n)
<1> DEFINE f(k) == Upto(t, q, slid, k)
           Taken(k) == \A n \in LiveNodes : f(k).typed[n] # t.typed[n] =>
                          \E i \in 1..Len(q) : TakesAway(f(i - 1), q[i], n)
           T == {k \in Nat : k <= Len(q) => FoldedSo(t, f(k), q, k) /\ Taken(k)}
<1>1. f(0) = t /\ \A k \in 0..Len(q) : k # 0 => f(k) = ApplyRow(f(k - 1), slid[k], q[k])
  BY UptoIsAFold
<1>2. ApplyAll(t, q, slid) = f(Len(q))
  BY DEF ApplyAll
<1> HIDE DEF f
<1>3. 0 \in T
  <2>1. FoldedSo(t, t, q, 0)
    BY DEF FoldedSo, Same
  <2>. QED BY <1>1, <2>1
<1>4. ASSUME NEW k \in T PROVE k + 1 \in T
  <2>1. k \in Nat /\ Len(q) \in Nat
    OBVIOUS
  <2>2. ASSUME k + 1 <= Len(q) PROVE FoldedSo(t, f(k + 1), q, k + 1) /\ Taken(k + 1)
    <3>1. k <= Len(q) /\ k + 1 \in 0..Len(q) /\ k + 1 # 0 /\ (k + 1) - 1 = k /\ k + 1 \in 1..Len(q)
      BY <2>1, <2>2
    <3>2. f(k + 1) = ApplyRow(f((k + 1) - 1), slid[k + 1], q[k + 1])
      BY <1>1, <3>1
    <3>3. f(k + 1) = ApplyRow(f(k), slid[k + 1], q[k + 1])
      BY <3>1, <3>2
    <3>4. FoldedSo(t, f(k), q, k) /\ Taken(k) /\ q[k + 1] \in NodeRow /\ slid[k + 1] \in BOOLEAN
      BY <3>1 DEF AreRows, Slides
    <3>5. FoldedSo(t, f(k + 1), q, k + 1)
      BY <2>1, <3>3, <3>4, OneMoreEvent
    <3>6. KeptBy(f(k), f(k + 1), q[k + 1])
      BY <3>3, <3>4, RowKeeps DEF FoldedSo
    <3>7. ASSUME NEW n \in LiveNodes, f(k + 1).typed[n] # t.typed[n]
          PROVE  \E i \in 1..Len(q) : TakesAway(f(i - 1), q[i], n)
      <4>1. CASE f(k).typed[n] # t.typed[n]
        BY <3>4, <4>1
      <4>2. CASE f(k).typed[n] = t.typed[n]
        <5>1. TakesAway(f(k), q[k + 1], n)
          BY <3>6, <3>7, <4>2 DEF KeptBy
        <5>2. TakesAway(f((k + 1) - 1), q[k + 1], n)
          BY <3>1, <5>1
        <5>. QED BY <3>1, <5>2
      <4>. QED BY <4>1, <4>2
    <3>. QED BY <3>5, <3>7
  <2>. QED BY <2>1, <2>2
<1>5. T \subseteq Nat
  OBVIOUS
<1>6. T = Nat
  <2> HIDE DEF T
  <2>. QED BY <1>3, <1>4, <1>5, Induction
<1>7. Len(q) \in Nat
  OBVIOUS
<1>8. FoldedSo(t, f(Len(q)), q, Len(q)) /\ Taken(Len(q))
  BY <1>6, <1>7
<1>. QED BY <1>2, <1>8 DEF f

-----------------------------------------------------------------------------
(* What a queue of events says of a node.                                   *)

LEMMA ForeignTells ==
    ASSUME NEW q, NEW n \in LiveNodes
    PROVE  n \in Foreign(q) <=> \E i \in DOMAIN q : Tells(q[i], n)
BY DEF Foreign

LEMMA NothingSaid ==
    ASSUME NEW q, NEW n \in LiveNodes, n \notin Foreign(q)
    PROVE  \A v : LastSays(q, n, v)
BY ForeignTells DEF LastSays

LEMMA EmptySays == ASSUME NEW n \in LiveNodes PROVE n \notin Foreign(<<>>) /\ \A v : LastSays(<<>>, n, v)
BY ForeignTells DEF LastSays

\* The last event of a queue that is about a node.
LEMMA LastTells ==
    ASSUME NEW q \in Seq(Event), NEW n \in LiveNodes, n \in Foreign(q)
    PROVE  \E i \in 1..Len(q) : Tells(q[i], n) /\ \A j \in 1..Len(q) : j > i => ~Tells(q[j], n)
<1> DEFINE T == {i \in 1..Len(q) : Tells(q[i], n)}
<1>1. PICK i \in DOMAIN q : Tells(q[i], n)
  BY ForeignTells
<1>2. T # {} /\ T \subseteq 1..Len(q) /\ Len(q) \in Nat
  BY <1>1
<1>3. PICK m \in T : \A j \in T : j <= m
  <2>1. T \subseteq Int /\ IsFiniteSet(T)
    <3>1. IsFiniteSet(1..Len(q))
      BY <1>2, FS_Interval
    <3> HIDE DEF T
    <3>2. IsFiniteSet(T)
      BY ONLY <1>2, <3>1, FS_Subset
    <3>. QED BY <1>2, <3>2
  <2> HIDE DEF T
  <2>. QED BY <1>2, <2>1, FirstAndLast
<1>4. ASSUME NEW j \in 1..Len(q), j > m PROVE ~Tells(q[j], n)
  BY <1>2, <1>3, <1>4
<1>. QED BY <1>3, <1>4

LEMMA TailSays ==
    ASSUME NEW q \in Seq(Event), q # <<>>, NEW n \in LiveNodes
    PROVE  /\ Tail(q) \in Seq(Event) /\ Len(Tail(q)) = Len(q) - 1
           /\ n \in Foreign(q) <=> Tells(Head(q), n) \/ n \in Foreign(Tail(q))
           /\ \A v : LastSays(q, n, v) => LastSays(Tail(q), n, v)
           /\ \A v : LastSays(q, n, v) /\ Tells(Head(q), n) /\ n \notin Foreign(Tail(q)) => Head(q).text = v
<1> DEFINE p == Tail(q)
           m == Len(q)
<1>1. /\ p \in Seq(Event) /\ Len(p) = m - 1 /\ m \in Nat /\ m > 0
      /\ DOMAIN p = 1..m - 1 /\ DOMAIN q = 1..m
      /\ \A i \in 1..m - 1 : p[i] = q[i + 1]
      /\ Head(q) = q[1]
  OBVIOUS
<1> HIDE DEF p, m
<1>2. \A i \in 1..m : i = 1 \/ (i - 1 \in 1..m - 1 /\ q[i] = p[i - 1])
  <2>1. ASSUME NEW i \in 1..m, i # 1 PROVE i - 1 \in 1..m - 1 /\ i = (i - 1) + 1
    BY <1>1, <2>1
  <2>. QED BY <1>1, <2>1
<1>3. \A i \in 1..m - 1 : i + 1 \in 1..m
  BY <1>1
<1>4. n \in Foreign(q) <=> Tells(Head(q), n) \/ n \in Foreign(p)
  <2>1. ASSUME NEW i \in DOMAIN q, Tells(q[i], n) PROVE Tells(Head(q), n) \/ n \in Foreign(p)
    BY <1>1, <1>2, <2>1, ForeignTells
  <2>2. ASSUME Tells(Head(q), n) PROVE n \in Foreign(q)
    <3>1. 1 \in DOMAIN q
      BY <1>1
    <3>. QED BY <1>1, <2>2, <3>1, ForeignTells
  <2>3. ASSUME NEW i \in DOMAIN p, Tells(p[i], n) PROVE n \in Foreign(q)
    BY <1>1, <1>3, <2>3, ForeignTells
  <2>. QED BY <2>1, <2>2, <2>3, ForeignTells
<1>5. ASSUME NEW v, LastSays(q, n, v) PROVE LastSays(p, n, v)
  <2>1. SUFFICES ASSUME NEW i \in DOMAIN p, Tells(p[i], n), \A j \in DOMAIN p : j > i => ~Tells(p[j], n)
                 PROVE  p[i].text = v
    BY DEF LastSays
  <2>2. i + 1 \in DOMAIN q /\ q[i + 1] = p[i]
    BY <1>1, <1>3
  <2>3. ASSUME NEW j \in DOMAIN q, j > i + 1 PROVE ~Tells(q[j], n)
    <3>1. j - 1 \in DOMAIN p /\ j - 1 > i /\ q[j] = p[j - 1]
      BY <1>1, <1>2, <2>3
    <3>. QED BY <2>1, <3>1
  <2>. QED BY <1>5, <2>1, <2>2, <2>3 DEF LastSays
<1>6. ASSUME NEW v, LastSays(q, n, v), Tells(Head(q), n), n \notin Foreign(p) PROVE Head(q).text = v
  <2>1. 1 \in DOMAIN q
    BY <1>1
  <2>2. ASSUME NEW j \in DOMAIN q, j > 1 PROVE ~Tells(q[j], n)
    BY <1>1, <1>2, <1>6, <2>2, ForeignTells
  <2>. QED BY <1>1, <1>6, <2>1, <2>2 DEF LastSays
<1>. QED BY <1>1, <1>4, <1>5, <1>6 DEF p, m

LEMMA AppendSays ==
    ASSUME NEW q \in Seq(Event), NEW ev \in Event, NEW n \in LiveNodes
    PROVE  /\ Append(q, ev) \in Seq(Event) /\ Len(Append(q, ev)) = Len(q) + 1
           /\ n \in Foreign(Append(q, ev)) <=> Tells(ev, n) \/ n \in Foreign(q)
           /\ Tells(ev, n) => LastSays(Append(q, ev), n, ev.text)
           /\ ~Tells(ev, n) => \A v : LastSays(q, n, v) => LastSays(Append(q, ev), n, v)
<1> DEFINE p == Append(q, ev)
           m == Len(q)
<1>1. /\ p \in Seq(Event) /\ Len(p) = m + 1 /\ m \in Nat
      /\ DOMAIN p = 1..m + 1 /\ DOMAIN q = 1..m
      /\ \A i \in 1..m : p[i] = q[i]
      /\ p[m + 1] = ev
  OBVIOUS
<1> HIDE DEF p, m
<1>2. \A i \in 1..m + 1 : i = m + 1 \/ i \in 1..m
  BY <1>1
<1>3. m + 1 \in 1..m + 1 /\ \A i \in 1..m : i \in 1..m + 1 /\ m + 1 > i
  BY <1>1
<1>4. n \in Foreign(p) <=> Tells(ev, n) \/ n \in Foreign(q)
  BY <1>1, <1>2, <1>3, ForeignTells
<1>5. ASSUME Tells(ev, n) PROVE LastSays(p, n, ev.text)
  BY <1>1, <1>2, <1>3, <1>5 DEF LastSays
<1>6. ASSUME ~Tells(ev, n), NEW v, LastSays(q, n, v) PROVE LastSays(p, n, v)
  BY <1>1, <1>2, <1>3, <1>6 DEF LastSays
<1>. QED BY <1>1, <1>4, <1>5, <1>6 DEF p, m

-----------------------------------------------------------------------------
(* The invariant, and what the steps of the feed leave of it.               *)

\* What holds of a node.
NodeInv(n) == SoundAt(Trees, n) /\ NeverUsed(n) /\ (n \in hole \/ ReadAt(n))

LEMMA SameTrees ==
    ASSUME UNCHANGED <<mem, up, snap, snapUp, fresh, typed>>
    PROVE  /\ Dirty' = Dirty
           /\ \A n : SoundAt(Trees, n) => SoundAt(Trees, n)'
           /\ \A n, v : HasRead(Trees, n, v) => HasRead(Trees', n, v)
           /\ \A n : UNCHANGED dels /\ Accounted(Trees, n) => Accounted(Trees, n)'
BY DEF SoundAt, Trees, ChangedIn, Dirty, Changed, HasRead, Accounted

LEMMA StaysUnused ==
    ASSUME NEW n, NeverUsed(n), UNCHANGED <<db, snap>>,
           n \in Foreign(wire') => n \in Foreign(wire), n \in Foreign(pendingEvs') => n \in Foreign(pendingEvs)
    PROVE  NeverUsed(n)'
BY DEF NeverUsed

\* A commit is sent to the subscriber, or cuts it, or finds none.
LEMMA PublishEffect ==
    ASSUME LiveTypeOK, NEW ev \in Event, Publish(ev)
    PROVE  /\ link' \in {"off", "asked", "on", "cut"} /\ wire' \in Seq(Event) /\ Len(wire') <= Cap
           /\ \/ link = "on" /\ link' = "on" /\ wire' = Append(wire, ev)
              \/ link # "on" /\ link' = link /\ wire' = wire
              \/ link = "on" /\ link' = "cut" /\ wire' = wire
<1>1. wire \in Seq(Event) /\ Len(wire) \in Nat /\ Cap \in Nat /\ Len(wire) <= Cap
  BY BoundAssumption DEF LiveTypeOK
<1>2. Append(wire, ev) \in Seq(Event) /\ Len(Append(wire, ev)) = Len(wire) + 1
  BY <1>1
<1>3. CASE link = "on" /\ Len(wire) < Cap
  <2>1. wire' = Append(wire, ev) /\ link' = link
    BY <1>3 DEF Publish
  <2>2. Len(wire) + 1 <= Cap
    BY <1>1, <1>3
  <2>. QED BY <1>2, <1>3, <2>1, <2>2
<1>4. CASE ~(link = "on" /\ Len(wire) < Cap)
  <2>1. wire' = wire /\ link' = IF link = "on" THEN "cut" ELSE link
    BY <1>4 DEF Publish
  <2>. QED BY <1>1, <2>1 DEF LiveTypeOK
<1>. QED BY <1>3, <1>4

\* The row that a commit of others writes, and what they say of it.
LEMMA CommitEffect ==
    ASSUME LiveInv, NEW n \in LiveNodes, NEW v \in LiveTexts \cup {Dead}, NEW p \in Spots, OthersCommit(n, v, p)
    PROVE  LET ev == [node |-> n, text |-> v, up |-> p]
           IN  /\ ev \in Event /\ ev.text = v /\ \A m : Tells(ev, m) <=> m = n
               /\ link' \in {"off", "asked", "on", "cut"} /\ wire' \in Seq(Event) /\ Len(wire') <= Cap
               /\ \/ link = "on" /\ link' = "on" /\ wire' = Append(wire, ev)
                  \/ link # "on" /\ link' = link /\ wire' = wire
                  \/ link = "on" /\ link' = "cut" /\ wire' = wire
               /\ \A k \in LiveNodes : db'[k] = IF k = n THEN v ELSE db[k]
               /\ hole \subseteq hole' /\ hole' \subseteq LiveNodes /\ (Unheard => n \in hole')
               /\ db[n] = NoRow => n \notin fresh
               /\ UNCHANGED <<pc, waiter, mem, up, snap, snapUp, fresh, typed, dels, held, pendingEvs, needResync,
                              unsaved, syncPending, syncErr>>
<1> DEFINE ev == [node |-> n, text |-> v, up |-> p]
<1>1. ev \in NodeRow
  BY DEF NodeRow
<1>2. ev \in Event /\ ev # Echo /\ ev.node = n /\ ev.text = v
  BY <1>1, RowFields
<1>3. LiveTypeOK
  BY DEF LiveInv
<1>4. Publish(ev)
  BY DEF OthersCommit
<1> HIDE DEF ev
<1>5. /\ link' \in {"off", "asked", "on", "cut"} /\ wire' \in Seq(Event) /\ Len(wire') <= Cap
      /\ \/ link = "on" /\ link' = "on" /\ wire' = Append(wire, ev)
         \/ link # "on" /\ link' = link /\ wire' = wire
         \/ link = "on" /\ link' = "cut" /\ wire' = wire
  BY <1>2, <1>3, <1>4, PublishEffect
<1>6. \A m : Tells(ev, m) <=> m = n
  BY <1>2 DEF Tells
<1>7. \A k \in LiveNodes : db'[k] = IF k = n THEN v ELSE db[k]
  BY <1>3 DEF OthersCommit, LiveTypeOK
<1>8. hole' = hole \cup Unsaid(n)
  BY DEF OthersCommit
<1>9. hole \subseteq hole' /\ hole' \subseteq LiveNodes /\ (Unheard => n \in hole')
  BY <1>3, <1>8 DEF Unsaid, Below, LiveTypeOK
<1>10. UNCHANGED <<pc, waiter, mem, up, snap, snapUp, fresh, typed, dels, held, pendingEvs, needResync,
                   unsaved, syncPending, syncErr>> /\ (db[n] = NoRow => n \notin fresh)
  BY DEF OthersCommit, tree, queue, flags
<1>. QED BY <1>2, <1>5, <1>6, <1>7, <1>9, <1>10 DEF ev

LEMMA CommitKeepsRead ==
    ASSUME LiveInv, NEW n \in LiveNodes, NEW v \in LiveTexts \cup {Dead}, NEW p \in Spots, OthersCommit(n, v, p),
           NEW m \in LiveNodes
    PROVE  NodeInv(m)'
<1> DEFINE ev == [node |-> n, text |-> v, up |-> p]
<1>1. wire \in Seq(Event) /\ LiveTypeOK /\ NodeInv(m)
  BY DEF LiveInv, LiveTypeOK, NodeInv
<1>2. /\ ev \in Event /\ ev.text = v /\ \A k : Tells(ev, k) <=> k = n
      /\ \/ link = "on" /\ link' = "on" /\ wire' = Append(wire, ev)
         \/ link # "on" /\ link' = link /\ wire' = wire
         \/ link = "on" /\ link' = "cut" /\ wire' = wire
      /\ \A k \in LiveNodes : db'[k] = IF k = n THEN v ELSE db[k]
      /\ hole \subseteq hole' /\ (Unheard => n \in hole')
      /\ db[n] = NoRow => n \notin fresh
      /\ UNCHANGED <<pc, mem, up, snap, snapUp, fresh, typed, dels, held, pendingEvs, needResync>>
  BY CommitEffect
<1>3. /\ m \in Foreign(Append(wire, ev)) <=> m = n \/ m \in Foreign(wire)
      /\ m = n => LastSays(Append(wire, ev), m, v)
      /\ m # n => \A w : LastSays(wire, m, w) => LastSays(Append(wire, ev), m, w)
  <2> HIDE DEF ev
  <2>. QED BY <1>1, <1>2, AppendSays
<1> HIDE DEF ev
<1>4. SoundAt(Trees, m)'
  BY <1>1, <1>2, SameTrees DEF NodeInv
<1>5. CASE m # n
  <2>1. db'[m] = db[m] /\ (m \in Foreign(wire') <=> m \in Foreign(wire))
    BY <1>2, <1>3, <1>5
  <2>2. NeverUsed(m)'
    BY <1>1, <1>2, <2>1 DEF NodeInv, NeverUsed
  <2>3. ASSUME ReadAt(m) PROVE ReadAt(m)'
    <3>1. link' = "on" => LastSays(wire', m, db[m])
      BY <1>2, <1>3, <1>5, <2>3 DEF ReadAt
    <3>2. Hears' => Hears
      BY <1>2 DEF Hears
    <3>3. (HasRead(Trees, m, db[m]) => HasRead(Trees, m, db[m])') /\ (Accounted(Trees, m) => Accounted(Trees, m)')
      BY <1>2, <2>1, SameTrees
    <3>. QED BY <1>2, <2>1, <2>3, <3>1, <3>2, <3>3 DEF ReadAt
  <2>. QED BY <1>1, <1>2, <1>4, <2>2, <2>3 DEF NodeInv
<1>6. CASE m = n
  <2>1. db'[m] = v /\ v # NoRow
    BY <1>2, <1>6, TextsAreApart
  <2>2. NeverUsed(m)'
    BY <2>1 DEF NeverUsed
  <2>3. ASSUME m \notin hole' PROVE ReadAt(m)'
    <3>1. m \notin hole /\ ~Unheard
      BY <1>2, <1>6, <2>3
    <3>2. ReadAt(m)
      BY <1>1, <3>1 DEF NodeInv
    <3>3. m \notin fresh
      BY <1>2, <1>6, <3>2 DEF ReadAt
    <3>4. link' = "on" => LastSays(wire', m, v) /\ m \in Foreign(wire')
      BY <1>2, <1>3, <1>6
    <3>5. Hears' => link' = "on"
      BY <1>2, <3>1 DEF Hears, Unheard
    <3>6. pc' # "start"
      BY <1>2, <3>1 DEF Unheard
    <3>7. Accounted(Trees, m)'
      BY <1>2, <3>2, SameTrees DEF ReadAt
    <3>. QED BY <1>2, <2>1, <3>3, <3>4, <3>5, <3>6, <3>7 DEF ReadAt
  <2>. QED BY <1>4, <2>2, <2>3 DEF NodeInv
<1>. QED BY <1>5, <1>6

\* A commit of another client.
LEMMA CommitKeeps ==
    ASSUME LiveInv, NEW n \in LiveNodes, NEW v \in LiveTexts \cup {Dead}, NEW p \in Spots, OthersCommit(n, v, p)
    PROVE  LiveInv'
<1>1. /\ link' \in {"off", "asked", "on", "cut"} /\ wire' \in Seq(Event) /\ Len(wire') <= Cap
      /\ (link' = link /\ (link # "on" => wire' = wire)) \/ (link = "on" /\ link' = "cut")
      /\ hole' \subseteq LiveNodes
      /\ UNCHANGED <<pc, waiter, mem, up, snap, snapUp, fresh, typed, dels, held, pendingEvs, needResync,
                     unsaved, syncPending, syncErr>>
  BY CommitEffect
<1>2. db' \in [LiveNodes -> LiveTexts \cup {NoRow, Dead}] /\ dbUp' \in [LiveNodes -> Spots]
  BY DEF OthersCommit, LiveInv, LiveTypeOK
<1>3. LiveTypeOK' /\ QueuedAreTheirs'
  BY <1>1, <1>2 DEF LiveInv, LiveTypeOK, QueuedAreTheirs
<1>4. EditsWillBeFlushed' /\ Dirty' = Dirty
  BY <1>1, SameTrees DEF LiveInv, EditsWillBeFlushed
<1>5. \A m \in LiveNodes : NodeInv(m)'
  BY CommitKeepsRead
<1>6. (link' = "asked" => wire' = <<>>) /\ (pc' = "start" => link' = "off" /\ wire' = <<>>)
  BY <1>1 DEF LiveInv
<1>. QED BY <1>1, <1>3, <1>4, <1>5, <1>6 DEF LiveInv, NodeInv

\* A step that leaves the trees, the table and the queue alone and sends nothing
\* keeps what has been read, as long as it hears no more than before.
LEMMA QuietStepKeepsRead ==
    ASSUME LiveInv, NEW n \in LiveNodes,
           UNCHANGED <<db, wire, mem, up, snap, snapUp, fresh, typed, dels, pendingEvs, hole>>,
           link' = "on" => LastSays(wire, n, db[n]) \/ link = "on", Hears' => Hears, pc' # "start"
    PROVE  NodeInv(n)'
<1>1. NodeInv(n)
  BY DEF LiveInv, NodeInv
<1>2. SoundAt(Trees, n)' /\ NeverUsed(n)'
  BY <1>1, SameTrees, StaysUnused DEF NodeInv
<1>3. (HasRead(Trees, n, db[n]) => HasRead(Trees, n, db[n])') /\ (Accounted(Trees, n) => Accounted(Trees, n)')
  BY SameTrees
<1>4. ReadAt(n) => ReadAt(n)'
  BY <1>3 DEF ReadAt
<1>. QED BY <1>1, <1>2, <1>4 DEF NodeInv

LEMMA RegisterKeeps == ASSUME LiveInv, Register PROVE LiveInv'
<1>1. UNCHANGED <<db, dbUp, wire, waiter, pc, mem, up, snap, snapUp, fresh, typed, dels, held, pendingEvs, needResync,
                  unsaved, syncPending, syncErr, hole>>
      /\ link = "asked" /\ link' = "on" /\ wire = <<>> /\ pc # "start"
  BY DEF Register, tree, queue, flags, LiveInv
<1>2. LiveTypeOK' /\ QueuedAreTheirs'
  BY <1>1 DEF LiveInv, LiveTypeOK, QueuedAreTheirs
<1>3. EditsWillBeFlushed' /\ Dirty' = Dirty
  BY <1>1, SameTrees DEF LiveInv, EditsWillBeFlushed
<1>4. ASSUME NEW n \in LiveNodes PROVE NodeInv(n)'
  <2>1. LastSays(wire, n, db[n])
    BY <1>1, EmptySays
  <2>2. Hears' => Hears
    BY <1>1 DEF Hears
  <2>. QED BY <1>1, <2>1, <2>2, QuietStepKeepsRead
<1>. QED BY <1>1, <1>2, <1>3, <1>4 DEF LiveInv, NodeInv

LEMMA CutKeeps == ASSUME LiveInv, Cut PROVE LiveInv'
<1>1. UNCHANGED <<db, dbUp, wire, waiter, pc, mem, up, snap, snapUp, fresh, typed, dels, held, pendingEvs, needResync,
                  unsaved, syncPending, syncErr, hole>>
      /\ link # "off" /\ link' = "cut" /\ pc # "start"
  BY DEF Cut, tree, queue, flags, LiveInv
<1>2. LiveTypeOK' /\ QueuedAreTheirs'
  BY <1>1 DEF LiveInv, LiveTypeOK, QueuedAreTheirs
<1>3. EditsWillBeFlushed' /\ Dirty' = Dirty
  BY <1>1, SameTrees DEF LiveInv, EditsWillBeFlushed
<1>4. \A n \in LiveNodes : NodeInv(n)'
  BY <1>1, QuietStepKeepsRead DEF Hears
<1>. QED BY <1>1, <1>2, <1>3, <1>4 DEF LiveInv, NodeInv

\* The feed is opened for the first time, or it is found that it cannot be.
LEMMA StartFeedKeeps == ASSUME LiveInv, StartFeed PROVE LiveInv'
<1>1. UNCHANGED <<db, dbUp, mem, up, snap, snapUp, fresh, typed, dels, held, pendingEvs, needResync,
                  unsaved, syncPending, syncErr, hole>>
      /\ link' \in {"asked", "off"} /\ waiter' \in {"event", "retry"} /\ wire' = <<>> /\ pc = "start" /\ pc' = "run"
      /\ wire = <<>> /\ pendingEvs = <<>>
  BY DEF StartFeed, Subscribed, Unreachable, tree, queue, flags, LiveInv
<1>2. wire' = wire
  BY <1>1
<1>3. LiveTypeOK' /\ QueuedAreTheirs'
  BY <1>1, <1>2 DEF LiveInv, LiveTypeOK, QueuedAreTheirs
<1>4. EditsWillBeFlushed'
  BY <1>1, SameTrees DEF LiveInv, EditsWillBeFlushed
<1>5. ASSUME NEW n \in LiveNodes PROVE NodeInv(n)'
  <2>1. NodeInv(n)
    BY DEF LiveInv, NodeInv
  <2>2. LastSays(pendingEvs, n, db[n])
    BY <1>1, EmptySays
  <2>3. (HasRead(Trees, n, db[n]) => HasRead(Trees, n, db[n])') /\ (Accounted(Trees, n) => Accounted(Trees, n)')
    BY <1>1, SameTrees
  <2>4. ReadAt(n) => ReadAt(n)'
    BY <1>1, <2>2, <2>3 DEF ReadAt
  <2>5. SoundAt(Trees, n)' /\ NeverUsed(n)'
    BY <1>1, <1>2, <2>1, SameTrees, StaysUnused DEF NodeInv
  <2>. QED BY <1>1, <2>1, <2>4, <2>5 DEF NodeInv
<1>. QED BY <1>1, <1>3, <1>4, <1>5 DEF LiveInv, NodeInv

\* A feed that is lost is opened again, or cannot be: the editor hears nothing until
\* what is then due has been loaded.
LEMMA DeafStepKeepsRead ==
    ASSUME LiveInv, NEW n \in LiveNodes,
           UNCHANGED <<db, mem, up, snap, snapUp, fresh, typed, dels, hole>>,
           wire' = <<>>, pendingEvs' \in {pendingEvs, <<>>}, link' # "on", ~Hears', pc' # "start"
    PROVE  NodeInv(n)'
<1>1. NodeInv(n) /\ n \notin Foreign(<<>>)
  BY EmptySays DEF LiveInv, NodeInv
<1>2. SoundAt(Trees, n)' /\ NeverUsed(n)'
  BY <1>1, SameTrees, StaysUnused DEF NodeInv
<1>3. Accounted(Trees, n) => Accounted(Trees, n)'
  BY SameTrees
<1>4. ReadAt(n) => ReadAt(n)'
  BY <1>3 DEF ReadAt
<1>. QED BY <1>1, <1>2, <1>4 DEF NodeInv

LEMMA ReopenKeeps == ASSUME LiveInv, Reopen PROVE LiveInv'
<1>1. UNCHANGED <<db, dbUp, mem, up, snap, snapUp, fresh, typed, dels, held, unsaved, syncPending, syncErr, hole>>
      /\ link' = "asked" /\ waiter' = "event" /\ wire' = <<>> /\ pc = "run"
      /\ \/ pc' = "resync" /\ ~needResync' /\ pendingEvs' = <<>>
         \/ pc' = "run" /\ needResync' /\ pendingEvs' = pendingEvs
      /\ needResync' \in BOOLEAN
  BY DEF Reopen, Reopens, Subscribed, tree, flags
<1>2. <<>> \in Seq(Event) /\ Len(<<>>) = 0 /\ 0 <= Cap /\ 0 <= MaxPending
  BY BoundAssumption
<1>3. LiveTypeOK' /\ QueuedAreTheirs'
  <2>1. CASE pendingEvs' = <<>>
    BY <1>1, <1>2, <2>1 DEF LiveInv, LiveTypeOK, QueuedAreTheirs
  <2>2. CASE pendingEvs' = pendingEvs
    BY <1>1, <1>2, <2>2 DEF LiveInv, LiveTypeOK, QueuedAreTheirs
  <2>. QED BY <1>1, <2>1, <2>2
<1>4. EditsWillBeFlushed'
  BY <1>1, SameTrees DEF LiveInv, EditsWillBeFlushed
<1>5. \A n \in LiveNodes : NodeInv(n)'
  BY <1>1, DeafStepKeepsRead DEF Hears
<1>. QED BY <1>1, <1>3, <1>4, <1>5 DEF LiveInv, NodeInv

LEMMA ReopenFailsKeeps == ASSUME LiveInv, ReopenFails PROVE LiveInv'
<1>1. UNCHANGED <<db, dbUp, pc, mem, up, snap, snapUp, fresh, typed, dels, held, pendingEvs, needResync,
                  unsaved, syncPending, syncErr, hole>>
      /\ link' = "off" /\ waiter' = "retry" /\ wire' = <<>> /\ pc = "run"
  BY DEF ReopenFails, Reopens, RetryLater, Unreachable, tree, flags, queue
<1>2. <<>> \in Seq(Event) /\ Len(<<>>) = 0 /\ 0 <= Cap
  BY BoundAssumption
<1>3. LiveTypeOK' /\ QueuedAreTheirs'
  BY <1>1, <1>2 DEF LiveInv, LiveTypeOK, QueuedAreTheirs
<1>4. EditsWillBeFlushed'
  BY <1>1, SameTrees DEF LiveInv, EditsWillBeFlushed
<1>5. \A n \in LiveNodes : NodeInv(n)'
  BY <1>1, DeafStepKeepsRead DEF Hears
<1>. QED BY <1>1, <1>3, <1>4, <1>5 DEF LiveInv, NodeInv

\* A flush that has nothing to write, and a load that fails.
LEMMA FlushIdleKeeps == ASSUME LiveInv, FlushIdle PROVE LiveInv'
<1>1. UNCHANGED <<db, dbUp, link, wire, waiter, pc, mem, up, snap, snapUp, fresh, typed, dels, held, pendingEvs,
                  needResync, unsaved, syncErr, hole>>
      /\ ~unsaved /\ ~syncPending' /\ syncPending' \in BOOLEAN /\ pc = "run"
  BY DEF FlushIdle, shared, tree, queue
<1>2. LiveTypeOK' /\ QueuedAreTheirs'
  BY <1>1 DEF LiveInv, LiveTypeOK, QueuedAreTheirs
<1>3. EditsWillBeFlushed' /\ Dirty' = Dirty
  BY <1>1, SameTrees DEF LiveInv, EditsWillBeFlushed
<1>4. \A n \in LiveNodes : NodeInv(n)'
  BY <1>1, QuietStepKeepsRead DEF Hears
<1>. QED BY <1>1, <1>2, <1>3, <1>4 DEF LiveInv, NodeInv

LEMMA LoadFailsKeeps == ASSUME LiveInv, LoadFails PROVE LiveInv'
<1>1. UNCHANGED <<db, dbUp, link, wire, waiter, mem, up, snap, snapUp, fresh, typed, dels, held, pendingEvs, needResync,
                  unsaved, syncPending, syncErr>>
      /\ pc = "load" /\ pc' = "run" /\ hole' = LiveNodes
  BY DEF LoadFails, shared, tree, queue, flags
<1>2. LiveTypeOK' /\ QueuedAreTheirs'
  BY <1>1 DEF LiveInv, LiveTypeOK, QueuedAreTheirs
<1>3. EditsWillBeFlushed'
  BY <1>1, SameTrees DEF LiveInv, EditsWillBeFlushed
<1>4. \A n \in LiveNodes : NodeInv(n)'
  BY <1>1, SameTrees, StaysUnused DEF LiveInv, NodeInv
<1>. QED BY <1>1, <1>2, <1>3, <1>4 DEF LiveInv, NodeInv

LEMMA ClickKeeps == ASSUME LiveInv, Click PROVE LiveInv'
<1>1. UNCHANGED <<db, dbUp, link, wire, waiter, pc, mem, up, snap, snapUp, fresh, typed, dels, pendingEvs, needResync,
                  unsaved, syncPending, syncErr, hole>>
      /\ held' = "no" /\ pc = "run"
  BY DEF Click, shared, tree, flags
<1>2. LiveTypeOK' /\ QueuedAreTheirs'
  BY <1>1 DEF LiveInv, LiveTypeOK, QueuedAreTheirs
<1>3. EditsWillBeFlushed' /\ Dirty' = Dirty
  BY <1>1, SameTrees DEF LiveInv, EditsWillBeFlushed
<1>4. \A n \in LiveNodes : NodeInv(n)'
  BY <1>1, QuietStepKeepsRead DEF Hears
<1>. QED BY <1>1, <1>2, <1>3, <1>4 DEF LiveInv, NodeInv

\* An event is read from the feed: an own one, one that is folded in, one that queues,
\* or one too many.
LEMMA ReceiveEffect ==
    ASSUME LiveInv, ReceiveEvent
    PROVE  LET ev == Head(wire)
           IN  /\ UNCHANGED <<db, dbUp, link, waiter, pc, held, unsaved, syncPending, syncErr>>
               /\ pc = "run" /\ wire # <<>> /\ wire' = Tail(wire) /\ wire' # wire /\ ev \in Event /\ link # "asked"
               /\ wire' \in Seq(Event) /\ Len(wire') <= Cap
               /\ \A n \in LiveNodes :
                     /\ n \in Foreign(wire) <=> Tells(ev, n) \/ n \in Foreign(wire')
                     /\ \A v : LastSays(wire, n, v) => LastSays(wire', n, v)
                     /\ \A v : LastSays(wire, n, v) /\ Tells(ev, n) /\ n \notin Foreign(wire') => ev.text = v
<1> DEFINE ev == Head(wire)
<1>1. UNCHANGED <<db, dbUp, link, waiter, pc, held, unsaved, syncPending, syncErr>>
      /\ pc = "run" /\ wire # <<>> /\ wire' = Tail(wire)
  BY DEF ReceiveEvent, flags
<1>2. wire \in Seq(Event) /\ Len(wire) <= Cap /\ Cap \in Nat
  BY BoundAssumption DEF LiveInv, LiveTypeOK
<1>3. ev \in Event /\ Len(wire) \in Nat /\ Len(wire) > 0
  BY <1>1, <1>2
<1>4. wire' \in Seq(Event) /\ Len(wire') = Len(wire) - 1
  BY <1>1, <1>2
<1>5. wire' # wire /\ Len(wire') <= Cap
  BY <1>2, <1>3, <1>4
<1>6. ASSUME NEW n \in LiveNodes
      PROVE  /\ n \in Foreign(wire) <=> Tells(ev, n) \/ n \in Foreign(wire')
             /\ \A v : LastSays(wire, n, v) => LastSays(wire', n, v)
             /\ \A v : LastSays(wire, n, v) /\ Tells(ev, n) /\ n \notin Foreign(wire') => ev.text = v
  BY <1>1, <1>2, TailSays
<1>7. link # "asked"
  BY <1>1 DEF LiveInv
<1>. QED BY <1>1, <1>3, <1>4, <1>5, <1>6, <1>7

\* What the folding in of the first event makes of the trees.
LEMMA FoldedIn ==
    ASSUME LiveInv, ReceiveEvent, NEW ev, ev = Head(wire), ev # Echo, NEW slid \in BOOLEAN,
           NEW t, t = [Trees EXCEPT !.hole = @ \cup ({ev.node} \cap Foreign(pendingEvs))],
           Become(ApplyRow(t, slid, ev))
    PROVE  /\ t \in Folded /\ ev \in NodeRow /\ Trees' \in Folded
           /\ t.mem = mem /\ t.up = up /\ t.snap = snap /\ t.fresh = fresh /\ t.dels = dels /\ t.typed = typed
           /\ KeptBy(t, Trees', ev) /\ Dirty' \subseteq Dirty
           /\ \A n \in LiveNodes :
                 /\ SoundAt(Trees, n)'
                 /\ n \in fresh' => n \in fresh
                 /\ Accounted(Trees, n) => Accounted(Trees, n)'
                 /\ n # ev.node => Same(Trees, Trees', n) \/ Gone(Trees', n)
                 /\ n = ev.node /\ Accounted(Trees, n) => n \in dels' \/ HasRead(Trees', n, ev.text)
           /\ hole \subseteq hole' /\ (ev.node \in Foreign(pendingEvs) => ev.node \in hole')
<1> DEFINE r == ApplyRow(t, slid, ev)
           h == hole \cup ({ev.node} \cap Foreign(pendingEvs))
<1>1. ev \in NodeRow /\ ev.node \in LiveNodes
  BY ReceiveEffect, EventIsARow, RowFields
<1>2. LiveTypeOK /\ Trees \in Folded /\ \A n \in LiveNodes : SoundAt(Trees, n)
  BY TreesAreFolded DEF LiveInv
<1>3. h \in SUBSET LiveNodes /\ t = [Trees EXCEPT !.hole = h]
  BY <1>1, <1>2 DEF LiveTypeOK, Trees
<1> HIDE DEF h
<1>4. /\ t \in Folded /\ t.hole = h
      /\ t.mem = Trees.mem /\ t.up = Trees.up /\ t.snap = Trees.snap /\ t.fresh = Trees.fresh /\ t.dels = Trees.dels
      /\ t.typed = Trees.typed
  BY <1>2, <1>3 DEF Folded
<1>5. /\ t.mem = mem /\ t.up = up /\ t.snap = snap /\ t.fresh = fresh /\ t.dels = dels /\ t.typed = typed
  BY <1>4 DEF Trees
<1>6. \A n \in LiveNodes : SoundAt(t, n)
  BY <1>2, <1>4 DEF SoundAt, ChangedIn
<1>7. KeptBy(t, r, ev) /\
      \A n \in LiveNodes :
                     /\ SoundAt(r, n)
                     /\ DirtyAt(r, n) => DirtyAt(t, n)
                     /\ n \in r.fresh => n \in t.fresh
                     /\ Accounted(t, n) => Accounted(r, n)
                     /\ n # ev.node => Same(t, r, n) \/ Gone(r, n)
                     /\ n = ev.node /\ Accounted(t, n) => n \in r.dels \/ HasRead(r, n, ev.text)
  BY <1>1, <1>4, <1>6, RowKeeps
<1>8. Become(r) /\ r \in Folded
  BY <1>7 DEF KeptBy
<1> HIDE DEF r
<1>9. Trees' = r
  BY <1>8, FoldedFields DEF Become, Trees
<1>10. /\ mem' = r.mem /\ snap' = r.snap /\ fresh' = r.fresh /\ dels' = r.dels /\ hole' = r.hole
  BY <1>8 DEF Become
<1>11. Dirty' \subseteq Dirty
  BY <1>5, <1>7, <1>10 DEF Dirty, Changed, DirtyAt, ChangedIn, Trees
<1>12. \A n \in LiveNodes : SoundAt(Trees, n)'
  BY <1>7, <1>9 DEF SoundAt, ChangedIn
<1>13. ASSUME NEW n \in LiveNodes
       PROVE  /\ n \in fresh' => n \in fresh
              /\ Accounted(Trees, n) => Accounted(Trees, n)'
              /\ n # ev.node => Same(Trees, Trees', n) \/ Gone(Trees', n)
              /\ n = ev.node /\ Accounted(Trees, n) => n \in dels' \/ HasRead(Trees', n, ev.text)
  BY <1>4, <1>5, <1>7, <1>9, <1>10 DEF Accounted, Same
<1>14. h \subseteq hole'
  BY <1>4, <1>7, <1>10 DEF KeptBy
<1>15. hole \subseteq hole' /\ (ev.node \in Foreign(pendingEvs) => ev.node \in hole')
  BY <1>14 DEF h
<1>16. KeptBy(t, Trees', ev) /\ Trees' \in Folded
  BY <1>7, <1>8, <1>9
<1>. QED BY <1>1, <1>4, <1>5, <1>11, <1>12, <1>13, <1>15, <1>16

LEMMA ReceiveKeeps == ASSUME LiveInv, ReceiveEvent PROVE LiveInv'
<1> DEFINE ev == Head(wire)
<1>1. /\ UNCHANGED <<db, dbUp, link, waiter, pc, held, unsaved, syncPending, syncErr>>
      /\ pc = "run" /\ wire # <<>> /\ wire' = Tail(wire) /\ ev \in Event /\ link # "asked"
      /\ wire' \in Seq(Event) /\ Len(wire') <= Cap
      /\ \A n \in LiveNodes :
            /\ n \in Foreign(wire) <=> Tells(ev, n) \/ n \in Foreign(wire')
            /\ \A v : LastSays(wire, n, v) => LastSays(wire', n, v)
            /\ \A v : LastSays(wire, n, v) /\ Tells(ev, n) /\ n \notin Foreign(wire') => ev.text = v
  BY ReceiveEffect
<1>2. LiveTypeOK /\ pendingEvs \in Seq(Event) /\ Len(pendingEvs) <= MaxPending /\ QueuedAreTheirs
      /\ Len(pendingEvs) \in Nat /\ MaxPending \in Nat
  BY BoundAssumption DEF LiveInv, LiveTypeOK
<1>3. \A n \in LiveNodes : NodeInv(n)
  BY DEF LiveInv, NodeInv
<1> DEFINE Quiet == UNCHANGED <<mem, up, snap, snapUp, fresh, dels, typed, hole>>
<1>4. \/ ev = Echo /\ Quiet /\ UNCHANGED <<pendingEvs, needResync>>
      \/ /\ ev # Echo /\ UNCHANGED <<pendingEvs, needResync>>
         /\ \E slid \in BOOLEAN :
               Become(ApplyRow([Trees EXCEPT !.hole = @ \cup ({ev.node} \cap Foreign(pendingEvs))], slid, ev))
      \/ Quiet /\ pendingEvs' = <<>> /\ needResync' = TRUE
      \/ ev # Echo /\ ~Full /\ pendingEvs' = Append(pendingEvs, ev) /\ Quiet /\ UNCHANGED needResync
  BY DEF ReceiveEvent, Overflow, tree
<1> HIDE DEF ev
<1>5. ASSUME Quiet, NEW n \in LiveNodes
      PROVE  /\ SoundAt(Trees, n)' /\ (Accounted(Trees, n) => Accounted(Trees, n)')
             /\ (HasRead(Trees, n, db[n]) => HasRead(Trees, n, db[n])') /\ Dirty' = Dirty
  BY <1>1, <1>3, <1>5, SameTrees DEF NodeInv
<1>6. CASE ev = Echo /\ Quiet /\ UNCHANGED <<pendingEvs, needResync>>
  <2>1. LiveTypeOK' /\ QueuedAreTheirs' /\ EditsWillBeFlushed'
    BY <1>1, <1>2, <1>6, SameTrees DEF LiveInv, LiveTypeOK, EditsWillBeFlushed, QueuedAreTheirs
  <2>2. ASSUME NEW n \in LiveNodes PROVE NodeInv(n)'
    <3>1. n \in Foreign(wire') <=> n \in Foreign(wire)
      BY <1>1, <1>6 DEF Tells
    <3>2. NeverUsed(n)'
      BY <1>1, <1>3, <1>6, <3>1, StaysUnused DEF NodeInv
    <3>3. Hears' => Hears
      BY <1>1, <1>6 DEF Hears
    <3>4. ReadAt(n) => ReadAt(n)'
      BY <1>1, <1>5, <1>6, <3>1, <3>3 DEF ReadAt
    <3>. QED BY <1>3, <1>5, <1>6, <3>2, <3>4 DEF NodeInv
  <2>. QED BY <1>1, <1>6, <2>1, <2>2 DEF LiveInv, NodeInv
<1>7. CASE /\ ev # Echo /\ UNCHANGED <<pendingEvs, needResync>>
           /\ \E slid \in BOOLEAN :
                 Become(ApplyRow([Trees EXCEPT !.hole = @ \cup ({ev.node} \cap Foreign(pendingEvs))], slid, ev))
  <2>1. PICK slid \in BOOLEAN :
           Become(ApplyRow([Trees EXCEPT !.hole = @ \cup ({ev.node} \cap Foreign(pendingEvs))], slid, ev))
    BY <1>7
  <2>2. /\ ev \in NodeRow /\ Trees' \in Folded /\ Dirty' \subseteq Dirty /\ dels' = dels
        /\ \A n \in LiveNodes :
              /\ SoundAt(Trees, n)'
              /\ n \in fresh' => n \in fresh
              /\ Accounted(Trees, n) => Accounted(Trees, n)'
              /\ n # ev.node => Same(Trees, Trees', n) \/ Gone(Trees', n)
              /\ n = ev.node /\ Accounted(Trees, n) => n \in dels' \/ HasRead(Trees', n, ev.text)
        /\ hole \subseteq hole' /\ (ev.node \in Foreign(pendingEvs) => ev.node \in hole')
    <3> DEFINE t == [Trees EXCEPT !.hole = @ \cup ({ev.node} \cap Foreign(pendingEvs))]
    <3>1. Become(ApplyRow(t, slid, ev))
      BY <2>1
    <3>2. ev = Head(wire) /\ t = [Trees EXCEPT !.hole = @ \cup ({ev.node} \cap Foreign(pendingEvs))]
      BY DEF ev
    <3> HIDE DEF t
    <3>3. /\ ev \in NodeRow /\ Trees' \in Folded /\ Dirty' \subseteq Dirty /\ KeptBy(t, Trees', ev) /\ t.dels = dels
          /\ \A n \in LiveNodes :
                /\ SoundAt(Trees, n)'
                /\ n \in fresh' => n \in fresh
                /\ Accounted(Trees, n) => Accounted(Trees, n)'
                /\ n # ev.node => Same(Trees, Trees', n) \/ Gone(Trees', n)
                /\ n = ev.node /\ Accounted(Trees, n) => n \in dels' \/ HasRead(Trees', n, ev.text)
          /\ hole \subseteq hole' /\ (ev.node \in Foreign(pendingEvs) => ev.node \in hole')
      BY <1>7, <3>1, <3>2, FoldedIn
    <3>4. dels' = dels
      BY <3>3 DEF KeptBy, Trees
    <3>. QED BY <3>3, <3>4
  <2>3. LiveTypeOK'
    <3>1. /\ mem' \in [LiveNodes -> Shown] /\ up' \in [LiveNodes -> Spots] /\ snap' \in [LiveNodes -> Shown]
          /\ snapUp' \in [LiveNodes -> Spots] /\ fresh' \subseteq LiveNodes /\ dels' \subseteq LiveNodes
          /\ typed' \in [LiveNodes -> Shown] /\ hole' \subseteq LiveNodes
      BY <2>2 DEF Trees, Folded
    <3>. QED BY <1>1, <1>2, <1>7, <3>1 DEF LiveTypeOK, Shown
  <2>4. QueuedAreTheirs' /\ EditsWillBeFlushed'
    BY <1>1, <1>2, <1>7, <2>2 DEF LiveInv, QueuedAreTheirs, EditsWillBeFlushed
  <2>5. ASSUME NEW n \in LiveNodes PROVE NodeInv(n)'
    <3>1. Tells(ev, n) <=> n = ev.node
      BY <2>2, RowFields
    <3>2. NeverUsed(n)'
      <4>1. SUFFICES ASSUME db[n] = NoRow PROVE snap'[n] = Absent /\ n \notin Foreign(wire') \cup Foreign(pendingEvs)
        BY <1>1, <1>7 DEF NeverUsed
      <4>2. snap[n] = Absent /\ n \notin Foreign(wire) \cup Foreign(pendingEvs)
        BY <1>3, <4>1 DEF NodeInv, NeverUsed
      <4>3. n # ev.node /\ n \notin Foreign(wire')
        BY <1>1, <3>1, <4>2
      <4>4. Same(Trees, Trees', n) \/ Gone(Trees', n)
        BY <2>2, <4>3
      <4>. QED BY <4>2, <4>3, <4>4 DEF Same, Gone, Trees
    <3>3. ASSUME n \notin hole' PROVE ReadAt(n)'
      <4>1. ReadAt(n) /\ n \notin hole
        BY <1>3, <2>2, <3>3 DEF NodeInv
      <4>2. (n \in fresh' => db'[n] = NoRow) /\ Accounted(Trees, n)' /\ (link' = "on" => LastSays(wire', n, db'[n]))
        BY <1>1, <2>2, <4>1 DEF ReadAt
      <4>3. Hears' => Hears /\ link = "on"
        BY <1>1, <1>7 DEF Hears
      <4>4. CASE n # ev.node
        <5>1. n \notin Foreign(wire') => n \notin Foreign(wire)
          BY <1>1, <3>1, <4>4
        <5>2. HasRead(Trees, n, db[n]) => HasRead(Trees, n, db[n])'
          BY <1>1, <2>2, <4>4, TextsAreApart DEF Same, Gone, HasRead
        <5>. QED BY <1>1, <1>7, <2>2, <4>1, <4>2, <4>3, <5>1, <5>2 DEF ReadAt
      <4>5. CASE n = ev.node
        <5>1. n \notin Foreign(pendingEvs)
          BY <2>2, <3>3, <4>5
        <5>2. LastSays(pendingEvs, n, db[n])
          BY <5>1, NothingSaid
        <5>3. Hears' /\ n \notin Foreign(wire') => ev.text = db[n]
          BY <1>1, <3>1, <4>1, <4>3, <4>5 DEF ReadAt
        <5>4. Accounted(Trees, n)
          BY <4>1 DEF ReadAt
        <5>5. Hears' /\ n \notin Foreign(wire') => n \in dels' \/ HasRead(Trees, n, db[n])'
          BY <1>1, <2>2, <4>5, <5>3, <5>4 DEF HasRead
        <5>. QED BY <1>1, <1>7, <4>2, <5>2, <5>5 DEF ReadAt
      <4>. QED BY <4>4, <4>5
    <3>. QED BY <2>2, <3>2, <3>3 DEF NodeInv
  <2>. QED BY <1>1, <1>7, <2>2, <2>3, <2>4, <2>5 DEF LiveInv, NodeInv
<1>8. CASE Quiet /\ pendingEvs' = <<>> /\ needResync' = TRUE
  <2>1. <<>> \in Seq(Event) /\ Len(<<>>) = 0 /\ needResync' \in BOOLEAN
    BY <1>8
  <2>2. LiveTypeOK' /\ QueuedAreTheirs' /\ EditsWillBeFlushed'
    BY <1>1, <1>2, <1>8, <2>1, SameTrees DEF LiveInv, LiveTypeOK, QueuedAreTheirs, EditsWillBeFlushed
  <2>3. ASSUME NEW n \in LiveNodes PROVE NodeInv(n)'
    <3>1. NeverUsed(n)'
      BY <1>1, <1>3, <1>8, EmptySays, StaysUnused DEF NodeInv
    <3>2. ReadAt(n) => ReadAt(n)'
      BY <1>1, <1>5, <1>8 DEF ReadAt, Hears
    <3>. QED BY <1>3, <1>5, <1>8, <3>1, <3>2 DEF NodeInv
  <2>. QED BY <1>1, <1>8, <2>2, <2>3 DEF LiveInv, NodeInv
<1>9. CASE ev # Echo /\ ~Full /\ pendingEvs' = Append(pendingEvs, ev) /\ Quiet /\ UNCHANGED needResync
  <2>1. pendingEvs' \in Seq(Event) /\ Len(pendingEvs') <= MaxPending
    BY <1>1, <1>2, <1>9 DEF Full
  <2>2. LiveTypeOK'
    BY <1>1, <1>2, <1>9, <2>1 DEF LiveTypeOK
  <2>3. EditsWillBeFlushed'
    BY <1>1, <1>9, SameTrees DEF LiveInv, EditsWillBeFlushed
  <2>4. QueuedAreTheirs'
    <3>1. ASSUME NEW i \in DOMAIN pendingEvs'
          PROVE  (i \in DOMAIN pendingEvs /\ pendingEvs'[i] = pendingEvs[i]) \/ pendingEvs'[i] = ev
      BY <1>1, <1>2, <1>9, <3>1
    <3>. QED BY <1>2, <1>9, <3>1 DEF QueuedAreTheirs
  <2>5. ASSUME NEW n \in LiveNodes PROVE NodeInv(n)'
    <3>1. /\ n \in Foreign(pendingEvs') <=> Tells(ev, n) \/ n \in Foreign(pendingEvs)
          /\ Tells(ev, n) => LastSays(pendingEvs', n, ev.text)
          /\ ~Tells(ev, n) => \A v : LastSays(pendingEvs, n, v) => LastSays(pendingEvs', n, v)
      BY <1>1, <1>2, <1>9, AppendSays
    <3>2. NeverUsed(n)'
      BY <1>1, <1>3, <1>9, <3>1 DEF NodeInv, NeverUsed
    <3>3. Hears' => Hears /\ link = "on"
      BY <1>1, <1>9 DEF Hears
    <3>4. ASSUME ReadAt(n) PROVE ReadAt(n)'
      <4>1. link' = "on" => LastSays(wire', n, db'[n])
        BY <1>1, <3>4 DEF ReadAt
      <4>2. (n \in fresh' => db'[n] = NoRow) /\ Accounted(Trees, n)'
        BY <1>1, <1>5, <1>9, <3>4 DEF ReadAt
      <4>3. ASSUME Hears', n \notin Foreign(wire') PROVE LastSays(pendingEvs', n, db[n])
        <5>1. CASE Tells(ev, n)
          BY <1>1, <3>1, <3>3, <3>4, <4>3, <5>1 DEF ReadAt
        <5>2. CASE ~Tells(ev, n)
          BY <1>1, <3>1, <3>3, <3>4, <4>3, <5>2 DEF ReadAt
        <5>. QED BY <5>1, <5>2
      <4>4. ASSUME Hears', n \notin Foreign(wire') \cup Foreign(pendingEvs')
            PROVE  n \in dels' \/ HasRead(Trees, n, db[n])'
        BY <1>1, <1>5, <1>9, <3>1, <3>3, <3>4, <4>4 DEF ReadAt
      <4>. QED BY <1>1, <4>1, <4>2, <4>3, <4>4 DEF ReadAt
    <3>. QED BY <1>3, <1>5, <1>9, <3>2, <3>4 DEF NodeInv
  <2>. QED BY <1>1, <1>9, <1>5, <2>2, <2>3, <2>4, <2>5 DEF LiveInv, NodeInv
<1>. QED BY <1>4, <1>6, <1>7, <1>8, <1>9

-----------------------------------------------------------------------------
(* Saving.                                                                  *)

LEMMA SavedEffect ==
    ASSUME LiveInv, NEW slid \in Slid
    PROVE  /\ SavedDb(slid) \in [LiveNodes -> LiveTexts \cup {NoRow, Dead}]
           /\ SavedUp(slid) \in [LiveNodes -> Spots]
           /\ Saves(slid) \cup dels \subseteq LiveNodes /\ \A n \in Saves(slid) : mem[n] \in LiveTexts
           /\ \A n \in LiveNodes :
                 SavedDb(slid)[n] = IF n \in dels /\ db[n] # NoRow THEN Dead
                                    ELSE IF n \in Saves(slid) /\ (IsLive(n) \/ (n \in fresh /\ snap[n] = Absent))
                                         THEN mem[n]
                                    ELSE db[n]
           /\ \A n \in LiveNodes \ (Saves(slid) \cup dels) : SavedDb(slid)[n] = db[n]
<1>1. LiveTypeOK
  BY DEF LiveInv
<1>2. slid \subseteq {n \in LiveNodes : mem[n] # Absent}
  BY DEF Slid
<1>3. \A n \in Saves(slid) : n \in LiveNodes /\ mem[n] \in LiveTexts
  BY <1>1, <1>2 DEF Saves, Dirty, Displaced, LiveTypeOK
<1>4. ASSUME NEW n \in LiveNodes
      PROVE  /\ SavedDb(slid)[n] = IF n \in dels /\ db[n] # NoRow THEN Dead
                                   ELSE IF n \in Saves(slid) /\ (IsLive(n) \/ (n \in fresh /\ snap[n] = Absent))
                                        THEN mem[n]
                                   ELSE db[n]
             /\ SavedDb(slid)[n] \in LiveTexts \cup {NoRow, Dead}
  BY <1>1, <1>3 DEF SavedDb, ToWrite, LiveTypeOK
<1>5. SavedDb(slid) \in [LiveNodes -> LiveTexts \cup {NoRow, Dead}]
  <2>1. SavedDb(slid) = [n \in LiveNodes |-> SavedDb(slid)[n]]
    BY DEF SavedDb
  <2>. QED BY <1>4, <2>1
<1>6. SavedUp(slid) \in [LiveNodes -> Spots]
  BY <1>1, TextsAreApart DEF SavedUp, LiveTypeOK
<1>7. dels \subseteq LiveNodes
  BY <1>1 DEF LiveTypeOK
<1>. QED BY <1>3, <1>4, <1>5, <1>6, <1>7

\* An own event says nothing of what others have written.
CommitSays ==
    /\ link' \in {"off", "asked", "on", "cut"} /\ wire' \in Seq(Event) /\ Len(wire') <= Cap
    /\ link' = link \/ (link = "on" /\ link' = "cut")
    /\ link # "on" => wire' = wire
    /\ \A n \in LiveNodes : /\ n \in Foreign(wire') <=> n \in Foreign(wire)
                            /\ \A v : LastSays(wire, n, v) => LastSays(wire', n, v)

LEMMA SendEffect ==
    ASSUME LiveInv, NEW slid \in Slid, Commit(slid)
    PROVE  CommitSays
<1>1. LiveTypeOK /\ Echo \in Event /\ \A n : ~Tells(Echo, n)
  BY DEF LiveInv, Event, Tells
<1>2. wire \in Seq(Event) /\ Len(wire) <= Cap /\ link \in {"off", "asked", "on", "cut"}
  BY <1>1 DEF LiveTypeOK
<1>3. CASE UNCHANGED <<link, wire>>
  <2>1. link' = link /\ wire' = wire
    BY <1>3
  <2>. QED BY <1>2, <2>1 DEF CommitSays
<1>4. CASE Publish(Echo)
  <2>1. /\ link' \in {"off", "asked", "on", "cut"} /\ wire' \in Seq(Event) /\ Len(wire') <= Cap
        /\ \/ link = "on" /\ link' = "on" /\ wire' = Append(wire, Echo)
           \/ link # "on" /\ link' = link /\ wire' = wire
           \/ link = "on" /\ link' = "cut" /\ wire' = wire
    BY <1>1, <1>4, PublishEffect
  <2>2. CASE wire' = wire
    BY <2>1, <2>2 DEF CommitSays
  <2>3. CASE link = "on" /\ link' = "on" /\ wire' = Append(wire, Echo)
    <3>1. \A n \in LiveNodes : /\ n \in Foreign(wire') <=> n \in Foreign(wire)
                               /\ \A v : LastSays(wire, n, v) => LastSays(wire', n, v)
      BY <1>1, <1>2, <2>3, AppendSays
    <3>. QED BY <2>1, <2>3, <3>1 DEF CommitSays
  <2>. QED BY <2>1, <2>2, <2>3
<1>. QED BY <1>3, <1>4 DEF Commit

\* What a save that works leaves of a node.
LEMMA SavedIsRead ==
    ASSUME LiveInv, NEW slid \in Slid, NEW n \in LiveNodes, n \in dels => mem[n] = Absent,
           n \in dels \/ HasRead(Trees, n, db[n])
    PROVE  mem[n] # Absent => mem[n] = SavedDb(slid)[n]
<1>1. LiveTypeOK /\ mem[n] \in LiveTexts \cup {Absent} /\ SoundAt(Trees, n) /\ snap[n] \in LiveTexts \cup {Absent}
      /\ db[n] \in LiveTexts \cup {NoRow, Dead}
  BY DEF LiveInv, LiveTypeOK
<1>2. SavedDb(slid)[n] = IF n \in dels /\ db[n] # NoRow THEN Dead
                         ELSE IF n \in Saves(slid) /\ (IsLive(n) \/ (n \in fresh /\ snap[n] = Absent)) THEN mem[n]
                         ELSE db[n]
  BY SavedEffect
<1>3. SUFFICES ASSUME mem[n] # Absent PROVE mem[n] = SavedDb(slid)[n]
  OBVIOUS
<1>4. n \notin dels /\ HasRead(Trees, n, db[n])
  BY <1>3
<1>5. CASE n \in Saves(slid)
  <2>1. IsLive(n) \/ (n \in fresh /\ snap[n] = Absent)
    BY <1>1, <1>3, <1>4, TextsAreApart DEF SoundAt, HasRead, Trees, IsLive
  <2>. QED BY <1>2, <1>4, <1>5, <2>1
<1>6. CASE n \notin Saves(slid)
  <2>1. n \notin fresh /\ snap[n] = mem[n]
    BY <1>3, <1>6 DEF Saves, Dirty, Changed, ChangedIn, Trees
  <2>2. snap[n] = db[n]
    BY <1>3, <1>4, <2>1 DEF HasRead, Trees
  <2>. QED BY <1>2, <1>4, <1>6, <2>1, <2>2
<1>. QED BY <1>5, <1>6

\* A uuid that no row has after a save is one the editor does not show.
LEMMA SavedIsUsed ==
    ASSUME LiveInv, NEW slid \in Slid, NEW n \in LiveNodes, SavedDb(slid)[n] = NoRow
    PROVE  db[n] = NoRow /\ mem[n] = Absent
<1>1. LiveTypeOK /\ mem[n] \in LiveTexts \cup {Absent} /\ SoundAt(Trees, n) /\ NeverUsed(n)
  BY DEF LiveInv, LiveTypeOK
<1>2. SavedDb(slid)[n] = IF n \in dels /\ db[n] # NoRow THEN Dead
                         ELSE IF n \in Saves(slid) /\ (IsLive(n) \/ (n \in fresh /\ snap[n] = Absent)) THEN mem[n]
                         ELSE db[n]
  BY SavedEffect
<1>5. n \in Saves(slid) => mem[n] # NoRow
  BY SavedEffect, TextsAreApart
<1>3. db[n] = NoRow /\ snap[n] = Absent
  <2>1. db[n] = NoRow
    BY <1>2, <1>5, TextsAreApart
  <2>. QED BY <1>1, <2>1 DEF NeverUsed
<1>4. ASSUME mem[n] # Absent PROVE FALSE
  <2>1. n \in fresh /\ n \in Saves(slid)
    BY <1>1, <1>3, <1>4 DEF SoundAt, Trees, Saves, Dirty, Changed, ChangedIn
  <2>2. SavedDb(slid)[n] = mem[n]
    BY <1>2, <1>3, <2>1
  <2>. QED BY <1>5, <2>1, <2>2
<1>. QED BY <1>3, <1>4

\* What every save that works leaves, whether a flush or a resync has asked for it.
LEMMA SaveKeeps ==
    ASSUME LiveInv, SaveLands, UNCHANGED <<held, pendingEvs, needResync, waiter>>, pc # "start",
           pc' \in {"run", "load"}, pc' = "run" => pc = "run", syncPending' \in BOOLEAN, unsaved' \in BOOLEAN,
           pc' # "run" => pendingEvs = <<>>
    PROVE  LiveInv'
<1>1. PICK slid \in Slid :
         /\ Commit(slid)
         /\ hole' = hole \cup ((Saves(slid) \cup dels) \cap (Foreign(wire) \cup Foreign(pendingEvs)))
                         \cup {n \in dels : mem[n] # Absent}
  BY DEF SaveLands
<1>2. /\ db' = SavedDb(slid) /\ dbUp' = SavedUp(slid) /\ snap' = mem /\ snapUp' = up /\ mem' = mem /\ up' = up
      /\ fresh' = {} /\ dels' = {} /\ typed' = [n \in LiveNodes |-> Absent] /\ syncErr' \in BOOLEAN
  BY <1>1 DEF SaveLands, RefreshSnapshots, Commit
<1>3. CommitSays
  BY <1>1, SendEffect
<1>4. LiveTypeOK /\ Saves(slid) \cup dels \subseteq LiveNodes
      /\ \A n \in LiveNodes \ (Saves(slid) \cup dels) : SavedDb(slid)[n] = db[n]
  BY SavedEffect DEF LiveInv
<1>5. LiveTypeOK'
  <2>1. db' \in [LiveNodes -> LiveTexts \cup {NoRow, Dead}] /\ dbUp' \in [LiveNodes -> Spots]
    BY <1>2, SavedEffect
  <2>2. hole' \subseteq LiveNodes
    BY <1>1, <1>4 DEF LiveTypeOK
  <2>3. typed' \in [LiveNodes -> LiveTexts \cup {Absent}] /\ fresh' \subseteq LiveNodes /\ dels' \subseteq LiveNodes
    BY <1>2
  <2>. QED BY <1>2, <1>3, <1>4, <2>1, <2>2, <2>3 DEF LiveTypeOK, CommitSays
<1>6. QueuedAreTheirs'
  BY DEF LiveInv, QueuedAreTheirs
<1>7. Dirty' = {}
  BY <1>2 DEF Dirty, Changed, ChangedIn, Trees
<1>8. EditsWillBeFlushed'
  BY <1>2, <1>7 DEF EditsWillBeFlushed
<1>9. ASSUME NEW n \in LiveNodes PROVE SoundAt(Trees, n)' /\ NeverUsed(n)' /\ Accounted(Trees, n)'
  <2>1. SoundAt(Trees, n)' /\ Accounted(Trees, n)'
    BY <1>2 DEF SoundAt, ChangedIn, Trees, Accounted
  <2>2. ASSUME db'[n] = NoRow PROVE snap'[n] = Absent /\ n \notin Foreign(wire') \cup Foreign(pendingEvs)
    <3>1. db[n] = NoRow /\ mem[n] = Absent
      BY <1>2, <2>2, SavedIsUsed
    <3>2. n \notin Foreign(wire) \cup Foreign(pendingEvs)
      BY <3>1 DEF LiveInv, NeverUsed
    <3>. QED BY <1>2, <1>3, <3>1, <3>2 DEF CommitSays
  <2>. QED BY <2>1, <2>2 DEF NeverUsed
<1>10. ASSUME NEW n \in LiveNodes, n \notin hole' PROVE ReadAt(n)'
  <2>1. /\ ReadAt(n) /\ (n \in dels => mem[n] = Absent)
        /\ n \in Saves(slid) \cup dels => n \notin Foreign(wire) /\ n \notin Foreign(pendingEvs)
    BY <1>1, <1>10 DEF LiveInv
  <2>2. n \notin Saves(slid) \cup dels => db'[n] = db[n]
    BY <1>2, <1>4
  <2>3. link' = "on" => LastSays(wire', n, db'[n])
    <3>1. CASE n \in Foreign(wire)
      BY <1>3, <2>1, <2>2, <3>1 DEF ReadAt, CommitSays
    <3>2. CASE n \notin Foreign(wire)
      BY <1>3, <3>2, NothingSaid DEF CommitSays
    <3>. QED BY <3>1, <3>2
  <2>4. Hears' => Hears
    BY <1>3 DEF Hears, CommitSays
  <2>5. Hears' /\ n \notin Foreign(wire') => LastSays(pendingEvs, n, db'[n])
    <3>1. CASE n \in Foreign(pendingEvs)
      BY <1>3, <2>1, <2>2, <2>4, <3>1 DEF ReadAt, CommitSays
    <3>2. CASE n \notin Foreign(pendingEvs)
      BY <3>2, NothingSaid
    <3>. QED BY <3>1, <3>2
  <2>6. ASSUME Hears', n \notin Foreign(wire') \cup Foreign(pendingEvs) PROVE HasRead(Trees, n, db[n])'
    <3>1. n \in dels \/ HasRead(Trees, n, db[n])
      BY <1>3, <2>1, <2>4, <2>6 DEF ReadAt, CommitSays
    <3>2. mem[n] # Absent => mem[n] = SavedDb(slid)[n]
      BY <2>1, <3>1, SavedIsRead
    <3>. QED BY <1>2, <3>2 DEF HasRead, Trees
  <2>. QED BY <1>2, <1>9, <2>3, <2>5, <2>6 DEF ReadAt
<1>11. link' = "asked" => wire' = <<>>
  BY <1>3 DEF LiveInv, CommitSays
<1>. QED BY <1>5, <1>6, <1>7, <1>8, <1>9, <1>10, <1>11 DEF LiveInv

LEMMA FlushLandsKeeps == ASSUME LiveInv, FlushLands PROVE LiveInv'
<1>1. /\ SaveLands /\ UNCHANGED <<held, pendingEvs, needResync, waiter>> /\ pc = "run" /\ pc' = "run"
      /\ syncPending' \in BOOLEAN /\ unsaved' \in BOOLEAN
  BY DEF FlushLands, queue
<1>. QED BY <1>1, SaveKeeps

LEMMA ResyncSavesKeeps == ASSUME LiveInv, ResyncSaves PROVE LiveInv'
<1>1. /\ SaveLands /\ UNCHANGED <<held, pendingEvs, needResync, waiter>> /\ pc = "resync" /\ pc' = "load"
      /\ syncPending' \in BOOLEAN /\ unsaved' \in BOOLEAN /\ pendingEvs = <<>>
  BY DEF ResyncSaves, queue, LiveInv, LiveTypeOK
<1>. QED BY <1>1, SaveKeeps

\* A save that fails may have reached the table all the same.
LEMMA SaveFailsEffect ==
    ASSUME LiveInv, SaveFails
    PROVE  /\ CommitSays
           /\ db' \in [LiveNodes -> LiveTexts \cup {NoRow, Dead}] /\ dbUp' \in [LiveNodes -> Spots]
           /\ syncErr' /\ syncErr' \in BOOLEAN /\ UNCHANGED <<mem, up, snap, snapUp, fresh, typed, dels>>
           /\ \A n \in LiveNodes : db'[n] = NoRow => db[n] = NoRow
<1>1. syncErr' /\ syncErr' \in BOOLEAN /\ UNCHANGED <<mem, up, snap, snapUp, fresh, typed, dels>>
  BY DEF SaveFails, tree
<1>2. CASE UNCHANGED <<db, dbUp, link, wire>>
  <2>1. link' = link /\ wire' = wire /\ db' = db /\ dbUp' = dbUp
    BY <1>2
  <2>. QED BY <1>1, <2>1 DEF LiveInv, LiveTypeOK, CommitSays
<1>3. ASSUME NEW slid \in Slid, Commit(slid)
      PROVE  /\ CommitSays
             /\ db' \in [LiveNodes -> LiveTexts \cup {NoRow, Dead}] /\ dbUp' \in [LiveNodes -> Spots]
             /\ \A n \in LiveNodes : db'[n] = NoRow => db[n] = NoRow
  BY <1>3, SendEffect, SavedEffect, SavedIsUsed DEF Commit
<1>. QED BY <1>1, <1>2, <1>3 DEF SaveFails, shared

LEMMA FailedSaveLeaves ==
    ASSUME LiveInv, SaveFails, UNCHANGED <<held, pendingEvs, needResync, waiter, unsaved>>, pc' = "run", pc # "start",
           syncPending' \in BOOLEAN, hole' \in SUBSET LiveNodes,
           \A n \in LiveNodes : n \in hole' \/ (pc = "run" /\ n \notin hole /\ db'[n] = db[n])
    PROVE  LiveInv'
<1>1. /\ CommitSays
      /\ db' \in [LiveNodes -> LiveTexts \cup {NoRow, Dead}] /\ dbUp' \in [LiveNodes -> Spots]
      /\ syncErr' /\ syncErr' \in BOOLEAN /\ UNCHANGED <<mem, up, snap, snapUp, fresh, typed, dels>>
      /\ \A n \in LiveNodes : db'[n] = NoRow => db[n] = NoRow
  BY SaveFailsEffect
<1>2. LiveTypeOK' /\ QueuedAreTheirs'
  BY <1>1 DEF LiveInv, LiveTypeOK, QueuedAreTheirs, CommitSays
<1>3. EditsWillBeFlushed'
  BY <1>1, SameTrees DEF LiveInv, EditsWillBeFlushed
<1>4. ASSUME NEW n \in LiveNodes PROVE NodeInv(n)'
  <2>1. SoundAt(Trees, n)' /\ (Accounted(Trees, n) => Accounted(Trees, n)')
    BY <1>1, SameTrees DEF LiveInv
  <2>2. NeverUsed(n)'
    BY <1>1 DEF LiveInv, NeverUsed, CommitSays
  <2>3. ASSUME n \notin hole' PROVE ReadAt(n)'
    <3>1. ReadAt(n) /\ db'[n] = db[n] /\ pc = "run"
      BY <2>3 DEF LiveInv
    <3>2. HasRead(Trees, n, db[n]) => HasRead(Trees, n, db[n])'
      BY <1>1, <3>1, SameTrees
    <3>3. Hears' => Hears
      BY <1>1, <3>1 DEF Hears, CommitSays
    <3>. QED BY <1>1, <2>1, <3>1, <3>2, <3>3 DEF ReadAt, CommitSays
  <2>. QED BY <2>1, <2>2, <2>3 DEF NodeInv
<1>5. link' = "asked" => wire' = <<>>
  BY <1>1 DEF LiveInv, CommitSays
<1>. QED BY <1>2, <1>3, <1>4, <1>5 DEF LiveInv, NodeInv

LEMMA FlushFailsKeeps == ASSUME LiveInv, FlushFails PROVE LiveInv'
<1>1. /\ SaveFails /\ UNCHANGED <<held, pendingEvs, needResync, waiter, unsaved>> /\ pc = "run" /\ pc' = "run"
      /\ syncPending' \in BOOLEAN
      /\ hole' = hole \cup {n \in LiveNodes : <<db'[n], dbUp'[n]>> # <<db[n], dbUp[n]>>}
  BY DEF FlushFails, StillUnsaved, queue
<1>2. hole' \in SUBSET LiveNodes /\ \A n \in LiveNodes : n \in hole' \/ (n \notin hole /\ db'[n] = db[n])
  BY <1>1 DEF LiveInv, LiveTypeOK
<1>. QED BY <1>1, <1>2, FailedSaveLeaves

LEMMA ResyncFailsKeeps == ASSUME LiveInv, ResyncFails PROVE LiveInv'
<1>1. /\ SaveFails /\ UNCHANGED <<held, pendingEvs, needResync, waiter, unsaved, syncPending>>
      /\ pc = "resync" /\ pc' = "run" /\ hole' = LiveNodes
  BY DEF ResyncFails, StillUnsaved, AfterFailedSave, queue
<1>2. syncPending' \in BOOLEAN
  BY <1>1 DEF LiveInv, LiveTypeOK
<1>. QED BY <1>1, <1>2, FailedSaveLeaves

\* The trees are loaded again: only live rows that hang from Home are shown.
LEMMA LoadedEffect ==
    ASSUME LiveTypeOK
    PROVE  /\ Loaded \in [LiveNodes -> Shown] /\ LoadedUp \in [LiveNodes -> Spots]
           /\ \A n \in LiveNodes : Loaded[n] \in {db[n], Absent} /\ (Loaded[n] # Absent => db[n] \in LiveTexts)
<1>1. ASSUME NEW n \in LiveNodes, n \in Reached PROVE db[n] \in LiveTexts
  <2>1. SUFFICES ASSUME ~IsLive(n) PROVE FALSE
    BY DEF IsLive
  <2>2. {n} \in {S \in SUBSET LiveNodes : \A m \in S : IsLive(m) => dbUp[m] \in S \cup {Outside}}
    BY <2>1
  <2>. QED BY <1>1, <2>2 DEF Reached
<1>2. ASSUME NEW n \in LiveNodes
      PROVE  /\ Loaded[n] \in {db[n], Absent} /\ (Loaded[n] # Absent => db[n] \in LiveTexts)
             /\ (IF n \in Reached THEN db[n] ELSE Absent) \in Shown
  BY <1>1, <1>2 DEF Loaded, Shown
<1>3. Loaded \in [LiveNodes -> Shown]
  BY <1>2 DEF Loaded
<1>4. LoadedUp \in [LiveNodes -> Spots]
  BY TextsAreApart DEF LoadedUp, LiveTypeOK
<1>. QED BY <1>2, <1>3, <1>4

LEMMA ResyncLoadsKeeps == ASSUME LiveInv, ResyncLoads PROVE LiveInv'
<1>1. /\ UNCHANGED <<db, dbUp, link, wire, waiter, unsaved, syncPending, syncErr, held, pendingEvs, needResync>>
      /\ pc = "load" /\ pc' = "run" /\ mem' = Loaded /\ snap' = Loaded /\ up' = LoadedUp /\ snapUp' = LoadedUp
      /\ fresh' = {} /\ dels' = {}
      /\ hole' = hole \cap Foreign(wire) /\ typed' = [n \in LiveNodes |-> Absent]
      /\ pendingEvs = <<>>
  BY DEF ResyncLoads, shared, flags, queue, LiveInv
<1>2. LiveTypeOK
  BY DEF LiveInv
<1>3. /\ Loaded \in [LiveNodes -> Shown] /\ LoadedUp \in [LiveNodes -> Spots]
      /\ \A n \in LiveNodes : Loaded[n] \in {db[n], Absent} /\ (Loaded[n] # Absent => db[n] \in LiveTexts)
  BY <1>2, LoadedEffect
<1>4. LiveTypeOK' /\ QueuedAreTheirs'
  BY <1>1, <1>2, <1>3 DEF LiveInv, LiveTypeOK, QueuedAreTheirs, Shown
<1>5. ASSUME NEW n \in LiveNodes PROVE SoundAt(Trees, n)' /\ Accounted(Trees, n)' /\ n \notin Dirty'
  BY <1>1 DEF SoundAt, Trees, ChangedIn, Dirty, Changed, Accounted
<1>6. EditsWillBeFlushed'
  <2>1. Dirty' = {} /\ dels' = {}
    BY <1>1, <1>5 DEF Dirty
  <2>. QED BY <2>1 DEF EditsWillBeFlushed
<1>7. ASSUME NEW n \in LiveNodes PROVE NeverUsed(n)'
  <2>1. NeverUsed(n)
    BY DEF LiveInv
  <2>. QED BY <1>1, <1>3, <2>1, TextsAreApart DEF NeverUsed
<1>8. ASSUME NEW n \in LiveNodes, n \notin hole' PROVE ReadAt(n)'
  <2>1. link' = "on" => LastSays(wire', n, db'[n])
    <3>1. CASE n \in Foreign(wire)
      BY <1>1, <1>8, <3>1 DEF LiveInv, ReadAt
    <3>2. CASE n \notin Foreign(wire)
      BY <1>1, <3>2, NothingSaid
    <3>. QED BY <3>1, <3>2
  <2>2. LastSays(pendingEvs', n, db'[n])
    BY <1>1, EmptySays
  <2>3. HasRead(Trees, n, db[n])'
    BY <1>1, <1>3 DEF HasRead, Trees
  <2>. QED BY <1>1, <1>5, <2>1, <2>2, <2>3 DEF ReadAt
<1>. QED BY <1>1, <1>4, <1>5, <1>6, <1>7, <1>8 DEF LiveInv

-----------------------------------------------------------------------------
(* The user's keys.                                                         *)

\* What a key makes of the trees before it drains the queue: t, whose nodes are
\* accounted for and have been read as those of the trees before.
KeepsAccount(t) ==
    /\ t.hole = hole
    /\ \A n \in LiveNodes :
         /\ SoundAt(t, n)
         /\ db[n] = NoRow => t.snap[n] = Absent
         /\ n \notin hole => /\ n \in t.fresh => db[n] = NoRow
                             /\ Accounted(t, n)
                             /\ n \in dels \/ HasRead(Trees, n, db[n]) => n \in t.dels \/ HasRead(t, n, db[n])

LEMMA PendingAreTheirs == ASSUME LiveInv PROVE pendingEvs \in Seq(Event) /\ AreRows(pendingEvs)
<1>1. pendingEvs \in Seq(Event)
  BY DEF LiveInv, LiveTypeOK
<1>2. ASSUME NEW i \in 1..Len(pendingEvs) PROVE pendingEvs[i] \in NodeRow
  <2>1. i \in DOMAIN pendingEvs /\ pendingEvs[i] \in Event
    BY <1>1
  <2>. QED BY <2>1, EventIsARow DEF LiveInv, QueuedAreTheirs
<1>. QED BY <1>1, <1>2 DEF AreRows

LEMMA BecomeEffect ==
    ASSUME NEW w \in Folded, Become(w)
    PROVE  /\ Trees' = w /\ Dirty' = {n \in LiveNodes : DirtyAt(w, n)}
           /\ mem' = w.mem /\ up' = w.up /\ snap' = w.snap /\ snapUp' = w.snapUp /\ fresh' = w.fresh /\ dels' = w.dels
           /\ typed' = w.typed /\ hole' = w.hole
<1>1. /\ mem' = w.mem /\ up' = w.up /\ snap' = w.snap /\ snapUp' = w.snapUp /\ fresh' = w.fresh /\ dels' = w.dels
      /\ typed' = w.typed /\ hole' = w.hole
  BY DEF Become
<1>2. Trees' = w
  BY <1>1, FoldedFields DEF Trees
<1>3. Dirty' = {n \in LiveNodes : DirtyAt(w, n)}
  BY <1>1 DEF Dirty, Changed, DirtyAt, ChangedIn, Trees
<1>. QED BY <1>1, <1>2, <1>3

\* What drainLive leaves of the queue.
LEMMA DrainCases ==
    ASSUME LiveInv, NEW t \in Folded, \A n \in LiveNodes : SoundAt(t, n), Drain(t)
    PROVE  \/ held' = "no" /\ needResync /\ Become(t) /\ needResync' = FALSE /\ pendingEvs' = <<>> /\ pc' = "resync"
           \/ \E slid \in Slides(pendingEvs) :
                 /\ Become(ApplyAll(t, pendingEvs, slid)) /\ FoldedSo(t, ApplyAll(t, pendingEvs, slid), pendingEvs, Len(pendingEvs))
                 /\ \A n \in LiveNodes : ApplyAll(t, pendingEvs, slid).typed[n] # t.typed[n] =>
                       \E k \in 1..Len(pendingEvs) : TakesAway(Upto(t, pendingEvs, slid, k - 1), pendingEvs[k], n)
                 /\ pendingEvs' = <<>> /\ pc' = pc /\ needResync' = needResync
           \/ Become(t) /\ pendingEvs' = pendingEvs /\ pc' = pc /\ needResync' = needResync
<1>1. CASE held' = "no" /\ needResync
  BY <1>1 DEF Drain
<1>2. CASE held' = "no" /\ ~needResync
  <2>1. PICK slid \in Slides(pendingEvs) : Become(ApplyAll(t, pendingEvs, slid))
    BY <1>2 DEF Drain
  <2>2. /\ FoldedSo(t, ApplyAll(t, pendingEvs, slid), pendingEvs, Len(pendingEvs))
        /\ \A n \in LiveNodes : ApplyAll(t, pendingEvs, slid).typed[n] # t.typed[n] =>
              \E k \in 1..Len(pendingEvs) : TakesAway(Upto(t, pendingEvs, slid, k - 1), pendingEvs[k], n)
    BY PendingAreTheirs, QueueEffect
  <2>3. pendingEvs' = <<>> /\ pc' = pc /\ needResync' = needResync
    BY <1>2 DEF Drain
  <2>. QED BY <2>1, <2>2, <2>3
<1>3. CASE held' # "no"
  BY <1>3 DEF Drain
<1>. QED BY <1>1, <1>2, <1>3

\* Every key ends in drainLive: the queue is folded in, or dropped for a resync, or kept.
LEMMA DrainKeepsAccount ==
    ASSUME LiveInv, NEW t \in Folded, KeepsAccount(t), pc = "run", Drain(t), UNCHANGED <<db, link, wire>>
    PROVE  /\ Trees' \in Folded /\ pendingEvs' \in {pendingEvs, <<>>} /\ needResync' \in BOOLEAN
           /\ pc' \in {"run", "resync"} /\ (pc' = "resync" => pendingEvs' = <<>>)
           /\ Dirty' \subseteq {n \in LiveNodes : DirtyAt(t, n)} /\ dels' = t.dels
           /\ \A n \in LiveNodes : NodeInv(n)'
<1> DEFINE Q == pendingEvs
<1>1. \A n \in LiveNodes : SoundAt(t, n) /\ NodeInv(n)
  BY DEF KeepsAccount, LiveInv, NodeInv
<1>2. Q \in Seq(Event) /\ needResync \in BOOLEAN
  BY PendingAreTheirs DEF LiveInv, LiveTypeOK
<1>3. CASE Become(t) /\ needResync' = FALSE /\ pendingEvs' = <<>> /\ pc' = "resync"
  <2>1. Trees' = t /\ Dirty' = {n \in LiveNodes : DirtyAt(t, n)} /\ dels' = t.dels /\ hole' = hole /\ snap' = t.snap
        /\ fresh' = t.fresh
    BY <1>3, BecomeEffect DEF KeepsAccount
  <2>2. ASSUME NEW n \in LiveNodes PROVE NodeInv(n)'
    <3>1. SoundAt(Trees, n)'
      BY <1>1, <2>1 DEF SoundAt, ChangedIn
    <3>2. NeverUsed(n)'
      BY <1>1, <1>3, <2>1, EmptySays DEF KeepsAccount, NodeInv, NeverUsed
    <3>3. ASSUME n \notin hole PROVE ReadAt(n)'
      <4>1. ReadAt(n) /\ (n \in t.fresh => db[n] = NoRow) /\ Accounted(t, n)
        BY <1>1, <3>3 DEF NodeInv, KeepsAccount
      <4>2. Accounted(Trees, n)'
        BY <2>1, <4>1 DEF Accounted
      <4>. QED BY <1>3, <2>1, <4>1, <4>2 DEF ReadAt, Hears
    <3>. QED BY <2>1, <3>1, <3>2, <3>3 DEF NodeInv
  <2>. QED BY <1>3, <2>1, <2>2
<1>4. ASSUME NEW slid \in Slides(Q), Become(ApplyAll(t, Q, slid)), FoldedSo(t, ApplyAll(t, Q, slid), Q, Len(Q)),
             pendingEvs' = <<>>, pc' = pc, needResync' = needResync
      PROVE  /\ Trees' \in Folded /\ Dirty' \subseteq {n \in LiveNodes : DirtyAt(t, n)} /\ dels' = t.dels
             /\ \A n \in LiveNodes : NodeInv(n)'
  <2> DEFINE u == ApplyAll(t, Q, slid)
  <2>1. FoldedSo(t, u, Q, Len(Q)) /\ Become(u)
    BY <1>4
  <2> HIDE DEF u
  <2>2. /\ u \in Folded /\ u.dels = t.dels /\ hole \subseteq u.hole
        /\ \A n \in LiveNodes :
             /\ SoundAt(u, n) /\ (DirtyAt(u, n) => DirtyAt(t, n)) /\ (n \in u.fresh => n \in t.fresh)
             /\ Accounted(t, n) => Accounted(u, n)
             /\ n \notin Foreign(Q) => Same(t, u, n) \/ Gone(u, n)
    <3>1. ASSUME NEW n \in LiveNodes, n \notin Foreign(Q) PROVE \A i \in 1..Len(Q) : ~Tells(Q[i], n)
      BY <1>2, <3>1, ForeignTells
    <3>. QED BY <2>1, <3>1 DEF FoldedSo, KeepsAccount
  <2>3. Trees' = u /\ Dirty' = {n \in LiveNodes : DirtyAt(u, n)} /\ dels' = u.dels /\ hole' = u.hole /\ snap' = u.snap
        /\ fresh' = u.fresh
    BY <2>1, <2>2, BecomeEffect
  <2>4. ASSUME NEW n \in LiveNodes PROVE NodeInv(n)'
    <3>1. SoundAt(Trees, n)'
      BY <2>2, <2>3 DEF SoundAt, ChangedIn
    <3>2. NeverUsed(n)'
      <4>1. SUFFICES ASSUME db[n] = NoRow PROVE snap'[n] = Absent /\ n \notin Foreign(wire) \cup Foreign(<<>>)
        BY <1>4 DEF NeverUsed
      <4>2. n \notin Foreign(wire) \cup Foreign(Q) /\ t.snap[n] = Absent
        BY <1>1, <4>1 DEF NodeInv, NeverUsed, KeepsAccount
      <4>. QED BY <2>2, <2>3, <4>2, EmptySays DEF Same, Gone
    <3>3. ASSUME n \notin hole' PROVE ReadAt(n)'
      <4>1. /\ n \notin hole /\ ReadAt(n) /\ (n \in t.fresh => db[n] = NoRow) /\ Accounted(t, n)
            /\ n \in dels \/ HasRead(Trees, n, db[n]) => n \in t.dels \/ HasRead(t, n, db[n])
        BY <1>1, <2>2, <2>3, <3>3 DEF NodeInv, KeepsAccount
      <4>2. (n \in fresh' => db[n] = NoRow) /\ Accounted(Trees, n)'
        BY <2>2, <2>3, <4>1 DEF Accounted
      <4>3. Hears' => Hears
        BY <1>4 DEF Hears
      <4>4. LastSays(pendingEvs', n, db'[n])
        BY <1>4, EmptySays
      <4>5. ASSUME Hears, n \notin Foreign(wire), n \in Foreign(Q) PROVE n \in u.dels \/ HasRead(u, n, db[n])
        <5>1. PICK i \in 1..Len(Q) : Tells(Q[i], n) /\ \A j \in 1..Len(Q) : j > i => ~Tells(Q[j], n)
          BY <1>2, <4>5, LastTells
        <5>2. LastSays(Q, n, db[n])
          BY <4>1, <4>5 DEF ReadAt
        <5>3. i \in DOMAIN Q /\ Len(Q) \in Nat /\ DOMAIN Q = 1..Len(Q)
          BY <1>2
        <5> HIDE DEF Q
        <5>4. Q[i].text = db[n]
          BY <5>1, <5>2, <5>3 DEF LastSays
        <5>5. \A j \in i + 1..Len(Q) : ~Tells(Q[j], n)
          <6>1. ASSUME NEW j \in i + 1..Len(Q) PROVE j \in 1..Len(Q) /\ j > i
            BY <5>3, <6>1
          <6>. QED BY <5>1, <6>1
        <5>6. n \in u.dels \/ HasRead(u, n, Q[i].text)
          BY <2>1, <4>1, <5>1, <5>5 DEF FoldedSo
        <5>. QED BY <5>4, <5>6
      <4>6. ASSUME Hears, n \notin Foreign(wire), n \notin Foreign(Q) PROVE n \in u.dels \/ HasRead(u, n, db[n])
        <5>1. n \in t.dels \/ HasRead(t, n, db[n])
          BY <4>1, <4>6 DEF ReadAt
        <5>. QED BY <2>2, <4>6, <5>1, TextsAreApart DEF Same, Gone, HasRead
      <4>7. Hears /\ n \notin Foreign(wire) => n \in dels' \/ HasRead(Trees, n, db[n])'
        BY <2>3, <4>5, <4>6 DEF HasRead
      <4>. QED BY <1>4, <4>1, <4>2, <4>3, <4>4, <4>7 DEF ReadAt
    <3>. QED BY <3>1, <3>2, <3>3 DEF NodeInv
  <2>. QED BY <2>2, <2>3, <2>4
<1>5. CASE Become(t) /\ pendingEvs' = pendingEvs /\ pc' = pc /\ needResync' = needResync
  <2>1. Trees' = t /\ Dirty' = {n \in LiveNodes : DirtyAt(t, n)} /\ dels' = t.dels /\ hole' = hole /\ snap' = t.snap
        /\ fresh' = t.fresh
    BY <1>5, BecomeEffect DEF KeepsAccount
  <2>2. ASSUME NEW n \in LiveNodes PROVE NodeInv(n)'
    <3>1. SoundAt(Trees, n)'
      BY <1>1, <2>1 DEF SoundAt, ChangedIn
    <3>2. NeverUsed(n)'
      BY <1>1, <1>5, <2>1 DEF KeepsAccount, NodeInv, NeverUsed
    <3>3. ASSUME n \notin hole PROVE ReadAt(n)'
      <4>1. /\ ReadAt(n) /\ (n \in t.fresh => db[n] = NoRow) /\ Accounted(t, n)
            /\ n \in dels \/ HasRead(Trees, n, db[n]) => n \in t.dels \/ HasRead(t, n, db[n])
        BY <1>1, <3>3 DEF NodeInv, KeepsAccount
      <4>2. Accounted(Trees, n)' /\ (HasRead(t, n, db[n]) => HasRead(Trees, n, db[n])')
        BY <2>1, <4>1 DEF Accounted, HasRead
      <4>3. Hears' => Hears
        BY <1>5 DEF Hears
      <4>. QED BY <1>5, <2>1, <4>1, <4>2, <4>3 DEF ReadAt
    <3>. QED BY <2>1, <3>1, <3>2, <3>3 DEF NodeInv
  <2>. QED BY <1>2, <1>5, <2>1, <2>2
<1>. QED BY <1>1, <1>2, <1>3, <1>4, <1>5, DrainCases

LEMMA KeyKeeps ==
    ASSUME LiveInv, NEW t \in Folded, KeepsAccount(t), NEW edits \in BOOLEAN,
           NEW h \in {"no", "modal", "selection"}, Key(t, edits, h), edits \/ t = Trees
    PROVE  LiveInv'
<1>1. /\ UNCHANGED <<db, dbUp, link, wire, waiter, syncErr>> /\ pc = "run" /\ held' = h /\ Drain(t)
      /\ unsaved' = (unsaved \/ edits) /\ syncPending' = (syncPending \/ unsaved')
  BY DEF Key, shared
<1>2. /\ Trees' \in Folded /\ pendingEvs' \in {pendingEvs, <<>>} /\ needResync' \in BOOLEAN
      /\ pc' \in {"run", "resync"} /\ (pc' = "resync" => pendingEvs' = <<>>)
      /\ Dirty' \subseteq {n \in LiveNodes : DirtyAt(t, n)} /\ dels' = t.dels
      /\ \A n \in LiveNodes : NodeInv(n)'
  BY <1>1, DrainKeepsAccount
<1>3. LiveTypeOK'
  <2>1. LiveTypeOK /\ MaxPending \in Nat
    BY BoundAssumption DEF LiveInv
  <2>2. pendingEvs' \in Seq(Event) /\ Len(pendingEvs') <= MaxPending
    <3>1. CASE pendingEvs' = pendingEvs
      BY <2>1, <3>1 DEF LiveTypeOK
    <3>2. CASE pendingEvs' = <<>>
      BY <2>1, <3>2
    <3>. QED BY <1>2, <3>1, <3>2
  <2>3. /\ mem' \in [LiveNodes -> Shown] /\ up' \in [LiveNodes -> Spots] /\ snap' \in [LiveNodes -> Shown]
        /\ snapUp' \in [LiveNodes -> Spots] /\ fresh' \subseteq LiveNodes /\ dels' \subseteq LiveNodes
        /\ typed' \in [LiveNodes -> Shown] /\ hole' \subseteq LiveNodes
    BY <1>2 DEF Trees, Folded
  <2>4. unsaved' \in BOOLEAN /\ syncPending' \in BOOLEAN
    BY <1>1
  <2>. QED BY <1>1, <1>2, <2>1, <2>2, <2>3, <2>4 DEF LiveTypeOK, Shown
<1>4. QueuedAreTheirs'
  <2>1. CASE pendingEvs' = pendingEvs
    BY <2>1 DEF LiveInv, QueuedAreTheirs
  <2>2. CASE pendingEvs' = <<>>
    BY <2>2 DEF QueuedAreTheirs
  <2>. QED BY <1>2, <2>1, <2>2
<1>5. EditsWillBeFlushed'
  <2>1. SUFFICES ASSUME Dirty' # {} \/ dels' # {} PROVE unsaved'
    BY <1>1 DEF EditsWillBeFlushed
  <2>2. CASE edits
    BY <1>1, <2>2
  <2>3. CASE t = Trees
    <3>1. {n \in LiveNodes : DirtyAt(t, n)} = Dirty /\ t.dels = dels
      BY <2>3 DEF Dirty, Changed, DirtyAt, Trees
    <3>2. Dirty # {} \/ dels # {}
      BY <1>2, <2>1, <2>3, <3>1
    <3>. QED BY <1>1, <3>2 DEF LiveInv, EditsWillBeFlushed
  <2>. QED BY <2>2, <2>3
<1>6. /\ link' = "asked" => wire' = <<>>
      /\ pc' # "run" => pendingEvs' = <<>>
      /\ pc' # "start" /\ pc' # "load"
  BY <1>1, <1>2 DEF LiveInv
<1>. QED BY <1>2, <1>3, <1>4, <1>5, <1>6 DEF LiveInv, NodeInv

\* What the user makes of the trees keeps the account of every node.
LEMMA AccountOf ==
    ASSUME LiveInv, NEW n \in LiveNodes
    PROVE  /\ SoundAt(Trees, n) /\ (db[n] = NoRow => snap[n] = Absent)
           /\ n \notin hole => (n \in fresh => db[n] = NoRow) /\ Accounted(Trees, n)
BY DEF LiveInv, NeverUsed, ReadAt

LEMMA TypeKeeps ==
    ASSUME LiveInv, NEW n \in LiveNodes, NEW v \in LiveTexts, Type(n, v)
    PROVE  LiveInv'
<1> DEFINE m == [mem EXCEPT ![n] = v]
           y == [typed EXCEPT ![n] = IF v = snap[n] /\ n \notin fresh THEN Absent ELSE v]
           t == [Trees EXCEPT !.mem = m, !.typed = y]
<1>1. /\ mem[n] # Absent /\ v \in Mine \cup {snap[n]} /\ Key(t, TRUE, held)
  BY DEF Type, Trees
<1>2. LiveTypeOK /\ Trees \in Folded /\ held \in {"no", "modal", "selection"}
  BY TreesAreFolded DEF LiveInv, LiveTypeOK
<1>3. m \in [LiveNodes -> Shown] /\ y \in [LiveNodes -> Shown]
  BY <1>2 DEF Shown, LiveTypeOK
<1> HIDE DEF m, y
<1>4. t \in Folded /\ t.mem = m /\ t.typed = y /\ t.snap = Trees.snap /\ t.fresh = Trees.fresh /\ t.dels = Trees.dels
      /\ t.hole = Trees.hole
  BY <1>2, <1>3 DEF Folded
<1> HIDE DEF t
<1>5. t.snap = snap /\ t.fresh = fresh /\ t.dels = dels /\ t.hole = hole
      /\ \A k \in LiveNodes : /\ t.mem[k] = IF k = n THEN v ELSE mem[k]
                              /\ t.typed[k] = IF k # n THEN typed[k]
                                              ELSE IF v = snap[n] /\ n \notin fresh THEN Absent ELSE v
  BY <1>2, <1>4 DEF m, y, Trees, LiveTypeOK
<1>6. ASSUME NEW k \in LiveNodes
      PROVE  /\ SoundAt(t, k) /\ (db[k] = NoRow => t.snap[k] = Absent)
             /\ k \notin hole => /\ k \in t.fresh => db[k] = NoRow
                                 /\ Accounted(t, k)
                                 /\ k \in dels \/ HasRead(Trees, k, db[k]) => k \in t.dels \/ HasRead(t, k, db[k])
  <2>1. /\ SoundAt(Trees, k) /\ (db[k] = NoRow => snap[k] = Absent)
        /\ k \notin hole => (k \in fresh => db[k] = NoRow) /\ Accounted(Trees, k)
    BY AccountOf
  <2>2. SoundAt(t, k)
    BY <1>1, <1>5, <2>1, TextsAreApart DEF SoundAt, ChangedIn, Trees
  <2>3. HasRead(Trees, k, db[k]) => HasRead(t, k, db[k])
    BY <1>1, <1>5, TextsAreApart DEF HasRead, Trees
  <2>4. Accounted(Trees, k) => Accounted(t, k)
    BY <1>1, <1>5, TextsAreApart DEF Accounted, Trees
  <2>. QED BY <1>5, <2>1, <2>2, <2>3, <2>4
<1>7. KeepsAccount(t)
  BY <1>5, <1>6 DEF KeepsAccount
<1>. QED BY <1>1, <1>2, <1>4, <1>7, KeyKeeps

LEMMA InsertKeeps ==
    ASSUME LiveInv, NEW n \in LiveNodes, NEW v \in LiveTexts, NEW p \in Spots, Insert(n, v, p)
    PROVE  LiveInv'
<1> DEFINE m == [mem EXCEPT ![n] = v]
           u == [up EXCEPT ![n] = p]
           y == [typed EXCEPT ![n] = v]
           f == fresh \cup {n}
           t == [Trees EXCEPT !.mem = m, !.up = u, !.fresh = f, !.typed = y]
<1>1. /\ db[n] = NoRow /\ mem[n] = Absent /\ Key(t, TRUE, held)
  BY DEF Insert, Trees
<1>2. LiveTypeOK /\ Trees \in Folded /\ held \in {"no", "modal", "selection"}
  BY TreesAreFolded DEF LiveInv, LiveTypeOK
<1>3. m \in [LiveNodes -> Shown] /\ y \in [LiveNodes -> Shown] /\ u \in [LiveNodes -> Spots] /\ f \in SUBSET LiveNodes
  BY <1>2 DEF Shown, LiveTypeOK
<1> HIDE DEF m, y, u, f
<1>4. t \in Folded /\ t.mem = m /\ t.typed = y /\ t.snap = Trees.snap /\ t.fresh = f /\ t.dels = Trees.dels
      /\ t.hole = Trees.hole
  BY <1>2, <1>3 DEF Folded
<1> HIDE DEF t
<1>5. t.snap = snap /\ t.fresh = fresh \cup {n} /\ t.dels = dels /\ t.hole = hole
      /\ \A k \in LiveNodes : /\ t.mem[k] = IF k = n THEN v ELSE mem[k]
                              /\ t.typed[k] = IF k = n THEN v ELSE typed[k]
  BY <1>2, <1>4 DEF m, y, f, Trees, LiveTypeOK
<1>6. ASSUME NEW k \in LiveNodes
      PROVE  /\ SoundAt(t, k) /\ (db[k] = NoRow => t.snap[k] = Absent)
             /\ k \notin hole => /\ k \in t.fresh => db[k] = NoRow
                                 /\ Accounted(t, k)
                                 /\ k \in dels \/ HasRead(Trees, k, db[k]) => k \in t.dels \/ HasRead(t, k, db[k])
  <2>1. /\ SoundAt(Trees, k) /\ (db[k] = NoRow => snap[k] = Absent)
        /\ k \notin hole => (k \in fresh => db[k] = NoRow) /\ Accounted(Trees, k)
    BY AccountOf
  <2>2. SoundAt(t, k)
    BY <1>1, <1>5, <2>1, TextsAreApart DEF SoundAt, ChangedIn, Trees
  <2>3. HasRead(Trees, k, db[k]) => HasRead(t, k, db[k])
    BY <1>1, <1>5, TextsAreApart DEF HasRead, Trees
  <2>4. Accounted(Trees, k) => Accounted(t, k)
    BY <1>1, <1>5, TextsAreApart DEF Accounted, Trees
  <2>. QED BY <1>1, <1>5, <2>1, <2>2, <2>3, <2>4
<1>7. KeepsAccount(t)
  BY <1>5, <1>6 DEF KeepsAccount
<1>. QED BY <1>1, <1>2, <1>4, <1>7, KeyKeeps

LEMMA MoveKeeps ==
    ASSUME LiveInv, NEW n \in LiveNodes, NEW p \in Spots, MoveNode(n, p)
    PROVE  LiveInv'
<1> DEFINE u == [up EXCEPT ![n] = p]
           t == [Trees EXCEPT !.up = u]
<1>1. Key(t, TRUE, held)
  BY DEF MoveNode, Trees
<1>2. LiveTypeOK /\ Trees \in Folded /\ held \in {"no", "modal", "selection"}
  BY TreesAreFolded DEF LiveInv, LiveTypeOK
<1>3. u \in [LiveNodes -> Spots]
  BY <1>2 DEF LiveTypeOK
<1> HIDE DEF u
<1>4. t \in Folded /\ t.mem = Trees.mem /\ t.typed = Trees.typed /\ t.snap = Trees.snap /\ t.fresh = Trees.fresh
      /\ t.dels = Trees.dels /\ t.hole = Trees.hole
  BY <1>2, <1>3 DEF Folded
<1> HIDE DEF t
<1>5. t.mem = mem /\ t.typed = typed /\ t.snap = snap /\ t.fresh = fresh /\ t.dels = dels /\ t.hole = hole
  BY <1>4 DEF Trees
<1>6. ASSUME NEW k \in LiveNodes
      PROVE  /\ SoundAt(t, k) /\ (db[k] = NoRow => t.snap[k] = Absent)
             /\ k \notin hole => /\ k \in t.fresh => db[k] = NoRow
                                 /\ Accounted(t, k)
                                 /\ k \in dels \/ HasRead(Trees, k, db[k]) => k \in t.dels \/ HasRead(t, k, db[k])
  <2>1. /\ SoundAt(Trees, k) /\ (db[k] = NoRow => snap[k] = Absent)
        /\ k \notin hole => (k \in fresh => db[k] = NoRow) /\ Accounted(Trees, k)
    BY AccountOf
  <2>. QED BY <1>4, <1>5, <2>1 DEF SoundAt, ChangedIn, HasRead, Accounted
<1>7. KeepsAccount(t)
  BY <1>5, <1>6 DEF KeepsAccount
<1>. QED BY <1>1, <1>2, <1>4, <1>7, KeyKeeps

LEMMA DeleteKeeps ==
    ASSUME LiveInv, NEW n \in LiveNodes, DeleteNode(n)
    PROVE  LiveInv'
<1> DEFINE S == Below(up, n)
           m == Cleared(mem, S, Absent)
           u == Cleared(up, S, Home)
           y == Cleared(typed, S, Absent)
           f == fresh \ S
           d == dels \cup (S \ fresh)
           t == [Trees EXCEPT !.mem = m, !.up = u, !.fresh = f, !.dels = d, !.typed = y]
<1>1. Key(t, TRUE, held)
  BY DEF DeleteNode, Trees
<1>2. LiveTypeOK /\ Trees \in Folded /\ held \in {"no", "modal", "selection"} /\ S \in SUBSET LiveNodes
  BY TreesAreFolded, BelowItself DEF LiveInv, LiveTypeOK
<1> HIDE DEF S
<1>3. /\ m \in [LiveNodes -> Shown] /\ y \in [LiveNodes -> Shown] /\ u \in [LiveNodes -> Spots]
      /\ f \in SUBSET LiveNodes /\ d \in SUBSET LiveNodes
  BY <1>2, TextsAreApart DEF Shown, LiveTypeOK, Cleared
<1> HIDE DEF m, y, u, f, d
<1>4. t \in Folded /\ t.mem = m /\ t.typed = y /\ t.snap = Trees.snap /\ t.fresh = f /\ t.dels = d
      /\ t.hole = Trees.hole
  BY <1>2, <1>3 DEF Folded
<1> HIDE DEF t
<1>5. t.snap = snap /\ t.fresh = fresh \ S /\ t.dels = dels \cup (S \ fresh) /\ t.hole = hole
      /\ \A k \in LiveNodes : /\ t.mem[k] = IF k \in S THEN Absent ELSE mem[k]
                              /\ t.typed[k] = IF k \in S THEN Absent ELSE typed[k]
  BY <1>2, <1>4 DEF m, y, f, d, Trees, Cleared
<1>6. ASSUME NEW k \in LiveNodes
      PROVE  /\ SoundAt(t, k) /\ (db[k] = NoRow => t.snap[k] = Absent)
             /\ k \notin hole => /\ k \in t.fresh => db[k] = NoRow
                                 /\ Accounted(t, k)
                                 /\ k \in dels \/ HasRead(Trees, k, db[k]) => k \in t.dels \/ HasRead(t, k, db[k])
  <2>1. /\ SoundAt(Trees, k) /\ (db[k] = NoRow => snap[k] = Absent)
        /\ k \notin hole => (k \in fresh => db[k] = NoRow) /\ Accounted(Trees, k)
    BY AccountOf
  <2>2. SoundAt(t, k)
    BY <1>5, <2>1, TextsAreApart DEF SoundAt, ChangedIn, Trees
  <2>3. HasRead(Trees, k, db[k]) => HasRead(t, k, db[k])
    BY <1>5, TextsAreApart DEF HasRead, Trees
  <2>4. k \notin hole => Accounted(t, k)
    BY <1>5, <2>1 DEF Accounted, Trees
  <2>. QED BY <1>5, <2>1, <2>2, <2>3, <2>4
<1>7. KeepsAccount(t)
  BY <1>5, <1>6 DEF KeepsAccount
<1>. QED BY <1>1, <1>2, <1>4, <1>7, KeyKeeps

\* A key that leaves the trees alone.
LEMMA HoldKeeps ==
    ASSUME LiveInv, NEW h \in {"no", "modal", "selection"}, Key(Trees, FALSE, h)
    PROVE  LiveInv'
<1> DEFINE t == Trees
<1>1. t \in Folded /\ Key(t, FALSE, h) /\ t = Trees
  BY TreesAreFolded DEF LiveInv
<1>2. t.hole = hole /\ t.snap = snap /\ t.fresh = fresh /\ t.dels = dels
  BY DEF Trees
<1>3. KeepsAccount(t)
  BY <1>2, AccountOf DEF KeepsAccount
<1> HIDE DEF t
<1>. QED BY <1>1, <1>3, KeyKeeps

-----------------------------------------------------------------------------
(* The theorems.                                                            *)

LEMMA LiveInvAtStart == LiveInit => LiveInv
<1> SUFFICES ASSUME LiveInit PROVE LiveInv
  OBVIOUS
<1>1. /\ db = [n \in LiveNodes |-> IF n \in Born THEN First ELSE NoRow] /\ dbUp = [n \in LiveNodes |-> Home]
      /\ link = "off" /\ wire = <<>> /\ waiter = "none" /\ pc = "start"
      /\ mem = Loaded /\ snap = Loaded /\ up = LoadedUp /\ snapUp = LoadedUp /\ fresh = {} /\ dels = {}
      /\ unsaved = FALSE /\ syncPending = FALSE /\ syncErr = FALSE
      /\ held = "no" /\ pendingEvs = <<>> /\ needResync = FALSE
      /\ typed = [n \in LiveNodes |-> Absent] /\ hole = {}
  BY DEF LiveInit
<1>2. db \in [LiveNodes -> LiveTexts \cup {NoRow, Dead}] /\ dbUp \in [LiveNodes -> Spots]
  BY <1>1, TextsAreApart
<1>3. ASSUME NEW n \in LiveNodes, n \in Reached PROVE db[n] \in LiveTexts
  <2>1. SUFFICES ASSUME ~IsLive(n) PROVE FALSE
    BY DEF IsLive
  <2>2. {n} \in {S \in SUBSET LiveNodes : \A m \in S : IsLive(m) => dbUp[m] \in S \cup {Outside}}
    BY <2>1
  <2>. QED BY <1>3, <2>2 DEF Reached
<1>4. /\ Loaded \in [LiveNodes -> Shown] /\ LoadedUp \in [LiveNodes -> Spots]
      /\ \A n \in LiveNodes : Loaded[n] \in {db[n], Absent} /\ (Loaded[n] # Absent => db[n] \in LiveTexts)
  <2>1. \A n \in LiveNodes : /\ Loaded[n] \in {db[n], Absent} /\ (Loaded[n] # Absent => db[n] \in LiveTexts)
                             /\ (IF n \in Reached THEN db[n] ELSE Absent) \in Shown
    BY <1>3 DEF Loaded, Shown
  <2>2. Loaded \in [LiveNodes -> Shown]
    BY <2>1 DEF Loaded
  <2>3. LoadedUp \in [LiveNodes -> Spots]
    BY <1>2, TextsAreApart DEF LoadedUp
  <2>. QED BY <2>1, <2>2, <2>3
<1>5. <<>> \in Seq(Event) /\ Len(<<>>) = 0 /\ 0 <= Cap /\ 0 <= MaxPending
  BY BoundAssumption
<1>6. typed \in [LiveNodes -> LiveTexts \cup {Absent}]
  BY <1>1
<1>7. LiveTypeOK
  BY <1>1, <1>2, <1>4, <1>5, <1>6 DEF LiveTypeOK, Shown
<1>8. QueuedAreTheirs /\ EditsWillBeFlushed
  BY <1>1 DEF QueuedAreTheirs, EditsWillBeFlushed, Dirty, Changed, ChangedIn, Trees
<1>9. ASSUME NEW n \in LiveNodes PROVE SoundAt(Trees, n) /\ NeverUsed(n) /\ ReadAt(n)
  <2>1. SoundAt(Trees, n) /\ Accounted(Trees, n)
    BY <1>1 DEF SoundAt, ChangedIn, Trees, Accounted
  <2>2. HasRead(Trees, n, db[n])
    BY <1>1, <1>4 DEF HasRead, Trees
  <2>3. LastSays(pendingEvs, n, db[n]) /\ n \notin Foreign(<<>>)
    BY <1>1, EmptySays
  <2>4. NeverUsed(n)
    BY <1>1, <1>4, <2>3, TextsAreApart DEF NeverUsed
  <2>. QED BY <1>1, <2>1, <2>2, <2>3, <2>4 DEF ReadAt
<1>. QED BY <1>1, <1>7, <1>8, <1>9 DEF LiveInv

LEMMA LiveInvIsKept == LiveInv /\ [LiveNext]_vars => LiveInv'
<1> SUFFICES ASSUME LiveInv, [LiveNext]_vars PROVE LiveInv'
  OBVIOUS
<1>1. CASE UNCHANGED vars
  <2>1. UNCHANGED <<db, dbUp, link, wire, waiter, pc, mem, up, snap, snapUp, fresh, typed, dels, held, pendingEvs,
                    needResync, unsaved, syncPending, syncErr, hole>>
    BY <1>1 DEF vars, shared, tree, flags, queue
  <2>2. LiveTypeOK' /\ QueuedAreTheirs'
    BY <2>1 DEF LiveInv, LiveTypeOK, QueuedAreTheirs
  <2>3. EditsWillBeFlushed' /\ Dirty' = Dirty
    BY <2>1, SameTrees DEF LiveInv, EditsWillBeFlushed
  <2>4. ASSUME NEW n \in LiveNodes PROVE NodeInv(n)'
    <3>1. SoundAt(Trees, n)' /\ NeverUsed(n)'
      BY <2>1, SameTrees, StaysUnused DEF LiveInv
    <3>2. (HasRead(Trees, n, db[n]) => HasRead(Trees, n, db[n])') /\ (Accounted(Trees, n) => Accounted(Trees, n)')
      BY <2>1, SameTrees
    <3>3. ReadAt(n) => ReadAt(n)'
      BY <2>1, <3>2 DEF ReadAt, Hears
    <3>. QED BY <2>1, <3>1, <3>3 DEF LiveInv, NodeInv
  <2>. QED BY <2>1, <2>2, <2>3, <2>4 DEF LiveInv, NodeInv
<1>2. CASE Feed
  <2>1. ASSUME NEW n \in LiveNodes, NEW v \in LiveTexts \cup {Dead}, NEW p \in Spots, OthersCommit(n, v, p) PROVE LiveInv'
    BY <2>1, CommitKeeps
  <2>. QED BY <1>2, <2>1, RegisterKeeps, CutKeeps DEF Feed
<1>3. CASE Update
  BY <1>3, ReceiveKeeps, StartFeedKeeps, ReopenKeeps, ReopenFailsKeeps, ResyncSavesKeeps, ResyncFailsKeeps,
     ResyncLoadsKeeps, LoadFailsKeeps, FlushLandsKeeps, FlushFailsKeeps, FlushIdleKeeps
     DEF Update, Attempt, Resyncing
<1>4. CASE User
  <2>1. Edited \subseteq LiveNodes /\ Holds \subseteq {"modal", "selection"}
    BY TextAssumption
  <2>2. ASSUME NEW n \in Edited, NEW v \in LiveTexts, Type(n, v) \/ \E p \in Spots : Insert(n, v, p) PROVE LiveInv'
    BY <2>1, <2>2, TypeKeeps, InsertKeeps
  <2>3. ASSUME NEW n \in Edited, DeleteNode(n) \/ \E p \in Spots : MoveNode(n, p) PROVE LiveInv'
    BY <2>1, <2>3, DeleteKeeps, MoveKeeps
  <2>4. ASSUME NEW k \in Holds, Hold(k) PROVE LiveInv'
    BY <2>1, <2>4, HoldKeeps DEF Hold
  <2>5. ASSUME Release PROVE LiveInv'
    BY <2>5, HoldKeeps DEF Release
  <2>6. ASSUME Click PROVE LiveInv'
    BY <2>6, ClickKeeps
  <2>. QED BY <1>4, <2>2, <2>3, <2>4, <2>5, <2>6 DEF User
<1>. QED BY <1>1, <1>2, <1>3, <1>4 DEF LiveNext

\* In every state of every behaviour: the trees account for each node, and of a node
\* that is not in hole the table says what the events on their way, or queued, or
\* read say (livesync.go:84-135, 259-369).
THEOREM LiveInvariance == LiveSpec => []LiveInv
<1>1. LiveInit => LiveInv
  BY LiveInvAtStart
<1>2. LiveInv /\ [LiveNext]_vars => LiveInv'
  BY LiveInvIsKept
<1>. QED BY <1>1, <1>2, PTL DEF LiveSpec

-----------------------------------------------------------------------------
(* What may take an edit away.                                              *)

\* A save takes nothing away that it does not write, but what is deleted.
LEMMA SaveTakesOnlySo ==
    ASSUME LiveInv, SaveLands, NEW n \in LiveNodes, typed[n] # Absent
    PROVE  db'[n] \in {typed[n], NoRow, Dead}
<1>1. LiveTypeOK /\ db[n] \in LiveTexts \cup {NoRow, Dead} /\ n \in Dirty /\ mem[n] = typed[n]
  BY DEF LiveInv, LiveTypeOK, SoundAt, Trees, Dirty, Changed
<1>2. PICK slid \in Slid : db' = SavedDb(slid)
  BY DEF SaveLands, Commit
<1>3. SavedDb(slid)[n] = IF n \in dels /\ db[n] # NoRow THEN Dead
                         ELSE IF n \in Saves(slid) /\ (IsLive(n) \/ (n \in fresh /\ snap[n] = Absent)) THEN mem[n]
                         ELSE db[n]
  BY SavedEffect
<1>. QED BY <1>1, <1>2, <1>3 DEF Saves, IsLive

\* The user's keys that edit nothing take only what a drained event takes.
LEMMA DrainTakesOnlySo ==
    ASSUME LiveInv, NEW h \in {"no", "modal", "selection"}, Key(Trees, FALSE, h), NEW n \in LiveNodes, typed'[n] # typed[n]
    PROVE  pendingEvs' # pendingEvs /\ \E slid \in Slides(pendingEvs), k \in DOMAIN pendingEvs :
              TakesAway(Upto(Trees, pendingEvs, slid, k - 1), pendingEvs[k], n)
<1> DEFINE t == Trees
<1>1. t \in Folded /\ Drain(t) /\ t.typed = typed /\ \A k \in LiveNodes : SoundAt(t, k)
  BY TreesAreFolded DEF LiveInv, Key, Trees
<1>2. pendingEvs \in Seq(Event) /\ DOMAIN pendingEvs = 1..Len(pendingEvs)
  BY PendingAreTheirs
<1> HIDE DEF t
<1>3. CASE Become(t)
  <2>1. typed' = t.typed
    BY <1>3 DEF Become
  <2>. QED BY <1>1, <2>1
<1>4. ASSUME NEW slid \in Slides(pendingEvs), Become(ApplyAll(t, pendingEvs, slid)), pendingEvs' = <<>>,
             \A k \in LiveNodes : ApplyAll(t, pendingEvs, slid).typed[k] # t.typed[k] =>
                \E i \in 1..Len(pendingEvs) : TakesAway(Upto(t, pendingEvs, slid, i - 1), pendingEvs[i], k)
      PROVE  pendingEvs' # pendingEvs /\ \E s \in Slides(pendingEvs), k \in DOMAIN pendingEvs :
                TakesAway(Upto(t, pendingEvs, s, k - 1), pendingEvs[k], n)
  <2>1. typed' = ApplyAll(t, pendingEvs, slid).typed
    BY <1>4 DEF Become
  <2>2. PICK i \in 1..Len(pendingEvs) : TakesAway(Upto(t, pendingEvs, slid, i - 1), pendingEvs[i], n)
    BY <1>1, <1>4, <2>1
  <2>3. pendingEvs # <<>>
    BY <1>2, <2>2
  <2>. QED BY <1>2, <1>4, <2>2, <2>3
<1>5. pendingEvs' # pendingEvs /\ \E s \in Slides(pendingEvs), k \in DOMAIN pendingEvs :
         TakesAway(Upto(t, pendingEvs, s, k - 1), pendingEvs[k], n)
  <2>1. \/ Become(t)
        \/ \E slid \in Slides(pendingEvs) :
              /\ Become(ApplyAll(t, pendingEvs, slid))
              /\ \A k \in LiveNodes : ApplyAll(t, pendingEvs, slid).typed[k] # t.typed[k] =>
                    \E i \in 1..Len(pendingEvs) : TakesAway(Upto(t, pendingEvs, slid, i - 1), pendingEvs[i], k)
              /\ pendingEvs' = <<>>
    BY <1>1, DrainCases
  <2>2. CASE Become(t)
    BY <1>1, <2>2 DEF Become
  <2>3. ASSUME NEW slid \in Slides(pendingEvs), Become(ApplyAll(t, pendingEvs, slid)), pendingEvs' = <<>>,
               \A k \in LiveNodes : ApplyAll(t, pendingEvs, slid).typed[k] # t.typed[k] =>
                  \E i \in 1..Len(pendingEvs) : TakesAway(Upto(t, pendingEvs, slid, i - 1), pendingEvs[i], k)
        PROVE  pendingEvs' # pendingEvs /\ \E s \in Slides(pendingEvs), k \in DOMAIN pendingEvs :
                  TakesAway(Upto(t, pendingEvs, s, k - 1), pendingEvs[k], n)
    BY <1>4, <2>3
  <2>. QED BY <2>1, <2>2, <2>3
<1>. QED BY <1>5 DEF t

LEMMA ReceiveTakesOnlySo ==
    ASSUME LiveInv, ReceiveEvent, NEW n \in LiveNodes, typed'[n] # typed[n]
    PROVE  wire' # wire /\ TakesAway(Trees, Head(wire), n)
<1> DEFINE ev == Head(wire)
<1>1. wire' # wire
  BY ReceiveEffect
<1>2. ev # Echo /\ \E slid \in BOOLEAN :
         Become(ApplyRow([Trees EXCEPT !.hole = @ \cup ({ev.node} \cap Foreign(pendingEvs))], slid, ev))
  BY DEF ReceiveEvent
<1>3. PICK slid \in BOOLEAN :
         Become(ApplyRow([Trees EXCEPT !.hole = @ \cup ({ev.node} \cap Foreign(pendingEvs))], slid, ev))
  BY <1>2
<1> DEFINE t == [Trees EXCEPT !.hole = @ \cup ({ev.node} \cap Foreign(pendingEvs))]
<1>4. t = [Trees EXCEPT !.hole = @ \cup ({ev.node} \cap Foreign(pendingEvs))] /\ Become(ApplyRow(t, slid, ev))
      /\ ev = Head(wire)
  BY <1>3
<1> HIDE DEF t, ev
<1>5. t.mem = mem /\ t.up = up /\ t.typed = typed /\ KeptBy(t, Trees', ev)
  BY <1>2, <1>4, FoldedIn
<1>6. Trees'.typed = typed'
  BY DEF Trees
<1>7. TakesAway(t, ev, n)
  BY <1>5, <1>6 DEF KeptBy
<1>8. TakesAway(Trees, ev, n)
  BY <1>5, <1>7 DEF TakesAway, InView, Trees
<1>. QED BY <1>1, <1>8 DEF ev

LEMMA EditsGoOnlySoByStep == LiveInv /\ [LiveNext]_vars => [EditsGoOnlySo]_vars
<1> SUFFICES ASSUME LiveInv, LiveNext PROVE EditsGoOnlySo
  OBVIOUS
<1>1. SUFFICES ASSUME NEW n \in LiveNodes, typed[n] # Absent, typed'[n] # typed[n], NotAnEdit
               PROVE  \/ db'[n] \in {typed[n], NoRow, Dead}
                      \/ wire' # wire /\ TakesAway(Trees, Head(wire), n)
                      \/ pendingEvs' # pendingEvs /\ \E slid \in Slides(pendingEvs), k \in DOMAIN pendingEvs :
                            TakesAway(Upto(Trees, pendingEvs, slid, k - 1), pendingEvs[k], n)
  BY DEF EditsGoOnlySo
<1>2. CASE Feed
  BY <1>1, <1>2 DEF Feed, OthersCommit, Register, Cut
<1>3. CASE Update
  <2>1. ASSUME ReceiveEvent PROVE wire' # wire /\ TakesAway(Trees, Head(wire), n)
    BY <1>1, <2>1, ReceiveTakesOnlySo
  <2>2. ASSUME FlushLands \/ ResyncSaves PROVE db'[n] \in {typed[n], NoRow, Dead}
    BY <1>1, <2>2, SaveTakesOnlySo DEF FlushLands, ResyncSaves
  <2>3. ASSUME ResyncLoads PROVE FALSE
    <3>1. Dirty = {}
      BY <2>3 DEF ResyncLoads, LiveInv
    <3>. QED BY <1>1, <3>1 DEF LiveInv, SoundAt, Trees, Dirty, Changed
  <2>4. ASSUME Attempt \/ ResyncFails \/ LoadFails \/ FlushFails \/ FlushIdle PROVE typed' = typed
    BY <2>4 DEF Attempt, StartFeed, Reopen, ReopenFails, ResyncFails, LoadFails, FlushFails, FlushIdle, SaveFails
  <2>. QED BY <1>1, <1>3, <2>1, <2>2, <2>3, <2>4 DEF Update, Resyncing
<1>4. ASSUME NEW k \in Holds, Hold(k)
      PROVE  pendingEvs' # pendingEvs /\ \E slid \in Slides(pendingEvs), i \in DOMAIN pendingEvs :
                TakesAway(Upto(Trees, pendingEvs, slid, i - 1), pendingEvs[i], n)
  BY <1>1, <1>4, TextAssumption, DrainTakesOnlySo DEF Hold
<1>5. ASSUME Release
      PROVE  pendingEvs' # pendingEvs /\ \E slid \in Slides(pendingEvs), i \in DOMAIN pendingEvs :
                TakesAway(Upto(Trees, pendingEvs, slid, i - 1), pendingEvs[i], n)
  BY <1>1, <1>5, DrainTakesOnlySo DEF Release
<1>6. CASE Click
  BY <1>1, <1>6 DEF Click
<1>. QED BY <1>1, <1>2, <1>3, <1>4, <1>5, <1>6 DEF NotAnEdit

\* Unsaved text stays on the screen and due to be written, and nothing but the user's
\* edits counts as changed; a step that is not the user's takes unsaved text away only
\* when a save has written it or finds the row deleted, or when an event deletes the
\* node, or a node it is shown below, or puts such a one below what is not shown, or
\* says what was typed (livesync.go:329, 359, 374, 119, 265).
THEOREM EditsAreAlwaysSafe == LiveSpec => EditsAreSafe
<1>1. LiveInv => LiveTypeOK /\ EditsAreKept /\ OnlyEditsAreWritten
  <2> SUFFICES ASSUME LiveInv PROVE LiveTypeOK /\ EditsAreKept /\ OnlyEditsAreWritten
    OBVIOUS
  <2>1. ASSUME NEW n \in LiveNodes, typed[n] # Absent PROVE mem[n] = typed[n] /\ n \in Dirty
    BY <2>1 DEF LiveInv, SoundAt, Trees, Dirty, Changed
  <2>2. ASSUME NEW n \in Dirty PROVE typed[n] = mem[n]
    BY DEF LiveInv, SoundAt, Trees, Dirty, Changed
  <2>. QED BY <2>1, <2>2 DEF LiveInv, EditsAreKept, OnlyEditsAreWritten
<1>2. LiveInv /\ [LiveNext]_vars => [EditsGoOnlySo]_vars
  BY EditsGoOnlySoByStep
<1>. QED BY <1>1, <1>2, LiveInvariance, PTL DEF LiveSpec, EditsAreSafe

\* While there is something to write a flush is armed or the bar says that the last
\* one failed, and an editor at rest shows no row with another text than the stored
\* one, but for those in hole (livesync.go:84-135).
THEOREM AtRestTheStoreIsShown == LiveSpec => []ShowsTheStore
<1>1. LiveInv => ShowsTheStore
  <2> SUFFICES ASSUME LiveInv PROVE ShowsTheStore
    OBVIOUS
  <2>1. ASSUME AtRest, NEW n \in LiveNodes \ hole, mem[n] # Absent PROVE n \in Dirty \cup dels \/ mem[n] = db[n]
    <3>1. Hears /\ n \notin Foreign(wire) \cup Foreign(pendingEvs)
      BY <2>1, EmptySays DEF AtRest, Hears
    <3>2. n \in dels \/ HasRead(Trees, n, db[n])
      BY <2>1, <3>1 DEF LiveInv, ReadAt
    <3>3. SoundAt(Trees, n) /\ mem[n] \in LiveTexts
      BY <2>1 DEF LiveInv, LiveTypeOK
    <3>. QED BY <2>1, <3>2, <3>3 DEF HasRead, Dirty, Changed, ChangedIn, SoundAt, Trees
  <2>. QED BY <2>1 DEF ShowsTheStore, ShownIsStored, LiveInv
<1>. QED BY <1>1, LiveInvariance, PTL
=============================================================================
