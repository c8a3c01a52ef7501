----------------------------- MODULE RunsProofs -----------------------------
(***************************************************************************)
(* Commands started from the outline, for any number of sessions, batches  *)
(* and keys.  Messages name the node and not the session, and any of them  *)
(* may be handled at any time; what keeps a run together is the token that *)
(* a command and its message are, and the order in which what a session    *)
(* printed lies on the screen, in the message, in the channel and in the   *)
(* stream.                                                                 *)
(***************************************************************************)
EXTENDS Runs, TLAPS, SequenceTheorems

-----------------------------------------------------------------------------
(* Sequences.                                                              *)

\* What is left of a sequence when one of it is taken out.
LEMMA TakesOut ==
    ASSUME NEW S, NEW q \in Seq(S), NEW i \in DOMAIN q
    PROVE  /\ RemoveAt(q, i) \in Seq(S) /\ Len(RemoveAt(q, i)) = Len(q) - 1
           /\ \A j \in DOMAIN RemoveAt(q, i) :
                RemoveAt(q, i)[j] = IF j < i THEN q[j] ELSE q[j + 1]
           /\ \A j \in DOMAIN RemoveAt(q, i) : (IF j < i THEN j ELSE j + 1) \in DOMAIN q
           /\ \A k \in DOMAIN q : k # i => \E j \in DOMAIN RemoveAt(q, i) : RemoveAt(q, i)[j] = q[k]
  <1> DEFINE r == RemoveAt(q, i)
  <1>1. Len(q) \in Nat /\ i \in 1..Len(q) /\ i - 1 \in Nat /\ i + 1 \in Nat
    OBVIOUS
  <1> DEFINE low  == SubSeq(q, 1, i - 1)
             high == SubSeq(q, i + 1, Len(q))
  <1>2. low \in Seq(S) /\ Len(low) = i - 1 /\ \A j \in 1..(i - 1) : low[j] = q[j]
    BY <1>1
  <1>3. high \in Seq(S) /\ Len(high) = Len(q) - i /\ \A j \in 1..(Len(q) - i) : high[j] = q[i + j]
    BY <1>1
  <1>4. r = low \o high
    BY DEF RemoveAt
  <1> HIDE DEF r, low, high
  <1>5. r \in Seq(S) /\ Len(r) = Len(q) - 1
    BY <1>1, <1>2, <1>3, <1>4, SMTT(40)
  <1>6. ASSUME NEW j \in 1..(Len(q) - 1) PROVE r[j] = IF j < i THEN q[j] ELSE q[j + 1]
    <2>1. r[j] = IF j <= Len(low) THEN low[j] ELSE high[j - Len(low)]
      BY <1>1, <1>2, <1>3, <1>4, SMTT(40)
    <2>2. CASE j < i
      BY <1>1, <1>2, <2>1, <2>2
    <2>3. CASE ~(j < i)
      <3>1. j - (i - 1) \in 1..(Len(q) - i) /\ i + (j - (i - 1)) = j + 1
        BY <1>1, <2>3
      <3>2. r[j] = high[j - (i - 1)]
        BY <1>1, <1>2, <2>1, <2>3
      <3> QED  BY <1>3, <2>3, <3>1, <3>2
    <2> QED  BY <2>2, <2>3
  <1>7. DOMAIN r = 1..(Len(q) - 1)
    BY <1>1, <1>5
  <1>8. ASSUME NEW k \in DOMAIN q, k # i PROVE \E j \in DOMAIN r : r[j] = q[k]
    <2>1. CASE k < i
      <3>1. k \in DOMAIN r /\ r[k] = q[k]
        BY <1>1, <1>6, <1>7, <2>1
      <3> QED  BY <3>1
    <2>2. CASE k > i
      <3>1. k - 1 \in DOMAIN r /\ r[k - 1] = q[k]
        BY <1>1, <1>6, <1>7, <2>2
      <3> QED  BY <3>1
    <2> QED  BY <1>1, <1>8, <2>1, <2>2
  <1>9. \A j \in DOMAIN r : (IF j < i THEN j ELSE j + 1) \in DOMAIN q
    BY <1>1, <1>7
  <1> QED  BY <1>5, <1>6, <1>7, <1>8, <1>9 DEF r

\* Two of what is left were two before.
LEMMA TakesOutApart ==
    ASSUME NEW S, NEW q \in Seq(S), NEW i \in DOMAIN q, NEW j \in DOMAIN RemoveAt(q, i), NEW k \in DOMAIN RemoveAt(q, i), j # k
    PROVE  \E m, n \in DOMAIN q : m # n /\ m # i /\ n # i /\ RemoveAt(q, i)[j] = q[m] /\ RemoveAt(q, i)[k] = q[n]
  <1> DEFINE m == IF j < i THEN j ELSE j + 1
             n == IF k < i THEN k ELSE k + 1
  <1>1. m \in DOMAIN q /\ n \in DOMAIN q /\ RemoveAt(q, i)[j] = q[m] /\ RemoveAt(q, i)[k] = q[n]
    BY TakesOut
  <1>2. j \in Nat /\ k \in Nat /\ i \in Nat
    <2>1. RemoveAt(q, i) \in Seq(S)
      BY TakesOut
    <2> QED  BY <2>1
  <1>3. m # n /\ m # i /\ n # i
    BY <1>2
  <1> QED  BY <1>1, <1>3

\* Sums: where one of the numbers is one more or one less, the sums from there on are.
LEMMA OneMore ==
    ASSUME NEW counts \in Seq(Nat), NEW s \in DOMAIN counts, NEW top \in Nat, NEW sum \in [0..Len(counts) -> 0..top],
           AddsUp(sum, counts), sum[Len(counts)] + 1 <= top
    PROVE  \E more \in [0..Len(counts) -> 0..top] :
              AddsUp(more, [counts EXCEPT ![s] = @ + 1]) /\ more[Len(counts)] = sum[Len(counts)] + 1
  <1> DEFINE more == [k \in 0..Len(counts) |-> IF k < s THEN sum[k] ELSE sum[k] + 1]
             new == [counts EXCEPT ![s] = @ + 1]
  <1>0. Len(counts) \in Nat /\ s \in 1..Len(counts) /\ Len(counts) \in 0..Len(counts)
    OBVIOUS
  <1>a. \A k \in 0..Len(counts) : sum[k] \in 0..top
    OBVIOUS
  <1>1. \A k \in 0..Len(counts) : sum[k] \in Nat /\ sum[k] <= sum[Len(counts)]
    BY <1>0, <1>a DEF AddsUp
  <1>2. Len(new) = Len(counts) /\ \A k \in 1..Len(counts) : new[k] = (IF k = s THEN counts[k] + 1 ELSE counts[k]) /\ counts[k] \in Nat
    BY <1>0, <1>1
  <1> HIDE DEF new
  <1>3. more \in [0..Len(counts) -> 0..top]
    <2>1. \A k \in 0..Len(counts) : (IF k < s THEN sum[k] ELSE sum[k] + 1) \in 0..top
      BY <1>0, <1>1, <1>a, SMTT(40)
    <2> QED  BY <2>1
  <1>4. more[0] = 0 /\ more[Len(counts)] = sum[Len(counts)] + 1
    BY <1>0, <1>1 DEF AddsUp
  <1>5. \A k \in 1..Len(counts) : more[k] = more[k - 1] + new[k]
    <2> SUFFICES ASSUME NEW k \in 1..Len(counts) PROVE more[k] = more[k - 1] + new[k]
      OBVIOUS
    <2>1. k \in 0..Len(counts) /\ k - 1 \in 0..Len(counts) /\ sum[k] = sum[k - 1] + counts[k]
      BY <1>0 DEF AddsUp
    <2>2. sum[k] \in Nat /\ sum[k - 1] \in Nat /\ counts[k] \in Nat
      BY <1>1, <2>1, SMTT(40)
    <2>3. more[k] = (IF k < s THEN sum[k] ELSE sum[k] + 1) /\ more[k - 1] = (IF k - 1 < s THEN sum[k - 1] ELSE sum[k - 1] + 1)
      BY <2>1
    <2>4. new[k] = IF k = s THEN counts[k] + 1 ELSE counts[k]
      BY <1>2
    <2>5. k \in Nat /\ s \in Nat
      BY <1>0
    <2> HIDE DEF more
    <2>6. CASE k < s
      BY <2>1, <2>2, <2>3, <2>4, <2>5, <2>6
    <2>7. CASE k = s
      BY <2>1, <2>2, <2>3, <2>4, <2>5, <2>7
    <2>8. CASE k > s
      <3>1. ~(k < s) /\ ~(k - 1 < s) /\ k # s
        BY <2>5, <2>8
      <3> QED  BY <2>1, <2>2, <2>3, <2>4, <3>1, SMTT(40)
    <2> QED  BY <2>5, <2>6, <2>7, <2>8
  <1>6. \A j, k \in 0..Len(counts) : j <= k => more[j] <= more[k]
    BY <1>0, <1>1, SMTT(40) DEF AddsUp
  <1> HIDE DEF more
  <1> QED  BY <1>2, <1>3, <1>4, <1>5, <1>6 DEF AddsUp, new

LEMMA OneLess ==
    ASSUME NEW counts \in Seq(Nat), NEW s \in DOMAIN counts, NEW top \in Nat, NEW sum \in [0..Len(counts) -> 0..top],
           AddsUp(sum, counts), counts[s] > 0
    PROVE  \E less \in [0..Len(counts) -> 0..top] :
              AddsUp(less, [counts EXCEPT ![s] = @ - 1]) /\ less[Len(counts)] = sum[Len(counts)] - 1
  <1> DEFINE less == [k \in 0..Len(counts) |-> IF k < s THEN sum[k] ELSE sum[k] - 1]
             new == [counts EXCEPT ![s] = @ - 1]
  <1>0. Len(counts) \in Nat /\ s \in 1..Len(counts) /\ counts[s] \in Nat
    OBVIOUS
  <1>a. \A k \in 0..Len(counts) : sum[k] \in 0..top
    OBVIOUS
  <1>1. \A k \in 0..Len(counts) : sum[k] \in Nat /\ sum[k] <= top
    BY <1>0, <1>a
  <1>2. Len(new) = Len(counts) /\ \A k \in 1..Len(counts) : new[k] = (IF k = s THEN counts[k] - 1 ELSE counts[k]) /\ counts[k] \in Nat
    BY <1>0, <1>1
  <1>3. s - 1 \in 0..Len(counts) /\ s \in 0..Len(counts) /\ sum[s] = sum[s - 1] + counts[s]
    BY <1>0, <1>1 DEF AddsUp
  <1>4. \A k \in 0..Len(counts) : k >= s => sum[k] >= sum[s]
    BY <1>3 DEF AddsUp
  <1>5. \A k \in 0..Len(counts) : k < s => sum[k] <= sum[s - 1]
    BY <1>0, <1>1, <1>3 DEF AddsUp
  <1>6. sum[s - 1] \in Nat /\ sum[s] \in Nat
    BY <1>0, <1>1, <1>3
  <1> HIDE DEF new
  <1>7. less \in [0..Len(counts) -> 0..top]
    <2>0. sum[s] >= 1
      BY <1>0, <1>3, <1>6
    <2>1. \A k \in 0..Len(counts) : (IF k < s THEN sum[k] ELSE sum[k] - 1) \in 0..top
      <3> SUFFICES ASSUME NEW k \in 0..Len(counts) PROVE (IF k < s THEN sum[k] ELSE sum[k] - 1) \in 0..top
        OBVIOUS
      <3>1. sum[k] \in Nat /\ sum[k] <= top /\ (k >= s => sum[k] >= 1) /\ k \in Nat /\ s \in Nat
        <4>1. k >= s => sum[k] >= sum[s]
          BY <1>4
        <4> QED  BY <1>0, <1>1, <1>6, <2>0, <4>1
      <3> QED  BY <3>1
    <2> QED  BY <2>1
  <1>8. less[0] = 0 /\ less[Len(counts)] = sum[Len(counts)] - 1
    BY <1>0, <1>1 DEF AddsUp
  <1>9. \A k \in 1..Len(counts) : less[k] = less[k - 1] + new[k]
    <2> SUFFICES ASSUME NEW k \in 1..Len(counts) PROVE less[k] = less[k - 1] + new[k]
      OBVIOUS
    <2>1. k \in 0..Len(counts) /\ k - 1 \in 0..Len(counts) /\ sum[k] = sum[k - 1] + counts[k]
      BY <1>0 DEF AddsUp
    <2>2. sum[k] \in Nat /\ sum[k - 1] \in Nat /\ counts[k] \in Nat
      BY <1>1, <2>1, SMTT(40)
    <2>3. less[k] = (IF k < s THEN sum[k] ELSE sum[k] - 1) /\ less[k - 1] = (IF k - 1 < s THEN sum[k - 1] ELSE sum[k - 1] - 1)
      BY <2>1
    <2>4. new[k] = IF k = s THEN counts[k] - 1 ELSE counts[k]
      BY <1>2
    <2>5. k \in Nat /\ s \in Nat
      BY <1>0
    <2> HIDE DEF less
    <2>6. CASE k < s
      BY <2>1, <2>2, <2>3, <2>4, <2>5, <2>6
    <2>7. CASE k = s
      BY <2>1, <2>2, <2>3, <2>4, <2>5, <2>7
    <2>8. CASE k > s
      <3>1. ~(k < s) /\ ~(k - 1 < s) /\ k # s
        BY <2>5, <2>8
      <3> QED  BY <2>1, <2>2, <2>3, <2>4, <3>1, SMTT(40)
    <2> QED  BY <2>5, <2>6, <2>7, <2>8
  <1>10. \A j, k \in 0..Len(counts) : j <= k => less[j] <= less[k]
    <2> SUFFICES ASSUME NEW j \in 0..Len(counts), NEW k \in 0..Len(counts), j <= k PROVE less[j] <= less[k]
      OBVIOUS
    <2>1. sum[j] <= sum[k] /\ sum[j] \in Nat /\ sum[k] \in Nat
      BY <1>0, <1>1 DEF AddsUp
    <2>2. CASE j < s /\ k >= s
      BY <1>0, <1>1, <1>3, <1>4, <1>5, <1>6, <2>1, <2>2, SMTT(40)
    <2>3. CASE ~(j < s /\ k >= s)
      BY <1>0, <1>1, <2>1, <2>3, SMTT(40)
    <2> QED  BY <2>2, <2>3
  <1> HIDE DEF less
  <1> QED  BY <1>2, <1>7, <1>8, <1>9, <1>10 DEF AddsUp, new

LEMMA OneAnew ==
    ASSUME NEW counts \in Seq(Nat), NEW top \in Nat, NEW sum \in [0..Len(counts) -> 0..top],
           AddsUp(sum, counts), sum[Len(counts)] <= top
    PROVE  \E more \in [0..Len(Append(counts, 1)) -> 0..top + 1] :
              AddsUp(more, Append(counts, 1)) /\ more[Len(Append(counts, 1))] = sum[Len(counts)] + 1
  <1> DEFINE n == Len(counts)
             new == Append(counts, 1)
             more == [k \in 0..(n + 1) |-> IF k <= n THEN sum[k] ELSE sum[n] + 1]
  <1>1. n \in Nat /\ \A k \in 0..n : sum[k] \in Nat /\ sum[k] <= top /\ sum[k] <= sum[n]
    BY DEF AddsUp
  <1>2. Len(new) = n + 1 /\ new[n + 1] = 1 /\ \A k \in 1..n : new[k] = counts[k]
    OBVIOUS
  <1> HIDE DEF new
  <1>3. more \in [0..(n + 1) -> 0..top + 1] /\ more[0] = 0 /\ more[n + 1] = sum[n] + 1
    BY <1>1 DEF AddsUp
  <1>4. \A k \in 1..(n + 1) : more[k] = more[k - 1] + new[k]
    BY <1>1, <1>2 DEF AddsUp
  <1>5. \A j, k \in 0..(n + 1) : j <= k => more[j] <= more[k]
    BY <1>1 DEF AddsUp
  <1> HIDE DEF more
  <1> QED  BY <1>1, <1>2, <1>3, <1>4, <1>5 DEF AddsUp, new

\* What is in a sequence that got one more.
LEMMA Appended ==
    ASSUME NEW S, NEW q \in Seq(S), NEW e \in S, NEW r, r = Append(q, e)
    PROVE  /\ r \in Seq(S) /\ Len(q) \in Nat /\ Len(r) = Len(q) + 1
           /\ \A i \in DOMAIN q : i \in DOMAIN r /\ r[i] = q[i]
           /\ \A i \in DOMAIN r : (i \in DOMAIN q /\ r[i] = q[i]) \/ (i = Len(q) + 1 /\ r[i] = e)
           /\ Len(q) + 1 \in DOMAIN r /\ r[Len(q) + 1] = e
  OBVIOUS

\* Numbers that go on from d, when the first of them is taken.
LEMMA GoesOn ==
    ASSUME NEW q \in Seq(Int), NEW d \in Int, q # <<>>, \A i \in DOMAIN q : q[i] = d + i
    PROVE  /\ Head(q) = d + 1 /\ Tail(q) \in Seq(Int) /\ Len(Tail(q)) = Len(q) - 1
           /\ \A i \in DOMAIN Tail(q) : Tail(q)[i] = d + 1 + i
  <1>1. Len(q) \in Nat /\ Len(q) > 0 /\ Tail(q) \in Seq(Int) /\ Len(Tail(q)) = Len(q) - 1 /\ Head(q) = q[1]
    OBVIOUS
  <1>2. \A i \in DOMAIN Tail(q) : Tail(q)[i] = q[i + 1] /\ i + 1 \in DOMAIN q /\ i \in Nat
    BY <1>1
  <1> QED  BY <1>1, <1>2

\* One more number.
LEMMA GetsOn ==
    ASSUME NEW q \in Seq(Int), NEW d \in Int, \A i \in DOMAIN q : q[i] = d + i, NEW n \in Int, n = d + Len(q) + 1
    PROVE  \A i \in DOMAIN Append(q, n) : Append(q, n)[i] = d + i
  <1>1. Len(q) \in Nat /\ Len(Append(q, n)) = Len(q) + 1
    OBVIOUS
  <1>2. \A i \in DOMAIN Append(q, n) : i \in Nat /\ Append(q, n)[i] = IF i \in DOMAIN q THEN q[i] ELSE n
    BY <1>1
  <1>3. \A i \in DOMAIN Append(q, n) : i \in DOMAIN q \/ i = Len(q) + 1
    BY <1>1
  <1> QED  BY <1>1, <1>2, <1>3, SMTT(40)

\* The end after the last number.
LEMMA EndsThen ==
    ASSUME NEW q \in Seq(Int), NEW d \in Int, \A i \in DOMAIN q : q[i] = d + i
    PROVE  EndsWith(Append(q, Done), d, d + Len(q))
  <1> DEFINE r == Append(q, Done)
  <1>1. Len(q) \in Nat /\ Len(r) = Len(q) + 1 /\ r # <<>> /\ r[Len(q) + 1] = Done /\ \A i \in 1..Len(q) : r[i] = q[i]
    OBVIOUS
  <1> HIDE DEF r
  <1>2. d + Len(r) - 1 = d + Len(q) /\ 1..Len(r) - 1 = DOMAIN q
    BY <1>1
  <1>3. \A i \in 1..Len(r) - 1 : r[i] = d + i
    BY <1>1, <1>2
  <1> QED  BY <1>1, <1>2, <1>3 DEF EndsWith, r

\* What is left once the first is taken.
LEMMA EndsStill ==
    ASSUME NEW q \in Seq(Int), NEW d \in Nat, NEW n \in Int, EndsWith(q, d, n)
    PROVE  /\ Len(q) \in Nat /\ Len(q) > 0 /\ Tail(q) \in Seq(Int) /\ Len(Tail(q)) = Len(q) - 1
           /\ Head(q) = Done => d = n /\ Tail(q) = <<>>
           /\ Head(q) # Done => Head(q) = d + 1 /\ EndsWith(Tail(q), d + 1, n)
  <1>1. Len(q) \in Nat /\ Len(q) > 0 /\ Tail(q) \in Seq(Int) /\ Len(Tail(q)) = Len(q) - 1 /\ Head(q) = q[1]
    BY DEF EndsWith
  <1>2. \A i \in 1..(Len(q) - 1) : Tail(q)[i] = q[i + 1]
    BY <1>1
  <1>3. q[Len(q)] = Done /\ d + Len(q) - 1 = n /\ \A i \in 1..Len(q) - 1 : q[i] = d + i
    BY DEF EndsWith
  <1>4. CASE Len(q) = 1
    <2>1. d = n
      BY <1>3, <1>4
    <2>2. Tail(q) = <<>>
      <3> DEFINE t == Tail(q)
      <3>1. t \in Seq(Int) /\ Len(t) = 0
        BY <1>1, <1>4
      <3> HIDE DEF t
      <3>2. t = <<>>
        BY <3>1
      <3> QED  BY <3>2 DEF t
    <2> QED  BY <1>1, <1>3, <1>4, <2>1, <2>2
  <1>5. CASE Len(q) > 1
    <2>1. Head(q) = d + 1 /\ d + 1 # Done
      BY <1>1, <1>3, <1>5 DEF Done
    <2> DEFINE r == Tail(q)
    <2>2. r # <<>> /\ r[Len(r)] = Done
      <3>1. Len(r) \in 1..(Len(q) - 1) /\ Len(r) + 1 = Len(q)
        BY <1>1, <1>5
      <3>2. r[Len(r)] = q[Len(r) + 1]
        BY <1>2, <3>1
      <3>3. r # <<>>
        <4>1. r \in Seq(Int) /\ Len(r) # 0
          BY <1>1, <3>1
        <4> HIDE DEF r
        <4> QED  BY <4>1
      <3> QED  BY <1>3, <3>1, <3>2, <3>3
    <2>3. d + 1 + Len(r) - 1 = n
      BY <1>1, <1>3
    <2>4. ASSUME NEW i \in 1..Len(r) - 1 PROVE r[i] = d + 1 + i
      <3>1. i \in 1..(Len(q) - 1) /\ i + 1 \in 1..(Len(q) - 1)
        BY <1>1
      <3>2. r[i] = q[i + 1] /\ q[i + 1] = d + (i + 1)
        BY <1>2, <1>3, <3>1
      <3> QED  BY <3>1, <3>2
    <2>5. EndsWith(r, d + 1, n)
      <3> HIDE DEF r
      <3> QED  BY <2>2, <2>3, <2>4 DEF EndsWith
    <2> QED  BY <1>1, <2>1, <2>5
  <1> QED  BY <1>1, <1>4, <1>5

-----------------------------------------------------------------------------
(* A step of one process.                                                  *)

\* The run in flight, and that nothing is when there is none.
LEMMA InFlight ==
    ASSUME NothingIsOutput, RunsInv
    PROVE  /\ Len(sessions) \in Nat /\ Ids = 1..Len(sessions) /\ Live \in Nat
           /\ Live # 0 => /\ band \in Bands /\ band # NoBand /\ band.live = Live /\ Live = Len(sessions) /\ Live \in Ids
                          /\ band.scr \in ScreenTexts /\ band.scr # NoScreen
           /\ Live = 0 => band = NoBand \/ (band \in Bands /\ band.live = 0)
  <1>1. Len(sessions) \in Nat /\ Ids = 1..Len(sessions)
    BY DEF RunsInv, ShapeInv, Ids
  <1>2. band \in Bands \cup {NoBand} /\ (band # NoBand => band.live \in {0, Len(sessions)} /\ (band.live # 0 => band.scr # NoScreen))
    BY DEF RunsInv, BandInv
  <1>3. band # NoBand => band \in Bands /\ band.live \in Nat /\ band.scr \in ScreenTexts \cup {NoScreen}
    BY <1>2 DEF Bands
  <1>4. Live = IF band = NoBand THEN 0 ELSE band.live
    BY DEF Live
  <1> QED  BY <1>1, <1>2, <1>3, <1>4

\* A step of a process that starts nothing and hides no end of it.
LEMMA ProcessStep ==
    ASSUME NothingIsOutput, RunsInv, NEW s \in Ids, NEW q \in Processes, sessions' = [sessions EXCEPT ![s] = q],
           UNCHANGED <<owner, band, filed, readers, inbox, disk, past, quitting, crossed, rewound>>,
           q.killed = sessions[s].killed, q.running => sessions[s].running /\ q.open /\ \A i \in DOMAIN q.events : q.events[i] # Done,
           q.printed # sessions[s].printed => sessions[s].running, EndComes', OwnStream'
    PROVE  RunsInv'
  <1>0. UNCHANGED <<owner, band, filed, readers, inbox, disk, past, quitting, crossed, rewound, Live>>
    BY DEF Live
  <1>1. sessions' \in Seq(Processes) /\ Len(sessions') = Len(sessions) /\ Ids' = Ids
        /\ \A t \in Ids : sessions'[t] = IF t = s THEN q ELSE sessions[t]
    BY DEF RunsInv, ShapeInv, Ids
  <1>2. \A t \in Ids : /\ sessions'[t].killed = sessions[t].killed
                       /\ sessions'[t].running => sessions[t].running
                       /\ sessions'[t].printed # sessions[t].printed => sessions[t].running
    BY <1>1
  <1>3. ShapeInv'
    BY <1>0, <1>1 DEF RunsInv, ShapeInv
  <1>4. BandInv'
    BY <1>0, <1>1 DEF RunsInv, BandInv
  <1>5. OwnerInv' /\ FiledInv'
    BY <1>0 DEF RunsInv, OwnerInv, FiledInv
  <1>6. HandedOn'
    BY <1>0, <1>1 DEF RunsInv, HandedOn
  <1>7. OneHandles'
    BY <1>0, <1>1 DEF RunsInv, OneHandles
  <1>8. NothingRunsUnseen'
    BY <1>0, <1>1, <1>2 DEF RunsInv, NothingRunsUnseen
  <1>9. RunIsRead'
    BY <1>0 DEF RunsInv, RunIsRead
  <1>10. BandIsItsOwn'
    <2> SUFFICES ASSUME ~crossed, band # NoBand, sessions # <<>>, band.scr # NoScreen
                 PROVE  LET t == Len(sessions)
                        IN  /\ \A i \in DOMAIN band.scr : band.scr[i] = <<t, i>>
                            /\ band.live = 0 /\ ~sessions'[t].killed => Len(band.scr) = sessions'[t].printed
      <3>1. sessions' # <<>> => sessions # <<>>
        BY <1>1
      <3> QED  BY <1>0, <1>1, <3>1 DEF BandIsItsOwn
    <2> DEFINE t == Len(sessions)
    <2>1. t \in Ids
      BY InFlight DEF RunsInv, ShapeInv
    <2>2. /\ \A i \in DOMAIN band.scr : band.scr[i] = <<t, i>>
          /\ band.live = 0 /\ ~sessions[t].killed => Len(band.scr) = sessions[t].printed
      BY DEF RunsInv, BandIsItsOwn
    <2>3. band.live = 0 /\ ~sessions[t].killed => ~sessions[t].running
      <3>1. band.live = 0 => Live # t
        BY <2>1, InFlight DEF Live
      <3> QED  BY <2>1, <3>1 DEF RunsInv, NothingRunsUnseen
    <2>4. sessions'[t].killed = sessions[t].killed /\ (sessions'[t].printed # sessions[t].printed => sessions[t].running)
      BY <1>2, <2>1
    <2> QED  BY <2>2, <2>3, <2>4
  <1> QED  BY <1>3, <1>4, <1>5, <1>6, <1>7, <1>8, <1>9, <1>10 DEF RunsInv

\* A step of another session says nothing of the run in flight.
LEMMA OthersStep ==
    ASSUME RunsInv, NEW s \in Ids, NEW q, sessions' = [sessions EXCEPT ![s] = q], Live # s,
           UNCHANGED <<band, inbox, quitting, crossed>>, NothingIsOutput
    PROVE  EndComes' /\ OwnStream'
  <1>1. Live' = Live /\ (Live # 0 => Live \in Ids /\ sessions'[Live] = sessions[Live])
    BY InFlight DEF Live, RunsInv, ShapeInv, Ids
  <1>2. CASE Live = 0
    BY <1>1, <1>2 DEF EndComes, OwnStream
  <1>3. CASE Live # 0
    <2>1. EndComes'
      BY <1>1, <1>3 DEF RunsInv, EndComes
    <2>2. FailedRun(Live, band.scr)' <=> FailedRun(Live, band.scr)
      BY <1>1, <1>3 DEF FailedRun
    <2>3. GoodRun(Live, band.scr)' <=> GoodRun(Live, band.scr)
      BY <1>1, <1>3 DEF GoodRun, Left
    <2> QED  BY <1>1, <2>1, <2>2, <2>3 DEF RunsInv, OwnStream
  <1> QED  BY <1>2, <1>3

\* What the run in flight is while the editor goes on: not killed, its end to come.
LEMMA InFlightEnds ==
    ASSUME NothingIsOutput, RunsInv, Live # 0, ~quitting
    PROVE  /\ Live \in Ids /\ ~sessions[Live].killed /\ sessions[Live] \in Processes
           /\ sessions[Live].running => sessions[Live].forwarding /\ sessions[Live].open
           /\ sessions[Live].running /\ ~crossed => GoodRun(Live, band.scr)
  <1>1. Live \in Ids /\ sessions[Live] \in Processes
    BY InFlight DEF RunsInv, ShapeInv, Ids
  <1>2. ~sessions[Live].killed /\ (~sessions[Live].forwarding => ~sessions[Live].running)
    BY DEF RunsInv, EndComes
  <1>3. sessions[Live].forwarding \in BOOLEAN
    BY <1>1 DEF Processes
  <1>4. sessions[Live].running => sessions[Live].open
    BY <1>1 DEF RunsInv, ShapeInv
  <1>5. sessions[Live].running /\ ~crossed => GoodRun(Live, band.scr)
    BY DEF RunsInv, OwnStream, FailedRun
  <1> QED  BY <1>1, <1>2, <1>3, <1>4, <1>5

\* Printing a batch.
LEMMA PrintsKeeps ==
    ASSUME NothingIsOutput, RunsInv, NEW s \in Ids, Prints(s)
    PROVE  RunsInv'
  <1> DEFINE p == sessions[s]
             q == [p EXCEPT !.printed = @ + 1, !.events = Append(@, p.printed + 1)]
  <1>1. UNCHANGED <<owner, band, filed, readers, inbox, disk, past, quitting, crossed, rewound>> /\ p.running
    BY DEF Prints
  <1>2. sessions \in Seq(Processes) /\ p \in Processes /\ s \in DOMAIN sessions
    BY DEF RunsInv, ShapeInv, Ids
  <1>3. sessions' = [sessions EXCEPT ![s] = q]
    BY <1>2 DEF Prints
  <1>4. p.printed \in Nat /\ p.events \in Seq(Int) /\ p.chan \in Seq(Int) /\ p.printed + 1 \in Int
    BY <1>2 DEF Processes
  <1>5. q \in Processes /\ q.running = p.running /\ q.killed = p.killed /\ q.open = p.open /\ q.forwarding = p.forwarding
        /\ q.printed = p.printed + 1 /\ q.chan = p.chan /\ q.events = Append(p.events, p.printed + 1)
    <2>1. p.printed + 1 \in Nat /\ Append(p.events, p.printed + 1) \in Seq(Int)
      BY <1>4
    <2> QED  BY <1>2, <2>1 DEF Processes
  <1> HIDE DEF q
  <1>6. p.open /\ \A i \in DOMAIN p.events : p.events[i] # Done
    BY <1>1 DEF RunsInv, ShapeInv
  <1>7. \A i \in DOMAIN q.events : q.events[i] # Done
    <2>1. \A i \in DOMAIN q.events : q.events[i] = IF i <= Len(p.events) THEN p.events[i] ELSE p.printed + 1
      BY <1>4, <1>5
    <2>2. \A i \in DOMAIN q.events : i <= Len(p.events) => i \in DOMAIN p.events
      BY <1>4, <1>5
    <2>3. p.printed + 1 # Done
      BY <1>4 DEF Done
    <2> QED  BY <1>6, <2>1, <2>2, <2>3
  <1>8. CASE Live # s
    BY <1>1, <1>2, <1>3, <1>5, <1>6, <1>7, <1>8, OthersStep, ProcessStep
  <1>9. CASE Live = s
    <2>0. Live' = Live /\ sessions'[s] = q /\ s # 0
      BY <1>1, <1>2, <1>3, InFlight DEF Live
    <2>1. EndComes'
      <3> SUFFICES ASSUME ~quitting PROVE EndComes'
        BY <1>1 DEF EndComes
      <3>1. q.forwarding /\ q.running /\ ~q.killed
        BY <1>1, <1>5, <1>9, <2>0, InFlightEnds
      <3> QED  BY <1>9, <2>0, <3>1 DEF EndComes
    <2>2. OwnStream'
      <3> SUFFICES ASSUME ~quitting, ~crossed PROVE GoodRun(s, band.scr)'
        BY <1>1, <1>9, <2>0 DEF OwnStream
      <3> DEFINE c == Left(s, band.scr)
      <3>1. GoodRun(s, band.scr) /\ p.forwarding
        BY <1>1, <1>9, <2>0, InFlightEnds
      <3>2. Left(s, band.scr)' = c
        BY <1>1 DEF Left
      <3>3. c \in Nat
        <4>1. band.scr \in Seq(Nat \X Int)
          BY <1>9, <2>0, InFlight DEF ScreenTexts
        <4> QED  BY <4>1 DEF Left
      <3> HIDE DEF c
      <3>4. \A i \in DOMAIN inbox : inbox[i].of = s => inbox[i].says = Len(band.scr) + 1
        BY <1>1, <3>1 DEF GoodRun
      <3>5. \A i \in DOMAIN q.chan : q.chan[i] = c + i
        BY <1>5, <3>1 DEF GoodRun, c
      <3>6. c + Len(p.chan) + Len(p.events) = p.printed /\ \A i \in DOMAIN p.events : p.events[i] = c + Len(p.chan) + i
        BY <1>1, <3>1 DEF GoodRun, c
      <3>7. c + Len(q.chan) + Len(q.events) = q.printed
        <4>1. Len(q.events) = Len(p.events) + 1 /\ Len(p.events) \in Nat /\ Len(p.chan) \in Nat
          BY <1>4, <1>5
        <4>2. q.printed = p.printed + 1 /\ p.printed \in Nat /\ Len(q.chan) = Len(p.chan)
          BY <1>4, <1>5
        <4>3. c + Len(p.chan) + Len(p.events) = p.printed
          BY <3>6
        <4>4. c \in Nat
          BY <3>3
        <4>5. c + Len(p.chan) \in Nat
          BY <3>3, <4>1
        <4>6. c + Len(q.chan) = c + Len(p.chan)
          BY <4>2
        <4>7. c + Len(p.chan) + (Len(p.events) + 1) = (c + Len(p.chan) + Len(p.events)) + 1
          BY <4>1, <4>5, SMTT(40)
        <4> QED  BY <4>1, <4>2, <4>3, <4>6, <4>7
      <3>8. ASSUME NEW i \in DOMAIN q.events PROVE q.events[i] = c + Len(q.chan) + i
        <4>1. q.events[i] = IF i <= Len(p.events) THEN p.events[i] ELSE p.printed + 1
          BY <1>4, <1>5
        <4>2. i \in Nat /\ i \in 1..Len(p.events) + 1 /\ Len(p.events) \in Nat /\ Len(p.chan) \in Nat
          BY <1>4, <1>5
        <4>3. CASE i <= Len(p.events)
          BY <1>4, <1>5, <3>6, <4>1, <4>2, <4>3, SMTT(40)
        <4>4. CASE ~(i <= Len(p.events))
          <5>1. i = Len(p.events) + 1
            BY <4>2, <4>4
          <5>2. c + Len(p.chan) + Len(p.events) + 1 = p.printed + 1
            BY <3>6
          <5>3. q.events[i] = p.printed + 1 /\ Len(q.chan) = Len(p.chan)
            BY <1>5, <4>1, <4>4
          <5>4. p.printed \in Nat
            BY <1>4
          <5>5. c + Len(p.chan) \in Nat
            BY <3>3, <4>2
          <5>6. c + Len(q.chan) = c + Len(p.chan)
            BY <5>3
          <5>7. c + Len(p.chan) + (Len(p.events) + 1) = (c + Len(p.chan) + Len(p.events)) + 1
            BY <4>2, <5>5
          <5> QED  BY <5>1, <5>2, <5>3, <5>6, <5>7
        <4> QED  BY <4>3, <4>4
      <3>9. q.forwarding /\ q.running
        BY <1>1, <1>5, <3>1
      <3>10. inbox' = inbox /\ band' = band
        BY <1>1
      <3> HIDE DEF p
      <3> QED  BY <2>0, <3>2, <3>4, <3>5, <3>7, <3>8, <3>9, <3>10 DEF GoodRun
    <2> QED  BY <1>1, <1>2, <1>3, <1>5, <1>6, <1>7, <2>1, <2>2, ProcessStep
  <1> QED  BY <1>8, <1>9
\* The end of a process.
LEMMA ExitsKeeps ==
    ASSUME NothingIsOutput, RunsInv, NEW s \in Ids, Exits(s)
    PROVE  RunsInv'
  <1> DEFINE p == sessions[s]
  <1>1. UNCHANGED <<owner, band, filed, readers, inbox, disk, past, quitting, crossed, rewound>> /\ p.running
    BY DEF Exits
  <1>2. PICK last \in {<<Done>>} \cup (IF p.killed THEN {<<>>} ELSE {}) :
           sessions' = [sessions EXCEPT ![s].running = FALSE, ![s].open = FALSE, ![s].events = @ \o last]
    BY DEF Exits
  <1> DEFINE q == [p EXCEPT !.running = FALSE, !.open = FALSE, !.events = @ \o last]
  <1>3. sessions \in Seq(Processes) /\ p \in Processes /\ s \in DOMAIN sessions
    BY DEF RunsInv, ShapeInv, Ids
  <1>4. sessions' = [sessions EXCEPT ![s] = q]
    BY <1>2, <1>3
  <1>5. p.printed \in Nat /\ p.events \in Seq(Int) /\ p.chan \in Seq(Int)
    BY <1>3 DEF Processes
  <1>6. last \in Seq(Int) /\ (~p.killed => last = <<Done>>)
    <2>1. last = <<Done>> \/ (p.killed /\ last = <<>>)
      BY <1>2
    <2>2. <<Done>> \in Seq(Int) /\ <<>> \in Seq(Int)
      BY DEF Done
    <2>3. last \in Seq(Int)
      BY <2>1, <2>2
    <2> QED  BY <2>1, <2>3
  <1>7. q \in Processes /\ q.running = FALSE /\ q.killed = p.killed /\ q.forwarding = p.forwarding
        /\ q.printed = p.printed /\ q.chan = p.chan /\ q.events = p.events \o last
    <2>1. p.events \o last \in Seq(Int)
      BY <1>5, <1>6
    <2> QED  BY <1>3, <2>1 DEF Processes
  <1> HIDE DEF q
  <1>8. CASE Live # s
    BY <1>1, <1>3, <1>4, <1>7, <1>8, OthersStep, ProcessStep
  <1>9. CASE Live = s
    <2>0. Live' = Live /\ sessions'[s] = q /\ s # 0
      BY <1>1, <1>3, <1>4, InFlight DEF Live
    <2>1. ~quitting => /\ p.forwarding /\ ~p.killed /\ (~crossed => GoodRun(s, band.scr))
                       /\ q.events = Append(p.events, Done)
      <3>1. ~quitting => p.forwarding /\ ~p.killed /\ (~crossed => GoodRun(s, band.scr))
        BY <1>1, <1>9, <2>0, InFlightEnds
      <3>2. Append(p.events, Done) = p.events \o <<Done>>
        <4>1. Done \in Int
          BY DEF Done
        <4> QED  BY <1>5, <4>1, AppendIsConcat
      <3> QED  BY <1>6, <1>7, <3>1, <3>2
    <2>2. EndComes'
      <3> SUFFICES ASSUME ~quitting PROVE EndComes'
        BY <1>1 DEF EndComes
      <3>1. q.forwarding /\ ~q.killed /\ q.events = Append(p.events, Done)
        BY <1>7, <2>1
      <3>2. q.events # <<>> /\ q.events[Len(q.events)] = Done
        <4>1. Done \in Int
          BY DEF Done
        <4>2. /\ Append(p.events, Done) # <<>> /\ Len(Append(p.events, Done)) = Len(p.events) + 1
              /\ Append(p.events, Done)[Len(p.events) + 1] = Done
          <5> DEFINE e == p.events
          <5>1. e \in Seq(Int)
            BY <1>5
          <5> HIDE DEF e
          <5>2. Append(e, Done) # <<>> /\ Len(Append(e, Done)) = Len(e) + 1 /\ Append(e, Done)[Len(e) + 1] = Done
            BY <4>1, <5>1, AppendProperties, SMT
          <5> QED  BY <5>2 DEF e
        <4> QED  BY <3>1, <4>2
      <3> QED  BY <1>9, <2>0, <3>1, <3>2 DEF EndComes
    <2>3. OwnStream'
      <3> SUFFICES ASSUME ~quitting, ~crossed PROVE GoodRun(s, band.scr)'
        BY <1>1, <1>9, <2>0 DEF OwnStream
      <3> DEFINE c == Left(s, band.scr)
      <3>1. GoodRun(s, band.scr) /\ p.forwarding /\ q.events = Append(p.events, Done)
        BY <2>1
      <3>2. Left(s, band.scr)' = c
        BY <1>1 DEF Left
      <3>3. c \in Nat
        <4>1. band.scr \in Seq(Nat \X Int)
          BY <1>9, <2>0, InFlight DEF ScreenTexts
        <4> QED  BY <4>1 DEF Left
      <3> HIDE DEF c
      <3>4. \A i \in DOMAIN inbox : inbox[i].of = s => inbox[i].says = Len(band.scr) + 1
        BY <1>1, <3>1 DEF GoodRun
      <3>5. \A i \in DOMAIN q.chan : q.chan[i] = c + i
        BY <1>7, <3>1 DEF GoodRun, c
      <3>6. c + Len(p.chan) + Len(p.events) = p.printed /\ \A i \in DOMAIN p.events : p.events[i] = c + Len(p.chan) + i
        BY <1>1, <3>1 DEF GoodRun, c
      <3>7. c + Len(p.chan) \in Int
        BY <1>5, <3>3
      <3>8. EndsWith(q.events, c + Len(q.chan), q.printed)
        <4>1. EndsWith(Append(p.events, Done), c + Len(p.chan), c + Len(p.chan) + Len(p.events))
          BY <1>5, <3>6, <3>7, EndsThen
        <4> QED  BY <1>7, <3>1, <3>6, <4>1
      <3>9. q.forwarding /\ ~q.running
        BY <1>7, <3>1
      <3>10. inbox' = inbox /\ band' = band
        BY <1>1
      <3> HIDE DEF p
      <3> QED  BY <2>0, <3>2, <3>4, <3>5, <3>8, <3>9, <3>10 DEF GoodRun
    <2>4. ~q.running
      BY <1>7
    <2> QED  BY <1>1, <1>3, <1>4, <1>7, <2>2, <2>3, <2>4, ProcessStep
  <1> QED  BY <1>8, <1>9

\* What forwardMux sends on, when the run is the one in flight.
LEMMA ForwardsStream ==
    ASSUME NothingIsOutput, RunsInv, NEW s \in Ids, NEW q \in Processes, Live = s, ~quitting, sessions[s].forwarding,
           AtEnd(sessions[s]) \/ sessions[s].events # <<>>, sessions'[s] = q, UNCHANGED <<band, inbox, quitting, crossed>>,
           q.running = sessions[s].running, q.killed = sessions[s].killed, q.printed = sessions[s].printed,
           \/ AtEnd(sessions[s]) /\ q.events = <<>> /\ q.chan = Append(sessions[s].chan, Done) /\ ~q.forwarding
           \/ /\ ~AtEnd(sessions[s]) /\ q.events = Tail(sessions[s].events)
              /\ q.chan = Append(sessions[s].chan, Head(sessions[s].events)) /\ q.forwarding
    PROVE  EndComes' /\ OwnStream'
  <1> DEFINE p == sessions[s]
             c == Left(s, band.scr)
  <1>1. sessions \in Seq(Processes) /\ p \in Processes /\ s \in DOMAIN sessions
    BY DEF RunsInv, ShapeInv, Ids
  <1>2. p.printed \in Nat /\ p.events \in Seq(Int) /\ p.chan \in Seq(Int)
    BY <1>1 DEF Processes
  <1>3. Live' = s /\ s # 0 /\ ~p.killed
    BY InFlight, InFlightEnds DEF Live
  <1>4. p.running => ~AtEnd(p)
    <2>1. p.running => p.open /\ \A i \in DOMAIN p.events : p.events[i] # Done
      BY DEF RunsInv, ShapeInv
    <2>2. p.events # <<>> => 1 \in DOMAIN p.events /\ Head(p.events) = p.events[1]
      BY <1>2
    <2> QED  BY <2>1, <2>2 DEF AtEnd
  <1>5. ~p.running => p.events # <<>> /\ p.events[Len(p.events)] = Done
    BY <1>3 DEF RunsInv, EndComes
  <1>6. c \in Nat /\ Left(s, band.scr)' = c /\ Len(band.scr) \in Nat
    <2>1. band.scr \in Seq(Nat \X Int)
      BY <1>3, InFlight DEF ScreenTexts
    <2> QED  BY <2>1 DEF Left
  <1>7. c + Len(p.chan) \in Nat /\ Len(p.chan) \in Nat /\ Len(p.events) \in Nat
    BY <1>2, <1>6, SMTT(40)
  <1>8. ~crossed => FailedRun(s, band.scr) \/ GoodRun(s, band.scr)
    BY <1>3 DEF RunsInv, OwnStream
  <1> HIDE DEF c
  <1>9. CASE AtEnd(p)
    <2>1. ~p.running /\ p.events # <<>> /\ Head(p.events) = Done
      BY <1>4, <1>5, <1>9 DEF AtEnd
    <2>2. q.events = <<>> /\ q.chan = Append(p.chan, Done) /\ ~q.forwarding
      BY <1>9
    <2>3. EndComes'
      <3>1. q.chan # <<>> /\ q.chan[Len(q.chan)] = Done
        BY <1>2, <2>2, SMTT(40)
      <3> QED  BY <1>3, <2>1, <2>2, <3>1 DEF EndComes
    <2>4. FailedRun(s, band.scr) => FailedRun(s, band.scr)'
      <3>1. (\A i \in DOMAIN p.chan : p.chan[i] \in {Error, Done}) => \A i \in DOMAIN q.chan : q.chan[i] \in {Error, Done}
        BY <1>2, <2>2, SMTT(40)
      <3>2. \A i \in DOMAIN q.events : q.events[i] \in {Error, Done}
        BY <2>2
      <3> QED  BY <3>1, <3>2 DEF FailedRun
    <2>5. GoodRun(s, band.scr) => GoodRun(s, band.scr)'
      <3> SUFFICES ASSUME GoodRun(s, band.scr) PROVE GoodRun(s, band.scr)'
        OBVIOUS
      <3>1. \A i \in DOMAIN inbox : inbox[i].of = s => inbox[i].says = Len(band.scr) + 1
        BY DEF GoodRun
      <3>2. \A i \in DOMAIN p.chan : p.chan[i] = c + i
        BY DEF GoodRun, c
      <3>3. EndsWith(p.events, c + Len(p.chan), p.printed)
        BY <2>1 DEF GoodRun, c
      <3>4. c + Len(p.chan) = p.printed
        BY <1>2, <1>7, <2>1, <3>3, EndsStill
      <3>5. EndsWith(q.chan, c, q.printed)
        <4>1. c \in Int
          BY <1>6
        <4>2. EndsWith(Append(p.chan, Done), c, c + Len(p.chan))
          BY <1>2, <3>2, <4>1, EndsThen
        <4> QED  BY <2>2, <3>4, <4>2
      <3> HIDE DEF p
      <3> QED  BY <1>6, <2>2, <3>1, <3>5 DEF GoodRun
    <2> QED  BY <1>3, <1>8, <2>3, <2>4, <2>5 DEF OwnStream
  <1>10. CASE ~AtEnd(p)
    <2>1. p.events # <<>> /\ Head(p.events) # Done
      BY <1>10 DEF AtEnd
    <2>2. q.events = Tail(p.events) /\ q.chan = Append(p.chan, Head(p.events)) /\ q.forwarding
      BY <1>10
    <2>a. Head(p.events) = p.events[1] /\ Head(p.events) \in Int /\ Len(q.chan) = Len(p.chan) + 1
          /\ Len(q.events) = Len(p.events) - 1 /\ Len(p.events) > 0
          /\ \A i \in DOMAIN q.events : i + 1 \in DOMAIN p.events /\ q.events[i] = p.events[i + 1]
      BY <1>2, <2>1, <2>2
    <2>3. EndComes'
      <3>1. ~p.running => q.events # <<>> /\ q.events[Len(q.events)] = Done
        <4> SUFFICES ASSUME ~p.running PROVE q.events # <<>> /\ q.events[Len(q.events)] = Done
          OBVIOUS
        <4>1. Len(p.events) # 1
          BY <1>5, <2>1, <2>a
        <4>2. Len(q.events) \in DOMAIN q.events /\ Len(q.events) + 1 = Len(p.events)
          <5>1. q.events \in Seq(Int)
            BY <1>2, <2>1, <2>2, HeadTailProperties
          <5>2. Len(q.events) >= 1
            <6>1. \A n \in Nat : n > 0 /\ n # 1 => n - 1 >= 1
              OBVIOUS
            <6> QED  BY <1>7, <2>a, <4>1, <6>1
          <5> QED  BY <1>7, <2>a, <5>1, <5>2
        <4> QED  BY <1>5, <2>a, <4>2
      <3> QED  BY <1>3, <2>2, <3>1 DEF EndComes
    <2>4. FailedRun(s, band.scr) => FailedRun(s, band.scr)'
      <3>1. FailedRun(s, band.scr) => \A i \in DOMAIN q.chan : q.chan[i] \in {Error, Done}
        <4>1. FailedRun(s, band.scr) => Head(p.events) \in {Error, Done}
          BY <1>2, <2>1, <2>a DEF FailedRun
        <4>2. \A i \in DOMAIN q.chan : q.chan[i] = IF i \in DOMAIN p.chan THEN p.chan[i] ELSE Head(p.events)
          BY <1>2, <2>2
        <4> QED  BY <4>1, <4>2 DEF FailedRun
      <3>2. FailedRun(s, band.scr) => \A i \in DOMAIN q.events : q.events[i] \in {Error, Done}
        BY <2>a DEF FailedRun
      <3> QED  BY <3>1, <3>2 DEF FailedRun
    <2>5. GoodRun(s, band.scr) => GoodRun(s, band.scr)'
      <3> SUFFICES ASSUME GoodRun(s, band.scr) PROVE GoodRun(s, band.scr)'
        OBVIOUS
      <3>1. \A i \in DOMAIN inbox : inbox[i].of = s => inbox[i].says = Len(band.scr) + 1
        BY DEF GoodRun
      <3>2. \A i \in DOMAIN p.chan : p.chan[i] = c + i
        BY DEF GoodRun, c
      <3> DEFINE d == c + Len(p.chan)
      <3>3. d \in Nat /\ c + Len(q.chan) = d + 1
        BY <1>6, <1>7, <2>a, SMTT(40)
      <3>4. p.running => d + Len(p.events) = p.printed /\ \A i \in DOMAIN p.events : p.events[i] = d + i
        BY DEF GoodRun, c
      <3>5. ~p.running => EndsWith(p.events, d, p.printed)
        BY DEF GoodRun, c
      <3> HIDE DEF d
      <3>6. p.running => Head(p.events) = d + 1 /\ \A i \in DOMAIN q.events : q.events[i] = d + 1 + i
        <4> SUFFICES ASSUME p.running PROVE Head(p.events) = d + 1 /\ \A i \in DOMAIN q.events : q.events[i] = d + 1 + i
          OBVIOUS
        <4>1. d \in Int /\ \A i \in DOMAIN p.events : p.events[i] = d + i
          BY <3>3, <3>4
        <4>2. Head(p.events) = d + 1 /\ \A i \in DOMAIN Tail(p.events) : Tail(p.events)[i] = d + 1 + i
          BY <1>2, <2>1, <4>1, GoesOn
        <4> QED  BY <2>2, <4>2
      <3>7. p.running => d + 1 + Len(q.events) = p.printed
        <4>1. d + 1 + (Len(p.events) - 1) = d + Len(p.events)
          <5>1. d \in Nat /\ Len(p.events) \in Nat
            BY <1>7, <3>3
          <5>2. \A a, b \in Nat : a + 1 + (b - 1) = a + b
            OBVIOUS
          <5> QED  BY <5>1, <5>2
        <4> QED  BY <2>a, <3>4, <4>1
      <3>8. ~p.running => Head(p.events) = d + 1 /\ EndsWith(q.events, d + 1, p.printed)
        BY <1>2, <2>1, <2>2, <3>3, <3>5, EndsStill
      <3>9. \A i \in DOMAIN q.chan : q.chan[i] = c + i
        <4>1. Head(p.events) = c + Len(p.chan) + 1
          BY <3>6, <3>8 DEF d
        <4>2. \A i \in DOMAIN Append(p.chan, Head(p.events)) : Append(p.chan, Head(p.events))[i] = c + i
          <5>1. c \in Int
            BY <1>6
          <5> QED  BY <1>2, <2>a, <3>2, <4>1, <5>1, GetsOn
        <4> QED  BY <2>2, <4>2
      <3>10. p.running => c + Len(q.chan) + Len(q.events) = q.printed /\ \A i \in DOMAIN q.events : q.events[i] = c + Len(q.chan) + i
        BY <3>3, <3>6, <3>7
      <3>11. ~p.running => EndsWith(q.events, c + Len(q.chan), q.printed)
        BY <3>3, <3>8
      <3> QED  BY <1>6, <2>2, <3>1, <3>9, <3>10, <3>11 DEF GoodRun
    <2> QED  BY <1>3, <1>8, <2>3, <2>4, <2>5 DEF OwnStream
  <1> QED  BY <1>9, <1>10

LEMMA ForwardsKeeps ==
    ASSUME NothingIsOutput, RunsInv, NEW s \in Ids, Forwards(s)
    PROVE  RunsInv'
  <1> DEFINE p == sessions[s]
             more == IF AtEnd(p)
                     THEN [p EXCEPT !.events = <<>>, !.chan = Append(@, Done), !.forwarding = FALSE]
                     ELSE [p EXCEPT !.events = Tail(@), !.chan = Append(@, Head(p.events))]
             none == [p EXCEPT !.events = <<>>, !.forwarding = FALSE]
  <1>1. UNCHANGED <<owner, band, filed, readers, inbox, disk, past, quitting, crossed, rewound>> /\ p.forwarding
        /\ (AtEnd(p) \/ p.events # <<>>)
    BY DEF Forwards
  <1>2. sessions \in Seq(Processes) /\ p \in Processes /\ s \in DOMAIN sessions
    BY DEF RunsInv, ShapeInv, Ids
  <1>3. p.printed \in Nat /\ p.events \in Seq(Int) /\ p.chan \in Seq(Int)
    BY <1>2 DEF Processes
  <1>4. p.running => p.open /\ \A i \in DOMAIN p.events : p.events[i] # Done
    BY DEF RunsInv, ShapeInv
  <1>5. PICK q \in {more, none} : sessions' = [sessions EXCEPT ![s] = q] /\ (q # more => q = none /\ p.killed)
    <2>1. sessions' = [sessions EXCEPT ![s] = more] \/ (p.killed /\ sessions' = [sessions EXCEPT ![s] = none])
      BY <1>2 DEF Forwards
    <2> QED  BY <2>1
  <1>6. /\ Append(p.chan, Done) \in Seq(Int)
        /\ p.events # <<>> => Tail(p.events) \in Seq(Int) /\ Append(p.chan, Head(p.events)) \in Seq(Int)
                              /\ \A i \in DOMAIN Tail(p.events) : i + 1 \in DOMAIN p.events /\ Tail(p.events)[i] = p.events[i + 1]
    BY <1>3 DEF Done
  <1>7. q \in Processes /\ q.running = p.running /\ q.killed = p.killed /\ q.open = p.open /\ q.printed = p.printed
        /\ (q.events = <<>> \/ (p.events # <<>> /\ q.events = Tail(p.events)))
    <2>1. none \in Processes /\ none.running = p.running /\ none.killed = p.killed /\ none.open = p.open
          /\ none.printed = p.printed /\ none.events = <<>>
      BY <1>2, EmptySeq DEF Processes
    <2>2. CASE AtEnd(p)
      <3>1. more = [p EXCEPT !.events = <<>>, !.chan = Append(@, Done), !.forwarding = FALSE]
        BY <2>2
      <3>2. more \in Processes /\ more.running = p.running /\ more.killed = p.killed /\ more.open = p.open
            /\ more.printed = p.printed /\ more.events = <<>>
        BY <1>2, <1>6, <3>1, EmptySeq DEF Processes
      <3> HIDE DEF more, none
      <3> QED  BY <1>5, <2>1, <3>2
    <2>3. CASE ~AtEnd(p)
      <3>1. more = [p EXCEPT !.events = Tail(@), !.chan = Append(@, Head(p.events))] /\ p.events # <<>>
        BY <1>1, <2>3
      <3>2. more \in Processes /\ more.running = p.running /\ more.killed = p.killed /\ more.open = p.open
            /\ more.printed = p.printed /\ more.events = Tail(p.events)
        BY <1>2, <1>6, <3>1 DEF Processes
      <3> HIDE DEF more, none
      <3> QED  BY <1>5, <2>1, <3>1, <3>2
    <2> QED  BY <2>2, <2>3
  <1>8. q = more =>
           \/ AtEnd(p) /\ q.events = <<>> /\ q.chan = Append(p.chan, Done) /\ ~q.forwarding
           \/ ~AtEnd(p) /\ q.events = Tail(p.events) /\ q.chan = Append(p.chan, Head(p.events)) /\ q.forwarding
    BY <1>1, <1>2 DEF Processes
  <1> HIDE DEF more, none
  <1>9. q.running => p.running /\ q.open /\ \A i \in DOMAIN q.events : q.events[i] # Done
    <2>1. CASE q.events = <<>>
      BY <1>4, <1>7, <2>1
    <2>2. CASE p.events # <<>> /\ q.events = Tail(p.events)
      BY <1>4, <1>6, <1>7, <2>2
    <2> QED  BY <1>7, <2>1, <2>2
  <1>10. CASE Live # s
    <2>1. EndComes' /\ OwnStream'
      BY <1>1, <1>5, <1>10, OthersStep
    <2> QED  BY <1>1, <1>5, <1>7, <1>9, <2>1, ProcessStep
  <1>11. CASE Live = s
    <2>1. Live' = Live /\ sessions'[s] = q /\ Live # 0
      BY <1>1, <1>2, <1>5, <1>11, InFlight DEF Live
    <2>2. EndComes' /\ OwnStream'
      <3>1. CASE quitting
        BY <1>1, <3>1 DEF EndComes, OwnStream
      <3>2. CASE ~quitting
        <4>1. ~p.killed
          BY <1>11, <2>1, <3>2, InFlightEnds
        <4>2. q = more
          BY <1>5, <4>1
        <4> QED  BY <1>1, <1>7, <1>8, <1>11, <2>1, <3>2, <4>2, ForwardsStream
      <3>3. quitting \in BOOLEAN
        BY DEF RunsInv, ShapeInv
      <3> QED  BY <3>1, <3>2
    <2> QED  BY <1>1, <1>5, <1>7, <1>9, <2>2, ProcessStep
  <1> QED  BY <1>10, <1>11
\* The sum of the commands and the messages, when a command ends.
LEMMA OneDone ==
    ASSUME NothingIsOutput, RunsInv, NEW s \in Ids, readers[s] > 0, readers' = [readers EXCEPT ![s] = @ - 1],
           Len(sessions') = Len(sessions), Len(inbox') \in Nat, Len(inbox') <= Len(inbox) + 1
    PROVE  HandedOn' /\ readers' \in Seq(Nat) /\ Len(readers') = Len(readers) /\ \A t \in Ids : readers'[t] = IF t = s THEN readers[s] - 1 ELSE readers[t]
  <1>1. readers \in Seq(Nat) /\ Len(readers) = Len(sessions) /\ DOMAIN readers = Ids /\ Len(sessions) \in Nat /\ Len(inbox) \in Nat
    BY DEF RunsInv, ShapeInv, Ids
  <1>2. readers[s] \in Nat /\ readers[s] - 1 \in Nat
    BY <1>1
  <1>3. readers' \in Seq(Nat) /\ Len(readers') = Len(readers) /\ \A t \in Ids : readers'[t] = IF t = s THEN readers[s] - 1 ELSE readers[t]
    BY <1>1, <1>2
  <1>4. PICK sum \in [0..Len(readers) -> 0..Len(sessions)] :
           AddsUp(sum, readers) /\ sum[Len(readers)] + Len(inbox) <= Len(sessions)
    BY DEF RunsInv, HandedOn
  <1>5. PICK less \in [0..Len(readers) -> 0..Len(sessions)] : AddsUp(less, readers') /\ less[Len(readers)] = sum[Len(readers)] - 1
    <2>1. s \in DOMAIN readers
      BY <1>1
    <2>2. \E less \in [0..Len(readers) -> 0..Len(sessions)] :
             AddsUp(less, [readers EXCEPT ![s] = @ - 1]) /\ less[Len(readers)] = sum[Len(readers)] - 1
      <3> DEFINE counts == readers
                 top == Len(sessions)
      <3>1. counts \in Seq(Nat) /\ s \in DOMAIN counts /\ top \in Nat /\ counts[s] > 0
        BY <1>1, <2>1
      <3>2. sum \in [0..Len(counts) -> 0..top] /\ AddsUp(sum, counts)
        BY <1>4
      <3> HIDE DEF counts, top
      <3>3. \E less \in [0..Len(counts) -> 0..top] :
               AddsUp(less, [counts EXCEPT ![s] = @ - 1]) /\ less[Len(counts)] = sum[Len(counts)] - 1
        BY ONLY <3>1, <3>2, OneLess
      <3> QED  BY <3>3 DEF counts, top
    <2> QED  BY <2>2
  <1>6. less[Len(readers)] + Len(inbox') <= Len(sessions)
    <2>1. sum[Len(readers)] \in Nat
      BY <1>1, <1>4, SMTT(40)
    <2> QED  BY <1>1, <1>4, <1>5, <2>1
  <1>7. HandedOn'
    BY <1>3, <1>5, <1>6 DEF HandedOn
  <1> QED  BY <1>3, <1>7

\* A command that finds the channel closed.
LEMMA TakenNothing ==
    ASSUME NothingIsOutput, RunsInv, NEW s \in Ids, Taken(s), sessions[s].chan = <<>>
    PROVE  RunsInv'
  <1>1. UNCHANGED <<owner, band, sessions, filed, inbox, disk, past, quitting, crossed, rewound, Live, Ids>>
        /\ readers[s] > 0 /\ ~sessions[s].forwarding /\ readers' = [readers EXCEPT ![s] = @ - 1]
    BY DEF Taken, Live, Ids
  <1>2. Len(sessions) \in Nat /\ Len(inbox) \in Nat
    BY DEF RunsInv, ShapeInv
  <1>3. HandedOn' /\ readers' \in Seq(Nat) /\ Len(readers') = Len(readers)
        /\ \A t \in Ids : readers'[t] = IF t = s THEN readers[s] - 1 ELSE readers[t]
    <2>1. Len(sessions') = Len(sessions) /\ Len(inbox') \in Nat /\ Len(inbox') <= Len(inbox) + 1
      BY <1>1, <1>2
    <2> QED  BY <1>1, <2>1, OneDone
  <1>4. ShapeInv' /\ BandInv' /\ OwnerInv' /\ FiledInv'
    BY <1>1, <1>3 DEF RunsInv, ShapeInv, BandInv, OwnerInv, FiledInv
  <1>5. OneHandles'
    BY <1>1, <1>3 DEF RunsInv, OneHandles
  <1>6. EndComes'
    BY <1>1 DEF RunsInv, EndComes
  <1>7. OwnStream'
    BY <1>1 DEF RunsInv, OwnStream, FailedRun, GoodRun, Left
  <1>8. BandIsItsOwn' /\ NothingRunsUnseen'
    BY <1>1 DEF RunsInv, BandIsItsOwn, NothingRunsUnseen
  <1>9. RunIsRead'
    <2> SUFFICES ASSUME Live # 0, ~quitting PROVE readers'[Live] > 0 \/ \E i \in DOMAIN inbox : inbox[i].of = Live
      BY <1>1 DEF RunIsRead
    <2>1. CASE Live # s
      BY <1>3, <2>1, InFlight DEF RunsInv, RunIsRead
    <2>2. CASE Live = s
      BY <1>1, <2>2 DEF RunsInv, EndComes
    <2> QED  BY <2>1, <2>2
  <1> QED  BY <1>3, <1>4, <1>5, <1>6, <1>7, <1>8, <1>9 DEF RunsInv

\* What a command takes from the channel of the run in flight.
LEMMA TakenStream ==
    ASSUME NothingIsOutput, RunsInv, NEW s \in Ids, NEW q \in Processes, Live = s, ~quitting, readers[s] > 0,
           sessions[s].chan # <<>>, sessions'[s] = q, UNCHANGED <<band, quitting, crossed>>,
           q.running = sessions[s].running, q.killed = sessions[s].killed, q.printed = sessions[s].printed,
           q.events = sessions[s].events, q.forwarding = sessions[s].forwarding, q.chan = Tail(sessions[s].chan),
           inbox' = Append(inbox, [of |-> s, says |-> Head(sessions[s].chan)])
    PROVE  EndComes' /\ OwnStream'
  <1> DEFINE p == sessions[s]
             m == [of |-> s, says |-> Head(p.chan)]
             c == Left(s, band.scr)
  <1>1. sessions \in Seq(Processes) /\ p \in Processes /\ s \in DOMAIN sessions /\ inbox \in Seq([of : Int, says : Int])
        /\ readers \in Seq(Nat) /\ s \in DOMAIN readers
    BY DEF RunsInv, ShapeInv, Ids
  <1>2. p.printed \in Nat /\ p.events \in Seq(Int) /\ p.chan \in Seq(Int)
    BY <1>1 DEF Processes
  <1>3. Live' = s /\ s # 0 /\ ~p.killed
    BY InFlight, InFlightEnds DEF Live
  <1>4. Len(band.scr) \in Nat
    <2>1. band.scr \in Seq(Nat \X Int)
      BY <1>3, InFlight DEF ScreenTexts
    <2> QED  BY <2>1
  <1>5. Head(p.chan) \in Int /\ Head(p.chan) = p.chan[1] /\ Tail(p.chan) \in Seq(Int) /\ Len(Tail(p.chan)) = Len(p.chan) - 1
        /\ Len(p.chan) \in Nat /\ Len(p.chan) > 0 /\ \A i \in DOMAIN Tail(p.chan) : i + 1 \in DOMAIN p.chan /\ Tail(p.chan)[i] = p.chan[i + 1]
    BY <1>2, SMTT(40)
  <1>6. /\ \A i \in DOMAIN inbox : i \in DOMAIN inbox' /\ inbox'[i] = inbox[i]
        /\ \A i \in DOMAIN inbox' : i \in DOMAIN inbox \/ inbox'[i] = m
        /\ Len(inbox) + 1 \in DOMAIN inbox' /\ inbox'[Len(inbox) + 1] = m
    <2>1. m \in [of : Int, says : Int]
      <3>1. s \in Int
        BY <1>1
      <3> QED  BY <1>5, <3>1
    <2> HIDE DEF m
    <2>2. inbox' = Append(inbox, m)
      BY DEF m
    <2> QED  BY <1>1, <2>1, <2>2, SMTT(40)
  <1>7. m.of = s /\ m.says = Head(p.chan)
    OBVIOUS
  <1> HIDE DEF m
  <1>8. EndComes'
    <2>1. EndComes
      BY DEF RunsInv
    <2>2. p.forwarding => p.running \/ (p.events # <<>> /\ p.events[Len(p.events)] = Done)
      BY <1>3, <2>1 DEF EndComes
    <2>3. ~p.forwarding => ~p.running /\ (p.chan[Len(p.chan)] = Done \/ \E i \in DOMAIN inbox : inbox[i].of = s /\ inbox[i].says = Done)
      BY <1>3, <2>1 DEF EndComes
    <2>4. ~p.forwarding => \/ q.chan # <<>> /\ q.chan[Len(q.chan)] = Done
                           \/ \E i \in DOMAIN inbox' : inbox'[i].of = s /\ inbox'[i].says = Done
      <3> SUFFICES ASSUME ~p.forwarding, p.chan[Len(p.chan)] = Done
                   PROVE  \/ q.chan # <<>> /\ q.chan[Len(q.chan)] = Done
                          \/ \E i \in DOMAIN inbox' : inbox'[i].of = s /\ inbox'[i].says = Done
        BY <1>6, <2>3
      <3>1. CASE Len(p.chan) = 1
        BY <1>5, <1>6, <1>7, <3>1
      <3>2. CASE Len(p.chan) # 1
        <4>1. q.chan \in Seq(Int) /\ Len(q.chan) >= 1 /\ Len(q.chan) + 1 = Len(p.chan)
          <5>1. \A n \in Nat : n > 0 /\ n # 1 => n - 1 >= 1 /\ (n - 1) + 1 = n
            OBVIOUS
          <5> QED  BY <1>5, <3>2, <5>1
        <4>2. q.chan # <<>> /\ Len(q.chan) \in DOMAIN q.chan
          BY <4>1, SMTT(40)
        <4> QED  BY <1>5, <4>1, <4>2
      <3> QED  BY <3>1, <3>2
    <2>5. q.running = p.running /\ q.forwarding = p.forwarding /\ q.events = p.events /\ ~q.killed
      BY <1>3
    <2> QED  BY <1>3, <2>2, <2>3, <2>4, <2>5 DEF EndComes
  <1>9. ~crossed => readers[s] = 1 /\ \A i \in DOMAIN inbox : inbox[i].of # s
    <2>1. readers[s] \in Nat
      BY <1>1
    <2> QED  BY <2>1 DEF RunsInv, OneHandles
  <1>10. ~crossed => FailedRun(s, band.scr) \/ GoodRun(s, band.scr)
    BY <1>3 DEF RunsInv, OwnStream
  <1>11. ~crossed => c = Len(band.scr)
    BY <1>9 DEF Left
  <1>12. ~crossed => Left(s, band.scr)' = IF m.says # Done THEN Len(band.scr) + 1 ELSE Len(band.scr)
    <2> SUFFICES ASSUME ~crossed PROVE (\E i \in DOMAIN inbox' : inbox'[i].of = s /\ inbox'[i].says # Done) <=> m.says # Done
      BY DEF Left
    <2> QED  BY <1>6, <1>7, <1>9
  <1>13. ~crossed /\ FailedRun(s, band.scr) => FailedRun(s, band.scr)'
    <2> SUFFICES ASSUME ~crossed, FailedRun(s, band.scr) PROVE FailedRun(s, band.scr)'
      OBVIOUS
    <2>1. \A i \in DOMAIN p.chan : p.chan[i] \in {Error, Done}
      BY DEF FailedRun
    <2>2. m.says \in {Error, Done}
      BY <1>5, <1>7, <2>1
    <2>3. \A i \in DOMAIN q.chan : q.chan[i] \in {Error, Done}
      BY <1>5, <2>1
    <2>4. \A i \in DOMAIN inbox' : inbox'[i].of = s => inbox'[i].says \in {Error, Done}
      BY <1>6, <1>9, <2>2
    <2> QED  BY <2>3, <2>4 DEF FailedRun
  <1>14. ~crossed /\ GoodRun(s, band.scr) => GoodRun(s, band.scr)'
    <2> SUFFICES ASSUME ~crossed, GoodRun(s, band.scr) PROVE GoodRun(s, band.scr)'
      OBVIOUS
    <2> DEFINE n == Len(band.scr)
    <2>0. n \in Nat /\ c = n /\ n + 0 = n
      BY <1>4, <1>11
    <2>1. \A i \in DOMAIN inbox' : inbox'[i].of = s => inbox'[i] = m
      BY <1>6, <1>9
    <2>2. CASE p.forwarding
      <3>1. \A i \in DOMAIN p.chan : p.chan[i] = n + i
        BY <2>0, <2>2 DEF GoodRun
      <3>2. Head(p.chan) = n + 1 /\ \A i \in DOMAIN q.chan : q.chan[i] = n + 1 + i
        <4>1. n \in Int /\ p.chan # <<>>
          BY <1>4
        <4>2. Head(p.chan) = n + 1 /\ \A i \in DOMAIN Tail(p.chan) : Tail(p.chan)[i] = n + 1 + i
          BY <1>2, <3>1, <4>1, GoesOn
        <4> QED  BY <4>2
      <3>3. m.says = n + 1 /\ n + 1 # Done
        <4>1. n + 1 # 0
          BY <2>0
        <4> QED  BY <1>7, <3>2, <4>1 DEF Done
      <3>4. Left(s, band.scr)' = n + 1
        BY <1>12, <3>3
      <3>5. n + 1 + Len(q.chan) = n + Len(p.chan)
        <4>1. \A a, b \in Nat : a + 1 + (b - 1) = a + b
          OBVIOUS
        <4>2. n \in Nat /\ Len(p.chan) \in Nat /\ Len(q.chan) = Len(p.chan) - 1
          BY <1>4, <1>5
        <4> QED  BY <4>1, <4>2
      <3>6. p.running => n + Len(p.chan) + Len(p.events) = p.printed /\ \A i \in DOMAIN p.events : p.events[i] = n + Len(p.chan) + i
        BY <2>0, <2>2 DEF GoodRun
      <3>7. ~p.running => EndsWith(p.events, n + Len(p.chan), p.printed)
        BY <2>0, <2>2 DEF GoodRun
      <3>8. p.running => n + 1 + Len(q.chan) + Len(q.events) = q.printed /\ \A i \in DOMAIN q.events : q.events[i] = n + 1 + Len(q.chan) + i
        BY <3>5, <3>6
      <3>9. ~p.running => EndsWith(q.events, n + 1 + Len(q.chan), q.printed)
        BY <3>5, <3>7
      <3>10. \A i \in DOMAIN inbox' : inbox'[i].of = s => inbox'[i].says = n + 1
        BY <2>1, <3>3
      <3>11. /\ q.forwarding
             /\ q.running => n + 1 + Len(q.chan) + Len(q.events) = q.printed /\ \A i \in DOMAIN q.events : q.events[i] = n + 1 + Len(q.chan) + i
             /\ ~q.running => EndsWith(q.events, n + 1 + Len(q.chan), q.printed)
        BY <2>2, <3>8, <3>9
      <3>12. \A i \in DOMAIN q.chan : q.chan[i] = n + 1 + i
        BY <3>2
      <3>13. band' = band /\ sessions'[s] = q
        OBVIOUS
      <3>14. Left(s, band.scr)' = Len(band.scr) + 1
        BY <3>4
      <3> QED  BY ONLY <3>10, <3>11, <3>12, <3>13, <3>14 DEF GoodRun
    <2>3. CASE ~p.forwarding
      <3>1. EndsWith(p.chan, n, p.printed)
        BY <2>0, <2>3 DEF GoodRun
      <3>2. Head(p.chan) = Done => n = p.printed /\ q.chan = <<>>
        BY <1>2, <2>0, <3>1, EndsStill, SMTT(40)
      <3>3. Head(p.chan) # Done => Head(p.chan) = n + 1 /\ EndsWith(q.chan, n + 1, p.printed)
        BY <1>2, <2>0, <3>1, EndsStill, SMTT(40)
      <3>4. ~p.running
        BY <1>3, <2>3 DEF RunsInv, EndComes
      <3>5. \A i \in DOMAIN inbox' : inbox'[i].of = s =>
              \/ inbox'[i].says = n + 1
              \/ inbox'[i].says = Done /\ ~q.forwarding /\ q.chan = <<>> /\ ~q.running /\ n = q.printed
        BY <1>7, <2>1, <2>3, <3>2, <3>3, <3>4
      <3>6. q.chan # <<>> => EndsWith(q.chan, Left(s, band.scr)', q.printed)
        BY <1>7, <1>12, <3>2, <3>3
      <3> QED  BY <2>3, <3>5, <3>6 DEF GoodRun
    <2> QED  BY <2>2, <2>3
  <1>15. OwnStream'
    BY <1>3, <1>10, <1>13, <1>14 DEF OwnStream
  <1> QED  BY <1>8, <1>15

\* A command that gets a message.
LEMMA TakenKeeps ==
    ASSUME NothingIsOutput, RunsInv, NEW s \in Ids, Taken(s)
    PROVE  RunsInv'
  <1> DEFINE p == sessions[s]
             q == [p EXCEPT !.chan = Tail(@)]
             m == [of |-> s, says |-> Head(p.chan)]
  <1>1. UNCHANGED <<owner, band, filed, disk, past, quitting, crossed, rewound, Live>> /\ readers[s] > 0
        /\ readers' = [readers EXCEPT ![s] = @ - 1]
    BY DEF Taken, Live
  <1>2. CASE p.chan = <<>>
    BY <1>2, TakenNothing
  <1>3. CASE p.chan # <<>>
    <2>1. sessions' = [sessions EXCEPT ![s].chan = Tail(@)] /\ inbox' = Append(inbox, m)
      BY <1>3 DEF Taken
    <2>2. sessions \in Seq(Processes) /\ p \in Processes /\ s \in DOMAIN sessions /\ inbox \in Seq([of : Int, says : Int])
          /\ readers \in Seq(Nat) /\ Len(readers) = Len(sessions)
      BY DEF RunsInv, ShapeInv, Ids
    <2>3. p.chan \in Seq(Int) /\ Tail(p.chan) \in Seq(Int) /\ Head(p.chan) \in Int
      <3>1. p.chan \in Seq(Int)
        BY <2>2 DEF Processes
      <3> QED  BY <1>3, <3>1
    <2>4. sessions' = [sessions EXCEPT ![s] = q]
      BY <2>1, <2>2
    <2>5. q \in Processes /\ q.running = p.running /\ q.killed = p.killed /\ q.open = p.open /\ q.printed = p.printed
          /\ q.events = p.events /\ q.forwarding = p.forwarding /\ q.chan = Tail(p.chan)
      BY <2>2, <2>3 DEF Processes
    <2>6. m \in [of : Int, says : Int] /\ m.of = s
      <3>1. s \in Int
        BY <2>2
      <3> QED  BY <2>3, <3>1
    <2>m. inbox' = Append(inbox, [of |-> s, says |-> Head(sessions[s].chan)])
      BY <2>1
    <2> HIDE DEF q, m
    <2>7. /\ inbox' \in Seq([of : Int, says : Int]) /\ Len(inbox) \in Nat /\ Len(inbox') = Len(inbox) + 1
          /\ \A i \in DOMAIN inbox : i \in DOMAIN inbox' /\ inbox'[i] = inbox[i]
          /\ \A i \in DOMAIN inbox' : (i \in DOMAIN inbox /\ inbox'[i] = inbox[i]) \/ (i = Len(inbox) + 1 /\ inbox'[i] = m)
          /\ Len(inbox) + 1 \in DOMAIN inbox' /\ inbox'[Len(inbox) + 1] = m
      <3>1. inbox' = Append(inbox, m) /\ inbox \in Seq([of : Int, says : Int]) /\ m \in [of : Int, says : Int]
        BY <2>1, <2>2, <2>6
      <3> QED  BY ONLY <3>1, Appended
    <2>8. sessions' \in Seq(Processes) /\ Len(sessions') = Len(sessions) /\ Ids' = Ids
          /\ \A t \in Ids : sessions'[t] = IF t = s THEN q ELSE sessions[t]
      BY <2>2, <2>4, <2>5 DEF Ids
    <2>9. HandedOn' /\ readers' \in Seq(Nat) /\ Len(readers') = Len(readers)
          /\ \A t \in Ids : readers'[t] = IF t = s THEN readers[s] - 1 ELSE readers[t]
      <3>1. Len(inbox') \in Nat /\ Len(inbox') <= Len(inbox) + 1
        BY <2>7
      <3> QED  BY <1>1, <2>8, <3>1, OneDone
    <2>10. ShapeInv'
      <3>1. \A t \in Ids : sessions'[t].running => sessions'[t].open /\ \A i \in DOMAIN sessions'[t].events : sessions'[t].events[i] # Done
        BY <2>5, <2>8, SMTT(40) DEF RunsInv, ShapeInv
      <3>2. \A i \in DOMAIN inbox' : inbox'[i].of \in Ids
        BY <2>6, <2>7 DEF RunsInv, ShapeInv
      <3> QED  BY <1>1, <2>2, <2>7, <2>8, <2>9, <3>1, <3>2 DEF RunsInv, ShapeInv
    <2>11. BandInv' /\ OwnerInv' /\ FiledInv'
      BY <1>1, <2>8 DEF RunsInv, BandInv, OwnerInv, FiledInv
    <2>12. OneHandles'
      <3> SUFFICES ASSUME ~crossed
                   PROVE  /\ \A t \in Ids : readers'[t] \in {0, 1} /\ (readers'[t] = 1 => \A i \in DOMAIN inbox' : inbox'[i].of # t)
                          /\ \A i, j \in DOMAIN inbox' : i # j => inbox'[i].of # inbox'[j].of
        BY <1>1, <2>8 DEF OneHandles
      <3>1. \A t \in Ids : readers[t] \in {0, 1} /\ (readers[t] = 1 => \A i \in DOMAIN inbox : inbox[i].of # t)
        BY DEF RunsInv, OneHandles
      <3>2. readers[s] = 1 /\ readers'[s] = 0
        BY <1>1, <2>9, <3>1
      <3>3. \A t \in Ids : readers'[t] \in {0, 1} /\ (readers'[t] = 1 => \A i \in DOMAIN inbox' : inbox'[i].of # t)
        BY <2>6, <2>7, <2>9, <3>1, <3>2, SMTT(40)
      <3>4. \A i, j \in DOMAIN inbox : i # j => inbox[i].of # inbox[j].of
        BY DEF RunsInv, OneHandles
      <3>5. \A i \in DOMAIN inbox : inbox[i].of # s
        BY <3>1, <3>2
      <3>6. \A i, j \in DOMAIN inbox' : i # j => inbox'[i].of # inbox'[j].of
        BY <2>6, <2>7, <3>4, <3>5
      <3> QED  BY <3>3, <3>6
    <2>13. EndComes' /\ OwnStream'
      <3>1. CASE Live = 0 \/ quitting
        BY <1>1, <3>1 DEF EndComes, OwnStream
      <3>2. CASE Live # 0 /\ ~quitting /\ Live = s
        <4>1. sessions'[s] = q
          BY <2>8
        <4> QED  BY <1>1, <1>3, <2>m, <2>5, <3>2, <4>1, TakenStream
      <3>3. CASE Live # 0 /\ ~quitting /\ Live # s
        <4>1. Live \in Ids /\ sessions'[Live] = sessions[Live]
          BY <2>8, <3>3, InFlight
        <4>2. EndComes'
          BY <1>1, <2>7, <3>3, <4>1 DEF RunsInv, EndComes
        <4>3. FailedRun(Live, band.scr) => FailedRun(Live, band.scr)'
          BY <1>1, <2>6, <2>7, <3>3, <4>1 DEF FailedRun
        <4>4. Left(Live, band.scr)' = Left(Live, band.scr)
          BY <1>1, <2>6, <2>7, <3>3, <4>1 DEF Left
        <4>5. GoodRun(Live, band.scr) => GoodRun(Live, band.scr)'
          <5>1. \A i \in DOMAIN inbox' : inbox'[i].of = Live => i \in DOMAIN inbox /\ inbox'[i] = inbox[i]
            BY <2>6, <2>7, <3>3
          <5> QED  BY <1>1, <3>3, <4>1, <4>4, <5>1 DEF GoodRun
        <4> QED  BY <1>1, <4>2, <4>3, <4>5 DEF RunsInv, OwnStream
      <3> QED  BY <3>1, <3>2, <3>3
    <2>14. BandIsItsOwn'
      <3>1. sessions' # <<>> => sessions # <<>> /\ Len(sessions) \in Ids
        BY <2>2, <2>8, InFlight
      <3>2. \A t \in Ids : sessions'[t].killed = sessions[t].killed /\ sessions'[t].printed = sessions[t].printed
        BY <2>5, <2>8
      <3> QED  BY <1>1, <2>8, <3>1, <3>2 DEF RunsInv, BandIsItsOwn
    <2>15. NothingRunsUnseen'
      BY <1>1, <2>5, <2>8 DEF RunsInv, NothingRunsUnseen
    <2>16. RunIsRead'
      BY <1>1, <2>6, <2>7, <2>9, InFlight DEF RunsInv, RunIsRead
    <2> QED  BY <2>9, <2>10, <2>11, <2>12, <2>13, <2>14, <2>15, <2>16 DEF RunsInv
  <1> QED  BY <1>2, <1>3
-----------------------------------------------------------------------------
(* A step of the editor.                                                   *)

\* What a kill changes of the sessions.
LEMMA KilledOnly ==
    ASSUME RunsInv, NEW K
    PROVE  /\ Killed(K) \in Seq(Processes) /\ Len(Killed(K)) = Len(sessions) /\ DOMAIN Killed(K) = Ids
           /\ \A s \in Ids : /\ Killed(K)[s].running = sessions[s].running /\ Killed(K)[s].open = sessions[s].open
                             /\ Killed(K)[s].printed = sessions[s].printed /\ Killed(K)[s].events = sessions[s].events
                             /\ Killed(K)[s].chan = sessions[s].chan /\ Killed(K)[s].forwarding = sessions[s].forwarding
                             /\ Killed(K)[s].killed = (s \in K \/ sessions[s].killed)
  <1>1. sessions \in Seq(Processes) /\ Len(sessions) \in Nat /\ Ids = 1..Len(sessions) /\ \A s \in Ids : sessions[s] \in Processes
    BY DEF RunsInv, ShapeInv, Ids
  <1>2. \A s \in Ids : Killed(K)[s] = IF s \in K THEN [sessions[s] EXCEPT !.killed = TRUE] ELSE sessions[s]
    BY DEF Killed
  <1>3. ASSUME NEW s \in Ids
        PROVE  /\ Killed(K)[s] \in Processes
               /\ Killed(K)[s].running = sessions[s].running /\ Killed(K)[s].open = sessions[s].open
               /\ Killed(K)[s].printed = sessions[s].printed /\ Killed(K)[s].events = sessions[s].events
               /\ Killed(K)[s].chan = sessions[s].chan /\ Killed(K)[s].forwarding = sessions[s].forwarding
               /\ Killed(K)[s].killed = (s \in K \/ sessions[s].killed)
    <2>1. CASE s \in K
      BY <1>1, <1>2, <2>1, ZenonT(60) DEF Processes
    <2>2. CASE s \notin K
      <3>1. Killed(K)[s] = sessions[s] /\ sessions[s] \in Processes /\ sessions[s].killed \in BOOLEAN
        BY <1>1, <1>2, <2>2 DEF Processes
      <3> QED  BY <2>2, <3>1
    <2> QED  BY <2>1, <2>2
  <1>4. Killed(K) \in [1..Len(sessions) -> Processes]
    <2>1. DOMAIN Killed(K) = 1..Len(sessions) /\ Killed(K) = [s \in 1..Len(sessions) |-> Killed(K)[s]]
      BY <1>1 DEF Killed
    <2> QED  BY <1>1, <1>3, <2>1
  <1>5. Killed(K) \in Seq(Processes) /\ Len(Killed(K)) = Len(sessions) /\ DOMAIN Killed(K) = Ids
    BY <1>1, <1>4
  <1> QED  BY <1>3, <1>5

\* Nothing is killed.
LEMMA KilledNone ==
    ASSUME RunsInv
    PROVE  Killed({}) = sessions
  <1>1. sessions \in Seq(Processes)
    BY DEF RunsInv, ShapeInv
  <1>2. sessions = [s \in Ids |-> sessions[s]]
    BY <1>1 DEF Ids
  <1> QED  BY <1>2 DEF Killed

\* The messages that are left, when one of them has been handled or none.
LEMMA FewerMessages ==
    ASSUME RunsInv, inbox' = inbox \/ \E i \in DOMAIN inbox : inbox' = RemoveAt(inbox, i)
    PROVE  /\ inbox' \in Seq([of : Int, says : Int]) /\ Len(inbox') \in Nat /\ Len(inbox) \in Nat /\ Len(inbox') <= Len(inbox)
           /\ \A j \in DOMAIN inbox' : \E k \in DOMAIN inbox : inbox'[j] = inbox[k]
           /\ (\A j, k \in DOMAIN inbox : j # k => inbox[j].of # inbox[k].of)
                => \A j, k \in DOMAIN inbox' : j # k => inbox'[j].of # inbox'[k].of
  <1>1. inbox \in Seq([of : Int, says : Int]) /\ Len(inbox) \in Nat
    BY DEF RunsInv, ShapeInv
  <1>2. CASE inbox' = inbox
    BY <1>1, <1>2
  <1>3. CASE \E i \in DOMAIN inbox : inbox' = RemoveAt(inbox, i)
    <2>1. PICK i \in DOMAIN inbox : inbox' = RemoveAt(inbox, i)
      BY <1>3
    <2>2. /\ inbox' \in Seq([of : Int, says : Int]) /\ Len(inbox') = Len(inbox) - 1
          /\ \A j \in DOMAIN inbox' : inbox'[j] = IF j < i THEN inbox[j] ELSE inbox[j + 1]
          /\ \A j \in DOMAIN inbox' : (IF j < i THEN j ELSE j + 1) \in DOMAIN inbox
      BY <1>1, <2>1, TakesOut
    <2>3. \A j \in DOMAIN inbox' : \E k \in DOMAIN inbox : inbox'[j] = inbox[k]
      BY <2>2
    <2>4. ASSUME NEW j \in DOMAIN inbox', NEW k \in DOMAIN inbox', j # k, \A a, b \in DOMAIN inbox : a # b => inbox[a].of # inbox[b].of
          PROVE  inbox'[j].of # inbox'[k].of
      <3>1. \E a, b \in DOMAIN inbox : a # b /\ inbox'[j] = inbox[a] /\ inbox'[k] = inbox[b]
        BY <1>1, <2>1, <2>4, TakesOutApart
      <3> QED  BY <2>4, <3>1
    <2>5. Len(inbox') \in Nat /\ Len(inbox') <= Len(inbox)
      BY <1>1, <2>2
    <2> QED  BY <1>1, <2>2, <2>3, <2>4, <2>5
  <1> QED  BY <1>2, <1>3

\* A step after which nothing is in flight, and whatever ran has been killed.
LEMMA StopsKeep ==
    ASSUME NothingIsOutput, RunsInv, NEW K, sessions' = Killed(K), Live' = 0,
           \A s \in Ids : sessions[s].running /\ ~sessions[s].killed => s \in K,
           inbox' = inbox \/ \E i \in DOMAIN inbox : inbox' = RemoveAt(inbox, i),
           UNCHANGED <<readers, quitting>>, crossed' \in BOOLEAN, crossed => crossed', rewound' \in BOOLEAN,
           BandInv', OwnerInv', FiledInv', BandIsItsOwn'
    PROVE  RunsInv'
  <1>1. /\ sessions' \in Seq(Processes) /\ Len(sessions') = Len(sessions) /\ Ids' = Ids
        /\ \A s \in Ids : /\ sessions'[s].running = sessions[s].running /\ sessions'[s].open = sessions[s].open
                          /\ sessions'[s].events = sessions[s].events
                          /\ sessions'[s].killed = (s \in K \/ sessions[s].killed)
    BY KilledOnly DEF Ids
  <1>2. /\ inbox' \in Seq([of : Int, says : Int]) /\ Len(inbox') \in Nat /\ Len(inbox) \in Nat /\ Len(inbox') <= Len(inbox)
        /\ \A j \in DOMAIN inbox' : \E k \in DOMAIN inbox : inbox'[j] = inbox[k]
    BY FewerMessages
  <1>3. (\A j, k \in DOMAIN inbox : j # k => inbox[j].of # inbox[k].of)
           => \A j, k \in DOMAIN inbox' : j # k => inbox'[j].of # inbox'[k].of
    BY FewerMessages
  <1>4. ShapeInv'
    <2>1. \A j \in DOMAIN inbox' : inbox'[j].of \in Ids
      BY <1>2 DEF RunsInv, ShapeInv
    <2>2. ASSUME NEW s \in Ids, sessions'[s].running
          PROVE  sessions'[s].open /\ \A i \in DOMAIN sessions'[s].events : sessions'[s].events[i] # Done
      <3>1. sessions[s].open /\ \A i \in DOMAIN sessions[s].events : sessions[s].events[i] # Done
        BY <1>1, <2>2 DEF RunsInv, ShapeInv
      <3>2. sessions'[s].open = sessions[s].open /\ sessions'[s].events = sessions[s].events
        BY <1>1
      <3> QED  BY <3>1, <3>2
    <2>3. readers' \in Seq(Nat) /\ Len(readers') = Len(sessions') /\ quitting' \in BOOLEAN
      BY <1>1 DEF RunsInv, ShapeInv
    <2> QED  BY <1>1, <1>2, <2>1, <2>2, <2>3 DEF ShapeInv
  <1>5. HandedOn'
    <2>1. readers \in Seq(Nat) /\ Len(readers) = Len(sessions) /\ Len(sessions) \in Nat
      BY DEF RunsInv, ShapeInv
    <2>2. PICK sum \in [0..Len(readers) -> 0..Len(sessions)] :
             AddsUp(sum, readers) /\ sum[Len(readers)] + Len(inbox) <= Len(sessions)
      BY DEF RunsInv, HandedOn
    <2>3. sum[Len(readers)] \in Nat
      BY <2>1, <2>2
    <2>4. sum[Len(readers)] + Len(inbox') <= Len(sessions)
      BY <1>2, <2>1, <2>2, <2>3
    <2> QED  BY <1>1, <2>2, <2>4 DEF HandedOn
  <1>6. OneHandles'
    <2>1. \A s \in Ids : ~crossed => readers[s] \in {0, 1} /\ (readers[s] = 1 => \A i \in DOMAIN inbox' : inbox'[i].of # s)
      BY <1>2 DEF RunsInv, OneHandles
    <2> QED  BY <1>1, <1>3, <2>1 DEF RunsInv, OneHandles
  <1>7. EndComes' /\ OwnStream' /\ RunIsRead'
    BY DEF EndComes, OwnStream, RunIsRead
  <1>8. NothingRunsUnseen'
    BY <1>1 DEF NothingRunsUnseen
  <1> QED  BY <1>4, <1>5, <1>6, <1>7, <1>8 DEF RunsInv

\* A step that only the books are about: who owns the run, its row, the undo stack.
LEMMA BooksKeep ==
    ASSUME RunsInv, UNCHANGED <<band, sessions, filed, readers, inbox, quitting, crossed>>, rewound' \in BOOLEAN,
           OwnerInv', FiledInv'
    PROVE  RunsInv'
  <1>1. Live' = Live /\ Ids' = Ids
    BY DEF Live, Ids
  <1>2. ShapeInv' /\ BandInv' /\ HandedOn' /\ OneHandles' /\ EndComes'
    BY <1>1 DEF RunsInv, ShapeInv, BandInv, HandedOn, OneHandles, EndComes
  <1>3. OwnStream'
    BY <1>1 DEF RunsInv, OwnStream, FailedRun, GoodRun, Left
  <1>4. BandIsItsOwn' /\ NothingRunsUnseen' /\ RunIsRead'
    BY <1>1 DEF RunsInv, BandIsItsOwn, NothingRunsUnseen, RunIsRead
  <1> QED  BY <1>2, <1>3, <1>4 DEF RunsInv

\* What a band shows, and the row it makes.
LEMMA Rows ==
    ASSUME NothingIsOutput, NEW b \in Bands \cup {NoBand}
    PROVE  /\ Lines(b) \in ScreenTexts /\ RowOf(b) \in (ScreenTexts \ {<<>>}) \cup {NoOutput}
           /\ b # NoBand => b \in Bands /\ b.out \in ScreenTexts /\ b.scr \in ScreenTexts \cup {NoScreen} /\ b.live \in Nat
           /\ Lines(b) = <<>> => RowOf(b) = NoOutput
  <1>1. <<>> \in ScreenTexts
    BY DEF ScreenTexts
  <1>2. b # NoBand => b \in Bands /\ b.out \in ScreenTexts /\ b.scr \in ScreenTexts \cup {NoScreen} /\ b.live \in Nat
    BY DEF Bands
  <1>3. Lines(b) \in ScreenTexts
    BY <1>1, <1>2 DEF Lines
  <1> QED  BY <1>2, <1>3 DEF RowOf

\* finishRun: the run was stopped, or its end has come and everything it printed is on the screen.
LEMMA FinishedKeeps ==
    ASSUME NothingIsOutput, RunsInv, NEW K, Finished(band, K),
           inbox' = inbox \/ \E i \in DOMAIN inbox : inbox' = RemoveAt(inbox, i),
           UNCHANGED <<owner, readers, past, quitting>>, crossed' \in BOOLEAN, crossed => crossed',
           rewound' \in BOOLEAN, owner.kind = "node" => ~rewound',
           Live # 0 /\ ~crossed' => Live \in K \/ Len(band.scr) = sessions[Live].printed
    PROVE  RunsInv'
  <1> DEFINE S == K \cup DropKills
             b == Ensured(band)
             r == [b EXCEPT !.live = 0, !.loaded = TRUE]
  <1>1. band' = r /\ disk' = RowOf(band) /\ sessions' = Killed(S) /\ filed' = 0
    BY DEF Finished
  <1>2. band \in Bands \cup {NoBand} /\ (band # NoBand => band \in Bands)
    BY DEF RunsInv, BandInv
  <1>3. NewBand \in Bands /\ NewBand.scr = NoScreen /\ NewBand.out = <<>>
    BY DEF NewBand, Bands, ScreenTexts
  <1>4. b \in Bands /\ (band # NoBand => b = band) /\ (band = NoBand => b = NewBand)
    BY <1>2, <1>3 DEF Ensured
  <1>5. r \in Bands /\ r.live = 0 /\ r.loaded = TRUE /\ r.scr = b.scr /\ r.out = b.out
    BY <1>4 DEF Bands
  <1>6. r # NoBand
    BY <1>5 DEF NothingIsOutput
  <1> HIDE DEF b, r, S
  <1>7. Live' = 0
    BY <1>1, <1>5, <1>6 DEF Live
  <1>8. Lines(r) = Lines(band)
    <2>1. Lines(r) = IF b.scr = NoScreen THEN b.out ELSE b.scr
      BY <1>5, <1>6 DEF Lines
    <2> QED  BY <1>3, <1>4, <2>1 DEF Lines
  <1>9. RowOf(r) = RowOf(band)
    BY <1>8 DEF RowOf
  <1>10. /\ Len(sessions') = Len(sessions) /\ sessions' \in Seq(Processes) /\ Ids' = Ids
         /\ \A s \in Ids : sessions'[s].printed = sessions[s].printed /\ sessions'[s].killed = (s \in S \/ sessions[s].killed)
    BY <1>1, KilledOnly DEF Ids
  <1>11. Len(sessions) \in Nat /\ Ids = 1..Len(sessions)
    BY InFlight
  <1>12. BandInv'
    <2>1. filed' \in 0..Len(sessions)
      BY <1>1, <1>11
    <2> QED  BY <1>1, <1>5, <1>7, <1>10, <2>1 DEF BandInv
  <1>13. OwnerInv'
    <2>1. disk' \in (ScreenTexts \ {<<>>}) \cup {NoOutput}
      BY <1>1, <1>2, Rows
    <2>2. owner = [kind |-> "node", there |-> FALSE] => Lines(band)' = <<>> /\ disk' = NoOutput
      <3>1. Lines(band)' = Lines(r)
        BY <1>1 DEF Lines
      <3> QED  BY <1>1, <1>2, <1>8, <3>1, Rows DEF RunsInv, OwnerInv
    <2> QED  BY <1>7, <2>1, <2>2 DEF RunsInv, OwnerInv
  <1>14. FiledInv'
    <2>1. RowOf(band)' = RowOf(r)
      BY <1>1 DEF RowOf, Lines
    <2> QED  BY <1>1, <1>9, <2>1 DEF FiledInv
  <1>15. BandIsItsOwn'
    <2> SUFFICES ASSUME ~crossed', sessions' # <<>>, r.scr # NoScreen
                 PROVE  LET s == Len(sessions)
                        IN  /\ \A i \in DOMAIN r.scr : r.scr[i] = <<s, i>>
                            /\ ~sessions'[s].killed => Len(r.scr) = sessions'[s].printed
      BY <1>1, <1>10 DEF BandIsItsOwn
    <2> DEFINE s == Len(sessions)
    <2>1. sessions # <<>> /\ s \in Ids
      BY <1>10, <1>11
    <2>2. band # NoBand /\ r.scr = band.scr
      BY <1>3, <1>4, <1>5
    <2>3. /\ \A i \in DOMAIN band.scr : band.scr[i] = <<s, i>>
          /\ band.live = 0 /\ ~sessions[s].killed => Len(band.scr) = sessions[s].printed
      BY <2>1, <2>2 DEF RunsInv, BandIsItsOwn
    <2>4. band.live # 0 => Live = s
      BY <2>2, InFlight DEF Live
    <2>5. ~sessions'[s].killed => ~sessions[s].killed /\ s \notin K
      BY <1>10, <2>1 DEF S
    <2>6. ~sessions'[s].killed => Len(band.scr) = sessions[s].printed
      <3>1. CASE band.live = 0
        BY <2>3, <2>5, <3>1
      <3>2. CASE band.live # 0
        <4>1. Live # 0 /\ Live = s
          BY <2>2, <2>4, <3>2, <2>1, <1>11
        <4> QED  BY <2>5, <4>1
      <3> QED  BY <3>1, <3>2
    <2>7. sessions'[s].printed = sessions[s].printed
      BY <1>10, <2>1
    <2> QED  BY <2>2, <2>3, <2>6, <2>7
  <1>16. \A s \in Ids : sessions[s].running /\ ~sessions[s].killed => s \in S
    <2>1. \A s \in Ids : sessions[s].running /\ ~sessions[s].killed => Live = s /\ Live # 0
      BY <1>11 DEF RunsInv, NothingRunsUnseen
    <2>2. Live # 0 => filed = Live
      BY DEF RunsInv, BandInv
    <2> QED  BY <2>1, <2>2 DEF S, DropKills
  <1> QED  BY <1>1, <1>7, <1>12, <1>13, <1>14, <1>15, <1>16, StopsKeep
\* The sum of the commands and the messages, when a message is handled and a command issued for it.
LEMMA OneHandled ==
    ASSUME NothingIsOutput, RunsInv, NEW s \in Ids, readers' = [readers EXCEPT ![s] = @ + 1],
           Len(sessions') = Len(sessions), Len(inbox') = Len(inbox) - 1, Len(inbox) > 0
    PROVE  HandedOn' /\ readers' \in Seq(Nat) /\ Len(readers') = Len(readers) /\ \A t \in Ids : readers'[t] = IF t = s THEN readers[s] + 1 ELSE readers[t]
  <1>1. readers \in Seq(Nat) /\ Len(readers) = Len(sessions) /\ DOMAIN readers = Ids /\ Len(sessions) \in Nat /\ Len(inbox) \in Nat
    BY DEF RunsInv, ShapeInv, Ids
  <1>2. readers[s] \in Nat /\ readers[s] + 1 \in Nat
    BY <1>1
  <1>3. readers' \in Seq(Nat) /\ Len(readers') = Len(readers) /\ \A t \in Ids : readers'[t] = IF t = s THEN readers[s] + 1 ELSE readers[t]
    BY <1>1, <1>2
  <1>4. PICK sum \in [0..Len(readers) -> 0..Len(sessions)] :
           AddsUp(sum, readers) /\ sum[Len(readers)] + Len(inbox) <= Len(sessions)
    BY DEF RunsInv, HandedOn
  <1>a. sum[Len(readers)] \in Nat
    BY <1>1, <1>4
  <1>5. PICK more \in [0..Len(readers) -> 0..Len(sessions)] : AddsUp(more, readers') /\ more[Len(readers)] = sum[Len(readers)] + 1
    <2> DEFINE counts == readers
               top == Len(sessions)
    <2>1. counts \in Seq(Nat) /\ s \in DOMAIN counts /\ top \in Nat
      BY <1>1
    <2>2. sum \in [0..Len(counts) -> 0..top] /\ AddsUp(sum, counts)
      BY <1>4
    <2>3. sum[Len(counts)] + 1 <= top
      BY <1>1, <1>4, <1>a
    <2> HIDE DEF counts, top
    <2>4. \E more \in [0..Len(counts) -> 0..top] :
             AddsUp(more, [counts EXCEPT ![s] = @ + 1]) /\ more[Len(counts)] = sum[Len(counts)] + 1
      BY ONLY <2>1, <2>2, <2>3, OneMore
    <2> QED  BY <2>4 DEF counts, top
  <1>6. more[Len(readers)] + Len(inbox') <= Len(sessions)
    BY <1>1, <1>4, <1>5, <1>a
  <1>7. HandedOn'
    BY <1>3, <1>5, <1>6 DEF HandedOn
  <1> QED  BY <1>3, <1>7

\* The end of a stream.
LEMMA DoneKeeps ==
    ASSUME NothingIsOutput, RunsInv, NEW i \in DOMAIN inbox, Handles(i), inbox[i].says = Done
    PROVE  RunsInv'
  <1>1. /\ ~quitting /\ inbox' = RemoveAt(inbox, i) /\ Finished(band, {})
        /\ crossed' = (crossed \/ (Live # 0 /\ inbox[i].of # Live))
        /\ UNCHANGED <<owner, readers, past, quitting, rewound>>
    BY DEF Handles
  <1>2. rewound \in BOOLEAN /\ crossed \in BOOLEAN /\ (owner.kind = "node" => ~rewound)
    BY DEF RunsInv, ShapeInv, FiledInv
  <1>3. Live # 0 /\ ~crossed' => Len(band.scr) = sessions[Live].printed
    <2> SUFFICES ASSUME Live # 0, ~crossed, inbox[i].of = Live PROVE Len(band.scr) = sessions[Live].printed
      BY <1>1
    <2>1. Len(band.scr) \in Nat
      <3>1. band.scr \in Seq(Nat \X Int)
        BY InFlight DEF ScreenTexts
      <3> QED  BY <3>1
    <2>2. FailedRun(Live, band.scr) \/ GoodRun(Live, band.scr)
      BY <1>1 DEF RunsInv, OwnStream
    <2>3. FailedRun(Live, band.scr) => Len(band.scr) = sessions[Live].printed
      BY DEF FailedRun
    <2>4. GoodRun(Live, band.scr) => Len(band.scr) = sessions[Live].printed
      <3>1. Len(band.scr) + 1 # Done
        BY <2>1 DEF Done
      <3> QED  BY <3>1 DEF GoodRun
    <2> QED  BY <2>2, <2>3, <2>4
  <1>4. crossed' \in BOOLEAN /\ (crossed => crossed')
    BY <1>1, <1>2
  <1> QED  BY <1>1, <1>2, <1>3, <1>4, FinishedKeeps

\* Output of a run that is not in flight any more.
LEMMA LateKeeps ==
    ASSUME NothingIsOutput, RunsInv, NEW i \in DOMAIN inbox, Handles(i), inbox[i].says # Done, Live = 0
    PROVE  RunsInv'
  <1>1. /\ ~quitting /\ inbox' = RemoveAt(inbox, i) /\ crossed' = crossed
        /\ UNCHANGED <<owner, band, sessions, filed, readers, disk, past, quitting, rewound>>
    <2>1. crossed \in BOOLEAN
      BY DEF RunsInv, ShapeInv
    <2> QED  BY <2>1 DEF Handles, Shown
  <1>2. Live' = 0 /\ sessions' = Killed({})
    BY <1>1, KilledNone DEF Live
  <1>3. \A s \in Ids : sessions[s].running /\ ~sessions[s].killed => s \in {}
    BY InFlight DEF RunsInv, NothingRunsUnseen
  <1>4. crossed' \in BOOLEAN /\ rewound' \in BOOLEAN
    BY <1>1 DEF RunsInv, ShapeInv
  <1>5. BandInv' /\ OwnerInv' /\ FiledInv' /\ BandIsItsOwn'
    BY <1>1 DEF RunsInv, BandInv, OwnerInv, FiledInv, BandIsItsOwn, Live, Lines, RowOf
  <1> QED  BY <1>1, <1>2, <1>3, <1>4, <1>5, StopsKeep

\* Output of the run in flight.
LEMMA ShownKeeps ==
    ASSUME NothingIsOutput, RunsInv, NEW i \in DOMAIN inbox, Handles(i), inbox[i].says # Done, Live # 0
    PROVE  RunsInv'
  <1> DEFINE m == inbox[i]
             s == Live
             r == IF m.says = Error THEN [band EXCEPT !.out = Append(@, <<m.of, Error>>)]
                                    ELSE [band EXCEPT !.scr = Append(@, <<m.of, m.says>>)]
  <1>1. /\ ~quitting /\ inbox' = RemoveAt(inbox, i) /\ crossed' = (crossed \/ m.of # s)
        /\ UNCHANGED <<owner, sessions, filed, disk, past, quitting, rewound>>
    BY DEF Handles
  <1>2. band' = r /\ readers' = [readers EXCEPT ![band.live] = @ + 1]
    BY DEF Handles, Shown
  <1>3. /\ Len(sessions) \in Nat /\ Ids = 1..Len(sessions) /\ band \in Bands /\ band # NoBand /\ band.live = s
        /\ s = Len(sessions) /\ s \in Ids /\ band.scr \in ScreenTexts /\ band.scr # NoScreen
    BY InFlight
  <1>4. inbox \in Seq([of : Int, says : Int]) /\ m.says \in Int /\ m.of \in Ids /\ sessions \in Seq(Processes)
    <2>1. inbox \in Seq([of : Int, says : Int]) /\ m.of \in Ids /\ sessions \in Seq(Processes)
      BY DEF RunsInv, ShapeInv
    <2>2. inbox[i] \in [of : Int, says : Int]
      <3>1. i \in DOMAIN inbox
        OBVIOUS
      <3>2. i \in 1..Len(inbox)
        BY ONLY <2>1, <3>1
      <3> QED  BY ONLY <2>1, <3>2, ElementOfSeq
    <2> QED  BY <2>1, <2>2
  <1>5. band.scr \in Seq(Nat \X Int) /\ band.out \in Seq(Nat \X Int) /\ Len(band.scr) \in Nat
    BY <1>3 DEF Bands, ScreenTexts
  <1>6. /\ r \in Bands /\ r.live = s /\ r.loaded = band.loaded
        /\ r.scr = (IF m.says = Error THEN band.scr ELSE Append(band.scr, <<m.of, m.says>>)) /\ r.scr \in Seq(Nat \X Int)
    <2>1. <<m.of, Error>> \in Nat \X Int /\ <<m.of, m.says>> \in Nat \X Int
      BY <1>3, <1>4 DEF Error
    <2>2. Append(band.out, <<m.of, Error>>) \in Seq(Nat \X Int) /\ Append(band.scr, <<m.of, m.says>>) \in Seq(Nat \X Int)
      BY <1>5, <2>1
    <2>3. CASE m.says = Error
      <3>1. r = [band EXCEPT !.out = Append(@, <<m.of, Error>>)]
        BY <2>3
      <3> HIDE DEF r
      <3> QED  BY <1>3, <1>5, <2>2, <2>3, <3>1 DEF Bands, ScreenTexts
    <2>4. CASE m.says # Error
      <3>1. r = [band EXCEPT !.scr = Append(@, <<m.of, m.says>>)]
        BY <2>4
      <3> HIDE DEF r
      <3> QED  BY <1>3, <1>5, <2>2, <2>4, <3>1 DEF Bands, ScreenTexts
    <2> QED  BY <2>3, <2>4
  <1> HIDE DEF r
  <1>7. r # NoBand /\ Live' = s
    <2>1. r # NoBand
      BY <1>6 DEF NothingIsOutput
    <2> QED  BY <1>2, <1>6, <2>1 DEF Live
  <1>8. /\ inbox' \in Seq([of : Int, says : Int]) /\ Len(inbox') = Len(inbox) - 1
        /\ \A j \in DOMAIN inbox' : \E k \in DOMAIN inbox : inbox'[j] = inbox[k]
        /\ \A k \in DOMAIN inbox : k # i => \E j \in DOMAIN inbox' : inbox'[j] = inbox[k]
    <2>1. inbox' = RemoveAt(inbox, i)
      BY <1>1
    <2>2. /\ inbox' \in Seq([of : Int, says : Int]) /\ Len(inbox') = Len(inbox) - 1
          /\ \A k \in DOMAIN inbox : k # i => \E j \in DOMAIN inbox' : inbox'[j] = inbox[k]
      <3>1. inbox \in Seq([of : Int, says : Int]) /\ i \in DOMAIN inbox
        BY <1>4
      <3>2. /\ RemoveAt(inbox, i) \in Seq([of : Int, says : Int]) /\ Len(RemoveAt(inbox, i)) = Len(inbox) - 1
            /\ \A k \in DOMAIN inbox : k # i => \E j \in DOMAIN RemoveAt(inbox, i) : RemoveAt(inbox, i)[j] = inbox[k]
        BY ONLY <3>1, TakesOut
      <3> QED  BY <2>1, <3>2
    <2> QED  BY <2>1, <2>2, FewerMessages
  <1>9. /\ (\A j, k \in DOMAIN inbox : j # k => inbox[j].of # inbox[k].of)
              => \A j, k \in DOMAIN inbox' : j # k => inbox'[j].of # inbox'[k].of
    BY <1>1, FewerMessages
  <1>10. HandedOn' /\ readers' \in Seq(Nat) /\ Len(readers') = Len(readers)
         /\ \A t \in Ids : readers'[t] = IF t = s THEN readers[s] + 1 ELSE readers[t]
    <2>1. Len(inbox) > 0 /\ Len(sessions') = Len(sessions) /\ readers' = [readers EXCEPT ![s] = @ + 1]
      BY <1>1, <1>2, <1>3, <1>4
    <2> QED  BY <1>3, <1>8, <2>1, OneHandled
  <1>11. ShapeInv'
    <2>1. \A j \in DOMAIN inbox' : inbox'[j].of \in Ids
      BY <1>8 DEF RunsInv, ShapeInv
    <2>2. crossed' \in BOOLEAN
      BY <1>1 DEF RunsInv, ShapeInv
    <2> QED  BY <1>1, <1>8, <1>10, <2>1, <2>2, ZenonT(60) DEF RunsInv, ShapeInv, Ids
  <1>12. BandInv'
    <2>1. r.scr # NoScreen
      BY <1>6 DEF NothingIsOutput, ScreenTexts
    <2> QED  BY <1>1, <1>2, <1>3, <1>6, <1>7, <2>1 DEF RunsInv, BandInv
  <1>13. OwnerInv' /\ FiledInv'
    BY <1>1, <1>7 DEF RunsInv, OwnerInv, FiledInv
  <1>14. ~crossed' => ~crossed /\ m.of = s /\ readers[s] = 0 /\ \A j \in DOMAIN inbox' : inbox'[j].of # s
    <2> SUFFICES ASSUME ~crossed, m.of = s PROVE readers[s] = 0 /\ \A j \in DOMAIN inbox' : inbox'[j].of # s
      BY <1>1
    <2>1. readers[s] \in {0, 1} /\ (readers[s] = 1 => inbox[i].of # s)
      BY <1>3 DEF RunsInv, OneHandles
    <2>2. ASSUME NEW j \in DOMAIN inbox' PROVE inbox'[j].of # s
      <3>1. inbox' = RemoveAt(inbox, i)
        BY <1>1
      <3>2. /\ inbox'[j] = IF j < i THEN inbox[j] ELSE inbox[j + 1]
            /\ (IF j < i THEN j ELSE j + 1) \in DOMAIN inbox
        BY <1>4, <3>1, TakesOut, ZenonT(60)
      <3>3. j \in Nat /\ i \in Nat
        <4>1. i \in 1..Len(inbox) /\ j \in 1..Len(inbox') /\ Len(inbox) \in Nat /\ Len(inbox') \in Nat
          <5>1. i \in DOMAIN inbox /\ j \in DOMAIN inbox'
            OBVIOUS
          <5>2. inbox \in Seq([of : Int, says : Int]) /\ inbox' \in Seq([of : Int, says : Int])
            BY <1>4, <1>8
          <5> QED  BY ONLY <5>1, <5>2, SMTT(40)
        <4> QED  BY <4>1
      <3>4. PICK k \in DOMAIN inbox : inbox'[j] = inbox[k] /\ k # i
        BY <3>2, <3>3
      <3> QED  BY <3>4 DEF RunsInv, OneHandles
    <2> QED  BY <2>1, <2>2
  <1>15. OneHandles'
    <2> SUFFICES ASSUME ~crossed'
                 PROVE  /\ \A t \in Ids : readers'[t] \in {0, 1} /\ (readers'[t] = 1 => \A j \in DOMAIN inbox' : inbox'[j].of # t)
                        /\ \A j, k \in DOMAIN inbox' : j # k => inbox'[j].of # inbox'[k].of
      BY <1>1 DEF OneHandles, Ids
    <2>1. ASSUME NEW t \in Ids PROVE readers'[t] \in {0, 1} /\ (readers'[t] = 1 => \A j \in DOMAIN inbox' : inbox'[j].of # t)
      <3>1. CASE t = s
        BY <1>10, <1>14, <3>1
      <3>2. CASE t # s
        <4>1. readers'[t] = readers[t]
          BY <1>10, <3>2
        <4>2. readers[t] \in {0, 1} /\ (readers[t] = 1 => \A j \in DOMAIN inbox : inbox[j].of # t)
          BY <1>14 DEF RunsInv, OneHandles
        <4> QED  BY <1>8, <4>1, <4>2
      <3> QED  BY <3>1, <3>2
    <2>2. \A j, k \in DOMAIN inbox' : j # k => inbox'[j].of # inbox'[k].of
      BY <1>9, <1>14 DEF RunsInv, OneHandles
    <2> QED  BY <2>1, <2>2
  <1>16. EndComes'
    <2>1. (\E j \in DOMAIN inbox : inbox[j].of = s /\ inbox[j].says = Done) => \E j \in DOMAIN inbox' : inbox'[j].of = s /\ inbox'[j].says = Done
      BY <1>8
    <2>2. EndComes
      BY DEF RunsInv
    <2> QED  BY <1>1, <1>7, <2>1, <2>2 DEF EndComes
  <1>17. ~crossed' => (FailedRun(s, band.scr) /\ m.says = Error) \/ (GoodRun(s, band.scr) /\ m.says = Len(band.scr) + 1)
    <2> SUFFICES ASSUME ~crossed' PROVE (FailedRun(s, band.scr) /\ m.says = Error) \/ (GoodRun(s, band.scr) /\ m.says = Len(band.scr) + 1)
      OBVIOUS
    <2>1. FailedRun(s, band.scr) \/ GoodRun(s, band.scr)
      BY <1>1, <1>14 DEF RunsInv, OwnStream
    <2>2. FailedRun(s, band.scr) => m.says \in {Error, Done}
      BY <1>14 DEF FailedRun
    <2>3. GoodRun(s, band.scr) => m.says = Len(band.scr) + 1 \/ m.says = Done
      BY <1>14 DEF GoodRun
    <2> QED  BY <2>1, <2>2, <2>3
  <1>18. OwnStream'
    <2> SUFFICES ASSUME ~crossed' PROVE FailedRun(Live, band.scr)' \/ GoodRun(Live, band.scr)'
      BY DEF OwnStream
    <2>a. Live' = Live /\ band' = r /\ sessions' = sessions
      BY <1>1, <1>2, <1>7
    <2>1. CASE FailedRun(s, band.scr) /\ m.says = Error
      <3>1. band'.scr = band.scr
        BY <1>6, <2>a, <2>1
      <3>2. FailedRun(s, band.scr)
        BY <2>1
      <3>3. \A j \in DOMAIN inbox' : inbox'[j].of = s => inbox'[j].says \in {Error, Done}
        BY <1>14
      <3> QED  BY <2>a, <3>1, <3>2, <3>3 DEF FailedRun
    <2>2. CASE GoodRun(s, band.scr) /\ m.says = Len(band.scr) + 1
      <3>1. m.says # Error
        <4>1. Len(band.scr) + 1 # -1
          BY <1>5
        <4> QED  BY <2>2, <4>1 DEF Error
      <3>2. r.scr = Append(band.scr, <<m.of, m.says>>) /\ <<m.of, m.says>> \in Nat \X Int
        BY <1>3, <1>4, <1>6, <3>1, SMTT(40)
      <3>3. Len(r.scr) = Len(band.scr) + 1
        BY <1>5, <3>2
      <3>4. Left(s, band.scr) = Len(band.scr) + 1
        BY <1>14 DEF Left
      <3>5. Left(Live, band.scr)' = Len(band.scr) + 1
        BY <1>14, <2>a, <3>3 DEF Left
      <3>6. GoodRun(s, band.scr)
        BY <2>2
      <3>7. GoodRun(Live, band.scr)'
        BY <1>14, <2>a, <3>4, <3>5, <3>6, ZenonT(60) DEF GoodRun
      <3> QED  BY <3>7
    <2> QED  BY <1>17, <2>1, <2>2
  <1>19. BandIsItsOwn'
    <2> SUFFICES ASSUME ~crossed' PROVE \A j \in DOMAIN r.scr : r.scr[j] = <<s, j>>
      BY <1>1, <1>2, <1>3, <1>6 DEF BandIsItsOwn
    <2>1. \A j \in DOMAIN band.scr : band.scr[j] = <<s, j>>
      <3>1. sessions # <<>>
        BY <1>3
      <3> QED  BY <1>3, <1>14, <3>1 DEF RunsInv, BandIsItsOwn
    <2>2. CASE m.says = Error
      BY <1>6, <2>1, <2>2
    <2>3. CASE m.says # Error
      <3>1. m.says = Len(band.scr) + 1 /\ m.of = s
        BY <1>14, <1>17, <2>3
      <3>2. r.scr = Append(band.scr, <<s, Len(band.scr) + 1>>) /\ <<s, Len(band.scr) + 1>> \in Nat \X Int
        BY <1>3, <1>5, <1>6, <2>3, <3>1
      <3>3. \A j \in DOMAIN r.scr : (j \in DOMAIN band.scr /\ r.scr[j] = band.scr[j]) \/ (j = Len(band.scr) + 1 /\ r.scr[j] = <<s, Len(band.scr) + 1>>)
        BY ONLY <1>5, <3>2, Appended, SMTT(40)
      <3> QED  BY <2>1, <3>3
    <2> QED  BY <2>2, <2>3
  <1>20. NothingRunsUnseen'
    BY <1>1, <1>7 DEF RunsInv, NothingRunsUnseen, Ids
  <1>21. RunIsRead'
    <2>1. readers[s] \in Nat
      BY <1>3 DEF RunsInv, ShapeInv, Ids
    <2>2. readers'[s] > 0
      BY <1>3, <1>10, <2>1
    <2> QED  BY <1>7, <2>2 DEF RunIsRead
  <1> QED  BY <1>10, <1>11, <1>12, <1>13, <1>15, <1>16, <1>18, <1>19, <1>20, <1>21 DEF RunsInv
\* A run starts.
LEMMA StartKeeps ==
    ASSUME NothingIsOutput, RunsInv, Start, Live = 0, owner.there, rewound' = FALSE,
           UNCHANGED <<owner, inbox, past, quitting, crossed>>
    PROVE  RunsInv'
  <1> DEFINE n == Len(sessions)
             s == n + 1
             old == Killed(DropKills)
  <1>1. PICK fails \in BOOLEAN :
           sessions' = Append(Killed(DropKills),
              [running |-> ~fails, killed |-> FALSE, printed |-> 0, open |-> ~fails, forwarding |-> TRUE, chan |-> <<>>,
               events |-> IF fails THEN <<Error, Done>> ELSE <<>>])
    BY DEF Start
  <1> DEFINE p == [running |-> ~fails, killed |-> FALSE, printed |-> 0, open |-> ~fails, forwarding |-> TRUE, chan |-> <<>>,
                   events |-> IF fails THEN <<Error, Done>> ELSE <<>>]
  <1>2. band' = NewScreen(s) /\ filed' = s /\ readers' = Append(readers, 1) /\ disk' = disk
    BY DEF Start
  <1>3. n \in Nat /\ Ids = 1..n /\ s \in Nat /\ s # 0
    BY InFlight
  <1>4. p \in Processes
    <2>1. <<Error, Done>> \in Seq(Int) /\ <<>> \in Seq(Int)
      BY DEF Error, Done
    <2> QED  BY <2>1 DEF Processes
  <1>5. /\ (p.running <=> ~fails) /\ ~p.killed /\ p.printed = 0 /\ (p.open <=> ~fails) /\ p.forwarding /\ p.chan = <<>>
        /\ fails => p.events = <<Error, Done>>
        /\ ~fails => p.events = <<>>
    OBVIOUS
  <1>6. old \in Seq(Processes) /\ Len(old) = n /\ \A t \in Ids : old[t].running = sessions[t].running /\ old[t].open = sessions[t].open
                              /\ old[t].events = sessions[t].events /\ old[t].killed = (t \in DropKills \/ sessions[t].killed)
    BY KilledOnly
  <1>7. sessions' = Append(old, p)
    BY <1>1
  <1> HIDE DEF p, old
  <1>8. /\ sessions' \in Seq(Processes) /\ Len(sessions') = s /\ sessions'[s] = p
        /\ \A t \in Ids : t \in Ids' /\ sessions'[t] = old[t]
        /\ \A t \in Ids' : t \in Ids \/ t = s
        /\ s \in Ids' /\ s \notin Ids
    <2>1. /\ sessions' \in Seq(Processes) /\ Len(sessions') = n + 1 /\ sessions'[n + 1] = p
          /\ \A t \in 1..n : sessions'[t] = old[t]
      BY ONLY <1>3, <1>4, <1>6, <1>7, AppendProperties
    <2>2. Ids' = 1..n + 1
      BY <1>3, <2>1 DEF Ids
    <2> QED  BY <1>3, <2>1, <2>2
  <1>9. readers \in Seq(Nat) /\ Len(readers) = n
    BY DEF RunsInv, ShapeInv
  <1>10. /\ readers' \in Seq(Nat) /\ Len(readers') = s /\ readers'[s] = 1
         /\ \A t \in Ids : readers'[t] = readers[t]
    <2>1. 1 \in Nat
      OBVIOUS
    <2>2. /\ readers' \in Seq(Nat) /\ Len(readers') = Len(readers) + 1 /\ readers'[Len(readers) + 1] = 1
          /\ \A t \in 1..Len(readers) : readers'[t] = readers[t]
      BY ONLY <1>2, <1>9, <2>1, AppendProperties
    <2> QED  BY <1>3, <1>9, <2>2
  <1>11. inbox \in Seq([of : Int, says : Int]) /\ Len(inbox) \in Nat /\ \A i \in DOMAIN inbox : inbox[i].of \in Ids /\ inbox[i].of # s
    BY <1>8 DEF RunsInv, ShapeInv
  <1>12. /\ band' \in Bands /\ band' # NoBand /\ band'.live = s /\ band'.loaded = TRUE /\ band'.scr = <<>> /\ Live' = s
    <2>1. band \in Bands \cup {NoBand}
      BY DEF RunsInv, BandInv
    <2>2. NewBand \in Bands
      BY DEF NewBand, Bands, ScreenTexts
    <2>3. Ensured(band) \in Bands
      BY <2>1, <2>2 DEF Ensured
    <2> DEFINE e == Ensured(band)
    <2>4. band' = [e EXCEPT !.live = s, !.loaded = TRUE, !.out = <<>>, !.scr = <<>>]
      BY <1>2 DEF NewScreen
    <2>e. e \in Bands
      BY <2>3
    <2> HIDE DEF e
    <2>5. band' \in Bands /\ band'.live = s /\ band'.loaded = TRUE /\ band'.scr = <<>>
      <3>1. <<>> \in ScreenTexts
        BY DEF ScreenTexts
      <3> QED  BY <1>3, <2>e, <2>4, <3>1 DEF Bands
    <2>6. band' # NoBand
      BY <2>5 DEF NothingIsOutput
    <2> QED  BY <2>5, <2>6 DEF Live
  <1>13. ShapeInv'
    <2>1. ASSUME NEW t \in Ids', sessions'[t].running
          PROVE  sessions'[t].open /\ \A i \in DOMAIN sessions'[t].events : sessions'[t].events[i] # Done
      <3>1. CASE t = s
        <4>1. p.open /\ p.events = <<>>
          BY <1>5, <1>8, <2>1, <3>1
        <4>2. sessions'[t].open /\ sessions'[t].events = <<>>
          BY <1>8, <3>1, <4>1
        <4> QED  BY <4>2
      <3>2. CASE t \in Ids
        <4>1. sessions[t].running /\ sessions'[t].open = sessions[t].open /\ sessions'[t].events = sessions[t].events
          BY <1>6, <1>8, <2>1, <3>2
        <4> QED  BY <3>2, <4>1 DEF RunsInv, ShapeInv
      <3> QED  BY <1>8, <3>1, <3>2
    <2>2. \A i \in DOMAIN inbox : inbox[i].of \in Ids'
      BY <1>8, <1>11
    <2>3. quitting \in BOOLEAN /\ crossed \in BOOLEAN
      BY DEF RunsInv, ShapeInv
    <2> QED  BY <1>8, <1>10, <1>11, <2>1, <2>2, <2>3 DEF ShapeInv
  <1>14. BandInv'
    <2>1. s \in 0..Len(sessions')
      BY <1>3, <1>8
    <2>2. <<>> # NoScreen
      <3>1. <<>> \in ScreenTexts
        BY DEF ScreenTexts
      <3> QED  BY <3>1 DEF NothingIsOutput
    <2> QED  BY <1>2, <1>8, <1>12, <2>1, <2>2 DEF BandInv
  <1>15. OwnerInv' /\ FiledInv'
    <2>1. owner # [kind |-> "node", there |-> FALSE]
      OBVIOUS
    <2> QED  BY <1>2, <1>3, <1>12, <2>1 DEF RunsInv, OwnerInv, FiledInv
  <1>16. HandedOn'
    <2>1. PICK sum \in [0..Len(readers) -> 0..n] : AddsUp(sum, readers) /\ sum[Len(readers)] + Len(inbox) <= n
      BY DEF RunsInv, HandedOn
    <2>2. sum[Len(readers)] \in 0..n
      BY <1>3, <1>9, <2>1
    <2> DEFINE counts == readers
               m == Len(sessions)
    <2>3. counts \in Seq(Nat) /\ m \in Nat /\ sum \in [0..Len(counts) -> 0..m] /\ AddsUp(sum, counts) /\ sum[Len(counts)] <= m
      BY <1>3, <1>9, <2>1, <2>2
    <2> HIDE DEF counts, m
    <2>4. \E more \in [0..Len(Append(counts, 1)) -> 0..m + 1] :
              AddsUp(more, Append(counts, 1)) /\ more[Len(Append(counts, 1))] = sum[Len(counts)] + 1
      BY ONLY <2>3, OneAnew
    <2>5. PICK more \in [0..Len(readers') -> 0..Len(sessions')] : AddsUp(more, readers') /\ more[Len(readers')] = sum[Len(readers)] + 1
      BY <1>2, <1>8, <2>4 DEF counts, m
    <2>6. more[Len(readers')] + Len(inbox) <= Len(sessions')
      <3>1. sum[Len(readers)] \in Nat
        BY <2>2
      <3> QED  BY <1>3, <1>8, <1>11, <2>1, <2>5, <3>1
    <2> QED  BY <2>5, <2>6 DEF HandedOn
  <1>17. OneHandles'
    <2> SUFFICES ASSUME ~crossed
                 PROVE  /\ \A t \in Ids' : readers'[t] \in {0, 1} /\ (readers'[t] = 1 => \A i \in DOMAIN inbox : inbox[i].of # t)
                        /\ \A i, j \in DOMAIN inbox : i # j => inbox[i].of # inbox[j].of
      BY DEF OneHandles
    <2>1. ASSUME NEW t \in Ids' PROVE readers'[t] \in {0, 1} /\ (readers'[t] = 1 => \A i \in DOMAIN inbox : inbox[i].of # t)
      <3>1. CASE t = s
        BY <1>10, <1>11, <3>1
      <3>2. CASE t \in Ids
        BY <1>10, <3>2 DEF RunsInv, OneHandles
      <3> QED  BY <1>8, <3>1, <3>2
    <2>2. \A i, j \in DOMAIN inbox : i # j => inbox[i].of # inbox[j].of
      BY DEF RunsInv, OneHandles
    <2> QED  BY <2>1, <2>2
  <1>18. EndComes'
    <2>1. ~p.running => p.events # <<>> /\ p.events[Len(p.events)] = Done
      <3>1. ~p.running => p.events = <<Error, Done>>
        BY <1>5
      <3>2. <<Error, Done>> # <<>> /\ <<Error, Done>>[Len(<<Error, Done>>)] = Done
        OBVIOUS
      <3> QED  BY <3>1, <3>2
    <2> QED  BY <1>5, <1>8, <1>12, <2>1 DEF EndComes
  <1>19. OwnStream'
    <2>1. CASE fails
      <3>1. \A i \in DOMAIN p.events : p.events[i] \in {Error, Done}
        BY <1>5, <2>1
      <3>2. ~p.running /\ p.printed = 0 /\ \A i \in DOMAIN p.chan : p.chan[i] \in {Error, Done}
        BY <1>5, <2>1
      <3>3. \A i \in DOMAIN inbox' : inbox'[i].of # s
        BY <1>11
      <3>4. Live' = s /\ band'.scr = <<>> /\ sessions'[s] = p
        BY <1>8, <1>12
      <3>5. FailedRun(Live, band.scr)'
        BY ONLY <3>1, <3>2, <3>3, <3>4 DEF FailedRun
      <3> QED  BY <3>5 DEF OwnStream
    <2>2. CASE ~fails
      <3>1. Left(Live, band.scr)' = 0
        BY <1>11, <1>12 DEF Left
      <3>2. p.running /\ p.forwarding /\ p.printed = 0 /\ p.chan = <<>> /\ p.events = <<>>
        BY <1>5, <2>2
      <3>3. DOMAIN p.chan = {} /\ DOMAIN p.events = {} /\ Len(p.chan) = 0 /\ Len(p.events) = 0 /\ p.printed = 0
        BY <3>2
      <3>4. \A i \in DOMAIN inbox' : inbox'[i].of # s
        BY <1>11
      <3>5. Live' = s /\ band'.scr = <<>> /\ sessions'[s] = p
        BY <1>8, <1>12
      <3>6. GoodRun(Live, band.scr)'
        <4>1. DOMAIN sessions'[s].chan = {} /\ DOMAIN sessions'[s].events = {} /\ Len(sessions'[s].chan) = 0
              /\ Len(sessions'[s].events) = 0 /\ sessions'[s].printed = 0 /\ sessions'[s].running /\ sessions'[s].forwarding
          BY <3>2, <3>3, <3>5
        <4>2. Left(Live, band.scr)' + Len(sessions'[s].chan) + Len(sessions'[s].events) = sessions'[s].printed
          BY <3>1, <4>1
        <4>3. /\ \A i \in DOMAIN inbox' : inbox'[i].of = s =>
                    \/ inbox'[i].says = Len(band'.scr) + 1
                    \/ inbox'[i].says = Done /\ ~sessions'[s].forwarding /\ sessions'[s].chan = <<>> /\ ~sessions'[s].running
                       /\ Len(band'.scr) = sessions'[s].printed
              /\ \A i \in DOMAIN sessions'[s].chan : sessions'[s].chan[i] = Left(Live, band.scr)' + i
              /\ \A i \in DOMAIN sessions'[s].events :
                    sessions'[s].events[i] = Left(Live, band.scr)' + Len(sessions'[s].chan) + i
          BY <3>4, <4>1
        <4>4. Live' = s
          BY <3>5
        <4> HIDE DEF s
        <4> QED  BY ONLY <4>1, <4>2, <4>3, <4>4 DEF GoodRun
      <3> QED  BY <3>6 DEF OwnStream
    <2> QED  BY <2>1, <2>2
  <1>20. BandIsItsOwn'
    <2>1. DOMAIN (<<>>) = {}
      OBVIOUS
    <2> QED  BY <1>3, <1>12, <2>1 DEF BandIsItsOwn
  <1>21. NothingRunsUnseen'
    <2>1. ASSUME NEW t \in Ids PROVE ~(old[t].running /\ ~old[t].killed)
      <3>1. ~(sessions[t].running /\ ~sessions[t].killed)
        BY <1>3 DEF RunsInv, NothingRunsUnseen
      <3>2. old[t].running = sessions[t].running /\ old[t].killed = (t \in DropKills \/ sessions[t].killed)
        BY <1>6
      <3> QED  BY <3>1, <3>2
    <2> QED  BY <1>8, <1>12, <2>1 DEF NothingRunsUnseen
  <1>22. RunIsRead'
    BY <1>10, <1>12 DEF RunIsRead
  <1> QED  BY <1>13, <1>14, <1>15, <1>16, <1>17, <1>18, <1>19, <1>20, <1>21, <1>22 DEF RunsInv

\* What the user stops.
LEMMA ToggleKeeps ==
    ASSUME NothingIsOutput, RunsInv, Toggle
    PROVE  RunsInv'
  <1>1. CASE Live # 0
    <2>1. Finished(band, {Live}) /\ UNCHANGED <<owner, readers, inbox, past, quitting, crossed>> /\ rewound' = FALSE
      BY <1>1 DEF Toggle
    <2>2. crossed' \in BOOLEAN
      BY <2>1 DEF RunsInv, ShapeInv
    <2> QED  BY <2>1, <2>2, FinishedKeeps
  <1>2. CASE Live = 0
    <2>1. Start /\ owner.there /\ UNCHANGED <<owner, inbox, past, quitting, crossed>> /\ rewound' = FALSE
      BY <1>2 DEF Toggle
    <2> QED  BY <1>2, <2>1, StartKeeps
  <1> QED  BY <1>1, <1>2

\* A step that leaves nothing in flight and no screen.
LEMMA ClearsKeep ==
    ASSUME NothingIsOutput, RunsInv, NEW K, sessions' = Killed(K), Live # 0 => Live \in K,
           band' = NoBand \/ (band' \in Bands /\ band'.live = 0 /\ band'.loaded = TRUE /\ band'.scr = NoScreen),
           filed' \in 0..Len(sessions), UNCHANGED <<readers, inbox, quitting, crossed>>, rewound' \in BOOLEAN,
           OwnerInv', FiledInv'
    PROVE  RunsInv'
  <1>1. Live' = 0 /\ crossed' \in BOOLEAN
    BY DEF Live, RunsInv, ShapeInv
  <1>2. Len(sessions') = Len(sessions) /\ Len(sessions) \in Nat
    BY KilledOnly, InFlight
  <1>3. BandInv'
    BY <1>1, <1>2 DEF BandInv
  <1>4. BandIsItsOwn'
    BY DEF BandIsItsOwn
  <1>5. \A s \in Ids : sessions[s].running /\ ~sessions[s].killed => s \in K
    BY InFlight DEF RunsInv, NothingRunsUnseen
  <1> QED  BY <1>1, <1>3, <1>4, <1>5, StopsKeep

LEMMA KillKeyKeeps ==
    ASSUME NothingIsOutput, RunsInv, KillKey
    PROVE  RunsInv'
  <1>1. owner.there /\ UNCHANGED <<owner, readers, inbox, past, quitting, crossed>> /\ rewound' = FALSE
    BY DEF KillKey
  <1>2. CASE Live # 0 /\ Finished(band, {Live})
    <2>1. crossed' \in BOOLEAN
      BY <1>1 DEF RunsInv, ShapeInv
    <2> QED  BY <1>1, <1>2, <2>1, FinishedKeeps
  <1>3. CASE /\ Live = 0 /\ Lines(band) # <<>>
             /\ band' = [band EXCEPT !.out = <<>>, !.scr = NoScreen, !.loaded = TRUE] /\ disk' = NoOutput
             /\ UNCHANGED <<sessions, filed>>
    <2>1. band # NoBand /\ band \in Bands /\ band.live = 0
      BY <1>3, InFlight DEF Lines
    <2>2. band' \in Bands /\ band'.live = 0 /\ band'.loaded = TRUE /\ band'.scr = NoScreen /\ band'.out = <<>>
      <3>1. <<>> \in ScreenTexts
        BY DEF ScreenTexts
      <3> QED  BY <1>3, <2>1, <3>1 DEF Bands
    <2>3. sessions' = Killed({}) /\ filed' \in 0..Len(sessions)
      BY <1>3, KilledNone DEF RunsInv, BandInv
    <2>4. OwnerInv'
      <3>1. owner # [kind |-> "node", there |-> FALSE]
        BY <1>1
      <3> QED  BY <1>1, <1>3, <3>1 DEF RunsInv, OwnerInv
    <2>5. FiledInv'
      <3>1. RowOf(band)' = NoOutput
        BY <2>2 DEF RowOf, Lines
      <3> QED  BY <1>1, <1>3, <3>1 DEF FiledInv
    <2> QED  BY <1>1, <1>3, <2>2, <2>3, <2>4, <2>5, ClearsKeep
  <1> QED  BY <1>2, <1>3 DEF KillKey

LEMMA LookKeeps ==
    ASSUME NothingIsOutput, RunsInv, Look
    PROVE  RunsInv'
  <1>1. owner.there /\ band' = Loaded(band) /\ Loaded(band) # band
        /\ UNCHANGED <<owner, sessions, filed, readers, inbox, disk, past, quitting, crossed, rewound>>
    BY DEF Look
  <1>2. band = NoBand
    BY <1>1 DEF RunsInv, BandInv, Loaded, Ensured
  <1>3. disk \in (ScreenTexts \ {<<>>}) \cup {NoOutput}
    BY DEF RunsInv, OwnerInv
  <1>4. band' = [NewBand EXCEPT !.loaded = TRUE, !.out = IF disk = NoOutput THEN @ ELSE disk]
    BY <1>1, <1>2 DEF Loaded, Ensured, NewBand
  <1>5. /\ band' \in Bands /\ band'.live = 0 /\ band'.loaded = TRUE /\ band'.scr = NoScreen
        /\ band'.out = IF disk = NoOutput THEN <<>> ELSE disk
    <2>1. <<>> \in ScreenTexts
      BY DEF ScreenTexts
    <2> QED  BY <1>3, <1>4, <2>1 DEF NewBand, Bands
  <1>6. sessions' = Killed({}) /\ filed' \in 0..Len(sessions) /\ Live = 0 /\ rewound' \in BOOLEAN
    BY <1>1, <1>2, KilledNone DEF RunsInv, BandInv, ShapeInv, Live
  <1>7. OwnerInv'
    <2>1. owner # [kind |-> "node", there |-> FALSE]
      BY <1>1
    <2> QED  BY <1>1, <2>1 DEF RunsInv, OwnerInv
  <1>8. FiledInv'
    <2>1. band' # NoBand
      BY <1>5 DEF NothingIsOutput
    <2>2. RowOf(band)' = disk
      BY <1>3, <1>5, <2>1 DEF RowOf, Lines
    <2> QED  BY <1>1, <2>2 DEF RunsInv, FiledInv
  <1> QED  BY <1>1, <1>5, <1>6, <1>7, <1>8, ClearsKeep

\* The row, or that there is none, goes onto the undo stack.
LEMMA RememberedRows ==
    ASSUME RunsInv, Remembered, owner.there
    PROVE  past' \in Seq([there : {TRUE}, row : (ScreenTexts \ {<<>>}) \cup {NoOutput}]) /\ past' # <<>>
  <1> DEFINE R == [there : {TRUE}, row : (ScreenTexts \ {<<>>}) \cup {NoOutput}]
             e == [there |-> owner.there, row |-> disk]
  <1>1. past \in Seq(R) /\ past' = Append(past, e)
    BY DEF RunsInv, OwnerInv, Remembered
  <1>2. e \in R
    BY DEF RunsInv, OwnerInv
  <1> HIDE DEF R, e
  <1>3. past' \in Seq(R) /\ past' # <<>>
    BY ONLY <1>1, <1>2, AppendProperties
  <1> QED  BY <1>3 DEF R

LEMMA TypeKeeps ==
    ASSUME RunsInv, Type
    PROVE  RunsInv'
  <1>1. past = <<>> /\ Remembered /\ UNCHANGED <<owner, band, sessions, filed, readers, inbox, disk, quitting, crossed, rewound>>
    BY DEF Type
  <1>2. owner.there
    BY <1>1 DEF RunsInv, OwnerInv
  <1>3. past' \in Seq([there : {TRUE}, row : (ScreenTexts \ {<<>>}) \cup {NoOutput}]) /\ past' # <<>>
    BY <1>1, <1>2, RememberedRows
  <1>4. OwnerInv' /\ FiledInv' /\ rewound' \in BOOLEAN
    BY <1>1, <1>3 DEF RunsInv, ShapeInv, OwnerInv, FiledInv, Live, Lines, RowOf
  <1> QED  BY <1>1, <1>4, BooksKeep

LEMMA DeleteNodeKeeps ==
    ASSUME NothingIsOutput, RunsInv, DeleteNode
    PROVE  RunsInv'
  <1>1. /\ owner = [kind |-> "node", there |-> TRUE] /\ Remembered /\ owner' = [owner EXCEPT !.there = FALSE]
        /\ sessions' = Killed({Live} \ {0}) /\ band' = NoBand /\ disk' = NoOutput
        /\ UNCHANGED <<filed, readers, inbox, quitting, crossed>> /\ rewound' = FALSE
    BY DEF DeleteNode, Reaped, Drops
  <1>2. owner' = [kind |-> "node", there |-> FALSE] /\ Live' = 0 /\ filed' \in 0..Len(sessions) /\ Lines(band)' = <<>>
    BY <1>1 DEF Live, Lines, RunsInv, BandInv
  <1>3. past' \in Seq([there : {TRUE}, row : (ScreenTexts \ {<<>>}) \cup {NoOutput}]) /\ past' # <<>>
    BY <1>1, RememberedRows
  <1>4. OwnerInv' /\ FiledInv'
    BY <1>1, <1>2, <1>3 DEF OwnerInv, FiledInv
  <1> QED  BY <1>1, <1>2, <1>4, ClearsKeep

LEMMA DeleteChipKeeps ==
    ASSUME RunsInv, DeleteChip
    PROVE  RunsInv'
  <1>1. /\ owner = [kind |-> "chip", there |-> TRUE] /\ Remembered /\ owner' = [owner EXCEPT !.there = FALSE] /\ disk' = NoOutput
        /\ UNCHANGED <<band, sessions, filed, readers, inbox, quitting, crossed>> /\ rewound' = FALSE
    BY DEF DeleteChip
  <1>2. owner' = [kind |-> "chip", there |-> FALSE]
    BY <1>1
  <1>3. past' \in Seq([there : {TRUE}, row : (ScreenTexts \ {<<>>}) \cup {NoOutput}]) /\ past' # <<>>
    BY <1>1, RememberedRows
  <1>4. OwnerInv' /\ FiledInv'
    <2>1. owner'.kind # "node" /\ ~owner'.there /\ owner' # [kind |-> "node", there |-> FALSE]
          /\ owner' \in [kind : {"node", "chip"}, there : BOOLEAN]
      BY <1>2
    <2>2. FiledInv'
      BY <2>1 DEF FiledInv
    <2>3. OwnerInv'
      BY <1>1, <1>3, <2>1 DEF OwnerInv
    <2> QED  BY <2>2, <2>3
  <1> QED  BY <1>1, <1>4, BooksKeep

\* The empty band of a run that has not been started.
LEMMA EmptyBand ==
    ASSUME NothingIsOutput
    PROVE  LET b == [NewBand EXCEPT !.loaded = TRUE]
           IN  b \in Bands /\ b # NoBand /\ b.live = 0 /\ b.loaded = TRUE /\ b.scr = NoScreen /\ Lines(b) = <<>> /\ RowOf(b) = NoOutput
  <1> DEFINE b == [NewBand EXCEPT !.loaded = TRUE]
  <1>1. b \in Bands /\ b.live = 0 /\ b.loaded = TRUE /\ b.scr = NoScreen /\ b.out = <<>>
    <2>1. <<>> \in ScreenTexts
      BY DEF ScreenTexts
    <2> QED  BY <2>1 DEF NewBand, Bands
  <1> HIDE DEF b
  <1>2. b # NoBand
    BY <1>1 DEF NothingIsOutput
  <1>3. Lines(b) = <<>> /\ RowOf(b) = NoOutput
    BY <1>1, <1>2 DEF Lines, RowOf
  <1> QED  BY <1>1, <1>2, <1>3 DEF b

LEMMA EditCommandKeeps ==
    ASSUME NothingIsOutput, RunsInv, EditCommand
    PROVE  RunsInv'
  <1>1. /\ owner = [kind |-> "chip", there |-> TRUE] /\ sessions' = Killed({Live} \ {0}) /\ disk' = NoOutput
        /\ band' = [NewBand EXCEPT !.loaded = TRUE]
        /\ UNCHANGED <<owner, filed, readers, inbox, past, quitting, crossed>> /\ rewound' = FALSE
    BY DEF EditCommand, Reaped
  <1>2. band' \in Bands /\ band'.live = 0 /\ band'.loaded = TRUE /\ band'.scr = NoScreen /\ RowOf(band)' = NoOutput
    BY <1>1, EmptyBand DEF RowOf, Lines
  <1>3. OwnerInv' /\ FiledInv' /\ filed' \in 0..Len(sessions)
    BY <1>1, <1>2 DEF RunsInv, OwnerInv, FiledInv, BandInv
  <1> QED  BY <1>1, <1>2, <1>3, ClearsKeep

LEMMA SetNodeTypeKeeps ==
    ASSUME NothingIsOutput, RunsInv, SetNodeType
    PROVE  RunsInv'
  <1> DEFINE K == ({Live} \ {0}) \cup (IF Live = 0 THEN {} ELSE DropKills)
  <1>1. /\ owner = [kind |-> "node", there |-> TRUE] /\ sessions' = Killed(K) /\ disk' = NoOutput
        /\ band' = [NewBand EXCEPT !.loaded = TRUE] /\ filed' = (IF Live = 0 THEN filed ELSE 0)
        /\ UNCHANGED <<owner, readers, inbox, past, quitting, crossed>> /\ rewound' = FALSE
    BY DEF SetNodeType
  <1>2. band' \in Bands /\ band'.live = 0 /\ band'.loaded = TRUE /\ band'.scr = NoScreen /\ RowOf(band)' = NoOutput
    BY <1>1, EmptyBand DEF RowOf, Lines
  <1>3. OwnerInv' /\ FiledInv'
    BY <1>1, <1>2 DEF RunsInv, OwnerInv, FiledInv
  <1>4. filed' \in 0..Len(sessions)
    BY <1>1, InFlight DEF RunsInv, BandInv
  <1>5. Live # 0 => Live \in K
    OBVIOUS
  <1> QED  BY <1>1, <1>2, <1>3, <1>4, <1>5, ClearsKeep

LEMMA TakeBackKeeps ==
    ASSUME RunsInv, TakeBack
    PROVE  RunsInv'
  <1> DEFINE R == [there : {TRUE}, row : (ScreenTexts \ {<<>>}) \cup {NoOutput}]
  <1>1. /\ past # <<>> /\ past' = Front(past) /\ owner' = [owner EXCEPT !.there = Last(past).there]
        /\ disk' = (IF owner.kind = "chip" THEN Last(past).row ELSE disk) /\ rewound' = (owner.kind = "chip")
        /\ UNCHANGED <<band, sessions, filed, readers, inbox, quitting, crossed>>
    BY DEF TakeBack
  <1>2. past \in Seq(R)
    BY DEF RunsInv, OwnerInv
  <1>3. Last(past) \in R /\ past' \in Seq(R)
    <2>1. Len(past) \in Nat /\ Len(past) > 0 /\ Len(past) - 1 \in Nat
      BY <1>1, <1>2
    <2>2. Last(past) = past[Len(past)] /\ Front(past) = SubSeq(past, 1, Len(past) - 1)
      BY DEF Last, Front
    <2> HIDE DEF R
    <2> QED  BY <1>1, <1>2, <2>1, <2>2
  <1>4. owner \in [kind : {"node", "chip"}, there : BOOLEAN]
    BY DEF RunsInv, OwnerInv
  <1>5. owner' \in [kind : {"node", "chip"}, there : BOOLEAN] /\ owner'.there /\ owner'.kind = owner.kind
    BY <1>1, <1>3, <1>4
  <1>6. OwnerInv'
    <2>1. owner' # [kind |-> "node", there |-> FALSE]
      BY <1>5
    <2> QED  BY <1>1, <1>3, <1>5, <2>1 DEF RunsInv, OwnerInv
  <1>7. FiledInv'
    <2>1. CASE owner.kind = "chip"
      BY <1>1, <1>5, <2>1 DEF FiledInv
    <2>2. CASE owner.kind = "node"
      <3>1. rewound' = FALSE /\ disk' = disk
        BY <1>1, <2>2
      <3> QED  BY <1>1, <1>5, <2>2, <3>1 DEF RunsInv, FiledInv, Live, RowOf, Lines
    <2> QED  BY <1>4, <2>1, <2>2
  <1>8. rewound' \in BOOLEAN
    BY <1>1
  <1> QED  BY <1>1, <1>6, <1>7, <1>8, BooksKeep

LEMMA QuitKeeps ==
    ASSUME NothingIsOutput, RunsInv, Quit
    PROVE  RunsInv'
  <1> DEFINE K == DropKills \cup ({Live} \ {0})
  <1>1. quitting' = TRUE /\ sessions' = Killed(K)
        /\ UNCHANGED <<owner, band, filed, readers, inbox, disk, past, crossed, rewound>>
    BY DEF Quit
  <1>2. /\ sessions' \in Seq(Processes) /\ Len(sessions') = Len(sessions) /\ Ids' = Ids
        /\ \A s \in Ids : /\ sessions'[s].running = sessions[s].running /\ sessions'[s].open = sessions[s].open
                          /\ sessions'[s].events = sessions[s].events /\ sessions'[s].printed = sessions[s].printed
                          /\ sessions'[s].killed = (s \in K \/ sessions[s].killed)
    BY <1>1, KilledOnly DEF Ids
  <1>3. Live' = Live
    BY <1>1 DEF Live
  <1> HIDE DEF K
  <1>4. ShapeInv'
    <2>1. ASSUME NEW s \in Ids, sessions'[s].running
          PROVE  sessions'[s].open /\ \A i \in DOMAIN sessions'[s].events : sessions'[s].events[i] # Done
      <3>1. sessions[s].open /\ \A i \in DOMAIN sessions[s].events : sessions[s].events[i] # Done
        BY <1>2, <2>1 DEF RunsInv, ShapeInv
      <3>2. sessions'[s].open = sessions[s].open /\ sessions'[s].events = sessions[s].events
        BY <1>2
      <3> QED  BY <3>1, <3>2
    <2> QED  BY <1>1, <1>2, <2>1 DEF RunsInv, ShapeInv
  <1>5. BandInv' /\ OwnerInv' /\ FiledInv'
    BY <1>1, <1>2, <1>3 DEF RunsInv, BandInv, OwnerInv, FiledInv, Lines, RowOf
  <1>6. HandedOn' /\ OneHandles' /\ EndComes' /\ OwnStream' /\ RunIsRead'
    BY <1>1, <1>2 DEF RunsInv, HandedOn, OneHandles, EndComes, OwnStream, RunIsRead
  <1>7. BandIsItsOwn'
    <2>1. sessions' # <<>> => sessions # <<>> /\ Len(sessions) \in Ids
      BY <1>2, InFlight
    <2> QED  BY <1>1, <1>2, <2>1 DEF RunsInv, BandIsItsOwn
  <1>8. NothingRunsUnseen'
    BY <1>2, <1>3 DEF RunsInv, NothingRunsUnseen
  <1> QED  BY <1>4, <1>5, <1>6, <1>7, <1>8 DEF RunsInv

-----------------------------------------------------------------------------
(* The invariant, and what it says.                                        *)

LEMMA RunsStart ==
    ASSUME NothingIsOutput, RunsInit
    PROVE  RunsInv
  <1>1. /\ owner \in [kind : {"node", "chip"}, there : {TRUE}] /\ band = NoBand /\ sessions = <<>> /\ filed = 0 /\ readers = <<>>
        /\ inbox = <<>> /\ disk = NoOutput /\ past = <<>> /\ quitting = FALSE /\ crossed = FALSE /\ rewound = FALSE
    BY DEF RunsInit
  <1>2. Live = 0 /\ Ids = {} /\ Len(sessions) = 0 /\ Len(readers) = 0 /\ Len(inbox) = 0 /\ DOMAIN inbox = {}
    BY <1>1 DEF Live, Ids
  <1>3. ShapeInv
    <2>1. sessions \in Seq(Processes) /\ inbox \in Seq([of : Int, says : Int]) /\ readers \in Seq(Nat)
      BY <1>1
    <2> QED  BY <1>1, <1>2, <2>1 DEF ShapeInv
  <1>4. BandInv /\ FiledInv
    BY <1>1, <1>2 DEF BandInv, FiledInv
  <1>5. OwnerInv
    <2>1. past \in Seq([there : {TRUE}, row : (ScreenTexts \ {<<>>}) \cup {NoOutput}])
      BY <1>1
    <2>2. owner.there /\ owner \in [kind : {"node", "chip"}, there : BOOLEAN]
      BY <1>1
    <2> QED  BY <1>1, <1>2, <2>1, <2>2 DEF OwnerInv
  <1>6. HandedOn
    <2> DEFINE sum == [k \in 0..0 |-> 0]
    <2>1. sum \in [0..0 -> 0..0] /\ sum[0] = 0
      OBVIOUS
    <2>2. AddsUp(sum, readers)
      BY <1>1, <1>2, <2>1 DEF AddsUp
    <2> HIDE DEF sum
    <2> QED  BY <1>2, <2>1, <2>2 DEF HandedOn
  <1>7. OneHandles /\ EndComes /\ OwnStream /\ BandIsItsOwn /\ NothingRunsUnseen /\ RunIsRead
    BY <1>1, <1>2 DEF OneHandles, EndComes, OwnStream, BandIsItsOwn, NothingRunsUnseen, RunIsRead
  <1> QED  BY <1>3, <1>4, <1>5, <1>6, <1>7 DEF RunsInv

LEMMA RunsStep ==
    ASSUME NothingIsOutput, RunsInv, [RunsNext]_runsVars
    PROVE  RunsInv'
  <1>1. CASE \E s \in Ids : Prints(s) \/ Exits(s) \/ Forwards(s) \/ Taken(s)
    BY <1>1, PrintsKeeps, ExitsKeeps, ForwardsKeeps, TakenKeeps
  <1>2. CASE \E i \in DOMAIN inbox : Handles(i)
    BY <1>2, DoneKeeps, LateKeeps, ShownKeeps
  <1>3. CASE Toggle \/ KillKey \/ Look \/ Type
    BY <1>3, ToggleKeeps, KillKeyKeeps, LookKeeps, TypeKeeps
  <1>4. CASE DeleteNode \/ DeleteChip \/ EditCommand \/ SetNodeType
    BY <1>4, DeleteNodeKeeps, DeleteChipKeeps, EditCommandKeeps, SetNodeTypeKeeps
  <1>5. CASE TakeBack \/ Quit
    BY <1>5, TakeBackKeeps, QuitKeeps
  <1>6. CASE UNCHANGED runsVars
    <2>1. UNCHANGED <<owner, band, sessions, filed, readers, inbox, disk, past, quitting, crossed, rewound>>
      BY <1>6 DEF runsVars
    <2>2. rewound' \in BOOLEAN /\ OwnerInv' /\ FiledInv'
      BY <2>1 DEF RunsInv, ShapeInv, OwnerInv, FiledInv, Live, Lines, RowOf
    <2> QED  BY <2>1, <2>2, BooksKeep
  <1> QED  BY <1>1, <1>2, <1>3, <1>4, <1>5, <1>6 DEF RunsNext

\* What the runs check follows.
LEMMA RunsInvMeans ==
    ASSUME NothingIsOutput, RunsInv
    PROVE  RunsAreAccountedFor
  <1>1. RowIsTheBand
    <2>1. owner.kind \in {"node", "chip"}
      BY DEF RunsInv, OwnerInv
    <2> QED  BY <2>1 DEF RowIsTheBand, RunsInv, FiledInv
  <1>2. NoRowIsLeft
    BY DEF NoRowIsLeft, RunsInv, OwnerInv
  <1>3. ASSUME NEW s \in Ids PROVE readers[s] \in 0..Len(sessions)
    <2>1. readers \in Seq(Nat) /\ Len(readers) = Len(sessions) /\ Len(sessions) \in Nat /\ s \in 1..Len(readers) /\ Len(inbox) \in Nat
      BY InFlight DEF RunsInv, ShapeInv
    <2>2. PICK sum \in [0..Len(readers) -> 0..Len(sessions)] :
             AddsUp(sum, readers) /\ sum[Len(readers)] + Len(inbox) <= Len(sessions)
      BY DEF RunsInv, HandedOn
    <2>3. s \in 0..Len(readers) /\ s - 1 \in 0..Len(readers) /\ Len(readers) \in 0..Len(readers) /\ readers[s] \in Nat
      BY <2>1
    <2>4. sum[s] \in 0..Len(sessions) /\ sum[s - 1] \in 0..Len(sessions) /\ sum[s] = sum[s - 1] + readers[s]
      BY <2>1, <2>2, <2>3 DEF AddsUp
    <2> QED  BY <2>1, <2>3, <2>4
  <1>4. RunsTypeOK
    <2>1. DOMAIN readers = Ids
      BY InFlight DEF RunsInv, ShapeInv
    <2>2. band # NoBand => band.live \in 0..Len(sessions) /\ (band.live # 0 => band.scr # NoScreen)
      BY InFlight DEF RunsInv, BandInv
    <2> QED  BY <1>3, <2>1, <2>2 DEF RunsTypeOK, RunsInv, OwnerInv, BandInv
  <1>5. NodesTakeTheirRuns
    BY DEF NodesTakeTheirRuns, RunsInv, OwnerInv
  <1> QED  BY <1>1, <1>2, <1>4, <1>5 DEF RunsAreAccountedFor, RunsInv

\* However the messages of the sessions and the keys of the user interleave: the band is that of its own last run, its row
\* is what it shows, no process runs but the last run's, which goes with its node (a chip's may outlive the chip), no row
\* outlives its node, and the run in flight is read (bash.go:238, bash.go:78, runout.go).
THEOREM RunsAreAlwaysAccountedFor == RunsSpec => []RunsAreAccountedFor
  <1>1. RunsInit => RunsInv
    BY NothingIsOutput, RunsStart
  <1>2. RunsInv /\ [RunsNext]_runsVars => RunsInv'
    BY NothingIsOutput, RunsStep
  <1>3. RunsInv => RunsAreAccountedFor
    BY NothingIsOutput, RunsInvMeans
  <1> QED  BY <1>1, <1>2, <1>3, PTL DEF RunsSpec
=============================================================================
