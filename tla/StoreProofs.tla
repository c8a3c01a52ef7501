----------------------------- MODULE StoreProofs -----------------------------
(***************************************************************************)
(* For every number of sessions, subscribers, rows and transactions: the   *)
(* write lock of the Store has exactly one holder while it is locked, the  *)
(* update hook feeds that holder's changeLog, and a statement under the    *)
(* lock never waits for the connection; nothing of an open or rolled back  *)
(* transaction is committed, a write commits apart from its transaction    *)
(* only when a watchdog ended it, every subscriber is given the committed  *)
(* history without a gap, and so the Store implements ChangeFeed.          *)
(***************************************************************************)
EXTENDS Store, TLAPS

\* Sessions and watchdogs are different goroutines, and no session is nil.
LEMMA Distinct ==
    /\ Sessions \subseteq Procs /\ Ids \subseteq Procs
    /\ \A p \in Procs : p \in Sessions \/ p \in Ids
    /\ Sessions \cap Ids = {}
    /\ NoOne \notin Sessions /\ NoId \notin Ids /\ Ids \subseteq Nat
    /\ NoId \notin Procs
BY IdentitiesAreDistinct DEF Procs, Ids, NoOne, NoId

LEMMA InitLockInv == Init => LockInv
<1> SUFFICES ASSUME Init PROVE LockInv
  OBVIOUS
<1> USE DEF Init
<1>1. TypeOK
  <2>1. pc \in [Procs -> SessionPc \cup WatchdogPc]
    BY DEF SessionPc, WatchdogPc
  <2>2. /\ my \in [Procs -> Ids \cup {NoId}] /\ ctx \in [Sessions -> Ids \cup {NoId}]
        /\ ended \in [Ids -> Procs \cup {NoOne}] /\ starter \in [Ids -> Sessions \cup {NoOne}]
        /\ touched \in [Ids -> SUBSET Items] /\ db \in [Items -> Ids \cup {NoId}]
    OBVIOUS
  <2>3. /\ sub \in [Subs -> {"off", "on", "cut"}]
        /\ chan \in [Subs -> Seq([seq : Nat, items : SUBSET (Nodes \cup Flags)])]
        /\ hist \in Seq(SUBSET (Nodes \cup Flags))
        /\ at \in [Subs -> Nat] /\ seen \in [Subs -> SUBSET (Nodes \cup Flags)]
    OBVIOUS
  <2>4. /\ mu \in BOOLEAN /\ conn \in Ids \cup {NoId} /\ tx \in Ids \cup {NoId}
        /\ txOwner \in Sessions \cup {NoOne} /\ collector \in Ids \cup {NoId}
    OBVIOUS
  <2>5. /\ pend \in SUBSET Items /\ lost \in SUBSET Ids /\ hungup \in SUBSET Sessions
        /\ stray \in SUBSET Ids /\ seq \in Nat /\ next \in Nat \ {0}
    OBVIOUS
  <2>. QED BY ONLY <2>1, <2>2, <2>3, <2>4, <2>5 DEF TypeOK
<1>2. Labels
  BY Distinct DEF Labels, SessionPc, WatchdogPc, Procs
<1>3. OneHolder
  BY Distinct DEF OneHolder, Holders, Locked
<1>4. TxIsOnConn /\ HookIsOwned
  BY Distinct DEF TxIsOnConn, HookIsOwned
<1>5. ConnIsOwned
  BY Distinct DEF ConnIsOwned, SqlPc
<1>6. FreshIds
  BY Distinct DEF FreshIds, BeginPc
<1>7. LogsAreNamed
  BY Distinct DEF LogsAreNamed, LogPc
<1>. QED BY <1>1, <1>2, <1>3, <1>4, <1>5, <1>6, <1>7 DEF LockInv

-----------------------------------------------------------------------------
(* Frame lemmas: what keeps a part of the invariant from one step to the    *)
(* next, said once for all the actions.                                     *)

\* No goroutine enters or leaves a locked section.
LEMMA HoldersKept ==
    ASSUME OneHolder, mu' = mu, tx' = tx,
           \A q \in Procs : pc'[q] \in Locked <=> pc[q] \in Locked
    PROVE  OneHolder'
<1>1. Holders' = Holders
  BY DEF Holders, Locked
<1>. QED BY <1>1 DEF OneHolder

\* The lock passes to the goroutine p, or stays with it.
LEMMA SoleHolder ==
    ASSUME NEW p \in Procs, mu', tx' = NoId,
           \A q \in Procs : pc'[q] \in Locked <=> q = p
    PROVE  OneHolder'
<1>1. Holders' = {p}
  BY DEF Holders, Locked
<1>. QED BY <1>1 DEF OneHolder

\* No goroutine is in a locked section: the open transaction has the lock.
LEMMA NoHolder ==
    ASSUME \A q \in Procs : pc'[q] \notin Locked, mu' <=> tx' # NoId
    PROVE  OneHolder'
<1>1. Holders' = {}
  BY DEF Holders, Locked
<1>. QED BY <1>1 DEF OneHolder

\* Nobody starts to begin, and no watchdog that is off is started.
LEMMA FreshKept ==
    ASSUME FreshIds, next \in Nat, next' \in Nat, next' >= next,
           \A s \in Sessions : pc'[s] \in BeginPc => pc[s] \in BeginPc /\ my'[s] = my[s],
           \A i \in Ids : pc[i] = "off" => pc'[i] = "off"
    PROVE  FreshIds'
<1>1. \A i \in Ids : i >= next' => pc'[i] = "off"
  BY Distinct DEF FreshIds
<1>2. ASSUME NEW s \in Sessions, pc'[s] \in BeginPc
      PROVE  my'[s] \in Ids /\ my'[s] < next' /\ pc'[my'[s]] = "off"
  <2>1. my'[s] = my[s] /\ my[s] \in Ids /\ my[s] < next /\ pc[my[s]] = "off"
    BY <1>2 DEF FreshIds
  <2>2. my[s] \in Nat /\ my[s] < next
    BY <2>1, Distinct
  <2>4. my[s] < next'
    BY ONLY <2>2, next \in Nat, next' \in Nat, next' >= next
  <2>3. pc'[my[s]] = "off"
    BY <2>1
  <2>. QED BY <2>1, <2>2, <2>3, <2>4
<1>3. ASSUME NEW s \in Sessions, NEW t \in Sessions, pc'[s] \in BeginPc, pc'[t] \in BeginPc,
             my'[s] = my'[t]
      PROVE  s = t
  BY <1>3 DEF FreshIds
<1>. QED BY <1>1, <1>2, <1>3 DEF FreshIds

\* The lock part of the invariant depends on nothing the subscribers change.
LEMMA LockFrame ==
    ASSUME LockInv, TypeOK',
           UNCHANGED <<mu, conn, tx, txOwner, collector, pc, my, next, seq>>
    PROVE  LockInv'
<1>1. Labels' /\ TxIsOnConn' /\ ConnIsOwned' /\ HookIsOwned'
  BY DEF LockInv, Labels, TxIsOnConn, ConnIsOwned, HookIsOwned
<1>2. OneHolder'
  BY HoldersKept DEF LockInv
<1>3. FreshIds' /\ LogsAreNamed'
  BY DEF LockInv, FreshIds, LogsAreNamed
<1>. QED BY <1>1, <1>2, <1>3 DEF LockInv

LEMMA HeadType ==
    ASSUME NEW S, NEW q \in Seq(S), q # <<>> PROVE Head(q) \in S /\ Tail(q) \in Seq(S)
OBVIOUS

LEMMA AppendType ==
    ASSUME NEW S, NEW e \in S, NEW q \in Seq(S) PROVE Append(q, e) \in Seq(S)
OBVIOUS

\* A recorded change leaves the history well typed.
LEMMA RecordType ==
    ASSUME NEW items \in SUBSET Items, hist \in Seq(SUBSET (Nodes \cup Flags)), Record(items)
    PROVE  hist' \in Seq(SUBSET (Nodes \cup Flags))
<1>1. items \ Quiet \in SUBSET (Nodes \cup Flags)
  BY DEF Items
<1>2. CASE hist' = hist
  BY <1>2
<1>3. CASE hist' = Append(hist, items \ Quiet)
  BY <1>1, <1>3
<1>. QED BY <1>2, <1>3 DEF Record

-----------------------------------------------------------------------------
(* One lemma per action.                                                    *)

LEMMA RequestBeginStep == \A s \in Sessions : LockInv /\ RequestBegin(s) => LockInv'
<1> SUFFICES ASSUME NEW s \in Sessions, LockInv, RequestBegin(s) PROVE LockInv'
  OBVIOUS
<1> USE Distinct DEF LockInv, NoId, NoOne
<1>a. next \in Ids
  BY DEF TypeOK, Ids, RequestBegin, Goto, lock, data, feed, ghosts, SessionTx, Fresh
<1>1. TypeOK'
  <2>1. pc' \in [Procs -> SessionPc \cup WatchdogPc]
    BY DEF TypeOK, SessionPc, WatchdogPc, RequestBegin, Goto, lock, data, feed, ghosts, SessionTx, Fresh
  <2>2. my' \in [Procs -> Ids \cup {NoId}] /\ next' \in Nat \ {0}
    BY <1>a DEF TypeOK, RequestBegin, Goto, lock, data, feed, ghosts, SessionTx, Fresh
  <2>. QED BY <2>1, <2>2 DEF TypeOK, RequestBegin, Goto, lock, data, feed, ghosts, SessionTx, Fresh
<1>2. Labels'
  BY DEF TypeOK, Labels, SessionPc, WatchdogPc, RequestBegin, Goto, lock, data, feed, ghosts, SessionTx, Fresh
<1>3. OneHolder'
  BY DEF TypeOK, OneHolder, Holders, Locked, Labels, SessionPc, WatchdogPc, TxIsOnConn, RequestBegin, Goto, lock, data, feed, ghosts, SessionTx, Fresh
<1>4. TxIsOnConn'
  BY DEF TypeOK, TxIsOnConn, ConnIsOwned, SqlPc, OneHolder, Holders, Locked, RequestBegin, Goto, lock, data, feed, ghosts, SessionTx, Fresh
<1>5. ConnIsOwned'
  BY DEF TypeOK, ConnIsOwned, SqlPc, OneHolder, Holders, Locked, TxIsOnConn, Labels, SessionPc, WatchdogPc, FreshIds, BeginPc, RequestBegin, Goto, lock, data, feed, ghosts, SessionTx, Fresh
<1>6. HookIsOwned'
  BY DEF TypeOK, HookIsOwned, ConnIsOwned, SqlPc, OneHolder, Holders, Locked, TxIsOnConn, Labels, SessionPc, WatchdogPc, RequestBegin, Goto, lock, data, feed, ghosts, SessionTx, Fresh
<1>7. FreshIds'
  <2>1. next' = next + 1 /\ next \in Nat /\ pc[next] = "off"
    BY <1>a DEF TypeOK, FreshIds, RequestBegin, Goto, lock, data, feed, ghosts, SessionTx, Fresh
  <2>2. \A q \in Procs : my'[q] = IF q = s THEN next ELSE my[q]
    BY DEF TypeOK, RequestBegin, Goto, lock, data, feed, ghosts, SessionTx, Fresh
  <2>3. \A q \in Procs : pc'[q] = IF q = s THEN "begin" ELSE pc[q]
    BY DEF TypeOK, RequestBegin, Goto, lock, data, feed, ghosts, SessionTx, Fresh
  <2>4. \A i \in Ids : pc'[i] = pc[i] /\ i \in Nat
    BY <2>3
  <2>5. \A i \in Ids : i >= next' => pc'[i] = "off"
    BY ONLY <2>1, <2>4, FreshIds DEF FreshIds
  <2>6. \A t \in Sessions : t # s /\ pc[t] \in BeginPc =>
            my[t] \in Ids /\ my[t] < next /\ my[t] # next
    BY <2>1, <2>4 DEF FreshIds
  <2>7. ASSUME NEW t \in Sessions, pc'[t] \in BeginPc
        PROVE  my'[t] \in Ids /\ my'[t] < next' /\ pc'[my'[t]] = "off"
    <3>1. CASE t = s
      BY <3>1, <1>a, <2>1, <2>2, <2>4
    <3>2. CASE t # s
      <4>1. pc[t] \in BeginPc /\ my'[t] = my[t]
        BY <3>2, <2>2, <2>3, <2>7
      <4>2. my[t] \in Ids /\ my[t] < next /\ pc[my[t]] = "off"
        BY <4>1 DEF FreshIds
      <4>3. pc'[my[t]] = "off"
        BY <4>2, <2>4
      <4>4. my[t] \in Nat /\ my[t] < next /\ next \in Nat /\ next' = next + 1
        BY <4>2, <2>1, <2>4
      <4>5. my[t] < next'
        BY ONLY <4>4
      <4>. QED BY <4>1, <4>2, <4>3, <4>5
    <3>. QED BY <3>1, <3>2
  <2>8. ASSUME NEW t \in Sessions, NEW u \in Sessions, pc'[t] \in BeginPc,
               pc'[u] \in BeginPc, my'[t] = my'[u]
        PROVE  t = u
    BY <2>2, <2>3, <2>6, <2>8 DEF FreshIds
  <2>. QED BY <2>5, <2>7, <2>8 DEF FreshIds
<1>8. LogsAreNamed'
  BY DEF TypeOK, LogsAreNamed, LogPc, Labels, SessionPc, WatchdogPc, RequestBegin, Goto, lock, data, feed, ghosts, SessionTx, Fresh
<1>. QED BY <1>1, <1>2, <1>3, <1>4, <1>5, <1>6, <1>7, <1>8

LEMMA BeginLockStep == \A s \in Sessions : LockInv /\ BeginLock(s) => LockInv'
<1> SUFFICES ASSUME NEW s \in Sessions, LockInv, BeginLock(s) PROVE LockInv'
  OBVIOUS
<1> USE Distinct DEF LockInv, NoId, NoOne
<1>1. TypeOK'
  BY DEF TypeOK, SessionPc, WatchdogPc, BeginLock, Goto, lock, data, feed, ghosts, SessionTx
<1>2. Labels'
  BY DEF TypeOK, Labels, SessionPc, WatchdogPc, BeginLock, Goto, lock, data, feed, ghosts, SessionTx
<1>3. OneHolder'
  BY DEF TypeOK, OneHolder, Holders, Locked, Labels, SessionPc, WatchdogPc, TxIsOnConn, BeginLock, Goto, lock, data, feed, ghosts, SessionTx
<1>4. TxIsOnConn'
  BY DEF TypeOK, TxIsOnConn, ConnIsOwned, SqlPc, OneHolder, Holders, Locked, BeginLock, Goto, lock, data, feed, ghosts, SessionTx
<1>5. ConnIsOwned'
  BY DEF TypeOK, ConnIsOwned, SqlPc, OneHolder, Holders, Locked, TxIsOnConn, Labels, SessionPc, WatchdogPc, FreshIds, BeginPc, BeginLock, Goto, lock, data, feed, ghosts, SessionTx
<1>6. HookIsOwned'
  BY DEF TypeOK, HookIsOwned, ConnIsOwned, SqlPc, OneHolder, Holders, Locked, TxIsOnConn, Labels, SessionPc, WatchdogPc, BeginLock, Goto, lock, data, feed, ghosts, SessionTx
<1>7. FreshIds'
  BY DEF TypeOK, FreshIds, BeginPc, Labels, SessionPc, WatchdogPc, BeginLock, Goto, lock, data, feed, ghosts, SessionTx
<1>8. LogsAreNamed'
  BY DEF TypeOK, LogsAreNamed, LogPc, Labels, SessionPc, WatchdogPc, BeginLock, Goto, lock, data, feed, ghosts, SessionTx
<1>. QED BY <1>1, <1>2, <1>3, <1>4, <1>5, <1>6, <1>7, <1>8

LEMMA SqlBeginStep == \A s \in Sessions : LockInv /\ SqlBegin(s) => LockInv'
<1> SUFFICES ASSUME NEW s \in Sessions, LockInv, SqlBegin(s) PROVE LockInv'
  OBVIOUS
<1> USE Distinct DEF LockInv, NoId, NoOne
<1>g. pc[s] = "opening" /\ tx' = tx
  BY DEF SqlBegin, Goto, lock, data, feed, ghosts, SessionTx
<1>1. TypeOK'
  <2>1. pc' \in [Procs -> SessionPc \cup WatchdogPc]
    BY DEF TypeOK, SessionPc, WatchdogPc, SqlBegin, Goto, lock, data, feed, ghosts, SessionTx
  <2>2. my' \in [Procs -> Ids \cup {NoId}] /\ conn' \in Ids \cup {NoId}
    BY DEF TypeOK, FreshIds, BeginPc, SqlBegin, Goto, lock, data, feed, ghosts, SessionTx
  <2>3. pend' \in SUBSET Items /\ mu' \in BOOLEAN
    BY DEF TypeOK, SqlBegin, Goto, lock, data, feed, ghosts, SessionTx
  <2>. QED BY <2>1, <2>2, <2>3 DEF TypeOK, SqlBegin, Goto, lock, data, feed, ghosts, SessionTx
<1>a. \A q \in Procs : q # s => pc'[q] = pc[q]
  BY DEF TypeOK, SqlBegin, Goto, lock, data, feed, ghosts, SessionTx
<1>b. (pc'[s] = "opened" /\ mu' = mu) \/ (pc'[s] = "idle" /\ ~mu')
  <2>1. pc \in [Procs -> SessionPc \cup WatchdogPc]
    BY DEF TypeOK
  <2>2. CASE Goto(s, "opened") /\ UNCHANGED <<mu, my>>
    <3>1. pc'[s] = "opened"
      BY <2>1, <2>2 DEF Goto
    <3>2. mu' = mu
      BY <2>2
    <3>. QED BY <3>1, <3>2
  <2>3. CASE mu' = FALSE /\ Goto(s, "idle")
    BY <2>1, <2>3 DEF Goto
  <2>. QED BY <2>2, <2>3 DEF SqlBegin
<1>2. Labels'
  BY <1>a, <1>b DEF Labels, SessionPc
<1>3. OneHolder'
  <2>1. s \in Holders /\ tx = NoId /\ mu
    BY <1>g DEF OneHolder, Holders, Locked
  <2>2. \A q \in Procs : q # s => pc'[q] \notin Locked
    BY <2>1, <1>a DEF OneHolder, Holders
  <2>3. CASE pc'[s] = "opened" /\ mu' = mu
    <3>1. \A q \in Procs : pc'[q] \in Locked <=> q = s
      BY <2>2, <2>3 DEF Locked
    <3>. QED BY <3>1, <2>1, <2>3, <1>g, SoleHolder
  <2>4. CASE pc'[s] = "idle" /\ ~mu'
    <3>1. \A q \in Procs : pc'[q] \notin Locked
      BY <2>2, <2>4 DEF Locked
    <3>. QED BY <3>1, <2>1, <2>4, <1>g, NoHolder
  <2>. QED BY <1>b, <2>3, <2>4
<1>4. TxIsOnConn'
  BY DEF TypeOK, TxIsOnConn, ConnIsOwned, SqlPc, OneHolder, Holders, Locked, SqlBegin, Goto, lock, data, feed, ghosts, SessionTx
<1>5. ConnIsOwned'
  BY DEF TypeOK, ConnIsOwned, SqlPc, OneHolder, Holders, Locked, TxIsOnConn, Labels, SessionPc, WatchdogPc, FreshIds, BeginPc, SqlBegin, Goto, lock, data, feed, ghosts, SessionTx
<1>6. HookIsOwned'
  BY DEF TypeOK, HookIsOwned, ConnIsOwned, SqlPc, OneHolder, Holders, Locked, TxIsOnConn, Labels, SessionPc, WatchdogPc, SqlBegin, Goto, lock, data, feed, ghosts, SessionTx
<1>7. FreshIds'
  BY FreshKept DEF TypeOK, BeginPc, Labels, SessionPc, WatchdogPc, SqlBegin, Goto, lock, data, feed, ghosts, SessionTx
<1>8. LogsAreNamed'
  BY DEF TypeOK, LogsAreNamed, LogPc, Labels, SessionPc, WatchdogPc, SqlBegin, Goto, lock, data, feed, ghosts, SessionTx
<1>. QED BY <1>1, <1>2, <1>3, <1>4, <1>5, <1>6, <1>7, <1>8

LEMMA BeginSetStep == \A s \in Sessions : LockInv /\ BeginSet(s) => LockInv'
<1> SUFFICES ASSUME NEW s \in Sessions, LockInv, BeginSet(s) PROVE LockInv'
  OBVIOUS
<1> USE Distinct DEF LockInv, NoId, NoOne
<1>g. pc[s] = "opened" /\ tx' = my[s] /\ mu' = mu
  BY DEF BeginSet, Goto, lock, data, feed, ghosts, SessionTx, ArmTimer
<1>a. my[s] \in Ids /\ pc[my[s]] = "off" /\ my[s] # s
  BY <1>g DEF FreshIds, BeginPc
<1>b. /\ \A q \in Procs : pc'[q] = IF q = my[s] THEN "armed" ELSE IF q = s THEN "idle" ELSE pc[q]
      /\ \A q \in Procs : my'[q] = IF q = s THEN NoId ELSE my[q]
  BY <1>a DEF TypeOK, BeginSet, Goto, lock, data, feed, ghosts, SessionTx, ArmTimer
<1>1. TypeOK'
  BY <1>a DEF TypeOK, SessionPc, WatchdogPc, BeginSet, Goto, lock, data, feed, ghosts, SessionTx, ArmTimer
<1>2. Labels'
  BY <1>a, <1>b DEF Labels, SessionPc, WatchdogPc
<1>3. OneHolder'
  <2>1. mu /\ \A q \in Procs : q # s => pc[q] \notin Locked
    BY <1>g DEF OneHolder, Holders, Locked
  <2>2. \A q \in Procs : pc'[q] \notin Locked
    BY <2>1, <1>b DEF Locked
  <2>. QED BY <2>1, <2>2, <1>a, <1>g, NoHolder
<1>4. TxIsOnConn'
  BY DEF TypeOK, TxIsOnConn, ConnIsOwned, SqlPc, OneHolder, Holders, Locked, BeginSet, Goto, lock, data, feed, ghosts, SessionTx, ArmTimer
<1>5. ConnIsOwned'
  BY DEF TypeOK, ConnIsOwned, SqlPc, OneHolder, Holders, Locked, TxIsOnConn, Labels, SessionPc, WatchdogPc, FreshIds, BeginPc, BeginSet, Goto, lock, data, feed, ghosts, SessionTx, ArmTimer
<1>6. HookIsOwned'
  BY DEF TypeOK, HookIsOwned, ConnIsOwned, SqlPc, OneHolder, Holders, Locked, TxIsOnConn, Labels, SessionPc, WatchdogPc, BeginSet, Goto, lock, data, feed, ghosts, SessionTx, ArmTimer
<1>7. FreshIds'
  <2>1. next' = next /\ my[s] < next /\ my[s] \in Nat /\ next \in Nat
    BY <1>a DEF FreshIds, BeginPc, TypeOK, BeginSet, Goto, lock, data, feed, ghosts, SessionTx, ArmTimer
  <2>2. \A i \in Ids : i >= next' => pc'[i] = "off"
    <3> SUFFICES ASSUME NEW i \in Ids, i >= next PROVE pc'[i] = "off"
      BY <2>1
    <3>1. pc[i] = "off" /\ i # my[s] /\ i # s
      BY <2>1 DEF FreshIds
    <3>. QED BY <3>1, <1>b
  <2>3. ASSUME NEW t \in Sessions, pc'[t] \in BeginPc
        PROVE  /\ pc[t] \in BeginPc /\ my'[t] = my[t]
               /\ my'[t] \in Ids /\ my'[t] < next' /\ pc'[my'[t]] = "off"
    <3>1. t # s /\ pc[t] \in BeginPc /\ my'[t] = my[t]
      BY <2>3, <1>a, <1>b DEF BeginPc
    <3>2. my[t] \in Ids /\ my[t] < next /\ pc[my[t]] = "off" /\ my[t] # my[s]
      BY <3>1, <1>g DEF FreshIds, BeginPc
    <3>3. pc'[my[t]] = "off"
      BY <3>2, <1>b
    <3>. QED BY <3>1, <3>2, <3>3, <2>1
  <2>4. ASSUME NEW t \in Sessions, NEW u \in Sessions, pc'[t] \in BeginPc,
               pc'[u] \in BeginPc, my'[t] = my'[u]
        PROVE  t = u
    BY <2>3, <2>4 DEF FreshIds
  <2>. QED BY <2>2, <2>3, <2>4 DEF FreshIds
<1>8. LogsAreNamed'
  BY DEF TypeOK, LogsAreNamed, LogPc, Labels, SessionPc, WatchdogPc, BeginSet, Goto, lock, data, feed, ghosts, SessionTx, ArmTimer
<1>. QED BY <1>1, <1>2, <1>3, <1>4, <1>5, <1>6, <1>7, <1>8

LEMMA RequestExecStep == \A s \in Sessions : LockInv /\ RequestExec(s) => LockInv'
<1> SUFFICES ASSUME NEW s \in Sessions, LockInv, RequestExec(s) PROVE LockInv'
  OBVIOUS
<1> USE Distinct DEF LockInv, NoId, NoOne
<1>g. pc[s] = "idle" /\ mu' = mu /\ tx' = tx /\ seq' = seq
  BY DEF RequestExec, Goto, lock, data, feed, ghosts, SessionTx, Fresh
<1>a. /\ \A q \in Procs : pc'[q] = IF q = s THEN pc'[s] ELSE pc[q]
      /\ \A q \in Procs : my'[q] = IF q = s THEN my'[s] ELSE my[q]
      /\ pc'[s] \in {"exec", "txexec"}
  BY DEF TypeOK, RequestExec, Goto, lock, data, feed, ghosts, SessionTx, Fresh
<1>b. my'[s] \in Ids
  BY DEF TypeOK, Ids, RequestExec, Goto, lock, data, feed, ghosts, SessionTx, Fresh
<1>1. TypeOK'
  <2>1. pc' \in [Procs -> SessionPc \cup WatchdogPc]
    BY DEF TypeOK, SessionPc, WatchdogPc, RequestExec, Goto, lock, data, feed, ghosts, SessionTx, Fresh
  <2>2. my' \in [Procs -> Ids \cup {NoId}]
    BY <1>b DEF TypeOK, RequestExec, Goto, lock, data, feed, ghosts, SessionTx, Fresh
  <2>3. next' \in Nat \ {0}
    BY DEF TypeOK, RequestExec, Goto, lock, data, feed, ghosts, SessionTx, Fresh
  <2>. QED BY <2>1, <2>2, <2>3 DEF TypeOK, RequestExec, Goto, lock, data, feed, ghosts, SessionTx, Fresh
<1>2. Labels'
  BY <1>a DEF Labels, SessionPc, WatchdogPc
<1>3. OneHolder'
  BY <1>a, <1>g, HoldersKept DEF Locked
<1>4. TxIsOnConn'
  BY DEF TypeOK, TxIsOnConn, ConnIsOwned, SqlPc, OneHolder, Holders, Locked, RequestExec, Goto, lock, data, feed, ghosts, SessionTx, Fresh
<1>5. ConnIsOwned'
  BY DEF TypeOK, ConnIsOwned, SqlPc, OneHolder, Holders, Locked, TxIsOnConn, Labels, SessionPc, WatchdogPc, FreshIds, BeginPc, RequestExec, Goto, lock, data, feed, ghosts, SessionTx, Fresh
<1>6. HookIsOwned'
  BY DEF TypeOK, HookIsOwned, ConnIsOwned, SqlPc, OneHolder, Holders, Locked, TxIsOnConn, Labels, SessionPc, WatchdogPc, RequestExec, Goto, lock, data, feed, ghosts, SessionTx, Fresh
<1>7. FreshIds'
  BY <1>a, FreshKept DEF TypeOK, BeginPc, RequestExec, Goto, lock, data, feed, ghosts, SessionTx, Fresh
<1>8. LogsAreNamed'
  BY <1>a, <1>b, <1>g DEF LogsAreNamed, LogPc
<1>. QED BY <1>1, <1>2, <1>3, <1>4, <1>5, <1>6, <1>7, <1>8

LEMMA TxExecStep == \A s \in Sessions : LockInv /\ TxExec(s) => LockInv'
<1> SUFFICES ASSUME NEW s \in Sessions, LockInv, TxExec(s) PROVE LockInv'
  OBVIOUS
<1> USE Distinct DEF LockInv, NoId, NoOne
<1>1. TypeOK'
  <2>1. touched' \in [Ids -> SUBSET Items] /\ pend' \in SUBSET Items /\ UNCHANGED db
    <3>1. CASE UNCHANGED <<touched, pend, db>>
      BY <3>1 DEF TypeOK
    <3>2. ASSUME NEW x \in Items, Hook(x), TxWrite(x) \/ UNCHANGED <<pend, db>>
          PROVE  touched' \in [Ids -> SUBSET Items] /\ pend' \in SUBSET Items /\ UNCHANGED db
      BY <3>2 DEF TypeOK, Hook, TxWrite
    <3>. QED BY <3>1, <3>2 DEF TxExec
  <2>2. pc' \in [Procs -> SessionPc \cup WatchdogPc]
    BY DEF TypeOK, SessionPc, WatchdogPc, TxExec, Goto, lock, data, feed, ghosts, SessionTx, Hook, TxWrite
  <2>3. my' \in [Procs -> Ids \cup {NoId}]
    BY DEF TypeOK, TxExec, Goto, lock, data, feed, ghosts, SessionTx, Hook, TxWrite
  <2>. QED BY <2>1, <2>2, <2>3 DEF TypeOK, TxExec, lock, feed, ghosts
<1>2. Labels'
  BY DEF TypeOK, Labels, SessionPc, WatchdogPc, TxExec, Goto, lock, data, feed, ghosts, SessionTx, Hook, TxWrite
<1>3. OneHolder'
  BY DEF TypeOK, OneHolder, Holders, Locked, Labels, SessionPc, WatchdogPc, TxIsOnConn, TxExec, Goto, lock, data, feed, ghosts, SessionTx, Hook, TxWrite
<1>4. TxIsOnConn'
  BY DEF TypeOK, TxIsOnConn, ConnIsOwned, SqlPc, OneHolder, Holders, Locked, TxExec, Goto, lock, data, feed, ghosts, SessionTx, Hook, TxWrite
<1>5. ConnIsOwned'
  BY DEF TypeOK, ConnIsOwned, SqlPc, OneHolder, Holders, Locked, TxIsOnConn, Labels, SessionPc, WatchdogPc, FreshIds, BeginPc, TxExec, Goto, lock, data, feed, ghosts, SessionTx, Hook, TxWrite
<1>6. HookIsOwned'
  BY DEF TypeOK, HookIsOwned, ConnIsOwned, SqlPc, OneHolder, Holders, Locked, TxIsOnConn, Labels, SessionPc, WatchdogPc, TxExec, Goto, lock, data, feed, ghosts, SessionTx, Hook, TxWrite
<1>7. FreshIds'
  BY DEF TypeOK, FreshIds, BeginPc, Labels, SessionPc, WatchdogPc, TxExec, Goto, lock, data, feed, ghosts, SessionTx, Hook, TxWrite
<1>8. LogsAreNamed'
  BY DEF TypeOK, LogsAreNamed, LogPc, Labels, SessionPc, WatchdogPc, TxExec, Goto, lock, data, feed, ghosts, SessionTx, Hook, TxWrite
<1>. QED BY <1>1, <1>2, <1>3, <1>4, <1>5, <1>6, <1>7, <1>8

LEMMA ExecLockStep == \A s \in Sessions : LockInv /\ ExecLock(s) => LockInv'
<1> SUFFICES ASSUME NEW s \in Sessions, LockInv, ExecLock(s) PROVE LockInv'
  OBVIOUS
<1> USE Distinct DEF LockInv, NoId, NoOne
<1>1. TypeOK'
  BY DEF TypeOK, SessionPc, WatchdogPc, ExecLock, Goto, lock, data, feed, ghosts, SessionTx
<1>2. Labels'
  BY DEF TypeOK, Labels, SessionPc, WatchdogPc, ExecLock, Goto, lock, data, feed, ghosts, SessionTx
<1>3. OneHolder'
  BY DEF TypeOK, OneHolder, Holders, Locked, Labels, SessionPc, WatchdogPc, TxIsOnConn, ExecLock, Goto, lock, data, feed, ghosts, SessionTx
<1>4. TxIsOnConn'
  BY DEF TypeOK, TxIsOnConn, ConnIsOwned, SqlPc, OneHolder, Holders, Locked, ExecLock, Goto, lock, data, feed, ghosts, SessionTx
<1>5. ConnIsOwned'
  BY DEF TypeOK, ConnIsOwned, SqlPc, OneHolder, Holders, Locked, TxIsOnConn, Labels, SessionPc, WatchdogPc, FreshIds, BeginPc, ExecLock, Goto, lock, data, feed, ghosts, SessionTx
<1>6. HookIsOwned'
  BY DEF TypeOK, HookIsOwned, ConnIsOwned, SqlPc, OneHolder, Holders, Locked, TxIsOnConn, Labels, SessionPc, WatchdogPc, ExecLock, Goto, lock, data, feed, ghosts, SessionTx
<1>7. FreshIds'
  BY DEF TypeOK, FreshIds, BeginPc, Labels, SessionPc, WatchdogPc, ExecLock, Goto, lock, data, feed, ghosts, SessionTx
<1>8. LogsAreNamed'
  BY DEF TypeOK, LogsAreNamed, LogPc, Labels, SessionPc, WatchdogPc, ExecLock, Goto, lock, data, feed, ghosts, SessionTx
<1>. QED BY <1>1, <1>2, <1>3, <1>4, <1>5, <1>6, <1>7, <1>8

LEMMA AutoExecStep == \A s \in Sessions : LockInv /\ AutoExec(s) => LockInv'
<1> SUFFICES ASSUME NEW s \in Sessions, LockInv, AutoExec(s) PROVE LockInv'
  OBVIOUS
<1> USE Distinct DEF LockInv, NoId, NoOne
<1>g. pc[s] = "execing" /\ my[s] \in Ids /\ UNCHANGED <<mu, tx, conn, my, seq>>
  BY DEF LogsAreNamed, LogPc, AutoExec, Goto, lock, data, feed, ghosts, SessionTx, Hook, Record, Broadcast, Disarm
<1>a. /\ \A q \in Procs : pc'[q] = IF q = s THEN pc'[s] ELSE pc[q]
      /\ pc'[s] \in {"fetching", "unlocking"}
  BY DEF TypeOK, AutoExec, Goto, lock, data, feed, ghosts, SessionTx, Hook, Record, Broadcast, Disarm
<1>1. TypeOK'
  <2>1. \/ UNCHANGED <<touched, db, stray, hist>>
        \/ /\ \E x \in Items : Hook(x)
           /\ Record(touched'[my[s]])
           /\ \/ \E x \in Items : db' = [db EXCEPT ![x] = my[s]]
                 /\ stray' = stray \cup ({ctx[s]} \ {NoId})
              \/ UNCHANGED <<db, stray>>
    BY DEF AutoExec
  <2>2. touched' \in [Ids -> SUBSET Items]
    BY <2>1 DEF TypeOK, Hook
  <2>3. db' \in [Items -> Ids \cup {NoId}] /\ stray' \in SUBSET Ids
    BY <2>1, <1>g DEF TypeOK
  <2>4. hist' \in Seq(SUBSET (Nodes \cup Flags))
    <3>1. touched'[my[s]] \subseteq Items
      BY <2>2, <1>g
    <3>. QED BY <2>1, <3>1, RecordType DEF TypeOK
  <2>5. pc' \in [Procs -> SessionPc \cup WatchdogPc]
    BY DEF TypeOK, SessionPc, WatchdogPc, AutoExec, Goto, lock, data, feed, ghosts, SessionTx, Hook, Record, Broadcast, Disarm
  <2>. QED BY <2>2, <2>3, <2>4, <2>5 DEF TypeOK, AutoExec, Disarm, lock, feed
<1>2. Labels'
  BY <1>a DEF Labels, SessionPc, WatchdogPc
<1>3. OneHolder'
  BY <1>a, <1>g, HoldersKept DEF Locked
<1>4. TxIsOnConn'
  BY DEF TypeOK, TxIsOnConn, ConnIsOwned, SqlPc, OneHolder, Holders, Locked, AutoExec, Goto, lock, data, feed, ghosts, SessionTx, Hook, Record, Broadcast, Disarm
<1>5. ConnIsOwned'
  BY DEF TypeOK, ConnIsOwned, SqlPc, OneHolder, Holders, Locked, TxIsOnConn, Labels, SessionPc, WatchdogPc, FreshIds, BeginPc, AutoExec, Goto, lock, data, feed, ghosts, SessionTx, Hook, Record, Broadcast, Disarm
<1>6. HookIsOwned'
  BY DEF TypeOK, HookIsOwned, ConnIsOwned, SqlPc, OneHolder, Holders, Locked, TxIsOnConn, Labels, SessionPc, WatchdogPc, AutoExec, Goto, lock, data, feed, ghosts, SessionTx, Hook, Record, Broadcast, Disarm
<1>7. FreshIds'
  BY <1>a, <1>g, FreshKept DEF TypeOK, BeginPc, AutoExec, Goto, lock, data, feed, ghosts, SessionTx, Hook, Record, Broadcast, Disarm
<1>8. LogsAreNamed'
  BY DEF TypeOK, LogsAreNamed, LogPc, Labels, SessionPc, WatchdogPc, AutoExec, Goto, lock, data, feed, ghosts, SessionTx, Hook, Record, Broadcast, Disarm
<1>. QED BY <1>1, <1>2, <1>3, <1>4, <1>5, <1>6, <1>7, <1>8

LEMMA RequestQueryStep == \A s \in Sessions : LockInv /\ RequestQuery(s) => LockInv'
<1> SUFFICES ASSUME NEW s \in Sessions, LockInv, RequestQuery(s) PROVE LockInv'
  OBVIOUS
<1> USE Distinct DEF LockInv, NoId, NoOne
<1>1. TypeOK'
  BY DEF TypeOK, SessionPc, WatchdogPc, RequestQuery, Goto, lock, data, feed, ghosts, SessionTx
<1>2. Labels'
  BY DEF TypeOK, Labels, SessionPc, WatchdogPc, RequestQuery, Goto, lock, data, feed, ghosts, SessionTx
<1>3. OneHolder'
  BY DEF TypeOK, OneHolder, Holders, Locked, Labels, SessionPc, WatchdogPc, TxIsOnConn, RequestQuery, Goto, lock, data, feed, ghosts, SessionTx
<1>4. TxIsOnConn'
  BY DEF TypeOK, TxIsOnConn, ConnIsOwned, SqlPc, OneHolder, Holders, Locked, RequestQuery, Goto, lock, data, feed, ghosts, SessionTx
<1>5. ConnIsOwned'
  BY DEF TypeOK, ConnIsOwned, SqlPc, OneHolder, Holders, Locked, TxIsOnConn, Labels, SessionPc, WatchdogPc, FreshIds, BeginPc, RequestQuery, Goto, lock, data, feed, ghosts, SessionTx
<1>6. HookIsOwned'
  BY DEF TypeOK, HookIsOwned, ConnIsOwned, SqlPc, OneHolder, Holders, Locked, TxIsOnConn, Labels, SessionPc, WatchdogPc, RequestQuery, Goto, lock, data, feed, ghosts, SessionTx
<1>7. FreshIds'
  BY DEF TypeOK, FreshIds, BeginPc, Labels, SessionPc, WatchdogPc, RequestQuery, Goto, lock, data, feed, ghosts, SessionTx
<1>8. LogsAreNamed'
  BY DEF TypeOK, LogsAreNamed, LogPc, Labels, SessionPc, WatchdogPc, RequestQuery, Goto, lock, data, feed, ghosts, SessionTx
<1>. QED BY <1>1, <1>2, <1>3, <1>4, <1>5, <1>6, <1>7, <1>8

LEMMA QueryLockStep == \A s \in Sessions : LockInv /\ QueryLock(s) => LockInv'
<1> SUFFICES ASSUME NEW s \in Sessions, LockInv, QueryLock(s) PROVE LockInv'
  OBVIOUS
<1> USE Distinct DEF LockInv, NoId, NoOne
<1>1. TypeOK'
  BY DEF TypeOK, SessionPc, WatchdogPc, QueryLock, Goto, lock, data, feed, ghosts, SessionTx
<1>2. Labels'
  BY DEF TypeOK, Labels, SessionPc, WatchdogPc, QueryLock, Goto, lock, data, feed, ghosts, SessionTx
<1>3. OneHolder'
  BY DEF TypeOK, OneHolder, Holders, Locked, Labels, SessionPc, WatchdogPc, TxIsOnConn, QueryLock, Goto, lock, data, feed, ghosts, SessionTx
<1>4. TxIsOnConn'
  BY DEF TypeOK, TxIsOnConn, ConnIsOwned, SqlPc, OneHolder, Holders, Locked, QueryLock, Goto, lock, data, feed, ghosts, SessionTx
<1>5. ConnIsOwned'
  BY DEF TypeOK, ConnIsOwned, SqlPc, OneHolder, Holders, Locked, TxIsOnConn, Labels, SessionPc, WatchdogPc, FreshIds, BeginPc, QueryLock, Goto, lock, data, feed, ghosts, SessionTx
<1>6. HookIsOwned'
  BY DEF TypeOK, HookIsOwned, ConnIsOwned, SqlPc, OneHolder, Holders, Locked, TxIsOnConn, Labels, SessionPc, WatchdogPc, QueryLock, Goto, lock, data, feed, ghosts, SessionTx
<1>7. FreshIds'
  BY DEF TypeOK, FreshIds, BeginPc, Labels, SessionPc, WatchdogPc, QueryLock, Goto, lock, data, feed, ghosts, SessionTx
<1>8. LogsAreNamed'
  BY DEF TypeOK, LogsAreNamed, LogPc, Labels, SessionPc, WatchdogPc, QueryLock, Goto, lock, data, feed, ghosts, SessionTx
<1>. QED BY <1>1, <1>2, <1>3, <1>4, <1>5, <1>6, <1>7, <1>8

LEMMA RunQueryStep == \A s \in Sessions : LockInv /\ RunQuery(s) => LockInv'
<1> SUFFICES ASSUME NEW s \in Sessions, LockInv, RunQuery(s) PROVE LockInv'
  OBVIOUS
<1> USE Distinct DEF LockInv, NoId, NoOne
<1>1. TypeOK'
  BY DEF TypeOK, SessionPc, WatchdogPc, RunQuery, Goto, lock, data, feed, ghosts, SessionTx
<1>2. Labels'
  BY DEF TypeOK, Labels, SessionPc, WatchdogPc, RunQuery, Goto, lock, data, feed, ghosts, SessionTx
<1>3. OneHolder'
  BY DEF TypeOK, OneHolder, Holders, Locked, Labels, SessionPc, WatchdogPc, TxIsOnConn, RunQuery, Goto, lock, data, feed, ghosts, SessionTx
<1>4. TxIsOnConn'
  BY DEF TypeOK, TxIsOnConn, ConnIsOwned, SqlPc, OneHolder, Holders, Locked, RunQuery, Goto, lock, data, feed, ghosts, SessionTx
<1>5. ConnIsOwned'
  BY DEF TypeOK, ConnIsOwned, SqlPc, OneHolder, Holders, Locked, TxIsOnConn, Labels, SessionPc, WatchdogPc, FreshIds, BeginPc, RunQuery, Goto, lock, data, feed, ghosts, SessionTx
<1>6. HookIsOwned'
  BY DEF TypeOK, HookIsOwned, ConnIsOwned, SqlPc, OneHolder, Holders, Locked, TxIsOnConn, Labels, SessionPc, WatchdogPc, RunQuery, Goto, lock, data, feed, ghosts, SessionTx
<1>7. FreshIds'
  BY DEF TypeOK, FreshIds, BeginPc, Labels, SessionPc, WatchdogPc, RunQuery, Goto, lock, data, feed, ghosts, SessionTx
<1>8. LogsAreNamed'
  BY DEF TypeOK, LogsAreNamed, LogPc, Labels, SessionPc, WatchdogPc, RunQuery, Goto, lock, data, feed, ghosts, SessionTx
<1>. QED BY <1>1, <1>2, <1>3, <1>4, <1>5, <1>6, <1>7, <1>8

LEMMA CommitStep == \A s \in Sessions : LockInv /\ Commit(s) => LockInv'
<1> SUFFICES ASSUME NEW s \in Sessions, LockInv, Commit(s) PROVE LockInv'
  OBVIOUS
<1> USE Distinct DEF LockInv, NoId, NoOne
<1>1. TypeOK'
  BY DEF TypeOK, SessionPc, WatchdogPc, Commit, Goto, lock, data, feed, ghosts, SessionTx, ClaimTx, ForgetTx
<1>2. Labels'
  BY DEF TypeOK, Labels, SessionPc, WatchdogPc, Commit, Goto, lock, data, feed, ghosts, SessionTx, ClaimTx, ForgetTx
<1>3. OneHolder'
  BY DEF TypeOK, OneHolder, Holders, Locked, Labels, SessionPc, WatchdogPc, TxIsOnConn, Commit, Goto, lock, data, feed, ghosts, SessionTx, ClaimTx, ForgetTx
<1>4. TxIsOnConn'
  BY DEF TypeOK, TxIsOnConn, ConnIsOwned, SqlPc, OneHolder, Holders, Locked, Commit, Goto, lock, data, feed, ghosts, SessionTx, ClaimTx, ForgetTx
<1>5. ConnIsOwned'
  BY DEF TypeOK, ConnIsOwned, SqlPc, OneHolder, Holders, Locked, TxIsOnConn, Labels, SessionPc, WatchdogPc, FreshIds, BeginPc, Commit, Goto, lock, data, feed, ghosts, SessionTx, ClaimTx, ForgetTx
<1>6. HookIsOwned'
  BY DEF TypeOK, HookIsOwned, ConnIsOwned, SqlPc, OneHolder, Holders, Locked, TxIsOnConn, Labels, SessionPc, WatchdogPc, Commit, Goto, lock, data, feed, ghosts, SessionTx, ClaimTx, ForgetTx
<1>7. FreshIds'
  BY FreshKept DEF TypeOK, BeginPc, Labels, SessionPc, WatchdogPc, Commit, Goto, lock, data, feed, ghosts, SessionTx, ClaimTx, ForgetTx
<1>8. LogsAreNamed'
  BY DEF TypeOK, LogsAreNamed, LogPc, Labels, SessionPc, WatchdogPc, Commit, Goto, lock, data, feed, ghosts, SessionTx, ClaimTx, ForgetTx
<1>. QED BY <1>1, <1>2, <1>3, <1>4, <1>5, <1>6, <1>7, <1>8

LEMMA RollbackStep == \A s \in Sessions : LockInv /\ Rollback(s) => LockInv'
<1> SUFFICES ASSUME NEW s \in Sessions, LockInv, Rollback(s) PROVE LockInv'
  OBVIOUS
<1> USE Distinct DEF LockInv, NoId, NoOne
<1>1. TypeOK'
  BY DEF TypeOK, SessionPc, WatchdogPc, Rollback, Goto, lock, data, feed, ghosts, SessionTx, ClaimTx, ForgetTx
<1>2. Labels'
  BY DEF TypeOK, Labels, SessionPc, WatchdogPc, Rollback, Goto, lock, data, feed, ghosts, SessionTx, ClaimTx, ForgetTx
<1>3. OneHolder'
  BY DEF TypeOK, OneHolder, Holders, Locked, Labels, SessionPc, WatchdogPc, TxIsOnConn, Rollback, Goto, lock, data, feed, ghosts, SessionTx, ClaimTx, ForgetTx
<1>4. TxIsOnConn'
  BY DEF TypeOK, TxIsOnConn, ConnIsOwned, SqlPc, OneHolder, Holders, Locked, Rollback, Goto, lock, data, feed, ghosts, SessionTx, ClaimTx, ForgetTx
<1>5. ConnIsOwned'
  BY DEF TypeOK, ConnIsOwned, SqlPc, OneHolder, Holders, Locked, TxIsOnConn, Labels, SessionPc, WatchdogPc, FreshIds, BeginPc, Rollback, Goto, lock, data, feed, ghosts, SessionTx, ClaimTx, ForgetTx
<1>6. HookIsOwned'
  BY DEF TypeOK, HookIsOwned, ConnIsOwned, SqlPc, OneHolder, Holders, Locked, TxIsOnConn, Labels, SessionPc, WatchdogPc, Rollback, Goto, lock, data, feed, ghosts, SessionTx, ClaimTx, ForgetTx
<1>7. FreshIds'
  BY FreshKept DEF TypeOK, BeginPc, Labels, SessionPc, WatchdogPc, Rollback, Goto, lock, data, feed, ghosts, SessionTx, ClaimTx, ForgetTx
<1>8. LogsAreNamed'
  BY DEF TypeOK, LogsAreNamed, LogPc, Labels, SessionPc, WatchdogPc, Rollback, Goto, lock, data, feed, ghosts, SessionTx, ClaimTx, ForgetTx
<1>. QED BY <1>1, <1>2, <1>3, <1>4, <1>5, <1>6, <1>7, <1>8

LEMMA SettleRefusedStep == \A s \in Sessions : LockInv /\ SettleRefused(s) => LockInv'
<1> SUFFICES ASSUME NEW s \in Sessions, LockInv, SettleRefused(s) PROVE LockInv'
  OBVIOUS
<1> USE Distinct DEF LockInv, NoId, NoOne
<1>1. TypeOK'
  BY DEF TypeOK, SessionPc, WatchdogPc, SettleRefused, Goto, lock, data, feed, ghosts, SessionTx
<1>2. Labels'
  BY DEF TypeOK, Labels, SessionPc, WatchdogPc, SettleRefused, Goto, lock, data, feed, ghosts, SessionTx
<1>3. OneHolder'
  BY DEF TypeOK, OneHolder, Holders, Locked, Labels, SessionPc, WatchdogPc, TxIsOnConn, SettleRefused, Goto, lock, data, feed, ghosts, SessionTx
<1>4. TxIsOnConn'
  BY DEF TypeOK, TxIsOnConn, ConnIsOwned, SqlPc, OneHolder, Holders, Locked, SettleRefused, Goto, lock, data, feed, ghosts, SessionTx
<1>5. ConnIsOwned'
  BY DEF TypeOK, ConnIsOwned, SqlPc, OneHolder, Holders, Locked, TxIsOnConn, Labels, SessionPc, WatchdogPc, FreshIds, BeginPc, SettleRefused, Goto, lock, data, feed, ghosts, SessionTx
<1>6. HookIsOwned'
  BY DEF TypeOK, HookIsOwned, ConnIsOwned, SqlPc, OneHolder, Holders, Locked, TxIsOnConn, Labels, SessionPc, WatchdogPc, SettleRefused, Goto, lock, data, feed, ghosts, SessionTx
<1>7. FreshIds'
  BY DEF TypeOK, FreshIds, BeginPc, Labels, SessionPc, WatchdogPc, SettleRefused, Goto, lock, data, feed, ghosts, SessionTx
<1>8. LogsAreNamed'
  BY DEF TypeOK, LogsAreNamed, LogPc, Labels, SessionPc, WatchdogPc, SettleRefused, Goto, lock, data, feed, ghosts, SessionTx
<1>. QED BY <1>1, <1>2, <1>3, <1>4, <1>5, <1>6, <1>7, <1>8

LEMMA SqlCommitStep == \A s \in Sessions : LockInv /\ SqlCommit(s) => LockInv'
<1> SUFFICES ASSUME NEW s \in Sessions, LockInv, SqlCommit(s) PROVE LockInv'
  OBVIOUS
<1> USE Distinct DEF LockInv, NoId, NoOne
<1>g. pc[s] = "committing" /\ my[s] \in Ids /\ UNCHANGED <<mu, tx, my, seq, next>>
  BY DEF ConnIsOwned, SqlPc, TypeOK, SqlCommit, Goto, lock, data, feed, ghosts, SessionTx, EndSql, Disarm, Record, Broadcast, SkipBroadcast
<1>a. /\ \A q \in Procs : pc'[q] = IF q = s THEN pc'[s] ELSE pc[q]
      /\ pc'[s] \in {"fetching", "unlocking"}
  BY DEF TypeOK, SqlCommit, Goto, lock, data, feed, ghosts, SessionTx, EndSql, Disarm, Record, Broadcast, SkipBroadcast
<1>1. TypeOK'
  <2>1. touched[my[s]] \subseteq Items
    BY <1>g DEF TypeOK
  <2>2. hist' \in Seq(SUBSET (Nodes \cup Flags))
    BY <2>1, RecordType DEF TypeOK, SqlCommit
  <2>3. db' \in [Items -> Ids \cup {NoId}]
    <3>1. CASE UNCHANGED <<db, hist>>
      BY <3>1 DEF TypeOK
    <3>2. CASE db' = [x \in Items |-> IF x \in pend THEN my[s] ELSE db[x]]
      BY <3>2, <1>g DEF TypeOK
    <3>. QED BY <3>1, <3>2 DEF SqlCommit
  <2>5. pc' \in [Procs -> SessionPc \cup WatchdogPc]
    BY DEF TypeOK, SessionPc, WatchdogPc, SqlCommit, Goto, lock, data, feed, ghosts, SessionTx, EndSql, Disarm, Record, Broadcast, SkipBroadcast
  <2>. QED BY <2>2, <2>3, <2>5 DEF TypeOK, SqlCommit, EndSql, Disarm, lock, feed, ghosts
<1>2. Labels'
  BY <1>a DEF Labels, SessionPc, WatchdogPc
<1>3. OneHolder'
  BY <1>a, <1>g, HoldersKept DEF Locked
<1>4. TxIsOnConn'
  BY DEF TypeOK, TxIsOnConn, ConnIsOwned, SqlPc, OneHolder, Holders, Locked, SqlCommit, Goto, lock, data, feed, ghosts, SessionTx, EndSql, Disarm, Record, Broadcast, SkipBroadcast
<1>5. ConnIsOwned'
  BY DEF TypeOK, ConnIsOwned, SqlPc, OneHolder, Holders, Locked, TxIsOnConn, Labels, SessionPc, WatchdogPc, FreshIds, BeginPc, SqlCommit, Goto, lock, data, feed, ghosts, SessionTx, EndSql, Disarm, Record, Broadcast, SkipBroadcast
<1>6. HookIsOwned'
  BY DEF TypeOK, HookIsOwned, ConnIsOwned, SqlPc, OneHolder, Holders, Locked, TxIsOnConn, Labels, SessionPc, WatchdogPc, SqlCommit, Goto, lock, data, feed, ghosts, SessionTx, EndSql, Disarm, Record, Broadcast, SkipBroadcast
<1>7. FreshIds'
  BY <1>a, <1>g, FreshKept DEF TypeOK, BeginPc
<1>8. LogsAreNamed'
  BY <1>a, <1>g DEF LogsAreNamed, LogPc
<1>. QED BY <1>1, <1>2, <1>3, <1>4, <1>5, <1>6, <1>7, <1>8

LEMMA SqlRollbackStep == \A p \in Procs : LockInv /\ SqlRollback(p) => LockInv'
<1> SUFFICES ASSUME NEW p \in Procs, LockInv, SqlRollback(p) PROVE LockInv'
  OBVIOUS
<1> USE Distinct DEF LockInv, NoId, NoOne
<1>1. TypeOK'
  BY DEF TypeOK, SessionPc, WatchdogPc, SqlRollback, Goto, lock, data, feed, ghosts, SessionTx, EndSql, Disarm
<1>2. Labels'
  BY DEF TypeOK, Labels, SessionPc, WatchdogPc, SqlRollback, Goto, lock, data, feed, ghosts, SessionTx, EndSql, Disarm
<1>3. OneHolder'
  BY DEF TypeOK, OneHolder, Holders, Locked, Labels, SessionPc, WatchdogPc, TxIsOnConn, SqlRollback, Goto, lock, data, feed, ghosts, SessionTx, EndSql, Disarm
<1>4. TxIsOnConn'
  BY DEF TypeOK, TxIsOnConn, ConnIsOwned, SqlPc, OneHolder, Holders, Locked, SqlRollback, Goto, lock, data, feed, ghosts, SessionTx, EndSql, Disarm
<1>5. ConnIsOwned'
  BY DEF TypeOK, ConnIsOwned, SqlPc, OneHolder, Holders, Locked, TxIsOnConn, Labels, SessionPc, WatchdogPc, FreshIds, BeginPc, SqlRollback, Goto, lock, data, feed, ghosts, SessionTx, EndSql, Disarm
<1>6. HookIsOwned'
  BY DEF TypeOK, HookIsOwned, ConnIsOwned, SqlPc, OneHolder, Holders, Locked, TxIsOnConn, Labels, SessionPc, WatchdogPc, SqlRollback, Goto, lock, data, feed, ghosts, SessionTx, EndSql, Disarm
<1>7. FreshIds'
  BY DEF TypeOK, FreshIds, BeginPc, Labels, SessionPc, WatchdogPc, SqlRollback, Goto, lock, data, feed, ghosts, SessionTx, EndSql, Disarm
<1>8. LogsAreNamed'
  BY DEF TypeOK, LogsAreNamed, LogPc, Labels, SessionPc, WatchdogPc, SqlRollback, Goto, lock, data, feed, ghosts, SessionTx, EndSql, Disarm
<1>. QED BY <1>1, <1>2, <1>3, <1>4, <1>5, <1>6, <1>7, <1>8

LEMMA DisconnectStep == \A s \in Sessions : LockInv /\ Disconnect(s) => LockInv'
<1> SUFFICES ASSUME NEW s \in Sessions, LockInv, Disconnect(s) PROVE LockInv'
  OBVIOUS
<1> USE Distinct DEF LockInv, NoId, NoOne
<1>a. \/ ClaimTx(s, s, "rolling")
      \/ Goto(s, "gone") /\ UNCHANGED <<my, ended, tx, txOwner>>
  BY DEF Disconnect
<1>g. pc[s] \in {"idle", "fired"} /\ UNCHANGED <<mu, conn, collector, next, seq>>
  BY DEF Disconnect, data, feed
<1>b. CASE ClaimTx(s, s, "rolling")
  <2>1. /\ tx \in Ids /\ tx' = NoId /\ txOwner' = NoOne
        /\ \A q \in Procs : pc'[q] = IF q = s THEN "rolling"
                                      ELSE IF q = tx /\ pc[q] = "armed" THEN "stopped" ELSE pc[q]
        /\ \A q \in Procs : my'[q] = IF q = s THEN tx ELSE my[q]
    BY <1>b DEF ClaimTx, ForgetTx, TypeOK, SessionTx
  <2>2. mu /\ conn = tx /\ \A q \in Procs : pc[q] \notin Locked
    BY <2>1 DEF OneHolder, Holders, TxIsOnConn
  <2>3. TypeOK'
    <3>1. pc' \in [Procs -> SessionPc \cup WatchdogPc]
      BY <1>b DEF ClaimTx, TypeOK, SessionPc, WatchdogPc
    <3>2. my' \in [Procs -> Ids \cup {NoId}]
      BY <1>b, <2>1 DEF ClaimTx, TypeOK
    <3>3. ended' \in [Ids -> Procs \cup {NoOne}]
      BY <1>b, <2>1 DEF ClaimTx, TypeOK
    <3>. QED BY <3>1, <3>2, <3>3, <2>1 DEF TypeOK, Disconnect, data, feed
  <2>4. Labels'
    BY <2>1 DEF Labels, SessionPc, WatchdogPc
  <2>5. OneHolder'
    <3>1. \A q \in Procs : pc'[q] \in Locked <=> q = s
      BY <2>1, <2>2 DEF Locked
    <3>. QED BY <3>1, <2>1, <2>2, <1>g, SoleHolder
  <2>6. TxIsOnConn' /\ ConnIsOwned'
    BY <2>1, <2>2, <1>g DEF TxIsOnConn, ConnIsOwned, SqlPc, Locked
  <2>7. HookIsOwned'
    BY <2>1, <2>2, <1>g DEF HookIsOwned, Locked
  <2>8. FreshIds'
    <3>1. \A t \in Sessions : pc'[t] \in BeginPc => pc[t] \in BeginPc /\ my'[t] = my[t]
      BY <2>1 DEF BeginPc
    <3>2. \A j \in Ids : pc[j] = "off" => pc'[j] = "off"
      BY <2>1, <1>g
    <3>. QED BY <3>1, <3>2, <1>g, FreshKept DEF TypeOK
  <2>9. LogsAreNamed'
    BY <2>1, <1>g DEF LogsAreNamed, LogPc
  <2>. QED BY <2>3, <2>4, <2>5, <2>6, <2>7, <2>8, <2>9
<1>c. CASE Goto(s, "gone") /\ UNCHANGED <<my, ended, tx, txOwner>>
  <2>1. \A q \in Procs : pc'[q] = IF q = s THEN "gone" ELSE pc[q]
    BY <1>c DEF Goto, TypeOK
  <2>2. UNCHANGED <<my, ended, tx, txOwner>>
    BY <1>c
  <2>3. TypeOK'
    <3>1. pc' \in [Procs -> SessionPc \cup WatchdogPc]
      BY <1>c DEF Goto, TypeOK, SessionPc, WatchdogPc
    <3>. QED BY <3>1, <2>2 DEF TypeOK, Disconnect, data, feed
  <2>4. Labels'
    BY <2>1 DEF Labels, SessionPc, WatchdogPc
  <2>5. OneHolder'
    <3>1. \A q \in Procs : pc'[q] \in Locked <=> pc[q] \in Locked
      BY <2>1, <1>g DEF Locked
    <3>. QED BY <3>1, <2>2, <1>g, HoldersKept
  <2>6. TxIsOnConn' /\ ConnIsOwned'
    BY <2>1, <2>2, <1>g DEF TxIsOnConn, ConnIsOwned, SqlPc
  <2>7. HookIsOwned'
    BY <2>1, <2>2, <1>g DEF HookIsOwned
  <2>8. FreshIds'
    BY <2>1, <2>2, <1>g, FreshKept DEF TypeOK, BeginPc
  <2>9. LogsAreNamed'
    BY <2>1, <2>2, <1>g DEF LogsAreNamed, LogPc
  <2>. QED BY <2>3, <2>4, <2>5, <2>6, <2>7, <2>8, <2>9
<1>. QED BY <1>a, <1>b, <1>c

LEMMA FireStep == \A i \in Ids : LockInv /\ Fire(i) => LockInv'
<1> SUFFICES ASSUME NEW i \in Ids, LockInv, Fire(i) PROVE LockInv'
  OBVIOUS
<1> USE Distinct DEF LockInv, NoId, NoOne
<1>1. TypeOK'
  BY DEF TypeOK, SessionPc, WatchdogPc, Fire, Goto, lock, data, feed, ghosts, SessionTx
<1>2. Labels'
  BY DEF TypeOK, Labels, SessionPc, WatchdogPc, Fire, Goto, lock, data, feed, ghosts, SessionTx
<1>3. OneHolder'
  BY DEF TypeOK, OneHolder, Holders, Locked, Labels, SessionPc, WatchdogPc, TxIsOnConn, Fire, Goto, lock, data, feed, ghosts, SessionTx
<1>4. TxIsOnConn'
  BY DEF TypeOK, TxIsOnConn, ConnIsOwned, SqlPc, OneHolder, Holders, Locked, Fire, Goto, lock, data, feed, ghosts, SessionTx
<1>5. ConnIsOwned'
  BY DEF TypeOK, ConnIsOwned, SqlPc, OneHolder, Holders, Locked, TxIsOnConn, Labels, SessionPc, WatchdogPc, FreshIds, BeginPc, Fire, Goto, lock, data, feed, ghosts, SessionTx
<1>6. HookIsOwned'
  BY DEF TypeOK, HookIsOwned, ConnIsOwned, SqlPc, OneHolder, Holders, Locked, TxIsOnConn, Labels, SessionPc, WatchdogPc, Fire, Goto, lock, data, feed, ghosts, SessionTx
<1>7. FreshIds'
  BY DEF TypeOK, FreshIds, BeginPc, Labels, SessionPc, WatchdogPc, Fire, Goto, lock, data, feed, ghosts, SessionTx
<1>8. LogsAreNamed'
  BY DEF TypeOK, LogsAreNamed, LogPc, Labels, SessionPc, WatchdogPc, Fire, Goto, lock, data, feed, ghosts, SessionTx
<1>. QED BY <1>1, <1>2, <1>3, <1>4, <1>5, <1>6, <1>7, <1>8

LEMMA WatchdogStep == \A i \in Ids : LockInv /\ Watchdog(i) => LockInv'
<1> SUFFICES ASSUME NEW i \in Ids, LockInv, Watchdog(i) PROVE LockInv'
  OBVIOUS
<1> USE Distinct DEF LockInv, NoId, NoOne
<1>a. \/ ClaimTx(i, starter[i], "rolling")
      \/ Goto(i, "done") /\ UNCHANGED <<my, ended, tx, txOwner>>
  BY DEF Watchdog
<1>g. pc[i] \in {"idle", "fired"} /\ UNCHANGED <<mu, conn, collector, next, seq>>
  BY DEF Watchdog, data, feed
<1>b. CASE ClaimTx(i, starter[i], "rolling")
  <2>1. /\ tx \in Ids /\ tx' = NoId /\ txOwner' = NoOne
        /\ \A q \in Procs : pc'[q] = IF q = i THEN "rolling"
                                      ELSE IF q = tx /\ pc[q] = "armed" THEN "stopped" ELSE pc[q]
        /\ \A q \in Procs : my'[q] = IF q = i THEN tx ELSE my[q]
    BY <1>b DEF ClaimTx, ForgetTx, TypeOK, SessionTx
  <2>2. mu /\ conn = tx /\ \A q \in Procs : pc[q] \notin Locked
    BY <2>1 DEF OneHolder, Holders, TxIsOnConn
  <2>3. TypeOK'
    <3>1. pc' \in [Procs -> SessionPc \cup WatchdogPc]
      BY <1>b DEF ClaimTx, TypeOK, SessionPc, WatchdogPc
    <3>2. my' \in [Procs -> Ids \cup {NoId}]
      BY <1>b, <2>1 DEF ClaimTx, TypeOK
    <3>3. ended' \in [Ids -> Procs \cup {NoOne}]
      BY <1>b, <2>1 DEF ClaimTx, TypeOK
    <3>. QED BY <3>1, <3>2, <3>3, <2>1 DEF TypeOK, Watchdog, data, feed
  <2>4. Labels'
    BY <2>1 DEF Labels, SessionPc, WatchdogPc
  <2>5. OneHolder'
    <3>1. \A q \in Procs : pc'[q] \in Locked <=> q = i
      BY <2>1, <2>2 DEF Locked
    <3>. QED BY <3>1, <2>1, <2>2, <1>g, SoleHolder
  <2>6. TxIsOnConn' /\ ConnIsOwned'
    BY <2>1, <2>2, <1>g DEF TxIsOnConn, ConnIsOwned, SqlPc, Locked
  <2>7. HookIsOwned'
    BY <2>1, <2>2, <1>g DEF HookIsOwned, Locked
  <2>8. FreshIds'
    <3>1. \A t \in Sessions : pc'[t] \in BeginPc => pc[t] \in BeginPc /\ my'[t] = my[t]
      BY <2>1 DEF BeginPc
    <3>2. \A j \in Ids : pc[j] = "off" => pc'[j] = "off"
      BY <2>1, <1>g
    <3>. QED BY <3>1, <3>2, <1>g, FreshKept DEF TypeOK
  <2>9. LogsAreNamed'
    BY <2>1, <1>g DEF LogsAreNamed, LogPc
  <2>. QED BY <2>3, <2>4, <2>5, <2>6, <2>7, <2>8, <2>9
<1>c. CASE Goto(i, "done") /\ UNCHANGED <<my, ended, tx, txOwner>>
  <2>1. \A q \in Procs : pc'[q] = IF q = i THEN "done" ELSE pc[q]
    BY <1>c DEF Goto, TypeOK
  <2>2. UNCHANGED <<my, ended, tx, txOwner>>
    BY <1>c
  <2>3. TypeOK'
    <3>1. pc' \in [Procs -> SessionPc \cup WatchdogPc]
      BY <1>c DEF Goto, TypeOK, SessionPc, WatchdogPc
    <3>. QED BY <3>1, <2>2 DEF TypeOK, Watchdog, data, feed
  <2>4. Labels'
    BY <2>1 DEF Labels, SessionPc, WatchdogPc
  <2>5. OneHolder'
    <3>1. \A q \in Procs : pc'[q] \in Locked <=> pc[q] \in Locked
      BY <2>1, <1>g DEF Locked
    <3>. QED BY <3>1, <2>2, <1>g, HoldersKept
  <2>6. TxIsOnConn' /\ ConnIsOwned'
    BY <2>1, <2>2, <1>g DEF TxIsOnConn, ConnIsOwned, SqlPc
  <2>7. HookIsOwned'
    BY <2>1, <2>2, <1>g DEF HookIsOwned
  <2>8. FreshIds'
    BY <2>1, <2>2, <1>g, FreshKept DEF TypeOK, BeginPc
  <2>9. LogsAreNamed'
    BY <2>1, <2>2, <1>g DEF LogsAreNamed, LogPc
  <2>. QED BY <2>3, <2>4, <2>5, <2>6, <2>7, <2>8, <2>9
<1>. QED BY <1>a, <1>b, <1>c

LEMMA FetchStep == \A p \in Procs : LockInv /\ Fetch(p) => LockInv'
<1> SUFFICES ASSUME NEW p \in Procs, LockInv, Fetch(p) PROVE LockInv'
  OBVIOUS
<1> USE Distinct DEF LockInv, NoId, NoOne
<1>1. TypeOK'
  <2>1. my[p] \in Ids
    BY DEF LogsAreNamed, LogPc, Fetch
  <2>2. lost' \in SUBSET Ids
    BY <2>1 DEF TypeOK, Fetch
  <2>3. pc' \in [Procs -> SessionPc \cup WatchdogPc]
    BY DEF TypeOK, SessionPc, WatchdogPc, Fetch, Goto, lock, data, feed, ghosts, SessionTx
  <2>4. seq' \in Nat
    BY DEF TypeOK, Fetch
  <2>. QED BY <2>2, <2>3, <2>4 DEF TypeOK, Fetch, lock, data, ghosts
<1>2. Labels'
  BY DEF TypeOK, Labels, SessionPc, WatchdogPc, Fetch, Goto, lock, data, feed, ghosts, SessionTx
<1>3. OneHolder'
  BY DEF TypeOK, OneHolder, Holders, Locked, Labels, SessionPc, WatchdogPc, TxIsOnConn, Fetch, Goto, lock, data, feed, ghosts, SessionTx
<1>4. TxIsOnConn'
  BY DEF TypeOK, TxIsOnConn, ConnIsOwned, SqlPc, OneHolder, Holders, Locked, Fetch, Goto, lock, data, feed, ghosts, SessionTx
<1>5. ConnIsOwned'
  BY DEF TypeOK, ConnIsOwned, SqlPc, OneHolder, Holders, Locked, TxIsOnConn, Labels, SessionPc, WatchdogPc, FreshIds, BeginPc, Fetch, Goto, lock, data, feed, ghosts, SessionTx
<1>6. HookIsOwned'
  BY DEF TypeOK, HookIsOwned, ConnIsOwned, SqlPc, OneHolder, Holders, Locked, TxIsOnConn, Labels, SessionPc, WatchdogPc, Fetch, Goto, lock, data, feed, ghosts, SessionTx
<1>7. FreshIds'
  BY DEF TypeOK, FreshIds, BeginPc, Labels, SessionPc, WatchdogPc, Fetch, Goto, lock, data, feed, ghosts, SessionTx
<1>8. LogsAreNamed'
  BY DEF TypeOK, LogsAreNamed, LogPc, Labels, SessionPc, WatchdogPc, Fetch, Goto, lock, data, feed, ghosts, SessionTx
<1>. QED BY <1>1, <1>2, <1>3, <1>4, <1>5, <1>6, <1>7, <1>8

LEMMA FanOutStep == \A p \in Procs : LockInv /\ FanOut(p) => LockInv'
<1> SUFFICES ASSUME NEW p \in Procs, LockInv, FanOut(p) PROVE LockInv'
  OBVIOUS
<1> USE Distinct DEF LockInv, NoId, NoOne
<1>1. TypeOK'
  <2>1. my[p] \in Ids
    BY DEF LogsAreNamed, LogPc, FanOut
  <2>2. EventOf(my[p]) \in [seq : Nat, items : SUBSET (Nodes \cup Flags)]
    BY <2>1 DEF TypeOK, EventOf, Items
  <2>3. chan' \in [Subs -> Seq([seq : Nat, items : SUBSET (Nodes \cup Flags)])]
    <3>1. \A c \in Subs : Append(chan[c], EventOf(my[p])) \in Seq([seq : Nat, items : SUBSET (Nodes \cup Flags)])
      <4>1. \A c \in Subs : chan[c] \in Seq([seq : Nat, items : SUBSET (Nodes \cup Flags)])
        BY DEF TypeOK
      <4>. QED BY <4>1, <2>2, AppendType
    <3>2. chan' = [c \in Subs |-> IF sub[c] = "on" /\ Fits(c)
                                 THEN Append(chan[c], EventOf(my[p])) ELSE chan[c]]
      BY DEF FanOut
    <3>. QED BY <3>1, <3>2 DEF TypeOK
  <2>4. sub' \in [Subs -> {"off", "on", "cut"}]
    BY DEF TypeOK, FanOut, CutOrKeep
  <2>5. pc' \in [Procs -> SessionPc \cup WatchdogPc]
    BY DEF TypeOK, SessionPc, WatchdogPc, FanOut, Goto
  <2>. QED BY <2>3, <2>4, <2>5 DEF TypeOK, FanOut, lock, data, ghosts
<1>2. Labels'
  BY DEF TypeOK, Labels, SessionPc, WatchdogPc, FanOut, Goto, lock, data, feed, ghosts, SessionTx, SendReady, CutOrKeep, Fits, EventOf
<1>3. OneHolder'
  BY DEF TypeOK, OneHolder, Holders, Locked, Labels, SessionPc, WatchdogPc, TxIsOnConn, FanOut, Goto, lock, data, feed, ghosts, SessionTx, SendReady, CutOrKeep, Fits, EventOf
<1>4. TxIsOnConn'
  BY DEF TypeOK, TxIsOnConn, ConnIsOwned, SqlPc, OneHolder, Holders, Locked, FanOut, Goto, lock, data, feed, ghosts, SessionTx, SendReady, CutOrKeep, Fits, EventOf
<1>5. ConnIsOwned'
  BY DEF TypeOK, ConnIsOwned, SqlPc, OneHolder, Holders, Locked, TxIsOnConn, Labels, SessionPc, WatchdogPc, FreshIds, BeginPc, FanOut, Goto, lock, data, feed, ghosts, SessionTx, SendReady, CutOrKeep, Fits, EventOf
<1>6. HookIsOwned'
  BY DEF TypeOK, HookIsOwned, ConnIsOwned, SqlPc, OneHolder, Holders, Locked, TxIsOnConn, Labels, SessionPc, WatchdogPc, FanOut, Goto, lock, data, feed, ghosts, SessionTx, SendReady, CutOrKeep, Fits, EventOf
<1>7. FreshIds'
  BY DEF TypeOK, FreshIds, BeginPc, Labels, SessionPc, WatchdogPc, FanOut, Goto, lock, data, feed, ghosts, SessionTx, SendReady, CutOrKeep, Fits, EventOf
<1>8. LogsAreNamed'
  BY DEF TypeOK, LogsAreNamed, LogPc, FanOut, Goto
<1>. QED BY <1>1, <1>2, <1>3, <1>4, <1>5, <1>6, <1>7, <1>8

LEMMA UnlockStep == \A p \in Procs : LockInv /\ Unlock(p) => LockInv'
<1> SUFFICES ASSUME NEW p \in Procs, LockInv, Unlock(p) PROVE LockInv'
  OBVIOUS
<1> USE Distinct DEF LockInv, NoId, NoOne
<1>1. TypeOK'
  BY DEF TypeOK, SessionPc, WatchdogPc, Unlock, Goto, lock, data, feed, ghosts, SessionTx
<1>2. Labels'
  BY DEF TypeOK, Labels, SessionPc, WatchdogPc, Unlock, Goto, lock, data, feed, ghosts, SessionTx
<1>3. OneHolder'
  <2>1. pc[p] \in Locked /\ p \in Holders
    BY DEF Unlock, Locked, Holders
  <2>2. tx = NoId /\ \A q \in Procs : q # p => pc[q] \notin Locked
    BY <2>1 DEF OneHolder, Holders
  <2>3. pc'[p] \notin Locked /\ \A q \in Procs : q # p => pc'[q] = pc[q]
    BY DEF TypeOK, Locked, Unlock, Goto
  <2>4. ~mu' /\ tx' = tx
    BY DEF Unlock
  <2>. QED BY <2>2, <2>3, <2>4, NoHolder
<1>4. TxIsOnConn'
  BY DEF TypeOK, TxIsOnConn, ConnIsOwned, SqlPc, OneHolder, Holders, Locked, Unlock, Goto, lock, data, feed, ghosts, SessionTx
<1>5. ConnIsOwned'
  BY DEF TypeOK, ConnIsOwned, SqlPc, OneHolder, Holders, Locked, TxIsOnConn, Labels, SessionPc, WatchdogPc, FreshIds, BeginPc, Unlock, Goto, lock, data, feed, ghosts, SessionTx
<1>6. HookIsOwned'
  BY DEF TypeOK, HookIsOwned, ConnIsOwned, SqlPc, OneHolder, Holders, Locked, TxIsOnConn, Labels, SessionPc, WatchdogPc, Unlock, Goto, lock, data, feed, ghosts, SessionTx
<1>7. FreshIds'
  BY DEF TypeOK, FreshIds, BeginPc, Labels, SessionPc, WatchdogPc, Unlock, Goto, lock, data, feed, ghosts, SessionTx
<1>8. LogsAreNamed'
  BY DEF TypeOK, LogsAreNamed, LogPc, Labels, SessionPc, WatchdogPc, Unlock, Goto, lock, data, feed, ghosts, SessionTx
<1>. QED BY <1>1, <1>2, <1>3, <1>4, <1>5, <1>6, <1>7, <1>8

LEMMA SubscribeStep == \A c \in Subs : LockInv /\ Subscribe(c) => LockInv'
<1> SUFFICES ASSUME NEW c \in Subs, LockInv, Subscribe(c) PROVE LockInv'
  OBVIOUS
<1> USE Distinct DEF LockInv, NoId, NoOne
<1>1. TypeOK'
  <2>1. Fanned \in Nat
    BY DEF Fanned, TypeOK, LogsAreNamed
  <2>. QED BY <2>1 DEF TypeOK, Subscribe, lock, data, ghosts
<1>2. UNCHANGED <<mu, conn, tx, txOwner, collector, pc, my, next, seq>>
  BY DEF Subscribe, lock, data
<1>. QED BY <1>1, <1>2, LockFrame

LEMMA PushStep == \A c \in Subs : LockInv /\ Push(c) => LockInv'
<1> SUFFICES ASSUME NEW c \in Subs, LockInv, Push(c) PROVE LockInv'
  OBVIOUS
<1> USE Distinct DEF LockInv, NoId, NoOne
<1>1. TypeOK'
  <2>1. chan[c] \in Seq([seq : Nat, items : SUBSET (Nodes \cup Flags)]) /\ chan[c] # <<>>
    BY DEF TypeOK, Push
  <2>2. Head(chan[c]) \in [seq : Nat, items : SUBSET (Nodes \cup Flags)]
    BY <2>1, HeadType
  <2>3. Tail(chan[c]) \in Seq([seq : Nat, items : SUBSET (Nodes \cup Flags)])
    BY <2>1, HeadType
  <2>4. at' \in [Subs -> Nat] /\ seen' \in [Subs -> SUBSET (Nodes \cup Flags)]
    BY <2>2 DEF TypeOK, Push
  <2>5. chan' \in [Subs -> Seq([seq : Nat, items : SUBSET (Nodes \cup Flags)])]
    BY <2>3 DEF TypeOK, Push
  <2>. QED BY <2>4, <2>5 DEF TypeOK, Push, lock, data, ghosts
<1>2. UNCHANGED <<mu, conn, tx, txOwner, collector, pc, my, next, seq>>
  BY DEF Push, lock, data
<1>. QED BY <1>1, <1>2, LockFrame

LEMMA UnsubscribeStep == \A c \in Subs : LockInv /\ Unsubscribe(c) => LockInv'
<1> SUFFICES ASSUME NEW c \in Subs, LockInv, Unsubscribe(c) PROVE LockInv'
  OBVIOUS
<1> USE Distinct DEF LockInv, NoId, NoOne
<1>1. TypeOK'
  <2>1. <<>> \in Seq([seq : Nat, items : SUBSET (Nodes \cup Flags)])
    OBVIOUS
  <2>2. /\ sub' \in [Subs -> {"off", "on", "cut"}]
        /\ chan' \in [Subs -> Seq([seq : Nat, items : SUBSET (Nodes \cup Flags)])]
    BY <2>1 DEF TypeOK, Unsubscribe
  <2>3. at' \in [Subs -> Nat] /\ seen' \in [Subs -> SUBSET (Nodes \cup Flags)]
    BY DEF TypeOK, Unsubscribe
  <2>. QED BY <2>2, <2>3 DEF TypeOK, Unsubscribe, lock, data, ghosts
<1>2. UNCHANGED <<mu, conn, tx, txOwner, collector, pc, my, next, seq>>
  BY DEF Unsubscribe, lock, data
<1>. QED BY <1>1, <1>2, LockFrame

-----------------------------------------------------------------------------
(* The invariant holds in every reachable state.                            *)

LEMMA NextLockInv == LockInv /\ [Next]_vars => LockInv'
<1> SUFFICES ASSUME LockInv, [Next]_vars PROVE LockInv'
  OBVIOUS
<1>1. CASE UNCHANGED vars
  <2>1. TypeOK'
    BY <1>1 DEF vars, lock, data, feed, ghosts, LockInv, TypeOK
  <2>. QED BY <1>1, <2>1, LockFrame DEF vars, lock, data, feed
<1>2. ASSUME NEW s \in Sessions, Request(s) PROVE LockInv'
  BY <1>2, RequestBeginStep, RequestExecStep, RequestQueryStep, CommitStep, RollbackStep,
     SettleRefusedStep, DisconnectStep DEF Request
<1>3. ASSUME NEW s \in Sessions, Acquire(s) PROVE LockInv'
  BY <1>3, BeginLockStep, ExecLockStep, QueryLockStep DEF Acquire
<1>4. ASSUME NEW s \in Sessions, Proceed(s) PROVE LockInv'
  BY <1>4, SqlBeginStep, BeginSetStep, TxExecStep, AutoExecStep, RunQueryStep, SqlCommitStep
     DEF Proceed
<1>5. ASSUME NEW i \in Ids, Fire(i) \/ Watchdog(i) PROVE LockInv'
  BY <1>5, FireStep, WatchdogStep
<1>6. ASSUME NEW p \in Procs, Finish(p) PROVE LockInv'
  BY <1>6, SqlRollbackStep, FetchStep, FanOutStep, UnlockStep DEF Finish
<1>7. ASSUME NEW c \in Subs, Subscribe(c) \/ Push(c) \/ Unsubscribe(c) PROVE LockInv'
  BY <1>7, SubscribeStep, PushStep, UnsubscribeStep
<1>. QED BY <1>1, <1>2, <1>3, <1>4, <1>5, <1>6, <1>7 DEF Next

\* In every reachable state the invariant of the lock holds, for any number of
\* sessions, subscribers, rows and transactions.
THEOREM LockInvariance == Spec => []LockInv
BY InitLockInv, NextLockInv, PTL DEF Spec

\* Every variable of the Store keeps its type.
THEOREM StoreTypes == Spec => []TypeOK
<1>1. LockInv => TypeOK
  BY DEF LockInv
<1>. QED BY <1>1, LockInvariance, PTL

\* The write lock is locked exactly while one goroutine or one open transaction
\* has it: of the owner, the watchdog and the disconnect, one settles it.
THEOREM LockHasOneHolder == Spec => []OneHolder
<1>1. LockInv => OneHolder
  BY DEF LockInv
<1>. QED BY <1>1, LockInvariance, PTL

\* The update hook feeds the changeLog of whoever has the lock, and is off when
\* nobody has it.
THEOREM HookIsTheHolders == Spec => []HookFeedsTheHolder
<1>1. LockInv => HookFeedsTheHolder
  BY Distinct DEF LockInv, HookIsOwned, HookFeedsTheHolder, Holders, Locked
<1>. QED BY <1>1, LockInvariance, PTL

\* No statement that holds the lock waits for the connection.
THEOREM ConnectionNeverTaken == Spec => []ConnectionIsFree
<1>1. LockInv => ConnectionIsFree
  BY Distinct DEF LockInv, ConnIsOwned, ConnectionIsFree, OneHolder, Holders, Locked, SqlPc
<1>. QED BY <1>1, LockInvariance, PTL

\* The write lock is safe: one holder, a hook that feeds nobody else, and a
\* connection that is free for whoever has the lock.
THEOREM LockIsSafe == Spec => []LockSafety
<1>1. OneHolder /\ HookFeedsTheHolder /\ ConnectionIsFree => LockSafety
  BY DEF LockSafety
<1>. QED BY <1>1, LockHasOneHolder, HookIsTheHolders, ConnectionNeverTaken, PTL

-----------------------------------------------------------------------------
(* The ledger: identities, who settled them, and what they wrote.           *)

LEMMA InitLedgerInv == Init => LedgerInv
<1> SUFFICES ASSUME Init PROVE LedgerInv
  OBVIOUS
<1> USE Distinct DEF Init
<1>1. EndsAreKept
  BY DEF EndsAreKept
<1>2. ClientsKnow /\ StatementsAreFresh
  BY DEF ClientsKnow, StatementsAreFresh
<1>3. WritersAreOld /\ NothingBeforeCommit /\ StrayOnlyAfterWatchdog
  BY DEF WritersAreOld, NothingBeforeCommit, StrayOnlyAfterWatchdog
<1>. QED BY <1>1, <1>2, <1>3 DEF LedgerInv

\* A step that begins, settles and commits nothing.
LEMMA LedgerKept ==
    ASSUME LedgerInv,
           UNCHANGED <<tx, txOwner, ended, stray, db, next>>,
           conn' \in {conn, NoId},
           \A s \in Sessions : ctx'[s] \in {ctx[s], NoId},
           \A i \in Ids : pc'[i] = "off" <=> pc[i] = "off",
           \A s \in Sessions : pc'[s] \in BeginPc => pc[s] \in BeginPc /\ my'[s] = my[s],
           \A s \in Sessions : pc'[s] \in {"exec", "execing"} =>
                                 pc[s] \in {"exec", "execing"} /\ my'[s] = my[s],
           \A s \in Sessions : pc'[s] = "committing" => pc[s] = "committing" /\ my'[s] = my[s],
           LockInv
    PROVE  LedgerInv'
<1> USE Distinct DEF LedgerInv, LockInv
<1>1. EndsAreKept'
  BY DEF EndsAreKept, TypeOK
<1>2. ClientsKnow'
  BY DEF ClientsKnow
<1>3. StatementsAreFresh'
  <2> SUFFICES ASSUME NEW s \in Sessions, pc'[s] \in {"exec", "execing"}
               PROVE  /\ my'[s] < next' /\ pc'[my'[s]] = "off"
                      /\ \A t \in Sessions : pc'[t] \in BeginPc => my'[t] # my'[s]
    BY DEF StatementsAreFresh
  <2>1. pc[s] \in {"exec", "execing"} /\ my'[s] = my[s]
    OBVIOUS
  <2>2. my[s] \in Ids
    BY <2>1 DEF LogsAreNamed, LogPc
  <2>3. /\ my[s] < next /\ pc[my[s]] = "off"
        /\ \A t \in Sessions : pc[t] \in BeginPc => my[t] # my[s]
    BY <2>1 DEF StatementsAreFresh
  <2>. QED BY <2>1, <2>2, <2>3
<1>4. WritersAreOld' /\ NothingBeforeCommit' /\ StrayOnlyAfterWatchdog'
  BY DEF WritersAreOld, NothingBeforeCommit, StrayOnlyAfterWatchdog
<1>. QED BY <1>1, <1>2, <1>3, <1>4

LEMMA BeginLedger == \A s \in Sessions : LockInv /\ LedgerInv /\ RequestBegin(s) => LedgerInv'
<1> SUFFICES ASSUME NEW s \in Sessions, LockInv, LedgerInv, RequestBegin(s) PROVE LedgerInv'
  OBVIOUS
<1> USE Distinct DEF LedgerInv
<1>1. /\ \A q \in Procs : pc'[q] = IF q = s THEN "begin" ELSE pc[q]
      /\ \A q \in Procs : my'[q] = IF q = s THEN next ELSE my[q]
      /\ next \in Nat /\ next' = next + 1
      /\ UNCHANGED <<lock, db, ctx, ended, stray>>
  BY DEF LockInv, TypeOK, RequestBegin, Goto, Fresh, data, ghosts
<1>2. EndsAreKept'
  BY <1>1 DEF EndsAreKept, lock, LockInv, TypeOK
<1>3. ClientsKnow' /\ NothingBeforeCommit' /\ StrayOnlyAfterWatchdog'
  BY <1>1 DEF ClientsKnow, NothingBeforeCommit, StrayOnlyAfterWatchdog, lock
<1>4. StatementsAreFresh'
  <2> SUFFICES ASSUME NEW t \in Sessions, pc'[t] \in {"exec", "execing"}
               PROVE  /\ my'[t] < next' /\ pc'[my'[t]] = "off"
                      /\ \A u \in Sessions : pc'[u] \in BeginPc => my'[u] # my'[t]
    BY DEF StatementsAreFresh
  <2>1. t # s /\ my'[t] = my[t] /\ my[t] \in Ids /\ my[t] < next /\ pc[my[t]] = "off"
    BY <1>1 DEF StatementsAreFresh, LockInv, LogsAreNamed, LogPc
  <2>2. my[t] \in Nat
    BY <2>1
  <2>3. my[t] < next + 1 /\ my[t] # next
    BY ONLY <2>1, <2>2, <1>1
  <2>4. \A u \in Sessions : u # s /\ pc[u] \in BeginPc => my[u] # my[t]
    BY <1>1, <2>1 DEF StatementsAreFresh
  <2>. QED BY <1>1, <2>1, <2>3, <2>4
<1>5. WritersAreOld'
  <2> SUFFICES ASSUME NEW x \in Items, db[x] # NoId
               PROVE  db[x] < next' /\ \A t \in Sessions : pc'[t] \in BeginPc => my'[t] # db[x]
    BY <1>1 DEF WritersAreOld
  <2>1. db[x] < next /\ db[x] \in Nat
    BY DEF WritersAreOld, LockInv, TypeOK, NoId
  <2>2. db[x] < next + 1 /\ db[x] # next
    BY ONLY <2>1, <1>1
  <2>. QED BY <1>1, <2>2 DEF WritersAreOld
<1>. QED BY <1>2, <1>3, <1>4, <1>5

LEMMA SqlBeginLedger == \A s \in Sessions : LockInv /\ LedgerInv /\ SqlBegin(s) => LedgerInv'
<1> SUFFICES ASSUME NEW s \in Sessions, LockInv, LedgerInv, SqlBegin(s) PROVE LedgerInv'
  OBVIOUS
<1> USE Distinct
<1>1. /\ pc[s] = "opening" /\ UNCHANGED <<tx, txOwner, ended, stray, db, next, ctx>>
      /\ my[s] \in Ids
      /\ \A q \in Procs : q # s => pc'[q] = pc[q] /\ my'[q] = my[q]
      /\ \/ pc'[s] = "opened" /\ conn' = my[s] /\ my'[s] = my[s]
         \/ pc'[s] = "idle" /\ conn' = conn
  BY DEF LockInv, TypeOK, FreshIds, BeginPc, SqlBegin, Goto, ghosts
<1>2. CASE pc'[s] = "opened" /\ conn' = my[s] /\ my'[s] = my[s]
  <2> USE DEF LedgerInv
  <2>a. \A q \in Procs : pc'[q] = IF q = s THEN "opened" ELSE pc[q]
    BY <1>1, <1>2
  <2>b. /\ \A q \in Procs : my'[q] = my[q]
        /\ \A i \in Ids : pc'[i] = pc[i]
        /\ \A t \in Sessions : /\ pc'[t] \in BeginPc => pc[t] \in BeginPc
                               /\ pc'[t] \in {"exec", "execing", "committing"} => pc'[t] = pc[t]
    BY <1>1, <1>2, <2>a DEF BeginPc
  <2>1. EndsAreKept'
    <3>1. tx # NoId => tx \in Ids
      BY DEF LockInv, TypeOK
    <3>2. \A i \in Ids : pc'[i] = "off" => ended'[i] = NoOne
      BY <1>1, <2>b DEF EndsAreKept
    <3>3. tx' # NoId => pc'[tx'] # "off" /\ ended'[tx'] = NoOne
      BY <1>1, <2>b, <3>1 DEF EndsAreKept
    <3>4. ASSUME NEW t \in Sessions, pc'[t] = "committing" PROVE ended'[my'[t]] = t
      BY <1>1, <2>b, <3>4 DEF EndsAreKept
    <3>. QED BY <3>2, <3>3, <3>4 DEF EndsAreKept
  <2>2. ClientsKnow' /\ StrayOnlyAfterWatchdog'
    BY <1>1, <1>2 DEF ClientsKnow, StrayOnlyAfterWatchdog
  <2>3. StatementsAreFresh'
    <3>1. \A t \in Sessions : pc[t] \in {"exec", "execing"} => my[t] \in Ids
      BY DEF LockInv, LogsAreNamed, LogPc
    <3>2. ASSUME NEW t \in Sessions, pc'[t] \in {"exec", "execing"}
          PROVE  /\ my'[t] < next' /\ pc'[my'[t]] = "off"
                 /\ \A u \in Sessions : pc'[u] \in BeginPc => my'[u] # my'[t]
      <4>1. pc[t] \in {"exec", "execing"} /\ my'[t] = my[t] /\ my[t] \in Ids
        BY <2>b, <3>1, <3>2
      <4>2. /\ my[t] < next /\ pc[my[t]] = "off"
            /\ \A u \in Sessions : pc[u] \in BeginPc => my[u] # my[t]
        BY <4>1 DEF StatementsAreFresh
      <4>. QED BY <1>1, <2>b, <4>1, <4>2
    <3>. QED BY <3>2 DEF StatementsAreFresh
  <2>5. WritersAreOld'
    BY <1>1, <2>b DEF WritersAreOld
  <2>4. NothingBeforeCommit'
    BY <1>1, <1>2 DEF NothingBeforeCommit, WritersAreOld, BeginPc
  <2>. QED BY <2>1, <2>2, <2>3, <2>4, <2>5
<1>3. CASE pc'[s] = "idle" /\ conn' = conn
  <2>1. \A i \in Ids : pc'[i] = pc[i]
    BY <1>1
  <2>2. \A t \in Sessions : pc'[t] \in BeginPc \cup {"exec", "execing", "committing"} =>
                              pc'[t] = pc[t] /\ my'[t] = my[t]
    BY <1>1, <1>3 DEF BeginPc
  <2>. QED BY <1>1, <1>3, <2>1, <2>2, LedgerKept
<1>. QED BY <1>1, <1>2, <1>3

LEMMA BeginSetLedger == \A s \in Sessions : LockInv /\ LedgerInv /\ BeginSet(s) => LedgerInv'
<1> SUFFICES ASSUME NEW s \in Sessions, LockInv, LedgerInv, BeginSet(s) PROVE LedgerInv'
  OBVIOUS
<1> USE Distinct DEF LedgerInv
<1>1. /\ pc[s] = "opened" /\ my[s] \in Ids /\ pc[my[s]] = "off"
      /\ tx = NoId /\ tx' = my[s] /\ txOwner' = s /\ UNCHANGED <<conn, db, ended, stray, next>>
      /\ \A t \in Sessions : ctx'[t] = IF t = s THEN my[s] ELSE ctx[t]
  BY DEF LockInv, TypeOK, FreshIds, BeginPc, BeginSet, OneHolder, Holders, Locked
<1>2. /\ \A q \in Procs : pc'[q] = IF q = my[s] THEN "armed" ELSE IF q = s THEN "idle" ELSE pc[q]
      /\ \A q \in Procs : my'[q] = IF q = s THEN NoId ELSE my[q]
  BY <1>1 DEF LockInv, TypeOK, BeginSet, ArmTimer
<1>3. \A t \in Sessions : t # s /\ pc[t] \in BeginPc => my[t] # my[s]
  BY <1>1 DEF LockInv, FreshIds, BeginPc
<1>4. EndsAreKept'
  <2>1. ended'[my[s]] = NoOne /\ pc'[my[s]] # "off"
    BY <1>1, <1>2 DEF EndsAreKept
  <2>2. \A t \in Sessions : pc'[t] = "committing" => pc[t] = "committing" /\ my'[t] = my[t]
    BY <1>1, <1>2
  <2>3. \A i \in Ids : pc'[i] = "off" => pc[i] = "off"
    BY <1>1, <1>2
  <2>. QED BY <1>1, <2>1, <2>2, <2>3 DEF EndsAreKept
<1>5. ClientsKnow'
  BY <1>1 DEF ClientsKnow
<1>6. StatementsAreFresh'
  <2> SUFFICES ASSUME NEW t \in Sessions, pc'[t] \in {"exec", "execing"}
               PROVE  /\ my'[t] < next' /\ pc'[my'[t]] = "off"
                      /\ \A u \in Sessions : pc'[u] \in BeginPc => my'[u] # my'[t]
    BY DEF StatementsAreFresh
  <2>1. t # s /\ t # my[s] /\ pc[t] \in {"exec", "execing"} /\ my'[t] = my[t] /\ my[t] \in Ids
    BY <1>1, <1>2 DEF LockInv, LogsAreNamed, LogPc
  <2>2. my[t] < next /\ pc[my[t]] = "off" /\ my[t] # my[s]
    BY <1>1, <2>1 DEF StatementsAreFresh, BeginPc
  <2>3. \A u \in Sessions : pc'[u] \in BeginPc => pc[u] \in BeginPc /\ my'[u] = my[u]
    BY <1>1, <1>2 DEF BeginPc
  <2>4. pc'[my[t]] = "off"
    BY <1>1, <1>2, <2>1, <2>2
  <2>5. \A u \in Sessions : pc'[u] \in BeginPc => my'[u] # my'[t]
    BY <2>1, <2>3 DEF StatementsAreFresh
  <2>. QED BY <1>1, <2>1, <2>2, <2>4, <2>5
<1>7. WritersAreOld'
  <2>1. \A u \in Sessions : pc'[u] \in BeginPc => pc[u] \in BeginPc /\ my'[u] = my[u]
    BY <1>1, <1>2 DEF BeginPc
  <2>. QED BY <1>1, <2>1 DEF WritersAreOld
<1>8. NothingBeforeCommit' /\ StrayOnlyAfterWatchdog'
  BY <1>1 DEF NothingBeforeCommit, StrayOnlyAfterWatchdog
<1>. QED BY <1>4, <1>5, <1>6, <1>7, <1>8

LEMMA RequestExecLedger == \A s \in Sessions : LockInv /\ LedgerInv /\ RequestExec(s) => LedgerInv'
<1> SUFFICES ASSUME NEW s \in Sessions, LockInv, LedgerInv, RequestExec(s) PROVE LedgerInv'
  OBVIOUS
<1> USE Distinct
<1>1. /\ pc[s] = "idle" /\ UNCHANGED <<lock, db, ctx, ended, stray>>
      /\ \A q \in Procs : q # s => pc'[q] = pc[q] /\ my'[q] = my[q]
      /\ \/ pc'[s] = "txexec" /\ next' = next
         \/ pc'[s] = "exec" /\ my'[s] = next /\ next \in Ids /\ next' = next + 1
  BY DEF LockInv, TypeOK, Ids, RequestExec, Goto, Fresh, data, ghosts
<1>2. CASE pc'[s] = "txexec" /\ next' = next
  <2>1. \A i \in Ids : pc'[i] = pc[i]
    BY <1>1
  <2>2. \A t \in Sessions : pc'[t] \in BeginPc \cup {"exec", "execing", "committing"} =>
                              pc'[t] = pc[t] /\ my'[t] = my[t]
    BY <1>1, <1>2 DEF BeginPc
  <2>. QED BY <1>1, <1>2, <2>1, <2>2, LedgerKept DEF lock
<1>3. CASE pc'[s] = "exec" /\ my'[s] = next /\ next \in Ids /\ next' = next + 1
  <2> USE DEF LedgerInv
  <2>1. EndsAreKept'
    BY <1>1, <1>3, ZenonT(60) DEF EndsAreKept, lock, LockInv, TypeOK
  <2>2. ClientsKnow' /\ NothingBeforeCommit' /\ StrayOnlyAfterWatchdog'
    BY <1>1 DEF ClientsKnow, NothingBeforeCommit, StrayOnlyAfterWatchdog, lock
  <2>3. \A u \in Sessions : pc'[u] \in BeginPc => u # s /\ pc[u] \in BeginPc /\ my'[u] = my[u]
    BY <1>1, <1>3 DEF BeginPc
  <2>4. next \in Nat
    BY <1>3
  <2>5. ASSUME NEW t \in Sessions, pc'[t] \in {"exec", "execing"}
        PROVE  /\ my'[t] < next' /\ pc'[my'[t]] = "off"
               /\ \A u \in Sessions : pc'[u] \in BeginPc => my'[u] # my'[t]
    <3>1. CASE t = s
      <4>1. pc[next] = "off" /\ pc'[next] = "off" /\ next < next'
        BY <1>1, <1>3, <2>4 DEF LockInv, FreshIds
      <4>2. ASSUME NEW u \in Sessions, pc'[u] \in BeginPc PROVE my'[u] # next
        BY <2>3, <2>4, <4>2 DEF LockInv, FreshIds
      <4>. QED BY <1>3, <3>1, <4>1, <4>2
    <3>2. CASE t # s
      <4>1. pc[t] \in {"exec", "execing"} /\ my'[t] = my[t] /\ my[t] \in Ids /\ pc'[my[t]] = pc[my[t]]
        BY <1>1, <2>5, <3>2 DEF LockInv, LogsAreNamed, LogPc
      <4>2. my[t] < next /\ my[t] \in Nat
        BY <4>1 DEF StatementsAreFresh
      <4>3. my[t] < next'
        BY ONLY <4>2, <2>4, <1>3
      <4>. QED BY <2>3, <4>1, <4>3 DEF StatementsAreFresh
    <3>. QED BY <3>1, <3>2
  <2>6. ASSUME NEW x \in Items, db'[x] # NoId
        PROVE  db'[x] < next' /\ \A t \in Sessions : pc'[t] \in BeginPc => my'[t] # db'[x]
    <3>1. db'[x] = db[x] /\ db[x] < next /\ db[x] \in Nat
      BY <1>1, <2>6 DEF WritersAreOld, LockInv, TypeOK, NoId
    <3>2. db[x] < next'
      BY ONLY <3>1, <2>4, <1>3
    <3>. QED BY <2>3, <2>6, <3>1, <3>2 DEF WritersAreOld
  <2>. QED BY <2>1, <2>2, <2>5, <2>6 DEF StatementsAreFresh, WritersAreOld
<1>. QED BY <1>1, <1>2, <1>3

LEMMA AutoExecLedger == \A s \in Sessions : LockInv /\ LedgerInv /\ AutoExec(s) => LedgerInv'
<1> SUFFICES ASSUME NEW s \in Sessions, LockInv, LedgerInv, AutoExec(s) PROVE LedgerInv'
  OBVIOUS
<1> USE Distinct
<1>1. /\ pc[s] = "execing" /\ conn = NoId /\ tx = NoId /\ my[s] \in Ids
      /\ UNCHANGED <<lock, ctx, ended, my, next>>
      /\ \A q \in Procs : q # s => pc'[q] = pc[q]
      /\ pc'[s] \in {"fetching", "unlocking"}
  BY DEF LockInv, TypeOK, LogsAreNamed, LogPc, OneHolder, Holders, Locked, AutoExec, Goto, Broadcast, lock
<1>2. \/ UNCHANGED <<db, stray>>
      \/ \E x \in Items : /\ db' = [db EXCEPT ![x] = my[s]]
                          /\ stray' = stray \cup ({ctx[s]} \ {NoId})
  BY DEF AutoExec
<1>3. \A i \in Ids : pc'[i] = pc[i]
  BY <1>1
<1>4. \A t \in Sessions : pc'[t] \in BeginPc \cup {"exec", "execing", "committing"} =>
                            t # s /\ pc'[t] = pc[t]
  BY <1>1 DEF BeginPc
<1>5. CASE UNCHANGED <<db, stray>>
  BY <1>1, <1>3, <1>4, <1>5, LedgerKept DEF lock
<1>6. ASSUME NEW x \in Items, db' = [db EXCEPT ![x] = my[s]],
             stray' = stray \cup ({ctx[s]} \ {NoId})
      PROVE  LedgerInv'
  <2> USE DEF LedgerInv
  <2>1. \A y \in Items : db'[y] = IF y = x THEN my[s] ELSE db[y]
    BY <1>6 DEF LockInv, TypeOK
  <2>2. /\ my[s] < next /\ pc[my[s]] = "off" /\ ended[my[s]] = NoOne
        /\ \A t \in Sessions : pc[t] \in BeginPc => my[t] # my[s]
    BY <1>1 DEF StatementsAreFresh, EndsAreKept
  <2>3. EndsAreKept'
    BY <1>1, <1>3, <1>4 DEF EndsAreKept, lock
  <2>4. ClientsKnow' /\ StatementsAreFresh'
    BY <1>1, <1>3, <1>4 DEF ClientsKnow, StatementsAreFresh, LockInv, LogsAreNamed, LogPc, lock
  <2>5. WritersAreOld'
    BY <1>1, <1>4, <2>1, <2>2 DEF WritersAreOld
  <2>6. NothingBeforeCommit'
    BY <1>1, <2>1, <2>2 DEF NothingBeforeCommit, lock, NoOne, NoId
  <2>7. StrayOnlyAfterWatchdog'
    BY <1>1, <1>6 DEF StrayOnlyAfterWatchdog, ClientsKnow
  <2>. QED BY <2>3, <2>4, <2>5, <2>6, <2>7
<1>. QED BY <1>2, <1>5, <1>6

LEMMA SqlCommitLedger == \A s \in Sessions : LockInv /\ LedgerInv /\ SqlCommit(s) => LedgerInv'
<1> SUFFICES ASSUME NEW s \in Sessions, LockInv, LedgerInv, SqlCommit(s) PROVE LedgerInv'
  OBVIOUS
<1> USE Distinct
<1>1. /\ pc[s] = "committing" /\ conn' = NoId /\ my[s] \in Ids
      /\ UNCHANGED <<tx, txOwner, ctx, ended, stray, my, next>>
      /\ \A q \in Procs : q # s => pc'[q] = pc[q]
      /\ pc'[s] \in {"fetching", "unlocking"}
  BY DEF LockInv, TypeOK, ConnIsOwned, SqlPc, SqlCommit, EndSql, Goto, Broadcast, SkipBroadcast, ghosts
<1>2. \A y \in Items : db'[y] \in {db[y], my[s]}
  BY DEF SqlCommit, LockInv, TypeOK
<1>3. \A t \in Sessions : pc'[t] \in BeginPc \cup {"exec", "execing", "committing"} =>
                            t # s /\ pc'[t] = pc[t]
  BY <1>1 DEF BeginPc
<1> USE DEF LedgerInv
<1>4. ended[my[s]] = s /\ pc[my[s]] # "off" /\ my[s] < next
  <2>1. ended[my[s]] = s /\ pc[my[s]] # "off"
    BY <1>1 DEF EndsAreKept
  <2>2. ~(my[s] >= next) /\ my[s] \in Nat /\ next \in Nat
    BY <1>1, <2>1 DEF LockInv, FreshIds, TypeOK
  <2>3. my[s] < next
    BY ONLY <2>2
  <2>. QED BY <2>1, <2>3
<1>5. \A t \in Sessions : pc[t] \in BeginPc => my[t] # my[s]
  BY <1>4 DEF LockInv, FreshIds
<1>6. EndsAreKept'
  BY <1>1, <1>3 DEF EndsAreKept, LockInv, TypeOK
<1>7. ClientsKnow' /\ StatementsAreFresh' /\ StrayOnlyAfterWatchdog'
  BY <1>1, <1>3 DEF ClientsKnow, StatementsAreFresh, StrayOnlyAfterWatchdog, LockInv, LogsAreNamed, LogPc
<1>8. WritersAreOld'
  BY <1>1, <1>2, <1>3, <1>4, <1>5 DEF WritersAreOld
<1>9. NothingBeforeCommit'
  BY <1>1, <1>2, <1>4 DEF NothingBeforeCommit
<1>. QED BY <1>6, <1>7, <1>8, <1>9

\* A goroutine takes the open transaction of session o: its owner, who then
\* forgets it, or a watchdog.
LEMMA ClaimLedger ==
    ASSUME LockInv, LedgerInv, NEW p \in Procs, NEW o, NEW l \in {"committing", "rolling"},
           ClaimTx(p, o, l), l = "rolling" \/ p \in Sessions,
           UNCHANGED <<conn, db, stray, next>>,
           \/ p \in Sessions /\ o = p /\ pc[p] = "idle" /\ ctx' = [ctx EXCEPT ![p] = NoId]
           \/ p \in Ids /\ pc[p] = "fired" /\ ctx' = ctx
    PROVE  LedgerInv'
<1> USE Distinct DEF LedgerInv
<1>1. /\ txOwner = o /\ tx \in Ids /\ tx # NoId /\ tx' = NoId /\ txOwner' = NoOne
      /\ \A i \in Ids : ended'[i] = IF i = tx THEN p ELSE ended[i]
      /\ \A q \in Procs : my'[q] = IF q = p THEN tx ELSE my[q]
      /\ \A q \in Procs : pc'[q] = IF q = p THEN l
                                   ELSE IF q = tx /\ pc[q] = "armed" THEN "stopped" ELSE pc[q]
  BY DEF ClaimTx, ForgetTx, SessionTx, LockInv, TypeOK, NoId
<1>2. /\ ended[tx] = NoOne /\ pc[tx] # "off" /\ conn = tx
      /\ \A q \in Procs : pc[q] \notin Locked
  BY <1>1 DEF EndsAreKept, LockInv, TxIsOnConn, OneHolder, Holders
<1>3. \A t \in Sessions : pc'[t] \in BeginPc \cup {"exec", "execing"} =>
                            t # p /\ pc'[t] = pc[t] /\ my'[t] = my[t]
  BY <1>1 DEF BeginPc
<1>4. \A i \in Ids : pc'[i] = "off" <=> pc[i] = "off"
  BY <1>1, <1>2
<1>5. EndsAreKept'
  <2>1. ASSUME NEW i \in Ids, pc'[i] = "off" PROVE ended'[i] = NoOne
    BY <1>1, <1>2, <1>4, <2>1 DEF EndsAreKept
  <2>2. ASSUME NEW t \in Sessions, pc'[t] = "committing" PROVE ended'[my'[t]] = t
    <3>1. t = p
      BY <1>1, <1>2, <2>2 DEF Locked
    <3>. QED BY <1>1, <3>1
  <2>. QED BY <1>1, <2>1, <2>2 DEF EndsAreKept
<1>6. ClientsKnow'
  <2> SUFFICES ASSUME NEW t \in Sessions, ctx'[t] # NoId PROVE ended'[ctx'[t]] \in Ids
    BY DEF ClientsKnow
  <2>1. ctx'[t] = ctx[t] /\ ctx[t] \in Ids
    BY DEF LockInv, TypeOK
  <2>2. CASE tx = ctx[t] /\ txOwner = t
    <3>1. p \in Ids
      BY <1>1, <2>2 DEF LockInv, TypeOK
    <3>. QED BY <1>1, <2>1, <2>2, <3>1
  <2>3. CASE ended[ctx[t]] \in Ids
    BY <1>1, <1>2, <2>1, <2>3 DEF NoOne, NoId
  <2>. QED BY <2>1, <2>2, <2>3 DEF ClientsKnow
<1>7. StatementsAreFresh'
  <2> SUFFICES ASSUME NEW t \in Sessions, pc'[t] \in {"exec", "execing"}
               PROVE  /\ my'[t] < next' /\ pc'[my'[t]] = "off"
                      /\ \A u \in Sessions : pc'[u] \in BeginPc => my'[u] # my'[t]
    BY DEF StatementsAreFresh
  <2>1. pc[t] \in {"exec", "execing"} /\ my'[t] = my[t]
    BY <1>3
  <2>2. my[t] \in Ids
    BY <2>1 DEF LockInv, LogsAreNamed, LogPc
  <2>3. my[t] < next /\ pc[my[t]] = "off" /\ \A u \in Sessions : pc[u] \in BeginPc => my[u] # my[t]
    BY <2>1 DEF StatementsAreFresh
  <2>. QED BY <1>3, <1>4, <2>1, <2>2, <2>3
<1>8. WritersAreOld'
  BY <1>3 DEF WritersAreOld
<1>9. NothingBeforeCommit'
  <2> SUFFICES ASSUME NEW x \in Items, db[x] # NoId PROVE db[x] # conn /\ ended'[db[x]] \notin Ids
    BY DEF NothingBeforeCommit
  <2>1. db[x] \in Ids /\ db[x] # conn /\ ended[db[x]] \notin Ids
    BY DEF NothingBeforeCommit, LockInv, TypeOK
  <2>. QED BY <1>1, <1>2, <2>1
<1>10. StrayOnlyAfterWatchdog'
  BY <1>1, <1>2 DEF StrayOnlyAfterWatchdog, LockInv, TypeOK, NoOne, NoId
<1>. QED BY <1>5, <1>6, <1>7, <1>8, <1>9, <1>10

LEMMA SettleLedger ==
    \A s \in Sessions : LockInv /\ LedgerInv /\ (Commit(s) \/ Rollback(s) \/ SettleRefused(s) \/ Disconnect(s))
                          => LedgerInv'
<1> SUFFICES ASSUME NEW s \in Sessions, LockInv, LedgerInv,
                    Commit(s) \/ Rollback(s) \/ SettleRefused(s) \/ Disconnect(s)
             PROVE  LedgerInv'
  OBVIOUS
<1> USE Distinct
<1>1. CASE Commit(s)
  BY <1>1, ClaimLedger DEF Commit, data
<1>2. CASE Rollback(s)
  BY <1>2, ClaimLedger DEF Rollback, data
<1>3. CASE SettleRefused(s)
  <2>1. \A t \in Sessions : ctx'[t] \in {ctx[t], NoId}
    BY <1>3 DEF SettleRefused, LockInv, TypeOK
  <2>. QED BY <1>3, <2>1, LedgerKept DEF SettleRefused, lock, data
<1>4. CASE Disconnect(s)
  <2>1. CASE ClaimTx(s, s, "rolling")
    BY <1>4, <2>1, ClaimLedger DEF Disconnect, data
  <2>2. CASE Goto(s, "gone") /\ UNCHANGED <<my, ended, tx, txOwner>>
    <3>1. /\ \A t \in Sessions : ctx'[t] \in {ctx[t], NoId}
          /\ \A q \in Procs : pc'[q] = IF q = s THEN "gone" ELSE pc[q]
      BY <1>4, <2>2 DEF Disconnect, Goto, LockInv, TypeOK
    <3>2. \A i \in Ids : pc'[i] = pc[i]
      BY <3>1
    <3>3. \A t \in Sessions : pc'[t] \in BeginPc \cup {"exec", "execing", "committing"} => pc'[t] = pc[t]
      BY <3>1 DEF BeginPc
    <3>. QED BY <1>4, <2>2, <3>1, <3>2, <3>3, LedgerKept DEF Disconnect, data
  <2>. QED BY <1>4, <2>1, <2>2 DEF Disconnect
<1>. QED BY <1>1, <1>2, <1>3, <1>4

LEMMA WatchdogLedger ==
    \A i \in Ids : LockInv /\ LedgerInv /\ (Fire(i) \/ Watchdog(i)) => LedgerInv'
<1> SUFFICES ASSUME NEW i \in Ids, LockInv, LedgerInv, Fire(i) \/ Watchdog(i) PROVE LedgerInv'
  OBVIOUS
<1> USE Distinct
<1>1. CASE Watchdog(i) /\ ClaimTx(i, starter[i], "rolling")
  BY <1>1, ClaimLedger DEF Watchdog, data
<1>2. ASSUME Fire(i) \/ (Watchdog(i) /\ Goto(i, "done") /\ UNCHANGED <<my, ended, tx, txOwner>>)
      PROVE  LedgerInv'
  <2>1. /\ UNCHANGED <<tx, txOwner, ended, stray, db, next, conn, ctx, my>>
        /\ pc[i] \in {"armed", "fired"} /\ pc'[i] \in {"fired", "done"}
        /\ \A q \in Procs : q # i => pc'[q] = pc[q]
    BY <1>2 DEF Fire, Watchdog, Goto, LockInv, TypeOK, lock, data, ghosts
  <2>2. \A j \in Ids : pc'[j] = "off" <=> pc[j] = "off"
    BY <2>1
  <2>3. \A t \in Sessions : pc'[t] = pc[t]
    BY <2>1
  <2>. QED BY <2>1, <2>2, <2>3, LedgerKept
<1>. QED BY <1>1, <1>2 DEF Watchdog

\* The other steps begin, settle and commit nothing.
LEMMA OtherLedger ==
    ASSUME LockInv, LedgerInv,
           \/ UNCHANGED vars
           \/ \E s \in Sessions : RequestQuery(s) \/ Acquire(s) \/ TxExec(s) \/ RunQuery(s)
           \/ \E p \in Procs : Finish(p)
           \/ \E c \in Subs : Subscribe(c) \/ Push(c) \/ Unsubscribe(c)
    PROVE  LedgerInv'
<1> USE Distinct
<1>1. CASE UNCHANGED vars
  BY <1>1, LedgerKept DEF vars, lock, data, ghosts
<1>2. ASSUME NEW s \in Sessions, RequestQuery(s) \/ Acquire(s) \/ TxExec(s) \/ RunQuery(s)
      PROVE  LedgerInv'
  <2>1. /\ UNCHANGED <<tx, txOwner, ended, stray, db, next, conn, ctx>>
        /\ \A q \in Procs : q # s => pc'[q] = pc[q] /\ my'[q] = my[q]
        /\ \/ pc'[s] \in {"query", "querying", "unlocking", "idle"}
           \/ pc'[s] = "opening" /\ pc[s] = "begin" /\ my'[s] = my[s]
           \/ pc'[s] = "execing" /\ pc[s] = "exec" /\ my'[s] = my[s]
    BY <1>2 DEF RequestQuery, Acquire, BeginLock, ExecLock, QueryLock, TxExec, TxWrite, RunQuery, Goto,
                LockInv, TypeOK, lock, data, ghosts
  <2>2. \A i \in Ids : pc'[i] = pc[i]
    BY <2>1
  <2>3. \A t \in Sessions : /\ pc'[t] \in BeginPc => pc[t] \in BeginPc /\ my'[t] = my[t]
                            /\ pc'[t] \in {"exec", "execing"} => pc[t] \in {"exec", "execing"} /\ my'[t] = my[t]
                            /\ pc'[t] = "committing" => pc[t] = "committing" /\ my'[t] = my[t]
    BY <2>1 DEF BeginPc
  <2>. QED BY <2>1, <2>2, <2>3, LedgerKept
<1>3. ASSUME NEW p \in Procs, Finish(p) PROVE LedgerInv'
  <2>1. /\ UNCHANGED <<tx, txOwner, ended, stray, db, next, ctx>> /\ conn' \in {conn, NoId}
        /\ \A q \in Procs : q # p => pc'[q] = pc[q] /\ my'[q] = my[q]
        /\ pc[p] \in {"rolling", "fetching", "sending", "unlocking"}
        /\ pc'[p] \in {"unlocking", "sending", "done", "gone", "idle"}
    BY <1>3 DEF Finish, SqlRollback, EndSql, Fetch, FanOut, Unlock, Goto, LockInv, TypeOK, lock, data, ghosts
  <2>2. \A i \in Ids : pc'[i] = "off" <=> pc[i] = "off"
    BY <2>1
  <2>3. \A t \in Sessions : pc'[t] \in BeginPc \cup {"exec", "execing", "committing"} =>
                              pc'[t] = pc[t] /\ my'[t] = my[t]
    BY <2>1 DEF BeginPc
  <2>. QED BY <2>1, <2>2, <2>3, LedgerKept
<1>4. ASSUME NEW c \in Subs, Subscribe(c) \/ Push(c) \/ Unsubscribe(c) PROVE LedgerInv'
  <2>1. UNCHANGED <<tx, txOwner, ended, stray, db, next, conn, ctx, pc, my>>
    BY <1>4 DEF Subscribe, Push, Unsubscribe, lock, data, ghosts
  <2>. QED BY <2>1, LedgerKept
<1>. QED BY <1>1, <1>2, <1>3, <1>4

LEMMA NextLedgerInv == LockInv /\ LedgerInv /\ [Next]_vars => LedgerInv'
<1> SUFFICES ASSUME LockInv, LedgerInv, [Next]_vars PROVE LedgerInv'
  OBVIOUS
<1>1. CASE UNCHANGED vars
  BY <1>1, OtherLedger
<1>2. ASSUME NEW s \in Sessions, Request(s) PROVE LedgerInv'
  BY <1>2, BeginLedger, RequestExecLedger, SettleLedger, OtherLedger DEF Request
<1>3. ASSUME NEW s \in Sessions, Acquire(s) PROVE LedgerInv'
  BY <1>3, OtherLedger
<1>4. ASSUME NEW s \in Sessions, Proceed(s) PROVE LedgerInv'
  BY <1>4, SqlBeginLedger, BeginSetLedger, AutoExecLedger, SqlCommitLedger, OtherLedger DEF Proceed
<1>5. ASSUME NEW i \in Ids, Fire(i) \/ Watchdog(i) PROVE LedgerInv'
  BY <1>5, WatchdogLedger
<1>6. ASSUME NEW p \in Procs, Finish(p) PROVE LedgerInv'
  BY <1>6, OtherLedger
<1>7. ASSUME NEW c \in Subs, Subscribe(c) \/ Push(c) \/ Unsubscribe(c) PROVE LedgerInv'
  BY <1>7, OtherLedger
<1>. QED BY <1>1, <1>2, <1>3, <1>4, <1>5, <1>6, <1>7 DEF Next

\* Who has settled which transaction, and what each has written, are as they
\* should be in every reachable state.
THEOREM LedgerInvariance == Spec => []LedgerInv
BY InitLedgerInv, NextLedgerInv, LockInvariance, PTL DEF Spec

\* A write of a transaction commits apart from it only after a watchdog has
\* ended the transaction under its client.
THEOREM StrayOnlyAfterWatchdogs == Spec => []StrayOnlyAfterWatchdog
<1>1. LedgerInv => StrayOnlyAfterWatchdog
  BY DEF LedgerInv
<1>. QED BY <1>1, LedgerInvariance, PTL

-----------------------------------------------------------------------------
(* The feed: the history, its numbers, and what waits for each subscriber.  *)

\* What waits for a subscriber is behind what it has been given and not beyond
\* the last event fanned out; what has been fanned out is in the history.
LEMMA WaitingIsInHistory ==
    ASSUME LockInv, FeedInv
    PROVE  /\ Fanned \in Nat /\ Fanned <= Len(hist) /\ Len(hist) \in Nat
           /\ \A c \in Subs : \A k \in 1..Len(chan[c]) :
                /\ chan[c][k].seq = at[c] + k /\ chan[c][k].seq \in 1..Len(hist)
<1> USE DEF LockInv, FeedInv
<1>1. seq \in Nat /\ (\A p \in Procs : pc[p] = "sending" => seq > 0)
  BY DEF TypeOK, LogsAreNamed
<1>2. Fanned \in Nat /\ Fanned <= seq
  BY <1>1 DEF Fanned
<1>3. Len(hist) \in Nat /\ Len(hist) >= seq
  BY <1>1 DEF HistoryIsCounted
<1>4. Fanned <= Len(hist)
  BY ONLY <1>1, <1>2, <1>3
<1>5. ASSUME NEW c \in Subs, NEW k \in 1..Len(chan[c])
      PROVE  chan[c][k].seq = at[c] + k /\ chan[c][k].seq \in 1..Len(hist)
  <2>1. chan[c] \in Seq([seq : Nat, items : SUBSET (Nodes \cup Flags)]) /\ at[c] \in Nat
        /\ sub[c] \in {"off", "on", "cut"}
    BY DEF TypeOK
  <2>2. Len(chan[c]) \in Nat /\ k \in Nat /\ k >= 1 /\ k <= Len(chan[c])
    BY <2>1
  <2>3. sub[c] # "off"
    BY <2>2 DEF OffIsEmpty
  <2>4. chan[c][k].seq = at[c] + k
    BY <2>3 DEF FeedIsGapless
  <2>5. Len(chan[c]) <= Fanned - at[c]
    BY <2>1, <2>2, <2>3, <1>2 DEF FeedIsGapless, Owed
  <2>6. at[c] + k >= 1 /\ at[c] + k <= Len(hist)
    BY ONLY <2>1, <2>2, <2>5, <1>2, <1>3, <1>4
  <2>. QED BY <2>1, <2>2, <2>4, <2>6, <1>3
<1>. QED BY <1>2, <1>3, <1>4, <1>5

LEMMA InitFeedInv == Init => FeedInv
<1> SUFFICES ASSUME Init PROVE FeedInv
  OBVIOUS
<1>1. OffIsEmpty /\ FeedIsGapless /\ EventsAreComplete /\ LastIsBroadcast /\ lost = {}
  BY Distinct DEF Init, OffIsEmpty, FeedIsGapless, EventsAreComplete, LastIsBroadcast
<1>2. HistoryIsCounted
  BY Distinct DEF Init, HistoryIsCounted
<1>. QED BY <1>1, <1>2 DEF FeedInv

\* A step of the goroutines that neither records nor broadcasts.
LEMMA FeedKept ==
    ASSUME FeedInv,
           UNCHANGED <<seq, sub, chan, at, hist, lost>>,
           \A p \in Procs : pc'[p] = "fetching" <=> pc[p] = "fetching",
           \A p \in Procs : pc'[p] = "sending" <=> pc[p] = "sending",
           \A p \in Procs : pc[p] \in {"fetching", "sending"} =>
                              my'[p] = my[p] /\ touched'[my[p]] = touched[my[p]]
    PROVE  FeedInv'
<1> USE DEF FeedInv
<1>1. OffIsEmpty' /\ EventsAreComplete' /\ (lost' # {} => FetchFails)
  BY DEF OffIsEmpty, EventsAreComplete
<1>2. HistoryIsCounted'
  BY DEF HistoryIsCounted
<1>3. LastIsBroadcast'
  BY DEF LastIsBroadcast
<1>4. Fanned' = Fanned
  BY DEF Fanned
<1>5. FeedIsGapless'
  BY <1>4 DEF FeedIsGapless, Owed
<1>. QED BY <1>1, <1>2, <1>3, <1>5

\* A goroutine that has the lock ends a change of these items: it joins the
\* history exactly if it will be broadcast.
LEMMA RecordFeed ==
    ASSUME LockInv, FeedInv, NEW s \in Procs, pc[s] \in Locked \ {"fetching", "sending"},
           NEW items \in SUBSET Items, touched'[my[s]] = items,
           Record(items), Broadcast(s, items),
           UNCHANGED <<seq, sub, chan, at, lost, my>>
    PROVE  FeedInv'
<1> USE DEF FeedInv
<1>1. /\ \A q \in Procs : q # s => pc[q] \notin Locked
      /\ \A q \in Procs : pc'[q] = IF q = s THEN IF items \subseteq Quiet THEN "unlocking" ELSE "fetching"
                                   ELSE pc[q]
      /\ \A q \in Procs : pc[q] \notin {"fetching", "sending"}
  BY DEF LockInv, TypeOK, OneHolder, Holders, Locked, Broadcast, Goto
<1>2. CASE items \subseteq Quiet
  <2>1. hist' = hist
    BY <1>2 DEF Record
  <2>2. \A q \in Procs : pc'[q] \notin {"fetching", "sending"}
    BY <1>1, <1>2
  <2>. QED BY <1>1, <2>1, <2>2, FeedKept
<1>3. CASE ~(items \subseteq Quiet)
  <2>1. hist' = Append(hist, items \ Quiet) /\ hist \in Seq(SUBSET (Nodes \cup Flags))
    BY <1>3 DEF Record, LockInv, TypeOK
  <2>2. /\ Len(hist) \in Nat /\ Len(hist') = Len(hist) + 1 /\ hist'[Len(hist')] = items \ Quiet
        /\ \A k \in 1..Len(hist) : hist'[k] = hist[k]
    BY <2>1
  <2>3. OffIsEmpty' /\ (lost' # {} => FetchFails)
    BY DEF OffIsEmpty
  <2>4. HistoryIsCounted'
    <3>1. Len(hist) = seq
      BY <1>1 DEF HistoryIsCounted
    <3>. QED BY <1>1, <1>3, <2>2, <3>1 DEF HistoryIsCounted
  <2>5. LastIsBroadcast'
    BY <1>1, <1>3, <2>2 DEF LastIsBroadcast
  <2>6. Fanned' = Fanned
    BY <1>1, <1>3 DEF Fanned
  <2>7. FeedIsGapless'
    BY <2>6 DEF FeedIsGapless, Owed
  <2>8. EventsAreComplete'
    <3> SUFFICES ASSUME NEW c \in Subs, NEW k \in 1..Len(chan[c])
                 PROVE  \/ chan[c][k].items = hist'[chan[c][k].seq]
                        \/ FetchFails /\ chan[c][k].items = hist'[chan[c][k].seq] \cap Flags
      BY DEF EventsAreComplete
    <3>1. hist'[chan[c][k].seq] = hist[chan[c][k].seq]
      BY <2>2, WaitingIsInHistory
    <3>. QED BY <3>1 DEF EventsAreComplete
  <2>. QED BY <2>3, <2>4, <2>5, <2>7, <2>8
<1>. QED BY <1>2, <1>3

LEMMA AutoExecFeed == \A s \in Sessions : LockInv /\ FeedInv /\ AutoExec(s) => FeedInv'
<1> SUFFICES ASSUME NEW s \in Sessions, LockInv, FeedInv, AutoExec(s) PROVE FeedInv'
  OBVIOUS
<1> USE Distinct
<1>1. /\ pc[s] = "execing" /\ my[s] \in Ids /\ UNCHANGED <<seq, sub, chan, at, lost, my>>
      /\ \/ /\ \E x \in Items : Hook(x)
            /\ Record(touched'[my[s]]) /\ Broadcast(s, touched'[my[s]])
         \/ Goto(s, "unlocking") /\ UNCHANGED <<touched, hist>>
  BY DEF AutoExec, LockInv, LogsAreNamed, LogPc, feed
<1>2. CASE Goto(s, "unlocking") /\ UNCHANGED <<touched, hist>>
  <2>1. \A q \in Procs : pc'[q] = IF q = s THEN "unlocking" ELSE pc[q]
    BY <1>2 DEF Goto, LockInv, TypeOK
  <2>. QED BY <1>1, <1>2, <2>1, FeedKept
<1>3. ASSUME NEW x \in Items, Hook(x), Record(touched'[my[s]]), Broadcast(s, touched'[my[s]])
      PROVE  FeedInv'
  <2>1. touched'[my[s]] \in SUBSET Items
    BY <1>1, <1>3 DEF Hook, LockInv, TypeOK
  <2>2. pc[s] \in Locked \ {"fetching", "sending"}
    BY <1>1 DEF Locked
  <2>. QED BY <1>1, <1>3, <2>1, <2>2, RecordFeed
<1>. QED BY <1>1, <1>2, <1>3

LEMMA SqlCommitFeed == \A s \in Sessions : LockInv /\ FeedInv /\ SqlCommit(s) => FeedInv'
<1> SUFFICES ASSUME NEW s \in Sessions, LockInv, FeedInv, SqlCommit(s) PROVE FeedInv'
  OBVIOUS
<1> USE Distinct
<1>1. /\ pc[s] = "committing" /\ my[s] \in Ids
      /\ UNCHANGED <<seq, sub, chan, at, lost, my, touched>>
      /\ \/ Record(touched[my[s]]) /\ Broadcast(s, touched[my[s]])
         \/ Goto(s, "unlocking") /\ UNCHANGED hist
  BY DEF SqlCommit, SkipBroadcast, LockInv, ConnIsOwned, SqlPc, TypeOK, feed
<1>2. CASE Goto(s, "unlocking") /\ UNCHANGED hist
  <2>1. \A q \in Procs : pc'[q] = IF q = s THEN "unlocking" ELSE pc[q]
    BY <1>2 DEF Goto, LockInv, TypeOK
  <2>. QED BY <1>1, <1>2, <2>1, FeedKept
<1>3. CASE Record(touched[my[s]]) /\ Broadcast(s, touched[my[s]])
  <2>1. touched[my[s]] \in SUBSET Items
    BY <1>1 DEF LockInv, TypeOK
  <2>2. pc[s] \in Locked \ {"fetching", "sending"}
    BY <1>1 DEF Locked
  <2>. QED BY <1>1, <1>3, <2>1, <2>2, RecordFeed
<1>. QED BY <1>1, <1>2, <1>3

LEMMA FetchFeed == \A p \in Procs : LockInv /\ FeedInv /\ Fetch(p) => FeedInv'
<1> SUFFICES ASSUME NEW p \in Procs, LockInv, FeedInv, Fetch(p) PROVE FeedInv'
  OBVIOUS
<1> USE DEF FeedInv
<1>1. /\ pc[p] = "fetching" /\ seq' = seq + 1 /\ UNCHANGED <<sub, chan, at, hist, my, touched>>
      /\ \A q \in Procs : pc'[q] = IF q = p THEN "sending" ELSE pc[q]
      /\ \A q \in Procs : q # p => pc[q] \notin {"fetching", "sending"}
  BY DEF Fetch, Goto, LockInv, TypeOK, OneHolder, Holders, Locked, data
<1>2. seq \in Nat
  BY DEF LockInv, TypeOK
<1>3. OffIsEmpty' /\ EventsAreComplete'
  BY <1>1 DEF OffIsEmpty, EventsAreComplete
<1>4. lost' # {} => FetchFails
  <2>1. lost' # lost => FetchFails
    BY DEF Fetch
  <2>. QED BY <2>1
<1>5. HistoryIsCounted'
  BY <1>1, <1>2 DEF HistoryIsCounted
<1>6. LastIsBroadcast'
  BY <1>1 DEF LastIsBroadcast
<1>7. Fanned' = Fanned
  <2>1. Fanned = seq
    BY <1>1 DEF Fanned
  <2>2. Fanned' = seq' - 1
    BY <1>1 DEF Fanned
  <2>. QED BY <1>1, <1>2, <2>1, <2>2
<1>8. FeedIsGapless'
  BY <1>1, <1>7 DEF FeedIsGapless, Owed
<1>. QED BY <1>3, <1>4, <1>5, <1>6, <1>8

LEMMA FanOutFeed == \A p \in Procs : LockInv /\ FeedInv /\ FanOut(p) => FeedInv'
<1> SUFFICES ASSUME NEW p \in Procs, LockInv, FeedInv, FanOut(p) PROVE FeedInv'
  OBVIOUS
<1> USE DEF FeedInv
<1>1. /\ pc[p] = "sending" /\ UNCHANGED <<seq, at, hist, my, touched, lost>>
      /\ \A q \in Procs : pc'[q] = IF q = p THEN "unlocking" ELSE pc[q]
      /\ \A q \in Procs : q # p => pc[q] \notin {"fetching", "sending"}
      /\ my[p] \in Ids /\ seq \in Nat /\ seq > 0
  BY DEF FanOut, Goto, LockInv, TypeOK, OneHolder, Holders, Locked, LogsAreNamed, LogPc, data
<1>2. \A c \in Subs :
        /\ chan'[c] = IF sub[c] = "on" /\ Fits(c) THEN Append(chan[c], EventOf(my[p])) ELSE chan[c]
        /\ sub'[c] = IF sub[c] = "on" THEN CutOrKeep(c) ELSE sub[c]
        /\ chan[c] \in Seq([seq : Nat, items : SUBSET (Nodes \cup Flags)])
        /\ sub[c] \in {"off", "on", "cut"} /\ at[c] \in Nat
  BY DEF FanOut, LockInv, TypeOK
<1>3. Len(hist) = seq /\ Fanned = seq - 1 /\ Fanned' = seq
  <2>1. Len(hist) = seq
    BY <1>1 DEF HistoryIsCounted
  <2>2. Fanned = seq - 1
    BY <1>1 DEF Fanned
  <2>3. Fanned' = seq
    BY <1>1 DEF Fanned
  <2>. QED BY <2>1, <2>2, <2>3
<1>4. EventOf(my[p]).seq = seq
  BY DEF EventOf
<1>5. \/ EventOf(my[p]).items = hist[seq]
      \/ FetchFails /\ EventOf(my[p]).items = hist[seq] \cap Flags
  <2>1. hist[seq] = touched[my[p]] \ Quiet
    BY <1>1, <1>3 DEF LastIsBroadcast
  <2>2. CASE my[p] \in lost
    <3>1. EventOf(my[p]).items = touched[my[p]] \cap Flags
      BY <2>2 DEF EventOf
    <3>2. (touched[my[p]] \ Quiet) \cap Flags = touched[my[p]] \cap Flags
      BY TablesAreDistinct
    <3>. QED BY <2>1, <2>2, <3>1, <3>2
  <2>3. CASE my[p] \notin lost
    BY <2>1, <2>3 DEF EventOf
  <2>. QED BY <2>2, <2>3
<1>6. OffIsEmpty'
  BY <1>2 DEF OffIsEmpty, CutOrKeep
<1>7. HistoryIsCounted'
  BY <1>1 DEF HistoryIsCounted
<1>8. LastIsBroadcast'
  BY <1>1 DEF LastIsBroadcast
<1>9. ASSUME NEW c \in Subs, sub'[c] # "off"
      PROVE  /\ \A k \in 1..Len(chan'[c]) : chan'[c][k].seq = at'[c] + k
             /\ sub'[c] = "on" => Len(chan'[c]) = Owed(c)'
             /\ sub'[c] = "cut" => Len(chan'[c]) < Owed(c)'
  <2>1. at'[c] = at[c] /\ Owed(c)' = seq - at[c] /\ Owed(c) = seq - 1 - at[c] /\ Len(chan[c]) \in Nat
    BY <1>1, <1>2, <1>3 DEF Owed
  <2>2. /\ sub[c] # "off"
        /\ \A k \in 1..Len(chan[c]) : chan[c][k].seq = at[c] + k
        /\ sub[c] = "on" => Len(chan[c]) = Owed(c)
        /\ sub[c] = "cut" => Len(chan[c]) < Owed(c)
    BY <1>2, <1>9 DEF FeedIsGapless
  <2>3. CASE sub[c] = "on" /\ Fits(c)
    <3>1. sub'[c] = "on" /\ chan'[c] = Append(chan[c], EventOf(my[p]))
      BY <1>2, <2>3 DEF CutOrKeep
    <3>2. /\ Len(chan'[c]) = Len(chan[c]) + 1
          /\ \A k \in 1..Len(chan[c]) : chan'[c][k] = chan[c][k]
          /\ chan'[c][Len(chan[c]) + 1] = EventOf(my[p])
      BY <1>2, <3>1
    <3>3. seq = at[c] + (Len(chan[c]) + 1)
      BY <1>1, <1>2, <2>1, <2>2, <2>3
    <3>4. ASSUME NEW k \in 1..Len(chan'[c]) PROVE chan'[c][k].seq = at'[c] + k
      <4>1. k \in 1..Len(chan[c]) \/ k = Len(chan[c]) + 1
        BY <2>1, <3>2
      <4>. QED BY <4>1, <1>4, <2>1, <2>2, <3>2, <3>3
    <3>5. Len(chan'[c]) = Owed(c)'
      BY ONLY <1>1, <1>2, <2>1, <3>2, <3>3
    <3>. QED BY <3>1, <3>4, <3>5
  <2>4. CASE ~(sub[c] = "on" /\ Fits(c))
    <3>1. chan'[c] = chan[c] /\ sub'[c] = "cut"
      BY <1>2, <2>2, <2>4 DEF CutOrKeep
    <3>2. Len(chan[c]) < Owed(c)'
      BY <1>1, <1>2, <2>1, <2>2
    <3>. QED BY <2>1, <2>2, <3>1, <3>2
  <2>. QED BY <2>3, <2>4
<1>10. FeedIsGapless'
  BY <1>9 DEF FeedIsGapless
<1>11. EventsAreComplete'
  <2> SUFFICES ASSUME NEW c \in Subs, NEW k \in 1..Len(chan'[c])
               PROVE  \/ chan'[c][k].items = hist[chan'[c][k].seq]
                      \/ FetchFails /\ chan'[c][k].items = hist[chan'[c][k].seq] \cap Flags
    BY <1>1 DEF EventsAreComplete
  <2>1. CASE k \in 1..Len(chan[c]) /\ chan'[c][k] = chan[c][k]
    BY <2>1 DEF EventsAreComplete
  <2>2. CASE chan'[c][k] = EventOf(my[p])
    BY <1>4, <1>5, <2>2
  <2>3. (k \in 1..Len(chan[c]) /\ chan'[c][k] = chan[c][k]) \/ chan'[c][k] = EventOf(my[p])
    <3>1. CASE chan'[c] = chan[c]
      BY <3>1
    <3>2. CASE chan'[c] = Append(chan[c], EventOf(my[p]))
      BY <1>2, <3>2
    <3>. QED BY <1>2, <3>1, <3>2
  <2>. QED BY <2>1, <2>2, <2>3
<1>. QED BY <1>1, <1>6, <1>7, <1>8, <1>10, <1>11

LEMMA SubscriberFeed ==
    \A c \in Subs : LockInv /\ FeedInv /\ (Subscribe(c) \/ Push(c) \/ Unsubscribe(c)) => FeedInv'
<1> SUFFICES ASSUME NEW c \in Subs, LockInv, FeedInv, Subscribe(c) \/ Push(c) \/ Unsubscribe(c)
             PROVE  FeedInv'
  OBVIOUS
<1> USE DEF FeedInv
<1>1. UNCHANGED <<seq, hist, pc, my, touched, lost>>
  BY DEF Subscribe, Push, Unsubscribe, data
<1>2. HistoryIsCounted' /\ LastIsBroadcast' /\ (lost' # {} => FetchFails) /\ Fanned' = Fanned
  BY <1>1 DEF HistoryIsCounted, LastIsBroadcast, Fanned
<1>3. /\ \A d \in Subs : d # c => sub'[d] = sub[d] /\ chan'[d] = chan[d] /\ at'[d] = at[d]
      /\ chan[c] \in Seq([seq : Nat, items : SUBSET (Nodes \cup Flags)]) /\ at[c] \in Nat
      /\ sub[c] \in {"off", "on", "cut"} /\ Fanned \in Nat
  BY WaitingIsInHistory DEF Subscribe, Push, Unsubscribe, LockInv, TypeOK
<1>5. CASE Subscribe(c)
  <2>1. sub'[c] = "on" /\ at'[c] = Fanned /\ chan'[c] = <<>>
    BY <1>5 DEF Subscribe, OffIsEmpty, LockInv, TypeOK
  <2>2. OffIsEmpty' /\ EventsAreComplete'
    BY <1>1, <1>3, <2>1 DEF OffIsEmpty, EventsAreComplete
  <2>3. FeedIsGapless'
    BY <1>2, <1>3, <2>1 DEF FeedIsGapless, Owed
  <2>. QED BY <1>2, <2>2, <2>3
<1>6. CASE Unsubscribe(c)
  <2>1. sub'[c] = "off" /\ chan'[c] = <<>>
    BY <1>6 DEF Unsubscribe, LockInv, TypeOK
  <2>2. OffIsEmpty' /\ EventsAreComplete'
    BY <1>1, <1>3, <2>1 DEF OffIsEmpty, EventsAreComplete
  <2>3. FeedIsGapless'
    BY <1>2, <1>3, <2>1 DEF FeedIsGapless, Owed
  <2>. QED BY <1>2, <2>2, <2>3
<1>7. CASE Push(c)
  <2>1. chan[c] # <<>> /\ chan'[c] = Tail(chan[c]) /\ at'[c] = Head(chan[c]).seq /\ sub'[c] = sub[c]
    BY <1>7 DEF Push, LockInv, TypeOK
  <2>2. /\ Len(chan[c]) \in Nat /\ Len(chan[c]) >= 1 /\ Len(chan'[c]) = Len(chan[c]) - 1
        /\ Head(chan[c]) = chan[c][1]
        /\ \A k \in 1..Len(chan'[c]) : k + 1 \in 1..Len(chan[c]) /\ chan'[c][k] = chan[c][k + 1]
    BY <1>3, <2>1
  <2>3. sub[c] # "off"
    BY <2>1 DEF OffIsEmpty
  <2>4. /\ at'[c] = at[c] + 1
        /\ \A k \in 1..Len(chan[c]) : chan[c][k].seq = at[c] + k
    BY <2>1, <2>2, <2>3 DEF FeedIsGapless
  <2>5. OffIsEmpty'
    BY <1>3, <2>1, <2>3 DEF OffIsEmpty
  <2>6. EventsAreComplete'
    <3> SUFFICES ASSUME NEW d \in Subs, NEW k \in 1..Len(chan'[d])
                 PROVE  \/ chan'[d][k].items = hist[chan'[d][k].seq]
                        \/ FetchFails /\ chan'[d][k].items = hist[chan'[d][k].seq] \cap Flags
      BY <1>1 DEF EventsAreComplete
    <3>1. \E j \in 1..Len(chan[d]) : chan'[d][k] = chan[d][j]
      <4>1. CASE d = c
        BY <2>2, <4>1
      <4>2. CASE d # c
        BY <1>3, <4>2
      <4>. QED BY <4>1, <4>2
    <3>. QED BY <3>1 DEF EventsAreComplete
  <2>7. /\ \A k \in 1..Len(chan'[c]) : chan'[c][k].seq = at'[c] + k
        /\ sub'[c] = "on" => Len(chan'[c]) = Owed(c)'
        /\ sub'[c] = "cut" => Len(chan'[c]) < Owed(c)'
    <3>1. Owed(c) = Fanned - at[c] /\ Owed(c)' = Fanned - (at[c] + 1)
      BY <1>2, <2>4 DEF Owed
    <3>2. /\ sub[c] = "on" => Len(chan[c]) = Owed(c)
          /\ sub[c] = "cut" => Len(chan[c]) < Owed(c)
      BY <2>3 DEF FeedIsGapless
    <3>3. ASSUME NEW k \in 1..Len(chan'[c]) PROVE chan'[c][k].seq = at'[c] + k
      <4>1. k + 1 \in 1..Len(chan[c]) /\ chan'[c][k] = chan[c][k + 1] /\ k \in Nat
        BY <2>2
      <4>2. chan[c][k + 1].seq = at[c] + (k + 1)
        BY <2>4, <4>1
      <4>3. at[c] \in Nat /\ k \in Nat
        BY <1>3, <4>1
      <4>4. at'[c] = at[c] + 1
        BY <2>4
      <4>. QED BY ONLY <4>1, <4>2, <4>3, <4>4, SMTT(40)
    <3>4. sub'[c] = "on" => Len(chan'[c]) = Owed(c)'
      <4> SUFFICES ASSUME sub'[c] = "on" PROVE Len(chan'[c]) = Owed(c)'
        OBVIOUS
      <4>1. Len(chan[c]) = Owed(c)
        BY <2>1, <3>2
      <4>. QED BY ONLY <4>1, <2>2, <3>1, <1>3
    <3>5. sub'[c] = "cut" => Len(chan'[c]) < Owed(c)'
      <4> SUFFICES ASSUME sub'[c] = "cut" PROVE Len(chan'[c]) < Owed(c)'
        OBVIOUS
      <4>1. Len(chan[c]) < Owed(c)
        BY <2>1, <3>2
      <4>. QED BY ONLY <4>1, <2>2, <3>1, <1>3
    <3>. QED BY <3>3, <3>4, <3>5
  <2>8. FeedIsGapless'
    BY <1>2, <1>3, <2>7 DEF FeedIsGapless, Owed
  <2>. QED BY <1>2, <2>5, <2>6, <2>8
<1>. QED BY <1>5, <1>6, <1>7

\* The other steps neither record nor broadcast.
LEMMA OtherFeed ==
    ASSUME LockInv, FeedInv,
           \/ UNCHANGED vars
           \/ \E s \in Sessions : \/ Request(s) \/ Acquire(s) \/ SqlBegin(s) \/ BeginSet(s) \/ TxExec(s)
                                  \/ RunQuery(s)
           \/ \E i \in Ids : Fire(i) \/ Watchdog(i)
           \/ \E p \in Procs : SqlRollback(p) \/ Unlock(p)
    PROVE  FeedInv'
<1> USE Distinct
<1>1. CASE UNCHANGED vars
  BY <1>1, FeedKept DEF vars, feed, data
<1>2. ASSUME NEW s \in Sessions, Request(s) \/ Acquire(s)
      PROVE  FeedInv'
  <2>1. /\ UNCHANGED <<seq, sub, chan, at, hist, lost, touched>>
        /\ \A q \in Procs : pc'[q] = pc[q] \/ (pc[q] \notin {"fetching", "sending"} /\ pc'[q] \notin {"fetching", "sending"})
        /\ \A q \in Procs : pc[q] \in {"fetching", "sending"} => my'[q] = my[q]
    BY <1>2 DEF Request, RequestBegin, RequestExec, RequestQuery, Commit, Rollback, SettleRefused, Disconnect,
                ClaimTx, Acquire, BeginLock, ExecLock, QueryLock, Goto, Fresh, LockInv, TypeOK, feed, data
  <2>. QED BY <2>1, FeedKept
<1>3. ASSUME NEW s \in Sessions, SqlBegin(s) \/ BeginSet(s) \/ RunQuery(s) PROVE FeedInv'
  <2>1. /\ UNCHANGED <<seq, sub, chan, at, hist, lost, touched>>
        /\ \A q \in Procs : pc'[q] = pc[q] \/ (pc[q] \notin {"fetching", "sending"} /\ pc'[q] \notin {"fetching", "sending"})
        /\ \A q \in Procs : pc[q] \in {"fetching", "sending"} => my'[q] = my[q]
    BY <1>3 DEF SqlBegin, BeginSet, ArmTimer, RunQuery, Goto, LockInv, TypeOK, FreshIds, BeginPc, feed, data
  <2>. QED BY <2>1, FeedKept
<1>4. ASSUME NEW s \in Sessions, TxExec(s) PROVE FeedInv'
  <2>1. /\ UNCHANGED <<seq, sub, chan, at, hist, lost, collector>> /\ pc[s] = "txexec"
        /\ \A q \in Procs : pc'[q] = IF q = s THEN "idle" ELSE pc[q]
        /\ \A q \in Procs : my'[q] = IF q = s THEN NoId ELSE my[q]
        /\ \A i \in Ids : i # collector => touched'[i] = touched[i]
    BY <1>4 DEF TxExec, Hook, Goto, LockInv, TypeOK, feed
  <2>2. ASSUME NEW q \in Procs, pc[q] \in {"fetching", "sending"}
        PROVE  touched'[my[q]] = touched[my[q]]
    <3>1. my[q] \in Ids /\ tx = NoId /\ \A r \in Procs : pc[r] \in Locked => r = q
      BY <2>2 DEF LockInv, LogsAreNamed, LogPc, OneHolder, Holders, Locked
    <3>2. collector = NoId
      BY <2>2, <3>1 DEF LockInv, HookIsOwned, Locked
    <3>. QED BY <2>1, <3>1, <3>2
  <2>. QED BY <2>1, <2>2, FeedKept
<1>5. ASSUME NEW i \in Ids, Fire(i) \/ Watchdog(i) PROVE FeedInv'
  <2>1. /\ UNCHANGED <<seq, sub, chan, at, hist, lost, touched>>
        /\ \A q \in Procs : pc'[q] = pc[q] \/ (pc[q] \notin {"fetching", "sending"} /\ pc'[q] \notin {"fetching", "sending"})
        /\ \A q \in Procs : pc[q] \in {"fetching", "sending"} => my'[q] = my[q]
    BY <1>5 DEF Fire, Watchdog, ClaimTx, Goto, LockInv, TypeOK, feed, data
  <2>. QED BY <2>1, FeedKept
<1>6. ASSUME NEW p \in Procs, SqlRollback(p) \/ Unlock(p) PROVE FeedInv'
  <2>1. /\ UNCHANGED <<seq, sub, chan, at, hist, lost, touched>>
        /\ \A q \in Procs : pc'[q] = pc[q] \/ (pc[q] \notin {"fetching", "sending"} /\ pc'[q] \notin {"fetching", "sending"})
        /\ \A q \in Procs : pc[q] \in {"fetching", "sending"} => my'[q] = my[q]
    BY <1>6 DEF SqlRollback, Unlock, Goto, LockInv, TypeOK, feed, data
  <2>. QED BY <2>1, FeedKept
<1>. QED BY <1>1, <1>2, <1>3, <1>4, <1>5, <1>6

LEMMA NextFeedInv == LockInv /\ FeedInv /\ [Next]_vars => FeedInv'
<1> SUFFICES ASSUME LockInv, FeedInv, [Next]_vars PROVE FeedInv'
  OBVIOUS
<1>1. CASE UNCHANGED vars
  BY <1>1, OtherFeed
<1>2. ASSUME NEW s \in Sessions, Request(s) \/ Acquire(s) PROVE FeedInv'
  BY <1>2, OtherFeed
<1>3. ASSUME NEW s \in Sessions, Proceed(s) PROVE FeedInv'
  BY <1>3, AutoExecFeed, SqlCommitFeed, OtherFeed DEF Proceed
<1>4. ASSUME NEW i \in Ids, Fire(i) \/ Watchdog(i) PROVE FeedInv'
  BY <1>4, OtherFeed
<1>5. ASSUME NEW p \in Procs, Finish(p) PROVE FeedInv'
  BY <1>5, FetchFeed, FanOutFeed, OtherFeed DEF Finish
<1>6. ASSUME NEW c \in Subs, Subscribe(c) \/ Push(c) \/ Unsubscribe(c) PROVE FeedInv'
  BY <1>6, SubscriberFeed
<1>. QED BY <1>1, <1>2, <1>3, <1>4, <1>5, <1>6 DEF Next

\* What waits for a subscriber is the next stretch of the committed history,
\* whole and in order, whatever the other goroutines are doing.
THEOREM FeedInvariance == Spec => []FeedInv
BY InitFeedInv, NextFeedInv, LockInvariance, PTL DEF Spec

\* A subscriber hears of a change only once it is committed, of all of them up
\* to where it is cut off, and of every row of each.
THEOREM FeedTellsTheTruth == Spec => []FeedIsTrue
<1>1. LockInv /\ LedgerInv /\ FeedInv => FeedIsTrue
  BY DEF FeedIsTrue
<1>. QED BY <1>1, LockInvariance, LedgerInvariance, FeedInvariance, PTL

-----------------------------------------------------------------------------
(* The Store implements ChangeFeed when rows can be read back.              *)

LEMMA FeedInitMaps == Init => Feed!FeedInit
BY DEF Init, Feed!FeedInit, Feed!Out, Feed!Nothing

\* A step that leaves the history and the subscribers' places alone stutters.
LEMMA FeedStutters ==
    ASSUME hist' = hist, at' = at, seen' = seen,
           \A c \in Subs : sub'[c] = "off" <=> sub[c] = "off"
    PROVE  UNCHANGED Feed!feedVars
BY DEF Feed!feedVars

\* A change that joins the history is published.
LEMMA RecordPublishes ==
    ASSUME NEW items \in SUBSET Items, Record(items), at' = at, seen' = seen, sub' = sub
    PROVE  Feed!FeedNext \/ UNCHANGED Feed!feedVars
<1>1. CASE items \subseteq Quiet
  <2>1. hist' = hist
    BY <1>1 DEF Record
  <2>. QED BY <2>1, FeedStutters
<1>2. CASE ~(items \subseteq Quiet)
  <2>1. hist' = Append(hist, items \ Quiet)
    BY <1>2 DEF Record
  <2>2. items \ Quiet \in (SUBSET (Nodes \cup Flags)) \ {{}}
    <3>1. items \ Quiet # {}
      BY <1>2
    <3>2. items \ Quiet \subseteq Nodes \cup Flags
      BY DEF Items
    <3>. QED BY <3>1, <3>2
  <2>3. Feed!Publish(items \ Quiet)
    BY <2>1 DEF Feed!Publish
  <2>. QED BY <2>2, <2>3 DEF Feed!FeedNext
<1>. QED BY <1>1, <1>2

LEMMA SubscriberMaps ==
    ASSUME LockInv, FeedInv, ~FetchFails, NEW c \in Subs, Subscribe(c) \/ Push(c) \/ Unsubscribe(c)
    PROVE  Feed!FeedNext \/ UNCHANGED Feed!feedVars
<1> DEFINE place == [d \in Subs |-> IF sub[d] = "off" THEN -1 ELSE at[d]]
<1>1. /\ Fanned \in Nat /\ Fanned <= Len(hist) /\ Len(hist) \in Nat
      /\ at \in [Subs -> Nat] /\ sub \in [Subs -> {"off", "on", "cut"}] /\ hist' = hist
  BY WaitingIsInHistory DEF LockInv, TypeOK, Subscribe, Push, Unsubscribe
<1>2. CASE Subscribe(c)
  <2>1. Fanned \in {Len(hist), Len(hist) - 1} \cap Nat
    <3>1. seq \in Nat /\ (Len(hist) = seq \/ Len(hist) = seq + 1)
      BY DEF LockInv, TypeOK, FeedInv, HistoryIsCounted
    <3>2. CASE \E p \in Procs : pc[p] = "sending"
      <4>1. \A p \in Procs : pc[p] # "fetching"
        BY <3>2 DEF LockInv, OneHolder, Holders, Locked
      <4>2. Len(hist) = seq /\ Fanned = seq - 1
        BY <3>2, <4>1 DEF FeedInv, HistoryIsCounted, Fanned
      <4>. QED BY <1>1, <4>2
    <3>3. CASE ~\E p \in Procs : pc[p] = "sending"
      <4>1. Fanned = seq
        BY <3>3 DEF Fanned
      <4>. QED BY <1>1, <3>1, <4>1
    <3>. QED BY <3>2, <3>3
  <2>2. /\ place[c] = -1 /\ place' = [place EXCEPT ![c] = Fanned] /\ seen' = seen
    BY <1>1, <1>2 DEF Subscribe
  <2>3. Feed!Join(c)
    BY <1>1, <2>1, <2>2 DEF Feed!Join, Feed!Out
  <2>. QED BY <2>3 DEF Feed!FeedNext
<1>3. CASE Unsubscribe(c)
  <2>1. place[c] # -1 /\ place' = [place EXCEPT ![c] = -1] /\ seen' = [seen EXCEPT ![c] = {}]
    <3>1. sub[c] # "off" /\ sub' = [sub EXCEPT ![c] = "off"] /\ at' = [at EXCEPT ![c] = 0]
          /\ seen' = [seen EXCEPT ![c] = {}]
      BY <1>3 DEF Unsubscribe
    <3>2. at[c] \in Nat
      BY <1>1
    <3>3. place[c] # -1
      BY <3>1, <3>2
    <3>4. \A d \in Subs : place'[d] = IF d = c THEN -1 ELSE place[d]
      BY <1>1, <3>1
    <3>. QED BY <3>1, <3>3, <3>4, ZenonT(60)
  <2>2. Feed!Drop(c)
    BY <1>1, <2>1 DEF Feed!Drop, Feed!Out, Feed!Nothing
  <2>. QED BY <2>2 DEF Feed!FeedNext
<1>4. CASE Push(c)
  <2>1. /\ chan[c] # <<>> /\ at' = [at EXCEPT ![c] = Head(chan[c]).seq] /\ sub' = sub
        /\ seen' = [seen EXCEPT ![c] = Head(chan[c]).items]
        /\ chan[c] \in Seq([seq : Nat, items : SUBSET (Nodes \cup Flags)])
    BY <1>4 DEF Push, LockInv, TypeOK
  <2>2. 1 \in 1..Len(chan[c]) /\ Head(chan[c]) = chan[c][1]
    BY <2>1
  <2>3. sub[c] # "off"
    BY <2>1 DEF FeedInv, OffIsEmpty
  <2>4. Head(chan[c]).seq = at[c] + 1 /\ at[c] + 1 \in 1..Len(hist)
    BY <2>2, WaitingIsInHistory
  <2>5. Head(chan[c]).items = hist[at[c] + 1]
    BY <2>2, <2>4 DEF FeedInv, EventsAreComplete
  <2>6. /\ place[c] = at[c] /\ place[c] # -1 /\ place[c] < Len(hist)
        /\ place' = [place EXCEPT ![c] = @ + 1]
    <3>1. place[c] = at[c] /\ at[c] \in Nat /\ at[c] < Len(hist)
      BY <1>1, <2>3, <2>4
    <3>2. \A d \in Subs : place'[d] = IF d = c THEN place[c] + 1 ELSE place[d]
      BY <1>1, <2>1, <2>3, <2>4, <3>1
    <3>3. place \in [Subs -> Int] /\ place' = [d \in Subs |-> place'[d]]
      BY <1>1
    <3> HIDE DEF place
    <3>4. place' = [place EXCEPT ![c] = @ + 1]
      BY <3>2, <3>3
    <3>. QED BY <3>1, <3>4
  <2>7. Feed!Read(c)
    BY <1>1, <2>1, <2>5, <2>6 DEF Feed!Read, Feed!Out
  <2>. QED BY <2>7 DEF Feed!FeedNext
<1>. QED BY <1>2, <1>3, <1>4

LEMMA NextMaps ==
    ASSUME LockInv, FeedInv, ~FetchFails, [Next]_vars
    PROVE  Feed!FeedNext \/ UNCHANGED Feed!feedVars
<1> USE Distinct
<1>1. CASE UNCHANGED vars
  BY <1>1, FeedStutters DEF vars, feed
<1>2. ASSUME NEW s \in Sessions, Request(s) \/ Acquire(s) PROVE UNCHANGED Feed!feedVars
  <2>1. UNCHANGED <<hist, at, seen, sub>>
    BY <1>2 DEF Request, RequestBegin, RequestExec, RequestQuery, Commit, Rollback, SettleRefused,
                Disconnect, Acquire, BeginLock, ExecLock, QueryLock, feed
  <2>. QED BY <2>1, FeedStutters
<1>3. ASSUME NEW s \in Sessions, SqlBegin(s) \/ BeginSet(s) \/ TxExec(s) \/ RunQuery(s)
      PROVE  UNCHANGED Feed!feedVars
  <2>1. UNCHANGED <<hist, at, seen, sub>>
    BY <1>3 DEF SqlBegin, BeginSet, TxExec, RunQuery, feed
  <2>. QED BY <2>1, FeedStutters
<1>4. ASSUME NEW s \in Sessions, AutoExec(s) PROVE Feed!FeedNext \/ UNCHANGED Feed!feedVars
  <2>1. UNCHANGED <<at, seen, sub>> /\ my[s] \in Ids
    BY <1>4 DEF AutoExec, LockInv, LogsAreNamed, LogPc, feed
  <2>2. CASE hist' = hist
    BY <2>1, <2>2, FeedStutters
  <2>3. ASSUME NEW x \in Items, Hook(x), Record(touched'[my[s]])
        PROVE  Feed!FeedNext \/ UNCHANGED Feed!feedVars
    <3>1. touched'[my[s]] \in SUBSET Items
      BY <2>1, <2>3 DEF Hook, LockInv, TypeOK
    <3>. QED BY <2>1, <2>3, <3>1, RecordPublishes
  <2>. QED BY <1>4, <2>2, <2>3 DEF AutoExec
<1>5. ASSUME NEW s \in Sessions, SqlCommit(s) PROVE Feed!FeedNext \/ UNCHANGED Feed!feedVars
  <2>1. UNCHANGED <<at, seen, sub>> /\ touched[my[s]] \in SUBSET Items
    BY <1>5 DEF SqlCommit, LockInv, ConnIsOwned, SqlPc, TypeOK, feed
  <2>. QED BY <1>5, <2>1, FeedStutters, RecordPublishes DEF SqlCommit
<1>6. ASSUME NEW i \in Ids, Fire(i) \/ Watchdog(i) PROVE UNCHANGED Feed!feedVars
  <2>1. UNCHANGED <<hist, at, seen, sub>>
    BY <1>6 DEF Fire, Watchdog, feed
  <2>. QED BY <2>1, FeedStutters
<1>7. ASSUME NEW p \in Procs, Finish(p) PROVE UNCHANGED Feed!feedVars
  <2>1. UNCHANGED <<hist, at, seen>> /\ \A c \in Subs : sub'[c] = "off" <=> sub[c] = "off"
    BY <1>7 DEF Finish, SqlRollback, Fetch, FanOut, CutOrKeep, Unlock, LockInv, TypeOK, feed
  <2>. QED BY <2>1, FeedStutters
<1>. QED BY <1>1, <1>2, <1>3, <1>4, <1>5, <1>6, <1>7, SubscriberMaps DEF Next, Proceed

\* The Store implements ChangeFeed: when the rows of a change can be read back,
\* every step of the store is one of the feed or none.
THEOREM StoreImplementsFeed == ASSUME ~FetchFails PROVE Spec => ImplementsChangeFeed
<1>1. LockInv /\ FeedInv /\ [Next]_vars => [Feed!FeedNext]_Feed!feedVars
  BY NextMaps
<1>. QED BY <1>1, FeedInitMaps, LockInvariance, FeedInvariance, PTL
       DEF Spec, ImplementsChangeFeed, Feed!FeedSpec
=============================================================================
