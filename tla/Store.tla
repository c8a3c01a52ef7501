------------------------------- MODULE Store -------------------------------
(***************************************************************************)
(* The daemon's Store (tui/daemon/store.go): one SQLite connection, the    *)
(* write lock mu that a client transaction holds from Begin to its end,    *)
(* the watchdog that ends a transaction its client abandons, the change    *)
(* log the SQLite update hook fills, and the fan-out of every committed    *)
(* change to the subscribers.                                              *)
(*                                                                         *)
(* Sessions are the goroutines of server.go, one request at a time each.   *)
(* A transaction and the autocommit statement of a session take a fresh    *)
(* identity from Ids; the identity i also names the changeLog of that      *)
(* transaction or statement, and the watchdog goroutine of transaction i.  *)
(***************************************************************************)
EXTENDS Integers, Sequences, FiniteSets

CONSTANTS
    Sessions,    \* the connected clients
    Subs,        \* the subscribers of the change feed
    Nodes,       \* rows of the nodes table
    Flags,       \* the tables an event only flags: aux, suggest
    Quiet,       \* the tables no event mentions
    MaxId,       \* bound: transactions and autocommit statements begun
    Cap,         \* capacity of a subscriber's channel (1024 in the code)
    FetchFails   \* whether nodesByRowID may return an error

ASSUME IdentitiesAreDistinct == Sessions \cap Int = {} /\ MaxId \in Nat
ASSUME CapAssumption == Cap \in Nat \ {0} /\ FetchFails \in BOOLEAN
ASSUME TablesAreDistinct == Flags \cap Quiet = {}

Ids      == 1..MaxId
Procs    == Sessions \cup Ids      \* the goroutines: sessions and watchdogs
Items    == Nodes \cup Flags \cup Quiet
NoId     == 0
NoOne    == 0                      \* a nil *session

VARIABLES
    mu,         \* Store.mu is locked
    conn,       \* the SQLite transaction open on the one connection, or NoId
    tx,         \* Store.tx, with txLog and txTimer: set and cleared together
    txOwner,    \* Store.txOwner
    collector,  \* the changeLog the update hook feeds, or NoId
    touched,    \* changeLog i: the items it has collected
    pend,       \* the items written in the open SQLite transaction
    db,         \* the committed database: which identity wrote each item last
    seq,        \* Store.seq
    pc,         \* where each goroutine is
    my,         \* the transaction or changeLog a goroutine works on
    starter,    \* the session the watchdog closure of transaction i captured
    lost,       \* the changeLogs whose rows nodesByRowID failed to read
    hungup,     \* the sessions whose connection is gone
    next,       \* the next free identity
    sub,        \* Store.subs.m: "off", "on", or "cut" (closed, still draining)
    chan,       \* the channel of each subscriber
    ctx,        \* ghost: the transaction each client believes it is in
    stray,      \* ghost: transactions a write of which committed on its own
    ended,      \* ghost: which goroutine settled transaction i
    hist,       \* ghost: the item sets of the changes committed so far
    at,         \* ghost: how many of them each subscriber has been given
    seen        \* ghost: what the last event a subscriber got told it

lock     == <<mu, conn, tx, txOwner>>
data     == <<collector, touched, pend, db>>
feed     == <<seq, sub, chan, at, seen>>
ghosts   == <<ctx, stray, ended>>
vars     == <<lock, data, feed, ghosts, hist, pc, my, starter, lost, hungup, next>>

\* Where a session and where a watchdog can be.
SessionPc  == {"idle", "begin", "opening", "opened", "exec", "execing", "query", "querying",
               "txexec", "committing", "rolling", "fetching", "sending", "unlocking", "gone"}
WatchdogPc == {"off", "armed", "fired", "stopped", "rolling", "unlocking", "done"}

TypeOK ==
    /\ mu \in BOOLEAN
    /\ conn \in Ids \cup {NoId}
    /\ tx \in Ids \cup {NoId}
    /\ txOwner \in Sessions \cup {NoOne}
    /\ collector \in Ids \cup {NoId}
    /\ touched \in [Ids -> SUBSET Items]
    /\ pend \in SUBSET Items
    /\ db \in [Items -> Ids \cup {NoId}]
    /\ seq \in Nat
    /\ pc \in [Procs -> SessionPc \cup WatchdogPc]
    /\ my \in [Procs -> Ids \cup {NoId}]
    /\ starter \in [Ids -> Sessions \cup {NoOne}]
    /\ lost \in SUBSET Ids
    /\ hungup \in SUBSET Sessions
    /\ next \in Nat \ {0}
    /\ sub \in [Subs -> {"off", "on", "cut"}]
    /\ chan \in [Subs -> Seq([seq : Nat, items : SUBSET (Nodes \cup Flags)])]
    /\ ctx \in [Sessions -> Ids \cup {NoId}]
    /\ stray \in SUBSET Ids
    /\ ended \in [Ids -> Procs \cup {NoOne}]
    /\ hist \in Seq(SUBSET (Nodes \cup Flags))
    /\ at \in [Subs -> Nat]
    /\ seen \in [Subs -> SUBSET (Nodes \cup Flags)]

Init ==
    /\ mu = FALSE /\ conn = NoId /\ tx = NoId /\ txOwner = NoOne
    /\ collector = NoId /\ touched = [i \in Ids |-> {}]
    /\ pend = {} /\ db = [x \in Items |-> NoId]
    /\ seq = 0 /\ next = 1 /\ hungup = {}
    /\ pc = [p \in Procs |-> IF p \in Sessions THEN "idle" ELSE "off"]
    /\ my = [p \in Procs |-> NoId]
    /\ starter = [i \in Ids |-> NoOne] /\ lost = {}
    /\ sub = [c \in Subs |-> "off"] /\ chan = [c \in Subs |-> <<>>]
    /\ ctx = [s \in Sessions |-> NoId] /\ stray = {}
    /\ ended = [i \in Ids |-> NoOne]
    /\ hist = <<>> /\ at = [c \in Subs |-> 0] /\ seen = [c \in Subs |-> {}]

-----------------------------------------------------------------------------
(* The pieces the operations share.                                        *)

Goto(p, l) == pc' = [pc EXCEPT ![p] = l]

\* Mutant of sessionTx: the owner is not compared.
AnyTx(s)   == tx

\* sessionTx: the session's open transaction, or none.
SessionTx(s) == IF txOwner = s THEN tx ELSE NoId

\* The claimed transaction is out of every other finisher's reach.
ForgetTx == tx' = NoId /\ txOwner' = NoOne

\* claimTx: under the state mutex, take the transaction of session s away from
\* every other finisher, stop its timer and forget it.  The goroutine p that
\* gets it goes on to l.
ClaimTx(p, s, l) ==
    /\ SessionTx(s) # NoId
    /\ my' = [my EXCEPT ![p] = tx]
    /\ ended' = [ended EXCEPT ![tx] = p]
    /\ pc' = [q \in Procs |-> IF q = p THEN l
                              ELSE IF q = tx /\ pc[q] = "armed" THEN "stopped"
                              ELSE pc[q]]
    /\ ForgetTx

\* A request that needs a transaction or a changeLog of its own.
Fresh(s) ==
    /\ next <= MaxId
    /\ my' = [my EXCEPT ![s] = next]
    /\ next' = next + 1

\* The update hook: it tells the armed changeLog of a row that changed, also
\* when the statement is undone afterwards.
Hook(x) == touched' = IF collector = NoId THEN touched
                      ELSE [touched EXCEPT ![collector] = @ \cup {x}]

\* Mutant: the hook keeps feeding the changeLog of a change that is settled.
KeepArmed == UNCHANGED collector

\* collector.Store(nil)
Disarm == collector' = NoId

\* The SQLite transaction is over, one way or the other.
EndSql == conn' = NoId /\ pend' = {}

\* Where a goroutine goes that has settled a change of these items: an event
\* ships only when one of them is broadcast.
Broadcast(p, items) ==
    Goto(p, IF items \subseteq Quiet THEN "unlocking" ELSE "fetching")

\* A change the subscribers are owed an event for joins the history.
Record(items) == hist' = IF items \subseteq Quiet THEN hist
                         ELSE Append(hist, items \ Quiet)

-----------------------------------------------------------------------------
(* Begin.                                                                  *)

RequestBegin(s) ==
    /\ pc[s] = "idle" /\ ctx[s] = NoId /\ SessionTx(s) = NoId
    /\ Fresh(s) /\ Goto(s, "begin")
    /\ UNCHANGED <<lock, data, feed, ghosts, hist, starter, lost, hungup>>

BeginLock(s) ==
    /\ pc[s] = "begin" /\ ~mu
    /\ mu' = TRUE /\ Goto(s, "opening")
    /\ UNCHANGED <<conn, tx, txOwner, data, feed, ghosts, hist, my, starter, lost, hungup, next>>

\* sqldb.Begin waits for the one connection; on an error mu is given back.
SqlBegin(s) ==
    /\ pc[s] = "opening" /\ conn = NoId
    /\ \/ conn' = my[s] /\ pend' = {} /\ Goto(s, "opened") /\ UNCHANGED <<mu, my>>
       \/ mu' = FALSE /\ Goto(s, "idle") /\ my' = [my EXCEPT ![s] = NoId]
          /\ UNCHANGED <<conn, pend>>
    /\ UNCHANGED <<tx, txOwner, collector, touched, db, feed, ghosts, hist,
                   starter, lost, hungup, next>>

\* Mutant: no watchdog.
NoTimer(s) == Goto(s, "idle")

\* time.AfterFunc: the watchdog of the transaction is armed.
ArmTimer(s) == pc' = [pc EXCEPT ![s] = "idle", ![my[s]] = "armed"]

\* Under the state mutex, the four fields of the transaction.
BeginSet(s) ==
    /\ pc[s] = "opened"
    /\ tx' = my[s] /\ txOwner' = s
    /\ collector' = my[s]
    /\ starter' = [starter EXCEPT ![my[s]] = s]
    /\ ArmTimer(s)
    /\ ctx' = [ctx EXCEPT ![s] = my[s]]
    /\ my' = [my EXCEPT ![s] = NoId]
    /\ UNCHANGED <<mu, conn, touched, pend, db, feed, stray, ended, hist, lost, hungup, next>>

-----------------------------------------------------------------------------
(* Exec and Query: routed into the session's transaction when it has one,  *)
(* an autocommit statement under mu otherwise.                             *)

RequestExec(s) ==
    /\ pc[s] = "idle"
    /\ \/ /\ SessionTx(s) # NoId
          /\ my' = [my EXCEPT ![s] = SessionTx(s)] /\ Goto(s, "txexec")
          /\ UNCHANGED next
       \/ SessionTx(s) = NoId /\ Fresh(s) /\ Goto(s, "exec")
    /\ UNCHANGED <<lock, data, feed, ghosts, hist, starter, lost, hungup>>

TxWrite(x) == pend' = pend \cup {x} /\ UNCHANGED db

\* tx.Exec: the statement works, or is undone after the hook saw its row, or
\* touches nothing; database/sql answers ErrTxDone when the transaction is over.
TxExec(s) ==
    /\ pc[s] = "txexec"
    /\ \/ /\ conn = my[s]
          /\ \E x \in Items : Hook(x) /\ (TxWrite(x) \/ UNCHANGED <<pend, db>>)
       \/ UNCHANGED <<touched, pend, db>>
    /\ Goto(s, "idle") /\ my' = [my EXCEPT ![s] = NoId]
    /\ UNCHANGED <<lock, collector, feed, ghosts, hist, starter, lost, hungup, next>>

ExecLock(s) ==
    /\ pc[s] = "exec" /\ ~mu
    /\ mu' = TRUE /\ collector' = my[s] /\ Goto(s, "execing")
    /\ UNCHANGED <<conn, tx, txOwner, touched, pend, db, feed, ghosts, hist,
                   my, starter, lost, hungup, next>>

\* The autocommit statement, with the same three outcomes; broadcast gets its
\* changeLog also when it failed.
AutoExec(s) ==
    /\ pc[s] = "execing" /\ conn = NoId
    /\ \/ /\ \E x \in Items :
                /\ Hook(x)
                /\ \/ db' = [db EXCEPT ![x] = my[s]]
                      /\ stray' = stray \cup ({ctx[s]} \ {NoId})
                   \/ UNCHANGED <<db, stray>>
          /\ Record(touched'[my[s]]) /\ Broadcast(s, touched'[my[s]])
       \/ Goto(s, "unlocking") /\ UNCHANGED <<touched, db, stray, hist>>
    /\ Disarm
    /\ UNCHANGED <<lock, pend, feed, ctx, ended, my, starter, lost, hungup, next>>

\* A query inside the transaction changes nothing; outside it holds mu.
RequestQuery(s) ==
    /\ pc[s] = "idle" /\ SessionTx(s) = NoId
    /\ Goto(s, "query")
    /\ UNCHANGED <<lock, data, feed, ghosts, hist, my, starter, lost, hungup, next>>

QueryLock(s) ==
    /\ pc[s] = "query" /\ ~mu
    /\ mu' = TRUE /\ Goto(s, "querying")
    /\ UNCHANGED <<conn, tx, txOwner, data, feed, ghosts, hist, my, starter, lost, hungup, next>>

RunQuery(s) ==
    /\ pc[s] = "querying" /\ conn = NoId
    /\ Goto(s, "unlocking")
    /\ UNCHANGED <<lock, data, feed, ghosts, hist, my, starter, lost, hungup, next>>

-----------------------------------------------------------------------------
(* Commit, Rollback, and Abort from the watchdog and from a disconnect.    *)

Commit(s) ==
    /\ pc[s] = "idle" /\ ClaimTx(s, s, "committing")
    /\ ctx' = [ctx EXCEPT ![s] = NoId]
    /\ UNCHANGED <<mu, conn, data, feed, stray, hist, starter, lost, hungup, next>>

Rollback(s) ==
    /\ pc[s] = "idle" /\ ClaimTx(s, s, "rolling")
    /\ ctx' = [ctx EXCEPT ![s] = NoId]
    /\ UNCHANGED <<mu, conn, data, feed, stray, hist, starter, lost, hungup, next>>

\* "no open transaction": the claim failed, the client gives its handle up.
SettleRefused(s) ==
    /\ pc[s] = "idle" /\ ctx[s] # NoId /\ SessionTx(s) = NoId
    /\ ctx' = [ctx EXCEPT ![s] = NoId]
    /\ UNCHANGED <<lock, data, feed, stray, ended, hist, pc, my, starter, lost, hungup, next>>

\* Mutant: a failed commit is broadcast too.
BroadcastAnyway(s) == Broadcast(s, touched[my[s]])

\* if err == nil: a commit that failed is not broadcast.
SkipBroadcast(s) == Goto(s, "unlocking")

SqlCommit(s) ==
    /\ pc[s] = "committing"
    /\ EndSql /\ Disarm
    /\ \/ /\ db' = [x \in Items |-> IF x \in pend THEN my[s] ELSE db[x]]
          /\ Record(touched[my[s]]) /\ Broadcast(s, touched[my[s]])
       \/ SkipBroadcast(s) /\ UNCHANGED <<db, hist>>
    /\ UNCHANGED <<mu, tx, txOwner, touched, feed, ghosts, my, starter, lost, hungup, next>>

SqlRollback(p) ==
    /\ pc[p] = "rolling"
    /\ EndSql /\ Disarm
    /\ Goto(p, "unlocking")
    /\ UNCHANGED <<mu, tx, txOwner, touched, db, feed, ghosts, hist, my, starter,
                   lost, hungup, next>>

\* The deferred calls of server.session when its connection is gone.
Disconnect(s) ==
    /\ pc[s] = "idle"
    /\ hungup' = hungup \cup {s} /\ ctx' = [ctx EXCEPT ![s] = NoId]
    /\ \/ ClaimTx(s, s, "rolling")
       \/ SessionTx(s) = NoId /\ Goto(s, "gone") /\ UNCHANGED <<my, ended, tx, txOwner>>
    /\ UNCHANGED <<mu, conn, data, feed, stray, hist, starter, lost, next>>

\* The timer of transaction i goes off: its goroutine exists, nothing more.
Fire(i) ==
    /\ pc[i] = "armed" /\ Goto(i, "fired")
    /\ UNCHANGED <<lock, data, feed, ghosts, hist, my, starter, lost, hungup, next>>

\* The goroutine runs Abort for the session it captured.
Watchdog(i) ==
    /\ pc[i] = "fired"
    /\ \/ ClaimTx(i, starter[i], "rolling")
       \/ SessionTx(starter[i]) = NoId /\ Goto(i, "done") /\ UNCHANGED <<my, ended, tx, txOwner>>
    /\ UNCHANGED <<mu, conn, data, feed, ctx, stray, hist, starter, lost, hungup, next>>

-----------------------------------------------------------------------------
(* broadcast, still under mu, and the unlock that ends every section.      *)

\* nodesByRowID, then the sequence number: the event ships either way.
Fetch(p) ==
    /\ pc[p] = "fetching"
    /\ seq' = seq + 1
    /\ lost' \in {lost} \cup (IF FetchFails /\ touched[my[p]] \cap Nodes # {}
                              THEN {lost \cup {my[p]}} ELSE {})
    /\ Goto(p, "sending")
    /\ UNCHANGED <<lock, data, sub, chan, at, seen, ghosts, hist, my, starter, hungup, next>>

EventOf(i) == [seq |-> seq, items |-> IF i \in lost THEN touched[i] \cap Flags
                                      ELSE touched[i] \ Quiet]

Fits(c) == Len(chan[c]) < Cap

\* Mutant: a subscriber that lags is left on.
LeaveOn(c)  == "on"

\* The send never blocks: a channel that is full is removed and closed.
CutOrKeep(c) == IF Fits(c) THEN "on" ELSE "cut"
SendReady    == TRUE

FanOut(p) ==
    /\ pc[p] = "sending" /\ SendReady
    /\ chan' = [c \in Subs |-> IF sub[c] = "on" /\ Fits(c)
                               THEN Append(chan[c], EventOf(my[p])) ELSE chan[c]]
    /\ sub' = [c \in Subs |-> IF sub[c] = "on" THEN CutOrKeep(c) ELSE sub[c]]
    /\ Goto(p, "unlocking")
    /\ UNCHANGED <<lock, data, seq, at, seen, ghosts, hist, my, starter, lost, hungup, next>>

Unlock(p) ==
    /\ pc[p] = "unlocking"
    /\ mu' = FALSE /\ my' = [my EXCEPT ![p] = NoId]
    /\ Goto(p, IF p \in Ids THEN "done" ELSE IF p \in hungup THEN "gone" ELSE "idle")
    /\ UNCHANGED <<conn, tx, txOwner, data, feed, ghosts, hist, starter, lost, hungup, next>>

-----------------------------------------------------------------------------
(* The subscribers.                                                        *)

\* How many events have been fanned out: one less than seq during a fan-out.
Fanned == IF \E p \in Procs : pc[p] = "sending" THEN seq - 1 ELSE seq

Subscribe(c) ==
    /\ sub[c] = "off"
    /\ sub' = [sub EXCEPT ![c] = "on"]
    /\ at' = [at EXCEPT ![c] = Fanned]
    /\ UNCHANGED <<lock, data, seq, chan, seen, ghosts, hist, pc, my, starter, lost, hungup, next>>

\* server.push (or the SSE handler) sends the next buffered event on.
Push(c) ==
    /\ chan[c] # <<>>
    /\ at' = [at EXCEPT ![c] = Head(chan[c]).seq]
    /\ seen' = [seen EXCEPT ![c] = Head(chan[c]).items]
    /\ chan' = [chan EXCEPT ![c] = Tail(@)]
    /\ UNCHANGED <<lock, data, seq, sub, ghosts, hist, pc, my, starter, lost, hungup, next>>

\* The client hangs up, or push returns at the end of a closed channel.
Unsubscribe(c) ==
    /\ sub[c] # "off"
    /\ sub' = [sub EXCEPT ![c] = "off"] /\ chan' = [chan EXCEPT ![c] = <<>>]
    /\ at' = [at EXCEPT ![c] = 0] /\ seen' = [seen EXCEPT ![c] = {}]
    /\ UNCHANGED <<lock, data, seq, ghosts, hist, pc, my, starter, lost, hungup, next>>

-----------------------------------------------------------------------------
Acquire(s) == BeginLock(s) \/ ExecLock(s) \/ QueryLock(s)

\* What the code does next on its own, without a request of the client.
Proceed(s) == SqlBegin(s) \/ BeginSet(s) \/ TxExec(s) \/ AutoExec(s) \/ RunQuery(s) \/ SqlCommit(s)
Finish(p)  == SqlRollback(p) \/ Fetch(p) \/ FanOut(p) \/ Unlock(p)
Request(s) == RequestBegin(s) \/ RequestExec(s) \/ RequestQuery(s) \/ Commit(s)
              \/ Rollback(s) \/ SettleRefused(s) \/ Disconnect(s)

Next ==
    \/ \E s \in Sessions : Request(s) \/ Acquire(s) \/ Proceed(s)
    \/ \E i \in Ids : Fire(i) \/ Watchdog(i)
    \/ \E p \in Procs : Finish(p)
    \/ \E c \in Subs : Subscribe(c) \/ Push(c) \/ Unsubscribe(c)

Spec == Init /\ [][Next]_vars

\* The Go runtime runs every runnable goroutine and every expired timer, and
\* its mutex hands over in arrival order once a waiter has starved for 1ms.
\* Nothing is assumed of the clients: no request is ever fair.
Fairness ==
    /\ \A s \in Sessions : WF_vars(Proceed(s)) /\ SF_vars(Acquire(s))
    /\ \A p \in Procs : WF_vars(Finish(p))
    /\ \A i \in Ids : WF_vars(Fire(i)) /\ WF_vars(Watchdog(i))

FairSpec == Spec /\ Fairness

-----------------------------------------------------------------------------
(* Correctness.                                                            *)

\* The labels at which a goroutine owns the write lock.
Locked == {"opening", "opened", "execing", "querying", "committing", "rolling",
           "fetching", "sending", "unlocking"}
Holders == {p \in Procs : pc[p] \in Locked}

\* The write lock is locked exactly while one goroutine is inside a locked
\* section or one transaction is open, never both and never two: whichever of
\* the owner, the watchdog and the disconnect claims a transaction is the only
\* one to settle it and unlock mu (claimTx).
OneHolder ==
    /\ mu <=> (Holders # {} \/ tx # NoId)
    /\ tx # NoId => Holders = {}
    /\ \A p, q \in Holders : p = q

\* The update hook feeds the changeLog of the statement or transaction that is
\* writing, and no other: it is armed only for the one that holds the lock, and
\* off when nobody does (beginCollect's "Callers hold mu").
HookFeedsTheHolder ==
    collector # NoId => \/ collector = tx
                        \/ \E p \in Holders : my[p] = collector

\* A statement under mu never finds the single connection taken by a
\* transaction: else it would hold mu while it waits for who needs mu.
ConnectionIsFree ==
    \A s \in Sessions : pc[s] \in {"opening", "execing", "querying"} => conn = NoId

\* Nothing of a transaction is in the committed database while it is open or
\* after the watchdog or a disconnect rolled it back.
NothingBeforeCommit ==
    \A x \in Items : db[x] # NoId => db[x] # conn /\ ended[db[x]] \notin Ids

\* A write between a client's Begin and its Commit commits by itself only when
\* a watchdog has ended the transaction under the client: store.go's promise
\* that a transaction's writes are atomic, as far as the code keeps it.
StrayOnlyAfterWatchdog == \A i \in stray : ended[i] \in Ids

\* store.go:62-64: "a client transaction holds it from Begin to Commit/Rollback
\* so its writes are atomic with respect to every other client".  No write a
\* client makes inside its transaction commits apart from it.
TransactionsAreAtomic == stray = {}

\* What waits in a subscriber's channel is the next stretch of the history in
\* order, and for a subscriber that was not cut all of it: nothing committed is
\* missing (broadcast's "nothing is silently missed").
Owed(c) == Fanned - at[c]
FeedIsGapless ==
    \A c \in Subs : sub[c] # "off" =>
        /\ \A k \in 1..Len(chan[c]) : chan[c][k].seq = at[c] + k
        /\ sub[c] = "on" => Len(chan[c]) = Owed(c)
        /\ sub[c] = "cut" => Len(chan[c]) < Owed(c)

\* Every event names all that its change touched (store.go:308-309, "nothing is
\* silently missed"), or at least every table it only flags when the rows could
\* not be read back.
EventsAreComplete ==
    \A c \in Subs : \A k \in 1..Len(chan[c]) :
        LET whole == hist[chan[c][k].seq]
        IN \/ chan[c][k].items = whole
           \/ FetchFails /\ chan[c][k].items = whole \cap Flags

\* The Store implements ChangeFeed.
Feed == INSTANCE ChangeFeed WITH
            Changes <- (SUBSET (Nodes \cup Flags)) \ {{}},
            Readers <- Subs,
            history <- hist,
            place <- [c \in Subs |-> IF sub[c] = "off" THEN -1 ELSE at[c]],
            given <- seen
ImplementsChangeFeed == Feed!FeedSpec

\* Every request that waits for the write lock gets it, whatever the clients
\* do: an abandoned transaction is ended by its watchdog, and a subscriber that
\* does not read delays nobody.
EveryWaiterIsServed ==
    \A s \in Sessions : pc[s] \in {"begin", "exec", "query"} ~> pc[s] \notin {"begin", "exec", "query"}

\* Every transaction ends.
EveryTransactionEnds == tx # NoId ~> tx = NoId

-----------------------------------------------------------------------------
(* The inductive invariant behind the lock properties, in named parts.     *)

BeginPc    == {"begin", "opening", "opened"}
SqlPc      == {"opened", "committing", "rolling"}
LogPc      == {"exec", "execing", "txexec", "fetching", "sending"}

\* Sessions and watchdogs keep to their own code.
Labels ==
    /\ \A s \in Sessions : pc[s] \in SessionPc
    /\ \A i \in Ids : pc[i] \in WatchdogPc

\* The store's fields describe the transaction open on the connection.
TxIsOnConn ==
    /\ tx = NoId <=> txOwner = NoOne
    /\ tx # NoId => conn = tx

\* The goroutine that settles or opens a transaction has it on the connection,
\* and the connection is taken only for it or for the open transaction.
ConnIsOwned ==
    /\ \A p \in Procs : pc[p] \in SqlPc => my[p] # NoId /\ conn = my[p]
    /\ conn # NoId => tx = conn \/ \E p \in Procs : pc[p] \in SqlPc

HookIsOwned ==
    collector # NoId =>
        \/ collector = tx
        \/ \E p \in Procs : pc[p] \in {"execing", "committing", "rolling"} /\ my[p] = collector

\* Identities are fresh: no watchdog runs for one that is not yet begun.
FreshIds ==
    /\ \A i \in Ids : i >= next => pc[i] = "off"
    /\ \A s \in Sessions : pc[s] \in BeginPc =>
         my[s] \in Ids /\ my[s] < next /\ pc[my[s]] = "off"
    /\ \A s, t \in Sessions : pc[s] \in BeginPc /\ pc[t] \in BeginPc /\ my[s] = my[t] => s = t

LogsAreNamed ==
    /\ \A p \in Procs : pc[p] \in LogPc => my[p] \in Ids
    /\ \A p \in Procs : pc[p] = "sending" => seq > 0

LockInv == TypeOK /\ Labels /\ OneHolder /\ TxIsOnConn /\ ConnIsOwned /\ HookIsOwned
           /\ FreshIds /\ LogsAreNamed

-----------------------------------------------------------------------------
(* The inductive invariant behind what is committed, to whom, and the feed.  *)

\* A transaction that has not begun, or is open, is settled by nobody, and one
\* that commits is settled by its owner.
EndsAreKept ==
    /\ \A i \in Ids : pc[i] = "off" => ended[i] = NoOne
    /\ tx # NoId => pc[tx] # "off" /\ ended[tx] = NoOne
    /\ \A s \in Sessions : pc[s] = "committing" => ended[my[s]] = s

\* A client that believes in a transaction has it, or a watchdog has ended it.
ClientsKnow ==
    \A s \in Sessions : ctx[s] # NoId => \/ tx = ctx[s] /\ txOwner = s
                                         \/ ended[ctx[s]] \in Ids

\* The identity of an autocommit statement is nobody else's.
StatementsAreFresh ==
    \A s \in Sessions : pc[s] \in {"exec", "execing"} =>
        /\ my[s] < next /\ pc[my[s]] = "off"
        /\ \A t \in Sessions : pc[t] \in BeginPc => my[t] # my[s]

\* What has written to the database is none of those that are about to begin.
WritersAreOld ==
    \A x \in Items : db[x] # NoId =>
        db[x] < next /\ \A t \in Sessions : pc[t] \in BeginPc => my[t] # db[x]

LedgerInv == EndsAreKept /\ ClientsKnow /\ StatementsAreFresh /\ WritersAreOld
             /\ NothingBeforeCommit /\ StrayOnlyAfterWatchdog

\* Nothing waits for a subscriber that has left.
OffIsEmpty == \A c \in Subs : sub[c] = "off" => chan[c] = <<>>

\* A change is in the history before it has its number.
HistoryIsCounted == Len(hist) = IF \E p \in Procs : pc[p] = "fetching" THEN seq + 1 ELSE seq

\* The change being broadcast is the last of the history.
LastIsBroadcast ==
    \A p \in Procs : pc[p] \in {"fetching", "sending"} => hist[Len(hist)] = touched[my[p]] \ Quiet

FeedInv == OffIsEmpty /\ HistoryIsCounted /\ LastIsBroadcast /\ (lost # {} => FetchFails)
           /\ FeedIsGapless /\ EventsAreComplete

\* The write lock has one holder, nobody but the holder feeds the changeLog through the update hook, and no statement
\* under the lock finds the single connection taken (store.go:174, store.go:159, store.go:284).
LockSafety == OneHolder /\ HookFeedsTheHolder /\ ConnectionIsFree

\* A subscriber hears of a change only once it is committed, of all of them up to where it is cut off, and of every row
\* of each, whoever holds the lock meanwhile (store.go:333, store.go:137, store.go:284).
FeedIsTrue == LockInv /\ LedgerInv /\ FeedInv

\* Whoever waits for the lock gets it, since every transaction ends: by its owner, the watchdog or the disconnect
\* (store.go:244, store.go:331).
NoneWaitsForEver == EveryWaiterIsServed /\ EveryTransactionEnds
=============================================================================
