------------------------------ MODULE LiveSync ------------------------------
(***************************************************************************)
(* The editor as a client of the daemon (tui/editor/livesync.go, with the  *)
(* Update loop of editor.go, save and loadTree of model.go and Subscribe   *)
(* of daemon/client).  Local edits are flushed about a second later in one *)
(* transaction; what other clients commit arrives on the change feed and   *)
(* is folded into the loaded tree.  The daemon's side of the feed is what  *)
(* module ChangeFeed says of it: a registered subscriber is given every    *)
(* commit in order until it is cut.                                        *)
(*                                                                         *)
(* A node is its text and the node it is put below; the editor shows what  *)
(* is below Home.  Whether a node stands at another index among its        *)
(* siblings than its snapshot says is left open wherever the code asks;    *)
(* mirrors, the second loaded tree and view state are left out.  A         *)
(* transaction of another client writes one row, so that no row waits in   *)
(* applyEvent for its parent to be applied in a later one of the four      *)
(* passes.  No code sends an event with Resync set.  Update runs one       *)
(* message at a time, so the handling of a message is one step, except     *)
(* that a resync waits for the daemon twice.                               *)
(***************************************************************************)
EXTENDS Integers, Sequences

CONSTANTS
    LiveNodes,      \* the uuids there can be
    LiveTexts,      \* what a node can say
    Mine,       \* bound: the texts the user of this editor types
    Theirs,     \* bound: the texts other clients write
    Edited,     \* bound: the nodes the user edits
    Carried,    \* bound: which nodes other clients move, and below what
    Home,       \* what the loaded tree hangs from
    Outside,    \* a place that is in no loaded tree
    Echo,       \* the event of an own write
    Holds,      \* bound: what may hold events up
    Born,       \* the nodes there are at the start
    First,      \* ... and what they say
    NoRow,      \* a uuid nobody has used
    Dead,       \* a tombstone
    Absent,     \* a node the editor does not show
    Cap,        \* bound: events on their way (the channel, the socket, the client's buffer)
    MaxPending  \* the capacity of pendingEvs (512 in the code)

ASSUME TextAssumption == /\ Mine \subseteq LiveTexts /\ Theirs \subseteq LiveTexts /\ First \in LiveTexts
                         /\ Born \subseteq LiveNodes /\ Edited \subseteq LiveNodes 
                         /\ {Home, Outside} \cap LiveNodes = {} /\ Home # Outside
                         /\ Holds \subseteq {"modal", "selection"}
                         /\ {NoRow, Dead, Absent} \cap LiveTexts = {} /\ NoRow # Dead
ASSUME BoundAssumption == Cap \in Nat \ {0} /\ MaxPending \in Nat \ {0}

VARIABLES
    db,          \* the committed nodes table: what each row says
    dbUp,        \* ... and what it is put below
    link,        \* the feed connection, as both ends see it
    wire,        \* the events sent and not yet handled
    waiter,      \* the one command the feed has outstanding: an event, a retry
    pc,          \* "start", "run", or inside a resync: "resync", "load"
    mem,         \* the loaded tree: what the editor shows of each node
    up,          \* ... and below what
    snap,        \* the snapshots: each node as it was last read or saved
    snapUp,      \* ... and where it was then
    fresh,       \* the nodes with isNew
    dels,        \* tree.deleted: to be tombstoned by the next save
    unsaved, syncPending, syncErr,   \* fields of Model
    held,        \* why events may not be folded in now, or "no"
    pendingEvs,  \* the events that queue meanwhile
    needResync,
    typed,       \* ghost: the text the user typed and no save has written yet
    hole         \* ghost: the nodes the editor may show as they no longer are

shared == <<db, dbUp, link, wire>>
tree   == <<mem, up, snap, snapUp, fresh, dels>>
flags  == <<unsaved, syncPending, syncErr>>
queue  == <<held, pendingEvs, needResync>>
vars   == <<shared, waiter, pc, tree, flags, queue, typed, hole>>

Spots   == LiveNodes \cup {Home, Outside}
NodeRow == [node : LiveNodes, text : LiveTexts \cup {Dead}, up : Spots]
Event   == NodeRow \cup {Echo}

ASSUME EchoAssumption == Echo \notin NodeRow

LiveTypeOK ==
    /\ db \in [LiveNodes -> LiveTexts \cup {NoRow, Dead}] /\ dbUp \in [LiveNodes -> Spots]
    /\ link \in {"off", "asked", "on", "cut"} /\ waiter \in {"none", "event", "retry"}
    /\ wire \in Seq(Event) /\ Len(wire) <= Cap
    /\ pc \in {"start", "run", "resync", "load"}
    /\ mem \in [LiveNodes -> LiveTexts \cup {Absent}] /\ snap \in [LiveNodes -> LiveTexts \cup {Absent}]
    /\ up \in [LiveNodes -> Spots] /\ snapUp \in [LiveNodes -> Spots]
    /\ fresh \subseteq LiveNodes /\ dels \subseteq LiveNodes
    /\ unsaved \in BOOLEAN /\ syncPending \in BOOLEAN /\ syncErr \in BOOLEAN
    /\ held \in {"no", "modal", "selection"} /\ needResync \in BOOLEAN
    /\ pendingEvs \in Seq(Event) /\ Len(pendingEvs) <= MaxPending
    /\ typed \in [LiveNodes -> LiveTexts \cup {Absent}] /\ hole \subseteq LiveNodes

IsLive(n) == db[n] \in LiveTexts

\* What is at or below n, by the parents f.
Below(f, n) == {k \in LiveNodes : \A S \in SUBSET LiveNodes :
                  n \in S /\ (\A m \in LiveNodes : f[m] \in S => m \in S) => k \in S}

\* The rows that hang from Home by live rows: not those of a set each of which is
\* dead, or put outside or below another one of the set.
Reached == LiveNodes \ UNION {S \in SUBSET LiveNodes : \A m \in S : IsLive(m) => dbUp[m] \in S \cup {Outside}}

\* What loadTree shows of the nodes table, and where.
Loaded   == [n \in LiveNodes |-> IF n \in Reached THEN db[n] ELSE Absent]
LoadedUp == [n \in LiveNodes |-> IF n \in Reached THEN dbUp[n] ELSE Home]

\* RunFile has loaded the trees and has not yet opened the feed.
LiveInit ==
    /\ db = [n \in LiveNodes |-> IF n \in Born THEN First ELSE NoRow]
    /\ dbUp = [n \in LiveNodes |-> Home]
    /\ link = "off" /\ wire = <<>> /\ waiter = "none" /\ pc = "start"
    /\ mem = Loaded /\ snap = Loaded /\ up = LoadedUp /\ snapUp = LoadedUp /\ fresh = {} /\ dels = {}
    /\ unsaved = FALSE /\ syncPending = FALSE /\ syncErr = FALSE
    /\ held = "no" /\ pendingEvs = <<>> /\ needResync = FALSE
    /\ typed = [n \in LiveNodes |-> Absent] /\ hole = {}

-----------------------------------------------------------------------------
(* The daemon and the other clients.                                       *)

\* An event about n; and the nodes that the events of q are about.
Tells(ev, n) == ev # Echo /\ ev.node = n
Foreign(q) == {n \in LiveNodes : \E i \in DOMAIN q : Tells(q[i], n)}

\* A commit: the subscriber is sent an event of it, or cut when it lags.
Publish(ev) ==
    IF link = "on" /\ Len(wire) < Cap
    THEN wire' = Append(wire, ev) /\ UNCHANGED link
    ELSE link' = (IF link = "on" THEN "cut" ELSE link) /\ UNCHANGED wire

\* Nobody tells the editor of a commit now, and no resync is due that would: the
\* trees are loaded but the feed is not open, or its channel not registered.
Unheard == pc = "start" \/ (pc = "run" /\ link = "asked" /\ ~needResync)

\* What a commit about n leaves unsaid: all of it; or, when n is moved to where it is
\* loaded from, what is below n.
Unsaid(n) ==
    (IF Unheard THEN {n} ELSE {}) \cup (IF n \in Reached THEN {} ELSE Below(dbUp', n) \ {n})

\* Another client writes a node, creates, moves or deletes one.
OthersCommit(n, v, p) ==
    /\ db[n] # Dead /\ <<v, p>> # <<db[n], dbUp[n]>> /\ v \in Theirs \cup {db[n], Dead}
    /\ db[n] = NoRow => v # Dead /\ n \notin fresh
    /\ v = Dead => p = Home
    /\ p \in LiveNodes => IsLive(p) /\ p \notin Below(dbUp, n)
    /\ v = Dead \/ p = dbUp[n] \/ <<n, p>> \in Carried
    /\ db' = [db EXCEPT ![n] = v] /\ dbUp' = [dbUp EXCEPT ![n] = p]
    /\ Publish([node |-> n, text |-> v, up |-> p])
    /\ hole' = hole \cup Unsaid(n)
    /\ UNCHANGED <<waiter, pc, tree, flags, queue, typed>>

\* The daemon has answered the subscribe request; now it registers the channel.
Register ==
    /\ link = "asked" /\ link' = "on"
    /\ UNCHANGED <<db, dbUp, wire, waiter, pc, tree, flags, queue, typed, hole>>

\* The daemon stops, or the connection breaks: what was sent is still read.
Cut ==
    /\ link \in {"asked", "on"} /\ link' = "cut"
    /\ UNCHANGED <<db, dbUp, wire, waiter, pc, tree, flags, queue, typed, hole>>

-----------------------------------------------------------------------------
(* Folding events in.                                                      *)

\* The loaded tree, as one value that events are folded into.
Trees == [mem |-> mem, up |-> up, snap |-> snap, snapUp |-> snapUp, fresh |-> fresh, dels |-> dels,
          typed |-> typed, hole |-> hole]
Become(t) ==
    /\ mem' = t.mem /\ up' = t.up /\ snap' = t.snap /\ snapUp' = t.snapUp /\ fresh' = t.fresh /\ dels' = t.dels
    /\ typed' = t.typed /\ hole' = t.hole

\* changed: the user has edited the node since it was last read or saved.
ChangedIn(t, n) == n \in t.fresh \/ t.snap[n] # t.mem[n]
Changed(n)      == ChangedIn(Trees, n)

\* Mutant: unsaved text gives way.
Unshielded(t, n) == FALSE

\* The dirty shield.
Shielded(t, n) == ChangedIn(t, n)

\* What a node can be put below: what the tree hangs from, and what it shows.
InView(t, p) == p = Home \/ (p \in LiveNodes /\ t.mem[p] # Absent)

\* The node has moved since its snapshot, or stands at another index (slid).
LocallyMoved(t, n, slid) == t.snap[n] = Absent \/ t.snapUp[n] # t.up[n] \/ slid

Cleared(f, S, v) == [k \in LiveNodes |-> IF k \in S THEN v ELSE f[k]]

\* Mutant: only the node itself is forgotten.
DropTheNode(t, n) == [t EXCEPT !.mem[n] = Absent, !.up[n] = Home, !.snap[n] = Absent, !.snapUp[n] = Home,
                               !.fresh = @ \ {n}, !.typed[n] = Absent]

\* dropSubtree forgets a node and all that is shown below it, whatever the table has
\* of that and whatever of it is unsaved; nothing of it will be tombstoned.
DropSubtree(t, n) ==
    LET S == Below(t.up, n)
    IN  [t EXCEPT !.mem = Cleared(@, S, Absent), !.up = Cleared(@, S, Home), !.snap = Cleared(@, S, Absent),
                  !.snapUp = Cleared(@, S, Home), !.fresh = @ \ S, !.typed = Cleared(@, S, Absent),
                  !.hole = @ \cup (S \ {n})]

SnapFromNode(t, row) == row.text

\* The editor shows, or drops, a node that the table has below another node.
Miss(t, row) == [t EXCEPT !.hole = IF row.up \in LiveNodes THEN @ \cup {row.node} ELSE @]

\* A row of a node that is not shown is taken in when its parent is.
TakeIn(t, row) ==
    IF InView(t, row.up)
    THEN [t EXCEPT !.mem[row.node] = row.text, !.up[row.node] = row.up,
                   !.snap[row.node] = row.text, !.snapUp[row.node] = row.up]
    ELSE Miss(t, row)

\* A row of a node that is shown becomes the snapshot; its text is shown unless the
\* shield holds, and its place taken unless that is below the node itself.
Adopt(t, row, moves) ==
    LET n == row.node IN
    [t EXCEPT !.mem[n] = IF Shielded(t, n) THEN @ ELSE row.text,
              !.typed[n] = IF @ = row.text /\ n \notin t.fresh THEN Absent ELSE @,
              !.up[n] = IF moves /\ row.up \notin Below(t.up, n) THEN row.up ELSE @,
              !.snap[n] = SnapFromNode(t, row), !.snapUp[n] = row.up]

\* applyExternal of one row.  A tombstone drops the node.  So does a row that puts it
\* below what is not shown, unless the user has moved the node.
ApplyRow(t, slid, row) ==
    LET n     == row.node
        moves == ~LocallyMoved(t, n, slid)
    IN  CASE t.mem[n] = Absent /\ row.text = Dead                     -> t
          [] t.mem[n] = Absent /\ row.text # Dead                     -> TakeIn(t, row)
          [] t.mem[n] # Absent /\ row.text = Dead                     -> DropSubtree(t, n)
          [] t.mem[n] # Absent /\ row.text # Dead /\ moves /\ ~InView(t, row.up) -> Miss(DropSubtree(t, n), row)
          [] OTHER                                                    -> Adopt(t, row, moves)

\* drainLive hands the queued events to applyEvent, the first of them first: what the
\* first k of q make of t, when slid says which node stands at another index.
Upto(t, q, slid, k) ==
    LET u[i \in 0..Len(q)] == IF i = 0 THEN t ELSE ApplyRow(u[i - 1], slid[i], q[i])
    IN  u[k]
ApplyAll(t, q, slid) == Upto(t, q, slid, Len(q))
Slides(q) == [1..Len(q) -> BOOLEAN]

CanApplyLive == held = "no"

\* drainLive, which ends every key press: a resync that is due starts, or the
\* queued events are folded in.  t is what the key has made of the trees.
Drain(t) ==
    IF held' = "no" /\ needResync
    THEN /\ Become(t) /\ needResync' = FALSE /\ pendingEvs' = <<>> /\ pc' = "resync"
    ELSE IF held' = "no"
    THEN /\ \E slid \in Slides(pendingEvs) : Become(ApplyAll(t, pendingEvs, slid))
         /\ pendingEvs' = <<>> /\ UNCHANGED <<pc, needResync>>
    ELSE Become(t) /\ UNCHANGED <<pc, pendingEvs, needResync>>

\* Mutant: the events are dropped and nothing is loaded instead.
DropOnly     == pendingEvs' = <<>> /\ UNCHANGED needResync

Full     == Len(pendingEvs) >= MaxPending
Overflow == pendingEvs' = <<>> /\ needResync' = TRUE

\* handleDaemonEv: an echo of an own write is passed over, an event that may not
\* be folded in now queues, and when the queue is full everything is reloaded.
ReceiveEvent ==
    /\ pc = "run" /\ waiter = "event" /\ wire # <<>>
    /\ wire' = Tail(wire)
    /\ LET ev == Head(wire)
           Waits == ev # Echo /\ ~CanApplyLive
       IN
       \/ ev = Echo /\ UNCHANGED <<tree, typed, pendingEvs, needResync, hole>>
       \/ /\ ev # Echo /\ CanApplyLive
          /\ \E slid \in BOOLEAN :
                Become(ApplyRow([Trees EXCEPT !.hole = @ \cup ({ev.node} \cap Foreign(pendingEvs))], slid, ev))
          /\ UNCHANGED <<pendingEvs, needResync>>
       \/ /\ Waits /\ Full
          /\ Overflow
          /\ UNCHANGED <<tree, typed, hole>>
       \/ /\ Waits /\ ~Full
          /\ pendingEvs' = Append(pendingEvs, ev)
          /\ UNCHANGED <<tree, typed, needResync, hole>>
    /\ UNCHANGED <<db, dbUp, link, waiter, pc, flags, held>>

-----------------------------------------------------------------------------
(* Opening the feed.                                                       *)

\* startFeed: the daemon has answered, or it cannot be reached.
Subscribed   == link' = "asked" /\ wire' = <<>> /\ waiter' = "event"
Unreachable  == link' = "off" /\ wire' = <<>> /\ waiter' = "retry"

\* RunFile and Init: no resync, the trees have just been loaded.
StartFeed ==
    /\ pc = "start" /\ pc' = "run"
    /\ Subscribed \/ Unreachable
    /\ UNCHANGED <<db, dbUp, tree, flags, queue, typed, hole>>

\* A feed is to be opened again: it was closed and has been read to its end, or
\* the last attempt failed two seconds ago.
Reopens == pc = "run" /\ (waiter = "retry" \/ (waiter = "event" /\ link = "cut" /\ wire = <<>>))

\* ... and is: everything is reloaded, at once or at the end of what holds it up.
Reopen ==
    /\ Reopens /\ Subscribed
    /\ IF CanApplyLive
       THEN pc' = "resync" /\ needResync' = FALSE /\ pendingEvs' = <<>>
       ELSE needResync' = TRUE /\ UNCHANGED <<pc, pendingEvs>>
    /\ UNCHANGED <<db, dbUp, tree, flags, held, typed, hole>>

\* Mutant: nothing asks again.
GiveUp == link' = "off" /\ wire' = <<>> /\ waiter' = "none"

\* feedRetryTick.
RetryLater == Unreachable

ReopenFails ==
    /\ Reopens /\ RetryLater
    /\ UNCHANGED <<db, dbUp, pc, tree, flags, queue, typed, hole>>

-----------------------------------------------------------------------------
(* Saving.                                                                 *)

Dirty   == {n \in LiveNodes : mem[n] # Absent /\ Changed(n)}

\* The nodes save writes: the changed ones, and those that are not where their
\* snapshot has them, by parent or by index (slid).
Displaced   == {n \in LiveNodes : mem[n] # Absent /\ (snap[n] = Absent \/ snapUp[n] # up[n])}
Saves(slid) == Dirty \cup Displaced \cup slid
Slid        == SUBSET {n \in LiveNodes : mem[n] # Absent}

\* ... and of those the ones it has a row for: a new node is put in, whatever row it
\* had; another one is updated, and stays a tombstone if it is one.
ToWrite(slid) == {n \in Saves(slid) : IsLive(n) \/ (n \in fresh /\ snap[n] = Absent)}

\* The nodes table after save, text and place of each written node being written; the
\* deleted ones become tombstones.
SavedDb(slid) ==
    [n \in LiveNodes |-> IF n \in dels /\ db[n] # NoRow THEN Dead ELSE IF n \in ToWrite(slid) THEN mem[n] ELSE db[n]]
SavedUp(slid) ==
    [n \in LiveNodes |-> IF n \in dels /\ db[n] # NoRow THEN Home ELSE IF n \in ToWrite(slid) THEN up[n] ELSE dbUp[n]]

\* The update hook hears of a commit that writes a row.
Commit(slid) ==
    /\ db' = SavedDb(slid) /\ dbUp' = SavedUp(slid)
    /\ IF \E n \in Saves(slid) \cup dels : db'[n] # NoRow THEN Publish(Echo) ELSE UNCHANGED <<link, wire>>

RefreshSnapshots == snap' = mem /\ snapUp' = up /\ fresh' = {}

\* saveAll works.
SaveLands ==
    /\ \E slid \in Slid :
          /\ Commit(slid)
          /\ hole' = hole \cup ((Saves(slid) \cup dels) \cap (Foreign(wire) \cup Foreign(pendingEvs)))
                          \cup {n \in dels : mem[n] # Absent}
    /\ RefreshSnapshots /\ dels' = {} /\ typed' = [n \in LiveNodes |-> Absent]
    /\ syncErr' = FALSE
    /\ UNCHANGED <<mem, up>>

\* saveAll fails: nothing is written, or the commit lands and its reply is lost.
SaveFails ==
    /\ syncErr' = TRUE
    /\ UNCHANGED shared \/ \E slid \in Slid : Commit(slid)
    /\ UNCHANGED <<tree, typed>>

StillUnsaved == UNCHANGED unsaved

\* flushSync, a second after the edit that armed it.
FlushLands ==
    /\ pc = "run" /\ syncPending /\ unsaved
    /\ SaveLands /\ syncPending' = FALSE /\ unsaved' = FALSE
    /\ UNCHANGED <<waiter, pc, queue>>

FlushFails ==
    /\ pc = "run" /\ syncPending /\ unsaved
    /\ SaveFails /\ syncPending' = FALSE /\ StillUnsaved
    /\ hole' = hole \cup {n \in LiveNodes : <<db'[n], dbUp'[n]>> # <<db[n], dbUp[n]>>}
    /\ UNCHANGED <<waiter, pc, queue>>

FlushIdle ==
    /\ pc = "run" /\ syncPending /\ ~unsaved
    /\ syncPending' = FALSE
    /\ UNCHANGED <<shared, waiter, pc, tree, unsaved, syncErr, queue, typed, hole>>

\* resync: local edits are saved first, then the trees are loaded again.  If
\* either fails the resync is over; needResync was cleared before it began.
ResyncSaves ==
    /\ pc = "resync" /\ SaveLands
    /\ unsaved' = FALSE /\ pc' = "load"
    /\ UNCHANGED <<waiter, syncPending, queue>>

AfterFailedSave == "run"

ResyncFails ==
    /\ pc = "resync" /\ SaveFails
    /\ pc' = AfterFailedSave /\ StillUnsaved
    /\ hole' = LiveNodes
    /\ UNCHANGED <<waiter, syncPending, queue>>

ResyncLoads ==
    /\ pc = "load" /\ pc' = "run"
    /\ mem' = Loaded /\ snap' = Loaded /\ up' = LoadedUp /\ snapUp' = LoadedUp /\ fresh' = {} /\ dels' = {}
    /\ hole' = hole \cap Foreign(wire)
    /\ typed' = [n \in LiveNodes |-> Absent]
    /\ UNCHANGED <<shared, waiter, flags, queue>>

\* The Domain does not load.  A Temporary Domain that does not is left as it was, with no word of it (livesync.go:469);
\* there is one tree here.
LoadFails ==
    /\ pc = "load" /\ pc' = "run"
    /\ hole' = LiveNodes
    /\ UNCHANGED <<shared, waiter, tree, flags, queue, typed>>

-----------------------------------------------------------------------------
(* The user.                                                               *)

\* A key press makes t of the tree and h of what is held; one that edits arms the flush
\* (scheduleSync), and every one ends in drainLive.
Key(t, edits, h) ==
    /\ pc = "run" /\ held' = h
    /\ Drain(t)
    /\ unsaved' = (unsaved \/ edits)
    /\ syncPending' = (syncPending \/ unsaved')
    /\ UNCHANGED <<shared, waiter, syncErr>>

Type(n, v) ==
    /\ mem[n] # Absent /\ v # mem[n] /\ v \in Mine \cup {snap[n]}
    /\ Key([Trees EXCEPT !.mem[n] = v,
                         !.typed[n] = IF v = snap[n] /\ n \notin fresh THEN Absent ELSE v], TRUE, held)

\* A new node below p, under a uuid nobody has used.
Insert(n, v, p) ==
    /\ db[n] = NoRow /\ mem[n] = Absent /\ v \in Mine /\ InView(Trees, p)
    /\ Key([Trees EXCEPT !.mem[n] = v, !.up[n] = p, !.fresh = @ \cup {n}, !.typed[n] = v], TRUE, held)

\* indent, outdent, reparent: the node and what is below it are moved below p.
MoveNode(n, p) ==
    /\ mem[n] # Absent /\ InView(Trees, p) /\ p # up[n] /\ p \notin Below(up, n)
    /\ Key([Trees EXCEPT !.up[n] = p], TRUE, held)

\* deleteNode, tree.remove: the subtree goes, its snapshots stay until the next save.
DeleteNode(n) ==
    LET S == Below(up, n) IN
    /\ mem[n] # Absent
    /\ Key([Trees EXCEPT !.mem = Cleared(@, S, Absent), !.up = Cleared(@, S, Home), !.fresh = @ \ S,
                         !.dels = @ \cup (S \ fresh), !.typed = Cleared(@, S, Absent)], TRUE, held)

\* A picker, a note or a focused view opens, or rows are selected; and it ends.
Hold(k) ==
    /\ held = "no"
    /\ Key(Trees, FALSE, k)

Release ==
    /\ held # "no"
    /\ Key(Trees, FALSE, "no")

\* A click drops the selection (placeMouseCaret), and does not end in drainLive.
Click ==
    /\ pc = "run" /\ held = "selection" /\ held' = "no"
    /\ UNCHANGED <<shared, waiter, pc, tree, flags, pendingEvs, needResync, typed, hole>>

-----------------------------------------------------------------------------
Attempt   == StartFeed \/ Reopen \/ ReopenFails
Resyncing == ResyncSaves \/ ResyncFails \/ ResyncLoads \/ LoadFails
Feed   == Register \/ Cut \/ \E n \in LiveNodes, v \in LiveTexts \cup {Dead}, p \in Spots : OthersCommit(n, v, p)
Update == ReceiveEvent \/ Attempt \/ Resyncing \/ FlushLands \/ FlushFails \/ FlushIdle
User   == \/ \E n \in Edited, v \in LiveTexts : Type(n, v) \/ \E p \in Spots : Insert(n, v, p)
          \/ \E n \in Edited : DeleteNode(n) \/ \E p \in Spots : MoveNode(n, p)
          \/ \E k \in Holds : Hold(k)
          \/ Release \/ Click

LiveNext == Feed \/ Update \/ User
LiveSpec == LiveInit /\ [][LiveNext]_vars

-----------------------------------------------------------------------------
(* Properties.                                                             *)

\* Text the user typed is on the screen and due to be written until a save has
\* written it or it is taken away (the dirty shield; resync saves before it loads).
EditsAreKept ==
    \A n \in LiveNodes : typed[n] # Absent => mem[n] = typed[n] /\ n \in Dirty

\* ... and nothing else is taken for an edit: what the user has not edited since it
\* was read or saved does not count as changed.
OnlyEditsAreWritten == \A n \in Dirty : typed[n] = mem[n]

\* What takes the text of a node away: a tombstone, or a row that puts something below
\* what is not shown, of the node or of one it is shown below; and a row that says
\* what was typed leaves nothing to write.
TakesAway(t, row, n) ==
    \/ n \in Below(t.up, row.node) /\ (row.text = Dead \/ ~InView(t, row.up))
    \/ n = row.node /\ row.text = t.typed[n]

NotAnEdit == Feed \/ Update \/ (\E k \in Holds : Hold(k)) \/ Release \/ Click

\* Text the user typed stays typed in every step that is not the user's own edit, but
\* for a save that has written it, or finds the node deleted, and for what such an
\* event, received or drained from the queue, takes away.
EditsGoOnlySo ==
    \A n \in LiveNodes : typed[n] # Absent /\ typed'[n] # typed[n] /\ NotAnEdit =>
        \/ db'[n] \in {typed[n], NoRow, Dead}
        \/ wire' # wire /\ TakesAway(Trees, Head(wire), n)
        \/ pendingEvs' # pendingEvs /\ \E slid \in Slides(pendingEvs), k \in DOMAIN pendingEvs :
              TakesAway(Upto(Trees, pendingEvs, slid, k - 1), pendingEvs[k], n)

\* While there is something to write a flush is armed, or the bar says that the
\* last one failed and the next edit arms one.
EditsWillBeFlushed == Dirty # {} \/ dels # {} => unsaved /\ (syncPending \/ syncErr)

\* At rest: the feed is registered and read to its end, nothing is queued.
AtRest == pc = "run" /\ link = "on" /\ wire = <<>> /\ pendingEvs = <<>> /\ ~needResync

\* A node without local edits is shown as it is stored.
Shows(n) == n \in Dirty \cup dels \/ mem[n] = Loaded[n]

\* At rest every node that is shown says what is stored, but for those in hole: a
\* change committed after the first load or the reply to a subscribe and before the
\* channel was registered; a save that overtook the event of another client, or
\* whose reply was lost; an event that overtook queued ones; all of them, when a
\* resync has failed.  The next resync that works mends it.
ShownIsStored ==
    AtRest => \A n \in LiveNodes \ hole : mem[n] # Absent => n \in Dirty \cup dels \/ mem[n] = db[n]

\* ... and when there is nothing to write the outline that is shown is the one that
\* is stored, but for those and what is below them.
OutlineIsShown ==
    AtRest /\ ~unsaved /\ Displaced = {} =>
        \A n \in LiveNodes : (\A h \in hole : n \notin Below(up, h) \cup Below(dbUp, h))
                             => mem[n] = Loaded[n] /\ up[n] = LoadedUp[n]

-----------------------------------------------------------------------------
(* Why they hold.                                                          *)

\* What the last event of a queue that is about n says of it.
LastSays(q, n, v) ==
    \A i \in DOMAIN q : Tells(q[i], n) /\ (\A j \in DOMAIN q : j > i => ~Tells(q[j], n)) => q[i].text = v

\* The ghost typed says what is dirty; what is new is shown, and what is shown has
\* been read or is new.
SoundAt(t, n) ==
    /\ t.typed[n] = IF t.mem[n] # Absent /\ ChangedIn(t, n) THEN t.mem[n] ELSE Absent
    /\ n \in t.fresh => t.mem[n] # Absent
    /\ t.mem[n] # Absent => n \in t.fresh \/ t.snap[n] # Absent

\* Only what will be tombstoned has a snapshot and is not shown.
Accounted(t, n) == t.snap[n] # Absent => t.mem[n] # Absent \/ n \in t.dels

\* The editor has read of n that the table has v, if it has read anything of it.
HasRead(t, n, v) ==
    /\ t.snap[n] # Absent => t.snap[n] = v
    /\ t.mem[n] # Absent /\ v \in LiveTexts => t.snap[n] = v

\* Nobody has spoken of a uuid that nobody has used.
NeverUsed(n) == db[n] = NoRow => snap[n] = Absent /\ n \notin Foreign(wire) \cup Foreign(pendingEvs)

\* What queues comes from others.
QueuedAreTheirs == \A i \in DOMAIN pendingEvs : pendingEvs[i] # Echo

Hears == pc = "run" /\ link \in {"on", "asked"} /\ ~needResync

\* What the table says of a node that is not in hole: it is what the last event on
\* its way says, or else the last one queued, or else what the editor has read.
ReadAt(n) ==
    /\ n \in fresh => db[n] = NoRow
    /\ Accounted(Trees, n)
    /\ link = "on" => LastSays(wire, n, db[n])
    /\ Hears /\ n \notin Foreign(wire) => LastSays(pendingEvs, n, db[n])
    /\ (Hears /\ n \notin Foreign(wire) \cup Foreign(pendingEvs)) \/ pc = "start"
          => n \in dels \/ HasRead(Trees, n, db[n])

LiveInv ==
    /\ LiveTypeOK /\ QueuedAreTheirs /\ EditsWillBeFlushed
    /\ \A n \in LiveNodes : SoundAt(Trees, n) /\ NeverUsed(n) /\ (n \in hole \/ ReadAt(n))
    /\ link = "asked" => wire = <<>>
    /\ pc # "run" => pendingEvs = <<>>
    /\ pc = "start" => link = "off" /\ wire = <<>> /\ ~needResync
    /\ pc = "load" => Dirty = {}

-----------------------------------------------------------------------------

\* livesync.go:14-15: "every other client's committed change arrives on the
\* subscribe feed and folds into the in-memory tree in place".
ChangesArrive == AtRest => \A n \in LiveNodes : Shows(n)

\* Text the user has typed and no save has written is on the screen and due to be
\* written, nothing else counts as changed, and no event, overflow, resync or failed
\* save takes it away, unless another client has deleted the node, or moved it out of
\* what is shown, or done so to a node it is shown below (livesync.go:329,
\* livesync.go:359, livesync.go:374, livesync.go:119).
EditsAreSafe ==
    /\ [](LiveTypeOK /\ EditsAreKept /\ OnlyEditsAreWritten)
    /\ [][EditsGoOnlySo]_vars

\* Once the feed is open and at rest what is shown is what is stored, and as long as an edit is not stored a flush or its
\* retry is under way (livesync.go:120, livesync.go:89).
ShowsTheStore == EditsWillBeFlushed /\ ShownIsStored /\ LiveInv
=============================================================================
