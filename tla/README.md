# lflow, modelled and verified

lflow is an outliner. One daemon owns the SQLite file; terminal editors, commands and a phone are its
clients. This directory holds TLA+ modules of the parts whose steps interleave or whose algorithms are easy
to get wrong, the TLC configurations that check them on small instances, and TLAPS proofs of the properties
that matter most for every size. Paths below are relative to `src/tui/` unless they say otherwise.

## Inventory

| Part | State it keeps | Operations | Talks to |
|---|---|---|---|
| Store, `daemon/store.go` | write lock `mu`, the open transaction and its timer, the changeLog collector, `seq`, subscriber channels | Begin, Exec, Query, Commit, Rollback, Abort (watchdog, disconnect), Subscribe, broadcast | one SQLite connection; sessions; subscribers |
| Life cycle, `daemon/server.go`, `daemon/client`, `cli/serve` | the socket file, the spawn lock, connections, idle time | listen, session, push, idleWatch, stop; Ensure, spawn, waitGone, Connect | the Store; the file system |
| HTTP API, `daemon/http.go` | nothing between requests | outline, create, patch, move, delete, search, event stream | the Store, by autocommit statements |
| Nodes table, `database/nodes.go` | rows: parent, rank, deleted, lock, priority, name | GetChildren, GetSubtree, ranks, shifts, Reparent, MarkSubtreeDeleted | everything that writes |
| Review queue, `database/suggestion.go`, `cli/suggest` | suggestions and their status | propose, TargetGone, TargetDrifted, Apply, Reject, settle, the sweep at boot | nodes |
| Proposals in the editor, `editor/suggest.go`, `suggestdiff.go` | the pending queue, ghost rows, the walk | splice, answer, go to the next, reload on an event | the review queue; live sync |
| Outline commands, `cli/add`, `cli/mv`, `cli/remove` | nothing | add, move, remove | the daemon, a request per statement |
| Editor live sync, `editor/livesync.go`, parts of `editor.go` and `model.go` | the loaded trees, snapshots, queued events, pending flush | flush, feed, fold in, hold back, resync | the daemon: feed and transactions |
| Editor tree and undo, `editor/model.go`, `keys.go`, `multisel.go` | positions, mirrors, snapshots, selection, undo | indent, outdent, move, split, join, delete, graft, undo, save | live sync |
| Temporary Domain, `editor/temp.go` | a second tree without a database | moving nodes across | the editor tree |
| Typing, `editor/keys.go`, `textsel.go`, `spans.go` | a row's runes, its chips, styled runs, selection | insert, delete, select, style | the editor tree |
| Menus, `picker_list.go`, `complete.go`, `icon.go` | the open menu, where it began | open, filter, choose, esc | the row typed into |
| Frame and mouse, `view.go`, `mouse.go`, `temp.go` | the window over both regions | lay out, scroll, press | the editor tree |
| Wrapping, `text.go`, parts of `editor.go` | none | break a row, place the caret, move over lines | the frame |
| Chips, `chip.go`, `noterich.go`, `database/chips.go` | anchors in texts, records in a table | make, delete, undo, collect | node_output; other editors |
| Agents' sessions, `agentstore.go`, `agentpicker.go` | what a scan has listed | walk, read in pieces, pick | the agents' files |
| Runs, `bash.go`, `cmdchip.go`, `runout.go` | one band for each node or chip, its row in node_output | start, stream, finish, stop, clear | the multiplexer; the update loop by messages |
| Multiplexer, `multiplexer/` | sessions: process, channels, screen | start, kill, drain, answer queries, detect idleness | pseudo terminals |
| Query nodes, `query*.go` | the running scan, the mirrors under the node | parse, evaluate, stream, reconcile | the store; the editor tree |
| Pulls, `integrations/`, `zotero.go`, `workflowy.go` | bindings of nodes to remote objects | list, reconcile, tombstone | remote services |
| Table, `editor/table.go` | a grid over columns of nodes, the armed row | type, insert, delete, widths | the editor tree |
| Clipboard, `clipboard.go`, `code.go` | none | copy, cut, paste, fuse | the system's clipboard |
| Files as outlines, `codec.go`, `markdown.go`, `python.go`, `rust.go` | none | parse, write | `cli/file` |
| File session, `cli/file/open.go` | the file's time of change, the base | open, guard, save, quit | other programs that write the file |
| Flash, `flash.go` | the search and its labels | type, jump | the rows on screen |
| Calculator, `nlp/` | none | tokens, parse, evaluate | - |
| Mobile app, `src/mobile/web/src/store.ts` | a copy of the outline, dirty set, undo, a text box | optimistic writes, events, refetch | the HTTP API |
| Formats of one node and drawing | none | math, molecules, rendering | - |

### What is hard

* The write lock is held across requests of a client, which may stop or vanish; owner, watchdog and
  disconnect race to end the same transaction.
* One hook of one connection feeds whatever changeLog happens to be armed.
* Subscribers lag. They are cut, come back and must not be missing anything they are not told about.
* The HTTP API and the commands have no transaction around what they read and then write.
* A suggestion waits for a person; the node it is about is edited, locked or deleted meanwhile.
* Editors fold other clients' commits into text that is being typed, and save by difference from
  snapshots; a flush, an event and a reload can come in any order, and each can fail.
* Daemons are started by whoever needs one, replaced by newer builds and killed at any moment.
* A run's output arrives as messages that name the node; the node may be run again, deleted, restored by an
  undo, or its session killed, before they are handled.
* A chip's record and the text with its anchor are stored at different times, and an undo brings back both.
* The phone shows its writes before they are stored; answers and events cross each other.
* Positions (the caret, styled runs, selections, table rows, ghost rows, menu starts) are numbers into
  something that changes under them.

`PROJECT.json` lists the hazards line by line, with the properties that watch each.

## Modules

| Module | Models | Extends |
|---|---|---|
| `Store` | `daemon/store.go` and the session's end in `server.go` | |
| `ChangeFeed` | abstract: what the Store promises a subscriber | |
| `Tree` | queries and statements on the nodes table | |
| `Suggestions` | the review queue with its proposers, reviewers and deletes | `Tree` |
| `HttpApi` | the handlers that write, one query or statement a step | `Suggestions` |
| `Commands` | `lflow add`, `move`, `remove`, one statement a step, killed anywhere | `Suggestions` |
| `Outline` | HTTP API, commands, review queue and restarts on one outline | `HttpApi`, `Commands` |
| `LiveSync` | the editor as a client: flush, feed, fold-in, resync | |
| `Lifecycle` | finding, starting, replacing and losing daemons | |
| `ItemTree` | the loaded tree as a value, and what each operation makes of it | |
| `EditorTree` | the keys over it, undo, save, the Temporary Domain, zooming | `ItemTree` |
| `Typing`, `Wrap`, `Menus`, `Layout` | a row's text, its lines, the menus over it, the frame | |
| `Ghosts` | proposals on the screen and the walk over them | |
| `Chips`, `Sessions` | chips with their records; the agents' transcripts and their picker | |
| `Runs`, `Mux`, `Screen` | a run of a node; the sessions under it; the screen they draw on | |
| `Query`, `Pulls`, `Table` | query nodes; remote mirrors; the grid | |
| `Phone` | the mobile app's store | |
| `Clipboard`, `Formats`, `FileSession`, `Flash`, `Calc` | copies and pastes; file formats; a file being edited; the jump; sums | |
| `MCSuggestions`, `MCOutline`, `MCAlone`, `MCEditorTree`, `MCEditor`, `MCGhosts`, `MCReview`, `MCAround` | small instances | what they instantiate |
| `StoreProofs`, `OutlineProofs`, `AloneProofs`, `LiveSyncProofs`, `RunsProofs` | proofs | the module they are about |
| `ProcessProofs`, `EditorProofs` | proofs | `Lifecycle` and `Mux`; `FileSession`, `Chips` and `Menus` |
| `NumberProofs` | induction over naturals in the form of sets, used by the others | |

### Store, ChangeFeed

Every request of a session is a sequence of steps, cut where the code takes or gives back a lock or
calls SQLite: `RequestBegin`, `BeginLock`, `SqlBegin`, `BeginSet` are `Store.Begin`; `Commit` and
`Rollback` claim the transaction under the state mutex (`ClaimTx` is `claimTx`), `SqlCommit` and
`SqlRollback` end it, `Fetch` and `FanOut` are `broadcast`, `Unlock` gives `mu` back. A session asked
twice at once is not modelled, as `session` answers in turn. An identity stands for a transaction or an
autocommit statement, its changeLog and its watchdog goroutine; the watchdog (`Fire`, `Watchdog`) may
fire at any moment after it is armed. Its timer can have fired when the transaction is claimed: then it
still runs `Abort` for the session, as in the code. The database is the identity that last wrote each
item, so that what is committed, and by whom, can be told apart. SQLite is what the code asks of it: one
connection, a transaction on it at a time, commits that may fail and then leave nothing, an update hook.
Rows of `Quiet` tables are those `changeLog.record` ignores.

`ChangeFeed` is four actions: a change joins the history, a reader joins it, is given the next change,
is dropped. `Store` implements it under the mapping at the end of the module (history is `hist`, a
reader's place is `at`).

### Tree, Suggestions, HttpApi, Commands, Outline

The nodes table is a function from uuids to rows; a deleted row stays as a tombstone. Operators return
what the queries return and write what the statements write. In `Suggestions` a transaction is one step,
because it runs under the Store's lock (that is what `Store` is about), and the checks before it are
steps of their own: `Open`, `CheckGone`, `CheckDrift`, then `Apply`, `Refused` or `Reject`. In `HttpApi`
and `Commands` nothing holds the tree still, so every query and every statement is a step: a move walks
up parent by parent (`Walk`), chooses a rank (`Place`, `Rank` or `Shift`) and writes (`UpdateRow`); a
delete lists its subtree parent by parent (`WalkDown`), then writes tombstones, then settles suggestions.
Names and texts are members of a small set; notes, types, styles, mirrors and timestamps are left out,
as is what only reads. `Outline` puts all writers together with `Restart`.

### LiveSync

A node is its text and the node it is put below (`mem`, `up`); `snap` and `snapUp` are what it was last read or
saved as. A node is dirty when its text differs, as in `tree.changed`, and displaced when its parent does. Update
handles one message at a time, so a message is a step, except for a resync, which waits for the daemon twice
(`resync`: save, then load). `ApplyRow` is `applyExternal` with `dropSubtree`: a row is taken in below a parent
that is loaded, adopted, or takes the node and all that is shown below it out of the tree. Another index among the
siblings than the snapshot's makes a node look moved; which nodes stand so (`slid`) is left open at every event and
every save, so positions bound nothing. A transaction of another client writes one row, for which the passes of
`applyEvent` are one; an event with `Resync` set is sent by no code. The daemon's half is what `ChangeFeed` says.
`typed` remembers text no save has written; `hole` collects the nodes that the code's known gaps may leave stale, so
that `ShownIsStored` and `OutlineIsShown` can say that nothing else does.

### Lifecycle

`path` is the daemon whose socket the file names, dead or alive. Each system call on the socket file,
the spawn lock and a process is a step: `Ensure`, `Hello`, `WaitGone`, `RemoveFile`, `Lock`, the steps
under the lock (`FoundUp`, `StartDaemon`, `ComesUp`, `GivesUp`), and on the daemon's side `Prepare`,
`Bind`, `Probe`, `Unlink`, then `IdleExit`, `Close`, `Exit` or `Crash`. Closing a Go unix listener
removes the file at its path. `torn` notes that the spawn lock has been undermined.

### ItemTree, EditorTree

A tree is a record: the order of the children of every item, the items known, the snapshots, the new and
the deleted ones, detached roots of mirrored sources. `ItemTree` says what each operation makes of one
(`Indented`, `Outdented`, `Placed`, `GraftedAll`, `Moved`...; one that refuses returns the tree it got),
`EditorTree` when it runs: the cursor on any row of the view, what is pushed on the undo stack, what is
marked unsaved, and `Flush`, which brings the table up to the trees. `Careless` is the set of mishaps a
run lets happen; the passing run has none of them, and each is a gap listed below.

### Runs, Mux, Screen, Chips, Sessions

A session of `Runs` prints batches into a channel, a message at a time is read from the stream, and
whoever handles it issues the next read; `bands` is what the editor shows of an id, `rows` is node_output.
In `Mux` a process, a reader, a collector and an owner stand between a terminal and the update loop, each
free to leave when the context is cancelled. `Screen` is the grid with cursor, region and deferred wrap.
`Chips` keeps texts as sequences of chip ids in memory, in the table, and on the undo stack; another
editor works on the same chips table. `Sessions` reads a transcript's head, tail and middle in pieces and
feeds a picker through a bounded channel while older scans go on unheard.

### Phone

`cache` is the map of nodes, `calls` the requests under way, answered in any order; `events` the stream.
`box` is the open text box, saved by a debounce, on blur and when it goes. `dirty` shields a node with an
edit begun. `hole` holds the nodes that known gaps may leave stale.

### Typing, Wrap, Menus, Layout, Ghosts, Table, Query, Pulls

Sequential programs whose data are positions into something that moves: a text is a sequence of runes
with anchors (`Typing`, `Menus`) or of glyphs with widths (`Wrap`); a frame is the list of what each line
is a line of (`Layout`); a grid is columns of cells (`Table`). Every key, mouse message or change by
others is one action, drawn at once as the program does. `Query` parses and evaluates expressions by
recursive descent, next to a reference meaning, and streams hits; `Ghosts` splices rows; `Pulls`
reconciles a listing that was read while it changed.

### Clipboard, Formats, FileSession, Flash, Calc

Algorithms checked against what they are for: a copy that is pasted is the branch it was made of; a file
written back reads as the same rows; a save never goes over another program's writing that it could see;
a label leads where it stands; a sum has the reading its grammar gives it. `FileSession` is a protocol with the
operating system, whose calls can fail, and the others are driven by a few keys or texts.

## Runs

`CHECK_DEADLOCK FALSE` stands where the system may really stop: the bounded requests and keys are used up, or
every client has gone. Several runs hold parts that share no state; the initial state chooses one of them
(`part`, `half`, `writer`, `hand`, `thumb`), the others stand still. A property of a part is a conjunction of
named parts, each with its own comment where it is defined.

| Run | Instance | Checks |
|---|---|---|
| `Store_live` | 2 sessions, 2 identities, 1 subscriber with a channel of 1 | `LockSafety`: one holder, the hook feeds the holder, the connection is free when needed; `FeedIsTrue`: nothing uncommitted is told, no gap, complete events; `StrayOnlyAfterWatchdog`; `ImplementsChangeFeed`; `NoneWaitsForEver` |
| `Store_atomic` | 1 session, 2 identities | violated: `TransactionsAreAtomic` |
| `Review` | queue: 4 nodes, 2 suggestions, 2 reviewers; mux: 2 ids, 2 sessions, channels of 1; sessions: 2 stores, 2 scans; file: a file of up to 2 saves, 3 foreign writes, 1 failing call | `ApprovalsHold`, `AppliedOnce`, `VerdictIsFinal`, `DeleteSettles`; `TerminalsAreServed`; `AgentsAreFound`; `SavesLoseNothing` |
| `Review_drift` | the queue of `Review` | violated: `NewerTextIsKept` |
| `Alone` | 8 nodes; 3 HTTP requests one after another, or 2 commands of up to 2 lines killed anywhere; or an editor with 2 nodes of which 1 is edited and moved, 1 event on its way, 1 queued | `TreeIsSound`: no cycle, distinct ranks; `PlacesAreKept`: right behind the sibling named, or at the end asked for, and only siblings give way; `EveryRequestEnds`; `EditsAreSafe`: no event, resync or failed save takes typed text, but with what it is shown below; `ShowsTheStore`: texts, `OutlineIsShown`: places; `EditorHears` |
| `Outline_all` | 3 nodes, 1 each of request, command, suggestion, reviewer, and restarts; or 2 clients, 3 daemons, 2 builds | `VerdictsHold` with every writer; `OrderKept`; `DaemonIsFound` |
| `Life_twice` | the clients and daemons of `Outline_all` | violated: `OneDaemon` |
| `Live_start` | 1 node | violated: `ChangesArrive` |
| `Editor` | an outline of 7 rows with a mirror, a locked node and an outside node, up to 3 keys of one hand and 2 of two; a screen of 2 to 3 columns; short texts; pages of glyphs | `TreesAreSound`, `StoredIsShown`; `TerminalIsTrue`; `TextStaysWhole`; `LinesAreAsDrawn` |
| `Editor_undo` | the outline of `Editor`, undo after a graft allowed | violated: `OnlyTheDeletedDie` |
| `Ghost_rows` | a forest of rows and two proposals | violated: `GhostsAreInPlace` |
| `Around` | each part around the store, a few keys, messages or texts each | `PhoneIsTrue`, `RunsAreAccountedFor`, `ChipsFollowTheText`, `MirrorIsFaithful`, `ResultsAreOfTheQuery`, `GridKeepsItsRows`, `ProposalsAreShownTruly`, `ScreenIsAsLaid`, `MenusTakeBackTheirOwn`, `FilesReopenTheSame`, `FlashLandsWhereItSays`, `CopiesComeBack`, `SumsMeanOneThing` |

### Why the bounds are enough

* Two sessions and two identities let one transaction be settled, its late watchdog meet the session's
  next one, and another session wait or write between. A channel of 1 makes lagging the normal case.
* Two reviewers of two suggestions on a chain of two nodes, with a fresh uuid: the same suggestion twice,
  a removal above the node of another suggestion, an approved addition under a deleted parent.
* Ranks and cycles need two siblings, a child and what is inserted: three requests in a row make negative
  ranks, equal neighbours and tombstones between them. The root is never named in this instance: moving it
  makes a cycle (see below).
* Three daemons are a dead one with a stale file and two that could race for it.
* `Cap = 1` and `MaxPending = 1` make the feed cut the editor and the queue overflow all the time. Two nodes are one
  below the other, which is what a drop takes along; `b` alone is edited, and moved by others out of what is loaded
  and back. Three editors, each bound in its own way, take turns being the one of a behaviour: `"editor"` moves nodes
  and never selects, `"selector"` holds events up and leaves its nodes at the top, `"listener"` types nothing and is
  the one of which fairness is assumed. Without these bounds the run is many times as long; the proofs of
  `EditsAreSafe` and `ShowsTheStore` need none of them.
* HTTP requests name parents and siblings that are there when they are sent: a client names what the outline showed
  it, and no code removes a row (`Expunge` has no caller), so the row is there, perhaps deleted, when it is used.
* In the editor's tree two keys of different kinds, with a flush or an undo between them, reach every pair of
  operations; three keys of one kind are what an undo stack of depth 2 needs to lose its bottom.
* A second run of a band while the first still has a message on its way, with one batch each, is what crossing
  and stopping need; output of more than one batch only repeats a step.
* Four objects and `MaxFetch = 4` let a pull read a listing, find the next ones moved in or out meanwhile, and stop at
  the limit with objects unread: a walk over two levels and a paper with marks beside a note are the least in which an
  object is read twice or missed.
* A cell of the grid stores a character that is not shown (`CR`) in front of, between or behind shown ones, and what is
  put into it is a rune or a paste of several with one among them.
* Five keys open a note, refuse an insert in it and reach the next menu, or open, fill and leave a completer; the
  same instance with eight keys (4.3 million states, without the rest of `Around`) shows nothing more.
* `Mux` channels of 1 block every sender; an overlap of 3 bytes cuts every query in two in every way.
* The transcripts of `Sessions` are shorter and longer than a piece, and records straddle its border.
* The pure algorithms (`Wrap`, `Query`, `Calc`, `Formats`, `Clipboard`, `Table`'s widths) get all inputs up to a
  size, or a list of texts with every construct in it next to every other that reads differently beside it.
* Beyond the bounds, random walks of the same modules with more of everything (nine keys in the trees, twelve in a
  row's text, fourteen in the grid, the layout, the ghosts and the pulls, nine moves on the phone) were made until
  they met nothing new. What they met before is part of the models: the last three gaps of the editor's tree and
  those of the phone's text box below, which need six steps and more.

### Fairness

* Store: goroutines that can go on do, timers fire (weak). Taking `mu` is strongly fair: Go's mutex hands
  the lock to a waiter that has starved for 1 ms. Clients and subscribers are not fair: they may stop.
* HttpApi: `net/http` runs every handler (weak, per handler).
* LiveSync: Bubble Tea runs every command and handles every message, and a resync ends one way or the other (weak,
  on `Attempt`, `Resyncing` and `ReceiveEvent`). `Reopen` is strongly fair: an editor that dials again every few
  seconds finds a daemon or starts one.
* Nothing is assumed of users, and every other part is checked for safety only.

## What the code does not keep

Six runs end in a violation of what the repository says of itself (quoted in `PROJECT.json`).

* `Store_atomic` (`store.go:166`): after the watchdog has rolled a transaction back, the client's next
  write of that transaction runs as an autocommit statement and commits alone.
* `Review_drift` (`cli/suggest/review.go:89`): the drift check precedes the transaction, so an edit
  between the two is overwritten without `--force`.
* `Live_start` (`editor.go:2695`): what is committed between the first load and the registration of the
  feed never arrives.
* `Life_twice` (`client.go:155`): `waitGone` removes the socket file outside the spawn lock, perhaps that
  of a daemon just started; the next spawn starts a second one.
* `Editor_undo` (`editor.go:735`): a picture on the undo stack that was taken before a source was grafted does
  not hold it, and restoring it tombstones the source with its subtree.
* `Ghost_rows` (`editor/suggest.go:173`): a ghost is spliced by an index into the rows of before the refresh.

The properties above are stated around what follows, mostly by a ghost variable that notes the mishap, so
that everything else is still checked. Each was met in a counterexample while the models were written.

* **HTTP API and commands.** Two moves in flight each pass the cycle check before the other writes
  (`http.go:401`); a move of the root closes a cycle, since the walk stops at the root before it compares; a
  command that moves a node under one of its tombstones passes `isDescendant` (`mv.go:43`); an HTTP request that
  puts a node in front gives it a negative rank, and what `lflow add` or `move` then puts at the top lands behind it
  (`nodes.go:522`; `PlacesAreKept` has commands start on ranks that are not negative); a
  delete settles suggestions in a second statement (`http.go:443`); a lock set after a handler has read the row
  is not seen (`http.go:311`).
* **Store.** Rows that cannot be read after a commit are missing from its event (`store.go:315`; `FetchFails =
  TRUE` breaks `EventsAreComplete`); a watchdog that has fired when its transaction is settled ends the session's
  next one (`store.go:244`).
* **Live sync.** "Concurrent edits to different nodes lose nothing, ever" (`livesync.go:17-19`), but an event
  that deletes a node, or moves it below what is not loaded, forgets everything shown below it with the texts and the
  new nodes nobody has saved (`livesync.go:374-390`), and the node itself when it is edited but not moved (`:359-362`);
  `EditsGoOnlySo` names these and no others. A node the user moved below one that is then dropped is no longer shown,
  though it is stored elsewhere; a branch moved in from outside shows its top alone until the next resync; a node that
  stands at another index, or would go below itself, keeps its old place, and the next save puts it back there with
  the text it has here, perhaps over another client's that is still on its way. A Temporary Domain that fails to load
  in a resync stays as it was without a word (`:469-474`). Each node concerned is in `hole`.
* **Editor tree.** Undo after a graft, a bring-in or a move out tombstones what was never deleted; indenting under
  a mirror whose source lies below the node makes a cycle; the undo stacks are kept across entering and leaving
  the Temporary Domain (`Careless` names these and what goes with them). Backspace where an unfolded mirror of an
  ancestor ends in the row itself, or in one below it, merges the row into what goes with it, and leaves its
  children live under a tombstone (`keys.go` 1024). What is typed after the node one has zoomed into was moved
  out through a mirror is not saved. A grafted source that has been moved into the tree is still
  written as a root after it was written as a row, "the roots keep their DB position" (`model.go` 1046): a save
  with a change of its text puts it back where it came from (`Adopted`).
* **Typing.** Styled runs stay behind where chips are made with space, enter, `$$`, `[[`, `((`, `@@` or ctrl+t,
  where ctrl+w takes a chip, at splits, merges, pastes of several lines, undo and esc in a note; arrows and
  backspace in a note go into an anchor; ctrl+w in a note leaves the record; positions of a selection
  survive a live sync that moves the text.
* **Menus.** On a mirror row the `#` and `:` completers, `[[` and `$$` act on the source in one key and on the
  mirror's own hidden name in the next; an insert refused in a note leaves `noteRich` set, and the next completer
  opened in the outline writes into the note; when a pull drops a row under an open menu, the row that takes its
  place is written to; a completion never shifts styled runs; a rune typed right after
  `#` that is no letter is swallowed; the finder's backspace cuts a byte of a rune.
* **Wrapping.** A cluster wider than the line loops for ever; `caretAtColumn` on a shorter line returns the start
  of the next (comment `editor.go` 1893-1894); `hscrollFor` answers a column beyond what its comment says when
  `from > 0`; what `bodyCaretCol` measures of a chip is not what its comment says; a leading space or a glyph of
  two columns makes the drawing and the caret disagree on where a line ends.
* **Frame.** The bar is not the last line of every frame, as the warning at `view.go:622-626` says ("never emit
  content below it") and `view.go:417-418` and `temp.go:9` repeat: the Temporary Domain's panel is drawn below it
  (`view.go:560-568`, and so says `editor.go:180`); only a frame without the panel ends with the bar, which
  `BarEndsTheFrame` checks, and `BothRegionsAreShown` checks what the others draw instead. `/settings` draws 7 lines where 3 are reserved (`view.go:207`); the bar is cut on tiny terminals; the
  lines of a row cut at the top are numbered from the first that is visible; a crumb pressed while the Temporary
  Domain has the focus moves the cursor to row 0; the two regions share one `viewTop`.
* **Ghost rows.** A proposal's event alone reloads the queue without laying the rows anew; a cursor on a ghost
  keeps only its index; any failing `GetNode` counts as a node that is gone; only the first proposal of a node is
  walked to.
* **Table.** The caret of a cell counts the runes that are shown, an edit the runes that are stored: in a cell that
  stores newlines, tabs or other control bytes, which a paste into the grid puts there, what is typed lands further
  left than the caret is drawn, and backspace takes another rune (`table.go:691`, `:671`; `tableCellEditable`,
  `:180-188`, says such a text is refused, and compares stripped with stripped);
  the row armed by alt+d is a number that a pull between the two presses turns into another row;
  a column shown twice through a mirror loses two rows; locked columns are passed over, so rows no longer align.
* **Query.** `-word` and `not word` are dropped in silence; a stray `)` or `,` ends the parse; a mirror the user
  puts under a query is taken for a hit.
* **Pulls.** "The read is a snapshot copy" (`zotero.go:560`) only when Zotero's own file cannot be opened as it is;
  else it is queried as it changes, so an object that moves between two queries is listed twice or not at all. A
  query for annotations that fails reads as none (`zotero_details.go:329`), and those that were there are
  tombstoned. A truncated listing (500 nodes) drops what it does not list; notes of the user under a mirrored node
  that has moved or gone are tombstoned; a moved node loses its identity; undo does not bring bindings back;
  `dropZoteroSubtree` tombstones only the top.
* **Chips.** Undo deletes records that another client has made since; collecting at quit takes a chip that another
  editor has not stored yet; node_output rows of collected sessions stay; esc in a note leaves records.
* **Runs.** A message names the node, not the session, so one on its way lands in the next run; a failed launch's
  line is hidden by the empty screen; undo brings an older node_output back under a newer band; `deleteChipID`
  leaves the process running, where nothing shows it and until an undo brings the chip back no key stops it, and
  its end writes the row again that went with the chip (chip.go 498-501 says nothing can reach it); quitting kills runs without saving them.
* **Multiplexer, screen.** A killed session usually just closes its channel, though `session.go` 105-107 says it
  still delivers Done; a query longer than the overlap and split over reads is missed; queries of one chunk are
  answered kind by kind; deferred wrap survives most cursor movements; a half overwritten wide character leaves
  its other half; a reset or `CSI 3 J` on the alternate screen touches the main one.
* **Sessions.** An abandoned walk can block for ever on a full channel (`agentpicker.go` 24-27 says it cannot); a
  record that straddles the 64 KiB border is cut (`agentstore.go` 366-367); the tail drops its first line even when
  it starts on a border; the picker's selection is an index into a list that is sorted again.
* **Mobile app.** A box opened and not changed leaves its node dirty for ever; an answer or a refetch can put back
  what a newer event said; a failed request's optimistic change stays; saves may arrive out of order; an undo while
  the box is open is put back when it closes; the stream is opened after the outline was read; a box left on the
  text that a stale row already shows is not saved, and one that the answer to a new row takes away is not either
  when its text is what it began with, though another has been saved in between; after a failed first load what the
  stream loses is not asked for.
* **Clipboard.** "lflow to lflow still round-trips" (`clipboard.go` 33-34) does not hold for a single childless
  row, several roots, spacers in a branch, rows of several lines, dividers with names, empty rows; cutting a mirror
  with its shown children deletes the source's; a paste refused half way drops the rest; fusing a selection may
  delete the block itself; "exact inverse" (`code.go:426`) needs steps of two spaces.
* **Files.** A program's write between the check and the rename is lost, and a write after the rename can be taken
  for one's own; a check whose `os.Stat` fails for whatever reason is skipped and the save goes over what is there
  (`open.go` 176); when the stat after the rename fails the session takes its own write for another's, and every
  further save refuses (`open.go` 210); "byte-identically" (`markdown.go`) fails for generated code, tables without columns, paragraphs
  with children before a list, empty items, code under a list item; rows under cells and notes are not written.
* **Flash.** A space cannot be typed; a label's letter can extend the search when matches overlap or letters run
  out (comment `flash.go` 21-22); rows laid anew leave the labels' numbers stale.
* **Calculator.** A question's beginning is stripped once; the limit of depth does not count signs.

## Proofs

`tlapm` checks every leaf. Assumptions are those the modules name: sets of identities do not overlap,
bounds are naturals, offers and the initial outline are well typed, `Nodes` is finite. `InitTreeIsWhole` says that
the nodes table a behaviour starts from has no live row under a deleted one; `AloneAssumption` and `InitTreeIsATree`
that it is a tree with distinct ranks and that requests name other nodes than the root (see the gap above). Sessions
are filed under numbers, so `NoSession` is none. `MenuAssumption`: an outline has a row, mirrors stand for rows that
are no mirrors, and texts are of runes.

* `StoreProofs`. `LockInv` is inductive (`LockInvariance`), for any number of sessions,
  identities, subscribers and rows. `OneHolder` alone is not: that `mu` is locked says nothing
  about who will unlock it. `LockInv` ties the lock to the one process inside its section or the one open
  transaction, the transaction to its owner, timer and changeLog, the connection to the transaction or to
  the goroutine that is ending it, and the hook to the holder; each part is what another part's step
  needs. On it rest `LedgerInvariance` (which writes belong to whom; `StrayOnlyAfterWatchdogs`), `FeedInvariance`
  (where each subscriber's channel lies in the history; `FeedTellsTheTruth`) and the step refinement
  `StoreImplementsFeed`.
* `ProcessProofs`, the daemon. Whoever has the file's daemon, a lock and a place in `Ensure` is tied together so that
  `DaemonIsAlwaysFound`; with it `TwoDaemonsOnlyWhenTorn`: two daemons serve only after `waitGone` has removed a
  file outside the lock.
* `ProcessProofs`, the terminals (`TerminalsAlwaysServed`), for any number of sessions, channels of any capacity and
  any stream. What a session printed lies in one line: what the owner got, the events, the batch, the chunks, what
  is on the terminal (`InLine`, a `Chain` of pieces each of which starts where the last one ended); a killed session's
  line may break off behind what was sent. `Leaving` says who has left and why, so that of a session that is over
  someone can go on (`CanGoOn`). A query lies between two offsets (`Laid`, by induction over the stream);
  what is kept of earlier chunks is all of them or at least the longest query but a byte, and only a match that
  ends in the new chunk counts, so each query is matched in exactly one chunk (`MatchesOfOne`).
* `OutlineProofs`. Four things can happen to a suggestion in a step (`QueueStep`): it stays, is proposed,
  is turned down while pending, or is approved while pending and applicable, its count going up by one. From this
  follow `AppliedExactlyOnce`, `VerdictStands` and, with every writer,
  `OutlineVerdictsHold`. `DeletesSettle` and `ApprovalsAlwaysHold` need that a delete's subtree is
  closed (`SubtreeIsClosed`, `DeleteLeavesNoOrphan`): `Subtree` is a recursive function on `0..Cardinality(Nodes)`,
  and that its last value is closed is counting, by induction over naturals in the form of sets (`NumberProofs`).
  `OrderIsKept` looks at every write of every handler and command: a row gets another rank or parent only in the
  step that is about it, or with all of its siblings by the same amount, so no step turns two others round.
* `AloneProofs`, about `MCAlone`: requests, or commands, one after another (`OneAtATimeKeepsTheTree`,
  `OneAtATimeLandsRight`). That there is no cycle is said of sets: no set of nodes is such that the parent of each
  is in it (`Grounded`). The walk up from a new parent leaves a set of rows behind that holds those above the
  parent and not the node to be moved (`Climbed`), and that is why the move closes no cycle. Ranks: a request takes a rank that is free, or
  one that every row behind the place has been shifted out of, and where that rank lies among the others (`AtAnEnd`,
  `Aims`) is where the row lands. A command killed between its shift and its write leaves a gap, which is no harm. Both need that nothing else writes: with two requests in flight
  `TreeIsSound` is false (see above), so the theorem is about one at a time and says so.
* `LiveSyncProofs`, for any outline. `LiveInv` says, for every node outside `hole`, what the last event on the wire
  says of it, or the last queued one, or what the editor has read; and `SoundAt`, that the ghost `typed` is what is
  dirty. What one row does to the trees is a lemma for each of its outcomes (taken in, missed, dropped with what is
  below it, adopted); that folding a queue in keeps the rest is an induction over the queue. `EditsAreAlwaysSafe`, of
  steps too, and `AtRestTheStoreIsShown` follow. `OutlineIsShown`, of places, is model-checked.
* `EditorProofs`, chips (`ChipsAlwaysFollow`). Every picture on the undo stack is whole, every anchor in it has a record
  in the picture, and each session's chip is filed as the CLI called it.
* `RunsProofs` (`RunsAreAlwaysAccountedFor`). Every session still to be heard has exactly one token: a waiting
  command, or a message. What it printed lies in order on the screen, in the message, in the channel and in the
  stream; the run in flight is the last one and the filed one. That no more tokens are handed on than sessions have
  started is a sum, counted through an existing sum function.
* `EditorProofs`, the file session (`SavesLoseNothingEver`).
* `EditorProofs`, the menus (`MenusAlwaysTakeBack`), for any outline, texts of any length and any number of keys.
  That a menu takes back its own cannot be inductive: nothing in it says what the text under an open menu is.
  `SlashIsThere` and `ComplIsThere` do: it is the old text with what has been typed in one place, from where the
  menu was opened to the caret. `NoteIsKept` says what esc will restore, and `RichIsOver` when `noteRich` may be set.
  Below these lie lemmas of one text put into another and cut out of it (`PlacedInside`, `TakenInside`), and of tags
  that become chips (`ChippedInside`, `CommittedIsText`).

Model-checked only, and why:

* everything under fairness (`EveryRequestEnds`, `NoneWaitsForEver`, `EditorHears`): liveness;
* the modules with RECURSIVE operators (`Calc`, `Clipboard`, `Ghosts`, `Query`, `Table`): the prover loses its SMT
  backend there;
* `FilesReopenTheSame`, `FlashLandsWhereItSays`, `AgentsAreFound`: each says what a parser or a writer computes by
  folding over its whole input, that is, induction over data for every operator;
* `TreesAreSound`, `StoredIsShown`: every key goes through folds over the children and the subtrees of a row, in the
  trees and in each picture on the undo stack, so that each of about forty operations would need its own induction;
* `PhoneIsTrue` and the rest of `Editor` and `Around`: no argument has been worked out that goes beyond the model
  checker's; most rest on folds over texts, lines or rows.

## Not modelled

* `LiveSync` leaves open which index among its siblings a node has, and leaves out mirrors, grafted sources, the second
  tree, undo and view state; `Tree` leaves out columns that no
  property tells apart.
* Reading requests, encodings, logging and rendering.
* `lflow serve` run by hand while a client is starting a daemon: serve takes no spawn lock. `Lifecycle`
  has such a daemon from the start only. Time is left out: deadlines may pass at any moment.
* The parts listed as `not_modelled` in `PROJECT.json`, with reasons: formats of one node and their drawing (math,
  molecules, semantic look-ups), settings, styles, start-up, the wire's encoding.

## Plan

1. The order of siblings in `LiveSync` (`livesync.go:321`, `:350-357`): indexes against ranks, which are left open now.
2. `Driver`: requests in lockstep, `ErrBadConn` and the retry by `database/sql`, over `Store`.
3. Further proofs: the editor's tree (`TreesAreSound` needs a theory of `ItemTree`'s sequences of children) and the
   phone.
