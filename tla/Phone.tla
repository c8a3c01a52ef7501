-------------------------------- MODULE Phone --------------------------------
(***************************************************************************)
(* The outline as the phone keeps it (mobile/web/src/store.ts, with the    *)
(* text box of Row.tsx, App.tsx and the subscription of api.ts): a map of  *)
(* nodes, filled by a request for the whole outline and kept up by the     *)
(* event stream.  Local writes show at once; the request and its answer    *)
(* follow.  A node with an edit begun is dirty: events about it are        *)
(* skipped.                                                                *)
(*                                                                         *)
(* The server answers a request in one step (module HttpApi has them); the *)
(* requests of a phone are handled in any order, and so are the answers.   *)
(* Order among siblings is left out.                                       *)
(***************************************************************************)
EXTENDS Integers, SequencesExt, FiniteSetsExt

CONSTANTS
    Nodes,     \* the uuids there can be
    Root,      \* ... the root among them, which is always there
    Texts,     \* what a name or a note can say
    Empty,     \* the empty text
    Marks,     \* what else a node can be: its type, style, completion and so on
    Plain,     \* ... of a new node
    NoRow,     \* a uuid nobody has used, or a node the phone does not have
    Closed,    \* no text box is open
    InitTable, \* the nodes table at the start
    MaxUndo,   \* the depth of the undo stack (200 in the code)
    MaxCalls,  \* bound: requests under way
    MaxEvents, \* bound: events on their way
    MaxSteps   \* bound: what the user and the other clients do

Fields == {"name", "note", "mark"}
Row    == [name : Texts, note : Texts, mark : Marks, parent : Nodes \cup {NoRow}, dead : BOOLEAN]

ASSUME PhoneAssumption ==
    /\ Root \in Nodes /\ Empty \in Texts /\ Plain \in Marks /\ NoRow \notin Nodes
    /\ InitTable \in [Nodes -> Row \cup {NoRow}] /\ InitTable[Root] # NoRow
    /\ {MaxUndo, MaxCalls, MaxEvents, MaxSteps} \subseteq Nat

VARIABLES
    table,       \* the nodes table of the daemon
    sub, events, \* the event stream: "off", "asked" or "on", and what is on its way
    calls,       \* the requests without an answer yet
    cache,       \* nodes: what the phone has of each node
    dirty, live, loaded, undoStack, redoStack,   \* fields of OutlineStore
    box,         \* the open text box: its node and field, the text it began with, the text now
    typed,       \* ghost: the text the user gave last to a field of a node, while nobody else has
    shared,      \* ghost: the nodes whose text has come from elsewhere since it was loaded
    hole,        \* ghost: the nodes the phone may show as they are not
    moves

server == <<table, sub, events>>
stacks == <<undoStack, redoStack>>
ghosts == <<typed, shared, hole>>
phoneVars == <<server, calls, cache, dirty, live, loaded, stacks, box, ghosts, moves>>

Alive(t, n) == IF t[n] = NoRow THEN FALSE ELSE ~t[n].dead
Outline(t)  == [n \in Nodes |-> IF Alive(t, n) THEN t[n] ELSE NoRow]
Children(t, p) == {n \in Nodes : Alive(t, n) /\ t[n].parent = p}
Subtree(t, n) ==
    LET grow[S \in SUBSET Nodes] ==
            LET U == S \cup UNION {Children(t, m) : m \in S} IN IF U = S THEN S ELSE grow[U]
    IN  grow[{n}]

PhoneInit ==
    /\ table = InitTable /\ sub = "asked" /\ events = <<>>
    /\ calls = <<[op |-> "outline", st |-> "sent"]>>
    /\ cache = [n \in Nodes |-> NoRow] /\ dirty = {} /\ live = FALSE /\ loaded = FALSE
    /\ undoStack = <<>> /\ redoStack = <<>> /\ box = Closed
    /\ typed = <<>> /\ shared = {} /\ hole = {} /\ moves = 0

Move == moves < MaxSteps /\ moves' = moves + 1

-----------------------------------------------------------------------------
(* The server.                                                             *)

\* The phone has no outline yet, and none is still to be read for it: what the
\* stream does not bring, nothing will, as the phone asks again only once it has one.
Unheard == ~loaded /\ ~\E i \in DOMAIN calls : calls[i].op = "outline" /\ calls[i].st = "sent"
Lost    == IF Unheard THEN UNION {DOMAIN events[i].rows : i \in DOMAIN events} ELSE {}

\* A commit: the stream carries the rows that are not as they were, or is cut.
Commit(t, own) ==
    LET rows == [n \in {m \in Nodes : t[m] # table[m]} |-> t[n]]
    IN  /\ table' = t
        /\ IF sub = "on" /\ rows # <<>> /\ Len(events) < MaxEvents
           THEN events' = Append(events, [own |-> own, rows |-> rows]) /\ UNCHANGED <<sub, live, hole>>
           ELSE /\ hole' = hole \cup (IF Unheard THEN DOMAIN rows ELSE {}) \cup (IF rows = <<>> THEN {} ELSE Lost)
                /\ IF sub # "on" \/ rows = <<>> THEN UNCHANGED <<sub, events, live>>
                   ELSE sub' = "off" /\ events' = <<>> /\ live' = FALSE

\* Another client writes a node.
Others(n, row) ==
    /\ Move /\ n # Root /\ Alive(table, n) /\ row # table[n]
    /\ Commit([table EXCEPT ![n] = row], FALSE)
    /\ typed' = [k \in DOMAIN typed \ ({n} \X Fields) |-> typed[k]] /\ shared' = shared \cup {n}
    /\ UNCHANGED <<calls, cache, dirty, loaded, stacks, box>>

\* What a request makes of the table.
Written(t, c) ==
    CASE c.op = "patch"  -> [t EXCEPT ![c.node][c.field] = c.value]
      [] c.op = "move"   -> IF c.parent \in Subtree(t, c.node) THEN t ELSE [t EXCEPT ![c.node].parent = c.parent]
      [] c.op = "remove" -> [n \in Nodes |-> IF n \in Subtree(t, c.node) THEN [t[n] EXCEPT !.dead = TRUE] ELSE t[n]]
      [] c.op = "create" -> [t EXCEPT ![c.node] = [name |-> Empty, note |-> Empty, mark |-> Plain,
                                                   parent |-> c.parent, dead |-> FALSE]]
      [] OTHER           -> t

Fresh == CHOOSE n \in Nodes : table[n] = NoRow

Without(k) == [l \in DOMAIN typed \ {k} |-> typed[l]]

\* A patch of the same field that was sent before the ith is still on its way.
Overtakes(i) ==
    \E j \in 1..(i - 1) :
      /\ calls[j].st = "sent" /\ calls[j].op = "patch" /\ calls[i].op = "patch"
      /\ <<calls[j].node, calls[j].field>> = <<calls[i].node, calls[i].field>>

Handle(i) ==
    LET c    == calls[i]
        made == IF c.op = "create" THEN c @@ [node |-> Fresh] ELSE c
        t    == Written(table, made)
    IN  /\ c.st = "sent"
        /\ c.op = "create" => \E n \in Nodes : table[n] = NoRow
        /\ Commit(t, TRUE)
        /\ calls' = [calls EXCEPT ![i] =
                        (IF c.op = "outline" THEN [rows |-> Outline(t)] ELSE [row |-> t[made.node]]) @@ [st |-> "done"] @@ made]
        /\ typed' = IF Overtakes(i) THEN Without(<<c.node, c.field>>) ELSE typed
        /\ UNCHANGED <<cache, dirty, loaded, stacks, box, shared, moves>>

-----------------------------------------------------------------------------
(* Local writes: s is what the phone has, and what it asks for next.       *)

\* The open box is that of n.
On(n) == IF box = Closed THEN FALSE ELSE box.node = n

Now == [cache |-> cache, undo |-> undoStack, redo |-> redoStack, box |-> box, out |-> <<>>, dirty |-> dirty]
Over(waiting, s) ==
    /\ cache' = s.cache /\ undoStack' = s.undo /\ redoStack' = s.redo /\ box' = s.box /\ dirty' = s.dirty
    /\ Len(waiting) + Len(s.out) <= MaxCalls
    /\ calls' = waiting \o [i \in DOMAIN s.out |-> s.out[i] @@ [st |-> "sent"]]
Local(s) == Over(calls, s)

Ask(s, c) == [s EXCEPT !.out = Append(@, c)]

\* A box that opens on an older text than the user's last puts that text back.
Seen(s, t) ==
    IF s.box = Closed THEN t
    ELSE [k \in {l \in DOMAIN t : l = <<s.box.node, s.box.field>> => t[l] = s.box.text} |-> t[k]]

\* patchLocal, and the request.
Patched(s, n, f, v, by) ==
    Ask([s EXCEPT !.cache = IF @[n] = NoRow THEN @ ELSE [@ EXCEPT ![n][f] = v]],
        [op |-> "patch", node |-> n, field |-> f, value |-> v, by |-> by])

\* pushUndo.
Pushed(s, n, f, v) ==
    IF s.cache[n] = NoRow THEN s
    ELSE IF s.cache[n][f] = v THEN s
    ELSE [s EXCEPT !.undo = Append(IF Len(@) = MaxUndo THEN Tail(@) ELSE @,
                                   [node |-> n, field |-> f, before |-> s.cache[n][f], after |-> v]),
                   !.redo = <<>>]

\* setName and setNote.
Saved(s, n, f, v) == Patched(Pushed(s, n, f, v), n, f, v, "save")

\* The box loses the focus: what is in it is saved unless the row has it already.
Blurred(s) ==
    LET b == s.box
    IN  IF b = Closed THEN s
        ELSE LET u == [s EXCEPT !.box.due = FALSE]
             IN  IF u.cache[b.node] = NoRow THEN u
                 ELSE IF u.cache[b.node][b.field] = b.text THEN u ELSE Saved(u, b.node, b.field, b.text)

\* The box goes: what is in it is saved unless it is what the box began with.
Unmounted(s) ==
    LET b == s.box
    IN  IF b = Closed THEN s
        ELSE LET u == [s EXCEPT !.box = Closed]
             IN  IF b.text = b.base THEN u ELSE Saved(u, b.node, b.field, b.text)

\* A box for the field f of n, with markDirty.
Opened(s, n, f) ==
    LET u == Unmounted(s)
    IN  [u EXCEPT !.dirty = @ \cup {n},
                  !.box = [node |-> n, field |-> f, base |-> u.cache[n][f], text |-> u.cache[n][f], due |-> FALSE]]

\* The subtree of n goes, as far as the phone has it.
Dropped(s, n) ==
    LET S == Subtree(s.cache, n)
        u == [s EXCEPT !.cache = [m \in Nodes |-> IF m \in S THEN NoRow ELSE @[m]]]
    IN  Ask(u, [op |-> "remove", node |-> n])

\* What the table has in a field once the patches on their way are in.
Settled(k) ==
    LET i == SelectLastInSeq(calls, LAMBDA c : c.st = "sent" /\ c.op = "patch" /\ <<c.node, c.field>> = k)
    IN  IF i = 0 THEN table[k[1]][k[2]] ELSE calls[i].value

\* The box is left with a text not saved yet, and nothing is sent, as the row has that
\* same text by an older answer, or the box began with it: the table keeps another one.
Forgets(s) ==
    /\ box # Closed
    /\ box.due /\ (s.box = Closed \/ ~s.box.due)
    /\ \A i \in DOMAIN s.out : s.out[i].op = "patch" => <<s.out[i].node, s.out[i].field>> # <<box.node, box.field>>
    /\ Settled(<<box.node, box.field>>) # box.text

\* What is left of t, the texts the user gave, when s is where the phone goes.
StillTyped(s, t) == Seen(s, [k \in {l \in DOMAIN t : Forgets(s) => l # <<box.node, box.field>>} |-> t[k]])

\* The row of the open box has gone, and the box with it.
Boxed(s) == IF \E n \in Nodes : On(n) /\ s.cache[n] = NoRow THEN Unmounted(s) ELSE s

-----------------------------------------------------------------------------
(* The store.                                                              *)

\* A remote version of n that the stream is still to bring.
Coming(n) == sub = "on" /\ \E i \in DOMAIN events : n \in DOMAIN events[i].rows
\* ... and the nodes that may be older in m than in the table with none to come.
Stale(m, S) == {n \in S : m[n] # Outline(table)[n] /\ ~Coming(n)}

\* What has come takes the place of what the phone had.
Replaced == shared' = shared \cup {n \in Nodes : cache[n] # NoRow /\ cache'[n] # cache[n]}

Skips(e, n) == n \in dirty /\ ~e.own

\* applyEvent.
Receive ==
    LET e == Head(events)
        S == {n \in DOMAIN e.rows : ~Skips(e, n)}
        rows == [n \in Nodes |-> IF n \in S THEN (IF e.rows[n].dead THEN NoRow ELSE e.rows[n]) ELSE cache[n]]
        s == Boxed([Now EXCEPT !.cache = rows])
    IN  /\ live /\ events # <<>> /\ events' = Tail(events)
        /\ Local(s) /\ typed' = StillTyped(s, typed)
        /\ hole' = (hole \ S) \cup (DOMAIN e.rows \ S) /\ Replaced
        /\ UNCHANGED <<table, sub, live, loaded, moves>>

\* The answer to the ith request arrives, and the promise goes on.
Answered(i) == calls[i].st = "done" /\ calls' = RemoveAt(calls, i)

\* refresh: what the phone had goes.
AnswerOutline(i) ==
    /\ calls[i].st = "done" /\ calls[i].op = "outline"
    /\ LET s == Boxed([Now EXCEPT !.cache = calls[i].rows])
       IN  Over(RemoveAt(calls, i), s) /\ typed' = StillTyped(s, typed)
    /\ loaded' = TRUE
    /\ hole' = (hole \ {n \in Nodes : cache'[n] = Outline(table)[n]}) \cup Stale(cache', Nodes)
    /\ Replaced /\ UNCHANGED <<server, live, moves>>

\* The shield goes with the answer to the edit.
Cleared(c) == IF c.field \in {"name", "note"} THEN dirty \ {c.node} ELSE dirty

\* setName takes the whole fresh row over, setNote and the marks do not.
AnswerPatch(i) ==
    LET c == calls[i]
    IN  /\ Answered(i) /\ c.op = "patch"
        /\ dirty' = IF c.by = "save" THEN Cleared(c) ELSE dirty
        /\ cache' = IF c.by = "save" /\ c.field = "name" /\ cache[c.node] # NoRow
                    THEN [cache EXCEPT ![c.node] = c.row] ELSE cache
        /\ hole' = hole \cup (IF cache' # cache THEN Stale(cache', {c.node}) ELSE {})
        /\ Replaced /\ UNCHANGED <<server, live, loaded, stacks, box, typed, moves>>

AnswerMove(i) ==
    LET c == calls[i]
    IN  /\ Answered(i) /\ c.op = "move"
        /\ cache' = IF cache[c.node] = NoRow THEN cache ELSE [cache EXCEPT ![c.node] = c.row]
        /\ hole' = hole \cup Stale(cache', {c.node}) /\ Replaced
        /\ UNCHANGED <<server, dirty, live, loaded, stacks, box, typed, moves>>

AnswerRemove(i) ==
    /\ Answered(i) /\ calls[i].op = "remove"
    /\ UNCHANGED <<server, cache, dirty, live, loaded, stacks, box, ghosts, moves>>

\* A request fails: what it showed in advance stays, and nobody tries again.
Fails(i) ==
    LET c == calls[i]
    IN  /\ Move /\ calls' = RemoveAt(calls, i)
        /\ hole' = CASE c.op \in {"patch", "move"} -> hole \cup {c.node}
                     [] c.op = "remove"  -> hole \cup Subtree(table, c.node)
                     [] c.op = "create"  -> hole
                     [] c.op = "outline" -> Nodes
        /\ typed' = IF c.op = "patch" THEN Without(<<c.node, c.field>>) ELSE typed
        /\ UNCHANGED <<server, cache, dirty, live, loaded, stacks, box, shared>>

\* The new node, and a box for it when the user is to type into it.
AnswerCreate(i) ==
    LET c == calls[i]
        s == [Now EXCEPT !.cache[c.node] = c.row]
        u == IF c.edit THEN Opened(s, c.node, "name") ELSE s
    IN  /\ c.st = "done" /\ c.op = "create"
        /\ Over(RemoveAt(calls, i), u) /\ typed' = StillTyped(u, typed)
        /\ hole' = hole \cup Stale(s.cache, {c.node})
        /\ UNCHANGED <<server, live, loaded, shared, moves>>

-----------------------------------------------------------------------------
(* The stream.                                                             *)

\* The server has taken the subscription; onopen comes after it.
Register == sub = "asked" /\ sub' = "on" /\ UNCHANGED <<table, events, calls, cache, dirty, live, loaded, stacks, box, ghosts, moves>>

\* Mutant: what was missed is not asked for.
NoResync == <<>>

Resync == IF loaded THEN <<[op |-> "outline", st |-> "sent"]>> ELSE <<>>

\* onopen: a gap is filled by asking for everything, unless nothing has been loaded yet.
OnOpen ==
    /\ sub = "on" /\ ~live /\ live' = TRUE
    /\ Len(calls) + Len(Resync) <= MaxCalls /\ calls' = calls \o Resync
    /\ UNCHANGED <<server, cache, dirty, loaded, stacks, box, ghosts, moves>>

\* The connection is lost, with what is on its way.
Cut ==
    /\ Move /\ sub = "on" /\ sub' = "off" /\ events' = <<>> /\ live' = FALSE
    /\ hole' = hole \cup Lost
    /\ UNCHANGED <<table, calls, cache, dirty, loaded, stacks, box, typed, shared>>

Reconnect == sub = "off" /\ sub' = "asked" /\ UNCHANGED <<table, events, calls, cache, dirty, live, loaded, stacks, box, ghosts, moves>>

-----------------------------------------------------------------------------
(* The user.                                                               *)

Has(n) == loaded /\ cache[n] # NoRow

Does(s, t) ==
    /\ Move /\ Local(s)
    /\ typed' = StillTyped(s, t)
    /\ UNCHANGED <<server, live, loaded, shared, hole>>
Gives(n, f, v) == <<n, f>> :> v @@ typed

\* A tap on a name or a note; what is open loses the focus and goes.
StartEdit(n, f) == Has(n) /\ n # Root /\ Does(Opened(Blurred(Now), n, f), typed)

TypeText(v) ==
    /\ box # Closed /\ v # box.text
    /\ Does([Now EXCEPT !.box.text = v, !.box.due = TRUE], Gives(box.node, box.field, v))

\* 800 ms after the last key.
Debounce ==
    /\ box # Closed /\ box.due
    /\ Local(Saved([Now EXCEPT !.box.due = FALSE], box.node, box.field, box.text))
    /\ UNCHANGED <<server, live, loaded, ghosts, moves>>

Close == box # Closed /\ Does(Unmounted(Blurred(Now)), typed)

\* Enter saves and asks for a sibling; the box goes when it is there.
Enter ==
    /\ box # Closed /\ box.field = "name" /\ Has(box.node)
    /\ Does(Ask(Saved([Now EXCEPT !.box.due = FALSE], box.node, "name", box.text),
                [op |-> "create", parent |-> cache[box.node].parent, edit |-> TRUE]), typed)

AddNode(p) == Has(p) /\ Does(Ask(Blurred(Now), [op |-> "create", parent |-> p, edit |-> TRUE]), typed)

\* Backspace in an empty box: the node goes, and a sibling is next.
DeleteEmpty ==
    /\ box # Closed /\ box.field = "name" /\ box.text = Empty /\ Has(box.node)
    /\ Children(cache, box.node) = {}
    /\ LET s == Dropped(Now, box.node)
       IN  \/ Does(Unmounted(s), typed)
           \/ \E n \in Children(s.cache, cache[box.node].parent) : Does(Opened(s, n, "name"), typed)

\* The page title, or a widget, sets a text without a box.
SetText(n, f, v) ==
    /\ Has(n) /\ n # Root /\ cache[n][f] # v
    /\ ~On(n)
    /\ Does(Saved(Blurred(Now), n, f, v), Gives(n, f, v))

\* setType, setColor, setCompleted and their like.
SetMark(n, v) == Has(n) /\ cache[n].mark # v /\ Does(Patched(Blurred(Now), n, "mark", v, "mark"), typed)

\* indent and outdent show the move at once, the picker does not.
MoveNode(n, p, shown) ==
    LET s == Blurred(Now)
    IN  /\ Has(n) /\ n # Root /\ Has(p) /\ p \notin Subtree(cache, n) /\ p # cache[n].parent
        /\ Does(Ask(IF shown THEN [s EXCEPT !.cache[n].parent = p] ELSE s,
                    [op |-> "move", node |-> n, parent |-> p]), typed)

RemoveNode(n) ==
    /\ Has(n) /\ n # Root
    /\ LET s == Dropped(Blurred(Now), n)
       IN  Does(Boxed(s), typed)

\* The toolbar opens the note of the node that is being edited, without markDirty.
StartNote ==
    /\ box # Closed /\ box.field = "name" /\ Has(box.node)
    /\ Does([Opened(Blurred(Now), box.node, "note") EXCEPT !.dirty = dirty], typed)

\* undo and redo.  An open box still has the text that is undone, and puts it back.
Rewind(s, e, v) ==
    Does(Patched(s, e.node, e.field, v, "undo"),
         Gives(e.node, e.field, v))

Undo ==
    LET s == Blurred(Now)
        e == Last(s.undo)
    IN  s.undo # <<>> /\ Rewind([s EXCEPT !.undo = Front(@), !.redo = Append(@, e)], e, e.before)

Redo ==
    LET s == Blurred(Now)
        e == Last(s.redo)
    IN  s.redo # <<>> /\ Rewind([s EXCEPT !.redo = Front(@), !.undo = Append(@, e)], e, e.after)

-----------------------------------------------------------------------------
Rows == {n \in Nodes : table[n] # NoRow}
Elsewhere ==
    \/ \E n \in Rows, v \in Texts : Others(n, [table[n] EXCEPT !.name = v])
    \/ \E n \in Rows, v \in Marks : Others(n, [table[n] EXCEPT !.mark = v])
    \/ \E n \in Rows : Children(table, n) = {} /\ Others(n, [table[n] EXCEPT !.dead = TRUE])
Mishaps   == Cut \/ \E i \in DOMAIN calls : Fails(i)
Serving   == Register \/ \E i \in DOMAIN calls : Handle(i)
OfStore   ==
    \/ \E i \in DOMAIN calls : AnswerOutline(i) \/ AnswerPatch(i) \/ AnswerMove(i) \/ AnswerRemove(i) \/ AnswerCreate(i)
    \/ Receive \/ OnOpen \/ Reconnect \/ Debounce
Typing    == Close \/ (\E v \in Texts : TypeText(v)) \/ \E n \in Nodes : StartEdit(n, "name")
Noting    == StartNote \/ \E n \in Nodes : StartEdit(n, "note")
Making    == Enter \/ DeleteEmpty \/ \E n \in Nodes : AddNode(n)
Setting   == \E n \in Nodes : (\E f \in {"name", "note"}, v \in Texts : SetText(n, f, v)) \/ \E v \in Marks : SetMark(n, v)
Shaping   == \E n \in Nodes : RemoveNode(n) \/ \E p \in Nodes, shown \in BOOLEAN : MoveNode(n, p, shown)
Rewinding == Undo \/ Redo

PhoneNext == Elsewhere \/ Mishaps \/ Serving \/ OfStore \/ Typing \/ Noting \/ Making \/ Setting \/ Shaping \/ Rewinding
PhoneSpec == PhoneInit /\ [][PhoneNext]_phoneVars

-----------------------------------------------------------------------------
PhoneTypeOK ==
    /\ table \in [Nodes -> Row \cup {NoRow}] /\ cache \in [Nodes -> Row \cup {NoRow}]
    /\ sub \in {"off", "asked", "on"} /\ live \in BOOLEAN /\ loaded \in BOOLEAN
    /\ UNION {dirty, shared, hole} \subseteq Nodes /\ DOMAIN typed \subseteq Nodes \X Fields
    /\ Len(undoStack) <= MaxUndo
    /\ \A i \in DOMAIN undoStack : undoStack[i].before # undoStack[i].after

\* Nothing is on its way in either direction.
AtRest == calls = <<>> /\ events = <<>> /\ live

\* At rest the phone shows the outline as it is stored, but for the nodes in hole:
\* an event skipped over an edit begun, an answer older than the events before it,
\* requests that failed, a stream opened after the first load.
PhoneShowsTheTable == AtRest => \A n \in Nodes \ hole : cache[n] = Outline(table)[n]

\* What the user has typed or undone on the phone is stored once the text box is
\* closed and the requests are answered, unless somebody else wrote the node since,
\* a request failed, an older one of the same field came in behind it, a box was
\* open on another text, or what was typed was back at the text the row had, or the box
\* began with, before it was saved.
TypedIsStored ==
    AtRest /\ box = Closed =>
        \A k \in DOMAIN typed :
            Alive(table, k[1]) => table[k[1]][k[2]] = typed[k]

LastOf(stack, k) == SelectLastInSeq(stack, LAMBDA e : <<e.node, e.field>> = k)

\* Undo starts from the text that is there, and so does redo.
UndoStartsFromTheText ==
    AtRest /\ box = Closed =>
        \A k \in DOMAIN typed :
            k[1] \notin hole \cup shared /\ cache[k[1]] # NoRow =>
                /\ LastOf(undoStack, k) > 0 => undoStack[LastOf(undoStack, k)].after = typed[k]
                /\ LastOf(redoStack, k) > 0 => redoStack[LastOf(redoStack, k)].before = typed[k]

\* What is typed on the phone is stored, what it shows at rest is what is stored, after missed events as well, and an
\* undo starts from the text that is there (store.ts:35, store.ts:192, store.ts:66).
PhoneIsTrue == PhoneTypeOK /\ PhoneShowsTheTable /\ TypedIsStored /\ UndoStartsFromTheText
=============================================================================
