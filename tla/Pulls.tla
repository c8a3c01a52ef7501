-------------------------------- MODULE Pulls --------------------------------
(***************************************************************************)
(* Mirrors of a remote tree (tui/editor/workflowy.go, zotero.go,           *)
(* tui/integrations): a Workflowy node and a Zotero entry are read listing *)
(* by listing while others change them, and the answer is reconciled with  *)
(* what an earlier pull made, by the bindings of the nodes to the objects. *)
(* Meanwhile the user works on: moves, deletes, undoes, adds a note of his *)
(* own in the mirror, goes to the Temporary Domain.                        *)
(*                                                                         *)
(* A node is <<path, generation>>: the path of the object it was made for, *)
(* and how often one was made for that path.  The root is <<<<>>, 0>>.     *)
(***************************************************************************)
EXTENDS Integers, SequencesExt, FiniteSetsExt

CONSTANTS
    Objects,    \* ids at the service
    Papers,     \* those that are attachments at Zotero
    Notes,      \* those that are notes there; the others are marks in an attachment
    Top, Away,  \* the parent of what lies at the top, and of what is not there
    MaxFetch,   \* integrations.MaxFetch, the root included
    RemoteStarts, \* bound: where the objects are at first
    MaxPullSteps \* bound: pulls, and what the user and the service do

ASSUME PullsAssumption ==
    /\ Papers \cup Notes \subseteq Objects /\ Papers \cap Notes = {}
    /\ {Top, Away} \cap Objects = {} /\ MaxFetch \in Nat \ {0} /\ MaxPullSteps \in Nat

VARIABLES
    service,   \* "workflowy" or "zotero"
    remote,    \* the parent of each object
    place,     \* the parent of each node that is in the tree
    bound,     \* wfMap, zoteroBindings: nodes with a binding
    rooted,    \* the root is in the tree
    rows,      \* nodes with a row that is not deleted
    snapshots,    \* the snapshots: nodes of the tree at the last save
    doomed,    \* tree.deleted
    pull,      \* the read under way, or its answer on its way
    library,   \* Model.zoteroLib and zoteroFill: there is one, one is being read
    waits,     \* zoteroWaiting: the root waits for the library
    away,      \* the user is in the Temporary Domain: m.tree is another tree
    pictures,  \* the undo stack
    blurred,   \* ghost: the user moved, deleted or undid, or a read saw an object twice
    strays,    \* ghost: what Zotero's answer takes off the screen and does not delete
    pulled,    \* ghost: what the answer just applied holds
    pullSteps

pullsVars == <<service, remote, place, bound, rooted, rows, snapshots, doomed, pull,
              library, waits, away, pictures, blurred, strays, pulled, pullSteps>>

TheRoot == <<<<>>, 0>>
Mine == <<<<"mine">>, 0>>
NoPull == [phase |-> "none", read |-> {}, queue |-> <<>>, cut |-> FALSE, copy |-> <<>>]

\* A request for those of `what` that lie at a path.
Asking(at, what) == [at |-> at, what |-> what]

Acts == pullSteps < MaxPullSteps /\ pullSteps' = pullSteps + 1
ChildrenAt(r, o) == {x \in Objects : r[x] = o}
Acyclic(r) ==
    LET Reach[k \in 0 .. Cardinality(Objects)] ==
            IF k = 0 THEN {Top, Away} ELSE LET above == Reach[k - 1] IN above \cup {x \in Objects : r[x] \in above}
    IN  Objects \subseteq Reach[Cardinality(Objects)]
Highlights == Objects \ (Papers \cup Notes)
\* At Zotero papers and notes lie at the top, and marks in a paper.
Shaped(r) ==
    service = "zotero" => \A x \in Objects : r[x] = Away \/ (IF x \in Highlights THEN r[x] \in Papers ELSE r[x] = Top)
Below(tree, ns) ==
    LET Reach[k \in 0 .. Cardinality(DOMAIN tree)] ==
            IF k = 0 THEN ns ELSE LET above == Reach[k - 1] IN above \cup {n \in DOMAIN tree : tree[n] \in above}
    IN  Reach[Cardinality(DOMAIN tree)]

PullsInit ==
    /\ service \in {"workflowy", "zotero"} /\ remote \in RemoteStarts /\ Shaped(remote)
    /\ place = [n \in {} |-> TheRoot] /\ bound = {TheRoot} /\ rooted = TRUE /\ rows = {} /\ snapshots = {} /\ doomed = {}
    /\ library = [have |-> FALSE, loading |-> FALSE] /\ waits = FALSE
    /\ pull = NoPull /\ away = FALSE /\ pictures = <<>>
    /\ blurred = FALSE /\ strays = {} /\ pulled = {} /\ pullSteps = 0

-----------------------------------------------------------------------------
(* A pull.                                                                 *)

\* wfBusy, zoteroBusy.
NotBusy == pull.phase = "none"

\* A read begins with nothing read.  Zotero's own file is read as it changes, or, where it cannot be opened, a copy of it
\* (openLibrary).
Reads ==
    LET begun == [NoPull EXCEPT !.phase = "reading", !.queue = IF service = "zotero" THEN <<Asking(<<>>, Papers), Asking(<<>>, Notes)>>
                                                             ELSE <<Asking(<<>>, Objects)>>]
    IN  \/ pull' = begun
        \/ service = "zotero" /\ pull' = [begun EXCEPT !.copy = <<remote>>]
ServedOrForgotten == FALSE

\* runWF; zoteroPull, which waits for the library when there is none.
StartPull ==
    /\ Acts /\ rooted /\ ~away /\ NotBusy /\ pulled' = {}
    /\ IF service = "workflowy" \/ library.have THEN Reads /\ UNCHANGED <<library, waits>>
       ELSE library' = [library EXCEPT !.loading = TRUE] /\ waits' = TRUE /\ UNCHANGED pull
    /\ UNCHANGED <<service, remote, place, bound, rooted, rows, snapshots, doomed, away, pictures, blurred, strays>>
\* openCitePicker: zoteroEnsure reads the library, also anew when it is stale.
OpenCitePicker ==
    /\ Acts /\ service = "zotero" /\ ~library.loading /\ pulled' = {}
    /\ library' = [library EXCEPT !.loading = TRUE]
    /\ UNCHANGED <<service, remote, place, bound, rooted, rows, snapshots, doomed, pull, waits, away, pictures, blurred, strays>>
\* handleZoteroLoaded.
LibraryLands ==
    /\ library.loading /\ waits' = ServedOrForgotten /\ pulled' = {}
    /\ \/ /\ library' = [have |-> TRUE, loading |-> FALSE]
          /\ IF waits /\ rooted /\ ~away /\ NotBusy THEN Reads ELSE UNCHANGED pull
       \/ library' = [library EXCEPT !.loading = FALSE] /\ UNCHANGED pull
    /\ UNCHANGED <<service, remote, place, bound, rooted, rows, snapshots, doomed, away, pictures, blurred, strays, pullSteps>>

\* The paths of an answer: at Zotero a lone paper has no row of its own (zoteroShape).
Wanted(read) ==
    LET papers == {p \in read : Len(p) = 1 /\ p[1] \in Papers}
    IN IF service = "zotero" /\ Cardinality(papers) = 1
       THEN {IF Len(p) = 2 THEN Tail(p) ELSE p : p \in read \ papers} ELSE read

\* The cap ends the read; a path that would visit an object twice is where others moved it.
Full(p) == p.cut \/ (service = "workflowy" /\ Cardinality(p.read) >= MaxFetch - 1 /\ p.queue # <<>>)
\* FetchSubtree: the children of one object after the other, level by level, up to the cap; and the queries of Details: the
\* papers, the marks of each, the notes.
Listed(ask) == ChildrenAt(IF pull.copy = <<>> THEN remote ELSE pull.copy[1], IF ask.at = <<>> THEN Top ELSE Last(ask.at)) \cap ask.what
Lists ==
    /\ pull.phase = "reading" /\ pull.queue # <<>> /\ ~Full(pull)
    /\ LET ask  == Head(pull.queue)
           kids == SetToSeq(Listed(ask))
           room == IF service = "zotero" THEN Len(kids) ELSE Min({Len(kids), MaxFetch - 1 - Cardinality(pull.read)})
           seen == [i \in 1 .. room |-> Append(ask.at, kids[i])]
           rest == Tail(pull.queue)
       IN pull' = [pull EXCEPT !.read = @ \cup ToSet(seen), !.cut = @ \/ room < Len(kids),
                               !.queue = IF service = "workflowy" THEN rest \o [i \in 1 .. room |-> Asking(seen[i], Objects)]
                                         ELSE IF ask.what = Papers THEN [i \in 1 .. room |-> Asking(seen[i], Highlights)] \o rest
                                         ELSE rest]
    /\ pulled' = {}
    /\ UNCHANGED <<service, library, waits, remote, place, bound, rooted, rows, snapshots, doomed, away, pictures, blurred, strays, pullSteps>>
\* A query for marks that fails is taken for a paper without any (readAnnotations).
NoMarks ==
    /\ pull.phase = "reading" /\ pull.queue # <<>> /\ service = "zotero" /\ Head(pull.queue).what = Highlights
    /\ pull' = [pull EXCEPT !.queue = Tail(@)] /\ pulled' = {}
    /\ UNCHANGED <<service, library, waits, remote, place, bound, rooted, rows, snapshots, doomed, away, pictures, blurred, strays, pullSteps>>
Answers == /\ pull.phase = "reading" /\ (pull.queue = <<>> \/ Full(pull))
           /\ pull' = [pull EXCEPT !.phase = "answered", !.cut = Full(pull)] /\ pulled' = {}
           /\ UNCHANGED <<service, library, waits, remote, place, bound, rooted, rows, snapshots, doomed, away, pictures, blurred, strays, pullSteps>>

Existing(tree, parent, o) == {n \in bound \cap DOMAIN tree : tree[n] = parent /\ Last(n[1]) = o}
Made(p) == <<p, 1 + Max({0} \cup {n[2] : n \in {n \in bound \cup rows \cup DOMAIN place \cup
                  UNION {DOMAIN pictures[i].place : i \in DOMAIN pictures} : n[1] = p}})>>
\* The node of each path: the one bound to the object under the node of its parent, or a new one.
Matched(want) ==
    LET at[p \in want \cup {<<>>}] ==
            IF p = <<>> THEN TheRoot
            ELSE LET found == Existing(place, at[Front(p)], Last(p)) IN IF found = {} THEN Made(p) ELSE CHOOSE n \in found : TRUE
    IN at

\* dropWFSubtree deletes all of it.
Tombstoned(gone) == IF service = "zotero" THEN gone ELSE Below(place, gone)

\* Mutant: as at Zotero, what is not of the mirror is not put back.
ReplacesAll(mirrored) == {n \in DOMAIN place : n \notin bound /\ place[n] \in mirrored}
\* parent.children = kids at Zotero; append(kids, others...) at Workflowy.
PutAside(mirrored) == IF service = "zotero" THEN {n \in DOMAIN place : n \notin bound /\ place[n] \in mirrored} ELSE {}

NotWanted(mirrored) == {n \in bound \cap DOMAIN place : place[n] \in mirrored /\ n \notin mirrored}

\* reconcileWF, reconcileZotero and their recursion.
Reconciles(want) ==
    LET at == Matched(want)
        mirrored == {at[p] : p \in DOMAIN at}
        gone == NotWanted(mirrored)
        off == Below(place, gone \cup PutAside(mirrored))
        parent(n) == IF n \in mirrored THEN at[Front(CHOOSE p \in want : at[p] = n)] ELSE place[n]
    IN /\ place' = [n \in (DOMAIN place \ off) \cup (mirrored \ {TheRoot}) |-> parent(n)]
       /\ bound' = (bound \ Below(place, gone)) \cup mirrored
       /\ doomed' = doomed \cup (Tombstoned(gone) \cap snapshots)
       /\ strays' = IF service = "zotero" THEN strays \cup (off \ gone) ELSE strays

\* handleWFDone, handleZoteroPull: a root that is not in the tree on the screen is not
\* reconciled.
Lands ==
    /\ pull.phase = "answered" /\ pull' = NoPull
    /\ IF rooted /\ ~away
       THEN /\ Reconciles(Wanted(pull.read))
            /\ pictures' = IF service = "zotero" THEN pictures ELSE Append(pictures, [place |-> place, rooted |-> rooted])
            /\ pulled' = {pull.read}
            /\ blurred' = (blurred \/ \E p, q \in pull.read : p # q /\ Last(p) = Last(q))
       ELSE pulled' = {} /\ UNCHANGED <<place, bound, doomed, strays, pictures, blurred>>
    /\ UNCHANGED <<service, library, waits, remote, rooted, rows, snapshots, away, pullSteps>>

\* The request fails: the library or the service says no.
PullFails == /\ pull.phase = "reading" /\ pull' = NoPull /\ pulled' = {}
               /\ UNCHANGED <<service, library, waits, remote, place, bound, rooted, rows, snapshots, doomed, away, pictures, blurred, strays, pullSteps>>

-----------------------------------------------------------------------------
(* The user, the service and the store.                                    *)

\* One object is made, moved or removed.
ServiceChanges ==
    /\ Acts /\ pulled' = {}
    /\ \E x \in Objects, y \in {Top, Away} \cup Objects :
         LET r == [remote EXCEPT ![x] = y]
         IN  y # remote[x] /\ Acyclic(r) /\ Shaped(r) /\ remote' = r
    /\ UNCHANGED <<service, library, waits, place, bound, rooted, rows, snapshots, doomed, pull, away, pictures, blurred, strays>>

Reshapes(tree, gone, blurs) ==
    /\ pictures' = Append(pictures, [place |-> place, rooted |-> rooted])
    /\ place' = tree /\ doomed' = doomed \cup (gone \cap snapshots) /\ blurred' = (blurred \/ blurs) /\ pulled' = {}
    /\ UNCHANGED <<service, library, waits, remote, bound, rows, snapshots, pull, away, strays>>

\* acceptsChildren: nothing goes into or beside what is position-locked.
AddMine ==
    /\ Acts /\ rooted /\ ~away /\ Mine \notin DOMAIN place \cup rows
    /\ \E n \in {TheRoot} \cup DOMAIN place :
         /\ service = "zotero" => n = TheRoot /\ DOMAIN place = {}
         /\ Reshapes([x \in DOMAIN place \cup {Mine} |-> IF x = Mine THEN n ELSE place[x]], {}, FALSE)
    /\ UNCHANGED rooted
MoveInMirror ==
    /\ Acts /\ rooted /\ ~away /\ service = "workflowy"
    /\ \E n \in DOMAIN place, q \in {TheRoot} \cup DOMAIN place :
         q \notin Below(place, {n}) /\ q # place[n] /\ Reshapes([place EXCEPT ![n] = q], {}, TRUE)
    /\ UNCHANGED rooted
DeleteInMirror ==
    /\ Acts /\ rooted /\ ~away /\ service = "workflowy"
    /\ \E n \in DOMAIN place : LET gone == Below(place, {n}) IN
         Reshapes([x \in DOMAIN place \ gone |-> place[x]], gone, TRUE)
    /\ UNCHANGED rooted
DeleteRoot ==
    /\ Acts /\ rooted /\ ~away /\ rooted' = FALSE
    /\ Reshapes([x \in {} |-> TheRoot], DOMAIN place, TRUE)
\* restoreUndoState: the bindings are not of the picture.
UndoPull ==
    /\ Acts /\ ~away /\ pictures # <<>>
    /\ place' = Last(pictures).place /\ rooted' = Last(pictures).rooted /\ pictures' = Front(pictures)
    /\ doomed' = snapshots \ DOMAIN place' /\ blurred' = TRUE /\ pulled' = {}
    /\ UNCHANGED <<service, library, waits, remote, bound, rows, snapshots, pull, away, strays>>
\* enterTemp, exitTemp.
GoesAway == /\ Acts /\ away' = ~away /\ pulled' = {}
            /\ UNCHANGED <<service, library, waits, remote, place, bound, rooted, rows, snapshots, doomed, pull, pictures, blurred, strays>>

\* tree.save: the rows of the tree are written, the deleted ones tombstoned.
SaveMirror ==
    /\ (doomed # {} \/ snapshots # DOMAIN place) /\ pulled' = {}
    /\ rows' = (rows \cup DOMAIN place) \ doomed /\ snapshots' = DOMAIN place /\ doomed' = {}
    /\ UNCHANGED <<service, library, waits, remote, place, bound, rooted, pull, away, pictures, blurred, strays, pullSteps>>

PullsNext ==
    \/ StartPull \/ OpenCitePicker \/ LibraryLands \/ Lists \/ NoMarks \/ Answers \/ Lands \/ PullFails \/ ServiceChanges
    \/ AddMine \/ MoveInMirror \/ DeleteInMirror \/ DeleteRoot \/ UndoPull \/ GoesAway \/ SaveMirror

PullsSpec == PullsInit /\ [][PullsNext]_pullsVars

-----------------------------------------------------------------------------
(* Properties.                                                             *)

PathOf(n) == LET up[k \in 0 .. Cardinality(DOMAIN place)] ==
                       IF k = 0 THEN <<n>>
                       ELSE LET below == up[k - 1]
                            IN  IF Head(below) \in DOMAIN place THEN <<place[Head(below)]>> \o below ELSE below
             IN LET chain == up[Cardinality(DOMAIN place)] IN [i \in 1 .. Len(chain) - 1 |-> Last(chain[i + 1][1])]

\* What the user put below a node of his own is not the mirror's any more.
InMirror == {n \in bound \cap DOMAIN place : \A m \in DOMAIN place : n \in Below(place, {m}) => m \in bound}

\* A root waits only while a library is being read: it is never forgotten in the queue.
WaitingIsServed == waits => library.loading

\* Right after a pull the mirror has a node for every object that was read, where it
\* was read, and no other node that is bound, whatever the mirror was before.
MirrorIsTheRead == \A read \in pulled : {PathOf(n) : n \in InMirror} = Wanted(read)

\* An object has one node, as long as the user does not reshape the mirror and the
\* reading meets no object on the move.
OnePerObject == ~blurred => \A m, n \in bound \cap DOMAIN place : m # n => Last(m[1]) # Last(n[1])

\* After a save the rows that are not deleted are those of the tree, but for what a
\* Zotero entry takes off the screen without deleting it.
RowsAreTheTree == doomed = {} /\ snapshots = DOMAIN place => rows \ strays = DOMAIN place \ strays

\* A pull never makes the node of an object anew while the object and all above it stay
\* where they are: links to the node stay good.
IdentityIsKept ==
    [][\A read \in pulled' : \A n \in InMirror :
          /\ PathOf(n) \in Wanted(read) /\ \A m \in InMirror : PathOf(m) = PathOf(n) => m = n
          => n \in DOMAIN place']_pullsVars

\* "The user's own non-mirror children survive untouched": a note of the user's goes
\* with a pull only when the node it lies in goes.
OwnNotesSurvive ==
    [][(pulled' # {} /\ service = "workflowy" /\ Mine \in DOMAIN place /\ place[Mine] \in {TheRoot} \cup DOMAIN place') =>
          Mine \in DOMAIN place' /\ place'[Mine] = place[Mine]]_pullsVars

\* A pulled mirror is what was read, once per object and with the identity it had, and the user's own notes beside it
\* survive the next pull (zotero.go:785, zotero.go:831, zotero.go:102).
MirrorIsFaithful ==
    /\ [](MirrorIsTheRead /\ WaitingIsServed /\ OnePerObject /\ RowsAreTheTree)
    /\ IdentityIsKept
    /\ OwnNotesSurvive
=============================================================================
