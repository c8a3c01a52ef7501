-------------------------------- MODULE Ghosts --------------------------------
(***************************************************************************)
(* The editor's surface for proposals (tui/editor/suggest.go,              *)
(* suggestdiff.go): proposed nodes are spliced as ghost rows into the rows *)
(* that are shown, alt+y and alt+n answer the row under the cursor, alt+v  *)
(* walks to the next proposal anywhere in the outline, and the feed brings *)
(* what others propose, settle, delete and add.  How a proposal is applied *)
(* is Suggestions; here an approved one adds, removes or keeps its node.   *)
(***************************************************************************)
EXTENDS Integers, SequencesExt, FiniteSetsExt

CONSTANTS
    Top0,           \* the root of the outline
    Foldable,       \* the nodes below the root, and those below them
    Proposals,      \* proposal -> its kind, target and whether it is pinned to the top
    Words,          \* bound: the words of texts that are compared
    MaxWords,       \* bound: how many
    MaxGhostSteps   \* bound: what happens

ASSUME GhostsAssumption ==
    /\ {MaxWords, MaxGhostSteps} \subseteq Nat
    /\ \A s \in DOMAIN Proposals : Proposals[s].kind \in {"add", "remove", "change"} /\ Proposals[s].top \in BOOLEAN

VARIABLES
    kids,       \* the children of every node that is in the outline, in order
    folded,     \* the nodes that are folded
    viewed,     \* the root of the view
    status,     \* the status of every proposal in the database
    filings,    \* the proposals in the order they were filed
    queue,      \* m.suggests: the pending ones when the editor read them last, in that order
    shownRows,  \* m.rows: node or proposal, depth and whether it is a ghost
    cursor,     \* the index of a row, 0 if there is none
    refreshed,  \* the last step laid the rows
    crashed,    \* an index was out of range: the program ends
    landings,   \* ghost: where the walk has landed since anything else happened
    presses,    \* ghost: how often alt+v has been pressed since
    compared,   \* two texts and their diff
    ghostSteps

ghostsVars == <<kids, folded, viewed, status, filings, queue, shownRows, cursor, refreshed, crashed, landings, presses,
               compared, ghostSteps>>

AllSugs == DOMAIN Proposals
IsAdd(s) == Proposals[s].kind = "add"
Target0(s) == Proposals[s].target
InOutline(n) == n \in DOMAIN kids

RECURSIVE RowsUnder(_, _, _, _)
\* tree.visibleRows without mirrors.
RowsUnder(tree, shut, n, depth) ==
    FlattenSeq([i \in DOMAIN tree[n] |->
        <<[id |-> tree[n][i], depth |-> depth, ghost |-> FALSE]>>
            \o (IF tree[n][i] \in shut THEN <<>> ELSE RowsUnder(tree, shut, tree[n][i], depth + 1))])

-----------------------------------------------------------------------------
\* Splicing.

\* rowIndexOfUUID, in the rows of m.rows.
IndexIn(rows, id) == SelectInSeq(rows, LAMBDA r : r.id = id /\ ~r.ghost)
\* The end of the rows below the row before place `at`.
RECURSIVE Past(_, _, _)
Past(rows, at, depth) == IF at <= Len(rows) /\ rows[at].depth >= depth THEN Past(rows, at + 1, depth) ELSE at

\* spliceGhost: `old` are the rows m.rows still holds while the new ones are laid.
SpliceGhost(acc, old, s, root) ==
    LET rows  == acc.rows
        p     == IndexIn(old, Target0(s))
        ghost(depth) == [id |-> s, depth |-> depth, ghost |-> TRUE]
    IN  IF acc.fails THEN acc
        ELSE IF Target0(s) = root THEN [acc EXCEPT !.rows = InsertAt(@, IF Proposals[s].top THEN 1 ELSE Len(@) + 1, ghost(0))]
        ELSE IF p = 0 THEN acc
        ELSE IF p > Len(rows) THEN [acc EXCEPT !.fails = TRUE]
        ELSE LET depth == rows[p].depth + 1
             IN  [acc EXCEPT !.rows = InsertAt(@, IF Proposals[s].top THEN p + 1 ELSE Past(rows, p + 1, depth), ghost(depth))]

\* loadSuggests groups by target, targets in the order of their first proposal.
Grouped(list) ==
    LET targets == FoldLeft(LAMBDA acc, s : IF Target0(s) \in ToSet(acc) THEN acc ELSE Append(acc, Target0(s)), <<>>, list)
    IN  FlattenSeq([i \in DOMAIN targets |-> SelectSeq(list, LAMBDA s : Target0(s) = targets[i])])
TargetsOf(list) ==
    FoldLeft(LAMBDA acc, s : IF Target0(s) \in ToSet(acc) THEN acc ELSE Append(acc, Target0(s)), <<>>, list)
PendingNow(st) == Grouped(SelectSeq(filings, LAMBDA s : st[s] = "pending"))

\* refreshRows.
Laid0(tree, shut, root, list, old) ==
    FoldLeft(LAMBDA acc, s : SpliceGhost(acc, old, s, root),
             [rows |-> RowsUnder(tree, shut, root, 0), fails |-> FALSE],
             SelectSeq(list, IsAdd))
Refresh(tree, shut, root, list, old) ==
    LET new == Laid0(tree, shut, root, list, old)
    IN  shownRows' = new.rows /\ crashed' = new.fails /\ refreshed' = TRUE
Clamp0(c, n) == IF c > n THEN n ELSE IF c < 1 /\ n > 0 THEN 1 ELSE c

GhostsInit ==
    /\ kids \in {Foldable} /\ folded = {} /\ viewed = Top0
    /\ status = [s \in AllSugs |-> "none"] /\ filings = <<>> /\ queue = <<>>
    /\ shownRows = RowsUnder(Foldable, {}, Top0, 0) /\ cursor = 1 /\ refreshed = TRUE /\ crashed = FALSE
    /\ landings = {} /\ presses = 0 /\ compared = <<>> /\ ghostSteps = 0

Acts0 == ~crashed /\ compared = <<>> /\ ghostSteps < MaxGhostSteps /\ ghostSteps' = ghostSteps + 1 /\ UNCHANGED compared
NotAWalk == landings' = {} /\ presses' = 0
RowNow == IF cursor \in DOMAIN shownRows THEN shownRows[cursor] ELSE [id |-> Top0, depth |-> -1, ghost |-> FALSE]

-----------------------------------------------------------------------------
\* What the feed brings.

\* applyEvent, after loadSuggests: the rows are laid again only when a node changed; the cursor follows its node.
FollowsNode(new) ==
    LET i == IF RowNow.ghost THEN 0 ELSE IndexIn(new, RowNow.id)
    IN  IF i > 0 THEN i ELSE Clamp0(cursor, Len(new))
Heard0(tree, st) ==
    /\ status' = st /\ queue' = PendingNow(st) /\ kids' = tree /\ NotAWalk
    /\ IF tree = kids THEN UNCHANGED <<shownRows, cursor, crashed>> /\ refreshed' = FALSE
       ELSE /\ Refresh(tree, folded, viewed, PendingNow(st), shownRows)
            /\ cursor' = FollowsNode(shownRows')

\* A node and what is below it taken out of the outline; a node added as the last or the first child.
RECURSIVE BelowOf(_, _)
BelowOf(tree, n) == {n} \cup UNION {BelowOf(tree, tree[n][i]) : i \in DOMAIN tree[n]}
TakenOut(tree, n) ==
    LET gone == BelowOf(tree, n)
    IN  [m \in DOMAIN tree \ gone |-> SelectSeq(tree[m], LAMBDA k : k # n)]
PutIn(tree, parent, n, top) ==
    [m \in DOMAIN tree \cup {n} |-> IF m = n THEN <<>>
        ELSE IF m = parent THEN (IF top THEN <<n>> \o tree[m] ELSE Append(tree[m], n)) ELSE tree[m]]

\* That the root of the view itself goes is left out.
Untouched(n) == viewed \notin BelowOf(kids, n)

\* What approving s does to the outline.
Applied0(s) ==
    CASE IsAdd(s) -> PutIn(kids, Target0(s), s, Proposals[s].top)
      [] Proposals[s].kind = "remove" -> TakenOut(kids, Target0(s))
      [] OTHER -> kids

OtherFiles(s) ==
    /\ Acts0 /\ status[s] = "none" /\ InOutline(Target0(s))
    /\ filings' = Append(filings, s)
    /\ LET st == [status EXCEPT ![s] = "pending"]
       IN  status' = st /\ queue' = Grouped(SelectSeq(Append(filings, s), LAMBDA x : st[x] = "pending"))
    /\ NotAWalk /\ refreshed' = FALSE /\ UNCHANGED <<kids, folded, viewed, shownRows, cursor, crashed>>
OtherSettles(s) ==
    /\ Acts0 /\ status[s] = "pending" /\ UNCHANGED <<folded, viewed, filings>>
    /\ \/ Heard0(kids, [status EXCEPT ![s] = "rejected"])
       \/ InOutline(Target0(s)) /\ (IsAdd(s) \/ Untouched(Target0(s))) /\ Heard0(Applied0(s), [status EXCEPT ![s] = "approved"])
\* A deletion that settles what was proposed for the node, or one from before proposals were settled with it.
OtherDeletes(n) ==
    /\ Acts0 /\ InOutline(n) /\ Untouched(n) /\ UNCHANGED <<folded, viewed, filings>>
    /\ \E settles \in BOOLEAN :
           Heard0(TakenOut(kids, n),
                  [s \in AllSugs |-> IF settles /\ status[s] = "pending" /\ Target0(s) \in BelowOf(kids, n)
                                     THEN "rejected" ELSE status[s]])

-----------------------------------------------------------------------------
\* The keys.

UserKey == Acts0 /\ NotAWalk
MoveCursor ==
    /\ UserKey /\ \E c \in {cursor - 1, cursor + 1} : c \in DOMAIN shownRows /\ cursor' = c
    /\ refreshed' = FALSE /\ UNCHANGED <<kids, folded, viewed, status, filings, queue, shownRows, crashed>>
\* A ghost row refuses every key that is not a movement or an answer (ghostPasses).
ToggleFold ==
    /\ UserKey /\ ~RowNow.ghost /\ RowNow.depth >= 0 /\ InOutline(RowNow.id) /\ kids[RowNow.id] # <<>>
    /\ LET shut == IF RowNow.id \in folded THEN folded \ {RowNow.id} ELSE folded \cup {RowNow.id}
       IN  folded' = shut /\ Refresh(kids, shut, viewed, queue, shownRows)
    /\ cursor' = Clamp0(cursor, Len(shownRows'))
    /\ UNCHANGED <<kids, viewed, status, filings, queue>>
ZoomIn ==
    /\ UserKey /\ ~RowNow.ghost /\ RowNow.depth >= 0 /\ InOutline(RowNow.id)
    /\ viewed' = RowNow.id /\ Refresh(kids, folded, RowNow.id, queue, shownRows) /\ cursor' = Clamp0(1, Len(shownRows'))
    /\ UNCHANGED <<kids, folded, status, filings, queue>>

\* rowSuggest: the proposal a row carries; <<>> if none.
First0(list) == IF list = <<>> THEN <<>> ELSE <<list[1]>>
CarriedBy(r) ==
    IF r.ghost THEN (IF r.id \in ToSet(queue) THEN <<r.id>> ELSE <<>>)
    ELSE First0(SelectSeq(queue, LAMBDA s : Target0(s) = r.id /\ ~IsAdd(s)))
\* answerSuggest; a proposal someone else has settled is refused (Suggestions).
Answer(approve) ==
    /\ UserKey /\ CarriedBy(RowNow) # <<>>
    /\ LET s == CarriedBy(RowNow)[1] IN
       /\ status[s] = "pending" /\ (approve => (InOutline(Target0(s)) /\ (IsAdd(s) \/ Untouched(Target0(s)))))
       /\ LET st   == [status EXCEPT ![s] = IF approve THEN "approved" ELSE "rejected"]
              tree == IF approve THEN Applied0(s) ELSE kids
          IN  /\ status' = st /\ queue' = PendingNow(st) /\ kids' = tree
              /\ Refresh(tree, folded, viewed, PendingNow(st), shownRows)
              /\ cursor' = FollowsNode(shownRows')
    /\ UNCHANGED <<folded, viewed, filings>>

ParentOf0(n) == IF \E m \in DOMAIN kids : n \in ToSet(kids[m]) THEN CHOOSE m \in DOMAIN kids : n \in ToSet(kids[m]) ELSE Top0
RowOf0(rows, s) == IF IsAdd(s) THEN SelectInSeq(rows, LAMBDA r : r.id = s /\ r.ghost) ELSE IndexIn(rows, Target0(s))

\* openSuggestOn: the first proposal about the target is landed on, in this view or in the one of the target's parent.
Opens(acc, target) ==
    LET s    == SelectSeq(acc.list, LAMBDA x : Target0(x) = target)[1]
        here == RowOf0(acc.rows, s)
        up   == ParentOf0(target)
        laid == Laid0(kids, folded, up, acc.list, acc.rows)
        there == RowOf0(laid.rows, s)
    IN  IF here > 0 THEN [acc EXCEPT !.lands = TRUE, !.at = here]
        ELSE IF ~InOutline(target) THEN acc
        ELSE [acc EXCEPT !.lands = there > 0, !.at = IF there > 0 THEN there ELSE IndexIn(laid.rows, target),
                         !.view = up, !.rows = laid.rows, !.fails = laid.fails, !.laid = TRUE]
\* cleanStaleSuggest: the proposals about a node that is gone are turned down, and the rows laid again.
CleansAll(target) == TRUE
IsGone(target)    == ~InOutline(target)
Cleans(acc, target) ==
    IF acc.lands \/ acc.fails \/ ~IsGone(target) THEN acc
    ELSE LET st   == [s \in AllSugs |-> IF Target0(s) = target /\ acc.st[s] = "pending" THEN "rejected" ELSE acc.st[s]]
             laid == Laid0(kids, folded, acc.view, PendingNow(st), acc.rows)
         IN  [acc EXCEPT !.st = st, !.list = PendingNow(st), !.rows = laid.rows, !.fails = laid.fails, !.laid = TRUE]
\* The targets from the one after the cursor's on, once round.
OnceRound(order, from) ==
    LET start == SelectInSeq(order, LAMBDA t : t = from)
    IN  [off \in 1..Len(order) |-> order[((start + off - 1) % Len(order)) + 1]]
CursorTarget == IF RowNow.ghost THEN Target0(RowNow.id) ELSE RowNow.id

\* alt+v: a view that was opened for a proposal and does not show it stays open.
GotoSuggestion ==
    /\ Acts0 /\ queue # <<>> /\ UNCHANGED <<kids, folded, filings>>
    /\ \E try \in {FoldLeft(LAMBDA acc, t : IF acc.lands \/ acc.fails THEN acc ELSE Cleans(Opens(acc, t), t),
                            [lands |-> FALSE, at |-> cursor, view |-> viewed, rows |-> shownRows, fails |-> FALSE,
                             laid |-> FALSE, st |-> status, list |-> queue],
                            OnceRound(TargetsOf(queue), CursorTarget))} :
           /\ status' = try.st /\ queue' = try.list
           /\ viewed' = try.view /\ shownRows' = try.rows /\ crashed' = try.fails /\ refreshed' = try.laid
           /\ cursor' = Clamp0(try.at, Len(try.rows))
           /\ presses' = presses + 1
           /\ landings' = IF ~try.lands THEN landings
                          ELSE landings \cup {IF try.rows[try.at].ghost THEN Target0(try.rows[try.at].id) ELSE try.rows[try.at].id}

-----------------------------------------------------------------------------
\* wordDiff.

\* A word that differs from another only in the spaces behind it is the same word.
LongestFrom(x, y) ==
    LET f[i \in 1..(Len(x) + 1), j \in 1..(Len(y) + 1)] ==
            IF i > Len(x) \/ j > Len(y) THEN 0
            ELSE IF x[i].word = y[j].word THEN f[i + 1, j + 1] + 1
            ELSE Max({f[i + 1, j], f[i, j + 1]})
    IN  f
Larger(f, i, j)    == f[i + 1, j] >= f[i, j + 1]
WordDiff(x, y) ==
    LET f == LongestFrom(x, y)
        d[i \in 1..(Len(x) + 1), j \in 1..(Len(y) + 1)] ==
            IF i > Len(x) THEN [k \in 1..(Len(y) - j + 1) |-> <<y[j + k - 1], "add">>]
            ELSE IF j > Len(y) THEN [k \in 1..(Len(x) - i + 1) |-> <<x[i + k - 1], "del">>]
            ELSE IF x[i].word = y[j].word THEN <<<<x[i], "same">>>> \o d[i + 1, j + 1]
            ELSE IF Larger(f, i, j) THEN <<<<x[i], "del">>>> \o d[i + 1, j]
            ELSE <<<<y[j], "add">>>> \o d[i, j + 1]
    IN  d[1, 1]
\* splitWords: every word carries the spaces behind it, and only the last may have none.
Texts0 == {[i \in DOMAIN w |-> [word |-> w[i], spaces |-> IF i < Len(w) THEN 1 ELSE last]] :
               w \in BoundedSeq(Words, MaxWords), last \in {0, 1}}
Compare ==
    /\ ghostSteps = 0 /\ compared = <<>> /\ ghostSteps' = MaxGhostSteps
    /\ \E x, y \in Texts0 : compared' = <<x, y, WordDiff(x, y)>>
    /\ UNCHANGED <<kids, folded, viewed, status, filings, queue, shownRows, cursor, refreshed, crashed, landings, presses>>

GhostsNext ==
    \/ MoveCursor \/ ToggleFold \/ ZoomIn \/ GotoSuggestion \/ Compare
    \/ \E approve \in BOOLEAN : Answer(approve)
    \/ \E s \in AllSugs : OtherFiles(s) \/ OtherSettles(s)
    \/ \E n \in DOMAIN kids : OtherDeletes(n)

GhostsSpec == GhostsInit /\ [][GhostsNext]_ghostsVars

-----------------------------------------------------------------------------
\* Properties.

\* The cursor is on a row whenever there is one, and nothing is in the outline but its nodes and the proposals that were
\* approved: a ghost row is never a node (suggest.go:23).
GhostsTypeOK ==
    /\ crashed \/ cursor \in DOMAIN shownRows \/ shownRows = <<>>
    /\ \A s \in AllSugs : InOutline(s) => (IsAdd(s) /\ status[s] = "approved")
    /\ \A n \in DOMAIN kids : \A i \in DOMAIN kids[n] : InOutline(kids[n][i])

\* An event that leaves the node under the cursor on screen leaves the cursor on it, wherever ghosts come and go above it
\* (livesync.go:203).  A cursor on a ghost row has no node to follow.
CursorStaysOnItsNode ==
    [][(kids' # kids /\ ~crashed' /\ landings' = {} /\ presses' = 0 /\ viewed' = viewed /\ ~RowNow.ghost
            /\ IndexIn(shownRows', RowNow.id) > 0)
         => shownRows'[cursor'].id = RowNow.id /\ ~shownRows'[cursor'].ghost]_ghostsVars

\* Pressing alt+v as often as there are targets, and nothing else in between, lands on every one whose first proposal is
\* about a node of the outline, in whichever view it is.  (Proposed nodes outside the view are not reached.)
WalkReachesAll ==
    (presses >= Len(TargetsOf(queue)) /\ ~crashed) =>
        \A t \in ToSet(TargetsOf(queue)) :
            (InOutline(t) /\ t # Top0 /\ ~IsAdd(SelectSeq(queue, LAMBDA s : Target0(s) = t)[1])) => t \in landings

\* The walk settles nothing but proposals about nodes that are gone (cleanStaleSuggest).
WalkSettlesOnlyTheGone ==
    [][presses' = presses + 1 =>
         \A s \in AllSugs : status'[s] # status[s] => (status'[s] = "rejected" /\ ~InOutline(Target0(s)))]_ghostsVars

\* The struck and the plain words of a diff are the text before, the new and the plain ones the text after but for spaces, and
\* no diff keeps more words (suggestdiff.go:16).
DiffReadsBothWays ==
    compared # <<>> =>
        LET side(op) == SelectSeq(compared[3], LAMBDA p : p[2] \in {"same", op})
            words(s) == [i \in DOMAIN s |-> s[i][1].word]
            texts(t) == [i \in DOMAIN t |-> t[i].word]
            kept     == Len(SelectSeq(compared[3], LAMBDA p : p[2] = "same"))
            subs(t)  == {[i \in 1..Cardinality(I) |-> t[SetToSortSeq(I, <)[i]].word] : I \in SUBSET DOMAIN t}
        IN  /\ [i \in DOMAIN side("del") |-> side("del")[i][1]] = compared[1]
            /\ words(side("add")) = texts(compared[2])
            /\ kept = Max({Len(w) : w \in subs(compared[1]) \cap subs(compared[2])})

\* When the rows have just been laid, a ghost row stands directly among the rows below its target (suggest.go:19: "add: a yellow
\* ghost row where the node would go").
GhostsAreInPlace ==
    /\ ~crashed
    /\ refreshed =>
        \A i \in DOMAIN shownRows : shownRows[i].ghost =>
            LET r == shownRows[i]
                above == {k \in 1..(i - 1) : shownRows[k].depth < r.depth}
            IN  IF above = {} THEN Target0(r.id) = viewed
                ELSE shownRows[Max(above)].id = Target0(r.id) /\ shownRows[Max(above)].depth = r.depth - 1

\* A ghost row reads as the old and the new text, the walk over the proposals reaches each one that can be shown and
\* turns down only those whose node is gone, and the cursor stays on its node (suggest.go:608, editor.go:869,
\* suggest.go:564).
ProposalsAreShownTruly ==
    /\ [](GhostsTypeOK /\ WalkReachesAll /\ DiffReadsBothWays)
    /\ CursorStaysOnItsNode
    /\ WalkSettlesOnlyTheGone
=============================================================================
