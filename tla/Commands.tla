------------------------------ MODULE Commands ------------------------------
(***************************************************************************)
(* The commands that restructure the outline from a terminal: lflow add,   *)
(* lflow move and lflow remove (tui/cli/add, tui/cli/mv, tui/cli/remove).  *)
(* A command is a client of the daemon: each of its queries and statements *)
(* is a request of its own, a step here, except the delete of remove,      *)
(* which is one transaction.  It can be killed between any two of them.    *)
(***************************************************************************)
EXTENDS Suggestions, Sequences

CONSTANTS
    Shells,         \* the commands that can run at once
    Known,          \* bound: the nodes commands move and remove
    MaxLines,       \* bound: the lines one lflow add inserts
    MaxCommands     \* bound: the commands run

ASSUME CommandAssumption == Known \subseteq Nodes /\ MaxLines \in Nat /\ MaxCommands \in Nat

VARIABLES
    cmd,     \* where a command is, with what it has read so far
    ran      \* commands started

cmdVars == <<cmd, ran>>

NoCmd == [pc |-> "idle"]

\* node is the resolved node, prio the priority read of the new parent, lines what
\* is still to be inserted, todo and got the walk of GetSubtree.
Command == [pc : {"parent", "below", "priority", "sibling", "open", "shift", "rank",
                  "reparent", "insert", "remove"},
            node : Nodes \cup {None}, parent : Nodes \cup {None},
            after : Nodes \cup {None}, top : BOOLEAN, rank : Int, lines : 0..MaxLines,
            todo : Seq(Nodes), got : SUBSET Nodes]

CmdTypeOK == TreeTypeOK /\ cmd \in [Shells -> Command \cup {NoCmd}] /\ ran \in 0..MaxCommands

CmdInit == cmd = [c \in Shells |-> NoCmd] /\ ran = 0

Given(l) == [pc |-> l, node |-> None, parent |-> None, after |-> None, top |-> FALSE,
             rank |-> 0, lines |-> 0, todo |-> <<>>, got |-> {}]

Start(c, r) ==
    /\ cmd[c] = NoCmd /\ ran < MaxCommands
    /\ ran' = ran + 1
    /\ cmd' = [cmd EXCEPT ![c] = r]
    /\ UNCHANGED <<nodes, sugVars>>

Put(c, r) == cmd' = [cmd EXCEPT ![c] = r]
Quit(c)   == Put(c, NoCmd)
Query     == UNCHANGED <<nodes, sugVars, ran>>
Statement == UNCHANGED <<sugVars, ran>>

-----------------------------------------------------------------------------
(* lflow move                                                              *)

\* The node is resolved; its lock is looked at once both are, on this reading.
MvNode(c) ==
    \E n \in Known, p \in Nodes, at \in Known \cup {None}, top \in BOOLEAN :
       /\ There(n) /\ There(p) /\ "structure" \notin nodes[n].lock
       /\ Start(c, [Given("parent") EXCEPT !.node = n, !.parent = p, !.after = at, !.top = top])

\* The new parent is resolved: refused if locked or the node itself; its priority
\* sends a node without a position to the top.
MvParent(c) ==
    LET r == cmd[c] IN
    /\ r.pc = "parent"
    /\ IF "structure" \in nodes[r.parent].lock \/ r.parent = r.node THEN Quit(c)
       ELSE Put(c, [r EXCEPT !.pc = "below", !.todo = <<r.node>>, !.got = {r.node},
                             !.top = @ \/ (r.after = None /\ nodes[r.parent].prio = "top")])
    /\ Query

\* isDescendant: GetSubtree, one query for the children of each node.
MvBelow(c) ==
    LET r == cmd[c]
        p == Head(r.todo)
    IN
    /\ r.pc = "below"
    /\ IF r.todo # <<>>
       THEN \E l \in [1..Cardinality(Children(p)) -> Children(p)] :
               /\ \A i, j \in DOMAIN l : i < j => l[i] # l[j] /\ nodes[l[i]].rank <= nodes[l[j]].rank
               /\ Put(c, [r EXCEPT !.todo = l \o Tail(@), !.got = @ \cup Children(p)])
       ELSE IF r.parent \in r.got THEN Quit(c)
       ELSE Put(c, [r EXCEPT !.pc = IF r.top THEN "open"
                                    ELSE IF r.after # None THEN "sibling" ELSE "rank"])
    /\ Query

\* --after: the sibling must be a child of the new parent.
MvSibling(c) ==
    LET r == cmd[c] IN
    /\ r.pc = "sibling"
    /\ IF nodes[r.after].parent = r.parent
       THEN Put(c, [r EXCEPT !.pc = "shift", !.rank = nodes[r.after].rank + 1])
       ELSE Quit(c)
    /\ Query

MvShift(c) ==
    LET r == cmd[c] IN
    /\ r.pc = "shift"
    /\ nodes' = ShiftRanksAfter(r.parent, r.rank - 1)
    /\ Put(c, [r EXCEPT !.pc = "reparent"])
    /\ Statement

MvReparent(c) ==
    LET r == cmd[c] IN
    /\ r.pc = "reparent"
    /\ nodes' = Reparented(r.node, r.parent, r.rank)
    /\ Quit(c)
    /\ Statement

-----------------------------------------------------------------------------
(* lflow add                                                               *)

\* The parent is read for its lock.
AddParent(c) ==
    \E p \in Nodes, k \in 1..MaxLines, top \in BOOLEAN :
       /\ There(p) /\ "structure" \notin nodes[p].lock
       /\ Cardinality(Unused) >= MaxLines * Cardinality(Shells)
       /\ Start(c, [Given("priority") EXCEPT !.parent = p, !.lines = k, !.top = top])

\* ... and again for its priority.
AddPriority(c) ==
    LET r == cmd[c] IN
    /\ r.pc = "priority"
    /\ Put(c, [r EXCEPT !.pc = IF r.top \/ nodes[r.parent].prio = "top" THEN "open" ELSE "rank",
                        !.top = @ \/ nodes[r.parent].prio = "top"])
    /\ Query

InsertLine(c) ==
    LET r == cmd[c] IN
    /\ r.pc = "insert" /\ Unused # {}
    /\ nodes' = Inserted(NewUuid, r.parent, r.rank, "top", nodes[r.parent].text)
    /\ IF r.lines = 1 THEN Quit(c) ELSE Put(c, [r EXCEPT !.rank = @ + 1, !.lines = @ - 1])
    /\ Statement

-----------------------------------------------------------------------------
(* Ranks, for both.                                                        *)

Writes(r) == IF r.node = None THEN "insert" ELSE "reparent"
Size(r) == IF r.node = None THEN r.lines ELSE 1

\* How many ranks a command frees at the top.
Gap(r) == Size(r)

\* At the top: every child moves down and the new ones start from 0.
OpenTop(c) ==
    LET r == cmd[c] IN
    /\ r.pc = "open"
    /\ nodes' = ShiftRanksAll(r.parent, Gap(r))
    /\ Put(c, [r EXCEPT !.pc = Writes(r), !.rank = 0])
    /\ Statement

\* At the bottom: NextRank.
Behind(c) ==
    LET r == cmd[c] IN
    /\ r.pc = "rank"
    /\ Put(c, [r EXCEPT !.pc = Writes(r), !.rank = NextRank(r.parent)])
    /\ Query

-----------------------------------------------------------------------------
(* lflow remove                                                            *)

RmNode(c) ==
    \E n \in Known :
       /\ There(n) /\ "structure" \notin nodes[n].lock
       /\ Start(c, [Given("remove") EXCEPT !.node = n])

\* Confirmed: MarkSubtreeDeleted in one transaction.
Rm(c) ==
    LET r == cmd[c] IN
    /\ r.pc = "remove"
    /\ nodes' = Tombstoned(Subtree(r.node))
    /\ sugs' = SettledFor(Subtree(r.node), {})
    /\ Quit(c)
    /\ UNCHANGED <<draft, rev, applied, ran>>

\* Refused at the prompt, interrupted, or killed.
Kill(c) == cmd[c] # NoCmd /\ Quit(c) /\ Query

Shell(c) == \/ cmd[c] = NoCmd /\ (MvNode(c) \/ AddParent(c) \/ RmNode(c))
            \/ MvParent(c) \/ MvBelow(c) \/ MvSibling(c) \/ MvShift(c) \/ MvReparent(c)
            \/ AddPriority(c) \/ InsertLine(c) \/ OpenTop(c) \/ Behind(c)
            \/ Rm(c) \/ Kill(c)

CmdStart == SuggestInit /\ CmdInit
CmdNext  == \E c \in Shells : Shell(c)
cmdAll   == <<nodes, sugVars, cmdVars>>
CmdSpec  == CmdStart /\ [][CmdNext]_cmdAll

-----------------------------------------------------------------------------
(* Properties.                                                             *)

\* A command writes the row it places; one that is killed writes nothing.
Puts(d) == cmd[d] # NoCmd /\ cmd[d].pc \in {"reparent", "insert"} /\ cmd'[d] # cmd[d] /\ nodes' # nodes

\* A row that a command moves lands right behind the sibling of --after, in front of every child of the parent or
\* behind every one; the first line lflow add inserts at the top lands in front of every child and each other one
\* right behind a child that has the rank before, which is the line's before it (mv.go:103, add.go:79).
CommandLands ==
    [][\A d \in Shells : Puts(d) =>
          \A r \in {cmd[d]} : \A x \in {RowOf(r)} :
             IF ~r.top /\ r.after # None THEN r.after # x => Landed(x, r.parent, r.after, "")'
             ELSE IF r.top /\ r.rank # 0
             THEN \E n \in Children(r.parent) : nodes[n].rank = r.rank - 1 /\ Landed(x, r.parent, n, "")'
             ELSE Landed(x, r.parent, None, IF r.top THEN "top" ELSE "bottom")']_cmdAll
=============================================================================
