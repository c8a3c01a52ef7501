------------------------------ MODULE HttpApi ------------------------------
(***************************************************************************)
(* The HTTP API of the daemon (tui/daemon/http.go), through which the      *)
(* mobile client writes.  A handler reads the tree with queries of its own *)
(* and then writes with autocommit statements; nothing holds the tree      *)
(* still in between, so every query and every statement is a step.         *)
(* Handlers are the goroutines of net/http, one request each at a time.    *)
(***************************************************************************)
EXTENDS Suggestions, Sequences

CONSTANTS
    Handlers,      \* the requests that can be in flight at once
    Named,         \* bound: the nodes clients move, edit and delete
    MaxRequests    \* bound: the requests accepted

ASSUME HttpAssumption == Named \subseteq Nodes /\ MaxRequests \in Nat

VARIABLES
    req,      \* the request a handler serves, with what it has read so far
    sent      \* requests accepted

httpVars == <<req, sent>>

NoReq == [pc |-> "idle"]

\* One shape for every request: node is the row named in the URL, row what GetNode
\* read of it, at the node a walk has come to, rank the rank computed so far, todo
\* the parents GetSubtree has yet to list and got the nodes it has listed.
Request == [pc : {"walk", "place", "rank", "shift", "insert", "update", "patch",
                  "subtree", "tombstone", "settle"},
            node : Nodes \cup {None}, parent : Nodes \cup {None},
            after : Nodes \cup {None}, position : Positions,
            at : Nodes \cup {None}, rank : Int, text : Texts,
            todo : Seq(Nodes), got : SUBSET Nodes]

HttpTypeOK == TreeTypeOK /\ req \in [Handlers -> Request \cup {NoReq}] /\ sent \in 0..MaxRequests

HttpInit == req = [h \in Handlers |-> NoReq] /\ sent = 0

Asked(l) == [pc |-> l, node |-> None, parent |-> None, after |-> None, position |-> "",
              at |-> None, rank |-> 0, text |-> nodes[Root].text, todo |-> <<>>, got |-> {}]

Accept(h, r) ==
    /\ req[h] = NoReq /\ sent < MaxRequests
    /\ sent' = sent + 1
    /\ req' = [req EXCEPT ![h] = r]
    /\ UNCHANGED <<nodes, sugVars>>

Keeps(h, r)   == req' = [req EXCEPT ![h] = r]
Respond(h)  == Keeps(h, NoReq)
Reading     == UNCHANGED <<nodes, sugVars, sent>>
Writing     == UNCHANGED <<sugVars, sent>>

\* What a client can say about a place: a sibling, or a position.
Places == {<<n, "">> : n \in Named} \cup {<<None, q>> : q \in Positions}

-----------------------------------------------------------------------------
(* Accepting a request: the node of the URL is looked up, its locks are    *)
(* checked on the row that was read, and the request is decoded.           *)

\* Bound: a uuid is left for every request that will take one.
Creating == {h \in Handlers : req[h] # NoReq /\ req[h].pc \in {"place", "rank", "shift", "insert"}
                                /\ req[h].node = None}

\* POST /api/nodes.  Bound, here and in Move: clients name a parent they were told of.  The code does not look it up,
\* and no row is ever removed.
Create(h) ==
    \E p \in Nodes, w \in Places :
       /\ There(p)
       /\ Cardinality(Creating) < Cardinality(Unused)
       /\ Accept(h, [Asked("place") EXCEPT !.parent = p, !.after = w[1], !.position = w[2]])

\* POST /api/nodes/{uuid}/move; without a parent the node stays where it is.
Move(h) ==
    \E n \in Named, p \in {m \in Nodes : There(m)} \cup {None}, w \in Places :
       LET dest == IF p = None THEN nodes[n].parent ELSE p IN
       /\ There(n) /\ "structure" \notin nodes[n].lock
       /\ Accept(h, [Asked("walk") EXCEPT !.node = n, !.parent = dest, !.at = dest,
                                           !.after = w[1], !.position = w[2]])

\* PATCH of name, note or type, which the content lock guards, or of the
\* priority, which it does not.
Patch(h) ==
    \E n \in Named, t \in Texts, q \in Positions :
       /\ There(n)
       /\ q = "" => "content" \notin nodes[n].lock
       /\ q # "" => t = nodes[n].text
       /\ Accept(h, [Asked("patch") EXCEPT !.node = n, !.text = t, !.position = q])

\* DELETE
Delete(h) ==
    \E n \in Named :
       /\ There(n)
       /\ Accept(h, [Asked("subtree") EXCEPT !.node = n, !.todo = <<n>>, !.got = {n}])

-----------------------------------------------------------------------------
(* Placing: move walks up from the new parent, then both find a rank.      *)

\* Mutant: the walk ends below a child of the root.
WalkSkipsOne(r) == r.at \in {None, Root} \/ ~There(r.at) \/ nodes[r.at].parent \in {None, Root}

WalkEnds(r) == r.at \in {None, Root} \/ ~There(r.at)

\* for cur := parent; cur != "" && cur != root; one query for each step.
Walk(h) ==
    LET r == req[h] IN
    /\ r.pc = "walk"
    /\ IF WalkEnds(r) THEN Keeps(h, [r EXCEPT !.pc = "place"])
       ELSE IF r.at = r.node THEN Respond(h)
       ELSE Keeps(h, [r EXCEPT !.at = nodes[r.at].parent])
    /\ Reading

\* placeRank: after a sibling that is still a child of the parent, at the top,
\* at the bottom, or where the parent's priority says.
Place(h) ==
    LET r == req[h] IN
    /\ r.pc = "place"
    /\ IF There(r.after) /\ nodes[r.after].parent = r.parent
       THEN Keeps(h, [r EXCEPT !.pc = "shift", !.rank = nodes[r.after].rank])
       ELSE Keeps(h, [r EXCEPT !.pc = "rank", !.position = Resolved(r.parent, r.position)])
    /\ Reading

LastPc(r) == IF r.node = None THEN "insert" ELSE "update"

\* FirstRank or NextRank.
Rank(h) ==
    LET r == req[h] IN
    /\ r.pc = "rank"
    /\ Keeps(h, [r EXCEPT !.pc = LastPc(r), !.rank = RankAt(r.parent, r.position)])
    /\ Reading

\* The siblings behind the one read make room.
Shift(h) ==
    LET r == req[h] IN
    /\ r.pc = "shift"
    /\ nodes' = ShiftRanksAfter(r.parent, r.rank)
    /\ Keeps(h, [r EXCEPT !.pc = LastPc(r), !.rank = @ + 1])
    /\ Writing

InsertRow(h) ==
    LET r == req[h] IN
    /\ r.pc = "insert" /\ Unused # {}
    /\ nodes' = Inserted(NewUuid, r.parent, r.rank, "bottom", r.text)
    /\ Respond(h)
    /\ Writing

UpdateRow(h) ==
    LET r == req[h] IN
    /\ r.pc = "update"
    /\ nodes' = Reparented(r.node, r.parent, r.rank)
    /\ Respond(h)
    /\ Writing

-----------------------------------------------------------------------------
(* Patching and deleting.                                                  *)

PatchRow(h) ==
    LET r == req[h] IN
    /\ r.pc = "patch"
    /\ nodes' = IF r.position = "" THEN Renamed(r.node, r.text)
                                  ELSE Prioritized(r.node, r.position)
    /\ Respond(h)
    /\ Writing

\* The children of p in the order GetChildren lists them; equal ranks in any.
Listings(p) ==
    {l \in [1..Cardinality(Children(p)) -> Children(p)] :
       \A i, j \in 1..Cardinality(Children(p)) :
          i < j => l[i] # l[j] /\ nodes[l[i]].rank <= nodes[l[j]].rank}

\* GetSubtree outside a transaction: one query for the children of each node.
WalkDown(h) ==
    LET r == req[h] IN
    /\ r.pc = "subtree"
    /\ IF r.todo = <<>> THEN Keeps(h, [r EXCEPT !.pc = "tombstone"])
       ELSE \E l \in Listings(Head(r.todo)) :
               Keeps(h, [r EXCEPT !.todo = l \o Tail(@), !.got = @ \cup Children(Head(r.todo))])
    /\ Reading

TombstoneRows(h) ==
    LET r == req[h] IN
    /\ r.pc = "tombstone"
    /\ nodes' = Tombstoned(r.got)
    /\ Keeps(h, [r EXCEPT !.pc = "settle"])
    /\ Writing

SettleRows(h) ==
    LET r == req[h] IN
    /\ r.pc = "settle"
    /\ sugs' = SettledFor(r.got, {})
    /\ Respond(h)
    /\ UNCHANGED <<nodes, draft, rev, applied, sent>>

\* The daemon stops: its handlers are gone, the database stays, and the next
\* daemon sweeps the suggestions before it serves.
Restart ==
    /\ req' = [h \in Handlers |-> NoReq]
    /\ sugs' = Mark({s \in Sugs : ~Live(sugs[s].target)}, "rejected")
    /\ UNCHANGED <<nodes, draft, rev, applied, sent>>

Receive(h) == req[h] = NoReq /\ (Create(h) \/ Move(h) \/ Patch(h) \/ Delete(h))
Serve(h)   == \/ Walk(h) \/ Place(h) \/ Rank(h) \/ Shift(h) \/ InsertRow(h) \/ UpdateRow(h)
              \/ PatchRow(h) \/ WalkDown(h) \/ TombstoneRows(h) \/ SettleRows(h)

-----------------------------------------------------------------------------
(* The API on its own, and what it keeps.                                  *)

httpAll == <<nodes, sugVars, httpVars>>

HttpStart == SuggestInit /\ HttpInit
HttpNext  == \E h \in Handlers : Receive(h) \/ Serve(h)
HttpSpec  == HttpStart /\ [][HttpNext]_httpAll

\* A handler that has a request goes on with it: net/http runs every handler, and
\* no query or statement waits for ever (module Store, EveryWaiterIsServed).
HttpFairSpec == HttpSpec /\ \A h \in Handlers : WF_httpAll(Serve(h))

Finishes(h, l) == req[h] # NoReq /\ req[h].pc = l /\ req'[h] = NoReq

\* No node is its own descendant (http.go:400).
NoOwnDescendant == NoCycle

\* One request at a time, in any sequence, leaves live siblings with different
\* ranks (placeRank: FirstRank, NextRank and the gap behind a sibling).
RanksAreDistinct == DistinctRanks

\* The sibling that was named is a child of the parent.
Beside(r) == There(r.after) /\ nodes[r.after].parent = r.parent

\* A row that a request creates or moves lands right behind the sibling that was named, if that is a child of the
\* parent, and else in front of all its children or behind them, as the request or the parent's priority says; a
\* row sent behind itself stays where it is (http.go:237).
LandsBehind ==
    [][\A h \in Handlers :
          Finishes(h, "update") \/ Finishes(h, "insert") =>
          \A r \in {req[h]} : \A x \in {RowOf(r)} :
             IF Beside(r) THEN r.after # x => Landed(x, r.parent, r.after, "")'
                          ELSE Landed(x, r.parent, None, Resolved(r.parent, r.position))']_httpAll

\* Every request is answered: no walk goes round for ever.
EveryRequestEnds == \A h \in Handlers : req[h] # NoReq ~> req[h] = NoReq
=============================================================================
