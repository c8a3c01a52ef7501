------------------------------ MODULE MCAlone ------------------------------
(* The HTTP API and the commands of a terminal, each alone on the same small  *)
(* outline, and the live sync of one editor on two nodes, for TLC; the initial *)
(* state says which of them a behaviour is about.                              *)
EXTENDS Outline, LiveSync, TLC

CONSTANTS root, a, b, c, f1, f2, f3, f4, old, new, own

VARIABLE writer

\* root with the children a and b, and c below a; uuids nobody has used.
SmallTree ==
    [n \in Nodes |-> [there |-> n \in {root, a, b, c}, deleted |-> FALSE, text |-> old, lock |-> {},
                      rank |-> IF n = b THEN 1 ELSE 0, prio |-> IF n = a THEN "top" ELSE "bottom",
                      parent |-> CASE n \in {a, b} -> root [] n = c -> a [] OTHER -> None]]

\* Each alone: one request and one command at a time, and the root stays where it is.
ASSUME AloneAssumption ==
    /\ \A g, h \in Handlers : g = h
    /\ \A d, e \in Shells : d = e
    /\ Root \notin Named

\* The outline they start on is a tree: every set of rows has one whose parent is outside it, parents are there, live
\* siblings have different ranks, none of them negative.
ASSUME InitTreeIsATree ==
    /\ InitTree[Root].there /\ InitTree[Root].parent = None
    /\ \A n \in Nodes : LET p == InitTree[n].parent IN p = None \/ (p \in Nodes /\ InitTree[p].there)
    /\ \A S \in (SUBSET Nodes) \ {{}} : \E n \in S : InitTree[n].parent \notin S
    /\ \A n \in Nodes : InitTree[n].rank >= 0
    /\ \A m, n \in Nodes : m # n /\ InitTree[m].there /\ InitTree[n].there
          /\ InitTree[m].parent = InitTree[n].parent => InitTree[m].rank # InitTree[n].rank

\* Other clients move b out of what the editor shows, and back.
BMoves == {<<b, Home>>, <<b, Outside>>}

Editors == {"editor", "selector", "listener"}

AloneInit == OutlineInit /\ LiveInit /\ writer \in {"http", "command"} \cup Editors

\* Three editors, each bound in its own way: one never selects; the nodes of the others stay at the top; and the last one
\* edits nothing, and is the one of which fairness is assumed.
OneIdea ==
    /\ writer = "editor" => held' = "no"
    /\ writer \in {"selector", "listener"} => {dbUp'[n] : n \in LiveNodes} \cup {up'[n] : n \in LiveNodes} = {Home}
    /\ writer = "listener" => ~unsaved'

AloneNext ==
    /\ \/ writer = "http" /\ HttpNext /\ UNCHANGED <<cmdVars, vars>>
       \/ writer = "command" /\ CmdNext /\ UNCHANGED <<httpVars, vars>>
       \/ writer \in Editors /\ LiveNext /\ OneIdea /\ UNCHANGED outline
    /\ UNCHANGED writer

\* The fairness of HttpFairSpec; and Bubble Tea runs every command and handles every message, saving and loading end one way
\* or the other, and a client that dials again and again finds a daemon or starts one.  Nothing is assumed of users.
Listens(A) == writer = "listener" /\ A
AloneSpec == AloneInit /\ [][AloneNext]_<<writer, outline, vars>>
FairSpec  ==
    /\ AloneSpec
    /\ \A h \in Handlers : WF_httpAll(Serve(h))
    /\ WF_vars(Listens(Attempt \/ Resyncing \/ ReceiveEvent))
    /\ SF_vars(Listens(Reopen))

\* A feed that is lost, or was never opened, is opened again: the command that waits for an event or a retry is always
\* followed by another one (editor.go:1059).
EditorHears == (writer = "listener" /\ link \in {"off", "cut"}) ~> link \in {"asked", "on"}

\* While only the HTTP API writes, no node is its own descendant (http.go:400).
NoneIsBelowItself == writer = "http" => NoOwnDescendant

\* The HTTP API never makes a node its own descendant, and no two live children of a node have one rank, whatever
\* requests of the API or commands of a terminal write (nodes.go:460, nodes.go:311, nodes.go:259).
TreeIsSound == writer \in {"http", "command"} => HttpTypeOK /\ CmdTypeOK /\ NoneIsBelowItself /\ RanksAreDistinct

\* What a request of the HTTP API or a command of a terminal creates or moves lands where it was asked to: right behind
\* the sibling that was named, in front of every other child of the parent or behind every other (http.go:237, mv.go:103,
\* add.go:79).
PlacesAreKept ==
    /\ LandsBehind
    /\ CommandLands
=============================================================================
