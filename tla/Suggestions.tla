---------------------------- MODULE Suggestions ----------------------------
(***************************************************************************)
(* The review queue (tui/database/suggestion.go, tui/cli/suggest, the      *)
(* editor's answerSuggest): a suggestion is proposed against a node, waits *)
(* as inert data, and is approved or rejected once.  Proposers, reviewers, *)
(* deletes and edits are clients of one daemon and interleave; what one    *)
(* transaction does is one step, because it holds the Store's write lock   *)
(* (module Store).  The checks a reviewer makes before the transaction are *)
(* steps of their own.                                                     *)
(***************************************************************************)
EXTENDS Tree

CONSTANTS
    Sugs,        \* the suggestions there can be
    Proposers,   \* clients that run lflow suggest add, change or remove
    Reviewers,   \* clients that approve and reject: the CLI, the editor
    Offers,      \* bound: what proposers propose
    Handled      \* bound: the nodes that other clients rename and lock

VARIABLES
    sugs,      \* the suggestions table
    draft,     \* what a proposer is about to insert, its target already read
    rev,       \* where a reviewer is, and with which suggestion
    applied    \* ghost: how often each suggestion's change was written

sugVars == <<sugs, draft, rev, applied>>

Kinds   == {"add", "remove", "change"}
Settled == {"approved", "rejected"}
NoDraft == [kind |-> "none"]
Offer   == [kind : Kinds, target : Nodes, text : Texts, position : Positions]
Draft   == [kind : Kinds, target : Nodes, text : Texts, base : Texts, position : Positions]
Sug     == [state : {"none", "pending"} \cup Settled, kind : Kinds, target : Nodes,
            text : Texts, base : Texts, position : Positions, result : Nodes \cup {None}]
Idle    == [pc |-> "idle"]
Review  == [pc : {"gone", "drift", "apply", "reject"}, s : Sugs, force : BOOLEAN]

ASSUME OfferAssumption == Offers \subseteq Offer

\* What the daemon starts on has no live node under a deleted one.
ASSUME InitTreeIsWhole ==
    \A n \in Nodes \ {Root} : InitTree[n].there /\ ~InitTree[n].deleted =>
        LET p == InitTree[n].parent IN p \in Nodes /\ InitTree[p].there /\ ~InitTree[p].deleted

SuggestTypeOK ==
    /\ TreeTypeOK
    /\ sugs \in [Sugs -> Sug]
    /\ draft \in [Proposers -> Draft \cup {NoDraft}]
    /\ rev \in [Reviewers -> Review \cup {Idle}]
    /\ applied \in [Sugs -> Nat]

Blank == [state |-> "none", kind |-> "add", target |-> Root, text |-> nodes[Root].text,
          base |-> nodes[Root].text, position |-> "", result |-> None]

SuggestInit ==
    /\ nodes = InitTree
    /\ sugs = [s \in Sugs |-> Blank]
    /\ draft = [p \in Proposers |-> NoDraft]
    /\ rev = [r \in Reviewers |-> Idle]
    /\ applied = [s \in Sugs |-> 0]

Pending(s) == sugs[s].state = "pending"
Unused     == {n \in Nodes : ~nodes[n].there}
NewUuid    == CHOOSE n \in Unused : TRUE     \* which one it is makes no difference
RowOf(r)   == IF r.node = None THEN NewUuid ELSE r.node     \* what a request or a command places

-----------------------------------------------------------------------------
(* The statements on the suggestions table.                                *)

\* Mutant: a suggestion settled already is settled again.
MarkAll(S, state) == [s \in Sugs |-> IF s \in S THEN [sugs[s] EXCEPT !.state = state] ELSE sugs[s]]

\* UPDATE suggestions SET status = state WHERE uuid IN (S) AND status = pending
Mark(S, state) ==
    [s \in Sugs |-> IF s \in S /\ Pending(s) THEN [sugs[s] EXCEPT !.state = state] ELSE sugs[s]]

About(S) == {s \in Sugs : sugs[s].target \in S}

\* Mutants: nothing is settled; nothing is spared.
SettleNone(S, spared)  == sugs
SettleAll(S, spared)   == Mark(About(S), "rejected")

\* SettleSuggestionsStmt: every pending suggestion about one of the nodes S is
\* rejected; settleSuggestionsFor spares the removal that deletes them.
SettledFor(S, spared) == Mark(About(S) \ spared, "rejected")

-----------------------------------------------------------------------------
(* Proposing: the target is resolved, then the suggestion is stored.       *)

Resolve(p) ==
    /\ draft[p] = NoDraft
    /\ \E o \in Offers :
         /\ There(o.target)
         /\ draft' = [draft EXCEPT ![p] =
                [kind |-> o.kind, target |-> o.target, text |-> o.text, position |-> o.position,
                 base |-> IF o.kind = "change" THEN nodes[o.target].text ELSE o.text]]
    /\ UNCHANGED <<nodes, sugs, rev, applied>>

Propose(p) ==
    /\ draft[p] # NoDraft
    /\ \E s \in Sugs :
         /\ sugs[s].state = "none"
         /\ sugs' = [sugs EXCEPT ![s] =
                [state |-> "pending", kind |-> draft[p].kind, target |-> draft[p].target,
                 text |-> draft[p].text, base |-> draft[p].base,
                 position |-> draft[p].position, result |-> None]]
    /\ draft' = [draft EXCEPT ![p] = NoDraft]
    /\ UNCHANGED <<nodes, rev, applied>>

-----------------------------------------------------------------------------
(* Reviewing.                                                              *)

Step(r, l) == rev' = [rev EXCEPT ![r].pc = l]
Leave(r)   == rev' = [rev EXCEPT ![r] = Idle]

\* The suggestion is read; one that is settled already is skipped.  The CLI asks
\* first whether the target is gone, the editor, which never forces, does not.
Open(r) ==
    /\ rev[r] = Idle
    /\ \E s \in Sugs, l \in {"gone", "drift", "reject"}, f \in BOOLEAN :
         /\ Pending(s)
         /\ f => l = "gone"
         /\ rev' = [rev EXCEPT ![r] = [pc |-> l, s |-> s, force |-> f]]
    /\ UNCHANGED <<nodes, sugs, draft, applied>>

\* TargetGone: a suggestion about a deleted node is skipped.
CheckGone(r) ==
    /\ rev[r].pc = "gone"
    /\ IF Live(sugs[rev[r].s].target)
       THEN Step(r, IF rev[r].force THEN "apply" ELSE "drift")
       ELSE Leave(r)
    /\ UNCHANGED <<nodes, sugs, draft, applied>>

\* TargetDrifted: the node says something else than when the change was proposed.
Drifted(s) == sugs[s].kind = "change" /\ nodes[sugs[s].target].text # sugs[s].base

CheckDrift(r) ==
    /\ rev[r].pc = "drift"
    /\ IF Drifted(rev[r].s) THEN Leave(r) ELSE Step(r, "apply")
    /\ UNCHANGED <<nodes, sugs, draft, applied>>

\* What applyAdd, applyRemove and applyChange refuse, inside the transaction.
Applicable(s) ==
    LET row == nodes[sugs[s].target] IN
    /\ Live(sugs[s].target)
    /\ sugs[s].kind = "add"    => "structure" \notin row.lock /\ Unused # {}
    /\ sugs[s].kind = "remove" => row.lock = {}
    /\ sugs[s].kind = "change" => "content" \notin row.lock

\* The suggestions after the sweep of a delete, before the approval is settled.
AfterSweep(s) ==
    IF sugs[s].kind = "remove" THEN SettledFor(Subtree(sugs[s].target), {s}) ELSE sugs

\* The nodes after the change, an added node taking the uuid c.
AfterChange(s, c) ==
    LET t == sugs[s].target
        p == Resolved(t, sugs[s].position)
    IN  CASE sugs[s].kind = "add"    -> Inserted(c, t, RankAt(t, p), "top", sugs[s].text)
          [] sugs[s].kind = "remove" -> Tombstoned(Subtree(t))
          [] sugs[s].kind = "change" -> Renamed(t, sugs[s].text)

\* Mutant: the status is not asked for when the approval is settled.
SettlesAlways(s) == Applicable(s)

\* settle finds the suggestion pending, so the transaction can commit.
Commits(s) == Applicable(s) /\ AfterSweep(s)[s].state = "pending"

\* ApplySuggestion: the change and the status, or neither.
Apply(r) ==
    LET s == rev[r].s IN
    /\ rev[r].pc = "apply"
    /\ Commits(s)
    /\ \E c \in IF sugs[s].kind = "add" THEN Unused ELSE {None} :
         /\ nodes' = AfterChange(s, c)
         /\ sugs' = [AfterSweep(s) EXCEPT ![s].state = "approved", ![s].result = c]
    /\ applied' = [applied EXCEPT ![s] = @ + 1]
    /\ Leave(r)
    /\ UNCHANGED draft

Refused(r) ==
    /\ rev[r].pc = "apply"
    /\ ~Commits(rev[r].s)
    /\ Leave(r)
    /\ UNCHANGED <<nodes, sugs, draft, applied>>

\* RejectSuggestion: settled if it is still pending, an error if it is not.
Reject(r) ==
    /\ rev[r].pc = "reject"
    /\ sugs' = Mark({rev[r].s}, "rejected")
    /\ Leave(r)
    /\ UNCHANGED <<nodes, draft, applied>>

-----------------------------------------------------------------------------
(* The other clients.                                                      *)

\* MarkSubtreeDeleted in a transaction (lflow remove); the editor's save does
\* the same for the rows its user deleted.
RemoveTx(n) ==
    /\ There(n)
    /\ nodes' = Tombstoned(Subtree(n))
    /\ sugs' = SettledFor(Subtree(n), {})
    /\ UNCHANGED <<draft, rev, applied>>

Edit(n, t) ==
    /\ n \in Handled /\ Live(n) /\ nodes[n].text # t
    /\ nodes' = Renamed(n, t)
    /\ UNCHANGED sugVars

SetLock(n, l) ==
    /\ n \in Handled /\ Live(n) /\ nodes[n].lock # l
    /\ nodes' = [nodes EXCEPT ![n].lock = l]
    /\ UNCHANGED sugVars

\* SweepStaleSuggestions, when a daemon starts.
Boot ==
    /\ sugs' = Mark({s \in Sugs : ~Live(sugs[s].target)}, "rejected")
    /\ UNCHANGED <<nodes, draft, rev, applied>>

ProposeNext == \E p \in Proposers : Resolve(p) \/ Propose(p)
ReviewNext  == \E r \in Reviewers : \/ Open(r) \/ CheckGone(r) \/ CheckDrift(r)
                                    \/ Apply(r) \/ Refused(r) \/ Reject(r)
OtherNext   == \/ \E n \in Nodes : RemoveTx(n)
               \/ \E n \in Nodes, t \in Texts : Edit(n, t)
               \/ \E n \in Nodes, l \in SUBSET Locks : SetLock(n, l)
               \/ Boot

SuggestNext == ProposeNext \/ ReviewNext \/ OtherNext
SuggestSpec == SuggestInit /\ [][SuggestNext]_<<nodes, sugVars>>

-----------------------------------------------------------------------------
(* Properties.                                                             *)

\* The WARNING of suggestion.go:71, and "an approval never applies twice": the
\* change of an approved suggestion was written exactly once, and that of any
\* other was never written, however reviewers, deletes and sweeps interleave.
AppliedOnce ==
    \A s \in Sugs : applied[s] = IF sugs[s].state = "approved" THEN 1 ELSE 0

\* A verdict is final: no later review, delete or sweep changes it.
VerdictIsFinal ==
    [][\A s \in Sugs : sugs[s].state \in Settled => sugs'[s] = sugs[s]]_<<nodes, sugVars>>

\* What the approval of s leaves behind.  An added node is new, has the proposed text and is the first
\* or the last child of its parent; a change touches the text alone; a removal takes the subtree and
\* nothing else, and turns down only what was proposed about that subtree.
AsProposed(s) ==
    LET t    == sugs[s].target
        gone == IF sugs[s].kind = "remove" THEN Subtree(t) ELSE {}
    IN  /\ sugs[s].kind = "add" =>
             \E c \in Unused :
                /\ sugs'[s].result = c
                /\ nodes'[c].there /\ ~nodes'[c].deleted
                /\ nodes'[c].parent = t /\ nodes'[c].text = sugs[s].text
                /\ \A k \in Children(t) : IF Resolved(t, sugs[s].position) = "top"
                                          THEN nodes'[c].rank < nodes[k].rank
                                          ELSE nodes[k].rank < nodes'[c].rank
                /\ \A n \in Nodes \ {c} : nodes'[n] = nodes[n]
        /\ sugs[s].kind = "change" =>
             \A n \in Nodes : IF n = t THEN /\ nodes'[n].text = sugs[s].text
                                          /\ nodes'[n] = [nodes[n] EXCEPT !.text = nodes'[n].text]
                                     ELSE nodes'[n] = nodes[n]
        /\ sugs[s].kind = "remove" =>
             \A n \in Nodes : IF n \in gone THEN nodes'[n] = [nodes[n] EXCEPT !.deleted = TRUE]
                                        ELSE nodes'[n] = nodes[n]
        /\ \A q \in Sugs \ {s} : sugs'[q] # sugs[q] => sugs[q].target \in gone /\ sugs'[q].state = "rejected"

\* A step that approves a suggestion writes what was proposed, where it was proposed, and nothing beside it.
WritesAsProposed ==
    [][\A s \in Sugs : Pending(s) /\ sugs'[s].state = "approved" => AsProposed(s)]_<<nodes, sugVars>>

\* The removal a reviewer approves is not settled by its own sweep: an approval
\* that nothing stands against ends approved.
ApprovalLands ==
    [][\A r \in Reviewers :
          rev[r].pc = "apply" /\ rev'[r] = Idle =>
             LET s == rev[r].s IN
             Pending(s) /\ Live(sugs[s].target) /\ nodes[sugs[s].target].lock = {} /\ Unused # {}
                => sugs'[s].state = "approved"]_<<nodes, sugVars>>

\* The step that deletes a node leaves no pending suggestion about it
\* (suggestion.go:391, "the delete has to settle them as part of the same change").
DeleteSettles ==
    [][\A n \in Nodes : Live(n) /\ nodes'[n].deleted =>
          \A s \in Sugs : sugs[s].target = n => sugs'[s].state # "pending"]_<<nodes, sugVars>>

\* Approvals and deletes by transaction leave no live node under a deleted one:
\* a node is never added below a parent that is being deleted.
NothingUnderATombstone == NoOrphans

\* A stale proposal does not overwrite newer text unless the reviewer forces it
\* (review.go:87, editor/suggest.go:492).
NewerTextIsKept ==
    [][\A r \in Reviewers :
          rev[r].pc = "apply" /\ rev'[r] = Idle /\ ~rev[r].force =>
             LET s == rev[r].s IN
             applied'[s] # applied[s] /\ sugs[s].kind = "change"
                => nodes[sugs[s].target].text = sugs[s].base]_<<nodes, sugVars>>

\* An approval that nothing stands against ends approved; the step that approves writes the proposed
\* node, text or removal and changes no other row and no suggestion but those about the rows it removed;
\* and no live node is left under a tombstone (suggestion.go:440-480, :496, :540, :573).
ApprovalsHold ==
    /\ [](SuggestTypeOK /\ NothingUnderATombstone)
    /\ ApprovalLands
    /\ WritesAsProposed
=============================================================================
