------------------------------ MODULE MCGhosts ------------------------------
(* The surface for proposals on a small outline for TLC. *)
EXTENDS Ghosts, TLC

\* Below the root, a (with a child) and b; what is proposed for them.
SmallForest == [n \in {"root", "a", "a1", "b"} |-> CASE n = "root" -> <<"a", "b">> [] n = "a" -> <<"a1">> [] OTHER -> <<>>]
Proposal0(what, where, pinned) == [kind |-> what, target |-> where, top |-> pinned]
SomeProposals ==
    [s \in {"g1", "g2", "g3", "g4"} |-> CASE s = "g1" -> Proposal0("add", "a", TRUE) [] s = "g2" -> Proposal0("add", "b", FALSE)
                                 [] s = "g3" -> Proposal0("change", "a1", FALSE) [] s = "g4" -> Proposal0("remove", "b", FALSE)]
=============================================================================
