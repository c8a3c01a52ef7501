--------------------------- MODULE MCSuggestions ---------------------------
(* The review queue on small instances for TLC. *)
EXTENDS Suggestions, TLC

CONSTANTS root, nodeA, nodeB, fresh, old, newText, g1, g2, r1, r2

\* root with the child a, a with the child b; one uuid nobody has used.
SmallTree ==
    [n \in Nodes |-> [there |-> n # fresh, deleted |-> FALSE, rank |-> 0, text |-> old,
                      parent |-> IF n = nodeA THEN root ELSE IF n = nodeB THEN nodeA ELSE None,
                      lock |-> {}, prio |-> IF n = nodeA THEN "top" ELSE "bottom"]]

Offered(k, n, t) == [kind |-> k, target |-> n, text |-> t, position |-> ""]
SmallOffers == {Offered("add", nodeA, old), Offered("remove", nodeA, old),
                Offered("change", nodeB, newText)}

ReviewSymmetry == Permutations({g1, g2}) \cup Permutations({r1, r2})
=============================================================================
