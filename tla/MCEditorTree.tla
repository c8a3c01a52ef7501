---------------------------- MODULE MCEditorTree ----------------------------
(* A small outline: the root with a, which holds b, and a mirror of a; beside *)
(* the root a node nobody has loaded, with a locked child.                    *)
EXTENDS EditorTree, TLC
CONSTANTS topNode, root, a, b, mirrorA, o, z, tmp, line1, f1, f2, w
Placed4(p, r, s) == [parent |-> p, rank |-> r, name |-> IF s = None THEN {w} ELSE {}, mirror |-> s, dead |-> FALSE]
SmallOutline ==
    [n \in Items |-> CASE n = topNode -> Placed4(None, 0, None) [] n = root -> Placed4(topNode, 0, None)
                       [] n = o -> Placed4(topNode, 1, None) [] n = a -> Placed4(root, 0, None)
                       [] n = z -> Placed4(o, 0, None)
                       [] n = b -> Placed4(a, 0, None) [] n = mirrorA -> Placed4(root, 1, a)
                       [] OTHER -> None]

\* Bound: the groups of operations one behaviour uses, Flush and undo aside, and
\* how many of them.
Hands == {<<{"typing"}, 3>>, <<{"typing", "selecting"}, 2>>, <<{"typing", "shaping"}, 2>>, <<{"shaping"}, 3>>,
          <<{"selecting"}, 3>>, <<{"crossing", "typing"}, 2>>,
          <<{"looking", "shaping"}, 2>>, <<{"looking", "typing"}, 2>>, <<{"moving"}, 3>>,
          <<{"moving", "mirroring", "typing"}, 2>>, <<{"moving", "mirroring", "crossing"}, 2>>}
VARIABLE hand
HandInit == EditorInit /\ hand \in Hands
Uses(group) == group \in hand[1]
Left == steps < hand[2]
HandNext ==
    /\ UNCHANGED hand
    /\ \/ Left /\ Uses("typing") /\ Typing
       \/ Left /\ Uses("shaping") /\ Shaping
       \/ Left /\ Uses("selecting") /\ Selecting
       \/ Left /\ Uses("mirroring") /\ Mirroring
       \/ Left /\ Uses("moving") /\ Moving
       \/ Uses("crossing") /\ Crossing
       \/ Uses("looking") /\ Looking
       \/ Left /\ Rewinding
       \/ Flush
    /\ steps' <= hand[2]
HandSpec == HandInit /\ [][HandNext]_<<vars, hand>>
=============================================================================
