SPECIFICATION SuggestSpec
CONSTANTS
    root = root
    nodeA = nodeA
    nodeB = nodeB
    fresh = fresh
    old = old
    newText = newText
    g1 = g1
    g2 = g2
    r1 = r1
    r2 = r2
    Nodes = {root, nodeA, nodeB, fresh}
    Root = root
    None = None
    Texts = {old, newText}
    InitTree <- SmallTree
    Sugs = {g1, g2}
    Proposers = {p1}
    Reviewers = {r1, r2}
    Offers <- SmallOffers
    Handled = {nodeB}
PROPERTY NewerTextIsKept
CHECK_DEADLOCK FALSE
