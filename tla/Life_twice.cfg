SPECIFICATION DaemonsSpec
CONSTANTS
    root = root
    a = a
    b = b
    old = old
    new = new
    g1 = g1
    g2 = g2
    Nodes = {root, a, b}
    Root = root
    None = None
    Texts = {old}
    InitTree <- SmallTree
    Sugs = {g1}
    Proposers = {p1}
    Reviewers = {r1}
    Offers <- RemoveOnly
    Handled = {}
    Handlers = {h1}
    Named = {a}
    MaxRequests = 1
    Shells = {c1}
    Known = {b}
    MaxLines = 1
    MaxCommands = 1
    u1 = u1
    u2 = u2
    v1 = v1
    v2 = v2
    Clients = {u1, u2}
    MaxDaemons = 3
    Versions = {v1, v2}
    Nobody = Nobody
INVARIANT OneDaemon
CHECK_DEADLOCK FALSE
