SPECIFICATION HostSpec
CONSTANTS
    root = root
    nodeA = nodeA
    nodeB = nodeB
    fresh = fresh
    old = old
    newText = newText
    g1 = g1
    g2 = g2
    r1 = r1
    r2 = r2
    Nodes = {root, nodeA, nodeB, fresh}
    Root = root
    None = None
    Texts = {old, newText}
    InitTree <- SmallTree
    Sugs = {g1, g2}
    Proposers = {p1}
    Reviewers = {r1, r2}
    Offers <- SmallOffers
    Handled = {nodeB}
    Limit = 2
    Cap = 4
    MaxRecords = 3
    Width = 3
    Layouts <- SomeStores
    FileCap = 3
    BatchSize = 2
    ChanCap = 2
    MaxScans = 2
    MuxIds = {"n", "m"}
    NoSession = NoSession
    MaxBytes = 2
    MaxSessions = 2
    ChunkCap = 1
    EventCap = 1
    BatchCap = 2
    Overlap = 3
    Replies = {1, 2, 4}
    MaxQueries = 3
    IdleConfirmAfter = 2
    MaxTicks = 6
    MaxEdits = 1
    MaxSaves = 2
    MaxOthers = 3
    MaxFailures = 1
SYMMETRY ReviewSymmetry
INVARIANTS
    AppliedOnce
    AgentsAreFound
    TerminalsAreServed
PROPERTIES
    ApprovalsHold
    VerdictIsFinal
    DeleteSettles
    SavesLoseNothing
CHECK_DEADLOCK FALSE
