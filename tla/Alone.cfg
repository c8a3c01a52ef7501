SPECIFICATION FairSpec
CONSTANTS
    root = root
    a = a
    b = b
    c = c
    f1 = f1
    f2 = f2
    f3 = f3
    f4 = f4
    old = old
    Nodes = {root, a, b, c, f1, f2, f3, f4}
    Root = root
    None = None
    Texts = {old}
    InitTree <- SmallTree
    Sugs = {}
    Proposers = {}
    Reviewers = {}
    Offers = {}
    Handled = {}
    Handlers = {h1}
    Named = {a, b}
    MaxRequests = 3
    Shells = {d1}
    Known = {a}
    MaxLines = 2
    MaxCommands = 2
    new = new
    own = own
    LiveNodes = {a, b}
    LiveTexts = {new, own}
    Mine = {own}
    Theirs = {new}
    Edited = {b}
    Holds = {"selection"}
    Carried <- BMoves
    Home = Home
    Outside = Outside
    Echo = Echo
    Born = {a}
    First = new
    NoRow = NoRow
    Dead = Dead
    Absent = Absent
    Cap = 1
    MaxPending = 1
INVARIANTS
    ShowsTheStore
    OutlineIsShown
    TreeIsSound
PROPERTIES
    
    PlacesAreKept
    EveryRequestEnds
    EditorHears
CHECK_DEADLOCK FALSE
