SPECIFICATION PartSpec
CONSTANTS
    topNode = topNode
    root = root
    a = a
    b = b
    mirrorA = mirrorA
    o = o
    z = z
    tmp = tmp
    line1 = line1
    f1 = f1
    f2 = f2
    w = w
    None = None
    Items = {topNode, root, a, b, mirrorA, o, z, tmp, line1, f1, f2}
    Words = {w}
    Locked = {z}
    Downs = {topNode, a}
    Opened = root
    Top = topNode
    Scratch = tmp
    FirstLine = line1
    InitRows <- SmallOutline
    MaxUndo = 2
    MaxZoom = 2
    MaxSteps = 3
    Careless = {}
    Sizes <- SomeSizes
    FirstSize <- SmallScreen
    SbCap = 1
    MaxPrinted = 2
    MaxSequences = 2
    MaxItems = 3
    MaxCodes = 3
    FirstNames <- SomeNames
    FirstNotes <- SomeNotes
    FirstRuns <- SomeRuns
    Attributes = {"bold", "red"}
    MaxRunes = 9
    MaxTypingSteps = 3
    Pages <- SomePages
    MaxCaretKeys = 2
INVARIANTS
    StoredIsShown
    TreesAreSound
PROPERTIES
    TerminalIsTrue
    TextStaysWhole
    LinesAreAsDrawn
CHECK_DEADLOCK FALSE
