SPECIFICATION HandSpec
CONSTANTS
    topNode = topNode
    root = root
    a = a
    b = b
    mirrorA = mirrorA
    o = o
    z = z
    tmp = tmp
    line1 = line1
    f1 = f1
    f2 = f2
    w = w
    None = None
    Items = {topNode, root, a, b, mirrorA, o, z, tmp, line1, f1, f2}
    Words = {w}
    Locked = {z}
    Downs = {topNode, a}
    Opened = root
    Top = topNode
    Scratch = tmp
    FirstLine = line1
    InitRows <- SmallOutline
    MaxUndo = 2
    MaxZoom = 2
    MaxSteps = 3
    Careless = {"astray"}
INVARIANT OnlyTheDeletedDie
CHECK_DEADLOCK FALSE
