SPECIFICATION AroundSpec
CONSTANTS
    root = root
    nodeA = nodeA
    nodeB = nodeB
    Nodes = {root, nodeA, nodeB}
    Root = root
    Texts = {"", "x"}
    Empty = ""
    Marks = {"plain", "done"}
    Plain = "plain"
    NoRow = NoRow
    Closed = Closed
    InitTable <- SmallTable
    MaxUndo = 2
    MaxCalls = 2
    MaxEvents = 1
    MaxSteps = 4
    NoBand = NoBand
    NoScreen = NoScreen
    NoOutput = NoOutput
    MaxRuns = 2
    MaxBatches = 1
    MaxKeys = 3
    Plain0 = {p}
    Agents0 = {g}
    Theirs0 = {q}
    Titles = {"", "x"}
    Untitled = ""
    Unfiled = Unfiled
    MaxPast = 3
    MaxChipSteps = 4
    Objects = {"a", "b", "c", "d"}
    Notes = {"d"}
    Papers = {"a", "b"}
    Top = "top"
    Away = "away"
    MaxFetch = 4
    RemoteStarts <- SomeRemotes
    MaxPullSteps = 4
    Cands <- SomeNodes
    Day = 2
    Runnable <- SomeQueries
    MaxHits = 2
    BatchOf = 2
    MaxRunSteps = 3
    MaxQueryRuns = 2
    Tables <- SomeTables
    NaturalWidths <- SomeWidths
    Available = {0, 9, 14, 20, 26}
    MinWidth = 3
    MaxWidth = 9
    MaxCaretText = 6
    MaxTableKeys = 4
    Insertions <- SomeInsertions
    Control = {"CR"}
    Top0 = "root"
    Foldable <- SmallForest
    Proposals <- SomeProposals
    Words = {"x", "y"}
    MaxWords = 2
    MaxGhostSteps = 5
    Desks <- SomeDesks
    RowShapes <- SomeShapes
    Heights = {4, 7, 11}
    BarSizes = {1, 2}
    MaxRegion = 4
    MaxLayoutSteps = 3
    Outlines <- SomeOutlines
    MaxMenuSteps = 5
    Markdowns <- SomeMarkdown
    Pythons <- SomePython
    Rusts <- SomeRust
    MaxLines = 3
    MaxRows = 2
    NewRows <- SomeNewRows
    Boards <- SomeBoards
    Elsewhere0 <- PastedTexts
    MaxClips = 2
    Alphabet <- SomeLetters
    ChipText <- SomeChips
    Screens <- SomeScreens
    MaxFlashKeys = 5
    Asked0 <- SomeSums
    Openings <- SomeOpenings
    Consts <- SomeConsts
    EnvNames <- SomeVars
    MaxDepth = 3
INVARIANTS
    PhoneIsTrue
    RunsAreAccountedFor
    ChipsFollowTheText
    FilesReopenTheSame
    FlashLandsWhereItSays
PROPERTIES
    MirrorIsFaithful
    ResultsAreOfTheQuery
    GridKeepsItsRows
    ProposalsAreShownTruly
    ScreenIsAsLaid
    MenusTakeBackTheirOwn
    CopiesComeBack
    SumsMeanOneThing
CHECK_DEADLOCK FALSE
