SPECIFICATION GhostsSpec
CONSTANTS
    Top0 = "root"
    Foldable <- SmallForest
    Proposals <- SomeProposals
    Words = {"x"}
    MaxWords = 1
    MaxGhostSteps = 5
INVARIANT GhostsAreInPlace
CHECK_DEADLOCK FALSE
