SPECIFICATION Spec
CONSTANTS
    Sessions = {s1}
    Subs = {}
    Nodes = {n1}
    Flags = {}
    Quiet = {}
    MaxId = 2
    Cap = 1
    FetchFails = FALSE
INVARIANT TransactionsAreAtomic
CHECK_DEADLOCK FALSE
