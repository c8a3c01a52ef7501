SPECIFICATION LiveSpec
CONSTANTS
    LiveNodes = {a}
    LiveTexts = {old, new, own}
    Mine = {own}
    Theirs = {new}
    Edited = {a}
    Holds = {"selection"}
    Carried = {}
    Home = Home
    Outside = Outside
    Echo = Echo
    Born = {a}
    First = old
    NoRow = NoRow
    Dead = Dead
    Absent = Absent
    Cap = 1
    MaxPending = 1
INVARIANT ChangesArrive
CHECK_DEADLOCK FALSE
