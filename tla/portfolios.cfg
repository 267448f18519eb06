CONSTANTS
    Portfolio = {f1, f2}
    Owner = {o1, o2}
    Name <- MCName
    Folded <- MCFolded
    Request = {r1, r2}
    MaxClock = 2
    Lag = 1
    Faults = TRUE
SPECIFICATION Spec
CHECK_DEADLOCK FALSE
SYMMETRY Symmetry
INVARIANT RowsReadable
INVARIANT ActiveNamesDiffer
INVARIANT OwnersNeverMeet
INVARIANT AnswersExplained
