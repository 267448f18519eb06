CONSTANTS
    Attempt = {a1, a2, a3, a4}
    Key = {k1}
    Limit <- MCLimit
    Window <- MCWindow
    MaxClock = 5
    Lag = 1
    Maintenance = TRUE
    Never = Never
SPECIFICATION Spec
CHECK_DEADLOCK FALSE
SYMMETRY Symmetry
INVARIANT LimitHolds
PROPERTY RetryAfterHonest
