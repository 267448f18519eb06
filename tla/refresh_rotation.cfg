CONSTANTS
    Family = {f1}
    Request = {r1, r2, r3}
    IdleLifetime = 1
    AbsoluteLimit = 2
    NoSession = NoSession
    NoTime = NoTime
    MaxClock = 1
    Skew = 1
    Faults = TRUE
    Maintenance = TRUE
SPECIFICATION FairSpec
CHECK_DEADLOCK FALSE
INVARIANT FamiliesSound
 
INVARIANT LogoutIsFinal
INVARIANT EvidenceMatchesRows
PROPERTY ImplementsSingleUseTokens
PROPERTY EveryRequestAnswered
