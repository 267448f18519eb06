CONSTANTS
    Tab = {t1, t2}
    User = {u1, u2}
    Clicks = 5
    Locks = TRUE
    Service = TRUE
    Network = TRUE
SPECIFICATION FairSpec
CHECK_DEADLOCK FALSE
 
PROPERTY TransitionsEnd
 
