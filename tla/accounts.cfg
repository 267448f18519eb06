CONSTANTS
    Attempt = {r1, r2, r3}
    Email = {e1}
    Network = {n1}
    Password = {p1, p2}
    LoginNetwork = LoginNetwork
    RegistrationNetwork = RegistrationNetwork
    Key <- MCKey
    EmailKey <- MCEmailKey
    LoginKey <- MCLoginKey
    RegistrationKey <- MCRegistrationKey
    Limit <- MCLimit
    Window <- MCWindow
    Nobody = Nobody
    MaxClock = 1
    Lag = 0
    Faults = TRUE
SPECIFICATION Spec
CHECK_DEADLOCK FALSE
SYMMETRY Symmetry
INVARIANT RegistrationOwnsAccount
INVARIANT SessionsAccountedFor
PROPERTY UpgradedHashIsFinal
