CONSTANTS
    NoAsset = NoAsset
    NoFact = NoFact
    Times = {1, 2}
    Limit = 2
    Filters <- MCFilters
    MaxFacts = 5
SPECIFICATION Spec
CHECK_DEADLOCK FALSE
INVARIANT WalkIsExact
INVARIANT ReversalsNameTheirOriginal
