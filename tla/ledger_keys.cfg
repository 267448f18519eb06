SPECIFICATION FairSpec
CONSTANTS
  Attempts = {a1, a2, a3}
  Commands <- KeyCommands
  Assets = {x, y, delisted}
  EligibleAssets = {x, y}
  x = x
  y = y
  delisted = delisted
  NoAsset = NoAsset
  NoFact = NoFact
  UnknownFact = UnknownFact
  NoAttempt = NoAttempt
  StartClock = 1
  MaxClock = 3
  Retention = 1
CHECK_DEADLOCK FALSE
INVARIANT LedgerInvariant
INVARIANT AtMostOncePerKey
INVARIANT ReplayAnswersOriginal
INVARIANT EvidenceMatchesFacts
PROPERTY RequestsFinish
