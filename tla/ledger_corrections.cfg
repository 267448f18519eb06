SPECIFICATION Spec
CONSTANTS
  Attempts = {a1, a2, a3, a4}
  Commands <- CorrectionCommands
  Assets = {x, y, delisted}
  EligibleAssets = {x, y}
  x = x
  y = y
  delisted = delisted
  NoAsset = NoAsset
  NoFact = NoFact
  UnknownFact = UnknownFact
  NoAttempt = NoAttempt
  StartClock = 2
  MaxClock = 2
  Retention = 1
  Samples <- SmallLedgers
SYMMETRY AttemptSymmetry
CHECK_DEADLOCK FALSE
INVARIANT NoNegativePosition
INVARIANT SequenceGapFree
INVARIANT CorrectionGroups
INVARIANT CorrectionsCancel
INVARIANT ScanIsReplay
PROPERTY Serializable
PROPERTY NothingAfterArchive
