SPECIFICATION ImportSpec
CONSTANTS
  b1 = b1
  b2 = b2
  b3 = b3
  Books = {b1, b2, b3}
  NoKey = NoKey
  Cap = 2
  SessionSecs = {1}
  Epochs = {2}
  LegacyBooks <- MCLegacyBooks
  LegacyTotals <- MCLegacyTotals
  MaxSeq = 3
INVARIANTS
  TotalsCoverBooks
  ImportKeepsTheLatest
  FiguresSurvive
PROPERTY AtomicButLosses
