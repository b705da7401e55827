SPECIFICATION NewCardSpec
CONSTANTS
  b1 = b1
  b2 = b2
  b3 = b3
  Books = {b1, b2, b3}
  NoKey = NoKey
  Cap = 2
  SessionSecs = {0, 1}
  Epochs = {2}
  LegacyBooks <- MCLegacyBooks
  LegacyTotals <- MCLegacyTotals
  MaxSeq = 4
SYMMETRY BookSymmetry
INVARIANTS
  TypeOK
  LiveCopyIntact
  SpareSlot
  RowsMatchIndex
  CallAgreesWithCard
PROPERTY Atomic
