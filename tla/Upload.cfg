SPECIFICATION Spec
CONSTANTS
  Plausible = 20
  Horizon = 23
  EraSlots = 2
  MaxOff = 1
  MaxDrift = 1
  MaxSyncs = 2
  MaxRestarts = 1
  Faults = {"erase"}
  BatchSize = 1
  MaxQueued = 2
  MaxEvents = 3
INVARIANTS TypeOK Dated Chronological
PROPERTY KeptUntilSent
CHECK_DEADLOCK FALSE
