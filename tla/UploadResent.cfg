SPECIFICATION Spec
CONSTANTS
  Plausible = 20
  Horizon = 25
  EraSlots = 2
  MaxOff = 2
  MaxDrift = 0
  MaxSyncs = 2
  MaxRestarts = 1
  Faults = {"erase"}
  BatchSize = 1
  MaxQueued = 2
  MaxEvents = 2
INVARIANT ResentUnchanged
CHECK_DEADLOCK FALSE
