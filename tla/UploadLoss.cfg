SPECIFICATION Spec
CONSTANTS
  Plausible = 20
  Horizon = 24
  EraSlots = 2
  MaxOff = 2
  MaxDrift = 0
  MaxSyncs = 1
  MaxRestarts = 1
  Faults = {}
  BatchSize = 1
  MaxQueued = 2
  MaxEvents = 2
PROPERTY LossOpensEra
CHECK_DEADLOCK FALSE
