SPECIFICATION Spec
CONSTANTS
  p1 = p1
  p2 = p2
  Places = {p1, p2}
  Unplaceable = {}
  Batch = 1
  MaxKeys = 4
  Capacity = 3
  MaxWeb = 0
  MaxEdits = 2
  MaxFaults = 0
  Faults = {}
  ReAdds = FALSE
  LateMarks = TRUE
INVARIANT CoveredIsKnown
CHECK_DEADLOCK FALSE
