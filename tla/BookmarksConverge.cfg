SPECIFICATION FairSpec
CONSTANTS
  p1 = p1
  p2 = p2
  Places = {p1, p2}
  Unplaceable = {p2}
  Batch = 2
  MaxKeys = 4
  Capacity = 4
  MaxWeb = 1
  MaxEdits = 2
  MaxFaults = 1
  Faults = {"request", "reply", "mint", "put", "retain", "cleared"}
  ReAdds = FALSE
  LateMarks = TRUE
PROPERTY
  Converges
CHECK_DEADLOCK FALSE
