SPECIFICATION Spec
CONSTANTS
  p1 = p1
  p2 = p2
  Places = {p1, p2}
  Unplaceable = {}
  Batch = 4
  MaxKeys = 4
  Capacity = 3
  MaxWeb = 0
  MaxEdits = 2
  MaxFaults = 1
  Faults = {"cleared"}
  ReAdds = FALSE
  LateMarks = FALSE
INVARIANT DeletionsAreTheReaders
CHECK_DEADLOCK FALSE
