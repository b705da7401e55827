SPECIFICATION Spec
CONSTANTS
  p1 = p1
  p2 = p2
  Places = {p1, p2}
  Unplaceable = {}
  Batch = 4
  MaxKeys = 4
  Capacity = 2
  MaxWeb = 1
  MaxEdits = 2
  MaxFaults = 1
  Faults = {"request", "reply", "ack", "mint", "put", "record", "cut", "power"}
  ReAdds = FALSE
  LateMarks = TRUE
INVARIANTS
  TypeOK
  DeletionsAreTheReaders
  CoveredIsKnown
  AcknowledgedIsHere
CHECK_DEADLOCK FALSE
