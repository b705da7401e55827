SPECIFICATION FairSpec
CONSTANTS
  p1 = p1
  p2 = p2
  Passages = {p1, p2}
  Unfindable = {p2}
  Unplaceable = {}
  Batch = 4
  MaxKeys = 4
  Capacity = 2
  WebDates = {3}
  MaxWeb = 1
  MaxEdits = 2
  MaxFaults = 1
  Faults = {"request", "reply", "ack", "mint", "book", "put", "record", "save", "cut", "retain", "short", "power"}
INVARIANTS
  TypeOK
  DeletionsAreTheReaders
  CoveredIsKnown
  AcknowledgedIsHere
  ReceivedOnce
PROPERTY Converges
CHECK_DEADLOCK FALSE
