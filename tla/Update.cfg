SPECIFICATION Spec
CONSTANTS
  Paths = {"fw", "old"}
  Source <- MCSource
  Earlier <- MCEarlier
  Coalesce = 2
  Polls = 2
  Tries = 2
  Faults = {"lose", "garble", "create", "write", "flush", "close", "remove", "read", "power"}
  MaxFaults = 1
  MaxOps = 2
  Images <- MCImages
  Factory <- MCFactory
  Releases <- MCReleases
  Alien = {7}
  Lengths = TRUE
  MaxSeq = 3
INVARIANTS TypeOK StoredWhole ReceivedWhole NoPartLeft NextBootIsMeant UpdateTakesEffect GivenUpForGood
PROPERTIES CommandEnds DeviceComesBack
CHECK_DEADLOCK FALSE
