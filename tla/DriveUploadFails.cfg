SPECIFICATION Spec
CONSTANTS
  Devices = {laptop, phone}
  Keys = {aria}
  Docs = {1, 2, 3}
  Rank <- MCRank
  ConflictLimit = 25
  maxRemoteRetries = 1
  SharedAtStart = {TRUE}
  Overlap = FALSE
  EditsWhileSyncing = FALSE
  MaxFailures = 1
  MaxTime = 3
SYMMETRY DeviceSymmetry
INVARIANTS NothingLost
CHECK_DEADLOCK FALSE
