SPECIFICATION Spec
CONSTANTS
  Devices = {laptop, phone}
  Keys = {aria, brom}
  Docs = {1, 2}
  Rank <- MCRank
  ConflictLimit = 25
  maxRemoteRetries = 1
  SharedAtStart = {TRUE}
  Overlap = TRUE
  EditsWhileSyncing = FALSE
  MaxFailures = 0
  MaxTime = 1
SYMMETRY DeviceSymmetry
PROPERTIES DeletedOnlyIfAsked
CHECK_DEADLOCK FALSE
