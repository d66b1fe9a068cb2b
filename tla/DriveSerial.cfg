SPECIFICATION Spec
CONSTANTS
  Devices = {laptop, phone}
  Keys = {aria, brom}
  Docs = {1, 2, 3}
  Rank <- MCRank
  ConflictLimit = 25
  maxRemoteRetries = 1
  SharedAtStart = {TRUE, FALSE}
  Overlap = FALSE
  EditsWhileSyncing = FALSE
  MaxFailures = 0
  MaxTime = 2
SYMMETRY DeviceSymmetry
INVARIANTS NothingLost ConflictsAreConcurrent
PROPERTIES NoRegress
CHECK_DEADLOCK FALSE
