SPECIFICATION FairSpec
CONSTANTS
  Devices = {laptop, phone}
  Keys = {aria}
  Docs = {1, 2}
  Rank <- MCRank
  ConflictLimit = 25
  maxRemoteRetries = 1
  SharedAtStart = {TRUE, FALSE}
  Overlap = FALSE
  EditsWhileSyncing = FALSE
  MaxFailures = 1
  MaxTime = 2
PROPERTIES DeletedOnlyIfAsked Converges
CHECK_DEADLOCK FALSE
