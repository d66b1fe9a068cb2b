SPECIFICATION FairService
CONSTANTS
  Devices = {"laptop", "phone"}
  Pages = {tab1, tab2}
  DeviceOf <- MCDeviceOf
  Keys = {aria}
  Docs = {1, 2}
  Rank <- MCRank
  ConflictLimit = 25
  maxRemoteRetries = 1
  SharedAtStart = {TRUE, FALSE}
  Overlap = TRUE
  EditsWhileSyncing = FALSE
  AtStart = {{tab1}, {tab1, tab2}}
  TornMetadata = FALSE
  MaxRequests = 3
  MaxFaults = 1
  MaxFailures = 6
  MaxTime = 1
INVARIANTS ServiceTypeOK OneLeader
PROPERTIES SyncsAsOne SyncsSettle BusyEnds
CHECK_DEADLOCK FALSE
