SPECIFICATION Spec
CONSTANTS
  None = None
  Rules <- MCRules
  Elem <- MCElem
  Needs <- MCNeeds
  Duplicable = {}
  BasePool <- MCBasePool
  MAX_LEVEL = 3
  Variant <- MCVariant
  LevelId <- MCLevelId
  StartId <- MCStartId
  OPTION_MULTICLASSING = "multiclassing"
  PREREQUISITE = "prerequisite"
  OptionIds = {"multiclassing"}
  Grantable = {"boon"}
  MaxRequests = 5
  Starts <- MCStarts
CHECK_DEADLOCK FALSE
INVARIANTS
  TypeOK
  EarnedPicks
  RoundTrip
PROPERTIES
  SumFollowsTree
  StillRemovable
  SettledAfter
  OneLevelOff
  PicksKept
