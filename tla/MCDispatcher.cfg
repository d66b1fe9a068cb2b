SPECIFICATION FairSpec
CONSTANTS
  Methods <- MCMethods
  KindOf <- MCKindOf
  Known <- MCKnown
  Handled <- MCHandled
  MaxCalls = 4
INVARIANTS
  TypeOK
  InOnePlace
  PendingIsUnsettled
  ServedInOrder
  NeverIdleWhileWaiting
PROPERTIES
  EveryCallSettles
  CallsSpec
CHECK_DEADLOCK FALSE
