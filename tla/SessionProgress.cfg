SPECIFICATION FairSpec
CONSTANTS
  None = None
  Ids = {aria, bran}
  Ops = {o1, o2}
  UserKinds = {"open", "mutate", "durable", "save", "flush", "undo", "discard", "toggle", "remove", "reload"}
  AutosaveIs = {TRUE, FALSE}
  Bare = {TRUE}
  Refused = {}
  Overlapping = {"open", "edit"}
  UndoLimit = 2
  MaxStarts = 4
PROPERTIES OperationsEnd EditsGetStored
CHECK_DEADLOCK FALSE
