SPECIFICATION Spec
CONSTANTS
  None = None
  Ids = {aria}
  Ops = {o1, o2, o3}
  UserKinds = {"open", "mutate", "durable", "save", "flush", "undo", "toggle", "remove", "reload"}
  AutosaveIs = {TRUE, FALSE}
  Bare = {TRUE, FALSE}
  Refused = {"timer", "flush", "save"}
  Overlapping = {}
  UndoLimit = 2
  MaxStarts = 5
SYMMETRY SlotSymmetry
INVARIANTS TypeOK CleanMeansStored UnsavedEditKept LoadedIsWhole CleanKeepsLastEdit NobodyWaitsInVain
CHECK_DEADLOCK FALSE
