SPECIFICATION Spec
CONSTANTS
  None = None
  Ids = {aria, bran}
  Ops = {o1, o2}
  UserKinds = {"open", "mutate"}
  AutosaveIs = {TRUE}
  Bare = {TRUE}
  Refused = {}
  Overlapping = {}
  UndoLimit = 2
  MaxStarts = 4
SYMMETRY SlotSymmetry
INVARIANTS UnsavedEditKept
CHECK_DEADLOCK FALSE
