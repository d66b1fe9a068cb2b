SPECIFICATION Spec
CONSTANTS
  None = None
  Ids = {aria}
  Ops = {o1, o2}
  UserKinds = {"open", "mutate", "flush"}
  AutosaveIs = {TRUE}
  Bare = {TRUE}
  Refused = {}
  Overlapping = {}
  UndoLimit = 2
  MaxStarts = 5
SYMMETRY SlotSymmetry
INVARIANTS UndoEntriesPrecede
CHECK_DEADLOCK FALSE
