SPECIFICATION Spec
CONSTANTS
  None = None
  Catalogue <- MCCatalogue
  Elsewhere <- MCElsewhere
  Offered = {"sword", "shield", "radiance", "pack"}
  Batches = {1}
  Containers = {"cart"}
  MaxAttuned = 2
  MaxAmount = 2
  Starts <- MCStarts
  Excluded = {"bonded", "twin", "part"}
CHECK_DEADLOCK FALSE
INVARIANTS
  TypeOK
  OneThingPerPlace
  BondsWithinLimit
  SumFollowsItems
  NodesFollowItems
  RowsFollowWeapons
PROPERTIES
  MovesConserve
