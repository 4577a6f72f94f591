CONSTANTS
  Kinds = {"account"}
  OrderFields = {"auth"}
  Ids <- MCIds
  Times <- MCTimes
  Names <- MCNames
  PageSizes <- MCPageSizes
  DefaultSize = 1
  MaxSize = 2
  BatchSize = 2
  MaxChanges = 0
SPECIFICATION Spec
INVARIANT WalkIsComplete
CHECK_DEADLOCK FALSE
