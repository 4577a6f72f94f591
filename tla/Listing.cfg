CONSTANTS
  Kinds = {"user", "app", "role", "account", "assignment", "session", "audit"}
  OrderFields = {"created", "id", "name"}
  Ids <- MCIds
  Times <- MCTimes
  Names <- MCNames
  PageSizes <- MCPageSizes
  DefaultSize = 1
  MaxSize = 2
  BatchSize = 2
  MaxChanges = 2
SPECIFICATION Spec
INVARIANTS TypeOK NoRowTwice WalkIsComplete PurgeIsComplete EventsAreWellFormed
PROPERTIES PagesAdvance PurgeEnds
CHECK_DEADLOCK FALSE
