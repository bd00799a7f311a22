SPECIFICATION FairSpec
CONSTANTS
  Replicas = {r1, r2}
  Operators = {}
  Events = {e1, e2}
  Poison = {e2}
  Direct = {}
  Letters = {}
  NumRows = 2
  MAX_TRIES = 2
  MaxFaults = 2
  UseLease = TRUE
  NoOne = NoOne
INVARIANTS FoldedForAReason
PROPERTIES RowsSettle
CHECK_DEADLOCK FALSE
