SPECIFICATION Spec
CONSTANTS
  Replicas = {r1, r2}
  Operators = {a1, a2}
  Events = {e1}
  Poison = {}
  Direct = {}
  Letters = {d1}
  NumRows = 3
  MAX_TRIES = 1
  MaxFaults = 1
  UseLease = FALSE
  NoOne = NoOne
INVARIANTS NoEventDropped CopiesBounded OnePendingRow
PROPERTIES DeliveryRefined
CHECK_DEADLOCK FALSE
