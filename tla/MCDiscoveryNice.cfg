SPECIFICATION Spec
CONSTANTS
  Task = {t1}
  None = None
  Capacity = 1
  MaxBarrier = 3
  Junk = {0, 4096}
  Migrates = FALSE
  Reniced = {}
  Busy = FALSE
  EarlyLeavers = FALSE
INVARIANT
  PriorityInRange
CHECK_DEADLOCK FALSE
