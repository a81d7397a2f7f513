\* No deadlock check: threads end.
CHECK_DEADLOCK FALSE
SPECIFICATION MCFairSpec
CONSTANTS
  Thread = {t1, t2}
  Key = {1, 2}
  Programs <- OppositeOrders
  None = None
  Reader = {1, 2}
  Reads = 3
  OldValue = "100"
  NewValue = "200"
  Missing = "-1"
PROPERTY DeadlocksResolved
