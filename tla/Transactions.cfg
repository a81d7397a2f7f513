\* No deadlock check: threads end, and threads that wait for each other stop.
CHECK_DEADLOCK FALSE
SPECIFICATION MCSpec
CONSTANTS
  Thread = {t1, t2, t3}
  Key = {1, 2}
  Programs <- OppositeOrders
  None = None
  Reader = {1, 2}
  Reads = 3
  OldValue = "100"
  NewValue = "200"
  Missing = "-1"
SYMMETRY Symmetry
INVARIANTS   SleepersWillBeWoken RowSnapshots
