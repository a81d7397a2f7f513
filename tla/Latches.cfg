\* No deadlock check: programs end, and main of lock_comparision.c waits for
\* ever when a thread cannot be created.
CHECK_DEADLOCK FALSE
SPECIFICATION MCSpec
CONSTANTS
  Thread = {t1, t2, t3}
  Increments = 2
  Spins = 1
  None = None
  Monitor = Monitor
  Reader = {r1, r2}
  Writer = {w1}
  Threads = 2
  Updates = 3
  Start = 2
  Amount = {1, 3}
  MaxTurns = 2
  Keys = 4
  NUM_BUCKETS = 3
  hash <- ThreeBuckets
INVARIANTS StateSound MutualExclusion NoLostWakeup OnlyRealDeadlocks CountersExact ReadersSeeWrites
 
