\* All transactions may finish; CallsReturn excludes a deadlock.
CHECK_DEADLOCK FALSE
SPECIFICATION FairSpec
CONSTANTS
  Thread = {t1, t2}
  Key = {k1, k2, k3}
  Value = {v}
  MaxKeys = 2
  MaxTxns = 3
  HashKey <- CollidingHash
  None = None
  NotRead = NotRead
INVARIANTS TypeOK SnapshotReads FirstCommitterWins StoreOrdered
PROPERTIES ImplementsSnapshotIsolation CallsReturn
