\* A worker that never gets its lock must show as WorkersFinish failing.
CHECK_DEADLOCK FALSE
SPECIFICATION FairSpec
CONSTANTS
  Thread = {t1, t2, t3}
  NumberOfAccounts = 3
  Amount = {2}
  InitialBalance = 3
  Transfers = 1
  None = None
INVARIANTS TypeOK LockDiscipline
PROPERTIES ImplementsBank WorkersFinish
