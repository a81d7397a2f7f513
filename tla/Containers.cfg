\* No deadlock check: B-trees take a bounded number of keys, and a program
\* that has followed a wild pointer is at its end.
CHECK_DEADLOCK FALSE
SPECIFICATION MCSpec
CONSTANTS
  NULL = NULL
  Fault = Fault
  Key <- KeysOf
  RbKey = {1, 2, 3, 4, 5, 6, 7}
  Word = {"a", "b", "c"}
  Value = {1, 2}
  TABLE_SIZE = 4
  Hash <- HashOf
  Hash2 <- Hash2Of
  SlKey = {1, 2, 3}
  Cells = 4
  MAX_LEVEL = 2
  BtKey = {1, 2, 3, 4, 5}
  BpKey = {1, 2, 3, 4, 5, 6, 7, 8, 9, 10}
  MaxInserts = 11
  Item = {1, 2}
  ListCells = 4
  SIZE = 3
  Units = 6
  Header = 1
  Unit = 2
  Owner = {1, 2}
  MaxSlabs = 2
  LruKey = {0, 1, 2, 3}
  LruValue = {1, 2}
  Capacity = 3
  HASH_SIZE = 2
  Element <- ElementsOf
  Size = {0, 1, 2, 3, 4}
  Width = {1, 2, 3}
  limit_value = 1
  MAX_THREADS = 4
  MaxLength <- MaxLengthOf
INVARIANTS   WindowMaxima VoteAgrees
