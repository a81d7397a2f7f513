\* No deadlock check: programs end, and a call of the LRU cache that goes
\* astray does not come back.
CHECK_DEADLOCK FALSE
SPECIFICATION Spec
CONSTANTS
  NULL = NULL
  Missing = Missing
  WalKey = {k1, k2}
  Value = {v1, v2}
  Node = {n1, n2, n3}
SYMMETRY Symmetry
INVARIANTS LogsAgree FsyncedIsDurable ContentsKept PoliciesKeep
PROPERTIES VictimsInOrder
