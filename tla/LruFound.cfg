CHECK_DEADLOCK FALSE
SPECIFICATION Spec
CONSTANTS
  NULL = NULL
  Missing = Missing
  WalKey = {k1, k2}
  Value = {v1, v2}
  Node = {n1, n2, n3}
SYMMETRY Symmetry
INVARIANT LruCachedIsFound
