\* No deadlock check: clients end, and the servers then wait for others.
CHECK_DEADLOCK FALSE
SPECIFICATION MCSpec
CONSTANTS
  Client = {h1, h2}
  MaxRequests = 2
  Chatter = {a, b, c}
  Handler = {h1, h2}
  Key = {k1, k2, k3}
  Val = {v1, v2}
  MAX_ITEMS = 2
  MaxCalls = 2
  None = None
  Torn = Torn
INVARIANTS OwnAnswer StoreIsRegular  PeersHear
 
