\* No deadlock check: consumers may be left waiting, see QueuesFinish.cfg.
CHECK_DEADLOCK FALSE
SPECIFICATION MCSpec
CONSTANTS
  Size = 2
  Client = {c1, c2}
  Worker = {w1, w2, w3}
  main = main
  Requests = 2
  Producers = 2
  Consumers = 3
  Each = 2
  nfiles = 3
  Length <- FileLengths
  BUF_SIZE = 2
  iterations = 5
  QUEUE_DEPTH = 3
INVARIANTS NothingLeftBehind MergedInOrder WindowKept
PROPERTIES ImplementsFifo QueuesDrain
