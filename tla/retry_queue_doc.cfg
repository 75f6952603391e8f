SPECIFICATION FairQueueSpec
CONSTANTS
  Orders = {o1, o2, o3}
  DeliveryMaxAttempts = 1
  WebThreads = {w1}
  Limit = 2
  QueueCap = 1
PROPERTY EveryOrderServed
CHECK_DEADLOCK FALSE
