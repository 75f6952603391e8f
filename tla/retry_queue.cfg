SPECIFICATION FairQueueSpec
CONSTANTS
  Orders = {o1, o2, o3}
  DeliveryMaxAttempts = 2
  Limit = 2
  WebThreads = {w1}
  QueueCap = 2
PROPERTIES
  ServedUnlessBlocked
  NoOvertaking
CHECK_DEADLOCK FALSE
