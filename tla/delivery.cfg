SPECIFICATION FairDeliverySpec
CONSTANTS
  OrderIds = {x1}
  Identities = {p1}
  DeliveryIds = {d1}
  Manual = Manual
  Null = Null
  Web = {w1}
  Cron = {c1}
  MaxAttempts = 2
  RetryBase = 1
  MaxDelay = 2
  StaleAge = 2
  AttemptCap = 3
INVARIANTS
  DeliveryTypeOK
  HonestDelivery
  OneAttemptAtATime
PROPERTIES
  DeliveredLostOnlyToFailure
  AttemptsKeepToRows
  NoOrderForgotten
