SPECIFICATION MCSpec
CONSTANTS
  x1 = x1
  e1 = e1
  e2 = e2
  e3 = e3
  e4 = e4
  e5 = e5
  e6 = e6
  p1 = p1
  p2 = p2
  d1 = d1
  d2 = d2
  Webhooks <- Messages
  EventIds = {e1, e2, e3, e4, e5, e6}
  OrderIds = {x1}
  Identities = {p1, p2}
  DeliveryIds = {d1, d2}
  Manual = Manual
  Null = Null
  Threads = {t1, t2}
INVARIANTS
  LedgerSound
  CancellationWins
PROPERTIES
  MessagesKeepToRows
  ImplementsEntitlement
  EveryMessageAnswered
