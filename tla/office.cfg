SPECIFICATION MCSpec
CONSTANTS
  Accounts = {a1, a2}
  Environments <- EnvironmentSets
  Tabs = {t1, t2}
  Orders = {o1}
  Admins = {m1, m2}
  Latest = 2
  MaxLog = 3
SYMMETRY Interchangeable
INVARIANTS
  OneAccount
  KeysOnRecord
  ExpirationsOnRecord
  EffectsOnRecord
PROPERTY ConfiguredStays
