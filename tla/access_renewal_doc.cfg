SPECIFICATION RenewalSpec
CONSTANTS
  Orders = {o1}
  Sessions = {s1}
  Requests = {r1,r2}
  Addresses = {a1}
  SessionLifetime = 1
  MaxExtension = 1
  MaxSessions = 0
  MaxAddresses = 0
  Durations = {1}
  Horizon = 2
  Retention = 0
  None = None
SYMMETRY Symmetry
INVARIANT NeverRenewed
