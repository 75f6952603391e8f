SPECIFICATION RenewalSpec
CONSTANTS
  Orders = {o1}
  Sessions = {s1,s2}
  Requests = {r1,r2}
  Addresses = {a1,a2}
  SessionLifetime = 1
  MaxExtension = 1
  MaxSessions = 1
  MaxAddresses = 0
  Durations = {1}
  Horizon = 1
  Retention = 0
  None = None
SYMMETRY Symmetry
INVARIANT SessionLimit
