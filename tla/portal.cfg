SPECIFICATION MCSpec
CONSTANTS
  Slots = {t1, t2}
  Kinds = {"code", "unlock", "logout", "language", "login_page", "login", "admin_page", "admin_post", "admin_logout"}
  Languages = {"es", "ja"}
  Lifetime = 1
  Horizon = 3
  MaxIssued = 3
  Second = 2
  Period = 3
  Poll = 3
  Fetches = {1, 2}
  MaxTrip = 4
  MaxFailures = 1
  LastTick = 22
  None = None
INVARIANTS
  AdminWithinLifetime
  FormsDieWithTheirLogin
  LogoutHoldsAlone
  StaleAtMost
  NeverBackwards
  PageFollowsOrder
  BlankBriefly
SYMMETRY Symmetry
CHECK_DEADLOCK FALSE
