SPECIFICATION Spec
CONSTANTS
  User = {alice, bob}
  Call = {c1, c2}
  Key = {"address"}
  Start = {"PENDING", "ACTIVE"}
  MaxAttempts = 2
  NoUser = NoUser
  Undefined = Undefined
  NoCall = NoCall
  MaxVisits = 2
INVARIANTS TypeOK DashboardIsEarned StoredStatusIsReal
SYMMETRY Alike
CHECK_DEADLOCK FALSE
