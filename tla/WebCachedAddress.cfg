SPECIFICATION Spec
CONSTANTS
  User = {alice, bob}
  Call = {c1}
  Key = {"address"}
  Start = {"ACTIVE"}
  MaxAttempts = 1
  NoUser = NoUser
  Undefined = Undefined
  NoCall = NoCall
  MaxVisits = 5
INVARIANT AddressIsOwn
SYMMETRY Alike
CHECK_DEADLOCK FALSE
