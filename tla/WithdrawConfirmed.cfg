SPECIFICATION Spec
CONSTANTS
  Address = {a1, a2}
  Amount = {x}
  Call = {c1, c2}
  None = None
  HasWealth = FALSE
  BehindProxy = FALSE
  Start <- StartRows
INVARIANT ConfirmedAddressIsSent
SYMMETRY Alike
CHECK_DEADLOCK FALSE
