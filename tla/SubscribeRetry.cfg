SPECIFICATION Spec
CONSTANTS
  Product = {p1}
  Renewable = {p1}
  Amount = {x}
  Key = {k1, k2}
  OrderId = {o1, o2}
  Call = {c1, c2}
  None = None
INVARIANT OneOrderPerConfirmation
CHECK_DEADLOCK FALSE
