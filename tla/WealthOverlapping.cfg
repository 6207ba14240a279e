SPECIFICATION Spec
CONSTANTS
  User = {alice}
  Call = {c1, c2}
  Scheduler = {s1}
  Amount = {1}
  MaxAmount = 1
  Text = {t1}
  AutoRenew = {FALSE}
  Opening = 1
  TotalQuota = 1
  Duration = 2
  Prompt = FALSE
  Changes = {}
  MaxOrders = 3
  MaxDay = 4
  MaxFaults = 0
  MaxCrashes = 0
  NoUser = NoUser
  None = None
INVARIANTS JournalExplainsBalance FrozenWithinOverlap SoldWithinOverlap
SYMMETRY Calls
