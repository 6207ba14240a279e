SPECIFICATION Spec
CONSTANTS
  User = {alice}
  Call = {c1}
  Scheduler = {s1}
  Amount = {1, 2}
  MaxAmount = 2
  Text = {t1}
  AutoRenew = {TRUE, FALSE}
  Opening = 3
  TotalQuota = 9
  Duration = 3
  Prompt = TRUE
  Changes = {"onSale", "renewable"}
  MaxOrders = 2
  MaxDay = 6
  MaxFaults = 0
  MaxCrashes = 0
  NoUser = NoUser
  None = None
INVARIANTS TypeOK PrincipalIsFrozen PrincipalReturnedOnce InterestPaidOnce EarlyRedemptionForfeits DailyRecordsAddUp
