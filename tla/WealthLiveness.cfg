SPECIFICATION FairSpec
CONSTANTS
  User = {alice}
  Call = {c1}
  Scheduler = {s1}
  Amount = {1}
  MaxAmount = 1
  Text = {t1}
  AutoRenew = {TRUE, FALSE}
  Opening = 2
  TotalQuota = 2
  Duration = 2
  Prompt = TRUE
  Changes = {"onSale"}
  MaxOrders = 1
  MaxDay = 6
  MaxFaults = 1
  MaxCrashes = 1
  NoUser = NoUser
  None = None
INVARIANT InterestWithinTerm
PROPERTIES MaturedIsRepaid ClosedStaysClosed
