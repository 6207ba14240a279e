SPECIFICATION FairSpec
CONSTANTS
  t1 = t1  t2 = t2  alice = alice
  Tx = {t1}
  User = {alice}
  Worker = {w1, w2}
  Event <- MissedEvents
  KytReport <- ScreeningReports
  CompanyAnswer = {"NOT_COMPANY"}
  KytEnabled = TRUE
  OrphanMaxRetry = 2
  MaxAmlEntries = 1
  TransactionClaims = FALSE
  MinDeposit = 1
  MaxFaults = 1
  NoUser = NoUser  NoEvent = NoEvent  NoTx = NoTx
INVARIANTS PostedAtMostOnce
PROPERTIES ClearedBeforeCredit EveryEventFinishes ScreeningEnds
