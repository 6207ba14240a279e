SPECIFICATION Spec
CONSTANTS
  t1 = t1  t2 = t2  alice = alice
  Tx = {t1}
  User = {alice}
  Worker = {w1, w2}
  Event <- ScreeningEvents
  KytReport <- ScreeningReports
  CompanyAnswer = {"NOT_COMPANY"}
  KytEnabled = TRUE
  OrphanMaxRetry = 2
  MaxAmlEntries = 1
  TransactionClaims = TRUE
  MinDeposit = 1
  MaxFaults = 1
  NoUser = NoUser  NoEvent = NoEvent  NoTx = NoTx
INVARIANTS TypeOK CompletionIsActedOn
PROPERTIES WholeReportDecides DecisionIsFinal RankNeverFalls ImplementsLedger
SYMMETRY Workers
