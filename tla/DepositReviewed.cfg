SPECIFICATION Spec
CONSTANTS
  t1 = t1  t2 = t2  alice = alice
  Tx = {t1, t2}
  User = {alice}
  Worker = {w1, w2}
  Event <- ReviewedEvents
  KytReport <- ScreeningReports
  CompanyAnswer = {"NOT_COMPANY", "DEFERRED", "APPLIED", "IGNORED", "ERROR"}
  KytEnabled = FALSE
  OrphanMaxRetry = 2
  MaxAmlEntries = 1
  TransactionClaims = TRUE
  MinDeposit = 2
  MaxFaults = 1
  NoUser = NoUser  NoEvent = NoEvent  NoTx = NoTx
CONSTRAINT FewEvents
INVARIANTS CreditedIffPosted JournalExplainsBalance ProgressIsBacked OrphanRetriesAreBounded
PROPERTIES FinishedEventIsFinal
SYMMETRY Workers
