--------------------------- MODULE DepositPipeline ---------------------------
(***************************************************************************)
(* The customer deposit pipeline (internal/wallet/deposit): the durable    *)
(* inbox of provider webhooks, the workers that drain it, the deposit rows *)
(* they advance, the two scans that chase a missing screening result, and  *)
(* the account ledger a cleared deposit is posted to.                      *)
(*                                                                         *)
(* One database transaction is two steps: the claim of the inbox row (FOR  *)
(* UPDATE SKIP LOCKED), after which other workers pass the row over, and   *)
(* the commit. Everything in between happens under the lock of the deposit *)
(* row that the commit step writes, so it is one step; a crash, a database *)
(* error and an abandoned transaction leave the rows as they were. A scan  *)
(* reads the row in one transaction, asks the provider outside of any, and *)
(* applies the answer in another.                                          *)
(*                                                                         *)
(* A definition named Bug... is the one after it with a plausible mistake: *)
(* the runs show that the properties notice it.                            *)
(***************************************************************************)
EXTENDS KytDecision

CONSTANTS
  Tx,              \* provider transactions (safeheron_tx_key)
  User,            \* customers owning deposit addresses
  Worker,          \* worker replicas
  Event,           \* webhook payloads: event_id is the hash of the content
  KytReport,       \* the answers the provider's KytReport call can give
  CompanyAnswer,   \* the answers of the company-fund handler to an alert
  KytEnabled,      \* KYT_ENABLED
  OrphanMaxRetry,  \* KYT_ORPHAN_ALERT_MAX_RETRY
  MaxAmlEntries,   \* maxAMLListEntries
  TransactionClaims, \* transactionClaimsEnabled; without it the transactions of
                   \* the inbox are those that fund routing wrote for a customer
  MinDeposit,      \* coin_chains.min_deposit_amount
  MaxFaults,       \* bound: crashes and database errors explored
  NoUser, NoEvent, NoTx

ProviderStatus ==
  {"SUBMITTED", "SIGNING", "BROADCASTING", "CONFIRMING",
   "FAILED", "CANCELLED", "REJECTED", "COMPLETED", "OTHER"}

\* coin: how the registry resolves coinKey. parses: txAmount is a decimal.
TransactionEvent ==
  [type: {"TRANSACTION"}, tx: Tx, inflow: BOOLEAN, company: BOOLEAN,
   owner: User \cup {NoUser}, coin: {"SUPPORTED", "UNSUPPORTED", "BAD_CONFIG"},
   parses: BOOLEAN, amount: Nat, status: ProviderStatus, confirmed: BOOLEAN]

AlertEvent ==
  [type: {"AML_KYT_ALERT"}, tx: Tx, state: ScreeningStates \cup {""},
   list: Seq([status: ReportStatuses \cup {""}, risk: RiskLevels])]

UnhandledEvent == [type: {"MALFORMED", "OTHER"}, tx: Tx]

ASSUME EventAssumption ==
  /\ Event \subseteq TransactionEvent \cup AlertEvent \cup UnhandledEvent
  /\ NoEvent \notin Event /\ NoTx \notin Tx /\ NoUser \notin User
ASSUME ReportAssumption == KytReport \subseteq [state: ScreeningStates, list: Reports]
ASSUME CompanyAssumption ==
  CompanyAnswer \subseteq {"NOT_COMPANY", "DEFERRED", "APPLIED", "IGNORED", "ERROR"}
ASSUME BoundAssumption ==
  /\ KytEnabled \in BOOLEAN /\ TransactionClaims \in BOOLEAN
  /\ OrphanMaxRetry \in Nat \ {0} /\ MaxAmlEntries \in Nat \ {0}
  /\ MinDeposit \in Nat /\ MaxFaults \in Nat

VARIABLES
  inbox,    \* the inserted events in received_at order
  event,    \* safeheron_webhook_events: process_status, attempts, due
  deposit,  \* deposits, one row per provider transaction
  account,  \* account balance and account_journal, per customer
  worker,   \* what each worker is doing
  faults    \* faults so far

vars == <<inbox, event, deposit, account, worker, faults>>

EventRow == [process: {"ABSENT", "PENDING", "DONE", "ERROR"},
             attempts: Nat, due: BOOLEAN]

DepositStatus ==
  {"ABSENT", "PENDING", "KYT_PENDING", "CREDITED", "FAILED", "MANUAL_REVIEW"}
TerminalStatus == {"CREDITED", "FAILED", "MANUAL_REVIEW"}

\* Time since updated_at, as far as the scans tell it apart.
Fresh   == 0  \* younger than the first-poll delay (5 minutes)
PollDue == 1  \* old enough for the AML poll
TimedOut == 2 \* older than KYT_TIMEOUT (20 minutes)

DepositRow == [status: DepositStatus, user: User \cup {NoUser}, amount: Nat,
               rank: Nat, aml: Summaries \cup {"NULL"}, age: 0..2]

JournalRow == [tx: Tx, amount: Nat, snapshot: Nat]
AccountRow == [balance: Nat, journal: Seq(JournalRow)]

\* The cycle of a worker: drain the inbox (tx: inside a transaction, mark:
\* rolled back, about to mark the event), then the two scans.
Step == {"drain", "tx", "mark", "kyt", "kytApi", "aml", "amlApi"}
WorkerState == [step: Step, event: Event \cup {NoEvent}, tx: Tx \cup {NoTx}]

At(step)        == [step |-> step, event |-> NoEvent, tx |-> NoTx]
Holding(step, e) == [step |-> step, event |-> e, tx |-> NoTx]
Asking(step, t) == [step |-> step, event |-> NoEvent, tx |-> t]
-----------------------------------------------------------------------------
\* Rows and the statements that write them

StatusRank(status) ==
  CASE status = "SUBMITTED"    -> 10
    [] status = "SIGNING"      -> 20
    [] status = "BROADCASTING" -> 30
    [] status = "CONFIRMING"   -> 50
    [] status \in {"FAILED", "CANCELLED", "REJECTED"} -> 90
    [] status = "COMPLETED"    -> 100
    [] OTHER                   -> 0

isFailedStatus(status) == status \in {"FAILED", "CANCELLED", "REJECTED"}

\* Mistake: the update is made whatever the rank.
BugRankUpsertDeposit(row, e, status) ==
  IF row.status = "ABSENT"
  THEN [status |-> status, user |-> e.owner, amount |-> e.amount,
        rank |-> StatusRank(e.status), aml |-> "NULL", age |-> Fresh]
  ELSE [row EXCEPT !.amount = e.amount, !.rank = StatusRank(e.status), !.age = Fresh]

\* Mistake: the update sets the status as well.
BugStatusUpsertDeposit(row, e, status) ==
  IF row.rank <= StatusRank(e.status)
  THEN [row EXCEPT !.status = status, !.user = e.owner, !.amount = e.amount,
                   !.rank = StatusRank(e.status), !.age = Fresh]
  ELSE row

\* INSERT, or ON CONFLICT an update that only a rank at least as high makes;
\* the customer, the status and the screening fields stay the first writer's.
UpsertDeposit(row, e, status) ==
  IF row.status = "ABSENT"
  THEN [status |-> status, user |-> e.owner, amount |-> e.amount,
        rank |-> StatusRank(e.status), aml |-> "NULL", age |-> Fresh]
  ELSE IF row.rank <= StatusRank(e.status)
  THEN [row EXCEPT !.amount = e.amount, !.rank = StatusRank(e.status), !.age = Fresh]
  ELSE row

\* UPDATE deposits SET status = to ... WHERE status IN from
Move(row, from, to) ==
  IF row.status \in from THEN [row EXCEPT !.status = to, !.age = Fresh] ELSE row

MarkDepositFailed(row) ==
  Move(row, {"PENDING", "KYT_PENDING", "FAILED"}, "FAILED")

\* Mistake: a credited deposit may still be handed to an operator.
BugMarkDepositManualReview(row) ==
  Move(row, {"PENDING", "KYT_PENDING", "CREDITED", "MANUAL_REVIEW"}, "MANUAL_REVIEW")
MarkDepositManualReview(row) ==
  Move(row, {"PENDING", "KYT_PENDING", "MANUAL_REVIEW"}, "MANUAL_REVIEW")
MarkDepositCredited(row) == Move(row, {"PENDING", "KYT_PENDING"}, "CREDITED")
MoveToKYTPending(row) == Move(row, {"PENDING"}, "KYT_PENDING")

\* The summary stored with the deposit covers the first MaxAmlEntries reports.
Truncated(list) ==
  IF Len(list) > MaxAmlEntries THEN SubSeq(list, 1, MaxAmlEntries) ELSE list
\* Mistake: the screening fields are left as they were.
BugwriteAMLFields(row, list) == [row EXCEPT !.age = Fresh]
writeAMLFields(row, list) ==
  [row EXCEPT !.aml = SummarizeRiskLevel(Truncated(list)), !.age = Fresh]

\* Mistake: the snapshot is taken before the balance is raised.
BugCredited(acc, t, amount) ==
  [balance |-> acc.balance + amount,
   journal |-> Append(acc.journal,
     [tx |-> t, amount |-> amount, snapshot |-> acc.balance])]

\* The account part of creditDepositFromRow: balance and journal row.
Credited(acc, t, amount) ==
  [balance |-> acc.balance + amount,
   journal |-> Append(acc.journal,
     [tx |-> t, amount |-> amount, snapshot |-> acc.balance + amount])]

creditDepositFromRow(t, row) ==
  /\ deposit' = [deposit EXCEPT ![t] = MarkDepositCredited(row)]
  /\ account' = [account EXCEPT ![row.user] = Credited(@, t, row.amount)]

\* A decision applied to a KYT_PENDING row whose screening fields are written.
Apply(t, row, decision) ==
  \/ decision = "CREDIT" /\ creditDepositFromRow(t, row)
  \/ /\ decision = "MANUAL_REVIEW"
     /\ deposit' = [deposit EXCEPT ![t] = MarkDepositManualReview(row)]
     /\ UNCHANGED account
  \/ /\ decision = "KEEP_PENDING"
     /\ deposit' = [deposit EXCEPT ![t] = row]
     /\ UNCHANGED account

\* MarkEventDone and MarkEventError
Finished(row, process) ==
  [process |-> process, attempts |-> row.attempts + 1, due |-> TRUE]
MarkEvent(e, process) == event' = [event EXCEPT ![e] = Finished(@, process)]

\* DeferEvent and, when attempt, DeferOrphanEvent
Deferred(row, attempt) ==
  [row EXCEPT !.due = FALSE,
              !.attempts = IF attempt THEN row.attempts + 1 ELSE row.attempts]
deferEvent(e, attempt) == event' = [event EXCEPT ![e] = Deferred(@, attempt)]

Locked(e) == \E w \in Worker : worker[w].step = "tx" /\ worker[w].event = e
Go(w, step) == worker' = [worker EXCEPT ![w] = At(step)]
-----------------------------------------------------------------------------
\* The webhook handler

\* InsertEventOrSkip: a redelivery has the same content, hence the same
\* event_id, and is skipped.
Receive(e) ==
  /\ event[e].process = "ABSENT"
  /\ inbox' = Append(inbox, e)
  /\ event' = [event EXCEPT ![e].process = "PENDING"]
  /\ UNCHANGED <<deposit, account, worker, faults>>

\* next_attempt_at passes.
RetryDue(e) ==
  /\ event[e].process = "PENDING" /\ ~event[e].due
  /\ event' = [event EXCEPT ![e].due = TRUE]
  /\ UNCHANGED <<inbox, deposit, account, worker, faults>>

\* Mistake: off by one at the last threshold.
BugGrow(t) ==
  /\ deposit[t].status = "KYT_PENDING" /\ deposit[t].age <= TimedOut
  /\ deposit' = [deposit EXCEPT ![t].age = @ + 1]
  /\ UNCHANGED <<inbox, event, account, worker, faults>>

\* A KYT_PENDING row gets older than the next threshold.
Grow(t) ==
  /\ deposit[t].status = "KYT_PENDING" /\ deposit[t].age < TimedOut
  /\ deposit' = [deposit EXCEPT ![t].age = @ + 1]
  /\ UNCHANGED <<inbox, event, account, worker, faults>>
-----------------------------------------------------------------------------
\* ProcessOne: the claim

InScope(e) == TransactionClaims \/ e.type \in {"TRANSACTION", "AML_KYT_ALERT"}

Claimable(e) ==
  event[e].process = "PENDING" /\ event[e].due /\ ~Locked(e) /\ InScope(e)

\* Oldest first; fund routing's events before the alerts.
Precedes(i, j) ==
  LET routed(k) == ~TransactionClaims /\ inbox[k].type = "TRANSACTION" IN
  IF routed(i) = routed(j) THEN i < j ELSE routed(i)

\* The first claimable event, or none and the drain ends.
LockNextPendingEvent(w) ==
  /\ worker[w].step = "drain"
  /\ \E i \in DOMAIN inbox :
       /\ Claimable(inbox[i])
       /\ \A j \in DOMAIN inbox : Claimable(inbox[j]) => ~Precedes(j, i)
       /\ worker' = [worker EXCEPT ![w] = Holding("tx", inbox[i])]
  /\ UNCHANGED <<inbox, event, deposit, account, faults>>

ErrNoPending(w) ==
  /\ worker[w].step = "drain"
  /\ \A i \in DOMAIN inbox : ~Claimable(inbox[i])
  /\ Go(w, "kyt")
  /\ UNCHANGED <<inbox, event, deposit, account, faults>>

\* The commit of w's transaction on event e, leaving e in the given state. An
\* error return ends the drain of this cycle.
Commit(w, e, process) ==
  /\ MarkEvent(e, process)
  /\ Go(w, IF process = "DONE" THEN "drain" ELSE "kyt")
  /\ UNCHANGED <<inbox, faults>>

InTx(w) == worker[w].step = "tx"

\* An event the customer pipeline has nothing to do for.
Skip(w) ==
  LET e == worker[w].event IN
  /\ InTx(w)
  /\ \/ e.type = "OTHER"
     \/ e.type = "TRANSACTION" /\ (~e.inflow \/ e.company)
  /\ Commit(w, e, "DONE")
  /\ UNCHANGED <<deposit, account>>

RejectMalformed(w) ==
  LET e == worker[w].event IN
  /\ InTx(w)
  /\ e.type = "MALFORMED"
  /\ Commit(w, e, "ERROR")
  /\ UNCHANGED <<deposit, account>>

\* Mistake: the direction of the transfer is not looked at.
BugForCustomer(e) == e.type = "TRANSACTION" /\ ~e.company
ForCustomer(e) == e.type = "TRANSACTION" /\ e.inflow /\ ~e.company
Owned(e) == ForCustomer(e) /\ e.owner # NoUser

\* finalizeEventErrorAfterRollback, first half: the row lock is gone, the event
\* is still PENDING, and its error is not yet recorded.
Rollback(w) ==
  /\ worker' = [worker EXCEPT ![w] = Holding("mark", worker[w].event)]
  /\ UNCHANGED <<inbox, event, deposit, account>>

\* No customer owns the destination, or the amount of an unsupported coin
\* cannot be stored.
Reject(w) ==
  LET e == worker[w].event IN
  /\ InTx(w)
  /\ \/ ForCustomer(e) /\ e.owner = NoUser
     \/ Owned(e) /\ e.coin = "UNSUPPORTED" /\ ~e.parses
  /\ Rollback(w)
  /\ UNCHANGED faults

\* Mistake: the UPDATE is not guarded by the status of the event.
BugMarkEventErrorNoTx(w) ==
  LET e == worker[w].event IN
  /\ worker[w].step = "mark"
  /\ ~Locked(e)
  /\ MarkEvent(e, "ERROR")
  /\ Go(w, "kyt")
  /\ UNCHANGED <<inbox, deposit, account, faults>>

\* Second half: the guarded UPDATE waits for the row lock of a worker that has
\* claimed the event meanwhile, and then finds it finished.
MarkEventErrorNoTx(w) ==
  LET e == worker[w].event IN
  /\ worker[w].step = "mark"
  /\ ~Locked(e)
  /\ event' = IF event[e].process = "PENDING"
              THEN [event EXCEPT ![e] = Finished(@, "ERROR")] ELSE event
  /\ Go(w, "kyt")
  /\ UNCHANGED <<inbox, deposit, account, faults>>

\* A supported coin whose txAmount is no decimal: the error is returned before
\* anything is marked, and the event stays PENDING.
AbandonUnparseable(w) ==
  LET e == worker[w].event IN
  /\ InTx(w)
  /\ Owned(e) /\ e.coin # "UNSUPPORTED" /\ ~e.parses
  /\ Go(w, "kyt")
  /\ UNCHANGED <<inbox, event, deposit, account, faults>>

NeedsReview(e) ==
  \/ e.coin = "UNSUPPORTED"
  \/ e.coin = "BAD_CONFIG"
  \/ e.amount < MinDeposit
-----------------------------------------------------------------------------
\* ProcessOne: a customer transaction

Storable(e) == Owned(e) /\ e.parses
Upserted(e) ==
  UpsertDeposit(deposit[e.tx], e, IF NeedsReview(e) THEN "MANUAL_REVIEW" ELSE "PENDING")

\* The upsert fails (a constraint, a revoked routing authorisation, the
\* database): the event ends in ERROR without effect on the deposit.
UpsertFails(w) ==
  /\ InTx(w)
  /\ Storable(worker[w].event)
  /\ faults < MaxFaults
  /\ faults' = faults + 1
  /\ Rollback(w)

\* flagManualReview; a CREDITED or FAILED row keeps its status.
FlagManualReview(w) ==
  LET e == worker[w].event IN
  /\ InTx(w)
  /\ Storable(e) /\ NeedsReview(e)
  /\ deposit' = [deposit EXCEPT ![e.tx] = MarkDepositManualReview(Upserted(e))]
  /\ Commit(w, e, "DONE")
  /\ UNCHANGED account

\* Mistake: the status is the one read before the upsert.
BugNeedsKYT(e) ==
  e.status = "COMPLETED" /\ e.confirmed /\ deposit[e.tx].status = "PENDING"

\* The chain has finished and the row is waiting for exactly that.
NeedsKYT(e) ==
  e.status = "COMPLETED" /\ e.confirmed /\ Upserted(e).status = "PENDING"

Ingest(w, e) == InTx(w) /\ Storable(e) /\ ~NeedsReview(e)

\* An intermediate status or a row already decided: only tracking is updated.
IngestProgress(w) ==
  LET e == worker[w].event IN
  /\ Ingest(w, e) /\ ~NeedsKYT(e)
  /\ ~isFailedStatus(e.status) \/ Upserted(e).status \in TerminalStatus
  /\ deposit' = [deposit EXCEPT ![e.tx] = Upserted(e)]
  /\ Commit(w, e, "DONE")
  /\ UNCHANGED account

IngestFailed(w) ==
  LET e == worker[w].event IN
  /\ Ingest(w, e) /\ ~NeedsKYT(e)
  /\ isFailedStatus(e.status) /\ Upserted(e).status \notin TerminalStatus
  /\ deposit' = [deposit EXCEPT ![e.tx] = MarkDepositFailed(Upserted(e))]
  /\ Commit(w, e, "DONE")
  /\ UNCHANGED account

\* Mistake: the switch is not asked.
BugIngestCredit(w) ==
  LET e == worker[w].event IN
  /\ Ingest(w, e) /\ NeedsKYT(e)
  /\ creditDepositFromRow(e.tx, Upserted(e))
  /\ Commit(w, e, "DONE")

\* KYT_ENABLED=false credits at once.
IngestCredit(w) ==
  LET e == worker[w].event IN
  /\ Ingest(w, e) /\ NeedsKYT(e)
  /\ ~KytEnabled
  /\ creditDepositFromRow(e.tx, Upserted(e))
  /\ Commit(w, e, "DONE")

IngestKYT(w) ==
  LET e == worker[w].event IN
  /\ Ingest(w, e) /\ NeedsKYT(e)
  /\ KytEnabled
  /\ deposit' = [deposit EXCEPT ![e.tx] = MoveToKYTPending(Upserted(e))]
  /\ Commit(w, e, "DONE")
  /\ UNCHANGED account
-----------------------------------------------------------------------------
\* processKYTAlert, by the answer of the company-fund handler and the row

Alert(w, answer) ==
  /\ InTx(w)
  /\ worker[w].event.type = "AML_KYT_ALERT"
  /\ answer \in CompanyAnswer

\* The handler fails: the transaction is abandoned, the event stays PENDING.
AlertCompanyFails(w) ==
  /\ Alert(w, "ERROR")
  /\ Go(w, "kyt")
  /\ UNCHANGED <<inbox, event, deposit, account, faults>>

AlertDeferred(w) ==
  /\ Alert(w, "DEFERRED")
  /\ deferEvent(worker[w].event, FALSE)
  /\ Go(w, "drain")
  /\ UNCHANGED <<inbox, deposit, account, faults>>

AlertIgnored(w) ==
  /\ Alert(w, "IGNORED")
  /\ Commit(w, worker[w].event, "DONE")
  /\ UNCHANGED <<deposit, account>>

AlertCompanyOnly(w) ==
  LET e == worker[w].event IN
  /\ Alert(w, "APPLIED")
  /\ deposit[e.tx].status = "ABSENT"
  /\ Commit(w, e, "DONE")
  /\ UNCHANGED <<deposit, account>>

\* The alert came before its deposit: retry later, a bounded number of times.
Orphan(w) ==
  /\ Alert(w, "NOT_COMPANY")
  /\ deposit[worker[w].event.tx].status = "ABSENT"

\* Mistake: off by one.
BugExhausted(e) == event[e].attempts >= OrphanMaxRetry
Exhausted(e) == event[e].attempts + 1 >= OrphanMaxRetry

\* Mistake: the attempt is not counted.
BugDeferOrphanEvent(w) ==
  LET e == worker[w].event IN
  /\ Orphan(w) /\ ~Exhausted(e)
  /\ deferEvent(e, FALSE)
  /\ Go(w, "drain")
  /\ UNCHANGED <<inbox, deposit, account, faults>>

DeferOrphanEvent(w) ==
  LET e == worker[w].event IN
  /\ Orphan(w) /\ ~Exhausted(e)
  /\ deferEvent(e, TRUE)
  /\ Go(w, "drain")
  /\ UNCHANGED <<inbox, deposit, account, faults>>

\* markOrphanAlertDone returns no error: the drain goes on.
markOrphanAlertDone(w) ==
  LET e == worker[w].event IN
  /\ Orphan(w) /\ Exhausted(e)
  /\ MarkEvent(e, "ERROR")
  /\ Go(w, "drain")
  /\ UNCHANGED <<inbox, deposit, account, faults>>

\* Mistake: the decision is made on the reports that are stored.
BugTruncatedAlertOnDeposit(w, answer) ==
  LET e == worker[w].event
      list == AlertReports(Truncated(e.list))
      row == writeAMLFields(deposit[e.tx], list)
  IN
  /\ Alert(w, answer) /\ answer \in {"NOT_COMPANY", "APPLIED"}
  /\ deposit[e.tx].status # "ABSENT"
  /\ Apply(e.tx, row,
           IF row.status = "KYT_PENDING"
           THEN DecideKYT(EffectiveState(e.state), list, FALSE)
           ELSE "KEEP_PENDING")
  /\ Commit(w, e, "DONE")

\* Mistake: every alert is decided upon.
BugAlertOnDeposit(w, answer) ==
  LET e == worker[w].event
      list == AlertReports(e.list)
      row == writeAMLFields(deposit[e.tx], list)
  IN
  /\ Alert(w, answer) /\ answer \in {"NOT_COMPANY", "APPLIED"}
  /\ deposit[e.tx].status # "ABSENT"
  /\ Apply(e.tx, row, DecideKYT(EffectiveState(e.state), list, FALSE))
  /\ Commit(w, e, "DONE")

\* The deposit is known: its screening fields are written whatever its status,
\* and decided upon when it is KYT_PENDING.
AlertOnDeposit(w, answer) ==
  LET e == worker[w].event
      list == AlertReports(e.list)
      row == writeAMLFields(deposit[e.tx], list)
  IN
  /\ Alert(w, answer) /\ answer \in {"NOT_COMPANY", "APPLIED"}
  /\ deposit[e.tx].status # "ABSENT"
  /\ Apply(e.tx, row,
           IF row.status = "KYT_PENDING"
           THEN DecideKYT(EffectiveState(e.state), list, FALSE)
           ELSE "KEEP_PENDING")
  /\ Commit(w, e, "DONE")
-----------------------------------------------------------------------------
\* ScanKYTTimeouts and ScanAmlPending

\* Mistake: the filter of the other scan is copied.
BugTimeoutDue(t) ==
  /\ deposit[t].status = "KYT_PENDING" /\ deposit[t].age = TimedOut
  /\ deposit[t].aml = "PENDING"
TimeoutDue(t) == deposit[t].status = "KYT_PENDING" /\ deposit[t].age = TimedOut
AmlDue(t) ==
  /\ deposit[t].status = "KYT_PENDING" /\ deposit[t].age >= PollDue
  /\ deposit[t].aml = "PENDING"

\* Phase 1 of either scan reads a due row and commits; without one it ends.
Scan(w, step, due, ask, next) ==
  /\ worker[w].step = step
  /\ \/ \E t \in due : worker' = [worker EXCEPT ![w] = Asking(ask, t)]
     \/ due = {} /\ Go(w, next)
  /\ UNCHANGED <<inbox, event, deposit, account, faults>>

ScanKYTTimeouts(w) == Scan(w, "kyt", {t \in Tx : TimeoutDue(t)}, "kytApi", "aml")
ScanAmlPending(w) == Scan(w, "aml", {t \in Tx : AmlDue(t)}, "amlApi", "drain")

\* Mistake: the status is not read again after the provider's answer.
BugAnswered(w, report, afterTimeout) ==
  LET t == worker[w].tx
      row == writeAMLFields(deposit[t], report.list)
  IN Apply(t, row, DecideKYT(report.state, report.list, afterTimeout))

\* The answer is applied to the row as it is now, if it is still KYT_PENDING.
Answered(w, report, afterTimeout) ==
  LET t == worker[w].tx
      row == writeAMLFields(deposit[t], report.list)
  IN IF deposit[t].status = "KYT_PENDING"
     THEN Apply(t, row, DecideKYT(report.state, report.list, afterTimeout))
     ELSE UNCHANGED <<deposit, account>>

\* scanOneKYTTimeout, phases 2 and 3; the scan then looks for the next row.
TimeoutAnswered(w) ==
  /\ worker[w].step = "kytApi"
  /\ \E report \in KytReport : Answered(w, report, TRUE)
  /\ Go(w, "kyt")
  /\ UNCHANGED <<inbox, event, faults>>

\* markKYTPendingManualReviewIfStillPending, when the provider call fails.
TimeoutCallFails(w) ==
  LET t == worker[w].tx IN
  /\ worker[w].step = "kytApi"
  /\ deposit' = IF deposit[t].status = "KYT_PENDING"
                THEN [deposit EXCEPT ![t] = MarkDepositManualReview(@)] ELSE deposit
  /\ Go(w, "kyt")
  /\ UNCHANGED <<inbox, event, account, faults>>

\* scanOneAmlPending: an answer that says wait is not written down, so that it
\* does not restart the timeout, and neither is a failed call.
AmlAnswered(w) ==
  /\ worker[w].step = "amlApi"
  /\ \E report \in KytReport :
       /\ DecideKYT(report.state, report.list, FALSE) # "KEEP_PENDING"
       /\ Answered(w, report, FALSE)
  /\ Go(w, "drain")
  /\ UNCHANGED <<inbox, event, faults>>

AmlStillPending(w) ==
  /\ worker[w].step = "amlApi"
  /\ Go(w, "drain")
  /\ UNCHANGED <<inbox, event, deposit, account, faults>>

\* A crash, a database error or a lost connection: what was open is rolled
\* back. The worker restarts, or its cycle goes on with the scans.
Fail(w) ==
  /\ faults < MaxFaults
  /\ worker[w].step # "drain"
  /\ faults' = faults + 1
  /\ \E step \in {"drain", "kyt"} : Go(w, step)
  /\ UNCHANGED <<inbox, event, deposit, account>>
-----------------------------------------------------------------------------
Init ==
  /\ inbox = <<>>
  /\ event = [e \in Event |-> [process |-> "ABSENT", attempts |-> 0, due |-> TRUE]]
  /\ deposit = [t \in Tx |-> [status |-> "ABSENT", user |-> NoUser, amount |-> 0,
                               rank |-> 0, aml |-> "NULL", age |-> Fresh]]
  /\ account = [u \in User |-> [balance |-> 0, journal |-> <<>>]]
  /\ worker = [w \in Worker |-> At("drain")]
  /\ faults = 0

ProcessOne(w) ==
  \/ LockNextPendingEvent(w) \/ ErrNoPending(w)
  \/ Skip(w) \/ RejectMalformed(w) \/ Reject(w) \/ MarkEventErrorNoTx(w)
  \/ AbandonUnparseable(w) \/ UpsertFails(w) \/ FlagManualReview(w)
  \/ IngestProgress(w) \/ IngestFailed(w) \/ IngestCredit(w) \/ IngestKYT(w)
  \/ AlertCompanyFails(w) \/ AlertDeferred(w) \/ AlertIgnored(w)
  \/ AlertCompanyOnly(w) \/ DeferOrphanEvent(w) \/ markOrphanAlertDone(w)
  \/ \E answer \in CompanyAnswer : AlertOnDeposit(w, answer)

Scans(w) ==
  \/ ScanKYTTimeouts(w) \/ TimeoutAnswered(w) \/ TimeoutCallFails(w)
  \/ ScanAmlPending(w) \/ AmlAnswered(w) \/ AmlStillPending(w)

Next ==
  \/ \E e \in Event : Receive(e) \/ RetryDue(e)
  \/ \E t \in Tx : Grow(t)
  \/ \E w \in Worker : ProcessOne(w) \/ Scans(w) \/ Fail(w)

Spec == Init /\ [][Next]_vars

\* Time passes, and the adaptive loop starts a cycle again and again; what the
\* provider or a client does, and faults, are not fair.
Fairness ==
  /\ \A e \in Event : WF_vars(RetryDue(e))
  /\ \A t \in Tx : WF_vars(Grow(t))
  /\ \A w \in Worker : WF_vars(ProcessOne(w) \/ Scans(w))

FairSpec == Spec /\ Fairness
-----------------------------------------------------------------------------
\* Every row, journal and worker state is of its declared shape.
TypeOK ==
  /\ inbox \in Seq(Event)
  /\ event \in [Event -> EventRow]
  /\ deposit \in [Tx -> DepositRow]
  /\ account \in [User -> AccountRow]
  /\ worker \in [Worker -> WorkerState]
  /\ faults \in 0..MaxFaults

Journal(u) == account[u].journal

\* However events, alerts and scans of several workers interleave, a provider
\* transaction is posted to the ledger at most once, over all accounts
\* (creditDepositFromRow and its four callers).
PostedAtMostOnce ==
  \A u, v \in User :
    \A i \in DOMAIN Journal(u), j \in DOMAIN Journal(v) :
      Journal(u)[i].tx = Journal(v)[j].tx => u = v /\ i = j

\* The deposit status and the ledger agree: a deposit is CREDITED exactly when
\* its customer's journal holds a row for it. No crash leaves one without the
\* other.
CreditedIffPosted ==
  \A t \in Tx :
    deposit[t].status = "CREDITED" <=>
      \E u \in User : u = deposit[t].user /\
        \E i \in DOMAIN Journal(u) : Journal(u)[i].tx = t

\* The journal explains the balance: each balance_snapshot is the one before it
\* plus the amount of the row, and the last one is the balance of the account.
JournalExplainsBalance ==
  \A u \in User :
    LET j == Journal(u) n == Len(j) IN
    /\ account[u].balance = IF n = 0 THEN 0 ELSE j[n].snapshot
    /\ \A i \in 1..n :
         j[i].snapshot = j[i].amount + (IF i = 1 THEN 0 ELSE j[i - 1].snapshot)

\* Every deposit under screening or credited goes back to a finished event about
\* money coming in to a customer's address, completed and confirmed on the chain.
ProgressIsBacked ==
  \A t \in Tx : deposit[t].status \in {"KYT_PENDING", "CREDITED"} =>
    \E e \in Event :
      /\ e.type = "TRANSACTION" /\ e.tx = t
      /\ e.inflow /\ ~e.company /\ e.owner = deposit[t].user
      /\ e.status = "COMPLETED" /\ e.confirmed
      /\ event[e].process = "DONE"

\* A finished completion is never lost: its deposit has gone on to screening or
\* is decided, it is not left waiting for a completion that has already come.
CompletionIsActedOn ==
  \A e \in Event :
    /\ event[e].process = "DONE"
    /\ e.type = "TRANSACTION" /\ e.inflow /\ ~e.company
    /\ e.status = "COMPLETED" /\ e.confirmed
    => deposit[e.tx].status \in TerminalStatus \cup {"KYT_PENDING"}

\* An orphan alert is retried OrphanMaxRetry times and no more: while it waits it
\* has an attempt left, and it is given up exactly with the last one.
OrphanRetriesAreBounded ==
  \A e \in Event : e.type = "AML_KYT_ALERT" =>
    /\ event[e].process = "PENDING" => event[e].attempts < OrphanMaxRetry
    /\ event[e].process = "ERROR" => event[e].attempts = OrphanMaxRetry

\* A step that credits a deposit under screening has just stored a LOW summary
\* for a row that was KYT_PENDING, although what is stored covers fewer reports
\* than what was decided upon; a row is never credited from PENDING then.
ClearedBeforeCredit ==
  [][\A t \in Tx :
       KytEnabled /\ deposit[t].status # "CREDITED" /\ deposit'[t].status = "CREDITED"
       => deposit[t].status = "KYT_PENDING" /\ deposit'[t].aml = "LOW"]_vars

\* An alert that credits a deposit has no report, stored or cut off, that is
\* pending, failed or skipped, and none that finished above LOW.
WholeReportDecides ==
  [][\A e \in Event :
       /\ e.type = "AML_KYT_ALERT"
       /\ event[e].process = "PENDING" /\ event'[e].process = "DONE"
       /\ deposit[e.tx].status # "CREDITED" /\ deposit'[e.tx].status = "CREDITED"
       => \A i \in DOMAIN e.list :
            /\ e.list[i].status \notin {"PENDING", "FAILED", "SKIPPED"}
            /\ e.list[i].status \in {"COMPLETED", ""} => e.list[i].risk = "LOW"]_vars

\* CREDITED, FAILED and MANUAL_REVIEW are final: no later event, alert or stale
\* scan answer takes a deposit out of them.
DecisionIsFinal ==
  [][\A t \in Tx : deposit[t].status \in TerminalStatus
       => deposit'[t].status = deposit[t].status]_vars

\* The recorded provider status never goes back, however late an event arrives.
RankNeverFalls == [][\A t \in Tx : deposit'[t].rank >= deposit[t].rank]_vars

\* A finished event stays as it is: a worker recording the error of a rolled-back
\* attempt does not overwrite what another has meanwhile finished.
FinishedEventIsFinal ==
  [][\A e \in Event : event[e].process \in {"DONE", "ERROR"}
       => event'[e] = event[e]]_vars

\* Every event received is finished in the end.
EveryEventFinishes ==
  \A e \in Event : event[e].process = "PENDING" ~> event[e].process \in {"DONE", "ERROR"}

\* Screening ends: whatever alerts are missed and whatever the provider answers
\* or fails to, the timeout scan decides the deposit.
ScreeningEnds ==
  \A t \in Tx : deposit[t].status = "KYT_PENDING" ~> deposit[t].status \in TerminalStatus

\* What the pipeline promises of balances, DepositLedger, is what it does.
phase == [t \in Tx |->
  CASE deposit[t].status \in {"ABSENT", "PENDING"} -> "OPEN"
    [] deposit[t].status = "KYT_PENDING" -> "SCREENING"
    [] deposit[t].status = "CREDITED" -> "CREDITED"
    [] OTHER -> "CLOSED"]
balance == [u \in User |-> account[u].balance]

Ledger == INSTANCE DepositLedger WITH phase <- phase, balance <- balance

\* Every step of the pipeline is a step of the promised ledger or leaves it alone.
ImplementsLedger == Ledger!Spec
=============================================================================
