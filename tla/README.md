# Verification of MoneraDigital's money and session workflows

MoneraDigital is a Go server with a React front end for a custodial wallet.
Customers receive deposits through the Safeheron custodian, subscribe to
fixed-term wealth products and withdraw; the company keeps a ledger of its own
funds. Almost everything that can go wrong in it goes wrong between two
database statements, two replicas, two webhooks or two answers on their way to
a page, which is where tests of single functions do not look. This directory
holds TLA+ modules for its state machines, the TLC configurations that check
them on small instances, and proofs that TLAPS checks for every size.

All paths below are relative to the repository; `deposit/` is
`internal/wallet/deposit/`, `pages/` is `src/pages/`.

## 1. Inventory

### Components modelled

**Deposit pipeline** (`deposit/service.go`, `repository.go`, `kyt.go`,
`worker.go`, the webhook handler). *State*: the inbox
`safeheron_webhook_events` (`process_status`, `attempts`, `next_attempt_at`), the
`deposits` rows (`status`, `status_rank`, `aml_risk_level`, `updated_at`),
`account.balance` and `account_journal`; in memory, per worker, the event or
deposit it is busy with. *Operations*: the webhook handler inserts a payload under the
hash of its content; a worker's cycle drains the inbox (`ProcessOne`), then runs
`ScanKYTTimeouts` and `ScanAmlPending`. *Interaction*: replicas share the tables
through `FOR UPDATE SKIP LOCKED`; the scans ask the provider outside of any
transaction; alerts are first offered to the company-fund handler. *Hard*: events of one
transaction processed by several workers in any order, redelivered or never
delivered; an answer applied to a row that was decided meanwhile; a rollback
whose error is recorded after the row lock is gone; crashes at any statement.
*Correct when*: each transaction is posted at most once and exactly when its
deposit is CREDITED, only cleared deposits are credited, decisions are final,
nothing that arrived is lost, and every screening ends.

**Wealth orders and the interest scheduler** (`internal/services/wealth.go`,
`internal/scheduler/interest.go`, `internal/repository/postgres/wealth.go`).
*State*: `wealth_order`, `wealth_product.sold_quota`, `account` (`balance`,
`frozen_balance`), `account_journal`, `daily_interest`; in memory the mutexes and
duplicate marks of `Subscribe`, two unguarded maps, and what a scheduler still has to do. *Operations*:
`Subscribe`, `Redeem`, and at 00:00:05 UTC activation, accrual, settlement and
renewal. *Interaction*: requests and the run write the same rows. *Hard*: **no
operation runs in a transaction**, so every statement is a point where another
request, a failure or a restart can come in; only a clock comparison (no
redemption before 00:01) keeps redemptions and the run apart. *Correct when*: the
principal is frozen exactly while its order is open and comes back once,
interest is paid once and never for more days than the term has, journal and balance
agree, and a matured order is repaid.

**Background loops** (`internal/adaptiveschedule/`, with the cycles of
`deposit/worker.go` and `internal/fundrouting/adaptive_run.go`). *State*: per loop the
idle interval, the next deadline, a wake channel of capacity one; shared, the
maintenance window. *Operations*: `Run`, `Notify`, `MaintenanceWindow.Allow`.
*Hard*: a wake that arrives while its token is being drained, a deadline behind a
closed gate, several loops at the gate at once. *Correct when*: no wake and no
deadline is lost, the time between scans is bounded without them, an idle process keeps the
quiet budget, and no idle cycle spins.

**Web session, activation and review** (`pages/Login.tsx`,
`pages/dashboard/{Activation,ContactInfo,PendingApproval,Overview,Deposit}.tsx`,
`src/components/DashboardLayout.tsx` and `Header.tsx`, the services under `src/lib/`,
`internal/services/{auth,activation_service,contact_service}.go`, `internal/middleware/auth.go`).
*State*: in the browser `localStorage` (token, user, pending e-mail), the token
manager, the query cache, the form of the page shown and the requests under way;
on the server `users.status`, the activation code and its wrong attempts. *Operations*:
signing in and out, sending and entering a code, the contact form, the review, the overview's
polling, the cached deposit address. *Interaction*: each page reads and writes `localStorage`
on its own, and an answer is delivered whether or not its page is still shown. *Hard*: four places
with four lifetimes (reload, document, page, request); answers written after
a logout; statuses that pages store without an answer that contained them; server handlers that check a row and write
it later. *Correct when*: nobody is shown a dashboard who was never let in, a stored status is one the
server has given, and what is shown belongs to the customer who is signed in.

**Withdrawals, withdrawal addresses and the second factor**
(`pages/dashboard/{Withdraw,Addresses,Security}.tsx`, `internal/repository/postgres/address.go`,
`internal/services/{address,withdrawal_service,twofa_service}.go`). *State*: per address whether it is
listed, verified, frozen (four hours after it was added) and under which kind of network; the second
factor's flag and secret; in the page the lists it fetched, the address selected (as an id and as a
row), the dialogs and requests. *Hard*: the page decides on what it fetched, the clock and the
server decide later; lists are fetched again while a dialog is open; the flag for the second factor may be
missing. *Correct when*: coins go only to verified addresses whose freeze is over, and to the address the
customer confirmed.

**Subscription page and request idempotency** (`pages/dashboard/FixedDeposit.tsx`,
`internal/services/idempotency_service.go`, `internal/handlers/handlers.go`). *State*: the form, the
dialogs, the request id with the flag that disables the button, the lists; on the server the orders and the idempotency
records. *Hard*: an answer that is lost after the order was booked; a dialog that stays
open; a check and an insert that are two statements. *Correct when*: one confirmation makes one order.

**Fund routing** (`internal/fundrouting/{worker,router,repository,reconciler,projection_worker}.go`, with the
claims and fences of `deposit/repository.go` and `internal/companyfund/repository.go`). *State*: per movement on the chain its
case (decision, reason, pending command, version), the sources of that case, the commands with their actions
(`status`, `attempt_count`, lease), the event an action wrote for a ledger, the result. *Operations*: the router opens a case for
a verified event and decides who owns the movement; the reconciler decides open cases again; the projection worker leases an
action, hands the movement to the ledger of its owner, waits for the booking and closes the case. *Interaction*: the
deposit pipeline and the company's event worker take the event and book the movement, each under a query that asks whether its
command is still the pending one. *Hard*: leases that run out at work, a booking and a closing that are two transactions of two
processes, an operator who supersedes a command at any moment, facts about addresses that arrive after the events.
*Correct when*: a movement is booked at most once and only for the command whose turn it is, its case is
closed once and on an exact booking, and no case that could be decided stays open.

### Components left out

**The company fund ledger** (`internal/companyfund/`) is four
leased queues and a merge of several providers' facts. **Wallet creation and the address pool**
(`internal/services/wallet.go`, `internal/wallet/pool/`) claims a pooled address for a customer. These two are
state machines worth a module of their own; section 5 says what it should contain.

Registration, passwords, token signatures and rate limits; lending, fund reports and
deposit lists; mail and alert rendering; HTTP decoding; the clients of Safeheron, Binance and the
account service; configuration and wiring; schema migrations; release control;
operator tools under `cmd/`; monitoring; the API proxy; the other pages and the
generated component library are formatting, I/O or one row that
one statement writes. Most JavaScript of the repository (26k lines under `docs/`) is the player of an Axure
prototype, third-party code that is no part of the running system. `PROJECT.json` names the main files of each
and the reason.

## 2. The models

| module | models | states and actions |
|---|---|---|
| `KytDecision` | `deposit/kyt.go`: `SummarizeRiskLevel`, `DecideKYT` | pure operators |
| `DepositPipeline` | the deposit pipeline | `Receive`, the branches of `ProcessOne`, the two scans, `Grow` and `RetryDue` (time), `Fail` |
| `DepositLedger` | what the pipeline promises of balances | abstract: `Screen`, `Close`, `Credit` |
| `MCDepositPipeline` | events, alerts and provider answers for TLC | |
| `FundRouting`, `MCFundRouting` | fund routing | address facts, routing, the projection worker's steps, the ledgers' claims and bookings, crashes, leases, the operator |
| `CaseLifecycle` | what fund routing promises of a movement | abstract: `Open`, `Decided`, `Book`, `Settle`, `Block`, `Requeue` |
| `WealthOrders`, `MCWealthOrders` | wealth orders and the daily run | one step per SQL statement |
| `AdaptiveLoop` | loops, wakes, deadlines, the window | one step per stage of an iteration, `Tick` |
| `WebSession`, `MCWebSession` | one tab, its storage and the user rows | the customer's clicks, time, the server's statements, the delivery of answers |
| `Withdrawals`, `MCWithdrawals` | three pages, the whitelist, the second factor | as before |
| `Subscriptions` | the fixed-deposit page and the idempotency check | as before |
| `...Proofs` | theorems, section 4 | |

`DepositPipeline` EXTENDS `KytDecision` and implements `DepositLedger` under the
mapping at its end (`Ledger == INSTANCE DepositLedger WITH ...`): OPEN, SCREENING, CREDITED and CLOSED are what a
deposit's status means for its customer's balance. The abstract ledger says that a balance
only ever grows by crediting one deposit that is undecided and, with screening
on, under screening.

### DepositPipeline and the code

A claim (`LockNextPendingEvent`, `FOR UPDATE SKIP LOCKED`) is one step, the rest of
`ProcessOne` with its commit another: the statements between them run under the
lock of the deposit row they write, and nothing before the commit is seen by others. The exceptions
have steps of their own: after a rollback the error is recorded in a
separate, guarded statement (`MarkEventErrorNoTx`), and a scan reads, asks and
applies in three. An orphan alert has no row lock to hold, but what it then
writes is only its own event, and the insert of its deposit by another worker between
the look-up and the commit has the same outcome as one just after it.
`ProcessOne`'s returns map to one action each; an error return ends the
drain (`Commit`, `Go(w, "kyt")`) as `DrainProcessOne` does.

Data is abstracted to what the control tells apart: a payload is a record with
the outcome of every check the code makes of it (direction, company address, owner, how the coin
resolves, whether the amount parses), an age is one of the three classes the scans' queries
distinguish, amounts are small numbers. The deposits columns that are only
displayed, alert mails and log lines are left out.

`TransactionClaims` is the worker's claims mode. `NewDBRepository` has it on (`deposit/repository.go:117`): every
event is claimed, oldest first. The server switches it off (`internal/container/container.go:180`): its worker claims
the alerts and, before them, the customers' events that fund routing wrote. The transactions of `inbox` stand for those
events then; that such an event is claimed and its deposit written only while its command is pending
(`deposit/repository.go:215`, `:298`) is `FundRouting`'s subject. The theorems hold in both modes; `deposit_liveness` runs the server's, in
which an alert waits for a transaction however much later that one came.

### WealthOrders and the code

Because no operation opens a transaction, each statement is an action and a
request is a `job` that remembers what it read. `Redeem`, `SettleOrder` and `RenewOrder`
share the statements `Unfreeze` ... `Close`; which of them run, and what
`Close` writes, follows the operation. `run` is the scheduler between two orders.
A list query takes one snapshot (`List`), the updates come later. There is one product and one currency; interest is
counted in days and turned into money at one unit per day, so that a
day too many shows as money. `returned`, `payments`, `credited` and `recorded` are history: no action
reads them. `LastDay` lets the calendar end without deadlock.

`Subscribe` begins with a lock that does not keep what it promises, and the model has its parts as they are.
`service.mu` and `service.lockMap` are the maps of `WealthService`; a mutex is known by its key and by the request that made
it. `getLock` looks the mutex up in one step (`Subscribe`) and stores a new one in another (`MakeMutex`), so that two
requests of one key may each make one and both get in; `Lock` and `Mark` are the mutex and the two halves of
`isDuplicateCheck`; a request refused as a duplicate deletes the mark of the one still running (`ClearLock`), after it has
released the mutex. The key is the customer, the product and the text of the amount: `Text` holds the texts an amount is
written in ("1", "1.0"), which take different mutexes. The map of another replica is, for one customer and amount, like
another text. The Go runtime may stop the process when it notices two
requests on a map; that stop is `Restart`. Two products of one currency, which share the balance and nothing else, are not
modelled. An amount outside the product's limits ends the call before it has written a row, so `Amount` is within
`MaxAmount`, and so is the amount the properties below count with.

`Prompt` is the timing on which the code silently relies: a redemption takes less than the
5 seconds between midnight and the run, and the run less than the 55 seconds
until redemptions are allowed again. Runs with `Prompt = FALSE` show what
holds without it.

### AdaptiveLoop and the code

Times are relative to now, in ticks, because the code only compares them with
now; `Left` counts them down. `Slack` is how many ticks a loop may take from
being runnable to waiting again: a cycle, or a late timer. `Combined` loops (the deposit
worker) may report MoreWork and a deadline at once; the others (`Runner` of
`adaptive_run.go`) ask for a deadline only when there is no more work. A
Combined cycle whose query fails may report any earlier answer; the model
lets it be any deadline, which includes those. `owed` is history: when a scan must have started, and
for which reason; `Tick` lets it run out and a scan settles it. `rows` is the durable
work of one loop, claimable now or later.

Not modelled: `Start` and `Stop`, the worker's memory of a quarantined payload,
the time an AML answer is rearmed for, and the back-off after a panic (a
panic itself is `CyclePanics`). Drain and scan limits (100 and 50 rows) are `DrainLimit`.

### FundRouting and the code

A case is a movement; cases share no row, so one is enough for every interleaving. A decision that is
not open issues a command with exactly one action: nothing in the repository sets `CrossDomainAllowed`
(`router.go:141`), so a decision for both owners never arises and `decideCrossDomain` ends as the company's with a review
(PARTIAL). The status of an action therefore says that of its command (DEAD is BLOCKED), and `status`, `attempts`,
`lease` and `live` are those of the pending command's action; a superseded command's actions are dead
for good, and left out. `inbox` keeps the events of all commands, because an event of an earlier command stands in the way
of a company's movement.

A transaction of the code is one step. The projection worker reads, inserts, looks, waits or closes in
transactions of their own, and `job` is what it remembers in between: after `Look` said "complete" anything may happen
before `Complete` checks its lease. `Expire` takes a lease from a worker that may go on; `Release` takes a delivery from a
company event worker that may go on as `stray`. A ledger's write asks again whether the command is pending
(`ensureCustomerRoutingAction`, `ensureCompanyRoutingAction`), in the transaction that books. A row that exists is only
updated by another booking of the same payload, and keeps saying `exact` or `other` of the routed movement.

The company is told from the customer by `decision`. `facts` are what the look-up of the addresses
and the payload say; they, and the deliveries, are followed until the case is decided (`Undecided`), since no step after
that reads one that may still change. One progress report and one final event stand for a transaction's webhooks:
whether the custodian sends the final event or the status check fetches it is the same to the router (`Deliver`), and a
further final event of the same rank, to which the company's event would be bound instead, is left out.
`OperatorRequeue` has no code in the repository but the queries that expect it; what it writes is what
`projection_worker_postgres_integration_test.go:97` does in its place.

`Lifecycle == INSTANCE CaseLifecycle WITH ...` at the end of the module maps a case to its phase, the command issued
last to the turn, the ledger's row to the ledger, and the result to who settled it.
Left out: backoff times, alerts and their escalation, the recovery command, the ingestion of history, control actions
(no code issues them).

### The three web modules and the code

They have one form. A request is a record in `call`, from the click that sends it until its
answer is delivered; the customer's actions, the server's statements and the delivery are actions
of their own, so that everything else can come in between. `here` says whether the component that
asked is still mounted: an answer without it is still processed where the code
processes it (storage, router, query cache) and dropped where the code only sets component state. A handler of
the server is one step where it is one statement or one transaction, and two where it reads,
checks and writes later (`ReadForVerify` and `WriteVerified` or `WriteAttempt`, `ReadForContact` and
`WriteContact`, `CheckOrCreate`, `Subscribe` and `Conclude`). `Fail` and `Lost` stand for a
request that does not arrive, is refused for a reason the model leaves out (a rate limit, an expired
token), or whose answer is lost after it was carried out.

`WebSession`: a token stands for its owner, an e-mail for its customer. `Landing` is the
page a navigation ends on after the effects of the layout and of `Login` have moved on; `Mount` runs the effects
of that page, `Visit` leaves the page before first. The query cache has an owner and a freshness per key. Left
out: registration, the disabled status, the redirect whitelist, refresh tokens
(stored, used by no page), the windows of the rate limits and the expiry of tokens.

`Withdrawals`: an address stands for its row and its wallet. `addresses` are those that were available when the
list was fetched, `seen` the verified ones; whether a row can be clicked is decided at the click, by the
clock. That clock is one: `frozen` is the server's comparison (`internal/services/withdrawal_service.go:182`) and the page's
(`Withdraw.tsx:95`, the browser's time against the `frozenUntil` of the list) at once, so a browser whose clock is ahead
could click an address the model still has frozen. `Withdraw.tsx` keeps `selectedAddressId` and `selectedAddress` apart, and so does the model. Left out: the fee's
value, the primary flag, the history list, the QR code and backup codes. `HasWealth` says whether the customer has an
account of type WEALTH, which no code of the repository creates; `BehindProxy` whether requests pass the Vercel
function, which does not forward `/deactivate`.

`Subscriptions`: `requestIdRef` and `isSubscribing` are set and reset together and are one variable. The idempotency
store may be Redis or the table; `CheckOrCreate` has the outcomes of both. Left out: filters, the estimate of the
interest, formatting; that `Subscribe` is several statements is `WealthOrders`' subject, here it is one.

### Mistakes on purpose

An operator named `Bug...` is the definition after it with a plausible mistake.
Nothing refers to it. Putting it in the place of that definition makes a
property fail in the run that checks it, and `PROJECT.json` ("mutants") pairs each
property with one.

## 3. What is checked

| run | instance | question | properties |
|---|---|---|---|
| `deposit_screening` | 1 transaction, 5 events (progress, completion, late failure, 2 alerts), 2 workers, 1 fault | screening under any order and overlap | TypeOK, CompletionIsActedOn, WholeReportDecides, DecisionIsFinal, RankNeverFalls, ImplementsLedger |
| `deposit_reviewed` | 2 transactions, any 3 of 12 events, all answers of the company handler, screening off | every other way through `ProcessOne` | CreditedIffPosted, JournalExplainsBalance, ProgressIsBacked, OrphanRetriesAreBounded, FinishedEventIsFinal |
| `deposit_liveness` | 1 transaction, inconclusive and clearing alert, fairness, the server's claims mode | does everything end? | PostedAtMostOnce, ClearedBeforeCredit, EveryEventFinishes, ScreeningEnds |
| `wealth_daily` | 2 orders of amounts 1 or 2, term 3 days, 6 days, 1 request at a time, Prompt | does money move exactly once? | TypeOK, PrincipalIsFrozen, PrincipalReturnedOnce, InterestPaidOnce, EarlyRedemptionForfeits, DailyRecordsAddUp |
| `wealth_overlapping` | 3 orders of equal amount, 2 requests, balance and quota of one order, not Prompt | what survives any overlap? | JournalExplainsBalance, FrozenWithinOverlap, SoldWithinOverlap |
| `wealth_liveness` | 1 order, 1 failing statement, 1 restart, 6 days, fairness | is a matured order repaid, whatever fails once? | InterestWithinTerm, MaturedIsRepaid, ClosedStaysClosed |
| `adaptive_loops` | 2 loops (one Combined), MaxIdle 2, WindowIdle 3, OpenFor 2, Slack 1 | wakes, deadlines, gaps, quiet | TypeOK, NotifiedIsScanned, DeadlineIsKept, GapIsBounded, RunnerBacklogIsDrained, QuietBudget, IdleCycleRests |
| `fund_routing` | 1 movement, 3 worlds of address facts, 2 workers, 2 commands, 2 attempts, 1 lapse, fairness | does routing keep its promise, and does it end? | ImplementsLifecycle, NotLeftOpen, BookedIsSettled |
| `web_session` | 2 customers, PENDING or ACTIVE at first, 2 requests at once, 2 wrong codes, 2 pages opened | do late answers and stored statuses open the dashboard to anyone? | TypeOK, DashboardIsEarned, StoredStatusIsReal |
| `web_cached_address` | 2 ACTIVE customers, 1 request | *violated*: the address shown is the customer's | AddressIsOwn |
| `withdraw_confirmed` | 2 addresses, 2 requests | *violated*: the address confirmed is the one sent | ConfirmedAddressIsSent |
| `subscribe_retry` | 1 product, 2 request ids, 2 orders, 2 requests | *violated*: one confirmation makes one order | OneOrderPerConfirmation |

### Bounds

Two workers are enough for every pairwise race; what a third could add is a race
of three commits on one row, and the deposit theorems cover any number. Two
reports reach every tie and every mixed list of `SummarizeRiskLevel`, with `MaxAmlEntries = 1` so that one of
them is cut off. `OrphanMaxRetry = 2` has a retry and a last attempt. `FewEvents` (a
constraint) stops after three events have arrived, which are any three of the twelve: no action reads the events that have
not, so it cuts behaviours short and hides none of their prefixes. Three is what one transaction needs for an alert,
a status and a completion to meet. `MaxFaults = 1` places one
crash or database error anywhere; each undoes at most one transaction. A wealth
term of three days has a first, a middle and a skipped last day of accrual; six days let an order
that renews once mature again. Two orders meet in one settlement loop. In `wealth_overlapping` balance and
quota are those of one order and two requests race in `getLock` for one key: both get in, and frozen and sold reach 2
where 1 is allowed, which is the bound of `FrozenWithinOverlap` and `SoldWithinOverlap` exactly. The same customer's second amount or text, and
a second customer for the quota, are further ways to hold two mutexes; with two amounts the run is too large to
exhaust, and the theorems cover any. No statement fails in `wealth_daily` and `wealth_overlapping`: partial failures are the subject of
`wealth_liveness` and, for the amounts, of the theorems. In the loops, all durations are distinct where the code compares
them except where equality is itself the interesting case; `LongestGap` is
tight there: with one tick less `GapIsBounded` fails.

The web runs bound what the customer does by himself (`MaxVisits`: pages opened by address or
menu, and reloads); navigations the code makes are not bounded. Two requests are enough for an answer to overtake
another; two customers for one to find what the other left. `Start` leaves out the two statuses between
PENDING and ACTIVE, which the run reaches by activation and review. Withdrawals and Subscriptions have no passing run: with bounds at
which their interesting cases happen they are too large to exhaust, and their invariants are
proved instead, for all sizes. Their smallest instances were exhausted: Withdrawals with one address, two requests and an
account of type WEALTH has 539,495 states, in which no withdrawal goes to an unverified or frozen address and
every action fires; Subscriptions with one id, one order, two requests and no product that renews has 1,374,236,
in which no id pays twice and every action but `ToggleAutoRenew` fires.

In `fund_routing`, two workers are enough for one to go on while another takes over, two commands for one
to supersede the other, two attempts for an error to be retried and to exhaust them. One lapse is one crash, one lease lost at
work or one delivery given back, placed anywhere: the second of a pair is always the worker or the delivery that replaces the first. The three
worlds (`StartFacts`) are an address still in the pool beside a company account that is switched off, addresses nobody
knows yet, and a customer's address reached by a payload without a time; from these the operator and the pool reach
every decision and every reason. The theorem covers any number of each.

Symmetry is used for workers, requests, customers and addresses, never in a run with liveness.

### Fairness

`DepositPipeline`: time passes (`RetryDue`, `Grow`), and each worker's cycle goes on
(`WF` of `ProcessOne \/ Scans`), which `Run`'s loop and its recovery of
panics justify: a cycle is started at the latest after MaxIdle and the closed part of the window
(`GapIsBounded`). Arrivals, faults, the provider's answers and the company handler's
have no fairness: the provider may answer IN_PROGRESS, or fail, for ever, and the timeout scan still
decides. `deposit_liveness` has no payload of `AbandonUnparseable`,
which by design of the code stays PENDING for ever, and its company handler answers NOT_COMPANY: alerts that a deferring
company handler keeps PENDING are in `deposit_reviewed` and outside that run.

`WealthOrders`: a statement in progress goes on, the scheduler's goroutine
goes on, and days pass. Requests, failures, restarts and operator
changes are not fair. `MaturedIsRepaid` gives each disturbance one
more day, as the code does (the next run repeats the settlement), and asks only of
orders whose deadline lies inside the explored calendar.

`FundRouting`: the router, the reconciler, the projection workers and the ledgers scan their tables again and again
(their loops' gaps are bounded by `GapIsBounded`), a job that was begun goes on, and the time of a lease passes. A final
event is routed or rejected, a delivery booked or refused. Deliveries, address facts, crashes, failing statements, the operator and a
delivery that goes on as `stray` have no fairness. `Fail` needs none either: an error ends in a retry or in a blocked case.

The web modules have none: a request may stay unanswered for ever and a customer may leave, and nothing in
them promises progress.

`AdaptiveLoop` has no fairness: its liveness is bounded, by the deadlines in
`owed`, so that safety checks and proofs apply.

### Disagreements found

Three have a run:

- `web_cached_address`: the query key is the network alone (`pages/dashboard/Deposit.tsx:211`) and nothing clears the
  query client at a logout (`src/components/DashboardLayout.tsx:74`), so the next customer of the tab is shown the
  address of the one before, contrary to `src/lib/wallet-service.ts:106` and
  `docs/spec/safeheron-phase1-spec.md:1179`.
- `withdraw_confirmed`: `handleAddressChange` sets `selectedAddress` only if the address was available when the list was
  fetched and `selectedAddressId` always (`pages/dashboard/Withdraw.tsx:420`); the summary shows the one (869), the request
  sends the other (445). `docs/静态理财/需求文档MD/用户提现功能PRD.md:178` has the summary show the address the coins go to.
  A list fetched again between summary and code has the same effect.
- `subscribe_retry`: the `finally` block resets the request id after every attempt
  (`pages/dashboard/FixedDeposit.tsx:606`), contrary to its comment at 394 and to
  `docs/静态理财/需求文档MD/定期理财产品申购功能PRD.md:107` and `:110`.

Others met while modelling, which the modules reproduce and no run is spent on.

*Deposits*

- `MoveToKYTPending` leaves `aml_risk_level` NULL and the AML poll selects `= 'PENDING'`
  (`deposit/repository.go:658`), so the poll does not see a deposit whose alert never came, contrary to
  `deposit/service.go:534`. `ScreeningEnds` shows that the timeout does.
- A report list whose statuses are all unlisted is summarised LOW and credited
  (`deposit/kyt.go:77`); `docs/spec/safeheron-phase1-spec.md:799` has no such row.

*Wealth orders*

- `Subscribe` compares the available balance in Go and `FreezeBalance` adds without a condition
  (`services/wealth.go:301`). The mutex does not prevent it: `getLock` is a look-up and a store in an unguarded map (55), so that two
  first requests of one key may hold a mutex each; a refused duplicate removes the mark of the request that runs
  (253); and the key has the product and the text of the amount (63), so that another amount, "1.0" for "1", another product
  of the currency or another replica take another mutex. Concurrent requests then freeze more than the balance. The
  design asks for compare-and-set (`docs/静态理财/需求文档MD/理财账户系统设计.md:15`). What does hold is `FrozenWithinOverlap`: the
  overrun is at most what all requests under way but one may ask for, however long this goes on.
- An order held to its end is paid for one day less than its term
  (`scheduler/interest.go:165`; `docs/static-finance-prd.md:274`).
- A renewal needs the principal a second time as spare balance, and an order without it is neither
  renewed nor settled on any later day (`interest.go:425`; `static-finance-prd.md:265`).
- A settlement that fails after paying is repeated from its first statement and pays again
  (`interest.go:328`); so do two concurrent redemptions of one order (`services/wealth.go:444`).
  `PrincipalReturnedOnce` and `InterestPaidOnce` therefore hold only in `wealth_daily`, one request at a
  time and without failures.
- The sold quota is compared in Go and added later, so concurrent requests oversell
  (`services/wealth.go:289`), those of two customers without any race for a mutex. `SoldWithinOverlap` bounds by how much.
- Subscription journal rows carry the balance read before the freeze as `balance_snapshot`
  (`services/wealth.go:313`).
- A renewed order ends in the status of a settled one (3); the comments name a status of its own (2).
- The automatic-renewal switch outlives a cancelled dialog and the choice of another product
  (`pages/dashboard/FixedDeposit.tsx:1031`), while the scheduler reads whether the product renews (`interest.go:410`).
- The expected interest of an order is what the page computed; the server stores it unchecked.

*Fund routing*

- An action that waits for its ledger counts its attempts (`projection_worker.go:681`), and only errors are compared with the limit of
  8 (677): after ten minutes of waiting the first transient error kills the action and blocks the case.
- A customer's event that the deposit pipeline refuses ends in ERROR, and nothing tells the action: it waits for a
  deposit for ever, while a company's refused event blocks its case for the operator to see (418, 420).
- A customer's command that supersedes one whose deposit exists closes the case with that deposit at once; an event it wrote
  itself may then never be claimed and stays PENDING.
- A company's event that is PROCESSED, or in delivery, when its command is superseded cannot be taken over
  (521 asks for DEAD_LETTER): every further command is blocked with `PROVIDER_EVENT_CONFLICT`, although the
  movement may be booked exactly.
- The reconciler's list of reasons (`reconciler.go:108`) has no `BEFORE_CUSTOMER_ASSIGNMENT`: a case opened for it stays open when a
  company account at the other end is switched on later, although a new event of that movement would now be the company's.

*Loops*

- MoreWork reported together with a deadline in the future sleeps until the deadline: `wait == 0 || dueWait < wait`
  (`adaptiveschedule/loop.go:295`) replaces the zero wait, contrary to `loop.go:42` ("re-enter immediately without idle
  wait") and `:203`. The deposit worker reports both (`deposit/worker.go:136`, `:179`); `RunnerBacklogIsDrained` is therefore
  stated of the other loops.
- `MaxIdle` alone does not bound the time between scans (`loop.go:8`): the closed window adds up to
  WindowIdle - OpenFor. `LongestGap` is the bound that holds.

*Web session*

- A login in status EMAIL_VERIFIED or INFO_SUBMITTED has no token, and the page stores the text `undefined` for it
  (`pages/Login.tsx`): the customer stays on a page whose requests are all refused until he verifies again.
- Verifying a code refuses only ACTIVE customers, and both it and the contact form write after reading: an approval in
  between is taken back (`services/activation_service.go:165`, `contact_service.go`). Two wrong codes at once count
  as one.
- Answers are written to storage after a logout, with the customer's id of whoever is stored by then; the refusal of an old
  request for assets signs out the next customer (`pages/dashboard/Overview.tsx:81`, `Assets.tsx:64`).

*Withdrawals*

- The account of type WEALTH that a withdrawal freezes is created by no code (`services/auth.go:128` and
  `deposit/repository.go:356` create FUND): every withdrawal ends with an insufficient balance.
- After a failed provider call the service releases a balance that it has not frozen, and an update that
  matches no row returns without a rollback (`services/withdrawal_service.go`).
- The proxy does not forward `/deactivate` (`api/[...route].ts:144`) although its comment lists it (54): behind it no
  address can be deleted. A deleted address can never be added again.
- Without a second factor any token verifies an address. Setting up the second factor overwrites the secret of an
  account that has it on, if the page could not fetch that it has (`pages/dashboard/Security.tsx:71`,
  `services/twofa_service.go:60`).
- An address added on the address page carries the coin as its network: the withdrawal page does not list it but may select it by
  itself. Fees of different amounts are shown in the order their answers arrive (`Withdraw.tsx:373`).

*Idempotency*

- `RedisCache.Get` returns an empty text for a missing key (`internal/cache/redis_cache.go:45`), which is then parsed and fails:
  with Redis no record is ever kept. With the table, the check and the insert are two statements and the insert does nothing on
  a conflict, so two requests with one id are both carried out (`services/idempotency_service.go:125`). Neither is
  reachable from the page, which draws a new id for every attempt (`RecordsAreNeverFound`).
- A redemption carries no request id.

## 4. What is proved

The theorems hold for every value of the constants that satisfies the named
assumptions of the modules (`EventAssumption`, `ReportAssumption`,
`CompanyAssumption`, `BoundAssumption`, `TimingAssumption`, and those of the web modules), which TLC
evaluates in every run. Nothing else is assumed, except where a theorem names it.

| module | theorem | says |
|---|---|---|
| `DepositPipelineProofs` | TimeoutDecides | after the timeout no state and no list keeps a deposit waiting |
| | PrefixOfLowIsLow | cutting off a LOW list leaves a LOW list |
| | TypeCorrect | TypeOK |
| | DecisionsAreFinal | DecisionIsFinal |
| | RanksNeverFall | RankNeverFalls |
| | CreditsAreCleared | ClearedBeforeCredit |
| | FinishedEventsAreFinal | FinishedEventIsFinal |
| | RetriesAreBounded | OrphanRetriesAreBounded |
| | CompletionsAreActedOn | CompletionIsActedOn |
| | ProgressBacked | ProgressIsBacked, if the events of a transaction name one owner |
| | WholeReportsDecide | WholeReportDecides |
| `DepositLedgerProofs` | PostedOnce | PostedAtMostOnce |
| | CreditedMeansPosted | CreditedIffPosted |
| | BalanceIsExplained | JournalExplainsBalance |
| | PipelineImplementsLedger | ImplementsLedger |
| `WealthOrdersProofs` | WealthTyped | TypeOK |
| | InterestStaysWithinTerm | InterestWithinTerm |
| | FreezesWithinOverlap | FrozenWithinOverlap |
| | SellsWithinOverlap | SoldWithinOverlap |
| | JournalExplains | JournalExplainsBalance, while no statement fails |
| | ClosedStays | ClosedStaysClosed, with one operation at a time on an order |
| | ReturnsPrincipalOnce, PaysInterestOnce, EarlyForfeits, RecordsAddUp, FreezesOpenOrders | PrincipalReturnedOnce, InterestPaidOnce, EarlyRedemptionForfeits, DailyRecordsAddUp, PrincipalIsFrozen; with one operation at a time on an order, while no statement fails |
| `AdaptiveLoopProofs` | LoopsAreTyped | TypeOK |
| | WakesAreKept | NotifiedIsScanned |
| | DeadlinesAreKept | DeadlineIsKept |
| | RunnersDrain | RunnerBacklogIsDrained |
| | QuietIsKept | QuietBudget |
| | IdleCyclesRest | IdleCycleRests |
| | GapsAreBounded | GapIsBounded, if deadlines are near |
| `FundRoutingProofs` | RoutingIsTyped | TypeOK |
| | RoutingImplementsLifecycle | ImplementsLifecycle |
| | ClosingsAreBooked | a closed case was booked exactly, by its closing command or an earlier one of its own |
| | BookedAndClosedForGood | a booking and a closed case stay as they are |
| `WebSessionProofs` | WebTyped | TypeOK |
| | DashboardsAreEarned | DashboardIsEarned |
| | StatusesAreReal | StoredStatusIsReal |
| `WithdrawalsProofs` | WithdrawalsTyped | type correctness |
| | WithdrawalsAreVerified | no withdrawal is asked for to an address that is not verified or still frozen |
| | ConfirmedIsSentWhenCalm | ConfirmedAddressIsSent, if no freeze ends and no list arrives while a withdrawal is entered |
| `SubscriptionsProofs` | SubscriptionsTyped | type correctness |
| | KeysAreChargedOnce | one request id never pays for two orders |
| | RecordsAreNeverFound | the idempotency check never finds a record |

**The deposit pipeline.** A worker has some thirty actions, and one may follow
another in any order. The proof does not look at them one by one more often than
it must. `NextIsStep` shows that whatever happens, it is one of three
things to deposits and accounts (`OneRow`): nothing, a change of one deposit row
along the status order (`RowChange`), or the credit of one row with its posting
(`RowCredit`). `NextIsEvent` says the same of events and workers: a worker claims
an event, goes on without writing one, or ends the event it holds. All invariants
are proved from these two facts. The inductive invariant is TypeOK with

- `Rows`: a row that exists has a customer, a row that does not has rank 0, and a row is
  under screening only if screening is on. The last is what makes a credit without
  screening impossible while it is on.
- `Claims`: a worker inside a transaction holds a PENDING event, and a worker
  that asks the provider asks about a row that exists. A claim is a row lock,
  so nobody else finishes the event meanwhile.
- `Exclusive`: two workers never hold one event inside a transaction
  (`SKIP LOCKED`). Without it `Claims` is not inductive: one worker would finish
  the other's event.

What an event leaves behind needs the outcomes of a step for one event (`NextOutcome`: it is kept, waits, is retried, given
up, refused or done) and for the row an event stores (`IngestOutcome`); every other step leaves the status of a deposit alone
unless it is under screening (`NextStays`). The invariant gains

- `Marks`: where an error is to be recorded after a rollback, the event is a transaction. Without it an alert might end in
  ERROR by that way, with attempts left.
- `Unattempted`: an event not yet received has no attempts, so that it starts below the limit.
- `Owners`: the customer of a row is the one the events of its transaction name. A row keeps the customer of
  the event that created it, while the completion that moves it on may be another event; ProgressIsBacked is about the owner of that one. `OneOwner`
  is the hypothesis that the two agree: the owner is looked up by the destination address
  (`deposit/service.go:398`), which a transaction has once.

The ledger adds `Posted`: a journal row about a transaction is in the journal of the customer
of a CREDITED deposit, and the other way round. PostedAtMostOnce follows, since a credit
starts from a row that is not CREDITED, of which therefore no journal has a row. For
the refinement, `RowChange` maps to a stutter, `Screen` or `Close` of `DepositLedger`
and `RowCredit` to `Credit`.

**The wealth orders.** No statement is guarded by what the ones before it read, so the invariants are about the processes as
much as about the rows: they say what each step of a job may still rely on. `TypeInv` fixes, besides the types, which operation can be at
which step, and that the rows a job or a list names exist; each action then has a lemma that says what it does to jobs, rows and
accounts (`...Does`), and the other proofs use only those.

- `Short` (interest): the days that a scheduler has listed, or a job carries, are those of an order that has not run its
  term, counted before it was paid. It needs no hypothesis, since accrual is bounded by the term and a settlement starts from what was
  accrued.
- `FreezesBorne`, `SalesBorne` (subscriptions): nothing in the proof is about the lock, since it keeps nobody apart. `Checked` are the
  requests that have compared with a balance and not frozen yet, `Allotting` those that have compared with the quota and not added to it.
  `Borne` says that what is left of the balance (the quota) bears what they will take: with n of them and the spare amount
  (requests - 1) * MaxAmount, either n * MaxAmount, or what one of them asks for and (n - 1) * MaxAmount. A request that
  compares establishes the second (`BorneCheck`: it found room for itself, and the others are at most all requests but one); one
  that takes its amount, fails or vanishes in a restart leaves `Borne` true of the rest (`BorneTake`, `BorneFewer`). The bare bound
  is not inductive, because a request that has checked takes its amount later from what is left then. There is no hypothesis beyond
  `WealthAssumption`; with one request at a time the theorems say that nothing is overdrawn or oversold.
- `Explained` (journal): the balance is the journal plus what every job has added or taken and not journalled yet. It is a sum over
  processes, and induction over data is out of the prover's reach; the sum is therefore stated as the cardinality of a set of
  *units*, pairs of a process and a number up to its amount, and a step adds or removes a set of known size. `WealthOrders` counts
  the principal of the open orders in the same way (`Principal`).
- `Apart` (one operation at a time): during a run no redemption is in progress, an order is in the list of one phase at
  most once and not worked on while it is listed, what is listed is still in the status it was listed for, and two jobs never
  end the same order.
- `Ledger` (money once): how far an order's `returned`, `payments`, `credited` and `recorded` are follows from its
  status and from the step of the one job that ends it (`Progresses`, `Untouched`, `Ended`, `Elapsed`, `Recorded`).
- `Backed` (freezing): what is frozen, with what jobs have unfrozen of orders still open, is the principal of the customer's orders with what jobs
  have frozen for orders not created yet; again as numbers of units.

The last three rest on `OneScheduler` and `[]OneRedemption`. The first says that `Prompt` holds and one process runs the
scheduler: every server starts one (`cmd/server/main.go:136`), and nothing keeps a second replica, or `cmd/scheduler`, from another. The second says that no two redemptions of one order overlap; `Redeem` takes no lock,
and two of them do pay twice. `Undisturbed` says that so far no statement has failed and no restart has ended a job: a settlement that fails
after paying is repeated and pays again, so these properties are true only until then. Both are properties of the behaviour, not
assumptions about constants: a theorem says what holds while they do. `ClosedStays` and `InterestStaysWithinTerm` hold through failures and restarts.

An order to be listed next is a CHOOSE; `Least` and `NextListedIn` show once that there is one, and that it is
listed, from the well-foundedness of the numbers.

**The loops.** The properties say that no obligation in `owed` ever runs out, which is not
inductive: time eats it up while a loop does something. The invariants
say how much is left at each stage.

- `Timely`: a loop waiting for a timer does not lag (`Punctual`). A notified loop has its wake
  in the channel or has just drained it and stands at the top of its loop
  (`Awake`). A deadline that is owed is one the loop still has stored, and
  its timer does not pass it (`Heeded`). A runner with a backlog stands at the top with
  a zero idle wait (`Draining`).
- `Calendar`: the window is a function of the time since the scan that opened it.
- `Spared`: what is left of a gap covers the stages to come: the cycle and its
  idle wait, perhaps one wait at the gate, and then nothing that could make it wait
  again (`Sure`). A second wait at the gate is excluded by OpenFor > Slack: a loop that waited for
  the window arrives while it is still open.
- `Counted`: a cycle that counted rows has taken one.

`GapsAreBounded` assumes `NearDeadlines`: no loop is Combined, or no deadline is
farther than MaxIdle. Without it, a cycle of the deposit worker that reports more work
and a far deadline sleeps until then. Deadlines come from the retry times of rows, which nothing
in the loops bounds; so this is a hypothesis of the theorem and not an ASSUME.

**Fund routing.** The refinement needs two facts beyond types. `Fenced`: no decision, no command; and the
pending command is always the one issued last, so that what an operator superseded can never become current again.
`Backed`: a job about to complete has seen an exact booking, and a booking stays. With them `Steps` shows
that a step is `Quiet` (it changes nothing the abstract module sees) or one of `Opens`, `Issues`, `Books`, `Blocks` and `Settles`, and each of
these is an action of `CaseLifecycle`: `Issues` is `Decided` or `Requeue`. From the same five
steps follows what the promise means for a movement: `Histories` says that a booking has a command that was issued, and that a closed
case has no pending command and the exact booking. It is why nothing reopens a closed case: a command is only issued
for a case that is undecided or has one pending, and a closed one is neither. Where a worker that lost its lease would do harm, the guard
`Holds` of `Complete` and `Dead`, or `Current` of the ledgers' writes, is what the proof uses.

**The web session.** `met` (whom the browser has dealt with) and `reached` (the statuses a customer has had)
only grow, so whatever an answer says about a customer stays true of the past while it travels; that is why late
delivery does no harm to the two properties. The inductive invariant says of every place that can hold a customer (token, stored
user, memory, form, each request) that he is one of `met`, of every status in storage or in an
answer that it is in `reached` of its customer, if the browser met only one, and of a stored
status ACTIVE that its customer was let in. The only place where a status is stored that no answer
named with its customer is the contact form, whose answer proves INFO_SUBMITTED for the token's owner: with two customers that
owner may be another one than the stored id, and only INFO_SUBMITTED is stored, which opens no dashboard.

**Withdrawals.** A row only ripens: listed, then verified, then thawed, then perhaps deleted (`Ripens`), and never
goes back to unverified or frozen. So what a page learned from a list is a lower bound of what is true later (`Known`), and the click adds
the rest: the row is not frozen any more. That half assumes that the browser's clock agrees with the server's, as the model
has one clock. The calm theorem has the hypothesis as an action property of the behaviour and keeps
`Paired`: the address shown and the id sent are selected together. It says that the two
ways of `withdraw_confirmed` are the only ones.

**Subscriptions.** `Fate` lists what a step may do to a request: nothing, end it, advance it by one stage, or create one
with an id never drawn before. From it: ids in requests are pairwise different and drawn, an order or a record with an id exists only
once its request has reached the stage that makes it. Steps are `Plain` (no id is drawn) or `Draws`.

**Checked only.** `EveryEventFinishes`, `ScreeningEnds`, `MaturedIsRepaid`, `NotLeftOpen` and `BookedIsSettled` stay with TLC:
liveness under fairness needs ENABLED, which the prover does not support. Every safety invariant and action property
of a passing run has a theorem. The prover has no induction over data, so what a
recursive definition computes for every list is out of its reach; `SummarizeRiskLevel` is
written with quantifiers, and sums as cardinalities, for that reason.

## 5. Not modelled

- **The rest of fund routing**: the delivery of alerts and their escalation, and the schedule of status checks, are leased queues
  like those of the company fund ledger; the recovery command (`recovery_repository.go`) links a booking that exists to its case, with the checks of
  `Complete`.
- **Company fund ledger**: provider events, ledger tasks, valuation jobs and sync runs are leased queues of one kind and would
  share one module of claim, renew, complete, fail and expire; the merge of several providers' facts is a
  fold whose result must not depend on their order.
- **Wallet creation and the address pool**: claims with `SKIP LOCKED`, the replenisher, crashes between provider and
  database.
- **Withdrawal bookkeeping**: what a withdrawal does to balances can never happen while no WEALTH account exists; `Withdrawals` models
  the way to the refusal.
- Everything under *Components left out* that is formatting, I/O or a single statement.
