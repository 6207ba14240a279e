----------------------------- MODULE WealthOrders -----------------------------
(***************************************************************************)
(* Fixed-term orders (internal/services/wealth.go) and the interest        *)
(* scheduler that runs daily at 00:00:05 UTC (internal/scheduler/          *)
(* interest.go), over the tables of repository/postgres/wealth.go.         *)
(*                                                                         *)
(* No operation runs in a database transaction: each statement commits by  *)
(* itself, so each one is a step here, and a call keeps between two steps  *)
(* what it read (its job). Placing an order freezes the principal on the   *)
(* account; redeeming, settling and renewing share the steps that give it  *)
(* back and pay the interest.                                              *)
(*                                                                         *)
(* Interest is counted in days of interest on the order's principal;       *)
(* Interest converts it to money at a daily rate of one. There is one      *)
(* product and one currency. A definition named Bug... is the one after it *)
(* with a plausible mistake: the runs show that the properties notice it.  *)
(***************************************************************************)
EXTENDS Integers, Sequences, FiniteSets

CONSTANTS
  User,          \* customers
  Call,          \* API requests the server can be serving at a time
  Scheduler,     \* processes running the InterestScheduler
  Amount,        \* principals a customer asks for
  MaxAmount,     \* wealth_product.max_amount
  Text,          \* the texts an amount is written in: "1", "1.0"
  AutoRenew,     \* the autoRenew flags they ask with
  Opening,       \* opening balance of every account
  TotalQuota,    \* wealth_product.total_quota
  Duration,      \* wealth_product.duration, in days
  Prompt,        \* a redemption takes less than 5 s, a daily run less than 55 s
  Changes,       \* bound: what an operator changes of the product
  MaxOrders,     \* bound: orders placed by customers
  MaxDay,        \* bound: days
  MaxFaults,     \* bound: statements that fail
  MaxCrashes,    \* bound: restarts of the server
  NoUser, None

ASSUME WealthAssumption ==
  /\ MaxAmount \in Nat /\ Amount \subseteq 1 .. MaxAmount /\ AutoRenew \subseteq BOOLEAN /\ Prompt \in BOOLEAN
  /\ Changes \subseteq {"onSale", "renewable"}
  /\ Duration \in Nat \ {0} /\ Opening \in Nat /\ TotalQuota \in Nat
  /\ MaxOrders \in Nat /\ MaxDay \in Nat \ {0} /\ MaxFaults \in Nat /\ MaxCrashes \in Nat
  /\ IsFiniteSet(Call) /\ Call # {} /\ Call \cap Scheduler = {}
  /\ NoUser \notin User /\ None \notin Call \cup Text

VARIABLES
  day, maintenance,  \* the UTC date, and whether it is before 00:01
  product,           \* the wealth_product row
  account,           \* account rows with the sum of the journal's amounts
  orders,            \* wealth_order rows, by id
  service,           \* WealthService's maps: the marked keys, and the keys' mutexes
  job,               \* what each request, or scheduler, is in the middle of
  run,               \* what each scheduler has left to do today
  faults, crashes

vars == <<day, maintenance, product, account, orders, service, job, run, faults, crashes>>

Process == Call \cup Scheduler

\* wealth_order.status
Pending == 0
Running == 1
Settled == 3
Redeemed == 4
Status == {Pending, Running, Settled, Redeemed}

\* accrued, paid: in days. returned, payments, credited and recorded count, for
\* the properties, the principal's unfreezings, the payments of interest with
\* their days, and the days in daily_interest.
Order == [user: User, amount: Nat, renew: BOOLEAN, status: Status, start: Nat,
          end: Nat, accrued: Nat, paid: Nat, to: Nat,
          returned: Nat, payments: Nat, credited: Nat, recorded: Nat]

Account == [balance: Int, frozen: Int, journal: Int]

Step == {"idle", "getLock", "lock", "mark", "product", "account", "freeze", "create", "quota", "book", "clear",
         "unfreeze", "bookPrincipal", "pay", "bookInterest", "renew", "link", "close",
         "record"}

\* What generateIdempotencyKey tells apart, for the one product there is.
Keys == User \X Amount \X Text

\* A mutex is known by its key and by the request that made it: mu holds the
\* maker of the one that a key's requests find.
Service == [lockMap: SUBSET Keys, mu: [Keys -> Call \cup {None}]]
NewService == [lockMap |-> {}, mu |-> [k \in Keys |-> None]]

\* text, mutex: of a subscription. interest and paid as the job read them; today: the date it computes
\* the order's term from; made: the order it created.
Job == [step: Step, op: {"none", "subscribe", "redeem", "settle", "renew", "accrue"},
        user: User \cup {NoUser}, amount: Nat, text: Text \cup {None},
        mutex: Call \cup {None}, renew: BOOLEAN, order: Nat,
        close: Status, interest: Nat, paid: Nat, today: Nat, made: Nat]

NoJob == [step |-> "idle", op |-> "none", user |-> NoUser, amount |-> 0,
          text |-> None, mutex |-> None, renew |-> FALSE, order |-> 0, close |-> Pending, interest |-> 0,
          paid |-> 0, today |-> 0, made |-> 0]

\* An order as a list query returned it.
Listed == [order: Nat, renew: BOOLEAN, accrued: Nat, paid: Nat, days: Nat]
\* day: the last day the scheduler was awake; it runs again on a later one.
Run == [phase: {"idle", "activate", "accrue", "settle"}, day: Nat, todo: SUBSET Listed]

Init ==
  /\ day = 1 /\ maintenance = FALSE
  /\ product = [onSale |-> TRUE, renewable |-> TRUE, sold |-> 0]
  /\ account = [u \in User |-> [balance |-> Opening, frozen |-> 0, journal |-> 0]]
  /\ orders = <<>>
  /\ service = NewService
  /\ job = [p \in Process |-> NoJob]
  /\ run = [s \in Scheduler |-> [phase |-> "idle", day |-> 1, todo |-> {}]]
  /\ faults = 0 /\ crashes = 0
-----------------------------------------------------------------------------
\* Rows and statements

OrderIds == 1 .. Len(orders)
IsOpen(o) == o.status \in {Pending, Running}
Available(u) == account[u].balance - account[u].frozen
Interest(amount, days) == amount * days

FreezeBalance(u, amount) == account' = [account EXCEPT ![u].frozen = @ + amount]
UnfreezeBalance(u, amount) == account' = [account EXCEPT ![u].frozen = @ - amount]
AddBalance(u, amount) == account' = [account EXCEPT ![u].balance = @ + amount]

CreateJournalRecord(u, amount) == account' = [account EXCEPT ![u].journal = @ + amount]

NewOrder(j) ==
  [user |-> j.user, amount |-> j.amount, renew |-> j.renew, status |-> Pending,
   start |-> j.today + 1, end |-> j.today + 1 + Duration, accrued |-> 0, paid |-> 0, to |-> 0,
   returned |-> 0, payments |-> 0, credited |-> 0, recorded |-> 0]

\* The job leaves its operation: a subscription still has its key to clear.
Return(p) ==
  job' = [job EXCEPT ![p] = IF @.op = "subscribe" THEN [@ EXCEPT !.step = "clear"]
                            ELSE NoJob]
GoTo(p, step) == job' = [job EXCEPT ![p].step = step]
Fails == faults < MaxFaults /\ faults' = faults + 1
-----------------------------------------------------------------------------
\* Subscribe

Key(j) == <<j.user, j.amount, j.text>>

\* Bound: the orders placed and those being placed.
Placing == Cardinality({p \in Call : job[p].op = "subscribe" /\ job[p].step # "clear"})

\* getLock looks the key's mutex up in a map that nothing guards.
Subscribe(p, u, amount, renew, text) ==
  LET mutex == service.mu[<<u, amount, text>>] IN
  /\ job[p] = NoJob /\ Len(orders) + Placing < MaxOrders
  /\ job' = [job EXCEPT ![p] =
       [NoJob EXCEPT !.op = "subscribe", !.user = u, !.amount = amount, !.renew = renew,
                     !.text = text, !.mutex = mutex,
                     !.step = IF mutex = None THEN "getLock" ELSE "lock"]]
  /\ UNCHANGED <<day, maintenance, product, account, orders, service, run, faults, crashes>>

\* A request that found none makes one, in the place of the one that another
\* request may have made since.
MakeMutex(p) ==
  /\ job[p].step = "getLock"
  /\ service' = [service EXCEPT !.mu[Key(job[p])] = p]
  /\ job' = [job EXCEPT ![p].step = "lock", ![p].mutex = p]
  /\ UNCHANGED <<day, maintenance, product, account, orders, run, faults, crashes>>

Holds(p) ==
  job[p].op = "subscribe" /\ job[p].step \notin {"getLock", "lock", "clear"}

LockFree(p) ==
  \A q \in Call : Holds(q) => <<Key(job[q]), job[q].mutex>> # <<Key(job[p]), job[p].mutex>>

\* mu.Lock, and isDuplicateCheck's look at the mark: a duplicate is refused,
\* and its deferred clearLock deletes the mark of the other request.
Lock(p) ==
  /\ job[p].step = "lock" /\ LockFree(p)
  /\ IF Key(job[p]) \in service.lockMap THEN Return(p) ELSE GoTo(p, "mark")
  /\ UNCHANGED <<day, maintenance, product, account, orders, service, run, faults, crashes>>

\* isDuplicateCheck's second half.
Mark(p) ==
  /\ job[p].step = "mark"
  /\ service' = [service EXCEPT !.lockMap = @ \cup {Key(job[p])}]
  /\ GoTo(p, "product")
  /\ UNCHANGED <<day, maintenance, product, account, orders, run, faults, crashes>>

\* defer: the mutex is released first, then the mark is deleted.
ClearLock(p) ==
  /\ job[p].step = "clear"
  /\ job' = [job EXCEPT ![p] = NoJob]
  /\ service' = [service EXCEPT !.lockMap = @ \ {Key(job[p])}]
  /\ UNCHANGED <<day, maintenance, product, account, orders, run, faults, crashes>>

\* Mistake: the quota is compared without the new order.
BugQuotaAllows(sold, amount) == sold <= TotalQuota

QuotaAllows(sold, amount) == sold + amount <= TotalQuota

ReadProduct(p) ==
  /\ job[p].step = "product"
  /\ IF product.onSale /\ QuotaAllows(product.sold, job[p].amount)
     THEN GoTo(p, "account") ELSE Return(p)
  /\ UNCHANGED <<day, maintenance, product, account, orders, service, run, faults, crashes>>

Covers(row, amount) == row.balance - row.frozen >= amount

ReadAccount(p) ==
  /\ job[p].step = "account"
  /\ IF Covers(account[job[p].user], job[p].amount)
     THEN GoTo(p, "freeze") ELSE Return(p)
  /\ UNCHANGED <<day, maintenance, product, account, orders, service, run, faults, crashes>>

\* Mistake: a freeze whose answer is late is sent again.
BugFreeze(p) ==
  /\ job[p].step = "freeze"
  /\ FreezeBalance(job[p].user, job[p].amount)
  /\ \/ job' = [job EXCEPT ![p].step = "create", ![p].today = day]
     \/ UNCHANGED job
  /\ UNCHANGED <<day, maintenance, product, orders, service, run, faults, crashes>>

Freeze(p) ==
  /\ job[p].step = "freeze"
  /\ FreezeBalance(job[p].user, job[p].amount)
  /\ job' = [job EXCEPT ![p].step = "create", ![p].today = day]
  /\ UNCHANGED <<day, maintenance, product, orders, service, run, faults, crashes>>

CreateOrder(p) ==
  /\ job[p].step = "create"
  /\ orders' = Append(orders, NewOrder(job[p]))
  /\ GoTo(p, "quota")
  /\ UNCHANGED <<day, maintenance, product, account, service, run, faults, crashes>>

\* The insert fails: the principal is unfrozen, if that statement does not fail too.
CreateOrderFails(p) ==
  /\ job[p].step = "create" /\ faults < MaxFaults
  /\ \/ UnfreezeBalance(job[p].user, job[p].amount) /\ faults' = faults + 1
     \/ faults + 1 < MaxFaults /\ faults' = faults + 2 /\ UNCHANGED account
  /\ Return(p)
  /\ UNCHANGED <<day, maintenance, product, orders, service, run, crashes>>

\* A failure here is only a warning.
UpdateProductSoldQuota(p) ==
  /\ job[p].step = "quota"
  /\ \/ product' = [product EXCEPT !.sold = @ + job[p].amount] /\ UNCHANGED faults
     \/ Fails /\ UNCHANGED product
  /\ GoTo(p, "book")
  /\ UNCHANGED <<day, maintenance, account, orders, service, run, crashes>>

\* Mistake: the journal row is written with the sign of a credit.
BugBookSubscription(p) ==
  /\ job[p].step = "book"
  /\ CreateJournalRecord(job[p].user, job[p].amount)
  /\ Return(p)
  /\ UNCHANGED <<day, maintenance, product, orders, service, run, faults, crashes>>

\* A failure here fails the call and undoes nothing: see StatementFails.
BookSubscription(p) ==
  /\ job[p].step = "book"
  /\ CreateJournalRecord(job[p].user, -job[p].amount)
  /\ Return(p)
  /\ UNCHANGED <<day, maintenance, product, orders, service, run, faults, crashes>>
-----------------------------------------------------------------------------
\* Redeem

\* Mistake: a redemption may start while the daily run is on.
BugRedeemable(o) == IsOpen(o)

Redeemable(o) == IsOpen(o) /\ ~maintenance

\* Mistake: an early redemption pays what has accrued.
BugDueToCustomer(o) == o.accrued

\* Interest is due only once the end date has passed.
DueToCustomer(o) == IF day > o.end THEN o.accrued ELSE 0

Redeem(p, id) ==
  LET o == orders[id] IN
  /\ job[p] = NoJob /\ Redeemable(o)
  /\ job' = [job EXCEPT ![p] =
       [NoJob EXCEPT !.op = "redeem", !.step = "unfreeze", !.user = o.user,
                     !.amount = o.amount, !.order = id, !.paid = o.paid,
                     !.interest = DueToCustomer(o),
                     !.close = IF day > o.end THEN Settled ELSE Redeemed]]
  /\ UNCHANGED <<day, maintenance, product, account, orders, service, run, faults, crashes>>
-----------------------------------------------------------------------------
\* The steps shared by Redeem, SettleOrder and RenewOrder

Unfreeze(p) ==
  LET j == job[p] IN
  /\ j.step = "unfreeze"
  /\ UnfreezeBalance(j.user, j.amount)
  /\ orders' = [orders EXCEPT ![j.order].returned = @ + 1]
  /\ GoTo(p, "bookPrincipal")
  /\ UNCHANGED <<day, maintenance, product, service, run, faults, crashes>>

AfterPrincipal(j) == IF j.interest > 0 THEN "pay" ELSE "close"

BookPrincipal(p) ==
  LET j == job[p] IN
  /\ j.step = "bookPrincipal"
  /\ CreateJournalRecord(j.user, j.amount)
  /\ GoTo(p, AfterPrincipal(j))
  /\ UNCHANGED <<day, maintenance, product, orders, service, run, faults, crashes>>

PayInterest(p) ==
  LET j == job[p] IN
  /\ j.step = "pay"
  /\ AddBalance(j.user, Interest(j.amount, j.interest))
  /\ orders' = [orders EXCEPT ![j.order].payments = @ + 1,
                              ![j.order].credited = @ + j.interest]
  /\ GoTo(p, "bookInterest")
  /\ UNCHANGED <<day, maintenance, product, service, run, faults, crashes>>

AfterInterest(j) == IF j.op = "renew" THEN "renew" ELSE "close"

BookInterest(p) ==
  LET j == job[p] IN
  /\ j.step = "bookInterest"
  /\ CreateJournalRecord(j.user, Interest(j.amount, j.interest))
  /\ GoTo(p, AfterInterest(j))
  /\ UNCHANGED <<day, maintenance, product, orders, service, run, faults, crashes>>

\* A journal row that cannot be written is logged and the operation goes on.
JournalLost(p) ==
  LET j == job[p] IN
  /\ j.step \in {"bookPrincipal", "bookInterest"} /\ Fails
  /\ GoTo(p, IF j.step = "bookPrincipal" THEN AfterPrincipal(j) ELSE AfterInterest(j))
  /\ UNCHANGED <<day, maintenance, product, account, orders, service, run, crashes>>

CreateRenewedOrder(p) ==
  LET j == job[p] IN
  /\ j.step = "renew"
  /\ orders' = Append(orders, NewOrder(j))
  /\ job' = [job EXCEPT ![p].step = "link", ![p].made = Len(orders) + 1]
  /\ UNCHANGED <<day, maintenance, product, account, service, run, faults, crashes>>

\* repo.RenewOrder's second statement.
LinkRenewedOrder(p) ==
  LET j == job[p] IN
  /\ j.step = "link"
  /\ orders' = [orders EXCEPT ![j.order].to = j.made]
  /\ GoTo(p, "close")
  /\ UNCHANGED <<day, maintenance, product, account, service, run, faults, crashes>>

\* Mistake: only the payment is written.
BugClosed(o, j) == [o EXCEPT !.paid = @ + j.interest]

\* Mistake: a renewed order gets a status that nothing else reads.
BugClosedAsRenewed(o, j) ==
  [o EXCEPT !.status = IF j.op = "redeem" THEN j.close
                       ELSE IF j.op = "renew" THEN 2 ELSE Settled,
            !.accrued = 0, !.paid = @ + j.interest]

\* UpdateOrder writes the columns as Redeem computed them from what it read;
\* SettleOrder adds to interest_paid. Neither looks at the current status.
Closed(o, j) ==
  IF j.op = "redeem"
  THEN [o EXCEPT !.status = j.close, !.accrued = 0,
                 !.paid = IF j.interest > 0 THEN j.interest ELSE j.paid]
  ELSE [o EXCEPT !.status = Settled, !.accrued = 0, !.paid = @ + j.interest]

Close(p) ==
  LET j == job[p] IN
  /\ j.step = "close"
  /\ orders' = [orders EXCEPT ![j.order] = Closed(@, j)]
  /\ Return(p)
  /\ UNCHANGED <<day, maintenance, product, account, service, run, faults, crashes>>

\* An error that ends the call, or this order's turn, where it stands.
StatementFails(p) ==
  /\ job[p].step \in {"product", "account", "freeze", "book", "unfreeze",
                      "bookPrincipal", "pay", "bookInterest", "renew", "link",
                      "close", "record"}
  /\ Fails /\ Return(p)
  /\ UNCHANGED <<day, maintenance, product, account, orders, service, run, crashes>>
-----------------------------------------------------------------------------
\* The daily run

List(ids) ==
  {[order |-> i, renew |-> orders[i].renew, accrued |-> orders[i].accrued,
    paid |-> orders[i].paid, days |-> day - orders[i].start] : i \in ids}

\* ORDER BY created_at DESC.
NextListed(s) == CHOOSE x \in run[s].todo : \A y \in run[s].todo : y.order <= x.order
Between(s, phase) == run[s].phase = phase /\ job[s] = NoJob
Done(s) == [run EXCEPT ![s].todo = @ \ {NextListed(s)}]

Redeeming(p) == job[p].op = "redeem"

\* The next phase works on the orders its query lists; on none if that fails.
Enter(s, phase, ids) ==
  \/ /\ run' = [run EXCEPT ![s] = [phase |-> phase, day |-> day, todo |-> List(ids)]]
     /\ UNCHANGED faults
  \/ Fails /\ run' = [run EXCEPT ![s] = [phase |-> phase, day |-> day, todo |-> {}]]

\* 00:00:05. With Prompt, the redemptions that began before midnight have ended.
StartRun(s) ==
  /\ Between(s, "idle") /\ run[s].day < day
  /\ Prompt => maintenance /\ \A p \in Call : ~Redeeming(p)
  /\ Enter(s, "activate",
           {i \in OrderIds : orders[i].status = Pending /\ orders[i].start <= day})
  /\ UNCHANGED <<day, maintenance, product, account, orders, service, job, crashes>>

\* ActivateOrder names the row by its id only.
ActivateOrder(s) ==
  /\ Between(s, "activate") /\ run[s].todo # {}
  /\ \/ /\ orders' = [orders EXCEPT ![NextListed(s).order].status = Running]
        /\ UNCHANGED faults
     \/ Fails /\ UNCHANGED orders
  /\ run' = Done(s)
  /\ UNCHANGED <<day, maintenance, product, account, service, job, crashes>>

\* Mistake: the last day of the term is not skipped.
BugAccrues(o) == o.status = Running /\ day - o.start >= 1

Accrues(o) ==
  /\ o.status = Running
  /\ day - o.start >= 1 /\ day - o.start < Duration /\ day < o.end

ListActiveOrders(s) ==
  /\ Between(s, "activate") /\ run[s].todo = {}
  /\ Enter(s, "accrue", {i \in OrderIds : Accrues(orders[i])})
  /\ UNCHANGED <<day, maintenance, product, account, orders, service, job, crashes>>

\* interest_accrued is overwritten with the interest since the start date.
UpdateInterestAccrued(s) ==
  /\ Between(s, "accrue") /\ run[s].todo # {}
  /\ LET x == NextListed(s) IN
     \/ /\ orders' = [orders EXCEPT ![x.order].accrued = x.days]
        /\ job' = IF x.days > x.accrued
                  THEN [job EXCEPT ![s] = [NoJob EXCEPT !.op = "accrue", !.step = "record",
                                           !.order = x.order, !.interest = x.days - x.accrued]]
                  ELSE job
        /\ UNCHANGED faults
     \/ Fails /\ UNCHANGED <<orders, job>>
  /\ run' = Done(s)
  /\ UNCHANGED <<day, maintenance, product, account, service, crashes>>

\* Mistake: the record holds everything accrued so far.
BugDailyAmount(o, j) == o.accrued

DailyAmount(o, j) == j.interest

RecordDailyInterest(s) ==
  /\ job[s].step = "record"
  /\ orders' = [orders EXCEPT ![job[s].order].recorded = @ + DailyAmount(orders[job[s].order], job[s])]
  /\ Return(s)
  /\ UNCHANGED <<day, maintenance, product, account, service, run, faults, crashes>>

\* Mistake: only the orders that end today are looked for.
BugMatured(o) == o.status = Running /\ o.end = day

Matured(o) == o.status = Running /\ o.end <= day

ListExpiredOrders(s) ==
  /\ Between(s, "accrue") /\ run[s].todo = {}
  /\ Enter(s, "settle", {i \in OrderIds : Matured(orders[i])})
  /\ UNCHANGED <<day, maintenance, product, account, orders, service, job, crashes>>

Renews(x) == x.renew /\ product.onSale /\ product.renewable

Repayment(op, step, id, interest) ==
  [NoJob EXCEPT !.op = op, !.step = step, !.user = orders[id].user,
                !.amount = orders[id].amount, !.renew = orders[id].renew, !.order = id,
                !.close = Settled, !.interest = interest, !.today = day]

\* The order is read again and must still be running.
SettleOrder(s) ==
  LET x == NextListed(s) IN
  /\ Between(s, "settle") /\ run[s].todo # {} /\ ~Renews(x)
  /\ job' = IF orders[x.order].status = Running
            THEN [job EXCEPT ![s] = Repayment("settle", "unfreeze", x.order,
                                              orders[x.order].accrued)]
            ELSE job
  /\ run' = Done(s)
  /\ UNCHANGED <<day, maintenance, product, account, orders, service, faults, crashes>>

\* The listed order is renewed, provided that the available balance covers the
\* principal once more; otherwise it is left as it is.
RenewOrder(s) ==
  LET x == NextListed(s)  u == orders[x.order].user IN
  /\ Between(s, "settle") /\ run[s].todo # {} /\ Renews(x)
  /\ job' = IF Available(u) >= orders[x.order].amount
            THEN [job EXCEPT ![s] =
                    Repayment("renew", IF x.accrued > 0 THEN "pay" ELSE "renew",
                              x.order, x.accrued)]
            ELSE job
  /\ run' = Done(s)
  /\ UNCHANGED <<day, maintenance, product, account, orders, service, faults, crashes>>

\* The next run is at 00:00:05 of the day after the one this run ends on.
EndRun(s) ==
  /\ Between(s, "settle") /\ run[s].todo = {}
  /\ run' = [run EXCEPT ![s].phase = "idle", ![s].day = day]
  /\ UNCHANGED <<day, maintenance, product, account, orders, service, job, faults, crashes>>
-----------------------------------------------------------------------------
\* The environment

Midnight ==
  /\ ~maintenance /\ day < MaxDay
  /\ day' = day + 1 /\ maintenance' = TRUE
  /\ UNCHANGED <<product, account, orders, service, job, run, faults, crashes>>

\* 00:01. With Prompt, today's runs are over.
EndMaintenance ==
  /\ maintenance
  /\ Prompt => \A s \in Scheduler : Between(s, "idle") /\ run[s].day = day
  /\ maintenance' = FALSE
  /\ UNCHANGED <<day, product, account, orders, service, job, run, faults, crashes>>

\* An operator takes the product off sale, or forbids renewals.
ChangeProduct ==
  /\ \/ /\ "onSale" \in Changes /\ product.onSale
        /\ product' = [product EXCEPT !.onSale = FALSE]
     \/ /\ "renewable" \in Changes /\ product.renewable
        /\ product' = [product EXCEPT !.renewable = FALSE]
  /\ UNCHANGED <<day, maintenance, account, orders, service, job, run, faults, crashes>>

\* The server restarts: calls and runs are gone. A scheduler that comes back
\* after 00:00:05 waits for tomorrow.
Restart ==
  /\ crashes < MaxCrashes /\ crashes' = crashes + 1
  /\ job' = [p \in Process |-> NoJob] /\ service' = NewService
  /\ \E late \in BOOLEAN :
       run' = [s \in Scheduler |->
                 [phase |-> "idle", todo |-> {},
                  day |-> IF late \/ run[s].phase # "idle" THEN day ELSE run[s].day]]
  /\ UNCHANGED <<day, maintenance, product, account, orders, faults>>

\* Bound: the calendar ends.
LastDay == day = MaxDay /\ ~maintenance /\ UNCHANGED vars

Serve(p) ==
  \/ \E u \in User, a \in Amount, r \in AutoRenew, t \in Text : Subscribe(p, u, a, r, t)
  \/ \E id \in OrderIds : Redeem(p, id)

Advance(p) ==
  \/ MakeMutex(p) \/ Lock(p) \/ Mark(p) \/ ClearLock(p)
  \/ ReadProduct(p) \/ ReadAccount(p) \/ Freeze(p) \/ CreateOrder(p)
  \/ UpdateProductSoldQuota(p) \/ BookSubscription(p)
  \/ Unfreeze(p) \/ BookPrincipal(p) \/ PayInterest(p) \/ BookInterest(p)
  \/ CreateRenewedOrder(p) \/ LinkRenewedOrder(p) \/ Close(p)

Disturb(p) == CreateOrderFails(p) \/ JournalLost(p) \/ StatementFails(p)

Daily(s) ==
  \/ StartRun(s) \/ ActivateOrder(s) \/ ListActiveOrders(s) \/ UpdateInterestAccrued(s)
  \/ RecordDailyInterest(s) \/ ListExpiredOrders(s) \/ SettleOrder(s) \/ RenewOrder(s)
  \/ EndRun(s)

Next ==
  \/ \E p \in Call : Serve(p)
  \/ \E p \in Process : Advance(p) \/ Disturb(p)
  \/ \E s \in Scheduler : Daily(s)
  \/ Midnight \/ EndMaintenance \/ ChangeProduct \/ Restart \/ LastDay

Spec == Init /\ [][Next]_vars

\* A call runs to its end, the scheduler's loop goes on, and time passes.
Fairness ==
  /\ \A p \in Process : WF_vars(Advance(p))
  /\ \A s \in Scheduler : WF_vars(Daily(s))
  /\ WF_vars(Midnight) /\ WF_vars(EndMaintenance)

FairSpec == Spec /\ Fairness
-----------------------------------------------------------------------------
\* Properties

\* The principal of some orders, counted unit by unit.
Principal(ids) == Cardinality(UNION {{i} \X (1 .. orders[i].amount) : i \in ids})

\* No operation on the customer's account is under way.
Quiet(u) == \A p \in Process : job[p].user = u => job[p].step = "clear"

TypeOK ==
  /\ day \in 1 .. MaxDay /\ maintenance \in BOOLEAN
  /\ product \in [onSale: BOOLEAN, renewable: BOOLEAN, sold: Nat]
  /\ account \in [User -> Account]
  /\ orders \in Seq(Order)
  /\ service \in Service
  /\ job \in [Process -> Job]
  /\ run \in [Scheduler -> Run]
  /\ faults \in 0 .. MaxFaults /\ crashes \in 0 .. MaxCrashes

\* What is frozen on an account is the principal of its open orders: nothing is
\* left frozen for an order that ended, and no open order is unbacked.
PrincipalIsFrozen ==
  \A u \in User : Quiet(u) =>
    account[u].frozen = Principal({i \in OrderIds : orders[i].user = u /\ IsOpen(orders[i])})

\* An order gives its principal back once, whoever ends it: the customer's
\* redemption and the scheduler's settlement work on the same rows.
PrincipalReturnedOnce == \A i \in OrderIds : orders[i].returned <= 1

\* The interest of an order is paid in one payment.
InterestPaidOnce == \A i \in OrderIds : orders[i].payments <= 1

\* A customer who redeems before the end of the term is paid no interest.
EarlyRedemptionForfeits ==
  \A i \in OrderIds : orders[i].status = Redeemed => orders[i].credited = 0

\* The status of an order that ended does not change again: activation, which
\* names the row by its id only, never revives one.
ClosedStaysClosed ==
  [][\A i \in OrderIds : ~IsOpen(orders[i]) => orders'[i].status = orders[i].status]_vars

\* The daily interest records of an order add up to what it has accrued, and at
\* its settlement to what it was paid.
DailyRecordsAddUp ==
  \A i \in OrderIds :
    (\A s \in Scheduler : job[s].step = "record" => job[s].order # i) =>
      CASE IsOpen(orders[i])           -> orders[i].recorded = orders[i].accrued
        [] orders[i].status = Settled  -> /\ orders[i].recorded = orders[i].paid
                                          /\ orders[i].credited = orders[i].paid
        [] OTHER                       -> TRUE

\* No order accrues, and no operation pays, interest for more days than the term
\* has, whatever overlaps, fails or is late.
InterestWithinTerm ==
  /\ \A i \in OrderIds : orders[i].accrued < Duration
  /\ \A p \in Process : job[p].interest < Duration

\* The journal explains the available balance: every step that changes it adds
\* the same amount to the journal, under any overlap of the operations.
JournalExplainsBalance ==
  \A u \in User : Quiet(u) => Available(u) = Opening + account[u].journal

\* What is frozen beyond the balance was frozen by requests that overlapped.
\* The mutex does not keep two subscriptions apart: two of one amount may hold
\* two mutexes, and two amounts always do. Each checks the available balance by
\* itself, so at worst every request under way but one freezes what another
\* has already taken, however long this goes on.
FrozenWithinOverlap ==
  \A u \in User : account[u].frozen <= account[u].balance + (Cardinality(Call) - 1) * MaxAmount

\* The same of the quota, between the check and the increase three statements
\* later, over the subscriptions of all customers.
SoldWithinOverlap == product.sold <= TotalQuota + (Cardinality(Call) - 1) * MaxAmount

\* An order that does not renew is repaid: every statement that fails, and every
\* restart, of the runs that should do it costs at most a day.
MaturedIsRepaid ==
  \A i \in 1 .. MaxOrders :
    (/\ i \in OrderIds /\ ~orders[i].renew /\ day < orders[i].end
     /\ orders[i].end + MaxFaults + MaxCrashes <= MaxDay)
      ~> (i \in OrderIds /\ ~IsOpen(orders[i]))
=============================================================================
