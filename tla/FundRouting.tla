---------------------------- MODULE FundRouting ----------------------------
(***************************************************************************)
(* Routing a movement on the chain to its owner.  The router opens a case  *)
(* for a verified webhook event and decides whether a customer or the      *)
(* company owns the movement; the reconciler decides open cases again.  A  *)
(* decision issues a command; the projection workers lease it, write an    *)
(* event for the ledger of the owner, wait until that ledger has booked    *)
(* the movement and close the case.  An operator may supersede a command   *)
(* at any time.  Cases do not meet: each has its own rows.                 *)
(***************************************************************************)
EXTENDS Naturals

CONSTANTS
  Case,         \* movements of verified transactions
  Worker,       \* projection workers, one per server process
  Nobody,       \* no worker, no job
  World,        \* bound: what may be true of a movement's addresses at first
  MaxAttempts,  \* maxProjectionActionAttempts
  MaxCommands,  \* bound: commands per case
  MaxLapses     \* bound: crashes, leases lost at work, deliveries given back

VARIABLES
  facts,     \* what the address tables and the payload say of a movement
  webhook,   \* its events: process_status, or "none" before the delivery
  decision, reason,  \* the case: decision and reason_code; "NONE" without a case
  pending,   \* pending_command_id; 0 for none
  issued,    \* the last command of the case; 0 for none
  status, attempts, lease, live,  \* the one action of that command, and its lease
  inbox,     \* the event a command wrote for the ledger of the owner
  booked,    \* the row of that ledger
  stray,     \* a command whose event was taken again while still being booked
  result,    \* the command whose result closed the case; 0 for none
  job,       \* what each projection worker is at
  lapses,
  bookedBy   \* history: the command the movement was booked for

intake == <<facts, webhook>>
case == <<decision, reason, pending, issued>>
rows == <<status, attempts, lease, live>>
books == <<booked, bookedBy, stray>>
vars == <<intake, case, rows, inbox, books, result, job, lapses>>

Command == 1..MaxCommands
Live == {"PENDING", "RETRYABLE"}
Facts == [customer: {"none", "pool", "late", "assigned"},
          company: {"none", "disabled", "enabled"},
          watched: BOOLEAN, shape: {"plain", "untimed", "barred"}]
Job == [case: Case, n: Command,
        step: {"start", "look", "complete", "wait", "error", "defer", "dead"}]
Event == {"progress", "final"}

\* Reasons of an open case. UNSUITABLE stands for the four that a new fact about
\* an address cannot mend.
Reason == {"STATUS_NOT_TERMINAL", "CUSTOMER_POOL_UNASSIGNED", "COMPANY_ACCOUNT_DISABLED",
           "BEFORE_COMPANY_MONITORING", "OWNERSHIP_UNKNOWN", "UNSUITABLE"}

ASSUME WorldAssumption == World \subseteq Facts
ASSUME BoundAssumption ==
  MaxAttempts \in Nat /\ MaxCommands \in Nat \ {0} /\ MaxLapses \in Nat

TypeOK ==
  /\ facts \in [Case -> Facts]
  /\ webhook \in [Case -> [Event -> {"none", "PENDING", "DONE", "ERROR"}]]
  /\ decision \in [Case -> {"NONE", "OPEN", "CUSTOMER", "COMPANY", "PARTIAL"}]
  /\ reason \in [Case -> Reason \cup {"MATCHED"}]
  /\ pending \in [Case -> 0..MaxCommands] /\ issued \in [Case -> 0..MaxCommands]
  /\ status \in [Case -> Live \cup {"none", "APPLIED", "DEAD"}]
  /\ attempts \in [Case -> 0..MaxAttempts]
  /\ lease \in [Case -> Worker \cup {Nobody}] /\ live \in [Case -> BOOLEAN]
  /\ inbox \in [Case -> [Command -> {"none", "PENDING", "TAKEN", "BOOKED", "DONE", "ERROR",
                                     "DEAD_LETTER", "IGNORED"}]]
  /\ booked \in [Case -> {"none", "exact", "other"}]
  /\ bookedBy \in [Case -> 0..MaxCommands] /\ stray \in [Case -> 0..MaxCommands]
  /\ result \in [Case -> 0..MaxCommands]
  /\ job \in [Worker -> Job \cup {Nobody}]
  /\ lapses \in 0..MaxLapses

Init ==
  /\ facts \in [Case -> World]
  /\ webhook = [c \in Case |-> [k \in Event |-> "none"]]
  /\ decision = [c \in Case |-> "NONE"]
  /\ reason = [c \in Case |-> "OWNERSHIP_UNKNOWN"]
  /\ pending = [c \in Case |-> 0] /\ issued = [c \in Case |-> 0]
  /\ status = [c \in Case |-> "none"] /\ attempts = [c \in Case |-> 0]
  /\ lease = [c \in Case |-> Nobody] /\ live = [c \in Case |-> FALSE]
  /\ inbox = [c \in Case |-> [n \in Command |-> "none"]]
  /\ booked = [c \in Case |-> "none"]
  /\ bookedBy = [c \in Case |-> 0] /\ stray = [c \in Case |-> 0]
  /\ result = [c \in Case |-> 0]
  /\ job = [w \in Worker |-> Nobody]
  /\ lapses = 0

-----------------------------------------------------------------------------
\* The address tables.

\* Bound: followed until the case is decided; no step after that reads a fact or an
\* event that may still change.
Undecided(c) == decision[c] \in {"NONE", "OPEN"}

Change(c, field, value) ==
  /\ Undecided(c)
  /\ facts' = [facts EXCEPT ![c][field] = value]
others == <<webhook, case, rows, inbox, books, result, job, lapses>>

\* A customer gets the address; a transaction already reported is older than that.
AssignAvailable(c) ==
  /\ facts[c].customer = "pool"
  /\ \E since \in {"late", "assigned"} :
       /\ \A k \in Event : webhook[c][k] # "none" => since = "late"
       /\ Change(c, "customer", since)
  /\ UNCHANGED others

\* The operator registers a company account, switches it, or dates its monitoring back.
Register(c) ==
  /\ facts[c].company = "none"
  /\ \E kind \in {"disabled", "enabled"} : Change(c, "company", kind)
  /\ UNCHANGED others
Enable(c) ==
  /\ facts[c].company = "disabled" /\ Change(c, "company", "enabled")
  /\ UNCHANGED others
Disable(c) ==
  /\ facts[c].company = "enabled" /\ Change(c, "company", "disabled")
  /\ UNCHANGED others
Backfill(c) ==
  /\ ~facts[c].watched /\ Change(c, "watched", TRUE)
  /\ UNCHANGED others

-----------------------------------------------------------------------------
\* Routing.

Deliver(c, k) ==
  /\ Undecided(c)
  /\ webhook[c][k] = "none"
  /\ webhook' = [webhook EXCEPT ![c][k] = "PENDING"]
  /\ UNCHANGED <<facts, case, rows, inbox, books, result, job, lapses>>

\* A payload that cannot be read, or differs from the case it belongs to. A report
\* of progress rejected is as good as none.
RejectEvent(c) ==
  /\ webhook[c]["final"] = "PENDING"
  /\ webhook' = [webhook EXCEPT ![c]["final"] = "ERROR"]
  /\ UNCHANGED <<facts, case, rows, inbox, books, result, job, lapses>>

Open(why) == [decision |-> "OPEN", reason |-> why]
Matched(owner) == [decision |-> owner, reason |-> "MATCHED"]

\* The company is asked first, unless the customer alone owns the addresses; a
\* movement between both is the company's, and its customer side a review.
DecideCompany(f) ==
  IF f.shape = "untimed" THEN Open("UNSUITABLE")
  ELSE IF ~f.watched THEN Open("BEFORE_COMPANY_MONITORING")
  ELSE Matched(IF f.customer \in {"late", "assigned"} THEN "PARTIAL" ELSE "COMPANY")

Decide(f, final) ==
  IF ~final THEN Open("STATUS_NOT_TERMINAL")
  ELSE IF f.customer = "pool" THEN Open("CUSTOMER_POOL_UNASSIGNED")
  ELSE IF f.company = "enabled" THEN DecideCompany(f)
  ELSE IF f.customer = "assigned" /\ f.shape = "plain" THEN Matched("CUSTOMER")
  ELSE IF f.customer \in {"late", "assigned"} THEN Open("UNSUITABLE")
  ELSE IF f.company = "disabled" THEN Open("COMPANY_ACCOUNT_DISABLED")
  ELSE Open("OWNERSHIP_UNKNOWN")

\* A decision that is not open issues the next command, with its one action. The
\* actions of the commands before it are cancelled, and left out.
Record(c, d) ==
  /\ decision' = [decision EXCEPT ![c] = d.decision]
  /\ reason' = [reason EXCEPT ![c] = d.reason]
Issue(c) ==
  /\ issued[c] < MaxCommands
  /\ issued' = [issued EXCEPT ![c] = @ + 1]
  /\ pending' = [pending EXCEPT ![c] = issued[c] + 1]
  /\ status' = [status EXCEPT ![c] = "PENDING"]
  /\ attempts' = [attempts EXCEPT ![c] = 0]
  /\ lease' = [lease EXCEPT ![c] = Nobody]
  /\ live' = [live EXCEPT ![c] = FALSE]
Decision(c, d) ==
  /\ Record(c, d)
  /\ IF d.decision = "OPEN" THEN UNCHANGED <<pending, issued, rows>> ELSE Issue(c)

\* The first event of a movement opens its case; a later one becomes a source of it.
RouteEvent(c, k) ==
  /\ webhook[c][k] = "PENDING"
  /\ webhook' = [webhook EXCEPT ![c][k] = "DONE"]
  /\ IF decision[c] = "NONE" THEN Decision(c, Decide(facts[c], k = "final"))
     ELSE UNCHANGED <<case, rows>>
  /\ UNCHANGED <<facts, inbox, books, result, job, lapses>>

\* Mistake: a case opened by a progress report is not looked at again.
BugReviewed ==
  {"OWNERSHIP_UNKNOWN", "CUSTOMER_POOL_UNASSIGNED", "COMPANY_ACCOUNT_DISABLED",
   "BEFORE_COMPANY_MONITORING"}

Reviewed ==
  {"OWNERSHIP_UNKNOWN", "CUSTOMER_POOL_UNASSIGNED", "COMPANY_ACCOUNT_DISABLED",
   "BEFORE_COMPANY_MONITORING", "STATUS_NOT_TERMINAL"}

\* The reconciler decides again, by the source of the highest rank.
Reconcile(c) ==
  /\ decision[c] = "OPEN" /\ pending[c] = 0 /\ reason[c] \in Reviewed
  /\ Decision(c, Decide(facts[c], webhook[c]["final"] = "DONE"))
  /\ UNCHANGED <<intake, inbox, books, result, job, lapses>>

-----------------------------------------------------------------------------
\* The projection worker.

Current(c, n) == pending[c] = n /\ status[c] \in Live
Holds(w, c, n) == Current(c, n) /\ lease[c] = w /\ live[c]

At(w, step) == job[w] # Nobody /\ job[w].step = step
Goto(w, step) == job' = [job EXCEPT ![w].step = step]
Done(w) == job' = [job EXCEPT ![w] = Nobody]
\* The action's row is written and the lease on it given back.
Write(c, to) ==
  /\ status' = [status EXCEPT ![c] = to]
  /\ lease' = [lease EXCEPT ![c] = Nobody]
  /\ live' = [live EXCEPT ![c] = FALSE]

\* Mistake: the lease of a worker that died is never taken over.
BugClaimable(c) == pending[c] # 0 /\ Current(c, pending[c]) /\ lease[c] = Nobody

Claimable(c) == pending[c] # 0 /\ Current(c, pending[c]) /\ ~live[c]

Claim(w, c) ==
  /\ job[w] = Nobody /\ Claimable(c)
  /\ job' = [job EXCEPT ![w] = [case |-> c, n |-> pending[c], step |-> "start"]]
  /\ status' = [status EXCEPT ![c] = "PENDING"]
  /\ lease' = [lease EXCEPT ![c] = w]
  /\ live' = [live EXCEPT ![c] = TRUE]
  /\ UNCHANGED <<intake, case, attempts, inbox, books, result, lapses>>

ForCustomer(c) == decision[c] = "CUSTOMER"

\* The synthetic event of a customer is inserted under the lease, once per action.
ApplyCustomer(w) ==
  LET c == job[w].case
      n == job[w].n
      admitted == /\ Holds(w, c, n)
                  /\ facts[c].customer = "assigned" /\ facts[c].shape = "plain"
  IN  /\ At(w, "start") /\ ForCustomer(c)
      /\ inbox' = IF inbox[c][n] = "none" /\ admitted
                  THEN [inbox EXCEPT ![c][n] = "PENDING"] ELSE inbox
      /\ Goto(w, IF inbox'[c][n] = "none" THEN "dead" ELSE "look")
      /\ UNCHANGED <<intake, case, rows, books, result, lapses>>

\* An event of an earlier command stands in the way, or is taken over if it was
\* given up: the raw webhook carries one event per movement.
ApplyCompany(w) ==
  LET c == job[w].case
      n == job[w].n
      earlier == {m \in Command \ {n} : inbox[c][m] # "none"}
  IN  /\ At(w, "start") /\ ~ForCustomer(c)
      /\ \/ /\ earlier = {} /\ inbox[c][n] # "none"
            /\ inbox' = inbox /\ Goto(w, "look")
         \/ /\ earlier = {} /\ inbox[c][n] = "none"
            /\ IF Holds(w, c, n)
               THEN inbox' = [inbox EXCEPT ![c][n] = "PENDING"] /\ Goto(w, "wait")
               ELSE inbox' = inbox /\ Goto(w, "error")
         \/ \E m \in earlier :
              IF inbox[c][m] = "DEAD_LETTER" /\ Holds(w, c, n)
              THEN /\ inbox' = [inbox EXCEPT ![c] = [@ EXCEPT ![m] = "none", ![n] = "PENDING"]]
                   /\ Goto(w, "wait")
              ELSE inbox' = inbox /\ Goto(w, "dead")
      /\ UNCHANGED <<intake, case, rows, books, result, lapses>>

Verdict == [none |-> "wait", exact |-> "complete", other |-> "dead"]

\* The ledger is looked at, the company's once its event was processed.
Look(w) ==
  LET c == job[w].case
      state == inbox[c][job[w].n]
  IN  /\ At(w, "look")
      /\ Goto(w, CASE ForCustomer(c) -> Verdict[booked[c]]
                   [] ~ForCustomer(c) /\ state \in {"PENDING", "TAKEN", "BOOKED"} -> "wait"
                   [] ~ForCustomer(c) /\ state = "DONE" /\ booked[c] = "exact" -> "complete"
                   [] OTHER -> "dead")
      /\ UNCHANGED <<intake, case, rows, inbox, books, result, lapses>>

\* A statement of the worker fails.
Fail(w) ==
  /\ At(w, "start") \/ At(w, "look")
  /\ Goto(w, "error")
  /\ UNCHANGED <<intake, case, rows, inbox, books, result, lapses>>

\* retryAction: only errors exhaust the attempts, waiting does not.
Retry(w) ==
  LET c == job[w].case
      n == job[w].n
  IN  /\ At(w, "wait") \/ At(w, "error")
      /\ IF ~Holds(w, c, n) THEN Done(w)
         ELSE Goto(w, IF job[w].step = "error" /\ attempts[c] + 1 >= MaxAttempts
                      THEN "dead" ELSE "defer")
      /\ UNCHANGED <<intake, case, rows, inbox, books, result, lapses>>

\* The backoff until the next attempt is left out; attempt_count stops at the limit.
Defer(w) ==
  LET c == job[w].case
      n == job[w].n
  IN  /\ At(w, "defer")
      /\ IF Current(c, n) /\ lease[c] = w
         THEN /\ Write(c, "RETRYABLE")
              /\ attempts' = [attempts EXCEPT ![c] = IF @ < MaxAttempts THEN @ + 1 ELSE @]
         ELSE UNCHANGED rows
      /\ Done(w)
      /\ UNCHANGED <<intake, case, inbox, books, result, lapses>>

Dead(w) ==
  LET c == job[w].case
      n == job[w].n
  IN  /\ At(w, "dead")
      /\ IF Holds(w, c, n) THEN Write(c, "DEAD") ELSE UNCHANGED <<status, lease, live>>
      /\ Done(w)
      /\ UNCHANGED <<intake, case, attempts, inbox, books, result, lapses>>

Complete(w) ==
  LET c == job[w].case
      n == job[w].n
  IN  /\ At(w, "complete")
      /\ IF Holds(w, c, n)
         THEN /\ Write(c, "APPLIED")
              /\ result' = [result EXCEPT ![c] = n]
              /\ pending' = [pending EXCEPT ![c] = 0]
         ELSE UNCHANGED <<status, lease, live, result, pending>>
      /\ Done(w)
      /\ UNCHANGED <<intake, decision, reason, issued, attempts, inbox, books, lapses>>

-----------------------------------------------------------------------------
\* Crashes, leases and the operator.

Lapse == lapses < MaxLapses /\ lapses' = lapses + 1

\* The process ends, or a statement that would end the job fails.
Crash(w) ==
  /\ job[w] # Nobody /\ Lapse
  /\ Done(w)
  /\ UNCHANGED <<intake, case, rows, inbox, books, result>>

AtWork(c) ==
  \E w \in Worker :
    job[w] # Nobody /\ job[w].case = c /\ job[w].n = pending[c] /\ lease[c] = w
Expire(c) ==
  /\ live[c]
  /\ live' = [live EXCEPT ![c] = FALSE]
  /\ IF AtWork(c) THEN Lapse ELSE lapses' = lapses
  /\ UNCHANGED <<intake, case, status, attempts, lease, inbox, books, result, job>>

\* The pending command is cancelled, whatever is at work on it, and another takes
\* its place. Done by a program outside the repository, as its tests do it.
OperatorRequeue(c) ==
  /\ pending[c] # 0
  /\ Issue(c)
  /\ UNCHANGED <<intake, decision, reason, inbox, books, result, job, lapses>>

-----------------------------------------------------------------------------
\* The ledgers.

Receive(c, n, to) == inbox' = [inbox EXCEPT ![c][n] = to]
\* A row that exists stays the one row of the movement.
BookFor(c, n) ==
  IF booked[c] # "none" THEN UNCHANGED <<booked, bookedBy>>
  ELSE /\ \E how \in {"exact", "other"} : booked' = [booked EXCEPT ![c] = how]
       /\ bookedBy' = [bookedBy EXCEPT ![c] = n]

Take(c, n) ==
  /\ inbox[c][n] = "PENDING" /\ Current(c, n)
  /\ Receive(c, n, "TAKEN")
  /\ UNCHANGED <<intake, case, rows, books, result, job, lapses>>

\* Mistake: the command is not looked at again when the deposit is written.
BugBookDeposit(c, n) ==
  /\ inbox[c][n] = "TAKEN" /\ ForCustomer(c)
  /\ Receive(c, n, "DONE")
  /\ BookFor(c, n)
  /\ UNCHANGED <<intake, case, rows, stray, result, job, lapses>>

BookDeposit(c, n) ==
  /\ inbox[c][n] = "TAKEN" /\ ForCustomer(c) /\ Current(c, n)
  /\ Receive(c, n, "DONE")
  /\ BookFor(c, n)
  /\ UNCHANGED <<intake, case, rows, stray, result, job, lapses>>

\* Refused, or the command was superseded meanwhile.
RejectDeposit(c, n) ==
  /\ inbox[c][n] = "TAKEN" /\ ForCustomer(c)
  /\ Receive(c, n, "ERROR")
  /\ UNCHANGED <<intake, case, rows, books, result, job, lapses>>

BookMovement(c, n) ==
  /\ inbox[c][n] = "TAKEN" /\ ~ForCustomer(c) /\ Current(c, n)
  /\ Receive(c, n, "BOOKED")
  /\ BookFor(c, n)
  /\ UNCHANGED <<intake, case, rows, stray, result, job, lapses>>

FinishMovement(c, n) ==
  /\ inbox[c][n] = "BOOKED"
  /\ Receive(c, n, "DONE")
  /\ UNCHANGED <<intake, case, rows, books, result, job, lapses>>

FailMovement(c, n) ==
  /\ ~ForCustomer(c)
  /\ \/ inbox[c][n] \in {"TAKEN", "BOOKED"} /\ Receive(c, n, "DEAD_LETTER")
     \/ inbox[c][n] = "TAKEN" /\ Receive(c, n, "IGNORED")
  /\ UNCHANGED <<intake, case, rows, books, result, job, lapses>>

\* A delivery fails for now, or its lease runs out and its owner goes on without it.
Release(c, n) ==
  /\ inbox[c][n] \in {"TAKEN", "BOOKED"}
  /\ Receive(c, n, "PENDING")
  /\ IF Current(c, n) THEN Lapse ELSE lapses' = lapses
  /\ \/ stray' = stray
     \/ ~ForCustomer(c) /\ inbox[c][n] = "TAKEN" /\ stray' = [stray EXCEPT ![c] = n]
  /\ UNCHANGED <<intake, case, rows, booked, bookedBy, result, job>>

BookStray(c) ==
  /\ stray[c] # 0
  /\ stray' = [stray EXCEPT ![c] = 0]
  /\ IF Current(c, stray[c]) THEN BookFor(c, stray[c]) ELSE UNCHANGED <<booked, bookedBy>>
  /\ UNCHANGED <<intake, case, rows, inbox, result, job, lapses>>

-----------------------------------------------------------------------------
Work(w) ==
  ApplyCustomer(w) \/ ApplyCompany(w) \/ Look(w) \/ Retry(w) \/ Defer(w) \/ Dead(w)
    \/ Complete(w)

Next ==
  \/ \E c \in Case :
       \/ AssignAvailable(c) \/ Register(c) \/ Enable(c) \/ Disable(c) \/ Backfill(c)
       \/ \E k \in Event : Deliver(c, k) \/ RouteEvent(c, k)
       \/ RejectEvent(c) \/ Reconcile(c) \/ OperatorRequeue(c) \/ BookStray(c)
       \/ Expire(c) \/ \E w \in Worker : Claim(w, c)
       \/ \E n \in Command :
            \/ Take(c, n) \/ BookDeposit(c, n) \/ RejectDeposit(c, n)
            \/ BookMovement(c, n) \/ FinishMovement(c, n) \/ FailMovement(c, n)
            \/ Release(c, n)
  \/ \E w \in Worker : Work(w) \/ Fail(w) \/ Crash(w)

Spec == Init /\ [][Next]_vars

\* The loops scan their tables again and again, and time passes for a lease.
Fairness ==
  /\ \A c \in Case :
       /\ WF_vars(RouteEvent(c, "progress"))
       /\ WF_vars(RouteEvent(c, "final") \/ RejectEvent(c))
       /\ WF_vars(Reconcile(c))
       /\ WF_vars(\E w \in Worker : Claim(w, c))
       /\ WF_vars(Expire(c))
       /\ \A n \in Command :
            /\ WF_vars(Take(c, n))
            /\ WF_vars(BookDeposit(c, n) \/ RejectDeposit(c, n) \/ BookMovement(c, n))
            /\ WF_vars(FinishMovement(c, n))
  /\ \A w \in Worker : WF_vars(Work(w))

FairSpec == Spec /\ Fairness

-----------------------------------------------------------------------------
\* Properties.

Phase(c) ==
  CASE decision[c] = "NONE" -> "unrouted"
    [] decision[c] = "OPEN" -> "open"
    [] decision[c] \notin {"NONE", "OPEN"} /\ pending[c] = 0 -> "settled"
    [] OTHER -> IF Current(c, pending[c]) THEN "projecting" ELSE "blocked"

Lifecycle == INSTANCE CaseLifecycle WITH
  phase <- [c \in Case |-> Phase(c)], turn <- issued, ledger <- booked,
  bookedBy <- bookedBy, settledBy <- result

\* Whoever leases, waits, crashes or goes on after its lease, a movement is booked
\* at most once, only for the command whose turn it is, and a case is closed once,
\* on an exact booking: a superseded command can neither book nor close.
ImplementsLifecycle == Lifecycle!Spec

\* A case whose transaction has ended does not stay open while the tables name an
\* owner who can be booked for it and its reason is one that facts may mend.
Overdue(c) ==
  /\ decision[c] = "OPEN" /\ webhook[c]["final"] = "DONE"
  /\ reason[c] # "UNSUITABLE"
  /\ Decide(facts[c], TRUE).decision # "OPEN"
NotLeftOpen == \A c \in Case : Overdue(c) ~> ~Overdue(c)

\* What was booked as routed is closed, or blocked for the operator to see, though
\* workers crash and leases run out between the booking and the closing.
BookedIsSettled ==
  \A c \in Case : booked[c] = "exact" ~> Phase(c) \in {"settled", "blocked"}
=============================================================================
