------------------------- MODULE FundRoutingProofs -------------------------
(***************************************************************************)
(* Proofs about FundRouting, for any number of movements, workers,         *)
(* attempts, commands and lapses.  First the types; then the fence, what   *)
(* the row of a case says of its pending command; and last that every step *)
(* is a step of CaseLifecycle, the promise, or leaves it as it is.         *)
(***************************************************************************)
EXTENDS FundRouting, TLAPS

Owners == {"OPEN", "CUSTOMER", "COMPANY", "PARTIAL"}

LEMMA DecideTyped ==
  ASSUME NEW f \in Facts, NEW final \in BOOLEAN
  PROVE  /\ Decide(f, final).decision \in Owners
         /\ Decide(f, final).reason \in Reason \cup {"MATCHED"}
BY DEF Decide, DecideCompany, Open, Matched, Owners, Reason

\* The row of the pending command, issued or written.
LEMMA IssueTyped ==
  ASSUME TypeOK, NEW c \in Case, Issue(c)
  PROVE  /\ pending' \in [Case -> 0..MaxCommands] /\ issued' \in [Case -> 0..MaxCommands]
         /\ status' \in [Case -> Live \cup {"none", "APPLIED", "DEAD"}]
         /\ attempts' \in [Case -> 0..MaxAttempts]
         /\ lease' \in [Case -> Worker \cup {Nobody}] /\ live' \in [Case -> BOOLEAN]
BY BoundAssumption DEF TypeOK, Issue, Live

LEMMA RowsTyped ==
  ASSUME TypeOK, NEW c \in Case, NEW d, d.decision \in Owners,
         d.reason \in Reason \cup {"MATCHED"}, Decision(c, d)
  PROVE  /\ decision' \in [Case -> {"NONE"} \cup Owners]
         /\ reason' \in [Case -> Reason \cup {"MATCHED"}]
         /\ pending' \in [Case -> 0..MaxCommands] /\ issued' \in [Case -> 0..MaxCommands]
         /\ status' \in [Case -> Live \cup {"none", "APPLIED", "DEAD"}]
         /\ attempts' \in [Case -> 0..MaxAttempts]
         /\ lease' \in [Case -> Worker \cup {Nobody}] /\ live' \in [Case -> BOOLEAN]
<1>1. decision' \in [Case -> {"NONE"} \cup Owners] /\ reason' \in [Case -> Reason \cup {"MATCHED"}]
  BY DEF TypeOK, Decision, Record, Owners
<1>2. Issue(c) \/ UNCHANGED <<pending, issued, rows>>
  BY DEF Decision
<1> QED
  BY <1>1, <1>2, IssueTyped DEF TypeOK, rows

LEMMA GotoTyped ==
  ASSUME TypeOK, NEW w \in Worker, job[w] # Nobody,
         NEW step \in {"start", "look", "complete", "wait", "error", "defer", "dead"},
         Goto(w, step)
  PROVE  job' \in [Worker -> Job \cup {Nobody}]
<1>1. job[w] \in Job
  BY DEF TypeOK
<1>2. [job[w] EXCEPT !.step = step] \in Job
  BY <1>1 DEF Job
<1> QED
  BY <1>2 DEF TypeOK, Goto

LEMMA DoneTyped ==
  ASSUME TypeOK, NEW w \in Worker, Done(w)
  PROVE  job' \in [Worker -> Job \cup {Nobody}]
BY DEF TypeOK, Done

LEMMA JobFields ==
  ASSUME TypeOK, NEW w \in Worker, job[w] # Nobody
  PROVE  job[w].case \in Case /\ job[w].n \in Command
BY DEF TypeOK, Job

LEMMA WriteTyped ==
  ASSUME TypeOK, NEW c \in Case, NEW to \in Live \cup {"APPLIED", "DEAD"}, Write(c, to)
  PROVE  /\ status' \in [Case -> Live \cup {"none", "APPLIED", "DEAD"}]
         /\ lease' \in [Case -> Worker \cup {Nobody}] /\ live' \in [Case -> BOOLEAN]
BY DEF TypeOK, Write

Inbox == {"none", "PENDING", "TAKEN", "BOOKED", "DONE", "ERROR", "DEAD_LETTER", "IGNORED"}

LEMMA ReceiveTyped ==
  ASSUME TypeOK, NEW c \in Case, NEW n \in Command, NEW to \in Inbox, Receive(c, n, to)
  PROVE  inbox' \in [Case -> [Command -> Inbox]]
<1>1. inbox[c] \in [Command -> Inbox]
  BY DEF TypeOK, Inbox
<1> QED
  BY <1>1 DEF TypeOK, Receive, Inbox

LEMMA BookTyped ==
  ASSUME TypeOK, NEW c \in Case, NEW n \in 0..MaxCommands, BookFor(c, n)
  PROVE  /\ booked' \in [Case -> {"none", "exact", "other"}]
         /\ bookedBy' \in [Case -> 0..MaxCommands]
<1>1. CASE booked[c] # "none"
  BY <1>1 DEF TypeOK, BookFor
<1>2. CASE booked[c] = "none"
  <2>1. PICK how \in {"exact", "other"} : booked' = [booked EXCEPT ![c] = how]
    BY <1>2 DEF BookFor
  <2>2. bookedBy' = [bookedBy EXCEPT ![c] = n]
    BY <1>2 DEF BookFor
  <2> QED
    BY <2>1, <2>2 DEF TypeOK
<1> QED
  BY <1>1, <1>2

LEMMA LapseTyped ==
  ASSUME TypeOK, Lapse \/ lapses' = lapses
  PROVE  lapses' \in 0..MaxLapses
BY BoundAssumption DEF TypeOK, Lapse

LEMMA FactsTyped ==
  ASSUME TypeOK, NEW c \in Case, NEW field \in {"customer", "company", "watched"}, NEW value,
         field = "customer" => value \in {"none", "pool", "late", "assigned"},
         field = "company" => value \in {"none", "disabled", "enabled"},
         field = "watched" => value \in BOOLEAN,
         Change(c, field, value)
  PROVE  facts' \in [Case -> Facts]
<1>1. facts[c] \in Facts
  BY DEF TypeOK
<1>2. [facts[c] EXCEPT ![field] = value] \in Facts
  BY <1>1 DEF Facts
<1> QED
  BY <1>2 DEF TypeOK, Change

LEMMA WebhookTyped ==
  ASSUME TypeOK, NEW c \in Case, NEW k \in Event, NEW to \in {"none", "PENDING", "DONE", "ERROR"},
         webhook' = [webhook EXCEPT ![c][k] = to]
  PROVE  webhook' \in [Case -> [Event -> {"none", "PENDING", "DONE", "ERROR"}]]
<1>1. webhook[c] \in [Event -> {"none", "PENDING", "DONE", "ERROR"}]
  BY DEF TypeOK
<1> QED
  BY <1>1 DEF TypeOK

-----------------------------------------------------------------------------
\* Types.

LEMMA TypeInit == Init => TypeOK
<1> SUFFICES ASSUME Init PROVE TypeOK
  OBVIOUS
<1>1. facts \in [Case -> Facts]
  BY WorldAssumption DEF Init
<1> QED
  BY <1>1, BoundAssumption DEF Init, TypeOK, Live, Reason

LEMMA TypeStep ==
  ASSUME facts' \in [Case -> Facts],
         webhook' \in [Case -> [Event -> {"none", "PENDING", "DONE", "ERROR"}]],
         decision' \in [Case -> {"NONE"} \cup Owners], reason' \in [Case -> Reason \cup {"MATCHED"}],
         pending' \in [Case -> 0..MaxCommands], issued' \in [Case -> 0..MaxCommands],
         status' \in [Case -> Live \cup {"none", "APPLIED", "DEAD"}],
         attempts' \in [Case -> 0..MaxAttempts],
         lease' \in [Case -> Worker \cup {Nobody}], live' \in [Case -> BOOLEAN],
         inbox' \in [Case -> [Command -> Inbox]],
         booked' \in [Case -> {"none", "exact", "other"}],
         bookedBy' \in [Case -> 0..MaxCommands], stray' \in [Case -> 0..MaxCommands],
         result' \in [Case -> 0..MaxCommands],
         job' \in [Worker -> Job \cup {Nobody}], lapses' \in 0..MaxLapses
  PROVE  TypeOK'
BY DEF TypeOK, Owners, Inbox

\* The steps outside the workers, one by one.
LEMMA TypeIntake ==
  ASSUME TypeOK, NEW c \in Case,
         \/ AssignAvailable(c) \/ Register(c) \/ Enable(c) \/ Disable(c) \/ Backfill(c)
         \/ (\E k \in Event : Deliver(c, k)) \/ RejectEvent(c)
  PROVE  TypeOK'
<1> USE DEF others, case, rows, books
<1>1. CASE \/ AssignAvailable(c) \/ Register(c) \/ Enable(c) \/ Disable(c) \/ Backfill(c)
  <2>1. facts' \in [Case -> Facts]
    <3>1. CASE AssignAvailable(c)
      BY <3>1, FactsTyped DEF AssignAvailable
    <3>2. CASE Register(c)
      BY <3>2, FactsTyped DEF Register
    <3>3. CASE Enable(c) \/ Disable(c) \/ Backfill(c)
      BY <3>3, FactsTyped DEF Enable, Disable, Backfill
    <3> QED
      BY <1>1, <3>1, <3>2, <3>3
  <2>2. UNCHANGED others
    BY <1>1 DEF AssignAvailable, Register, Enable, Disable, Backfill
  <2> QED
    BY <2>1, <2>2, TypeStep DEF TypeOK, Owners, Inbox
<1>2. ASSUME NEW k \in Event, Deliver(c, k) PROVE TypeOK'
  BY <1>2, WebhookTyped, TypeStep DEF TypeOK, Deliver, Owners, Inbox
<1>3. CASE RejectEvent(c)
  BY <1>3, WebhookTyped, TypeStep DEF TypeOK, RejectEvent, Owners, Inbox, Event
<1> QED
  BY <1>1, <1>2, <1>3

LEMMA TypeRouting ==
  ASSUME TypeOK, NEW c \in Case,
         (\E k \in Event : RouteEvent(c, k)) \/ Reconcile(c) \/ OperatorRequeue(c)
  PROVE  TypeOK'
<1> USE DEF intake, case, rows, books
<1>0. \A final \in BOOLEAN : /\ Decide(facts[c], final).decision \in Owners
                             /\ Decide(facts[c], final).reason \in Reason \cup {"MATCHED"}
  BY DecideTyped DEF TypeOK
<1>1. ASSUME NEW k \in Event, RouteEvent(c, k) PROVE TypeOK'
  <2>1. webhook' \in [Case -> [Event -> {"none", "PENDING", "DONE", "ERROR"}]]
    BY <1>1, WebhookTyped DEF RouteEvent
  <2>2. CASE decision[c] = "NONE"
    <3>1. Decision(c, Decide(facts[c], k = "final"))
      BY <1>1, <2>2 DEF RouteEvent
    <3> HIDE DEF rows, case
    <3>2. (k = "final") \in BOOLEAN
      OBVIOUS
    <3>3. /\ decision' \in [Case -> {"NONE"} \cup Owners]
          /\ reason' \in [Case -> Reason \cup {"MATCHED"}]
          /\ pending' \in [Case -> 0..MaxCommands] /\ issued' \in [Case -> 0..MaxCommands]
          /\ status' \in [Case -> Live \cup {"none", "APPLIED", "DEAD"}]
          /\ attempts' \in [Case -> 0..MaxAttempts]
          /\ lease' \in [Case -> Worker \cup {Nobody}] /\ live' \in [Case -> BOOLEAN]
      BY <1>0, <3>1, <3>2, RowsTyped
    <3> QED
      BY <1>1, <2>1, <3>3, TypeStep DEF TypeOK, RouteEvent, Owners, Inbox, books
  <2>3. CASE decision[c] # "NONE"
    BY <1>1, <2>1, <2>3, TypeStep DEF TypeOK, RouteEvent, Owners, Inbox
  <2> QED
    BY <2>2, <2>3
<1>2. CASE Reconcile(c)
  <2>1. Decision(c, Decide(facts[c], webhook[c]["final"] = "DONE"))
    BY <1>2 DEF Reconcile
  <2> HIDE DEF rows, case
  <2>2. (webhook[c]["final"] = "DONE") \in BOOLEAN
    OBVIOUS
  <2>3. /\ decision' \in [Case -> {"NONE"} \cup Owners]
        /\ reason' \in [Case -> Reason \cup {"MATCHED"}]
        /\ pending' \in [Case -> 0..MaxCommands] /\ issued' \in [Case -> 0..MaxCommands]
        /\ status' \in [Case -> Live \cup {"none", "APPLIED", "DEAD"}]
        /\ attempts' \in [Case -> 0..MaxAttempts]
        /\ lease' \in [Case -> Worker \cup {Nobody}] /\ live' \in [Case -> BOOLEAN]
    BY <1>0, <2>1, <2>2, RowsTyped
  <2> QED
    BY <1>2, <2>3, TypeStep DEF TypeOK, Reconcile, Owners, Inbox, intake, books
<1>3. CASE OperatorRequeue(c)
  BY <1>3, IssueTyped, TypeStep DEF TypeOK, OperatorRequeue, Owners, Inbox
<1> QED
  BY <1>1, <1>2, <1>3

LEMMA TypeWorker ==
  ASSUME TypeOK, NEW w \in Worker,
         Work(w) \/ Fail(w) \/ Crash(w) \/ \E c \in Case : Claim(w, c)
  PROVE  TypeOK'
<1> USE DEF intake, case, rows, books
<1> DEFINE c == job[w].case
           n == job[w].n
<1>0. job[w] # Nobody => c \in Case /\ n \in Command
  BY JobFields
<1>1. CASE ApplyCustomer(w)
  <2>1. inbox' \in [Case -> [Command -> Inbox]]
    BY <1>0, <1>1, ReceiveTyped DEF ApplyCustomer, At, Receive, TypeOK, Inbox
  <2>2. job' \in [Worker -> Job \cup {Nobody}]
    BY <1>1, GotoTyped DEF ApplyCustomer, At
  <2> QED
    BY <1>1, <2>1, <2>2, TypeStep DEF TypeOK, ApplyCustomer, Owners
<1>2. CASE ApplyCompany(w)
  <2>1. inbox' \in [Case -> [Command -> Inbox]]
    <3>1. CASE inbox' = inbox
      BY <3>1 DEF TypeOK, Inbox
    <3>2. CASE inbox' = [inbox EXCEPT ![c][n] = "PENDING"]
      BY <1>0, <1>2, <3>2, ReceiveTyped DEF ApplyCompany, At, Receive, Inbox
    <3>3. ASSUME NEW m \in Command,
                 inbox' = [inbox EXCEPT ![c] = [@ EXCEPT ![m] = "none", ![n] = "PENDING"]]
          PROVE  inbox' \in [Case -> [Command -> Inbox]]
      <4>1. inbox[c] \in [Command -> Inbox]
        BY <1>0, <1>2 DEF TypeOK, Inbox, ApplyCompany, At
      <4>2. [inbox[c] EXCEPT ![m] = "none", ![n] = "PENDING"] \in [Command -> Inbox]
        BY <4>1 DEF Inbox
      <4> HIDE DEF c, n
      <4> QED
        BY <3>3, <4>2 DEF TypeOK, Inbox
    <3> QED
      BY <1>2, <3>1, <3>2, <3>3 DEF ApplyCompany
  <2>2. job' \in [Worker -> Job \cup {Nobody}]
    <3>1. \E step \in {"look", "wait", "error", "dead"} : Goto(w, step)
      BY <1>2 DEF ApplyCompany
    <3> QED
      BY <1>2, <3>1, GotoTyped DEF ApplyCompany, At
  <2> QED
    BY <1>2, <2>1, <2>2, TypeStep DEF TypeOK, ApplyCompany, Owners
<1>3. CASE Look(w)
  <2>1. booked[c] \in {"none", "exact", "other"}
    BY <1>0, <1>3 DEF TypeOK, Look, At
  <2>2. \E step \in {"wait", "complete", "dead"} : Goto(w, step)
    BY <1>3, <2>1 DEF Look, Verdict
  <2>3. job' \in [Worker -> Job \cup {Nobody}]
    BY <1>3, <2>2, GotoTyped DEF Look, At
  <2> QED
    BY <1>3, <2>3, TypeStep DEF TypeOK, Look, Owners, Inbox
<1>4. CASE Fail(w)
  <2>1. job' \in [Worker -> Job \cup {Nobody}]
    BY <1>4, GotoTyped DEF Fail, At
  <2> QED
    BY <1>4, <2>1, TypeStep DEF TypeOK, Fail, Owners, Inbox
<1>5. CASE Retry(w)
  <2>1. job' \in [Worker -> Job \cup {Nobody}]
    <3>1. Done(w) \/ \E step \in {"dead", "defer"} : Goto(w, step)
      BY <1>5 DEF Retry
    <3> QED
      BY <1>5, <3>1, GotoTyped, DoneTyped DEF Retry, At
  <2> QED
    BY <1>5, <2>1, TypeStep DEF TypeOK, Retry, Owners, Inbox
<1>6. CASE Defer(w)
  <2>1. job' \in [Worker -> Job \cup {Nobody}]
    BY <1>6, DoneTyped DEF Defer
  <2>2. CASE UNCHANGED rows
    BY <1>6, <2>1, <2>2, TypeStep DEF TypeOK, Defer, Owners, Inbox
  <2>3. CASE /\ Write(c, "RETRYABLE")
             /\ attempts' = [attempts EXCEPT ![c] = IF @ < MaxAttempts THEN @ + 1 ELSE @]
    <3>1. c \in Case
      BY <1>0, <1>6 DEF Defer, At
    <3> HIDE DEF c
    <3>2. attempts' \in [Case -> 0..MaxAttempts]
      BY <2>3, <3>1, BoundAssumption DEF TypeOK
    <3>3. /\ status' \in [Case -> Live \cup {"none", "APPLIED", "DEAD"}]
          /\ lease' \in [Case -> Worker \cup {Nobody}] /\ live' \in [Case -> BOOLEAN]
      BY <2>3, <3>1, WriteTyped DEF Live
    <3> QED
      BY <1>6, <2>1, <3>2, <3>3, TypeStep DEF TypeOK, Defer, Owners, Inbox
  <2> QED
    BY <1>6, <2>2, <2>3 DEF Defer
<1>7. CASE Dead(w)
  <2>1. job' \in [Worker -> Job \cup {Nobody}]
    BY <1>7, DoneTyped DEF Dead
  <2>2. /\ status' \in [Case -> Live \cup {"none", "APPLIED", "DEAD"}]
        /\ lease' \in [Case -> Worker \cup {Nobody}] /\ live' \in [Case -> BOOLEAN]
    <3>1. CASE Write(c, "DEAD")
      BY <1>0, <1>7, <3>1, WriteTyped DEF Dead, At
    <3> QED
      BY <1>7, <3>1 DEF Dead, TypeOK
  <2> QED
    BY <1>7, <2>1, <2>2, TypeStep DEF TypeOK, Dead, Owners, Inbox
<1>8. CASE Complete(w)
  <2>1. job' \in [Worker -> Job \cup {Nobody}]
    BY <1>8, DoneTyped DEF Complete
  <2>2. CASE UNCHANGED <<status, lease, live, result, pending>>
    BY <1>8, <2>1, <2>2, TypeStep DEF TypeOK, Complete, Owners, Inbox
  <2>3. CASE /\ Write(c, "APPLIED")
             /\ result' = [result EXCEPT ![c] = n]
             /\ pending' = [pending EXCEPT ![c] = 0]
    <3>1. c \in Case /\ n \in 0..MaxCommands /\ 0 \in 0..MaxCommands
      BY <1>0, <1>8, BoundAssumption DEF Complete, At, Command
    <3> HIDE DEF c, n
    <3>2. result' \in [Case -> 0..MaxCommands] /\ pending' \in [Case -> 0..MaxCommands]
      BY <2>3, <3>1 DEF TypeOK
    <3>3. /\ status' \in [Case -> Live \cup {"none", "APPLIED", "DEAD"}]
          /\ lease' \in [Case -> Worker \cup {Nobody}] /\ live' \in [Case -> BOOLEAN]
      BY <2>3, <3>1, WriteTyped
    <3> QED
      BY <1>8, <2>1, <3>2, <3>3, TypeStep DEF TypeOK, Complete, Owners, Inbox
  <2> QED
    BY <1>8, <2>2, <2>3 DEF Complete
<1>9. CASE Crash(w)
  BY <1>9, DoneTyped, LapseTyped, TypeStep DEF TypeOK, Crash, Owners, Inbox
<1>10. ASSUME NEW d \in Case, Claim(w, d) PROVE TypeOK'
  <2>1. pending[d] \in Command
    BY <1>10, BoundAssumption DEF TypeOK, Claim, Claimable, Current, Command
  <2> QED
    BY <1>10, <2>1, TypeStep DEF TypeOK, Claim, Owners, Inbox, Live, Job
<1> QED
  BY <1>1, <1>2, <1>3, <1>4, <1>5, <1>6, <1>7, <1>8, <1>9, <1>10 DEF Work

LEMMA TypeBooks ==
  ASSUME TypeOK, NEW c \in Case,
         \/ Expire(c) \/ BookStray(c)
         \/ \E n \in Command :
              \/ Take(c, n) \/ BookDeposit(c, n) \/ RejectDeposit(c, n) \/ BookMovement(c, n)
              \/ FinishMovement(c, n) \/ FailMovement(c, n) \/ Release(c, n)
  PROVE  TypeOK'
<1> USE DEF intake, case, rows, books
<1>1. CASE Expire(c)
  <2>1. lapses' \in 0..MaxLapses
    BY <1>1, LapseTyped DEF Expire
  <2> QED
    BY <1>1, <2>1, TypeStep DEF TypeOK, Expire, Owners, Inbox
<1>2. CASE BookStray(c)
  <2>1. /\ booked' \in [Case -> {"none", "exact", "other"}]
        /\ bookedBy' \in [Case -> 0..MaxCommands]
    <3>1. stray[c] \in 0..MaxCommands
      BY DEF TypeOK
    <3> QED
      BY <1>2, <3>1, BookTyped DEF BookStray, TypeOK
  <2>2. stray' \in [Case -> 0..MaxCommands]
    BY <1>2, BoundAssumption DEF BookStray, TypeOK
  <2> QED
    BY <1>2, <2>1, <2>2, TypeStep DEF TypeOK, BookStray, Owners, Inbox
<1>3. ASSUME NEW n \in Command,
             \/ Take(c, n) \/ RejectDeposit(c, n) \/ FinishMovement(c, n) \/ FailMovement(c, n)
      PROVE  TypeOK'
  <2>1. inbox' \in [Case -> [Command -> Inbox]]
    BY <1>3, ReceiveTyped DEF Take, RejectDeposit, FinishMovement, FailMovement, Inbox
  <2> QED
    BY <1>3, <2>1, TypeStep
       DEF TypeOK, Take, RejectDeposit, FinishMovement, FailMovement, Owners
<1>4. ASSUME NEW n \in Command, BookDeposit(c, n) \/ BookMovement(c, n) PROVE TypeOK'
  <2>1. inbox' \in [Case -> [Command -> Inbox]]
    BY <1>4, ReceiveTyped DEF BookDeposit, BookMovement, Inbox
  <2>2. /\ booked' \in [Case -> {"none", "exact", "other"}]
        /\ bookedBy' \in [Case -> 0..MaxCommands]
    BY <1>4, BookTyped DEF BookDeposit, BookMovement, Command
  <2> QED
    BY <1>4, <2>1, <2>2, TypeStep DEF TypeOK, BookDeposit, BookMovement, Owners
<1>5. ASSUME NEW n \in Command, Release(c, n) PROVE TypeOK'
  <2>1. inbox' \in [Case -> [Command -> Inbox]]
    BY <1>5, ReceiveTyped DEF Release, Inbox
  <2>2. stray' \in [Case -> 0..MaxCommands]
    <3>1. stray' = stray \/ stray' = [stray EXCEPT ![c] = n]
      BY <1>5 DEF Release
    <3>2. n \in 0..MaxCommands /\ stray \in [Case -> 0..MaxCommands]
      BY DEF TypeOK, Command
    <3> QED
      BY <3>1, <3>2
  <2>3. lapses' \in 0..MaxLapses
    BY <1>5, LapseTyped DEF Release
  <2> QED
    BY <1>5, <2>1, <2>2, <2>3, TypeStep DEF TypeOK, Release, Owners
<1> QED
  BY <1>1, <1>2, <1>3, <1>4, <1>5

LEMMA TypeNext == TypeOK /\ [Next]_vars => TypeOK'
<1> SUFFICES ASSUME TypeOK, [Next]_vars PROVE TypeOK'
  OBVIOUS
<1>1. CASE Next
  BY <1>1, TypeIntake, TypeRouting, TypeWorker, TypeBooks DEF Next
<1>2. CASE UNCHANGED vars
  BY <1>2 DEF TypeOK, vars, intake, case, rows, books
<1> QED
  BY <1>1, <1>2

\* Every variable keeps its type.
THEOREM RoutingIsTyped == Spec => []TypeOK
  BY TypeInit, TypeNext, PTL DEF Spec

-----------------------------------------------------------------------------
\* The fence. A case without a decision has no command; a pending command is the
\* last one issued; and what is about to be closed is booked as it was routed.

Fence(c) ==
  /\ decision[c] \in {"NONE", "OPEN"} => pending[c] = 0
  /\ pending[c] # 0 => pending[c] = issued[c]
Fenced == \A c \in Case : Fence(c)
Backed == \A w \in Worker : At(w, "complete") => booked[job[w].case] = "exact"

Inv == TypeOK /\ Fenced /\ Backed

LEMMA InvInit == Init => Inv
<1> SUFFICES ASSUME Init PROVE Inv
  OBVIOUS
<1>1. TypeOK
  BY TypeInit
<1>2. Fenced /\ Backed
  BY DEF Init, Fenced, Fence, Backed, At
<1> QED
  BY <1>1, <1>2 DEF Inv

-----------------------------------------------------------------------------
\* What a step may do to the cases and the ledgers: nothing that the promise
\* tells apart, or one of five things to one case.

bookings == <<booked, bookedBy>>
course == <<decision, pending, issued, status>>

Quiet ==
  /\ UNCHANGED <<decision, pending, issued, result, bookings>>
  /\ \A c \in Case : status'[c] \in Live <=> status[c] \in Live
Opens(c) ==
  /\ decision[c] \in {"NONE", "OPEN"} /\ decision' = [decision EXCEPT ![c] = "OPEN"]
  /\ UNCHANGED <<pending, issued, status, result, bookings>>
Issues(c) ==
  /\ decision[c] \in {"NONE", "OPEN"} \/ pending[c] # 0
  /\ \E owner \in Owners \ {"OPEN"} : decision' = [decision EXCEPT ![c] = owner]
  /\ issued' = [issued EXCEPT ![c] = @ + 1]
  /\ pending' = [pending EXCEPT ![c] = issued[c] + 1]
  /\ status' = [status EXCEPT ![c] = "PENDING"]
  /\ UNCHANGED <<result, bookings>>
Ongoing(c) == pending[c] # 0 /\ status[c] \in Live
Books(c) ==
  /\ Ongoing(c) /\ booked[c] = "none"
  /\ \E how \in {"exact", "other"} : booked' = [booked EXCEPT ![c] = how]
  /\ bookedBy' = [bookedBy EXCEPT ![c] = pending[c]]
  /\ UNCHANGED <<course, result>>
Blocks(c) ==
  /\ Ongoing(c) /\ status' = [status EXCEPT ![c] = "DEAD"]
  /\ UNCHANGED <<decision, pending, issued, result, bookings>>
Settles(c) ==
  /\ Ongoing(c) /\ booked[c] = "exact"
  /\ status' = [status EXCEPT ![c] = "APPLIED"]
  /\ result' = [result EXCEPT ![c] = pending[c]]
  /\ pending' = [pending EXCEPT ![c] = 0]
  /\ UNCHANGED <<decision, issued, bookings>>

Tells == \E c \in Case : Opens(c) \/ Issues(c) \/ Books(c) \/ Blocks(c) \/ Settles(c)

LEMMA QuietSame ==
  ASSUME UNCHANGED <<decision, pending, issued, status, result, bookings>>
  PROVE  Quiet
BY DEF Quiet

LEMMA DecisionTells ==
  ASSUME TypeOK, NEW c \in Case, decision[c] \in {"NONE", "OPEN"}, NEW d,
         d.decision \in Owners, Decision(c, d), UNCHANGED <<result, bookings>>
  PROVE  Opens(c) \/ Issues(c)
<1>1. CASE d.decision = "OPEN"
  BY <1>1 DEF Decision, Record, Opens, rows
<1>2. CASE d.decision # "OPEN"
  <2>1. Issue(c) /\ decision' = [decision EXCEPT ![c] = d.decision]
    BY <1>2 DEF Decision, Record
  <2>2. d.decision \in Owners \ {"OPEN"}
    BY <1>2
  <2> QED
    BY <2>1, <2>2 DEF Issue, Issues
<1> QED
  BY <1>1, <1>2

LEMMA BookTells ==
  ASSUME TypeOK, NEW c \in Case, NEW n \in Command, Current(c, n), BookFor(c, n),
         UNCHANGED <<course, result>>
  PROVE  Quiet \/ Books(c)
<1>1. CASE booked[c] # "none"
  BY <1>1 DEF BookFor, Quiet, bookings, course
<1>2. CASE booked[c] = "none"
  <2>1. n # 0 /\ n = pending[c] /\ Ongoing(c)
    BY DEF Command, Current, Ongoing
  <2>2. /\ \E how \in {"exact", "other"} : booked' = [booked EXCEPT ![c] = how]
        /\ bookedBy' = [bookedBy EXCEPT ![c] = pending[c]]
    BY <1>2, <2>1 DEF BookFor
  <2> QED
    BY <1>2, <2>1, <2>2 DEF Books
<1> QED
  BY <1>1, <1>2

LEMMA HoldsOngoing ==
  ASSUME NEW w, NEW c, NEW n \in Command, Holds(w, c, n)
  PROVE  Ongoing(c) /\ pending[c] = n
BY DEF Holds, Current, Ongoing, Command

LEMMA StatusQuiet ==
  ASSUME TypeOK, NEW c \in Case, status[c] \in Live, NEW to \in Live,
         status' = [status EXCEPT ![c] = to],
         UNCHANGED <<decision, pending, issued, result, bookings>>
  PROVE  Quiet
BY DEF Quiet, TypeOK

LEMMA Steps == Inv /\ [Next]_vars => Quiet \/ Tells
<1> SUFFICES ASSUME Inv, [Next]_vars PROVE Quiet \/ Tells
  OBVIOUS
<1>0. TypeOK /\ Fenced /\ Backed
  BY DEF Inv
<1> USE DEF intake, case, rows, books, bookings
<1>1. ASSUME NEW c \in Case,
             \/ AssignAvailable(c) \/ Register(c) \/ Enable(c) \/ Disable(c) \/ Backfill(c)
             \/ (\E k \in Event : Deliver(c, k)) \/ RejectEvent(c) \/ Expire(c)
      PROVE  Quiet
  BY <1>1, QuietSame
     DEF AssignAvailable, Register, Enable, Disable, Backfill, others, Deliver, RejectEvent, Expire
<1>2. ASSUME NEW c \in Case, (\E k \in Event : RouteEvent(c, k)) \/ Reconcile(c)
      PROVE  Quiet \/ Tells
  <2>1. \A final \in BOOLEAN : Decide(facts[c], final).decision \in Owners
    BY <1>0, DecideTyped DEF TypeOK
  <2>2. ASSUME NEW k \in Event, RouteEvent(c, k) PROVE Quiet \/ Tells
    <3>1. CASE decision[c] # "NONE"
      BY <2>2, <3>1, QuietSame DEF RouteEvent
    <3>2. CASE decision[c] = "NONE"
      <4>1. /\ Decision(c, Decide(facts[c], k = "final"))
            /\ UNCHANGED <<result, booked, bookedBy>>
        BY <2>2, <3>2 DEF RouteEvent
      <4>2. (k = "final") \in BOOLEAN
        OBVIOUS
      <4>3. Decide(facts[c], k = "final").decision \in Owners
        BY <2>1, <4>2
      <4> QED
        BY <1>0, <3>2, <4>1, <4>3, DecisionTells DEF Tells
    <3> QED
      BY <3>1, <3>2
  <2>3. CASE Reconcile(c)
    <3>1. /\ Decision(c, Decide(facts[c], webhook[c]["final"] = "DONE"))
          /\ decision[c] = "OPEN" /\ UNCHANGED <<result, booked, bookedBy>>
      BY <2>3 DEF Reconcile
    <3>2. (webhook[c]["final"] = "DONE") \in BOOLEAN
      OBVIOUS
    <3>3. Decide(facts[c], webhook[c]["final"] = "DONE").decision \in Owners
      BY <2>1, <3>2
    <3> QED
      BY <1>0, <3>1, <3>3, DecisionTells DEF Tells
  <2> QED
    BY <1>2, <2>2, <2>3
<1>3. ASSUME NEW c \in Case, OperatorRequeue(c) PROVE Tells
  <2>1. pending[c] # 0 /\ decision[c] \in Owners \ {"OPEN"}
    BY <1>0, <1>3 DEF OperatorRequeue, Fenced, Fence, TypeOK, Owners
  <2>2. decision' = [decision EXCEPT ![c] = decision[c]]
    BY <1>0, <1>3 DEF OperatorRequeue, TypeOK
  <2> QED
    BY <1>3, <2>1, <2>2 DEF OperatorRequeue, Issue, Issues, Tells
<1>4. ASSUME NEW c \in Case, NEW n \in Command, BookDeposit(c, n) \/ BookMovement(c, n)
      PROVE  Quiet \/ Tells
  <2>1. Current(c, n) /\ BookFor(c, n) /\ UNCHANGED <<course, result>>
    BY <1>4 DEF BookDeposit, BookMovement, course
  <2> QED
    BY <1>0, <2>1, BookTells DEF Tells
<1>5. ASSUME NEW c \in Case, BookStray(c) PROVE Quiet \/ Tells
  <2>1. CASE ~Current(c, stray[c])
    BY <1>5, <2>1, QuietSame DEF BookStray
  <2>2. CASE Current(c, stray[c])
    <3>1. BookFor(c, stray[c]) /\ UNCHANGED <<course, result>>
      BY <1>5, <2>2 DEF BookStray, course
    <3>2. stray[c] \in Command
      BY <1>0, <1>5, BoundAssumption DEF TypeOK, BookStray, Command
    <3> QED
      BY <1>0, <2>2, <3>1, <3>2, BookTells DEF Tells
  <2> QED
    BY <2>1, <2>2
<1>6. ASSUME NEW c \in Case, NEW n \in Command,
             \/ Take(c, n) \/ RejectDeposit(c, n) \/ FinishMovement(c, n)
             \/ FailMovement(c, n) \/ Release(c, n)
      PROVE  Quiet
  BY <1>6, QuietSame DEF Take, RejectDeposit, FinishMovement, FailMovement, Release
<1>7. ASSUME NEW w \in Worker, NEW c \in Case, Claim(w, c) PROVE Quiet
  BY <1>0, <1>7, StatusQuiet DEF Claim, Claimable, Current, Live
<1>8. ASSUME NEW w \in Worker,
             ApplyCustomer(w) \/ ApplyCompany(w) \/ Look(w) \/ Retry(w) \/ Fail(w) \/ Crash(w)
      PROVE  Quiet
  BY <1>8, QuietSame DEF ApplyCustomer, ApplyCompany, Look, Retry, Fail, Crash
<1>9. ASSUME NEW w \in Worker, Defer(w) \/ Dead(w) \/ Complete(w) PROVE Quiet \/ Tells
  <2> DEFINE c == job[w].case
             n == job[w].n
  <2>1. job[w] # Nobody /\ c \in Case /\ n \in Command
    BY <1>0, <1>9, JobFields DEF Defer, Dead, Complete, At
  <2>2. CASE Defer(w)
    <3>1. CASE Current(c, n) /\ lease[c] = w
      BY <1>0, <2>1, <2>2, <3>1, StatusQuiet DEF Defer, Write, Current, Live
    <3>2. CASE ~(Current(c, n) /\ lease[c] = w)
      BY <2>2, <3>2, QuietSame DEF Defer
    <3> QED
      BY <3>1, <3>2
  <2>3. CASE Dead(w)
    <3>1. CASE Holds(w, c, n)
      <4>1. Ongoing(c) /\ pending[c] = n
        BY <2>1, <3>1, HoldsOngoing
      <4> QED
        BY <2>1, <2>3, <3>1, <4>1 DEF Dead, Write, Blocks, Tells
    <3>2. CASE ~Holds(w, c, n)
      BY <2>3, <3>2, QuietSame DEF Dead
    <3> QED
      BY <3>1, <3>2
  <2>4. CASE Complete(w)
    <3>1. CASE Holds(w, c, n)
      <4>1. Ongoing(c) /\ pending[c] = n
        BY <2>1, <3>1, HoldsOngoing
      <4>2. booked[c] = "exact"
        BY <1>0, <2>4 DEF Backed, Complete
      <4> QED
        BY <2>1, <2>4, <3>1, <4>1, <4>2 DEF Complete, Write, Settles, Tells
    <3>2. CASE ~Holds(w, c, n)
      BY <2>4, <3>2, QuietSame DEF Complete
    <3> QED
      BY <3>1, <3>2
  <2> QED
    BY <1>9, <2>2, <2>3, <2>4
<1>10. CASE UNCHANGED vars
  BY <1>10, QuietSame DEF vars
<1> QED
  BY <1>1, <1>2, <1>3, <1>4, <1>5, <1>6, <1>7, <1>8, <1>9, <1>10 DEF Next, Work

-----------------------------------------------------------------------------
\* The fence is kept, and so is what stands behind a job about to close a case.

LEMMA FencedNext == Inv /\ [Next]_vars => Fenced'
<1> SUFFICES ASSUME Inv, [Next]_vars, NEW d \in Case PROVE Fence(d)'
  BY DEF Fenced
<1>0. TypeOK /\ Fence(d)
  BY DEF Inv, Fenced
<1>1. CASE Quiet
  BY <1>0, <1>1 DEF Quiet, Fence
<1>2. ASSUME NEW c \in Case, Opens(c) PROVE Fence(d)'
  BY <1>0, <1>2 DEF Opens, Fence, TypeOK
<1>3. ASSUME NEW c \in Case, Issues(c) PROVE Fence(d)'
  <2>1. PICK owner \in Owners \ {"OPEN"} : decision' = [decision EXCEPT ![c] = owner]
    BY <1>3 DEF Issues
  <2>2. owner \notin {"NONE", "OPEN"}
    BY <2>1 DEF Owners
  <2>3. CASE d = c
    BY <1>0, <1>3, <2>1, <2>2, <2>3 DEF Issues, Fence, TypeOK
  <2>4. CASE d # c
    BY <1>0, <1>3, <2>1, <2>4 DEF Issues, Fence, TypeOK
  <2> QED
    BY <2>3, <2>4
<1>4. ASSUME NEW c \in Case, Books(c) \/ Blocks(c) PROVE Fence(d)'
  BY <1>0, <1>4 DEF Books, Blocks, course, Fence
<1>5. ASSUME NEW c \in Case, Settles(c) PROVE Fence(d)'
  BY <1>0, <1>5 DEF Settles, Fence, TypeOK
<1> QED
  BY <1>1, <1>2, <1>3, <1>4, <1>5, Steps DEF Tells

LEMMA BookedKept ==
  ASSUME Inv, [Next]_vars, NEW c \in Case, booked[c] = "exact"
  PROVE  booked'[c] = "exact"
<1>1. ASSUME NEW d \in Case, Books(d) PROVE booked'[c] = "exact"
  BY <1>1 DEF Books, Inv, TypeOK
<1> QED
  BY <1>1, Steps DEF Quiet, Tells, Opens, Issues, Blocks, Settles, bookings

LEMMA GotoAt ==
  ASSUME TypeOK, NEW u \in Worker, job[u] # Nobody, NEW step, Goto(u, step),
         NEW w \in Worker, job'[w] # job[w]
  PROVE  w = u /\ job'[w].step = step /\ job'[w].case = job[w].case
<1>1. job[u] \in Job
  BY DEF TypeOK
<1> QED
  BY <1>1 DEF Goto, TypeOK, Job

LEMMA DoneAt ==
  ASSUME TypeOK, NEW u \in Worker, Done(u), NEW w \in Worker, job'[w] # job[w]
  PROVE  job'[w] = Nobody
BY DEF Done, TypeOK

\* Only a look at the ledger sends a job on to close its case.
LEMMA OnlyLook ==
  ASSUME TypeOK, [Next]_vars, NEW w \in Worker, job'[w] # job[w], At(w, "complete")'
  PROVE  booked[job[w].case] = "exact" /\ job'[w].case = job[w].case /\ job[w] # Nobody
<1>1. job'[w] # Nobody /\ job'[w].step = "complete"
  BY DEF At
<1>2. \E u \in Worker : Work(u) \/ Fail(u) \/ Crash(u) \/ \E c \in Case : Claim(u, c)
  <2>1. ASSUME NEW c \in Case,
               \/ AssignAvailable(c) \/ Register(c) \/ Enable(c) \/ Disable(c) \/ Backfill(c)
               \/ \E k \in Event : Deliver(c, k) \/ RouteEvent(c, k)
               \/ RejectEvent(c)
        PROVE  job' = job
    BY <2>1 DEF AssignAvailable, Register, Enable, Disable, Backfill, others, Deliver,
                RejectEvent, RouteEvent
  <2>2. ASSUME NEW c \in Case,
               Reconcile(c) \/ OperatorRequeue(c) \/ BookStray(c) \/ Expire(c)
        PROVE  job' = job
    BY <2>2 DEF Reconcile, OperatorRequeue, BookStray, Expire
  <2>3. ASSUME NEW c \in Case, NEW n \in Command,
               \/ Take(c, n) \/ BookDeposit(c, n) \/ RejectDeposit(c, n)
               \/ BookMovement(c, n) \/ FinishMovement(c, n) \/ FailMovement(c, n)
               \/ Release(c, n)
        PROVE  job' = job
    BY <2>3 DEF Take, BookDeposit, RejectDeposit, BookMovement, FinishMovement,
                FailMovement, Release
  <2>4. CASE UNCHANGED vars
    BY <2>4 DEF vars
  <2> QED
    BY <2>1, <2>2, <2>3, <2>4, Zenon DEF Next
<1>3. PICK u \in Worker : Work(u) \/ Fail(u) \/ Crash(u) \/ \E c \in Case : Claim(u, c)
  BY <1>2
<1>4. CASE \E c \in Case : Claim(u, c)
  BY <1>1, <1>4 DEF Claim, TypeOK
<1>5. CASE Crash(u) \/ Defer(u) \/ Dead(u) \/ Complete(u)
  BY <1>1, <1>5, DoneAt DEF Crash, Defer, Dead, Complete
<1>6. CASE Retry(u)
  <2>1. Done(u) \/ \E step \in {"dead", "defer"} : Goto(u, step)
    BY <1>6 DEF Retry
  <2> QED
    BY <1>1, <1>6, <2>1, DoneAt, GotoAt DEF Retry, At
<1>7. CASE Fail(u) \/ ApplyCustomer(u) \/ ApplyCompany(u)
  <2>1. job[u] # Nobody /\ \E step \in {"look", "wait", "error", "dead"} : Goto(u, step)
    BY <1>7 DEF Fail, ApplyCustomer, ApplyCompany, At
  <2> QED
    BY <1>1, <2>1, GotoAt
<1>8. CASE Look(u)
  <2> DEFINE next == CASE ForCustomer(job[u].case) -> Verdict[booked[job[u].case]]
                       [] ~ForCustomer(job[u].case) /\ inbox[job[u].case][job[u].n] \in {"PENDING", "TAKEN", "BOOKED"} -> "wait"
                       [] ~ForCustomer(job[u].case) /\ inbox[job[u].case][job[u].n] = "DONE"
                            /\ booked[job[u].case] = "exact" -> "complete"
                       [] OTHER -> "dead"
  <2>1. job[u] # Nobody /\ Goto(u, next)
    BY <1>8 DEF Look, At
  <2>2. booked[job[u].case] \in {"none", "exact", "other"}
    BY <2>1, JobFields DEF TypeOK
  <2>3. next = "complete" => booked[job[u].case] = "exact"
    BY <2>2 DEF Verdict
  <2> HIDE DEF next
  <2> QED
    BY <1>1, <2>1, <2>3, GotoAt
<1> QED
  BY <1>3, <1>4, <1>5, <1>6, <1>7, <1>8 DEF Work

LEMMA BackedNext == Inv /\ [Next]_vars => Backed'
<1> SUFFICES ASSUME Inv, [Next]_vars, NEW w \in Worker, At(w, "complete")'
             PROVE  (booked[job[w].case] = "exact")'
  BY DEF Backed
<1>0. TypeOK /\ Backed
  BY DEF Inv
<1>1. CASE job'[w] = job[w]
  <2>1. At(w, "complete") /\ job[w] # Nobody
    BY <1>1 DEF At
  <2>2. job[w].case \in Case
    BY <1>0, <2>1, JobFields
  <2> QED
    BY <1>0, <1>1, <2>1, <2>2, BookedKept DEF Backed
<1>2. CASE job'[w] # job[w]
  <2>1. booked[job[w].case] = "exact" /\ job'[w].case = job[w].case /\ job[w] # Nobody
    BY <1>0, <1>2, OnlyLook
  <2>2. job[w].case \in Case
    BY <1>0, <2>1, JobFields
  <2> QED
    BY <2>1, <2>2, BookedKept
<1> QED
  BY <1>1, <1>2

LEMMA InvNext == Inv /\ [Next]_vars => Inv'
BY TypeNext, FencedNext, BackedNext DEF Inv

\* Every reachable state is typed, fenced and backed: the routed commands, their
\* leases and the jobs of the workers agree.
THEOREM InvHolds == Spec => []Inv
  BY InvInit, InvNext, PTL DEF Spec

-----------------------------------------------------------------------------
\* The promise. A step is one of its steps, or leaves all it speaks of alone.

phases == [c \in Case |-> Phase(c)]

LEMMA PhaseSame ==
  ASSUME NEW c \in Case, decision'[c] = decision[c], pending'[c] = pending[c],
         status'[c] \in Live <=> status[c] \in Live
  PROVE  Phase(c)' = Phase(c)
BY DEF Phase, Current

LEMMA PhasesChange ==
  ASSUME NEW c \in Case, \A d \in Case : d # c => Phase(d)' = Phase(d)
  PROVE  phases' = [phases EXCEPT ![c] = Phase(c)']
BY DEF phases

LEMMA PhasesSame ==
  ASSUME \A d \in Case : Phase(d)' = Phase(d)
  PROVE  phases' = phases
BY DEF phases

LEMMA LifecycleStep == Inv /\ [Next]_vars => [Lifecycle!Next]_(Lifecycle!vars)
<1> SUFFICES ASSUME Inv, [Next]_vars PROVE Lifecycle!Next \/ UNCHANGED Lifecycle!vars
  OBVIOUS
<1>0. TypeOK /\ Fenced
  BY DEF Inv
<1>1. CASE Quiet
  <2>1. phases' = phases
    BY <1>1, PhaseSame, PhasesSame DEF Quiet
  <2> QED
    BY <1>1, <2>1 DEF Quiet, bookings, Lifecycle!vars, phases
<1>2. ASSUME NEW c \in Case, Opens(c) PROVE Lifecycle!Next \/ UNCHANGED Lifecycle!vars
  <2>1. \A d \in Case : d # c => Phase(d)' = Phase(d)
    BY <1>0, <1>2, PhaseSame DEF Opens, TypeOK
  <2>2. phases' = [phases EXCEPT ![c] = "open"] /\ phases[c] \in {"unrouted", "open"}
    <3>1. Phase(c)' = "open" /\ Phase(c) \in {"unrouted", "open"}
      BY <1>0, <1>2 DEF Opens, TypeOK, Phase
    <3> QED
      BY <2>1, <3>1, PhasesChange DEF phases
  <2>3. CASE phases[c] = "unrouted"
    <3>1. Lifecycle!Open(c)
      BY <1>2, <2>2, <2>3 DEF Opens, bookings, Lifecycle!Open, phases
    <3> QED
      BY <3>1 DEF Lifecycle!Next
  <2>4. CASE phases[c] = "open"
    <3>1. phases' = phases
      BY <2>2, <2>4 DEF phases
    <3> QED
      BY <1>2, <3>1 DEF Opens, bookings, Lifecycle!vars, phases
  <2> QED
    BY <2>2, <2>3, <2>4
<1>3. ASSUME NEW c \in Case, Issues(c) PROVE Lifecycle!Next
  <2>1. \A d \in Case : d # c => Phase(d)' = Phase(d)
    <3> SUFFICES ASSUME NEW d \in Case, d # c
                 PROVE  decision'[d] = decision[d] /\ pending'[d] = pending[d] /\ status'[d] = status[d]
      BY PhaseSame
    <3> QED
      BY <1>0, <1>3 DEF Issues, TypeOK
  <2>2. Phase(c)' = "projecting"
    <3>1. decision'[c] \notin {"NONE", "OPEN"}
      BY <1>0, <1>3 DEF Issues, TypeOK, Owners
    <3>2. pending'[c] # 0 /\ status'[c] \in Live
      BY <1>0, <1>3, BoundAssumption DEF Issues, TypeOK, Live
    <3> QED
      BY <3>1, <3>2 DEF Phase, Current
  <2>3. Phase(c) \in {"unrouted", "open", "projecting", "blocked"}
    <3>1. CASE decision[c] \in {"NONE", "OPEN"}
      BY <3>1 DEF Phase
    <3>2. CASE decision[c] \notin {"NONE", "OPEN"}
      BY <1>3, <3>2 DEF Issues, Phase
    <3> QED
      BY <3>1, <3>2
  <2>4. phases' = [phases EXCEPT ![c] = "projecting"]
    BY <2>1, <2>2, PhasesChange
  <2>5. Lifecycle!Decided(c) \/ Lifecycle!Requeue(c)
    BY <1>3, <2>3, <2>4
       DEF Issues, bookings, Lifecycle!Decided, Lifecycle!Requeue, phases
  <2> QED
    BY <2>5 DEF Lifecycle!Next
<1>4. ASSUME NEW c \in Case, Books(c) PROVE Lifecycle!Next
  <2>1. phases' = phases
    BY <1>4, PhaseSame, PhasesSame DEF Books, course
  <2>2. Phase(c) = "projecting" /\ pending[c] = issued[c]
    BY <1>0, <1>4 DEF Books, Ongoing, Fenced, Fence, Phase, Current
  <2>3. Lifecycle!Book(c)
    BY <1>4, <2>1, <2>2 DEF Books, course, Lifecycle!Book, phases
  <2> QED
    BY <2>3 DEF Lifecycle!Next
<1>5. ASSUME NEW c \in Case, Blocks(c) PROVE Lifecycle!Next
  <2>1. \A d \in Case : d # c => Phase(d)' = Phase(d)
    BY <1>0, <1>5, PhaseSame DEF Blocks, TypeOK
  <2>2. decision[c] \notin {"NONE", "OPEN"} /\ pending[c] # 0 /\ status[c] \in Live
    BY <1>0, <1>5 DEF Blocks, Ongoing, Fenced, Fence
  <2>3. Phase(c) = "projecting"
    BY <2>2 DEF Phase, Current
  <2>4. Phase(c)' = "blocked"
    <3>1. status'[c] \notin Live /\ decision'[c] = decision[c] /\ pending'[c] = pending[c]
      BY <1>0, <1>5 DEF Blocks, TypeOK, Live
    <3> QED
      BY <2>2, <3>1 DEF Phase, Current
  <2>5. phases' = [phases EXCEPT ![c] = "blocked"]
    BY <2>1, <2>4, PhasesChange
  <2>6. Lifecycle!Block(c)
    BY <1>5, <2>3, <2>5 DEF Blocks, bookings, Lifecycle!Block, phases
  <2> QED
    BY <2>6 DEF Lifecycle!Next
<1>6. ASSUME NEW c \in Case, Settles(c) PROVE Lifecycle!Next
  <2>1. \A d \in Case : d # c => Phase(d)' = Phase(d)
    <3> SUFFICES ASSUME NEW d \in Case, d # c
                 PROVE  decision'[d] = decision[d] /\ pending'[d] = pending[d] /\ status'[d] = status[d]
      BY PhaseSame
    <3> QED
      BY <1>0, <1>6 DEF Settles, TypeOK
  <2>2. decision[c] \notin {"NONE", "OPEN"} /\ pending[c] # 0 /\ status[c] \in Live
    BY <1>0, <1>6 DEF Settles, Ongoing, Fenced, Fence
  <2>3. Phase(c) = "projecting" /\ pending[c] = issued[c]
    BY <1>0, <2>2 DEF Phase, Current, Fenced, Fence
  <2>4. Phase(c)' = "settled"
    <3>1. decision'[c] = decision[c] /\ pending'[c] = 0
      BY <1>0, <1>6 DEF Settles, TypeOK
    <3> QED
      BY <2>2, <3>1 DEF Phase
  <2>5. phases' = [phases EXCEPT ![c] = "settled"]
    BY <2>1, <2>4, PhasesChange
  <2>6. Lifecycle!Settle(c)
    BY <1>6, <2>3, <2>5 DEF Settles, bookings, Lifecycle!Settle, phases
  <2> QED
    BY <2>6 DEF Lifecycle!Next
<1> QED
  BY <1>1, <1>2, <1>3, <1>4, <1>5, <1>6, Steps DEF Tells

LEMMA LifecycleInit == Init => Lifecycle!Init
BY DEF Init, Lifecycle!Init, Phase

\* Fund routing keeps what CaseLifecycle promises, for any number of movements,
\* workers, commands, attempts and crashes: a movement is booked at most once and
\* only by the command whose turn it is, a case is settled once and on an exact booking.
THEOREM RoutingImplementsLifecycle == Spec => ImplementsLifecycle
  BY LifecycleInit, LifecycleStep, InvHolds, PTL DEF Spec, ImplementsLifecycle, Lifecycle!Spec

-----------------------------------------------------------------------------
\* What the promise means for a movement.

\* The history of a booking agrees with its ledger and with the commands issued; a closed
\* case has a decision, no command that is pending, and the exact booking it was closed on.
History(c) ==
  /\ booked[c] = "none" <=> bookedBy[c] = 0
  /\ bookedBy[c] <= issued[c]
  /\ result[c] # 0 =>
       /\ decision[c] \notin {"NONE", "OPEN"} /\ pending[c] = 0
       /\ booked[c] = "exact" /\ result[c] = issued[c]
Histories == \A c \in Case : History(c)

LEMMA HistoryInit == Init => Histories
<1> SUFFICES ASSUME Init, NEW c \in Case PROVE History(c)
  BY DEF Histories
<1>1. booked[c] = "none" /\ bookedBy[c] = 0 /\ issued[c] = 0 /\ result[c] = 0
  BY DEF Init
<1> QED
  BY <1>1 DEF History

\* Each of the five steps keeps the record of its case, and touches no other.
LEMMA HistoryNext == Inv /\ Histories /\ [Next]_vars => Histories'
<1> SUFFICES ASSUME Inv, Histories, [Next]_vars, NEW d \in Case PROVE History(d)'
  BY DEF Histories
<1>1. TypeOK /\ Fence(d) /\ History(d)
  BY DEF Inv, Fenced, Histories
<1>2. /\ issued[d] \in Nat /\ pending[d] \in Nat /\ bookedBy[d] \in Nat /\ result[d] \in Nat
      /\ pending[d] # 0 => pending[d] = issued[d]
  BY <1>1 DEF TypeOK, Fence
<1>3. CASE Quiet
  BY <1>1, <1>3 DEF Quiet, bookings, History
<1>4. ASSUME NEW c \in Case, Opens(c) PROVE History(d)'
  BY <1>1, <1>4 DEF Opens, bookings, History, TypeOK
<1>5. ASSUME NEW c \in Case, Issues(c) PROVE History(d)'
  <2>1. CASE d = c
    <3>1. result[d] = 0
      BY <1>1, <1>5, <2>1 DEF Issues, History
    <3>2. issued'[d] = issued[d] + 1
      BY <1>1, <1>5, <2>1 DEF Issues, TypeOK
    <3> QED
      BY <1>1, <1>2, <1>5, <3>1, <3>2 DEF Issues, bookings, History
  <2>2. CASE d # c
    BY <1>1, <1>5, <2>2 DEF Issues, bookings, History, TypeOK
  <2> QED
    BY <2>1, <2>2
<1>6. ASSUME NEW c \in Case, Books(c) PROVE History(d)'
  <2>1. CASE d = c
    <3>1. pending[d] # 0 /\ booked'[d] # "none" /\ bookedBy'[d] = pending[d]
      BY <1>1, <1>6, <2>1 DEF Books, Ongoing, TypeOK
    <3> QED
      BY <1>1, <1>2, <1>6, <3>1 DEF Books, course, History
  <2>2. CASE d # c
    BY <1>1, <1>6, <2>2 DEF Books, course, History, TypeOK
  <2> QED
    BY <2>1, <2>2
<1>7. ASSUME NEW c \in Case, Blocks(c) PROVE History(d)'
  BY <1>1, <1>7 DEF Blocks, bookings, History
<1>8. ASSUME NEW c \in Case, Settles(c) PROVE History(d)'
  <2>1. CASE d = c
    <3>1. pending[d] # 0 /\ booked[d] = "exact" /\ pending'[d] = 0 /\ result'[d] = pending[d]
      BY <1>1, <1>8, <2>1 DEF Settles, Ongoing, TypeOK
    <3> QED
      BY <1>1, <1>2, <1>8, <3>1 DEF Settles, bookings, History, Fence
  <2>2. CASE d # c
    BY <1>1, <1>8, <2>2 DEF Settles, bookings, History, TypeOK
  <2> QED
    BY <2>1, <2>2
<1> QED
  BY <1>3, <1>4, <1>5, <1>6, <1>7, <1>8, Steps DEF Tells

LEMMA HistoryHolds == Spec => []Histories
  BY HistoryInit, HistoryNext, InvHolds, PTL DEF Spec

\* A case is closed only on a booking of the movement as it was routed, made by the command
\* that closes it or by one before it.
ClosedOnBooking ==
  \A c \in Case : result[c] # 0 => booked[c] = "exact" /\ bookedBy[c] \in 1..result[c]

\* However many commands are issued for a movement, the booking it was closed on belongs to
\* one that was the case's own.
THEOREM ClosingsAreBooked == Spec => []ClosedOnBooking
<1>1. Inv /\ Histories => ClosedOnBooking
  <2> SUFFICES ASSUME Inv, Histories, NEW c \in Case, result[c] # 0
               PROVE  booked[c] = "exact" /\ bookedBy[c] \in 1..result[c]
    BY DEF ClosedOnBooking
  <2>1. History(c) /\ bookedBy[c] \in Nat /\ result[c] \in Nat
    BY DEF Inv, TypeOK, Histories
  <2> QED
    BY <2>1 DEF History
<1> QED
  BY <1>1, InvHolds, HistoryHolds, PTL

\* A booking is never made again nor replaced, and a closed case never opened, blocked or
\* given another command: not by a late worker, the reconciler, new facts or the operator.
KeptForGood ==
  [][\A c \in Case :
       /\ booked[c] # "none" => booked'[c] = booked[c] /\ bookedBy'[c] = bookedBy[c]
       /\ result[c] # 0 =>
            /\ result'[c] = result[c] /\ decision'[c] = decision[c]
            /\ pending'[c] = 0 /\ issued'[c] = issued[c]]_vars

\* What a ledger has booked and what routing has closed stays so in every later step.
THEOREM BookedAndClosedForGood == Spec => KeptForGood
<1>1. Inv /\ Histories /\ [Next]_vars =>
        [\A c \in Case :
           /\ booked[c] # "none" => booked'[c] = booked[c] /\ bookedBy'[c] = bookedBy[c]
           /\ result[c] # 0 =>
                /\ result'[c] = result[c] /\ decision'[c] = decision[c]
                /\ pending'[c] = 0 /\ issued'[c] = issued[c]]_vars
  <2> SUFFICES ASSUME Inv, Histories, [Next]_vars, NEW d \in Case
               PROVE  /\ booked[d] # "none" => booked'[d] = booked[d] /\ bookedBy'[d] = bookedBy[d]
                      /\ result[d] # 0 =>
                           /\ result'[d] = result[d] /\ decision'[d] = decision[d]
                           /\ pending'[d] = 0 /\ issued'[d] = issued[d]
    OBVIOUS
  <2>1. TypeOK /\ History(d)
    BY DEF Inv, Histories
  <2>2. CASE Quiet
    BY <2>1, <2>2 DEF Quiet, bookings, History
  <2>3. ASSUME NEW c \in Case, Opens(c) \/ Issues(c)
        PROVE  /\ UNCHANGED <<booked, bookedBy, result>>
               /\ result[d] # 0 => decision'[d] = decision[d] /\ pending'[d] = pending[d]
                                   /\ issued'[d] = issued[d]
    BY <2>1, <2>3 DEF Opens, Issues, bookings, History, TypeOK
  <2>4. ASSUME NEW c \in Case, Books(c)
        PROVE  /\ UNCHANGED <<decision, pending, issued, result>>
               /\ booked[d] # "none" => booked'[d] = booked[d] /\ bookedBy'[d] = bookedBy[d]
    BY <2>1, <2>4 DEF Books, course, TypeOK
  <2>5. ASSUME NEW c \in Case, Blocks(c) \/ Settles(c)
        PROVE  /\ UNCHANGED <<booked, bookedBy, decision, issued>>
               /\ result[d] # 0 => result'[d] = result[d] /\ pending'[d] = pending[d]
    BY <2>1, <2>5 DEF Blocks, Settles, Ongoing, bookings, History, TypeOK
  <2> QED
    BY <2>1, <2>2, <2>3, <2>4, <2>5, Steps DEF Tells, History
<1> QED
  BY <1>1, InvHolds, HistoryHolds, PTL DEF Spec, KeptForGood
=============================================================================
