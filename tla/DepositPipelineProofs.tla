------------------------ MODULE DepositPipelineProofs ------------------------
(***************************************************************************)
(* Proofs about the deposit pipeline, for any sets of transactions,        *)
(* customers, workers and events. The rows come first: what each statement *)
(* does to one deposit row. Every step is then shown to change at most one *)
(* row, in one of two ways, and the properties of deposits and of the      *)
(* ledger follow from that alone.                                          *)
(***************************************************************************)
EXTENDS DepositPipeline, TLAPS

-----------------------------------------------------------------------------
\* The KYT disposition, for report lists of every length

\* A report of a list has a status and a level the code can meet.
LEMMA ReportAt ==
  ASSUME NEW list \in Reports, NEW i \in DOMAIN list
  PROVE  list[i].status \in ReportStatuses /\ list[i].risk \in RiskLevels
<1>1. list[i] \in Report
  BY DEF Reports
<1> QED
  BY <1>1 DEF Report

\* A nonempty set of levels has one that no other exceeds: the CHOOSE of
\* WorstLevel is of that level (SummarizeRiskLevel's scan has a result).
LEMMA WorstExists ==
  ASSUME NEW S \in SUBSET RiskLevels, S # {}
  PROVE  \E l \in S : \A m \in S : riskSeverity(m) <= riskSeverity(l)
<1>1. CASE "SEVERE" \in S
  BY <1>1 DEF RiskLevels, riskSeverity
<1>2. CASE "SEVERE" \notin S /\ "HIGH" \in S
  BY <1>2 DEF RiskLevels, riskSeverity
<1>3. CASE "SEVERE" \notin S /\ "HIGH" \notin S /\ "UNKNOWN" \in S
  BY <1>3 DEF RiskLevels, riskSeverity
<1>4. CASE "SEVERE" \notin S /\ "HIGH" \notin S /\ "OTHER" \in S
  BY <1>4 DEF RiskLevels, riskSeverity
<1>5. CASE S \subseteq {"LOW", "MEDIUM"} /\ "MEDIUM" \in S
  BY <1>5 DEF RiskLevels, riskSeverity
<1>6. CASE S \subseteq {"LOW"}
  BY <1>6 DEF RiskLevels, riskSeverity
<1> QED
  BY <1>1, <1>2, <1>3, <1>4, <1>5, <1>6 DEF RiskLevels

\* The worst level of a list is one of its finished reports' and exceeds none.
LEMMA WorstIsMax ==
  ASSUME NEW list \in Reports, CompletedLevels(list) # {}
  PROVE  /\ WorstLevel(list) \in CompletedLevels(list)
         /\ WorstLevel(list) \in RiskLevels
         /\ \A m \in CompletedLevels(list) :
              riskSeverity(m) <= riskSeverity(WorstLevel(list))
<1>1. CompletedLevels(list) \in SUBSET RiskLevels
  BY ReportAt DEF CompletedLevels
<1>2. \E l \in CompletedLevels(list) :
        \A m \in CompletedLevels(list) : riskSeverity(m) <= riskSeverity(l)
  BY <1>1, WorstExists
<1> QED
  BY <1>1, <1>2 DEF WorstLevel

\* The summary stored in aml_risk_level is one of the listed values.
LEMMA SummaryType ==
  ASSUME NEW list \in Reports
  PROVE  SummarizeRiskLevel(list) \in Summaries
<1>1. WorstLevel(list) \in RiskLevels
  <2>1. CASE CompletedLevels(list) = {}
    BY <2>1 DEF WorstLevel, RiskLevels
  <2>2. CASE CompletedLevels(list) # {}
    BY <2>2, WorstIsMax
  <2> QED BY <2>1, <2>2
<1> QED
  BY <1>1 DEF SummarizeRiskLevel, Summaries

\* A decision is one of the three dispositions.
LEMMA DecisionType ==
  ASSUME NEW state, NEW list, NEW afterTimeout \in BOOLEAN
  PROVE  DecideKYT(state, list, afterTimeout) \in Actions
  BY DEF DecideKYT, Actions

\* After the timeout a deposit does not wait any longer (K-19).
THEOREM TimeoutDecides ==
  ASSUME NEW state, NEW list
  PROVE  DecideKYT(state, list, TRUE) \in {"CREDIT", "MANUAL_REVIEW"}
  BY DEF DecideKYT

\* What a LOW summary says of the reports, whatever their number: each finished
\* one is LOW, and none is pending, failed or skipped.
LEMMA LowMeansClear ==
  ASSUME NEW list \in Reports, SummarizeRiskLevel(list) = "LOW"
  PROVE  /\ list # <<>>
         /\ \A i \in DOMAIN list :
              \/ list[i].status = "COMPLETED" /\ list[i].risk = "LOW"
              \/ list[i].status = "OTHER"
<1>1. list # <<>> /\ ~Has(list, "PENDING") /\ ~Has(list, "FAILED")
      /\ ~Has(list, "SKIPPED") /\ WorstLevel(list) = "LOW"
  BY DEF SummarizeRiskLevel
<1>2. ASSUME NEW i \in DOMAIN list, list[i].status = "COMPLETED"
      PROVE  list[i].risk = "LOW"
  <2>1. list[i].risk \in CompletedLevels(list)
    BY <1>2 DEF CompletedLevels
  <2>2. list[i].risk \in RiskLevels
    BY <1>2, ReportAt
  <2>3. riskSeverity(list[i].risk) <= riskSeverity("LOW")
    BY <1>1, <2>1, WorstIsMax
  <2> QED
    BY <2>2, <2>3 DEF RiskLevels, riskSeverity
<1>3. \A i \in DOMAIN list : list[i].status \in ReportStatuses
  BY ReportAt
<1> QED
  BY <1>1, <1>2, <1>3 DEF Has, ReportStatuses

\* The converse: a nonempty list of such reports is LOW.
LEMMA ClearMeansLow ==
  ASSUME NEW list \in Reports, list # <<>>,
         \A i \in DOMAIN list :
           \/ list[i].status = "COMPLETED" /\ list[i].risk = "LOW"
           \/ list[i].status = "OTHER"
  PROVE  SummarizeRiskLevel(list) = "LOW"
<1>1. ~Has(list, "PENDING") /\ ~Has(list, "FAILED") /\ ~Has(list, "SKIPPED")
  BY DEF Has
<1>2. WorstLevel(list) = "LOW"
  <2>1. CASE CompletedLevels(list) = {}
    BY <2>1 DEF WorstLevel
  <2>2. CASE CompletedLevels(list) # {}
    BY <2>2, WorstIsMax DEF CompletedLevels
  <2> QED BY <2>1, <2>2
<1> QED
  BY <1>1, <1>2 DEF SummarizeRiskLevel

\* Credit is decided only on a LOW summary.
LEMMA CreditMeansLow ==
  ASSUME NEW state, NEW list, NEW afterTimeout \in BOOLEAN,
         DecideKYT(state, list, afterTimeout) = "CREDIT"
  PROVE  SummarizeRiskLevel(list) = "LOW"
  BY DEF DecideKYT

\* The summary stored with the deposit covers a prefix of the list the decision
\* was taken on (writeAMLFields truncates, DecideKYT does not); when the decision
\* is credit, the stored summary says LOW all the same.
THEOREM PrefixOfLowIsLow ==
  ASSUME NEW list \in Reports, NEW n \in Nat \ {0}, n <= Len(list),
         SummarizeRiskLevel(list) = "LOW"
  PROVE  SummarizeRiskLevel(SubSeq(list, 1, n)) = "LOW"
<1> DEFINE prefix == SubSeq(list, 1, n)
<1>1. /\ prefix \in Reports
      /\ prefix # <<>>
      /\ DOMAIN prefix = 1..n
      /\ \A i \in 1..n : prefix[i] = list[i]
  BY DEF Reports
<1>2. \A i \in DOMAIN prefix : i \in DOMAIN list
  BY <1>1 DEF Reports
<1>3. \A i \in DOMAIN prefix :
        \/ prefix[i].status = "COMPLETED" /\ prefix[i].risk = "LOW"
        \/ prefix[i].status = "OTHER"
  BY <1>1, <1>2, LowMeansClear
<1> HIDE DEF prefix
<1> QED
  BY <1>1, <1>3, ClearMeansLow DEF prefix

-----------------------------------------------------------------------------
\* Events

\* The type of an event tells which payload it has.
LEMMA EventKinds ==
  ASSUME NEW e \in Event
  PROVE  /\ e.type = "TRANSACTION" => e \in TransactionEvent
         /\ e.type = "AML_KYT_ALERT" => e \in AlertEvent
  BY EventAssumption DEF TransactionEvent, AlertEvent, UnhandledEvent

\* An event that HandleTransaction may store is a transaction with an owner, an amount and a
\* provider status.
LEMMA StorableEvent ==
  ASSUME NEW e \in Event, Storable(e)
  PROVE  /\ e \in TransactionEvent
         /\ e.owner \in User /\ e.tx \in Tx /\ e.amount \in Nat
         /\ e.status \in ProviderStatus
<1>1. e.type = "TRANSACTION" /\ e.owner # NoUser
  BY DEF Storable, Owned, ForCustomer
<1>2. e \in TransactionEvent
  BY <1>1, EventKinds
<1> QED
  BY <1>1, <1>2 DEF TransactionEvent

\* The reports of an alert are reports once the missing statuses are filled in.
LEMMA AlertReportsType ==
  ASSUME NEW e \in Event, e.type = "AML_KYT_ALERT"
  PROVE  e.tx \in Tx /\ AlertReports(e.list) \in Reports
<1> DEFINE Raw == [status: ReportStatuses \cup {""}, risk: RiskLevels]
           Filled(r) == [r EXCEPT !.status = IF @ = "" THEN "COMPLETED" ELSE @]
<1>1. e.tx \in Tx /\ e.list \in Seq(Raw)
  BY EventKinds DEF AlertEvent
<1>2. ASSUME NEW r \in Raw PROVE Filled(r) \in Report
  BY DEF Report, ReportStatuses
<1>3. AlertReports(e.list) = [i \in DOMAIN e.list |-> Filled(e.list[i])]
  BY DEF AlertReports
<1> HIDE DEF Raw, Filled
<1>4. \A i \in DOMAIN e.list : e.list[i] \in Raw
  BY <1>1
<1>5. [i \in DOMAIN e.list |-> Filled(e.list[i])] \in Seq(Report)
  BY <1>1, <1>2, <1>4
<1> QED
  BY <1>1, <1>3, <1>5 DEF Reports

\* What is stored of a list is a list of reports too.
LEMMA TruncatedType ==
  ASSUME NEW list \in Reports
  PROVE  /\ Truncated(list) \in Reports
         /\ SummarizeRiskLevel(list) = "LOW" => SummarizeRiskLevel(Truncated(list)) = "LOW"
<1>1. CASE Len(list) > MaxAmlEntries
  <2>1. MaxAmlEntries \in Nat \ {0} /\ MaxAmlEntries <= Len(list)
    BY <1>1, BoundAssumption DEF Reports
  <2>2. Truncated(list) = SubSeq(list, 1, MaxAmlEntries)
    BY <1>1 DEF Truncated
  <2>3. SubSeq(list, 1, MaxAmlEntries) \in Reports
    BY <2>1 DEF Reports
  <2> QED
    BY <2>1, <2>2, <2>3, PrefixOfLowIsLow
<1>2. CASE ~(Len(list) > MaxAmlEntries)
  BY <1>2 DEF Truncated
<1> QED BY <1>1, <1>2
-----------------------------------------------------------------------------
\* Rows

\* Every provider status, listed or not, has a rank.
LEMMA RankType ==
  ASSUME NEW status
  PROVE  StatusRank(status) \in Nat
  BY DEF StatusRank

\* The updates the statements make keep a row a row.
LEMMA RowUpdates ==
  ASSUME NEW row \in DepositRow, NEW age \in 0..2
  PROVE  /\ \A status \in DepositStatus :
              [row EXCEPT !.status = status, !.age = age] \in DepositRow
         /\ \A aml \in Summaries : [row EXCEPT !.aml = aml, !.age = age] \in DepositRow
         /\ \A amount, rank \in Nat :
              [row EXCEPT !.amount = amount, !.rank = rank, !.age = age] \in DepositRow
<1>1. ASSUME NEW status \in DepositStatus
      PROVE  [row EXCEPT !.status = status, !.age = age] \in DepositRow
  BY Zenon DEF DepositRow
<1>2. ASSUME NEW aml \in Summaries
      PROVE  [row EXCEPT !.aml = aml, !.age = age] \in DepositRow
  <2>1. aml \in Summaries \cup {"NULL"}
    OBVIOUS
  <2> QED
    BY <2>1, Zenon DEF DepositRow
<1>3. ASSUME NEW amount \in Nat, NEW rank \in Nat
      PROVE  [row EXCEPT !.amount = amount, !.rank = rank, !.age = age] \in DepositRow
  BY Zenon DEF DepositRow
<1> QED
  BY <1>1, <1>2, <1>3

\* The age of a row just written is an age.
LEMMA FreshAge == Fresh \in 0..2
  BY DEF Fresh

\* What the upsert keeps: a row that exists keeps its status and its customer, and its rank never
\* falls.
LEMMA UpsertRow ==
  ASSUME NEW row \in DepositRow, NEW e \in Event, Storable(e),
         NEW status \in {"PENDING", "MANUAL_REVIEW"}
  PROVE  /\ UpsertDeposit(row, e, status) \in DepositRow
         /\ row.status = "ABSENT" =>
              /\ UpsertDeposit(row, e, status).status = status
              /\ UpsertDeposit(row, e, status).user \in User
         /\ row.status # "ABSENT" =>
              /\ UpsertDeposit(row, e, status).status = row.status
              /\ UpsertDeposit(row, e, status).user = row.user
              /\ UpsertDeposit(row, e, status).rank >= row.rank
<1>1. e.owner \in User /\ e.amount \in Nat /\ StatusRank(e.status) \in Nat
  BY StorableEvent, RankType
<1> DEFINE new == UpsertDeposit(row, e, status)
<1>2. CASE row.status = "ABSENT"
  <2>1. new = [status |-> status, user |-> e.owner, amount |-> e.amount,
               rank |-> StatusRank(e.status), aml |-> "NULL", age |-> Fresh]
    BY <1>2 DEF UpsertDeposit
  <2>2. new \in DepositRow
    BY <1>1, <2>1, FreshAge DEF DepositRow, DepositStatus
  <2> QED
    BY <1>1, <1>2, <2>1, <2>2
<1>3. CASE row.status # "ABSENT" /\ row.rank <= StatusRank(e.status)
  <2>1. new = [row EXCEPT !.amount = e.amount, !.rank = StatusRank(e.status), !.age = Fresh]
    BY <1>3 DEF UpsertDeposit
  <2>2. [row EXCEPT !.amount = e.amount, !.rank = StatusRank(e.status), !.age = Fresh]
          \in DepositRow
    BY <1>1, RowUpdates, FreshAge, Zenon
  <2> QED
    BY <1>1, <1>3, <2>1, <2>2 DEF DepositRow
<1>4. CASE row.status # "ABSENT" /\ ~(row.rank <= StatusRank(e.status))
  BY <1>4 DEF UpsertDeposit, DepositRow
<1> QED
  BY <1>2, <1>3, <1>4

\* What a guarded status update keeps: every column but the status, which changes only out of the
\* guard.
LEMMA MoveRow ==
  ASSUME NEW row \in DepositRow, NEW from, NEW to \in DepositStatus
  PROVE  /\ Move(row, from, to) \in DepositRow
         /\ Move(row, from, to).user = row.user
         /\ Move(row, from, to).rank = row.rank
         /\ Move(row, from, to).aml = row.aml
         /\ Move(row, from, to).amount = row.amount
         /\ row.status \in from => Move(row, from, to).status = to
         /\ row.status \notin from => Move(row, from, to).status = row.status
<1>1. Move(row, from, to) \in DepositRow
  BY RowUpdates, FreshAge DEF Move
<1> QED
  BY <1>1 DEF Move, DepositRow

\* What a screening write keeps: status, customer and rank; a LOW list is stored as a LOW summary.
LEMMA AMLRow ==
  ASSUME NEW row \in DepositRow, NEW list \in Reports
  PROVE  /\ writeAMLFields(row, list) \in DepositRow
         /\ writeAMLFields(row, list).status = row.status
         /\ writeAMLFields(row, list).user = row.user
         /\ writeAMLFields(row, list).rank = row.rank
         /\ SummarizeRiskLevel(list) = "LOW" => writeAMLFields(row, list).aml = "LOW"
<1>1. /\ Truncated(list) \in Reports
      /\ SummarizeRiskLevel(list) = "LOW" => SummarizeRiskLevel(Truncated(list)) = "LOW"
  BY TruncatedType
<1>2. SummarizeRiskLevel(Truncated(list)) \in Summaries
  BY <1>1, SummaryType
<1>3. writeAMLFields(row, list) \in DepositRow
  BY <1>2, RowUpdates, FreshAge DEF writeAMLFields
<1> QED
  BY <1>1, <1>3 DEF writeAMLFields, DepositRow
-----------------------------------------------------------------------------
\* One step, one row

\* A row that exists names its customer; a row is under screening only when
\* screening is enabled.
Rows ==
  \A t \in Tx :
    /\ deposit[t].status # "ABSENT" => deposit[t].user \in User
    /\ deposit[t].status = "ABSENT" => deposit[t].rank = 0
    /\ deposit[t].status = "KYT_PENDING" => KytEnabled

\* What a worker holds: a claimed event is PENDING, an asked-about row exists.
Claims ==
  \A w \in Worker :
    /\ worker[w].step \in {"tx", "mark"} => worker[w].event \in Event
    /\ worker[w].step = "tx" => event[worker[w].event].process = "PENDING"
    /\ worker[w].step \in {"kytApi", "amlApi"} =>
         worker[w].tx \in Tx /\ deposit[worker[w].tx].status # "ABSENT"

\* The row a transaction works on, before a status is written: the stored one
\* with its tracking or screening fields updated, or a new one.
Working(t, row) ==
  /\ row \in DepositRow /\ row.status # "ABSENT" /\ row.user \in User
  /\ row.rank >= deposit[t].rank
  /\ IF deposit[t].status = "ABSENT"
     THEN row.status \in {"PENDING", "MANUAL_REVIEW"}
     ELSE row.status = deposit[t].status /\ row.user = deposit[t].user

\* Row t, and no other, moves on along the status order.
Advance(t) ==
  /\ deposit' = [deposit EXCEPT ![t] = deposit'[t]]
  /\ deposit'[t] \in DepositRow /\ deposit'[t].status # "ABSENT"
  /\ deposit'[t].user \in User /\ deposit'[t].rank >= deposit[t].rank
  /\ deposit[t].status # "ABSENT" => deposit'[t].user = deposit[t].user
  /\ deposit[t].status \in TerminalStatus => deposit'[t].status = deposit[t].status
  /\ deposit[t].status = "KYT_PENDING" => deposit'[t].status # "PENDING"
  /\ deposit'[t].status = "KYT_PENDING" => KytEnabled

\* It is not credited, and the ledger is left alone.
RowChange(t) ==
  /\ Advance(t)
  /\ deposit'[t].status = "CREDITED" => deposit[t].status = "CREDITED"
  /\ UNCHANGED account

\* It is credited, out of screening where there is screening, and posted.
RowCredit(t) ==
  /\ Advance(t)
  /\ deposit[t].status \notin TerminalStatus /\ deposit'[t].status = "CREDITED"
  /\ IF KytEnabled
     THEN deposit[t].status = "KYT_PENDING" /\ deposit'[t].aml = "LOW"
     ELSE deposit[t].status # "KYT_PENDING"
  /\ account' = [account EXCEPT ![deposit'[t].user] =
                   Credited(@, t, deposit'[t].amount)]

\* The row HandleTransaction goes on with, after its upsert, is one a transaction may write.
LEMMA UpsertedWorking ==
  ASSUME TypeOK, Rows, NEW e \in Event, Storable(e)
  PROVE  e.tx \in Tx /\ Working(e.tx, Upserted(e))
<1> DEFINE status == IF NeedsReview(e) THEN "MANUAL_REVIEW" ELSE "PENDING"
<1>1. e.tx \in Tx /\ status \in {"PENDING", "MANUAL_REVIEW"}
  BY StorableEvent
<1>2. deposit[e.tx] \in DepositRow
  BY <1>1 DEF TypeOK
<1>3. Upserted(e) = UpsertDeposit(deposit[e.tx], e, status)
  BY DEF Upserted
<1> HIDE DEF status
<1>4. /\ Upserted(e) \in DepositRow
      /\ deposit[e.tx].status = "ABSENT" =>
           Upserted(e).status = status /\ Upserted(e).user \in User
      /\ deposit[e.tx].status # "ABSENT" =>
           /\ Upserted(e).status = deposit[e.tx].status
           /\ Upserted(e).user = deposit[e.tx].user
           /\ Upserted(e).rank >= deposit[e.tx].rank
  BY <1>1, <1>2, <1>3, UpsertRow
<1>5. Upserted(e).rank \in Nat
  BY <1>4 DEF DepositRow
<1> QED
  BY <1>1, <1>4, <1>5 DEF Working, Rows

\* The row a screening goes on with, after it stored the reports, is one a transaction may write.
LEMMA AMLWorking ==
  ASSUME TypeOK, Rows, NEW t \in Tx, NEW list \in Reports, deposit[t].status # "ABSENT"
  PROVE  Working(t, writeAMLFields(deposit[t], list))
<1>1. deposit[t] \in DepositRow /\ deposit[t].rank \in Nat
  BY DEF TypeOK, DepositRow
<1> QED
  BY <1>1, AMLRow DEF Working, Rows

\* A working row written as it is, or with a new status, is a change of the row.
LEMMA WriteIsChange ==
  ASSUME TypeOK, Rows, NEW t \in Tx, NEW row, Working(t, row),
         deposit' = [deposit EXCEPT ![t] = row], UNCHANGED account
  PROVE  RowChange(t)
<1>1. deposit'[t] = row
  BY DEF TypeOK
<1> QED
  BY <1>1 DEF Working, RowChange, Advance, Rows, TerminalStatus

\* A transaction that ends with one of the guarded status updates changes one row and no account.
LEMMA MoveIsChange ==
  ASSUME TypeOK, Rows, NEW t \in Tx, NEW row, Working(t, row), UNCHANGED account,
         \/ deposit' = [deposit EXCEPT ![t] = MarkDepositFailed(row)]
         \/ deposit' = [deposit EXCEPT ![t] = MarkDepositManualReview(row)]
         \/ KytEnabled /\ deposit' = [deposit EXCEPT ![t] = MoveToKYTPending(row)]
  PROVE  RowChange(t)
<1> DEFINE Moved(from, to) ==
             /\ deposit'[t] \in DepositRow
             /\ deposit'[t].user = row.user /\ deposit'[t].rank = row.rank
             /\ deposit'[t].status = IF row.status \in from THEN to ELSE row.status
<1>0. row \in DepositRow /\ row.status \in DepositStatus
      /\ {"FAILED", "MANUAL_REVIEW", "KYT_PENDING"} \subseteq DepositStatus
  BY DEF Working, DepositRow, DepositStatus
<1>1. ASSUME deposit' = [deposit EXCEPT ![t] = MarkDepositFailed(row)]
      PROVE  RowChange(t)
  <2>1. deposit'[t] = MarkDepositFailed(row)
    BY <1>1 DEF TypeOK
  <2>2. Moved({"PENDING", "KYT_PENDING", "FAILED"}, "FAILED")
    BY <1>0, <2>1, MoveRow DEF MarkDepositFailed
  <2>3. deposit' = [deposit EXCEPT ![t] = deposit'[t]]
    BY <1>1, <2>1
  <2> QED
    BY <1>0, <2>2, <2>3
    DEF Working, RowChange, Advance, Rows, TerminalStatus
<1>2. ASSUME deposit' = [deposit EXCEPT ![t] = MarkDepositManualReview(row)]
      PROVE  RowChange(t)
  <2>1. deposit'[t] = MarkDepositManualReview(row)
    BY <1>2 DEF TypeOK
  <2>2. Moved({"PENDING", "KYT_PENDING", "MANUAL_REVIEW"}, "MANUAL_REVIEW")
    BY <1>0, <2>1, MoveRow DEF MarkDepositManualReview
  <2>3. deposit' = [deposit EXCEPT ![t] = deposit'[t]]
    BY <1>2, <2>1
  <2> QED
    BY <1>0, <2>2, <2>3
    DEF Working, RowChange, Advance, Rows, TerminalStatus
<1>3. ASSUME KytEnabled, deposit' = [deposit EXCEPT ![t] = MoveToKYTPending(row)]
      PROVE  RowChange(t)
  <2>1. deposit'[t] = MoveToKYTPending(row)
    BY <1>3 DEF TypeOK
  <2>2. Moved({"PENDING"}, "KYT_PENDING")
    BY <1>0, <2>1, MoveRow DEF MoveToKYTPending
  <2>3. deposit' = [deposit EXCEPT ![t] = deposit'[t]]
    BY <1>3, <2>1
  <2> QED
    BY <1>3, <1>0, <2>2, <2>3
    DEF Working, RowChange, Advance, Rows, TerminalStatus
<1> QED
  BY <1>1, <1>2, <1>3

\* A transaction that ends with creditDepositFromRow credits one row that was cleared for it.
LEMMA CreditIsCredit ==
  ASSUME TypeOK, Rows, NEW t \in Tx, NEW row, Working(t, row),
         creditDepositFromRow(t, row),
         IF KytEnabled
         THEN row.status = "KYT_PENDING" /\ row.aml = "LOW"
         ELSE row.status = "PENDING"
  PROVE  RowCredit(t)
<1>1. row \in DepositRow /\ "CREDITED" \in DepositStatus
      /\ row.status \in {"PENDING", "KYT_PENDING"}
  BY DEF Working, DepositStatus
<1>2. deposit'[t] = MarkDepositCredited(row)
  BY DEF creditDepositFromRow, TypeOK
<1>3. /\ deposit'[t] \in DepositRow /\ deposit'[t].status = "CREDITED"
      /\ deposit'[t].user = row.user /\ deposit'[t].rank = row.rank
      /\ deposit'[t].amount = row.amount /\ deposit'[t].aml = row.aml
  BY <1>1, <1>2, MoveRow DEF MarkDepositCredited
<1>4. deposit' = [deposit EXCEPT ![t] = deposit'[t]]
  BY <1>2 DEF creditDepositFromRow
<1>5. account' = [account EXCEPT ![deposit'[t].user] =
                    Credited(@, t, deposit'[t].amount)]
  BY <1>3 DEF creditDepositFromRow
<1>6. deposit[t].status = "ABSENT" => row.status = "PENDING"
  BY <1>1 DEF Working
<1>7. Advance(t)
  BY <1>1, <1>3, <1>4 DEF Working, Advance, Rows, TerminalStatus
<1>8. deposit[t].status \notin TerminalStatus
  BY <1>1 DEF Working, TerminalStatus
<1>9. IF KytEnabled THEN deposit[t].status = "KYT_PENDING" ELSE deposit[t].status # "KYT_PENDING"
  BY <1>6 DEF Working
<1> QED
  BY <1>3, <1>5, <1>7, <1>8, <1>9 DEF RowCredit

\* An alert or a provider's answer, decided for a row under screening.
LEMMA ApplyIsStep ==
  ASSUME TypeOK, Rows, NEW t \in Tx, NEW state, NEW list \in Reports,
         NEW afterTimeout \in BOOLEAN, deposit[t].status = "KYT_PENDING",
         Apply(t, writeAMLFields(deposit[t], list), DecideKYT(state, list, afterTimeout))
  PROVE  RowChange(t) \/ RowCredit(t)
<1> DEFINE row == writeAMLFields(deposit[t], list)
           decision == DecideKYT(state, list, afterTimeout)
<1>1. Working(t, row)
  BY AMLWorking
<1>2. KytEnabled
  BY DEF Rows
<1>3. deposit[t] \in DepositRow
  BY DEF TypeOK
<1>4. row.status = "KYT_PENDING"
  BY <1>3, AMLRow
<1>5. decision = "CREDIT" => row.aml = "LOW"
  BY <1>3, AMLRow, CreditMeansLow
<1> HIDE DEF row, decision
<1>6. CASE decision = "CREDIT" /\ creditDepositFromRow(t, row)
  BY <1>1, <1>2, <1>4, <1>5, <1>6, CreditIsCredit
<1>7. CASE deposit' = [deposit EXCEPT ![t] = MarkDepositManualReview(row)] /\ UNCHANGED account
  BY <1>1, <1>7, MoveIsChange
<1>8. CASE deposit' = [deposit EXCEPT ![t] = row] /\ UNCHANGED account
  BY <1>1, <1>8, WriteIsChange
<1> QED
  BY <1>6, <1>7, <1>8 DEF Apply, row, decision

\* An alert for a row that is not under screening only records its fields.
LEMMA RecordIsStep ==
  ASSUME TypeOK, Rows, NEW t \in Tx, NEW list \in Reports, deposit[t].status # "ABSENT",
         Apply(t, writeAMLFields(deposit[t], list), "KEEP_PENDING")
  PROVE  RowChange(t)
<1>1. Working(t, writeAMLFields(deposit[t], list))
  BY AMLWorking
<1> QED
  BY <1>1, WriteIsChange DEF Apply

\* The answer of the screening provider changes one row, credits one, or does nothing.
LEMMA AnsweredIsStep ==
  ASSUME TypeOK, Rows, Claims, NEW w \in Worker, worker[w].step \in {"kytApi", "amlApi"},
         NEW report \in KytReport, NEW afterTimeout \in BOOLEAN,
         Answered(w, report, afterTimeout)
  PROVE  \/ UNCHANGED <<deposit, account>>
         \/ \E t \in Tx : RowChange(t) \/ RowCredit(t)
<1>1. worker[w].tx \in Tx
  BY DEF Claims
<1>2. report.list \in Reports
  BY ReportAssumption
<1>3. CASE deposit[worker[w].tx].status = "KYT_PENDING"
  BY <1>1, <1>2, <1>3, ApplyIsStep DEF Answered
<1>4. CASE deposit[worker[w].tx].status # "KYT_PENDING"
  BY <1>4 DEF Answered
<1> QED
  BY <1>3, <1>4
-----------------------------------------------------------------------------
\* Every step leaves deposits and ledger alone, changes one row or credits one.

Idle == UNCHANGED <<deposit, account>>
OneRow == Idle \/ \E t \in Tx : RowChange(t) \/ RowCredit(t)

\* Every way through HandleTransaction changes one row, credits one, or does nothing.
LEMMA IngestIsStep ==
  ASSUME TypeOK, Rows, Claims, NEW w \in Worker,
         \/ FlagManualReview(w) \/ IngestProgress(w) \/ IngestFailed(w)
         \/ IngestCredit(w) \/ IngestKYT(w)
  PROVE  OneRow
<1> DEFINE e == worker[w].event
<1>1. e \in Event /\ Storable(e)
  BY DEF Claims, FlagManualReview, IngestProgress, IngestFailed, IngestCredit,
         IngestKYT, Ingest, InTx
<1>2. e.tx \in Tx /\ Working(e.tx, Upserted(e))
  BY <1>1, UpsertedWorking
<1> HIDE DEF e
<1>3. CASE FlagManualReview(w)
  BY <1>2, <1>3, MoveIsChange DEF FlagManualReview, OneRow, e
<1>4. CASE IngestProgress(w)
  BY <1>2, <1>4, WriteIsChange DEF IngestProgress, OneRow, e
<1>5. CASE IngestFailed(w)
  BY <1>2, <1>5, MoveIsChange DEF IngestFailed, OneRow, e
<1>6. CASE IngestKYT(w)
  BY <1>2, <1>6, MoveIsChange DEF IngestKYT, OneRow, e
<1>7. CASE IngestCredit(w)
  <2>1. creditDepositFromRow(e.tx, Upserted(e)) /\ ~KytEnabled /\ Upserted(e).status = "PENDING"
    BY <1>7 DEF IngestCredit, NeedsKYT, e
  <2> QED
    BY <1>2, <2>1, CreditIsCredit DEF OneRow
<1> QED
  BY <1>3, <1>4, <1>5, <1>6, <1>7

\* An alert about a known deposit changes one row, credits one, or does nothing.
LEMMA AlertIsStep ==
  ASSUME TypeOK, Rows, Claims, NEW w \in Worker, NEW answer, AlertOnDeposit(w, answer)
  PROVE  OneRow
<1> DEFINE e == worker[w].event
           list == AlertReports(e.list)
           row == writeAMLFields(deposit[e.tx], list)
           state == EffectiveState(e.state)
<1>1. e \in Event /\ e.type = "AML_KYT_ALERT" /\ deposit[e.tx].status # "ABSENT"
  BY DEF Claims, AlertOnDeposit, Alert, InTx
<1>2. e.tx \in Tx /\ list \in Reports
  BY <1>1, AlertReportsType
<1>3. deposit[e.tx] \in DepositRow
  BY <1>2 DEF TypeOK
<1>4. row.status = deposit[e.tx].status
  BY <1>2, <1>3, AMLRow
<1>5. Apply(e.tx, row, IF row.status = "KYT_PENDING"
                       THEN DecideKYT(state, list, FALSE) ELSE "KEEP_PENDING")
  BY DEF AlertOnDeposit
<1> HIDE DEF e, list, state
<1>6. CASE deposit[e.tx].status = "KYT_PENDING"
  BY <1>2, <1>4, <1>5, <1>6, ApplyIsStep DEF OneRow
<1>7. CASE deposit[e.tx].status # "KYT_PENDING"
  BY <1>1, <1>2, <1>4, <1>5, <1>7, RecordIsStep DEF OneRow
<1> QED
  BY <1>6, <1>7

\* A deposit that grows older changes one row.
LEMMA GrowIsStep ==
  ASSUME TypeOK, Rows, NEW t \in Tx, Grow(t)
  PROVE  OneRow
<1> DEFINE row == [deposit[t] EXCEPT !.age = @ + 1]
<1>1. deposit[t] \in DepositRow /\ deposit[t].status = "KYT_PENDING"
      /\ deposit[t].age + 1 \in 0..2
  BY DEF Grow, TypeOK, DepositRow, TimedOut
<1>2. row \in DepositRow
  BY <1>1, Zenon DEF DepositRow
<1>3. /\ row.status = deposit[t].status /\ row.user = deposit[t].user
      /\ row.rank = deposit[t].rank /\ deposit[t].rank \in Nat
  BY <1>1 DEF DepositRow
<1>4. deposit' = [deposit EXCEPT ![t] = row]
  BY DEF Grow, TypeOK
<1> HIDE DEF row
<1>5. Working(t, row)
  BY <1>1, <1>2, <1>3 DEF Working, Rows
<1> QED
  BY <1>4, <1>5, WriteIsChange DEF Grow, OneRow

\* The steps of ProcessOne and of the scans that write no deposit.
IdleProcess(w) ==
  \/ LockNextPendingEvent(w) \/ ErrNoPending(w)
  \/ Skip(w) \/ RejectMalformed(w) \/ Reject(w) \/ MarkEventErrorNoTx(w)
  \/ AbandonUnparseable(w) \/ UpsertFails(w)
  \/ AlertCompanyFails(w) \/ AlertDeferred(w) \/ AlertIgnored(w)
  \/ AlertCompanyOnly(w) \/ DeferOrphanEvent(w) \/ markOrphanAlertDone(w)

\* These actions of a worker write no deposit and no account.
LEMMA IdleIsIdle ==
  ASSUME NEW w \in Worker,
         IdleProcess(w) \/ ScanKYTTimeouts(w) \/ ScanAmlPending(w)
           \/ AmlStillPending(w) \/ Fail(w)
  PROVE  Idle
  BY DEF Idle, IdleProcess, LockNextPendingEvent, ErrNoPending, Skip, RejectMalformed,
         Reject, Rollback, MarkEventErrorNoTx, AbandonUnparseable, UpsertFails,
         AlertCompanyFails, AlertDeferred, AlertIgnored, AlertCompanyOnly,
         DeferOrphanEvent, markOrphanAlertDone, ScanKYTTimeouts, ScanAmlPending,
         Scan, AmlStillPending, Fail

\* Every action of the two scans changes one row, credits one, or does nothing.
LEMMA ScanIsStep ==
  ASSUME TypeOK, Rows, Claims, NEW w \in Worker, Scans(w)
  PROVE  OneRow
<1>1. CASE TimeoutAnswered(w)
  <2>1. worker[w].step = "kytApi" /\ \E report \in KytReport : Answered(w, report, TRUE)
    BY <1>1 DEF TimeoutAnswered
  <2> QED
    BY <2>1, AnsweredIsStep DEF OneRow, Idle
<1>2. CASE AmlAnswered(w)
  <2>1. worker[w].step = "amlApi" /\ \E report \in KytReport : Answered(w, report, FALSE)
    BY <1>2 DEF AmlAnswered
  <2> QED
    BY <2>1, AnsweredIsStep DEF OneRow, Idle
<1>3. CASE TimeoutCallFails(w)
  <2> DEFINE t == worker[w].tx
  <2>1. t \in Tx /\ deposit[t].status # "ABSENT"
    BY <1>3 DEF TimeoutCallFails, Claims
  <2>2. deposit[t] \in DepositRow /\ deposit[t].rank \in Nat
    BY <2>1 DEF TypeOK, DepositRow
  <2>3. Working(t, deposit[t])
    BY <2>1, <2>2 DEF Working, Rows
  <2> HIDE DEF t
  <2> QED
    BY <1>3, <2>1, <2>3, MoveIsChange DEF TimeoutCallFails, OneRow, Idle, t
<1>4. CASE ScanKYTTimeouts(w) \/ ScanAmlPending(w) \/ AmlStillPending(w)
  BY <1>4, IdleIsIdle DEF OneRow
<1> QED
  BY <1>1, <1>2, <1>3, <1>4 DEF Scans

\* Every step of the pipeline changes one row, credits one, or does nothing to deposits and
\* accounts.
LEMMA NextIsStep ==
  ASSUME TypeOK, Rows, Claims, [Next]_vars
  PROVE  OneRow
<1>1. ASSUME NEW e \in Event, Receive(e) \/ RetryDue(e) PROVE OneRow
  BY <1>1 DEF Receive, RetryDue, OneRow, Idle
<1>2. ASSUME NEW t \in Tx, Grow(t) PROVE OneRow
  BY <1>2, GrowIsStep
<1>3. ASSUME NEW w \in Worker, ProcessOne(w) PROVE OneRow
  <2>1. CASE IdleProcess(w)
    BY <2>1, IdleIsIdle DEF OneRow
  <2>2. CASE FlagManualReview(w) \/ IngestProgress(w) \/ IngestFailed(w)
             \/ IngestCredit(w) \/ IngestKYT(w)
    BY <2>2, IngestIsStep
  <2>3. ASSUME NEW answer \in CompanyAnswer, AlertOnDeposit(w, answer) PROVE OneRow
    BY <2>3, AlertIsStep
  <2> QED
    BY <1>3, <2>1, <2>2, <2>3 DEF ProcessOne, IdleProcess
<1>4. ASSUME NEW w \in Worker, Scans(w) PROVE OneRow
  BY <1>4, ScanIsStep
<1>5. ASSUME NEW w \in Worker, Fail(w) PROVE OneRow
  BY <1>5, IdleIsIdle DEF OneRow
<1>6. CASE UNCHANGED vars
  BY <1>6 DEF vars, OneRow, Idle
<1> QED
  BY <1>1, <1>2, <1>3, <1>4, <1>5, <1>6 DEF Next
-----------------------------------------------------------------------------
\* Events and workers

\* Two workers never hold the same event inside a transaction: the claim skips
\* locked rows.
Exclusive ==
  \A v, w \in Worker :
    worker[v].step = "tx" /\ worker[w].step = "tx"
      /\ worker[v].event = worker[w].event => v = w

\* A worker leaves its transaction, or takes a step outside of one; the events
\* are as before.
Turns(w) ==
  /\ worker' = [worker EXCEPT ![w] = worker'[w]]
  /\ worker'[w] \in WorkerState /\ worker'[w].step # "tx"
  /\ worker'[w].step = "mark" => worker[w].step = "tx" /\ worker'[w].event = worker[w].event
  /\ worker'[w].step \in {"kytApi", "amlApi"} =>
       worker'[w].tx \in Tx /\ deposit[worker'[w].tx].status # "ABSENT"

\* The event that only w may write is written: its row lock is held by w, or by
\* nobody.
Writes(w) ==
  LET e == worker[w].event IN
  /\ worker[w].step \in {"tx", "mark"} /\ worker'[w].step \notin {"tx", "mark"}
  /\ worker[w].step = "mark" => ~Locked(e)
  /\ event[e].process = "PENDING"
  /\ event' = [event EXCEPT ![e] = event'[e]]
  /\ event'[e] \in EventRow

\* A worker turns to an event that nobody holds.
Takes(w) ==
  /\ UNCHANGED event
  /\ \E e \in Event :
       /\ Claimable(e)
       /\ worker' = [worker EXCEPT ![w] = Holding("tx", e)]

\* An event that no worker holds is inserted or becomes due.
Arrives ==
  /\ UNCHANGED worker
  /\ \E e \in Event :
       /\ event' = [event EXCEPT ![e] = event'[e]]
       /\ event'[e] \in EventRow /\ event'[e].process = "PENDING"
       /\ event[e].process \in {"ABSENT", "PENDING"}

OneEvent ==
  \/ UNCHANGED <<event, worker>>
  \/ Arrives
  \/ \E w \in Worker : Takes(w) \/ (Turns(w) /\ (UNCHANGED event \/ Writes(w)))

\* A worker that goes on with the next part of its cycle turns.
LEMMA GoTurns ==
  ASSUME TypeOK, NEW w \in Worker, NEW step \in {"drain", "kyt", "aml"}, Go(w, step)
  PROVE  Turns(w) /\ worker'[w].step = step
<1>1. worker' = [worker EXCEPT ![w] = At(step)] /\ worker'[w] = At(step)
  BY DEF Go, TypeOK
<1>2. At(step) \in WorkerState /\ At(step).step = step
  BY DEF At, WorkerState, Step
<1> QED
  BY <1>1, <1>2 DEF Turns

\* The row of an event after it is finished or deferred is a row.
LEMMA EventRows ==
  ASSUME NEW row \in EventRow
  PROVE  /\ \A process \in {"DONE", "ERROR"} : Finished(row, process) \in EventRow
         /\ \A attempt \in BOOLEAN : Deferred(row, attempt) \in EventRow
         /\ [row EXCEPT !.due = TRUE] \in EventRow
         /\ [row EXCEPT !.process = "PENDING"] \in EventRow
<1>1. row.attempts \in Nat /\ row.attempts + 1 \in Nat
  BY DEF EventRow
<1>2. ASSUME NEW process \in {"DONE", "ERROR"}
      PROVE  Finished(row, process) \in EventRow
  BY <1>1 DEF Finished, EventRow
<1>3. ASSUME NEW attempt \in BOOLEAN PROVE Deferred(row, attempt) \in EventRow
  <2> DEFINE attempts == IF attempt THEN row.attempts + 1 ELSE row.attempts
  <2>1. attempts \in Nat
    BY <1>1
  <2>2. Deferred(row, attempt) = [row EXCEPT !.due = FALSE, !.attempts = attempts]
    BY DEF Deferred
  <2> HIDE DEF attempts
  <2>3. [row EXCEPT !.due = FALSE, !.attempts = attempts] \in EventRow
    BY <2>1, Zenon DEF EventRow
  <2> QED
    BY <2>2, <2>3
<1>4. [row EXCEPT !.due = TRUE] \in EventRow
  BY Zenon DEF EventRow
<1>5. [row EXCEPT !.process = "PENDING"] \in EventRow
  BY Zenon DEF EventRow
<1> QED
  BY <1>1, <1>2, <1>3, <1>4, <1>5

\* A transaction that marks or defers its event, and ends, writes that event.
LEMMA EndWrites ==
  ASSUME TypeOK, Claims, NEW w \in Worker, InTx(w),
         \/ \E process \in {"DONE", "ERROR"} : MarkEvent(worker[w].event, process)
         \/ \E attempt \in BOOLEAN : deferEvent(worker[w].event, attempt),
         NEW step \in {"drain", "kyt"}, Go(w, step)
  PROVE  Turns(w) /\ Writes(w)
<1> DEFINE e == worker[w].event
<1>1. e \in Event /\ event[e].process = "PENDING"
  BY DEF Claims, InTx
<1>2. event \in [Event -> EventRow] /\ event[e] \in EventRow
  BY <1>1 DEF TypeOK
<1>3. Turns(w) /\ worker'[w].step = step
  BY GoTurns
<1> HIDE DEF e
<1>4. event' = [event EXCEPT ![e] = event'[e]] /\ event'[e] \in EventRow
  <2>1. ASSUME NEW process \in {"DONE", "ERROR"}, MarkEvent(e, process)
        PROVE  event' = [event EXCEPT ![e] = event'[e]] /\ event'[e] \in EventRow
    <3>1. event' = [event EXCEPT ![e] = Finished(event[e], process)]
      BY <2>1 DEF MarkEvent
    <3>2. event'[e] = Finished(event[e], process)
      BY <1>1, <1>2, <3>1
    <3> QED
      BY <1>2, <3>1, <3>2, EventRows
  <2>2. ASSUME NEW attempt \in BOOLEAN, deferEvent(e, attempt)
        PROVE  event' = [event EXCEPT ![e] = event'[e]] /\ event'[e] \in EventRow
    <3>1. event' = [event EXCEPT ![e] = Deferred(event[e], attempt)]
      BY <2>2 DEF deferEvent
    <3>2. event'[e] = Deferred(event[e], attempt)
      BY <1>1, <1>2, <3>1
    <3> QED
      BY <1>2, <3>1, <3>2, EventRows
  <2> QED
    BY <2>1, <2>2 DEF e
<1> QED
  BY <1>1, <1>3, <1>4 DEF Writes, InTx, e

\* A claimed event was free; the drain that finds none goes on to the scans.
LEMMA ClaimIsTurn ==
  ASSUME TypeOK, NEW w \in Worker, LockNextPendingEvent(w) \/ ErrNoPending(w)
  PROVE  Takes(w) \/ (Turns(w) /\ UNCHANGED event)
<1>1. CASE LockNextPendingEvent(w)
  <2>1. PICK i \in DOMAIN inbox :
          Claimable(inbox[i]) /\ worker' = [worker EXCEPT ![w] = Holding("tx", inbox[i])]
    BY <1>1 DEF LockNextPendingEvent
  <2>2. inbox[i] \in Event
    BY DEF TypeOK
  <2> QED
    BY <1>1, <2>1, <2>2 DEF LockNextPendingEvent, Takes
<1>2. CASE ErrNoPending(w)
  BY <1>2, GoTurns DEF ErrNoPending
<1> QED
  BY <1>1, <1>2

\* A transaction that is rolled back to mark its event keeps hold of it.
LEMMA RollbackTurns ==
  ASSUME TypeOK, NEW w \in Worker, InTx(w), Rollback(w)
  PROVE  Turns(w) /\ UNCHANGED event
<1> DEFINE next == Holding("mark", worker[w].event)
<1>1. worker' = [worker EXCEPT ![w] = next] /\ worker'[w] = next
  BY DEF Rollback, TypeOK
<1>2. worker[w].event \in Event \cup {NoEvent}
  BY DEF TypeOK, WorkerState
<1>3. next \in WorkerState /\ next.step = "mark" /\ next.event = worker[w].event
  BY <1>2 DEF Holding, WorkerState, Step
<1> HIDE DEF next
<1> QED
  BY <1>1, <1>3 DEF Turns, InTx, Rollback

\* The transactions that end with their event finished or deferred.
Ends(w) ==
  \/ Skip(w) \/ RejectMalformed(w) \/ FlagManualReview(w)
  \/ IngestProgress(w) \/ IngestFailed(w) \/ IngestCredit(w) \/ IngestKYT(w)
  \/ AlertDeferred(w) \/ AlertIgnored(w) \/ AlertCompanyOnly(w)
  \/ DeferOrphanEvent(w) \/ markOrphanAlertDone(w)
  \/ \E answer \in CompanyAnswer : AlertOnDeposit(w, answer)

\* A transaction that ends an event writes the row of that event alone and lets it go.
LEMMA EndsWrite ==
  ASSUME TypeOK, Claims, NEW w \in Worker, Ends(w)
  PROVE  Turns(w) /\ Writes(w)
<1> DEFINE e == worker[w].event
<1>1. InTx(w)
  BY DEF Ends, Skip, RejectMalformed, FlagManualReview, IngestProgress, IngestFailed,
     IngestCredit, IngestKYT, Ingest, AlertDeferred, AlertIgnored, AlertCompanyOnly,
     DeferOrphanEvent, markOrphanAlertDone, Orphan, AlertOnDeposit, Alert
<1>2. CASE \E process \in {"DONE", "ERROR"} : Commit(w, e, process)
  <2>1. PICK process \in {"DONE", "ERROR"} : Commit(w, e, process)
    BY <1>2
  <2>2. PICK step \in {"drain", "kyt"} : Go(w, step)
    BY <2>1 DEF Commit
  <2> QED
    BY <1>1, <2>1, <2>2, EndWrites DEF Commit
<1>3. CASE AlertDeferred(w) \/ DeferOrphanEvent(w) \/ markOrphanAlertDone(w)
  <2>1. Go(w, "drain")
    BY <1>3 DEF AlertDeferred, DeferOrphanEvent, markOrphanAlertDone
  <2>2. \/ \E attempt \in BOOLEAN : deferEvent(e, attempt)
        \/ \E process \in {"DONE", "ERROR"} : MarkEvent(e, process)
    BY <1>3 DEF AlertDeferred, DeferOrphanEvent, markOrphanAlertDone
  <2> QED
    BY <1>1, <2>1, <2>2, EndWrites
<1>4. CASE Skip(w) \/ RejectMalformed(w) \/ FlagManualReview(w)
             \/ IngestProgress(w) \/ IngestFailed(w) \/ IngestCredit(w) \/ IngestKYT(w)
             \/ AlertIgnored(w) \/ AlertCompanyOnly(w)
             \/ \E answer \in CompanyAnswer : AlertOnDeposit(w, answer)
  BY <1>2, <1>4
  DEF Skip, RejectMalformed, FlagManualReview, IngestProgress, IngestFailed, IngestCredit,
      IngestKYT, AlertIgnored, AlertCompanyOnly, AlertOnDeposit
<1> QED
  BY <1>3, <1>4 DEF Ends

\* The error of a rolled-back attempt is written while nobody holds the event, or
\* the event is finished and stays as it is.
LEMMA MarkWrites ==
  ASSUME TypeOK, Claims, NEW w \in Worker, MarkEventErrorNoTx(w)
  PROVE  Turns(w) /\ (UNCHANGED event \/ Writes(w))
<1> DEFINE e == worker[w].event
<1>1. e \in Event /\ worker[w].step = "mark" /\ ~Locked(e)
  BY DEF Claims, MarkEventErrorNoTx
<1>2. event \in [Event -> EventRow] /\ event[e] \in EventRow
  BY <1>1 DEF TypeOK
<1>3. Turns(w) /\ worker'[w].step = "kyt"
  BY GoTurns DEF MarkEventErrorNoTx
<1>4. CASE event[e].process = "PENDING"
  <2>1. event' = [event EXCEPT ![e] = Finished(event[e], "ERROR")]
    BY <1>4 DEF MarkEventErrorNoTx
  <2> HIDE DEF e
  <2>2. event'[e] = Finished(event[e], "ERROR")
    BY <1>1, <1>2, <2>1
  <2> QED
    BY <1>1, <1>2, <1>3, <1>4, <2>1, <2>2, EventRows DEF Writes, e
<1>5. CASE event[e].process # "PENDING"
  BY <1>3, <1>5 DEF MarkEventErrorNoTx
<1> QED
  BY <1>4, <1>5

\* A scan asks about a row that exists, or the cycle goes on.
LEMMA ScanTurns ==
  ASSUME TypeOK, NEW w \in Worker, ScanKYTTimeouts(w) \/ ScanAmlPending(w)
  PROVE  Turns(w) /\ UNCHANGED event
<1>1. ASSUME NEW due \in SUBSET Tx, NEW step, NEW ask \in {"kytApi", "amlApi"},
             NEW next \in {"aml", "drain"},
             \A t \in due : deposit[t].status = "KYT_PENDING", Scan(w, step, due, ask, next)
      PROVE  Turns(w) /\ UNCHANGED event
  <2>1. UNCHANGED event
    BY <1>1 DEF Scan
  <2>2. ASSUME NEW t \in due, worker' = [worker EXCEPT ![w] = Asking(ask, t)]
        PROVE  Turns(w)
    <3>1. worker'[w] = Asking(ask, t) /\ t \in Tx /\ deposit[t].status # "ABSENT"
      BY <1>1, <2>2 DEF TypeOK
    <3>2. /\ Asking(ask, t) \in WorkerState /\ Asking(ask, t).step = ask
          /\ Asking(ask, t).tx = t
      BY <3>1 DEF Asking, WorkerState, Step
    <3> QED
      BY <2>2, <3>1, <3>2 DEF Turns
  <2>3. ASSUME Go(w, next) PROVE Turns(w)
    BY <2>3, GoTurns
  <2> QED
    BY <1>1, <2>1, <2>2, <2>3 DEF Scan
<1>2. CASE ScanKYTTimeouts(w)
  <2> DEFINE due == {t \in Tx : TimeoutDue(t)}
  <2>1. Scan(w, "kyt", due, "kytApi", "aml")
    BY <1>2 DEF ScanKYTTimeouts
  <2>2. due \in SUBSET Tx /\ \A t \in due : deposit[t].status = "KYT_PENDING"
    BY DEF TimeoutDue
  <2> HIDE DEF due
  <2> QED
    BY <1>1, <2>1, <2>2
<1>3. CASE ScanAmlPending(w)
  <2> DEFINE due == {t \in Tx : AmlDue(t)}
  <2>1. Scan(w, "aml", due, "amlApi", "drain")
    BY <1>3 DEF ScanAmlPending
  <2>2. due \in SUBSET Tx /\ \A t \in due : deposit[t].status = "KYT_PENDING"
    BY DEF AmlDue
  <2> HIDE DEF due
  <2> QED
    BY <1>1, <2>1, <2>2
<1> QED
  BY <1>2, <1>3

\* Every other step of a worker leaves the events alone and goes on.
LEMMA OtherTurns ==
  ASSUME TypeOK, NEW w \in Worker,
         \/ AbandonUnparseable(w) \/ AlertCompanyFails(w) \/ TimeoutAnswered(w)
         \/ TimeoutCallFails(w) \/ AmlAnswered(w) \/ AmlStillPending(w) \/ Fail(w)
  PROVE  Turns(w) /\ UNCHANGED event
<1>1. PICK step \in {"drain", "kyt"} : Go(w, step)
  BY DEF AbandonUnparseable, AlertCompanyFails, TimeoutAnswered, TimeoutCallFails,
         AmlAnswered, AmlStillPending, Fail
<1>2. UNCHANGED event
  BY DEF AbandonUnparseable, AlertCompanyFails, TimeoutAnswered, TimeoutCallFails,
         AmlAnswered, AmlStillPending, Fail
<1> QED
  BY <1>1, <1>2, GoTurns

\* Every step changes at most one event, and one that no other worker holds.
LEMMA NextIsEvent ==
  ASSUME TypeOK, Claims, [Next]_vars
  PROVE  OneEvent
<1>1. ASSUME NEW e \in Event, Receive(e) \/ RetryDue(e) PROVE OneEvent
  <2>1. event[e] \in EventRow
    BY DEF TypeOK
  <2>2. CASE Receive(e)
    <3>1. event' = [event EXCEPT ![e] = [event[e] EXCEPT !.process = "PENDING"]]
      BY <2>2 DEF Receive
    <3>2. [event[e] EXCEPT !.process = "PENDING"] \in EventRow
      BY <2>1, EventRows
    <3>3. event'[e] = [event[e] EXCEPT !.process = "PENDING"]
      BY <3>1 DEF TypeOK
    <3>4. event'[e].process = "PENDING"
      BY <2>1, <3>3 DEF EventRow
    <3>5. event' = [event EXCEPT ![e] = event'[e]] /\ event'[e] \in EventRow
      BY <3>1, <3>2, <3>3
    <3> QED
      BY <2>2, <3>4, <3>5 DEF Receive, Arrives, OneEvent
  <2>3. CASE RetryDue(e)
    <3>1. event' = [event EXCEPT ![e] = [event[e] EXCEPT !.due = TRUE]]
      BY <2>3 DEF RetryDue
    <3>2. [event[e] EXCEPT !.due = TRUE] \in EventRow
      BY <2>1, EventRows
    <3>3. event'[e] = [event[e] EXCEPT !.due = TRUE]
      BY <3>1 DEF TypeOK
    <3>4. event'[e].process = "PENDING" /\ event[e].process = "PENDING"
      BY <2>1, <2>3, <3>3 DEF EventRow, RetryDue
    <3>5. event' = [event EXCEPT ![e] = event'[e]] /\ event'[e] \in EventRow
      BY <3>1, <3>2, <3>3
    <3> QED
      BY <2>3, <3>4, <3>5 DEF RetryDue, Arrives, OneEvent
  <2> QED
    BY <1>1, <2>2, <2>3
<1>2. ASSUME NEW t \in Tx, Grow(t) PROVE OneEvent
  BY <1>2 DEF Grow, OneEvent
<1>3. ASSUME NEW w \in Worker, ProcessOne(w) PROVE OneEvent
  <2>1. CASE Reject(w) \/ UpsertFails(w)
    <3>1. InTx(w) /\ Rollback(w)
      BY <2>1 DEF Reject, UpsertFails
    <3> QED
      BY <3>1, RollbackTurns DEF OneEvent
  <2>2. CASE LockNextPendingEvent(w) \/ ErrNoPending(w)
    BY <2>2, ClaimIsTurn DEF OneEvent
  <2>3. CASE Ends(w)
    BY <2>3, EndsWrite DEF OneEvent
  <2>4. CASE MarkEventErrorNoTx(w)
    BY <2>4, MarkWrites DEF OneEvent
  <2>5. CASE AbandonUnparseable(w) \/ AlertCompanyFails(w)
    BY <2>5, OtherTurns DEF OneEvent
  <2> QED
    BY <1>3, <2>1, <2>2, <2>3, <2>4, <2>5 DEF ProcessOne, Ends
<1>4. ASSUME NEW w \in Worker, Scans(w) \/ Fail(w) PROVE OneEvent
  BY <1>4, ScanTurns, OtherTurns DEF Scans, OneEvent
<1>5. CASE UNCHANGED vars
  BY <1>5 DEF vars, OneEvent
<1> QED
  BY <1>1, <1>2, <1>3, <1>4, <1>5 DEF Next
-----------------------------------------------------------------------------
\* The inductive invariant

IInv == TypeOK /\ Rows /\ Claims /\ Exclusive

\* The change of one row keeps deposits and accounts well-formed, and no row
\* disappears.
LEMMA RowsKept ==
  ASSUME TypeOK, Rows, OneRow
  PROVE  /\ deposit' \in [Tx -> DepositRow]
         /\ account' \in [User -> AccountRow]
         /\ Rows'
         /\ \A t \in Tx : deposit[t].status # "ABSENT" => deposit'[t].status # "ABSENT"
<1>1. deposit \in [Tx -> DepositRow] /\ account \in [User -> AccountRow]
  BY DEF TypeOK
<1>2. CASE Idle
  BY <1>1, <1>2 DEF Idle, Rows
<1>3. ASSUME NEW t \in Tx, Advance(t)
      PROVE  /\ deposit' \in [Tx -> DepositRow] /\ Rows'
             /\ \A s \in Tx : deposit[s].status # "ABSENT" => deposit'[s].status # "ABSENT"
  <2>1. /\ deposit' = [deposit EXCEPT ![t] = deposit'[t]]
        /\ deposit'[t] \in DepositRow /\ deposit'[t].status # "ABSENT"
        /\ deposit'[t].user \in User
        /\ deposit'[t].status = "KYT_PENDING" => KytEnabled
    BY <1>3 DEF Advance
  <2>2. \A s \in Tx \ {t} : deposit'[s] = deposit[s]
    BY <1>1, <2>1
  <2>3. deposit' \in [Tx -> DepositRow]
    BY <1>1, <2>1
  <2> QED
    BY <2>1, <2>2, <2>3 DEF Rows
<1>4. ASSUME NEW t \in Tx, RowChange(t) PROVE account' \in [User -> AccountRow]
  BY <1>1, <1>4 DEF RowChange
<1>5. ASSUME NEW t \in Tx, RowCredit(t) PROVE account' \in [User -> AccountRow]
  <2> DEFINE u == deposit'[t].user
             n == deposit'[t].amount
  <2>1. u \in User /\ n \in Nat
    BY <1>5 DEF RowCredit, Advance, DepositRow
  <2>2. account' = [account EXCEPT ![u] = Credited(account[u], t, n)]
    BY <1>5 DEF RowCredit
  <2> HIDE DEF u, n
  <2>3. account[u].balance \in Nat /\ account[u].journal \in Seq(JournalRow)
    BY <1>1, <2>1 DEF AccountRow
  <2>4. [tx |-> t, amount |-> n, snapshot |-> account[u].balance + n] \in JournalRow
    BY <2>1, <2>3 DEF JournalRow
  <2>5. Credited(account[u], t, n) \in AccountRow
    BY <2>1, <2>3, <2>4 DEF Credited, AccountRow
  <2> QED
    BY <1>1, <2>1, <2>2, <2>5
<1> QED
  BY <1>2, <1>3, <1>4, <1>5 DEF OneRow, RowChange, RowCredit

\* The step of one worker or event keeps them well-formed, the claims true and
\* the locks exclusive.
LEMMA EventsKept ==
  ASSUME TypeOK, Claims, Exclusive, OneEvent,
         \A t \in Tx : deposit[t].status # "ABSENT" => deposit'[t].status # "ABSENT"
  PROVE  /\ event' \in [Event -> EventRow]
         /\ worker' \in [Worker -> WorkerState]
         /\ Claims' /\ Exclusive'
<1>1. event \in [Event -> EventRow] /\ worker \in [Worker -> WorkerState]
  BY DEF TypeOK
<1>2. CASE UNCHANGED <<event, worker>>
  BY <1>1, <1>2 DEF Claims, Exclusive
<1>3. CASE Arrives
  <2>1. PICK e \in Event :
          /\ event' = [event EXCEPT ![e] = event'[e]]
          /\ event'[e] \in EventRow /\ event'[e].process = "PENDING"
    BY <1>3 DEF Arrives
  <2>2. event' \in [Event -> EventRow] /\ worker' = worker
    BY <1>1, <1>3, <2>1 DEF Arrives
  <2>3. \A f \in Event : event[f].process = "PENDING" => event'[f].process = "PENDING"
    BY <1>1, <2>1
  <2> QED
    BY <1>1, <2>2, <2>3 DEF Claims, Exclusive
<1>4. ASSUME NEW w \in Worker, Takes(w)
      PROVE  worker' \in [Worker -> WorkerState] /\ Claims' /\ Exclusive'
  <2>1. PICK e \in Event : Claimable(e) /\ worker' = [worker EXCEPT ![w] = Holding("tx", e)]
    BY <1>4 DEF Takes
  <2>2. /\ Holding("tx", e) \in WorkerState /\ Holding("tx", e).step = "tx"
        /\ Holding("tx", e).event = e
    BY DEF Holding, WorkerState, Step
  <2>3. worker' \in [Worker -> WorkerState] /\ worker'[w] = Holding("tx", e)
    BY <1>1, <2>1, <2>2
  <2>4. \A v \in Worker \ {w} : worker'[v] = worker[v]
    BY <1>1, <2>1
  <2>5. \A v \in Worker \ {w} : worker[v].step = "tx" => worker[v].event # e
    BY <2>1 DEF Claimable, Locked
  <2>6. event[e].process = "PENDING" /\ event' = event
    BY <1>4, <2>1 DEF Claimable, Takes
  <2>7. Claims'
    BY <2>2, <2>3, <2>4, <2>6 DEF Claims
  <2>8. Exclusive'
    BY <2>2, <2>3, <2>4, <2>5 DEF Exclusive
  <2> QED
    BY <2>3, <2>7, <2>8
<1>5. ASSUME NEW w \in Worker, Turns(w), UNCHANGED event \/ Writes(w)
      PROVE  /\ event' \in [Event -> EventRow]
             /\ worker' \in [Worker -> WorkerState] /\ Claims' /\ Exclusive'
  <2> DEFINE e == worker[w].event
  <2>1. /\ worker' = [worker EXCEPT ![w] = worker'[w]]
        /\ worker'[w] \in WorkerState /\ worker'[w].step # "tx"
    BY <1>5 DEF Turns
  <2>2. worker' \in [Worker -> WorkerState] /\ \A v \in Worker \ {w} : worker'[v] = worker[v]
    BY <1>1, <2>1
  <2>3. Exclusive'
    BY <2>1, <2>2 DEF Exclusive
  <2>4. /\ event' \in [Event -> EventRow]
        /\ \A v \in Worker \ {w} : worker[v].step = "tx" =>
             event'[worker[v].event].process = "PENDING"
    <3>1. CASE UNCHANGED event
      BY <1>1, <3>1 DEF Claims
    <3>2. CASE Writes(w)
      <4>1. /\ e \in Event /\ event' = [event EXCEPT ![e] = event'[e]]
            /\ event'[e] \in EventRow
        BY <3>2 DEF Writes, Claims
      <4>2. event' \in [Event -> EventRow] /\ \A f \in Event \ {e} : event'[f] = event[f]
        BY <1>1, <4>1
      <4>3. \A v \in Worker \ {w} : worker[v].step = "tx" => worker[v].event # e
        BY <3>2 DEF Writes, Exclusive, Locked
      <4> QED
        BY <4>2, <4>3 DEF Claims
    <3> QED
      BY <1>5, <3>1, <3>2
  <2>5. Claims'
    <3>1. ASSUME NEW v \in Worker \ {w}
          PROVE  /\ worker'[v].step \in {"tx", "mark"} => worker'[v].event \in Event
                 /\ worker'[v].step = "tx" => event'[worker'[v].event].process = "PENDING"
                 /\ worker'[v].step \in {"kytApi", "amlApi"} =>
                      worker'[v].tx \in Tx /\ deposit'[worker'[v].tx].status # "ABSENT"
      BY <2>2, <2>4 DEF Claims
    <3>2. /\ worker'[w].step \in {"tx", "mark"} => worker'[w].event \in Event
          /\ worker'[w].step \in {"kytApi", "amlApi"} =>
               worker'[w].tx \in Tx /\ deposit'[worker'[w].tx].status # "ABSENT"
      BY <1>5, <2>1 DEF Claims, Turns
    <3> QED
      BY <2>1, <3>1, <3>2 DEF Claims
  <2> QED
    BY <2>2, <2>3, <2>4, <2>5
<1> QED
  BY <1>1, <1>2, <1>3, <1>4, <1>5 DEF OneEvent, Arrives, Takes

\* The inbox grows by the event received; faults stay within their bound.
LEMMA InboxKept ==
  ASSUME TypeOK, [Next]_vars
  PROVE  inbox' \in Seq(Event) /\ faults' \in 0..MaxFaults
<1>1. /\ inbox \in Seq(Event) /\ faults \in 0..MaxFaults /\ MaxFaults \in Nat
  BY BoundAssumption DEF TypeOK
<1>2. ASSUME NEW e \in Event, Receive(e) \/ RetryDue(e)
      PROVE  inbox' \in Seq(Event) /\ faults' \in 0..MaxFaults
  BY <1>1, <1>2 DEF Receive, RetryDue
<1>3. ASSUME NEW t \in Tx, Grow(t) PROVE UNCHANGED <<inbox, faults>>
  BY <1>3 DEF Grow
<1>4. ASSUME NEW w \in Worker, ProcessOne(w) \/ Scans(w) \/ Fail(w)
      PROVE  UNCHANGED inbox /\ (UNCHANGED faults \/ (faults < MaxFaults /\ faults' = faults + 1))
  <2>1. CASE Fail(w) \/ UpsertFails(w)
    BY <2>1 DEF Fail, UpsertFails, Rollback
  <2>2. CASE Ends(w)
    BY <2>2
    DEF Ends, Skip, RejectMalformed, FlagManualReview, IngestProgress, IngestFailed,
        IngestCredit, IngestKYT, AlertDeferred, AlertIgnored, AlertCompanyOnly,
        DeferOrphanEvent, markOrphanAlertDone, AlertOnDeposit, Commit
  <2>3. CASE LockNextPendingEvent(w) \/ ErrNoPending(w) \/ Reject(w)
             \/ MarkEventErrorNoTx(w) \/ AbandonUnparseable(w) \/ AlertCompanyFails(w)
             \/ Scans(w)
    BY <2>3
    DEF LockNextPendingEvent, ErrNoPending, Reject, Rollback, MarkEventErrorNoTx,
        AbandonUnparseable, AlertCompanyFails, Scans, ScanKYTTimeouts, ScanAmlPending,
        Scan, TimeoutAnswered, TimeoutCallFails, AmlAnswered, AmlStillPending
  <2> QED
    BY <1>4, <2>1, <2>2, <2>3 DEF ProcessOne, Ends
<1>5. CASE UNCHANGED vars
  BY <1>1, <1>5 DEF vars
<1> QED
  BY <1>1, <1>2, <1>3, <1>4, <1>5 DEF Next

\* The invariant holds at the start: nothing is received, nobody holds anything.
LEMMA IInvInit == Init => IInv
<1> SUFFICES ASSUME Init PROVE IInv
  OBVIOUS
<1>1. deposit \in [Tx -> DepositRow] /\ \A t \in Tx : deposit[t].status = "ABSENT"
                                                  /\ deposit[t].rank = 0
  BY DEF Init, DepositRow, DepositStatus, Fresh
<1>2. account \in [User -> AccountRow]
  <2>1. <<>> \in Seq(JournalRow)
    OBVIOUS
  <2> QED
    BY <2>1 DEF Init, AccountRow
<1>3. event \in [Event -> EventRow]
  BY DEF Init, EventRow
<1>4. worker \in [Worker -> WorkerState] /\ \A w \in Worker : worker[w].step = "drain"
  BY DEF Init, At, WorkerState, Step
<1>5. inbox \in Seq(Event) /\ faults \in 0..MaxFaults
  BY BoundAssumption DEF Init
<1>6. TypeOK
  BY <1>1, <1>2, <1>3, <1>4, <1>5 DEF TypeOK
<1>7. Rows
  BY <1>1 DEF Rows
<1>8. Claims /\ Exclusive
  BY <1>4 DEF Claims, Exclusive
<1> QED
  BY <1>6, <1>7, <1>8 DEF IInv

\* Every step keeps it.
LEMMA IInvNext == IInv /\ [Next]_vars => IInv'
<1> SUFFICES ASSUME IInv, [Next]_vars PROVE IInv'
  OBVIOUS
<1>1. TypeOK /\ Rows /\ Claims /\ Exclusive
  BY DEF IInv
<1>2. OneRow
  BY <1>1, NextIsStep
<1>3. /\ deposit' \in [Tx -> DepositRow] /\ account' \in [User -> AccountRow] /\ Rows'
      /\ \A t \in Tx : deposit[t].status # "ABSENT" => deposit'[t].status # "ABSENT"
  BY <1>1, <1>2, RowsKept
<1>4. OneEvent
  BY <1>1, NextIsEvent
<1>5. /\ event' \in [Event -> EventRow] /\ worker' \in [Worker -> WorkerState]
      /\ Claims' /\ Exclusive'
  BY <1>1, <1>3, <1>4, EventsKept
<1>6. inbox' \in Seq(Event) /\ faults' \in 0..MaxFaults
  BY <1>1, InboxKept
<1>7. TypeOK'
  BY <1>3, <1>5, <1>6 DEF TypeOK
<1> QED
  BY <1>3, <1>5, <1>7 DEF IInv

\* Rows, claims and locks are as declared in every reachable state.
THEOREM InvariantHolds == Spec => []IInv
  BY IInvInit, IInvNext, PTL DEF Spec

\* Type correctness of the pipeline, for any number of workers, events and
\* customers.
THEOREM TypeCorrect == Spec => []TypeOK
<1>1. IInv => TypeOK
  BY DEF IInv
<1> QED
  BY <1>1, InvariantHolds, PTL
-----------------------------------------------------------------------------
\* What steps never do

\* CREDITED, FAILED and MANUAL_REVIEW are final.
THEOREM DecisionsAreFinal == Spec => DecisionIsFinal
<1>1. IInv /\ [Next]_vars =>
        [\A t \in Tx : deposit[t].status \in TerminalStatus
           => deposit'[t].status = deposit[t].status]_vars
  <2> SUFFICES ASSUME IInv, [Next]_vars, NEW t \in Tx, deposit[t].status \in TerminalStatus
               PROVE  deposit'[t].status = deposit[t].status
    OBVIOUS
  <2>1. OneRow /\ deposit \in [Tx -> DepositRow]
    BY NextIsStep DEF IInv, TypeOK
  <2>2. ASSUME NEW s \in Tx, Advance(s) PROVE deposit'[t].status = deposit[t].status
    BY <2>1, <2>2 DEF Advance
  <2> QED
    BY <2>1, <2>2 DEF OneRow, Idle, RowChange, RowCredit
<1> QED
  BY <1>1, InvariantHolds, PTL DEF Spec, DecisionIsFinal

\* A late event of a lower rank never takes the recorded provider status back.
THEOREM RanksNeverFall == Spec => RankNeverFalls
<1>1. IInv /\ [Next]_vars => [\A t \in Tx : deposit'[t].rank >= deposit[t].rank]_vars
  <2> SUFFICES ASSUME IInv, [Next]_vars, NEW t \in Tx
               PROVE  deposit'[t].rank >= deposit[t].rank
    OBVIOUS
  <2>1. OneRow /\ deposit \in [Tx -> DepositRow] /\ deposit[t].rank \in Nat
    BY NextIsStep DEF IInv, TypeOK, DepositRow
  <2>2. ASSUME NEW s \in Tx, Advance(s) PROVE deposit'[t].rank >= deposit[t].rank
    BY <2>1, <2>2 DEF Advance
  <2> QED
    BY <2>1, <2>2 DEF OneRow, Idle, RowChange, RowCredit
<1> QED
  BY <1>1, InvariantHolds, PTL DEF Spec, RankNeverFalls

\* With screening enabled a deposit is credited only out of KYT_PENDING, and then
\* the stored summary of its reports is LOW, however many reports were cut off.
THEOREM CreditsAreCleared == Spec => ClearedBeforeCredit
<1>1. IInv /\ [Next]_vars =>
        [\A t \in Tx :
           KytEnabled /\ deposit[t].status # "CREDITED" /\ deposit'[t].status = "CREDITED"
           => deposit[t].status = "KYT_PENDING" /\ deposit'[t].aml = "LOW"]_vars
  <2> SUFFICES ASSUME IInv, [Next]_vars, NEW t \in Tx, KytEnabled,
                      deposit[t].status # "CREDITED", deposit'[t].status = "CREDITED"
               PROVE  deposit[t].status = "KYT_PENDING" /\ deposit'[t].aml = "LOW"
    OBVIOUS
  <2>1. OneRow /\ deposit \in [Tx -> DepositRow]
    BY NextIsStep DEF IInv, TypeOK
  <2>2. ASSUME NEW s \in Tx, Advance(s), s # t PROVE deposit'[t] = deposit[t]
    BY <2>1, <2>2 DEF Advance
  <2> QED
    BY <2>1, <2>2 DEF OneRow, Idle, RowChange, RowCredit
<1> QED
  BY <1>1, InvariantHolds, PTL DEF Spec, ClearedBeforeCredit

\* A finished event is never written again: not by another worker, nor by the
\* one that records the error of a rolled-back attempt.
THEOREM FinishedEventsAreFinal == Spec => FinishedEventIsFinal
<1>1. IInv /\ [Next]_vars =>
        [\A e \in Event : event[e].process \in {"DONE", "ERROR"} => event'[e] = event[e]]_vars
  <2> SUFFICES ASSUME IInv, [Next]_vars, NEW e \in Event,
                      event[e].process \in {"DONE", "ERROR"}
               PROVE  event'[e] = event[e]
    OBVIOUS
  <2>1. OneEvent /\ event \in [Event -> EventRow] /\ Claims
    BY NextIsEvent DEF IInv, TypeOK
  <2>2. CASE Arrives
    BY <2>1, <2>2 DEF Arrives
  <2>3. ASSUME NEW w \in Worker, Writes(w) PROVE event'[e] = event[e]
    <3>1. worker[w].event \in Event
      BY <2>1, <2>3 DEF Writes, Claims
    <3> QED
      BY <2>1, <2>3, <3>1 DEF Writes
  <2> QED
    BY <2>1, <2>2, <2>3 DEF OneEvent, Takes
<1> QED
  BY <1>1, InvariantHolds, PTL DEF Spec, FinishedEventIsFinal
-----------------------------------------------------------------------------
\* What an event leaves behind

\* The ways through HandleTransaction that store the deposit of an event.
Ingests(w) ==
  \/ FlagManualReview(w) \/ IngestProgress(w) \/ IngestFailed(w)
  \/ IngestCredit(w) \/ IngestKYT(w)

\* A payment to a customer that the chain has completed and confirmed.
Completion(e) ==
  /\ e.type = "TRANSACTION" /\ e.inflow /\ ~e.company
  /\ e.status = "COMPLETED" /\ e.confirmed

\* A row that no longer waits for its completion.
Progressed == TerminalStatus \cup {"KYT_PENDING"}
Acted(e) == deposit[e.tx].status \in Progressed

\* A transaction that ends in DONE or ERROR writes that in the row of its event.
LEMMA MarkedRow ==
  ASSUME TypeOK, NEW e \in Event, NEW process, MarkEvent(e, process)
  PROVE  /\ event'[e].process = process /\ event'[e].attempts = event[e].attempts + 1
         /\ \A f \in Event \ {e} : event'[f] = event[f]
  BY DEF MarkEvent, Finished, TypeOK

\* What one of them makes of the row of its event: a new row gets the event's owner; a row goes
\* under screening or is credited only by a completion; a completion leaves none waiting.
LEMMA IngestOutcome ==
  ASSUME TypeOK, Rows, Claims, NEW w \in Worker, Ingests(w), NEW e, e = worker[w].event
  PROVE  /\ e \in Event /\ e.tx \in Tx /\ Storable(e)
         /\ event'[e].process = "DONE"
         /\ \A f \in Event \ {e} : event'[f] = event[f]
         /\ \A t \in Tx \ {e.tx} : deposit'[t] = deposit[t]
         /\ deposit[e.tx].status = "ABSENT" => deposit'[e.tx].user = e.owner
         /\ deposit'[e.tx].status \in {"KYT_PENDING", "CREDITED"} =>
              deposit[e.tx].status \in {"KYT_PENDING", "CREDITED"} \/ Completion(e)
         /\ Completion(e) => deposit'[e.tx].status \in Progressed
<1> DEFINE t == e.tx
           row == Upserted(e)
           Result(new) ==
             /\ deposit' = [deposit EXCEPT ![t] = new]
             /\ new.user = row.user
             /\ new.status \in {"KYT_PENDING", "CREDITED"} =>
                  row.status \in {"KYT_PENDING", "CREDITED"} \/ Completion(e)
             /\ Completion(e) => new.status \in Progressed
<1>1. e \in Event /\ Storable(e)
  BY DEF Claims, Ingests, FlagManualReview, IngestProgress, IngestFailed, IngestCredit,
         IngestKYT, Ingest, InTx
<1>2. t \in Tx /\ Working(t, row)
  BY <1>1, UpsertedWorking
<1>3. row \in DepositRow /\ row.status \in DepositStatus \ {"ABSENT"}
  BY <1>2 DEF Working, DepositRow
<1>4. deposit[t].status = "ABSENT" => row.user = e.owner
  BY DEF Upserted, UpsertDeposit
<1>5. deposit[t].status = "ABSENT" => row.status \in {"PENDING", "MANUAL_REVIEW"}
  BY <1>2 DEF Working
<1>6. deposit[t].status # "ABSENT" => row.status = deposit[t].status
  BY <1>2 DEF Working
<1>7. Commit(w, e, "DONE")
  BY DEF Ingests, FlagManualReview, IngestProgress, IngestFailed, IngestCredit, IngestKYT
<1>8. event'[e].process = "DONE" /\ \A f \in Event \ {e} : event'[f] = event[f]
  BY <1>1, <1>7, MarkedRow DEF Commit
<1>9. \E new : Result(new)
  <2> HIDE DEF row
  <2>1. CASE FlagManualReview(w)
    <3>1. deposit' = [deposit EXCEPT ![t] = MarkDepositManualReview(row)]
      BY <2>1 DEF FlagManualReview, row
    <3>2. LET new == MarkDepositManualReview(row) IN
          /\ new.user = row.user
          /\ new.status = IF row.status \in {"PENDING", "KYT_PENDING", "MANUAL_REVIEW"}
                          THEN "MANUAL_REVIEW" ELSE row.status
      BY <1>3, MoveRow DEF MarkDepositManualReview, DepositStatus
    <3>3. Result(MarkDepositManualReview(row))
      BY <1>3, <3>1, <3>2 DEF DepositStatus, Progressed, TerminalStatus
    <3> QED
      BY <3>3
  <2>2. CASE IngestProgress(w)
    <3>1. deposit' = [deposit EXCEPT ![t] = row]
      BY <2>2 DEF IngestProgress, row
    <3>2. Completion(e) => row.status # "PENDING"
      BY <2>2 DEF IngestProgress, NeedsKYT, Completion, row
    <3>3. Result(row)
      BY <1>3, <3>1, <3>2 DEF DepositStatus, Progressed, TerminalStatus
    <3> QED
      BY <3>3
  <2>3. CASE IngestFailed(w)
    <3>1. deposit' = [deposit EXCEPT ![t] = MarkDepositFailed(row)]
      BY <2>3 DEF IngestFailed, row
    <3>2. LET new == MarkDepositFailed(row) IN
          /\ new.user = row.user
          /\ new.status = IF row.status \in {"PENDING", "KYT_PENDING", "FAILED"}
                          THEN "FAILED" ELSE row.status
      BY <1>3, MoveRow DEF MarkDepositFailed, DepositStatus
    <3>3. ~Completion(e)
      BY <2>3 DEF IngestFailed, isFailedStatus, Completion
    <3>4. Result(MarkDepositFailed(row))
      BY <1>3, <3>1, <3>2, <3>3
    <3> QED
      BY <3>4
  <2>4. CASE IngestCredit(w)
    <3>1. deposit' = [deposit EXCEPT ![t] = MarkDepositCredited(row)]
      BY <2>4 DEF IngestCredit, creditDepositFromRow, row
    <3>2. row.status = "PENDING" /\ Completion(e)
      BY <1>1, <2>4 DEF IngestCredit, NeedsKYT, Storable, Owned, ForCustomer, Completion, row
    <3>3. LET new == MarkDepositCredited(row) IN new.user = row.user /\ new.status = "CREDITED"
      BY <1>3, <3>2, MoveRow DEF MarkDepositCredited, DepositStatus
    <3>4. Result(MarkDepositCredited(row))
      BY <3>1, <3>2, <3>3 DEF Progressed, TerminalStatus
    <3> QED
      BY <3>4
  <2>5. CASE IngestKYT(w)
    <3>1. deposit' = [deposit EXCEPT ![t] = MoveToKYTPending(row)]
      BY <2>5 DEF IngestKYT, row
    <3>2. row.status = "PENDING" /\ Completion(e)
      BY <1>1, <2>5 DEF IngestKYT, NeedsKYT, Storable, Owned, ForCustomer, Completion, row
    <3>3. LET new == MoveToKYTPending(row) IN
          new.user = row.user /\ new.status = "KYT_PENDING"
      BY <1>3, <3>2, MoveRow DEF MoveToKYTPending, DepositStatus
    <3>4. Result(MoveToKYTPending(row))
      BY <3>1, <3>2, <3>3 DEF Progressed
    <3> QED
      BY <3>4
  <2> QED
    BY <2>1, <2>2, <2>3, <2>4, <2>5 DEF Ingests
<1>10. PICK new : Result(new)
  BY <1>9
<1>11. deposit \in [Tx -> DepositRow]
  BY DEF TypeOK
<1>12. deposit'[t] = new /\ \A s \in Tx \ {t} : deposit'[s] = deposit[s]
  BY <1>2, <1>10, <1>11
<1> HIDE DEF row
<1> QED
  BY <1>1, <1>2, <1>4, <1>5, <1>6, <1>8, <1>10, <1>12

\* Every other step leaves the status and the customer of each deposit as they are, unless the
\* deposit is under screening.
Stays(t) ==
  \/ deposit[t].status = "KYT_PENDING"
  \/ deposit'[t].status = deposit[t].status /\ deposit'[t].user = deposit[t].user

\* Applying a screening result keeps every row that is not under screening.
LEMMA ApplyStays ==
  ASSUME TypeOK, NEW t \in Tx, NEW list \in Reports, NEW decision,
         deposit[t].status # "KYT_PENDING" => decision = "KEEP_PENDING",
         Apply(t, writeAMLFields(deposit[t], list), decision), NEW s \in Tx
  PROVE  Stays(s)
<1>1. deposit \in [Tx -> DepositRow] /\ deposit[t] \in DepositRow
  BY DEF TypeOK
<1>2. CASE s # t
  BY <1>1, <1>2 DEF Apply, creditDepositFromRow, Stays
<1>3. CASE s = t /\ deposit[t].status # "KYT_PENDING"
  <2>1. deposit'[t] = writeAMLFields(deposit[t], list)
    BY <1>1, <1>3 DEF Apply
  <2> QED
    BY <1>1, <1>3, <2>1, AMLRow DEF Stays
<1> QED
  BY <1>2, <1>3 DEF Stays

\* An alert keeps every row that is not under screening.
LEMMA AlertStays ==
  ASSUME TypeOK, Rows, Claims, NEW w \in Worker, NEW answer, AlertOnDeposit(w, answer),
         NEW s \in Tx
  PROVE  Stays(s)
<1> DEFINE e == worker[w].event
           list == AlertReports(e.list)
           row == writeAMLFields(deposit[e.tx], list)
           decision == IF row.status = "KYT_PENDING"
                       THEN DecideKYT(EffectiveState(e.state), list, FALSE) ELSE "KEEP_PENDING"
<1>1. e \in Event /\ e.type = "AML_KYT_ALERT"
  BY DEF Claims, AlertOnDeposit, Alert, InTx
<1>2. e.tx \in Tx /\ list \in Reports
  BY <1>1, AlertReportsType
<1>3. row.status = deposit[e.tx].status
  BY <1>2, AMLRow DEF TypeOK
<1>4. Apply(e.tx, row, decision)
  BY DEF AlertOnDeposit
<1>5. deposit[e.tx].status # "KYT_PENDING" => decision = "KEEP_PENDING"
  BY <1>3
<1> HIDE DEF e, list, decision
<1> QED
  BY <1>2, <1>4, <1>5, ApplyStays

\* So does the answer of the screening provider.
LEMMA AnsweredStays ==
  ASSUME TypeOK, Claims, NEW w \in Worker, worker[w].step \in {"kytApi", "amlApi"},
         NEW report \in KytReport, NEW afterTimeout \in BOOLEAN,
         Answered(w, report, afterTimeout), NEW s \in Tx
  PROVE  Stays(s)
<1>1. worker[w].tx \in Tx
  BY DEF Claims
<1>2. report.list \in Reports
  BY ReportAssumption
<1>3. CASE deposit[worker[w].tx].status = "KYT_PENDING"
  BY <1>1, <1>2, <1>3, ApplyStays DEF Answered
<1>4. CASE deposit[worker[w].tx].status # "KYT_PENDING"
  BY <1>4 DEF Answered, Stays
<1> QED
  BY <1>3, <1>4

\* Every step that does not store the deposit of an event keeps them.
LEMMA NextStays ==
  ASSUME TypeOK, Rows, Claims, [Next]_vars, \A w \in Worker : ~Ingests(w), NEW s \in Tx
  PROVE  Stays(s)
<1>1. ASSUME Idle PROVE Stays(s)
  BY <1>1 DEF Idle, Stays
<1>2. ASSUME NEW t \in Tx, Grow(t) PROVE Stays(s)
  BY <1>2 DEF Grow, Stays, TypeOK
<1>3. ASSUME NEW w \in Worker, ProcessOne(w) PROVE Stays(s)
  <2>1. CASE IdleProcess(w)
    BY <1>1, <2>1, IdleIsIdle
  <2>2. ASSUME NEW answer \in CompanyAnswer, AlertOnDeposit(w, answer) PROVE Stays(s)
    BY <2>2, AlertStays
  <2> QED
    BY <1>3, <2>1, <2>2 DEF ProcessOne, IdleProcess, Ingests
<1>4. ASSUME NEW w \in Worker, Scans(w) PROVE Stays(s)
  <2>1. CASE TimeoutAnswered(w)
    BY <2>1, AnsweredStays DEF TimeoutAnswered
  <2>2. CASE AmlAnswered(w)
    BY <2>2, AnsweredStays DEF AmlAnswered
  <2>3. CASE TimeoutCallFails(w)
    BY <2>3 DEF TimeoutCallFails, Stays, TypeOK
  <2>4. CASE ScanKYTTimeouts(w) \/ ScanAmlPending(w) \/ AmlStillPending(w)
    BY <1>1, <2>4, IdleIsIdle
  <2> QED
    BY <1>4, <2>1, <2>2, <2>3, <2>4 DEF Scans
<1>5. ASSUME NEW w \in Worker, Fail(w) PROVE Stays(s)
  BY <1>1, <1>5, IdleIsIdle
<1>6. ASSUME NEW e \in Event, Receive(e) \/ RetryDue(e) PROVE Stays(s)
  BY <1>1, <1>6 DEF Receive, RetryDue, Idle
<1>7. CASE UNCHANGED vars
  BY <1>1, <1>7 DEF vars, Idle
<1> QED
  BY <1>2, <1>3, <1>4, <1>5, <1>6, <1>7 DEF Next

\* Where the error of a rolled-back attempt is to be recorded, the event is a transaction.
Marks == \A w \in Worker : worker[w].step = "mark" => worker[w].event.type = "TRANSACTION"

\* What a step may make of the row of event e.
Kept(e) == event'[e] = event[e]
Waits(e) ==
  /\ event[e].process \in {"ABSENT", "PENDING"} /\ event'[e].process = "PENDING"
  /\ event'[e].attempts = event[e].attempts
Retried(e) ==
  /\ event[e].process = "PENDING" /\ event'[e].process = "PENDING"
  /\ event'[e].attempts = event[e].attempts + 1 /\ ~Exhausted(e)
GivenUp(e) ==
  /\ event[e].process = "PENDING" /\ event'[e].process = "ERROR"
  /\ event'[e].attempts = event[e].attempts + 1 /\ Exhausted(e)
Refused(e) ==
  /\ event[e].process = "PENDING" /\ event'[e].process = "ERROR"
  /\ e.type # "AML_KYT_ALERT"
Done(e) ==
  /\ event[e].process = "PENDING" /\ event'[e].process = "DONE"
  /\ Completion(e) => deposit'[e.tx].status \in Progressed

Outcome(e) == Kept(e) \/ Waits(e) \/ Retried(e) \/ GivenUp(e) \/ Refused(e) \/ Done(e)

\* An arriving or due event waits.
LEMMA ArrivalOutcome ==
  ASSUME TypeOK, NEW f \in Event, Receive(f) \/ RetryDue(f), NEW e \in Event
  PROVE  Outcome(e)
<1>1. event \in [Event -> EventRow] /\ event[f] \in EventRow
  BY DEF TypeOK
<1>2. CASE Receive(f)
  <2>1. event' = [event EXCEPT ![f] = [event[f] EXCEPT !.process = "PENDING"]]
    BY <1>2 DEF Receive
  <2> QED
    BY <1>1, <1>2, <2>1 DEF Receive, EventRow, Outcome, Kept, Waits
<1>3. CASE RetryDue(f)
  <2>1. event' = [event EXCEPT ![f] = [event[f] EXCEPT !.due = TRUE]]
    BY <1>3 DEF RetryDue
  <2> QED
    BY <1>1, <1>3, <2>1 DEF RetryDue, EventRow, Outcome, Kept, Waits
<1> QED
  BY <1>2, <1>3

\* What the transactions that end make of their event.
LEMMA EndsOutcome ==
  ASSUME TypeOK, Rows, Claims, NEW w \in Worker, Ends(w), NEW e \in Event
  PROVE  Outcome(e)
<1> DEFINE f == worker[w].event
<1>1. f \in Event /\ event[f].process = "PENDING"
  <2>1. InTx(w)
    BY DEF Ends, Skip, RejectMalformed, FlagManualReview, IngestProgress, IngestFailed,
       IngestCredit, IngestKYT, Ingest, AlertDeferred, AlertIgnored, AlertCompanyOnly,
       DeferOrphanEvent, markOrphanAlertDone, Orphan, AlertOnDeposit, Alert
  <2> QED
    BY <2>1 DEF InTx, Claims
<1>2. event \in [Event -> EventRow] /\ event[f] \in EventRow
  BY <1>1 DEF TypeOK
<1>3. CASE Ingests(w)
  BY <1>1, <1>3, IngestOutcome DEF Outcome, Kept, Done
<1>4. CASE \/ Skip(w) \/ AlertIgnored(w) \/ AlertCompanyOnly(w)
           \/ \E answer \in CompanyAnswer : AlertOnDeposit(w, answer)
  <2>1. MarkEvent(f, "DONE") /\ ~Completion(f)
    BY <1>4 DEF Skip, AlertIgnored, AlertCompanyOnly, AlertOnDeposit, Alert, Commit, Completion
  <2> HIDE DEF f
  <2> QED
    BY <1>1, <2>1, MarkedRow DEF Outcome, Kept, Done
<1>5. CASE RejectMalformed(w)
  <2>1. MarkEvent(f, "ERROR") /\ f.type = "MALFORMED"
    BY <1>5 DEF RejectMalformed, Commit
  <2> HIDE DEF f
  <2> QED
    BY <1>1, <2>1, MarkedRow DEF Outcome, Kept, Refused
<1>6. CASE AlertDeferred(w)
  <2>1. event' = [event EXCEPT ![f] = Deferred(event[f], FALSE)]
    BY <1>6 DEF AlertDeferred, deferEvent
  <2> HIDE DEF f
  <2> QED
    BY <1>1, <1>2, <2>1 DEF Deferred, EventRow, Outcome, Kept, Waits
<1>7. CASE DeferOrphanEvent(w)
  <2>1. event' = [event EXCEPT ![f] = Deferred(event[f], TRUE)] /\ ~Exhausted(f)
    BY <1>7 DEF DeferOrphanEvent, deferEvent
  <2> HIDE DEF f
  <2> QED
    BY <1>1, <1>2, <2>1 DEF Deferred, EventRow, Outcome, Kept, Retried
<1>8. CASE markOrphanAlertDone(w)
  <2>1. MarkEvent(f, "ERROR") /\ Exhausted(f)
    BY <1>8 DEF markOrphanAlertDone
  <2> HIDE DEF f
  <2> QED
    BY <1>1, <2>1, MarkedRow DEF Outcome, Kept, GivenUp
<1> QED
  BY <1>3, <1>4, <1>5, <1>6, <1>7, <1>8 DEF Ends, Ingests

\* Every step has one of these outcomes for each event.
LEMMA NextOutcome ==
  ASSUME TypeOK, Rows, Claims, Marks, [Next]_vars, NEW e \in Event
  PROVE  Outcome(e)
<1>1. ASSUME NEW f \in Event, Receive(f) \/ RetryDue(f) PROVE Outcome(e)
  BY <1>1, ArrivalOutcome
<1>2. ASSUME NEW t \in Tx, Grow(t) PROVE Outcome(e)
  BY <1>2 DEF Grow, Outcome, Kept
<1>3. ASSUME NEW w \in Worker, ProcessOne(w) PROVE Outcome(e)
  <2>1. CASE Ends(w)
    BY <2>1, EndsOutcome
  <2>2. CASE MarkEventErrorNoTx(w)
    <3> DEFINE f == worker[w].event
    <3>1. f \in Event /\ f.type = "TRANSACTION"
      BY <2>2 DEF MarkEventErrorNoTx, Claims, Marks
    <3>2. Kept(e) \/ (event[f].process = "PENDING" /\ MarkEvent(f, "ERROR"))
      BY <2>2 DEF MarkEventErrorNoTx, MarkEvent, Kept
    <3> HIDE DEF f
    <3> QED
      BY <3>1, <3>2, MarkedRow DEF Outcome, Kept, Refused
  <2>3. CASE LockNextPendingEvent(w) \/ ErrNoPending(w) \/ Reject(w) \/ UpsertFails(w)
             \/ AbandonUnparseable(w) \/ AlertCompanyFails(w)
    BY <2>3 DEF LockNextPendingEvent, ErrNoPending, Reject, UpsertFails, Rollback,
                AbandonUnparseable, AlertCompanyFails, Outcome, Kept
  <2> QED
    BY <1>3, <2>1, <2>2, <2>3 DEF ProcessOne, Ends
<1>4. ASSUME NEW w \in Worker, Scans(w) \/ Fail(w) PROVE Outcome(e)
  BY <1>4 DEF Scans, ScanKYTTimeouts, ScanAmlPending, Scan, TimeoutAnswered, TimeoutCallFails,
              AmlAnswered, AmlStillPending, Fail, Outcome, Kept
<1>5. CASE UNCHANGED vars
  BY <1>5 DEF vars, Outcome, Kept
<1> QED
  BY <1>1, <1>2, <1>3, <1>4, <1>5 DEF Next

\* Only a worker that rejects a transaction, or fails to store it, goes on to mark it.
LEMMA MarksKept ==
  ASSUME TypeOK, Claims, Marks, [Next]_vars
  PROVE  Marks'
<1> SUFFICES ASSUME NEW v \in Worker, worker'[v].step = "mark"
             PROVE  worker'[v].event.type = "TRANSACTION"
  BY DEF Marks
<1>1. worker \in [Worker -> WorkerState]
  BY DEF TypeOK
<1>2. CASE worker'[v] = worker[v]
  BY <1>2 DEF Marks
<1>3. ASSUME NEW w \in Worker, Rollback(w), worker[w].event.type = "TRANSACTION"
      PROVE  worker'[v].event.type = "TRANSACTION"
  BY <1>1, <1>2, <1>3 DEF Rollback, Holding
<1>4. ASSUME NEW w \in Worker, Reject(w) \/ UpsertFails(w)
      PROVE  Rollback(w) /\ worker[w].event.type = "TRANSACTION"
  BY <1>4 DEF Reject, UpsertFails, Storable, Owned, ForCustomer
<1>5. ASSUME NEW w \in Worker, NEW step, step # "mark", Go(w, step) PROVE worker'[v] = worker[v]
  BY <1>1, <1>5 DEF Go, At
<1>6. ASSUME NEW w \in Worker, LockNextPendingEvent(w) PROVE worker'[v] = worker[v]
  BY <1>1, <1>6 DEF LockNextPendingEvent, Holding
<1>7. ASSUME NEW w \in Worker, ScanKYTTimeouts(w) \/ ScanAmlPending(w)
      PROVE  worker'[v] = worker[v]
  <2>1. ASSUME NEW due, NEW step, NEW ask \in {"kytApi", "amlApi"}, NEW next \in {"aml", "drain"},
               Scan(w, step, due, ask, next)
        PROVE  worker'[v] = worker[v]
    <3>1. CASE Go(w, next)
      BY <1>5, <3>1
    <3>2. ASSUME NEW t \in due, worker' = [worker EXCEPT ![w] = Asking(ask, t)]
          PROVE  worker'[v] = worker[v]
      BY <1>1, <2>1, <3>2 DEF Asking
    <3> QED
      BY <2>1, <3>1, <3>2 DEF Scan
  <2> QED
    BY <1>7, <2>1 DEF ScanKYTTimeouts, ScanAmlPending
<1>8. ASSUME NEW w \in Worker, Ends(w) PROVE worker'[v] = worker[v]
  <2>1. \E step \in {"drain", "kyt"} : Go(w, step)
    BY <1>8
    DEF Ends, Skip, RejectMalformed, FlagManualReview, IngestProgress, IngestFailed,
        IngestCredit, IngestKYT, AlertDeferred, AlertIgnored, AlertCompanyOnly,
        DeferOrphanEvent, markOrphanAlertDone, AlertOnDeposit, Commit
  <2> QED
    BY <1>5, <2>1
<1>9. ASSUME NEW w \in Worker,
             \/ ErrNoPending(w) \/ MarkEventErrorNoTx(w) \/ AbandonUnparseable(w)
             \/ AlertCompanyFails(w) \/ TimeoutAnswered(w) \/ TimeoutCallFails(w)
             \/ AmlAnswered(w) \/ AmlStillPending(w) \/ Fail(w)
      PROVE  worker'[v] = worker[v]
  <2>1. \E step \in {"drain", "kyt"} : Go(w, step)
    BY <1>9 DEF ErrNoPending, MarkEventErrorNoTx, AbandonUnparseable, AlertCompanyFails,
                TimeoutAnswered, TimeoutCallFails, AmlAnswered, AmlStillPending, Fail
  <2> QED
    BY <1>5, <2>1
<1>10. CASE UNCHANGED worker
  BY <1>2, <1>10
<1>11. ASSUME NEW w \in Worker, ProcessOne(w) \/ Scans(w) \/ Fail(w)
       PROVE  worker'[v].event.type = "TRANSACTION"
  BY <1>2, <1>3, <1>4, <1>6, <1>7, <1>8, <1>9, <1>11 DEF ProcessOne, Scans, Ends
<1> QED
  BY <1>10, <1>11 DEF Next, vars, Receive, RetryDue, Grow

\* An event not yet received has no attempts.
Unattempted == \A e \in Event : event[e].process = "ABSENT" => event[e].attempts = 0

\* An orphan alert waits with an attempt left and is given up with the last one.
LEMMA RetriesKept ==
  ASSUME TypeOK, Rows, Claims, Marks, Unattempted, OrphanRetriesAreBounded, [Next]_vars
  PROVE  Unattempted' /\ OrphanRetriesAreBounded'
<1> SUFFICES ASSUME NEW e \in Event
             PROVE  /\ event'[e].process = "ABSENT" => event'[e].attempts = 0
                    /\ e.type = "AML_KYT_ALERT" =>
                         /\ event'[e].process = "PENDING" => event'[e].attempts < OrphanMaxRetry
                         /\ event'[e].process = "ERROR" => event'[e].attempts = OrphanMaxRetry
  BY DEF Unattempted, OrphanRetriesAreBounded
<1>1. Outcome(e)
  BY NextOutcome
<1>2. event[e].attempts \in Nat /\ OrphanMaxRetry \in Nat \ {0}
  BY BoundAssumption DEF TypeOK, EventRow
<1>3. /\ event[e].process = "ABSENT" => event[e].attempts = 0
      /\ e.type = "AML_KYT_ALERT" =>
           /\ event[e].process = "PENDING" => event[e].attempts < OrphanMaxRetry
           /\ event[e].process = "ERROR" => event[e].attempts = OrphanMaxRetry
  BY DEF Unattempted, OrphanRetriesAreBounded
<1> QED
  BY <1>1, <1>2, <1>3 DEF Outcome, Kept, Waits, Retried, GivenUp, Refused, Done, Exhausted

\* The deposit of a finished completion stays past PENDING: no step takes it back.
LEMMA ActedKept ==
  ASSUME TypeOK, Rows, Claims, Marks, CompletionIsActedOn, [Next]_vars
  PROVE  CompletionIsActedOn'
<1> SUFFICES ASSUME NEW e \in Event, event'[e].process = "DONE", Completion(e)
             PROVE  deposit'[e.tx].status \in Progressed
  BY DEF CompletionIsActedOn, Completion, Progressed
<1>1. e.tx \in Tx
  BY EventKinds DEF Completion, TransactionEvent
<1>2. Done(e) \/ Kept(e)
  BY NextOutcome DEF Outcome, Waits, Retried, GivenUp, Refused
<1>3. CASE Done(e)
  BY <1>3 DEF Done
<1>4. CASE Kept(e)
  <2>1. deposit[e.tx].status \in Progressed
    BY <1>4 DEF Kept, CompletionIsActedOn, Completion, Progressed
  <2>2. OneRow /\ deposit \in [Tx -> DepositRow]
    BY NextIsStep DEF TypeOK
  <2>3. ASSUME NEW t \in Tx, Advance(t) PROVE deposit'[e.tx].status \in Progressed
    BY <1>1, <2>1, <2>2, <2>3 DEF Advance, Progressed, TerminalStatus, DepositRow, DepositStatus
  <2> QED
    BY <2>1, <2>2, <2>3 DEF OneRow, Idle, RowChange, RowCredit
<1> QED
  BY <1>2, <1>3, <1>4

\* The invariant of what events leave behind.
Left == IInv /\ Marks /\ Unattempted /\ OrphanRetriesAreBounded /\ CompletionIsActedOn

LEMMA LeftHolds == Spec => []Left
<1>1. Init => Left
  <2> SUFFICES ASSUME Init PROVE Left
    OBVIOUS
  <2>1. Marks
    BY DEF Init, At, Marks
  <2>2. Unattempted /\ OrphanRetriesAreBounded /\ CompletionIsActedOn
    BY DEF Init, Unattempted, OrphanRetriesAreBounded, CompletionIsActedOn
  <2> QED
    BY <2>1, <2>2, IInvInit DEF Left
<1>2. Left /\ [Next]_vars => Left'
  <2> SUFFICES ASSUME Left, [Next]_vars PROVE Left'
    OBVIOUS
  <2>1. TypeOK /\ Rows /\ Claims /\ Marks
    BY DEF Left, IInv
  <2> QED
    BY <2>1, IInvNext, MarksKept, RetriesKept, ActedKept DEF Left
<1> QED
  BY <1>1, <1>2, PTL DEF Spec

\* An orphan alert is retried OrphanMaxRetry times and no more, whatever the limit is and
\* however many workers take turns with it.
THEOREM RetriesAreBounded == Spec => []OrphanRetriesAreBounded
<1>1. Left => OrphanRetriesAreBounded
  BY DEF Left
<1> QED
  BY <1>1, LeftHolds, PTL

\* The deposit of a finished completion is decided or under screening: none is left waiting for
\* a completion that has already come.
THEOREM CompletionsAreActedOn == Spec => []CompletionIsActedOn
<1>1. Left => CompletionIsActedOn
  BY DEF Left
<1> QED
  BY <1>1, LeftHolds, PTL
-----------------------------------------------------------------------------
\* What stands behind a deposit

\* The owner is looked up by the destination address, and a transaction has one: the events of
\* a transaction that name a customer name the same one.
OneOwner ==
  \A e, f \in Event : Storable(e) /\ Storable(f) /\ e.tx = f.tx => e.owner = f.owner

\* The customer of a row is the owner named by the events of its transaction.
Owners ==
  \A t \in Tx, e \in Event :
    deposit[t].status # "ABSENT" /\ Storable(e) /\ e.tx = t => e.owner = deposit[t].user

\* A row that exists keeps its customer.
LEMMA UserKept ==
  ASSUME TypeOK, Rows, Claims, [Next]_vars, NEW t \in Tx, deposit[t].status # "ABSENT"
  PROVE  deposit'[t].user = deposit[t].user
<1>1. OneRow /\ deposit \in [Tx -> DepositRow]
  BY NextIsStep DEF TypeOK
<1>2. ASSUME NEW s \in Tx, Advance(s) PROVE deposit'[t].user = deposit[t].user
  BY <1>1, <1>2 DEF Advance
<1> QED
  BY <1>1, <1>2 DEF OneRow, Idle, RowChange, RowCredit

\* A new row is of the owner its event names, and so of the owner each of them names.
LEMMA OwnersKept ==
  ASSUME OneOwner, TypeOK, Rows, Claims, Owners, [Next]_vars
  PROVE  Owners'
<1> SUFFICES ASSUME NEW t \in Tx, NEW e \in Event, deposit'[t].status # "ABSENT",
                    Storable(e), e.tx = t
             PROVE  e.owner = deposit'[t].user
  BY DEF Owners, Storable, Owned, ForCustomer
<1>1. CASE deposit[t].status # "ABSENT"
  BY <1>1, UserKept DEF Owners
<1>2. ASSUME deposit[t].status = "ABSENT", NEW w \in Worker, Ingests(w)
      PROVE  e.owner = deposit'[t].user
  <2>1. PICK f : f = worker[w].event
    OBVIOUS
  <2>2. /\ f \in Event /\ Storable(f)
        /\ \A s \in Tx \ {f.tx} : deposit'[s] = deposit[s]
        /\ deposit[f.tx].status = "ABSENT" => deposit'[f.tx].user = f.owner
    BY <1>2, <2>1, IngestOutcome
  <2>3. f.tx = t
    BY <1>2, <2>2
  <2> QED
    BY <1>2, <2>2, <2>3 DEF OneOwner
<1>3. CASE deposit[t].status = "ABSENT" /\ \A w \in Worker : ~Ingests(w)
  BY <1>3, NextStays DEF Stays
<1> QED
  BY <1>1, <1>2, <1>3

\* The completion behind a deposit stays finished, and a deposit goes on only by one.
LEMMA BackedKept ==
  ASSUME OneOwner, TypeOK, Rows, Claims, Marks, Owners, ProgressIsBacked, [Next]_vars
  PROVE  ProgressIsBacked'
<1> SUFFICES ASSUME NEW t \in Tx, deposit'[t].status \in {"KYT_PENDING", "CREDITED"}
             PROVE  \E e \in Event :
                      /\ Completion(e) /\ e.tx = t /\ e.owner = deposit'[t].user
                      /\ event'[e].process = "DONE"
  BY DEF ProgressIsBacked, Completion
<1>1. CASE deposit[t].status \in {"KYT_PENDING", "CREDITED"}
  <2>1. PICK e \in Event :
          /\ Completion(e) /\ e.tx = t /\ e.owner = deposit[t].user
          /\ event[e].process = "DONE"
    BY <1>1 DEF ProgressIsBacked, Completion
  <2>2. deposit'[t].user = deposit[t].user
    BY <1>1, UserKept
  <2>3. event'[e] = event[e]
    BY <2>1, NextOutcome DEF Outcome, Kept, Waits, Retried, GivenUp, Refused, Done
  <2> QED
    BY <2>1, <2>2, <2>3
<1>2. ASSUME deposit[t].status \notin {"KYT_PENDING", "CREDITED"}, NEW w \in Worker, Ingests(w)
      PROVE  \E e \in Event :
               /\ Completion(e) /\ e.tx = t /\ e.owner = deposit'[t].user
               /\ event'[e].process = "DONE"
  <2>1. PICK f : f = worker[w].event
    OBVIOUS
  <2>2. /\ f \in Event /\ Storable(f) /\ event'[f].process = "DONE"
        /\ \A s \in Tx \ {f.tx} : deposit'[s] = deposit[s]
        /\ deposit'[f.tx].status \in {"KYT_PENDING", "CREDITED"} =>
             deposit[f.tx].status \in {"KYT_PENDING", "CREDITED"} \/ Completion(f)
    BY <1>2, <2>1, IngestOutcome
  <2>3. f.tx = t /\ Completion(f)
    BY <1>2, <2>2
  <2>4. f.owner = deposit'[t].user
    BY <2>2, <2>3, OwnersKept DEF Owners
  <2> QED
    BY <2>2, <2>3, <2>4
<1>3. CASE /\ deposit[t].status \notin {"KYT_PENDING", "CREDITED"}
           /\ \A w \in Worker : ~Ingests(w)
  BY <1>3, NextStays DEF Stays
<1> QED
  BY <1>1, <1>2, <1>3

\* Behind every deposit under screening or credited stands a finished event about its
\* customer's money, completed and confirmed on the chain: no alert, scan, retry or crash puts
\* one there.
THEOREM ProgressBacked == ASSUME OneOwner PROVE Spec => []ProgressIsBacked
<1> DEFINE Inv == IInv /\ Marks /\ Owners /\ ProgressIsBacked
<1>1. Init => Inv
  <2> SUFFICES ASSUME Init PROVE Inv
    OBVIOUS
  <2>1. Marks /\ Owners /\ ProgressIsBacked
    BY DEF Init, At, Marks, Owners, ProgressIsBacked
  <2> QED
    BY <2>1, IInvInit
<1>2. Inv /\ [Next]_vars => Inv'
  <2> SUFFICES ASSUME Inv, [Next]_vars PROVE Inv'
    OBVIOUS
  <2>1. TypeOK /\ Rows /\ Claims
    BY DEF IInv
  <2> QED
    BY <2>1, IInvNext, MarksKept, OwnersKept, BackedKept
<1>3. Inv => ProgressIsBacked
  OBVIOUS
<1> QED
  BY <1>1, <1>2, <1>3, PTL DEF Spec

\* An alert that credits its deposit was decided on the whole list of its reports.
LEMMA CreditedOnWhole ==
  ASSUME TypeOK, Claims, NEW w \in Worker, NEW answer, AlertOnDeposit(w, answer),
         NEW e, e = worker[w].event,
         deposit[e.tx].status # "CREDITED", deposit'[e.tx].status = "CREDITED"
  PROVE  SummarizeRiskLevel(AlertReports(e.list)) = "LOW"
<1> DEFINE list == AlertReports(e.list)
           state == EffectiveState(e.state)
           row == writeAMLFields(deposit[e.tx], list)
           decision == IF row.status = "KYT_PENDING"
                       THEN DecideKYT(state, list, FALSE) ELSE "KEEP_PENDING"
<1>1. e \in Event /\ e.type = "AML_KYT_ALERT"
  BY DEF Claims, AlertOnDeposit, Alert, InTx
<1>2. e.tx \in Tx /\ list \in Reports
  BY <1>1, AlertReportsType
<1>3. deposit \in [Tx -> DepositRow] /\ deposit[e.tx] \in DepositRow
  BY <1>2 DEF TypeOK
<1>4. row \in DepositRow /\ row.status = deposit[e.tx].status
  BY <1>2, <1>3, AMLRow
<1>5. Apply(e.tx, row, decision)
  BY DEF AlertOnDeposit
<1> HIDE DEF list, state, row
<1>6. CASE decision = "CREDIT"
  BY <1>2, <1>6, CreditMeansLow DEF list
<1>7. CASE deposit' = [deposit EXCEPT ![e.tx] = MarkDepositManualReview(row)]
  <2>1. deposit'[e.tx] = MarkDepositManualReview(row)
    BY <1>2, <1>3, <1>7
  <2>2. deposit'[e.tx].status \in {"MANUAL_REVIEW", row.status}
    BY <1>4, <2>1, MoveRow DEF MarkDepositManualReview, DepositStatus
  <2> QED
    BY <1>4, <2>2
<1>8. CASE deposit' = [deposit EXCEPT ![e.tx] = row]
  BY <1>2, <1>3, <1>4, <1>8
<1> QED
  BY <1>5, <1>6, <1>7, <1>8 DEF Apply

\* An event is finished by the worker that holds it.
LEMMA FinishedByHolder ==
  ASSUME TypeOK, Claims, [Next]_vars, NEW e \in Event,
         event[e].process = "PENDING", event'[e].process = "DONE"
  PROVE  \E w \in Worker : Ends(w) /\ worker[w].event = e
<1>1. event \in [Event -> EventRow]
  BY DEF TypeOK
<1>2. ASSUME NEW f \in Event, Receive(f) \/ RetryDue(f) PROVE FALSE
  BY <1>1, <1>2 DEF Receive, RetryDue, EventRow
<1>3. ASSUME NEW w \in Worker, Ends(w) PROVE worker[w].event = e
  <2>1. Writes(w) /\ worker[w].event \in Event
    BY <1>3, EndsWrite DEF Writes, Claims
  <2> QED
    BY <1>1, <2>1 DEF Writes
<1>4. ASSUME NEW w \in Worker, MarkEventErrorNoTx(w) PROVE FALSE
  BY <1>1, <1>4 DEF MarkEventErrorNoTx, Finished
<1>5. ASSUME NEW w \in Worker,
             \/ LockNextPendingEvent(w) \/ ErrNoPending(w) \/ Reject(w) \/ UpsertFails(w)
             \/ AbandonUnparseable(w) \/ AlertCompanyFails(w) \/ Scans(w) \/ Fail(w)
      PROVE  FALSE
  BY <1>5 DEF LockNextPendingEvent, ErrNoPending, Reject, UpsertFails, Rollback,
              AbandonUnparseable, AlertCompanyFails, Scans, ScanKYTTimeouts, ScanAmlPending,
              Scan, TimeoutAnswered, TimeoutCallFails, AmlAnswered, AmlStillPending, Fail
<1>6. ~(\E t \in Tx : Grow(t)) /\ event' # event
  BY DEF Grow
<1> QED
  BY <1>2, <1>3, <1>4, <1>5, <1>6 DEF Next, ProcessOne, Ends, vars

\* An alert credits a deposit only when every report of it, the stored ones and those cut off,
\* is finished and LOW or has a status the code does not know.
THEOREM WholeReportsDecide == Spec => WholeReportDecides
<1>1. IInv /\ [Next]_vars =>
        [\A e \in Event :
           /\ e.type = "AML_KYT_ALERT"
           /\ event[e].process = "PENDING" /\ event'[e].process = "DONE"
           /\ deposit[e.tx].status # "CREDITED" /\ deposit'[e.tx].status = "CREDITED"
           => \A i \in DOMAIN e.list :
                /\ e.list[i].status \notin {"PENDING", "FAILED", "SKIPPED"}
                /\ e.list[i].status \in {"COMPLETED", ""} => e.list[i].risk = "LOW"]_vars
  <2> SUFFICES ASSUME IInv, [Next]_vars, NEW e \in Event, e.type = "AML_KYT_ALERT",
                      event[e].process = "PENDING", event'[e].process = "DONE",
                      deposit[e.tx].status # "CREDITED", deposit'[e.tx].status = "CREDITED",
                      NEW i \in DOMAIN e.list
               PROVE  /\ e.list[i].status \notin {"PENDING", "FAILED", "SKIPPED"}
                      /\ e.list[i].status \in {"COMPLETED", ""} => e.list[i].risk = "LOW"
    OBVIOUS
  <2> DEFINE list == AlertReports(e.list)
  <2>1. TypeOK /\ Rows /\ Claims
    BY DEF IInv
  <2>2. PICK w \in Worker : Ends(w) /\ worker[w].event = e
    BY <2>1, FinishedByHolder
  <2>3. ~Ingests(w)
    BY <2>1, <2>2, IngestOutcome DEF Storable, Owned, ForCustomer
  <2>4. ~IdleProcess(w)
    BY <2>2, IdleIsIdle DEF Idle
  <2>5. PICK answer \in CompanyAnswer : AlertOnDeposit(w, answer)
    BY <2>2, <2>3, <2>4 DEF Ends, Ingests, IdleProcess
  <2>6. SummarizeRiskLevel(list) = "LOW"
    BY <2>1, <2>2, <2>5, CreditedOnWhole
  <2>7. list \in Reports
    BY AlertReportsType
  <2>8. i \in DOMAIN list /\ list[i] = [e.list[i] EXCEPT !.status = IF @ = "" THEN "COMPLETED" ELSE @]
    BY DEF AlertReports
  <2>9. e.list[i] \in [status: ReportStatuses \cup {""}, risk: RiskLevels]
    <3> DEFINE Raw == [status: ReportStatuses \cup {""}, risk: RiskLevels]
    <3>1. e.list \in Seq(Raw)
      BY EventKinds DEF AlertEvent
    <3> HIDE DEF Raw
    <3>2. e.list[i] \in Raw
      BY <3>1
    <3> QED
      BY <3>2 DEF Raw
  <2>10. /\ list[i].status = (IF e.list[i].status = "" THEN "COMPLETED" ELSE e.list[i].status)
         /\ list[i].risk = e.list[i].risk
    BY <2>8, <2>9
  <2> HIDE DEF list
  <2>11. \/ list[i].status = "COMPLETED" /\ list[i].risk = "LOW"
         \/ list[i].status = "OTHER"
    BY <2>6, <2>7, <2>8, LowMeansClear
  <2> QED
    BY <2>10, <2>11
<1> QED
  BY <1>1, InvariantHolds, PTL DEF Spec, WholeReportDecides
=============================================================================
