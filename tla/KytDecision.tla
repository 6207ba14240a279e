----------------------------- MODULE KytDecision -----------------------------
(***************************************************************************)
(* The KYT disposition of a customer deposit (internal/wallet/deposit/     *)
(* kyt.go): the reports of the screening providers are summarised to one   *)
(* risk level, and the level together with the screening state decides     *)
(* whether the deposit is credited, kept waiting or handed to an operator. *)
(* The operators are pure; the deposit pipeline and its proofs use them.   *)
(***************************************************************************)
EXTENDS Naturals, Sequences

\* "OTHER" stands for every string the code has no case for.
ScreeningStates == {"TRIGGERED", "IN_PROGRESS", "UNTRIGGERED", "OTHER"}
ReportStatuses  == {"PENDING", "FAILED", "SKIPPED", "COMPLETED", "OTHER"}
RiskLevels      == {"LOW", "MEDIUM", "UNKNOWN", "HIGH", "SEVERE", "OTHER"}

Report == [status: ReportStatuses, risk: RiskLevels]
Reports == Seq(Report)

\* What aml_risk_level may hold besides NULL.
Summaries == RiskLevels \cup {"EMPTY", "PENDING", "FAILED", "SKIPPED"}

\* The three dispositions and their reason, risk and alert level.
Actions == {"CREDIT", "KEEP_PENDING", "MANUAL_REVIEW"}

riskSeverity(level) ==
  CASE level = "LOW"     -> 1
    [] level = "MEDIUM"  -> 2
    [] level = "UNKNOWN" -> 3
    [] level = "HIGH"    -> 4
    [] level = "SEVERE"  -> 5
    [] OTHER             -> 3

Has(list, status) == \E i \in DOMAIN list : list[i].status = status

\* The levels of the finished reports; a report of any other status is ignored.
CompletedLevels(list) ==
  {list[i].risk : i \in {j \in DOMAIN list : list[j].status = "COMPLETED"}}

\* The scan keeps the first level of the highest severity. Only UNKNOWN and an
\* unlisted level tie, and they have the same disposition. It starts from LOW:
\* a list without any COMPLETED report ends with LOW.
WorstLevel(list) ==
  IF CompletedLevels(list) = {}
  THEN "LOW"
  ELSE CHOOSE l \in CompletedLevels(list) :
         \A m \in CompletedLevels(list) : riskSeverity(m) <= riskSeverity(l)

SummarizeRiskLevel(list) ==
  IF list = <<>> THEN "EMPTY"
  ELSE IF Has(list, "PENDING") THEN "PENDING"
  ELSE IF Has(list, "FAILED") THEN "FAILED"
  ELSE IF Has(list, "SKIPPED") THEN "SKIPPED"
  ELSE WorstLevel(list)

\* The action of a decision. afterTimeout turns waiting into manual review.
DecideKYT(state, list, afterTimeout) ==
  LET wait == IF afterTimeout THEN "MANUAL_REVIEW" ELSE "KEEP_PENDING"
      risk == SummarizeRiskLevel(list)
  IN  CASE state = "IN_PROGRESS" -> wait
        [] state = "TRIGGERED" /\ risk = "PENDING" -> wait
        [] state = "TRIGGERED" /\ risk = "LOW" -> "CREDIT"
        [] OTHER -> "MANUAL_REVIEW"

\* An alert without a screening state counts as TRIGGERED, and a report in it
\* without a status as COMPLETED (processKYTAlert, convertAlertReports).
EffectiveState(state) == IF state = "" THEN "TRIGGERED" ELSE state
AlertReports(list) ==
  [i \in DOMAIN list |->
     [list[i] EXCEPT !.status = IF @ = "" THEN "COMPLETED" ELSE @]]
=============================================================================
