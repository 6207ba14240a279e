-------------------------- MODULE MCDepositPipeline --------------------------
EXTENDS DepositPipeline, TLC

\* Amounts are small and distinct, so that a swapped one shows in a balance.
CONSTANTS t1, t2, alice

Payment(t, u, amount, status, confirmed) ==
  [type |-> "TRANSACTION", tx |-> t, inflow |-> TRUE, company |-> FALSE,
   owner |-> u, coin |-> "SUPPORTED", parses |-> TRUE, amount |-> amount,
   status |-> status, confirmed |-> confirmed]

KytAlert(t, state, list) ==
  [type |-> "AML_KYT_ALERT", tx |-> t, state |-> state, list |-> list]

R(status, risk) == [status |-> status, risk |-> risk]

\* One screened transaction: progress, completion, a late failure, and alerts
\* that clear it, leave it open (beyond the stored prefix) and flag it.
ScreeningEvents ==
  { Payment(t1, alice, 3, "CONFIRMING", FALSE),
    Payment(t1, alice, 5, "COMPLETED", TRUE),
    Payment(t1, alice, 5, "REJECTED", FALSE),
    KytAlert(t1, "", <<R("", "LOW"), R("COMPLETED", "LOW")>>),
    KytAlert(t1, "TRIGGERED", <<R("COMPLETED", "LOW"), R("PENDING", "LOW")>>) }

ScreeningReports ==
  { [state |-> "TRIGGERED", list |-> <<R("COMPLETED", "LOW")>>],
    [state |-> "TRIGGERED", list |-> <<R("COMPLETED", "LOW"), R("COMPLETED", "HIGH")>>],
    [state |-> "IN_PROGRESS", list |-> <<>>] }

\* Every way ProcessOne sends an event elsewhere, without screening.
RoutedEvents ==
  { [type |-> "OTHER", tx |-> t1], [type |-> "MALFORMED", tx |-> t1],
    [Payment(t1, alice, 3, "COMPLETED", TRUE) EXCEPT !.inflow = FALSE],
    [Payment(t1, alice, 3, "COMPLETED", TRUE) EXCEPT !.company = TRUE],
    [Payment(t1, alice, 3, "COMPLETED", TRUE) EXCEPT !.owner = NoUser],
    Payment(t1, alice, 3, "COMPLETED", TRUE) }

\* Two transactions of one customer, payloads that need an operator or stop the
\* drain, and alerts that the company-fund handler has a say in, with their
\* deposit or without, among those that go elsewhere.
ReviewedEvents ==
  RoutedEvents \cup
  { [Payment(t1, alice, 4, "CONFIRMING", FALSE) EXCEPT !.coin = "UNSUPPORTED"],
    Payment(t2, alice, 5, "COMPLETED", TRUE),
    Payment(t2, alice, 1, "CONFIRMING", FALSE),
    [Payment(t2, alice, 0, "FAILED", FALSE) EXCEPT !.parses = FALSE],
    KytAlert(t1, "TRIGGERED", <<R("COMPLETED", "LOW")>>),
    KytAlert(t2, "TRIGGERED", <<R("COMPLETED", "SEVERE")>>) }

\* Bound: of the many events, any three arrive.
FewEvents == Len(inbox) <= 3

\* Screening that can be missed, answered late, or never.
MissedEvents ==
  { Payment(t1, alice, 5, "COMPLETED", TRUE),
    KytAlert(t1, "IN_PROGRESS", <<R("PENDING", "LOW")>>),
    KytAlert(t1, "TRIGGERED", <<R("COMPLETED", "LOW")>>) }

Workers == Permutations(Worker)
=============================================================================
