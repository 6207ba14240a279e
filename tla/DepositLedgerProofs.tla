-------------------------- MODULE DepositLedgerProofs --------------------------
(***************************************************************************)
(* The ledger side of the deposit pipeline: what the journal holds, why a  *)
(* transaction is posted at most once, and that the pipeline implements    *)
(* the promise of DepositLedger. Everything follows from one fact proved   *)
(* in DepositPipelineProofs: a step changes one row, or credits one.       *)
(***************************************************************************)
EXTENDS DepositPipelineProofs

\* Every journal row belongs to a credited deposit of the account's customer.
Posted ==
  \A u \in User : \A i \in DOMAIN Journal(u) :
    /\ deposit[Journal(u)[i].tx].status = "CREDITED"
    /\ deposit[Journal(u)[i].tx].user = u

LedgerInv == Posted /\ PostedAtMostOnce /\ CreditedIffPosted /\ JournalExplainsBalance

\* The journals are sequences of rows about known transactions.
LEMMA JournalTypes ==
  ASSUME TypeOK, NEW u \in User
  PROVE  /\ account[u].balance \in Nat
         /\ Journal(u) \in Seq(JournalRow)
         /\ \A i \in DOMAIN Journal(u) : Journal(u)[i].tx \in Tx
<1>1. account[u] \in AccountRow
  BY DEF TypeOK
<1>2. account[u].balance \in Nat /\ Journal(u) \in Seq(JournalRow)
  BY <1>1 DEF AccountRow, Journal
<1>3. \A i \in DOMAIN Journal(u) : Journal(u)[i] \in JournalRow
  BY <1>2
<1> QED
  BY <1>2, <1>3 DEF JournalRow

\* What Append does, position by position.
LEMMA Appended ==
  ASSUME NEW S, NEW s \in Seq(S), NEW x \in S
  PROVE  /\ Len(s) \in Nat /\ DOMAIN s = 1..Len(s)
         /\ Len(Append(s, x)) = Len(s) + 1
         /\ DOMAIN Append(s, x) = 1..(Len(s) + 1)
         /\ Append(s, x)[Len(s) + 1] = x
         /\ \A i \in 1..Len(s) : Append(s, x)[i] = s[i]
  OBVIOUS

\* Without a credit the journals stay, and every deposit keeps its standing.
LEMMA ChangeKeepsLedger ==
  ASSUME TypeOK, Rows, LedgerInv, NEW t \in Tx, RowChange(t)
  PROVE  LedgerInv'
<1>1. account' = account
  BY DEF RowChange
<1>2. deposit \in [Tx -> DepositRow]
      /\ \A u \in User : \A i \in DOMAIN Journal(u) : Journal(u)[i].tx \in Tx
  BY JournalTypes DEF TypeOK
<1>3. \A s \in Tx : (deposit'[s].status = "CREDITED" <=> deposit[s].status = "CREDITED")
                    /\ (deposit[s].status = "CREDITED" => deposit'[s].user = deposit[s].user)
  <2>1. \A s \in Tx \ {t} : deposit'[s] = deposit[s]
    BY <1>2 DEF RowChange, Advance
  <2>2. deposit[t].status = "CREDITED" =>
          deposit'[t].status = "CREDITED" /\ deposit'[t].user = deposit[t].user
    BY DEF RowChange, Advance, TerminalStatus
  <2> QED
    BY <2>1, <2>2 DEF RowChange
<1>4. Posted'
  BY <1>1, <1>2, <1>3 DEF Posted, LedgerInv, Journal
<1>5. PostedAtMostOnce'
  BY <1>1 DEF PostedAtMostOnce, LedgerInv, Journal
<1>6. CreditedIffPosted'
  <2> SUFFICES ASSUME NEW s \in Tx
               PROVE  deposit'[s].status = "CREDITED" <=>
                        \E v \in User : v = deposit'[s].user /\
                          \E i \in DOMAIN Journal(v) : Journal(v)[i].tx = s
    BY <1>1 DEF CreditedIffPosted, Journal
  <2>1. deposit[s].status = "CREDITED" <=>
          \E v \in User : v = deposit[s].user /\
            \E i \in DOMAIN Journal(v) : Journal(v)[i].tx = s
    BY DEF LedgerInv, CreditedIffPosted
  <2>2. CASE deposit[s].status = "CREDITED"
    BY <1>3, <2>1, <2>2
  <2>3. CASE deposit[s].status # "CREDITED"
    <3>1. \A v \in User : \A i \in DOMAIN Journal(v) : Journal(v)[i].tx # s
      BY <2>3 DEF LedgerInv, Posted
    <3> QED
      BY <1>3, <2>3, <3>1
  <2> QED
    BY <2>2, <2>3
<1>7. JournalExplainsBalance'
  BY <1>1 DEF JournalExplainsBalance, LedgerInv, Journal
<1> QED
  BY <1>4, <1>5, <1>6, <1>7 DEF LedgerInv

\* A credit appends one row, for a transaction the journals do not hold yet.
LEMMA CreditKeepsLedger ==
  ASSUME TypeOK, Rows, LedgerInv, NEW t \in Tx, RowCredit(t)
  PROVE  LedgerInv'
<1> DEFINE u == deposit'[t].user
           n == deposit'[t].amount
           new == [tx |-> t, amount |-> n, snapshot |-> account[u].balance + n]
           len == Len(Journal(u))
           K(v) == account'[v].journal
<1>1. /\ u \in User /\ n \in Nat /\ deposit'[t].status = "CREDITED"
      /\ deposit[t].status \notin TerminalStatus
  BY DEF RowCredit, Advance, DepositRow
<1>2. deposit \in [Tx -> DepositRow] /\ account \in [User -> AccountRow]
  BY DEF TypeOK
<1>3. /\ \A v \in User : account[v].balance \in Nat /\ Journal(v) \in Seq(JournalRow)
      /\ \A v \in User : \A i \in DOMAIN Journal(v) : Journal(v)[i].tx \in Tx
  BY JournalTypes
<1>4. \A s \in Tx \ {t} : deposit'[s] = deposit[s]
  BY <1>2 DEF RowCredit, Advance
<1>5. account' = [account EXCEPT ![u] = Credited(account[u], t, n)]
  BY DEF RowCredit
<1> HIDE DEF u, n
<1>6. /\ account'[u] = Credited(account[u], t, n)
      /\ \A v \in User \ {u} : account'[v] = account[v]
  BY <1>1, <1>2, <1>5
<1>7. account'[u].balance = account[u].balance + n /\ K(u) = Append(Journal(u), new)
  BY <1>6 DEF Credited, Journal
<1>8. \A v \in User \ {u} : K(v) = Journal(v) /\ account'[v].balance = account[v].balance
  BY <1>6 DEF Journal
<1>9. new \in JournalRow /\ Journal(u) \in Seq(JournalRow)
  <2>1. account[u].balance + n \in Nat
    BY <1>1, <1>3
  <2> QED
    BY <1>1, <1>3, <2>1 DEF JournalRow
<1>10. new.tx = t /\ new.amount = n /\ new.snapshot = account[u].balance + n
  OBVIOUS
<1> HIDE DEF new, K
<1>11. /\ len \in Nat /\ DOMAIN Journal(u) = 1..len /\ DOMAIN K(u) = 1..(len + 1)
       /\ Len(K(u)) = len + 1 /\ K(u)[len + 1] = new
       /\ \A i \in 1..len : K(u)[i] = Journal(u)[i]
  BY <1>7, <1>9, Appended
<1> HIDE DEF len
<1>12. \A v \in User : \A i \in DOMAIN Journal(v) : Journal(v)[i].tx # t
  <2> SUFFICES ASSUME NEW v \in User, NEW i \in DOMAIN Journal(v), Journal(v)[i].tx = t
               PROVE  FALSE
    OBVIOUS
  <2>1. deposit[t].status = "CREDITED"
    BY DEF LedgerInv, Posted
  <2> QED
    BY <1>1, <2>1 DEF TerminalStatus
\* A position of the new journals is the new row, or one of the old journals.
<1>13. ASSUME NEW v \in User, NEW i \in DOMAIN K(v)
       PROVE  \/ v = u /\ i = len + 1 /\ K(v)[i] = new
              \/ i \in DOMAIN Journal(v) /\ K(v)[i] = Journal(v)[i] /\ K(v)[i].tx # t
  <2>1. CASE v = u /\ i = len + 1
    BY <1>11, <2>1
  <2>2. CASE v = u /\ i # len + 1
    <3>1. i \in 1..len
      BY <1>11, <2>2
    <3> QED
      BY <1>11, <1>12, <2>2, <3>1
  <2>3. CASE v # u
    BY <1>8, <1>12, <2>3
  <2> QED
    BY <2>1, <2>2, <2>3
<1>14. ASSUME NEW v \in User, NEW i \in DOMAIN Journal(v)
       PROVE  i \in DOMAIN K(v) /\ K(v)[i] = Journal(v)[i]
  <2>1. CASE v = u
    <3>1. i \in 1..len /\ i \in 1..(len + 1)
      BY <1>11, <2>1
    <3> QED
      BY <1>11, <2>1, <3>1
  <2>2. CASE v # u
    BY <1>8, <2>2
  <2> QED
    BY <2>1, <2>2
<1>15. Posted'
  <2> SUFFICES ASSUME NEW v \in User, NEW i \in DOMAIN K(v)
               PROVE  /\ deposit'[K(v)[i].tx].status = "CREDITED"
                      /\ deposit'[K(v)[i].tx].user = v
    BY DEF Posted, Journal, K
  <2>1. CASE v = u /\ K(v)[i] = new
    BY <1>1, <1>10, <2>1 DEF u
  <2>2. CASE i \in DOMAIN Journal(v) /\ K(v)[i] = Journal(v)[i] /\ K(v)[i].tx # t
    <3>1. /\ deposit[Journal(v)[i].tx].status = "CREDITED"
          /\ deposit[Journal(v)[i].tx].user = v
      BY <2>2 DEF LedgerInv, Posted
    <3>2. deposit'[Journal(v)[i].tx] = deposit[Journal(v)[i].tx]
      BY <1>3, <1>4, <2>2
    <3> QED
      BY <2>2, <3>1, <3>2
  <2> QED
    BY <1>13, <2>1, <2>2
<1>16. PostedAtMostOnce'
  <2> SUFFICES ASSUME NEW v \in User, NEW x \in User, NEW i \in DOMAIN K(v), NEW j \in DOMAIN K(x),
                      K(v)[i].tx = K(x)[j].tx
               PROVE  v = x /\ i = j
    BY DEF PostedAtMostOnce, Journal, K
  <2>1. CASE K(v)[i].tx = t
    <3>1. v = u /\ i = len + 1
      BY <1>13, <2>1
    <3>2. x = u /\ j = len + 1
      BY <1>13, <2>1
    <3> QED
      BY <3>1, <3>2
  <2>2. CASE K(v)[i].tx # t
    <3>1. /\ i \in DOMAIN Journal(v) /\ K(v)[i] = Journal(v)[i]
          /\ j \in DOMAIN Journal(x) /\ K(x)[j] = Journal(x)[j]
      BY <1>10, <1>13, <2>2
    <3> QED
      BY <3>1 DEF LedgerInv, PostedAtMostOnce
  <2> QED
    BY <2>1, <2>2
<1>17. CreditedIffPosted'
  <2> SUFFICES ASSUME NEW s \in Tx
               PROVE  deposit'[s].status = "CREDITED" <=>
                        \E v \in User : v = deposit'[s].user /\
                          \E i \in DOMAIN K(v) : K(v)[i].tx = s
    BY DEF CreditedIffPosted, Journal, K
  <2>1. CASE s = t
    <3>1. len + 1 \in DOMAIN K(u) /\ K(u)[len + 1].tx = t
      BY <1>10, <1>11
    <3> QED
      BY <1>1, <2>1, <3>1 DEF u
  <2>2. CASE s # t
    <3>1. deposit'[s] = deposit[s]
      BY <1>4, <2>2
    <3>2. ASSUME NEW v \in User
          PROVE  (\E i \in DOMAIN K(v) : K(v)[i].tx = s)
                 <=> (\E i \in DOMAIN Journal(v) : Journal(v)[i].tx = s)
      BY <1>10, <1>13, <1>14, <2>2
    <3>3. deposit[s].status = "CREDITED" <=>
            \E v \in User : v = deposit[s].user /\
              \E i \in DOMAIN Journal(v) : Journal(v)[i].tx = s
      BY DEF LedgerInv, CreditedIffPosted
    <3> QED
      BY <3>1, <3>2, <3>3
  <2> QED
    BY <2>1, <2>2
<1>18. JournalExplainsBalance'
  <2> DEFINE Explained(j, total) ==
        /\ total = IF Len(j) = 0 THEN 0 ELSE j[Len(j)].snapshot
        /\ \A i \in 1..Len(j) :
             j[i].snapshot = j[i].amount + (IF i = 1 THEN 0 ELSE j[i - 1].snapshot)
  <2> SUFFICES ASSUME NEW v \in User PROVE Explained(K(v), account'[v].balance)
    BY DEF JournalExplainsBalance, Journal, K
  <2>1. \A x \in User : Explained(Journal(x), account[x].balance)
    BY DEF LedgerInv, JournalExplainsBalance
  <2>2. CASE v # u
    <3> HIDE DEF Explained
    <3> QED
      BY <1>8, <2>1, <2>2
  <2>3. CASE v = u
    <3>1. account[u].balance = IF len = 0 THEN 0 ELSE Journal(u)[len].snapshot
      BY <1>1, <2>1 DEF len
    <3>2. \A i \in 1..len : Journal(u)[i].snapshot =
            Journal(u)[i].amount + (IF i = 1 THEN 0 ELSE Journal(u)[i - 1].snapshot)
      BY <1>1, <2>1 DEF len
    <3>3. K(u)[len + 1].snapshot = n + (IF len = 0 THEN 0 ELSE K(u)[len].snapshot)
      <4>1. n + account[u].balance = account[u].balance + n
        BY <1>1, <1>3
      <4>2. len # 0 => K(u)[len] = Journal(u)[len]
        BY <1>11
      <4> QED
        BY <1>10, <1>11, <3>1, <4>1, <4>2
    <3>4. ASSUME NEW i \in 1..(len + 1)
          PROVE  K(u)[i].snapshot =
                   K(u)[i].amount + (IF i = 1 THEN 0 ELSE K(u)[i - 1].snapshot)
      <4>1. CASE i = len + 1
        <5>1. i = 1 <=> len = 0
          BY <1>11, <4>1
        <5>2. i - 1 = len
          BY <1>11, <4>1
        <5> QED
          BY <1>10, <1>11, <3>3, <4>1, <5>1, <5>2
      <4>2. CASE i # len + 1
        <5>1. i \in 1..len /\ (i = 1 \/ i - 1 \in 1..len)
          BY <1>11, <4>2
        <5>2. K(u)[i] = Journal(u)[i] /\ (i = 1 \/ K(u)[i - 1] = Journal(u)[i - 1])
          BY <1>11, <5>1
        <5> QED
          BY <3>2, <5>1, <5>2
      <4> QED
        BY <4>1, <4>2
    <3>5. account'[u].balance = K(u)[len + 1].snapshot /\ len + 1 # 0
      BY <1>7, <1>10, <1>11
    <3>6. Len(K(u)) = len + 1
      BY <1>11
    <3>7. Explained(K(u), account'[u].balance)
      BY <3>4, <3>5, <3>6
    <3> QED
      BY <2>3, <3>7
  <2> QED
    BY <2>2, <2>3
<1> QED
  BY <1>15, <1>16, <1>17, <1>18 DEF LedgerInv

\* The ledger part of the invariant is kept by every step.
LEMMA LedgerInvNext == IInv /\ LedgerInv /\ [Next]_vars => LedgerInv'
<1> SUFFICES ASSUME IInv, LedgerInv, [Next]_vars PROVE LedgerInv'
  OBVIOUS
<1>1. TypeOK /\ Rows /\ OneRow
  BY NextIsStep DEF IInv
<1>2. CASE Idle
  BY <1>2 DEF Idle, LedgerInv, Posted, PostedAtMostOnce, CreditedIffPosted,
              JournalExplainsBalance, Journal
<1>3. ASSUME NEW t \in Tx, RowChange(t) \/ RowCredit(t) PROVE LedgerInv'
  BY <1>1, <1>3, ChangeKeepsLedger, CreditKeepsLedger
<1> QED
  BY <1>1, <1>2, <1>3 DEF OneRow

\* The journals start empty and no deposit is credited.
LEMMA LedgerInvInit == Init => LedgerInv
<1> SUFFICES ASSUME Init PROVE LedgerInv
  OBVIOUS
<1>1. \A u \in User : Journal(u) = <<>> /\ account[u].balance = 0
  BY DEF Init, Journal
<1>2. \A t \in Tx : deposit[t].status = "ABSENT"
  BY DEF Init
<1> QED
  BY <1>1, <1>2
  DEF LedgerInv, Posted, PostedAtMostOnce, CreditedIffPosted, JournalExplainsBalance

\* The journals and the statuses agree in every reachable state.
THEOREM LedgerHolds == Spec => []LedgerInv
  BY InvariantHolds, LedgerInvInit, LedgerInvNext, PTL DEF Spec

\* For any number of workers, events, alerts and scans, and any faults, no
\* transaction is posted twice.
THEOREM PostedOnce == Spec => []PostedAtMostOnce
<1>1. LedgerInv => PostedAtMostOnce
  BY DEF LedgerInv
<1> QED
  BY <1>1, LedgerHolds, PTL

\* CREDITED and a journal row of the customer always go together.
THEOREM CreditedMeansPosted == Spec => []CreditedIffPosted
<1>1. LedgerInv => CreditedIffPosted
  BY DEF LedgerInv
<1> QED
  BY <1>1, LedgerHolds, PTL

\* The balance of every account is what its journal adds up to.
THEOREM BalanceIsExplained == Spec => []JournalExplainsBalance
<1>1. LedgerInv => JournalExplainsBalance
  BY DEF LedgerInv
<1> QED
  BY <1>1, LedgerHolds, PTL
-----------------------------------------------------------------------------
\* The pipeline implements DepositLedger

PhaseOf(status) ==
  CASE status \in {"ABSENT", "PENDING"} -> "OPEN"
    [] status = "KYT_PENDING" -> "SCREENING"
    [] status = "CREDITED" -> "CREDITED"
    [] OTHER -> "CLOSED"

\* The phase of the changed row moves, and no other.
LEMMA PhaseMoves ==
  ASSUME TypeOK, NEW t \in Tx, Advance(t)
  PROVE  /\ phase' = [phase EXCEPT ![t] = PhaseOf(deposit'[t].status)]
         /\ phase[t] = PhaseOf(deposit[t].status)
<1>1. deposit \in [Tx -> DepositRow] /\ deposit' = [deposit EXCEPT ![t] = deposit'[t]]
  BY DEF TypeOK, Advance
<1>2. phase = [s \in Tx |-> PhaseOf(deposit[s].status)]
  BY DEF phase, PhaseOf
<1>3. phase' = [s \in Tx |-> PhaseOf(deposit'[s].status)]
  BY DEF phase, PhaseOf
<1>4. \A s \in Tx : deposit'[s] = IF s = t THEN deposit'[t] ELSE deposit[s]
  BY <1>1
<1> HIDE DEF PhaseOf
<1>5. [phase EXCEPT ![t] = PhaseOf(deposit'[t].status)]
        = [s \in Tx |-> IF s = t THEN PhaseOf(deposit'[t].status) ELSE PhaseOf(deposit[s].status)]
  BY <1>2
<1> QED
  BY <1>2, <1>3, <1>4, <1>5

\* A row that is not credited stays in its phase, enters screening or is closed.
LEMMA ChangeImplements ==
  ASSUME TypeOK, Rows, NEW t \in Tx, RowChange(t)
  PROVE  UNCHANGED <<phase, balance>> \/ Ledger!Screen(t) \/ Ledger!Close(t)
<1> DEFINE from == deposit[t].status
           to == deposit'[t].status
<1>1. /\ phase' = [phase EXCEPT ![t] = PhaseOf(to)] /\ phase[t] = PhaseOf(from)
      /\ DOMAIN phase = Tx
  BY PhaseMoves DEF RowChange, phase
<1>2. UNCHANGED balance
  BY DEF RowChange, balance
<1>3. /\ from \in DepositStatus /\ to \in DepositStatus /\ to # "ABSENT"
      /\ from \in TerminalStatus => to = from
      /\ from = "KYT_PENDING" => to # "PENDING"
      /\ to = "CREDITED" => from = "CREDITED"
  BY DEF TypeOK, RowChange, Advance, DepositRow
<1> HIDE DEF from, to
<1>4. CASE PhaseOf(from) = PhaseOf(to)
  <2>1. phase' = phase
    BY <1>1, <1>4 DEF phase
  <2> QED
    BY <1>2, <2>1
<1>5. CASE PhaseOf(from) # PhaseOf(to)
  <2>1. \/ PhaseOf(from) = "OPEN" /\ PhaseOf(to) = "SCREENING"
        \/ PhaseOf(from) \in {"OPEN", "SCREENING"} /\ PhaseOf(to) = "CLOSED"
    BY <1>3, <1>5 DEF PhaseOf, DepositStatus, TerminalStatus
  <2> QED
    BY <1>1, <1>2, <2>1 DEF Ledger!Screen, Ledger!Close
<1> QED
  BY <1>4, <1>5

\* A credit moves one phase to CREDITED and raises one balance.
LEMMA CreditImplements ==
  ASSUME TypeOK, Rows, NEW t \in Tx, RowCredit(t)
  PROVE  \E u \in User : Ledger!Credit(t, u)
<1> DEFINE u == deposit'[t].user
           n == deposit'[t].amount
<1>1. u \in User /\ n \in Nat
  BY DEF RowCredit, Advance, DepositRow
<1>2. /\ phase' = [phase EXCEPT ![t] = PhaseOf(deposit'[t].status)]
      /\ phase[t] = PhaseOf(deposit[t].status)
  BY PhaseMoves DEF RowCredit
<1>3. /\ PhaseOf(deposit'[t].status) = "CREDITED"
      /\ PhaseOf(deposit[t].status) = IF KytEnabled THEN "SCREENING" ELSE "OPEN"
  <2>1. /\ deposit'[t].status = "CREDITED" /\ deposit[t].status \in DepositStatus
        /\ deposit[t].status \notin TerminalStatus
        /\ IF KytEnabled THEN deposit[t].status = "KYT_PENDING" ELSE deposit[t].status # "KYT_PENDING"
    BY DEF RowCredit, TypeOK, DepositRow
  <2> QED
    BY <2>1 DEF PhaseOf, DepositStatus, TerminalStatus
<1>4. /\ account \in [User -> AccountRow]
      /\ account' = [account EXCEPT ![u] = Credited(account[u], t, n)]
  BY DEF TypeOK, RowCredit
<1> HIDE DEF u, n
<1>5. /\ account'[u].balance = account[u].balance + n /\ account[u].balance \in Nat
      /\ \A v \in User \ {u} : account'[v] = account[v]
  BY <1>1, <1>4 DEF Credited, AccountRow
<1>6. /\ balance = [v \in User |-> account[v].balance]
      /\ balance' = [v \in User |-> account'[v].balance]
  BY DEF balance
<1>7. balance' = [balance EXCEPT ![u] = balance'[u]] /\ balance'[u] >= balance[u]
  BY <1>1, <1>5, <1>6
<1> QED
  BY <1>1, <1>2, <1>3, <1>7 DEF Ledger!Credit

\* Whatever the workers do, what happens to the balances is what DepositLedger
\* promises: each deposit is credited at most once, out of screening.
THEOREM PipelineImplementsLedger == Spec => ImplementsLedger
<1>1. Init => Ledger!Init
  BY DEF Init, Ledger!Init, phase, balance
<1>2. IInv /\ [Next]_vars => [Ledger!Next]_<<phase, balance>>
  <2> SUFFICES ASSUME IInv, [Next]_vars PROVE [Ledger!Next]_<<phase, balance>>
    OBVIOUS
  <2>1. TypeOK /\ Rows /\ OneRow
    BY NextIsStep DEF IInv
  <2>2. CASE Idle
    BY <2>2 DEF Idle, phase, balance
  <2>3. ASSUME NEW t \in Tx, RowChange(t) \/ RowCredit(t)
        PROVE  [Ledger!Next]_<<phase, balance>>
    BY <2>1, <2>3, ChangeImplements, CreditImplements DEF Ledger!Next
  <2> QED
    BY <2>1, <2>2, <2>3 DEF OneRow
<1> QED
  BY <1>1, <1>2, InvariantHolds, PTL DEF Spec, ImplementsLedger, Ledger!Spec
=============================================================================
