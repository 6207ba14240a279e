---------------------------- MODULE DepositLedger ----------------------------
(***************************************************************************)
(* What the deposit pipeline promises of a customer's balance: it grows    *)
(* only by crediting a deposit that is still undecided, each deposit at    *)
(* most once and, when deposits are screened, only one under screening.    *)
(***************************************************************************)
EXTENDS Naturals

CONSTANTS Tx, User, KytEnabled

VARIABLES phase, balance

Phase == {"OPEN", "SCREENING", "CREDITED", "CLOSED"}

Init ==
  /\ phase = [t \in Tx |-> "OPEN"]
  /\ balance = [u \in User |-> 0]

Screen(t) ==
  /\ phase[t] = "OPEN"
  /\ phase' = [phase EXCEPT ![t] = "SCREENING"]
  /\ UNCHANGED balance

Close(t) ==
  /\ phase[t] \in {"OPEN", "SCREENING"}
  /\ phase' = [phase EXCEPT ![t] = "CLOSED"]
  /\ UNCHANGED balance

Credit(t, u) ==
  /\ phase[t] = IF KytEnabled THEN "SCREENING" ELSE "OPEN"
  /\ phase' = [phase EXCEPT ![t] = "CREDITED"]
  /\ balance'[u] >= balance[u]
  /\ balance' = [balance EXCEPT ![u] = balance'[u]]

Next == \E t \in Tx : Screen(t) \/ Close(t) \/ \E u \in User : Credit(t, u)

Spec == Init /\ [][Next]_<<phase, balance>>
=============================================================================
