--------------------------- MODULE CaseLifecycle ---------------------------
(***************************************************************************)
(* What fund routing promises of a movement on the chain, told without     *)
(* leases, queues and workers: it is booked at most once, by the command   *)
(* whose turn it is, and its case is settled once, on an exact booking.    *)
(***************************************************************************)
EXTENDS Naturals

CONSTANT Case  \* movements of verified transactions

VARIABLES
  phase,     \* where the case of a movement stands
  turn,      \* the command whose turn it is; 0 before the first
  ledger,    \* what the deposits or the company movements say of it
  bookedBy,  \* the command that booked it
  settledBy  \* the command that settled its case

vars == <<phase, turn, ledger, bookedBy, settledBy>>

Init ==
  /\ phase = [c \in Case |-> "unrouted"]
  /\ turn = [c \in Case |-> 0]
  /\ ledger = [c \in Case |-> "none"]
  /\ bookedBy = [c \in Case |-> 0]
  /\ settledBy = [c \in Case |-> 0]

\* A case is opened, or decided, and then it is the turn of its first command.
Open(c) ==
  /\ phase[c] = "unrouted"
  /\ phase' = [phase EXCEPT ![c] = "open"]
  /\ UNCHANGED <<turn, ledger, bookedBy, settledBy>>

Decided(c) ==
  /\ phase[c] \in {"unrouted", "open"}
  /\ phase' = [phase EXCEPT ![c] = "projecting"]
  /\ turn' = [turn EXCEPT ![c] = @ + 1]
  /\ UNCHANGED <<ledger, bookedBy, settledBy>>

\* The owner's ledger gets the movement, as it was routed or not.
Book(c) ==
  /\ phase[c] = "projecting" /\ ledger[c] = "none"
  /\ \E how \in {"exact", "other"} : ledger' = [ledger EXCEPT ![c] = how]
  /\ bookedBy' = [bookedBy EXCEPT ![c] = turn[c]]
  /\ UNCHANGED <<phase, turn, settledBy>>

Settle(c) ==
  /\ phase[c] = "projecting" /\ ledger[c] = "exact"
  /\ phase' = [phase EXCEPT ![c] = "settled"]
  /\ settledBy' = [settledBy EXCEPT ![c] = turn[c]]
  /\ UNCHANGED <<turn, ledger, bookedBy>>

Block(c) ==
  /\ phase[c] = "projecting"
  /\ phase' = [phase EXCEPT ![c] = "blocked"]
  /\ UNCHANGED <<turn, ledger, bookedBy, settledBy>>

\* An operator orders a case to be tried again.
Requeue(c) ==
  /\ phase[c] \in {"projecting", "blocked"}
  /\ phase' = [phase EXCEPT ![c] = "projecting"]
  /\ turn' = [turn EXCEPT ![c] = @ + 1]
  /\ UNCHANGED <<ledger, bookedBy, settledBy>>

Next ==
  \E c \in Case :
    Open(c) \/ Decided(c) \/ Book(c) \/ Settle(c) \/ Block(c) \/ Requeue(c)

Spec == Init /\ [][Next]_vars
=============================================================================
