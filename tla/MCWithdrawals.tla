---------------------------- MODULE MCWithdrawals ----------------------------
EXTENDS Withdrawals, TLC

\* A customer who uses one address, has added another and may add a third.
Used == [at |-> "listed", verified |-> TRUE, frozen |-> FALSE, network |-> TRUE]
Waiting == [Used EXCEPT !.frozen = TRUE]
StartRows == {Used, Waiting, Absent}

\* Requests are interchangeable, and so are addresses and amounts.
Alike == Permutations(Call) \cup Permutations(Address) \cup Permutations(Amount)
=============================================================================
