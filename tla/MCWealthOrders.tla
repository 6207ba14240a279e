---------------------------- MODULE MCWealthOrders ----------------------------
EXTENDS WealthOrders, TLC

Calls == Permutations(Call)
=============================================================================
