---------------------------- MODULE MCWebSession ----------------------------
EXTENDS WebSession, TLC

\* Requests are interchangeable, and so are customers.
Alike == Permutations(Call) \cup Permutations(User)
=============================================================================
