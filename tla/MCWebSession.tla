---------------------------- MODULE MCWebSession ----------------------------
(* TLC instance of WebSession: two tabs, two accounts.                     *)
EXTENDS WebSession, TLC

CONSTANTS t1, t2, u1, u2

TwoTabs == {t1, t2}
TwoUsers == {u1, u2}

\* No definition tells tabs or accounts apart, and no liveness is checked.
Symmetry == Permutations(TwoTabs) \cup Permutations(TwoUsers)
=============================================================================
