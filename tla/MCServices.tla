----------------------------- MODULE MCServices -----------------------------
EXTENDS Services, TLC

\* The callers, the askers and so on are the same: their names do not matter.
AnyRequest == Permutations(Requests)
=============================================================================
