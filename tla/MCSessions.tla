---------------------------- MODULE MCSessions ----------------------------
EXTENDS Sessions, TLC

Symmetry == Permutations(Users) \cup Permutations(Sids) \cup Permutations(Reqs)
=============================================================================
