------------------------- MODULE MCWorkspaceSettings -------------------------
EXTENDS WorkspaceSettings, TLC

Symmetry == Permutations(Values) \cup Permutations(Reqs)
=============================================================================
