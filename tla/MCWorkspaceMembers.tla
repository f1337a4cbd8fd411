------------------------- MODULE MCWorkspaceMembers -------------------------
EXTENDS WorkspaceMembers, TLC

Symmetry == Permutations(Users \ {Owner}) \cup Permutations(Reqs)
=============================================================================
