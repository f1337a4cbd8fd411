----------------------------- MODULE MCAccounts -----------------------------
EXTENDS Accounts, TLC

Symmetry == Permutations(Users) \cup Permutations(Emails)
                \cup Permutations(Ids) \cup Permutations(Reqs)
=============================================================================
