---------------------------- MODULE MCOAuthFlow ----------------------------
EXTENDS OAuthFlow, TLC

CONSTANTS t1, t2, t3, b1, b2

\* Two tabs of one browser and one of another.
TabBrowser == t1 :> b1 @@ t2 :> b1 @@ t3 :> b2

Symmetry == Permutations({t1, t2}) \cup Permutations(States) \cup Permutations(Codes)
=============================================================================
