--------------------------- MODULE MCRefreshTokens ---------------------------
(* Model values for RefreshTokens: users, tokens and requests are only ever *)
(* compared for equality, so permuting them changes nothing.                *)
EXTENDS RefreshTokens, TLC

CONSTANTS u1, t1, t2, t3, r1, r2

OneUser  == {u1}
ThreeTokens == {t1, t2, t3}
TwoRequests == {r1, r2}

Symmetry == Permutations(User) \cup Permutations(Token) \cup Permutations(Request)
=============================================================================
