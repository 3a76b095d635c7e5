----------------------------- MODULE MCTokenLock -----------------------------
(* Model values for TokenLock.  Only transactions are interchangeable:       *)
(* tokens differ in whether they are old.                                    *)
EXTENDS TokenLock, TLC

CONSTANTS t1, t2, t3, t4, x1, x2, x3

Tokens    == {t1, t2, t3, t4}
OldTokens == {t1, t2}
TwoTxns   == {x1, x2}
Txns      == {x1, x2, x3}

Symmetry == Permutations(Txn) \cup Permutations(Old)
              \cup Permutations(Token \ Old)
=============================================================================
