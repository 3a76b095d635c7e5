----------------------------- MODULE TokenTable -----------------------------
(***************************************************************************)
(* What module RefreshTokens takes for granted of the transactions on the   *)
(* refresh tokens of one user: each happens at once, at its commit.         *)
(***************************************************************************)
CONSTANTS Token,
          Old        \* the tokens whose expires_at has passed

VARIABLES exists,    \* the row of the user is in table users
          row        \* the rows of refresh_tokens, as in RefreshTokens

vars == <<exists, row>>

Stored(t) == row[t] \in {"unused", "used"}

Without(S) == [t \in Token |-> IF t \in S /\ Stored(t) THEN "gone" ELSE row[t]]

Init ==
    /\ exists = TRUE
    /\ \E used \in SUBSET Old :
         row = [t \in Token |-> IF t \in used THEN "used"
                                ELSE IF t \in Old THEN "unused" ELSE "free"]

\* CreateRefreshToken.
Create(t) ==
    /\ exists /\ row[t] = "free"
    /\ row' = [row EXCEPT ![t] = "unused"]
    /\ UNCHANGED exists

\* RotateRefreshToken, when it reports true.
Rotate(old, t) ==
    /\ exists /\ row[old] = "unused" /\ row[t] = "free"
    /\ row' = [row EXCEPT ![old] = "used", ![t] = "unused"]
    /\ UNCHANGED exists

\* DeleteRefreshTokensForUser and the transactions around it.
Revoke ==
    /\ row' = Without(Token)
    /\ UNCHANGED exists

DeleteUser ==
    /\ exists /\ exists' = FALSE
    /\ row' = Without(Token)

Prune ==
    /\ row' = Without(Old)
    /\ UNCHANGED exists

Next ==
    \/ \E t \in Token : Create(t)
    \/ \E old, t \in Token : Rotate(old, t)
    \/ Revoke \/ DeleteUser \/ Prune

Spec == Init /\ [][Next]_vars
=============================================================================
