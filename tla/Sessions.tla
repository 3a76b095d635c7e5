------------------------------ MODULE Sessions ------------------------------
(***************************************************************************)
(* What the refresh-token subsystem promises, without tables, handlers or  *)
(* transactions.  A login opens a session.  While it is open, exactly one  *)
(* credential renews it, and renewing replaces that credential by one that *)
(* was never issued before.  Sessions may be closed at any time (logout, a *)
(* replayed credential, a password change, a deactivation, expiry), any    *)
(* number of them together, and a closed session never opens again.        *)
(*                                                                         *)
(* A session is named by the credential the login handed out.              *)
(***************************************************************************)
CONSTANTS Token,   \* every credential that can ever be issued
          None     \* stands for "no credential"; not in Token

VARIABLES issued,   \* the credentials issued so far
          current   \* current[s]: the one credential that renews session s

vars == <<issued, current>>

TypeOK ==
    /\ issued \subseteq Token
    /\ current \in [Token -> Token \cup {None}]

Init ==
    /\ issued = {}
    /\ current = [s \in Token |-> None]

\* A login starts session t with the fresh credential t.
Open(t) ==
    /\ t \notin issued
    /\ issued' = issued \cup {t}
    /\ current' = [current EXCEPT ![t] = t]

\* The current credential of s is traded for the fresh credential t.
Renew(s, t) ==
    /\ current[s] # None
    /\ t \notin issued
    /\ issued' = issued \cup {t}
    /\ current' = [current EXCEPT ![s] = t]

\* The sessions in S end together.
Close(S) ==
    /\ current' = [s \in Token |-> IF s \in S THEN None ELSE current[s]]
    /\ UNCHANGED issued

Next ==
    \/ \E t \in Token : Open(t)
    \/ \E s, t \in Token : Renew(s, t)
    \/ \E S \in SUBSET Token : Close(S)

Spec == Init /\ [][Next]_vars
=============================================================================
