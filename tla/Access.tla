-------------------------------- MODULE Access --------------------------------
(***************************************************************************)
(* Who is let in: administrators, consumers of the feed, and whoever keeps  *)
(* to the rate.  The three share neither state nor locks, so a run of all   *)
(* is for each of them a run of it alone; focus says which is looked at.    *)
(***************************************************************************)
EXTENDS AdminAccounts, ApiKeys, RateLimits

VARIABLE focus

accessVars == <<accountVars, keyVars, limitVars, focus>>

Init ==
    /\ focus \in {"accounts", "keys", "buckets", "logins"}
    /\ AccountInit /\ KeyInit /\ LimitInit
    /\ focus # "buckets" => failClosed

Next ==
    \/ focus = "accounts" /\ AccountNext /\ UNCHANGED <<keyVars, limitVars, focus>>
    \/ focus = "keys" /\ KeyNext /\ UNCHANGED <<accountVars, limitVars, focus>>
    \/ focus = "buckets" /\ BucketNext /\ UNCHANGED <<accountVars, keyVars, focus>>
    \/ focus = "logins" /\ LoginNext /\ UNCHANGED <<accountVars, keyVars, focus>>

Spec == Init /\ [][Next]_accessVars
=============================================================================
