------------------------------- MODULE ApiKeys -------------------------------
(***************************************************************************)
(* The gate of the public feed (api_key_auth.go): a key is looked up in the *)
(* database, and one that validated within the grace period is served when  *)
(* the look-up fails.  A key that is revoked is never activated again, and  *)
(* nobody can present a key before it was made.                             *)
(***************************************************************************)
EXTENDS Integers, Functions

CONSTANTS ApiKey, Consumer,
          Grace,       \* apiKeyGrace
          MaxLookup,   \* bound: how long a look-up and noting its result take
          MaxKeyTime   \* bound on the clock

ASSUME KeysAssumption == Grace \in Nat \ {0} /\ MaxLookup \in Nat /\ MaxKeyTime \in Nat

VARIABLES time,
          active,     \* the keys with active set
          revokedAt,  \* history: key -> when it was revoked, for those that were
          validated,  \* key -> when it last validated (validatedAPIKeys)
          lookup,     \* consumer -> the request at the gate
          noted,      \* history: key -> when the database last vouched for it
          gate        \* history: the last answer

keyVars == <<time, active, revokedAt, validated, lookup, noted, gate>>

NoLookup == [pc |-> "idle"]

KeyInit ==
    /\ time = 1
    /\ active = {} /\ revokedAt = <<>> /\ validated = <<>> /\ noted = <<>>
    /\ lookup = [c \in Consumer |-> NoLookup]
    /\ gate = [pc |-> "none"]

Answered(c, served) ==
    /\ gate' = [pc |-> IF served THEN "served" ELSE "refused", key |-> lookup[c].key, at |-> time]
    /\ lookup' = [lookup EXCEPT ![c] = NoLookup]

\* The table once k has an entry of now.
Stamped(table, k) == [l \in DOMAIN table \cup {k} |-> IF l = k THEN time ELSE table[l]]

-----------------------------------------------------------------------------
\* CreateAPIKey and DeactivateAPIKey; deactivating twice changes nothing.
CreateAPIKey(k) ==
    /\ k \notin active \cup DOMAIN revokedAt
    /\ active' = active \cup {k}
    /\ UNCHANGED <<time, revokedAt, validated, lookup, noted, gate>>

DeactivateAPIKey(k) ==
    /\ k \in active
    /\ active' = active \ {k}
    /\ revokedAt' = Stamped(revokedAt, k)
    /\ UNCHANGED <<time, validated, lookup, noted, gate>>

\* GetAPIKeyByHash, or its time-out.
LookUp(c, k) ==
    /\ lookup[c] = NoLookup /\ k \in active \cup DOMAIN revokedAt
    /\ \E found \in {IF k \in active THEN "active" ELSE "inactive", "error"} :
         lookup' = [lookup EXCEPT ![c] = [pc |-> found, key |-> k, at |-> time]]
    /\ UNCHANGED <<time, active, revokedAt, validated, noted, gate>>

\* record.
Serve(c) ==
    /\ lookup[c].pc = "active"
    /\ validated' = Stamped(validated, lookup[c].key)
    /\ noted' = Stamped(noted, lookup[c].key)
    /\ Answered(c, TRUE)
    /\ UNCHANGED <<time, active, revokedAt>>

\* forget.
RefuseKey(c) ==
    /\ lookup[c].pc = "inactive"
    /\ validated' = Restrict(validated, DOMAIN validated \ {lookup[c].key})
    /\ Answered(c, FALSE)
    /\ UNCHANGED <<time, active, revokedAt, noted>>

Validated(k) == k \in DOMAIN validated /\ time - validated[k] < Grace

\* (Mutant: a key that is served in an outage has its grace renewed.)
LookupFailedRenews(c) ==
    /\ lookup[c].pc = "error"
    /\ validated' = IF Validated(lookup[c].key) THEN Stamped(validated, lookup[c].key)
                    ELSE validated
    /\ Answered(c, Validated(lookup[c].key))
    /\ UNCHANGED <<time, active, revokedAt, noted>>

LookupFailed(c) ==
    /\ lookup[c].pc = "error"
    /\ Answered(c, Validated(lookup[c].key))
    /\ UNCHANGED <<time, active, revokedAt, validated, noted>>

KeyTick ==
    /\ time < MaxKeyTime
    /\ \A c \in Consumer : lookup[c] # NoLookup => time - lookup[c].at < MaxLookup
    /\ time' = time + 1
    /\ UNCHANGED <<active, revokedAt, validated, lookup, noted, gate>>

KeyNext ==
    \/ \E k \in ApiKey : CreateAPIKey(k) \/ DeactivateAPIKey(k)
    \/ \E c \in Consumer :
         \/ \E k \in ApiKey : LookUp(c, k)
         \/ Serve(c) \/ RefuseKey(c) \/ LookupFailed(c)
    \/ KeyTick

-----------------------------------------------------------------------------
\* A revoked key is served no longer than the grace period and one look-up
\* after it was revoked, though a look-up of before may note it as valid after
\* another has struck it out; and a key in force that the database vouched for
\* within the grace period is not refused, whatever the requests beside it met.
RevokedKeyRunsOut ==
    /\ gate.pc = "served" /\ gate.key \in DOMAIN revokedAt =>
         gate.at < revokedAt[gate.key] + Grace + MaxLookup
    /\ gate.pc = "refused" /\ gate.at = time /\ gate.key \in active \cap DOMAIN noted =>
         time - noted[gate.key] >= Grace
=============================================================================
