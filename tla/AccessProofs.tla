----------------------------- MODULE AccessProofs -----------------------------
(***************************************************************************)
(* The four properties of Access, for any number of keys, consumers,        *)
(* accounts, requests, addresses and attempts.  The parts share no state,   *)
(* so each has an invariant of its own, that a step of another part leaves  *)
(* alone.                                                                   *)
(***************************************************************************)
EXTENDS Access, FiniteSetTheorems, TLAPS

-----------------------------------------------------------------------------
(* API keys.                                                                *)

LookupRecord == [pc : {"active", "inactive", "error"}, key : ApiKey, at : Nat]

Stamps(table) == \A k \in DOMAIN table : table[k] \in Nat /\ table[k] <= time

Known == active \cup DOMAIN revokedAt

KeysTyped ==
    /\ time \in Nat
    /\ Stamps(revokedAt) /\ Stamps(validated) /\ Stamps(noted)
    /\ lookup \in [Consumer -> LookupRecord \cup {NoLookup}]
    /\ active \cap DOMAIN revokedAt = {}
    /\ DOMAIN noted \subseteq Known

\* A look-up is short, and what it found was so when it began.
LookupOK(l) ==
    /\ l.key \in Known /\ l.at <= time /\ time <= l.at + MaxLookup
    /\ l.pc = "active" /\ l.key \in DOMAIN revokedAt => l.at <= revokedAt[l.key]
    /\ l.pc = "inactive" => l.key \in DOMAIN revokedAt

\* A key is noted as valid at most one look-up after it was revoked; of one that
\* is in force, what the database last said is still noted.
NotesOK ==
    /\ \A k \in DOMAIN validated \cap DOMAIN revokedAt :
         validated[k] <= revokedAt[k] + MaxLookup
    /\ \A k \in active \cap DOMAIN noted : k \in DOMAIN validated /\ validated[k] = noted[k]

GateOK == gate.pc # "none" => gate.key \in Known /\ gate.at \in Nat /\ gate.at <= time

KeysInv ==
    /\ KeysTyped
    /\ \A c \in Consumer : lookup[c] # NoLookup => LookupOK(lookup[c])
    /\ NotesOK
    /\ GateOK
    /\ RevokedKeyRunsOut

LEMMA StampedIs ==
    ASSUME NEW table, NEW k
    PROVE  /\ DOMAIN Stamped(table, k) = DOMAIN table \cup {k}
           /\ Stamped(table, k)[k] = time
           /\ \A l \in DOMAIN table : l # k => Stamped(table, k)[l] = table[l]
BY DEF Stamped

LEMMA StampedIsStamps ==
    ASSUME NEW table, NEW k, Stamps(table), time \in Nat
    PROVE  Stamps(Stamped(table, k))
<1>1. /\ DOMAIN Stamped(table, k) = DOMAIN table \cup {k} /\ Stamped(table, k)[k] = time
      /\ \A l \in DOMAIN table : l # k => Stamped(table, k)[l] = table[l]
  BY StampedIs
<1> QED BY <1>1 DEF Stamps

LEMMA KeyInitInv == KeyInit => KeysInv
<1> SUFFICES ASSUME KeyInit PROVE KeysInv
  OBVIOUS
<1>1. DOMAIN revokedAt = {} /\ DOMAIN validated = {} /\ DOMAIN noted = {}
  BY DEF KeyInit
<1>2. gate.pc = "none"
  BY DEF KeyInit
<1>3. KeysTyped
  BY <1>1 DEF KeyInit, KeysTyped, Stamps
<1>4. \A c \in Consumer : lookup[c] = NoLookup
  BY DEF KeyInit
<1> QED BY <1>1, <1>2, <1>3, <1>4 DEF KeysInv, NotesOK, GateOK, RevokedKeyRunsOut

LEMMA CreateKeyInv ==
    ASSUME KeysInv, NEW k \in ApiKey, CreateAPIKey(k) PROVE KeysInv'
<1>1. /\ k \notin Known /\ active' = active \cup {k}
      /\ UNCHANGED <<time, revokedAt, validated, lookup, noted, gate>>
  BY DEF CreateAPIKey, Known
<1>2. KeysTyped'
  BY <1>1 DEF KeysInv, KeysTyped, Known, Stamps
<1>3. \A c \in Consumer : lookup'[c] # NoLookup => LookupOK(lookup[c])'
  BY <1>1 DEF KeysInv, LookupOK, Known
<1>4. NotesOK' /\ GateOK' /\ RevokedKeyRunsOut'
  BY <1>1 DEF KeysInv, KeysTyped, NotesOK, GateOK, RevokedKeyRunsOut, Known
<1> QED BY <1>1, <1>2, <1>3, <1>4 DEF KeysInv

LEMMA DeactivateKeyInv ==
    ASSUME KeysInv, NEW k \in ApiKey, DeactivateAPIKey(k) PROVE KeysInv'
<1>1. /\ k \in active /\ active' = active \ {k}
      /\ DOMAIN revokedAt' = DOMAIN revokedAt \cup {k} /\ revokedAt'[k] = time
      /\ \A l \in DOMAIN revokedAt : l # k => revokedAt'[l] = revokedAt[l]
      /\ UNCHANGED <<time, validated, lookup, noted, gate>>
  <2>1. revokedAt' = Stamped(revokedAt, k)
    BY DEF DeactivateAPIKey
  <2>2. /\ DOMAIN Stamped(revokedAt, k) = DOMAIN revokedAt \cup {k}
        /\ Stamped(revokedAt, k)[k] = time
        /\ \A l \in DOMAIN revokedAt : l # k => Stamped(revokedAt, k)[l] = revokedAt[l]
    BY StampedIs
  <2> QED BY <2>1, <2>2 DEF DeactivateAPIKey
<1>2. k \notin DOMAIN revokedAt /\ Known' = Known /\ time \in Nat
  BY <1>1 DEF KeysInv, KeysTyped, Known
<1>3. KeysTyped'
  BY <1>1, <1>2 DEF KeysInv, KeysTyped, Stamps
<1>4. \A c \in Consumer : lookup'[c] # NoLookup => LookupOK(lookup[c])'
  BY <1>1, <1>2 DEF KeysInv, LookupOK
<1>5. NotesOK'
  BY <1>1, <1>2, KeysAssumption DEF KeysInv, KeysTyped, NotesOK, Stamps
<1>6. GateOK'
  BY <1>1, <1>2 DEF KeysInv, GateOK
<1>7. RevokedKeyRunsOut'
  BY <1>1, <1>2, KeysAssumption DEF KeysInv, GateOK, RevokedKeyRunsOut
<1> QED BY <1>1, <1>3, <1>4, <1>5, <1>6, <1>7 DEF KeysInv

LEMMA LookUpInv ==
    ASSUME KeysInv, NEW c \in Consumer, NEW k \in ApiKey, LookUp(c, k) PROVE KeysInv'
<1>1. PICK found \in {"active", "inactive", "error"} :
        /\ found = "active" => k \in active
        /\ found = "inactive" => k \notin active
        /\ lookup' = [lookup EXCEPT ![c] = [pc |-> found, key |-> k, at |-> time]]
  <2>1. PICK found \in {IF k \in active THEN "active" ELSE "inactive", "error"} :
          lookup' = [lookup EXCEPT ![c] = [pc |-> found, key |-> k, at |-> time]]
    BY DEF LookUp
  <2> QED BY <2>1
<1>2. PICK l : l = [pc |-> found, key |-> k, at |-> time]
  OBVIOUS
<1>3. /\ time \in Nat /\ lookup \in [Consumer -> LookupRecord \cup {NoLookup}]
      /\ active \cap DOMAIN revokedAt = {}
  BY DEF KeysInv, KeysTyped
<1>4. l \in LookupRecord /\ l.pc = found /\ l.key = k /\ l.at = time
  BY <1>2, <1>3 DEF LookupRecord
<1>5. /\ lookup' \in [Consumer -> LookupRecord \cup {NoLookup}] /\ lookup'[c] = l
      /\ \A d \in Consumer : d # c => lookup'[d] = lookup[d]
  BY <1>1, <1>2, <1>3, <1>4
<1>6. UNCHANGED <<time, active, revokedAt, validated, noted, gate>> /\ k \in Known
  BY DEF LookUp, Known
<1>7. KeysTyped'
  BY <1>5, <1>6 DEF KeysInv, KeysTyped, Known, Stamps
<1>8. LookupOK(l)
  BY <1>1, <1>3, <1>4, <1>6, KeysAssumption DEF LookupOK, Known
<1>9. \A d \in Consumer : lookup'[d] # NoLookup => LookupOK(lookup[d])'
  BY <1>5, <1>6, <1>8 DEF KeysInv, LookupOK, Known
<1>10. NotesOK' /\ GateOK' /\ RevokedKeyRunsOut'
  BY <1>6 DEF KeysInv, NotesOK, GateOK, RevokedKeyRunsOut, Known
<1> QED BY <1>7, <1>9, <1>10 DEF KeysInv

\* What an answer leaves, once it is known what it noted.
LEMMA AnsweredInv ==
    ASSUME KeysInv, NEW c \in Consumer, NEW served \in BOOLEAN, Answered(c, served),
           lookup[c] # NoLookup, UNCHANGED <<time, active, revokedAt>>,
           Stamps(validated)', Stamps(noted)', DOMAIN noted' \subseteq Known, NotesOK',
           served => \A k \in DOMAIN revokedAt :
                       k = lookup[c].key => time < revokedAt[k] + Grace + MaxLookup,
           ~served => \A k \in active \cap DOMAIN noted' :
                       k = lookup[c].key => time - noted'[k] >= Grace
    PROVE  KeysInv'
<1>1. /\ lookup \in [Consumer -> LookupRecord \cup {NoLookup}] /\ time \in Nat
      /\ LookupOK(lookup[c])
  BY DEF KeysInv, KeysTyped
<1>2. /\ lookup' \in [Consumer -> LookupRecord \cup {NoLookup}] /\ lookup'[c] = NoLookup
      /\ \A d \in Consumer : d # c => lookup'[d] = lookup[d]
  BY <1>1 DEF Answered
<1>3. /\ gate'.pc = IF served THEN "served" ELSE "refused"
      /\ gate'.key = lookup[c].key /\ gate'.at = time
  BY DEF Answered
<1>4. Known' = Known
  BY DEF Known
<1>5. KeysTyped'
  BY <1>2, <1>4 DEF KeysInv, KeysTyped, Stamps
<1>6. \A d \in Consumer : lookup'[d] # NoLookup => LookupOK(lookup[d])'
  BY <1>2, <1>4 DEF KeysInv, LookupOK
<1>7. GateOK'
  BY <1>1, <1>3, <1>4 DEF GateOK, LookupOK
<1>8. RevokedKeyRunsOut'
  BY <1>3 DEF RevokedKeyRunsOut
<1> QED BY <1>5, <1>6, <1>7, <1>8 DEF KeysInv

LEMMA ServeInv ==
    ASSUME KeysInv, NEW c \in Consumer, Serve(c) PROVE KeysInv'
<1> PICK k : k = lookup[c].key
  OBVIOUS
<1>1. /\ lookup[c].pc = "active" /\ lookup[c] # NoLookup /\ LookupOK(lookup[c])
      /\ Answered(c, TRUE) /\ UNCHANGED <<time, active, revokedAt>>
  <2>1. lookup[c] # NoLookup
    BY DEF Serve, NoLookup
  <2> QED BY <2>1 DEF Serve, KeysInv
<1>2. /\ time \in Nat /\ k \in Known /\ Stamps(revokedAt)
      /\ k \in DOMAIN revokedAt => time <= revokedAt[k] + MaxLookup
  <2>1. lookup[c] \in LookupRecord
    BY <1>1 DEF KeysInv, KeysTyped
  <2>2. lookup[c].at \in Nat
    BY <2>1 DEF LookupRecord
  <2>3. time \in Nat /\ Stamps(revokedAt)
    BY DEF KeysInv, KeysTyped
  <2> QED BY <1>1, <2>2, <2>3, KeysAssumption DEF LookupOK, Stamps
<1>3. validated' = Stamped(validated, k) /\ noted' = Stamped(noted, k)
  BY DEF Serve
<1>4. Stamps(Stamped(validated, k)) /\ Stamps(Stamped(noted, k))
  BY <1>2, StampedIsStamps DEF KeysInv, KeysTyped
<1>5. Stamps(validated)' /\ Stamps(noted)'
  BY <1>1, <1>3, <1>4 DEF Stamps
<1>6. /\ DOMAIN validated' = DOMAIN validated \cup {k} /\ validated'[k] = time
      /\ \A l \in DOMAIN validated : l # k => validated'[l] = validated[l]
      /\ DOMAIN noted' = DOMAIN noted \cup {k} /\ noted'[k] = time
      /\ \A l \in DOMAIN noted : l # k => noted'[l] = noted[l]
  <2>1. /\ DOMAIN Stamped(validated, k) = DOMAIN validated \cup {k}
        /\ Stamped(validated, k)[k] = time
        /\ \A l \in DOMAIN validated : l # k => Stamped(validated, k)[l] = validated[l]
    BY StampedIs
  <2>2. /\ DOMAIN Stamped(noted, k) = DOMAIN noted \cup {k}
        /\ Stamped(noted, k)[k] = time
        /\ \A l \in DOMAIN noted : l # k => Stamped(noted, k)[l] = noted[l]
    BY StampedIs
  <2> QED BY <1>3, <2>1, <2>2
<1>7. DOMAIN noted' \subseteq Known
  BY <1>2, <1>6 DEF KeysInv, KeysTyped
<1>8. NotesOK'
  BY <1>1, <1>2, <1>6 DEF KeysInv, NotesOK
<1>9. \A l \in DOMAIN revokedAt : l = k => time < revokedAt[l] + Grace + MaxLookup
  BY <1>2, KeysAssumption DEF Stamps
<1> QED BY <1>1, <1>5, <1>7, <1>8, <1>9, AnsweredInv

LEMMA RefuseKeyInv ==
    ASSUME KeysInv, NEW c \in Consumer, RefuseKey(c) PROVE KeysInv'
<1> PICK k : k = lookup[c].key
  OBVIOUS
<1>1. /\ lookup[c].pc = "inactive" /\ lookup[c] # NoLookup /\ LookupOK(lookup[c])
      /\ Answered(c, FALSE) /\ UNCHANGED <<time, active, revokedAt, noted>>
  <2>1. lookup[c] # NoLookup
    BY DEF RefuseKey, NoLookup
  <2> QED BY <2>1 DEF RefuseKey, KeysInv
<1>2. k \in DOMAIN revokedAt /\ k \notin active
  BY <1>1 DEF LookupOK, KeysInv, KeysTyped
<1>3. /\ DOMAIN validated' = DOMAIN validated \ {k}
      /\ \A l \in DOMAIN validated : l # k => validated'[l] = validated[l]
  BY DEF RefuseKey, Restrict
<1>4. Stamps(validated)' /\ Stamps(noted)'
  BY <1>1, <1>3 DEF KeysInv, KeysTyped, Stamps
<1>5. NotesOK'
  BY <1>1, <1>2, <1>3 DEF KeysInv, NotesOK
<1>6. DOMAIN noted' \subseteq Known
  BY <1>1 DEF KeysInv, KeysTyped
<1> QED BY <1>1, <1>2, <1>4, <1>5, <1>6, AnsweredInv

LEMMA LookupFailedInv ==
    ASSUME KeysInv, NEW c \in Consumer, LookupFailed(c) PROVE KeysInv'
<1> PICK k : k = lookup[c].key
  OBVIOUS
<1> PICK served \in BOOLEAN : served = Validated(k)
  BY DEF Validated
<1>1. /\ lookup[c] # NoLookup /\ Answered(c, served)
      /\ UNCHANGED <<time, active, revokedAt, validated, noted>>
  BY DEF LookupFailed, NoLookup, Answered
<1>2. time \in Nat /\ Stamps(revokedAt) /\ Stamps(validated) /\ Stamps(noted)
  BY DEF KeysInv, KeysTyped
<1>3. ASSUME served, NEW l \in DOMAIN revokedAt, l = k
      PROVE  time < revokedAt[l] + Grace + MaxLookup
  <2>1. Validated(k)
    BY <1>3, Zenon
  <2>2. l \in DOMAIN validated /\ validated[l] \in Nat /\ time - validated[l] < Grace
    BY <1>2, <1>3, <2>1 DEF Validated, Stamps
  <2> QED BY <1>2, <1>3, <2>2, KeysAssumption DEF KeysInv, NotesOK, Stamps
<1>4. ASSUME ~served, NEW l \in active \cap DOMAIN noted, l = k
      PROVE  time - noted[l] >= Grace
  <2>1. ~Validated(k)
    BY <1>4, Zenon
  <2>2. l \in DOMAIN validated /\ validated[l] = noted[l] /\ noted[l] \in Nat
    BY <1>2, <1>4 DEF KeysInv, NotesOK, Stamps
  <2> QED BY <1>2, <1>4, <2>1, <2>2, KeysAssumption DEF Validated
<1>5. NotesOK' /\ Stamps(validated)' /\ Stamps(noted)' /\ DOMAIN noted' \subseteq Known
  BY <1>1, <1>2 DEF KeysInv, KeysTyped, NotesOK, Stamps
<1> QED BY <1>1, <1>3, <1>4, <1>5, AnsweredInv

LEMMA KeyTickInv ==
    ASSUME KeysInv, KeyTick PROVE KeysInv'
<1>1. /\ time \in Nat /\ time' = time + 1
      /\ \A c \in Consumer : lookup[c] # NoLookup => time - lookup[c].at < MaxLookup
      /\ UNCHANGED <<active, revokedAt, validated, lookup, noted, gate>>
  BY DEF KeyTick, KeysInv, KeysTyped
<1>2. Known' = Known
  BY <1>1 DEF Known
<1>3. KeysTyped'
  BY <1>1, <1>2 DEF KeysInv, KeysTyped, Stamps
<1>4. ASSUME NEW c \in Consumer, lookup[c] # NoLookup PROVE LookupOK(lookup[c])'
  <2>1. lookup[c] \in LookupRecord /\ LookupOK(lookup[c])
    BY <1>4 DEF KeysInv, KeysTyped
  <2>2. lookup[c].at \in Nat
    BY <2>1 DEF LookupRecord
  <2> QED BY <1>1, <1>2, <1>4, <2>1, <2>2, KeysAssumption DEF LookupOK
<1>5. NotesOK' /\ GateOK'
  BY <1>1, <1>2 DEF KeysInv, NotesOK, GateOK
<1>6. RevokedKeyRunsOut'
  BY <1>1 DEF KeysInv, GateOK, RevokedKeyRunsOut
<1> QED BY <1>1, <1>3, <1>4, <1>5, <1>6 DEF KeysInv

LEMMA KeyStep == KeysInv /\ [KeyNext]_keyVars => KeysInv'
<1> SUFFICES ASSUME KeysInv, [KeyNext]_keyVars PROVE KeysInv'
  OBVIOUS
<1>1. CASE KeyNext
  BY <1>1, CreateKeyInv, DeactivateKeyInv, LookUpInv, ServeInv, RefuseKeyInv,
     LookupFailedInv, KeyTickInv DEF KeyNext
<1>2. CASE UNCHANGED keyVars
  <2>1. UNCHANGED <<time, active, revokedAt, validated, lookup, noted, gate>>
    BY <1>2 DEF keyVars
  <2>2. KeysTyped' /\ NotesOK' /\ GateOK' /\ RevokedKeyRunsOut'
    BY <2>1 DEF KeysInv, KeysTyped, NotesOK, GateOK, RevokedKeyRunsOut, Known, Stamps
  <2>3. \A c \in Consumer : lookup'[c] # NoLookup => LookupOK(lookup[c])'
    BY <2>1 DEF KeysInv, LookupOK, Known
  <2> QED BY <2>2, <2>3 DEF KeysInv
<1> QED BY <1>1, <1>2

\* A revoked key is served no longer than the grace period and one look-up, and
\* one in force that was vouched for within the grace period is not refused.
THEOREM RevokedKeysRunOut == Spec => []RevokedKeyRunsOut
<1>1. Init => KeysInv
  BY KeyInitInv DEF Init
<1>2. KeysInv /\ [Next]_accessVars => KeysInv'
  <2>1. [Next]_accessVars => [KeyNext]_keyVars
    BY DEF Next, accessVars
  <2> QED BY <2>1, KeyStep
<1>3. KeysInv => RevokedKeyRunsOut
  BY DEF KeysInv
<1> QED BY <1>1, <1>2, <1>3, PTL DEF Spec

-----------------------------------------------------------------------------
(* Administrators.                                                          *)

PageKind == {"demote", "deactivate", "promote", "activate"}
Taking   == {"demote", "deactivate"}

PageRecord ==
    [pc : {"count", "write"}, user : User, kind : PageKind, stale : BOOLEAN]

AccountsTyped ==
    /\ users \in [User -> Account \cup {Absent}]
    /\ page \in [Request -> PageRecord \cup {NoPage}]
    /\ signedIn \subseteq User /\ login \subseteq User
    /\ guarded \in BOOLEAN

\* u is not the last administrator who can sign in.
Spared(u) == u \in ActiveAdmins => \E v \in ActiveAdmins : v # u

\* What a request has found out holds until the table changes.
PageOK(p) == p.pc = "write" /\ ~p.stale /\ p.kind \in Taking => Spared(p.user)

\* There is an account, or somebody was let in as one.
Settled == (\E u \in User : users[u] # Absent) \/ signedIn \cup login # {}

AccountsInv ==
    /\ AccountsTyped
    /\ \A r \in Request : PageOK(page[r])
    /\ guarded /\ Settled => ActiveAdmins # {}

LEMMA AccountInitInv == AccountInit => AccountsInv
<1> SUFFICES ASSUME AccountInit PROVE AccountsInv
  OBVIOUS
<1>1. AccountsTyped
  BY DEF AccountInit, AccountsTyped
<1>2. \A r \in Request : page[r].pc = "idle"
  BY DEF AccountInit, NoPage
<1>3. \A r \in Request : PageOK(page[r])
  BY <1>2 DEF PageOK
<1>4. ~Settled
  BY DEF AccountInit, Settled
<1> QED BY <1>1, <1>3, <1>4 DEF AccountsInv

LEMMA OvertakenIs ==
    ASSUME NEW pages \in [Request -> PageRecord \cup {NoPage}]
    PROVE  /\ Overtake(pages) \in [Request -> PageRecord \cup {NoPage}]
           /\ \A r \in Request : \/ Overtake(pages)[r] = NoPage
                                 \/ Overtake(pages)[r].stale = TRUE
<1>1. ASSUME NEW r \in Request
      PROVE  /\ Overtake(pages)[r] \in PageRecord \cup {NoPage}
             /\ Overtake(pages)[r] = NoPage \/ Overtake(pages)[r].stale = TRUE
  <2>1. CASE pages[r] = NoPage
    BY <2>1 DEF Overtake
  <2>2. CASE pages[r] \in PageRecord /\ pages[r] # NoPage
    <3>1. PICK p : p = [pages[r] EXCEPT !.stale = TRUE]
      OBVIOUS
    <3>2. p \in PageRecord /\ p.stale = TRUE
      BY <2>2, <3>1 DEF PageRecord
    <3> QED BY <2>2, <3>1, <3>2 DEF Overtake
  <2> QED BY <2>1, <2>2
<1>2. Overtake(pages) \in [Request -> PageRecord \cup {NoPage}]
  BY <1>1 DEF Overtake
<1> QED BY <1>1, <1>2

\* A step that leaves the accounts alone.
LEMMA SameAccounts ==
    ASSUME AccountsInv, UNCHANGED <<users, guarded>>, AccountsTyped',
           \A r \in Request : page'[r] = page[r] \/ page'[r] = NoPage,
           signedIn' \cup login' # {} => signedIn \cup login # {} \/ ActiveAdmins # {}
    PROVE  AccountsInv'
<1>1. ActiveAdmins' = ActiveAdmins
  BY DEF ActiveAdmins, IsAdmin
<1>2. \A r \in Request : PageOK(page[r])'
  BY <1>1 DEF AccountsInv, PageOK, Spared, NoPage
<1>3. guarded' /\ Settled' => ActiveAdmins' # {}
  BY <1>1 DEF AccountsInv, Settled
<1> QED BY <1>2, <1>3 DEF AccountsInv

\* A step that changes the table, and makes stale what the requests have read.
LEMMA AccountsChange ==
    ASSUME AccountsInv, UNCHANGED <<signedIn, login>>,
           NEW pages \in [Request -> PageRecord \cup {NoPage}],
           page' = Overtake(pages),
           users' \in [User -> Account \cup {Absent}], guarded' \in BOOLEAN,
           guarded' => ActiveAdmins' # {}
    PROVE  AccountsInv'
<1>1. AccountsTyped'
  BY OvertakenIs DEF AccountsInv, AccountsTyped
<1>2. \A r \in Request : PageOK(page[r])'
  <2> SUFFICES ASSUME NEW r \in Request PROVE PageOK(page[r])'
    OBVIOUS
  <2>1. page'[r] = NoPage \/ page'[r].stale = TRUE
    BY OvertakenIs
  <2> QED BY <2>1 DEF PageOK, NoPage
<1> QED BY <1>1, <1>2 DEF AccountsInv

\* What a change of one account does to the table.
LEMMA ChangedIs ==
    ASSUME users \in [User -> Account \cup {Absent}], NEW u \in User, users[u] # Absent,
           NEW kind \in PageKind
    PROVE  /\ Changed(u, kind) \in [User -> Account \cup {Absent}]
           /\ \A v \in User : v # u => Changed(u, kind)[v] = users[v]
           /\ Changed(u, kind)[u] # Absent
           /\ kind \notin Taking /\ u \in ActiveAdmins =>
                Changed(u, kind)[u].role = "admin" /\ Changed(u, kind)[u].active
<1> PICK b : b = users[u]
  OBVIOUS
<1>1. b \in Account
  OBVIOUS
<1> PICK a : a = CASE kind = "demote" -> [b EXCEPT !.role = "driver"]
                   [] kind = "deactivate" -> [b EXCEPT !.active = FALSE]
                   [] kind = "promote" -> [b EXCEPT !.role = "admin"]
                   [] kind = "activate" -> [b EXCEPT !.active = TRUE]
  OBVIOUS
<1>2. a \in Account
  BY <1>1 DEF Account, PageKind
<1>3. kind \notin Taking /\ b.role = "admin" /\ b.active => a.role = "admin" /\ a.active
  BY <1>1 DEF Account, PageKind, Taking
<1>4. Changed(u, kind) = [users EXCEPT ![u] = a]
  BY DEF Changed
<1>5. a # Absent
  BY <1>2, AbsentIsNoAccount
<1> QED BY <1>2, <1>3, <1>4, <1>5 DEF ActiveAdmins, IsAdmin

LEMMA SessionsInv ==
    ASSUME AccountsInv, NEW u \in User, CheckPassword(u) \/ IssueToken(u) \/ EndSession(u)
    PROVE  AccountsInv'
<1>1. /\ UNCHANGED <<users, page, guarded>>
      /\ signedIn' \subseteq User /\ login' \subseteq User
      /\ signedIn' \cup login' # {} => signedIn \cup login # {} \/ ActiveAdmins # {}
  BY DEF AccountsInv, AccountsTyped, CheckPassword, IssueToken, EndSession, CanLogIn
<1>2. AccountsTyped'
  BY <1>1 DEF AccountsInv, AccountsTyped
<1> QED BY <1>1, <1>2, SameAccounts

LEMMA ReadUserInv ==
    ASSUME AccountsInv, NEW r \in Request, NEW u \in User, NEW kind \in PageKind,
           ReadUser(r, u, kind)
    PROVE  AccountsInv'
<1> PICK p : p = [pc |-> IF kind \in {"demote", "deactivate"} /\ u \in ActiveAdmins
                         THEN "count" ELSE "write",
                  user |-> u, kind |-> kind, stale |-> FALSE]
  OBVIOUS
<1>1. /\ p \in PageRecord /\ p.user = u /\ p.kind = kind
      /\ p.pc = "write" /\ kind \in Taking => u \notin ActiveAdmins
  BY DEF PageRecord, PageKind, Taking
<1>2. /\ page' \in [Request -> PageRecord \cup {NoPage}] /\ page'[r] = p
      /\ \A q \in Request : q # r => page'[q] = page[q]
  BY <1>1 DEF ReadUser, AccountsInv, AccountsTyped
<1>3. UNCHANGED <<users, signedIn, login, guarded>>
  BY DEF ReadUser
<1>4. ActiveAdmins' = ActiveAdmins
  BY <1>3 DEF ActiveAdmins, IsAdmin
<1>5. AccountsTyped'
  BY <1>2, <1>3 DEF AccountsInv, AccountsTyped
<1>6. PageOK(p)
  BY <1>1 DEF PageOK, Spared
<1>7. \A q \in Request : PageOK(page[q])'
  BY <1>2, <1>4, <1>6 DEF AccountsInv, PageOK, Spared
<1> QED BY <1>3, <1>4, <1>5, <1>7 DEF AccountsInv, Settled

LEMMA CountAdminsInv ==
    ASSUME AccountsInv, NEW r \in Request, CountAdmins(r) PROVE AccountsInv'
<1>1. /\ page[r].pc = "count" /\ page[r] \in PageRecord
      /\ UNCHANGED <<users, signedIn, login, guarded>>
  <2>1. page[r].pc = "count" /\ page[r] # NoPage
    BY DEF CountAdmins, NoPage
  <2> QED BY <2>1 DEF CountAdmins, AccountsInv, AccountsTyped
<1>2. CASE ~Enough
  <2>1. page' = [page EXCEPT ![r] = NoPage]
    BY <1>2 DEF CountAdmins
  <2>2. AccountsTyped' /\ \A q \in Request : page'[q] = page[q] \/ page'[q] = NoPage
    BY <1>1, <2>1 DEF AccountsInv, AccountsTyped
  <2> QED BY <1>1, <2>2, SameAccounts
<1>3. CASE Enough
  <2> PICK p : p = [page[r] EXCEPT !.pc = "write"]
    OBVIOUS
  <2>1. p \in PageRecord
    BY <1>1 DEF PageRecord
  <2>2. page' = [page EXCEPT ![r] = p]
    BY <1>3 DEF CountAdmins
  <2>3. /\ page' \in [Request -> PageRecord \cup {NoPage}] /\ page'[r] = p
        /\ \A q \in Request : q # r => page'[q] = page[q]
    BY <2>1, <2>2 DEF AccountsInv, AccountsTyped
  <2>4. \A u \in User : \E v \in ActiveAdmins : v # u
    <3> SUFFICES ASSUME NEW u \in User, \A v \in ActiveAdmins : v = u PROVE FALSE
      OBVIOUS
    <3>1. ActiveAdmins \subseteq {u}
      OBVIOUS
    <3>2. IsFiniteSet({u}) /\ Cardinality({u}) = 1
      BY FS_Singleton
    <3>3. /\ IsFiniteSet(ActiveAdmins)
          /\ Cardinality(ActiveAdmins) <= Cardinality({u})
      BY <3>1, <3>2, FS_Subset
    <3>4. Cardinality(ActiveAdmins) \in Nat
      BY <3>3, FS_CardinalityType
    <3> QED BY <1>3, <3>2, <3>3, <3>4 DEF Enough
  <2>5. PageOK(p)
    BY <2>1, <2>4 DEF PageRecord, PageOK, Spared
  <2>6. ActiveAdmins' = ActiveAdmins
    BY <1>1 DEF ActiveAdmins, IsAdmin
  <2>7. AccountsTyped'
    BY <1>1, <2>3 DEF AccountsInv, AccountsTyped
  <2>8. \A q \in Request : PageOK(page[q])'
    BY <2>3, <2>5, <2>6 DEF AccountsInv, PageOK, Spared
  <2> QED BY <1>1, <2>6, <2>7, <2>8 DEF AccountsInv, Settled
<1> QED BY <1>2, <1>3

LEMMA WriteUserInv ==
    ASSUME AccountsInv, NEW r \in Request, WriteUser(r) PROVE AccountsInv'
<1> PICK p : p = page[r]
  OBVIOUS
<1>1. /\ p \in PageRecord /\ p.pc = "write" /\ PageOK(p)
      /\ p.user \in User /\ p.kind \in PageKind /\ p.stale \in BOOLEAN
  <2>1. p.pc = "write" /\ p # NoPage
    BY DEF WriteUser, NoPage
  <2>2. p \in PageRecord /\ PageOK(p)
    BY <2>1 DEF AccountsInv, AccountsTyped
  <2> QED BY <2>1, <2>2 DEF PageRecord
<1>2. /\ users' = IF users[p.user] # Absent THEN Changed(p.user, p.kind) ELSE users
      /\ page' = IF users' = users THEN [page EXCEPT ![r] = NoPage]
                 ELSE Overtake([page EXCEPT ![r] = NoPage])
      /\ guarded' = (guarded /\ ~(p.stale /\ p.kind \in {"demote", "deactivate"}))
      /\ UNCHANGED <<signedIn, login>>
  BY DEF WriteUser
<1>3. PICK pages : pages = [page EXCEPT ![r] = NoPage]
  OBVIOUS
<1>4. /\ pages \in [Request -> PageRecord \cup {NoPage}]
      /\ \A q \in Request : pages[q] = page[q] \/ pages[q] = NoPage
  BY <1>3 DEF AccountsInv, AccountsTyped
<1>5. /\ guarded' \in BOOLEAN
      /\ guarded' => guarded /\ ~(p.stale /\ p.kind \in Taking)
  BY <1>2 DEF Taking
<1>6. CASE users' = users
  <2>1. page' = pages
    BY <1>2, <1>3, <1>6
  <2>2. ActiveAdmins' = ActiveAdmins
    BY <1>6 DEF ActiveAdmins, IsAdmin
  <2>3. AccountsTyped'
    BY <1>2, <1>4, <1>5, <1>6, <2>1 DEF AccountsInv, AccountsTyped
  <2>4. \A q \in Request : PageOK(page[q])'
    BY <1>4, <2>1, <2>2 DEF AccountsInv, PageOK, Spared, NoPage
  <2> QED BY <1>2, <1>5, <1>6, <2>2, <2>3, <2>4 DEF AccountsInv, Settled
<1>7. CASE users' # users
  <2>1. /\ users[p.user] # Absent /\ users' = Changed(p.user, p.kind)
        /\ page' = Overtake(pages)
    BY <1>2, <1>3, <1>7
  <2>2. /\ users' \in [User -> Account \cup {Absent}]
        /\ \A v \in User : v # p.user => users'[v] = users[v]
        /\ users'[p.user] # Absent
        /\ p.kind \notin Taking /\ p.user \in ActiveAdmins =>
             users'[p.user].role = "admin" /\ users'[p.user].active
    BY <1>1, <2>1, ChangedIs DEF AccountsInv, AccountsTyped
  <2>3. ASSUME guarded' PROVE ActiveAdmins' # {}
    <3>1. guarded /\ ActiveAdmins # {}
      BY <1>1, <1>5, <2>1, <2>3 DEF AccountsInv, Settled
    <3>2. PICK v \in ActiveAdmins : v # p.user \/ p.kind \notin Taking
      BY <1>1, <1>5, <2>3, <3>1 DEF PageOK, Spared
    <3> QED BY <2>2, <3>2 DEF ActiveAdmins, IsAdmin
  <2> QED BY <1>2, <1>4, <1>5, <2>1, <2>2, <2>3, AccountsChange
<1> QED BY <1>6, <1>7

LEMMA PageFailsInv ==
    ASSUME AccountsInv, NEW r \in Request, PageFails(r) PROVE AccountsInv'
<1>1. /\ UNCHANGED <<users, signedIn, login, guarded>>
      /\ page' = [page EXCEPT ![r] = NoPage]
  BY DEF PageFails
<1>2. AccountsTyped' /\ \A q \in Request : page'[q] = page[q] \/ page'[q] = NoPage
  BY <1>1 DEF AccountsInv, AccountsTyped
<1> QED BY <1>1, <1>2, SameAccounts

LEMMA CreateUserInv ==
    ASSUME AccountsInv, NEW u \in User, NEW role \in {"admin", "driver"}, CreateUser(u, role)
    PROVE  AccountsInv'
<1> PICK a : a = [role |-> role, active |-> TRUE]
  OBVIOUS
<1>1. a \in Account
  BY DEF Account
<1>2. /\ users[u] = Absent /\ signedIn # {} /\ users' = [users EXCEPT ![u] = a]
      /\ page' = Overtake(page) /\ UNCHANGED <<signedIn, login, guarded>>
  BY DEF CreateUser, AnAdminActs
<1>3. /\ users' \in [User -> Account \cup {Absent}]
      /\ \A v \in User : v # u => users'[v] = users[v]
  BY <1>1, <1>2 DEF AccountsInv, AccountsTyped
<1>4. guarded' \in BOOLEAN /\ (guarded' => ActiveAdmins' # {})
  BY <1>2, <1>3 DEF AccountsInv, AccountsTyped, Settled, ActiveAdmins, IsAdmin
<1>5. page \in [Request -> PageRecord \cup {NoPage}]
  BY DEF AccountsInv, AccountsTyped
<1> QED BY <1>2, <1>3, <1>4, <1>5, AccountsChange

LEMMA ApiUpdateRoleInv ==
    ASSUME AccountsInv, NEW u \in User, NEW kind \in {"demote", "promote"},
           ApiUpdateRole(u, kind)
    PROVE  AccountsInv'
<1>1. /\ users[u] # Absent /\ users' = Changed(u, kind)
      /\ page' = Overtake(page) /\ UNCHANGED <<signedIn, login>>
      /\ guarded' = (guarded /\ ~(kind = "demote" /\ u \in ActiveAdmins))
  BY DEF ApiUpdateRole
<1>2. /\ users' \in [User -> Account \cup {Absent}]
      /\ \A v \in User : v # u => users'[v] = users[v]
      /\ kind = "promote" /\ u \in ActiveAdmins => users'[u].role = "admin" /\ users'[u].active
      /\ users'[u] # Absent
  BY <1>1, ChangedIs DEF AccountsInv, AccountsTyped, PageKind, Taking
<1>3. guarded' \in BOOLEAN /\ (guarded' => guarded /\ ~(kind = "demote" /\ u \in ActiveAdmins))
  BY <1>1
<1>4. ASSUME guarded' PROVE ActiveAdmins' # {}
  <2>1. PICK v \in ActiveAdmins : TRUE
    BY <1>1, <1>3, <1>4 DEF AccountsInv, Settled
  <2> QED BY <1>2, <1>3, <1>4, <2>1 DEF ActiveAdmins, IsAdmin
<1>5. page \in [Request -> PageRecord \cup {NoPage}]
  BY DEF AccountsInv, AccountsTyped
<1> QED BY <1>1, <1>2, <1>3, <1>4, <1>5, AccountsChange

LEMMA ApiDeleteUserInv ==
    ASSUME AccountsInv, NEW u \in User, ApiDeleteUser(u) PROVE AccountsInv'
<1>1. /\ users[u] # Absent /\ users' = [users EXCEPT ![u] = Absent]
      /\ page' = Overtake(page) /\ UNCHANGED <<signedIn, login>>
      /\ guarded' = (guarded /\ u \notin ActiveAdmins)
  BY DEF ApiDeleteUser
<1>2. /\ users' \in [User -> Account \cup {Absent}]
      /\ \A v \in User : v # u => users'[v] = users[v]
  BY <1>1 DEF AccountsInv, AccountsTyped
<1>3. guarded' \in BOOLEAN /\ (guarded' => guarded /\ u \notin ActiveAdmins)
  BY <1>1
<1>4. ASSUME guarded' PROVE ActiveAdmins' # {}
  <2>1. PICK v \in ActiveAdmins : TRUE
    BY <1>1, <1>3, <1>4 DEF AccountsInv, Settled
  <2> QED BY <1>2, <1>3, <1>4, <2>1 DEF ActiveAdmins, IsAdmin
<1>5. page \in [Request -> PageRecord \cup {NoPage}]
  BY DEF AccountsInv, AccountsTyped
<1> QED BY <1>1, <1>2, <1>3, <1>4, <1>5, AccountsChange

LEMMA BootstrapInv ==
    ASSUME AccountsInv, NEW i \in Instance, BootstrapAdmin(i) PROVE AccountsInv'
<1>1. page \in [Request -> PageRecord \cup {NoPage}]
  BY DEF AccountsInv, AccountsTyped
<1>2. CASE users[Bootstrap] # Absent
  <2>1. UNCHANGED <<users, page, signedIn, login, guarded>>
    BY <1>2 DEF BootstrapAdmin
  <2>2. AccountsTyped' /\ \A q \in Request : page'[q] = page[q]
    BY <2>1 DEF AccountsInv, AccountsTyped
  <2> QED BY <2>1, <2>2, SameAccounts
<1>3. CASE users[Bootstrap] = Absent
  <2> PICK a : a = [role |-> "admin", active |-> TRUE]
    OBVIOUS
  <2>1. a \in Account /\ a.role = "admin" /\ a.active
    BY DEF Account
  <2>2. a # Absent
    BY <2>1, AbsentIsNoAccount
  <2>3. users' = [users EXCEPT ![Bootstrap] = a] /\ UNCHANGED <<signedIn, login, guarded>>
    BY <1>3 DEF BootstrapAdmin
  <2>4. users' \in [User -> Account \cup {Absent}] /\ users'[Bootstrap] = a
    BY <2>1, <2>3, BootstrapIsUser DEF AccountsInv, AccountsTyped
  <2>5. page' = Overtake(page)
    BY <1>3, <2>2, <2>4 DEF BootstrapAdmin
  <2>6. Bootstrap \in ActiveAdmins'
    BY <2>1, <2>2, <2>4, BootstrapIsUser DEF ActiveAdmins, IsAdmin
  <2>7. guarded' \in BOOLEAN
    BY <2>3 DEF AccountsInv, AccountsTyped
  <2> QED BY <1>1, <2>3, <2>4, <2>5, <2>6, <2>7, AccountsChange
<1> QED BY <1>2, <1>3

LEMMA InstancesInv ==
    ASSUME AccountsInv, NEW i \in Instance,
           CountForBootstrap(i) \/ BootstrapFails(i) \/ StopInstance(i)
    PROVE  AccountsInv'
<1>1. /\ UNCHANGED <<users, signedIn, guarded>>
      /\ login' = login \/ login' = {}
      /\ page' = page \/ page' = [r \in Request |-> NoPage]
  BY DEF CountForBootstrap, BootstrapFails, StopInstance
<1>2. AccountsTyped' /\ \A q \in Request : page'[q] = page[q] \/ page'[q] = NoPage
  BY <1>1 DEF AccountsInv, AccountsTyped
<1> QED BY <1>1, <1>2, SameAccounts

LEMMA AccountStep == AccountsInv /\ [AccountNext]_accountVars => AccountsInv'
<1> SUFFICES ASSUME AccountsInv, [AccountNext]_accountVars PROVE AccountsInv'
  OBVIOUS
<1>1. CASE AccountNext
  BY <1>1, SessionsInv, ReadUserInv, CountAdminsInv, WriteUserInv, PageFailsInv,
     CreateUserInv, ApiUpdateRoleInv, ApiDeleteUserInv, BootstrapInv, InstancesInv
     DEF AccountNext, PageKind
<1>2. CASE UNCHANGED accountVars
  <2>1. UNCHANGED <<users, signedIn, login, page, guarded>>
    BY <1>2 DEF accountVars
  <2>2. AccountsTyped' /\ \A q \in Request : page'[q] = page[q]
    BY <2>1 DEF AccountsInv, AccountsTyped
  <2> QED BY <2>1, <2>2, SameAccounts
<1> QED BY <1>1, <1>2

\* Once there is an account there stays an administrator who can sign in, as
\* long as every account that is taken away was counted just before.
THEOREM AnAdminStays == Spec => []AnAdminRemains
<1>1. Init => AccountsInv
  BY AccountInitInv DEF Init
<1>2. AccountsInv /\ [Next]_accessVars => AccountsInv'
  <2>1. [Next]_accessVars => [AccountNext]_accountVars
    BY DEF Next, accessVars
  <2> QED BY <2>1, AccountStep
<1>3. AccountsInv => AnAdminRemains
  BY DEF AccountsInv, AnAdminRemains, Settled
<1> QED BY <1>1, <1>2, <1>3, PTL DEF Spec

-----------------------------------------------------------------------------
(* Token buckets.                                                           *)

BucketRecord == [tokens : Nat, at : Nat]

BucketsTyped ==
    /\ clock \in Nat /\ failClosed \in BOOLEAN
    /\ ideal \in [Key -> BucketRecord] /\ \A k \in Key : ideal[k].at <= clock
    /\ DOMAIN limiters \subseteq Key
    /\ \A k \in DOMAIN limiters : limiters[k] \in BucketRecord /\ limiters[k].at <= clock

\* What the limiter would find in the bucket of k.
Level(k) == IF k \in DOMAIN limiters THEN Refilled(limiters[k]) ELSE Full

\* A bucket holds as much as one that was never dropped; more, where a request
\* let through a full table was not charged.
LevelsOK ==
    \A k \in Key : /\ Refilled(ideal[k]) <= Level(k)
                   /\ failClosed => Refilled(ideal[k]) = Level(k)

BucketsInv == BucketsTyped /\ LevelsOK /\ CleanUpChangesNoAnswer

LEMMA FullIs == Full \in Nat /\ Idle \in Nat /\ Full <= Idle /\ Interval \in Nat
BY LimitsAssumption DEF Full

LEMMA RefilledIs ==
    ASSUME NEW b \in BucketRecord, clock \in Nat, b.at <= clock
    PROVE  /\ Refilled(b) \in Nat /\ Refilled(b) <= Full
           /\ Refilled(b) = IF b.tokens + clock - b.at > Full THEN Full
                            ELSE b.tokens + clock - b.at
<1>1. b.tokens \in Nat /\ b.at \in Nat
  BY DEF BucketRecord
<1>2. Refilled(b) = IF b.tokens + clock - b.at > Full THEN Full
                    ELSE b.tokens + clock - b.at
  BY DEF Refilled
<1>3. b.tokens + clock - b.at \in Nat
  BY <1>1
<1> QED BY <1>2, <1>3, FullIs

LEMMA BucketIs ==
    ASSUME NEW k, clock \in Nat,
           k \in DOMAIN limiters => limiters[k] \in BucketRecord /\ limiters[k].at <= clock
    PROVE  /\ Bucket(k) \in BucketRecord /\ Bucket(k).at <= clock
           /\ Refilled(Bucket(k)) = Level(k)
<1>1. CASE k \in DOMAIN limiters
  BY <1>1 DEF Bucket, Level
<1>2. CASE k \notin DOMAIN limiters
  <2> PICK b : b = NewBucket
    OBVIOUS
  <2>1. b \in BucketRecord /\ b.tokens = Full /\ b.at = clock
    BY FullIs DEF NewBucket, BucketRecord
  <2>2. Refilled(b) = Full
    BY <2>1, FullIs, RefilledIs
  <2> QED BY <1>2, <2>1, <2>2 DEF Bucket, Level
<1> QED BY <1>1, <1>2

LEMMA ChargedIs ==
    ASSUME NEW b \in BucketRecord, clock \in Nat, b.at <= clock
    PROVE  /\ Charged(b) \in BucketRecord /\ Charged(b).at = clock
           /\ Refilled(Charged(b)) = IF Admits(b) THEN Refilled(b) - Interval ELSE Refilled(b)
<1>1. Refilled(b) \in Nat /\ Refilled(b) <= Full
  BY RefilledIs
<1> PICK n : n = IF Admits(b) THEN Refilled(b) - Interval ELSE Refilled(b)
  OBVIOUS
<1>2. n \in Nat /\ n <= Full
  BY <1>1, FullIs DEF Admits
<1> PICK c : c = [tokens |-> n, at |-> clock]
  OBVIOUS
<1>3. c \in BucketRecord /\ c.at = clock /\ c.tokens = n
  BY <1>2 DEF BucketRecord
<1>4. Refilled(c) = n
  BY <1>2, <1>3, FullIs, RefilledIs
<1>5. Charged(b) = c
  BY DEF Charged
<1> QED BY <1>3, <1>4, <1>5

LEMMA BucketInitInv == LimitInit => BucketsInv
<1> SUFFICES ASSUME LimitInit PROVE BucketsInv
  OBVIOUS
<1> PICK b : b = [tokens |-> Full, at |-> 1]
  OBVIOUS
<1>1. b \in BucketRecord /\ b.tokens = Full /\ b.at = 1
  BY FullIs DEF BucketRecord
<1>2. /\ clock = 1 /\ failClosed \in BOOLEAN /\ DOMAIN limiters = {}
      /\ ideal = [k \in Key |-> b]
  BY DEF LimitInit
<1>3. BucketsTyped
  BY <1>1, <1>2 DEF BucketsTyped
<1>4. Refilled(b) = Full
  BY <1>1, <1>2, FullIs, RefilledIs
<1>5. LevelsOK
  BY <1>2, <1>4, FullIs DEF LevelsOK, Level
<1>6. CleanUpChangesNoAnswer
  <2>1. verdict = [allowed |-> TRUE, ideal |-> TRUE, room |-> TRUE]
    BY DEF LimitInit
  <2>2. verdict.allowed = TRUE /\ verdict.ideal = TRUE /\ verdict.room = TRUE
    BY <2>1
  <2> QED BY <2>2 DEF CleanUpChangesNoAnswer
<1> QED BY <1>3, <1>5, <1>6 DEF BucketsInv

LEMMA AllowInv ==
    ASSUME BucketsInv, NEW k \in Key, Allow(k) PROVE BucketsInv'
<1> PICK b : b = Bucket(k)
  OBVIOUS
<1> PICK i : i = ideal[k]
  OBVIOUS
<1>1. /\ clock \in Nat /\ clock' = clock /\ failClosed' = failClosed
      /\ b \in BucketRecord /\ b.at <= clock /\ Refilled(b) = Level(k)
      /\ i \in BucketRecord /\ i.at <= clock
      /\ Refilled(i) <= Level(k) /\ (failClosed => Refilled(i) = Level(k))
      /\ ideal \in [Key -> BucketRecord]
  BY BucketIs DEF BucketsInv, BucketsTyped, LevelsOK, Allow
<1> PICK c : c = Charged(b)
  OBVIOUS
<1>2. /\ c \in BucketRecord /\ c.at = clock
      /\ Refilled(c) = IF Admits(b) THEN Refilled(b) - Interval ELSE Refilled(b)
  BY <1>1, ChargedIs
<1>3. PICK j \in BucketRecord :
        /\ ideal' = [ideal EXCEPT ![k] = j] /\ j.at <= clock
        /\ Allowed(k) /\ Admits(i) => Refilled(j) = Refilled(i) - Interval
        /\ Allowed(k) /\ ~Admits(i) => Refilled(j) = 0
        /\ ~Allowed(k) => j = i
  <2>1. CASE ~Allowed(k)
    <3>1. ideal' = [ideal EXCEPT ![k] = i]
      BY <1>1, <2>1 DEF Allow
    <3> QED BY <1>1, <2>1, <3>1
  <2>2. CASE Allowed(k) /\ Admits(i)
    <3> PICK e : e = Charged(i)
      OBVIOUS
    <3>1. /\ e \in BucketRecord /\ e.at = clock
          /\ Refilled(e) = Refilled(i) - Interval
      BY <1>1, <2>2, ChargedIs
    <3>2. ideal' = [ideal EXCEPT ![k] = e]
      BY <1>1, <2>2 DEF Allow
    <3> USE <3>1
    <3> WITNESS e \in BucketRecord
    <3> QED BY <1>1, <2>2, <3>1, <3>2
  <2>3. CASE Allowed(k) /\ ~Admits(i)
    <3> PICK e : e = [tokens |-> 0, at |-> clock]
      OBVIOUS
    <3>1. e \in BucketRecord /\ e.tokens = 0 /\ e.at = clock
      BY <1>1 DEF BucketRecord
    <3>2. Refilled(e) = 0
      BY <1>1, <3>1, FullIs, RefilledIs
    <3>3. ideal' = [ideal EXCEPT ![k] = e]
      BY <1>1, <2>3 DEF Allow
    <3> USE <3>1
    <3> WITNESS e \in BucketRecord
    <3> QED BY <1>1, <2>3, <3>1, <3>2, <3>3
  <2> QED BY <2>1, <2>2, <2>3
<1>4. /\ Allowed(k) <=> IF HasRoom(k) THEN Admits(b) ELSE ~failClosed
      /\ Admits(i) => Admits(b)
      /\ failClosed => (Admits(i) <=> Admits(b))
      /\ Refilled(i) \in Nat /\ Refilled(b) \in Nat /\ Refilled(b) <= Full
  <2>1. Refilled(i) \in Nat /\ Refilled(b) \in Nat /\ Refilled(b) <= Full
    BY <1>1, RefilledIs
  <2> QED BY <1>1, <2>1, FullIs DEF Allowed, Admits
<1>5. /\ ideal' \in [Key -> BucketRecord] /\ ideal'[k] = j
      /\ \A l \in Key : l # k => ideal'[l] = ideal[l]
  BY <1>1, <1>3
<1>6. ASSUME HasRoom(k) PROVE BucketsTyped' /\ LevelsOK'
  <2>1. /\ DOMAIN limiters' = DOMAIN limiters \cup {k} /\ limiters'[k] = c
        /\ \A l \in DOMAIN limiters : l # k => limiters'[l] = limiters[l]
    <3>1. limiters' = Entered(limiters, k, c)
      BY <1>6 DEF Allow
    <3>2. /\ DOMAIN Entered(limiters, k, c) = DOMAIN limiters \cup {k}
          /\ Entered(limiters, k, c)[k] = c
          /\ \A l \in DOMAIN limiters :
               l # k => Entered(limiters, k, c)[l] = limiters[l]
      BY DEF Entered
    <3> QED BY <3>1, <3>2
  <2>2. BucketsTyped'
    BY <1>1, <1>2, <1>3, <1>5, <2>1 DEF BucketsInv, BucketsTyped
  <2>3. /\ Refilled(j) <= Refilled(c) /\ (failClosed => Refilled(j) = Refilled(c))
    BY <1>1, <1>2, <1>3, <1>4, <1>6, FullIs DEF Admits
  <2>4. ASSUME NEW l \in Key
        PROVE  /\ Refilled(ideal[l])' <= Level(l)'
               /\ failClosed' => Refilled(ideal[l])' = Level(l)'
    <3>1. CASE l = k
      BY <1>1, <1>5, <2>1, <2>3, <3>1 DEF Level, Refilled
    <3>2. CASE l # k
      BY <1>1, <1>5, <2>1, <3>2 DEF BucketsInv, LevelsOK, Level, Refilled
    <3> QED BY <3>1, <3>2
  <2>5. LevelsOK'
    BY <2>4 DEF LevelsOK
  <2> QED BY <2>2, <2>5
<1>7. ASSUME ~HasRoom(k) PROVE BucketsTyped' /\ LevelsOK'
  <2>1. limiters' = limiters /\ k \notin DOMAIN limiters
    BY <1>7 DEF Allow, HasRoom
  <2>2. BucketsTyped'
    BY <1>1, <1>3, <1>5, <2>1 DEF BucketsInv, BucketsTyped
  <2>3. Level(k) = Full /\ Refilled(j) \in Nat /\ Refilled(j) <= Full
    BY <1>1, <1>3, <2>1, RefilledIs DEF Level
  <2>4. failClosed => j = i
    BY <1>3, <1>4, <1>7
  <2>5. ASSUME NEW l \in Key
        PROVE  /\ Refilled(ideal[l])' <= Level(l)'
               /\ failClosed' => Refilled(ideal[l])' = Level(l)'
    <3>1. CASE l = k
      BY <1>1, <1>5, <2>1, <2>3, <2>4, <3>1 DEF Level, Refilled
    <3>2. CASE l # k
      BY <1>1, <1>5, <2>1, <3>2 DEF BucketsInv, LevelsOK, Level, Refilled
    <3> QED BY <3>1, <3>2
  <2>6. LevelsOK'
    BY <2>5 DEF LevelsOK
  <2> QED BY <2>2, <2>6
<1>8. CleanUpChangesNoAnswer'
  <2>1. Admits(i) \in BOOLEAN /\ Admits(Bucket(k)) \in BOOLEAN
    BY DEF Admits
  <2>2. Allowed(k) \in BOOLEAN
    BY <2>1 DEF Allowed
  <2> PICK allowed \in BOOLEAN : allowed = Allowed(k)
    BY <2>2, Zenon
  <2> PICK kept \in BOOLEAN : kept = Admits(i)
    BY <2>1, Zenon
  <2> PICK room \in BOOLEAN : room = HasRoom(k)
    BY DEF HasRoom
  <2>3. verdict' = [allowed |-> allowed, ideal |-> kept, room |-> room]
    BY DEF Allow
  <2>4. verdict'.allowed = allowed /\ verdict'.ideal = kept /\ verdict'.room = room
    BY <2>3
  <2>5. /\ failClosed => (Allowed(k) <=> Admits(i) /\ HasRoom(k))
        /\ ~failClosed /\ Admits(i) => Allowed(k)
    BY <1>4
  <2>6. /\ failClosed => allowed = (kept /\ room)
        /\ ~failClosed /\ kept => allowed
    BY <2>5, Zenon
  <2> QED BY <1>1, <2>4, <2>6 DEF CleanUpChangesNoAnswer
<1> QED BY <1>6, <1>7, <1>8 DEF BucketsInv

LEMMA BucketCleanUpInv ==
    ASSUME BucketsInv, BucketCleanUp PROVE BucketsInv'
<1>1. /\ UNCHANGED <<clock, failClosed, ideal, verdict>>
      /\ DOMAIN limiters' = {k \in DOMAIN limiters : ~Unseen(k)}
      /\ \A k \in DOMAIN limiters' : limiters'[k] = limiters[k]
  BY DEF BucketCleanUp, Restrict
<1>2. BucketsTyped'
  BY <1>1 DEF BucketsInv, BucketsTyped
<1>3. ASSUME NEW k \in Key
      PROVE  Level(k)' = Level(k)
  <2>1. CASE k \in DOMAIN limiters /\ Unseen(k)
    <3>1. /\ limiters[k] \in BucketRecord /\ limiters[k].at <= clock /\ clock \in Nat
          /\ limiters[k].tokens \in Nat /\ limiters[k].at \in Nat
      BY <2>1 DEF BucketsInv, BucketsTyped, BucketRecord
    <3>2. clock - limiters[k].at > Idle
      BY <2>1 DEF Unseen
    <3>3. Refilled(limiters[k]) = Full
      <4> PICK b : b = limiters[k]
        OBVIOUS
      <4>1. Refilled(b) = IF b.tokens + clock - b.at > Full THEN Full
                          ELSE b.tokens + clock - b.at
        BY <3>1, RefilledIs
      <4>2. b.tokens + clock - b.at \in Nat /\ b.tokens + clock - b.at >= clock - b.at
        BY <3>1
      <4> QED BY <3>1, <3>2, <4>1, <4>2, FullIs
    <3> QED BY <1>1, <2>1, <3>3 DEF Level, Full
  <2>2. CASE k \in DOMAIN limiters /\ ~Unseen(k)
    BY <1>1, <2>2 DEF Level, Refilled, Full
  <2>3. CASE k \notin DOMAIN limiters
    BY <1>1, <2>3 DEF Level, Full
  <2> QED BY <2>1, <2>2, <2>3
<1>4. \A k \in Key : Refilled(ideal[k])' = Refilled(ideal[k])
  BY <1>1 DEF Refilled
<1>5. LevelsOK' /\ CleanUpChangesNoAnswer'
  BY <1>1, <1>3, <1>4 DEF BucketsInv, LevelsOK, CleanUpChangesNoAnswer
<1> QED BY <1>2, <1>5 DEF BucketsInv

\* A tick refills two buckets alike.
LEMMA RefillTick ==
    ASSUME NEW b \in BucketRecord, clock \in Nat, b.at <= clock, clock' = clock + 1
    PROVE  Refilled(b)' = IF Refilled(b) = Full THEN Full ELSE Refilled(b) + 1
<1>1. b.tokens \in Nat /\ b.at \in Nat
  BY DEF BucketRecord
<1>2. Refilled(b) = IF b.tokens + clock - b.at > Full THEN Full
                    ELSE b.tokens + clock - b.at
  BY RefilledIs
<1>3. Refilled(b)' = IF b.tokens + (clock + 1) - b.at > Full THEN Full
                     ELSE b.tokens + (clock + 1) - b.at
  BY DEF Refilled, Full
<1> QED BY <1>1, <1>2, <1>3, FullIs

LEMMA LimitTickBuckets ==
    ASSUME BucketsInv, LimitTick PROVE BucketsInv'
<1>1. clock \in Nat /\ clock' = clock + 1 /\ UNCHANGED <<failClosed, limiters, ideal, verdict>>
  BY DEF LimitTick, bucketVars, BucketsInv, BucketsTyped
<1>2. BucketsTyped'
  BY <1>1 DEF BucketsInv, BucketsTyped, BucketRecord
<1>3. ASSUME NEW k \in Key
      PROVE  /\ Refilled(ideal[k])' <= Level(k)'
             /\ failClosed' => Refilled(ideal[k])' = Level(k)'
  <2> PICK i : i = ideal[k]
    OBVIOUS
  <2>1. i \in BucketRecord /\ i.at <= clock
    BY DEF BucketsInv, BucketsTyped
  <2>2. /\ Refilled(i)' = IF Refilled(i) = Full THEN Full ELSE Refilled(i) + 1
        /\ Refilled(i) \in Nat /\ Refilled(i) <= Full
    BY <1>1, <2>1, RefillTick, RefilledIs
  <2>3. Level(k)' = IF Level(k) = Full THEN Full ELSE Level(k) + 1
    <3>1. CASE k \in DOMAIN limiters
      <4> PICK b : b = limiters[k]
        OBVIOUS
      <4>1. b \in BucketRecord /\ b.at <= clock
        BY <3>1 DEF BucketsInv, BucketsTyped
      <4>2. Refilled(b)' = IF Refilled(b) = Full THEN Full ELSE Refilled(b) + 1
        BY <1>1, <4>1, RefillTick
      <4>3. Level(k)' = Refilled(b)' /\ Level(k) = Refilled(b)
        BY <1>1, <3>1 DEF Level, Refilled
      <4> QED BY <4>2, <4>3
    <3>2. CASE k \notin DOMAIN limiters
      BY <1>1, <3>2 DEF Level, Full
    <3> QED BY <3>1, <3>2
  <2>4. /\ Refilled(i) <= Level(k) /\ (failClosed => Refilled(i) = Level(k))
        /\ Level(k) \in Nat /\ Level(k) <= Full
    <3>1. k \in DOMAIN limiters => limiters[k] \in BucketRecord /\ limiters[k].at <= clock
      BY DEF BucketsInv, BucketsTyped
    <3>2. Level(k) \in Nat /\ Level(k) <= Full
      BY <1>1, <3>1, RefilledIs, FullIs DEF Level
    <3> QED BY <3>2 DEF BucketsInv, LevelsOK
  <2>5. Refilled(ideal[k])' = Refilled(i)'
    BY <1>1 DEF Refilled
  <2> QED BY <1>1, <2>2, <2>3, <2>4, <2>5, FullIs
<1>4. LevelsOK'
  BY <1>3 DEF LevelsOK
<1> QED BY <1>1, <1>2, <1>4 DEF BucketsInv, CleanUpChangesNoAnswer

\* Dropping idle buckets, and starting them afresh, changes no answer.
THEOREM CleanUpIsInvisible == Spec => []CleanUpChangesNoAnswer
<1>1. Init => BucketsInv
  BY BucketInitInv DEF Init
<1>2. BucketsInv /\ [Next]_accessVars => BucketsInv'
  <2> SUFFICES ASSUME BucketsInv, [Next]_accessVars PROVE BucketsInv'
    OBVIOUS
  <2>1. \/ \E k \in Key : Allow(k)
        \/ BucketCleanUp
        \/ LimitTick
        \/ UNCHANGED <<clock, bucketVars>>
    BY DEF Next, BucketNext, LoginNext, Login, LoginFails, LoginSucceeds, LoginCleanUp,
           accessVars, limitVars
  <2>2. CASE UNCHANGED <<clock, bucketVars>>
    <3>1. UNCHANGED <<clock, failClosed, limiters, ideal, verdict>>
      BY <2>2 DEF bucketVars
    <3>2. \A k \in Key : Refilled(ideal[k])' = Refilled(ideal[k]) /\ Level(k)' = Level(k)
      BY <3>1 DEF Refilled, Level, Full
    <3>3. BucketsTyped' /\ LevelsOK' /\ CleanUpChangesNoAnswer'
      BY <3>1, <3>2 DEF BucketsInv, BucketsTyped, LevelsOK, CleanUpChangesNoAnswer
    <3> QED BY <3>3 DEF BucketsInv
  <2> QED BY <2>1, <2>2, AllowInv, BucketCleanUpInv, LimitTickBuckets
<1>3. BucketsInv => CleanUpChangesNoAnswer
  BY DEF BucketsInv
<1> QED BY <1>1, <1>2, <1>3, PTL DEF Spec

-----------------------------------------------------------------------------
(* Login attempts.                                                          *)

WindowRecord  == [count : Nat, start : Nat]
AttemptRecord == [pc : {"checking"}, ip : IP, email : Email, since : Nat]
TallyRecord   == [start : Nat, spent : Nat, failed : Nat, late : Nat]

LoginsTyped ==
    /\ clock \in Nat
    /\ DOMAIN byIP \subseteq IP /\ \A ip \in DOMAIN byIP : byIP[ip] \in WindowRecord
    /\ attempt \in [Attempt -> AttemptRecord \cup {NoAttempt}]
    /\ tally \in [IP -> TallyRecord]

Out == {a \in Attempt : attempt[a] # NoAttempt}

\* What is counted against an address is what it has under way or has spent, and
\* no attempt of its window is forgotten, but for the refunds that came late.
BookOK(ip) ==
    /\ ip \in DOMAIN byIP =>
         /\ byIP[ip].start = tally[ip].start /\ tally[ip].start <= clock
         /\ byIP[ip].count <= Cardinality(InFlight(ip)) + tally[ip].spent
         /\ Cardinality(InFlight(ip)) + tally[ip].failed <= byIP[ip].count + tally[ip].late
    /\ ip \notin DOMAIN byIP => tally[ip].start < clock
    /\ Cardinality(InFlight(ip)) + tally[ip].failed <= IPLimit + tally[ip].late

AttemptOK(a) == attempt[a].since <= tally[attempt[a].ip].start

LoginsInv ==
    /\ LoginsTyped
    /\ IsFiniteSet(Out)
    /\ \A a \in Out : AttemptOK(a)
    /\ \A ip \in IP : BookOK(ip)

LEMMA InFlightIsFinite ==
    ASSUME NEW ip, IsFiniteSet(Out)
    PROVE  IsFiniteSet(InFlight(ip)) /\ Cardinality(InFlight(ip)) \in Nat
<1>1. InFlight(ip) \subseteq Out
  BY DEF InFlight, Out
<1>2. IsFiniteSet(InFlight(ip))
  BY <1>1, FS_Subset
<1> QED BY <1>2, FS_CardinalityType

LEMMA LoginInitInv == LimitInit => LoginsInv
<1> SUFFICES ASSUME LimitInit PROVE LoginsInv
  OBVIOUS
<1> PICK t : t = NewTally(0)
  OBVIOUS
<1>1. t \in TallyRecord /\ t.start = 0 /\ t.spent = 0 /\ t.failed = 0 /\ t.late = 0
  BY DEF NewTally, TallyRecord
<1>2. /\ clock = 1 /\ DOMAIN byIP = {}
      /\ attempt = [a \in Attempt |-> NoAttempt] /\ tally = [ip \in IP |-> t]
  BY DEF LimitInit
<1>3. Out = {} /\ \A ip \in IP : InFlight(ip) = {}
  BY <1>2 DEF Out, InFlight
<1>4. IsFiniteSet({}) /\ Cardinality({}) = 0
  BY FS_EmptySet
<1>5. LoginsTyped
  BY <1>1, <1>2 DEF LoginsTyped
<1>6. ASSUME NEW ip \in IP PROVE BookOK(ip)
  <2>1. /\ Cardinality(InFlight(ip)) = 0 /\ tally[ip].start = 0 /\ tally[ip].failed = 0
        /\ tally[ip].late = 0 /\ ip \notin DOMAIN byIP /\ clock = 1
    BY <1>1, <1>2, <1>3, <1>4
  <2> QED BY <2>1, LimitsAssumption DEF BookOK
<1> QED BY <1>3, <1>4, <1>5, <1>6 DEF LoginsInv

\* A step at one address leaves the books of the others as they are.
LEMMA OneAddress ==
    ASSUME LoginsInv, NEW ip \in IP, clock' = clock, LoginsTyped', IsFiniteSet(Out)',
           \A a \in Out' : AttemptOK(a)', BookOK(ip)',
           \A o \in IP : o # ip =>
             /\ tally'[o] = tally[o] /\ InFlight(o)' = InFlight(o)
             /\ o \in DOMAIN byIP' <=> o \in DOMAIN byIP
             /\ o \in DOMAIN byIP => byIP'[o] = byIP[o]
    PROVE  LoginsInv'
<1>1. ASSUME NEW o \in IP, o # ip PROVE BookOK(o)'
  <2>1. BookOK(o)
    BY DEF LoginsInv
  <2>2. Cardinality(InFlight(o)') = Cardinality(InFlight(o))
    BY <1>1
  <2> QED BY <1>1, <2>1, <2>2 DEF BookOK
<1>2. \A o \in IP : BookOK(o)'
  BY <1>1
<1> QED BY <1>2 DEF LoginsInv

\* What one more attempt does to a table.
LEMMA InWindowIs ==
    ASSUME NEW table, NEW k, NEW limit, NEW w, w = InWindow(table, k, limit),
           k \in DOMAIN table => table[k] \in WindowRecord, clock \in Nat
    PROVE  \/ /\ k \notin DOMAIN table /\ w.table = table /\ ~w.ok
           \/ /\ DOMAIN w.table = DOMAIN table \cup {k} /\ w.ok
              /\ w.table[k] \in WindowRecord
              /\ w.table[k].count = 1 /\ w.table[k].start = clock
              /\ \A l \in DOMAIN table : l # k => w.table[l] = table[l]
              /\ k \in DOMAIN table => table[k].start < clock
           \/ /\ k \in DOMAIN table /\ DOMAIN w.table = DOMAIN table
              /\ w.table[k] \in WindowRecord
              /\ w.table[k].count = table[k].count + 1
              /\ w.table[k].start = table[k].start
              /\ \A l \in DOMAIN table : l # k => w.table[l] = table[l]
              /\ w.ok => w.table[k].count <= limit
<1> PICK e : e = [count |-> 1, start |-> clock]
  OBVIOUS
<1>1. e \in WindowRecord /\ e.count = 1 /\ e.start = clock
  BY DEF WindowRecord
<1> PICK opened : opened = Entered(table, k, e)
  OBVIOUS
<1>2. /\ DOMAIN opened = DOMAIN table \cup {k} /\ opened[k] = e
      /\ \A l \in DOMAIN table : l # k => opened[l] = table[l]
  BY DEF Entered
<1>3. CASE k \notin DOMAIN table /\ Cardinality(DOMAIN table) >= MaxTracked
  <2>1. w = [table |-> table, ok |-> FALSE]
    BY <1>3 DEF InWindow
  <2> QED BY <1>3, <2>1
<1>4. CASE k \notin DOMAIN table /\ ~(Cardinality(DOMAIN table) >= MaxTracked)
  <2>1. w = [table |-> opened, ok |-> TRUE]
    BY <1>4 DEF InWindow
  <2> QED BY <1>1, <1>2, <1>4, <2>1
<1>5. CASE k \in DOMAIN table /\ clock - table[k].start >= Window
  <2>1. w = [table |-> opened, ok |-> TRUE]
    BY <1>5 DEF InWindow
  <2>2. table[k].start < clock
    BY <1>5, LimitsAssumption DEF WindowRecord
  <2> QED BY <1>1, <1>2, <1>5, <2>1, <2>2
<1>6. CASE k \in DOMAIN table /\ ~(clock - table[k].start >= Window)
  <2> PICK counted : counted = [table EXCEPT ![k].count = @ + 1]
    OBVIOUS
  <2> PICK c : c = [table[k] EXCEPT !.count = @ + 1]
    OBVIOUS
  <2>1. c \in WindowRecord /\ c.count = table[k].count + 1 /\ c.start = table[k].start
    BY <1>6 DEF WindowRecord
  <2>2. /\ DOMAIN counted = DOMAIN table /\ counted[k] = c
        /\ \A l \in DOMAIN table : l # k => counted[l] = table[l]
    BY <1>6
  <2>0. (counted[k].count <= limit) \in BOOLEAN
    OBVIOUS
  <2> PICK ok \in BOOLEAN : ok = (counted[k].count <= limit)
    BY <2>0, Zenon
  <2>3. w = [table |-> counted, ok |-> ok]
    BY <1>6 DEF InWindow
  <2>4. w.table = counted /\ w.ok = ok
    BY <2>3
  <2>5. ok => counted[k].count <= limit
    BY Zenon
  <2> QED BY <1>6, <2>1, <2>2, <2>4, <2>5
<1> QED BY <1>3, <1>4, <1>5, <1>6

LEMMA LoginInv ==
    ASSUME LoginsInv, NEW a \in Attempt, NEW ip \in IP, NEW email \in Email,
           Login(a, ip, email)
    PROVE  LoginsInv'
<1> PICK w : w = InWindow(byIP, ip, IPLimit)
  OBVIOUS
<1> PICK v : v = InWindow(byEmail, email, EmailLimit)
  OBVIOUS
<1> DEFINE since == byIP'[ip].start
           current == IF tally[ip].start = since THEN tally[ip] ELSE NewTally(since)
<1>1. /\ clock \in Nat /\ clock' = clock /\ byIP' = w.table
      /\ attempt[a] = NoAttempt
      /\ DOMAIN byIP \subseteq IP /\ \A o \in DOMAIN byIP : byIP[o] \in WindowRecord
      /\ attempt \in [Attempt -> AttemptRecord \cup {NoAttempt}]
      /\ tally \in [IP -> TallyRecord]
      /\ IsFiniteSet(Out) /\ \A b \in Out : AttemptOK(b)
      /\ \A o \in IP : BookOK(o)
  BY DEF Login, LoginsInv, LoginsTyped
<1>2. \/ /\ ip \notin DOMAIN byIP /\ w.table = byIP /\ ~w.ok
      \/ /\ DOMAIN w.table = DOMAIN byIP \cup {ip} /\ w.ok
         /\ w.table[ip] \in WindowRecord
         /\ w.table[ip].count = 1 /\ w.table[ip].start = clock
         /\ \A l \in DOMAIN byIP : l # ip => w.table[l] = byIP[l]
         /\ ip \in DOMAIN byIP => byIP[ip].start < clock
      \/ /\ ip \in DOMAIN byIP /\ DOMAIN w.table = DOMAIN byIP
         /\ w.table[ip] \in WindowRecord
         /\ w.table[ip].count = byIP[ip].count + 1
         /\ w.table[ip].start = byIP[ip].start
         /\ \A l \in DOMAIN byIP : l # ip => w.table[l] = byIP[l]
         /\ w.ok => w.table[ip].count <= IPLimit
  <2>1. ip \in DOMAIN byIP => byIP[ip] \in WindowRecord
    BY <1>1
  <2> QED BY <1>1, <2>1, InWindowIs
<1>3. /\ DOMAIN byIP' \subseteq IP /\ \A o \in DOMAIN byIP' : byIP'[o] \in WindowRecord
      /\ \A o \in IP : o # ip => /\ o \in DOMAIN byIP' <=> o \in DOMAIN byIP
                                 /\ o \in DOMAIN byIP => byIP'[o] = byIP[o]
  BY <1>1, <1>2
<1> PICK t : t = [pc |-> "checking", ip |-> ip, email |-> email, since |-> since]
  OBVIOUS
<1>4. /\ attempt' = IF w.ok /\ v.ok THEN [attempt EXCEPT ![a] = t] ELSE attempt
      /\ tally' = IF ip \notin DOMAIN byIP' THEN tally
                  ELSE [tally EXCEPT ![ip] = IF w.ok /\ v.ok THEN current
                                             ELSE [current EXCEPT !.spent = @ + 1]]
  BY DEF Login, Tally
<1>5. CASE ip \notin DOMAIN byIP'
  <2>1. UNCHANGED <<clock, byIP, attempt, tally>>
    BY <1>1, <1>2, <1>4, <1>5
  <2>2. LoginsTyped' /\ IsFiniteSet(Out)' /\ \A b \in Out' : AttemptOK(b)'
    BY <1>1, <2>1 DEF LoginsTyped, Out, AttemptOK, LoginsInv
  <2>3. \A o \in IP : InFlight(o)' = InFlight(o)
    BY <2>1 DEF InFlight
  <2>4. \A o \in IP : BookOK(o)'
    BY <1>1, <2>1, <2>3 DEF BookOK
  <2> QED BY <2>2, <2>4 DEF LoginsInv
<1>6. CASE ip \in DOMAIN byIP'
  <2>1. /\ since \in Nat /\ since <= clock /\ byIP'[ip] \in WindowRecord
        /\ byIP'[ip].count \in Nat
    BY <1>1, <1>2, <1>6 DEF WindowRecord, BookOK
  <2> PICK c : c = current
    OBVIOUS
  <2>2. /\ c \in TallyRecord /\ c.start = since
        /\ tally[ip].start = since => c = tally[ip]
        /\ tally[ip].start # since => c.spent = 0 /\ c.failed = 0 /\ c.late = 0
    BY <1>1, <2>1 DEF TallyRecord, NewTally
  <2> PICK d : d = [c EXCEPT !.spent = @ + 1]
    OBVIOUS
  <2>3. /\ d \in TallyRecord /\ d.start = since /\ d.spent = c.spent + 1
        /\ d.failed = c.failed /\ d.late = c.late
        /\ c.spent \in Nat /\ c.failed \in Nat /\ c.late \in Nat
    BY <2>2 DEF TallyRecord
  <2>4. tally[ip].start <= since /\ tally[ip].start \in Nat
    <3>1. tally[ip].start \in Nat /\ BookOK(ip)
      BY <1>1 DEF TallyRecord
    <3>2. CASE ip \in DOMAIN byIP
      <4>1. byIP[ip].start = tally[ip].start /\ tally[ip].start <= clock
        BY <3>1, <3>2 DEF BookOK
      <4> QED BY <1>1, <1>2, <3>1, <3>2, <4>1
    <3>3. CASE ip \notin DOMAIN byIP
      <4>1. tally[ip].start < clock
        BY <3>1, <3>3 DEF BookOK
      <4> QED BY <1>1, <1>2, <1>6, <3>1, <3>3, <4>1
    <3> QED BY <3>2, <3>3
  <2>5. /\ tally' \in [IP -> TallyRecord]
        /\ \A o \in IP : o # ip => tally'[o] = tally[o]
        /\ tally'[ip] = IF w.ok /\ v.ok THEN c ELSE d
        /\ tally'[ip].start = since
    BY <1>1, <1>4, <1>6, <2>2, <2>3
  <2>6. t \in AttemptRecord /\ t.ip = ip /\ t.since = since /\ t # NoAttempt
    BY <2>1 DEF AttemptRecord, NoAttempt
  <2>7. \* What was under way at this address in the window that is open now.
        PICK before : before = {b \in InFlight(ip) : tally[ip].start = since}
    OBVIOUS
  <2>8. /\ IsFiniteSet(before) /\ a \notin before
        /\ Cardinality(before) = IF tally[ip].start = since
                                 THEN Cardinality(InFlight(ip)) ELSE 0
        /\ Cardinality(InFlight(ip)) \in Nat
    <3>1. IsFiniteSet(InFlight(ip)) /\ Cardinality(InFlight(ip)) \in Nat
      BY <1>1, InFlightIsFinite
    <3>2. before = IF tally[ip].start = since THEN InFlight(ip) ELSE {}
      BY <2>7
    <3>3. a \notin InFlight(ip)
      BY <1>1 DEF InFlight
    <3> QED BY <3>1, <3>2, <3>3, FS_EmptySet
  <2>9. \A b \in Attempt : attempt[b] # NoAttempt /\ attempt[b].ip = ip =>
                             attempt[b].since \in Nat /\ attempt[b].since <= tally[ip].start
    BY <1>1 DEF Out, AttemptOK, AttemptRecord
  <2>10. before = {b \in Attempt : /\ attempt[b] # NoAttempt /\ attempt[b].ip = ip
                                   /\ attempt[b].since = since}
    BY <2>1, <2>4, <2>7, <2>9 DEF InFlight
  <2>11. /\ attempt' \in [Attempt -> AttemptRecord \cup {NoAttempt}]
         /\ \A b \in Attempt : b # a => attempt'[b] = attempt[b]
         /\ attempt'[a] = IF w.ok /\ v.ok THEN t ELSE NoAttempt
    BY <1>1, <1>4, <2>6
  <2>12. InFlight(ip)' = IF w.ok /\ v.ok THEN before \cup {a} ELSE before
    BY <1>1, <2>5, <2>6, <2>8, <2>10, <2>11 DEF InFlight
  <2>13. ASSUME NEW o \in IP, o # ip PROVE InFlight(o)' = InFlight(o)
    BY <1>1, <2>5, <2>6, <2>11, <2>13 DEF InFlight
  <2>14. /\ IsFiniteSet(InFlight(ip)')
         /\ Cardinality(InFlight(ip)') = IF w.ok /\ v.ok THEN Cardinality(before) + 1
                                         ELSE Cardinality(before)
    BY <2>8, <2>12, FS_AddElement
  <2>15. BookOK(ip)'
    <3>1. PICK n \in Nat : n = Cardinality(before)
      BY <2>8
    <3>2. PICK n1 \in Nat : n1 = Cardinality(InFlight(ip)')
                            /\ n1 = IF w.ok /\ v.ok THEN n + 1 ELSE n
      BY <2>14, <3>1
    <3>3. tally[ip].start = since => n = Cardinality(InFlight(ip))
      BY <2>8, <3>1
    <3>4. tally[ip].start # since => n = 0
      BY <2>8, <3>1
    <3>5. BookOK(ip) /\ IPLimit \in Nat \ {0}
      BY <1>1, LimitsAssumption
    <3>6. CASE byIP'[ip].count = 1 /\ since = clock /\ tally[ip].start < clock
      <4>1. n = 0 /\ c.spent = 0 /\ c.failed = 0 /\ c.late = 0
        BY <1>1, <2>2, <2>4, <3>4, <3>6
      <4>2. /\ byIP'[ip].count <= n1 + tally'[ip].spent
            /\ n1 + tally'[ip].failed <= byIP'[ip].count + tally'[ip].late
            /\ n1 + tally'[ip].failed <= IPLimit + tally'[ip].late
        BY <2>3, <2>5, <3>2, <3>5, <3>6, <4>1
      <4> QED BY <1>1, <1>6, <2>1, <2>5, <3>2, <4>2 DEF BookOK
    <3>7. CASE /\ ip \in DOMAIN byIP /\ byIP'[ip].count = byIP[ip].count + 1
               /\ since = byIP[ip].start /\ (w.ok => byIP'[ip].count <= IPLimit)
      <4>1. /\ byIP[ip].count \in Nat /\ tally[ip].start = since /\ c = tally[ip]
            /\ byIP[ip].count <= n + c.spent
            /\ n + c.failed <= byIP[ip].count + c.late
            /\ n + c.failed <= IPLimit + c.late
        BY <1>1, <2>2, <3>3, <3>5, <3>7 DEF BookOK, WindowRecord
      <4>2. /\ byIP'[ip].count <= n1 + tally'[ip].spent
            /\ n1 + tally'[ip].failed <= byIP'[ip].count + tally'[ip].late
            /\ n1 + tally'[ip].failed <= IPLimit + tally'[ip].late
        BY <2>1, <2>3, <2>5, <3>2, <3>5, <3>7, <4>1
      <4> QED BY <1>1, <1>6, <2>1, <2>5, <3>2, <4>2 DEF BookOK
    <3>8. ip \notin DOMAIN byIP \/ byIP[ip].start < clock => tally[ip].start < clock
      BY <3>5 DEF BookOK
    <3> QED BY <1>1, <1>2, <1>6, <3>6, <3>7, <3>8
  <2>16. LoginsTyped'
    BY <1>1, <1>3, <2>5, <2>11 DEF LoginsTyped
  <2>17. IsFiniteSet(Out)'
    <3>1. IsFiniteSet(Out \cup {a})
      BY <1>1, FS_AddElement
    <3>2. Out' \subseteq Out \cup {a}
      BY <2>11 DEF Out
    <3> QED BY <3>1, <3>2, FS_Subset
  <2>18. ASSUME NEW b \in Out' PROVE AttemptOK(b)'
    <3>1. CASE b = a
      BY <2>1, <2>5, <2>6, <2>11, <2>18, <3>1 DEF Out, AttemptOK
    <3>2. CASE b # a
      <4>1. b \in Out /\ attempt'[b] = attempt[b] /\ AttemptOK(b)
        BY <1>1, <2>11, <2>18, <3>2 DEF Out
      <4>2. attempt[b].ip \in IP /\ attempt[b].since \in Nat
        BY <1>1, <4>1 DEF Out, AttemptRecord
      <4>3. attempt[b].since <= tally[attempt[b].ip].start
        BY <4>1 DEF AttemptOK
      <4>4. attempt[b].since <= tally'[attempt[b].ip].start
        <5>1. CASE attempt[b].ip = ip
          <6>1. attempt[b].since <= tally[ip].start /\ tally'[ip].start \in Nat
                /\ tally[ip].start <= tally'[ip].start
            BY <2>1, <2>4, <2>5, <4>3, <5>1
          <6> QED BY <2>4, <4>2, <5>1, <6>1
        <5>2. CASE attempt[b].ip # ip
          BY <2>5, <4>2, <4>3, <5>2
        <5> QED BY <5>1, <5>2
      <4> QED BY <4>1, <4>4 DEF AttemptOK
    <3> QED BY <3>1, <3>2
  <2> QED BY <1>1, <1>3, <2>5, <2>13, <2>15, <2>16, <2>17, <2>18, OneAddress
<1> QED BY <1>5, <1>6

\* One attempt of ip less under way: its window, if it is the one of the tally,
\* has one less in flight.
LEMMA AttemptEnds ==
    ASSUME LoginsInv, NEW a \in Attempt, NEW ip, attempt[a] # NoAttempt, ip = attempt[a].ip,
           attempt' = [attempt EXCEPT ![a] = NoAttempt],
           \A o \in IP : tally'[o].start = tally[o].start
    PROVE  /\ attempt' \in [Attempt -> AttemptRecord \cup {NoAttempt}]
           /\ IsFiniteSet(Out') /\ Out' \subseteq Out
           /\ \A b \in Out' : attempt'[b] = attempt[b]
           /\ \A o \in IP : o # ip => InFlight(o)' = InFlight(o)
           /\ Cardinality(InFlight(ip)) \in Nat
           /\ Cardinality(InFlight(ip)') \in Nat
           /\ Cardinality(InFlight(ip)') = IF attempt[a].since = tally[ip].start
                                           THEN Cardinality(InFlight(ip)) - 1
                                           ELSE Cardinality(InFlight(ip))
<1>1. /\ attempt \in [Attempt -> AttemptRecord \cup {NoAttempt}] /\ IsFiniteSet(Out)
      /\ attempt[a] \in AttemptRecord /\ ip \in IP
  BY DEF LoginsInv, LoginsTyped, AttemptRecord
<1>2. /\ attempt' \in [Attempt -> AttemptRecord \cup {NoAttempt}]
      /\ attempt'[a] = NoAttempt /\ \A b \in Attempt : b # a => attempt'[b] = attempt[b]
  BY <1>1
<1>3. /\ Out' \subseteq Out /\ a \notin Out' /\ \A b \in Out' : attempt'[b] = attempt[b]
  BY <1>2 DEF Out
<1>4. IsFiniteSet(Out')
  BY <1>1, <1>3, FS_Subset
<1>5. \A o \in IP : o # ip => InFlight(o)' = InFlight(o)
  BY <1>2 DEF InFlight
<1>6. InFlight(ip)' = InFlight(ip) \ {a}
  BY <1>1, <1>2 DEF InFlight
<1>7. a \in InFlight(ip) <=> attempt[a].since = tally[ip].start
  BY DEF InFlight
<1>8. /\ IsFiniteSet(InFlight(ip)) /\ Cardinality(InFlight(ip)) \in Nat
  BY <1>1, InFlightIsFinite
<1>9. /\ IsFiniteSet(InFlight(ip) \ {a})
      /\ Cardinality(InFlight(ip) \ {a}) =
           IF a \in InFlight(ip) THEN Cardinality(InFlight(ip)) - 1 ELSE Cardinality(InFlight(ip))
  BY <1>8, FS_RemoveElement
<1>10. Cardinality(InFlight(ip) \ {a}) \in Nat
  BY <1>9, FS_CardinalityType
<1>11. /\ Cardinality(InFlight(ip)') \in Nat
       /\ Cardinality(InFlight(ip)') = IF attempt[a].since = tally[ip].start
                                       THEN Cardinality(InFlight(ip)) - 1
                                       ELSE Cardinality(InFlight(ip))
  BY <1>6, <1>7, <1>9, <1>10
<1> QED BY <1>2, <1>3, <1>4, <1>5, <1>8, <1>11

LEMMA TallyMoves ==
    ASSUME NEW c \in TallyRecord
    PROVE  /\ Failed(c) \in TallyRecord
           /\ Failed(c).start = c.start /\ Failed(c).late = c.late
           /\ Failed(c).spent = c.spent + 1 /\ Failed(c).failed = c.failed + 1
           /\ HandedBackLate(c) \in TallyRecord
           /\ HandedBackLate(c).start = c.start /\ HandedBackLate(c).late = c.late + 1
           /\ HandedBackLate(c).spent = c.spent /\ HandedBackLate(c).failed = c.failed
<1>1. /\ HandedBackLate(c) \in TallyRecord
      /\ HandedBackLate(c).start = c.start /\ HandedBackLate(c).late = c.late + 1
      /\ HandedBackLate(c).spent = c.spent /\ HandedBackLate(c).failed = c.failed
  BY DEF TallyRecord, HandedBackLate
<1>2. Failed(c).start = c.start /\ Failed(c).late = c.late
  BY DEF TallyRecord, Failed
<1>3. Failed(c).spent = c.spent + 1
  BY DEF TallyRecord, Failed
<1>4. Failed(c).failed = c.failed + 1
  BY DEF TallyRecord, Failed
<1>5. Failed(c) \in TallyRecord
  <2>1. PICK d : d = [c EXCEPT !.spent = @ + 1]
    OBVIOUS
  <2>2. d \in TallyRecord /\ d.failed \in Nat
    BY <2>1 DEF TallyRecord
  <2>3. Failed(c) = [d EXCEPT !.failed = d.failed + 1]
    BY <2>1, Zenon DEF Failed
  <2> QED BY <2>2, <2>3 DEF TallyRecord
<1> QED BY <1>1, <1>2, <1>3, <1>4, <1>5

LEMMA LoginFailsInv ==
    ASSUME LoginsInv, NEW a \in Attempt, LoginFails(a) PROVE LoginsInv'
<1> PICK ip : ip = attempt[a].ip
  OBVIOUS
<1>1. /\ attempt[a] # NoAttempt /\ attempt' = [attempt EXCEPT ![a] = NoAttempt]
      /\ clock' = clock /\ byIP' = byIP
      /\ ip \in IP /\ tally \in [IP -> TallyRecord]
  <2>1. attempt[a] # NoAttempt /\ attempt' = [attempt EXCEPT ![a] = NoAttempt]
        /\ clock' = clock /\ byIP' = byIP
    BY DEF LoginFails
  <2>2. /\ attempt[a] \in AttemptRecord /\ tally \in [IP -> TallyRecord]
        /\ DOMAIN byIP \subseteq IP /\ \A o \in DOMAIN byIP : byIP[o] \in WindowRecord
    BY <2>1 DEF LoginsInv, LoginsTyped
  <2>3. ip \in IP
    BY <2>2 DEF AttemptRecord
  <2> QED BY <2>1, <2>2, <2>3
<1>2. /\ tally[ip] \in TallyRecord /\ tally[ip].start \in Nat /\ tally[ip].spent \in Nat
      /\ tally[ip].failed \in Nat /\ tally[ip].late \in Nat
  BY <1>1 DEF TallyRecord
<1>3. PICK t :
        /\ tally' = [tally EXCEPT ![ip] = t]
        /\ t \in TallyRecord /\ t.start = tally[ip].start /\ t.late = tally[ip].late
        /\ attempt[a].since = tally[ip].start =>
             t.spent = tally[ip].spent + 1 /\ t.failed = tally[ip].failed + 1
        /\ attempt[a].since # tally[ip].start => t = tally[ip]
  <2>1. tally' = IF attempt[a].since = tally[ip].start
                 THEN [tally EXCEPT ![ip] = Failed(tally[ip])] ELSE tally
    BY DEF LoginFails, InItsWindow
  <2>2. CASE attempt[a].since = tally[ip].start
    <3> WITNESS Failed(tally[ip])
    <3> QED BY <1>2, <2>1, <2>2, TallyMoves
  <2>3. CASE attempt[a].since # tally[ip].start
    <3>1. tally' = [tally EXCEPT ![ip] = tally[ip]]
      BY <1>1, <2>1, <2>3
    <3> QED BY <1>2, <2>3, <3>1
  <2> QED BY <2>2, <2>3
<1>4. /\ tally' \in [IP -> TallyRecord] /\ tally'[ip] = t
      /\ \A o \in IP : o # ip => tally'[o] = tally[o]
      /\ \A o \in IP : tally'[o].start = tally[o].start
  BY <1>1, <1>3
<1>5. /\ attempt' \in [Attempt -> AttemptRecord \cup {NoAttempt}]
      /\ IsFiniteSet(Out') /\ Out' \subseteq Out
      /\ \A b \in Out' : attempt'[b] = attempt[b]
      /\ \A o \in IP : o # ip => InFlight(o)' = InFlight(o)
      /\ Cardinality(InFlight(ip)) \in Nat /\ Cardinality(InFlight(ip)') \in Nat
      /\ Cardinality(InFlight(ip)') = IF attempt[a].since = tally[ip].start
                                      THEN Cardinality(InFlight(ip)) - 1
                                      ELSE Cardinality(InFlight(ip))
  BY <1>1, <1>4, AttemptEnds
<1>6. LoginsTyped'
  BY <1>1, <1>4, <1>5 DEF LoginsInv, LoginsTyped
<1>7. ASSUME NEW b \in Out' PROVE AttemptOK(b)'
  <2>1. b \in Out /\ attempt'[b] = attempt[b] /\ AttemptOK(b) /\ attempt[b].ip \in IP
    BY <1>5, <1>7 DEF LoginsInv, LoginsTyped, Out, AttemptRecord
  <2> QED BY <1>4, <2>1 DEF AttemptOK
<1>8. BookOK(ip)'
  <2>1. BookOK(ip) /\ (ip \in DOMAIN byIP => byIP[ip].count \in Nat) /\ IPLimit \in Nat
    BY <1>1, LimitsAssumption DEF LoginsInv, LoginsTyped, WindowRecord
  <2> QED BY <1>1, <1>2, <1>3, <1>4, <1>5, <2>1 DEF BookOK
<1> QED BY <1>1, <1>4, <1>5, <1>6, <1>7, <1>8, OneAddress

LEMMA LoginSucceedsInv ==
    ASSUME LoginsInv, NEW a \in Attempt, LoginSucceeds(a) PROVE LoginsInv'
<1> PICK ip : ip = attempt[a].ip
  OBVIOUS
<1>1. /\ attempt[a] # NoAttempt /\ attempt' = [attempt EXCEPT ![a] = NoAttempt]
      /\ clock' = clock /\ byIP' = Refund(ip)
      /\ ip \in IP /\ tally \in [IP -> TallyRecord]
      /\ DOMAIN byIP \subseteq IP /\ \A o \in DOMAIN byIP : byIP[o] \in WindowRecord
  <2>1. attempt[a] # NoAttempt /\ attempt' = [attempt EXCEPT ![a] = NoAttempt]
        /\ clock' = clock /\ byIP' = Refund(ip)
    BY DEF LoginSucceeds
  <2>2. /\ attempt[a] \in AttemptRecord /\ tally \in [IP -> TallyRecord]
        /\ DOMAIN byIP \subseteq IP /\ \A o \in DOMAIN byIP : byIP[o] \in WindowRecord
    BY <2>1 DEF LoginsInv, LoginsTyped
  <2>3. ip \in IP
    BY <2>2 DEF AttemptRecord
  <2> QED BY <2>1, <2>2, <2>3
<1>2. /\ tally[ip] \in TallyRecord /\ tally[ip].start \in Nat /\ tally[ip].spent \in Nat
      /\ tally[ip].failed \in Nat /\ tally[ip].late \in Nat
  BY <1>1 DEF TallyRecord
<1>3. PICK t :
        /\ tally' = [tally EXCEPT ![ip] = t]
        /\ t \in TallyRecord /\ t.start = tally[ip].start /\ t.failed = tally[ip].failed
        /\ t.spent = tally[ip].spent
        /\ attempt[a].since # tally[ip].start => t.late = tally[ip].late + 1
        /\ attempt[a].since = tally[ip].start => t.late = tally[ip].late
  <2>1. tally' = IF attempt[a].since = tally[ip].start THEN tally
                 ELSE [tally EXCEPT ![ip] = HandedBackLate(tally[ip])]
    BY DEF LoginSucceeds, InItsWindow
  <2>2. CASE attempt[a].since # tally[ip].start
    <3> WITNESS HandedBackLate(tally[ip])
    <3> QED BY <1>2, <2>1, <2>2, TallyMoves
  <2>3. CASE attempt[a].since = tally[ip].start
    <3>1. tally' = [tally EXCEPT ![ip] = tally[ip]]
      BY <1>1, <2>1, <2>3
    <3> QED BY <1>2, <2>3, <3>1
  <2> QED BY <2>2, <2>3
<1>4. /\ tally' \in [IP -> TallyRecord] /\ tally'[ip] = t
      /\ \A o \in IP : o # ip => tally'[o] = tally[o]
      /\ \A o \in IP : tally'[o].start = tally[o].start
  BY <1>1, <1>3
<1>5. /\ attempt' \in [Attempt -> AttemptRecord \cup {NoAttempt}]
      /\ IsFiniteSet(Out') /\ Out' \subseteq Out
      /\ \A b \in Out' : attempt'[b] = attempt[b]
      /\ \A o \in IP : o # ip => InFlight(o)' = InFlight(o)
      /\ Cardinality(InFlight(ip)) \in Nat /\ Cardinality(InFlight(ip)') \in Nat
      /\ Cardinality(InFlight(ip)') = IF attempt[a].since = tally[ip].start
                                      THEN Cardinality(InFlight(ip)) - 1
                                      ELSE Cardinality(InFlight(ip))
  BY <1>1, <1>4, AttemptEnds
<1>6. /\ DOMAIN byIP' = DOMAIN byIP
      /\ \A o \in DOMAIN byIP : byIP'[o] \in WindowRecord
      /\ \A o \in DOMAIN byIP : o # ip => byIP'[o] = byIP[o]
      /\ ip \in DOMAIN byIP =>
           /\ byIP'[ip].start = byIP[ip].start /\ byIP[ip].count \in Nat
           /\ byIP'[ip].count = IF byIP[ip].count > 0 THEN byIP[ip].count - 1 ELSE 0
  <2>1. CASE ip \in DOMAIN byIP /\ byIP[ip].count > 0
    <3> PICK w : w = [byIP[ip] EXCEPT !.count = @ - 1]
      OBVIOUS
    <3>1. /\ w \in WindowRecord /\ w.start = byIP[ip].start /\ w.count = byIP[ip].count - 1
          /\ byIP[ip].count \in Nat
      BY <1>1, <2>1 DEF WindowRecord
    <3>2. byIP' = [byIP EXCEPT ![ip] = w]
      BY <1>1, <2>1 DEF Refund
    <3> QED BY <1>1, <2>1, <3>1, <3>2
  <2>2. CASE ~(ip \in DOMAIN byIP /\ byIP[ip].count > 0)
    <3>1. byIP' = byIP
      BY <1>1, <2>2 DEF Refund
    <3>2. ip \in DOMAIN byIP => byIP[ip].count \in Nat
      BY <1>1 DEF WindowRecord
    <3> QED BY <1>1, <2>2, <3>1, <3>2
  <2> QED BY <2>1, <2>2
<1>7. LoginsTyped'
  BY <1>1, <1>4, <1>5, <1>6 DEF LoginsInv, LoginsTyped
<1>8. ASSUME NEW b \in Out' PROVE AttemptOK(b)'
  <2>1. b \in Out /\ attempt'[b] = attempt[b] /\ AttemptOK(b) /\ attempt[b].ip \in IP
    BY <1>5, <1>8 DEF LoginsInv, LoginsTyped, Out, AttemptRecord
  <2> QED BY <1>4, <2>1 DEF AttemptOK
<1>9. BookOK(ip)'
  <2>1. BookOK(ip) /\ IPLimit \in Nat
    BY <1>1, LimitsAssumption DEF LoginsInv
  <2> QED BY <1>1, <1>2, <1>3, <1>4, <1>5, <1>6, <2>1 DEF BookOK
<1> QED BY <1>1, <1>4, <1>5, <1>6, <1>7, <1>8, <1>9, OneAddress

LEMMA LoginCleanUpInv ==
    ASSUME LoginsInv, LoginCleanUp PROVE LoginsInv'
<1>1. /\ UNCHANGED <<clock, attempt, tally>>
      /\ DOMAIN byIP' = {k \in DOMAIN byIP : clock - byIP[k].start <= 2 * Window}
      /\ \A k \in DOMAIN byIP' : byIP'[k] = byIP[k]
  BY DEF LoginCleanUp, Restrict
<1>2. LoginsTyped' /\ IsFiniteSet(Out)' /\ \A a \in Out' : AttemptOK(a)'
  BY <1>1 DEF LoginsInv, LoginsTyped, Out, AttemptOK
<1>3. ASSUME NEW ip \in IP PROVE BookOK(ip)'
  <2>1. BookOK(ip) /\ InFlight(ip)' = InFlight(ip) /\ tally[ip].start \in Nat /\ clock \in Nat
    BY <1>1 DEF LoginsInv, LoginsTyped, TallyRecord, InFlight
  <2>2. ip \in DOMAIN byIP /\ ip \notin DOMAIN byIP' => tally[ip].start < clock
    BY <1>1, <2>1, LimitsAssumption DEF BookOK
  <2> QED BY <1>1, <2>1, <2>2 DEF BookOK
<1> QED BY <1>2, <1>3 DEF LoginsInv

LEMMA LimitTickLogins ==
    ASSUME LoginsInv, LimitTick PROVE LoginsInv'
<1>1. clock \in Nat /\ clock' = clock + 1 /\ UNCHANGED <<byIP, attempt, tally>>
  BY DEF LimitTick, loginVars, LoginsInv, LoginsTyped
<1>2. LoginsTyped' /\ IsFiniteSet(Out)' /\ \A a \in Out' : AttemptOK(a)'
  BY <1>1 DEF LoginsInv, LoginsTyped, Out, AttemptOK
<1>3. ASSUME NEW ip \in IP PROVE BookOK(ip)'
  <2>1. BookOK(ip) /\ InFlight(ip)' = InFlight(ip) /\ tally[ip].start \in Nat
    BY <1>1 DEF LoginsInv, LoginsTyped, TallyRecord, InFlight
  <2> QED BY <1>1, <2>1 DEF BookOK
<1> QED BY <1>2, <1>3 DEF LoginsInv

\* An address is charged only for what is under way, failed or was refused, and
\* gets no more wrong guesses than the limit and its late refunds.
THEOREM OnlyFailuresSpendTheBudget == Spec => []BudgetIsForFailures
<1>1. Init => LoginsInv
  BY LoginInitInv DEF Init
<1>2. LoginsInv /\ [Next]_accessVars => LoginsInv'
  <2> SUFFICES ASSUME LoginsInv, [Next]_accessVars PROVE LoginsInv'
    OBVIOUS
  <2>1. \/ \E a \in Attempt :
             \/ \E ip \in IP, email \in Email : Login(a, ip, email)
             \/ LoginFails(a) \/ LoginSucceeds(a)
        \/ LoginCleanUp
        \/ LimitTick
        \/ UNCHANGED <<clock, byIP, attempt, tally>>
    BY DEF Next, BucketNext, Allow, BucketCleanUp, LoginNext, accessVars, limitVars, loginVars
  <2>2. CASE UNCHANGED <<clock, byIP, attempt, tally>>
    <3>1. LoginsTyped' /\ IsFiniteSet(Out)' /\ \A a \in Out' : AttemptOK(a)'
      BY <2>2 DEF LoginsInv, LoginsTyped, Out, AttemptOK
    <3>2. \A ip \in IP : InFlight(ip)' = InFlight(ip)
      BY <2>2 DEF InFlight
    <3>3. \A ip \in IP : BookOK(ip)'
      BY <2>2, <3>2 DEF LoginsInv, BookOK
    <3> QED BY <3>1, <3>3 DEF LoginsInv
  <2> QED BY <2>1, <2>2, LoginInv, LoginFailsInv, LoginSucceedsInv, LoginCleanUpInv,
             LimitTickLogins
<1>3. LoginsInv => BudgetIsForFailures
  BY DEF LoginsInv, BookOK, BudgetIsForFailures
<1> QED BY <1>1, <1>2, <1>3, PTL DEF Spec
=============================================================================
