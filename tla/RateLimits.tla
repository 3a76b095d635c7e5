----------------------------- MODULE RateLimits -----------------------------
(***************************************************************************)
(* Who is answered 429.  A VehicleRateLimiter (ratelimit.go) holds a token  *)
(* bucket for every driver or rider and drops the ones not seen for a       *)
(* while; a LoginRateLimiter (ratelimit_login.go) charges every attempt to  *)
(* log in to its address and its account before the password is looked at,  *)
(* and hands the charge back when it was right.  The limiters of refreshes  *)
(* (ratelimit_refresh.go) and registrations (rider_auth.go) are the half of *)
(* it that looks at the address, with no refund.                            *)
(*                                                                          *)
(* A bucket is counted in ticks: a request costs Interval of them, one      *)
(* comes back with every tick, and it holds Full.                           *)
(***************************************************************************)
EXTENDS Integers, FiniteSets, Functions

CONSTANTS Key,         \* drivers or riders
          Interval, Burst, Capacity,
          Idle,        \* how long unseen before the clean-up may drop a bucket
          IP, Email, Attempt,
          IPLimit, EmailLimit, Window, MaxTracked,
          MaxCount,    \* bound on the attempts counted in one window
          MaxClock     \* bound on the clock

Full == Burst * Interval

ASSUME LimitsAssumption ==
    /\ Interval \in Nat \ {0} /\ Burst \in Nat \ {0} /\ Idle \in Nat /\ Full <= Idle
    /\ IPLimit \in Nat \ {0} /\ EmailLimit \in Nat \ {0} /\ Window \in Nat \ {0}
    /\ Capacity \in Nat /\ MaxTracked \in Nat /\ MaxCount \in Nat /\ MaxClock \in Nat

VARIABLES clock,
          failClosed,  \* which of the two kinds of limiter it is
          limiters,    \* key -> its bucket, for the keys that have one
          ideal,       \* history: the buckets if none were ever dropped; a request
                       \* let through beyond the rate leaves nothing in them
          verdict,     \* history: the last answer, and the ideal one
          byIP, byEmail,
          attempt,     \* logins let through whose password is being checked
          tally        \* history: what each address did since its window began

bucketVars == <<failClosed, limiters, ideal, verdict>>
loginVars == <<byIP, byEmail, attempt, tally>>
limitVars == <<clock, bucketVars, loginVars>>

\* The table with this entry for k.
Entered(table, k, entry) == [l \in DOMAIN table \cup {k} |-> IF l = k THEN entry ELSE table[l]]

-----------------------------------------------------------------------------
(* Token buckets.                                                           *)

NewBucket == [tokens |-> Full, at |-> clock]

Refilled(b) ==
    LET tokens == b.tokens + clock - b.at IN IF tokens > Full THEN Full ELSE tokens

Admits(b) == Refilled(b) >= Interval

\* The bucket once it has answered; at is when it was last seen.
Charged(b) ==
    [tokens |-> IF Admits(b) THEN Refilled(b) - Interval ELSE Refilled(b), at |-> clock]

Bucket(k) == IF k \in DOMAIN limiters THEN limiters[k] ELSE NewBucket

HasRoom(k) == k \in DOMAIN limiters \/ Cardinality(DOMAIN limiters) < Capacity

Allowed(k) == IF HasRoom(k) THEN Admits(Bucket(k)) ELSE ~failClosed

Allow(k) ==
    /\ limiters' = IF HasRoom(k) THEN Entered(limiters, k, Charged(Bucket(k))) ELSE limiters
    /\ ideal' = IF Allowed(k)
                THEN [ideal EXCEPT ![k] = IF Admits(@) THEN Charged(@) ELSE [tokens |-> 0, at |-> clock]]
                ELSE ideal
    /\ verdict' = [allowed |-> Allowed(k), ideal |-> Admits(ideal[k]), room |-> HasRoom(k)]
    /\ UNCHANGED <<clock, failClosed, loginVars>>

\* (Mutant: whatever was not seen this tick.)
UnseenNow(k) == clock > limiters[k].at

Unseen(k) == clock - limiters[k].at > Idle

BucketCleanUp ==
    /\ \E k \in DOMAIN limiters : Unseen(k)
    /\ limiters' = Restrict(limiters, {k \in DOMAIN limiters : ~Unseen(k)})
    /\ UNCHANGED <<clock, failClosed, ideal, verdict, loginVars>>

-----------------------------------------------------------------------------
(* Windows of login attempts.                                               *)

\* allowInWindow: the table after one more attempt of k, and whether it may go
\* on; a refused attempt is counted as well, except where there is no room.
InWindow(table, k, limit) ==
    LET opened == Entered(table, k, [count |-> 1, start |-> clock])
        counted == [table EXCEPT ![k].count = @ + 1]
    IN IF k \notin DOMAIN table
       THEN IF Cardinality(DOMAIN table) >= MaxTracked
            THEN [table |-> table, ok |-> FALSE]
            ELSE [table |-> opened, ok |-> TRUE]
       ELSE IF clock - table[k].start >= Window
            THEN [table |-> opened, ok |-> TRUE]
            ELSE [table |-> counted, ok |-> counted[k].count <= limit]

NoAttempt == [pc |-> "idle"]
NewTally(start) == [start |-> start, spent |-> 0, failed |-> 0, late |-> 0]

Tally(ip, start) == IF tally[ip].start = start THEN tally[ip] ELSE NewTally(start)
Failed(t) == [t EXCEPT !.spent = @ + 1, !.failed = @ + 1]
HandedBackLate(t) == [t EXCEPT !.late = @ + 1]
InItsWindow(a) == attempt[a].since = tally[attempt[a].ip].start

\* Allow: the account is charged only if the address may go on.
Login(a, ip, email) ==
    LET byAddress == InWindow(byIP, ip, IPLimit)
        byAccount == InWindow(byEmail, email, EmailLimit)
        allowed == byAddress.ok /\ byAccount.ok
    IN /\ attempt[a] = NoAttempt
       /\ \A k \in DOMAIN byAddress.table : byAddress.table[k].count <= MaxCount
       /\ \A k \in DOMAIN byAccount.table : byAccount.table[k].count <= MaxCount
       /\ byIP' = byAddress.table
       /\ byEmail' = IF byAddress.ok THEN byAccount.table ELSE byEmail
       /\ attempt' = IF allowed
                     THEN [attempt EXCEPT ![a] = [pc |-> "checking", ip |-> ip, email |-> email,
                                                  since |-> byIP'[ip].start]]
                     ELSE attempt
       /\ tally' = IF ip \notin DOMAIN byIP' THEN tally
                   ELSE LET current == Tally(ip, byIP'[ip].start)
                        IN [tally EXCEPT ![ip] = IF allowed THEN current
                                                 ELSE [current EXCEPT !.spent = @ + 1]]
       /\ UNCHANGED <<clock, bucketVars>>

\* Wrong password, inactive account, or an error of the database.
LoginFails(a) ==
    /\ attempt[a] # NoAttempt
    /\ attempt' = [attempt EXCEPT ![a] = NoAttempt]
    /\ tally' = IF InItsWindow(a) THEN [tally EXCEPT ![attempt[a].ip] = Failed(@)] ELSE tally
    /\ UNCHANGED <<clock, bucketVars, byIP, byEmail>>

\* (Mutant: only the account is cleared.)
RefundAccount(ip) == byIP

Refund(ip) ==
    IF ip \in DOMAIN byIP /\ byIP[ip].count > 0
    THEN [byIP EXCEPT ![ip].count = @ - 1] ELSE byIP

\* RecordSuccess.
LoginSucceeds(a) ==
    /\ attempt[a] # NoAttempt
    /\ byEmail' = Restrict(byEmail, DOMAIN byEmail \ {attempt[a].email})
    /\ byIP' = Refund(attempt[a].ip)
    /\ attempt' = [attempt EXCEPT ![a] = NoAttempt]
    /\ tally' = IF InItsWindow(a) THEN tally
                ELSE [tally EXCEPT ![attempt[a].ip] = HandedBackLate(@)]
    /\ UNCHANGED <<clock, bucketVars>>

\* cleanup: pruneStaleWindows of both tables.
LoginCleanUp ==
    LET kept(table) == Restrict(table, {k \in DOMAIN table : clock - table[k].start <= 2 * Window})
    IN /\ <<kept(byIP), kept(byEmail)>> # <<byIP, byEmail>>
       /\ byIP' = kept(byIP) /\ byEmail' = kept(byEmail)
       /\ UNCHANGED <<clock, bucketVars, attempt, tally>>

-----------------------------------------------------------------------------
LimitInit ==
    /\ clock = 1
    /\ failClosed \in BOOLEAN
    /\ limiters = <<>>
    /\ ideal = [k \in Key |-> [tokens |-> Full, at |-> 1]]
    /\ verdict = [allowed |-> TRUE, ideal |-> TRUE, room |-> TRUE]
    /\ byIP = <<>> /\ byEmail = <<>>
    /\ attempt = [a \in Attempt |-> NoAttempt]
    /\ tally = [ip \in IP |-> NewTally(0)]

LimitTick ==
    /\ clock < MaxClock /\ clock' = clock + 1
    /\ UNCHANGED <<bucketVars, loginVars>>

BucketNext == (\E k \in Key : Allow(k)) \/ BucketCleanUp \/ LimitTick

LoginNext ==
    \/ \E a \in Attempt :
         \/ \E ip \in IP, email \in Email : Login(a, ip, email)
         \/ LoginFails(a) \/ LoginSucceeds(a)
    \/ LoginCleanUp \/ LimitTick

-----------------------------------------------------------------------------
\* Dropping idle buckets and starting them afresh answers nobody differently
\* than keeping them for ever would.  A full table turns only new riders away,
\* and lets a driver through rather than refuse one who keeps to the rate.
CleanUpChangesNoAnswer ==
    /\ failClosed => verdict.allowed = (verdict.ideal /\ verdict.room)
    /\ ~failClosed /\ verdict.ideal => verdict.allowed

InFlight(ip) ==
    {a \in Attempt : attempt[a] # NoAttempt /\ attempt[a].ip = ip /\ attempt[a].since = tally[ip].start}

\* An address is refused only for attempts in its window that failed, were
\* refused or are still under way, so correct logins behind one address do not
\* lock each other out.  And it gets no more wrong guesses than the limit, but
\* for the charges handed back for attempts of the window before.
BudgetIsForFailures ==
    \A ip \in IP :
        /\ ip \in DOMAIN byIP /\ byIP[ip].start = tally[ip].start =>
             byIP[ip].count <= Cardinality(InFlight(ip)) + tally[ip].spent
        /\ Cardinality(InFlight(ip)) + tally[ip].failed <= IPLimit + tally[ip].late
=============================================================================
