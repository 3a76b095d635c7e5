---------------------------- MODULE RideSession ----------------------------
(***************************************************************************)
(* One ride as the engine believes in it: rider/session.go, fed with the    *)
(* verdicts of rider/verify.go.  A ride starts pending.  A run of matched   *)
(* points verifies it; a run of points that do not match, or a trusted feed *)
(* that contradicts it three times, rejects and ends it.                    *)
(*                                                                         *)
(* Geometry and schedule are abstracted: a point that is judged at all gets *)
(* any outcome, and a matched one any corroboration.  Time is kept, in      *)
(* ticks: what is ignored, what is fresh and what is scored depend on it.   *)
(* Unavailable and NoCorroboration are one value, "none": Apply does not    *)
(* tell them apart.                                                         *)
(***************************************************************************)
EXTENDS Integers, Sequences, FiniteSets

CONSTANTS VerifyStreak, RejectStreak, ContradictStreak, CorroborateCount,
          MinScoredRide, PastWindow, FutureWindow, PointMaxAge,
          MaxTime   \* bound: the clock and every timestamp stay in 1 .. MaxTime

ASSUME SessionAssumption ==
    /\ VerifyStreak \in Nat \ {0}
    /\ RejectStreak \in Nat \ {0}
    /\ ContradictStreak \in Nat \ {0}
    /\ CorroborateCount \in Nat \ {0}
    /\ MinScoredRide \in Nat
    /\ PastWindow \in Nat
    /\ FutureWindow \in Nat
    /\ PointMaxAge \in Nat
    /\ MaxTime \in Nat \ {0}

VARIABLES
    now,
    state,            \* Session.state
    reason,           \* Session.endReason, "" while the ride is live
    tier,             \* Session.tier
    latest,           \* timestamp of the latest accepted point, 0 before it
    latestMatched,    \* timestamp of the latest matched point, 0 before it
    firstMatched,     \* timestamp of the first matched point, 0 before it
    matchStreak,
    contradictions,
    nonMatched,       \* nonMatchedStreak: the current run of failing outcomes
    counts            \* Session.counts, of which corroborated is derived

clocks      == <<latest, latestMatched, firstMatched>>
streaks     == <<matchStreak, contradictions, nonMatched>>
sessionVars == <<now, state, reason, tier, clocks, streaks, counts>>

Time    == 0 .. MaxTime
Failing == {"off_route", "implausible", "off_schedule"}
Outcome == Failing \cup {"matched"}
Corroboration == {"none", "corroborated", "contradicted"}
Tiers   == {"new", "trusted", "blocked"}
Rejections == Failing \cup {"contradicted"}

\* The fields follow from one another as the engine's readers assume.
SessionTypeOK ==
    /\ now \in Time /\ latest \in Time
    /\ latestMatched \in 0 .. latest
    /\ firstMatched \in 0 .. latestMatched
    /\ state \in {"pending", "verified", "rejected"}
    /\ reason \in Rejections \cup {"", "closed"}
    /\ tier \in Tiers
    /\ matchStreak \in 0 .. counts.matched
    /\ contradictions \in 0 .. ContradictStreak
    /\ nonMatched \in Seq(Failing) /\ Len(nonMatched) <= RejectStreak
    /\ counts.total \in Time
    /\ counts.matched \in 0 .. counts.total
    /\ counts.corroborated + counts.contradicted \in 0 .. counts.matched

SessionInit ==
    /\ now = 1
    /\ state = "pending"
    /\ reason = ""
    /\ tier \in Tiers
    /\ latest = 0 /\ latestMatched = 0 /\ firstMatched = 0
    /\ matchStreak = 0 /\ contradictions = 0 /\ nonMatched = <<>>
    /\ counts = [total |-> 0, matched |-> 0, corroborated |-> 0,
                 contradicted |-> 0]

-----------------------------------------------------------------------------
(* What a reader sees: Publishable, and what scoring asks of the summary.  *)

HasEnded == reason # ""

\* Session.corroborated, set for good at the twelfth corroborated point.
IsCorroborated == counts.corroborated >= CorroborateCount

MatchedDuration == IF counts.matched >= 2 THEN latestMatched - firstMatched ELSE 0

\* (Mutant: freshness is judged on the latest accepted point.)
FreshLatest == latest # 0 /\ now - latest <= PointMaxAge

Fresh == latestMatched # 0 /\ now - latestMatched <= PointMaxAge

Publishable ==
    /\ state = "verified" /\ ~HasEnded /\ Fresh
    /\ tier # "blocked"
    /\ tier = "trusted" \/ IsCorroborated

Scored == IsCorroborated /\ MatchedDuration >= MinScoredRide

-----------------------------------------------------------------------------
(* Verify: ignoreReason, as far as it is about time.                       *)

InWindow(ts) == now - ts <= PastWindow /\ ts - now <= FutureWindow

\* (Mutant: a point is compared with the latest match only.)
NewerThanMatch(ts) == ts > latestMatched

\* Judged against the latest accepted point of any outcome.
Newer(ts) == ts > latest /\ ts > latestMatched

-----------------------------------------------------------------------------
(* dominantOutcome: the most frequent outcome of the run; the scan from the *)
(* end replaces its choice only by a strictly more frequent one.            *)

Frequency(run, o) == Cardinality({i \in DOMAIN run : run[i] = o})

\* (Mutant: the scan replaces its choice by one that is as frequent.)
DominantOldest(run) ==
    LET best[i \in 1 .. Len(run)] ==
          IF i = Len(run) \/ Frequency(run, run[i]) >= Frequency(run, best[i + 1])
          THEN run[i] ELSE best[i + 1]
    IN best[1]

Dominant(run) ==
    LET best[i \in 1 .. Len(run)] ==
          IF i = Len(run) \/ Frequency(run, run[i]) > Frequency(run, best[i + 1])
          THEN run[i] ELSE best[i + 1]
    IN best[1]

-----------------------------------------------------------------------------
(* Apply.                                                                  *)

RunRejects(run) == Len(run) >= RejectStreak

\* (Mutant: only an unbroken run of contradicted points counts.)
ContradictionsInARow(c) == IF c = "contradicted" THEN contradictions + 1 ELSE 0

\* Only a corroborated point clears the streak.
Contradictions(c) == CASE c = "contradicted" -> contradictions + 1
                       [] c = "corroborated" -> 0
                       [] OTHER -> contradictions

ApplyMatched(ts, c) ==
    /\ ~HasEnded
    /\ InWindow(ts) /\ Newer(ts)
    /\ latest' = ts /\ latestMatched' = ts
    /\ firstMatched' = IF counts.matched = 0 THEN ts ELSE firstMatched
    /\ nonMatched' = <<>>
    /\ matchStreak' = matchStreak + 1
    /\ contradictions' = Contradictions(c)
    /\ counts' = [total        |-> counts.total + 1,
                  matched      |-> counts.matched + 1,
                  corroborated |-> counts.corroborated
                                     + (IF c = "corroborated" THEN 1 ELSE 0),
                  contradicted |-> counts.contradicted
                                     + (IF c = "contradicted" THEN 1 ELSE 0)]
    /\ IF contradictions' >= ContradictStreak
       THEN state' = "rejected" /\ reason' = "contradicted"
       ELSE /\ state' = IF state = "pending" /\ matchStreak' >= VerifyStreak
                        THEN "verified" ELSE state
            /\ UNCHANGED reason
    /\ UNCHANGED <<now, tier>>

ApplyNonMatched(ts, o) ==
    /\ ~HasEnded
    /\ InWindow(ts) /\ Newer(ts)
    /\ latest' = ts
    /\ matchStreak' = 0
    /\ nonMatched' = Append(nonMatched, o)
    /\ counts' = [counts EXCEPT !.total = @ + 1]
    /\ IF RunRejects(nonMatched')
       THEN state' = "rejected" /\ reason' = Dominant(nonMatched')
       ELSE UNCHANGED <<state, reason>>
    /\ UNCHANGED <<now, tier, latestMatched, firstMatched, contradictions>>

\* The client, a newer ride of the rider or the reaper ends the ride.
End ==
    /\ ~HasEnded
    /\ reason' = "closed"
    /\ UNCHANGED <<now, state, tier, clocks, streaks, counts>>

\* Another ride of the rider was scored.
SetTier(t) ==
    /\ ~HasEnded
    /\ tier' = t
    /\ UNCHANGED <<now, state, reason, clocks, streaks, counts>>

Tick ==
    /\ now < MaxTime
    /\ now' = now + 1
    /\ UNCHANGED <<state, reason, tier, clocks, streaks, counts>>

SessionNext ==
    \/ \E ts \in 1 .. MaxTime : \/ \E c \in Corroboration : ApplyMatched(ts, c)
                                \/ \E o \in Failing : ApplyNonMatched(ts, o)
    \/ End
    \/ \E t \in Tiers : SetTier(t)
    \/ Tick

SessionSpec == SessionInit /\ [][SessionNext]_sessionVars
=============================================================================
