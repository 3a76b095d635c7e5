--------------------------- MODULE RideSessionLog ---------------------------
(***************************************************************************)
(* RideSession with a record of every accepted verdict, and what a ride     *)
(* amounts to defined from that record alone.  The engine keeps a handful   *)
(* of counters instead; the properties say that the counters never forget   *)
(* anything the record would show.                                          *)
(***************************************************************************)
EXTENDS RideSession

VARIABLE log   \* the accepted verdicts: [at, outcome, corroboration]

logVars == <<sessionVars, log>>

Verdict == [at : 1 .. MaxTime, outcome : Outcome, corroboration : Corroboration]

InitLog == SessionInit /\ log = <<>>

Record(ts, o, c) ==
    log' = Append(log, [at |-> ts, outcome |-> o, corroboration |-> c])

NextLog ==
    \/ \E ts \in 1 .. MaxTime :
         \/ \E c \in Corroboration : ApplyMatched(ts, c) /\ Record(ts, "matched", c)
         \/ \E o \in Failing : ApplyNonMatched(ts, o) /\ Record(ts, o, "none")
    \/ (End \/ (\E t \in Tiers : SetTier(t)) \/ Tick) /\ UNCHANGED log

SpecLog == InitLog /\ [][NextLog]_logVars

-----------------------------------------------------------------------------
(* Reference definitions over a record.                                    *)

Is(i, o) == log[i].outcome = o
Matched(i) == Is(i, "matched")
Points == DOMAIN log
Window(i, n) == (i - n + 1) .. i    \* the n points that end with the i-th

\* n points in a row, all of them matched (or all of them not).
RunOfMatched(n) == \E i \in Points : Window(i, n) \subseteq {j \in Points : Matched(j)}
FailedAt(i) == Window(i, RejectStreak) \subseteq {j \in Points : ~Matched(j)}

\* The contradicted points at and before i that no corroborated one follows.
Standing(i) ==
    {j \in 1 .. i : /\ log[j].corroboration = "contradicted"
                    /\ \A k \in j .. i : log[k].corroboration # "corroborated"}
ContradictedAt(i) == Cardinality(Standing(i)) >= ContradictStreak

Occurrences(i, o) == {j \in Window(i, RejectStreak) : Is(j, o)}

\* The most frequent outcome of the run that ends with i; of several, the one
\* seen last.
Blamed(i) ==
    CHOOSE o \in Failing :
        LET j == CHOOSE x \in Occurrences(i, o) : \A y \in Occurrences(i, o) : y <= x
        IN /\ Occurrences(i, o) # {}
           /\ \A p \in Failing \ {o} :
                \/ Cardinality(Occurrences(i, p)) < Cardinality(Occurrences(i, o))
                \/ /\ Cardinality(Occurrences(i, p)) = Cardinality(Occurrences(i, o))
                   /\ \A y \in Occurrences(i, p) : y < j

-----------------------------------------------------------------------------
(* Properties.                                                             *)

\* The streak counters amount to the whole record: a ride is rejected exactly
\* when the record holds a run of failing points or enough contradictions that
\* nothing corroborated since (a feed that goes quiet absolves nobody), and it
\* is verified exactly when it is not and the record holds a run of matches.
StateFollowsFromLog ==
    state = IF \E i \in Points : FailedAt(i) \/ ContradictedAt(i) THEN "rejected"
            ELSE IF RunOfMatched(VerifyStreak) THEN "verified" ELSE "pending"

\* A rejected ride is blamed on what its last points show, it was rejected by
\* the first point that justified it, and no later end changed the reason.
RejectionIsBlamedRight ==
    state = "rejected" =>
        LET n == Len(log) IN
        /\ \A i \in 1 .. n - 1 : ~FailedAt(i) /\ ~ContradictedAt(i)
        /\ reason = IF ContradictedAt(n) THEN "contradicted" ELSE Blamed(n)

\* Whatever order points arrive in, those the engine folds in are in the order
\* of their timestamps: a late point never rewinds a streak.
LogIsChronological ==
    \A i, j \in Points : i < j => log[i].at < log[j].at

\* A ride is published only on a recent match, never on the strength of later
\* points that failed.
PublishedOnARecentMatch ==
    Publishable => \E i \in Points : Matched(i) /\ now - log[i].at <= PointMaxAge
=============================================================================
