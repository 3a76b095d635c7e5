---------------------------- MODULE TripEstimates ----------------------------
(***************************************************************************)
(* The position the riders of one trip add up to (rider/aggregator.go).     *)
(* Data only: module VehicleFeed gives it rides and a clock.  Positions are *)
(* whole steps along the shape; a median is kept doubled, so that the mean  *)
(* of two middle riders is a whole number too.                              *)
(***************************************************************************)
EXTENDS Integers, FiniteSets, Functions

CONSTANTS ConsensusDistance,  \* how near two riders vouch for each other
          OutlierDistance,    \* how far from the median a rider may be
          PointMaxAge,        \* how long a matched point positions a vehicle
          Stops               \* where along the shape the trip stops

ASSUME EstimatesAssumption ==
    /\ ConsensusDistance \in Nat /\ OutlierDistance \in Nat
    /\ PointMaxAge \in Nat /\ Stops \subseteq Nat

Distance(x, y) == IF x <= y THEN y - x ELSE x - y

-----------------------------------------------------------------------------
(* Which rides count.  A ride is what its session says of it: whether it    *)
(* lives, is verified, is the newest of its rider, was corroborated, the    *)
(* tier of the rider, and where and when its last matched point was.        *)

Fresh(s, now) == now - s.at <= PointMaxAge

Publishable(s, now) ==
    /\ s.live /\ s.verified /\ Fresh(s, now)
    /\ s.tier # "blocked"
    /\ s.tier = "trusted" \/ s.corroborated

Contributes(s, now) ==
    /\ s.live /\ s.verified /\ Fresh(s, now)
    /\ s.tier # "blocked"
    /\ s.newest

\* The group of the trip: what each contributing ride says.  At most one ride
\* of a rider contributes, so the rides stand for their riders.
Group(rides, now) ==
    [i \in {j \in DOMAIN rides : Contributes(rides[j], now)} |->
        [along |-> rides[i].along, at |-> rides[i].at,
         publishable |-> Publishable(rides[i], now)]]

-----------------------------------------------------------------------------
(* The k-th smallest of the group's positions, and twice their median.      *)
Kth(g, k) ==
    CHOOSE x \in {g[i].along : i \in DOMAIN g} :
        /\ Cardinality({i \in DOMAIN g : g[i].along < x}) < k
        /\ Cardinality({i \in DOMAIN g : g[i].along <= x}) >= k

Median(g) ==
    LET n == Cardinality(DOMAIN g) IN Kth(g, (n + 1) \div 2) + Kth(g, n \div 2 + 1)

\* The members within limit of a (doubled) position.
Within(g, place, limit) ==
    Restrict(g, {i \in DOMAIN g : Distance(2 * g[i].along, place) <= 2 * limit})

\* One ride publishable on its own, or two that put the vehicle in one place.
Credible(g) ==
    \/ \E i \in DOMAIN g : g[i].publishable
    \/ \E i, j \in DOMAIN g :
         i # j /\ Distance(g[i].along, g[j].along) <= ConsensusDistance

NewestTimestamp(g, now) ==
    LET newest == CHOOSE t \in {g[i].at : i \in DOMAIN g} : \A i \in DOMAIN g : g[i].at <= t
    IN IF newest > now THEN now ELSE newest

\* The first stop at or ahead of a (doubled) position; -1 past the last one.
NextStop(place) ==
    LET ahead == {s \in Stops : 2 * s >= place}
    IN IF ahead = {} THEN -1 ELSE CHOOSE s \in ahead : \A t \in ahead : s <= t

\* (Mutant: what is left need not be credible.)
EstimateUnchecked(g, now) ==
    IF ~Credible(g) THEN {}
    ELSE LET kept == Within(g, Median(g), OutlierDistance)
         IN IF kept = <<>> THEN {}
            ELSE {[place |-> Median(kept), at |-> NewestTimestamp(kept, now),
                   riders |-> Cardinality(DOMAIN kept), stop |-> NextStop(Median(kept))]}

\* The estimate of a group: none, or one position.  Outliers are dropped once,
\* and what is left has to be credible again.
Estimate(g, now) ==
    IF ~Credible(g) THEN {}
    ELSE LET kept == Within(g, Median(g), OutlierDistance)
         IN IF ~Credible(kept) THEN {}
            ELSE {[place |-> Median(kept), at |-> NewestTimestamp(kept, now),
                   riders |-> Cardinality(DOMAIN kept), stop |-> NextStop(Median(kept))]}
=============================================================================
