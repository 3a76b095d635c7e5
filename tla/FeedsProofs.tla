---------------------------- MODULE FeedsProofs ----------------------------
(***************************************************************************)
(* The feed the server builds and what it fetches for itself, for any       *)
(* number of vehicles, trips, requests, riders, agencies and trusted feeds, *)
(* for any timetables, ages, delays and retention that FeedAssumption and   *)
(* the assumptions of Upstream allow.                                       *)
(*                                                                          *)
(* The first part is about the estimate of a trip's riders and needs no     *)
(* state: the k-th smallest position of a finite group is some rider's,     *)
(* which the well-ordering of the numbers of riders below it gives.  The    *)
(* second is about the server: StateInv ties the tracker and the phones to  *)
(* the stored points, FeedInv the half-read feed to the tracker.            *)
(*                                                                          *)
(* The third is about the timetable and the trusted feeds: LoadInv says     *)
(* what a load has in hand at each of its steps, TagsOK what a validator is *)
(* of.  The fourth needs no state again: what an index keeps of a trip, on  *)
(* which date it is found, and that its schedule runs forward.              *)
(***************************************************************************)
EXTENDS VehicleFeed, Upstream, FiniteSetTheorems, WellFoundedInduction, TLAPS

-----------------------------------------------------------------------------
(* Estimates.                                                               *)

\* A finite set has a member with the greatest value.
LEMMA HighestExists ==
    ASSUME NEW D, IsFiniteSet(D), D # {}, NEW f, \A i \in D : f[i] \in Int
    PROVE  \E i \in D : \A j \in D : f[j] <= f[i]
<1> DEFINE Above(i) == {j \in D : f[j] > f[i]}
           T == {Cardinality(Above(i)) : i \in D}
<1>1. \A i \in D : IsFiniteSet(Above(i)) /\ Cardinality(Above(i)) \in Nat
  <2> TAKE i \in D
  <2>1. Above(i) \in SUBSET D
    OBVIOUS
  <2>2. IsFiniteSet(Above(i))
    BY <2>1, FS_Subset
  <2> QED BY <2>2, FS_CardinalityType
<1>2. T \subseteq Nat /\ T # {}
  BY <1>1
<1>3. PICK n \in T : \A m \in T : ~ (<<m, n>> \in OpToRel(<, Nat))
  <2> HIDE DEF T
  <2> QED BY <1>2, NatLessThanWellFounded, WFMin, Zenon
<1>4. \A m \in T : ~ (m < n)
  BY <1>2, <1>3 DEF OpToRel
<1>5. PICK i \in D : n = Cardinality(Above(i))
  BY <1>3 DEF T
<1>6. ASSUME NEW j \in D, f[j] > f[i] PROVE FALSE
  <2>1. Above(j) \in SUBSET Above(i) /\ j \in Above(i) /\ j \notin Above(j)
    BY <1>6
  <2>2. Cardinality(Above(j)) <= Cardinality(Above(i))
        /\ Cardinality(Above(j)) # Cardinality(Above(i))
    BY <1>1, <2>1, FS_Subset
  <2>3. Cardinality(Above(j)) \in T
    BY <1>6
  <2>4. ~ (Cardinality(Above(j)) < n)
    BY <1>4, <2>3
  <2> HIDE DEF Above
  <2> QED BY <1>1, <1>5, <2>2, <2>4
<1> QED BY <1>6
LEMMA LowestExists ==
    ASSUME NEW D, IsFiniteSet(D), D # {}, NEW f, \A i \in D : f[i] \in Int
    PROVE  \E i \in D : \A j \in D : f[i] <= f[j]
<1> PICK h : h = [i \in D |-> - f[i]]
  OBVIOUS
<1>1. \A i \in D : h[i] = - f[i] /\ h[i] \in Int
  OBVIOUS
<1>2. PICK i \in D : \A j \in D : h[j] <= h[i]
  BY <1>1, HighestExists
<1>3. ASSUME NEW j \in D PROVE f[i] <= f[j]
  BY <1>1, <1>2
<1> QED BY <1>3

\* What the riders of a trip may be: finitely many, each at a place and a time.
IsGroup(g) ==
    IsFiniteSet(DOMAIN g) /\ \A i \in DOMAIN g : g[i].along \in Nat /\ g[i].at \in Nat

\* The k-th smallest position is some rider's.
LEMMA KthIsSomebodys ==
    ASSUME NEW g, IsGroup(g), NEW k \in Nat \ {0}, k <= Cardinality(DOMAIN g)
    PROVE  \E i \in DOMAIN g : Kth(g, k) = g[i].along
<1> DEFINE D == DOMAIN g
           Below(x) == {i \in D : g[i].along < x}
           UpTo(x) == {i \in D : g[i].along <= x}
           X == {g[i].along : i \in D}
           Q(x) == Cardinality(Below(x)) < k /\ Cardinality(UpTo(x)) >= k
           S == {i \in D : Cardinality(UpTo(g[i].along)) >= k}
<1>1. /\ IsFiniteSet(D) /\ \A i \in D : g[i].along \in Nat
      /\ Cardinality(D) \in Nat /\ D # {}
  BY FS_CardinalityType, FS_EmptySet DEF IsGroup
<1>2. PICK a : a = [i \in D |-> g[i].along]
  OBVIOUS
<1>3. \A i \in D : a[i] = g[i].along /\ a[i] \in Int
  BY <1>1, <1>2
<1>4. S # {}
  <2>1. PICK i \in D : \A j \in D : a[j] <= a[i]
    BY <1>1, <1>3, HighestExists
  <2>2. UpTo(g[i].along) = D
    BY <1>3, <2>1
  <2> QED BY <1>1, <2>2
<1>5. \A s \in SUBSET D : IsFiniteSet(s) /\ Cardinality(s) \in Nat
  BY <1>1, FS_Subset, FS_CardinalityType
<1>6. PICK i \in S : \A j \in S : a[i] <= a[j]
  <2>1. IsFiniteSet(S) /\ \A j \in S : a[j] \in Int
    BY <1>3, <1>5
  <2> HIDE DEF S
  <2> QED BY <1>4, <2>1, LowestExists
<1>7. ASSUME Cardinality(Below(g[i].along)) >= k PROVE FALSE
  <2>1. IsFiniteSet(Below(g[i].along)) /\ Below(g[i].along) \subseteq D
    BY <1>5
  <2>2. Below(g[i].along) # {}
    BY <1>7, FS_EmptySet
  <2>3. PICK j \in Below(g[i].along) : \A l \in Below(g[i].along) : a[l] <= a[j]
    <3> HIDE DEF Below
    <3> QED BY <1>3, <2>1, <2>2, HighestExists
  <2>4. UpTo(g[j].along) = Below(g[i].along)
    BY <1>3, <2>3
  <2>5. j \in S /\ a[j] < a[i]
    BY <1>3, <1>7, <2>3, <2>4
  <2> QED BY <1>3, <1>6, <2>5
<1>8. Q(g[i].along) /\ g[i].along \in X
  <2>1. Cardinality(Below(g[i].along)) \in Nat
    BY <1>5
  <2> QED BY <1>6, <1>7, <2>1
<1>9. Kth(g, k) = CHOOSE x \in X : Q(x)
  BY DEF Kth
<1>10. Kth(g, k) \in X
  <2> HIDE DEF X, Q
  <2> QED BY <1>8, <1>9, Zenon
<1> QED BY <1>10

\* Twice the median is the sum of two riders' positions.
LEMMA MedianIsOfTwo ==
    ASSUME NEW g, IsGroup(g), DOMAIN g # {}
    PROVE  \E i, j \in DOMAIN g : Median(g) = g[i].along + g[j].along
<1> PICK n : n = Cardinality(DOMAIN g)
  OBVIOUS
<1>1. n \in Nat \ {0}
  BY FS_CardinalityType, FS_EmptySet DEF IsGroup
<1>2. /\ (n + 1) \div 2 \in Nat \ {0} /\ (n + 1) \div 2 <= n
      /\ n \div 2 + 1 \in Nat \ {0} /\ n \div 2 + 1 <= n
  BY <1>1
<1>3. PICK i \in DOMAIN g : Kth(g, (n + 1) \div 2) = g[i].along
  BY <1>2, KthIsSomebodys
<1>4. PICK j \in DOMAIN g : Kth(g, n \div 2 + 1) = g[j].along
  BY <1>2, KthIsSomebodys
<1> QED BY <1>3, <1>4 DEF Median

\* An estimate is as old as its newest rider's point, and never of the future.
LEMMA NewestIsSomebodys ==
    ASSUME NEW g, IsGroup(g), DOMAIN g # {}, NEW t \in Nat
    PROVE  \E i \in DOMAIN g :
             NewestTimestamp(g, t) = IF g[i].at > t THEN t ELSE g[i].at
<1> DEFINE A == {g[i].at : i \in DOMAIN g}
           NoneAfter(x) == \A i \in DOMAIN g : g[i].at <= x
<1>1. IsFiniteSet(DOMAIN g) /\ \A i \in DOMAIN g : g[i].at \in Nat
  BY DEF IsGroup
<1>2. PICK a : a = [i \in DOMAIN g |-> g[i].at]
  OBVIOUS
<1>3. \A i \in DOMAIN g : a[i] = g[i].at /\ a[i] \in Int
  BY <1>1, <1>2
<1>4. PICK i \in DOMAIN g : \A j \in DOMAIN g : a[j] <= a[i]
  BY <1>1, <1>3, HighestExists
<1>5. g[i].at \in A /\ NoneAfter(g[i].at)
  BY <1>3, <1>4
<1>6. PICK last : last = CHOOSE x \in A : NoneAfter(x)
  OBVIOUS
<1>7. last \in A
  <2> HIDE DEF A, NoneAfter
  <2> QED BY <1>5, <1>6, Zenon
<1>8. NewestTimestamp(g, t) = IF last > t THEN t ELSE last
  BY <1>6 DEF NewestTimestamp
<1> QED BY <1>7, <1>8

\* What a ride may say.
RidesOK(rides) ==
    /\ IsFiniteSet(DOMAIN rides)
    /\ \A i \in DOMAIN rides : rides[i].along \in Nat /\ rides[i].at \in Nat

LEMMA GroupIs ==
    ASSUME NEW rides, RidesOK(rides), NEW t \in Nat
    PROVE  /\ IsGroup(Group(rides, t))
           /\ DOMAIN Group(rides, t) = {i \in DOMAIN rides : Contributes(rides[i], t)}
           /\ \A i \in DOMAIN Group(rides, t) :
                /\ Group(rides, t)[i].along = rides[i].along
                /\ Group(rides, t)[i].at = rides[i].at
                /\ Group(rides, t)[i].publishable = Publishable(rides[i], t)
<1>1. PICK D : D = {i \in DOMAIN rides : Contributes(rides[i], t)}
  OBVIOUS
<1>2. PICK g : g = [i \in D |-> [along |-> rides[i].along, at |-> rides[i].at,
                                 publishable |-> Publishable(rides[i], t)]]
  OBVIOUS
<1>3. g = Group(rides, t)
  BY <1>1, <1>2 DEF Group
<1>4. DOMAIN g = D
  BY <1>2
<1>5. \A i \in D : g[i].along = rides[i].along /\ g[i].at = rides[i].at
  BY <1>2
<1>6. \A i \in D : g[i].publishable = Publishable(rides[i], t)
  BY <1>2, Zenon
<1>7. IsFiniteSet(D) /\ D \subseteq DOMAIN rides
  BY <1>1, FS_Subset DEF RidesOK
<1>8. IsGroup(g)
  BY <1>4, <1>5, <1>7 DEF IsGroup, RidesOK
<1> HIDE DEF Group
<1> QED BY <1>1, <1>3, <1>4, <1>5, <1>6, <1>8, Zenon

\* What EstimateIsVouchedFor says of an estimate e of the riders at time t.
Vouched(rides, t, e) ==
    LET near(limit) == {i \in DOMAIN rides :
                          /\ Contributes(rides[i], t)
                          /\ Distance(2 * rides[i].along, e.place) <= 2 * limit}
    IN /\ near(OutlierDistance) # {}
       /\ \/ \E i \in near(2 * OutlierDistance) : Publishable(rides[i], t)
          \/ \E i, j \in near(2 * OutlierDistance) :
               i # j /\ Distance(rides[i].along, rides[j].along) <= ConsensusDistance
       /\ e.at <= t /\ t - e.at <= PointMaxAge

LEMMA CredibleIs ==
    ASSUME NEW g, NEW rides, NEW t, Credible(g),
           \A i \in DOMAIN g : /\ g[i].along = rides[i].along
                               /\ g[i].publishable = Publishable(rides[i], t)
    PROVE  \/ \E i \in DOMAIN g : Publishable(rides[i], t)
           \/ \E i, j \in DOMAIN g :
                i # j /\ Distance(rides[i].along, rides[j].along) <= ConsensusDistance
<1>1. CASE \E i \in DOMAIN g : g[i].publishable
  <2>1. PICK i \in DOMAIN g : g[i].publishable
    BY <1>1, Zenon
  <2>2. Publishable(rides[i], t)
    BY <2>1, Zenon
  <2> QED BY <2>2, Zenon
<1>2. CASE \E i, j \in DOMAIN g :
             i # j /\ Distance(g[i].along, g[j].along) <= ConsensusDistance
  <2>1. PICK i \in DOMAIN g, j \in DOMAIN g :
          i # j /\ Distance(g[i].along, g[j].along) <= ConsensusDistance
    BY <1>2, Zenon
  <2>2. Distance(rides[i].along, rides[j].along) <= ConsensusDistance
    BY <2>1, Zenon
  <2> QED BY <2>1, <2>2, Zenon
<1> QED BY <1>1, <1>2, Zenon DEF Credible

\* Whoever is left after the trim is within the outlier distance of the first
\* median, so within twice that of each other, and the second median is the
\* middle of two of them.
LEMMA EstimatesAreVouchedFor ==
    ASSUME NEW rides, RidesOK(rides), NEW t \in Nat,
           NEW e \in Estimate(Group(rides, t), t)
    PROVE  Vouched(rides, t, e)
<1> PICK g : g = Group(rides, t)
  OBVIOUS
<1>1. /\ IsGroup(g) /\ DOMAIN g = {i \in DOMAIN rides : Contributes(rides[i], t)}
      /\ \A i \in DOMAIN g : /\ g[i].along = rides[i].along /\ g[i].at = rides[i].at
                             /\ g[i].publishable = Publishable(rides[i], t)
  BY GroupIs, Zenon
<1> PICK m : m = Median(g)
  OBVIOUS
<1> PICK kept : kept = Within(g, m, OutlierDistance)
  OBVIOUS
<1>2. /\ Credible(g) /\ Credible(kept)
      /\ e = [place |-> Median(kept), at |-> NewestTimestamp(kept, t),
              riders |-> Cardinality(DOMAIN kept), stop |-> NextStop(Median(kept))]
  <2>1. e \in Estimate(g, t)
    OBVIOUS
  <2>2. CASE Credible(g) /\ Credible(kept)
    BY <2>1, <2>2 DEF Estimate
  <2>3. CASE ~ (Credible(g) /\ Credible(kept))
    <3>1. e \in {}
      BY <2>1, <2>3 DEF Estimate
    <3> QED BY <3>1
  <2> QED BY <2>2, <2>3
<1>3. e.place = Median(kept) /\ e.at = NewestTimestamp(kept, t)
  BY <1>2
<1>4. /\ DOMAIN kept = {i \in DOMAIN g : Distance(2 * g[i].along, m) <= 2 * OutlierDistance}
      /\ \A i \in DOMAIN kept : kept[i] = g[i]
  BY DEF Within, Restrict
<1>5. DOMAIN g # {} /\ DOMAIN kept # {}
  <2>1. DOMAIN kept # {}
    BY <1>2 DEF Credible
  <2> QED BY <1>4, <2>1
<1>6. m \in Nat
  <2>1. PICK i \in DOMAIN g, j \in DOMAIN g : Median(g) = g[i].along + g[j].along
    BY <1>1, <1>5, MedianIsOfTwo
  <2> QED BY <1>1, <2>1 DEF IsGroup
<1>7. IsGroup(kept)
  BY <1>1, <1>4, FS_Subset DEF IsGroup
<1>8. PICK x \in DOMAIN kept, y \in DOMAIN kept : Median(kept) = kept[x].along + kept[y].along
  BY <1>5, <1>7, MedianIsOfTwo
<1>9. \A i \in DOMAIN kept :
        /\ i \in DOMAIN rides /\ Contributes(rides[i], t)
        /\ rides[i].along \in Nat /\ rides[i].at \in Nat
        /\ kept[i].along = rides[i].along /\ kept[i].at = rides[i].at
        /\ kept[i].publishable = Publishable(rides[i], t)
        /\ Distance(2 * rides[i].along, m) <= 2 * OutlierDistance
  <2> TAKE i \in DOMAIN kept
  <2>1. i \in DOMAIN g /\ kept[i] = g[i]
        /\ Distance(2 * g[i].along, m) <= 2 * OutlierDistance
    BY <1>4
  <2>2. i \in DOMAIN rides /\ Contributes(rides[i], t)
    BY <1>1, <2>1
  <2>3. rides[i].along \in Nat /\ rides[i].at \in Nat
    BY <2>2 DEF RidesOK
  <2>4. g[i].along = rides[i].along /\ g[i].at = rides[i].at
    BY <1>1, <2>1
  <2>5. kept[i].publishable = Publishable(rides[i], t)
    BY <1>1, <2>1, Zenon
  <2> QED BY <2>1, <2>2, <2>3, <2>4, <2>5
<1>10. OutlierDistance \in Nat /\ PointMaxAge \in Nat
  BY EstimatesAssumption
<1>11. e.place = rides[x].along + rides[y].along
  BY <1>3, <1>8, <1>9
<1>12. Distance(2 * rides[x].along, e.place) <= 2 * OutlierDistance
  BY <1>6, <1>8, <1>9, <1>10, <1>11 DEF Distance
<1>13. ASSUME NEW i \in DOMAIN kept
       PROVE  Distance(2 * rides[i].along, e.place) <= 2 * (2 * OutlierDistance)
  BY <1>6, <1>8, <1>9, <1>10, <1>11 DEF Distance
<1>14. e.at <= t /\ t - e.at <= PointMaxAge
  <2>1. PICK i \in DOMAIN kept :
          NewestTimestamp(kept, t) = IF kept[i].at > t THEN t ELSE kept[i].at
    BY <1>5, <1>7, NewestIsSomebodys
  <2>2. Fresh(rides[i], t) /\ rides[i].at \in Nat /\ kept[i].at = rides[i].at
    BY <1>9 DEF Contributes
  <2> QED BY <1>3, <1>10, <2>1, <2>2 DEF Fresh
<1>15. \/ \E i \in DOMAIN kept : Publishable(rides[i], t)
       \/ \E i, j \in DOMAIN kept :
            i # j /\ Distance(rides[i].along, rides[j].along) <= ConsensusDistance
  <2>1. \A i \in DOMAIN kept : /\ kept[i].along = rides[i].along
                               /\ kept[i].publishable = Publishable(rides[i], t)
    BY <1>9, Zenon
  <2>2. Credible(kept)
    BY <1>2
  <2> QED BY ONLY <2>1, <2>2, CredibleIs, Zenon
<1> DEFINE Near(limit) == {i \in DOMAIN rides :
                             /\ Contributes(rides[i], t)
                             /\ Distance(2 * rides[i].along, e.place) <= 2 * limit}
<1>16. x \in Near(OutlierDistance)
  BY <1>8, <1>9, <1>12
<1>17. \A i \in DOMAIN kept : i \in Near(2 * OutlierDistance)
  BY <1>9, <1>13
<1>18. /\ Near(OutlierDistance) # {}
       /\ \/ \E i \in Near(2 * OutlierDistance) : Publishable(rides[i], t)
          \/ \E i, j \in Near(2 * OutlierDistance) :
               i # j /\ Distance(rides[i].along, rides[j].along) <= ConsensusDistance
  <2> HIDE DEF Near
  <2> QED BY <1>15, <1>16, <1>17, Zenon
<1> QED BY <1>14, <1>18, Zenon DEF Vouched

-----------------------------------------------------------------------------
(* The invariant.                                                           *)

Entry == [report : Report, updatedAt : Time]
Carried == [vehicle : Vehicle, report : Report, stored : BOOLEAN]

StateTyped ==
    /\ now \in Time
    /\ newest \in [Vehicle -> SUBSET Report]
    /\ tracker \in Tables(Entry)
    /\ upload \in [Upload -> Carried \cup {NoUpload}]
    /\ acked \in [Vehicle -> 0 .. MaxTime]

\* Something received at that time or later is stored, as long as the pruner
\* keeps it.
StoredSince(v, at) == now - at > Retention \/ \E p \in newest[v] : p.received >= at

\* An entry was noted soon after its report was received, and its report is
\* stored; so is the last report the phone was told of, which is shown too.
VehicleOK(v) ==
    /\ \A p, q \in newest[v] : p.received = q.received
    /\ v \in DOMAIN tracker =>
         LET age == tracker[v].updatedAt - tracker[v].report.received
         IN (age < MaxAge \/ age <= MaxDelay) /\ StoredSince(v, tracker[v].report.received)
    /\ acked[v] <= now
    /\ acked[v] # 0 => StoredSince(v, acked[v])
    /\ acked[v] # 0 /\ now - acked[v] < MaxAge =>
         v \in DOMAIN tracker /\ tracker[v].updatedAt >= acked[v]

UploadOK(u) ==
    upload[u] # NoUpload =>
        /\ upload[u].report.received <= now /\ now - upload[u].report.received <= MaxDelay
        /\ upload[u].stored => StoredSince(upload[u].vehicle, upload[u].report.received)

StateInv ==
    /\ StateTyped
    /\ \A v \in Vehicle : VehicleOK(v)
    /\ \A u \in Upload : UploadOK(u)

\* Half of the feed is read: what it has of a steady trip is what the tracker
\* has now.  All of it is: the two things the message promises.
HalfRead(vs) == [NoFeed EXCEPT !.pc = "half", !.vehicles = vs]

FeedInv ==
    /\ steady \subseteq Trip
    /\ feed.vehicles \in Tables(Entry)
    /\ \/ feed = NoFeed
       \/ /\ feed = HalfRead(feed.vehicles)
          /\ \A t \in steady :
               t \in DriverTrips <=>
                 \E v \in DOMAIN feed.vehicles : feed.vehicles[v].report.trip = t
       \/ feed.pc = "sent" /\ OnePositionPerTrip /\ EstimateIsVouchedFor

IInv == StateInv /\ FeedInv

-----------------------------------------------------------------------------
(* Tables of vehicles.                                                      *)

LEMMA TimesAreNumbers == /\ Time \subseteq Nat \ {0} /\ MaxTime \in Nat \ {0}
                         /\ MaxAge \in Nat \ {0} /\ MaxDelay \in Nat
                         /\ Retention \in Nat /\ Retention >= MaxAge
BY FeedAssumption DEF Time

LEMMA TableIs ==
    ASSUME NEW t
    PROVE  t \in Tables(Entry) <=> DOMAIN t \subseteq Vehicle /\ t \in [DOMAIN t -> Entry]
BY DEF Tables

LEMMA EntryIs ==
    ASSUME NEW e \in Entry
    PROVE  /\ e.report \in Report /\ e.report.received \in Nat /\ e.updatedAt \in Nat
           /\ e.report.trip \in Trip \cup {NoTrip}
BY TimesAreNumbers DEF Entry, Report

LEMMA EmptyTable == <<>> \in Tables(Entry) /\ DOMAIN <<>> = {}
<1>1. <<>> = [v \in {} |-> v]
  OBVIOUS
<1>2. DOMAIN <<>> = {} /\ <<>> \in [{} -> Entry]
  BY <1>1
<1> QED BY <1>2, TableIs

LEMMA UpdatedIs ==
    ASSUME tracker \in Tables(Entry), now \in Time, NEW v \in Vehicle, NEW r \in Report,
           tracker' = Updated(tracker, v, r, now)
    PROVE  /\ tracker' \in Tables(Entry) /\ DOMAIN tracker' = DOMAIN tracker \cup {v}
           /\ tracker'[v].report = r /\ tracker'[v].updatedAt = now
           /\ \A w \in DOMAIN tracker : w # v => tracker'[w] = tracker[w]
<1> PICK e : e = [report |-> r, updatedAt |-> now]
  OBVIOUS
<1>1. e \in Entry /\ e.report = r /\ e.updatedAt = now
  BY DEF Entry
<1>2. tracker' = [w \in DOMAIN tracker \cup {v} |-> IF w = v THEN e ELSE tracker[w]]
  BY DEF Updated
<1>3. DOMAIN tracker \subseteq Vehicle /\ tracker \in [DOMAIN tracker -> Entry]
  BY TableIs
<1>4. /\ DOMAIN tracker' = DOMAIN tracker \cup {v} /\ tracker'[v] = e
      /\ \A w \in DOMAIN tracker : w # v => tracker'[w] = tracker[w]
      /\ tracker' \in [DOMAIN tracker \cup {v} -> Entry]
  BY <1>1, <1>2, <1>3
<1>5. tracker' \in Tables(Entry)
  BY <1>3, <1>4, TableIs
<1> QED BY <1>1, <1>4, <1>5

LEMMA RestrictedIs ==
    ASSUME NEW t \in Tables(Entry), NEW S, S \subseteq DOMAIN t
    PROVE  /\ Restrict(t, S) \in Tables(Entry) /\ DOMAIN Restrict(t, S) = S
           /\ \A v \in S : Restrict(t, S)[v] = t[v]
<1> PICK n : n = Restrict(t, S)
  OBVIOUS
<1>1. n = [v \in S |-> t[v]]
  BY DEF Restrict
<1>2. DOMAIN t \subseteq Vehicle /\ t \in [DOMAIN t -> Entry]
  BY TableIs
<1>3. DOMAIN n = S /\ n \in [S -> Entry] /\ \A v \in S : n[v] = t[v]
  BY <1>1, <1>2
<1>4. n \in Tables(Entry)
  BY <1>2, <1>3, TableIs
<1> QED BY <1>3, <1>4

-----------------------------------------------------------------------------
(* Stored points.                                                           *)

LEMMA WithPointIs ==
    ASSUME NEW points \in SUBSET Report, \A p, q \in points : p.received = q.received,
           NEW r \in Report
    PROVE  /\ WithPoint(points, r) \in SUBSET Report
           /\ \A p, q \in WithPoint(points, r) : p.received = q.received
           /\ \E p \in WithPoint(points, r) : p.received >= r.received
           /\ \A q \in points : \E p \in WithPoint(points, r) : p.received >= q.received
<1>1. \A p \in Report : p.received \in Nat
  BY TimesAreNumbers DEF Report
<1>2. CASE \E q \in points : q.received > r.received
  <2>1. WithPoint(points, r) = points
    BY <1>1, <1>2 DEF WithPoint
  <2> QED BY <1>1, <1>2, <2>1
<1>3. CASE \A q \in points : q.received <= r.received
  <2>1. /\ r \in WithPoint(points, r)
        /\ \A p \in WithPoint(points, r) : p.received = r.received
    BY <1>1, <1>3 DEF WithPoint
  <2>2. WithPoint(points, r) \in SUBSET Report
    BY DEF WithPoint
  <2> QED BY <1>1, <1>3, <2>1, <2>2
<1> QED BY <1>1, <1>2, <1>3

\* Storing a point loses nothing.
LEMMA PointIsSaved ==
    ASSUME StateInv, NEW v \in Vehicle, NEW r \in Report, now' = now,
           newest' = [newest EXCEPT ![v] = WithPoint(@, r)]
    PROVE  /\ newest' \in [Vehicle -> SUBSET Report]
           /\ StoredSince(v, r.received)'
           /\ \A w \in Vehicle : \A at \in Nat : StoredSince(w, at) => StoredSince(w, at)'
           /\ \A w \in Vehicle : \A p, q \in newest'[w] : p.received = q.received
<1>1. /\ newest \in [Vehicle -> SUBSET Report] /\ now \in Nat
      /\ \A w \in Vehicle : \A p, q \in newest[w] : p.received = q.received
  BY TimesAreNumbers DEF StateInv, StateTyped, VehicleOK
<1> PICK n : n = WithPoint(newest[v], r)
  OBVIOUS
<1>2. /\ n \in SUBSET Report /\ \A p, q \in n : p.received = q.received
      /\ \E p \in n : p.received >= r.received
      /\ \A q \in newest[v] : \E p \in n : p.received >= q.received
  BY <1>1, WithPointIs
<1>3. /\ newest' \in [Vehicle -> SUBSET Report] /\ newest'[v] = n
      /\ \A w \in Vehicle : w # v => newest'[w] = newest[w]
  BY <1>1, <1>2
<1>4. \A p \in Report : p.received \in Nat
  BY TimesAreNumbers DEF Report
<1>5. StoredSince(v, r.received)'
  BY <1>2, <1>3 DEF StoredSince
<1>6. ASSUME NEW w \in Vehicle, NEW at \in Nat, StoredSince(w, at)
      PROVE  StoredSince(w, at)'
  <2>1. CASE now - at > Retention
    BY <2>1 DEF StoredSince
  <2>2. CASE \E q \in newest[w] : q.received >= at
    <3>1. PICK q \in newest[w] : q.received >= at
      BY <2>2
    <3>2. PICK p \in newest'[w] : p.received >= q.received
      <4>1. CASE w = v
        BY <1>2, <1>3, <4>1
      <4>2. CASE w # v
        BY <1>1, <1>3, <1>4, <4>2
      <4> QED BY <4>1, <4>2
    <3>3. p.received \in Nat /\ q.received \in Nat
      BY <1>1, <1>3, <1>4
    <3> QED BY <3>1, <3>2, <3>3 DEF StoredSince
  <2> QED BY <1>6, <2>1, <2>2 DEF StoredSince
<1>7. \A w \in Vehicle : \A p, q \in newest'[w] : p.received = q.received
  BY <1>1, <1>2, <1>3
<1> QED BY <1>3, <1>5, <1>6, <1>7

-----------------------------------------------------------------------------
(* Every step of the server keeps StateInv.                                 *)

LEMMA StateFacts ==
    ASSUME StateInv
    PROVE  /\ now \in Time /\ now \in Nat /\ tracker \in Tables(Entry)
           /\ newest \in [Vehicle -> SUBSET Report]
           /\ upload \in [Upload -> Carried \cup {NoUpload}]
           /\ acked \in [Vehicle -> 0 .. MaxTime] /\ \A v \in Vehicle : acked[v] \in Nat
           /\ \A v \in DOMAIN tracker : v \in Vehicle /\ tracker[v] \in Entry
           /\ \A u \in Upload : upload[u] # NoUpload =>
                /\ upload[u] \in Carried /\ upload[u].vehicle \in Vehicle
                /\ upload[u].report \in Report /\ upload[u].report.received \in Time
                /\ upload[u].report.received \in Nat
<1>1. StateTyped
  BY DEF StateInv
<1>2. \A v \in DOMAIN tracker : v \in Vehicle /\ tracker[v] \in Entry
  BY <1>1, TableIs DEF StateTyped
<1>3. \A u \in Upload : upload[u] # NoUpload =>
        /\ upload[u] \in Carried /\ upload[u].vehicle \in Vehicle
        /\ upload[u].report \in Report
  BY <1>1 DEF StateTyped, Carried
<1>4. \A r \in Report : r.received \in Time /\ r.received \in Nat
  BY TimesAreNumbers DEF Report
<1> QED BY <1>1, <1>2, <1>3, <1>4, TimesAreNumbers DEF StateTyped

\* What a step that leaves the vehicle's entry and acknowledgement alone keeps.
LEMMA VehicleStays ==
    ASSUME StateInv, NEW v \in Vehicle, now' = now, tracker' = tracker, acked' = acked,
           \A at \in Nat : StoredSince(v, at) => StoredSince(v, at)',
           \A p, q \in newest'[v] : p.received = q.received
    PROVE  VehicleOK(v)'
<1>1. VehicleOK(v) /\ acked[v] \in Nat
  BY StateFacts DEF StateInv
<1>2. v \in DOMAIN tracker => tracker[v].report.received \in Nat
  BY StateFacts, EntryIs
<1>3. v \in DOMAIN tracker => StoredSince(v, tracker[v].report.received)'
  BY <1>1, <1>2 DEF VehicleOK
<1>4. acked[v] # 0 => StoredSince(v, acked[v])'
  BY <1>1 DEF VehicleOK
<1> QED BY <1>1, <1>3, <1>4 DEF VehicleOK

\* Of the requests under way, those that did not move.
LEMMA UploadStays ==
    ASSUME StateInv, NEW u \in Upload, now' = now, upload'[u] = upload[u],
           \A v \in Vehicle : \A at \in Nat : StoredSince(v, at) => StoredSince(v, at)'
    PROVE  UploadOK(u)'
<1>1. UploadOK(u)
  BY DEF StateInv
<1> QED BY <1>1, StateFacts DEF UploadOK

LEMMA NothingStored ==
    ASSUME now' = now, newest' = newest
    PROVE  \A v, at : StoredSince(v, at) <=> StoredSince(v, at)'
BY DEF StoredSince

LEMMA ReceiveInv ==
    ASSUME StateInv, NEW u \in Upload, NEW v \in Vehicle, NEW t \in Trip \cup {NoTrip},
           Receive(u, v, t)
    PROVE  StateInv'
<1> PICK n : n = [vehicle |-> v, report |-> [trip |-> t, received |-> now], stored |-> FALSE]
  OBVIOUS
<1>1. /\ now' = now /\ newest' = newest /\ tracker' = tracker /\ acked' = acked
      /\ upload' = [upload EXCEPT ![u] = n]
  BY DEF Receive
<1>2. /\ n \in Carried /\ n.report.received = now /\ n.vehicle = v /\ n.stored = FALSE
  BY StateFacts DEF Carried, Report
<1>3. /\ upload' \in [Upload -> Carried \cup {NoUpload}] /\ upload'[u] = n
      /\ \A o \in Upload : o # u => upload'[o] = upload[o]
  BY <1>1, <1>2, StateFacts
<1>4. StateTyped'
  BY <1>1, <1>3 DEF StateInv, StateTyped
<1>5. ASSUME NEW o \in Upload PROVE UploadOK(o)'
  <2>1. CASE o = u
    BY <1>1, <1>2, <1>3, <2>1, StateFacts, TimesAreNumbers DEF UploadOK
  <2>2. CASE o # u
    BY <1>1, <1>3, <2>2, NothingStored, UploadStays
  <2> QED BY <2>1, <2>2
<1>6. ASSUME NEW w \in Vehicle PROVE VehicleOK(w)'
  <2>1. \A p, q \in newest'[w] : p.received = q.received
    BY <1>1 DEF StateInv, VehicleOK
  <2> QED BY <1>1, <2>1, NothingStored, VehicleStays
<1> QED BY <1>4, <1>5, <1>6 DEF StateInv

LEMMA SaveInv ==
    ASSUME StateInv, NEW u \in Upload, Save(u)
    PROVE  StateInv'
<1> PICK n : n = [upload[u] EXCEPT !.stored = TRUE]
  OBVIOUS
<1> PICK v, r : v = upload[u].vehicle /\ r = upload[u].report
  OBVIOUS
<1>1. /\ now' = now /\ tracker' = tracker /\ acked' = acked /\ upload[u] # NoUpload
      /\ upload' = [upload EXCEPT ![u] = n]
      /\ newest' = [newest EXCEPT ![v] = WithPoint(@, r)]
  BY DEF Save
<1>2. /\ n \in Carried /\ n.report = r /\ n.vehicle = v
      /\ v \in Vehicle /\ r \in Report /\ r.received \in Nat
      /\ r.received <= now /\ now - r.received <= MaxDelay
  <2>1. upload[u] \in Carried
    BY <1>1, StateFacts
  <2>2. UploadOK(u)
    BY DEF StateInv
  <2> QED BY <1>1, <2>1, <2>2, StateFacts DEF Carried, UploadOK
<1>3. /\ upload' \in [Upload -> Carried \cup {NoUpload}] /\ upload'[u] = n
      /\ \A o \in Upload : o # u => upload'[o] = upload[o]
  BY <1>1, <1>2, StateFacts
<1>4. /\ newest' \in [Vehicle -> SUBSET Report] /\ StoredSince(v, r.received)'
      /\ \A w \in Vehicle : \A at \in Nat : StoredSince(w, at) => StoredSince(w, at)'
      /\ \A w \in Vehicle : \A p, q \in newest'[w] : p.received = q.received
  BY <1>1, <1>2, PointIsSaved
<1>5. StateTyped'
  BY <1>1, <1>3, <1>4 DEF StateInv, StateTyped
<1>6. ASSUME NEW o \in Upload PROVE UploadOK(o)'
  <2>1. CASE o = u
    BY <1>1, <1>2, <1>3, <1>4, <2>1 DEF UploadOK
  <2>2. CASE o # u
    BY <1>1, <1>3, <1>4, <2>2, UploadStays
  <2> QED BY <2>1, <2>2
<1>7. ASSUME NEW w \in Vehicle PROVE VehicleOK(w)'
  BY <1>1, <1>4, VehicleStays
<1> QED BY <1>5, <1>6, <1>7 DEF StateInv

LEMMA SaveFailsInv ==
    ASSUME StateInv, NEW u \in Upload, SaveFails(u)
    PROVE  StateInv'
<1> PICK v, r : v = upload[u].vehicle /\ r = upload[u].report
  OBVIOUS
<1>1. /\ now' = now /\ tracker' = tracker /\ acked' = acked /\ upload[u] # NoUpload
      /\ upload' = [upload EXCEPT ![u] = NoUpload]
      /\ newest' = newest \/ newest' = [newest EXCEPT ![v] = WithPoint(@, r)]
  BY DEF SaveFails
<1>2. v \in Vehicle /\ r \in Report
  BY <1>1, StateFacts
<1>3. /\ upload' \in [Upload -> Carried \cup {NoUpload}] /\ upload'[u] = NoUpload
      /\ \A o \in Upload : o # u => upload'[o] = upload[o]
  BY <1>1, StateFacts
<1>4. /\ newest' \in [Vehicle -> SUBSET Report]
      /\ \A w \in Vehicle : \A at \in Nat : StoredSince(w, at) => StoredSince(w, at)'
      /\ \A w \in Vehicle : \A p, q \in newest'[w] : p.received = q.received
  <2>1. CASE newest' = newest
    <3>1. \A w \in Vehicle : VehicleOK(w)
      BY DEF StateInv
    <3> QED BY <1>1, <2>1, <3>1, StateFacts, NothingStored DEF VehicleOK
  <2>2. CASE newest' = [newest EXCEPT ![v] = WithPoint(@, r)]
    BY <1>1, <1>2, <2>2, PointIsSaved
  <2> QED BY <1>1, <2>1, <2>2
<1>5. StateTyped'
  BY <1>1, <1>3, <1>4 DEF StateInv, StateTyped
<1>6. ASSUME NEW o \in Upload PROVE UploadOK(o)'
  <2>1. CASE o = u
    BY <1>3, <2>1 DEF UploadOK
  <2>2. CASE o # u
    BY <1>1, <1>3, <1>4, <2>2, UploadStays
  <2> QED BY <2>1, <2>2
<1>7. ASSUME NEW w \in Vehicle PROVE VehicleOK(w)'
  BY <1>1, <1>4, VehicleStays
<1> QED BY <1>5, <1>6, <1>7 DEF StateInv

LEMMA AcknowledgeInv ==
    ASSUME StateInv, NEW u \in Upload, Acknowledge(u)
    PROVE  StateInv'
<1> PICK v, r : v = upload[u].vehicle /\ r = upload[u].report
  OBVIOUS
<1> PICK at : at = IF r.received > acked[v] THEN r.received ELSE acked[v]
  OBVIOUS
<1>1. /\ now' = now /\ newest' = newest /\ upload[u] # NoUpload /\ upload[u].stored
      /\ upload' = [upload EXCEPT ![u] = NoUpload]
      /\ tracker' = Updated(tracker, v, r, now) /\ acked' = [acked EXCEPT ![v] = at]
  BY DEF Acknowledge
<1>2. /\ v \in Vehicle /\ r \in Report /\ r.received \in Nat /\ r.received \in Time
      /\ r.received <= now /\ now - r.received <= MaxDelay
      /\ StoredSince(v, r.received) /\ VehicleOK(v)
  <2>1. UploadOK(u)
    BY DEF StateInv
  <2> QED BY <1>1, <2>1, StateFacts DEF UploadOK, StateInv
<1>3. /\ upload' \in [Upload -> Carried \cup {NoUpload}] /\ upload'[u] = NoUpload
      /\ \A o \in Upload : o # u => upload'[o] = upload[o]
  BY <1>1, StateFacts
<1>4. /\ tracker' \in Tables(Entry) /\ DOMAIN tracker' = DOMAIN tracker \cup {v}
      /\ tracker'[v].report = r /\ tracker'[v].updatedAt = now
      /\ \A w \in DOMAIN tracker : w # v => tracker'[w] = tracker[w]
  <2>1. now \in Time /\ tracker \in Tables(Entry) /\ v \in Vehicle /\ r \in Report
    BY <1>2, StateFacts
  <2>2. tracker' = Updated(tracker, v, r, now)
    BY <1>1
  <2> QED BY ONLY <2>1, <2>2, UpdatedIs
<1>5. /\ at \in 0 .. MaxTime /\ at <= now /\ at # 0 /\ StoredSince(v, at)
  BY <1>2, StateFacts, TimesAreNumbers DEF VehicleOK, Time
<1>6. /\ acked' \in [Vehicle -> 0 .. MaxTime] /\ acked'[v] = at
      /\ \A w \in Vehicle : w # v => acked'[w] = acked[w]
  BY <1>1, <1>2, <1>5, StateFacts
<1>7. StateTyped'
  BY <1>1, <1>3, <1>4, <1>6 DEF StateInv, StateTyped
<1>8. ASSUME NEW o \in Upload PROVE UploadOK(o)'
  <2>1. CASE o = u
    BY <1>3, <2>1 DEF UploadOK
  <2>2. CASE o # u
    BY <1>1, <1>3, <2>2, NothingStored, UploadStays
  <2> QED BY <2>1, <2>2
<1>9. \A w, t : StoredSince(w, t) => StoredSince(w, t)'
  BY <1>1, NothingStored
<1>10. ASSUME NEW w \in Vehicle PROVE VehicleOK(w)'
  <2>1. VehicleOK(w)
    BY DEF StateInv
  <2>2. CASE w = v
    <3>1. \A p, q \in newest'[v] : p.received = q.received
      BY <1>1, <1>2 DEF VehicleOK
    <3> QED BY <1>1, <1>2, <1>4, <1>5, <1>6, <1>9, <2>2, <3>1 DEF VehicleOK
  <2>3. CASE w # v
    BY <1>1, <1>4, <1>6, <1>9, <2>1, <2>3 DEF VehicleOK
  <2> QED BY <2>2, <2>3
<1> QED BY <1>7, <1>8, <1>10 DEF StateInv

LEMMA CleanUpInv ==
    ASSUME StateInv, CleanUp
    PROVE  StateInv'
<1> PICK S : S = {v \in DOMAIN tracker : now - tracker[v].updatedAt <= MaxAge}
  OBVIOUS
<1>1. /\ now' = now /\ newest' = newest /\ upload' = upload /\ acked' = acked
      /\ tracker' = Restrict(tracker, S)
  BY DEF CleanUp
<1>2. /\ tracker' \in Tables(Entry) /\ DOMAIN tracker' = S
      /\ \A v \in S : v \in DOMAIN tracker /\ tracker'[v] = tracker[v]
  BY <1>1, StateFacts, RestrictedIs
<1>3. StateTyped'
  BY <1>1, <1>2 DEF StateInv, StateTyped
<1>4. ASSUME NEW u \in Upload PROVE UploadOK(u)'
  BY <1>1, NothingStored, UploadStays
<1>5. \A w, t : StoredSince(w, t) => StoredSince(w, t)'
  BY <1>1, NothingStored
<1>6. ASSUME NEW v \in Vehicle PROVE VehicleOK(v)'
  <2>1. VehicleOK(v) /\ acked[v] \in Nat
    BY StateFacts DEF StateInv
  <2>2. v \in DOMAIN tracker => tracker[v].updatedAt \in Nat
    BY StateFacts, EntryIs
  <2>3. acked[v] # 0 /\ now - acked[v] < MaxAge => v \in S
    BY <2>1, <2>2, StateFacts, TimesAreNumbers DEF VehicleOK
  <2> QED BY <1>1, <1>2, <1>5, <2>1, <2>3 DEF VehicleOK
<1> QED BY <1>3, <1>4, <1>6 DEF StateInv

\* The pruner takes no point that is young enough to matter.
LEMMA PruneInv ==
    ASSUME StateInv, Prune
    PROVE  StateInv'
<1>1. /\ now' = now /\ tracker' = tracker /\ upload' = upload /\ acked' = acked
  BY DEF Prune
<1>2. PICK v \in Vehicle :
        \E gone \in SUBSET {p \in newest[v] : now - p.received > Retention} :
          newest' = [newest EXCEPT ![v] = @ \ gone]
  BY DEF Prune
<1> PICK gone \in SUBSET {p \in newest[v] : now - p.received > Retention} :
      newest' = [newest EXCEPT ![v] = @ \ gone]
  BY <1>2
<1>3. /\ newest' \in [Vehicle -> SUBSET Report]
      /\ newest'[v] = newest[v] \ gone /\ \A w \in Vehicle : w # v => newest'[w] = newest[w]
  BY <1>2, StateFacts
<1>4. \A p \in Report : p.received \in Nat
  BY TimesAreNumbers DEF Report
<1>5. ASSUME NEW w \in Vehicle, NEW at \in Nat, StoredSince(w, at)
      PROVE  StoredSince(w, at)'
  <2>1. CASE now - at > Retention
    BY <1>1, <2>1 DEF StoredSince
  <2>2. CASE ~ (now - at > Retention)
    <3>1. PICK p \in newest[w] : p.received >= at
      BY <1>5, <2>2 DEF StoredSince
    <3>2. p.received \in Nat /\ now \in Nat /\ Retention \in Nat
      BY <1>4, <3>1, StateFacts, TimesAreNumbers
    <3>3. p \in newest'[w]
      BY <1>2, <1>3, <2>2, <3>1, <3>2
    <3> QED BY <3>1, <3>3 DEF StoredSince
  <2> QED BY <2>1, <2>2
<1>6. ASSUME NEW w \in Vehicle PROVE \A p, q \in newest'[w] : p.received = q.received
  <2>1. \A p, q \in newest[w] : p.received = q.received
    BY DEF StateInv, VehicleOK
  <2> QED BY <1>3, <2>1
<1>7. StateTyped'
  BY <1>1, <1>3 DEF StateInv, StateTyped
<1>8. ASSUME NEW u \in Upload PROVE UploadOK(u)'
  BY <1>1, <1>5, UploadStays
<1>9. ASSUME NEW w \in Vehicle PROVE VehicleOK(w)'
  BY <1>1, <1>5, <1>6, VehicleStays
<1> QED BY <1>7, <1>8, <1>9 DEF StateInv

\* The seeded tracker has every vehicle whose last acknowledged report is
\* recent, since that report or a newer one is stored.
LEMMA RestartInv ==
    ASSUME StateInv, Restart
    PROVE  StateInv'
<1> PICK S : S = {v \in Vehicle : Recent(v) # {}}
  OBVIOUS
<1>1. /\ now' = now /\ newest' = newest /\ acked' = acked
      /\ upload' = [u \in Upload |-> NoUpload]
  BY DEF Restart
<1>2. PICK pick \in [S -> UNION {newest[v] : v \in Vehicle}] :
        /\ \A v \in DOMAIN pick : pick[v] \in Recent(v)
        /\ tracker' = [v \in DOMAIN pick |-> [report |-> pick[v], updatedAt |-> now]]
  BY DEF Restart
<1>3. \A r \in Report : r.received \in Nat
  BY TimesAreNumbers DEF Report
<1>4. ASSUME NEW v \in S
      PROVE  /\ v \in Vehicle /\ pick[v] \in newest[v] /\ pick[v] \in Report
             /\ now - pick[v].received < MaxAge
  BY <1>2, StateFacts DEF Recent
<1>5. /\ DOMAIN tracker' = S
      /\ \A v \in S : tracker'[v] = [report |-> pick[v], updatedAt |-> now]
      /\ tracker' \in [S -> Entry]
  BY <1>2, <1>4, StateFacts DEF Entry
<1>6. /\ tracker' \in Tables(Entry)
      /\ \A v \in S : tracker'[v].report = pick[v] /\ tracker'[v].updatedAt = now
  <2>1. DOMAIN tracker' \subseteq Vehicle /\ tracker' \in [DOMAIN tracker' -> Entry]
    BY <1>4, <1>5
  <2>2. tracker' \in Tables(Entry)
    BY <2>1, TableIs
  <2>3. \A v \in S : tracker'[v].report = pick[v] /\ tracker'[v].updatedAt = now
    BY ONLY <1>5
  <2> QED BY <2>2, <2>3
<1>7. StateTyped'
  BY <1>1, <1>6 DEF StateInv, StateTyped
<1>8. \A u \in Upload : UploadOK(u)'
  BY <1>1 DEF UploadOK
<1>9. \A w, t : StoredSince(w, t) => StoredSince(w, t)'
  BY <1>1, NothingStored
<1>10. ASSUME NEW v \in Vehicle PROVE VehicleOK(v)'
  <2>1. VehicleOK(v) /\ acked[v] \in Nat /\ now \in Nat
    BY StateFacts DEF StateInv
  <2>2. ASSUME v \in S PROVE StoredSince(v, pick[v].received)'
    BY <1>1, <1>3, <1>4, <2>2 DEF StoredSince
  <2>3. acked[v] # 0 /\ now - acked[v] < MaxAge => v \in S
    <3>1. HAVE acked[v] # 0 /\ now - acked[v] < MaxAge
    <3>2. PICK p \in newest[v] : p.received >= acked[v]
      BY <2>1, <3>1, TimesAreNumbers DEF VehicleOK, StoredSince
    <3>3. p.received \in Nat
      BY <1>3, StateFacts
    <3>4. p \in Recent(v)
      BY <2>1, <3>1, <3>2, <3>3, TimesAreNumbers DEF Recent
    <3> QED BY <3>4
  <2> QED BY <1>1, <1>4, <1>5, <1>6, <1>9, <2>1, <2>2, <2>3 DEF VehicleOK
<1> QED BY <1>7, <1>8, <1>10 DEF StateInv

LEMMA RestartUnseededInv ==
    ASSUME StateInv, RestartUnseeded
    PROVE  StateInv'
<1>1. /\ now' = now /\ newest' = newest /\ tracker' = <<>>
      /\ upload' = [u \in Upload |-> NoUpload] /\ acked' = [v \in Vehicle |-> 0]
  BY DEF RestartUnseeded
<1>2. DOMAIN tracker' = {} /\ tracker' \in Tables(Entry)
  BY <1>1, EmptyTable
<1>3. StateTyped'
  BY <1>1, <1>2, TimesAreNumbers DEF StateInv, StateTyped
<1>4. \A u \in Upload : UploadOK(u)'
  BY <1>1 DEF UploadOK
<1>5. ASSUME NEW v \in Vehicle PROVE VehicleOK(v)'
  <2>1. VehicleOK(v)
    BY DEF StateInv
  <2> QED BY <1>1, <1>2, <2>1, StateFacts DEF VehicleOK
<1> QED BY <1>3, <1>4, <1>5 DEF StateInv

LEMMA TickInv ==
    ASSUME StateInv, Tick
    PROVE  StateInv'
<1>1. /\ now' = now + 1 /\ newest' = newest /\ tracker' = tracker /\ upload' = upload
      /\ acked' = acked /\ now < MaxTime
      /\ \A u \in Upload : upload[u] # NoUpload => now - upload[u].report.received < MaxDelay
  BY DEF Tick
<1>2. now \in Nat /\ now' \in Time
  BY <1>1, StateFacts, TimesAreNumbers DEF Time
<1>3. StateTyped'
  BY <1>1, <1>2 DEF StateInv, StateTyped
<1>4. ASSUME NEW v, NEW at \in Nat, StoredSince(v, at) PROVE StoredSince(v, at)'
  BY <1>1, <1>2, <1>4, TimesAreNumbers DEF StoredSince
<1>5. ASSUME NEW u \in Upload PROVE UploadOK(u)'
  <2>1. UploadOK(u)
    BY DEF StateInv
  <2>2. CASE upload[u] # NoUpload
    <3>1. upload[u].report.received \in Nat
      BY <2>2, StateFacts
    <3> QED BY <1>1, <1>2, <1>4, <2>1, <3>1, TimesAreNumbers DEF UploadOK
  <2>3. CASE upload[u] = NoUpload
    BY <1>1, <2>3 DEF UploadOK
  <2> QED BY <2>2, <2>3
<1>6. ASSUME NEW v \in Vehicle PROVE VehicleOK(v)'
  <2>1. VehicleOK(v) /\ acked[v] \in Nat
    BY StateFacts DEF StateInv
  <2>2. v \in DOMAIN tracker => tracker[v].report.received \in Nat
    BY StateFacts, EntryIs
  <2> QED BY <1>1, <1>2, <1>4, <2>1, <2>2, TimesAreNumbers DEF VehicleOK
<1> QED BY <1>3, <1>5, <1>6 DEF StateInv

-----------------------------------------------------------------------------
(* Every step keeps FeedInv.                                                *)

LEMMA FeedShapes ==
    /\ NoFeed.pc = "idle" /\ NoFeed.vehicles = <<>> /\ NoFeed.external = FALSE
    /\ NoFeed.rides = <<>> /\ NoFeed.estimate = {}
    /\ \A vs : /\ HalfRead(vs).pc = "half" /\ HalfRead(vs).vehicles = vs
               /\ HalfRead(vs).external = FALSE /\ HalfRead(vs).rides = <<>>
               /\ HalfRead(vs).estimate = {}
BY DEF NoFeed, HalfRead

LEMMA WatchIs ==
    ASSUME Watch, steady \subseteq Trip
    PROVE  /\ steady' \subseteq Trip
           /\ feed.pc = "half" => \A t \in steady' :
                t \in steady /\ (t \in DriverTrips <=> t \in DriverTrips')
BY DEF Watch

\* The feed is begun anew.
LEMMA FeedStarts ==
    ASSUME FeedInv, Watch, feed' = NoFeed
    PROVE  FeedInv'
<1>1. steady' \subseteq Trip
  BY WatchIs DEF FeedInv
<1>2. feed'.vehicles \in Tables(Entry)
  BY FeedShapes, EmptyTable
<1> QED BY <1>1, <1>2 DEF FeedInv, NoFeed

\* Something happens to the server while the feed is half read: the trips that
\* a driver came onto or left are no longer steady.
LEMMA FeedStays ==
    ASSUME FeedInv, Watch, feed' = feed, feed.pc # "sent"
    PROVE  FeedInv'
<1>1. steady' \subseteq Trip
  BY WatchIs DEF FeedInv
<1>2. CASE feed = NoFeed
  BY <1>2, FeedStarts
<1>3. CASE feed # NoFeed
  <2>1. /\ feed = HalfRead(feed.vehicles)
        /\ \A t \in steady :
             t \in DriverTrips <=>
               \E v \in DOMAIN feed.vehicles : feed.vehicles[v].report.trip = t
        /\ feed.vehicles \in Tables(Entry) /\ steady \subseteq Trip
    BY <1>3 DEF FeedInv
  <2>2. feed.pc = "half"
    BY <2>1, FeedShapes
  <2>3. \A t \in steady' :
          t \in DriverTrips' <=>
            \E v \in DOMAIN feed'.vehicles : feed'.vehicles[v].report.trip = t
    BY <2>1, <2>2, WatchIs
  <2>4. feed' = HalfRead(feed'.vehicles)
    BY <2>1
  <2> QED BY <1>1, <2>1, <2>3, <2>4 DEF FeedInv
<1> QED BY <1>2, <1>3

LEMMA ReadVehiclesInv ==
    ASSUME StateInv, FeedInv, Watch, ReadVehicles
    PROVE  FeedInv'
<1> PICK vs : vs = ActiveVehicles
  OBVIOUS
<1>1. /\ now' = now /\ tracker' = tracker
      /\ feed' = HalfRead(vs)
  BY DEF ReadVehicles, HalfRead
<1>2. /\ vs \in Tables(Entry)
      /\ DOMAIN vs = {v \in DOMAIN tracker : Active(v)}
      /\ \A v \in DOMAIN vs : vs[v] = tracker[v]
  <2> PICK S : S = {v \in DOMAIN tracker : Active(v)}
    OBVIOUS
  <2>1. vs = Restrict(tracker, S)
    BY DEF ActiveVehicles
  <2> QED BY <2>1, StateFacts, RestrictedIs
<1>3. feed'.vehicles = vs
  BY <1>1, FeedShapes
<1>4. DriverTrips' = DriverTrips
  BY <1>1 DEF DriverTrips, OnTrip, ActiveVehicles, Active
<1>5. \A t \in Trip : t \in DriverTrips <=> \E v \in DOMAIN vs : vs[v].report.trip = t
  BY <1>2 DEF DriverTrips, OnTrip
<1>6. steady' \subseteq Trip
  BY WatchIs DEF FeedInv
<1>7. \A t \in steady' :
        t \in DriverTrips' <=>
          \E v \in DOMAIN feed'.vehicles : feed'.vehicles[v].report.trip = t
  BY <1>3, <1>4, <1>5, <1>6
<1>8. feed' = HalfRead(feed'.vehicles)
  BY <1>1, <1>3
<1> QED BY <1>2, <1>3, <1>6, <1>7, <1>8 DEF FeedInv

\* The message is built: whether the trip is left to the driver is decided by
\* the tracker of now, which for a steady trip says what the first read said.
LEMMA ReadEstimatesInv ==
    ASSUME StateInv, FeedInv, Watch, ReadEstimates
    PROVE  FeedInv'
<1>1. now' = now /\ tracker' = tracker /\ feed.pc = "half" /\ now \in Nat
  BY StateFacts DEF ReadEstimates
<1>2. PICK t \in Trip, external \in BOOLEAN, rides \in Registries :
        feed' = IF Covered(t, external)
                THEN [feed EXCEPT !.pc = "sent", !.trip = t, !.external = external]
                ELSE [feed EXCEPT !.pc = "sent", !.trip = t, !.rides = rides,
                                  !.estimate = Estimate(Group(rides, now), now)]
  BY DEF ReadEstimates
<1> PICK vs : vs = feed.vehicles
  OBVIOUS
<1>3. /\ feed = HalfRead(vs)
      /\ vs \in Tables(Entry) /\ steady \subseteq Trip
      /\ \A s \in steady : s \in DriverTrips <=> \E v \in DOMAIN vs : vs[v].report.trip = s
  BY <1>1, FeedShapes DEF FeedInv
<1>4. steady' \subseteq Trip /\ steady' \subseteq steady
  BY <1>1, <1>3, WatchIs
<1>5. t \in steady' => (OnTrip(t) # {} <=> \E v \in DOMAIN vs : vs[v].report.trip = t)
  BY <1>3, <1>4 DEF DriverTrips
<1>6. CASE Covered(t, external)
  <2>1. /\ feed'.pc = "sent" /\ feed'.trip = t /\ feed'.external = external
        /\ feed'.vehicles = vs /\ feed'.rides = <<>> /\ feed'.estimate = {}
    BY <1>2, <1>3, <1>6 DEF NoFeed, HalfRead
  <2>2. external \/ OnTrip(t) # {}
    BY <1>6 DEF Covered
  <2>3. OnePositionPerTrip'
    BY <1>5, <2>1, <2>2 DEF OnePositionPerTrip
  <2>4. EstimateIsVouchedFor'
    BY <2>1 DEF EstimateIsVouchedFor
  <2> QED BY <1>3, <1>4, <2>1, <2>3, <2>4 DEF FeedInv
<1>7. CASE ~ Covered(t, external)
  <2> PICK es : es = Estimate(Group(rides, now), now)
    OBVIOUS
  <2>1. /\ feed'.pc = "sent" /\ feed'.trip = t /\ feed'.external = FALSE
        /\ feed'.vehicles = vs /\ feed'.rides = rides /\ feed'.estimate = es
    BY <1>2, <1>3, <1>7 DEF NoFeed, HalfRead
  <2>2. OnTrip(t) = {}
    BY <1>7 DEF Covered
  <2>3. OnePositionPerTrip'
    BY <1>1, <1>5, <2>1, <2>2 DEF OnePositionPerTrip
  <2>4. RidesOK(rides)
    BY FeedAssumption DEF RidesOK
  <2>5. \A e \in es : Vouched(rides, now, e)
    BY <1>1, <2>4, EstimatesAreVouchedFor
  <2>6. EstimateIsVouchedFor'
    BY <1>1, <2>1, <2>5 DEF EstimateIsVouchedFor, Vouched
  <2> QED BY <1>3, <1>4, <2>1, <2>3, <2>6 DEF FeedInv
<1> QED BY <1>6, <1>7

-----------------------------------------------------------------------------
(* Theorems.                                                                *)

LEMMA InitInv ==
    ASSUME Init PROVE IInv
<1>1. StateTyped
  BY EmptyTable, TimesAreNumbers DEF Init, StateTyped, Time
<1>2. \A v \in Vehicle : VehicleOK(v)
  BY EmptyTable DEF Init, VehicleOK
<1>3. \A u \in Upload : UploadOK(u)
  BY DEF Init, UploadOK
<1>4. FeedInv
  BY EmptyTable, FeedShapes DEF Init, FeedInv
<1> QED BY <1>1, <1>2, <1>3, <1>4 DEF IInv, StateInv

LEMMA StateUnchanged ==
    ASSUME StateInv, UNCHANGED <<now, newest, tracker, upload, acked>>
    PROVE  StateInv'
BY DEF StateInv, StateTyped, VehicleOK, UploadOK, StoredSince

LEMMA NextInv ==
    ASSUME IInv, [Next]_vars PROVE IInv'
<1> USE DEF IInv
<1>1. CASE UNCHANGED vars
  <2>1. StateInv'
    BY <1>1, StateUnchanged DEF vars
  <2>2. FeedInv'
    BY <1>1 DEF vars, FeedInv, DriverTrips, OnTrip, ActiveVehicles, Active,
                OnePositionPerTrip, EstimateIsVouchedFor
  <2> QED BY <2>1, <2>2
<1>2. CASE feed.pc = "sent" /\ Reply /\ Watch
  <2>1. StateInv'
    BY <1>2, StateUnchanged DEF Reply
  <2>2. FeedInv'
    BY <1>2, FeedStarts DEF Reply
  <2> QED BY <2>1, <2>2
<1>3. CASE feed.pc # "sent" /\ Step /\ Watch
  <2>1. ASSUME NEW u \in Upload, NEW v \in Vehicle, NEW t \in Trip \cup {NoTrip},
               Receive(u, v, t)
        PROVE  IInv'
    BY <1>3, <2>1, ReceiveInv, FeedStays DEF Receive
  <2>2. ASSUME NEW u \in Upload, Save(u) PROVE IInv'
    BY <1>3, <2>2, SaveInv, FeedStays DEF Save
  <2>3. ASSUME NEW u \in Upload, SaveFails(u) PROVE IInv'
    BY <1>3, <2>3, SaveFailsInv, FeedStays DEF SaveFails
  <2>4. ASSUME NEW u \in Upload, Acknowledge(u) PROVE IInv'
    BY <1>3, <2>4, AcknowledgeInv, FeedStays DEF Acknowledge
  <2>5. CASE ReadVehicles
    BY <1>3, <2>5, StateUnchanged, ReadVehiclesInv DEF ReadVehicles
  <2>6. CASE ReadEstimates
    BY <1>3, <2>6, StateUnchanged, ReadEstimatesInv DEF ReadEstimates
  <2>7. CASE CleanUp
    BY <1>3, <2>7, CleanUpInv, FeedStays DEF CleanUp
  <2>8. CASE Prune
    BY <1>3, <2>8, PruneInv, FeedStays DEF Prune
  <2>9. CASE Restart
    BY <1>3, <2>9, RestartInv, FeedStarts DEF Restart
  <2>10. CASE RestartUnseeded
    BY <1>3, <2>10, RestartUnseededInv, FeedStarts DEF RestartUnseeded
  <2>11. CASE Tick
    BY <1>3, <2>11, TickInv, FeedStays DEF Tick
  <2> QED BY <1>3, <2>1, <2>2, <2>3, <2>4, <2>5, <2>6, <2>7, <2>8, <2>9, <2>10, <2>11
          DEF Step
<1> QED BY <1>1, <1>2, <1>3 DEF Next

\* The inductive invariant: entries are noted soon after their report was
\* received, what is shown or acknowledged is stored, and what the feed has read
\* of a steady trip is what the tracker says of it.
THEOREM FeedInvariant == Spec => []IInv
<1> QED BY InitInv, NextInv, PTL DEF Spec

\* The clock, the stored points, the tracker, the requests and the feed keep
\* their types.
THEOREM FeedTypeCorrect == Spec => []TypeOK
<1>1. IInv => TypeOK
  <2> SUFFICES ASSUME IInv PROVE TypeOK
    OBVIOUS
  <2>1. feed.pc \in {"idle", "half", "sent"}
    BY FeedShapes DEF IInv, FeedInv
  <2> QED BY <2>1 DEF IInv, StateInv, StateTyped, FeedInv, TypeOK, Entry, Carried
<1> QED BY <1>1, FeedInvariant, PTL

\* A driver whose report was acknowledged lately is on the map, across restarts,
\* late commits, the clean-up and the pruner (main.go, tracker.go).
THEOREM AcknowledgedIsShown == Spec => []RecentReportIsTracked
<1>1. IInv => RecentReportIsTracked
  <2> SUFFICES ASSUME IInv, NEW v \in Vehicle, acked[v] # 0 /\ now - acked[v] < MaxAge
               PROVE  v \in DOMAIN tracker /\ Active(v)
    BY DEF RecentReportIsTracked
  <2>1. VehicleOK(v) /\ StateInv
    BY DEF IInv, StateInv
  <2>2. v \in DOMAIN tracker /\ tracker[v].updatedAt >= acked[v]
    BY <2>1 DEF VehicleOK
  <2>3. tracker[v].updatedAt \in Nat /\ acked[v] \in Nat /\ now \in Nat
    BY <2>1, <2>2, StateFacts, EntryIs
  <2> QED BY <2>2, <2>3, TimesAreNumbers DEF Active
<1> QED BY <1>1, FeedInvariant, PTL

\* No report stays on the map for two windows, however often the server is
\* restarted and seeds the tracker with it.
THEOREM OldReportsLeave == Spec => []NothingOlderThanTwoWindows
<1>1. IInv => NothingOlderThanTwoWindows
  <2> SUFFICES ASSUME IInv, NEW v \in DOMAIN ActiveVehicles
               PROVE  LET age == now - tracker[v].report.received
                      IN age < 2 * MaxAge \/ age < MaxAge + MaxDelay
    BY DEF NothingOlderThanTwoWindows
  <2>1. StateInv
    BY DEF IInv
  <2>2. v \in DOMAIN tracker /\ now - tracker[v].updatedAt < MaxAge
    BY DEF ActiveVehicles, Restrict, Active
  <2>3. /\ tracker[v].updatedAt \in Nat /\ tracker[v].report.received \in Nat /\ now \in Nat
        /\ VehicleOK(v)
    BY <2>1, <2>2, StateFacts, EntryIs DEF StateInv
  <2>4. LET age == tracker[v].updatedAt - tracker[v].report.received
        IN age < MaxAge \/ age <= MaxDelay
    BY <2>2, <2>3 DEF VehicleOK
  <2> QED BY <2>2, <2>3, <2>4, TimesAreNumbers
<1> QED BY <1>1, FeedInvariant, PTL

\* What is shown of a vehicle is in the database, itself or something newer.
THEOREM MapIsStored == Spec => []ShownIsStored
<1>1. IInv => ShownIsStored
  <2> SUFFICES ASSUME IInv, NEW v \in DOMAIN ActiveVehicles
               PROVE  LET r == tracker[v].report
                      IN now - r.received > Retention \/ \E p \in newest[v] : p.received >= r.received
    BY DEF ShownIsStored
  <2>1. v \in DOMAIN tracker
    BY DEF ActiveVehicles, Restrict
  <2>2. VehicleOK(v)
    BY <2>1, StateFacts DEF IInv, StateInv
  <2> QED BY <2>1, <2>2 DEF VehicleOK, StoredSince
<1> QED BY <1>1, FeedInvariant, PTL

\* A trip no driver comes onto or leaves while the feed is built has the driver's
\* position or the riders' estimate, and one of them if there is any.
THEOREM TripHasOnePosition == Spec => []OnePositionPerTrip
<1>1. IInv => OnePositionPerTrip
  <2> SUFFICES ASSUME IInv, feed.pc = "sent" PROVE OnePositionPerTrip
    BY DEF OnePositionPerTrip
  <2> QED BY FeedShapes DEF IInv, FeedInv
<1> QED BY <1>1, FeedInvariant, PTL

\* An estimate is where riders are, who are credible without those the trim
\* dropped: for groups of any size and places at any distance.
THEOREM EstimatesAreWhereRidersAre == Spec => []EstimateIsVouchedFor
<1>1. IInv => EstimateIsVouchedFor
  <2> SUFFICES ASSUME IInv, feed.pc = "sent" PROVE EstimateIsVouchedFor
    BY DEF EstimateIsVouchedFor
  <2> QED BY FeedShapes DEF IInv, FeedInv
<1> QED BY <1>1, FeedInvariant, PTL

-----------------------------------------------------------------------------

(* Where the timetable comes from.                                          *)

\* A source serves its own zips; a load has in hand one of the source the server
\* was started on, and once it is indexed, one that indexes.
LoadInv ==
    /\ \A s \in Source : published[s] # Down => published[s] \in Body /\ Origin[published[s]] = s
    /\ load.pc # "idle" =>
         server \in {"starting", "up"} /\ load.body \in Body /\ Origin[load.body] = source
    /\ load.pc \in {"indexed", "saved"} => load.body \in Good

GtfsInv == GtfsTypeOK /\ LoadInv /\ CopyIsSound

(* The trusted feeds.                                                       *)

TrustedTypeOK ==
    /\ clock \in 1 .. TrustedMaxTime
    /\ version \in [Feeds -> Nat \ {0}]
    /\ \A i \in Feeds : version[i] <= Len(Contents[i])
    /\ state \in [Feeds -> [etag : Nat, vehicles : TripTable]]
    /\ poll \in [Feeds -> Polling]

\* A table goes with the validator it was sent with, in flight as well as kept.
TagsOK ==
    \A i \in Feeds :
        /\ state[i].etag # NoTag => state[i].vehicles = Contents[i][state[i].etag]
        /\ poll[i].pc = "answered" /\ poll[i].etag # NoTag =>
              poll[i].vehicles = Contents[i][poll[i].etag]

\* No load, no index and no copy: every claim about them holds.
LEMMA GtfsStarts ==
    ASSUME GtfsInit PROVE GtfsInv
BY GtfsAssumption DEF GtfsInit, GtfsInv, GtfsTypeOK, LoadInv, CopyIsSound, Copies, NoLoad

\* A step of the loader keeps what is known of the load, the index and the copy.
LEMMA GtfsSteps ==
    ASSUME GtfsInv, GtfsNext PROVE GtfsInv'
<1> USE GtfsAssumption DEF GtfsInv, GtfsTypeOK, LoadInv, CopyIsSound
<1>1. ASSUME NEW s \in Source, Publish(s) PROVE GtfsInv'
  <2> PICK b \in {x \in Body : Origin[x] = s} \cup {Down} : published' = [published EXCEPT ![s] = b]
    BY <1>1 DEF Publish
  <2> QED  BY <1>1 DEF Publish
<1>2. ASSUME NEW s \in Source, Start(s) PROVE GtfsInv'
  BY <1>2 DEF Start
<1>3. CASE Crash
  BY <1>3 DEF Crash, Copies, NoLoad
<1>4. CASE Fetch
  BY <1>4 DEF Fetch
<1>5. CASE IndexBody
  BY <1>5 DEF IndexBody
<1>6. CASE SaveFeed
  <2>1. /\ load.body \in Body /\ load.body \in Good /\ Origin[load.body] = source
        /\ load' \in [pc : {"idle", "fetched", "indexed", "saved"}, body : Body \cup {Down}]
        /\ load'.pc = "saved" /\ load'.body = load.body /\ server \in {"starting", "up"}
        /\ UNCHANGED <<source, published, server, index>>
    BY <1>6 DEF SaveFeed
  <2>2. cache' = Copy(source, load.body) \/ cache' = cache
    BY <1>6 DEF SaveFeed
  <2> QED  BY <2>1, <2>2 DEF Copy, Copies
<1>7. CASE Swap
  BY <1>7 DEF Swap, Copy, Copies, NoLoad
<1>8. CASE RefreshFails
  BY <1>8 DEF RefreshFails, LoadFailing, NoLoad
<1>9. CASE StartOnCopy
  BY <1>9 DEF StartOnCopy, UsableCopy, LoadFailing, Copy, Copies, NoLoad
<1>10. CASE Refuse
  BY <1>10 DEF Refuse, LoadFailing, NoLoad
<1> QED
  BY <1>1, <1>2, <1>3, <1>4, <1>5, <1>6, <1>7, <1>8, <1>9, <1>10 DEF GtfsNext

\* Nothing is kept of a feed yet.
LEMMA TrustedStarts ==
    ASSUME TrustedInit PROVE TrustedTypeOK /\ TagsOK
<1>1. \A i \in Feeds : Contents[i] \in Seq(TripTable) /\ Len(Contents[i]) >= 1
  BY TrustedAssumption
<1>2. <<>> \in TripTable
  <2>1. <<>> \in [{} -> 0 .. TrustedMaxTime] /\ {} \in SUBSET Key
    OBVIOUS
  <2> QED  BY <2>1 DEF TripTable
<1> QED
  BY <1>1, <1>2, TrustedAssumption
     DEF TrustedInit, TrustedTypeOK, TagsOK, NoTag, Idle, Polling

\* A step of the poller keeps every table beside the validator it came with.
LEMMA TrustedSteps ==
    ASSUME TrustedTypeOK, TagsOK, TrustedNext PROVE TrustedTypeOK' /\ TagsOK'
<1> USE TrustedAssumption DEF TrustedTypeOK, TagsOK, NoTag
<1>1. ASSUME NEW i \in Feeds, PublishTable(i) PROVE TrustedTypeOK' /\ TagsOK'
  <2>1. Len(Contents[i]) \in Nat
    OBVIOUS
  <2> QED  BY <1>1, <2>1 DEF PublishTable
<1>2. ASSUME NEW i \in Feeds, Answer(i) PROVE TrustedTypeOK' /\ TagsOK'
  <2>1. Contents[i][version[i]] \in TripTable /\ version[i] \in Nat
    BY DEF Published
  <2> DEFINE unmodified == [pc |-> "unmodified"]
             tag == IF i \in Tagged THEN version[i] ELSE NoTag
             answered == [pc |-> "answered", vehicles |-> Published(i), etag |-> tag]
  <2>2. unmodified \in Polling /\ unmodified.pc = "unmodified"
    BY DEF Polling
  <2>3. /\ answered \in Polling /\ answered.etag = tag /\ answered.vehicles = Contents[i][version[i]]
    BY <2>1 DEF Polling, Published
  <2>4. poll' = [poll EXCEPT ![i] = unmodified] \/ poll' = [poll EXCEPT ![i] = answered]
    BY <1>2 DEF Answer
  <2>5. UNCHANGED <<clock, version, state>>
    BY <1>2 DEF Answer
  <2>6. tag # NoTag => tag = version[i]
    OBVIOUS
  <2> HIDE DEF unmodified, answered, tag
  <2>7. poll' \in [Feeds -> Polling]
    BY <2>2, <2>3, <2>4
  <2>8. TagsOK'
    <3> SUFFICES ASSUME NEW j \in Feeds, poll'[j].pc = "answered", poll'[j].etag # NoTag
                 PROVE  poll'[j].vehicles = Contents[j][poll'[j].etag]
      BY <2>5
    <3>1. CASE j # i
      <4>1. poll'[j] = poll[j]
        BY <2>4, <3>1
      <4> QED  BY <4>1
    <3>2. CASE j = i
      BY <2>2, <2>3, <2>4, <2>6, <3>2
    <3> QED  BY <3>1, <3>2
  <2> QED  BY <2>5, <2>7, <2>8
<1>3. ASSUME NEW i \in Feeds, NoAnswer(i) PROVE TrustedTypeOK' /\ TagsOK'
  <2>1. poll' = [poll EXCEPT ![i] = [pc |-> "failed"]] /\ UNCHANGED <<clock, version, state>>
    BY <1>3 DEF NoAnswer
  <2>2. [pc |-> "failed"] \in Polling
    BY DEF Polling
  <2> QED  BY <2>1, <2>2
<1>4. ASSUME NEW i \in Feeds, Keep(i) PROVE TrustedTypeOK' /\ TagsOK'
  <2>1. Idle \in Polling /\ Idle.pc = "idle"
    BY DEF Idle, Polling
  <2>2. poll' = [poll EXCEPT ![i] = Idle] /\ UNCHANGED <<clock, version>>
    BY <1>4 DEF Keep
  <2>3. poll' \in [Feeds -> Polling] /\ \A j \in Feeds : poll'[j].pc = "answered" => poll'[j] = poll[j]
    BY <2>1, <2>2
  <2>4. CASE poll[i].pc = "answered"
    <3> DEFINE kept == [etag |-> poll[i].etag, vehicles |-> poll[i].vehicles]
    <3>1. poll[i].etag \in Nat /\ poll[i].vehicles \in TripTable
      BY <2>4 DEF Polling, Idle
    <3>2. kept \in [etag : Nat, vehicles : TripTable]
      BY <3>1
    <3>3. state' = [state EXCEPT ![i] = kept]
      BY <1>4, <2>4 DEF Keep
    <3>4. kept.etag # NoTag => kept.vehicles = Contents[i][kept.etag]
      BY <2>4
    <3> HIDE DEF kept
    <3>5. state' \in [Feeds -> [etag : Nat, vehicles : TripTable]]
      BY <3>2, <3>3
    <3>6. \A j \in Feeds : state'[j].etag # NoTag => state'[j].vehicles = Contents[j][state'[j].etag]
      BY <3>3, <3>4
    <3> QED  BY <2>2, <2>3, <3>5, <3>6
  <2>5. CASE poll[i].pc # "answered"
    BY <1>4, <2>2, <2>3, <2>5 DEF Keep
  <2> QED  BY <2>4, <2>5
<1>5. CASE BeginPoll
  <2>1. poll' = [i \in Feeds |-> [pc |-> "asking", etag |-> state[i].etag]]
        /\ UNCHANGED <<clock, version, state>>
    BY <1>5 DEF BeginPoll
  <2>2. \A i \in Feeds : [pc |-> "asking", etag |-> state[i].etag] \in Polling
    BY DEF Polling
  <2> QED  BY <2>1, <2>2
<1>6. CASE TrustedTick
  BY <1>6 DEF TrustedTick
<1> QED
  BY <1>1, <1>2, <1>3, <1>4, <1>5, <1>6 DEF TrustedNext

\* When a feed holds a fresh position under a key, the look-up finds one.
LEMMA LookupFindsFresh ==
    ASSUME NEW key, NEW i \in Feeds, FreshIn(i, key)
    PROVE  \E j \in Feeds : FreshIn(j, key) /\ LookupIn(key) = {state[j].vehicles[key]}
<1> DEFINE holders == {h \in Feeds : FreshIn(h, key)}
           identity == [h \in holders |-> h]
<1>1. IsFiniteSet(holders) /\ holders # {} /\ \A h \in holders : h \in Int
  <2>1. holders \in SUBSET Feeds /\ IsFiniteSet(Feeds) /\ Feeds \subseteq Nat
    BY TrustedAssumption
  <2>2. IsFiniteSet(holders)
    <3> HIDE DEF holders
    <3> QED  BY <2>1, FS_Subset
  <2> QED  BY <2>1, <2>2
<1>2. PICK j \in holders : \A h \in holders : h <= j
  <2>1. \A h \in holders : identity[h] = h /\ identity[h] \in Int
    BY <1>1
  <2> HIDE DEF holders, identity
  <2>2. \E j \in holders : \A h \in holders : identity[h] <= identity[j]
    BY <1>1, <2>1, HighestExists
  <2> QED  BY <2>1, <2>2
<1> DEFINE last == CHOOSE h \in holders : \A g \in holders : g <= h
<1>3. last \in holders
  BY <1>2
<1>4. LookupIn(key) = {state[last].vehicles[key]}
  BY <1>1 DEF LookupIn
<1> QED  BY <1>3, <1>4

\* What Lookup answers is fresh, and it answers if any feed could.
LEMMA FailuresAreHarmless ==
    ASSUME TagsOK PROVE FailureHidesNothing
<1>1. ASSUME NEW key, NEW at \in LookupIn(key)
      PROVE  clock - at <= TrustedMaxAge
  <2>1. PICK i \in Feeds : FreshIn(i, key)
    BY <1>1 DEF LookupIn
  <2>2. PICK j \in Feeds : FreshIn(j, key) /\ LookupIn(key) = {state[j].vehicles[key]}
    BY <2>1, LookupFindsFresh
  <2> QED  BY <1>1, <2>2 DEF FreshIn
<1>2. ASSUME NEW i \in Feeds, NEW key \in Key, FreshIn(i, key)
      PROVE  \E at \in Lookup : clock - at <= TrustedMaxAge
  <2>1. \E at : at \in LookupIn(key)
    BY <1>2, LookupFindsFresh
  <2>2. LookupIn(key) # {}
    BY <2>1
  <2>3. Lookup # {}
    BY <2>2 DEF Lookup, Key
  <2>4. Lookup = LookupIn("dated") \/ Lookup = LookupIn("undated")
    BY DEF Lookup
  <2> QED  BY <1>1, <2>3, <2>4
<1> QED  BY <1>2 DEF TagsOK, FailureHidesNothing

-----------------------------------------------------------------------------
(* Both loops.                                                              *)

UpstreamInv == GtfsInv /\ TrustedTypeOK /\ TagsOK

\* The inductive invariant of both loops: LoadInv has to say of every step of a
\* load what CopyIsSound says of its end, and TagsOK of an answer in flight what
\* FailureHidesNothing says of the table it becomes.
THEOREM UpstreamIsSound == UpstreamSpec => []UpstreamInv
<1>1. UpstreamInit => UpstreamInv
  BY GtfsStarts, TrustedStarts DEF UpstreamInit, UpstreamInv
<1>2. UpstreamInv /\ [UpstreamNext]_upstreamVars => UpstreamInv'
  <2> SUFFICES ASSUME UpstreamInv, [UpstreamNext]_upstreamVars PROVE UpstreamInv'
    OBVIOUS
  <2>1. ASSUME UNCHANGED trustedVars PROVE (TrustedTypeOK /\ TagsOK)'
    BY <2>1 DEF UpstreamInv, trustedVars, TrustedTypeOK, TagsOK
  <2>2. ASSUME UNCHANGED gtfsVars PROVE GtfsInv'
    BY <2>2 DEF UpstreamInv, gtfsVars, GtfsInv, GtfsTypeOK, LoadInv, CopyIsSound
  <2>3. CASE GtfsNext /\ UNCHANGED trustedVars
    BY <2>1, <2>3, GtfsSteps DEF UpstreamInv
  <2>4. CASE TrustedNext /\ UNCHANGED gtfsVars
    BY <2>2, <2>4, TrustedSteps DEF UpstreamInv
  <2>5. CASE UNCHANGED upstreamVars
    BY <2>1, <2>2, <2>5 DEF UpstreamInv, upstreamVars
  <2> QED  BY <2>3, <2>4, <2>5 DEF UpstreamNext
<1> QED  BY <1>1, <1>2, PTL DEF UpstreamSpec

\* The index in force and the cached copy loaded cleanly and are of their source,
\* through crashes, broken downloads and a change of GTFS_STATIC_URL
\* (gtfs_wiring.go, Refresher).
THEOREM CopiesAreSound == UpstreamSpec => []CopyIsSound
<1>1. UpstreamInv => CopyIsSound
  BY DEF UpstreamInv, GtfsInv
<1> QED  BY <1>1, UpstreamIsSound, PTL

\* pollOne and Lookup: the table kept beside a validator is the one published
\* under it, and a feed that fails hides no fresh position of another.
THEOREM FailingFeedsHideNothing == UpstreamSpec => []FailureHidesNothing
<1>1. UpstreamInv => FailureHidesNothing
  BY FailuresAreHarmless DEF UpstreamInv
<1> QED  BY <1>1, UpstreamIsSound, PTL

\* Both loops keep their types; no feed is ever past the last of its tables.
THEOREM UpstreamIsTyped == UpstreamSpec => []UpstreamTypeOK
<1>1. UpstreamInv => UpstreamTypeOK
  BY DEF UpstreamInv, GtfsInv, TrustedTypeOK, UpstreamTypeOK
<1> QED  BY <1>1, UpstreamIsSound, PTL

-----------------------------------------------------------------------------
(* Quotients.                                                               *)

\* What a quotient is, without the word.
LEMMA QuotientBounds ==
    ASSUME NEW u \in Nat, NEW d \in Nat \ {0}
    PROVE  /\ u \div d \in Nat
           /\ d * (u \div d) <= u /\ u < d * (u \div d) + d
OBVIOUS

\* Products and quotients follow their first operand.
LEMMA ProductGrows ==
    ASSUME NEW d \in Nat, NEW p \in Nat, NEW q \in Nat, p <= q
    PROVE  d * p <= d * q /\ d * p \in Nat
<1>1. q = p + (q - p) /\ q - p \in Nat
  OBVIOUS
<1>2. d * (p + (q - p)) = d * p + d * (q - p)
  <2> DEFINE r == q - p
  <2>1. r \in Nat
    BY <1>1
  <2> HIDE DEF r
  <2> QED  BY <2>1
<1>3. d * (q - p) \in Nat /\ d * p \in Nat
  <2> DEFINE r == q - p
  <2>1. r \in Nat
    BY <1>1
  <2> HIDE DEF r
  <2> QED  BY <2>1
<1> QED  BY <1>1, <1>2, <1>3

LEMMA QuotientGrows ==
    ASSUME NEW u \in Nat, NEW w \in Nat, NEW d \in Nat \ {0}, u <= w
    PROVE  u \div d <= w \div d
<1> DEFINE p == u \div d
           q == w \div d
<1>1. p \in Nat /\ d * p <= u /\ u < d * p + d /\ q \in Nat /\ d * q <= w /\ w < d * q + d
  BY QuotientBounds
<1> HIDE DEF p, q
<1>2. ASSUME p >= q + 1 PROVE FALSE
  <2>1. d * (q + 1) <= d * p
    BY <1>1, <1>2, ProductGrows
  <2>2. d * (q + 1) = d * q + d /\ d * q \in Int /\ d * p \in Int
    BY <1>1
  <2> QED  BY <1>1, <2>1, <2>2
<1>3. p <= q
  BY <1>1, <1>2
<1> QED  BY <1>3 DEF p, q

\* A share of k is not more than k.
LEMMA QuotientOfShare ==
    ASSUME NEW x \in Nat, NEW d \in Nat \ {0}, x <= d, NEW k \in Nat
    PROVE  x * k \in Nat /\ (x * k) \div d \in Nat /\ (x * k) \div d <= k
<1>1. k * x <= k * d /\ k * x = x * k /\ x * k \in Nat /\ k * d = d * k /\ d * k \in Nat
  BY ProductGrows
<1>2. x * k <= d * k
  BY <1>1
<1>3. (x * k) \div d \in Nat /\ (x * k) \div d <= (d * k) \div d
  BY <1>1, <1>2, QuotientGrows, QuotientBounds
<1>4. (d * k) \div d = k
  <2> DEFINE q == (d * k) \div d
  <2>1. q \in Nat /\ d * q <= d * k /\ d * k < d * q + d
    BY <1>1, QuotientBounds
  <2> HIDE DEF q
  <2>2. ASSUME q >= k + 1 PROVE FALSE
    <3>1. d * (k + 1) <= d * q
      BY <2>1, <2>2, ProductGrows
    <3>2. d * (k + 1) = d * k + d /\ d * q \in Int /\ d * k \in Int
      BY <2>1
    <3> QED  BY <2>1, <3>1, <3>2
  <2>3. ASSUME q + 1 <= k PROVE FALSE
    <3>1. d * (q + 1) <= d * k
      BY <2>1, <2>3, ProductGrows
    <3>2. d * (q + 1) = d * q + d /\ d * q \in Int /\ d * k \in Int
      BY <2>1
    <3> QED  BY <2>1, <3>1, <3>2
  <2>4. q = k
    BY <2>1, <2>2, <2>3
  <2> QED  BY <2>4 DEF q
<1> QED  BY <1>1, <1>3, <1>4

-----------------------------------------------------------------------------
(* The order of a trip's stop times.                                        *)

\* A stop time goes to some place of the trip, no two to the same one.
LEMMA PlacesAreNumbers ==
    ASSUME NEW n \in Nat, NEW s, DOMAIN s = 1 .. n, \A j \in 1 .. n : s[j].sequence \in Int,
           NEW j \in 1 .. n
    PROVE  PlaceOf(s, j) \in 1 .. n
<1> DEFINE B == {k \in DOMAIN s : Precedes(s, k, j)}
<1>1. B \in SUBSET ((1 .. n) \ {j})
  BY DEF Precedes
<1>2. IsFiniteSet((1 .. n) \ {j}) /\ Cardinality((1 .. n) \ {j}) = n - 1
  <2>1. IsFiniteSet(1 .. n) /\ Cardinality(1 .. n) = n
    <3>1. 1 \in Int /\ n \in Int /\ 1 <= n /\ n - 1 + 1 = n
      OBVIOUS
    <3>2. IsFiniteSet(1 .. n)
      BY <3>1, FS_Interval
    <3>3. Cardinality(1 .. n) = n - 1 + 1
      BY <3>1, FS_Interval
    <3> QED  BY <3>1, <3>2, <3>3
  <2> QED  BY <2>1, FS_RemoveElement
<1>3. Cardinality(B) <= n - 1 /\ Cardinality(B) \in Nat
  <2> HIDE DEF B
  <2> QED  BY <1>1, <1>2, FS_Subset, FS_CardinalityType
<1> QED  BY <1>3 DEF PlaceOf

LEMMA PlacesAreInOrder ==
    ASSUME NEW n \in Nat, NEW s, DOMAIN s = 1 .. n, \A j \in 1 .. n : s[j].sequence \in Int,
           NEW j \in 1 .. n, NEW k \in 1 .. n, Precedes(s, j, k)
    PROVE  PlaceOf(s, j) < PlaceOf(s, k)
<1> DEFINE B(i) == {h \in DOMAIN s : Precedes(s, h, i)}
<1>1. B(j) \in SUBSET B(k) /\ j \in B(k) /\ j \notin B(j) /\ B(k) \in SUBSET (1 .. n)
  BY DEF Precedes
<1>2. IsFiniteSet(1 .. n)
  <2>1. 1 \in Int /\ n \in Int
    OBVIOUS
  <2> QED  BY <2>1, FS_Interval
<1>3. /\ IsFiniteSet(B(k)) /\ IsFiniteSet(B(j)) /\ Cardinality(B(j)) \in Nat /\ Cardinality(B(k)) \in Nat
      /\ Cardinality(B(j)) <= Cardinality(B(k)) /\ Cardinality(B(j)) # Cardinality(B(k))
  <2> DEFINE Bj == B(j)
             Bk == B(k)
  <2>1. Bj \in SUBSET Bk /\ j \in Bk /\ j \notin Bj /\ Bk \in SUBSET (1 .. n)
    BY <1>1
  <2> HIDE DEF Bj, Bk
  <2>2. IsFiniteSet(Bk)
    BY <2>1, <1>2, FS_Subset
  <2>3. IsFiniteSet(Bj) /\ Cardinality(Bj) <= Cardinality(Bk) /\ Cardinality(Bj) # Cardinality(Bk)
    BY <2>1, <2>2, FS_Subset
  <2>4. Cardinality(Bj) \in Nat /\ Cardinality(Bk) \in Nat
    BY <2>2, <2>3, FS_CardinalityType
  <2> QED  BY <2>2, <2>3, <2>4 DEF Bj, Bk
<1> HIDE DEF B
<1>4. Cardinality(B(j)) + 1 < Cardinality(B(k)) + 1
  BY <1>3
<1> QED  BY <1>4 DEF B, PlaceOf

\* The stable sort is one: every place has its stop time.
LEMMA EveryPlaceIsTaken ==
    ASSUME NEW n \in Nat, NEW s, DOMAIN s = 1 .. n, \A j \in 1 .. n : s[j].sequence \in Int,
           NEW i \in 1 .. n
    PROVE  \E j \in 1 .. n : PlaceOf(s, j) = i
<1> DEFINE place == [j \in 1 .. n |-> PlaceOf(s, j)]
<1>1. place \in [1 .. n -> 1 .. n]
  BY PlacesAreNumbers
<1>2. ASSUME NEW j \in 1 .. n, NEW k \in 1 .. n, j # k PROVE place[j] # place[k]
  <2>1. Precedes(s, j, k) \/ Precedes(s, k, j)
    BY <1>2 DEF Precedes
  <2>2. PlaceOf(s, j) < PlaceOf(s, k) \/ PlaceOf(s, k) < PlaceOf(s, j)
    BY <2>1, PlacesAreInOrder
  <2>3. PlaceOf(s, j) \in Int /\ PlaceOf(s, k) \in Int
    BY PlacesAreNumbers
  <2> QED  BY <2>2, <2>3
<1> HIDE DEF place
<1>3. place \in Injection(1 .. n, 1 .. n)
  BY <1>1, <1>2 DEF Injection, IsInjective
<1>4. IsFiniteSet(1 .. n)
  <2>1. 1 \in Int /\ n \in Int
    OBVIOUS
  <2> QED  BY <2>1, FS_Interval
<1>5. place \in Surjection(1 .. n, 1 .. n)
  BY <1>3, <1>4, FS_Injection
<1>6. PICK j \in 1 .. n : place[j] = i
  BY <1>5 DEF Surjection
<1> QED  BY <1>6 DEF place

\* InSequence only moves stop times, and puts them in the order of Precedes.
LEMMA StopsAreSorted ==
    ASSUME NEW S, NEW s \in Seq(S), \A x \in S : x.sequence \in Int
    PROVE  /\ InSequence(s) \in Seq(S) /\ Len(InSequence(s)) = Len(s)
           /\ \A i \in DOMAIN s : \E j \in DOMAIN s : PlaceOf(s, j) = i /\ InSequence(s)[i] = s[j]
           /\ \A i, k \in DOMAIN s : i < k =>
                \E j, l \in DOMAIN s : /\ Precedes(s, j, l)
                                       /\ InSequence(s)[i] = s[j] /\ InSequence(s)[k] = s[l]
<1> PICK n \in Nat : n = Len(s)
  OBVIOUS
<1>1. DOMAIN s = 1 .. n /\ \A j \in 1 .. n : s[j] \in S /\ s[j].sequence \in Int
  OBVIOUS
<1>2. ASSUME NEW i \in DOMAIN s
      PROVE  \E j \in DOMAIN s : PlaceOf(s, j) = i /\ InSequence(s)[i] = s[j]
  <2> DEFINE at == CHOOSE j \in DOMAIN s : PlaceOf(s, j) = i
  <2>1. at \in DOMAIN s /\ PlaceOf(s, at) = i
    <3>1. DOMAIN s = 1 .. n /\ i \in 1 .. n
      BY <1>1
    <3>2. \A j \in 1 .. n : s[j].sequence \in Int
      BY <1>1
    <3>3. \E j \in 1 .. n : PlaceOf(s, j) = i
      BY <3>1, <3>2, EveryPlaceIsTaken
    <3> QED  BY <3>1, <3>3
  <2>2. InSequence(s)[i] = s[at]
    BY DEF InSequence
  <2> HIDE DEF at
  <2> QED  BY <2>1, <2>2
<1>3. /\ DOMAIN InSequence(s) = 1 .. n
      /\ InSequence(s) = [i \in 1 .. n |-> InSequence(s)[i]]
  BY <1>1 DEF InSequence
<1>4. \A i \in 1 .. n : InSequence(s)[i] \in S
  BY <1>1, <1>2
<1>5. InSequence(s) \in Seq(S) /\ Len(InSequence(s)) = n
  BY <1>3, <1>4
<1>6. ASSUME NEW i \in DOMAIN s, NEW k \in DOMAIN s, i < k
      PROVE  \E j, l \in DOMAIN s : /\ Precedes(s, j, l)
                                    /\ InSequence(s)[i] = s[j] /\ InSequence(s)[k] = s[l]
  <2>1. PICK j \in DOMAIN s : PlaceOf(s, j) = i /\ InSequence(s)[i] = s[j]
    BY <1>2
  <2>2. PICK l \in DOMAIN s : PlaceOf(s, l) = k /\ InSequence(s)[k] = s[l]
    BY <1>2
  <2>3. j # l /\ ~ (PlaceOf(s, l) < PlaceOf(s, j))
    BY <1>1, <1>6, <2>1, <2>2
  <2>4. ~Precedes(s, l, j)
    BY <1>1, <2>3, PlacesAreInOrder
  <2>5. Precedes(s, j, l)
    BY <1>1, <2>3, <2>4 DEF Precedes
  <2> QED  BY <2>1, <2>2, <2>5
<1> QED  BY <1>2, <1>5, <1>6

-----------------------------------------------------------------------------
(* What an index holds of a trip.                                           *)

\* A trip's stop times as an index keeps them.
PlacedStops(stops) ==
    /\ DOMAIN stops = 1 .. Len(stops) /\ Len(stops) \in Nat \ {0}
    /\ \A i \in 1 .. Len(stops) :
         stops[i].along \in Nat /\ stops[i].arrival \in Nat /\ stops[i].departure \in Nat

\* Their times go forward.
ForwardStops(stops) ==
    /\ \A i \in 1 .. Len(stops) : stops[i].arrival <= stops[i].departure
    /\ \A i, k \in 1 .. Len(stops) : i < k => stops[i].departure <= stops[k].arrival

\* The unit that is chosen keeps the last stop on the shape.
LEMMA ScaleFits ==
    ASSUME NEW length \in Nat, NEW stops \in Seq(StopTime(length)), stops # <<>>,
           ShapeDistScale(stops, length) # {}
    PROVE  \E u \in Nat \ {0} :
             /\ ShapeDistScale(stops, length) = {u}
             /\ length > 0 => 20 * (stops[Len(stops)].dist * u) <= 21 * length
             /\ \A i \in DOMAIN stops : stops[i].dist \in Nat
<1> DEFINE last == stops[Len(stops)].dist
           units == {u \in ShapeDistUnits : Fits(u, last, length)}
<1>1. Len(stops) \in DOMAIN stops /\ \A i \in DOMAIN stops : stops[i] \in StopTime(length)
  OBVIOUS
<1>2. /\ ~ ((\E i \in DOMAIN stops : stops[i].dist = NoDistance) \/ last <= 0)
      /\ length <= 0 => ShapeDistScale(stops, length) = {1}
      /\ length > 0 =>
            /\ units # {}
            /\ ShapeDistScale(stops, length) = {CHOOSE u \in units : \A w \in units : w <= u}
  BY DEF ShapeDistScale
<1>3. \A i \in DOMAIN stops : stops[i].dist \in Nat
  BY <1>1, <1>2 DEF StopTime
<1>4. last \in Nat \ {0}
  BY <1>1, <1>2, <1>3
<1>5. \A u \in units : u \in Nat \ {0} /\ u <= 21 * length
  <2> SUFFICES ASSUME NEW u \in units PROVE u \in Nat \ {0} /\ u <= 21 * length
    OBVIOUS
  <2> HIDE DEF last
  <2>1. u \in Nat \ {0} /\ 20 * last * u <= 21 * length
    BY ScheduleAssumption DEF Fits
  <2>2. 1 * u <= (20 * last) * u
    <3>1. u * 1 <= u * (20 * last)
      BY <1>4, <2>1, ProductGrows
    <3> QED  BY <1>4, <2>1, <3>1
  <2> QED  BY <1>4, <2>1, <2>2
<1>11. CASE length <= 0
  <2>1. ~(length > 0)
    BY <1>11
  <2> QED  BY <1>2, <1>3, <1>11, <2>1
<1>12. SUFFICES ASSUME length > 0
                PROVE  \E u \in Nat \ {0} :
                         /\ ShapeDistScale(stops, length) = {u}
                         /\ length > 0 => 20 * (stops[Len(stops)].dist * u) <= 21 * length
                         /\ \A i \in DOMAIN stops : stops[i].dist \in Nat
  BY <1>11
<1>6. \E u \in units : \A w \in units : w <= u
  <2> DEFINE id == [u \in units |-> u]
  <2>1. units \in SUBSET (1 .. 21 * length) /\ units # {}
    BY <1>2, <1>5, <1>12
  <2> HIDE DEF units
  <2>2. IsFiniteSet(units)
    <3>1. IsFiniteSet(1 .. 21 * length)
      <4>1. 21 * length \in Int /\ 1 \in Int
        OBVIOUS
      <4> QED  BY <4>1, FS_Interval
    <3> QED  BY <2>1, <3>1, FS_Subset
  <2>3. \A u \in units : id[u] = u /\ id[u] \in Int
    BY <2>1
  <2> HIDE DEF id
  <2>4. \E u \in units : \A w \in units : id[w] <= id[u]
    BY <2>1, <2>2, <2>3, HighestExists
  <2> QED  BY <2>3, <2>4
<1> DEFINE best == CHOOSE u \in units : \A w \in units : w <= u
<1>7. best \in units
  BY <1>6
<1>8. best \in Nat \ {0} /\ 20 * last * best <= 21 * length
  <2> HIDE DEF last
  <2>1. best \in ShapeDistUnits /\ Fits(best, last, length)
    BY <1>7
  <2> HIDE DEF best, units
  <2> QED  BY <2>1, ScheduleAssumption DEF Fits
<1>9. 20 * (last * best) <= 21 * length
  <2> HIDE DEF best, last, units
  <2> QED  BY <1>4, <1>8
<1>10. ShapeDistScale(stops, length) = {best}
  BY <1>2, <1>12
<1> QED  BY <1>3, <1>8, <1>9, <1>10

\* Every stop of an indexed trip has a place, and the last is on the shape if
\* that has a length.
LEMMA StopsArePlaced ==
    ASSUME NEW length \in Nat, NEW stopTimes \in Seq(StopTime(length)), stopTimes # <<>>
    PROVE  LET stops == StopTimesAlong(stopTimes, length)
               sorted == InSequence(stopTimes)
           IN /\ PlacedStops(stops) /\ DOMAIN stops = DOMAIN stopTimes
              /\ length > 0 => 20 * stops[Len(stops)].along <= 21 * length
              /\ \A i \in DOMAIN stops : /\ stops[i].arrival = sorted[i].arrival
                                         /\ stops[i].departure = sorted[i].departure
<1> PICK n \in Nat : n = Len(stopTimes)
  OBVIOUS
<1> PICK sorted : sorted = InSequence(stopTimes)
  OBVIOUS
<1> DEFINE scale == ShapeDistScale(sorted, length)
           located(i) == {j \in 1 .. i : sorted[j].projected # NoDistance}
           along(i) ==
             IF scale # {} THEN sorted[i].dist * (CHOOSE u \in scale : TRUE)
             ELSE IF located(i) = {} THEN 0
             ELSE sorted[CHOOSE j \in located(i) : \A k \in located(i) : k <= j].projected
           stops == StopTimesAlong(stopTimes, length)
<1>1. \A x \in StopTime(length) : x.sequence \in Int
  BY DEF StopTime
<1>2. sorted \in Seq(StopTime(length)) /\ Len(sorted) = n /\ n >= 1 /\ sorted # <<>>
  BY <1>1, StopsAreSorted
<1>3. stops = [i \in 1 .. n |-> [along |-> along(i), arrival |-> sorted[i].arrival,
                                 departure |-> sorted[i].departure]]
  BY <1>2 DEF StopTimesAlong
<1>4. \A i \in 1 .. n : /\ sorted[i] \in StopTime(length)
                        /\ sorted[i].arrival \in Nat /\ sorted[i].departure \in Nat
                        /\ sorted[i].projected \in (0 .. length) \cup {NoDistance}
  <2> SUFFICES ASSUME NEW i \in 1 .. n
               PROVE  /\ sorted[i] \in StopTime(length)
                      /\ sorted[i].arrival \in Nat /\ sorted[i].departure \in Nat
                      /\ sorted[i].projected \in (0 .. length) \cup {NoDistance}
    OBVIOUS
  <2>1. sorted[i] \in StopTime(length)
    BY <1>2
  <2> QED  BY <2>1 DEF StopTime
<1>5. ASSUME NEW i \in 1 .. n
      PROVE  along(i) \in Nat /\ (i = n /\ length > 0 => 20 * along(i) <= 21 * length)
  <2>1. CASE scale # {}
    <3>1. PICK u \in Nat \ {0} :
             /\ scale = {u} /\ (length > 0 => 20 * (sorted[n].dist * u) <= 21 * length)
             /\ \A j \in 1 .. n : sorted[j].dist \in Nat
      <4>1. PICK u \in Nat \ {0} :
               /\ scale = {u}
               /\ length > 0 => 20 * (sorted[Len(sorted)].dist * u) <= 21 * length
               /\ \A j \in DOMAIN sorted : sorted[j].dist \in Nat
        BY <1>2, <2>1, ScaleFits
      <4>2. DOMAIN sorted = 1 .. n /\ Len(sorted) = n
        BY <1>2
      <4> HIDE DEF scale
      <4> QED  BY <4>1, <4>2
    <3>2. along(i) = sorted[i].dist * u
      BY <2>1, <3>1
    <3> HIDE DEF along
    <3>3. sorted[i].dist * u \in Nat
      BY <3>1
    <3> QED  BY <3>1, <3>2, <3>3
  <2>2. CASE scale = {} /\ located(i) = {}
    BY <2>2
  <2>3. CASE scale = {} /\ located(i) # {}
    <3> DEFINE from == CHOOSE j \in located(i) : \A k \in located(i) : k <= j
    <3>1. from \in located(i)
      <4> PICK L : L = located(i)
        OBVIOUS
      <4> PICK id : id = [j \in L |-> j]
        OBVIOUS
      <4>1. L # {} /\ L \in SUBSET (1 .. i) /\ IsFiniteSet(1 .. i)
        <5>1. 1 \in Int /\ i \in Int
          OBVIOUS
        <5> QED  BY <2>3, <5>1, FS_Interval
      <4>2. IsFiniteSet(L) /\ \A j \in L : id[j] = j /\ id[j] \in Int
        <5> HIDE DEF located
        <5> QED  BY <4>1, FS_Subset
      <4>3. \E j \in L : \A k \in L : id[k] <= id[j]
        <5> HIDE DEF located
        <5> QED  BY <4>1, <4>2, HighestExists
      <4>4. \E j \in L : \A k \in L : k <= j
        BY <4>2, <4>3
      <4> QED  BY <4>4
    <3>2. along(i) = sorted[from].projected
      BY <2>3
    <3>3. from \in 1 .. n /\ sorted[from].projected # NoDistance
      BY <3>1
    <3>4. sorted[from].projected \in 0 .. length
      <4> HIDE DEF from
      <4> QED  BY <1>4, <3>3
    <3> HIDE DEF along, from
    <3> QED  BY <3>2, <3>4
  <2> QED  BY <2>1, <2>2, <2>3
<1> HIDE DEF along, stops
<1>6. DOMAIN stops = 1 .. n /\ Len(stops) = n /\ stops[n].along = along(n) /\ n \in 1 .. n
  BY <1>2, <1>3
<1>7. \A i \in 1 .. n : /\ stops[i].along = along(i) /\ stops[i].arrival = sorted[i].arrival
                        /\ stops[i].departure = sorted[i].departure
  BY <1>3
<1>8. DOMAIN stopTimes = 1 .. n
  OBVIOUS
<1>9. PlacedStops(stops)
  <2>1. \A i \in 1 .. n :
           stops[i].along \in Nat /\ stops[i].arrival \in Nat /\ stops[i].departure \in Nat
    <3> TAKE i \in 1 .. n
    <3>1. along(i) \in Nat /\ sorted[i].arrival \in Nat /\ sorted[i].departure \in Nat
      BY <1>4, <1>5
    <3> QED  BY <1>7, <3>1
  <2> QED  BY <1>2, <1>6, <2>1 DEF PlacedStops
<1>10. length > 0 => 20 * stops[Len(stops)].along <= 21 * length
  BY <1>5, <1>6
<1> QED  BY <1>6, <1>7, <1>8, <1>9, <1>10 DEF stops

\* If the feed's times go forward, so do the index's.
LEMMA SortedStopsGoForward ==
    ASSUME NEW length \in Nat, NEW stopTimes \in Seq(StopTime(length)), stopTimes # <<>>,
           GoesForward(stopTimes)
    PROVE  ForwardStops(StopTimesAlong(stopTimes, length))
<1> PICK stops : stops = StopTimesAlong(stopTimes, length)
  OBVIOUS
<1> PICK sorted : sorted = InSequence(stopTimes)
  OBVIOUS
<1>1. /\ DOMAIN stops = 1 .. Len(stops) /\ DOMAIN stops = DOMAIN stopTimes
      /\ \A i \in DOMAIN stops : /\ stops[i].arrival = sorted[i].arrival
                                 /\ stops[i].departure = sorted[i].departure
  BY StopsArePlaced DEF PlacedStops
<1>2. \A x \in StopTime(length) : x.sequence \in Int
  BY DEF StopTime
<1>3. /\ \A i \in DOMAIN stopTimes : \E j \in DOMAIN stopTimes : sorted[i] = stopTimes[j]
      /\ \A i, k \in DOMAIN stopTimes : i < k =>
           \E j, l \in DOMAIN stopTimes : /\ Precedes(stopTimes, j, l)
                                          /\ sorted[i] = stopTimes[j] /\ sorted[k] = stopTimes[l]
  BY <1>2, StopsAreSorted
<1>4. ASSUME NEW i \in 1 .. Len(stops) PROVE stops[i].arrival <= stops[i].departure
  BY <1>1, <1>3 DEF GoesForward
<1>5. ASSUME NEW i \in 1 .. Len(stops), NEW k \in 1 .. Len(stops), i < k
      PROVE  stops[i].departure <= stops[k].arrival
  <2>1. PICK j, l \in DOMAIN stopTimes : /\ Precedes(stopTimes, j, l)
                                         /\ sorted[i] = stopTimes[j] /\ sorted[k] = stopTimes[l]
    <3>1. i \in DOMAIN stopTimes /\ k \in DOMAIN stopTimes
      BY <1>1
    <3> QED  BY <1>3, <1>5, <3>1
  <2>2. stopTimes[j].departure <= stopTimes[l].arrival
    BY <2>1 DEF GoesForward
  <2> QED  BY <1>1, <2>1, <2>2
<1> QED  BY <1>4, <1>5 DEF ForwardStops

-----------------------------------------------------------------------------
(* The schedule along a trip.                                               *)

\* The stretch a place between the first and the last stop lies on.
Between(stops, p, x) ==
    /\ p \in 2 .. Len(stops) /\ stops[p - 1].along < x /\ x <= stops[p].along
    /\ \A j \in 2 .. p - 1 : stops[j].along < x

\* The time there, in proportion to the way.
Interpolated(stops, p, x) ==
    stops[p - 1].departure + ((x - stops[p - 1].along) * (stops[p].arrival - stops[p - 1].departure))
                               \div (stops[p].along - stops[p - 1].along)

\* A place between the ends lies on a stretch, and its time is interpolated there.
LEMMA StretchExists ==
    ASSUME NEW stops, PlacedStops(stops), NEW x \in Nat,
           stops[1].along < x, x < stops[Len(stops)].along
    PROVE  \E p \in Nat : Between(stops, p, x)
                          /\ ScheduledOffsetAt(stops, x) = Interpolated(stops, p, x)
<1> PICK n \in Nat : n = Len(stops)
  BY Zenon DEF PlacedStops
<1> DEFINE Reached == {i \in 2 .. n : x <= stops[i].along}
<1>1. n >= 2 /\ \A i \in 1 .. n : stops[i].along \in Nat
  BY DEF PlacedStops
<1>2. n \in Reached /\ Reached \subseteq Nat
  BY <1>1
<1>3. PICK p \in Reached : \A i \in Reached : ~ (<<i, p>> \in OpToRel(<, Nat))
  <2> HIDE DEF Reached
  <2> QED  BY <1>2, NatLessThanWellFounded, WFMin, Zenon
<1>4. \A i \in Reached : ~ (i < p)
  BY <1>2, <1>3 DEF OpToRel
<1>5. \A j \in 2 .. p - 1 : stops[j].along < x
  BY <1>1, <1>4
<1>6. p \in 2 .. n /\ x <= stops[p].along
  OBVIOUS
<1>7. stops[p - 1].along < x
  <2>1. p = 2 \/ p - 1 \in 2 .. p - 1
    BY <1>6
  <2> QED  BY <1>5, <2>1
<1> DEFINE next == CHOOSE i \in 2 .. n : /\ x <= stops[i].along
                                         /\ \A j \in 2 .. i - 1 : stops[j].along < x
<1>8. next = p
  <2>1. /\ next \in 2 .. n /\ x <= stops[next].along
        /\ \A j \in 2 .. next - 1 : stops[j].along < x
    BY <1>5, <1>6
  <2> HIDE DEF next, Reached
  <2>2. ~ (next < p)
    <3>1. ASSUME next < p PROVE FALSE
      <4>1. next \in 2 .. p - 1
        BY <1>6, <2>1, <3>1
      <4>2. stops[next].along < x /\ stops[next].along \in Nat
        BY <1>1, <1>5, <2>1, <4>1
      <4> QED  BY <2>1, <4>2
    <3> QED  BY <3>1
  <2>3. ~ (p < next)
    BY <1>1, <1>6, <2>1
  <2> QED  BY <1>6, <2>1, <2>2, <2>3
<1>9. stops[p].along \in Nat /\ stops[p - 1].along \in Nat
  BY <1>1, <1>6
<1> DEFINE a == stops[next - 1]
           b == stops[next]
<1>10. /\ a = stops[p - 1] /\ b = stops[p]
       /\ ~ (b.along <= a.along)
       /\ ~ (x <= stops[1].along) /\ ~ (x >= stops[n].along)
  <2> HIDE DEF next
  <2>1. ~ (stops[p].along <= stops[p - 1].along)
    BY <1>6, <1>7, <1>9
  <2>2. stops[1].along \in Nat /\ stops[n].along \in Nat
    BY <1>1
  <2> QED  BY <1>8, <2>1, <2>2
<1>11. ScheduledOffsetAt(stops, x) =
          IF x <= stops[1].along THEN stops[1].arrival
          ELSE IF x >= stops[n].along THEN stops[n].arrival
          ELSE IF b.along <= a.along THEN a.departure
          ELSE a.departure + ((x - a.along) * (b.arrival - a.departure)) \div (b.along - a.along)
  BY DEF ScheduledOffsetAt
<1> HIDE DEF next, a, b, Reached
<1>12. ScheduledOffsetAt(stops, x) = Interpolated(stops, p, x)
  BY <1>10, <1>11, Zenon DEF Interpolated
<1> QED  BY <1>5, <1>6, <1>7, <1>12 DEF Between

\* What is interpolated lies between the times at the ends of the stretch.
LEMMA InterpolatedLies ==
    ASSUME NEW stops, PlacedStops(stops), ForwardStops(stops), NEW x \in Nat, NEW p \in Nat,
           Between(stops, p, x)
    PROVE  /\ Interpolated(stops, p, x) \in Nat
           /\ stops[p - 1].departure <= Interpolated(stops, p, x)
           /\ Interpolated(stops, p, x) <= stops[p].arrival
<1>1. p - 1 \in 1 .. Len(stops) /\ p \in 1 .. Len(stops) /\ p - 1 < p
  BY DEF PlacedStops, Between
<1>2. PICK from, to, leave, come \in Nat :
         /\ from = stops[p - 1].along /\ to = stops[p].along
         /\ leave = stops[p - 1].departure /\ come = stops[p].arrival
  BY <1>1 DEF PlacedStops
<1>3. leave <= come
  BY <1>1, <1>2 DEF ForwardStops
<1>4. from < x /\ x <= to
  BY <1>2 DEF Between
<1>5. PICK k \in Nat, d \in Nat \ {0}, u \in Nat :
         k = come - leave /\ d = to - from /\ u = x - from /\ u <= d
  BY <1>2, <1>3, <1>4
<1>6. (u * k) \div d \in Nat /\ (u * k) \div d <= k
  BY <1>5, QuotientOfShare
<1>7. Interpolated(stops, p, x) = leave + (u * k) \div d
  BY <1>2, <1>5, Zenon DEF Interpolated
<1>8. PICK q \in Nat : q = (u * k) \div d /\ q <= k
  BY <1>6
<1>9. leave + q \in Nat /\ leave <= leave + q /\ leave + q <= come
  BY <1>2, <1>5, <1>8
<1> QED  BY <1>2, <1>7, <1>8, <1>9, Zenon

\* On one stretch, farther is not earlier.
LEMMA InterpolatedGrows ==
    ASSUME NEW stops, PlacedStops(stops), ForwardStops(stops), NEW x \in Nat, NEW y \in Nat, x < y,
           NEW p \in Nat, Between(stops, p, x), Between(stops, p, y)
    PROVE  Interpolated(stops, p, x) <= Interpolated(stops, p, y)
<1>1. p - 1 \in 1 .. Len(stops) /\ p \in 1 .. Len(stops) /\ p - 1 < p
  BY DEF PlacedStops, Between
<1>2. PICK from, to, leave, come \in Nat :
         /\ from = stops[p - 1].along /\ to = stops[p].along
         /\ leave = stops[p - 1].departure /\ come = stops[p].arrival
  BY <1>1 DEF PlacedStops
<1>3. leave <= come
  BY <1>1, <1>2 DEF ForwardStops
<1>4. from < x /\ x <= to /\ y <= to
  BY <1>2 DEF Between
<1>5. PICK k \in Nat, d \in Nat \ {0}, u \in Nat, w \in Nat :
         k = come - leave /\ d = to - from /\ u = x - from /\ w = y - from /\ u <= w
  <2>1. from \in Nat /\ to \in Nat /\ leave \in Nat /\ come \in Nat
    BY <1>2
  <2>2. come - leave \in Nat
    BY <2>1, <1>3
  <2>3. to - from \in Nat \ {0}
    BY <2>1, <1>4
  <2>4. x - from \in Nat /\ y - from \in Nat /\ x - from <= y - from
    BY <2>1, <1>4
  <2> QED  BY <2>2, <2>3, <2>4
<1>6. u * k \in Nat /\ w * k \in Nat /\ u * k <= w * k
  <2>1. k * u <= k * w
    BY <1>5, ProductGrows
  <2>2. k * u = u * k /\ k * w = w * k /\ u * k \in Nat /\ w * k \in Nat
    BY <1>5
  <2> QED  BY <2>1, <2>2
<1>7. (u * k) \div d <= (w * k) \div d /\ (u * k) \div d \in Nat /\ (w * k) \div d \in Nat
  BY <1>5, <1>6, QuotientGrows, QuotientBounds
<1>8. Interpolated(stops, p, x) = leave + (u * k) \div d
  BY <1>2, <1>5, Zenon DEF Interpolated
<1>9. Interpolated(stops, p, y) = leave + (w * k) \div d
  BY <1>2, <1>5, Zenon DEF Interpolated
<1>10. PICK q, r \in Nat : q = (u * k) \div d /\ r = (w * k) \div d /\ q <= r
  BY <1>7
<1>11. leave + q <= leave + r
  BY <1>2, <1>10
<1> QED  BY <1>8, <1>9, <1>10, <1>11, Zenon

\* Nor is it from one stretch to a later one.
LEMMA OffsetsGoForward ==
    ASSUME NEW stops, PlacedStops(stops), ForwardStops(stops), NEW x \in Nat, NEW y \in Nat, x < y
    PROVE  ScheduledOffsetAt(stops, x) <= ScheduledOffsetAt(stops, y)
<1> PICK n \in Nat \ {0} : n = Len(stops)
  BY Zenon DEF PlacedStops
<1>1. \A i \in 1 .. n :
         stops[i].along \in Nat /\ stops[i].arrival \in Nat /\ stops[i].departure \in Nat
  BY DEF PlacedStops
<1>2. \A i, k \in 1 .. n : i < k => stops[i].departure <= stops[k].arrival
  BY DEF ForwardStops
<1>3. \A i \in 1 .. n : stops[i].arrival <= stops[i].departure
  BY DEF ForwardStops
<1>4. \A i, k \in 1 .. n : i <= k =>
         stops[i].arrival <= stops[k].arrival /\ stops[i].departure <= stops[k].departure
         /\ stops[i].arrival <= stops[k].departure
  BY <1>1, <1>2, <1>3
<1>5. 1 \in 1 .. n /\ n \in 1 .. n
  OBVIOUS
<1>6. \A z \in Nat : z <= stops[1].along => ScheduledOffsetAt(stops, z) = stops[1].arrival
  BY DEF ScheduledOffsetAt
<1>7. \A z \in Nat : ~ (z <= stops[1].along) /\ z >= stops[n].along =>
         ScheduledOffsetAt(stops, z) = stops[n].arrival
  BY DEF ScheduledOffsetAt
<1>8. ASSUME NEW z \in Nat, ~ (z <= stops[1].along), ~ (z >= stops[n].along)
      PROVE  \E p \in 2 .. n : /\ Between(stops, p, z)
                               /\ ScheduledOffsetAt(stops, z) = Interpolated(stops, p, z)
                               /\ Interpolated(stops, p, z) \in Nat
                               /\ stops[p - 1].departure <= Interpolated(stops, p, z)
                               /\ Interpolated(stops, p, z) <= stops[p].arrival
  <2>1. stops[1].along < z /\ z < stops[n].along
    BY <1>1, <1>5, <1>8
  <2>2. PICK p \in Nat : Between(stops, p, z)
                         /\ ScheduledOffsetAt(stops, z) = Interpolated(stops, p, z)
    BY <2>1, StretchExists
  <2>3. p \in 2 .. n
    BY <2>2 DEF Between
  <2> QED  BY <2>2, <2>3, InterpolatedLies
<1>9. CASE x <= stops[1].along
  <2>1. ScheduledOffsetAt(stops, x) = stops[1].arrival /\ stops[1].arrival \in Nat
    BY <1>1, <1>5, <1>6, <1>9
  <2>2. CASE y <= stops[1].along
    BY <1>6, <2>1, <2>2
  <2>3. CASE ~ (y <= stops[1].along) /\ y >= stops[n].along
    BY <1>4, <1>5, <1>7, <2>1, <2>3
  <2>4. CASE ~ (y <= stops[1].along) /\ ~ (y >= stops[n].along)
    <3>1. PICK q \in 2 .. n : /\ ScheduledOffsetAt(stops, y) = Interpolated(stops, q, y)
                              /\ Interpolated(stops, q, y) \in Nat
                              /\ stops[q - 1].departure <= Interpolated(stops, q, y)
      BY <1>8, <2>4
    <3>2. q - 1 \in 1 .. n /\ 1 <= q - 1
      OBVIOUS
    <3>3. stops[1].arrival <= stops[q - 1].departure /\ stops[q - 1].departure \in Nat
      BY <1>1, <1>4, <1>5, <3>2
    <3> QED  BY <2>1, <3>1, <3>3
  <2> QED  BY <2>2, <2>3, <2>4
<1>10. CASE ~ (x <= stops[1].along) /\ x >= stops[n].along
  <2>1. ~ (y <= stops[1].along) /\ y >= stops[n].along
    BY <1>1, <1>5, <1>10
  <2>2. stops[n].arrival \in Nat
    BY <1>1, <1>5
  <2> QED  BY <1>7, <1>10, <2>1, <2>2
<1>11. CASE ~ (x <= stops[1].along) /\ ~ (x >= stops[n].along)
  <2>1. PICK p \in 2 .. n : /\ Between(stops, p, x)
                            /\ ScheduledOffsetAt(stops, x) = Interpolated(stops, p, x)
                            /\ Interpolated(stops, p, x) \in Nat
                            /\ Interpolated(stops, p, x) <= stops[p].arrival
    BY <1>8, <1>11
  <2>2. p \in 1 .. n /\ p <= n /\ stops[p].arrival \in Nat
    BY <1>1
  <2>3. ~ (y <= stops[1].along)
    BY <1>1, <1>5, <1>11
  <2>4. CASE y >= stops[n].along
    <3>1. ScheduledOffsetAt(stops, y) = stops[n].arrival /\ stops[n].arrival \in Nat
      BY <1>1, <1>5, <1>7, <2>3, <2>4
    <3>2. stops[p].arrival <= stops[n].arrival
      BY <1>4, <1>5, <2>2
    <3> QED  BY <2>1, <2>2, <3>1, <3>2
  <2>5. CASE ~ (y >= stops[n].along)
    <3>1. PICK q \in 2 .. n : /\ Between(stops, q, y)
                              /\ ScheduledOffsetAt(stops, y) = Interpolated(stops, q, y)
                              /\ Interpolated(stops, q, y) \in Nat
                              /\ stops[q - 1].departure <= Interpolated(stops, q, y)
      BY <1>8, <2>3, <2>5
    <3>2. q - 1 \in 1 .. n /\ stops[q - 1].departure \in Nat /\ stops[q].along \in Nat
      BY <1>1
    <3>3. CASE p < q
      <4>1. p <= q - 1
        BY <3>3
      <4>2. stops[p].arrival <= stops[q - 1].departure
        BY <1>4, <2>2, <3>2, <4>1
      <4> QED  BY <2>1, <2>2, <3>1, <3>2, <4>2
    <3>4. CASE q < p
      <4>1. stops[q].along < x
        BY <2>1, <3>4 DEF Between
      <4>2. y <= stops[q].along
        BY <3>1 DEF Between
      <4> QED  BY <3>2, <4>1, <4>2
    <3>5. CASE p = q
      <4>1. Interpolated(stops, p, x) <= Interpolated(stops, p, y)
        BY <2>1, <3>1, <3>5, InterpolatedGrows
      <4> QED  BY <2>1, <3>1, <3>5, <4>1
    <3> QED  BY <3>3, <3>4, <3>5
  <2> QED  BY <2>4, <2>5
<1> QED  BY <1>9, <1>10, <1>11

-----------------------------------------------------------------------------
(* The date of a trip.                                                      *)

\* An instant is a day and an hour of it.
LEMMA HoursOfADay ==
    ASSUME NEW t \in Nat
    PROVE  /\ t \div 24 \in Nat /\ t % 24 \in 0 .. 23 /\ t = 24 * (t \div 24) + (t % 24)
<1>1. t \div 24 \in Nat
  OBVIOUS
<1>2. t % 24 \in 0 .. 23
  OBVIOUS
<1>3. t = 24 * (t \div 24) + (t % 24)
  OBVIOUS
<1> QED  BY <1>1, <1>2, <1>3

\* A trip is found on the date it runs on: by the cut-off if it keeps to the
\* hours after it, by the calendar if it runs before it on a date of its own.
LEMMA DatedByTheClock ==
    ASSUME NEW ix, NEW id, NEW t \in Nat, NEW d \in Int,
           FirstDeparture(ix, id) \in Nat, LastArrival(ix, id) \in Nat,
           ActiveOn(ix, id, d),
           t \in 24 * d + FirstDeparture(ix, id) .. 24 * d + LastArrival(ix, id),
           \/ /\ FirstDeparture(ix, id) >= ServiceDayCutoffHour
              /\ LastArrival(ix, id) < 24 + ServiceDayCutoffHour
           \/ LastArrival(ix, id) < ServiceDayCutoffHour /\ ~ActiveOn(ix, id, d - 1)
    PROVE  ServiceDateFor(ix, id, t) = d
<1> PICK q, r, from, to, cut \in Nat :
       /\ q = t \div 24 /\ r = t % 24 /\ r \in 0 .. 23 /\ t = 24 * q + r
       /\ from = FirstDeparture(ix, id) /\ to = LastArrival(ix, id)
       /\ cut = ServiceDayCutoffHour /\ cut \in 0 .. 23
  <2>1. t \div 24 \in Nat /\ t % 24 \in 0 .. 23 /\ t = 24 * (t \div 24) + (t % 24)
    BY HoursOfADay
  <2>2. t % 24 \in Nat
    BY <2>1
  <2>3. ServiceDayCutoffHour \in 0 .. 23 /\ ServiceDayCutoffHour \in Nat
    BY ScheduleAssumption
  <2> QED  BY <2>1, <2>2, <2>3, Zenon
<1>1. ServiceDate(t) = IF r < cut THEN q - 1 ELSE q
  BY Zenon DEF ServiceDate, CalendarDay
<1>2. 24 * d + from <= 24 * q + r /\ 24 * q + r <= 24 * d + to
  <2> PICK low, high \in Int : low = 24 * d + from /\ high = 24 * d + to
    OBVIOUS
  <2>1. t \in low .. high
    BY Zenon
  <2>2. low <= t /\ t <= high
    BY <2>1
  <2> QED  BY <2>2, Zenon
<1>3. CASE from >= cut /\ to < 24 + cut
  <2>1. (IF r < cut THEN q - 1 ELSE q) = d
    BY <1>2, <1>3
  <2>2. ServiceDate(t) = d
    BY <1>1, <2>1, Zenon
  <2> QED  BY <2>2, Zenon DEF ServiceDateFor
<1>4. CASE to < cut /\ ~ActiveOn(ix, id, d - 1)
  <2>1. (IF r < cut THEN q - 1 ELSE q) = d - 1 /\ q = d
    BY <1>2, <1>4
  <2>2. ServiceDate(t) = d - 1 /\ CalendarDay(t) = d
    BY <1>1, <2>1, Zenon DEF CalendarDay
  <2> QED  BY <1>4, <2>2, Zenon DEF ServiceDateFor
<1> QED  BY <1>3, <1>4, Zenon

\* A trip of an index comes from a trip of its feed.
LEMMA IndexedTripsArePlaced ==
    ASSUME NEW b \in Good, NEW id \in DOMAIN BuildIndex(Feed[b]).trips
    PROVE  LET trip == Feed[b].trips[id]
           IN /\ id \in DOMAIN Feed[b].trips
              /\ trip.length \in Nat /\ trip.stops \in Seq(StopTime(trip.length)) /\ trip.stops # <<>>
              /\ BuildIndex(Feed[b]).trips[id].stops = StopTimesAlong(trip.stops, trip.length)
<1>1. id \in DOMAIN Feed[b].trips /\ Indexed(Feed[b].trips[id])
  BY DEF BuildIndex
<1>2. BuildIndex(Feed[b]).trips[id].stops =
         StopTimesAlong(Feed[b].trips[id].stops, Feed[b].trips[id].length)
  BY DEF BuildIndex
<1>3. b \in Body /\ Feed[b] # NoCopy
  BY DEF Good
<1>4. /\ Feed[b].trips[id].length \in Nat \cup {NoDistance}
      /\ Feed[b].trips[id].stops \in Seq(StopTime(Feed[b].trips[id].length))
  BY <1>1, <1>3, TimetableAssumption
<1> QED  BY <1>1, <1>2, <1>4 DEF Indexed

\* What the two answers say of a date, for an index that loaded cleanly.
LEMMA RunningTripsAreDatedRight ==
    ASSUME CopyIsSound PROVE RunningTripIsDatedRight
<1> SUFFICES ASSUME server = "up", NEW t \in Instant
    PROVE  LET ix == Timetable
               regular(id) == /\ FirstDeparture(ix, id) >= ServiceDayCutoffHour
                              /\ LastArrival(ix, id) < 24 + ServiceDayCutoffHour
               early(id, d) == LastArrival(ix, id) < ServiceDayCutoffHour /\ ~ActiveOn(ix, id, d - 1)
               runs(id, d, z) == /\ ActiveOn(ix, id, d)
                                 /\ z \in 24 * d + FirstDeparture(ix, id) .. 24 * d + LastArrival(ix, id)
               opened(id, z) == {a.date : a \in TripAnswer(ix, id, z)}
           IN /\ \A id \in DOMAIN ix.trips, d \in CalendarDay(t) - 1 .. CalendarDay(t) :
                  runs(id, d, t) /\ (regular(id) \/ early(id, d)) => opened(id, t) = {d}
              /\ \A route \in Routes(ix) :
                  LET listed == RouteTripsAnswer(ix, route, t)
                  IN \A id \in listed.trips : opened(id, t) = {listed.date}
  BY Zenon DEF RunningTripIsDatedRight
<1> PICK ix : ix = Timetable
  OBVIOUS
<1>1. t \in Nat /\ CalendarDay(t) \in Nat
  BY TimetableAssumption, HoursOfADay DEF CalendarDay
<1>2. ASSUME NEW id, NEW d, ActiveOn(ix, id, d), ServiceDateFor(ix, id, t) = d
      PROVE  {a.date : a \in TripAnswer(ix, id, t)} = {d}
  BY <1>2 DEF TripAnswer
<1>3. ASSUME NEW id \in DOMAIN ix.trips
      PROVE  FirstDeparture(ix, id) \in Nat /\ LastArrival(ix, id) \in Nat
  <2> PICK b \in Good : b = index.body
    BY DEF CopyIsSound
  <2>1. ix = BuildIndex(Feed[b])
    BY DEF Timetable
  <2>2. PICK trip : /\ trip = Feed[b].trips[id]
                    /\ trip.length \in Nat /\ trip.stops \in Seq(StopTime(trip.length))
                    /\ trip.stops # <<>>
                    /\ ix.trips[id].stops = StopTimesAlong(trip.stops, trip.length)
    BY <2>1, IndexedTripsArePlaced
  <2>3. PICK stops : stops = ix.trips[id].stops /\ PlacedStops(stops)
    BY <2>2, StopsArePlaced
  <2>4. stops[1].departure \in Nat /\ stops[Len(stops)].arrival \in Nat
    BY <2>3 DEF PlacedStops
  <2> QED  BY <2>3, <2>4 DEF FirstDeparture, LastArrival
<1>4. ASSUME NEW id \in DOMAIN ix.trips, NEW d \in CalendarDay(t) - 1 .. CalendarDay(t),
             ActiveOn(ix, id, d),
             t \in 24 * d + FirstDeparture(ix, id) .. 24 * d + LastArrival(ix, id),
             \/ /\ FirstDeparture(ix, id) >= ServiceDayCutoffHour
                /\ LastArrival(ix, id) < 24 + ServiceDayCutoffHour
             \/ LastArrival(ix, id) < ServiceDayCutoffHour /\ ~ActiveOn(ix, id, d - 1)
      PROVE  {a.date : a \in TripAnswer(ix, id, t)} = {d}
  <2>1. d \in Int
    BY <1>1
  <2>2. ServiceDateFor(ix, id, t) = d
    BY <1>1, <1>3, <1>4, <2>1, DatedByTheClock
  <2> QED  BY <1>2, <1>4, <2>2
<1>5. ASSUME NEW route, NEW id \in RouteTripsAnswer(ix, route, t).trips
      PROVE  {a.date : a \in TripAnswer(ix, id, t)} = {RouteTripsAnswer(ix, route, t).date}
  <2>1. ActiveOn(ix, id, ServiceDate(t)) /\ RouteTripsAnswer(ix, route, t).date = ServiceDate(t)
    BY DEF RouteTripsAnswer, TripsOnRoute
  <2>2. ServiceDateFor(ix, id, t) = ServiceDate(t)
    BY <2>1 DEF ServiceDateFor
  <2> QED  BY <1>2, <2>1, <2>2
<1> QED  BY <1>4, <1>5, Zenon

\* The same of the schedule.
LEMMA SchedulesRunForward ==
    ASSUME CopyIsSound PROVE ScheduleRunsForward
<1> SUFFICES ASSUME server = "up", NEW id \in DOMAIN Timetable.trips
    PROVE  LET stops == Timetable.trips[id].stops
               trip == Feed[index.body].trips[id]
           IN /\ GoesForward(trip.stops) =>
                   \A x \in 1 .. trip.length :
                     ScheduledOffsetAt(stops, x - 1) <= ScheduledOffsetAt(stops, x)
              /\ trip.length > 0 => 20 * stops[Len(stops)].along <= 21 * trip.length
  BY DEF ScheduleRunsForward
<1> PICK b \in Good : b = index.body
  BY DEF CopyIsSound
<1>1. PICK trip : /\ trip = Feed[b].trips[id]
                  /\ trip.length \in Nat /\ trip.stops \in Seq(StopTime(trip.length))
                  /\ trip.stops # <<>>
                  /\ Timetable.trips[id].stops = StopTimesAlong(trip.stops, trip.length)
  BY IndexedTripsArePlaced DEF Timetable
<1>2. PICK length, stopTimes : length = trip.length /\ stopTimes = trip.stops
  OBVIOUS
<1>3. length \in Nat /\ stopTimes \in Seq(StopTime(length)) /\ stopTimes # <<>>
  BY <1>1, <1>2
<1>4. PICK stops : stops = StopTimesAlong(stopTimes, length)
  OBVIOUS
<1>5. PlacedStops(stops) /\ (length > 0 => 20 * stops[Len(stops)].along <= 21 * length)
  BY <1>3, <1>4, StopsArePlaced
<1>6. ASSUME GoesForward(stopTimes), NEW x \in 1 .. length
      PROVE  ScheduledOffsetAt(stops, x - 1) <= ScheduledOffsetAt(stops, x)
  <2>1. ForwardStops(stops)
    BY <1>3, <1>4, <1>6, SortedStopsGoForward
  <2>2. x \in Nat /\ x - 1 \in Nat /\ x - 1 < x
    BY <1>3
  <2> QED  BY <1>5, <2>1, <2>2, OffsetsGoForward
<1>7. stops = Timetable.trips[id].stops /\ trip = Feed[index.body].trips[id]
  BY <1>1, <1>2, <1>4
<1> QED  BY <1>2, <1>5, <1>6, <1>7, Zenon

\* ServiceDateFor: a trip that is under way is opened on the date it runs on, and
\* one picked from today's list on the date it was listed under, for every
\* calendar, every cut-off and every hour.
THEOREM RunningTripsAreFound == UpstreamSpec => []RunningTripIsDatedRight
<1>1. UpstreamInv => RunningTripIsDatedRight
  BY RunningTripsAreDatedRight DEF UpstreamInv, GtfsInv
<1> QED  BY <1>1, UpstreamIsSound, PTL

\* ScheduledOffsetAt: along every trip of every feed whose times go forward, a
\* place farther along is never due earlier; and no last stop lies beyond a shape
\* that has a length, but for the twentieth shapeDistScale grants.
THEOREM TimetablesRunForward == UpstreamSpec => []ScheduleRunsForward
<1>1. UpstreamInv => ScheduleRunsForward
  BY SchedulesRunForward DEF UpstreamInv, GtfsInv
<1> QED  BY <1>1, UpstreamIsSound, PTL
=============================================================================
