------------------------------ MODULE Schedule ------------------------------
(***************************************************************************)
(* The questions the server asks of an agency's timetable (rider/index.go). *)
(* A feed is its agency, its calendars and its trips; an index is what      *)
(* BuildIndex keeps of it.  A service day is a number, day d begins at hour *)
(* 24 * d, and weekday d % 7; daylight saving is left out.  Distances along *)
(* a shape are whole steps, and the result of projecting a stop onto its    *)
(* shape is given with the stop.  A trip's length is that of its shape: 0   *)
(* for points that coincide, NoDistance for no shape or a single point.     *)
(***************************************************************************)
EXTENDS Integers, Sequences, FiniteSets

CONSTANTS ServiceDayCutoffHour,   \* before this hour it is still yesterday
          ShapeDistUnits          \* steps per unit of shape_dist_traveled

ASSUME ScheduleAssumption ==
    ServiceDayCutoffHour \in 0 .. 23 /\ ShapeDistUnits \subseteq Nat \ {0}

NoDistance == -1

-----------------------------------------------------------------------------
(* Building the index.                                                      *)

\* The unit that puts the last stop furthest along without running off the
\* shape by more than a twentieth; none: the column is of no use.  On a shape of
\* no length the distances are taken as they are.
Fits(unit, last, length) == 20 * last * unit <= 21 * length

ShapeDistScale(stops, length) ==
    LET last == stops[Len(stops)].dist
        units == {u \in ShapeDistUnits : Fits(u, last, length)}
    IN IF (\E i \in DOMAIN stops : stops[i].dist = NoDistance) \/ last <= 0 THEN {}
       ELSE IF length <= 0 THEN {1}
       ELSE IF units = {} THEN {}
       ELSE {CHOOSE u \in units : \A w \in units : w <= u}

\* By sequence number; equal ones stay as they stand in the feed.
Precedes(stopTimes, j, k) ==
    \/ stopTimes[j].sequence < stopTimes[k].sequence
    \/ stopTimes[j].sequence = stopTimes[k].sequence /\ j < k

PlaceOf(stopTimes, j) == Cardinality({k \in DOMAIN stopTimes : Precedes(stopTimes, k, j)}) + 1

InSequence(stopTimes) ==
    [i \in DOMAIN stopTimes |->
        stopTimes[CHOOSE j \in DOMAIN stopTimes : PlaceOf(stopTimes, j) = i]]

\* The stops in order, each with its place: from the distances if they can be
\* used, else where it projects to, else where the stop before it is.
StopTimesAlong(stopTimes, length) ==
    LET stops == InSequence(stopTimes)
        scale == ShapeDistScale(stops, length)
        located(i) == {j \in 1 .. i : stops[j].projected # NoDistance}
        along(i) ==
            IF scale # {} THEN stops[i].dist * (CHOOSE u \in scale : TRUE)
            ELSE IF located(i) = {} THEN 0
            ELSE stops[CHOOSE j \in located(i) : \A k \in located(i) : k <= j].projected
    IN [i \in DOMAIN stops |-> [along |-> along(i), arrival |-> stops[i].arrival,
                                departure |-> stops[i].departure]]

Indexed(trip) == trip.length # NoDistance /\ trip.stops # <<>>

BuildIndex(feed) ==
    [services |-> feed.services,
     trips |-> [id \in {i \in DOMAIN feed.trips : Indexed(feed.trips[i])} |->
                  [route |-> feed.trips[id].route, service |-> feed.trips[id].service,
                   stops |-> StopTimesAlong(feed.trips[id].stops, feed.trips[id].length)]]]

-----------------------------------------------------------------------------
(* Asking it.                                                               *)

ActiveOn(ix, id, date) ==
    LET s == ix.trips[id].service
    IN /\ s \in DOMAIN ix.services
       /\ date \notin ix.services[s].removed
       /\ \/ date \in ix.services[s].added
          \/ /\ date \in ix.services[s].start .. ix.services[s].end
             /\ date % 7 \in ix.services[s].days

CalendarDay(t) == t \div 24

ServiceDate(t) ==
    IF t % 24 < ServiceDayCutoffHour THEN CalendarDay(t) - 1 ELSE CalendarDay(t)

\* (Mutant: the calendar day is offered first.)
CalendarDayFirst(ix, id, t) ==
    IF ActiveOn(ix, id, CalendarDay(t)) THEN CalendarDay(t) ELSE ServiceDate(t)

ServiceDateFor(ix, id, t) ==
    IF ActiveOn(ix, id, ServiceDate(t)) THEN ServiceDate(t)
    ELSE IF ActiveOn(ix, id, CalendarDay(t)) THEN CalendarDay(t)
    ELSE ServiceDate(t)

FirstDeparture(ix, id) == ix.trips[id].stops[1].departure
LastArrival(ix, id) == ix.trips[id].stops[Len(ix.trips[id].stops)].arrival

\* The order they are listed in, by first departure, is left out.
TripsOnRoute(ix, route, date) ==
    {id \in DOMAIN ix.trips : ix.trips[id].route = route /\ ActiveOn(ix, id, date)}

Routes(ix) == {ix.trips[id].route : id \in DOMAIN ix.trips}

\* What the catalog answers when no date is named: the trips of a route today,
\* and a trip on the date it runs on, or nothing.
RouteTripsAnswer(ix, route, t) ==
    [date |-> ServiceDate(t), trips |-> TripsOnRoute(ix, route, ServiceDate(t))]

TripAnswer(ix, id, t) ==
    LET date == ServiceDateFor(ix, id, t)
    IN IF ActiveOn(ix, id, date)
       THEN {[date |-> date, stops |-> ix.trips[id].stops]}
       ELSE {}

\* (Mutant: the proportion is taken from the start of the
\* shape and not from the stop before.)
OffsetFromStart(stops, along) ==
    LET n == Len(stops)
        next == CHOOSE i \in 2 .. n : /\ along <= stops[i].along
                                      /\ \A j \in 2 .. i - 1 : stops[j].along < along
        a == stops[next - 1]
        b == stops[next]
    IN IF along <= stops[1].along THEN stops[1].arrival
       ELSE IF along >= stops[n].along THEN stops[n].arrival
       ELSE IF b.along <= a.along THEN a.departure
       ELSE a.departure + (along * (b.arrival - a.departure)) \div (b.along - a.along)

\* When the trip is due at a place: between two stops, in proportion.
ScheduledOffsetAt(stops, along) ==
    LET n == Len(stops)
        next == CHOOSE i \in 2 .. n : /\ along <= stops[i].along
                                      /\ \A j \in 2 .. i - 1 : stops[j].along < along
        a == stops[next - 1]
        b == stops[next]
    IN IF along <= stops[1].along THEN stops[1].arrival
       ELSE IF along >= stops[n].along THEN stops[n].arrival
       ELSE IF b.along <= a.along THEN a.departure
       ELSE a.departure + ((along - a.along) * (b.arrival - a.departure)) \div (b.along - a.along)
=============================================================================
