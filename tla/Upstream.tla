------------------------------ MODULE Upstream ------------------------------
(***************************************************************************)
(* What the server fetches from the agency: the timetable and the trusted   *)
(* feeds.  The two loops share neither state nor locks, so a run of both is *)
(* for each of them a run of it alone; focus says which one is looked at.   *)
(***************************************************************************)
EXTENDS GtfsRuntime, TrustedFeeds

CONSTANTS Working,    \* the trusted feeds that can be reached now and then
          Instant     \* the hours at which the timetable is asked

StopTime(length) ==
    [sequence : Nat, dist : Nat \cup {NoDistance}, projected : (0 .. length) \cup {NoDistance},
     arrival : Nat, departure : Nat]

\* What a zip that loads holds of a trip.
ASSUME TimetableAssumption ==
    /\ Instant \subseteq Nat
    /\ \A b \in Body : Feed[b] # NoCopy =>
         \A id \in DOMAIN Feed[b].trips :
            LET trip == Feed[b].trips[id]
            IN /\ trip.length \in Nat \cup {NoDistance}
               /\ trip.stops \in Seq(StopTime(trip.length))

VARIABLE focus

upstreamVars == <<gtfsVars, trustedVars, focus>>

UpstreamInit ==
    /\ focus \in {"gtfs", "trusted"}
    /\ GtfsInit /\ TrustedInit
    /\ focus = "trusted" => published = [s \in Source |-> Down] /\ source = CHOOSE s \in Source : TRUE

UpstreamNext ==
    \/ focus = "gtfs" /\ GtfsNext /\ UNCHANGED <<trustedVars, focus>>
    \/ focus = "trusted" /\ TrustedNext /\ UNCHANGED <<gtfsVars, focus>>

UpstreamSpec == UpstreamInit /\ [][UpstreamNext]_upstreamVars

FairSpec ==
    /\ UpstreamSpec
    /\ focus = "gtfs" => GtfsFairness
    /\ focus = "trusted" => TrustedFairness(Working)

-----------------------------------------------------------------------------
UpstreamTypeOK ==
    /\ GtfsTypeOK
    /\ clock \in 1 .. TrustedMaxTime
    /\ version \in [Feeds -> Nat \ {0}] /\ \A i \in Feeds : version[i] <= Len(Contents[i])
    /\ state \in [Feeds -> [etag : Nat, vehicles : TripTable]]
    /\ poll \in [Feeds -> Polling]

\* A trip that is under way is opened on the date it runs on, if it keeps to
\* the hours after the cut-off, or runs before it on a date whose eve it does
\* not serve; and a trip opened from today's list is opened on the date it was
\* listed under.
RunningTripIsDatedRight ==
    server = "up" =>
        LET ix == Timetable
            regular(id) == /\ FirstDeparture(ix, id) >= ServiceDayCutoffHour
                           /\ LastArrival(ix, id) < 24 + ServiceDayCutoffHour
            early(id, d) == LastArrival(ix, id) < ServiceDayCutoffHour /\ ~ActiveOn(ix, id, d - 1)
            runs(id, d, t) == /\ ActiveOn(ix, id, d)
                              /\ t \in 24 * d + FirstDeparture(ix, id) .. 24 * d + LastArrival(ix, id)
            opened(id, t) == {a.date : a \in TripAnswer(ix, id, t)}
        IN \A t \in Instant :
             /\ \A id \in DOMAIN ix.trips, d \in CalendarDay(t) - 1 .. CalendarDay(t) :
                  runs(id, d, t) /\ (regular(id) \/ early(id, d)) => opened(id, t) = {d}
             /\ \A route \in Routes(ix) :
                  LET listed == RouteTripsAnswer(ix, route, t)
                  IN \A id \in listed.trips : opened(id, t) = {listed.date}

\* Times that go forward along a trip, as GTFS asks of an agency; the code
\* does not check it.
GoesForward(stopTimes) ==
    \A j \in DOMAIN stopTimes :
        /\ stopTimes[j].arrival <= stopTimes[j].departure
        /\ \A k \in DOMAIN stopTimes :
             Precedes(stopTimes, j, k) => stopTimes[j].departure <= stopTimes[k].arrival

\* If the times of a trip go forward, a step farther along it is never scheduled
\* earlier, even where its stops do not lie in order along the shape; and the
\* last stop of any trip does not lie beyond the shape's end (by more than the
\* twentieth that is granted to the units), unless all the shape's points
\* coincide: there shapeDistScale keeps the distances as they are.
ScheduleRunsForward ==
    server = "up" =>
        \A id \in DOMAIN Timetable.trips :
            LET stops == Timetable.trips[id].stops
                trip == Feed[index.body].trips[id]
            IN /\ GoesForward(trip.stops) =>
                    \A x \in 1 .. trip.length :
                      ScheduledOffsetAt(stops, x - 1) <= ScheduledOffsetAt(stops, x)
               /\ trip.length > 0 => 20 * stops[Len(stops)].along <= 21 * trip.length

\* A feed that is reachable now and then is caught up with, though another
\* fails for ever.
WorkingFeedCatchesUp ==
    focus = "trusted" =>
        \A i \in Working : <>[](state[i].vehicles = Published(i))
=============================================================================
