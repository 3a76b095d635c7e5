----------------------------- MODULE VehicleFeed -----------------------------
(***************************************************************************)
(* A report's way from a driver's phone to the GTFS-realtime feed: the      *)
(* handler that stores it and then notes it in the tracker (handlers.go),   *)
(* the tracker and its clean-up (tracker.go), the seeding of the tracker    *)
(* when the server starts (main.go), the pruner of stored points            *)
(* (retention.go), and the feed, which reads the tracker first and the      *)
(* riders' estimates afterwards, leaving out the trips the agency already   *)
(* speaks for (rider_wiring.go).                                            *)
(*                                                                          *)
(* Of the stored points only the newest of each vehicle is kept, because    *)
(* GetRecentLocations reads no other; the rides change as in RiderRides,    *)
(* so every read of them may find any of Registries; and a report that is   *)
(* refused by validation or by the rate limiter changes nothing and is not  *)
(* a step.                                                                  *)
(***************************************************************************)
EXTENDS TripEstimates

CONSTANTS Vehicle, Trip,
          NoTrip,      \* the driver named no trip
          Upload,      \* location requests in flight at a time
          NoUpload,
          Registries,  \* what the registry of rides may hold for a trip
          MaxAge,      \* STALENESS_THRESHOLD
          Retention,   \* LOCATION_RETENTION_PERIOD
          MaxDelay,    \* bound: how long one location request takes
          MaxTime      \* bound on the clock

ASSUME FeedAssumption ==
    /\ NoTrip \notin Trip
    /\ MaxAge \in Nat \ {0} /\ MaxDelay \in Nat /\ MaxTime \in Nat \ {0}
    /\ Retention \in Nat /\ Retention >= MaxAge
    /\ \A rides \in Registries :
         /\ IsFiniteSet(DOMAIN rides)
         /\ \A i \in DOMAIN rides : rides[i].along \in Nat /\ rides[i].at \in Nat

VARIABLES now,
          newest,   \* vehicle -> its stored points with the latest received_at
          tracker,  \* vehicle -> the report shown for it and when it was noted
          upload,   \* request -> the report it carries and how far it has come
          acked,    \* vehicle -> received_at of its latest acknowledged report, 0: none
          feed,     \* the feed request being built, or the message just sent
          steady    \* the trips no driver came onto or left while it was built

vars == <<now, newest, tracker, upload, acked, feed, steady>>

Time == 1 .. MaxTime
Report == [trip : Trip \cup {NoTrip}, received : Time]
Tables(S) == UNION {[D -> S] : D \in SUBSET Vehicle}   \* partial functions

-----------------------------------------------------------------------------
(* The tracker.                                                             *)

\* (Mutant: an entry that is there is kept.)
UpdatedOnce(t, v, r, at) ==
    [w \in DOMAIN t \cup {v} |->
        IF w \in DOMAIN t THEN t[w] ELSE [report |-> r, updatedAt |-> at]]

\* Update: the entry is replaced whole, whatever it held.
Updated(t, v, r, at) ==
    [w \in DOMAIN t \cup {v} |-> IF w = v THEN [report |-> r, updatedAt |-> at] ELSE t[w]]

Active(v) == now - tracker[v].updatedAt < MaxAge

ActiveVehicles == Restrict(tracker, {v \in DOMAIN tracker : Active(v)})

OnTrip(t) == {v \in DOMAIN ActiveVehicles : tracker[v].report.trip = t}

\* (Mutant: a configured trusted feed is asked alone.)
CoveredByAgency(t, external) == external

\* Lookup and Covers: a configured trusted feed is asked first, then the tracker.
Covered(t, external) == external \/ OnTrip(t) # {}

\* cleanup, on a ticker.
CleanUp ==
    /\ tracker' = Restrict(tracker, {v \in DOMAIN tracker : now - tracker[v].updatedAt <= MaxAge})
    /\ tracker' # tracker
    /\ UNCHANGED <<now, newest, upload, acked, feed>>

-----------------------------------------------------------------------------
(* handlePostLocation.                                                      *)

\* The transaction begins: received_at is the time it does.
Receive(u, v, t) ==
    /\ upload[u] = NoUpload
    /\ upload' = [upload EXCEPT ![u] =
                    [vehicle |-> v, report |-> [trip |-> t, received |-> now], stored |-> FALSE]]
    /\ UNCHANGED <<now, newest, tracker, acked, feed>>

\* The points of a vehicle with one more among them, the older ones left out.
WithPoint(points, r) ==
    LET all == points \cup {r}
    IN {p \in all : \A q \in all : q.received <= p.received}

\* SaveLocation commits.
Save(u) ==
    /\ upload[u] # NoUpload /\ ~upload[u].stored
    /\ upload' = [upload EXCEPT ![u].stored = TRUE]
    /\ newest' = [newest EXCEPT ![upload[u].vehicle] = WithPoint(@, upload[u].report)]
    /\ UNCHANGED <<now, tracker, acked, feed>>

\* SaveLocation fails, or its answer is lost: the phone is told 500.
SaveFails(u) ==
    /\ upload[u] # NoUpload /\ ~upload[u].stored
    /\ upload' = [upload EXCEPT ![u] = NoUpload]
    /\ \/ newest' = newest
       \/ newest' = [newest EXCEPT ![upload[u].vehicle] = WithPoint(@, upload[u].report)]
    /\ UNCHANGED <<now, tracker, acked, feed>>

\* (Mutant: the tracker is updated before the point is stored.)
AcknowledgeFirst(u) ==
    /\ upload[u] # NoUpload
    /\ LET v == upload[u].vehicle
           r == upload[u].report
       IN /\ tracker' = Updated(tracker, v, r, now)
          /\ acked' = [acked EXCEPT ![v] = IF r.received > @ THEN r.received ELSE @]
    /\ upload' = [upload EXCEPT ![u] = NoUpload]
    /\ UNCHANGED <<now, newest, feed>>

\* tracker.Update and the 201.
Acknowledge(u) ==
    /\ upload[u] # NoUpload /\ upload[u].stored
    /\ LET v == upload[u].vehicle
           r == upload[u].report
       IN /\ tracker' = Updated(tracker, v, r, now)
          /\ acked' = [acked EXCEPT ![v] = IF r.received > @ THEN r.received ELSE @]
    /\ upload' = [upload EXCEPT ![u] = NoUpload]
    /\ UNCHANGED <<now, newest, feed>>

-----------------------------------------------------------------------------
(* handleGetFeed, in the two reads it makes.                                *)

NoFeed == [pc |-> "idle", vehicles |-> <<>>, external |-> FALSE,
           trip |-> NoTrip, rides |-> <<>>, estimate |-> {}]

ReadVehicles ==
    /\ feed.pc = "idle"
    /\ feed' = [NoFeed EXCEPT !.pc = "half", !.vehicles = ActiveVehicles]
    /\ UNCHANGED <<now, newest, tracker, upload, acked>>

\* Estimates, and the message is built: the trips are independent of each
\* other, so one trip stands for them all.  The riders of a covered trip are
\* left out, whatever they say.
ReadEstimates ==
    /\ feed.pc = "half"
    /\ \E t \in Trip, external \in BOOLEAN, rides \in Registries :
         feed' = IF Covered(t, external)
                 THEN [feed EXCEPT !.pc = "sent", !.trip = t, !.external = external]
                 ELSE [feed EXCEPT !.pc = "sent", !.trip = t, !.rides = rides,
                                   !.estimate = Estimate(Group(rides, now), now)]
    /\ UNCHANGED <<now, newest, tracker, upload, acked>>

\* The message is out; nothing depends on it any more.
Reply ==
    /\ feed.pc = "sent"
    /\ feed' = NoFeed
    /\ UNCHANGED <<now, newest, tracker, upload, acked>>

-----------------------------------------------------------------------------
(* The server stops at any moment and starts again; the pruner; time.       *)

\* (Mutant: the seeding has no cut-off.)
RecentEver(v) == newest[v]

Recent(v) == {p \in newest[v] : now - p.received < MaxAge}

\* The tracker is seeded from GetRecentLocations, which returns one of the
\* newest points of each vehicle.  Requests under way are lost.
Restart ==
    /\ \E pick \in [{v \in Vehicle : Recent(v) # {}} -> UNION {newest[v] : v \in Vehicle}] :
         /\ \A v \in DOMAIN pick : pick[v] \in Recent(v)
         /\ tracker' = [v \in DOMAIN pick |-> [report |-> pick[v], updatedAt |-> now]]
    /\ upload' = [u \in Upload |-> NoUpload]
    /\ feed' = NoFeed
    /\ UNCHANGED <<now, newest, acked>>

\* The seeding fails: a warning, and the server starts with an empty tracker.
RestartUnseeded ==
    /\ tracker' = <<>>
    /\ upload' = [u \in Upload |-> NoUpload]
    /\ feed' = NoFeed
    /\ acked' = [v \in Vehicle |-> 0]
    /\ UNCHANGED <<now, newest>>

\* pruneAll, in batches: some of the expired points go.
Prune ==
    /\ \E v \in Vehicle : \E gone \in SUBSET {p \in newest[v] : now - p.received > Retention} :
         /\ gone # {}
         /\ newest' = [newest EXCEPT ![v] = @ \ gone]
    /\ UNCHANGED <<now, tracker, upload, acked, feed>>

Tick ==
    /\ now < MaxTime
    /\ \A u \in Upload : upload[u] # NoUpload => now - upload[u].report.received < MaxDelay
    /\ now' = now + 1
    /\ UNCHANGED <<newest, tracker, upload, acked, feed>>

-----------------------------------------------------------------------------
Init ==
    /\ now = 1
    /\ newest = [v \in Vehicle |-> {}]
    /\ tracker = <<>>
    /\ upload = [u \in Upload |-> NoUpload]
    /\ acked = [v \in Vehicle |-> 0]
    /\ feed = NoFeed
    /\ steady = {}

Step ==
    \/ \E u \in Upload :
         \/ \E v \in Vehicle, t \in Trip \cup {NoTrip} : Receive(u, v, t)
         \/ Save(u) \/ SaveFails(u) \/ Acknowledge(u)
    \/ ReadVehicles \/ ReadEstimates
    \/ CleanUp \/ Prune \/ Restart \/ RestartUnseeded \/ Tick

DriverTrips == {t \in Trip : OnTrip(t) # {}}

Watch ==
    steady' = CASE feed'.pc = "idle" -> {}
                [] feed.pc = "idle" /\ feed'.pc = "half" -> Trip
                [] OTHER -> {t \in steady : t \in DriverTrips <=> t \in DriverTrips'}

\* A message is looked at before anything else happens.
Next == (IF feed.pc = "sent" THEN Reply ELSE Step) /\ Watch

Spec == Init /\ [][Next]_vars

-----------------------------------------------------------------------------
TypeOK ==
    /\ now \in Time
    /\ newest \in [Vehicle -> SUBSET Report]
    /\ tracker \in Tables([report : Report, updatedAt : Time])
    /\ upload \in [Upload -> [vehicle : Vehicle, report : Report, stored : BOOLEAN] \cup {NoUpload}]
    /\ acked \in [Vehicle -> 0 .. MaxTime]
    /\ feed.pc \in {"idle", "half", "sent"} /\ feed.vehicles \in Tables([report : Report, updatedAt : Time])
    /\ steady \subseteq Trip

\* A driver whose report was answered 201 less than MaxAge ago is on the map,
\* across restarts, late commits and the clean-up (unless a seeding failed,
\* which only logs a warning).
RecentReportIsTracked ==
    \A v \in Vehicle :
        acked[v] # 0 /\ now - acked[v] < MaxAge => v \in DOMAIN tracker /\ Active(v)

\* Seeding stamps an old report with the time of the start, so one may be shown
\* for longer than MaxAge.  However often the server restarts, it is gone two
\* windows after it was received.
NothingOlderThanTwoWindows ==
    \A v \in DOMAIN ActiveVehicles :
        LET age == now - tracker[v].report.received
        IN age < 2 * MaxAge \/ age < MaxAge + MaxDelay

\* What the feed shows of a vehicle is in the database, itself or something
\* newer, as long as the pruner keeps it: a restart never takes the map back.
ShownIsStored ==
    \A v \in DOMAIN ActiveVehicles :
        LET r == tracker[v].report
        IN now - r.received > Retention \/ \E p \in newest[v] : p.received >= r.received

\* For a trip that no driver comes onto or leaves between the two reads, the
\* message has the driver's position or the riders', never both, and has one
\* whenever the riders can vouch for it and no other feed carries the trip.
OnePositionPerTrip ==
    feed.pc = "sent" /\ feed.trip \in steady =>
        LET driver == \E v \in DOMAIN feed.vehicles : feed.vehicles[v].report.trip = feed.trip
            riders == feed.estimate # {}
            vouched == Estimate(Group(feed.rides, now), now) # {}
        IN /\ ~(driver /\ riders)
           /\ vouched /\ ~feed.external => driver \/ riders

\* A rider position is where riders are: somebody who counts is within the
\* outlier distance of it, and those within twice that distance are credible
\* without the ones the trim dropped.
EstimateIsVouchedFor ==
    feed.pc = "sent" =>
        \A e \in feed.estimate :
            LET near(limit) == {i \in DOMAIN feed.rides :
                                  /\ Contributes(feed.rides[i], now)
                                  /\ Distance(2 * feed.rides[i].along, e.place) <= 2 * limit}
            IN /\ near(OutlierDistance) # {}
               /\ \/ \E i \in near(2 * OutlierDistance) : Publishable(feed.rides[i], now)
                  \/ \E i, j \in near(2 * OutlierDistance) :
                       /\ i # j
                       /\ Distance(feed.rides[i].along, feed.rides[j].along) <= ConsensusDistance
               /\ e.at <= now /\ now - e.at <= PointMaxAge
=============================================================================
