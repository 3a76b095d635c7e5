# A TLA+ verification of vehicle-positions

`vehicle-positions` is a Go server that collects positions of transit vehicles
from drivers' phones and from riders' phones and publishes them as a
GTFS-realtime feed. Drivers and administrators have accounts; riders are
anonymous installations with a reputation. This directory models the parts of
the server whose correctness depends on interleavings, failures and long
histories, checks them with TLC, and proves the most important properties with
TLAPS. Paths below are relative to the repository, without `src/`.

## 1. The system

| Component | Files | State it keeps | Operations | Talks to |
|---|---|---|---|---|
| Sessions and refresh tokens | `auth.go`, `auth_refresh.go`, `store_refresh_tokens.go`, `store_revocation.go`, `refresh_retention.go` | tables `refresh_tokens`, `revoked_tokens`; access tokens at the clients | login, refresh, logout, prune | users; both driver apps |
| Users and administration | `user_store.go`, `user_handlers.go`, `admin_session.go`, `bootstrap.go` | table `users` | create, update, password, activate, deactivate, delete, bootstrap | refresh tokens (revoked in the same transaction) |
| Rider engine: session | `rider/session.go`, `rider/verify.go`, `rider/reputation.go` | one `Session` per ride: state, streaks, counts | `Apply`, `End`, `SetTier`, `Summary` | registry |
| Rider engine: registry | `rider/aggregator.go` | maps `sessions`, `byRider` under one mutex | `Add`, `ApplyBatch`, `End`, `Remove`, `SetTier`, `Reap`, estimates | trusted feeds, rider API |
| Rider API, store, runtime | `rider_handlers.go`, `rider_store.go`, `rider_wiring.go` | tables `riders`, `rides`, `ride_points`; 64 start locks; reaper and retention goroutines | register, start, positions, end, status, sweep | registry, database |
| Trusted feeds | `rider/trusted.go` | per-feed table of vehicles, ETag | poll, `Lookup`, `Covers` | agencies' feeds |
| GTFS runtime | `rider/loader.go`, `rider/index.go`, `gtfs_wiring.go`, `store_gtfs_cache.go` | an atomic pointer to an immutable index; a one-row cache table | load, refresh, fall back | rider API |
| Tracker | `tracker.go` | map of vehicles under a lock | `Update`, `ActiveVehicles`, `VehicleOnTrip`, clean-up | ingest, feed |
| Ingest and feed | `handlers.go` | none of its own | upload a position, build the feed | tracker, database, registry |
| Trips and assignments | `store_trips.go`, `trip_handlers.go`, `assignment_*.go` | tables `trips`, `user_vehicles` | start, end, assign, unassign | users, vehicles |
| Vehicles | `*_vehicles.go` | table `vehicles` | create, update | trips |
| API keys | `api_key*.go` | table `api_keys`; keys validated lately | create, deactivate, check | feed |
| Rate limiters | `ratelimit*.go` | windows and buckets by key, under locks | `Allow`, clean-up | login, refresh, ingest, riders |
| Retention, history | `retention*.go`, `location_history_*.go` | table of locations | batched delete, queries | |
| Admin web interface | `admin_*.go`, `map_handlers.go`, `web/` | a session cookie | pages, sign-in, sign-out | all of the above |
| Driver apps | `android/`, `ios/VehicleTracker` | stored tokens, the active trip | sign in, refresh, report, end | server |
| iOS rider kit | `ios/VehiclePositionsKit` | credentials, one ride, a buffer of samples | start, report, end | rider API |

What is hard, and where: handlers make several store calls with anything in
between (`handleRefreshToken`, `handleLogout`, `handleStartRide`,
`handlePositions`, `finishRide`, `userUpdate`); a ride exists twice, as a session
in memory and as a row, and a vehicle as an entry of the tracker and as stored
points, each pair kept in step without a common lock; a commit may succeed
without its reply; a restart loses memory and keeps rows; loops retry what
requests or downloads left undone; points and batches arrive out of order; caches
outlive what they were copied from; and row locks of the database order
transactions that could deadlock. `PROJECT.json` lists each such place under
`hazards`.

For each component, what makes it correct:

* sessions: one exchangeable token per session; what was revoked stays revoked;
  nobody inactive renews; a logout cannot be undone;
* accounts: once there is an administrator, one remains who can sign in;
* rider engine: a session's counters say what its history says; rejections are
  final; only recent matches are published; an estimate is where riders are;
* rider API: one live ride per rider; every ride is filed once, whole, and in the
  end; a rider's tier reaches the ride in flight;
* tracker and feed: an acknowledged report is on the map, nothing stays there for
  ever, what is shown is stored, and a trip has the driver's position or the
  riders', not both;
* trusted feeds: a failing feed hides no other, and a working one is caught up with;
* timetable: only a sound one of the configured source is in force, and in the end
  the one published now; a running trip is opened on the date it runs on;
* trips: at most one active trip per driver; an open trip is always known to a
  phone that can end it, and never in the way of its driver's next start;
* limiters and API keys: cleaning up changes no answer, correct logins do not lock
  each other out, a revoked key runs out however the database fails;
* driver apps: requests that share one refresh never present a spent token, and
  stay in the session of the last sign-in.

## 2. Modules

    Sessions <--(refines)-- RefreshTokens <-- MCRefreshTokens
                                 ^----------- RefreshTokensProofs
    TokenTable <--(refines)-- TokenLock <-- MCTokenLock
                                 ^----------- TokenLockProofs
    RideSession <-- RideSessionLog
    RiderRides, RideSessionLog <-- RiderEngine <-- RiderRidesProofs
    RiderRides <-- MCRiderRides;  RiderEngine, MCRiderRides <-- MCRiderEngine
    Trips <-- TripsProofs
      ^------ AndroidTrips <-- MCAndroidTrips
      ^------ IosTrips <------ IosApp <-- MCIosTrips
              TokenRefresher <---'
    AndroidTrips, TripsProofs <-- AndroidTripsProofs
    IosApp, TripsProofs <-------- IosAppProofs
    TripEstimates <-- VehicleFeed <-- MCVehicleFeed
    Schedule <-- GtfsRuntime <-- Upstream <-- MCUpstream
                 TrustedFeeds <----'
    VehicleFeed, Upstream <-- FeedsProofs
    AdminAccounts, ApiKeys, RateLimits <-- Access <-- MCAccess, AccessProofs

An arrow points from a module to the one it extends or, where it says so, refines. The
modules with `Proofs` in their names hold theorems (section 5), the `MC` modules
instances (section 3).

**Sessions** is the abstract promise: a login opens a session, one credential
renews it, renewing replaces that credential by a fresh one, and sessions close
for good.

**RefreshTokens** is the code. The tables are `users`, `active`, `row`, `owner`,
`expired` and `revoked`; `req` holds each request between two store calls. A
token identifier stands for a row of `refresh_tokens` and the access token handed
out with it. `LoginRead`/`LoginInsert` are `handleLogin`; `RefreshReadSpent`,
`RefreshReadUsable`, `RefreshGetUser`, `RefreshRotate`, `RefreshLoses` and
`RefreshRevoke` are `handleRefreshToken`; `LogoutStart`, `LogoutDelete` and
`LogoutRevoke` are `requireAuth` and `handleLogout`; `Abort` is any error, hang-up
or crash. `session`, `ended`, `loggedOut` are history and guard nothing.
Access tokens do not expire here, which only allows more logouts than there are.

**TokenLock** opens up what RefreshTokens takes for one step: the statements of
the five kinds of transaction on one user's tokens, with PostgreSQL's row locks.
Its assumptions about the database are at its head. **TokenTable** is the same
transactions, atomic. Together with RefreshTokens this justifies one step per
store call.

**RiderRides** is the life of a ride. `row` and `rider` are the tables, `session`
and `byRider` the registry, `lock` the rider's stripe, and `req` the handlers and
the reaper between critical sections. `finishRide` is the chain `FinishEnd`,
`FinishStore` (or `FinishNotFound`, `FinishFails`), `FinishRemove`, `FinishTier`,
with `kind` saying who called it. What a batch does to a session is any change
`RideSession` allows (`Folded`): counts of batches instead of points, one
rejection reason of each penalty, and "scored" for corroborated long enough;
section 5 proves that it leaves out nothing a session can do.
`Restart` is a crash followed by `newRiderRuntime`; `SiblingStarts` is the same
sweep run by another instance.

**RideSession** is `Session.Apply` with time in ticks: which points are ignored
(`ignoreReason`), the streaks, the rejection and its reason, publication and
score. Distance, speed and schedule are a free choice of outcome. **RideSessionLog**
adds a log of all verdicts and defines state, reason and order from the log alone.
**RiderEngine** puts it beside RiderRides: no session sees another, and what a batch
does to one is a free choice there, so `focus` picks one half for each behaviour.

**Trips** is the server's side of a driver's trip: `StartTrip` statement by
statement (`CheckAssignment`, `CheckActive`, `InsertTrip`, `InsertConflict`),
`EndTrip`, and the administrators' assignments. `req` holds the calls in flight;
a call goes on when its caller has given up, and its answer may be lost after the
commit. Nothing else closes a trip. `lost` is history.

**AndroidTrips** and **IosTrips** extend it with phones that drivers share.
In AndroidTrips, `active` and `ends` are what `TripStateStore` keeps, and `op` is
the one call a view model waits for: `StartRun` (with the ends it must send
first), `SendUnconfirmedEnd`, `SendStartTrip`, `End` and their replies;
`EndLocally`; `GiveUp` for a timeout, a screen left or a crash. In IosTrips,
`phase` and `stored` are `TripSession.phase` and its file, and `wait` holds the
task behind each await, which on that actor may resume after `endLocally` or a
new start; `Relaunch` is a crash and the next `init`. Ends and adopted trips are
filed under drivers, so both keep the driver of every record. `disowned` and
`letGo` are history. The app never lets a driver begin a second start, or sign in
during one, so neither does the model; who signs in, and when, is free.

**TokenRefresher** is how the iOS app stays signed in. The server is reduced to
what RefreshTokens shows of it: `minted`, `live` and `spent` are its tokens, and
`Redeem` is `handleRefreshToken`. `store` is the keychain, `trade` the refresher's
`inFlight` task, `call` the requests of the app between two awaits: `Send`,
`Performed`, `BeforeExpiry`, `AfterUnauthorized` and `GoOn` (what follows
`task.value`). The refresher is an actor, but the keychain is not isolated:
`TripSession` writes it on the main actor (`SaveSignIn`, `ForgetTokens`) whatever
the refresher is at. So where the refresher looks before it writes, the look and
the write are two steps: `TradeChecks`, then `TradeSaves` or `TradeClears` (`save`);
`GoOn`, then `Drop` (`dropRefreshToken`). Only its own methods wait for each other
(`ActorFree`). `BeforeExpiry` and `AfterUnauthorized` write nothing, so their one
look is one step. `TradeEnds` is a trade with nothing to write. `LoseTrade` and
`stray` are replies and requests that get lost or come late, and `LaunchAgain` is a
crash. `doubtful` (tokens that were presented without the app keeping what came of
it), `accused`, `signedInAs` and `overtaken` (the last sign-in or sign-out fell
between a look and its write) are history. An access token is assumed to outlive
the sign-in that brings it and a refresh that was under way when it was saved:
minutes against the duration of one request. **IosApp** puts it beside IosTrips; the two share nothing
but the bearer token, so `focus` picks one of them for each behaviour and a run of
both is no larger than the two runs.

**VehicleFeed** follows a report from the phone to the feed. `newest` is what
`GetRecentLocations` can see of the stored points, `tracker` the map in memory,
`upload` the handler between its transaction and `tracker.Update`; `feed` is
`handleGetFeed` between its two reads. `Restart` seeds the tracker as `main` does,
stamping old points with the time of the start; `Prune` is one batch of the
pruner. `acked` and `steady` are history. **TripEstimates** holds the operators of
`aggregator.go` that turn a trip's riders into one position.

**Schedule** holds the operators of `rider/index.go`: what an index keeps of a
feed, calendars, service dates, the placing of stops and the schedule along a
trip. `InSequence` is the stable sort of `stopTimesAlong`, said without sorting: a
stop time goes to the place that follows those that precede it. Trips of a route are
a set, as the order in which they are listed is left out. **GtfsRuntime** is where the index in force comes from: `Fetch`,
`IndexBody`, `SaveFeed`, `Swap` are one load, at start-up or on the ticker;
`StartOnCopy` is `loadCachedGTFS`. **TrustedFeeds** is the poller with its
validators and its look-up. **Upstream** puts the two loops side by side, again
with a `focus`.

**AdminAccounts** is the pages' sign-in, the last-admin guard in its three store
calls (`ReadUser`, `CountAdmins`, `WriteUser`), the API, which has none, and
`bootstrapAdmin` on several instances. **ApiKeys** is the gate of the feed, from
the look-up to noting its result. **RateLimits** is both limiters; `ideal` and
`tally` are history that says what they are for. **Access** puts them side by side.

Operators marked "(Mutant: ...)" are variants with a plausible mistake. Nothing
uses them; each shows that a property notices the mistake (`mutants` in
`PROJECT.json`).

## 3. Runs

| Run | Instance | What it shows |
|---|---|---|
| `refresh_tokens` | 1 user, 3 tokens, 2 requests | the safety of sessions, and that RefreshTokens implements Sessions |
| `token_lock` | 3 transactions, 4 tokens, 2 of them expired | transactions are atomic at their commit, and those that take the user lock do not deadlock |
| `rider_engine` | 1 rider, 2 rides, 2 requests, reaper, 1 batch a ride; 1 session, streaks of 2 and 3, 6 ticks | one live ride, scored once, never dropped; counters against the log |
| `rider_batches` | 1 ride, 2 requests, reaper, 3 batches | concurrent batches, ends against rejections, and rides filed in the end |
| `rider_blocked` | 2 rides, 2 requests | finding 1 |
| `android_trips` | 2 drivers, 1 phone, 2 trips, 2 calls in flight | one active trip per driver; open trips stay known to the phone; their ends come before the next start |
| `android_404` | 2 drivers, 1 phone, 1 trip | finding 2 |
| `ios_trips` | 2 drivers, 1 phone, 2 trips, 2 calls; 2 requests, 3 token pairs, 1 stray | trips are stored, torn down only when over, never forgotten; requests that share one refresh stay signed in |
| `ios_signin` | as `ios_trips` | finding 3 |
| `vehicle_feed` | 1 vehicle, 2 uploads, groups of 1 to 3 riders, 5 ticks | from upload to feed, with clean-up, pruner, lost commits and restarts |
| `upstream` | 2 sources, 4 zips, 2 trusted feeds, 3 ticks | timetables and trusted feeds under failing downloads and restarts |
| `access` | 2 accounts, 2 page requests, 2 instances; 2 keys; 2 drivers or riders; 2 addresses, 3 logins | an administrator remains, a revoked key runs out, limits hit whom they are meant for |

**Bounds.** Requests act on one user's rows and lock only that user, so one user
is the interesting case, and the theorems cover any number. Three tokens let a
session rotate twice, or a session rotate while a second one opens; two requests
are a race, and the administrator and the pruner act besides. Two rides are one
that ends and one that supersedes it; a rejection for contradiction costs three
points at once, so one ride is enough to block a rider. `MaxBatches` bounds
accepted batches of a ride: three let two writes commit in the wrong order and a
third follow. In RideSession the thresholds are scaled down (the code has 3, 5, 3
and 12) so that a run of each kind fits; `MaxTime` bounds the clock and the number
of points. Two trips are one whose end is still on its way and the one after it;
two calls in flight let a late reply of the first meet the second; two drivers
share a phone.

In TokenRefresher, `MaxPairs` bounds the token pairs handed out: three are two
renewals, or one beside two sign-ins; `MaxStrays` bounds the requests that are
still on their way after the app gave up, and two callers are one that starts a
refresh and one that joins it. In VehicleFeed an upload takes at most `MaxDelay`
ticks (a request has a time-out), and five ticks fit a window of two, a restart and
a second window; vehicles do not touch each other, and two uploads of one can
commit in either order. Its riders lie on a line in steps of 50 m. In Upstream one
source publishes a good zip, its successor and one that does not index, the other
source one; the trips are one by day, one past midnight, one before the cut-off
hour, one without stops, one without a shape and one on a shape of no length, asked
for at each hour that matters over eight days;
one trusted feed sends no validator and may be out of reach for ever. In Access the
tables have room for one, so that a second key meets a full table, and
`MaxCount` bounds the attempts counted in a window: one beyond the limit. Bursts,
windows and the grace of an API key are two ticks. `MaxClock`, `MaxKeyTime` and
`MaxTime` let each of them pass twice.

Users, tokens, rides, requests and transactions are only compared, so the safety
runs permute them; runs with liveness do not use symmetry. Deadlock checking is
off where an instance runs out of tokens, rides, trips or ticks.

**Fairness.** In `RiderRides!FairSpec` (`rider_batches`) a goroutine that was
admitted continues (`WF` of `Continue`); the reaper's ticker fires and its sweep
proceeds (`WF` of `Reap` and `Sweep`), as `TickUntilDone` runs for the life of the
process; and a write the reaper keeps trying does not fail for ever (`SF` of the
filing that succeeds; `WF` would not do since it alternates with the sweep).
Clients owe nothing: no request has to arrive. Without fairness for the store the
property is false, as it should be. In `Upstream!FairSpec` both tickers keep
ticking: the steps of a load that has begun are taken (`WF`), and a download that
is possible again and again succeeds in the end (`SF` of `Fetch`); every poll and
every request to a trusted feed ends, if only by its time-out (`WF`), and the feeds
of `Working` answer in the end (`SF` of `Answer`). The server is not assumed to stay
up, nor the agency to stop publishing: `IndexCatchesUp` has both as premises.

## 4. Findings

1. `BlockedRiderIsNeverPublished`. A start reads the tier before an earlier ride is
   filed and registers the session after `SetTier`: a blocked rider is published
   until that ride ends (`rider/session.go:298`).
2. `DroppedTripIsOver`. Android: another driver signs in over a running trip and
   ends it; the 404 (the trip is not theirs) is taken for a confirmation, the record
   is cleared, and the trip stays open with nobody to end it. The comment in
   `TripStateStore.kt:43` explains this very case for the ends kept on the phone.
3. `NewerSessionIsKept`. iOS: `save` compares the stored refresh token and then
   writes, on the refresher's actor, while the main actor stores a sign-in or clears
   at a sign-out. A sign-out that falls between the two calls is undone, and a sign-in
   overwritten (`TokenRefresher.swift:141`), where the comment above them says the
   newer session is kept. `dropRefreshToken` has the same window (line 153): it may
   put the older access token back over a new sign-in.

Met while modelling, and not stated as properties. Reached by the models:

* A login that checked the old password (or the old active flag) stores its token
  after the change (`auth.go:166`), and the session survives it, where
  `README.md:57` says nothing can be renewed.
* `ScoreDelta` does not ask for `Verified`: with the code's numbers, match, match,
  off-route six times over is corroborated twelve times, pending, and worth a point,
  where the comment at `rider/reputation.go:46` says such a ride moves nothing.
* `RotateRefreshToken` also reports false for a row that was deleted, and the
  handler then revokes sessions opened since (`auth_refresh.go:194`).
* An `INSERT` of a ride or of a trip whose reply is lost leaves an active row nobody
  owns, and every later start gets 409: for rides until the next restart
  (`rider_handlers.go:448`), for trips for ever, as nothing else closes one. The
  operator's manual (`docs/operator-manual.md:468`) counts on the app to remember it.
* iOS: after a lost reply the retried end is answered 404, which `end()` treats like
  an unreachable server; and `endLocally()` counts on the server to reap the trip
  (`TripSession.swift:319`), where no code does.
* Seeding stamps stored points with the time of the start, so a vehicle may stay on
  the map for almost twice `STALENESS_THRESHOLD` after its last report, where
  `docs/configuration.md:62` has it once; `NothingOlderThanTwoWindows` is what holds.
* Of a shape whose points all coincide, `shapeDistScale` keeps the distances of the
  feed as they are (`rider/index.go:487`), so the last stop lies beyond the shape's
  end; `ScheduleRunsForward` bounds it on shapes that have a length.
* The feed reads the tracker and then the riders, so a driver who leaves a trip in
  between is shown beside its riders' estimate, which the comment at
  `rider_wiring.go:253` rules out; `OnePositionPerTrip` is about trips no driver
  comes onto or leaves meanwhile.
* The tracker shows the report whose update came last, which need not be the most
  recent one (`README.md:915`): two uploads of one vehicle may overtake each other.
* The JSON API demotes and deletes without the pages' guard, and two page requests
  may pass it together (the comment there accepts that); `bootstrapAdmin` is skipped
  if the address exists, even as a driver's. `AnAdminRemains` excludes these
  (`guarded`) and checks what is left.
* A login's charge is handed back to whatever window is open by then, and an
  address that is refused is charged on, as `BudgetIsForFailures` allows.
* `validatedAPIKeys` keeps the entry of a revoked key that nobody presents again:
  harmless, since it is read only within the grace.

Outside them:

* Android's refresher (`data/api/TokenRefresher.kt:132`) saves the renewed pair over
  whatever is stored, and drops the refresh token without looking which it is. A
  sign-in or sign-out while a refresh is out is overwritten, whenever it comes; this is
  the mutant `KeepsAny` of TokenRefresher. On iOS only the window of finding 3 is left.
* iOS: a request with a new sign-in's token that expired and joined the refusal of
  an older trade would drop the new refresh token; the assumption on the lifetime of
  access tokens excludes it.
* `handleTripStatus` (`rider_handlers.go:698`) takes `ServiceDate`, not
  `ServiceDateFor`, when no date is given, as `openapi.yaml:561` documents: a trip
  that begins before the cut-off hour on its own date is then looked up under the
  day before.

## 5. Proofs

Each proof module is about one model, for every value of its constants that its
assumptions allow: any number of users, tokens, rides, phones, vehicles, requests
and transactions, any limit, age or retention. The assumptions say that the null
value is not one of the identifiers, and besides:

* RiderRides: finitely many rides (identifiers of 128 bits), so that a rider's
  filed rides can be counted; `Reaper` is not a request.
* ApiKeys: the grace and the length of a look-up are numbers, the grace not 0.
* RateLimits: the time after which an unused bucket is dropped fills it (`Full <=
  Idle`): a minute in `ratelimit.go:96`, where the slowest of the three limiters
  fills in 30 s (`rider_handlers.go:42`).
* VehicleFeed: points are kept at least as long as they are shown (the server does
  not compare the two settings; with a shorter `LOCATION_RETENTION_PERIOD` a restart
  would find nothing to show of a vehicle that was on the map), and of a trip there
  are finitely many rides, placed and dated by natural numbers.
* RideSession: the streaks and the count of corroborations are not 0, the windows
  and ages are numbers; in the code all are constants.
* Upstream: finitely many trusted feeds, as they are configured; every zip that loads
  gives its trips natural numbers for sequences, hours and distances (a distance, a
  projection or the shape may be missing, the shape may have length 0, and a
  projection lies on the shape); the cut-off is
  one of the 24 hours. Nothing is asked of the order of stops, times or distances.
  That GTFS wants times to go forward along a trip, which the code does not check,
  is a premise of `ScheduleRunsForward` itself.

None of the safety properties is inductive. What had to be added is mostly what a
request knows between two of its steps, and why it is still true when it goes on.

**RefreshTokensProofs.** `IInv` adds: a token that was minted has an owner and
descends from a minted token of the same owner, a free one is held, revoked or
ended by nobody (`RowsOK`; otherwise revoking a user's tokens could miss some); a
request that carries a token carries a minted one and its owner's name
(`RequestsOK`); between the two halves of a logout no stored row is left in the
token's session (`LogoutsOK`); a rotation whose token is still unused has an active
owner (`RotationsOK`), which is why a flag read one call earlier is good enough:
deactivation and deletion take the token away, and it never comes back.
`Refinement` maps the rows to `Current`, the one unused token of each session;
`OneLiveToken` is what makes that choice unique.

**TokenLockProofs.** `LockInv` says, statement by statement, what a transaction
has locked, read and written (`TxOK`), that locks exclude (`Exclusive`) and that a
row is locked by who changed it (`RowsLocked`). `TransactionsAreAtomic` is the
refinement of TokenTable: until its commit a transaction has changed nothing that is
committed, and at the commit what it has seen under the lock of the user's row is
still all there is. `RotationsDoNotDeadlock`: in a set of waiting transactions the
one that holds the user's row `FOR UPDATE` waits for nobody in the set, and a login
that holds it `FOR KEY SHARE` has only its commit left; if none holds it, no two of
them wait for each other (the pruner, which does not lock it, is not of the set).

**RiderRidesProofs.** `WorldOK` relates the row, the session and the rider's entry
of every ride; `Knows` says of each handler what it may rely on: a start holds its
rider's stripe and nothing of that rider is live (`KnowsStripe`), a summary about to
be filed is the session's last unless the row has ended already (`KnowsOutcome`), a
ride just inserted is unknown to all others (`NewRidesAreUnknown`). One live ride
per rider, one score per ride, whole rows and filed rejections follow, and
`NothingIsDropped`, an action property. The number of filed rides of a rider goes
up by one because filing adds one ride to a finite set.

Its second half is about the session of one ride. `SessionInv` relates the fields
`Session` keeps to the log of every verdict: its timestamps rise and the clocks are
those of its points (`ClockOK`); the streaks are the lengths of its last runs, and
`contradictions` counts the contradicted points that nothing corroborated since
(`StreaksOK`); no point before the last one justified a rejection, and the last one
did exactly if the ride is rejected (`StateOK`). A verdict changes nothing that the
log showed before it (`EarlierStands`), so one step of the counters suffices and no
induction over the log. `RejectionIsJust` also needs that the scan of
`dominantOutcome` ends with the most frequent outcome, the last seen of several:
the scan is a recursive function over a finite run, shown by the last position at
which the claim could fail (`DominantDominates`). `SessionsStepAsTheRegistrySays`
ties the halves together: an accepted point does to a session what `Folded` says of
a batch of one, several points of a batch amount to one such change
(`PointsOfABatchAreOneChange`), and whatever else happens to a session is an end
(`EndedSession`), another tier, or nothing the registry keeps. `EngineRunsBoth` carries
the theorems of both halves over to RiderEngine.

**TripsProofs**, for both apps: what a step of `StartTrip` or `EndTrip` may do to a
row (`RowsGrow`), and that a reply in flight names a trip of its caller (`CallOK`).
**AndroidTripsProofs** adds that the phones' records are true (`RecordsTrue`), that a
start's list is exactly what is stored for its driver (`OpOK`) and what the awaited
call is about (`AwaitedOK`). **IosAppProofs** adds that phase and file agree while
a trip is tracked, that a record left in the file otherwise is of a trip that is over
or let go (`PhoneOK`), and what stands behind each await (`WaitOK`); only one start
or its undoing is awaited at a time (`OneStart`). `AppRunsTrips` carries its theorems
over to the whole app. The other half of that app has an invariant of its own,
`TokensInv`: a session has at most one unused token, and none once one of its tokens
is neither unused nor remembered as used (`SessionsOK`); whatever token the keychain,
a trade or a request given up on holds is unused, dead, or known to have been
presented before (`TradeOK`, `StoreOK`, `StraysOK`); and who waits after a 401 waits
for the trade of the very token it would drop (`WaiterOK`), because the access token
in the keychain does not run out while an older trade is under way. So a refusal that
drops the refresh token is of a session that is over. One at a time is between its look
and its write (`ActorOK`), and what it is about to write, by then perhaps over a newer
sign-in, is a pair just issued, or an access token whose session is over: either way
the session that is stored then can be renewed while the server keeps it.
`AppStaysSignedIn` follows.

**FeedsProofs.** Of the vehicle feed, `StateInv`: an entry of the map was noted at most a window, or
the length of an upload, after its report was received; what is shown and what was
acknowledged has a stored point at least as new, while retention lasts. The
transaction of an upload may fall between any of these. `FeedInv`: while the feed is
half read, of a trip that no driver came onto or left it has what the tracker has
now. `EstimateIsVouchedFor` needs the median of a group of any size:
`KthIsSomebodys` shows that the k-th smallest position is some rider's, through the
least number of riders beyond it (numbers are well ordered), not by induction.

Of the loader and the trusted feeds, `UpstreamInv`: while a load is under way the
server runs and the zip in hand is of its source, and what has passed `IndexBody`
indexes (`LoadInv`), which is what makes `Swap`, `SaveFeed` and the fallback of
`StartOnCopy` sound; and a table goes with the validator it was sent with, already
while the answer is in flight (`TagsOK`), which is why "not modified" may leave a
feed alone. The rest needs no state. `RunningTripsAreFound` is arithmetic of days and
hours, for any calendar. `TimetablesRunForward` has three parts: the places that
`InSequence` gives stop times are distinct numbers up to their count, so each is taken
once (`EveryPlaceIsTaken`) and times that go forward in the feed do so in the index;
a place between two stops lies on the first stretch that reaches it, even where stops
are not in order along the shape (`StretchExists`), so a farther place never lies on an
earlier stretch; and the proportion is a quotient, which follows its numerator and
stays within the stretch (`QuotientGrows`, `QuotientOfShare`).

**AccessProofs.** The four parts share no state, so each has its own invariant.
`KeysInv`: a look-up found what was so when it began, so a key is noted at most one
look-up after it was revoked. `AccountsInv`: a request that is about to demote or
deactivate leaves another administrator, unless the table has changed meanwhile.
`BucketsInv`: a bucket and the one that was never dropped hold the same, or
the limiter's holds more where it fails open. `LoginsInv` counts: what stands
against an address is what it has under way plus what it spent, up to refunds that
came late; the sets of attempts under way are finite since each step adds one.

Only model-checked: liveness (`EndedRideIsRetired`, `IndexCatchesUp`,
`WorkingFeedCatchesUp`), which is out of the prover's reach along with `ENABLED`. Every
other property of a passing run is a theorem. The three findings are counterexamples,
which TLC shows on an instance.

The `TypeOK` of each module named above (`SessionTypeOK`, `UpstreamTypeOK`) is proved
with the rest and documents the ranges of the variables; none is a property of a run
(for TokenRefresher and Access the invariants
say them).

## 6. Not modelled

Bytes and numbers: JSON, JWT, bcrypt, protobuf, GTFS parsing, shape geometry,
daylight saving. Vehicles, whose rows are written by single statements. Read-only
pages, statistics and history; labels and names. Of what is modelled: access-token
expiry on the server, rider registration, trip status, ride-point retention, and
the limiters in front of handlers (a refused request changes nothing else). Of the
apps: user interface, location services, and the parts named in section 7. The
simulators are development tools.

## 7. Plan

In this order; each module with its run, mutants and, where it says so, proofs.

1. *done* RefreshTokens, Sessions, its proofs; TokenLock, TokenTable.
2. *done* RiderRides; RideSession, RideSessionLog.
3. *done* Trips, AndroidTrips, IosTrips.
4. *done* TokenRefresher, against the server of RefreshTokens, with lost replies and
   a sign-in or sign-out meanwhile.
5. *done* VehicleFeed with TripEstimates; TrustedFeeds; GtfsRuntime with Schedule.
6. *done* AdminAccounts, ApiKeys, RateLimits.
7. RideReporter of the rider kit against the rider API; Android's refresher.

Proved: every safety property of a passing run (section 5). Of what is modelled
only liveness is left to TLC; what comes next is step 7.
