----------------------------- MODULE RiderRides -----------------------------
(***************************************************************************)
(* The life of a rider's ride, from the request that starts it to the row   *)
(* that files what it amounted to: the ride handlers (rider_handlers.go),   *)
(* the registry of live sessions (rider/aggregator.go), the reaper and the  *)
(* start-up sweep (rider_wiring.go), and the transactions on the tables     *)
(* rides and riders (rider_store.go).                                       *)
(*                                                                         *)
(* A step is one critical section of the aggregator's mutex or one          *)
(* transaction.  Between two steps of a request every other request, the    *)
(* reaper, a crash and a sibling instance may act.  What the points of a    *)
(* batch do to a session is module RideSession's business: here a batch     *)
(* moves a session to any standing its verdicts can lead to.               *)
(***************************************************************************)
EXTENDS Integers, FiniteSets

CONSTANTS Rider, Ride, Request,
          Reaper,      \* the goroutine of reapLoop, one more "request"
          None,
          MaxBatches   \* bound: accepted batches per ride

\* Ride identifiers are UUIDs: there are finitely many.
ASSUME RidesAssumption ==
    /\ None \notin Rider \cup Ride \cup Request
    /\ IsFiniteSet(Ride)
    /\ Reaper \notin Request
    /\ MaxBatches \in Nat

VARIABLES
    row,      \* table rides
    rider,    \* table riders
    session,  \* Aggregator.sessions
    byRider,  \* Aggregator.byRider
    lock,     \* riderService.rideLocks: the request that holds the rider's stripe
    req,      \* the requests in flight, and the reaper
    (* history *)
    applied   \* accepted batches per ride, counted when they are folded in

vars == <<row, rider, session, byRider, lock, req, applied>>

Actor == Request \cup {Reaper}

State  == {"pending", "verified", "rejected"}
Tier   == {"new", "trusted", "blocked"}

\* Why a ride ended.  "closed" stands for the reasons that leave its standing
\* alone: user_requested, completed, superseded, idle, expired.
Reason == {"", "closed", "off_route", "contradicted", "server_restart"}

\* What a ride amounts to (RideSummary): scored says that it is corroborated
\* and its matched points span minScoredRide; total counts accepted batches.
Summary == [state : State, scored : BOOLEAN, total : 0 .. MaxBatches,
            reason : Reason]

NoSummary == [state |-> "pending", scored |-> FALSE, total |-> 0, reason |-> ""]

Session == [life : {"absent", "live", "ended"}, tier : Tier, sum : Summary]

NoSession == [life |-> "absent", tier |-> "new", sum |-> NoSummary]

Row == [status : {"none", "active", "ended"}, rider : Rider \cup {None},
        state : State, total : 0 .. MaxBatches, reason : Reason]

NoRow == [status |-> "none", rider |-> None, state |-> "pending", total |-> 0,
          reason |-> ""]

PC == {"idle", "startGet", "startInsert", "startAdd", "apply", "record",
       "finEnd", "finStore", "finRemove", "finTier", "sweep"}

\* What a request does when finishRide returns: answer, go on with the start,
\* run finishRide once more (handlePositions does after a batch the store
\* refused), or take the next ride of the sweep.
Kind == {"", "start", "answer", "again", "reap"}

\* sum is the summary a handler carries from one critical section to the next;
\* before Aggregator.End it holds no more than the reason asked for.
ActorState == [pc : PC, kind : Kind, rider : Rider \cup {None},
               ride : Ride \cup {None}, tier : Tier, sum : Summary,
               todo : SUBSET Ride]

Idle == [pc |-> "idle", kind |-> "", rider |-> None, ride |-> None,
         tier |-> "new", sum |-> NoSummary, todo |-> {}]

-----------------------------------------------------------------------------
(* rider/reputation.go, and what FinishRide of rider_store.go does with it.  *)

ScoreDelta(s) ==
    IF s.state = "rejected" THEN IF s.reason = "contradicted" THEN -3 ELSE -1
    ELSE IF s.scored THEN 1 ELSE 0

TierFor(score) == IF score <= -3 THEN "blocked"
                  ELSE IF score >= 3 THEN "trusted" ELSE "new"

Clamp(score) == IF score > 10 THEN 10 ELSE IF score < -10 THEN -10 ELSE score

\* ApplyRideOutcome and SetRiderTier: the rider's row r after one more ride.
Rescored(r, delta) ==
    LET score == Clamp(r.score + delta) IN
    [score |-> score, tier |-> TierFor(score), ridesTotal |-> r.ridesTotal + 1]

-----------------------------------------------------------------------------
\* Row and registry types; the stored tier is always the one the score earns.
TypeOK ==
    /\ row \in [Ride -> Row]
    /\ \A d \in Rider : /\ rider[d].score \in -10 .. 10
                         /\ rider[d].tier = TierFor(rider[d].score)
                         /\ rider[d].ridesTotal \in 0 .. Cardinality(Ride)
    /\ session \in [Ride -> Session]
    /\ byRider \in [Rider -> Ride \cup {None}]
    /\ lock \in [Rider -> Request \cup {None}]
    /\ req \in [Actor -> ActorState]
    /\ applied \in [Ride -> 0 .. MaxBatches]

Init ==
    /\ row = [i \in Ride |-> NoRow]
    /\ rider = [d \in Rider |-> [score |-> 0, tier |-> "new", ridesTotal |-> 0]]
    /\ session = [i \in Ride |-> NoSession]
    /\ byRider = [d \in Rider |-> None]
    /\ lock = [d \in Rider |-> None]
    /\ req = [a \in Actor |-> Idle]
    /\ applied = [i \in Ride |-> 0]

-----------------------------------------------------------------------------
(* rider/aggregator.go, each under Aggregator.mu.                          *)

Registered(i) == session[i].life # "absent"
Live(i)       == session[i].life = "live"
Ended(i)      == session[i].life = "ended"

\* activeForRiderLocked: the newest ride of the rider, if it is live.
ActiveRides(d) == {i \in Ride : byRider[d] = i /\ Live(i)}

\* (Mutant: the last end wins.)
EndedLast(s, reason) == [s EXCEPT !.life = "ended", !.sum.reason = reason]

\* Session.End on a session that is registered: the first end wins.
EndedSession(s, reason) ==
    IF s.life = "live" THEN [s EXCEPT !.life = "ended", !.sum.reason = reason]
                       ELSE s

\* memberOfLocked, for a ride whose latest matched point is fresh.
Contributes(i) ==
    /\ Live(i)
    /\ session[i].sum.state = "verified"
    /\ session[i].tier # "blocked"
    /\ byRider[row[i].rider] = i

\* (Mutant: a batch is folded into any session that is still registered.)
FoldableRegistered(i) == Registered(i)

\* What ApplyBatch asks again under the lock.
Foldable(i) == Live(i)

\* What a batch with at least one accepted point can make of a live session: a
\* verified ride stays verified or is rejected, a scored one stays scored, and
\* a rejection ends the ride on the spot.
Folded(s) ==
    LET Grown == {x \in Summary :
                    /\ x.total = s.sum.total + 1
                    /\ s.sum.state = "verified" => x.state # "pending"
                    /\ s.sum.scored => x.scored
                    /\ x.reason \in IF x.state = "rejected"
                                    THEN {"off_route", "contradicted"} ELSE {""}}
    IN {[s EXCEPT !.sum = x,
                  !.life = IF x.state = "rejected" THEN "ended" ELSE "live"] :
          x \in Grown}

-----------------------------------------------------------------------------
(* Control flow of the handlers.                                           *)

Memory == <<session, byRider>>
Tables == <<row, rider>>

Become(a, s) == req' = [req EXCEPT ![a] = s]

\* The handler of a answers.  A start gives the rider's stripe back.
Answer(a) ==
    /\ Become(a, Idle)
    /\ lock' = [d \in Rider |-> IF lock[d] = a THEN None ELSE lock[d]]

\* Run finishRide on ride i for the reason why.
Finishing(i, why, kind) ==
    [Idle EXCEPT !.pc = "finEnd", !.kind = kind, !.ride = i, !.sum.reason = why]

\* finishRide returned without an error, or with errRideNotActive.  A start
\* goes on with pc and the tier that comes with it.
Return(a, pc, tier) ==
    \/ /\ req[a].kind = "start"
       /\ Become(a, [Idle EXCEPT !.pc = pc, !.rider = req[a].rider, !.tier = tier])
       /\ UNCHANGED lock
    \/ /\ req[a].kind = "again"
       /\ Become(a, Finishing(req[a].ride, "closed", "answer"))
       /\ UNCHANGED lock
    \/ /\ req[a].kind = "reap"
       /\ Become(a, [Idle EXCEPT !.pc = "sweep", !.todo = req[a].todo])
       /\ UNCHANGED lock
    \/ /\ req[a].kind = "answer"
       /\ Answer(a)

NotActive(a) == Return(a, "startGet", "new")

\* finishRide gave up on a store error: a start answers 500.
ReturnError(a) == IF req[a].kind = "start" THEN Answer(a) ELSE NotActive(a)

-----------------------------------------------------------------------------
(* POST /rides: handleStartRide.                                           *)

\* (Mutant: no stripe is taken.)
AlwaysFree(d) == TRUE

StripeFree(d) == lock[d] = None

\* The rider's stripe is taken; a live ride of the rider is to be superseded.
StartRide(a, d) ==
    /\ req[a] = Idle
    /\ StripeFree(d)
    /\ lock' = [lock EXCEPT ![d] = a]
    /\ \/ /\ ActiveRides(d) = {}
          /\ Become(a, [Idle EXCEPT !.pc = "startGet", !.rider = d])
       \/ \E old \in ActiveRides(d) :
            Become(a, [Finishing(old, "closed", "start") EXCEPT !.rider = d])
    /\ UNCHANGED <<Tables, Memory, applied>>

GetRider(a) ==
    /\ req[a].pc = "startGet"
    /\ Become(a, [req[a] EXCEPT !.pc = "startInsert",
                                !.tier = rider[req[a].rider].tier])
    /\ UNCHANGED <<Tables, Memory, lock, applied>>

\* idx_rides_one_active_per_rider.
HasActiveRow(d) == \E i \in Ride : row[i].status = "active" /\ row[i].rider = d

\* The INSERT commits.  Its reply may be lost: a request whose client hung up
\* is answered with an error although the row is there.
InsertRide(a, i) ==
    /\ req[a].pc = "startInsert"
    /\ row[i].status = "none"
    /\ ~HasActiveRow(req[a].rider)
    /\ row' = [row EXCEPT ![i] =
                 [NoRow EXCEPT !.status = "active", !.rider = req[a].rider]]
    /\ \/ /\ Become(a, [req[a] EXCEPT !.pc = "startAdd", !.ride = i])
          /\ UNCHANGED lock
       \/ Answer(a)
    /\ UNCHANGED <<rider, Memory, applied>>

\* ErrActiveRideExists: 409.
InsertConflict(a) ==
    /\ req[a].pc = "startInsert"
    /\ HasActiveRow(req[a].rider)
    /\ Answer(a)
    /\ UNCHANGED <<Tables, Memory, applied>>

\* Aggregator.Add, 201.
AddSession(a) ==
    LET i == req[a].ride IN
    /\ req[a].pc = "startAdd"
    /\ session' = [session EXCEPT ![i] =
                     [NoSession EXCEPT !.life = "live", !.tier = req[a].tier]]
    /\ byRider' = [byRider EXCEPT ![req[a].rider] = i]
    /\ Answer(a)
    /\ UNCHANGED <<Tables, applied>>

\* GetRider or the INSERT fails before it commits: 500.
StartFails(a) ==
    /\ req[a].pc \in {"startGet", "startInsert"}
    /\ Answer(a)
    /\ UNCHANGED <<Tables, Memory, applied>>

-----------------------------------------------------------------------------
(* POST /rides/{id}/end and POST /rides/{id}/positions.                    *)

\* resolveRide answers 409 for a ride that is not live.
EndRide(a, i) ==
    /\ req[a] = Idle
    /\ Live(i)
    /\ Become(a, Finishing(i, "closed", "answer"))
    /\ UNCHANGED <<Tables, Memory, lock, applied>>

\* The tier that decides whether the batch is stored is read here.
Positions(a, i) ==
    /\ req[a] = Idle
    /\ Live(i)
    /\ session[i].sum.total < MaxBatches
    /\ Become(a, [Idle EXCEPT !.pc = "apply", !.ride = i, !.tier = session[i].tier])
    /\ UNCHANGED <<Tables, Memory, lock, applied>>

\* A batch was folded and stored, or folded only: a ride the engine ended is
\* finished, for the reason the engine gave.
AfterBatch(a, sum) ==
    IF sum.reason # ""
    THEN Become(a, Finishing(req[a].ride, sum.reason, "answer"))
    ELSE Become(a, Idle)

\* ApplyBatch: the ride is looked at again under the lock.
ApplyBatch(a) ==
    LET i == req[a].ride IN
    /\ req[a].pc = "apply"
    /\ Foldable(i) /\ session[i].sum.total < MaxBatches
    /\ \E s \in Folded(session[i]) :
         /\ session' = [session EXCEPT ![i] = s]
         /\ IF req[a].tier # "blocked"
            THEN Become(a, [req[a] EXCEPT !.pc = "record", !.sum = s.sum])
            ELSE AfterBatch(a, s.sum)
    /\ applied' = [applied EXCEPT ![i] = @ + 1]
    /\ UNCHANGED <<Tables, byRider, lock>>

\* ErrUnknownRide: 409.  Also a batch the instance's bound has no room for.
ApplyRefused(a) ==
    /\ req[a].pc = "apply"
    /\ ~Foldable(req[a].ride) \/ session[req[a].ride].sum.total = MaxBatches
    /\ Become(a, Idle)
    /\ UNCHANGED <<Tables, Memory, lock, applied>>

\* RecordRidePoints commits: the counters are those of this batch's summary.
RecordRidePoints(a) ==
    LET i == req[a].ride IN
    /\ req[a].pc = "record"
    /\ row[i].status = "active"
    /\ row' = [row EXCEPT ![i].state = req[a].sum.state,
                          ![i].total = req[a].sum.total]
    /\ AfterBatch(a, req[a].sum)
    /\ UNCHANGED <<rider, Memory, lock, applied>>

\* ErrRideNotFound: the row has ended.  finishRide for a ride the engine ended,
\* and finishRide again to retire the session.
RecordNotFound(a) ==
    LET sum == req[a].sum IN
    /\ req[a].pc = "record"
    /\ row[req[a].ride].status # "active"
    /\ Become(a, IF sum.reason # "" THEN Finishing(req[a].ride, sum.reason, "again")
                                    ELSE Finishing(req[a].ride, "closed", "answer"))
    /\ UNCHANGED <<Tables, Memory, lock, applied>>

RecordFails(a) ==
    /\ req[a].pc = "record"
    /\ AfterBatch(a, req[a].sum)
    /\ UNCHANGED <<Tables, Memory, lock, applied>>

-----------------------------------------------------------------------------
(* finishRide, the one path that retires a session.                        *)

\* Aggregator.End, and the summary read in the same critical section.
FinishEnd(a) ==
    LET i == req[a].ride
        s == EndedSession(session[i], req[a].sum.reason)
    IN
    /\ req[a].pc = "finEnd"
    /\ IF Registered(i)
       THEN /\ session' = [session EXCEPT ![i] = s]
            /\ Become(a, [req[a] EXCEPT !.pc = "finStore", !.sum = s.sum])
            /\ UNCHANGED lock
       ELSE /\ NotActive(a)               \* errRideNotActive
            /\ UNCHANGED session
    /\ UNCHANGED <<Tables, byRider, applied>>

\* (Mutant: the UPDATE without "AND status = 'active'".)
FileableTwice(i) == row[i].status # "none"

\* EndRide of db/query.sql changes a row that is still active, and no other.
Fileable(i) == row[i].status = "active"

\* Store.FinishRide commits: the row, the score and the tier in one transaction.
\* When the acknowledgement is lost the handler takes it for a failure.
FinishStore(a) ==
    LET i   == req[a].ride
        sum == req[a].sum
        d   == row[i].rider
        r   == Rescored(rider[d], ScoreDelta(sum))
    IN
    /\ req[a].pc = "finStore"
    /\ Fileable(i)
    /\ row' = [row EXCEPT ![i] =
                 [status |-> "ended", rider |-> d, state |-> sum.state,
                  total |-> sum.total, reason |-> sum.reason]]
    /\ rider' = [rider EXCEPT ![d] = r]
    /\ \/ /\ Become(a, [req[a] EXCEPT !.pc = "finRemove", !.tier = r.tier,
                                      !.sum = NoSummary])
          /\ UNCHANGED lock
       \/ ReturnError(a)
    /\ UNCHANGED <<Memory, applied>>

\* Aggregator.Remove: byRider is cleared only if it still points at this ride.
Unregister(i) ==
    /\ session' = [session EXCEPT ![i] = NoSession]
    /\ byRider' = [d \in Rider |-> IF byRider[d] = i THEN None ELSE byRider[d]]

\* ErrRideNotFound: the row ended earlier, so the session is stale.
FinishNotFound(a) ==
    /\ req[a].pc = "finStore"
    /\ ~Fileable(req[a].ride)
    /\ Unregister(req[a].ride)
    /\ NotActive(a)
    /\ UNCHANGED <<Tables, applied>>

\* (Mutant: the session is dropped whatever the store said.)
FinishFailsAndForgets(a) ==
    /\ req[a].pc = "finStore"
    /\ Unregister(req[a].ride)
    /\ ReturnError(a)
    /\ UNCHANGED <<Tables, applied>>

\* Any other error leaves the session ended and registered.
FinishFails(a) ==
    /\ req[a].pc = "finStore"
    /\ ReturnError(a)
    /\ UNCHANGED <<Tables, Memory, applied>>

FinishRemove(a) ==
    /\ req[a].pc = "finRemove"
    /\ Unregister(req[a].ride)
    /\ Become(a, [req[a] EXCEPT !.pc = "finTier"])
    /\ UNCHANGED <<Tables, lock, applied>>

\* Aggregator.SetTier: the tier reaches the ride in flight, if there is one.
FinishTier(a) ==
    /\ req[a].pc = "finTier"
    /\ session' = [i \in Ride |-> IF i \in ActiveRides(row[req[a].ride].rider)
                                  THEN [session[i] EXCEPT !.tier = req[a].tier]
                                  ELSE session[i]]
    /\ Return(a, "startInsert", req[a].tier)
    /\ UNCHANGED <<Tables, byRider, applied>>

-----------------------------------------------------------------------------
(* reapLoop.                                                               *)

\* (Mutant: Reap returns only the rides it ended itself.)
NoLeftovers == {}

\* The rides an earlier finishRide could not file.
Leftovers == {i \in Ride : Ended(i)}

\* Reap ends the live rides that ran out of time (S) and returns every ended
\* ride that is still registered.
Reap ==
    \E S \in SUBSET {i \in Ride : Live(i)} :
        /\ req[Reaper].pc = "idle"
        /\ S \cup Leftovers # {}
        /\ session' = [i \in Ride |-> IF i \in S
                                      THEN EndedSession(session[i], "closed")
                                      ELSE session[i]]
        /\ Become(Reaper, [Idle EXCEPT !.pc = "sweep", !.todo = S \cup Leftovers])
        /\ UNCHANGED <<Tables, byRider, lock, applied>>

SweepNext ==
    /\ req[Reaper].pc = "sweep"
    /\ \E i \in req[Reaper].todo :
         Become(Reaper, [Finishing(i, "closed", "reap") EXCEPT
                           !.todo = req[Reaper].todo \ {i}])
    /\ UNCHANGED <<Tables, Memory, lock, applied>>

SweepDone ==
    /\ req[Reaper].pc = "sweep"
    /\ req[Reaper].todo = {}
    /\ Become(Reaper, Idle)
    /\ UNCHANGED <<Tables, Memory, lock, applied>>

-----------------------------------------------------------------------------
(* Restarts.                                                               *)

\* EndAllActiveRides: rows only, no reputation.
EndAllActiveRides ==
    row' = [i \in Ride |-> IF row[i].status = "active"
                           THEN [row[i] EXCEPT !.status = "ended",
                                               !.reason = "server_restart"]
                           ELSE row[i]]

\* The process dies and comes back: the registry and every request are gone,
\* and newRiderRuntime sweeps the table before it serves anything.
Restart ==
    /\ EndAllActiveRides
    /\ session' = [i \in Ride |-> NoSession]
    /\ byRider' = [d \in Rider |-> None]
    /\ lock' = [d \in Rider |-> None]
    /\ req' = [a \in Actor |-> Idle]
    /\ UNCHANGED <<rider, applied>>

\* A second instance starts: its sweep ends this one's rows as well.
SiblingStarts ==
    /\ \E i \in Ride : row[i].status = "active"
    /\ EndAllActiveRides
    /\ UNCHANGED <<rider, Memory, lock, req, applied>>

-----------------------------------------------------------------------------
Finish(a) == FinishEnd(a) \/ FinishStore(a) \/ FinishNotFound(a) \/ FinishFails(a)
             \/ FinishRemove(a) \/ FinishTier(a)

\* A request that was admitted goes on.
Continue(a) ==
    \/ GetRider(a) \/ (\E i \in Ride : InsertRide(a, i)) \/ InsertConflict(a)
    \/ AddSession(a) \/ StartFails(a)
    \/ ApplyBatch(a) \/ ApplyRefused(a)
    \/ RecordRidePoints(a) \/ RecordNotFound(a) \/ RecordFails(a)
    \/ Finish(a)

Sweep == SweepNext \/ SweepDone \/ Finish(Reaper)

Next ==
    \/ \E a \in Request :
         \/ \E d \in Rider : StartRide(a, d)
         \/ \E i \in Ride : EndRide(a, i) \/ Positions(a, i)
         \/ Continue(a)
    \/ Reap
    \/ Sweep
    \/ Restart
    \/ SiblingStarts

Spec == Init /\ [][Next]_vars

\* Goroutines run on; the reaper's ticker fires for ever, and the store does
\* not refuse its writes for ever.
Fairness ==
    /\ \A a \in Request : WF_vars(Continue(a))
    /\ WF_vars(Reap)
    /\ WF_vars(Sweep)
    /\ SF_vars(FinishStore(Reaper) /\ req'[Reaper].pc = "finRemove")
    /\ SF_vars(FinishNotFound(Reaper))

FairSpec == Spec /\ Fairness

-----------------------------------------------------------------------------
(* Properties.                                                             *)

\* One phone never counts twice: however starts, ends, retries and the reaper
\* interleave, a rider has at most one live session (riderLock, supersede).
OneLiveRidePerRider ==
    \A i, j \in Ride :
        Live(i) /\ Live(j) /\ row[i].rider = row[j].rider => i = j

\* Client end, engine rejection, supersede, reaper and retries may all try to
\* file one ride; its outcome reaches the rider's reputation exactly once, and
\* the rides a restart swept away never do.
ReputationOncePerRide ==
    \A d \in Rider :
        rider[d].ridesTotal =
          Cardinality({i \in Ride : /\ row[i].rider = d
                                    /\ row[i].status = "ended"
                                    /\ row[i].reason # "server_restart"})

\* The row finishRide filed describes the whole ride: every batch that was ever
\* folded in is in its counters, also when RecordRidePoints calls of concurrent
\* batches committed in the wrong order or failed.
FiledRideIsWhole ==
    \A i \in Ride :
        row[i].status = "ended" /\ row[i].reason # "server_restart"
            => row[i].total = applied[i]

\* A rejection is never lost and never rewritten: the row of a ride the engine
\* rejected is filed as rejected, whatever the client or the reaper asked for.
RejectionIsFiled ==
    \A i \in Ride :
        row[i].status = "ended" /\ row[i].reason # "server_restart" =>
            (row[i].state = "rejected" <=> row[i].reason \in {"off_route", "contradicted"})

\* No ride is forgotten: a session leaves the registry only when its row has
\* ended, so a store that fails at any point of finishRide costs a retry and
\* never the ride's points or its effect on the rider's reputation.
NothingIsDropped ==
    [][\A i \in Ride :
          Registered(i) /\ ~Registered(i)' => row'[i].status = "ended"]_vars

\* A ride that has ended is filed and unregistered in the end, though the
\* request that ended it failed: the reaper retries.
EndedRideIsRetired ==
    \A i \in Ride : Ended(i) ~> ~Ended(i)

\* What Session.Publishable says: "a blocked rider is never published".  A ride
\* contributes to the feed although its rider's stored tier is blocked, and no
\* finishRide is still on its way to tell the aggregator.
BlockedRiderIsNeverPublished ==
    \A i \in Ride :
        Contributes(i) /\ rider[row[i].rider].tier = "blocked" =>
            \E a \in Actor : req[a].pc \in {"finRemove", "finTier"}
=============================================================================
