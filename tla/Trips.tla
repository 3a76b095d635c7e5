-------------------------------- MODULE Trips --------------------------------
(***************************************************************************)
(* Drivers' trips on the server: starting and ending one                    *)
(* (trip_handlers.go, store_trips.go) while administrators assign and       *)
(* unassign vehicles (assignment_store.go).                                 *)
(*                                                                         *)
(* A step is one statement of a transaction, which at READ COMMITTED sees   *)
(* what had committed when it began; the INSERT of StartTrip is the last    *)
(* statement of its transaction and stands with the COMMIT.  Nothing else   *)
(* ever changes the status of a trip: there is no clean-up of old trips.    *)
(*                                                                         *)
(* The phones are in AndroidTrips and IosTrips, which extend this module.   *)
(***************************************************************************)

CONSTANTS Driver, Vehicle,
          Trip,      \* the ids BIGSERIAL will hand out
          Request,   \* calls in flight at one time
          None

ASSUME NoneIsNobody == None \notin Driver \cup Vehicle \cup Trip \cup Request

VARIABLES
    trips,     \* table trips
    assigned,  \* table user_vehicles
    req,       \* the calls to /trips/start and /trips/end
    lost       \* history: trips that started and that no phone took up

server == <<trips, assigned, req, lost>>

Status == {"free", "active", "completed"}

Row == [status : Status, driver : Driver \cup {None}]

\* What a call can be answered with, as the clients tell it apart: 201, 403,
\* 409, 200, 404, and everything else, no answer included.
Reply == {"created", "notAssigned", "conflict", "ended", "notFound", "failed"}

PC == {"free", "checkAssignment", "checkActive", "insert", "end"} \cup Reply

\* driver is who the access token of the call was issued to.
Call == [pc : PC, driver : Driver \cup {None}, vehicle : Vehicle \cup {None},
         trip : Trip \cup {None}]

NoCall == [pc |-> "free", driver |-> None, vehicle |-> None, trip |-> None]

ServerTypeOK ==
    /\ trips \in [Trip -> Row]
    /\ assigned \subseteq Driver \X Vehicle
    /\ req \in [Request -> Call]
    /\ lost \subseteq Trip

ServerInit ==
    /\ trips = [t \in Trip |-> [status |-> "free", driver |-> None]]
    /\ assigned = Driver \X Vehicle
    /\ req = [r \in Request |-> NoCall]
    /\ lost = {}

-----------------------------------------------------------------------------
(* The calls, as the clients make them.                                    *)

SendStart(r, d, v) ==
    /\ req[r] = NoCall
    /\ req' = [req EXCEPT ![r] = [NoCall EXCEPT !.pc = "checkAssignment",
                                                !.driver = d, !.vehicle = v]]

SendEnd(r, d, t) ==
    /\ req[r] = NoCall
    /\ req' = [req EXCEPT ![r] = [NoCall EXCEPT !.pc = "end", !.driver = d, !.trip = t]]

Answered(r) == req[r].pc \in Reply

\* What a client that waits for an end takes for its confirmation.
Ended(r)      == req[r].pc = "ended"
EndedOr404(r) == req[r].pc \in {"ended", "notFound"}

Forget(r) == req' = [req EXCEPT ![r] = NoCall]

-----------------------------------------------------------------------------
(* POST /trips/start: Store.StartTrip.                                     *)

Step(r, pc) == req' = [req EXCEPT ![r].pc = pc]

\* GetActiveTripByUser.
ActiveTrips(d) == {t \in Trip : trips[t].status = "active" /\ trips[t].driver = d}

\* (Mutant: the index is not unique.)
NotIndexed(d) == {}

\* idx_trips_one_active_per_user.
Indexed(d) == ActiveTrips(d)

CheckAssignment(r) ==
    /\ req[r].pc = "checkAssignment"
    /\ Step(r, IF <<req[r].driver, req[r].vehicle>> \in assigned
               THEN "checkActive" ELSE "notAssigned")
    /\ UNCHANGED <<trips, assigned, lost>>

CheckActive(r) ==
    /\ req[r].pc = "checkActive"
    /\ Step(r, IF ActiveTrips(req[r].driver) = {} THEN "insert" ELSE "conflict")
    /\ UNCHANGED <<trips, assigned, lost>>

\* The row is committed; the acknowledgement or the reply may be lost.
InsertTrip(r, t) ==
    /\ req[r].pc = "insert"
    /\ Indexed(req[r].driver) = {}
    /\ trips[t].status = "free"
    /\ trips' = [trips EXCEPT ![t] = [status |-> "active", driver |-> req[r].driver]]
    /\ \/ /\ req' = [req EXCEPT ![r].pc = "created", ![r].trip = t]
          /\ UNCHANGED lost
       \/ /\ Step(r, "failed")
          /\ lost' = lost \cup {t}
    /\ UNCHANGED assigned

\* 23505 on the index: ErrActiveTripExists.
InsertConflict(r) ==
    /\ req[r].pc = "insert"
    /\ Indexed(req[r].driver) # {}
    /\ Step(r, "conflict")
    /\ UNCHANGED <<trips, assigned, lost>>

-----------------------------------------------------------------------------
(* POST /trips/end: Store.EndTrip.                                         *)

\* The WHERE clause of EndTrip in db/query.sql.
Endable(t, d) == trips[t].status = "active" /\ trips[t].driver = d

EndTrip(r) ==
    LET t == req[r].trip IN
    /\ req[r].pc = "end"
    /\ Endable(t, req[r].driver)
    /\ trips' = [trips EXCEPT ![t].status = "completed"]
    /\ \E reply \in {"ended", "failed"} : Step(r, reply)
    /\ UNCHANGED <<assigned, lost>>

\* No row was updated: ErrTripNotFound.
EndNotFound(r) ==
    /\ req[r].pc = "end"
    /\ ~Endable(req[r].trip, req[r].driver)
    /\ Step(r, "notFound")
    /\ UNCHANGED <<trips, assigned, lost>>

\* A store error before the commit, a call that never arrives, a 401.
CallFails(r) ==
    /\ req[r].pc \in PC \ (Reply \cup {"free"})
    /\ Step(r, "failed")
    /\ UNCHANGED <<trips, assigned, lost>>

ServerStep(r) ==
    \/ CheckAssignment(r) \/ CheckActive(r)
    \/ (\E t \in Trip : InsertTrip(r, t)) \/ InsertConflict(r)
    \/ EndTrip(r) \/ EndNotFound(r) \/ CallFails(r)

-----------------------------------------------------------------------------
(* Administrators.  A vehicle may be taken away while its trip runs.        *)

Assign(d, v) ==
    /\ <<d, v>> \notin assigned
    /\ assigned' = assigned \cup {<<d, v>>}
    /\ UNCHANGED <<trips, req, lost>>

Unassign(d, v) ==
    /\ <<d, v>> \in assigned
    /\ assigned' = assigned \ {<<d, v>>}
    /\ UNCHANGED <<trips, req, lost>>

Admin == \E d \in Driver, v \in Vehicle : Assign(d, v) \/ Unassign(d, v)

-----------------------------------------------------------------------------
\* However many starts of a driver are in flight, from whatever phones, at
\* most one trip of theirs is active: the check of StartTrip and the index.
OneActiveTripPerDriver ==
    \A t, u \in Trip :
        /\ trips[t].status = "active" /\ trips[u].status = "active"
        /\ trips[t].driver = trips[u].driver
        => t = u
=============================================================================
