------------------------------- MODULE IosTrips -------------------------------
(***************************************************************************)
(* The trips of the iOS driver app against the server of Trips: TripSession  *)
(* (TripSession.swift), one phase that only the main actor changes, and the  *)
(* file it leaves for the next launch (ActiveTripStore.swift).              *)
(*                                                                         *)
(* A step runs from one await to the next.  Location delivery, and a trip    *)
(* whose geometry a later build cannot use, are left out.                   *)
(***************************************************************************)
EXTENDS Trips

CONSTANT Phone

VARIABLES
    email,   \* AppSettings.email: the driver who signed in last
    phase,   \* TripSession.phase
    stored,  \* active-trip.json
    wait,    \* the task that awaits each call
    (* history *)
    letGo    \* trips ended locally, and other drivers' trips that were dropped

phones == <<email, phase, stored, wait>>

vars == <<server, phones, letGo>>

\* ActiveTrip: serverTripID and driverEmail.
Record == [trip : Trip, driver : Driver]

ASSUME NoneIsNoRecord == None \notin Phone \cup Record

Tracking == {"active", "paused", "ending"}

Phase == [kind : {"signedOut", "idle", "starting"}, rec : {None}]
         \cup [kind : Tracking, rec : Record]

\* What follows the await: before is the phase to go back to, undo the
\* best-effort end of a trip that could not be stored.
Wait == [phone : Phone \cup {None}, for : {"", "start", "undo", "end"},
         before : {"", "active", "paused"}, rec : Record \cup {None}]

NoWait == [phone |-> None, for |-> "", before |-> "", rec |-> None]

TypeOK ==
    /\ ServerTypeOK
    /\ email \in [Phone -> Driver \cup {None}]
    /\ phase \in [Phone -> Phase]
    /\ stored \in [Phone -> Record \cup {None}]
    /\ wait \in [Request -> Wait]
    /\ letGo \subseteq Trip
    /\ \A r \in Request : wait[r] # NoWait => req[r] # NoCall

SignedOut == [kind |-> "signedOut", rec |-> None]
Idle      == [kind |-> "idle", rec |-> None]
Starting  == [kind |-> "starting", rec |-> None]

Init ==
    /\ ServerInit
    /\ email = [p \in Phone |-> None]
    /\ phase = [p \in Phone |-> SignedOut]
    /\ stored = [p \in Phone |-> None]
    /\ wait = [r \in Request |-> NoWait]
    /\ letGo = {}

-----------------------------------------------------------------------------
(* Signing in and out, and launching.                                      *)

Enter(p, ph) == phase' = [phase EXCEPT ![p] = ph]

\* FileActiveTripStore.clear, which may throw: nobody takes more notice than a
\* line in the log.
Clear(p) == \E left \in {None, stored[p]} : stored' = [stored EXCEPT ![p] = left]

\* adoptStoredTrip for driver d: the stored trip is shown paused, or dropped.
Adopt(p, d) ==
    \/ /\ stored[p] = None
       /\ Enter(p, Idle)
       /\ UNCHANGED <<stored, letGo>>
    \/ /\ stored[p] # None /\ stored[p].driver = d
       /\ Enter(p, [kind |-> "paused", rec |-> stored[p]])
       /\ UNCHANGED <<stored, letGo>>
    \/ /\ stored[p] # None /\ stored[p].driver # d
       /\ Enter(p, Idle)
       /\ Clear(p)
       /\ letGo' = letGo \cup {stored[p].trip}

\* signIn; reauthenticate changes neither the phase nor the driver.
SignIn(p, d) ==
    /\ phase[p] = SignedOut
    /\ email' = [email EXCEPT ![p] = d]
    /\ Adopt(p, d)
    /\ UNCHANGED <<server, wait>>

\* (Mutant: the record of a paused trip goes with the account.)
SignOutAndClear(p) ==
    /\ phase[p].kind \in {"idle", "paused"}
    /\ Enter(p, SignedOut)
    /\ stored' = [stored EXCEPT ![p] = None]
    /\ UNCHANGED <<server, email, wait, letGo>>

\* A paused trip's record is left for the next sign-in.
SignOut(p) ==
    /\ phase[p].kind \in {"idle", "paused"}
    /\ Enter(p, SignedOut)
    /\ UNCHANGED <<server, email, stored, wait, letGo>>

\* The process dies, and with it every await; init of the next one.
Relaunch(p) ==
    /\ wait' = [r \in Request |-> IF wait[r].phone = p THEN NoWait ELSE wait[r]]
    /\ \/ /\ phase[p] # SignedOut
          /\ Adopt(p, email[p])
       \/ /\ Enter(p, SignedOut)          \* no token that can still be used
          /\ UNCHANGED <<stored, letGo>>
    /\ UNCHANGED <<server, email>>

-----------------------------------------------------------------------------
(* start(vehicle:tripID:).                                                 *)

Await(r, w) == wait' = [wait EXCEPT ![r] = w]

Start(p, v, r) ==
    /\ phase[p] = Idle
    /\ SendStart(r, email[p], v)
    /\ Await(r, [NoWait EXCEPT !.phone = p, !.for = "start"])
    /\ Enter(p, Starting)
    /\ UNCHANGED <<trips, assigned, lost, email, stored, letGo>>

Started(p, r) == [trip |-> req[r].trip, driver |-> email[p]]

\* store.save, beginTracking.
StartReply(p, r) ==
    /\ wait[r].phone = p /\ wait[r].for = "start"
    /\ req[r].pc = "created"
    /\ stored' = [stored EXCEPT ![p] = Started(p, r)]
    /\ Enter(p, [kind |-> "active", rec |-> Started(p, r)])
    /\ Await(r, NoWait)
    /\ Forget(r)
    /\ UNCHANGED <<trips, assigned, lost, email, letGo>>

\* (Mutant: the failed save is only logged.)
TrackUnsaved(p, r) ==
    /\ wait[r].phone = p /\ wait[r].for = "start"
    /\ req[r].pc = "created"
    /\ Enter(p, [kind |-> "active", rec |-> Started(p, r)])
    /\ Await(r, NoWait)
    /\ Forget(r)
    /\ UNCHANGED <<trips, assigned, lost, email, stored, letGo>>

\* store.save throws: the trip is ended best-effort before the start fails.
UndoStart(p, r) ==
    /\ wait[r].phone = p /\ wait[r].for = "start"
    /\ req[r].pc = "created"
    /\ req' = [req EXCEPT ![r].pc = "end"]
    /\ Await(r, [NoWait EXCEPT !.phone = p, !.for = "undo"])
    /\ lost' = lost \cup {req[r].trip}
    /\ UNCHANGED <<trips, assigned, email, phase, stored, letGo>>

\* The start was refused or failed, or was undone.
StartFails(p, r) ==
    /\ wait[r].phone = p
    /\ \/ wait[r].for = "start" /\ Answered(r) /\ req[r].pc # "created"
       \/ wait[r].for = "undo" /\ Answered(r)
    /\ Enter(p, Idle)
    /\ Await(r, NoWait)
    /\ Forget(r)
    /\ UNCHANGED <<trips, assigned, lost, email, stored, letGo>>

\* resume(): no call to the server.
Resume(p) ==
    /\ phase[p].kind = "paused"
    /\ Enter(p, [phase[p] EXCEPT !.kind = "active"])
    /\ UNCHANGED <<server, email, stored, wait, letGo>>

-----------------------------------------------------------------------------
(* end() and endLocally().                                                 *)

End(p, r) ==
    /\ phase[p].kind \in {"active", "paused"}
    /\ SendEnd(r, email[p], phase[p].rec.trip)
    /\ Await(r, [phone |-> p, for |-> "end", before |-> phase[p].kind,
                 rec |-> phase[p].rec])
    /\ Enter(p, [phase[p] EXCEPT !.kind = "ending"])
    /\ UNCHANGED <<trips, assigned, lost, email, stored, letGo>>

\* (Mutant: any trip that is being tracked will do.)
StillTracking(p, r) == phase[p].kind \in Tracking

\* phase == .ending(active): only the phase this call set is its own to change.
StillEnding(p, r) == phase[p] = [kind |-> "ending", rec |-> wait[r].rec]

\* stopTracking.
StopTracking(p) == Enter(p, Idle) /\ Clear(p)

EndReply(p, r) ==
    /\ wait[r].phone = p /\ wait[r].for = "end"
    /\ Ended(r)
    /\ IF StillEnding(p, r) THEN StopTracking(p) ELSE UNCHANGED <<phase, stored>>
    /\ Await(r, NoWait)
    /\ Forget(r)
    /\ UNCHANGED <<trips, assigned, lost, email, letGo>>

\* Any other answer, a 404 too, is thrown, and the trip stays.
EndFails(p, r) ==
    /\ wait[r].phone = p /\ wait[r].for = "end"
    /\ Answered(r) /\ ~Ended(r)
    /\ IF StillEnding(p, r)
       THEN Enter(p, [phase[p] EXCEPT !.kind = wait[r].before])
       ELSE UNCHANGED phase
    /\ Await(r, NoWait)
    /\ Forget(r)
    /\ UNCHANGED <<trips, assigned, lost, email, stored, letGo>>

EndLocally(p) ==
    /\ phase[p].kind \in Tracking
    /\ StopTracking(p)
    /\ letGo' = letGo \cup {phase[p].rec.trip}
    /\ UNCHANGED <<server, email, wait>>

-----------------------------------------------------------------------------
\* An awaited call times out: it fails for the phone, and may still run.
TimeOut(p, r) ==
    /\ wait[r].phone = p
    /\ \/ /\ wait[r].for = "end" /\ StillEnding(p, r)
          /\ Enter(p, [phase[p] EXCEPT !.kind = wait[r].before])
       \/ /\ wait[r].for = "end" /\ ~StillEnding(p, r)
          /\ UNCHANGED phase
       \/ /\ wait[r].for # "end"
          /\ Enter(p, Idle)
    /\ Await(r, NoWait)
    /\ UNCHANGED <<server, email, stored, letGo>>

\* A reply nobody awaits.
DropReply(r) ==
    /\ Answered(r) /\ wait[r] = NoWait
    /\ lost' = IF req[r].pc = "created" THEN lost \cup {req[r].trip} ELSE lost
    /\ Forget(r)
    /\ UNCHANGED <<trips, assigned, phones, letGo>>

Server == \E r \in Request : ServerStep(r) /\ UNCHANGED <<phones, letGo>>

Administrate == Admin /\ UNCHANGED <<phones, letGo>>

PhoneStep(p) ==
    \/ \E d \in Driver : SignIn(p, d)
    \/ SignOut(p) \/ Relaunch(p) \/ Resume(p) \/ EndLocally(p)
    \/ \E r \in Request :
         \/ \E v \in Vehicle : Start(p, v, r)
         \/ StartReply(p, r) \/ UndoStart(p, r) \/ StartFails(p, r)
         \/ End(p, r) \/ EndReply(p, r) \/ EndFails(p, r) \/ TimeOut(p, r)

Next ==
    \/ \E p \in Phone : PhoneStep(p)
    \/ Server
    \/ Administrate
    \/ \E r \in Request : DropReply(r)

Spec == Init /\ [][Next]_vars

-----------------------------------------------------------------------------
(* Properties.                                                             *)

\* The trip on the screen is the one a relaunch would find, whatever late
\* replies, local ends and failed writes came before.
TrackedTripIsStored ==
    \A p \in Phone : phase[p].kind \in Tracking => stored[p] = phase[p].rec

\* The phone stops tracking a trip only when it is over on the server or the
\* driver chose to end it locally: a late reply to the end of an earlier trip
\* never tears down the one that runs now.
TornDownOnlyWhenEnded ==
    [][\A p \in Phone :
          phase[p].kind \in Tracking /\ phase'[p].kind = "idle" =>
              LET t == phase[p].rec.trip
              IN trips'[t].status = "completed" \/ t \in letGo']_vars

\* An open trip can be ended by the phone that started it, after any failure,
\* relaunch or change of driver, unless its driver let go of it.
NoTripIsForgotten ==
    \A t \in Trip :
        trips[t].status = "active" =>
            \/ \E p \in Phone : stored[p] = [trip |-> t, driver |-> trips[t].driver]
            \/ \E r \in Request : req[r].pc = "created" /\ req[r].trip = t
            \/ t \in lost \cup letGo
=============================================================================
