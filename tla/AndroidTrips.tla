----------------------------- MODULE AndroidTrips -----------------------------
(***************************************************************************)
(* The trips of the Android driver app against the server of Trips: the     *)
(* repository that starts and ends them (TripRepository.kt), what it keeps   *)
(* over a restart (TripStateStore.kt), and the screens that call it          *)
(* (RunsViewModel.kt, TripEnder.kt, AppNav.kt).                             *)
(*                                                                         *)
(* A step is one call, one reply with the write that follows it, or one tap. *)
(* Records of builds that did not store a trip's driver are left out.        *)
(***************************************************************************)
EXTENDS Trips, Integers, Sequences

CONSTANT Phone

VARIABLES
    user,    \* the driver of the stored access token, who stays when it expires
    active,  \* TripStateStore.activeTrip
    ends,    \* TripStateStore.unconfirmedEnds
    op,      \* the call of TripRepository that a view model waits for
    (* history *)
    disowned \* open trips that were dropped on a 404 meant for someone else

phones == <<user, active, ends, op>>

vars == <<server, phones, disowned>>

\* ActiveTrip and UnconfirmedEnd: a trip and the driver it belongs to.
Record == [trip : Trip, driver : Driver]

ASSUME NoneIsNoRecord == None \notin Phone \cup Record

\* todo are the stored ends the start still has to send; failed: the dialog
\* "Trip not ended yet" is showing.
Op == [kind : {"idle", "start", "end", "failed"}, driver : Driver \cup {None},
       vehicle : Vehicle \cup {None}, todo : SUBSET Trip, call : Request \cup {None}]

Idle == [kind |-> "idle", driver |-> None, vehicle |-> None, todo |-> {},
         call |-> None]

Failed == [Idle EXCEPT !.kind = "failed"]

\* The store's records name a driver and a trip, and no trip twice.
TypeOK ==
    /\ ServerTypeOK
    /\ user \in [Phone -> Driver \cup {None}]
    /\ active \in [Phone -> Record \cup {None}]
    /\ ends \in [Phone -> Seq(Record)]
    /\ \A p \in Phone : \A i, j \in DOMAIN ends[p] :
          ends[p][i].trip = ends[p][j].trip => i = j
    /\ op \in [Phone -> Op]
    /\ disowned \subseteq Trip

Init ==
    /\ ServerInit
    /\ user = [p \in Phone |-> None]
    /\ active = [p \in Phone |-> None]
    /\ ends = [p \in Phone |-> <<>>]
    /\ op = [p \in Phone |-> Idle]
    /\ disowned = {}

-----------------------------------------------------------------------------
(* Signing in and out.                                                     *)

\* The login screen: at launch without a trip, or over the tracking screen when
\* the session can no longer be renewed.  The account need not be the one that
\* was signed in before.  Until then calls fail (CallFails).
SignIn(p, d) ==
    /\ op[p].kind \in {"idle", "end"}
    /\ user' = [user EXCEPT ![p] = d]
    /\ UNCHANGED <<server, active, ends, op, disowned>>

-----------------------------------------------------------------------------
(* TripRepository.start.                                                   *)

\* (Mutant: whoever is signed in sends every end.)
BelongsToAnyone(e, d) == TRUE

\* UnconfirmedEnd.belongsTo.
BelongsTo(e, d) == e.driver = d

\* The trips whose stored ends d must send before a start.
Unconfirmed(p, d) ==
    {ends[p][i].trip : i \in {j \in DOMAIN ends[p] : BelongsTo(ends[p][j], d)}}

\* RunsViewModel.onStartRun.  The run list is shown only while no trip is stored.
StartRun(p, v) ==
    /\ op[p] = Idle
    /\ user[p] # None
    /\ active[p] = None
    /\ op' = [op EXCEPT ![p] = [Idle EXCEPT !.kind = "start", !.driver = user[p],
                                  !.vehicle = v, !.todo = Unconfirmed(p, user[p])]]
    /\ UNCHANGED <<server, user, active, ends, disowned>>

Awaits(p, r) == op[p].call = r

Sends(p, r) == op' = [op EXCEPT ![p].call = r]

\* endUnconfirmedTrips goes through them oldest first.
OldestToSend(p, i) ==
    /\ ends[p][i].trip \in op[p].todo
    /\ \A j \in 1 .. i - 1 : ends[p][j].trip \notin op[p].todo

SendUnconfirmedEnd(p, r) ==
    /\ op[p].kind = "start" /\ op[p].call = None
    /\ \E i \in DOMAIN ends[p] :
         OldestToSend(p, i) /\ SendEnd(r, user[p], ends[p][i].trip)
    /\ Sends(p, r)
    /\ UNCHANGED <<trips, assigned, lost, user, active, ends, disowned>>

\* clearUnconfirmedEnd: the stored ends but the i-th, the only one of its trip.
EndsWithout(p, i) ==
    SubSeq(ends[p], 1, i - 1) \o SubSeq(ends[p], i + 1, Len(ends[p]))

\* (Mutant: the next end is sent although this one failed.)
StartAfterFailedEnd(p) ==
    [op[p] EXCEPT !.todo = @ \ {req[op[p].call].trip}, !.call = None]

\* PreviousTripNotEnded: the start is given up.
StartGivenUp(p) == Idle

UnconfirmedEndReply(p, r) ==
    /\ op[p].kind = "start" /\ Awaits(p, r) /\ Answered(r)
    /\ op[p].todo # {}
    /\ \/ /\ EndedOr404(r)
          /\ \E i \in DOMAIN ends[p] :
               /\ ends[p][i].trip = req[r].trip
               /\ ends' = [ends EXCEPT ![p] = EndsWithout(p, i)]
          /\ op' = [op EXCEPT ![p] = [op[p] EXCEPT !.todo = @ \ {req[r].trip},
                                                    !.call = None]]
       \/ /\ op' = [op EXCEPT ![p] = StartGivenUp(p)]   \* the write may fail too
          /\ UNCHANGED ends
    /\ Forget(r)
    /\ UNCHANGED <<trips, assigned, lost, user, active, disowned>>

SendStartTrip(p, r) ==
    /\ op[p].kind = "start" /\ op[p].call = None
    /\ op[p].todo = {}
    /\ SendStart(r, user[p], op[p].vehicle)
    /\ Sends(p, r)
    /\ UNCHANGED <<trips, assigned, lost, user, active, ends, disowned>>

\* saveActiveTrip, or the error it throws, or the error of the call.
StartReply(p, r) ==
    /\ op[p].kind = "start" /\ Awaits(p, r) /\ Answered(r)
    /\ op[p].todo = {}
    /\ \/ /\ req[r].pc = "created"
          /\ active' = [active EXCEPT ![p] = [trip |-> req[r].trip, driver |-> op[p].driver]]
          /\ UNCHANGED lost
       \/ /\ lost' = IF req[r].pc = "created" THEN lost \cup {req[r].trip} ELSE lost
          /\ UNCHANGED active
    /\ op' = [op EXCEPT ![p] = Idle]
    /\ Forget(r)
    /\ UNCHANGED <<trips, assigned, user, ends, disowned>>

-----------------------------------------------------------------------------
(* TripEnder.end and endLocally.                                           *)

End(p, r) ==
    /\ op[p].kind \in {"idle", "failed"}
    /\ active[p] # None
    /\ SendEnd(r, user[p], active[p].trip)
    /\ op' = [op EXCEPT ![p] = [Idle EXCEPT !.kind = "end", !.call = r]]
    /\ UNCHANGED <<trips, assigned, lost, user, active, ends, disowned>>

\* clearActiveTrip after 200 or 404; otherwise, or if that write fails, the
\* driver is asked what to do.
EndReply(p, r) ==
    LET t == active[p].trip IN
    /\ op[p].kind = "end" /\ Awaits(p, r) /\ Answered(r)
    /\ \/ /\ EndedOr404(r)
          /\ active' = [active EXCEPT ![p] = None]
          /\ disowned' = IF trips[t].status = "active" THEN disowned \cup {t}
                                                       ELSE disowned
          /\ op' = [op EXCEPT ![p] = Idle]
       \/ /\ op' = [op EXCEPT ![p] = Failed]
          /\ UNCHANGED <<active, disowned>>
    /\ Forget(r)
    /\ UNCHANGED <<trips, assigned, lost, user, ends>>

\* The stored ends with that of the active trip, under the driver who started it.
Kept(p) == IF \E i \in DOMAIN ends[p] : ends[p][i].trip = active[p].trip
           THEN ends[p] ELSE Append(ends[p], active[p])

\* endActiveTripLocally, in one write.
EndLocally(p) ==
    /\ op[p].kind = "failed"
    /\ active[p] # None
    /\ ends' = [ends EXCEPT ![p] = Kept(p)]
    /\ active' = [active EXCEPT ![p] = None]
    /\ op' = [op EXCEPT ![p] = Idle]
    /\ UNCHANGED <<server, user, disowned>>

-----------------------------------------------------------------------------
(* Calls that are not waited for.                                          *)

\* A timeout, the screen left, the process killed: the call goes on without a
\* caller.  Only a timed-out end leaves the dialog behind.
GiveUp(p) ==
    /\ op[p] # Idle
    /\ op' = [op EXCEPT ![p] = Idle]
       \/ /\ op[p].kind = "end"
          /\ op' = [op EXCEPT ![p] = Failed]
    /\ UNCHANGED <<server, user, active, ends, disowned>>

\* A reply nobody waits for.
DropReply(r) ==
    /\ Answered(r)
    /\ \A p \in Phone : ~Awaits(p, r)
    /\ lost' = IF req[r].pc = "created" THEN lost \cup {req[r].trip} ELSE lost
    /\ Forget(r)
    /\ UNCHANGED <<trips, assigned, phones, disowned>>

-----------------------------------------------------------------------------
Server == \E r \in Request : ServerStep(r) /\ UNCHANGED <<phones, disowned>>

Administrate == Admin /\ UNCHANGED <<phones, disowned>>

PhoneStep(p) ==
    \/ \E d \in Driver : SignIn(p, d)
    \/ \E v \in Vehicle : StartRun(p, v)
    \/ \E r \in Request :
         \/ SendUnconfirmedEnd(p, r) \/ UnconfirmedEndReply(p, r)
         \/ SendStartTrip(p, r) \/ StartReply(p, r)
         \/ End(p, r) \/ EndReply(p, r)
    \/ EndLocally(p)
    \/ GiveUp(p)

Next ==
    \/ \E p \in Phone : PhoneStep(p)
    \/ Server
    \/ Administrate
    \/ \E r \in Request : DropReply(r)

Spec == Init /\ [][Next]_vars

-----------------------------------------------------------------------------
(* Properties.                                                             *)

\* Phone p will name trip t to the server as its driver's own: as the trip to
\* resume or end, or as an end to send before the driver's next start.
Remembers(p, t) ==
    \/ active[p] = [trip |-> t, driver |-> trips[t].driver]
    \/ \E i \in DOMAIN ends[p] : ends[p][i] = [trip |-> t, driver |-> trips[t].driver]

\* The phone has not heard yet that trip t started.
BeingStarted(t) == \E r \in Request : req[r].pc = "created" /\ req[r].trip = t

\* A trip that is open on the server is known to the phone that can end it,
\* whatever failed, was repeated or came late, and whoever used the phone in
\* between.  Left out are a start nobody heard of and a 404 taken for an end.
NoTripIsForgotten ==
    \A t \in Trip :
        trips[t].status = "active" =>
            \/ \E p \in Phone : Remembers(p, t)
            \/ BeingStarted(t)
            \/ t \in lost \cup disowned

\* A start is never refused for a trip that was ended on the same phone: by the
\* time it is sent the server has heard of every such end (endUnconfirmedTrips).
StartIsNotBlockedByThisPhone ==
    \A p \in Phone, t \in Trip :
        /\ op[p].kind = "start" /\ op[p].todo = {} /\ op[p].call # None
        /\ trips[t].status = "active" /\ trips[t].driver = op[p].driver
        => ~Remembers(p, t)

\* What sendEnd says of a 404: "the server has no open trip of this driver's
\* under that id, which is what the end was for".  A trip that the phone drops
\* without keeping its end is over.
DroppedTripIsOver ==
    [][\A p \in Phone :
          active[p] # None /\ active'[p] = None /\ ends'[p] = ends[p]
              => trips'[active[p].trip].status = "completed"]_vars
=============================================================================
