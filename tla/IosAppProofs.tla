----------------------------- MODULE IosAppProofs -----------------------------
(***************************************************************************)
(* What the two halves of the iOS app promise, for any number of phones,    *)
(* drivers, trips and calls, and of requests, token pairs and strays.       *)
(*                                                                          *)
(* Trips: TripInv says what the three copies of a trip have to do with each *)
(* other: the phase, the file, and the row on the server.  Tokens:          *)
(* TokensInv says what the server would answer to each refresh token that   *)
(* the keychain, a trade, a stray or a waiting request holds.               *)
(***************************************************************************)
EXTENDS IosApp, TripsProofs, SequenceTheorems

-----------------------------------------------------------------------------
(* Trips: the invariant.                                                    *)

\* What a phone writes down of a trip is so: it did start, for that driver.
RecordTrue(e) ==
    trips[e.trip].status # "free" /\ trips[e.trip].driver = e.driver

\* Nobody would miss the trip.
Settled(t) == trips[t].status = "completed" \/ t \in letGo

Busy == {"idle", "starting"}

PhoneOK(p) ==
    /\ stored[p] # None => RecordTrue(stored[p])
    /\ phase[p].kind # "signedOut" \/ stored[p] # None => email[p] \in Driver
    /\ phase[p].kind \in Tracking =>
          stored[p] = phase[p].rec /\ phase[p].rec.driver = email[p]
    /\ phase[p].kind \in Busy /\ stored[p] # None => Settled(stored[p].trip)

\* A call that is awaited is in flight.  Only one start is, or its undoing, and
\* while it is the driver stays; an end may outlast the trip it was for.
WaitOK(r) ==
    LET w == wait[r]
        p == w.phone
    IN /\ w # NoWait => p # None /\ req[r].pc # "free"
       /\ p # None => w.for \in {"start", "undo", "end"}
       /\ w.for = "start" => StartCall(req[r]) /\ req[r].driver = email[p]
       /\ w.for = "undo" => EndCall(req[r])
       /\ w.for \in {"start", "undo"} => phase[p].kind = "starting"
       /\ w.for = "end" =>
             /\ EndCall(req[r])
             /\ w.before \in {"active", "paused"} /\ w.rec \in Record
             /\ RecordTrue(w.rec)
             /\ req[r].trip = w.rec.trip /\ req[r].driver = w.rec.driver
             /\ Ended(r) => trips[w.rec.trip].status = "completed"

OneStart ==
    \A q, r \in Request :
        /\ wait[q].for \in {"start", "undo"} /\ wait[r].for \in {"start", "undo"}
        /\ wait[q].phone = wait[r].phone
        => q = r

PhonesTyped ==
    /\ email \in [Phone -> Driver \cup {None}]
    /\ phase \in [Phone -> Phase]
    /\ stored \in [Phone -> Record \cup {None}]
    /\ wait \in [Request -> Wait]
    /\ letGo \subseteq Trip

TripInv ==
    /\ ServerInv
    /\ PhonesTyped
    /\ \A p \in Phone : PhoneOK(p)
    /\ \A r \in Request : WaitOK(r)
    /\ OneStart
    /\ NoTripIsForgotten

-----------------------------------------------------------------------------
(* Values.                                                                  *)

LEMMA TripInitial == Init => TripInv
<1> SUFFICES ASSUME Init PROVE TripInv
  OBVIOUS
<1>1. ServerInv
  BY ServerInitial DEF Init
<1>2. PhonesTyped
  BY DEF Init, PhonesTyped, Phase, SignedOut, Wait, NoWait
<1>3. \A p \in Phone : PhoneOK(p)
  BY DEF Init, PhoneOK, SignedOut, Tracking, Busy
<1>4. (\A r \in Request : WaitOK(r)) /\ OneStart
  BY DEF Init, WaitOK, OneStart, NoWait
<1>5. NoTripIsForgotten
  BY DEF Init, ServerInit, NoTripIsForgotten
<1> QED BY <1>1, <1>2, <1>3, <1>4, <1>5 DEF TripInv

LEMMA NoWaitIsAWait ==
    /\ NoWait \in Wait
    /\ NoWait.phone = None /\ NoWait.for = ""
BY DEF NoWait, Wait

\* A trip in the file is a trip, and not the sign of an empty file.
LEMMA FiledIsARecord ==
    ASSUME NEW p \in Phone, NEW t \in Trip, NEW d \in Driver,
           stored[p] = [trip |-> t, driver |-> d]
    PROVE  stored[p] # None /\ stored[p].trip = t
BY NoneIsNoRecord DEF Record

\* A phase says what it is, and has a record only while a trip is tracked.
LEMMA PhaseKinds ==
    ASSUME NEW ph \in Phase
    PROVE  /\ ph.kind \in Tracking => ph.rec \in Record
           /\ ph.kind \notin Tracking => ph \in {SignedOut, Idle, Starting}
           /\ \A k \in Tracking : ph.kind \in Tracking =>
                 /\ [ph EXCEPT !.kind = k] \in Phase
                 /\ [ph EXCEPT !.kind = k].kind = k
                 /\ [ph EXCEPT !.kind = k].rec = ph.rec
BY DEF Phase, Tracking, SignedOut, Idle, Starting

\* No trip is started from a phone that is not starting one.
LEMMA NobodyStarts ==
    ASSUME TripInv, NEW p \in Phone, phase[p].kind # "starting",
           NEW r \in Request, wait[r].phone = p
    PROVE  wait[r].for = "end"
BY NoneIsNoRecord DEF TripInv, WaitOK, PhonesTyped, Wait

\* A call that still changes the server is a call a phone may have made, and a
\* phone's copies stay true of every trip on it.
LEMMA ServerSide ==
    ASSUME TripInv, NEW r \in Request, ServerStep(r), UNCHANGED <<phones, letGo>>
    PROVE  TripInv'
<1>1. ServerInv' /\ StepFacts(r)
  BY ServerStepInv DEF TripInv
<1>2. RowsGrow
  BY <1>1 DEF StepFacts
<1>3. PhonesTyped'
  BY DEF TripInv, PhonesTyped, phones
<1>4. ASSUME NEW e \in Record, RecordTrue(e)
      PROVE  RecordTrue(e)'
  BY <1>2, <1>4 DEF RecordTrue, RowsGrow, Record
<1>5. ASSUME NEW p \in Phone PROVE PhoneOK(p)'
  <2>1. stored[p] \in Record \cup {None} /\ PhoneOK(p)
    BY DEF TripInv, PhonesTyped
  <2>2. stored'[p] # None => RecordTrue(stored[p])'
    BY <1>4, <2>1 DEF PhoneOK, phones
  <2>3. stored[p] # None /\ Settled(stored[p].trip) => Settled(stored[p].trip)'
    BY <1>2, <2>1 DEF Settled, RowsGrow, Record, phones
  <2> QED BY <2>1, <2>2, <2>3 DEF PhoneOK, phones, RecordTrue, Settled
<1>6. ASSUME NEW q \in Request PROVE WaitOK(q)'
  <2>1. WaitOK(q) /\ wait' = wait /\ phase' = phase /\ email' = email
    BY DEF TripInv, phones
  <2>2. CASE q # r
    <3>1. req'[q] = req[q]
      BY <1>1, <2>2 DEF StepFacts
    <3>2. wait[q].for = "end" => RecordTrue(wait[q].rec)'
      BY <1>4, <2>1 DEF WaitOK
    <3>3. wait[q].for = "end" /\ Ended(q)' => trips'[wait[q].rec.trip].status = "completed"
      BY <1>2, <2>1, <3>1 DEF WaitOK, Ended, RowsGrow, Record
    <3> QED BY <2>1, <3>1, <3>2, <3>3 DEF WaitOK, RecordTrue, Ended, StartCall, EndCall
  <2>3. CASE q = r
    <3>1. wait[r].for = "end" => RecordTrue(wait[r].rec)'
      BY <1>4, <2>1, <2>3 DEF WaitOK
    <3>2. wait[r].for = "end" /\ Ended(r)' => trips'[wait[r].rec.trip].status = "completed"
      BY <1>1, <2>1, <2>3 DEF WaitOK, Ended, StepFacts, RecordTrue
    <3>3. /\ req'[r].pc # "free" /\ req'[r].driver = req[r].driver
          /\ StartCall(req[r]) => StartCall(req'[r])
          /\ EndCall(req[r]) => EndCall(req'[r]) /\ req'[r].trip = req[r].trip
      BY <1>1 DEF StepFacts
    <3> QED BY <2>1, <2>3, <3>1, <3>2, <3>3 DEF WaitOK, RecordTrue, Ended
  <2> QED BY <2>2, <2>3
<1>7. OneStart'
  BY DEF TripInv, OneStart, phones
<1>8. NoTripIsForgotten'
  <2> SUFFICES ASSUME NEW t \in Trip, trips'[t].status = "active"
               PROVE  \/ \E p \in Phone : stored'[p] = [trip |-> t, driver |-> trips'[t].driver]
                      \/ \E q \in Request : req'[q].pc = "created" /\ req'[q].trip = t
                      \/ t \in lost' \cup letGo'
    BY DEF NoTripIsForgotten
  <2>1. CASE trips[t].status = "active"
    <3>1. trips'[t].driver = trips[t].driver
      BY <1>2, <2>1 DEF RowsGrow
    <3>2. CASE \E p \in Phone : stored[p] = [trip |-> t, driver |-> trips[t].driver]
      BY <3>1, <3>2 DEF phones
    <3>3. CASE \E q \in Request : req[q].pc = "created" /\ req[q].trip = t
      BY <1>1, <3>3 DEF StepFacts, Reply
    <3>4. CASE t \in lost \cup letGo
      BY <1>1, <3>4 DEF StepFacts
    <3> QED BY <2>1, <3>2, <3>3, <3>4 DEF TripInv, NoTripIsForgotten
  <2>2. CASE trips[t].status # "active"
    BY <1>1, <2>2 DEF StepFacts
  <2> QED BY <2>1, <2>2
<1> QED BY <1>1, <1>3, <1>5, <1>6, <1>7, <1>8 DEF TripInv

-----------------------------------------------------------------------------
(* Steps of a phone.                                                        *)

\* Nothing else of phone p is another phone's.
OnlyPhone(p) ==
    \A q \in Phone : q # p =>
        email'[q] = email[q] /\ phase'[q] = phase[q] /\ stored'[q] = stored[q]

\* The file of phone p still has its trip, or nobody would miss that.
FileKept(p) ==
    \/ stored'[p] = stored[p] \/ stored[p] = None
    \/ trips'[stored[p].trip].status = "completed" \/ stored[p].trip \in letGo'

\* A step that makes no call and takes no answer.
LEMMA PhoneAlone ==
    ASSUME TripInv, NEW p \in Phone, UNCHANGED server, letGo \subseteq letGo',
           PhonesTyped', OnlyPhone(p), PhoneOK(p)', FileKept(p),
           \/ wait' = wait /\ phase[p].kind # "starting"
           \/ wait' = [r \in Request |-> IF wait[r].phone = p THEN NoWait ELSE wait[r]]
    PROVE  TripInv'
<1>1. ServerInv'
  BY SameServer DEF TripInv
<1>2. UNCHANGED <<trips, req, lost>>
  BY DEF server
<1>3. ASSUME NEW q \in Phone, q # p PROVE PhoneOK(q)'
  <2>1. PhoneOK(q) /\ stored[q] \in Record \cup {None} /\ stored' \in [Phone -> Record \cup {None}]
    BY DEF TripInv, PhonesTyped
  <2>2. email'[q] = email[q] /\ phase'[q] = phase[q] /\ stored'[q] = stored[q]
    BY <1>3 DEF OnlyPhone
  <2> QED BY <1>2, <2>1, <2>2 DEF PhoneOK, RecordTrue, Settled
<1>4. ASSUME NEW r \in Request PROVE WaitOK(r)'
  <2>1. wait[r] \in Wait /\ WaitOK(r) /\ wait \in [Request -> Wait]
    BY DEF TripInv, PhonesTyped
  <2>2. CASE wait'[r] = NoWait
    BY <2>2, NoWaitIsAWait DEF WaitOK
  <2>3. CASE wait'[r] = wait[r] /\ wait[r].phone # p
    <3>1. wait[r].phone = None \/ wait[r].phone \in Phone \ {p}
      BY <2>1, <2>3 DEF Wait
    <3>2. CASE wait[r].phone = None
      BY <2>1, <2>2, <2>3, <3>2 DEF WaitOK
    <3>3. CASE wait[r].phone \in Phone \ {p}
      BY <1>2, <2>1, <2>3, <3>3 DEF WaitOK, OnlyPhone, RecordTrue, Ended, StartCall, EndCall
    <3> QED BY <3>1, <3>2, <3>3
  <2>4. CASE wait'[r] = wait[r] /\ wait[r].phone = p /\ phase[p].kind # "starting"
    <3>1. wait[r].for = "end"
      BY <2>4, NobodyStarts
    <3> QED BY <1>2, <2>1, <2>4, <3>1 DEF WaitOK, RecordTrue, Ended, EndCall
  <2> QED BY <2>1, <2>2, <2>3, <2>4
<1>5. OneStart'
  <2>1. \A r \in Request : wait'[r] = NoWait \/ wait'[r] = wait[r]
    BY DEF TripInv, PhonesTyped
  <2> QED BY <2>1, NoWaitIsAWait DEF TripInv, OneStart
<1>6. NoTripIsForgotten'
  <2> SUFFICES ASSUME NEW t \in Trip, trips'[t].status = "active"
               PROVE  \/ \E q \in Phone : stored'[q] = [trip |-> t, driver |-> trips'[t].driver]
                      \/ \E q \in Request : req'[q].pc = "created" /\ req'[q].trip = t
                      \/ t \in lost' \cup letGo'
    BY DEF NoTripIsForgotten
  <2>1. CASE \E q \in Phone : stored[q] = [trip |-> t, driver |-> trips[t].driver]
    <3>1. PICK q \in Phone : stored[q] = [trip |-> t, driver |-> trips[t].driver]
      BY <2>1
    <3>2. CASE q # p
      BY <1>2, <3>1, <3>2 DEF OnlyPhone
    <3>3. CASE q = p
      <4>1. trips[t].driver \in Driver
        BY <1>2 DEF TripInv, ServerInv, Owned
      <4> QED BY <1>2, <3>1, <3>3, <4>1, FiledIsARecord DEF FileKept, Settled
    <3> QED BY <3>2, <3>3
  <2>2. CASE \E q \in Request : req[q].pc = "created" /\ req[q].trip = t
    BY <1>2, <2>2
  <2> QED BY <1>2, <2>1, <2>2 DEF TripInv, NoTripIsForgotten
<1> QED BY <1>1, <1>3, <1>4, <1>5, <1>6 DEF TripInv

\* A step that makes call r, takes its answer or gives it up.
LEMMA PhoneCalls ==
    ASSUME TripInv, NEW p \in Phone, NEW r \in Request,
           UNCHANGED <<trips, email, letGo>>, lost \subseteq lost', ServerInv',
           PhonesTyped', OnlyPhone(p), PhoneOK(p)', FileKept(p), WaitOK(r)',
           \A q \in Request : q # r => wait'[q] = wait[q] /\ req'[q] = req[q],
           req'[r] = req[r] \/ (req[r].pc = "created" =>
              \/ req[r].trip \in lost'
              \/ stored'[p] = [trip |-> req[r].trip, driver |-> trips[req[r].trip].driver]),
           \/ phase'[p] = phase[p]
           \/ \A q \in Request : q # r /\ wait[q].phone = p => wait[q].for = "end",
           wait'[r].for \in {"start", "undo"} =>
              /\ wait'[r].phone = p
              /\ \A q \in Request : q # r /\ wait[q].phone = p => wait[q].for = "end"
    PROVE  TripInv'
<1>1. ASSUME NEW q \in Phone, q # p PROVE PhoneOK(q)'
  <2>1. PhoneOK(q) /\ stored[q] \in Record \cup {None} /\ stored' \in [Phone -> Record \cup {None}]
    BY DEF TripInv, PhonesTyped
  <2>2. email'[q] = email[q] /\ phase'[q] = phase[q] /\ stored'[q] = stored[q]
    BY <1>1 DEF OnlyPhone
  <2> QED BY <2>1, <2>2 DEF PhoneOK, RecordTrue, Settled
<1>2. ASSUME NEW q \in Request, q # r PROVE WaitOK(q)'
  <2>1. wait[q] \in Wait /\ WaitOK(q) /\ wait'[q] = wait[q] /\ req'[q] = req[q]
    BY <1>2 DEF TripInv, PhonesTyped
  <2>2. CASE wait[q].for = "end"
    BY <2>1, <2>2 DEF WaitOK, RecordTrue, Ended, EndCall
  <2>3. CASE wait[q].for # "end"
    <3>1. wait[q].phone \in Phone \cup {None}
      BY <2>1 DEF Wait
    <3>2. wait[q].phone \in Phone => phase'[wait[q].phone] = phase[wait[q].phone]
      BY <1>2, <2>3 DEF OnlyPhone
    <3>3. wait[q].phone = None => wait[q] = NoWait
      BY <2>1 DEF WaitOK
    <3>4. CASE wait[q].phone = None
      BY <2>1, <3>3, <3>4, NoWaitIsAWait DEF WaitOK
    <3>5. CASE wait[q].phone \in Phone
      BY <2>1, <2>3, <3>2, <3>5, NoneIsNoRecord DEF WaitOK, StartCall, EndCall
    <3> QED BY <3>1, <3>4, <3>5
  <2> QED BY <2>2, <2>3
<1>3. OneStart'
  BY DEF TripInv, OneStart
<1>4. NoTripIsForgotten'
  <2> SUFFICES ASSUME NEW t \in Trip, trips'[t].status = "active"
               PROVE  \/ \E q \in Phone : stored'[q] = [trip |-> t, driver |-> trips'[t].driver]
                      \/ \E q \in Request : req'[q].pc = "created" /\ req'[q].trip = t
                      \/ t \in lost' \cup letGo'
    BY DEF NoTripIsForgotten
  <2>1. CASE \E q \in Phone : stored[q] = [trip |-> t, driver |-> trips[t].driver]
    <3>1. PICK q \in Phone : stored[q] = [trip |-> t, driver |-> trips[t].driver]
      BY <2>1
    <3>2. CASE q # p
      BY <3>1, <3>2 DEF OnlyPhone
    <3>3. CASE q = p
      <4>1. trips[t].driver \in Driver
        BY DEF TripInv, ServerInv, Owned
      <4> QED BY <3>1, <3>3, <4>1, FiledIsARecord DEF FileKept
    <3> QED BY <3>2, <3>3
  <2>2. CASE \E q \in Request : req[q].pc = "created" /\ req[q].trip = t
    <3>1. PICK q \in Request : req[q].pc = "created" /\ req[q].trip = t
      BY <2>2
    <3>2. CASE req'[q] = req[q]
      BY <3>1, <3>2
    <3>3. CASE q = r /\ (t \in lost' \/ stored'[p] = [trip |-> t, driver |-> trips[t].driver])
      BY <3>3
    <3> QED BY <3>1, <3>2, <3>3
  <2> QED BY <2>1, <2>2 DEF TripInv, NoTripIsForgotten
<1> QED BY <1>1, <1>2, <1>3, <1>4 DEF TripInv

-----------------------------------------------------------------------------
(* Signing in and out, and launching.                                       *)

LEMMA FixedPhases ==
    /\ {SignedOut, Idle, Starting} \subseteq Phase
    /\ SignedOut.kind = "signedOut" /\ Idle.kind = "idle" /\ Starting.kind = "starting"
    /\ \A e \in Record, k \in Tracking : [kind |-> k, rec |-> e] \in Phase
    /\ Tracking \cap {"signedOut", "idle", "starting"} = {}
BY DEF Phase, SignedOut, Idle, Starting, Tracking

\* adoptStoredTrip, for whoever the phone is then signed in as.
LEMMA AdoptOK ==
    ASSUME TripInv, NEW p \in Phone, NEW d \in Driver, Adopt(p, d),
           UNCHANGED trips, email'[p] = d
    PROVE  /\ phase' \in [Phone -> Phase]
           /\ stored' \in [Phone -> Record \cup {None}]
           /\ letGo \subseteq letGo' /\ letGo' \subseteq Trip
           /\ PhoneOK(p)' /\ FileKept(p)
           /\ \A q \in Phone : q # p => phase'[q] = phase[q] /\ stored'[q] = stored[q]
           /\ phase'[p].kind \in {"idle", "paused"}
           /\ phase'[p].kind = "idle" => stored[p] = None \/ stored[p].driver # d
<1>1. PhonesTyped /\ PhoneOK(p) /\ stored[p] \in Record \cup {None}
  BY DEF TripInv, PhonesTyped
<1>2. CASE stored[p] = None /\ Enter(p, Idle) /\ UNCHANGED <<stored, letGo>>
  BY <1>1, <1>2, FixedPhases DEF PhonesTyped, Enter, PhoneOK, FileKept, Busy, Idle
<1>3. CASE /\ stored[p] # None /\ stored[p].driver = d
           /\ Enter(p, [kind |-> "paused", rec |-> stored[p]])
           /\ UNCHANGED <<stored, letGo>>
  <2>1. PICK ph : ph = [kind |-> "paused", rec |-> stored[p]]
    OBVIOUS
  <2>2. ph \in Phase /\ ph.kind = "paused" /\ ph.rec = stored[p]
    BY <1>1, <1>3, <2>1, FixedPhases DEF Tracking
  <2>3. phase' = [phase EXCEPT ![p] = ph]
    BY <1>3, <2>1 DEF Enter
  <2>4. phase' \in [Phone -> Phase] /\ phase'[p] = ph
    BY <1>1, <2>2, <2>3 DEF PhonesTyped
  <2>5. PhoneOK(p)'
    BY <1>1, <1>3, <2>2, <2>4 DEF PhoneOK, RecordTrue, Tracking, Busy
  <2> QED BY <1>1, <1>3, <2>2, <2>3, <2>4, <2>5 DEF PhonesTyped, FileKept
<1>4. CASE /\ stored[p] # None /\ stored[p].driver # d
           /\ Enter(p, Idle) /\ Clear(p) /\ letGo' = letGo \cup {stored[p].trip}
  <2>1. stored[p].trip \in Trip
    BY <1>1, <1>4 DEF Record
  <2>2. PICK left \in {None, stored[p]} : stored' = [stored EXCEPT ![p] = left]
    BY <1>4 DEF Clear
  <2>3. stored' \in [Phone -> Record \cup {None}] /\ stored'[p] = left
    BY <1>1, <2>2 DEF PhonesTyped
  <2>4. phase' \in [Phone -> Phase] /\ phase'[p] = Idle
    BY <1>1, <1>4, FixedPhases DEF PhonesTyped, Enter
  <2>5. PhoneOK(p)'
    BY <1>1, <1>4, <2>3, <2>4, FixedPhases DEF PhoneOK, RecordTrue, Settled, Tracking
  <2>6. \A q \in Phone : q # p => phase'[q] = phase[q] /\ stored'[q] = stored[q]
    BY <1>1, <1>4, <2>2 DEF Enter, PhonesTyped
  <2> QED BY <1>1, <1>4, <2>1, <2>3, <2>4, <2>5, <2>6, FixedPhases DEF PhonesTyped, FileKept
<1> QED BY <1>2, <1>3, <1>4 DEF Adopt

\* What TornDownOnlyWhenEnded asks of a step.
OnlyWhenEnded ==
    \A p \in Phone :
        phase[p].kind \in Tracking /\ phase'[p].kind = "idle" =>
            LET t == phase[p].rec.trip
            IN trips'[t].status = "completed" \/ t \in letGo'

\* A phase that is not torn down.
LEMMA NotTornDown ==
    ASSUME NEW p \in Phone, OnlyPhone(p),
           phase[p].kind \notin Tracking \/ phase'[p].kind # "idle"
    PROVE  OnlyWhenEnded
BY FixedPhases DEF OnlyWhenEnded, OnlyPhone

LEMMA SignInInv ==
    ASSUME TripInv, NEW p \in Phone, NEW d \in Driver, SignIn(p, d)
    PROVE  TripInv' /\ OnlyWhenEnded
<1>1. PhonesTyped /\ UNCHANGED <<trips, wait>> /\ UNCHANGED server /\ phase[p] = SignedOut
  BY DEF TripInv, SignIn, server
<1>2. email' \in [Phone -> Driver \cup {None}] /\ email'[p] = d
      /\ \A q \in Phone : q # p => email'[q] = email[q]
  BY <1>1 DEF SignIn, PhonesTyped
<1>3. Adopt(p, d)
  BY DEF SignIn
<1>4. /\ phase' \in [Phone -> Phase] /\ stored' \in [Phone -> Record \cup {None}]
      /\ letGo \subseteq letGo' /\ letGo' \subseteq Trip
      /\ PhoneOK(p)' /\ FileKept(p)
      /\ \A q \in Phone : q # p => phase'[q] = phase[q] /\ stored'[q] = stored[q]
  BY <1>1, <1>2, <1>3, AdoptOK
<1>5. OnlyPhone(p) /\ PhonesTyped'
  BY <1>1, <1>2, <1>4 DEF OnlyPhone, PhonesTyped
<1> QED BY <1>1, <1>4, <1>5, PhoneAlone, NotTornDown, FixedPhases

LEMMA RelaunchInv ==
    ASSUME TripInv, NEW p \in Phone, Relaunch(p)
    PROVE  TripInv' /\ OnlyWhenEnded
<1>1. /\ PhonesTyped /\ PhoneOK(p) /\ UNCHANGED <<trips, email>> /\ UNCHANGED server
      /\ wait' = [r \in Request |-> IF wait[r].phone = p THEN NoWait ELSE wait[r]]
  BY DEF TripInv, Relaunch, server
<1>2. wait' \in [Request -> Wait]
  BY <1>1, NoWaitIsAWait DEF PhonesTyped
<1>3. CASE phase[p] # SignedOut /\ Adopt(p, email[p])
  <2>1. phase[p].kind # "signedOut"
    BY <1>1, <1>3, PhaseKinds, FixedPhases DEF PhonesTyped
  <2>2. email[p] \in Driver
    BY <1>1, <2>1 DEF PhoneOK
  <2>3. /\ phase' \in [Phone -> Phase] /\ stored' \in [Phone -> Record \cup {None}]
        /\ letGo \subseteq letGo' /\ letGo' \subseteq Trip
        /\ PhoneOK(p)' /\ FileKept(p)
        /\ \A q \in Phone : q # p => phase'[q] = phase[q] /\ stored'[q] = stored[q]
        /\ phase'[p].kind = "idle" => stored[p] = None \/ stored[p].driver # email[p]
    BY <1>1, <1>3, <2>2, AdoptOK
  <2>4. OnlyPhone(p) /\ PhonesTyped'
    BY <1>1, <1>2, <2>3 DEF OnlyPhone, PhonesTyped
  <2>5. phase[p].kind \in Tracking => phase'[p].kind # "idle"
    <3>1. phase[p] \in Phase
      BY <1>1 DEF PhonesTyped
    <3>2. phase[p].kind \in Tracking => phase[p].rec # None
      BY <3>1, PhaseKinds, NoneIsNoRecord
    <3> QED BY <1>1, <2>3, <3>2 DEF PhoneOK
  <2> QED BY <1>1, <2>3, <2>4, <2>5, PhoneAlone, NotTornDown
<1>4. CASE Enter(p, SignedOut) /\ UNCHANGED <<stored, letGo>>
  <2>1. /\ phase' \in [Phone -> Phase] /\ phase'[p] = SignedOut
        /\ \A q \in Phone : q # p => phase'[q] = phase[q]
    BY <1>1, <1>4, FixedPhases DEF Enter, PhonesTyped
  <2>2. OnlyPhone(p) /\ PhonesTyped' /\ FileKept(p)
    BY <1>1, <1>2, <1>4, <2>1 DEF OnlyPhone, PhonesTyped, FileKept
  <2>3. PhoneOK(p)'
    BY <1>1, <1>4, <2>1, FixedPhases DEF PhoneOK, RecordTrue, Busy
  <2> QED BY <1>1, <1>4, <2>1, <2>2, <2>3, FixedPhases, PhoneAlone, NotTornDown
<1> QED BY <1>3, <1>4 DEF Relaunch

LEMMA SignOutInv ==
    ASSUME TripInv, NEW p \in Phone, SignOut(p)
    PROVE  TripInv' /\ OnlyWhenEnded
<1>1. /\ PhonesTyped /\ PhoneOK(p) /\ UNCHANGED <<trips, email, stored, wait, letGo>>
      /\ UNCHANGED server /\ phase[p].kind # "starting"
  BY DEF TripInv, SignOut, server
<1>2. /\ phase' \in [Phone -> Phase] /\ phase'[p] = SignedOut
      /\ \A q \in Phone : q # p => phase'[q] = phase[q]
  BY <1>1, FixedPhases DEF SignOut, Enter, PhonesTyped
<1>3. OnlyPhone(p) /\ PhonesTyped' /\ FileKept(p)
  BY <1>1, <1>2 DEF OnlyPhone, PhonesTyped, FileKept
<1>4. PhoneOK(p)'
  BY <1>1, <1>2, FixedPhases DEF PhoneOK, RecordTrue, Busy
<1> QED BY <1>1, <1>2, <1>3, <1>4, FixedPhases, PhoneAlone, NotTornDown

LEMMA ResumeInv ==
    ASSUME TripInv, NEW p \in Phone, Resume(p)
    PROVE  TripInv' /\ OnlyWhenEnded
<1>1. /\ PhonesTyped /\ PhoneOK(p) /\ UNCHANGED <<trips, email, stored, wait, letGo>>
      /\ UNCHANGED server /\ phase[p].kind = "paused"
  BY DEF TripInv, Resume, server
<1>2. PICK ph : ph = [phase[p] EXCEPT !.kind = "active"]
  OBVIOUS
<1>3. ph \in Phase /\ ph.kind = "active" /\ ph.rec = phase[p].rec
  BY <1>1, <1>2, PhaseKinds DEF PhonesTyped, Tracking
<1>4. phase' = [phase EXCEPT ![p] = ph]
  BY <1>2 DEF Resume, Enter
<1>5. /\ phase' \in [Phone -> Phase] /\ phase'[p] = ph
      /\ \A q \in Phone : q # p => phase'[q] = phase[q]
  BY <1>1, <1>3, <1>4 DEF PhonesTyped
<1>6. OnlyPhone(p) /\ PhonesTyped' /\ FileKept(p)
  BY <1>1, <1>5 DEF OnlyPhone, PhonesTyped, FileKept
<1>7. PhoneOK(p)'
  BY <1>1, <1>3, <1>5 DEF PhoneOK, RecordTrue, Busy, Tracking
<1> QED BY <1>1, <1>3, <1>5, <1>6, <1>7, PhoneAlone, NotTornDown

\* stopTracking, once nobody would miss the trip.
LEMMA StopTrackingOK ==
    ASSUME TripInv, NEW p \in Phone, StopTracking(p), phase[p].kind \in Tracking,
           UNCHANGED <<trips, email>>,
           \/ trips[phase[p].rec.trip].status = "completed"
           \/ phase[p].rec.trip \in letGo'
    PROVE  /\ phase' \in [Phone -> Phase] /\ stored' \in [Phone -> Record \cup {None}]
           /\ OnlyPhone(p) /\ PhoneOK(p)' /\ FileKept(p) /\ OnlyWhenEnded
<1>1. PhonesTyped /\ PhoneOK(p)
  BY DEF TripInv
<1>2. /\ phase' \in [Phone -> Phase] /\ phase'[p] = Idle
      /\ \A q \in Phone : q # p => phase'[q] = phase[q]
  BY <1>1, FixedPhases DEF StopTracking, Enter, PhonesTyped
<1>3. stored[p] = phase[p].rec /\ stored[p] \in Record \cup {None}
  BY <1>1 DEF PhoneOK, PhonesTyped
<1>4. PICK left \in {None, stored[p]} : stored' = [stored EXCEPT ![p] = left]
  BY DEF StopTracking, Clear
<1>5. /\ stored' \in [Phone -> Record \cup {None}] /\ stored'[p] = left
      /\ \A q \in Phone : q # p => stored'[q] = stored[q]
  BY <1>1, <1>3, <1>4 DEF PhonesTyped
<1>6. PhoneOK(p)'
  BY <1>1, <1>2, <1>3, <1>5, FixedPhases DEF PhoneOK, RecordTrue, Settled
<1>7. OnlyPhone(p) /\ FileKept(p)
  BY <1>2, <1>3, <1>5 DEF OnlyPhone, FileKept
<1>8. OnlyWhenEnded
  BY <1>2, FixedPhases DEF OnlyWhenEnded
<1> QED BY <1>2, <1>5, <1>6, <1>7, <1>8

LEMMA EndLocallyInv ==
    ASSUME TripInv, NEW p \in Phone, EndLocally(p)
    PROVE  TripInv' /\ OnlyWhenEnded
<1>1. /\ PhonesTyped /\ UNCHANGED <<trips, email, wait>> /\ UNCHANGED server
      /\ phase[p].kind \in Tracking /\ StopTracking(p)
      /\ letGo' = letGo \cup {phase[p].rec.trip}
  BY DEF TripInv, EndLocally, server
<1>2. /\ phase' \in [Phone -> Phase] /\ stored' \in [Phone -> Record \cup {None}]
      /\ OnlyPhone(p) /\ PhoneOK(p)' /\ FileKept(p) /\ OnlyWhenEnded
  BY <1>1, StopTrackingOK
<1>3. phase[p].rec.trip \in Trip
  BY <1>1, PhaseKinds DEF PhonesTyped, Record
<1>4. PhonesTyped'
  BY <1>1, <1>2, <1>3 DEF PhonesTyped
<1> QED BY <1>1, <1>2, <1>4, FixedPhases, PhoneAlone

-----------------------------------------------------------------------------
(* Starting.                                                                *)

LEMMA AwaitOK ==
    ASSUME PhonesTyped, NEW r \in Request, NEW w \in Wait, Await(r, w)
    PROVE  /\ wait' \in [Request -> Wait] /\ wait'[r] = w
           /\ \A q \in Request : q # r => wait'[q] = wait[q]
BY DEF PhonesTyped, Await

LEMMA EnterOK ==
    ASSUME PhonesTyped, NEW p \in Phone, NEW ph \in Phase, Enter(p, ph)
    PROVE  /\ phase' \in [Phone -> Phase] /\ phase'[p] = ph
           /\ \A q \in Phone : q # p => phase'[q] = phase[q]
BY DEF PhonesTyped, Enter

\* While phone p starts a trip with call r, its other calls are ends.
LEMMA OthersEnd ==
    ASSUME TripInv, NEW p \in Phone, NEW r \in Request, wait[r].phone = p,
           wait[r].for \in {"start", "undo"}
    PROVE  /\ phase[p].kind = "starting"
           /\ \A q \in Request : q # r /\ wait[q].phone = p => wait[q].for = "end"
BY NoneIsNoRecord DEF TripInv, WaitOK, OneStart

LEMMA StartInv ==
    ASSUME TripInv, NEW p \in Phone, NEW v \in Vehicle, NEW r \in Request, Start(p, v, r)
    PROVE  TripInv' /\ OnlyWhenEnded
<1>1. /\ PhonesTyped /\ PhoneOK(p) /\ UNCHANGED <<trips, assigned, lost, email, stored, letGo>>
      /\ phase[p] = Idle /\ SendStart(r, email[p], v)
  BY DEF TripInv, Start
<1>2. email[p] \in Driver
  BY <1>1, FixedPhases DEF PhoneOK
<1>3. /\ ServerInv' /\ \A q \in Request : q # r => req'[q] = req[q]
      /\ req'[r].pc = "checkAssignment" /\ req'[r].driver = email[p]
  BY <1>1, <1>2, SendStartInv DEF TripInv
<1>4. PICK w : w = [NoWait EXCEPT !.phone = p, !.for = "start"]
  OBVIOUS
<1>5. w \in Wait /\ w.phone = p /\ w.for = "start"
  BY <1>4 DEF NoWait, Wait
<1>6. /\ wait' \in [Request -> Wait] /\ wait'[r] = w
      /\ \A q \in Request : q # r => wait'[q] = wait[q]
  BY <1>1, <1>4, <1>5, AwaitOK DEF Start
<1>7. /\ phase' \in [Phone -> Phase] /\ phase'[p] = Starting
      /\ \A q \in Phone : q # p => phase'[q] = phase[q]
  BY <1>1, EnterOK, FixedPhases DEF Start
<1>8. PhonesTyped' /\ OnlyPhone(p) /\ FileKept(p)
  BY <1>1, <1>6, <1>7 DEF PhonesTyped, OnlyPhone, FileKept
<1>9. PhoneOK(p)'
  BY <1>1, <1>7, FixedPhases DEF PhoneOK, RecordTrue, Settled, Busy
<1>10. req[r].pc # "created"
  BY <1>1, NoCallIsACall DEF SendStart
<1>11. WaitOK(r)'
  BY <1>1, <1>3, <1>5, <1>6, <1>7, FixedPhases, NoneIsNoRecord
     DEF WaitOK, StartCall, StartPC
<1>12. \A q \in Request : wait[q].phone = p => wait[q].for = "end"
  BY <1>1, FixedPhases, NobodyStarts
<1>13. TripInv'
  BY <1>1, <1>3, <1>5, <1>6, <1>8, <1>9, <1>10, <1>11, <1>12, PhoneCalls
<1> QED BY <1>1, <1>8, <1>13, FixedPhases, NotTornDown

LEMMA StartReplyInv ==
    ASSUME TripInv, NEW p \in Phone, NEW r \in Request, StartReply(p, r)
    PROVE  TripInv' /\ OnlyWhenEnded
<1>1. /\ PhonesTyped /\ PhoneOK(p) /\ WaitOK(r) /\ CallOK(r)
      /\ UNCHANGED <<trips, assigned, lost, email, letGo>>
      /\ wait[r].phone = p /\ wait[r].for = "start" /\ req[r].pc = "created"
      /\ Forget(r)
  BY DEF TripInv, ServerInv, StartReply
<1>2. /\ phase[p].kind = "starting" /\ req[r].driver = email[p]
      /\ \A q \in Request : q # r /\ wait[q].phone = p => wait[q].for = "end"
  BY <1>1, OthersEnd DEF WaitOK
<1>3. email[p] \in Driver
  BY <1>2, <1>1 DEF PhoneOK
<1>4. PICK e : e = Started(p, r)
  OBVIOUS
<1>5. /\ e \in Record /\ e.trip = req[r].trip /\ e.driver = email[p]
      /\ RecordTrue(e) /\ e = [trip |-> req[r].trip, driver |-> trips[req[r].trip].driver]
  BY <1>1, <1>2, <1>3, <1>4 DEF Started, Record, CallOK, RecordTrue
<1>6. PICK ph : ph = [kind |-> "active", rec |-> e]
  OBVIOUS
<1>7. ph \in Phase /\ ph.kind = "active" /\ ph.rec = e
  BY <1>5, <1>6, FixedPhases DEF Tracking
<1>8. /\ phase' \in [Phone -> Phase] /\ phase'[p] = ph
      /\ \A q \in Phone : q # p => phase'[q] = phase[q]
  BY <1>1, <1>4, <1>6, <1>7, EnterOK DEF StartReply
<1>9. stored' = [stored EXCEPT ![p] = e]
  BY <1>4 DEF StartReply
<1>10. /\ stored' \in [Phone -> Record \cup {None}] /\ stored'[p] = e
       /\ \A q \in Phone : q # p => stored'[q] = stored[q]
  BY <1>1, <1>5, <1>9 DEF PhonesTyped
<1>11. /\ wait' \in [Request -> Wait] /\ wait'[r] = NoWait
       /\ \A q \in Request : q # r => wait'[q] = wait[q]
  BY <1>1, NoWaitIsAWait, AwaitOK DEF StartReply
<1>12. /\ ServerInv' /\ \A q \in Request : q # r => req'[q] = req[q]
  BY <1>1, ForgetInv DEF TripInv, ServerInv, ServerTypeOK
<1>13. PhonesTyped' /\ OnlyPhone(p)
  BY <1>1, <1>8, <1>10, <1>11 DEF PhonesTyped, OnlyPhone
<1>14. PhoneOK(p)'
  BY <1>1, <1>3, <1>5, <1>7, <1>8, <1>10 DEF PhoneOK, RecordTrue, Busy
<1>15. FileKept(p)
  BY <1>1, <1>2 DEF PhoneOK, FileKept, Settled, Busy
<1>16. WaitOK(r)'
  BY <1>11, NoWaitIsAWait DEF WaitOK
<1>17. TripInv'
  BY <1>1, <1>2, <1>5, <1>10, <1>11, <1>12, <1>13, <1>14, <1>15, <1>16, NoWaitIsAWait, PhoneCalls
<1> QED BY <1>2, <1>13, <1>17, FixedPhases, NotTornDown

LEMMA UndoStartInv ==
    ASSUME TripInv, NEW p \in Phone, NEW r \in Request, UndoStart(p, r)
    PROVE  TripInv' /\ OnlyWhenEnded
<1>1. /\ PhonesTyped /\ PhoneOK(p) /\ WaitOK(r) /\ CallOK(r) /\ ServerInv
      /\ UNCHANGED <<trips, assigned, email, phase, stored, letGo>>
      /\ wait[r].phone = p /\ wait[r].for = "start" /\ req[r].pc = "created"
      /\ lost' = lost \cup {req[r].trip}
  BY DEF TripInv, ServerInv, UndoStart
<1>2. /\ phase[p].kind = "starting"
      /\ \A q \in Request : q # r /\ wait[q].phone = p => wait[q].for = "end"
  BY <1>1, OthersEnd
<1>3. PICK c : c = [req[r] EXCEPT !.pc = "end"]
  OBVIOUS
<1>4. req[r] \in Call /\ req[r].trip \in Trip
  BY <1>1 DEF ServerInv, ServerTypeOK, CallOK
<1>5. c \in Call /\ c.pc = "end" /\ c.trip = req[r].trip /\ c.driver = req[r].driver
  BY <1>3, <1>4 DEF Call, PC
<1>6. req' = [req EXCEPT ![r] = c]
  BY <1>3 DEF UndoStart
<1>7. /\ req' \in [Request -> Call] /\ req'[r] = c
      /\ \A q \in Request : q # r => req'[q] = req[q]
  BY <1>1, <1>5, <1>6 DEF ServerInv, ServerTypeOK
<1>8. ServerInv'
  <2>1. ServerTypeOK' /\ Owned' /\ OneActiveTripPerDriver'
    BY <1>1, <1>4, <1>7 DEF ServerInv, ServerTypeOK, Owned, OneActiveTripPerDriver
  <2>2. \A q \in Request : CallOK(q)'
    BY <1>1, <1>4, <1>5, <1>7 DEF ServerInv, CallOK, StartPC
  <2> QED BY <2>1, <2>2 DEF ServerInv
<1>9. PICK w : w = [NoWait EXCEPT !.phone = p, !.for = "undo"]
  OBVIOUS
<1>10. w \in Wait /\ w.phone = p /\ w.for = "undo"
  BY <1>9 DEF NoWait, Wait
<1>11. /\ wait' \in [Request -> Wait] /\ wait'[r] = w
       /\ \A q \in Request : q # r => wait'[q] = wait[q]
  BY <1>1, <1>9, <1>10, AwaitOK DEF UndoStart
<1>12. PhonesTyped' /\ OnlyPhone(p) /\ FileKept(p)
  BY <1>1, <1>11 DEF PhonesTyped, OnlyPhone, FileKept
<1>13. PhoneOK(p)'
  BY <1>1 DEF PhoneOK, RecordTrue, Settled
<1>14. WaitOK(r)'
  BY <1>1, <1>2, <1>4, <1>5, <1>7, <1>10, <1>11, NoneIsNoRecord DEF WaitOK, EndCall
<1>15. TripInv'
  BY <1>1, <1>2, <1>7, <1>8, <1>10, <1>11, <1>12, <1>13, <1>14, PhoneCalls
<1> QED BY <1>2, <1>12, <1>15, FixedPhases, NotTornDown

LEMMA StartFailsInv ==
    ASSUME TripInv, NEW p \in Phone, NEW r \in Request, StartFails(p, r)
    PROVE  TripInv' /\ OnlyWhenEnded
<1>1. /\ PhonesTyped /\ PhoneOK(p) /\ WaitOK(r)
      /\ UNCHANGED <<trips, assigned, lost, email, stored, letGo>>
      /\ wait[r].phone = p /\ wait[r].for \in {"start", "undo"} /\ Forget(r)
  BY DEF TripInv, StartFails
<1>2. req[r].pc # "created"
  BY <1>1 DEF WaitOK, EndCall, StartFails
<1>3. /\ phase[p].kind = "starting"
      /\ \A q \in Request : q # r /\ wait[q].phone = p => wait[q].for = "end"
  BY <1>1, OthersEnd
<1>4. /\ phase' \in [Phone -> Phase] /\ phase'[p] = Idle
      /\ \A q \in Phone : q # p => phase'[q] = phase[q]
  BY <1>1, EnterOK, FixedPhases DEF StartFails
<1>5. /\ wait' \in [Request -> Wait] /\ wait'[r] = NoWait
      /\ \A q \in Request : q # r => wait'[q] = wait[q]
  BY <1>1, NoWaitIsAWait, AwaitOK DEF StartFails
<1>6. ServerInv' /\ \A q \in Request : q # r => req'[q] = req[q]
  BY <1>1, ForgetInv DEF TripInv, ServerInv, ServerTypeOK
<1>7. PhonesTyped' /\ OnlyPhone(p) /\ FileKept(p)
  BY <1>1, <1>4, <1>5 DEF PhonesTyped, OnlyPhone, FileKept
<1>8. PhoneOK(p)'
  BY <1>1, <1>3, <1>4, FixedPhases DEF PhoneOK, RecordTrue, Settled, Busy
<1>9. WaitOK(r)'
  BY <1>5, NoWaitIsAWait DEF WaitOK
<1>10. TripInv'
  BY <1>1, <1>2, <1>3, <1>5, <1>6, <1>7, <1>8, <1>9, NoWaitIsAWait, PhoneCalls
<1> QED BY <1>3, <1>7, <1>10, FixedPhases, NotTornDown

-----------------------------------------------------------------------------
(* Ending.                                                                  *)

LEMMA EndCallInv ==
    ASSUME TripInv, NEW p \in Phone, NEW r \in Request, End(p, r)
    PROVE  TripInv' /\ OnlyWhenEnded
<1> DEFINE e == phase[p].rec
<1>1. /\ PhonesTyped /\ PhoneOK(p) /\ UNCHANGED <<trips, assigned, lost, email, stored, letGo>>
      /\ phase[p].kind \in {"active", "paused"} /\ SendEnd(r, email[p], e.trip)
  BY DEF TripInv, End
<1>2. phase[p] \in Phase /\ e \in Record /\ stored[p] = e /\ e.driver = email[p]
  BY <1>1, PhaseKinds DEF PhonesTyped, PhoneOK, Tracking
<1>3. e # None /\ RecordTrue(e) /\ email[p] \in Driver /\ e.trip \in Trip
  BY <1>1, <1>2, NoneIsNoRecord DEF PhoneOK, Record
<1>4. /\ ServerInv' /\ \A q \in Request : q # r => req'[q] = req[q]
      /\ req'[r].pc = "end" /\ req'[r].driver = email[p] /\ req'[r].trip = e.trip
  BY <1>1, <1>3, SendEndInv DEF TripInv
<1>5. PICK w : w = [phone |-> p, for |-> "end", before |-> phase[p].kind, rec |-> e]
  OBVIOUS
<1>6. w \in Wait /\ w.phone = p /\ w.for = "end" /\ w.before = phase[p].kind /\ w.rec = e
  BY <1>1, <1>2, <1>5 DEF Wait
<1>7. /\ wait' \in [Request -> Wait] /\ wait'[r] = w
      /\ \A q \in Request : q # r => wait'[q] = wait[q]
  BY <1>1, <1>5, <1>6, AwaitOK DEF End
<1>8. PICK ph : ph = [phase[p] EXCEPT !.kind = "ending"]
  OBVIOUS
<1>9. ph \in Phase /\ ph.kind = "ending" /\ ph.rec = e
  BY <1>1, <1>2, <1>8, PhaseKinds DEF Tracking
<1>10. /\ phase' \in [Phone -> Phase] /\ phase'[p] = ph
       /\ \A q \in Phone : q # p => phase'[q] = phase[q]
  BY <1>1, <1>8, <1>9, EnterOK DEF End
<1>11. PhonesTyped' /\ OnlyPhone(p) /\ FileKept(p)
  BY <1>1, <1>7, <1>10 DEF PhonesTyped, OnlyPhone, FileKept
<1>12. PhoneOK(p)'
  BY <1>1, <1>2, <1>3, <1>9, <1>10 DEF PhoneOK, RecordTrue, Busy, Tracking
<1>13. req[r].pc # "created"
  BY <1>1, NoCallIsACall DEF SendEnd
<1>14. WaitOK(r)'
  BY <1>1, <1>2, <1>3, <1>4, <1>6, <1>7, NoneIsNoRecord DEF WaitOK, EndCall, Ended, RecordTrue
<1>15. \A q \in Request : wait[q].phone = p => wait[q].for = "end"
  BY <1>1, NobodyStarts
<1>16. TripInv'
  BY <1>1, <1>4, <1>6, <1>7, <1>11, <1>12, <1>13, <1>14, <1>15, PhoneCalls
<1> QED BY <1>9, <1>10, <1>11, <1>16, NotTornDown

\* Only the phase that the end itself set is its own to change: of the two
\* steps of its answer, and of its timing out, each may meet another trip.
LEMMA AnsweredEnd ==
    ASSUME TripInv, NEW p \in Phone, NEW r \in Request, wait[r].phone = p,
           wait[r].for = "end", StillEnding(p, r)
    PROVE  /\ phase[p] \in Phase /\ phase[p].kind = "ending" /\ phase[p].kind \in Tracking
           /\ phase[p].rec = wait[r].rec /\ wait[r].rec \in Record
           /\ stored[p] = wait[r].rec /\ RecordTrue(wait[r].rec)
           /\ wait[r].rec.driver = email[p]
           /\ \A q \in Request : wait[q].phone = p => wait[q].for = "end"
<1>1. PhonesTyped /\ PhoneOK(p) /\ WaitOK(r)
  BY DEF TripInv
<1>2. phase[p] \in Phase /\ phase[p].kind = "ending" /\ phase[p].rec = wait[r].rec
  BY <1>1 DEF PhonesTyped, StillEnding
<1>3. \A q \in Request : wait[q].phone = p => wait[q].for = "end"
  BY <1>2, NobodyStarts
<1> QED BY <1>1, <1>2, <1>3 DEF PhoneOK, WaitOK, Tracking

\* The phase goes back to what it was before the end.
LEMMA BackTo ==
    ASSUME TripInv, NEW p \in Phone, NEW r \in Request, wait[r].phone = p,
           wait[r].for = "end", StillEnding(p, r),
           Enter(p, [phase[p] EXCEPT !.kind = wait[r].before]),
           UNCHANGED <<trips, email, stored, letGo>>
    PROVE  /\ phase' \in [Phone -> Phase] /\ phase'[p].kind # "idle"
           /\ OnlyPhone(p) /\ PhoneOK(p)' /\ FileKept(p)
<1>1. PhonesTyped /\ PhoneOK(p) /\ WaitOK(r)
  BY DEF TripInv
<1>2. wait[r].before \in {"active", "paused"}
  BY <1>1 DEF WaitOK
<1>3. PICK ph : ph = [phase[p] EXCEPT !.kind = wait[r].before]
  OBVIOUS
<1>4. ph \in Phase /\ ph.kind \in {"active", "paused"} /\ ph.rec = phase[p].rec
  <2>1. phase[p] \in Phase /\ phase[p].kind \in Tracking
    BY AnsweredEnd
  <2>2. PICK k \in Tracking : k = wait[r].before
    BY <1>2 DEF Tracking
  <2>3. ph = [phase[p] EXCEPT !.kind = k]
    BY <1>3, <2>2
  <2> QED BY <1>2, <2>1, <2>2, <2>3, PhaseKinds
<1>5. /\ phase' \in [Phone -> Phase] /\ phase'[p] = ph
      /\ \A q \in Phone : q # p => phase'[q] = phase[q]
  BY <1>1, <1>3, <1>4, EnterOK
<1>6. PhoneOK(p)'
  BY <1>1, <1>4, <1>5, AnsweredEnd DEF PhoneOK, RecordTrue, Busy, Tracking
<1> QED BY <1>4, <1>5, <1>6 DEF OnlyPhone, FileKept

\* Nothing on the phone changes.
LEMMA PhoneSame ==
    ASSUME TripInv, NEW p \in Phone, UNCHANGED <<trips, email, stored, phase, letGo>>
    PROVE  /\ phase' \in [Phone -> Phase] /\ OnlyPhone(p) /\ PhoneOK(p)' /\ FileKept(p)
           /\ OnlyWhenEnded
BY FixedPhases DEF TripInv, PhonesTyped, OnlyPhone, PhoneOK, FileKept, OnlyWhenEnded,
   RecordTrue, Settled

LEMMA EndReplyInv ==
    ASSUME TripInv, NEW p \in Phone, NEW r \in Request, EndReply(p, r)
    PROVE  TripInv' /\ OnlyWhenEnded
<1>1. /\ PhonesTyped /\ WaitOK(r)
      /\ UNCHANGED <<trips, assigned, lost, email, letGo>>
      /\ wait[r].phone = p /\ wait[r].for = "end" /\ Ended(r) /\ Forget(r)
      /\ req[r].pc # "created"
  BY DEF TripInv, EndReply, Ended
<1>2. trips[wait[r].rec.trip].status = "completed"
  BY <1>1 DEF WaitOK
<1>3. /\ wait' \in [Request -> Wait] /\ wait'[r] = NoWait
      /\ \A q \in Request : q # r => wait'[q] = wait[q]
  BY <1>1, NoWaitIsAWait, AwaitOK DEF EndReply
<1>4. ServerInv' /\ \A q \in Request : q # r => req'[q] = req[q]
  BY <1>1, ForgetInv DEF TripInv, ServerInv, ServerTypeOK
<1>5. WaitOK(r)'
  BY <1>3, NoWaitIsAWait DEF WaitOK
<1>6. /\ phase' \in [Phone -> Phase] /\ stored' \in [Phone -> Record \cup {None}]
      /\ OnlyPhone(p) /\ PhoneOK(p)' /\ FileKept(p) /\ OnlyWhenEnded
      /\ \/ phase'[p] = phase[p]
         \/ \A q \in Request : wait[q].phone = p => wait[q].for = "end"
  <2>1. CASE StillEnding(p, r)
    <3>1. StopTracking(p)
      BY <2>1 DEF EndReply
    <3> QED BY <1>1, <1>2, <2>1, <3>1, AnsweredEnd, StopTrackingOK
  <2>2. CASE ~StillEnding(p, r)
    <3>1. UNCHANGED <<phase, stored>>
      BY <2>2 DEF EndReply
    <3> QED BY <1>1, <3>1, PhoneSame DEF PhonesTyped
  <2> QED BY <2>1, <2>2
<1>7. PhonesTyped'
  BY <1>1, <1>3, <1>6 DEF PhonesTyped
<1> QED BY <1>1, <1>3, <1>4, <1>5, <1>6, <1>7, NoWaitIsAWait, PhoneCalls

LEMMA EndFailsInv ==
    ASSUME TripInv, NEW p \in Phone, NEW r \in Request, EndFails(p, r)
    PROVE  TripInv' /\ OnlyWhenEnded
<1>1. /\ PhonesTyped /\ WaitOK(r)
      /\ UNCHANGED <<trips, assigned, lost, email, stored, letGo>>
      /\ wait[r].phone = p /\ wait[r].for = "end" /\ Forget(r)
      /\ req[r].pc # "created"
  BY DEF TripInv, EndFails, WaitOK, EndCall
<1>2. /\ wait' \in [Request -> Wait] /\ wait'[r] = NoWait
      /\ \A q \in Request : q # r => wait'[q] = wait[q]
  BY <1>1, NoWaitIsAWait, AwaitOK DEF EndFails
<1>3. ServerInv' /\ \A q \in Request : q # r => req'[q] = req[q]
  BY <1>1, ForgetInv DEF TripInv, ServerInv, ServerTypeOK
<1>4. WaitOK(r)'
  BY <1>2, NoWaitIsAWait DEF WaitOK
<1>5. /\ phase' \in [Phone -> Phase]
      /\ OnlyPhone(p) /\ PhoneOK(p)' /\ FileKept(p) /\ OnlyWhenEnded
      /\ \/ phase'[p] = phase[p]
         \/ \A q \in Request : wait[q].phone = p => wait[q].for = "end"
  <2>1. CASE StillEnding(p, r)
    <3>1. Enter(p, [phase[p] EXCEPT !.kind = wait[r].before])
      BY <2>1 DEF EndFails
    <3> QED BY <1>1, <2>1, <3>1, AnsweredEnd, BackTo, NotTornDown
  <2>2. CASE ~StillEnding(p, r)
    <3>1. UNCHANGED phase
      BY <2>2 DEF EndFails
    <3> QED BY <1>1, <3>1, PhoneSame
  <2> QED BY <2>1, <2>2
<1>6. PhonesTyped'
  BY <1>1, <1>2, <1>5 DEF PhonesTyped
<1> QED BY <1>1, <1>2, <1>3, <1>4, <1>5, <1>6, NoWaitIsAWait, PhoneCalls

LEMMA TimeOutInv ==
    ASSUME TripInv, NEW p \in Phone, NEW r \in Request, TimeOut(p, r)
    PROVE  TripInv' /\ OnlyWhenEnded
<1>1. /\ PhonesTyped /\ PhoneOK(p) /\ WaitOK(r)
      /\ UNCHANGED <<trips, req, lost, email, stored, letGo>> /\ UNCHANGED server
      /\ wait[r].phone = p
  BY DEF TripInv, TimeOut, server
<1>2. /\ wait' \in [Request -> Wait] /\ wait'[r] = NoWait
      /\ \A q \in Request : q # r => wait'[q] = wait[q]
  BY <1>1, NoWaitIsAWait, AwaitOK DEF TimeOut
<1>3. ServerInv'
  BY <1>1, SameServer DEF TripInv
<1>4. WaitOK(r)'
  BY <1>2, NoWaitIsAWait DEF WaitOK
<1>5. /\ phase' \in [Phone -> Phase]
      /\ OnlyPhone(p) /\ PhoneOK(p)' /\ FileKept(p) /\ OnlyWhenEnded
      /\ \/ phase'[p] = phase[p]
         \/ \A q \in Request : q # r /\ wait[q].phone = p => wait[q].for = "end"
  <2>1. CASE /\ wait[r].for = "end" /\ StillEnding(p, r)
             /\ Enter(p, [phase[p] EXCEPT !.kind = wait[r].before])
    BY <1>1, <2>1, AnsweredEnd, BackTo, NotTornDown
  <2>2. CASE UNCHANGED phase
    BY <1>1, <2>2, PhoneSame
  <2>3. CASE wait[r].for # "end" /\ Enter(p, Idle)
    <3>1. wait[r].for \in {"start", "undo"}
      BY <1>1, <2>3, NoneIsNoRecord DEF WaitOK
    <3>2. /\ phase[p].kind = "starting"
          /\ \A q \in Request : q # r /\ wait[q].phone = p => wait[q].for = "end"
      BY <1>1, <3>1, OthersEnd
    <3>3. /\ phase' \in [Phone -> Phase] /\ phase'[p] = Idle
          /\ \A q \in Phone : q # p => phase'[q] = phase[q]
      BY <1>1, <2>3, EnterOK, FixedPhases
    <3>4. OnlyPhone(p) /\ FileKept(p)
      BY <1>1, <3>3 DEF OnlyPhone, FileKept
    <3>5. PhoneOK(p)'
      BY <1>1, <3>2, <3>3, FixedPhases DEF PhoneOK, RecordTrue, Settled, Busy
    <3> QED BY <3>2, <3>3, <3>4, <3>5, FixedPhases, NotTornDown
  <2> QED BY <2>1, <2>2, <2>3 DEF TimeOut
<1>6. PhonesTyped'
  BY <1>1, <1>2, <1>5 DEF PhonesTyped
<1> QED BY <1>1, <1>2, <1>3, <1>4, <1>5, <1>6, NoWaitIsAWait, PhoneCalls

-----------------------------------------------------------------------------
\* A reply nobody awaits is forgotten, and the trip of a start with it.
LEMMA DropReplyInv ==
    ASSUME TripInv, NEW r \in Request, DropReply(r)
    PROVE  TripInv' /\ UNCHANGED phones
<1>1. /\ UNCHANGED <<trips, assigned, letGo>> /\ UNCHANGED phones /\ wait[r] = NoWait
      /\ Forget(r) /\ lost \subseteq lost'
      /\ req[r].pc = "created" => req[r].trip \in lost'
  BY DEF DropReply
<1>2. lost' \subseteq Trip
  BY DEF DropReply, TripInv, ServerInv, ServerTypeOK, CallOK
<1>3. ServerInv' /\ \A q \in Request : q # r => req'[q] = req[q]
  BY <1>1, <1>2, ForgetInv DEF TripInv
<1>4. PhonesTyped' /\ OneStart' /\ \A p \in Phone : PhoneOK(p)'
  BY <1>1 DEF TripInv, PhonesTyped, OneStart, PhoneOK, RecordTrue, Settled, phones
<1>5. ASSUME NEW q \in Request PROVE WaitOK(q)'
  <2>1. CASE q = r
    BY <1>1, <2>1, NoWaitIsAWait DEF WaitOK, phones
  <2>2. CASE q # r
    BY <1>1, <1>3, <2>2
       DEF TripInv, WaitOK, phones, RecordTrue, Ended, StartCall, EndCall
  <2> QED BY <2>1, <2>2
<1>6. NoTripIsForgotten'
  BY <1>1, <1>3 DEF TripInv, NoTripIsForgotten, phones
<1> QED BY <1>1, <1>3, <1>4, <1>5, <1>6 DEF TripInv

LEMMA SamePhases ==
    ASSUME TripInv, UNCHANGED phones
    PROVE  OnlyWhenEnded
BY FixedPhases DEF OnlyWhenEnded, phones

LEMMA AdministrateInv ==
    ASSUME TripInv, Administrate
    PROVE  TripInv' /\ UNCHANGED phones
<1>1. UNCHANGED <<trips, req, lost, email, phase, stored, wait, letGo>> /\ ServerInv'
  BY AdminInv DEF TripInv, Administrate, phones
<1> QED BY <1>1 DEF TripInv, PhonesTyped, OneStart, NoTripIsForgotten, PhoneOK, WaitOK,
        RecordTrue, Settled, Ended, StartCall, EndCall, phones, Administrate

LEMMA TripStutter ==
    ASSUME TripInv, UNCHANGED vars
    PROVE  TripInv' /\ OnlyWhenEnded
<1>1. UNCHANGED <<trips, req, lost, email, phase, stored, wait, letGo>> /\ UNCHANGED phones
      /\ ServerInv'
  BY SameServer DEF TripInv, vars, server, phones
<1>2. TripInv'
  BY <1>1 DEF TripInv, PhonesTyped, OneStart, NoTripIsForgotten, PhoneOK, WaitOK,
     RecordTrue, Settled, Ended, StartCall, EndCall
<1> QED BY <1>1, <1>2, SamePhases

LEMMA TripNext ==
    ASSUME TripInv, [Next]_vars
    PROVE  TripInv' /\ OnlyWhenEnded
<1>1. ASSUME NEW p \in Phone, PhoneStep(p)
      PROVE  TripInv' /\ OnlyWhenEnded
  <2>1. CASE \E d \in Driver : SignIn(p, d)
    BY <2>1, SignInInv
  <2>2. CASE SignOut(p)
    BY <2>2, SignOutInv
  <2>3. CASE Relaunch(p)
    BY <2>3, RelaunchInv
  <2>4. CASE Resume(p)
    BY <2>4, ResumeInv
  <2>5. CASE EndLocally(p)
    BY <2>5, EndLocallyInv
  <2>6. ASSUME NEW r \in Request,
               \/ \E v \in Vehicle : Start(p, v, r)
               \/ StartReply(p, r) \/ UndoStart(p, r) \/ StartFails(p, r)
        PROVE  TripInv' /\ OnlyWhenEnded
    BY <2>6, StartInv, StartReplyInv, UndoStartInv, StartFailsInv
  <2>7. ASSUME NEW r \in Request,
               End(p, r) \/ EndReply(p, r) \/ EndFails(p, r) \/ TimeOut(p, r)
        PROVE  TripInv' /\ OnlyWhenEnded
    BY <2>7, EndCallInv, EndReplyInv, EndFailsInv, TimeOutInv
  <2> QED BY <1>1, <2>1, <2>2, <2>3, <2>4, <2>5, <2>6, <2>7 DEF PhoneStep
<1>2. CASE Server
  BY <1>2, ServerSide, SamePhases DEF Server
<1>3. CASE Administrate
  BY <1>3, AdministrateInv, SamePhases
<1>4. CASE \E r \in Request : DropReply(r)
  BY <1>4, DropReplyInv, SamePhases
<1>5. CASE UNCHANGED vars
  BY <1>5, TripStutter
<1> QED BY <1>1, <1>2, <1>3, <1>4, <1>5 DEF Next

-----------------------------------------------------------------------------
(* The theorems.                                                            *)

\* A run of the whole app is, of its trips, a run of IosTrips.
THEOREM AppRunsTrips == SpecApp => Spec
<1>1. InitApp => Init
  BY DEF InitApp
<1>2. [NextApp]_iosVars => [Next]_vars
  BY DEF NextApp, iosVars
<1> QED BY <1>1, <1>2, PTL DEF SpecApp, Spec

\* The phase, the file and the server's row of a trip fit together throughout.
THEOREM TripsInvariant == Spec => []TripInv
<1>1. Init => TripInv
  BY TripInitial
<1>2. TripInv /\ [Next]_vars => TripInv'
  BY TripNext
<1> QED BY <1>1, <1>2, PTL DEF Spec

LEMMA TripInvMeans == TripInv => TypeOK /\ TrackedTripIsStored /\ NoTripIsForgotten
<1> SUFFICES ASSUME TripInv PROVE TypeOK /\ TrackedTripIsStored
  BY DEF TripInv
<1>1. \A r \in Request : wait[r] # NoWait => req[r] # NoCall
  BY NoCallIsACall DEF TripInv, WaitOK
<1>2. TypeOK
  BY <1>1 DEF TypeOK, TripInv, ServerInv, PhonesTyped
<1>3. TrackedTripIsStored
  BY DEF TripInv, PhoneOK, TrackedTripIsStored
<1> QED BY <1>2, <1>3

\* Every variable stays in its type.
THEOREM TripsTypeCorrect == Spec => []TypeOK
BY TripsInvariant, TripInvMeans, PTL

\* What the driver sees being tracked is what TripSession finds in the file when
\* it is launched again (adoptStoredTrip), after any late reply, local end or
\* failed write, on any number of phones.
THEOREM ScreenAndFileAgree == SpecApp => []TrackedTripIsStored
BY AppRunsTrips, TripsInvariant, TripInvMeans, PTL

\* An open trip is on file with a phone under its driver, or its start is still to
\* be answered, or it was lost or let go of: no interleaving of save, clear,
\* relaunch and change of driver forgets one.
THEOREM OpenTripsAreKnown == SpecApp => []NoTripIsForgotten
BY AppRunsTrips, TripsInvariant, TripInvMeans, PTL

\* A phase is torn down only for a trip that is over or that its driver let go of,
\* whichever end is answered when (the check phase == .ending(active) of end).
THEOREM LateEndsTearNothingDown == SpecApp => TornDownOnlyWhenEnded
<1>1. TripInv /\ [Next]_vars => [OnlyWhenEnded]_vars
  BY TripNext
<1> QED BY <1>1, AppRunsTrips, TripsInvariant, PTL DEF TornDownOnlyWhenEnded, OnlyWhenEnded, Spec

-----------------------------------------------------------------------------
(* Tokens: the invariant.                                                   *)

NoLiveOf(s) == \A n \in live : minted[n] # s

\* A token the server has neither unused nor as used.
Dead(t) == t \notin live /\ t \notin spent

TradeTyped ==
    \/ trade = NoTrade
    \/ trade \in [pc : {"asking", "unreachable"}, token : Pairs]
    \/ trade \in [pc : {"answered"}, token : Pairs, new : Pairs \cup {NoToken}]
    \/ trade \in [pc : {"saving", "clearing"}, token : Pairs, new : Pairs]

CallTyped(w) ==
    /\ w.pc \in {"early", "sent", "turned", "dropping"} => w.token \in Nat
    /\ w.pc = "joined" =>
          w \in [pc : {"joined"}, early : BOOLEAN,
                outcome : {"none", "retry", "refused", "unreachable"},
                new : Nat, kept : Nat]

TokensTyped ==
    /\ minted \in Seq(Nat) /\ stray \in Seq(Nat)
    /\ live \subseteq Pairs /\ spent \subseteq Pairs /\ over \subseteq Pairs
    /\ doubtful \subseteq Pairs
    /\ signing \in Pairs \cup {NoToken}
    /\ store \in [access : Pairs \cup {NoToken}, refresh : Pairs \cup {NoToken}]
    /\ signedInAs \in 0 .. Len(minted)
    /\ overtaken \in BOOLEAN
    /\ TradeTyped
    /\ DOMAIN call = Caller
    /\ \A c \in Caller : CallTyped(call[c])

\* A session has one unused token at most, and none once one of its tokens is
\* neither unused nor remembered as used: it goes on only from an unused one.
SessionsOK ==
    /\ \A n \in Pairs : minted[n] \in 1 .. n
    /\ \A n \in live : n \notin spent
    /\ \A m, n \in live : minted[m] = minted[n] => m = n
    /\ \A t \in Pairs : Dead(t) => NoLiveOf(minted[t])

\* A pair nobody has presented yet.
Unpresented(n) ==
    /\ n \notin spent
    /\ trade # NoTrade => n # trade.token
    /\ \A i \in Strays : stray[i] # n

\* The new pair of a sign-in is known to nobody else.
SigningOK ==
    signing # NoToken =>
        /\ Unpresented(signing) /\ signing \notin over /\ signing # store.access
        /\ Renewal => trade.new # signing

StraysOK == \A i \in Strays : stray[i] \in doubtful

\* A trade whose answer is not in presents an unused token, a dead one, or one
\* that was presented before; once it is in, the token is used up or dead.  What
\* is about to be saved belongs to the stored session, or was overtaken.
TradeOK ==
    /\ trade.pc \in {"asking", "unreachable"} /\ trade.token \in spent =>
          trade.token \in doubtful
    /\ trade.pc = "answered" /\ trade.new = NoToken => Dead(trade.token)
    /\ Renewal =>
          /\ minted[trade.new] = minted[trade.token]
          /\ Unpresented(trade.new)
    /\ trade.pc = "saving" => overtaken \/ store.refresh = trade.token

\* The keychain has a pair, or what is left of one; its access token does not
\* run out while somebody else's trade is under way.
StoreOK ==
    /\ store.refresh \in spent =>
          \/ store.refresh \in doubtful
          \/ Renewal /\ trade.token = store.refresh
    /\ store.refresh \in {store.access, NoToken}
    /\ trade # NoTrade /\ store.access \in over => store.access = trade.token

\* Who waits after a 401 waits for the trade of the token it would drop, and a
\* refusal that it was told of is for good.  What it is about to write back is the
\* stored access token, expired, or was overtaken.
WaiterOK(c) ==
    LET w == call[c] IN
    /\ w.pc = "turned" => w.token \in over
    /\ w.pc = "joined" /\ w.outcome = "none" => trade # NoTrade
    /\ w.pc = "joined" /\ ~w.early /\ w.kept # NoToken =>
          /\ w.kept \in over
          /\ w.outcome = "none" => w.kept = trade.token
          /\ w.outcome = "refused" => Dead(w.kept)
    /\ w.pc = "dropping" =>
          /\ w.token \in over /\ Dead(w.token)
          /\ trade # NoTrade => trade.token = w.token
          /\ overtaken \/ store.refresh = w.token

\* One at a time is between its look at the keychain and its write.
ActorOK ==
    /\ \A c, d \in Caller : call[c].pc = "dropping" /\ call[d].pc = "dropping" => c = d
    /\ trade.pc \in {"saving", "clearing"} => \A c \in Caller : call[c].pc # "dropping"

TokensInv ==
    /\ TokensTyped
    /\ SessionsOK
    /\ SigningOK
    /\ StraysOK
    /\ TradeOK
    /\ StoreOK
    /\ \A c \in Caller : WaiterOK(c)
    /\ ActorOK
    /\ AppStaysSignedIn

\* A new pair leaves the others their numbers and sessions.
LEMMA MintIs ==
    ASSUME minted \in Seq(Nat), NEW s \in Nat, Mint(s)
    PROVE  /\ minted' \in Seq(Nat)
           /\ Len(minted') \in Pairs' /\ Len(minted') \notin Pairs
           /\ Pairs' = Pairs \cup {Len(minted')} /\ Len(minted') = Len(minted) + 1
           /\ minted'[Len(minted')] = s
           /\ \A n \in Pairs : minted'[n] = minted[n]
BY DEF Mint, Pairs

\* What the server does with token t: whatever it is given, a dead token stays
\* dead, a session over, and t is the only one that may come to be used.
RedeemFacts(t) ==
    /\ minted' \in Seq(Nat) /\ Len(minted) \in Nat /\ Len(minted') \in Nat
    /\ Len(minted) <= Len(minted')
    /\ Pairs \subseteq Pairs' /\ \A n \in Pairs : minted'[n] = minted[n]
    /\ live' \subseteq Pairs' /\ spent' \subseteq Pairs
    /\ t \in spent' => t \in live
    /\ \A n \in Pairs : n # t /\ n \in spent' => n \in spent
    /\ \A n \in Pairs : Dead(n) => Dead(n)'
    /\ \A n \in live : n # t => n \in live' \/ live' = {}
    /\ \A s \in Nat : NoLiveOf(s) => NoLiveOf(s)'
    /\ t \in live => /\ Len(minted') \in Pairs' /\ Len(minted') \notin Pairs
                     /\ minted'[Len(minted')] = minted[t]
    /\ t \notin live => Dead(t)'
    /\ accused' => accused \/ (t \in spent /\ t \notin doubtful)

LEMMA RedeemIs ==
    ASSUME TokensInv, NEW t \in Pairs, Redeem(t)
    PROVE  SessionsOK' /\ RedeemFacts(t)
<1>1. minted[t] \in Nat /\ minted \in Seq(Nat) /\ Len(minted) \in Nat
  BY DEF TokensInv, TokensTyped, Pairs
<1>2. live \subseteq Pairs /\ spent \subseteq Pairs /\ SessionsOK
  BY DEF TokensInv, TokensTyped
<1>3. CASE /\ t \in live /\ Mint(minted[t])
           /\ live' = (live \ {t}) \cup {Len(minted')} /\ spent' = spent \cup {t}
           /\ UNCHANGED accused
  <2> DEFINE new == Len(minted')
  <2>1. /\ minted' \in Seq(Nat) /\ new \in Pairs' /\ new \notin Pairs
        /\ Pairs' = Pairs \cup {new} /\ new = Len(minted) + 1
        /\ minted'[new] = minted[t] /\ \A n \in Pairs : minted'[n] = minted[n]
    BY <1>1, <1>3, MintIs
  <2>2. \A n \in Pairs : Dead(n) => minted[n] # minted[t] /\ Dead(n)'
    BY <1>2, <1>3, <2>1 DEF SessionsOK, NoLiveOf, Dead
  <2>3. \A n \in Pairs' : Dead(n)' => n \in Pairs /\ Dead(n)
    BY <1>2, <1>3, <2>1 DEF Dead
  <2>4. \A n \in Pairs' : minted'[n] \in 1 .. n
    <3>1. \A n \in Pairs : minted'[n] \in 1 .. n
      BY <1>2, <2>1 DEF SessionsOK
    <3>2. minted[t] \in 1 .. t /\ t \in 1 .. Len(minted)
      BY <1>1, <1>2 DEF SessionsOK, Pairs
    <3>3. minted'[new] \in 1 .. new
      BY <1>1, <2>1, <3>2
    <3> QED BY <2>1, <3>1, <3>3
  <2>5. \A m, n \in live' : minted'[m] = minted'[n] => m = n
    BY <1>2, <1>3, <2>1 DEF SessionsOK
  <2>6. \A s \in Nat : NoLiveOf(s) => s # minted[t] /\ NoLiveOf(s)'
    BY <1>2, <1>3, <2>1 DEF NoLiveOf
  <2>7. \A n \in Pairs' : Dead(n)' => NoLiveOf(minted[n])'
    <3> SUFFICES ASSUME NEW n \in Pairs', Dead(n)' PROVE NoLiveOf(minted[n])'
      OBVIOUS
    <3>1. n \in Pairs /\ Dead(n) /\ minted[n] # minted[t] /\ minted'[n] = minted[n]
      BY <2>1, <2>2, <2>3
    <3>2. NoLiveOf(minted[n])
      BY <1>2, <3>1 DEF SessionsOK
    <3> QED BY <1>2, <1>3, <2>1, <3>1, <3>2 DEF NoLiveOf
  <2>10. \A n \in live' : n \notin spent'
    BY <1>2, <1>3, <2>1 DEF SessionsOK
  <2>8. SessionsOK'
    BY <2>10, <2>4, <2>5, <2>7 DEF SessionsOK
  <2>9. RedeemFacts(t)
    BY <1>1, <1>2, <1>3, <2>1, <2>2, <2>6 DEF RedeemFacts
  <2> QED BY <2>8, <2>9
<1>4. CASE /\ t \in spent /\ live' = {} /\ spent' = {}
           /\ accused' = (accused \/ t \notin doubtful) /\ UNCHANGED minted
  <2>1. SessionsOK'
    BY <1>2, <1>4 DEF SessionsOK, NoLiveOf, Pairs
  <2>2. RedeemFacts(t)
    <3>1. Pairs' = Pairs /\ minted' = minted /\ live' = {} /\ spent' = {}
      BY <1>4 DEF Pairs
    <3>2. Dead(t)' /\ \A n \in Pairs : Dead(n) => Dead(n)'
      BY <3>1 DEF Dead
    <3>3. \A u \in Nat : NoLiveOf(u) => NoLiveOf(u)'
      BY <3>1 DEF NoLiveOf
    <3>4. t \notin live /\ (accused' => accused \/ (t \in spent /\ t \notin doubtful))
      BY <1>2, <1>4 DEF SessionsOK
    <3> QED BY <1>1, <3>1, <3>2, <3>3, <3>4 DEF RedeemFacts
  <2> QED BY <2>1, <2>2
<1>5. CASE t \notin live \cup spent /\ UNCHANGED <<minted, live, spent, accused>>
  <2>1. SessionsOK'
    BY <1>2, <1>5 DEF SessionsOK, NoLiveOf, Pairs, Dead
  <2>2. RedeemFacts(t)
    BY <1>1, <1>2, <1>5 DEF RedeemFacts, NoLiveOf, Dead, Pairs
  <2> QED BY <2>1, <2>2
<1> QED BY <1>3, <1>4, <1>5 DEF Redeem

LEMMA TradeIs ==
    ASSUME TokensTyped
    PROVE  /\ trade = NoTrade => trade.pc = "idle"
           /\ trade # NoTrade =>
                 /\ trade.pc \in {"asking", "unreachable", "answered", "saving", "clearing"}
                 /\ trade.token \in Pairs
           /\ trade.pc = "answered" => trade.new \in Pairs \cup {NoToken}
           /\ trade.pc \in {"saving", "clearing"} => Renewal
           /\ Renewal => trade # NoTrade /\ trade.new \in Pairs
<1>1. NoToken \notin Pairs
  BY DEF NoToken, Pairs
<1>2. CASE trade = NoTrade
  BY <1>2 DEF NoTrade, Renewal
<1>3. CASE trade \in [pc : {"asking", "unreachable"}, token : Pairs]
  BY <1>3 DEF NoTrade, Renewal
<1>4. CASE trade \in [pc : {"answered"}, token : Pairs, new : Pairs \cup {NoToken}]
  BY <1>4 DEF NoTrade, Renewal
<1>5. CASE trade \in [pc : {"saving", "clearing"}, token : Pairs, new : Pairs]
  BY <1>1, <1>5 DEF NoTrade, Renewal
<1> QED BY <1>2, <1>3, <1>4, <1>5 DEF TokensTyped, TradeTyped

LEMMA RevokeDriverInv ==
    ASSUME TokensInv, RevokeDriver PROVE TokensInv'
<1>1. Pairs' = Pairs /\ Strays' = Strays /\ live' = {} /\ spent' = {}
      /\ (Renewal' <=> Renewal)
  BY DEF RevokeDriver, Pairs, Strays, Renewal
<1>2. TokensTyped'
  BY <1>1 DEF TokensInv, TokensTyped, TradeTyped, CallTyped, RevokeDriver
<1>3. SessionsOK'
  BY <1>1 DEF TokensInv, SessionsOK, RevokeDriver, NoLiveOf
<1>4. SigningOK' /\ StraysOK' /\ TradeOK' /\ StoreOK'
  BY <1>1 DEF TokensInv, RevokeDriver, SigningOK, StraysOK, TradeOK, StoreOK, Unpresented, Dead
<1>5. (\A c \in Caller : WaiterOK(c)') /\ ActorOK'
  BY <1>1 DEF TokensInv, RevokeDriver, WaiterOK, ActorOK, Dead
<1>6. AppStaysSignedIn'
  BY <1>1 DEF TokensInv, RevokeDriver, AppStaysSignedIn
<1> QED BY <1>2, <1>3, <1>4, <1>5, <1>6 DEF TokensInv

\* What is not presented, and is not used, is dead if it is not unused.
LEMMA NotUsed ==
    ASSUME TokensInv, NEW n \in Pairs, n \notin spent
    PROVE  n \in live \/ NoLiveOf(minted[n])
BY DEF TokensInv, SessionsOK, Dead

\* The keychain and the session of the last sign-in.
LEMMA StoreIs ==
    ASSUME TokensInv
    PROVE  /\ store # NoPair => /\ store.access \in Pairs
                                /\ overtaken \/ minted[store.access] = signedInAs
           /\ store = NoPair => store.access = NoToken /\ store.refresh = NoToken
           /\ store.refresh # NoToken => /\ store # NoPair /\ store.refresh = store.access
                                        /\ store.refresh \in Pairs
           /\ NoToken \notin Pairs
BY DEF TokensInv, TokensTyped, StoreOK, AppStaysSignedIn, NoPair, NoToken, Pairs

LEMMA RefreshTokenExpiresInv ==
    ASSUME TokensInv, NEW t \in Pairs, RefreshTokenExpires(t) PROVE TokensInv'
<1>1. Pairs' = Pairs /\ Strays' = Strays /\ live' = live \ {t} /\ spent' = spent
      /\ minted' = minted /\ (Renewal' <=> Renewal)
  BY DEF RefreshTokenExpires, Pairs, Strays, Renewal
<1>0. \A n \in Pairs : Dead(n) => Dead(n)'
  BY <1>1 DEF Dead
<1>2. TokensTyped'
  BY <1>1 DEF TokensInv, TokensTyped, TradeTyped, CallTyped, RefreshTokenExpires
<1>3. SessionsOK'
  BY <1>1 DEF TokensInv, SessionsOK, RefreshTokenExpires, NoLiveOf, Dead
<1>4. SigningOK' /\ StraysOK' /\ StoreOK'
  BY <1>1 DEF TokensInv, RefreshTokenExpires, SigningOK, StraysOK, StoreOK, Unpresented
<1>7. TradeOK'
  BY <1>0, <1>1, TradeIs DEF TokensInv, RefreshTokenExpires, TradeOK, Unpresented
<1>8. over \subseteq Pairs
  BY DEF TokensInv, TokensTyped
<1>5. (\A c \in Caller : WaiterOK(c)') /\ ActorOK'
  BY <1>0, <1>1, <1>8 DEF TokensInv, RefreshTokenExpires, WaiterOK, ActorOK
<1>9. ASSUME store.refresh = t PROVE NoLiveOf(minted[store.access])'
  <2>1. store.access = t
    BY <1>9, StoreIs
  <2>2. t \in live
    BY DEF RefreshTokenExpires
  <2>3. \A n \in live : minted[n] = minted[t] => n = t
    BY <2>2 DEF TokensInv, SessionsOK
  <2>4. store' = store
    BY DEF RefreshTokenExpires
  <2> QED BY <1>1, <2>1, <2>3, <2>4 DEF NoLiveOf
<1>6. AppStaysSignedIn'
  BY <1>1, <1>9 DEF TokensInv, RefreshTokenExpires, AppStaysSignedIn, NoLiveOf
<1> QED BY <1>2, <1>3, <1>4, <1>5, <1>6, <1>7 DEF TokensInv

LEMMA AccessTokenExpiresInv ==
    ASSUME TokensInv, NEW n \in Pairs, AccessTokenExpires(n) PROVE TokensInv'
<1>1. Pairs' = Pairs /\ Strays' = Strays /\ over' = over \cup {n} /\ live' = live
      /\ spent' = spent
      /\ minted' = minted /\ (Renewal' <=> Renewal)
  BY DEF AccessTokenExpires, Pairs, Strays, Renewal
<1>2. TokensTyped'
  BY <1>1 DEF TokensInv, TokensTyped, TradeTyped, CallTyped, AccessTokenExpires
<1>3. SessionsOK'
  BY <1>1 DEF TokensInv, SessionsOK, AccessTokenExpires, NoLiveOf, Dead
<1>4. SigningOK'
  BY <1>1 DEF TokensInv, AccessTokenExpires, SigningOK, Unpresented
<1>7. StraysOK' /\ TradeOK'
  BY <1>1 DEF TokensInv, AccessTokenExpires, StraysOK, TradeOK, Unpresented, Dead
<1>8. StoreOK'
  BY <1>1 DEF TokensInv, AccessTokenExpires, StoreOK
<1>5. (\A c \in Caller : WaiterOK(c)') /\ ActorOK'
  BY <1>1 DEF TokensInv, AccessTokenExpires, WaiterOK, ActorOK, Dead
<1>6. AppStaysSignedIn'
  BY <1>1 DEF TokensInv, AccessTokenExpires, AppStaysSignedIn
<1> QED BY <1>2, <1>3, <1>4, <1>5, <1>6, <1>7, <1>8 DEF TokensInv

LEMMA LoginAnsweredInv ==
    ASSUME TokensInv, LoginAnswered PROVE TokensInv'
<1> DEFINE new == Len(minted')
<1>0. minted \in Seq(Nat) /\ Len(minted) \in Nat /\ live \subseteq Pairs /\ spent \subseteq Pairs
  BY DEF TokensInv, TokensTyped
<1>1. /\ minted' \in Seq(Nat) /\ new \in Pairs' /\ new \notin Pairs
      /\ Pairs' = Pairs \cup {new} /\ new = Len(minted) + 1
      /\ minted'[new] = new /\ \A n \in Pairs : minted'[n] = minted[n]
  BY <1>0, MintIs DEF LoginAnswered
<1>2. Strays' = Strays /\ live' = live \cup {new} /\ spent' = spent /\ signing' = new
      /\ (Renewal' <=> Renewal) /\ over \subseteq Pairs
  BY DEF LoginAnswered, Strays, Renewal, TokensInv, TokensTyped
<1>3. \A n \in Pairs : (Dead(n)' <=> Dead(n)) /\ n # new /\ n <= Len(minted) /\ minted[n] # new
  <2>1. \A n \in Pairs : minted[n] \in 1 .. n /\ n \in 1 .. Len(minted)
    BY DEF TokensInv, SessionsOK, Pairs
  <2>2. \A n \in Pairs : n # new /\ n <= Len(minted) /\ minted[n] # new
    BY <1>0, <1>1, <2>1
  <2> QED BY <1>2, <2>2 DEF Dead
<1>4. TokensTyped'
  BY <1>0, <1>1, <1>2 DEF TokensInv, TokensTyped, TradeTyped, CallTyped, LoginAnswered
<1>5. SessionsOK'
  <2>1. \A n \in Pairs' : minted'[n] \in 1 .. n
    BY <1>0, <1>1 DEF TokensInv, SessionsOK
  <2>2. \A m \in live' : m \notin spent' /\ \A n \in live' : minted'[m] = minted'[n] => m = n
    BY <1>0, <1>1, <1>2, <1>3 DEF TokensInv, SessionsOK
  <2>3. \A t \in Pairs' : Dead(t)' => NoLiveOf(minted[t])'
    <3> SUFFICES ASSUME NEW t \in Pairs', Dead(t)' PROVE NoLiveOf(minted[t])'
      OBVIOUS
    <3>1. t \in Pairs /\ Dead(t)
      BY <1>1, <1>2, <1>3 DEF Dead
    <3>2. NoLiveOf(minted[t])
      BY <3>1 DEF TokensInv, SessionsOK
    <3> QED BY <1>0, <1>1, <1>2, <1>3, <3>1, <3>2 DEF NoLiveOf
  <2> QED BY <2>1, <2>2, <2>3 DEF SessionsOK
<1>6. SigningOK'
  BY <1>0, <1>1, <1>2, <1>3, TradeIs DEF TokensInv, TokensTyped, StraysOK,
     LoginAnswered, SigningOK, Unpresented
<1>7. StraysOK' /\ StoreOK'
  BY <1>0, <1>1, <1>2 DEF TokensInv, LoginAnswered, StraysOK, StoreOK
<1>10. TradeOK'
  BY <1>0, <1>1, <1>2, <1>3, TradeIs DEF TokensInv, LoginAnswered, TradeOK, Unpresented
<1>8. (\A c \in Caller : WaiterOK(c)') /\ ActorOK'
  BY <1>0, <1>1, <1>2, <1>3 DEF TokensInv, LoginAnswered, WaiterOK, ActorOK
<1>9. AppStaysSignedIn'
  <2> QED BY <1>0, <1>1, <1>2, <1>3 DEF TokensInv, TokensTyped, StoreOK, LoginAnswered,
          AppStaysSignedIn, NoToken, NoPair
<1> QED BY <1>4, <1>5, <1>6, <1>7, <1>8, <1>9, <1>10 DEF TokensInv

LEMMA ForgetTokensInv ==
    ASSUME TokensInv, ForgetTokens PROVE TokensInv'
<1>1. Pairs' = Pairs /\ Strays' = Strays /\ live' = live /\ spent' = spent /\ minted' = minted
      /\ over' = over /\ store'.access = NoToken /\ store'.refresh = NoToken /\ store' = NoPair
      /\ trade' = trade /\ call' = call /\ (Renewal' <=> Renewal) /\ signedInAs' = NoToken
  BY DEF ForgetTokens, Pairs, Strays, NoPair, Renewal
<1>0. NoToken \notin Pairs /\ Len(minted) \in Nat
  BY DEF TokensInv, TokensTyped, Pairs, NoToken
<1>9. overtaken' \in BOOLEAN /\ (overtaken' <=> ~ActorFree)
  BY DEF ForgetTokens
<1>2. TokensTyped'
  BY <1>0, <1>1, <1>9 DEF TokensInv, TokensTyped, TradeTyped, CallTyped, ForgetTokens, NoPair, NoToken
<1>3. SessionsOK'
  BY <1>1 DEF TokensInv, SessionsOK, NoLiveOf, Dead
<1>4. SigningOK' /\ StraysOK'
  BY <1>0, <1>1 DEF TokensInv, TokensTyped, ForgetTokens, SigningOK, StraysOK, Unpresented
<1>8. TradeOK'
  BY <1>1, <1>9 DEF TokensInv, ForgetTokens, TradeOK, Unpresented, Dead, ActorFree
<1>5. StoreOK'
  BY <1>0, <1>1 DEF TokensInv, TokensTyped, StoreOK
<1>6. (\A c \in Caller : WaiterOK(c)') /\ ActorOK'
  BY <1>1, <1>9 DEF TokensInv, WaiterOK, Dead, ActorFree, ActorOK
<1>7. AppStaysSignedIn'
  BY <1>1 DEF TokensInv, ForgetTokens, AppStaysSignedIn
<1> QED BY <1>2, <1>3, <1>4, <1>5, <1>6, <1>7, <1>8 DEF TokensInv

LEMMA SaveSignInInv ==
    ASSUME TokensInv, SaveSignIn PROVE TokensInv'
<1>1. Pairs' = Pairs /\ Strays' = Strays /\ live' = live /\ spent' = spent /\ minted' = minted
      /\ over' = over /\ trade' = trade /\ stray' = stray /\ call' = call
      /\ doubtful' = doubtful /\ accused' = accused /\ signing' = NoToken
      /\ signing \in Pairs /\ NoToken \notin Pairs /\ (Renewal' <=> Renewal)
  BY DEF TokensInv, TokensTyped, SaveSignIn, Pairs, Strays, NoToken, Renewal
<1>2. minted[signing] \in 1 .. signing /\ signing \in 1 .. Len(minted) /\ Len(minted) \in Nat
  BY <1>1 DEF TokensInv, TokensTyped, SessionsOK, Pairs
<1>3. minted[signing] \in 0 .. Len(minted)
  BY <1>2
<1>4. CASE store' = store /\ signedInAs' = signedInAs /\ overtaken' = overtaken
  <2>1. TokensTyped' /\ SigningOK'
    BY <1>1, <1>4 DEF TokensInv, TokensTyped, TradeTyped, CallTyped, SigningOK
  <2>2. SessionsOK' /\ StraysOK' /\ TradeOK' /\ StoreOK'
    BY <1>1, <1>4 DEF TokensInv, SessionsOK, NoLiveOf, Dead, StraysOK, TradeOK,
       Unpresented, StoreOK
  <2>3. (\A c \in Caller : WaiterOK(c)') /\ ActorOK' /\ AppStaysSignedIn'
    BY <1>1, <1>4 DEF TokensInv, WaiterOK, Dead, ActorOK, AppStaysSignedIn
  <2> QED BY <2>1, <2>2, <2>3 DEF TokensInv
<1>5. CASE store' = Pair(signing) /\ signedInAs' = minted[signing] /\ overtaken' = ~ActorFree
  <2>0. store'.access = signing /\ store'.refresh = signing
        /\ store' \in [access : Pairs \cup {NoToken}, refresh : Pairs \cup {NoToken}]
    BY <1>1, <1>5 DEF Pair
  <2>7. overtaken' \in BOOLEAN /\ (overtaken' <=> ~ActorFree)
    BY <1>5
  <2>1. TokensTyped' /\ SigningOK'
    BY <1>1, <1>3, <1>5, <2>0, <2>7 DEF TokensInv, TokensTyped, TradeTyped, CallTyped, SigningOK
  <2>2. SessionsOK' /\ StraysOK' /\ TradeOK'
    BY <1>1, <2>7 DEF TokensInv, SessionsOK, NoLiveOf, Dead, StraysOK, TradeOK, Unpresented,
       ActorFree
  <2>3. StoreOK'
    BY <1>1, <2>0 DEF TokensInv, SigningOK, Unpresented, StoreOK, SaveSignIn
  <2>4. (\A c \in Caller : WaiterOK(c)') /\ ActorOK'
    BY <1>1, <2>7 DEF TokensInv, WaiterOK, Dead, ActorFree, ActorOK
  <2>5. signing \in live \/ NoLiveOf(minted[signing])
    BY <1>1, NotUsed DEF TokensInv, SigningOK, Unpresented
  <2>6. AppStaysSignedIn'
    BY <1>1, <1>5, <2>0, <2>5 DEF TokensInv, AppStaysSignedIn, NoLiveOf
  <2> QED BY <2>1, <2>2, <2>3, <2>4, <2>6 DEF TokensInv
<1> QED BY <1>4, <1>5 DEF SaveSignIn

\* A stray joins the others.
LEMMA AppendStray ==
    ASSUME TokensInv, NEW t \in Pairs, stray' \in {stray, Append(stray, t)}
    PROVE  /\ stray' \in Seq(Nat)
           /\ stray' = stray => Strays' = Strays
           /\ \A i \in Strays' : stray'[i] = t \/ (i \in Strays /\ stray'[i] = stray[i])
<1>1. stray \in Seq(Nat) /\ t \in Nat
  BY DEF TokensInv, TokensTyped, Pairs
<1>2. CASE stray' = stray
  BY <1>1, <1>2 DEF Strays
<1>3. CASE stray' = Append(stray, t)
  <2>1. Len(stray') = Len(stray) + 1 /\ stray' \in Seq(Nat)
    BY <1>1, <1>3
  <2>2. stray'[Len(stray) + 1] = t /\ \A i \in 1 .. Len(stray) : stray'[i] = stray[i]
    BY <1>1, <1>3
  <2>3. Strays' = 1 .. Len(stray) + 1 /\ Strays = 1 .. Len(stray)
    BY <1>1, <2>1 DEF Strays
  <2>4. Len(stray) \in Nat /\ stray' # stray
    BY <1>1, <2>1
  <2>5. \A i \in 1 .. Len(stray) + 1 : i = Len(stray) + 1 \/ i \in 1 .. Len(stray)
    BY <2>4
  <2>6. \A i \in Strays' : stray'[i] = t \/ (i \in Strays /\ stray'[i] = stray[i])
    <3> SUFFICES ASSUME NEW i \in Strays'
                 PROVE  stray'[i] = t \/ (i \in Strays /\ stray'[i] = stray[i])
      OBVIOUS
    <3>1. CASE i = Len(stray) + 1
      BY <2>2, <3>1
    <3>2. CASE i \in 1 .. Len(stray)
      BY <2>2, <2>3, <3>2
    <3> QED BY <2>3, <2>5, <3>1, <3>2
  <2> QED BY <2>1, <2>4, <2>6
<1> QED BY <1>2, <1>3

LEMMA LaunchAgainInv ==
    ASSUME TokensInv, LaunchAgain PROVE TokensInv'
<1>1. Pairs' = Pairs /\ live' = live /\ spent' = spent /\ minted' = minted
      /\ over' = over /\ trade' = NoTrade /\ call' = [c \in Caller |-> NotCalling]
      /\ accused' = accused /\ signing' = NoToken /\ store' = store /\ signedInAs' = signedInAs
      /\ trade'.pc = "idle" /\ overtaken' = overtaken /\ ~Renewal'
  BY DEF LaunchAgain, Pairs, NoTrade, Renewal
<1>0. NoToken \notin Pairs /\ stray \in Seq(Nat) /\ doubtful \subseteq Pairs
  BY DEF TokensInv, TokensTyped, NoToken, Pairs
<1>2. /\ stray' \in Seq(Nat)
      /\ \A i \in Strays' : stray'[i] \in doubtful'
      /\ doubtful \subseteq doubtful' /\ doubtful' \subseteq Pairs
  <2>1. CASE stray' = stray
    BY <1>0, <2>1, TradeIs DEF TokensInv, Renewal, StraysOK, Strays, LaunchAgain
  <2>2. CASE stray' # stray
    <3>1. trade # NoTrade /\ trade.token \in Pairs /\ stray' = Append(stray, trade.token)
          /\ doubtful' = doubtful \cup {trade.token}
      BY <2>2, TradeIs DEF TokensInv, LaunchAgain, NoTrade
    <3>2. /\ stray' \in Seq(Nat)
          /\ \A i \in Strays' : stray'[i] = trade.token \/ (i \in Strays /\ stray'[i] = stray[i])
      BY <3>1, AppendStray
    <3> QED BY <1>0, <3>1, <3>2 DEF TokensInv, StraysOK
  <2> QED BY <2>1, <2>2
<1>3. TokensTyped'
  BY <1>1, <1>2 DEF TokensInv, TokensTyped, TradeTyped, CallTyped, NotCalling
<1>4. SessionsOK' /\ SigningOK' /\ StraysOK' /\ TradeOK'
  BY <1>1, <1>2 DEF TokensInv, SessionsOK, NoLiveOf, Dead, SigningOK, StraysOK, TradeOK
<1>5. Renewal => trade.token \in doubtful'
  BY DEF LaunchAgain
<1>6. StoreOK'
  BY <1>1, <1>2, <1>5 DEF TokensInv, StoreOK, TradeOK, Dead
<1>7. (\A c \in Caller : WaiterOK(c)') /\ ActorOK'
  BY <1>1 DEF WaiterOK, ActorOK, NotCalling
<1>8. trade # NoTrade /\ trade.token \notin doubtful' =>
         trade.token \in live \/ NoLiveOf(minted[trade.token])
  <2> SUFFICES ASSUME trade # NoTrade, trade.token \notin doubtful'
               PROVE  trade.token \in live \/ NoLiveOf(minted[trade.token])
    OBVIOUS
  <2>1. /\ trade.token \in Pairs
        /\ \/ Renewal
           \/ trade.pc \in {"asking", "unreachable"}
           \/ trade.pc = "answered" /\ trade.new = NoToken
    BY TradeIs DEF TokensInv, Renewal
  <2>2. trade.token \notin spent
    BY <1>2, <1>5, <2>1 DEF TokensInv, TradeOK, Dead
  <2> QED BY <2>1, <2>2, NotUsed
<1>9. AppStaysSignedIn'
  BY <1>0, <1>1, <1>2, <1>8, StoreIs, TradeIs DEF TokensInv, AppStaysSignedIn, NoLiveOf
<1> QED BY <1>3, <1>4, <1>6, <1>7, <1>9 DEF TokensInv

Quiet == UNCHANGED <<minted, live, spent, over, signing, stray, signedInAs, overtaken,
                     doubtful, accused>>

\* A request that goes on by itself touches nothing else.
LEMMA QuietCaller ==
    ASSUME TokensInv, Quiet, store' = store, trade' = trade,
           NEW c \in Caller, NEW w, call' = [call EXCEPT ![c] = w],
           CallTyped(w), w.pc \notin {"joined", "dropping"}, w.pc = "turned" => w.token \in over
    PROVE  TokensInv'
<1>1. Pairs' = Pairs /\ Strays' = Strays /\ live' = live /\ spent' = spent /\ minted' = minted
      /\ over' = over /\ signing' = signing /\ stray' = stray /\ doubtful' = doubtful
      /\ signedInAs' = signedInAs /\ overtaken' = overtaken /\ accused' = accused
      /\ (Renewal' <=> Renewal)
  BY DEF Quiet, Pairs, Strays, Renewal
<1>2. DOMAIN call' = Caller /\ \A d \in Caller : call'[d] = IF d = c THEN w ELSE call[d]
  BY DEF TokensInv, TokensTyped
<1>3. \A d \in Caller : CallTyped(call'[d])
  BY <1>2 DEF TokensInv, TokensTyped
<1>4. TokensTyped'
  BY <1>1, <1>2, <1>3 DEF TokensInv, TokensTyped, TradeTyped, CallTyped
<1>5. SessionsOK' /\ SigningOK' /\ StraysOK' /\ TradeOK' /\ StoreOK' /\ AppStaysSignedIn'
  BY <1>1 DEF TokensInv, SessionsOK, NoLiveOf, Dead, SigningOK, Unpresented, StraysOK,
     TradeOK, StoreOK, AppStaysSignedIn
<1>6. (\A d \in Caller : WaiterOK(d)') /\ ActorOK'
  BY <1>1, <1>2 DEF TokensInv, WaiterOK, ActorOK, Dead
<1> QED BY <1>4, <1>5, <1>6 DEF TokensInv

LEMMA SendInv ==
    ASSUME TokensInv, NEW c \in Caller, Send(c) PROVE TokensInv'
<1>1. Quiet /\ store' = store /\ trade' = trade /\ store.access \in Nat
  BY DEF Send, Quiet, TokensInv, TokensTyped, Pairs, NoToken
<1>2. PICK w \in {[pc |-> "early", token |-> store.access], Sent(store.access, FALSE)} :
         call' = [call EXCEPT ![c] = w]
  BY DEF Send
<1>3. CallTyped(w) /\ w.pc \in {"early", "sent"}
  BY <1>1, <1>2 DEF CallTyped, Sent
<1> QED BY <1>1, <1>2, <1>3, QuietCaller

LEMMA PerformedInv ==
    ASSUME TokensInv, NEW c \in Caller, Performed(c) PROVE TokensInv'
<1>1. Quiet /\ store' = store /\ trade' = trade /\ call[c].token \in Nat
  BY DEF Performed, Quiet, TokensInv, TokensTyped, CallTyped
<1>2. PICK w : /\ w = IF call[c].token \in over /\ ~call[c].again
                      THEN [pc |-> "turned", token |-> call[c].token] ELSE NotCalling
               /\ call' = [call EXCEPT ![c] = w]
  BY DEF Performed
<1>3. CallTyped(w) /\ w.pc \in {"turned", "idle"} /\ (w.pc = "turned" => w.token \in over)
  BY <1>1, <1>2 DEF CallTyped, NotCalling
<1> QED BY <1>1, <1>2, <1>3, QuietCaller

\* To join a trade changes nothing for the others; to begin one presents the
\* token of the keychain, which is unused, dead, or doubtful.
LEMMA JoinInv ==
    ASSUME TokensInv, ActorFree, Quiet, store' = store, NEW c \in Caller, Trade(c),
           call[c].pc \in {"early", "turned"}, store.access = call[c].token,
           trade # NoTrade \/ store.refresh # NoToken
    PROVE  TokensInv'
<1>1. Pairs' = Pairs /\ Strays' = Strays /\ live' = live /\ spent' = spent /\ minted' = minted
      /\ over' = over /\ signing' = signing /\ stray' = stray /\ doubtful' = doubtful
      /\ signedInAs' = signedInAs /\ overtaken' = overtaken /\ accused' = accused
  BY DEF Quiet, Pairs, Strays
<1> DEFINE w == Joined(c)
<1>2. DOMAIN call' = Caller /\ \A d \in Caller : call'[d] = IF d = c THEN w ELSE call[d]
  BY DEF TokensInv, TokensTyped, Trade
<1>3. /\ w.pc = "joined" /\ w.early \in BOOLEAN /\ w.outcome = "none" /\ w.new = NoToken
      /\ w.early = (call[c].pc = "early")
      /\ w.kept = IF call[c].pc = "early" THEN call[c].token ELSE store.refresh
  BY DEF Joined
<1>11. w.kept \in Nat
  BY <1>3 DEF CallTyped, TokensInv, TokensTyped, NoToken, Pairs
<1>12. CallTyped(w)
  BY <1>3, <1>11 DEF Joined, CallTyped, NoToken
<1>4. \A d \in Caller : CallTyped(call'[d])
  BY <1>2, <1>12 DEF TokensInv, TokensTyped
<1>5. /\ trade # NoTrade => trade' = trade
      /\ trade = NoTrade => /\ trade' = [pc |-> "asking", token |-> store.refresh]
                           /\ store.refresh \in Pairs /\ store.refresh = store.access
                           /\ store # NoPair
  BY StoreIs DEF Trade
<1>6. trade' # NoTrade /\ TradeTyped'
  BY <1>1, <1>5 DEF TokensInv, TokensTyped, TradeTyped, NoTrade
<1>7. TokensTyped'
  BY <1>1, <1>2, <1>4, <1>6 DEF TokensInv, TokensTyped, CallTyped
<1>8. SessionsOK' /\ StraysOK'
  BY <1>1 DEF TokensInv, SessionsOK, NoLiveOf, Dead, StraysOK
<1>13. ActorOK'
  BY <1>2, <1>3, <1>5 DEF ActorFree, ActorOK
<1>9. CASE trade # NoTrade
  <2>1. SigningOK' /\ TradeOK' /\ StoreOK' /\ AppStaysSignedIn'
    BY <1>1, <1>5, <1>9 DEF TokensInv, Dead, SigningOK, Unpresented, TradeOK, StoreOK,
       AppStaysSignedIn, Renewal
  <2>2. call[c].pc = "turned" /\ store.refresh # NoToken =>
           store.refresh = trade.token /\ store.refresh \in over
    BY <1>9 DEF TokensInv, WaiterOK, StoreOK
  <2>3. WaiterOK(c)'
    BY <1>1, <1>2, <1>3, <1>5, <1>9, <2>2 DEF WaiterOK
  <2>4. \A d \in Caller : d # c => WaiterOK(d)'
    BY <1>1, <1>2, <1>5, <1>9 DEF TokensInv, WaiterOK, Dead
  <2> QED BY <1>7, <1>8, <1>13, <2>1, <2>3, <2>4 DEF TokensInv
<1>10. CASE trade = NoTrade
  <2>1. /\ trade'.pc = "asking" /\ trade'.token = store.refresh /\ store.refresh \in Pairs
        /\ store.refresh = store.access /\ store # NoPair
        /\ trade.pc = "idle" /\ ~Renewal'
    BY <1>5, <1>10 DEF NoTrade, Renewal
  <2>2. SigningOK'
    BY <1>1, <1>10, <2>1 DEF TokensInv, SigningOK, Unpresented
  <2>7. store.refresh \in spent => store.refresh \in doubtful
    BY <2>1 DEF TokensInv, StoreOK, Renewal
  <2>3. TradeOK' /\ StoreOK' /\ AppStaysSignedIn'
    BY <1>1, <1>6, <2>1, <2>7 DEF TokensInv, TradeOK, StoreOK, AppStaysSignedIn
  <2>6. call[c].pc = "turned" => store.refresh \in over
    BY <2>1 DEF TokensInv, WaiterOK
  <2>4. WaiterOK(c)'
    BY <1>1, <1>2, <1>3, <1>6, <2>1, <2>6 DEF WaiterOK
  <2>5. \A d \in Caller : d # c => WaiterOK(d)'
    BY <1>1, <1>2, <1>6, <1>10 DEF TokensInv, WaiterOK, ActorFree, Dead
  <2> QED BY <1>7, <1>8, <1>13, <2>2, <2>3, <2>4, <2>5 DEF TokensInv
<1> QED BY <1>9, <1>10

LEMMA BeforeExpiryInv ==
    ASSUME TokensInv, NEW c \in Caller, BeforeExpiry(c) PROVE TokensInv'
<1>1. ActorFree /\ Quiet /\ store' = store /\ call[c].pc = "early" /\ call[c].token \in Nat
      /\ store.access \in Nat
  BY DEF BeforeExpiry, Quiet, TokensInv, TokensTyped, CallTyped, Pairs, NoToken
<1>2. CASE /\ store.access = call[c].token /\ Trade(c)
           /\ trade # NoTrade \/ store.refresh # NoToken
  BY <1>1, <1>2, JoinInv
<1>3. ASSUME NEW t \in {call[c].token, store.access}, trade' = trade,
             call' = [call EXCEPT ![c] = Sent(t, FALSE)]
      PROVE  TokensInv'
  <2>1. CallTyped(Sent(t, FALSE)) /\ Sent(t, FALSE).pc = "sent"
    BY <1>1 DEF CallTyped, Sent
  <2> QED BY <1>1, <1>3, <2>1, QuietCaller
<1> QED BY <1>2, <1>3 DEF BeforeExpiry, MayBeDue

LEMMA AfterUnauthorizedInv ==
    ASSUME TokensInv, NEW c \in Caller, AfterUnauthorized(c) PROVE TokensInv'
<1>1. ActorFree /\ Quiet /\ store' = store /\ call[c].pc = "turned" /\ store.access \in Nat
  BY DEF AfterUnauthorized, Quiet, TokensInv, TokensTyped, CallTyped, Pairs, NoToken
<1>2. CASE /\ store.access = call[c].token /\ Trade(c)
           /\ trade # NoTrade \/ store.refresh # NoToken
  BY <1>1, <1>2, JoinInv
<1>3. ASSUME NEW w \in {NotCalling, Sent(store.access, TRUE)}, trade' = trade,
             call' = [call EXCEPT ![c] = w]
      PROVE  TokensInv'
  <2>1. CallTyped(w) /\ w.pc \in {"idle", "sent"}
    BY <1>1 DEF CallTyped, Sent, NotCalling
  <2> QED BY <1>1, <1>3, <2>1, QuietCaller
<1> QED BY <1>2, <1>3 DEF AfterUnauthorized

\* What is dropped is dead, and no other token of its session is left.
LEMMA GoOnInv ==
    ASSUME TokensInv, NEW c \in Caller, GoOn(c) PROVE TokensInv'
<1> DEFINE w == call[c]
           v == CASE w.outcome = "retry" -> Sent(w.new, ~w.early)
                  [] w.outcome # "retry" /\ w.early -> Sent(w.kept, FALSE)
                  [] OTHER -> NotCalling
           u == [pc |-> "dropping", token |-> store.access]
           drop == ~w.early /\ w.outcome = "refused" /\ w.kept # NoToken
                   /\ store.refresh = w.kept
<1>1. Quiet /\ trade' = trade /\ store' = store /\ w.pc = "joined" /\ ActorFree
  BY DEF GoOn, Quiet
<1>2. CallTyped(v) /\ v.pc \in {"sent", "idle"}
  <2>1. w.new \in Nat /\ w.kept \in Nat
    BY <1>1 DEF TokensInv, TokensTyped, CallTyped
  <2> QED BY <2>1 DEF CallTyped, Sent, NotCalling
<1>3. CASE call' = [call EXCEPT ![c] = v]
  <2> HIDE DEF v
  <2> QED BY <1>1, <1>2, <1>3, QuietCaller
<1>4. CASE drop /\ call' = [call EXCEPT ![c] = u]
  <2>1. Pairs' = Pairs /\ Strays' = Strays /\ live' = live /\ spent' = spent /\ minted' = minted
        /\ over' = over /\ signing' = signing /\ stray' = stray /\ doubtful' = doubtful
        /\ signedInAs' = signedInAs /\ overtaken' = overtaken /\ accused' = accused
        /\ (Renewal' <=> Renewal)
    BY <1>1 DEF Quiet, Pairs, Strays, Renewal
  <2>2. DOMAIN call' = Caller /\ \A d \in Caller : call'[d] = IF d = c THEN u ELSE call[d]
    <3> HIDE DEF u
    <3> QED BY <1>4 DEF TokensInv, TokensTyped
  <2>3. /\ store.refresh = store.access /\ store.access \in Pairs
        /\ u.pc = "dropping" /\ u.token = w.kept /\ u.token = store.refresh
    BY <1>4, StoreIs
  <2>4. u.token \in over /\ Dead(u.token)
    BY <1>1, <1>4, <2>3 DEF TokensInv, WaiterOK
  <2>5. trade # NoTrade => trade.token = u.token
    BY <2>3, <2>4 DEF TokensInv, StoreOK
  <2>6. CallTyped(u)
    BY <2>3 DEF CallTyped, Pairs
  <2> HIDE DEF u
  <2>7. \A d \in Caller : CallTyped(call'[d])
    BY <2>2, <2>6 DEF TokensInv, TokensTyped
  <2>8. TokensTyped'
    BY <1>1, <2>1, <2>2, <2>7 DEF TokensInv, TokensTyped, TradeTyped
  <2>9. SessionsOK' /\ SigningOK' /\ StraysOK' /\ TradeOK' /\ StoreOK' /\ AppStaysSignedIn'
    BY <1>1, <2>1 DEF TokensInv, SessionsOK, NoLiveOf, Dead, SigningOK, Unpresented, StraysOK,
       TradeOK, StoreOK, AppStaysSignedIn
  <2>10. WaiterOK(c)'
    BY <1>1, <2>1, <2>2, <2>3, <2>4, <2>5 DEF WaiterOK, Dead
  <2>11. \A d \in Caller : d # c => WaiterOK(d)'
    BY <1>1, <2>1, <2>2 DEF TokensInv, WaiterOK, Dead
  <2>12. ActorOK'
    BY <1>1, <2>2 DEF ActorFree, ActorOK
  <2> QED BY <2>8, <2>9, <2>10, <2>11, <2>12 DEF TokensInv
<1> QED BY <1>3, <1>4 DEF GoOn

\* The write leaves an access token whose session is over, of whoever is signed
\* in if nobody came between.
LEMMA DropInv ==
    ASSUME TokensInv, NEW c \in Caller, Drop(c) PROVE TokensInv'
<1>1. Quiet /\ trade' = trade /\ call[c].pc = "dropping" /\ call' = [call EXCEPT ![c] = NotCalling]
  BY DEF Drop, Quiet
<1>2. CallTyped(NotCalling) /\ NotCalling.pc = "idle"
  BY DEF CallTyped, NotCalling
<1>3. CASE store' = store
  BY <1>1, <1>2, <1>3, QuietCaller
<1>4. CASE store' = [access |-> call[c].token, refresh |-> NoToken]
  <2> DEFINE t == call[c].token
  <2>1. Pairs' = Pairs /\ Strays' = Strays /\ live' = live /\ spent' = spent /\ minted' = minted
        /\ over' = over /\ signing' = signing /\ stray' = stray /\ doubtful' = doubtful
        /\ signedInAs' = signedInAs /\ overtaken' = overtaken /\ accused' = accused
        /\ (Renewal' <=> Renewal)
    BY <1>1 DEF Quiet, Pairs, Strays, Renewal
  <2>2. DOMAIN call' = Caller
        /\ \A d \in Caller : call'[d] = IF d = c THEN NotCalling ELSE call[d]
    BY <1>1 DEF TokensInv, TokensTyped
  <2>3. \A d \in Caller : CallTyped(call'[d])
    BY <1>2, <2>2 DEF TokensInv, TokensTyped
  <2>4. /\ t \in over /\ Dead(t) /\ t \in Pairs
        /\ trade # NoTrade => trade.token = t
        /\ overtaken \/ store.refresh = t
    BY <1>1 DEF TokensInv, TokensTyped, WaiterOK
  <2>5. /\ store'.access = t /\ store'.refresh = NoToken /\ NoToken \notin Pairs
        /\ store' \in [access : Pairs \cup {NoToken}, refresh : Pairs \cup {NoToken}]
    BY <1>4, <2>4, StoreIs
  <2>6. TokensTyped'
    BY <1>1, <2>1, <2>2, <2>3, <2>5 DEF TokensInv, TokensTyped, TradeTyped
  <2>7. trade.pc \notin {"saving", "clearing"}
    BY <1>1 DEF TokensInv, ActorOK
  <2>8. SessionsOK' /\ StraysOK' /\ TradeOK'
    BY <1>1, <2>1, <2>7 DEF TokensInv, SessionsOK, NoLiveOf, Dead, StraysOK, TradeOK,
       Unpresented
  <2>9. SigningOK'
    BY <1>1, <2>1, <2>4, <2>5 DEF TokensInv, SigningOK, Unpresented
  <2>10. StoreOK'
    BY <1>1, <2>1, <2>4, <2>5 DEF TokensInv, TokensTyped, StoreOK
  <2>11. (\A d \in Caller : WaiterOK(d)') /\ ActorOK'
    <3>1. \A d \in Caller : d # c => call[d].pc # "dropping"
      BY <1>1 DEF TokensInv, ActorOK
    <3>2. \A d \in Caller : call'[d].pc # "dropping"
      BY <1>2, <2>2, <3>1
    <3>3. ActorOK'
      BY <3>2 DEF ActorOK
    <3>4. \A d \in Caller : WaiterOK(d)'
      BY <1>1, <1>2, <2>1, <2>2, <3>2 DEF TokensInv, WaiterOK, Dead
    <3> QED BY <3>3, <3>4
  <2>12. NoLiveOf(minted[t])
    BY <2>4 DEF TokensInv, SessionsOK
  <2>13. overtaken \/ minted[t] = signedInAs
    BY <2>4, StoreIs
  <2>14. AppStaysSignedIn'
    BY <2>1, <2>5, <2>12, <2>13 DEF TokensInv, AppStaysSignedIn, NoLiveOf
  <2> QED BY <2>6, <2>8, <2>9, <2>10, <2>11, <2>14 DEF TokensInv
<1> QED BY <1>3, <1>4 DEF Drop

\* A trade that returns hands its outcome to those who wait, and leaves a keychain
\* that is renewable, doubtful or overtaken.
LEMMA FinishInv ==
    ASSUME TokensInv, NEW outcome \in {"unreachable", "refused", "retry"}, NEW new \in Nat,
           Finish(outcome, new), trade # NoTrade,
           UNCHANGED <<minted, live, spent, over, signing, stray, signedInAs, overtaken, accused>>,
           doubtful \subseteq doubtful', doubtful' \subseteq Pairs,
           outcome = "refused" => Dead(trade.token),
           \A c \in Caller : call[c].pc # "dropping",
           store' \in [access : Pairs \cup {NoToken}, refresh : Pairs \cup {NoToken}],
           store'.refresh \in spent => store'.refresh \in doubtful',
           store'.refresh \in {store'.access, NoToken},
           signing # NoToken => signing # store'.access,
           store' # NoPair =>
              /\ overtaken \/ minted[store'.access] = signedInAs
              /\ store'.refresh \in live \cup doubtful' \/ NoLiveOf(minted[store'.access])
    PROVE  TokensInv'
<1>1. Pairs' = Pairs /\ Strays' = Strays /\ live' = live /\ spent' = spent /\ minted' = minted
      /\ over' = over /\ signing' = signing /\ stray' = stray
      /\ signedInAs' = signedInAs /\ overtaken' = overtaken /\ accused' = accused
      /\ trade' = NoTrade /\ trade'.pc = "idle" /\ ~Renewal'
  BY DEF Finish, Pairs, Strays, NoTrade, Renewal
<1>2. /\ DOMAIN call' = Caller
      /\ \A c \in Caller :
           call'[c] = IF call[c].pc = "joined" /\ call[c].outcome = "none"
                      THEN [call[c] EXCEPT !.outcome = outcome, !.new = new] ELSE call[c]
  BY DEF Finish
<1>3. \A c \in Caller :
         /\ call[c].pc = "joined" /\ call[c].outcome = "none" =>
               /\ call'[c].pc = "joined" /\ call'[c].early = call[c].early
               /\ call'[c].kept = call[c].kept /\ call'[c].outcome = outcome
               /\ CallTyped(call'[c])
         /\ ~(call[c].pc = "joined" /\ call[c].outcome = "none") => call'[c] = call[c]
  <2> SUFFICES ASSUME NEW c \in Caller, call[c].pc = "joined", call[c].outcome = "none"
               PROVE  /\ call'[c].pc = "joined" /\ call'[c].early = call[c].early
                      /\ call'[c].kept = call[c].kept /\ call'[c].outcome = outcome
                      /\ CallTyped(call'[c])
    BY <1>2
  <2>1. call[c] \in [pc : {"joined"}, early : BOOLEAN,
                     outcome : {"none", "retry", "refused", "unreachable"},
                     new : Nat, kept : Nat]
    BY DEF TokensInv, TokensTyped, CallTyped
  <2>2. call'[c] = [call[c] EXCEPT !.outcome = outcome, !.new = new]
    BY <1>2
  <2> QED BY <2>1, <2>2 DEF CallTyped
<1>4. \A c \in Caller : CallTyped(call'[c])
  BY <1>3 DEF TokensInv, TokensTyped
<1>5. TokensTyped'
  BY <1>1, <1>2, <1>4 DEF TokensInv, TokensTyped, TradeTyped, CallTyped
<1>6. SessionsOK' /\ StraysOK' /\ TradeOK' /\ SigningOK' /\ StoreOK'
  BY <1>1 DEF TokensInv, SessionsOK, NoLiveOf, Dead, StraysOK, TradeOK, SigningOK,
     Unpresented, StoreOK
<1>7. \A c \in Caller : WaiterOK(c)'
  <2> SUFFICES ASSUME NEW c \in Caller PROVE WaiterOK(c)'
    OBVIOUS
  <2>1. CASE call[c].pc = "joined" /\ call[c].outcome = "none"
    <3>1. ~call[c].early /\ call[c].kept # NoToken =>
             call[c].kept = trade.token /\ call[c].kept \in over
      BY <2>1 DEF TokensInv, WaiterOK
    <3> QED BY <1>1, <1>3, <2>1, <3>1 DEF WaiterOK, Dead
  <2>2. CASE ~(call[c].pc = "joined" /\ call[c].outcome = "none")
    <3>1. call'[c] = call[c]
      BY <1>3, <2>2
    <3> QED BY <1>1, <2>2, <3>1 DEF TokensInv, WaiterOK, Dead
  <2> QED BY <2>1, <2>2
<1>8. ActorOK'
  BY <1>1, <1>3 DEF ActorOK
<1>9. AppStaysSignedIn'
  BY <1>1 DEF TokensInv, AppStaysSignedIn, NoLiveOf
<1> QED BY <1>5, <1>6, <1>7, <1>8, <1>9 DEF TokensInv

\* A stored session that is left as it was is as good as it was, if the token of
\* the trade that ends was not used, or is doubtful.
LEMMA StoreKept ==
    ASSUME TokensInv, trade # NoTrade, store' = store,
           doubtful \subseteq doubtful', doubtful' \subseteq Pairs,
           store.refresh = trade.token /\ trade.token \in spent => trade.token \in doubtful'
    PROVE  /\ store' \in [access : Pairs \cup {NoToken}, refresh : Pairs \cup {NoToken}]
           /\ store'.refresh \in spent => store'.refresh \in doubtful'
           /\ store'.refresh \in {store'.access, NoToken}
           /\ signing # NoToken => signing # store'.access
           /\ store' # NoPair =>
                /\ overtaken \/ minted[store'.access] = signedInAs
                /\ store'.refresh \in live \cup doubtful' \/ NoLiveOf(minted[store'.access])
<1>1. /\ store \in [access : Pairs \cup {NoToken}, refresh : Pairs \cup {NoToken}]
      /\ store.refresh \in {store.access, NoToken}
      /\ store.refresh \in spent => store.refresh \in doubtful'
  BY DEF TokensInv, TokensTyped, StoreOK
<1>2. signing # NoToken => signing # store.access
  BY DEF TokensInv, SigningOK
<1>3. store # NoPair => overtaken \/ minted[store.access] = signedInAs
  BY StoreIs
<1>4. ASSUME store # NoPair
      PROVE  store.refresh \in live \cup doubtful' \/ NoLiveOf(minted[store.access])
  <2>1. CASE store.refresh = trade.token
    <3>1. trade.token \in Pairs /\ store.refresh = store.access
      BY <2>1, StoreIs, TradeIs DEF TokensInv
    <3> QED BY <1>1, <2>1, <3>1, NotUsed
  <2>2. CASE store.refresh # trade.token
    BY <1>4, <2>2 DEF TokensInv, AppStaysSignedIn, NoLiveOf
  <2> QED BY <2>1, <2>2
<1> QED BY <1>1, <1>2, <1>3, <1>4

LEMMA TradeEndsInv ==
    ASSUME TokensInv, TradeEnds PROVE TokensInv'
<1>1. /\ trade # NoTrade /\ trade.token \in Pairs /\ trade.pc \in {"answered", "unreachable"}
      /\ Renewal => trade.new \in Nat
  BY TradeIs DEF TokensInv, TradeEnds, Pairs, NoTrade
<1>2. /\ UNCHANGED <<minted, live, spent, over, signing, stray, signedInAs, overtaken, accused>>
      /\ store' = store /\ doubtful' = doubtful /\ doubtful \subseteq Pairs
      /\ \A c \in Caller : call[c].pc # "dropping"
  BY DEF TradeEnds, ActorFree, TokensInv, TokensTyped
<1>3. PICK outcome \in {"unreachable", "refused", "retry"}, new \in Nat :
         /\ Finish(outcome, new)
         /\ outcome = "unreachable" => trade.pc = "unreachable"
         /\ outcome = "refused" => trade.pc = "answered" /\ trade.new = NoToken
         /\ outcome = "retry" => ~Keeps(trade.token)
  <2>1. CASE trade.pc = "unreachable" /\ Finish("unreachable", NoToken)
    BY <2>1 DEF NoToken
  <2>2. CASE trade.pc = "answered" /\ trade.new = NoToken /\ Finish("refused", NoToken)
    BY <2>2 DEF NoToken
  <2>3. CASE trade.pc = "answered" /\ Renewal /\ ~Keeps(trade.token)
             /\ Finish("retry", trade.new)
    BY <1>1, <2>3
  <2> QED BY <2>1, <2>2, <2>3 DEF TradeEnds
<1>4. outcome = "refused" => Dead(trade.token)
  BY <1>3 DEF TokensInv, TradeOK
<1>5. store.refresh = trade.token /\ trade.token \in spent => trade.token \in doubtful'
  <2> SUFFICES ASSUME store.refresh = trade.token, trade.token \in spent
               PROVE  trade.token \in doubtful
    BY <1>2
  <2>1. store # NoPair
    BY <1>1, StoreIs
  <2>2. outcome # "retry"
    BY <1>3, <2>1 DEF Keeps
  <2>3. outcome # "refused"
    BY <1>4 DEF Dead
  <2> QED BY <1>3, <2>2, <2>3 DEF TokensInv, TradeOK
<1> QED BY <1>1, <1>2, <1>3, <1>4, <1>5, StoreKept, FinishInv

\* The pair a trade brought is on its way to the keychain.
LEMMA SavingInv ==
    ASSUME TokensInv, Renewal, NEW p \in {"saving", "clearing"},
           trade' = [trade EXCEPT !.pc = p],
           UNCHANGED <<minted, live, spent, over, store, signing, stray, call, signedInAs,
                       overtaken, doubtful, accused>>,
           \A c \in Caller : call[c].pc # "dropping",
           p = "saving" => store.refresh = trade.token
    PROVE  TokensInv'
<1>1. Pairs' = Pairs /\ Strays' = Strays /\ live' = live /\ spent' = spent /\ minted' = minted
      /\ over' = over /\ signing' = signing /\ store' = store /\ stray' = stray /\ call' = call
      /\ signedInAs' = signedInAs /\ overtaken' = overtaken /\ accused' = accused
      /\ doubtful' = doubtful
  BY DEF Pairs, Strays
<1>2. trade # NoTrade /\ trade.token \in Pairs /\ trade.new \in Pairs /\ NoToken \notin Pairs
  BY TradeIs DEF TokensInv, Pairs, NoToken
<1>3. trade \in [pc : {"answered", "saving", "clearing"}, token : Pairs, new : Pairs \cup {NoToken}]
  BY <1>2 DEF TokensInv, TokensTyped, TradeTyped, NoTrade, Renewal
<1>4. /\ trade'.pc = p /\ trade'.token = trade.token /\ trade'.new = trade.new
      /\ trade' \in [pc : {"saving", "clearing"}, token : Pairs, new : Pairs]
  BY <1>2, <1>3
<1>5. trade' # NoTrade /\ Renewal'
  BY <1>2, <1>4 DEF NoTrade, Renewal
<1>6. TokensTyped'
  BY <1>1, <1>4 DEF TokensInv, TokensTyped, TradeTyped, CallTyped
<1>7. SessionsOK' /\ SigningOK' /\ StraysOK'
  BY <1>1, <1>2, <1>4, <1>5 DEF TokensInv, SessionsOK, NoLiveOf, Dead, SigningOK, Unpresented,
     StraysOK
<1>8. TradeOK' /\ StoreOK'
  BY <1>1, <1>2, <1>4, <1>5 DEF TokensInv, TradeOK, Unpresented, StoreOK
<1>9. (\A c \in Caller : WaiterOK(c)') /\ ActorOK' /\ AppStaysSignedIn'
  BY <1>1, <1>2, <1>4, <1>5 DEF TokensInv, WaiterOK, Dead, ActorOK, AppStaysSignedIn
<1> QED BY <1>6, <1>7, <1>8, <1>9 DEF TokensInv

LEMMA TradeChecksInv ==
    ASSUME TokensInv, TradeChecks PROVE TokensInv'
<1>1. /\ Renewal /\ \A c \in Caller : call[c].pc # "dropping"
      /\ UNCHANGED <<minted, live, spent, over, store, signing, stray, call, signedInAs,
                     overtaken, doubtful, accused>>
  BY DEF TradeChecks, ActorFree
<1>2. PICK p \in {"saving", "clearing"} :
         /\ trade' = [trade EXCEPT !.pc = p]
         /\ p = "saving" => store.refresh = trade.token
  BY DEF TradeChecks, Keeps
<1> QED BY <1>1, <1>2, SavingInv

\* What save has just looked at is what it writes over, or it was overtaken.
LEMMA TradeSavesInv ==
    ASSUME TokensInv, TradeSaves PROVE TokensInv'
<1>1. /\ trade.pc = "saving" /\ Renewal /\ trade # NoTrade /\ trade.token \in Pairs
      /\ trade.new \in Pairs /\ trade.new \in Nat /\ NoToken \notin Pairs
      /\ \A c \in Caller : call[c].pc # "dropping"
  BY TradeIs DEF TradeSaves, TokensInv, ActorOK, Pairs, NoToken
<1>2. /\ UNCHANGED <<minted, live, spent, over, signing, stray, signedInAs, overtaken, accused>>
      /\ doubtful' = doubtful /\ doubtful \subseteq Pairs
  BY DEF TradeSaves, TokensInv, TokensTyped
<1>3. CASE trade' = [trade EXCEPT !.pc = "clearing"] /\ UNCHANGED <<store, call>>
  BY <1>1, <1>2, <1>3, SavingInv
<1>4. CASE store' = Pair(trade.new) /\ Finish("retry", trade.new)
  <2>1. /\ store'.access = trade.new /\ store'.refresh = trade.new
        /\ store' \in [access : Pairs \cup {NoToken}, refresh : Pairs \cup {NoToken}]
    BY <1>1, <1>4 DEF Pair
  <2>2. minted[trade.new] = minted[trade.token] /\ trade.new \notin spent
        /\ (signing # NoToken => signing # trade.new)
    BY <1>1 DEF TokensInv, TradeOK, Unpresented, SigningOK
  <2>3. trade.new \in live \/ NoLiveOf(minted[trade.new])
    BY <1>1, <2>2, NotUsed
  <2>4. overtaken \/ minted[trade.token] = signedInAs
    <3>1. overtaken \/ store.refresh = trade.token
      BY <1>1 DEF TokensInv, TradeOK
    <3> QED BY <1>1, <3>1, StoreIs
  <2> QED BY <1>1, <1>2, <1>4, <2>1, <2>2, <2>3, <2>4, FinishInv
<1> QED BY <1>3, <1>4 DEF TradeSaves

LEMMA TradeClearsInv ==
    ASSUME TokensInv, TradeClears PROVE TokensInv'
<1>1. /\ trade.pc = "clearing" /\ trade # NoTrade /\ trade.token \in Pairs
      /\ trade.new \in Nat /\ NoToken \notin Pairs
      /\ \A c \in Caller : call[c].pc # "dropping"
  BY TradeIs DEF TradeClears, TokensInv, ActorOK, Pairs, NoToken
<1>2. /\ UNCHANGED <<minted, live, spent, over, signing, stray, signedInAs, overtaken, accused>>
      /\ Finish("retry", trade.new)
      /\ doubtful \subseteq doubtful' /\ doubtful' \subseteq Pairs
      /\ store'.refresh = trade.token => trade.token \in doubtful'
  BY <1>1 DEF TradeClears, TokensInv, TokensTyped
<1>3. CASE store' = store
  BY <1>1, <1>2, <1>3, StoreKept, FinishInv
<1>4. CASE store' = NoPair
  <2>1. /\ store'.access = NoToken /\ store'.refresh = NoToken /\ NoToken \notin spent
        /\ store' \in [access : Pairs \cup {NoToken}, refresh : Pairs \cup {NoToken}]
    BY <1>1, <1>4 DEF NoPair, TokensInv, TokensTyped
  <2> QED BY <1>1, <1>2, <1>4, <2>1, FinishInv
<1> QED BY <1>3, <1>4 DEF TradeClears

\* The server handles token t of the trade, or of a stray.
LEMMA RedeemInv ==
    ASSUME TokensInv, NEW t \in Pairs, Redeem(t),
           UNCHANGED <<over, store, signing, signedInAs, overtaken, call>>,
           t \in spent => t \in doubtful,
           t \in doubtful \/ (trade # NoTrade /\ t = trade.token),
           signing # NoToken => t # signing,
           doubtful \subseteq doubtful', doubtful' \subseteq Pairs,
           stray' \in Seq(Nat),
           \A i \in Strays' : stray'[i] \in doubtful' /\ (signing # NoToken => stray'[i] # signing),
           TradeTyped', TradeOK',
           trade = NoTrade => trade' = NoTrade,
           trade # NoTrade => trade' # NoTrade /\ trade'.token = trade.token,
           signing # NoToken /\ Renewal' => trade'.new # signing,
           store.refresh = t =>
              \/ store.refresh \notin spent' \/ store.refresh \in doubtful'
              \/ Renewal' /\ trade'.token = store.refresh,
           trade.pc # "asking" => trade' = trade,
           trade.pc = "asking" => trade'.pc \in {"asking", "unreachable", "answered"}
    PROVE  TokensInv'
<1>1. SessionsOK' /\ RedeemFacts(t)
  BY RedeemIs
<1>2. /\ over' = over /\ store' = store /\ signing' = signing /\ signedInAs' = signedInAs
      /\ call' = call /\ overtaken' = overtaken /\ (Renewal => Renewal')
  BY DEF Renewal
<1>3. TokensTyped'
  BY <1>1, <1>2 DEF TokensInv, TokensTyped, CallTyped, RedeemFacts
<1>4. StraysOK'
  BY DEF StraysOK
<1>5. SigningOK'
  BY <1>1, <1>2 DEF TokensInv, TokensTyped, SigningOK, Unpresented, RedeemFacts
<1>6. StoreOK'
  <2>1. store.refresh \in spent' /\ store.refresh # t => store.refresh \in spent
    BY <1>1, StoreIs DEF RedeemFacts
  <2>2. store.refresh \in spent' =>
           \/ store.refresh \in doubtful'
           \/ Renewal' /\ trade'.token = store.refresh
    <3>1. Renewal => trade # NoTrade
      BY TradeIs DEF TokensInv
    <3> QED BY <1>2, <2>1, <3>1 DEF TokensInv, StoreOK
  <2>3. trade' # NoTrade /\ store.access \in over => store.access = trade'.token
    BY DEF TokensInv, StoreOK
  <2> QED BY <1>2, <2>2, <2>3 DEF TokensInv, StoreOK
<1>7. \A c \in Caller : WaiterOK(c)'
  <2>1. over \subseteq Pairs
    BY DEF TokensInv, TokensTyped
  <2> QED BY <1>1, <1>2, <2>1 DEF TokensInv, WaiterOK, RedeemFacts
<1>9. ActorOK'
  BY <1>2 DEF TokensInv, ActorOK
<1>8. AppStaysSignedIn'
  <2>1. ~accused'
    BY <1>1 DEF RedeemFacts, TokensInv, AppStaysSignedIn
  <2>2. ASSUME store # NoPair 
        PROVE  /\ minted'[store.access] = minted[store.access]
               /\ overtaken \/ minted'[store.access] = signedInAs
               /\ minted[store.access] \in Nat
    <3>1. store.access \in Pairs
      BY <2>2, StoreIs
    <3>2. minted[store.access] \in Nat
      BY <3>1 DEF TokensInv, TokensTyped, Pairs
    <3> QED BY <1>1, <2>2, <3>1, <3>2, StoreIs DEF RedeemFacts
  <2>3. ASSUME store # NoPair, NoLiveOf(minted[store.access])
        PROVE  NoLiveOf(minted[store.access])'
    <3>1. PICK u \in Nat : u = minted[store.access] /\ u = minted'[store.access]
      BY <2>2, <2>3
    <3>2. NoLiveOf(u)'
      BY <1>1, <2>3, <3>1 DEF RedeemFacts
    <3> QED BY <1>2, <3>1, <3>2 DEF NoLiveOf
  <2>4. store.refresh \in live =>
           \/ store.refresh \in live' \cup doubtful' \/ live' = {}
           \/ trade' # NoTrade /\ trade'.token = store.refresh
    BY <1>1 DEF RedeemFacts
  <2> QED BY <1>2, <2>1, <2>2, <2>3, <2>4 DEF TokensInv, AppStaysSignedIn, NoLiveOf
<1> QED BY <1>1, <1>3, <1>4, <1>5, <1>6, <1>7, <1>8, <1>9 DEF TokensInv

LEMMA AnswerTradeInv ==
    ASSUME TokensInv, AnswerTrade PROVE TokensInv'
<1> DEFINE t == trade.token
<1>1. /\ trade # NoTrade /\ trade.pc = "asking" /\ t \in Pairs /\ Redeem(t)
      /\ UNCHANGED <<over, store, signing, stray, call, signedInAs, overtaken, doubtful>>
  BY TradeIs DEF TokensInv, AnswerTrade, NoTrade
<1>2. RedeemFacts(t)
  BY <1>1, RedeemIs
<1>3. /\ trade' # NoTrade /\ trade'.pc = "answered" /\ trade'.token = t
      /\ trade'.new = Renewed(t)
  BY DEF AnswerTrade, NoTrade
<1>8. Len(minted') \in Nat
  BY <1>2 DEF RedeemFacts
<1>4. /\ t \in live => trade'.new = Len(minted') /\ trade'.new \in Pairs' /\ trade'.new \notin Pairs
                       /\ minted'[trade'.new] = minted'[t]
      /\ t \notin live => trade'.new = NoToken /\ Dead(t)'
      /\ Renewal' <=> t \in live
  BY <1>1, <1>2, <1>3, <1>8 DEF RedeemFacts, Renewed, Renewal, Pairs, NoToken
<1>5. TradeTyped'
  BY <1>1, <1>2, <1>3, <1>4 DEF AnswerTrade, TradeTyped, RedeemFacts
<1>6. /\ doubtful \subseteq Pairs /\ stray \in Seq(Nat) /\ Strays' = Strays
      /\ \A i \in Strays : stray[i] \in doubtful
      /\ signing # NoToken => /\ t # signing /\ signing \in Pairs
                             /\ \A i \in Strays : stray[i] # signing
      /\ t \in spent => t \in doubtful
      /\ NoToken \notin Pairs'
  BY <1>1 DEF TokensInv, TokensTyped, StraysOK, SigningOK, Unpresented, TradeOK, Strays,
     Pairs, NoToken
<1>7. TradeOK'
  BY <1>1, <1>2, <1>3, <1>4, <1>6 DEF TradeOK, Unpresented, RedeemFacts
<1>9. signing # NoToken /\ Renewal' => trade'.new # signing
  BY <1>4, <1>6
<1>10. t \notin live => t \notin spent'
  BY <1>2 DEF RedeemFacts, Dead
<1> QED BY <1>1, <1>3, <1>4, <1>5, <1>6, <1>7, <1>9, <1>10, RedeemInv

\* An element of a sequence without its i-th.
LEMMA WithoutStray ==
    ASSUME stray \in Seq(Nat), NEW i \in Strays,
           stray' = SubSeq(stray, 1, i - 1) \o SubSeq(stray, i + 1, Len(stray))
    PROVE  stray' \in Seq(Nat) /\ \A k \in Strays' : \E j \in Strays : stray'[k] = stray[j]
<1> DEFINE a == SubSeq(stray, 1, i - 1)
           b == SubSeq(stray, i + 1, Len(stray))
<1>1. Len(stray) \in Nat /\ Strays = 1 .. Len(stray) /\ i \in 1 .. Len(stray)
  BY DEF Strays
<1>2. /\ a \in Seq(Nat) /\ Len(a) = i - 1 /\ \A k \in 1 .. i - 1 : a[k] = stray[k]
      /\ b \in Seq(Nat) /\ Len(b) = Len(stray) - i
      /\ \A k \in 1 .. Len(stray) - i : b[k] = stray[k + i]
  BY <1>1
<1>6. stray' = a \o b
  OBVIOUS
<1> HIDE DEF a, b
<1>3. /\ stray' \in Seq(Nat) /\ Len(stray') = Len(stray) - 1
      /\ \A k \in 1 .. Len(stray) - 1 : stray'[k] = IF k <= i - 1 THEN a[k] ELSE b[k - (i - 1)]
  <2>0. a \in Seq(Nat) /\ b \in Seq(Nat)
    BY <1>2
  <2>1. /\ a \o b \in Seq(Nat) /\ Len(a \o b) = Len(a) + Len(b)
        /\ \A k \in 1 .. Len(a) + Len(b) :
             (a \o b)[k] = IF k <= Len(a) THEN a[k] ELSE b[k - Len(a)]
    BY <2>0, ConcatProperties, Zenon
  <2>2. /\ stray' \in Seq(Nat) /\ Len(stray') = Len(a) + Len(b)
        /\ \A k \in 1 .. Len(a) + Len(b) :
             stray'[k] = IF k <= Len(a) THEN a[k] ELSE b[k - Len(a)]
    BY <1>6, <2>1, Zenon
  <2>3. Len(a) = i - 1 /\ Len(a) + Len(b) = Len(stray) - 1
    BY <1>1, <1>2
  <2> QED BY <2>2, <2>3
<1>4. Strays' = 1 .. Len(stray) - 1
  BY <1>1, <1>3 DEF Strays
<1>5. \A k \in Strays' : \E j \in Strays : stray'[k] = stray[j]
  <2> SUFFICES ASSUME NEW k \in 1 .. Len(stray) - 1
               PROVE  \E j \in 1 .. Len(stray) : stray'[k] = stray[j]
    BY <1>1, <1>4
  <2>1. CASE k <= i - 1
    <3>1. k \in 1 .. i - 1 /\ k \in 1 .. Len(stray)
      BY <1>1, <2>1
    <3>2. stray'[k] = stray[k]
      BY <1>2, <1>3, <2>1, <3>1
    <3> QED BY <3>1, <3>2
  <2>2. CASE ~(k <= i - 1)
    <3>1. k - (i - 1) \in 1 .. Len(stray) - i /\ k + 1 \in 1 .. Len(stray)
          /\ k - (i - 1) + i = k + 1
      BY <1>1, <2>2
    <3>2. stray'[k] = stray[k + 1]
      BY <1>1, <1>2, <1>3, <2>2, <3>1
    <3> QED BY <3>1, <3>2
  <2> QED BY <2>1, <2>2
<1> QED BY <1>3, <1>5

LEMMA StrayArrivesInv ==
    ASSUME TokensInv, NEW i \in Strays, StrayArrives(i) PROVE TokensInv'
<1> DEFINE t == stray[i]
<1>1. /\ t \in Pairs /\ t \in doubtful /\ Redeem(t)
      /\ UNCHANGED <<over, store, signing, trade, call, signedInAs, overtaken, doubtful>>
      /\ doubtful \subseteq Pairs /\ (Renewal' <=> Renewal)
  BY DEF TokensInv, TokensTyped, StraysOK, StrayArrives, Renewal
<1>2. RedeemFacts(t)
  BY <1>1, RedeemIs
<1>3. stray' \in Seq(Nat) /\ \A k \in Strays' : \E j \in Strays : stray'[k] = stray[j]
  BY WithoutStray DEF TokensInv, TokensTyped, StrayArrives
<1>4. \A k \in Strays' : stray'[k] \in doubtful /\ (signing # NoToken => stray'[k] # signing)
  BY <1>3 DEF TokensInv, StraysOK, SigningOK, Unpresented
<1>5. TradeTyped'
  BY <1>1, <1>2 DEF TokensInv, TokensTyped, TradeTyped, RedeemFacts
<1>6. TradeOK'
  <2>1. trade.pc \in {"asking", "unreachable"} /\ trade.token \in spent' => trade.token \in doubtful
    BY <1>1, <1>2, TradeIs DEF TokensInv, TradeOK, RedeemFacts, NoTrade
  <2>2. trade.pc = "answered" /\ trade.new = NoToken => Dead(trade.token)'
    BY <1>1, <1>2, TradeIs DEF TokensInv, TradeOK, RedeemFacts, NoTrade
  <2>3. Renewal =>
           /\ minted'[trade.new] = minted'[trade.token] /\ trade.new \notin spent'
           /\ trade.new # trade.token /\ \A k \in Strays' : stray'[k] # trade.new
    BY <1>1, <1>2, <1>3, TradeIs DEF TokensInv, TradeOK, RedeemFacts, Unpresented, NoTrade
  <2>4. trade.pc = "saving" => overtaken \/ store.refresh = trade.token
    BY DEF TokensInv, TradeOK
  <2> QED BY <1>1, <2>1, <2>2, <2>3, <2>4 DEF TradeOK, Unpresented, Dead
<1>7. signing # NoToken => t # signing /\ (Renewal => trade.new # signing)
  BY DEF TokensInv, SigningOK, Unpresented
<1> QED BY <1>1, <1>3, <1>4, <1>5, <1>6, <1>7, RedeemInv

\* Whether the request was handled or is still to arrive, the token it presented
\* is doubtful once it may have been used.
LEMMA LoseTradeInv ==
    ASSUME TokensInv, LoseTrade PROVE TokensInv'
<1> DEFINE t == trade.token
<1>1. /\ trade # NoTrade /\ trade.pc = "asking" /\ t \in Pairs
      /\ UNCHANGED <<over, store, signing, call, signedInAs, overtaken>>
      /\ trade' # NoTrade /\ trade'.pc = "unreachable" /\ trade'.token = t
      /\ trade' \in [pc : {"asking", "unreachable"}, token : Pairs]
      /\ ~Renewal /\ ~Renewal'
  BY TradeIs DEF TokensInv, LoseTrade, NoTrade, Renewal
<1>2. /\ doubtful \subseteq Pairs /\ stray \in Seq(Nat)
      /\ \A i \in Strays : stray[i] \in doubtful
      /\ signing # NoToken => /\ t # signing /\ signing \in Pairs
                             /\ \A i \in Strays : stray[i] # signing
      /\ t \in spent => t \in doubtful
  BY <1>1 DEF TokensInv, TokensTyped, StraysOK, SigningOK, Unpresented, TradeOK
<1>3. CASE /\ stray' \in {stray, Append(stray, t)}
           /\ doubtful' = IF stray' = stray THEN doubtful ELSE doubtful \cup {t}
           /\ UNCHANGED <<minted, live, spent, accused>>
  <2>1. /\ stray' \in Seq(Nat)
        /\ \A i \in Strays' : stray'[i] = t \/ (i \in Strays /\ stray'[i] = stray[i])
        /\ stray' = stray => Strays' = Strays
    BY <1>1, <1>3, AppendStray
  <2>2. /\ doubtful \subseteq doubtful' /\ doubtful' \subseteq Pairs
        /\ \A i \in Strays' : stray'[i] \in doubtful' /\ (signing # NoToken => stray'[i] # signing)
    BY <1>1, <1>2, <1>3, <2>1
  <2>3. Pairs' = Pairs /\ live' = live /\ spent' = spent /\ minted' = minted /\ over' = over
        /\ signing' = signing /\ store' = store /\ call' = call /\ signedInAs' = signedInAs
        /\ accused' = accused /\ overtaken' = overtaken
    BY <1>1, <1>3 DEF Pairs
  <2>4. TokensTyped'
    BY <1>1, <2>1, <2>2, <2>3 DEF TokensInv, TokensTyped, TradeTyped, CallTyped
  <2>5. SessionsOK' /\ SigningOK' /\ StraysOK'
    BY <1>1, <2>2, <2>3 DEF TokensInv, SessionsOK, NoLiveOf, Dead, SigningOK, Unpresented,
       StraysOK
  <2>6. TradeOK' /\ StoreOK'
    BY <1>1, <1>2, <2>2, <2>3 DEF TokensInv, TradeOK, StoreOK
  <2>7. (\A c \in Caller : WaiterOK(c)') /\ ActorOK'
    BY <1>1, <2>3 DEF TokensInv, WaiterOK, ActorOK, Dead
  <2>8. AppStaysSignedIn'
    BY <1>1, <2>2, <2>3 DEF TokensInv, AppStaysSignedIn
  <2> QED BY <2>4, <2>5, <2>6, <2>7, <2>8 DEF TokensInv
<1>4. CASE /\ Redeem(t)
           /\ doubtful' = IF t \in live THEN doubtful \cup {t} ELSE doubtful
           /\ UNCHANGED stray
  <2>1. RedeemFacts(t)
    BY <1>1, <1>4, RedeemIs
  <2>2. /\ doubtful \subseteq doubtful' /\ doubtful' \subseteq Pairs /\ Strays' = Strays
        /\ t \in spent' => t \in doubtful'
    BY <1>1, <1>2, <1>4, <2>1 DEF Strays, RedeemFacts
  <2>3. TradeTyped' /\ TradeOK'
    BY <1>1, <2>1, <2>2 DEF TradeTyped, TradeOK, RedeemFacts
  <2> QED BY <1>1, <1>2, <1>4, <2>2, <2>3, RedeemInv
<1> QED BY <1>3, <1>4 DEF LoseTrade

LEMMA TokensInitial == AppInit => TokensInv
<1> SUFFICES ASSUME AppInit PROVE TokensInv
  OBVIOUS
<1>1. /\ minted = <<>> /\ stray = <<>> /\ Pairs = {} /\ Strays = {}
      /\ live = {} /\ spent = {} /\ over = {} /\ doubtful = {} /\ Len(minted) = 0
      /\ store = NoPair /\ signing = NoToken /\ trade = NoTrade /\ trade.pc = "idle"
      /\ \A c \in Caller : call[c] = NotCalling /\ call[c].pc = "idle"
      /\ DOMAIN call = Caller /\ signedInAs = NoToken /\ overtaken = FALSE /\ ~accused
      /\ ~Renewal
  BY DEF AppInit, Pairs, Strays, NoTrade, NotCalling, Renewal
<1>2. TokensTyped
  <2>1. overtaken \in BOOLEAN
    BY <1>1
  <2> QED BY <1>1, <2>1 DEF TokensTyped, TradeTyped, CallTyped, NoToken, NoPair
<1> QED BY <1>1, <1>2 DEF TokensInv, SessionsOK, SigningOK, StraysOK, TradeOK, StoreOK,
        WaiterOK, ActorOK, AppStaysSignedIn, NoPair

LEMMA TokensNext == TokensInv /\ AppNext => TokensInv'
BY AnswerTradeInv, LoseTradeInv, TradeEndsInv, TradeChecksInv, TradeSavesInv, TradeClearsInv,
   RevokeDriverInv, LoginAnsweredInv, SaveSignInInv, ForgetTokensInv, LaunchAgainInv, StrayArrivesInv,
   AccessTokenExpiresInv, RefreshTokenExpiresInv, SendInv, PerformedInv,
   BeforeExpiryInv, AfterUnauthorizedInv, GoOnInv, DropInv
   DEF AppNext

LEMMA TokensStutter == TokensInv /\ UNCHANGED appVars => TokensInv'
<1> SUFFICES ASSUME TokensInv, UNCHANGED appVars PROVE TokensInv'
  OBVIOUS
<1>1. /\ Pairs' = Pairs /\ Strays' = Strays /\ live' = live /\ spent' = spent /\ minted' = minted
      /\ over' = over /\ signing' = signing /\ store' = store /\ call' = call
      /\ signedInAs' = signedInAs /\ accused' = accused /\ trade' = trade /\ stray' = stray
      /\ doubtful' = doubtful /\ overtaken' = overtaken /\ (Renewal' <=> Renewal)
  BY DEF appVars, Pairs, Strays, Renewal
<1>2. TokensTyped'
  BY <1>1 DEF TokensInv, TokensTyped, TradeTyped, CallTyped
<1> QED BY <1>1, <1>2 DEF TokensInv, SessionsOK, NoLiveOf, Dead, SigningOK, Unpresented,
             StraysOK, TradeOK, StoreOK, WaiterOK, ActorOK, AppStaysSignedIn

\* However many requests meet an expired token at once, whatever replies are
\* lost or late, and whoever signs in or out meanwhile: the refresher presents
\* no token the server would take for stolen, and whatever session is stored can
\* be renewed while the server keeps it.  It is that of the last sign-in, except
\* after a sign-in or sign-out between the refresher's look at the keychain and its
\* write, which run ios_signin shows to be overwritten.
THEOREM DriverStaysSignedIn == SpecApp => []AppStaysSignedIn
<1>1. InitApp => TokensInv
  BY TokensInitial DEF InitApp
<1>2. TokensInv /\ [NextApp]_iosVars => TokensInv'
  <2>1. TokensInv /\ UNCHANGED iosVars => TokensInv'
    BY TokensStutter DEF iosVars
  <2> QED BY <2>1, TokensNext, TokensStutter DEF NextApp
<1>3. TokensInv => AppStaysSignedIn
  BY DEF TokensInv
<1> QED BY <1>1, <1>2, <1>3, PTL DEF SpecApp
=============================================================================
