----------------------------- MODULE TripsProofs -----------------------------
(***************************************************************************)
(* What a phone may rely on of the server of Trips, whatever calls it and   *)
(* the other phones make: ServerInv, and StepFacts of every step.  The      *)
(* proofs about the two apps, AndroidTripsProofs and IosAppProofs, rest     *)
(* on these lemmas.                                                         *)
(***************************************************************************)
EXTENDS Trips, TLAPS

StartPC == {"checkAssignment", "checkActive", "insert"}

\* A call that may still be answered as an end, or has been.
EndCall(c) == c.pc \in {"end", "ended", "notFound", "failed"} /\ c.trip \in Trip

StartCall(c) == c.pc \in StartPC \cup {"created", "notAssigned", "conflict", "failed"}

\* A start is made for a driver, and one that is answered with a trip names a
\* trip that did start, and for that driver.
CallOK(r) ==
    /\ req[r].pc \in StartPC => req[r].driver \in Driver
    /\ req[r].pc = "created" =>
          /\ req[r].trip \in Trip
          /\ trips[req[r].trip].status # "free"
          /\ trips[req[r].trip].driver = req[r].driver
    /\ req[r].pc \in {"end", "ended", "notFound"} => req[r].trip \in Trip

\* A trip that has started is somebody's.
Owned == \A t \in Trip : trips[t].status # "free" => trips[t].driver \in Driver

ServerInv ==
    /\ ServerTypeOK
    /\ Owned
    /\ \A r \in Request : CallOK(r)
    /\ OneActiveTripPerDriver

\* A trip that has started stays its driver's, and one that is over stays over.
RowsGrow ==
    \A t \in Trip :
        /\ trips[t].status # "free" =>
              trips'[t].status # "free" /\ trips'[t].driver = trips[t].driver
        /\ trips[t].status = "completed" => trips'[t].status = "completed"

\* Every step of a call leaves the others alone, and says of its trip no more
\* than is so: one it starts it answers with or has lost, one it says has ended
\* is over if it was its driver's.
StepFacts(r) ==
    /\ RowsGrow
    /\ \A q \in Request : q # r => req'[q] = req[q]
    /\ req'[r].driver = req[r].driver
    /\ req'[r].pc # "free"
    /\ EndCall(req[r]) => EndCall(req'[r]) /\ req'[r].trip = req[r].trip
    /\ StartCall(req[r]) => StartCall(req'[r])
    /\ req[r].pc \notin Reply
    /\ lost \subseteq lost'
    /\ \A t \in Trip : trips'[t].status = "active" =>
          \/ trips[t].status = "active"
          \/ req'[r].pc = "created" /\ req'[r].trip = t
          \/ t \in lost'
    /\ EndCall(req[r]) /\ req'[r].pc \in {"ended", "notFound"} =>
          LET t == req[r].trip IN
          trips[t].status # "free" /\ trips[t].driver = req[r].driver
              => trips'[t].status = "completed"

-----------------------------------------------------------------------------
LEMMA ServerInitial == ServerInit => ServerInv
BY NoneIsNobody DEF ServerInit, ServerInv, ServerTypeOK, CallOK, NoCall, StartPC,
   Call, PC, Reply, Row, Status, Owned, OneActiveTripPerDriver

\* A step that changes the program counter alone.
LEMMA StepInv ==
    ASSUME ServerInv, NEW r \in Request, NEW pc \in PC, Step(r, pc),
           UNCHANGED <<trips, lost>>, assigned' \subseteq Driver \X Vehicle,
           req[r].pc \notin Reply,
           pc \in StartPC => req[r].pc \in StartPC,
           pc # "created",
           pc \in {"end", "ended", "notFound"} => req[r].pc = "end"
    PROVE  /\ ServerInv'
           /\ \A q \in Request : q # r => req'[q] = req[q]
           /\ req'[r] = [req[r] EXCEPT !.pc = pc]
           /\ req'[r].pc = pc
           /\ req'[r].driver = req[r].driver
           /\ req'[r].trip = req[r].trip
<1>1. PICK c : c = [req[r] EXCEPT !.pc = pc]
  OBVIOUS
<1>2. req[r] \in Call
  BY DEF ServerInv, ServerTypeOK
<1>3. c \in Call /\ c.pc = pc /\ c.driver = req[r].driver /\ c.trip = req[r].trip
  BY <1>1, <1>2 DEF Call
<1>4. req' = [req EXCEPT ![r] = c]
  BY <1>1 DEF Step
<1>5. req' \in [Request -> Call] /\ req'[r] = c
  BY <1>3, <1>4 DEF ServerInv, ServerTypeOK
<1>6. \A q \in Request : q # r => req'[q] = req[q]
  BY <1>4 DEF ServerInv, ServerTypeOK
<1>7. ServerTypeOK'
  BY <1>5 DEF ServerInv, ServerTypeOK
<1>8. \A q \in Request : CallOK(q)'
  BY <1>3, <1>5, <1>6 DEF ServerInv, CallOK, StartPC
<1>9. OneActiveTripPerDriver' /\ Owned'
  BY DEF ServerInv, OneActiveTripPerDriver, Owned
<1> QED BY <1>1, <1>3, <1>5, <1>6, <1>7, <1>8, <1>9 DEF ServerInv

\* A new row, active and its driver's.
LEMMA InsertInv ==
    ASSUME ServerInv, NEW r \in Request, NEW t \in Trip, InsertTrip(r, t)
    PROVE  ServerInv' /\ StepFacts(r)
<1> DEFINE d == req[r].driver
<1>1. req[r].pc = "insert" /\ d \in Driver /\ req[r] \in Call
  BY DEF InsertTrip, ServerInv, CallOK, StartPC, ServerTypeOK
<1>2. PICK w : w = [status |-> "active", driver |-> d]
  OBVIOUS
<1>3. w \in Row /\ w.status = "active" /\ w.driver = d
  BY <1>1, <1>2 DEF Row, Status
<1>4. trips' = [trips EXCEPT ![t] = w]
  BY <1>2 DEF InsertTrip
<1>5. trips' \in [Trip -> Row] /\ trips'[t] = w
  BY <1>3, <1>4 DEF ServerInv, ServerTypeOK
<1>6. \A u \in Trip : u # t => trips'[u] = trips[u]
  BY <1>4 DEF ServerInv, ServerTypeOK
<1>7. trips[t].status = "free"
  BY DEF InsertTrip
<1>8. RowsGrow
  BY <1>6, <1>7 DEF RowsGrow
<1>9. OneActiveTripPerDriver' /\ Owned'
  <2>1. \A u \in Trip : ~(trips[u].status = "active" /\ trips[u].driver = d)
    BY DEF InsertTrip, Indexed, ActiveTrips
  <2> QED BY <1>1, <1>3, <1>5, <1>6, <2>1 DEF OneActiveTripPerDriver, Owned, ServerInv
<1>10. PICK c : /\ req' = [req EXCEPT ![r] = c]
                /\ c \in Call /\ c.driver = d
                /\ \/ c.pc = "created" /\ c.trip = t /\ lost' = lost
                   \/ c.pc = "failed" /\ c.trip = req[r].trip /\ lost' = lost \cup {t}
  <2>1. CASE req' = [req EXCEPT ![r].pc = "created", ![r].trip = t] /\ UNCHANGED lost
    <3>1. PICK c : c = [req[r] EXCEPT !.pc = "created", !.trip = t]
      OBVIOUS
    <3>2. c \in Call /\ c.driver = d /\ c.pc = "created" /\ c.trip = t
      BY <1>1, <3>1 DEF Call, PC, Reply
    <3>3. req' = [req EXCEPT ![r] = c]
      BY <2>1, <3>1, <1>1 DEF ServerInv, ServerTypeOK
    <3> QED BY <2>1, <3>2, <3>3
  <2>2. CASE Step(r, "failed") /\ lost' = lost \cup {t}
    <3>1. PICK c : c = [req[r] EXCEPT !.pc = "failed"]
      OBVIOUS
    <3>2. c \in Call /\ c.driver = d /\ c.pc = "failed" /\ c.trip = req[r].trip
      BY <1>1, <3>1 DEF Call, PC, Reply
    <3>3. req' = [req EXCEPT ![r] = c]
      BY <2>2, <3>1 DEF Step
    <3> QED BY <2>2, <3>2, <3>3
  <2> QED BY <2>1, <2>2 DEF InsertTrip
<1>11. req' \in [Request -> Call] /\ req'[r] = c
  BY <1>10 DEF ServerInv, ServerTypeOK
<1>12. \A q \in Request : q # r => req'[q] = req[q]
  BY <1>10 DEF ServerInv, ServerTypeOK
<1>13. ServerTypeOK'
  BY <1>5, <1>10, <1>11 DEF ServerInv, ServerTypeOK, InsertTrip
<1>14. \A q \in Request : CallOK(q)'
  <2>1. ASSUME NEW q \in Request, q # r PROVE CallOK(q)'
    BY <1>8, <1>12, <2>1 DEF ServerInv, CallOK, RowsGrow
  <2>2. CallOK(r)'
    BY <1>3, <1>5, <1>10, <1>11 DEF CallOK, StartPC
  <2> QED BY <2>1, <2>2
<1>15. StepFacts(r)
  BY <1>1, <1>3, <1>5, <1>6, <1>8, <1>10, <1>11, <1>12
     DEF StepFacts, EndCall, StartCall, StartPC, Reply
<1> QED BY <1>9, <1>13, <1>14, <1>15 DEF ServerInv

\* An end that found its trip: the row is its driver's and completed.
LEMMA EndInv ==
    ASSUME ServerInv, NEW r \in Request, EndTrip(r)
    PROVE  ServerInv' /\ StepFacts(r)
<1> DEFINE t == req[r].trip
<1>1. req[r].pc = "end" /\ req[r] \in Call /\ t \in Trip
  BY DEF EndTrip, ServerInv, CallOK, ServerTypeOK
<1>2. trips[t].status = "active" /\ trips[t].driver = req[r].driver
  BY DEF EndTrip, Endable
<1>3. PICK w : w = [trips[t] EXCEPT !.status = "completed"]
  OBVIOUS
<1>4. w \in Row /\ w.status = "completed" /\ w.driver = trips[t].driver
  BY <1>1, <1>3 DEF Row, Status, ServerInv, ServerTypeOK
<1>5. trips' = [trips EXCEPT ![t] = w]
  BY <1>3 DEF EndTrip
<1>6. trips' \in [Trip -> Row] /\ trips'[t] = w
  BY <1>1, <1>4, <1>5 DEF ServerInv, ServerTypeOK
<1>7. \A u \in Trip : u # t => trips'[u] = trips[u]
  BY <1>5 DEF ServerInv, ServerTypeOK
<1>8. RowsGrow
  BY <1>1, <1>2, <1>4, <1>6, <1>7 DEF RowsGrow
<1>9. OneActiveTripPerDriver' /\ Owned'
  BY <1>1, <1>2, <1>4, <1>6, <1>7 DEF OneActiveTripPerDriver, Owned, ServerInv
<1>10. PICK reply \in {"ended", "failed"} : Step(r, reply)
  BY DEF EndTrip
<1>11. PICK c : c = [req[r] EXCEPT !.pc = reply]
  OBVIOUS
<1>12. c \in Call /\ c.pc = reply /\ c.driver = req[r].driver /\ c.trip = t
  BY <1>1, <1>11 DEF Call, PC, Reply
<1>13. req' = [req EXCEPT ![r] = c]
  BY <1>10, <1>11 DEF Step
<1>14. req' \in [Request -> Call] /\ req'[r] = c
  BY <1>12, <1>13 DEF ServerInv, ServerTypeOK
<1>15. \A q \in Request : q # r => req'[q] = req[q]
  BY <1>13 DEF ServerInv, ServerTypeOK
<1>16. ServerTypeOK'
  BY <1>6, <1>14 DEF ServerInv, ServerTypeOK, EndTrip
<1>17. \A q \in Request : CallOK(q)'
  <2>1. ASSUME NEW q \in Request, q # r PROVE CallOK(q)'
    BY <1>8, <1>15, <2>1 DEF ServerInv, CallOK, RowsGrow
  <2>2. CallOK(r)'
    BY <1>1, <1>12, <1>14 DEF CallOK, StartPC
  <2> QED BY <2>1, <2>2
<1>18. StepFacts(r)
  BY <1>1, <1>2, <1>4, <1>6, <1>7, <1>8, <1>12, <1>14, <1>15
     DEF StepFacts, EndCall, StartCall, StartPC, Reply, EndTrip
<1> QED BY <1>9, <1>16, <1>17, <1>18 DEF ServerInv

\* The other steps of a call change its program counter alone.
LEMMA QuietInv ==
    ASSUME ServerInv, NEW r \in Request,
           \/ CheckAssignment(r) \/ CheckActive(r) \/ InsertConflict(r)
           \/ EndNotFound(r) \/ CallFails(r)
    PROVE  ServerInv' /\ StepFacts(r)
<1>1. PICK pc \in {"checkActive", "notAssigned", "insert", "conflict", "notFound", "failed"} :
        /\ Step(r, pc)
        /\ pc \in StartPC => req[r].pc \in StartPC
        /\ StartCall(req[r]) => pc # "notFound"
        /\ EndCall(req[r]) => pc \in {"notFound", "failed"}
        /\ pc = "notFound" => req[r].pc = "end" /\ ~Endable(req[r].trip, req[r].driver)
  BY DEF CheckAssignment, CheckActive, InsertConflict, EndNotFound, CallFails, StartPC,
         StartCall, EndCall, PC, Reply
<1>2. /\ UNCHANGED <<trips, assigned, lost>>
      /\ req[r].pc \notin Reply
  BY DEF CheckAssignment, CheckActive, InsertConflict, EndNotFound, CallFails, PC, Reply
<1>3. pc \in PC /\ pc # "created"
  BY DEF PC, Reply
<1>4. assigned' \subseteq Driver \X Vehicle
  BY <1>2 DEF ServerInv, ServerTypeOK
<1>5. /\ ServerInv'
      /\ \A q \in Request : q # r => req'[q] = req[q]
      /\ req'[r] = [req[r] EXCEPT !.pc = pc]
      /\ req'[r].pc = pc
      /\ req'[r].driver = req[r].driver
      /\ req'[r].trip = req[r].trip
  BY <1>1, <1>2, <1>3, <1>4, StepInv
<1>6. RowsGrow
  BY <1>2 DEF RowsGrow
<1>7. StartCall(req[r]) => StartCall(req'[r])
  BY <1>1, <1>5 DEF StartCall, StartPC
<1>8. EndCall(req[r]) => EndCall(req'[r])
  BY <1>1, <1>5 DEF EndCall
<1>9. EndCall(req[r]) /\ req'[r].pc \in {"ended", "notFound"} =>
        LET t == req[r].trip IN
        trips[t].status # "free" /\ trips[t].driver = req[r].driver
            => trips'[t].status = "completed"
  BY <1>1, <1>2, <1>5 DEF Endable, EndCall, ServerInv, ServerTypeOK, Row, Status
<1> QED BY <1>1, <1>2, <1>5, <1>6, <1>7, <1>8, <1>9 DEF StepFacts

LEMMA ServerStepInv ==
    ASSUME ServerInv, NEW r \in Request, ServerStep(r)
    PROVE  ServerInv' /\ StepFacts(r)
BY InsertInv, EndInv, QuietInv DEF ServerStep

-----------------------------------------------------------------------------
(* What the clients do to the calls.                                       *)

LEMMA SendStartInv ==
    ASSUME ServerInv, NEW r \in Request, NEW d \in Driver, NEW v \in Vehicle,
           SendStart(r, d, v), UNCHANGED <<trips, assigned, lost>>
    PROVE  /\ ServerInv'
           /\ \A q \in Request : q # r => req'[q] = req[q]
           /\ req'[r].pc = "checkAssignment"
           /\ req'[r].driver = d
<1>1. PICK c : c = [NoCall EXCEPT !.pc = "checkAssignment", !.driver = d, !.vehicle = v]
  OBVIOUS
<1>2. c \in Call /\ c.pc = "checkAssignment" /\ c.driver = d
  BY <1>1 DEF NoCall, Call, PC
<1>3. req' = [req EXCEPT ![r] = c]
  BY <1>1 DEF SendStart
<1>4. req' \in [Request -> Call] /\ req'[r] = c
  BY <1>2, <1>3 DEF ServerInv, ServerTypeOK
<1>5. \A q \in Request : q # r => req'[q] = req[q]
  BY <1>3 DEF ServerInv, ServerTypeOK
<1>6. ServerTypeOK' /\ OneActiveTripPerDriver' /\ Owned'
  BY <1>4 DEF ServerInv, ServerTypeOK, OneActiveTripPerDriver, Owned
<1>7. \A q \in Request : CallOK(q)'
  BY <1>2, <1>4, <1>5 DEF ServerInv, CallOK
<1> QED BY <1>2, <1>4, <1>5, <1>6, <1>7 DEF ServerInv

LEMMA SendEndInv ==
    ASSUME ServerInv, NEW r \in Request, NEW d \in Driver, NEW t \in Trip,
           SendEnd(r, d, t), UNCHANGED <<trips, assigned, lost>>
    PROVE  /\ ServerInv'
           /\ \A q \in Request : q # r => req'[q] = req[q]
           /\ req'[r].pc = "end"
           /\ req'[r].driver = d
           /\ req'[r].trip = t
<1>1. PICK c : c = [NoCall EXCEPT !.pc = "end", !.driver = d, !.trip = t]
  OBVIOUS
<1>2. c \in Call /\ c.pc = "end" /\ c.driver = d /\ c.trip = t
  BY <1>1 DEF NoCall, Call, PC
<1>3. req' = [req EXCEPT ![r] = c]
  BY <1>1 DEF SendEnd
<1>4. req' \in [Request -> Call] /\ req'[r] = c
  BY <1>2, <1>3 DEF ServerInv, ServerTypeOK
<1>5. \A q \in Request : q # r => req'[q] = req[q]
  BY <1>3 DEF ServerInv, ServerTypeOK
<1>6. ServerTypeOK' /\ OneActiveTripPerDriver' /\ Owned'
  BY <1>4 DEF ServerInv, ServerTypeOK, OneActiveTripPerDriver, Owned
<1>7. \A q \in Request : CallOK(q)'
  BY <1>2, <1>4, <1>5 DEF ServerInv, CallOK, StartPC
<1> QED BY <1>2, <1>4, <1>5, <1>6, <1>7 DEF ServerInv

LEMMA NoCallIsACall ==
    NoCall \in Call /\ NoCall.pc = "free"
BY DEF NoCall, Call, PC

LEMMA ForgetInv ==
    ASSUME ServerInv, NEW r \in Request, Forget(r), UNCHANGED <<trips, assigned>>,
           lost \subseteq lost', lost' \subseteq Trip
    PROVE  /\ ServerInv'
           /\ \A q \in Request : q # r => req'[q] = req[q]
           /\ req'[r] = NoCall /\ req'[r].pc = "free"
<1>1. req' \in [Request -> Call] /\ req'[r] = NoCall
  BY NoCallIsACall DEF Forget, ServerInv, ServerTypeOK
<1>2. \A q \in Request : q # r => req'[q] = req[q]
  BY DEF Forget, ServerInv, ServerTypeOK
<1>3. ServerTypeOK' /\ OneActiveTripPerDriver' /\ Owned'
  BY <1>1 DEF ServerInv, ServerTypeOK, OneActiveTripPerDriver, Owned
<1>4. req'[r].pc = "free"
  BY <1>1, NoCallIsACall
<1>5. \A q \in Request : CallOK(q)'
  BY <1>2, <1>4 DEF ServerInv, CallOK, StartPC
<1> QED BY <1>1, <1>2, <1>3, <1>4, <1>5 DEF ServerInv

LEMMA AdminInv ==
    ASSUME ServerInv, Admin
    PROVE  ServerInv' /\ UNCHANGED <<trips, req, lost>>
<1>1. UNCHANGED <<trips, req, lost>> /\ assigned' \subseteq Driver \X Vehicle
  BY DEF Admin, Assign, Unassign, ServerInv, ServerTypeOK
<1>2. ServerTypeOK' /\ OneActiveTripPerDriver' /\ Owned'
  BY <1>1 DEF ServerInv, ServerTypeOK, OneActiveTripPerDriver, Owned
<1>3. \A q \in Request : CallOK(q)'
  BY <1>1 DEF ServerInv, CallOK
<1> QED BY <1>1, <1>2, <1>3 DEF ServerInv

LEMMA SameServer ==
    ASSUME ServerInv, UNCHANGED server
    PROVE  ServerInv'
BY DEF ServerInv, ServerTypeOK, OneActiveTripPerDriver, Owned, CallOK, server
=============================================================================
