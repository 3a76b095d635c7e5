-------------------------- MODULE RiderRidesProofs --------------------------
(***************************************************************************)
(* Proofs about RiderRides for any riders, rides and requests in flight,    *)
(* and, in its second half, about the session of one ride (RideSessionLog); *)
(* RiderEngine is the two side by side.                                     *)
(*                                                                         *)
(* The invariant says what the tables and the registry agree on (WorldOK),  *)
(* and what each handler still knows between two of its critical sections   *)
(* (Knows): the stripe it holds, the summary it carries, the row it ended.  *)
(***************************************************************************)
EXTENDS RiderEngine, FiniteSetTheorems, WellFoundedInduction, TLAPS

-----------------------------------------------------------------------------
(* The inductive invariant.                                                *)

RiderRow == [score : -10 .. 10, tier : Tier, ridesTotal : Nat]

Typed ==
    /\ row \in [Ride -> Row]
    /\ rider \in [Rider -> RiderRow]
    /\ session \in [Ride -> Session]
    /\ byRider \in [Rider -> Ride \cup {None}]
    /\ lock \in [Rider -> Request \cup {None}]
    /\ req \in [Actor -> ActorState]
    /\ applied \in [Ride -> 0 .. MaxBatches]

RejectReasons == {"off_route", "contradicted"}

\* finishRide filed the row; a restart did not.
Filed(i) == row[i].status = "ended" /\ row[i].reason # "server_restart"

FiledRides(d) == {i \in Ride : row[i].rider = d /\ Filed(i)}

\* A row that is not there yet has no history, one that is has a rider, and a
\* filed one is whole and will not change again: its session is not live.
RowOK(i) ==
    /\ row[i].status = "none" => row[i] = NoRow /\ applied[i] = 0
    /\ row[i].status # "none" => row[i].rider \in Rider
    /\ Filed(i) => /\ ~Live(i)
                   /\ row[i].total = applied[i]
                   /\ row[i].state = "rejected" <=> row[i].reason \in RejectReasons

\* The session of a ride holds its whole count; a live one is the newest of its
\* rider, and the reason of one that ended fits its standing.
SessionOK(i) ==
    /\ Registered(i) => row[i].status # "none" /\ session[i].sum.total = applied[i]
    /\ Live(i) => /\ byRider[row[i].rider] = i
                  /\ session[i].sum.state # "rejected"
                  /\ session[i].sum.reason = ""
    /\ Ended(i) => /\ session[i].sum.reason \in RejectReasons \cup {"closed"}
                   /\ session[i].sum.state = "rejected"
                         <=> session[i].sum.reason \in RejectReasons

\* The rider's row counts the filed rides and has the tier its score earns.
RiderOK(d) ==
    /\ rider[d].tier = TierFor(rider[d].score)
    /\ rider[d].ridesTotal = Cardinality(FiledRides(d))

WorldOK ==
    /\ \A i \in Ride : RowOK(i) /\ SessionOK(i)
    /\ \A d \in Rider : RiderOK(d)

Starting(s) == s.kind = "start" \/ s.pc \in {"startGet", "startInsert", "startAdd"}

Finisher == {"finEnd", "finStore", "finRemove", "finTier"}

\* A start holds its rider's stripe, and no ride of the rider is live but the
\* one it is about to end.
KnowsStripe(a, s) ==
    Starting(s) =>
        /\ a \in Request
        /\ s.rider \in Rider
        /\ lock[s.rider] = a
        /\ \A i \in Ride : Live(i) /\ row[i].rider = s.rider
                              => s.pc = "finEnd" /\ i = s.ride

\* A handler names only rides that have a row.
KnowsRides(s) ==
    /\ s.pc \in Finisher \cup {"startAdd", "apply", "record"} => s.ride \in Ride
    /\ s.ride # None => row[s.ride].status # "none"
    /\ \A i \in s.todo : row[i].status # "none"

\* The row was inserted just now: nothing has happened to the ride.
KnowsNewRide(s) ==
    s.pc = "startAdd" => /\ row[s.ride].rider = s.rider
                         /\ ~Registered(s.ride)
                         /\ applied[s.ride] = 0
                         /\ ~Filed(s.ride)

\* Only a ride the engine has ended is ended for one of the engine's reasons.
KnowsReason(s) ==
    /\ s.pc = "record" => s.sum.reason \in RejectReasons \cup {""}
    /\ s.pc = "finEnd" => s.sum.reason \in RejectReasons \cup {"closed"}
    /\ s.pc \in {"record", "finEnd"} /\ s.sum.reason \in RejectReasons => ~Live(s.ride)

\* The summary about to be filed is the last one, unless someone else filed it;
\* after that the row has ended.
KnowsOutcome(s) ==
    /\ s.pc = "finStore" /\ row[s.ride].status = "active" =>
            Ended(s.ride) /\ session[s.ride].sum = s.sum
    /\ s.pc \in {"finRemove", "finTier"} => row[s.ride].status = "ended"

Knows(a, s) ==
    /\ s.pc = "idle" => s = Idle
    /\ KnowsStripe(a, s)
    /\ KnowsRides(s)
    /\ KnowsNewRide(s)
    /\ KnowsReason(s)
    /\ KnowsOutcome(s)

Names(s, i) == s.ride = i \/ i \in s.todo

\* Nobody else has heard of a ride whose session is still to be added.
NewRidesAreUnknown ==
    \A a, b \in Actor :
        req[a].pc = "startAdd" /\ a # b => ~Names(req[b], req[a].ride)

IInv ==
    /\ Typed
    /\ WorldOK
    /\ \A a \in Actor : Knows(a, req[a])
    /\ NewRidesAreUnknown

-----------------------------------------------------------------------------
(* What the requests that do not take a step still know.                   *)

\* A step that adds no session: rows that are there stay and keep their rider,
\* ended rows and the summaries of ended sessions do not change, and only a
\* live ride gains points.
Quiet ==
    /\ \A i \in Ride :
         /\ row[i].status # "none" => /\ row'[i].status # "none"
                                      /\ row'[i].rider = row[i].rider
         /\ row[i].status = "ended" => row'[i] = row[i]
         /\ Filed(i)' => Filed(i) \/ Registered(i)
         /\ Live(i)' => Live(i)
         /\ Registered(i)' => Registered(i)
         /\ applied'[i] = applied[i] \/ Live(i)
         /\ Ended(i) => \/ Ended(i)' /\ session'[i].sum = session[i].sum
                        \/ row'[i].status = "ended"

\* Such a step leaves a request that does not move, and loses no stripe, what
\* it knows.
LEMMA QuietStep ==
    ASSUME IInv, Quiet, NEW b \in Actor, req'[b] = req[b],
           \A d \in Rider : b \in Request /\ lock[d] = b => lock'[d] = b
    PROVE  Knows(b, req[b])'
  <1> DEFINE s == req[b]
  <1>0. Knows(b, s) /\ s \in ActorState /\ None \notin Rider /\ None \notin Ride
    BY RidesAssumption DEF IInv, Typed
  <1> USE <1>0 DEF Quiet, Knows
  <1>1. (s.pc = "idle" => s = Idle)'
    BY DEF Idle, NoSummary
  <1>2. KnowsStripe(b, s)'
    <2> SUFFICES ASSUME Starting(s)
                 PROVE  /\ b \in Request
                        /\ s.rider \in Rider
                        /\ lock'[s.rider] = b
                        /\ \A i \in Ride : Live(i)' /\ row'[i].rider = s.rider
                                              => s.pc = "finEnd" /\ i = s.ride
      BY DEF KnowsStripe, Starting
    <2>1. \A i \in Ride : Live(i)' => row'[i].rider = row[i].rider
      BY DEF IInv, WorldOK, SessionOK, Registered, Live
    <2> QED  BY <2>1 DEF KnowsStripe
  <1>3. KnowsRides(s)'
    BY DEF KnowsRides, ActorState
  <1>4. KnowsNewRide(s)'
    BY DEF KnowsNewRide, KnowsRides, Registered, Live, Finisher
  <1>5. KnowsReason(s)'
    BY DEF KnowsReason, KnowsRides, Finisher
  <1>6. KnowsOutcome(s)'
    BY DEF KnowsOutcome, KnowsRides, Finisher, IInv, Typed, Row
  <1> QED  BY <1>1, <1>2, <1>3, <1>4, <1>5, <1>6

-----------------------------------------------------------------------------
(* What the request that takes a step knows next.                          *)

\* Only a moves: the others keep their stripes, and a hears of no ride that
\* was not registered.
Moves(a) ==
    /\ req' \in [Actor -> ActorState]
    /\ \A b \in Actor \ {a} : req'[b] = req[b]
    /\ lock' \in [Rider -> Request \cup {None}]
    /\ \A d \in Rider : lock'[d] = lock[d] \/ lock[d] \in {a, None}
    /\ req'[a].pc # "startAdd"
    /\ \A i \in Ride : Names(req'[a], i) => Names(req[a], i) \/ Registered(i)

\* Reduces a quiet step of a to the tables, the registry and a itself.
LEMMA MoveStep ==
    ASSUME IInv, Quiet, NEW a \in Actor, Moves(a),
           Typed', WorldOK', Knows(a, req[a])'
    PROVE  IInv'
  <1>1. ASSUME NEW b \in Actor PROVE Knows(b, req[b])'
    <2>1. CASE b = a
      BY <2>1
    <2>2. CASE b # a
      <3>1. \A d \in Rider : b \in Request /\ lock[d] = b => lock'[d] = b
        BY <2>2, RidesAssumption DEF Moves
      <3> QED  BY <2>2, <3>1, QuietStep DEF Moves
    <2> QED  BY <2>1, <2>2
  <1>2. NewRidesAreUnknown'
    <2> SUFFICES ASSUME NEW b \in Actor, NEW c \in Actor,
                        req'[b].pc = "startAdd", b # c
                 PROVE  ~Names(req'[c], req'[b].ride)
      BY DEF NewRidesAreUnknown, Names
    <2>1. req'[b] = req[b] /\ ~Names(req[c], req[b].ride)
      BY DEF Moves, IInv, NewRidesAreUnknown
    <2>2. ~Registered(req[b].ride) /\ req[b].ride \in Ride
      BY <2>1 DEF IInv, Knows, KnowsNewRide, KnowsRides
    <2> QED  BY <2>1, <2>2 DEF Moves
  <1> QED  BY <1>1, <1>2 DEF IInv

\* The two defaults, field by field.
LEMMA NoSummaryFields ==
    /\ NoSummary \in Summary
    /\ NoSummary.state = "pending"
    /\ NoSummary.total = 0
    /\ NoSummary.reason = ""
  BY RidesAssumption DEF NoSummary, Summary, State, Reason

LEMMA IdleFields ==
    /\ Idle \in ActorState
    /\ Idle.pc = "idle"
    /\ Idle.kind = ""
    /\ Idle.rider = None
    /\ Idle.ride = None
    /\ Idle.sum = NoSummary
    /\ Idle.todo = {}
  BY NoSummaryFields DEF Idle, ActorState, PC, Kind, Tier

\* A handler that has answered holds nothing and knows nothing.
LEMMA AnswerMoves ==
    ASSUME IInv, NEW a \in Actor, Answer(a)
    PROVE  Moves(a) /\ Knows(a, req[a])' /\ req'[a] = Idle
  <1>1. Idle \in ActorState /\ req'[a] = Idle
    BY IdleFields DEF Answer, Become, IInv, Typed
  <1>2. Moves(a)
    BY <1>1, RidesAssumption DEF Moves, Answer, Become, IInv, Typed, Names, Idle
  <1>3. /\ req'[a].pc = "idle" /\ req'[a].kind = "" /\ req'[a].ride = None
        /\ req'[a].todo = {}
    BY <1>1, IdleFields
  <1>4. Knows(a, req[a])'
    BY <1>1, <1>3 DEF Knows, KnowsStripe, Starting, KnowsRides, KnowsNewRide,
       KnowsReason, KnowsOutcome, Finisher
  <1> QED  BY <1>1, <1>2, <1>4

\* Finishing(i, why, kind) is a well-formed request.
LEMMA FinishingType ==
    ASSUME NEW i \in Ride, NEW why \in Reason, NEW kind \in Kind
    PROVE  /\ Finishing(i, why, kind) \in ActorState
           /\ Finishing(i, why, kind).pc = "finEnd"
           /\ Finishing(i, why, kind).kind = kind
           /\ Finishing(i, why, kind).ride = i
           /\ Finishing(i, why, kind).rider = None
           /\ Finishing(i, why, kind).sum.reason = why
           /\ Finishing(i, why, kind).todo = {}
  BY IdleFields, NoSummaryFields DEF Finishing, ActorState, PC, Kind, Summary

\* Whoever begins finishRide on a ride that has a row may know no more than that.
LEMMA FinishingKnows ==
    ASSUME NEW a \in Actor, NEW i \in Ride, NEW why \in RejectReasons \cup {"closed"},
           NEW kind \in Kind \ {"start"},
           req'[a] = Finishing(i, why, kind),
           row'[i].status # "none",
           why \in RejectReasons => ~Live(i)'
    PROVE  Knows(a, req[a])'
  <1>1. why \in Reason /\ kind \in Kind /\ None \notin Ride
    BY RidesAssumption DEF Reason, RejectReasons
  <1>2. /\ req'[a].pc = "finEnd" /\ req'[a].kind = kind /\ req'[a].ride = i
        /\ req'[a].sum.reason = why /\ req'[a].todo = {}
    BY <1>1, FinishingType
  <1> QED
    BY <1>2 DEF Knows, KnowsStripe, Starting, KnowsRides, KnowsNewRide, KnowsReason,
       KnowsOutcome, Finisher

\* A start whose old ride is out of the way goes on with its stripe.
LEMMA ReturnMoves ==
    ASSUME IInv, Quiet, NEW a \in Actor,
           NEW pc \in {"startGet", "startInsert"}, NEW t \in Tier,
           req[a].pc \in Finisher,
           req[a].pc = "finEnd" => session'[req[a].ride].life # "live",
           Return(a, pc, t)
    PROVE  Moves(a) /\ Knows(a, req[a])'
  <1>0. /\ Knows(a, req[a]) /\ req[a] \in ActorState /\ req \in [Actor -> ActorState]
        /\ req[a].ride \in Ride
        /\ row'[req[a].ride].status # "none"
        /\ None \notin Ride
    BY RidesAssumption DEF IInv, Typed, Knows, KnowsRides, Finisher, Quiet
  <1>1. CASE /\ req[a].kind = "start"
             /\ Become(a, [Idle EXCEPT !.pc = pc, !.rider = req[a].rider, !.tier = t])
             /\ UNCHANGED lock
    <2>1. PICK s : s = [Idle EXCEPT !.pc = pc, !.rider = req[a].rider, !.tier = t]
      OBVIOUS
    <2>2. /\ s \in ActorState /\ s.pc = pc /\ s.kind = "" /\ s.rider = req[a].rider
          /\ s.ride = None /\ s.todo = {}
      BY <1>0, <2>1, IdleFields DEF ActorState, PC
    <2>3. req'[a] = s
      BY <1>0, <1>1, <2>1 DEF Become
    <2>4. Moves(a)
      BY <1>0, <1>1, <2>1, <2>2, <2>3 DEF Moves, Become, Names, IInv, Typed
    <2>5. KnowsStripe(a, req[a])'
      <3>1. /\ a \in Request /\ s.rider \in Rider /\ lock'[s.rider] = a
        BY <1>0, <1>1, <2>2 DEF Knows, KnowsStripe, Starting
      <3>2. ASSUME NEW i \in Ride, Live(i)', row'[i].rider = s.rider PROVE FALSE
        <4>1. Live(i) /\ row[i].rider = s.rider
          BY <3>2 DEF Quiet, IInv, WorldOK, SessionOK, Registered, Live
        <4>2. req[a].pc = "finEnd" /\ i = req[a].ride
          BY <4>1, <1>0, <1>1, <2>2 DEF Knows, KnowsStripe, Starting
        <4> QED  BY <3>2, <4>2 DEF Live
      <3> QED  BY <2>3, <3>1, <3>2 DEF KnowsStripe
    <2> QED
      BY <2>2, <2>3, <2>4, <2>5 DEF Knows, KnowsRides, KnowsNewRide, KnowsReason,
         KnowsOutcome, Finisher
  <1>2. CASE /\ req[a].kind = "again"
             /\ Become(a, Finishing(req[a].ride, "closed", "answer"))
             /\ UNCHANGED lock
    <2>1. /\ req'[a] = Finishing(req[a].ride, "closed", "answer")
          /\ req'[a] \in ActorState /\ req'[a].ride = req[a].ride
          /\ req'[a].todo = {} /\ req'[a].pc = "finEnd"
      <3>1. "closed" \in Reason /\ "answer" \in Kind
        BY DEF Reason, Kind
      <3>2. req'[a] = Finishing(req[a].ride, "closed", "answer")
        BY <1>0, <1>2 DEF Become
      <3> QED  BY <1>0, <3>1, <3>2, FinishingType
    <2>2. Moves(a)
      BY <1>0, <1>2, <2>1 DEF Moves, Become, Names, IInv, Typed
    <2> QED  BY <1>0, <2>1, <2>2, FinishingKnows DEF Kind, RejectReasons
  <1>3. CASE /\ req[a].kind = "reap"
             /\ Become(a, [Idle EXCEPT !.pc = "sweep", !.todo = req[a].todo])
             /\ UNCHANGED lock
    <2>1. PICK s : s = [Idle EXCEPT !.pc = "sweep", !.todo = req[a].todo]
      OBVIOUS
    <2>2. /\ s \in ActorState /\ s.pc = "sweep" /\ s.kind = "" /\ s.ride = None
          /\ s.todo = req[a].todo /\ s.todo \subseteq Ride
      BY <1>0, <2>1, IdleFields DEF ActorState, PC
    <2>3. req'[a] = s
      BY <1>0, <1>3, <2>1 DEF Become
    <2>4. Moves(a)
      BY <1>0, <1>3, <2>1, <2>2, <2>3 DEF Moves, Become, Names, IInv, Typed
    <2>5. \A i \in s.todo : row'[i].status # "none"
      BY <1>0, <2>2 DEF Knows, KnowsRides, Quiet
    <2> QED
      BY <2>2, <2>3, <2>4, <2>5 DEF Knows, KnowsStripe, Starting, KnowsRides,
         KnowsNewRide, KnowsReason, KnowsOutcome, Finisher
  <1>4. CASE req[a].kind = "answer" /\ Answer(a)
    BY <1>4, AnswerMoves
  <1> QED  BY <1>1, <1>2, <1>3, <1>4 DEF Return

\* Giving up in finStore is an answer for a start, a return for the others.
LEMMA ReturnErrorMoves ==
    ASSUME IInv, Quiet, NEW a \in Actor, req[a].pc \in Finisher \ {"finEnd"},
           ReturnError(a)
    PROVE  Moves(a) /\ Knows(a, req[a])'
  BY AnswerMoves, ReturnMoves DEF ReturnError, NotActive, Tier

\* A step of a that leaves the tables and the registry alone.
LEMMA ReqStep ==
    ASSUME IInv, NEW a \in Actor, Moves(a), Knows(a, req[a])',
           UNCHANGED <<Tables, Memory, applied>>
    PROVE  IInv'
  <1>1. Quiet
    BY DEF Quiet, Tables, Memory, Filed, Live, Registered, Ended
  <1>2. Typed'
    BY DEF Typed, IInv, Tables, Memory, Moves
  <1>3. WorldOK'
    BY DEF WorldOK, RowOK, SessionOK, RiderOK, FiledRides, IInv, Tables, Memory,
       Filed, Live, Registered, Ended
  <1> QED  BY <1>1, <1>2, <1>3, MoveStep

-----------------------------------------------------------------------------
(* Every action preserves the invariant: starting a ride.                  *)

\* Holding the stripe, the request sees every live ride of its rider: there is
\* at most the one byRider points at, and that is the one it will end.
LEMMA StartRideInv ==
    ASSUME IInv, NEW a \in Request, NEW d \in Rider, StartRide(a, d)
    PROVE  IInv'
  <1>0. /\ a \in Actor /\ req[a] = Idle /\ lock[d] = None
        /\ lock' = [lock EXCEPT ![d] = a]
        /\ req \in [Actor -> ActorState] /\ lock \in [Rider -> Request \cup {None}]
        /\ UNCHANGED <<Tables, Memory, applied>>
    BY DEF StartRide, StripeFree, Actor, IInv, Typed
  <1>1. \A i \in Ride : Live(i) /\ row[i].rider = d => i \in ActiveRides(d)
    BY DEF IInv, WorldOK, SessionOK, ActiveRides
  <1>2. CASE ActiveRides(d) = {}
             /\ Become(a, [Idle EXCEPT !.pc = "startGet", !.rider = d])
    <2>1. PICK s : s = [Idle EXCEPT !.pc = "startGet", !.rider = d]
      OBVIOUS
    <2>2. /\ s \in ActorState /\ s.pc = "startGet" /\ s.kind = "" /\ s.rider = d
          /\ s.ride = None /\ s.todo = {}
      BY <2>1, IdleFields DEF ActorState, PC
    <2>3. req'[a] = s /\ req' = [req EXCEPT ![a] = s]
      BY <1>0, <1>2, <2>1 DEF Become
    <2>4. Moves(a)
      BY <1>0, <2>2, <2>3, RidesAssumption DEF Moves, Names
    <2>5. \A i \in Ride : ~(Live(i) /\ row[i].rider = d)'
      BY <1>0, <1>1, <1>2 DEF Live, Tables, Memory
    <2>6. Knows(a, req[a])'
      BY <1>0, <2>2, <2>3, <2>5 DEF Knows, KnowsStripe, Starting, KnowsRides,
         KnowsNewRide, KnowsReason, KnowsOutcome, Finisher
    <2> QED  BY <1>0, <2>4, <2>6, ReqStep
  <1>3. ASSUME NEW old \in ActiveRides(d),
               Become(a, [Finishing(old, "closed", "start") EXCEPT !.rider = d])
        PROVE  IInv'
    <2>1. PICK s : s = [Finishing(old, "closed", "start") EXCEPT !.rider = d]
      OBVIOUS
    <2>2. old \in Ride /\ Live(old) /\ byRider[d] = old /\ row[old].status # "none"
      BY DEF ActiveRides, IInv, WorldOK, SessionOK, Registered, Live
    <2>3. /\ s \in ActorState /\ s.pc = "finEnd" /\ s.kind = "start" /\ s.rider = d
          /\ s.ride = old /\ s.todo = {} /\ s.sum.reason = "closed"
      <3>1. "closed" \in Reason /\ "start" \in Kind
        BY DEF Reason, Kind
      <3> QED  BY <2>1, <2>2, <3>1, FinishingType DEF ActorState
    <2>4. req'[a] = s /\ req' = [req EXCEPT ![a] = s]
      BY <1>0, <1>3, <2>1 DEF Become
    <2>5. Moves(a)
      BY <1>0, <2>2, <2>3, <2>4, RidesAssumption DEF Moves, Names, Registered, Live
    <2>6. \A i \in Ride : (Live(i) /\ row[i].rider = d)' => i = old
      BY <1>0, <1>1, <2>2 DEF Live, Tables, Memory, ActiveRides
    <2>7. Knows(a, req[a])'
      BY <1>0, <2>2, <2>3, <2>4, <2>6 DEF Knows, KnowsStripe, Starting, KnowsRides,
         KnowsNewRide, KnowsReason, KnowsOutcome, Finisher, Tables, RejectReasons
    <2> QED  BY <1>0, <2>5, <2>7, ReqStep
  <1> QED  BY <1>2, <1>3 DEF StartRide

\* The tier read here is only carried.
LEMMA GetRiderInv ==
    ASSUME IInv, NEW a \in Request, GetRider(a)
    PROVE  IInv'
  <1>0. /\ a \in Actor /\ req[a].pc = "startGet" /\ lock' = lock
        /\ req \in [Actor -> ActorState] /\ lock \in [Rider -> Request \cup {None}]
        /\ UNCHANGED <<Tables, Memory, applied>>
        /\ Knows(a, req[a])
    BY DEF GetRider, Actor, IInv, Typed
  <1>1. PICK s : s = [req[a] EXCEPT !.pc = "startInsert",
                                    !.tier = rider[req[a].rider].tier]
    OBVIOUS
  <1>2. /\ s \in ActorState /\ s.pc = "startInsert" /\ s.kind = req[a].kind
        /\ s.rider = req[a].rider /\ s.ride = req[a].ride /\ s.todo = req[a].todo
    <2>1. rider[req[a].rider].tier \in Tier
      BY <1>0 DEF IInv, Typed, RiderRow, Knows, KnowsStripe, Starting
    <2> QED  BY <1>0, <1>1, <2>1 DEF ActorState, PC
  <1>3. req'[a] = s /\ req' = [req EXCEPT ![a] = s]
    BY <1>0, <1>1 DEF GetRider, Become
  <1>4. Moves(a)
    BY <1>0, <1>2, <1>3 DEF Moves, Names
  <1>5. Knows(a, req[a])'
    BY <1>0, <1>2, <1>3 DEF Knows, KnowsStripe, Starting, KnowsRides, KnowsNewRide,
       KnowsReason, KnowsOutcome, Finisher, Tables, Memory, Live
  <1> QED  BY <1>0, <1>4, <1>5, ReqStep

\* Refused and failed starts answer.
LEMMA StartAnswersInv ==
    ASSUME IInv, NEW a \in Request, InsertConflict(a) \/ StartFails(a)
    PROVE  IInv'
  <1>1. a \in Actor /\ Answer(a) /\ UNCHANGED <<Tables, Memory, applied>>
    BY DEF InsertConflict, StartFails, Actor
  <1> QED  BY <1>1, AnswerMoves, ReqStep

\* The reserved row as InsertRide writes it.
LEMMA InsertedRow ==
    ASSUME NEW d \in Rider, NEW x, x = [NoRow EXCEPT !.status = "active", !.rider = d]
    PROVE  x \in Row /\ x.status = "active" /\ x.rider = d
  <1>1. NoRow \in Row
    BY RidesAssumption DEF NoRow, Row, State, Reason
  <1> QED  BY <1>1 DEF Row

\* A new row changes nothing that is there, and only its request knows of it.
LEMMA InsertRideInv ==
    ASSUME IInv, NEW a \in Request, NEW i \in Ride, InsertRide(a, i)
    PROVE  IInv'
  <1>0. /\ a \in Actor /\ req[a].pc = "startInsert" /\ row[i].status = "none"
        /\ req \in [Actor -> ActorState] /\ lock \in [Rider -> Request \cup {None}]
        /\ row \in [Ride -> Row] /\ None \notin Ride
        /\ UNCHANGED <<rider, session, byRider, applied>>
        /\ Knows(a, req[a]) /\ WorldOK
        /\ req[a].rider \in Rider /\ req[a] \in ActorState
    BY RidesAssumption DEF InsertRide, Actor, IInv, Typed, Memory, Knows, KnowsStripe,
       Starting
  <1>1. PICK x : x = [NoRow EXCEPT !.status = "active", !.rider = req[a].rider]
    OBVIOUS
  <1>2. row' = [row EXCEPT ![i] = x]
    BY <1>1 DEF InsertRide
  <1>3. x \in Row /\ x.status = "active" /\ x.rider = req[a].rider
    BY <1>0, <1>1, InsertedRow
  <1>4. ~Registered(i) /\ applied[i] = 0
    BY <1>0 DEF WorldOK, RowOK, SessionOK
  <1>5. Quiet
    BY <1>0, <1>2, <1>3, <1>4 DEF Quiet, Filed, Live, Registered, Ended
  <1>6. WorldOK'
    <2>1. ASSUME NEW j \in Ride PROVE RowOK(j)' /\ SessionOK(j)'
      BY <1>0, <1>2, <1>3, <1>4 DEF WorldOK, RowOK, SessionOK, Filed, Live,
         Registered, Ended
    <2>2. ASSUME NEW d \in Rider PROVE RiderOK(d)'
      <3>1. \A j \in Ride : (row'[j].rider = d /\ Filed(j)') <=> (row[j].rider = d /\ Filed(j))
        BY <1>0, <1>2, <1>3 DEF Filed
      <3>2. FiledRides(d)' = FiledRides(d)
        BY <3>1 DEF FiledRides
      <3> QED  BY <1>0, <3>2 DEF WorldOK, RiderOK
    <2> QED  BY <2>1, <2>2 DEF WorldOK
  <1>7. CASE Answer(a)
    <2>1. Moves(a) /\ Knows(a, req[a])'
      BY <1>0, <1>7, AnswerMoves
    <2>2. Typed'
      BY <1>0, <1>2, <1>3, <2>1 DEF Typed, IInv, Moves
    <2> QED  BY <1>0, <1>5, <1>6, <2>1, <2>2, MoveStep
  <1>8. CASE /\ Become(a, [req[a] EXCEPT !.pc = "startAdd", !.ride = i])
             /\ UNCHANGED lock
    <2>1. PICK s : s = [req[a] EXCEPT !.pc = "startAdd", !.ride = i]
      OBVIOUS
    <2>2. /\ s \in ActorState /\ s.pc = "startAdd" /\ s.kind = req[a].kind
          /\ s.rider = req[a].rider /\ s.ride = i /\ s.todo = req[a].todo
      BY <1>0, <2>1 DEF ActorState, PC
    <2>3. req'[a] = s /\ req' = [req EXCEPT ![a] = s]
      BY <1>0, <1>8, <2>1 DEF Become
    <2>4. Typed'
      BY <1>0, <1>2, <1>3, <1>8, <2>2, <2>3 DEF Typed, IInv
    <2>5. ASSUME NEW b \in Actor, b # a PROVE Knows(b, req[b])'
      BY <1>0, <1>5, <1>8, <2>3, <2>5, QuietStep
    <2>6. Knows(a, req[a])'
      <3>1. KnowsStripe(a, req[a])'
        <4>1. \A j \in Ride : ~(Live(j)' /\ row'[j].rider = s.rider)
          BY <1>0, <1>2, <1>4, <2>2 DEF Live, Registered, Knows, KnowsStripe, Starting
        <4>2. a \in Request /\ s.rider \in Rider /\ lock'[s.rider] = a
          BY <1>0, <1>8, <2>2 DEF Knows, KnowsStripe, Starting
        <4> QED  BY <2>3, <4>1, <4>2 DEF KnowsStripe
      <3>2. KnowsRides(req[a])'
        BY <1>0, <1>2, <1>3, <2>2, <2>3 DEF KnowsRides, Knows, ActorState
      <3>3. KnowsNewRide(req[a])'
        BY <1>0, <1>2, <1>3, <1>4, <2>2, <2>3 DEF KnowsNewRide, Registered, Filed
      <3> QED  BY <2>2, <2>3, <3>1, <3>2, <3>3 DEF Knows, KnowsReason, KnowsOutcome
    <2>7. ASSUME NEW b \in Actor PROVE ~Names(req[b], i)
      BY <1>0 DEF IInv, Knows, KnowsRides, Names
    <2>8. NewRidesAreUnknown'
      <3> SUFFICES ASSUME NEW b \in Actor, NEW c \in Actor,
                          req'[b].pc = "startAdd", b # c
                   PROVE  ~Names(req'[c], req'[b].ride)
        BY DEF NewRidesAreUnknown, Names
      <3>1. CASE b = a
        BY <2>2, <2>3, <2>7, <3>1
      <3>2. CASE b # a /\ c = a
        <4>1. req'[b] = req[b] /\ ~Names(req[a], req[b].ride)
          BY <1>0, <2>3, <3>2 DEF IInv, NewRidesAreUnknown
        <4>2. req[b].ride # i
          BY <2>7 DEF Names
        <4> QED  BY <1>0, <3>2, <2>2, <2>3, <4>1, <4>2 DEF Names
      <3>3. CASE b # a /\ c # a
        BY <2>3, <3>3 DEF IInv, NewRidesAreUnknown
      <3> QED  BY <3>1, <3>2, <3>3
    <2> QED  BY <1>6, <2>4, <2>5, <2>6, <2>8 DEF IInv
  <1> QED  BY <1>7, <1>8 DEF InsertRide

\* The session as Add makes it.
LEMMA AddedSession ==
    ASSUME NEW t \in Tier, NEW x, x = [NoSession EXCEPT !.life = "live", !.tier = t]
    PROVE  /\ x \in Session /\ x.life = "live" /\ x.sum.total = 0
           /\ x.sum.state = "pending" /\ x.sum.reason = ""
  <1>1. /\ NoSession \in Session /\ NoSession.sum = NoSummary
    BY NoSummaryFields DEF NoSession, Session, Tier
  <1> QED  BY <1>1, NoSummaryFields DEF Session

\* Add makes a second live session of no rider, for the stripe was held since
\* the first one was ended, and touches no ride another request knows.
LEMMA AddSessionInv ==
    ASSUME IInv, NEW a \in Request, AddSession(a)
    PROVE  IInv'
  <1> DEFINE i == req[a].ride
             d == req[a].rider
  <1>0. /\ a \in Actor /\ req[a].pc = "startAdd"
        /\ req \in [Actor -> ActorState] /\ lock \in [Rider -> Request \cup {None}]
        /\ session \in [Ride -> Session] /\ byRider \in [Rider -> Ride \cup {None}]
        /\ UNCHANGED <<row, rider, applied>>
        /\ Knows(a, req[a]) /\ WorldOK /\ NewRidesAreUnknown
        /\ d \in Rider /\ i \in Ride /\ req[a] \in ActorState
        /\ byRider' = [byRider EXCEPT ![d] = i]
    BY DEF AddSession, Actor, IInv, Typed, Tables, Knows, KnowsStripe, KnowsRides,
       Starting
  <1>1. PICK x : x = [NoSession EXCEPT !.life = "live", !.tier = req[a].tier]
    OBVIOUS
  <1>2. session' = [session EXCEPT ![i] = x]
    BY <1>1 DEF AddSession
  <1>3. /\ x \in Session /\ x.life = "live" /\ x.sum.total = 0
        /\ x.sum.state = "pending" /\ x.sum.reason = ""
    BY <1>0, <1>1, AddedSession DEF ActorState
  <1>4. Moves(a) /\ Knows(a, req[a])' /\ req'[a] = Idle
    BY <1>0, AnswerMoves DEF AddSession
  <1>5. /\ row[i].rider = d /\ row[i].status # "none" /\ applied[i] = 0 /\ ~Filed(i)
        /\ \A j \in Ride : ~(Live(j) /\ row[j].rider = d)
    BY <1>0, RidesAssumption DEF Knows, KnowsStripe, KnowsRides, KnowsNewRide, Starting
  <1>6. Typed'
    BY <1>0, <1>2, <1>3, <1>4 DEF Typed, IInv, Moves
  <1>7. WorldOK'
    <2>1. ASSUME NEW j \in Ride PROVE RowOK(j)' /\ SessionOK(j)'
      <3>1. CASE j = i
        BY <1>0, <1>2, <1>3, <1>5, <3>1 DEF WorldOK, RowOK, SessionOK, Filed, Live,
           Registered, Ended
      <3>2. CASE j # i
        <4>1. RowOK(j)'
          BY <1>0, <1>2, <3>2 DEF WorldOK, RowOK, Filed, Live
        <4>2. Live(j) => byRider'[row[j].rider] = j
          BY <1>0, <1>5 DEF WorldOK, RowOK, SessionOK, Registered, Live
        <4>3. SessionOK(j)'
          BY <1>0, <1>2, <3>2, <4>2 DEF WorldOK, SessionOK, Registered, Live, Ended
        <4> QED  BY <4>1, <4>3
      <3> QED  BY <3>1, <3>2
    <2>2. ASSUME NEW e \in Rider PROVE RiderOK(e)'
      BY <1>0 DEF WorldOK, RiderOK, FiledRides, Filed
    <2> QED  BY <2>1, <2>2 DEF WorldOK
  <1>8. ASSUME NEW b \in Actor, b # a PROVE Knows(b, req[b])'
    <2>1. /\ req'[b] = req[b] /\ Knows(b, req[b]) /\ ~Names(req[b], i)
          /\ req[b].pc = "startAdd" => ~Names(req[a], req[b].ride)
      BY <1>0, <1>4, <1>8 DEF Moves, IInv, NewRidesAreUnknown
    <2>2. KnowsStripe(b, req[b])'
      <3> SUFFICES ASSUME Starting(req[b])
                   PROVE  /\ b \in Request /\ req[b].rider \in Rider
                          /\ lock'[req[b].rider] = b
                          /\ \A j \in Ride : Live(j)' /\ row[j].rider = req[b].rider
                                => req[b].pc = "finEnd" /\ j = req[b].ride
        BY <1>0, <2>1 DEF KnowsStripe, Starting
      <3>1. b \in Request /\ req[b].rider \in Rider /\ lock[req[b].rider] = b
        BY <2>1 DEF Knows, KnowsStripe
      <3>2. lock'[req[b].rider] = b
        BY <1>4, <1>8, <3>1, RidesAssumption DEF Moves
      <3>3. req[b].rider # d
        BY <1>0, <1>8, <3>1 DEF Knows, KnowsStripe, Starting
      <3>4. ASSUME NEW j \in Ride, Live(j)', row[j].rider = req[b].rider
            PROVE  req[b].pc = "finEnd" /\ j = req[b].ride
        <4>1. Live(j)
          BY <1>0, <1>2, <1>5, <3>3, <3>4 DEF Live
        <4> QED  BY <2>1, <3>4, <4>1 DEF Knows, KnowsStripe
      <3> QED  BY <3>1, <3>2, <3>4
    <2>3. KnowsRides(req[b])'
      BY <1>0, <2>1 DEF Knows, KnowsRides
    <2>4. KnowsNewRide(req[b])'
      BY <1>0, <1>2, <2>1 DEF Knows, KnowsNewRide, KnowsRides, Names, Registered, Filed
    <2>5. KnowsReason(req[b])'
      BY <1>0, <1>2, <2>1 DEF Knows, KnowsReason, KnowsRides, Names, Live, Finisher
    <2>6. KnowsOutcome(req[b])'
      BY <1>0, <1>2, <2>1 DEF Knows, KnowsOutcome, KnowsRides, Names, Ended, Finisher
    <2> QED  BY <2>1, <2>2, <2>3, <2>4, <2>5, <2>6 DEF Knows
  <1>9. NewRidesAreUnknown'
    <2> SUFFICES ASSUME NEW b \in Actor, NEW c \in Actor,
                        req'[b].pc = "startAdd", b # c
                 PROVE  ~Names(req'[c], req'[b].ride)
      BY DEF NewRidesAreUnknown, Names
    <2>1. b # a /\ req'[b] = req[b] /\ ~Names(req[c], req[b].ride)
      BY <1>0, <1>4, IdleFields DEF Moves, NewRidesAreUnknown
    <2>2. req[b].ride # None
      BY <2>1, RidesAssumption DEF IInv, Knows, KnowsRides
    <2> QED  BY <1>4, <2>1, <2>2, IdleFields DEF Moves, Names
  <1> QED  BY <1>4, <1>6, <1>7, <1>8, <1>9 DEF IInv

-----------------------------------------------------------------------------
(* Every action preserves the invariant: the points of a ride.             *)

\* A handler that only answers, without a stripe.
LEMMA IdleMoves ==
    ASSUME IInv, NEW a \in Actor, Become(a, Idle), UNCHANGED lock
    PROVE  Moves(a) /\ Knows(a, req[a])'
  <1>1. req'[a] = Idle /\ None \notin Ride
    BY RidesAssumption DEF Become, IInv, Typed
  <1>2. Moves(a)
    BY <1>1, IdleFields DEF Moves, Become, IInv, Typed, Names
  <1>3. Knows(a, req[a])'
    BY <1>1, IdleFields DEF Knows, KnowsStripe, Starting, KnowsRides, KnowsNewRide,
       KnowsReason, KnowsOutcome, Finisher
  <1> QED  BY <1>2, <1>3

\* A handler that turns to finishRide for the ride it was called with.
LEMMA FinishingMoves ==
    ASSUME IInv, NEW a \in Actor, NEW i \in Ride,
           NEW why \in RejectReasons \cup {"closed"}, NEW kind \in Kind \ {"start"},
           Become(a, Finishing(i, why, kind)), UNCHANGED lock,
           row'[i].status # "none", Names(req[a], i) \/ Registered(i),
           why \in RejectReasons => ~Live(i)'
    PROVE  Moves(a) /\ Knows(a, req[a])'
  <1>1. why \in Reason /\ kind \in Kind
    BY DEF Reason, RejectReasons
  <1>2. /\ req'[a] = Finishing(i, why, kind)
        /\ req'[a] \in ActorState /\ req'[a].pc = "finEnd" /\ req'[a].ride = i
        /\ req'[a].todo = {}
    BY <1>1, FinishingType DEF Become, IInv, Typed
  <1>3. Moves(a)
    BY <1>2 DEF Moves, Become, IInv, Typed, Names
  <1> QED  BY <1>2, <1>3, FinishingKnows

\* After a batch the handler answers, or finishes the ride the engine ended.
LEMMA AfterBatchMoves ==
    ASSUME IInv, NEW a \in Actor, NEW sum \in Summary,
           req[a].ride \in Ride, row'[req[a].ride].status # "none",
           sum.reason \in RejectReasons \cup {""},
           sum.reason \in RejectReasons => session'[req[a].ride].life # "live",
           AfterBatch(a, sum), UNCHANGED lock
    PROVE  Moves(a) /\ Knows(a, req[a])'
  <1>1. CASE sum.reason = ""
    BY <1>1, IdleMoves DEF AfterBatch
  <1>2. CASE sum.reason # ""
    <2>1. PICK i \in Ride : i = req[a].ride
      OBVIOUS
    <2>2. PICK why \in RejectReasons : why = sum.reason
      BY <1>2
    <2>3. Become(a, Finishing(i, why, "answer"))
      BY <1>2, <2>1, <2>2 DEF AfterBatch
    <2>4. ~Live(i)' /\ row'[i].status # "none" /\ Names(req[a], i)
      BY <2>1, <2>2 DEF Live, Names
    <2> QED  BY <2>3, <2>4, FinishingMoves DEF Kind
  <1> QED  BY <1>1, <1>2

\* Ending a live ride, and taking in a batch for one, begin with a name.
LEMMA EndRideInv ==
    ASSUME IInv, NEW a \in Request, NEW i \in Ride, EndRide(a, i)
    PROVE  IInv'
  <1>1. /\ a \in Actor /\ UNCHANGED <<Tables, Memory, applied, lock>>
        /\ Become(a, Finishing(i, "closed", "answer")) /\ Registered(i)
    BY DEF EndRide, Actor, Registered, Live
  <1>2. row'[i].status # "none"
    BY <1>1 DEF IInv, WorldOK, SessionOK, Tables
  <1> QED  BY <1>1, <1>2, FinishingMoves, ReqStep DEF Kind, RejectReasons

LEMMA PositionsInv ==
    ASSUME IInv, NEW a \in Request, NEW i \in Ride, Positions(a, i)
    PROVE  IInv'
  <1>0. /\ a \in Actor /\ UNCHANGED <<Tables, Memory, applied, lock>> /\ Registered(i)
        /\ req \in [Actor -> ActorState] /\ session[i].tier \in Tier
        /\ row'[i].status # "none"
    BY DEF Positions, Actor, Registered, Live, IInv, Typed, Session, WorldOK, SessionOK,
       Tables
  <1>1. PICK s : s = [Idle EXCEPT !.pc = "apply", !.ride = i, !.tier = session[i].tier]
    OBVIOUS
  <1>2. /\ s \in ActorState /\ s.pc = "apply" /\ s.kind = "" /\ s.ride = i
        /\ s.todo = {}
    BY <1>0, <1>1, IdleFields DEF ActorState, PC
  <1>3. req'[a] = s /\ req' = [req EXCEPT ![a] = s]
    BY <1>0, <1>1 DEF Positions, Become
  <1>4. Moves(a)
    BY <1>0, <1>2, <1>3 DEF Moves, Names, IInv, Typed
  <1>5. Knows(a, req[a])'
    BY <1>0, <1>2, <1>3 DEF Knows, KnowsStripe, Starting, KnowsRides, KnowsNewRide,
       KnowsReason, KnowsOutcome, Finisher
  <1> QED  BY <1>0, <1>4, <1>5, ReqStep

\* What a batch makes of a session that is live.
LEMMA FoldedFacts ==
    ASSUME NEW x \in Session, x.life = "live", x.sum.total < MaxBatches,
           NEW s \in Folded(x)
    PROVE  /\ s \in Session /\ s.sum.total = x.sum.total + 1
           /\ \/ s.life = "live" /\ s.sum.state # "rejected" /\ s.sum.reason = ""
              \/ s.life = "ended" /\ s.sum.state = "rejected" /\ s.sum.reason \in RejectReasons
  <1>1. PICK y \in Summary :
          /\ y.total = x.sum.total + 1
          /\ y.reason \in IF y.state = "rejected" THEN {"off_route", "contradicted"} ELSE {""}
          /\ s = [x EXCEPT !.sum = y,
                           !.life = IF y.state = "rejected" THEN "ended" ELSE "live"]
    BY DEF Folded
  <1> QED  BY <1>1 DEF Session, RejectReasons

\* The batch is folded under the lock, so into a session nobody has ended, and
\* the ride's count and the session's grow together.
LEMMA ApplyBatchInv ==
    ASSUME IInv, NEW a \in Request, ApplyBatch(a)
    PROVE  IInv'
  <1>0. PICK i \in Ride : i = req[a].ride
    BY DEF ApplyBatch, IInv, Knows, KnowsRides, Actor
  <1>1. PICK s \in Folded(session[i]) :
          /\ session' = [session EXCEPT ![i] = s]
          /\ IF req[a].tier # "blocked"
             THEN Become(a, [req[a] EXCEPT !.pc = "record", !.sum = s.sum])
             ELSE AfterBatch(a, s.sum)
    BY <1>0 DEF ApplyBatch
  <1>2. /\ a \in Actor /\ req[a].pc = "apply" /\ Live(i)
        /\ session[i].sum.total < MaxBatches
        /\ applied' = [applied EXCEPT ![i] = @ + 1]
        /\ UNCHANGED <<row, rider, byRider, lock>>
        /\ session \in [Ride -> Session] /\ applied \in [Ride -> 0 .. MaxBatches]
        /\ req \in [Actor -> ActorState] /\ req[a] \in ActorState
        /\ Knows(a, req[a]) /\ WorldOK
        /\ MaxBatches \in Nat /\ None \notin Ride
    BY <1>0, RidesAssumption DEF ApplyBatch, Foldable, Actor, IInv, Typed, Tables
  <1>3. /\ s \in Session /\ s.sum.total = session[i].sum.total + 1
        /\ \/ s.life = "live" /\ s.sum.state # "rejected" /\ s.sum.reason = ""
           \/ s.life = "ended" /\ s.sum.state = "rejected" /\ s.sum.reason \in RejectReasons
    BY <1>2, FoldedFacts DEF Live
  <1>4. Quiet
    BY <1>1, <1>2, <1>3 DEF Quiet, Filed, Live, Registered, Ended
  <1>5. s.sum \in Summary /\ session[i].sum.total = applied[i] /\ row[i].status # "none"
    BY <1>2, <1>3 DEF Session, WorldOK, SessionOK, Registered, Live
  <1>6. WorldOK'
    <2>1. ASSUME NEW j \in Ride PROVE RowOK(j)' /\ SessionOK(j)'
      <3>1. CASE j = i
        BY <1>1, <1>2, <1>3, <1>5, <3>1 DEF WorldOK, RowOK, SessionOK, Filed, Live,
           Registered, Ended
      <3>2. CASE j # i
        BY <1>1, <1>2, <3>2 DEF WorldOK, RowOK, SessionOK, Filed, Live, Registered,
           Ended
      <3> QED  BY <3>1, <3>2
    <2>2. ASSUME NEW e \in Rider PROVE RiderOK(e)'
      BY <1>2 DEF WorldOK, RiderOK, FiledRides, Filed
    <2> QED  BY <2>1, <2>2 DEF WorldOK
  <1>7. Moves(a) /\ Knows(a, req[a])'
    <2>1. CASE Become(a, [req[a] EXCEPT !.pc = "record", !.sum = s.sum])
      <3>1. PICK q : q = [req[a] EXCEPT !.pc = "record", !.sum = s.sum]
        OBVIOUS
      <3>2. /\ q \in ActorState /\ q.pc = "record" /\ q.kind = req[a].kind
            /\ q.rider = req[a].rider /\ q.ride = i /\ q.todo = req[a].todo
            /\ q.sum.reason = s.sum.reason
        BY <1>0, <1>2, <1>5, <3>1 DEF ActorState, PC
      <3>3. req'[a] = q /\ req' = [req EXCEPT ![a] = q]
        BY <1>2, <2>1, <3>1 DEF Become
      <3>4. Moves(a)
        BY <1>0, <1>2, <3>2, <3>3 DEF Moves, Names, IInv, Typed
      <3>5. KnowsStripe(a, req[a])'
        BY <1>0, <1>2, <1>4, <1>5, <3>2, <3>3 DEF Knows, KnowsStripe, Starting, Quiet
      <3>6. KnowsRides(req[a])' /\ KnowsNewRide(req[a])' /\ KnowsOutcome(req[a])'
        BY <1>0, <1>2, <1>5, <3>2, <3>3 DEF Knows, KnowsRides, KnowsNewRide,
           KnowsOutcome
      <3>7. KnowsReason(req[a])'
        BY <1>0, <1>1, <1>2, <1>3, <3>2, <3>3 DEF KnowsReason, Live, RejectReasons
      <3> QED  BY <3>2, <3>3, <3>4, <3>5, <3>6, <3>7 DEF Knows
    <2>2. CASE AfterBatch(a, s.sum)
      <3>1. /\ s.sum.reason \in RejectReasons \cup {""}
            /\ s.sum.reason \in RejectReasons => session'[i].life # "live"
        BY <1>1, <1>2, <1>3 DEF RejectReasons
      <3> QED  BY <1>0, <1>2, <1>5, <2>2, <3>1, AfterBatchMoves
    <2> QED  BY <1>1, <2>1, <2>2
  <1>8. Typed'
    <2>1. applied' \in [Ride -> 0 .. MaxBatches]
      BY <1>2, <1>5
    <2> QED  BY <1>1, <1>2, <1>3, <1>7, <2>1 DEF Typed, IInv, Moves
  <1> QED  BY <1>2, <1>4, <1>6, <1>7, <1>8, MoveStep

\* Batches that are refused, and batches whose row does not take them.
LEMMA ApplyRefusedInv ==
    ASSUME IInv, NEW a \in Request, ApplyRefused(a)
    PROVE  IInv'
  <1>1. a \in Actor /\ Become(a, Idle) /\ UNCHANGED <<Tables, Memory, applied, lock>>
    BY DEF ApplyRefused, Actor
  <1> QED  BY <1>1, IdleMoves, ReqStep

\* What a request knows in "record".
LEMMA RecordKnows ==
    ASSUME IInv, NEW a \in Request, req[a].pc = "record"
    PROVE  /\ a \in Actor /\ req[a].ride \in Ride /\ row[req[a].ride].status # "none"
           /\ req[a].sum \in Summary /\ req[a].sum.reason \in RejectReasons \cup {""}
           /\ req[a].sum.reason \in RejectReasons => session[req[a].ride].life # "live"
  BY RidesAssumption DEF IInv, Typed, Knows, KnowsRides, KnowsReason, Actor, ActorState,
     Live

LEMMA RecordFailsInv ==
    ASSUME IInv, NEW a \in Request, RecordFails(a)
    PROVE  IInv'
  <1>1. /\ req[a].pc = "record" /\ AfterBatch(a, req[a].sum)
        /\ UNCHANGED <<Tables, Memory, applied, lock>>
    BY DEF RecordFails
  <1>2. row' = row /\ session' = session
    BY <1>1 DEF Tables, Memory
  <1> QED  BY <1>1, <1>2, RecordKnows, AfterBatchMoves, ReqStep

LEMMA RecordNotFoundInv ==
    ASSUME IInv, NEW a \in Request, RecordNotFound(a)
    PROVE  IInv'
  <1>0. PICK i \in Ride : i = req[a].ride
    BY RecordKnows DEF RecordNotFound
  <1>1. /\ req[a].pc = "record" /\ UNCHANGED <<Tables, Memory, applied, lock>>
        /\ a \in Actor /\ row'[i].status # "none" /\ Names(req[a], i)
    BY <1>0, RecordKnows DEF RecordNotFound, Names, Tables
  <1>2. CASE req[a].sum.reason # ""
    <2>1. PICK why \in RejectReasons : why = req[a].sum.reason
      BY <1>1, <1>2, RecordKnows
    <2>2. Become(a, Finishing(i, why, "again")) /\ ~Live(i)'
      BY <1>0, <1>1, <1>2, <2>1, RecordKnows DEF RecordNotFound, Live, Memory
    <2> QED  BY <1>1, <2>2, FinishingMoves, ReqStep DEF Kind
  <1>3. CASE req[a].sum.reason = ""
    <2>1. Become(a, Finishing(i, "closed", "answer"))
      BY <1>0, <1>3 DEF RecordNotFound
    <2> QED  BY <1>1, <2>1, FinishingMoves, ReqStep DEF Kind, RejectReasons
  <1> QED  BY <1>2, <1>3

\* RecordRidePoints writes an active row, which promises nothing yet.
LEMMA RecordRidePointsInv ==
    ASSUME IInv, NEW a \in Request, RecordRidePoints(a)
    PROVE  IInv'
  <1>0. PICK i \in Ride : i = req[a].ride
    BY RecordKnows DEF RecordRidePoints
  <1>1. /\ a \in Actor /\ req[a].pc = "record" /\ row[i].status = "active"
        /\ AfterBatch(a, req[a].sum)
        /\ UNCHANGED <<rider, session, byRider, lock, applied>>
        /\ row \in [Ride -> Row] /\ WorldOK /\ req[a].sum \in Summary
    BY <1>0, RecordKnows DEF RecordRidePoints, Memory, IInv, Typed
  <1>2. PICK x : x = [row[i] EXCEPT !.state = req[a].sum.state,
                                    !.total = req[a].sum.total]
    OBVIOUS
  <1>3. row' = [row EXCEPT ![i] = x]
    BY <1>0, <1>1, <1>2 DEF RecordRidePoints
  <1>4. x \in Row /\ x.status = "active" /\ x.rider = row[i].rider
    BY <1>1, <1>2 DEF Row, Summary
  <1>5. Quiet
    BY <1>1, <1>3, <1>4 DEF Quiet, Filed, Live, Registered, Ended
  <1>6. WorldOK'
    <2>1. ASSUME NEW j \in Ride PROVE RowOK(j)' /\ SessionOK(j)'
      BY <1>1, <1>3, <1>4 DEF WorldOK, RowOK, SessionOK, Filed, Live, Registered, Ended
    <2>2. ASSUME NEW d \in Rider PROVE RiderOK(d)'
      <3>1. FiledRides(d)' = FiledRides(d)
        BY <1>1, <1>3, <1>4 DEF FiledRides, Filed
      <3> QED  BY <1>1, <3>1 DEF WorldOK, RiderOK
    <2> QED  BY <2>1, <2>2 DEF WorldOK
  <1>7. Moves(a) /\ Knows(a, req[a])'
    <2>1. /\ row'[i].status # "none" /\ session' = session /\ lock' = lock
          /\ req[a].sum.reason \in RejectReasons \cup {""}
          /\ req[a].sum.reason \in RejectReasons => session'[i].life # "live"
      BY <1>0, <1>1, <1>3, <1>4, RecordKnows
    <2> QED  BY <1>0, <1>1, <2>1, AfterBatchMoves
  <1>8. Typed'
    BY <1>1, <1>3, <1>4, <1>7 DEF Typed, IInv, Moves
  <1> QED  BY <1>1, <1>5, <1>6, <1>7, <1>8, MoveStep

-----------------------------------------------------------------------------
(* Every action preserves the invariant: finishRide.                       *)

\* The first end wins.
LEMMA EndedSessionFacts ==
    ASSUME NEW x \in Session, x.life # "absent", NEW why \in Reason
    PROVE  /\ EndedSession(x, why) \in Session
           /\ EndedSession(x, why).life = "ended"
           /\ EndedSession(x, why).sum.total = x.sum.total
           /\ EndedSession(x, why).sum.state = x.sum.state
           /\ x.life = "live" => EndedSession(x, why).sum.reason = why
           /\ x.life = "ended" => EndedSession(x, why) = x
  BY DEF EndedSession, Session, Summary

\* What a request knows anywhere in finishRide.
LEMMA FinisherKnows ==
    ASSUME IInv, NEW a \in Actor, req[a].pc \in Finisher
    PROVE  /\ req[a].ride \in Ride /\ row[req[a].ride].status # "none"
           /\ req[a] \in ActorState /\ Knows(a, req[a])
           /\ row[req[a].ride].rider \in Rider
  <1>1. /\ req[a].ride \in Ride /\ row[req[a].ride].status # "none"
        /\ req[a] \in ActorState /\ Knows(a, req[a])
    BY RidesAssumption DEF IInv, Typed, Knows, KnowsRides
  <1> QED  BY <1>1 DEF IInv, WorldOK, RowOK

\* Ending the session fixes the summary the handler takes along; a reason of
\* the engine's is only ever given to a ride the engine has ended.
LEMMA FinishEndInv ==
    ASSUME IInv, NEW a \in Actor, FinishEnd(a)
    PROVE  IInv'
  <1>0. /\ req[a].pc = "finEnd" /\ req[a].pc \in Finisher
        /\ UNCHANGED <<row, rider, byRider, applied>>
    BY DEF FinishEnd, Finisher, Tables
  <1>1. PICK i \in Ride : i = req[a].ride
    BY <1>0, FinisherKnows
  <1>2. /\ row[i].status # "none" /\ req[a] \in ActorState /\ Knows(a, req[a])
        /\ session \in [Ride -> Session] /\ req \in [Actor -> ActorState] /\ WorldOK
        /\ req[a].sum.reason \in RejectReasons \cup {"closed"}
        /\ req[a].sum.reason \in RejectReasons => ~Live(i)
    BY <1>0, <1>1, FinisherKnows DEF IInv, Typed, Knows, KnowsReason
  <1>3. CASE Registered(i)
    <2>1. PICK s : s = EndedSession(session[i], req[a].sum.reason)
      OBVIOUS
    <2>2. PICK q : q = [req[a] EXCEPT !.pc = "finStore", !.sum = s.sum]
      OBVIOUS
    <2>3. /\ session' = [session EXCEPT ![i] = s]
          /\ req' = [req EXCEPT ![a] = q] /\ req'[a] = q /\ lock' = lock
      BY <1>1, <1>2, <1>3, <2>1, <2>2 DEF FinishEnd, Become
    <2>4. /\ s \in Session /\ s.life = "ended"
          /\ s.sum.total = session[i].sum.total /\ s.sum.state = session[i].sum.state
          /\ session[i].life = "live" => s.sum.reason = req[a].sum.reason
          /\ session[i].life = "ended" => s = session[i]
      <3>1. session[i].life # "absent" /\ req[a].sum.reason \in Reason
        BY <1>2, <1>3 DEF Registered, RejectReasons, Reason
      <3> QED  BY <1>2, <2>1, <3>1, EndedSessionFacts
    <2>5. /\ q \in ActorState /\ q.pc = "finStore" /\ q.kind = req[a].kind
          /\ q.rider = req[a].rider /\ q.ride = i /\ q.todo = req[a].todo /\ q.sum = s.sum
      <3>1. s.sum \in Summary
        BY <2>4 DEF Session
      <3> QED  BY <1>1, <1>2, <2>2, <3>1 DEF ActorState, PC
    <2>6. Quiet
      BY <1>0, <1>2, <1>3, <2>3, <2>4 DEF Quiet, Filed, Live, Registered, Ended
    <2>7. Moves(a)
      BY <1>1, <1>2, <2>3, <2>5 DEF Moves, Names, IInv, Typed
    <2>8. WorldOK'
      <3>1. ASSUME NEW j \in Ride PROVE RowOK(j)' /\ SessionOK(j)'
        <4>1. CASE j = i
          <5>1. RowOK(j)'
            BY <1>0, <1>2, <2>3, <2>4, <4>1 DEF WorldOK, RowOK, Filed, Live
          <5>2. SessionOK(j)'
            <6>0. SessionOK(j)
              BY <1>2 DEF WorldOK
            <6>1. session'[j] = s /\ row'[j] = row[j] /\ applied'[j] = applied[j]
              BY <1>0, <1>2, <2>3, <4>1
            <6>2. CASE session[j].life = "live"
              <7>1. s.sum.reason = "closed" /\ s.sum.state # "rejected"
                BY <1>2, <2>4, <4>1, <6>0, <6>2 DEF SessionOK, Live
              <7> QED  BY <2>4, <4>1, <6>0, <6>1, <6>2, <7>1 DEF SessionOK, Live,
                          Registered, Ended, RejectReasons
            <6>3. CASE session[j].life = "ended"
              BY <2>4, <4>1, <6>0, <6>1, <6>3 DEF SessionOK, Live, Registered, Ended
            <6> QED  BY <1>2, <1>3, <4>1, <6>2, <6>3 DEF Registered, Session
          <5> QED  BY <5>1, <5>2
        <4>2. CASE j # i
          BY <1>0, <1>2, <2>3, <4>2 DEF WorldOK, RowOK, SessionOK, Filed, Live,
             Registered, Ended
        <4> QED  BY <4>1, <4>2
      <3>2. ASSUME NEW e \in Rider PROVE RiderOK(e)'
        BY <1>0, <1>2 DEF WorldOK, RiderOK, FiledRides, Filed
      <3> QED  BY <3>1, <3>2 DEF WorldOK
    <2>9. Knows(a, req[a])'
      <3>1. KnowsStripe(a, req[a])'
        <4> SUFFICES ASSUME Starting(q)
                     PROVE  /\ a \in Request /\ q.rider \in Rider /\ lock'[q.rider] = a
                            /\ \A j \in Ride : ~(Live(j)' /\ row'[j].rider = q.rider)
          BY <2>3 DEF KnowsStripe, Starting
        <4>1. Starting(req[a])
          BY <2>5 DEF Starting
        <4>2. /\ a \in Request /\ q.rider \in Rider /\ lock'[q.rider] = a
          BY <1>2, <2>3, <2>5, <4>1 DEF Knows, KnowsStripe
        <4>3. ASSUME NEW j \in Ride, Live(j)', row'[j].rider = q.rider PROVE FALSE
          <5>1. j # i /\ Live(j) /\ row[j].rider = req[a].rider
            BY <1>0, <1>2, <2>3, <2>4, <2>5, <4>3 DEF Live
          <5> QED  BY <1>1, <1>2, <4>1, <5>1 DEF Knows, KnowsStripe
        <4> QED  BY <4>2, <4>3
      <3>2. KnowsRides(req[a])'
        BY <1>0, <1>1, <1>2, <2>3, <2>5 DEF Knows, KnowsRides
      <3>3. KnowsOutcome(req[a])'
        BY <1>2, <2>3, <2>4, <2>5 DEF KnowsOutcome, Ended
      <3> QED  BY <2>3, <2>5, <3>1, <3>2, <3>3 DEF Knows, KnowsNewRide, KnowsReason
    <2>10. Typed'
      BY <1>0, <1>2, <2>3, <2>4, <2>5 DEF Typed, IInv
    <2> QED  BY <2>6, <2>7, <2>8, <2>9, <2>10, MoveStep
  <1>4. CASE ~Registered(i)
    <2>1. NotActive(a) /\ session' = session
      BY <1>1, <1>4 DEF FinishEnd
    <2>2. UNCHANGED <<Tables, Memory, applied>>
      BY <1>0, <2>1 DEF Tables, Memory
    <2>3. Quiet
      BY <2>2 DEF Quiet, Tables, Memory, Filed, Live, Registered, Ended
    <2>4. session'[req[a].ride].life # "live"
      BY <1>1, <1>4, <2>1 DEF Registered
    <2>5. Moves(a) /\ Knows(a, req[a])'
      BY <1>0, <2>1, <2>3, <2>4, ReturnMoves DEF NotActive, Tier
    <2> QED  BY <2>2, <2>5, ReqStep
  <1> QED  BY <1>3, <1>4

\* The arithmetic of reputation.go stays in its range.
LEMMA ScoreDeltaRange ==
    ASSUME NEW s \in Summary
    PROVE  ScoreDelta(s) \in -3 .. 1
  BY DEF ScoreDelta

LEMMA RescoredFacts ==
    ASSUME NEW r \in RiderRow, NEW delta \in -3 .. 1
    PROVE  /\ Rescored(r, delta) \in RiderRow
           /\ Rescored(r, delta).tier = TierFor(Rescored(r, delta).score)
           /\ Rescored(r, delta).ridesTotal = r.ridesTotal + 1
  <1> DEFINE score == Clamp(r.score + delta)
  <1>1. score \in -10 .. 10
    BY DEF Clamp, RiderRow
  <1>2. TierFor(score) \in Tier
    BY DEF TierFor, Tier
  <1>3. Rescored(r, delta) = [score |-> score, tier |-> TierFor(score),
                              ridesTotal |-> r.ridesTotal + 1]
    BY DEF Rescored
  <1> HIDE DEF score
  <1> QED  BY <1>1, <1>2, <1>3 DEF RiderRow

\* One more filed ride is one more in the count.
LEMMA OneMoreFiled ==
    ASSUME NEW d, NEW i \in Ride, i \notin FiledRides(d),
           FiledRides(d)' = FiledRides(d) \cup {i}
    PROVE  /\ Cardinality(FiledRides(d)) \in Nat
           /\ Cardinality(FiledRides(d)') = Cardinality(FiledRides(d)) + 1
  <1>1. FiledRides(d) \subseteq Ride
    BY DEF FiledRides
  <1>2. IsFiniteSet(FiledRides(d))
    BY <1>1, FS_Subset, RidesAssumption
  <1> QED  BY <1>2, FS_AddElement, FS_CardinalityType

\* The transaction files the row and scores the ride together, once: it writes
\* a row that is active, with the summary of a session that can grow no more.
LEMMA FinishStoreInv ==
    ASSUME IInv, NEW a \in Actor, FinishStore(a)
    PROVE  IInv'
  <1>0. /\ req[a].pc = "finStore" /\ req[a].pc \in Finisher
        /\ UNCHANGED <<session, byRider, applied>>
    BY DEF FinishStore, Finisher, Memory
  <1>1. PICK i \in Ride : i = req[a].ride
    BY <1>0, FinisherKnows
  <1>2. PICK sum \in Summary : sum = req[a].sum
    BY <1>0, FinisherKnows DEF ActorState
  <1>3. PICK d \in Rider : d = row[i].rider
    BY <1>0, <1>1, FinisherKnows
  <1>4. PICK r : r = Rescored(rider[d], ScoreDelta(sum))
    OBVIOUS
  <1>5. PICK x : x = [status |-> "ended", rider |-> d, state |-> sum.state,
                      total |-> sum.total, reason |-> sum.reason]
    OBVIOUS
  <1>6. /\ row[i].status = "active"
        /\ row' = [row EXCEPT ![i] = x] /\ rider' = [rider EXCEPT ![d] = r]
        /\ \/ /\ Become(a, [req[a] EXCEPT !.pc = "finRemove", !.tier = r.tier,
                                          !.sum = NoSummary])
              /\ UNCHANGED lock
           \/ ReturnError(a)
    BY <1>1, <1>2, <1>3, <1>4, <1>5 DEF FinishStore, Fileable
  <1>7. /\ row \in [Ride -> Row] /\ rider \in [Rider -> RiderRow]
        /\ req \in [Actor -> ActorState] /\ req[a] \in ActorState
        /\ Knows(a, req[a]) /\ WorldOK /\ RowOK(i) /\ SessionOK(i)
    BY <1>0, FinisherKnows DEF IInv, Typed, WorldOK
  <1>8. Ended(i) /\ session[i].sum = sum
    BY <1>0, <1>1, <1>2, <1>6, <1>7 DEF Knows, KnowsOutcome
  <1>9. /\ sum.reason \in RejectReasons \cup {"closed"} /\ sum.total = applied[i]
        /\ sum.state = "rejected" <=> sum.reason \in RejectReasons
    BY <1>7, <1>8 DEF SessionOK, Ended, Registered
  <1>10. /\ x \in Row /\ x.status = "ended" /\ x.rider = d /\ x.state = sum.state
         /\ x.total = sum.total /\ x.reason = sum.reason
    BY <1>5 DEF Row, Summary
  <1>11. /\ r \in RiderRow /\ r.tier = TierFor(r.score)
         /\ r.ridesTotal = rider[d].ridesTotal + 1
    BY <1>4, <1>7, ScoreDeltaRange, RescoredFacts
  <1>12. Quiet
    BY <1>0, <1>3, <1>6, <1>7, <1>8, <1>10 DEF Quiet, Filed, Live, Registered, Ended
  <1>13. WorldOK'
    <2>1. ASSUME NEW j \in Ride PROVE RowOK(j)' /\ SessionOK(j)'
      <3>1. CASE j = i
        <4>1. RowOK(j)'
          BY <1>0, <1>6, <1>7, <1>8, <1>9, <1>10, <3>1 DEF RowOK, Filed, Live, Ended
        <4>2. SessionOK(j)'
          BY <1>0, <1>3, <1>6, <1>7, <1>10, <3>1 DEF SessionOK, Live, Registered, Ended
        <4> QED  BY <4>1, <4>2
      <3>2. CASE j # i
        BY <1>0, <1>6, <1>7, <3>2 DEF WorldOK, RowOK, SessionOK, Filed, Live,
           Registered, Ended
      <3> QED  BY <3>1, <3>2
    <2>2. ASSUME NEW e \in Rider PROVE RiderOK(e)'
      <3>0. RiderOK(e)
        BY <1>7 DEF WorldOK
      <3>1. Filed(i)' /\ ~Filed(i) /\ row'[i].rider = d
        BY <1>6, <1>7, <1>9, <1>10 DEF Filed, RejectReasons
      <3>2. CASE e = d
        <4>1. FiledRides(d)' = FiledRides(d) \cup {i} /\ i \notin FiledRides(d)
          BY <1>3, <1>6, <1>7, <1>10, <3>1 DEF FiledRides, Filed
        <4>2. Cardinality(FiledRides(d)') = rider[d].ridesTotal + 1
          BY <3>0, <3>2, <4>1, OneMoreFiled DEF RiderOK
        <4>3. rider'[d] = r
          BY <1>6, <1>7
        <4> QED  BY <1>11, <3>2, <4>2, <4>3 DEF RiderOK
      <3>3. CASE e # d
        <4>1. FiledRides(e)' = FiledRides(e)
          BY <1>3, <1>6, <1>7, <1>10, <3>3 DEF FiledRides, Filed
        <4> QED  BY <1>6, <1>7, <3>0, <3>3, <4>1 DEF RiderOK
      <3> QED  BY <3>2, <3>3
    <2> QED  BY <2>1, <2>2 DEF WorldOK
  <1>14. Moves(a) /\ Knows(a, req[a])'
    <2>1. CASE /\ Become(a, [req[a] EXCEPT !.pc = "finRemove", !.tier = r.tier,
                                           !.sum = NoSummary])
               /\ UNCHANGED lock
      <3>1. PICK q : q = [req[a] EXCEPT !.pc = "finRemove", !.tier = r.tier,
                                        !.sum = NoSummary]
        OBVIOUS
      <3>2. /\ q \in ActorState /\ q.pc = "finRemove" /\ q.kind = req[a].kind
            /\ q.rider = req[a].rider /\ q.ride = i /\ q.todo = req[a].todo
        BY <1>1, <1>7, <1>11, <3>1, NoSummaryFields DEF ActorState, PC, RiderRow
      <3>3. req'[a] = q /\ req' = [req EXCEPT ![a] = q] /\ lock' = lock
        BY <1>7, <2>1, <3>1 DEF Become
      <3>4. Moves(a)
        BY <1>1, <1>7, <3>2, <3>3 DEF Moves, Names, IInv, Typed
      <3>5. KnowsStripe(a, req[a])'
        BY <1>0, <1>1, <1>3, <1>6, <1>7, <1>10, <3>2, <3>3 DEF Knows, KnowsStripe,
           Starting, Live
      <3>6. KnowsRides(req[a])' /\ KnowsOutcome(req[a])'
        BY <1>1, <1>6, <1>7, <1>10, <3>2, <3>3 DEF Knows, KnowsRides, KnowsOutcome
      <3> QED  BY <3>2, <3>3, <3>4, <3>5, <3>6 DEF Knows, KnowsNewRide, KnowsReason
    <2>2. CASE ReturnError(a)
      BY <1>0, <1>12, <2>2, ReturnErrorMoves
    <2> QED  BY <1>6, <2>1, <2>2
  <1>15. Typed'
    BY <1>0, <1>6, <1>7, <1>10, <1>11, <1>14 DEF Typed, IInv, Moves
  <1> QED  BY <1>12, <1>13, <1>14, <1>15, MoveStep

\* Remove takes out one session, and no other ride's entry in byRider.
LEMMA UnregisterFacts ==
    ASSUME IInv, NEW i \in Ride, row[i].status = "ended", Unregister(i),
           UNCHANGED <<Tables, applied>>
    PROVE  Quiet /\ WorldOK' /\ session' \in [Ride -> Session]
           /\ byRider' \in [Rider -> Ride \cup {None}]
           /\ session'[i].life = "absent"
  <1>0. /\ session \in [Ride -> Session] /\ byRider \in [Rider -> Ride \cup {None}]
        /\ WorldOK
        /\ session' = [session EXCEPT ![i] = NoSession]
        /\ byRider' = [e \in Rider |-> IF byRider[e] = i THEN None ELSE byRider[e]]
        /\ UNCHANGED <<row, rider, applied>>
    BY DEF IInv, Typed, Unregister, Tables
  <1>1. NoSession \in Session /\ NoSession.life = "absent"
    BY NoSummaryFields DEF NoSession, Session, Tier
  <1>2. Quiet
    BY <1>0, <1>1 DEF Quiet, Filed, Live, Registered, Ended
  <1>3. ASSUME NEW j \in Ride PROVE RowOK(j)' /\ SessionOK(j)'
    <2>0. RowOK(j) /\ SessionOK(j)
      BY <1>0 DEF WorldOK
    <2>1. CASE j = i
      BY <1>0, <1>1, <2>0, <2>1 DEF RowOK, SessionOK, Filed, Live, Registered, Ended
    <2>2. CASE j # i
      <3>1. session'[j] = session[j]
        BY <1>0, <2>2
      <3>2. RowOK(j)'
        BY <1>0, <2>0, <3>1 DEF RowOK, Filed, Live
      <3>3. Live(j) => byRider'[row[j].rider] = j
        BY <1>0, <2>0, <2>2 DEF RowOK, SessionOK, Registered, Live
      <3>4. SessionOK(j)'
        BY <1>0, <2>0, <3>1, <3>3 DEF SessionOK, Live, Registered, Ended
      <3> QED  BY <3>2, <3>4
    <2> QED  BY <2>1, <2>2
  <1>4. ASSUME NEW e \in Rider PROVE RiderOK(e)'
    BY <1>0 DEF WorldOK, RiderOK, FiledRides, Filed
  <1> QED  BY <1>0, <1>1, <1>2, <1>3, <1>4 DEF WorldOK

\* A stale session goes: its row has ended.
LEMMA FinishNotFoundInv ==
    ASSUME IInv, NEW a \in Actor, FinishNotFound(a)
    PROVE  IInv'
  <1>0. /\ req[a].pc = "finStore" /\ req[a].pc \in Finisher
        /\ UNCHANGED <<Tables, applied>> /\ NotActive(a)
    BY DEF FinishNotFound, Finisher
  <1>1. PICK i \in Ride : i = req[a].ride
    BY <1>0, FinisherKnows
  <1>2. row[i].status = "ended" /\ Unregister(i)
    BY <1>0, <1>1, FinisherKnows DEF FinishNotFound, Fileable, IInv, Typed, Row
  <1>3. /\ Quiet /\ WorldOK' /\ session' \in [Ride -> Session]
        /\ byRider' \in [Rider -> Ride \cup {None}]
    BY <1>0, <1>2, UnregisterFacts
  <1>4. Moves(a) /\ Knows(a, req[a])'
    BY <1>0, <1>3, ReturnMoves DEF NotActive, Tier
  <1>5. Typed'
    BY <1>0, <1>3, <1>4 DEF Typed, IInv, Moves, Tables
  <1> QED  BY <1>3, <1>4, <1>5, MoveStep

LEMMA FinishFailsInv ==
    ASSUME IInv, NEW a \in Actor, FinishFails(a)
    PROVE  IInv'
  <1>0. /\ req[a].pc \in Finisher \ {"finEnd"}
        /\ UNCHANGED <<Tables, Memory, applied>> /\ ReturnError(a)
    BY DEF FinishFails, Finisher
  <1>1. Quiet
    BY <1>0 DEF Quiet, Tables, Memory, Filed, Live, Registered, Ended
  <1>2. Moves(a) /\ Knows(a, req[a])'
    BY <1>0, <1>1, ReturnErrorMoves
  <1> QED  BY <1>0, <1>2, ReqStep

LEMMA FinishRemoveInv ==
    ASSUME IInv, NEW a \in Actor, FinishRemove(a)
    PROVE  IInv'
  <1>0. /\ req[a].pc = "finRemove" /\ req[a].pc \in Finisher
        /\ UNCHANGED <<Tables, lock, applied>>
        /\ Become(a, [req[a] EXCEPT !.pc = "finTier"])
    BY DEF FinishRemove, Finisher
  <1>1. PICK i \in Ride : i = req[a].ride
    BY <1>0, FinisherKnows
  <1>2. /\ req \in [Actor -> ActorState] /\ req[a] \in ActorState
        /\ Knows(a, req[a]) /\ row[i].status = "ended" /\ Unregister(i)
    BY <1>0, <1>1, FinisherKnows DEF FinishRemove, IInv, Typed, Knows, KnowsOutcome
  <1>3. /\ Quiet /\ WorldOK' /\ session' \in [Ride -> Session]
        /\ byRider' \in [Rider -> Ride \cup {None}]
    BY <1>0, <1>2, UnregisterFacts
  <1>4. PICK q : q = [req[a] EXCEPT !.pc = "finTier"]
    OBVIOUS
  <1>5. /\ q \in ActorState /\ q.pc = "finTier" /\ q.kind = req[a].kind
        /\ q.rider = req[a].rider /\ q.ride = i /\ q.todo = req[a].todo
    BY <1>1, <1>2, <1>4 DEF ActorState, PC
  <1>6. req'[a] = q /\ req' = [req EXCEPT ![a] = q] /\ lock' = lock /\ row' = row
    BY <1>0, <1>2, <1>4 DEF Become, Tables
  <1>7. Moves(a)
    BY <1>1, <1>2, <1>5, <1>6 DEF Moves, Names, IInv, Typed
  <1>8. KnowsStripe(a, req[a])'
    <2>1. \A j \in Ride : Live(j)' => Live(j)
      BY <1>3 DEF Quiet
    <2> QED
      BY <1>0, <1>2, <1>5, <1>6, <2>1 DEF Knows, KnowsStripe, Starting
  <1>9. KnowsRides(req[a])' /\ KnowsOutcome(req[a])'
    BY <1>1, <1>2, <1>5, <1>6 DEF Knows, KnowsRides, KnowsOutcome
  <1>10. Knows(a, req[a])'
    BY <1>5, <1>6, <1>8, <1>9 DEF Knows, KnowsNewRide, KnowsReason
  <1>11. Typed'
    BY <1>0, <1>3, <1>7 DEF Typed, IInv, Moves, Tables
  <1> QED  BY <1>3, <1>7, <1>10, <1>11, MoveStep

\* A step that changes no session's life or summary, and no table, is quiet.
LEMMA SameStandings ==
    ASSUME IInv, UNCHANGED <<Tables, byRider, applied>>,
           \A j \in Ride : /\ session'[j].life = session[j].life
                           /\ session'[j].sum = session[j].sum
    PROVE  Quiet /\ WorldOK'
  <1>1. WorldOK /\ UNCHANGED <<row, rider, byRider, applied>>
    BY DEF IInv, Tables
  <1>2. Quiet
    BY <1>1 DEF Quiet, Filed, Live, Registered, Ended
  <1>3. ASSUME NEW j \in Ride PROVE RowOK(j)' /\ SessionOK(j)'
    <2>1. RowOK(j) /\ SessionOK(j)
      BY <1>1 DEF WorldOK
    <2>2. session'[j].life = session[j].life /\ session'[j].sum = session[j].sum
      OBVIOUS
    <2>3. RowOK(j)'
      BY <1>1, <2>1, <2>2 DEF RowOK, Filed, Live
    <2>4. SessionOK(j)'
      BY <1>1, <2>1, <2>2 DEF SessionOK, Live, Registered, Ended
    <2> QED  BY <2>3, <2>4
  <1>4. ASSUME NEW e \in Rider PROVE RiderOK(e)'
    BY <1>1 DEF WorldOK, RiderOK, FiledRides, Filed
  <1> QED  BY <1>2, <1>3, <1>4 DEF WorldOK

LEMMA FinishTierInv ==
    ASSUME IInv, NEW a \in Actor, FinishTier(a)
    PROVE  IInv'
  <1>0. /\ req[a].pc = "finTier" /\ req[a].pc \in Finisher
        /\ UNCHANGED <<Tables, byRider, applied>>
        /\ Return(a, "startInsert", req[a].tier)
    BY DEF FinishTier, Finisher
  <1>1. req[a].tier \in Tier /\ session \in [Ride -> Session]
    BY <1>0, FinisherKnows DEF IInv, Typed, ActorState
  <1>2. /\ session' \in [Ride -> Session]
        /\ \A j \in Ride : /\ session'[j].life = session[j].life
                           /\ session'[j].sum = session[j].sum
    BY <1>1 DEF FinishTier, Session
  <1>3. Quiet /\ WorldOK'
    BY <1>0, <1>2, SameStandings
  <1>4. Moves(a) /\ Knows(a, req[a])'
    BY <1>0, <1>1, <1>3, ReturnMoves
  <1>5. Typed'
    BY <1>0, <1>2, <1>4 DEF Typed, IInv, Moves, Tables
  <1> QED  BY <1>3, <1>4, <1>5, MoveStep

LEMMA FinishInv ==
    ASSUME IInv, NEW a \in Actor, Finish(a)
    PROVE  IInv'
  BY FinishEndInv, FinishStoreInv, FinishNotFoundInv, FinishFailsInv, FinishRemoveInv,
     FinishTierInv DEF Finish

-----------------------------------------------------------------------------
(* Every action preserves the invariant: the reaper and restarts.          *)

\* The reaper ends live rides for no reason of the engine's and keeps a list
\* of rides that were registered.
LEMMA ReapInv ==
    ASSUME IInv, Reap
    PROVE  IInv'
  <1>0. /\ Reaper \in Actor /\ req[Reaper].pc = "idle" /\ None \notin Ride
        /\ session \in [Ride -> Session] /\ req \in [Actor -> ActorState] /\ WorldOK
    BY RidesAssumption DEF Reap, Actor, IInv, Typed
  <1>1. PICK S \in SUBSET {i \in Ride : Live(i)} :
          /\ session' = [i \in Ride |-> IF i \in S THEN EndedSession(session[i], "closed")
                                        ELSE session[i]]
          /\ Become(Reaper, [Idle EXCEPT !.pc = "sweep", !.todo = S \cup Leftovers])
          /\ UNCHANGED <<Tables, byRider, lock, applied>>
    BY DEF Reap
  <1>2. PICK q : q = [Idle EXCEPT !.pc = "sweep", !.todo = S \cup Leftovers]
    OBVIOUS
  <1>3. S \cup Leftovers \subseteq {i \in Ride : Registered(i)}
    BY DEF Leftovers, Registered, Live, Ended
  <1>4. /\ q \in ActorState /\ q.pc = "sweep" /\ q.kind = "" /\ q.ride = None
        /\ q.todo = S \cup Leftovers
    BY <1>2, <1>3, IdleFields DEF ActorState, PC
  <1>5. req'[Reaper] = q /\ req' = [req EXCEPT ![Reaper] = q]
    BY <1>0, <1>1, <1>2 DEF Become
  <1>6. \A j \in S : /\ session'[j] \in Session /\ session'[j].life = "ended"
                     /\ session'[j].sum.total = session[j].sum.total
                     /\ session'[j].sum.state = session[j].sum.state
                     /\ session'[j].sum.reason = "closed"
    <2> SUFFICES ASSUME NEW j \in S
                 PROVE  /\ session'[j] \in Session /\ session'[j].life = "ended"
                        /\ session'[j].sum.total = session[j].sum.total
                        /\ session'[j].sum.state = session[j].sum.state
                        /\ session'[j].sum.reason = "closed"
      OBVIOUS
    <2>1. /\ session[j] \in Session /\ session[j].life = "live" /\ "closed" \in Reason
          /\ session'[j] = EndedSession(session[j], "closed")
      BY <1>0, <1>1 DEF Live, Reason
    <2> QED  BY <2>1, EndedSessionFacts
  <1>7. \A j \in Ride \ S : session'[j] = session[j]
    BY <1>1
  <1>8. Quiet
    BY <1>0, <1>1, <1>6, <1>7 DEF Quiet, Tables, Filed, Live, Registered, Ended
  <1>9. WorldOK'
    <2>1. ASSUME NEW j \in Ride PROVE RowOK(j)' /\ SessionOK(j)'
      <3>0. RowOK(j) /\ SessionOK(j) /\ UNCHANGED <<row, byRider, applied>>
        BY <1>0, <1>1 DEF WorldOK, Tables
      <3>1. CASE j \in S
        <4>1. Live(j)
          BY <3>1
        <4>2. RowOK(j)'
          BY <1>6, <3>0, <3>1, <4>1 DEF RowOK, Filed, Live
        <4>3. SessionOK(j)'
          BY <1>6, <3>0, <3>1, <4>1 DEF SessionOK, Live, Registered, Ended, RejectReasons
        <4> QED  BY <4>2, <4>3
      <3>2. CASE j \notin S
        BY <1>7, <3>0, <3>2 DEF RowOK, SessionOK, Filed, Live, Registered, Ended
      <3> QED  BY <3>1, <3>2
    <2>2. ASSUME NEW e \in Rider PROVE RiderOK(e)'
      BY <1>0, <1>1 DEF WorldOK, RiderOK, FiledRides, Filed, Tables
    <2> QED  BY <2>1, <2>2 DEF WorldOK
  <1>10. Moves(Reaper)
    BY <1>0, <1>1, <1>3, <1>4, <1>5 DEF Moves, Names, IInv, Typed
  <1>11. Knows(Reaper, req[Reaper])'
    <2>1. \A j \in q.todo : row'[j].status # "none"
      BY <1>0, <1>1, <1>3, <1>4 DEF WorldOK, SessionOK, Tables
    <2> QED
      BY <1>4, <1>5, <2>1 DEF Knows, KnowsStripe, Starting, KnowsRides, KnowsNewRide,
         KnowsReason, KnowsOutcome, Finisher
  <1>12. Typed'
    <2>1. session' \in [Ride -> Session]
      BY <1>0, <1>1, <1>6
    <2> QED  BY <1>1, <1>10, <2>1 DEF Typed, IInv, Moves, Tables
  <1> QED  BY <1>0, <1>8, <1>9, <1>10, <1>11, <1>12, MoveStep

LEMMA SweepInv ==
    ASSUME IInv, Sweep
    PROVE  IInv'
  <1>0. /\ Reaper \in Actor /\ None \notin Ride /\ Knows(Reaper, req[Reaper])
        /\ req \in [Actor -> ActorState] /\ req[Reaper].todo \subseteq Ride
    BY RidesAssumption DEF Actor, IInv, Typed, ActorState
  <1>1. CASE SweepNext
    <2>1. PICK i \in req[Reaper].todo :
            Become(Reaper, [Finishing(i, "closed", "reap") EXCEPT
                              !.todo = req[Reaper].todo \ {i}])
      BY <1>1 DEF SweepNext
    <2>2. PICK q : q = [Finishing(i, "closed", "reap") EXCEPT
                          !.todo = req[Reaper].todo \ {i}]
      OBVIOUS
    <2>3. i \in Ride /\ "closed" \in Reason /\ "reap" \in Kind
      BY <1>0 DEF Reason, Kind
    <2>4. /\ q \in ActorState /\ q.pc = "finEnd" /\ q.kind = "reap" /\ q.ride = i
          /\ q.todo = req[Reaper].todo \ {i} /\ q.sum.reason = "closed"
      BY <1>0, <2>2, <2>3, FinishingType DEF ActorState
    <2>5. /\ req'[Reaper] = q /\ req' = [req EXCEPT ![Reaper] = q]
          /\ UNCHANGED <<Tables, Memory, lock, applied>>
      BY <1>0, <1>1, <2>1, <2>2 DEF Become, SweepNext
    <2>6. Moves(Reaper)
      BY <1>0, <2>1, <2>3, <2>4, <2>5 DEF Moves, Names, IInv, Typed
    <2>7. Knows(Reaper, req[Reaper])'
      BY <1>0, <2>1, <2>3, <2>4, <2>5 DEF Knows, KnowsStripe, Starting, KnowsRides,
         KnowsNewRide, KnowsReason, KnowsOutcome, Finisher, Tables, RejectReasons
    <2> QED  BY <1>0, <2>5, <2>6, <2>7, ReqStep
  <1>2. CASE SweepDone
    <2>1. Become(Reaper, Idle) /\ UNCHANGED <<Tables, Memory, lock, applied>>
      BY <1>2 DEF SweepDone
    <2> QED  BY <1>0, <2>1, IdleMoves, ReqStep
  <1>3. CASE Finish(Reaper)
    BY <1>0, <1>3, FinishInv
  <1> QED  BY <1>1, <1>2, <1>3 DEF Sweep

\* A sweep at start-up ends rows for a reason that does not count.
LEMMA SweptRows ==
    ASSUME IInv, EndAllActiveRides, UNCHANGED <<rider, applied>>
    PROVE  /\ row' \in [Ride -> Row]
           /\ \A i \in Ride : /\ row'[i].rider = row[i].rider
                              /\ Filed(i)' <=> Filed(i)
                              /\ row[i].status = "active" => row'[i].status = "ended"
                              /\ row[i].status # "active" => row'[i] = row[i]
           /\ \A d \in Rider : RiderOK(d)'
  <1>0. row \in [Ride -> Row] /\ WorldOK
    BY DEF IInv, Typed
  <1>1. ASSUME NEW i \in Ride
        PROVE  /\ row'[i] \in Row /\ row'[i].rider = row[i].rider
               /\ Filed(i)' <=> Filed(i)
               /\ row[i].status = "active" => row'[i].status = "ended"
               /\ row[i].status # "active" => row'[i] = row[i]
    BY <1>0 DEF EndAllActiveRides, Row, Reason, Filed
  <1>2. row' \in [Ride -> Row]
    BY <1>1 DEF EndAllActiveRides
  <1>3. ASSUME NEW d \in Rider PROVE RiderOK(d)'
    <2>1. FiledRides(d)' = FiledRides(d)
      BY <1>1 DEF FiledRides
    <2> QED  BY <1>0, <2>1 DEF WorldOK, RiderOK
  <1> QED  BY <1>1, <1>2, <1>3

LEMMA SiblingStartsInv ==
    ASSUME IInv, SiblingStarts
    PROVE  IInv'
  <1>0. /\ WorldOK /\ EndAllActiveRides
        /\ UNCHANGED <<rider, session, byRider, lock, req, applied>>
    BY DEF SiblingStarts, IInv, Memory
  <1>1. /\ row' \in [Ride -> Row]
        /\ \A i \in Ride : /\ row'[i].rider = row[i].rider
                           /\ Filed(i)' <=> Filed(i)
                           /\ row[i].status = "active" => row'[i].status = "ended"
                           /\ row[i].status # "active" => row'[i] = row[i]
        /\ \A d \in Rider : RiderOK(d)'
    BY <1>0, SweptRows
  <1>2. Quiet
    BY <1>0, <1>1 DEF Quiet, Live, Registered, Ended
  <1>3. ASSUME NEW i \in Ride PROVE RowOK(i)' /\ SessionOK(i)'
    <2>0. RowOK(i) /\ SessionOK(i)
      BY <1>0 DEF WorldOK
    <2>1. CASE row[i].status = "active"
      <3>1. ~Filed(i)' /\ row'[i].status = "ended"
        BY <1>1, <2>1 DEF Filed
      <3>2. RowOK(i)'
        BY <1>0, <1>1, <2>0, <2>1, <3>1 DEF RowOK
      <3>3. SessionOK(i)'
        BY <1>0, <1>1, <2>0, <3>1 DEF SessionOK, Live, Registered, Ended
      <3> QED  BY <3>2, <3>3
    <2>2. CASE row[i].status # "active"
      BY <1>0, <1>1, <2>0, <2>2 DEF RowOK, SessionOK, Filed, Live, Registered, Ended
    <2> QED  BY <2>1, <2>2
  <1>4. ASSUME NEW b \in Actor PROVE Knows(b, req[b])'
    BY <1>0, <1>2, QuietStep
  <1>5. NewRidesAreUnknown'
    BY <1>0 DEF IInv, NewRidesAreUnknown, Names
  <1>6. Typed'
    BY <1>0, <1>1 DEF IInv, Typed
  <1> QED  BY <1>1, <1>3, <1>4, <1>5, <1>6 DEF IInv, WorldOK

\* Nothing in memory survives, so nobody knows anything.
LEMMA RestartInv ==
    ASSUME IInv, Restart
    PROVE  IInv'
  <1>0. /\ WorldOK /\ EndAllActiveRides
        /\ session' = [i \in Ride |-> NoSession]
        /\ byRider' = [d \in Rider |-> None] /\ lock' = [d \in Rider |-> None]
        /\ req' = [a \in Actor |-> Idle]
        /\ UNCHANGED <<rider, applied>>
    BY DEF Restart, IInv
  <1>1. /\ row' \in [Ride -> Row]
        /\ \A i \in Ride : /\ row'[i].rider = row[i].rider
                           /\ Filed(i)' <=> Filed(i)
                           /\ row[i].status = "active" => row'[i].status = "ended"
                           /\ row[i].status # "active" => row'[i] = row[i]
        /\ \A d \in Rider : RiderOK(d)'
    BY <1>0, SweptRows
  <1>2. NoSession \in Session /\ NoSession.life = "absent"
    BY NoSummaryFields DEF NoSession, Session, Tier
  <1>3. ASSUME NEW i \in Ride PROVE RowOK(i)' /\ SessionOK(i)'
    <2>0. RowOK(i) /\ session'[i].life = "absent"
      BY <1>0, <1>2 DEF WorldOK
    <2>1. RowOK(i)'
      <3>1. CASE row[i].status = "active"
        <4>1. ~Filed(i)' /\ row'[i].status = "ended"
          BY <1>1, <3>1 DEF Filed
        <4> QED  BY <1>0, <1>1, <2>0, <3>1, <4>1 DEF RowOK
      <3>2. CASE row[i].status # "active"
        BY <1>0, <1>1, <2>0, <3>2 DEF RowOK, Filed, Live
      <3> QED  BY <3>1, <3>2
    <2>2. SessionOK(i)'
      BY <2>0 DEF SessionOK, Live, Registered, Ended
    <2> QED  BY <2>1, <2>2
  <1>4. ASSUME NEW b \in Actor PROVE Knows(b, req[b])'
    BY <1>0, IdleFields DEF Knows, KnowsStripe, Starting, KnowsRides, KnowsNewRide,
       KnowsReason, KnowsOutcome, Finisher
  <1>5. NewRidesAreUnknown'
    BY <1>0, IdleFields DEF NewRidesAreUnknown, Names
  <1>6. Typed'
    BY <1>0, <1>1, <1>2, IdleFields DEF IInv, Typed
  <1> QED  BY <1>1, <1>3, <1>4, <1>5, <1>6 DEF IInv, WorldOK

-----------------------------------------------------------------------------
(* The invariant holds.                                                    *)

LEMMA InitInv == Init => IInv
  <1> SUFFICES ASSUME Init PROVE IInv
    OBVIOUS
  <1>1. /\ NoRow \in Row /\ NoRow.status = "none"
        /\ NoSession \in Session /\ NoSession.life = "absent"
    <2>1. NoRow \in Row /\ NoRow.status = "none"
      BY RidesAssumption DEF NoRow, Row, State, Reason
    <2>2. NoSession \in Session /\ NoSession.life = "absent"
      BY NoSummaryFields DEF NoSession, Session, Tier
    <2> QED  BY <2>1, <2>2
  <1>2. Typed
    <2>1. [score |-> 0, tier |-> "new", ridesTotal |-> 0] \in RiderRow
      BY DEF RiderRow, Tier
    <2>2. rider \in [Rider -> RiderRow]
      BY <2>1 DEF Init
    <2>3. applied \in [Ride -> 0 .. MaxBatches]
      BY RidesAssumption DEF Init
    <2> QED  BY <1>1, <2>2, <2>3, IdleFields DEF Init, Typed
  <1>3. ASSUME NEW i \in Ride PROVE RowOK(i) /\ SessionOK(i)
    BY <1>1 DEF Init, RowOK, SessionOK, Filed, Live, Registered, Ended
  <1>4. ASSUME NEW d \in Rider PROVE RiderOK(d)
    <2>1. FiledRides(d) = {}
      BY <1>1 DEF Init, FiledRides, Filed
    <2> QED  BY <2>1, FS_EmptySet DEF Init, RiderOK, TierFor
  <1>5. ASSUME NEW b \in Actor PROVE Knows(b, req[b])
    BY IdleFields DEF Init, Knows, KnowsStripe, Starting, KnowsRides, KnowsNewRide,
       KnowsReason, KnowsOutcome, Finisher
  <1>6. NewRidesAreUnknown
    BY IdleFields DEF Init, NewRidesAreUnknown, Names
  <1> QED  BY <1>2, <1>3, <1>4, <1>5, <1>6 DEF IInv, WorldOK

LEMMA NextInv == IInv /\ [Next]_vars => IInv'
  <1> SUFFICES ASSUME IInv, [Next]_vars PROVE IInv'
    OBVIOUS
  <1>1. ASSUME NEW a \in Request, NEW d \in Rider, StartRide(a, d) PROVE IInv'
    BY <1>1, StartRideInv
  <1>2. ASSUME NEW a \in Request, NEW i \in Ride, EndRide(a, i) \/ Positions(a, i)
        PROVE  IInv'
    BY <1>2, EndRideInv, PositionsInv
  <1>3. ASSUME NEW a \in Request, Continue(a) PROVE IInv'
    <2>1. a \in Actor
      BY DEF Actor
    <2> QED
      BY <1>3, <2>1, GetRiderInv, InsertRideInv, StartAnswersInv, AddSessionInv,
         ApplyBatchInv, ApplyRefusedInv, RecordRidePointsInv, RecordNotFoundInv,
         RecordFailsInv, FinishInv DEF Continue
  <1>4. CASE Reap \/ Sweep
    BY <1>4, ReapInv, SweepInv
  <1>5. CASE Restart \/ SiblingStarts
    BY <1>5, RestartInv, SiblingStartsInv
  <1>6. CASE UNCHANGED vars
    <2>1. UNCHANGED <<row, rider, session, byRider, lock, req, applied, Tables>>
      BY <1>6 DEF vars, Tables
    <2>2. Quiet /\ WorldOK'
      BY <2>1, SameStandings
    <2>3. ASSUME NEW b \in Actor PROVE Knows(b, req[b])'
      BY <2>1, <2>2, QuietStep
    <2>4. Typed' /\ NewRidesAreUnknown'
      BY <2>1 DEF IInv, Typed, NewRidesAreUnknown, Names
    <2> QED  BY <2>2, <2>3, <2>4 DEF IInv
  <1> QED  BY <1>1, <1>2, <1>3, <1>4, <1>5, <1>6 DEF Next

\* What the tables, the registry and the handlers know of each other is never
\* wrong, however requests, the reaper, crashes and siblings interleave.
THEOREM RidesInvariant == Spec => []IInv
  BY InitInv, NextInv, PTL DEF Spec

-----------------------------------------------------------------------------
(* What follows.                                                           *)

\* Every variable keeps its type, and the stored tier is the one the score
\* earns (SetRiderTier in the transaction of FinishRide).
THEOREM RidesTypeCorrect == Spec => []TypeOK
  <1>1. IInv => TypeOK
    <2> SUFFICES ASSUME IInv PROVE TypeOK
      OBVIOUS
    <2>1. ASSUME NEW d \in Rider
          PROVE  /\ rider[d].score \in -10 .. 10
                 /\ rider[d].tier = TierFor(rider[d].score)
                 /\ rider[d].ridesTotal \in 0 .. Cardinality(Ride)
      <3>1. FiledRides(d) \subseteq Ride
        BY DEF FiledRides
      <3>2. /\ Cardinality(FiledRides(d)) \in Nat /\ Cardinality(Ride) \in Nat
            /\ Cardinality(FiledRides(d)) <= Cardinality(Ride)
        BY <3>1, FS_Subset, FS_CardinalityType, RidesAssumption
      <3> QED  BY <3>2 DEF IInv, Typed, WorldOK, RiderOK, RiderRow
    <2> QED  BY <2>1 DEF IInv, Typed, TypeOK
  <1> QED  BY <1>1, RidesInvariant, PTL

\* For any riders, rides and requests in flight: the stripe taken by
\* handleStartRide keeps a rider to one live session (rider_handlers.go).
THEOREM RiderHasOneLiveRide == Spec => []OneLiveRidePerRider
  <1>1. IInv => OneLiveRidePerRider
    <2> SUFFICES ASSUME IInv, NEW i \in Ride, NEW j \in Ride,
                        Live(i), Live(j), row[i].rider = row[j].rider
                 PROVE  i = j
      BY DEF OneLiveRidePerRider
    <2>1. byRider[row[i].rider] = i /\ byRider[row[j].rider] = j
      BY DEF IInv, WorldOK, SessionOK
    <2> QED  BY <2>1
  <1> QED  BY <1>1, RidesInvariant, PTL

\* The transaction of FinishRide moves a rider's score once per ride, whoever
\* finishes it and however often (rider_store.go, EndRide of db/query.sql).
THEOREM ReputationMovesOnce == Spec => []ReputationOncePerRide
  <1>1. IInv => ReputationOncePerRide
    <2> SUFFICES ASSUME IInv, NEW d \in Rider
                 PROVE  rider[d].ridesTotal =
                          Cardinality({i \in Ride : /\ row[i].rider = d
                                                    /\ row[i].status = "ended"
                                                    /\ row[i].reason # "server_restart"})
      BY DEF ReputationOncePerRide
    <2>1. {i \in Ride : /\ row[i].rider = d /\ row[i].status = "ended"
                        /\ row[i].reason # "server_restart"} = FiledRides(d)
      BY DEF FiledRides, Filed
    <2> QED  BY <2>1 DEF IInv, WorldOK, RiderOK
  <1> QED  BY <1>1, RidesInvariant, PTL

\* The row finishRide files counts every batch the session took in, although
\* RecordRidePoints may have written older counters over newer ones.
THEOREM FiledRowIsWhole == Spec => []FiledRideIsWhole
  <1>1. IInv => FiledRideIsWhole
    BY DEF IInv, WorldOK, RowOK, Filed, FiledRideIsWhole
  <1> QED  BY <1>1, RidesInvariant, PTL

\* The engine's rejection reaches the row, and no other end is filed as one
\* (Session.End: the first end wins).
THEOREM RejectionReachesTheRow == Spec => []RejectionIsFiled
  <1>1. IInv => RejectionIsFiled
    BY DEF IInv, WorldOK, RowOK, Filed, RejectReasons, RejectionIsFiled
  <1> QED  BY <1>1, RidesInvariant, PTL

\* Only Remove and a restart take a session out, and Remove comes after its row
\* has ended.
LEMMA OnlyEndedRidesLeave ==
    ASSUME IInv, [Next]_vars, NEW i \in Ride, Registered(i), ~Registered(i)'
    PROVE  row'[i].status = "ended"
  <1>0. /\ session \in [Ride -> Session] /\ row \in [Ride -> Row] /\ WorldOK
        /\ row[i].status # "none" /\ None \notin Ride
    BY RidesAssumption DEF IInv, Typed, WorldOK, SessionOK
  <1>1. ASSUME NEW a \in Actor, Finish(a) PROVE row'[i].status = "ended"
    <2>1. req[a].pc \in Finisher
      BY <1>1 DEF Finish, FinishEnd, FinishStore, FinishNotFound, FinishFails,
         FinishRemove, FinishTier, Finisher
    <2>2. PICK j \in Ride : j = req[a].ride
      BY <2>1, FinisherKnows
    <2>3. CASE FinishEnd(a)
      <3>1. session' # session
        BY DEF Registered
      <3>2. /\ session' = [session EXCEPT ![j] =
                             EndedSession(session[j], req[a].sum.reason)]
            /\ Registered(j) /\ req[a].pc = "finEnd"
        BY <2>2, <2>3, <3>1 DEF FinishEnd
      <3>3. req[a].sum.reason \in Reason
        BY <2>1, <3>2, FinisherKnows DEF Knows, KnowsReason, RejectReasons, Reason
      <3>4. EndedSession(session[j], req[a].sum.reason).life = "ended"
        BY <1>0, <3>2, <3>3, EndedSessionFacts DEF Registered
      <3> QED  BY <1>0, <3>2, <3>4 DEF Registered
    <2>4. CASE FinishStore(a) \/ FinishFails(a)
      BY <2>4 DEF FinishStore, FinishFails, Memory, Registered
    <2>5. CASE FinishNotFound(a) \/ FinishRemove(a)
      <3>1. Unregister(j) /\ row' = row /\ row[j].status = "ended"
        BY <1>0, <2>1, <2>2, <2>5, FinisherKnows DEF FinishNotFound, FinishRemove,
           Fileable, Row, Tables, Knows, KnowsOutcome
      <3>2. i = j
        BY <1>0, <3>1 DEF Unregister, Registered
      <3> QED  BY <3>1, <3>2
    <2>6. CASE FinishTier(a)
      BY <1>0, <2>6 DEF FinishTier, Registered, Session
    <2> QED  BY <1>1, <2>3, <2>4, <2>5, <2>6 DEF Finish
  <1>2. ASSUME NEW a \in Request, Continue(a) PROVE row'[i].status = "ended"
    <2>1. a \in Actor
      BY DEF Actor
    <2>2. CASE AddSession(a)
      <3>1. NoSession \in Session
        BY NoSummaryFields DEF NoSession, Session, Tier
      <3>2. PICK x : x = [NoSession EXCEPT !.life = "live", !.tier = req[a].tier]
        OBVIOUS
      <3>3. x.life = "live" /\ session' = [session EXCEPT ![req[a].ride] = x]
        BY <2>2, <3>1, <3>2 DEF AddSession, Session
      <3> QED  BY <1>0, <3>3 DEF Registered
    <2>3. CASE ApplyBatch(a)
      <3>1. PICK j \in Ride : j = req[a].ride
        BY <2>1, <2>3 DEF ApplyBatch, IInv, Knows, KnowsRides
      <3>2. PICK s \in Folded(session[j]) : session' = [session EXCEPT ![j] = s]
        BY <2>3, <3>1 DEF ApplyBatch
      <3>3. s.life # "absent"
        BY <1>0, <2>3, <3>1, FoldedFacts DEF ApplyBatch, Foldable, Live
      <3> QED  BY <1>0, <3>2, <3>3 DEF Registered
    <2>4. CASE Finish(a)
      BY <1>1, <2>1, <2>4
    <2> QED
      BY <1>2, <2>2, <2>3, <2>4 DEF Continue, GetRider, InsertRide, InsertConflict,
         StartFails, ApplyRefused, RecordRidePoints, RecordNotFound, RecordFails,
         Memory, Registered
  <1>3. ASSUME NEW a \in Request, NEW d \in Rider, StartRide(a, d)
        PROVE  row'[i].status = "ended"
    BY <1>3 DEF StartRide, Memory, Registered
  <1>4. ASSUME NEW a \in Request, NEW j \in Ride, EndRide(a, j) \/ Positions(a, j)
        PROVE  row'[i].status = "ended"
    BY <1>4 DEF EndRide, Positions, Memory, Registered
  <1>5. CASE Reap
    <2>1. PICK S \in SUBSET {j \in Ride : Live(j)} :
            session' = [j \in Ride |-> IF j \in S THEN EndedSession(session[j], "closed")
                                       ELSE session[j]]
      BY <1>5 DEF Reap
    <2>2. CASE i \in S
      <3>1. EndedSession(session[i], "closed").life = "ended"
        BY <1>0, <2>2, EndedSessionFacts DEF Live, Reason
      <3> QED  BY <2>1, <2>2, <3>1 DEF Registered
    <2>3. CASE i \notin S
      BY <2>1, <2>3 DEF Registered
    <2> QED  BY <2>2, <2>3
  <1>6. CASE Sweep
    <2>1. Reaper \in Actor
      BY DEF Actor
    <2> QED
      BY <1>1, <1>6, <2>1 DEF Sweep, SweepNext, SweepDone, Memory, Registered
  <1>7. CASE Restart
    BY <1>0, <1>7, SweptRows DEF Restart, Row
  <1>8. CASE SiblingStarts \/ UNCHANGED vars
    BY <1>8 DEF SiblingStarts, vars, Memory, Registered
  <1> QED  BY <1>2, <1>3, <1>5, <1>6, <1>7, <1>8, <1>4 DEF Next

\* A store that fails at any point of finishRide, and a process that dies in
\* it, never cost the ride its row.
THEOREM NoSessionIsDropped == Spec => NothingIsDropped
  <1>1. IInv /\ [Next]_vars =>
          [\A i \in Ride : Registered(i) /\ ~Registered(i)' => row'[i].status = "ended"]_vars
    BY OnlyEndedRidesLeave
  <1> QED  BY <1>1, RidesInvariant, PTL DEF Spec, NothingIsDropped

-----------------------------------------------------------------------------
(* A session against the record of its verdicts: dominantOutcome.          *)

\* A set of numbers that is not empty has a smallest one.
LEMMA LeastNumber ==
    ASSUME NEW S, S \subseteq Nat, S # {}
    PROVE  \E n \in S : \A m \in S : n <= m
  <1>1. PICK n \in S : \A m \in S : ~ (<<m, n>> \in OpToRel(<, Nat))
    BY NatLessThanWellFounded, WFMin, Zenon
  <1>2. \A m \in S : ~ (m < n)
    BY <1>1 DEF OpToRel
  <1> QED  BY <1>2

\* What the scan makes of point i, when b is its choice among the later ones.
ScanStep(run, i, b) ==
    IF i = Len(run) \/ Frequency(run, run[i]) > Frequency(run, b) THEN run[i] ELSE b

Scan(run, f) == \A i \in 1 .. Len(run) : f[i] = ScanStep(run, i, f[i + 1])

\* The scan over the last k + 1 points can be carried out.
PartScan(run, k) ==
    \E f \in [Len(run) - k .. Len(run) -> Failing] :
        \A i \in Len(run) - k .. Len(run) : f[i] = ScanStep(run, i, f[i + 1])

LEMMA ScanExists ==
    ASSUME NEW run \in Seq(Failing), run # <<>>
    PROVE  \E f \in [1 .. Len(run) -> Failing] : Scan(run, f)
  <1> DEFINE n == Len(run)
             Bad == {k \in 0 .. n - 1 : ~PartScan(run, k)}
  <1>1. n \in Nat \ {0} /\ \A i \in 1 .. n : run[i] \in Failing
    OBVIOUS
  <1>2. PartScan(run, 0)
    <2>1. PICK f : f = [i \in n .. n |-> run[n]]
      OBVIOUS
    <2> QED  BY <1>1, <2>1 DEF PartScan, ScanStep
  <1>3. ASSUME NEW k \in 0 .. n - 2, PartScan(run, k)
        PROVE  PartScan(run, k + 1)
    <2>1. PICK f \in [n - k .. n -> Failing] :
                 \A i \in n - k .. n : f[i] = ScanStep(run, i, f[i + 1])
      BY <1>3 DEF PartScan
    <2> DEFINE j == n - (k + 1)
    <2>2. PICK g : g = [i \in j .. n |-> IF i = j THEN ScanStep(run, j, f[n - k]) ELSE f[i]]
      OBVIOUS
    <2>3. ScanStep(run, j, f[n - k]) \in Failing
      BY <1>1, <2>1 DEF ScanStep
    <2>4. g \in [j .. n -> Failing]
      BY <1>1, <2>1, <2>2, <2>3
    <2>5. ASSUME NEW i \in j .. n PROVE g[i] = ScanStep(run, i, g[i + 1])
      <3>1. CASE i = j
        <4>1. g[i] = ScanStep(run, j, f[n - k]) /\ g[i + 1] = f[n - k]
          BY <1>1, <2>2, <3>1
        <4> QED  BY <4>1, <3>1
      <3>2. CASE i # j /\ i # n
        <4>1. g[i] = f[i] /\ g[i + 1] = f[i + 1] /\ i \in n - k .. n
          BY <1>1, <2>2, <3>2
        <4> QED  BY <4>1, <2>1
      <3>3. CASE i # j /\ i = n
        <4>1. g[i] = f[i] /\ f[i] = ScanStep(run, i, f[i + 1])
          BY <1>1, <2>1, <2>2, <3>3
        <4> QED  BY <4>1, <3>3 DEF ScanStep
      <3> QED  BY <3>1, <3>2, <3>3
    <2> QED  BY <2>4, <2>5 DEF PartScan
  <1>4. Bad = {}
    <2> SUFFICES ASSUME Bad # {} PROVE FALSE
      OBVIOUS
    <2>1. PICK k \in Bad : \A m \in Bad : k <= m
      <3>1. Bad \subseteq Nat
        OBVIOUS
      <3> HIDE DEF Bad
      <3> QED  BY <3>1, LeastNumber
    <2>2. k # 0
      BY <1>2, <2>1
    <2>3. k - 1 \in 0 .. n - 2 /\ k - 1 \notin Bad
      BY <1>1, <2>1, <2>2
    <2>4. PartScan(run, (k - 1) + 1)
      BY <1>3, <2>3
    <2> QED  BY <2>1, <2>4
  <1>5. PartScan(run, n - 1)
    BY <1>1, <1>4
  <1>6. PICK f \in [n - (n - 1) .. n -> Failing] :
               \A i \in n - (n - 1) .. n : f[i] = ScanStep(run, i, f[i + 1])
    BY <1>5 DEF PartScan
  <1>7. n - (n - 1) = 1
    BY <1>1
  <1> QED  BY <1>6, <1>7 DEF Scan

\* dominantOutcome is the choice of such a scan at the first point.
LEMMA DominantScans ==
    ASSUME NEW run \in Seq(Failing), run # <<>>
    PROVE  \E f : f = [i \in 1 .. Len(run) |-> ScanStep(run, i, f[i + 1])] /\ Dominant(run) = f[1]
  <1> DEFINE Best == CHOOSE f : f = [i \in 1 .. Len(run) |-> ScanStep(run, i, f[i + 1])]
  <1>1. PICK f \in [1 .. Len(run) -> Failing] : Scan(run, f)
    BY ScanExists
  <1>2. f = [i \in 1 .. Len(run) |-> ScanStep(run, i, f[i + 1])]
    BY <1>1 DEF Scan
  <1>3. Best = [i \in 1 .. Len(run) |-> ScanStep(run, i, Best[i + 1])]
    BY <1>2
  <1>4. Dominant(run) = Best[1]
    BY DEF Dominant, ScanStep
  <1> HIDE DEF Best
  <1> QED  BY <1>3, <1>4

LEMMA FrequencyIsNatural ==
    ASSUME NEW run \in Seq(Failing), NEW o
    PROVE  Frequency(run, o) \in Nat
  <1>1. {i \in DOMAIN run : run[i] = o} \in SUBSET (1 .. Len(run))
    OBVIOUS
  <1>2. IsFiniteSet(1 .. Len(run))
    BY FS_Interval
  <1>3. IsFiniteSet({i \in DOMAIN run : run[i] = o})
    BY <1>1, <1>2, FS_Subset
  <1> QED  BY <1>3, FS_CardinalityType DEF Frequency

\* x is the last place in the run from point i of its most frequent outcome o.
Dominates(run, i, x, o) ==
    /\ x \in i .. Len(run) /\ run[x] = o
    /\ \A y \in i .. Len(run) : /\ Frequency(run, run[y]) <= Frequency(run, o)
                                /\ y > x => Frequency(run, run[y]) < Frequency(run, o)

\* No outcome of the run is more frequent than the one it is blamed on, and one
\* that is as frequent is not seen after it.
LEMMA DominantDominates ==
    ASSUME NEW run \in Seq(Failing), run # <<>>
    PROVE  \E x \in DOMAIN run : Dominates(run, 1, x, Dominant(run))
  <1> DEFINE n == Len(run)
  <1>1. n \in Nat \ {0} /\ \A i \in 1 .. n : run[i] \in Failing
    OBVIOUS
  <1>2. PICK f : f = [i \in 1 .. n |-> ScanStep(run, i, f[i + 1])] /\ Dominant(run) = f[1]
    BY DominantScans
  <1> DEFINE Good(i) == \E x \in i .. n : Dominates(run, i, x, f[i])
             Bad == {k \in 0 .. n - 1 : ~Good(n - k)}
  <1>3. Good(n)
    BY <1>1, <1>2, FrequencyIsNatural DEF ScanStep, Dominates
  <1>4. ASSUME NEW i \in 1 .. n - 1, Good(i + 1) PROVE Good(i)
    <2>1. PICK x \in i + 1 .. n : Dominates(run, i + 1, x, f[i + 1])
      BY <1>4
    <2>2. /\ \A y \in 1 .. n : Frequency(run, run[y]) \in Nat
          /\ Frequency(run, f[i + 1]) \in Nat /\ x \in i .. n /\ i # n
          /\ f[i] = ScanStep(run, i, f[i + 1])
      BY <1>1, <1>2, FrequencyIsNatural
    <2>3. CASE Frequency(run, run[i]) > Frequency(run, f[i + 1])
      <3>1. f[i] = run[i]
        BY <2>2, <2>3 DEF ScanStep
      <3>2. ASSUME NEW y \in i .. n
            PROVE  /\ Frequency(run, run[y]) <= Frequency(run, f[i])
                   /\ y > i => Frequency(run, run[y]) < Frequency(run, f[i])
        <4>1. y \in 1 .. n /\ (y = i \/ y \in i + 1 .. n)
          BY <1>1
        <4>2. y # i => Frequency(run, run[y]) <= Frequency(run, f[i + 1])
          BY <4>1, <2>1 DEF Dominates
        <4>3. CASE y \in i + 1 .. n
          <5>1. y # i /\ y \in 1 .. n
            BY <4>3, <1>1
          <5>2. /\ Frequency(run, run[y]) \in Nat /\ Frequency(run, run[i]) \in Nat
                /\ Frequency(run, run[y]) <= Frequency(run, f[i + 1])
            BY <5>1, <4>2, <2>2
          <5> QED  BY <5>2, <3>1, <2>2, <2>3
        <4>4. CASE y = i
          <5>1. run[y] = f[i]
            BY <4>4, <3>1
          <5>2. Frequency(run, run[y]) \in Nat
            BY <4>1, <2>2
          <5>3. ~ (y > i)
            BY <4>4, <1>1
          <5> QED  BY <5>1, <5>2, <5>3
        <4> QED  BY <4>1, <4>3, <4>4
      <3> QED  BY <1>1, <3>1, <3>2 DEF Dominates
    <2>4. CASE ~ (Frequency(run, run[i]) > Frequency(run, f[i + 1]))
      <3>1. f[i] = f[i + 1]
        BY <2>2, <2>4 DEF ScanStep
      <3>2. ASSUME NEW y \in i .. n
            PROVE  /\ Frequency(run, run[y]) <= Frequency(run, f[i])
                   /\ y > x => Frequency(run, run[y]) < Frequency(run, f[i])
        <4>1. y \in 1 .. n /\ (y = i \/ y \in i + 1 .. n)
          BY <1>1
        <4>2. CASE y \in i + 1 .. n
          BY <4>2, <3>1, <2>1 DEF Dominates
        <4>3. CASE y = i
          BY <4>3, <4>1, <3>1, <2>2, <2>4
        <4> QED  BY <4>1, <4>2, <4>3
      <3> QED  BY <1>1, <3>1, <3>2, <2>1, <2>2 DEF Dominates
    <2> QED  BY <2>3, <2>4
  <1>5. Bad = {}
    <2> SUFFICES ASSUME Bad # {} PROVE FALSE
      OBVIOUS
    <2>1. PICK k \in Bad : \A m \in Bad : k <= m
      <3>1. Bad \subseteq Nat
        OBVIOUS
      <3> HIDE DEF Bad
      <3> QED  BY <3>1, LeastNumber
    <2>2. k # 0
      BY <1>1, <1>3, <2>1
    <2>3. n - k \in 1 .. n - 1 /\ n - (k - 1) = (n - k) + 1 /\ k - 1 \in 0 .. n - 1
      BY <1>1, <2>1, <2>2
    <2>4. k - 1 \notin Bad
      <3>1. ~ (k <= k - 1)
        BY <1>1, <2>1
      <3> HIDE DEF Bad
      <3> QED  BY <3>1, <2>1
    <2>5. Good((n - k) + 1)
      <3> HIDE DEF Good
      <3> QED  BY <2>3, <2>4
    <2>6. Good(n - k)
      <3> HIDE DEF Good
      <3> QED  BY <1>4, <2>3, <2>5
    <2> QED  BY <2>1, <2>6
  <1>6. Good(1)
    <2>1. n - 1 \in 0 .. n - 1 /\ n - (n - 1) = 1
      BY <1>1
    <2> HIDE DEF Good
    <2> QED  BY <1>5, <2>1
  <1> QED  BY <1>1, <1>2, <1>6

LastOf(s) == CHOOSE x \in s : \A y \in s : y <= x

\* What Blamed asks of the outcome it chooses.
BlamedOutcome(i, o) ==
    /\ Occurrences(i, o) # {}
    /\ \A p \in Failing \ {o} :
         \/ Cardinality(Occurrences(i, p)) < Cardinality(Occurrences(i, o))
         \/ /\ Cardinality(Occurrences(i, p)) = Cardinality(Occurrences(i, o))
            /\ \A y \in Occurrences(i, p) : y < LastOf(Occurrences(i, o))

\* The run in the session is the end of the record, so their outcomes occur as
\* often, and one place is before another in both.
LEMMA SameOccurrences ==
    ASSUME log \in Seq(Verdict), nonMatched \in Seq(Failing), Len(nonMatched) = RejectStreak,
           Len(nonMatched) <= Len(log),
           \A x \in DOMAIN nonMatched : log[Len(log) - Len(nonMatched) + x].outcome = nonMatched[x],
           NEW o
    PROVE  /\ \A x \in DOMAIN nonMatched :
                Len(log) - RejectStreak + x \in Occurrences(Len(log), o) <=> nonMatched[x] = o
           /\ \A j \in Occurrences(Len(log), o) :
                j - (Len(log) - RejectStreak) \in DOMAIN nonMatched
           /\ Occurrences(Len(log), o) \subseteq Nat
           /\ IsFiniteSet(Occurrences(Len(log), o))
           /\ Cardinality(Occurrences(Len(log), o)) = Frequency(nonMatched, o)
  <1> DEFINE n == Len(log)
             r == RejectStreak
             X == {x \in DOMAIN nonMatched : nonMatched[x] = o}
             Y == Occurrences(n, o)
  <1>1. n \in Nat /\ r \in Nat \ {0} /\ r <= n /\ DOMAIN nonMatched = 1 .. r
    BY SessionAssumption
  <1>2. Y = {j \in n - r + 1 .. n : log[j].outcome = o}
    BY DEF Occurrences, Window, Is
  <1>3. \A x \in 1 .. r : n - r + x \in Y <=> nonMatched[x] = o
    BY <1>1, <1>2
  <1>4. \A j \in Y : j - (n - r) \in 1 .. r /\ n - r + (j - (n - r)) = j /\ j \in Nat
    BY <1>1, <1>2
  <1>5. IsFiniteSet(X)
    <2>1. IsFiniteSet(1 .. r)
      <3>1. r \in Int
        BY <1>1
      <3> HIDE DEF r
      <3> QED  BY <3>1, FS_Interval
    <2>2. X \in SUBSET (1 .. r)
      BY <1>1
    <2> QED  BY <2>1, <2>2, FS_Subset
  <1>6. PICK f : f = [x \in X |-> n - r + x]
    OBVIOUS
  <1>7. f \in Bijection(X, Y)
    <2> HIDE DEF Y
    <2>1. \A x \in X : f[x] \in Y
      BY <1>1, <1>3, <1>6
    <2>2. \A x, z \in X : f[x] = f[z] => x = z
      BY <1>1, <1>6
    <2>3. ASSUME NEW j \in Y PROVE \E x \in X : f[x] = j
      <3>1. j - (n - r) \in X
        BY <1>1, <1>3, <1>4
      <3> QED  BY <3>1, <1>4, <1>6
    <2> QED  BY <1>6, <2>1, <2>2, <2>3 DEF Bijection, Injection, Surjection, IsInjective
  <1>8. IsFiniteSet(Y) /\ Cardinality(Y) = Cardinality(X)
    BY <1>5, <1>7, FS_Bijection DEF ExistsBijection
  <1> QED  BY <1>1, <1>3, <1>4, <1>8 DEF Frequency

LEMMA LastOfSet ==
    ASSUME NEW s, s \subseteq Nat, NEW j \in s, \A y \in s : y <= j
    PROVE  LastOf(s) = j
  <1> SUFFICES ASSUME NEW x \in s, \A y \in s : y <= x PROVE x = j
    BY DEF LastOf
  <1> QED  OBVIOUS

\* What the session blames a run on is what the record shows of it.
LEMMA DominantIsBlamed ==
    ASSUME log \in Seq(Verdict), nonMatched \in Seq(Failing), Len(nonMatched) = RejectStreak,
           Len(nonMatched) <= Len(log),
           \A x \in DOMAIN nonMatched : log[Len(log) - Len(nonMatched) + x].outcome = nonMatched[x]
    PROVE  Dominant(nonMatched) \in Failing /\ Dominant(nonMatched) = Blamed(Len(log))
  <1> DEFINE n == Len(log)
             r == RejectStreak
             d == Dominant(nonMatched)
             Occ(o) == Occurrences(n, o)
             K(o) == Cardinality(Occ(o))
  <1>1. /\ n \in Nat /\ r \in Nat \ {0} /\ r <= n /\ DOMAIN nonMatched = 1 .. r
        /\ \A x \in 1 .. r : nonMatched[x] \in Failing
        /\ nonMatched # <<>>
    BY SessionAssumption
  <1>2. \A o : /\ \A x \in 1 .. r : n - r + x \in Occ(o) <=> nonMatched[x] = o
               /\ \A j \in Occ(o) : j - (n - r) \in 1 .. r
               /\ Occ(o) \subseteq Nat
               /\ K(o) = Frequency(nonMatched, o)
               /\ K(o) \in Nat
    <2> TAKE o
    <2>1. K(o) = Frequency(nonMatched, o) /\ Frequency(nonMatched, o) \in Nat
      BY SameOccurrences, FrequencyIsNatural
    <2>2. /\ \A x \in DOMAIN nonMatched : n - r + x \in Occ(o) <=> nonMatched[x] = o
          /\ \A j \in Occ(o) : j - (n - r) \in DOMAIN nonMatched
          /\ Occ(o) \subseteq Nat
      BY SameOccurrences
    <2> HIDE DEF Occ
    <2> QED  BY <1>1, <2>1, <2>2
  <1>3. PICK x \in 1 .. r : Dominates(nonMatched, 1, x, d)
    BY <1>1, DominantDominates
  <1>4. /\ nonMatched[x] = d /\ d \in Failing
        /\ \A y \in 1 .. r : /\ Frequency(nonMatched, nonMatched[y]) <= Frequency(nonMatched, d)
                             /\ y > x => Frequency(nonMatched, nonMatched[y]) < Frequency(nonMatched, d)
    BY <1>1, <1>3 DEF Dominates
  <1> HIDE DEF d, K, Occ
  <1>5. ASSUME NEW o, NEW j \in Occ(o)
        PROVE  \E y \in 1 .. r : j = n - r + y /\ nonMatched[y] = o
    <2>1. j - (n - r) \in 1 .. r /\ j \in Nat /\ n - r + (j - (n - r)) = j
      BY <1>1, <1>2
    <2> QED  BY <1>2, <2>1
  <1>6. LastOf(Occ(d)) = n - r + x /\ Occ(d) # {}
    <2>1. n - r + x \in Occ(d)
      BY <1>2, <1>4
    <2>2. ASSUME NEW j \in Occ(d) PROVE j <= n - r + x
      <3>1. PICK y \in 1 .. r : j = n - r + y /\ nonMatched[y] = d
        BY <1>5
      <3>2. ~ (y > x)
        BY <1>2, <1>4, <3>1
      <3> QED  BY <1>1, <3>1, <3>2
    <2> QED  BY <1>2, <2>1, <2>2, LastOfSet
  <1>7. ASSUME NEW p \in Failing \ {d}
        PROVE  \/ K(p) < K(d)
               \/ K(p) = K(d) /\ \A j \in Occ(p) : j < LastOf(Occ(d))
    <2>1. CASE Occ(p) = {}
      <3>1. K(p) = 0
        BY <2>1, FS_EmptySet DEF K
      <3>2. Frequency(nonMatched, d) # 0
        <4>1. x \in {y \in DOMAIN nonMatched : nonMatched[y] = d}
          BY <1>1, <1>4
        <4>2. IsFiniteSet({y \in DOMAIN nonMatched : nonMatched[y] = d})
          <5>1. IsFiniteSet(1 .. r)
            BY <1>1, FS_Interval
          <5> QED  BY <5>1, <1>1, FS_Subset
        <4> QED  BY <4>1, <4>2, FS_EmptySet DEF Frequency
      <3> QED  BY <1>2, <3>1, <3>2
    <2>2. CASE Occ(p) # {}
      <3>1. PICK y \in 1 .. r : nonMatched[y] = p
        BY <1>5, <2>2
      <3>2. K(p) <= K(d)
        BY <1>2, <1>4, <3>1
      <3>3. ASSUME K(p) = K(d), NEW j \in Occ(p) PROVE j < LastOf(Occ(d))
        <4>1. PICK z \in 1 .. r : j = n - r + z /\ nonMatched[z] = p
          BY <1>5
        <4>2. ~ (z > x) /\ z # x
          <5>1. Frequency(nonMatched, nonMatched[z]) = Frequency(nonMatched, d)
            BY <1>2, <3>3, <4>1
          <5>2. Frequency(nonMatched, d) \in Nat
            BY FrequencyIsNatural
          <5> QED  BY <1>4, <4>1, <5>1, <5>2
        <4> QED  BY <1>1, <1>6, <4>1, <4>2
      <3> QED  BY <1>2, <3>2, <3>3
    <2> QED  BY <2>1, <2>2
  <1>8. BlamedOutcome(n, d)
    BY <1>6, <1>7 DEF BlamedOutcome, K, Occ
  <1>9. ASSUME NEW o \in Failing, BlamedOutcome(n, o) PROVE o = d
    <2> SUFFICES ASSUME o # d PROVE FALSE
      OBVIOUS
    <2>1. \/ K(o) < K(d)
          \/ K(o) = K(d) /\ \A j \in Occ(o) : j < LastOf(Occ(d))
      BY <1>7
    <2>2. /\ Occ(o) # {}
          /\ \/ K(d) < K(o)
             \/ K(d) = K(o) /\ \A j \in Occ(d) : j < LastOf(Occ(o))
      BY <1>4, <1>9 DEF BlamedOutcome, K, Occ
    <2>3. n - r + x \in Occ(d) /\ \A j \in Occ(o) : j < n - r + x
      <3>1. K(o) \in Nat /\ K(d) \in Nat
        BY <1>2
      <3>2. \A j \in Occ(o) : j < LastOf(Occ(d))
        BY <2>1, <2>2, <3>1
      <3> QED  BY <1>2, <1>4, <1>6, <3>2
    <2>4. n - r + x < LastOf(Occ(o)) 
      <3>1. K(o) \in Nat /\ K(d) \in Nat
        BY <1>2
      <3>2. \A j \in Occ(d) : j < LastOf(Occ(o))
        BY <2>1, <2>2, <3>1
      <3> QED  BY <2>3, <3>2
    <2>5. LastOf(Occ(o)) \in Occ(o)
      <3>1. \A j \in Occ(o) : j \in Nat /\ n - r + x - j \in Nat
        BY <1>1, <1>2, <2>3
      <3>2. PICK k \in {n - r + x - j : j \in Occ(o)} : \A m \in {n - r + x - j : j \in Occ(o)} : k <= m
        <4>1. {n - r + x - j : j \in Occ(o)} \subseteq Nat /\ {n - r + x - j : j \in Occ(o)} # {}
          BY <2>2, <3>1
        <4> QED  BY <4>1, LeastNumber
      <3>3. PICK j \in Occ(o) : k = n - r + x - j
        BY <3>2
      <3>4. \A i \in Occ(o) : i <= j
        <4> TAKE i \in Occ(o)
        <4>1. k <= n - r + x - i
          BY <3>2
        <4>2. i \in Nat /\ j \in Nat
          BY <3>1
        <4> QED  BY <1>1, <3>3, <4>1, <4>2
      <3> QED  BY <1>2, <3>4, LastOfSet
    <2> QED  BY <1>1, <1>2, <2>3, <2>4, <2>5
  <1>10. Blamed(n) = CHOOSE o \in Failing : BlamedOutcome(n, o)
    BY DEF Blamed, BlamedOutcome, LastOf
  <1> QED  BY <1>4, <1>8, <1>9, <1>10 DEF d

-----------------------------------------------------------------------------
(* The invariant: the counters amount to the end of the record.            *)

ClockOK ==
    /\ now \in Time /\ latest \in Time
    /\ latestMatched \in 0 .. latest /\ firstMatched \in 0 .. latestMatched
    /\ \A i \in Points : log[i].at <= latest
    /\ \A i, j \in Points : i < j => log[i].at < log[j].at
    /\ \A i \in Points : Matched(i) => log[i].at <= latestMatched
    /\ latestMatched # 0 => \E i \in Points : Matched(i) /\ log[i].at = latestMatched

CountsOK ==
    /\ counts.total \in 0 .. latest
    /\ counts.matched \in 0 .. counts.total
    /\ counts.corroborated \in Nat /\ counts.contradicted \in Nat
    /\ counts.corroborated + counts.contradicted <= counts.matched
    /\ counts.matched = 0 => latestMatched = 0

StreaksOK ==
    LET n == Len(log) IN
    /\ matchStreak \in 0 .. n /\ matchStreak <= counts.matched
    /\ \A i \in Points : i > n - matchStreak => Matched(i)
    /\ matchStreak < n => ~Matched(n - matchStreak)
    /\ nonMatched \in Seq(Failing) /\ Len(nonMatched) <= n
    /\ \A x \in DOMAIN nonMatched : log[n - Len(nonMatched) + x].outcome = nonMatched[x]
    /\ Len(nonMatched) < n => Matched(n - Len(nonMatched))
    /\ IsFiniteSet(Standing(n)) /\ contradictions = Cardinality(Standing(n))

\* The point that rejects the ride is the first such one.
Rejecting(i) == FailedAt(i) \/ ContradictedAt(i)

StateOK ==
    LET n == Len(log) IN
    /\ state \in {"pending", "verified", "rejected"}
    /\ reason \in Rejections \cup {"", "closed"}
    /\ tier \in Tiers
    /\ \A i \in Points : i < n => ~Rejecting(i)
    /\ state = "rejected" <=> n # 0 /\ Rejecting(n)
    /\ state = "rejected" <=> reason \in Rejections
    /\ state # "rejected" => (state = "verified" <=> RunOfMatched(VerifyStreak))
    /\ Len(nonMatched) <= RejectStreak /\ contradictions <= ContradictStreak
    /\ state = "rejected" =>
         reason = IF ContradictedAt(n) THEN "contradicted" ELSE Dominant(nonMatched)

SessionInv ==
    /\ log \in Seq(Verdict)
    /\ counts \in [total : Nat, matched : Nat, corroborated : Nat, contradicted : Nat]
    /\ ClockOK /\ CountsOK /\ StreaksOK /\ StateOK

-----------------------------------------------------------------------------
(* What one more verdict does to the record.                               *)

\* A record that grows by one verdict.
Recorded(v) == log' = Append(log, v)

LEMMA RecordGrows ==
    ASSUME log \in Seq(Verdict), NEW v \in Verdict, Recorded(v)
    PROVE  /\ log' \in Seq(Verdict) /\ Len(log) \in Nat /\ Len(log') = Len(log) + 1
           /\ Points = 1 .. Len(log) /\ Points' = 1 .. Len(log) + 1
           /\ \A i \in 1 .. Len(log) : log'[i] = log[i]
           /\ log'[Len(log) + 1] = v
  BY DEF Recorded, Points

\* A further verdict changes nothing that the record showed before it.
LEMMA EarlierStands ==
    ASSUME log \in Seq(Verdict), NEW v \in Verdict, Recorded(v), NEW i \in 0 .. Len(log)
    PROVE  /\ FailedAt(i)' <=> FailedAt(i)
           /\ Standing(i)' = Standing(i)
           /\ ContradictedAt(i)' <=> ContradictedAt(i)
           /\ \A n \in Nat : Window(i, n) \subseteq {j \in Points : Matched(j)}'
                               <=> Window(i, n) \subseteq {j \in Points : Matched(j)}
  <1>1. /\ Len(log) \in Nat /\ Points = 1 .. Len(log) /\ Points' = 1 .. Len(log) + 1
        /\ \A j \in 1 .. Len(log) : log'[j] = log[j]
    BY RecordGrows
  <1>2. RejectStreak \in Nat
    BY SessionAssumption
  <1>3. \A j \in 1 .. i : j \in 1 .. Len(log)
    BY <1>1
  <1>4. Standing(i)' = Standing(i)
    BY <1>1, <1>3 DEF Standing
  <1>5. ASSUME NEW n \in Nat, NEW j \in Window(i, n)
        PROVE  /\ j \in Points' /\ Matched(j)' <=> j \in Points /\ Matched(j)
               /\ j \in Points' /\ ~Matched(j)' <=> j \in Points /\ ~Matched(j)
    BY <1>1 DEF Window, Matched, Is
  <1>6. FailedAt(i)' <=> FailedAt(i)
    BY <1>2, <1>5 DEF FailedAt
  <1> QED  BY <1>4, <1>5, <1>6 DEF ContradictedAt

\* What one more verdict does to the contradictions that stand.
LEMMA StandingGrows ==
    ASSUME log \in Seq(Verdict), NEW v \in Verdict, Recorded(v),
           NEW n, n = Len(log), IsFiniteSet(Standing(n))
    PROVE  LET s == Standing(n)
               t == Standing(n + 1)'
           IN /\ IsFiniteSet(t)
              /\ v.corroboration = "contradicted" => Cardinality(t) = Cardinality(s) + 1
              /\ v.corroboration = "corroborated" => Cardinality(t) = 0
              /\ v.corroboration = "none" => Cardinality(t) = Cardinality(s)
  <1> DEFINE s == Standing(n)
             t == Standing(n + 1)'
  <1>1. /\ n \in Nat /\ \A j \in 1 .. n : log'[j] = log[j]
        /\ log'[n + 1] = v
    BY RecordGrows
  <1>2. CASE v.corroboration = "contradicted"
    <2>1. t = s \cup {n + 1}
      <3>1. ASSUME NEW j \in 1 .. n + 1 PROVE j \in t <=> j \in s \cup {n + 1}
        <4>1. CASE j = n + 1
          <5>1. \A k \in j .. n + 1 : log'[k] = v
            BY <1>1, <4>1
          <5> QED  BY <1>1, <1>2, <4>1, <5>1 DEF Standing
        <4>2. CASE j # n + 1
          <5>1. j \in 1 .. n /\ log'[j] = log[j] /\ n + 1 \in j .. n + 1
            BY <1>1, <4>2
          <5>2. ASSUME NEW k \in j .. n + 1
                PROVE  k = n + 1 \/ (k \in j .. n /\ log'[k] = log[k])
            <6>1. k = n + 1 \/ (k \in 1 .. n /\ k \in j .. n)
              BY <1>1, <5>1
            <6> QED  BY <6>1, <1>1
          <5> QED  BY <1>1, <1>2, <5>1, <5>2 DEF Standing
        <4> QED  BY <4>1, <4>2
      <3> QED  BY <1>1, <3>1 DEF Standing
    <2>2. n + 1 \notin s
      BY <1>1 DEF Standing
    <2> HIDE DEF s, t
    <2>3. IsFiniteSet(s)
      BY DEF s
    <2>4. IsFiniteSet(t) /\ Cardinality(t) = Cardinality(s) + 1
      BY <2>1, <2>2, <2>3, FS_AddElement
    <2> QED  BY <1>2, <2>4 DEF s, t
  <1>3. CASE v.corroboration = "corroborated"
    <2>1. t = {}
      <3>1. \A j \in 1 .. n + 1 : n + 1 \in j .. n + 1
        BY <1>1
      <3> QED  BY <1>1, <1>3, <3>1 DEF Standing
    <2> QED  BY <1>3, <2>1, FS_EmptySet
  <1>4. CASE v.corroboration = "none"
    <2>1. ASSUME NEW j \in 1 .. n + 1 PROVE j \in t <=> j \in s
      <3>1. CASE j = n + 1
        BY <1>1, <1>4, <3>1 DEF Standing
      <3>2. CASE j # n + 1
        <4>1. j \in 1 .. n /\ log'[j] = log[j] /\ n + 1 \in j .. n + 1
          BY <1>1, <3>2
        <4>2. ASSUME NEW k \in j .. n + 1
              PROVE  k = n + 1 \/ (k \in j .. n /\ log'[k] = log[k])
          <5>1. k = n + 1 \/ (k \in 1 .. n /\ k \in j .. n)
            BY <1>1, <4>1
          <5> QED  BY <5>1, <1>1
        <4> QED  BY <1>1, <1>4, <4>1, <4>2 DEF Standing
      <3> QED  BY <3>1, <3>2
    <2>2. t = s
      BY <1>1, <2>1 DEF Standing
    <2> QED  BY <1>4, <2>2
  <1> QED  BY <1>2, <1>3, <1>4 DEF Verdict, Corroboration

\* The streaks say whether the record ends with such a run.
StreaksTell ==
    LET n == Len(log) IN
    /\ FailedAt(n) <=> Len(nonMatched) >= RejectStreak
    /\ ContradictedAt(n) <=> contradictions >= ContradictStreak
    /\ Window(n, VerifyStreak) \subseteq {j \in Points : Matched(j)}
         <=> matchStreak >= VerifyStreak

LEMMA StreaksTellNow ==
    log \in Seq(Verdict) /\ StreaksOK /\ counts.matched \in Nat => StreaksTell
  <1> SUFFICES ASSUME log \in Seq(Verdict), StreaksOK, counts.matched \in Nat
               PROVE  StreaksTell
    OBVIOUS
  <1> DEFINE n == Len(log)
             k == Len(nonMatched)
  <1>1. /\ n \in Nat /\ Points = 1 .. n /\ k \in Nat /\ DOMAIN nonMatched = 1 .. k
        /\ matchStreak \in 0 .. n /\ k <= n
        /\ RejectStreak \in Nat \ {0} /\ VerifyStreak \in Nat \ {0}
        /\ \A x \in 1 .. k : nonMatched[x] \in Failing
    BY SessionAssumption DEF StreaksOK, Points
  <1>2. ContradictedAt(n) <=> contradictions >= ContradictStreak
    BY DEF ContradictedAt, StreaksOK
  <1>3. ASSUME k >= RejectStreak PROVE FailedAt(n)
    <2>1. ASSUME NEW j \in n - RejectStreak + 1 .. n PROVE j \in Points /\ ~Matched(j)
      <3>1. j - (n - k) \in 1 .. k /\ n - k + (j - (n - k)) = j /\ j \in 1 .. n
        BY <1>1, <1>3
      <3>2. log[j].outcome \in Failing
        BY <1>1, <3>1 DEF StreaksOK
      <3> QED  BY <1>1, <3>1, <3>2 DEF Matched, Is, Failing
    <2> QED  BY <2>1 DEF FailedAt, Window
  <1>4. ASSUME FailedAt(n) PROVE k >= RejectStreak
    <2> SUFFICES ASSUME k < RejectStreak PROVE FALSE
      BY <1>1
    <2>1. n - k \in n - RejectStreak + 1 .. n
      BY <1>1
    <2>2. n - k \in Points /\ ~Matched(n - k)
      BY <1>4, <2>1 DEF FailedAt, Window
    <2> QED  BY <1>1, <2>2 DEF StreaksOK
  <1>5. ASSUME matchStreak >= VerifyStreak
        PROVE  Window(n, VerifyStreak) \subseteq {j \in Points : Matched(j)}
    <2>1. ASSUME NEW j \in n - VerifyStreak + 1 .. n PROVE j \in Points /\ Matched(j)
      <3>1. j \in 1 .. n /\ j > n - matchStreak
        BY <1>1, <1>5
      <3> QED  BY <1>1, <3>1 DEF StreaksOK
    <2> QED  BY <2>1 DEF Window
  <1>6. ASSUME Window(n, VerifyStreak) \subseteq {j \in Points : Matched(j)}
        PROVE  matchStreak >= VerifyStreak
    <2> SUFFICES ASSUME matchStreak < VerifyStreak PROVE FALSE
      BY <1>1
    <2>1. n - matchStreak \in n - VerifyStreak + 1 .. n
      BY <1>1
    <2>2. n - matchStreak \in Points /\ Matched(n - matchStreak)
      BY <1>6, <2>1 DEF Window
    <2> QED  BY <1>1, <2>2 DEF StreaksOK
  <1> QED  BY <1>2, <1>3, <1>4, <1>5, <1>6 DEF StreaksTell

LEMMA StreaksTellNext ==
    (log \in Seq(Verdict) /\ StreaksOK /\ counts.matched \in Nat)' => StreaksTell'
  BY StreaksTellNow, PTL

-----------------------------------------------------------------------------
(* Every step preserves the invariant.                                     *)

\* The session before its first verdict.
LEMMA SessionInitial == InitLog => SessionInv
  <1> SUFFICES ASSUME InitLog PROVE SessionInv
    OBVIOUS
  <1>1. log = <<>> /\ Len(log) = 0 /\ Points = {} /\ Standing(0) = {}
    BY DEF InitLog, Points, Standing
  <1>2. now = 1 /\ latest = 0 /\ latestMatched = 0 /\ firstMatched = 0
    BY DEF InitLog, SessionInit
  <1>3. /\ counts.total = 0 /\ counts.matched = 0
        /\ counts.corroborated = 0 /\ counts.contradicted = 0
    BY DEF InitLog, SessionInit
  <1>4. matchStreak = 0 /\ contradictions = 0
    BY DEF InitLog, SessionInit
  <1>5. nonMatched \in Seq(Failing) /\ Len(nonMatched) = 0 /\ DOMAIN nonMatched = {}
    <2>1. <<>> \in Seq(Failing) /\ Len(<<>>) = 0 /\ DOMAIN <<>> = {}
      OBVIOUS
    <2>2. nonMatched = <<>>
      BY DEF InitLog, SessionInit
    <2> QED  BY <2>1, <2>2
  <1>6. ClockOK
    <2>1. MaxTime \in Nat \ {0}
      BY SessionAssumption
    <2>2. now \in Time /\ latest \in Time
      BY <1>2, <2>1 DEF Time
    <2>3. latestMatched \in 0 .. latest /\ firstMatched \in 0 .. latestMatched
      BY <1>2
    <2> QED  BY <1>1, <1>2, <2>2, <2>3 DEF ClockOK
  <1>7. CountsOK
    BY <1>2, <1>3 DEF CountsOK
  <1>8. StreaksOK
    <2>1. IsFiniteSet(Standing(0)) /\ Cardinality(Standing(0)) = 0
      BY <1>1, FS_EmptySet
    <2>2. 0 \in 0 .. 0 /\ ~ (0 < 0) /\ 0 <= 0
      OBVIOUS
    <2> QED  BY <1>1, <1>3, <1>4, <1>5, <2>1, <2>2 DEF StreaksOK
  <1>9. StateOK
    <2>1. ~RunOfMatched(VerifyStreak)
      BY <1>1 DEF RunOfMatched
    <2>2. Len(nonMatched) <= RejectStreak /\ contradictions <= ContradictStreak
      BY <1>4, <1>5, SessionAssumption
    <2>3. /\ reason \notin Rejections /\ reason \in Rejections \cup {"", "closed"}
          /\ state = "pending" /\ tier \in Tiers
      BY DEF InitLog, SessionInit, Rejections, Failing
    <2> QED  BY <1>1, <2>1, <2>2, <2>3 DEF StateOK
  <1>10. /\ log \in Seq(Verdict)
         /\ counts \in [total : Nat, matched : Nat, corroborated : Nat, contradicted : Nat]
    <2>1. <<>> \in Seq(Verdict)
      OBVIOUS
    <2> QED  BY <1>1, <2>1 DEF InitLog, SessionInit
  <1> QED
    BY <1>6, <1>7, <1>8, <1>9, <1>10 DEF SessionInv

\* A verdict that is folded in.
Accepts(v) ==
    \/ ApplyMatched(v.at, v.corroboration) /\ v.outcome = "matched"
    \/ ApplyNonMatched(v.at, v.outcome) /\ v.outcome \in Failing /\ v.corroboration = "none"

LEMMA ClockKept ==
    ASSUME SessionInv, NEW v \in Verdict, Accepts(v), Recorded(v)
    PROVE  ClockOK'
  <1> DEFINE n == Len(log)
  <1>1. /\ n \in Nat /\ Points = 1 .. n /\ Points' = 1 .. n + 1
        /\ \A i \in 1 .. n : log'[i] = log[i] /\ log[i].at \in Nat
        /\ log'[n + 1] = v
    <2>1. \A i \in 1 .. n : log[i] \in Verdict
      BY DEF SessionInv
    <2>2. \A w \in Verdict : w.at \in Nat
      BY DEF Verdict
    <2> QED  BY <2>1, <2>2, RecordGrows DEF SessionInv
  <1>2. /\ v.at \in 1 .. MaxTime /\ v.at > latest /\ latest' = v.at /\ now' = now
        /\ latest \in Nat /\ latestMatched \in 0 .. latest /\ firstMatched \in 0 .. latestMatched
        /\ MaxTime \in Nat
    BY SessionAssumption
    DEF SessionInv, ClockOK, Verdict, Accepts, ApplyMatched, ApplyNonMatched, Newer, Time
  <1>3. ASSUME NEW i \in Points' PROVE log'[i].at <= latest' /\ log'[i].at \in Nat
    <2>1. CASE i = n + 1
      BY <1>1, <1>2, <2>1
    <2>2. CASE i # n + 1
      <3>1. i \in 1 .. n /\ log[i].at <= latest
        BY <1>1, <2>2 DEF SessionInv, ClockOK
      <3> QED  BY <1>1, <1>2, <3>1
    <2> QED  BY <2>1, <2>2
  <1>4. ASSUME NEW i \in Points', NEW j \in Points', i < j
        PROVE  log'[i].at < log'[j].at
    <2>1. CASE j = n + 1
      <3>1. i \in 1 .. n /\ log[i].at <= latest
        BY <1>1, <1>4, <2>1 DEF SessionInv, ClockOK
      <3> QED  BY <1>1, <1>2, <2>1, <3>1
    <2>2. CASE j # n + 1
      <3>1. i \in 1 .. n /\ j \in 1 .. n
        BY <1>1, <1>4, <2>2
      <3> QED  BY <1>1, <1>4, <3>1 DEF SessionInv, ClockOK
    <2> QED  BY <2>1, <2>2
  <1>5. CASE ApplyMatched(v.at, v.corroboration) /\ v.outcome = "matched"
    <2>1. /\ latestMatched' = v.at
          /\ firstMatched' = IF counts.matched = 0 THEN v.at ELSE firstMatched
      BY <1>5 DEF ApplyMatched
    <2>2. firstMatched' \in 0 .. latestMatched'
      BY <1>2, <2>1
    <2>3. \A i \in Points' : log'[i].at <= latestMatched'
      BY <1>2, <1>3, <2>1
    <2>4. \E i \in Points' : Matched(i)' /\ log'[i].at = latestMatched'
      <3>1. n + 1 \in Points' /\ log'[n + 1].at = latestMatched' /\ log'[n + 1].outcome = "matched"
        BY <1>1, <1>5, <2>1
      <3> QED  BY <3>1 DEF Matched, Is
    <2> QED
      BY <1>2, <1>3, <1>4, <2>1, <2>2, <2>3, <2>4 DEF SessionInv, ClockOK, Time
  <1>6. CASE ApplyNonMatched(v.at, v.outcome) /\ v.outcome \in Failing
    <2>1. latestMatched' = latestMatched /\ firstMatched' = firstMatched
      BY <1>6 DEF ApplyNonMatched
    <2>2. ASSUME NEW i \in Points' PROVE Matched(i)' <=> (i \in 1 .. n /\ Matched(i))
      BY <1>1, <1>6 DEF Matched, Is, Failing
    <2>3. \A i \in Points' : Matched(i)' => log'[i].at <= latestMatched'
      BY <1>1, <2>1, <2>2 DEF SessionInv, ClockOK
    <2>4. latestMatched' # 0 => \E i \in Points' : Matched(i)' /\ log'[i].at = latestMatched'
      BY <1>1, <2>1, <2>2 DEF SessionInv, ClockOK
    <2> QED
      BY <1>2, <1>3, <1>4, <2>1, <2>3, <2>4 DEF SessionInv, ClockOK, Time
  <1> QED  BY <1>5, <1>6 DEF Accepts

LEMMA CountsKept ==
    ASSUME SessionInv, NEW v \in Verdict, Accepts(v)
    PROVE  /\ CountsOK'
           /\ counts' \in [total : Nat, matched : Nat, corroborated : Nat, contradicted : Nat]
  <1>1. /\ v.at \in Nat \ {0} /\ v.at > latest /\ latest' = v.at /\ latest \in Nat
        /\ counts \in [total : Nat, matched : Nat, corroborated : Nat, contradicted : Nat]
        /\ CountsOK
    BY DEF SessionInv, ClockOK, Verdict, Accepts, ApplyMatched, ApplyNonMatched, Newer, Time
  <1>2. CASE ApplyMatched(v.at, v.corroboration) /\ v.outcome = "matched"
    BY <1>1, <1>2 DEF ApplyMatched, CountsOK
  <1>3. CASE ApplyNonMatched(v.at, v.outcome)
    BY <1>1, <1>3 DEF ApplyNonMatched, CountsOK
  <1> QED  BY <1>2, <1>3 DEF Accepts

LEMMA StreaksKept ==
    ASSUME SessionInv, NEW v \in Verdict, Accepts(v), Recorded(v)
    PROVE  StreaksOK'
  <1>1. PICK n : n = Len(log)
    OBVIOUS
  <1>2. /\ n \in Nat /\ Points = 1 .. n /\ Points' = 1 .. n + 1 /\ Len(log') = n + 1
        /\ \A i \in 1 .. n : log'[i] = log[i]
        /\ log'[n + 1] = v
    BY <1>1, RecordGrows DEF SessionInv
  <1>3. /\ matchStreak \in 0 .. n /\ matchStreak <= counts.matched /\ counts.matched \in Nat
        /\ \A i \in 1 .. n : i > n - matchStreak => Matched(i)
        /\ matchStreak < n => ~Matched(n - matchStreak)
        /\ nonMatched \in Seq(Failing) /\ Len(nonMatched) <= n
        /\ \A x \in DOMAIN nonMatched : log[n - Len(nonMatched) + x].outcome = nonMatched[x]
        /\ Len(nonMatched) < n => Matched(n - Len(nonMatched))
        /\ IsFiniteSet(Standing(n)) /\ contradictions = Cardinality(Standing(n))
        /\ contradictions \in Nat
    BY <1>1, <1>2, FS_CardinalityType DEF SessionInv, StreaksOK, CountsOK
  <1>4. /\ IsFiniteSet(Standing(n + 1)')
        /\ Cardinality(Standing(n + 1)') = IF v.corroboration = "contradicted" THEN contradictions + 1
                                           ELSE IF v.corroboration = "corroborated" THEN 0
                                           ELSE contradictions
    <2>1. v.corroboration \in {"none", "corroborated", "contradicted"}
      BY DEF Verdict, Corroboration
    <2> QED  BY <1>1, <1>3, <2>1, StandingGrows DEF SessionInv
  <1>5. \A i \in 1 .. n : log'[i].outcome = "matched" <=> Matched(i)
    BY <1>2 DEF Matched, Is
  <1>6. CASE ApplyMatched(v.at, v.corroboration) /\ v.outcome = "matched"
    <2>1. /\ matchStreak' = matchStreak + 1 /\ nonMatched' = <<>>
          /\ counts'.matched = counts.matched + 1
          /\ contradictions' = Contradictions(v.corroboration)
          /\ log'[n + 1].outcome = "matched"
      BY <1>2, <1>6 DEF ApplyMatched
    <2>2. \A i \in 1 .. n + 1 : i > n + 1 - matchStreak' => log'[i].outcome = "matched"
      <3> TAKE i \in 1 .. n + 1
      <3>1. i = n + 1 \/ (i \in 1 .. n /\ (i > n + 1 - matchStreak' => i > n - matchStreak))
        BY <1>2, <1>3, <2>1
      <3> QED  BY <1>3, <1>5, <2>1, <3>1
    <2>3. matchStreak' < n + 1 => log'[n + 1 - matchStreak'].outcome # "matched"
      <3>1. n + 1 - matchStreak' = n - matchStreak
        BY <1>2, <1>3, <2>1
      <3>2. matchStreak < n => n - matchStreak \in 1 .. n
        BY <1>2, <1>3
      <3>3. matchStreak' < n + 1 => matchStreak < n
        BY <1>2, <1>3, <2>1
      <3> QED  BY <1>3, <1>5, <3>1, <3>2, <3>3
    <2>4. contradictions' = Cardinality(Standing(n + 1)')
      BY <1>4, <2>1 DEF Contradictions
    <2>5. matchStreak' \in 0 .. n + 1 /\ matchStreak' <= counts'.matched
      BY <1>2, <1>3, <2>1
    <2>6. /\ nonMatched' \in Seq(Failing) /\ Len(nonMatched') = 0 /\ DOMAIN nonMatched' = {}
          /\ n + 1 - Len(nonMatched') = n + 1
      BY <1>2, <2>1
    <2>7. Len(nonMatched') <= n + 1 /\ nonMatched' \in Seq(Failing)
      BY <1>2, <2>6
    <2> QED
      BY <1>2, <1>4, <2>1, <2>2, <2>3, <2>4, <2>5, <2>6, <2>7 DEF StreaksOK, Matched, Is
  <1>7. CASE ApplyNonMatched(v.at, v.outcome) /\ v.outcome \in Failing /\ v.corroboration = "none"
    <2>1. /\ matchStreak' = 0 /\ nonMatched' = Append(nonMatched, v.outcome)
          /\ counts'.matched = counts.matched
          /\ contradictions' = contradictions
          /\ log'[n + 1].outcome # "matched"
      BY <1>2, <1>7 DEF ApplyNonMatched, Failing, SessionInv
    <2>2. contradictions' = Cardinality(Standing(n + 1)')
      BY <1>4, <1>7, <2>1
    <2> DEFINE k == Len(nonMatched)
    <2>3. /\ k \in Nat /\ nonMatched' \in Seq(Failing) /\ Len(nonMatched') = k + 1
          /\ \A x \in 1 .. k : nonMatched'[x] = nonMatched[x]
          /\ nonMatched'[k + 1] = v.outcome
          /\ DOMAIN nonMatched = 1 .. k /\ DOMAIN nonMatched' = 1 .. k + 1
      BY <1>3, <1>7, <2>1
    <2>4. ASSUME NEW x \in 1 .. k + 1
          PROVE  log'[n + 1 - (k + 1) + x].outcome = nonMatched'[x]
      <3>1. CASE x = k + 1
        <4>1. n + 1 - (k + 1) + x = n + 1
          BY <1>2, <2>3, <3>1
        <4> QED  BY <1>2, <2>3, <3>1, <4>1
      <3>2. CASE x # k + 1
        <4>1. x \in 1 .. k /\ n - k + x \in 1 .. n /\ n + 1 - (k + 1) + x = n - k + x
          BY <1>2, <1>3, <2>3, <3>2
        <4> QED  BY <1>2, <1>3, <2>3, <4>1
      <3> QED  BY <3>1, <3>2
    <2>5. k + 1 < n + 1 => log'[n + 1 - (k + 1)].outcome = "matched"
      <3> SUFFICES ASSUME k + 1 < n + 1 PROVE log'[n + 1 - (k + 1)].outcome = "matched"
        OBVIOUS
      <3>1. k < n /\ n - k \in 1 .. n /\ n + 1 - (k + 1) = n - k
        BY <1>2, <2>3
      <3> QED  BY <1>3, <1>5, <3>1
    <2>6. /\ matchStreak' \in Nat /\ n + 1 - matchStreak' = n + 1 /\ n \in Nat
          /\ log'[n + 1 - matchStreak'].outcome # "matched"
          /\ Len(log') = n + 1
      BY <1>2, <2>1
    <2>14. matchStreak' \in 0 .. n + 1 /\ matchStreak' <= counts'.matched
      BY <1>2, <1>3, <2>1
    <2>7. Len(nonMatched') <= n + 1
      BY <1>2, <1>3, <2>3
    <2>8. /\ \A x \in DOMAIN nonMatched' :
               log'[n + 1 - Len(nonMatched') + x].outcome = nonMatched'[x]
          /\ Len(nonMatched') < n + 1 => log'[n + 1 - Len(nonMatched')].outcome = "matched"
      BY <2>3, <2>4, <2>5
    <2>9. \A i \in Points' : i > n + 1 - matchStreak' => log'[i].outcome = "matched"
      <3>1. \A i \in Points' : i \in 1 .. n + 1
        BY <1>2
      <3>2. \A i \in 1 .. n + 1 : ~ (i > n + 1 - matchStreak')
        <4>1. n \in Nat /\ n + 1 - matchStreak' = n + 1
          BY <2>6, Zenon
        <4> QED  BY <4>1
      <3> QED  BY <3>1, <3>2
    <2>10. nonMatched' \in Seq(Failing)
      BY <2>3
    <2> HIDE DEF k
    <2>11. /\ matchStreak' \in 0 .. Len(log') /\ matchStreak' <= counts'.matched
           /\ \A i \in Points' : i > Len(log') - matchStreak' => log'[i].outcome = "matched"
           /\ matchStreak' < Len(log') => log'[Len(log') - matchStreak'].outcome # "matched"
      <3>1. matchStreak' < Len(log') => log'[Len(log') - matchStreak'].outcome # "matched"
        <4>1. Len(log') - matchStreak' = n + 1 - matchStreak'
          BY <2>6
        <4>2. log'[n + 1 - matchStreak'].outcome # "matched"
          BY <2>6
        <4> QED  BY <4>1, <4>2, Zenon
      <3>2. \A i \in Points' : i > Len(log') - matchStreak' => log'[i].outcome = "matched"
        BY <2>6, <2>9
      <3>3. matchStreak' \in 0 .. Len(log') /\ matchStreak' <= counts'.matched
        BY <2>6, <2>14
      <3> QED  BY <3>1, <3>2, <3>3
    <2>12. /\ Len(nonMatched') <= Len(log')
           /\ \A x \in DOMAIN nonMatched' :
                log'[Len(log') - Len(nonMatched') + x].outcome = nonMatched'[x]
           /\ Len(nonMatched') < Len(log') => log'[Len(log') - Len(nonMatched')].outcome = "matched"
      BY <1>2, <2>7, <2>8
    <2>13. /\ IsFiniteSet(Standing(Len(log))')
           /\ contradictions' = Cardinality(Standing(Len(log))')
      BY <1>2, <1>4, <2>2 DEF Standing
    <2> QED
      BY <2>10, <2>11, <2>12, <2>13 DEF StreaksOK, Matched, Is
  <1> QED  BY <1>6, <1>7 DEF Accepts

LEMMA StateKept ==
    ASSUME SessionInv, NEW v \in Verdict, Accepts(v), Recorded(v)
    PROVE  StateOK'
  <1>1. PICK n : n = Len(log)
    OBVIOUS
  <1>2. /\ log' \in Seq(Verdict)
        /\ n \in Nat /\ Points = 1 .. n /\ Points' = 1 .. n + 1 /\ Len(log') = n + 1
    BY <1>1, RecordGrows DEF SessionInv
  <1>3. StreaksTell
    BY StreaksTellNow DEF SessionInv
  <1>4. StreaksTell' /\ StreaksOK'
    BY <1>2, StreaksTellNext, StreaksKept, CountsKept
  <1>5. /\ RejectStreak \in Nat \ {0} /\ ContradictStreak \in Nat \ {0} /\ VerifyStreak \in Nat \ {0}
        /\ matchStreak \in Nat /\ contradictions \in Nat /\ nonMatched \in Seq(Failing)
        /\ Len(nonMatched) \in Nat /\ Len(nonMatched) <= n
    BY <1>1, <1>2, SessionAssumption, FS_CardinalityType DEF SessionInv, StreaksOK
  <1>6. reason = "" /\ state \in {"pending", "verified"} /\ ~ (n # 0 /\ Rejecting(n))
    <2>1. reason = ""
      BY DEF Accepts, ApplyMatched, ApplyNonMatched, HasEnded
    <2>2. reason \notin Rejections
      BY <2>1 DEF Rejections, Failing
    <2> QED  BY <1>1, <2>1, <2>2 DEF SessionInv, StateOK
  <1>7. Len(nonMatched) < RejectStreak /\ contradictions < ContradictStreak
    <2>1. CASE n = 0
      <3>1. Standing(0) = {}
        BY DEF Standing
      <3>2. contradictions = 0
        BY <1>1, <2>1, <3>1, FS_EmptySet DEF SessionInv, StreaksOK
      <3> QED  BY <1>5, <2>1, <3>2
    <2>2. CASE n # 0
      <3>1. ~FailedAt(n) /\ ~ContradictedAt(n)
        BY <1>6, <2>2 DEF Rejecting
      <3> QED  BY <1>1, <1>3, <1>5, <3>1 DEF StreaksTell
    <2> QED  BY <2>1, <2>2
  <1>8. ASSUME NEW i \in 1 .. n PROVE ~Rejecting(i)'
    <2>1. ~Rejecting(i)
      <3>1. CASE i = n
        <4>1. n # 0
          BY <1>2, <3>1
        <4> QED  BY <1>6, <3>1, <4>1
      <3>2. CASE i # n
        <4>1. i < n /\ i \in Points
          BY <1>2, <3>2
        <4> QED  BY <1>1, <4>1 DEF SessionInv, StateOK
      <3> QED  BY <3>1, <3>2
    <2> QED  BY <1>1, <2>1, EarlierStands DEF SessionInv, Rejecting
  <1>9. /\ FailedAt(n + 1)' <=> Len(nonMatched') >= RejectStreak
        /\ ContradictedAt(n + 1)' <=> contradictions' >= ContradictStreak
        /\ Window(n + 1, VerifyStreak) \subseteq {j \in Points : Matched(j)}'
             <=> matchStreak' >= VerifyStreak
    BY <1>2, <1>4 DEF StreaksTell, FailedAt, ContradictedAt, Standing, Window
  <1>10. RunOfMatched(VerifyStreak)' <=>
           RunOfMatched(VerifyStreak) \/ matchStreak' >= VerifyStreak
    <2>1. \A i \in 1 .. n :
            Window(i, VerifyStreak) \subseteq {j \in Points : Matched(j)}'
              <=> Window(i, VerifyStreak) \subseteq {j \in Points : Matched(j)}
      BY <1>1, <1>5, EarlierStands DEF SessionInv
    <2>2. RunOfMatched(VerifyStreak)' <=>
            \E i \in 1 .. n + 1 : Window(i, VerifyStreak) \subseteq {j \in Points : Matched(j)}'
      BY <1>2 DEF RunOfMatched, Window
    <2>3. RunOfMatched(VerifyStreak) <=>
            \E i \in 1 .. n : Window(i, VerifyStreak) \subseteq {j \in Points : Matched(j)}
      BY <1>2 DEF RunOfMatched
    <2>4. \A i \in 1 .. n + 1 : i \in 1 .. n \/ i = n + 1
      BY <1>2
    <2>5. \A i \in 1 .. n : i \in 1 .. n + 1
      BY <1>2
    <2>6. n + 1 \in 1 .. n + 1
      BY <1>2
    <2> QED  BY <1>9, <2>1, <2>2, <2>3, <2>4, <2>5, <2>6
  <1>11. state = "verified" <=> RunOfMatched(VerifyStreak)
    BY <1>6 DEF SessionInv, StateOK
  <1>14. /\ Len(log') # 0 /\ tier \in Tiers
         /\ ContradictedAt(Len(log))' <=> contradictions' >= ContradictStreak
         /\ Rejecting(Len(log))' <=>
              Len(nonMatched') >= RejectStreak \/ contradictions' >= ContradictStreak
         /\ \A i \in Points' : i < Len(log') => ~Rejecting(i)'
    <2>1. \A i \in Points' : i < Len(log') => i \in 1 .. n
      BY <1>2
    <2>2. Len(log') # 0
      BY <1>2
    <2> QED  BY <1>4, <1>8, <2>1, <2>2 DEF StreaksTell, Rejecting, SessionInv, StateOK
  <1>12. CASE ApplyMatched(v.at, v.corroboration) /\ v.outcome = "matched"
    <2>1. /\ nonMatched' = <<>> /\ matchStreak' = matchStreak + 1 /\ tier' = tier
          /\ contradictions' = Contradictions(v.corroboration)
      BY <1>12 DEF ApplyMatched
    <2>2. contradictions' <= ContradictStreak /\ Len(nonMatched') = 0 /\ contradictions' \in Nat
      BY <1>5, <1>7, <2>1 DEF Contradictions
    <2>3. ~FailedAt(n + 1)'
      BY <1>5, <1>9, <2>2
    <2>4. CASE contradictions' >= ContradictStreak
      <3>1. state' = "rejected" /\ reason' = "contradicted"
        BY <1>12, <2>4 DEF ApplyMatched
      <3>2. /\ Rejecting(Len(log))' /\ ContradictedAt(Len(log))'
            /\ reason' \in Rejections
        BY <1>14, <2>4, <3>1 DEF Rejections
      <3>3. Len(nonMatched') <= RejectStreak
        BY <1>5, <2>2
      <3> QED  BY <1>14, <2>1, <2>2, <3>1, <3>2, <3>3 DEF StateOK
    <2>5. CASE ~ (contradictions' >= ContradictStreak)
      <3>1. /\ state' = IF state = "pending" /\ matchStreak' >= VerifyStreak
                        THEN "verified" ELSE state
            /\ reason' = ""
        BY <1>6, <1>12, <2>5 DEF ApplyMatched
      <3>2. /\ ~Rejecting(Len(log))' /\ state' \in {"pending", "verified"}
            /\ state' = "verified" <=> state = "verified" \/ matchStreak' >= VerifyStreak
        <4>1. ~Rejecting(Len(log))'
          BY <1>5, <1>14, <2>2, <2>5
        <4>2. /\ state' \in {"pending", "verified"}
              /\ state' = "verified" <=> state = "verified" \/ matchStreak' >= VerifyStreak
          BY <1>6, <3>1
        <4> QED  BY <4>1, <4>2
      <3>3. state' = "verified" <=> RunOfMatched(VerifyStreak)'
        BY <1>10, <1>11, <3>2
      <3>4. reason' \notin Rejections
        BY <3>1 DEF Rejections, Failing
      <3>5. Len(nonMatched') <= RejectStreak
        BY <1>5, <2>2
      <3> QED
        BY <1>14, <2>1, <2>2, <3>1, <3>2, <3>3, <3>4, <3>5 DEF StateOK
    <2> QED  BY <2>4, <2>5
  <1>13. CASE ApplyNonMatched(v.at, v.outcome) /\ v.outcome \in Failing
    <2>1. /\ nonMatched' = Append(nonMatched, v.outcome) /\ matchStreak' = 0
          /\ contradictions' = contradictions /\ tier' = tier
      BY <1>13 DEF ApplyNonMatched
    <2>2. /\ Len(nonMatched') = Len(nonMatched) + 1 /\ Len(nonMatched') <= RejectStreak
          /\ nonMatched' \in Seq(Failing) /\ nonMatched' # <<>>
      BY <1>5, <1>7, <1>13, <2>1
    <2>3. ~ContradictedAt(n + 1)'
      BY <1>5, <1>7, <1>9, <2>1
    <2>4. contradictions' <= ContradictStreak /\ ~ContradictedAt(Len(log))'
      BY <1>5, <1>7, <1>14, <2>1
    <2>5. CASE RunRejects(nonMatched')
      <3>1. state' = "rejected" /\ reason' = Dominant(nonMatched')
        BY <1>13, <2>5 DEF ApplyNonMatched
      <3>2. Dominant(nonMatched') \in Failing
        BY <2>2, DominantDominates DEF Dominates
      <3>3. Rejecting(Len(log))' /\ reason' \in Rejections
        BY <1>14, <2>5, <3>1, <3>2 DEF Rejections, RunRejects
      <3> QED  BY <1>14, <2>1, <2>2, <2>4, <3>1, <3>3 DEF StateOK, SessionInv
    <2>6. CASE ~RunRejects(nonMatched')
      <3>1. state' = state /\ reason' = ""
        BY <1>6, <1>13, <2>6 DEF ApplyNonMatched
      <3>2. ~Rejecting(Len(log))'
        BY <1>14, <2>4, <2>6 DEF RunRejects, Rejecting
      <3>3. state' = "verified" <=> RunOfMatched(VerifyStreak)'
        <4>1. ~ (matchStreak' >= VerifyStreak)
          BY <1>5, <2>1
        <4> QED  BY <1>10, <1>11, <3>1, <4>1
      <3>4. reason' \notin Rejections
        BY <3>1 DEF Rejections, Failing
      <3> QED
        BY <1>6, <1>14, <2>1, <2>2, <2>4, <3>1, <3>2, <3>3, <3>4 DEF StateOK, SessionInv
    <2> QED  BY <2>5, <2>6
  <1> QED  BY <1>12, <1>13 DEF Accepts

LEMMA SessionStep == SessionInv /\ [NextLog]_logVars => SessionInv'
  <1> SUFFICES ASSUME SessionInv, [NextLog]_logVars PROVE SessionInv'
    OBVIOUS
  <1>1. ASSUME NEW v \in Verdict, Accepts(v), Recorded(v) PROVE SessionInv'
    <2>1. log' \in Seq(Verdict)
      BY <1>1, RecordGrows DEF SessionInv
    <2> QED
      BY <1>1, <2>1, ClockKept, CountsKept, StreaksKept, StateKept DEF SessionInv
  <1>2. ASSUME NEW ts \in 1 .. MaxTime, NEW c \in Corroboration,
               ApplyMatched(ts, c), Record(ts, "matched", c)
        PROVE  SessionInv'
    <2>1. PICK v : v = [at |-> ts, outcome |-> "matched", corroboration |-> c]
      OBVIOUS
    <2>2. v \in Verdict /\ Accepts(v) /\ Recorded(v)
      BY <1>2, <2>1 DEF Verdict, Outcome, Accepts, Recorded, Record
    <2> QED  BY <1>1, <2>2
  <1>3. ASSUME NEW ts \in 1 .. MaxTime, NEW o \in Failing,
               ApplyNonMatched(ts, o), Record(ts, o, "none")
        PROVE  SessionInv'
    <2>1. PICK v : v = [at |-> ts, outcome |-> o, corroboration |-> "none"]
      OBVIOUS
    <2>2. v \in Verdict /\ Accepts(v) /\ Recorded(v)
      BY <1>3, <2>1 DEF Verdict, Outcome, Corroboration, Accepts, Recorded, Record
    <2> QED  BY <1>1, <2>2
  <1>4. ASSUME UNCHANGED log,
               \/ UNCHANGED sessionVars
               \/ End
               \/ \E t \in Tiers : SetTier(t)
               \/ Tick
        PROVE  SessionInv'
    <2>1. /\ UNCHANGED <<log, counts, clocks, streaks, state>>
          /\ now' \in Time /\ tier' \in Tiers
          /\ reason' = reason \/ (reason = "" /\ reason' = "closed")
      <3>1. MaxTime \in Nat /\ now \in 0 .. MaxTime /\ tier \in Tiers
        BY SessionAssumption DEF SessionInv, ClockOK, StateOK, Time
      <3>2. CASE UNCHANGED sessionVars
        BY <1>4, <3>1, <3>2 DEF sessionVars, clocks, streaks, Time
      <3>3. CASE End
        BY <1>4, <3>1, <3>3 DEF End, HasEnded, clocks, streaks, Time
      <3>4. CASE \E t \in Tiers : SetTier(t)
        BY <1>4, <3>1, <3>4 DEF SetTier, clocks, streaks, Time
      <3>5. CASE Tick
        BY <1>4, <3>1, <3>5 DEF Tick, clocks, streaks, Time
      <3> QED  BY <1>4, <3>2, <3>3, <3>4, <3>5
    <2>2. ClockOK' /\ CountsOK' /\ StreaksOK'
      BY <2>1
      DEF SessionInv, ClockOK, CountsOK, StreaksOK, clocks, streaks, Points, Matched, Is, Standing
    <2>3. StateOK'
      <3>1. "closed" \notin Rejections /\ "" \notin Rejections
        BY DEF Rejections, Failing
      <3>2. /\ reason' \in Rejections \cup {"", "closed"}
            /\ reason' \in Rejections <=> reason \in Rejections
            /\ state = "rejected" => reason' = reason
        BY <2>1, <3>1 DEF SessionInv, StateOK
      <3> QED
        BY <2>1, <3>2
        DEF SessionInv, StateOK, streaks, Points, Matched, Is, Standing, Rejecting, FailedAt,
            ContradictedAt, Window, RunOfMatched
    <2> QED  BY <2>1, <2>2, <2>3 DEF SessionInv
  <1> QED  BY <1>2, <1>3, <1>4 DEF NextLog, logVars

-----------------------------------------------------------------------------
(* What follows of a session.                                              *)

LEMMA SessionAlways == SpecLog => []SessionInv
  BY SessionInitial, SessionStep, PTL DEF SpecLog

\* The fields of a session follow from one another as its readers assume: what
\* matched is no later than what was accepted, the streaks stay within their
\* limits, and the counts count what they say.
THEOREM SessionIsTyped == SpecLog => []SessionTypeOK
  <1>1. SessionInv => SessionTypeOK
    <2> SUFFICES ASSUME SessionInv PROVE SessionTypeOK
      OBVIOUS
    <2>1. /\ now \in Time /\ latest \in Time
          /\ latestMatched \in 0 .. latest /\ firstMatched \in 0 .. latestMatched
      BY DEF SessionInv, ClockOK
    <2>2. /\ counts.total \in Time /\ counts.matched \in 0 .. counts.total
          /\ counts.corroborated + counts.contradicted \in 0 .. counts.matched
      BY <2>1, SessionAssumption DEF SessionInv, CountsOK, Time
    <2>3. /\ matchStreak \in 0 .. counts.matched
          /\ nonMatched \in Seq(Failing) /\ contradictions \in Nat
      BY <2>2, FS_CardinalityType DEF SessionInv, StreaksOK
    <2>4. /\ state \in {"pending", "verified", "rejected"} /\ tier \in Tiers
          /\ reason \in Rejections \cup {"", "closed"}
          /\ Len(nonMatched) <= RejectStreak
      BY DEF SessionInv, StateOK
    <2>5. contradictions \in 0 .. ContradictStreak
      <3>1. contradictions <= ContradictStreak
        BY DEF SessionInv, StateOK
      <3> QED  BY <2>3, <3>1, SessionAssumption
    <2> QED  BY <2>1, <2>2, <2>3, <2>4, <2>5 DEF SessionTypeOK
  <1> QED  BY <1>1, SessionAlways, PTL

\* Verdicts are folded in in the order of their timestamps.
THEOREM RecordIsChronological == SpecLog => []LogIsChronological
  <1>1. SessionInv => LogIsChronological
    BY DEF SessionInv, ClockOK, LogIsChronological
  <1> QED  BY <1>1, SessionAlways, PTL

\* A ride that is published matched its trip lately.
THEOREM PublishedWhenRecent == SpecLog => []PublishedOnARecentMatch
  <1>1. SessionInv => PublishedOnARecentMatch
    BY DEF SessionInv, ClockOK, PublishedOnARecentMatch, Publishable, Fresh
  <1> QED  BY <1>1, SessionAlways, PTL

\* The few counters of a session say of the ride what all its verdicts say.
THEOREM CountersAmountToTheRecord == SpecLog => []StateFollowsFromLog
  <1>1. SessionInv => StateFollowsFromLog
    <2> SUFFICES ASSUME SessionInv PROVE StateFollowsFromLog
      OBVIOUS
    <2> DEFINE n == Len(log)
    <2>1. n \in Nat /\ Points = 1 .. n
      BY DEF SessionInv, Points
    <2>2. (\E i \in Points : Rejecting(i)) <=> n # 0 /\ Rejecting(n)
      <3>1. \A i \in Points : i = n \/ ~Rejecting(i)
        <4> SUFFICES ASSUME NEW i \in Points, i # n PROVE ~Rejecting(i)
          OBVIOUS
        <4>1. i < n
          BY <2>1
        <4> QED  BY <4>1 DEF SessionInv, StateOK
      <3>2. n # 0 <=> n \in Points
        BY <2>1
      <3>3. n # 0 => \A i \in Points : i = n => n \in Points
        OBVIOUS
      <3> QED  BY <3>1, <3>2
    <2> QED  BY <2>2 DEF SessionInv, StateOK, StateFollowsFromLog, Rejecting
  <1> QED  BY <1>1, SessionAlways, PTL

\* A ride is rejected by the first point that justifies it, for what the points
\* that led there show most.
THEOREM RejectionIsJust == SpecLog => []RejectionIsBlamedRight
  <1>1. SessionInv => RejectionIsBlamedRight
    <2> SUFFICES ASSUME SessionInv, state = "rejected" PROVE RejectionIsBlamedRight
      BY DEF RejectionIsBlamedRight
    <2> DEFINE n == Len(log)
    <2>1. n \in Nat /\ Points = 1 .. n /\ n # 0
      <3>1. n # 0
        BY DEF SessionInv, StateOK
      <3> QED  BY <3>1 DEF SessionInv, Points
    <2>2. ASSUME NEW i \in 1 .. n - 1 PROVE ~FailedAt(i) /\ ~ContradictedAt(i)
      <3>1. i \in Points /\ i < n
        BY <2>1
      <3> QED  BY <3>1 DEF SessionInv, StateOK, Rejecting
    <2>3. reason = IF ContradictedAt(n) THEN "contradicted" ELSE Dominant(nonMatched)
      BY DEF SessionInv, StateOK
    <2>4. CASE ContradictedAt(n)
      BY <2>2, <2>3, <2>4 DEF RejectionIsBlamedRight
    <2>5. CASE ~ContradictedAt(n)
      <3>1. FailedAt(n)
        BY <2>5 DEF SessionInv, StateOK, Rejecting
      <3>2. Len(nonMatched) >= RejectStreak
        BY <3>1, StreaksTellNow DEF SessionInv, StreaksTell
      <3>3. /\ Len(nonMatched) = RejectStreak /\ Len(nonMatched) <= Len(log)
            /\ nonMatched \in Seq(Failing) /\ log \in Seq(Verdict)
            /\ \A x \in DOMAIN nonMatched :
                 log[Len(log) - Len(nonMatched) + x].outcome = nonMatched[x]
        <4>1. Len(nonMatched) <= RejectStreak
          BY DEF SessionInv, StateOK
        <4>2. /\ Len(nonMatched) <= Len(log)
              /\ nonMatched \in Seq(Failing) /\ log \in Seq(Verdict)
              /\ \A x \in DOMAIN nonMatched :
                   log[Len(log) - Len(nonMatched) + x].outcome = nonMatched[x]
          BY DEF SessionInv, StreaksOK
        <4>3. Len(nonMatched) = RejectStreak
          BY <3>2, <4>1, <4>2, SessionAssumption
        <4> QED  BY <4>2, <4>3
      <3>4. Dominant(nonMatched) = Blamed(n)
        BY <3>3, DominantIsBlamed
      <3> QED  BY <2>2, <2>3, <2>5, <3>4 DEF RejectionIsBlamedRight
    <2> QED  BY <2>4, <2>5
  <1> QED  BY <1>1, SessionAlways, PTL

-----------------------------------------------------------------------------
(* A session and its entry in the registry.                                 *)

\* What RiderRides keeps of a session: b batches were folded in, and of the
\* reasons a run is blamed on one stands for all.
AsSession(b) ==
    [life |-> IF HasEnded THEN "ended" ELSE "live", tier |-> tier,
     sum |-> [state |-> state, scored |-> Scored, total |-> b,
              reason |-> IF reason \in Failing THEN "off_route" ELSE reason]]

\* An accepted point takes a session only where RiderRides lets a batch take
\* it; whatever else happens to it is an end, another tier, or nothing.
StepOfRegistry(b) ==
    IF latest' # latest
    THEN AsSession(b).life = "live" /\ AsSession(b + 1)' \in Folded(AsSession(b))
    ELSE \/ AsSession(b)' = EndedSession(AsSession(b), "closed")
         \/ \E t \in Tier : AsSession(b)' = [AsSession(b) EXCEPT !.tier = t]

\* Two entries of a record replaced at once.
LEMMA EntryRefolded ==
    ASSUME NEW r, r = [life |-> r.life, tier |-> r.tier, sum |-> r.sum], NEW x, NEW m
    PROVE  [r EXCEPT !.sum = x, !.life = m] = [life |-> m, tier |-> r.tier, sum |-> x]
<1>1. PICK q : q = [r EXCEPT !.sum = x, !.life = m]
  OBVIOUS
<1>2. q.life = m /\ q.tier = r.tier /\ q.sum = x
  BY <1>1
<1>3. q = [life |-> q.life, tier |-> q.tier, sum |-> q.sum]
  BY <1>1
<1> QED  BY <1>1, <1>2, <1>3, Zenon

LEMMA EntryEnded ==
    ASSUME NEW r, NEW l, NEW g, NEW a, NEW p, NEW n, NEW w, NEW why,
           r = [life |-> l, tier |-> g,
                sum |-> [state |-> a, scored |-> p, total |-> n, reason |-> w]]
    PROVE  [r EXCEPT !.life = "ended", !.sum.reason = why]
             = [life |-> "ended", tier |-> g,
                sum |-> [state |-> a, scored |-> p, total |-> n, reason |-> why]]
<1>1. PICK q : q = [r EXCEPT !.life = "ended", !.sum.reason = why]
  OBVIOUS
<1>2. q = [life |-> q.life, tier |-> q.tier, sum |-> q.sum]
  BY <1>1
<1>3. q.life = "ended" /\ q.tier = g /\ q.sum = [r.sum EXCEPT !.reason = why]
  BY <1>1
<1>4. r.sum = [state |-> a, scored |-> p, total |-> n, reason |-> w]
  OBVIOUS
<1>5. q.sum = [state |-> a, scored |-> p, total |-> n, reason |-> why]
  <2> PICK sum : sum = r.sum
    OBVIOUS
  <2>1. sum = [state |-> a, scored |-> p, total |-> n, reason |-> w]
    BY <1>4
  <2>2. [sum EXCEPT !.reason = why] = [state |-> a, scored |-> p, total |-> n, reason |-> why]
    BY <2>1
  <2> QED  BY <1>3, <2>2, Zenon
<1> QED  BY <1>1, <1>2, <1>3, <1>5, Zenon

\* What was scored stays so: further points only add to what it was scored for.
LEMMA ScoredForGood ==
    ASSUME SessionInv, Scored, NEW ts \in 1 .. MaxTime,
           \/ \E c \in Corroboration : ApplyMatched(ts, c)
           \/ \E o \in Failing : ApplyNonMatched(ts, o)
    PROVE  Scored'
<1> USE SessionAssumption DEF SessionInv, ClockOK, CountsOK
<1>1. ASSUME NEW c \in Corroboration, ApplyMatched(ts, c) PROVE Scored'
  <2>1. /\ counts'.matched = counts.matched + 1 /\ latestMatched' = ts
        /\ counts'.corroborated = counts.corroborated + (IF c = "corroborated" THEN 1 ELSE 0)
        /\ ts > latestMatched
    BY <1>1 DEF ApplyMatched, Newer
  <2>2. firstMatched' = IF counts.matched = 0 THEN ts ELSE firstMatched
    BY <1>1 DEF ApplyMatched
  <2>3. counts.corroborated >= CorroborateCount /\ counts.matched >= 1
    BY DEF Scored, IsCorroborated
  <2>4. counts'.corroborated >= CorroborateCount
    BY <2>1, <2>3
  <2>5. MatchedDuration >= MinScoredRide /\ MatchedDuration' >= MatchedDuration
        /\ MatchedDuration \in Int /\ MatchedDuration' \in Int
    BY <2>1, <2>2, <2>3 DEF Scored, MatchedDuration
  <2> QED  BY <2>4, <2>5 DEF Scored, IsCorroborated
<1>2. ASSUME NEW o \in Failing, ApplyNonMatched(ts, o) PROVE Scored'
  <2>1. /\ counts'.matched = counts.matched /\ counts'.corroborated = counts.corroborated
        /\ UNCHANGED <<latestMatched, firstMatched>>
    BY <1>2 DEF ApplyNonMatched
  <2> QED  BY <2>1 DEF Scored, IsCorroborated, MatchedDuration
<1> QED  BY <1>1, <1>2

\* An accepted point moves a live session as a batch of one would.
LEMMA AcceptedPointIsFolded ==
    ASSUME SessionInv, SessionInv', NEW ts \in 1 .. MaxTime,
           \/ \E c \in Corroboration : ApplyMatched(ts, c)
           \/ \E o \in Failing : ApplyNonMatched(ts, o),
           NEW b \in 0 .. MaxBatches - 1
    PROVE  /\ latest' # latest /\ AsSession(b).life = "live"
           /\ AsSession(b + 1)' \in Folded(AsSession(b))
<1>1. /\ latest' = ts /\ ts > latest /\ ~HasEnded /\ tier' = tier
      /\ state = "verified" => state' # "pending"
      /\ state' # "rejected" => reason' = reason
  BY DEF ApplyMatched, ApplyNonMatched, Newer
<1>2. latest' # latest
  BY <1>1 DEF SessionInv, ClockOK, Time
<1>3. /\ reason = "" /\ state' \in State /\ tier \in Tier
      /\ state' = "rejected" => reason' \in Rejections
      /\ reason' \in Rejections => state' = "rejected"
  BY <1>1 DEF SessionInv, StateOK, HasEnded, State, Tier, Tiers
<1>4. Scored => Scored'
  BY ScoredForGood
<1>5. Scored' \in BOOLEAN /\ Scored \in BOOLEAN
  BY DEF Scored
<1>6. b + 1 \in 0 .. MaxBatches
  BY RidesAssumption
<1> DEFINE why == IF reason' \in Failing THEN "off_route" ELSE reason'
           x == [state |-> state', scored |-> Scored', total |-> b + 1, reason |-> why]
           s == AsSession(b)
<1>7. /\ why \in IF state' = "rejected" THEN {"off_route", "contradicted"} ELSE {""}
      /\ why \in Reason
  BY <1>1, <1>3 DEF Rejections, Failing, Reason
<1>8. HasEnded' <=> state' = "rejected"
  BY <1>1, <1>3 DEF HasEnded, Rejections, Failing
<1>9. /\ s.life = "live" /\ s.sum.total = b /\ s.sum.state = state
      /\ s.sum.scored = Scored /\ s.tier = tier
      /\ s = [life |-> s.life, tier |-> s.tier, sum |-> s.sum]
  BY <1>1 DEF AsSession
<1>10. AsSession(b + 1)' = [life |-> IF state' = "rejected" THEN "ended" ELSE "live",
                            tier |-> tier, sum |-> x]
  BY <1>1, <1>8 DEF AsSession
<1> HIDE DEF s, why
<1>11. x \in Summary
  BY <1>3, <1>5, <1>6, <1>7 DEF Summary
<1>12. /\ x.total = s.sum.total + 1 /\ x.state = state'
       /\ s.sum.state = "verified" => x.state # "pending"
       /\ s.sum.scored => x.scored
       /\ x.reason \in IF x.state = "rejected" THEN {"off_route", "contradicted"} ELSE {""}
  BY <1>1, <1>4, <1>7, <1>9
<1> HIDE DEF x
<1>13. [s EXCEPT !.sum = x, !.life = IF x.state = "rejected" THEN "ended" ELSE "live"]
         = [life |-> IF state' = "rejected" THEN "ended" ELSE "live", tier |-> tier, sum |-> x]
  <2> PICK after : after = IF x.state = "rejected" THEN "ended" ELSE "live"
    OBVIOUS
  <2>1. s = [life |-> s.life, tier |-> s.tier, sum |-> s.sum]
    BY <1>9
  <2>2. [s EXCEPT !.sum = x, !.life = after] = [life |-> after, tier |-> s.tier, sum |-> x]
    BY <2>1, EntryRefolded
  <2>3. s.tier = tier /\ x.state = state'
    BY <1>9, <1>12
  <2> QED  BY <2>2, <2>3, Zenon
<1>14. AsSession(b + 1)' \in Folded(s)
  BY <1>10, <1>11, <1>12, <1>13 DEF Folded
<1> QED  BY <1>2, <1>9, <1>14 DEF s

\* The registry's view of a ride is true of the session: every step of one is
\* a step that RiderRides allows (ApplyBatch, an end, SetTier), or none.
THEOREM SessionsStepAsTheRegistrySays ==
    SpecLog => [][\A b \in 0 .. MaxBatches - 1 : StepOfRegistry(b)]_logVars
<1>1. ASSUME SessionInv, SessionInv', [NextLog]_logVars
      PROVE  [\A b \in 0 .. MaxBatches - 1 : StepOfRegistry(b)]_logVars
  <2> SUFFICES ASSUME NextLog, NEW b \in 0 .. MaxBatches - 1 PROVE StepOfRegistry(b)
    BY <1>1
  <2>1. ASSUME NEW ts \in 1 .. MaxTime,
               \/ \E c \in Corroboration : ApplyMatched(ts, c)
               \/ \E o \in Failing : ApplyNonMatched(ts, o)
        PROVE  StepOfRegistry(b)
    BY <1>1, <2>1, AcceptedPointIsFolded DEF StepOfRegistry
  <2> DEFINE s == AsSession(b)
  <2>3. CASE End
    <3>1. /\ ~HasEnded /\ HasEnded' /\ latest' = latest /\ tier' = tier /\ state' = state
          /\ Scored' = Scored /\ reason' = "closed" /\ reason' \notin Failing
      BY <2>3 DEF End, HasEnded, Scored, IsCorroborated, MatchedDuration, clocks, Failing
    <3>2. s' = [life |-> "ended", tier |-> tier,
                sum |-> [state |-> state, scored |-> Scored, total |-> b, reason |-> "closed"]]
      BY <3>1 DEF AsSession
    <3> PICK w : w = IF reason \in Failing THEN "off_route" ELSE reason
      OBVIOUS
    <3>3. s = [life |-> "live", tier |-> tier,
               sum |-> [state |-> state, scored |-> Scored, total |-> b, reason |-> w]]
      BY <3>1 DEF AsSession
    <3>4. s.life = "live"
      BY <3>3
    <3> HIDE DEF s
    <3>5. EndedSession(s, "closed") =
            [life |-> "ended", tier |-> tier,
             sum |-> [state |-> state, scored |-> Scored, total |-> b, reason |-> "closed"]]
      BY <3>3, <3>4, EntryEnded, Zenon DEF EndedSession
    <3> QED  BY <3>1, <3>2, <3>5, Zenon DEF StepOfRegistry, s
  <2>4. ASSUME UNCHANGED <<state, reason, clocks, streaks, counts>>, tier' \in Tiers
        PROVE  StepOfRegistry(b)
    <3>1. /\ latest' = latest /\ HasEnded' = HasEnded /\ Scored' = Scored
          /\ state' = state /\ reason' = reason /\ tier' \in Tier
      BY <2>4 DEF HasEnded, Scored, IsCorroborated, MatchedDuration, clocks, Tier, Tiers
    <3>2. s' = [s EXCEPT !.tier = tier']
      BY <3>1 DEF AsSession
    <3> QED  BY <3>1, <3>2, Zenon DEF StepOfRegistry
  <2>5. CASE (\E t \in Tiers : SetTier(t)) \/ Tick
    BY <1>1, <2>4, <2>5 DEF SetTier, Tick, SessionInv, StateOK
  <2> QED  BY <2>1, <2>3, <2>5 DEF NextLog
<1> QED  BY <1>1, SessionAlways, PTL DEF SpecLog

\* Nor does it matter how many points a batch holds: what two changes make of a
\* session, one change could have made of it.
LEMMA PointsOfABatchAreOneChange ==
    ASSUME NEW s, s = [life |-> s.life, tier |-> s.tier, sum |-> s.sum], s.sum \in Summary,
           NEW y \in Folded(s), y.life = "live",
           NEW z \in Folded([y EXCEPT !.sum.total = s.sum.total])
    PROVE  z \in Folded(s)
<1>1. PICK x \in Summary :
         /\ y = [s EXCEPT !.sum = x, !.life = IF x.state = "rejected" THEN "ended" ELSE "live"]
         /\ s.sum.state = "verified" => x.state # "pending"
         /\ s.sum.scored => x.scored
  BY DEF Folded
<1>2. y = [life |-> "live", tier |-> s.tier, sum |-> x]
  BY <1>1
<1> DEFINE m == [y EXCEPT !.sum.total = s.sum.total]
<1>3. /\ m = [life |-> "live", tier |-> s.tier, sum |-> m.sum]
      /\ m.sum.total = s.sum.total /\ m.sum.state = x.state /\ m.sum.scored = x.scored
  BY <1>2 DEF Summary
<1> HIDE DEF m
<1>4. PICK w \in Summary :
         /\ z = [m EXCEPT !.sum = w, !.life = IF w.state = "rejected" THEN "ended" ELSE "live"]
         /\ w.total = m.sum.total + 1
         /\ m.sum.state = "verified" => w.state # "pending"
         /\ m.sum.scored => w.scored
         /\ w.reason \in IF w.state = "rejected" THEN {"off_route", "contradicted"} ELSE {""}
  BY DEF Folded, m
<1>5. z = [s EXCEPT !.sum = w, !.life = IF w.state = "rejected" THEN "ended" ELSE "live"]
  <2> PICK after : after = IF w.state = "rejected" THEN "ended" ELSE "live"
    OBVIOUS
  <2>1. [m EXCEPT !.sum = w, !.life = after] = [life |-> after, tier |-> s.tier, sum |-> w]
    <3>1. m = [life |-> m.life, tier |-> m.tier, sum |-> m.sum] /\ m.tier = s.tier
      BY <1>3
    <3>2. [m EXCEPT !.sum = w, !.life = after] = [life |-> after, tier |-> m.tier, sum |-> w]
      BY <3>1, EntryRefolded
    <3> QED  BY <3>1, <3>2, Zenon
  <2>2. [s EXCEPT !.sum = w, !.life = after] = [life |-> after, tier |-> s.tier, sum |-> w]
    BY EntryRefolded
  <2> QED  BY <1>4, <2>1, <2>2, Zenon
<1>6. s.sum.state = "verified" => w.state # "pending"
  <2>1. ASSUME s.sum.state = "verified" PROVE w.state # "pending"
    <3>1. y.life = "live" /\ x.state \in State
      BY DEF Summary
    <3>2. x.state # "rejected"
      BY <1>1, <3>1
    <3> QED  BY <1>1, <1>3, <1>4, <2>1, <3>1, <3>2 DEF State
  <2> QED  BY <2>1
<1>7. w.total = s.sum.total + 1 /\ (s.sum.scored => w.scored)
  <2>1. w.total = m.sum.total + 1 /\ m.sum.total = s.sum.total
    BY <1>3, <1>4
  <2> QED  BY <1>1, <1>3, <1>4, <2>1, Zenon
<1> QED  BY <1>4, <1>5, <1>6, <1>7 DEF Folded

-----------------------------------------------------------------------------
(* Both halves.                                                             *)

\* A run of the whole engine is, of its rides, a run of RiderRides, and of its
\* session one of RideSessionLog, so that all of the above holds of it too.
THEOREM EngineRunsBoth == SpecEngine => Spec /\ SpecLog
<1>1. InitEngine => Init /\ InitLog
  BY DEF InitEngine
<1>2. [NextEngine]_engineVars => [Next]_vars /\ [NextLog]_logVars
  BY DEF NextEngine, engineVars
<1> QED  BY <1>1, <1>2, PTL DEF SpecEngine, Spec, SpecLog
=============================================================================
