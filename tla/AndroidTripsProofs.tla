-------------------------- MODULE AndroidTripsProofs --------------------------
(***************************************************************************)
(* What AndroidTrips promises, for any number of phones, drivers, trips and *)
(* calls: PhonesInv is inductive, and the properties the run checks follow  *)
(* from it.                                                                 *)
(*                                                                          *)
(* PhonesInv says that a phone's records are true, that while a start runs  *)
(* its list is what is stored for its driver, and that the call a phone     *)
(* waits for is the one it made.                                            *)
(***************************************************************************)
EXTENDS AndroidTrips, TripsProofs, SequenceTheorems

\* What a phone writes down of a trip is so: it did start, for that driver.
RecordTrue(e) ==
    trips[e.trip].status # "free" /\ trips[e.trip].driver = e.driver

RecordsTrue(p) ==
    /\ active[p] # None => RecordTrue(active[p])
    /\ \A i \in DOMAIN ends[p] : RecordTrue(ends[p][i])

\* No trip twice.
EndsDistinct(p) ==
    \A i, j \in DOMAIN ends[p] : ends[p][i].trip = ends[p][j].trip => i = j

\* While a start runs nobody else can sign in and nothing else is stored, so its
\* list stays that of the driver.
OpOK(p) ==
    LET o == op[p] IN
    /\ active[p] # None => user[p] \in Driver
    /\ o.kind = "start" =>
          /\ o.driver \in Driver /\ user[p] = o.driver
          /\ o.vehicle \in Vehicle
          /\ active[p] = None
          /\ o.todo = Unconfirmed(p, o.driver)
    /\ o.kind = "end" => active[p] # None
    /\ o.kind \notin {"start", "end"} => o.call = None

\* What phone p waits for.
AwaitedOK(p) ==
    LET o == op[p]
        c == req[o.call]
    IN o.call # None =>
          /\ c.pc # "free"
          /\ o.kind = "end" => EndCall(c)
          /\ o.kind = "start" => c.driver = o.driver
          /\ o.kind = "start" /\ o.todo = {} => StartCall(c)
          /\ o.kind = "start" /\ o.todo # {} =>
                /\ EndCall(c) /\ c.trip \in o.todo
                /\ EndedOr404(o.call) => trips[c.trip].status = "completed"

OneWaits ==
    \A p, q \in Phone : op[p].call # None /\ op[p].call = op[q].call => p = q

PhonesTyped ==
    /\ user \in [Phone -> Driver \cup {None}]
    /\ active \in [Phone -> Record \cup {None}]
    /\ ends \in [Phone -> Seq(Record)]
    /\ op \in [Phone -> Op]
    /\ disowned \subseteq Trip

PhoneOK(p) == RecordsTrue(p) /\ EndsDistinct(p) /\ OpOK(p) /\ AwaitedOK(p)

PhonesInv ==
    /\ ServerInv
    /\ PhonesTyped
    /\ \A p \in Phone : PhoneOK(p)
    /\ OneWaits
    /\ NoTripIsForgotten

-----------------------------------------------------------------------------
(* Values.                                                                  *)

LEMMA IdleIsAnOp ==
    /\ Idle \in Op /\ Idle.kind = "idle" /\ Idle.call = None
    /\ Failed \in Op /\ Failed.kind = "failed" /\ Failed.call = None
BY DEF Idle, Failed, Op

LEMMA PhonesInitial == Init => PhonesInv
<1> SUFFICES ASSUME Init PROVE PhonesInv
  OBVIOUS
<1>1. ServerInv
  BY ServerInitial DEF Init
<1>2. PhonesTyped
  BY IdleIsAnOp DEF Init, PhonesTyped
<1>3. \A p \in Phone : PhoneOK(p)
  BY IdleIsAnOp DEF Init, PhoneOK, RecordsTrue, EndsDistinct, OpOK, AwaitedOK
<1>4. OneWaits
  BY IdleIsAnOp DEF Init, OneWaits
<1>5. NoTripIsForgotten
  BY DEF Init, ServerInit, NoTripIsForgotten
<1> QED BY <1>1, <1>2, <1>3, <1>4, <1>5 DEF PhonesInv

\* clearUnconfirmedEnd keeps every stored end but the i-th, in order.
LEMMA EndsWithoutIs ==
    ASSUME PhonesTyped, NEW p \in Phone, NEW i \in DOMAIN ends[p]
    PROVE  /\ EndsWithout(p, i) \in Seq(Record)
           /\ Len(EndsWithout(p, i)) = Len(ends[p]) - 1
           /\ \A j \in 1 .. Len(ends[p]) - 1 :
                 EndsWithout(p, i)[j] = IF j < i THEN ends[p][j] ELSE ends[p][j + 1]
<1> DEFINE s == ends[p]
           n == Len(s)
           left == SubSeq(s, 1, i - 1)
           right == SubSeq(s, i + 1, n)
<1>1. s \in Seq(Record) /\ n \in Nat /\ i \in 1 .. n
  BY DEF PhonesTyped
<1>2. /\ left \in Seq(Record) /\ Len(left) = i - 1
      /\ \A j \in 1 .. i - 1 : left[j] = s[j]
  BY <1>1
<1>3. /\ right \in Seq(Record) /\ Len(right) = n - i
      /\ \A j \in 1 .. n - i : right[j] = s[i + j]
  BY <1>1
<1> HIDE DEF left, right
<1>4. /\ left \o right \in Seq(Record) /\ Len(left \o right) = (i - 1) + (n - i)
      /\ \A j \in 1 .. (i - 1) + (n - i) :
            (left \o right)[j] = IF j <= i - 1 THEN left[j] ELSE right[j - (i - 1)]
  <2>1. left \in Seq(Record) /\ right \in Seq(Record)
    BY <1>2, <1>3
  <2>2. /\ left \o right \in Seq(Record)
        /\ Len(left \o right) = Len(left) + Len(right)
        /\ \A j \in 1 .. Len(left) + Len(right) :
              (left \o right)[j] = IF j <= Len(left) THEN left[j] ELSE right[j - Len(left)]
    BY <2>1, ConcatProperties, Zenon
  <2>3. Len(left) = i - 1 /\ Len(right) = n - i
    BY <1>2, <1>3
  <2> QED BY <2>2, <2>3, Zenon
<1>5. Len(left \o right) = n - 1
  BY <1>1, <1>4
<1>6. ASSUME NEW j \in 1 .. n - 1
      PROVE  (left \o right)[j] = IF j < i THEN s[j] ELSE s[j + 1]
  <2>1. j \in 1 .. (i - 1) + (n - i)
    BY <1>1
  <2>2. (left \o right)[j] = IF j <= i - 1 THEN left[j] ELSE right[j - (i - 1)]
    BY <1>4, <2>1
  <2>3. CASE j < i
    <3>1. j \in 1 .. i - 1
      BY <1>1, <2>3
    <3> QED BY <1>1, <1>2, <2>2, <2>3, <3>1
  <2>4. CASE ~(j < i)
    <3>1. j - (i - 1) \in 1 .. n - i /\ i + (j - (i - 1)) = j + 1
      BY <1>1, <2>4
    <3>2. right[j - (i - 1)] = s[j + 1]
      BY <1>3, <3>1
    <3> QED BY <1>1, <2>2, <2>4, <3>2
  <2> QED BY <2>3, <2>4
<1> USE DEF left, right
<1> QED BY <1>4, <1>5, <1>6 DEF EndsWithout

LEMMA KeptIs ==
    ASSUME PhonesTyped, NEW p \in Phone, active[p] \in Record
    PROVE  /\ Kept(p) \in Seq(Record)
           /\ \A j \in DOMAIN ends[p] : j \in DOMAIN Kept(p) /\ Kept(p)[j] = ends[p][j]
           /\ \A k \in DOMAIN Kept(p) :
                 \/ /\ k \in DOMAIN ends[p] /\ Kept(p)[k] = ends[p][k]
                 \/ /\ k = Len(ends[p]) + 1 /\ Kept(p)[k] = active[p]
                    /\ \A j \in DOMAIN ends[p] : ends[p][j].trip # active[p].trip
           /\ \E k \in DOMAIN Kept(p) : Kept(p)[k].trip = active[p].trip
<1>1. ends[p] \in Seq(Record)
  BY DEF PhonesTyped
<1>2. CASE \E i \in DOMAIN ends[p] : ends[p][i].trip = active[p].trip
  BY <1>1, <1>2 DEF Kept
<1>3. CASE ~ \E i \in DOMAIN ends[p] : ends[p][i].trip = active[p].trip
  <2>1. Kept(p) = Append(ends[p], active[p])
    BY <1>3 DEF Kept
  <2> QED BY <1>1, <1>3, <2>1
<1> QED BY <1>2, <1>3

\* A record is not the sign of an empty store.
LEMMA RecordIsOne ==
    ASSUME NEW e \in Record
    PROVE  e # None /\ e.trip \in Trip /\ e.driver \in Driver
BY NoneIsNoRecord DEF Record

\* A record that is true keeps being so.
LEMMA TrueStays ==
    ASSUME RowsGrow, NEW e \in Record, RecordTrue(e)
    PROVE  trips'[e.trip].status # "free" /\ trips'[e.trip].driver = e.driver
BY RecordIsOne DEF RecordTrue, RowsGrow

\* The call a phone waits for is a call.
LEMMA AwaitedIsACall ==
    ASSUME PhonesTyped, NEW p \in Phone, op[p].call # None
    PROVE  op[p].call \in Request
BY DEF PhonesTyped, Op

\* Nobody waits for a call that has not been made.
LEMMA NobodyAwaits ==
    ASSUME PhonesInv, NEW r \in Request, req[r] = NoCall, NEW p \in Phone
    PROVE  op[p].call # r
BY NoneIsNobody, NoCallIsACall DEF PhonesInv, PhoneOK, AwaitedOK

-----------------------------------------------------------------------------
(* Steps of the server.                                                     *)

\* What is so of a phone stays so, whatever the server does to the call it waits
\* for and to other calls.
LEMMA ServerSidePhone ==
    ASSUME PhonesInv, NEW r \in Request, StepFacts(r), UNCHANGED phones, NEW p \in Phone
    PROVE  PhoneOK(p)'
<1>1. /\ PhonesTyped /\ RowsGrow /\ RecordsTrue(p) /\ EndsDistinct(p) /\ OpOK(p) /\ AwaitedOK(p)
      /\ user' = user /\ active' = active /\ ends' = ends /\ op' = op
  BY DEF PhonesInv, PhoneOK, StepFacts, phones
<1>2. RecordsTrue(p)'
  <2>1. active[p] # None => RecordTrue(active[p])'
    BY <1>1, TrueStays DEF PhonesTyped, RecordsTrue, RecordTrue
  <2>2. ASSUME NEW i \in DOMAIN ends[p] PROVE RecordTrue(ends[p][i])'
    <3>1. ends[p][i] \in Record
      BY <1>1 DEF PhonesTyped
    <3> QED BY <1>1, <3>1, TrueStays DEF RecordsTrue, RecordTrue
  <2> QED BY <1>1, <2>1, <2>2 DEF RecordsTrue
<1>3. EndsDistinct(p)' /\ OpOK(p)'
  BY <1>1 DEF EndsDistinct, OpOK, Unconfirmed, BelongsTo
<1>4. AwaitedOK(p)'
  <2> DEFINE o == op[p]
             q == op[p].call
             c == req[q]
  <2> SUFFICES ASSUME q # None
               PROVE  /\ req'[q].pc # "free"
                      /\ o.kind = "end" => EndCall(req'[q])
                      /\ o.kind = "start" => req'[q].driver = o.driver
                      /\ o.kind = "start" /\ o.todo = {} => StartCall(req'[q])
                      /\ o.kind = "start" /\ o.todo # {} =>
                            /\ EndCall(req'[q]) /\ req'[q].trip \in o.todo
                            /\ EndedOr404(q)' => trips'[req'[q].trip].status = "completed"
    BY <1>1 DEF AwaitedOK, EndCall, StartCall, EndedOr404
  <2>1. q \in Request
    BY <1>1, AwaitedIsACall
  <2>2. CASE q # r
    <3>1. req'[q] = c
      BY <2>1, <2>2 DEF StepFacts
    <3>2. o.kind = "start" /\ o.todo # {} /\ EndedOr404(q)' => trips'[c.trip].status = "completed"
      BY <1>1, <3>1 DEF AwaitedOK, EndCall, EndedOr404, RowsGrow
    <3> QED BY <1>1, <3>1, <3>2 DEF AwaitedOK
  <2>3. CASE q = r
    <3>1. /\ req'[q].pc # "free" /\ req'[q].driver = c.driver
          /\ StartCall(c) => StartCall(req'[q])
          /\ EndCall(c) => EndCall(req'[q]) /\ req'[q].trip = c.trip
      BY <2>3 DEF StepFacts
    <3>2. o.kind = "start" /\ o.todo # {} /\ EndedOr404(q)' => trips'[c.trip].status = "completed"
      <4> SUFFICES ASSUME o.kind = "start", o.todo # {}, EndedOr404(q)'
                   PROVE  trips'[c.trip].status = "completed"
        OBVIOUS
      <4>1. EndCall(c) /\ c.trip \in o.todo /\ o.todo = Unconfirmed(p, o.driver)
            /\ c.driver = o.driver
        BY <1>1 DEF AwaitedOK, OpOK
      <4>2. PICK i \in DOMAIN ends[p] : ends[p][i].driver = o.driver /\ ends[p][i].trip = c.trip
        BY <4>1 DEF Unconfirmed, BelongsTo
      <4>3. trips[c.trip].status # "free" /\ trips[c.trip].driver = c.driver
        BY <1>1, <4>1, <4>2 DEF RecordsTrue, RecordTrue
      <4>4. req'[q].pc \in {"ended", "notFound"}
        BY <1>1 DEF EndedOr404
      <4> QED BY <2>3, <4>1, <4>3, <4>4 DEF StepFacts
    <3> QED BY <1>1, <3>1, <3>2 DEF AwaitedOK
  <2> QED BY <2>2, <2>3
<1> QED BY <1>2, <1>3, <1>4 DEF PhoneOK

LEMMA ServerSide ==
    ASSUME PhonesInv, NEW r \in Request, ServerStep(r), UNCHANGED <<phones, disowned>>
    PROVE  PhonesInv'
<1>1. ServerInv' /\ StepFacts(r)
  BY ServerStepInv DEF PhonesInv
<1>2. PhonesTyped' /\ OneWaits'
  BY DEF PhonesInv, PhonesTyped, OneWaits, phones
<1>3. \A p \in Phone : PhoneOK(p)'
  BY <1>1, ServerSidePhone
<1>4. NoTripIsForgotten'
  <2> SUFFICES ASSUME NEW t \in Trip, trips'[t].status = "active"
               PROVE  \/ \E p \in Phone : Remembers(p, t)'
                      \/ BeingStarted(t)'
                      \/ t \in lost' \cup disowned'
    BY DEF NoTripIsForgotten
  <2>1. CASE trips[t].status = "active"
    <3>1. trips'[t].driver = trips[t].driver
      BY <1>1, <2>1 DEF StepFacts, RowsGrow
    <3>2. CASE \E p \in Phone : Remembers(p, t)
      BY <3>1, <3>2 DEF Remembers, phones
    <3>3. CASE BeingStarted(t)
      BY <1>1, <3>3 DEF StepFacts, Reply, BeingStarted
    <3>4. CASE t \in lost \cup disowned
      BY <1>1, <3>4 DEF StepFacts
    <3> QED BY <2>1, <3>2, <3>3, <3>4 DEF PhonesInv, NoTripIsForgotten
  <2>2. CASE trips[t].status # "active"
    BY <1>1, <2>2 DEF StepFacts, BeingStarted
  <2> QED BY <2>1, <2>2
<1> QED BY <1>1, <1>2, <1>3, <1>4 DEF PhonesInv

-----------------------------------------------------------------------------
(* Steps of a phone.                                                        *)

\* Nothing else of phone p is another phone's.
OnlyPhone(p) ==
    \A q \in Phone : q # p =>
        user'[q] = user[q] /\ active'[q] = active[q] /\ ends'[q] = ends[q] /\ op'[q] = op[q]

\* The calls others wait for are left alone.
OthersCalls(p) ==
    /\ \A q \in Phone : q # p /\ op[q].call # None => req'[op[q].call] = req[op[q].call]
    /\ op'[p].call # None => \A q \in Phone : q # p => op[q].call # op'[p].call

\* What phone p remembered it still does, or the trip is over or disowned; a start
\* it has heard of it remembers, or the trip is lost.
MemoryKept(p) ==
    \A t \in Trip : trips[t].status = "active" =>
        /\ Remembers(p, t) => Remembers(p, t)' \/ t \in disowned'
        /\ \A r \in Request : req[r].pc = "created" /\ req[r].trip = t =>
              req'[r] = req[r] \/ t \in lost' \/ Remembers(p, t)'

LEMMA PhoneActs ==
    ASSUME PhonesInv, NEW p \in Phone, UNCHANGED trips, ServerInv', PhonesTyped',
           lost \subseteq lost', disowned \subseteq disowned',
           OnlyPhone(p), OthersCalls(p), MemoryKept(p), PhoneOK(p)'
    PROVE  PhonesInv'
<1>1. ASSUME NEW q \in Phone, q # p PROVE PhoneOK(q)'
  <2>1. /\ user'[q] = user[q] /\ active'[q] = active[q] /\ ends'[q] = ends[q] /\ op'[q] = op[q]
        /\ RecordsTrue(q) /\ EndsDistinct(q) /\ OpOK(q) /\ AwaitedOK(q)
    BY <1>1 DEF OnlyPhone, PhonesInv, PhoneOK
  <2>2. RecordsTrue(q)' /\ EndsDistinct(q)' /\ OpOK(q)'
    BY <2>1 DEF RecordsTrue, RecordTrue, EndsDistinct, OpOK, Unconfirmed, BelongsTo
  <2>3. op[q].call # None => req'[op[q].call] = req[op[q].call]
    BY <1>1 DEF OthersCalls
  <2>4. AwaitedOK(q)'
    BY <2>1, <2>3 DEF AwaitedOK, EndCall, StartCall, EndedOr404
  <2> QED BY <2>2, <2>4 DEF PhoneOK
<1>2. OneWaits'
  BY DEF PhonesInv, OneWaits, OnlyPhone, OthersCalls
<1>3. NoTripIsForgotten'
  <2> SUFFICES ASSUME NEW t \in Trip, trips[t].status = "active"
               PROVE  \/ \E q \in Phone : Remembers(q, t)'
                      \/ BeingStarted(t)'
                      \/ t \in lost' \cup disowned'
    BY DEF NoTripIsForgotten
  <2>1. CASE \E q \in Phone : Remembers(q, t)
    <3>1. PICK q \in Phone : Remembers(q, t)
      BY <2>1
    <3>2. CASE q # p
      BY <3>1, <3>2 DEF Remembers, OnlyPhone
    <3>3. CASE q = p
      BY <3>1, <3>3 DEF MemoryKept
    <3> QED BY <3>2, <3>3
  <2>2. CASE BeingStarted(t)
    BY <2>2 DEF BeingStarted, MemoryKept
  <2>3. CASE t \in lost \cup disowned
    BY <2>3
  <2> QED BY <2>1, <2>2, <2>3 DEF PhonesInv, NoTripIsForgotten
<1> QED BY <1>1, <1>2, <1>3 DEF PhonesInv

LEMMA OpOf ==
    ASSUME PhonesTyped, NEW p \in Phone, NEW o \in Op, op' = [op EXCEPT ![p] = o]
    PROVE  /\ op' \in [Phone -> Op] /\ op'[p] = o
           /\ \A q \in Phone : q # p => op'[q] = op[q]
BY DEF PhonesTyped

\* What the phone stores is left as it is: its records, and what they remember.
LEMMA StoreSame ==
    ASSUME PhonesInv, NEW p \in Phone, UNCHANGED <<trips, active, ends>>
    PROVE  /\ RecordsTrue(p)' /\ EndsDistinct(p)'
           /\ \A t \in Trip : Remembers(p, t) => Remembers(p, t)'
           /\ \A d \in Driver : Unconfirmed(p, d)' = Unconfirmed(p, d)
BY DEF PhonesInv, PhoneOK, RecordsTrue, RecordTrue, EndsDistinct, Remembers, Unconfirmed,
   BelongsTo

LEMMA SignInInv ==
    ASSUME PhonesInv, NEW p \in Phone, NEW d \in Driver, SignIn(p, d)
    PROVE  PhonesInv'
<1>1. /\ PhonesTyped /\ OpOK(p) /\ AwaitedOK(p) /\ op[p].kind \in {"idle", "end"}
      /\ UNCHANGED <<trips, req, lost, active, ends, op, disowned>> /\ UNCHANGED server
  BY DEF PhonesInv, PhoneOK, SignIn, server
<1>2. /\ user' \in [Phone -> Driver \cup {None}] /\ user'[p] = d
      /\ \A q \in Phone : q # p => user'[q] = user[q]
  BY <1>1 DEF PhonesTyped, SignIn
<1>3. ServerInv'
  BY <1>1, SameServer DEF PhonesInv
<1>4. PhonesTyped' /\ OnlyPhone(p)
  BY <1>1, <1>2 DEF PhonesTyped, OnlyPhone
<1>5. PhoneOK(p)'
  <2>1. RecordsTrue(p)' /\ EndsDistinct(p)'
    BY <1>1, StoreSame
  <2>2. OpOK(p)' /\ AwaitedOK(p)'
    BY <1>1, <1>2 DEF OpOK, AwaitedOK, EndCall, StartCall, EndedOr404
  <2> QED BY <2>1, <2>2 DEF PhoneOK
<1>6. OthersCalls(p) /\ MemoryKept(p)
  BY <1>1, StoreSame DEF OthersCalls, MemoryKept, PhonesInv, OneWaits
<1> QED BY <1>1, <1>3, <1>4, <1>5, <1>6, PhoneActs

-----------------------------------------------------------------------------
(* Starting.                                                                *)

LEMMA StartRunInv ==
    ASSUME PhonesInv, NEW p \in Phone, NEW v \in Vehicle, StartRun(p, v)
    PROVE  PhonesInv'
<1>1. /\ PhonesTyped /\ op[p] = Idle /\ user[p] \in Driver /\ active[p] = None
      /\ UNCHANGED <<trips, req, lost, user, active, ends, disowned>> /\ UNCHANGED server
  BY DEF PhonesInv, StartRun, server, PhonesTyped
<1>2. PICK o : o = [Idle EXCEPT !.kind = "start", !.driver = user[p],
                           !.vehicle = v, !.todo = Unconfirmed(p, user[p])]
  OBVIOUS
<1>3. Unconfirmed(p, user[p]) \subseteq Trip
  BY <1>1, RecordIsOne DEF PhonesTyped, Unconfirmed
<1>4. /\ o \in Op /\ o.kind = "start" /\ o.driver = user[p] /\ o.vehicle = v
      /\ o.todo = Unconfirmed(p, user[p]) /\ o.call = None
  BY <1>1, <1>2, <1>3 DEF Idle, Op
<1>5. /\ op' \in [Phone -> Op] /\ op'[p] = o
      /\ \A q \in Phone : q # p => op'[q] = op[q]
  BY <1>1, <1>2, <1>4, OpOf DEF StartRun
<1>6. ServerInv'
  BY <1>1, SameServer DEF PhonesInv
<1>7. PhonesTyped' /\ OnlyPhone(p)
  BY <1>1, <1>5 DEF PhonesTyped, OnlyPhone
<1>8. PhoneOK(p)'
  <2>1. RecordsTrue(p)' /\ EndsDistinct(p)'
    BY <1>1, StoreSame
  <2>2. OpOK(p)' /\ AwaitedOK(p)'
    BY <1>1, <1>4, <1>5 DEF OpOK, AwaitedOK, Unconfirmed, BelongsTo
  <2> QED BY <2>1, <2>2 DEF PhoneOK
<1>9. OthersCalls(p) /\ MemoryKept(p)
  BY <1>1, <1>4, <1>5, StoreSame DEF OthersCalls, MemoryKept
<1> QED BY <1>1, <1>6, <1>7, <1>8, <1>9, PhoneActs

\* A call phone p makes, on a free connection, and waits for.
LEMMA Called ==
    ASSUME PhonesInv, NEW p \in Phone, NEW r \in Request, req[r] = NoCall,
           \A q \in Request : q # r => req'[q] = req[q],
           op'[p].call = r, UNCHANGED <<trips, active, ends>>
    PROVE  OthersCalls(p) /\ MemoryKept(p)
<1>1. \A q \in Phone : op[q].call # r
  BY NobodyAwaits
<1>2. \A q \in Phone : op[q].call # None => op[q].call \in Request
  BY AwaitedIsACall DEF PhonesInv
<1>3. req[r].pc # "created"
  BY NoCallIsACall
<1> QED BY <1>1, <1>2, <1>3, StoreSame DEF OthersCalls, MemoryKept

LEMMA SendsOK ==
    ASSUME PhonesTyped, NEW p \in Phone, NEW r \in Request, Sends(p, r)
    PROVE  /\ op' \in [Phone -> Op] /\ op'[p].call = r
           /\ op'[p].kind = op[p].kind /\ op'[p].driver = op[p].driver
           /\ op'[p].vehicle = op[p].vehicle /\ op'[p].todo = op[p].todo
           /\ \A q \in Phone : q # p => op'[q] = op[q]
<1>1. PICK o : o = [op[p] EXCEPT !.call = r]
  OBVIOUS
<1>2. op[p] \in Op
  BY DEF PhonesTyped
<1>3. /\ o \in Op /\ o.call = r /\ o.kind = op[p].kind /\ o.driver = op[p].driver
      /\ o.vehicle = op[p].vehicle /\ o.todo = op[p].todo
  BY <1>1, <1>2 DEF Op
<1>4. op' = [op EXCEPT ![p] = o]
  BY <1>1 DEF Sends
<1> QED BY <1>3, <1>4, OpOf

\* A start goes on with the list it has.
LEMMA StartGoesOn ==
    ASSUME NEW p \in Phone, OpOK(p), op[p].kind = "start", UNCHANGED <<user, active, ends>>,
           op'[p].kind = op[p].kind, op'[p].driver = op[p].driver,
           op'[p].vehicle = op[p].vehicle, op'[p].todo = op[p].todo
    PROVE  OpOK(p)'
BY DEF OpOK, Unconfirmed, BelongsTo

LEMMA SendUnconfirmedEndInv ==
    ASSUME PhonesInv, NEW p \in Phone, NEW r \in Request, SendUnconfirmedEnd(p, r)
    PROVE  PhonesInv'
<1>1. /\ PhonesTyped /\ OpOK(p) /\ op[p].kind = "start"
      /\ UNCHANGED <<trips, assigned, lost, user, active, ends, disowned>>
  BY DEF PhonesInv, PhoneOK, SendUnconfirmedEnd
<1>2. PICK i \in DOMAIN ends[p] :
        ends[p][i].trip \in op[p].todo /\ SendEnd(r, user[p], ends[p][i].trip)
  BY DEF SendUnconfirmedEnd, OldestToSend
<1>3. PICK t \in Trip : t = ends[p][i].trip
  BY <1>1, <1>2, RecordIsOne DEF PhonesTyped
<1>4. user[p] = op[p].driver /\ op[p].driver \in Driver
  BY <1>1 DEF OpOK
<1>5. /\ ServerInv' /\ \A q \in Request : q # r => req'[q] = req[q]
      /\ req'[r].pc = "end" /\ req'[r].driver = op[p].driver /\ req'[r].trip = t
  BY <1>1, <1>2, <1>3, <1>4, SendEndInv DEF PhonesInv
<1>6. /\ op' \in [Phone -> Op] /\ op'[p].call = r
      /\ op'[p].kind = op[p].kind /\ op'[p].driver = op[p].driver
      /\ op'[p].vehicle = op[p].vehicle /\ op'[p].todo = op[p].todo
      /\ \A q \in Phone : q # p => op'[q] = op[q]
  BY <1>1, SendsOK DEF SendUnconfirmedEnd
<1>7. PhonesTyped' /\ OnlyPhone(p)
  BY <1>1, <1>6 DEF PhonesTyped, OnlyPhone
<1>8. PhoneOK(p)'
  <2>1. RecordsTrue(p)' /\ EndsDistinct(p)'
    BY <1>1, StoreSame
  <2>2. OpOK(p)'
    BY <1>1, <1>6, StartGoesOn
  <2>3. AwaitedOK(p)'
    BY <1>1, <1>2, <1>3, <1>5, <1>6 DEF AwaitedOK, EndCall, EndedOr404
  <2> QED BY <2>1, <2>2, <2>3 DEF PhoneOK
<1>9. OthersCalls(p) /\ MemoryKept(p)
  BY <1>1, <1>2, <1>5, <1>6, Called DEF SendEnd
<1> QED BY <1>1, <1>5, <1>7, <1>8, <1>9, PhoneActs

LEMMA SendStartTripInv ==
    ASSUME PhonesInv, NEW p \in Phone, NEW r \in Request, SendStartTrip(p, r)
    PROVE  PhonesInv'
<1>1. /\ PhonesTyped /\ OpOK(p) /\ op[p].kind = "start" /\ op[p].todo = {}
      /\ SendStart(r, user[p], op[p].vehicle)
      /\ UNCHANGED <<trips, assigned, lost, user, active, ends, disowned>>
  BY DEF PhonesInv, PhoneOK, SendStartTrip
<1>2. user[p] = op[p].driver /\ op[p].driver \in Driver /\ op[p].vehicle \in Vehicle
  BY <1>1 DEF OpOK
<1>3. /\ ServerInv' /\ \A q \in Request : q # r => req'[q] = req[q]
      /\ req'[r].pc = "checkAssignment" /\ req'[r].driver = op[p].driver
  BY <1>1, <1>2, SendStartInv DEF PhonesInv
<1>4. /\ op' \in [Phone -> Op] /\ op'[p].call = r
      /\ op'[p].kind = op[p].kind /\ op'[p].driver = op[p].driver
      /\ op'[p].vehicle = op[p].vehicle /\ op'[p].todo = op[p].todo
      /\ \A q \in Phone : q # p => op'[q] = op[q]
  BY <1>1, SendsOK DEF SendStartTrip
<1>5. PhonesTyped' /\ OnlyPhone(p)
  BY <1>1, <1>4 DEF PhonesTyped, OnlyPhone
<1>6. PhoneOK(p)'
  <2>1. RecordsTrue(p)' /\ EndsDistinct(p)'
    BY <1>1, StoreSame
  <2>2. OpOK(p)'
    BY <1>1, <1>4, StartGoesOn
  <2>3. AwaitedOK(p)'
    BY <1>1, <1>3, <1>4 DEF AwaitedOK, StartCall, StartPC
  <2> QED BY <2>1, <2>2, <2>3 DEF PhoneOK
<1>7. OthersCalls(p) /\ MemoryKept(p)
  BY <1>1, <1>3, <1>4, Called DEF SendStart
<1> QED BY <1>1, <1>3, <1>5, <1>6, <1>7, PhoneActs

-----------------------------------------------------------------------------
(* Answers.                                                                 *)

LEMMA EndsWithoutRange ==
    ASSUME PhonesTyped, NEW p \in Phone, NEW i \in DOMAIN ends[p], NEW u, u = EndsWithout(p, i)
    PROVE  /\ u \in Seq(Record)
           /\ \A k \in DOMAIN u : \E j \in DOMAIN ends[p] : j # i /\ u[k] = ends[p][j]
           /\ \A j \in DOMAIN ends[p] : j # i => \E k \in DOMAIN u : u[k] = ends[p][j]
           /\ EndsDistinct(p) => \A k, l \in DOMAIN u : u[k].trip = u[l].trip => k = l
<1> DEFINE s == ends[p]
<1>1. s \in Seq(Record) /\ Len(s) \in Nat /\ i \in 1 .. Len(s) /\ DOMAIN s = 1 .. Len(s)
  BY DEF PhonesTyped
<1>2. /\ u \in Seq(Record) /\ Len(u) = Len(s) - 1
      /\ \A j \in 1 .. Len(s) - 1 : u[j] = IF j < i THEN s[j] ELSE s[j + 1]
  BY EndsWithoutIs
<1>3. DOMAIN u = 1 .. Len(s) - 1
  BY <1>2
<1>4. \A k \in DOMAIN u : \E j \in DOMAIN s : j # i /\ u[k] = s[j]
  <2> SUFFICES ASSUME NEW k \in 1 .. Len(s) - 1
               PROVE  \E j \in 1 .. Len(s) : j # i /\ u[k] = s[j]
    BY <1>1, <1>3
  <2>1. CASE k < i
    BY <1>1, <1>2, <2>1
  <2>2. CASE ~(k < i)
    <3>1. k + 1 \in 1 .. Len(s) /\ k + 1 # i
      BY <1>1, <2>2
    <3> QED BY <1>2, <2>2, <3>1
  <2> QED BY <2>1, <2>2
<1>5. \A j \in DOMAIN s : j # i => \E k \in DOMAIN u : u[k] = s[j]
  <2> SUFFICES ASSUME NEW j \in 1 .. Len(s), j # i
               PROVE  \E k \in 1 .. Len(s) - 1 : u[k] = s[j]
    BY <1>1, <1>3
  <2>1. CASE j < i
    <3>1. j \in 1 .. Len(s) - 1
      BY <1>1, <2>1
    <3> QED BY <1>2, <2>1, <3>1
  <2>2. CASE ~(j < i)
    <3>1. j - 1 \in 1 .. Len(s) - 1 /\ ~(j - 1 < i) /\ (j - 1) + 1 = j
      BY <1>1, <2>2
    <3> QED BY <1>2, <3>1
  <2> QED BY <2>1, <2>2
<1>6. ASSUME EndsDistinct(p), NEW k \in DOMAIN u, NEW l \in DOMAIN u, u[k].trip = u[l].trip
      PROVE  k = l
  <2>1. k \in 1 .. Len(s) - 1 /\ l \in 1 .. Len(s) - 1
    BY <1>3
  <2>2. PICK a \in 1 .. Len(s) : u[k] = s[a] /\ a = IF k < i THEN k ELSE k + 1
    BY <1>1, <1>2, <2>1
  <2>3. PICK b \in 1 .. Len(s) : u[l] = s[b] /\ b = IF l < i THEN l ELSE l + 1
    BY <1>1, <1>2, <2>1
  <2>4. a = b
    BY <1>1, <1>6, <2>2, <2>3 DEF EndsDistinct
  <2> QED BY <1>1, <2>1, <2>2, <2>3, <2>4
<1> QED BY <1>2, <1>4, <1>5, <1>6

\* Phone p has heard of the call it waited for, and waits no more.
LEMMA Heard ==
    ASSUME PhonesInv, NEW p \in Phone, NEW r \in Request, op[p].call = r,
           Forget(r), UNCHANGED <<trips, assigned>>, lost \subseteq lost', lost' \subseteq Trip,
           op'[p].call = None
    PROVE  /\ ServerInv' /\ OthersCalls(p)
           /\ \A q \in Request : q # r => req'[q] = req[q]
<1>1. ServerInv' /\ \A q \in Request : q # r => req'[q] = req[q]
  BY ForgetInv DEF PhonesInv
<1>2. \A q \in Phone : q # p /\ op[q].call # None => op[q].call \in Request /\ op[q].call # r
  BY AwaitedIsACall DEF PhonesInv, OneWaits
<1> QED BY <1>1, <1>2 DEF OthersCalls

LEMMA LostIsTyped ==
    ASSUME PhonesInv
    PROVE  /\ lost \subseteq Trip
           /\ \A r \in Request : req[r].pc = "created" => req[r].trip \in Trip
BY DEF PhonesInv, ServerInv, ServerTypeOK, CallOK

\* The stored end of a trip that is over is cleared, and struck off the list.
LEMMA EndCleared ==
    ASSUME PhonesInv, NEW p \in Phone, NEW r \in Request, NEW i \in DOMAIN ends[p],
           op[p].kind = "start", op[p].call = r, op[p].todo # {}, EndedOr404(r), Forget(r),
           ends[p][i].trip = req[r].trip, ends' = [ends EXCEPT ![p] = EndsWithout(p, i)],
           op' = [op EXCEPT ![p] = [op[p] EXCEPT !.todo = @ \ {req[r].trip}, !.call = None]],
           UNCHANGED <<trips, assigned, lost, user, active, disowned>>
    PROVE  PhonesInv'
<1> DEFINE t == req[r].trip
<1>1. /\ PhonesTyped /\ RecordsTrue(p) /\ EndsDistinct(p) /\ OpOK(p) /\ AwaitedOK(p)
      /\ r # None
  BY NoneIsNobody DEF PhonesInv, PhoneOK
<1>2. EndCall(req[r]) /\ trips[t].status = "completed"
  BY <1>1 DEF AwaitedOK
<1>3. PICK o : o = [op[p] EXCEPT !.todo = @ \ {t}, !.call = None]
  OBVIOUS
<1>4. op[p] \in Op
  BY <1>1 DEF PhonesTyped
<1>5. /\ o \in Op /\ o.kind = "start" /\ o.driver = op[p].driver /\ o.vehicle = op[p].vehicle
      /\ o.todo = op[p].todo \ {t} /\ o.call = None
  BY <1>3, <1>4 DEF Op
<1>6. op' = [op EXCEPT ![p] = o]
  BY <1>3
<1>7. /\ op' \in [Phone -> Op] /\ op'[p] = o
      /\ \A q \in Phone : q # p => op'[q] = op[q]
  BY <1>1, <1>5, <1>6, OpOf
<1>8. PICK u : u = EndsWithout(p, i)
  OBVIOUS
<1>9. /\ u \in Seq(Record)
      /\ \A k \in DOMAIN u : \E j \in DOMAIN ends[p] : j # i /\ u[k] = ends[p][j]
      /\ \A j \in DOMAIN ends[p] : j # i => \E k \in DOMAIN u : u[k] = ends[p][j]
      /\ \A k, l \in DOMAIN u : u[k].trip = u[l].trip => k = l
  BY <1>1, <1>8, EndsWithoutRange
<1>10. /\ ends' \in [Phone -> Seq(Record)] /\ ends'[p] = u
       /\ \A q \in Phone : q # p => ends'[q] = ends[q]
  BY <1>1, <1>8, <1>9 DEF PhonesTyped
<1>11. /\ ServerInv' /\ OthersCalls(p)
       /\ \A q \in Request : q # r => req'[q] = req[q]
  BY <1>5, <1>7, Heard, LostIsTyped
<1>12. PhonesTyped' /\ OnlyPhone(p)
  BY <1>1, <1>7, <1>10 DEF PhonesTyped, OnlyPhone
<1>13. RecordsTrue(p)' /\ EndsDistinct(p)'
  BY <1>1, <1>9, <1>10 DEF RecordsTrue, RecordTrue, EndsDistinct
<1>14. o.todo = {u[k].trip : k \in {j \in DOMAIN u : u[j].driver = o.driver}}
  <2>1. op[p].todo = {ends[p][k].trip : k \in {j \in DOMAIN ends[p] : ends[p][j].driver = o.driver}}
    BY <1>1, <1>5 DEF OpOK, Unconfirmed, BelongsTo
  <2>2. ASSUME NEW x \in o.todo
        PROVE  \E k \in DOMAIN u : u[k].driver = o.driver /\ x = u[k].trip
    <3>1. PICK j \in DOMAIN ends[p] : ends[p][j].driver = o.driver /\ x = ends[p][j].trip
      BY <1>5, <2>1
    <3>2. j # i
      BY <1>5, <3>1
    <3>3. PICK k \in DOMAIN u : u[k] = ends[p][j]
      BY <1>9, <3>2, Zenon
    <3> QED BY <3>1, <3>3
  <2>3. ASSUME NEW k \in DOMAIN u, u[k].driver = o.driver
        PROVE  u[k].trip \in o.todo
    <3>1. PICK j \in DOMAIN ends[p] : j # i /\ u[k] = ends[p][j]
      BY <1>9
    <3>2. u[k].trip \in op[p].todo
      BY <2>1, <2>3, <3>1
    <3>3. u[k].trip # t
      BY <1>1, <3>1 DEF EndsDistinct
    <3> QED BY <1>5, <3>2, <3>3
  <2> QED BY <2>2, <2>3
<1>15. OpOK(p)'
  <2>1. Unconfirmed(p, op[p].driver)' = o.todo
    <3>1. ASSUME NEW s, NEW d, s = ends'[p], d = op'[p].driver
          PROVE  Unconfirmed(p, op[p].driver)' =
                   {s[k].trip : k \in {j \in DOMAIN s : s[j].driver = d}}
      BY <3>1 DEF Unconfirmed, BelongsTo
    <3>2. u = ends'[p] /\ o.driver = op'[p].driver
      BY <1>7, <1>10
    <3>3. Unconfirmed(p, op[p].driver)' =
            {u[k].trip : k \in {j \in DOMAIN u : u[j].driver = o.driver}}
      BY <3>1, <3>2
    <3> QED BY <1>14, <3>3
  <2> QED BY <1>1, <1>5, <1>7, <2>1 DEF OpOK
<1>16. AwaitedOK(p)'
  BY <1>5, <1>7 DEF AwaitedOK
<1>17. MemoryKept(p)
  <2> SUFFICES ASSUME NEW x \in Trip, trips[x].status = "active"
               PROVE  /\ Remembers(p, x) => Remembers(p, x)'
                      /\ \A q \in Request : req[q].pc = "created" => req'[q] = req[q]
    BY DEF MemoryKept
  <2>1. x # t
    BY <1>2
  <2>2. \A j \in DOMAIN ends[p] : ends[p][j] = [trip |-> x, driver |-> trips[x].driver] => j # i
    BY <2>1
  <2>3. Remembers(p, x) => Remembers(p, x)'
    <3>1. CASE active[p] = [trip |-> x, driver |-> trips[x].driver]
      BY <3>1 DEF Remembers
    <3>2. ASSUME NEW j \in DOMAIN ends[p], ends[p][j] = [trip |-> x, driver |-> trips[x].driver]
          PROVE  Remembers(p, x)'
      <4>1. PICK k \in DOMAIN u : u[k] = ends[p][j]
        BY <1>9, <2>2, <3>2, Zenon
      <4> QED BY <1>10, <3>2, <4>1 DEF Remembers
    <3> QED BY <3>1, <3>2 DEF Remembers
  <2>4. \A q \in Request : req[q].pc = "created" => req'[q] = req[q]
    BY <1>2, <1>11 DEF EndCall
  <2> QED BY <2>3, <2>4
<1> QED BY <1>11, <1>12, <1>13, <1>15, <1>16, <1>17, PhoneActs DEF PhoneOK

\* Phone p is done, and what it stores is left as it is: the start is given up, an
\* end has failed, or nobody waits any more.
LEMMA BecomesIdle ==
    ASSUME PhonesInv, NEW p \in Phone, NEW o \in {Idle, Failed},
           op' = [op EXCEPT ![p] = o], UNCHANGED <<user, active, ends, disowned>>
    PROVE  /\ PhonesTyped' /\ OnlyPhone(p) /\ op'[p].call = None
           /\ UNCHANGED trips => PhoneOK(p)'
<1>1. PhonesTyped /\ OpOK(p)
  BY DEF PhonesInv, PhoneOK
<1>2. o \in Op /\ o.call = None /\ o.kind \in {"idle", "failed"}
  BY IdleIsAnOp
<1>3. /\ op' \in [Phone -> Op] /\ op'[p] = o
      /\ \A q \in Phone : q # p => op'[q] = op[q]
  BY <1>1, <1>2, OpOf
<1>4. PhonesTyped' /\ OnlyPhone(p)
  BY <1>1, <1>3 DEF PhonesTyped, OnlyPhone
<1>5. OpOK(p)' /\ AwaitedOK(p)'
  BY <1>1, <1>2, <1>3 DEF OpOK, AwaitedOK
<1>6. UNCHANGED trips => RecordsTrue(p)' /\ EndsDistinct(p)'
  BY StoreSame
<1> QED BY <1>2, <1>3, <1>4, <1>5, <1>6 DEF PhoneOK

LEMMA UnconfirmedEndReplyInv ==
    ASSUME PhonesInv, NEW p \in Phone, NEW r \in Request, UnconfirmedEndReply(p, r)
    PROVE  PhonesInv'
<1>1. /\ op[p].kind = "start" /\ op[p].call = r /\ op[p].todo # {} /\ Forget(r)
      /\ UNCHANGED <<trips, assigned, lost, user, active, disowned>>
  BY DEF UnconfirmedEndReply, Awaits
<1>2. ASSUME EndedOr404(r), NEW i \in DOMAIN ends[p], ends[p][i].trip = req[r].trip,
             ends' = [ends EXCEPT ![p] = EndsWithout(p, i)],
             op' = [op EXCEPT ![p] = [op[p] EXCEPT !.todo = @ \ {req[r].trip}, !.call = None]]
      PROVE  PhonesInv'
  BY <1>1, <1>2, EndCleared
<1>3. ASSUME op' = [op EXCEPT ![p] = StartGivenUp(p)], UNCHANGED ends
      PROVE  PhonesInv'
  <2>1. op' = [op EXCEPT ![p] = Idle]
    BY <1>3 DEF StartGivenUp
  <2>2. PhonesTyped' /\ OnlyPhone(p) /\ op'[p].call = None /\ PhoneOK(p)'
    BY <1>1, <1>3, <2>1, BecomesIdle
  <2>3. /\ ServerInv' /\ OthersCalls(p)
        /\ \A q \in Request : q # r => req'[q] = req[q]
    BY <1>1, <2>2, Heard, LostIsTyped
  <2>4. req[r].pc # "created"
    BY <1>1, NoneIsNobody DEF PhonesInv, PhoneOK, AwaitedOK, EndCall
  <2>5. MemoryKept(p)
    BY <1>1, <1>3, <2>3, <2>4, StoreSame DEF MemoryKept
  <2> QED BY <1>1, <2>2, <2>3, <2>5, PhoneActs
<1> QED BY <1>2, <1>3 DEF UnconfirmedEndReply

LEMMA StartReplyInv ==
    ASSUME PhonesInv, NEW p \in Phone, NEW r \in Request, StartReply(p, r)
    PROVE  PhonesInv'
<1>1. /\ op[p].kind = "start" /\ op[p].call = r /\ op[p].todo = {} /\ Forget(r) /\ r # None
      /\ op' = [op EXCEPT ![p] = Idle]
      /\ UNCHANGED <<trips, assigned, user, ends, disowned>>
      /\ PhonesTyped /\ RecordsTrue(p) /\ OpOK(p) /\ AwaitedOK(p) /\ EndsDistinct(p)
  BY NoneIsNobody DEF StartReply, Awaits, PhonesInv, PhoneOK
<1>2. ASSUME req[r].pc = "created", UNCHANGED lost,
             active' = [active EXCEPT ![p] = [trip |-> req[r].trip, driver |-> op[p].driver]]
      PROVE  PhonesInv'
  <2>1. PICK e : e = [trip |-> req[r].trip, driver |-> op[p].driver]
    OBVIOUS
  <2>2. /\ req[r].trip \in Trip /\ trips[req[r].trip].status # "free"
        /\ trips[req[r].trip].driver = req[r].driver /\ req[r].driver = op[p].driver
        /\ op[p].driver \in Driver /\ user[p] = op[p].driver
    BY <1>1, <1>2 DEF PhonesInv, ServerInv, CallOK, AwaitedOK, OpOK
  <2>3. /\ e \in Record /\ RecordTrue(e)
        /\ e = [trip |-> req[r].trip, driver |-> trips[req[r].trip].driver]
    BY <2>1, <2>2 DEF Record, RecordTrue
  <2>4. /\ active' \in [Phone -> Record \cup {None}] /\ active'[p] = e
        /\ \A q \in Phone : q # p => active'[q] = active[q]
    BY <1>1, <1>2, <2>1, <2>3 DEF PhonesTyped
  <2>5. /\ op' \in [Phone -> Op] /\ op'[p] = Idle
        /\ \A q \in Phone : q # p => op'[q] = op[q]
    BY <1>1, IdleIsAnOp, OpOf
  <2>6. /\ ServerInv' /\ OthersCalls(p)
        /\ \A q \in Request : q # r => req'[q] = req[q]
    BY <1>1, <1>2, <2>5, IdleIsAnOp, Heard, LostIsTyped
  <2>7. PhonesTyped' /\ OnlyPhone(p)
    BY <1>1, <2>4, <2>5 DEF PhonesTyped, OnlyPhone
  <2>8. RecordsTrue(p)' /\ EndsDistinct(p)'
    BY <1>1, <2>3, <2>4 DEF RecordsTrue, RecordTrue, EndsDistinct
  <2>9. OpOK(p)' /\ AwaitedOK(p)'
    BY <1>1, <2>2, <2>5, IdleIsAnOp DEF OpOK, AwaitedOK
  <2>10. MemoryKept(p)
    <3>1. active[p] = None
      BY <1>1 DEF OpOK
    <3>2. \A t \in Trip : trips[t].status = "active" /\ Remembers(p, t) => Remembers(p, t)'
      <4> SUFFICES ASSUME NEW t \in Trip, trips[t].status = "active", Remembers(p, t)
                   PROVE  Remembers(p, t)'
        OBVIOUS
      <4>1. trips[t].driver \in Driver
        BY DEF PhonesInv, ServerInv, Owned
      <4>2. active[p] # [trip |-> t, driver |-> trips[t].driver]
        BY <3>1, <4>1, NoneIsNoRecord DEF Record
      <4> QED BY <1>1, <4>2 DEF Remembers
    <3>3. \A t \in Trip : req[r].trip = t => Remembers(p, t)'
      BY <1>1, <2>3, <2>4 DEF Remembers
    <3> QED BY <2>6, <3>2, <3>3 DEF MemoryKept
  <2> QED BY <1>1, <1>2, <2>6, <2>7, <2>8, <2>9, <2>10, PhoneActs DEF PhoneOK
<1>3. ASSUME lost' = IF req[r].pc = "created" THEN lost \cup {req[r].trip} ELSE lost,
             UNCHANGED active
      PROVE  PhonesInv'
  <2>1. lost \subseteq lost' /\ lost' \subseteq Trip
    BY <1>3, LostIsTyped
  <2>2. PhonesTyped' /\ OnlyPhone(p) /\ op'[p].call = None /\ PhoneOK(p)'
    BY <1>1, <1>3, BecomesIdle
  <2>3. /\ ServerInv' /\ OthersCalls(p)
        /\ \A q \in Request : q # r => req'[q] = req[q]
    BY <1>1, <2>1, <2>2, Heard
  <2>4. MemoryKept(p)
    BY <1>1, <1>3, <2>3, StoreSame DEF MemoryKept
  <2> QED BY <1>1, <2>1, <2>2, <2>3, <2>4, PhoneActs
<1> QED BY <1>2, <1>3 DEF StartReply

-----------------------------------------------------------------------------
(* Ending.                                                                  *)

LEMMA EndInvOfPhone ==
    ASSUME PhonesInv, NEW p \in Phone, NEW r \in Request, End(p, r)
    PROVE  PhonesInv'
<1>1. /\ PhonesTyped /\ OpOK(p) /\ RecordsTrue(p) /\ active[p] \in Record
      /\ SendEnd(r, user[p], active[p].trip)
      /\ UNCHANGED <<trips, assigned, lost, user, active, ends, disowned>>
  BY DEF PhonesInv, PhoneOK, End, PhonesTyped
<1>2. active[p] # None /\ active[p].trip \in Trip /\ user[p] \in Driver
  BY <1>1, RecordIsOne DEF OpOK
<1>3. /\ ServerInv' /\ \A q \in Request : q # r => req'[q] = req[q]
      /\ req'[r].pc = "end" /\ req'[r].trip = active[p].trip
  BY <1>1, <1>2, SendEndInv DEF PhonesInv
<1>4. PICK o : o = [Idle EXCEPT !.kind = "end", !.call = r]
  OBVIOUS
<1>5. o \in Op /\ o.kind = "end" /\ o.call = r
  BY <1>4 DEF Idle, Op
<1>6. /\ op' \in [Phone -> Op] /\ op'[p] = o
      /\ \A q \in Phone : q # p => op'[q] = op[q]
  BY <1>1, <1>4, <1>5, OpOf DEF End
<1>7. PhonesTyped' /\ OnlyPhone(p)
  BY <1>1, <1>6 DEF PhonesTyped, OnlyPhone
<1>8. PhoneOK(p)'
  <2>1. RecordsTrue(p)' /\ EndsDistinct(p)'
    BY <1>1, StoreSame
  <2>2. OpOK(p)'
    BY <1>1, <1>2, <1>5, <1>6 DEF OpOK
  <2>3. AwaitedOK(p)'
    BY <1>2, <1>3, <1>5, <1>6 DEF AwaitedOK, EndCall
  <2> QED BY <2>1, <2>2, <2>3 DEF PhoneOK
<1>9. OthersCalls(p) /\ MemoryKept(p)
  BY <1>1, <1>3, <1>5, <1>6, Called DEF SendEnd
<1> QED BY <1>1, <1>3, <1>7, <1>8, <1>9, PhoneActs

LEMMA EndReplyInv ==
    ASSUME PhonesInv, NEW p \in Phone, NEW r \in Request, EndReply(p, r)
    PROVE  PhonesInv'
<1>1. /\ op[p].kind = "end" /\ op[p].call = r /\ Forget(r) /\ r # None
      /\ UNCHANGED <<trips, assigned, lost, user, ends>>
      /\ PhonesTyped /\ RecordsTrue(p) /\ OpOK(p) /\ AwaitedOK(p) /\ EndsDistinct(p)
  BY NoneIsNobody DEF EndReply, Awaits, PhonesInv, PhoneOK
<1>2. active[p] \in Record /\ active[p] # None /\ req[r].pc # "created"
  BY <1>1 DEF OpOK, AwaitedOK, PhonesTyped, EndCall
<1> DEFINE t == active[p].trip
<1>3. t \in Trip
  BY <1>2, RecordIsOne
<1>4. ASSUME active' = [active EXCEPT ![p] = None], op' = [op EXCEPT ![p] = Idle],
             disowned' = IF trips[t].status = "active" THEN disowned \cup {t} ELSE disowned
      PROVE  PhonesInv'
  <2>1. /\ active' \in [Phone -> Record \cup {None}] /\ active'[p] = None
        /\ \A q \in Phone : q # p => active'[q] = active[q]
    BY <1>1, <1>4 DEF PhonesTyped
  <2>2. /\ op' \in [Phone -> Op] /\ op'[p] = Idle
        /\ \A q \in Phone : q # p => op'[q] = op[q]
    BY <1>1, <1>4, IdleIsAnOp, OpOf
  <2>3. /\ ServerInv' /\ OthersCalls(p)
        /\ \A q \in Request : q # r => req'[q] = req[q]
    BY <1>1, <2>2, IdleIsAnOp, Heard, LostIsTyped
  <2>4. PhonesTyped' /\ OnlyPhone(p) /\ disowned \subseteq disowned'
    BY <1>1, <1>3, <1>4, <2>1, <2>2 DEF PhonesTyped, OnlyPhone
  <2>5. RecordsTrue(p)' /\ EndsDistinct(p)'
    BY <1>1, <2>1 DEF RecordsTrue, RecordTrue, EndsDistinct
  <2>6. OpOK(p)' /\ AwaitedOK(p)'
    BY <2>1, <2>2, IdleIsAnOp DEF OpOK, AwaitedOK
  <2>7. MemoryKept(p)
    <3>1. ASSUME NEW x \in Trip, trips[x].status = "active", Remembers(p, x)
          PROVE  Remembers(p, x)' \/ x \in disowned'
      <4>1. CASE active[p] = [trip |-> x, driver |-> trips[x].driver]
        BY <1>4, <3>1, <4>1
      <4>2. CASE \E i \in DOMAIN ends[p] : ends[p][i] = [trip |-> x, driver |-> trips[x].driver]
        BY <1>1, <4>2 DEF Remembers
      <4> QED BY <3>1, <4>1, <4>2 DEF Remembers
    <3> QED BY <1>2, <2>3, <3>1 DEF MemoryKept
  <2> QED BY <1>1, <2>3, <2>4, <2>5, <2>6, <2>7, PhoneActs DEF PhoneOK
<1>5. ASSUME op' = [op EXCEPT ![p] = Failed], UNCHANGED <<active, disowned>>
      PROVE  PhonesInv'
  <2>1. PhonesTyped' /\ OnlyPhone(p) /\ op'[p].call = None /\ PhoneOK(p)'
    BY <1>1, <1>5, BecomesIdle
  <2>2. /\ ServerInv' /\ OthersCalls(p)
        /\ \A q \in Request : q # r => req'[q] = req[q]
    BY <1>1, <2>1, Heard, LostIsTyped
  <2>3. MemoryKept(p)
    BY <1>1, <1>2, <1>5, <2>2, StoreSame DEF MemoryKept
  <2> QED BY <1>1, <1>5, <2>1, <2>2, <2>3, PhoneActs
<1> QED BY <1>4, <1>5 DEF EndReply

LEMMA EndLocallyInv ==
    ASSUME PhonesInv, NEW p \in Phone, EndLocally(p)
    PROVE  PhonesInv'
<1>1. /\ op[p].kind = "failed" /\ active[p] # None
      /\ UNCHANGED <<trips, req, lost, user, disowned>> /\ UNCHANGED server
      /\ PhonesTyped /\ RecordsTrue(p) /\ OpOK(p) /\ AwaitedOK(p) /\ EndsDistinct(p)
  BY DEF EndLocally, PhonesInv, PhoneOK, server
<1>2. active[p] \in Record
  BY <1>1 DEF PhonesTyped
<1>3. PICK u : u = Kept(p)
  OBVIOUS
<1>4. /\ u \in Seq(Record)
      /\ \A j \in DOMAIN ends[p] : j \in DOMAIN u /\ u[j] = ends[p][j]
      /\ \A k \in DOMAIN u :
            \/ /\ k \in DOMAIN ends[p] /\ u[k] = ends[p][k]
            \/ /\ k = Len(ends[p]) + 1 /\ u[k] = active[p]
               /\ \A j \in DOMAIN ends[p] : ends[p][j].trip # active[p].trip
      /\ \E k \in DOMAIN u : u[k].trip = active[p].trip
  BY <1>1, <1>2, <1>3, KeptIs
<1>5. /\ ends' \in [Phone -> Seq(Record)] /\ ends'[p] = u
      /\ \A q \in Phone : q # p => ends'[q] = ends[q]
  BY <1>1, <1>3, <1>4 DEF PhonesTyped, EndLocally
<1>6. /\ active' \in [Phone -> Record \cup {None}] /\ active'[p] = None
      /\ \A q \in Phone : q # p => active'[q] = active[q]
  BY <1>1 DEF PhonesTyped, EndLocally
<1>7. /\ op' \in [Phone -> Op] /\ op'[p] = Idle
      /\ \A q \in Phone : q # p => op'[q] = op[q]
  BY <1>1, IdleIsAnOp, OpOf DEF EndLocally
<1>8. ServerInv'
  BY <1>1, SameServer DEF PhonesInv
<1>9. PhonesTyped' /\ OnlyPhone(p)
  BY <1>1, <1>5, <1>6, <1>7 DEF PhonesTyped, OnlyPhone
<1>10. \A k \in DOMAIN u : RecordTrue(u[k])
  BY <1>1, <1>4 DEF RecordsTrue
<1>11. RecordsTrue(p)'
  BY <1>1, <1>5, <1>6, <1>10 DEF RecordsTrue, RecordTrue
<1>12. EndsDistinct(p)'
  BY <1>1, <1>4, <1>5 DEF EndsDistinct
<1>13. OpOK(p)' /\ AwaitedOK(p)'
  BY <1>6, <1>7, IdleIsAnOp DEF OpOK, AwaitedOK
<1>14. OthersCalls(p)
  BY <1>1, <1>7, IdleIsAnOp DEF OthersCalls
<1>15. MemoryKept(p)
  <2>1. ASSUME NEW x \in Trip, Remembers(p, x)
        PROVE  Remembers(p, x)'
    <3>1. CASE active[p] = [trip |-> x, driver |-> trips[x].driver]
      <4>1. PICK k \in DOMAIN u : u[k].trip = active[p].trip
        BY <1>4
      <4>2. u[k] \in Record /\ u[k].trip = x /\ u[k].driver = trips[x].driver
        BY <1>4, <1>10, <3>1, <4>1 DEF RecordTrue
      <4>3. u[k] = [trip |-> x, driver |-> trips[x].driver]
        BY <4>2 DEF Record
      <4> QED BY <1>1, <1>5, <4>3 DEF Remembers
    <3>2. ASSUME NEW i \in DOMAIN ends[p], ends[p][i] = [trip |-> x, driver |-> trips[x].driver]
          PROVE  Remembers(p, x)'
      BY <1>1, <1>4, <1>5, <3>2 DEF Remembers
    <3> QED BY <2>1, <3>1, <3>2 DEF Remembers
  <2> QED BY <1>1, <2>1 DEF MemoryKept
<1> QED BY <1>1, <1>8, <1>9, <1>11, <1>12, <1>13, <1>14, <1>15, PhoneActs DEF PhoneOK

-----------------------------------------------------------------------------
(* Calls that are not waited for.                                           *)

LEMMA GiveUpInv ==
    ASSUME PhonesInv, NEW p \in Phone, GiveUp(p)
    PROVE  PhonesInv'
<1>1. PICK o \in {Idle, Failed} : op' = [op EXCEPT ![p] = o]
  BY DEF GiveUp
<1>2. UNCHANGED <<trips, req, lost, user, active, ends, disowned>> /\ UNCHANGED server
  BY DEF GiveUp, server
<1>3. PhonesTyped' /\ OnlyPhone(p) /\ op'[p].call = None /\ PhoneOK(p)'
  BY <1>1, <1>2, BecomesIdle
<1>4. ServerInv'
  BY <1>2, SameServer DEF PhonesInv
<1>5. OthersCalls(p) /\ MemoryKept(p)
  BY <1>2, <1>3, StoreSame DEF OthersCalls, MemoryKept
<1> QED BY <1>2, <1>3, <1>4, <1>5, PhoneActs

\* Nothing on the phones changes, and no call that one of them waits for.
LEMMA PhonesSame ==
    ASSUME PhonesInv, UNCHANGED phones, UNCHANGED <<trips, disowned>>,
           \A p \in Phone : op[p].call # None => req'[op[p].call] = req[op[p].call]
    PROVE  PhonesTyped' /\ OneWaits' /\ \A p \in Phone : PhoneOK(p)'
<1>1. user' = user /\ active' = active /\ ends' = ends /\ op' = op
  BY DEF phones
<1>2. PhonesTyped' /\ OneWaits'
  BY <1>1 DEF PhonesInv, PhonesTyped, OneWaits
<1>3. ASSUME NEW p \in Phone PROVE PhoneOK(p)'
  <2>1. OpOK(p)' /\ RecordsTrue(p)' /\ EndsDistinct(p)'
    BY <1>1 DEF PhonesInv, PhoneOK, OpOK, Unconfirmed, BelongsTo, RecordsTrue, RecordTrue,
       EndsDistinct
  <2>2. AwaitedOK(p)'
    BY <1>1 DEF PhonesInv, PhoneOK, AwaitedOK, EndCall, StartCall, EndedOr404
  <2> QED BY <2>1, <2>2 DEF PhoneOK
<1> QED BY <1>2, <1>3

LEMMA DropReplyInv ==
    ASSUME PhonesInv, NEW r \in Request, DropReply(r)
    PROVE  PhonesInv'
<1>1. /\ UNCHANGED <<trips, assigned, disowned>> /\ UNCHANGED phones /\ Forget(r)
      /\ lost' = IF req[r].pc = "created" THEN lost \cup {req[r].trip} ELSE lost
      /\ \A p \in Phone : op[p].call # r
  BY DEF DropReply, Awaits
<1>2. lost \subseteq lost' /\ lost' \subseteq Trip
  BY <1>1, LostIsTyped
<1>3. ServerInv' /\ \A q \in Request : q # r => req'[q] = req[q]
  BY <1>1, <1>2, ForgetInv DEF PhonesInv
<1>4. \A p \in Phone : op[p].call # None => req'[op[p].call] = req[op[p].call]
  BY <1>1, <1>3, AwaitedIsACall DEF PhonesInv
<1>5. PhonesTyped' /\ OneWaits' /\ \A p \in Phone : PhoneOK(p)'
  BY <1>1, <1>4, PhonesSame
<1>6. NoTripIsForgotten'
  <2>1. ASSUME NEW t \in Trip, BeingStarted(t) PROVE BeingStarted(t)' \/ t \in lost'
    BY <1>1, <1>3, <2>1 DEF BeingStarted
  <2>2. ASSUME NEW t \in Trip, NEW p \in Phone, Remembers(p, t) PROVE Remembers(p, t)'
    BY <1>1, <2>2 DEF Remembers, phones
  <2> QED BY <1>1, <1>2, <2>1, <2>2 DEF PhonesInv, NoTripIsForgotten
<1> QED BY <1>3, <1>5, <1>6 DEF PhonesInv

LEMMA NothingHappens ==
    ASSUME PhonesInv, ServerInv', UNCHANGED <<trips, req, lost, phones, disowned>>
    PROVE  PhonesInv'
<1>1. PhonesTyped' /\ OneWaits' /\ \A p \in Phone : PhoneOK(p)'
  BY PhonesSame
<1>2. NoTripIsForgotten'
  BY DEF PhonesInv, NoTripIsForgotten, Remembers, BeingStarted, phones
<1> QED BY <1>1, <1>2 DEF PhonesInv

LEMMA PhonesNext ==
    ASSUME PhonesInv, [Next]_vars
    PROVE  PhonesInv'
<1>1. ASSUME NEW p \in Phone, PhoneStep(p) PROVE PhonesInv'
  <2>1. CASE \E d \in Driver : SignIn(p, d)
    BY <2>1, SignInInv
  <2>2. CASE \E v \in Vehicle : StartRun(p, v)
    BY <2>2, StartRunInv
  <2>3. CASE \E r \in Request : SendUnconfirmedEnd(p, r) \/ UnconfirmedEndReply(p, r)
    BY <2>3, SendUnconfirmedEndInv, UnconfirmedEndReplyInv
  <2>4. CASE \E r \in Request : SendStartTrip(p, r) \/ StartReply(p, r)
    BY <2>4, SendStartTripInv, StartReplyInv
  <2>5. CASE \E r \in Request : End(p, r) \/ EndReply(p, r)
    BY <2>5, EndInvOfPhone, EndReplyInv
  <2>6. CASE EndLocally(p) \/ GiveUp(p)
    BY <2>6, EndLocallyInv, GiveUpInv
  <2> QED BY <1>1, <2>1, <2>2, <2>3, <2>4, <2>5, <2>6 DEF PhoneStep
<1>2. CASE Server
  BY <1>2, ServerSide DEF Server
<1>3. CASE Administrate
  BY <1>3, AdminInv, NothingHappens DEF Administrate, PhonesInv
<1>4. CASE \E r \in Request : DropReply(r)
  BY <1>4, DropReplyInv
<1>5. CASE UNCHANGED vars
  BY <1>5, SameServer, NothingHappens DEF vars, server, PhonesInv
<1> QED BY <1>1, <1>2, <1>3, <1>4, <1>5 DEF Next

-----------------------------------------------------------------------------
(* The theorems.                                                            *)

\* Every phone's records, and every call it waits for, fit the server throughout.
THEOREM PhonesInvariant == Spec => []PhonesInv
<1>1. Init => PhonesInv
  BY PhonesInitial
<1>2. PhonesInv /\ [Next]_vars => PhonesInv'
  BY PhonesNext
<1> QED BY <1>1, <1>2, PTL DEF Spec

LEMMA StartIsNotBlocked == PhonesInv => StartIsNotBlockedByThisPhone
<1> SUFFICES ASSUME PhonesInv, NEW p \in Phone, NEW t \in Trip,
                    op[p].kind = "start", op[p].todo = {},
                    trips[t].driver = op[p].driver, Remembers(p, t)
             PROVE  FALSE
  BY DEF StartIsNotBlockedByThisPhone
<1>1. OpOK(p) /\ op[p].driver \in Driver
  BY DEF PhonesInv, PhoneOK, OpOK
<1>2. active[p] # [trip |-> t, driver |-> trips[t].driver]
  BY <1>1, NoneIsNoRecord DEF OpOK, Record
<1>3. PICK i \in DOMAIN ends[p] : ends[p][i] = [trip |-> t, driver |-> trips[t].driver]
  BY <1>2 DEF Remembers
<1>4. t \in Unconfirmed(p, op[p].driver)
  BY <1>3 DEF Unconfirmed, BelongsTo
<1> QED BY <1>1, <1>4 DEF OpOK

LEMMA PhonesInvMeans ==
    PhonesInv => TypeOK /\ OneActiveTripPerDriver /\ NoTripIsForgotten
BY DEF PhonesInv, ServerInv, TypeOK, PhonesTyped, PhoneOK, EndsDistinct

\* Every variable stays in its type, and no phone stores an end twice.
THEOREM PhonesTypeCorrect == Spec => []TypeOK
BY PhonesInvariant, PhonesInvMeans, PTL

\* The check of StartTrip and the unique index leave a driver one active trip at
\* most, however many phones start how many trips at once.
THEOREM DriverHasOneTrip == Spec => []OneActiveTripPerDriver
BY PhonesInvariant, PhonesInvMeans, PTL

\* Whatever fails, is repeated, comes late or is killed, and whoever signs in in
\* between, an open trip is stored on a phone under its driver, or its start is
\* still to be answered, or it was lost, or dropped on a 404.
THEOREM OpenTripsAreKnown == Spec => []NoTripIsForgotten
BY PhonesInvariant, PhonesInvMeans, PTL

\* When a start is sent, the server has ended every trip of the driver whose end
\* this phone still stored: endUnconfirmedTrips goes first and gives up on failure.
THEOREM StoredEndsGoFirst == Spec => []StartIsNotBlockedByThisPhone
BY PhonesInvariant, StartIsNotBlocked, PTL
=============================================================================
