------------------------------ MODULE MCUpstream ------------------------------
(* Two sources, of which one publishes a feed, its successor and a zip that   *)
(* does not index; two trusted feeds, the first of which never says which     *)
(* table it served and may be out of reach for ever.                          *)
EXTENDS Upstream, TLC

CONSTANTS agency, other, old, new, broken, foreign

TwoSources == {agency, other}
FourZips   == {old, new, broken, foreign}
Publisher  == (foreign :> other) @@ [b \in FourZips |-> agency]

Stop(n, dist, projected, hour) ==
    [sequence |-> n, dist |-> dist, projected |-> projected, arrival |-> hour, departure |-> hour]

\* By day; past midnight; before the cut-off of its own date; and between
\* platforms of one place, on a shape whose points coincide.
DayTrip   == <<Stop(2, 20, 18, 9), Stop(1, 0, 0, 8), Stop(3, 40, 40, 11)>>
LateTrip  == <<Stop(1, 0, 0, 23), Stop(2, NoDistance, NoDistance, 24), Stop(3, 4, 40, 26)>>
EarlyTrip == <<Stop(1, 0, 0, 0), Stop(2, 4, 10, 1)>>
ShortTrip == <<Stop(1, 0, 0, 9), Stop(2, 3, 0, 10)>>
BarePath  == <<>>

Weekly(days, added, removed) ==
    [days |-> days, start |-> 1, end |-> 6, added |-> added, removed |-> removed]

Along(length, stops, service) ==
    [route |-> "R", service |-> service, length |-> length, stops |-> stops]
Of(stops, service) == Along(40, stops, service)

OldFeed ==
    [services |-> ("daily" :> Weekly(0 .. 6, {8}, {3})) @@ ("never" :> Weekly({}, {}, {})),
     trips |-> ("day" :> Of(DayTrip, "daily")) @@ ("late" :> Of(LateTrip, "daily"))
               @@ ("bare" :> Of(BarePath, "daily"))
               @@ ("short" :> Along(0, ShortTrip, "daily"))
               @@ ("unshaped" :> Along(NoDistance, <<Stop(1, 0, NoDistance, 9)>>, "daily"))]

NewFeed ==
    [services |-> ("daily" :> Weekly({2, 4}, {}, {4})) @@ ("odd" :> Weekly({}, {2, 5}, {})),
     trips |-> ("day" :> Of(DayTrip, "daily")) @@ ("early" :> Of(EarlyTrip, "odd"))
               @@ ("late" :> Of(LateTrip, "odd")) @@ ("lost" :> Of(DayTrip, "none"))]

FeedOf ==
    (old :> OldFeed) @@ (new :> NewFeed) @@ (broken :> NoCopy) @@ (foreign :> OldFeed)

Hours == {24 * d + h : d \in 1 .. 8, h \in {0, 1, 2, 3, 8, 11, 23}}

TwoFeeds == {1, 2}
Tables ==
    <<<<"dated" :> 1, ("dated" :> 2) @@ ("undated" :> 1)>>,
      <<"undated" :> 1, "dated" :> 1, ("dated" :> 1) @@ ("undated" :> 3), "dated" :> 3>>>>
=============================================================================
