----------------------------- MODULE RiderEngine -----------------------------
(***************************************************************************)
(* A ride as the registry, the handlers and the tables have it (RiderRides) *)
(* and as its session judges it point by point (RideSessionLog).  RiderRides *)
(* lets a batch do to a session what RideSession allows, and no session sees *)
(* another, so each half can be looked at alone; focus says which.          *)
(***************************************************************************)
EXTENDS RiderRides, RideSessionLog

VARIABLE focus

engineVars == <<vars, logVars, focus>>

\* A session that is not looked at begins with one tier, as it does not move.
InitEngine ==
    /\ Init /\ InitLog
    /\ focus \in {"rides", "session"}
    /\ focus = "rides" => tier = "new"

NextEngine ==
    \/ focus = "rides" /\ Next /\ UNCHANGED <<logVars, focus>>
    \/ focus = "session" /\ NextLog /\ UNCHANGED <<vars, focus>>

SpecEngine == InitEngine /\ [][NextEngine]_engineVars
=============================================================================
