-------------------------------- MODULE IosApp --------------------------------
(***************************************************************************)
(* The two halves of the iOS driver app: its trips, and its tokens.  They   *)
(* meet only in the bearer token of a call, whose refusal IosTrips counts   *)
(* among the errors a call may end with, so a run of both is for each of    *)
(* them a run of it alone; focus says which is looked at.                   *)
(***************************************************************************)
EXTENDS IosTrips, TokenRefresher

VARIABLE focus

iosVars == <<vars, appVars, focus>>

InitApp == Init /\ AppInit /\ focus \in {"trips", "tokens"}

NextApp ==
    \/ focus = "trips" /\ Next /\ UNCHANGED <<appVars, focus>>
    \/ focus = "tokens" /\ AppNext /\ UNCHANGED <<vars, focus>>

SpecApp == InitApp /\ [][NextApp]_iosVars
=============================================================================
