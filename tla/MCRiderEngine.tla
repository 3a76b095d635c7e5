---------------------------- MODULE MCRiderEngine ----------------------------
(* The instance of MCRiderRides beside one session; the ticks and thresholds *)
(* of the session are numbers in the configuration.                          *)
EXTENDS RiderEngine, MCRiderRides
=============================================================================
