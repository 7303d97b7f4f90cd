---------------------------- MODULE MCFlightStates ----------------------------
(***************************************************************************)
(* FlightStates for TLC: two pads, one flight, and as many restarts, moves   *)
(* and plugs as each configuration gives.                                    *)
(***************************************************************************)
EXTENDS FlightStates
=============================================================================
