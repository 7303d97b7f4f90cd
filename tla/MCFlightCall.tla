----------------------------- MODULE MCFlightCall -----------------------------
(***************************************************************************)
(* FlightCall for TLC: a caller whose code is in flash, one whose code is in *)
(* SRAM, and one more to wait for the mutex behind them.                     *)
(***************************************************************************)
EXTENDS FlightCall
=============================================================================
