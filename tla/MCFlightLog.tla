------------------------------ MODULE MCFlightLog ------------------------------
(***************************************************************************)
(* FlightLog for TLC: a ring of two rows, which three rows turn, and a tick  *)
(* of about a second: LOG_HOLDOFF_MAX_MS is two, LOG_SYNC_MS one,            *)
(* LOG_FLUSH_MS is rounded up to one and the stop's limit shortened to one. *)
(***************************************************************************)
EXTENDS FlightLog
=============================================================================
