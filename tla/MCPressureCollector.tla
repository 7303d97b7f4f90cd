------------------------- MODULE MCPressureCollector -------------------------
(***************************************************************************)
(* PressureCollector for TLC: an MS5607's two conversions a cycle, a queue   *)
(* of two and a bus clear of two clocks.                                     *)
(***************************************************************************)
EXTENDS PressureCollector
=============================================================================
