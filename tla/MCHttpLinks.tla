------------------------------ MODULE MCHttpLinks ------------------------------
(***************************************************************************)
(* HttpLinks for TLC: more peers than exchanges, answers longer than the     *)
(* ring, and a ring longer than a segment.                                  *)
(***************************************************************************)
EXTENDS HttpLinks
================================================================================
