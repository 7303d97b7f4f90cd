---------------------------- MODULE MCFireControl ----------------------------
(***************************************************************************)
(* FireControl for TLC: a dozen loops of a descent, in which both channels   *)
(* fire and re-fire, with a pulse of one loop and a gap of three, so that a  *)
(* channel is owed again before the other may follow it.                     *)
(***************************************************************************)
EXTENDS FireControl
=============================================================================
