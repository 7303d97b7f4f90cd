---------------------------- MODULE MCGroundTest -----------------------------
(* The ground test: both channels on three boards with a switch to ground, the *)
(* second alone on the fourth, and one that energises nothing with a switch    *)
(* across two pads.                                                            *)
EXTENDS GroundTest

Setup(b, e, w) == [board |-> b, enabled |-> e, wiring |-> w]
MCSetups ==
    {Setup(b, Channels, "GROUND") : b \in {"MK1A", "MK1B", "MK1C"}}
        \cup {Setup("MK1B_8MB", {2}, "GROUND"), Setup("REFERENCE", {1}, "PAIR")}
=============================================================================
