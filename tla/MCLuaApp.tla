-------------------------------- MODULE MCLuaApp --------------------------------
(***************************************************************************)
(* MK1B's pads, without those nothing may have: a user pad, the common, the   *)
(* buzzer and the two channels' own; pad 3 is in no row.                      *)
(***************************************************************************)
EXTENDS LuaApp, TLC

MCPads == {3, 8, 15, 16, 21, 22}
Row(f, g) == [fns |-> f, group |-> g]
MCCaps == (8 :> Row({"DIGITAL", "PWM", "SERIAL", "PIXEL"}, "NONE"))
       @@ (15 :> Row({"COMMON", "DIGITAL", "BRIDGE"}, "COMMON"))
       @@ (16 :> Row({"BUZZER"}, "NONE"))
       @@ (21 :> Row({"FIRE", "DIGITAL", "PWM", "BRIDGE"}, "CH1"))
       @@ (22 :> Row({"FIRE", "DIGITAL", "PWM", "BRIDGE"}, "CH2"))
MCLuaList == {8}

CONSTANTS led, motor
MCNames == {led, motor}

Out(a, p, n) == [a EXCEPT !.role[p] = "OUT", !.name[p] = n]
Bridge(a, p, n) == [a EXCEPT !.role[p] = "BRIDGE", !.role[15] = "BRIDGE", !.name[p] = n]
One == [Defaults EXCEPT !.released = {1}]
Both == [Defaults EXCEPT !.released = {1, 2}]

\* Accepted: a released pad for a script, the buzzer or the switch; a bridge, and
\* resources that share a name because none has one.  Refused: a pad retained,
\* held, not offered, or the buzzer's.
MCAssignments ==
    {Out(Out(One, 21, led), 8, motor),
     [Out(One, 8, led) EXCEPT !.buzzer = 21],
     [Both EXCEPT !.wiring = "PAIR", !.read = 21, !.drive = 16],
     Out(Out(Both, 15, Unnamed), 22, Unnamed),
     Out(Bridge(Both, 21, motor), 8, led),
     Out(Bridge(Both, 22, Unnamed), 8, Unnamed),
     Out(Defaults, 22, led),
     Out(One, 15, led),
     Out(Defaults, 3, led),
     [Out(Defaults, 8, led) EXCEPT !.buzzer = 8],
     [Defaults EXCEPT !.wiring = "GROUND", !.read = 16]}
=============================================================================
