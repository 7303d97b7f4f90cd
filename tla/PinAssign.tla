------------------------------- MODULE PinAssign -------------------------------
(***************************************************************************)
(* Which function has which pad: the board's table of pads (pin_model.h,      *)
(* pin_caps.c, boards/<board>/pin_caps.h), an operator's assignment and the   *)
(* rules it must keep (pin_assign.c).                                         *)
(*                                                                         *)
(* An assignment is a record: the channels released, the buzzer's pad, the    *)
(* ground test switch's wiring and pads, and each pad's role and name for     *)
(* scripts.  Which rule an assignment breaks, and its wording, are left out.  *)
(***************************************************************************)
EXTENDS Integers, FiniteSets

CONSTANTS
    Pads,       \* GPIO numbers
    Caps,       \* the board's table: a row for each of its pads
    LuaList,    \* LUA_PIN_LIST: the pads a script may have with nothing released
    Names       \* names of resources; Unnamed is none

Channels == {1, 2}
MaxGpio == 30           \* PIN_ASSIGN_MAX_GPIO
Unnamed == "UNNAMED"
BoardPad == 255         \* PIN_BUZZER_BOARD
Unset == 255            \* PIN_GT_UNSET

ReservedFns == {"FIRE", "COMMON", "SENSE", "BUZZER", "BUS", "LED"}
LuaFns == {"DIGITAL", "PWM", "SERIAL", "PIXEL", "BRIDGE", "ANALOG"}
Groups == {"NONE", "CH1", "CH2", "COMMON"}
Roles == {"OFF", "OUT", "PWM", "IN", "TX", "RX", "PIXEL", "BRIDGE"}

Rows == DOMAIN Caps
Fns(p) == Caps[p].fns
Group(p) == Caps[p].group
DefaultLua(p) == p \in Rows /\ Fns(p) \cap LuaFns # {} /\ Fns(p) \cap ReservedFns = {}

\* The checks of the table the build makes, and pin_caps_check_lua_list().
ASSUME PinAssignConstants ==
    /\ Pads \subseteq 0..(MaxGpio - 1) /\ Rows \subseteq Pads
    /\ \A p \in Rows : Caps[p] \in [fns : SUBSET (ReservedFns \cup LuaFns), group : Groups]
    /\ \A p \in Rows : Group(p) # "NONE" <=> Fns(p) \cap {"FIRE", "COMMON"} # {}
    /\ \A p \in Rows : "BUZZER" \in Fns(p) => Group(p) = "NONE"
    /\ \A p, q \in Rows : Group(p) = Group(q) /\ Group(p) # "NONE" => p = q
    /\ LuaList \subseteq {p \in Pads : DefaultLua(p)}
    /\ Unnamed \notin Names

Assignment == [released : SUBSET Channels, buzzer : Pads \cup {BoardPad},
               wiring : {"NONE", "GROUND", "PAIR"}, read : Pads \cup {Unset}, drive : Pads \cup {Unset},
               role : [Pads -> Roles], name : [Pads -> Names \cup {Unnamed}]]

Defaults == [released |-> {}, buzzer |-> BoardPad, wiring |-> "NONE", read |-> Unset, drive |-> Unset,
             role |-> [p \in Pads |-> "OFF"], name |-> [p \in Pads |-> Unnamed]]

-----------------------------------------------------------------------------
Needs(r) == CASE r \in {"OUT", "IN"} -> {"DIGITAL"}
              [] r = "PWM" -> {"PWM"}
              [] r \in {"TX", "RX"} -> {"SERIAL"}
              [] r = "PIXEL" -> {"PIXEL"}
              [] r = "BRIDGE" -> {"BRIDGE"}

BoardBuzzer == IF \E p \in Rows : "BUZZER" \in Fns(p) THEN CHOOSE p \in Rows : "BUZZER" \in Fns(p)
               ELSE BoardPad

BuzzerPin(a) == IF a.buzzer # BoardPad THEN a.buzzer ELSE BoardBuzzer

SwitchPads(a) == CASE a.wiring = "NONE" -> {}
                   [] a.wiring = "GROUND" -> {a.read}
                   [] a.wiring = "PAIR" -> {a.read, a.drive}

\* Mutant: the common goes with either channel.
ReleasedEither(a, g) == CASE g = "CH1" -> 1 \in a.released
                          [] g = "CH2" -> 2 \in a.released
                          [] g = "COMMON" -> a.released # {}
                          [] OTHER -> FALSE

\* A channel's own pad goes with the channel; the common, once both are released.
Released(a, g) == CASE g = "CH1" -> 1 \in a.released
                    [] g = "CH2" -> 2 \in a.released
                    [] g = "COMMON" -> a.released = Channels
                    [] OTHER -> FALSE

Reserved(a, p) ==
    \/ p = BuzzerPin(a) \/ p \in SwitchPads(a)
    \/ /\ p \in Rows /\ Fns(p) \cap ReservedFns # {}
       /\ ~("BUZZER" \in Fns(p) /\ a.buzzer # BoardPad)
       /\ ~Released(a, Group(p))

-----------------------------------------------------------------------------
BuzzerFits(a) ==
    \/ a.buzzer = BoardPad
    \/ LET p == a.buzzer
       IN  /\ p \in Rows /\ Fns(p) \cap {"BUZZER", "DIGITAL"} # {}
           /\ a.role[p] = "OFF"
           /\ IF Group(p) # "NONE" THEN Released(a, Group(p))
              ELSE "BUZZER" \in Fns(p) \/ Fns(p) \cap ReservedFns = {}

\* A pad that is the switch's alone.
SwitchPadFits(a, p) ==
    /\ p \in Rows /\ "DIGITAL" \in Fns(p)
    /\ a.role[p] = "OFF" /\ p # BuzzerPin(a)
    /\ IF Group(p) # "NONE" THEN Released(a, Group(p)) ELSE Fns(p) \cap ReservedFns = {}

SwitchFits(a) ==
    \/ a.wiring = "NONE"
    \/ /\ SwitchPadFits(a, a.read)
       /\ a.wiring = "PAIR" =>
              /\ a.drive # a.read
              /\ a.drive = BuzzerPin(a) \/ SwitchPadFits(a, a.drive)

Roled(a) == {p \in Pads : a.role[p] # "OFF"}

RoleFits(a, p) ==
    /\ p \in Rows /\ Needs(a.role[p]) \subseteq Fns(p)
    /\ ~Reserved(a, p)
    /\ \A q \in Roled(a) \ {p} : a.name[p] # Unnamed => a.name[q] # a.name[p]

\* A bridge is a channel's pad and the common, of a board that has both halves.
Halves(a) == {p \in Roled(a) : a.role[p] = "BRIDGE"}
BridgeWhole(a) ==
    Halves(a) # {} => /\ Cardinality(Halves(a)) = 2
                      /\ \E p \in Halves(a) : Group(p) = "COMMON"

\* pin_assign_validate() returned PIN_OK.
Accepts(a) ==
    /\ BuzzerFits(a) /\ SwitchFits(a)
    /\ \A p \in Roled(a) : RoleFits(a, p)
    /\ BridgeWhole(a)
=============================================================================
