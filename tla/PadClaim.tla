-------------------------------- MODULE PadClaim --------------------------------
(***************************************************************************)
(* The stored assignment and what a start makes of it (pin_store.c), the      *)
(* pads' owners (pad_claim.c), the operations each pyro channel is given      *)
(* (pyro_release.c) and the resources a script is given (lua_pio_platform.c,  *)
(* lua_iface.c).                                                              *)
(*                                                                         *)
(* A start applies the assignment it loaded; a later post changes the file    *)
(* and the one held in RAM, and is applied by the next start.                 *)
(***************************************************************************)
EXTENDS PinAssign

CONSTANT Assignments    \* the assignments posted, and those a file may hold

ASSUME PadClaimConstants == Assignments \subseteq Assignment

VARIABLES
    file,        \* pins.ini
    live,        \* pin_store.c's live
    bound,       \* the assignment this start applied
    owner,       \* pad_claim.c's owner
    ops,         \* pyro_release.c's ch_ops: the channel's own operations or the mocked ones
    resources    \* lua_iface.c's table

pinVars == <<file, live>>
claimVars == <<bound, owner, ops, resources>>

NoFile == [none |-> TRUE]
Files == Assignments \cup {Defaults, NoFile}
Owners == {"FREE", "FLIGHT", "LUA"}

-----------------------------------------------------------------------------
(* A start: pin_store_load(), pin_store_claim_pads(),                        *)
(* hal_pyro_claim_channels() and lua_app_init()'s configuration.             *)

\* What a start applies of the file it read, or could not read.
Loaded(f, readable) == IF readable /\ f # NoFile /\ Accepts(f) THEN f ELSE Defaults

\* With no file the defaults are written, which may fail.
FileAfter(f) == IF f = NoFile THEN {NoFile, Defaults} ELSE {f}

OwnerOf(a) == [p \in Pads |-> IF p \notin Rows THEN "FREE"
                              ELSE IF Reserved(a, p) THEN "FLIGHT" ELSE "LUA"]

\* pin_store_pyro_pads(): the channel's own pad and the common.
OwnPads(c) == {p \in Rows : Group(p) = IF c = 1 THEN "CH1" ELSE "CH2"}
FiringPads(c) == IF OwnPads(c) = {} THEN {} ELSE OwnPads(c) \cup {p \in Rows : Group(p) = "COMMON"}

OpsOf(own) == [c \in Channels |-> IF FiringPads(c) # {} /\ \A p \in FiringPads(c) : own[p] \in {"FREE", "FLIGHT"}
                                  THEN "REAL" ELSE "MOCK"]

\* pin_store_lua_pins(): the listed pads, then the board's that were released.
Offered(a) == {p \in Pads : /\ a.role[p] \notin {"OFF", "BRIDGE"}
                            /\ p \in LuaList \/ (p \in Rows /\ ~Reserved(a, p) /\ Fns(p) \cap ReservedFns # {})}
Turn(p) == IF p \in LuaList THEN p ELSE p + MaxGpio
First(S) == {p \in S : \A q \in S : Turn(p) <= Turn(q)}
Having(a, r) == {p \in Offered(a) : a.role[p] \in r}

\* What lua_plat_configure() and lua_plat_configure_bridge() try to publish,
\* each with its place in their order.
Pixels(a) == First(Having(a, {"PIXEL"}))
Serial(a) == First(Having(a, {"TX"})) \cup First(Having(a, {"RX"}))
SerialNames(a) == IF Having(a, {"TX"}) # {} THEN First(Having(a, {"TX"})) ELSE First(Having(a, {"RX"}))
Offers(a) ==
    {[at |-> <<1, Turn(p)>>, pads |-> {p}, name |-> a.name[p]] : p \in Having(a, {"OUT", "PWM", "IN"})}
    \cup {[at |-> <<2, 0>>, pads |-> {p}, name |-> a.name[p]] : p \in Pixels(a)}
    \cup {[at |-> <<3, 0>>, pads |-> Serial(a), name |-> a.name[p]] : p \in SerialNames(a)}
    \cup {[at |-> <<4, 0>>, pads |-> Halves(a), name |-> a.name[p]] : p \in {q \in Halves(a) : Group(q) # "COMMON"}}

Before(r, s) == r.at[1] < s.at[1] \/ (r.at[1] = s.at[1] /\ r.at[2] < s.at[2])
Claimable(r, own) == \A p \in r.pads : own[p] \in {"FREE", "LUA"}

\* lua_iface_publish(): of two resources with one name, or none, the first.
Published(a, own) ==
    {r \in Offers(a) : /\ Claimable(r, own)
                       /\ \A s \in Offers(a) : Before(s, r) /\ s.name = r.name => ~Claimable(s, own)}

\* lua_app_init() went past its configuration: what fails it is a bridge unpublished.
Configured(a, own) == \A r \in Offers(a) : r.at[1] = 4 => r \in Published(a, own)

Boot(lua_enabled) ==
    \E readable \in BOOLEAN :
        LET a == Loaded(file, readable)
            own == OwnerOf(a)
        IN  /\ file' \in IF readable THEN FileAfter(file) ELSE {file}
            /\ live' = a /\ bound' = a
            /\ ops' = OpsOf(own)
            /\ resources' = IF lua_enabled THEN Published(a, own) ELSE {}
            /\ owner' = own

\* POST /api/pins: the body merged over the live assignment is one of
\* Assignments; it is refused, cannot be written, or is stored.  What a board asks
\* of the live assignment meanwhile is no binding, and left out.
Post ==
    /\ \E a \in Assignments : Accepts(a) /\ file' = a /\ live' = a
    /\ UNCHANGED claimVars

ScriptPads == UNION {r.pads : r \in resources}
SwitchAndBuzzer == SwitchPads(bound) \cup {BuzzerPin(bound)}
=============================================================================
