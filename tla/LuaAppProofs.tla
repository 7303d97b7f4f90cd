------------------------------ MODULE LuaAppProofs ------------------------------
(***************************************************************************)
(* PadsKept, for every board's table and every set of assignments; and of the *)
(* script's run, NoTickLost and NeverTwice.                                   *)
(***************************************************************************)
EXTENDS LuaApp, TLAPS

-----------------------------------------------------------------------------
(* The rules.                                                                *)

\* The board as designed keeps the rules (pin_assign_defaults).
LEMMA DefaultsAccepted == Defaults \in Assignment /\ Accepts(Defaults)
<1>1. Defaults \in Assignment
  BY DEF Defaults, Assignment, Roles, BoardPad, Unset
<1>2. Roled(Defaults) = {}
  BY DEF Roled, Defaults
<1>3. BuzzerFits(Defaults) /\ SwitchFits(Defaults)
  BY DEF BuzzerFits, SwitchFits, Defaults
<1>4. BridgeWhole(Defaults)
  BY <1>2 DEF BridgeWhole, Halves
<1> QED BY <1>1, <1>2, <1>3, <1>4 DEF Accepts

\* What a start applies keeps the rules, whatever the file held.
LEMMA LoadedAccepted ==
    ASSUME NEW f \in Files, NEW readable \in BOOLEAN
    PROVE  Loaded(f, readable) \in Assignment /\ Accepts(Loaded(f, readable))
<1>1. f # NoFile => f \in Assignment
  BY DefaultsAccepted, PadClaimConstants DEF Files
<1> QED BY <1>1, DefaultsAccepted DEF Loaded

\* A pad published to a script is one the rules do not reserve.
LEMMA PublishedFree ==
    ASSUME NEW a \in Assignment, Accepts(a), NEW r \in Published(a, OwnerOf(a)), NEW p \in r.pads
    PROVE  p \in Rows /\ ~Reserved(a, p)
<1>1. r \in Offers(a) /\ Claimable(r, OwnerOf(a))
  BY DEF Published
<1>2. p \in Roled(a)
  BY <1>1 DEF Offers, Having, Pixels, Serial, SerialNames, First, Offered, Halves, Roled
<1>3. p \in Rows /\ p \in Pads
  BY <1>2, PinAssignConstants DEF Accepts, RoleFits, Roled
<1> QED BY <1>1, <1>3 DEF Claimable, OwnerOf

\* A channel's own pad is reserved unless it was released; so is the common while
\* either channel is retained.
LEMMA RetainedReserved ==
    ASSUME NEW a \in Assignment, NEW c \in Channels, c \notin a.released, NEW p \in FiringPads(c)
    PROVE  p \in Rows /\ Reserved(a, p)
<1>1. p \in Rows /\ Group(p) \in {IF c = 1 THEN "CH1" ELSE "CH2", "COMMON"}
  BY DEF FiringPads, OwnPads
<1>2. Fns(p) \cap ReservedFns # {} /\ "BUZZER" \notin Fns(p)
  <2>1. Group(p) # "NONE"
    BY <1>1
  <2>2. Fns(p) \cap {"FIRE", "COMMON"} # {} /\ "BUZZER" \notin Fns(p)
    BY <1>1, <2>1, PinAssignConstants
  <2> QED BY <2>2 DEF ReservedFns
<1>3. ~Released(a, Group(p))
  BY <1>1 DEF Released, Channels
<1> QED BY <1>1, <1>2, <1>3 DEF Reserved

\* A pad of a released channel's own is reserved only for the buzzer or the switch.
LEMMA ReleasedReserved ==
    ASSUME NEW a \in Assignment, NEW c \in Channels, c \in a.released, NEW p \in OwnPads(c), Reserved(a, p)
    PROVE  p = BuzzerPin(a) \/ p \in SwitchPads(a)
<1>1. Released(a, Group(p))
  BY DEF OwnPads, Released, Channels
<1> QED BY <1>1 DEF Reserved

LEMMA RealReserved ==
    ASSUME NEW a \in Assignment, NEW c \in Channels
    PROVE  OpsOf(OwnerOf(a))[c] = "REAL"
               <=> FiringPads(c) # {} /\ \A p \in FiringPads(c) : Reserved(a, p)
<1>1. FiringPads(c) \subseteq Rows /\ Rows \subseteq Pads
  BY PinAssignConstants DEF FiringPads, OwnPads
<1>2. \A p \in FiringPads(c) : OwnerOf(a)[p] \in {"FREE", "FLIGHT"} <=> Reserved(a, p)
  BY <1>1 DEF OwnerOf
<1> QED BY <1>2 DEF OpsOf

-----------------------------------------------------------------------------
(* The invariant: what this start applied kept the rules, and everything     *)
(* handed out was handed out by it.                                          *)

Applied ==
    /\ bound \in Assignment /\ Accepts(bound)
    /\ owner = OwnerOf(bound) /\ ops = OpsOf(OwnerOf(bound))
    /\ resources \subseteq Published(bound, OwnerOf(bound))

Quiet ==
    /\ app \in {"BOOT", "OFF", "PENDING", "RUNNING", "DEAD"}
    /\ high \subseteq ScriptPads
    /\ app = "BOOT" => high = {} /\ task = "WAIT"
    /\ app \in {"OFF", "PENDING"} => high = {} /\ task = "WAIT"
    /\ app = "DEAD" => high = {} /\ task = "STOPPED"

Inv == file \in Files /\ Applied /\ Quiet

LEMMA InvKeepsPads == Inv => PadsKept
<1> SUFFICES ASSUME Inv PROVE PadsKept
  OBVIOUS
<1> USE DEF Inv, Applied
<1>1. \A p \in ScriptPads : p \in Rows /\ ~Reserved(bound, p)
  BY PublishedFree DEF ScriptPads
<1>2. ASSUME NEW c \in Channels, ops[c] = "REAL" PROVE FiringPads(c) \cap ScriptPads = {}
  BY <1>1, <1>2, RealReserved
<1>3. SwitchAndBuzzer \cap ScriptPads = {}
  BY <1>1 DEF SwitchAndBuzzer, Reserved
<1>4. ASSUME NEW c \in Channels \ bound.released, OwnPads(c) # {} PROVE ops[c] = "REAL"
  BY <1>4, RealReserved, RetainedReserved DEF FiringPads
<1>5. ASSUME NEW c \in bound.released, ops[c] = "REAL" PROVE OwnPads(c) \subseteq SwitchAndBuzzer
  <2>1. c \in Channels
    BY DEF Assignment
  <2>2. \A p \in OwnPads(c) : Reserved(bound, p)
    BY <1>5, <2>1, RealReserved DEF FiringPads
  <2> QED BY <2>1, <2>2, ReleasedReserved DEF SwitchAndBuzzer
<1>6. app = "DEAD" => high = {}
  BY DEF Quiet
<1> QED BY <1>2, <1>3, <1>4, <1>5, <1>6 DEF PadsKept

LEMMA InitInv == Init => Inv
<1> SUFFICES ASSUME Init PROVE Inv
  OBVIOUS
<1>1. Applied
  BY DefaultsAccepted DEF Init, Applied
<1>2. Quiet
  BY DEF Init, Quiet
<1> QED BY <1>1, <1>2 DEF Init, Inv

LEMMA NextInv == Inv /\ [Next]_vars => Inv'
<1> SUFFICES ASSUME Inv, [Next]_vars PROVE Inv'
  OBVIOUS
<1> USE DEF Inv
<1>1. CASE BootUp
  <2>1. PICK en \in BOOLEAN : Boot(en)
    BY <1>1 DEF BootUp
  <2>2. PICK readable \in BOOLEAN :
            /\ file' \in IF readable THEN FileAfter(file) ELSE {file}
            /\ bound' = Loaded(file, readable)
            /\ ops' = OpsOf(OwnerOf(Loaded(file, readable)))
            /\ resources' = IF en THEN Published(Loaded(file, readable), OwnerOf(Loaded(file, readable))) ELSE {}
            /\ owner' = OwnerOf(Loaded(file, readable))
    BY <2>1 DEF Boot
  <2>3. file' \in Files
    BY <2>2 DEF FileAfter, Files
  <2>4. Applied'
    BY <2>2, LoadedAccepted DEF Applied
  <2>5. Quiet'
    BY <1>1 DEF BootUp, taskVars, Quiet, ScriptPads
  <2> QED BY <2>3, <2>4, <2>5
<1>2. CASE Bite \/ PowerCycle
  BY <1>2 DEF Bite, PowerCycle, Reset, Fresh, pinVars, claimVars, Applied, Quiet, ScriptPads
<1>3. CASE PostPins
  <2>1. file' \in Files
    BY <1>3 DEF PostPins, Post, Files
  <2> QED BY <1>3, <2>1 DEF PostPins, Post, claimVars, taskVars, Applied, Quiet, ScriptPads
<1>4. CASE Commanded
  BY <1>4 DEF Commanded, pinVars, claimVars, taskVars, Applied, Quiet, ScriptPads
<1>5. CASE FlightStep
  <2>1. file' = file /\ UNCHANGED claimVars
    BY <1>5 DEF FlightStep, Launch, Pass, KillRefused, KillStalled, KillSlowStart, KillStack, Kill, Dispatch, Ask,
       Notify, pinVars
  <2>2. Quiet'
    <3>1. CASE Launch \/ Pass \/ Dispatch \/ Ask \/ Notify
      BY <2>1, <3>1 DEF Launch, Pass, Serves, Dispatch, Ask, Notify, taskVars, claimVars, Quiet, ScriptPads
    <3>2. CASE Kill
      BY <2>1, <3>2 DEF Kill, claimVars, Quiet, ScriptPads
    <3> QED BY <1>5, <3>1, <3>2 DEF FlightStep, KillRefused, KillStalled, KillSlowStart, KillStack
  <2> QED BY <2>1, <2>2 DEF claimVars, Applied
<1>6. CASE LuaStep \/ GetStuck \/ WriterDone
  <2>1. file' = file /\ UNCHANGED claimVars /\ UNCHANGED app
    BY <1>6 DEF LuaStep, GetStuck, WriterDone, Lua, Begin, Check, Refuse, Load, Take, Look, SlotTake, SlotOver, Skip,
       Go, Tick, Done, Leave, pinVars
  <2>2. ScriptPads' = ScriptPads
    BY <2>1 DEF claimVars, ScriptPads
  <2>3. task \notin {"WAIT", "STOPPED"} \/ (task = "WAIT" /\ app \in {"RUNNING", "DEAD"})
    BY <1>6 DEF LuaStep, GetStuck, WriterDone, Lua, Begin, Started, Check, Refuse, Load, Take, Look, SlotTake,
       SlotOver, Skip, Go, Tick, Done, Leave
  <2>4. app = "RUNNING"
    BY <2>3 DEF Quiet
  <2>5. high' \in {high, {}, ScriptPads}
    BY <1>6 DEF LuaStep, GetStuck, WriterDone, Begin, Check, Refuse, Load, Take, Look, SlotTake, SlotOver, Skip,
       Go, Tick, Done, Leave
  <2> QED BY <2>1, <2>2, <2>4, <2>5 DEF claimVars, Applied, Quiet
<1>7. CASE UNCHANGED vars
  BY <1>7 DEF vars, pinVars, claimVars, taskVars, Applied, Quiet, ScriptPads
<1> QED BY <1>1, <1>2, <1>3, <1>4, <1>5, <1>6, <1>7 DEF Next

\* Whatever the board, the file and the posts, every pad bound has one holder and a
\* script that was stopped leaves none high.
THEOREM PadsAlwaysKept == Spec => []PadsKept
<1>1. Spec => []Inv
  BY InitInv, NextInv, PTL DEF Spec
<1> QED BY <1>1, InvKeepsPads, PTL

-----------------------------------------------------------------------------
(* Ticks.  The Lua task clears what it owes by a copy it made earlier: what   *)
(* was asked for since then was also notified since then, and after the copy  *)
(* no notification is taken before the task is back in its loop.              *)

Told == notified = TRUE \/ flight = "NOTIFY"

TickInv ==
    /\ owed \in Nat /\ since \in Nat /\ notified \in BOOLEAN /\ ready \in BOOLEAN
    /\ ready = FALSE => owed = 0 /\ since = 0 /\ flight \notin {"ASK", "NOTIFY"}
    /\ task \in {"WAIT", "CHECK", "REFUSED", "LOAD"} => ready = FALSE
    /\ task \in {"SKIP", "DONE"} /\ since > 0 => Told
    /\ task \in {"LEAVE", "IDLE"} /\ owed > 0 => Told

LEMMA TickInit == Init => TickInv
<1> SUFFICES ASSUME Init PROVE TickInv
  OBVIOUS
<1>1. owed = 0 /\ since = 0 /\ notified = FALSE /\ flight = "SERVICE" /\ task = "WAIT" /\ ready = FALSE
  BY DEF Init
<1> QED BY <1>1 DEF TickInv

\* The steps of the flight task: a tick is asked for, and then told.
LEMMA TickFlight == TickInv /\ FlightStep => TickInv'
<1> SUFFICES ASSUME TickInv, FlightStep PROVE TickInv'
  OBVIOUS
<1> USE DEF TickInv, Told
<1>1. CASE Launch
  BY <1>1 DEF Launch, Serves
<1>2. CASE Pass
  BY <1>2 DEF Pass, Serves
<1>3. CASE Kill
  BY <1>3 DEF Kill, Serves
<1>4. CASE Dispatch
  BY <1>4 DEF Dispatch, taskVars
<1>5. CASE Ask
  BY <1>5 DEF Ask, Plus1
<1>6. CASE Notify
  BY <1>6 DEF Notify
<1> QED BY <1>1, <1>2, <1>3, <1>4, <1>5, <1>6 DEF FlightStep, KillRefused, KillStalled, KillSlowStart, KillStack

\* Those of the Lua task, and of what may stop or notify it.
LEMMA TickLua == TickInv /\ (LuaStep \/ GetStuck \/ WriterDone) => TickInv'
<1> SUFFICES ASSUME TickInv, LuaStep \/ GetStuck \/ WriterDone PROVE TickInv'
  OBVIOUS
<1> USE DEF TickInv, Told, Lua, flightVars
<1>1. CASE Begin
  BY <1>1 DEF Begin
<1>2. CASE Check
  BY <1>2 DEF Check
<1>3. CASE Refuse
  BY <1>3 DEF Refuse
<1>4. CASE Load
  BY <1>4 DEF Load
<1>5. CASE Take
  BY <1>5 DEF Take
<1>6. CASE Look
  BY <1>6 DEF Look
<1>7. CASE SlotTake
  BY <1>7 DEF SlotTake
<1>8. CASE SlotOver
  BY <1>8 DEF SlotOver
<1>9. CASE Skip
  BY <1>9 DEF Skip
<1>10. CASE Go
  BY <1>10 DEF Go
<1>11. CASE Tick
  BY <1>11 DEF Tick
<1>12. CASE Done
  BY <1>12 DEF Done
<1>13. CASE Leave
  BY <1>13 DEF Leave
<1>14. CASE GetStuck
  BY <1>14 DEF GetStuck
<1>15. CASE WriterDone
  BY <1>15 DEF WriterDone
<1> QED BY <1>1, <1>2, <1>3, <1>4, <1>5, <1>6, <1>7, <1>8, <1>9, <1>10, <1>11, <1>12, <1>13, <1>14, <1>15 DEF LuaStep

LEMMA TickNext == TickInv /\ [Next]_vars => TickInv'
<1> SUFFICES ASSUME TickInv, [Next]_vars PROVE TickInv'
  OBVIOUS
<1>1. CASE Bite \/ PowerCycle
  <2>1. Fresh
    BY <1>1 DEF Bite, PowerCycle, Reset
  <2> QED BY <2>1 DEF Fresh, TickInv
<1>2. CASE BootUp \/ Commanded \/ PostPins \/ UNCHANGED vars
  BY <1>2 DEF BootUp, Commanded, PostPins, vars, flightVars, taskVars, TickInv, Told
<1> QED BY <1>1, <1>2, TickFlight, TickLua DEF Next

\* Whatever the slot took and wherever the copy of ticks_asked fell, the Lua task
\* does not wait in its loop on a tick it was not told of.
THEOREM NoTickEverLost == Spec => []NoTickLost
<1>1. TickInv => NoTickLost
  BY DEF TickInv, Told, NoTickLost
<1> QED BY <1>1, TickInit, TickNext, PTL DEF Spec

-----------------------------------------------------------------------------
(* The safe boot.  From its launch to its settling a script is marked, unless *)
(* a restart was commanded, and the mark outlives the reset that ends it.     *)

BootInv ==
    /\ app \in {"RUNNING", "DEAD"} /\ ~settled /\ ~reset_armed => mark
    /\ died /\ app = "BOOT" => mark
    /\ died => app \in {"BOOT", "OFF"}

LEMMA BootNext == BootInv /\ [Next]_vars => BootInv'
<1> SUFFICES ASSUME BootInv, [Next]_vars PROVE BootInv'
  OBVIOUS
<1> USE DEF BootInv
<1>1. CASE Bite \/ PowerCycle
  BY <1>1 DEF Bite, PowerCycle, Reset, Fresh
<1>2. CASE BootUp
  BY <1>2 DEF BootUp, flightVars
<1>3. CASE Commanded \/ PostPins
  BY <1>3 DEF Commanded, PostPins, flightVars, bootVars
<1>4. CASE FlightStep
  <2>1. CASE Launch
    BY <2>1 DEF Launch, Serves, bootVars
  <2>2. CASE Pass
    BY <2>2 DEF Pass, Serves, MaySettle, bootVars
  <2>3. CASE Kill
    BY <2>3 DEF Kill, Serves, MaySettle, bootVars
  <2>4. CASE Dispatch \/ Ask \/ Notify
    BY <2>4 DEF Dispatch, Ask, Notify, bootVars
  <2> QED BY <1>4, <2>1, <2>2, <2>3, <2>4 DEF FlightStep, KillRefused, KillStalled, KillSlowStart, KillStack
<1>5. CASE LuaStep \/ GetStuck \/ WriterDone
  <2>1. UNCHANGED <<mark, app, reset_armed, settled, died>>
    BY <1>5, Zenon DEF LuaStep, GetStuck, WriterDone, Lua, Begin, Check, Refuse, Load, Take, Look, SlotTake, SlotOver,
       Skip, Go, Tick, Done, Leave, flightVars, bootVars
  <2> QED BY <2>1
<1>6. CASE UNCHANGED vars
  BY <1>6 DEF vars, flightVars, bootVars
<1> QED BY <1>1, <1>2, <1>3, <1>4, <1>5, <1>6 DEF Next

\* A script whose start the board did not survive is not started by the next,
\* whatever is commanded, posted or stopped meanwhile.
THEOREM NeverRunTwice == Spec => []NeverTwice
<1>1. Init => BootInv
  BY DEF Init, BootInv
<1>2. BootInv => NeverTwice
  BY DEF BootInv, NeverTwice
<1> QED BY <1>1, <1>2, BootNext, PTL DEF Spec
=============================================================================
