----------------------------- MODULE GroundTest ------------------------------
(***************************************************************************)
(* The ground test: its switch (ground_test_switch.c), its procedure          *)
(* (ground_test_seq.c), the flight software's part (flight_ground_test.c and  *)
(* the settle's hold in flight_boot.c), composed with the pyro board that      *)
(* carries its fires out.                                                     *)
(*                                                                         *)
(* A loop of the flight task is three steps: time passes and the switch's     *)
(* wire changes (Wait), the switch is read and the state's detector runs       *)
(* (Step), the board's update runs (Update).  MK1C's interrupt comes between   *)
(* any two.  Times are ages in loops, each kept up to the bound it is          *)
(* compared with; the 49 days after which the code's ages turn are not.        *)
(***************************************************************************)
EXTENDS Integers

CONSTANTS
    Setups,    \* the boards, channels and wirings (bound)
    SettleFor, \* SETTLE_MS
    BootHold,  \* GT_BOOT_HOLD_MS
    Debounce,  \* GT_DEBOUNCE_MS
    Arm,       \* GT_ARM_MS
    Countdown, \* GT_COUNTDOWN_MS
    Tone,      \* GT_TONE_MS
    AllClear,  \* GT_ALL_CLEAR_MS
    FireGap,   \* fire_gap_ms
    Steps,     \* the loops a step may take: more than one where one is missed
    Pulse, Settle, Idle, Period,
    Timeout, Collapse, HoldMax, Bleed, TrackPeriod, TrackBias, Agreeing

Wirings == {"GROUND", "PAIR"}
Boards == {"MK1A", "MK1B", "MK1B_8MB", "MK1C", "REFERENCE"}

ASSUME GroundTestConstants ==
    /\ Setups \subseteq [board : Boards, enabled : SUBSET {1, 2}, wiring : Wirings]
    /\ {SettleFor, BootHold, Debounce, Arm, Countdown, Tone, AllClear, FireGap} \subseteq Nat \ {0}
    /\ Steps \subseteq Nat \ {0}

VARIABLES
    board, enabled, pair,
    turn,               \* what the loop does next
    mode,               \* the state machine's state, as far as it matters here
    boot_age, gt_held, gt_held_age, gt_requested,
    \* The switch: the wire, the level it drives and the last two reads.
    wire, drive_high, follows, asserted_now,
    \* gt_seq_t
    phase, phase_age, raw, raw_age, asserted, held_age, armed, sounded,
    \* The fire rules' part.
    fired, pulse_ended, end_age, active_channel,
    \* Observed: the sound last begun and how long ago, the channels pulsed
    \* since, for how long the switch has read closed, whether it has for a
    \* debounce since, how long the wire has not changed, and how long each
    \* channel has been off.
    heard, heard_age, pulsed, closed_for, stopped, steady, off_age

VARIABLES
    pulse, pulse_age, check, due, started_age, complete, fired_since, presence, result, low, high
VARIABLES
    step, channel, armed_age, gated_age, verify, gates, pump, biased, bias_age, have_alarm, alarm, track_due,
    result_is_new, tracked, hot_run, short_run, latched, bus, failed_closed

Switched == INSTANCE SwitchedBoard
Sequenced == INSTANCE SequencedBoard

ASSUME BoardConstants == Switched!SwitchedConstants /\ Sequenced!SequencedConstants

setup == <<board, enabled, pair>>
boot == <<boot_age, gt_held, gt_held_age, gt_requested>>
switch == <<wire, drive_high, follows, asserted_now>>
seq == <<phase, phase_age, raw, raw_age, asserted, held_age, armed, sounded>>
fire == <<fired, pulse_ended, end_age, active_channel>>
seen == <<heard, heard_age, pulsed, closed_for, stopped, steady, off_age>>
switched == <<pulse, pulse_age, check, due, started_age, complete, fired_since, presence, result, low, high>>
sequenced == <<step, channel, armed_age, gated_age, verify, gates, pump, biased, bias_age, have_alarm, alarm,
               track_due, result_is_new, tracked, hot_run, short_run, latched, bus, failed_closed>>
boards == <<switched, sequenced>>
vars == <<setup, turn, mode, boot, switch, seq, fire, seen, boards>>

Channels == {1, 2}
Other(c) == 3 - c
Lesser(a, b) == IF a < b THEN a ELSE b

Modes == {"BOOT_SETTLE", "BOOT_CHECKS", "GROUND_TEST", "OTHER"}
Phases == {"ALERT", "COUNTDOWN", "FIRE_1", "TONE", "COUNTDOWN_2", "FIRE_2", "ALL_CLEAR", "DONE"}
Sounds == {"NONE", "ALERT", "COUNTDOWN", "TONE", "ALL_CLEAR"}

\* A switch to ground is open or closed.  Across two pads, the read pad may also
\* touch the ground or the supply.
Wires == IF pair THEN {"OPEN", "CLOSED", "TO_GROUND", "TO_SUPPLY"} ELSE {"OPEN", "CLOSED"}

-----------------------------------------------------------------------------
(* The board *)

PyroInit ==
    /\ Switched!Init /\ Sequenced!Init
    /\ board # "MK1C" => ~have_alarm /\ ~failed_closed

\* hal_pyro_is_firing
PyroIsFiring ==
    CASE board = "MK1C" -> Sequenced!Firing
      [] board = "REFERENCE" -> FALSE
      [] OTHER -> Switched!Firing

\* hal_pyro_fire
PyroFire(c) ==
    CASE board = "MK1C" -> Sequenced!Fire(c) /\ UNCHANGED switched
      [] board = "REFERENCE" -> UNCHANGED boards
      [] OTHER -> Switched!Fire(c) /\ UNCHANGED sequenced

\* hal_pyro_update
PyroUpdate ==
    CASE board = "MK1C" -> Sequenced!Update /\ UNCHANGED switched
      [] board = "REFERENCE" -> UNCHANGED boards
      [] OTHER -> Switched!Update /\ UNCHANGED sequenced

PyroPass(d) ==
    CASE board = "MK1C" -> Sequenced!Pass(d) /\ UNCHANGED switched
      [] board = "REFERENCE" -> UNCHANGED boards
      [] OTHER -> Switched!Pass(d) /\ UNCHANGED sequenced

Energised == gates \cup high

-----------------------------------------------------------------------------
(* The switch, read once a loop *)

\* What the read pad reads: it is pulled the other way than the drive.
ReadHigh ==
    IF pair THEN CASE wire = "CLOSED" -> drive_high
                   [] wire = "OPEN" -> ~drive_high
                   [] wire = "TO_GROUND" -> FALSE
                   [] wire = "TO_SUPPLY" -> TRUE
    ELSE wire = "OPEN"

ClosedAcross(reads) == reads[1] /\ reads[2]

\* gt_switch_step
ReadSwitch ==
    IF pair
    THEN /\ follows' = <<follows[2], ReadHigh = drive_high>>
         /\ drive_high' = ~drive_high
         /\ asserted_now' = ClosedAcross(follows')
    ELSE /\ asserted_now' = ~ReadHigh
         /\ UNCHANGED <<follows, drive_high>>

-----------------------------------------------------------------------------
(* The procedure: each operator gives the phase and what goes with it *)

Debounced(r, age) == IF r # asserted /\ age >= Debounce THEN r ELSE asserted

\* after: the next enabled channel after this one, or the all-clear.
PhaseAfter(c) ==
    CASE c = 0 /\ 1 \in enabled -> "FIRE_1"
      [] c = 0 /\ 1 \notin enabled /\ 2 \in enabled -> "FIRE_2"
      [] c = 1 /\ 2 \in enabled -> "TONE"
      [] OTHER -> "ALL_CLEAR"

\* Mutant: the second channel follows the tone.
PhaseAfterTone == "FIRE_2"
PhaseTone == "COUNTDOWN_2"

\* advance, outside the alert
Advanced ==
    CASE phase = "COUNTDOWN" /\ phase_age >= Countdown -> PhaseAfter(0)
      [] phase = "TONE" /\ phase_age >= Tone -> PhaseTone
      [] phase = "COUNTDOWN_2" /\ phase_age >= Countdown -> "FIRE_2"
      [] phase = "ALL_CLEAR" /\ phase_age >= AllClear -> "DONE"
      [] OTHER -> phase

Stoppable == {"COUNTDOWN", "TONE", "COUNTDOWN_2"}

SoundOf(p) ==
    CASE p \in {"COUNTDOWN", "COUNTDOWN_2"} -> "COUNTDOWN"
      [] p \in {"FIRE_1", "FIRE_2", "DONE"} -> "NONE"
      [] OTHER -> p

ChannelToFire(p) == CASE p = "FIRE_1" -> 1 [] p = "FIRE_2" -> 2 [] OTHER -> 0

\* note_pulse_end
NotedOver(c) == active_channel = c /\ ~PyroIsFiring

\* gap_passed: an end that this step has noted is of age 0.
GapPassed(c) ==
    \/ ~fired[Other(c)]
    \/ pulse_ended[Other(c)] /\ end_age[Other(c)] >= FireGap

Busy(c) == PyroIsFiring \/ ~GapPassed(c)

\* fire_on_command and gt_seq_fired, for a phase that fires c: busy leaves it
\* standing; otherwise the board is told, whatever it makes of it.
FireOnCommand(c) ==
    IF c = 0 \/ Busy(c)
    THEN /\ fired' = fired
         /\ pulse_ended' = [d \in Channels |-> pulse_ended[d] \/ NotedOver(d)]
         /\ active_channel' = IF PyroIsFiring THEN active_channel ELSE 0
         /\ UNCHANGED boards
    ELSE /\ PyroFire(c)
         /\ fired' = [fired EXCEPT ![c] = TRUE]
         /\ pulse_ended' = [d \in Channels |-> d # c /\ (pulse_ended[d] \/ NotedOver(d))]
         /\ active_channel' = c

\* gt_seq_step on the switch as it reads, and what its answer does.
Sequence ==
    LET age == IF asserted_now' # raw THEN 0 ELSE raw_age
        closed == Debounced(asserted_now', age)
        held == IF closed /\ ~asserted THEN 0 ELSE held_age
        stop == closed /\ phase \in Stoppable
        arms == ~stop /\ (armed \/ (phase = "ALERT" /\ closed /\ held >= Arm))
        p == CASE stop -> "ALERT"
               [] ~stop /\ phase = "ALERT" /\ arms /\ ~closed -> "COUNTDOWN"
               [] ~stop /\ phase = "ALERT" /\ ~(arms /\ ~closed) -> "ALERT"
               [] OTHER -> Advanced
        entered == stop \/ p # phase
        sound == IF entered \/ ~sounded THEN SoundOf(p) ELSE "NONE"
        c == ChannelToFire(p)
        delivered == c # 0 /\ ~Busy(c)
        closed_now == IF asserted_now' /\ asserted_now THEN closed_for ELSE 0
    IN  /\ raw' = asserted_now' /\ raw_age' = age
        /\ asserted' = closed /\ held_age' = held
        /\ armed' = arms
        /\ phase' = IF delivered THEN PhaseAfter(c) ELSE p
        /\ phase_age' = IF entered \/ delivered THEN 0 ELSE phase_age
        /\ sounded' = ~delivered
        /\ FireOnCommand(c)
        /\ end_age' = [d \in Channels |-> IF NotedOver(d) THEN 0 ELSE end_age[d]]
        /\ heard' = IF sound # "NONE" THEN sound ELSE heard
        /\ heard_age' = IF sound # "NONE" THEN 0 ELSE heard_age
        /\ pulsed' = IF delivered THEN Lesser(pulsed + 1, 2) ELSE IF sound # "NONE" THEN 0 ELSE pulsed
        /\ closed_for' = closed_now
        /\ stopped' = (sound = "NONE" /\ (stopped \/ (/\ asserted_now' /\ closed_now >= Debounce
                                                      /\ phase \in Stoppable)))

-----------------------------------------------------------------------------
(* Start-up *)

\* flight_detect_boot_settle
BootSettle ==
    /\ mode = "BOOT_SETTLE"
    /\ LET since == IF asserted_now' /\ ~gt_held THEN 0 ELSE gt_held_age
       IN  /\ gt_held' = asserted_now' /\ gt_held_age' = since
           /\ IF boot_age < SettleFor THEN UNCHANGED <<mode, gt_requested>>
              ELSE /\ gt_requested' = (asserted_now' /\ since >= BootHold)
                   /\ mode' = "BOOT_CHECKS"
    /\ UNCHANGED <<boot_age, seq, fire, boards, heard, heard_age, pulsed, closed_for, stopped>>

\* The sensor, the storage, a flight to resume and the pyros' health are
\* checked; then flight_detect_boot_continuity.  A fault and a flight resumed
\* come before the ground test.
BootChecks ==
    /\ mode = "BOOT_CHECKS"
    /\ mode' \in {"BOOT_CHECKS", "OTHER"}
    /\ UNCHANGED <<boot, seq, fire, boards, heard, heard_age, pulsed, closed_for, stopped>>

\* flight_action_ground_test, gt_seq_begin
EnterGroundTest ==
    /\ mode = "BOOT_CHECKS" /\ gt_requested
    /\ mode' = "GROUND_TEST"
    /\ phase' = "ALERT" /\ phase_age' = 0 /\ sounded' = FALSE /\ armed' = FALSE
    /\ raw' = asserted_now' /\ raw_age' = 0
    /\ asserted' = asserted_now' /\ held_age' = 0
    /\ UNCHANGED <<boot, fire, boards, heard, heard_age, pulsed, closed_for, stopped>>

-----------------------------------------------------------------------------
Init ==
    /\ \E s \in Setups : board = s.board /\ enabled = s.enabled /\ pair = (s.wiring = "PAIR")
    /\ turn = "WAIT" /\ mode = "BOOT_SETTLE"
    /\ boot_age = 0 /\ gt_held = FALSE /\ gt_held_age = 0 /\ gt_requested = FALSE
    /\ wire \in Wires /\ drive_high = FALSE /\ follows = <<FALSE, FALSE>> /\ asserted_now = FALSE
    /\ phase = "ALERT" /\ phase_age = 0 /\ raw = FALSE /\ raw_age = 0
    /\ asserted = FALSE /\ held_age = 0 /\ armed = FALSE /\ sounded = FALSE
    /\ fired = [c \in Channels |-> FALSE] /\ pulse_ended = [c \in Channels |-> FALSE]
    /\ end_age = [c \in Channels |-> 0] /\ active_channel = 0
    /\ heard = "NONE" /\ heard_age = 0 /\ pulsed = 0 /\ closed_for = 0 /\ stopped = FALSE /\ steady = 0
    /\ off_age = [c \in Channels |-> FireGap]
    /\ PyroInit

\* d loops pass, and the wire may change.
Wait(d) ==
    /\ turn = "WAIT" /\ mode # "OTHER"
    /\ turn' = "STEP"
    /\ wire' \in Wires
    /\ steady' = IF wire' = wire THEN Lesser(steady + 1, 2) ELSE 1
    /\ boot_age' = Lesser(boot_age + d, SettleFor)
    /\ gt_held_age' = Lesser(gt_held_age + d, BootHold)
    /\ phase_age' = Lesser(phase_age + d, Countdown + Tone + AllClear)
    /\ raw_age' = Lesser(raw_age + d, Debounce)
    /\ held_age' = Lesser(held_age + d, Arm)
    /\ end_age' = [c \in Channels |-> Lesser(end_age[c] + d, FireGap)]
    /\ off_age' = [c \in Channels |-> Lesser(off_age[c] + d, FireGap)]
    /\ heard_age' = Lesser(heard_age + d, Countdown)
    /\ closed_for' = Lesser(closed_for + d, Debounce)
    /\ PyroPass(d)
    /\ UNCHANGED <<setup, mode, gt_held, gt_requested, drive_high, follows, asserted_now,
                   phase, raw, asserted, armed, sounded, fired, pulse_ended, active_channel,
                   heard, pulsed, stopped>>

\* The tick that reads the switch, then the state's detector.
Step ==
    /\ turn = "STEP" /\ turn' = "UPDATE"
    /\ ReadSwitch
    /\ \/ BootSettle
       \/ BootChecks
       \/ EnterGroundTest
       \/ mode = "GROUND_TEST" /\ Sequence /\ UNCHANGED <<mode, boot>>
    /\ UNCHANGED <<setup, wire, steady, off_age>>

Update ==
    /\ turn = "UPDATE" /\ turn' = "WAIT"
    /\ PyroUpdate
    /\ off_age' = [c \in Channels |-> IF c \in Energised \ Energised' THEN 0 ELSE off_age[c]]
    /\ UNCHANGED <<setup, mode, boot, switch, seq, fire, heard, heard_age, pulsed, closed_for, stopped, steady>>

Interrupt ==
    /\ board = "MK1C"
    /\ Sequenced!PulseEndIsr
    /\ UNCHANGED <<setup, turn, mode, boot, switch, seq, fire, seen, switched>>

Next == (\E d \in Steps : Wait(d)) \/ Step \/ Update \/ Interrupt

\* The flight task's period comes round, and the alarm's interrupt is taken.
Spec == Init /\ [][Next]_vars /\ WF_vars(Next) /\ WF_vars(Interrupt)

-----------------------------------------------------------------------------
TypeOK ==
    /\ board \in Boards /\ enabled \subseteq Channels /\ pair \in BOOLEAN
    /\ turn \in {"WAIT", "STEP", "UPDATE"} /\ mode \in Modes
    /\ boot_age \in 0..SettleFor /\ gt_held_age \in 0..BootHold
    /\ {gt_held, gt_requested, drive_high, asserted_now, raw, asserted, armed, sounded, stopped} \subseteq BOOLEAN
    /\ wire \in Wires /\ follows \in [1..2 -> BOOLEAN]
    /\ phase \in Phases /\ phase_age \in 0..(Countdown + Tone + AllClear)
    /\ raw_age \in 0..Debounce /\ held_age \in 0..Arm
    /\ fired \in [Channels -> BOOLEAN] /\ pulse_ended \in [Channels -> BOOLEAN]
    /\ end_age \in [Channels -> 0..FireGap] /\ off_age \in [Channels -> 0..FireGap]
    /\ active_channel \in 0..2
    /\ heard \in Sounds /\ heard_age \in 0..Countdown /\ pulsed \in 0..2
    /\ closed_for \in 0..Debounce /\ steady \in 0..2
    /\ Switched!TypeOK /\ Sequenced!TypeOK

\* A pulse is ordered only when the newest sound begun was a countdown, it has
\* lasted in full, nothing has been ordered since it began, and the switch has
\* not read closed for a debounce in it: every fire of the ground test has been
\* counted down to, aborted tests and second channels included.
CountedDown ==
    [][pulsed' > pulsed => /\ heard = "COUNTDOWN" /\ heard_age >= Countdown
                           /\ pulsed = 0 /\ ~stopped']_vars

\* When a pulse is ordered nothing is energised, and the other channel has been
\* off for the whole gap: the pulse asked for is the one that is delivered.
GapKept ==
    [][\A c \in Channels : pulsed' > pulsed /\ active_channel' = c =>
            /\ Energised = {} /\ ~PyroIsFiring
            /\ off_age[Other(c)] >= FireGap]_vars

\* Never two channels; MK1C's pump never runs under a closed gate; a switched
\* channel is pulsed with its low side on, the check's hands off both; and no
\* flash operation may stop the core while MK1C charges, gates or biases, which
\* would cost the pulse or spoil the test.
PulseAlone ==
    /\ Sequenced!FlashOk => ~pump /\ gates = {} /\ ~biased
    /\ pump => gates = {}
    /\ gates # {} => gates = {channel}
    /\ Switched!Firing => low /\ high = {pulse}
    /\ ~Switched!Firing => high = {}

\* What a board reports of a channel it has fired is never a reading from
\* before the fire: a misfire is not read as continuity, nor the reverse.
VerdictIsFresh ==
    \A c \in Channels : Switched!Verdict(c) # "BEFORE" /\ Sequenced!Verdict(c) # "BEFORE"

\* The bus is called hot only where its switch has failed: never for the charge
\* that the sequence itself has left on it.
HotMeansFailed == "BUS_HOT" \in latched => failed_closed

\* Two pads that touch the ground or the supply, or nothing, are never a closed
\* switch once they have been read twice.
StuckNeverCloses ==
    pair /\ turn = "UPDATE" /\ wire # "CLOSED" /\ steady = 2 => ~asserted_now

\* The boards' pulses, and their state well formed.
PulsesKept == TypeOK /\ PulseAlone

\* A verdict on a channel that has been fired is of after its fire, and a bus is
\* called hot only for what the switch has done.
VerdictsHonest == VerdictIsFresh /\ HotMeansFailed

\* Every pulse the test orders was counted down to, by a switch that was truly
\* closed, and is the one delivered.
FiresAsAsked == []StuckNeverCloses /\ CountedDown /\ GapKept

\* A test that has been armed and whose switch is left open comes to its end,
\* whatever the board does with its pulses.
ComesToAnEnd == <>[](armed /\ wire = "OPEN") => <>(phase = "DONE")
=============================================================================
