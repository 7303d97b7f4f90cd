--------------------------- MODULE SequencedBoard ----------------------------
(***************************************************************************)
(* MK1C: one high side, armed by a charge pump that charges the bus, and a    *)
(* low-side gate per channel (boards/mk1c).  A fire is a sequence of loop     *)
(* steps: precharge, hold, drain (pyro_sequence.c).  Between fires a presence *)
(* test biases the bus and reads it 8 ms later in an alarm's interrupt, or    *)
(* from the loop where no alarm was free (pyro_measure.c).  What is measured   *)
(* is counted toward faults and withholds nothing (pyro_faults.c).            *)
(*                                                                         *)
(* The bus has four levels: cold, in between, above three quarters of the     *)
(* pack (hot), and above nine tenths (charged).  The pump raises it, or not;  *)
(* with the pump stopped its bleed lowers it, below hot within `Bleed`, unless *)
(* the switch has failed closed.  Times are ages and remainders in loops.      *)
(* The 1.7 V that a bias puts on the bus are below hot, and left out.          *)
(***************************************************************************)
EXTENDS Integers

CONSTANTS
    Timeout,    \* precharge_timeout_ms, of the pack
    Collapse,   \* ENABLE_COLLAPSE_MS
    HoldMax,    \* HOLD_MAX_MS
    Bleed,      \* BLEED_BELOW_HOT_MS
    TrackPeriod,\* TRACK_PERIOD_MS
    TrackBias,  \* TRACK_BIAS_US, in loops
    Agreeing    \* AGREEING_SAMPLES

\* What GroundTest assumes of them.
SequencedConstants ==
    /\ {Timeout, Collapse, HoldMax, Bleed, TrackPeriod, TrackBias, Agreeing} \subseteq Nat \ {0}
    /\ Collapse <= HoldMax /\ HoldMax < Bleed /\ Agreeing > 1

VARIABLES
    step, channel,
    armed_age,          \* since the arm
    gated_age,          \* since the gate closed and the pump stopped
    verify,             \* fired_since_tracking
    gates, pump,        \* the outputs that are on
    biased, bias_age,   \* the presence test's bias
    have_alarm, alarm,  \* an alarm was free; it is set
    track_due,          \* loops until the next test
    result_is_new,
    tracked,            \* the result, against each channel's newest fire
    hot_run, short_run, latched,
    \* The board itself.
    bus, failed_closed

sequence == <<step, channel, armed_age, gated_age, verify, gates, pump>>
tracking == <<biased, bias_age, have_alarm, alarm, track_due, result_is_new, tracked>>
faults == <<hot_run, short_run, latched>>
sequenced == <<sequence, tracking, faults, bus, failed_closed>>

Channels == {1, 2}
Readings == {"NONE", "BEFORE", "AFTER"}
Cold == 0
Hot == 2
Charged == 3

Lesser(a, b) == IF a < b THEN a ELSE b
After(remaining, d) == IF remaining > d THEN remaining - d ELSE 0

-----------------------------------------------------------------------------
\* pyro_init
Init ==
    /\ step = "IDLE" /\ channel = 0
    /\ armed_age = Timeout /\ gated_age = Bleed
    /\ verify = [c \in Channels |-> FALSE]
    /\ gates = {} /\ pump = FALSE
    /\ biased = FALSE /\ bias_age = 0 /\ alarm = FALSE
    /\ have_alarm \in BOOLEAN
    /\ track_due = 0 /\ result_is_new = FALSE
    /\ tracked = [c \in Channels |-> "NONE"]
    /\ hot_run = 0 /\ short_run = 0 /\ latched = {}
    /\ failed_closed \in BOOLEAN
    /\ bus = IF failed_closed THEN Charged ELSE Cold

\* What the bus may read after d loops more.
BusAfter(d) ==
    CASE failed_closed -> {Charged}
      [] ~failed_closed /\ pump -> bus..Charged
      [] ~failed_closed /\ step = "HOLD" -> Cold..Charged
      [] OTHER -> {b \in Cold..bus : gated_age + d >= Bleed => b < Hot}

Pass(d) ==
    /\ bus' \in BusAfter(d)
    /\ armed_age' = Lesser(armed_age + d, Timeout)
    /\ gated_age' = Lesser(gated_age + d, Bleed)
    /\ bias_age' = Lesser(bias_age + d, TrackBias)
    /\ track_due' = After(track_due, d)
    /\ UNCHANGED <<step, channel, verify, gates, pump, biased, have_alarm, alarm, result_is_new, tracked,
                   faults, failed_closed>>

-----------------------------------------------------------------------------
(* The presence test *)

\* sequence_firing
Firing == step \in {"PRECHARGE", "HOLD"}

\* take_reading, under the bias: it is the loop's or the interrupt's.
TakeReading ==
    /\ tracked' = [c \in Channels |-> "AFTER"]
    /\ biased' = FALSE
    /\ result_is_new' = TRUE

\* pulse_end_isr: between any two steps of the loop.
PulseEndIsr ==
    /\ alarm
    /\ alarm' = FALSE
    /\ IF biased THEN TakeReading ELSE UNCHANGED <<tracked, biased, result_is_new>>
    /\ UNCHANGED <<sequence, bias_age, have_alarm, track_due, faults, bus, failed_closed>>

BeginPulse ==
    /\ biased' = TRUE /\ bias_age' = 0
    /\ track_due' = TrackPeriod
    /\ alarm' = have_alarm
    /\ UNCHANGED <<tracked, result_is_new>>

\* Mutant: a fire drops the bias and not the result the interrupt has left.
AbandonBiasOnly(c) ==
    /\ alarm' = FALSE /\ biased' = FALSE
    /\ tracked' = [tracked EXCEPT ![c] = IF @ = "AFTER" THEN "BEFORE" ELSE @]
    /\ UNCHANGED result_is_new

\* tracking_abandon, for a fire of c
Abandon(c) ==
    /\ alarm' = FALSE /\ biased' = FALSE
    /\ result_is_new' = FALSE
    /\ tracked' = [tracked EXCEPT ![c] = IF @ = "AFTER" THEN "BEFORE" ELSE @]

-----------------------------------------------------------------------------
(* The fire *)

\* pyro_fire, sequence_arm
Fire(c) ==
    IF Firing THEN UNCHANGED sequenced
    ELSE /\ Abandon(c)
         /\ latched' = latched \ {"PRECHARGE_TIMEOUT"}
         /\ step' = "PRECHARGE" /\ channel' = c
         /\ armed_age' = 0
         /\ pump' = TRUE
         /\ UNCHANGED <<gated_age, verify, gates, bias_age, have_alarm, track_due, hot_run, short_run,
                        bus, failed_closed>>

CloseGate ==
    /\ gates' = gates \cup {channel}
    /\ pump' = FALSE
    /\ gated_age' = 0
    /\ step' = "HOLD"

\* Mutant: the gate waits for the bus.
PrechargeOverCharged == bus = Charged

\* precharge_step: on a charged bus, or at the deadline on what there is.
PrechargeOver == bus = Charged \/ armed_age >= Timeout

Overdue == IF bus # Charged /\ armed_age >= Timeout THEN {"PRECHARGE_TIMEOUT"} ELSE {}

HoldOver(flat) == (gated_age >= Collapse /\ flat) \/ gated_age >= HoldMax

\* hold_step: flat is whether the bus has changed since the last loop.
Hold(flat) ==
    IF HoldOver(flat)
    THEN /\ gates' = gates \ {channel}
         /\ verify' = [verify EXCEPT ![channel] = TRUE]
         /\ step' = "DRAIN"
    ELSE UNCHANGED <<gates, verify, step>>

\* tracking_step, which runs in IDLE only, due having been set to now when the
\* drain has just ended; on_tracking_result, for a test that found a short or not.
TrackingStep(soon, short) ==
    \/ /\ result_is_new
       /\ result_is_new' = FALSE
       /\ short_run' = IF short THEN Lesser(short_run + 1, Agreeing) ELSE 0
       /\ verify' = [c \in Channels |-> FALSE]
       /\ track_due' = IF soon THEN 0 ELSE track_due
       /\ UNCHANGED <<biased, bias_age, alarm, tracked>>
    \/ /\ ~result_is_new /\ biased /\ ~have_alarm /\ bias_age >= TrackBias
       /\ TakeReading
       /\ UNCHANGED <<bias_age, alarm, track_due, short_run, verify>>
    \/ /\ ~result_is_new /\ biased /\ (have_alarm \/ bias_age < TrackBias)
       /\ UNCHANGED <<biased, bias_age, alarm, track_due, result_is_new, tracked, short_run, verify>>
    \/ /\ ~result_is_new /\ ~biased /\ (soon \/ track_due = 0)
       /\ BeginPulse
       /\ UNCHANGED <<short_run, verify>>
    \/ /\ ~result_is_new /\ ~biased /\ ~soon /\ track_due > 0
       /\ UNCHANGED <<biased, bias_age, alarm, track_due, result_is_new, tracked, short_run, verify>>

\* sequence_charged_the_bus, at the step the update has come to.
ChargedTheBus(s) == s \in {"PRECHARGE", "HOLD"} \/ (s = "DRAIN" /\ gated_age < Bleed)

\* faults_watch_bus_hot at the step the update has come to, with what else the
\* update has latched and the shorts its presence test has counted.
WatchFaults(timeouts) ==
    /\ hot_run' = IF ~ChargedTheBus(step') /\ bus >= Hot THEN Lesser(hot_run + 1, Agreeing) ELSE 0
    /\ latched' = latched \cup timeouts
                   \cup (IF hot_run' = Agreeing THEN {"BUS_HOT"} ELSE {})
                   \cup (IF short_run' = Agreeing THEN {"BUS_SHORTED"} ELSE {})

\* pyro_update, one disjunct for each step of the sequence it finds.
Update ==
    /\ \/ /\ step = "PRECHARGE"
          /\ IF PrechargeOver THEN CloseGate ELSE UNCHANGED <<step, gates, pump, gated_age>>
          /\ UNCHANGED <<verify, tracking, short_run>>
          /\ WatchFaults(Overdue)
       \/ /\ step = "HOLD"
          /\ \E flat \in BOOLEAN : Hold(flat)
          /\ UNCHANGED <<pump, gated_age, tracking, short_run>>
          /\ WatchFaults({})
       \/ /\ step = "DRAIN" /\ bus > Cold
          /\ UNCHANGED <<step, gates, pump, gated_age, verify, tracking, short_run>>
          /\ WatchFaults({})
       \/ /\ step = "IDLE" \/ (step = "DRAIN" /\ bus = Cold)
          /\ step' = "IDLE"
          /\ \E short \in BOOLEAN : TrackingStep(step = "DRAIN", short)
          /\ UNCHANGED <<gates, pump, gated_age, have_alarm>>
          /\ WatchFaults({})
    /\ UNCHANGED <<channel, armed_age, bus, failed_closed>>

\* board_flash_ok
FlashOk == ~Firing /\ ~biased

\* pyro_get: none from the arm until the presence test after the fire.
Verdict(c) == IF verify[c] \/ (step # "IDLE" /\ channel = c) THEN "NONE" ELSE tracked[c]

TypeOK ==
    /\ step \in {"IDLE", "PRECHARGE", "HOLD", "DRAIN"} /\ channel \in 0..2
    /\ armed_age \in 0..Timeout /\ gated_age \in 0..Bleed
    /\ verify \in [Channels -> BOOLEAN]
    /\ gates \subseteq Channels /\ pump \in BOOLEAN
    /\ {biased, have_alarm, alarm, result_is_new, failed_closed} \subseteq BOOLEAN
    /\ bias_age \in 0..TrackBias /\ track_due \in 0..TrackPeriod
    /\ tracked \in [Channels -> Readings]
    /\ hot_run \in 0..Agreeing /\ short_run \in 0..Agreeing
    /\ latched \subseteq {"PRECHARGE_TIMEOUT", "BUS_HOT", "BUS_SHORTED"}
    /\ bus \in Cold..Charged
=============================================================================
