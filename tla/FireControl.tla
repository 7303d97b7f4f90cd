----------------------------- MODULE FireControl -----------------------------
(***************************************************************************)
(* Which pyro channel is pulsed, and when: fire_control.c, the descent's    *)
(* use of it (run_fire_rules, flight_deliver_pulse in flight_descent.c) and *)
(* the board's one-pulse-at-a-time output (boards/*/pyro_board.c).          *)
(*                                                                         *)
(* Two clocks run through the rules.  A loop with no sample waiting runs     *)
(* them at the loop's time, `now`; a loop with one runs them at the          *)
(* sample's own stamp, the middle of its conversion, which is up to MaxLag   *)
(* loops old.  So the time the rules are given can step back, and their      *)
(* subtractions are unsigned: a negative age is a huge one.                  *)
(*                                                                         *)
(* One unit of time is one period of the flight loop.  Times are counted     *)
(* without wrapping; Since is what the unsigned subtraction of the wrapped   *)
(* counters gives.  Heights and speeds are left out: a step is told which    *)
(* triggers its believed state meets, whatever the charge guard makes of a   *)
(* sample after a pulse.                                                     *)
(***************************************************************************)
EXTENDS Integers, FiniteSets

CONSTANTS
    Wrap,      \* the counter's modulus, 2^32 in the code
    Start,     \* the loop at which the descent begins
    Horizon,   \* how many loops are followed (bound)
    MaxLag,    \* a sample's greatest age when its step runs
    Backdate,  \* how far before its declaration apogee may lie
    PulseMin, PulseMax, \* a pulse's length, in loops
    FireGap,   \* fire_gap_ms
    Interval,  \* refire_interval_ms
    Delay,     \* trigger_delay_ms, of both channels
    Starts     \* the ways into the descent: "APOGEE", "RESUMED"

ASSUME FireControlConstants ==
    /\ {Wrap, Start, Horizon, MaxLag, Backdate, PulseMin, PulseMax} \subseteq Nat
    /\ {FireGap, Interval, Delay} \subseteq Nat
    /\ Start >= MaxLag + Backdate
    /\ 1 <= PulseMin /\ PulseMin <= PulseMax
    /\ Start + Horizon < Wrap
    /\ Starts \subseteq {"APOGEE", "RESUMED"}

Channels == {1, 2}
Other(i) == 3 - i

\* A channel with a state trigger is AGL, FALLEN or SPEED; a disabled one has
\* no mode, or pads that are the script's.
Modes == {"DISABLED", "DELAY", "STATE"}
Kinds == {"NONE", "FIRST", "REFIRE", "EMERGENCY"}

VARIABLES
    mode,               \* the plan's, fixed before launch
    apogee_ms,          \* where DELAY counts from
    now,                \* the loop's time
    stamp,              \* the newest sample's
    turn,               \* what this loop has done: nothing yet, a step that may
                        \* be followed by the next sample's, its last step
    fired, pulse_ended, last_pulse_ms, last_pulse_end_ms, active_channel,
    energised,          \* the channel the board drives, 0 for none
    command,            \* what the newest step of this loop ordered
    \* What really happened, for the properties: the loops at which each
    \* channel was last energised and let go, since which loop it has been owed
    \* a pulse at every step and not had it (NotOwed: it is not).
    started, ended, since

plan == <<mode, apogee_ms>>
clocks == <<now, stamp, turn>>
fire == <<fired, pulse_ended, last_pulse_ms, last_pulse_end_ms, active_channel>>
seen == <<started, ended, since>>
vars == <<plan, clocks, fire, energised, command, seen>>

-----------------------------------------------------------------------------
\* uint32_t a - b of two counters that wrap.
Since(a, b) == IF a >= b THEN a - b ELSE Wrap - (b - a)

\* What a step is told: whether the sample is believed, which channels' state
\* triggers it meets, whose re-fire speed it exceeds, and whether it exceeds
\* the emergency speed.
NoReading == [known |-> FALSE, met |-> {}, fast |-> {}, emergency |-> FALSE]
Readings ==
    [known : {TRUE}, met : SUBSET Channels, fast : SUBSET Channels, emergency : BOOLEAN] \cup {NoReading}
NoCommand == [channel |-> 0, kind |-> "NONE", at |-> 0]
NotOwed == 0

\* Mutant: a DELAY fires one loop short of its delay.
TriggerMetEarly(i, t, r) ==
    \/ mode[i] = "DELAY" /\ Since(t, apogee_ms) + 1 >= Delay
    \/ mode[i] = "STATE" /\ r.known /\ i \in r.met

TriggerMet(i, t, r) ==
    \/ mode[i] = "DELAY" /\ Since(t, apogee_ms) >= Delay
    \/ mode[i] = "STATE" /\ r.known /\ i \in r.met

IntervalPassed(i, t) == Since(t, last_pulse_ms[i]) >= Interval

\* Mutant: the emergency is looked at before the interval.
OwedInEmergency(i, t, r) ==
    CASE mode[i] = "DISABLED" -> "NONE"
      [] mode[i] # "DISABLED" /\ r.known /\ r.emergency -> "EMERGENCY"
      [] OTHER -> IF ~fired[i] THEN (IF TriggerMet(i, t, r) THEN "FIRST" ELSE "NONE")
                  ELSE IF IntervalPassed(i, t) /\ r.known /\ i \in r.fast THEN "REFIRE" ELSE "NONE"

Owed(i, t, r) ==
    LET emergency == r.known /\ r.emergency
        too_fast == r.known /\ i \in r.fast
    IN  CASE mode[i] = "DISABLED" -> "NONE"
          [] mode[i] # "DISABLED" /\ ~fired[i] ->
                IF emergency THEN "EMERGENCY"
                ELSE IF TriggerMet(i, t, r) THEN "FIRST" ELSE "NONE"
          [] mode[i] # "DISABLED" /\ fired[i] ->
                IF ~IntervalPassed(i, t) THEN "NONE"
                ELSE IF emergency THEN "EMERGENCY"
                ELSE IF too_fast THEN "REFIRE" ELSE "NONE"

\* Mutant: pyro 1 always goes first.
GoesBeforeFixed(i, j) == i < j

\* Channel i goes before j: a first fire before a re-fire, then the re-fire
\* that has waited longer; pyro 1 on a tie.
GoesBefore(i, j) ==
    \/ ~fired[i] /\ fired[j]
    \/ fired[i] = fired[j] /\ ~fired[i] /\ i < j
    \/ /\ fired[i] /\ fired[j]
       /\ \/ last_pulse_ms[i] < last_pulse_ms[j]
          \/ last_pulse_ms[i] = last_pulse_ms[j] /\ i < j

FirstInLine(i, t, r) ==
    /\ Owed(i, t, r) # "NONE"
    /\ Owed(Other(i), t, r) # "NONE" => GoesBefore(i, Other(i))

\* note_pulse_end: a pulse the board has let go of ends at the step's time.
NotedOver(c) == active_channel = c /\ energised = 0
PulseEnded(c) == pulse_ended[c] \/ NotedOver(c)
PulseEndAt(c, t) == IF NotedOver(c) THEN t ELSE last_pulse_end_ms[c]

\* Mutant: the gap is measured from the other pulse's start.
GapPassedFromStart(i, t) ==
    LET j == Other(i)
    IN  ~fired[j] \/ (PulseEnded(j) /\ Since(t, last_pulse_ms[j]) >= FireGap)

GapPassed(i, t) ==
    LET j == Other(i)
    IN  ~fired[j] \/ (PulseEnded(j) /\ Since(t, PulseEndAt(j, t)) >= FireGap)

\* Mutant: an emergency waits for no pulse and no gap.
OrderedAtOnce(i, t, r) ==
    /\ FirstInLine(i, t, r)
    /\ Owed(i, t, r) = "EMERGENCY" \/ (energised = 0 /\ GapPassed(i, t))

\* fire_control_step's order: none while a channel is energised.
Ordered(i, t, r) == energised = 0 /\ FirstInLine(i, t, r) /\ GapPassed(i, t)

\* The board's pyro_fire: one channel at a time, whatever the caller checked.
PyroFire(i) ==
    IF energised = 0 THEN energised' = i /\ started' = [started EXCEPT ![i] = now]
                     ELSE UNCHANGED <<energised, started>>

\* flight_deliver_pulse and fire_control_pulse_started.
Deliver(i, t, r) ==
    /\ Ordered(i, t, r)
    /\ PyroFire(i)
    /\ fired' = [fired EXCEPT ![i] = TRUE]
    /\ last_pulse_ms' = [last_pulse_ms EXCEPT ![i] = t]
    /\ last_pulse_end_ms' = [c \in Channels |-> PulseEndAt(c, t)]
    /\ pulse_ended' = [c \in Channels |-> c # i /\ PulseEnded(c)]
    /\ active_channel' = i
    /\ command' = [channel |-> i, kind |-> Owed(i, t, r), at |-> t]

NoOrder(t, r) ==
    /\ \A i \in Channels : ~Ordered(i, t, r)
    /\ last_pulse_end_ms' = [c \in Channels |-> PulseEndAt(c, t)]
    /\ pulse_ended' = [c \in Channels |-> PulseEnded(c)]
    /\ active_channel' = IF energised = 0 THEN 0 ELSE active_channel
    /\ command' = NoCommand
    /\ UNCHANGED <<fired, last_pulse_ms, energised, started>>

OwedSince(i, t, r) ==
    IF command'.channel = i \/ Owed(i, t, r) = "NONE" THEN NotOwed
    ELSE IF since[i] = NotOwed THEN now ELSE since[i]

RunFireRules(t, r) ==
    /\ (\E i \in Channels : Deliver(i, t, r)) \/ NoOrder(t, r)
    /\ since' = [i \in Channels |-> OwedSince(i, t, r)]
    /\ UNCHANGED <<plan, now, ended>>

-----------------------------------------------------------------------------
Init ==
    /\ mode \in [Channels -> Modes]
    /\ now = Start
    /\ stamp \in (Start - MaxLag)..Start
    /\ \/ /\ "RESUMED" \in Starts   \* flight_action_resumed_descent
          /\ apogee_ms = now
          /\ turn = "DONE"
       \/ /\ "APOGEE" \in Starts    \* time_of_apogee
          /\ apogee_ms \in (stamp - Backdate)..stamp
          /\ turn = "SAMPLED"
    /\ fired = [i \in Channels |-> FALSE]
    /\ pulse_ended = [i \in Channels |-> FALSE]
    /\ last_pulse_ms = [i \in Channels |-> 0]
    /\ last_pulse_end_ms = [i \in Channels |-> 0]
    /\ active_channel = 0
    /\ energised = 0
    /\ command = NoCommand
    /\ started = [i \in Channels |-> 0]
    /\ ended = [i \in Channels |-> 0]
    /\ since = [i \in Channels |-> NotOwed]

\* A sample waits: one step at its stamp.  A loop takes every one waiting.
SampleStep ==
    \E t \in (now - MaxLag)..now, r \in Readings :
        /\ turn # "DONE"
        /\ t > stamp
        /\ stamp' = t
        /\ turn' = "SAMPLED"
        /\ RunFireRules(t, r)

\* No sample this loop: the rules still run, at the loop's time.
NoSampleStep ==
    /\ turn = "NONE"
    /\ turn' = "DONE"
    /\ stamp' = stamp
    /\ RunFireRules(now, NoReading)

\* flight_update_outputs: the board ends a pulse that has run its time.
LetGo ==
    /\ energised # 0
    /\ now - started[energised] >= PulseMin
    /\ energised' = 0
    /\ ended' = [ended EXCEPT ![energised] = now]

HoldOn ==
    /\ energised # 0 => now - started[energised] < PulseMax
    /\ UNCHANGED <<energised, ended>>

EndLoop ==
    /\ turn # "NONE"
    /\ now < Start + Horizon
    /\ LetGo \/ HoldOn
    /\ now' = now + 1
    /\ turn' = "NONE"
    /\ command' = NoCommand
    /\ UNCHANGED <<plan, stamp, fired, pulse_ended, last_pulse_ms, last_pulse_end_ms,
                   active_channel, started, since>>

Next == SampleStep \/ NoSampleStep \/ EndLoop

Spec == Init /\ [][Next]_vars

-----------------------------------------------------------------------------
Times == 0..(Start + Horizon)

TypeOK ==
    /\ mode \in [Channels -> Modes]
    /\ apogee_ms \in Times /\ now \in Times /\ stamp \in Times /\ turn \in {"NONE", "SAMPLED", "DONE"}
    /\ fired \in [Channels -> BOOLEAN] /\ pulse_ended \in [Channels -> BOOLEAN]
    /\ last_pulse_ms \in [Channels -> Times] /\ last_pulse_end_ms \in [Channels -> Times]
    /\ active_channel \in {0} \cup Channels /\ energised \in {0} \cup Channels
    /\ command \in [channel : {0} \cup Channels, kind : Kinds, at : Times]
    /\ started \in [Channels -> Times] /\ ended \in [Channels -> Times]
    /\ since \in [Channels -> Times]

\* No fire is refused [PYR-FIRE-01]: every pulse the rules order, and then
\* record as fired, is one the board began in that loop.  The rules see the
\* board through one flag read before the step, and the board drops an order
\* that comes while a pulse runs.
NoFireRefused ==
    command.channel # 0 => energised = command.channel /\ started[energised] = now

\* The newest step's order came this long after the other channel was let go.
QuietBefore(i) == now - ended[Other(i)]

\* PYR-DEPLOY-02: at least fire_gap of quiet separates the end of a pulse on
\* one channel from the start of a pulse on the other.
GapKept ==
    \A i \in Channels : command.channel = i /\ fired[Other(i)] => QuietBefore(i) >= FireGap

\* What is left of the gap when samples lag the loop: it is short by no more
\* than the lag, unless the order's own time is before the end it is measured
\* from, when there is no gap at all.
GapKeptForward ==
    \A i \in Channels :
        /\ command.channel = i /\ fired[Other(i)]
        /\ command.at >= last_pulse_end_ms[Other(i)]
        => QuietBefore(i) >= FireGap + 1 - MaxLag

\* A DELAY fires on its own trigger no sooner than its delay after apogee,
\* or after the resumed descent's start [PYR-MODE-04, SYS-DEPLOY-04].
DelayKept ==
    \A i \in Channels :
        command.channel = i /\ command.kind = "FIRST" /\ mode[i] = "DELAY" => now - apogee_ms >= Delay

\* One channel's pulses start refire_interval apart [PYR-REFIRE-01], short by
\* no more than a sample's lag: the step that starts a pulse at a loop's time
\* and the next step's older sample never meet, the pulse itself lasts longer.
RefireSpaced ==
    [][\A i \in Channels :
          fired[i] /\ command'.channel = i /\ started' # started
             => now - started[i] >= Interval - MaxLag]_vars

\* A pulse, the loop that notes its end, the gap, and what a sample's lag adds.
PulseAndGap == PulseMax + 1 + FireGap + MaxLag

\* The other channel may go first only behind this one's own last pulse and
\* gap, of which the interval that made this one owed again is already past.
WaitBound ==
    PulseAndGap + (IF PulseAndGap > Interval - MaxLag THEN PulseAndGap - (Interval - MaxLag) ELSE 0)

\* Neither channel starves the other [PYR-DEPLOY-02, FLT-RT-01]: one owed a
\* pulse at every step has it once a pulse and its gap have passed, and what
\* was left of its own if the other had waited longer.
ServedInTime == \A i \in Channels : since[i] # NotOwed => now - since[i] <= WaitBound
=============================================================================
