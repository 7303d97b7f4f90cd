---------------------------- MODULE SwitchedBoard ----------------------------
(***************************************************************************)
(* The pyro boards with a switched high side per channel and one shared low  *)
(* side: MK1A and MK1B (boards/mk1a, boards/mk1b pyro_board.c).  Between      *)
(* pulses a check raises the low side and reads both channels; a pulse takes  *)
(* the outputs over, and a check is begun afresh when it ends.                *)
(*                                                                         *)
(* A reading is kept for what a verdict depends on: whether it was taken      *)
(* before or after the channel's newest pulse.  MK1B's is the one under the   *)
(* low side: its short reading stands across a pulse on purpose.  Times are    *)
(* ages and remainders in loops, so a run has no end.  The MK1B with the       *)
(* AP2192A discharges its outputs and judges nothing; the 8 MB one does not.   *)
(***************************************************************************)
EXTENDS Integers

CONSTANTS
    Pulse,     \* FIRE_PULSE_MS
    Settle,    \* NODE_SETTLE_MS, PRESENCE_SETTLE_MS, NODE_RECHARGE_MS
    Idle,      \* IDLE_BETWEEN_CHECKS_MS of MK1A
    Period     \* CHECK_PERIOD_MS of MK1B, start to start

\* What GroundTest assumes of them.
SwitchedConstants ==
    /\ {Pulse, Settle, Idle, Period} \subseteq Nat \ {0}
    /\ Settle <= Period

VARIABLES
    board,
    pulse, pulse_age,   \* the channel that is pulsed, 0 for none
    check,              \* the check's phase
    due,                \* loops until the phase ends
    started_age,        \* since MK1B's check began
    complete,           \* a check has completed
    fired_since,        \* fired, and no check begun after the pulse has ended
    presence, result,   \* the phase's reading, the completed check's
    low, high           \* the outputs that are on

switched == <<pulse, pulse_age, check, due, started_age, complete, fired_since, presence, result, low, high>>

Channels == {1, 2}
\* A reading, against the channel's newest pulse.
Readings == {"NONE", "BEFORE", "AFTER"}
Discharges == board = "MK1B"

Lesser(a, b) == IF a < b THEN a ELSE b
\* deadline_reached is After = 0.
After(remaining, d) == IF remaining > d THEN remaining - d ELSE 0

-----------------------------------------------------------------------------
\* pyro_init: MK1A begins a check at once, MK1B waits for its nodes.
Init ==
    /\ pulse = 0 /\ pulse_age = 0 /\ started_age = 0
    /\ check = IF board = "MK1A" THEN "PRESENCE" ELSE "IDLE"
    /\ low = (board = "MK1A")
    /\ due = Settle
    /\ complete = FALSE
    /\ fired_since = [c \in Channels |-> FALSE]
    /\ presence = [c \in Channels |-> "NONE"]
    /\ result = [c \in Channels |-> "NONE"]
    /\ high = {}

Pass(d) ==
    /\ pulse_age' = Lesser(pulse_age + d, Pulse)
    /\ started_age' = Lesser(started_age + d, Period)
    /\ due' = After(due, d)
    /\ UNCHANGED <<pulse, check, complete, fired_since, presence, result, low, high>>

Firing == pulse # 0

\* pyro_fire
Fire(c) ==
    IF Firing THEN UNCHANGED switched
    ELSE /\ pulse' = c /\ pulse_age' = 0
         /\ low' = TRUE
         /\ high' = high \cup {c}
         /\ fired_since' = [fired_since EXCEPT ![c] = TRUE]
         /\ presence' = [presence EXCEPT ![c] = IF @ = "AFTER" THEN "BEFORE" ELSE @]
         /\ result' = [result EXCEPT ![c] = IF @ = "AFTER" THEN "BEFORE" ELSE @]
         /\ UNCHANGED <<check, due, started_age, complete>>

-----------------------------------------------------------------------------
(* MK1A's check *)

BeginCheckA == low' = TRUE /\ check' = "PRESENCE" /\ due' = Settle

CheckA ==
    \/ /\ check = "PRESENCE"
       /\ presence' = [c \in Channels |-> "AFTER"]
       /\ low' = FALSE
       /\ check' = "SHORTS" /\ due' = Settle
       /\ UNCHANGED <<complete, fired_since, result>>
    \/ /\ check = "SHORTS"
       /\ result' = presence
       /\ fired_since' = [c \in Channels |-> FALSE]
       /\ complete' = TRUE
       /\ check' = "IDLE" /\ due' = Idle
       /\ UNCHANGED <<presence, low>>
    \/ /\ check = "IDLE"
       /\ BeginCheckA
       /\ UNCHANGED <<complete, fired_since, presence, result>>

(* MK1B's check: the channels' shorts are read before the low side goes on,   *)
(* their presence under it.                                                   *)

BeginPresence ==
    /\ high' = high \ Channels
    /\ low' = TRUE
    /\ check' = "PRESENCE"
    /\ started_age' = 0 /\ due' = Settle

CheckB ==
    \/ /\ check = "IDLE"
       /\ BeginPresence
       /\ UNCHANGED <<complete, fired_since, result>>
    \/ /\ check = "PRESENCE"
       /\ low' = FALSE
       /\ result' = [c \in Channels |-> "AFTER"]
       /\ fired_since' = [c \in Channels |-> fired_since[c] /\ Discharges]
       /\ complete' = TRUE
       /\ check' = "IDLE"
       /\ due' = Period - started_age
       /\ UNCHANGED <<started_age, high>>

EndPulse ==
    /\ pulse' = 0
    /\ IF board = "MK1A" THEN BeginCheckA /\ high' = high \ {pulse} /\ UNCHANGED started_age
       ELSE BeginPresence

\* Mutant: the check goes on under a pulse.
CheckDueAlways == due = 0

CheckDue == ~Firing /\ due = 0

\* pyro_update
Update ==
    \/ /\ CheckDue /\ board = "MK1A"
       /\ CheckA
       /\ UNCHANGED <<pulse, pulse_age, started_age, high>>
    \/ /\ CheckDue /\ board # "MK1A"
       /\ CheckB
       /\ UNCHANGED <<pulse, pulse_age, presence>>
    \/ /\ Firing /\ pulse_age >= Pulse
       /\ EndPulse
       /\ UNCHANGED <<pulse_age, complete, fired_since, presence, result>>
    \/ /\ IF Firing THEN pulse_age < Pulse ELSE due > 0
       /\ UNCHANGED switched

\* pyro_get: a channel that has just fired has no verdict.
Verdict(c) ==
    CASE fired_since[c] /\ (complete \/ board # "MK1A") -> "NONE"
      [] ~complete /\ board = "MK1A" -> "OPEN"
      [] OTHER -> IF Discharges THEN "READY" ELSE IF complete THEN result[c] ELSE "OPEN"

TypeOK ==
    /\ pulse \in 0..2 /\ pulse_age \in 0..Pulse
    /\ check \in {"PRESENCE", "SHORTS", "IDLE"}
    /\ due \in 0..(Settle + Idle + Period) /\ started_age \in 0..Period
    /\ complete \in BOOLEAN /\ low \in BOOLEAN
    /\ fired_since \in [Channels -> BOOLEAN]
    /\ presence \in [Channels -> Readings]
    /\ result \in [Channels -> Readings]
    /\ high \subseteq Channels
=============================================================================
