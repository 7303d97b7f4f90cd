--------------------------- MODULE GroundTestProofs ---------------------------
(***************************************************************************)
(* PulsesKept, VerdictsHonest and FiresAsAsked, for any boards and wirings,   *)
(* times and loops missed.                                                   *)
(***************************************************************************)
EXTENDS GroundTest, TLAPS

\* MK1C's sequence: its outputs follow its step; what it reports of a channel
\* fired waits for a test after; its bus is cold where no fire is under way.
SequenceInv ==
    /\ pump <=> step = "PRECHARGE"
    /\ gates = IF step = "HOLD" THEN {channel} ELSE {}
    /\ step # "IDLE" => channel \in Channels
    /\ step = "DRAIN" => verify[channel]
    /\ result_is_new => \A c \in Channels : tracked[c] # "BEFORE"
    /\ \A c \in Channels : tracked[c] = "BEFORE" => verify[c] \/ (step # "IDLE" /\ channel = c)

BusInv ==
    ~failed_closed =>
        /\ hot_run \in {0, 1} /\ "BUS_HOT" \notin latched
        /\ step = "HOLD" => hot_run = 0
        /\ step = "IDLE" => bus = 0
        /\ step = "DRAIN" /\ turn # "WAIT" /\ gated_age >= Bleed => bus < 2

\* A switched board's outputs are the pulse's, and what it reports likewise.
SwitchedInv ==
    /\ IF pulse # 0 THEN low /\ high = {pulse} ELSE high = {}
    /\ \A c \in Channels :
         /\ pulse = 0 /\ check = "SHORTS" => presence[c] # "BEFORE"
         /\ ~fired_since[c] => result[c] # "BEFORE"

\* The board that is not there is as it began.
BoardInv ==
    /\ board # "MK1C" => step = "IDLE" /\ ~pump /\ gates = {}
    /\ board \in {"MK1C", "REFERENCE"} => pulse = 0

\* What the fire rules know of the pulse under way and of those that ended.
FireInv ==
    /\ Sequenced!Firing => fired[channel] /\ ~pulse_ended[channel]
    /\ Switched!Firing => fired[pulse] /\ ~pulse_ended[pulse]
    /\ \A c \in Channels :
         /\ ~fired[c] => off_age[c] >= FireGap
         /\ pulse_ended[c] => off_age[c] >= end_age[c]

\* The procedure: how far the countdown and the switch have come.
TestInv ==
    /\ ~stopped
    /\ mode = "GROUND_TEST" =>
         /\ raw = asserted_now
         /\ asserted_now /\ ~asserted => raw_age >= closed_for
         /\ phase \in {"COUNTDOWN", "COUNTDOWN_2", "FIRE_1", "FIRE_2"} =>
               sounded /\ heard = "COUNTDOWN" /\ pulsed = 0
         /\ phase \in {"COUNTDOWN", "COUNTDOWN_2"} => heard_age = Lesser(phase_age, Countdown)
         /\ phase \in {"FIRE_1", "FIRE_2"} => heard_age = Countdown

\* What a pad reads of the other, driven high or low.
Follows(w, driven) == \/ w = "CLOSED" \/ (w = "TO_GROUND" /\ ~driven) \/ (w = "TO_SUPPLY" /\ driven)

SwitchInv ==
    pair => /\ turn = "STEP" /\ steady = 2 => follows[2] = Follows(wire, ~drive_high)
            /\ turn # "STEP" /\ steady > 0 => follows[2] = Follows(wire, ~drive_high)
            /\ turn = "STEP" => steady > 0

Inv ==
    /\ TypeOK
    /\ SequenceInv /\ BusInv /\ SwitchedInv /\ BoardInv /\ FireInv /\ TestInv /\ SwitchInv
    /\ StuckNeverCloses

-----------------------------------------------------------------------------
(* The boards *)

\* MK1C's steps keep its types.
LEMMA SequencedTypes ==
    ASSUME Sequenced!TypeOK, SequenceInv,
           \/ \E d \in Steps : Sequenced!Pass(d)
           \/ Sequenced!Update
           \/ \E c \in Channels : Sequenced!Fire(c)
           \/ Sequenced!PulseEndIsr
    PROVE  Sequenced!TypeOK'
  <1> USE GroundTestConstants, BoardConstants DEF Sequenced!SequencedConstants, Channels, Sequenced!Channels,
          Sequenced!Readings, Sequenced!Cold, Sequenced!Hot, Sequenced!Charged, Sequenced!faults,
          Sequenced!sequence, Sequenced!tracking, Sequenced!TypeOK
  <1>1. ASSUME NEW d \in Steps, Sequenced!Pass(d) PROVE Sequenced!TypeOK'
    <2>1. bus' \in 0..3
      BY <1>1 DEF Sequenced!Pass, Sequenced!BusAfter
    <2>2. armed_age' \in 0..Timeout /\ gated_age' \in 0..Bleed /\ bias_age' \in 0..TrackBias
          /\ track_due' \in 0..TrackPeriod
      BY <1>1 DEF Sequenced!Pass, Sequenced!Lesser, Sequenced!After
    <2> QED BY <1>1, <2>1, <2>2 DEF Sequenced!Pass
  <1>2. ASSUME Sequenced!Update PROVE Sequenced!TypeOK'
    <2>1. /\ step' \in {"IDLE", "PRECHARGE", "HOLD", "DRAIN"} /\ gated_age' \in 0..Bleed
          /\ UNCHANGED <<channel, armed_age, bus, failed_closed, have_alarm>>
      BY <1>2 DEF Sequenced!Update, Sequenced!CloseGate, Sequenced!Hold
    <2>2. CASE step = "PRECHARGE"
      <3>1. gates' \subseteq Channels /\ pump' \in BOOLEAN /\ UNCHANGED <<verify, Sequenced!tracking, short_run>>
            /\ Sequenced!WatchFaults(Sequenced!Overdue)
        BY <1>2, <2>2 DEF Sequenced!Update, Sequenced!CloseGate, SequenceInv
      <3>2. hot_run' \in 0..Agreeing /\ latched' \subseteq {"PRECHARGE_TIMEOUT", "BUS_HOT", "BUS_SHORTED"}
        BY <3>1 DEF Sequenced!WatchFaults, Sequenced!Overdue, Sequenced!Lesser
      <3> QED BY <2>1, <3>1, <3>2
    <2>3. CASE step = "HOLD"
      <3>1. gates' \subseteq Channels /\ verify' \in [Channels -> BOOLEAN]
            /\ UNCHANGED <<pump, gated_age, Sequenced!tracking, short_run>>
            /\ Sequenced!WatchFaults({})
        BY <1>2, <2>3 DEF Sequenced!Update, Sequenced!Hold
      <3>2. hot_run' \in 0..Agreeing /\ latched' \subseteq {"PRECHARGE_TIMEOUT", "BUS_HOT", "BUS_SHORTED"}
        BY <3>1 DEF Sequenced!WatchFaults, Sequenced!Lesser
      <3> QED BY <2>1, <3>1, <3>2
    <2>4. CASE step \in {"DRAIN", "IDLE"}
      <3>1. UNCHANGED <<gates, pump, gated_age>> /\ Sequenced!WatchFaults({})
            /\ \/ UNCHANGED <<verify, Sequenced!tracking, short_run>>
               \/ \E soon, short \in BOOLEAN : Sequenced!TrackingStep(soon, short)
        BY <1>2, <2>4 DEF Sequenced!Update
      <3>2. bias_age' \in 0..TrackBias /\ track_due' \in 0..TrackPeriod /\ short_run' \in 0..Agreeing
        BY <3>1 DEF Sequenced!TrackingStep, Sequenced!TakeReading, Sequenced!BeginPulse, Sequenced!Lesser
      <3>4. verify' \in [Channels -> BOOLEAN] /\ tracked' \in [Channels -> {"NONE", "BEFORE", "AFTER"}]
        BY <3>1 DEF Sequenced!TrackingStep, Sequenced!TakeReading, Sequenced!BeginPulse
      <3>5. biased' \in BOOLEAN /\ alarm' \in BOOLEAN /\ result_is_new' \in BOOLEAN
        BY <3>1 DEF Sequenced!TrackingStep, Sequenced!TakeReading, Sequenced!BeginPulse
      <3>3. hot_run' \in 0..Agreeing /\ latched' \subseteq {"PRECHARGE_TIMEOUT", "BUS_HOT", "BUS_SHORTED"}
        BY <3>1 DEF Sequenced!WatchFaults, Sequenced!Lesser
      <3> QED BY <2>1, <3>1, <3>2, <3>3, <3>4, <3>5
    <2> QED BY <2>2, <2>3, <2>4
  <1>3. ASSUME NEW c \in Channels, Sequenced!Fire(c) PROVE Sequenced!TypeOK'
    <2>1. CASE Sequenced!Firing
      BY <1>3, <2>1 DEF Sequenced!Fire, Sequenced!sequenced
    <2>2. CASE ~Sequenced!Firing
      <3>1. tracked' \in [Channels -> {"NONE", "BEFORE", "AFTER"}]
        BY <1>3, <2>2 DEF Sequenced!Fire, Sequenced!Abandon
      <3>2. /\ step' = "PRECHARGE" /\ channel' = c /\ armed_age' = 0 /\ pump' = TRUE
            /\ alarm' = FALSE /\ biased' = FALSE /\ result_is_new' = FALSE
            /\ latched' \subseteq latched
            /\ UNCHANGED <<gated_age, verify, gates, bias_age, have_alarm, track_due, hot_run, short_run,
                           bus, failed_closed>>
        BY <1>3, <2>2 DEF Sequenced!Fire, Sequenced!Abandon
      <3>3. channel' \in 0..2 /\ armed_age' \in 0..Timeout /\ gates' \subseteq {1, 2}
        BY <3>2
      <3>4. {biased, have_alarm, alarm, result_is_new, failed_closed}' \subseteq BOOLEAN
        BY <3>2
      <3>5. /\ step' \in {"IDLE", "PRECHARGE", "HOLD", "DRAIN"} /\ verify' \in [{1, 2} -> BOOLEAN] /\ pump' \in BOOLEAN
            /\ latched' \subseteq {"PRECHARGE_TIMEOUT", "BUS_HOT", "BUS_SHORTED"}
        BY <3>2
      <3>6. /\ gated_age' \in 0..Bleed /\ bias_age' \in 0..TrackBias /\ track_due' \in 0..TrackPeriod
            /\ hot_run' \in 0..Agreeing /\ short_run' \in 0..Agreeing /\ bus' \in 0..3
        BY <3>2
      <3> QED BY <3>1, <3>3, <3>4, <3>5, <3>6
    <2> QED BY <2>1, <2>2
  <1>4. ASSUME Sequenced!PulseEndIsr PROVE Sequenced!TypeOK'
    BY <1>4 DEF Sequenced!PulseEndIsr, Sequenced!TakeReading
  <1> QED BY <1>1, <1>2, <1>3, <1>4

\* And the outputs' agreement with the step, and a fire's verdict.
LEMMA SequencedKept ==
    ASSUME Sequenced!TypeOK, SequenceInv,
           \/ \E d \in Steps : Sequenced!Pass(d)
           \/ Sequenced!Update
           \/ \E c \in Channels : Sequenced!Fire(c)
           \/ Sequenced!PulseEndIsr
    PROVE  SequenceInv'
  <1> USE DEF Channels, Sequenced!Channels, Sequenced!faults, Sequenced!sequence, Sequenced!tracking,
              Sequenced!TypeOK, Sequenced!Readings, SequenceInv
  <1>1. ASSUME NEW d \in Steps, Sequenced!Pass(d) PROVE SequenceInv'
    BY <1>1 DEF Sequenced!Pass
  <1>2. ASSUME Sequenced!Update PROVE SequenceInv'
    <2>1. CASE step = "PRECHARGE"
      <3>1. /\ IF Sequenced!PrechargeOver THEN Sequenced!CloseGate ELSE UNCHANGED <<step, gates, pump>>
            /\ UNCHANGED <<channel, verify, tracked, result_is_new>>
        BY <1>2, <2>1 DEF Sequenced!Update
      <3> QED BY <2>1, <3>1 DEF Sequenced!CloseGate
    <2>2. CASE step = "HOLD"
      <3>1. /\ \E flat \in BOOLEAN : Sequenced!Hold(flat)
            /\ UNCHANGED <<channel, pump, tracked, result_is_new>>
        BY <1>2, <2>2 DEF Sequenced!Update
      <3> QED BY <2>2, <3>1 DEF Sequenced!Hold
    <2>3. CASE step = "DRAIN" /\ UNCHANGED <<step, verify, tracked, result_is_new>>
      BY <1>2, <2>3 DEF Sequenced!Update
    <2>4. CASE step \in {"DRAIN", "IDLE"} /\ step' = "IDLE" /\ \E soon, short \in BOOLEAN : Sequenced!TrackingStep(soon, short)
      <3>1. UNCHANGED <<channel, gates, pump>>
        BY <1>2, <2>4 DEF Sequenced!Update
      <3>2. \/ tracked' = [c \in Channels |-> "AFTER"] /\ UNCHANGED verify
            \/ result_is_new /\ ~result_is_new' /\ UNCHANGED tracked
            \/ UNCHANGED <<verify, tracked, result_is_new>>
        BY <2>4 DEF Sequenced!TrackingStep, Sequenced!TakeReading, Sequenced!BeginPulse
      <3> QED BY <2>4, <3>1, <3>2
    <2> QED BY <1>2, <2>1, <2>2, <2>3, <2>4 DEF Sequenced!Update
  <1>3. ASSUME NEW c \in Channels, Sequenced!Fire(c) PROVE SequenceInv'
    BY <1>3 DEF Sequenced!Fire, Sequenced!Firing, Sequenced!Abandon, Sequenced!sequenced
  <1>4. ASSUME Sequenced!PulseEndIsr PROVE SequenceInv'
    BY <1>4 DEF Sequenced!PulseEndIsr, Sequenced!TakeReading
  <1> QED BY <1>1, <1>2, <1>3, <1>4

\* A switched board's steps likewise.
LEMMA SwitchedTypes ==
    ASSUME Switched!TypeOK,
           \/ \E d \in Steps : Switched!Pass(d)
           \/ Switched!Update
           \/ \E c \in Channels : Switched!Fire(c)
    PROVE  Switched!TypeOK'
  <1> USE GroundTestConstants, BoardConstants DEF Switched!SwitchedConstants, Channels, Switched!Channels,
          Switched!Readings, Switched!switched, Switched!TypeOK
  <1>1. ASSUME NEW d \in Steps, Switched!Pass(d) PROVE Switched!TypeOK'
    BY <1>1 DEF Switched!Pass, Switched!Lesser, Switched!After
  <1>2. ASSUME Switched!Update PROVE Switched!TypeOK'
    <2>1. CASE Switched!CheckA /\ UNCHANGED <<pulse, pulse_age, started_age, high>>
      <3>1. check' \in {"PRESENCE", "SHORTS", "IDLE"} /\ due' \in 0..(Settle + Idle + Period)
        BY <2>1 DEF Switched!CheckA, Switched!BeginCheckA
      <3>2. low' \in BOOLEAN /\ complete' \in BOOLEAN /\ fired_since' \in [Channels -> BOOLEAN]
        BY <2>1 DEF Switched!CheckA, Switched!BeginCheckA
      <3>3. /\ presence' \in [Channels -> {"NONE", "BEFORE", "AFTER"}]
            /\ result' \in [Channels -> {"NONE", "BEFORE", "AFTER"}]
        BY <2>1 DEF Switched!CheckA
      <3> QED BY <2>1, <3>1, <3>2, <3>3
    <2>2. CASE Switched!CheckB /\ UNCHANGED <<pulse, pulse_age, presence>>
      <3>1. /\ check' \in {"PRESENCE", "IDLE"} /\ due' \in 0..(Settle + Idle + Period)
            /\ started_age' \in 0..Period
        BY <2>2 DEF Switched!CheckB, Switched!BeginPresence
      <3>2. low' \in BOOLEAN /\ complete' \in BOOLEAN /\ high' \subseteq Channels
        BY <2>2 DEF Switched!CheckB, Switched!BeginPresence
      <3>3. fired_since' \in [Channels -> BOOLEAN] /\ result' \in [Channels -> {"NONE", "BEFORE", "AFTER"}]
        BY <2>2 DEF Switched!CheckB, Switched!Discharges
      <3> QED BY <2>2, <3>1, <3>2, <3>3
    <2>3. CASE Switched!EndPulse /\ UNCHANGED <<pulse_age, complete, fired_since, presence, result>>
      <3>1. /\ pulse' = 0 /\ check' = "PRESENCE" /\ due' = Settle /\ started_age' \in {0, started_age}
            /\ low' = TRUE /\ high' \subseteq high
        BY <2>3 DEF Switched!EndPulse, Switched!BeginCheckA, Switched!BeginPresence
      <3> QED BY <2>3, <3>1
    <2> QED BY <1>2, <2>1, <2>2, <2>3 DEF Switched!Update
  <1>3. ASSUME NEW c \in Channels, Switched!Fire(c) PROVE Switched!TypeOK'
    <2>1. CASE Switched!Firing
      BY <1>3, <2>1 DEF Switched!Fire
    <2>2. CASE ~Switched!Firing
      <3>1. /\ presence' \in [Channels -> {"NONE", "BEFORE", "AFTER"}]
            /\ result' \in [Channels -> {"NONE", "BEFORE", "AFTER"}]
        BY <1>3, <2>2 DEF Switched!Fire
      <3>2. /\ pulse' = c /\ pulse_age' = 0 /\ low' = TRUE /\ high' = high \cup {c}
            /\ fired_since' = [fired_since EXCEPT ![c] = TRUE] /\ UNCHANGED <<check, due, started_age, complete>>
        BY <1>3, <2>2 DEF Switched!Fire
      <3>3. pulse' \in 0..2 /\ pulse_age' \in 0..Pulse /\ low' \in BOOLEAN
        BY <3>2
      <3>6. high' \subseteq {1, 2}
        <4>1. high \subseteq {1, 2} /\ c \in {1, 2} /\ high' = high \cup {c}
          BY <3>2
        <4> HIDE DEF Switched!TypeOK, Switched!switched
        <4> QED BY <4>1
      <3>4. fired_since' \in [{1, 2} -> BOOLEAN]
        BY <3>2
      <3>5. /\ check' \in {"PRESENCE", "SHORTS", "IDLE"} /\ complete' \in BOOLEAN
            /\ due' \in 0..(Settle + Idle + Period) /\ started_age' \in 0..Period
        BY <3>2
      <3> QED BY <3>1, <3>3, <3>4, <3>5, <3>6
    <2> QED BY <2>1, <2>2
  <1> QED BY <1>1, <1>2, <1>3

LEMMA SwitchedKept ==
    ASSUME Switched!TypeOK, SwitchedInv,
           \/ \E d \in Steps : Switched!Pass(d)
           \/ Switched!Update
           \/ \E c \in Channels : Switched!Fire(c)
    PROVE  SwitchedInv'
  <1> USE DEF Channels, Switched!Channels, Switched!Readings, Switched!switched, Switched!TypeOK, SwitchedInv
  <1>1. ASSUME NEW d \in Steps, Switched!Pass(d) PROVE SwitchedInv'
    BY <1>1 DEF Switched!Pass
  <1>2. ASSUME Switched!Update PROVE SwitchedInv'
    <2>1. CASE ~Switched!Firing /\ Switched!CheckA /\ UNCHANGED <<pulse, high>>
      BY <2>1 DEF Switched!CheckA, Switched!BeginCheckA, Switched!Firing
    <2>2. CASE ~Switched!Firing /\ board # "MK1A" /\ Switched!CheckB /\ UNCHANGED <<pulse, presence>>
      BY <2>2 DEF Switched!CheckB, Switched!BeginPresence, Switched!Firing
    <2>3. CASE Switched!EndPulse /\ UNCHANGED <<fired_since, presence, result>>
      BY <2>3 DEF Switched!EndPulse, Switched!BeginCheckA, Switched!BeginPresence
    <2> QED BY <1>2, <2>1, <2>2, <2>3 DEF Switched!Update, Switched!CheckDue
  <1>3. ASSUME NEW c \in Channels, Switched!Fire(c) PROVE SwitchedInv'
    <2>1. CASE Switched!Firing
      BY <1>3, <2>1 DEF Switched!Fire
    <2>2. CASE ~Switched!Firing
      <3>1. /\ pulse' = c /\ low' /\ high' = {c} /\ fired_since' = [fired_since EXCEPT ![c] = TRUE]
        BY <1>3, <2>2 DEF Switched!Fire, Switched!Firing
      <3>2. \A e \in Channels : e # c => result'[e] = result[e] /\ fired_since'[e] = fired_since[e]
        BY <1>3, <2>2 DEF Switched!Fire
      <3>3. fired_since'[c]
        BY <3>1
      <3>4. \A e \in Channels : ~fired_since'[e] => result'[e] # "BEFORE"
        BY <3>2, <3>3
      <3>5. pulse' # 0 /\ low' /\ high' = {pulse'}
        BY <3>1
      <3> QED BY <3>4, <3>5
    <2> QED BY <2>1, <2>2
  <1> QED BY <1>1, <1>2, <1>3

\* What holds of the boards alone.
BoardsOK == Switched!TypeOK /\ Sequenced!TypeOK /\ SwitchedInv /\ SequenceInv /\ BoardInv

\* A call of hal_pyro_ reaches the board there is.
LEMMA PyroIs ==
    /\ board = "MK1C" =>
         /\ PyroIsFiring <=> Sequenced!Firing
         /\ PyroUpdate <=> Sequenced!Update /\ UNCHANGED switched
         /\ \A d : PyroPass(d) <=> Sequenced!Pass(d) /\ UNCHANGED switched
         /\ \A c : PyroFire(c) <=> Sequenced!Fire(c) /\ UNCHANGED switched
    /\ board = "REFERENCE" =>
         /\ ~PyroIsFiring
         /\ PyroUpdate <=> UNCHANGED boards
         /\ \A d : PyroPass(d) <=> UNCHANGED boards
         /\ \A c : PyroFire(c) <=> UNCHANGED boards
    /\ board \notin {"MK1C", "REFERENCE"} =>
         /\ PyroIsFiring <=> Switched!Firing
         /\ PyroUpdate <=> Switched!Update /\ UNCHANGED sequenced
         /\ \A d : PyroPass(d) <=> Switched!Pass(d) /\ UNCHANGED sequenced
         /\ \A c : PyroFire(c) <=> Switched!Fire(c) /\ UNCHANGED sequenced
  BY DEF PyroIsFiring, PyroUpdate, PyroPass, PyroFire

\* One board at most has a pulse under way; it is that which fires, and the
\* outputs that are on are its.
LEMMA OneFires ==
    ASSUME BoardsOK
    PROVE  /\ PyroIsFiring <=> Sequenced!Firing \/ Switched!Firing
           /\ Energised = (IF step = "HOLD" THEN {channel} ELSE {}) \cup (IF pulse # 0 THEN {pulse} ELSE {})
           /\ ~PyroIsFiring => Energised = {}
  <1>1. /\ board = "MK1C" => pulse = 0
        /\ board = "REFERENCE" => pulse = 0 /\ step = "IDLE"
        /\ board \notin {"MK1C", "REFERENCE"} => step = "IDLE"
    BY DEF BoardsOK, BoardInv
  <1>2. PyroIsFiring <=> Sequenced!Firing \/ Switched!Firing
    BY <1>1, PyroIs DEF Sequenced!Firing, Switched!Firing
  <1>3. Energised = (IF step = "HOLD" THEN {channel} ELSE {}) \cup (IF pulse # 0 THEN {pulse} ELSE {})
    BY DEF Energised, BoardsOK, SequenceInv, SwitchedInv
  <1> QED BY <1>2, <1>3 DEF Sequenced!Firing, Switched!Firing

\* Whatever the boards do, they keep that.
LEMMA BoardsKept ==
    ASSUME BoardsOK, board' = board,
           \/ \E d \in Steps : PyroPass(d)
           \/ PyroUpdate
           \/ \E c \in Channels : PyroFire(c)
           \/ board = "MK1C" /\ Sequenced!PulseEndIsr /\ UNCHANGED switched
           \/ UNCHANGED boards
    PROVE  BoardsOK'
  <1>1. CASE UNCHANGED boards
    BY <1>1 DEF boards, switched, sequenced, BoardsOK, Switched!TypeOK, Sequenced!TypeOK, SwitchedInv, SequenceInv,
                BoardInv
  <1>2. CASE board = "MK1C" /\ UNCHANGED switched
             /\ \/ \E d \in Steps : Sequenced!Pass(d)
                \/ Sequenced!Update
                \/ \E c \in Channels : Sequenced!Fire(c)
                \/ Sequenced!PulseEndIsr
    <2>1. Sequenced!TypeOK' /\ SequenceInv'
      BY <1>2, SequencedTypes, SequencedKept DEF BoardsOK
    <2>2. Switched!TypeOK' /\ SwitchedInv' /\ BoardInv'
      BY <1>2 DEF switched, BoardsOK, Switched!TypeOK, SwitchedInv, BoardInv
    <2> QED BY <2>1, <2>2 DEF BoardsOK
  <1>3. CASE board \notin {"MK1C", "REFERENCE"} /\ UNCHANGED sequenced
             /\ \/ \E d \in Steps : Switched!Pass(d)
                \/ Switched!Update
                \/ \E c \in Channels : Switched!Fire(c)
    <2>1. Switched!TypeOK' /\ SwitchedInv'
      BY <1>3, SwitchedTypes, SwitchedKept DEF BoardsOK
    <2>2. Sequenced!TypeOK' /\ SequenceInv' /\ BoardInv'
      BY <1>3 DEF sequenced, BoardsOK, Sequenced!TypeOK, SequenceInv, BoardInv
    <2> QED BY <2>1, <2>2 DEF BoardsOK
  <1> QED BY <1>1, <1>2, <1>3, PyroIs

\* What is pulsed, from step to step: the loop's update ends pulses and begins
\* none; an order to an idle board begins c's.
LEMMA PulsesEnd ==
    ASSUME BoardsOK,
           \/ \E d \in Steps : PyroPass(d)
           \/ PyroUpdate
           \/ board = "MK1C" /\ Sequenced!PulseEndIsr /\ UNCHANGED switched
    PROVE  /\ Sequenced!Firing' => Sequenced!Firing /\ channel' = channel
           /\ Switched!Firing' => Switched!Firing /\ pulse' = pulse
  <1>1. CASE UNCHANGED boards
    BY <1>1 DEF boards, switched, sequenced, Sequenced!Firing, Switched!Firing
  <1>2. CASE board = "MK1C" /\ UNCHANGED switched
             /\ \/ \E d \in Steps : Sequenced!Pass(d)
                \/ Sequenced!Update
                \/ Sequenced!PulseEndIsr
    BY <1>2 DEF switched, Sequenced!Firing, Switched!Firing, Sequenced!Pass, Sequenced!Update, Sequenced!PulseEndIsr,
                Sequenced!CloseGate, Sequenced!Hold, Sequenced!sequence
  <1>3. CASE board \notin {"MK1C", "REFERENCE"} /\ UNCHANGED sequenced
             /\ \/ \E d \in Steps : Switched!Pass(d)
                \/ Switched!Update
    BY <1>3 DEF sequenced, Sequenced!Firing, Switched!Firing, Switched!Pass, Switched!Update, Switched!switched,
                Switched!EndPulse
  <1> QED BY <1>1, <1>2, <1>3, PyroIs

LEMMA PulseBegins ==
    ASSUME BoardsOK, ~PyroIsFiring, NEW c \in Channels, PyroFire(c)
    PROVE  /\ Sequenced!Firing' => channel' = c
           /\ Switched!Firing' => pulse' = c
  <1>1. ~Sequenced!Firing /\ ~Switched!Firing
    BY OneFires
  <1>2. CASE UNCHANGED boards
    BY <1>1, <1>2 DEF boards, switched, sequenced, Sequenced!Firing, Switched!Firing
  <1>3. CASE Sequenced!Fire(c) /\ UNCHANGED switched
    BY <1>1, <1>3 DEF switched, Sequenced!Fire, Switched!Firing
  <1>4. CASE Switched!Fire(c) /\ UNCHANGED sequenced
    BY <1>1, <1>4 DEF sequenced, Sequenced!Firing, Switched!Fire
  <1> QED BY <1>2, <1>3, <1>4, PyroIs

-----------------------------------------------------------------------------
(* The procedure: Sequence's own definitions, named. *)

Age == IF asserted_now' # raw THEN 0 ELSE raw_age
Closed == Debounced(asserted_now', Age)
Held == IF Closed /\ ~asserted THEN 0 ELSE held_age
Stop == Closed /\ phase \in Stoppable
Arms == ~Stop /\ (armed \/ (phase = "ALERT" /\ Closed /\ Held >= Arm))
Comes ==
    CASE Stop -> "ALERT"
      [] ~Stop /\ phase = "ALERT" /\ Arms /\ ~Closed -> "COUNTDOWN"
      [] ~Stop /\ phase = "ALERT" /\ ~(Arms /\ ~Closed) -> "ALERT"
      [] OTHER -> Advanced
Entered == Stop \/ Comes # phase
Sound == IF Entered \/ ~sounded THEN SoundOf(Comes) ELSE "NONE"
Ordered == ChannelToFire(Comes)
Delivered == Ordered # 0 /\ ~Busy(Ordered)
ClosedNow == IF asserted_now' /\ asserted_now THEN closed_for ELSE 0

LEMMA SequenceIs ==
    ASSUME Sequence
    PROVE  /\ raw' = asserted_now' /\ raw_age' = Age
           /\ asserted' = Closed /\ held_age' = Held
           /\ armed' = Arms
           /\ phase' = IF Delivered THEN PhaseAfter(Ordered) ELSE Comes
           /\ phase_age' = IF Entered \/ Delivered THEN 0 ELSE phase_age
           /\ sounded' = ~Delivered
           /\ FireOnCommand(Ordered)
           /\ end_age' = [d \in Channels |-> IF NotedOver(d) THEN 0 ELSE end_age[d]]
           /\ heard' = IF Sound # "NONE" THEN Sound ELSE heard
           /\ heard_age' = IF Sound # "NONE" THEN 0 ELSE heard_age
           /\ pulsed' = IF Delivered THEN Lesser(pulsed + 1, 2) ELSE IF Sound # "NONE" THEN 0 ELSE pulsed
           /\ closed_for' = ClosedNow
           /\ stopped' = (Sound = "NONE" /\ (stopped \/ (/\ asserted_now' /\ ClosedNow >= Debounce
                                                         /\ phase \in Stoppable)))
  BY DEF Sequence, Age, Closed, Held, Stop, Arms, Comes, Entered, Sound, Ordered, Delivered, ClosedNow

\* Which phase may come, and which channel it fires.
LEMMA ComesFrom ==
    ASSUME phase \in Phases
    PROVE  /\ Comes \in Phases
           /\ Comes \in {"COUNTDOWN", "COUNTDOWN_2"} => Entered \/ Comes = phase
           /\ Comes \in {"FIRE_1", "FIRE_2"} =>
                 Comes = phase \/ (phase \in {"COUNTDOWN", "COUNTDOWN_2"} /\ phase_age >= Countdown)
           /\ Stop => Comes = "ALERT"
           /\ Ordered = (IF Comes = "FIRE_1" THEN 1 ELSE IF Comes = "FIRE_2" THEN 2 ELSE 0)
           /\ Sound \in Sounds
           /\ Sound = (IF ~(Entered \/ ~sounded) \/ Comes \in {"FIRE_1", "FIRE_2", "DONE"} THEN "NONE"
                       ELSE IF Comes \in {"COUNTDOWN", "COUNTDOWN_2"} THEN "COUNTDOWN" ELSE Comes)
           /\ \A c \in 0..2 : PhaseAfter(c) \in {"FIRE_1", "FIRE_2", "TONE", "ALL_CLEAR"}
           /\ \A c \in Channels : PhaseAfter(c) \in {"TONE", "ALL_CLEAR"}
  <1>1. PhaseAfter(0) \in {"FIRE_1", "FIRE_2", "ALL_CLEAR"}
    BY DEF PhaseAfter
  <1>2. /\ \A c \in 0..2 : PhaseAfter(c) \in {"FIRE_1", "FIRE_2", "TONE", "ALL_CLEAR"}
        /\ \A c \in Channels : PhaseAfter(c) \in {"TONE", "ALL_CLEAR"}
    BY DEF PhaseAfter, Channels
  <1>3. /\ Advanced \in Phases
        /\ Advanced \in {"FIRE_1", "FIRE_2"} =>
              Advanced = phase \/ (phase \in {"COUNTDOWN", "COUNTDOWN_2"} /\ phase_age >= Countdown)
    BY <1>1 DEF Advanced, Phases, PhaseTone
  <1>4. Comes = IF Stop \/ (phase = "ALERT" /\ ~(Arms /\ ~Closed)) THEN "ALERT"
                ELSE IF phase = "ALERT" THEN "COUNTDOWN" ELSE Advanced
    BY DEF Comes
  <1>5. /\ Comes \in Phases
        /\ Comes \in {"FIRE_1", "FIRE_2"} =>
              Comes = phase \/ (phase \in {"COUNTDOWN", "COUNTDOWN_2"} /\ phase_age >= Countdown)
    BY <1>3, <1>4 DEF Phases
  <1>6. Sound = (IF ~(Entered \/ ~sounded) \/ Comes \in {"FIRE_1", "FIRE_2", "DONE"} THEN "NONE"
                 ELSE IF Comes \in {"COUNTDOWN", "COUNTDOWN_2"} THEN "COUNTDOWN" ELSE Comes)
    BY DEF Sound, SoundOf
  <1>7. Sound \in Sounds
    BY <1>5, <1>6 DEF Phases, Sounds
  <1>8. Ordered = (IF Comes = "FIRE_1" THEN 1 ELSE IF Comes = "FIRE_2" THEN 2 ELSE 0)
    BY DEF Ordered, ChannelToFire
  <1> QED BY <1>2, <1>4, <1>5, <1>6, <1>7, <1>8 DEF Entered

-----------------------------------------------------------------------------
(* The steps *)

\* What every step leaves alone, and what it does to the boards.
LEMMA StepIs ==
    ASSUME Next
    PROVE  /\ UNCHANGED setup
           /\ \/ \E d \in Steps : PyroPass(d)
              \/ PyroUpdate
              \/ \E c \in Channels : PyroFire(c)
              \/ board = "MK1C" /\ Sequenced!PulseEndIsr /\ UNCHANGED switched
              \/ UNCHANGED boards
  <1>1. CASE \E d \in Steps : Wait(d)
    BY <1>1 DEF Wait
  <1>2. CASE Step
    <2>1. UNCHANGED setup
      BY <1>2 DEF Step
    <2>2. CASE Sequence
      <3>1. FireOnCommand(Ordered) /\ Ordered \in 0..2
        BY <2>2, SequenceIs DEF Ordered, ChannelToFire
      <3> QED BY <2>1, <3>1 DEF FireOnCommand, Channels
    <2> QED BY <1>2, <2>1, <2>2 DEF Step, BootSettle, BootChecks, EnterGroundTest
  <1>3. CASE Update
    BY <1>3 DEF Update
  <1>4. CASE Interrupt
    BY <1>4 DEF Interrupt
  <1> QED BY <1>1, <1>2, <1>3, <1>4 DEF Next

\* What the detectors keep of the types of a reading.
LEMMA SwitchRead ==
    ASSUME TypeOK, ReadSwitch
    PROVE  drive_high' \in BOOLEAN /\ asserted_now' \in BOOLEAN /\ follows' \in [1..2 -> BOOLEAN]
  <1>1. ReadHigh \in BOOLEAN
    BY DEF ReadHigh, TypeOK, Wires
  <1>2. follows[2] \in BOOLEAN /\ drive_high \in BOOLEAN
    BY DEF TypeOK
  <1>3. drive_high' \in BOOLEAN
    BY <1>2 DEF ReadSwitch
  <1>4. follows' \in [1..2 -> BOOLEAN]
    <2>1. CASE pair
      <3>1. follows' = <<follows[2], ReadHigh = drive_high>>
        BY <2>1 DEF ReadSwitch
      <3>2. (ReadHigh = drive_high) \in BOOLEAN
        OBVIOUS
      <3>3. \A a, b \in BOOLEAN : <<a, b>> \in [1..2 -> BOOLEAN]
        OBVIOUS
      <3> QED BY <1>2, <3>1, <3>2, <3>3, Zenon
    <2>2. CASE ~pair
      BY <2>2 DEF ReadSwitch, TypeOK
    <2> QED BY <2>1, <2>2
  <1>5. asserted_now' \in BOOLEAN
    <2>1. CASE pair
      BY <2>1 DEF ReadSwitch, ClosedAcross
    <2>2. CASE ~pair
      BY <2>2 DEF ReadSwitch
    <2> QED BY <2>1, <2>2
  <1> QED BY <1>3, <1>4, <1>5

LEMMA TypeStep ==
    ASSUME TypeOK, BoardsOK', Next
    PROVE  TypeOK'
  <1> USE GroundTestConstants DEF setup, boot, switch, seq, fire, seen, Channels
  <1>1. Switched!TypeOK' /\ Sequenced!TypeOK' /\ board' \in Boards /\ enabled' \subseteq Channels /\ pair' \in BOOLEAN
    BY StepIs DEF BoardsOK, TypeOK
  <1>2. ASSUME NEW d \in Steps, Wait(d) PROVE TypeOK'
    <2>1. /\ turn' = "STEP" /\ wire' \in Wires' /\ steady' \in 0..2
          /\ boot_age' \in 0..SettleFor /\ gt_held_age' \in 0..BootHold
          /\ phase_age' \in 0..(Countdown + Tone + AllClear)
          /\ raw_age' \in 0..Debounce /\ held_age' \in 0..Arm
          /\ heard_age' \in 0..Countdown /\ closed_for' \in 0..Debounce
      BY <1>2 DEF Wait, TypeOK, Lesser, Wires
    <2>2. end_age' \in [Channels -> 0..FireGap] /\ off_age' \in [Channels -> 0..FireGap]
      BY <1>2 DEF Wait, TypeOK, Lesser
    <2>3. UNCHANGED <<mode, gt_held, gt_requested, drive_high, follows, asserted_now,
                      phase, raw, asserted, armed, sounded, fired, pulse_ended, active_channel,
                      heard, pulsed, stopped>>
      BY <1>2 DEF Wait
    <2> QED BY <1>1, <2>1, <2>2, <2>3 DEF TypeOK
  <1>3. CASE Step
    <2>1. /\ turn' = "UPDATE" /\ UNCHANGED <<wire, steady, off_age>> /\ Wires' = Wires
          /\ drive_high' \in BOOLEAN /\ asserted_now' \in BOOLEAN /\ follows' \in [1..2 -> BOOLEAN]
      BY <1>3, SwitchRead DEF Step, Wires
    <2>2. CASE BootSettle \/ BootChecks
      <3>1. mode' \in Modes /\ gt_held_age' \in 0..BootHold
        BY <2>2 DEF BootSettle, BootChecks, Modes, TypeOK
      <3>3. gt_held' \in BOOLEAN /\ gt_requested' \in BOOLEAN
        <4>1. gt_held \in BOOLEAN /\ gt_requested \in BOOLEAN
          BY DEF TypeOK
        <4>2. CASE BootSettle
          <5>1. gt_held' = asserted_now'
            BY <4>2 DEF BootSettle
          <5>2. gt_requested' = gt_requested \/ gt_requested' = TRUE \/ gt_requested' = FALSE
            BY <4>2 DEF BootSettle
          <5> QED BY <2>1, <4>1, <5>1, <5>2
        <4>3. CASE BootChecks
          BY <4>1, <4>3 DEF BootChecks
        <4> QED BY <2>2, <4>2, <4>3
      <3>2. UNCHANGED <<boot_age, seq, fire, heard, heard_age, pulsed, closed_for, stopped>>
        BY <2>2 DEF BootSettle, BootChecks
      <3> QED BY <1>1, <2>1, <3>1, <3>2, <3>3 DEF TypeOK
    <2>3. CASE EnterGroundTest
      <3>1. /\ mode' = "GROUND_TEST" /\ phase' = "ALERT" /\ phase_age' = 0 /\ sounded' = FALSE /\ armed' = FALSE
            /\ raw' = asserted_now' /\ raw_age' = 0 /\ asserted' = asserted_now' /\ held_age' = 0
            /\ UNCHANGED <<boot, fire, heard, heard_age, pulsed, closed_for, stopped>>
        BY <2>3 DEF EnterGroundTest
      <3>2. mode' \in Modes /\ phase' \in Phases
        BY <3>1 DEF Modes, Phases
      <3>3. raw_age' \in 0..Debounce /\ held_age' \in 0..Arm /\ phase_age' \in 0..(Countdown + Tone + AllClear)
        BY <3>1
      <3>4. /\ raw' \in BOOLEAN /\ asserted' \in BOOLEAN /\ armed' \in BOOLEAN /\ sounded' \in BOOLEAN
            /\ {gt_held', gt_requested', stopped'} \subseteq BOOLEAN
        BY <2>1, <3>1 DEF TypeOK
      <3>5. /\ boot_age' \in 0..SettleFor /\ gt_held_age' \in 0..BootHold /\ heard' \in Sounds
            /\ heard_age' \in 0..Countdown /\ pulsed' \in 0..2 /\ closed_for' \in 0..Debounce
            /\ fired' \in [Channels -> BOOLEAN] /\ pulse_ended' \in [Channels -> BOOLEAN]
            /\ end_age' \in [Channels -> 0..FireGap] /\ active_channel' \in 0..2
        BY <3>1 DEF TypeOK
      <3> QED BY <1>1, <2>1, <3>2, <3>3, <3>4, <3>5 DEF TypeOK
    <2>4. CASE Sequence /\ UNCHANGED <<mode, boot>>
      <3>1. phase' \in Phases /\ heard' \in Sounds
        BY <2>4, SequenceIs, ComesFrom DEF TypeOK, Phases
      <3>2. /\ raw_age' \in 0..Debounce /\ held_age' \in 0..Arm /\ phase_age' \in 0..(Countdown + Tone + AllClear)
            /\ heard_age' \in 0..Countdown /\ pulsed' \in 0..2 /\ closed_for' \in 0..Debounce
        BY <2>4, SequenceIs DEF TypeOK, Age, Held, ClosedNow, Lesser
      <3>3. end_age' \in [Channels -> 0..FireGap]
        BY <2>4, SequenceIs DEF TypeOK
      <3>4. /\ fired' \in [Channels -> BOOLEAN] /\ pulse_ended' \in [Channels -> BOOLEAN]
            /\ active_channel' \in 0..2
        <4>1. FireOnCommand(Ordered) /\ Ordered \in 0..2
          BY <2>4, SequenceIs DEF Ordered, ChannelToFire
        <4>2. CASE Ordered = 0 \/ Busy(Ordered)
          <5>1. fired' = fired /\ active_channel' \in {0, active_channel}
            BY <4>1, <4>2 DEF FireOnCommand
          <5>2. pulse_ended' = [d \in Channels |-> pulse_ended[d] \/ NotedOver(d)]
            BY <4>1, <4>2 DEF FireOnCommand
          <5>3. pulse_ended' \in [Channels -> BOOLEAN]
            BY <5>2
          <5> QED BY <5>1, <5>3 DEF TypeOK
        <4>3. CASE ~(Ordered = 0 \/ Busy(Ordered))
          <5>1. fired' = [fired EXCEPT ![Ordered] = TRUE] /\ active_channel' = Ordered
            BY <4>1, <4>3 DEF FireOnCommand
          <5>2. pulse_ended' = [d \in Channels |-> d # Ordered /\ (pulse_ended[d] \/ NotedOver(d))]
            BY <4>1, <4>3 DEF FireOnCommand
          <5>3. pulse_ended' \in [Channels -> BOOLEAN]
            BY <5>2
          <5>4. fired' \in [Channels -> BOOLEAN]
            BY <5>1 DEF TypeOK
          <5> QED BY <4>1, <5>1, <5>3, <5>4
        <4> QED BY <4>2, <4>3
      <3>5. /\ asserted' \in BOOLEAN /\ armed' \in BOOLEAN /\ sounded' \in BOOLEAN /\ stopped' \in BOOLEAN
            /\ raw' \in BOOLEAN
        BY <2>1, <2>4, SequenceIs DEF TypeOK, Closed, Debounced, Arms
      <3>6. UNCHANGED <<mode, boot_age, gt_held, gt_held_age, gt_requested>>
        BY <2>4
      <3> QED BY <1>1, <2>1, <3>1, <3>2, <3>3, <3>4, <3>5, <3>6 DEF TypeOK
    <2> QED BY <1>3, <2>2, <2>3, <2>4 DEF Step
  <1>4. CASE Update
    <2>1. off_age' \in [Channels -> 0..FireGap]
      BY <1>4 DEF Update, TypeOK
    <2>2. /\ turn' = "WAIT" /\ UNCHANGED <<mode, boot, switch, seq, fire, heard, heard_age, pulsed, closed_for,
                                           stopped, steady>>
          /\ Wires' = Wires
      BY <1>4 DEF Update, Wires
    <2> QED BY <1>1, <2>1, <2>2 DEF TypeOK
  <1>5. CASE Interrupt
    <2>1. UNCHANGED <<turn, mode, boot, switch, seq, fire, seen>> /\ Wires' = Wires
      BY <1>5 DEF Interrupt, Wires
    <2> QED BY <1>1, <2>1 DEF TypeOK
  <1> QED BY <1>2, <1>3, <1>4, <1>5 DEF Next

\* The bus: below hot once a fire has drained, cold where none is under way.
LEMMA BusStep ==
    ASSUME TypeOK, BoardsOK, BusInv, Next
    PROVE  BusInv'
  <1> USE GroundTestConstants, BoardConstants DEF Sequenced!SequencedConstants, Sequenced!Cold, Sequenced!Hot, Sequenced!Charged,
          Sequenced!faults, Sequenced!sequence
  <1> SUFFICES ASSUME ~failed_closed' PROVE BusInv'
    BY DEF BusInv
  <1>0. /\ Agreeing \in Nat /\ Agreeing > 1 /\ bus \in 0..3 /\ gated_age \in 0..Bleed /\ Bleed \in Nat
        /\ step \in {"IDLE", "PRECHARGE", "HOLD", "DRAIN"} /\ (pump <=> step = "PRECHARGE")
    BY DEF BoardsOK, Sequenced!TypeOK, SequenceInv
  <1>1. CASE UNCHANGED sequenced /\ (turn' = turn \/ turn' = "WAIT" \/ turn = "STEP" \/ step = "IDLE")
    <2>1. ~failed_closed /\ UNCHANGED <<step, bus, gated_age, hot_run, latched>>
      BY <1>1 DEF sequenced
    <2> QED BY <1>1, <2>1 DEF BusInv
  <1>2. ASSUME NEW d \in Steps, turn' = "STEP", Sequenced!Pass(d) PROVE BusInv'
    <2>1. ~failed_closed /\ UNCHANGED <<step, pump, hot_run, latched>>
      BY <1>2 DEF Sequenced!Pass
    <2>2. bus' \in Sequenced!BusAfter(d) /\ gated_age' = Sequenced!Lesser(gated_age + d, Bleed)
      BY <1>2 DEF Sequenced!Pass
    <2>3. step = "IDLE" => bus' = 0
      BY <1>0, <2>1, <2>2 DEF Sequenced!BusAfter, BusInv
    <2>4. step = "DRAIN" /\ gated_age' >= Bleed => bus' < 2
      BY <1>0, <2>1, <2>2 DEF Sequenced!BusAfter, Sequenced!Lesser
    <2> QED BY <2>1, <2>3, <2>4 DEF BusInv
  <1>3. ASSUME turn = "UPDATE", turn' = "WAIT", Sequenced!Update PROVE BusInv'
    <2>1. /\ ~failed_closed /\ bus' = bus
          /\ step' \in {"IDLE", "PRECHARGE", "HOLD", "DRAIN"}
      BY <1>0, <1>3 DEF Sequenced!Update, Sequenced!CloseGate, Sequenced!Hold
    <2>2. /\ step' = "IDLE" => bus = 0
          /\ step' = "DRAIN" => step = "DRAIN" \/ step = "HOLD"
      BY <1>0, <1>3, <2>1 DEF Sequenced!Update, Sequenced!CloseGate, Sequenced!Hold, BusInv
    <2>3. \E t \in SUBSET {"PRECHARGE_TIMEOUT"} : Sequenced!WatchFaults(t)
      BY <1>3 DEF Sequenced!Update, Sequenced!Overdue
    <2>4. PICK t \in SUBSET {"PRECHARGE_TIMEOUT"} : Sequenced!WatchFaults(t)
      BY <2>3
    <2>5. hot_run' = IF ~Sequenced!ChargedTheBus(step') /\ bus >= 2 THEN Sequenced!Lesser(hot_run + 1, Agreeing) ELSE 0
      BY <2>4 DEF Sequenced!WatchFaults
    <2>6. ~Sequenced!ChargedTheBus(step') /\ bus >= 2 => step = "HOLD" /\ step' = "DRAIN"
      BY <1>0, <1>3, <2>1, <2>2 DEF Sequenced!ChargedTheBus, BusInv
    <2>7. hot_run' \in {0, 1} /\ (step' = "HOLD" => hot_run' = 0)
      <3>1. CASE ~Sequenced!ChargedTheBus(step') /\ bus >= 2
        <4>1. hot_run = 0 /\ step' = "DRAIN"
          BY <2>1, <2>6, <3>1 DEF BusInv
        <4> QED BY <1>0, <2>5, <3>1, <4>1 DEF Sequenced!Lesser
      <3>2. CASE ~(~Sequenced!ChargedTheBus(step') /\ bus >= 2)
        BY <2>5, <3>2
      <3> QED BY <3>1, <3>2
    <2>8. "BUS_HOT" \notin latched'
      <3>1. "BUS_HOT" \notin latched /\ hot_run' # Agreeing
        BY <1>0, <2>1, <2>7 DEF BusInv
      <3> QED BY <2>4, <3>1 DEF Sequenced!WatchFaults
    <2> QED BY <1>3, <2>1, <2>2, <2>7, <2>8 DEF BusInv
  <1>4. ASSUME NEW c \in Channels, Sequenced!Fire(c), turn' # "WAIT", turn # "WAIT" PROVE BusInv'
    <2>1. CASE Sequenced!Firing
      <3>1. ~failed_closed /\ UNCHANGED <<step, bus, gated_age, hot_run, latched>>
        BY <1>4, <2>1 DEF Sequenced!Fire, Sequenced!sequenced
      <3> QED BY <1>4, <3>1 DEF BusInv
    <2>2. CASE ~Sequenced!Firing
      <3>1. ~failed_closed /\ step' = "PRECHARGE" /\ hot_run' = hot_run /\ latched' \subseteq latched
        BY <1>4, <2>2 DEF Sequenced!Fire
      <3> QED BY <3>1 DEF BusInv
    <2> QED BY <2>1, <2>2
  <1>5. ASSUME Sequenced!PulseEndIsr, turn' = turn PROVE BusInv'
    <2>1. ~failed_closed /\ UNCHANGED <<step, bus, gated_age, hot_run, latched>>
      BY <1>5 DEF Sequenced!PulseEndIsr
    <2> QED BY <1>5, <2>1 DEF BusInv
  <1>6. CASE \E d \in Steps : Wait(d)
    <2>1. PICK d \in Steps : Wait(d)
      BY <1>6
    <2>2. turn' = "STEP" /\ PyroPass(d)
      BY <2>1 DEF Wait
    <2>3. board # "MK1C" => step = "IDLE" /\ UNCHANGED sequenced
      BY <2>2, PyroIs DEF BoardsOK, BoardInv, boards
    <2> QED BY <1>1, <1>2, <2>2, <2>3, PyroIs
  <1>7. CASE Step
    <2>1. turn = "STEP" /\ turn' = "UPDATE"
      BY <1>7 DEF Step
    <2>2. UNCHANGED sequenced \/ \E c \in Channels : Sequenced!Fire(c)
      <3>1. UNCHANGED boards \/ \E c \in Channels : PyroFire(c)
        <4>1. CASE Sequence
          <5>1. FireOnCommand(Ordered) /\ Ordered \in 0..2
            BY <4>1, SequenceIs DEF Ordered, ChannelToFire
          <5> QED BY <5>1 DEF FireOnCommand, Channels
        <4> QED BY <1>7, <4>1 DEF Step, BootSettle, BootChecks, EnterGroundTest
      <3> QED BY <3>1, PyroIs DEF boards
    <2> QED BY <1>1, <1>4, <2>1, <2>2
  <1>8. CASE Update
    <2>1. turn = "UPDATE" /\ turn' = "WAIT" /\ PyroUpdate
      BY <1>8 DEF Update
    <2>2. UNCHANGED sequenced \/ Sequenced!Update
      BY <2>1, PyroIs DEF boards
    <2> QED BY <1>1, <1>3, <2>1, <2>2
  <1>9. CASE Interrupt
    BY <1>5, <1>9 DEF Interrupt
  <1> QED BY <1>6, <1>7, <1>8, <1>9 DEF Next

\* The rules' notes: a pulse under way is one they ordered and have not seen
\* end, and a channel has been off since its end was seen at least.
LEMMA FireStep ==
    ASSUME TypeOK, BoardsOK, BoardsOK', FireInv, Next
    PROVE  FireInv'
  <1> USE GroundTestConstants DEF Channels
  <1>0. /\ end_age \in [Channels -> 0..FireGap] /\ off_age \in [Channels -> 0..FireGap] /\ FireGap \in Nat
        /\ fired \in [Channels -> BOOLEAN] /\ pulse_ended \in [Channels -> BOOLEAN]
    BY DEF TypeOK
  <1>1. ASSUME NEW d \in Steps, Wait(d) PROVE FireInv'
    <2>1. /\ UNCHANGED <<fired, pulse_ended>> /\ PyroPass(d)
          /\ end_age' = [c \in Channels |-> Lesser(end_age[c] + d, FireGap)]
          /\ off_age' = [c \in Channels |-> Lesser(off_age[c] + d, FireGap)]
      BY <1>1 DEF Wait
    <2>2. /\ Sequenced!Firing' => Sequenced!Firing /\ channel' = channel
          /\ Switched!Firing' => Switched!Firing /\ pulse' = pulse
      BY <2>1, PulsesEnd
    <2>3. ASSUME NEW c \in Channels
          PROVE  /\ off_age[c] >= FireGap => off_age'[c] >= FireGap
                 /\ off_age[c] >= end_age[c] => off_age'[c] >= end_age'[c]
      BY <1>0, <2>1 DEF Lesser
    <2> QED BY <2>1, <2>2, <2>3 DEF FireInv
  <1>2. CASE Step /\ ~Sequence
    <2>1. UNCHANGED <<fire, boards, off_age>>
      BY <1>2 DEF Step, BootSettle, BootChecks, EnterGroundTest
    <2> QED BY <2>1 DEF fire, boards, switched, sequenced, FireInv, Sequenced!Firing, Switched!Firing
  <1>3. CASE Step /\ Sequence
    <2>1. /\ off_age' = off_age /\ FireOnCommand(Ordered) /\ Ordered \in 0..2
          /\ end_age' = [d \in Channels |-> IF NotedOver(d) THEN 0 ELSE end_age[d]]
      BY <1>3, SequenceIs DEF Step, Ordered, ChannelToFire
    <2>2. CASE Ordered = 0 \/ Busy(Ordered)
      <3>1. /\ fired' = fired /\ UNCHANGED boards
            /\ pulse_ended' = [d \in Channels |-> pulse_ended[d] \/ NotedOver(d)]
        BY <2>1, <2>2 DEF FireOnCommand
      <3>2. PyroIsFiring => \A c \in Channels : pulse_ended'[c] <=> pulse_ended[c]
        BY <1>0, <3>1 DEF NotedOver
      <3>3. \A c \in Channels : pulse_ended'[c] => off_age[c] >= end_age'[c]
        <4> SUFFICES ASSUME NEW c \in Channels, pulse_ended'[c] PROVE off_age[c] >= end_age'[c]
          OBVIOUS
        <4>1. CASE NotedOver(c)
          BY <1>0, <2>1, <4>1
        <4>2. CASE ~NotedOver(c)
          <5>1. pulse_ended[c]
            BY <3>1, <4>2
          <5> QED BY <1>0, <2>1, <4>2, <5>1 DEF FireInv
        <4> QED BY <4>1, <4>2
      <3>4. (Sequenced!Firing => channel \in Channels /\ PyroIsFiring) /\ (Switched!Firing => pulse \in Channels /\ PyroIsFiring)
        BY OneFires DEF BoardsOK, SequenceInv, Sequenced!Firing, Switched!Firing, Switched!TypeOK
      <3>5. /\ Sequenced!Firing' => Sequenced!Firing /\ channel' = channel
            /\ Switched!Firing' => Switched!Firing /\ pulse' = pulse
        BY <3>1 DEF boards, switched, sequenced, Sequenced!Firing, Switched!Firing
      <3> QED BY <2>1, <3>1, <3>2, <3>3, <3>4, <3>5 DEF FireInv
    <2>3. CASE ~(Ordered = 0 \/ Busy(Ordered))
      <3>1. PICK c \in Channels : c = Ordered
        BY <2>1, <2>3
      <3>2. /\ PyroFire(c) /\ ~PyroIsFiring
            /\ fired' = [fired EXCEPT ![c] = TRUE]
            /\ pulse_ended' = [d \in Channels |-> d # c /\ (pulse_ended[d] \/ NotedOver(d))]
        BY <2>1, <2>3, <3>1 DEF FireOnCommand, Busy
      <3>3. (Sequenced!Firing' => channel' = c) /\ (Switched!Firing' => pulse' = c)
        BY <3>2, PulseBegins
      <3>4. fired'[c] /\ ~pulse_ended'[c] /\ \A e \in Channels : fired[e] => fired'[e]
        BY <1>0, <3>2
      <3>5. \A e \in Channels : pulse_ended'[e] => off_age[e] >= end_age'[e]
        <4> SUFFICES ASSUME NEW e \in Channels, pulse_ended'[e] PROVE off_age[e] >= end_age'[e]
          OBVIOUS
        <4>1. CASE NotedOver(e)
          BY <1>0, <2>1, <4>1
        <4>2. CASE ~NotedOver(e)
          <5>1. pulse_ended[e]
            BY <3>2, <4>2
          <5> QED BY <1>0, <2>1, <4>2, <5>1 DEF FireInv
        <4> QED BY <4>1, <4>2
      <3> QED BY <2>1, <3>3, <3>4, <3>5 DEF FireInv
    <2> QED BY <2>2, <2>3
  <1>4. CASE Update
    <2>1. /\ UNCHANGED fire /\ PyroUpdate
          /\ off_age' = [c \in Channels |-> IF c \in Energised \ Energised' THEN 0 ELSE off_age[c]]
      BY <1>4 DEF Update
    <2>2. /\ Sequenced!Firing' => Sequenced!Firing /\ channel' = channel
          /\ Switched!Firing' => Switched!Firing /\ pulse' = pulse
      BY <2>1, PulsesEnd
    <2>3. \A c \in Energised : fired[c] /\ ~pulse_ended[c]
      BY OneFires DEF FireInv, Sequenced!Firing, Switched!Firing
    <2>4. \A c \in Channels : (~fired[c] => off_age'[c] >= FireGap) /\ (pulse_ended[c] => off_age'[c] >= end_age[c])
      BY <2>1, <2>3 DEF FireInv
    <2> QED BY <2>1, <2>2, <2>4 DEF FireInv, fire
  <1>5. CASE Interrupt
    <2>1. UNCHANGED <<fire, off_age>> /\ board = "MK1C" /\ Sequenced!PulseEndIsr /\ UNCHANGED switched
      BY <1>5 DEF Interrupt, seen
    <2>2. /\ Sequenced!Firing' => Sequenced!Firing /\ channel' = channel
          /\ Switched!Firing' => Switched!Firing /\ pulse' = pulse
      BY <2>1, PulsesEnd
    <2> QED BY <2>1, <2>2 DEF FireInv, fire
  <1> QED BY <1>1, <1>2, <1>3, <1>4, <1>5 DEF Next

\* A phase that fires comes of a countdown that has lasted in full, and sounds
\* nothing of its own.
LEMMA FiresCountedDown ==
    ASSUME TypeOK, TestInv, mode = "GROUND_TEST", Comes \in {"FIRE_1", "FIRE_2"}
    PROVE  Sound = "NONE" /\ heard = "COUNTDOWN" /\ pulsed = 0 /\ heard_age = Countdown
  <1> USE GroundTestConstants
  <1>0. phase \in Phases /\ Countdown \in Nat /\ Tone \in Nat /\ AllClear \in Nat
        /\ phase_age \in 0..(Countdown + Tone + AllClear)
    BY DEF TypeOK
  <1>1. Sound = "NONE"
    BY <1>0, ComesFrom
  <1>2. CASE Comes = phase
    BY <1>1, <1>2 DEF TestInv
  <1>3. CASE phase \in {"COUNTDOWN", "COUNTDOWN_2"} /\ phase_age >= Countdown
    BY <1>0, <1>1, <1>3 DEF TestInv, Lesser
  <1> QED BY <1>0, <1>2, <1>3, ComesFrom

\* The procedure: a countdown is the newest sound for as long as it has lasted,
\* and a switch closed for a debounce is a closed switch.
LEMMA TestStep ==
    ASSUME TypeOK, TestInv, Next
    PROVE  TestInv'
  <1> USE GroundTestConstants
  <1>0. /\ phase \in Phases /\ Debounce \in Nat /\ Debounce > 0 /\ Countdown \in Nat /\ Tone \in Nat /\ AllClear \in Nat
        /\ raw_age \in 0..Debounce /\ closed_for \in 0..Debounce /\ heard_age \in 0..Countdown
        /\ phase_age \in 0..(Countdown + Tone + AllClear)
    BY DEF TypeOK
  <1>1. ASSUME NEW d \in Steps, Wait(d) PROVE TestInv'
    <2>1. /\ UNCHANGED <<mode, asserted_now, raw, asserted, phase, sounded, heard, pulsed, stopped>>
          /\ raw_age' = Lesser(raw_age + d, Debounce) /\ closed_for' = Lesser(closed_for + d, Debounce)
          /\ phase_age' = Lesser(phase_age + d, Countdown + Tone + AllClear)
          /\ heard_age' = Lesser(heard_age + d, Countdown)
      BY <1>1 DEF Wait
    <2>2. raw_age >= closed_for => raw_age' >= closed_for'
      BY <1>0, <2>1 DEF Lesser
    <2>3. heard_age = Lesser(phase_age, Countdown) => heard_age' = Lesser(phase_age', Countdown)
      BY <1>0, <2>1 DEF Lesser
    <2>4. heard_age = Countdown => heard_age' = Countdown
      BY <1>0, <2>1 DEF Lesser
    <2> QED BY <2>1, <2>2, <2>3, <2>4 DEF TestInv
  <1>2. CASE Step /\ (BootSettle \/ BootChecks)
    <2>1. mode' # "GROUND_TEST" /\ stopped' = stopped
      BY <1>2 DEF BootSettle, BootChecks
    <2> QED BY <2>1 DEF TestInv
  <1>3. CASE Step /\ EnterGroundTest
    <2>1. phase' = "ALERT" /\ raw' = asserted_now' /\ asserted' = asserted_now' /\ stopped' = stopped
      BY <1>3 DEF EnterGroundTest
    <2> QED BY <2>1 DEF TestInv
  <1>4. CASE Step /\ mode = "GROUND_TEST" /\ Sequence /\ UNCHANGED mode
    <2>0. asserted_now' \in BOOLEAN /\ asserted_now \in BOOLEAN /\ asserted \in BOOLEAN
      BY <1>4, SwitchRead DEF Step, TypeOK
    <2>1. raw' = asserted_now' /\ asserted' = Closed /\ raw_age' = Age /\ closed_for' = ClosedNow
      BY <1>4, SequenceIs
    <2>2. asserted_now' /\ ~Closed => Age >= ClosedNow
      <3>1. CASE asserted_now
        <4>1. asserted_now' => Age = raw_age
          BY <1>4, <2>0, <3>1 DEF Age, TestInv
        <4>2. asserted_now' /\ ~Closed => ~asserted
          BY <2>0 DEF Closed, Debounced
        <4> QED BY <1>0, <1>4, <3>1, <4>1, <4>2 DEF ClosedNow, TestInv
      <3>2. CASE ~asserted_now
        <4>1. ClosedNow = 0
          BY <3>2 DEF ClosedNow
        <4>2. Age \in Nat
          BY <1>0 DEF Age
        <4> QED BY <4>1, <4>2
      <3> QED BY <3>1, <3>2
    <2>3. asserted_now' /\ ClosedNow >= Debounce => Closed
      <3>1. SUFFICES ASSUME asserted_now', ClosedNow >= Debounce, ~Closed PROVE FALSE
        OBVIOUS
      <3>2. Age >= Debounce /\ ~asserted
        <4>1. Age \in Int /\ ClosedNow \in Int
          BY <1>0 DEF Age, ClosedNow
        <4>2. Age >= ClosedNow
          BY <2>2, <3>1
        <4>3. ~asserted
          BY <2>0, <3>1 DEF Closed, Debounced
        <4> QED BY <1>0, <3>1, <4>1, <4>2, <4>3
      <3> QED BY <2>0, <3>1, <3>2 DEF Closed, Debounced
    <2>4. Sound = "NONE" => ~(asserted_now' /\ ClosedNow >= Debounce /\ phase \in Stoppable)
      BY <1>0, <2>3, ComesFrom DEF Stop, Entered
    <2>5. ~stopped'
      BY <1>4, <2>4, SequenceIs DEF TestInv
    <2>6. CASE Delivered
      <3>1. phase' \in {"TONE", "ALL_CLEAR"}
        BY <1>0, <1>4, <2>6, SequenceIs, ComesFrom DEF Delivered, Channels
      <3> QED BY <2>1, <2>2, <2>5, <3>1 DEF TestInv
    <2>7. CASE ~Delivered
      <3>1. /\ phase' = Comes /\ sounded'
            /\ phase_age' = IF Entered THEN 0 ELSE phase_age
            /\ heard' = IF Sound # "NONE" THEN Sound ELSE heard
            /\ heard_age' = IF Sound # "NONE" THEN 0 ELSE heard_age
            /\ pulsed' = IF Sound # "NONE" THEN 0 ELSE pulsed
        BY <1>4, <2>7, SequenceIs
      <3>2. CASE Comes \in {"COUNTDOWN", "COUNTDOWN_2"}
        <4>1. CASE Entered
          <5>1. Sound = "COUNTDOWN"
            BY <1>0, <3>2, <4>1, ComesFrom
          <5>2. Lesser(0, Countdown) = 0
            BY <1>0 DEF Lesser
          <5> QED BY <2>1, <2>2, <2>5, <3>1, <3>2, <4>1, <5>1, <5>2 DEF TestInv
        <4>2. CASE ~Entered
          <5>1. Comes = phase /\ Sound = "NONE"
            BY <1>0, <1>4, <3>2, <4>2, ComesFrom DEF Entered, TestInv
          <5> QED BY <1>4, <2>1, <2>2, <2>5, <3>1, <3>2, <4>2, <5>1 DEF TestInv
        <4> QED BY <4>1, <4>2
      <3>3. CASE Comes \in {"FIRE_1", "FIRE_2"}
        BY <1>4, <2>1, <2>2, <2>5, <3>1, <3>3, FiresCountedDown DEF TestInv
      <3>4. CASE Comes \notin {"COUNTDOWN", "COUNTDOWN_2", "FIRE_1", "FIRE_2"}
        BY <2>1, <2>2, <2>5, <3>1, <3>4 DEF TestInv
      <3> QED BY <3>2, <3>3, <3>4
    <2> QED BY <2>6, <2>7
  <1>5. CASE Update \/ Interrupt
    <2>1. UNCHANGED <<mode, asserted_now, raw, raw_age, asserted, phase, phase_age, sounded, heard, heard_age, pulsed,
                      closed_for, stopped>>
      BY <1>5 DEF Update, Interrupt, seq, switch, seen
    <2> QED BY <2>1 DEF TestInv
  <1> QED BY <1>1, <1>2, <1>3, <1>4, <1>5 DEF Next, Step

\* Two reads of a pad across from one held, floating or tied, never agree.
LEMMA SwitchStep ==
    ASSUME TypeOK, SwitchInv, StuckNeverCloses, Next
    PROVE  SwitchInv' /\ StuckNeverCloses'
  <1> USE DEF setup
  <1>0. pair' = pair /\ steady \in 0..2 /\ turn \in {"WAIT", "STEP", "UPDATE"}
    BY StepIs DEF TypeOK
  <1>1. ASSUME NEW d \in Steps, Wait(d) PROVE SwitchInv' /\ StuckNeverCloses'
    <2>1. /\ turn = "WAIT" /\ turn' = "STEP" /\ UNCHANGED <<drive_high, follows>>
          /\ steady' = IF wire' = wire THEN Lesser(steady + 1, 2) ELSE 1
      BY <1>1 DEF Wait
    <2>2. steady' > 0 /\ (steady' = 2 => wire' = wire /\ steady > 0)
      BY <1>0, <2>1 DEF Lesser
    <2> QED BY <1>0, <2>1, <2>2 DEF SwitchInv, StuckNeverCloses
  <1>2. CASE Step
    <2>1. turn = "STEP" /\ turn' = "UPDATE" /\ ReadSwitch /\ UNCHANGED <<wire, steady>>
      BY <1>2 DEF Step
    <2>2. SUFFICES ASSUME pair PROVE SwitchInv' /\ StuckNeverCloses'
      BY <1>0 DEF SwitchInv, StuckNeverCloses
    <2>3. /\ follows' = <<follows[2], ReadHigh = drive_high>> /\ drive_high' = ~drive_high
          /\ asserted_now' = (follows'[1] /\ follows'[2])
      BY <2>1, <2>2 DEF ReadSwitch, ClosedAcross
    <2>4. wire \in {"OPEN", "CLOSED", "TO_GROUND", "TO_SUPPLY"} /\ drive_high \in BOOLEAN /\ drive_high' \in BOOLEAN
      BY <2>1, SwitchRead DEF TypeOK, Wires
    <2>5. (ReadHigh = drive_high) = Follows(wire, drive_high)
      BY <2>2, <2>4 DEF ReadHigh, Follows
    <2>6. follows'[1] = follows[2] /\ follows'[2] = Follows(wire, drive_high)
      BY <2>3, <2>5
    <2>7. follows'[2] = Follows(wire, ~drive_high')
      BY <2>3, <2>4, <2>6
    <2>8. steady = 2 /\ wire # "CLOSED" => ~asserted_now'
      BY <2>1, <2>2, <2>3, <2>4, <2>6 DEF SwitchInv, Follows
    <2>9. SwitchInv'
      BY <2>1, <2>7 DEF SwitchInv
    <2> QED BY <2>1, <2>8, <2>9 DEF StuckNeverCloses
  <1>3. CASE Update \/ Interrupt
    <2>1. /\ UNCHANGED <<wire, steady, drive_high, follows, asserted_now>>
          /\ turn' = turn \/ (turn = "UPDATE" /\ turn' = "WAIT")
      BY <1>3 DEF Update, Interrupt, switch, seen
    <2> QED BY <1>0, <2>1 DEF SwitchInv, StuckNeverCloses
  <1> QED BY <1>1, <1>2, <1>3 DEF Next

-----------------------------------------------------------------------------
(* The theorems *)

LEMMA InvInit == Init => Inv
  <1> SUFFICES ASSUME Init PROVE Inv
    OBVIOUS
  <1> USE GroundTestConstants, BoardConstants DEF Switched!SwitchedConstants, Sequenced!SequencedConstants,
          Channels, Switched!Channels, Sequenced!Channels
  <1>1. Switched!Init /\ Sequenced!Init
    BY DEF Init, PyroInit
  <1>2. Switched!TypeOK
    <2>1. /\ pulse \in 0..2 /\ pulse_age \in 0..Pulse /\ check \in {"PRESENCE", "SHORTS", "IDLE"}
          /\ due \in 0..(Settle + Idle + Period) /\ started_age \in 0..Period /\ high \subseteq Channels
      BY <1>1 DEF Switched!Init
    <2>2. complete \in BOOLEAN /\ low \in BOOLEAN /\ fired_since \in [Channels -> BOOLEAN]
      BY <1>1 DEF Switched!Init
    <2>3. /\ presence \in [Channels -> {"NONE", "BEFORE", "AFTER"}]
          /\ result \in [Channels -> {"NONE", "BEFORE", "AFTER"}]
      BY <1>1 DEF Switched!Init
    <2> QED BY <2>1, <2>2, <2>3 DEF Switched!TypeOK, Switched!Readings
  <1>3. Sequenced!TypeOK
    <2>1. /\ step = "IDLE" /\ channel \in 0..2 /\ armed_age \in 0..Timeout /\ gated_age \in 0..Bleed
          /\ bias_age \in 0..TrackBias /\ track_due \in 0..TrackPeriod
          /\ hot_run \in 0..Agreeing /\ short_run \in 0..Agreeing /\ bus \in 0..3
      BY <1>1 DEF Sequenced!Init, Sequenced!Cold, Sequenced!Charged
    <2>2. gates \subseteq Channels /\ pump \in BOOLEAN /\ latched = {}
      BY <1>1 DEF Sequenced!Init
    <2>3. /\ biased \in BOOLEAN /\ have_alarm \in BOOLEAN /\ alarm \in BOOLEAN
          /\ result_is_new \in BOOLEAN /\ failed_closed \in BOOLEAN
      BY <1>1 DEF Sequenced!Init
    <2>4. verify \in [Channels -> BOOLEAN] /\ tracked \in [Channels -> {"NONE", "BEFORE", "AFTER"}]
      BY <1>1 DEF Sequenced!Init
    <2> QED BY <2>1, <2>2, <2>3, <2>4 DEF Sequenced!TypeOK, Sequenced!Readings, Sequenced!Cold, Sequenced!Charged
  <1>4. SequenceInv /\ SwitchedInv /\ BoardInv
    BY <1>1 DEF Sequenced!Init, Switched!Init, SequenceInv, SwitchedInv, BoardInv
  <1>5. BusInv
    BY <1>1 DEF Sequenced!Init, BusInv, Sequenced!Cold
  <1>6. FireInv
    BY <1>1 DEF Init, FireInv, Sequenced!Init, Switched!Init, Sequenced!Firing, Switched!Firing
  <1>7. TestInv /\ SwitchInv /\ StuckNeverCloses
    BY DEF Init, TestInv, SwitchInv, StuckNeverCloses
  <1>8. board \in Boards /\ enabled \subseteq Channels /\ pair \in BOOLEAN
    BY DEF Init, Boards
  <1>11. {gt_held, gt_requested, drive_high, asserted_now, raw, asserted, armed, sounded, stopped} \subseteq BOOLEAN
    <2>1. \A b \in {gt_held, gt_requested, drive_high, asserted_now, raw, asserted, armed, sounded, stopped} : b = FALSE
      BY DEF Init
    <2> QED BY <2>1
  <1>9. /\ turn \in {"WAIT", "STEP", "UPDATE"} /\ mode \in Modes /\ wire \in Wires
        /\ boot_age \in 0..SettleFor /\ gt_held_age \in 0..BootHold
        /\ phase \in Phases /\ phase_age \in 0..(Countdown + Tone + AllClear)
        /\ raw_age \in 0..Debounce /\ held_age \in 0..Arm
        /\ heard \in Sounds /\ heard_age \in 0..Countdown /\ pulsed \in 0..2
        /\ closed_for \in 0..Debounce /\ steady \in 0..2 /\ active_channel \in 0..2
    BY DEF Init, Modes, Phases, Sounds
  <1>12. follows \in [1..2 -> BOOLEAN]
    <2>1. follows = <<FALSE, FALSE>>
      BY DEF Init
    <2>2. \A a, b \in BOOLEAN : <<a, b>> \in [1..2 -> BOOLEAN]
      OBVIOUS
    <2> QED BY <2>1, <2>2, Zenon
  <1>10. /\ fired \in [Channels -> BOOLEAN] /\ pulse_ended \in [Channels -> BOOLEAN]
         /\ end_age \in [Channels -> 0..FireGap] /\ off_age \in [Channels -> 0..FireGap]
    BY DEF Init
  <1> QED BY <1>2, <1>3, <1>4, <1>5, <1>6, <1>7, <1>8, <1>9, <1>10, <1>11, <1>12 DEF Inv, TypeOK

LEMMA InvStep == Inv /\ [Next]_vars => Inv'
  <1> SUFFICES ASSUME Inv, [Next]_vars PROVE Inv'
    OBVIOUS
  <1>1. BoardsOK
    BY DEF Inv, TypeOK, BoardsOK
  <1>2. CASE Next
    <2>1. BoardsOK'
      BY <1>1, <1>2, StepIs, BoardsKept DEF setup
    <2>2. TypeOK'
      BY <1>2, <2>1, TypeStep DEF Inv
    <2>3. BusInv' /\ FireInv'
      BY <1>1, <1>2, <2>1, BusStep, FireStep DEF Inv
    <2>4. TestInv' /\ SwitchInv' /\ StuckNeverCloses'
      BY <1>2, TestStep, SwitchStep DEF Inv
    <2> QED BY <2>1, <2>2, <2>3, <2>4 DEF Inv, BoardsOK
  <1>3. CASE UNCHANGED vars
    <2>1. BoardsOK'
      BY <1>1, <1>3, BoardsKept DEF vars, setup
    <2>2. TypeOK'
      BY <1>3, <2>1 DEF vars, setup, boot, switch, seq, fire, seen, Inv, TypeOK, BoardsOK, Wires
    <2>3. BusInv'
      BY <1>3 DEF vars, boards, sequenced, Inv, BusInv
    <2>4. FireInv'
      BY <1>3 DEF vars, boards, sequenced, switched, fire, seen, Inv, FireInv, Sequenced!Firing, Switched!Firing
    <2>5. TestInv'
      BY <1>3 DEF vars, switch, seq, seen, Inv, TestInv
    <2>6. SwitchInv' /\ StuckNeverCloses'
      BY <1>3 DEF vars, setup, switch, seen, Inv, SwitchInv, StuckNeverCloses
    <2> QED BY <2>1, <2>2, <2>3, <2>4, <2>5, <2>6 DEF Inv, BoardsOK
  <1> QED BY <1>2, <1>3

LEMMA InvAlways == Spec => []Inv
  BY InvInit, InvStep, PTL DEF Spec

\* Whatever board is fitted, no two channels are ever energised; MK1C's pump
\* never runs under a closed gate; a switched channel is pulsed with its low side
\* on and nothing else; and a flash operation is let in only where the board is
\* idle.
THEOREM PulsesAlwaysKept == Spec => []PulsesKept
  <1>1. Inv => PulsesKept
    <2> SUFFICES ASSUME Inv PROVE PulsesKept
      OBVIOUS
    <2>1. gates = (IF step = "HOLD" THEN {channel} ELSE {}) /\ (pump <=> step = "PRECHARGE")
      BY DEF Inv, SequenceInv
    <2>2. Sequenced!FlashOk => ~pump /\ gates = {} /\ ~biased
      BY <2>1 DEF Sequenced!FlashOk, Sequenced!Firing
    <2>3. (pump => gates = {}) /\ (gates # {} => gates = {channel})
      BY <2>1
    <2>4. (Switched!Firing => low /\ high = {pulse}) /\ (~Switched!Firing => high = {})
      BY DEF Inv, SwitchedInv, Switched!Firing
    <2> QED BY <2>2, <2>3, <2>4 DEF Inv, PulsesKept, PulseAlone
  <1> QED BY <1>1, InvAlways, PTL

\* What a board reports of a channel is never a reading from before its fire, and
\* a bus is called hot only where its switch has failed closed: the charge a fire
\* leaves is drained before two samples in a row can agree on it.
THEOREM VerdictsAlwaysHonest == Spec => []VerdictsHonest
  <1>1. Inv => VerdictsHonest
    <2> SUFFICES ASSUME Inv PROVE VerdictsHonest
      OBVIOUS
    <2>1. \A c \in Channels : Switched!Verdict(c) # "BEFORE"
      BY DEF Inv, SwitchedInv, Switched!Verdict
    <2>2. \A c \in Channels : Sequenced!Verdict(c) # "BEFORE"
      BY DEF Inv, SequenceInv, Sequenced!Verdict
    <2>3. HotMeansFailed
      BY DEF Inv, BusInv, HotMeansFailed
    <2> QED BY <2>1, <2>2, <2>3 DEF VerdictsHonest, VerdictIsFresh
  <1> QED BY <1>1, InvAlways, PTL

\* An order raises the count of pulses, and nothing else does.
LEMMA OrderIs ==
    ASSUME Inv, [Next]_vars, pulsed' > pulsed
    PROVE  /\ mode = "GROUND_TEST" /\ Sequence /\ Delivered
           /\ active_channel' = Ordered
           /\ Ordered \in Channels /\ Comes \in {"FIRE_1", "FIRE_2"}
  <1>0. pulsed \in 0..2 /\ phase \in Phases
    BY DEF Inv, TypeOK
  <1>1. pulsed' # pulsed
    BY <1>0
  <1>2. Step /\ mode = "GROUND_TEST" /\ Sequence
    <2>1. CASE \E d \in Steps : Wait(d)
      BY <1>1, <2>1 DEF Wait
    <2>2. CASE Step
      BY <1>1, <2>2 DEF Step, BootSettle, BootChecks, EnterGroundTest
    <2>3. CASE Update \/ Interrupt \/ UNCHANGED vars
      BY <1>1, <2>3 DEF Update, Interrupt, vars, seen
    <2> QED BY <2>1, <2>2, <2>3 DEF Next
  <1>3. pulsed' = IF Delivered THEN Lesser(pulsed + 1, 2) ELSE IF Sound # "NONE" THEN 0 ELSE pulsed
    BY <1>2, SequenceIs
  <1>4. Delivered
    BY <1>0, <1>3
  <1>5. Ordered # 0 /\ ~Busy(Ordered) /\ FireOnCommand(Ordered)
    BY <1>2, <1>4, SequenceIs DEF Delivered
  <1>6. active_channel' = Ordered
    BY <1>5 DEF FireOnCommand
  <1>7. Ordered \in Channels /\ Comes \in {"FIRE_1", "FIRE_2"}
    BY <1>0, <1>5, ComesFrom DEF Channels
  <1> QED BY <1>2, <1>4, <1>6, <1>7

\* Every pulse that the test orders has been counted down to in full, once, under
\* a switch not let go for a debounce; it finds nothing energised and the other
\* channel off for the whole gap; and what is read as a closed switch is no pad
\* that floats or touches a rail.
THEOREM FiresAlwaysAsAsked == Spec => FiresAsAsked
  <1>1. Inv => StuckNeverCloses
    BY DEF Inv
  <1>2. Inv /\ Inv' /\ [Next]_vars =>
          [pulsed' > pulsed => /\ heard = "COUNTDOWN" /\ heard_age >= Countdown
                               /\ pulsed = 0 /\ ~stopped']_vars
    <2> SUFFICES ASSUME Inv, Inv', [Next]_vars, pulsed' > pulsed
                 PROVE  heard = "COUNTDOWN" /\ heard_age >= Countdown /\ pulsed = 0 /\ ~stopped'
      OBVIOUS
    <2>1. mode = "GROUND_TEST" /\ Comes \in {"FIRE_1", "FIRE_2"}
      BY OrderIs
    <2>2. heard = "COUNTDOWN" /\ pulsed = 0 /\ heard_age = Countdown
      BY <2>1, FiresCountedDown DEF Inv
    <2>3. Countdown >= Countdown
      BY GroundTestConstants
    <2>4. ~stopped'
      BY DEF Inv, TestInv
    <2> QED BY <2>2, <2>3, <2>4
  <1>3. Inv /\ [Next]_vars =>
          [\A c \in Channels : pulsed' > pulsed /\ active_channel' = c =>
              /\ Energised = {} /\ ~PyroIsFiring
              /\ off_age[Other(c)] >= FireGap]_vars
    <2> SUFFICES ASSUME Inv, [Next]_vars, NEW c \in Channels, pulsed' > pulsed, active_channel' = c
                 PROVE  Energised = {} /\ ~PyroIsFiring /\ off_age[Other(c)] >= FireGap
      OBVIOUS
    <2>1. ~PyroIsFiring /\ GapPassed(c)
      BY OrderIs DEF Delivered, Busy
    <2>2. Energised = {}
      BY <2>1, OneFires DEF Inv, TypeOK, BoardsOK
    <2>3. Other(c) \in Channels
      BY DEF Other, Channels
    <2>4. end_age[Other(c)] \in Int /\ off_age[Other(c)] \in Int /\ FireGap \in Int
      BY <2>3, GroundTestConstants DEF Inv, TypeOK
    <2>5. off_age[Other(c)] >= FireGap
      BY <2>1, <2>3, <2>4 DEF GapPassed, Inv, FireInv
    <2> QED BY <2>1, <2>2, <2>5
  <1> QED BY <1>1, <1>2, <1>3, InvAlways, PTL DEF Spec, FiresAsAsked, CountedDown, GapKept
=============================================================================
