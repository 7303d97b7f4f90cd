----------------------------- MODULE FlightStates -----------------------------
(***************************************************************************)
(* The flight state machine (flight_states.c and its detectors), the pad     *)
(* record the storage task keeps beside it (flight_storage_service), and the *)
(* restart that reads the record back (decide_resume).                       *)
(*                                                                         *)
(* The flight task's step and a hand-over from USB are each one action: they *)
(* run in one task.  The storage task runs on the other core with no lock    *)
(* between them, so a pass of it is several steps.  A restart may come        *)
(* between any two: RAM is lost, the record on flash is not.                 *)
(*                                                                         *)
(* What the rocket does is an environment: it moves on once the flight       *)
(* software, where it is awake, has sampled the stretch it is in.  Sensor     *)
(* readings are sound; the estimators' verdicts follow the motion.           *)
(***************************************************************************)
EXTENDS Naturals

CONSTANTS
    Sites,        \* pads, each with its own ground pressure
    NoSite,       \* no reference yet, no valid record
    Air,          \* a reference calibrated off the ground
    Dwell,        \* PAD_RECORD_DWELL_MS, in ticks
    MaxRestarts, MaxCarries, MaxPlugs \* bounds on the environment

ASSUME FlightStatesConstants ==
    /\ {Dwell, MaxRestarts, MaxCarries, MaxPlugs} \subseteq Nat /\ Dwell > 0
    /\ NoSite \notin Sites /\ Air \notin Sites /\ NoSite # Air

VARIABLES
    \* The environment: where the board is, what it does, whether a host is
    \* attached, and how much of its budget it has used.
    site, motion, host, restarts, carries, plugs,
    sampled,      \* this stretch of the motion has been sampled
    \* The flight context.
    state, usb_attached, test_mode, gt_requested,
    pyros_armed, arm_height_passed, was_fast, apogee_declared,
    locked,       \* the user's lockout, from launch_time, ran at the last sample
    ground,       \* whose ground pressure is the reference
    dwell,        \* time since boot_timer
    record_written, record_cleared,
    log,          \* the flight log: "OFF", "RUNNING", "STOPPING"
    \* The storage task, and the record on flash.
    task, filled, record,
    \* What this flight really was, for the properties: how it was resumed,
    \* whether it left the pad with its record kept and no start lost it since,
    \* whether a write of the record has failed since the start, and whether the
    \* lockout ran on over every sample of the fall.
    resumed, kept, spoilt, outlasted

environment == <<site, motion, host, restarts, carries, plugs>>
usb == <<usb_attached, test_mode>>
climb == <<pyros_armed, arm_height_passed, was_fast, apogee_declared>>
phase == <<climb, locked>>
marks == <<dwell, record_written, record_cleared>>
storage == <<task, filled, record>>
history == <<resumed, kept, spoilt, outlasted>>
vars == <<environment, sampled, state, usb, gt_requested, phase, ground, marks, log, storage, history>>

-----------------------------------------------------------------------------
Airborne == {"ASCENT", "FALLING", "DROGUE_DESCENT", "CHUTE_DESCENT"}
Descents == Airborne \ {"ASCENT"}
Booting == {"BOOT_SETTLE", "BOOT_SENSOR", "BOOT_CONTINUITY", "BOOT_CALIBRATE"}
States == Airborne \cup Booting \cup {"PAD_IDLE", "LANDED", "FAULT", "GROUND_TEST"}

\* The motion by what the thresholds tell apart: below 30 m; above it and
\* faster than 10 m/s; 5 to 10 m/s; under 5 m/s either way; falling faster.
Course == <<"STILL", "LIFTING", "FAST", "SLOW", "TOP", "FALL", "DOWN">>
OnGround == {"STILL", "DOWN"}
High == {"FAST", "SLOW", "TOP", "FALL"}

Grounded == usb_attached /\ ~test_mode  \* flight_grounded_on_usb

\* A height over the reference is the true one if the reference is the pad's.
Above(reference, high) == reference = site => (high <=> motion \in High)

-----------------------------------------------------------------------------
(* The start: flight_boot.c. *)

BootSettle ==
    /\ state = "BOOT_SETTLE"
    /\ gt_requested' \in {FALSE, motion = "STILL"}
    /\ state' = "BOOT_SENSOR"
    /\ UNCHANGED <<environment, sampled, usb, phase, ground, marks, log, storage, history>>

\* No sensor, another board's image, no storage, or an unreadable config.ini.
StartFault ==
    /\ state \in {"BOOT_SENSOR", "BOOT_CALIBRATE"}
    /\ state' = "FAULT"
    /\ UNCHANGED <<environment, sampled, usb, gt_requested, phase, ground, marks, log, storage, history>>

\* resume_assess over the recorded ground.  A lift-off is any speed up to 10 m/s.
ResumeVerdicts(high) ==
    CASE ~high -> {"NOT_FLYING"}
      [] high /\ motion \in {"FAST", "SLOW"} -> {"ASCENT"}
      [] high /\ motion = "LIFTING" -> {"ASCENT", "STILL"}
      [] high /\ motion = "FALL" -> {"DESCENT"}
      [] OTHER -> {"STILL"}

\* flight_action_resumed_descent: apogee is behind it.
ResumedDescent(descending) == pyros_armed' = descending /\ apogee_declared' = descending

\* resume_flight, pp_resume_flight: heights are over the recorded ground.
MeasureFromRecord == ground' = record

\* decide_resume.  The lockout starts again with launch_time.
Resume ==
    \E high \in BOOLEAN : \E verdict \in ResumeVerdicts(high) \cap {"ASCENT", "DESCENT"} :
        /\ state = "BOOT_SENSOR"
        /\ record # NoSite /\ ~Grounded
        /\ Above(record, high)
        /\ state' = IF verdict = "ASCENT" THEN "ASCENT" ELSE "FALLING"
        /\ ResumedDescent(verdict = "DESCENT")
        /\ MeasureFromRecord
        /\ log' = "RUNNING"
        /\ sampled' = FALSE
        /\ resumed' = motion
        /\ locked' \in BOOLEAN
        /\ UNCHANGED <<environment, usb, gt_requested, arm_height_passed, was_fast, marks, storage,
                       kept, spoilt, outlasted>>

\* No record, on USB, at the ground or still; or no sample in time.
NotResumed ==
    \E high \in BOOLEAN, late \in BOOLEAN :
        /\ state = "BOOT_SENSOR"
        /\ Above(record, high)
        /\ record # NoSite /\ ~Grounded /\ ~late => ResumeVerdicts(high) \cap {"NOT_FLYING", "STILL"} # {}
        /\ state' = "BOOT_CONTINUITY"
        /\ kept' = (kept /\ motion \in OnGround)
        /\ UNCHANGED <<environment, sampled, usb, gt_requested, phase, ground, marks, log, storage,
                       resumed, spoilt, outlasted>>

BootContinuity ==
    /\ state = "BOOT_CONTINUITY"
    /\ state' = IF gt_requested THEN "GROUND_TEST" ELSE "BOOT_CALIBRATE"
    /\ dwell' = 0
    /\ UNCHANGED <<environment, sampled, usb, gt_requested, phase, ground, record_written, record_cleared,
                   log, storage, history>>

\* flight_action_on_pad: the reference is wherever the readings were taken.
Calibrated ==
    /\ state = "BOOT_CALIBRATE"
    /\ state' = "PAD_IDLE"
    /\ dwell' = 0
    /\ ground' = IF motion \in OnGround THEN site ELSE Air
    /\ UNCHANGED <<environment, sampled, usb, gt_requested, phase, record_written, record_cleared,
                   log, storage, history>>

-----------------------------------------------------------------------------
(* On the pad: flight_pad.c. *)

\* Mutant: a moved board's record is not made afresh.
FollowMovedBoardOnly ==
    /\ state = "PAD_IDLE" /\ motion \in OnGround
    /\ ground # site
    /\ ground' = site
    /\ dwell' = 0
    /\ UNCHANGED <<environment, sampled, state, usb, gt_requested, phase, record_written, record_cleared,
                   log, storage, history>>

\* follow_a_moved_board, [GND-CAL-06].
FollowMovedBoard ==
    /\ state = "PAD_IDLE" /\ motion \in OnGround
    /\ ground # site
    /\ ground' = site
    /\ dwell' = 0
    /\ record_written' = FALSE
    /\ UNCHANGED <<environment, sampled, state, usb, gt_requested, phase, record_cleared,
                   log, storage, history>>

\* launch_detected: 15 m over the reference.  Sure above 30 m of the pad's own,
\* and never on the pad's own ground; over another's, anywhere.
LaunchSeen(high) == motion = "LIFTING" \/ Above(ground, high)

\* A lockout of 0 has run at once.
Launch ==
    /\ state = "PAD_IDLE" /\ ~Grounded
    /\ LaunchSeen(TRUE)
    /\ state' = "ASCENT"
    /\ log' = "RUNNING"
    /\ sampled' = FALSE
    /\ kept' = (record_written /\ task = "IDLE" /\ ground = site /\ ~spoilt)
    /\ locked' \in BOOLEAN
    /\ UNCHANGED <<environment, usb, gt_requested, climb, ground, marks, storage, resumed, spoilt, outlasted>>

PadSample ==
    /\ state = "PAD_IDLE"
    /\ Grounded \/ LaunchSeen(FALSE)
    /\ sampled' = TRUE
    /\ UNCHANGED <<environment, state, usb, gt_requested, phase, ground, marks, log, storage, history>>

-----------------------------------------------------------------------------
(* The flight: flight_ascent.c, flight_descent.c. *)

\* Mutant: the speed arming asks for is this sample's.
FastNow(fast) == fast

\* max_speed_cms has reached ARM_SPEED_CMS.
FastSeen(fast) == was_fast \/ fast

\* arming_due: a burn, then a coast.
ArmingDue(fast, high) == ~pyros_armed /\ high /\ fast /\ motion \notin {"LIFTING", "FAST"}

\* Falling is apogee, seen once it is armed and the lockout has run; at the top
\* and on the ground it may be, and before the top never.
ApogeeMay(lock) == pyros_armed /\ ~lock /\ motion \in {"TOP", "FALL", "DOWN"}
ApogeeMust(lock) == pyros_armed /\ ~lock /\ motion = "FALL"

AscentSample ==
    \E fast \in BOOLEAN, high \in BOOLEAN, apogee \in BOOLEAN, lock \in {FALSE, locked} :
        LET passed == arm_height_passed \/ high
            due == ArmingDue(FastSeen(fast), passed) IN
        /\ state = "ASCENT"
        /\ motion # "LIFTING" => fast = (motion = "FAST")
        /\ Above(ground, high)
        /\ was_fast' = FastSeen(fast)
        /\ arm_height_passed' = passed
        /\ pyros_armed' = (pyros_armed \/ due)
        /\ due => ~apogee
        /\ apogee => ApogeeMay(lock)
        /\ ApogeeMust(lock) => apogee
        /\ locked' = lock
        /\ apogee_declared' = apogee
        /\ state' = IF apogee THEN "FALLING" ELSE "ASCENT"
        /\ sampled' = ~due
        /\ UNCHANGED <<environment, usb, gt_requested, ground, marks, log, storage, history>>

\* The descent's phases, by the settled rate.
DescentSample ==
    /\ state \in Descents
    /\ \/ state' = state
       \/ state = "FALLING" /\ state' \in {"DROGUE_DESCENT", "CHUTE_DESCENT"}
       \/ state = "DROGUE_DESCENT" /\ state' \in {"FALLING", "CHUTE_DESCENT"}
    /\ sampled' = TRUE
    /\ UNCHANGED <<environment, usb, gt_requested, phase, ground, marks, log, storage, history>>

\* flight_action_landing.
Landing ==
    /\ state \in Descents
    /\ motion = "DOWN"
    /\ state' = "LANDED"
    /\ log' = "STOPPING"
    /\ UNCHANGED <<environment, sampled, usb, gt_requested, phase, ground, marks, storage, history>>

-----------------------------------------------------------------------------
(* USB and test mode: grounding_changed, over flight_set_usb_attached and     *)
(* flight_set_test_mode.  What they make the buzzer say is left out.          *)

GroundingChanged(attached, testing) ==
    /\ usb_attached' = attached /\ test_mode' = testing
    /\ IF Grounded /\ ~(attached /\ ~testing) /\ state = "PAD_IDLE"
         THEN dwell' = 0 /\ record_written' = FALSE
         ELSE UNCHANGED <<dwell, record_written>>

SetUsbAttached ==
    /\ state \notin Airborne
    /\ host # usb_attached
    /\ GroundingChanged(host, test_mode)
    /\ UNCHANGED <<environment, sampled, state, gt_requested, phase, ground, record_cleared, log, storage, history>>

\* Asked for over the web, so with a host attached.
SetTestMode ==
    /\ state \notin Airborne
    /\ host
    /\ GroundingChanged(usb_attached, ~test_mode)
    /\ UNCHANGED <<environment, sampled, state, gt_requested, phase, ground, record_cleared, log, storage, history>>

-----------------------------------------------------------------------------
(* The storage task: flight_storage_service. *)

\* Mutant: cleared at the landing, while the log still holds the filesystem.
ClearAtLanding ==
    /\ task = "IDLE"
    /\ state = "LANDED" /\ ~record_cleared
    /\ record_cleared' = TRUE
    /\ task' = "WRITE" /\ filled' = NoSite
    /\ UNCHANGED <<environment, sampled, state, usb, gt_requested, phase, ground, dwell, record_written,
                   log, record, history>>

\* clear_record_after_flight: marked first, then written.
ClearAfterFlight ==
    /\ task = "IDLE"
    /\ state = "LANDED" /\ ~record_cleared /\ log = "OFF"
    /\ record_cleared' = TRUE
    /\ task' = "WRITE" /\ filled' = NoSite
    /\ UNCHANGED <<environment, sampled, state, usb, gt_requested, phase, ground, dwell, record_written,
                   log, record, history>>

ClearOnBench ==
    /\ task = "IDLE"
    /\ state = "PAD_IDLE" /\ Grounded
    /\ record # NoSite
    /\ task' = "WRITE" /\ filled' = NoSite
    /\ UNCHANGED <<environment, sampled, state, usb, gt_requested, phase, ground, marks, log, record, history>>

\* keep_record_on_pad: its check, its mark, and the record it fills.
KeepDue ==
    /\ task = "IDLE"
    /\ state = "PAD_IDLE" /\ ~Grounded
    /\ ~record_written /\ dwell >= Dwell
    /\ task' = "MARK"
    /\ UNCHANGED <<environment, sampled, state, usb, gt_requested, phase, ground, marks, log, filled, record, history>>

KeepMark ==
    /\ task = "MARK"
    /\ record_written' = TRUE
    /\ task' = "FILL"
    /\ UNCHANGED <<environment, sampled, state, usb, gt_requested, phase, ground, dwell, record_cleared,
                   log, filled, record, history>>

KeepFill ==
    /\ task = "FILL"
    /\ filled' = ground
    /\ task' = "WRITE"
    /\ UNCHANGED <<environment, sampled, state, usb, gt_requested, phase, ground, marks, log, record, history>>

\* write_record: refused while the log holds the filesystem; its result is not
\* looked at.
WriteRecord ==
    /\ task = "WRITE"
    /\ task' = "IDLE"
    /\ \/ log = "OFF" /\ record' = filled /\ UNCHANGED spoilt
       \/ log # "OFF" /\ UNCHANGED <<record, spoilt>>
       \/ log = "OFF" /\ UNCHANGED record /\ spoilt' = TRUE
    /\ UNCHANGED <<environment, sampled, state, usb, gt_requested, phase, ground, marks, log, filled,
                   resumed, kept, outlasted>>

\* The writer closes the log it was told to stop, in the same task's pass.
CloseLog ==
    /\ task = "IDLE"
    /\ log = "STOPPING"
    /\ log' = "OFF"
    /\ UNCHANGED <<environment, sampled, state, usb, gt_requested, phase, ground, marks, storage, history>>

Storage == ClearAfterFlight \/ ClearOnBench \/ KeepDue \/ KeepMark \/ KeepFill \/ WriteRecord \/ CloseLog

-----------------------------------------------------------------------------
(* The environment. *)

Tick ==
    /\ state = "PAD_IDLE" /\ dwell < Dwell
    /\ dwell' = dwell + 1
    /\ UNCHANGED <<environment, sampled, state, usb, gt_requested, phase, ground, record_written, record_cleared,
                   log, storage, history>>

\* One flight.  Nobody launches a rocket tethered to a host.
MoveOn ==
    \E i \in 1..6 :
        /\ motion = Course[i]
        /\ motion = "STILL" => ~host /\ ~usb_attached
        /\ motion # "STILL" /\ state \in Airborne \cup {"PAD_IDLE"} => sampled
        /\ motion' = Course[i + 1]
        /\ sampled' = FALSE
        /\ outlasted' = (motion = "FALL" /\ locked)
        /\ UNCHANGED <<site, host, restarts, carries, plugs, state, usb, gt_requested, phase, ground, marks,
                       log, storage, resumed, kept, spoilt>>

Carry ==
    /\ motion = "STILL" /\ carries < MaxCarries
    /\ site' \in Sites \ {site}
    /\ carries' = carries + 1
    /\ UNCHANGED <<motion, host, restarts, plugs, sampled, state, usb, gt_requested, phase, ground, marks,
                   log, storage, history>>

Plug ==
    /\ motion \in OnGround /\ plugs < MaxPlugs
    /\ host' = ~host
    /\ plugs' = plugs + 1
    /\ UNCHANGED <<site, motion, restarts, carries, sampled, state, usb, gt_requested, phase, ground, marks,
                   log, storage, history>>

\* Power lost or a reset, whatever its cause: flight_init.
Restart ==
    /\ restarts < MaxRestarts
    /\ restarts' = restarts + 1
    /\ state' = "BOOT_SETTLE"
    /\ usb_attached' = FALSE /\ test_mode' = FALSE /\ gt_requested' = FALSE
    /\ pyros_armed' = FALSE /\ arm_height_passed' = FALSE /\ was_fast' = FALSE /\ apogee_declared' = FALSE
    /\ locked' = FALSE
    /\ ground' = NoSite
    /\ dwell' = 0 /\ record_written' = FALSE /\ record_cleared' = FALSE
    /\ log' = "OFF"
    /\ task' = "IDLE" /\ filled' = NoSite
    /\ sampled' = FALSE
    /\ resumed' = "NO" /\ spoilt' = FALSE /\ outlasted' = FALSE
    /\ UNCHANGED <<site, motion, host, carries, plugs, record, kept>>

-----------------------------------------------------------------------------
Init ==
    /\ site \in Sites /\ motion = "STILL" /\ host = FALSE
    /\ restarts = 0 /\ carries = 0 /\ plugs = 0
    /\ sampled = FALSE
    /\ state = "BOOT_SETTLE"
    /\ usb_attached = FALSE /\ test_mode = FALSE /\ gt_requested = FALSE
    /\ pyros_armed = FALSE /\ arm_height_passed = FALSE /\ was_fast = FALSE /\ apogee_declared = FALSE
    /\ locked = FALSE
    /\ ground = NoSite
    /\ dwell = 0 /\ record_written = FALSE /\ record_cleared = FALSE
    /\ log = "OFF"
    /\ task = "IDLE" /\ filled = NoSite
    /\ record \in Sites \cup {NoSite}   \* one may be left of an earlier day
    /\ resumed = "NO" /\ kept = FALSE /\ spoilt = FALSE /\ outlasted = FALSE

FlightStep ==
    \/ BootSettle \/ StartFault \/ Resume \/ NotResumed \/ BootContinuity \/ Calibrated
    \/ FollowMovedBoard \/ Launch \/ PadSample \/ AscentSample \/ DescentSample \/ Landing

Next ==
    \/ FlightStep \/ SetUsbAttached \/ SetTestMode
    \/ Storage \/ Tick
    \/ MoveOn \/ Carry \/ Plug \/ Restart

\* The storage task passes once a period; the pad's time goes on; a write tried
\* over and over goes through in the end.
Spec == Init /\ [][Next]_vars /\ WF_vars(Storage) /\ WF_vars(Tick) /\ SF_vars(WriteRecord /\ record' = filled)

-----------------------------------------------------------------------------
TypeOK ==
    /\ site \in Sites /\ motion \in {Course[i] : i \in 1..7}
    /\ {host, sampled, usb_attached, test_mode, gt_requested, kept, spoilt} \subseteq BOOLEAN
    /\ {pyros_armed, arm_height_passed, was_fast, apogee_declared, locked, outlasted} \subseteq BOOLEAN
    /\ restarts \in 0..MaxRestarts /\ carries \in 0..MaxCarries /\ plugs \in 0..MaxPlugs
    /\ state \in States
    /\ ground \in Sites \cup {NoSite, Air}
    /\ dwell \in 0..Dwell /\ {record_written, record_cleared} \subseteq BOOLEAN
    /\ log \in {"OFF", "RUNNING", "STOPPING"}
    /\ task \in {"IDLE", "MARK", "FILL", "WRITE"}
    /\ {filled, record} \subseteq Sites \cup {NoSite, Air}
    /\ resumed \in {"NO", "LIFTING", "FAST", "SLOW", "FALL"}
    \* The machine and its flags agree: no descent before apogee, none on the pad.
    /\ apogee_declared <=> state \in Descents \cup {"LANDED"}

\* GND-CAL-06, FLT-BROWN-01: a pad whose record is marked written has its own
\* reference recorded, once the write is done: a board moved or brought in from
\* the bench while a pass was under way is recorded again.
RecordCurrent ==
    state = "PAD_IDLE" /\ ~Grounded /\ record_written /\ task = "IDLE" /\ ~spoilt => record = ground

\* FLT-BROWN-06: a flight that left the pad with its record kept, and is rejoined
\* by every start in the air, measures against that pad however many they are.
ResumedOnPad == resumed # "NO" /\ kept => ground = site

\* What the record tells is true of the pad it is read on, and written on.
RecordTells == TypeOK /\ RecordCurrent /\ ResumedOnPad

\* SYS-DEPLOY-01: a flight measured against its own pad does not come down with
\* apogee undeclared, when it was not rejoined in the last of its climb and the
\* user's lockout did not run on over all of its fall.
ApogeeDeclared ==
    motion = "DOWN" /\ state \in Airborne /\ ground = site /\ resumed # "SLOW" /\ ~outlasted
       => apogee_declared

\* FLT-BROWN-01: a board left on its pad comes to hold a record of it, if no
\* write fails: one that does was marked written, and is not tried again.
RecordHeld ==
    <>[](state = "PAD_IDLE" /\ ~Grounded /\ ~spoilt) => \A s \in Sites : <>[](ground = s) => <>[](record = s)

\* FLT-BROWN-04, FLT-BROWN-08: a board left landed, or on the bench, comes to
\* hold none.
RecordCleared == <>[]((state = "LANDED" /\ ~spoilt) \/ (state = "PAD_IDLE" /\ Grounded)) => <>[](record = NoSite)

\* The two together: whatever went before, the file comes to what the board is.
RecordSettles == RecordHeld /\ RecordCleared
=============================================================================
