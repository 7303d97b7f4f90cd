--------------------------- MODULE FlightTaskProofs ---------------------------
(***************************************************************************)
(* The flight task.  Its states: RecordTells and ApogeeDeclared, for any       *)
(* number of restarts, moves and hosts coming and going.  The invariant has a  *)
(* part for each thing that a later step relies on: the mark and the pass      *)
(* under way (RecordInv), a record kept (KeptInv), the climb as far as it has  *)
(* been sampled (ClimbInv).  Its mailbox: CallOnce, for any set of callers.    *)
(***************************************************************************)
EXTENDS FlightStates, FlightCall, TLAPS

USE FlightStatesConstants

\* The pad's record, through a pass of the storage task: what a pass under way
\* is to write is the reference, or the mark is taken back.
RecordInv ==
    /\ state \in Booting => task = "IDLE" /\ ~record_written
    /\ state \in Booting \cup {"PAD_IDLE"} => log = "OFF"
    /\ state = "PAD_IDLE" /\ ~Grounded /\ record_written /\ ~spoilt
          => (task = "IDLE" => record = ground) /\ (task = "WRITE" => filled = ground)

\* A flight that left with its record kept: the pad is the site until it has
\* come down, and nothing but the site or nothing is recorded from then on.
KeptInv ==
    kept =>
       /\ motion # "STILL"
       /\ record \in {site, NoSite} /\ (task = "WRITE" => filled \in {site, NoSite})
       /\ state \in {"BOOT_CONTINUITY", "BOOT_CALIBRATE", "PAD_IDLE"} => motion = "DOWN"
       /\ state = "PAD_IDLE" \/ task \in {"MARK", "FILL"} \/ resumed # "NO" => ground = site

\* How far the ascent has come by the motion it has sampled, for a board that
\* measures from its own pad.
ClimbInv ==
    /\ motion \notin OnGround => ~host /\ ~usb_attached
    /\ state = "PAD_IDLE" /\ ground = site
          => motion \in {"STILL", "LIFTING", "DOWN"} \/ (motion = "FAST" /\ ~sampled)
    /\ state = "ASCENT" /\ ground = site /\ resumed # "SLOW" =>
          /\ motion = "FAST" /\ sampled => was_fast /\ arm_height_passed
          /\ motion = "SLOW" => was_fast /\ arm_height_passed /\ (sampled => pyros_armed)
          /\ motion \in {"TOP", "FALL"} => pyros_armed
          /\ motion = "FALL" /\ sampled => locked
          /\ motion = "DOWN" => outlasted

Inv == TypeOK /\ RecordInv /\ KeptInv /\ ClimbInv

Motions == {"STILL", "LIFTING", "FAST", "SLOW", "TOP", "FALL", "DOWN"}
Follows(m, n) ==
    \/ m = "STILL" /\ n = "LIFTING"
    \/ m = "LIFTING" /\ n = "FAST"
    \/ m = "FAST" /\ n = "SLOW"
    \/ m = "SLOW" /\ n = "TOP"
    \/ m = "TOP" /\ n = "FALL"
    \/ m = "FALL" /\ n = "DOWN"

LEMMA CourseIs ==
    /\ {Course[i] : i \in 1..7} = Motions
    /\ \A i \in 1..6 : Follows(Course[i], Course[i + 1])
  <1>1. (\A i \in 1..7 : i \in {1, 2, 3, 4, 5, 6, 7}) /\ {1, 2, 3, 4, 5, 6, 7} \subseteq 1..7
    OBVIOUS
  <1>2. /\ Course[1] = "STILL" /\ Course[2] = "LIFTING" /\ Course[3] = "FAST" /\ Course[4] = "SLOW"
        /\ Course[5] = "TOP" /\ Course[6] = "FALL" /\ Course[7] = "DOWN"
    BY DEF Course
  <1>3. {Course[i] : i \in 1..7} = Motions
    BY <1>1, <1>2 DEF Motions
  <1>4. \A i \in 1..6 : Follows(Course[i], Course[i + 1])
    <2>1. /\ Follows(Course[1], Course[2]) /\ Follows(Course[2], Course[3]) /\ Follows(Course[3], Course[4])
          /\ Follows(Course[4], Course[5]) /\ Follows(Course[5], Course[6]) /\ Follows(Course[6], Course[7])
      BY <1>2 DEF Follows
    <2>2. \A i \in 1..6 : i = 1 \/ i = 2 \/ i = 3 \/ i = 4 \/ i = 5 \/ i = 6
      OBVIOUS
    <2>3. 1 + 1 = 2 /\ 2 + 1 = 3 /\ 3 + 1 = 4 /\ 4 + 1 = 5 /\ 5 + 1 = 6 /\ 6 + 1 = 7
      OBVIOUS
    <2> QED BY <2>1, <2>2, <2>3
  <1> QED BY <1>3, <1>4

\* The motion goes on by one stretch, once the software has sampled it.
LEMMA MotionGoesOn ==
    ASSUME MoveOn
    PROVE  Follows(motion, motion')
  BY CourseIs DEF MoveOn

\* What each step does to the variables' types.
LEMMA TypeStep ==
    ASSUME TypeOK, Next
    PROVE  TypeOK'
  <1> USE DEF environment, usb, climb, phase, marks, storage, history
  <1>1. CASE BootSettle \/ StartFault \/ NotResumed \/ BootContinuity \/ Calibrated
    <2>1. CASE BootSettle
      BY <2>1 DEF BootSettle, TypeOK, States, Airborne, Descents, Booting
    <2>2. CASE StartFault
      BY <2>2 DEF StartFault, TypeOK, States, Airborne, Descents
    <2>3. CASE NotResumed
      BY <2>3 DEF NotResumed, TypeOK, States, Airborne, Descents, Booting
    <2>4. CASE BootContinuity
      BY <2>4 DEF BootContinuity, TypeOK, States, Airborne, Descents, Booting
    <2>5. CASE Calibrated
      BY <2>5 DEF Calibrated, TypeOK, States, Airborne, Descents
    <2> QED BY <1>1, <2>1, <2>2, <2>3, <2>4, <2>5
  <1>2. CASE Resume
    <2>1. motion \in {"LIFTING", "FAST", "SLOW", "FALL"} /\ resumed' = motion
      BY <1>2 DEF Resume, ResumeVerdicts
    <2>2. ground' \in Sites \cup {NoSite, Air} /\ log' = "RUNNING" /\ sampled' = FALSE
      BY <1>2 DEF Resume, MeasureFromRecord, TypeOK
    <2>3. /\ {pyros_armed', apogee_declared'} \subseteq BOOLEAN /\ state' \in {"ASCENT", "FALLING"}
          /\ apogee_declared' <=> state' = "FALLING"
      BY <1>2 DEF Resume, ResumedDescent
    <2>4. UNCHANGED <<environment, usb, gt_requested, arm_height_passed, was_fast, marks, storage, kept, spoilt, outlasted>>
      BY <1>2 DEF Resume
    <2>5. locked' \in BOOLEAN
      BY <1>2 DEF Resume
    <2> QED BY <2>1, <2>2, <2>3, <2>4, <2>5 DEF TypeOK, States, Airborne, Descents
  <1>3. CASE FollowMovedBoard
    <2>1. ground' \in Sites \cup {NoSite, Air} /\ dwell' \in 0..Dwell /\ record_written' = FALSE
      BY <1>3 DEF FollowMovedBoard, TypeOK
    <2> QED BY <1>3, <2>1 DEF FollowMovedBoard, TypeOK
  <1>4. CASE Launch \/ PadSample
    <2>1. CASE Launch
      BY <2>1 DEF Launch, TypeOK, States, Airborne, Descents
    <2>2. CASE PadSample
      BY <2>2 DEF PadSample, TypeOK
    <2> QED BY <1>4, <2>1, <2>2
  <1>5. CASE AscentSample
    <2>1. locked' \in {FALSE, locked} /\ apogee_declared' \in BOOLEAN
      BY <1>5 DEF AscentSample
    <2>2. /\ was_fast' \in BOOLEAN /\ arm_height_passed' \in BOOLEAN
          /\ pyros_armed' \in BOOLEAN /\ sampled' \in BOOLEAN
      BY <1>5 DEF AscentSample, TypeOK, FastSeen, ArmingDue
    <2>3. state' \in States /\ (apogee_declared' <=> state' \in Descents \cup {"LANDED"})
      BY <1>5 DEF AscentSample, States, Airborne, Descents
    <2>4. UNCHANGED <<environment, usb, gt_requested, ground, marks, log, storage, history>>
      BY <1>5 DEF AscentSample
    <2>5. {was_fast', arm_height_passed', pyros_armed', sampled', apogee_declared', locked'} \subseteq BOOLEAN
      BY <2>1, <2>2 DEF TypeOK
    <2> QED BY <2>3, <2>4, <2>5 DEF TypeOK
  <1>6. CASE DescentSample \/ Landing
    BY <1>6 DEF DescentSample, Landing, TypeOK, States, Airborne, Descents
  <1>7. CASE SetUsbAttached \/ SetTestMode
    <2>1. PICK attached, testing \in BOOLEAN : GroundingChanged(attached, testing)
      BY <1>7 DEF SetUsbAttached, SetTestMode, TypeOK
    <2>2. {usb_attached', test_mode', record_written'} \subseteq BOOLEAN /\ dwell' \in {0, dwell}
      BY <2>1 DEF GroundingChanged, TypeOK
    <2>4. dwell' \in 0..Dwell
      BY <2>2 DEF TypeOK
    <2>3. UNCHANGED <<environment, sampled, state, gt_requested, phase, ground, record_cleared, log, storage, history>>
      BY <1>7 DEF SetUsbAttached, SetTestMode
    <2> QED BY <2>2, <2>3, <2>4 DEF TypeOK
  <1>8. CASE Storage
    <2>1. /\ {record_written', record_cleared', spoilt'} \subseteq BOOLEAN
          /\ task' \in {"IDLE", "MARK", "FILL", "WRITE"}
          /\ {filled', record'} \subseteq Sites \cup {NoSite, Air} /\ log' \in {"OFF", "RUNNING", "STOPPING"}
      BY <1>8 DEF Storage, ClearAfterFlight, ClearOnBench, KeepDue, KeepMark, KeepFill, WriteRecord, CloseLog, TypeOK
    <2>2. UNCHANGED <<environment, sampled, state, usb, gt_requested, phase, ground, dwell, resumed, kept, outlasted>>
      BY <1>8 DEF Storage, ClearAfterFlight, ClearOnBench, KeepDue, KeepMark, KeepFill, WriteRecord, CloseLog
    <2> QED BY <2>1, <2>2 DEF TypeOK
  <1>9. CASE Tick
    BY <1>9 DEF Tick, TypeOK
  <1>10. CASE MoveOn
    <2>1. motion' \in {Course[i] : i \in 1..7}
      BY <1>10, MotionGoesOn, CourseIs DEF Follows, Motions
    <2>2. /\ UNCHANGED <<site, host, restarts, carries, plugs, state, usb, gt_requested, phase, ground, marks, log>>
          /\ UNCHANGED <<storage, resumed, kept, spoilt>> /\ sampled' = FALSE
          /\ outlasted' = (motion = "FALL" /\ locked)
      BY <1>10 DEF MoveOn
    <2> QED BY <2>1, <2>2 DEF TypeOK
  <1>11. CASE Carry \/ Plug
    <2>1. CASE Carry
      BY <2>1 DEF Carry, TypeOK
    <2>2. CASE Plug
      BY <2>2 DEF Plug, TypeOK
    <2> QED BY <1>11, <2>1, <2>2
  <1>12. CASE Restart
    <2>1. restarts' \in 0..MaxRestarts /\ dwell' \in 0..Dwell /\ state' = "BOOT_SETTLE"
      BY <1>12 DEF Restart, TypeOK
    <2> QED BY <1>12, <2>1 DEF Restart, TypeOK, States, Airborne, Descents, Booting
  <1> QED BY <1>1, <1>2, <1>3, <1>4, <1>5, <1>6, <1>7, <1>8, <1>9, <1>10, <1>11, <1>12 DEF Next, FlightStep

\* The mark follows the reference: a step that changes one takes the other back.
LEMMA RecordStep ==
    ASSUME Inv, Next
    PROVE  RecordInv'
  <1> USE DEF environment, usb, climb, phase, marks, storage, history, RecordInv, Grounded, Booting
  <1>1. RecordInv
    BY DEF Inv
  <1>2. CASE FlightStep
    <2>1. CASE BootSettle \/ StartFault \/ BootContinuity
      <3>1. CASE BootSettle
        BY <1>1, <3>1 DEF BootSettle
      <3>2. CASE StartFault
        BY <1>1, <3>2 DEF StartFault
      <3>3. CASE BootContinuity
        BY <1>1, <3>3 DEF BootContinuity
      <3> QED BY <2>1, <3>1, <3>2, <3>3
    <2>2. CASE NotResumed
      BY <1>1, <2>2 DEF NotResumed
    <2>3. CASE Calibrated
      BY <1>1, <2>3 DEF Calibrated
    <2>4. CASE Resume
      BY <1>1, <2>4 DEF Resume
    <2>5. CASE Launch
      BY <1>1, <2>5 DEF Launch
    <2>7. CASE PadSample
      BY <1>1, <2>7 DEF PadSample
    <2>8. CASE FollowMovedBoard
      BY <1>1, <2>8 DEF FollowMovedBoard
    <2>6. CASE AscentSample \/ DescentSample \/ Landing
      BY <1>1, <2>6 DEF AscentSample, DescentSample, Landing, Airborne, Descents
    <2> QED BY <1>2, <2>1, <2>2, <2>3, <2>4, <2>5, <2>6, <2>7, <2>8 DEF FlightStep
  <1>3. CASE SetUsbAttached \/ SetTestMode
    BY <1>1, <1>3 DEF SetUsbAttached, SetTestMode, GroundingChanged
  <1>4. CASE Storage
    BY <1>1, <1>4 DEF Storage, ClearAfterFlight, ClearOnBench, KeepDue, KeepMark, KeepFill, WriteRecord, CloseLog
  <1>5. CASE Tick \/ MoveOn \/ Carry \/ Plug
    BY <1>1, <1>5 DEF Tick, MoveOn, Carry, Plug
  <1>6. CASE Restart
    BY <1>6 DEF Restart
  <1> QED BY <1>2, <1>3, <1>4, <1>5, <1>6 DEF Next

\* No start, move or write makes a kept record another pad's.
LEMMA KeptStep ==
    ASSUME Inv, Next
    PROVE  KeptInv'
  <1> USE DEF environment, usb, climb, phase, marks, storage, history, KeptInv, OnGround
  <1>1. KeptInv /\ RecordInv
    BY DEF Inv
  <1>2. CASE FlightStep
    <2>1. CASE BootSettle \/ StartFault \/ BootContinuity \/ Calibrated
      BY <1>1, <2>1 DEF BootSettle, StartFault, BootContinuity, Calibrated, RecordInv, Booting
    <2>2. CASE NotResumed
      BY <1>1, <2>2 DEF NotResumed, RecordInv, Booting
    <2>3. CASE Resume
      BY <1>1, <2>3 DEF Resume, MeasureFromRecord, RecordInv, Booting
    <2>4. CASE FollowMovedBoard \/ PadSample
      BY <1>1, <2>4 DEF FollowMovedBoard, PadSample
    <2>5. CASE Launch
      BY <1>1, <2>5 DEF Launch, LaunchSeen, Above, High, RecordInv
    <2>6. CASE AscentSample \/ DescentSample \/ Landing
      <3>1. /\ state' \in Airborne \cup {"LANDED"}
            /\ UNCHANGED <<environment, ground, storage, history>> /\ state # "PAD_IDLE"
        BY <2>6 DEF AscentSample, DescentSample, Landing, Airborne, Descents
      <3> QED BY <1>1, <3>1 DEF Airborne
    <2> QED BY <1>2, <2>1, <2>2, <2>3, <2>4, <2>5, <2>6 DEF FlightStep
  <1>3. CASE SetUsbAttached \/ SetTestMode
    BY <1>1, <1>3 DEF SetUsbAttached, SetTestMode, GroundingChanged
  <1>4. CASE Storage
    BY <1>1, <1>4 DEF Storage, ClearAfterFlight, ClearOnBench, KeepDue, KeepMark, KeepFill, WriteRecord, CloseLog
  <1>5. CASE Tick \/ Carry \/ Plug
    BY <1>1, <1>5 DEF Tick, Carry, Plug
  <1>6. CASE MoveOn
    <2>1. Follows(motion, motion')
      BY <1>6, MotionGoesOn
    <2>2. /\ UNCHANGED <<site, host, state, usb, phase, ground, record, filled, task, resumed, kept>>
          /\ sampled' = FALSE
          /\ motion = "STILL" => ~host /\ ~usb_attached
          /\ motion # "STILL" /\ state \in Airborne \cup {"PAD_IDLE"} => sampled
      BY <1>6 DEF MoveOn
    <2> QED BY <1>1, <2>1, <2>2 DEF Follows
  <1>7. CASE Restart
    BY <1>1, <1>7 DEF Restart
  <1> QED BY <1>2, <1>3, <1>4, <1>5, <1>6, <1>7 DEF Next

\* The motion waits for a sample, and a sample of it takes the ascent on.
LEMMA ClimbStep ==
    ASSUME Inv, Next
    PROVE  ClimbInv'
  <1> USE DEF environment, usb, climb, phase, marks, storage, history, ClimbInv, OnGround, Airborne, Descents
  <1>1. ClimbInv /\ site \in Sites /\ motion \in Motions
    BY CourseIs DEF Inv, TypeOK
  <1>2. CASE FlightStep
    <2>1. CASE BootSettle \/ StartFault \/ BootContinuity
      <3>1. CASE BootSettle
        BY <1>1, <3>1 DEF BootSettle
      <3>2. CASE StartFault
        BY <1>1, <3>2 DEF StartFault
      <3>3. CASE BootContinuity
        BY <1>1, <3>3 DEF BootContinuity
      <3> QED BY <2>1, <3>1, <3>2, <3>3
    <2>2. CASE Calibrated
      BY <1>1, <2>2 DEF Calibrated
    <2>3. CASE Resume
      BY <1>1, <2>3 DEF Resume, ResumeVerdicts
    <2>4. CASE FollowMovedBoard
      BY <1>1, <2>4 DEF FollowMovedBoard
    <2>5. CASE PadSample
      BY <1>1, <2>5 DEF PadSample, LaunchSeen, Above, High, Grounded
    <2>6. CASE Launch
      BY <1>1, <2>6 DEF Launch, LaunchSeen, Above, High
    <2>7. CASE AscentSample
      BY <1>1, <2>7 DEF AscentSample, Above, High, FastSeen, ArmingDue, ApogeeMay, ApogeeMust
    <2>8. CASE DescentSample \/ Landing
      BY <1>1, <2>8 DEF DescentSample, Landing
    <2>9. CASE NotResumed
      BY <1>1, <2>9 DEF NotResumed
    <2> QED BY <1>2, <2>1, <2>2, <2>3, <2>4, <2>5, <2>6, <2>7, <2>8, <2>9 DEF FlightStep
  <1>3. CASE SetUsbAttached \/ SetTestMode
    BY <1>1, <1>3 DEF SetUsbAttached, SetTestMode, GroundingChanged
  <1>4. CASE Storage
    BY <1>1, <1>4 DEF Storage, ClearAfterFlight, ClearOnBench, KeepDue, KeepMark, KeepFill, WriteRecord, CloseLog
  <1>5. CASE Tick \/ Carry \/ Plug
    BY <1>1, <1>5 DEF Tick, Carry, Plug
  <1>6. CASE MoveOn
    <2>1. Follows(motion, motion')
      BY <1>6, MotionGoesOn
    <2>2. /\ UNCHANGED <<site, host, state, usb, phase, ground, record, filled, task, resumed, kept>>
          /\ sampled' = FALSE
          /\ motion = "STILL" => ~host /\ ~usb_attached
          /\ motion # "STILL" /\ state \in Airborne \cup {"PAD_IDLE"} => sampled
          /\ outlasted' = (motion = "FALL" /\ locked)
      BY <1>6 DEF MoveOn
    <2> QED BY <1>1, <2>1, <2>2 DEF Follows
  <1>7. CASE Restart
    BY <1>1, <1>7 DEF Restart
  <1> QED BY <1>2, <1>3, <1>4, <1>5, <1>6, <1>7 DEF Next

LEMMA InvAlways ==
    Spec => []Inv
  <1>1. Init => Inv
    <2>1. Init => TypeOK
      <3>1. "STILL" \in {Course[i] : i \in 1..7} /\ 0 \in 0..Dwell
        BY CourseIs DEF Motions
      <3>2. 0 \in 0..MaxRestarts /\ 0 \in 0..MaxCarries /\ 0 \in 0..MaxPlugs
        OBVIOUS
      <3> QED BY <3>1, <3>2 DEF Init, TypeOK, States, Airborne, Descents, Booting
    <2>2. Init => RecordInv /\ KeptInv /\ ClimbInv
      BY DEF Init, RecordInv, KeptInv, ClimbInv, Booting, OnGround, Airborne, Descents
    <2> QED BY <2>1, <2>2 DEF Inv
  <1>2. Inv /\ [Next]_vars => Inv'
    <2> SUFFICES ASSUME Inv, [Next]_vars PROVE Inv'
      OBVIOUS
    <2>1. CASE Next
      BY <2>1, TypeStep, RecordStep, KeptStep, ClimbStep DEF Inv
    <2>2. CASE UNCHANGED vars
      <3>1. TypeOK'
        BY <2>2 DEF vars, environment, usb, climb, phase, marks, storage, history, Inv, TypeOK
      <3>2. RecordInv' /\ KeptInv' /\ ClimbInv'
        BY <2>2 DEF vars, environment, usb, climb, phase, marks, storage, history, Inv, RecordInv, KeptInv, ClimbInv, Grounded
      <3> QED BY <3>1, <3>2 DEF Inv
    <2> QED BY <2>1, <2>2
  <1> QED BY <1>1, <1>2, PTL DEF Spec

-----------------------------------------------------------------------------
\* GND-CAL-06, FLT-BROWN-01, FLT-BROWN-06: what the record tells is true of the
\* pad it is read on and written on, wherever restarts, moves and the host's
\* comings fall in the storage task's passes, for any number of them.
THEOREM RecordAlwaysTells ==
    Spec => []RecordTells
  <1>1. Inv => RecordTells
    BY DEF Inv, RecordInv, KeptInv, RecordTells, RecordCurrent, ResumedOnPad
  <1> QED BY <1>1, InvAlways, PTL

\* SYS-DEPLOY-01: a flight measured against its own pad does not come down with
\* apogee undeclared, unless it was rejoined in the last of its climb or the
\* user's lockout ran on over all of its fall.
THEOREM ApogeeAlwaysDeclared ==
    Spec => []ApogeeDeclared
  <1>1. Inv => ApogeeDeclared
    BY DEF Inv, TypeOK, ClimbInv, ApogeeDeclared, Airborne, Descents
  <1> QED BY <1>1, InvAlways, PTL

-----------------------------------------------------------------------------
(***************************************************************************)
(* FlightCall, what other tasks ask of the flight task, implements CallOnce,  *)
(* for any set of callers.                                                   *)
(***************************************************************************)
USE FlightCallConstants

\* The flight task has no call of its own under way.
Free == flight \in {"IDLE", "SERVE"}

\* What the mailbox holds of a posted call, and how far the call has come.
Posted(c) ==
    /\ call_fn = c
    /\ \/ call_state \in {"PENDING", "REFUSED"} /\ Free /\ call[c] = "ASKED"
       \/ call_state = "RUNNING" /\ flight = "CALL" /\ call[c] = "ASKED"
       \/ call_state = "RUNNING" /\ flight = "IN_CALL" /\ call[c] = "RUNNING"
       \/ call_state = "RUNNING" /\ flight = "DONE" /\ call[c] = "RAN"
       \/ call_state = "DONE" /\ Free /\ call[c] = "RAN"

\* Each caller, by where it is in flight_call.
CallerInv(c) ==
    /\ pc[c] \notin {"OUT", "TAKE"} <=> call_mutex = c
    /\ pc[c] = "OUT" => call[c] \in {"NONE", "TRUE", "FALSE"}
    /\ pc[c] = "TAKE" => call[c] = "ASKED"
    /\ pc[c] \in {"POST", "PEND"} => call_state = "NONE" /\ Free /\ call[c] = "ASKED"
    /\ pc[c] = "PEND" => call_fn = c
    /\ pc[c] \in {"WAIT", "SETTLE"} => Posted(c)
    /\ pc[c] = "UNTIL_DONE" => Posted(c) /\ ran[c] /\ call_state \in {"RUNNING", "DONE"}
    /\ pc[c] = "CLEAR" => Free /\ call_state = (IF ran[c] THEN "DONE" ELSE "NONE")
    /\ pc[c] = "GIVE" => Free /\ call_state = "NONE"
    /\ pc[c] \in {"CLEAR", "GIVE"} => call[c] = (IF ran[c] THEN "RAN" ELSE "ASKED")

CallInv ==
    /\ CallTypeOK
    /\ call_mutex = Nobody => call_state = "NONE" /\ Free
    /\ \A c \in Callers : CallerInv(c)
    /\ FlashCodeGrounded

\* The call the flight task is in is the mutex holder's.
LEMMA CallIsHolders ==
    ASSUME CallInv, ~Free \/ call_state \in {"PENDING", "RUNNING"}
    PROVE  call_fn \in Callers /\ call_mutex = call_fn /\ Posted(call_fn)
           /\ pc[call_fn] \in {"WAIT", "SETTLE", "UNTIL_DONE"}
  <1>1. call_mutex \in Callers
    BY DEF CallInv, CallTypeOK
  <1>2. CallerInv(call_mutex) /\ pc[call_mutex] \in Labels
    BY <1>1 DEF CallInv, CallTypeOK
  <1>3. pc[call_mutex] \in {"WAIT", "SETTLE", "UNTIL_DONE"}
    BY <1>2 DEF CallerInv, Labels
  <1> QED BY <1>1, <1>2, <1>3 DEF CallerInv, Posted

\* A step of a caller inside or outside the mutex keeps the invariant, and is
\* a step of CallOnce or leaves the call as it is.
LEMMA CallerKeeps ==
    ASSUME CallInv, NEW c \in Callers,
           Enter(c) \/ TakeMutex(c) \/ MutexTimeout(c) \/ Proceed(c)
    PROVE  CallInv' /\ (Promise!Next \/ UNCHANGED call)
  <1> USE DEF Goto, caller, mailbox
  <1>1. CallTypeOK /\ CallerInv(c) /\ pc[c] \in Labels /\ (call_mutex = Nobody => call_state = "NONE" /\ Free)
    BY DEF CallInv, CallTypeOK
  <1>2. CASE Enter(c)
    <2>1. CallTypeOK'
      BY <1>1, <1>2 DEF Enter, CallTypeOK, Labels
    <2>2. \A d \in Callers : CallerInv(d)'
      BY <1>2 DEF Enter, CallInv, CallTypeOK, CallerInv, Posted, Free
    <2>3. Promise!Ask(c)
      BY <1>1, <1>2 DEF Enter, CallerInv, Promise!Ask, Promise!Answers
    <2> QED BY <1>2, <2>1, <2>2, <2>3 DEF Enter, CallInv, Free, FlashCodeGrounded, Promise!Next
  <1>3. CASE TakeMutex(c)
    <2>1. CallTypeOK'
      BY <1>1, <1>3 DEF TakeMutex, CallTypeOK, Labels
    <2>2. \A d \in Callers : CallerInv(d)'
      BY <1>1, <1>3 DEF TakeMutex, CallInv, CallTypeOK, CallerInv, Posted, Free
    <2> QED BY <1>3, <2>1, <2>2 DEF TakeMutex, CallInv, Free, FlashCodeGrounded
  <1>4. CASE MutexTimeout(c)
    <2>1. CallTypeOK'
      BY <1>1, <1>4 DEF MutexTimeout, Return, CallTypeOK, Labels
    <2>2. \A d \in Callers : CallerInv(d)'
      BY <1>4 DEF MutexTimeout, Return, CallInv, CallTypeOK, CallerInv, Posted, Free
    <2>3. Promise!TellNot(c)
      BY <1>1, <1>4 DEF MutexTimeout, Return, CallerInv, Promise!TellNot
    <2> QED BY <1>4, <2>1, <2>2, <2>3 DEF MutexTimeout, Return, CallInv, Free, FlashCodeGrounded, Promise!Next
  <1>5. CASE Proceed(c)
    <2>1. call_mutex = c /\ \A d \in Callers : d # c => pc[d] \in {"OUT", "TAKE"} /\ CallerInv(d)
      BY <1>1, <1>5 DEF Proceed, Post, Pend, StopWaiting, Settle, UntilDone, Clear, GiveMutex,
                        CallInv, CallerInv
    <2>2. CallTypeOK'
      BY <1>1, <1>5 DEF Proceed, Post, Pend, StopWaiting, Settle, UntilDone, Clear, GiveMutex, Return,
                        CallTypeOK, Labels, CallStates
    <2>3. flight' = flight /\ in_flight' = in_flight
      BY <1>5 DEF Proceed, Post, Pend, StopWaiting, Settle, UntilDone, Clear, GiveMutex
    <2>4. \A d \in Callers : d # c => CallerInv(d)'
      BY <1>1, <1>5, <2>1, <2>3 DEF Proceed, Post, Pend, StopWaiting, Settle, UntilDone, Clear, GiveMutex, Return,
                                    CallerInv, CallTypeOK
    <2>5. CASE Post(c) \/ Pend(c)
      <3>0. Free /\ call_state = "NONE" /\ call[c] = "ASKED"
        BY <1>1, <2>5 DEF Post, Pend, CallerInv
      <3>1. CallerInv(c)' /\ FlashCodeGrounded'
        <4>1. CASE Post(c)
          BY <1>1, <2>1, <2>3, <3>0, <4>1 DEF Post, CallerInv, Free, FlashCodeGrounded, CallTypeOK
        <4>2. CASE Pend(c)
          <5>1. call_fn = c
            BY <1>1, <4>2 DEF Pend, CallerInv
          <5> QED BY <1>1, <2>1, <2>3, <3>0, <4>2, <5>1 DEF Pend, CallerInv, Posted, Free, FlashCodeGrounded, CallTypeOK
        <4> QED BY <2>5, <4>1, <4>2
      <3>2. call_mutex' = c /\ call' = call
        BY <2>1, <2>5 DEF Post, Pend
      <3> QED BY <2>2, <2>4, <3>1, <3>2 DEF CallInv
    <2>6. CASE StopWaiting(c) \/ Settle(c) \/ UntilDone(c) \/ Clear(c)
      <3>1. CallerInv(c)'
        BY <1>1, <2>1, <2>3, <2>6 DEF StopWaiting, Settle, UntilDone, Clear, CallerInv, Posted, Free, CallTypeOK
      <3>2. call_mutex' = c /\ call' = call /\ FlashCodeGrounded'
        BY <2>1, <2>3, <2>6 DEF StopWaiting, Settle, UntilDone, Clear, CallInv, FlashCodeGrounded
      <3> QED BY <2>2, <2>4, <3>1, <3>2 DEF CallInv
    <2>7. CASE GiveMutex(c)
      <3>1. CallerInv(c)' /\ FlashCodeGrounded' /\ call_state' = "NONE" /\ Free'
        BY <1>1, <2>1, <2>3, <2>7 DEF GiveMutex, Return, CallerInv, Free, CallTypeOK, CallInv, FlashCodeGrounded
      <3>2. Promise!TellRan(c) \/ Promise!TellNot(c)
        BY <1>1, <2>7 DEF GiveMutex, Return, CallerInv, Promise!TellRan, Promise!TellNot
      <3> QED BY <2>2, <2>4, <3>1, <3>2 DEF CallInv, Promise!Next
    <2> QED BY <1>5, <2>5, <2>6, <2>7 DEF Proceed
  <1> QED BY <1>2, <1>3, <1>4, <1>5

\* A step of the flight task likewise.
LEMMA ServeKeeps ==
    ASSUME CallInv, Serve
    PROVE  CallInv' /\ (Promise!Next \/ UNCHANGED call)
  <1> USE DEF caller, mailbox
  <1>1. CallTypeOK /\ \A c \in Callers : CallerInv(c) /\ pc[c] \in Labels
    BY DEF CallInv, CallTypeOK
  <1>2. CASE Period
    <2>1. CallTypeOK'
      BY <1>1, <1>2 DEF Period, CallTypeOK, FlightSteps
    <2>2. \A c \in Callers : CallerInv(c)'
      BY <1>1, <1>2 DEF Period, CallerInv, Posted, Free
    <2> QED BY <1>2, <2>1, <2>2 DEF Period, CallInv, Free, FlashCodeGrounded
  <1>3. CASE Take
    <2>1. call_fn \in Callers /\ call_mutex = call_fn /\ Posted(call_fn)
          /\ pc[call_fn] \in {"WAIT", "SETTLE", "UNTIL_DONE"}
      BY <1>3, CallIsHolders DEF Take
    <2>2. CallTypeOK'
      BY <1>1, <1>3 DEF Take, CallTypeOK, FlightSteps, CallStates
    <2>3. \A c \in Callers : CallerInv(c)'
      BY <1>1, <1>3, <2>1 DEF Take, CallerInv, Posted, Free
    <2>4. FlashCodeGrounded'
      BY <1>3 DEF Take, MayRun, FlashCodeGrounded
    <2> QED BY <1>3, <2>1, <2>2, <2>3, <2>4 DEF Take, CallInv
  <1>4. CASE Refuse
    <2>1. CallTypeOK'
      BY <1>1, <1>4 DEF Refuse, CallTypeOK, FlightSteps, CallStates
    <2>2. \A c \in Callers : CallerInv(c)'
      BY <1>1, <1>4 DEF Refuse, CallerInv, Posted, Free
    <2> QED BY <1>4, <2>1, <2>2 DEF Refuse, CallInv, Free, FlashCodeGrounded
  <1>5. CASE CallFn \/ FnReturns \/ Done
    <2>1. call_fn \in Callers /\ call_mutex = call_fn /\ Posted(call_fn)
          /\ pc[call_fn] \in {"WAIT", "SETTLE", "UNTIL_DONE"}
      BY <1>5, CallIsHolders DEF CallFn, FnReturns, Done, Free
    <2>2. CallTypeOK'
      BY <1>1, <1>5 DEF CallFn, FnReturns, Done, CallTypeOK, FlightSteps, CallStates
    <2>3. ASSUME NEW c \in Callers, c # call_fn PROVE CallerInv(c)' /\ call[c] # "RUNNING"
      BY <1>1, <1>5, <2>1, <2>3 DEF CallFn, FnReturns, Done, CallerInv, CallTypeOK, Labels
    <2>4. CallerInv(call_fn)'
      BY <1>1, <1>5, <2>1 DEF CallFn, FnReturns, Done, CallerInv, Posted, Free, CallTypeOK
    <2>5. call_mutex' # Nobody /\ FlashCodeGrounded' /\ call_fn' = call_fn
      BY <1>5, <2>1 DEF CallFn, FnReturns, Done, CallInv, FlashCodeGrounded
    <2>6. Promise!Run(call_fn) \/ Promise!Finish(call_fn) \/ UNCHANGED call
      BY <1>5, <2>1, <2>3 DEF CallFn, FnReturns, Done, Posted, Free, Promise!Run, Promise!Finish
    <2> QED BY <2>1, <2>2, <2>3, <2>4, <2>5, <2>6 DEF CallInv, Promise!Next
  <1> QED BY <1>2, <1>3, <1>4, <1>5 DEF Serve

LEMMA CallInvInit == CallInit => CallInv /\ Promise!Init
  BY DEF CallInit, CallInv, CallTypeOK, Labels, CallStates, FlightSteps, CallerInv, Posted, Free, FlashCodeGrounded,
         Promise!Init

LEMMA CallInvStep == CallInv /\ [CallNext]_callVars => CallInv' /\ [Promise!Next]_call
  <1> SUFFICES ASSUME CallInv, [CallNext]_callVars PROVE CallInv' /\ [Promise!Next]_call
    OBVIOUS
  <1>1. CASE CallNext
    BY <1>1, CallerKeeps, ServeKeeps DEF CallNext
  <1>2. CASE UNCHANGED callVars
    BY <1>2 DEF callVars, caller, mailbox, CallInv, CallTypeOK, CallerInv, Posted, Free, FlashCodeGrounded
  <1> QED BY <1>1, <1>2

-----------------------------------------------------------------------------
\* The type invariant: the mailbox is always a call of a caller or empty.
THEOREM CallTypeCorrect == CallSpec => []CallTypeOK
  <1>1. CallInv => CallTypeOK
    BY DEF CallInv
  <1> QED BY <1>1, CallInvInit, CallInvStep, PTL DEF CallSpec

\* FLT-RT-02: no call that lives in flash runs while the flight task is held to
\* RAM, whoever calls and whenever the flight begins.
THEOREM FlashCodeGroundedAlways == CallSpec => []FlashCodeGrounded
  <1>1. CallInv => FlashCodeGrounded
    BY DEF CallInv
  <1> QED BY <1>1, CallInvInit, CallInvStep, PTL DEF CallSpec

\* The mailbox implements CallOnce: a call told FALSE never runs, one told TRUE
\* ran once and to its end, and no two run at once.
THEOREM PromiseKept == CallSpec => KeepsPromise
  BY CallInvInit, CallInvStep, PTL DEF CallSpec, KeepsPromise
=============================================================================
