-------------------------------- MODULE FlashOp --------------------------------
(***************************************************************************)
(* Flash operations under FreeRTOS (flash_op.c) and the log writer's pieces  *)
(* of them (flash_slot.c).                                                   *)
(*                                                                         *)
(* The callers are core1's tasks.  On the ground an operation parks core0    *)
(* through its lockout helper; from launch to landing core0 runs from RAM and *)
(* the writer's operations run in pieces that stop nothing on it.  A step is  *)
(* what runs under the spin lock, or with interrupts off, or between two     *)
(* looks at what the other core may change.                                  *)
(*                                                                         *)
(* Time is counted only while an operation runs whole, against the helper's  *)
(* own bound; a wait may time out at any point.  A suspended piece has not   *)
(* shortened what is left.  The kernel and the chip are external: a task     *)
(* raised to T keeps every task at P from running on either core, and a chip *)
(* that holds an erase takes no other.                                       *)
(***************************************************************************)
EXTENDS Naturals

CONSTANTS
    Callers, Writer,   \* core1's tasks that reach the flash; the storage task
    Erase,             \* ticks an erase takes at most
    ParkMax,           \* PARK_MAX_US, in ticks
    Suspends           \* the part's erase suspends

ASSUME FlashOpConstants ==
    /\ Writer \in Callers
    /\ {"NOBODY", "OLD", "NONE"} \cap Callers = {}     \* not the marks below
    /\ {Erase, ParkMax} \subseteq Nat \ {0}
    /\ Suspends \in BOOLEAN

VARIABLES
    flight, landed,    \* the one flight: the flight task runs from RAM; it is over
    lk, notified,      \* core0's lockout, and its helper's notification
    spinning, parked,  \* the helper spins on core0 in RAM, and for how long
    piece_busy, held_suspended,
    slot_req,          \* whose piece the alarm of the next slot is to run
    held,              \* what the chip holds suspended
    left,              \* ticks to the end of what runs whole
    stalled,           \* the chip has stopped answering under a whole operation
    at,                \* where each caller is
    call               \* its operation

helper == <<notified, spinning, parked>>
chip == <<held_suspended, held, left>>
phase == <<flight, landed, stalled, slot_req>>
vars == <<phase, lk, helper, piece_busy, chip, at, call>>

-----------------------------------------------------------------------------
Kinds == {"PROGRAM", "ERASE"}
Old == "OLD"                             \* an operation that was given up
Nothing == [of |-> "NONE", kind |-> "NONE"]
Nobody == "NOBODY"
Resting == [kind |-> "PROGRAM", resume |-> FALSE, ground |-> FALSE, slotted |-> FALSE,
            ret |-> "NONE", done |-> FALSE]

Duration(kind) == IF kind = "ERASE" THEN Erase ELSE 0

\* At T, from the raise to the restore in locked_out; and interrupts off.
RaisedAt == {"CLAIM", "NOTIFY", "WAIT", "WITHDRAW", "BODY", "WORK", "RELEASE", "LOWER"}
Uninterrupted == {"RUN", "WORK"}
Places == RaisedAt \cup Uninterrupted
              \cup {"IDLE", "FIRST", "NEXT", "SLOT", "ALARM", "TRY", "PIECE", "ENTER", "RAISE"}

Raised == \E c \in Callers : at[c] \in RaisedAt
Runs(c) == \A d \in Callers \ {c} : at[d] \notin RaisedAt \cup Uninterrupted

Goes(c, place) == at' = [at EXCEPT ![c] = place]

\* What the chip still holds of an operation that ends, nobody will resume.
Return(c, result) ==
    /\ Goes(c, "IDLE")
    /\ held' = IF held.of = c THEN [held EXCEPT !.of = Old] ELSE held
    /\ call' = [call EXCEPT ![c].ret = result]

-----------------------------------------------------------------------------
(* The calls. *)

\* fs_lock: one task at a time works on the files.
FilesFree(c) == \A d \in Callers \ {c} : at[d] # "IDLE" => ~call[d].slotted

\* slot_op: only the writer's in flight.  Its erase on the ground is sliced
\* where the part suspends it and the chip holds nothing.
SlotOp(c) ==
    \E kind \in Kinds :
        /\ at[c] = "IDLE" /\ Runs(c) /\ FilesFree(c)
        /\ flight => c = Writer
        /\ Goes(c, "FIRST")
        /\ call' = [call EXCEPT ![c] = [Resting EXCEPT
               !.kind = kind, !.slotted = TRUE,
               !.ground = ~flight /\ c = Writer /\ ~held_suspended /\ Suspends /\ kind = "ERASE"]]
        /\ UNCHANGED <<phase, lk, helper, piece_busy, chip>>

\* flash_op_erase, flash_op_program: a new image's, from the net task.
PlainOp(c) ==
    \E kind \in Kinds :
        /\ at[c] = "IDLE" /\ Runs(c) /\ c # Writer
        /\ Goes(c, "ENTER")
        /\ call' = [call EXCEPT ![c] = [Resting EXCEPT !.kind = kind]]
        /\ UNCHANGED <<phase, lk, helper, piece_busy, chip>>

-----------------------------------------------------------------------------
(* flash_slot_run. *)

Sliced(c) == flight \/ call[c].ground    \* io_sliced

\* The first piece tries the slot it is asked in; the next waits for a slot's
\* start, by an alarm in flight and in the writer's task on the ground.
SlotLoop(c) ==
    /\ at[c] \in {"FIRST", "NEXT"} /\ Runs(c)
    /\ \/ ~Sliced(c) /\ Goes(c, "ENTER")
       \/ Sliced(c) /\ at[c] = "FIRST" /\ Goes(c, "TRY")
       \/ Sliced(c) /\ at[c] = "NEXT" /\ ~flight /\ Goes(c, "SLOT")
    /\ UNCHANGED <<phase, lk, helper, piece_busy, chip, call>>

\* io_at_slot_start in a flight: the alarm is asked for the piece.
AskAlarm(c) ==
    /\ at[c] = "NEXT" /\ Runs(c) /\ flight
    /\ slot_req' = c
    /\ Goes(c, "ALARM")
    /\ UNCHANGED <<flight, landed, stalled, lk, helper, piece_busy, chip, call>>

\* Past FLASH_SLOT_MAX_PIECES.
SlotsSpent(c) ==
    /\ at[c] = "NEXT" /\ Runs(c)
    /\ Return(c, "FAILED")
    /\ UNCHANGED <<phase, lk, helper, piece_busy, held_suspended, left>>

SlotStart(c) ==
    /\ at[c] = "SLOT" /\ Runs(c)
    /\ Goes(c, "TRY")
    /\ UNCHANGED <<phase, lk, helper, piece_busy, chip, call>>

\* flash_slot_plan, over any point of the slot: a piece fits, if the part's ever do.
Fits(c) == Suspends \/ call[c].kind = "PROGRAM"

NotYet(c) == IF Fits(c) THEN Goes(c, "NEXT") /\ UNCHANGED <<held, call>> ELSE Return(c, "FAILED")

\* io_piece: claimed in flight; else a ground piece, or the rest whole.
TryPiece(c) ==
    /\ at[c] = "TRY" /\ Runs(c)
    /\ \/ NotYet(c) /\ UNCHANGED piece_busy
       \/ /\ Fits(c)
          /\ Goes(c, IF flight THEN "PIECE" ELSE "ENTER")
          /\ piece_busy' = (piece_busy \/ flight)
          /\ UNCHANGED <<held, call>>
    /\ UNCHANGED <<phase, lk, helper, held_suspended, left>>

\* slot_isr, whatever task runs on core1.
SlotIsr(c) ==
    /\ slot_req = c
    /\ \A d \in Callers \ {c} : at[d] \notin Uninterrupted
    /\ slot_req' = Nobody
    /\ \/ NotYet(c) /\ UNCHANGED piece_busy
       \/ Fits(c) /\ flight /\ Goes(c, "PIECE") /\ piece_busy' = TRUE /\ UNCHANGED <<held, call>>
    /\ UNCHANGED <<flight, landed, stalled, lk, helper, held_suspended, left>>

\* Mutant: the wait is over and the alarm is left set.
StopWaitingOnly(c) ==
    /\ at[c] = "ALARM" /\ Runs(c)
    /\ NotYet(c)
    /\ UNCHANGED <<phase, lk, helper, piece_busy, held_suspended, left>>

\* Past SLOT_WAITS, the alarm is cancelled with the interrupts off: it has run
\* its piece, or it will not.
StopWaiting(c) ==
    /\ at[c] = "ALARM" /\ Runs(c)
    /\ slot_req' = Nobody
    /\ NotYet(c)
    /\ UNCHANGED <<flight, landed, stalled, lk, helper, piece_busy, held_suspended, left>>

PieceStarts(c) ==
    /\ at[c] = "PIECE" /\ Runs(c)
    /\ Goes(c, "RUN")
    /\ UNCHANGED <<phase, lk, helper, piece_busy, chip, call>>

-----------------------------------------------------------------------------
(* run_piece_counted, and what the chip makes of its command. *)

\* External: a chip holding an erase programs, and takes no erase; one holding
\* a program takes neither.
Takes(h, kind) == h = Nothing \/ (h.kind = "ERASE" /\ kind = "PROGRAM")

\* flash_slot_held.
Held(resumed, suspended) == suspended \/ (held_suspended /\ ~resumed)

\* The piece ends its operation, or leaves it suspended, to be resumed or, by a
\* suspend that lands late, given up.  A resume with nothing held, and a
\* command the chip does not take, read as ended at once.
Outcomes(c) ==
    LET resume == call[c].resume
        mine == resume /\ held.of = c
        started == ~resume /\ Takes(held, call[c].kind)
        suspends == Suspends /\ (mine \/ (~resume /\ held = Nothing))
        ended == [ret |-> "OK", held |-> IF mine THEN Nothing ELSE held, done |-> call[c].done \/ mine \/ started]
        Leaves(ret, of) == [ret |-> ret, held |-> [of |-> of, kind |-> call[c].kind], done |-> FALSE]
    IN {ended} \cup (IF suspends THEN {Leaves("AGAIN", c), Leaves("FAILED", Old)} ELSE {})

Comes(c, outcome) ==
    /\ held' = outcome.held
    /\ held_suspended' = Held(call[c].resume, outcome.ret # "OK")
    /\ piece_busy' = FALSE
    /\ call' = [call EXCEPT ![c].ret = outcome.ret, ![c].done = outcome.done,
                            ![c].resume = @ \/ outcome.ret = "AGAIN"]

RunPiece(c) ==
    \E outcome \in Outcomes(c) :
        /\ at[c] = "RUN"
        /\ Comes(c, outcome)
        /\ Goes(c, IF outcome.ret = "AGAIN" THEN "NEXT" ELSE "IDLE")
        /\ UNCHANGED <<phase, lk, helper, left>>

-----------------------------------------------------------------------------
(* flash_op and ground_piece: the lockout. *)

\* Not run: a ground piece is tried again in the next slot.
TurnedDown(c) ==
    IF call[c].ground THEN Goes(c, "NEXT") /\ UNCHANGED <<held, call>> ELSE Return(c, "REFUSED")

\* A flight, or a board that says no past BOARD_WAIT_MS.
Enter(c) ==
    /\ at[c] = "ENTER" /\ Runs(c)
    /\ \/ TurnedDown(c)
       \/ ~flight /\ Goes(c, "RAISE") /\ UNCHANGED <<held, call>>
    /\ UNCHANGED <<phase, lk, helper, piece_busy, held_suspended, left>>

Raise(c) ==
    /\ at[c] = "RAISE" /\ Runs(c)
    /\ Goes(c, "CLAIM")
    /\ UNCHANGED <<phase, lk, helper, piece_busy, chip, call>>

\* Mutant: the flight is not looked at again under the lock.
ClaimUnchecked(c) ==
    /\ at[c] = "CLAIM"
    /\ lk' = "WANTED" /\ Goes(c, "NOTIFY")
    /\ UNCHANGED <<phase, helper, piece_busy, chip, call>>

Claim(c) ==
    /\ at[c] = "CLAIM"
    /\ \/ flight /\ TurnedDown(c) /\ UNCHANGED lk
       \/ ~flight /\ lk' = "WANTED" /\ Goes(c, "NOTIFY") /\ UNCHANGED <<held, call>>
    /\ UNCHANGED <<phase, helper, piece_busy, held_suspended, left>>

Notify(c) ==
    /\ at[c] = "NOTIFY"
    /\ notified' = TRUE
    /\ Goes(c, "WAIT")
    /\ UNCHANGED <<phase, lk, spinning, parked, piece_busy, chip, call>>

\* wait_state, at most PARK_WAIT_US.
Wait(c) ==
    /\ at[c] = "WAIT"
    /\ Goes(c, IF lk = "PARKED" THEN "BODY" ELSE "WITHDRAW")
    /\ UNCHANGED <<phase, lk, helper, piece_busy, chip, call>>

Withdraw(c) ==
    /\ at[c] = "WITHDRAW"
    /\ IF lk = "PARKED"
         THEN Goes(c, "BODY") /\ UNCHANGED <<lk, held, call>>
         ELSE lk' = "IDLE" /\ TurnedDown(c)
    /\ UNCHANGED <<phase, helper, piece_busy, held_suspended, left>>

\* ground_piece_body: planned again, then run.
GroundBody(c) ==
    /\ at[c] = "BODY" /\ call[c].ground
    /\ Goes(c, "RELEASE")
    /\ \/ \E outcome \in Outcomes(c) : Comes(c, outcome)
       \/ call' = [call EXCEPT ![c].ret = "AGAIN"] /\ UNCHANGED <<held, held_suspended, piece_busy>>
    /\ UNCHANGED <<phase, lk, helper, left>>

\* Mutant: only an operation's own remainder is finished.
FinishesOwn(c) == call[c].resume

\* flash_chip_finish_suspended, and do_resume_finish.
Finishes(c) == held_suspended \/ call[c].resume

\* run_direct: what the chip holds is finished first.
WholeBody(c) ==
    LET finishes == Finishes(c)
        over == IF finishes THEN Nothing ELSE held
        mine == ~call[c].resume /\ Takes(over, call[c].kind) IN
    /\ at[c] = "BODY" /\ ~call[c].ground
    /\ Goes(c, "WORK")
    /\ left' = (IF finishes THEN Duration(held.kind) ELSE 0) + (IF mine THEN Duration(call[c].kind) ELSE 0)
    /\ held' = over /\ held_suspended' = FALSE
    /\ call' = [d \in Callers |->
           [call[d] EXCEPT !.done = @ \/ (d = c /\ mine) \/ (finishes /\ held.of = d),
                           !.ret = IF d = c THEN "OK" ELSE @]]
    /\ UNCHANGED <<phase, lk, helper, piece_busy>>

WorkEnds(c) ==
    /\ at[c] = "WORK" /\ left = 0
    /\ Goes(c, "RELEASE")
    /\ UNCHANGED <<phase, lk, helper, piece_busy, chip, call>>

Release(c) ==
    /\ at[c] = "RELEASE"
    /\ lk' = "RELEASE"
    /\ Goes(c, "LOWER")
    /\ UNCHANGED <<phase, helper, piece_busy, chip, call>>

\* Once the helper has left, or past the wait for it.
Lower(c) ==
    /\ at[c] = "LOWER"
    /\ IF call[c].ret = "AGAIN" THEN Goes(c, "NEXT") /\ UNCHANGED <<held, call>> ELSE Return(c, call[c].ret)
    /\ UNCHANGED <<phase, lk, helper, piece_busy, held_suspended, left>>

-----------------------------------------------------------------------------
(* Core0: the helper, and the flight task. *)

\* helper_task, flash_op_park: a stale notification finds nothing wanted.
HelperWakes ==
    /\ notified /\ ~spinning
    /\ notified' = FALSE
    /\ spinning' = (lk = "WANTED")
    /\ lk' = IF lk = "WANTED" THEN "PARKED" ELSE lk
    /\ UNCHANGED <<phase, parked, piece_busy, chip, at, call>>

\* Mutant: the helper waits for its release however long that takes.
LeavesReleased ==
    /\ spinning
    /\ spinning' = (lk = "PARKED")
    /\ parked' = IF lk = "PARKED" THEN parked ELSE 0
    /\ lk' = IF lk = "PARKED" THEN lk ELSE "IDLE"
    /\ UNCHANGED <<phase, notified, piece_busy, chip, at, call>>

HelperLeaves ==
    /\ spinning
    /\ lk # "PARKED" \/ parked >= ParkMax
    /\ spinning' = FALSE /\ parked' = 0
    /\ lk' = "IDLE"
    /\ UNCHANGED <<phase, notified, piece_busy, chip, at, call>>

FlightBegin ==
    /\ ~flight /\ ~landed /\ ~Raised /\ ~spinning
    /\ flight' = TRUE
    /\ UNCHANGED <<landed, stalled, slot_req, lk, helper, piece_busy, chip, at, call>>

\* Waits for the piece in hand, and past PIECE_HARD_MAX_US for none: the chip
\* has stopped answering.
FlightEnd ==
    /\ flight /\ ~Raised /\ ~spinning
    /\ \/ ~piece_busy /\ UNCHANGED stalled
       \/ (\E c \in Callers : at[c] = "RUN") /\ stalled' = TRUE
    /\ flight' = FALSE /\ landed' = TRUE
    /\ UNCHANGED <<slot_req, lk, helper, piece_busy, chip, at, call>>

Tick ==
    /\ \E c \in Callers : at[c] = "WORK"
    /\ left > 0
    /\ ~(spinning /\ parked >= ParkMax)
    /\ \/ ~stalled /\ left' = left - 1 /\ UNCHANGED stalled
       \/ stalled' = TRUE /\ UNCHANGED left
    /\ parked' = IF spinning THEN parked + 1 ELSE parked
    /\ UNCHANGED <<flight, landed, slot_req, lk, notified, spinning, piece_busy, held_suspended, held, at, call>>

-----------------------------------------------------------------------------
Init ==
    /\ flight = FALSE /\ landed = FALSE
    /\ lk = "IDLE" /\ notified = FALSE /\ slot_req = Nobody
    /\ spinning = FALSE /\ parked = 0
    /\ piece_busy = FALSE /\ held_suspended = FALSE
    /\ held = Nothing /\ left = 0 /\ stalled = FALSE
    /\ at = [c \in Callers |-> "IDLE"]
    /\ call = [c \in Callers |-> Resting]

Continue(c) ==
    \/ SlotLoop(c) \/ AskAlarm(c) \/ SlotIsr(c) \/ StopWaiting(c) \/ SlotStart(c) \/ TryPiece(c) \/ PieceStarts(c) \/ RunPiece(c)
    \/ Enter(c) \/ Raise(c) \/ Claim(c) \/ Notify(c) \/ Wait(c) \/ Withdraw(c)
    \/ GroundBody(c) \/ WholeBody(c) \/ WorkEnds(c) \/ Release(c) \/ Lower(c)

Next ==
    \/ \E c \in Callers : SlotOp(c) \/ PlainOp(c) \/ SlotsSpent(c) \/ Continue(c)
    \/ HelperWakes \/ HelperLeaves \/ FlightBegin \/ FlightEnd \/ Tick

\* Core1's tasks share it by time slices; a helper that spins goes on, and no
\* promise is made that one wakes.
Fairness ==
    /\ \A c \in Callers : SF_vars(Continue(c))
    /\ WF_vars(HelperLeaves) /\ WF_vars(Tick)

Spec == Init /\ [][Next]_vars /\ Fairness

-----------------------------------------------------------------------------
TypeOK ==
    /\ {flight, landed, stalled, notified, spinning, piece_busy, held_suspended} \subseteq BOOLEAN
    /\ lk \in {"IDLE", "WANTED", "PARKED", "RELEASE"}
    /\ parked \in 0..ParkMax /\ left \in 0..(2 * Erase)
    /\ held \in [of : Callers \cup {Old}, kind : Kinds] \cup {Nothing}
    /\ at \in [Callers -> Places] /\ slot_req \in Callers \cup {Nobody}
    /\ call \in [Callers -> [kind : Kinds, resume : BOOLEAN, ground : BOOLEAN, slotted : BOOLEAN,
                             ret : {"NONE", "AGAIN", "OK", "REFUSED", "FAILED"}, done : BOOLEAN]]
    \* One lockout and one claimed piece at a time.
    /\ \A c, d \in Callers : at[c] \in RaisedAt /\ at[d] \in RaisedAt => c = d
    /\ piece_busy <=> \E c \in Callers : at[c] \in {"PIECE", "RUN"}
    /\ \A c \in Callers : slot_req = c <=> at[c] = "ALARM"

\* DD-074, FLT-RT-02: while the flash does not read, core0 spins in RAM, or its
\* flight task runs from RAM: through a withdrawn claim, a stale notification
\* and a landing, while the chip answers.
XipSafe ==
    ~stalled => \A c \in Callers :
        /\ at[c] \in {"BODY", "WORK"} => spinning
        /\ at[c] = "RUN" => flight

\* FLT-RT-03: no operation stops core0 from a flight's first period to its
\* landing, a flight that began as one was on its way in included.
NotStoppedInFlight == flight => ~spinning

\* The lockout, the claimed piece and the alarm that runs one have one owner
\* each, or none.
LockoutSound == TypeOK /\ NotStoppedInFlight

\* FLT-LOG-11: what runs whole has been carried out when it ends, its own
\* operation, taken up in flight or not, and never lost on a chip that held
\* another: what the chip holds is always known of, and finished first. And an
\* operation that returns 0 was carried out (flash_slot.h: "Runs one operation
\* to its end: 0"), by its own last piece or by the operation that found it
\* held, unless the chip holds one that was given up.
DoneIsDone ==
    /\ [](\A c \in Callers : at[c] = "WORK" => call[c].done)
    /\ [][\A c \in Callers : at[c] # "IDLE" /\ at'[c] = "IDLE" /\ call'[c].ret = "OK"
                                => call'[c].done \/ held.of = Old]_vars

\* flash_op.h: a parked helper frees core0 whatever happens, and every wait is
\* bounded, so that a whole operation returns though no helper ever parks.
LockoutEnds ==
    /\ spinning ~> ~spinning
    /\ \A c \in Callers : at[c] # "IDLE" /\ ~call[c].slotted ~> at[c] = "IDLE" \/ stalled

=============================================================================
