--------------------------------- MODULE Update --------------------------------
(***************************************************************************)
(* A firmware update over HTTP (http_server.c), the commit of a new image     *)
(* (storage_task.c, hal_common.c, board_selftest.c), the reboot it asks for   *)
(* and the watchdog (main_hardware.c, rtos_tasks.c).                          *)
(*                                                                         *)
(* The bootloader is external (pico_fota_bootloader): an image marked valid   *)
(* is swapped in at the next reset, on trial; a reset that finds a trial not  *)
(* committed swaps back.  An image is what it does when run and whether all   *)
(* of it is there.  Power may fail at any step, and a flash operation may be  *)
(* refused at any time; in flight it always is.                               *)
(***************************************************************************)
EXTENDS Naturals

CONSTANTS
    Sectors,     \* sectors of an image
    Stall,       \* STORAGE_STALL_MS, in periods
    Watchdog     \* periods unfed at which the watchdog bites

ASSUME UpdateConstants == {Sectors, Stall, Watchdog} \subseteq Nat \ {0}

VARIABLES
    run, download,       \* the two slots
    valid, rollback,     \* the bootloader's marks: the download slot may be swapped in; the run slot is on trial
    after_update,        \* this start is the first after an update
    ota,                 \* ota_conn's transfer
    turned, committed,   \* COMMIT_PERIODS have gone by; the storage task has done its commit
    pending_reset, reset_armed,
    storage, silent,     \* the storage task runs or is stuck; periods since its check-in
    unfed,               \* periods since the watchdog was fed
    flight, logging,     \* the start's one flight: ahead, under way or over; hal_log_active
    unmarked             \* history: a transfer wrote where its mark had been refused

slots == <<run, download>>
marks == <<valid, rollback, after_update>>
commits == <<turned, committed>>
resets == <<pending_reset, reset_armed>>
dog == <<storage, silent, unfed>>
flights == <<flight, logging>>
updateVars == <<slots, marks, ota, commits, resets, dog, flights, unmarked>>

-----------------------------------------------------------------------------
Kinds == {"GOOD", "CRASHES", "OTHER_BOARD"}
Image == [kind: Kinds, whole: BOOLEAN, kept: {"NO", "PROVEN", "BEGUN"}]
NoTransfer == [at |-> "NONE", kind |-> "GOOD", failed |-> FALSE, written |-> 0]

\* The bootloader, and the firmware's RAM as a start finds it.
Restart ==
    /\ IF rollback \/ valid THEN run' = download /\ download' = run ELSE UNCHANGED slots
    /\ valid' = FALSE
    /\ rollback' = (valid /\ ~rollback)
    /\ after_update' = (valid /\ ~rollback)
    /\ ota' = NoTransfer
    /\ turned' = FALSE /\ committed' = FALSE
    /\ pending_reset' = FALSE /\ reset_armed' = FALSE
    /\ storage' = "WELL" /\ silent' = 0 /\ unfed' = 0
    /\ flight' = "AHEAD" /\ logging' = FALSE
    /\ UNCHANGED unmarked

PowerCut == Restart

\* An image that does not reach normal operation.
Crashes == (run.kind = "CRASHES" \/ ~run.whole) /\ ~turned /\ Restart

Running == run.whole
flying == flight = "FLYING"     \* flash_op_in_flight

-----------------------------------------------------------------------------
(* The transfer *)

\* route_post: one at a time, refused with 409 while another has ota_conn.
OtaBegin ==
    /\ Running /\ ota.at = "NONE"
    /\ \E k \in Kinds : ota' = [at |-> "HEAD", kind |-> k, failed |-> FALSE, written |-> 0]
    /\ UNCHANGED <<slots, marks, commits, resets, dog, flights, unmarked>>

\* Mutant: the image on trial is left so when its rollback is written over.
OtaMarkOnly ==
    /\ ota.at = "HEAD"
    /\ \/ /\ ~flying
          /\ valid' = FALSE
          /\ ota' = [ota EXCEPT !.at = "BODY"]
       \/ /\ ota' = [ota EXCEPT !.at = "BODY", !.failed = TRUE]
          /\ UNCHANGED valid
    /\ UNCHANGED <<slots, rollback, after_update, commits, resets, dog, flights, unmarked>>

\* The first of the body: pfb_begin_op commits the image that runs, proven or
\* not, and marks the download slot invalid.  Refused, the transfer
\* has failed, and goes on.
OtaMark ==
    /\ ota.at = "HEAD"
    /\ \/ /\ ~flying
          /\ valid' = FALSE /\ rollback' = FALSE
          /\ run' = IF run.kept = "NO" THEN [run EXCEPT !.kept = "BEGUN"] ELSE run
          /\ ota' = [ota EXCEPT !.at = "BODY"]
       \/ /\ ota' = [ota EXCEPT !.at = "BODY", !.failed = TRUE]
          /\ UNCHANGED <<run, valid, rollback>>
    /\ UNCHANGED <<download, after_update, commits, resets, dog, flights, unmarked>>

Aborted == [ota EXCEPT !.at = "REPLY", !.failed = TRUE]

\* ota_flush: an erase and a program.  Either refused, the transfer is answered
\* 500.  Over a slot still marked, or that a trial would go back to, only when
\* the mark was refused (unmarked).
OtaSector ==
    /\ ota.at = "BODY" /\ ota.written < Sectors
    /\ \/ /\ ~flying
          /\ unmarked' = (unmarked \/ valid \/ rollback)
          /\ \E done \in BOOLEAN :
                 /\ download' = [kind |-> ota.kind, kept |-> "NO",
                                 whole |-> done /\ ota.written + 1 = Sectors]
                 /\ ota' = IF done THEN [ota EXCEPT !.written = @ + 1] ELSE Aborted
       \/ ota' = Aborted /\ UNCHANGED <<download, unmarked>>
    /\ UNCHANGED <<run, marks, commits, resets, dog, flights>>

\* on_complete: marked valid only when every step of it was done.
OtaComplete ==
    /\ ota.at = "BODY" /\ ota.written = Sectors
    /\ \/ /\ ~ota.failed /\ ~flying
          /\ valid' = TRUE
          /\ ota' = [ota EXCEPT !.at = "REPLY"]
       \/ ota' = Aborted /\ UNCHANGED valid
    /\ UNCHANGED <<slots, rollback, after_update, commits, resets, dog, flights, unmarked>>

\* conn_release: with the answer sent, or the link lost.  A board that said it
\* reboots does.
OtaRelease ==
    /\ ota.at /= "NONE"
    /\ pending_reset' = (pending_reset \/ (ota.at = "REPLY" /\ ~ota.failed))
    /\ ota' = NoTransfer
    /\ UNCHANGED <<slots, marks, commits, reset_armed, dog, flights, unmarked>>

-----------------------------------------------------------------------------
(* The commit *)

\* loop_count reaches COMMIT_PERIODS.
Turns ==
    /\ Running /\ run.kind /= "CRASHES" /\ ~turned
    /\ turned' = TRUE
    /\ UNCHANGED <<slots, marks, ota, committed, resets, dog, flights, unmarked>>

\* board_selftest_action: another board's image on trial asks for the reboot
\* that rolls it back.
RollBack ==
    /\ run.kind = "OTHER_BOARD" /\ after_update
    /\ committed' = TRUE /\ pending_reset' = TRUE
    /\ UNCHANGED <<run, rollback>>

\* Refused, it is tried again.
Commits ==
    /\ run.kind /= "OTHER_BOARD"
    /\ UNCHANGED pending_reset
    /\ \/ committed' = TRUE /\ ~after_update /\ UNCHANGED <<run, rollback>>
       \/ /\ after_update /\ ~flying
          /\ committed' = TRUE /\ rollback' = FALSE
          /\ run' = [run EXCEPT !.kept = "PROVEN"]

Refuses ==
    /\ run.kind = "OTHER_BOARD" /\ ~after_update
    /\ committed' = TRUE
    /\ UNCHANGED <<run, rollback, pending_reset>>

FirmwareCommit ==
    /\ Running /\ turned /\ ~committed /\ storage = "WELL"
    /\ RollBack \/ Commits \/ Refuses
    /\ UNCHANGED <<download, valid, after_update, ota, turned, reset_armed, dog, flights, unmarked>>

-----------------------------------------------------------------------------
(* The flight task's period, and the watchdog *)

Sooner(x, y) == IF x < y THEN x ELSE y

\* storage_alive, then the feed, then service_reset: a reboot asked for in
\* flight waits for landing, and one armed is armed once.
Alive == silent < Stall

\* Mutant: the watchdog is fed while the reboot it was armed for counts down.
PeriodFeeds ==
    /\ Running /\ unfed < Watchdog
    /\ silent' = IF storage = "WELL" THEN 0 ELSE Sooner(silent + 1, Stall)
    /\ unfed' = IF Alive \/ logging THEN 0 ELSE unfed + 1
    /\ reset_armed' = (reset_armed \/ (pending_reset /\ ~flying))
    /\ UNCHANGED <<slots, marks, ota, commits, pending_reset, storage, flights, unmarked>>

Period ==
    /\ Running /\ unfed < Watchdog
    /\ silent' = IF storage = "WELL" THEN 0 ELSE Sooner(silent + 1, Stall)
    /\ unfed' = IF ~reset_armed /\ (Alive \/ logging) THEN 0 ELSE unfed + 1
    /\ reset_armed' = (reset_armed \/ (pending_reset /\ ~flying))
    /\ UNCHANGED <<slots, marks, ota, commits, pending_reset, storage, flights, unmarked>>

Bites == unfed = Watchdog /\ Restart

\* The storage task is stuck, or held up and goes on.
Sticks ==
    /\ Running /\ storage = "WELL"
    /\ storage' = "STUCK"
    /\ UNCHANGED <<slots, marks, ota, commits, resets, silent, unfed, flights, unmarked>>

GoesOn ==
    /\ storage = "STUCK"
    /\ storage' = "WELL"
    /\ UNCHANGED <<slots, marks, ota, commits, resets, silent, unfed, flights, unmarked>>

\* In a period of the flight task's.
Launch ==
    /\ Running /\ unfed < Watchdog
    /\ flight = "AHEAD" /\ run.kind = "GOOD"
    /\ flight' = "FLYING" /\ logging' = TRUE
    /\ UNCHANGED <<slots, marks, ota, commits, resets, dog, unmarked>>

Land ==
    /\ flying
    /\ flight' = "OVER"
    /\ UNCHANGED <<slots, marks, ota, commits, resets, dog, logging, unmarked>>

\* The storage task stores what is left of the log, and it is over.
LogEnds ==
    /\ logging /\ ~flying /\ storage = "WELL"
    /\ logging' = FALSE
    /\ UNCHANGED <<slots, marks, ota, commits, resets, dog, flight, unmarked>>

-----------------------------------------------------------------------------
UpdateInit ==
    /\ run = [kind |-> "GOOD", whole |-> TRUE, kept |-> "PROVEN"]
    /\ download = [kind |-> "GOOD", whole |-> FALSE, kept |-> "NO"]
    /\ valid = FALSE /\ rollback = FALSE /\ after_update = FALSE
    /\ ota = NoTransfer
    /\ turned = FALSE /\ committed = FALSE
    /\ pending_reset = FALSE /\ reset_armed = FALSE
    /\ storage = "WELL" /\ silent = 0 /\ unfed = 0
    /\ flight = "AHEAD" /\ logging = FALSE
    /\ unmarked = FALSE

UpdateNext ==
    \/ OtaBegin \/ OtaMark \/ OtaSector \/ OtaComplete \/ OtaRelease
    \/ Turns \/ FirmwareCommit
    \/ Period \/ Bites \/ Sticks \/ GoesOn
    \/ Launch \/ Land \/ LogEnds
    \/ Crashes \/ PowerCut

\* The tasks run, what flies lands and what is sent arrives or is lost; a
\* commit tried again and again is done at last.
UpdateFairness ==
    /\ WF_updateVars(Period) /\ WF_updateVars(Bites) /\ WF_updateVars(Turns) /\ WF_updateVars(Crashes)
    /\ WF_updateVars(OtaRelease) /\ WF_updateVars(Land) /\ WF_updateVars(LogEnds)
    /\ SF_updateVars(FirmwareCommit /\ committed')

UpdateSpec == UpdateInit /\ [][UpdateNext]_updateVars /\ UpdateFairness

-----------------------------------------------------------------------------
(* Properties *)

UpdateTypeOK ==
    /\ {run, download} \subseteq Image
    /\ {valid, rollback, after_update, turned, committed, pending_reset, reset_armed,
        logging, unmarked} \subseteq BOOLEAN
    /\ ota \in [at: {"NONE", "HEAD", "BODY", "REPLY"}, kind: Kinds, failed: BOOLEAN,
                written: 0 .. Sectors]
    /\ flight \in {"AHEAD", "FLYING", "OVER"}
    /\ storage \in {"WELL", "STUCK"} /\ silent \in 0 .. Stall /\ unfed \in 0 .. Watchdog

\* The image that runs is whole, and so is any the bootloader may put in its
\* place, however a transfer fails, is cut or is begun again on trial
\* (OTA-04, OTA-07) -- but for a transfer that went on when its mark was
\* refused.  And an image is kept once it has run, or a new update was begun
\* on it; one that only crashes, or is another board's, never on its own
\* account (OTA-03, OTA-05).
ImagesSound ==
    /\ UpdateTypeOK
    /\ ~(valid /\ rollback)
    /\ unmarked \/ (run.whole /\ (valid \/ rollback => download.whole))
    /\ rollback \/ run.kept /= "NO" \/ unmarked
    /\ \A i \in {run, download} : i.kept = "PROVEN" => i.kind = "GOOD"

\* What is marked is tried; a trial ends, kept or put back; a storage task
\* stuck on the ground is reset, and one stuck in flight resets nothing: only
\* a reboot already asked for does (main_hardware.c, storage_task.c).  A log
\* that a stuck task cannot end keeps the watchdog fed.
Settles ==
    /\ valid ~> ~valid
    /\ rollback ~> (~rollback \/ (logging /\ storage = "STUCK") \/ unmarked)
    /\ (storage = "STUCK" /\ ~logging) ~> (storage = "WELL" \/ logging)
    /\ [][Bites => (~logging \/ reset_armed)]_updateVars
=============================================================================
