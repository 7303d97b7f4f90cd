--------------------------------- MODULE LuaApp ---------------------------------
(***************************************************************************)
(* A user's script: from the start that configures it, past the safe-boot     *)
(* mark, to the task on core1 that runs its ticks and the flight task on      *)
(* core0 that asks for them and may stop it (lua_app.c, lua_core1.c,          *)
(* rtos/core1_frame.c), over the pads PadClaim gave it.                       *)
(*                                                                         *)
(* Each period the flight task serves the script and then asks for a tick;    *)
(* its steps and the Lua task's come in any order.  vTaskSuspend() is taken   *)
(* to stop the Lua task at once.  Time is abstracted: a limit may have        *)
(* passed whenever the code could find it so, and the stall limit, of 200     *)
(* periods, passes only while the Lua task stands still.                      *)
(***************************************************************************)
EXTENDS PadClaim

VARIABLES
    mark,          \* LUA_BOOT_SCRATCH holds LUA_BOOT_MARK
    app,           \* starting up; launch_pending; c1_state
    script,        \* what the start read: none, one the resources do not fit, or one they do
    reset_armed,   \* a commanded restart, at the end of watchdog_reboot()'s 100 ms
    settled,       \* PH_SETTLED was reached
    flight,        \* where the flight task is in its period
    task,          \* where the Lua task is
    notified,      \* its notification
    owed, since,   \* ticks_asked - ticks_done; and since it last read ticks_asked
    busy, ready, refusal,
    watch,         \* lua_core1_service() on the heartbeat: not yet observed, moved, or the same
    high,          \* pads of the script's not left low
    died           \* history: the last start ended in a wedge with its script launched and not settled

flightVars == <<reset_armed, settled, flight>>
taskVars == <<task, notified, owed, since, busy, ready, refusal, watch, high>>
bootVars == <<script, died>>
vars == <<pinVars, claimVars, mark, app, flightVars, taskVars, bootVars>>

Scripts == {"NONE", "MISFIT", "FITS"}
Plus1(n) == IF n < 2 THEN n + 1 ELSE 2

TypeOK ==
    /\ file \in Files /\ live \in Assignments \cup {Defaults} /\ bound \in Assignments \cup {Defaults}
    /\ owner \in [Pads -> Owners] /\ ops \in [Channels -> {"REAL", "MOCK"}] /\ ScriptPads \subseteq Pads
    /\ app \in {"BOOT", "OFF", "PENDING", "RUNNING", "DEAD"} /\ script \in Scripts
    /\ {mark, reset_armed, settled, notified, busy, ready, refusal, died} \subseteq BOOLEAN
    /\ flight \in {"SERVICE", "DISPATCH", "ASK", "NOTIFY"}
    /\ task \in {"WAIT", "CHECK", "REFUSED", "LOAD", "IDLE", "WOKEN", "SLOT", "SKIP", "GO", "TICK", "DONE",
                 "LEAVE", "PARKED", "STUCK", "STOPPED"}
    /\ owed \in 0..2 /\ since \in 0..2 /\ watch \in {"NEW", "MOVED", "SAME"} /\ high \subseteq Pads

-----------------------------------------------------------------------------
(* Resets and starts.  The mark is in a scratch register: a watchdog reset   *)
(* keeps it, a power cycle does not.                                         *)

Fresh ==
    /\ reset_armed' = FALSE /\ settled' = FALSE /\ flight' = "SERVICE"
    /\ task' = "WAIT" /\ notified' = FALSE /\ owed' = 0 /\ since' = 0 /\ watch' = "NEW"
    /\ busy' = FALSE /\ ready' = FALSE /\ refusal' = FALSE /\ high' = {}

Reset ==
    /\ app # "BOOT" /\ app' = "BOOT" /\ Fresh
    /\ UNCHANGED <<pinVars, claimVars, script>>

\* The watchdog bites, of a board that wedged or that armed it for a restart.  A
\* board that wedges in the 100 ms of a restart is not told from one that does not.
Bite == /\ Reset /\ UNCHANGED mark
        /\ died' = (~reset_armed /\ app \in {"RUNNING", "DEAD"} /\ ~settled)
PowerCycle == Reset /\ mark' = FALSE /\ died' = FALSE

\* lua_app_init(), which may find Lua disabled or the baud rate unusable.
BootUp ==
    /\ app = "BOOT"
    /\ \E lua_enabled \in BOOLEAN, s \in Scripts :
        LET looks == lua_enabled /\ s # "NONE" /\ Configured(bound', owner')
        IN  /\ Boot(lua_enabled)
            /\ script' = s
            /\ app' = IF looks /\ ~mark THEN "PENDING" ELSE "OFF"
            /\ mark' = (mark /\ ~looks)
    /\ UNCHANGED <<flightVars, taskVars, died>>

\* service_reset(): the period goes on, and so do those until the reset.
Commanded ==
    /\ app # "BOOT" /\ flight = "SERVICE" /\ ~reset_armed
    /\ reset_armed' = TRUE /\ mark' = FALSE
    /\ UNCHANGED <<pinVars, claimVars, app, settled, flight, taskVars, bootVars>>

-----------------------------------------------------------------------------
(* The flight task's period: lua_app_service(), lua_app_dispatch().          *)

Serves == app # "BOOT" /\ flight = "SERVICE" /\ flight' = "DISPATCH"

\* Mutant: the mark is left to the script's first tick.
LaunchUnmarked ==
    /\ Serves /\ app = "PENDING"
    /\ app' = "RUNNING" /\ notified' = TRUE
    /\ UNCHANGED <<pinVars, claimVars, mark, reset_armed, settled, task, owed, since, busy, ready, refusal, watch, high,
                   bootVars>>

\* launch() and lua_core1_start(), once LUA_LAUNCH_DELAY_MS have gone by.
Launch ==
    /\ Serves /\ app = "PENDING"
    /\ mark' = TRUE /\ app' = "RUNNING" /\ notified' = TRUE
    /\ UNCHANGED <<pinVars, claimVars, reset_armed, settled, task, owed, since, busy, ready, refusal, watch, high,
                   bootVars>>

\* LUA_SETTLE_MS have gone by.
MaySettle == \/ mark' = mark /\ settled' = settled
             \/ mark /\ app \in {"RUNNING", "DEAD"} /\ mark' = FALSE /\ settled' = TRUE

\* Mutant: the clock is moved on at every look.
ObserveAlways == watch' = IF app = "RUNNING" THEN "MOVED" ELSE watch

Observe == watch' = IF app = "RUNNING" THEN "SAME" ELSE watch

\* Nothing to stop it for: what lua_app_service() does of a period's.
Pass ==
    /\ Serves /\ ~(app = "RUNNING" /\ refusal)
    /\ MaySettle /\ Observe
    /\ UNCHANGED <<pinVars, claimVars, app, reset_armed, task, notified, owed, since, busy, ready, refusal, high,
                   bootVars>>

\* lua_core1_kill(): the task suspended, then lua_plat_safe_outputs().
Kill ==
    /\ Serves /\ app = "RUNNING" /\ app' = "DEAD"
    /\ task' = "STOPPED" /\ high' = high \ ScriptPads
    /\ MaySettle /\ watch' \in {watch, "SAME"}
    /\ UNCHANGED <<pinVars, claimVars, reset_armed, notified, owed, since, busy, ready, refusal, bootVars>>

StandsStill == task = "STUCK"
KillRefused == refusal /\ Kill
KillStalled == (busy \/ owed > 0) /\ watch = "SAME" /\ StandsStill /\ Kill
KillSlowStart == ~ready /\ Kill
KillStack == task # "WAIT" /\ Kill

\* lua_core1_dispatch(): asks for a tick unless one is running.
Dispatch ==
    /\ flight = "DISPATCH"
    /\ flight' = IF app = "RUNNING" /\ ready /\ ~busy THEN "ASK" ELSE "SERVICE"
    /\ UNCHANGED <<pinVars, claimVars, mark, app, reset_armed, settled, taskVars, bootVars>>

\* Mutant: the task is told only of the first tick it owes.
AskOnce ==
    /\ flight = "ASK" /\ flight' = IF owed > 0 THEN "SERVICE" ELSE "NOTIFY"
    /\ owed' = Plus1(owed) /\ since' = Plus1(since)
    /\ UNCHANGED <<pinVars, claimVars, mark, app, reset_armed, settled, task, notified, busy, ready, refusal, watch,
                   high, bootVars>>

Ask ==
    /\ flight = "ASK" /\ flight' = "NOTIFY"
    /\ owed' = Plus1(owed) /\ since' = Plus1(since)
    /\ UNCHANGED <<pinVars, claimVars, mark, app, reset_armed, settled, task, notified, busy, ready, refusal, watch,
                   high, bootVars>>

Notify ==
    /\ flight = "NOTIFY" /\ flight' = "SERVICE"
    /\ notified' = TRUE
    /\ UNCHANGED <<pinVars, claimVars, mark, app, reset_armed, settled, task, owed, since, busy, ready, refusal, watch,
                   high, bootVars>>

FlightStep == Launch \/ Pass \/ KillRefused \/ KillStalled \/ KillSlowStart \/ KillStack \/ Dispatch \/ Ask \/ Notify

-----------------------------------------------------------------------------
(* The Lua task.  It reads ticks_asked and then writes it to ticks_done.     *)

Lua(from, to) ==
    /\ task = from /\ task' = to
    /\ UNCHANGED <<pinVars, claimVars, mark, app, flightVars, bootVars>>

Started == app \in {"RUNNING", "DEAD"}

Begin == /\ Lua("WAIT", "CHECK") /\ Started
         /\ notified' \in {FALSE, notified}
         /\ UNCHANGED <<owed, since, busy, ready, refusal, watch, high>>

\* script_matches_resources(), then the VM and the script's own start.
Check == /\ Lua("CHECK", IF script = "FITS" THEN "LOAD" ELSE "REFUSED")
         /\ refusal' = (script # "FITS")
         /\ UNCHANGED <<notified, owed, since, busy, ready, watch, high>>
Refuse == /\ Lua("REFUSED", "PARKED")
          /\ ready' = TRUE
          /\ UNCHANGED <<notified, owed, since, busy, refusal, watch, high>>
Load == /\ Lua("LOAD", "IDLE")
        /\ ready' = TRUE /\ high' \in {{}, ScriptPads}
        /\ UNCHANGED <<notified, owed, since, busy, refusal, watch>>

\* ulTaskNotifyTake(), in the loop and, for a script refused, for good.
Take == /\ Lua("IDLE", "WOKEN") \/ Lua("PARKED", "PARKED")
        /\ notified /\ notified' = FALSE
        /\ UNCHANGED <<owed, since, busy, ready, refusal, watch, high>>
Look == /\ Lua("WOKEN", IF owed = 0 THEN "IDLE" ELSE "SLOT")
        /\ UNCHANGED <<notified, owed, since, busy, ready, refusal, watch, high>>

\* core1_frame_lua_slot(): waits for the writer's word or the slot's end, and
\* takes a notification of either kind meanwhile; too late, the tick is skipped.
SlotTake == /\ Lua("SLOT", "SLOT") /\ notified /\ notified' = FALSE
            /\ UNCHANGED <<owed, since, busy, ready, refusal, watch, high>>
SlotOver == /\ Lua("SLOT", "GO") \/ Lua("SLOT", "SKIP")
            /\ since' = IF task' = "SKIP" THEN 0 ELSE since
            /\ UNCHANGED <<notified, owed, busy, ready, refusal, watch, high>>
Skip == /\ Lua("SKIP", "IDLE")
        /\ owed' = since
        /\ UNCHANGED <<notified, since, busy, ready, refusal, watch, high>>

Go == /\ Lua("GO", "TICK")
      /\ busy' = TRUE /\ watch' = IF watch = "SAME" THEN "MOVED" ELSE watch
      /\ UNCHANGED <<notified, owed, since, ready, refusal, high>>
Tick == /\ Lua("TICK", "DONE")
        /\ high' \in {{}, ScriptPads} /\ since' = 0
        /\ UNCHANGED <<notified, owed, busy, ready, refusal, watch>>
Done == /\ Lua("DONE", "LEAVE")
        /\ owed' = since
        /\ UNCHANGED <<notified, since, busy, ready, refusal, watch, high>>
Leave == /\ Lua("LEAVE", "IDLE")
         /\ busy' = FALSE
         /\ UNCHANGED <<notified, owed, since, ready, refusal, watch, high>>

\* A script may stop coming back, where the instruction hook does not reach.
GetStuck == /\ Lua("LOAD", "STUCK") \/ Lua("TICK", "STUCK")
            /\ high' \in {high, ScriptPads}
            /\ UNCHANGED <<notified, owed, since, busy, ready, refusal, watch>>

\* core1_frame_writer_done(), whose word may come when Lua has gone on.
WriterDone == /\ task \in {"SLOT", "SKIP", "GO", "TICK"}
              /\ notified' = TRUE
              /\ UNCHANGED <<pinVars, claimVars, mark, app, flightVars, bootVars, task, owed, since, busy, ready,
                             refusal, watch, high>>

LuaStep == Begin \/ Check \/ Refuse \/ Load \/ Take \/ Look \/ SlotTake \/ SlotOver \/ Skip \/ Go \/ Tick \/ Done
           \/ Leave

-----------------------------------------------------------------------------
Init ==
    /\ file \in Files /\ live = Defaults /\ bound = Defaults
    /\ owner = OwnerOf(Defaults) /\ ops = OpsOf(owner) /\ resources = {}
    /\ mark = FALSE /\ app = "BOOT" /\ script = "NONE" /\ died = FALSE
    /\ reset_armed = FALSE /\ settled = FALSE /\ flight = "SERVICE"
    /\ task = "WAIT" /\ notified = FALSE /\ owed = 0 /\ since = 0 /\ watch = "NEW"
    /\ busy = FALSE /\ ready = FALSE /\ refusal = FALSE /\ high = {}

PostPins == app # "BOOT" /\ Post /\ UNCHANGED <<mark, app, flightVars, taskVars, bootVars>>

Next == Bite \/ PowerCycle \/ BootUp \/ Commanded \/ PostPins \/ FlightStep \/ LuaStep \/ GetStuck
        \/ WriterDone

Fairness == /\ WF_vars(FlightStep) /\ WF_vars(LuaStep) /\ WF_vars(BootUp)
            /\ SF_vars(KillStalled) /\ SF_vars(KillSlowStart)

Spec == Init /\ [][Next]_vars /\ Fairness

-----------------------------------------------------------------------------
\* Of what a start bound, every pad has one holder, whatever was posted since and
\* whatever the file held: no resource of a script's reaches the firing path of a channel that
\* can fire, the buzzer's pad or the switch's; a retained channel is never left
\* mocked; a released one can fire only if the operator gave its own pad to the
\* buzzer or the switch; and a script that was stopped leaves no pad high
\* (pad_claim.h, pyro_release.c, lua_plat_safe_outputs).
PadsKept ==
    /\ \A c \in Channels : ops[c] = "REAL" => FiringPads(c) \cap ScriptPads = {}
    /\ SwitchAndBuzzer \cap ScriptPads = {}
    /\ \A c \in Channels \ bound.released : OwnPads(c) # {} => ops[c] = "REAL"
    /\ \A c \in bound.released : ops[c] = "REAL" => OwnPads(c) \subseteq SwitchAndBuzzer
    /\ app = "DEAD" => high = {}

\* A tick asked for is never slept on: the Lua task waiting in its loop with one
\* owed has been notified, or is about to be, whatever its slot took and wherever
\* its copying of ticks_asked fell (lua_core1_dispatch, lua_task).
NoTickLost == task = "IDLE" /\ owed > 0 => notified \/ flight = "NOTIFY"

\* A script whose start the board did not survive is not run by the next
\* (the safe boot of lua_app.c).
NeverTwice == died => app \in {"BOOT", "OFF"}

\* A script that stops coming back is stopped, in a tick or while it starts.
StuckIsStopped == task = "STUCK" ~> task # "STUCK"
=============================================================================
