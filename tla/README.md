# pyro_fw: formal specification

TLA+ modules of the flight firmware in this repository, the TLC configurations
that check them on small instances, and TLAPS proofs for every value of the
constants. The code under `src/` is the reference: each definition names, in
`PROJECT.json`'s `map`, the lines it stands for.

Run anything from this directory: `tlc -config X.cfg MCX`, `tlapm XProofs.tla`.

## 1. The system

A rocket's altimeter on an RP2040: two cores under FreeRTOS, one barometer, two
pyro channels, one QSPI flash that holds both the code and the files.

| Component | State it keeps | Operations | Talks to |
|---|---|---|---|
| Fire control (`fire_control.c`, `flight_descent.c`, `boards/*/pyro_board.c`) | per channel: fired, pulse start and end; which channel is active; the board's running pulse | one step per sample, or per loop with none; the pulse's delivery; the board's update each loop | reads the flight's believed state, drives the board |
| Flight call (`rtos/rtos_tasks.c`) | a mailbox: state, function; a mutex; a semaphore | `flight_call` from any task, `flight_call_service` in the flight task | network, storage and Lua tasks call into the flight task |
| Flight state machine (`flight_*.c`) | state, arming and apogee flags, pad reference, USB and test mode | a detector per state, an action per entry; USB and test-mode hand-overs | log, fire control, pad record, ground test |
| Pad record (`flight_outputs.c`, `flight_resume.c`) | one file; `record_written`, `record_cleared` | kept 10 s into the pad, cleared after a flight and on the bench, read at boot | storage task writes it from the flight task's state, with no lock |
| Flash operations (`flash_op.c`) | the lockout, its helper, `flight`, `piece_busy`, `held_suspended` | whole operations under a lockout of core0; pieces in flight; a flight's begin and end | storage and net tasks call, core0's helper and flight task answer |
| Slots (`flash_slot.c`, `flash_timing.c`) | the piece being tried | plan, try, run in slots | the chip, core1's frame |
| Flight log (`hal_common.c`, `log_pad_ring.c`) | a ring with a head and a tail on different cores, the opening rows, timers | start, sample, text, stop; a service pass | flight task fills, storage task empties to a file or to `log_live.c` |
| Filesystem (`vfs*.c`, `fs_flash.c`, `hal_common.c`) | files, a mutex, a count of handles, writers whose close failed, cached copies | open, read, write, close, rename, remove, clean; whole-file writes and cached reads | storage, net and Lua tasks; alfs, which is not in the tree |
| HTTP server (`http_server.c`, `http_conn.c`, `http_transport.c`, `http_work.c`) | links, a few exchanges lent to them, a queue of work, one upload per exchange, one firmware transfer | connect, a transport pass, attach, a unit of work, release | the USB network's TCP stack; the files; the log, which takes the files from it |
| Live log (`log_live.c`) | a ring and its head | write, read by offset | the storage task writes, the net task reads |
| Firmware update (`http_server.c`, `storage_task.c`, `board_selftest.c`) | the transfer, two image slots and the bootloader's marks, a reboot asked for | begin, mark, sector, complete; commit or roll back | the bootloader library; the flash; the watchdog's reboot |
| Pressure collector (`pressure_collector.c`, `collector_bus.h`) | the interrupt machine's place in a cycle, a queue of cycles | an alarm's interrupt for every step of a conversion and of a recovery; taking, from the task | the sensor's bus; the flight task on the same core, under a hold-off |
| Pressure processing (`pressure_processing.c`, estimators) | waiting samples, the filters | process each cycle taken, estimate | takes from the collector, feeds the state machine |
| Pyro boards (`boards/mk1a`, `mk1b`, `mk1c`, `reference`) | the pulse or the sequence's step, the check or presence test, the outputs, latched faults | init, fire, update each loop, a channel's verdict; MK1C's alarm interrupt | fire control and ground test order, `board_flash_ok` answers the flash |
| Ground test (`ground_test_*.c`, `flight_ground_test.c`) | the switch's last reads, the phase, debounce, armed | read the switch, one step of the procedure per loop, fire on command | the boards, the buzzer, fire control's record of pulses |
| Pads (`pin_assign.c`, `pin_store.c`, `pad_claim.c`, `pyro_release.c`) | the assignment in a file and in RAM, each pad's owner, each channel's operations | load and claim at a start; a post, for the next | the boards and the buzzer take what is retained, Lua what is not |
| Lua scripts (`lua_app.c`, `lua_core1.c`, `core1_frame.c`) | a mark that outlives a reset, ticks asked and done, the task's state and heartbeat | launch, ask for a tick, run it in a slot, stop the task and put its pads down | the flight task asks and stops, a task on core1 runs |
| USB network, SD, buzzer, configuration | see `PROJECT.json` components | | |

What is hard in it: two cores with no lock between a ring's ends; flash that
stops being readable while it is written, under a core that executes from it;
time-outs that race their answer; a restart at any instant of a flight, with
one file of memory; subtractions of unsigned times from two clocks; a chip that
may keep an operation suspended after everyone has forgotten it; a file store
whose failed writers can be let go only by a mount that forgets every handle;
more peers than exchanges, each of which may stop half-way; a new firmware that
is written over the one a failed trial would go back to.

What makes each component right:

- **Fire control**: a pulse is never ordered while one runs, the two channels
  keep their quiet gap, a delay counts in full, re-fires keep their interval,
  and neither channel starves the other.
- **Flight call**: a function runs at most once per call, its caller is told
  what became of it, no call hangs, nothing in flash runs in a flight.
- **State machine and pad record**: a restart rejoins the flight against its own
  pad; apogee is declared once the rocket has armed and the user's lockout has
  run; a board left alone comes to hold a record, and one that has landed comes
  to hold none.
- **Flash**: core0 never fetches from a flash that does not read, is never
  stopped in flight, and is freed whatever its caller does; an operation the
  chip holds is known to, and finished before the next.
- **Flight log**: rows reach the file whole, once and in order; what is missing
  is counted; a stopped log gives the filesystem back; a power loss costs a
  bounded time.
- **Ground test and pyro boards**: each fire has been counted down to, aborted
  tests and second channels included; the pulse asked for is delivered, alone
  and after the gap; a channel's verdict is never older than its fire; a fault
  is never the board's own charge; an armed test comes to its end.
- **Pressure collector**: a cycle is whole and of one attempt; cycles are taken
  in order and once, and only the oldest are dropped; a conversion is read once
  and when it is over; whatever the bus does, samples come again.
- **HTTP server**: a connection closed cleanly has carried the whole answer,
  whatever was sent again; an exchange is lent to one peer and takes nothing of
  the last one's with it; the log has the files within a pass; a peer that
  waits is served or gone.
- **Files**: a file that was there reads as one whole content, the last
  acknowledged or one tried since; a first write that is cut short reads as far
  as it got; no handle is forgotten; the cached copy the flight task reads is
  never torn; a store that lost its mount comes back.
- **Live log**: each byte a host is given is the log's at that offset.
- **Firmware update**: what runs, and what may be put in its place, is whole; a
  trial ends; a stuck board on the ground is reset, one in flight is not.
- **Pads and scripts**: of what a start bound a pad has one holder, whatever was
  posted before it and is posted after; a script that takes the board down is
  not run by the next start; a tick asked for is not slept on; a script that
  stops coming back is stopped, its pads low.

## 2. Modules

| Module | What it is |
|---|---|
| `FireControl`, `MCFireControl` | The fire rules, the delivery of a pulse and the board that ends it |
| `FireControlProofs` | TLAPS: type correctness and six safety properties, the longest wait among them |
| `CallOnce` | What `flight_call` promises its caller |
| `FlightCall`, `MCFlightCall` | The mailbox, step by step, implementing `CallOnce` |
| `FlightStates`, `MCFlightStates` | The state machine, the pad record, restarts |
| `FlightTaskProofs` | TLAPS: of `FlightStates` what the record tells, and that apogee is declared; of `FlightCall` type correctness, the flash rule, the refinement |
| `FlashOp`, `MCFlashOp` | The lockout, the pieces in flight, the chip |
| `SwitchedBoard` | A pyro board with a switched high side per channel: MK1A, MK1B |
| `SequencedBoard` | MK1C: the pump, the gates, the presence test, the faults |
| `GroundTest`, `MCGroundTest` | The ground test, composed with the board that fires |
| `GroundTestProofs` | TLAPS: the boards' pulses, their verdicts, and that each fire was asked for, on any board |
| `PressureCollector`, `MCPressureCollector` | The sensor's interrupt machine, its queue, its recovery of the bus |
| `FlashSensorProofs` | TLAPS: of `FlashOp` the lockout's owner, that core0 never fetches from a flash that does not read, and that what ended well was done; of `PressureCollector` type correctness, the queue's order, the taking, and how the part and its bus are used |
| `FlightRecord` | What the flight log promises |
| `FlightLog`, `MCFlightLog` | The ring and the writer, implementing `FlightRecord` |
| `FlightLogProofs` | TLAPS: the file is the rows in order, the refinement, and what a power loss leaves |
| `LogLive` | The live ring, written and read byte by byte |
| `HttpExchange` | One request and its answer, as pure operators |
| `HttpLinks`, `MCHttpLinks` | The links, the exchanges lent to them, their work in turn |
| `HttpProofs` | TLAPS: of the links the lending, the FIN behind the answer, the log's claim; of `Update` that the images are sound |
| `FlashStore` | The file store over alfs, each call an operator on a record |
| `Files`, `MCFiles` | Uploads, readers, whole-file writes and the cached copy, over `FlashStore` |
| `FilesProofs` | TLAPS: of `Files` type correctness, that no handle is forgotten, what a file reads as, and what the cached copy tells |
| `Update` | A firmware transfer, the trial of the image, the watchdog |
| `PinAssign` | The rules an assignment of the pads must keep, as pure operators |
| `PadClaim` | What a start makes of the file: owners, channels' operations, resources; a post |
| `LuaApp`, `MCLuaApp` | A script and the two tasks it runs between, over `PadClaim` |
| `LuaAppProofs` | TLAPS: the pads are kept, no tick is slept on, no script that killed a start runs again |

Conventions. A variable keeps the code's name where it stands for one of the
code's. Variables the code does not have are history, declared apart and used
by properties only. An action is one handler, or what one task does between two
accesses that another may change. A definition preceded by a comment that begins
"Mutant:" is a plausible bug, in no specification; it is what shows that a
property can fail.

### FireControl

One unit of time is one period of the flight loop. A loop either runs the rules
on each waiting sample, at the sample's stamp (`SampleStep`), or once at the
loop's own time (`NoSampleStep`); `EndLoop` is the board's update, which ends a
pulse between `PulseMin` and `PulseMax` loops. Since a sample's stamp may be up
to `MaxLag` loops old, the rules' time can step back, and `Since` is the
unsigned subtraction that results. Believed heights and speeds are replaced by
the set of triggers a reading meets, chosen freely, so the charge guard's answer
is covered and not modelled.

### FlightCall

Callers go through the labels of `flight_call`: take the mutex, post, pend, stop
waiting, settle, wait until done, clear, give. The flight task's period may
turn a flight on at its start (`Period`) and then serves the mailbox. Each
spin-locked block is one step. `CallOnce` has one variable, what became of each
caller's newest call.

### FlightStates

The rocket's motion is an environment that moves through seven stretches; the
estimators' verdicts follow the motion, and readings against the wrong ground
are free. Each flight-task step is an action; the storage task's pass is split
at every point where the flight task may come between (`KeepDue`, `KeepMark`,
`KeepFill`, `WriteRecord`). `Restart` may come anywhere: RAM is lost and the
record stays. `locked` is the user's `apogee_lockout`, which a launch or a resume
starts and some sample finds run out, or none does.

### FlashOp

Callers are core1's tasks. `at[c]` is where a caller is in `slot_op`, the slot
loop, or `locked_out`; the helper and the flight's begin and end are core0's. A
task raised to T keeps every other at P from running, on both cores (`Runs`,
and the guards of `FlightBegin` and `FlightEnd`). The chip takes no erase while
it holds one. A flight's end waits for a piece under way, up to
`PIECE_HARD_MAX_US`: past that the chip has stopped answering (`stalled`). Time is
counted only while an operation runs whole.

### FlightLog

A row is two units of the ring, so that a write may be cut inside one. The
flight task's `Put` fills, `Publish` moves the head. A pass of the storage task
is a chain of places from `PassBegins` to `PassOver`, a place for each access
the flight task may come before: the head is read once, the ring is copied
before the tail moves. A write may take any part of what it is given, or none.
Whether the filesystem does its work (`well`) is chosen once, at the start: what
a power loss takes is bounded only where it does.

### LogLive

A byte is its offset in the log, so a reader's mistake shows in what it took.
`WriteByte` and `ReadByte` are one byte of a `memcpy`: the two tasks share a core
and a priority, and the tick may switch between them anywhere.

### HttpExchange, HttpLinks

The net task's loop is a chain of places `pc`: it takes frames (`AtNet`, where
the peers and the TCP stack act), passes over the links (`Pass`), attaches free
exchanges to the peers that wait (`Attach`), and runs a few units of work
(`Work`), one exchange after another. An exchange's step is `HttpExchange`'s
`Serviced`: the set of records that one call of `http_conn_service` may leave,
over every route and every way it ends, requests with a body that nobody asked
for (`Awaits`) and the 100 Continue before one (`Invited`) among them. TCP is
external: in-order bytes, one segment in flight, acknowledged in part, sent
again or given up; the FIN goes behind what `tx_queued` shows. A link may be
late only if no byte has moved.

### FlashStore, Files

A store is a record; a call is an operator from a store to the results it may
have, under the store's lock. alfs is external: one writer per name, its new copy
takes the old one's place when it closes, a mount closes everything. What
`vfs_flash.c` adds is its own: the count `held`, the writers whose close failed
and the mount that lets them go. A copy that a reset or its own failure left
open reads as far as it was written, where no closed one stands (`ReadsAs`). In
`Files` each call of an upload, a reader or
a whole-file write is an action, and a reset may come between two of them and
inside a rename (`RenameReaches`). The cached copy is stored and read in three
pieces under its sequence count.

### Update

An image is what it does when run and whether all of it is there. The
bootloader is external: an image marked valid is swapped in at the next reset,
on trial; a reset that finds a trial not committed swaps back. `OtaMark` is
`pfb_begin_op`, which commits the image that runs before the first erase.
Periods feed the watchdog while the storage task checks in, or while a log is
active, and stop once a reboot is armed. `kept` and `unmarked` are history.

### GroundTest, SwitchedBoard, SequencedBoard

A loop is three steps: time passes and the wire changes (`Wait`), the switch is
read and the detector runs (`Step`), the board's update runs (`Update`); MK1C's
interrupt (`Interrupt`) comes between any two of them. The two boards are
modules of their own, instantiated over `GroundTest`'s variables; `PyroFire`,
`PyroUpdate` and the others choose the board as the build does. A reading is
whether it was taken before or after its channel's newest fire, which is what a
verdict can get wrong; MK1B's reading is the one under the low side, since its
short reading stands across a fire on purpose. MK1C's bus has four levels, the
ones its thresholds tell apart, and a switch that may have failed closed from the
start. Times are ages kept up to the bound they are compared with, so that runs
are endless and states finite; the turn of the 32-bit clock is left out.

### PressureCollector

The alarm's interrupt is one step per state (`AfterCommand`, `AfterRead`,
`CommandAgain`, `ClearStep`, `AfterReset`), and is taken when the alarm is up
and let in. What the task does in `collector_take` is three steps, `HoldOff`,
`CopyOldest` and `LetIn`, between which the interrupt would come were it let in.
A transfer's end is chosen as it is queued: the handler looks at it only after
its time. A slot's bytes are the number of the cycle they are of, or `Stale`, so
that a cycle of two attempts, one taken twice or one passed over is seen. The
part and its bus can fail in three ways (a held data line, a hung controller, a
part that needs its reset), one at a time, until `TroubleEnds`; single transfers
may fail besides. Compensation, causes and the page's counters are left out.

### PinAssign, PadClaim, LuaApp

The board's table is a constant, with the build's own checks of it as its
assumption. An assignment is a record; whether it is accepted is `Accepts`, and
which rule it broke is left out. `Boot` is what `main` does with the file, which
it may fail to read, before any task runs; `Post` changes the file and the copy
in RAM and nothing that is bound. `Offers` is what a start tries to publish, each
with its place in the order, since of two resources with one name the first is
kept. `resources` is what was published, `ScriptPads` what a stop puts low.

In `LuaApp` the flight task's period is service, then dispatch, split where the
count of ticks is moved before the notification; the Lua task is a chain of
places, split where it reads `ticks_asked` and where it writes `ticks_done`.
`owed` is the one less the other and `since` what was asked since the read, so
that the two counters need no bound but two. Limits in milliseconds are steps
that may come or not; the stall limit comes only to a task that stands still.
The mark is in a register that a watchdog's reset keeps and a power cycle does
not; `Bite` is that reset, of a wedged board or of a restart commanded.
`vTaskSuspend` is taken to stop the task at once. `died` is history.

## 3. Runs

| Run | Configuration | Asks |
|---|---|---|
| `fire` | lag 1, pulse 1, gap 3, interval 4, delay 2, twelve loops | everything of the fire rules, from apogee |
| `ground_test` | five boards, a loop may be missed | countdown, delivery, verdicts, faults, an end |
| `flight_call` | three callers, one with its function in RAM and two in flash | promise, grounding, progress |
| `states` | two pads, one restart, one carry, two plugs | record, resume, apogee, with the storage task's liveness |
| `flash` | erase 4 ticks, helper 15 | the lockout, the pieces, the chip, over one flight |
| `collector` | two conversions, a queue of two, two failures to a recovery | order, taking, the bus clear, reading once, recovery |
| `log` | a ring of two rows, three rows, failures of every kind or none | order, accounting, refinement, a power loss, an end |
| `http` | two links, one exchange, answers longer than the ring | the FIN, the lending, the log's claim, no starvation |
| `files` | two uploads, a reader, a whole-file writer, one reset | handles, contents, the cached copy, the mount |
| `update` | two sectors, a stall of two periods | sound images, an end to every trial, the watchdog |
| `lua` | MK1B's pads, eleven assignments, three kinds of script | one holder per pad a start bound, ticks, safe boot, the stop |
| `log_live` | a ring of three bytes, writes of up to four | that an answer is the log's: violated |

The larger runs are `log` (1.2 million states), `http` (0.4), `update` (0.4),
`files` (0.2), `lua` and `flash` (0.1 each).

What the properties say, where a name covers several things:

- `RecordTells`: a flight that left the pad with its record kept is measured
  against that pad however often it is rejoined, and a record marked written is
  of the pad the board is on. `RecordSettles`: left on a pad, one comes to be
  held; landed or on the bench, none.
- `PulsesKept`: outputs are driven for one pulse at a time, and none beside a
  check. `VerdictsHonest`: a verdict is of after its fire, and a hot bus is the
  switch's, not the board's own charge. `FiresAsAsked`: each fire was counted
  down to by a switch truly closed, keeps the gap, and is the one delivered.
- `XipSafe`, `LockoutSound`, `DoneIsDone`: core0 fetches only from a flash that
  reads; the lockout and the claimed piece have one owner and core0 is not stopped
  in flight; an operation that ends was carried out, or was given up before.
- `CyclesInOrder`: what is queued is whole cycles in order, and what the task
  copies is the oldest of them. `PartUsedWell`: a conversion is read once, and a
  held bus is cleared first.
- `RingInOrder`: the file is the rows taken, in order, cut anywhere. `RowsKept`:
  what a power loss takes.
- `ImagesSound`: what runs and what may be swapped in are whole, and an image is
  kept once proven or once an update was begun on it. `Settles`: marks and
  trials end, and the watchdog resets a stuck board on the ground only.
- `PadsKept`: a script reaches no firing path in use, nor the buzzer's pad or the
  switch's; a retained channel is not mocked; a script stopped leaves no pad high.

### Bounds, and why they are enough

- Fire control: twelve loops hold a fire of each channel, a re-fire of each and
  a contest between them, in which one owed again waits for the other's gap
  after its own pulse and then for the other's pulse and gap; the counter never
  turns in a run this short, and what turning does is `Since`, which the proofs
  cover for every modulus. Interval and delay are above the lag, and the
  interval is no longer than a pulse and its gap, as the defaults are. A sample
  is one loop old at most; older ones are the proofs' part.
- Ground test: each board with both channels or the second alone, and a switch
  across two pads on the board without outputs, where the wire has four states.
  Every phase is one to two loops long and a missed loop is two, so that each
  deadline is met late and on time; the gap is longer than the tone and the
  countdown together, as 10 s is longer than 8, so that the second channel meets
  it busy; MK1C's bleed outlasts its hold. A wire changes once a loop at most.
- Flight call: of three callers two contend for the mutex while the third's call
  is posted or served; a fourth would wait as they do.
- States: one restart reaches every point of one flight; two pads tell a right
  ground from a wrong one; one carry and two plugs move a board between them.
- Flash: two callers, of whom one is the writer; one flight. An erase of 4 ticks
  against a helper of 15 is a Winbond part's 400 ms against 1.5 s. A piece's
  microseconds are any point of a slot.
- Collector: a queue of two is one more than the slot that a push and a take
  contend for, and turns with the counter of four; a clear of two clocks is one
  that a part held for two needs whole, as nine are. One thing is wrong at a
  time. One flash operation: a second would be the first again. The proofs have
  none of these bounds.
- Log: three rows turn a ring of two; the hold-off is two ticks, flush and sync
  one each, a tick being about a second, and each passes its bound and comes
  back. `MaxRows`, `Passes` and `Loss` are the named bounds. On a filesystem
  that works a tick spans three passes, the fewest for which a pass that writes
  is followed by one that syncs; the code's second holds a hundred.
- Live log: four bytes into a ring of three is a write longer than the ring; six
  turn it twice.
- HTTP: two links over one exchange make a peer wait; an answer of three units
  and a head fill a ring of three and two segments, so that a segment is sent
  again shorter or longer than it was; a receive ring of one unit splits every
  head and body.
- Files: two uploads meet over one part file and a third would wait as the
  second. Two contents tell old from new; with three, 13.5 million states were
  searched by hand with no error. One failed writer is remembered, so that a
  second finds the list full; one reset, and one time-out between two resets.
- Update: two sectors have a first and a last. Nothing bounds the resets, the
  transfers or the power failures: the state is finite without.
- Lua: one user pad, both channels' own and the common, the buzzer's and one in no
  row are a pad of each kind. The assignments are one for each rule kept or
  broken that involves two holders; the proof has no such bound. Ticks owed
  saturate at two, since one and many wake the task alike. Nothing bounds the
  starts and posts.

Deadlock is not checked where the system may stop: a log is over, a flight has
landed, a start-up has left for another state or its bounds are used up
(`FireControl`, `FlightStates`, `FlightLog`, `GroundTest`, `LogLive`).

### Fairness

- `FlightCall`: the flight task's service runs every period, and a caller past a
  bounded wait goes on. The mutex's time-out is not fair: it need not happen.
- `GroundTest`: the flight task's period comes round, and a set alarm's
  interrupt is taken. The wire is not fair: the end is promised of a test that
  was armed and whose switch is then left open.
- `FlightStates`: the storage task passes once a period and the pad's time goes
  on. Neither the environment nor the flight task's verdicts are fair.
- `FlashOp`: core1's tasks share it by time slices, so each goes on under strong
  fairness; a helper that spins goes on. Nothing promises that a helper wakes.
- `PressureCollector`: a conversion ends, an alarm set is raised, a task in
  `collector_take` gets on, and the interrupt is taken however often it is held
  off for a moment (strong). Recovery is promised once `TroubleEnds` has come,
  which nothing promises.
- `FlightLog`: passes are weakly fair, and time strongly, since it advances only
  between passes.
- `HttpLinks`: the net task runs (weak). A link on which no byte moves any more is
  late at last, since its time-out is a clock's. The stack sends what it is
  shown, and what is in flight is acknowledged or the stack gives the link up,
  after a number of attempts. The peers promise nothing.
- `Files`: the mount is tried again at every cleanup, and one of them succeeds
  (strong). No upload, reader or close is fair.
- `Update`: the flight task's period, the watchdog's bite and the end of a trial
  come, a flight lands, a log the storage task can end ends, and a transfer's
  link is released, answered or lost (weak). A commit, which the flash may
  refuse and the storage task tries again, is done at last (strong). Transfers,
  sticking and going on, launches and power failures are not fair.
- `LuaApp`: the flight task's and the Lua task's steps come (weak), and a limit
  whose time passes is found passed (strong, on `KillStalled` and
  `KillSlowStart`). A stack found low, a writer's word, resets and posts are not
  fair.

## 4. What the violated run shows

A disagreement with lines of the repository, quoted in `PROJECT.json`.
`log_live`: `log_live_read` drops what the head has passed by the end of its copy,
but the writer moves the head after its bytes. A reader that copies while a write
is in hand gives its bytes out as older ones.

Seen while modelling, with no run of their own.

Fire control and boards:
- A pulse's end is stamped with the loop's time and the gap is measured at the
  next sample's, which may be earlier; the difference wraps and the other channel
  may fire with no quiet at all (`fire_control.c:114`, PYR-DEPLOY-02). What is
  kept is `GapKeptForward`.
- The same wrap against a resume's clock lets a DELAY fire at once after a resume
  in descent (`fire_control.c:56`, FLT-BROWN-06). `DelayKept` is checked and
  proved from apogee.
- The switch closed while the second fire waits busy on the gap does not stop it
  (`ground_test_seq.c:114`), and a test aborted after channel 1 fires channel 1
  again (`docs/outstanding_tasks.md`, GT-1). MK1A calls a channel open, rather
  than giving no verdict, when it is fired before the first check is complete
  (`mk1a/pyro_board.c:122`).

State machine and record:
- A restart at the top of the climb forgets that the rocket was fast; it never
  arms, so apogee never comes (`flight_ascent.c:48`, `docs/resume_from_log.md`).
  `ApogeeDeclared` excepts a flight rejoined there.
- With `apogee_lockout` set, no apogee is seen until it has run
  (`flight_ascent.c:77`), so that an armed flight may fall and come down with
  apogee undeclared if it is set too long: what FLT-APO-12 asks for. But it is
  measured from `launch_time`, which a resume sets to its own time
  (`flight_boot.c:42`), so that after a restart it runs its whole length again,
  against "since T+0" (`REQUIREMENTS.md`, FLT-APO-12; the repository's
  `README.md:254`), and one that was short enough may no longer be.
  `ApogeeDeclared` excepts a fall that is locked out to its end (`outlasted`).
- A record is marked written before its write, whose result is dropped
  (`flight_outputs.c:125`, FLT-BROWN-01), so one that fails is not tried again.
  `RecordTells` and `RecordSettles` except it (`spoilt`).
- A host attached between the storage task's check and its write is recorded on
  the bench (USB-01, `flight_outputs.c:130`).

Flash and log:
- An erase in flight after one was given up reports success and does nothing
  (`flash_slot.h`); `DoneIsDone` excepts it.
- Finishing a held erase and running one's own is one park, and two 800 ms erases
  of MK1C's part outlast its 1.5 s (`flash_op.c:123`, against the comment on
  `PARK_MAX_US`; `flash` with `Erase = 8` violates `XipSafe`).
- Another task's operation that passed `slot_op`'s check before launch runs as a
  piece after it (`flash_op.h:55`).
- A conversion beside which a flash operation ran is marked only if the operation
  ended beside it (`pressure_collector.c:145`, `flash_op.c:487`, against
  `pressure_collector.h:61`).
- A log given up counts neither its header nor its pad rows
  (`hal_common.c:1416`); a close that fails is not looked at
  (`hal_common.c:1399`); FLT-LOG-06's last second is up to two in the hold-off,
  a trade DD-027 makes on purpose and `RowsKept` bounds.

Files, server and update:
- A transfer begun on an image that is still on trial commits it, since
  `pfb_begin_op` makes the running image the one to keep before the other slot is
  erased (`http_server.c:179`). If it then crashes it is not put back (OTA-03),
  nor if it is another board's (OTA-05). `ImagesSound` says so: an image is kept
  once proven, or once an update was begun on it.
- A whole-file write that comes up short is closed all the same, and what was
  written of it takes the old file's place (`hal_common.c:923`, against
  `vfs_flash.h:7` and WEB-API-18). `PreviousWhole` excepts a name so written
  (`spoilt`) until it is next written.
- A first write of a name, or a rename onto a name with no file, that a reset or
  its own failure ends is served as far as it got, as if it were the file
  (`vfs_flash.c:228`, `:301`). A failed copy is let go at the next chance, and
  what a reset left stays until the name is next written. `PreviousWhole` says
  so: only a name that had no file reads as a part, and of a content tried.
- A DELETE of a name whose failed writer is not let go yet is answered as done
  and remembered in RAM (`vfs_flash.c:252`): after a reset the part written may
  be there again.
- A writer's close that never gets the lock drops its handle: the name is never
  written again, and no failed writer is let go, before the next reset
  (`vfs_flash.c:200`).
- A transfer whose mark was refused has failed, and erases the slot all the same
  as its body comes in (`http_server.c:177`, against "No bricking" of the
  repository's `README.md:504` and OTA-07). `ImagesSound` excepts it
  (`unmarked`).
- A stuck storage task never ends its log, and an active log keeps the watchdog
  fed, after landing too (`main_hardware.c:270`); `Settles` excepts it.
- `log_live_reset` moves the head and leaves the bytes under a read in hand
  (`log_live.c:18`).

Pads and scripts:
- A released channel whose own pad is given to the buzzer or the switch, with the
  other channel retained, has only pads of the flight's: it keeps its real
  operations, against `pyro_release.h:8-16`, and a fire would drive that pad
  (`pyro_release.c:71`). `PadsKept` excepts it.
- `POST /api/pins` changes the assignment in RAM at once, and takes effect at the
  next start (`http_server.c:630`); MK1B asks the one in RAM which high sides are
  its own (`boards/mk1b/pyro_board.c:69`), so that a post that takes a released
  channel back has it hold a pad a script still drives. `PadsKept` is of what a
  start bound, and says nothing of what the board asks meanwhile.
- With both channels released MK1A's board raises the common as it starts and
  nothing runs to lower it (`boards/mk1a/pyro_board.c`); MK1B's comment says why
  it does not.
- A commanded restart clears the mark and the loop runs for 100 ms more: a script
  launched in that time is marked again, and the next start skips it
  (`main_hardware.c:216`). A board wedged in that time resets as commanded or by
  the watchdog's bite, and the two are not told apart (`Bite`).
- Of two resources without a name the second is refused as a duplicate
  (`lua_iface.c:36`), though an assignment accepts them; when it is a bridge no
  script starts, and the reason given is a firmware bug.
- A digital pad that is not in `LUA_PIN_LIST` and reserved by nothing accepts a
  role and is never offered to a script (`pin_store.c:191`; MK1C's pad 22).

## 5. Proofs

The proof modules assume only the modules' own named assumptions on constants,
but for `XipAlwaysSafe`, which states its own. Three of them are about two
components each: what `FlightCall`, `PressureCollector` and `Update` specify is
`CallSpec`, `CollectorSpec` and `UpdateSpec`, and so with their other common
names, so that one module can extend both.

- **FireControl.** The properties are not inductive: that no fire is refused
  needs `energised` and the rules' own `active_channel` to agree, and that the
  gap is kept needs a noted pulse end to be at or after the real one. The
  invariant adds those, and that every recorded time is behind the loop's.
  That no channel starves needs who waits behind whom: a pulse and its gap are
  over `PulseAndGap` loops after it began (`PulseBounded`), the recorded times
  tell which channel went last (`InOrder`), and a channel that waits is behind the
  other's pulse, or the other is behind its own (`WaitKept`). The wait is then a
  pulse and its gap, and, when the interval is shorter than those (the defaults
  are 1 s against 0.5 s and 3 s), what the interval leaves of the channel's own.
  Proved: `TypeOK`, `NoFireRefused`, `GapKeptForward`, `GapKept` when samples do
  not lag, `RefireSpaced` for a lag within a pulse, `DelayKept` from apogee, and
  `ServedInTime` for a lag within a pulse and half an interval (500 ms at least
  each, against a sample's tens).
- **FlightCall.** The invariant says who owns the mailbox in each of its states:
  one caller is past the mutex at a time, a pending function is that caller's,
  and a running one was allowed when it was taken, and no flight began since.
  Proved: `CallTypeOK`, `FlashCodeGrounded`, and that every step is one of
  `CallOnce` or a stutter.
- **FlightStates.** `RecordTells` is of three parts, each true only because of
  what a pass of the storage task under way is to write: with the mark set, the
  pad's record is the reference or the pass writes it (`RecordInv`); of a flight
  that left with its record kept, every pass writes the pad's or nothing, and
  the reference is the pad's whenever it could be recorded again (`KeptInv`).
  That apogee is declared needs, for each stretch of the climb, what sampling it
  has set by then: fast before it slows, armed before it falls (`ClimbInv`).
  That rests on the environment's rule that the motion waits for a sample
  (`MotionGoesOn`), and needs, once the rocket falls, that a sample took the
  apogee or found the lockout still running. Proved: `RecordTells`,
  `ApogeeDeclared`, for any pads, dwell, restarts, moves and plugs.
- **GroundTest.** Of the boards: their outputs are those of the step or the
  pulse they are in, and nothing reads as before a fire without a test to come
  after (`SequenceInv`, `SwitchedInv`); of the two models the one whose board is
  not there stays as it began (`BoardInv`). The bus is below hot by the end of
  the bleed and cold where the sequence is idle, so that what a fire leaves on
  it is counted hot once at most; a fault takes `Agreeing` samples, more than
  one (`BusInv`). Of a fire: the rules' notes never take a pulse under way for
  one that ended, and a channel has been off for as long as they have noted
  (`FireInv`); a countdown is the newest sound for as long as its phase has
  lasted, and a switch read closed for a debounce has ended it (`TestInv`); of
  two reads of a pad that is not tied to the other, one does not follow
  (`SwitchInv`). Proved: `PulsesKept`, `VerdictsHonest`, `FiresAsAsked`, for any
  boards and wirings, times, and loops missed.
- **PressureCollector.** `QueueInOrder` speaks of the cycles queued, and a step
  may only rely on the one being built: the invariant adds that the slot behind
  the queue holds this cycle's bytes for each step gone by (`Built`), that the
  interrupt is held off while the task is inside, and that what it copied is
  still the oldest (`TakeInv`). `PushInOrder` and `TakeInOrder` shift the
  witnessing sequence of cycles by one; `SlotsApart` is why no push writes a
  queued slot. `PartUsedWell` needs what each place of a cycle may find on the
  bus and in the part: an edge still to come is a clear's (`Clearing`,
  `BusInv`), a conversion under way or unread is this cycle's (`PartInv`), and
  when the interrupt last ran and what it read since (`MarkInv`, `UseInv`); a
  clear has an even count of edges, two for each of the target's clocks at least
  (`ClearAssumption`: 18 edges, 9 clocks). Proved: `CollectorTypeOK`,
  `CyclesInOrder`, `PartUsedWell`.
- **FlashOp.** `TypeOK` already says that one task is raised; that it stays so,
  and that a piece in flight is one at a time, needs that one caller is on the
  files, that pieces are its and that no task is raised beside one (`OwnInv`); a
  piece outlasts its flight only on a chip that has stopped answering.
  `NotStoppedInFlight` needs that a lockout is wanted only by a task on its way
  to a wait, and that in a flight a raised task is no further than the claim,
  which turns it down (`LockInv`). `XipSafe` needs that core0 is parked when a
  body begins, with none of the helper's time gone, and that time spent and time
  left are two erases at most (`ParkInv`). `DoneIsDone` needs the chip followed
  from the end of a piece back to the caller that asked: what it holds is its
  caller's or given up, and a caller that will go on has its piece held or
  finished by another (`ChipInv`). Proved: `LockoutSound`; `DoneIsDone`;
  `XipSafe` for a helper's bound above two erases, the condition MK1C's part
  does not meet (section 4).
- **FlightLog.** `RingInOrder` says what the file is, and a step may rely only
  on what is still to be written: the invariant adds that the ring, between tail
  and head, holds the units of the rows taken, and that a row put whose head is
  not out yet has room and is there whole (`RingHolds`); how long the file, the
  ring and the opening are to each other in each place of a pass (`Counted`);
  and that the file's units are those of the rows taken (`FileHolds`). A ring's
  turn is `SlotsApart`'s arithmetic: two places less than a ring apart are two
  slots. Proved: `RingInOrder`, and, one lemma for each step that `FlightRecord`
  sees, that `FlightLog` implements it. There is no bound on the ring or the
  rows. `RowsKept` is a matter of time: the invariant (`Kept`) adds that what
  was taken longer ago than the wait for a write allows is in the file
  (`Written`), that what is written and longer ago than that and a sync's wait
  is stored (`Stored`), each by what its timer still has; and that a tick is not
  over with a write due, nor with a sync due and not made. The last is not so
  where each pass of a tick writes, since `log_sync_if_due` is for a pass with
  no write in it. So the theorem is of behaviours that are `Paced`: while a pass
  finds the ring just flushed in this tick, the ring is below its watermark. The
  code's rates keep it: the watermark is some 190 records, a flush 200 ms, a
  sample comes each period, and text stops at a ceiling below the watermark. Of
  the constants it needs what `FlightLogTimes` says: a flush takes some time,
  two passes fit in a tick (they come every ten milliseconds or so), and `Loss`
  is above both waits; the run's `Loss` is the least that is. TLC checked `Kept`
  on the run's instance and on two others before the proof.
- **HttpLinks.** First, what one call of `http_conn_service` may do to an
  exchange, over every route and way it ends: it takes no byte of an answer back
  and does not take the filesystem while the log has it (`Moves`;
  `ServicedMoves`). Then none of the three properties is inductive alone. That
  an exchange is one link's needs that the links that wait are in the queue once
  (`Queued`), and that one not lent is as new (`Held`). That the FIN is behind
  all needs that what is in flight is still in the ring, and that a link closes
  only on an exchange that is done, whose ring no unit adds to (`Sends`,
  `Runs`). That the log is let in needs which links the pass has been over
  (`Given`). Proved: `LentToOne`, `FinBehindAll`, `LogGetsFiles`, for any number
  of links, exchanges and units, and any rings; answers and segments are not
  empty (`MaxAnswer`, a refusal being a unit itself).
- **Files.** The invariant is of a store, the uploads and the rest as arguments,
  so that it can be said of the store in the middle of a call: each call of
  `FlashStore` is shown to keep it, and an action is its calls in order. That no
  handle is forgotten needs who has which, a failed writer being nobody's, and
  that an upload is one at a time (`HandlesInv`): a mount waits for the count
  alone. That a name reads as one whole content, acknowledged or tried, needs
  that what is being written is newer than all that was (`VersionsInv`), that a
  part file about to be renamed is that upload's, whole (`RenameInv`), and what
  each name will read as once the writers that failed are let go (`ContentInv`);
  and, of a copy that is left open where there was no file, that what it holds
  was tried (`CopiesTried`). That the cached copy tells the marker needs how far
  a store of it has come, and, of the flight task's try, that what it took is
  the copy's while the sequence stands (`CacheInv`, `FlightInv`). Proved:
  `TypeOK`, `HandlesKnown`, `PreviousWhole`, `CacheTells`, for any number of
  uploads, readers, failed writers, tries, resets and closes that come too late.
- **Update.** `ImagesSound` is not inductive: that a marked slot is whole needs
  what the transfer has done to it (`TransferInv`: its mark was made or it has
  failed, and all its sectors are an image), and that what a trial goes back to
  may run for good needs it to have been kept (`TrialInv`). Proved: `ImagesSound`,
  for any number of sectors.
- **LuaApp.** `PadsKept` speaks of what was handed out; the invariant adds that
  all of it was handed out by one assignment that keeps the rules, whatever the
  file and the one in RAM say since (`Applied`), and that a task not started or
  stopped has no pad high (`Quiet`). `PublishedFree`, `RetainedReserved` and
  `ReleasedReserved` are what the rules give. That no tick is lost needs, at
  each place of the Lua task, which of `owed` and `since` it has looked at and
  that it was told of the rest (`TickInv`); that no script runs twice needs that
  one not settled is marked, unless a restart was commanded (`BootInv`). Proved:
  `PadsKept`, for every board's table that passes the build's checks,
  `NoTickLost`, `NeverTwice`.

`TypeOK` of `FireControl` and of `Files`, `CallTypeOK` and `CollectorTypeOK` are
proved, and checked by no run.

Only model-checked: `LogLive`, whose one property its run shows violated; all
liveness (`Answered`, `RecordSettles`, `LockoutEnds`, `StopEnds`,
`ComesToAnEnd`, `Recovers`, `Served`, `StoreComesBack`, `Settles`,
`StuckIsStopped`), out of the prover's reach.

## 6. Not modelled

- Filters and estimators (floating point), configuration, record and page formats
  (data with no interleaving), device registers, the simulators.
- The Lua interpreter, TinyUSB, the TCP stack, the bootloader, FatFs and alfs:
  vendored, or not in the tree. The last four are taken from how they are used.
- Of the HTTP server: the failure of an answer whose body is outside `work` and
  longer than the ring and `work` together (`http_conn.c:89`), which no handler
  gives; what an answer says, the settings' handlers, and the
  hand-over of work to another task (`http_work_claim`, `http_work_run`), which
  nothing calls.
- Of the filesystem: a reader's close that never gets the lock
  (`vfs_flash.c:182`), to the store a reader that does not close; `vfs.c`'s
  routing between flash and card, mirrors, listings and sizes, and the FAT path.
- The watchdog's stages and counters, and the period's own alarm.
- Of the scripts: the flight snapshot's sequence lock, the console's and the log's
  rings, the events, and what a script may call.

The parts that are planned follow.

## 7. Plan

In order; each with its mutants, and with proofs where its state is finite in
shape.

1. Proofs: which of `LogLive`'s answers are the log's all the same.
2. `PressureProcessing`: suspect readings, repeats and gaps, the frozen ground,
   each sample stepped once; the charge guard over it.
3. `NetQueue`: the frame queues between TinyUSB and the TCP stack, under
   `HttpLinks`.
4. The scripts' snapshot, rings and events beside `LuaApp`.
5. The high-rate recorder and the card.
6. `FlightStates` extended by sensor faults, composed with `FlightLog` over one
   storage task.
