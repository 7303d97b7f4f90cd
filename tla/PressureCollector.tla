-------------------------- MODULE PressureCollector --------------------------
(***************************************************************************)
(* The pressure collector: the interrupt machine that owns the sensor and    *)
(* its bus, the queue it fills and the task's taking from it                 *)
(* (pressure_collector.c, hal_common/collector_bus.h).  Each alarm's          *)
(* interrupt is one step; what the task does under its hold-off is three, so  *)
(* that the interrupt could come between were it not held off.  Why a         *)
(* transfer failed is only counted, and left out.                            *)
(***************************************************************************)
EXTENDS Naturals

CONSTANTS
    Steps,         \* a cycle's conversions
    Queue,         \* COLLECTOR_QUEUE
    Failures,      \* FAILURES_BEFORE_RECOVERY
    ClearEdges,    \* CLEAR_CLOCK_EDGES
    TargetClocks,  \* the clocks that free a part holding its data line
    Counts,        \* the values of the counter of cycles, 2^32
    MaxFlashes     \* bound: flash operations begun

ASSUME CollectorConstants ==
    /\ Steps \in Nat \ {0} /\ Queue \in Nat \ {0} /\ Failures \in Nat \ {0}
    /\ ClearEdges \in Nat /\ TargetClocks \in Nat
    /\ Counts \in Nat /\ Counts > Queue + 1
    /\ MaxFlashes \in Nat

\* CLEAR_CLOCK_EDGES are whole clocks, and as many as a part may need: 18 and 9.
ASSUME ClearAssumption == ClearEdges % 2 = 0 /\ ClearEdges >= 2 * TargetClocks

VARIABLES
    \* The machine.
    state, step, clear_edge, failures_in_a_row,
    flash_ops,       \* flash_op_seq as the present conversion began
    queue,           \* of each slot and step, the cycle its bytes are of: see Stale
    flashed,         \* building()'s mark of the present step
    head, count,
    cycles,          \* stats.cycles
    \* The bus: the queued transfer as it will end, and whose the lines are.
    transfer, lines, scl, sda,
    \* The alarm: off, set, or up; and whether its interrupt is let in.
    alarm, let_in,
    \* Flash operations done, pieces and whole ones, and one running.
    flash_op_seq, flashing,
    \* The task in collector_take, and the cycle it has copied.
    taking, out,
    \* The part, and what is the matter with it and its bus.
    part, trouble, calm,
    \* History: clocks and a STOP seen in this bus clear, a flash operation
    \* since the present conversion began, and the oldest cycle neither taken nor
    \* dropped.
    clocks, stopped, beside, oldest

machine == <<state, step, clear_edge, failures_in_a_row, flash_ops>>
queued == <<queue, flashed, head, count, cycles>>
bus == <<transfer, lines, scl, sda, clocks, stopped>>
task == <<taking, out>>
flash == <<flash_op_seq, flashing>>
world == <<part, trouble, calm>>
collectorVars == <<machine, queued, bus, alarm, let_in, flash, task, world, beside, oldest>>

Slots == 0..Queue
StepsOf == 0..(Steps - 1)
Cycles == 0..(Counts - 1)
\* Bytes of an attempt that failed, or of a cycle already gone from its slot.
Stale == Counts

\* A counter that turns.
NextOf(n) == IF n + 1 = Counts THEN 0 ELSE n + 1

Wrapped(slot) == IF slot > Queue THEN slot - (Queue + 1) ELSE slot
Building == Wrapped(head + count)

-----------------------------------------------------------------------------
\* Mutant: the read is not put off by the conversion's time.
AlarmHasty == alarm' = "SOON"

\* The alarm is set for a conversion's end, or for a time so near that it may
\* be behind the counter as it is set, which raises it at once.
AlarmAtEndOfConversion == alarm' = "CONVERTED"

\* Mutant: a target already behind the counter is left to the counter's turn.
AlarmSoonUnlooked == alarm' \in {"SOON", "OFF"}

AlarmSoon == alarm' \in {"SOON", "UP"}

\* A conversion's time is the part's worst case.
AlarmDue ==
    /\ alarm \in {"CONVERTED", "SOON"}
    /\ alarm = "CONVERTED" => part # "CONVERTING"
    /\ alarm' = "UP"
    /\ UNCHANGED <<machine, queued, bus, let_in, flash, task, world, beside, oldest>>

\* How a transfer queued now will end, for trouble that stops it.
Ends(stopping) ==
    IF trouble \cap stopping # {} THEN {"FAILED"}
    ELSE IF calm THEN {"OK"} ELSE {"OK", "FAILED"}

AnyTrouble == {"HELD", "STUCK", "LOST"}

\* A write starts a conversion and a read takes its result, if they reach the
\* part, and one that fails may have.
PartDoes(end, what) == part' \in IF end = "OK" THEN {what} ELSE {part, what}

\* The bytes of a cycle given up, or of the slot's last one.
Forget(q, slot) == [q EXCEPT ![slot] = [k \in StepsOf |-> Stale]]

-----------------------------------------------------------------------------
\* The handler's parts.
Command(k) ==
    /\ state' = "COMMANDED" /\ step' = k
    /\ \E end \in Ends(AnyTrouble) : transfer' = end /\ PartDoes(end, "CONVERTING")
    /\ flash_ops' = flash_op_seq
    /\ beside' = flashing
    /\ AlarmAtEndOfConversion

\* The controller is reset with the lines taken from it.
BeginClear ==
    /\ lines' = "MACHINE" /\ transfer' = "NONE" /\ scl' = TRUE /\ sda' = TRUE
    /\ clocks' = 0 /\ stopped' = FALSE
    /\ trouble' = trouble \ {"STUCK"}
    /\ clear_edge' = 0
    /\ state' = "CLEARING"
    /\ AlarmSoon

\* The cycle is begun again, and the third failure in a row clears the bus.
FailedAt(k) ==
    /\ step' = k
    /\ queue' = Forget(queue, Building)
    /\ IF failures_in_a_row + 1 < Failures
       THEN /\ failures_in_a_row' = failures_in_a_row + 1
            /\ state' = "RETRYING" /\ AlarmSoon
            /\ transfer' = "NONE"
            /\ UNCHANGED <<clear_edge, lines, scl, sda, clocks, stopped, trouble>>
       ELSE /\ failures_in_a_row' = 0
            /\ BeginClear
    /\ UNCHANGED <<flash_ops, flashed, head, count, cycles, part, calm, beside, oldest>>

\* Mutant: the cycle goes on at the step that failed.
FailedGoesOn == FailedAt(step)

Failed == FailedAt(0)

\* Full, the oldest gives its slot up; either way the slot built next holds
\* bytes of no cycle.
Push(q) ==
    /\ cycles' = NextOf(cycles)
    /\ IF count = Queue
       THEN head' = Wrapped(head + 1) /\ count' = count /\ oldest' = NextOf(oldest)
       ELSE head' = head /\ count' = count + 1 /\ oldest' = oldest
    /\ queue' = Forget(q, Wrapped(head' + count'))

Handler == alarm = "UP" /\ let_in

AfterCommand ==
    /\ Handler /\ state = "COMMANDED"
    /\ IF transfer = "OK"
       THEN /\ flashed' = (flash_op_seq # flash_ops)
            /\ \E end \in Ends(AnyTrouble) : transfer' = end /\ PartDoes(end, "IDLE")
            /\ state' = "READING" /\ AlarmSoon
            /\ UNCHANGED <<step, clear_edge, failures_in_a_row, flash_ops, queue, head, count,
                           cycles, lines, scl, sda, clocks, stopped, trouble, calm, beside, oldest>>
       ELSE Failed
    /\ UNCHANGED <<let_in, flash, task>>

AfterRead ==
    /\ Handler /\ state = "READING"
    /\ IF transfer = "OK"
       THEN LET read == [queue EXCEPT ![Building][step] = cycles]
            IN /\ failures_in_a_row' = 0
               /\ IF step + 1 = Steps
                  THEN Push(read) /\ Command(0)
                  ELSE /\ queue' = read /\ Command(step + 1)
                       /\ UNCHANGED <<head, count, cycles, oldest>>
               /\ UNCHANGED <<clear_edge, flashed, lines, scl, sda, clocks, stopped, trouble, calm>>
       ELSE Failed
    /\ UNCHANGED <<let_in, flash, task>>

CommandAgain ==
    /\ Handler /\ state \in {"RETRYING", "RELOADING"}
    /\ Command(step)
    /\ UNCHANGED <<clear_edge, failures_in_a_row, queued, lines, scl, sda, clocks, stopped,
                   let_in, flash, task, trouble, calm, oldest>>

-----------------------------------------------------------------------------
\* What an edge of the clear is to a part that holds the data line: clocks
\* until it lets go, then a STOP.
Edge(clock, data) ==
    LET seen == IF ~scl /\ clock /\ clocks < TargetClocks THEN clocks + 1 ELSE clocks
        stop == stopped \/ (scl /\ clock /\ ~sda /\ data)
    IN /\ scl' = clock /\ sda' = data
       /\ clocks' = seen /\ stopped' = stop
       /\ trouble' = IF seen = TargetClocks /\ stop THEN trouble \ {"HELD"} ELSE trouble

ClearDone == clear_edge > ClearEdges + 1

\* One edge an alarm, then the lines given back and the part reset.
ClearStep ==
    /\ Handler /\ state = "CLEARING"
    /\ clear_edge' = clear_edge + 1
    /\ IF ~ClearDone
       THEN /\ \/ clear_edge < ClearEdges /\ Edge(clear_edge % 2 = 1, sda)
               \/ clear_edge = ClearEdges /\ Edge(scl, FALSE)
               \/ clear_edge = ClearEdges + 1 /\ Edge(scl, TRUE)
            /\ UNCHANGED <<state, transfer, lines, part>>
       ELSE /\ lines' = "I2C" /\ state' = "RESETTING"
            /\ \E end \in Ends({"HELD", "STUCK"}) :
                  /\ transfer' = end
                  /\ PartDoes(end, "IDLE")
                  /\ trouble' \in IF end = "OK" THEN {trouble \ {"LOST"}}
                                                ELSE {trouble, trouble \ {"LOST"}}
            /\ UNCHANGED <<scl, sda, clocks, stopped>>
    /\ AlarmSoon
    /\ UNCHANGED <<step, failures_in_a_row, flash_ops, queued, let_in, flash, task, calm, beside, oldest>>

AfterReset ==
    /\ Handler /\ state = "RESETTING"
    /\ IF transfer = "OK"
       THEN /\ state' = "RELOADING" /\ AlarmSoon
            /\ transfer' = "NONE"
            /\ UNCHANGED <<step, clear_edge, failures_in_a_row, flash_ops, queued, lines, scl, sda,
                           clocks, stopped, world, beside, oldest>>
       ELSE Failed
    /\ UNCHANGED <<let_in, flash, task>>

-----------------------------------------------------------------------------
\* collector_begin, once an alarm is claimed.
Begin ==
    /\ state = "IDLE"
    /\ state' = "RETRYING" /\ step' = 0
    /\ alarm' = "UP" /\ let_in' = TRUE
    /\ UNCHANGED <<clear_edge, failures_in_a_row, flash_ops, queued, bus, flash, task, world, beside, oldest>>

\* collector_take, from the flight task of the interrupt's own core.
HoldOff ==
    /\ taking = "NO" /\ state # "IDLE"
    /\ taking' = "HELD" /\ let_in' = FALSE
    /\ UNCHANGED <<machine, queued, bus, alarm, flash, out, world, beside, oldest>>

CopyOldest ==
    /\ taking = "HELD" /\ count > 0
    /\ out' = queue[head] /\ taking' = "COPIED"
    /\ UNCHANGED <<machine, queued, bus, alarm, let_in, flash, world, beside, oldest>>

\* The copy is the caller's from here; the next call makes its own.
LetIn ==
    /\ \/ /\ taking = "HELD" /\ count = 0
          /\ UNCHANGED <<head, count, queue, oldest>>
       \/ /\ taking = "COPIED"
          /\ head' = Wrapped(head + 1) /\ count' = count - 1
          /\ queue' = Forget(queue, head)
          /\ oldest' = NextOf(oldest)
    /\ taking' = "NO" /\ let_in' = TRUE
    /\ out' = [k \in StepsOf |-> Stale]
    /\ UNCHANGED <<machine, flashed, cycles, bus, alarm, flash, world, beside>>

-----------------------------------------------------------------------------
\* What goes on around the collector.
ConversionEnds ==
    /\ part = "CONVERTING" /\ part' = "CONVERTED"
    /\ UNCHANGED <<machine, queued, bus, alarm, let_in, flash, task, trouble, calm, beside, oldest>>

\* The part holds its data line, the controller hangs, or the part forgets
\* all until it is reset; one thing at a time, which bounds the model.
TroubleComes ==
    /\ ~calm /\ state # "IDLE" /\ trouble = {}
    /\ \E t \in AnyTrouble :
          /\ trouble' = {t}
          /\ part' = IF t = "LOST" THEN "IDLE" ELSE part
    /\ UNCHANGED <<machine, queued, bus, alarm, let_in, flash, task, calm, beside, oldest>>

TroubleEnds ==
    /\ ~calm /\ calm' = TRUE
    /\ UNCHANGED <<machine, queued, bus, alarm, let_in, flash, task, part, trouble, beside, oldest>>

\* A flash operation, of the other core's, may outlast conversions (flash_op.c).
FlashBegins ==
    /\ ~flashing /\ flash_op_seq < MaxFlashes
    /\ flashing' = TRUE /\ beside' = TRUE
    /\ UNCHANGED <<machine, queued, bus, alarm, let_in, flash_op_seq, task, world, oldest>>

FlashEnds ==
    /\ flashing
    /\ flashing' = FALSE /\ flash_op_seq' = flash_op_seq + 1
    /\ UNCHANGED <<machine, queued, bus, alarm, let_in, task, world, beside, oldest>>

-----------------------------------------------------------------------------
CollectorInit ==
    /\ state = "IDLE" /\ step = 0 /\ clear_edge = 0 /\ failures_in_a_row = 0 /\ flash_ops = 0
    /\ queue = [s \in Slots |-> [k \in StepsOf |-> Stale]]
    /\ flashed = FALSE
    /\ head = 0 /\ count = 0 /\ cycles = 0
    /\ transfer = "NONE" /\ lines = "I2C" /\ scl = TRUE /\ sda = TRUE
    /\ alarm = "OFF" /\ let_in = FALSE
    /\ flash_op_seq = 0 /\ flashing = FALSE
    /\ taking = "NO" /\ out = [k \in StepsOf |-> Stale]
    /\ part = "IDLE" /\ trouble = {} /\ calm = FALSE
    /\ clocks = 0 /\ stopped = FALSE /\ beside = FALSE /\ oldest = 0

Interrupt == AfterCommand \/ AfterRead \/ CommandAgain \/ ClearStep \/ AfterReset
Task == HoldOff \/ CopyOldest \/ LetIn
Outside == AlarmDue \/ ConversionEnds \/ TroubleComes \/ TroubleEnds \/ FlashBegins \/ FlashEnds

CollectorNext == Begin \/ Interrupt \/ Task \/ Outside

\* The alarm's interrupt is taken however often a task holds it off for a
\* moment, a task in collector_take gets on, and a conversion ends.
CollectorFairness ==
    /\ SF_collectorVars(Interrupt) /\ WF_collectorVars(AlarmDue) /\ WF_collectorVars(ConversionEnds)
    /\ WF_collectorVars(CopyOldest \/ LetIn)

CollectorSpec == CollectorInit /\ [][CollectorNext]_collectorVars /\ CollectorFairness

-----------------------------------------------------------------------------
States == {"IDLE", "COMMANDED", "READING", "RETRYING", "CLEARING", "RESETTING", "RELOADING"}

\* Every place and count of the machine is within its bounds.
CollectorTypeOK ==
    /\ state \in States /\ step \in StepsOf /\ clear_edge \in 0..(ClearEdges + 3)
    /\ failures_in_a_row \in 0..(Failures - 1) /\ flash_ops \in 0..flash_op_seq
    /\ queue \in [Slots -> [StepsOf -> Cycles \cup {Stale}]]
    /\ flashed \in BOOLEAN
    /\ head \in Slots /\ count \in 0..Queue /\ cycles \in Cycles
    /\ transfer \in {"NONE", "OK", "FAILED"} /\ lines \in {"I2C", "MACHINE"}
    /\ scl \in BOOLEAN /\ sda \in BOOLEAN
    /\ alarm \in {"OFF", "CONVERTED", "SOON", "UP"} /\ let_in \in BOOLEAN
    /\ flash_op_seq \in 0..MaxFlashes /\ flashing \in BOOLEAN
    /\ taking \in {"NO", "HELD", "COPIED"} /\ out \in [StepsOf -> Cycles \cup {Stale}]
    /\ part \in {"IDLE", "CONVERTING", "CONVERTED"} /\ trouble \subseteq AnyTrouble
    /\ calm \in BOOLEAN
    /\ clocks \in 0..TargetClocks /\ stopped \in BOOLEAN /\ beside \in BOOLEAN /\ oldest \in Cycles

Of(n) == [k \in StepsOf |-> n]

\* The cycles f queued, oldest first, and after them the one being built.
Run(f) ==
    /\ f[0] = oldest /\ f[count] = cycles
    /\ \A i \in 0..(count - 1) : f[i + 1] = NextOf(f[i]) /\ queue[Wrapped(head + i)] = Of(f[i])

QueueInOrder == \E f \in [0..Queue -> Cycles] : Run(f)

\* What is queued is whole cycles, every step of one unbroken attempt, and
\* they are the newest, one after another, with none between them or before
\* them left out that was neither taken nor dropped: push and its callers
\* (pressure_collector.c:82, SNS-COL-03, SNS-COL-04).  And what the task has
\* copied is the oldest still in the queue, so that it is taken once and none
\* is passed over: the hold-off of collector_take (pressure_collector.c:204).
CyclesInOrder == QueueInOrder /\ (taking = "COPIED" => out = Of(oldest))

\* No transfer is queued on lines the machine drives, and the lines go back
\* to the controller let go, clocked and with a STOP made, before the part is
\* reset (pressure_collector.c:121, SNS-COL-05).
BusCleared ==
    /\ transfer # "NONE" => lines = "I2C"
    /\ lines = "I2C" => scl /\ sda
    /\ state = "RESETTING" => clocks = TargetClocks /\ stopped

\* A read that ends well finds a conversion ended and not yet read, and a
\* command finds the part at rest, whatever failed before: the part gives zero
\* for one and a wrong value for the other (SNS-COL-02).  What is read is marked
\* if a flash operation came to its end beside it, and only if some ran: one
\* still running marks the conversion it ends beside (pressure_collector.c:145).
ReadOnce ==
    [][/\ state' = "READING" /\ state # "READING" =>
             /\ transfer' = "OK" => part = "CONVERTED"
             /\ flashed' => beside
             /\ beside /\ ~flashing => flashed'
       /\ state' = "COMMANDED" /\ state # "COMMANDED" => part # "CONVERTING"]_collectorVars

\* What the machine does with the bus, and with the part on it.
PartUsedWell == []BusCleared /\ ReadOnce

\* Once nothing more goes wrong, whatever had, cycles come again and go on
\* coming (SNS-COL-05).
Recovers == <>(calm /\ state # "IDLE") => []<><<cycles' # cycles>>_cycles

=============================================================================
