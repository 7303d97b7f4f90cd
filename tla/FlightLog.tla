------------------------------- MODULE FlightLog -------------------------------
(***************************************************************************)
(* The flight log (hal_common.c): a ring the flight task fills and the       *)
(* storage task empties into a file, or into the RAM a host reads.            *)
(*                                                                         *)
(* One producer on core0 and one consumer on core1, with no lock: a step is   *)
(* what lies between two accesses of what the other one writes.  A row is     *)
(* two units of the ring, so that a write can be cut short inside one.        *)
(*                                                                         *)
(* Time is in ticks, which the storage task's passes outrun: a tick spans     *)
(* Passes of them, and the flight's first period.  The filesystem is          *)
(* external: a write takes any part of what it is given or none, and what it   *)
(* took survives a power loss from the next sync on.                         *)
(***************************************************************************)
EXTENDS Naturals, Sequences, SequencesExt

CONSTANTS
    Size, Watermark, TextCeiling,     \* LOG_BUF_SIZE, LOG_WATERMARK, LOG_TEXT_CEILING
    Holdoff, Flush, Sync, StopMax,    \* LOG_HOLDOFF_MAX_MS ... LOG_STOP_MAX_MS
    Opening,       \* rows the log opens with: the header, and the pad's
    MaxRows,       \* bound: rows the flight makes
    Passes,        \* bound: the passes a tick spans while the filesystem does its work
    Loss           \* the ticks RowsKept looks back, the last included

ASSUME FlightLogConstants ==
    /\ {Size, Watermark, TextCeiling, Holdoff, Flush, Sync, StopMax, Opening, MaxRows, Passes, Loss} \subseteq Nat
    /\ Size > 1 /\ Watermark <= Size /\ Loss > 0 /\ Passes > 0

\* What RowsKept looks back over: the wait for a write, and then the one for its sync.
ASSUME FlightLogTimes ==
    /\ Flush > 0 /\ Passes > 1
    /\ \A write \in {Holdoff, Flush}, sync \in {Sync, 1} : Loss > write + sync

VARIABLES
    \* The flight task: the ring's head, and the log it starts and stops.
    head, ring, to_host, dropped, text_dropped,
    put,           \* the row whose units are in and whose head is not
    made,          \* rows made
    in_flight,     \* flash_op_in_flight
    \* Both.
    state,         \* "IDLE", "RUNNING", "STOPPING"; "NEVER" before the one start
    \* The storage task.
    tail, pass, st, seen, wrote,
    file, file_open, unsynced, stored, opened,
    holdoff, stop_seen, due_in, sync_in, holdoff_in, stop_in,
    well,          \* the filesystem does its work; or it may refuse
    \* Time, and what was taken; past, for RowsKept, on a filesystem that is well.
    passed, taken, past

flight == <<head, ring, to_host, dropped, text_dropped, put, made, in_flight, taken>>
timers == <<due_in, sync_in, holdoff_in, stop_in>>
fs == <<file, file_open, unsynced, stored, opened>>
writer == <<tail, pass, st, seen, wrote, holdoff, stop_seen>>
beside == <<well, past>>
vars == <<flight, state, writer, fs, timers, passed, beside>>

-----------------------------------------------------------------------------
Kinds == {"SAMPLE", "TEXT", "NOTE"}
Row(kind, n) == [kind |-> kind, n |-> n]
OpeningRows == [n \in 1..Opening |-> Row("OPENING", n)]

\* A row's units, and those of a sequence of rows.
Unit(row, half) == [row |-> row, half |-> half]
Units(rows) == [i \in 1..(2 * Len(rows)) |-> Unit(rows[(i + 1) \div 2], 2 - (i % 2))]

Used == head - tail
Room == Size - Used

-----------------------------------------------------------------------------
(* The flight task. *)

\* hal_log_start: launch, or a flight resumed.
Start ==
    \E host \in BOOLEAN :
        /\ state = "NEVER"
        /\ state' = "RUNNING"
        /\ to_host' = host
        /\ taken' = OpeningRows
        /\ UNCHANGED <<head, ring, dropped, text_dropped, put, made, in_flight, writer, fs, timers, passed, beside>>

\* The first period that starts airborne: flash_op_flight_begin.
FlightBegin ==
    /\ state = "RUNNING" /\ ~in_flight
    /\ in_flight' = TRUE
    /\ UNCHANGED <<head, ring, to_host, dropped, text_dropped, put, made, taken, state, writer, fs, timers,
                   passed, beside>>

\* log_put's check.
Fits == Room >= 2

\* log_rationed: text ranks below samples.
Admitted(kind) == Fits /\ (kind = "TEXT" => Used < TextCeiling)

\* hal_log_sample, hal_log_text, hal_log_mock: the row's units go in.
Put(kind) ==
    /\ state = "RUNNING" /\ put = <<>> /\ made < MaxRows
    /\ Admitted(kind)
    /\ ring' = [i \in 0..(Size - 1) |->
           IF i = head % Size THEN Unit(Row(kind, made), 1)
           ELSE IF i = (head + 1) % Size THEN Unit(Row(kind, made), 2) ELSE ring[i]]
    /\ put' = <<Row(kind, made)>>
    /\ made' = made + 1
    /\ UNCHANGED <<head, to_host, dropped, text_dropped, in_flight, taken, state, writer, fs, timers, passed, beside>>

\* And then its head.
Publish ==
    /\ put # <<>>
    /\ head' = head + 2
    /\ taken' = taken \o put
    /\ put' = <<>>
    /\ UNCHANGED <<ring, to_host, dropped, text_dropped, made, in_flight, state, writer, fs, timers, passed, beside>>

Refused(kind) ==
    /\ state = "RUNNING" /\ put = <<>> /\ made < MaxRows
    /\ ~Admitted(kind)
    /\ IF kind = "SAMPLE" THEN dropped' = dropped + 2 /\ UNCHANGED text_dropped
       ELSE text_dropped' = text_dropped + 2 /\ UNCHANGED dropped
    /\ made' = made + 1
    /\ UNCHANGED <<head, ring, to_host, put, in_flight, taken, state, writer, fs, timers, passed, beside>>

\* hal_log_stop, at landing.
Stop ==
    /\ state = "RUNNING" /\ put = <<>>
    /\ state' = "STOPPING"
    /\ in_flight' = FALSE
    /\ UNCHANGED <<head, ring, to_host, dropped, text_dropped, put, made, taken, writer, fs, timers, passed, beside>>

-----------------------------------------------------------------------------
(* A pass of the storage task: log_service. *)

OpeningDone == opened = 2 * Opening

Continues(place) == pass' = place /\ passed' = passed
TickPasses == IF well THEN Passes ELSE 1
PassOver == pass' = "OVER" /\ passed' = IF passed < TickPasses THEN passed + 1 ELSE passed

\* log_finish.  A close stores the file, or fails and is not looked at.
Finish ==
    /\ state' = "IDLE"
    /\ file_open' = FALSE /\ stop_seen' = FALSE
    /\ stored' \in {Len(file)} \cup (IF ~well \/ to_host THEN {stored} ELSE {})

\* The state is read once; a log seen stopping is timed from here.
PassBegins ==
    /\ pass = "OVER" /\ state \in {"RUNNING", "STOPPING"}
    /\ st' = state
    /\ stop_seen' = (state = "STOPPING")
    /\ stop_in' = IF state = "STOPPING" /\ ~stop_seen THEN StopMax ELSE stop_in
    /\ Continues("SEEN")
    /\ UNCHANGED <<flight, state, tail, seen, wrote, fs, holdoff, due_in, sync_in, holdoff_in, beside>>

\* Mutant: only a log whose file is open is given up.
OverdueOpen == st = "STOPPING" /\ stop_in = 0 /\ file_open

Overdue == st = "STOPPING" /\ stop_in = 0

\* Given up: what the ring holds is counted.
GiveUp ==
    /\ pass = "SEEN" /\ Overdue
    /\ dropped' = dropped + Used
    /\ tail' = head
    /\ Finish /\ PassOver
    /\ UNCHANGED <<head, ring, to_host, text_dropped, put, made, in_flight, taken, st, seen, wrote,
                   file, unsynced, opened, holdoff, timers, beside>>

\* A log held for the host is handed over whole in each pass.
HostPass ==
    /\ pass = "SEEN" /\ ~Overdue /\ to_host
    /\ file_open' = TRUE
    /\ file' = file \o SubSeq(Units(OpeningRows), opened + 1, 2 * Opening)
    /\ opened' = 2 * Opening
    /\ Continues("HEAD")
    /\ UNCHANGED <<flight, state, tail, st, seen, wrote, unsynced, stored, holdoff, stop_seen, timers, beside>>

\* [FLT-RT-03] No file before the flight's operations run in slots.
MayOpen == st = "STOPPING" \/ in_flight

NotOpened ==
    /\ pass = "SEEN" /\ ~Overdue /\ ~to_host /\ ~file_open
    /\ ~MayOpen \/ ~well
    /\ PassOver
    /\ UNCHANGED <<flight, state, tail, st, seen, wrote, fs, holdoff, stop_seen, timers, beside>>

OpenFile ==
    /\ pass = "SEEN" /\ ~Overdue /\ ~to_host /\ ~file_open
    /\ MayOpen
    /\ file_open' = TRUE /\ unsynced' = FALSE
    /\ holdoff' = TRUE
    /\ due_in' = Flush /\ sync_in' = 0 /\ holdoff_in' = Holdoff
    /\ UNCHANGED <<flight, state, tail, pass, st, seen, wrote, file, stored, opened, stop_seen, stop_in, passed, beside>>

Full == Used >= Watermark
\* Mutant: the hold-off ends with a full ring only.
HeldOffUntilFull == holdoff /\ ~Full

HeldOff == holdoff /\ ~Full /\ holdoff_in # 0
Due == (~HeldOff /\ due_in = 0) \/ Full \/ st = "STOPPING"

\* log_sync_if_due, in a pass with no write in it.
NotDue ==
    /\ pass = "SEEN" /\ ~Overdue /\ ~to_host /\ file_open
    /\ ~Due
    /\ holdoff' = HeldOff
    /\ IF unsynced /\ sync_in = 0
         THEN /\ sync_in' = Sync
              /\ \/ stored' = Len(file) /\ unsynced' = FALSE
                 \/ ~well /\ UNCHANGED <<stored, unsynced>>
         ELSE UNCHANGED <<sync_in, stored, unsynced>>
    /\ PassOver
    /\ UNCHANGED <<flight, state, tail, st, seen, wrote, file, file_open, opened, stop_seen, due_in, holdoff_in,
                   stop_in, beside>>

WritesDue ==
    /\ pass = "SEEN" /\ ~Overdue /\ ~to_host /\ file_open
    /\ Due
    /\ holdoff' = HeldOff
    /\ Continues("OPENING")
    /\ UNCHANGED <<flight, state, tail, st, seen, wrote, fs, stop_seen, timers, beside>>

\* log_write_opening: a row cut short is gone on with in the next pass.
WriteOpening ==
    /\ pass = "OPENING" /\ ~OpeningDone
    /\ \E n \in 1..(2 - (opened % 2)) :
           /\ n < 2 - (opened % 2) => ~well
           /\ file' = file \o SubSeq(Units(OpeningRows), opened + 1, opened + n)
           /\ opened' = opened + n
           /\ Continues(IF opened' % 2 = 0 THEN "OPENING" ELSE "END")
    /\ unsynced' = TRUE
    /\ UNCHANGED <<flight, state, tail, st, seen, wrote, file_open, stored, holdoff, stop_seen, timers, beside>>

\* Nothing taken: what is left waits for the next pass.
WriteFails ==
    /\ ~well
    /\ ~to_host
    /\ \/ pass = "OPENING" /\ ~OpeningDone
       \/ pass = "SPAN" /\ tail # seen
    /\ Continues("END")
    /\ UNCHANGED <<flight, state, tail, st, seen, wrote, fs, holdoff, stop_seen, timers, beside>>

OpeningOver ==
    /\ pass = "OPENING" /\ OpeningDone
    /\ Continues("HEAD")
    /\ UNCHANGED <<flight, state, tail, st, seen, wrote, fs, holdoff, stop_seen, timers, beside>>

ReadHead ==
    /\ pass = "HEAD"
    /\ seen' = head
    /\ Continues("SPAN")
    /\ UNCHANGED <<flight, state, tail, st, wrote, fs, holdoff, stop_seen, timers, beside>>

\* To the head as it was read, or the ring's end.
Span == IF seen - tail > Size - (tail % Size) THEN Size - (tail % Size) ELSE seen - tail

WriteSpan ==
    /\ pass = "SPAN" /\ tail # seen
    /\ \E n \in 1..Span :
           /\ n < Span => ~well /\ ~to_host
           /\ file' = file \o [i \in 1..n |-> ring[(tail % Size) + i - 1]]
           /\ wrote' = n
    /\ unsynced' = (unsynced \/ ~to_host)
    /\ Continues("TAIL")
    /\ UNCHANGED <<flight, state, tail, st, seen, file_open, stored, opened, holdoff, stop_seen, timers, beside>>

\* Mutant: a span cut short is written again from its start.
TailOfWhole == IF tail + wrote = seen THEN seen ELSE tail

TailMoved == tail + wrote

MoveTail ==
    /\ pass = "TAIL"
    /\ tail' = TailMoved
    /\ Continues("SPAN")
    /\ UNCHANGED <<flight, state, st, seen, wrote, fs, holdoff, stop_seen, timers, beside>>

SpansOver ==
    /\ pass = "SPAN" /\ tail = seen
    /\ Continues("END")
    /\ UNCHANGED <<flight, state, tail, st, seen, wrote, fs, holdoff, stop_seen, timers, beside>>

\* Mutant: a log is closed by the state as it is now.
AllOutNow == state = "STOPPING" /\ tail = seen /\ OpeningDone

\* A log seen stopping at the pass's start, with nothing left of it.
AllOut == st = "STOPPING" /\ tail = head /\ OpeningDone

PassEnds ==
    /\ pass = "END"
    /\ due_in' = IF to_host THEN due_in ELSE Flush
    /\ IF AllOut THEN Finish ELSE UNCHANGED <<state, file_open, stop_seen, stored>>
    /\ PassOver
    /\ UNCHANGED <<flight, tail, st, seen, wrote, file, unsynced, opened, holdoff, sync_in, holdoff_in, stop_in, beside>>

-----------------------------------------------------------------------------
Less(n) == IF n > 0 THEN n - 1 ELSE 0

Tick ==
    /\ pass = "OVER"
    /\ state \in {"RUNNING", "STOPPING"} => passed = TickPasses
    /\ state = "RUNNING" => in_flight
    /\ due_in' = Less(due_in) /\ sync_in' = Less(sync_in)
    /\ holdoff_in' = Less(holdoff_in) /\ stop_in' = Less(stop_in)
    /\ past' = IF well THEN <<Len(taken)>> \o SubSeq(past, 1, Loss - 1) ELSE past
    /\ passed' = 0
    /\ UNCHANGED <<flight, state, writer, fs, well>>

Init ==
    /\ head = 0 /\ tail = 0 /\ ring = [i \in 0..(Size - 1) |-> Unit(Row("NONE", 0), 0)]
    /\ to_host = FALSE /\ dropped = 0 /\ text_dropped = 0 /\ put = <<>> /\ made = 0 /\ in_flight = FALSE
    /\ state = "NEVER"
    /\ pass = "OVER" /\ st = "NEVER" /\ seen = 0 /\ wrote = 0
    /\ file = <<>> /\ file_open = FALSE /\ unsynced = FALSE /\ stored = 0 /\ opened = 0
    /\ holdoff = FALSE /\ stop_seen = FALSE
    /\ due_in = 0 /\ sync_in = 0 /\ holdoff_in = 0 /\ stop_in = 0
    /\ well \in BOOLEAN
    /\ passed = 0 /\ taken = <<>> /\ past = [i \in 1..Loss |-> 0]

Pass ==
    \/ PassBegins \/ GiveUp \/ HostPass \/ NotOpened \/ OpenFile \/ NotDue \/ WritesDue
    \/ WriteOpening \/ WriteFails \/ OpeningOver \/ ReadHead \/ WriteSpan \/ MoveTail \/ SpansOver \/ PassEnds

Next ==
    \/ Start \/ FlightBegin \/ Publish \/ Stop
    \/ \E kind \in Kinds : Put(kind) \/ Refused(kind)
    \/ Pass \/ Tick

\* The storage task passes once a period.
Spec == Init /\ [][Next]_vars /\ WF_vars(Pass) /\ SF_vars(Tick)

-----------------------------------------------------------------------------
TypeOK ==
    /\ state \in {"NEVER", "RUNNING", "STOPPING", "IDLE"} /\ st \in {"NEVER", "RUNNING", "STOPPING"}
    /\ pass \in {"OVER", "SEEN", "OPENING", "HEAD", "SPAN", "TAIL", "END"}
    /\ {well, to_host, in_flight, file_open, unsynced, holdoff, stop_seen} \subseteq BOOLEAN /\ passed \in 0..Passes
    /\ {dropped, text_dropped, made, head, tail, seen, wrote, stored, opened} \subseteq Nat
    /\ made <= MaxRows /\ opened <= 2 * Opening /\ stored <= Len(file)
    /\ due_in \in 0..Flush /\ sync_in \in 0..Sync /\ holdoff_in \in 0..Holdoff /\ stop_in \in 0..StopMax
    \* The ring's counters keep their order, and no more than it holds between them.
    /\ tail <= head /\ Used <= Size

\* FLT-LOG-07: the file is the log's opening and then the rows taken, whole and in
\* order, cut anywhere: no row is torn, repeated or passed over, though the ring
\* turns under the writer and its writes are cut short.
FileInOrder == IsPrefix(file, Units(taken))

\* The ring between its two ends, and the file it is emptied to.
RingInOrder == TypeOK /\ FileInOrder

\* FLT-LOG-06: while the filesystem does its work, a power loss takes no row made
\* Loss - 1 ticks before it or earlier: the hold-off's and a flush's (log_service,
\* log_sync_if_due).
RowsKept == state = "RUNNING" /\ ~to_host /\ well => stored >= 2 * past[Loss]

\* WEB-API-08: a log told to stop gives the filesystem back, whatever its writes do.
StopEnds == state = "STOPPING" ~> state = "IDLE"

\* FLT-LOG-08: the rows the flight makes reach the file in order, and each that
\* does not is counted, what is left of the opening apart: FlightRecord's promise.
LogRows == SubSeq(taken, Opening + 1, Len(taken))
Recorded == IF Len(file) \div 2 > Opening THEN Len(file) \div 2 - Opening ELSE 0
Promised == INSTANCE FlightRecord WITH
    Rows <- [kind : Kinds, n : 0..MaxRows], made <- made - Len(put), taken <- LogRows,
    recorded <- Recorded, lost <- dropped + text_dropped, open <- state \in {"RUNNING", "STOPPING"}
KeepsPromise == Promised!Promise
=============================================================================
