--------------------------------- MODULE LogLive --------------------------------
(***************************************************************************)
(* The flight log held for a host in test mode (log_live.c): a ring of the    *)
(* log's bytes that the storage task writes and the net task reads, by offset *)
(* from the log's start, with no lock.  The two are tasks of one core and     *)
(* take turns between any two bytes of a copy.                               *)
(*                                                                         *)
(* A byte is its own offset in the log.  One log is written; a new one only   *)
(* makes it worse (log_live_reset moves the head and leaves the bytes).       *)
(***************************************************************************)
EXTENDS Naturals, Sequences, FiniteSetsExt

CONSTANTS
    Size,          \* LOG_LIVE_BYTES
    MaxSpan,       \* bound: the longest write
    MaxRead,       \* bound: the longest answer
    MaxBytes       \* bound: bytes of a log

VARIABLES
    ring, head,
    writer,        \* log_live_write: the offset it writes from, how many, and how many are in
    reader         \* log_live_read: from where, how many, the end it saw, and what it has copied

vars == <<ring, head, writer, reader>>

Idle == [busy |-> FALSE, from |-> 0, n |-> 0, done |-> 0]
Answer == [at |-> "NONE", from |-> 0, n |-> 0, got |-> <<>>]

\* oldest_of(): the oldest byte held when the log has reached end.
OldestOf(end) == IF end > Size THEN end - Size ELSE 0

\* Of more than the ring holds, its last bytes.
WriteBegins(n) ==
    /\ ~writer.busy /\ head + n <= MaxBytes
    /\ LET skipped == Max({n, Size}) - Size
       IN  writer' = [busy |-> TRUE, from |-> head + skipped, n |-> n - skipped, done |-> 0]
    /\ UNCHANGED <<ring, head, reader>>

WriteByte ==
    /\ writer.busy /\ writer.done < writer.n
    /\ LET offset == writer.from + writer.done
       IN  ring' = [ring EXCEPT ![offset % Size] = offset]
    /\ writer' = [writer EXCEPT !.done = @ + 1]
    /\ UNCHANGED <<head, reader>>

\* The head is published after the bytes.
WriteEnds ==
    /\ writer.busy /\ writer.done = writer.n
    /\ head' = writer.from + writer.n
    /\ writer' = Idle
    /\ UNCHANGED <<ring, reader>>

\* serve_flight_live: a host asks from any offset; one no longer held, or past
\* the end, is answered from the oldest.
ReadBegins(since) ==
    /\ reader.at # "COPY"
    /\ LET from == IF since < OldestOf(head) \/ since > head THEN OldestOf(head) ELSE since
       IN  reader' = [at |-> "COPY", from |-> from, n |-> Min({head - from, MaxRead}), got |-> <<>>]
    /\ UNCHANGED <<ring, head, writer>>

ReadByte ==
    /\ reader.at = "COPY" /\ Len(reader.got) < reader.n
    /\ reader' = [reader EXCEPT !.got = Append(@, ring[(reader.from + Len(@)) % Size])]
    /\ UNCHANGED <<ring, head, writer>>

\* What the head has passed over meanwhile is dropped.
ReadEnds ==
    /\ reader.at = "COPY" /\ Len(reader.got) = reader.n
    /\ LET still == OldestOf(head)
           lost == Min({Max({still, reader.from}) - reader.from, reader.n})
       IN  reader' = [at |-> "DONE", from |-> reader.from + lost, n |-> reader.n - lost,
                      got |-> SubSeq(reader.got, lost + 1, reader.n)]
    /\ UNCHANGED <<ring, head, writer>>

Init ==
    /\ ring = [i \in 0 .. Size - 1 |-> MaxBytes]
    /\ head = 0
    /\ writer = Idle
    /\ reader = Answer

Next ==
    \/ \E n \in 1 .. MaxSpan : WriteBegins(n)
    \/ WriteByte \/ WriteEnds
    \/ \E since \in 0 .. MaxBytes : ReadBegins(since)
    \/ ReadByte \/ ReadEnds

Spec == Init /\ [][Next]_vars

-----------------------------------------------------------------------------
\* Each byte answered is the log's at its offset (log_live.h: "a reader that
\* the writer overtook mid-copy drops the bytes it cannot trust").
LiveTells == reader.at = "DONE" =>
    \A i \in 1 .. reader.n : reader.got[i] = reader.from + i - 1
=============================================================================
