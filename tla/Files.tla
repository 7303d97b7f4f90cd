--------------------------------- MODULE Files ---------------------------------
(***************************************************************************)
(* The board's files and those who use them: the HTTP server's uploads and    *)
(* readers (http_server.c), the whole-file writes of the storage task and the *)
(* configuration (hal_common.c), the store's cleanup, and the RAM copy of the *)
(* pad marker that the flight task reads by a sequence lock.                  *)
(*                                                                         *)
(* A call of the store is a step; a reset may come between any two, and       *)
(* inside a rename.  A wait for the store's lock may time out.                *)
(***************************************************************************)
EXTENDS FlashStore

CONSTANTS
    Conns,                \* connections that upload
    Dest, Part, Pad,      \* the file uploaded, its part file, the cached file
    Tries,                \* hal_fs_read_cached's tries
    MaxResets, MaxTimeouts   \* bounds; timeouts are counted from the last reset

ASSUME FilesConstants ==
    /\ Names = {Dest, Part, Pad} /\ Cardinality(Names) = 3 /\ NoName \notin Names
    /\ {Tries, MaxResets, MaxTimeouts} \subseteq Nat

VARIABLES
    fs,        \* the store
    conn,      \* each upload
    whole,     \* the whole-file write under whole_mutex
    version,   \* the last content anyone began to write
    cache,     \* cached_file_t, and how far cached_store has got
    flight,    \* the flight task in hal_fs_read_cached
    may,       \* the contents each name may hold: the last acknowledged and those tried since
    spoilt,    \* names a short whole-file write was committed to
    resets, timeouts

history == <<may, spoilt>>
bounds == <<resets, timeouts>>
vars == <<fs, conn, whole, version, cache, flight, history, bounds>>

Kept == {Dest, Pad}
Pieces == 1 .. 3                   \* the cached bytes' two halves and their count
Torn == MaxVersion + 1

-----------------------------------------------------------------------------
(* Uploads: one task serves every connection, so what it does in one event no
   other connection comes between. *)

NetFree == \A c \in Conns : conn[c].at \notin {"RENAME", "REMOVE"}

NextVersion == version < MaxVersion /\ version' = version + 1

Bytes(v, w) == [version |-> v, whole |-> w]

UploadOpen(c) ==
    /\ NetFree /\ conn[c].at = "IDLE" /\ CanWrite(fs, Part)
    /\ NextVersion
    /\ fs' = OpenWrite(fs, Part, Bytes(version', FALSE))
    /\ conn' = [conn EXCEPT ![c] = [at |-> "BODY", version |-> version']]
    /\ UNCHANGED <<whole, cache, flight, history, bounds>>

\* The last of the body: all written, or refused and answered 500.
UploadBody(c) ==
    /\ NetFree /\ conn[c].at = "BODY"
    /\ \/ /\ conn' = [conn EXCEPT ![c].at = "WHOLE"]
          /\ fs' = [fs EXCEPT !.writing[Part].got.whole = TRUE]
       \/ /\ conn' = [conn EXCEPT ![c].at = "SHORT"]
          /\ fs' = fs
    /\ UNCHANGED <<whole, version, cache, flight, history, bounds>>

\* A writer's close: done, failed, or never given the lock, which drops the handle.
Closings(n) ==
    {[store |-> r.store, ok |-> r.ok, late |-> 0] : r \in CloseWrite(fs, n)}
    \cup {[store |-> fs, ok |-> FALSE, late |-> 1] : i \in {timeouts} \cap 0 .. MaxTimeouts - 1}

Closed(r) == fs' = r.store /\ timeouts' = timeouts + r.late

UploadClose(c) ==
    /\ NetFree /\ conn[c].at = "WHOLE"
    /\ \E r \in Closings(Part) :
           /\ Closed(r)
           /\ conn' = [conn EXCEPT ![c].at = IF r.ok THEN "RENAME" ELSE "REMOVE"]
    /\ UNCHANGED <<whole, version, cache, flight, history, resets>>

UploadRename(c) ==
    /\ conn[c].at = "RENAME"
    /\ \E r \in Rename(fs, Part, Dest) \cup {Result(fs, FALSE)} :
           /\ fs' = r.store
           /\ conn' = [conn EXCEPT ![c].at = IF r.ok THEN "IDLE" ELSE "REMOVE"]
           /\ may' = [may EXCEPT ![Dest] = IF r.ok THEN {conn[c].version}
                                           ELSE @ \cup {conn[c].version}]
           /\ spoilt' = IF fs'.closed[Dest].version = conn[c].version
                        THEN spoilt \ {Dest} ELSE spoilt
    /\ UNCHANGED <<whole, version, cache, flight, bounds>>

\* conn_release of an upload that did not finish: its part file is closed, and goes.
UploadDies(c) ==
    /\ NetFree /\ conn[c].at \in {"BODY", "SHORT", "WHOLE"}
    /\ \E r \in Closings(Part) : Closed(r)
    /\ conn' = [conn EXCEPT ![c].at = "REMOVE"]
    /\ UNCHANGED <<whole, version, cache, flight, history, resets>>

UploadRemove(c) ==
    /\ conn[c].at = "REMOVE"
    /\ \E r \in Remove(fs, Part) \cup {Result(fs, FALSE)} : fs' = r.store
    /\ conn' = [conn EXCEPT ![c].at = "IDLE"]
    /\ UNCHANGED <<whole, version, cache, flight, history, bounds>>

\* Nothing of the name is on the flash.
Gone(s, n) == s.closed[n] = Absent /\ s.writing[n].is = "NONE"

\* DELETE: a board's own file is refused (vfs_is_internal); a remove that
\* waits for its writer to be let go is answered as done, and a reset forgets it.
DeleteFile ==
    /\ NetFree
    /\ \E r \in Remove(fs, Dest) :
           /\ r.ok /\ fs' = r.store
           /\ may' = [may EXCEPT ![Dest] =
                  IF Gone(fs', Dest) THEN {0} ELSE @ \cup {0}]
           /\ spoilt' = IF fs'.closed[Dest] = Absent THEN spoilt \ {Dest} ELSE spoilt
    /\ UNCHANGED <<conn, whole, version, cache, flight, bounds>>

-----------------------------------------------------------------------------
(* Readers *)

ReadOpen(r) ==
    /\ fs.reading[r] = NoName
    /\ \E n \in Names : fs.up /\ ReadsAs(fs, n) /= Absent /\ fs' = OpenRead(fs, r, n)
    /\ UNCHANGED <<conn, whole, version, cache, flight, history, bounds>>

\* A close that never gets the lock leaves the handle open and counted: to the
\* store, a reader that does not close.
ReadClose(r) ==
    /\ fs.reading[r] /= NoName
    /\ fs' \in CloseRead(fs, r)
    /\ UNCHANGED <<conn, whole, version, cache, flight, history, bounds>>

\* vfs_flash_size and vfs_flash_rewind open the file again.
ReadReopenFails(r) ==
    /\ fs.reading[r] /= NoName
    /\ fs' = Reopened(fs, r)
    /\ UNCHANGED <<conn, whole, version, cache, flight, history, bounds>>

-----------------------------------------------------------------------------
(* write_file: one at a time, under whole_mutex. *)

WholeOpen ==
    /\ whole.at = "IDLE"
    /\ \E n \in Kept :
           /\ CanWrite(fs, n)
           /\ n = Pad => cache.storing = 0
           /\ NextVersion
           /\ fs' = OpenWrite(fs, n, Bytes(version', FALSE))
           /\ whole' = [at |-> "WRITE", name |-> n, version |-> version']
    /\ UNCHANGED <<conn, cache, flight, history, bounds>>

WholeWrite ==
    /\ whole.at = "WRITE"
    /\ \/ /\ whole' = [whole EXCEPT !.at = "WROTE"]
          /\ fs' = [fs EXCEPT !.writing[whole.name].got.whole = TRUE]
       \/ /\ whole' = [whole EXCEPT !.at = "SHORT"]
          /\ fs' = fs
    /\ UNCHANGED <<conn, version, cache, flight, history, bounds>>

\* The close is made whether or not the write was: what was written of a
\* write cut short takes the old file's place, and the caller is told it failed.
WholeClose ==
    /\ whole.at \in {"WROTE", "SHORT"}
    /\ whole' = [whole EXCEPT !.at = "IDLE"]
    /\ \E r \in Closings(whole.name) :
           LET n == whole.name
               rc == r.ok /\ whole.at = "WROTE"
           IN  /\ Closed(r)
               /\ may' = [may EXCEPT ![n] = IF rc THEN {whole.version} ELSE @ \cup {whole.version}]
               /\ spoilt' = IF ~r.ok THEN spoilt
                            ELSE IF rc THEN spoilt \ {n} ELSE spoilt \cup {n}
               /\ cache' = IF rc /\ n = Pad
                           THEN [cache EXCEPT !.storing = 1, !.version = whole.version]
                           ELSE cache
    /\ UNCHANGED <<conn, version, flight, resets>>

-----------------------------------------------------------------------------
(* The cached copy *)

\* cached_store: the count goes odd, the pieces are stored, the count goes even.
CacheBegins ==
    /\ cache.storing = 1
    /\ cache' = [cache EXCEPT !.seq = @ + 1, !.storing = 2]
    /\ UNCHANGED <<fs, conn, whole, version, flight, history, bounds>>

CacheStores ==
    /\ cache.storing - 1 \in Pieces
    /\ cache' = [cache EXCEPT !.piece[cache.storing - 1] = cache.version, !.storing = @ + 1]
    /\ UNCHANGED <<fs, conn, whole, version, flight, history, bounds>>

CacheEnds ==
    /\ cache.storing = 5
    /\ cache' = [cache EXCEPT !.seq = @ + 1, !.storing = 0]
    /\ UNCHANGED <<fs, conn, whole, version, flight, history, bounds>>

Unread == [try |-> 0, seq |-> 0, took |-> 0, piece |-> [i \in Pieces |-> 0], ok |-> FALSE]

\* hal_fs_read_cached: a try at an odd count is spent at once.
TryBegins ==
    /\ flight.try < Tries /\ flight.took = 0
    /\ flight' = IF cache.seq % 2 = 1 THEN [flight EXCEPT !.try = @ + 1]
                 ELSE [flight EXCEPT !.seq = cache.seq, !.took = 1]
    /\ UNCHANGED <<fs, conn, whole, version, cache, history, bounds>>

TryTakes ==
    /\ flight.took \in Pieces
    /\ LET i == 4 - flight.took     \* the count first, then the bytes
       IN  flight' = [flight EXCEPT !.piece[i] = cache.piece[i], !.took = @ + 1]
    /\ UNCHANGED <<fs, conn, whole, version, cache, history, bounds>>

\* Mutant: the count is not looked at again.
TryEndsUnchecked ==
    /\ flight.took = 4
    /\ flight' = [flight EXCEPT !.took = 0, !.try = Tries, !.ok = TRUE]
    /\ UNCHANGED <<fs, conn, whole, version, cache, history, bounds>>

TryEnds ==
    /\ flight.took = 4
    /\ flight' = IF cache.seq = flight.seq
                 THEN [flight EXCEPT !.took = 0, !.try = Tries, !.ok = TRUE]
                 ELSE [Unread EXCEPT !.try = flight.try + 1]
    /\ UNCHANGED <<fs, conn, whole, version, cache, history, bounds>>

ReadsAgain ==
    /\ flight.try = Tries /\ flight.took = 0
    /\ flight' = Unread
    /\ UNCHANGED <<fs, conn, whole, version, cache, history, bounds>>

-----------------------------------------------------------------------------
\* Mutant: the cleanup passes by a store that is not mounted.
CleanMounted ==
    /\ fs.nfailed > 0 /\ fs.up
    /\ fs' \in LetGo(fs)
    /\ UNCHANGED <<conn, whole, version, cache, flight, history, bounds>>

\* The storage task's cleanup: the writers that failed are let go.
Clean ==
    /\ fs.nfailed > 0
    /\ fs' \in LetGo(fs)
    /\ UNCHANGED <<conn, whole, version, cache, flight, history, bounds>>

\* cached_fill at boot: the file as it reads then.
Filled(s) ==
    [seq |-> 0, storing |-> 0, version |-> 0,
     piece |-> [i \in Pieces |->
         IF ReadsAs(s, Pad).whole THEN ReadsAs(s, Pad).version
         ELSE IF ReadsAs(s, Pad) = Absent THEN 0 ELSE Torn]]

Idle == [at |-> "IDLE", version |-> 0]

\* What a whole-file write under way has tried.
Tried(n) == IF whole.at /= "IDLE" /\ whole.name = n THEN {whole.version} ELSE {}

PowerCut ==
    /\ resets < MaxResets
    /\ resets' = resets + 1
    /\ \/ /\ fs' = Reset(fs)
          /\ may' = [n \in Kept |-> may[n] \cup Tried(n)]
       \/ \E c \in Conns :
              /\ conn[c].at = "RENAME"
              /\ \E r \in RenameReaches(fs, Part, Dest) :
                     /\ fs' = Reset(r.store)
                     /\ may' = [n \in Kept |-> may[n] \cup Tried(n)
                                      \cup (IF n = Dest THEN {conn[c].version} ELSE {})]
    /\ spoilt' = {n \in spoilt : fs'.closed[n] = fs.closed[n]}
    /\ conn' = [c \in Conns |-> Idle]
    /\ whole' = [at |-> "IDLE", name |-> Dest, version |-> 0]
    /\ cache' = Filled(fs')
    /\ flight' = Unread
    /\ timeouts' = 0
    /\ UNCHANGED version

Init ==
    /\ fs = EmptyStore
    /\ conn = [c \in Conns |-> Idle]
    /\ whole = [at |-> "IDLE", name |-> Dest, version |-> 0]
    /\ version = 0
    /\ cache = Filled(EmptyStore)
    /\ flight = Unread
    /\ may = [n \in Kept |-> {0}]
    /\ spoilt = {}
    /\ resets = 0
    /\ timeouts = 0

Upload(c) ==
    \/ UploadOpen(c) \/ UploadBody(c) \/ UploadClose(c) \/ UploadRename(c)
    \/ UploadDies(c) \/ UploadRemove(c)

Cached == CacheBegins \/ CacheStores \/ CacheEnds
FlightReads == TryBegins \/ TryTakes \/ TryEnds \/ ReadsAgain

Next ==
    \/ \E c \in Conns : Upload(c)
    \/ \E r \in Readers : ReadOpen(r) \/ ReadClose(r) \/ ReadReopenFails(r)
    \/ DeleteFile
    \/ WholeOpen \/ WholeWrite \/ WholeClose
    \/ Cached \/ FlightReads
    \/ Clean
    \/ PowerCut

\* A mount tried again and again succeeds at last.
Fairness == SF_vars(Clean /\ fs'.up)

Spec == Init /\ [][Next]_vars /\ Fairness

-----------------------------------------------------------------------------
(* Properties *)

TypeOK ==
    /\ fs \in Store
    /\ conn \in [Conns -> [at: {"IDLE", "BODY", "WHOLE", "SHORT", "RENAME", "REMOVE"},
                           version: 0 .. MaxVersion]]
    /\ whole \in [at: {"IDLE", "WRITE", "WROTE", "SHORT"}, name: Kept, version: 0 .. MaxVersion]
    /\ version \in 0 .. MaxVersion
    /\ cache \in [seq: Nat, storing: 0 .. 5, version: 0 .. MaxVersion, piece: [Pieces -> 0 .. Torn]]
    /\ flight \in [try: 0 .. Tries, seq: Nat, took: 0 .. 4, piece: [Pieces -> 0 .. Torn], ok: BOOLEAN]
    /\ may \in [Kept -> SUBSET (0 .. MaxVersion)] /\ spoilt \subseteq Kept
    /\ resets \in 0 .. MaxResets /\ timeouts \in 0 .. MaxTimeouts

Uploading == {c \in Conns : conn[c].at \in {"BODY", "WHOLE", "SHORT"}}
Reading == {r \in Readers : fs.reading[r] /= NoName}

\* No handle in anyone's hands is forgotten by a mount: each writer's file is
\* the one the store holds open, held counts every handle (and one more for
\* each whose close never got the lock), and a writer that failed is nobody's
\* still (vfs_flash.c: held, failed[], let_go).
HandlesKnown ==
    /\ TypeOK
    /\ \A c \in Uploading :
           fs.writing[Part].is = "OPEN" /\ fs.writing[Part].got.version = conn[c].version
    /\ whole.at /= "IDLE" =>
           LET w == fs.writing[whole.name] IN w.is = "OPEN" /\ w.got.version = whole.version
    /\ fs.held = Cardinality(Uploading) + Cardinality(Reading)
                  + (IF whole.at = "IDLE" THEN 0 ELSE 1) + timeouts
    /\ \A f \in fs.failed :
           /\ fs.up => fs.writing[f.name].is = "OPEN"
           /\ f.name = Part => Uploading = {}
           /\ f.name = whole.name => whole.at = "IDLE"

\* What a reader is given: a whole content the name may hold, or nothing if it
\* may have no file.  A part, only of a file that may have had none before it.
Good(n) ==
    LET c == ReadsAs(fs, n) IN
    IF c = Absent THEN 0 \in may[n]
    ELSE c.version \in may[n] /\ (c.whole \/ (fs.closed[n] = Absent /\ 0 \in may[n]))

\* A file that was there reads as one whole content: the last one acknowledged,
\* or one tried since, whatever fails, dies or is reset on the way, and it is
\* never lost (http_server.c uploads; vfs_flash.h "a write that dies part-way
\* leaves the old file as it was").  A first write or copy that a reset or its
\* own failure ended reads as far as it got, of a content tried.  The rule does
\* not hold of a name that a whole-file write cut short was closed over (see
\* WholeClose), until it is next written.
PreviousWhole == \A n \in Kept : n \in spoilt \/ Good(n)

\* What the flight task takes for the pad marker was stored as one, however
\* the storing fell between its reads; and once stored the copy is the file's
\* (hal_fs_read_cached, cached_store, write_file).
CacheTells ==
    /\ flight.ok => \A i, j \in Pieces : flight.piece[i] = flight.piece[j]
    /\ cache.storing = 0 /\ Pad \notin spoilt /\ fs.closed[Pad] /= Absent =>
           \A i \in Pieces : cache.piece[i] = fs.closed[Pad].version

\* A store that a failed mount left down comes back, and once no file is open
\* the writers that failed are let go (let_go, vfs_flash_clean).
StoreComesBack ==
    /\ ~fs.up ~> fs.up
    /\ (fs.nfailed > 0 /\ fs.held = 0) ~> (fs.nfailed = 0 \/ fs.held > 0)
=============================================================================
