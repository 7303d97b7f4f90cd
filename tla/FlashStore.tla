------------------------------ MODULE FlashStore ------------------------------
(***************************************************************************)
(* The flash's file store as vfs_flash.c keeps it: alfs (external, modelled   *)
(* by what vfs_flash.c relies on) and the board's own bookkeeping round it,   *)
(* the handles it counts and the writers whose close failed.                  *)
(*                                                                         *)
(* A store is a record, and every call an operator from a store to the set of *)
(* results it may have; each call is made under the store's lock.  A file's   *)
(* bytes are the version they are of and whether all of them are there.       *)
(***************************************************************************)
EXTENDS FiniteSets, Naturals

CONSTANTS
    Names,          \* files of the store
    Readers,        \* read handles
    MaxVersion,     \* bound: contents ever written
    FailedNames     \* writers whose close failed that the board remembers

ASSUME StoreConstants == MaxVersion \in Nat /\ FailedNames \in Nat /\ IsFiniteSet(Names)

Content == [version: 0 .. MaxVersion, whole: BOOLEAN]
Absent == [version |-> 0, whole |-> FALSE]
NoName == "NONE"

\* closed: the copy a name reads as; writing: the copy beside it, open for
\* writing or left open by a mount; reading: what each reader has open.
Store == [up: BOOLEAN, closed: [Names -> Content],
          writing: [Names -> [is: {"NONE", "OPEN", "LEFT"}, got: Content]],
          reading: [Readers -> Names \cup {NoName}],
          held: Nat, failed: SUBSET [name: Names, remove: BOOLEAN], nfailed: Nat]

NoCopy == [is |-> "NONE", got |-> Absent]
EmptyStore == [up |-> TRUE, closed |-> [n \in Names |-> Absent],
               writing |-> [n \in Names |-> NoCopy],
               reading |-> [r \in Readers |-> NoName],
               held |-> 0, failed |-> {}, nfailed |-> 0]

-----------------------------------------------------------------------------
(* alfs *)

\* A closed copy, or else as much as a reset left of one never closed.
ReadsAs(s, n) ==
    IF s.closed[n] /= Absent \/ s.writing[n].is /= "LEFT"
    THEN s.closed[n] ELSE s.writing[n].got

\* A second writer is refused; a copy a reset left open is blocked out.
CanWrite(s, n) == s.up /\ s.writing[n].is /= "OPEN"

CanDelete(s, n) ==
    s.up /\ s.writing[n].is /= "OPEN" /\ \A r \in Readers : s.reading[r] /= n

Opened(s, n, got) == [s EXCEPT !.writing[n] = [is |-> "OPEN", got |-> got]]

\* The new copy takes the old one's place when it closes.
Committed(s, n) ==
    [s EXCEPT !.closed[n] = s.writing[n].got, !.writing[n] = NoCopy]

Without(s, gone) ==
    [s EXCEPT !.closed = [n \in Names |-> IF n \in gone THEN Absent ELSE @[n]],
              !.writing = [n \in Names |-> IF n \in gone THEN NoCopy ELSE @[n]]]

\* A mount forgets every handle: what was open is left as far as it had been
\* written out, its last page still in its writer's buffer.
Mounted(s) ==
    [s EXCEPT !.up = TRUE,
              !.writing = [n \in Names |->
                  IF @[n].is = "OPEN" THEN [is |-> "LEFT", got |-> [@[n].got EXCEPT !.whole = FALSE]]
                  ELSE @[n]],
              !.reading = [r \in Readers |-> NoName]]

-----------------------------------------------------------------------------
(* vfs_flash.c *)

Failed(s, n, remove) ==
    [s EXCEPT !.nfailed = @ + 1,
              !.failed = IF s.nfailed < FailedNames
                         THEN @ \cup {[name |-> n, remove |-> remove]} ELSE @]

\* Mutant: the failed writers let go while other files are open.
LetGoAtOnce(s) ==
    IF s.nfailed = 0 THEN {s}
    ELSE {[Without(Mounted(s), {f.name : f \in {g \in s.failed : g.remove}})
              EXCEPT !.failed = {}, !.nfailed = 0]}

\* A mount that fails leaves the store unmounted until the next tries.
LetGo(s) ==
    IF s.nfailed = 0 \/ s.held > 0 THEN {s}
    ELSE {[s EXCEPT !.up = FALSE],
          [Without(Mounted(s), {f.name : f \in {g \in s.failed : g.remove}})
              EXCEPT !.failed = {}, !.nfailed = 0]}

Result(s, ok) == [store |-> s, ok |-> ok]

OpenWrite(s, n, got) == [Opened(s, n, got) EXCEPT !.held = @ + 1]

CloseWrite(s, n) ==
    LET left == [s EXCEPT !.held = @ - 1]
    IN  {Result(t, TRUE) : t \in LetGo(Committed(left, n))}
        \cup {Result(t, FALSE) : t \in LetGo(Failed(left, n, FALSE))}

Remove(s, n) ==
    IF \E f \in s.failed : f.name = n
    THEN {Result(t, TRUE) : t \in LetGo([s EXCEPT !.failed =
             {IF f.name = n THEN [f EXCEPT !.remove = TRUE] ELSE f : f \in @}])}
    ELSE IF CanDelete(s, n) THEN {Result(Without(s, {n}), TRUE)} ELSE {Result(s, FALSE)}

\* Mutant: a copy that comes up short is closed like one that does not.
CopyShort(s, from, to) ==
    IF s.closed[from] = Absent \/ ~CanWrite(s, to) THEN {Result(s, FALSE)}
    ELSE {Result(s, FALSE), Result(Committed(Opened(s, to, s.closed[from]), to), TRUE),
          Result(Committed(Opened(s, to, [s.closed[from] EXCEPT !.whole = FALSE]), to), FALSE)}

\* Only a closed file is copied; a copy cut short stays open, failed, and goes
\* when it is let go unless `to` had a closed copy.
Copy(s, from, to) ==
    IF s.closed[from] = Absent \/ ~CanWrite(s, to) THEN {Result(s, FALSE)}
    ELSE {Result(s, FALSE), Result(Committed(Opened(s, to, s.closed[from]), to), TRUE),
          Result(Failed(Opened(s, to, [s.closed[from] EXCEPT !.whole = FALSE]), to,
                        s.closed[to] = Absent), FALSE)}

\* The copy, then the old name: two steps a reset may come between.
RenameReaches(s, from, to) ==
    UNION {IF c.ok /\ CanDelete(c.store, from)
           THEN {Result(c.store, FALSE), Result(Without(c.store, {from}), TRUE)}
           ELSE {Result(c.store, FALSE)} : c \in Copy(s, from, to)}

Rename(s, from, to) ==
    UNION {LET r == IF c.ok /\ CanDelete(c.store, from)
                    THEN Result(Without(c.store, {from}), TRUE) ELSE Result(c.store, FALSE)
           IN  {Result(t, r.ok) : t \in LetGo(r.store)} : c \in Copy(s, from, to)}

OpenRead(s, r, n) == [s EXCEPT !.reading[r] = n, !.held = @ + 1]

CloseRead(s, r) == LetGo([s EXCEPT !.reading[r] = NoName, !.held = @ - 1])

\* A reader that cannot open its file again: its handle is spent.
Reopened(s, r) == [s EXCEPT !.reading[r] = NoName, !.held = @ - 1]

\* A reset: what only the RAM held is gone.
Reset(s) == [Mounted(s) EXCEPT !.held = 0, !.failed = {}, !.nfailed = 0]
=============================================================================
